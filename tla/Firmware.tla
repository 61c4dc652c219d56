------------------------------- MODULE Firmware ------------------------------
(***************************************************************************)
(* What README.md 186-188 promises of updates, without slots, bootloader,  *)
(* timers or power: the board relies on one image, and at most one other   *)
(* is on trial until it is kept or given up.                               *)
(***************************************************************************)
CONSTANTS Images, None

VARIABLES current, trial

vars == <<current, trial>>

Init == current \in Images /\ trial = None

Activate == trial = None /\ trial' \in Images /\ UNCHANGED current
Keep     == trial # None /\ current' = trial /\ trial' = None
GiveUp   == trial # None /\ trial' = None /\ UNCHANGED current

Next == Activate \/ Keep \/ GiveUp
Spec == Init /\ [][Next]_vars
=============================================================================
