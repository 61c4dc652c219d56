----------------------------- MODULE OtaProofs ------------------------------
(***************************************************************************)
(* Proofs about Ota: the variables keep their types, and an unconfirmed    *)
(* image always has a whole, used image to fall back to, for every kind of *)
(* upload and any number of uploads and power losses; the slots implement  *)
(* Firmware; and what the setup portal stores of a form is what was typed  *)
(* (module Portal).                                                        *)
(***************************************************************************)
EXTENDS Ota, SequenceTheorems, WellFoundedInduction, TLAPS

(* An abbreviation that every step uses.                                   *)
USE DEF flash

(* The slot that the bootloader selects is whole and was not given up.     *)
SelectedGood == slot[sel] # "part" /\ state[sel] # "aborted"

(* Only the selected image can wait for its first boot or confirmation.    *)
WaitsSelected == \A s \in Slots : state[s] \in {"new", "pending"} => sel = s

(* What runs is what was selected, until an upload selects the other slot. *)
RunsSelected ==
    main # "down" =>
        /\ up.pc # "restart" => run = sel
        /\ slot[run] # "part" /\ state[run] \in {"undefined", "pending", "valid"}

(* Uploads are received by a confirmed image only, and a board that is     *)
(* down has neither a network nor a timer.                                 *)
UploadConfirmed ==
    /\ up.pc # "idle" => main = "run" /\ state[run] # "pending"
    /\ net # "off" \/ timer # "off" => main # "down"

SlotInv == TypeOK /\ FallbackIntact /\ SelectedGood /\ WaitsSelected /\ RunsSelected /\ UploadConfirmed

(* Other maps each of the two slots to the one that is not it.             *)
LEMMA OtherSlot == ASSUME NEW s \in Slots
                   PROVE  Other(s) \in Slots /\ Other(s) # s /\ Other(Other(s)) = s
BY DEF Slots, Other

(* There are no more than two slots.                                       *)
LEMMA TwoSlots == ASSUME NEW s \in Slots, NEW t \in Slots
                  PROVE  t = s \/ t = Other(s)
BY DEF Slots, Other

(* A fresh board satisfies every part of the invariant.                    *)
LEMMA SlotInit == Init => SlotInv
<1> SUFFICES ASSUME Init PROVE SlotInv
    OBVIOUS
<1>1. creds \in {"none", "right", "wrong"}
    BY DEF Init
<1>2. wifi \in BOOLEAN /\ fits \in BOOLEAN
    BY DEF Init
<1> QED BY <1>1, <1>2, OtaAssumption
   DEF Init, SlotInv, TypeOK, FallbackIntact, SelectedGood, WaitsSelected, RunsSelected,
       UploadConfirmed, NoUpload, Slots, Other, Image, ImgState

(* A reset keeps flash and with it every part that speaks of it.           *)
FlashTyped == wifi \in BOOLEAN /\ creds \in {"none", "right", "wrong"} /\ fits \in BOOLEAN
LEMMA ResetKeeps == SlotInv /\ Reset /\ FlashTyped' /\ losses' \in 0..MaxLosses => SlotInv'
BY OtaAssumption
   DEF Reset, FlashTyped, SlotInv, TypeOK, FallbackIntact, SelectedGood, WaitsSelected, RunsSelected,
       UploadConfirmed, NoUpload, Image

(* The bootloader takes a new image once and leaves an unconfirmed one.    *)
LEMMA BootKeeps == SlotInv /\ Boot => SlotInv'
<1> SUFFICES ASSUME SlotInv, Boot PROVE SlotInv'
    OBVIOUS
<1>0. sel \in Slots /\ Other(sel) \in Slots /\ Other(sel) # sel /\ Other(Other(sel)) = sel
    BY OtherSlot DEF SlotInv, TypeOK
<1>a. \A t \in Slots : t = sel \/ t = Other(sel)
    BY <1>0, TwoSlots
<1>1. CASE state[sel] = "pending"
  <2>1. state' = [state EXCEPT ![sel] = "aborted"] /\ sel' = Other(sel) /\ run' = Other(sel)
      BY <1>1 DEF Boot
  <2>2. slot[Other(sel)] # "part" /\ state[Other(sel)] \in {"undefined", "valid"}
      BY <1>0, <1>1 DEF SlotInv, FallbackIntact
  <2>3. state'[sel] = "aborted" /\ state'[Other(sel)] = state[Other(sel)]
      BY <1>0, <2>1 DEF SlotInv, TypeOK
  <2>4. TypeOK'
      BY <1>0, <2>1 DEF SlotInv, TypeOK, Boot, ImgState
  <2>5. FallbackIntact' /\ WaitsSelected'
      BY <1>a, <2>2, <2>3 DEF FallbackIntact, WaitsSelected
  <2>6. SelectedGood' /\ RunsSelected' /\ UploadConfirmed'
      BY <2>1, <2>2, <2>3 DEF SlotInv, SelectedGood, RunsSelected, UploadConfirmed, Boot
  <2> QED BY <2>4, <2>5, <2>6 DEF SlotInv
<1>2. CASE state[sel] = "new"
  <2>1. state' = [state EXCEPT ![sel] = "pending"] /\ sel' = sel /\ run' = sel
      BY <1>2 DEF Boot
  <2>2. state'[sel] = "pending" /\ state'[Other(sel)] = state[Other(sel)]
      BY <1>0, <2>1 DEF SlotInv, TypeOK
  <2>3. slot[Other(sel)] # "part" /\ state[Other(sel)] \in {"undefined", "valid"}
      BY <1>0, <1>2 DEF SlotInv, FallbackIntact
  <2>4. TypeOK'
      BY <1>0, <2>1 DEF SlotInv, TypeOK, Boot, ImgState
  <2>5. FallbackIntact' /\ WaitsSelected'
      BY <1>0, <1>a, <2>1, <2>2, <2>3 DEF FallbackIntact, WaitsSelected, Boot
  <2>6. SelectedGood' /\ RunsSelected' /\ UploadConfirmed'
      BY <2>1, <2>2 DEF SlotInv, SelectedGood, RunsSelected, UploadConfirmed, Boot
  <2> QED BY <2>4, <2>5, <2>6 DEF SlotInv
<1>3. CASE state[sel] \notin {"new", "pending"}
  <2>1. state' = state /\ sel' = sel /\ run' = sel /\ slot' = slot
      BY <1>3 DEF Boot
  <2>2. TypeOK'
      BY <2>1 DEF SlotInv, TypeOK, Boot
  <2>3. state[sel] \in {"undefined", "valid"}
      BY <1>0, <1>3 DEF SlotInv, TypeOK, ImgState, SelectedGood
  <2>4. FallbackIntact' /\ WaitsSelected' /\ SelectedGood' /\ RunsSelected' /\ UploadConfirmed'
      BY <2>1, <2>3
         DEF SlotInv, FallbackIntact, WaitsSelected, SelectedGood, RunsSelected, UploadConfirmed, Boot
  <2> QED BY <2>2, <2>4 DEF SlotInv
<1> QED BY <1>1, <1>2, <1>3

(* The start of app_main and the events that leave the slots alone.        *)
LEMMA QuietKeeps ==
    SlotInv /\ (NetStart \/ (BtInit /\ main' = "ota") \/ OtaInit \/ Arm \/ Expire
                \/ NotFound \/ Assign \/ LinkLost \/ LinkUp \/ Disconnected) => SlotInv'
<1> SUFFICES ASSUME SlotInv,
                    NetStart \/ (BtInit /\ main' = "ota") \/ OtaInit \/ Arm \/ Expire
                    \/ NotFound \/ Assign \/ LinkLost \/ LinkUp \/ Disconnected
             PROVE  SlotInv'
    OBVIOUS
<1>1. UNCHANGED <<slot, state, sel, run, flash, up, uploads, losses>>
    BY DEF NetStart, NetStartEth, NetStartWifi, BtInit, OtaInit, Arm, Expire, NotFound, Assign, LinkLost, LinkUp, Disconnected,
           Event, Rest, Reset
<1>2. main # "down" /\ main' # "down" /\ (main = "run" => main' = "run")
    BY DEF NetStart, NetStartEth, NetStartWifi, BtInit, OtaInit, Arm, Expire, NotFound, Assign, LinkLost, LinkUp, Disconnected,
           Event, SlotInv, UploadConfirmed, Reset, RunsSelected
<1>3. main' \in {"down", "start", "bt", "ota", "arm", "run", "portal"}
      /\ net' \in {"off", "connecting", "lost", "assigned", "seen"}
      /\ timer' \in {"off", "armed", "firing"}
    BY DEF NetStart, NetStartEth, NetStartWifi, BtInit, OtaInit, Arm, Expire, NotFound, Assign, LinkLost, LinkUp, Disconnected,
           Event, SlotInv, TypeOK, RetryTo, Reset
<1> QED BY <1>1, <1>2, <1>3
        DEF SlotInv, TypeOK, FallbackIntact, SelectedGood, WaitsSelected, RunsSelected, UploadConfirmed

(* A confirmation only turns the running image from pending to valid.      *)
LEMMA GotIpKeeps == SlotInv /\ GotIp => SlotInv'
<1> SUFFICES ASSUME SlotInv, GotIp PROVE SlotInv'
    OBVIOUS
<1>1. UNCHANGED <<slot, sel, run, main, flash, up, uploads, losses>> /\ main # "down"
    BY DEF GotIp, Rest, SlotInv, UploadConfirmed
<1>2. CASE ~pending_verify
    BY <1>1, <1>2 DEF GotIp, SlotInv, TypeOK, FallbackIntact, SelectedGood, WaitsSelected, RunsSelected,
                      UploadConfirmed
<1>3. CASE pending_verify
  <2>1. state' = [state EXCEPT ![run] = "valid"] /\ run \in Slots
      BY <1>3 DEF GotIp, SlotInv, TypeOK
  <2>2. state'[run] = "valid" /\ \A t \in Slots : t # run => state'[t] = state[t]
      BY <2>1 DEF SlotInv, TypeOK
  <2>3. TypeOK'
      BY <1>1, <2>1 DEF SlotInv, TypeOK, GotIp, ImgState
  <2>4. FallbackIntact'
    <3> SUFFICES ASSUME NEW s \in Slots, state'[s] \in {"new", "pending"}
                 PROVE  slot'[Other(s)] # "part" /\ state'[Other(s)] \in {"undefined", "valid"}
        BY DEF FallbackIntact
    <3>1. state[s] \in {"new", "pending"} /\ Other(s) \in Slots
        BY <2>2, OtherSlot
    <3> QED BY <1>1, <2>2, <3>1 DEF SlotInv, FallbackIntact
  <2>5. SelectedGood' /\ WaitsSelected' /\ RunsSelected' /\ UploadConfirmed'
      BY <1>1, <2>2 DEF SlotInv, TypeOK, SelectedGood, WaitsSelected, RunsSelected, UploadConfirmed
  <2> QED BY <2>3, <2>4, <2>5 DEF SlotInv
<1> QED BY <1>2, <1>3

(* An upload starts in the slot that neither runs nor waits.               *)
LEMMA BeginKeeps == SlotInv /\ OtaBegin => SlotInv'
<1> SUFFICES ASSUME SlotInv, OtaBegin PROVE SlotInv'
    OBVIOUS
<1>0. run \in Slots /\ run = sel /\ Other(run) \in Slots /\ Other(run) # run /\ main = "run"
    BY OtherSlot DEF SlotInv, TypeOK, RunsSelected, OtaBegin
<1>1. UNCHANGED <<state, sel, run, main, net, timer, flash, losses>>
      /\ slot' = [slot EXCEPT ![Other(run)] = "part"]
    BY DEF OtaBegin, Booted
<1>2. slot'[run] = slot[run]
    BY <1>0, <1>1 DEF SlotInv, TypeOK
<1>3. state[run] \in {"undefined", "valid"}
    BY <1>0 DEF SlotInv, RunsSelected, OtaBegin, BeginOk, pending_verify
<1>4. state[Other(run)] \notin {"new", "pending"}
    BY <1>0 DEF SlotInv, WaitsSelected
<1>5. TypeOK'
  <2>1. slot' \in [Slots -> Image \cup {"part"}]
      BY <1>1 DEF SlotInv, TypeOK
  <2>2. up' \in [pc : {"idle", "recv", "restart"}, img : Image, proven : BOOLEAN, left : 0..Chunks,
                 timeouts : 0..OTA_MAX_RECV_TIMEOUTS - 1]
      BY OtaAssumption DEF OtaBegin
  <2>3. uploads' \in 0..MaxUploads
      BY OtaAssumption DEF OtaBegin, SlotInv, TypeOK
  <2> QED BY <1>1, <2>1, <2>2, <2>3 DEF SlotInv, TypeOK
<1>6. FallbackIntact'
  <2>1. \A s \in Slots : state'[s] \notin {"new", "pending"}
      BY <1>0, <1>1, <1>3, <1>4, TwoSlots
  <2> QED BY <2>1 DEF FallbackIntact
<1>7. SelectedGood' /\ WaitsSelected' /\ RunsSelected' /\ UploadConfirmed'
    BY <1>0, <1>1, <1>2, <1>3 DEF SlotInv, SelectedGood, WaitsSelected, RunsSelected, UploadConfirmed
<1> QED BY <1>5, <1>6, <1>7 DEF SlotInv

(* Reading the body changes nothing but the upload itself.                 *)
LEMMA RecvKeeps == SlotInv /\ (OtaRecv \/ OtaTimeout \/ OtaAbort) => SlotInv'
<1> SUFFICES ASSUME SlotInv, OtaRecv \/ OtaTimeout \/ OtaAbort PROVE SlotInv'
    OBVIOUS
<1>1. UNCHANGED <<slot, state, sel, run, main, net, timer, flash, uploads, losses>>
    BY DEF OtaRecv, OtaTimeout, OtaAbort, Booted
<1> DEFINE Upload == [pc : {"idle", "recv", "restart"}, img : Image, proven : BOOLEAN, left : 0..Chunks,
                      timeouts : 0..OTA_MAX_RECV_TIMEOUTS - 1]
<1>2. up \in Upload /\ up.pc = "recv"
    BY DEF OtaRecv, OtaTimeout, OtaAbort, SlotInv, TypeOK
<1>3. up' \in Upload /\ up'.pc \in {"idle", "recv"}
  <2>1. CASE OtaRecv
    <3>1. up.left - 1 \in 0..Chunks /\ 0 \in 0..OTA_MAX_RECV_TIMEOUTS - 1
        BY <1>2, <2>1, OtaAssumption DEF OtaRecv
    <3>2. up' = [up EXCEPT !.left = up.left - 1, !.timeouts = 0]
        BY <2>1 DEF OtaRecv
    <3> QED BY <1>2, <3>1, <3>2
  <2>2. CASE OtaTimeout
    <3>1. (up.timeouts + 1) % OTA_MAX_RECV_TIMEOUTS \in 0..OTA_MAX_RECV_TIMEOUTS - 1
        BY <1>2, OtaAssumption
    <3>2. NoUpload \in Upload /\ NoUpload.pc = "idle"
        BY OtaAssumption DEF NoUpload, Image
    <3>3. up' = NoUpload \/ up' = [up EXCEPT !.timeouts = (up.timeouts + 1) % OTA_MAX_RECV_TIMEOUTS]
        BY <2>2 DEF OtaTimeout
    <3> HIDE DEF NoUpload
    <3> QED BY <1>2, <3>1, <3>2, <3>3
  <2>3. CASE OtaAbort
      BY <2>3, OtaAssumption DEF OtaAbort, NoUpload, Image
  <2> QED BY <2>1, <2>2, <2>3
<1> QED BY <1>1, <1>2, <1>3
        DEF SlotInv, TypeOK, FallbackIntact, SelectedGood, WaitsSelected, RunsSelected, UploadConfirmed

(* A finished upload selects the other slot; the running one stays whole.  *)
LEMMA EndKeeps == SlotInv /\ OtaEnd => SlotInv'
<1> SUFFICES ASSUME SlotInv, OtaEnd PROVE SlotInv'
    OBVIOUS
<1>0. run \in Slots /\ run = sel /\ Other(run) \in Slots /\ Other(run) # run
      /\ Other(Other(run)) = run /\ main = "run" /\ state[run] # "pending"
    BY OtherSlot DEF SlotInv, TypeOK, RunsSelected, UploadConfirmed, OtaEnd
<1>a. \A t \in Slots : t = run \/ t = Other(run)
    BY <1>0, TwoSlots
<1>1. UNCHANGED <<run, main, net, timer, flash, uploads, losses>>
    BY DEF OtaEnd
<1>2. state[run] \in {"undefined", "valid"} /\ slot[run] # "part"
    BY <1>0 DEF SlotInv, RunsSelected
<1>3. CASE up' = NoUpload /\ UNCHANGED <<slot, state, sel>>
    BY <1>0, <1>1, <1>3, OtaAssumption
       DEF SlotInv, TypeOK, FallbackIntact, SelectedGood, WaitsSelected, RunsSelected, UploadConfirmed,
           NoUpload, Image
<1>4. CASE /\ slot' = [slot EXCEPT ![Other(run)] = up.img]
           /\ state' = [state EXCEPT ![Other(run)] = "new"]
           /\ sel' = Other(run)
           /\ up' = [NoUpload EXCEPT !.pc = "restart"]
  <2>1. /\ state'[Other(run)] = "new" /\ state'[run] = state[run]
        /\ slot'[Other(run)] = up.img /\ slot'[run] = slot[run]
      BY <1>0, <1>4 DEF SlotInv, TypeOK
  <2>2. up.img \in Image /\ "part" \notin Image
      BY DEF SlotInv, TypeOK, Image
  <2>3. TypeOK'
    <3>1. slot' \in [Slots -> Image \cup {"part"}]
        BY <1>4, <2>2 DEF SlotInv, TypeOK
    <3>2. state' \in [Slots -> ImgState]
        BY <1>4 DEF SlotInv, TypeOK, ImgState
    <3>3. up' \in [pc : {"idle", "recv", "restart"}, img : Image, proven : BOOLEAN, left : 0..Chunks,
                   timeouts : 0..OTA_MAX_RECV_TIMEOUTS - 1]
      <4>1. up' = [NoUpload EXCEPT !.pc = "restart"]
          BY <1>4
      <4>2. NoUpload \in [pc : {"idle", "recv", "restart"}, img : Image, proven : BOOLEAN, left : 0..Chunks,
                          timeouts : 0..OTA_MAX_RECV_TIMEOUTS - 1]
          BY OtaAssumption DEF NoUpload, Image
      <4> QED BY <4>1, <4>2
    <3> QED BY <1>0, <1>1, <1>4, <3>1, <3>2, <3>3 DEF SlotInv, TypeOK
  <2>4. FallbackIntact' /\ WaitsSelected'
      BY <1>0, <1>a, <1>2, <1>4, <2>1 DEF FallbackIntact, WaitsSelected
  <2>5. SelectedGood' /\ RunsSelected' /\ UploadConfirmed'
      BY <1>0, <1>1, <1>2, <1>4, <2>1, <2>2
         DEF SlotInv, SelectedGood, RunsSelected, UploadConfirmed, NoUpload
  <2> QED BY <2>3, <2>4, <2>5 DEF SlotInv
<1> QED BY <1>3, <1>4 DEF OtaEnd, EndOk

(* However much of a form arrives, the save ends in one of the known ways. *)
LEMMA SavesTyped ==
    \A s \in Saves : s.creds \in {"none", "right", "wrong"} /\ s.fits \in BOOLEAN
<1> SUFFICES ASSUME NEW s \in Saves
             PROVE  s.creds \in {"none", "right", "wrong"} /\ s.fits \in BOOLEAN
    OBVIOUS
<1>1. PICK x \in Posts :
        s = [creds |-> IF Stored(Body(x.form), x.n) = x.form THEN "right" ELSE "wrong", fits |-> Fits(x)]
    BY DEF Saves
<1>2. Fits(x) \in BOOLEAN
    BY DEF Fits
<1> QED BY <1>1, <1>2

(* Every step keeps the invariant.                                         *)
LEMMA SlotStep == SlotInv /\ [Next]_vars => SlotInv'
<1> SUFFICES ASSUME SlotInv, [Next]_vars PROVE SlotInv'
    OBVIOUS
<1>0. FlashTyped /\ losses \in 0..MaxLosses
    BY DEF SlotInv, TypeOK, FlashTyped
<1>a. UNCHANGED flash => FlashTyped'
    BY <1>0 DEF FlashTyped
<1>1. CASE Boot
    BY <1>1, BootKeeps
<1>2. CASE NetStart \/ OtaInit \/ Arm \/ Expire \/ NotFound \/ Assign \/ LinkLost \/ LinkUp \/ Disconnected
    BY <1>2, QuietKeeps
<1>3. CASE BtInit
    BY <1>0, <1>a, <1>3, QuietKeeps, ResetKeeps DEF BtInit
<1>4. CASE RollBack \/ OtaRestart
    BY <1>0, <1>a, <1>4, ResetKeeps DEF RollBack, OtaRestart
<1>5. CASE PortalSave
  <2>1. \A s \in Saves : s.creds \in {"none", "right", "wrong"} /\ s.fits \in BOOLEAN
      BY SavesTyped
  <2>2. FlashTyped'
      BY <1>0, <1>5, <2>1 DEF PortalSave, FlashTyped
  <2> QED BY <1>0, <1>5, <2>2, ResetKeeps DEF PortalSave
<1>6. CASE PowerLoss
  <2>1. losses' \in 0..MaxLosses
      BY <1>0, <1>6, OtaAssumption DEF PowerLoss
  <2> QED BY <1>0, <1>a, <1>6, <2>1, ResetKeeps DEF PowerLoss
<1>7. CASE GotIp
    BY <1>7, GotIpKeeps
<1>8. CASE OtaBegin
    BY <1>8, BeginKeeps
<1>9. CASE OtaRecv \/ OtaTimeout \/ OtaAbort
    BY <1>9, RecvKeeps
<1>10. CASE OtaEnd
    BY <1>10, EndKeeps
<1>11. CASE UNCHANGED vars
    BY <1>11 DEF vars, SlotInv, TypeOK, FallbackIntact, SelectedGood, WaitsSelected, RunsSelected,
                 UploadConfirmed
<1> QED BY <1>1, <1>2, <1>3, <1>4, <1>5, <1>6, <1>7, <1>8, <1>9, <1>10, <1>11
        DEF Next, MainStep, Events, Timer, OtaTask

(* The invariant holds in every reachable state.                           *)
LEMMA SlotAlways == Spec => []SlotInv
<1>1. Init => SlotInv
    BY SlotInit
<1>2. SlotInv /\ [Next]_vars => SlotInv'
    BY SlotStep
<1> QED BY <1>1, <1>2, PTL DEF Spec

(* The variables of the slots, the start-up and the upload keep their      *)
(* types.                                                                  *)
THEOREM OtaTypeCorrect == Spec => []TypeOK
<1>1. SlotInv => TypeOK
    BY DEF SlotInv
<1> QED BY <1>1, SlotAlways, PTL

(* README.md 186-187: whenever an image is new or unconfirmed, the other   *)
(* slot holds a whole image that has been in use.                          *)
THEOREM FallbackAlwaysIntact == Spec => []FallbackIntact
<1>1. SlotInv => FallbackIntact
    BY DEF SlotInv
<1> QED BY <1>1, SlotAlways, PTL

-----------------------------------------------------------------------------
(* The slots implement the abstract pair of images.                        *)

(* A fresh board relies on the image it was flashed with.                  *)
LEMMA AbsInit == Init => Abs!Init
BY DEF Init, Abs!Init, Current, Trial, Waiting, Slots, Image

(* Steps that leave the slots and their states alone.                      *)
LEMMA AbsQuiet == UNCHANGED <<slot, state, sel>> => UNCHANGED Abs!vars
BY DEF Abs!vars, Current, Trial, Waiting

(* The first boot of an image changes nothing, the second gives it up.     *)
LEMMA AbsBoot == SlotInv /\ Boot => Abs!Next \/ UNCHANGED Abs!vars
<1> SUFFICES ASSUME SlotInv, Boot PROVE Abs!Next \/ UNCHANGED Abs!vars
    OBVIOUS
<1>0. sel \in Slots /\ Other(sel) \in Slots /\ Other(sel) # sel /\ slot' = slot
    BY OtherSlot DEF SlotInv, TypeOK, Boot
<1>1. CASE state[sel] = "pending"
  <2>1. sel' = Other(sel) /\ state'[Other(sel)] = state[Other(sel)]
      BY <1>0, <1>1 DEF Boot, SlotInv, TypeOK
  <2>2. state[Other(sel)] \in {"undefined", "valid"}
      BY <1>0, <1>1 DEF SlotInv, FallbackIntact
  <2>3. slot[sel] # "none"
      BY <1>0 DEF SlotInv, TypeOK, Image
  <2>4. Waiting /\ ~Waiting'
      BY <1>1, <2>1, <2>2 DEF Waiting
  <2>5. Current' = Current /\ Trial # "none" /\ Trial' = "none"
      BY <1>0, <2>1, <2>3, <2>4 DEF Current, Trial
  <2> QED BY <2>5 DEF Abs!Next, Abs!GiveUp
<1>2. CASE state[sel] = "new"
  <2>1. sel' = sel /\ state'[sel] = "pending"
      BY <1>0, <1>2 DEF Boot, SlotInv, TypeOK
  <2> QED BY <1>0, <1>2, <2>1 DEF Abs!vars, Current, Trial, Waiting
<1>3. CASE state[sel] \notin {"new", "pending"}
    BY <1>0, <1>3, AbsQuiet DEF Boot
<1> QED BY <1>1, <1>2, <1>3

(* A confirmation keeps the image on trial.                                *)
LEMMA AbsGotIp == SlotInv /\ GotIp => Abs!Next \/ UNCHANGED Abs!vars
<1> SUFFICES ASSUME SlotInv, GotIp PROVE Abs!Next \/ UNCHANGED Abs!vars
    OBVIOUS
<1>0. slot' = slot /\ sel' = sel /\ main # "down" /\ run \in Slots
    BY DEF GotIp, Rest, SlotInv, TypeOK, UploadConfirmed
<1>1. CASE pending_verify
  <2>1. sel = run /\ state[run] = "pending" /\ state'[run] = "valid"
      BY <1>0, <1>1 DEF GotIp, pending_verify, SlotInv, TypeOK, WaitsSelected
  <2>2. slot[sel] # "none"
      BY <1>0, <2>1 DEF SlotInv, TypeOK, Image
  <2> QED BY <1>0, <2>1, <2>2 DEF Abs!Next, Abs!Keep, Current, Trial, Waiting
<1>2. CASE ~pending_verify
    BY <1>0, <1>2, AbsQuiet DEF GotIp
<1> QED BY <1>1, <1>2

(* An upload overwrites what nobody relies on.                             *)
LEMMA AbsBegin == SlotInv /\ OtaBegin => UNCHANGED Abs!vars
<1> SUFFICES ASSUME SlotInv, OtaBegin PROVE UNCHANGED Abs!vars
    OBVIOUS
<1>0. run \in Slots /\ run = sel /\ Other(run) \in Slots /\ Other(run) # run
    BY OtherSlot DEF SlotInv, TypeOK, RunsSelected, OtaBegin
<1>1. UNCHANGED <<state, sel>> /\ slot'[sel] = slot[sel]
    BY <1>0 DEF OtaBegin, Booted, SlotInv, TypeOK
<1>2. ~Waiting
    BY <1>0 DEF SlotInv, RunsSelected, OtaBegin, BeginOk, pending_verify, Waiting
<1> QED BY <1>1, <1>2 DEF Abs!vars, Current, Trial, Waiting

(* A finished upload puts a whole image on trial.                          *)
LEMMA AbsEnd == SlotInv /\ OtaEnd => Abs!Next \/ UNCHANGED Abs!vars
<1> SUFFICES ASSUME SlotInv, OtaEnd PROVE Abs!Next \/ UNCHANGED Abs!vars
    OBVIOUS
<1>0. run \in Slots /\ run = sel /\ Other(run) \in Slots /\ Other(run) # run
      /\ Other(Other(run)) = run /\ ~Waiting
    BY OtherSlot DEF SlotInv, TypeOK, RunsSelected, UploadConfirmed, OtaEnd, Waiting
<1>1. CASE UNCHANGED <<slot, state, sel>>
    BY <1>1, AbsQuiet
<1>2. CASE /\ slot' = [slot EXCEPT ![Other(run)] = up.img]
           /\ state' = [state EXCEPT ![Other(run)] = "new"]
           /\ sel' = Other(run)
  <2>1. state'[sel'] = "new" /\ slot'[sel'] = up.img /\ slot'[run] = slot[run]
      BY <1>0, <1>2 DEF SlotInv, TypeOK
  <2>2. Waiting' /\ Trial = "none" /\ Trial' = up.img /\ up.img \in Image
      BY <1>0, <2>1 DEF Waiting, Trial, SlotInv, TypeOK
  <2>3. Current' = Current
      BY <1>0, <1>2, <2>1, <2>2 DEF Current
  <2> QED BY <2>2, <2>3 DEF Abs!Next, Abs!Activate
<1> QED BY <1>1, <1>2 DEF OtaEnd, EndOk

(* Every step is one of the abstract steps, or none.                       *)
LEMMA AbsStep == SlotInv /\ [Next]_vars => [Abs!Next]_(Abs!vars)
<1> SUFFICES ASSUME SlotInv, [Next]_vars PROVE Abs!Next \/ UNCHANGED Abs!vars
    OBVIOUS
<1>1. CASE Boot
    BY <1>1, AbsBoot
<1>2. CASE GotIp
    BY <1>2, AbsGotIp
<1>3. CASE OtaBegin
    BY <1>3, AbsBegin
<1>4. CASE OtaEnd
    BY <1>4, AbsEnd
<1>5. CASE NetStart \/ BtInit \/ OtaInit \/ Arm \/ Expire \/ NotFound \/ Assign \/ LinkLost
           \/ LinkUp \/ Disconnected
  <2>1. UNCHANGED <<slot, state, sel>>
      BY <1>5 DEF NetStart, NetStartEth, NetStartWifi, BtInit, OtaInit, Arm, Expire, NotFound, Assign, LinkLost, LinkUp,
                  Disconnected, Event, Rest, Reset
  <2> QED BY <2>1, AbsQuiet
<1>6. CASE RollBack \/ OtaRestart \/ PortalSave \/ PowerLoss \/ OtaRecv \/ OtaTimeout \/ OtaAbort
           \/ UNCHANGED vars
  <2>1. UNCHANGED <<slot, state, sel>>
      BY <1>6 DEF RollBack, OtaRestart, PortalSave, PowerLoss, OtaRecv, OtaTimeout, OtaAbort,
                  Booted, Reset, vars
  <2> QED BY <2>1, AbsQuiet
<1> QED BY <1>1, <1>2, <1>3, <1>4, <1>5, <1>6 DEF Next, MainStep, Events, Timer, OtaTask

(* README.md 186-188: for every kind of upload and any number of uploads   *)
(* and power losses, the slots behave as one image that is relied on and   *)
(* at most one on trial, each of them whole.                               *)
THEOREM OtaImplementsFirmware == Spec => ImplementsFirmware
<1>1. Init => Abs!Init
    BY AbsInit
<1>2. SlotInv /\ [Next]_vars => [Abs!Next]_(Abs!vars)
    BY AbsStep
<1> QED BY <1>1, <1>2, SlotAlways, PTL DEF Spec, ImplementsFirmware, Abs!Spec

-----------------------------------------------------------------------------
(* The form.  What a recursive function computes is shown by induction, in *)
(* the form of a set that holds 0 and each next number.                    *)

LEMMA UptoInduction ==
    ASSUME NEW n \in Nat, NEW G, 0 \in G, \A i \in 1..n : i - 1 \in G => i \in G
    PROVE  0..n \subseteq G
<1> DEFINE B == (0..n) \ G
<1> SUFFICES ASSUME B # {} PROVE FALSE
    OBVIOUS
<1>1. B \subseteq Nat
    OBVIOUS
<1>2. PICK m \in B : \A k \in B : ~(k < m)
    <2> DEFINE R == OpToRel(<, Nat)
    <2>1. \E m \in B : \A k \in B : ~(<<k, m>> \in R)
        <3> HIDE DEF B, R
        <3>1. IsWellFoundedOn(R, Nat)
            BY NatLessThanWellFounded DEF R
        <3> QED BY <1>1, <3>1, WFMin
    <2>2. \A k, m \in Nat : k < m => <<k, m>> \in R
        BY DEF OpToRel
    <2> QED BY <1>1, <2>1, <2>2
<1>3. m \in 1..n /\ m \notin G
    BY <1>1, <1>2
<1>4. m - 1 \in 0..n /\ m - 1 < m
    BY <1>3
<1>5. m - 1 \in G
    BY <1>2, <1>4
<1> QED BY <1>3, <1>5

Bytes == 1..255
(* What a browser writes for a byte: never an Amp or one of the names.     *)
Codes == {Plus, Percent} \cup 48..57 \cup 65..70 \cup Letters

(* A digit is read as it was written.                                      *)
LEMMA HexDigit ==
    ASSUME NEW d \in 0..15
    PROVE  Hex(d) \in Codes /\ Digit(Hex(d)) = d
<1>1. CASE d < 10
    BY <1>1 DEF Hex, Digit, Codes
<1>2. CASE d >= 10
    <2>1. Hex(d) \in 65..70 /\ Hex(d) = 55 + d
        BY <1>2 DEF Hex
    <2>2. Hex(d) \div 32 = 2 /\ 2 % 2 = 0
        BY <2>1
    <2> QED BY <2>1, <2>2 DEF Digit, Codes
<1> QED BY <1>1, <1>2

(* A byte is its two halves put together.                                  *)
LEMMA HalfBytes ==
    ASSUME NEW b \in Bytes
    PROVE  b \div 16 \in 0..15 /\ b % 16 \in 0..15 /\ ((b \div 16) * 16 + (b % 16)) % 256 = b
<1>1. b \div 16 \in 0..15 /\ b % 16 \in 0..15
    BY DEF Bytes
<1>2. (b \div 16) * 16 + (b % 16) = b
    BY DEF Bytes
<1>3. b % 256 = b
    BY DEF Bytes
<1> QED BY <1>1, <1>2, <1>3

(* An encoded byte takes one place or three, and tells which by the first. *)
LEMMA ByteCodes ==
    ASSUME NEW b \in Bytes
    PROVE  LET e == EncodedByte(b) IN
           /\ e \in Seq(Codes)
           /\ \/ Len(e) = 1 /\ e[1] = Plus /\ b = Space
              \/ Len(e) = 1 /\ e[1] = b /\ b \notin {Plus, Percent}
              \/ /\ Len(e) = 3 /\ e[1] = Percent
                 /\ (Digit(e[2]) * 16 + Digit(e[3])) % 256 = b
<1>1. CASE b = Space
    BY <1>1 DEF EncodedByte, Codes
<1>2. CASE b # Space /\ b \in Letters
    <2>1. EncodedByte(b) = <<b>>
        BY <1>2 DEF EncodedByte
    <2>2. b \in Codes /\ b \notin {Plus, Percent}
        BY <1>2 DEF Codes, Letters, Plus, Percent
    <2> QED BY <2>1, <2>2
<1>3. CASE b # Space /\ b \notin Letters
    <2> DEFINE h == Hex(b \div 16)
               l == Hex(b % 16)
    <2>1. /\ h \in Codes /\ l \in Codes /\ Percent \in Codes
          /\ (Digit(h) * 16 + Digit(l)) % 256 = b
        <3>1. b \div 16 \in 0..15 /\ b % 16 \in 0..15 /\ ((b \div 16) * 16 + (b % 16)) % 256 = b
            BY HalfBytes
        <3>2. h \in Codes /\ l \in Codes /\ Digit(h) = b \div 16 /\ Digit(l) = b % 16
            BY <3>1, HexDigit
        <3>3. (Digit(h) * 16 + Digit(l)) % 256 = ((b \div 16) * 16 + (b % 16)) % 256
            BY <3>2, Zenon
        <3> QED BY <3>1, <3>2, <3>3, Zenon DEF Codes
    <2>2. EncodedByte(b) = <<Percent, h, l>>
        BY <1>3 DEF EncodedByte
    <2> HIDE DEF h, l
    <2> QED BY <2>1, <2>2
<1> QED BY <1>1, <1>2, <1>3

(* The steps of Encoded: one more byte's code at the end.                  *)
EncStep(v, e, i) == e[i] = IF i = 0 THEN << >> ELSE e[i - 1] \o EncodedByte(v[i])

(* The recursion of Encoded has a solution, stage by stage.                *)
LEMMA EncodeExists ==
    ASSUME NEW v \in Seq(Bytes)
    PROVE  \E e \in [0..Len(v) -> Seq(Codes)] : \A i \in 0..Len(v) : EncStep(v, e, i)
<1> DEFINE N == Len(v)
           E == [0..N -> Seq(Codes)]
           G == {n \in 0..N : \E e \in E : \A i \in 0..n : EncStep(v, e, i)}
<1>0. N \in Nat /\ \A i \in 1..N : v[i] \in Bytes
    BY LenProperties, ElementOfSeq
<1>1. 0 \in G
    <2> DEFINE e == [i \in 0..N |-> << >>]
    <2>1. e \in E /\ \A i \in 0..0 : EncStep(v, e, i)
        BY <1>0 DEF EncStep
    <2>2. 0 \in 0..N
        BY <1>0
    <2> HIDE DEF e, E, N
    <2> QED BY <2>1, <2>2
<1>2. ASSUME NEW n \in 1..N, n - 1 \in G PROVE n \in G
    <2>1. PICK e \in E : \A i \in 0..n - 1 : EncStep(v, e, i)
        BY <1>2
    <2> DEFINE x == e[n - 1] \o EncodedByte(v[n])
               g == [e EXCEPT ![n] = x]
    <2>2. n \in 0..N /\ n - 1 \in 0..N /\ n # n - 1 /\ n # 0
        BY <1>0, <1>2
    <2>3. x \in Seq(Codes)
        <3>1. e[n - 1] \in Seq(Codes) /\ EncodedByte(v[n]) \in Seq(Codes)
            BY <1>0, <2>2, ByteCodes
        <3> QED BY <3>1, ConcatProperties
    <2>4. g \in E /\ g[n] = x /\ \A i \in 0..N : i # n => g[i] = e[i]
        <3> HIDE DEF x
        <3> QED BY <2>2, <2>3
    <2>5. ASSUME NEW i \in 0..n PROVE EncStep(v, g, i)
        <3> HIDE DEF g
        <3>1. CASE i = n
            <4>1. g[n - 1] = e[n - 1]
                BY <2>2, <2>4
            <4> QED BY <2>2, <2>4, <3>1, <4>1 DEF EncStep
        <3>2. CASE i # n
            <4>1. i \in 0..n - 1 /\ i \in 0..N /\ (i # 0 => i - 1 \in 0..N /\ i - 1 # n)
                BY <1>0, <1>2, <3>2
            <4>2. g[i] = e[i] /\ (i # 0 => g[i - 1] = e[i - 1])
                BY <2>4, <3>2, <4>1
            <4>3. EncStep(v, e, i)
                BY <2>1, <4>1
            <4> QED BY <4>2, <4>3 DEF EncStep
        <3> QED BY <3>1, <3>2
    <2> HIDE DEF g
    <2> QED BY <2>2, <2>4, <2>5
<1>3. 0..N \subseteq G
    <2> HIDE DEF G, N
    <2> QED BY <1>0, <1>1, <1>2, UptoInduction
<1>4. N \in 0..N
    BY <1>0
<1>5. N \in G
    BY <1>3, <1>4
<1> QED BY <1>5

(* The last stage is Encoded's value.                                      *)
LEMMA EncodeSteps ==
    ASSUME NEW v \in Seq(Bytes)
    PROVE  \E e \in [0..Len(v) -> Seq(Codes)] :
               e[Len(v)] = Encoded(v) /\ \A i \in 0..Len(v) : EncStep(v, e, i)
<1> DEFINE N == Len(v)
           F(f) == [i \in 0..N |-> IF i = 0 THEN << >> ELSE f[i - 1] \o EncodedByte(v[i])]
           e == CHOOSE f : f = F(f)
           G == {i \in 0..N : e[i] \in Seq(Codes)}
<1>0. N \in Nat /\ \A i \in 1..N : v[i] \in Bytes
    BY LenProperties, ElementOfSeq
<1>1. PICK f \in [0..N -> Seq(Codes)] : \A i \in 0..N : EncStep(v, f, i)
    BY EncodeExists
<1>2. f = F(f)
    BY <1>1 DEF EncStep
<1>3. e = F(e)
    <2> HIDE DEF F
    <2> QED BY <1>2
<1>4. Encoded(v) = e[N]
    BY DEF Encoded
<1> HIDE DEF e
<1>5. \A i \in 0..N : EncStep(v, e, i)
    BY <1>3 DEF EncStep
<1>6. 0 \in G
    <2>1. 0 \in 0..N
        BY <1>0
    <2>2. e[0] = << >>
        BY <1>5, <2>1 DEF EncStep
    <2> QED BY <2>1, <2>2, EmptySeq
<1>7. ASSUME NEW i \in 1..N, i - 1 \in G PROVE i \in G
    <2>0. i \in 0..N /\ i # 0
        BY <1>0
    <2>1. e[i] = e[i - 1] \o EncodedByte(v[i]) /\ i \in 0..N
        BY <1>5, <2>0 DEF EncStep
    <2>2. EncodedByte(v[i]) \in Seq(Codes)
        BY <1>0, ByteCodes
    <2>3. e[i] \in Seq(Codes)
        BY <1>7, <2>1, <2>2, ConcatProperties
    <2> QED BY <2>1, <2>3
<1>8. 0..N \subseteq G
    <2> HIDE DEF G, N
    <2> QED BY <1>0, <1>6, <1>7, UptoInduction
<1>9. e \in [0..N -> Seq(Codes)]
    <2>1. DOMAIN e = 0..N /\ e = [i \in 0..N |-> e[i]]
        BY <1>3
    <2> QED BY <1>8, <2>1
<1> QED BY <1>4, <1>5, <1>9

(* One turn of url_decode at i: the byte it writes, and what follows it.   *)
DecVal(s, f, i) ==
    IF i > Len(s) THEN << >>
    ELSE IF s[i] = Plus THEN <<Space>> \o f[i + 1]
    ELSE IF s[i] = Percent /\ i + 2 <= Len(s)
         THEN <<(Digit(s[i + 1]) * 16 + Digit(s[i + 2])) % 256>> \o f[i + 3]
    ELSE <<s[i]>> \o f[i + 1]

(* A byte before a sequence.                                               *)
LEMMA OneByte == ASSUME NEW b \in Int, NEW t \in Seq(Int) PROVE <<b>> \o t \in Seq(Int)
<1>1. <<b>> \in Seq(Int)
    OBVIOUS
<1> QED BY <1>1, ConcatProperties

(* Codes and their digits are numbers.                                     *)
LEMMA CodesInt == Codes \subseteq Int /\ \A c \in Codes : Digit(c) \in Int
BY DEF Codes, Letters, Plus, Percent, Digit

(* It looks only at what follows.                                          *)
LEMMA DecTyped ==
    ASSUME NEW s \in Seq(Codes), NEW i \in 1..Len(s) + 1, NEW f,
           \A j \in i + 1..Len(s) + 1 : f[j] \in Seq(Int)
    PROVE  DecVal(s, f, i) \in Seq(Int)
<1>0. Len(s) \in Nat /\ \A j \in 1..Len(s) : s[j] \in Codes /\ s[j] \in Int /\ Digit(s[j]) \in Int
    BY LenProperties, ElementOfSeq, CodesInt
<1>1. CASE i > Len(s)
    BY <1>1, EmptySeq DEF DecVal
<1>2. CASE ~(i > Len(s))
    <2>1. i \in 1..Len(s) /\ i + 1 \in i + 1..Len(s) + 1
        BY <1>0, <1>2
    <2>2. f[i + 1] \in Seq(Int) /\ s[i] \in Int /\ Space \in Int
        BY <1>0, <2>1 DEF Space
    <2>3. CASE s[i] = Percent /\ i + 2 <= Len(s)
        <3>1. i + 3 \in i + 1..Len(s) + 1 /\ i + 1 \in 1..Len(s) /\ i + 2 \in 1..Len(s)
            BY <1>0, <2>1, <2>3
        <3>2. f[i + 3] \in Seq(Int) /\ Digit(s[i + 1]) \in Int /\ Digit(s[i + 2]) \in Int
            BY <1>0, <3>1
        <3>3. (Digit(s[i + 1]) * 16 + Digit(s[i + 2])) % 256 \in Int
            BY <3>2
        <3>4. <<(Digit(s[i + 1]) * 16 + Digit(s[i + 2])) % 256>> \o f[i + 3] \in Seq(Int)
            BY <3>2, <3>3, OneByte
        <3>5. s[i] # Plus
            BY <2>3 DEF Plus, Percent
        <3>6. DecVal(s, f, i) = <<(Digit(s[i + 1]) * 16 + Digit(s[i + 2])) % 256>> \o f[i + 3]
            BY <1>2, <2>3, <3>5, Zenon DEF DecVal
        <3> QED BY <3>4, <3>6
    <2>4. CASE ~(s[i] = Percent /\ i + 2 <= Len(s))
        <3>1. DecVal(s, f, i) = <<Space>> \o f[i + 1] \/ DecVal(s, f, i) = <<s[i]>> \o f[i + 1]
            BY <1>2, <2>4, Zenon DEF DecVal
        <3> QED BY <2>2, <3>1, OneByte
    <2> QED BY <2>3, <2>4
<1> QED BY <1>1, <1>2

(* The same, for two functions that agree on what follows.                 *)
LEMMA DecSame ==
    ASSUME NEW s \in Seq(Codes), NEW i \in 1..Len(s) + 1, NEW f, NEW g,
           \A j \in i + 1..Len(s) + 1 : f[j] = g[j]
    PROVE  DecVal(s, f, i) = DecVal(s, g, i)
<1>0. Len(s) \in Nat
    BY LenProperties
<1>1. CASE i > Len(s)
    BY <1>1 DEF DecVal
<1>2. CASE ~(i > Len(s))
    <2>1. f[i + 1] = g[i + 1]
        BY <1>0, <1>2
    <2>2. i + 2 <= Len(s) => f[i + 3] = g[i + 3]
        BY <1>0, <1>2
    <2> QED BY <1>2, <2>1, <2>2, Zenon DEF DecVal
<1> QED BY <1>1, <1>2

(* The recursion of url_decode has a solution, from the end on.            *)
LEMMA DecodeExists ==
    ASSUME NEW s \in Seq(Codes)
    PROVE  \E f \in [1..Len(s) + 1 -> Seq(Int)] : \A i \in 1..Len(s) + 1 : f[i] = DecVal(s, f, i)
<1> DEFINE N == Len(s)
           D == [1..N + 1 -> Seq(Int)]
           Good(f, n) == \A i \in N + 1 - n..N + 1 : f[i] = DecVal(s, f, i)
           G == {n \in 0..N : \E f \in D : Good(f, n)}
<1>0. N \in Nat
    BY LenProperties
<1>1. 0 \in G
    <2> DEFINE f == [i \in 1..N + 1 |-> << >>]
    <2>1. f \in D /\ N + 1 \in 1..N + 1 /\ N + 1 > N /\ 0 \in 0..N
        BY <1>0
    <2>2. f[N + 1] = << >> /\ DecVal(s, f, N + 1) = << >>
        BY <2>1 DEF DecVal
    <2>3. \A i \in N + 1 - 0..N + 1 : i = N + 1
        BY <1>0
    <2> HIDE DEF f, D, N
    <2>4. Good(f, 0)
        BY <2>2, <2>3
    <2> QED BY <2>1, <2>4
<1>2. ASSUME NEW n \in 1..N, n - 1 \in G PROVE n \in G
    <2>1. PICK f \in D : Good(f, n - 1)
        BY <1>2
    <2> DEFINE k == N + 1 - n
               x == DecVal(s, f, k)
               g == [f EXCEPT ![k] = x]
    <2>2. k \in 1..N + 1 /\ k + 1 \in 1..N + 1 /\ n \in 0..N /\ N + 1 - (n - 1) = k + 1
        BY <1>0, <1>2
    <2>a. k + 1..N + 1 \subseteq 1..N + 1 /\ k \notin k + 1..N + 1
        BY <1>0, <2>2
    <2>3. x \in Seq(Int)
        <3>1. \A j \in k + 1..N + 1 : f[j] \in Seq(Int)
            BY <2>a
        <3> HIDE DEF k
        <3> QED BY <2>2, <3>1, DecTyped
    <2>4. g \in D /\ g[k] = x /\ \A i \in 1..N + 1 : i # k => g[i] = f[i]
        <3> HIDE DEF x, k
        <3> QED BY <2>2, <2>3
    <2>5. ASSUME NEW i \in k..N + 1 PROVE g[i] = DecVal(s, g, i)
        <3> HIDE DEF g
        <3>1. i \in 1..N + 1 /\ k \notin i + 1..N + 1 /\ i + 1..N + 1 \subseteq 1..N + 1
            BY <1>0, <2>2
        <3>2. \A j \in i + 1..N + 1 : g[j] = f[j]
            BY <2>4, <3>1
        <3>3. DecVal(s, g, i) = DecVal(s, f, i)
            BY <3>1, <3>2, DecSame
        <3>4. CASE i = k
            BY <2>4, <3>3, <3>4
        <3>5. CASE i # k
            <4>1. i \in N + 1 - (n - 1)..N + 1
                <5>1. i \in k + 1..N + 1
                    <6> HIDE DEF k, N
                    <6> QED BY <1>0, <2>2, <3>1, <3>5
                <5> QED BY <2>2, <5>1
            <4>2. f[i] = DecVal(s, f, i)
                BY <2>1, <4>1
            <4> QED BY <2>4, <3>1, <3>3, <3>5, <4>2
        <3> QED BY <3>4, <3>5
    <2> HIDE DEF g, D
    <2>6. Good(g, n)
        BY <2>5
    <2> QED BY <2>2, <2>4, <2>6
<1>3. 0..N \subseteq G
    <2> HIDE DEF G, N
    <2> QED BY <1>0, <1>1, <1>2, UptoInduction
<1>4. N \in 0..N /\ N + 1 - N = 1
    BY <1>0
<1>5. N \in G
    BY <1>3, <1>4
<1>6. PICK f \in D : Good(f, N)
    BY <1>5
<1> QED BY <1>4, <1>6

(* Its first value is what url_decode returns.                             *)
LEMMA DecodeSteps ==
    ASSUME NEW s \in Seq(Codes)
    PROVE  \E f \in [1..Len(s) + 1 -> Seq(Int)] :
               url_decode(s) = f[1] /\ \A i \in 1..Len(s) + 1 : f[i] = DecVal(s, f, i)
<1> DEFINE N == Len(s)
           F(g) == [i \in 1..N + 1 |-> DecVal(s, g, i)]
           f == CHOOSE g : g = F(g)
           G == {n \in 0..N : \A i \in N + 1 - n..N + 1 : f[i] \in Seq(Int)}
<1>0. N \in Nat
    BY LenProperties
<1>1. PICK g \in [1..N + 1 -> Seq(Int)] : \A i \in 1..N + 1 : g[i] = DecVal(s, g, i)
    BY DecodeExists
<1>2. g = F(g)
    BY <1>1
<1>3. f = F(f)
    <2> HIDE DEF F
    <2> QED BY <1>2
<1>4. url_decode(s) = f[1]
    BY DEF url_decode, DecVal
<1> HIDE DEF f
<1>5. \A i \in 1..N + 1 : f[i] = DecVal(s, f, i)
    BY <1>3
<1>6. 0 \in G
    <2>1. N + 1 \in 1..N + 1 /\ 0 \in 0..N /\ \A i \in N + 1 - 0..N + 1 : i = N + 1
        BY <1>0
    <2>2. \A j \in N + 1 + 1..N + 1 : f[j] \in Seq(Int)
        BY <1>0
    <2>3. f[N + 1] \in Seq(Int)
        BY <1>5, <2>1, <2>2, DecTyped
    <2> HIDE DEF N
    <2> QED BY <2>1, <2>3
<1>7. ASSUME NEW n \in 1..N, n - 1 \in G PROVE n \in G
    <2> DEFINE k == N + 1 - n
    <2>1. k \in 1..N + 1 /\ n \in 0..N /\ N + 1 - (n - 1) = k + 1
        BY <1>0, <1>7
    <2>2. \A j \in k + 1..N + 1 : f[j] \in Seq(Int)
        BY <1>7, <2>1
    <2>3. f[k] \in Seq(Int)
        <3> HIDE DEF k
        <3> QED BY <1>5, <2>1, <2>2, DecTyped
    <2>4. \A i \in k..N + 1 : i = k \/ i \in k + 1..N + 1
        <3> HIDE DEF k, N
        <3> QED BY <1>0, <2>1
    <2>5. \A i \in k..N + 1 : f[i] \in Seq(Int)
        <3> HIDE DEF k, N
        <3> QED BY <2>2, <2>3, <2>4
    <2> QED BY <2>1, <2>5
<1>8. 0..N \subseteq G
    <2> HIDE DEF G, N
    <2> QED BY <1>0, <1>6, <1>7, UptoInduction
<1>9. f \in [1..N + 1 -> Seq(Int)]
    <2>1. N \in 0..N /\ N + 1 - N = 1
        BY <1>0
    <2>2. \A i \in 1..N + 1 : f[i] \in Seq(Int)
        BY <1>8, <2>1
    <2>3. f = [i \in 1..N + 1 |-> f[i]]
        BY <1>3
    <2> QED BY <2>2, <2>3
<1> QED BY <1>4, <1>5, <1>9

(* The code c stands at place p of s.                                      *)
CodeAt(s, p, c) == p + Len(c) - 1 <= Len(s) /\ \A m \in 1..Len(c) : s[p + m - 1] = c[m]

(* Where a byte's code stands, url_decode writes that byte.                *)
LEMMA DecodeByte ==
    ASSUME NEW s \in Seq(Codes), NEW f, NEW b \in Bytes, NEW p \in 1..Len(s),
           CodeAt(s, p, EncodedByte(b))
    PROVE  DecVal(s, f, p) = <<b>> \o f[p + Len(EncodedByte(b))]
<1> DEFINE c == EncodedByte(b)
<1>0. Len(s) \in Nat /\ p \in Nat /\ ~(p > Len(s)) /\ Plus # Percent
    BY LenProperties DEF Plus, Percent
<1>a. p + Len(c) - 1 <= Len(s) /\ \A m \in 1..Len(c) : s[p + m - 1] = c[m]
    BY DEF CodeAt
<1>1. CASE Len(c) = 1 /\ c[1] = Plus /\ b = Space
    <2>1. s[p] = Plus
        BY <1>0, <1>a, <1>1
    <2> QED BY <1>0, <1>1, <2>1, Zenon DEF DecVal
<1>2. CASE Len(c) = 1 /\ c[1] = b /\ b \notin {Plus, Percent}
    <2>1. s[p] = b
        BY <1>0, <1>a, <1>2
    <2> QED BY <1>0, <1>2, <2>1, Zenon DEF DecVal
<1>3. CASE Len(c) = 3 /\ c[1] = Percent /\ (Digit(c[2]) * 16 + Digit(c[3])) % 256 = b
    <2>1. s[p] = Percent /\ s[p + 1] = c[2] /\ s[p + 2] = c[3] /\ p + 2 <= Len(s)
        <3>1. 1 \in 1..Len(c) /\ 2 \in 1..Len(c) /\ 3 \in 1..Len(c)
            BY <1>3
        <3>2. s[p + 1 - 1] = c[1] /\ s[p + 2 - 1] = c[2] /\ s[p + 3 - 1] = c[3]
            BY <1>a, <3>1
        <3>3. p + 1 - 1 = p /\ p + 2 - 1 = p + 1 /\ p + 3 - 1 = p + 2
            BY <1>0
        <3> QED BY <1>0, <1>a, <1>3, <3>2, <3>3
    <2>2. DecVal(s, f, p) = <<(Digit(s[p + 1]) * 16 + Digit(s[p + 2])) % 256>> \o f[p + 3]
        BY <1>0, <2>1, Zenon DEF DecVal
    <2> QED BY <1>3, <2>1, <2>2, Zenon
<1> QED BY <1>1, <1>2, <1>3, ByteCodes

(* A sequence that begins with a and then c.                               *)
LEMMA Appended ==
    ASSUME NEW w \in Seq(Codes), NEW a \in Seq(Codes), NEW c \in Seq(Codes), NEW b, b = a \o c,
           Len(b) <= Len(w), \A j \in 1..Len(b) : w[j] = b[j]
    PROVE  /\ Len(a) <= Len(w) /\ \A j \in 1..Len(a) : w[j] = a[j]
           /\ Len(a) + 1 + Len(c) = Len(b) + 1 /\ CodeAt(w, Len(a) + 1, c)
<1>1. Len(a) \in Nat /\ Len(c) \in Nat /\ Len(w) \in Nat
    BY LenProperties
<1>2. /\ Len(b) = Len(a) + Len(c)
      /\ \A j \in 1..Len(a) + Len(c) : b[j] = IF j <= Len(a) THEN a[j] ELSE c[j - Len(a)]
    BY ConcatProperties
<1>3. ASSUME NEW m \in 1..Len(c) PROVE w[Len(a) + 1 + m - 1] = c[m]
    <2>1. PICK j \in 1..Len(a) + Len(c) : j = Len(a) + 1 + m - 1
        BY <1>1
    <2>2. ~(j <= Len(a)) /\ j - Len(a) = m
        BY <1>1, <2>1
    <2>3. b[j] = c[m]
        BY <1>2, <2>2
    <2>4. w[j] = b[j]
        BY <1>2, <2>1
    <2> QED BY <2>1, <2>3, <2>4
<1>4. ASSUME NEW j \in 1..Len(a) PROVE w[j] = a[j]
    BY <1>1, <1>2
<1>5. CodeAt(w, Len(a) + 1, c)
    <2>1. Len(a) + 1 + Len(c) - 1 <= Len(w)
        BY <1>1, <1>2
    <2> QED BY <1>3, <2>1 DEF CodeAt
<1> QED BY <1>1, <1>2, <1>4, <1>5

(* Each stage of the encoding is the beginning of the whole.               *)
LEMMA Stages ==
    ASSUME NEW v \in Seq(Bytes), NEW e \in [0..Len(v) -> Seq(Codes)],
           \A i \in 0..Len(v) : EncStep(v, e, i), NEW i \in 0..Len(v)
    PROVE  /\ Len(e[i]) <= Len(e[Len(v)])
           /\ \A j \in 1..Len(e[i]) : e[Len(v)][j] = e[i][j]
<1> DEFINE N == Len(v)
           Begins(k) == Len(e[k]) <= Len(e[N]) /\ \A j \in 1..Len(e[k]) : e[N][j] = e[k][j]
           G == {n \in 0..N : Begins(N - n)}
<1>0. N \in Nat /\ \A k \in 1..N : v[k] \in Bytes
    BY LenProperties, ElementOfSeq
<1>a. \A k \in 0..N : e[k] \in Seq(Codes) /\ Len(e[k]) \in Nat
    BY LenProperties
<1>1. 0 \in G
    <2>1. N - 0 = N /\ N \in 0..N /\ 0 \in 0..N
        BY <1>0
    <2>2. Begins(N)
        BY <1>a, <2>1
    <2> QED BY <2>1, <2>2
<1>2. ASSUME NEW n \in 1..N, n - 1 \in G PROVE n \in G
    <2>1. PICK k \in 0..N, q \in 1..N : k = N - n /\ q = N - (n - 1) /\ q - 1 = k /\ q # 0
        <3>1. N - n \in 0..N /\ N - (n - 1) \in 1..N /\ N - (n - 1) - 1 = N - n /\ N - (n - 1) # 0
            BY <1>0, <1>2
        <3> HIDE DEF N
        <3> QED BY <3>1
    <2>2. Begins(q) /\ n \in 0..N /\ q \in 0..N
        BY <1>2, <2>1
    <2>3. e[q] = e[k] \o EncodedByte(v[q])
        <3>1. EncStep(v, e, q)
            BY <2>2
        <3> QED BY <2>1, <3>1, Zenon DEF EncStep
    <2>4. EncodedByte(v[q]) \in Seq(Codes)
        BY <1>0, <2>1, ByteCodes
    <2>5. e[k] \in Seq(Codes) /\ e[N] \in Seq(Codes)
        BY <1>0, <1>a, <2>1
    <2>6. Begins(k)
        BY <2>2, <2>3, <2>4, <2>5, Appended
    <2> QED BY <2>1, <2>2, <2>6
<1>3. 0..N \subseteq G
    <2> HIDE DEF G, N
    <2> QED BY <1>0, <1>1, <1>2, UptoInduction
<1>4. N - i \in 0..N /\ N - (N - i) = i
    BY <1>0
<1>5. Begins(i)
    BY <1>3, <1>4
<1> QED BY <1>5

(* What url_decode reads is what the browser wrote.                        *)
LEMMA RoundTrip ==
    ASSUME NEW v \in Seq(Bytes)
    PROVE  Encoded(v) \in Seq(Codes) /\ url_decode(Encoded(v)) = v
<1> DEFINE N == Len(v)
           s == Encoded(v)
<1>0. N \in Nat /\ N \in 0..N /\ 0 \in 0..N /\ \A k \in 1..N : v[k] \in Bytes
    BY LenProperties, ElementOfSeq
<1>1. PICK e \in [0..N -> Seq(Codes)] : e[N] = s /\ \A i \in 0..N : EncStep(v, e, i)
    BY EncodeSteps
<1>2. s \in Seq(Codes) /\ Len(s) \in Nat
    BY <1>0, <1>1, LenProperties
<1>a. \A k \in 0..N : e[k] \in Seq(Codes) /\ Len(e[k]) \in Nat
    BY LenProperties
<1> HIDE DEF s
<1>3. PICK f \in [1..Len(s) + 1 -> Seq(Int)] :
          url_decode(s) = f[1] /\ \A i \in 1..Len(s) + 1 : f[i] = DecVal(s, f, i)
    BY <1>2, DecodeSteps
<1> DEFINE At(k) == f[Len(e[k]) + 1]
           Left(k) == At(k) \in Seq(Int) /\ Len(At(k)) = N - k /\ \A j \in 1..N - k : At(k)[j] = v[k + j]
           G == {n \in 0..N : Left(N - n)}
<1>4. 0 \in G
    <2>1. N - 0 = N /\ N - N = 0 /\ Len(s) + 1 \in 1..Len(s) + 1 /\ Len(s) + 1 > Len(s)
        BY <1>0, <1>2
    <2>2. At(N) = << >>
        BY <1>1, <1>3, <2>1, Zenon DEF DecVal
    <2>3. Left(N)
        <3> HIDE DEF At, N
        <3> QED BY <2>1, <2>2, EmptySeq
    <2> QED BY <1>0, <2>1, <2>3
<1>5. ASSUME NEW n \in 1..N, n - 1 \in G PROVE n \in G
    <2>1. PICK k \in 0..N, q \in 1..N : k = N - n /\ q = N - (n - 1) /\ q - 1 = k /\ q # 0 /\ q = k + 1
        <3>1. /\ N - n \in 0..N /\ N - (n - 1) \in 1..N
              /\ N - (n - 1) - 1 = N - n /\ N - (n - 1) # 0 /\ N - (n - 1) = N - n + 1
            BY <1>0, <1>5
        <3> HIDE DEF N
        <3> QED BY <3>1
    <2> DEFINE c == EncodedByte(v[q])
    <2>2. Left(q) /\ n \in 0..N /\ q \in 0..N
        <3>1. Left(N - (n - 1)) /\ n \in 0..N
            BY <1>0, <1>5
        <3> HIDE DEF Left
        <3> QED BY <2>1, <3>1
    <2>3. e[q] = e[k] \o c
        <3>1. EncStep(v, e, q)
            BY <1>1, <2>2
        <3> QED BY <2>1, <3>1, Zenon DEF EncStep
    <2>4. v[q] \in Bytes /\ c \in Seq(Codes) /\ (Len(c) = 1 \/ Len(c) = 3)
        BY <1>0, <2>1, ByteCodes
    <2>5. Len(e[q]) <= Len(s) /\ \A j \in 1..Len(e[q]) : s[j] = e[q][j]
        BY <1>1, <2>2, Stages
    <2>6. e[k] \in Seq(Codes) /\ Len(e[k]) \in Nat
        BY <1>a, <2>1
    <2>7. PICK p \in 1..Len(s) :
              p = Len(e[k]) + 1 /\ p \in 1..Len(s) + 1 /\ p + Len(c) = Len(e[q]) + 1 /\ CodeAt(s, p, c)
        <3> HIDE DEF c, N
        <3>1. PICK p \in Nat : p = Len(e[k]) + 1
            BY <2>6
        <3>2. p + Len(c) = Len(e[q]) + 1 /\ CodeAt(s, p, c)
            <4>1. s \in Seq(Codes) /\ e[k] \in Seq(Codes) /\ c \in Seq(Codes)
                BY <1>2, <2>4, <2>6
            <4>2. Len(e[k]) + 1 + Len(c) = Len(e[q]) + 1
                BY <2>3, <2>5, <4>1, Appended
            <4>3. CodeAt(s, Len(e[k]) + 1, c)
                BY <2>3, <2>5, <4>1, Appended
            <4> QED BY <3>1, <4>2, <4>3, Zenon
        <3>3. p \in 1..Len(s) /\ p \in 1..Len(s) + 1
            <4>1. PICK l \in 1..3 : l = Len(c)
                BY <2>4
            <4>2. p >= 1 /\ p + l - 1 <= Len(s)
                BY <2>6, <3>1, <3>2, <4>1 DEF CodeAt
            <4> QED BY <1>2, <4>2
        <3> QED BY <3>1, <3>2, <3>3
    <2>8. At(k) = <<v[q]>> \o At(q)
        <3>1. DecVal(s, f, p) = <<v[q]>> \o f[p + Len(c)]
            BY <1>2, <2>4, <2>7, DecodeByte
        <3> QED BY <1>3, <2>7, <3>1
    <2>9. Left(k)
        <3> DEFINE b == v[q]
                   t == At(q)
        <3>1. <<b>> \in Seq(Int) /\ Len(<<b>>) = 1 /\ <<b>>[1] = b
            <4>0. Bytes \subseteq Int
                BY DEF Bytes
            <4>1. b \in Int
                BY <2>4, <4>0
            <4> HIDE DEF b
            <4> QED BY <4>1
        <3>2. t \in Seq(Int) /\ Len(t) = N - q /\ \A j \in 1..N - q : t[j] = v[q + j]
            BY <2>2
        <3>3. At(k) = <<b>> \o t
            BY <2>8
        <3> HIDE DEF b, t, At, N
        <3>4. /\ At(k) \in Seq(Int) /\ Len(At(k)) = 1 + Len(t)
              /\ \A j \in 1..1 + Len(t) : At(k)[j] = IF j <= 1 THEN <<b>>[j] ELSE t[j - 1]
            BY <3>1, <3>2, <3>3, ConcatProperties
        <3>5. Len(At(k)) = N - k /\ 1 + Len(t) = N - k
            BY <1>0, <2>1, <3>2, <3>4
        <3>6. ASSUME NEW j \in 1..N - k PROVE At(k)[j] = v[k + j]
            <4>1. CASE j = 1
                <5>1. 1 \in 1..1 + Len(t) /\ k + j = q
                    BY <2>1, <3>5, <4>1
                <5>2. At(k)[1] = <<b>>[1]
                    BY <3>4, <5>1
                <5> QED BY <3>1, <4>1, <5>1, <5>2 DEF b
            <4>2. CASE j # 1
                <5>1. j - 1 \in 1..N - q /\ q + (j - 1) = k + j /\ ~(j <= 1)
                    BY <1>0, <2>1, <4>2
                <5>2. At(k)[j] = t[j - 1]
                    BY <3>4, <3>5, <5>1
                <5> QED BY <3>2, <5>1, <5>2
            <4> QED BY <4>1, <4>2
        <3> QED BY <3>4, <3>5, <3>6
    <2> QED BY <2>1, <2>2, <2>9
<1>6. 0..N \subseteq G
    <2> HIDE DEF G, N
    <2> QED BY <1>0, <1>4, <1>5, UptoInduction
<1>7. Left(0)
    <2>1. N - N = 0
        BY <1>0
    <2> HIDE DEF Left
    <2> QED BY <1>0, <1>6, <2>1
<1>8. e[0] = << >> /\ Len(e[0]) + 1 = 1
    <2>1. e[0] = << >>
        BY <1>0, <1>1 DEF EncStep
    <2> QED BY <2>1, EmptySeq
<1>9. At(0) = v
    <2>1. v \in Seq(Int)
        <3>1. Bytes \subseteq Int
            BY DEF Bytes
        <3> QED BY <3>1, SeqMonotonic
    <2>2. At(0) \in Seq(Int) /\ Len(At(0)) = N /\ \A j \in 1..N : At(0)[j] = v[j]
        <3>1. N - 0 = N /\ \A j \in 1..N : 0 + j = j
            BY <1>0
        <3> HIDE DEF At, N
        <3> QED BY <1>7, <3>1
    <2> HIDE DEF At
    <2> QED BY <2>1, <2>2, SeqEqual
<1> QED BY <1>2, <1>3, <1>8, <1>9 DEF s

(* Find returns the first place of a symbol,                               *)
LEMMA FindAt ==
    ASSUME NEW s, Len(s) \in Nat, NEW x, NEW i \in Nat, NEW j \in i..Len(s),
           s[j] = x, \A k \in i..j - 1 : s[k] # x
    PROVE  Find(s, i, x) = j
<1> DEFINE H == {k \in i..Len(s) : s[k] = x}
<1>1. j \in H /\ \A k \in H : j <= k
    OBVIOUS
<1>2. \A h \in H : (\A k \in H : h <= k) => h = j
    BY <1>1
<1>3. Find(s, i, x) = CHOOSE h \in H : \A k \in H : h <= k
    BY <1>1 DEF Find
<1> HIDE DEF H
<1> QED BY <1>1, <1>2, <1>3

(* or the place after the last one.                                        *)
LEMMA FindNone ==
    ASSUME NEW s, NEW x, NEW i, \A k \in i..Len(s) : s[k] # x
    PROVE  Find(s, i, x) = Len(s) + 1
BY DEF Find

(* A sequence put together of two, place by place.                         *)
LEMMA Joined ==
    ASSUME NEW S, NEW s \in Seq(S), NEW t \in Seq(S), NEW l \in Nat, l = Len(s), NEW u, u = s \o t
    PROVE  /\ u \in Seq(S) /\ Len(u) = l + Len(t)
           /\ \A j \in 1..l : u[j] = s[j]
           /\ \A j \in 1..Len(t) : u[l + j] = t[j]
<1>1. /\ u \in Seq(S) /\ Len(u) = Len(s) + Len(t)
      /\ \A j \in 1..Len(s) + Len(t) : u[j] = IF j <= Len(s) THEN s[j] ELSE t[j - Len(s)]
    BY ConcatProperties
<1>2. Len(t) \in Nat
    BY LenProperties
<1>3. ASSUME NEW j \in 1..l PROVE u[j] = s[j]
    BY <1>1, <1>2
<1>4. ASSUME NEW j \in 1..Len(t) PROVE u[l + j] = t[j]
    <2>1. l + j \in 1..Len(s) + Len(t) /\ ~(l + j <= Len(s)) /\ l + j - Len(s) = j
        BY <1>2
    <2> QED BY <1>1, <2>1
<1> QED BY <1>1, <1>3, <1>4

(* The body of a form, place by place.                                     *)
Symbols == Codes \cup {Amp, SsidKey, PassKey}
Placed(b, a, c) ==
    /\ Len(b) = Len(a) + 3 + Len(c)
    /\ b[1] = SsidKey /\ \A j \in 1..Len(a) : b[1 + j] = a[j]
    /\ b[Len(a) + 2] = Amp /\ b[Len(a) + 3] = PassKey
    /\ \A j \in 1..Len(c) : b[Len(a) + 3 + j] = c[j]
LEMMA BodyPlaces ==
    ASSUME NEW f, NEW a \in Seq(Codes), NEW c \in Seq(Codes),
           Encoded(f.ssid) = a, Encoded(f.pass) = c
    PROVE  Body(f) \in Seq(Symbols) /\ Placed(Body(f), a, c)
<1>l. PICK l \in Nat : l = Len(a)
    BY LenProperties
<1>1. a \in Seq(Symbols) /\ c \in Seq(Symbols)
    BY SeqMonotonic DEF Symbols
<1>0. SsidKey \in Symbols /\ Amp \in Symbols /\ PassKey \in Symbols
    BY DEF Symbols
<1>2. PICK x \in Seq(Symbols) : x = <<SsidKey>> /\ Len(x) = 1 /\ x[1] = SsidKey
    <2>1. <<SsidKey>> \in Seq(Symbols) /\ Len(<<SsidKey>>) = 1 /\ <<SsidKey>>[1] = SsidKey
        BY <1>0
    <2> QED BY <2>1, Zenon
<1>3. PICK y \in Seq(Symbols) : y = <<Amp, PassKey>> /\ Len(y) = 2 /\ y[1] = Amp /\ y[2] = PassKey
    <2>1. /\ <<Amp, PassKey>> \in Seq(Symbols) /\ Len(<<Amp, PassKey>>) = 2
          /\ <<Amp, PassKey>>[1] = Amp /\ <<Amp, PassKey>>[2] = PassKey
        BY <1>0
    <2> QED BY <2>1, Zenon
<1>4. PICK z \in Seq(Symbols) : z = x \o a
    BY <1>1, ConcatProperties
<1>5. PICK u \in Seq(Symbols) : u = z \o y
    BY ConcatProperties
<1>6. PICK b \in Seq(Symbols) : b = u \o c
    BY <1>1, ConcatProperties
<1>7. Body(f) = b
    BY <1>2, <1>3, <1>4, <1>5, <1>6 DEF Body
<1>8. Len(z) = l + 1 /\ z[1] = SsidKey /\ \A j \in 1..l : z[1 + j] = a[j]
    <2>1. /\ Len(z) = 1 + Len(a) /\ \A j \in 1..1 : z[j] = x[j]
          /\ \A j \in 1..Len(a) : z[1 + j] = a[j]
        BY <1>1, <1>2, <1>4, Joined
    <2> QED BY <1>l, <1>2, <2>1
<1>9. /\ Len(u) = l + 3 /\ \A j \in 1..l + 1 : u[j] = z[j]
      /\ u[l + 2] = Amp /\ u[l + 3] = PassKey
    <2>1. l + 1 \in Nat /\ l + 1 + 1 = l + 2 /\ l + 1 + 2 = l + 3
        OBVIOUS
    <2>2. /\ Len(u) = l + 1 + Len(y) /\ \A j \in 1..l + 1 : u[j] = z[j]
          /\ \A j \in 1..Len(y) : u[l + 1 + j] = y[j]
        <3>1. PICK m \in Nat : m = l + 1
            BY <2>1
        <3>2. /\ Len(u) = m + Len(y) /\ \A j \in 1..m : u[j] = z[j]
              /\ \A j \in 1..Len(y) : u[m + j] = y[j]
            <4>1. m = Len(z)
                BY <1>8, <3>1
            <4> QED BY <1>5, <4>1, Joined
        <3> QED BY <3>1, <3>2
    <2>3. u[l + 1 + 1] = y[1] /\ u[l + 1 + 2] = y[2]
        BY <1>3, <2>2
    <2> QED BY <1>3, <2>1, <2>2, <2>3
<1>10. /\ Len(b) = l + 3 + Len(c) /\ \A j \in 1..l + 3 : b[j] = u[j]
       /\ \A j \in 1..Len(c) : b[l + 3 + j] = c[j]
    <2>1. PICK m \in Nat : m = l + 3
        OBVIOUS
    <2>2. /\ Len(b) = m + Len(c) /\ \A j \in 1..m : b[j] = u[j]
          /\ \A j \in 1..Len(c) : b[m + j] = c[j]
        <3>1. m = Len(u)
            BY <1>9, <2>1
        <3> QED BY <1>1, <1>6, <3>1, Joined
    <2> QED BY <2>1, <2>2
<1>11. b[1] = SsidKey /\ \A j \in 1..l : b[1 + j] = a[j]
    <2>1. \A j \in 1..l + 1 : b[j] = z[j]
        BY <1>9, <1>10
    <2> QED BY <1>8, <2>1
<1>12. b[l + 2] = Amp /\ b[l + 3] = PassKey
    BY <1>9, <1>10
<1> QED BY <1>l, <1>7, <1>10, <1>11, <1>12 DEF Placed

(* Values are made of codes, which are neither names nor what ends them.   *)
LEMMA CodesOnly == \A x \in Codes : x # Amp /\ x # SsidKey /\ x # PassKey
BY DEF Codes, Amp, SsidKey, PassKey, Letters, Plus, Percent

(* The first field of that name in b has its value's code a at p.          *)
Field(b, key, p, a) ==
    /\ b[p - 1] = key /\ \A j \in 1..p - 2 : b[j] # key
    /\ CodeAt(b, p, a) /\ (p + Len(a) <= Len(b) => b[p + Len(a)] = Amp)

(* A value that stands between its name and an Amp, or the end, is read as *)
(* it was typed if its code has room.                                      *)
LEMMA FieldRead ==
    ASSUME NEW v \in Seq(Bytes), NEW b \in Seq(Symbols), NEW key, NEW p \in 2..Len(b) + 1,
           NEW room \in Nat, Len(Encoded(v)) <= room, Field(b, key, p, Encoded(v))
    PROVE  form_field(b, key, room + 1) = v
<1>1. PICK a \in Seq(Codes), l \in Nat : a = Encoded(v) /\ l = Len(a) /\ url_decode(a) = v
    BY RoundTrip, LenProperties
<1>a. /\ b[p - 1] = key /\ \A j \in 1..p - 2 : b[j] # key
      /\ p + l - 1 <= Len(b) /\ \A j \in 1..l : b[p + j - 1] = a[j]
      /\ p + l <= Len(b) => b[p + l] = Amp
    BY <1>1 DEF Field, CodeAt
<1>2. Len(b) \in Nat /\ p \in Nat
    BY LenProperties
<1>3. Find(b, 1, key) = p - 1
    <2>1. PICK q \in 1..Len(b) : q = p - 1 /\ q - 1 = p - 2
        BY <1>2
    <2>2. b[q] = key /\ \A j \in 1..q - 1 : b[j] # key
        BY <1>a, <2>1
    <2>3. Find(b, 1, key) = q
        BY <1>2, <2>2, FindAt
    <2> QED BY <2>1, <2>3
<1>4. \A j \in p..p + l - 1 : b[j] \in Codes /\ b[j] # Amp
    <2> TAKE j \in p..p + l - 1
    <2>1. PICK m \in 1..l : p + m - 1 = j
        <3>1. j - p + 1 \in 1..l /\ p + (j - p + 1) - 1 = j
            BY <1>2
        <3> QED BY <3>1
    <2>2. b[j] = a[m]
        BY <1>a, <2>1
    <2>3. a[m] \in Codes
        BY <1>1, ElementOfSeq
    <2> QED BY <2>2, <2>3, CodesOnly
<1>5. Find(b, p, Amp) = p + l
    <2>1. CASE p + l <= Len(b)
        <3>1. PICK e \in p..Len(b) : e = p + l
            BY <1>2, <2>1
        <3>2. b[e] = Amp /\ \A j \in p..e - 1 : b[j] # Amp
            BY <1>a, <1>4, <2>1, <3>1
        <3>3. Find(b, p, Amp) = e
            BY <1>2, <3>2, FindAt
        <3> QED BY <3>1, <3>3
    <2>2. CASE ~(p + l <= Len(b))
        <3>1. Len(b) = p + l - 1
            <4>1. p + l - 1 <= Len(b) /\ ~(p + l <= Len(b))
                BY <1>a, <2>2
            <4> QED BY <1>2, <4>1
        <3>2. Find(b, p, Amp) = Len(b) + 1
            BY <1>4, <3>1, FindNone
        <3> QED BY <1>2, <3>1, <3>2
    <2> QED BY <2>1, <2>2
<1>6. Room(p + l - p, room + 1) = l
    BY <1>1, <1>2 DEF Room
<1>7. SubSeq(b, p, p - 1 + l) = a
    <2>1. PICK n \in Int : n = p - 1 + l /\ n = p + l - 1
        BY <1>2
    <2>2. /\ SubSeq(b, p, n) \in Seq(Codes)
          /\ Len(SubSeq(b, p, n)) = (IF p <= n THEN n - p + 1 ELSE 0)
          /\ \A i \in 1..n - p + 1 : SubSeq(b, p, n)[i] = b[p + i - 1]
        <3>1. p \in Int /\ \A i \in p..n : b[i] \in Codes
            <4>1. p \in Int /\ p..n = p..p + l - 1
                BY <1>2, <2>1
            <4> QED BY <1>4, <4>1
        <3>2. PICK m \in Int : m = p
            BY <3>1
        <3>3. \A i \in m..n : b[i] \in Codes
            BY <3>1, <3>2
        <3>4. /\ SubSeq(b, m, n) \in Seq(Codes)
              /\ Len(SubSeq(b, m, n)) = (IF m <= n THEN n - m + 1 ELSE 0)
              /\ \A i \in 1..n - m + 1 : SubSeq(b, m, n)[i] = b[m + i - 1]
            BY <3>3, SubSeqProperties
        <3> QED BY <3>2, <3>4
    <2>3. n - p + 1 = l /\ Len(SubSeq(b, p, n)) = l
        BY <1>2, <2>1, <2>2
    <2>4. \A i \in 1..l : SubSeq(b, p, n)[i] = a[i]
        BY <1>a, <2>2, <2>3
    <2>5. SubSeq(b, p, n) = a
        BY <1>1, <2>2, <2>3, <2>4, SeqEqual
    <2> QED BY <2>1, <2>5
<1>8. Find(b, 1, key) + 1 = p /\ ~(p > Len(b) + 1)
    BY <1>2, <1>3
<1>9. form_field(b, key, room + 1) = url_decode(SubSeq(b, p, p - 1 + Room(p + l - p, room + 1)))
    <2>1. PICK q \in {p}, e \in {p + l} : q = Find(b, 1, key) + 1 /\ e = Find(b, q, Amp) /\ ~(q > Len(b) + 1)
        BY <1>5, <1>8
    <2>2. form_field(b, key, room + 1) = url_decode(SubSeq(b, q, q - 1 + Room(e - q, room + 1)))
        BY <2>1 DEF form_field
    <2> QED BY <2>1, <2>2
<1> QED BY <1>1, <1>6, <1>7, <1>9

(* What the operator types is a sequence of bytes.                         *)
LEMMA ValueBytes == ASSUME NEW max \in Nat, NEW v \in Values(max) PROVE v \in Seq(Bytes)
<1>1. PICK n \in 0..max : v \in [1..n -> Alphabet]
    BY DEF Values
<1>2. Alphabet \subseteq Bytes
    BY PortalAssumption DEF Bytes
<1>3. v \in [1..n -> Bytes] /\ n \in Nat
    BY <1>1, <1>2
<1> QED BY <1>3, SeqDef

(* portal_save keeps a form that came whole and has room as it was typed.  *)
LEMMA FormKept ==
    ASSUME NEW x \in Posts, Fits(x)
    PROVE  Stored(Body(x.form), x.n) = x.form
<1>1. x.form \in [ssid : Values(MaxSsid), pass : Values(MaxPass)]
    BY DEF Posts, Forms
<1>2. PICK v \in Seq(Bytes), w \in Seq(Bytes) : x.form = [ssid |-> v, pass |-> w]
    <2>1. MaxSsid \in Nat /\ MaxPass \in Nat
        BY PortalAssumption
    <2>2. x.form.ssid \in Seq(Bytes) /\ x.form.pass \in Seq(Bytes)
        BY <1>1, <2>1, ValueBytes
    <2>3. x.form = [ssid |-> x.form.ssid, pass |-> x.form.pass]
        BY <1>1
    <2> QED BY <2>2, <2>3
<1>3. x.form.ssid = v /\ x.form.pass = w
    BY <1>2
<1>4. PICK a \in Seq(Codes), c \in Seq(Codes) : a = Encoded(v) /\ c = Encoded(w)
    BY RoundTrip
<1>5. PICK l \in Nat, k \in Nat : l = Len(a) /\ k = Len(c)
    BY LenProperties
<1>6. SsidLen \in Nat /\ PassLen \in Nat /\ l <= SsidLen /\ k <= PassLen /\ x.n = Len(Body(x.form))
    BY <1>3, <1>4, <1>5, PortalAssumption DEF Fits
<1>7. PICK b \in Seq(Symbols) :
          /\ b = Body(x.form) /\ Len(b) = l + 3 + k
          /\ b[1] = SsidKey /\ \A j \in 1..l : b[1 + j] = a[j]
          /\ b[l + 2] = Amp /\ b[l + 3] = PassKey
          /\ \A j \in 1..k : b[l + 3 + j] = c[j]
    <2>1. Encoded(x.form.ssid) = a /\ Encoded(x.form.pass) = c
        BY <1>3, <1>4
    <2>2. Body(x.form) \in Seq(Symbols) /\ Placed(Body(x.form), a, c)
        BY <2>1, BodyPlaces
    <2> QED BY <1>5, <2>2 DEF Placed
<1>8. SubSeq(b, 1, x.n) = b
    BY <1>6, <1>7, SubSeqFull
<1>9. form_field(b, SsidKey, SsidLen + 1) = v
    <2>1. PICK p \in 2..Len(b) + 1 : p = 2 /\ p - 1 = 1 /\ p - 2 = 0
        BY <1>7
    <2>2. /\ b[p - 1] = SsidKey /\ \A j \in 1..p - 2 : b[j] # SsidKey
          /\ p + l - 1 <= Len(b) /\ \A j \in 1..l : b[p + j - 1] = a[j]
        <3>1. \A j \in 1..l : p + j - 1 = 1 + j
            BY <2>1
        <3> QED BY <1>7, <2>1, <3>1
    <2>3. b[p + l] = Amp
        <3>1. p + l = l + 2
            BY <2>1
        <3> QED BY <1>7, <3>1
    <2>4. Field(b, SsidKey, p, a)
        BY <1>5, <2>2, <2>3 DEF Field, CodeAt
    <2> QED BY <1>4, <1>5, <1>6, <2>4, FieldRead
<1>10. form_field(b, PassKey, PassLen + 1) = w
    <2>1. PICK p \in 2..Len(b) + 1 : p = l + 4 /\ p - 1 = l + 3 /\ p - 2 = l + 2
        <3>1. l + 4 \in 2..l + 3 + k + 1 /\ l + 4 - 1 = l + 3 /\ l + 4 - 2 = l + 2
            OBVIOUS
        <3>2. Len(b) = l + 3 + k
            BY <1>7
        <3>3. l + 4 \in 2..Len(b) + 1
            BY <3>1, <3>2
        <3> QED BY <3>1, <3>3
    <2>2. \A j \in 1..p - 2 : b[j] # PassKey
        <3> SUFFICES ASSUME NEW j \in 1..l + 2 PROVE b[j] # PassKey
            BY <2>1
        <3>1. CASE j = 1
            BY <1>7, <3>1 DEF SsidKey, PassKey
        <3>2. CASE j = l + 2
            BY <1>7, <3>2 DEF Amp, PassKey
        <3>3. CASE j \in 2..l + 1
            <4>1. PICK m \in 1..l : 1 + m = j
                <5>1. j - 1 \in 1..l /\ 1 + (j - 1) = j
                    BY <3>3
                <5> QED BY <5>1
            <4>2. b[j] = a[m] /\ a[m] \in Codes
                BY <1>5, <1>7, <4>1, ElementOfSeq
            <4> QED BY <4>2, CodesOnly
        <3> QED BY <3>1, <3>2, <3>3
    <2>3. /\ b[p - 1] = PassKey /\ p + k - 1 <= Len(b) /\ \A j \in 1..k : b[p + j - 1] = c[j]
        <3>1. \A j \in 1..k : p + j - 1 = l + 3 + j
            BY <2>1
        <3> QED BY <1>7, <2>1, <3>1
    <2>4. ~(p + k <= Len(b))
        BY <1>7, <2>1
    <2>5. Field(b, PassKey, p, c)
        BY <1>5, <2>2, <2>3, <2>4 DEF Field, CodeAt
    <2> QED BY <1>4, <1>5, <1>6, <2>5, FieldRead
<1> QED BY <1>2, <1>7, <1>8, <1>9, <1>10 DEF Stored

(* A save of such a form ends with the credentials that were typed.        *)
LEMMA SavesRight == \A s \in Saves : s.fits => s.creds = "right"
<1> SUFFICES ASSUME NEW s \in Saves, s.fits PROVE s.creds = "right"
    OBVIOUS
<1>1. PICK x \in Posts :
        s = [creds |-> IF Stored(Body(x.form), x.n) = x.form THEN "right" ELSE "wrong", fits |-> Fits(x)]
    BY DEF Saves
<1>2. Fits(x)
    BY <1>1
<1> QED BY <1>1, <1>2, FormKept

-----------------------------------------------------------------------------
(* Stored forms.                                                           *)

(* The portal is open only while no credentials are stored, and a form     *)
(* that counts as fitting has left some.                                   *)
FormInv ==
    /\ main = "portal" => creds = "none"
    /\ creds = "none" => ~fits
    /\ FormStored

(* Nothing is stored by a form before the first one.                       *)
LEMMA FormInitial == Init => FormInv
BY DEF Init, FormInv, FormStored

(* Only a save changes what is stored; the others leave the portal alone.  *)
LEMMA FormStep == FormInv /\ [Next]_vars => FormInv'
<1> SUFFICES ASSUME FormInv, [Next]_vars PROVE FormInv'
    OBVIOUS
<1>1. CASE UNCHANGED <<creds, fits>> /\ main' \in {main, "down", "start", "bt", "ota", "arm", "run"}
    BY <1>1 DEF FormInv, FormStored
<1>2. CASE PortalSave
  <2>1. main' = "down" /\ creds = "none" /\ ~fits
      BY <1>2 DEF PortalSave, Reset, FormInv
  <2>2. CASE \E s \in Saves : creds' = s.creds /\ fits' = s.fits
      BY <2>1, <2>2, SavesRight DEF FormInv, FormStored
  <2> QED BY <1>2, <2>1, <2>2 DEF PortalSave, FormInv, FormStored
<1>3. CASE NetStart
    BY <1>3 DEF NetStart, NetStartEth, NetStartWifi, LoadCreds, Rest, FormInv, FormStored
<1>4. Boot \/ BtInit \/ OtaInit \/ Arm \/ RollBack \/ Expire \/ PowerLoss \/ OtaRestart =>
          UNCHANGED <<creds, fits>> /\ main' \in {main, "down", "start", "bt", "ota", "arm", "run"}
    BY DEF Boot, BtInit, OtaInit, Arm, RollBack, Expire, PowerLoss, OtaRestart, Reset, Rest
<1>5. Events \/ NotFound \/ Assign \/ LinkLost \/ LinkUp => UNCHANGED <<creds, fits, main>>
    BY DEF Events, GotIp, Disconnected, NotFound, Assign, LinkLost, LinkUp, Event, Rest
<1>6. OtaRecv \/ OtaTimeout \/ OtaAbort \/ OtaEnd \/ OtaBegin \/ UNCHANGED vars
      => UNCHANGED <<creds, fits, main>>
    BY DEF OtaRecv, OtaTimeout, OtaAbort, OtaEnd, OtaBegin, Booted, vars
<1> QED BY <1>1, <1>2, <1>3, <1>4, <1>5, <1>6 DEF Next, MainStep, Timer, OtaTask

(* net.c 196-250: for values of any bytes and any length, and any sizes of *)
(* the two variables and the buffer, a form that came in one piece and has *)
(* room as the browser encoded it is stored as it was typed.               *)
THEOREM FormsStored == Spec => []FormStored
<1>1. FormInv => FormStored
    BY DEF FormInv
<1> QED BY <1>1, FormInitial, FormStep, PTL DEF Spec
=============================================================================
