------------------------------- MODULE Pinned -------------------------------
(***************************************************************************)
(* host/main.zig: the thread of one pinned board and the key it uses, on a *)
(* PC where the commands of KeyLife run.  The connection itself is module  *)
(* Session; here it is up, or it ended with an error.                      *)
(***************************************************************************)
EXTENDS KeyLife

CONSTANTS
    Daemon,    \* the PC that runs the daemon
    Crowded    \* whether its configuration has another board's key too

ASSUME PinnedAssumption == Daemon \in Pcs /\ Crowded \in BOOLEAN

VARIABLES
    conf,     \* external: the key the operator has filed under the board's address
    ctx       \* clientThread: program counter, ctx.psk, the board's boot it is connected to

pinned == <<conf, ctx>>

PinnedTypeOK ==
    /\ conf \in Keys
    /\ ctx \in [pc : {"off", "key", "run", "up", "sleep"}, psk : Keys, boot : Nat]

PinnedInit == Init /\ conf = NoKey /\ ctx = [pc |-> "off", psk |-> NoKey, boot |-> 0]

\* Only faults are counted; the rest of KeyLife stays as it is.
Alone == Others /\ UNCHANGED <<net, sent, releasing, conf>>

\* settings.lookupPsk by the pinned address: claim files under the board's
\* Bluetooth address instead.
LookupPsk == conf

\* runMode: by the address, or the only key there is.
StartKey == IF LookupPsk = NoKey /\ ~Crowded THEN file[Daemon] ELSE LookupPsk

StartDaemon ==
    /\ ctx.pc = "off" /\ ctx' = [ctx EXCEPT !.pc = "key", !.psk = StartKey]
    /\ NoFault /\ Alone

\* The top of the loop: a missing key is looked up again; a configuration
\* that cannot be read has none.
ReadKey ==
    /\ ctx.pc = "key"
    /\ \/ ctx.psk # NoKey /\ ctx' = [ctx EXCEPT !.pc = "run"] /\ NoFault
       \/ /\ ctx.psk = NoKey /\ NoFault
          /\ ctx' = [ctx EXCEPT !.psk = LookupPsk, !.pc = IF LookupPsk = NoKey THEN "key" ELSE "run"]
       \/ ctx.psk = NoKey /\ Fault /\ UNCHANGED ctx
    /\ Alone

\* Mutant: a key that failed is tried again.
AfterAuthFailedKept(k) == k

\* AuthFailed drops the key; other errors keep it.
AfterAuthFailed(k) == NoKey

\* resolve and board.run up to the handshake; a handshake that is cut off
\* counts as failed, whatever the key.
Connect ==
    /\ ctx.pc = "run"
    /\ \/ /\ board.up /\ board.claimed /\ ctx.psk = board.psk /\ NoFault
          /\ ctx' = [ctx EXCEPT !.pc = "up", !.boot = board.boot]
       \/ /\ board.up /\ ~(board.claimed /\ ctx.psk = board.psk) /\ NoFault
          /\ ctx' = [ctx EXCEPT !.pc = "sleep", !.psk = AfterAuthFailed(@)]
       \/ ~board.up /\ NoFault /\ ctx' = [ctx EXCEPT !.pc = "sleep"]
       \/ Fault /\ ctx' = [ctx EXCEPT !.pc = "sleep", !.psk = AfterAuthFailed(@)]
    /\ Alone

\* The session ends with the board it was made with, or breaks.
SessionEnds ==
    /\ ctx.pc = "up"
    /\ ctx' = [ctx EXCEPT !.pc = "sleep", !.boot = 0]
    /\ IF board.up /\ board.boot = ctx.boot THEN Fault ELSE NoFault
    /\ Alone

Wake == ctx.pc = "sleep" /\ ctx' = [ctx EXCEPT !.pc = "key"] /\ NoFault /\ Alone

\* External: the operator copies the key that claim has saved, or removes the
\* one that is gone.
Copy ==
    /\ conf # file[Daemon] /\ conf' = file[Daemon]
    /\ NoFault /\ Others /\ UNCHANGED <<net, sent, releasing, ctx>>

\* External: the operator of a PC that holds the board's key wants to give the
\* board away.
Decide(p) ==
    /\ file[p] # NoKey /\ file[p] = board.nvs /\ p \notin releasing /\ cli[p].pc = "idle"
    /\ releasing' = releasing \cup {p}
    /\ NoFault /\ Others /\ UNCHANGED <<net, sent, pinned>>

Thread == ReadKey \/ Connect \/ SessionEnds \/ Wake
PinnedNext == (Next /\ UNCHANGED pinned) \/ Thread \/ StartDaemon \/ Copy \/ \E p \in Pcs : Decide(p)

PinnedSpec == PinnedInit /\ [][PinnedNext]_<<vars, pinned>>

\* In addition to KeyLife's fairness, the thread runs and its sleeps end.
PinnedFairSpec == PinnedSpec /\ Fairness /\ WF_<<vars, pinned>>(Thread)

-----------------------------------------------------------------------------
(* Properties.                                                             *)

\* main.zig 200-225: with the board's key filed under the board's address,
\* the thread gets attached, and a stale key is re-read instead of failing
\* forever, whatever was claimed, released and restarted before.
KeyReachesBoard ==
    (ctx.pc # "off" /\ conf = board.nvs /\ conf # NoKey)
        ~> (conf # board.nvs \/ (ctx.pc = "up" /\ ctx.psk = conf /\ ctx.boot = board.boot))

\* README.md 194-195, cli.zig 473-505: an operator who repeats unclaim ends
\* with neither side holding the key, whatever step an earlier try died at.
ReleaseCompletes ==
    \A p \in Pcs : p \in releasing ~> (file[p] = NoKey /\ board.nvs = NoKey)
=============================================================================
