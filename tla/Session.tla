------------------------------- MODULE Session ------------------------------
(***************************************************************************)
(* One connection of the host daemon to a board: host/board.zig run, the   *)
(* two pump threads of host/session.zig, and the Link through which the    *)
(* manager tears a live connection down.  board.run connects, proves the   *)
(* key, publishes the stream in the Link, opens the virtual HCI device,    *)
(* lets the pumps work until both have ended, and undoes all that in       *)
(* reverse order.                                                          *)
(***************************************************************************)
EXTENDS Integers

CONSTANTS
    MaxData,    \* bound: chunks either end sends
    MaxKills    \* bound: calls of Link.kill, which announces and refreshes pace

ASSUME BoundsAssumption == {MaxData, MaxKills} \subseteq Nat

VARIABLES
    run,      \* board.run: program counter and result
    up, down, \* tcpToLocal and localToTcp: program counter and error
    stop, first_error,                  \* Session
    tcp,      \* our end of the TCP stream: opened, shut down, closed
    remote,   \* the board's end
    vhci,     \* the local endpoint
    link,     \* Link.stream is set
    kill      \* Link.kill in the manager thread: "idle" or about to shut down

vars == <<run, up, down, stop, first_error, tcp, remote, vhci, link, kill>>

Errors    == {"none", "EndOfStream", "ReadFailed", "WriteFailed", "H4", "LocalWrite",
              "LocalEndpointClosed"}
PumpPc    == {"off", "check", "io", "write", "fail", "set", "stop", "shutdown", "done"}
RunPc     == {"connect", "handshake", "publish", "open", "spawn", "spawn2", "await",
              "await1", "closevhci", "unpublish", "close", "done"}
NoPump    == [pc |-> "off", err |-> "none"]

TypeOK ==
    /\ run \in [pc : RunPc, res : {"none", "ok", "failed", "Session"}]
    /\ up \in [pc : PumpPc, err : Errors] /\ down \in [pc : PumpPc, err : Errors]
    /\ stop \in BOOLEAN /\ first_error \in Errors
    /\ tcp \in {"none", "open", "shut", "closed"}
    /\ remote \in [st : {"up", "fin", "rst"}, data : 0..MaxData, stalled : BOOLEAN]
    /\ vhci \in [st : {"none", "open", "hup", "closed"}, data : 0..MaxData]
    /\ link \in BOOLEAN /\ kill \in [pc : {"idle", "shutdown"}, n : 0..MaxKills]

Init ==
    /\ run = [pc |-> "connect", res |-> "none"]
    /\ up = NoPump /\ down = NoPump
    /\ stop = FALSE /\ first_error = "none"
    /\ tcp = "none"
    /\ remote = [st |-> "up", data |-> MaxData, stalled |-> FALSE]
    /\ vhci = [st |-> "none", data |-> MaxData]
    /\ link = FALSE /\ kill = [pc |-> "idle", n |-> 0]

-----------------------------------------------------------------------------
(* board.run.  Each "failed" exit runs the defers registered so far.       *)
RunTo(l) == run' = [run EXCEPT !.pc = l]

Connect ==
    /\ run.pc = "connect"
    /\ \/ tcp' = "open" /\ RunTo("handshake")
       \/ run' = [pc |-> "done", res |-> "failed"] /\ UNCHANGED tcp
    /\ UNCHANGED <<up, down, stop, first_error, remote, vhci, link, kill>>

(* Lines 38-47: a refusal or a timeout ends the attempt.                   *)
Handshake ==
    /\ run.pc = "handshake"
    /\ \/ remote.st = "up" /\ RunTo("publish")
       \/ run' = [pc |-> "close", res |-> "failed"]
    /\ UNCHANGED <<up, down, stop, first_error, tcp, remote, vhci, link, kill>>

(* Link.set takes the mutex that kill holds (lines 23-27).                 *)
Publish ==
    /\ run.pc = "publish" /\ kill.pc = "idle"
    /\ link' = TRUE
    /\ RunTo("open")
    /\ UNCHANGED <<up, down, stop, first_error, tcp, remote, vhci, kill>>

Open ==
    /\ run.pc = "open"
    /\ \/ vhci' = [vhci EXCEPT !.st = "open"] /\ RunTo("spawn")
       \/ run' = [pc |-> "unpublish", res |-> "failed"] /\ UNCHANGED vhci
    /\ UNCHANGED <<up, down, stop, first_error, tcp, remote, link, kill>>

(* Session.run, lines 68-79: start both pumps, wait for both.              *)
Spawn ==
    /\ run.pc = "spawn"
    /\ \/ up' = [up EXCEPT !.pc = "check"] /\ RunTo("spawn2")
       \/ run' = [pc |-> "closevhci", res |-> "failed"] /\ UNCHANGED up
    /\ UNCHANGED <<down, stop, first_error, tcp, remote, vhci, link, kill>>

Spawn2 ==
    /\ run.pc = "spawn2"
    /\ \/ down' = [down EXCEPT !.pc = "check"] /\ RunTo("await") /\ UNCHANGED <<stop, tcp>>
       \/ /\ run' = [pc |-> "await1", res |-> "failed"]
          /\ stop' = TRUE /\ tcp' = "shut"
          /\ UNCHANGED down
    /\ UNCHANGED <<up, first_error, remote, vhci, link, kill>>

\* Mutant: the session ends with its first pump.
AwaitedOne == up.pc = "done"
Awaited == up.pc = "done" /\ down.pc = "done"

Await ==
    /\ run.pc = "await" /\ Awaited
    /\ run' = [pc |-> "closevhci",
               res |-> IF first_error = "none" THEN "ok" ELSE "Session"]
    /\ UNCHANGED <<up, down, stop, first_error, tcp, remote, vhci, link, kill>>

Await1 ==
    /\ run.pc = "await1" /\ up.pc = "done"
    /\ RunTo("closevhci")
    /\ UNCHANGED <<up, down, stop, first_error, tcp, remote, vhci, link, kill>>

(* The defers of lines 57, 50 and 34, in this order.                       *)
CloseVhci ==
    /\ run.pc = "closevhci"
    /\ vhci' = [vhci EXCEPT !.st = "closed"]
    /\ RunTo("unpublish")
    /\ UNCHANGED <<up, down, stop, first_error, tcp, remote, link, kill>>

\* Mutant: the stream is closed while it is still published.
UnpublishSkipped == UNCHANGED link
Unpublished == link' = FALSE

Unpublish ==
    /\ run.pc = "unpublish" /\ kill.pc = "idle"
    /\ Unpublished
    /\ RunTo("close")
    /\ UNCHANGED <<up, down, stop, first_error, tcp, remote, vhci, kill>>

Close ==
    /\ run.pc = "close"
    /\ tcp' = "closed"
    /\ RunTo("done")
    /\ UNCHANGED <<up, down, stop, first_error, remote, vhci, link, kill>>

RunStep == \/ Connect \/ Handshake \/ Publish \/ Open \/ Spawn \/ Spawn2 \/ Await
           \/ Await1 \/ CloseVhci \/ Unpublish \/ Close

-----------------------------------------------------------------------------
(* tcpToLocal.  A local shutdown ends a blocked read like a close by the   *)
(* board does; what the reader reports for a reset is ReadFailed.          *)
UpCheck ==
    /\ up.pc = "check"
    /\ up' = [up EXCEPT !.pc = IF stop THEN "stop" ELSE "io"]
    /\ UNCHANGED <<run, down, stop, first_error, tcp, remote, vhci, link, kill>>

UpRead ==
    /\ up.pc = "io"
    /\ \/ /\ remote.data > 0 /\ tcp = "open"
          /\ remote' = [remote EXCEPT !.data = @ - 1]
          /\ up' = [up EXCEPT !.pc = "write"]
       \/ /\ tcp # "open" \/ remote.st = "fin"
          /\ up' = [up EXCEPT !.pc = "stop"]
          /\ UNCHANGED remote
       \/ /\ remote.st = "rst"
          /\ up' = [pc |-> "fail", err |-> "ReadFailed"]
          /\ UNCHANGED remote
    /\ UNCHANGED <<run, down, stop, first_error, tcp, vhci, link, kill>>

(* Lines 124-132: the packets of one chunk; writing to the device may fail,*)
(* and the stream may be no H4.                                            *)
UpWrite ==
    /\ up.pc = "write"
    /\ \/ up' = [up EXCEPT !.pc = "check"]
       \/ \E e \in {"H4"} \cup (IF vhci.st = "hup" THEN {"LocalWrite"} ELSE {}) :
            up' = [pc |-> "fail", err |-> e]
    /\ UNCHANGED <<run, down, stop, first_error, tcp, remote, vhci, link, kill>>

(* localToTcp.  The poll returns after 250 ms at the latest; a poll that   *)
(* found input is followed by the read.                                    *)
DownCheck ==
    /\ down.pc = "check"
    /\ down' = [down EXCEPT !.pc = IF stop THEN "stop" ELSE "io"]
    /\ UNCHANGED <<run, up, stop, first_error, tcp, remote, vhci, link, kill>>

LocalReady == vhci.data > 0

DownPoll ==
    /\ down.pc = "io"
    /\ \/ /\ vhci.data = 0 /\ vhci.st = "open"
          /\ down' = [down EXCEPT !.pc = "check"]
          /\ UNCHANGED vhci
       \/ /\ LocalReady
          /\ vhci' = [vhci EXCEPT !.data = @ - 1]
          /\ \E l \in {"write", "check"} : down' = [down EXCEPT !.pc = l]
       \/ /\ vhci.st = "hup"
          /\ \E e \in {"LocalEndpointClosed", "EndOfStream"} :
               down' = [pc |-> "fail", err |-> e]
          /\ UNCHANGED vhci
    /\ UNCHANGED <<run, up, stop, first_error, tcp, remote, link, kill>>

(* Lines 157-158.  The write blocks while the board does not read.         *)
DownWrite ==
    /\ down.pc = "write"
    /\ \/ /\ tcp = "open" /\ remote.st # "rst" /\ ~remote.stalled
          /\ down' = [down EXCEPT !.pc = "check"]
       \/ /\ tcp # "open" \/ remote.st # "up"
          /\ down' = [pc |-> "fail", err |-> "WriteFailed"]
    /\ UNCHANGED <<run, up, stop, first_error, tcp, remote, vhci, link, kill>>

(* fail and shutdown, lines 81-92, in either pump p with the other q.      *)
Filtered == {"EndOfStream"}

\* Mutant: errors are taken for the end of the stream.
RecordedNever(p) == FALSE
Recorded(p) == first_error = "none" /\ p.err \notin Filtered

\* Mutant: shutdown sets stop and leaves the socket alone.
WakeSkipped == tcp
Wake == IF tcp = "open" THEN "shut" ELSE tcp

EndStep(p, pp, q, qq) ==
    /\ \/ /\ p.pc = "fail"
          /\ pp = [p EXCEPT !.pc = IF Recorded(p) THEN "set" ELSE "stop"]
          /\ UNCHANGED <<stop, first_error, tcp>>
       \/ /\ p.pc = "set"
          /\ first_error' = p.err
          /\ pp = [p EXCEPT !.pc = "stop"]
          /\ UNCHANGED <<stop, tcp>>
       \/ /\ p.pc = "stop"
          /\ stop' = TRUE
          /\ pp = [p EXCEPT !.pc = "shutdown"]
          /\ UNCHANGED <<first_error, tcp>>
       \/ /\ p.pc = "shutdown"
          /\ tcp' = Wake
          /\ pp = [p EXCEPT !.pc = "done"]
          /\ UNCHANGED <<stop, first_error>>
    /\ qq = q
    /\ UNCHANGED <<run, remote, vhci, link, kill>>

UpStep   == UpCheck \/ UpRead \/ UpWrite \/ EndStep(up, up', down, down')
DownStep == DownCheck \/ DownPoll \/ DownWrite \/ EndStep(down, down', up, up')

-----------------------------------------------------------------------------
(* Link.kill, called by the manager at any time: the mutex is held from    *)
(* the look at stream to the shutdown (lines 17-21).                       *)
KillLook ==
    /\ kill.pc = "idle" /\ kill.n < MaxKills /\ link
    /\ kill' = [pc |-> "shutdown", n |-> kill.n + 1]
    /\ UNCHANGED <<run, up, down, stop, first_error, tcp, remote, vhci, link>>

\* Mutant: the manager forgets the board without touching its stream.
StrikeSkipped == tcp
Strike == IF tcp = "open" THEN "shut" ELSE tcp

KillShutdown ==
    /\ kill.pc = "shutdown"
    /\ tcp' = Strike
    /\ kill' = [kill EXCEPT !.pc = "idle"]
    /\ UNCHANGED <<run, up, down, stop, first_error, remote, vhci, link>>

(* The board (external): stops reading, closes, or is gone for good, which *)
(* keepalive and the user timeout turn into a reset.                       *)
RemoteStep ==
    /\ tcp # "none" /\ run.pc # "done"
    /\ \/ remote' = [remote EXCEPT !.stalled = TRUE] /\ remote.st = "up"
       \/ remote' = [remote EXCEPT !.st = "fin"] /\ remote.st = "up"
       \/ remote' = [remote EXCEPT !.st = "rst"] /\ remote.st # "rst"
    /\ UNCHANGED <<run, up, down, stop, first_error, tcp, vhci, link, kill>>

(* The kernel takes the virtual device away (external).                    *)
VhciHup ==
    /\ vhci.st = "open" /\ run.pc # "done"
    /\ vhci' = [vhci EXCEPT !.st = "hup"]
    /\ UNCHANGED <<run, up, down, stop, first_error, tcp, remote, link, kill>>

(* The board's thread tries again (manager.zig 146-165): a new stream and  *)
(* session, the same Link.                                                 *)
Retry ==
    /\ run.pc = "done"
    /\ run' = [pc |-> "connect", res |-> "none"]
    /\ up' = NoPump /\ down' = NoPump
    /\ stop' = FALSE /\ first_error' = "none"
    /\ tcp' = "none"
    /\ remote' = [st |-> "up", data |-> MaxData, stalled |-> FALSE]
    /\ vhci' = [st |-> "none", data |-> MaxData]
    /\ UNCHANGED <<link, kill>>

Next == RunStep \/ UpStep \/ DownStep \/ KillLook \/ KillShutdown \/ RemoteStep
        \/ VhciHup \/ Retry

Spec == Init /\ [][Next]_vars

(* Threads run; nothing is assumed of the board, the device or the manager *)
(* but that a kill it has begun completes.                                 *)
FairSpec == /\ Spec /\ WF_vars(RunStep) /\ WF_vars(UpStep) /\ WF_vars(DownStep)
            /\ WF_vars(KillShutdown)

-----------------------------------------------------------------------------
(* The manager never shuts down a descriptor that board.run has closed and *)
(* that may belong to another connection by now (board.zig 17-27, 50).     *)
KillHitsLiveStream == kill.pc = "shutdown" => tcp \in {"open", "shut"}

(* Neither the stream nor the device is closed while a pump can still use  *)
(* it (session.zig 75-76).                                                 *)
PumpsOwnHandles ==
    tcp = "closed" \/ vhci.st = "closed" => {up.pc, down.pc} \subseteq {"off", "done"}

(* A pump's failure reaches the caller, although the pumps record it       *)
(* without a lock: racing, one may overwrite the other's, never erase it.  *)
FailureReported ==
    run.pc = "done" /\ run.res = "ok"
        => {up.err, down.err} \subseteq Filtered \cup {"none"}

(* Either pump's end ends the session: the other one is woken from a read, *)
(* a poll or a write that the board does not take (session.zig 88-92).     *)
SessionEnds == stop ~> run.pc = "done"

(* A kill that found the link ends the connection, whatever the board does.*)
KillEnds == kill.pc = "shutdown" ~> run.pc = "done"
=============================================================================
