---------------------------- MODULE SessionProofs ---------------------------
(***************************************************************************)
(* Safety of a connection (module Session) for any amount of data and any  *)
(* number of kills.  SessionInv ties the link, the stream, the device and  *)
(* the pumps to how far board.run has come, and the recorded error to what *)
(* the pumps have met.                                                     *)
(***************************************************************************)
EXTENDS Session, TLAPS

Early     == {"connect", "handshake", "publish", "open", "spawn"}
Late      == {"closevhci", "unpublish", "close", "done"}
Published == {"open", "spawn", "spawn2", "await", "await1", "closevhci", "unpublish"}

\* TypeOK without its Boolean variables, and the board's end.
PlainTypes ==
    /\ run \in [pc : RunPc, res : {"none", "ok", "failed", "Session"}]
    /\ up \in [pc : PumpPc, err : Errors] /\ down \in [pc : PumpPc, err : Errors]
    /\ first_error \in Errors /\ tcp \in {"none", "open", "shut", "closed"}
    /\ vhci \in [st : {"none", "open", "hup", "closed"}, data : 0..MaxData]
    /\ kill \in [pc : {"idle", "shutdown"}, n : 0..MaxKills]
RemoteType == remote \in [st : {"up", "fin", "rst"}, data : 0..MaxData, stalled : BOOLEAN]

\* The link is set exactly between publish and unpublish, a kill that has
\* seen it holds the mutex, and the stream is closed last.
LinkInv ==
    /\ link <=> run.pc \in Published
    /\ kill.pc = "shutdown" => link
    /\ run.pc \notin {"connect", "done"} => tcp \in {"open", "shut"}
    /\ tcp = "closed" => run.pc = "done"
    /\ vhci.st = "closed" => run.pc \in {"unpublish", "close", "done"}

\* A pump runs from its start until run has waited for it.
PumpInv ==
    /\ run.pc \in Early => up = NoPump /\ down = NoPump
    /\ run.pc \in {"spawn2", "await1"} => down = NoPump
    /\ run.pc \in Late => up.pc \in {"off", "done"} /\ down.pc \in {"off", "done"}

\* What a pump has met, by where it is, and that it was recorded or is about
\* to be.
ErrOk(p) ==
    /\ p.pc \in {"off", "check", "io", "write"} => p.err = "none"
    /\ p.pc = "fail" => p.err # "none"
    /\ p.pc = "set" => p.err \notin Filtered \cup {"none"}
    /\ p.pc \in {"stop", "shutdown", "done"} /\ p.err \notin Filtered \cup {"none"} => first_error # "none"

ResultInv == run.res = "ok" => run.pc \in Late /\ first_error = "none"

SessionInv == TypeOK /\ LinkInv /\ PumpInv /\ ErrOk(up) /\ ErrOk(down) /\ ResultInv

-----------------------------------------------------------------------------
(* Initial states, and one lemma for each group of actions.                *)

LEMMA SessionInitial == Init => SessionInv
<1> SUFFICES ASSUME Init PROVE SessionInv
    OBVIOUS
<1>1. PlainTypes
    BY BoundsAssumption DEF Init, PlainTypes, NoPump, Errors, PumpPc, RunPc
<1>2. stop \in BOOLEAN /\ link \in BOOLEAN
    BY DEF Init
<1>3. RemoteType
    BY BoundsAssumption DEF Init, RemoteType
<1>4. LinkInv
    BY DEF Init, LinkInv, Published
<1>5. PumpInv /\ ErrOk(up) /\ ErrOk(down) /\ ResultInv
    BY DEF Init, PumpInv, ErrOk, ResultInv, NoPump, Early, Late, Filtered
<1> QED BY <1>1, <1>2, <1>3, <1>4, <1>5 DEF SessionInv, TypeOK, PlainTypes, RemoteType

\* board.run: every exit undoes what was done so far, in reverse order.
LEMMA RunPreserves == SessionInv /\ RunStep => SessionInv'
<1> SUFFICES ASSUME SessionInv, RunStep PROVE SessionInv'
    OBVIOUS
<1> USE DEF SessionInv
<1>1. CASE Connect
  <2>1. TypeOK'
    BY <1>1, BoundsAssumption DEF Connect, RunTo, TypeOK, RunPc, PumpPc, Errors, NoPump
  <2>2. LinkInv'
    BY <1>1 DEF Connect, RunTo, LinkInv, TypeOK, Published
  <2>3. PumpInv' /\ ErrOk(up)' /\ ErrOk(down)' /\ ResultInv'
    BY <1>1 DEF Connect, RunTo, PumpInv, ErrOk, ResultInv, TypeOK, PumpPc, Errors, NoPump, Early, Late, Filtered
  <2> QED BY <2>1, <2>2, <2>3
<1>2. CASE Handshake
  <2>1. TypeOK'
    BY <1>2, BoundsAssumption DEF Handshake, RunTo, TypeOK, RunPc, PumpPc, Errors, NoPump
  <2>2. LinkInv'
    BY <1>2 DEF Handshake, RunTo, LinkInv, TypeOK, Published
  <2>3. PumpInv' /\ ErrOk(up)' /\ ErrOk(down)' /\ ResultInv'
    BY <1>2 DEF Handshake, RunTo, PumpInv, ErrOk, ResultInv, TypeOK, PumpPc, Errors, NoPump, Early, Late, Filtered
  <2> QED BY <2>1, <2>2, <2>3
<1>3. CASE Publish
  <2>1. TypeOK'
    BY <1>3, BoundsAssumption DEF Publish, RunTo, TypeOK, RunPc, PumpPc, Errors, NoPump
  <2>2. LinkInv'
    BY <1>3 DEF Publish, RunTo, LinkInv, TypeOK, Published
  <2>3. PumpInv' /\ ErrOk(up)' /\ ErrOk(down)' /\ ResultInv'
    BY <1>3 DEF Publish, RunTo, PumpInv, ErrOk, ResultInv, TypeOK, PumpPc, Errors, NoPump, Early, Late, Filtered
  <2> QED BY <2>1, <2>2, <2>3
<1>4. CASE Open
  <2>1. TypeOK'
    BY <1>4, BoundsAssumption DEF Open, RunTo, TypeOK, RunPc, PumpPc, Errors, NoPump
  <2>2. LinkInv'
    BY <1>4 DEF Open, RunTo, LinkInv, TypeOK, Published
  <2>3. PumpInv' /\ ErrOk(up)' /\ ErrOk(down)' /\ ResultInv'
    BY <1>4 DEF Open, RunTo, PumpInv, ErrOk, ResultInv, TypeOK, PumpPc, Errors, NoPump, Early, Late, Filtered
  <2> QED BY <2>1, <2>2, <2>3
<1>5. CASE Spawn
  <2>1. TypeOK'
    BY <1>5, BoundsAssumption DEF Spawn, RunTo, TypeOK, RunPc, PumpPc, Errors, NoPump
  <2>2. LinkInv'
    BY <1>5 DEF Spawn, RunTo, LinkInv, TypeOK, Published
  <2>3. PumpInv' /\ ErrOk(up)' /\ ErrOk(down)' /\ ResultInv'
    BY <1>5 DEF Spawn, RunTo, PumpInv, ErrOk, ResultInv, TypeOK, PumpPc, Errors, NoPump, Early, Late, Filtered
  <2> QED BY <2>1, <2>2, <2>3
<1>6. CASE Spawn2
  <2>1. TypeOK'
    <3>1. PlainTypes'
      BY <1>6, BoundsAssumption DEF Spawn2, RunTo, PlainTypes, TypeOK, RunPc, PumpPc, Errors, NoPump
    <3>2. stop' \in BOOLEAN /\ link' \in BOOLEAN
      BY <1>6 DEF Spawn2, RunTo, TypeOK
    <3>3. RemoteType'
      BY <1>6, BoundsAssumption DEF Spawn2, RunTo, RemoteType, TypeOK
    <3> QED BY <3>1, <3>2, <3>3 DEF TypeOK, PlainTypes, RemoteType
  <2>2. LinkInv'
    BY <1>6 DEF Spawn2, RunTo, LinkInv, TypeOK, Published
  <2>3. PumpInv' /\ ErrOk(up)' /\ ErrOk(down)' /\ ResultInv'
    BY <1>6 DEF Spawn2, RunTo, PumpInv, ErrOk, ResultInv, TypeOK, PumpPc, Errors, NoPump, Early, Late, Filtered
  <2> QED BY <2>1, <2>2, <2>3
<1>7. CASE Await
  <2>1. TypeOK'
    BY <1>7, BoundsAssumption DEF Await, Awaited, TypeOK, RunPc, PumpPc, Errors, NoPump
  <2>2. LinkInv'
    BY <1>7 DEF Await, Awaited, LinkInv, TypeOK, Published
  <2>3. PumpInv' /\ ErrOk(up)' /\ ErrOk(down)' /\ ResultInv'
    BY <1>7 DEF Await, Awaited, PumpInv, ErrOk, ResultInv, TypeOK, PumpPc, Errors, NoPump, Early, Late, Filtered
  <2> QED BY <2>1, <2>2, <2>3
<1>8. CASE Await1
  <2>1. TypeOK'
    BY <1>8, BoundsAssumption DEF Await1, RunTo, TypeOK, RunPc, PumpPc, Errors, NoPump
  <2>2. LinkInv'
    BY <1>8 DEF Await1, RunTo, LinkInv, TypeOK, Published
  <2>3. PumpInv' /\ ErrOk(up)' /\ ErrOk(down)' /\ ResultInv'
    BY <1>8 DEF Await1, RunTo, PumpInv, ErrOk, ResultInv, TypeOK, PumpPc, Errors, NoPump, Early, Late, Filtered
  <2> QED BY <2>1, <2>2, <2>3
<1>9. CASE CloseVhci
  <2>1. TypeOK'
    BY <1>9, BoundsAssumption DEF CloseVhci, RunTo, TypeOK, RunPc, PumpPc, Errors, NoPump
  <2>2. LinkInv'
    BY <1>9 DEF CloseVhci, RunTo, LinkInv, TypeOK, Published
  <2>3. PumpInv' /\ ErrOk(up)' /\ ErrOk(down)' /\ ResultInv'
    BY <1>9 DEF CloseVhci, RunTo, PumpInv, ErrOk, ResultInv, TypeOK, PumpPc, Errors, NoPump, Early, Late, Filtered
  <2> QED BY <2>1, <2>2, <2>3
<1>10. CASE Unpublish
  <2>1. TypeOK'
    <3>1. PlainTypes'
      BY <1>10, BoundsAssumption DEF Unpublish, Unpublished, RunTo, PlainTypes, TypeOK, RunPc, PumpPc, Errors, NoPump
    <3>2. stop' \in BOOLEAN /\ link' \in BOOLEAN
      BY <1>10 DEF Unpublish, Unpublished, RunTo, TypeOK
    <3>3. RemoteType'
      BY <1>10, BoundsAssumption DEF Unpublish, Unpublished, RunTo, RemoteType, TypeOK
    <3> QED BY <3>1, <3>2, <3>3 DEF TypeOK, PlainTypes, RemoteType
  <2>2. LinkInv'
    BY <1>10 DEF Unpublish, Unpublished, RunTo, LinkInv, TypeOK, Published
  <2>3. PumpInv' /\ ErrOk(up)' /\ ErrOk(down)' /\ ResultInv'
    BY <1>10 DEF Unpublish, Unpublished, RunTo, PumpInv, ErrOk, ResultInv, TypeOK, PumpPc, Errors, NoPump, Early, Late, Filtered
  <2> QED BY <2>1, <2>2, <2>3
<1>11. CASE Close
  <2>1. TypeOK'
    BY <1>11, BoundsAssumption DEF Close, RunTo, TypeOK, RunPc, PumpPc, Errors, NoPump
  <2>2. LinkInv'
    BY <1>11 DEF Close, RunTo, LinkInv, TypeOK, Published
  <2>3. PumpInv' /\ ErrOk(up)' /\ ErrOk(down)' /\ ResultInv'
    BY <1>11 DEF Close, RunTo, PumpInv, ErrOk, ResultInv, TypeOK, PumpPc, Errors, NoPump, Early, Late, Filtered
  <2> QED BY <2>1, <2>2, <2>3
<1> QED BY <1>1, <1>2, <1>3, <1>4, <1>5, <1>6, <1>7, <1>8, <1>9, <1>10, <1>11 DEF RunStep

\* tcpToLocal runs only while run waits for it, and stops for good.
LEMMA UpPreserves == SessionInv /\ UpStep => SessionInv'
<1> SUFFICES ASSUME SessionInv, UpStep PROVE SessionInv'
    OBVIOUS
<1> USE DEF SessionInv
<1>1. CASE UpCheck
  <2>1. TypeOK'
    BY <1>1, BoundsAssumption DEF UpCheck, TypeOK, RunPc, PumpPc, Errors, NoPump
  <2>2. LinkInv'
    BY <1>1 DEF UpCheck, LinkInv, TypeOK, Published
  <2>3. PumpInv' /\ ErrOk(up)' /\ ErrOk(down)' /\ ResultInv'
    BY <1>1 DEF UpCheck, PumpInv, ErrOk, ResultInv, TypeOK, PumpPc, Errors, NoPump, Early, Late, Filtered
  <2> QED BY <2>1, <2>2, <2>3
<1>2. CASE UpRead
  <2>1. TypeOK'
    BY <1>2, BoundsAssumption DEF UpRead, TypeOK, RunPc, PumpPc, Errors, NoPump
  <2>2. LinkInv'
    BY <1>2 DEF UpRead, LinkInv, TypeOK, Published
  <2>3. PumpInv' /\ ErrOk(up)' /\ ErrOk(down)' /\ ResultInv'
    BY <1>2 DEF UpRead, PumpInv, ErrOk, ResultInv, TypeOK, PumpPc, Errors, NoPump, Early, Late, Filtered
  <2> QED BY <2>1, <2>2, <2>3
<1>3. CASE UpWrite
  <2>1. TypeOK'
    BY <1>3, BoundsAssumption DEF UpWrite, TypeOK, RunPc, PumpPc, Errors, NoPump
  <2>2. LinkInv'
    BY <1>3 DEF UpWrite, LinkInv, TypeOK, Published
  <2>3. PumpInv' /\ ErrOk(up)' /\ ErrOk(down)' /\ ResultInv'
    BY <1>3 DEF UpWrite, PumpInv, ErrOk, ResultInv, TypeOK, PumpPc, Errors, NoPump, Early, Late, Filtered
  <2> QED BY <2>1, <2>2, <2>3
<1>4. CASE EndStep(up, up', down, down')
  <2>1. TypeOK'
    <3>1. PlainTypes'
      BY <1>4, BoundsAssumption DEF EndStep, Recorded, Wake, PlainTypes, TypeOK, RunPc, PumpPc, Errors, NoPump
    <3>2. stop' \in BOOLEAN /\ link' \in BOOLEAN
      BY <1>4 DEF EndStep, Recorded, Wake, TypeOK
    <3>3. RemoteType'
      BY <1>4, BoundsAssumption DEF EndStep, Recorded, Wake, RemoteType, TypeOK
    <3> QED BY <3>1, <3>2, <3>3 DEF TypeOK, PlainTypes, RemoteType
  <2>2. LinkInv'
    BY <1>4 DEF EndStep, Recorded, Wake, LinkInv, TypeOK, Published
  <2>3. PumpInv' /\ ErrOk(up)' /\ ErrOk(down)' /\ ResultInv'
    BY <1>4 DEF EndStep, Recorded, Wake, PumpInv, ErrOk, ResultInv, TypeOK, PumpPc, Errors, NoPump, Early, Late, Filtered
  <2> QED BY <2>1, <2>2, <2>3
<1> QED BY <1>1, <1>2, <1>3, <1>4 DEF UpStep

\* localToTcp, likewise.
LEMMA DownPreserves == SessionInv /\ DownStep => SessionInv'
<1> SUFFICES ASSUME SessionInv, DownStep PROVE SessionInv'
    OBVIOUS
<1> USE DEF SessionInv
<1>1. CASE DownCheck
  <2>1. TypeOK'
    BY <1>1, BoundsAssumption DEF DownCheck, TypeOK, RunPc, PumpPc, Errors, NoPump
  <2>2. LinkInv'
    BY <1>1 DEF DownCheck, LinkInv, TypeOK, Published
  <2>3. PumpInv' /\ ErrOk(up)' /\ ErrOk(down)' /\ ResultInv'
    BY <1>1 DEF DownCheck, PumpInv, ErrOk, ResultInv, TypeOK, PumpPc, Errors, NoPump, Early, Late, Filtered
  <2> QED BY <2>1, <2>2, <2>3
<1>2. CASE DownPoll
  <2>1. TypeOK'
    BY <1>2, BoundsAssumption DEF DownPoll, LocalReady, TypeOK, RunPc, PumpPc, Errors, NoPump
  <2>2. LinkInv'
    BY <1>2 DEF DownPoll, LocalReady, LinkInv, TypeOK, Published
  <2>3. PumpInv' /\ ErrOk(up)' /\ ErrOk(down)' /\ ResultInv'
    BY <1>2 DEF DownPoll, LocalReady, PumpInv, ErrOk, ResultInv, TypeOK, PumpPc, Errors, NoPump, Early, Late, Filtered
  <2> QED BY <2>1, <2>2, <2>3
<1>3. CASE DownWrite
  <2>1. TypeOK'
    BY <1>3, BoundsAssumption DEF DownWrite, TypeOK, RunPc, PumpPc, Errors, NoPump
  <2>2. LinkInv'
    BY <1>3 DEF DownWrite, LinkInv, TypeOK, Published
  <2>3. PumpInv' /\ ErrOk(up)' /\ ErrOk(down)' /\ ResultInv'
    BY <1>3 DEF DownWrite, PumpInv, ErrOk, ResultInv, TypeOK, PumpPc, Errors, NoPump, Early, Late, Filtered
  <2> QED BY <2>1, <2>2, <2>3
<1>4. CASE EndStep(down, down', up, up')
  <2>1. TypeOK'
    <3>1. PlainTypes'
      BY <1>4, BoundsAssumption DEF EndStep, Recorded, Wake, PlainTypes, TypeOK, RunPc, PumpPc, Errors, NoPump
    <3>2. stop' \in BOOLEAN /\ link' \in BOOLEAN
      BY <1>4 DEF EndStep, Recorded, Wake, TypeOK
    <3>3. RemoteType'
      BY <1>4, BoundsAssumption DEF EndStep, Recorded, Wake, RemoteType, TypeOK
    <3> QED BY <3>1, <3>2, <3>3 DEF TypeOK, PlainTypes, RemoteType
  <2>2. LinkInv'
    BY <1>4 DEF EndStep, Recorded, Wake, LinkInv, TypeOK, Published
  <2>3. PumpInv' /\ ErrOk(up)' /\ ErrOk(down)' /\ ResultInv'
    BY <1>4 DEF EndStep, Recorded, Wake, PumpInv, ErrOk, ResultInv, TypeOK, PumpPc, Errors, NoPump, Early, Late, Filtered
  <2> QED BY <2>1, <2>2, <2>3
<1> QED BY <1>1, <1>2, <1>3, <1>4 DEF DownStep

\* The manager, the board, the kernel and the next attempt.
LEMMA OtherPreserves == SessionInv /\ (KillLook \/ KillShutdown \/ RemoteStep \/ VhciHup \/ Retry) => SessionInv'
<1> SUFFICES ASSUME SessionInv, (KillLook \/ KillShutdown \/ RemoteStep \/ VhciHup \/ Retry) PROVE SessionInv'
    OBVIOUS
<1> USE DEF SessionInv
<1>1. CASE KillLook
  <2>1. TypeOK'
    BY <1>1, BoundsAssumption DEF KillLook, TypeOK, RunPc, PumpPc, Errors, NoPump
  <2>2. LinkInv'
    BY <1>1 DEF KillLook, LinkInv, TypeOK, Published
  <2>3. PumpInv' /\ ErrOk(up)' /\ ErrOk(down)' /\ ResultInv'
    BY <1>1 DEF KillLook, PumpInv, ErrOk, ResultInv, TypeOK, PumpPc, Errors, NoPump, Early, Late, Filtered
  <2> QED BY <2>1, <2>2, <2>3
<1>2. CASE KillShutdown
  <2>1. TypeOK'
    BY <1>2, BoundsAssumption DEF KillShutdown, Strike, TypeOK, RunPc, PumpPc, Errors, NoPump
  <2>2. LinkInv'
    BY <1>2 DEF KillShutdown, Strike, LinkInv, TypeOK, Published
  <2>3. PumpInv' /\ ErrOk(up)' /\ ErrOk(down)' /\ ResultInv'
    BY <1>2 DEF KillShutdown, Strike, PumpInv, ErrOk, ResultInv, TypeOK, PumpPc, Errors, NoPump, Early, Late, Filtered
  <2> QED BY <2>1, <2>2, <2>3
<1>3. CASE RemoteStep
  <2>1. TypeOK'
    <3>1. PlainTypes'
      BY <1>3, BoundsAssumption DEF RemoteStep, PlainTypes, TypeOK, RunPc, PumpPc, Errors, NoPump
    <3>2. stop' \in BOOLEAN /\ link' \in BOOLEAN
      BY <1>3 DEF RemoteStep, TypeOK
    <3>3. RemoteType'
      BY <1>3, BoundsAssumption DEF RemoteStep, RemoteType, TypeOK
    <3> QED BY <3>1, <3>2, <3>3 DEF TypeOK, PlainTypes, RemoteType
  <2>2. LinkInv'
    BY <1>3 DEF RemoteStep, LinkInv, TypeOK, Published
  <2>3. PumpInv' /\ ErrOk(up)' /\ ErrOk(down)' /\ ResultInv'
    BY <1>3 DEF RemoteStep, PumpInv, ErrOk, ResultInv, TypeOK, PumpPc, Errors, NoPump, Early, Late, Filtered
  <2> QED BY <2>1, <2>2, <2>3
<1>4. CASE VhciHup
  <2>1. TypeOK'
    BY <1>4, BoundsAssumption DEF VhciHup, TypeOK, RunPc, PumpPc, Errors, NoPump
  <2>2. LinkInv'
    BY <1>4 DEF VhciHup, LinkInv, TypeOK, Published
  <2>3. PumpInv' /\ ErrOk(up)' /\ ErrOk(down)' /\ ResultInv'
    BY <1>4 DEF VhciHup, PumpInv, ErrOk, ResultInv, TypeOK, PumpPc, Errors, NoPump, Early, Late, Filtered
  <2> QED BY <2>1, <2>2, <2>3
<1>5. CASE Retry
  <2>1. TypeOK'
    <3>1. PlainTypes'
      BY <1>5, BoundsAssumption DEF Retry, PlainTypes, TypeOK, RunPc, PumpPc, Errors, NoPump
    <3>2. stop' \in BOOLEAN /\ link' \in BOOLEAN
      BY <1>5 DEF Retry, TypeOK
    <3>3. RemoteType'
      BY <1>5, BoundsAssumption DEF Retry, RemoteType, TypeOK
    <3> QED BY <3>1, <3>2, <3>3 DEF TypeOK, PlainTypes, RemoteType
  <2>2. LinkInv'
    BY <1>5 DEF Retry, LinkInv, TypeOK, Published
  <2>3. PumpInv' /\ ErrOk(up)' /\ ErrOk(down)' /\ ResultInv'
    BY <1>5 DEF Retry, PumpInv, ErrOk, ResultInv, TypeOK, PumpPc, Errors, NoPump, Early, Late, Filtered
  <2> QED BY <2>1, <2>2, <2>3
<1> QED BY <1>1, <1>2, <1>3, <1>4, <1>5 DEF SessionInv

LEMMA SessionStep == SessionInv /\ [Next]_vars => SessionInv'
<1>1. ASSUME SessionInv, UNCHANGED vars PROVE SessionInv'
    BY <1>1 DEF vars, SessionInv, TypeOK, LinkInv, PumpInv, ErrOk, ResultInv
<1> QED BY <1>1, RunPreserves, UpPreserves, DownPreserves, OtherPreserves DEF Next

LEMMA SessionInvariant == Spec => []SessionInv
  BY SessionInitial, SessionStep, PTL DEF Spec

-----------------------------------------------------------------------------

\* Program counters, results, handles and bounds keep their types.
THEOREM SessionTypeCorrect == Spec => []TypeOK
<1>1. SessionInv => TypeOK
    BY DEF SessionInv
<1> QED BY <1>1, SessionInvariant, PTL

\* board.zig 17-27, 50: Link.kill never reaches a stream that board.run has
\* closed.
THEOREM KillOnlyLiveStream == Spec => []KillHitsLiveStream
<1>1. SessionInv => KillHitsLiveStream
    BY DEF SessionInv, LinkInv, KillHitsLiveStream, Published
<1> QED BY <1>1, SessionInvariant, PTL

\* session.zig 75-76, board.zig 34-57: stream and device outlive both pumps,
\* whichever step of starting them failed.
THEOREM HandlesOutlivePumps == Spec => []PumpsOwnHandles
<1>1. SessionInv => PumpsOwnHandles
    BY DEF SessionInv, LinkInv, PumpInv, PumpsOwnHandles, Late
<1> QED BY <1>1, SessionInvariant, PTL

\* session.zig 81-86: an error that a pump met is not lost in the race of the
\* two for first_error.
THEOREM FailuresReported == Spec => []FailureReported
<1>1. SessionInv => FailureReported
    BY DEF SessionInv, TypeOK, PumpInv, ErrOk, ResultInv, FailureReported, Late, PumpPc
<1> QED BY <1>1, SessionInvariant, PTL
=============================================================================
