---------------------------- MODULE BridgeProofs ----------------------------
(* What Bridge keeps for every number of connections, descriptors, packet  *)
(* lengths and buffer sizes.                                               *)
EXTENDS Bridge, SequenceTheorems, TLAPS

-----------------------------------------------------------------------------
(* Parts of sequences. *)

(* A prefix of a sequence has the same elements.                           *)
LEMMA PrefixType ==
    ASSUME NEW S, NEW s \in Seq(S), NEW n \in Int, n <= Len(s)
    PROVE  Prefix(s, n) \in Seq(S)
BY DEF Prefix

(* So has what is left when a prefix is taken away.                        *)
LEMMA DropType ==
    ASSUME NEW S, NEW s \in Seq(S), NEW n \in Nat
    PROVE  Drop(s, n) \in Seq(S)
BY DEF Drop

(* The empty sequence is a sequence over any set.                          *)
LEMMA EmptyType == ASSUME NEW S PROVE << >> \in Seq(S)
OBVIOUS

(* Least is the smaller of its two arguments.                              *)
LEMMA LeastType ==
    ASSUME NEW a \in Int, NEW b \in Int
    PROVE  /\ Least(a, b) \in {a, b}
           /\ Least(a, b) \in Int
           /\ Least(a, b) <= a /\ Least(a, b) <= b
BY DEF Least

(* What a descriptor number refers to is a connection or nothing.          *)
LEMMA ConnType ==
    ASSUME TypeOK, NEW f
    PROVE  Conn(f) \in Conns \cup {NoConn}
BY DEF TypeOK, Conn

(* What glue_sb_recv moves is typed, whatever the fill level.              *)
LEMMA SbRecvType ==
    ASSUME TypeOK, NEW pc \in TxPc,
           SbRecv(pc)
    PROVE  /\ sb' \in Seq(Unit)
           /\ tx' \in TxState /\ tx'.pc = pc
<1> DEFINE n == Least(TxChunk, Len(sb))
<1>1. n \in Nat /\ n <= Len(sb)
  <2>1. TxChunk \in Nat /\ Len(sb) \in Nat BY SizeAssumption DEF TypeOK
  <2> QED BY <2>1 DEF Least
<1>2. Prefix(sb, n) \in Seq(Unit) BY <1>1, PrefixType DEF TypeOK
<1>3. Drop(sb, n) \in Seq(Unit) BY <1>1, DropType DEF TypeOK
<1>4. tx' = [tx EXCEPT !.pc = pc, !.chunk = Prefix(sb, n)] BY DEF SbRecv
<1>5. tx' \in TxState /\ tx'.pc = pc BY <1>2, <1>4 DEF TypeOK, TxState
<1> QED BY <1>3, <1>5 DEF SbRecv

(* Moving the rx task to a label keeps its locals well typed.              *)
LEMMA GotoType ==
    ASSUME TypeOK, NEW l \in RxPc
    PROVE  Goto(l) \in RxState /\ Goto(l).pc = l
BY DEF TypeOK, Goto, RxState, FdVal, NoFd

(* The same for the tx task.                                               *)
LEMMA TxGotoType ==
    ASSUME TypeOK, NEW l \in TxPc
    PROVE  TxGoto(l) \in TxState /\ TxGoto(l).pc = l
BY DEF TypeOK, TxGoto, TxState

(* The same for its return to the loop top.                                *)
LEMMA TxAgainType == TypeOK => TxAgain \in TxState /\ TxAgain.pc = "top"
BY DEF TypeOK, TxAgain, TxState, TxPc, FdVal, NoFd

(* Closing keeps the descriptor table and the sockets well typed.          *)
LEMMA CloseType ==
    ASSUME TypeOK, NEW f, Close(f)
    PROVE  /\ fdt' \in [Fds -> Conns \cup {NoConn}]
           /\ sock' \in [Conns -> {"none", "pending", "open", "shut", "closed"}]
BY DEF TypeOK, Close

(* The state after bridge_start is well typed.                             *)
LEMMA InitType == Init => TypeOK
<1> SUFFICES ASSUME Init PROVE TypeOK OBVIOUS
<1>1. rx \in RxState BY DEF Init, RxState, RxPc, FdVal, NoFd
<1>2. tx \in TxState BY DEF Init, TxState, TxPc, FdVal, NoFd
<1>3. ctl \in CtlState BY DEF Init, CtlState
<1>4. host \in [Conns -> HostState] BY DEF Init, HostState
<1>5. sb \in Seq(Unit) /\ got \in [Conns -> Seq(Unit)] BY EmptyType DEF Init
<1>6. last \in Seq(Conns \cup {NoConn}) BY EmptyType DEF Init
<1> QED BY <1>1, <1>2, <1>3, <1>4, <1>5, <1>6 DEF Init, TypeOK, FdVal, NoFd

(* Every step of the rx task keeps the types.                              *)
LEMMA RxType == TypeOK /\ RxStep => TypeOK'
<1> SUFFICES ASSUME TypeOK, RxStep PROVE TypeOK' OBVIOUS
<1>1. CASE RxPoll
  <2>1. rx' \in RxState BY <1>1 DEF RxPoll, TypeOK, RxState, RxPc, FdVal, NoFd
  <2> QED BY <1>1, <2>1 DEF RxPoll, TypeOK, FdVal, NoFd, net, hist
<1>2. CASE RxAccept
  <2>1. CASE rx' = Goto("chkfail") /\ UNCHANGED net
    BY <1>2, <2>1, GotoType DEF RxAccept, TypeOK, RxPc, net, hist
  <2>2. ASSUME NEW c \in Conns, NEW f \in Fds,
               fdt' = [fdt EXCEPT ![f] = c], sock' = [sock EXCEPT ![c] = "open"],
               rx' = [rx EXCEPT !.pc = "handshake", !.new = f]
        PROVE  TypeOK'
    <3>1. rx' \in RxState BY <2>2 DEF TypeOK, RxState, RxPc, FdVal
    <3> QED BY <1>2, <2>2, <3>1 DEF RxAccept, TypeOK, hist
  <2> QED BY <1>2, <2>1, <2>2 DEF RxAccept
<1>3. CASE RxHandshakeFail
  <2>1. rx' \in RxState BY <1>3 DEF RxHandshakeFail, TypeOK, RxState, RxPc, FdVal, NoFd
  <2> QED BY <1>3, <2>1, CloseType DEF RxHandshakeFail, TypeOK, FdVal, NoFd, net, hist, Reject
<1>4. CASE RxHandshakeOk
  <2>1. rx' \in RxState BY <1>4, GotoType DEF RxHandshakeOk, RxPc
  <2> QED BY <1>4, <2>1 DEF RxHandshakeOk, TypeOK, FdVal, NoFd, net, hist
<1>5. CASE RxSwap
  <2>1. rx' \in RxState BY <1>5 DEF RxSwap, TypeOK, RxState, RxPc, FdVal, NoFd
  <2> QED BY <1>5, <2>1 DEF RxSwap, TypeOK, FdVal, NoFd, net, hist
<1>6. CASE RxShutdown
  <2>1. rx' \in RxState BY <1>6, EmptyType DEF RxShutdown, TypeOK, RxState, RxPc, FdVal, NoFd, Reset
  <2> QED BY <1>6, <2>1 DEF RxShutdown, TypeOK, FdVal, NoFd, net, hist, Shutdown
<1>7. CASE RxUnidle
  <2>1. rx' \in RxState BY <1>7, GotoType DEF RxUnidle, RxPc
  <2> QED BY <1>7, <2>1 DEF RxUnidle, TypeOK, FdVal, NoFd, net, hist, Unidle
<1>8. CASE RxPause
  <2>1. rx' \in RxState BY <1>8, GotoType DEF RxPause, RxPc
  <2> QED BY <1>8, <2>1 DEF RxPause, TypeOK, FdVal, NoFd, net, hist
<1>9. CASE RxWait
  <2>1. rx' \in RxState BY <1>9, GotoType DEF RxWait, RxPc
  <2> QED BY <1>9, <2>1 DEF RxWait, TypeOK, FdVal, NoFd, net, hist
<1>10. CASE RxCloseOld
  <2>1. rx' \in RxState BY <1>10, GotoType DEF RxCloseOld, RxPc
  <2> QED BY <1>10, <2>1, CloseType DEF RxCloseOld, TypeOK, FdVal, NoFd, net, hist
<1>11. CASE RxClearFailed
  <2>1. rx' \in RxState BY <1>11, GotoType DEF RxClearFailed, RxPc
  <2> QED BY <1>11, <2>1 DEF RxClearFailed, TypeOK, FdVal, NoFd, net, hist, Clear
<1>12. CASE RxDrain
  <2>1. rx' \in RxState BY <1>12, GotoType DEF RxDrain, Drain, RxPc
  <2> QED BY <1>12, <2>1, SbRecvType DEF RxDrain, TypeOK, FdVal, NoFd, net, hist, Drain, TxState
<1>13. CASE RxPublish
  <2>1. rx' \in RxState BY <1>13, GotoType DEF RxPublish, RxPc
  <2>2. client_fd' \in FdVal BY <1>13 DEF RxPublish, TypeOK, RxState
  <2> QED BY <1>13, <2>1, <2>2 DEF RxPublish, TypeOK, net, hist
<1>14. CASE RxUnpause
  <2>1. rx' \in RxState BY <1>14 DEF RxUnpause, TypeOK, RxState, RxPc, FdVal, NoFd
  <2> QED BY <1>14, <2>1 DEF RxUnpause, TypeOK, FdVal, NoFd, net, hist
<1>15. CASE RxCheckFailed
  <2>1. rx' \in RxState BY <1>15 DEF RxCheckFailed, TypeOK, RxState, RxPc, FdVal, NoFd
  <2> QED BY <1>15, <2>1 DEF RxCheckFailed, TypeOK, FdVal, NoFd, net, hist
<1>16. CASE RxDrop
  <2>0. rx.ret \in RxPc BY DEF TypeOK, RxState, RxPc
  <2>1. rx' \in RxState
    <3>1. CASE client_fd = NoFd BY <1>16, <2>0, <3>1, GotoType DEF RxDrop
    <3>2. CASE client_fd # NoFd
      BY <1>16, <3>2 DEF RxDrop, TypeOK, RxState, RxPc
    <3> QED BY <3>1, <3>2
  <2> QED BY <1>16, <2>1 DEF RxDrop, TypeOK, FdVal, NoFd, net, hist
<1>17. CASE RxDropClose
  <2>0. rx.ret \in RxPc BY DEF TypeOK, RxState, RxPc
  <2>1. rx' \in RxState
    <3>1. Goto(rx.ret) \in RxState BY <2>0, GotoType
    <3> QED BY <1>17, <3>1 DEF RxDropClose, RxState, FdVal, NoFd
  <2> QED BY <1>17, <2>1, CloseType DEF RxDropClose, TypeOK, FdVal, NoFd, net, hist
<1>18. CASE RxCheckClient
  <2>1. rx' \in RxState BY <1>18, GotoType DEF RxCheckClient, RxPc
  <2> QED BY <1>18, <2>1 DEF RxCheckClient, TypeOK, FdVal, NoFd, net, hist
<1>19. CASE RxFeedError
  <2>1. rx' \in RxState BY <1>19, EmptyType DEF RxFeedError, TypeOK, RxState, RxPc, FdVal, NoFd
  <2> QED BY <1>19, <2>1 DEF RxFeedError, TypeOK, FdVal, NoFd, net, hist
<1>20. CASE RxRecv
  <2> DEFINE c == Conn(rx.client)
             n == RecvCount(c)
  <2>1. c \in Conns BY <1>20, ConnType DEF RxRecv, Readable
  <2>2. n \in Nat /\ n <= host[c].inbox
    <3>1. RxChunk \in Nat BY SizeAssumption
    <3>2. host[c].inbox \in Nat BY <2>1 DEF TypeOK, HostState
    <3> QED BY <3>1, <3>2 DEF RecvCount, Least
  <2>3. rx' \in RxState BY <1>20, <2>2 DEF RxRecv, TypeOK, RxState, RxPc
  <2>4. host' \in [Conns -> HostState]
    <3> HIDE DEF n
    <3>1. host[c] \in HostState BY <2>1 DEF TypeOK
    <3>2. host[c].inbox - n \in Nat BY <2>2, <3>1 DEF HostState
    <3>3. [host[c] EXCEPT !.inbox = host[c].inbox - n] \in HostState
      BY <3>1, <3>2 DEF HostState
    <3>4. host' = [host EXCEPT ![c] = [host[c] EXCEPT !.inbox = host[c].inbox - n]]
      BY <1>20, <2>1 DEF RxRecv, n, TypeOK
    <3> QED BY <2>1, <3>3, <3>4 DEF TypeOK
  <2> QED BY <1>20, <2>3, <2>4 DEF RxRecv, TypeOK, net, hist
<1>21. CASE RxFeed
  <2> DEFINE n   == Least(rx.left, HostPktLen - Len(rx.re))
             buf == rx.re \o [i \in 1..n |-> Conn(rx.client)]
             C   == Conns \cup {NoConn}
             nxt == IF n = rx.left THEN "poll" ELSE "feed"
  <2>1. n \in Int /\ n <= rx.left
    <3>1. rx.left \in Int /\ Len(rx.re) \in Int /\ HostPktLen \in Int
      BY SizeAssumption DEF TypeOK, RxState
    <3> QED BY <3>1 DEF Least
  <2>2. buf \in Seq(C)
    <3>1. Conn(rx.client) \in C BY ConnType
    <3>2. [i \in 1..n |-> Conn(rx.client)] \in Seq(C)
      <4> HIDE DEF n
      <4>1. CASE n >= 0 BY <2>1, <3>1, <4>1
      <4>2. CASE n < 0
        <5>1. 1..n = 1..0 BY <2>1, <4>2
        <5>2. [i \in 1..n |-> Conn(rx.client)] = << >> BY <5>1
        <5> QED BY <5>2, EmptyType
      <4> QED BY <2>1, <4>1, <4>2
    <3>3. rx.re \in Seq(C) BY DEF TypeOK, RxState
    <3> QED BY <3>2, <3>3
  <2>3. rx.left - n \in Nat BY <2>1 DEF TypeOK, RxState
  <2>4. Goto(nxt) \in RxState BY GotoType DEF RxPc
  <2>5. rx' \in RxState
    <3>1. \E r \in Seq(C) : rx' = [Goto(nxt) EXCEPT !.left = rx.left - n, !.re = r]
      BY <1>21, <2>2, EmptyType DEF RxFeed
    <3> HIDE DEF n, nxt
    <3> QED BY <2>3, <2>4, <3>1 DEF RxState
  <2>6. last' \in Seq(C) BY <1>21, <2>2 DEF RxFeed, TypeOK
  <2> QED BY <1>21, <2>5, <2>6 DEF RxFeed, TypeOK, net
<1> QED BY <1>1, <1>2, <1>3, <1>4, <1>5, <1>6, <1>7, <1>8, <1>9, <1>10, <1>11, <1>12, <1>13, <1>14, <1>15, <1>16, <1>17, <1>18, <1>19, <1>20, <1>21 DEF RxStep

(* Every step of the tx task keeps the types.                              *)
LEMMA TxType == TypeOK /\ TxStep => TypeOK'
<1> SUFFICES ASSUME TypeOK, TxStep PROVE TypeOK' OBVIOUS
<1>1. CASE TxTop BY <1>1, TxGotoType DEF TxTop, TxPc, TypeOK, net, hist
<1>2. CASE TxPark BY <1>2, TxGotoType DEF TxPark, TxPc, TypeOK, net, hist
<1>3. CASE TxRun BY <1>3, TxGotoType DEF TxRun, TxPc, TypeOK, net, hist
<1>4. CASE TxRecv BY <1>4, TxGotoType, SbRecvType DEF TxRecv, TxPc, TypeOK, net, hist
<1>5. CASE TxClient
  <2>1. tx' \in TxState
    <3>1. CASE client_fd = NoFd BY <1>5, <3>1, TxGotoType DEF TxClient, TxPc
    <3>2. CASE client_fd # NoFd
      BY <1>5, <3>2, ConnType DEF TxClient, TypeOK, TxState, TxPc
    <3> QED BY <3>1, <3>2
  <2> QED BY <1>5, <2>1 DEF TxClient, TypeOK, net, hist
<1>6. CASE TxSend
  <2>1. PICK n \in 1..Len(tx.chunk) :
          LET c == Conn(tx.fd) IN
          /\ tx' = [(IF n = Len(tx.chunk) THEN TxAgain ELSE tx)
                      EXCEPT !.chunk = Drop(tx.chunk, n)]
          /\ got' = IF c \in hosts /\ host[c].peer # "gone"
                    THEN [got EXCEPT ![c] = @ \o Prefix(tx.chunk, n)] ELSE got
    BY <1>6 DEF TxSend
  <2>2. tx.chunk \in Seq(Unit) BY DEF TypeOK, TxState
  <2>3. Drop(tx.chunk, n) \in Seq(Unit) /\ Prefix(tx.chunk, n) \in Seq(Unit)
    <3>1. n \in Nat /\ n \in Int /\ n <= Len(tx.chunk) BY <2>2
    <3> QED BY <2>2, <3>1, DropType, PrefixType
  <2>4. Conn(tx.fd) \in Conns BY <1>6, ConnType DEF TxSend, SockOpen
  <2>5. tx' \in TxState
    <3>1. (IF n = Len(tx.chunk) THEN TxAgain ELSE tx) \in TxState
      BY TxAgainType DEF TypeOK
    <3> QED BY <2>1, <2>3, <3>1 DEF TxState
  <2>6. got' \in [Conns -> Seq(Unit)]
    <3>1. got[Conn(tx.fd)] \o Prefix(tx.chunk, n) \in Seq(Unit)
      BY <2>3, <2>4 DEF TypeOK
    <3> QED BY <2>1, <2>4, <3>1 DEF TypeOK
  <2> QED BY <1>6, <2>5, <2>6 DEF TxSend, TypeOK, net
<1>7. CASE TxSendError BY <1>7, TxGotoType DEF TxSendError, TxPc, TypeOK, net
<1>8. CASE TxFail BY <1>8, TxAgainType DEF TxFail, TypeOK, net, hist
<1> QED BY <1>1, <1>2, <1>3, <1>4, <1>5, <1>6, <1>7, <1>8 DEF TxStep

(* Every step of the controller task keeps the types.                      *)
LEMMA CtlType == TypeOK /\ (CtlPacket \/ CtlSpace \/ CtlPut) => TypeOK'
<1> SUFFICES ASSUME TypeOK, CtlPacket \/ CtlSpace \/ CtlPut PROVE TypeOK' OBVIOUS
<1>1. CASE CtlPacket
  <2>1. PICK l \in PktLens, c \in Conns :
          ctl' = [pc |-> "space", n |-> ctl.n + 1,
                  pkt |-> [i \in 1..l |-> [pkt |-> ctl.n, part |-> i, len |-> l, born |-> c]]]
    BY <1>1 DEF CtlPacket
  <2>2. ctl.n \in Nat /\ l \in Nat BY SizeAssumption DEF TypeOK, CtlState
  <2>3. \A i \in 1..l : [pkt |-> ctl.n, part |-> i, len |-> l, born |-> c] \in Unit
    BY <2>2 DEF Unit
  <2>4. [i \in 1..l |-> [pkt |-> ctl.n, part |-> i, len |-> l, born |-> c]] \in Seq(Unit)
    BY <2>2, <2>3
  <2>5. ctl' \in CtlState BY <2>1, <2>2, <2>4 DEF CtlState
  <2> QED BY <1>1, <2>5 DEF CtlPacket, TypeOK, net, hist
<1>2. CASE CtlSpace
  <2>1. ctl' \in CtlState BY <1>2, EmptyType DEF CtlSpace, TypeOK, CtlState
  <2> QED BY <1>2, <2>1 DEF CtlSpace, TypeOK, net, hist
<1>3. CASE CtlPut
  <2>1. ctl' \in CtlState BY <1>3, EmptyType DEF CtlPut, TypeOK, CtlState
  <2>2. sb' \in Seq(Unit)
    <3> DEFINE n == Least(Len(ctl.pkt), SbSize - Len(sb))
    <3>1. ctl.pkt \in Seq(Unit) BY DEF TypeOK, CtlState
    <3>2. n \in Int /\ n <= Len(ctl.pkt) 
      <4>1. Len(ctl.pkt) \in Int /\ SbSize \in Int /\ Len(sb) \in Int
        BY <3>1, SizeAssumption DEF TypeOK
      <4> QED BY <4>1 DEF Least
    <3>3. Prefix(ctl.pkt, n) \in Seq(Unit) BY <3>1, <3>2, PrefixType
    <3> QED BY <1>3, <3>3 DEF CtlPut, TypeOK
  <2> QED BY <1>3, <2>1, <2>2 DEF CtlPut, TypeOK, net, hist
<1> QED BY <1>1, <1>2, <1>3

(* Every step of a host keeps the types.                                   *)
LEMMA HostType == TypeOK /\ (\E c \in Conns : HostStep(c)) => TypeOK'
<1> SUFFICES ASSUME TypeOK, NEW c \in Conns, HostStep(c) PROVE TypeOK' OBVIOUS
<1>1. host[c] \in HostState BY DEF TypeOK
<1>2. host' \in [Conns -> HostState]
  <2>1. [host[c] EXCEPT !.sent = @ + 1, !.inbox = @ + 1] \in HostState
    <3>1. host[c].sent + 1 \in Nat /\ host[c].inbox + 1 \in Nat BY <1>1 DEF HostState
    <3> QED BY <1>1, <3>1 DEF HostState
  <2>2. [host[c] EXCEPT !.peer = "stalled"] \in HostState BY <1>1 DEF HostState
  <2>3. [host[c] EXCEPT !.peer = "gone"] \in HostState BY <1>1 DEF HostState
  <2> QED BY <2>1, <2>2, <2>3 DEF HostStep, TypeOK
<1> QED BY <1>2 DEF HostStep, TypeOK, hist

(* Every reachable state is typed, for all constants the assumptions admit.*)
THEOREM TypeCorrect == Spec => []TypeOK
<1>1. TypeOK /\ UNCHANGED vars => TypeOK' BY DEF TypeOK, vars, net, hist
<1>2. TypeOK /\ [Next]_vars => TypeOK'
  BY <1>1, RxType, TxType, CtlType, HostType DEF Next
<1> QED BY InitType, <1>2, PTL DEF Spec

-----------------------------------------------------------------------------
(***************************************************************************)
(* The park handshake.  TxParkedWhileDraining is not inductive: that       *)
(* seeing tx_idle proves tx parked rests on what happened before the wait. *)
(* When acceptClient clears tx_idle, tx is not about to store a stale TRUE *)
(* (second conjunct); until the pause is visible nothing sets it again     *)
(* (third); and from then on only a tx that found tx_pause set does, and   *)
(* such a tx stays between its loop top and that store (fourth, fifth).    *)
(***************************************************************************)
ParkInv ==
    /\ tx_pause <=> rx.pc \in {"wait"} \cup Draining
    /\ rx.pc \in {"swap", "shutdown", "unidle", "pause"} => tx.pc # "park"
    /\ rx.pc = "pause" => ~tx_idle
    /\ rx.pc = "wait" /\ tx_idle => tx.pc \in {"top", "park"}
    /\ rx.pc \in Draining => tx.pc \in {"top", "park"}

(* No handshake is under way at the start.                                 *)
LEMMA ParkInit == Init => ParkInv
BY DEF Init, ParkInv, Draining

(* Every step of the rx task keeps the handshake invariant.                *)
LEMMA ParkRx == TypeOK /\ ParkInv /\ RxStep => ParkInv'
<1> SUFFICES ASSUME TypeOK, ParkInv, RxStep PROVE ParkInv' OBVIOUS
<1> USE DEF ParkInv, Draining
<1>1. CASE RxPoll BY <1>1 DEF RxPoll, TypeOK, RxState
<1>2. CASE RxHandshakeFail BY <1>2 DEF RxHandshakeFail, TypeOK, RxState
<1>3. CASE RxHandshakeOk BY <1>3, GotoType DEF RxHandshakeOk, RxPc
<1>4. CASE RxSwap BY <1>4 DEF RxSwap, TypeOK, RxState
<1>5. CASE RxShutdown BY <1>5 DEF RxShutdown, TypeOK, RxState
<1>6. CASE RxUnidle BY <1>6, GotoType DEF RxUnidle, RxPc, Unidle
<1>7. CASE RxPause BY <1>7, GotoType DEF RxPause, RxPc
<1>8. CASE RxWait BY <1>8, GotoType DEF RxWait, RxPc
<1>9. CASE RxCloseOld BY <1>9, GotoType DEF RxCloseOld, RxPc
<1>10. CASE RxClearFailed BY <1>10, GotoType DEF RxClearFailed, RxPc
<1>11. CASE RxPublish BY <1>11, GotoType DEF RxPublish, RxPc
<1>12. CASE RxUnpause BY <1>12 DEF RxUnpause, TypeOK, RxState
<1>13. CASE RxCheckFailed BY <1>13 DEF RxCheckFailed, TypeOK, RxState
<1>14. CASE RxRecv BY <1>14 DEF RxRecv, TypeOK, RxState
<1>15. CASE RxFeedError BY <1>15 DEF RxFeedError, TypeOK, RxState
<1>16. CASE RxAccept
  <2>1. tx' = tx /\ tx_pause' = tx_pause /\ tx_idle' = tx_idle BY <1>16 DEF RxAccept
  <2>2. rx.pc = "accept" /\ rx'.pc \in {"handshake", "chkfail"}
    <3>1. Goto("chkfail").pc = "chkfail" BY GotoType DEF RxPc
    <3>2. \A f : [rx EXCEPT !.pc = "handshake", !.new = f].pc = "handshake"
      BY DEF TypeOK, RxState
    <3> QED BY <1>16, <3>1, <3>2 DEF RxAccept
  <2> QED BY <2>1, <2>2
<1>17. CASE RxDrain
  <2>1. rx.pc = "drain" /\ rx'.pc \in {"drain", "publish"}
    BY <1>17, GotoType DEF RxDrain, Drain, RxPc
  <2>2. tx'.pc = tx.pc
    BY <1>17, SbRecvType DEF RxDrain, Drain, TypeOK, TxState
  <2> QED BY <1>17, <2>1, <2>2 DEF RxDrain
<1>18. CASE RxDrop
  <2>1. rx.pc = "drop" /\ rx'.pc \in {"poll", "check", "dropclose"}
    <3>1. rx.ret \in {"poll", "check"} BY DEF TypeOK, RxState
    <3>2. Goto(rx.ret).pc = rx.ret BY <3>1, GotoType DEF RxPc
    <3>3. [rx EXCEPT !.pc = "dropclose", !.old = client_fd].pc = "dropclose"
      BY DEF TypeOK, RxState
    <3> QED BY <1>18, <3>1, <3>2, <3>3 DEF RxDrop
  <2> QED BY <1>18, <2>1 DEF RxDrop
<1>19. CASE RxDropClose
  <2>1. rx.pc = "dropclose" /\ rx'.pc \in {"poll", "check"}
    <3>1. rx.ret \in {"poll", "check"} BY DEF TypeOK, RxState
    <3>2. Goto(rx.ret) \in RxState /\ Goto(rx.ret).pc = rx.ret BY <3>1, GotoType DEF RxPc
    <3> QED BY <1>19, <3>1, <3>2 DEF RxDropClose, RxState
  <2> QED BY <1>19, <2>1 DEF RxDropClose
<1>20. CASE RxCheckClient
  <2>1. rx.pc = "check" /\ rx'.pc \in {"poll", "recv"}
    BY <1>20, GotoType DEF RxCheckClient, RxPc
  <2> QED BY <1>20, <2>1 DEF RxCheckClient
<1>21. CASE RxFeed
  <2>1. rx.pc = "feed" /\ rx'.pc \in {"poll", "feed"}
    <3>1. PICK l \in {"poll", "feed"} :
            \E m, r : rx' = [Goto(l) EXCEPT !.left = m, !.re = r]
      BY <1>21 DEF RxFeed
    <3>2. Goto(l) \in RxState /\ Goto(l).pc = l BY GotoType DEF RxPc
    <3> QED BY <1>21, <3>1, <3>2 DEF RxFeed, RxState
  <2> QED BY <1>21, <2>1 DEF RxFeed
<1> QED BY <1>1, <1>2, <1>3, <1>4, <1>5, <1>6, <1>7, <1>8, <1>9, <1>10, <1>11, <1>12, <1>13, <1>14, <1>15, <1>16, <1>17, <1>18, <1>19, <1>20, <1>21 DEF RxStep

(* Every step of the tx task keeps the handshake invariant.                *)
LEMMA ParkTx == TypeOK /\ ParkInv /\ TxStep => ParkInv'
<1> SUFFICES ASSUME TypeOK, ParkInv, TxStep PROVE ParkInv' OBVIOUS
<1> USE DEF ParkInv, Draining
<1>1. CASE TxTop BY <1>1, TxGotoType DEF TxTop, TxPc
<1>2. CASE TxPark BY <1>2, TxGotoType DEF TxPark, TxPc
<1>3. CASE TxRun BY <1>3, TxGotoType DEF TxRun, TxPc
<1>4. CASE TxRecv
  <2>1. tx.pc = "recv" /\ tx'.pc \in {"top", "client"}
    BY <1>4, TxGotoType, SbRecvType DEF TxRecv, TxPc
  <2> QED BY <1>4, <2>1 DEF TxRecv
<1>5. CASE TxClient
  <2>1. tx.pc = "client" /\ tx'.pc \in {"top", "send"}
    BY <1>5, TxGotoType DEF TxClient, TypeOK, TxState, TxPc
  <2> QED BY <1>5, <2>1 DEF TxClient
<1>6. CASE TxSend
  <2>1. tx.pc = "send" /\ tx'.pc \in {"top", "send"}
    <3>1. PICK t \in {TxAgain, tx} : \E u : tx' = [t EXCEPT !.chunk = u] BY <1>6 DEF TxSend
    <3>2. t \in TxState /\ t.pc \in {"top", "send"}
      BY <1>6, TxAgainType DEF TxSend, TypeOK
    <3> QED BY <1>6, <3>1, <3>2 DEF TxSend, TxState
  <2> QED BY <1>6, <2>1 DEF TxSend
<1>7. CASE TxSendError BY <1>7, TxGotoType DEF TxSendError, TxPc
<1>8. CASE TxFail BY <1>8, TxAgainType DEF TxFail
<1> QED BY <1>1, <1>2, <1>3, <1>4, <1>5, <1>6, <1>7, <1>8 DEF TxStep

(* The controller and the hosts take no part in the handshake.             *)
LEMMA ParkOther ==
    ParkInv /\ (CtlPacket \/ CtlSpace \/ CtlPut \/ \E c \in Conns : HostStep(c)) => ParkInv'
<1>1. CtlPacket \/ CtlSpace \/ CtlPut \/ (\E c \in Conns : HostStep(c))
        => UNCHANGED <<tx_pause, tx_idle, rx, tx>>
  BY DEF CtlPacket, CtlSpace, CtlPut, HostStep
<1> QED BY <1>1 DEF ParkInv

(* The park handshake holds in every reachable state.                      *)
LEMMA ParkAlways == Spec => []ParkInv
<1>1. ParkInv /\ UNCHANGED vars => ParkInv' BY DEF ParkInv, vars
<1>2. TypeOK /\ ParkInv /\ [Next]_vars => ParkInv'
  BY <1>1, ParkRx, ParkTx, ParkOther DEF Next
<1> QED BY <1>2, ParkInit, TypeCorrect, PTL DEF Spec

(* bridge.zig 64-66: while rx closes the old descriptor, drains the stream *)
(* buffer into tx_chunk and publishes the new client, tx uses none of them.*)
THEOREM ParkedWhileDraining == Spec => []TxParkedWhileDraining
<1>1. ParkInv => TxParkedWhileDraining BY DEF ParkInv, TxParkedWhileDraining, Draining
<1> QED BY <1>1, ParkAlways, PTL

-----------------------------------------------------------------------------
(* The space check.  The controller task is the only writer, so between    *)
(* its check and its write the buffer can only have become emptier.        *)

(* Taking a chunk out never lengthens the buffer.                          *)
LEMMA SbRecvShrinks ==
    ASSUME TypeOK, NEW pc \in TxPc, SbRecv(pc)
    PROVE  Len(sb') \in Nat /\ Len(sb') <= Len(sb)
<1> DEFINE n == Least(TxChunk, Len(sb))
<1>1. n \in Nat
  <2>1. TxChunk \in Nat /\ Len(sb) \in Nat BY SizeAssumption DEF TypeOK
  <2> QED BY <2>1 DEF Least
<1>2. sb \in Seq(Unit) /\ sb' = SubSeq(sb, n + 1, Len(sb)) BY DEF TypeOK, SbRecv, Drop
<1> HIDE DEF n
<1> QED BY <1>1, <1>2

(* No step of any task makes a checked packet too long.                    *)
LEMMA SpaceStep == TypeOK /\ NoPartialWrite /\ [Next]_vars => NoPartialWrite'
<1> SUFFICES ASSUME TypeOK, NoPartialWrite, [Next]_vars PROVE NoPartialWrite' OBVIOUS
<1>1. CASE ctl' = ctl /\ Len(sb') \in Nat /\ Len(sb') <= Len(sb)
  BY <1>1, SizeAssumption DEF NoPartialWrite, TypeOK, CtlState
<1>2. CASE UNCHANGED <<ctl, sb>> BY <1>2 DEF NoPartialWrite
<1>3. CASE RxDrain
  <2>1. tx.pc \in TxPc BY DEF TypeOK, TxState
  <2> QED BY <1>1, <1>2, <1>3, <2>1, SbRecvShrinks DEF RxDrain, Drain
<1>4. CASE TxRecv BY <1>1, <1>2, <1>4, SbRecvShrinks DEF TxRecv, TxPc
<1>5. CASE CtlSpace
  <2>1. ctl'.pc = "put" => Fits /\ ctl'.pkt = ctl.pkt
    BY <1>5 DEF CtlSpace, TypeOK, CtlState
  <2> QED BY <1>5, <2>1 DEF CtlSpace, Fits, NoPartialWrite
<1>6. CASE CtlPacket BY <1>6 DEF CtlPacket, NoPartialWrite
<1>7. CASE CtlPut BY <1>7 DEF CtlPut, NoPartialWrite, TypeOK, CtlState
<1>8. CASE RxStep /\ ~RxDrain
  BY <1>2, <1>8 DEF RxStep, RxPoll, RxAccept, RxHandshakeFail, RxHandshakeOk, RxSwap,
     RxShutdown, RxUnidle, RxPause, RxWait, RxCloseOld, RxClearFailed, RxPublish, RxUnpause,
     RxCheckFailed, RxDrop, RxDropClose, RxCheckClient, RxRecv, RxFeed, RxFeedError
<1>9. CASE TxStep /\ ~TxRecv
  BY <1>2, <1>9 DEF TxStep, TxTop, TxPark, TxRun, TxClient, TxSend, TxSendError, TxFail
<1>10. CASE \E c \in Conns : HostStep(c) BY <1>2, <1>10 DEF HostStep
<1>11. CASE UNCHANGED vars BY <1>2, <1>11 DEF vars
<1> QED BY <1>3, <1>4, <1>5, <1>6, <1>7, <1>8, <1>9, <1>10, <1>11 DEF Next

(* bridge.zig 101-106: a controller packet that passed the space check is  *)
(* written whole, whatever rx and tx do before the write.                  *)
THEOREM WholeWrites == Spec => []NoPartialWrite
<1>1. Init => NoPartialWrite BY DEF Init, NoPartialWrite
<1> QED BY <1>1, SpaceStep, TypeCorrect, PTL DEF Spec

-----------------------------------------------------------------------------
(***************************************************************************)
(* Descriptors.  FdsAccounted is not inductive: a close frees the right    *)
(* number only because the client's, the new and the old descriptor are    *)
(* different numbers, and a number is only handed out again when nobody    *)
(* holds it.  FdInv also says that two numbers never refer to the same     *)
(* connection, and that rx.client, the number polled, is not given to a    *)
(* new host while rx may still compare it with the client (line 151).      *)
(***************************************************************************)
Replacing == {"shutdown", "unidle", "pause", "wait", "close", "clear", "drain", "publish"}
Accepting == {"handshake", "swap"} \cup Replacing
HoldsOld  == {"shutdown", "unidle", "pause", "wait", "close", "dropclose"}

InUse(f) == \/ f = client_fd
            \/ rx.pc \in Accepting /\ f = rx.new
            \/ rx.pc \in HoldsOld /\ f = rx.old

FdInv ==
    /\ \A f \in Fds : fdt[f] # NoConn <=> InUse(f)
    /\ rx.pc \in Accepting => rx.new \in Fds /\ rx.new # rx.client
    /\ rx.pc \in {"accept", "handshake", "swap"} => client_fd = rx.client
    /\ rx.pc \in Replacing => client_fd = NoFd /\ rx.new # rx.old
    /\ rx.pc = "dropclose" => client_fd = NoFd /\ rx.old \in Fds
    /\ \A f \in Fds : fdt[f] # NoConn => sock[fdt[f]] \in {"open", "shut"}
    /\ \A f, g \in Fds : fdt[f] # NoConn /\ fdt[f] = fdt[g] => f = g

(* The locals that a move of the rx task keeps.                            *)
LEMMA GotoFields ==
    ASSUME TypeOK, NEW l \in RxPc
    PROVE  /\ Goto(l).new = rx.new /\ Goto(l).old = rx.old /\ Goto(l).re = rx.re
           /\ Goto(l).left = rx.left /\ Goto(l).ret = rx.ret
           /\ Goto(l).client = IF l = "poll" THEN NoFd ELSE rx.client
           /\ Goto(l).ready = IF l = "poll" THEN {} ELSE rx.ready
BY DEF TypeOK, Goto, RxState

(* No descriptor number is the mark for none.                              *)
LEMMA NoFdFree == NoFd \notin Fds
BY FdsAssumption DEF NoFd

(* FdInv in the words of the property.                                     *)
LEMMA FdInvAccounts == TypeOK /\ FdInv => FdsAccounted
<1> SUFFICES ASSUME TypeOK, FdInv PROVE FdsAccounted OBVIOUS
<1>1. client_fd \in FdVal /\ rx.new \in FdVal /\ rx.old \in FdVal BY DEF TypeOK, RxState
<1>2. \A f : f \in (Held \cup {client_fd}) <=> InUse(f)
  BY DEF Held, InUse, Accepting, Replacing, HoldsOld
<1>3. \A f : InUse(f) => f \in FdVal BY <1>1 DEF InUse
<1> QED BY <1>2, <1>3, NoFdFree DEF FdInv, FdsAccounted, FdVal

(* Nothing is open at the start.                                           *)
LEMMA FdInit == Init => FdInv
BY NoFdFree DEF Init, FdInv, InUse, Accepting, Replacing, HoldsOld

(* Closing a number whose connection no other number has.                  *)
LEMMA CloseFds ==
    ASSUME TypeOK, FdInv, NEW f \in Fds, Close(f)
    PROVE  /\ fdt'[f] = NoConn
           /\ \A g \in Fds : g # f => fdt'[g] = fdt[g]
           /\ \A g \in Fds : fdt'[g] # NoConn => sock'[fdt'[g]] = sock[fdt[g]]
<1>1. fdt'[f] = NoConn /\ \A g \in Fds : g # f => fdt'[g] = fdt[g]
  BY DEF TypeOK, Close
<1>2. ASSUME NEW g \in Fds, fdt'[g] # NoConn PROVE sock'[fdt'[g]] = sock[fdt[g]]
  <2>1. g # f /\ fdt'[g] = fdt[g] /\ fdt[g] \in Conns BY <1>1, <1>2 DEF TypeOK
  <2>2. Conn(f) # fdt[g] BY <2>1, ConnAssumption DEF FdInv, Conn
  <2> QED BY <2>1, <2>2 DEF Close
<1> QED BY <1>1, <1>2

(* Every step of the rx task keeps the descriptor invariant.               *)
LEMMA FdRx == TypeOK /\ FdInv /\ RxStep => FdInv'
<1> SUFFICES ASSUME TypeOK, FdInv, RxStep PROVE FdInv' OBVIOUS
<1> USE DEF Accepting, Replacing, HoldsOld
<1>a. rx \in RxState BY DEF TypeOK
\* Steps that move no descriptor.
<1>0. ASSUME UNCHANGED <<client_fd, net>>, rx'.pc = rx.pc \/ rx'.pc \notin Accepting \cup {"accept", "dropclose"},
             rx'.pc = rx.pc => UNCHANGED rx,
             rx.pc \notin Accepting \cup {"dropclose"}
      PROVE  FdInv'
  BY <1>0 DEF FdInv, InUse, net
\* Steps of acceptClient that move no descriptor.
<1>b. ASSUME UNCHANGED <<client_fd, net>>, UNCHANGED <<rx.new, rx.old, rx.client>>,
             rx.pc \in Accepting /\ rx'.pc \in Accepting,
             rx.pc \in Replacing <=> rx'.pc \in Replacing,
             rx.pc \in HoldsOld <=> rx'.pc \in HoldsOld
      PROVE  FdInv'
  BY <1>b DEF FdInv, InUse, net
<1>1. CASE RxPoll
  <2>1. rx'.client = client_fd /\ rx'.pc \in {"accept", "chkfail"} BY <1>1, <1>a DEF RxPoll, RxState
  <2> QED BY <1>1, <2>1 DEF RxPoll, FdInv, InUse, net
<1>2. CASE RxAccept
  <2>1. CASE rx' = Goto("chkfail") /\ UNCHANGED net
    BY <1>0, <1>2, <2>1, GotoType DEF RxAccept, RxPc
  <2>2. ASSUME NEW c \in Conns, NEW f \in Fds, sock[c] = "pending", fdt[f] = NoConn,
               fdt' = [fdt EXCEPT ![f] = c], sock' = [sock EXCEPT ![c] = "open"],
               rx' = [rx EXCEPT !.pc = "handshake", !.new = f]
        PROVE  FdInv'
    <3>1. rx.pc = "accept" /\ client_fd' = client_fd BY <1>2 DEF RxAccept
    <3>2. rx'.pc = "handshake" /\ rx'.new = f /\ rx'.client = rx.client BY <2>2, <1>a DEF RxState
    <3>3. \A g \in Fds : fdt[g] # c BY <2>2, ConnAssumption DEF FdInv
    <3>4. \A g \in Fds : fdt'[g] = IF g = f THEN c ELSE fdt[g] BY <2>2 DEF TypeOK
    <3>5. \A g \in Fds : fdt'[g] # NoConn => sock'[fdt'[g]] \in {"open", "shut"}
      BY <2>2, <3>3, <3>4 DEF TypeOK, FdInv
    <3>6. f # client_fd BY <2>2 DEF FdInv, InUse
    <3>7. client_fd = rx.client BY <3>1 DEF FdInv
    <3>8. \A g \in Fds : fdt'[g] # NoConn <=> InUse(g)'
      BY <2>2, <3>1, <3>2, <3>4, ConnAssumption DEF FdInv, InUse
    <3>9. \A g, h \in Fds : fdt'[g] # NoConn /\ fdt'[g] = fdt'[h] => g = h
      BY <2>2, <3>3, <3>4 DEF FdInv
    <3> QED BY <2>2, <3>1, <3>2, <3>5, <3>6, <3>7, <3>8, <3>9 DEF FdInv
  <2> QED BY <1>2, <2>1, <2>2 DEF RxAccept
<1>3. CASE RxHandshakeFail
  <2>1. rx'.pc = "chkfail" /\ rx.pc = "handshake" /\ client_fd' = client_fd
    BY <1>3, <1>a DEF RxHandshakeFail, RxState
  <2>2. rx.new \in Fds /\ Close(rx.new) /\ rx.new # client_fd
    BY <1>3, <2>1 DEF FdInv, RxHandshakeFail, Reject
  <2> QED BY <2>1, <2>2, CloseFds DEF FdInv, InUse
<1>4. CASE RxHandshakeOk BY <1>b, <1>4, GotoType, GotoFields DEF RxHandshakeOk, RxPc
<1>5. CASE RxSwap
  <2>1. /\ rx'.pc = "shutdown" /\ rx.pc = "swap" /\ client_fd' = NoFd
        /\ rx'.new = rx.new /\ rx'.old = client_fd /\ rx'.client = rx.client
    BY <1>5, <1>a DEF RxSwap, RxState
  <2> QED BY <1>5, <2>1, NoFdFree DEF FdInv, InUse, RxSwap, net
<1>6. CASE RxShutdown
  <2>1. /\ rx'.pc = "unidle" /\ rx.pc = "shutdown" /\ UNCHANGED <<client_fd, fdt>>
        /\ rx'.new = rx.new /\ rx'.old = rx.old /\ rx'.client = rx.client
    BY <1>6, <1>a DEF RxShutdown, RxState
  <2>2. \A f \in Fds : fdt'[f] # NoConn => sock'[fdt'[f]] \in {"open", "shut"}
    BY <1>6, <2>1 DEF RxShutdown, Shutdown, FdInv, TypeOK
  <2> QED BY <2>1, <2>2 DEF FdInv, InUse
<1>7. CASE RxUnidle BY <1>b, <1>7, GotoType, GotoFields DEF RxUnidle, RxPc
<1>8. CASE RxPause BY <1>b, <1>8, GotoType, GotoFields DEF RxPause, RxPc
<1>9. CASE RxWait BY <1>b, <1>9, GotoType, GotoFields DEF RxWait, RxPc
<1>10. CASE RxCloseOld
  <2>1. /\ rx'.pc = "clear" /\ rx.pc = "close" /\ client_fd' = client_fd
        /\ rx'.new = rx.new /\ rx'.old = rx.old /\ rx'.client = rx.client
    BY <1>10, GotoType, GotoFields DEF RxCloseOld, RxPc
  <2>2. CASE rx.old = NoFd
    BY <1>10, <2>1, <2>2, NoFdFree DEF RxCloseOld, FdInv, InUse, net
  <2>3. CASE rx.old # NoFd
    <3>1. rx.old \in Fds /\ Close(rx.old) BY <1>10, <1>a, <2>3 DEF RxCloseOld, RxState, FdVal
    <3> QED BY <2>1, <3>1, CloseFds, NoFdFree DEF FdInv, InUse
  <2> QED BY <2>2, <2>3
<1>11. CASE RxClearFailed BY <1>b, <1>11, GotoType, GotoFields DEF RxClearFailed, RxPc
<1>12. CASE RxDrain BY <1>b, <1>12, GotoType, GotoFields DEF RxDrain, Drain, RxPc
<1>13. CASE RxPublish
  <2>1. /\ rx'.pc = "unpause" /\ rx.pc = "publish" /\ client_fd' = rx.new /\ UNCHANGED net
        /\ rx'.new = rx.new /\ rx'.old = rx.old /\ rx'.client = rx.client
    BY <1>13, GotoType, GotoFields DEF RxPublish, RxPc
  <2> QED BY <2>1, NoFdFree DEF FdInv, InUse, net
<1>14. CASE RxUnpause BY <1>0, <1>14, <1>a DEF RxUnpause, RxState
<1>15. CASE RxCheckFailed BY <1>0, <1>15, <1>a DEF RxCheckFailed, RxState
<1>16. CASE RxDrop
  <2>1. CASE client_fd = NoFd
    <3>1. rx.ret \in {"poll", "check"} BY <1>a DEF RxState
    <3> QED BY <1>0, <1>16, <2>1, <3>1, GotoType DEF RxDrop, RxPc
  <2>2. CASE client_fd # NoFd
    <3>1. /\ rx'.pc = "dropclose" /\ rx.pc = "drop" /\ client_fd' = NoFd /\ UNCHANGED net
          /\ rx'.old = client_fd
      BY <1>16, <1>a, <2>2 DEF RxDrop, RxState
    <3>2. client_fd \in Fds BY <2>2 DEF TypeOK, FdVal
    <3> QED BY <3>1, <3>2, NoFdFree DEF FdInv, InUse, net
  <2> QED BY <2>1, <2>2
<1>17. CASE RxDropClose
  <2>1. rx.ret \in {"poll", "check"} BY <1>a DEF RxState
  <2>2. rx'.pc \in {"poll", "check"} /\ rx.pc = "dropclose" /\ client_fd' = client_fd /\ Close(rx.old)
    <3>1. Goto(rx.ret) \in RxState /\ Goto(rx.ret).pc = rx.ret BY <2>1, GotoType DEF RxPc
    <3> QED BY <1>17, <2>1, <3>1 DEF RxDropClose, RxState
  <2>3. rx.old \in Fds /\ client_fd = NoFd BY <2>2 DEF FdInv
  <2> QED BY <2>2, <2>3, CloseFds, NoFdFree DEF FdInv, InUse
<1>18. CASE RxCheckClient BY <1>0, <1>18, GotoType DEF RxCheckClient, RxPc
<1>19. CASE RxFeedError BY <1>0, <1>19, <1>a DEF RxFeedError, RxState
<1>20. CASE RxRecv BY <1>0, <1>20, <1>a DEF RxRecv, RxState
<1>21. CASE RxFeed
  <2>1. PICK l \in {"poll", "feed"} : \E m, r : rx' = [Goto(l) EXCEPT !.left = m, !.re = r]
    BY <1>21 DEF RxFeed
  <2>2. rx'.pc = l /\ rx.pc = "feed" /\ UNCHANGED <<client_fd, net>>
    <3>1. Goto(l) \in RxState /\ Goto(l).pc = l BY GotoType DEF RxPc
    <3> QED BY <1>21, <2>1, <3>1 DEF RxFeed, RxState
  <2> QED BY <2>2 DEF FdInv, InUse, net
<1> QED BY <1>1, <1>2, <1>3, <1>4, <1>5, <1>6, <1>7, <1>8, <1>9, <1>10, <1>11, <1>12, <1>13, <1>14, <1>15, <1>16, <1>17, <1>18, <1>19, <1>20, <1>21 DEF RxStep

(* Only rx opens and closes; a new host only joins the backlog.            *)
LEMMA FdOther ==
    TypeOK /\ FdInv /\ (TxStep \/ CtlPacket \/ CtlSpace \/ CtlPut \/ \E c \in Conns : HostStep(c))
        => FdInv'
<1> SUFFICES ASSUME TypeOK, FdInv, TxStep \/ CtlPacket \/ CtlSpace \/ CtlPut \/ \E c \in Conns : HostStep(c)
             PROVE  FdInv'
    OBVIOUS
<1>1. CASE TxStep \/ CtlPacket \/ CtlSpace \/ CtlPut
  <2>1. UNCHANGED <<client_fd, rx, net>>
    BY <1>1 DEF TxStep, TxTop, TxPark, TxRun, TxRecv, TxClient, TxSend, TxSendError, TxFail,
                CtlPacket, CtlSpace, CtlPut
  <2> QED BY <2>1 DEF FdInv, InUse, net
<1>2. ASSUME NEW c \in Conns, HostStep(c) PROVE FdInv'
  <2>1. UNCHANGED <<client_fd, rx, fdt>> BY <1>2 DEF HostStep
  <2>2. \A d \in Conns : sock'[d] # sock[d] => sock[d] = "none" BY <1>2 DEF HostStep, TypeOK
  <2>3. \A f \in Fds : fdt[f] # NoConn => sock'[fdt[f]] \in {"open", "shut"}
    BY <2>2 DEF FdInv, TypeOK
  <2> QED BY <2>1, <2>3 DEF FdInv, InUse
<1> QED BY <1>1, <1>2

(* The descriptor invariant holds in every reachable state.                *)
LEMMA FdAlways == Spec => []FdInv
<1>1. FdInv /\ UNCHANGED vars => FdInv' BY DEF FdInv, InUse, vars, net
<1>2. TypeOK /\ FdInv /\ [Next]_vars => FdInv' BY <1>1, FdRx, FdOther DEF Next
<1> QED BY <1>2, FdInit, TypeCorrect, PTL DEF Spec

(* bridge.zig 178-213: no descriptor leaks and none is closed twice,       *)
(* however connections, failures and replacements interleave.              *)
THEOREM DescriptorsAccounted == Spec => []FdsAccounted
BY FdInvAccounts, FdAlways, TypeCorrect, PTL

-----------------------------------------------------------------------------
(***************************************************************************)
(* What the rx task leaves alone, and what it does to the client.  The     *)
(* three invariants that follow rest on these summaries of its 21 steps.   *)
(***************************************************************************)

(* Only drain touches tx's chunk, only publish the hosts; rx never reports *)
(* a failure of its own.                                                   *)
LEMMA RxLeaves ==
    ASSUME TypeOK, RxStep
    PROVE  /\ UNCHANGED <<ctl, got, failed, tx.pc, tx.fd, tx.conn>>
           /\ RxDrain \/ UNCHANGED <<tx, sb>>
           /\ RxPublish \/ UNCHANGED hosts
           /\ \A c \in Conns : host'[c].peer = host[c].peer
           /\ tx_failed' => tx_failed
<1>1. CASE RxDrain
  <2>1. UNCHANGED <<ctl, got, failed, hosts, host, tx_failed>> BY <1>1 DEF RxDrain, hist
  <2>2. UNCHANGED <<tx.pc, tx.fd, tx.conn>>
    BY <1>1 DEF RxDrain, Drain, SbRecv, TypeOK, TxState
  <2> QED BY <1>1, <2>1, <2>2
<1>2. CASE RxRecv
  <2>1. \A c \in Conns : host'[c].peer = host[c].peer
    BY <1>2, ConnType DEF RxRecv, Readable, TypeOK, HostState
  <2> QED BY <1>2, <2>1 DEF RxRecv, hist
<1>3. CASE RxClearFailed BY <1>3 DEF RxClearFailed, Clear, hist
<1>4. CASE RxCheckFailed BY <1>4 DEF RxCheckFailed, hist
<1>5. CASE RxPublish BY <1>5 DEF RxPublish
<1>6. CASE RxFeed BY <1>6 DEF RxFeed
<1>7. CASE UNCHANGED <<ctl, got, failed, tx, sb, hosts, host, tx_failed>> BY <1>7
<1>8. \/ RxDrain \/ RxRecv \/ RxClearFailed \/ RxCheckFailed \/ RxPublish \/ RxFeed
      \/ UNCHANGED <<ctl, got, failed, tx, sb, hosts, host, tx_failed>>
  BY DEF RxStep, RxPoll, RxAccept, RxHandshakeFail, RxHandshakeOk, RxSwap, RxShutdown, RxUnidle, RxPause,
         RxWait, RxCloseOld, RxUnpause, RxDrop, RxDropClose, RxCheckClient, RxFeedError, hist
<1> QED BY <1>1, <1>2, <1>3, <1>4, <1>5, <1>6, <1>7, <1>8

(* Unless it publishes, the client stays or goes, and the number of a      *)
(* client that stays keeps referring to the same connection.               *)
LEMMA RxClient ==
    ASSUME TypeOK, FdInv, RxStep, ~RxPublish
    PROVE  client_fd' = NoFd \/ (client_fd' = client_fd /\ Conn(client_fd)' = Conn(client_fd))
<1>1. CASE client_fd = NoFd
  BY <1>1 DEF RxStep, RxPoll, RxAccept, RxHandshakeFail, RxHandshakeOk,
       RxSwap, RxShutdown, RxUnidle, RxPause, RxWait, RxCloseOld, RxClearFailed, RxDrain, RxUnpause,
       RxCheckFailed, RxDrop, RxDropClose, RxCheckClient, RxRecv, RxFeed, RxFeedError
<1>2. CASE client_fd # NoFd
  <2>1. client_fd \in Fds BY <1>2 DEF TypeOK, FdVal
  <2>2. CASE RxAccept
    <3>1. fdt'[client_fd] = fdt[client_fd] /\ client_fd' = client_fd
      BY <2>1, <2>2 DEF RxAccept, net, TypeOK, FdInv, InUse
    <3> QED BY <2>1, <3>1 DEF Conn
  <2>3. CASE RxHandshakeFail
    <3>1. rx.new # client_fd /\ rx.new \in Fds /\ Close(rx.new) /\ client_fd' = client_fd
      BY <2>3 DEF RxHandshakeFail, Reject, FdInv, Accepting
    <3> QED BY <2>1, <3>1, CloseFds DEF Conn
  <2>4. CASE RxSwap BY <2>4 DEF RxSwap
  <2>5. CASE RxCloseOld \/ RxDropClose
    BY <1>2, <2>5 DEF RxCloseOld, RxDropClose, FdInv, Replacing
  <2>6. CASE RxDrop BY <2>6 DEF RxDrop
  <2>7. CASE UNCHANGED <<client_fd, fdt>> BY <2>7 DEF Conn
  <2> QED BY <2>2, <2>3, <2>4, <2>5, <2>6, <2>7 DEF RxStep, RxPoll, RxHandshakeOk, RxShutdown, RxUnidle,
       RxPause, RxWait, RxClearFailed, RxDrain, RxUnpause, RxCheckFailed, RxCheckClient, RxRecv,
       RxFeed, RxFeedError, net
<1> QED BY <1>1, <1>2

(* No socket opens but one out of the backlog.                             *)
LEMMA RxSockets ==
    ASSUME TypeOK, RxStep
    PROVE  \A c \in Conns : /\ sock'[c] = "open" => sock[c] \in {"open", "pending"}
                            /\ sock'[c] \in {"none", "pending"} => sock'[c] = sock[c]
<1>1. CASE UNCHANGED sock BY <1>1
<1>2. CASE RxAccept BY <1>2 DEF RxAccept, net, TypeOK
<1>3. CASE RxShutdown BY <1>3 DEF RxShutdown, Shutdown
<1>4. CASE \E f : Close(f) BY <1>4 DEF Close
<1> QED BY <1>1, <1>2, <1>3, <1>4 DEF RxStep, RxPoll, RxHandshakeFail, RxHandshakeOk, Reject,
       RxSwap, RxUnidle, RxPause, RxWait, RxCloseOld, RxClearFailed, RxDrain, RxPublish, RxUnpause,
       RxCheckFailed, RxDrop, RxDropClose, RxCheckClient, RxRecv, RxFeed, RxFeedError, net

(* What publish does.                                                      *)
LEMMA RxPublishes ==
    ASSUME TypeOK, FdInv, ParkInv, RxPublish
    PROVE  /\ client_fd' = rx.new /\ rx.new \in Fds /\ rx.new # rx.client
           /\ Conn(rx.new) \in Conns /\ Conn(client_fd)' = Conn(rx.new)
           /\ hosts' = hosts \cup {Conn(rx.new)}
           /\ UNCHANGED <<fdt, sock, sb, tx, host, ctl, got, failed, tx_failed>>
           /\ tx.pc \in {"top", "park"}
<1>1. rx.pc = "publish" /\ client_fd' = rx.new
      /\ UNCHANGED <<fdt, sock, sb, tx, host, ctl, got, failed, tx_failed>>
  BY DEF RxPublish, net
<1>2. rx.new \in Fds /\ rx.new # rx.client /\ fdt[rx.new] # NoConn
  BY <1>1 DEF FdInv, InUse, Accepting, Replacing
<1>3. Conn(rx.new) \in Conns BY <1>2, ConnType DEF Conn
<1>4. Conn(client_fd)' = Conn(rx.new) BY <1>1 DEF Conn
<1>5. hosts' = hosts \cup {Conn(rx.new)} BY <1>3 DEF RxPublish
<1>6. tx.pc \in {"top", "park"} BY <1>1 DEF ParkInv, Draining
<1> QED BY <1>1, <1>2, <1>3, <1>4, <1>5, <1>6

-----------------------------------------------------------------------------
(***************************************************************************)
(* What was polled.  Until rx has compared the client with the number it   *)
(* polled, a client that still has that number is still readable.          *)
(***************************************************************************)
Polled == {"accept", "handshake", "swap", "unpause", "chkfail", "check"}
PollInv ==
    /\ rx.pc \in Polled /\ 2 \in rx.ready /\ rx.client # NoFd /\ client_fd = rx.client
         => Readable(rx.client)
    /\ rx.pc \in {"recv", "feed"} => client_fd = rx.client /\ rx.client # NoFd
    /\ RecvNeverBlocks

(* Every step of the rx task keeps the poll invariant.                     *)
LEMMA PollRx == TypeOK /\ FdInv /\ ParkInv /\ PollInv /\ RxStep => PollInv'
<1> SUFFICES ASSUME TypeOK, FdInv, ParkInv, PollInv, RxStep PROVE PollInv' OBVIOUS
<1>a. rx \in RxState BY DEF TypeOK
<1>b. ASSUME rx'.pc \notin Polled \cup {"recv", "feed"} PROVE PollInv'
  BY <1>b DEF PollInv, RecvNeverBlocks
<1>c. ASSUME rx'.pc \in Polled \cup {"poll"}, client_fd' = NoFd PROVE PollInv'
  BY <1>c DEF PollInv, RecvNeverBlocks, Polled
<1>d. ASSUME rx.pc \in Polled, rx'.pc \in Polled, UNCHANGED <<host, rx.ready, rx.client, client_fd>>,
             ~RxPublish
      PROVE  PollInv'
  <2>1. SUFFICES ASSUME 2 \in rx.ready, rx.client # NoFd, client_fd = rx.client
                 PROVE  (Readable(rx.client))'
    BY <1>d DEF PollInv, RecvNeverBlocks, Polled
  <2>2. Readable(rx.client) BY <1>d, <2>1 DEF PollInv
  <2>3. Conn(client_fd)' = Conn(client_fd) BY <1>d, <2>1, RxClient
  <2>4. Readable(client_fd) BY <2>1, <2>2
  <2>5. (Readable(client_fd))' BY <1>d, <2>3, <2>4 DEF Readable
  <2> QED BY <1>d, <2>1, <2>5
<1> USE DEF Polled
<1>1. CASE RxPoll
  <2>1. /\ rx'.client = client_fd /\ rx'.pc \in {"accept", "chkfail"}
        /\ 2 \in rx'.ready => Readable(client_fd)
    BY <1>1, <1>a DEF RxPoll, RxState
  <2>2. UNCHANGED <<client_fd, fdt, sock, host>> BY <1>1 DEF RxPoll, net
  <2> QED BY <2>1, <2>2 DEF PollInv, RecvNeverBlocks, Readable, Conn
<1>2. CASE RxAccept
  <2>1. /\ rx.pc = "accept" /\ rx'.pc \in {"handshake", "chkfail"}
        /\ UNCHANGED <<host, rx.ready, rx.client, client_fd>> /\ ~RxPublish
    <3>1. Goto("chkfail").pc = "chkfail" /\ Goto("chkfail").ready = rx.ready
          /\ Goto("chkfail").client = rx.client
      BY GotoType, GotoFields DEF RxPc
    <3>2. \A f : LET r == [rx EXCEPT !.pc = "handshake", !.new = f] IN
                 r.pc = "handshake" /\ r.ready = rx.ready /\ r.client = rx.client
      BY <1>a DEF RxState
    <3>3. rx.pc = "accept" /\ UNCHANGED <<host, client_fd>> BY <1>2 DEF RxAccept
    <3>4. rx' = Goto("chkfail") \/ \E f : rx' = [rx EXCEPT !.pc = "handshake", !.new = f]
      BY <1>2 DEF RxAccept
    <3>5. rx'.pc \in {"handshake", "chkfail"} /\ rx'.ready = rx.ready /\ rx'.client = rx.client
      BY ONLY <3>1, <3>2, <3>4
    <3>6. ~RxPublish BY <3>3 DEF RxPublish
    <3> QED BY ONLY <3>3, <3>5, <3>6
  <2> QED BY <1>d, <2>1
<1>3. CASE RxHandshakeFail
  BY <1>d, <1>3, <1>a DEF RxHandshakeFail, RxPublish, RxState
<1>4. CASE RxHandshakeOk
  BY <1>d, <1>4, GotoType, GotoFields DEF RxHandshakeOk, RxPublish, RxPc
<1>5. CASE RxSwap \/ RxShutdown BY <1>b, <1>5, <1>a DEF RxSwap, RxShutdown, RxState
<1>6. CASE RxUnidle \/ RxPause \/ RxWait \/ RxCloseOld \/ RxClearFailed
  BY <1>b, <1>6, GotoType DEF RxUnidle, RxPause, RxWait, RxCloseOld, RxClearFailed, RxPc
<1>7. CASE RxDrain BY <1>b, <1>7, GotoType DEF RxDrain, Drain, RxPc
<1>8. CASE RxPublish
  <2>1. rx'.pc = "unpause" /\ rx'.client = rx.client
    BY <1>8, GotoType, GotoFields DEF RxPublish, RxPc
  <2> QED BY <1>8, <2>1, RxPublishes DEF PollInv, RecvNeverBlocks
<1>9. CASE RxUnpause BY <1>d, <1>9, <1>a DEF RxUnpause, RxPublish, RxState
<1>10. CASE RxCheckFailed
  <2>1. rx.pc = "chkfail" /\ rx'.pc \in {"drop", "check"}
        /\ UNCHANGED <<host, rx.ready, rx.client, client_fd>> /\ ~RxPublish
    BY <1>10, <1>a DEF RxCheckFailed, RxPublish, RxState
  <2> QED BY <1>b, <1>d, <2>1
<1>11. CASE RxDrop
  <2>1. client_fd' = NoFd /\ rx'.pc \in {"poll", "check", "dropclose"}
    <3>1. rx.ret \in {"poll", "check"} BY <1>a DEF RxState
    <3>2. Goto(rx.ret).pc = rx.ret BY <3>1, GotoType DEF RxPc
    <3>3. [rx EXCEPT !.pc = "dropclose", !.old = client_fd].pc = "dropclose" BY <1>a DEF RxState
    <3> QED BY <1>11, <3>1, <3>2, <3>3 DEF RxDrop
  <2> QED BY <1>b, <1>c, <2>1
<1>12. CASE RxDropClose
  <2>1. client_fd' = NoFd BY <1>12 DEF RxDropClose, FdInv
  <2>2. rx'.pc \in {"poll", "check"}
    <3>1. rx.ret \in {"poll", "check"} BY <1>a DEF RxState
    <3>2. Goto(rx.ret) \in RxState /\ Goto(rx.ret).pc = rx.ret BY <3>1, GotoType DEF RxPc
    <3> QED BY <1>12, <3>1, <3>2 DEF RxDropClose, RxState
  <2> QED BY <1>c, <2>1, <2>2
<1>13. CASE RxCheckClient
  <2>1. CASE 2 \in rx.ready /\ SameClient
    <3>1. rx'.pc = "recv" /\ rx'.client = rx.client /\ UNCHANGED <<client_fd, fdt, host>>
      BY <1>13, <2>1, GotoType, GotoFields DEF RxCheckClient, RxPc, net
    <3>2. Readable(rx.client) BY <1>13, <2>1 DEF RxCheckClient, PollInv, SameClient
    <3> QED BY <2>1, <3>1, <3>2 DEF PollInv, RecvNeverBlocks, SameClient, Readable, Conn
  <2>2. CASE ~(2 \in rx.ready /\ SameClient)
    BY <1>b, <1>13, <2>2, GotoType DEF RxCheckClient, RxPc
  <2> QED BY <2>1, <2>2
<1>14. CASE RxRecv
  <2>1. rx.pc = "recv" /\ rx'.pc \in {"drop", "feed"} /\ UNCHANGED <<rx.client, client_fd>>
    BY <1>14, <1>a DEF RxRecv, RxState
  <2> QED BY <2>1 DEF PollInv, RecvNeverBlocks
<1>15. CASE RxFeed
  <2>1. PICK l \in {"poll", "feed"} : \E m, r : rx' = [Goto(l) EXCEPT !.left = m, !.re = r]
    BY <1>15 DEF RxFeed
  <2>2. rx'.pc = l /\ rx.pc = "feed" /\ (l = "feed" => rx'.client = rx.client) /\ client_fd' = client_fd
    <3>1. Goto(l) \in RxState /\ Goto(l).pc = l BY GotoType DEF RxPc
    <3>2. l = "feed" => Goto(l).client = rx.client BY GotoFields DEF RxPc
    <3> QED BY <1>15, <2>1, <3>1, <3>2 DEF RxFeed, RxState
  <2> QED BY <2>2 DEF PollInv, RecvNeverBlocks
<1>16. CASE RxFeedError BY <1>b, <1>16, <1>a DEF RxFeedError, RxState
<1> QED BY <1>1, <1>2, <1>3, <1>4, <1>5, <1>6, <1>7, <1>8, <1>9, <1>10, <1>11, <1>12, <1>13, <1>14, <1>15, <1>16 DEF RxStep

(* The other tasks read nothing, and hosts only send or leave.             *)
LEMMA PollOther ==
    TypeOK /\ PollInv /\ (TxStep \/ CtlPacket \/ CtlSpace \/ CtlPut \/ \E c \in Conns : HostStep(c))
        => PollInv'
<1> SUFFICES ASSUME TypeOK, PollInv, TxStep \/ CtlPacket \/ CtlSpace \/ CtlPut \/ \E c \in Conns : HostStep(c)
             PROVE  PollInv'
    OBVIOUS
<1>1. UNCHANGED <<client_fd, rx, fdt>>
  BY DEF TxStep, TxTop, TxPark, TxRun, TxRecv, TxClient, TxSend, TxSendError, TxFail,
         CtlPacket, CtlSpace, CtlPut, HostStep, net
<1>2. \A c \in Conns : /\ host[c].inbox > 0 => host'[c].inbox > 0
                       /\ host[c].peer = "gone" => host'[c].peer = "gone"
  <2>1. CASE UNCHANGED host BY <2>1
  <2>2. ASSUME NEW c \in Conns, HostStep(c) PROVE <1>2
    <3>1. host[c] \in HostState BY DEF TypeOK
    <3>2. CASE host' = [host EXCEPT ![c].sent = @ + 1, ![c].inbox = @ + 1]
      <4>1. host'[c].inbox = host[c].inbox + 1 /\ host'[c].peer = host[c].peer
        BY <3>1, <3>2 DEF TypeOK, HostState
      <4>2. \A d \in Conns : d # c => host'[d] = host[d] BY <3>2 DEF TypeOK
      <4> QED BY <3>1, <4>1, <4>2 DEF HostState
    <3>3. CASE host' = [host EXCEPT ![c].peer = "stalled"] /\ host[c].peer = "up"
      <4>1. host'[c].inbox = host[c].inbox BY <3>1, <3>3 DEF TypeOK, HostState
      <4>2. \A d \in Conns : d # c => host'[d] = host[d] BY <3>3 DEF TypeOK
      <4> QED BY <3>3, <4>1, <4>2
    <3>4. CASE host' = [host EXCEPT ![c].peer = "gone"]
      <4>1. host'[c].inbox = host[c].inbox /\ host'[c].peer = "gone"
        BY <3>1, <3>4 DEF TypeOK, HostState
      <4>2. \A d \in Conns : d # c => host'[d] = host[d] BY <3>4 DEF TypeOK
      <4> QED BY <4>1, <4>2
    <3> QED BY <2>1, <2>2, <3>2, <3>3, <3>4 DEF HostStep
  <2> QED BY <2>1, <2>2 DEF TxStep, TxTop, TxPark, TxRun, TxRecv, TxClient, TxSend, TxSendError, TxFail,
         CtlPacket, CtlSpace, CtlPut
<1>3. \A f : Conn(f)' = Conn(f) BY <1>1 DEF Conn
<1>4. Readable(rx.client) => (Readable(rx.client))' BY <1>1, <1>2, <1>3, ConnType DEF Readable
<1> QED BY <1>1, <1>4 DEF PollInv, RecvNeverBlocks

(* The poll invariant holds in every reachable state.                      *)
LEMMA PollAlways == Spec => []PollInv
<1>1. Init => PollInv BY DEF Init, PollInv, RecvNeverBlocks, Polled
<1>2. PollInv /\ UNCHANGED vars => PollInv'
  BY DEF PollInv, RecvNeverBlocks, Readable, Conn, vars, net
<1>3. TypeOK /\ FdInv /\ ParkInv /\ PollInv /\ [Next]_vars => PollInv'
  BY <1>2, PollRx, PollOther DEF Next
<1> QED BY <1>1, <1>3, TypeCorrect, FdAlways, ParkAlways, PTL DEF Spec

(* bridge.zig 142-158: the rx task, which feeds the watchdog, never blocks *)
(* in recv, although the descriptor polled may have been replaced since.   *)
THEOREM NeverBlocksInRecv == Spec => []RecvNeverBlocks
<1>1. PollInv => RecvNeverBlocks BY DEF PollInv
<1> QED BY <1>1, PollAlways, PTL

-----------------------------------------------------------------------------
(***************************************************************************)
(* Send failures.  A client is published only while tx is parked, so a tx  *)
(* that is sending, or about to report a failure, has read the present     *)
(* client or one that has no successor yet; and what was reported before   *)
(* is cleared once tx is parked (line 201).                                *)
(***************************************************************************)
FailInv ==
    /\ tx.pc \in {"send", "fail"} => tx.conn \in Conns
    /\ tx.pc \in {"send", "fail"} /\ client_fd # NoFd => tx.fd = client_fd /\ tx.conn = Conn(client_fd)
    /\ tx.pc = "fail" => tx.conn \in failed
    /\ tx_failed /\ client_fd # NoFd => Conn(client_fd) \in failed
    /\ rx.pc \in {"drain", "publish"} => ~tx_failed
    /\ rx.pc = "feed" => rx.ret = "poll"
    /\ FailureIsOwn

(* Where a swap of tx_failed and the clearing of it lead.                  *)
LEMMA RxFailFlag ==
    ASSUME TypeOK, RxStep, rx.pc = "feed" => rx.ret = "poll"
    PROVE  /\ rx'.pc = "feed" => rx'.ret = "poll"
           /\ rx'.pc \in {"drain", "publish"} => ~tx_failed' \/ rx.pc \in {"drain", "publish"}
           /\ rx'.pc = "drop" /\ rx'.ret = "check" => tx_failed /\ UNCHANGED <<client_fd, fdt>>
           /\ rx'.pc = "publish" => RxDrain /\ sb = << >> /\ sb' = << >>
<1>a. rx \in RxState BY DEF TypeOK
<1>1. CASE RxClearFailed BY <1>1, GotoType DEF RxClearFailed, Clear, RxPc
<1>2. CASE RxDrain BY <1>2, GotoType DEF RxDrain, Drain, RxPc
<1>3. CASE RxCheckFailed BY <1>3, <1>a DEF RxCheckFailed, RxState, net
<1>4. CASE RxRecv
  <2>1. rx'.ret = "poll" /\ rx'.pc \in {"drop", "feed"} BY <1>4, <1>a DEF RxRecv, RxState
  <2> QED BY <2>1
<1>5. CASE RxFeed
  <2>1. PICK l \in {"poll", "feed"} : \E m, r : rx' = [Goto(l) EXCEPT !.left = m, !.re = r]
    BY <1>5 DEF RxFeed
  <2>2. Goto(l) \in RxState /\ Goto(l).pc = l /\ Goto(l).ret = rx.ret BY GotoType, GotoFields DEF RxPc
  <2> QED BY <1>5, <2>1, <2>2 DEF RxFeed, RxState
<1>6. CASE RxDrop \/ RxDropClose
  <2>1. rx.ret \in {"poll", "check"} BY <1>a DEF RxState
  <2>2. Goto(rx.ret) \in RxState /\ Goto(rx.ret).pc = rx.ret BY <2>1, GotoType DEF RxPc
  <2>3. rx'.pc \in {"poll", "check", "dropclose"}
    BY <1>6, <1>a, <2>1, <2>2 DEF RxDrop, RxDropClose, RxState
  <2> QED BY <2>3
<1>7. CASE RxAccept
  <2>1. Goto("chkfail").pc = "chkfail" BY GotoType DEF RxPc
  <2>2. \A f : [rx EXCEPT !.pc = "handshake", !.new = f].pc = "handshake" BY <1>a DEF RxState
  <2>3. rx' = Goto("chkfail") \/ \E f : rx' = [rx EXCEPT !.pc = "handshake", !.new = f]
    BY <1>7 DEF RxAccept
  <2>4. rx'.pc \in {"chkfail", "handshake"} BY ONLY <2>1, <2>2, <2>3
  <2> QED BY <2>4
<1>8. CASE RxPoll \/ RxHandshakeFail \/ RxSwap \/ RxShutdown \/ RxUnpause
  BY <1>8, <1>a DEF RxPoll, RxHandshakeFail, RxSwap, RxShutdown, RxUnpause, RxState
<1>9. CASE RxHandshakeOk \/ RxUnidle \/ RxPause \/ RxWait \/ RxCloseOld \/ RxPublish \/ RxCheckClient
  BY <1>9, GotoType DEF RxHandshakeOk, RxUnidle, RxPause, RxWait, RxCloseOld, RxPublish, RxCheckClient, RxPc
<1>10. CASE RxFeedError
  <2>1. rx'.ret = rx.ret /\ rx.pc = "feed" /\ rx'.pc = "drop" BY <1>10, <1>a DEF RxFeedError, RxState
  <2> QED BY <2>1
<1> QED BY <1>1, <1>2, <1>3, <1>4, <1>5, <1>6, <1>7, <1>8, <1>9, <1>10 DEF RxStep

(* Every step of the rx task keeps the failure invariant.                  *)
LEMMA FailRx == TypeOK /\ FdInv /\ ParkInv /\ FailInv /\ RxStep => FailInv'
<1> SUFFICES ASSUME TypeOK, FdInv, ParkInv, FailInv, RxStep PROVE FailInv' OBVIOUS
<1>1. /\ UNCHANGED <<failed, tx.pc, tx.fd, tx.conn>>
      /\ tx_failed' => tx_failed
  BY RxLeaves
<1>2. /\ rx'.pc = "feed" => rx'.ret = "poll"
      /\ rx'.pc \in {"drain", "publish"} => ~tx_failed' \/ rx.pc \in {"drain", "publish"}
      /\ rx'.pc = "drop" /\ rx'.ret = "check" => tx_failed /\ UNCHANGED <<client_fd, fdt>>
  BY RxFailFlag DEF FailInv
<1>3. rx'.pc \in {"drain", "publish"} => ~tx_failed' BY <1>1, <1>2 DEF FailInv
<1>4. FailureIsOwn' BY <1>1, <1>2 DEF FailInv, FailureIsOwn, Conn
<1>5. CASE RxPublish
  <2>1. tx.pc \in {"top", "park"} /\ rx.pc = "publish" BY <1>5, RxPublishes DEF RxPublish
  <2>2. ~tx_failed' BY <1>1, <2>1 DEF FailInv
  <2> QED BY <1>1, <1>2, <1>3, <1>4, <2>1, <2>2 DEF FailInv
<1>6. CASE ~RxPublish
  <2>1. client_fd' = NoFd \/ (client_fd' = client_fd /\ Conn(client_fd)' = Conn(client_fd))
    BY <1>6, RxClient
  <2> QED BY <1>1, <1>2, <1>3, <1>4, <2>1 DEF FailInv
<1> QED BY <1>5, <1>6

(* So does every step of the tx task.                                      *)
LEMMA FailTx == TypeOK /\ FdInv /\ ParkInv /\ FailInv /\ TxStep => FailInv'
<1> SUFFICES ASSUME TypeOK, FdInv, ParkInv, FailInv, TxStep PROVE FailInv' OBVIOUS
<1>a. UNCHANGED <<client_fd, rx, fdt>> /\ failed \subseteq failed'
  BY DEF TxStep, TxTop, TxPark, TxRun, TxRecv, TxClient, TxSend, TxSendError, TxFail, net, hist
<1>b. Conn(client_fd)' = Conn(client_fd) BY <1>a DEF Conn
<1>c. FailureIsOwn' BY <1>a, <1>b DEF FailInv, FailureIsOwn
<1>d. ASSUME tx'.pc \notin {"send", "fail"}, UNCHANGED tx_failed PROVE FailInv'
  BY <1>a, <1>b, <1>c, <1>d DEF FailInv
<1>1. CASE TxTop BY <1>d, <1>1, TxGotoType DEF TxTop, TxPc
<1>2. CASE TxPark BY <1>d, <1>2, TxGotoType DEF TxPark, TxPc
<1>3. CASE TxRun BY <1>d, <1>3, TxGotoType DEF TxRun, TxPc
<1>4. CASE TxRecv
  <2>1. tx'.pc \in {"top", "client"} BY <1>4, TxGotoType, SbRecvType DEF TxRecv, TxPc
  <2> QED BY <1>d, <1>4, <2>1 DEF TxRecv
<1>5. CASE TxClient
  <2>1. CASE client_fd = NoFd BY <1>d, <1>5, <2>1, TxGotoType DEF TxClient, TxPc
  <2>2. CASE client_fd # NoFd
    <3>1. tx'.pc = "send" /\ tx'.fd = client_fd /\ tx'.conn = Conn(client_fd) /\ UNCHANGED tx_failed
      BY <1>5, <2>2 DEF TxClient, TypeOK, TxState
    <3>2. Conn(client_fd) \in Conns
      <4>1. client_fd \in Fds BY <2>2 DEF TypeOK, FdVal
      <4>2. fdt[client_fd] # NoConn BY <4>1 DEF FdInv, InUse
      <4> QED BY <4>1, <4>2, ConnType DEF Conn
    <3> QED BY <1>a, <1>b, <1>c, <3>1, <3>2 DEF FailInv
  <2> QED BY <2>1, <2>2
<1>6. CASE TxSend
  <2>1. UNCHANGED tx_failed /\ tx.pc = "send" BY <1>6 DEF TxSend
  <2>2. PICK n \in 1..Len(tx.chunk) :
          tx' = [(IF n = Len(tx.chunk) THEN TxAgain ELSE tx) EXCEPT !.chunk = Drop(tx.chunk, n)]
    BY <1>6 DEF TxSend
  <2>3. CASE n = Len(tx.chunk)
    <3>1. TxAgain \in TxState /\ TxAgain.pc = "top" BY TxAgainType
    <3>2. tx'.pc = "top" BY <2>2, <2>3, <3>1 DEF TxState
    <3> QED BY <1>d, <2>1, <3>2
  <2>4. CASE n # Len(tx.chunk)
    <3>1. UNCHANGED <<tx.pc, tx.fd, tx.conn>> BY <2>2, <2>4 DEF TypeOK, TxState
    <3> QED BY <1>a, <1>b, <1>c, <2>1, <3>1 DEF FailInv
  <2> QED BY <2>3, <2>4
<1>7. CASE TxSendError
  <2>1. tx.pc = "send" /\ tx'.pc = "fail" /\ UNCHANGED <<tx.fd, tx.conn, tx_failed>>
    BY <1>7 DEF TxSendError, TxGoto, TypeOK, TxState
  <2>2. tx.conn \in Conns BY <2>1 DEF FailInv
  <2>3. tx.conn \in failed' BY <1>7, <2>2 DEF TxSendError
  <2> QED BY <1>a, <1>b, <1>c, <2>1, <2>2, <2>3 DEF FailInv
<1>8. CASE TxFail
  <2>1. tx.pc = "fail" /\ tx'.pc = "top" /\ UNCHANGED failed BY <1>8, TxAgainType DEF TxFail, hist
  <2>2. rx.pc \notin {"drain", "publish"} BY <2>1 DEF ParkInv, Draining
  <2>3. client_fd # NoFd => Conn(client_fd) \in failed BY <2>1 DEF FailInv
  <2> QED BY <1>a, <1>b, <1>c, <2>1, <2>2, <2>3 DEF FailInv
<1> QED BY <1>1, <1>2, <1>3, <1>4, <1>5, <1>6, <1>7, <1>8 DEF TxStep

(* The controller and the hosts neither send nor drop.                     *)
LEMMA FailOther ==
    FailInv /\ (CtlPacket \/ CtlSpace \/ CtlPut \/ \E c \in Conns : HostStep(c)) => FailInv'
<1>1. CtlPacket \/ CtlSpace \/ CtlPut \/ (\E c \in Conns : HostStep(c))
        => UNCHANGED <<client_fd, tx_failed, fdt, rx, tx, failed>>
  BY DEF CtlPacket, CtlSpace, CtlPut, HostStep, net, hist
<1> QED BY <1>1 DEF FailInv, FailureIsOwn, Conn

(* The failure invariant holds in every reachable state.                   *)
LEMMA FailAlways == Spec => []FailInv
<1>1. Init => FailInv BY DEF Init, FailInv, FailureIsOwn
<1>2. FailInv /\ UNCHANGED vars => FailInv' BY DEF FailInv, FailureIsOwn, Conn, vars, net, hist
<1>3. TypeOK /\ FdInv /\ ParkInv /\ FailInv /\ [Next]_vars => FailInv'
  BY <1>2, FailRx, FailTx, FailOther DEF Next
<1> QED BY <1>1, <1>3, TypeCorrect, FdAlways, ParkAlways, PTL DEF Spec

(* bridge.zig 150, 201, 261: a failure that tx reports late never costs    *)
(* the next host its connection.                                           *)
THEOREM FailuresAreOwn == Spec => []FailureIsOwn
<1>1. FailInv => FailureIsOwn BY DEF FailInv
<1> QED BY <1>1, FailAlways, PTL

-----------------------------------------------------------------------------
(***************************************************************************)
(* Host packets.  The reassembler holds bytes of one host only, and while  *)
(* there is a client, of that client: it is emptied between the old host's *)
(* shutdown and the new one's publication (line 196).  HostInv says who    *)
(* has been a client: never a connection that is still being accepted.     *)
(***************************************************************************)
Cleared == Replacing \ {"shutdown"}

HostInv ==
    /\ client_fd # NoFd => Conn(client_fd) \in hosts
    /\ rx.pc \in Accepting => Conn(rx.new) \notin hosts
    /\ \A c \in hosts : sock[c] \in {"open", "shut", "closed"}

ReInv ==
    /\ \A i \in 1..Len(rx.re) : rx.re[i] = rx.re[1] /\ rx.re[i] \in hosts
    /\ client_fd # NoFd => \A i \in 1..Len(rx.re) : rx.re[i] = Conn(client_fd)
    /\ rx.pc \in Cleared => rx.re = << >>
    /\ OneHostPerPacket

(* While it accepts, rx keeps the new descriptor; only a feed fills the    *)
(* reassembler or delivers from it.                                        *)
LEMMA RxLocals ==
    ASSUME TypeOK, FdInv, RxStep
    PROVE  /\ rx'.pc \in Accepting =>
                RxAccept \/ (rx.pc \in Accepting /\ rx'.new = rx.new /\ Conn(rx.new)' = Conn(rx.new))
           /\ RxFeed \/ rx'.re = << >> \/ (rx'.re = rx.re /\ (rx'.pc \in Cleared => rx.pc \in Cleared))
           /\ RxFeed \/ last' = last
<1>a. rx \in RxState BY DEF TypeOK
<1>b. RxFeed \/ last' = last
  BY DEF RxStep, RxPoll, RxAccept, RxHandshakeFail, RxHandshakeOk, RxSwap, RxShutdown, RxUnidle, RxPause,
         RxWait, RxCloseOld, RxClearFailed, RxDrain, RxPublish, RxUnpause, RxCheckFailed, RxDrop,
         RxDropClose, RxCheckClient, RxRecv, RxFeedError, hist
<1> USE DEF Accepting, Replacing, Cleared
<1>1. CASE RxPoll \/ RxUnpause \/ RxCheckFailed \/ RxHandshakeFail \/ RxRecv
  <2>1. rx'.re = rx.re /\ rx'.pc \notin Accepting
    BY <1>1, <1>a DEF RxPoll, RxUnpause, RxCheckFailed, RxHandshakeFail, RxRecv, RxState
  <2> QED BY <1>b, <2>1
<1>2. CASE RxAccept
  <2>1. Goto("chkfail").pc = "chkfail" /\ Goto("chkfail").re = rx.re BY GotoType, GotoFields DEF RxPc
  <2>2. \A f : LET r == [rx EXCEPT !.pc = "handshake", !.new = f] IN r.pc = "handshake" /\ r.re = rx.re
    BY <1>a DEF RxState
  <2>3. rx' = Goto("chkfail") \/ \E f : rx' = [rx EXCEPT !.pc = "handshake", !.new = f]
    BY <1>2 DEF RxAccept
  <2>4. rx'.re = rx.re /\ rx'.pc \in {"chkfail", "handshake"} BY <2>1, <2>2, <2>3
  <2> QED BY <1>2, <1>b, <2>4
<1>3. CASE RxHandshakeOk \/ RxUnidle \/ RxPause \/ RxWait \/ RxClearFailed
  <2>1. rx'.re = rx.re /\ rx'.new = rx.new /\ rx.pc \in Accepting
        /\ (rx'.pc \in Cleared => rx.pc \in Cleared) /\ UNCHANGED fdt
    BY <1>3, GotoType, GotoFields DEF RxHandshakeOk, RxUnidle, RxPause, RxWait, RxClearFailed, RxPc, net
  <2> QED BY <1>b, <2>1 DEF Conn
<1>4. CASE RxSwap
  <2>1. rx'.re = rx.re /\ rx'.new = rx.new /\ rx.pc = "swap" /\ rx'.pc = "shutdown" /\ UNCHANGED fdt
    BY <1>4, <1>a DEF RxSwap, RxState, net
  <2> QED BY <1>b, <2>1 DEF Conn
<1>5. CASE RxShutdown
  <2>1. rx'.re = << >> /\ rx'.new = rx.new /\ rx.pc = "shutdown" /\ UNCHANGED fdt
    BY <1>5, <1>a DEF RxShutdown, Reset, RxState
  <2> QED BY <1>b, <2>1 DEF Conn
<1>6. CASE RxCloseOld
  <2>1. rx'.re = rx.re /\ rx'.new = rx.new /\ rx.pc = "close" /\ rx'.pc = "clear"
    BY <1>6, GotoType, GotoFields DEF RxCloseOld, RxPc
  <2>2. rx.new \in Fds /\ rx.new # rx.old BY <2>1 DEF FdInv
  <2>3. fdt'[rx.new] = fdt[rx.new] BY <1>6, <2>2 DEF RxCloseOld, Close, net, TypeOK
  <2> QED BY <1>b, <2>1, <2>2, <2>3 DEF Conn
<1>7. CASE RxDrain
  <2>1. rx'.re = rx.re /\ rx'.new = rx.new /\ rx.pc = "drain" /\ UNCHANGED fdt
    BY <1>7, GotoType, GotoFields DEF RxDrain, Drain, RxPc, net
  <2> QED BY <1>b, <2>1 DEF Conn
<1>8. CASE RxPublish \/ RxCheckClient
  <2>1. rx'.re = rx.re /\ rx'.pc \notin Accepting
    BY <1>8, GotoType, GotoFields DEF RxPublish, RxCheckClient, RxPc
  <2> QED BY <1>b, <2>1
<1>9. CASE RxDrop \/ RxDropClose
  <2>1. rx.ret \in {"poll", "check"} BY <1>a DEF RxState
  <2>2. Goto(rx.ret) \in RxState /\ Goto(rx.ret).pc = rx.ret /\ Goto(rx.ret).re = rx.re
    BY <2>1, GotoType, GotoFields DEF RxPc
  <2>3. rx'.pc \in {"poll", "check", "dropclose"} /\ rx'.re = rx.re
    BY <1>9, <1>a, <2>1, <2>2 DEF RxDrop, RxDropClose, RxState
  <2> QED BY <1>b, <2>3
<1>10. CASE RxFeed
  <2>1. PICK l \in {"poll", "feed"} : \E m, r : rx' = [Goto(l) EXCEPT !.left = m, !.re = r]
    BY <1>10 DEF RxFeed
  <2>2. Goto(l) \in RxState /\ Goto(l).pc = l BY GotoType DEF RxPc
  <2> QED BY <1>10, <2>1, <2>2 DEF RxState
<1>11. CASE RxFeedError
  <2>1. rx'.re = << >> /\ rx'.pc = "drop" BY <1>11, <1>a DEF RxFeedError, RxState
  <2> QED BY <1>b, <2>1
<1> QED BY <1>1, <1>2, <1>3, <1>4, <1>5, <1>6, <1>7, <1>8, <1>9, <1>10, <1>11 DEF RxStep

(* Every step keeps the invariant on who has been a client.                *)
LEMMA HostRx == TypeOK /\ FdInv /\ ParkInv /\ HostInv /\ RxStep => HostInv'
<1> SUFFICES ASSUME TypeOK, FdInv, ParkInv, HostInv, RxStep PROVE HostInv' OBVIOUS
<1>1. CASE RxPublish
  <2>1. rx'.pc = "unpause" BY <1>1, GotoType DEF RxPublish, RxPc
  <2>2. fdt[rx.new] # NoConn /\ rx.new \in Fds
    BY <1>1 DEF FdInv, InUse, Accepting, Replacing, RxPublish
  <2>3. sock[Conn(rx.new)] \in {"open", "shut"} BY <2>2 DEF FdInv, Conn
  <2> QED BY <1>1, <2>1, <2>3, RxPublishes DEF HostInv, Accepting, Replacing
<1>2. CASE ~RxPublish
  <2>1. hosts' = hosts BY <1>2, RxLeaves
  <2>2. client_fd' # NoFd => Conn(client_fd)' \in hosts' BY <1>2, <2>1, RxClient DEF HostInv
  <2>3. \A c \in hosts' : sock'[c] \in {"open", "shut", "closed"}
    <3>1. sock' \in [Conns -> {"none", "pending", "open", "shut", "closed"}]
      BY RxType DEF TypeOK
    <3>2. hosts \subseteq Conns BY DEF TypeOK
    <3> QED BY <2>1, <3>1, <3>2, RxSockets DEF HostInv
  <2>4. rx'.pc \in Accepting => (Conn(rx.new) \notin hosts)'
    <3>1. CASE RxAccept
      <4>1. CASE rx' = Goto("chkfail")
        BY <4>1, GotoType DEF RxPc, Accepting, Replacing
      <4>2. ASSUME NEW c \in Conns, NEW f \in Fds, sock[c] = "pending",
                   fdt' = [fdt EXCEPT ![f] = c], rx' = [rx EXCEPT !.pc = "handshake", !.new = f]
            PROVE  (Conn(rx.new) \notin hosts)'
        <5>1. rx'.new = f /\ fdt'[f] = c BY <4>2 DEF TypeOK, RxState
        <5>2. c \notin hosts BY <4>2 DEF HostInv
        <5> QED BY <2>1, <5>1, <5>2 DEF Conn
      <4> QED BY <3>1, <4>1, <4>2 DEF RxAccept
    <3>2. CASE ~RxAccept
      <4>1. ASSUME rx'.pc \in Accepting PROVE Conn(rx.new)' = Conn(rx.new) /\ rx.pc \in Accepting
        BY <3>2, <4>1, RxLocals DEF Conn
      <4> QED BY <2>1, <4>1 DEF HostInv
    <3> QED BY <3>1, <3>2
  <2> QED BY <2>1, <2>2, <2>3, <2>4 DEF HostInv
<1> QED BY <1>1, <1>2

(* The other tasks make nobody a client, and a host leaves the state none  *)
(* only for the backlog.                                                   *)
LEMMA HostOther ==
    TypeOK /\ HostInv /\ (TxStep \/ CtlPacket \/ CtlSpace \/ CtlPut \/ \E c \in Conns : HostStep(c))
        => HostInv'
<1> SUFFICES ASSUME TypeOK, HostInv, TxStep \/ CtlPacket \/ CtlSpace \/ CtlPut \/ \E c \in Conns : HostStep(c)
             PROVE  HostInv'
    OBVIOUS
<1>1. UNCHANGED <<client_fd, rx, fdt, hosts>>
  BY DEF TxStep, TxTop, TxPark, TxRun, TxRecv, TxClient, TxSend, TxSendError, TxFail,
         CtlPacket, CtlSpace, CtlPut, HostStep, net, hist
<1>2. \A d \in Conns : sock'[d] # sock[d] => sock[d] = "none"
  BY DEF TxStep, TxTop, TxPark, TxRun, TxRecv, TxClient, TxSend, TxSendError, TxFail,
         CtlPacket, CtlSpace, CtlPut, HostStep, net, TypeOK
<1>3. hosts \subseteq Conns BY DEF TypeOK
<1> QED BY <1>1, <1>2, <1>3 DEF HostInv, Conn

(* Who has been a client, in every reachable state.                        *)
LEMMA HostAlways == Spec => []HostInv
<1>1. Init => HostInv BY DEF Init, HostInv, Accepting, Replacing
<1>2. HostInv /\ UNCHANGED vars => HostInv' BY DEF HostInv, Conn, vars, net, hist
<1>3. TypeOK /\ FdInv /\ ParkInv /\ HostInv /\ [Next]_vars => HostInv'
  BY <1>2, HostRx, HostOther DEF Next
<1> QED BY <1>1, <1>3, TypeCorrect, FdAlways, ParkAlways, PTL DEF Spec

(* A run of copies of c is a sequence, also when its length is negative.   *)
LEMMA Copies ==
    ASSUME NEW c, NEW n \in Int
    PROVE  [i \in 1..n |-> c] \in Seq({c})
<1>1. CASE n >= 0 BY <1>1
<1>2. CASE n < 0
  <2>1. 1..n = 1..0 BY <1>2
  <2>2. [i \in 1..n |-> c] = << >> BY <2>1
  <2> QED BY <2>2, EmptyType
<1> QED BY <1>1, <1>2

(* Copies of c appended to a sequence of copies of c.                      *)
LEMMA AppendCopies ==
    ASSUME NEW S, NEW s \in Seq(S), NEW c, \A i \in 1..Len(s) : s[i] = c,
           NEW u \in Seq({c})
    PROVE  Len(s \o u) \in Nat /\ \A i \in 1..Len(s \o u) : (s \o u)[i] = c
<1>1. \A i \in 1..Len(u) : u[i] = c OBVIOUS
<1>2. s \in Seq(S \cup {c}) /\ u \in Seq(S \cup {c}) OBVIOUS
<1>3. Len(s \o u) = Len(s) + Len(u) /\ Len(s) \in Nat /\ Len(u) \in Nat BY <1>2
<1>4. ASSUME NEW i \in 1..Len(s \o u) PROVE (s \o u)[i] = c
  <2>1. CASE i <= Len(s)
    <3>1. (s \o u)[i] = s[i] BY <1>2, <1>3, <2>1
    <3> QED BY <1>3, <2>1, <3>1
  <2>2. CASE i > Len(s)
    <3>1. (s \o u)[i] = u[i - Len(s)] BY <1>2, <1>3, <2>2
    <3> QED BY <1>1, <1>3, <2>2, <3>1
  <2> QED BY <1>3, <2>1, <2>2
<1> QED BY <1>3, <1>4

(* One feed appends bytes of the client to bytes of the client.            *)
LEMMA FeedRe ==
    TypeOK /\ FdInv /\ HostInv /\ PollInv /\ ReInv /\ RxFeed => ReInv'
<1> SUFFICES ASSUME TypeOK, FdInv, HostInv, PollInv, ReInv, RxFeed PROVE ReInv' OBVIOUS
<1> DEFINE n   == Least(rx.left, HostPktLen - Len(rx.re))
           c   == Conn(rx.client)
           u   == [i \in 1..n |-> c]
           buf == rx.re \o u
<1>1. /\ rx.pc = "feed" /\ UNCHANGED <<client_fd, fdt, hosts>>
      /\ rx'.pc \in {"poll", "feed"} /\ rx'.re \in {<< >>, buf} /\ last' \in {buf, last}
  <2>1. PICK l \in {"poll", "feed"}, r \in {<< >>, buf} : \E m : rx' = [Goto(l) EXCEPT !.left = m, !.re = r]
    BY DEF RxFeed
  <2>2. Goto(l) \in RxState /\ Goto(l).pc = l BY GotoType DEF RxPc
  <2>3. rx'.pc = l /\ rx'.re = r BY <2>1, <2>2 DEF RxState
  <2> QED BY <2>3 DEF RxFeed, net
<1>2. client_fd = rx.client /\ client_fd # NoFd BY <1>1 DEF PollInv
<1>3. c \in hosts /\ Conn(client_fd)' = c BY <1>1, <1>2 DEF HostInv, Conn
<1>4. rx.re \in Seq(Conns \cup {NoConn}) BY DEF TypeOK, RxState
<1>5. \A i \in 1..Len(rx.re) : rx.re[i] = c BY <1>2 DEF ReInv
<1>6. Len(buf) \in Nat /\ \A i \in 1..Len(buf) : buf[i] = c
  <2>1. n \in Int
    <3>1. rx.left \in Int /\ Len(rx.re) \in Int /\ HostPktLen \in Int
      BY SizeAssumption DEF TypeOK, RxState
    <3> QED BY <3>1 DEF Least
  <2> HIDE DEF n, c
  <2>2. u \in Seq({c}) BY <2>1, Copies
  <2> HIDE DEF u
  <2> QED BY <1>4, <1>5, <2>1, <2>2, AppendCopies
<1> HIDE DEF buf, c
<1>7. 1 \in 1..Len(buf) \/ Len(buf) = 0 BY <1>6
<1>8. \A i \in 1..Len(rx'.re) : rx'.re[i] = c
  <2>1. CASE rx'.re = << >> BY <2>1
  <2>2. CASE rx'.re = buf BY <1>6, <2>2
  <2> QED BY <1>1, <2>1, <2>2
<1>9. OneHostPerPacket'
  <2>1. CASE last' = last BY <1>1, <2>1 DEF ReInv, OneHostPerPacket
  <2>2. CASE last' = buf
    <3>1. \A i \in 1..Len(buf) : buf[i] = c /\ buf[1] = c BY <1>6, <1>7
    <3> QED BY <1>1, <1>3, <2>2, <3>1 DEF OneHostPerPacket
  <2> QED BY <1>1, <2>1, <2>2
<1>10. rx'.pc \notin Cleared BY <1>1 DEF Cleared, Replacing
<1>11. \A i \in 1..Len(rx'.re) : rx'.re[i] = rx'.re[1]
  <2>1. ASSUME NEW i \in 1..Len(rx'.re) PROVE 1 \in 1..Len(rx'.re)
    <3>1. Len(rx'.re) \in Nat
      <4>1. CASE rx'.re = << >> BY <4>1
      <4>2. CASE rx'.re = buf BY <1>6, <4>2
      <4> QED BY <1>1, <4>1, <4>2
    <3> QED BY <2>1, <3>1
  <2> QED BY <1>8, <2>1
<1> QED BY <1>1, <1>3, <1>8, <1>9, <1>10, <1>11 DEF ReInv

(* Every step of the rx task keeps the reassembler to one host.            *)
LEMMA ReRx ==
    TypeOK /\ FdInv /\ ParkInv /\ HostInv /\ PollInv /\ ReInv /\ RxStep => ReInv'
<1> SUFFICES ASSUME TypeOK, FdInv, ParkInv, HostInv, PollInv, ReInv, RxStep PROVE ReInv' OBVIOUS
<1>1. CASE RxFeed BY <1>1, FeedRe
<1>2. CASE RxPublish
  <2>1. rx'.re = rx.re /\ rx.pc = "publish" /\ rx'.pc = "unpause" /\ last' = last
    BY <1>2, GotoType, GotoFields DEF RxPublish, RxPc
  <2>2. rx'.re = << >> BY <2>1 DEF ReInv, Cleared, Replacing
  <2>3. hosts \subseteq hosts' BY <1>2, RxPublishes
  <2>4. OneHostPerPacket' BY <2>1, <2>3 DEF ReInv, OneHostPerPacket
  <2> QED BY <2>2, <2>4 DEF ReInv
<1>3. CASE ~RxFeed /\ ~RxPublish
  <2>1. hosts' = hosts /\ last' = last BY <1>3, RxLeaves, RxLocals
  <2>2. OneHostPerPacket' BY <2>1 DEF ReInv, OneHostPerPacket
  <2>3. client_fd' = NoFd \/ (client_fd' = client_fd /\ Conn(client_fd)' = Conn(client_fd))
    BY <1>3, RxClient
  <2>4. CASE rx'.re = << >> BY <2>2, <2>4 DEF ReInv
  <2>5. CASE rx'.re = rx.re /\ (rx'.pc \in Cleared => rx.pc \in Cleared)
    BY <2>1, <2>2, <2>3, <2>5 DEF ReInv
  <2> QED BY <1>3, <2>4, <2>5, RxLocals
<1> QED BY <1>1, <1>2, <1>3

(* bridge.zig 159-168, 196: every packet the controller is given comes     *)
(* from one host, and from one that was the client.                        *)
THEOREM PacketsOfOneHost == Spec => []OneHostPerPacket
<1>1. ReInv => OneHostPerPacket BY DEF ReInv
<1>2. Init => ReInv BY DEF Init, ReInv, OneHostPerPacket, Cleared, Replacing
<1>3. TxStep \/ CtlPacket \/ CtlSpace \/ CtlPut \/ (\E c \in Conns : HostStep(c)) \/ UNCHANGED vars
        => UNCHANGED <<client_fd, rx, fdt, hosts, last>>
  BY DEF TxStep, TxTop, TxPark, TxRun, TxRecv, TxClient, TxSend, TxSendError, TxFail,
         CtlPacket, CtlSpace, CtlPut, HostStep, net, hist, vars
<1>4. ReInv /\ UNCHANGED <<client_fd, rx, fdt, hosts, last>> => ReInv'
  BY DEF ReInv, OneHostPerPacket, Conn
<1>5. TypeOK /\ FdInv /\ ParkInv /\ HostInv /\ PollInv /\ ReInv /\ [Next]_vars => ReInv'
  BY <1>3, <1>4, ReRx DEF Next
<1> QED BY <1>1, <1>2, <1>5, TypeCorrect, FdAlways, ParkAlways, HostAlways, PollAlways, PTL DEF Spec

-----------------------------------------------------------------------------
(***************************************************************************)
(* The stream to the host.  HostStreamWhole needs to know what is still to *)
(* come: for a client that can read, the units it was sent, those in       *)
(* tx_chunk and those in the stream buffer make one run of whole packets   *)
(* that ends at a packet's end, so the next packet of the controller fits  *)
(* behind it; a new client starts with such a buffer because rx has        *)
(* drained it; and a tx that is sending to a host that has just been       *)
(* replaced still has only the rest of its chunk to send (StreamInv).      *)
(***************************************************************************)
Pending  == IF tx.pc \in {"client", "send"} THEN tx.chunk ELSE << >>
Alive(c) == c \in hosts /\ sock[c] = "open" /\ host[c].peer # "gone"
Bound    == IF ctl.pc = "idle" THEN ctl.n ELSE ctl.n - 1

\* Whole packets up to the last unit, all older than packet b.
Sealed(s, b) ==
    /\ WholePackets(s)
    /\ s # << >> => s[Len(s)].part = s[Len(s)].len
    /\ \A i \in 1..Len(s) : s[i].pkt < b

\* The packet numbered b, from its first unit to its last.
Packet(p, b) == \A i \in 1..Len(p) : p[i].pkt = b /\ p[i].part = i /\ p[i].len = Len(p)

StreamInv ==
    /\ client_fd # NoFd /\ Alive(Conn(client_fd))
         => Sealed(got[Conn(client_fd)] \o (Pending \o sb), Bound)
    /\ rx.pc = "publish" => Sealed(sb, Bound)
    /\ tx.pc = "send" /\ Alive(Conn(tx.fd)) => WholePackets(got[Conn(tx.fd)] \o tx.chunk)
    /\ \A c \in Conns \ hosts : got[c] = << >>
    /\ ctl.pc # "idle" => Packet(ctl.pkt, ctl.n - 1)
    /\ HostStreamWhole

(* A sequence is its first n elements and the rest.                        *)
LEMMA Split ==
    ASSUME NEW S, NEW s \in Seq(S), NEW n \in Nat, n <= Len(s)
    PROVE  Prefix(s, n) \o Drop(s, n) = s
<1>1. Len(s) \in Nat /\ 1 \in 1..Len(s) + 1 /\ n \in (1 - 1)..Len(s) /\ Len(s) \in n..Len(s) OBVIOUS
<1>2. SubSeq(s, 1, n) \o SubSeq(s, n + 1, Len(s)) = SubSeq(s, 1, Len(s))
  BY <1>1, ConcatAdjacentSubSeq
<1> QED BY <1>2, SubSeqFull DEF Prefix, Drop

(* Runs of units can be joined in any order.                               *)
LEMMA Joined == \A s, t, u \in Seq(Unit) : (s \o t) \o u = s \o (t \o u)
BY ConcatAssociative, SMT

(* What is whole is whole as far as it has been sent.                      *)
LEMMA WholePrefix ==
    ASSUME NEW s \in Seq(Unit), NEW t \in Seq(Unit), WholePackets(s \o t)
    PROVE  WholePackets(s)
<1>1. /\ Len(s) \in Nat /\ Len(t) \in Nat /\ Len(s \o t) = Len(s) + Len(t)
      /\ \A i \in 1..Len(s) : (s \o t)[i] = s[i]
  BY ConcatProperties
<1>2. s # << >> => s[1].part = 1
  <2>1. ASSUME s # << >> PROVE s[1].part = 1
    <3>1. 1 \in 1..Len(s) BY <2>1, EmptySeq
    <3>2. s \o t # << >> BY <2>1, ConcatEqualIffEmpty
    <3> QED BY <1>1, <3>1, <3>2 DEF WholePackets
  <2> QED BY <2>1
<1>3. ASSUME NEW i \in 1..(Len(s) - 1) PROVE Follows(s[i], s[i + 1])
  <2>1. i \in 1..Len(s) /\ i + 1 \in 1..Len(s) /\ i \in 1..(Len(s \o t) - 1) BY <1>1
  <2>2. Follows((s \o t)[i], (s \o t)[i + 1]) BY <2>1 DEF WholePackets
  <2> QED BY <1>1, <2>1, <2>2
<1> QED BY <1>2, <1>3 DEF WholePackets

(* The next packet fits behind a sealed run.                               *)
LEMMA SealedAppend ==
    ASSUME NEW s \in Seq(Unit), NEW p \in Seq(Unit), NEW b \in Int, Sealed(s, b), Packet(p, b)
    PROVE  Sealed(s \o p, b + 1)
<1> DEFINE t == s \o p
<1>1. /\ Len(s) \in Nat /\ Len(p) \in Nat /\ Len(t) = Len(s) + Len(p) /\ t \in Seq(Unit)
      /\ \A i \in 1..Len(t) : t[i] = IF i <= Len(s) THEN s[i] ELSE p[i - Len(s)]
  BY ConcatProperties
<1>2. /\ s # << >> <=> Len(s) > 0
      /\ t # << >> <=> Len(t) > 0
  BY <1>1, EmptySeq
<1>3. \A i \in 1..Len(s) : s[i] \in Unit BY ElementOfSeq
<1> HIDE DEF t
<1>4. \A i \in 1..Len(t) : t[i].pkt < b + 1
  <2>1. ASSUME NEW i \in 1..Len(t) PROVE t[i].pkt < b + 1
    <3>1. CASE i <= Len(s)
      <4>1. i \in 1..Len(s) /\ t[i] = s[i] BY <1>1, <3>1
      <4>2. s[i].pkt \in Int /\ s[i].pkt < b BY <1>3, <4>1 DEF Sealed, Unit
      <4> QED BY ONLY <4>1, <4>2, b \in Int
    <3>2. CASE i > Len(s)
      <4>1. i - Len(s) \in 1..Len(p) /\ t[i] = p[i - Len(s)] BY <1>1, <3>2
      <4> QED BY <4>1 DEF Packet
    <3> QED BY <1>1, <3>1, <3>2
  <2> QED BY <2>1
<1>5. t # << >> => t[1].part = 1
  <2>1. CASE Len(s) > 0
    <3>1. 1 \in 1..Len(t) /\ t[1] = s[1] BY <1>1, <2>1
    <3> QED BY <1>2, <2>1, <3>1 DEF Sealed, WholePackets
  <2>2. CASE Len(s) = 0 /\ Len(p) > 0
    <3>1. 1 \in 1..Len(p) /\ t[1] = p[1] BY <1>1, <2>2
    <3> QED BY <3>1 DEF Packet
  <2> QED BY <1>1, <1>2, <2>1, <2>2
<1>6. t # << >> => t[Len(t)].part = t[Len(t)].len
  <2>1. CASE Len(p) > 0
    <3>1. Len(p) \in 1..Len(p) /\ t[Len(t)] = p[Len(p)] BY <1>1, <2>1
    <3> QED BY <3>1 DEF Packet
  <2>2. CASE Len(p) = 0 /\ Len(s) > 0
    <3>1. t[Len(t)] = s[Len(s)] BY <1>1, <2>2
    <3> QED BY <1>2, <2>2, <3>1 DEF Sealed
  <2> QED BY <1>1, <1>2, <2>1, <2>2
<1>7. ASSUME NEW i \in 1..(Len(t) - 1) PROVE Follows(t[i], t[i + 1])
  <2>0. i \in 1..Len(t) /\ i + 1 \in 1..Len(t) BY <1>1
  <2>1. CASE i + 1 <= Len(s)
    <3>1. t[i] = s[i] /\ t[i + 1] = s[i + 1] /\ i \in 1..(Len(s) - 1) BY <1>1, <2>0, <2>1
    <3> QED BY <3>1 DEF Sealed, WholePackets
  <2>2. CASE i = Len(s)
    <3>1. t[i] = s[Len(s)] /\ t[i + 1] = p[1] /\ Len(s) \in 1..Len(s) /\ 1 \in 1..Len(p)
      BY <1>1, <2>0, <2>2
    <3>2. s[Len(s)].pkt < b /\ s[Len(s)].part = s[Len(s)].len BY <1>2, <3>1 DEF Sealed
    <3>3. p[1].pkt = b /\ p[1].part = 1 BY <3>1 DEF Packet
    <3>4. p[1].pkt > s[Len(s)].pkt BY <1>3, <3>1, <3>2, <3>3 DEF Unit
    <3> QED BY <3>1, <3>2, <3>3, <3>4 DEF Follows
  <2>3. CASE i > Len(s)
    <3>1. t[i] = p[i - Len(s)] /\ t[i + 1] = p[i - Len(s) + 1]
          /\ i - Len(s) \in 1..Len(p) /\ i - Len(s) + 1 \in 1..Len(p)
      BY <1>1, <2>0, <2>3
    <3> QED BY <3>1 DEF Packet, Follows
  <2> QED BY <1>1, <2>1, <2>2, <2>3
<1> QED BY <1>4, <1>5, <1>6, <1>7 DEF t, Sealed, WholePackets

(* What is older than packet b is older than the next.                     *)
LEMMA SealedLater ==
    ASSUME NEW s \in Seq(Unit), NEW b \in Int, Sealed(s, b)
    PROVE  Sealed(s, b + 1)
<1>1. \A i \in 1..Len(s) : s[i] \in Unit BY ElementOfSeq
<1> QED BY <1>1 DEF Sealed, Unit

(* Nothing is sealed.                                                      *)
LEMMA SealedEmpty == \A b : Sealed(<< >>, b)
BY DEF Sealed, WholePackets

(* The rx task gives a number to a connection of the backlog, or to none.  *)
LEMMA RxNumbers ==
    ASSUME TypeOK, RxStep
    PROVE  \A f : \/ Conn(f)' = Conn(f) \/ Conn(f)' = NoConn
                  \/ Conn(f)' \in Conns /\ sock[Conn(f)'] = "pending"
<1>1. CASE UNCHANGED fdt BY <1>1 DEF Conn
<1>2. CASE RxAccept BY <1>2 DEF RxAccept, net, TypeOK, Conn
<1>3. ASSUME NEW g, Close(g)
      PROVE  \A f : Conn(f)' = Conn(f) \/ Conn(f)' = NoConn
  BY <1>3 DEF Close, TypeOK, Conn
<1> QED BY <1>1, <1>2, <1>3 DEF RxStep, RxPoll, RxHandshakeFail, RxHandshakeOk, Reject,
       RxSwap, RxShutdown, RxUnidle, RxPause, RxWait, RxCloseOld, RxClearFailed, RxDrain, RxPublish,
       RxUnpause, RxCheckFailed, RxDrop, RxDropClose, RxCheckClient, RxRecv, RxFeed, RxFeedError, net

(* The sequences of the stream invariant, and the number behind them.      *)
LEMMA StreamTypes ==
    TypeOK => /\ Pending \in Seq(Unit) /\ sb \in Seq(Unit) /\ tx.chunk \in Seq(Unit)
              /\ ctl.pkt \in Seq(Unit) /\ ctl.n \in Nat /\ Bound \in Int
              /\ \A c \in Conns : got[c] \in Seq(Unit)
              /\ hosts \subseteq Conns
BY EmptyType DEF TypeOK, Pending, TxState, CtlState, Bound

(* Every step of the rx task keeps the stream invariant.                   *)
LEMMA StreamRx ==
    TypeOK /\ FdInv /\ ParkInv /\ HostInv /\ FailInv /\ StreamInv /\ RxStep => StreamInv'
<1> SUFFICES ASSUME TypeOK, FdInv, ParkInv, HostInv, FailInv, StreamInv, RxStep PROVE StreamInv' OBVIOUS
<1>1. /\ UNCHANGED <<ctl, got, tx.pc, tx.fd>>
      /\ RxDrain \/ UNCHANGED <<tx, sb>>
      /\ RxPublish \/ UNCHANGED hosts
      /\ \A c \in Conns : host'[c].peer = host[c].peer
  BY RxLeaves
<1>2. Bound' = Bound BY <1>1 DEF Bound
<1>3. rx'.pc = "publish" => Sealed(sb', Bound')
  <2>1. rx'.pc = "publish" => sb' = << >> BY RxFailFlag DEF FailInv
  <2> QED BY <2>1, SealedEmpty
<1>4. HostStreamWhole' BY <1>1 DEF StreamInv, HostStreamWhole
<1>5. ctl'.pc # "idle" => Packet(ctl'.pkt, ctl'.n - 1) BY <1>1 DEF StreamInv
<1>6. CASE RxPublish
  <2> DEFINE c == Conn(rx.new)
  <2>1. /\ rx.pc = "publish" /\ c \in Conns /\ Conn(client_fd)' = c /\ hosts' = hosts \cup {c}
        /\ UNCHANGED <<sb, tx>> /\ tx.pc \in {"top", "park"}
    BY <1>6, RxPublishes DEF RxPublish
  <2>2. got[c] = << >>
    BY <2>1 DEF StreamInv, HostInv, Accepting, Replacing
  <2>3. Pending = << >> /\ Pending' = << >> BY <2>1 DEF Pending
  <2>4. got'[c] \o (Pending' \o sb') = sb
    <3>1. sb \in Seq(Unit) BY StreamTypes
    <3> HIDE DEF c
    <3> QED BY <1>1, <2>1, <2>2, <2>3, <3>1, ConcatEmptySeq
  <2>5. Sealed(sb, Bound') BY <1>2, <2>1 DEF StreamInv
  <2>6. client_fd' # NoFd /\ Alive(Conn(client_fd))'
          => Sealed((got[Conn(client_fd)] \o (Pending \o sb))', Bound')
    BY <2>1, <2>4, <2>5
  <2>7. tx'.pc # "send" BY <2>1
  <2>8. \A d \in Conns \ hosts' : got'[d] = << >> BY <1>1, <2>1 DEF StreamInv
  <2> QED BY <1>3, <1>4, <1>5, <2>6, <2>7, <2>8 DEF StreamInv
<1>7. CASE ~RxPublish
  <2>1. hosts' = hosts /\ hosts \subseteq Conns BY <1>1, <1>7, StreamTypes
  <2>2. \A c : Alive(c)' => Alive(c)
    <3>1. ASSUME NEW c, Alive(c)' PROVE Alive(c)
      <4>1. c \in hosts /\ c \in Conns /\ sock'[c] = "open" /\ host'[c].peer # "gone"
        BY <2>1, <3>1 DEF Alive
      <4>2. sock[c] \in {"open", "pending"} BY <4>1, RxSockets
      <4>3. sock[c] = "open" BY <4>1, <4>2 DEF HostInv
      <4> QED BY <1>1, <4>1, <4>3 DEF Alive
    <3> QED BY <3>1
  <2>3. client_fd' = NoFd \/ (client_fd' = client_fd /\ Conn(client_fd)' = Conn(client_fd))
    BY <1>7, RxClient
  <2>4. CASE RxDrain
    <3>1. client_fd' = NoFd /\ tx.pc \in {"top", "park"}
      BY <2>4 DEF RxDrain, FdInv, ParkInv, Replacing, Draining
    <3> QED BY <1>1, <1>3, <1>4, <1>5, <2>1, <3>1 DEF StreamInv
  <2>5. CASE ~RxDrain
    <3>1. UNCHANGED <<tx, sb, got, Pending>> BY <1>1, <2>5 DEF Pending
    <3>2. client_fd' # NoFd /\ Alive(Conn(client_fd))'
            => Sealed((got[Conn(client_fd)] \o (Pending \o sb))', Bound')
      BY <1>2, <2>2, <2>3, <3>1 DEF StreamInv, Alive
    <3>3. tx'.pc = "send" /\ Alive(Conn(tx.fd))' => WholePackets((got[Conn(tx.fd)] \o tx.chunk)')
      <4>1. ASSUME tx'.pc = "send", Alive(Conn(tx.fd))' PROVE Conn(tx.fd)' = Conn(tx.fd) /\ Alive(Conn(tx.fd))
        <5>1. Conn(tx.fd)' \in hosts BY <2>1, <4>1 DEF Alive
        <5>2. Conn(tx.fd)' # NoConn BY <2>1, <5>1, ConnAssumption
        <5>3. sock[Conn(tx.fd)'] # "pending" BY <5>1 DEF HostInv
        <5>4. \A f : Conn(f)' # NoConn /\ sock[Conn(f)'] # "pending" => Conn(f)' = Conn(f)
          BY RxNumbers
        <5>5. Conn(tx.fd)' = Conn(tx.fd) BY <3>1, <5>2, <5>3, <5>4 DEF Conn
        <5> QED BY <2>2, <4>1, <5>5 DEF Alive
      <4> QED BY <3>1, <4>1 DEF StreamInv
    <3> QED BY <1>1, <1>3, <1>4, <1>5, <2>1, <3>2, <3>3 DEF StreamInv
  <2> QED BY <2>4, <2>5
<1> QED BY <1>6, <1>7

(* glue_sb_recv moves the head of the buffer into the chunk.               *)
LEMMA SbRecvSplits ==
    ASSUME TypeOK, NEW pc \in TxPc, SbRecv(pc)
    PROVE  tx'.chunk \o sb' = sb /\ tx'.pc = pc
<1> DEFINE n == Least(TxChunk, Len(sb))
<1>1. n \in Nat /\ n <= Len(sb)
  <2>1. TxChunk \in Nat /\ Len(sb) \in Nat BY SizeAssumption DEF TypeOK
  <2> QED BY <2>1 DEF Least
<1>2. tx' = [tx EXCEPT !.pc = pc, !.chunk = Prefix(sb, n)] /\ sb' = Drop(sb, n) BY DEF SbRecv
<1> HIDE DEF n
<1>3. tx'.chunk = Prefix(sb, n) /\ tx'.pc = pc BY <1>2 DEF TypeOK, TxState
<1>4. sb \in Seq(Unit) BY DEF TypeOK
<1> QED BY <1>1, <1>2, <1>3, <1>4, Split

(* Every step of the tx task keeps the stream invariant.                   *)
LEMMA StreamTx ==
    TypeOK /\ FdInv /\ ParkInv /\ HostInv /\ FailInv /\ StreamInv /\ TxStep => StreamInv'
<1> SUFFICES ASSUME TypeOK, FdInv, ParkInv, HostInv, FailInv, StreamInv, TxStep PROVE StreamInv' OBVIOUS
<1>a. UNCHANGED <<client_fd, rx, fdt, sock, host, hosts, ctl>>
  BY DEF TxStep, TxTop, TxPark, TxRun, TxRecv, TxClient, TxSend, TxSendError, TxFail, net, hist
<1>b. /\ Bound' = Bound /\ \A c : Alive(c)' <=> Alive(c)
      /\ Conn(client_fd)' = Conn(client_fd) /\ \A f : Conn(f)' = Conn(f)
  BY <1>a DEF Bound, Alive, Conn
\* Steps that keep what is under way and are not sending.
<1>c. ASSUME UNCHANGED got, Pending' \o sb' = Pending \o sb, tx'.pc # "send",
             rx.pc = "publish" => sb' = sb
      PROVE  StreamInv'
  <2>1. client_fd' # NoFd /\ Alive(Conn(client_fd))'
          => Sealed((got[Conn(client_fd)] \o (Pending \o sb))', Bound')
    BY <1>a, <1>b, <1>c DEF StreamInv, Alive
  <2>2. rx'.pc = "publish" => Sealed(sb', Bound') BY <1>a, <1>b, <1>c DEF StreamInv
  <2>3. HostStreamWhole' BY <1>c DEF StreamInv, HostStreamWhole
  <2> QED BY <1>a, <1>c, <2>1, <2>2, <2>3 DEF StreamInv
<1>1. CASE TxTop \/ TxPark \/ TxRun
  <2>1. UNCHANGED <<got, sb>> /\ tx.pc \in {"top", "park", "run"} /\ tx'.pc \in {"park", "run", "top", "recv"}
    BY <1>1, TxGotoType DEF TxTop, TxPark, TxRun, TxPc, hist
  <2>2. Pending' = << >> /\ Pending = << >> BY <2>1 DEF Pending
  <2> QED BY <1>c, <2>1, <2>2
<1>2. CASE TxRecv
  <2>1. tx.pc = "recv" /\ UNCHANGED got BY <1>2 DEF TxRecv, hist
  <2>2. Pending = << >> BY <2>1 DEF Pending
  <2>3. CASE sb = << >>
    <3>1. tx'.pc = "top" /\ sb' = sb BY <1>2, <2>3, TxGotoType DEF TxRecv, TxPc
    <3>2. Pending' = << >> BY <3>1 DEF Pending
    <3> QED BY <1>c, <2>1, <2>2, <3>1, <3>2
  <2>4. CASE sb # << >>
    <3>1. tx'.chunk \o sb' = sb /\ tx'.pc = "client" BY <1>2, <2>4, SbRecvSplits DEF TxRecv, TxPc
    <3>2. Pending' = tx'.chunk BY <3>1 DEF Pending
    <3>3. Pending \o sb = sb BY <2>2, StreamTypes, ConcatEmptySeq
    <3>4. rx.pc # "publish" BY <2>1 DEF ParkInv, Draining
    <3> QED BY <1>c, <2>1, <3>1, <3>2, <3>3, <3>4
  <2> QED BY <2>3, <2>4
<1>3. CASE TxClient
  <2>1. tx.pc = "client" /\ UNCHANGED <<got, sb>> BY <1>3 DEF TxClient, hist
  <2>2. rx.pc # "publish" BY <2>1 DEF ParkInv, Draining
  <2>3. HostStreamWhole' BY <2>1 DEF StreamInv, HostStreamWhole
  <2>4. CASE client_fd = NoFd
    <3>1. tx'.pc = "top" BY <1>3, <2>4, TxGotoType DEF TxClient, TxPc
    <3> QED BY <1>a, <2>1, <2>2, <2>3, <2>4, <3>1 DEF StreamInv
  <2>5. CASE client_fd # NoFd
    <3>1. tx'.pc = "send" /\ tx'.fd = client_fd /\ tx'.chunk = tx.chunk
      BY <1>3, <2>5 DEF TxClient, TypeOK, TxState
    <3>2. Pending' = tx.chunk /\ Pending = tx.chunk BY <2>1, <3>1 DEF Pending
    <3>3. client_fd' # NoFd /\ Alive(Conn(client_fd))'
            => Sealed((got[Conn(client_fd)] \o (Pending \o sb))', Bound')
      BY <1>a, <1>b, <2>1, <3>2 DEF StreamInv, Alive
    <3>4. Conn(tx.fd)' = Conn(client_fd) BY <1>a, <3>1 DEF Conn
    <3>5. ASSUME Alive(Conn(client_fd)) PROVE WholePackets(got[Conn(client_fd)] \o tx.chunk)
      <4> DEFINE g == got[Conn(client_fd)]
      <4>1. g \in Seq(Unit) /\ tx.chunk \in Seq(Unit) /\ sb \in Seq(Unit)
        BY <3>5, StreamTypes DEF Alive
      <4>2. WholePackets(g \o (tx.chunk \o sb)) BY <2>5, <3>2, <3>5 DEF StreamInv, Sealed
      <4> HIDE DEF g
      <4>3. WholePackets((g \o tx.chunk) \o sb) BY <4>1, <4>2, Joined, Zenon
      <4>4. g \o tx.chunk \in Seq(Unit) BY <4>1, ConcatProperties
      <4>5. WholePackets(g \o tx.chunk) BY <4>1, <4>3, <4>4, WholePrefix
      <4> QED BY <4>5 DEF g
    <3>6. tx'.pc = "send" /\ Alive(Conn(tx.fd))' => WholePackets((got[Conn(tx.fd)] \o tx.chunk)')
      BY <1>b, <2>1, <3>1, <3>4, <3>5 DEF Alive
    <3> QED BY <1>a, <2>1, <2>2, <2>3, <3>3, <3>6 DEF StreamInv
  <2> QED BY <2>4, <2>5
<1>4. CASE TxSend
  <2> DEFINE c == Conn(tx.fd)
  <2>1. PICK n \in 1..Len(tx.chunk) :
          /\ tx' = [(IF n = Len(tx.chunk) THEN TxAgain ELSE tx) EXCEPT !.chunk = Drop(tx.chunk, n)]
          /\ got' = IF c \in hosts /\ host[c].peer # "gone"
                    THEN [got EXCEPT ![c] = @ \o Prefix(tx.chunk, n)] ELSE got
    BY <1>4 DEF TxSend
  <2>2. tx.pc = "send" /\ UNCHANGED sb /\ SockOpen(tx.fd) BY <1>4 DEF TxSend
  <2>3. c \in Conns /\ sock[c] = "open" BY <2>2, ConnType DEF SockOpen
  <2>4. tx.chunk \in Seq(Unit) /\ sb \in Seq(Unit) /\ got[c] \in Seq(Unit) BY <2>3, StreamTypes
  <2> DEFINE p == Prefix(tx.chunk, n)
             d == Drop(tx.chunk, n)
  <2>5. n \in Nat /\ n \in Int /\ n <= Len(tx.chunk) BY <2>4
  <2>6. p \in Seq(Unit) /\ d \in Seq(Unit) /\ p \o d = tx.chunk
    BY <2>4, <2>5, PrefixType, DropType, Split
  <2>7. tx'.chunk = d /\ (n # Len(tx.chunk) => tx'.pc = "send" /\ tx'.fd = tx.fd)
        /\ (n = Len(tx.chunk) => tx'.pc = "top")
    <3>1. TxAgain \in TxState /\ TxAgain.pc = "top" BY TxAgainType
    <3> HIDE DEF c, d
    <3>2. CASE n = Len(tx.chunk) BY <2>1, <3>1, <3>2 DEF d, TxState
    <3>3. CASE n # Len(tx.chunk) BY <2>1, <2>2, <3>3 DEF d, TypeOK, TxState
    <3> QED BY <3>2, <3>3
  <2>8. Pending = tx.chunk /\ Pending' = d
    <3>1. n = Len(tx.chunk) => d = << >>
      <4>1. ASSUME n = Len(tx.chunk) PROVE SubSeq(tx.chunk, n + 1, Len(tx.chunk)) = << >>
        BY <2>4, <2>5, <4>1, SubSeqEmpty
      <4> QED BY <4>1 DEF Drop
    <3> QED BY <2>2, <2>7, <3>1 DEF Pending
  <2>9. rx.pc # "publish" BY <2>2 DEF ParkInv, Draining
  <2>10. client_fd # NoFd => tx.fd = client_fd BY <2>2 DEF FailInv
  <2> HIDE DEF p, d
  <2>11. CASE Alive(c)
    <3>1. got' = [got EXCEPT ![c] = got[c] \o p] BY <2>1, <2>11 DEF Alive, p
    <3>2. got'[c] = got[c] \o p /\ \A e \in Conns : e # c => got'[e] = got[e]
      BY <2>3, <3>1 DEF TypeOK
    <3> DEFINE g == got[c]
    <3>3. g \in Seq(Unit) BY <2>4
    <3>3a. got'[c] = g \o p BY <3>2
    <3> HIDE DEF c, g
    <3>4. (g \o p) \o d = g \o tx.chunk
      <4>1. (g \o p) \o d = g \o (p \o d) BY <2>6, <3>3, Joined, Zenon
      <4> QED BY <2>6, <4>1
    <3>5. (g \o p) \o (d \o sb) = g \o (tx.chunk \o sb)
      <4>1. g \o p \in Seq(Unit) BY <2>6, <3>3, ConcatProperties
      <4>2. (g \o p) \o (d \o sb) = ((g \o p) \o d) \o sb BY <2>4, <2>6, <4>1, Joined, Zenon
      <4>3. (g \o tx.chunk) \o sb = g \o (tx.chunk \o sb) BY <2>4, <3>3, Joined, Zenon
      <4> QED BY <3>4, <4>2, <4>3
    <3>6. WholePackets(g \o tx.chunk) BY <2>2, <2>11 DEF StreamInv, g, c
    <3>7. WholePackets(g \o p)
      <4>1. g \o p \in Seq(Unit) BY <2>6, <3>3, ConcatProperties
      <4> QED BY <2>6, <3>4, <3>6, <4>1, WholePrefix
    <3>8. HostStreamWhole' BY <3>2, <3>3a, <3>7 DEF StreamInv, HostStreamWhole
    <3>9. client_fd' # NoFd /\ Alive(Conn(client_fd))'
            => Sealed((got[Conn(client_fd)] \o (Pending \o sb))', Bound')
      <4>1. SUFFICES ASSUME client_fd # NoFd
                     PROVE  Sealed((got[Conn(client_fd)] \o (Pending \o sb))', Bound')
        BY <1>a
      <4>2. Conn(client_fd) = c /\ Conn(client_fd)' = c BY <1>b, <2>10, <4>1 DEF c
      <4>3. Sealed(g \o (tx.chunk \o sb), Bound) BY <2>8, <2>11, <4>1, <4>2 DEF StreamInv, g
      <4> QED BY <1>b, <2>2, <2>8, <3>3a, <3>5, <4>2, <4>3
    <3>10. tx'.pc = "send" /\ Alive(Conn(tx.fd))' => WholePackets((got[Conn(tx.fd)] \o tx.chunk)')
      <4>1. SUFFICES ASSUME tx'.pc = "send" PROVE WholePackets((got[Conn(tx.fd)] \o tx.chunk)') OBVIOUS
      <4>2. Conn(tx.fd)' = c /\ tx'.chunk = d BY <1>a, <2>7, <4>1 DEF c, Conn
      <4> QED BY <3>3a, <3>4, <3>6, <4>2
    <3>11. \A e \in Conns \ hosts : got'[e] = << >> BY <2>11, <3>2 DEF StreamInv, Alive
    <3> QED BY <1>a, <2>9, <3>8, <3>9, <3>10, <3>11 DEF StreamInv
  <2>12. CASE ~Alive(c)
    <3>1. got' = got BY <2>1, <2>3, <2>12 DEF Alive
    <3>2. ~(client_fd' # NoFd /\ Alive(Conn(client_fd))')
      BY <1>a, <1>b, <2>10, <2>12 DEF Alive
    <3>3. ~(tx'.pc = "send" /\ Alive(Conn(tx.fd))')
      <4>1. ASSUME tx'.pc = "send" PROVE Conn(tx.fd)' = c BY <1>a, <2>7, <4>1 DEF Conn
      <4> QED BY <1>b, <2>12, <4>1 DEF Alive
    <3>4. HostStreamWhole' BY <3>1 DEF StreamInv, HostStreamWhole
    <3> QED BY <1>a, <2>9, <3>1, <3>2, <3>3, <3>4 DEF StreamInv
  <2> QED BY <2>11, <2>12
<1>5. CASE TxSendError
  <2>1. tx.pc = "send" /\ tx'.pc = "fail" /\ UNCHANGED <<got, sb>> /\ ~Alive(Conn(tx.fd))
    BY <1>5, TxGotoType, StreamTypes, ConnAssumption DEF TxSendError, TxPc, Alive, SockOpen
  <2>2. rx.pc # "publish" BY <2>1 DEF ParkInv, Draining
  <2>3. client_fd # NoFd => tx.fd = client_fd BY <2>1 DEF FailInv
  <2>4. ~(client_fd' # NoFd /\ Alive(Conn(client_fd))') BY <1>a, <1>b, <2>1, <2>3 DEF Alive
  <2>5. HostStreamWhole' BY <2>1 DEF StreamInv, HostStreamWhole
  <2> QED BY <1>a, <2>1, <2>2, <2>4, <2>5 DEF StreamInv
<1>6. CASE TxFail
  <2>1. UNCHANGED <<got, sb>> /\ tx.pc = "fail" /\ tx'.pc = "top" BY <1>6, TxAgainType DEF TxFail, hist
  <2>2. Pending' = << >> /\ Pending = << >> BY <2>1 DEF Pending
  <2> QED BY <1>c, <2>1, <2>2
<1> QED BY <1>1, <1>2, <1>3, <1>4, <1>5, <1>6 DEF TxStep

(* The controller appends whole packets.                                   *)
LEMMA StreamCtl ==
    TypeOK /\ NoPartialWrite /\ StreamInv /\ (CtlPacket \/ CtlSpace \/ CtlPut) => StreamInv'
<1> SUFFICES ASSUME TypeOK, NoPartialWrite, StreamInv, CtlPacket \/ CtlSpace \/ CtlPut PROVE StreamInv' OBVIOUS
<1>a. UNCHANGED <<client_fd, rx, tx, fdt, sock, host, hosts, got>>
  BY DEF CtlPacket, CtlSpace, CtlPut, net, hist
<1>b. /\ Pending' = Pending /\ Conn(client_fd)' = Conn(client_fd) /\ Conn(tx.fd)' = Conn(tx.fd)
      /\ \A c : Alive(c)' <=> Alive(c)
  BY <1>a DEF Pending, Alive, Conn
<1>c. HostStreamWhole' BY <1>a DEF StreamInv, HostStreamWhole
<1>d. tx'.pc = "send" /\ Alive(Conn(tx.fd))' => WholePackets((got[Conn(tx.fd)] \o tx.chunk)')
  BY <1>a, <1>b DEF StreamInv, Alive
\* A step that changes the bound and the buffer so that sealed runs stay sealed.
<1>e. ASSUME \A g \in Seq(Unit) : Sealed(g \o (Pending \o sb), Bound) => Sealed(g \o (Pending \o sb'), Bound'),
             Sealed(sb, Bound) => Sealed(sb', Bound'),
             ctl'.pc # "idle" => Packet(ctl'.pkt, ctl'.n - 1)
      PROVE  StreamInv'
  <2>1. client_fd' # NoFd /\ Alive(Conn(client_fd))'
          => Sealed((got[Conn(client_fd)] \o (Pending \o sb))', Bound')
    <3>1. SUFFICES ASSUME client_fd # NoFd, Alive(Conn(client_fd))
                   PROVE  Sealed((got[Conn(client_fd)] \o (Pending \o sb))', Bound')
      BY <1>a, <1>b DEF Alive
    <3>2. got[Conn(client_fd)] \in Seq(Unit) BY <3>1, StreamTypes DEF Alive
    <3>3. Sealed(got[Conn(client_fd)] \o (Pending \o sb), Bound) BY <3>1 DEF StreamInv
    <3>4. Sealed(got[Conn(client_fd)] \o (Pending \o sb'), Bound') BY <1>e, <3>2, <3>3
    <3> QED BY <1>a, <1>b, <3>4
  <2>2. rx'.pc = "publish" => Sealed(sb', Bound') BY <1>a, <1>e DEF StreamInv
  <2> QED BY <1>a, <1>c, <1>d, <1>e, <2>1, <2>2 DEF StreamInv
<1>1. CASE CtlPacket
  <2>1. PICK l \in PktLens, c \in Conns :
          ctl' = [pc |-> "space", n |-> ctl.n + 1,
                  pkt |-> [i \in 1..l |-> [pkt |-> ctl.n, part |-> i, len |-> l, born |-> c]]]
    BY <1>1 DEF CtlPacket
  <2>2. ctl.pc = "idle" /\ sb' = sb BY <1>1 DEF CtlPacket
  <2>3. ctl.n \in Nat /\ l \in Nat BY SizeAssumption DEF TypeOK, CtlState
  <2>4. Bound' = Bound BY <2>1, <2>2, <2>3 DEF Bound
  <2>5. Packet(ctl'.pkt, ctl'.n - 1)
    <3>1. ctl'.n - 1 = ctl.n BY <2>1, <2>3
    <3>2. ctl'.pkt = [i \in 1..l |-> [pkt |-> ctl.n, part |-> i, len |-> l, born |-> c]] BY <2>1
    <3>3. Len(ctl'.pkt) = l BY <2>3, <3>2
    <3>4. ASSUME NEW i \in 1..l PROVE ctl'.pkt[i].pkt = ctl.n /\ ctl'.pkt[i].part = i /\ ctl'.pkt[i].len = l
      <4>1. ctl'.pkt[i] = [pkt |-> ctl.n, part |-> i, len |-> l, born |-> c] BY <3>2
      <4> QED BY <4>1
    <3> QED BY <3>1, <3>3, <3>4 DEF Packet
  <2> QED BY <1>e, <2>2, <2>4, <2>5
<1>2. CASE CtlSpace
  <2>1. ctl.pc = "space" /\ sb' = sb BY <1>2 DEF CtlSpace
  <2>2. \/ ctl'.pc = "put" /\ ctl'.pkt = ctl.pkt /\ ctl'.n = ctl.n
        \/ ctl'.pc = "idle" /\ ctl'.n = ctl.n
    BY <1>2 DEF CtlSpace, TypeOK, CtlState
  <2>3. CASE ctl'.pc = "put" /\ ctl'.pkt = ctl.pkt /\ ctl'.n = ctl.n
    <3>1. Bound' = Bound BY <2>1, <2>3 DEF Bound
    <3> QED BY <1>e, <2>1, <2>3, <3>1 DEF StreamInv
  <2>4. CASE ctl'.pc = "idle" /\ ctl'.n = ctl.n
    <3>1. Bound' = Bound + 1 /\ Bound \in Int BY <2>1, <2>4, StreamTypes DEF Bound
    <3>2. \A g \in Seq(Unit) : g \o (Pending \o sb) \in Seq(Unit) /\ sb \in Seq(Unit)
      BY StreamTypes, ConcatProperties
    <3>3. \A s \in Seq(Unit) : Sealed(s, Bound) => Sealed(s, Bound') BY <3>1, SealedLater
    <3> QED BY <1>e, <2>1, <2>4, <3>2, <3>3, StreamTypes
  <2> QED BY <2>2, <2>3, <2>4
<1>3. CASE CtlPut
  <2>1. ctl.pc = "put" /\ ctl'.pc = "idle" /\ ctl'.n = ctl.n BY <1>3 DEF CtlPut, TypeOK, CtlState
  <2>2. sb' = sb \o ctl.pkt
    <3>1. SbSize \in Int /\ Len(sb) \in Int /\ Len(ctl.pkt) \in Int /\ ctl.pkt \in Seq(Unit)
      BY SizeAssumption, StreamTypes
    <3>2. SbSize - Len(sb) >= Len(ctl.pkt) BY <2>1 DEF NoPartialWrite
    <3>3. Least(Len(ctl.pkt), SbSize - Len(sb)) = Len(ctl.pkt) BY <3>1, <3>2 DEF Least
    <3>4. Prefix(ctl.pkt, Len(ctl.pkt)) = ctl.pkt BY <3>1, SubSeqFull DEF Prefix
    <3> QED BY <1>3, <3>3, <3>4 DEF CtlPut
  <2>3. Bound' = Bound + 1 /\ Bound = ctl.n - 1 /\ Bound \in Int BY <2>1, StreamTypes DEF Bound
  <2>4. Packet(ctl.pkt, Bound) BY <2>1, <2>3 DEF StreamInv
  <2>5. ctl.pkt \in Seq(Unit) /\ sb \in Seq(Unit) /\ Pending \in Seq(Unit) BY StreamTypes
  <2>6. \A s \in Seq(Unit) : Sealed(s, Bound) => Sealed(s \o ctl.pkt, Bound')
    BY <2>3, <2>4, <2>5, SealedAppend
  <2>7. ASSUME NEW g \in Seq(Unit), Sealed(g \o (Pending \o sb), Bound)
        PROVE  Sealed(g \o (Pending \o sb'), Bound')
    <3>1. Pending \o sb \in Seq(Unit) /\ g \o (Pending \o sb) \in Seq(Unit) BY <2>5, ConcatProperties
    <3>2. Pending \o (sb \o ctl.pkt) = (Pending \o sb) \o ctl.pkt BY <2>5, Joined, Zenon
    <3>3. g \o ((Pending \o sb) \o ctl.pkt) = (g \o (Pending \o sb)) \o ctl.pkt
      BY <2>5, <3>1, Joined, Zenon
    <3>4. Sealed((g \o (Pending \o sb)) \o ctl.pkt, Bound') BY <2>6, <2>7, <3>1
    <3> QED BY <2>2, <3>2, <3>3, <3>4
  <2>8. Sealed(sb, Bound) => Sealed(sb', Bound') BY <2>2, <2>5, <2>6
  <2> QED BY <1>e, <2>1, <2>7, <2>8
<1> QED BY <1>1, <1>2, <1>3

(* Hosts only connect, send and leave.                                     *)
LEMMA StreamHost ==
    TypeOK /\ HostInv /\ StreamInv /\ (\E c \in Conns : HostStep(c)) => StreamInv'
<1> SUFFICES ASSUME TypeOK, HostInv, StreamInv, NEW d \in Conns, HostStep(d) PROVE StreamInv' OBVIOUS
<1>1. UNCHANGED <<client_fd, rx, tx, sb, fdt, hosts, got, ctl>> BY DEF HostStep, hist
<1>2. \A c \in Conns : /\ sock'[c] # sock[c] => sock[c] = "none"
                       /\ host[c].peer = "gone" => host'[c].peer = "gone"
  <2>1. host[d] \in HostState BY DEF TypeOK
  <2>2. \A c \in Conns : sock'[c] # sock[c] => sock[c] = "none" BY DEF HostStep, TypeOK
  <2>3. \A c \in Conns : c # d => host'[c] = host[c] BY DEF HostStep, TypeOK
  <2>4. host[d].peer = "gone" => host'[d].peer = "gone" BY <2>1 DEF HostStep, TypeOK, HostState
  <2> QED BY <2>2, <2>3, <2>4
<1>3. \A c : Alive(c)' => Alive(c)
  <2>1. hosts \subseteq Conns BY StreamTypes
  <2> QED BY <1>1, <1>2, <2>1 DEF Alive, HostInv
<1>4. /\ Pending' = Pending /\ Bound' = Bound
      /\ Conn(client_fd)' = Conn(client_fd) /\ Conn(tx.fd)' = Conn(tx.fd)
  BY <1>1 DEF Pending, Bound, Conn
<1>5. client_fd' # NoFd /\ Alive(Conn(client_fd))'
        => Sealed((got[Conn(client_fd)] \o (Pending \o sb))', Bound')
  BY <1>1, <1>3, <1>4 DEF StreamInv, Alive
<1>6. tx'.pc = "send" /\ Alive(Conn(tx.fd))' => WholePackets((got[Conn(tx.fd)] \o tx.chunk)')
  BY <1>1, <1>3, <1>4 DEF StreamInv, Alive
<1>7. HostStreamWhole' BY <1>1 DEF StreamInv, HostStreamWhole
<1> QED BY <1>1, <1>4, <1>5, <1>6, <1>7 DEF StreamInv

(* bridge.zig 101, 217: the stream that a host which was given the radio   *)
(* reads is made of whole packets in the controller's order, from a packet *)
(* boundary on, however chunks end, are dropped, or hosts are replaced.    *)
THEOREM StreamsWhole == Spec => []HostStreamWhole
<1>1. StreamInv => HostStreamWhole BY DEF StreamInv
<1>2. Init => StreamInv
  BY DEF Init, StreamInv, HostStreamWhole, WholePackets
<1>3. StreamInv /\ UNCHANGED vars => StreamInv'
  BY DEF StreamInv, HostStreamWhole, Pending, Bound, Alive, Conn, vars, net, hist
<1>4. TypeOK /\ FdInv /\ ParkInv /\ HostInv /\ FailInv /\ NoPartialWrite /\ StreamInv /\ [Next]_vars
        => StreamInv'
  <2>1. Next <=> RxStep \/ TxStep \/ (CtlPacket \/ CtlSpace \/ CtlPut) \/ (\E c \in Conns : HostStep(c))
    BY DEF Next
  <2> QED BY <1>3, <2>1, StreamRx, StreamTx, StreamCtl, StreamHost, Zenon
<1> QED BY <1>1, <1>2, <1>4, TypeCorrect, FdAlways, ParkAlways, HostAlways, FailAlways, WholeWrites, PTL DEF Spec
=============================================================================
