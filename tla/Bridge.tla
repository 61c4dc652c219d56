------------------------------- MODULE Bridge -------------------------------
(***************************************************************************)
(* The ESP32 side of the bridge, firmware/main/bridge.zig with the socket  *)
(* and stream-buffer wrappers of firmware/main/glue.c.  Three threads of   *)
(* control share four atomics and one stream buffer:                       *)
(*                                                                         *)
(*   rx   - accepts, replaces and drops hosts, feeds the controller;       *)
(*   tx   - moves the stream buffer to the current host's socket;          *)
(*   ctl  - the controller task, which enqueues packets for the host.      *)
(*                                                                         *)
(* One action is one access to shared state: an atomic load, store or      *)
(* swap, a socket call, or a stream-buffer call.  Descriptors are numbers  *)
(* that the socket layer hands out again after a close; connections are    *)
(* the sockets behind them.  Packets are runs of units: a unit stands for  *)
(* the bytes between two places where a chunk may end.                     *)
(***************************************************************************)
EXTENDS Integers, Sequences, FiniteSets

CONSTANTS
    Conns,         \* connections ever made to the HCI port
    Fds,           \* descriptor numbers the socket layer can hand out
    NoConn,        \* what a free descriptor number refers to
    PktLens,       \* lengths, in units, of controller packets
    SbSize,        \* capacity of the stream buffer
    TxChunk,       \* most units one glue_sb_recv returns (tx_chunk)
    RxChunk,       \* most units one glue_recv returns (rx_chunk)
    HostPktLen,    \* length, in units, of a host-to-controller packet
    MaxPkts,       \* bound: packets the controller produces
    MaxHostUnits   \* bound: units each host sends

ASSUME FdsAssumption  == Fds \subseteq Nat
ASSUME ConnAssumption == NoConn \notin Conns
ASSUME SizeAssumption == /\ {SbSize, TxChunk, RxChunk, HostPktLen} \subseteq Nat \ {0}
                         /\ PktLens \subseteq Nat \ {0}
                         /\ {MaxPkts, MaxHostUnits} \subseteq Nat

VARIABLES
    client_fd, tx_pause, tx_idle, tx_failed,   \* the atomics of State
    sb,                  \* the stream buffer
    fdt, sock, host,     \* descriptor table, sockets, the hosts behind them
    rx, tx, ctl,         \* program counter and locals of the three tasks
    hosts, got, failed, last  \* history: see Properties

net  == <<fdt, sock>>
hist == <<hosts, got, failed, last>>
vars == <<client_fd, tx_pause, tx_idle, tx_failed, sb, net, host, rx, tx, ctl, hist>>

NoFd  == -1
FdVal == Fds \cup {NoFd}

(* A unit of packet pkt: the part-th of len.  born is the connection that  *)
(* was current when the controller task looked (line 96).                  *)
Unit == [pkt : Nat, part : Nat, len : Nat, born : Conns]

RxPc  == {"poll", "accept", "handshake", "swap", "shutdown", "unidle", "pause",
          "wait", "close", "clear", "drain", "publish", "unpause",
          "chkfail", "drop", "dropclose", "check", "recv", "feed"}

TxPc  == {"top", "park", "run", "recv", "client", "send", "fail"}

RxState   == [pc : RxPc, ready : SUBSET {1, 2}, client : FdVal, new : FdVal, old : FdVal,
              ret : {"poll", "check"}, left : Nat, re : Seq(Conns \cup {NoConn})]
TxState   == [pc : TxPc, chunk : Seq(Unit), fd : FdVal, conn : Conns \cup {NoConn}]
CtlState  == [pc : {"idle", "space", "put"}, pkt : Seq(Unit), n : Nat]
HostState == [peer : {"up", "stalled", "gone"}, inbox : Nat, sent : Nat]

TypeOK ==
    /\ client_fd \in FdVal
    /\ tx_pause \in BOOLEAN /\ tx_idle \in BOOLEAN /\ tx_failed \in BOOLEAN
    /\ sb \in Seq(Unit)
    /\ fdt \in [Fds -> Conns \cup {NoConn}]
    /\ sock \in [Conns -> {"none", "pending", "open", "shut", "closed"}]
    /\ host \in [Conns -> HostState]
    /\ rx \in RxState /\ tx \in TxState /\ ctl \in CtlState
    /\ hosts \in SUBSET Conns /\ failed \in SUBSET Conns
    /\ got \in [Conns -> Seq(Unit)] /\ last \in Seq(Conns \cup {NoConn})

Init ==
    /\ client_fd = NoFd
    /\ tx_pause = FALSE /\ tx_idle = FALSE /\ tx_failed = FALSE
    /\ sb = << >>
    /\ fdt = [f \in Fds |-> NoConn]
    /\ sock = [c \in Conns |-> "none"]
    /\ host = [c \in Conns |-> [peer |-> "up", inbox |-> 0, sent |-> 0]]
    /\ rx = [pc |-> "poll", ready |-> {}, client |-> NoFd, new |-> NoFd, old |-> NoFd,
             ret |-> "poll", left |-> 0, re |-> << >>]
    /\ tx = [pc |-> "top", chunk |-> << >>, fd |-> NoFd, conn |-> NoConn]
    /\ ctl = [pc |-> "idle", pkt |-> << >>, n |-> 0]
    /\ hosts = {} /\ failed = {}
    /\ got = [c \in Conns |-> << >>] /\ last = << >>

Conn(f)      == IF f \in Fds THEN fdt[f] ELSE NoConn
SockOpen(f)  == Conn(f) # NoConn /\ sock[Conn(f)] = "open"
Readable(f)  == Conn(f) # NoConn /\ (host[Conn(f)].inbox > 0 \/ host[Conn(f)].peer = "gone")
Least(a, b)  == IF a < b THEN a ELSE b
Prefix(s, n) == SubSeq(s, 1, n)
Drop(s, n)   == SubSeq(s, n + 1, Len(s))

(***************************************************************************)
(* Hosts and the network (external).  A connection waits in the listen     *)
(* backlog of one; a host sends once the handshake is over, stops reading  *)
(* once it has been served (a fresh socket's send buffer holds several     *)
(* chunks), or goes away.                                                  *)
(***************************************************************************)
HostStep(c) ==
    /\ \/ /\ sock[c] = "none" /\ \A d \in Conns : sock[d] # "pending"
          /\ sock' = [sock EXCEPT ![c] = "pending"]
          /\ UNCHANGED host
       \/ /\ sock[c] = "open" /\ ~(rx.pc = "handshake" /\ Conn(rx.new) = c)
          /\ host[c].peer # "gone" /\ host[c].sent < MaxHostUnits
          /\ host' = [host EXCEPT ![c].sent = @ + 1, ![c].inbox = @ + 1]
          /\ UNCHANGED sock
       \/ /\ sock[c] = "open" /\ c \in hosts /\ host[c].peer = "up"
          /\ host' = [host EXCEPT ![c].peer = "stalled"]
          /\ UNCHANGED sock
       \/ /\ sock[c] \in {"pending", "open"} /\ host[c].peer # "gone"
          /\ host' = [host EXCEPT ![c].peer = "gone"]
          /\ UNCHANGED sock
    /\ UNCHANGED <<client_fd, tx_pause, tx_idle, tx_failed, sb, fdt, rx, tx, ctl, hist>>

(***************************************************************************)
(* The rx task.  Its steps leave the hosts and the history alone unless    *)
(* they say otherwise.                                                     *)
(***************************************************************************)
(* The locals client and ready go out of scope when the loop starts over.  *)
Goto(l) == IF l = "poll" THEN [rx EXCEPT !.pc = l, !.ready = {}, !.client = NoFd]
                         ELSE [rx EXCEPT !.pc = l]

(* glue_close: shutdown, then the number is free again.                    *)
Close(f) == /\ fdt' = [fdt EXCEPT ![f] = NoConn]
            /\ sock' = [c \in Conns |-> IF c = Conn(f) THEN "closed" ELSE sock[c]]

(* Lines 142-149: snapshot the client, then select on both sockets.  One   *)
(* that fails (145-148) starts the loop over: nothing changes.             *)
RxPoll ==
    /\ rx.pc = "poll"
    /\ LET new == \E c \in Conns : sock[c] = "pending" IN
       rx' = [rx EXCEPT !.pc = IF new THEN "accept" ELSE "chkfail",
                        !.client = client_fd,
                        !.ready = (IF new THEN {1} ELSE {})
                                  \cup (IF Readable(client_fd) THEN {2} ELSE {})]
    /\ UNCHANGED <<client_fd, tx_pause, tx_idle, tx_failed, sb, net, host, tx, ctl, hist>>

(* Lines 179-180.  Any free number may be returned, and accept fails when  *)
(* none is: the HTTP and discovery sockets come from the same table.       *)
RxAccept ==
    /\ rx.pc = "accept"
    /\ \/ \E c \in Conns, f \in Fds :
            /\ sock[c] = "pending" /\ fdt[f] = NoConn
            /\ fdt' = [fdt EXCEPT ![f] = c]
            /\ sock' = [sock EXCEPT ![c] = "open"]
            /\ rx' = [rx EXCEPT !.pc = "handshake", !.new = f]
       \/ rx' = Goto("chkfail") /\ UNCHANGED net
    /\ UNCHANGED <<client_fd, tx_pause, tx_idle, tx_failed, sb, host, tx, ctl, hist>>

\* Mutant of Close in RxHandshakeFail: the rejected socket stays open.
RejectLeaks == UNCHANGED net
Reject == Close(rx.new)

(* Lines 183-187.  The exchange fails on a bad proof, a closed peer or the *)
(* deadline.                                                               *)
RxHandshakeFail ==
    /\ rx.pc = "handshake"
    /\ Reject
    /\ rx' = [rx EXCEPT !.pc = "chkfail", !.new = NoFd]
    /\ UNCHANGED <<client_fd, tx_pause, tx_idle, tx_failed, sb, host, tx, ctl, hist>>

(* The exchange waits for the peer, and tx has the same core and priority: *)
(* a tx task about to store tx_idle has stored it when the wait ends.      *)
RxHandshakeOk ==
    /\ rx.pc = "handshake"
    /\ tx.pc # "park"
    /\ rx' = Goto("swap")
    /\ UNCHANGED <<client_fd, tx_pause, tx_idle, tx_failed, sb, net, host, tx, ctl, hist>>

(* Line 189. *)
RxSwap ==
    /\ rx.pc = "swap"
    /\ rx' = [rx EXCEPT !.pc = "shutdown", !.old = client_fd]
    /\ client_fd' = NoFd
    /\ UNCHANGED <<tx_pause, tx_idle, tx_failed, sb, net, host, tx, ctl, hist>>

\* Mutants: the old socket is not shut down; the reassembler is not reset.
ShutdownSkipped(f) == sock
Shutdown(f) == [c \in Conns |-> IF c = Conn(f) THEN "shut" ELSE sock[c]]
ResetSkipped == rx.re
Reset == << >>

(* Lines 190-196: the shutdown fails a send that is blocked on the old     *)
(* host and keeps its number taken; the reassembler is reset.              *)
RxShutdown ==
    /\ rx.pc = "shutdown"
    /\ sock' = Shutdown(rx.old)
    /\ rx' = [rx EXCEPT !.pc = "unidle", !.re = Reset]
    /\ UNCHANGED <<client_fd, tx_pause, tx_idle, tx_failed, sb, fdt, host, tx, ctl, hist>>

\* Mutant: tx_idle keeps the value of the previous round.
UnidleSkipped == tx_idle
Unidle == FALSE

(* Lines 197-199. *)
RxUnidle ==
    /\ rx.pc = "unidle"
    /\ tx_idle' = Unidle
    /\ rx' = Goto("pause")
    /\ UNCHANGED <<client_fd, tx_pause, tx_failed, sb, net, host, tx, ctl, hist>>

RxPause ==
    /\ rx.pc = "pause"
    /\ tx_pause' = TRUE
    /\ rx' = Goto("wait")
    /\ UNCHANGED <<client_fd, tx_idle, tx_failed, sb, net, host, tx, ctl, hist>>

RxWait ==
    /\ rx.pc = "wait"
    /\ tx_idle
    /\ rx' = Goto("close")
    /\ UNCHANGED <<client_fd, tx_pause, tx_idle, tx_failed, sb, net, host, tx, ctl, hist>>

(* Line 200. *)
RxCloseOld ==
    /\ rx.pc = "close"
    /\ IF rx.old = NoFd THEN UNCHANGED net ELSE Close(rx.old)
    /\ rx' = Goto("clear")
    /\ UNCHANGED <<client_fd, tx_pause, tx_idle, tx_failed, sb, host, tx, ctl, hist>>

\* Mutant: a failure reported for the old host survives.
ClearSkipped == tx_failed
Clear == FALSE

(* Line 201. *)
RxClearFailed ==
    /\ rx.pc = "clear"
    /\ tx_failed' = Clear
    /\ rx' = Goto("drain")
    /\ UNCHANGED <<client_fd, tx_pause, tx_idle, sb, net, host, tx, ctl, hist>>

(* glue_sb_recv: up to one chunk leaves the stream buffer for tx_chunk.    *)
SbRecv(pc) == LET n == Least(TxChunk, Len(sb)) IN
              /\ sb' = Drop(sb, n)
              /\ tx' = [tx EXCEPT !.pc = pc, !.chunk = Prefix(sb, n)]

\* Mutant: one chunk is thrown away, the rest stays.
DrainOnce == IF sb = << >> THEN rx' = Goto("publish") /\ UNCHANGED <<sb, tx>>
                           ELSE rx' = Goto("publish") /\ SbRecv(tx.pc)
(* drainStreamBuffer, one glue_sb_recv per step (lines 219-222).           *)
Drain == IF sb = << >> THEN rx' = Goto("publish") /\ UNCHANGED <<sb, tx>>
                       ELSE rx' = Goto("drain") /\ SbRecv(tx.pc)

RxDrain ==
    /\ rx.pc = "drain"
    /\ Drain
    /\ UNCHANGED <<client_fd, tx_pause, tx_idle, tx_failed, net, host, ctl, hist>>

(* Lines 203-204. *)
RxPublish ==
    /\ rx.pc = "publish"
    /\ client_fd' = rx.new
    /\ hosts' = hosts \cup ({Conn(rx.new)} \cap Conns)
    /\ rx' = Goto("unpause")
    /\ UNCHANGED <<tx_pause, tx_idle, tx_failed, sb, net, host, tx, ctl,
                   got, failed, last>>

RxUnpause ==
    /\ rx.pc = "unpause"
    /\ tx_pause' = FALSE
    /\ rx' = [rx EXCEPT !.pc = "chkfail", !.new = NoFd, !.old = NoFd]
    /\ UNCHANGED <<client_fd, tx_idle, tx_failed, sb, net, host, tx, ctl, hist>>

(* Line 150: tx_failed.swap, then dropClient.                              *)
RxCheckFailed ==
    /\ rx.pc = "chkfail"
    /\ tx_failed' = FALSE
    /\ rx' = [rx EXCEPT !.pc = IF tx_failed THEN "drop" ELSE "check", !.ret = "check"]
    /\ UNCHANGED <<client_fd, tx_pause, tx_idle, sb, net, host, tx, ctl, hist>>

(* dropClient: swap (line 210), then close without parking tx (line 212).  *)
RxDrop ==
    /\ rx.pc = "drop"
    /\ client_fd' = NoFd
    /\ rx' = IF client_fd = NoFd THEN Goto(rx.ret)
             ELSE [rx EXCEPT !.pc = "dropclose", !.old = client_fd]
    /\ UNCHANGED <<tx_pause, tx_idle, tx_failed, sb, net, host, tx, ctl, hist>>

RxDropClose ==
    /\ rx.pc = "dropclose"
    /\ Close(rx.old)
    /\ rx' = [Goto(rx.ret) EXCEPT !.old = NoFd]
    /\ UNCHANGED <<client_fd, tx_pause, tx_idle, tx_failed, sb, host, tx, ctl, hist>>

\* Mutant: the client is not looked up again after accepting.
SameClientAssumed == rx.client # NoFd
SameClient == rx.client # NoFd /\ client_fd = rx.client

(* Line 152. *)
RxCheckClient ==
    /\ rx.pc = "check"
    /\ rx' = Goto(IF 2 \in rx.ready /\ SameClient THEN "recv" ELSE "poll")
    /\ UNCHANGED <<client_fd, tx_pause, tx_idle, tx_failed, sb, net, host, tx, ctl, hist>>

\* Mutant: the whole buffer is taken for what recv returned.
RecvWholeBuffer(c) == IF host[c].inbox = 0 THEN 0 ELSE RxChunk
RecvCount(c) == Least(RxChunk, host[c].inbox)

(* Lines 153-158: a blocking recv on the polled descriptor; 0 is its end.  *)
RxRecv ==
    /\ rx.pc = "recv"
    /\ Readable(rx.client)
    /\ LET c == Conn(rx.client)
           n == RecvCount(c)
       IN  /\ host' = [host EXCEPT ![c].inbox = @ - n]
           /\ rx' = [rx EXCEPT !.pc = IF n = 0 THEN "drop" ELSE "feed",
                               !.left = n, !.ret = "poll"]
    /\ UNCHANGED <<client_fd, tx_pause, tx_idle, tx_failed, sb, net, tx, ctl, hist>>

(* Lines 159-168: one feed consumes up to the end of a packet, which       *)
(* sendToController hands over or, after send_wait_ms, drops (224-237).    *)
RxFeed ==
    /\ rx.pc = "feed"
    /\ LET n    == Least(rx.left, HostPktLen - Len(rx.re))
           buf  == rx.re \o [i \in 1..n |-> Conn(rx.client)]
           done == Len(buf) = HostPktLen
       IN  /\ rx' = [Goto(IF n = rx.left THEN "poll" ELSE "feed")
                       EXCEPT !.left = rx.left - n, !.re = IF done THEN << >> ELSE buf]
           /\ last' \in IF done THEN {buf, last} ELSE {last}
    /\ UNCHANGED <<client_fd, tx_pause, tx_idle, tx_failed, sb, net, host, tx, ctl,
                   hosts, got, failed>>

(* Lines 160-165: a stream that is not H4.                                 *)
RxFeedError ==
    /\ rx.pc = "feed"
    /\ rx' = [rx EXCEPT !.pc = "drop", !.re = << >>, !.left = 0]
    /\ UNCHANGED <<client_fd, tx_pause, tx_idle, tx_failed, sb, net, host, tx, ctl, hist>>

RxStep == \/ RxPoll \/ RxAccept \/ RxHandshakeFail \/ RxHandshakeOk \/ RxSwap
          \/ RxShutdown \/ RxUnidle \/ RxPause \/ RxWait \/ RxCloseOld
          \/ RxClearFailed \/ RxDrain \/ RxPublish \/ RxUnpause \/ RxCheckFailed
          \/ RxDrop \/ RxDropClose \/ RxCheckClient \/ RxRecv \/ RxFeed \/ RxFeedError

(***************************************************************************)
(* The tx task.                                                            *)
(***************************************************************************)
TxGoto(l) == [tx EXCEPT !.pc = l]
(* The local client goes out of scope when the loop starts over.           *)
TxAgain   == [tx EXCEPT !.pc = "top", !.fd = NoFd, !.conn = NoConn]

(* Lines 246-251. *)
TxTop ==
    /\ tx.pc = "top"
    /\ tx' = TxGoto(IF tx_pause THEN "park" ELSE "run")
    /\ UNCHANGED <<client_fd, tx_pause, tx_idle, tx_failed, sb, net, host, rx, ctl, hist>>

TxPark ==
    /\ tx.pc = "park"
    /\ tx_idle' = TRUE
    /\ tx' = TxGoto("top")
    /\ UNCHANGED <<client_fd, tx_pause, tx_failed, sb, net, host, rx, ctl, hist>>

TxRun ==
    /\ tx.pc = "run"
    /\ tx_idle' = FALSE
    /\ tx' = TxGoto("recv")
    /\ UNCHANGED <<client_fd, tx_pause, tx_failed, sb, net, host, rx, ctl, hist>>

(* Lines 252-253: up to one chunk, or nothing after 100 ms.                *)
TxRecv ==
    /\ tx.pc = "recv"
    /\ IF sb = << >> THEN tx' = TxGoto("top") /\ UNCHANGED sb ELSE SbRecv("client")
    /\ UNCHANGED <<client_fd, tx_pause, tx_idle, tx_failed, net, host, rx, ctl, hist>>

(* Lines 255-259: the client is read after the wait.                       *)
TxClient ==
    /\ tx.pc = "client"
    /\ tx' = IF client_fd = NoFd THEN TxGoto("top")
             ELSE [tx EXCEPT !.pc = "send", !.fd = client_fd, !.conn = Conn(client_fd)]
    /\ UNCHANGED <<client_fd, tx_pause, tx_idle, tx_failed, sb, net, host, rx, ctl, hist>>

(* glue_send, one send() on whatever socket the number refers to now.  It  *)
(* blocks while a host that stopped reading is neither shut nor closed.    *)
(* What a departed host is sent, nobody reads.                             *)
TxSend ==
    /\ tx.pc = "send"
    /\ SockOpen(tx.fd) /\ host[Conn(tx.fd)].peer # "stalled"
    /\ \E n \in 1..Len(tx.chunk) :
         LET c == Conn(tx.fd) IN
         /\ tx' = [(IF n = Len(tx.chunk) THEN TxAgain ELSE tx)
                     EXCEPT !.chunk = Drop(tx.chunk, n)]
         /\ got' = IF c \in hosts /\ host[c].peer # "gone"
                   THEN [got EXCEPT ![c] = @ \o Prefix(tx.chunk, n)] ELSE got
    /\ UNCHANGED <<client_fd, tx_pause, tx_idle, tx_failed, sb, net, host, rx, ctl,
                   hosts, failed, last>>

TxSendError ==
    /\ tx.pc = "send"
    /\ ~(SockOpen(tx.fd) /\ host[Conn(tx.fd)].peer # "gone")
    /\ failed' = failed \cup ({tx.conn} \cap Conns)
    /\ tx' = TxGoto("fail")
    /\ UNCHANGED <<client_fd, tx_pause, tx_idle, tx_failed, sb, net, host, rx, ctl,
                   hosts, got, last>>

(* Line 261. *)
TxFail ==
    /\ tx.pc = "fail"
    /\ tx_failed' = TRUE
    /\ tx' = TxAgain
    /\ UNCHANGED <<client_fd, tx_pause, tx_idle, sb, net, host, rx, ctl, hist>>

TxStep == \/ TxTop \/ TxPark \/ TxRun \/ TxRecv \/ TxClient
          \/ TxSend \/ TxSendError \/ TxFail

(***************************************************************************)
(* The controller task: bridge_on_controller_packet.                       *)
(***************************************************************************)
(* Line 96: a packet is kept only when there is a host.                    *)
CtlPacket ==
    /\ ctl.pc = "idle" /\ ctl.n < MaxPkts
    /\ client_fd # NoFd
    /\ \E l \in PktLens, c \in Conns \cap {Conn(client_fd)} :
         ctl' = [pc |-> "space", n |-> ctl.n + 1,
                 pkt |-> [i \in 1..l |-> [pkt |-> ctl.n, part |-> i, len |-> l, born |-> c]]]
    /\ UNCHANGED <<client_fd, tx_pause, tx_idle, tx_failed, sb, net, host, rx, tx, hist>>

\* Mutant: a packet one unit too long passes the space check.
FitsOffByOne == SbSize - Len(sb) + 1 >= Len(ctl.pkt)
Fits == SbSize - Len(sb) >= Len(ctl.pkt)

(* Lines 102-105: too little space drops the packet.                       *)
CtlSpace ==
    /\ ctl.pc = "space"
    /\ ctl' = IF Fits THEN [ctl EXCEPT !.pc = "put"]
                      ELSE [ctl EXCEPT !.pc = "idle", !.pkt = << >>]
    /\ UNCHANGED <<client_fd, tx_pause, tx_idle, tx_failed, sb, net, host, rx, tx, hist>>

(* Line 106: glue_sb_send without waiting writes what fits.                *)
CtlPut ==
    /\ ctl.pc = "put"
    /\ sb' = sb \o Prefix(ctl.pkt, Least(Len(ctl.pkt), SbSize - Len(sb)))
    /\ ctl' = [ctl EXCEPT !.pc = "idle", !.pkt = << >>]
    /\ UNCHANGED <<client_fd, tx_pause, tx_idle, tx_failed, net, host, rx, tx, hist>>

Next == \/ RxStep \/ TxStep
        \/ CtlPacket \/ CtlSpace \/ CtlPut
        \/ \E c \in Conns : HostStep(c)

Spec == Init /\ [][Next]_vars

(* Both tasks are scheduled: FreeRTOS runs ready tasks of equal priority   *)
(* round robin, and neither waits without a timeout except on a socket.    *)
FairSpec == Spec /\ WF_vars(RxStep) /\ WF_vars(TxStep)

-----------------------------------------------------------------------------
(* Properties.  hosts are the connections ever published as the client,    *)
(* got what each of them was sent since, failed those a send failed on,    *)
(* last the connection of each unit of the last packet that the controller *)
(* was given.                                                              *)

(* While acceptClient holds tx paused - from the moment it has seen        *)
(* tx_idle until it stores tx_pause = false - the tx task is between its   *)
(* loop top and its idle store.  The stream buffer then has one reader,    *)
(* tx_chunk one user, and the old descriptor no user (lines 199-204).      *)
Draining == {"close", "clear", "drain", "publish", "unpause"}
TxParkedWhileDraining == rx.pc \in Draining => tx.pc \in {"top", "park"} /\ tx_pause

(* A host that was given the radio reads whole controller packets, in the  *)
(* order the controller produced them, from a packet boundary on: chunks   *)
(* that end inside a packet, dropped chunks and replaced hosts never make  *)
(* its stream start or continue in the middle of a packet (lines 101, 217).*)
Follows(u, v) == \/ v.pkt = u.pkt /\ v.part = u.part + 1
                 \/ u.part = u.len /\ v.part = 1 /\ v.pkt > u.pkt
WholePackets(s) == /\ s # << >> => s[1].part = 1
                   /\ \A i \in 1..(Len(s) - 1) : Follows(s[i], s[i + 1])
HostStreamWhole == \A c \in Conns : WholePackets(got[c])

(* "send failed" drops only a host on which a send did fail: a failure     *)
(* that tx reports late, after its host is gone, never costs the next host *)
(* its connection (lines 150, 201, 261).                                   *)
FailureIsOwn ==
    rx.pc = "drop" /\ rx.ret = "check" /\ client_fd # NoFd => Conn(client_fd) \in failed

(* The rx task, which feeds the watchdog, never blocks in recv: what it    *)
(* polled readable is still the socket behind that number when it reads,   *)
(* although accepting may have replaced the client meanwhile (line 151).   *)
RecvNeverBlocks == rx.pc = "recv" => Readable(rx.client)

(* Every packet the controller is given comes from one host: the tail of a *)
(* departed host's half packet never joins the next host's bytes (196).    *)
OneHostPerPacket == \A i \in 1..Len(last) : last[i] = last[1] /\ last[i] \in hosts

(* No descriptor leaks and none is closed twice: each number in use is the *)
(* client's, or one that rx is about to hand over or close.                *)
Held == (IF rx.pc \in {"handshake", "swap", "shutdown", "unidle", "pause", "wait",
                       "close", "clear", "drain", "publish"} THEN {rx.new} ELSE {})
        \cup (IF rx.pc \in {"shutdown", "unidle", "pause", "wait", "close", "dropclose"}
              THEN {rx.old} ELSE {})
FdsAccounted == {f \in Fds : fdt[f] # NoConn} = (Held \cup {client_fd}) \ {NoFd}

(* A controller packet that passed the space check is written whole, though*)
(* the check and the write are separate calls (lines 101-106).             *)
NoPartialWrite == ctl.pc = "put" => SbSize - Len(sb) >= Len(ctl.pkt)

(* An authenticated host is served: acceptClient's wait for tx ends, even  *)
(* when tx is blocked sending to a host that stopped reading (192-199).    *)
AcceptCompletes == rx.pc = "swap" ~> rx.pc = "poll"

(* "otherwise bytes of the previous host could leak into the new           *)
(* connection" (lines 64-66): a host reads only packets that the           *)
(* controller produced while it was the client.                            *)
NoCrossHostLeak == \A c \in Conns : \A i \in 1..Len(got[c]) : got[c][i].born = c
=============================================================================
