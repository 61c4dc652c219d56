------------------------------ MODULE Handshake -----------------------------
(***************************************************************************)
(* The exchange that opens every HCI connection: auth_handshake of         *)
(* firmware/main/auth.c in the rx task of the board, and client of         *)
(* host/handshake.zig in a thread of the daemon.                           *)
(*     board -> host : sn                                                  *)
(*     host -> board : cn, MAC(psk, sn, cn, "client")                      *)
(*     board -> host : MAC(psk, cn, sn, "board")                           *)
(* Each side has its own deadline.  Meanwhile the board's HTTP task may    *)
(* erase the key, and the board may restart.  A host may reach a machine   *)
(* that only has the board's address, and the board one that is no host:   *)
(* the mimic, which has no key and can repeat what it has heard.  The      *)
(* zeros that an erased key leaves are no secret: it makes proofs of them. *)
(***************************************************************************)
EXTENDS Integers, Sequences

CONSTANTS
    Hosts,      \* the daemons
    Keyed,      \* those that hold the board's key; the others hold an old one
    Mimic,      \* a peer without a key
    NoOne,
    Deadline,   \* both deadlines, in units of time
    Grain,      \* units in a millisecond, the grain of timeouts
    MaxConns,   \* bound: connections
    MaxRestarts \* bound: restarts of the board

ASSUME HandshakeAssumption ==
    /\ Keyed \subseteq Hosts /\ Mimic \notin Hosts /\ NoOne \notin Hosts \cup {Mimic}
    /\ "board" \notin {Mimic, NoOne}
    /\ Grain \in Nat \ {0} /\ Deadline \in Nat /\ Deadline >= Grain
    /\ MaxConns \in Nat /\ MaxRestarts \in Nat

VARIABLES
    board,    \* g_psk, g_claimed, and restarts so far
    rx,       \* auth_handshake in the rx task
    host,     \* client in each daemon
    conn,     \* the connections: their ends and what is under way on them
    queue,    \* connections the board has not accepted yet
    nonces,   \* random values drawn so far
    heard,    \* everything that was ever sent
    begun, proved, finished,  \* exchanges a host answered, the board proved, a host ended
    bad,      \* connections on which a proof did not verify
    late      \* what the board proved after g_claimed was cleared

vars == <<board, rx, host, conn, queue, nonces, heard, begun, proved, finished, bad, late>>

Conns  == 1..MaxConns
Nonces == 0..2 * MaxConns       \* 0 is the mimic's
Key    == "key"
Zero   == "zero"                \* what memset leaves
Keys   == {Key, Zero, "old"}
Macs   == [k : Keys, a : Nonces, b : Nonces, dom : {"client", "board"}]
Parts  == [nonce : Nonces] \cup [mac : Macs]
Runs   == [c : Conns, k : Keys, sn : Nonces, cn : Nonces]

Psk(h) == IF h \in Keyed THEN Key ELSE "old"

-----------------------------------------------------------------------------
(* How long a receive waits with l left until the deadline; 0 is not at    *)
(* all.                                                                    *)

\* if (left <= 0) in recv_exact and in readAllBy.
Expired(l) == l <= 0

\* Whole milliseconds: External in SO_RCVTIMEO of lwIP, toMilliseconds in Zig.
Whole(l) == l - (l % Grain)

Never == Deadline + 1

\* recv_exact sets SO_RCVTIMEO to what is left.  A timeout of less than a
\* millisecond is none: line 154 relies on it to wait for ever again.
RxTimeout(l)   == IF Expired(l) THEN 0 ELSE IF l < Grain THEN Never ELSE Whole(l)
\* readAllBy gives up when no whole millisecond is left.
HostTimeout(l) == IF l < Grain THEN 0 ELSE Whole(l)

-----------------------------------------------------------------------------
NoConn == [own |-> NoOne, to |-> NoOne, up |-> <<>>, dn |-> <<>>,
           upEnd |-> FALSE, dnEnd |-> FALSE]

(* left is what a side has until its deadline, spent the time since its    *)
(* start, up to one unit beyond the deadline.  The present receive has     *)
(* "wait" to go; the board's began at "at".                                *)
Beyond == Deadline + 1
Resting(pc) == [pc |-> pc, c |-> 0, sn |-> 0, cn |-> 0,
                left |-> Deadline, spent |-> 0, at |-> 0, wait |-> Whole(Deadline)]

RxPc   == {"idle", "nonce", "mac", "prove"}
HostPc == {"off", "nonce", "proof", "done"}
Side(pcs) == [pc : pcs, c : 0..MaxConns, sn : Nonces, cn : Nonces,
              left : 0..Deadline, spent : 0..Beyond, at : 0..Beyond, wait : 0..Never]

TypeOK ==
    /\ board \in [psk : Keys, claimed : BOOLEAN, restarts : 0..MaxRestarts]
    /\ rx \in Side(RxPc) /\ host \in [Hosts -> Side(HostPc)]
    /\ conn \in [Conns -> [own : Hosts \cup {Mimic, NoOne}, to : {"board", Mimic, NoOne},
                           up : Seq(Parts), dn : Seq(Parts),
                           upEnd : BOOLEAN, dnEnd : BOOLEAN]]
    /\ queue \in Seq(Conns) /\ nonces \in Nonces
    /\ heard \subseteq Parts /\ bad \subseteq Conns
    /\ begun \subseteq Runs /\ proved \subseteq Runs /\ finished \subseteq Runs
    /\ late \subseteq Runs

Init ==
    /\ board = [psk |-> Key, claimed |-> TRUE, restarts |-> 0]
    /\ rx = Resting("idle") /\ host = [h \in Hosts |-> Resting("off")]
    /\ conn = [c \in Conns |-> NoConn] /\ queue = <<>>
    /\ nonces = 0 /\ heard = {}
    /\ begun = {} /\ proved = {} /\ finished = {} /\ bad = {} /\ late = {}

Nonce(n) == [nonce |-> n]
Proof(m) == [mac |-> m]
History == <<begun, proved, finished, bad, late>>

-----------------------------------------------------------------------------
(* The proofs, made once in Zig (clientMac, boardMac) and once in C.       *)
Mac(k, a, b, dom) == [k |-> k, a |-> a, b |-> b, dom |-> dom]

\* Mutant: the host puts its own nonce first.
ClientMacSwapped(k, sn, cn) == Mac(k, cn, sn, "client")
ClientMac(k, sn, cn) == Mac(k, sn, cn, "client")
BoardExpects(k, sn, cn) == Mac(k, sn, cn, "client")

BoardProves(k, sn, cn) == Mac(k, cn, sn, "board")
\* Mutant: one proof for both directions.
BoardMacUndirected(k, sn, cn) == Mac(k, sn, cn, "client")
BoardMac(k, sn, cn) == Mac(k, cn, sn, "board")

-----------------------------------------------------------------------------
(* Opening a connection: to the board, where it waits to be accepted, or   *)
(* to another machine at its address.                                      *)
Open(own, to, c) ==
    /\ conn[c].own = NoOne /\ \A d \in 1..(c - 1) : conn[d].own # NoOne
    /\ conn' = [conn EXCEPT ![c].own = own, ![c].to = to]
    /\ queue' = IF to = "board" THEN Append(queue, c) ELSE queue

(* board.zig 33-39, handshake.zig 47-48: the deadline counts from here.    *)
Connect(h, c) ==
    /\ host[h].pc = "off"
    /\ \E to \in {"board", Mimic} : Open(h, to, c)
    /\ host' = [host EXCEPT ![h] = [Resting("nonce") EXCEPT !.c = c]]
    /\ UNCHANGED <<board, rx, nonces, heard, History>>

MimicOpen(c) ==
    /\ Open(Mimic, "board", c)
    /\ UNCHANGED <<board, rx, host, nonces, heard, History>>

(* It sends a nonce of its own, anything it has heard, or to the board the *)
(* proof that is due made with the zero key (any other one it makes is     *)
(* refused, and no host has that key), one part at a time.  (A proof sent  *)
(* where a nonce is due would be a nonce nobody knows the use of, as its   *)
(* own is.)                                                                *)
Known     == heard \cup {Nonce(0)}
ZeroProof == Proof(ClientMac(Zero, rx.sn, rx.cn))
MimicSend(c) ==
    /\ \/ /\ conn[c].own = Mimic /\ conn[c].up = <<>>
          /\ \E v \in Known \cup {ZeroProof} : conn' = [conn EXCEPT ![c].up = <<v>>]
       \/ /\ conn[c].to = Mimic /\ conn[c].dn = <<>>
          /\ \E v \in Known : conn' = [conn EXCEPT ![c].dn = <<v>>]
    /\ UNCHANGED <<board, rx, host, queue, nonces, heard, History>>

-----------------------------------------------------------------------------
(* client, handshake.zig 47-66.  readAllBy takes one part per step.        *)
DnHead(h) == Head(conn[host[h].c].dn)
HasDn(h)  == conn[host[h].c].dn # <<>>

(* board.run closes the stream whenever client fails (line 34).            *)
HostLeft(h) == host' = [host EXCEPT ![h] = Resting("off")]

HostNonce(h) ==
    LET c == host[h].c
        cn == nonces + 1 IN
    /\ host[h].pc = "nonce" /\ host[h].wait # 0 /\ HasDn(h)
    /\ "nonce" \in DOMAIN DnHead(h)
    /\ LET sn == DnHead(h).nonce
           ps == <<Nonce(cn), Proof(ClientMac(Psk(h), sn, cn))>> IN
       /\ host' = [host EXCEPT ![h].pc = "proof", ![h].sn = sn, ![h].cn = cn,
                               ![h].wait = HostTimeout(host[h].left)]
       /\ conn' = [conn EXCEPT ![c].dn = Tail(@), ![c].up = @ \o ps]
       /\ heard' = heard \cup {ps[1], ps[2]}
       /\ begun' = begun \cup {[c |-> c, k |-> Psk(h), sn |-> sn, cn |-> cn]}
    /\ nonces' = cn
    /\ UNCHANGED <<board, rx, queue, proved, finished, bad, late>>

HostProof(h) ==
    LET c == host[h].c
        ok == DnHead(h) = Proof(BoardMac(Psk(h), host[h].sn, host[h].cn)) IN
    /\ host[h].pc = "proof" /\ host[h].wait # 0 /\ HasDn(h)
    /\ \/ /\ ok
          /\ host' = [host EXCEPT ![h].pc = "done"]
          /\ finished' = finished \cup {[c |-> c, k |-> Psk(h), sn |-> host[h].sn,
                                         cn |-> host[h].cn]}
          /\ conn' = [conn EXCEPT ![c].dn = Tail(@)] /\ UNCHANGED bad
       \/ /\ ~ok
          /\ HostLeft(h) /\ bad' = bad \cup {c}
          /\ conn' = [conn EXCEPT ![c].dn = Tail(@), ![c].upEnd = TRUE]
          /\ UNCHANGED finished
    /\ UNCHANGED <<board, rx, queue, nonces, heard, begun, proved, late>>

(* The deadline, the end of the stream, and later the end of the session.  *)
HostEnd(h) ==
    /\ \/ /\ host[h].pc \in {"nonce", "proof"}
          /\ host[h].wait = 0 \/ (~HasDn(h) /\ conn[host[h].c].dnEnd)
       \/ host[h].pc = "done"
    /\ HostLeft(h)
    /\ conn' = [conn EXCEPT ![host[h].c].upEnd = TRUE]
    /\ UNCHANGED <<board, rx, queue, nonces, heard, History>>

-----------------------------------------------------------------------------
(* auth_handshake, auth.c 118-157, called from acceptClient.               *)
HasUp  == conn[rx.c].up # <<>>
UpHead == Head(conn[rx.c].up)

\* Mutant: the nonce is drawn once and kept.
ServerNonceKept == 1
ServerNonce == nonces + 1

\* Mutant: the key alone is looked at.
ServesAlways == TRUE
\* if (!g_claimed), line 149.
Serves == board.claimed

(* An unclaimed board closes at once; a claimed one sends its nonce.       *)
RxAccept ==
    /\ rx.pc = "idle" /\ queue # <<>>
    /\ queue' = Tail(queue)
    /\ LET c == Head(queue)
           sn == ServerNonce IN
       \/ /\ Serves
          /\ rx' = [Resting("nonce") EXCEPT !.c = c, !.sn = sn]
          /\ conn' = [conn EXCEPT ![c].dn = Append(@, Nonce(sn))]
          /\ heard' = heard \cup {Nonce(sn)} /\ nonces' = nonces + 1
       \/ /\ ~Serves
          /\ conn' = [conn EXCEPT ![c].dnEnd = TRUE]
          /\ UNCHANGED <<rx, heard, nonces>>
    /\ UNCHANGED <<board, host, History>>

\* Mutant: each receive gets the whole time again.
LeftRenewed(l) == Deadline
Left(l) == l

(* recv_exact may get the message in pieces; the deadline is one for all.  *)
(* It is looked at before each receive and not after the last one.         *)
RxNonce ==
    /\ rx.pc = "nonce" /\ rx.wait # 0 /\ HasUp /\ "nonce" \in DOMAIN UpHead
    /\ rx' = [rx EXCEPT !.pc = "mac", !.cn = UpHead.nonce, !.left = Left(@),
                        !.wait = RxTimeout(Left(rx.left)), !.at = rx.spent]
    /\ conn' = [conn EXCEPT ![rx.c].up = Tail(@)]
    /\ UNCHANGED <<board, host, queue, nonces, heard, History>>

RxMac ==
    LET ok == UpHead = Proof(BoardExpects(board.psk, rx.sn, rx.cn)) IN
    /\ rx.pc = "mac" /\ rx.wait # 0 /\ HasUp
    /\ \/ /\ ok
          /\ rx' = [rx EXCEPT !.pc = "prove"]
          /\ conn' = [conn EXCEPT ![rx.c].up = Tail(@)] /\ UNCHANGED bad
       \/ /\ ~ok
          /\ rx' = Resting("idle") /\ bad' = bad \cup {rx.c}
          /\ conn' = [conn EXCEPT ![rx.c].up = Tail(@), ![rx.c].dnEnd = TRUE]
    /\ UNCHANGED <<board, host, queue, nonces, heard, begun, proved, finished, late>>

(* g_psk is read a second time.  The connection now has the radio.         *)
RxProve ==
    LET m == Proof(BoardProves(board.psk, rx.sn, rx.cn))
        p == [c |-> rx.c, k |-> board.psk, sn |-> rx.sn, cn |-> rx.cn] IN
    /\ rx.pc = "prove"
    /\ conn' = [conn EXCEPT ![rx.c].dn = Append(@, m)]
    /\ heard' = heard \cup {m}
    /\ proved' = proved \cup {p}
    /\ late' = IF board.claimed THEN late ELSE late \cup {p}
    /\ rx' = Resting("idle")
    /\ UNCHANGED <<board, host, queue, nonces, begun, finished, bad>>

(* recv_exact gives up, or hmac_parts or the last send fails.              *)
RxEnd ==
    /\ \/ rx.pc \in {"nonce", "mac"} /\ (rx.wait = 0 \/ (~HasUp /\ conn[rx.c].upEnd))
       \/ rx.pc = "mac" /\ HasUp
       \/ rx.pc = "prove"
    /\ rx' = Resting("idle")
    /\ conn' = [conn EXCEPT ![rx.c].dnEnd = TRUE]
    /\ UNCHANGED <<board, host, queue, nonces, heard, History>>

-----------------------------------------------------------------------------
(* auth_unclaim in the HTTP task: the key, then the flag (295-296).        *)
Erase ==
    /\ board.psk = Key /\ board' = [board EXCEPT !.psk = Zero]
    /\ UNCHANGED <<rx, host, conn, queue, nonces, heard, History>>

Unflag ==
    /\ board.psk = Zero /\ board.claimed /\ board' = [board EXCEPT !.claimed = FALSE]
    /\ UNCHANGED <<rx, host, conn, queue, nonces, heard, History>>

(* A restart ends every connection; auth_init reads what flash has.        *)
Restart ==
    /\ board.restarts < MaxRestarts
    /\ board' = [board EXCEPT !.restarts = @ + 1, !.claimed = board.psk = Key]
    /\ rx' = Resting("idle") /\ queue' = <<>>
    /\ conn' = [c \in Conns |-> IF conn[c].to = "board" THEN [conn[c] EXCEPT !.dnEnd = TRUE]
                                                         ELSE conn[c]]
    /\ UNCHANGED <<host, nonces, heard, History>>

(* Time passes for whoever waits; a timeout that has come is acted upon,   *)
(* and the computations between two receives take no time worth counting.  *)
(* A receive without a timeout can wait past the deadline.                 *)
Aged(s) == [s EXCEPT !.left  = IF @ = 0 THEN 0 ELSE @ - 1,
                     !.spent = IF @ = Beyond THEN Beyond ELSE @ + 1,
                     !.wait  = IF @ = Never THEN Never ELSE @ - 1]
RxWaits      == rx.pc \in {"nonce", "mac"}
HostWaits(h) == host[h].pc \in {"nonce", "proof"}

Tick ==
    /\ rx.pc # "prove" /\ (RxWaits => rx.wait # 0)
    /\ \A h \in Hosts : HostWaits(h) => host[h].wait # 0
    /\ RxWaits \/ \E h \in Hosts : HostWaits(h)
    /\ rx' = IF RxWaits THEN Aged(rx) ELSE rx
    /\ host' = [h \in Hosts |-> IF HostWaits(h) THEN Aged(host[h]) ELSE host[h]]
    /\ UNCHANGED <<board, conn, queue, nonces, heard, History>>

Next ==
    \/ \E c \in Conns : (\E h \in Hosts : Connect(h, c)) \/ MimicOpen(c) \/ MimicSend(c)
    \/ \E h \in Hosts : HostNonce(h) \/ HostProof(h) \/ HostEnd(h)
    \/ RxAccept \/ RxNonce \/ RxMac \/ RxProve \/ RxEnd
    \/ Erase \/ Unflag \/ Restart \/ Tick

Spec == Init /\ [][Next]_vars

-----------------------------------------------------------------------------
Same(r, s) == r.sn = s.sn /\ r.cn = s.cn /\ r.k = s.k

(* "The kernel only sees this peer after it proved it holds the key"       *)
(* (board.zig 52): a host that gets past client has met the board itself,  *)
(* in an exchange with the same nonces and the host's own key, whoever is  *)
(* at the other end of its connection.                                     *)
HostSure == \A f \in finished : \E p \in proved : Same(f, p)

(* "Prove the key before this peer gets the radio or evicts the real host" *)
(* (bridge.zig 182), as long as the board has its key: behind every        *)
(* connection that gets the radio then there is a host with the key that   *)
(* answered this very challenge, and no answer gets it twice.  No          *)
(* challenge ever does.                                                    *)
BoardSure ==
    /\ \A p \in proved : p.k = Key => \E b \in begun : b.sn = p.sn /\ b.cn = p.cn /\ b.k = Key
    /\ \A p, q \in proved : p.cn = q.cn /\ p.k = Key /\ q.k = Key => p = q
    /\ \A p, q \in proved : p.sn = q.sn => p = q

(* auth.c 149, 295-296: while the key is being erased anybody may pass, and *)
(* g_claimed is not looked at again within an exchange.  Once it is        *)
(* cleared at most the one exchange that was under way can still get the   *)
(* radio, restarts included.                                               *)
ClosedOnceReleased == \A p, q \in late : p = q

(* The C and the Zig side compute the same proofs: between a board and a   *)
(* host that hold the same key no proof is refused, unless the key is      *)
(* erased meanwhile.                                                       *)
SameKeyAgrees ==
    \A c \in bad : conn[c].own \in Keyed /\ conn[c].to = "board" => board.psk # Key

(* "The whole exchange must finish within one deadline so a peer trickling *)
(* bytes cannot hold the rx task" (auth.c 145-146), and a silent one       *)
(* cannot park a session (handshake.zig 19).  The host keeps its deadline. *)
(* The board does unless a part comes in the last millisecond and the rest *)
(* does not.                                                               *)
HandshakeBounded ==
    /\ rx.spent > Deadline => rx.at > Deadline - Grain
    /\ \A h \in Hosts : host[h].spent <= Deadline
=============================================================================
