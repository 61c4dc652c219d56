-------------------------- MODULE HandshakeProofs ---------------------------
(***************************************************************************)
(* Proofs about Handshake, for any set of hosts, any deadline and any      *)
(* number of connections and restarts.                                     *)
(***************************************************************************)
EXTENDS Handshake, FiniteSets, FiniteSetTheorems, SequenceTheorems, TLAPS

ConnState == [own : Hosts \cup {Mimic, NoOne}, to : {"board", Mimic, NoOne},
              up : Seq(Parts), dn : Seq(Parts), upEnd : BOOLEAN, dnEnd : BOOLEAN]

\* The connections that were ever made, that wait for the board, that a host
\* has answered on.
Opened   == {c \in Conns : conn[c].own # NoOne}
Elems(s) == {s[i] : i \in 1..Len(s)}
Waiting  == Elems(queue)
Answered == {c \in Conns : \E b \in begun : b.c = c}

(* Each connection costs at most a nonce of the board and one of the host. *)
CountInv ==
    /\ nonces <= Cardinality(Answered) + Cardinality(Opened \ Waiting)
    /\ Waiting \subseteq Opened /\ Answered \subseteq Opened
    /\ \A i, j \in 1..Len(queue) : queue[i] = queue[j] => i = j
    /\ \A h \in Hosts : host[h].pc # "off" => host[h].c \in Conns /\ conn[host[h].c].own = h
    /\ \A h \in Hosts : host[h].pc = "nonce" => host[h].c \notin Answered
    /\ rx.pc # "idle" => rx.c \in Conns

(* One account of time: what is left and what was spent make the deadline. *)
(* A host's receive ends within what is left.  So does the board's, except *)
(* one without a timeout, which began in the last millisecond.             *)
HostTime(s) == s.left + s.spent = Deadline /\ s.wait <= s.left
RxTime(s) ==
    /\ s.left = IF s.spent <= Deadline THEN Deadline - s.spent ELSE 0
    /\ s.wait <= s.left \/ s.wait = Never
    /\ s.wait = Never \/ s.spent > Deadline => s.at > Deadline - Grain
TimeInv == RxTime(rx) /\ \A h \in Hosts : HostTime(host[h])

(* Nothing travels that was not sent, or made up without the key.  Each    *)
(* proof that was ever sent is from a host that answered, or the board.    *)
Origin(m) == \/ \E b \in begun : m = Mac(b.k, b.sn, b.cn, "client")
             \/ \E p \in proved : m = Mac(p.k, p.cn, p.sn, "board")
MadeUp == {Proof(m) : m \in {x \in Macs : x.k = Zero /\ x.dom = "client"}}
SentInv ==
    /\ \A c \in Conns : /\ Elems(conn[c].up) \subseteq Known \cup MadeUp
                        /\ Elems(conn[c].dn) \subseteq Known
    /\ \A m \in Macs : Proof(m) \in heard => Origin(m)

(* Nonces are used once, and the board only goes on with a host's answer,  *)
(* as long as it has the key.                                              *)
FreshInv ==
    /\ board.psk \in {Key, Zero} /\ \A b \in begun : b.k # Zero
    /\ \A b \in begun : b.cn <= nonces
    /\ \A b, d \in begun : b.cn = d.cn => b = d
    /\ \A p \in proved : p.sn <= nonces /\ (rx.pc # "idle" => p.sn # rx.sn)
    /\ rx.pc # "idle" => rx.sn <= nonces
    /\ rx.pc = "prove" /\ board.psk = Key =>
         \E b \in begun : b.sn = rx.sn /\ b.cn = rx.cn /\ b.k = Key

(* The flag falls after the key and does not come back; what the board     *)
(* still proves then is the end of the exchange it was in.                 *)
ClosedInv ==
    /\ ~board.claimed => board.psk = Zero
    /\ late # {} => ~board.claimed /\ rx.pc = "idle"
    /\ ClosedOnceReleased

(* What is under way between a host and the board, while the key is there. *)
Ours(c)   == conn[c].own \in Hosts /\ conn[c].to = "board"
OnRx(c)   == rx.pc # "idle" /\ rx.c = c
HostAt(c) == host[conn[c].own]
OnHost(c) == HostAt(c).pc # "off" /\ HostAt(c).c = c
Answer(c, sn, cn) == Proof(ClientMac(Psk(conn[c].own), sn, cn))

(* A connection that waits is empty, and the board is not on it.           *)
Untouched(c) ==
    /\ conn[c].own = NoOne => conn[c].to = NoOne /\ c \notin bad
    /\ c \in Waiting => ~OnRx(c)
    /\ conn[c].own = NoOne \/ (Ours(c) /\ c \in Waiting) =>
         conn[c].up = <<>> /\ conn[c].dn = <<>> /\ ~OnRx(c)

(* The board finds the answer to its own challenge, or nothing yet.        *)
UpGood(c) ==
    Ours(c) /\ OnRx(c) =>
        /\ rx.pc = "nonce" => \/ conn[c].up = <<>>
                              \/ \E cn \in Nonces : conn[c].up = <<Nonce(cn), Answer(c, rx.sn, cn)>>
        /\ rx.pc = "mac" => conn[c].up = <<Answer(c, rx.sn, rx.cn)>>

(* A host that waits for the challenge finds that one, or nothing yet.     *)
DnNonceGood(c) ==
    Ours(c) /\ OnHost(c) /\ HostAt(c).pc = "nonce" =>
        /\ conn[c].up = <<>>
        /\ conn[c].dn = <<>> \/ \E n \in Nonces : conn[c].dn = <<Nonce(n)>>
        /\ OnRx(c) => rx.pc = "nonce" /\ conn[c].dn = <<Nonce(rx.sn)>>

(* A host that waits for the board's proof finds one over its own nonces,  *)
(* with the key, or nothing while the board is still on its answer.        *)
DnProofGood(c) ==
    Ours(c) /\ OnHost(c) /\ HostAt(c).pc = "proof" =>
        /\ c \notin Waiting
        /\ board.psk = Key =>
             \/ conn[c].dn = <<>>
             \/ ~OnRx(c) /\ conn[c].dn = <<Proof(BoardMac(Key, HostAt(c).sn, HostAt(c).cn))>>
        /\ OnRx(c) => /\ rx.sn = HostAt(c).sn
                      /\ rx.pc = "nonce" => conn[c].up = <<Nonce(HostAt(c).cn),
                                                   Answer(c, rx.sn, HostAt(c).cn)>>
                      /\ rx.pc # "nonce" => rx.cn = HostAt(c).cn

Agreed(c) == c \in bad /\ conn[c].own \in Keyed /\ conn[c].to = "board" => board.psk # Key

WireAt(c) == Untouched(c) /\ UpGood(c) /\ DnNonceGood(c) /\ DnProofGood(c) /\ Agreed(c)
WireInv == \A c \in Conns : WireAt(c)

(* What the parts of a message are, and that their kinds differ.           *)
LEMMA PartForms ==
    /\ \A n \in Nonces : Nonce(n) \in Parts /\ "nonce" \in DOMAIN Nonce(n) /\ Nonce(n).nonce = n
    /\ \A m \in Macs : Proof(m) \in Parts /\ Proof(m).mac = m
    /\ \A n, m : Nonce(n) # Proof(m)
    /\ \A v \in Parts : "nonce" \in DOMAIN v => v.nonce \in Nonces /\ v = Nonce(v.nonce)
<1>1. \A n \in Nonces : Nonce(n) \in Parts /\ "nonce" \in DOMAIN Nonce(n) /\ Nonce(n).nonce = n
  BY DEF Nonce, Parts
<1>2. \A m \in Macs : Proof(m) \in Parts /\ Proof(m).mac = m
  BY DEF Proof, Parts
<1>3. \A n, m : Nonce(n) # Proof(m)
  <2> TAKE n, m
  <2>1. DOMAIN Nonce(n) = {"nonce"} /\ DOMAIN Proof(m) = {"mac"} BY DEF Nonce, Proof
  <2> QED BY <2>1
<1>4. \A v \in Parts : "nonce" \in DOMAIN v => v.nonce \in Nonces /\ v = Nonce(v.nonce)
  BY DEF Nonce, Parts
<1> QED BY <1>1, <1>2, <1>3, <1>4

LEMMA MacForms ==
    /\ \A k \in Keys, a, b \in Nonces :
         /\ Mac(k, a, b, "client") \in Macs /\ Mac(k, a, b, "board") \in Macs
         /\ ClientMac(k, a, b) \in Macs /\ BoardMac(k, a, b) \in Macs
         /\ BoardExpects(k, a, b) \in Macs /\ BoardProves(k, a, b) \in Macs
    /\ \A h : Psk(h) \in Keys \ {Zero}
BY DEF Mac, Macs, ClientMac, BoardMac, BoardExpects, BoardProves, Psk, Keys, Key, Zero

(* Timeouts are whole milliseconds within what is left, or none.           *)
LEMMA Timeouts ==
    ASSUME NEW l \in 0..Deadline
    PROVE  /\ Whole(l) \in 0..l
           /\ HostTimeout(l) \in 0..l
           /\ RxTimeout(l) \in 0..l \/ (RxTimeout(l) = Never /\ 0 < l /\ l < Grain)
<1>1. l \in Nat /\ l >= 0 BY HandshakeAssumption
<1>2. \A n \in Nat : n - (n % Grain) \in 0..n BY HandshakeAssumption
<1>3. Whole(l) \in 0..l BY <1>1, <1>2 DEF Whole
<1>4. HostTimeout(l) \in 0..l BY <1>1, <1>3 DEF HostTimeout
<1>5. RxTimeout(l) \in 0..l \/ (RxTimeout(l) = Never /\ 0 < l /\ l < Grain)
  BY <1>1, <1>3, HandshakeAssumption DEF RxTimeout, Expired
<1> QED BY <1>3, <1>4, <1>5

(* A resting side, and one that starts on a connection.                    *)
LEMMA RestingType ==
    /\ Resting("idle") \in Side(RxPc) /\ Resting("off") \in Side(HostPc)
    /\ \A c \in Conns : [Resting("nonce") EXCEPT !.c = c] \in Side(HostPc)
    /\ \A c \in Conns, n \in Nonces : [Resting("nonce") EXCEPT !.c = c, !.sn = n] \in Side(RxPc)
<1>0. Deadline \in 0..Deadline BY HandshakeAssumption
<1>1. /\ 0 \in Nonces /\ 0 \in 0..MaxConns /\ 0 \in 0..Beyond
      /\ Deadline \in 0..Deadline /\ Conns \subseteq 0..MaxConns
      /\ Whole(Deadline) \in 0..Never
  BY <1>0, Timeouts, HandshakeAssumption DEF Nonces, Conns, Beyond, Never
<1>2. Resting("idle") \in Side(RxPc) /\ Resting("nonce") \in Side(RxPc)
  BY <1>1 DEF Resting, Side, RxPc
<1>3. Resting("off") \in Side(HostPc) /\ Resting("nonce") \in Side(HostPc)
  BY <1>1 DEF Resting, Side, HostPc
<1> QED BY <1>1, <1>2, <1>3 DEF Side

(* The sets that CountInv counts are finite, and have at most MaxConns.    *)
LEMMA ConnsCount ==
    ASSUME NEW S, S \subseteq Conns
    PROVE  IsFiniteSet(S) /\ Cardinality(S) \in Nat /\ Cardinality(S) <= MaxConns
<1>1. IsFiniteSet(Conns) /\ Cardinality(Conns) = MaxConns
  BY FS_Interval, HandshakeAssumption DEF Conns
<1> QED BY <1>1, FS_Subset, FS_CardinalityType

(* One more in either set leaves room for one more nonce.                  *)
LEMMA CountRoom ==
    ASSUME NEW S, S \subseteq Conns, NEW T, T \subseteq Conns, NEW n \in Nat,
           NEW c \in Conns, c \notin S, n <= Cardinality(S) + Cardinality(T)
    PROVE  /\ n + 1 <= Cardinality(S \cup {c}) + Cardinality(T)
           /\ n + 1 <= Cardinality(T) + Cardinality(S \cup {c})
           /\ n + 1 \in Nonces
<1>1. Cardinality(S \cup {c}) = Cardinality(S) + 1
  BY ConnsCount, FS_AddElement
<1>2. S \cup {c} \subseteq Conns OBVIOUS
<1>3. /\ Cardinality(S) \in Nat /\ Cardinality(T) \in Nat
      /\ Cardinality(S \cup {c}) <= MaxConns /\ Cardinality(T) <= MaxConns
  BY <1>2, ConnsCount
<1>4. n + 1 <= Cardinality(S) + 1 + Cardinality(T) BY <1>3
<1>5. n + 1 <= 2 * MaxConns BY <1>1, <1>3, <1>4, HandshakeAssumption
<1> QED BY <1>1, <1>3, <1>4, <1>5 DEF Nonces

TypeInv == TypeOK /\ CountInv

LEMMA TypeInit == Init => TypeInv
<1> SUFFICES ASSUME Init PROVE TypeInv OBVIOUS
<1>1. NoConn \in ConnState
  <2>1. <<>> \in Seq(Parts) OBVIOUS
  <2> QED BY <2>1 DEF NoConn, ConnState
<1>2. TypeOK
  <2>1. board \in [psk : Keys, claimed : BOOLEAN, restarts : 0..MaxRestarts]
    BY HandshakeAssumption DEF Init, Keys, Key
  <2>2. rx \in Side(RxPc) /\ host \in [Hosts -> Side(HostPc)] BY RestingType DEF Init
  <2>3. conn \in [Conns -> ConnState] BY <1>1 DEF Init
  <2>4. queue \in Seq(Conns) /\ nonces \in Nonces BY HandshakeAssumption DEF Init, Nonces
  <2> QED BY <2>1, <2>2, <2>3, <2>4 DEF Init, TypeOK, ConnState
<1>3. Waiting = {} /\ Answered = {} BY DEF Init, Waiting, Elems, Answered
<1>4. Opened = {} BY DEF Init, Opened, NoConn
<1>5. CountInv
  <2>1. Cardinality({}) = 0 BY FS_EmptySet
  <2>2. {} \ {} = {} OBVIOUS
  <2>3. rx.pc = "idle" /\ \A h \in Hosts : host[h].pc = "off" BY DEF Init, Resting
  <2>4. queue = <<>> /\ nonces = 0 BY DEF Init
  <2>5. nonces <= Cardinality(Answered) + Cardinality(Opened \ Waiting)
    BY <1>3, <1>4, <2>1, <2>2, <2>4
  <2> QED BY <1>3, <1>4, <2>3, <2>4, <2>5 DEF CountInv
<1> QED BY <1>2, <1>5 DEF TypeInv

(* A change of one connection keeps the types.                             *)
LEMMA ConnType ==
    ASSUME TypeOK, NEW c \in Conns
    PROVE  /\ conn[c].up \in Seq(Parts) /\ conn[c].dn \in Seq(Parts)
           /\ \A s \in Seq(Parts) : [conn EXCEPT ![c].up = s] \in [Conns -> ConnState]
           /\ \A s \in Seq(Parts) : [conn EXCEPT ![c].dn = s] \in [Conns -> ConnState]
           /\ [conn EXCEPT ![c].upEnd = TRUE] \in [Conns -> ConnState]
           /\ [conn EXCEPT ![c].dnEnd = TRUE] \in [Conns -> ConnState]
           /\ \A s, t \in Seq(Parts) : [conn EXCEPT ![c].dn = s, ![c].up = t] \in [Conns -> ConnState]
           /\ \A s \in Seq(Parts) : [conn EXCEPT ![c].dn = s, ![c].upEnd = TRUE] \in [Conns -> ConnState]
           /\ \A s \in Seq(Parts) : [conn EXCEPT ![c].up = s, ![c].dnEnd = TRUE] \in [Conns -> ConnState]
           /\ \A h \in Hosts \cup {Mimic}, to \in {"board", Mimic} :
                [conn EXCEPT ![c].own = h, ![c].to = to] \in [Conns -> ConnState]
<1> DEFINE F == [Conns -> ConnState]
<1>1. conn \in F BY DEF TypeOK, ConnState
<1>2. conn[c].up \in Seq(Parts) /\ conn[c].dn \in Seq(Parts) BY <1>1 DEF ConnState
<1>3. \A f \in F, s \in Seq(Parts) : [f EXCEPT ![c].up = s] \in F /\ [f EXCEPT ![c].dn = s] \in F
  <2>1. \A f \in F, s \in Seq(Parts) : [f EXCEPT ![c].up = s] \in F BY DEF ConnState
  <2>2. \A f \in F, s \in Seq(Parts) : [f EXCEPT ![c].dn = s] \in F BY DEF ConnState
  <2> QED BY <2>1, <2>2
<1>4. \A f \in F : [f EXCEPT ![c].upEnd = TRUE] \in F /\ [f EXCEPT ![c].dnEnd = TRUE] \in F
  BY DEF ConnState
<1>5. \A f \in F, h \in Hosts \cup {Mimic} : [f EXCEPT ![c].own = h] \in F
  BY DEF ConnState
<1>6. \A f \in F, to \in {"board", Mimic} : [f EXCEPT ![c].to = to] \in F
  BY DEF ConnState
<1> HIDE DEF F
<1>7. \A s \in Seq(Parts), t \in Seq(Parts) : [conn EXCEPT ![c].dn = s, ![c].up = t] \in F
  BY <1>1, <1>3
<1>8. \A s \in Seq(Parts) : /\ [conn EXCEPT ![c].dn = s, ![c].upEnd = TRUE] \in F
                             /\ [conn EXCEPT ![c].up = s, ![c].dnEnd = TRUE] \in F
  BY <1>1, <1>3, <1>4
<1>9. \A h \in Hosts \cup {Mimic}, to \in {"board", Mimic} : [conn EXCEPT ![c].own = h, ![c].to = to] \in F
  BY <1>1, <1>5, <1>6
<1> QED BY <1>1, <1>2, <1>3, <1>4, <1>7, <1>8, <1>9 DEF F

(* More connections that do not wait leave room for the same nonces.       *)
LEMMA CountGrows ==
    ASSUME NEW S, S \subseteq Conns, NEW T, NEW U, T \subseteq U, U \subseteq Conns, NEW n \in Nat,
           n <= Cardinality(S) + Cardinality(T)
    PROVE  n <= Cardinality(S) + Cardinality(U)
<1>1. /\ Cardinality(S) \in Nat /\ Cardinality(T) \in Nat /\ Cardinality(U) \in Nat
      /\ IsFiniteSet(U)
  BY ConnsCount
<1>2. Cardinality(T) <= Cardinality(U) BY <1>1, FS_Subset
<1> QED BY <1>1, <1>2

(* A new connection: only it is changed, and it waits once.                *)
LEMMA OpenFacts ==
    ASSUME TypeInv, NEW own \in Hosts \cup {Mimic}, NEW to \in {"board", Mimic}, NEW c \in Conns,
           Open(own, to, c)
    PROVE  /\ conn' \in [Conns -> ConnState] /\ queue' \in Seq(Conns)
           /\ c \notin Opened /\ Opened' = Opened \cup {c}
           /\ Waiting \subseteq Waiting' /\ Waiting' \subseteq Waiting \cup {c}
           /\ \A i, j \in 1..Len(queue') : queue'[i] = queue'[j] => i = j
           /\ conn'[c].own = own /\ \A d \in Conns \ {c} : conn'[d] = conn[d]
<1>1. conn \in [Conns -> ConnState] /\ queue \in Seq(Conns) BY DEF TypeInv, TypeOK, ConnState
<1>2. conn' = [conn EXCEPT ![c].own = own, ![c].to = to] BY DEF Open
<1>3. conn' \in [Conns -> ConnState] BY <1>2, ConnType DEF TypeInv
<1>4. conn'[c].own = own /\ \A d \in Conns \ {c} : conn'[d] = conn[d]
  BY <1>1, <1>2 DEF ConnState
<1>5. c \notin Opened /\ Opened' = Opened \cup {c}
  BY <1>4, HandshakeAssumption DEF Opened, Open
<1>6. c \notin Waiting BY <1>5 DEF TypeInv, CountInv
<1>7. CASE to = "board"
  <2>1. queue' = Append(queue, c) BY <1>7 DEF Open
  <2>2. /\ queue' \in Seq(Conns) /\ Len(queue) \in Nat /\ Len(queue') = Len(queue) + 1
        /\ queue'[Len(queue) + 1] = c /\ \A i \in 1..Len(queue) : queue'[i] = queue[i]
    BY <1>1, <2>1, AppendProperties
  <2>3. \A i \in 1..Len(queue') : i \in 1..Len(queue) \/ i = Len(queue) + 1 BY <2>2
  <2>4. Waiting' = Waiting \cup {c} BY <2>2, <2>3 DEF Waiting, Elems
  <2>5. \A i \in 1..Len(queue) : queue[i] # c BY <1>6 DEF Waiting, Elems
  <2>6. \A i, j \in 1..Len(queue') : queue'[i] = queue'[j] => i = j
    BY <2>2, <2>3, <2>5 DEF TypeInv, CountInv
  <2> QED BY <1>3, <1>4, <1>5, <2>2, <2>4, <2>6
<1>8. CASE to # "board"
  <2>1. queue' = queue BY <1>8 DEF Open
  <2> QED BY <1>1, <1>3, <1>4, <1>5, <2>1 DEF Waiting, Elems, TypeInv, CountInv
<1> QED BY <1>7, <1>8

(* What stays when only the insides of the connections change.             *)
SameEnds == \A c \in Conns : conn'[c].own = conn[c].own /\ conn'[c].to = conn[c].to
LEMMA SameOpened == SameEnds => Opened' = Opened
BY DEF SameEnds, Opened

(* Connect and MimicOpen.                                                  *)
LEMMA TypeOpen ==
    ASSUME TypeInv, NEW c \in Conns, (\E h \in Hosts : Connect(h, c)) \/ MimicOpen(c)
    PROVE  TypeInv'
<1> DEFINE Started(h) == [host EXCEPT ![h] = [Resting("nonce") EXCEPT !.c = c]]
<1>1. PICK own \in Hosts \cup {Mimic}, to \in {"board", Mimic} :
           Open(own, to, c) /\ (host' = host \/ (own \in Hosts /\ host' = Started(own)))
  BY DEF Connect, MimicOpen
<1>2. /\ conn' \in [Conns -> ConnState] /\ queue' \in Seq(Conns)
      /\ c \notin Opened /\ Opened' = Opened \cup {c}
      /\ Waiting \subseteq Waiting' /\ Waiting' \subseteq Waiting \cup {c}
      /\ \A i, j \in 1..Len(queue') : queue'[i] = queue'[j] => i = j
      /\ conn'[c].own = own /\ \A d \in Conns \ {c} : conn'[d] = conn[d]
  BY <1>1, OpenFacts
<1>3. UNCHANGED <<board, rx, nonces, heard, begun, proved, finished, bad, late>>
  BY DEF Connect, MimicOpen, History
<1>4. /\ host' \in [Hosts -> Side(HostPc)]
      /\ \A h \in Hosts : host'[h] = host[h] \/ (host'[h].c = c /\ own = h)
  <2>1. host \in [Hosts -> Side(HostPc)] BY DEF TypeInv, TypeOK
  <2>2. /\ [Resting("nonce") EXCEPT !.c = c] \in Side(HostPc)
        /\ [Resting("nonce") EXCEPT !.c = c].c = c
    BY RestingType DEF Resting
  <2> QED BY <1>1, <2>1, <2>2
<1>5. TypeOK' BY <1>2, <1>3, <1>4 DEF TypeInv, TypeOK, ConnState
<1>6. Answered' = Answered BY <1>3 DEF Answered
<1>7. Answered \subseteq Conns /\ Opened' \ Waiting' \subseteq Conns /\ nonces \in Nat
  BY DEF Answered, Opened, TypeInv, TypeOK, Nonces
<1>8. Opened \ Waiting \subseteq Opened' \ Waiting' BY <1>2
<1>9. nonces <= Cardinality(Answered) + Cardinality(Opened' \ Waiting')
  BY <1>7, <1>8, CountGrows DEF TypeInv, CountInv
<1>10. Waiting' \subseteq Opened' /\ Answered' \subseteq Opened' /\ c \notin Answered
  BY <1>2, <1>6 DEF TypeInv, CountInv
<1>11. ASSUME NEW h \in Hosts, host'[h].pc # "off"
       PROVE  /\ host'[h].c \in Conns /\ conn'[host'[h].c].own = h
              /\ host'[h].pc = "nonce" => host'[h].c \notin Answered
  <2>1. CASE host'[h] = host[h]
    <3>1. host[h].c \in Conns /\ conn[host[h].c].own = h BY <1>11, <2>1 DEF TypeInv, CountInv
    <3>2. host[h].c # c BY <1>2, <3>1, HandshakeAssumption DEF Opened
    <3> QED BY <1>2, <2>1, <3>1, <3>2 DEF TypeInv, CountInv
  <2>2. CASE host'[h].c = c /\ own = h BY <1>2, <1>10, <2>2
  <2> QED BY <1>4, <2>1, <2>2
<1>12. rx'.pc # "idle" => rx'.c \in Conns BY <1>3 DEF TypeInv, CountInv
<1>13. CountInv' BY <1>2, <1>3, <1>6, <1>9, <1>10, <1>11, <1>12 DEF CountInv
<1> QED BY <1>5, <1>13 DEF TypeInv

(* An action edits one connection: what is on its way up and down is u and *)
(* d afterwards.                                                           *)
Edit(c, u, d) ==
    /\ conn' \in [Conns -> ConnState] /\ SameEnds
    /\ conn'[c].up = u /\ conn'[c].dn = d
    /\ \A e \in Conns \ {c} : conn'[e] = conn[e]

LEMMA Edits ==
    ASSUME TypeOK, NEW c \in Conns
    PROVE  /\ \A s \in Seq(Parts) : /\ conn' = [conn EXCEPT ![c].up = s] => Edit(c, s, conn[c].dn)
                                    /\ conn' = [conn EXCEPT ![c].dn = s] => Edit(c, conn[c].up, s)
           /\ conn' = [conn EXCEPT ![c].upEnd = TRUE] => Edit(c, conn[c].up, conn[c].dn)
           /\ conn' = [conn EXCEPT ![c].dnEnd = TRUE] => Edit(c, conn[c].up, conn[c].dn)
           /\ \A s, t \in Seq(Parts) : conn' = [conn EXCEPT ![c].dn = s, ![c].up = t] => Edit(c, t, s)
           /\ \A s \in Seq(Parts) :
                /\ conn' = [conn EXCEPT ![c].dn = s, ![c].upEnd = TRUE] => Edit(c, conn[c].up, s)
                /\ conn' = [conn EXCEPT ![c].up = s, ![c].dnEnd = TRUE] => Edit(c, s, conn[c].dn)
<1>1. conn \in [Conns -> ConnState] BY DEF TypeOK, ConnState
<1>2. ASSUME NEW s \in Seq(Parts), conn' = [conn EXCEPT ![c].up = s]
      PROVE  Edit(c, s, conn[c].dn)
  <2>1. conn' \in [Conns -> ConnState] BY <1>2, ConnType
  <2> QED BY <1>1, <1>2, <2>1 DEF Edit, SameEnds, ConnState
<1>3. ASSUME NEW s \in Seq(Parts), conn' = [conn EXCEPT ![c].dn = s]
      PROVE  Edit(c, conn[c].up, s)
  <2>1. conn' \in [Conns -> ConnState] BY <1>3, ConnType
  <2> QED BY <1>1, <1>3, <2>1 DEF Edit, SameEnds, ConnState
<1>4. ASSUME conn' = [conn EXCEPT ![c].upEnd = TRUE] PROVE Edit(c, conn[c].up, conn[c].dn)
  <2>1. conn' \in [Conns -> ConnState] BY <1>4, ConnType
  <2> QED BY <1>1, <1>4, <2>1 DEF Edit, SameEnds, ConnState
<1>5. ASSUME conn' = [conn EXCEPT ![c].dnEnd = TRUE] PROVE Edit(c, conn[c].up, conn[c].dn)
  <2>1. conn' \in [Conns -> ConnState] BY <1>5, ConnType
  <2> QED BY <1>1, <1>5, <2>1 DEF Edit, SameEnds, ConnState
<1>6. ASSUME NEW s \in Seq(Parts), NEW t \in Seq(Parts), conn' = [conn EXCEPT ![c].dn = s, ![c].up = t]
      PROVE  Edit(c, t, s)
  <2>1. conn' \in [Conns -> ConnState] BY <1>6, ConnType
  <2> QED BY <1>1, <1>6, <2>1 DEF Edit, SameEnds, ConnState
<1>7. ASSUME NEW s \in Seq(Parts), conn' = [conn EXCEPT ![c].dn = s, ![c].upEnd = TRUE]
      PROVE  Edit(c, conn[c].up, s)
  <2>1. conn' \in [Conns -> ConnState] BY <1>7, ConnType
  <2> QED BY <1>1, <1>7, <2>1 DEF Edit, SameEnds, ConnState
<1>8. ASSUME NEW s \in Seq(Parts), conn' = [conn EXCEPT ![c].up = s, ![c].dnEnd = TRUE]
      PROVE  Edit(c, s, conn[c].dn)
  <2>1. conn' \in [Conns -> ConnState] BY <1>8, ConnType
  <2> QED BY <1>1, <1>8, <2>1 DEF Edit, SameEnds, ConnState
<1> QED BY <1>2, <1>3, <1>4, <1>5, <1>6, <1>7, <1>8

(* The steps that open nothing, answer nothing and take nobody from the    *)
(* queue: a side stays on its connection or leaves it.                     *)
HostsStay == \A h \in Hosts : \/ host'[h].pc = "off"
                              \/ /\ host[h].pc # "off" /\ host'[h].c = host[h].c
                                 /\ host'[h].pc = "nonce" => host[h].pc = "nonce"
RxStays == rx'.pc = "idle" \/ (rx.pc # "idle" /\ rx'.c = rx.c)

LEMMA CountQuiet ==
    ASSUME TypeInv, SameEnds, HostsStay, RxStays, UNCHANGED <<queue, nonces, begun>>
    PROVE  CountInv'
<1>1. Opened' = Opened BY SameOpened
<1>2. Waiting' = Waiting /\ Answered' = Answered BY DEF Waiting, Elems, Answered
<1>3. ASSUME NEW h \in Hosts, host'[h].pc # "off"
      PROVE  /\ host'[h].c \in Conns /\ conn'[host'[h].c].own = h
             /\ host'[h].pc = "nonce" => host'[h].c \notin Answered
  BY <1>3 DEF HostsStay, SameEnds, TypeInv, CountInv
<1>4. rx'.pc # "idle" => rx'.c \in Conns BY DEF RxStays, TypeInv, CountInv
<1> QED BY <1>1, <1>2, <1>3, <1>4 DEF TypeInv, CountInv

(* What is read of a connection is one of the parts, and the rest are too. *)
LEMMA TakePart ==
    ASSUME NEW s \in Seq(Parts), s # <<>>
    PROVE  Head(s) \in Parts /\ Tail(s) \in Seq(Parts)
BY HeadTailProperties

(* What the mimic makes up is a proof with the zero key.                   *)
LEMMA ZeroProofForm == ASSUME TypeInv PROVE ZeroProof \in Parts /\ ZeroProof \in MadeUp
<1>1. rx.sn \in Nonces /\ rx.cn \in Nonces BY DEF TypeInv, TypeOK, Side
<1>2. Zero \in Keys BY DEF Keys
<1>3. ClientMac(Zero, rx.sn, rx.cn) \in Macs BY <1>1, <1>2, MacForms
<1>4. ClientMac(Zero, rx.sn, rx.cn).k = Zero /\ ClientMac(Zero, rx.sn, rx.cn).dom = "client"
  BY DEF ClientMac, Mac
<1> QED BY <1>3, <1>4, PartForms DEF ZeroProof, MadeUp

LEMMA TypeMimicSend == ASSUME TypeInv, NEW c \in Conns, MimicSend(c) PROVE TypeInv'
<1>1. UNCHANGED <<board, rx, host, queue, nonces, heard, begun, proved, finished, bad, late>>
  BY DEF MimicSend, History
<1>2. PICK v \in Known \cup {ZeroProof} :
           \/ conn' = [conn EXCEPT ![c].up = <<v>>]
           \/ conn' = [conn EXCEPT ![c].dn = <<v>>]
  BY DEF MimicSend
<1>3. v \in Parts
  <2>1. ZeroProof \in Parts BY ZeroProofForm
  <2>2. Known \subseteq Parts
    BY PartForms, HandshakeAssumption DEF Known, TypeInv, TypeOK, Nonces
  <2> QED BY <1>2, <2>1, <2>2
<1>4. <<v>> \in Seq(Parts) BY <1>3
<1>5. conn' \in [Conns -> ConnState] /\ SameEnds BY <1>2, <1>4, Edits DEF Edit, TypeInv
<1>7. CountInv' BY <1>1, <1>5, CountQuiet DEF HostsStay, RxStays
<1>8. TypeOK' BY <1>1, <1>5 DEF TypeInv, TypeOK, ConnState
<1> QED BY <1>7, <1>8 DEF TypeInv

(* What a host's answer does: it draws a nonce, and its part and its proof *)
(* go up.                                                                  *)
Challenge(h) == DnHead(h).nonce
HostRun(h)   == [c |-> host[h].c, k |-> Psk(h), sn |-> Challenge(h), cn |-> nonces + 1]
HostParts(h) == <<Nonce(nonces + 1), Proof(ClientMac(Psk(h), Challenge(h), nonces + 1))>>

LEMMA HostNonceEffect ==
    ASSUME TypeInv, NEW h \in Hosts, HostNonce(h)
    PROVE  /\ host[h].pc = "nonce" /\ host[h].c \in Conns \ Answered /\ conn[host[h].c].own = h
           /\ Challenge(h) \in Nonces /\ nonces + 1 \in Nonces
           /\ nonces + 1 <= Cardinality(Answered \cup {host[h].c}) + Cardinality(Opened \ Waiting)
           /\ conn[host[h].c].dn # <<>> /\ Head(conn[host[h].c].dn) = Nonce(Challenge(h))
           /\ HostParts(h) \in Seq(Parts)
           /\ Edit(host[h].c, conn[host[h].c].up \o HostParts(h), Tail(conn[host[h].c].dn))
           /\ host' \in [Hosts -> Side(HostPc)] /\ \A g \in Hosts \ {h} : host'[g] = host[g]
           /\ host'[h].pc = "proof" /\ host'[h].c = host[h].c /\ host'[h].sn = Challenge(h)
           /\ host'[h].cn = nonces + 1
           /\ host'[h].left = host[h].left /\ host'[h].spent = host[h].spent
           /\ host'[h].wait = HostTimeout(host[h].left)
           /\ heard' = heard \cup {Nonce(nonces + 1),
                                   Proof(ClientMac(Psk(h), Challenge(h), nonces + 1))}
           /\ begun' = begun \cup {HostRun(h)} /\ HostRun(h) \in Runs
           /\ nonces' = nonces + 1
           /\ UNCHANGED <<board, rx, queue, proved, finished, bad, late>>
<1> DEFINE c == host[h].c
           cn == nonces + 1
           sn == DnHead(h).nonce
           ps == <<Nonce(cn), Proof(ClientMac(Psk(h), sn, cn))>>
<1>1. /\ host[h].pc = "nonce" /\ conn[c].dn # <<>> /\ "nonce" \in DOMAIN DnHead(h)
      /\ DnHead(h) = Head(conn[c].dn)
  BY DEF HostNonce, HasDn, DnHead
<1>2. c \in Conns /\ c \notin Answered /\ conn[c].own = h /\ c \in Opened
  BY <1>1, HandshakeAssumption DEF TypeInv, CountInv, Opened
<1>3. /\ conn[c].up \in Seq(Parts) /\ conn[c].dn \in Seq(Parts)
      /\ DnHead(h) \in Parts /\ Tail(conn[c].dn) \in Seq(Parts)
  <2> HIDE DEF c
  <2>1. conn[c].up \in Seq(Parts) /\ conn[c].dn \in Seq(Parts) BY <1>2, ConnType DEF TypeInv
  <2> QED BY <1>1, <2>1, TakePart
<1>4. sn \in Nonces /\ Head(conn[c].dn) = Nonce(sn) BY <1>1, <1>3, PartForms
<1>5. nonces \in Nat /\ Answered \subseteq Conns /\ Opened \ Waiting \subseteq Conns
  BY DEF TypeInv, TypeOK, Nonces, Answered, Opened
<1>6. /\ cn \in Nonces
      /\ cn <= Cardinality(Answered \cup {c}) + Cardinality(Opened \ Waiting)
  BY <1>2, <1>5, CountRoom DEF TypeInv, CountInv
<1>7. Nonce(cn) \in Parts /\ Proof(ClientMac(Psk(h), sn, cn)) \in Parts /\ Psk(h) \in Keys
  BY <1>4, <1>6, PartForms, MacForms
<1>8. ps \in Seq(Parts) /\ ps[1] = Nonce(cn) /\ ps[2] = Proof(ClientMac(Psk(h), sn, cn)) BY <1>7
<1>9. /\ conn' = [conn EXCEPT ![c].dn = Tail(@), ![c].up = @ \o ps]
      /\ host' = [host EXCEPT ![h].pc = "proof", ![h].sn = sn, ![h].cn = cn,
                              ![h].wait = HostTimeout(host[h].left)]
      /\ heard' = heard \cup {ps[1], ps[2]} /\ nonces' = cn
      /\ begun' = begun \cup {[c |-> c, k |-> Psk(h), sn |-> sn, cn |-> cn]}
      /\ UNCHANGED <<board, rx, queue, proved, finished, bad, late>>
  BY DEF HostNonce
<1>10. conn[c].up \o ps \in Seq(Parts) BY <1>3, <1>8
<1>11. conn' = [conn EXCEPT ![c].dn = Tail(conn[c].dn), ![c].up = conn[c].up \o ps]
  BY <1>2, <1>9 DEF TypeInv, TypeOK
<1>12. Edit(c, conn[c].up \o ps, Tail(conn[c].dn))
  <2> HIDE DEF c, ps
  <2> QED BY <1>2, <1>3, <1>10, <1>11, Edits DEF TypeInv
<1>13. HostTimeout(host[h].left) \in 0..Never
  <2>1. host[h].left \in 0..Deadline BY DEF TypeInv, TypeOK, Side
  <2> QED BY <2>1, Timeouts, HandshakeAssumption DEF Never
<1>14. /\ host' \in [Hosts -> Side(HostPc)] /\ host'[h].pc = "proof" /\ host'[h].c = c
       /\ host'[h].sn = sn /\ host'[h].cn = cn
       /\ host'[h].left = host[h].left /\ host'[h].spent = host[h].spent
       /\ host'[h].wait = HostTimeout(host[h].left)
       /\ \A g \in Hosts \ {h} : host'[g] = host[g]
  <2>1. host \in [Hosts -> Side(HostPc)] /\ host[h] \in Side(HostPc) BY DEF TypeInv, TypeOK
  <2>2. /\ host'[h] = [host[h] EXCEPT !.pc = "proof", !.sn = sn, !.cn = cn,
                                      !.wait = HostTimeout(host[h].left)]
        /\ DOMAIN host' = Hosts /\ \A g \in Hosts \ {h} : host'[g] = host[g]
        /\ host' = [g \in Hosts |-> host'[g]]
    BY <1>9, <2>1
  <2> DEFINE r == host[h]
             w == HostTimeout(host[h].left)
             q == host'[h]
  <2>3. /\ r \in Side(HostPc) /\ sn \in Nonces /\ cn \in Nonces /\ w \in 0..Never
        /\ q = [r EXCEPT !.pc = "proof", !.sn = sn, !.cn = cn, !.wait = w]
    BY <1>4, <1>6, <1>13, <2>1, <2>2
  <2> HIDE DEF c, cn, sn, r, w, q
  <2>4. /\ q \in Side(HostPc) /\ q.pc = "proof" /\ q.c = r.c /\ q.sn = sn /\ q.cn = cn
        /\ q.left = r.left /\ q.spent = r.spent /\ q.wait = w
    BY ONLY <2>3 DEF Side, HostPc
  <2> USE DEF r, w, q
  <2>5. \A g \in Hosts : host'[g] \in Side(HostPc) BY <2>1, <2>2, <2>4
  <2>6. host' \in [Hosts -> Side(HostPc)] BY <2>2, <2>5
  <2> QED BY <2>2, <2>4, <2>6 DEF c
<1>15. HostRun(h) \in Runs /\ begun' = begun \cup {HostRun(h)}
  BY <1>2, <1>4, <1>6, <1>7, <1>9 DEF Runs, HostRun, Challenge
<1>16. ps = HostParts(h) /\ sn = Challenge(h) BY DEF HostParts, Challenge
<1> HIDE DEF ps, sn
<1>17. heard' = heard \cup {Nonce(cn), Proof(ClientMac(Psk(h), sn, cn))} BY <1>8, <1>9
<1> HIDE DEF c, cn
<1>18. c = host[h].c /\ cn = nonces + 1 BY DEF c, cn
<1> QED BY <1>1, <1>2, <1>4, <1>6, <1>8, <1>9, <1>12, <1>14, <1>15, <1>16, <1>17, <1>18

LEMMA TypeHostNonce == ASSUME TypeInv, NEW h \in Hosts, HostNonce(h) PROVE TypeInv'
<1> DEFINE c == host[h].c
           m == ClientMac(Psk(h), Challenge(h), nonces + 1)
<1>1. /\ host[h].pc = "nonce" /\ c \in Conns \ Answered /\ conn[c].own = h
      /\ Challenge(h) \in Nonces /\ nonces + 1 \in Nonces
      /\ nonces + 1 <= Cardinality(Answered \cup {c}) + Cardinality(Opened \ Waiting)
      /\ conn' \in [Conns -> ConnState] /\ SameEnds
      /\ host' \in [Hosts -> Side(HostPc)] /\ \A g \in Hosts \ {h} : host'[g] = host[g]
      /\ host'[h].pc = "proof" /\ host'[h].c = c
      /\ heard' = heard \cup {Nonce(nonces + 1), Proof(m)}
      /\ begun' = begun \cup {HostRun(h)} /\ HostRun(h) \in Runs
      /\ nonces' = nonces + 1
      /\ UNCHANGED <<board, rx, queue, proved, finished, bad, late>>
  BY HostNonceEffect DEF Edit
<1>2. heard' \subseteq Parts BY <1>1, PartForms, MacForms DEF TypeInv, TypeOK
<1>3. TypeOK' BY <1>1, <1>2 DEF TypeInv, TypeOK, ConnState
<1>4. Opened' = Opened /\ Waiting' = Waiting BY <1>1, SameOpened DEF Waiting, Elems
<1>5. c \in Opened BY <1>1, HandshakeAssumption DEF Opened
<1>6. Answered' = Answered \cup {c}
  <2>1. HostRun(h).c = c BY DEF HostRun
  <2> HIDE DEF c
  <2> QED BY <1>1, <2>1 DEF Answered
<1>7. ASSUME NEW g \in Hosts, host'[g].pc # "off"
      PROVE  /\ host'[g].c \in Conns /\ conn'[host'[g].c].own = g
             /\ host'[g].pc = "nonce" => host'[g].c \notin Answered'
  BY <1>1, <1>6, <1>7 DEF SameEnds, TypeInv, CountInv
<1>8. CountInv' BY <1>1, <1>4, <1>5, <1>6, <1>7 DEF TypeInv, CountInv
<1> QED BY <1>3, <1>8 DEF TypeInv

(* A host that reads the board's proof is done, or leaves.                 *)
HostProved(h) == DnHead(h) = Proof(BoardMac(Psk(h), host[h].sn, host[h].cn))
LEMMA HostProofEffect ==
    ASSUME TypeInv, NEW h \in Hosts, HostProof(h)
    PROVE  /\ host[h].pc = "proof" /\ host[h].c \in Conns /\ conn[host[h].c].own = h
           /\ conn[host[h].c].dn # <<>> /\ DnHead(h) = Head(conn[host[h].c].dn)
           /\ Edit(host[h].c, conn[host[h].c].up, Tail(conn[host[h].c].dn))
           /\ \/ /\ HostProved(h) /\ bad' = bad
                 /\ host' = [host EXCEPT ![h].pc = "done"]
                 /\ finished' = finished \cup {[c |-> host[h].c, k |-> Psk(h), sn |-> host[h].sn,
                                                cn |-> host[h].cn]}
              \/ /\ ~HostProved(h) /\ bad' = bad \cup {host[h].c}
                 /\ host' = [host EXCEPT ![h] = Resting("off")] /\ finished' = finished
           /\ UNCHANGED <<board, rx, queue, nonces, heard, begun, proved, late>>
<1> DEFINE c == host[h].c
<1>1. /\ host[h].pc = "proof" /\ conn[c].dn # <<>> /\ DnHead(h) = Head(conn[c].dn)
      /\ UNCHANGED <<board, rx, queue, nonces, heard, begun, proved, late>>
  BY DEF HostProof, HasDn, DnHead
<1>2. c \in Conns /\ conn[c].own = h BY <1>1 DEF TypeInv, CountInv
<1>3. conn \in [Conns -> ConnState] BY DEF TypeInv, TypeOK, ConnState
<1>4. \/ /\ HostProved(h) /\ bad' = bad
         /\ host' = [host EXCEPT ![h].pc = "done"]
         /\ finished' = finished \cup {[c |-> c, k |-> Psk(h), sn |-> host[h].sn, cn |-> host[h].cn]}
         /\ conn' = [conn EXCEPT ![c].dn = Tail(@)]
      \/ /\ ~HostProved(h) /\ bad' = bad \cup {c}
         /\ host' = [host EXCEPT ![h] = Resting("off")] /\ finished' = finished
         /\ conn' = [conn EXCEPT ![c].dn = Tail(@), ![c].upEnd = TRUE]
  BY DEF HostProof, HostProved, HostLeft
<1>5. \/ conn' = [conn EXCEPT ![c].dn = Tail(conn[c].dn)]
      \/ conn' = [conn EXCEPT ![c].dn = Tail(conn[c].dn), ![c].upEnd = TRUE]
  BY <1>2, <1>3, <1>4
<1> HIDE DEF c
<1>6. Tail(conn[c].dn) \in Seq(Parts)
  <2>1. conn[c].dn \in Seq(Parts) BY <1>2, ConnType DEF TypeInv
  <2> QED BY <1>1, <2>1, TakePart
<1>7. Edit(c, conn[c].up, Tail(conn[c].dn)) BY <1>2, <1>5, <1>6, Edits DEF TypeInv
<1>8. c = host[h].c BY DEF c
<1> QED BY <1>1, <1>2, <1>4, <1>7, <1>8

LEMMA HostEndEffect ==
    ASSUME TypeInv, NEW h \in Hosts, HostEnd(h)
    PROVE  /\ host[h].c \in Conns /\ conn[host[h].c].own = h
           /\ Edit(host[h].c, conn[host[h].c].up, conn[host[h].c].dn)
           /\ host' = [host EXCEPT ![h] = Resting("off")]
           /\ UNCHANGED <<board, rx, queue, nonces, heard, begun, proved, finished, bad, late>>
<1>1. /\ host[h].pc # "off" /\ host' = [host EXCEPT ![h] = Resting("off")]
      /\ conn' = [conn EXCEPT ![host[h].c].upEnd = TRUE]
      /\ UNCHANGED <<board, rx, queue, nonces, heard, begun, proved, finished, bad, late>>
  BY DEF HostEnd, HostLeft, History
<1>2. host[h].c \in Conns /\ conn[host[h].c].own = h BY <1>1 DEF TypeInv, CountInv
<1> QED BY <1>1, <1>2, Edits DEF TypeInv

LEMMA TypeHostProof == ASSUME TypeInv, NEW h \in Hosts, HostProof(h) PROVE TypeInv'
<1> DEFINE c == host[h].c
           r == [c |-> c, k |-> Psk(h), sn |-> host[h].sn, cn |-> host[h].cn]
<1>1. /\ host[h].pc = "proof" /\ c \in Conns /\ conn[c].own = h
      /\ conn' \in [Conns -> ConnState] /\ SameEnds
      /\ \/ bad' = bad /\ host' = [host EXCEPT ![h].pc = "done"] /\ finished' = finished \cup {r}
         \/ bad' = bad \cup {c} /\ host' = [host EXCEPT ![h] = Resting("off")] /\ finished' = finished
      /\ UNCHANGED <<board, rx, queue, nonces, heard, begun, proved, late>>
  BY HostProofEffect DEF Edit
<1>2. host \in [Hosts -> Side(HostPc)] BY DEF TypeInv, TypeOK
<1>3. Resting("off") \in Side(HostPc) /\ Resting("off").pc = "off" BY RestingType DEF Resting
<1>4. /\ host' \in [Hosts -> Side(HostPc)] /\ HostsStay
  BY <1>1, <1>2, <1>3 DEF Side, HostPc, HostsStay
<1>5. r \in Runs BY <1>1, <1>2, MacForms DEF Runs, Side
<1>6. finished' \subseteq Runs /\ bad' \subseteq Conns BY <1>1, <1>5 DEF TypeInv, TypeOK
<1>7. TypeOK' BY <1>1, <1>4, <1>6 DEF TypeInv, TypeOK, ConnState
<1>8. CountInv' BY <1>1, <1>4, CountQuiet DEF RxStays
<1> QED BY <1>7, <1>8 DEF TypeInv

LEMMA TypeHostEnd == ASSUME TypeInv, NEW h \in Hosts, HostEnd(h) PROVE TypeInv'
<1>1. /\ conn' \in [Conns -> ConnState] /\ SameEnds
      /\ host' = [host EXCEPT ![h] = Resting("off")]
      /\ UNCHANGED <<board, rx, queue, nonces, heard, begun, proved, finished, bad, late>>
  BY HostEndEffect DEF Edit
<1>2. host \in [Hosts -> Side(HostPc)] BY DEF TypeInv, TypeOK
<1>3. Resting("off") \in Side(HostPc) /\ Resting("off").pc = "off" BY RestingType DEF Resting
<1>4. host' \in [Hosts -> Side(HostPc)] /\ HostsStay BY <1>1, <1>2, <1>3 DEF HostsStay
<1>5. TypeOK' BY <1>1, <1>4 DEF TypeInv, TypeOK, ConnState
<1>6. CountInv' BY <1>1, <1>4, CountQuiet DEF RxStays
<1> QED BY <1>5, <1>6 DEF TypeInv

(* The board accepts the connection that waits longest: it sends a fresh   *)
(* nonce, or closes it.                                                    *)
LEMMA RxAcceptEffect ==
    ASSUME TypeInv, RxAccept
    PROVE  /\ rx.pc = "idle" /\ Head(queue) \in Waiting /\ Head(queue) \in Conns
           /\ queue' = Tail(queue) /\ queue' \in Seq(Conns) /\ Waiting' = Waiting \ {Head(queue)}
           /\ \A i, j \in 1..Len(queue') : queue'[i] = queue'[j] => i = j
           /\ nonces + 1 \in Nonces
           /\ nonces + 1 <= Cardinality(Answered) + Cardinality((Opened \ Waiting) \cup {Head(queue)})
           /\ \/ /\ rx' = [Resting("nonce") EXCEPT !.c = Head(queue), !.sn = nonces + 1]
                 /\ Edit(Head(queue), conn[Head(queue)].up,
                         Append(conn[Head(queue)].dn, Nonce(nonces + 1)))
                 /\ heard' = heard \cup {Nonce(nonces + 1)} /\ nonces' = nonces + 1
              \/ /\ Edit(Head(queue), conn[Head(queue)].up, conn[Head(queue)].dn)
                 /\ UNCHANGED <<rx, heard, nonces>>
           /\ UNCHANGED <<board, host, begun, proved, finished, bad, late>>
<1> DEFINE c == Head(queue)
<1>1. /\ rx.pc = "idle" /\ queue # <<>> /\ queue' = Tail(queue)
      /\ \/ /\ rx' = [Resting("nonce") EXCEPT !.c = c, !.sn = nonces + 1]
            /\ conn' = [conn EXCEPT ![c].dn = Append(@, Nonce(nonces + 1))]
            /\ heard' = heard \cup {Nonce(nonces + 1)} /\ nonces' = nonces + 1
         \/ conn' = [conn EXCEPT ![c].dnEnd = TRUE] /\ UNCHANGED <<rx, heard, nonces>>
      /\ UNCHANGED <<board, host, begun, proved, finished, bad, late>>
  BY DEF RxAccept, ServerNonce, Serves, History
<1>2. queue \in Seq(Conns) /\ conn \in [Conns -> ConnState] BY DEF TypeInv, TypeOK, ConnState
<1>3. /\ Len(queue) \in Nat \ {0} /\ c = queue[1] /\ queue' \in Seq(Conns)
      /\ Len(queue') = Len(queue) - 1 /\ \A i \in 1..Len(queue') : queue'[i] = queue[i + 1]
  BY <1>1, <1>2, HeadTailProperties, EmptySeq
<1>4. 1 \in 1..Len(queue) /\ \A i \in 1..Len(queue') : i + 1 \in 1..Len(queue) /\ i + 1 # 1
  BY <1>3
<1>5. c \in Waiting /\ c \in Conns BY <1>2, <1>3, <1>4 DEF Waiting, Elems
<1>6. \A i, j \in 1..Len(queue) : queue[i] = queue[j] => i = j BY DEF TypeInv, CountInv
<1>7. \A i, j \in 1..Len(queue') : queue'[i] = queue'[j] => i = j
  <2> TAKE i, j \in 1..Len(queue')
  <2>1. queue'[i] = queue'[j] => i + 1 = j + 1 BY <1>3, <1>4, <1>6
  <2> QED BY <2>1
<1>8. Waiting' = Waiting \ {c}
  <2>1. \A i \in 1..Len(queue') : queue'[i] \in Waiting /\ queue'[i] # c
    BY <1>3, <1>4, <1>6 DEF Waiting, Elems
  <2>2. ASSUME NEW i \in 1..Len(queue), queue[i] # c PROVE queue[i] \in Waiting'
    <3>1. i - 1 \in 1..Len(queue') /\ (i - 1) + 1 = i BY <1>3, <2>2
    <3>2. queue'[i - 1] = queue[i] BY <1>3, <3>1
    <3> QED BY <3>1, <3>2 DEF Waiting, Elems
  <2> QED BY <2>1, <2>2 DEF Waiting, Elems
<1> HIDE DEF c
<1>9. nonces \in Nat /\ Answered \subseteq Conns /\ Opened \ Waiting \subseteq Conns
  BY DEF TypeInv, TypeOK, Nonces, Answered, Opened
<1>10. /\ nonces + 1 \in Nonces
       /\ nonces + 1 <= Cardinality(Answered) + Cardinality((Opened \ Waiting) \cup {c})
  <2>1. c \notin Opened \ Waiting BY <1>5
  <2>2. nonces <= Cardinality(Answered) + Cardinality(Opened \ Waiting) BY DEF TypeInv, CountInv
  <2>3. Cardinality(Answered) \in Nat /\ Cardinality(Opened \ Waiting) \in Nat
    BY <1>9, ConnsCount
  <2>4. nonces <= Cardinality(Opened \ Waiting) + Cardinality(Answered) BY <1>9, <2>2, <2>3
  <2> QED BY <1>5, <1>9, <2>1, <2>4, CountRoom
<1>11. Append(conn[c].dn, Nonce(nonces + 1)) \in Seq(Parts)
  <2>1. conn[c].dn \in Seq(Parts) BY <1>5, ConnType DEF TypeInv
  <2>2. Nonce(nonces + 1) \in Parts BY <1>10, PartForms
  <2> QED BY <2>1, <2>2, AppendProperties
<1>12. \/ /\ rx' = [Resting("nonce") EXCEPT !.c = c, !.sn = nonces + 1]
          /\ Edit(c, conn[c].up, Append(conn[c].dn, Nonce(nonces + 1)))
          /\ heard' = heard \cup {Nonce(nonces + 1)} /\ nonces' = nonces + 1
       \/ Edit(c, conn[c].up, conn[c].dn) /\ UNCHANGED <<rx, heard, nonces>>
  <2>1. CASE conn' = [conn EXCEPT ![c].dnEnd = TRUE] /\ UNCHANGED <<rx, heard, nonces>>
    BY <1>5, <2>1, Edits DEF TypeInv
  <2>2. CASE conn' = [conn EXCEPT ![c].dn = Append(@, Nonce(nonces + 1))]
    <3>1. conn' = [conn EXCEPT ![c].dn = Append(conn[c].dn, Nonce(nonces + 1))] BY <1>2, <1>5, <2>2
    <3>2. Edit(c, conn[c].up, Append(conn[c].dn, Nonce(nonces + 1)))
      BY <1>5, <1>11, <3>1, Edits DEF TypeInv
    <3>3. ~(conn' = [conn EXCEPT ![c].dnEnd = TRUE] /\ UNCHANGED <<rx, heard, nonces>>)
           => /\ rx' = [Resting("nonce") EXCEPT !.c = c, !.sn = nonces + 1]
              /\ heard' = heard \cup {Nonce(nonces + 1)} /\ nonces' = nonces + 1
      BY <1>1
    <3> QED BY <2>1, <3>2, <3>3
  <2> QED BY <1>1, <2>1, <2>2
<1>13. c = Head(queue) BY DEF c
<1> QED BY <1>1, <1>3, <1>5, <1>7, <1>8, <1>10, <1>12, <1>13

LEMMA TypeRxAccept == ASSUME TypeInv, RxAccept PROVE TypeInv'
<1> DEFINE c == Head(queue)
           st == [Resting("nonce") EXCEPT !.c = c, !.sn = nonces + 1]
<1>1. /\ c \in Waiting /\ c \in Conns /\ queue' \in Seq(Conns) /\ Waiting' = Waiting \ {c}
      /\ \A i, j \in 1..Len(queue') : queue'[i] = queue'[j] => i = j
      /\ nonces + 1 \in Nonces
      /\ nonces + 1 <= Cardinality(Answered) + Cardinality((Opened \ Waiting) \cup {c})
      /\ \/ rx' = st /\ heard' = heard \cup {Nonce(nonces + 1)} /\ nonces' = nonces + 1
         \/ UNCHANGED <<rx, heard, nonces>>
      /\ conn' \in [Conns -> ConnState] /\ SameEnds
      /\ UNCHANGED <<board, host, begun, proved, finished, bad, late>>
  BY RxAcceptEffect DEF Edit
<1> HIDE DEF c
<1>2. rx \in Side(RxPc) /\ heard \subseteq Parts /\ nonces \in Nonces /\ nonces \in Nat
  BY DEF TypeInv, TypeOK, Nonces
<1>3. st \in Side(RxPc) /\ st.c = c BY <1>1, RestingType DEF Resting
<1>4. rx' \in Side(RxPc) /\ heard' \subseteq Parts /\ nonces' \in Nonces
  BY <1>1, <1>2, <1>3, PartForms
<1>5. TypeOK' BY <1>1, <1>4 DEF TypeInv, TypeOK, ConnState
<1>6. Answered' = Answered /\ Opened' = Opened BY <1>1, SameOpened DEF Answered
<1>7. c \in Opened /\ Opened \subseteq Conns BY <1>1 DEF TypeInv, CountInv, Opened
<1>8. Opened' \ Waiting' = (Opened \ Waiting) \cup {c} BY <1>1, <1>6, <1>7
<1>9. nonces' <= Cardinality(Answered') + Cardinality(Opened' \ Waiting')
  <2>1. /\ Cardinality(Answered) \in Nat
        /\ Cardinality((Opened \ Waiting) \cup {c}) \in Nat
    <3>1. Answered \subseteq Conns /\ (Opened \ Waiting) \cup {c} \subseteq Conns
      BY <1>7 DEF Answered
    <3> QED BY <3>1, ConnsCount
  <2>2. nonces' <= nonces + 1 BY <1>1, <1>2
  <2>3. nonces' \in Nat BY <1>4 DEF Nonces
  <2>4. nonces' <= Cardinality(Answered) + Cardinality((Opened \ Waiting) \cup {c})
    BY <1>1, <1>2, <2>1, <2>2, <2>3
  <2> QED BY <1>6, <1>8, <2>4
<1>10. rx'.pc # "idle" => rx'.c \in Conns
  <2>1. CASE rx' = st BY ONLY <1>1, <1>3, <2>1
  <2>2. CASE rx' = rx BY <2>2 DEF TypeInv, CountInv
  <2> QED BY <1>1, <2>1, <2>2
<1>11. CountInv' BY <1>1, <1>6, <1>9, <1>10 DEF TypeInv, CountInv, SameEnds
<1> QED BY <1>5, <1>11 DEF TypeInv

(* The board reads the host's nonce, then its proof; sends its own; leaves.*)
LEMMA RxNonceEffect ==
    ASSUME TypeInv, RxNonce
    PROVE  /\ rx.pc = "nonce" /\ rx.c \in Conns /\ conn[rx.c].up # <<>>
           /\ Head(conn[rx.c].up) \in Parts /\ Head(conn[rx.c].up) = Nonce(rx'.cn)
           /\ rx' \in Side(RxPc) /\ rx'.pc = "mac" /\ rx'.c = rx.c /\ rx'.sn = rx.sn
           /\ rx'.left = rx.left /\ rx'.spent = rx.spent
           /\ rx'.wait = RxTimeout(rx.left) /\ rx'.at = rx.spent
           /\ Edit(rx.c, Tail(conn[rx.c].up), conn[rx.c].dn)
           /\ UNCHANGED <<board, host, queue, nonces, heard, begun, proved, finished, bad, late>>
<1> DEFINE c == rx.c
<1>1. /\ rx.pc = "nonce" /\ conn[c].up # <<>> /\ UpHead = Head(conn[c].up) /\ "nonce" \in DOMAIN UpHead
      /\ rx' = [rx EXCEPT !.pc = "mac", !.cn = UpHead.nonce, !.left = rx.left,
                          !.wait = RxTimeout(rx.left), !.at = rx.spent]
      /\ conn' = [conn EXCEPT ![c].up = Tail(@)]
      /\ UNCHANGED <<board, host, queue, nonces, heard, begun, proved, finished, bad, late>>
  BY DEF RxNonce, HasUp, UpHead, Left, History
<1>2. c \in Conns BY <1>1 DEF TypeInv, CountInv
<1>3. conn \in [Conns -> ConnState] /\ rx \in Side(RxPc) BY DEF TypeInv, TypeOK, ConnState
<1>4. conn' = [conn EXCEPT ![c].up = Tail(conn[c].up)] BY <1>1, <1>2, <1>3
<1> HIDE DEF c
<1>5. UpHead \in Parts /\ Tail(conn[c].up) \in Seq(Parts)
  <2>1. conn[c].up \in Seq(Parts) BY <1>2, ConnType DEF TypeInv
  <2> QED BY <1>1, <2>1, TakePart
<1>6. UpHead.nonce \in Nonces /\ UpHead = Nonce(UpHead.nonce) BY <1>1, <1>5, PartForms
<1>7. /\ rx' \in Side(RxPc) /\ rx'.pc = "mac" /\ rx'.c = rx.c /\ rx'.sn = rx.sn
      /\ rx'.cn = UpHead.nonce /\ rx'.left = rx.left /\ rx'.spent = rx.spent
      /\ rx'.wait = RxTimeout(rx.left) /\ rx'.at = rx.spent
  <2>1. rx.left \in 0..Deadline /\ rx.spent \in 0..Beyond BY <1>3 DEF Side
  <2>2. RxTimeout(rx.left) \in 0..Never BY <2>1, Timeouts, HandshakeAssumption DEF Never
  <2> QED BY <1>1, <1>3, <1>6, <2>1, <2>2 DEF Side, RxPc
<1>8. Edit(c, Tail(conn[c].up), conn[c].dn) BY <1>2, <1>4, <1>5, Edits DEF TypeInv
<1>9. c = rx.c BY DEF c
<1> QED BY <1>1, <1>2, <1>5, <1>6, <1>7, <1>8, <1>9

HostAnswered == UpHead = Proof(BoardExpects(board.psk, rx.sn, rx.cn))
LEMMA RxMacEffect ==
    ASSUME TypeInv, RxMac
    PROVE  /\ rx.pc = "mac" /\ rx.c \in Conns /\ conn[rx.c].up # <<>>
           /\ UpHead = Head(conn[rx.c].up) /\ UpHead \in Parts
           /\ Edit(rx.c, Tail(conn[rx.c].up), conn[rx.c].dn)
           /\ \/ HostAnswered /\ rx' = [rx EXCEPT !.pc = "prove"] /\ bad' = bad
              \/ ~HostAnswered /\ rx' = Resting("idle") /\ bad' = bad \cup {rx.c}
           /\ UNCHANGED <<board, host, queue, nonces, heard, begun, proved, finished, late>>
<1> DEFINE c == rx.c
<1>1. /\ rx.pc = "mac" /\ conn[c].up # <<>> /\ UpHead = Head(conn[c].up)
      /\ UNCHANGED <<board, host, queue, nonces, heard, begun, proved, finished, late>>
  BY DEF RxMac, HasUp, UpHead
<1>2. c \in Conns BY <1>1 DEF TypeInv, CountInv
<1>3. conn \in [Conns -> ConnState] BY DEF TypeInv, TypeOK, ConnState
<1>4. \/ /\ HostAnswered /\ rx' = [rx EXCEPT !.pc = "prove"] /\ bad' = bad
         /\ conn' = [conn EXCEPT ![c].up = Tail(@)]
      \/ /\ ~HostAnswered /\ rx' = Resting("idle") /\ bad' = bad \cup {c}
         /\ conn' = [conn EXCEPT ![c].up = Tail(@), ![c].dnEnd = TRUE]
  BY DEF RxMac, HostAnswered
<1>5. \/ conn' = [conn EXCEPT ![c].up = Tail(conn[c].up)]
      \/ conn' = [conn EXCEPT ![c].up = Tail(conn[c].up), ![c].dnEnd = TRUE]
  BY <1>2, <1>3, <1>4
<1> HIDE DEF c
<1>6. UpHead \in Parts /\ Tail(conn[c].up) \in Seq(Parts)
  <2>1. conn[c].up \in Seq(Parts) BY <1>2, ConnType DEF TypeInv
  <2> QED BY <1>1, <2>1, TakePart
<1>7. Edit(c, Tail(conn[c].up), conn[c].dn) BY <1>2, <1>5, <1>6, Edits DEF TypeInv
<1>8. c = rx.c BY DEF c
<1> QED BY <1>1, <1>2, <1>4, <1>6, <1>7, <1>8

BoardRun == [c |-> rx.c, k |-> board.psk, sn |-> rx.sn, cn |-> rx.cn]
BoardPart == Proof(BoardProves(board.psk, rx.sn, rx.cn))
LEMMA RxProveEffect ==
    ASSUME TypeInv, RxProve
    PROVE  /\ rx.pc = "prove" /\ rx.c \in Conns /\ BoardPart \in Parts /\ BoardRun \in Runs
           /\ Edit(rx.c, conn[rx.c].up, Append(conn[rx.c].dn, BoardPart))
           /\ heard' = heard \cup {BoardPart} /\ proved' = proved \cup {BoardRun}
           /\ rx' = Resting("idle")
           /\ late' = IF board.claimed THEN late ELSE late \cup {BoardRun}
           /\ UNCHANGED <<board, host, queue, nonces, begun, finished, bad>>
<1> DEFINE c == rx.c
<1>1. /\ rx.pc = "prove" /\ conn' = [conn EXCEPT ![c].dn = Append(@, BoardPart)]
      /\ heard' = heard \cup {BoardPart} /\ proved' = proved \cup {BoardRun}
      /\ rx' = Resting("idle")
      /\ late' = IF board.claimed THEN late ELSE late \cup {BoardRun}
      /\ UNCHANGED <<board, host, queue, nonces, begun, finished, bad>>
  BY DEF RxProve, BoardRun, BoardPart
<1>2. c \in Conns BY <1>1 DEF TypeInv, CountInv
<1>3. conn \in [Conns -> ConnState] /\ rx \in Side(RxPc) BY DEF TypeInv, TypeOK, ConnState
<1>4. rx.sn \in Nonces /\ rx.cn \in Nonces BY <1>3 DEF Side
<1>5. board.psk \in Keys BY DEF TypeInv, TypeOK
<1>6. BoardPart \in Parts BY <1>4, <1>5, PartForms, MacForms DEF BoardPart
<1>7. BoardRun \in Runs BY <1>2, <1>4, <1>5 DEF BoardRun, Runs
<1>8. conn' = [conn EXCEPT ![c].dn = Append(conn[c].dn, BoardPart)] BY <1>1, <1>2, <1>3
<1> HIDE DEF c
<1>9. Append(conn[c].dn, BoardPart) \in Seq(Parts)
  <2>1. conn[c].dn \in Seq(Parts) BY <1>2, ConnType DEF TypeInv
  <2> QED BY <1>6, <2>1, AppendProperties
<1>10. Edit(c, conn[c].up, Append(conn[c].dn, BoardPart)) BY <1>2, <1>8, <1>9, Edits DEF TypeInv
<1>11. c = rx.c BY DEF c
<1> QED BY <1>1, <1>2, <1>6, <1>7, <1>10, <1>11

LEMMA RxEndEffect ==
    ASSUME TypeInv, RxEnd
    PROVE  /\ rx.c \in Conns /\ Edit(rx.c, conn[rx.c].up, conn[rx.c].dn)
           /\ rx' = Resting("idle")
           /\ UNCHANGED <<board, host, queue, nonces, heard, begun, proved, finished, bad, late>>
<1>1. /\ rx.pc # "idle" /\ rx' = Resting("idle") /\ conn' = [conn EXCEPT ![rx.c].dnEnd = TRUE]
      /\ UNCHANGED <<board, host, queue, nonces, heard, begun, proved, finished, bad, late>>
  BY DEF RxEnd, History
<1>2. rx.c \in Conns BY <1>1 DEF TypeInv, CountInv
<1> QED BY <1>1, <1>2, Edits DEF TypeInv

LEMMA TypeRx == ASSUME TypeInv, RxNonce \/ RxMac \/ RxProve \/ RxEnd PROVE TypeInv'
<1> USE DEF HostsStay, RxStays
<1>1. Resting("idle") \in Side(RxPc) /\ Resting("idle").pc = "idle" BY RestingType DEF Resting
<1>2. rx \in Side(RxPc) BY DEF TypeInv, TypeOK
<1>3. CASE RxNonce
  <2>1. /\ conn' \in [Conns -> ConnState] /\ SameEnds /\ rx' \in Side(RxPc) /\ RxStays
        /\ UNCHANGED <<board, host, queue, nonces, heard, begun, proved, finished, bad, late>>
    BY <1>3, RxNonceEffect DEF Edit
  <2>2. CountInv' BY <2>1, CountQuiet
  <2>3. TypeOK' BY <2>1 DEF TypeInv, TypeOK, ConnState
  <2> QED BY <2>2, <2>3 DEF TypeInv
<1>4. CASE RxMac
  <2>1. /\ conn' \in [Conns -> ConnState] /\ SameEnds /\ rx.pc = "mac" /\ rx.c \in Conns
        /\ \/ rx' = [rx EXCEPT !.pc = "prove"] /\ bad' = bad
           \/ rx' = Resting("idle") /\ bad' = bad \cup {rx.c}
        /\ UNCHANGED <<board, host, queue, nonces, heard, begun, proved, finished, late>>
    BY <1>4, RxMacEffect DEF Edit
  <2>2. rx' \in Side(RxPc) /\ RxStays BY <1>1, <1>2, <2>1 DEF Side, RxPc
  <2>3. bad' \subseteq Conns BY <2>1 DEF TypeInv, TypeOK
  <2>4. CountInv' BY <2>1, <2>2, CountQuiet
  <2>5. TypeOK' BY <2>1, <2>2, <2>3 DEF TypeInv, TypeOK, ConnState
  <2> QED BY <2>4, <2>5 DEF TypeInv
<1>5. CASE RxProve
  <2>1. /\ conn' \in [Conns -> ConnState] /\ SameEnds /\ rx' = Resting("idle")
        /\ BoardPart \in Parts /\ BoardRun \in Runs
        /\ heard' = heard \cup {BoardPart} /\ proved' = proved \cup {BoardRun}
        /\ late' = IF board.claimed THEN late ELSE late \cup {BoardRun}
        /\ UNCHANGED <<board, host, queue, nonces, begun, finished, bad>>
    BY <1>5, RxProveEffect DEF Edit
  <2>2. heard' \subseteq Parts /\ proved' \subseteq Runs /\ late' \subseteq Runs BY <2>1 DEF TypeInv, TypeOK
  <2>3. CountInv' BY <1>1, <2>1, CountQuiet
  <2>4. TypeOK' BY <1>1, <2>1, <2>2 DEF TypeInv, TypeOK, ConnState
  <2> QED BY <2>3, <2>4 DEF TypeInv
<1>6. CASE RxEnd
  <2>1. /\ conn' \in [Conns -> ConnState] /\ SameEnds /\ rx' = Resting("idle")
        /\ UNCHANGED <<board, host, queue, nonces, heard, begun, proved, finished, bad, late>>
    BY <1>6, RxEndEffect DEF Edit
  <2>2. CountInv' BY <1>1, <2>1, CountQuiet
  <2>3. TypeOK' BY <1>1, <2>1 DEF TypeInv, TypeOK, ConnState
  <2> QED BY <2>2, <2>3 DEF TypeInv
<1> QED BY <1>3, <1>4, <1>5, <1>6

(* The HTTP task and the restart of the board.                             *)
LEMMA BoardEffect ==
    ASSUME TypeInv, Erase \/ Unflag \/ Restart
    PROVE  /\ board' \in [psk : Keys, claimed : BOOLEAN, restarts : 0..MaxRestarts]
           /\ board'.psk = board.psk \/ board'.psk = Zero
           /\ conn' \in [Conns -> ConnState] /\ SameEnds
           /\ \A c \in Conns : conn'[c].up = conn[c].up /\ conn'[c].dn = conn[c].dn
           /\ (rx' = rx /\ queue' = queue) \/ (rx' = Resting("idle") /\ queue' = <<>>)
           /\ UNCHANGED <<host, nonces, heard, begun, proved, finished, bad, late>>
<1>1. /\ conn \in [Conns -> ConnState]
      /\ board \in [psk : Keys, claimed : BOOLEAN, restarts : 0..MaxRestarts]
  BY DEF TypeInv, TypeOK, ConnState
<1>2. CASE Erase \/ Unflag
  <2>1. UNCHANGED <<rx, conn, queue, host, nonces, heard, begun, proved, finished, bad, late>>
    BY <1>2 DEF Erase, Unflag, History
  <2>2. board' = [board EXCEPT !.psk = Zero] \/ board' = [board EXCEPT !.claimed = FALSE]
    BY <1>2 DEF Erase, Unflag
  <2>3. Zero \in Keys BY DEF Keys
  <2>4. board' \in [psk : Keys, claimed : BOOLEAN, restarts : 0..MaxRestarts]
    BY <1>1, <2>2, <2>3
  <2>5. board'.psk = board.psk \/ board'.psk = Zero BY <1>1, <2>2
  <2> QED BY <1>1, <2>1, <2>4, <2>5 DEF SameEnds
<1>3. CASE Restart
  <2>1. /\ rx' = Resting("idle") /\ queue' = <<>> /\ board.restarts < MaxRestarts
        /\ UNCHANGED <<host, nonces, heard, begun, proved, finished, bad, late>>
    BY <1>3 DEF Restart, History
  <2>2. board' = [board EXCEPT !.restarts = @ + 1, !.claimed = board.psk = Key]
    BY <1>3 DEF Restart
  <2>3. board.restarts + 1 \in 0..MaxRestarts BY <1>1, <2>1, HandshakeAssumption
  <2>4. (board.psk = Key) \in BOOLEAN OBVIOUS
  <2>5. board' \in [psk : Keys, claimed : BOOLEAN, restarts : 0..MaxRestarts]
    BY <1>1, <2>2, <2>3, <2>4
  <2>6. board'.psk = board.psk BY <1>1, <2>2
  <2>7. conn' = [c \in Conns |-> IF conn[c].to = "board" THEN [conn[c] EXCEPT !.dnEnd = TRUE]
                                                          ELSE conn[c]]
    BY <1>3 DEF Restart
  <2>8. conn' \in [Conns -> ConnState]
    <3>1. \A r \in ConnState : [r EXCEPT !.dnEnd = TRUE] \in ConnState BY DEF ConnState
    <3> QED BY <1>1, <2>7, <3>1
  <2>9. \A c \in Conns : /\ conn'[c].own = conn[c].own /\ conn'[c].to = conn[c].to
                         /\ conn'[c].up = conn[c].up /\ conn'[c].dn = conn[c].dn
    BY <1>1, <2>7 DEF ConnState
  <2> QED BY <2>1, <2>5, <2>6, <2>8, <2>9 DEF SameEnds
<1> QED BY <1>2, <1>3

LEMMA TypeBoard == ASSUME TypeInv, Erase \/ Unflag \/ Restart PROVE TypeInv'
<1>1. /\ board' \in [psk : Keys, claimed : BOOLEAN, restarts : 0..MaxRestarts]
      /\ conn' \in [Conns -> ConnState] /\ SameEnds
      /\ (rx' = rx /\ queue' = queue) \/ (rx' = Resting("idle") /\ queue' = <<>>)
      /\ UNCHANGED <<host, nonces, heard, begun, proved, finished, bad, late>>
  BY BoardEffect
<1>2. Resting("idle") \in Side(RxPc) /\ Resting("idle").pc = "idle" BY RestingType DEF Resting
<1>3. rx' \in Side(RxPc) /\ queue' \in Seq(Conns)
  <2>1. rx \in Side(RxPc) /\ queue \in Seq(Conns) /\ <<>> \in Seq(Conns) BY DEF TypeInv, TypeOK
  <2> QED BY <1>1, <1>2, <2>1
<1>4. TypeOK' BY <1>1, <1>3 DEF TypeInv, TypeOK, ConnState
<1>5. CASE rx' = rx /\ queue' = queue
  <2>1. CountInv' BY <1>1, <1>5, CountQuiet DEF HostsStay, RxStays
  <2> QED BY <1>4, <2>1 DEF TypeInv
<1>6. CASE rx' = Resting("idle") /\ queue' = <<>>
  <2>1. Opened' = Opened /\ Answered' = Answered BY <1>1, SameOpened DEF Answered
  <2>2. Waiting' = {} BY <1>6 DEF Waiting, Elems
  <2>3. /\ Answered \subseteq Conns /\ Opened' \ Waiting' \subseteq Conns /\ nonces \in Nat
        /\ Opened \ Waiting \subseteq Opened' \ Waiting'
    BY <2>1, <2>2 DEF TypeInv, TypeOK, Nonces, Answered, Opened
  <2>4. nonces <= Cardinality(Answered) + Cardinality(Opened' \ Waiting')
    BY <2>3, CountGrows DEF TypeInv, CountInv
  <2>5. Len(queue') = 0 BY <1>6
  <2>6. CountInv' BY <1>1, <1>2, <1>6, <2>1, <2>2, <2>4, <2>5 DEF TypeInv, CountInv, SameEnds
  <2> QED BY <1>4, <2>6 DEF TypeInv
<1> QED BY <1>1, <1>5, <1>6

(* Time passes for one side.                                               *)
LEMMA AgedType ==
    ASSUME NEW pcs, NEW s \in Side(pcs), s.wait # 0
    PROVE  /\ Aged(s) \in Side(pcs) /\ Aged(s).pc = s.pc /\ Aged(s).c = s.c
           /\ Aged(s).sn = s.sn /\ Aged(s).cn = s.cn
           /\ HostTime(s) => HostTime(Aged(s))
           /\ RxTime(s) => RxTime(Aged(s))
<1>1. /\ s.left \in 0..Deadline /\ s.spent \in 0..(Deadline + 1) /\ s.at \in 0..(Deadline + 1)
      /\ s.wait \in 1..(Deadline + 1) /\ Deadline \in Nat /\ Grain \in Nat
  BY HandshakeAssumption DEF Side, Beyond, Never
<1>2. /\ Aged(s).pc = s.pc /\ Aged(s).c = s.c /\ Aged(s).sn = s.sn /\ Aged(s).cn = s.cn
      /\ Aged(s).left = IF s.left = 0 THEN 0 ELSE s.left - 1
      /\ Aged(s).spent = IF s.spent = Deadline + 1 THEN Deadline + 1 ELSE s.spent + 1
      /\ Aged(s).wait = IF s.wait = Deadline + 1 THEN Deadline + 1 ELSE s.wait - 1
      /\ Aged(s).at = s.at
  BY DEF Side, Aged, Beyond, Never
<1>3. /\ Aged(s).left \in 0..Deadline /\ Aged(s).spent \in 0..Beyond /\ Aged(s).wait \in 0..Never
  BY <1>1, <1>2 DEF Beyond, Never
<1>4. Aged(s) \in Side(pcs)
  <2> DEFINE l == Aged(s).left  t == Aged(s).spent  w == Aged(s).wait
  <2>1. Aged(s) = [s EXCEPT !.left = l, !.spent = t, !.wait = w]
    BY <1>2 DEF Side, Aged, Beyond, Never
  <2>2. l \in 0..Deadline /\ t \in 0..Beyond /\ w \in 0..Never BY <1>3
  <2> HIDE DEF l, t, w
  <2> QED BY <2>1, <2>2 DEF Side
<1>5. HostTime(s) => HostTime(Aged(s)) BY <1>1, <1>2 DEF HostTime
<1>6. RxTime(s) => RxTime(Aged(s)) BY <1>1, <1>2 DEF RxTime, Never
<1> QED BY <1>2, <1>4, <1>5, <1>6

LEMMA TickEffect ==
    ASSUME TypeInv, Tick
    PROVE  /\ rx' \in Side(RxPc) /\ rx'.pc = rx.pc /\ rx'.c = rx.c /\ rx'.sn = rx.sn /\ rx'.cn = rx.cn
           /\ RxTime(rx) => RxTime(rx')
           /\ host' \in [Hosts -> Side(HostPc)]
           /\ \A h \in Hosts : /\ host'[h].pc = host[h].pc /\ host'[h].c = host[h].c
                               /\ host'[h].sn = host[h].sn /\ host'[h].cn = host[h].cn
                               /\ HostTime(host[h]) => HostTime(host'[h])
           /\ UNCHANGED <<board, conn, queue, nonces, heard, begun, proved, finished, bad, late>>
<1>1. rx \in Side(RxPc) /\ host \in [Hosts -> Side(HostPc)] BY DEF TypeInv, TypeOK
<1>2. /\ rx' = IF RxWaits THEN Aged(rx) ELSE rx
      /\ host' = [h \in Hosts |-> IF HostWaits(h) THEN Aged(host[h]) ELSE host[h]]
      /\ RxWaits => rx.wait # 0
      /\ \A h \in Hosts : HostWaits(h) => host[h].wait # 0
      /\ UNCHANGED <<board, conn, queue, nonces, heard, begun, proved, finished, bad, late>>
  BY DEF Tick, History
<1>3. /\ rx' \in Side(RxPc) /\ rx'.pc = rx.pc /\ rx'.c = rx.c /\ rx'.sn = rx.sn /\ rx'.cn = rx.cn
      /\ RxTime(rx) => RxTime(rx')
  BY <1>1, <1>2, AgedType
<1>4. ASSUME NEW h \in Hosts
      PROVE  /\ host'[h] \in Side(HostPc) /\ host'[h].pc = host[h].pc /\ host'[h].c = host[h].c
             /\ host'[h].sn = host[h].sn /\ host'[h].cn = host[h].cn
             /\ HostTime(host[h]) => HostTime(host'[h])
  <2>1. host[h] \in Side(HostPc) BY <1>1
  <2>2. host'[h] = IF HostWaits(h) THEN Aged(host[h]) ELSE host[h] BY <1>2
  <2> QED BY <1>2, <2>1, <2>2, AgedType
<1>5. host' \in [Hosts -> Side(HostPc)] BY <1>2, <1>4
<1> QED BY <1>2, <1>3, <1>4, <1>5

LEMMA TypeTick == ASSUME TypeInv, Tick PROVE TypeInv'
<1>1. /\ rx' \in Side(RxPc) /\ host' \in [Hosts -> Side(HostPc)] /\ rx'.pc = rx.pc /\ rx'.c = rx.c
      /\ \A h \in Hosts : host'[h].pc = host[h].pc /\ host'[h].c = host[h].c
      /\ UNCHANGED <<board, conn, queue, nonces, heard, begun, proved, finished, bad, late>>
  BY TickEffect
<1>2. SameEnds BY <1>1 DEF SameEnds
<1>3. CountInv' BY <1>1, <1>2, CountQuiet DEF HostsStay, RxStays
<1>4. TypeOK' BY <1>1 DEF TypeInv, TypeOK
<1> QED BY <1>3, <1>4 DEF TypeInv

LEMMA TypeStep == TypeInv /\ [Next]_vars => TypeInv'
<1> SUFFICES ASSUME TypeInv, [Next]_vars PROVE TypeInv' OBVIOUS
<1>1. ASSUME NEW c \in Conns, (\E h \in Hosts : Connect(h, c)) \/ MimicOpen(c) \/ MimicSend(c)
      PROVE  TypeInv'
  BY <1>1, TypeOpen, TypeMimicSend
<1>2. ASSUME NEW h \in Hosts, HostNonce(h) \/ HostProof(h) \/ HostEnd(h) PROVE TypeInv'
  BY <1>2, TypeHostNonce, TypeHostProof, TypeHostEnd
<1>3. CASE RxAccept \/ RxNonce \/ RxMac \/ RxProve \/ RxEnd BY <1>3, TypeRxAccept, TypeRx
<1>4. CASE Erase \/ Unflag \/ Restart \/ Tick BY <1>4, TypeBoard, TypeTick
<1>5. CASE UNCHANGED vars
  BY <1>5 DEF vars, TypeInv, TypeOK, CountInv, Opened, Waiting, Answered
<1> QED BY <1>1, <1>2, <1>3, <1>4, <1>5 DEF Next

LEMMA TypeAlways == Spec => []TypeInv
BY TypeInit, TypeStep, PTL DEF Spec

(* The variables keep their types; in particular a connection costs at     *)
(* most one nonce of the board and one of the host, whoever ends it how.   *)
THEOREM HandshakeTypes == Spec => []TypeOK
<1>1. TypeInv => TypeOK BY DEF TypeInv
<1> QED BY <1>1, TypeAlways, PTL

-----------------------------------------------------------------------------
(* Time.                                                                   *)

(* What time says of a side it says of its clocks alone.                   *)
SameClocks(s, t) == s.left = t.left /\ s.spent = t.spent /\ s.wait = t.wait /\ s.at = t.at
LEMMA ClocksOnly ==
    ASSUME NEW s, NEW t, SameClocks(s, t)
    PROVE  (HostTime(t) => HostTime(s)) /\ (RxTime(t) => RxTime(s))
BY DEF SameClocks, HostTime, RxTime

(* A side that starts, or rests, has the whole deadline before it.         *)
LEMMA RestingTime ==
    ASSUME NEW pc, NEW c, NEW n, NEW s,
           \/ s = Resting(pc)
           \/ s = [Resting(pc) EXCEPT !.c = c]
           \/ s = [Resting(pc) EXCEPT !.c = c, !.sn = n]
    PROVE  HostTime(s) /\ RxTime(s)
<1> DEFINE r == Resting(pc)
<1>1. r.left = Deadline /\ r.spent = 0 /\ r.at = 0 /\ r.wait = Whole(Deadline)
  BY DEF Resting
<1>2. SameClocks(s, r)
  <2>1. CASE s = Resting(pc) BY <2>1 DEF SameClocks
  <2>2. CASE s = [Resting(pc) EXCEPT !.c = c] BY <2>2 DEF SameClocks, Resting
  <2>3. CASE s = [Resting(pc) EXCEPT !.c = c, !.sn = n] BY <2>3 DEF SameClocks, Resting
  <2> QED BY <2>1, <2>2, <2>3
<1> HIDE DEF r
<1>3. Whole(Deadline) \in 0..Deadline
  <2>1. Deadline \in 0..Deadline BY HandshakeAssumption
  <2> QED BY <2>1, Timeouts
<1>4. HostTime(r) /\ RxTime(r)
  BY <1>1, <1>3, HandshakeAssumption DEF HostTime, RxTime, Never
<1> QED BY <1>2, <1>4, ClocksOnly

LEMMA TimeStep == TypeInv /\ TimeInv /\ [Next]_vars => TimeInv'
<1> SUFFICES ASSUME TypeInv, TimeInv, [Next]_vars PROVE TimeInv' OBVIOUS
<1>1. rx \in Side(RxPc) /\ host \in [Hosts -> Side(HostPc)] BY DEF TypeInv, TypeOK
<1>2. ASSUME NEW c \in Conns, (\E h \in Hosts : Connect(h, c)) \/ MimicOpen(c) \/ MimicSend(c)
      PROVE  TimeInv'
  <2>1. UNCHANGED rx BY <1>2 DEF Connect, MimicOpen, MimicSend
  <2>2. \/ \E h \in Hosts : host' = [host EXCEPT ![h] = [Resting("nonce") EXCEPT !.c = c]]
        \/ host' = host
    BY <1>2 DEF Connect, MimicOpen, MimicSend
  <2>3. ASSUME NEW g \in Hosts PROVE HostTime(host'[g])
    <3>1. host'[g] = host[g] \/ host'[g] = [Resting("nonce") EXCEPT !.c = c] BY <1>1, <2>2
    <3>2. CASE host'[g] = [Resting("nonce") EXCEPT !.c = c] BY <3>2, RestingTime
    <3> QED BY <3>1, <3>2 DEF TimeInv
  <2> QED BY <2>1, <2>3 DEF TimeInv
<1>3. ASSUME NEW h \in Hosts, HostNonce(h) PROVE TimeInv'
  <2>1. /\ UNCHANGED rx /\ \A g \in Hosts \ {h} : host'[g] = host[g]
        /\ host'[h].left = host[h].left /\ host'[h].spent = host[h].spent
        /\ host'[h].wait = HostTimeout(host[h].left)
    BY <1>3, HostNonceEffect
  <2>2. host[h].left \in 0..Deadline BY <1>1 DEF Side
  <2>3. HostTimeout(host[h].left) <= host[h].left BY <2>2, Timeouts
  <2>4. HostTime(host'[h]) BY <2>1, <2>3 DEF TimeInv, HostTime
  <2> QED BY <2>1, <2>4 DEF TimeInv
<1>4. ASSUME NEW h \in Hosts, HostProof(h) \/ HostEnd(h) PROVE TimeInv'
  <2>1. /\ UNCHANGED rx
        /\ host' = [host EXCEPT ![h].pc = "done"] \/ host' = [host EXCEPT ![h] = Resting("off")]
    BY <1>4 DEF HostProof, HostEnd, HostLeft
  <2>2. \A g \in Hosts : SameClocks(host'[g], host[g]) \/ host'[g] = Resting("off")
    BY <1>1, <2>1 DEF Side, SameClocks
  <2>3. HostTime(Resting("off")) BY RestingTime
  <2>4. \A g \in Hosts : HostTime(host'[g]) BY <2>2, <2>3, ClocksOnly DEF TimeInv
  <2> QED BY <2>1, <2>4 DEF TimeInv
<1>5. CASE RxAccept
  <2>1. /\ UNCHANGED host
        /\ rx' = rx \/ rx' = [Resting("nonce") EXCEPT !.c = Head(queue), !.sn = nonces + 1]
    BY <1>5, RxAcceptEffect
  <2>2. RxTime(rx') BY <2>1, RestingTime DEF TimeInv
  <2> QED BY <2>1, <2>2 DEF TimeInv
<1>6. CASE RxNonce
  <2>1. /\ UNCHANGED host /\ rx'.left = rx.left /\ rx'.spent = rx.spent
        /\ rx'.wait = RxTimeout(rx.left) /\ rx'.at = rx.spent
    BY <1>6, RxNonceEffect
  <2>2. rx.left \in 0..Deadline /\ rx.spent \in Nat /\ RxTime(rx)
    BY <1>1, HandshakeAssumption DEF Side, Beyond, TimeInv
  <2>3. \/ rx'.wait \in 0..rx.left
        \/ rx'.wait = Never /\ 0 < rx.left /\ rx.left < Grain
    BY <2>1, <2>2, Timeouts
  <2>4. RxTime(rx') BY <2>1, <2>2, <2>3, HandshakeAssumption DEF RxTime, Never
  <2> QED BY <2>1, <2>4 DEF TimeInv
<1>7. CASE RxMac \/ RxProve \/ RxEnd
  <2>1. UNCHANGED host /\ (rx' = Resting("idle") \/ rx' = [rx EXCEPT !.pc = "prove"])
    BY <1>7 DEF RxMac, RxProve, RxEnd
  <2>2. rx' = Resting("idle") \/ SameClocks(rx', rx) BY <1>1, <2>1 DEF Side, SameClocks
  <2>3. RxTime(rx') BY <2>2, RestingTime, ClocksOnly DEF TimeInv
  <2> QED BY <2>1, <2>3 DEF TimeInv
<1>8. CASE Erase \/ Unflag \/ Restart
  <2>1. UNCHANGED host /\ (rx' = rx \/ rx' = Resting("idle")) BY <1>8, BoardEffect
  <2>2. RxTime(rx') BY <2>1, RestingTime DEF TimeInv
  <2> QED BY <2>1, <2>2 DEF TimeInv
<1>9. CASE Tick BY <1>9, TickEffect DEF TimeInv
<1>10. CASE UNCHANGED vars BY <1>10 DEF vars, TimeInv
<1> QED BY <1>2, <1>3, <1>4, <1>5, <1>6, <1>7, <1>8, <1>9, <1>10 DEF Next

(* No exchange holds a host longer than its one deadline, however the      *)
(* messages are cut and whoever is at the other end.  None holds the rx    *)
(* task longer either, except in a receive that began less than a          *)
(* millisecond before the deadline: the remainder that SO_RCVTIMEO then    *)
(* gets is no timeout.                                                     *)
THEOREM OneDeadline == Spec => []HandshakeBounded
<1>1. Init => TimeInv
  <2> SUFFICES ASSUME Init PROVE TimeInv OBVIOUS
  <2>1. rx = Resting("idle") /\ \A h \in Hosts : host[h] = Resting("off") BY DEF Init
  <2> QED BY <2>1, RestingTime DEF TimeInv
<1>2. TypeInv /\ TimeInv => HandshakeBounded
  <2> SUFFICES ASSUME TypeInv, TimeInv PROVE HandshakeBounded OBVIOUS
  <2>1. rx.spent > Deadline => rx.at > Deadline - Grain BY DEF TimeInv, RxTime
  <2>2. ASSUME NEW h \in Hosts PROVE host[h].spent <= Deadline
    <3>1. host[h].left \in 0..Deadline /\ host[h].spent \in 0..(Deadline + 1)
      BY DEF TypeInv, TypeOK, Side, Beyond
    <3> QED BY <3>1, HandshakeAssumption DEF TimeInv, HostTime
  <2> QED BY <2>1, <2>2 DEF HandshakeBounded
<1> QED BY <1>1, <1>2, TypeAlways, TimeStep, PTL DEF Spec

-----------------------------------------------------------------------------
(* Who sent what.                                                          *)

(* What is in a sequence after each way of changing it.                    *)
LEMMA ElemsOf ==
    ASSUME NEW S, NEW s \in Seq(S)
    PROVE  /\ s # <<>> => Head(s) \in Elems(s) /\ Elems(Tail(s)) \subseteq Elems(s)
           /\ \A v \in S : Elems(Append(s, v)) = Elems(s) \cup {v}
           /\ \A t \in Seq(S) : Elems(s \o t) = Elems(s) \cup Elems(t)
<1>1. ASSUME s # <<>> PROVE Head(s) \in Elems(s) /\ Elems(Tail(s)) \subseteq Elems(s)
  <2>1. /\ Len(s) \in Nat \ {0} /\ Head(s) = s[1] /\ Len(Tail(s)) = Len(s) - 1
        /\ \A i \in 1..Len(Tail(s)) : Tail(s)[i] = s[i + 1]
    BY <1>1, HeadTailProperties, EmptySeq
  <2>2. 1 \in 1..Len(s) /\ \A i \in 1..Len(Tail(s)) : i + 1 \in 1..Len(s) BY <2>1
  <2> QED BY <2>1, <2>2 DEF Elems
<1>2. ASSUME NEW v \in S PROVE Elems(Append(s, v)) = Elems(s) \cup {v}
  <2>1. /\ Len(s) \in Nat /\ Len(Append(s, v)) = Len(s) + 1 /\ Append(s, v)[Len(s) + 1] = v
        /\ \A i \in 1..Len(s) : Append(s, v)[i] = s[i]
    BY AppendProperties
  <2>2. \A i : i \in 1..(Len(s) + 1) <=> i \in 1..Len(s) \/ i = Len(s) + 1 BY <2>1
  <2> QED BY <2>1, <2>2 DEF Elems
<1>3. ASSUME NEW t \in Seq(S) PROVE Elems(s \o t) = Elems(s) \cup Elems(t)
  <2>1. /\ Len(s) \in Nat /\ Len(t) \in Nat /\ Len(s \o t) = Len(s) + Len(t)
        /\ \A i \in 1..Len(s) : (s \o t)[i] = s[i]
        /\ \A i \in 1..Len(t) : (s \o t)[Len(s) + i] = t[i]
    BY ConcatProperties
  <2>2. ASSUME NEW i \in 1..Len(s \o t) PROVE (s \o t)[i] \in Elems(s) \cup Elems(t)
    <3>1. CASE i \in 1..Len(s) BY <2>1, <3>1 DEF Elems
    <3>2. CASE i \notin 1..Len(s)
      <4>1. i - Len(s) \in 1..Len(t) /\ Len(s) + (i - Len(s)) = i BY <2>1, <2>2, <3>2
      <4>2. (s \o t)[i] = t[i - Len(s)] BY <2>1, <4>1
      <4> QED BY <4>1, <4>2 DEF Elems
    <3> QED BY <3>1, <3>2
  <2>3. /\ \A i \in 1..Len(s) : i \in 1..Len(s \o t)
        /\ \A i \in 1..Len(t) : Len(s) + i \in 1..Len(s \o t)
    BY <2>1
  <2>4. Elems(s) \subseteq Elems(s \o t) /\ Elems(t) \subseteq Elems(s \o t)
    BY <2>1, <2>3 DEF Elems
  <2>5. Elems(s \o t) \subseteq Elems(s) \cup Elems(t) BY <2>2 DEF Elems
  <2> QED BY <2>4, <2>5
<1> QED BY <1>1, <1>2, <1>3

LEMMA ElemsShort ==
    /\ Elems(<<>>) = {}
    /\ \A v : Elems(<<v>>) = {v}
    /\ \A v, w : Elems(<<v, w>>) = {v, w}
BY DEF Elems

(* What is sent is what was sent before, or known now.                     *)
LEMMA SentEdit ==
    ASSUME SentInv, NEW c \in Conns, NEW u, NEW d, Edit(c, u, d), heard \subseteq heard',
           Elems(u) \subseteq Elems(conn[c].up) \cup Known' \cup MadeUp,
           Elems(d) \subseteq Elems(conn[c].dn) \cup Known'
    PROVE  \A e \in Conns : /\ Elems(conn'[e].up) \subseteq Known' \cup MadeUp
                            /\ Elems(conn'[e].dn) \subseteq Known'
<1>1. Known \subseteq Known' BY DEF Known
<1>2. TAKE e \in Conns
<1>3. CASE e = c BY <1>1, <1>3 DEF SentInv, Edit
<1>4. CASE e # c
  <2>1. conn'[e] = conn[e] BY <1>4 DEF Edit
  <2> QED BY <1>1, <2>1 DEF SentInv
<1> QED BY <1>3, <1>4

LEMMA OriginKept ==
    ASSUME SentInv, begun \subseteq begun', proved \subseteq proved',
           NEW m \in Macs, Proof(m) \in heard
    PROVE  Origin(m)'
<1>1. Origin(m) BY DEF SentInv, Origin
<1> QED BY <1>1 DEF Origin

LEMMA SentStep == TypeInv /\ SentInv /\ [Next]_vars => SentInv'
<1> SUFFICES ASSUME TypeInv, SentInv, [Next]_vars PROVE SentInv' OBVIOUS
<1> DEFINE Travels == \A e \in Conns : /\ Elems(conn'[e].up) \subseteq Known' \cup MadeUp
                                       /\ Elems(conn'[e].dn) \subseteq Known'
<1>1. ASSUME UNCHANGED <<heard, begun, proved>>, Travels PROVE SentInv'
  BY <1>1 DEF SentInv, Origin, Known
<1>2. ASSUME NEW c \in Conns, NEW u, NEW d, Edit(c, u, d), UNCHANGED <<heard, begun, proved>>,
             Elems(u) \subseteq Elems(conn[c].up) \cup Known \cup MadeUp,
             Elems(d) \subseteq Elems(conn[c].dn) \cup Known
      PROVE  SentInv'
  <2>1. Known' = Known BY <1>2 DEF Known
  <2>2. Travels BY <1>2, <2>1, SentEdit
  <2> QED BY <1>1, <1>2, <2>2
<1>3. \A c \in Conns : conn[c].up \in Seq(Parts) /\ conn[c].dn \in Seq(Parts)
  BY ConnType DEF TypeInv
<1>4. ASSUME NEW c \in Conns, (\E h \in Hosts : Connect(h, c)) \/ MimicOpen(c) PROVE SentInv'
  <2>1. /\ conn \in [Conns -> ConnState] /\ UNCHANGED <<heard, begun, proved>>
        /\ \E own, to : conn' = [conn EXCEPT ![c].own = own, ![c].to = to]
    BY <1>4 DEF Connect, MimicOpen, Open, History, TypeInv, TypeOK, ConnState
  <2>2. \A e \in Conns : conn'[e].up = conn[e].up /\ conn'[e].dn = conn[e].dn
    BY <2>1 DEF ConnState
  <2>3. Travels BY <2>1, <2>2 DEF SentInv, Known
  <2> QED BY <1>1, <2>1, <2>3
<1>5. ASSUME NEW c \in Conns, MimicSend(c) PROVE SentInv'
  <2>1. UNCHANGED <<heard, begun, proved>> BY <1>5 DEF MimicSend, History
  <2>2. PICK v \in Known \cup {ZeroProof} :
             \/ conn' = [conn EXCEPT ![c].up = <<v>>]
             \/ conn' = [conn EXCEPT ![c].dn = <<v>>] /\ v \in Known
    BY <1>5 DEF MimicSend
  <2>3. <<v>> \in Seq(Parts)
    <3>1. Known \subseteq Parts BY PartForms, HandshakeAssumption DEF Known, TypeInv, TypeOK, Nonces
    <3>2. v \in Parts BY <3>1, ZeroProofForm
    <3> QED BY <3>2
  <2>4. Edit(c, <<v>>, conn[c].dn) \/ (Edit(c, conn[c].up, <<v>>) /\ v \in Known)
    BY <2>2, <2>3, Edits DEF TypeInv
  <2>5. Elems(<<v>>) = {v} /\ v \in Known \cup MadeUp BY ElemsShort, ZeroProofForm
  <2> QED BY <1>2, <2>1, <2>4, <2>5
<1>6. ASSUME NEW h \in Hosts, HostNonce(h) PROVE SentInv'
  <2> DEFINE c == host[h].c
             m == ClientMac(Psk(h), Challenge(h), nonces + 1)
  <2>1. /\ c \in Conns /\ conn[c].dn # <<>> /\ HostParts(h) \in Seq(Parts)
        /\ Edit(c, conn[c].up \o HostParts(h), Tail(conn[c].dn))
        /\ heard' = heard \cup {Nonce(nonces + 1), Proof(m)}
        /\ begun' = begun \cup {HostRun(h)} /\ UNCHANGED proved
        /\ Challenge(h) \in Nonces /\ nonces + 1 \in Nonces
    BY <1>6, HostNonceEffect
  <2>2. Elems(HostParts(h)) = {Nonce(nonces + 1), Proof(m)} BY ElemsShort DEF HostParts
  <2>3. m \in Macs BY <2>1, MacForms
  <2>4. m = Mac(HostRun(h).k, HostRun(h).sn, HostRun(h).cn, "client") BY DEF ClientMac, HostRun
  <2> HIDE DEF c, m
  <2>5. Elems(conn[c].up \o HostParts(h)) = Elems(conn[c].up) \cup Elems(HostParts(h))
    BY <1>3, <2>1, ElemsOf
  <2>6. Elems(Tail(conn[c].dn)) \subseteq Elems(conn[c].dn) BY <1>3, <2>1, ElemsOf
  <2>7. Travels
    <3>1. Elems(HostParts(h)) \subseteq Known' BY <2>1, <2>2 DEF Known
    <3>2. heard \subseteq heard' BY <2>1
    <3> QED BY <2>1, <2>5, <2>6, <3>1, <3>2, SentEdit
  <2>8. ASSUME NEW n \in Macs, Proof(n) \in heard' PROVE Origin(n)'
    <3>1. CASE Proof(n) \in heard
      <4>1. begun \subseteq begun' /\ proved \subseteq proved' BY <2>1
      <4> QED BY <3>1, <4>1, OriginKept
    <3>2. CASE Proof(n) = Proof(m)
      <4>1. n = m BY <2>3, <3>2, PartForms
      <4>2. HostRun(h) \in begun' BY <2>1
      <4> QED BY <2>4, <4>1, <4>2 DEF Origin
    <3> QED BY <2>1, <2>8, <3>1, <3>2, PartForms
  <2> QED BY <2>7, <2>8 DEF SentInv
<1>7. ASSUME NEW h \in Hosts, HostProof(h) PROVE SentInv'
  <2> DEFINE c == host[h].c
  <2>1. /\ c \in Conns /\ conn[c].dn # <<>> /\ Edit(c, conn[c].up, Tail(conn[c].dn))
        /\ UNCHANGED <<heard, begun, proved>>
    BY <1>7, HostProofEffect
  <2> HIDE DEF c
  <2>2. Elems(Tail(conn[c].dn)) \subseteq Elems(conn[c].dn) BY <1>3, <2>1, ElemsOf
  <2> QED BY <1>2, <2>1, <2>2
<1>8. ASSUME NEW h \in Hosts, HostEnd(h) PROVE SentInv'
  <2>1. /\ host[h].c \in Conns /\ Edit(host[h].c, conn[host[h].c].up, conn[host[h].c].dn)
        /\ UNCHANGED <<heard, begun, proved>>
    BY <1>8, HostEndEffect
  <2> QED BY <1>2, <2>1
<1>9. CASE RxAccept
  <2> DEFINE c == Head(queue)
             v == Nonce(nonces + 1)
  <2>1. /\ c \in Conns /\ v \in Parts /\ UNCHANGED <<begun, proved>>
        /\ \/ Edit(c, conn[c].up, Append(conn[c].dn, v)) /\ heard' = heard \cup {v}
           \/ Edit(c, conn[c].up, conn[c].dn) /\ UNCHANGED heard
    BY <1>9, RxAcceptEffect, PartForms
  <2>2. \A m : v # Proof(m) BY PartForms
  <2> HIDE DEF c, v
  <2>3. Elems(Append(conn[c].dn, v)) = Elems(conn[c].dn) \cup {v} BY <1>3, <2>1, ElemsOf
  <2>4. CASE Edit(c, conn[c].up, conn[c].dn) /\ UNCHANGED heard BY <1>2, <2>1, <2>4
  <2>5. CASE Edit(c, conn[c].up, Append(conn[c].dn, v)) /\ heard' = heard \cup {v}
    <3>1. heard \subseteq heard' /\ v \in Known' BY <2>5 DEF Known
    <3>2. Travels BY <2>1, <2>3, <2>5, <3>1, SentEdit
    <3>3. \A m \in Macs : Proof(m) \in heard' => Origin(m)' BY <2>1, <2>2, <2>5, OriginKept
    <3> QED BY <3>2, <3>3 DEF SentInv
  <2> QED BY <2>1, <2>4, <2>5
<1>10. CASE RxNonce \/ RxMac
  <2> DEFINE c == rx.c
  <2>1. /\ c \in Conns /\ conn[c].up # <<>> /\ Edit(c, Tail(conn[c].up), conn[c].dn)
        /\ UNCHANGED <<heard, begun, proved>>
    BY <1>10, RxNonceEffect, RxMacEffect
  <2> HIDE DEF c
  <2>2. Elems(Tail(conn[c].up)) \subseteq Elems(conn[c].up) BY <1>3, <2>1, ElemsOf
  <2> QED BY <1>2, <2>1, <2>2
<1>11. CASE RxProve
  <2> DEFINE c == rx.c
             m == BoardProves(board.psk, rx.sn, rx.cn)
  <2>1. /\ c \in Conns /\ BoardPart \in Parts /\ BoardPart = Proof(m)
        /\ Edit(c, conn[c].up, Append(conn[c].dn, BoardPart))
        /\ heard' = heard \cup {BoardPart} /\ proved' = proved \cup {BoardRun} /\ UNCHANGED begun
    BY <1>11, RxProveEffect DEF BoardPart
  <2>2. m \in Macs BY MacForms DEF TypeInv, TypeOK, Side
  <2>3. m = Mac(BoardRun.k, BoardRun.cn, BoardRun.sn, "board") BY DEF BoardProves, BoardRun
  <2> HIDE DEF c, m
  <2>4. Elems(Append(conn[c].dn, BoardPart)) = Elems(conn[c].dn) \cup {BoardPart}
    BY <1>3, <2>1, ElemsOf
  <2>5. Travels
    <3>1. heard \subseteq heard' /\ BoardPart \in Known' BY <2>1 DEF Known
    <3> QED BY <2>1, <2>4, <3>1, SentEdit
  <2>6. ASSUME NEW n \in Macs, Proof(n) \in heard' PROVE Origin(n)'
    <3>1. CASE Proof(n) \in heard
      <4>1. begun \subseteq begun' /\ proved \subseteq proved' BY <2>1
      <4> QED BY <3>1, <4>1, OriginKept
    <3>2. CASE Proof(n) = Proof(m)
      <4>1. n = m BY <2>2, <3>2, PartForms
      <4>2. BoardRun \in proved' BY <2>1
      <4> QED BY <2>3, <4>1, <4>2 DEF Origin
    <3> QED BY <2>1, <2>6, <3>1, <3>2
  <2> QED BY <2>5, <2>6 DEF SentInv
<1>12. CASE RxEnd
  <2>1. rx.c \in Conns /\ Edit(rx.c, conn[rx.c].up, conn[rx.c].dn) /\ UNCHANGED <<heard, begun, proved>>
    BY <1>12, RxEndEffect
  <2> QED BY <1>2, <2>1
<1>13. CASE Erase \/ Unflag \/ Restart
  <2>1. /\ UNCHANGED <<heard, begun, proved>>
        /\ \A c \in Conns : conn'[c].up = conn[c].up /\ conn'[c].dn = conn[c].dn
    BY <1>13, BoardEffect
  <2>2. Travels BY <2>1 DEF SentInv, Known
  <2> QED BY <1>1, <2>1, <2>2
<1>14. CASE Tick \/ UNCHANGED vars
  <2>1. UNCHANGED <<conn, heard, begun, proved>> BY <1>14 DEF Tick, vars, History
  <2>2. Travels BY <2>1 DEF SentInv, Known
  <2> QED BY <1>1, <2>1, <2>2
<1> QED BY <1>4, <1>5, <1>6, <1>7, <1>8, <1>9, <1>10, <1>11, <1>12, <1>13, <1>14 DEF Next

-----------------------------------------------------------------------------
(* Agreement.                                                              *)

AgreeInv == FreshInv /\ HostSure /\ BoardSure

LEMMA AgreeInit == Init => AgreeInv
BY DEF Init, AgreeInv, FreshInv, HostSure, BoardSure, Resting

(* Steps that begin, prove and end no exchange.                            *)
LEMMA AgreeQuiet ==
    ASSUME AgreeInv, UNCHANGED <<begun, proved, finished, nonces>>,
           board'.psk \in {board.psk, Zero},
           \/ rx'.pc = "idle"
           \/ /\ rx.pc # "idle" /\ rx'.sn = rx.sn
              /\ rx'.pc = "prove" => rx.pc = "prove" /\ rx'.cn = rx.cn
    PROVE  AgreeInv'
<1>1. HostSure' /\ BoardSure' BY DEF AgreeInv, HostSure, BoardSure, Same
<1>2. board'.psk \in {Key, Zero} /\ (board'.psk = Key => board.psk = Key)
  BY DEF AgreeInv, FreshInv, Key, Zero
<1>3. FreshInv'
  <2>1. CASE rx'.pc = "idle" BY <1>2, <2>1 DEF AgreeInv, FreshInv
  <2>2. CASE rx'.pc # "idle" BY <1>2, <2>2 DEF AgreeInv, FreshInv
  <2> QED BY <2>1, <2>2
<1> QED BY <1>1, <1>3 DEF AgreeInv

(* The fields of runs are nonces, that is, naturals.                       *)
LEMMA RunFields ==
    ASSUME TypeInv
    PROVE  /\ nonces \in Nat /\ rx.sn \in Nat /\ rx.cn \in Nat
           /\ \A b \in begun : b.sn \in Nat /\ b.cn \in Nat /\ b.k \in Keys /\ b.c \in Conns
           /\ \A p \in proved : p.sn \in Nat /\ p.cn \in Nat /\ p.k \in Keys /\ p.c \in Conns
<1>1. Nonces \subseteq Nat BY DEF Nonces
<1>2. rx \in Side(RxPc) /\ nonces \in Nonces /\ begun \subseteq Runs /\ proved \subseteq Runs
  BY DEF TypeInv, TypeOK
<1> QED BY <1>1, <1>2 DEF Runs, Side

(* Proofs made with different arguments differ, in both directions.        *)
LEMMA MacFields ==
    /\ \A k, a, b, l, x, y : Mac(k, a, b, "client") = Mac(l, x, y, "client") => k = l /\ a = x /\ b = y
    /\ \A k, a, b, l, x, y : Mac(k, a, b, "board") = Mac(l, x, y, "board") => k = l /\ a = x /\ b = y
    /\ \A k, a, b, l, x, y : Mac(k, a, b, "client") # Mac(l, x, y, "board")
<1>1. \A k, a, b, d : /\ Mac(k, a, b, d).k = k /\ Mac(k, a, b, d).a = a
                      /\ Mac(k, a, b, d).b = b /\ Mac(k, a, b, d).dom = d
  BY DEF Mac
<1>2. \A k, a, b, l, x, y : Mac(k, a, b, "client") = Mac(l, x, y, "client") => k = l /\ a = x /\ b = y
  BY <1>1
<1>3. \A k, a, b, l, x, y : Mac(k, a, b, "board") = Mac(l, x, y, "board") => k = l /\ a = x /\ b = y
  BY <1>1
<1>4. \A k, a, b, l, x, y : Mac(k, a, b, "client") # Mac(l, x, y, "board")
  BY <1>1
<1> QED BY <1>2, <1>3, <1>4

(* A proof that verifies was made by the other side, with the same key.    *)
LEMMA ClientProofBegun ==
    ASSUME TypeInv, SentInv, NEW c \in Conns, NEW v, v \in Elems(conn[c].up),
           NEW k \in Keys \ {Zero}, NEW sn \in Nonces, NEW cn \in Nonces,
           v = Proof(Mac(k, sn, cn, "client"))
    PROVE  \E b \in begun : b.k = k /\ b.sn = sn /\ b.cn = cn
<1> DEFINE m == Mac(k, sn, cn, "client")
<1>1. m \in Macs BY MacForms
<1>2. v \in heard
  <2>1. m.k = k BY DEF Mac
  <2>2. v = Proof(m) /\ m.k # Zero BY <2>1
  <2> HIDE DEF m
  <2>3. v \notin MadeUp
    <3>1. ASSUME NEW x \in Macs, v = Proof(x) PROVE x = m
      <4>1. Proof(x).mac = x /\ Proof(m).mac = m BY <1>1, PartForms
      <4> QED BY ONLY <2>2, <3>1, <4>1
    <3> QED BY <2>2, <3>1 DEF MadeUp
  <2>4. v # Nonce(0) BY <2>2, PartForms
  <2> QED BY <2>3, <2>4 DEF SentInv, Known
<1>3. Origin(m) BY <1>1, <1>2 DEF SentInv
<1>4. \A p \in proved : m # Mac(p.k, p.cn, p.sn, "board") BY MacFields
<1>5. PICK b \in begun : m = Mac(b.k, b.sn, b.cn, "client") BY <1>3, <1>4 DEF Origin
<1> QED BY <1>5, MacFields

LEMMA BoardProofProved ==
    ASSUME TypeInv, SentInv, NEW c \in Conns, NEW v, v \in Elems(conn[c].dn),
           NEW k \in Keys, NEW sn \in Nonces, NEW cn \in Nonces, v = Proof(Mac(k, cn, sn, "board"))
    PROVE  \E p \in proved : p.k = k /\ p.sn = sn /\ p.cn = cn
<1> DEFINE m == Mac(k, cn, sn, "board")
<1>1. m \in Macs BY MacForms
<1>2. v \in heard BY PartForms DEF SentInv, Known
<1>3. Origin(m) BY <1>1, <1>2 DEF SentInv
<1>4. \A b \in begun : m # Mac(b.k, b.sn, b.cn, "client") BY MacFields
<1>5. PICK p \in proved : m = Mac(p.k, p.cn, p.sn, "board") BY <1>3, <1>4 DEF Origin
<1> QED BY <1>5, MacFields

(* A host's answer has a nonce that no other has.                          *)
LEMMA AgreeHostNonce ==
    ASSUME TypeInv, SentInv, AgreeInv, NEW h \in Hosts, HostNonce(h) PROVE AgreeInv'
<1>1. /\ begun' = begun \cup {HostRun(h)} /\ nonces' = nonces + 1
      /\ UNCHANGED <<board, rx, proved, finished>>
  BY HostNonceEffect
<1>2. HostRun(h).cn = nonces + 1 /\ HostRun(h).k # Zero BY MacForms DEF HostRun
<1>3. HostSure' BY <1>1 DEF AgreeInv, HostSure, Same
<1>4. BoardSure' BY <1>1 DEF AgreeInv, BoardSure
<1>5. FreshInv'
  <2>1. board'.psk \in {Key, Zero} BY <1>1 DEF AgreeInv, FreshInv
  <2>2. \A b \in begun' : b.k # Zero BY <1>1, <1>2 DEF AgreeInv, FreshInv
  <2>3. \A b \in begun' : b.cn <= nonces' BY <1>1, <1>2, RunFields DEF AgreeInv, FreshInv
  <2>4. \A b \in begun : b.cn # nonces + 1 BY RunFields DEF AgreeInv, FreshInv
  <2>5. \A b, d \in begun' : b.cn = d.cn => b = d BY <1>1, <1>2, <2>4 DEF AgreeInv, FreshInv
  <2>6. \A p \in proved' : p.sn <= nonces' BY <1>1, RunFields DEF AgreeInv, FreshInv
  <2>7. rx'.pc # "idle" => rx'.sn <= nonces' BY <1>1, RunFields DEF AgreeInv, FreshInv
  <2>8. rx'.pc # "idle" => \A p \in proved' : p.sn # rx'.sn BY <1>1 DEF AgreeInv, FreshInv
  <2>9. rx'.pc = "prove" /\ board'.psk = Key => \E b \in begun' : b.sn = rx'.sn /\ b.cn = rx'.cn /\ b.k = Key
    BY <1>1 DEF AgreeInv, FreshInv
  <2> QED BY <2>1, <2>2, <2>3, <2>5, <2>6, <2>7, <2>8, <2>9 DEF FreshInv
<1> QED BY <1>3, <1>4, <1>5 DEF AgreeInv

(* A host ends an exchange with a proof that the board made in it.         *)
LEMMA AgreeHostProof ==
    ASSUME TypeInv, SentInv, AgreeInv, NEW h \in Hosts, HostProof(h) PROVE AgreeInv'
<1> DEFINE c == host[h].c
           f == [c |-> c, k |-> Psk(h), sn |-> host[h].sn, cn |-> host[h].cn]
<1>1. /\ c \in Conns /\ conn[c].dn # <<>> /\ DnHead(h) = Head(conn[c].dn)
      /\ (HostProved(h) /\ finished' = finished \cup {f}) \/ finished' = finished
      /\ UNCHANGED <<board, rx, nonces, begun, proved>>
  BY HostProofEffect
<1>2. FreshInv' /\ BoardSure' BY <1>1 DEF AgreeInv, FreshInv, BoardSure
<1>3. host[h].sn \in Nonces /\ host[h].cn \in Nonces /\ Psk(h) \in Keys
  BY MacForms DEF TypeInv, TypeOK, Side
<1>4. f.sn = host[h].sn /\ f.cn = host[h].cn /\ f.k = Psk(h) OBVIOUS
<1> HIDE DEF c, f
<1>5. DnHead(h) \in Elems(conn[c].dn)
  <2>1. conn[c].dn \in Seq(Parts) BY <1>1, ConnType DEF TypeInv
  <2> QED BY <1>1, <2>1, ElemsOf
<1>6. ASSUME HostProved(h)
      PROVE  \E p \in proved : p.k = Psk(h) /\ p.sn = host[h].sn /\ p.cn = host[h].cn
  <2>1. DnHead(h) = Proof(Mac(Psk(h), host[h].cn, host[h].sn, "board"))
    BY <1>6 DEF HostProved, BoardMac
  <2>2. c \in Conns /\ DnHead(h) \in Elems(conn[c].dn) BY <1>1, <1>5
  <2>3. \A k \in Keys, sn, cn \in Nonces : DnHead(h) = Proof(Mac(k, cn, sn, "board"))
          => \E p \in proved : p.k = k /\ p.sn = sn /\ p.cn = cn
    BY <2>2, BoardProofProved
  <2> QED BY <1>3, <2>1, <2>3
<1>7. HostSure' BY <1>1, <1>4, <1>6 DEF AgreeInv, HostSure, Same
<1> QED BY <1>2, <1>7 DEF AgreeInv

(* The board draws a nonce that it has not used before.                    *)
LEMMA AgreeRxAccept == ASSUME TypeInv, SentInv, AgreeInv, RxAccept PROVE AgreeInv'
<1>1. /\ UNCHANGED <<board, begun, proved, finished>> /\ rx.pc = "idle"
      /\ \/ rx' = [Resting("nonce") EXCEPT !.c = Head(queue), !.sn = nonces + 1] /\ nonces' = nonces + 1
         \/ UNCHANGED <<rx, nonces>>
  BY RxAcceptEffect
<1>2. CASE UNCHANGED <<rx, nonces>> BY <1>1, <1>2, AgreeQuiet
<1>3. CASE rx' = [Resting("nonce") EXCEPT !.c = Head(queue), !.sn = nonces + 1] /\ nonces' = nonces + 1
  <2>1. rx'.pc = "nonce" /\ rx'.sn = nonces + 1 BY <1>3 DEF Resting
  <2>2. HostSure' /\ BoardSure' BY <1>1 DEF AgreeInv, HostSure, BoardSure, Same
  <2>3. nonces' = nonces + 1 BY <1>3
  <2>4. \A b \in begun : b.cn <= nonces' BY <2>3, RunFields DEF AgreeInv, FreshInv
  <2>5. \A p \in proved : p.sn <= nonces' /\ p.sn # nonces + 1
    BY <2>3, RunFields DEF AgreeInv, FreshInv
  <2>6. rx'.sn <= nonces' BY <2>1, <2>3, RunFields
  <2>7. FreshInv' BY <1>1, <2>1, <2>4, <2>5, <2>6 DEF AgreeInv, FreshInv
  <2> QED BY <2>2, <2>7 DEF AgreeInv
<1> QED BY <1>1, <1>2, <1>3

(* The board goes on with the proof of a host that holds its key.          *)
LEMMA AgreeRxMac == ASSUME TypeInv, SentInv, AgreeInv, RxMac PROVE AgreeInv'
<1>1. /\ rx.pc = "mac" /\ rx.c \in Conns /\ conn[rx.c].up # <<>> /\ UpHead = Head(conn[rx.c].up)
      /\ UNCHANGED <<board, nonces, begun, proved, finished>>
      /\ (HostAnswered /\ rx' = [rx EXCEPT !.pc = "prove"]) \/ rx' = Resting("idle")
  BY RxMacEffect
<1>2. rx \in Side(RxPc) /\ board.psk \in Keys BY DEF TypeInv, TypeOK
<1>3. rx.sn \in Nonces /\ rx.cn \in Nonces BY <1>2 DEF Side
<1>4. CASE rx' = Resting("idle")
  <2>1. rx'.pc = "idle" BY <1>4 DEF Resting
  <2> QED BY <1>1, <2>1, AgreeQuiet
<1>5. CASE HostAnswered /\ rx' = [rx EXCEPT !.pc = "prove"]
  <2>1. rx'.sn = rx.sn /\ rx'.cn = rx.cn /\ rx'.pc = "prove" BY <1>2, <1>5 DEF Side
  <2>2. UpHead \in Elems(conn[rx.c].up)
    <3>1. conn[rx.c].up \in Seq(Parts) BY <1>1, ConnType DEF TypeInv
    <3> QED BY <1>1, <3>1, ElemsOf
  <2>3. UpHead = Proof(Mac(board.psk, rx.sn, rx.cn, "client")) BY <1>5 DEF HostAnswered, BoardExpects
  <2>4. ASSUME board.psk = Key PROVE \E b \in begun : b.k = Key /\ b.sn = rx.sn /\ b.cn = rx.cn
    <3>1. Key \in Keys \ {Zero} BY DEF Keys, Key, Zero
    <3>2. UpHead = Proof(Mac(Key, rx.sn, rx.cn, "client")) BY <2>3, <2>4
    <3> QED BY <1>1, <1>3, <2>2, <3>1, <3>2, ClientProofBegun
  <2>6. HostSure' /\ BoardSure' BY <1>1 DEF AgreeInv, HostSure, BoardSure, Same
  <2>7. FreshInv' BY <1>1, <2>1, <2>4 DEF AgreeInv, FreshInv
  <2> QED BY <2>6, <2>7 DEF AgreeInv
<1> QED BY <1>1, <1>4, <1>5

(* The board proves its key to one answer of one host, once, and answers   *)
(* no challenge twice.                                                     *)
LEMMA AgreeRxProve == ASSUME TypeInv, SentInv, AgreeInv, RxProve PROVE AgreeInv'
<1>1. /\ rx.pc = "prove" /\ proved' = proved \cup {BoardRun} /\ rx' = Resting("idle")
      /\ UNCHANGED <<board, nonces, begun, finished>>
  BY RxProveEffect
<1>2. BoardRun.sn = rx.sn /\ BoardRun.cn = rx.cn /\ BoardRun.k = board.psk BY DEF BoardRun
<1>3. rx'.pc = "idle" BY <1>1 DEF Resting
<1>4. board.psk = Key => \E b \in begun : b.sn = rx.sn /\ b.cn = rx.cn /\ b.k = Key
  BY <1>1 DEF AgreeInv, FreshInv
<1>5. HostSure' BY <1>1 DEF AgreeInv, HostSure, Same
<1>6. \A p \in proved : p.sn # rx.sn BY <1>1 DEF AgreeInv, FreshInv
<1>7. BoardSure'
  <2>1. \A p \in proved' : p.k = Key => \E d \in begun' : d.sn = p.sn /\ d.cn = p.cn /\ d.k = Key
    BY <1>1, <1>2, <1>4 DEF AgreeInv, BoardSure
  <2>2. \A p, q \in proved' : p.sn = q.sn => p = q
    BY <1>1, <1>2, <1>6 DEF AgreeInv, BoardSure
  <2>3. \A p, q \in proved' : p.cn = q.cn /\ p.k = Key /\ q.k = Key => p = q
    <3> SUFFICES ASSUME NEW p \in proved', NEW q \in proved', p.cn = q.cn, p.k = Key, q.k = Key
                 PROVE  p = q
      OBVIOUS
    <3>1. PICK b \in begun : b.sn = p.sn /\ b.cn = p.cn BY <1>1, <2>1
    <3>2. PICK d \in begun : d.sn = q.sn /\ d.cn = q.cn BY <1>1, <2>1
    <3>3. b = d BY <3>1, <3>2 DEF AgreeInv, FreshInv
    <3> QED BY <2>2, <3>1, <3>2, <3>3
  <2> QED BY <2>1, <2>2, <2>3 DEF BoardSure
<1>8. FreshInv' BY <1>1, <1>2, <1>3 DEF AgreeInv, FreshInv
<1> QED BY <1>5, <1>7, <1>8 DEF AgreeInv

LEMMA AgreeStep == TypeInv /\ SentInv /\ AgreeInv /\ [Next]_vars => AgreeInv'
<1> SUFFICES ASSUME TypeInv, SentInv, AgreeInv, [Next]_vars PROVE AgreeInv' OBVIOUS
<1>1. Resting("idle").pc = "idle" BY DEF Resting
<1>2. ASSUME NEW c \in Conns, (\E h \in Hosts : Connect(h, c)) \/ MimicOpen(c) \/ MimicSend(c)
      PROVE  AgreeInv'
  <2>1. UNCHANGED <<begun, proved, finished, nonces, board, rx>>
    BY <1>2 DEF Connect, MimicOpen, MimicSend, History
  <2> QED BY <2>1, AgreeQuiet
<1>3. ASSUME NEW h \in Hosts, HostNonce(h) \/ HostProof(h) \/ HostEnd(h) PROVE AgreeInv'
  <2>1. CASE HostEnd(h)
    <3>1. UNCHANGED <<begun, proved, finished, nonces, board, rx>> BY <2>1, HostEndEffect
    <3> QED BY <3>1, AgreeQuiet
  <2> QED BY <1>3, <2>1, AgreeHostNonce, AgreeHostProof
<1>4. CASE RxNonce
  <2>1. /\ UNCHANGED <<begun, proved, finished, nonces, board>>
        /\ rx.pc = "nonce" /\ rx'.pc = "mac" /\ rx'.sn = rx.sn
    BY <1>4, RxNonceEffect
  <2> QED BY <2>1, AgreeQuiet
<1>5. CASE RxEnd
  <2>1. UNCHANGED <<begun, proved, finished, nonces, board>> /\ rx'.pc = "idle"
    BY <1>1, <1>5, RxEndEffect
  <2> QED BY <2>1, AgreeQuiet
<1>6. CASE Erase \/ Unflag \/ Restart
  <2>1. /\ UNCHANGED <<begun, proved, finished, nonces>> /\ board'.psk \in {board.psk, Zero}
        /\ rx' = rx \/ rx'.pc = "idle"
    BY <1>1, <1>6, BoardEffect
  <2> QED BY <2>1, AgreeQuiet
<1>7. CASE Tick
  <2>1. /\ UNCHANGED <<begun, proved, finished, nonces, board>>
        /\ rx'.pc = rx.pc /\ rx'.sn = rx.sn /\ rx'.cn = rx.cn
    BY <1>7, TickEffect
  <2> QED BY <2>1, AgreeQuiet
<1>8. CASE UNCHANGED vars
  <2>1. UNCHANGED <<begun, proved, finished, nonces, board, rx>> BY <1>8 DEF vars
  <2> QED BY <2>1, AgreeQuiet
<1> QED BY <1>2, <1>3, <1>4, <1>5, <1>6, <1>7, <1>8, AgreeRxAccept, AgreeRxMac, AgreeRxProve DEF Next

LEMMA AgreeAlways == Spec => [](SentInv /\ AgreeInv)
<1>1. Init => SentInv
  <2> SUFFICES ASSUME Init PROVE SentInv OBVIOUS
  <2>1. \A c \in Conns : conn[c].up = <<>> /\ conn[c].dn = <<>> BY DEF Init, NoConn
  <2>2. heard = {} BY DEF Init
  <2> QED BY <2>1, <2>2, ElemsShort DEF SentInv
<1> QED BY <1>1, AgreeInit, TypeAlways, SentStep, AgreeStep, PTL DEF Spec

(* A host that gets past client has met the board itself: every exchange   *)
(* that a host ended was proved by the board with the same key and the     *)
(* same two nonces, although anything that was ever sent may be repeated   *)
(* to it, the key may be erased and the board may restart.                 *)
THEOREM HostMetBoard == Spec => []HostSure
<1>1. AgreeInv => HostSure BY DEF AgreeInv
<1> QED BY <1>1, AgreeAlways, PTL

(* As long as the board has its key, whoever gets the radio is a host with *)
(* that key that answered this challenge, and no two connections get it    *)
(* for one answer.  None ever do for one challenge.                        *)
THEOREM BoardMetHost == Spec => []BoardSure
<1>1. AgreeInv => BoardSure BY DEF AgreeInv
<1> QED BY <1>1, AgreeAlways, PTL

LEMMA ClosedStep == TypeInv /\ AgreeInv /\ ClosedInv /\ [Next]_vars => ClosedInv'
<1> SUFFICES ASSUME TypeInv, AgreeInv, ClosedInv, [Next]_vars PROVE ClosedInv' OBVIOUS
<1>1. ASSUME UNCHANGED <<board, late>>, rx'.pc = "idle" \/ rx.pc # "idle" \/ board.claimed
      PROVE  ClosedInv'
  BY <1>1 DEF ClosedInv, ClosedOnceReleased
<1>2. ASSUME NEW c \in Conns, (\E h \in Hosts : Connect(h, c)) \/ MimicOpen(c) \/ MimicSend(c)
      PROVE  ClosedInv'
  <2>1. UNCHANGED <<board, rx, late>> BY <1>2 DEF Connect, MimicOpen, MimicSend, History
  <2> QED BY <1>1, <2>1
<1>3. ASSUME NEW h \in Hosts, HostNonce(h) \/ HostProof(h) \/ HostEnd(h) PROVE ClosedInv'
  <2>1. UNCHANGED <<board, rx, late>> BY <1>3 DEF HostNonce, HostProof, HostEnd, History
  <2> QED BY <1>1, <2>1
<1>4. CASE RxAccept
  <2>1. UNCHANGED <<board, late>> /\ (board.claimed \/ rx' = rx)
    BY <1>4 DEF RxAccept, Serves, History
  <2> QED BY <1>1, <2>1
<1>5. CASE RxNonce \/ RxMac \/ RxEnd
  <2>1. UNCHANGED <<board, late>> /\ rx.pc # "idle" BY <1>5 DEF RxNonce, RxMac, RxEnd, History
  <2> QED BY <1>1, <2>1
<1>6. CASE RxProve
  <2>1. /\ rx.pc = "prove" /\ rx' = Resting("idle") /\ UNCHANGED board
        /\ late' = IF board.claimed THEN late ELSE late \cup {BoardRun}
    BY <1>6, RxProveEffect
  <2>2. late = {} BY <2>1 DEF ClosedInv
  <2>3. rx'.pc = "idle" BY <2>1 DEF Resting
  <2> QED BY <2>1, <2>2, <2>3 DEF ClosedInv, ClosedOnceReleased
<1>7. CASE Erase \/ Unflag \/ Restart
  <2>1. board \in [psk : Keys, claimed : BOOLEAN, restarts : 0..MaxRestarts] BY DEF TypeInv, TypeOK
  <2>2. board.psk \in {Key, Zero} BY DEF AgreeInv, FreshInv
  <2>3. UNCHANGED late /\ (rx' = rx \/ rx'.pc = "idle")
    BY <1>7, BoardEffect DEF Resting
  <2>4. (~board'.claimed => board'.psk = Zero) /\ (~board.claimed => ~board'.claimed)
    <3>1. CASE Erase BY <2>1, <3>1 DEF Erase, ClosedInv
    <3>2. CASE Unflag BY <2>1, <3>2 DEF Unflag
    <3>3. CASE Restart
      <4>1. board'.psk = board.psk /\ board'.claimed = (board.psk = Key) BY <2>1, <3>3 DEF Restart
      <4> QED BY <2>2, <4>1 DEF ClosedInv, Key, Zero
    <3> QED BY <1>7, <3>1, <3>2, <3>3
  <2> QED BY <2>3, <2>4 DEF ClosedInv, ClosedOnceReleased
<1>8. CASE Tick
  <2>1. UNCHANGED <<board, late>> /\ rx'.pc = rx.pc BY <1>8, TickEffect
  <2> QED BY <1>1, <2>1
<1>9. CASE UNCHANGED vars BY <1>1, <1>9 DEF vars
<1> QED BY <1>2, <1>3, <1>4, <1>5, <1>6, <1>7, <1>8, <1>9 DEF Next

(* g_claimed is looked at once per exchange.  All the same, from the       *)
(* moment it is cleared at most the one exchange that was under way still  *)
(* gets the radio, whatever its peer proves and however often the board    *)
(* restarts.                                                               *)
THEOREM ClosedAfterRelease == Spec => []ClosedOnceReleased
<1>1. Init => ClosedInv BY DEF Init, ClosedInv, ClosedOnceReleased
<1>2. ClosedInv => ClosedOnceReleased BY DEF ClosedInv
<1>3. Spec => []AgreeInv BY AgreeAlways, PTL
<1> QED BY <1>1, <1>2, <1>3, TypeAlways, ClosedStep, PTL DEF Spec

-----------------------------------------------------------------------------
(* A host and a board with the same key.                                   *)

(* Short messages, taken apart and put together.                           *)
LEMMA Tuples ==
    ASSUME NEW v, NEW w
    PROVE  /\ <<v>> # <<>> /\ Head(<<v>>) = v /\ Tail(<<v>>) = <<>>
           /\ <<v, w>> # <<>> /\ Head(<<v, w>>) = v /\ Tail(<<v, w>>) = <<w>>
           /\ Append(<<>>, v) = <<v>> /\ <<>> \o <<v, w>> = <<v, w>>
OBVIOUS

(* What a step leaves alone of a connection: neither side gets onto it, and*)
(* a side that stays does not move.                                        *)
Framed(c) ==
    /\ /\ conn'[c].own = conn[c].own /\ conn'[c].to = conn[c].to
       /\ conn'[c].up = conn[c].up /\ conn'[c].dn = conn[c].dn
    /\ c \in Waiting' => c \in Waiting
    /\ OnRx(c)' => OnRx(c) /\ rx'.pc = rx.pc /\ rx'.sn = rx.sn /\ rx'.cn = rx.cn
    /\ Ours(c) /\ OnHost(c)' =>
         /\ OnHost(c) /\ HostAt(c)'.pc = HostAt(c).pc
         /\ HostAt(c)'.sn = HostAt(c).sn /\ HostAt(c)'.cn = HostAt(c).cn
    /\ board'.psk = board.psk \/ board'.psk = Zero
    /\ c \in bad' => c \in bad

LEMMA FramedKeeps == ASSUME NEW c \in Conns, WireAt(c), Framed(c) PROVE WireAt(c)'
<1>1. /\ Ours(c)' <=> Ours(c)
      /\ board'.psk = Key => board.psk = Key
  BY DEF Framed, Ours, Key, Zero
<1>2. \A sn, cn : Answer(c, sn, cn)' = Answer(c, sn, cn) BY DEF Framed, Answer
<1>3. Untouched(c)' BY <1>1 DEF Framed, WireAt, Untouched
<1>4. UpGood(c)' BY <1>1, <1>2 DEF Framed, WireAt, UpGood
<1>5. DnNonceGood(c)' BY <1>1 DEF Framed, WireAt, DnNonceGood
<1>6. DnProofGood(c)' BY <1>1, <1>2 DEF Framed, WireAt, DnProofGood
<1>7. Agreed(c)' BY <1>1 DEF Framed, WireAt, Agreed
<1> QED BY <1>3, <1>4, <1>5, <1>6, <1>7 DEF WireAt

(* A connection is opened: it is empty, and only its host is on it.        *)
LEMMA WireConnect ==
    ASSUME TypeInv, WireInv, NEW c \in Conns, NEW h \in Hosts, Connect(h, c) PROVE WireInv'
<1>1. PICK to \in {"board", Mimic} : Open(h, to, c) BY DEF Connect
<1>2. /\ host[h].pc = "off" /\ UNCHANGED <<board, rx, bad>>
      /\ host' = [host EXCEPT ![h] = [Resting("nonce") EXCEPT !.c = c]]
  BY DEF Connect, History
<1>3. /\ c \notin Opened /\ Waiting' \subseteq Waiting \cup {c}
      /\ conn'[c].own = h /\ \A d \in Conns \ {c} : conn'[d] = conn[d]
  BY <1>1, OpenFacts
<1>4. conn[c].own = NoOne BY <1>3 DEF Opened
<1>5. /\ host \in [Hosts -> Side(HostPc)] /\ conn \in [Conns -> ConnState]
  BY DEF TypeInv, TypeOK, ConnState
<1>6. conn'[c].up = conn[c].up /\ conn'[c].dn = conn[c].dn BY <1>1, <1>5 DEF Open, ConnState
<1>7. /\ host'[h].c = c /\ host'[h].pc = "nonce" /\ \A g \in Hosts \ {h} : host'[g] = host[g]
  <2>1. /\ [Resting("nonce") EXCEPT !.c = c].c = c /\ [Resting("nonce") EXCEPT !.c = c].pc = "nonce"
    BY DEF Resting
  <2> QED BY <1>2, <1>5, <2>1
<1>8. conn[c].up = <<>> /\ conn[c].dn = <<>> /\ ~OnRx(c) /\ c \notin bad
  BY <1>4 DEF WireInv, WireAt, Untouched
<1>9. ~OnRx(c)' BY <1>2, <1>8 DEF OnRx
<1>10. WireAt(c)'
  <2>1. Untouched(c)' BY <1>3, <1>6, <1>8, <1>9, HandshakeAssumption DEF Untouched
  <2>2. UpGood(c)' BY <1>9 DEF UpGood
  <2>3. DnNonceGood(c)' BY <1>6, <1>8, <1>9 DEF DnNonceGood
  <2>4. DnProofGood(c)' BY <1>3, <1>7 DEF DnProofGood, HostAt
  <2>5. Agreed(c)' BY <1>2, <1>8 DEF Agreed
  <2> QED BY <2>1, <2>2, <2>3, <2>4, <2>5 DEF WireAt
<1>11. ASSUME NEW d \in Conns \ {c} PROVE WireAt(d)'
  <2>1. conn'[d] = conn[d] BY <1>3
  <2>2. Ours(d) /\ OnHost(d)' => conn[d].own # h BY <1>7, <2>1 DEF OnHost, HostAt
  <2>3. Framed(d)
    BY <1>2, <1>3, <1>7, <2>1, <2>2 DEF Framed, OnRx, OnHost, HostAt, Ours
  <2> QED BY <2>3, FramedKeeps DEF WireInv
<1> QED BY <1>10, <1>11 DEF WireInv

LEMMA WireMimic ==
    ASSUME TypeInv, WireInv, NEW c \in Conns, MimicOpen(c) \/ MimicSend(c) PROVE WireInv'
<1>1. UNCHANGED <<board, rx, host, bad>> BY DEF MimicOpen, MimicSend, History
<1>2. conn \in [Conns -> ConnState] BY DEF TypeInv, TypeOK, ConnState
<1>3. /\ \A d \in Conns \ {c} : conn'[d] = conn[d] /\ (d \in Waiting' => d \in Waiting)
      /\ conn'[c].own # NoOne /\ ~Ours(c)' /\ (c \in Waiting' => ~OnRx(c))
  <2>1. CASE MimicOpen(c)
    <3>1. /\ c \notin Opened /\ Waiting' \subseteq Waiting \cup {c}
          /\ conn'[c].own = Mimic /\ \A d \in Conns \ {c} : conn'[d] = conn[d]
      BY <2>1, OpenFacts DEF MimicOpen
    <3>2. ~OnRx(c) BY <3>1 DEF WireInv, WireAt, Untouched, Opened
    <3> QED BY <3>1, <3>2, HandshakeAssumption DEF Ours
  <2>2. CASE MimicSend(c)
    <3>1. /\ \E v : conn' = [conn EXCEPT ![c].up = <<v>>] \/ conn' = [conn EXCEPT ![c].dn = <<v>>]
          /\ conn[c].own = Mimic \/ conn[c].to = Mimic
          /\ UNCHANGED queue
      BY <2>2 DEF MimicSend
    <3>2. /\ \A d \in Conns \ {c} : conn'[d] = conn[d]
          /\ conn'[c].own = conn[c].own /\ conn'[c].to = conn[c].to
      BY <1>2, <3>1 DEF ConnState
    <3>3. conn[c].own # NoOne
      BY <3>1, HandshakeAssumption DEF WireInv, WireAt, Untouched
    <3>4. Waiting' = Waiting BY <3>1 DEF Waiting
    <3>5. c \in Waiting => ~OnRx(c) BY DEF WireInv, WireAt, Untouched
    <3> QED BY <3>1, <3>2, <3>3, <3>4, <3>5, HandshakeAssumption DEF Ours
  <2> QED BY <2>1, <2>2
<1>4. WireAt(c)'
  <2>1. c \in Waiting' => ~OnRx(c)' BY <1>1, <1>3 DEF OnRx
  <2>2. ~(conn'[c].own \in Keyed /\ conn'[c].to = "board") BY <1>3, HandshakeAssumption DEF Ours
  <2>3. Untouched(c)' BY <1>3, <2>1 DEF Untouched
  <2>4. UpGood(c)' /\ DnNonceGood(c)' /\ DnProofGood(c)'
    BY <1>3 DEF UpGood, DnNonceGood, DnProofGood
  <2>5. Agreed(c)' BY <2>2 DEF Agreed
  <2> QED BY <2>3, <2>4, <2>5 DEF WireAt
<1>5. ASSUME NEW d \in Conns \ {c} PROVE WireAt(d)'
  <2>1. Framed(d) BY <1>1, <1>3 DEF Framed, OnRx, OnHost, HostAt, Ours
  <2> QED BY <2>1, FramedKeeps DEF WireInv
<1> QED BY <1>4, <1>5 DEF WireInv

(* A host reads the challenge that is meant for it, and answers that one.  *)
LEMMA WireHostNonce ==
    ASSUME TypeInv, WireInv, NEW h \in Hosts, HostNonce(h) PROVE WireInv'
<1>0. PICK c \in Conns, cn \in Nonces : c = host[h].c /\ cn = nonces + 1 BY HostNonceEffect
<1>1. /\ host[h].pc = "nonce" /\ conn[c].own = h /\ host[h].c = c
      /\ conn[c].dn # <<>> /\ Head(conn[c].dn) = Nonce(Challenge(h)) /\ Challenge(h) \in Nonces
      /\ Edit(c, conn[c].up \o HostParts(h), Tail(conn[c].dn))
      /\ host'[h].pc = "proof" /\ host'[h].c = c /\ host'[h].sn = Challenge(h) /\ host'[h].cn = cn
      /\ \A g \in Hosts \ {h} : host'[g] = host[g]
      /\ UNCHANGED <<board, rx, queue, bad>>
  BY <1>0, HostNonceEffect
<1>2. HostParts(h) = <<Nonce(cn), Answer(c, Challenge(h), cn)>> BY <1>0, <1>1 DEF HostParts, Answer
<1>3. /\ conn'[c].own = h /\ conn'[c].to = conn[c].to /\ Waiting' = Waiting
      /\ conn'[c].up = conn[c].up \o HostParts(h) /\ conn'[c].dn = Tail(conn[c].dn)
      /\ \A d \in Conns \ {c} : conn'[d] = conn[d]
  BY <1>1 DEF Edit, SameEnds, Waiting
<1>4. OnRx(c)' = OnRx(c) /\ (Ours(c)' <=> Ours(c)) /\ HostAt(c) = host[h] /\ HostAt(c)' = host'[h]
  BY <1>1, <1>3 DEF OnRx, Ours, HostAt
<1>5. \A sn, n : Answer(c, sn, n)' = Answer(c, sn, n) BY <1>1, <1>3 DEF Answer
<1>6. WireAt(c) BY <1>1 DEF WireInv
<1>7. Untouched(c)' BY <1>1, <1>3, <1>4, <1>6, HandshakeAssumption DEF WireAt, Untouched
<1>8. Agreed(c)' BY <1>1, <1>3, <1>6 DEF WireAt, Agreed
<1>9. ASSUME Ours(c)
      PROVE  /\ conn'[c].up = <<Nonce(cn), Answer(c, Challenge(h), cn)>> /\ conn'[c].dn = <<>>
             /\ c \notin Waiting /\ (OnRx(c) => rx.pc = "nonce" /\ rx.sn = Challenge(h))
  <2>1. OnHost(c) BY <1>1, <1>4 DEF OnHost
  <2>2. conn[c].up = <<>> BY <1>1, <1>4, <1>6, <1>9, <2>1 DEF WireAt, DnNonceGood
  <2>3. PICK n \in Nonces : conn[c].dn = <<Nonce(n)>>
    BY <1>1, <1>4, <1>6, <1>9, <2>1 DEF WireAt, DnNonceGood
  <2>4. n = Challenge(h)
    <3>1. Head(conn[c].dn) = Nonce(n) BY <2>3, Tuples
    <3> QED BY <1>1, <2>3, <3>1, PartForms
  <2>5. conn'[c].dn = <<>> BY <1>3, <2>3, Tuples
  <2>6. conn'[c].up = <<Nonce(cn), Answer(c, Challenge(h), cn)>> BY <1>2, <1>3, <2>2, Tuples
  <2>7. ASSUME OnRx(c) PROVE rx.pc = "nonce" /\ rx.sn = Challenge(h)
    <3>1. rx.pc = "nonce" /\ conn[c].dn = <<Nonce(rx.sn)>>
      BY <1>1, <1>4, <1>6, <1>9, <2>1, <2>7 DEF WireAt, DnNonceGood
    <3>2. Head(conn[c].dn) = Nonce(rx.sn) BY <3>1, Tuples
    <3>3. rx.sn \in Nonces BY DEF TypeInv, TypeOK, Side
    <3> QED BY <1>1, <3>1, <3>2, <3>3, PartForms
  <2>8. c \notin Waiting BY <1>1, <1>6, <1>9 DEF WireAt, Untouched
  <2> QED BY <2>5, <2>6, <2>7, <2>8
<1>10. UpGood(c)' /\ DnNonceGood(c)' /\ DnProofGood(c)'
  <2>1. UpGood(c)' BY <1>1, <1>4, <1>5, <1>9 DEF UpGood
  <2>2. DnNonceGood(c)' BY <1>1, <1>4 DEF DnNonceGood
  <2>3. DnProofGood(c)' BY <1>1, <1>3, <1>4, <1>5, <1>9 DEF DnProofGood
  <2> QED BY <2>1, <2>2, <2>3
<1>11. ASSUME NEW d \in Conns \ {c} PROVE WireAt(d)'
  <2>1. conn'[d] = conn[d] BY <1>3
  <2>2. Ours(d) /\ OnHost(d)' => conn[d].own # h BY <1>1, <2>1 DEF OnHost, HostAt
  <2>3. Framed(d) BY <1>1, <1>3, <2>1, <2>2 DEF Framed, OnRx, OnHost, HostAt, Ours
  <2> QED BY <2>3, FramedKeeps DEF WireInv
<1> QED BY <1>7, <1>8, <1>10, <1>11 DEF WireInv, WireAt

(* A host reads the proof that the board made for it.                      *)
LEMMA WireHostProof ==
    ASSUME TypeInv, WireInv, NEW h \in Hosts, HostProof(h) PROVE WireInv'
<1>0. PICK c \in Conns : c = host[h].c BY HostProofEffect
<1>1. /\ host[h].pc = "proof" /\ conn[c].own = h /\ host[h].c = c
      /\ conn[c].dn # <<>> /\ DnHead(h) = Head(conn[c].dn)
      /\ Edit(c, conn[c].up, Tail(conn[c].dn))
      /\ \/ HostProved(h) /\ bad' = bad /\ host' = [host EXCEPT ![h].pc = "done"]
         \/ ~HostProved(h) /\ bad' = bad \cup {c} /\ host' = [host EXCEPT ![h] = Resting("off")]
      /\ UNCHANGED <<board, rx, queue>>
  BY <1>0, HostProofEffect
<1>2. host \in [Hosts -> Side(HostPc)] BY DEF TypeInv, TypeOK
<1>3. /\ host'[h].pc \in {"done", "off"} /\ \A g \in Hosts \ {h} : host'[g] = host[g]
  <2>1. Resting("off").pc = "off" BY DEF Resting
  <2> QED BY <1>1, <1>2, <2>1 DEF Side
<1>4. /\ conn'[c].own = h /\ conn'[c].to = conn[c].to /\ Waiting' = Waiting
      /\ conn'[c].up = conn[c].up /\ \A d \in Conns \ {c} : conn'[d] = conn[d]
  BY <1>1 DEF Edit, SameEnds, Waiting
<1>5. OnRx(c)' = OnRx(c) /\ (Ours(c)' <=> Ours(c)) /\ HostAt(c) = host[h] /\ HostAt(c)' = host'[h]
  BY <1>1, <1>4 DEF OnRx, Ours, HostAt
<1>6. \A sn, n : Answer(c, sn, n)' = Answer(c, sn, n) BY <1>1, <1>4 DEF Answer
<1>7. WireAt(c) BY DEF WireInv
<1>8. Untouched(c)'
  <2>1. Ours(c) => c \notin Waiting BY <1>1, <1>7 DEF WireAt, Untouched
  <2>2. c \in Waiting => ~OnRx(c) BY <1>7 DEF WireAt, Untouched
  <2> QED BY <1>4, <1>5, <2>1, <2>2, HandshakeAssumption DEF Untouched
<1>9. UpGood(c)' BY <1>1, <1>4, <1>5, <1>6, <1>7 DEF WireAt, UpGood
<1>10. DnNonceGood(c)' /\ DnProofGood(c)' BY <1>3, <1>5 DEF DnNonceGood, DnProofGood
<1>11. Agreed(c)'
  <2>1. ASSUME ~HostProved(h), h \in Keyed, conn[c].to = "board", board.psk = Key PROVE FALSE
    <3>1. Ours(c) /\ OnHost(c) BY <1>1, <1>5, <2>1 DEF Ours, OnHost
    <3>2. conn[c].dn = <<Proof(BoardMac(Key, host[h].sn, host[h].cn))>>
      BY <1>1, <1>5, <1>7, <2>1, <3>1 DEF WireAt, DnProofGood
    <3>3. DnHead(h) = Proof(BoardMac(Key, host[h].sn, host[h].cn)) BY <1>1, <3>2, Tuples
    <3>4. Psk(h) = Key BY <2>1 DEF Psk
    <3> QED BY <2>1, <3>3, <3>4 DEF HostProved
  <2> QED BY <1>1, <1>4, <1>7, <2>1 DEF WireAt, Agreed
<1>12. ASSUME NEW d \in Conns \ {c} PROVE WireAt(d)'
  <2>1. conn'[d] = conn[d] /\ (d \in bad' => d \in bad) BY <1>1, <1>4
  <2>2. Ours(d) /\ OnHost(d)' => conn[d].own # h
    <3>1. host'[h].pc = "off" \/ host'[h].c = c
      <4>1. CASE host' = [host EXCEPT ![h].pc = "done"] BY <1>1, <1>2, <4>1 DEF Side
      <4>2. CASE host' = [host EXCEPT ![h] = Resting("off")] BY <1>2, <4>2 DEF Resting
      <4> QED BY <1>1, <4>1, <4>2
    <3> QED BY <2>1, <3>1 DEF OnHost, HostAt
  <2>3. Framed(d) BY <1>1, <1>3, <1>4, <2>1, <2>2 DEF Framed, OnRx, OnHost, HostAt, Ours
  <2> QED BY <2>3, FramedKeeps DEF WireInv
<1> QED BY <1>8, <1>9, <1>10, <1>11, <1>12 DEF WireInv, WireAt

(* A side that leaves changes nothing for the other.                       *)
LEMMA WireLeaves ==
    ASSUME TypeInv, WireInv,
           (\E h \in Hosts : HostEnd(h)) \/ RxEnd \/ Erase \/ Unflag \/ Restart \/ Tick
    PROVE  WireInv'
<1> DEFINE SameWire == \A c \in Conns :
               /\ conn'[c].own = conn[c].own /\ conn'[c].to = conn[c].to
               /\ conn'[c].up = conn[c].up /\ conn'[c].dn = conn[c].dn
<1>1. Resting("idle").pc = "idle" /\ Resting("off").pc = "off" BY DEF Resting
<1>2. host \in [Hosts -> Side(HostPc)] BY DEF TypeInv, TypeOK
<1>3. ASSUME SameWire, bad' = bad, Waiting' \subseteq Waiting,
             board'.psk = board.psk \/ board'.psk = Zero,
             rx'.pc = "idle" \/ (/\ rx'.pc = rx.pc /\ rx'.c = rx.c
                                 /\ rx'.sn = rx.sn /\ rx'.cn = rx.cn),
             \A h \in Hosts : \/ host'[h].pc = "off"
                              \/ /\ host'[h].pc = host[h].pc /\ host'[h].c = host[h].c
                                 /\ host'[h].sn = host[h].sn /\ host'[h].cn = host[h].cn
      PROVE  WireInv'
  <2>1. ASSUME NEW c \in Conns PROVE Framed(c)
    BY <1>3 DEF Framed, OnRx, OnHost, HostAt, Ours
  <2> QED BY <2>1, FramedKeeps DEF WireInv
<1>4. ASSUME NEW h \in Hosts, HostEnd(h) PROVE WireInv'
  <2>1. PICK c \in Conns : c = host[h].c BY <1>4, HostEndEffect
  <2>2. /\ Edit(c, conn[c].up, conn[c].dn) /\ host' = [host EXCEPT ![h] = Resting("off")]
        /\ UNCHANGED <<board, rx, queue, bad>>
    BY <1>4, <2>1, HostEndEffect
  <2>3. SameWire BY <2>2 DEF Edit, SameEnds
  <2>4. Waiting' = Waiting BY <2>2 DEF Waiting
  <2>5. \A g \in Hosts : host'[g].pc = "off" \/ host'[g] = host[g] BY <1>1, <1>2, <2>2
  <2> QED BY <1>3, <2>2, <2>3, <2>4, <2>5
<1>5. CASE RxEnd
  <2>1. PICK c \in Conns : c = rx.c BY <1>5, RxEndEffect
  <2>2. /\ Edit(c, conn[c].up, conn[c].dn) /\ rx' = Resting("idle") /\ UNCHANGED <<board, host, queue, bad>>
    BY <1>5, <2>1, RxEndEffect
  <2>3. SameWire BY <2>2 DEF Edit, SameEnds
  <2>4. Waiting' = Waiting BY <2>2 DEF Waiting
  <2> QED BY <1>1, <1>3, <2>2, <2>3, <2>4
<1>6. CASE Erase \/ Unflag \/ Restart
  <2>1. /\ board'.psk = board.psk \/ board'.psk = Zero
        /\ SameEnds /\ \A c \in Conns : conn'[c].up = conn[c].up /\ conn'[c].dn = conn[c].dn
        /\ (rx' = rx /\ queue' = queue) \/ (rx' = Resting("idle") /\ queue' = <<>>)
        /\ UNCHANGED <<host, bad>>
    BY <1>6, BoardEffect
  <2>2. SameWire BY <2>1 DEF SameEnds
  <2>3. Waiting' \subseteq Waiting BY <2>1, ElemsShort DEF Waiting
  <2> QED BY <1>1, <1>3, <2>1, <2>2, <2>3
<1>7. CASE Tick
  <2>1. /\ rx'.pc = rx.pc /\ rx'.c = rx.c /\ rx'.sn = rx.sn /\ rx'.cn = rx.cn
        /\ \A h \in Hosts : /\ host'[h].pc = host[h].pc /\ host'[h].c = host[h].c
                            /\ host'[h].sn = host[h].sn /\ host'[h].cn = host[h].cn
        /\ UNCHANGED <<board, conn, queue, bad>>
    BY <1>7, TickEffect
  <2>2. SameWire /\ Waiting' = Waiting BY <2>1 DEF Waiting
  <2> QED BY <1>3, <2>1, <2>2
<1> QED BY <1>4, <1>5, <1>6, <1>7

(* The board accepts a connection on which nothing was sent yet.           *)
LEMMA WireRxAccept == ASSUME TypeInv, WireInv, RxAccept PROVE WireInv'
<1>0. PICK c \in Conns, sn \in Nonces : c = Head(queue) /\ sn = nonces + 1 BY RxAcceptEffect
<1>1. /\ rx.pc = "idle" /\ c \in Waiting /\ Waiting' = Waiting \ {c}
      /\ \/ /\ rx' = [Resting("nonce") EXCEPT !.c = c, !.sn = sn]
            /\ Edit(c, conn[c].up, Append(conn[c].dn, Nonce(sn)))
         \/ Edit(c, conn[c].up, conn[c].dn) /\ rx' = rx
      /\ UNCHANGED <<board, host, bad>>
  BY <1>0, RxAcceptEffect
<1>2. CASE Edit(c, conn[c].up, conn[c].dn) /\ rx' = rx
  <2>1. ASSUME NEW d \in Conns PROVE Framed(d)
    <3>1. /\ conn'[d].own = conn[d].own /\ conn'[d].to = conn[d].to
          /\ conn'[d].up = conn[d].up /\ conn'[d].dn = conn[d].dn
      BY <1>2 DEF Edit, SameEnds
    <3> QED BY <1>1, <1>2, <3>1 DEF Framed, OnRx, OnHost, HostAt, Ours
  <2> QED BY <2>1, FramedKeeps DEF WireInv
<1>3. CASE /\ rx' = [Resting("nonce") EXCEPT !.c = c, !.sn = sn]
           /\ Edit(c, conn[c].up, Append(conn[c].dn, Nonce(sn)))
  <2>1. rx'.pc = "nonce" /\ rx'.c = c /\ rx'.sn = sn BY <1>3 DEF Resting
  <2>2. /\ conn'[c].own = conn[c].own /\ conn'[c].to = conn[c].to
        /\ conn'[c].up = conn[c].up /\ conn'[c].dn = Append(conn[c].dn, Nonce(sn))
        /\ \A d \in Conns \ {c} : conn'[d] = conn[d]
    BY <1>3 DEF Edit, SameEnds
  <2>3. WireAt(c) BY DEF WireInv
  <2>4. /\ OnRx(c)' /\ (Ours(c)' <=> Ours(c)) /\ HostAt(c)' = HostAt(c) /\ (OnHost(c)' <=> OnHost(c))
    BY <1>1, <2>1, <2>2 DEF OnRx, Ours, HostAt, OnHost
  <2>5. conn[c].own # NoOne
    <3>1. c \in Opened BY <1>1 DEF TypeInv, CountInv
    <3> QED BY <3>1 DEF Opened
  <2>6. Ours(c) => conn'[c].up = <<>> /\ conn'[c].dn = <<Nonce(sn)>>
    <3>1. Ours(c) => conn[c].up = <<>> /\ conn[c].dn = <<>> BY <1>1, <2>3 DEF WireAt, Untouched
    <3> QED BY <2>2, <3>1, Tuples
  <2>7. c \notin Waiting' BY <1>1
  <2>8. Untouched(c)' BY <2>2, <2>5, <2>7 DEF Untouched
  <2>9. UpGood(c)' BY <2>1, <2>4, <2>6 DEF UpGood
  <2>10. DnNonceGood(c)' BY <2>1, <2>4, <2>6 DEF DnNonceGood
  <2>11. DnProofGood(c)' BY <1>1, <2>3, <2>4 DEF WireAt, DnProofGood
  <2>12. Agreed(c)' BY <1>1, <2>2, <2>3 DEF WireAt, Agreed
  <2>13. ASSUME NEW d \in Conns \ {c} PROVE WireAt(d)'
    <3>1. conn'[d] = conn[d] /\ ~OnRx(d)' BY <2>1, <2>2 DEF OnRx
    <3>2. Framed(d) BY <1>1, <3>1 DEF Framed, OnHost, HostAt, Ours
    <3> QED BY <3>2, FramedKeeps DEF WireInv
  <2> QED BY <2>8, <2>9, <2>10, <2>11, <2>12, <2>13 DEF WireInv, WireAt
<1> QED BY <1>1, <1>2, <1>3

(* The board takes the nonce of the answer, and then finds its proof.      *)
LEMMA WireRxNonce == ASSUME TypeInv, WireInv, RxNonce PROVE WireInv'
<1>0. PICK c \in Conns : c = rx.c BY RxNonceEffect
<1>1. /\ rx.pc = "nonce" /\ rx.c = c /\ conn[c].up # <<>> /\ Head(conn[c].up) = Nonce(rx'.cn)
      /\ rx'.pc = "mac" /\ rx'.c = c /\ rx'.sn = rx.sn /\ rx' \in Side(RxPc)
      /\ Edit(c, Tail(conn[c].up), conn[c].dn)
      /\ UNCHANGED <<board, host, queue, bad>>
  BY <1>0, RxNonceEffect
<1>2. /\ conn'[c].own = conn[c].own /\ conn'[c].to = conn[c].to /\ Waiting' = Waiting
      /\ conn'[c].up = Tail(conn[c].up) /\ conn'[c].dn = conn[c].dn
      /\ \A d \in Conns \ {c} : conn'[d] = conn[d]
  BY <1>1 DEF Edit, SameEnds, Waiting
<1>3. WireAt(c) /\ OnRx(c) /\ OnRx(c)' BY <1>1 DEF WireInv, OnRx
<1>4. /\ (Ours(c)' <=> Ours(c)) /\ HostAt(c)' = HostAt(c) /\ (OnHost(c)' <=> OnHost(c))
  BY <1>1, <1>2 DEF Ours, HostAt, OnHost
<1>5. \A sn, n : Answer(c, sn, n)' = Answer(c, sn, n) BY <1>2 DEF Answer
<1>6. c \notin Waiting /\ conn[c].own # NoOne BY <1>3 DEF WireAt, Untouched
<1>7. rx'.cn \in Nonces BY <1>1 DEF Side
<1>8. ASSUME Ours(c)
      PROVE  /\ conn[c].up = <<Nonce(rx'.cn), Answer(c, rx.sn, rx'.cn)>>
             /\ conn'[c].up = <<Answer(c, rx.sn, rx'.cn)>>
  <2>1. PICK cn \in Nonces : conn[c].up = <<Nonce(cn), Answer(c, rx.sn, cn)>>
    BY <1>1, <1>3, <1>8 DEF WireAt, UpGood
  <2>2. Nonce(cn) = Nonce(rx'.cn) BY <1>1, <2>1, Tuples
  <2>3. cn = rx'.cn BY <1>7, <2>2, PartForms
  <2> QED BY <1>2, <2>1, <2>3, Tuples
<1>9. Untouched(c)' BY <1>2, <1>6 DEF Untouched
<1>10. UpGood(c)' BY <1>1, <1>4, <1>5, <1>8 DEF UpGood
<1>11. DnNonceGood(c)' BY <1>1, <1>3, <1>4 DEF WireAt, DnNonceGood
<1>12. DnProofGood(c)'
  <2>1. ASSUME Ours(c), OnHost(c), HostAt(c).pc = "proof" PROVE HostAt(c).cn = rx'.cn
    <3>1. conn[c].up = <<Nonce(HostAt(c).cn), Answer(c, rx.sn, HostAt(c).cn)>>
      BY <1>1, <1>3, <2>1 DEF WireAt, DnProofGood
    <3>2. Nonce(HostAt(c).cn) = Nonce(rx'.cn) BY <1>1, <3>1, Tuples
    <3>3. HostAt(c).cn \in Nonces BY <2>1 DEF HostAt, Ours, TypeInv, TypeOK, Side
    <3> QED BY <1>7, <3>2, <3>3, PartForms
  <2> QED BY <1>1, <1>2, <1>3, <1>4, <2>1 DEF WireAt, DnProofGood
<1>13. Agreed(c)' BY <1>1, <1>2, <1>3 DEF WireAt, Agreed
<1>14. ASSUME NEW d \in Conns \ {c} PROVE WireAt(d)'
  <2>1. conn'[d] = conn[d] /\ ~OnRx(d)' BY <1>1, <1>2 DEF OnRx
  <2>2. Framed(d) BY <1>1, <1>2, <2>1 DEF Framed, OnHost, HostAt, Ours
  <2> QED BY <2>2, FramedKeeps DEF WireInv
<1> QED BY <1>9, <1>10, <1>11, <1>12, <1>13, <1>14 DEF WireInv, WireAt

(* The proof of a host with the key is the one the board expects.          *)
LEMMA WireRxMac == ASSUME TypeInv, WireInv, RxMac PROVE WireInv'
<1>0. PICK c \in Conns : c = rx.c BY RxMacEffect
<1>1. /\ rx.pc = "mac" /\ rx.c = c /\ UpHead = Head(conn[c].up)
      /\ Edit(c, Tail(conn[c].up), conn[c].dn)
      /\ \/ HostAnswered /\ rx' = [rx EXCEPT !.pc = "prove"] /\ bad' = bad
         \/ ~HostAnswered /\ rx' = Resting("idle") /\ bad' = bad \cup {c}
      /\ UNCHANGED <<board, host, queue>>
  BY <1>0, RxMacEffect
<1>2. /\ conn'[c].own = conn[c].own /\ conn'[c].to = conn[c].to /\ Waiting' = Waiting
      /\ conn'[c].dn = conn[c].dn /\ \A d \in Conns \ {c} : conn'[d] = conn[d]
  BY <1>1 DEF Edit, SameEnds, Waiting
<1>3. WireAt(c) /\ OnRx(c) BY <1>1 DEF WireInv, OnRx
<1>4. /\ (Ours(c)' <=> Ours(c)) /\ HostAt(c)' = HostAt(c) /\ (OnHost(c)' <=> OnHost(c))
  BY <1>1, <1>2 DEF Ours, HostAt, OnHost
<1>5. rx'.pc = "idle" \/ (rx'.pc = "prove" /\ rx'.c = c /\ rx'.sn = rx.sn /\ rx'.cn = rx.cn)
  <2>1. rx \in Side(RxPc) /\ Resting("idle").pc = "idle" BY DEF TypeInv, TypeOK, Resting
  <2> QED BY <1>1, <2>1 DEF Side
<1>6. c \notin Waiting /\ conn[c].own # NoOne BY <1>3 DEF WireAt, Untouched
<1>7. Untouched(c)' BY <1>2, <1>6 DEF Untouched
<1>8. UpGood(c)' BY <1>5 DEF UpGood, OnRx
<1>9. DnNonceGood(c)' BY <1>1, <1>3, <1>4 DEF WireAt, DnNonceGood
<1>10. DnProofGood(c)' BY <1>1, <1>2, <1>3, <1>4, <1>5 DEF WireAt, DnProofGood, OnRx
<1>11. Agreed(c)'
  <2>1. ASSUME ~HostAnswered, conn[c].own \in Keyed, conn[c].to = "board", board.psk = Key PROVE FALSE
    <3>1. Ours(c) BY <2>1, HandshakeAssumption DEF Ours
    <3>2. conn[c].up = <<Answer(c, rx.sn, rx.cn)>> BY <1>1, <1>3, <3>1 DEF WireAt, UpGood
    <3>3. UpHead = Proof(ClientMac(Key, rx.sn, rx.cn)) BY <1>1, <2>1, <3>2, Tuples DEF Answer, Psk
    <3> QED BY <2>1, <3>3 DEF HostAnswered, ClientMac, BoardExpects
  <2> QED BY <1>1, <1>2, <1>3, <2>1 DEF WireAt, Agreed
<1>12. ASSUME NEW d \in Conns \ {c} PROVE WireAt(d)'
  <2>1. conn'[d] = conn[d] /\ ~OnRx(d)' /\ (d \in bad' => d \in bad) BY <1>1, <1>2, <1>5 DEF OnRx
  <2>2. Framed(d) BY <1>1, <1>2, <2>1 DEF Framed, OnHost, HostAt, Ours
  <2> QED BY <2>2, FramedKeeps DEF WireInv
<1> QED BY <1>7, <1>8, <1>9, <1>10, <1>11, <1>12 DEF WireInv, WireAt

(* The board's proof is over the nonces of the host that waits for it.     *)
LEMMA WireRxProve == ASSUME TypeInv, WireInv, RxProve PROVE WireInv'
<1>0. PICK c \in Conns : c = rx.c BY RxProveEffect
<1>1. /\ rx.pc = "prove" /\ rx.c = c /\ rx' = Resting("idle")
      /\ Edit(c, conn[c].up, Append(conn[c].dn, BoardPart))
      /\ UNCHANGED <<board, host, queue, bad>>
  BY <1>0, RxProveEffect
<1>2. /\ conn'[c].own = conn[c].own /\ conn'[c].to = conn[c].to /\ Waiting' = Waiting
      /\ conn'[c].up = conn[c].up /\ conn'[c].dn = Append(conn[c].dn, BoardPart)
      /\ \A d \in Conns \ {c} : conn'[d] = conn[d]
  BY <1>1 DEF Edit, SameEnds, Waiting
<1>3. WireAt(c) /\ OnRx(c) BY <1>1 DEF WireInv, OnRx
<1>4. /\ (Ours(c)' <=> Ours(c)) /\ HostAt(c)' = HostAt(c) /\ (OnHost(c)' <=> OnHost(c))
  BY <1>1, <1>2 DEF Ours, HostAt, OnHost
<1>5. \A d \in Conns : ~OnRx(d)' BY <1>1 DEF OnRx, Resting
<1>6. c \notin Waiting /\ conn[c].own # NoOne BY <1>3 DEF WireAt, Untouched
<1>7. Untouched(c)' BY <1>2, <1>6 DEF Untouched
<1>8. UpGood(c)' BY <1>5 DEF UpGood
<1>9. DnNonceGood(c)' BY <1>1, <1>3, <1>4 DEF WireAt, DnNonceGood
<1>10. DnProofGood(c)'
  <2>1. ASSUME Ours(c), OnHost(c), HostAt(c).pc = "proof", board.psk = Key
        PROVE  conn'[c].dn = <<Proof(BoardMac(Key, HostAt(c).sn, HostAt(c).cn))>>
    <3>1. conn[c].dn = <<>> /\ rx.sn = HostAt(c).sn /\ rx.cn = HostAt(c).cn
      BY <1>1, <1>3, <2>1 DEF WireAt, DnProofGood
    <3>2. BoardPart = Proof(BoardMac(Key, HostAt(c).sn, HostAt(c).cn))
      BY <2>1, <3>1 DEF BoardPart, BoardProves, BoardMac
    <3> QED BY <1>2, <3>1, <3>2, Tuples
  <2> QED BY <1>1, <1>2, <1>4, <1>5, <1>6, <2>1 DEF DnProofGood
<1>11. Agreed(c)' BY <1>1, <1>2, <1>3 DEF WireAt, Agreed
<1>12. ASSUME NEW d \in Conns \ {c} PROVE WireAt(d)'
  <2>1. conn'[d] = conn[d] BY <1>2
  <2>2. Framed(d) BY <1>1, <1>2, <1>5, <2>1 DEF Framed, OnHost, HostAt, Ours
  <2> QED BY <2>2, FramedKeeps DEF WireInv
<1> QED BY <1>7, <1>8, <1>9, <1>10, <1>11, <1>12 DEF WireInv, WireAt

LEMMA WireStep == TypeInv /\ WireInv /\ [Next]_vars => WireInv'
<1> SUFFICES ASSUME TypeInv, WireInv, [Next]_vars PROVE WireInv' OBVIOUS
<1>1. ASSUME NEW c \in Conns, (\E h \in Hosts : Connect(h, c)) \/ MimicOpen(c) \/ MimicSend(c)
      PROVE  WireInv'
  BY <1>1, WireConnect, WireMimic
<1>2. ASSUME NEW h \in Hosts, HostNonce(h) \/ HostProof(h) \/ HostEnd(h) PROVE WireInv'
  BY <1>2, WireHostNonce, WireHostProof, WireLeaves
<1>3. CASE RxAccept \/ RxNonce \/ RxMac \/ RxProve
  BY <1>3, WireRxAccept, WireRxNonce, WireRxMac, WireRxProve
<1>4. CASE RxEnd \/ Erase \/ Unflag \/ Restart \/ Tick BY <1>4, WireLeaves
<1>5. CASE UNCHANGED vars
  <2>1. UNCHANGED <<board, rx, host, conn, queue, bad>> BY <1>5 DEF vars
  <2>2. Waiting' = Waiting BY <2>1 DEF Waiting
  <2>3. ASSUME NEW c \in Conns PROVE Framed(c)
    BY <2>1, <2>2 DEF Framed, OnRx, OnHost, HostAt, Ours
  <2> QED BY <2>3, FramedKeeps DEF WireInv
<1> QED BY <1>1, <1>2, <1>3, <1>4, <1>5 DEF Next

LEMMA WireInit == Init => WireInv
<1> SUFFICES ASSUME Init, NEW c \in Conns PROVE WireAt(c) BY DEF WireInv
<1>1. conn[c].own = NoOne /\ conn[c].to = NoOne /\ conn[c].up = <<>> /\ conn[c].dn = <<>>
  BY DEF Init, NoConn
<1>2. ~OnRx(c) BY DEF Init, Resting, OnRx
<1>3. ~Ours(c) /\ bad = {} BY <1>1, HandshakeAssumption DEF Init, Ours
<1> QED BY <1>1, <1>2, <1>3
   DEF WireAt, Untouched, UpGood, DnNonceGood, DnProofGood, Agreed

(* Between a host and a board that hold the same key no proof is refused,  *)
(* whatever else is going on, unless the key is erased: each side finds on *)
(* the connection exactly the proof over the nonces that it holds.         *)
THEOREM NoProofRefused == Spec => []SameKeyAgrees
<1>1. TypeInv /\ WireInv => SameKeyAgrees BY DEF TypeInv, TypeOK, WireInv, WireAt, Agreed, SameKeyAgrees
<1> QED BY <1>1, WireInit, TypeAlways, WireStep, PTL DEF Spec
=============================================================================
