---------------------------- MODULE ManagerProofs ---------------------------
(***************************************************************************)
(* For any boards, addresses, keys and allocator, and any course of the    *)
(* world outside, the manager serves no board twice and never follows a    *)
(* pointer to a destroyed BoardCtx.                                        *)
(***************************************************************************)
EXTENDS Manager, TLAPS

(* The objects of Blank and Idle are of their types.                       *)
LEMMA BlankType ==
    /\ Blank \in BoardCtx
    /\ Blank.st = "free"
    /\ Idle \in Round
    /\ Idle.pc = "recv"
    /\ NoKeys \in KeyMap
  <1>1. NoKey \in 0..MaxKey
    BY ManagerAssumption DEF ManagerAssumption, NoKey
  <1>2. NoKeys \in KeyMap
    BY <1>1 DEF NoKeys, KeyMap
  <1>3. (CHOOSE b \in Boards : TRUE) \in Boards /\ (CHOOSE i \in Ips : TRUE) \in Ips
    BY ManagerAssumption DEF ManagerAssumption
  <1>4. Blank.b \in Boards /\ Blank.ip \in Ips
    BY <1>3 DEF Blank
  <1> QED
    BY <1>1, <1>2, <1>3, <1>4 DEF Blank, Idle, Announces, CtxState, MgrPc, BoardCtx, Round

(* Every step of every action keeps the variables in their types.          *)
LEMMA TypeStep == TypeOK /\ [Next]_vars => TypeOK'
  <1> SUFFICES ASSUME TypeOK, [Next]_vars PROVE TypeOK'
    OBVIOUS
  <1> USE ManagerAssumption DEF ManagerAssumption, TypeOK, BoardCtx, Round
  <1>0. NoKey \in 0..MaxKey
    BY DEF NoKey
  <1>ev. ASSUME Event PROVE events' \in 0..MaxEvents
    BY <1>ev DEF Event
  <1>to. ASSUME NEW l \in MgrPc, MgrTo(l)
         PROVE  mgr' \in Round
    BY <1>to, BlankType DEF MgrTo
  <1>kill. ASSUME NEW c \in Ctxs
           PROVE  Killed(ctx[c]) \in BoardCtx
    BY DEF Killed
  <1>re. ASSUME Reloaded \/ NotReloaded
         PROVE  keys' \in KeyMap /\ recent' \in BOOLEAN /\ events' \in 0..MaxEvents
    BY <1>re, <1>ev, BlankType DEF Reloaded, NotReloaded
  <1>1. ASSUME NEW b \in Boards, Move(b) PROVE TypeOK'
    BY <1>1, <1>ev DEF Move
  <1>2. ASSUME NEW b \in Boards, Rekey(b) PROVE TypeOK'
    BY <1>2, <1>ev DEF Rekey
  <1>3. ASSUME NEW b \in Boards, Edit(b) PROVE TypeOK'
    <2>1. PICK k \in {NoKey, board[b].key} : cfg' = [cfg EXCEPT ![b] = k]
      BY <1>3 DEF Edit
    <2>2. k \in 0..MaxKey
      BY <1>0
    <2>3. cfg' \in KeyMap
      BY <2>1, <2>2 DEF KeyMap
    <2> QED
      BY <1>3, <1>ev, <2>3 DEF Edit
  <1>4. ASSUME NEW b \in Boards, Announce(b) PROVE TypeOK'
    BY <1>4 DEF Announce, Announces
  <1>5. CASE Tick
    BY <1>5 DEF Tick
  <1>6. ASSUME NEW m \in net, MgrRecv(m) PROVE TypeOK'
    <2>1. m \in Announces
      OBVIOUS
    <2>2. mgr' \in Round
      BY <1>6, <2>1, BlankType DEF MgrRecv, MgrPc
    <2> QED
      BY <1>6, <1>ev, <2>2 DEF MgrRecv
  <1>7. CASE MgrRefresh
    <2>1. mgr' \in Round
      BY <1>7, <1>to DEF MgrRefresh, MgrPc
    <2> QED
      BY <1>7, <1>re, <2>1 DEF MgrRefresh
  <1>8. CASE MgrRevoke
    <2>1. mgr' \in Round
      BY <1>8, <1>to DEF MgrRevoke, MgrPc
    <2> QED
      BY <1>8, <1>kill, <2>1 DEF MgrRevoke
  <1>9. CASE MgrLookup
    <2>1. keys[mgr.ann.b] \in 0..MaxKey
      BY DEF KeyMap, Announces
    <2>2. mgr' \in Round
      BY <1>9, <2>1, BlankType DEF MgrLookup, MgrPc
    <2> QED
      BY <1>9, <2>2 DEF MgrLookup
  <1>10. CASE MgrAgain
    <2>1. mgr' \in Round
      BY <1>10, <1>to DEF MgrAgain, MgrPc
    <2> QED
      BY <1>10, <1>re, <2>1 DEF MgrAgain
  <1>11. CASE MgrClaim
    <2>1. mgr' \in Round
      BY <1>11, <1>to DEF MgrClaim, MgrPc
    <2>2. [st |-> "claimed", b |-> mgr.ann.b, ip |-> mgr.ann.ip, psk |-> mgr.psk,
           link |-> FALSE, shut |-> FALSE] \in BoardCtx
      BY DEF Announces, CtxState
    <2>3. ctx' \in [Ctxs -> BoardCtx]
      <3> HIDE DEF BoardCtx
      <3>1. CASE ~Occupied(mgr.ann.b)
        BY <1>11, <2>2, <3>1 DEF MgrClaim
      <3>2. CASE Occupied(mgr.ann.b)
        BY <1>11, <1>kill, <3>2 DEF MgrClaim
      <3> QED
        BY <3>1, <3>2
    <2>4. active' \in [Boards -> Ctxs \cup {NoCtx}]
      BY <1>11 DEF MgrClaim, Announces
    <2> QED
      BY <1>11, <1>ev, <2>1, <2>3, <2>4 DEF MgrClaim
  <1>12. CASE MgrSpawn
    <2>1. mgr' \in Round
      BY <1>12, <1>to DEF MgrSpawn, MgrPc
    <2>2. ctx' \in [Ctxs -> BoardCtx]
      <3>1. CASE ctx' = [ctx EXCEPT ![active[mgr.ann.b]].st = "connect"]
        <4>1. \A c \in Ctxs : [ctx[c] EXCEPT !.st = "connect"] \in BoardCtx
          BY DEF CtxState
        <4> HIDE DEF BoardCtx
        <4> QED
          BY <3>1, <4>1
      <3>2. CASE ctx' = [ctx EXCEPT ![active[mgr.ann.b]] = Blank]
        <4> HIDE DEF BoardCtx
        <4> QED
          BY <3>2, BlankType
      <3> QED
        BY <1>12, <3>1, <3>2 DEF MgrSpawn
    <2>3. active' \in [Boards -> Ctxs \cup {NoCtx}]
      BY <1>12 DEF MgrSpawn
    <2> QED
      BY <1>12, <1>ev, <2>1, <2>2, <2>3 DEF MgrSpawn
  <1>13. ASSUME NEW c \in Ctxs, ThreadStep(c) \/ ThreadFail(c) PROVE TypeOK'
    <2>0. ctx[c] \in BoardCtx
      OBVIOUS
    <2>1. ctx' \in [Ctxs -> BoardCtx]
      <3>1. CASE ThreadConnect(c)
        BY <3>1 DEF ThreadConnect, CtxState
      <3>2. CASE ThreadPublish(c)
        <4>1. [ctx[c] EXCEPT !.st = "live", !.link = TRUE] \in BoardCtx
          BY <2>0 DEF CtxState
        <4> QED
          BY <3>2, <4>1 DEF ThreadPublish
      <3>3. CASE ThreadEnd(c) \/ ThreadFail(c)
        <4>1. [ctx[c] EXCEPT !.st = "backoff", !.link = FALSE] \in BoardCtx
          BY <2>0 DEF CtxState
        <4> QED
          BY <3>3, <4>1 DEF ThreadEnd, ThreadFail
      <3>4. CASE ThreadRelease(c)
        BY <3>4 DEF ThreadRelease, CtxState
      <3>5. CASE ThreadDestroy(c)
        BY <3>5, BlankType DEF ThreadDestroy
      <3> QED
        BY <1>13, <3>1, <3>2, <3>3, <3>4, <3>5 DEF ThreadStep
    <2>2. active' \in [Boards -> Ctxs \cup {NoCtx}]
      BY <1>13 DEF ThreadStep, ThreadConnect, ThreadPublish, ThreadEnd,
         ThreadRelease, ThreadDestroy, ThreadFail, Released
    <2>3. events' \in 0..MaxEvents
      BY <1>13, <1>ev DEF ThreadStep, ThreadConnect, ThreadPublish, ThreadEnd,
         ThreadRelease, ThreadDestroy, ThreadFail
    <2>4. UNCHANGED <<board, cfg, net, keys, recent, mgr>>
      BY <1>13 DEF ThreadStep, ThreadConnect, ThreadPublish, ThreadEnd,
         ThreadRelease, ThreadDestroy, ThreadFail, Only
    <2> QED
      BY <2>1, <2>2, <2>3, <2>4
  <1>14. CASE UNCHANGED vars
    BY <1>14 DEF vars
  <1> QED
    BY <1>1, <1>2, <1>3, <1>4, <1>5, <1>6, <1>7, <1>8, <1>9, <1>10, <1>11, <1>12,
       <1>13, <1>14 DEF Next, World, MgrStep

(* The initial states have their types.                                    *)
LEMMA InitType == Init => TypeOK
  <1> SUFFICES ASSUME Init PROVE TypeOK
    OBVIOUS
  <1> USE ManagerAssumption DEF ManagerAssumption, Init
  <1>1. NoKey \in 0..MaxKey
    BY DEF NoKey
  <1>2. 1 \in 0..MaxKey
    OBVIOUS
  <1>3. board \in [Boards -> [ip : Ips, key : 0..MaxKey]]
    BY <1>2
  <1>4. cfg \in KeyMap /\ keys \in KeyMap
    BY <1>1, <1>2 DEF KeyMap
  <1>5. ctx \in [Ctxs -> BoardCtx] /\ mgr \in Round
    BY BlankType
  <1>6. net \subseteq Announces /\ events \in 0..MaxEvents
    OBVIOUS
  <1>8. recent \in BOOLEAN
    BY Zenon
  <1>7. active \in [Boards -> Ctxs \cup {NoCtx}]
    OBVIOUS
  <1> HIDE DEF Init
  <1> QED
    BY <1>3, <1>4, <1>5, <1>6, <1>7, <1>8 DEF TypeOK

(* The variables of the manager and of its threads keep their types.       *)
THEOREM ManagerTypeCorrect == Spec => []TypeOK
  BY InitType, TypeStep, PTL DEF Spec

-----------------------------------------------------------------------------
(* While the loop is between claim and spawn, the object it has put in the *)
(* map is the only one without a thread there; without this part neither   *)
(* property survives MgrSpawn.                                             *)
Spawning ==
    /\ \A c \in Ctxs : ctx[c].st = "claimed" =>
          mgr.pc = "spawn" /\ ctx[c].b = mgr.ann.b /\ active[mgr.ann.b] = c
    /\ mgr.pc = "spawn" =>
          active[mgr.ann.b] # NoCtx /\ ctx[active[mgr.ann.b]].st = "claimed"

ClaimParts == ClaimHeld /\ MapHoldsLiveCtx /\ Spawning

ClaimInv == TypeOK /\ ClaimParts

(* Steps that neither claim nor release, in whatever they change otherwise.*)
LEMMA KeepClaims ==
    ASSUME TypeOK, ClaimParts, active' = active,
           \A c \in Ctxs : ctx'[c].st = ctx[c].st /\ ctx'[c].b = ctx[c].b,
           mgr' = mgr \/ (mgr.pc # "spawn" /\ mgr'.pc # "spawn")
    PROVE  ClaimParts'
  <1>1. ClaimHeld'
    BY DEF ClaimParts, ClaimHeld
  <1>2. MapHoldsLiveCtx'
    BY DEF ClaimParts, MapHoldsLiveCtx, TypeOK
  <1>3. Spawning'
    <2>1. \A b \in Boards : active[b] # NoCtx => active[b] \in Ctxs
      BY DEF TypeOK
    <2>2. mgr.ann.b \in Boards
      BY DEF TypeOK, Round, Announces
    <2> QED
      BY <2>1, <2>2 DEF ClaimParts, Spawning
  <1> QED
    BY <1>1, <1>2, <1>3 DEF ClaimParts

(* A thread's step touches no object but its own.                          *)
LEMMA ThreadClaims ==
    ASSUME TypeOK, ClaimParts, NEW c \in Ctxs, ThreadStep(c) \/ ThreadFail(c)
    PROVE  ClaimParts'
  <1> USE DEF ClaimParts
  <1>0. ManagerAssumption /\ ctx[c].b \in Boards /\ mgr.ann.b \in Boards
    BY ManagerAssumption DEF TypeOK, BoardCtx, Round, Announces
  <1>1. mgr' = mgr
    BY DEF ThreadStep, ThreadConnect, ThreadPublish, ThreadEnd, ThreadRelease,
           ThreadDestroy, ThreadFail, Only
  <1>2. ASSUME active' = active, ctx[c].st \in Threads, ctx'[c].st \in Threads,
               ctx'[c].b = ctx[c].b, \A x \in Ctxs \ {c} : ctx'[x] = ctx[x]
        PROVE  ClaimParts'
    <2>1. ClaimHeld'
      BY <1>2 DEF ClaimHeld
    <2>2. MapHoldsLiveCtx'
      BY <1>2 DEF MapHoldsLiveCtx, ClaimHeld, TypeOK
    <2>3. Spawning'
      BY <1>0, <1>1, <1>2 DEF Spawning, Threads, TypeOK
    <2> QED
      BY <2>1, <2>2, <2>3
  <1>3. CASE ThreadConnect(c) \/ ThreadPublish(c) \/ ThreadEnd(c) \/ ThreadFail(c)
    <2>1. active' = active /\ ctx[c].st \in Threads
      BY <1>3 DEF ThreadConnect, ThreadPublish, ThreadEnd, ThreadFail, Only, Threads
    <2>2. /\ ctx'[c].st \in Threads /\ ctx'[c].b = ctx[c].b
          /\ \A x \in Ctxs \ {c} : ctx'[x] = ctx[x]
      <3>0. ctx \in [Ctxs -> BoardCtx]
        BY DEF TypeOK
      <3>1. CASE ThreadConnect(c)
        BY <3>0, <3>1 DEF ThreadConnect, Threads, BoardCtx
      <3>2. CASE ThreadPublish(c)
        BY <3>0, <3>2 DEF ThreadPublish, Threads, BoardCtx
      <3>3. CASE ThreadEnd(c) \/ ThreadFail(c)
        BY <3>0, <3>3 DEF ThreadEnd, ThreadFail, Threads, BoardCtx
      <3> QED
        BY <1>3, <3>1, <3>2, <3>3
    <2> QED
      BY <1>2, <2>1, <2>2
  <1>4. CASE ThreadRelease(c)
    <2>1. /\ ctx[c].st = "backoff" /\ ctx'[c].st = "destroy" /\ ctx'[c].b = ctx[c].b
          /\ \A x \in Ctxs \ {c} : ctx'[x] = ctx[x]
          /\ active' = [active EXCEPT ![ctx[c].b] = NoCtx]
      BY <1>4 DEF ThreadRelease, Only, Released, TypeOK, BoardCtx
    <2>2. active[ctx[c].b] = c
      BY <2>1 DEF ClaimHeld, Threads
    <2>3. ClaimHeld'
      <3> SUFFICES ASSUME NEW x \in Ctxs, ctx'[x].st \in Threads
                   PROVE  active'[ctx'[x].b] = x
        BY DEF ClaimHeld
      <3>1. x # c /\ ctx'[x] = ctx[x]
        BY <2>1 DEF Threads
      <3>2. active[ctx[x].b] = x /\ ctx[x].b \in Boards
        BY <3>1 DEF ClaimHeld, TypeOK, BoardCtx
      <3> QED
        BY <2>1, <2>2, <3>1, <3>2 DEF TypeOK
    <2>4. MapHoldsLiveCtx'
      <3> SUFFICES ASSUME NEW b \in Boards, active'[b] # NoCtx
                   PROVE  /\ ctx'[active'[b]].st \in Threads \cup {"claimed"}
                          /\ ctx'[active'[b]].b = b
        BY DEF MapHoldsLiveCtx
      <3>1. b # ctx[c].b /\ active'[b] = active[b]
        BY <2>1 DEF TypeOK
      <3>2. active[b] \in Ctxs /\ ctx[active[b]].b = b
        BY <3>1 DEF TypeOK, MapHoldsLiveCtx
      <3> QED
        BY <2>1, <3>1, <3>2 DEF MapHoldsLiveCtx
    <2>5. Spawning'
      BY <1>0, <1>1, <2>1, <2>2 DEF Spawning, TypeOK
    <2> QED
      BY <2>3, <2>4, <2>5
  <1>5. CASE ThreadDestroy(c)
    <2>1. /\ ctx[c].st = "destroy" /\ ctx'[c].st = "free" /\ active' = active
          /\ \A x \in Ctxs \ {c} : ctx'[x] = ctx[x]
      BY <1>5, BlankType DEF ThreadDestroy, Only, TypeOK
    <2>2. \A b \in Boards : active[b] # c
      BY <1>0, <2>1 DEF MapHoldsLiveCtx, Threads, ManagerAssumption
    <2>3. ClaimHeld'
      BY <2>1 DEF ClaimHeld, Threads
    <2>4. MapHoldsLiveCtx'
      BY <2>1, <2>2 DEF MapHoldsLiveCtx, TypeOK
    <2>5. Spawning'
      BY <1>0, <1>1, <2>1, <2>2 DEF Spawning, TypeOK
    <2> QED
      BY <2>3, <2>4, <2>5
  <1> QED
    BY <1>3, <1>4, <1>5 DEF ThreadStep

(* Active.claim puts a fresh object where there is none.                   *)
LEMMA ClaimClaims ==
    ASSUME TypeOK, ClaimParts, MgrClaim
    PROVE  ClaimParts'
  <1> DEFINE b == mgr.ann.b
  <1>0. b \in Boards /\ NoCtx \notin Ctxs /\ mgr.pc = "claim"
    BY ManagerAssumption DEF TypeOK, Round, Announces, ManagerAssumption, MgrClaim
  <1>1. \A c \in Ctxs : ctx[c].st # "claimed"
    BY <1>0 DEF ClaimParts, Spawning
  <1>2. CASE mgr'.pc = "spawn"
    <2>1. PICK c \in Ctxs : /\ ctx[c].st = "free"
                            /\ ctx' = [ctx EXCEPT ![c] = [st |-> "claimed", b |-> b,
                                 ip |-> mgr.ann.ip, psk |-> mgr.psk,
                                 link |-> FALSE, shut |-> FALSE]]
                            /\ active' = [active EXCEPT ![b] = c]
                            /\ active[b] = NoCtx
                            /\ mgr' = [mgr EXCEPT !.pc = "spawn"]
      BY <1>2, BlankType DEF MgrClaim, MgrTo, Occupied
    <2>2. /\ ctx'[c].st = "claimed" /\ ctx'[c].b = b
          /\ \A x \in Ctxs \ {c} : ctx'[x] = ctx[x]
          /\ active'[b] = c
          /\ \A x \in Boards \ {b} : active'[x] = active[x]
      BY <1>0, <2>1 DEF TypeOK
    <2>3. mgr'.pc = "spawn" /\ mgr'.ann.b = b
      BY <2>1 DEF TypeOK, Round
    <2>4. \A x \in Boards : active[x] # c
      BY <1>0, <2>1 DEF ClaimParts, MapHoldsLiveCtx, Threads
    <2>5. ClaimHeld'
      <3> SUFFICES ASSUME NEW x \in Ctxs, ctx'[x].st \in Threads
                   PROVE  active'[ctx'[x].b] = x
        BY DEF ClaimHeld
      <3>1. x # c /\ ctx'[x] = ctx[x]
        BY <2>2 DEF Threads
      <3>2. active[ctx[x].b] = x /\ ctx[x].b \in Boards
        BY <3>1 DEF ClaimParts, ClaimHeld, TypeOK, BoardCtx
      <3>3. ctx[x].b # b
        BY <1>0, <2>1, <3>2
      <3> QED
        BY <2>2, <3>1, <3>2, <3>3
    <2>6. MapHoldsLiveCtx'
      <3> SUFFICES ASSUME NEW x \in Boards, active'[x] # NoCtx
                   PROVE  /\ ctx'[active'[x]].st \in Threads \cup {"claimed"}
                          /\ ctx'[active'[x]].b = x
        BY DEF MapHoldsLiveCtx
      <3>1. CASE x = b
        BY <2>2, <3>1
      <3>2. CASE x # b
        <4>1. active'[x] = active[x] /\ active[x] \in Ctxs \ {c}
          BY <2>2, <2>4, <3>2 DEF TypeOK
        <4> QED
          BY <2>2, <4>1 DEF ClaimParts, MapHoldsLiveCtx
      <3> QED
        BY <3>1, <3>2
    <2>7. Spawning'
      BY <1>0, <1>1, <2>2, <2>3 DEF Spawning
    <2> QED
      BY <2>5, <2>6, <2>7 DEF ClaimParts
  <1>3. CASE mgr'.pc # "spawn"
    <2>1. active' = active
      BY <1>3 DEF MgrClaim, MgrTo, TypeOK, Round
    <2>2. \A c \in Ctxs : ctx'[c].st = ctx[c].st /\ ctx'[c].b = ctx[c].b
      BY <1>3 DEF MgrClaim, MgrTo, Killed, TypeOK, Round, BoardCtx
    <2> QED
      BY <1>0, <1>3, <2>1, <2>2, KeepClaims
  <1> QED
    BY <1>2, <1>3

(* The object in the map gets its thread, or leaves the map with its life. *)
LEMMA SpawnClaims ==
    ASSUME TypeOK, ClaimParts, MgrSpawn
    PROVE  ClaimParts'
  <1> DEFINE b == mgr.ann.b
             c == active[b]
  <1>0. /\ b \in Boards /\ NoCtx \notin Ctxs
        /\ c \in Ctxs /\ ctx[c].st = "claimed" /\ ctx[c].b = b
    BY ManagerAssumption DEF TypeOK, Round, Announces, ManagerAssumption, MgrSpawn,
       ClaimParts, Spawning
  <1>1. mgr'.pc = "recv"
    BY BlankType DEF MgrSpawn, MgrTo
  <1>2. \A x \in Ctxs \ {c} : ctx'[x] = ctx[x] /\ ctx[x].st # "claimed"
    BY <1>0 DEF MgrSpawn, TypeOK, ClaimParts, Spawning
  <1>3. \A x \in Boards \ {b} : active[x] # c
    BY <1>0 DEF ClaimParts, MapHoldsLiveCtx
  <1>4. \A x \in Ctxs \ {c} : ctx[x].b \in Boards
                               /\ (ctx[x].st \in Threads => ctx[x].b # b)
    BY DEF ClaimParts, ClaimHeld, TypeOK, BoardCtx
  <1>5. CASE active' = active /\ ctx'[c].st = "connect" /\ ctx'[c].b = b
    <2>1. ClaimHeld'
      BY <1>0, <1>2, <1>5 DEF ClaimParts, ClaimHeld
    <2>2. MapHoldsLiveCtx'
      BY <1>0, <1>2, <1>3, <1>5 DEF ClaimParts, MapHoldsLiveCtx, TypeOK, Threads
    <2>3. Spawning'
      BY <1>1, <1>2, <1>5 DEF Spawning
    <2> QED
      BY <2>1, <2>2, <2>3 DEF ClaimParts
  <1>6. CASE active' = [active EXCEPT ![b] = NoCtx] /\ ctx'[c].st = "free"
    <2>1. ClaimHeld'
      <3> SUFFICES ASSUME NEW x \in Ctxs, ctx'[x].st \in Threads
                   PROVE  active'[ctx'[x].b] = x
        BY DEF ClaimHeld
      <3>1. x # c /\ ctx'[x] = ctx[x]
        BY <1>2, <1>6 DEF Threads
      <3>2. active[ctx[x].b] = x
        BY <3>1 DEF ClaimParts, ClaimHeld
      <3> QED
        BY <1>4, <1>6, <3>1, <3>2 DEF TypeOK
    <2>2. MapHoldsLiveCtx'
      <3> SUFFICES ASSUME NEW x \in Boards, active'[x] # NoCtx
                   PROVE  /\ ctx'[active'[x]].st \in Threads \cup {"claimed"}
                          /\ ctx'[active'[x]].b = x
        BY DEF MapHoldsLiveCtx
      <3>1. x # b /\ active'[x] = active[x] /\ active[x] \in Ctxs
        BY <1>6 DEF TypeOK
      <3> QED
        BY <1>2, <1>3, <3>1 DEF ClaimParts, MapHoldsLiveCtx
    <2>3. Spawning'
      BY <1>1, <1>2, <1>6 DEF Spawning
    <2> QED
      BY <2>1, <2>2, <2>3 DEF ClaimParts
  <1>7. CASE ctx' = [ctx EXCEPT ![c].st = "connect"] /\ active' = active
    <2>1. ctx'[c].st = "connect" /\ ctx'[c].b = b
      BY <1>0, <1>7 DEF TypeOK, BoardCtx
    <2> QED
      BY <1>5, <1>7, <2>1
  <1>8. CASE ctx' = [ctx EXCEPT ![c] = Blank] /\ active' = [active EXCEPT ![b] = NoCtx]
    <2>1. ctx'[c].st = "free"
      BY <1>0, <1>8, BlankType DEF TypeOK
    <2> QED
      BY <1>6, <1>8, <2>1
  <1> QED
    BY <1>7, <1>8 DEF MgrSpawn

(* Every step of the loop and of the threads keeps the claims.             *)
LEMMA ClaimStep == ClaimInv /\ [Next]_vars => ClaimInv'
  <1> SUFFICES ASSUME TypeOK, ClaimParts, [Next]_vars PROVE ClaimParts'
    BY TypeStep DEF ClaimInv
  <1>1. CASE World
    BY <1>1, KeepClaims DEF World, Move, Rekey, Edit, Announce, Tick
  <1>2. ASSUME NEW m \in net, MgrRecv(m) PROVE ClaimParts'
    <2>1. mgr.pc # "spawn" /\ mgr'.pc # "spawn"
      BY <1>2, BlankType DEF MgrRecv, TypeOK, Round
    <2> QED
      BY <1>2, <2>1, KeepClaims DEF MgrRecv
  <1>3. CASE MgrRefresh \/ MgrLookup \/ MgrAgain
    <2>1. mgr.pc # "spawn" /\ mgr'.pc # "spawn"
      BY <1>3, BlankType DEF MgrRefresh, MgrLookup, MgrAgain, MgrTo, TypeOK, Round
    <2> QED
      BY <1>3, <2>1, KeepClaims DEF MgrRefresh, MgrLookup, MgrAgain
  <1>4. CASE MgrRevoke
    <2>1. mgr.pc # "spawn" /\ mgr'.pc # "spawn" /\ active' = active
      BY <1>4 DEF MgrRevoke, MgrTo, TypeOK, Round
    <2>2. \A c \in Ctxs : ctx'[c].st = ctx[c].st /\ ctx'[c].b = ctx[c].b
      BY <1>4 DEF MgrRevoke, Killed, TypeOK, BoardCtx
    <2> QED
      BY <2>1, <2>2, KeepClaims
  <1>5. CASE UNCHANGED vars
    BY <1>5, KeepClaims DEF vars
  <1> QED
    BY <1>1, <1>2, <1>3, <1>4, <1>5, ClaimClaims, SpawnClaims, ThreadClaims
       DEF Next, MgrStep

(* The claims are therefore kept in every reachable state.                 *)
LEMMA ClaimAlways == Spec => []ClaimInv
  <1>1. Init => ClaimParts
    BY BlankType DEF Init, ClaimParts, ClaimHeld, MapHoldsLiveCtx, Spawning, Threads
  <1>2. Init => ClaimInv
    BY <1>1, InitType DEF ClaimInv
  <1> QED
    BY <1>2, ClaimStep, PTL DEF Spec

(* No board is ever served by two threads at once.                         *)
THEOREM OneThreadPerBoard == Spec => []ClaimHeld
  <1>1. ClaimInv => ClaimHeld
    BY DEF ClaimInv, ClaimParts
  <1> QED
    BY <1>1, ClaimAlways, PTL

(* The map never holds a pointer to a destroyed object.                    *)
THEOREM NoDanglingCtx == Spec => []MapHoldsLiveCtx
  <1>1. ClaimInv => MapHoldsLiveCtx
    BY DEF ClaimInv, ClaimParts
  <1> QED
    BY <1>1, ClaimAlways, PTL
=============================================================================
