--------------------------- MODULE DiscoveryProofs --------------------------
(***************************************************************************)
(* Announces in time and up to date (module Discovery) for any width of    *)
(* the counter, interval and receive timeout.  TimeInv says how much time  *)
(* the counter can show since the last announce at each place of the loop, *)
(* which keeps it from wrapping between two looks; the two histories stay  *)
(* below that.  RateInv does the same for the replies of a second.         *)
(***************************************************************************)
EXTENDS Discovery, WellFoundedInduction, TLAPS

Since == Elapsed(clock, task.last)

TimeInv ==
    /\ task.pc = "top" => Since < Bound
    /\ task.pc = "wait" => Since < ANNOUNCE_INTERVAL_MS + task.waited
    /\ task.pc \in {"sign", "mac"} => Since = 0 /\ task.announce = NoAnn

\* An address that is lost and an announce that is due leave the histories as
\* they are until they start anew.
QuietInv ==
    /\ quiet < Bound
    /\ ip # NoIp /\ task.pc \in {"top", "wait"} => quiet <= Since
StaleInv == task.announce # NoAnn => stale <= Since

DiscoveryInv == TypeOK /\ TimeInv /\ QuietInv /\ StaleInv

-----------------------------------------------------------------------------
(* The counter.                                                            *)

LEMMA ModSmall == ASSUME NEW m \in Nat \ {0}, NEW x \in 0..m - 1 PROVE x % m = x
  BY SMT
LEMMA ModBelow == ASSUME NEW m \in Nat \ {0}, NEW x \in (0 - m)..(0 - 1) PROVE x % m = x + m
  BY SMT
LEMMA ModAt == ASSUME NEW m \in Nat \ {0} PROVE m % m = 0
  BY SMT

LEMMA Constants ==
    /\ Millis \in Nat \ {0} /\ ANNOUNCE_INTERVAL_MS \in Nat \ {0} /\ RecvTimeout \in Nat \ {0}
    /\ Window \in Nat \ {0} /\ PROBE_REPLIES_PER_S \in Nat \ {0} /\ MaxKey \in Nat
    /\ Bound = ANNOUNCE_INTERVAL_MS + RecvTimeout /\ Bound < Millis
  BY DiscoveryAssumption DEF Bound

\* Between two readings of the counter there is their difference, or what is
\* missing of a whole turn.
LEMMA ElapsedIs ==
    ASSUME NEW a \in 0..Millis - 1, NEW b \in 0..Millis - 1
    PROVE  Elapsed(a, b) = IF a >= b THEN a - b ELSE a - b + Millis
<1>1. CASE a >= b
    <2>1. a - b \in 0..Millis - 1
        BY <1>1, Constants
    <2> QED BY <1>1, <2>1, ModSmall, Constants DEF Elapsed
<1>2. CASE ~(a >= b)
    <2>1. a - b \in (0 - Millis)..(0 - 1)
        BY <1>2, Constants
    <2> QED BY <1>2, <2>1, ModBelow, Constants DEF Elapsed
<1> QED BY <1>1, <1>2

LEMMA ElapsedType ==
    ASSUME NEW a \in 0..Millis - 1, NEW b \in 0..Millis - 1
    PROVE  Elapsed(a, b) \in 0..Millis - 1 /\ Elapsed(a, a) = 0
  BY ElapsedIs, Constants

\* A tick adds one to the time that has passed, wherever the counter wraps.
LEMMA TickElapsed ==
    ASSUME NEW a \in 0..Millis - 1, NEW b \in 0..Millis - 1, Elapsed(a, b) + 1 < Millis
    PROVE  /\ (a + 1) % Millis \in 0..Millis - 1
           /\ Elapsed((a + 1) % Millis, b) = Elapsed(a, b) + 1
<1>1. CASE a + 1 < Millis
    <2>1. (a + 1) % Millis = a + 1 /\ a + 1 \in 0..Millis - 1
        BY <1>1, ModSmall, Constants
    <2>2. Elapsed(a + 1, b) = IF a + 1 >= b THEN a + 1 - b ELSE a + 1 - b + Millis
        BY <2>1, ElapsedIs
    <2>3. Elapsed(a, b) = IF a >= b THEN a - b ELSE a - b + Millis
        BY ElapsedIs
    <2> QED BY <1>1, <2>1, <2>2, <2>3, Constants
<1>2. CASE a + 1 = Millis
    <2>1. (a + 1) % Millis = 0 /\ 0 \in 0..Millis - 1
        BY <1>2, ModAt, Constants
    <2>2. Elapsed(0, b) = IF 0 >= b THEN 0 - b ELSE 0 - b + Millis
        BY <2>1, ElapsedIs
    <2> QED BY <1>2, <2>1, <2>2, ElapsedIs, Constants
<1> QED BY <1>1, <1>2, Constants

\* When the task starts the first announce is due, and not more than that.
LEMMA StartedDue ==
    /\ (0 - ANNOUNCE_INTERVAL_MS) % Millis \in 0..Millis - 1
    /\ Elapsed(0, (0 - ANNOUNCE_INTERVAL_MS) % Millis) = ANNOUNCE_INTERVAL_MS
<1>1. 0 - ANNOUNCE_INTERVAL_MS \in (0 - Millis)..(0 - 1)
    BY Constants
<1>2. (0 - ANNOUNCE_INTERVAL_MS) % Millis = 0 - ANNOUNCE_INTERVAL_MS + Millis
    BY <1>1, ModBelow, Constants
<1>3. 0 \in 0..Millis - 1 /\ 0 - ANNOUNCE_INTERVAL_MS + Millis \in 0..Millis - 1
    BY Constants
<1> QED BY <1>2, <1>3, ElapsedIs, Constants

-----------------------------------------------------------------------------
(* The invariant, action by action.                                        *)

TaskType ==
    [pc : {"top", "sign", "mac", "wait"}, last : 0..Millis - 1, window : 0..Millis - 1,
     replies : 0..PROBE_REPLIES_PER_S, waited : 0..RecvTimeout, ip : Ips \cup {NoIp},
     announce : [ip : Ips \cup {NoIp}, sig : Unsigned..MaxKey]]

AuthType == [psk : 0..MaxKey, claimed : BOOLEAN, pc : {"idle", "cleared", "restart"}, keys : 0..MaxKey]
RateType == [0..Window - 1 -> 0..2 * PROBE_REPLIES_PER_S + 1]

\* The types, one by one.
LEMMA Typed ==
    ASSUME TypeOK
    PROVE  /\ task \in TaskType /\ auth \in AuthType /\ rate \in RateType
           /\ clock \in 0..Millis - 1 /\ stale \in Nat /\ quiet \in Nat
           /\ task.last \in 0..Millis - 1 /\ task.waited \in 0..RecvTimeout
           /\ Since \in 0..Millis - 1
<1>1. task \in TaskType /\ auth \in AuthType /\ rate \in RateType
    BY DEF TypeOK, TaskType, AuthType, RateType
<1>2. clock \in 0..Millis - 1 /\ stale \in Nat /\ quiet \in Nat
    BY Constants DEF TypeOK
<1>3. task.last \in 0..Millis - 1 /\ task.waited \in 0..RecvTimeout
    BY <1>1 DEF TaskType
<1> QED BY <1>1, <1>2, <1>3, ElapsedType DEF Since

\* A start, the first one or a later one, meets the invariant.
LEMMA StartInv ==
    ASSUME clock = 0, ip = NoIp, task = Started(0), stale = 0, quiet = 0
    PROVE  clock \in 0..Millis - 1 /\ task \in TaskType /\ TimeInv /\ QuietInv /\ StaleInv
<1>1. task.pc = "top" /\ task.announce = NoAnn /\ task.last = (0 - ANNOUNCE_INTERVAL_MS) % Millis
    BY DEF Started
<1>2. Since = ANNOUNCE_INTERVAL_MS
    BY <1>1, StartedDue DEF Since
<1>3. task \in TaskType
    BY StartedDue, Constants DEF Started, TaskType, NoAnn, Unsigned
<1>4. TimeInv /\ QuietInv /\ StaleInv
    BY <1>1, <1>2, Constants DEF TimeInv, QuietInv, StaleInv
<1> QED BY <1>3, <1>4, Constants

LEMMA DiscoveryInitial == Init => DiscoveryInv
<1> SUFFICES ASSUME Init PROVE DiscoveryInv
    OBVIOUS
<1>1. clock \in 0..Millis - 1 /\ task \in TaskType /\ TimeInv /\ QuietInv /\ StaleInv
    BY StartInv DEF Init
<1>2. auth \in AuthType
    BY Constants DEF Init, AuthType
<1>3. stale \in 0..Bound /\ quiet \in 0..Bound /\ rate \in RateType
    BY Constants DEF Init, RateType
<1>4. ip \in Ips \cup {NoIp}
    BY DEF Init
<1> QED BY <1>1, <1>2, <1>3, <1>4 DEF DiscoveryInv, TypeOK, TaskType, AuthType, RateType

\* The key and its flag change together with their types.
LEMMA ClaimTyped == ASSUME auth \in AuthType, Claim PROVE auth' \in AuthType
<1>1. auth.keys + 1 \in 0..MaxKey
    BY Constants DEF Claim, AuthType
<1>2. auth' = [auth EXCEPT !.psk = auth.keys + 1, !.claimed = TRUE, !.keys = auth.keys + 1]
    BY DEF Claim
<1> QED BY <1>1, <1>2, Zenon DEF AuthType
LEMMA UnclaimTyped == ASSUME auth \in AuthType, Unclaim PROVE auth' \in AuthType
<1>1. 0 \in 0..MaxKey
    BY Constants
<1> QED BY <1>1, Zenon DEF Unclaim, AuthType

\* What the other tasks do does not touch the counter or the cached announce.
LEMMA OthersPreserve ==
    DiscoveryInv /\ (Claim \/ Unclaim \/ \E a \in Ips \cup {NoIp} : SetIp(a)) => DiscoveryInv'
<1> SUFFICES ASSUME DiscoveryInv, Claim \/ Unclaim \/ \E a \in Ips \cup {NoIp} : SetIp(a)
             PROVE  DiscoveryInv'
    OBVIOUS
<1>1. Since' = Since /\ UNCHANGED <<clock, task, stale, rate>>
    BY DEF Claim, Unclaim, SetIp, Since, hist
<1>2. CASE Claim \/ Unclaim
    <2>1. auth' \in AuthType
        BY <1>2, Typed, ClaimTyped, UnclaimTyped DEF DiscoveryInv
    <2>2. UNCHANGED <<ip, quiet>>
        BY <1>2 DEF Claim, Unclaim, hist
    <2> QED BY <1>1, <2>1, <2>2 DEF DiscoveryInv, TypeOK, AuthType, TimeInv, QuietInv, StaleInv
<1>3. ASSUME NEW a \in Ips \cup {NoIp}, SetIp(a) PROVE DiscoveryInv'
    <2>1. ip' \in Ips \cup {NoIp} /\ UNCHANGED auth /\ quiet' \in 0..Bound /\ quiet' < Bound
        BY <1>3, Constants DEF SetIp, DiscoveryInv, TypeOK, QuietInv
    <2>2. Since \in 0..Millis - 1
        BY ElapsedType DEF Since, DiscoveryInv, TypeOK
    <2>3. QuietInv'
        BY <1>1, <1>3, <2>1, <2>2, Constants DEF SetIp, DiscoveryInv, TypeOK, QuietInv
    <2> QED BY <1>1, <2>1, <2>3 DEF DiscoveryInv, TypeOK, TimeInv, StaleInv
<1> QED BY <1>2, <1>3

LEMMA RestartPreserves == DiscoveryInv /\ Restart => DiscoveryInv'
<1> SUFFICES ASSUME DiscoveryInv, Restart PROVE DiscoveryInv'
    OBVIOUS
<1>1. task'.pc = "top" /\ task'.announce = NoAnn /\ task'.last = (0 - ANNOUNCE_INTERVAL_MS) % Millis
    BY DEF Restart, Started
<1>2. Since' = ANNOUNCE_INTERVAL_MS
    BY <1>1, StartedDue DEF Since, Restart
<1>3. task' \in TaskType
    BY StartedDue, Constants DEF Restart, Started, TaskType, NoAnn, Unsigned
<1>4. (TimeInv /\ QuietInv /\ StaleInv)'
    BY <1>1, <1>2, Constants DEF Restart, TimeInv, QuietInv, StaleInv
<1>5. auth' \in [psk : 0..MaxKey, claimed : BOOLEAN, pc : {"idle", "cleared", "restart"}, keys : 0..MaxKey]
    BY Constants DEF DiscoveryInv, TypeOK, Restart
<1>6. /\ clock' \in 0..Millis - 1 /\ ip' \in Ips \cup {NoIp} /\ stale' \in 0..Bound /\ quiet' \in 0..Bound
      /\ rate' \in [0..Window - 1 -> 0..2 * PROBE_REPLIES_PER_S + 1]
    BY Constants DEF Restart
<1> QED BY <1>3, <1>4, <1>5, <1>6 DEF DiscoveryInv, TypeOK, TaskType

\* Replies are counted up to the limit and the window begins at a reading.
LEMMA ProbeTyped ==
    ASSUME task \in TaskType, rate \in RateType, clock \in 0..Millis - 1, Probe
    PROVE  task' \in TaskType /\ rate' \in RateType
<1> DEFINE new == Elapsed(clock, task.window) >= Window
           n   == IF new THEN 0 ELSE task.replies
           ok  == n < PROBE_REPLIES_PER_S
           r   == IF ok THEN n + 1 ELSE n
           w   == IF new THEN clock ELSE task.window
           one == Least(rate[0] + 1, 2 * PROBE_REPLIES_PER_S + 1)
<1>1. task' = [task EXCEPT !.pc = "top", !.replies = r, !.window = w]
    BY DEF Probe, WindowFrom
<1>2. rate' = rate \/ rate' = [rate EXCEPT ![0] = one]
    BY DEF Probe
<1>3. task.replies \in 0..PROBE_REPLIES_PER_S /\ task.window \in 0..Millis - 1
    BY DEF TaskType
<1>4. r \in 0..PROBE_REPLIES_PER_S /\ w \in 0..Millis - 1
    <2> HIDE DEF new
    <2> QED BY <1>3, Constants
<1>5. 0 \in 0..Window - 1 /\ rate[0] \in 0..2 * PROBE_REPLIES_PER_S + 1
    BY Constants DEF RateType
<1>6. one \in 0..2 * PROBE_REPLIES_PER_S + 1
    BY <1>5, Constants DEF Least
<1> HIDE DEF r, w, one
<1>7. task' \in TaskType
    BY <1>1, <1>4 DEF TaskType
<1>8. rate' \in RateType
    BY <1>2, <1>5, <1>6 DEF RateType
<1> QED BY <1>7, <1>8

\* The task's own steps take no time: an announce that is due starts the count
\* anew, and nothing is cached until it has been made.
LEMMA TaskPreserves == DiscoveryInv /\ Task => DiscoveryInv'
<1> SUFFICES ASSUME DiscoveryInv, Task PROVE DiscoveryInv'
    OBVIOUS
<1> USE DEF DiscoveryInv
<1>1. UNCHANGED <<clock, ip, auth>>
    BY DEF Task, Top, Sign, Mac, Broadcast, Pass, Probe
<1>0. /\ task \in TaskType /\ auth \in AuthType /\ rate \in RateType
      /\ clock \in 0..Millis - 1 /\ stale \in Nat /\ quiet \in Nat
      /\ task.last \in 0..Millis - 1 /\ task.waited \in 0..RecvTimeout /\ Since \in 0..Millis - 1
    BY Typed
<1>2. Since \in 0..Millis - 1 /\ Elapsed(clock, clock) = 0
    BY ElapsedType DEF Since, TypeOK
<1>3. CASE Top
    <2>1. CASE Since >= ANNOUNCE_INTERVAL_MS
        <3>1. task' = [task EXCEPT !.last = clock, !.announce = NoAnn, !.ip = ip, !.waited = 0,
                                   !.pc = IF ip = NoIp THEN "wait" ELSE "sign"]
            BY <1>3, <2>1 DEF Top, Since, Dropped
        <3>2. Since' = 0
            BY <1>1, <1>2, <3>1 DEF Since, TypeOK
        <3>3. task' \in TaskType
            <4>1. NoAnn \in [ip : Ips \cup {NoIp}, sig : Unsigned..MaxKey] /\ 0 \in 0..RecvTimeout
                BY Constants DEF NoAnn, Unsigned
            <4>2. ip \in Ips \cup {NoIp}
                BY DEF TypeOK
            <4> QED BY <1>0, <3>1, <4>1, <4>2 DEF TaskType
        <3>4. TimeInv' /\ QuietInv' /\ StaleInv'
            <4>1. /\ task'.pc = IF ip = NoIp THEN "wait" ELSE "sign"
                  /\ task'.announce = NoAnn /\ task'.waited = 0
                BY <1>0, <3>1 DEF TaskType
            <4>2. UNCHANGED <<ip, quiet, stale>>
                BY <1>3 DEF Top, hist
            <4> QED BY <3>2, <4>1, <4>2, Constants DEF TimeInv, QuietInv, StaleInv
        <3> QED BY <1>1, <1>3, <3>3, <3>4 DEF Top, hist, TypeOK, TaskType
    <2>2. CASE ~(Since >= ANNOUNCE_INTERVAL_MS)
        <3>1. task' = [task EXCEPT !.pc = "wait", !.waited = 0]
            BY <1>3, <2>2 DEF Top, Since
        <3>2. Since' = Since
            BY <1>1, <3>1 DEF Since, TypeOK
        <3>3. task' \in TaskType
            <4>1. 0 \in 0..RecvTimeout
                BY Constants
            <4> QED BY <1>0, <3>1, <4>1 DEF TaskType
        <3>4. TimeInv' /\ QuietInv' /\ StaleInv'
            <4>1. task.pc = "top" /\ task'.pc = "wait" /\ task'.waited = 0 /\ task'.announce = task.announce
                BY <1>0, <1>3, <3>1 DEF TaskType, Top
            <4>2. UNCHANGED <<ip, quiet, stale>>
                BY <1>3 DEF Top, hist
            <4> QED BY <1>0, <2>2, <3>2, <4>1, <4>2, Constants DEF TimeInv, QuietInv, StaleInv
        <3> QED BY <1>1, <1>3, <3>3, <3>4 DEF Top, hist, TypeOK, TaskType
    <2> QED BY <2>1, <2>2
<1>4. ASSUME NEW sig \in Unsigned..MaxKey, Broadcast(sig), task.pc \in {"sign", "mac"} PROVE DiscoveryInv'
    <2>1. task' \in TaskType /\ task'.pc = "wait" /\ task'.last = task.last /\ task'.waited = task.waited
        BY <1>4, Constants DEF Broadcast, TypeOK, TaskType
    <2>2. Since' = 0
        BY <1>1, <1>4, <2>1 DEF Since, TimeInv
    <2>3. TimeInv' /\ QuietInv' /\ StaleInv'
        BY <1>0, <1>4, <2>1, <2>2, Constants DEF Broadcast, TimeInv, QuietInv, StaleInv
    <2>4. stale' \in 0..Bound /\ quiet' \in 0..Bound /\ UNCHANGED rate
        BY <1>4, Constants DEF Broadcast
    <2> QED BY <1>1, <2>1, <2>3, <2>4 DEF TypeOK, TaskType
<1>5. CASE Sign /\ auth.claimed /\ task' = [task EXCEPT !.pc = "mac"]
    <2>1. task' \in TaskType /\ Since' = Since /\ UNCHANGED hist
        BY <1>1, <1>5 DEF Sign, Broadcast, Since, TypeOK, TaskType, hist
    <2>2. TimeInv' /\ QuietInv' /\ StaleInv'
        BY <1>1, <1>5, <2>1 DEF Sign, TypeOK, TimeInv, QuietInv, StaleInv, hist
    <2> QED BY <1>1, <2>1, <2>2 DEF TypeOK, TaskType, hist
<1>6. CASE Pass \/ Probe
    <2>1. /\ task.pc = "wait" /\ task'.pc = "top" /\ task'.last = task.last
          /\ task'.announce = task.announce /\ UNCHANGED <<stale, quiet>>
        BY <1>6 DEF Pass, Probe, TypeOK, hist
    <2>2. task' \in TaskType /\ rate' \in RateType
        BY <1>0, <1>6, ProbeTyped DEF Pass, TaskType, hist
    <2>4. Since' = Since
        BY <1>1, <2>1 DEF Since
    <2>5. QuietInv' /\ StaleInv'
        BY <1>1, <1>2, <2>1, <2>4, Constants DEF TypeOK, QuietInv, StaleInv
    <2>6. TimeInv'
        <3>1. Since < ANNOUNCE_INTERVAL_MS + task.waited /\ task.waited \in 0..RecvTimeout
            BY <1>0, <1>1, <2>1 DEF TimeInv, TaskType
        <3>2. Since < Bound
            BY ONLY <1>2, <3>1, Constants
        <3> QED BY ONLY <2>1, <2>4, <3>2 DEF TimeInv
    <2> QED BY <1>1, <2>1, <2>2, <2>5, <2>6 DEF TypeOK, TaskType, RateType
<1>7. CASE Sign \/ Mac
    <2>1. Unsigned \in Unsigned..MaxKey /\ auth.psk \in Unsigned..MaxKey
        BY Constants DEF Unsigned, TypeOK
    <2> QED BY <1>4, <1>5, <1>7, <2>1 DEF Sign, Mac
<1> QED BY <1>3, <1>6, <1>7 DEF Task

\* Time passes only in recvfrom and for no longer than its timeout, so the
\* counter cannot come round between two looks at it.
LEMMA TickPreserves == DiscoveryInv /\ Tick => DiscoveryInv'
<1> SUFFICES ASSUME DiscoveryInv, Tick PROVE DiscoveryInv'
    OBVIOUS
<1> USE DEF DiscoveryInv
<1>0. /\ task \in TaskType /\ rate \in RateType /\ clock \in 0..Millis - 1
      /\ stale \in Nat /\ quiet \in Nat /\ stale \in 0..Bound /\ quiet \in 0..Bound
      /\ task.last \in 0..Millis - 1 /\ task.waited \in 0..RecvTimeout /\ Since \in 0..Millis - 1
    BY Typed DEF TypeOK
<1>1. /\ task' = [task EXCEPT !.waited = task.waited + 1]
      /\ task' \in TaskType /\ task.pc = "wait" /\ task.waited \in Nat /\ task.waited < RecvTimeout
    <2>1. task' = [task EXCEPT !.waited = task.waited + 1] /\ task.pc = "wait" /\ task.waited < RecvTimeout
        BY DEF Tick
    <2>2. task.waited + 1 \in 0..RecvTimeout /\ task.waited \in Nat
        BY <1>0, <2>1, Constants
    <2> QED BY <1>0, <2>1, <2>2 DEF TaskType
<1>a. /\ task'.pc = "wait" /\ task'.last = task.last /\ task'.announce = task.announce
      /\ task'.waited = task.waited + 1
    BY <1>0, <1>1 DEF TaskType
<1>2. Since \in 0..Millis - 1 /\ Since < ANNOUNCE_INTERVAL_MS + task.waited
    BY <1>1, ElapsedType DEF Since, TypeOK, TimeInv
<1>3. Since + 1 < Millis
    BY <1>1, <1>2, Constants
<1>4. clock' \in 0..Millis - 1 /\ Since' = Since + 1
    BY <1>1, <1>3, TickElapsed DEF Tick, Since, TypeOK
<1>5. TimeInv'
    BY <1>0, <1>1, <1>a, <1>2, <1>4, Constants DEF TimeInv
<1>b. /\ quiet' = IF ip = NoIp THEN 0 ELSE Least(quiet + 1, Bound)
      /\ stale' = IF task.announce = NoAnn \/ Holds(task.announce) THEN 0 ELSE Least(stale + 1, Bound)
      /\ rate' = [i \in 0..Window - 1 |-> IF i = 0 THEN 0 ELSE rate[i - 1]]
      /\ UNCHANGED <<ip, auth>>
    BY DEF Tick
<1>6. quiet' \in 0..Bound /\ stale' \in 0..Bound
    BY <1>0, <1>b, Constants DEF Least
<1>7. QuietInv'
    <2>1. CASE ip = NoIp
        BY <1>b, <2>1, Constants DEF QuietInv
    <2>2. CASE ip # NoIp
        <3>1. quiet <= Since /\ Since + 1 < Bound
            BY <1>0, <1>1, <1>2, <2>2, Constants DEF QuietInv
        <3>2. quiet' = quiet + 1
            BY <1>0, <1>b, <2>2, <3>1, Constants DEF Least
        <3> QED BY <1>0, <1>4, <1>a, <3>1, <3>2, Constants DEF QuietInv
    <2> QED BY <2>1, <2>2
<1>8. StaleInv'
    <2>1. SUFFICES ASSUME task.announce # NoAnn PROVE stale' <= Since + 1
        BY <1>4, <1>a DEF StaleInv
    <2>2. stale <= Since
        BY <2>1 DEF StaleInv
    <2>3. stale' = 0 \/ stale' = Least(stale + 1, Bound)
        BY <1>b
    <2>4. Least(stale + 1, Bound) \in Nat /\ Least(stale + 1, Bound) <= stale + 1
        BY <1>0, Constants DEF Least
    <2> QED BY <1>0, <2>2, <2>3, <2>4, Constants
<1>9. rate' \in RateType
    BY <1>0, <1>b, Constants DEF RateType
<1> QED BY <1>1, <1>4, <1>5, <1>6, <1>7, <1>8, <1>9, <1>b DEF TypeOK, TaskType, RateType

LEMMA DiscoveryStep == DiscoveryInv /\ [Next]_vars => DiscoveryInv'
<1>1. ASSUME DiscoveryInv, UNCHANGED vars PROVE DiscoveryInv'
    BY <1>1 DEF vars, DiscoveryInv, TypeOK, TimeInv, QuietInv, StaleInv, Since
<1> QED BY <1>1, OthersPreserve, RestartPreserves, TaskPreserves, TickPreserves DEF Next

LEMMA DiscoveryInvariant == Spec => []DiscoveryInv
  BY DiscoveryInitial, DiscoveryStep, PTL DEF Spec

-----------------------------------------------------------------------------

\* The locals of the task, the key's state and the histories keep their types:
\* never more than PROBE_REPLIES_PER_S replies are counted.
THEOREM DiscoveryTypeCorrect == Spec => []TypeOK
<1>1. DiscoveryInv => TypeOK
    BY DEF DiscoveryInv
<1> QED BY <1>1, DiscoveryInvariant, PTL

\* glue.c 311-318: whatever the width of the counter, a board with an address
\* is never silent for an interval and a receive timeout.
THEOREM NeverSilent == Spec => []AnnouncedInTime
<1>1. DiscoveryInv => AnnouncedInTime
    BY DEF DiscoveryInv, QuietInv, AnnouncedInTime
<1> QED BY <1>1, DiscoveryInvariant, PTL

\* glue.c 311-324, 339: the cached announce is never outdated for that long.
THEOREM NeverOutdated == Spec => []AnnounceFresh
<1>1. ASSUME DiscoveryInv PROVE AnnounceFresh
    <2>1. Since \in 0..Millis - 1
        BY <1>1, ElapsedType DEF Since, DiscoveryInv, TypeOK
    <2>2. Since < Bound
        BY <1>1, <2>1, Constants, SMTT(20) DEF DiscoveryInv, TypeOK, TimeInv
    <2> QED BY <1>1, <2>1, <2>2, Constants DEF DiscoveryInv, TypeOK, StaleInv, AnnounceFresh
<1> QED BY <1>1, DiscoveryInvariant, PTL

-----------------------------------------------------------------------------
(* Sums over the last ticks.  What a recursive function computes is shown  *)
(* by way of the least argument for which it would compute something else. *)

Ticks == 0..Window - 1
Rates == [Ticks -> Nat]
SumStep(r, f, i) == f[i] = r[i] + (IF i = 0 THEN 0 ELSE f[i - 1])

\* A set of ticks that holds the first one and the next one of each is all.
LEMMA TickInduction ==
    ASSUME NEW G, 0 \in G, \A i \in Ticks : i > 0 /\ i - 1 \in G => i \in G
    PROVE  Ticks \subseteq G
<1> DEFINE B == Ticks \ G
<1> SUFFICES ASSUME B # {} PROVE FALSE
    OBVIOUS
<1>1. B \in SUBSET Nat
    BY DEF Ticks
<1>2. PICK n \in B : \A m \in B : ~(m < n)
    <2> DEFINE R == OpToRel(<, Nat)
    <2>1. \E n \in B : \A m \in B : ~(<<m, n>> \in R)
        <3> HIDE DEF B, R
        <3>1. IsWellFoundedOn(R, Nat)
            BY NatLessThanWellFounded DEF R
        <3> QED BY <1>1, <3>1, WFMin
    <2>2. \A m, n \in Nat : m < n => <<m, n>> \in R
        BY DEF OpToRel
    <2> QED BY <1>1, <2>1, <2>2
<1>3. n \in Ticks /\ n \notin G /\ n \in Nat /\ n # 0
    BY <1>1, <1>2
<1>4. n - 1 \in Ticks /\ n - 1 \in Nat /\ n - 1 < n
    BY <1>3, Constants DEF Ticks
<1>5. n - 1 \in G
    BY <1>2, <1>4
<1> QED BY <1>3, <1>4, <1>5

\* Such a function exists: the one for fewer ticks goes on by one more.
LEMMA SumsExist ==
    ASSUME NEW r \in Rates
    PROVE  \E f \in Rates : \A i \in Ticks : SumStep(r, f, i)
<1> DEFINE Upto(n) == \E f \in Rates : \A i \in 0..n : SumStep(r, f, i)
           G == {n \in Ticks : Upto(n)}
<1>0. \A i \in Ticks : r[i] \in Nat
    BY DEF Rates
<1>1. 0 \in G
    <2>1. 0 \in Ticks
        BY Constants DEF Ticks
    <2>2. \A i \in 0..0 : SumStep(r, r, i)
        BY <1>0, <2>1 DEF SumStep
    <2> QED BY <2>1, <2>2
<1>2. ASSUME NEW n \in Ticks, n > 0, n - 1 \in G PROVE n \in G
    <2>1. PICK f \in Rates : \A i \in 0..n - 1 : SumStep(r, f, i)
        BY <1>2
    <2> DEFINE g == [f EXCEPT ![n] = r[n] + f[n - 1]]
    <2>2. n \in Nat /\ n - 1 \in Ticks /\ n - 1 # n
        BY <1>2 DEF Ticks
    <2>3. r[n] + f[n - 1] \in Nat
        BY <1>0, <2>2 DEF Rates
    <2>4. g \in Rates /\ g[n] = r[n] + f[n - 1] /\ \A i \in Ticks : i # n => g[i] = f[i]
        BY <2>3 DEF Rates
    <2>5. ASSUME NEW i \in 0..n PROVE SumStep(r, g, i)
        <3>1. CASE i = n
            BY <1>2, <2>2, <2>4, <3>1 DEF SumStep
        <3>2. CASE i # n
            <4>1. i \in 0..n - 1 /\ i \in Ticks /\ (i # 0 => i - 1 \in Ticks /\ i - 1 # n)
                BY <1>2, <2>2, <3>2, Constants DEF Ticks
            <4>2. SumStep(r, f, i)
                BY <2>1, <4>1
            <4> QED BY <2>4, <3>2, <4>1, <4>2 DEF SumStep
        <3> QED BY <3>1, <3>2
    <2> QED BY <1>2, <2>4, <2>5
<1>3. Ticks \subseteq G
    <2> HIDE DEF G
    <2> QED BY <1>1, <1>2, TickInduction
<1>4. Window - 1 \in Ticks /\ Ticks = 0..Window - 1
    BY Constants DEF Ticks
<1> QED BY <1>3, <1>4

\* Sums is that function.
LEMMA SumsAre ==
    ASSUME NEW r \in Rates
    PROVE  Sums(r) \in Rates /\ \A i \in Ticks : SumStep(r, Sums(r), i)
<1> DEFINE F(f) == [i \in Ticks |-> r[i] + (IF i = 0 THEN 0 ELSE f[i - 1])]
           G == {i \in Ticks : Sums(r)[i] \in Nat}
<1>1. PICK f \in Rates : \A i \in Ticks : SumStep(r, f, i)
    BY SumsExist
<1>2. f = F(f)
    BY <1>1 DEF SumStep, Rates
<1>3. Sums(r) = CHOOSE g : g = F(g)
    BY DEF Sums, Ticks
<1>4. Sums(r) = F(Sums(r))
    BY <1>2, <1>3
<1>5. \A i \in Ticks : SumStep(r, Sums(r), i)
    BY <1>4 DEF SumStep
<1>6. 0 \in G /\ \A i \in Ticks : i > 0 /\ i - 1 \in G => i \in G
    <2>1. 0 \in Ticks /\ \A i \in Ticks : r[i] \in Nat
        BY Constants DEF Ticks, Rates
    <2> QED BY <1>5, <2>1 DEF SumStep
<1>7. \A i \in Ticks : Sums(r)[i] \in Nat
    <2>1. Ticks \subseteq G
        <3> HIDE DEF G
        <3> QED BY <1>6, TickInduction
    <2> QED BY <2>1
<1> QED BY <1>4, <1>5, <1>7 DEF Rates

\* Two sums that begin alike and grow alike differ by the same at all ticks.
LEMMA SumsBeside ==
    ASSUME NEW r \in Rates, NEW s \in Rates, NEW d \in Nat,
           s[0] = r[0] + d, \A i \in Ticks \ {0} : s[i] = r[i]
    PROVE  \A i \in Ticks : Sums(s)[i] = Sums(r)[i] + d
<1> DEFINE G == {i \in Ticks : Sums(s)[i] = Sums(r)[i] + d}
<1>1. Sums(r) \in Rates /\ Sums(s) \in Rates
    BY SumsAre
<1>2. \A i \in Ticks : SumStep(r, Sums(r), i) /\ SumStep(s, Sums(s), i)
    BY SumsAre
<1>3. 0 \in Ticks /\ \A i \in Ticks : i > 0 => i - 1 \in Ticks
    BY Constants DEF Ticks
<1>4. \A i \in Ticks : r[i] \in Nat /\ s[i] \in Nat /\ Sums(r)[i] \in Nat /\ Sums(s)[i] \in Nat
    BY <1>1 DEF Rates
<1>5. 0 \in G
    BY <1>2, <1>3, <1>4 DEF SumStep
<1>6. ASSUME NEW i \in Ticks, i > 0, i - 1 \in G PROVE i \in G
    BY <1>2, <1>3, <1>4, <1>6 DEF SumStep
<1>7. Ticks \subseteq G
    <2> HIDE DEF G
    <2> QED BY <1>5, <1>6, TickInduction
<1> QED BY <1>7

\* One tick later every sum is the one of a tick less before.
LEMMA SumsShifted ==
    ASSUME NEW r \in Rates, NEW s \in Rates, s[0] = 0, \A i \in Ticks \ {0} : s[i] = r[i - 1]
    PROVE  Sums(s)[0] = 0 /\ \A i \in Ticks \ {0} : Sums(s)[i] = Sums(r)[i - 1]
<1> DEFINE G == {i \in Ticks : Sums(s)[i] = IF i = 0 THEN 0 ELSE Sums(r)[i - 1]}
<1>1. Sums(r) \in Rates /\ Sums(s) \in Rates
    BY SumsAre
<1>2. \A i \in Ticks : SumStep(r, Sums(r), i) /\ SumStep(s, Sums(s), i)
    BY SumsAre
<1>3. 0 \in Ticks /\ \A i \in Ticks : i > 0 => i - 1 \in Ticks
    BY Constants DEF Ticks
<1>4. \A i \in Ticks : r[i] \in Nat /\ s[i] \in Nat /\ Sums(r)[i] \in Nat /\ Sums(s)[i] \in Nat
    BY <1>1 DEF Rates
<1>5. 0 \in G
    BY <1>2, <1>3, <1>4 DEF SumStep
<1>6. ASSUME NEW i \in Ticks, i > 0, i - 1 \in G PROVE i \in G
    BY <1>2, <1>3, <1>4, <1>6 DEF SumStep, Ticks
<1>7. Ticks \subseteq G
    <2> HIDE DEF G
    <2> QED BY <1>5, <1>6, TickInduction
<1> QED BY <1>3, <1>7

\* Nothing adds up to nothing.
LEMMA SumsOfNone ==
    ASSUME NEW i \in Ticks
    PROVE  Sums([j \in Ticks |-> 0])[i] = 0
<1> DEFINE r == [j \in Ticks |-> 0]
           G == {j \in Ticks : Sums(r)[j] = 0}
<1>1. r \in Rates /\ 0 \in Ticks /\ \A j \in Ticks : r[j] = 0
    BY Constants DEF Rates, Ticks
<1>2. Sums(r) \in Rates /\ \A j \in Ticks : SumStep(r, Sums(r), j)
    BY <1>1, SumsAre
<1> HIDE DEF r
<1>3. 0 \in G /\ \A j \in Ticks : j > 0 /\ j - 1 \in G => j \in G
    BY <1>1, <1>2 DEF SumStep
<1>4. Ticks \subseteq G
    <2> HIDE DEF G
    <2> QED BY <1>3, TickInduction
<1> QED BY <1>4 DEF r

-----------------------------------------------------------------------------
(* Replies.  Sums of ticks that lie wholly in the current count, and all   *)
(* of the last second: what the last count allowed, and the current one.   *)

Counting == Elapsed(clock, task.window)
RateInv ==
    /\ \A i \in Ticks : i < Counting => Sums(rate)[i] <= task.replies
    /\ Total <= PROBE_REPLIES_PER_S + task.replies

\* After a whole turn the counter seems to stand where the count began.
LEMMA TickWraps ==
    ASSUME NEW a \in 0..Millis - 1, NEW b \in 0..Millis - 1, Elapsed(a, b) + 1 >= Millis
    PROVE  Elapsed((a + 1) % Millis, b) = 0
<1>1. Elapsed(a, b) = (IF a >= b THEN a - b ELSE a - b + Millis)
    BY ElapsedIs
<1>2. CASE a >= b
    <2>1. a + 1 = Millis /\ b = 0
        BY <1>1, <1>2, Constants
    <2> QED BY <2>1, ModAt, ElapsedType, Constants
<1>3. CASE ~(a >= b)
    <2>1. a + 1 = b
        BY <1>1, <1>3, Constants
    <2> QED BY <2>1, ModSmall, ElapsedType, Constants
<1> QED BY <1>2, <1>3

\* Types of what the counts are made of.
LEMMA RateTyped ==
    ASSUME TypeOK
    PROVE  /\ rate \in Rates /\ Sums(rate) \in Rates /\ Total \in Nat
           /\ \A i \in Ticks : Sums(rate)[i] \in Nat
           /\ task.replies \in 0..PROBE_REPLIES_PER_S /\ task.window \in 0..Millis - 1
           /\ Counting \in 0..Millis - 1 /\ Window - 1 \in Ticks /\ 0 \in Ticks
<1>1. rate \in Rates
    BY Constants DEF TypeOK, Rates, Ticks
<1>2. Sums(rate) \in Rates
    BY <1>1, SumsAre
<1>3. Window - 1 \in Ticks /\ 0 \in Ticks
    BY Constants DEF Ticks
<1>4. (\A i \in Ticks : Sums(rate)[i] \in Nat) /\ Total \in Nat
    BY <1>2, <1>3 DEF Rates, Total
<1>5. task \in TaskType /\ clock \in 0..Millis - 1
    BY Typed
<1>6. task.replies \in 0..PROBE_REPLIES_PER_S /\ task.window \in 0..Millis - 1
    BY <1>5 DEF TaskType
<1> QED BY <1>1, <1>2, <1>3, <1>4, <1>5, <1>6, ElapsedType DEF Counting

\* A start has no replies behind it.
LEMMA RateStart ==
    ASSUME rate = [i \in 0..Window - 1 |-> 0], task = Started(0)
    PROVE  RateInv
<1>1. rate = [i \in Ticks |-> 0] /\ task.replies = 0 /\ Window - 1 \in Ticks
    BY Constants DEF Ticks, Started
<1>2. \A i \in Ticks : Sums(rate)[i] = 0
    BY <1>1, SumsOfNone
<1> QED BY <1>1, <1>2, Constants DEF RateInv, Total

\* A reply goes to the current count and to the current tick.  A new count
\* begins when all of the last second belongs to the old one.
LEMMA RateProbe == ASSUME TypeOK, TypeOK', RateInv, Probe PROVE RateInv'
<1> DEFINE new == Counting >= Window
           n   == IF new THEN 0 ELSE task.replies
           ok  == n < PROBE_REPLIES_PER_S
<1>1. /\ rate \in Rates /\ rate' \in Rates /\ 0 \in Ticks /\ Window - 1 \in Ticks
      /\ task.replies \in 0..PROBE_REPLIES_PER_S /\ task'.replies \in 0..PROBE_REPLIES_PER_S
      /\ Counting \in 0..Millis - 1 /\ Counting' \in 0..Millis - 1
      /\ \A i \in Ticks : Sums(rate)[i] \in Nat /\ Sums(rate')[i] \in Nat
    <2>1. TypeOK' => (/\ rate \in Rates /\ \A i \in Ticks : Sums(rate)[i] \in Nat
                      /\ task.replies \in 0..PROBE_REPLIES_PER_S /\ Counting \in 0..Millis - 1)'
        BY RateTyped, PTL
    <2> QED BY <2>1, RateTyped
<1>2. task \in TaskType /\ clock \in 0..Millis - 1 /\ clock' = clock
    BY Typed DEF Probe
<1>3. /\ task'.replies = (IF ok THEN n + 1 ELSE n)
      /\ task'.window = (IF new THEN clock ELSE task.window)
    BY <1>2 DEF Probe, WindowFrom, TaskType, Counting
<1>4. Counting' = IF new THEN 0 ELSE Counting
    BY <1>2, <1>3, ElapsedType DEF Counting
<1>5. rate' = IF ok THEN [rate EXCEPT ![0] = Least(rate[0] + 1, 2 * PROBE_REPLIES_PER_S + 1)] ELSE rate
    BY DEF Probe, Counting
<1>6. Total = Sums(rate)[Window - 1] /\ Total' = Sums(rate')[Window - 1]
    BY DEF Total
<1>7. /\ \A i \in Ticks : i < Counting' => Sums(rate)[i] <= n
      /\ Sums(rate)[Window - 1] <= PROBE_REPLIES_PER_S + n
    <2>1. CASE new
        <3>1. Sums(rate)[Window - 1] <= task.replies
            BY <1>1, <2>1, Constants DEF RateInv
        <3> QED BY <1>1, <1>4, <2>1, <3>1, Constants DEF Ticks
    <2>2. CASE ~new
        BY <1>1, <1>4, <1>6, <2>2 DEF RateInv
    <2> QED BY <2>1, <2>2
<1>n. n \in Nat
    BY <1>1
<1> HIDE DEF n
<1>8. CASE ~ok
    BY <1>3, <1>5, <1>6, <1>7, <1>8 DEF RateInv
<1>9. CASE ok
    <2>1. rate[0] \in 0..2 * PROBE_REPLIES_PER_S + 1
        BY <1>1 DEF TypeOK, Ticks
    <2>2. PICK d \in 0..1 : Least(rate[0] + 1, 2 * PROBE_REPLIES_PER_S + 1) = rate[0] + d
        BY <2>1, Constants DEF Least
    <2>3. rate' = [rate EXCEPT ![0] = rate[0] + d]
        BY <1>5, <1>9, <2>2
    <2>4. rate'[0] = rate[0] + d /\ \A i \in Ticks \ {0} : rate'[i] = rate[i]
        BY <1>1, <2>3 DEF Rates
    <2>5. \A i \in Ticks : Sums(rate')[i] = Sums(rate)[i] + d
        BY <1>1, <2>4, SumsBeside
    <2>6. /\ \A i \in Ticks : i < Counting' => Sums(rate')[i] <= n + 1
          /\ Sums(rate')[Window - 1] <= PROBE_REPLIES_PER_S + n + 1
        BY <1>1, <1>7, <1>n, <2>5, Constants
    <2>7. task'.replies = n + 1
        BY <1>3, <1>9
    <2> QED BY <1>6, <1>n, <2>6, <2>7, Constants DEF RateInv
<1> QED BY <1>8, <1>9

\* The oldest tick leaves the second, the new one has no reply yet.
LEMMA RateTick == ASSUME TypeOK, TypeOK', RateInv, Tick PROVE RateInv'
<1>1. /\ rate \in Rates /\ 0 \in Ticks /\ Window - 1 \in Ticks
      /\ task.replies \in 0..PROBE_REPLIES_PER_S /\ task.window \in 0..Millis - 1
      /\ Counting \in 0..Millis - 1
      /\ \A i \in Ticks : Sums(rate)[i] \in Nat
    BY RateTyped
<1>2. rate' \in Rates
    <2>1. rate' \in [Ticks -> 0..2 * PROBE_REPLIES_PER_S + 1]
        BY DEF TypeOK, Ticks
    <2> QED BY <2>1, Constants DEF Rates
<1>3. task'.replies = task.replies /\ task'.window = task.window /\ clock' = (clock + 1) % Millis
    <2>1. task \in TaskType
        BY Typed
    <2> QED BY <2>1 DEF Tick, TaskType
<1>4. Counting' = 0 \/ Counting' = Counting + 1
    <2>1. clock \in 0..Millis - 1
        BY Typed
    <2>2. CASE Counting + 1 < Millis
        BY <1>1, <1>3, <2>1, <2>2, TickElapsed DEF Counting
    <2>3. CASE Counting + 1 >= Millis
        BY <1>1, <1>3, <2>1, <2>3, TickWraps DEF Counting
    <2> QED BY <1>1, <2>2, <2>3, Constants
<1>5. rate'[0] = 0 /\ \A i \in Ticks \ {0} : rate'[i] = rate[i - 1]
    BY <1>1 DEF Tick, Ticks
<1>6. Sums(rate')[0] = 0 /\ \A i \in Ticks \ {0} : Sums(rate')[i] = Sums(rate)[i - 1]
    BY <1>1, <1>2, <1>5, SumsShifted
<1>7. ASSUME NEW i \in Ticks, i < Counting' PROVE Sums(rate')[i] <= task.replies
    <2>1. CASE i = 0
        BY <1>1, <1>6, <2>1
    <2>2. CASE i # 0
        <3>1. i - 1 \in Ticks /\ i - 1 < Counting
            BY <1>1, <1>4, <1>7, <2>2 DEF Ticks
        <3> QED BY <1>6, <2>2, <3>1 DEF RateInv
    <2> QED BY <2>1, <2>2
<1>8. Sums(rate')[Window - 1] <= Sums(rate)[Window - 1]
    <2>1. CASE Window = 1
        BY <1>1, <1>6, <2>1
    <2>2. CASE Window # 1
        <3>1. Window - 1 # 0 /\ Window - 2 \in Ticks /\ Window - 1 - 1 = Window - 2
            BY <2>2, Constants DEF Ticks
        <3>2. SumStep(rate, Sums(rate), Window - 1) /\ rate[Window - 1] \in Nat
            BY <1>1, SumsAre DEF Rates
        <3>3. Sums(rate)[Window - 1] = rate[Window - 1] + Sums(rate)[Window - 2]
            BY <3>1, <3>2 DEF SumStep
        <3>4. Sums(rate')[Window - 1] = Sums(rate)[Window - 2]
            BY <1>1, <1>6, <3>1
        <3> QED BY <1>1, <3>1, <3>2, <3>3, <3>4
    <2> QED BY <2>1, <2>2
<1>9. Sums(rate')[Window - 1] \in Nat
    <2>1. Sums(rate') \in Rates
        BY <1>2, SumsAre
    <2> QED BY <1>1, <2>1 DEF Rates
<1> QED BY <1>1, <1>3, <1>7, <1>8, <1>9, Constants DEF RateInv, Total

\* No other step replies or begins a count.
LEMMA RateStep == DiscoveryInv /\ DiscoveryInv' /\ RateInv /\ [Next]_vars => RateInv'
<1> SUFFICES ASSUME DiscoveryInv, DiscoveryInv', RateInv, [Next]_vars PROVE RateInv'
    OBVIOUS
<1>0. TypeOK /\ TypeOK'
    BY DEF DiscoveryInv
<1>1. CASE Probe
    BY <1>0, <1>1, RateProbe
<1>2. CASE Tick
    BY <1>0, <1>2, RateTick
<1>3. CASE Restart
    <2>1. rate = [i \in 0..Window - 1 |-> 0] /\ task = Started(0) => RateInv
        BY RateStart
    <2>2. (rate = [i \in 0..Window - 1 |-> 0] /\ task = Started(0))' => RateInv'
        BY <2>1, RateStart, PTL
    <2>3. rate' = [i \in 0..Window - 1 |-> 0] /\ task' = Started(0)
        BY <1>3 DEF Restart
    <2> QED BY <2>2, <2>3
<1>4. CASE Top \/ Sign \/ Mac \/ Pass \/ Claim \/ Unclaim \/ UNCHANGED vars
           \/ \E a \in Ips \cup {NoIp} : SetIp(a)
    <2>1. UNCHANGED <<rate, clock>>
        BY <1>4 DEF Top, Sign, Mac, Broadcast, Pass, Claim, Unclaim, SetIp, hist, vars
    <2>2. task'.replies = task.replies /\ task'.window = task.window
        <3>1. task \in TaskType
            BY <1>0, Typed
        <3> QED BY <1>4, <3>1 DEF Top, Sign, Mac, Broadcast, Pass, Claim, Unclaim, SetIp, vars, TaskType
    <2> QED BY <2>1, <2>2 DEF RateInv, Total, Counting
<1> QED BY <1>1, <1>2, <1>3, <1>4 DEF Next, Task

\* glue.c 332-340: for any length of the second, width of the counter and
\* number of replies allowed, a flood of probes draws at most twice that
\* number within any second.
THEOREM FloodBounded == Spec => []RepliesBounded
<1>1. Init => RateInv
    BY RateStart DEF Init
<1>2. DiscoveryInv /\ RateInv => RepliesBounded
    <2> SUFFICES ASSUME DiscoveryInv, RateInv PROVE RepliesBounded
        OBVIOUS
    <2>1. task.replies \in 0..PROBE_REPLIES_PER_S /\ Total \in Nat
        BY RateTyped DEF DiscoveryInv
    <2> QED BY <2>1, Constants DEF RateInv, RepliesBounded
<1> QED BY <1>1, <1>2, RateStep, DiscoveryInvariant, PTL DEF Spec
=============================================================================
