------------------------------ MODULE Discovery ------------------------------
(***************************************************************************)
(* The board's side of discovery: discovery_task of firmware/main/glue.c,  *)
(* the address it reads from net.c and the signature from auth.c, both of  *)
(* which other tasks change under it.  Time is in ticks and passes while   *)
(* the task waits for a datagram; what it does in between takes none.      *)
(***************************************************************************)
EXTENDS Integers

CONSTANTS
    Ips, NoIp,
    Millis,                 \* values of the millisecond counter: 2^32, in ticks
    ANNOUNCE_INTERVAL_MS,   \* in ticks
    RecvTimeout,            \* SO_RCVTIMEO, in ticks
    Window,                 \* the second for which replies are counted, in ticks
    PROBE_REPLIES_PER_S,
    MaxKey                  \* bound: keys the board gets

Bound == ANNOUNCE_INTERVAL_MS + RecvTimeout

ASSUME DiscoveryAssumption ==
    /\ {Millis, ANNOUNCE_INTERVAL_MS, RecvTimeout, Window, PROBE_REPLIES_PER_S} \subseteq Nat \ {0}
    /\ MaxKey \in Nat /\ NoIp \notin Ips /\ Millis > Bound

VARIABLES
    clock,    \* glue_millis
    ip,       \* g_ip4
    auth,     \* g_psk (0 is all zeros), g_claimed, and how far auth_unclaim has come
    task,     \* discovery_task: program counter, locals and the cached announce
    stale,    \* history: ticks since the cached announce was made or last true
    quiet,    \* history: ticks since a broadcast, or since there is an address
    rate      \* history: replies sent during each of the last ticks

vars == <<clock, ip, auth, task, stale, quiet, rate>>

\* What an announce is signed with: a key, all zeros, or nothing ("-").
Unsigned  == -1
Signature == IF auth.claimed THEN auth.psk ELSE Unsigned
NoAnn     == [ip |-> NoIp, sig |-> Unsigned]
Least(a, b) == IF a < b THEN a ELSE b

TypeOK ==
    /\ clock \in 0..Millis - 1 /\ ip \in Ips \cup {NoIp}
    /\ auth \in [psk : 0..MaxKey, claimed : BOOLEAN, pc : {"idle", "cleared", "restart"}, keys : 0..MaxKey]
    /\ task \in [pc : {"top", "sign", "mac", "wait"}, last : 0..Millis - 1, window : 0..Millis - 1,
                 replies : 0..PROBE_REPLIES_PER_S, waited : 0..RecvTimeout, ip : Ips \cup {NoIp},
                 announce : [ip : Ips \cup {NoIp}, sig : Unsigned..MaxKey]]
    /\ stale \in 0..Bound /\ quiet \in 0..Bound
    /\ rate \in [0..Window - 1 -> 0..2 * PROBE_REPLIES_PER_S + 1]

\* The counter is small when the task starts, a little after the boot.
Started(t) ==
    [pc |-> "top", last |-> (t - ANNOUNCE_INTERVAL_MS) % Millis, window |-> 0, replies |-> 0,
     waited |-> 0, ip |-> NoIp, announce |-> NoAnn]

Init ==
    /\ clock = 0 /\ ip = NoIp
    /\ auth = [psk |-> 0, claimed |-> FALSE, pc |-> "idle", keys |-> 0]
    /\ task = Started(0)
    /\ stale = 0 /\ quiet = 0
    /\ rate = [i \in 0..Window - 1 |-> 0]

hist == <<stale, quiet, rate>>

-----------------------------------------------------------------------------
(* The other tasks.                                                        *)

\* on_got_ip and on_lost_ip.
SetIp(a) ==
    /\ a # ip /\ ip' = a
    /\ quiet' = IF ip = NoIp THEN 0 ELSE quiet
    /\ UNCHANGED <<clock, auth, task, stale, rate>>

\* auth_claim: the key is in place before g_claimed says so.
Claim ==
    /\ ~auth.claimed /\ auth.pc = "idle" /\ auth.keys < MaxKey
    /\ auth' = [auth EXCEPT !.psk = auth.keys + 1, !.claimed = TRUE, !.keys = @ + 1]
    /\ UNCHANGED <<clock, ip, task, hist>>

\* auth_unclaim: the key is cleared first; then the board restarts.
Unclaim ==
    /\ \/ auth.claimed /\ auth.pc = "idle" /\ auth' = [auth EXCEPT !.psk = 0, !.pc = "cleared"]
       \/ auth.pc = "cleared" /\ auth' = [auth EXCEPT !.claimed = FALSE, !.pc = "restart"]
    /\ UNCHANGED <<clock, ip, task, hist>>

\* The restart after unclaim, or a power loss: a key not erased is kept.
Restart ==
    /\ clock' = 0 /\ ip' = NoIp /\ task' = Started(0)
    /\ auth' = [auth EXCEPT !.claimed = auth.psk # 0, !.pc = "idle"]
    /\ stale' = 0 /\ quiet' = 0 /\ rate' = [i \in 0..Window - 1 |-> 0]

-----------------------------------------------------------------------------
(* discovery_task.                                                         *)

\* Mutant: times are compared as signed numbers.
ElapsedSigned(now, since) == now - since

\* The difference of two readings, in unsigned arithmetic.
Elapsed(now, since) == (now - since) % Millis

\* Mutant: an announce stays cached until there is a newer one.
DroppedNever(a) == a

\* alen = 0: without an address there is nothing to answer probes with.
Dropped(a) == NoAnn

\* The top of the loop: every interval the address is read.
Top ==
    /\ task.pc = "top"
    /\ task' = IF Elapsed(clock, task.last) >= ANNOUNCE_INTERVAL_MS
               THEN [task EXCEPT !.last = clock, !.announce = Dropped(@), !.ip = ip, !.waited = 0,
                                 !.pc = IF ip = NoIp THEN "wait" ELSE "sign"]
               ELSE [task EXCEPT !.pc = "wait", !.waited = 0]
    /\ UNCHANGED <<clock, ip, auth, hist>>

\* The announce is put together, cached and broadcast.
Broadcast(sig) ==
    /\ task' = [task EXCEPT !.pc = "wait", !.announce = [ip |-> task.ip, sig |-> sig], !.ip = NoIp]
    /\ stale' = 0 /\ quiet' = 0
    /\ UNCHANGED <<clock, ip, auth, rate>>

\* auth_announce_sig: g_claimed is read, then the key; a failed computation
\* leaves the announce unsigned.
Sign ==
    /\ task.pc = "sign"
    /\ \/ ~auth.claimed /\ Broadcast(Unsigned)
       \/ auth.claimed /\ task' = [task EXCEPT !.pc = "mac"] /\ UNCHANGED <<clock, ip, auth, hist>>
Mac == task.pc = "mac" /\ \E sig \in {auth.psk, Unsigned} : Broadcast(sig)

\* recvfrom times out, or returns something that is not answered.
Pass ==
    /\ task.pc = "wait"
    /\ task' = [task EXCEPT !.pc = "top"]
    /\ UNCHANGED <<clock, ip, auth, hist>>

\* Mutant: a new second begins without being noted.
WindowFromOld(now, old) == old

\* Where the second for which replies are counted begins from now on.
WindowFrom(now, old) == now

\* A probe, while there is an announce to answer it with.
Probe ==
    /\ task.pc = "wait" /\ task.announce # NoAnn
    /\ LET new == Elapsed(clock, task.window) >= Window
           n   == IF new THEN 0 ELSE task.replies
           ok  == n < PROBE_REPLIES_PER_S
       IN  /\ task' = [task EXCEPT !.pc = "top", !.replies = IF ok THEN n + 1 ELSE n,
                                   !.window = IF new THEN WindowFrom(clock, @) ELSE @]
           /\ rate' = IF ok THEN [rate EXCEPT ![0] = Least(@ + 1, 2 * PROBE_REPLIES_PER_S + 1)] ELSE rate
    /\ UNCHANGED <<clock, ip, auth, stale, quiet>>

\* True: the address is the board's and the signature is the one it would make.
Holds(a) == a.ip = ip /\ a.sig = Signature

Tick ==
    /\ task.pc = "wait" /\ task.waited < RecvTimeout
    /\ clock' = (clock + 1) % Millis
    /\ task' = [task EXCEPT !.waited = @ + 1]
    /\ stale' = IF task.announce = NoAnn \/ Holds(task.announce) THEN 0 ELSE Least(stale + 1, Bound)
    /\ quiet' = IF ip = NoIp THEN 0 ELSE Least(quiet + 1, Bound)
    /\ rate' = [i \in 0..Window - 1 |-> IF i = 0 THEN 0 ELSE rate[i - 1]]
    /\ UNCHANGED <<ip, auth>>

Task == Top \/ Sign \/ Mac \/ Pass \/ Probe
Next == Task \/ Tick \/ Claim \/ Unclaim \/ Restart \/ \E a \in Ips \cup {NoIp} : SetIp(a)

Spec == Init /\ [][Next]_vars

-----------------------------------------------------------------------------
(* Properties.                                                             *)

\* glue.c 311-324, 339: the announce that answers probes is cached, but what
\* it says was true less than an interval and a receive timeout ago; one that
\* was never true (unsigned because the computation failed, or signed with the
\* zeros of a key being erased) is gone after that time.
AnnounceFresh == task.announce # NoAnn => stale < Bound

\* glue.c 311-318: a board with an address broadcasts at least once in an
\* interval and a receive timeout, over every wrap of the counter and however
\* many probes arrive.
AnnouncedInTime == quiet < Bound

\* The replies of the last i + 1 ticks, for each i.
Sums(r) == LET sum[i \in 0..Window - 1] == r[i] + (IF i = 0 THEN 0 ELSE sum[i - 1]) IN sum
Total == Sums(rate)[Window - 1]

\* glue.c 332-340: a flood of probes draws at most twice PROBE_REPLIES_PER_S
\* replies within any second: as many as allowed at the end of one count and
\* again at the start of the next.
RepliesBounded == Total <= 2 * PROBE_REPLIES_PER_S
=============================================================================
