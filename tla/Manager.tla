------------------------------- MODULE Manager ------------------------------
(***************************************************************************)
(* host/manager.zig: the discovery loop that turns signed announces into   *)
(* board threads, with the key cache it refreshes from the configuration,  *)
(* the map of claimed boards, and the life of a board thread.  What the    *)
(* thread does with its connection is module Session; here a connection is *)
(* up or not, and Link.kill marks it for its end.                          *)
(***************************************************************************)
EXTENDS Integers

CONSTANTS
    Boards, Ips,
    Ctxs, NoCtx,    \* BoardCtx objects the allocator hands out
    Permitted,      \* boards that allow and deny let through
    Pinned,         \* addresses served by pinned client threads
    Subnet,         \* addresses the subnet option lets through
    FlagKeys,       \* keys given as --psk: only the first set of keys has them
    Alive,          \* boards whose announces keep arriving (fairness only)
    MaxKey,         \* bound: keys a board has over time
    MaxEvents       \* bound: moves, key changes, edits and failures

NoKey == 0

ASSUME ManagerAssumption ==
    /\ NoCtx \notin Ctxs /\ Boards # {} /\ Ips # {}
    /\ Permitted \subseteq Boards /\ Alive \subseteq Boards
    /\ Pinned \subseteq Ips /\ Subnet \subseteq Ips
    /\ MaxKey \in Nat \ {0} /\ MaxEvents \in Nat
    /\ FlagKeys \in [Boards -> 0..MaxKey]

VARIABLES
    board,    \* external: where each board is and the key it holds
    cfg,      \* external: the keys in the configuration files and environment
    net,      \* announces under way
    keys,     \* Keys.entries
    recent,   \* Keys.last is less than 2 s ago
    active,   \* Active.map
    ctx,      \* BoardCtx objects and their threads
    mgr,      \* the loop of run: program counter and locals
    events    \* what has been used of MaxEvents

vars == <<board, cfg, net, keys, recent, active, ctx, mgr, events>>

Announces == [b : Boards, ip : Ips, key : 0..MaxKey]
CtxState  == {"free", "claimed", "connect", "publish", "live", "backoff", "destroy"}
Threads   == {"connect", "publish", "live", "backoff"}
MgrPc     == {"recv", "refresh", "revoke", "lookup", "again", "claim", "spawn"}
KeyMap    == [Boards -> 0..MaxKey]
BoardCtx  == [st : CtxState, b : Boards, ip : Ips, psk : 0..MaxKey,
              link : BOOLEAN, shut : BOOLEAN]
Round     == [pc : MgrPc, ann : Announces, psk : 0..MaxKey]
NoKeys    == [b \in Boards |-> NoKey]
Blank     == [st |-> "free", b |-> CHOOSE b \in Boards : TRUE, ip |-> CHOOSE i \in Ips : TRUE,
              psk |-> NoKey, link |-> FALSE, shut |-> FALSE]
Idle      == [pc |-> "recv", ann |-> [b |-> Blank.b, ip |-> Blank.ip, key |-> NoKey],
              psk |-> NoKey]

TypeOK ==
    /\ board \in [Boards -> [ip : Ips, key : 0..MaxKey]]
    /\ cfg \in KeyMap /\ keys \in KeyMap
    /\ net \subseteq Announces
    /\ recent \in BOOLEAN
    /\ active \in [Boards -> Ctxs \cup {NoCtx}]
    /\ ctx \in [Ctxs -> BoardCtx]
    /\ mgr \in Round
    /\ events \in 0..MaxEvents

Init ==
    /\ \E at \in [Boards -> Ips] :
         /\ \A b1, b2 \in Boards : b1 # b2 => at[b1] # at[b2]
         /\ board = [b \in Boards |-> [ip |-> at[b], key |-> 1]]
    /\ cfg \in [Boards -> {NoKey, 1}]
    /\ keys = [b \in Boards |-> IF FlagKeys[b] # NoKey THEN FlagKeys[b] ELSE cfg[b]]
    /\ net = {} /\ recent = FALSE
    /\ active = [b \in Boards |-> NoCtx]
    /\ ctx = [c \in Ctxs |-> Blank]
    /\ mgr = Idle /\ events = 0

-----------------------------------------------------------------------------
(* The boards, the network, the user and the clock (external).             *)
Event == events < MaxEvents /\ events' = events + 1

Move(b) ==
    /\ Event
    /\ \E i \in Ips : /\ \A x \in Boards : board[x].ip # i
                      /\ board' = [board EXCEPT ![b].ip = i]
    /\ UNCHANGED <<cfg, net, keys, recent, active, ctx, mgr>>

(* A board is unclaimed, or claimed with a new key.                        *)
Rekey(b) ==
    /\ Event
    /\ \E k \in 0..MaxKey \ {board[b].key} : board' = [board EXCEPT ![b].key = k]
    /\ UNCHANGED <<cfg, net, keys, recent, active, ctx, mgr>>

(* The board's key is saved to the configuration, or removed from it.      *)
Edit(b) ==
    /\ Event
    /\ \E k \in {NoKey, board[b].key} \ {cfg[b]} : cfg' = [cfg EXCEPT ![b] = k]
    /\ UNCHANGED <<board, net, keys, recent, active, ctx, mgr>>

(* The discovery task signs its address with its key; without a key it     *)
(* sends no signature.  A lost announce stays in net; a later one is no    *)
(* different.                                                              *)
Announce(b) ==
    /\ net' = net \cup {[b |-> b, ip |-> board[b].ip, key |-> board[b].key]}
    /\ UNCHANGED <<board, cfg, keys, recent, active, ctx, mgr, events>>

Tick ==
    /\ recent /\ recent' = FALSE
    /\ UNCHANGED <<board, cfg, net, keys, active, ctx, mgr, events>>

World == \/ \E b \in Boards : Move(b) \/ Rekey(b) \/ Edit(b) \/ Announce(b)
         \/ Tick

-----------------------------------------------------------------------------
(* One round of the loop, lines 226-321.                                   *)
MgrTo(l) == mgr' = IF l = "recv" THEN Idle ELSE [mgr EXCEPT !.pc = l]

Listened(m) == m.b \in Permitted /\ m.ip \notin Pinned

(* Lines 227-253.  The datagram may have a duplicate under way.            *)
MgrRecv(m) ==
    /\ mgr.pc = "recv" /\ m \in net
    /\ \/ net' = net \ {m} /\ UNCHANGED events
       \/ Event /\ UNCHANGED net
    /\ mgr' = IF Listened(m) THEN [mgr EXCEPT !.pc = "refresh", !.ann = m] ELSE Idle
    /\ UNCHANGED <<board, cfg, keys, recent, active, ctx>>

(* Keys.refresh, lines 40-53, and cli.loadKeys: a configuration that       *)
(* cannot be read counts as one without keys; one that cannot be resolved  *)
(* leaves the keys as they are.                                            *)
\* Mutant: the configuration is read again only for a board without a key.
DueWhenMissing == ~recent /\ keys[mgr.ann.b] = NoKey
Due == ~recent

Reloaded ==
    /\ Due /\ recent' = TRUE
    /\ \/ keys' = cfg /\ UNCHANGED events
       \/ keys' = NoKeys /\ Event

NotReloaded ==
    /\ \/ ~Due /\ UNCHANGED <<recent, events>>
       \/ Due /\ recent' = TRUE /\ Event
    /\ UNCHANGED keys

(* Line 257.                                                               *)
MgrRefresh ==
    /\ mgr.pc = "refresh"
    /\ \/ Reloaded /\ MgrTo("revoke")
       \/ NotReloaded /\ MgrTo("lookup")
    /\ UNCHANGED <<board, cfg, net, active, ctx>>

(* Link.kill on the board's published stream, if there is one.             *)
Killed(x) == [x EXCEPT !.shut = @ \/ x.link]

(* revokeMissing, lines 115-124, under the mutex of Active.                *)
\* Mutant: only the board that has announced itself is looked at.
RevokedIfAnnounced(c) == keys[ctx[c].b] = NoKey /\ ctx[c].b = mgr.ann.b
Revoked(c) == keys[ctx[c].b] = NoKey

MgrRevoke ==
    /\ mgr.pc = "revoke"
    /\ ctx' = [c \in Ctxs |-> IF active[ctx[c].b] = c /\ Revoked(c) THEN Killed(ctx[c])
                                                                    ELSE ctx[c]]
    /\ MgrTo("lookup")
    /\ UNCHANGED <<board, cfg, net, keys, recent, active, events>>

(* verifyAnnounce: the announce was signed with this key.                  *)
Verifies(k) == k = mgr.ann.key

(* Lines 259-274: the key of the announcing board, and the signature.      *)
MgrLookup ==
    /\ mgr.pc = "lookup"
    /\ LET k == keys[mgr.ann.b] IN
       mgr' = IF k = NoKey \/ (Verifies(k) /\ mgr.ann.ip \notin Subnet) THEN Idle
              ELSE [mgr EXCEPT !.psk = k,
                               !.pc = IF Verifies(k) THEN "claim" ELSE "again"]
    /\ UNCHANGED <<board, cfg, net, keys, recent, active, ctx, events>>

(* Lines 275-284: a signature that does not match may be one with a newer  *)
(* key; psk is not replaced.                                               *)
MgrAgain ==
    /\ mgr.pc = "again"
    /\ \/ /\ Reloaded
          /\ MgrTo(IF /\ keys'[mgr.ann.b] # NoKey /\ Verifies(keys'[mgr.ann.b])
                      /\ mgr.ann.ip \in Subnet
                   THEN "claim" ELSE "recv")
       \/ NotReloaded /\ MgrTo("recv")
    /\ UNCHANGED <<board, cfg, net, active, ctx>>

(* Lines 289-311 and Active.claim, lines 94-106.  The object made for a    *)
(* board that is claimed already is destroyed again at once.               *)
\* Mutant: a board back from another address is claimed anew.
OccupiedHere(b) == active[b] # NoCtx /\ ctx[active[b]].ip = mgr.ann.ip
Occupied(b) == active[b] # NoCtx

Moved(b) == active[b] # NoCtx /\ ctx[active[b]].ip # mgr.ann.ip

MgrClaim ==
    /\ mgr.pc = "claim"
    /\ \/ /\ ~Occupied(mgr.ann.b)
          /\ \E c \in Ctxs :
               /\ ctx[c].st = "free"
               /\ ctx' = [ctx EXCEPT ![c] = [st |-> "claimed", b |-> mgr.ann.b,
                              ip |-> mgr.ann.ip, psk |-> mgr.psk,
                              link |-> FALSE, shut |-> FALSE]]
               /\ active' = [active EXCEPT ![mgr.ann.b] = c]
          /\ MgrTo("spawn")
          /\ UNCHANGED events
       \/ /\ Occupied(mgr.ann.b)
          /\ ctx' = [c \in Ctxs |-> IF active[mgr.ann.b] = c /\ Moved(mgr.ann.b)
                                    THEN Killed(ctx[c]) ELSE ctx[c]]
          /\ MgrTo("recv") /\ UNCHANGED <<active, events>>
       \/ /\ Event \/ (UNCHANGED events /\ \A c \in Ctxs : ctx[c].st # "free")
          /\ MgrTo("recv") /\ UNCHANGED <<active, ctx>>
    /\ UNCHANGED <<board, cfg, net, keys, recent>>

(* Lines 314-320.                                                          *)
MgrSpawn ==
    /\ mgr.pc = "spawn"
    /\ \/ /\ ctx' = [ctx EXCEPT ![active[mgr.ann.b]].st = "connect"]
          /\ UNCHANGED <<active, events>>
       \/ /\ Event
          /\ active' = [active EXCEPT ![mgr.ann.b] = NoCtx]
          /\ ctx' = [ctx EXCEPT ![active[mgr.ann.b]] = Blank]
    /\ MgrTo("recv")
    /\ UNCHANGED <<board, cfg, net, keys, recent>>

MgrStep == MgrRefresh \/ MgrRevoke \/ MgrLookup \/ MgrAgain \/ MgrClaim \/ MgrSpawn

-----------------------------------------------------------------------------
(* boardThread, lines 146-165, around board.run.                           *)
Only(c, st) == /\ ctx[c].st = st
               /\ UNCHANGED <<board, cfg, net, keys, recent, mgr>>

Reachable(c) == board[ctx[c].b].ip = ctx[c].ip

(* The handshake succeeds with the board that holds the key.               *)
ThreadConnect(c) ==
    /\ Only(c, "connect")
    /\ ctx' = [ctx EXCEPT ![c].st =
                 IF Reachable(c) /\ board[ctx[c].b].key = ctx[c].psk THEN "publish"
                 ELSE "backoff"]
    /\ UNCHANGED <<active, events>>

ThreadPublish(c) ==
    /\ Only(c, "publish")
    /\ ctx' = [ctx EXCEPT ![c] = [@ EXCEPT !.st = "live", !.link = TRUE]]
    /\ UNCHANGED <<active, events>>

(* The session ends when it is killed or when the board is gone.           *)
ThreadEnd(c) ==
    /\ Only(c, "live")
    /\ ctx[c].shut \/ ~Reachable(c)
    /\ ctx' = [ctx EXCEPT ![c] = [@ EXCEPT !.st = "backoff", !.link = FALSE]]
    /\ UNCHANGED <<active, events>>

(* It may also fail for any other reason, as may the attempt.              *)
ThreadFail(c) ==
    /\ \E st \in {"connect", "publish", "live"} : Only(c, st)
    /\ Event
    /\ ctx' = [ctx EXCEPT ![c] = [@ EXCEPT !.st = "backoff", !.link = FALSE]]
    /\ UNCHANGED active

\* Mutant: the board stays claimed when its thread ends.
ReleasedNever(c) == UNCHANGED active
Released(c) == active' = [active EXCEPT ![ctx[c].b] = NoCtx]

ThreadRelease(c) ==
    /\ Only(c, "backoff")
    /\ Released(c)
    /\ ctx' = [ctx EXCEPT ![c].st = "destroy"]
    /\ UNCHANGED events

ThreadDestroy(c) ==
    /\ Only(c, "destroy")
    /\ ctx' = [ctx EXCEPT ![c] = Blank]
    /\ UNCHANGED <<active, events>>

ThreadStep(c) == \/ ThreadConnect(c) \/ ThreadPublish(c) \/ ThreadEnd(c)
                 \/ ThreadRelease(c) \/ ThreadDestroy(c)

-----------------------------------------------------------------------------
Next == \/ World
        \/ \E m \in net : MgrRecv(m)
        \/ MgrStep
        \/ \E c \in Ctxs : ThreadStep(c) \/ ThreadFail(c)

Spec == Init /\ [][Next]_vars

Current(b) == [b |-> b, ip |-> board[b].ip, key |-> board[b].key]

(* Threads run and time passes: a round takes a small part of the 2 s, so  *)
(* they do not end inside one every time.  A board in Alive announces      *)
(* itself every 2 s, and its announces are not all lost.                   *)
FairSpec ==
    /\ Spec /\ SF_vars(mgr.pc = "recv" /\ Tick) /\ WF_vars(MgrStep)
    /\ \A c \in Ctxs : WF_vars(ThreadStep(c))
    /\ \A b \in Alive : WF_vars(Announce(b)) /\ SF_vars(MgrRecv(Current(b)))

-----------------------------------------------------------------------------
(* From its spawn to its release a thread holds the claim of its board,    *)
(* backoff included, so no board is ever served by two (line 161).         *)
ClaimHeld == \A c \in Ctxs : ctx[c].st \in Threads => active[ctx[c].b] = c

(* claim, revokeMissing and release find in the map only objects that have *)
(* not been destroyed, each under its own board's address (lines 97-122).  *)
MapHoldsLiveCtx ==
    \A b \in Boards : active[b] # NoCtx =>
        ctx[active[b]].st \in Threads \cup {"claimed"} /\ ctx[active[b]].b = b

Attached(b) == \E c \in Ctxs : ctx[c].b = b /\ ctx[c].st = "live"

(* "a deleted key revokes a live board" (lines 255-256), although a kill   *)
(* that comes before the link is published is lost: any later announce, of *)
(* any board, leads to another one.                                        *)
RevokedDropped ==
    \A b \in Boards : <>[](cfg[b] = NoKey) => <>[]~Attached(b)

(* A board whose key is in the configuration is attached in the end and    *)
(* stays so, wherever on the subnet it has moved and whatever key it had.  *)
Welcome(b) == board[b].key = cfg[b] /\ cfg[b] # NoKey /\ board[b].ip \in Subnet

KeyedBoardAttaches == \A b \in Alive : <>[]Welcome(b) => <>[]Attached(b)
=============================================================================
