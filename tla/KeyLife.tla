------------------------------ MODULE KeyLife -------------------------------
(***************************************************************************)
(* The life of one board's key: firmware/main/auth.c and the claim,        *)
(* unclaim and reboot handlers of ota.c on the board, the claim, unclaim,  *)
(* reboot and revoke commands of host/cli.zig on the PCs.  Power losses,   *)
(* lost requests and answers, flash errors, killed commands and requests   *)
(* that arrive twice come between their steps.                             *)
(*                                                                         *)
(* A key is the number of the claim request it was derived from: every     *)
(* exchange has fresh secrets on both sides.  A proof is the key and the   *)
(* nonce it was computed with.                                             *)
(***************************************************************************)
EXTENDS Integers

CONSTANTS
    Pcs,
    MaxCmds,      \* bound: commands the operators run
    MaxFaults     \* bound: faults, of any kind

NoKey == 0

ASSUME KeyLifeAssumption == Pcs # {} /\ MaxCmds \in Nat \ {0} /\ MaxFaults \in Nat

\* A PC that releases its board repeats unclaim: each earlier command may
\* restart the board under one of its tries, each fault costs it two.
MaxId == 2 * (MaxCmds + MaxFaults) + 1
Keys  == 0..MaxId
Nonce == [boot : Nat, ctr : Nat]

VARIABLES
    board,     \* running, the key in flash, g_psk, g_claimed and the HTTP nonce
    httpd,     \* the server task: the handler that is between its store and its end
    net,       \* requests on their way to the board
    sent,      \* history: the requests that carry a proof, sent so far
    cli,       \* the command each PC runs, and its locals
    file,      \* the key in each PC's drop-in, NoKey also for an empty file
    cmds,      \* commands run so far
    faults,    \* what has been used of MaxFaults
    printed,   \* keys shown on a terminal because the drop-in was not written
    forgone,   \* history: keys of which a fault took a copy outside the board
    removed,   \* history: keys an operator has revoked
    owner,     \* history: the key that each PC's last finished claim gave it
    released,  \* history: keys the board gave up, by a proven unclaim or erased flash
    accepted,  \* history: how often each request was carried out
    releasing  \* PCs whose operator repeats unclaim from now on, see Pinned

vars == <<board, httpd, net, sent, cli, file, cmds, faults, printed, forgone, removed, owner,
          released, accepted, releasing>>

Kinds    == {"claim", "unclaim", "reboot"}
Requests == [kind : Kinds, id : 1..MaxId, key : Keys, nonce : Nonce]
Statuses == {200, 403, 500}
CliPc    == {"idle", "info", "post", "wait", "answer", "write", "truncated", "revoke"}
NonceOf(b) == [boot |-> b.boot, ctr |-> b.ctr]
NoCmd    == [cmd |-> "none", pc |-> "idle", id |-> 1, key |-> NoKey,
             nonce |-> [boot |-> 0, ctr |-> 0], status |-> 500]
NoHandler == [pc |-> "idle", kind |-> "reboot", id |-> 1, status |-> 500, key |-> NoKey]

TypeOK ==
    /\ board \in [up : BOOLEAN, nvs : Keys, psk : Keys, claimed : BOOLEAN, boot : Nat, ctr : Nat]
    /\ httpd \in [pc : {"idle", "reply", "restart"}, kind : Kinds, id : 1..MaxId,
                  status : Statuses, key : Keys]
    /\ net \subseteq Requests /\ sent \subseteq Requests
    /\ cli \in [Pcs -> [cmd : Kinds \cup {"revoke", "none"}, pc : CliPc, id : 1..MaxId,
                        key : Keys, nonce : Nonce, status : Statuses]]
    /\ file \in [Pcs -> Keys] /\ owner \in [Pcs -> Keys]
    /\ cmds \in 0..MaxId /\ faults \in 0..MaxFaults
    /\ printed \subseteq Keys /\ forgone \subseteq Keys /\ removed \subseteq Keys /\ released \subseteq Keys
    /\ accepted \in [1..MaxId -> Nat]
    /\ releasing \subseteq Pcs

Init ==
    /\ board = [up |-> TRUE, nvs |-> NoKey, psk |-> NoKey, claimed |-> FALSE, boot |-> 1, ctr |-> 0]
    /\ httpd = NoHandler
    /\ net = {} /\ sent = {}
    /\ cli = [p \in Pcs |-> NoCmd]
    /\ file = [p \in Pcs |-> NoKey] /\ owner = [p \in Pcs |-> NoKey]
    /\ released = {NoKey}
    /\ cmds = 0 /\ faults = 0
    /\ printed = {} /\ forgone = {} /\ removed = {} /\ releasing = {}
    /\ accepted = [i \in 1..MaxId |-> 0]

Fault == faults < MaxFaults /\ faults' = faults + 1
NoFault == faults' = faults

-----------------------------------------------------------------------------
(* The board.                                                              *)

\* Mutant: the random half of the nonce survives a restart, the counter does not.
AuthInitSameNonce(b) == [b EXCEPT !.up = TRUE, !.ctr = 0, !.psk = b.nvs, !.claimed = b.nvs # NoKey]

\* auth_init: a fresh random half of the nonce, the key from flash.
AuthInit(b) == [b EXCEPT !.up = TRUE, !.boot = @ + 1, !.ctr = 0, !.psk = b.nvs,
                         !.claimed = b.nvs # NoKey]

\* check_mac over the key and the current nonce, get_proofs included.
ProofOk(r) == board.claimed /\ r.key = board.psk /\ r.nonce = NonceOf(board)

\* Mutant: whoever asks last has the board.
ClaimableAlways == TRUE

\* claim_post and auth_claim: only an unclaimed board takes a key.
Claimable == ~board.claimed

\* auth_claim's effect when flash behaved as o says: "stored" wrote the key
\* and reported an error.
Claimed(b, k, o) == [b EXCEPT !.psk = k, !.nvs = IF o = "failed" THEN @ ELSE k,
                              !.claimed = o = "ok"]

\* auth_unclaim: RAM is cleared only after flash has been.
Unclaimed(b, o) == [b EXCEPT !.nvs = IF o = "failed" THEN @ ELSE NoKey,
                             !.psk = IF o = "ok" THEN NoKey ELSE @,
                             !.claimed = o # "ok"]

Bumped(b) == [b EXCEPT !.ctr = @ + 1]

Outcome(o) == IF o = "ok" THEN NoFault ELSE Fault

Serve(r, status, k) ==
    httpd' = [pc |-> "reply", kind |-> r.kind, id |-> r.id, status |-> status, key |-> k]
Refuse(r) == Serve(r, 403, NoKey) /\ NoFault /\ UNCHANGED <<board, forgone, accepted, released>>

ClaimPost(r) ==
    /\ r.kind = "claim"
    /\ \/ ~Claimable /\ Refuse(r)
       \/ /\ Claimable
          /\ \E o \in {"ok", "failed", "stored"} :
               /\ Outcome(o)
               /\ board' = Claimed(board, r.id, o)
               /\ Serve(r, IF o = "ok" THEN 200 ELSE 500, IF o = "ok" THEN r.id ELSE NoKey)
               /\ forgone' = IF o = "stored" THEN forgone \cup {r.id} ELSE forgone
          /\ UNCHANGED <<accepted, released>>

UnclaimPost(r) ==
    /\ r.kind = "unclaim"
    /\ \/ ~ProofOk(r) /\ Refuse(r)
       \/ /\ ProofOk(r)
          /\ \E o \in {"ok", "failed", "stored"} :
               /\ Outcome(o)
               /\ board' = Unclaimed(board, o)
               /\ Serve(r, IF o = "ok" THEN 200 ELSE 500, NoKey)
               /\ accepted' = IF o = "ok" THEN [accepted EXCEPT ![r.id] = @ + 1] ELSE accepted
          /\ released' = released \cup {r.key}
          /\ UNCHANGED forgone

RebootPost(r) ==
    /\ r.kind = "reboot"
    /\ \/ ~ProofOk(r) /\ Refuse(r)
       \/ /\ ProofOk(r)
          /\ board' = Bumped(board)
          /\ Serve(r, 200, NoKey) /\ NoFault
          /\ accepted' = [accepted EXCEPT ![r.id] = @ + 1]
          /\ UNCHANGED <<forgone, released>>

\* The server runs one handler at a time.
Handle(r) ==
    /\ board.up /\ httpd.pc = "idle" /\ r \in net
    /\ net' = net \ {r}
    /\ ClaimPost(r) \/ UnclaimPost(r) \/ RebootPost(r)
    /\ UNCHANGED <<sent, cli, file, cmds, printed, removed, owner, releasing>>

Waiting(p, h) == cli[p].pc = "wait" /\ cli[p].id = h.id
AfterReply(h) ==
    IF h.status = 200 /\ h.kind # "claim" THEN [NoHandler EXCEPT !.pc = "restart"] ELSE NoHandler

\* The end of a handler: the answer reaches the command or is lost; unclaim
\* and reboot then restart.
Reply ==
    /\ board.up /\ httpd.pc = "reply"
    /\ httpd' = AfterReply(httpd)
    /\ \/ \E p \in Pcs :
            /\ Waiting(p, httpd) /\ NoFault
            /\ cli' = [cli EXCEPT ![p].pc = "answer", ![p].status = httpd.status,
                                  ![p].key = IF httpd.kind = "claim" THEN httpd.key ELSE @]
            /\ UNCHANGED forgone
       \/ /\ IF \E p \in Pcs : Waiting(p, httpd) THEN Fault ELSE NoFault
          /\ forgone' = forgone \cup {httpd.key}
          /\ UNCHANGED cli
    /\ UNCHANGED <<board, net, sent, file, cmds, printed, removed, owner, released, accepted, releasing>>

Down ==
    /\ board' = [board EXCEPT !.up = FALSE]
    /\ net' = {} /\ httpd' = NoHandler
    /\ forgone' = IF httpd.pc = "reply" THEN forgone \cup {httpd.key} ELSE forgone
    /\ UNCHANGED <<sent, cli, file, cmds, printed, removed, owner, released, accepted, releasing>>

Restart   == board.up /\ httpd.pc = "restart" /\ NoFault /\ Down
PowerLoss == board.up /\ Fault /\ Down

\* app_main up to auth_init; erased flash (over USB, or nvs_flash_erase on a
\* format change) takes the key with it.
Boot ==
    /\ ~board.up
    /\ \/ NoFault /\ board' = AuthInit(board) /\ UNCHANGED released
       \/ /\ Fault /\ board' = AuthInit([board EXCEPT !.nvs = NoKey])
          /\ released' = released \cup {board.nvs}
    /\ UNCHANGED <<httpd, net, sent, cli, file, cmds, printed, forgone, removed, owner, accepted, releasing>>

-----------------------------------------------------------------------------
(* The commands.                                                           *)

Exit(p) == cli' = [cli EXCEPT ![p] = NoCmd]
Step(p, pc) == cli' = [cli EXCEPT ![p].pc = pc]
CliOnly == UNCHANGED <<board, httpd, net, sent, cmds, printed, forgone, removed, owner, released, accepted, releasing>>

\* The commands that prove the key load it first; a load that fails gives none.
Start(p, c) ==
    /\ cli[p].pc = "idle"
    /\ IF p \in releasing THEN c = "unclaim" /\ board.up /\ cmds < MaxId ELSE cmds < MaxCmds
    /\ cmds' = cmds + 1
    /\ \/ c = "claim" /\ NoFault /\ cli' = [cli EXCEPT ![p] =
            [NoCmd EXCEPT !.cmd = c, !.pc = "info", !.id = cmds + 1]]
       \/ c = "revoke" /\ NoFault /\ cli' = [cli EXCEPT ![p] =
            [NoCmd EXCEPT !.cmd = c, !.pc = "revoke", !.id = cmds + 1]]
       \/ /\ c \in {"unclaim", "reboot"}
          /\ \E k \in {file[p], NoKey} :
               /\ cli' = [cli EXCEPT ![p] =
                    [NoCmd EXCEPT !.cmd = c, !.pc = "info", !.id = cmds + 1, !.key = k]]
               /\ IF k = file[p] THEN NoFault ELSE Fault
    /\ UNCHANGED <<board, httpd, net, sent, file, printed, forgone, removed, owner, released, accepted, releasing>>

\* Mutant: an unclaimed board leaves nothing to do.
AfterInfoDone(c) ==
    CASE c.cmd = "claim"   -> IF board.claimed THEN "exit" ELSE "post"
      [] c.cmd = "unclaim" -> IF ~board.claimed \/ c.key = NoKey THEN "exit" ELSE "post"
      [] c.cmd = "reboot"  -> IF c.key = NoKey THEN "exit" ELSE "post"

\* Where a command goes once it knows what the board says of itself.
AfterInfo(c) ==
    CASE c.cmd = "claim"   -> IF board.claimed THEN "exit" ELSE "post"
      [] c.cmd = "unclaim" -> IF ~board.claimed THEN "revoke"
                              ELSE IF c.key = NoKey THEN "exit" ELSE "post"
      [] c.cmd = "reboot"  -> IF c.key = NoKey THEN "exit" ELSE "post"

Info(p) ==
    /\ cli[p].pc = "info" /\ board.up /\ httpd.pc = "idle"
    /\ IF AfterInfo(cli[p]) = "exit" THEN Exit(p)
       ELSE cli' = [cli EXCEPT ![p].pc = AfterInfo(cli[p]), ![p].nonce = NonceOf(board)]
    /\ NoFault /\ CliOnly /\ UNCHANGED file

RequestOf(p) == [kind |-> cli[p].cmd, id |-> cli[p].id, key |-> cli[p].key,
                 nonce |-> cli[p].nonce]

Post(p) ==
    /\ cli[p].pc = "post" /\ board.up
    /\ net' = net \cup {RequestOf(p)}
    /\ sent' = IF cli[p].cmd = "claim" THEN sent ELSE sent \cup {RequestOf(p)}
    /\ Step(p, "wait") /\ NoFault
    /\ UNCHANGED <<board, httpd, file, cmds, printed, forgone, removed, owner, released, accepted, releasing>>

\* Mutant: unclaim removes the key here whatever the board answered.
AfterAnswerAny(c) ==
    CASE c.cmd = "unclaim" -> "revoke"
      [] c.cmd = "claim"   -> IF c.status = 200 THEN "write" ELSE "exit"
      [] c.cmd = "reboot"  -> "exit"

\* A bad status ends the command; claim has the key now, unclaim goes on to
\* remove it here too.
AfterAnswer(c) ==
    IF c.status # 200 THEN "exit"
    ELSE CASE c.cmd = "claim"   -> "write"
           [] c.cmd = "unclaim" -> "revoke"
           [] c.cmd = "reboot"  -> "exit"

Answer(p) ==
    /\ cli[p].pc = "answer"
    /\ IF AfterAnswer(cli[p]) = "exit" THEN Exit(p) ELSE Step(p, AfterAnswer(cli[p]))
    /\ NoFault /\ CliOnly /\ UNCHANGED file

\* writeFile, first half: the drop-in is truncated, or cannot be opened.
Truncate(p) ==
    /\ cli[p].pc = "write"
    /\ Step(p, "truncated") /\ file' = [file EXCEPT ![p] = NoKey]
    /\ NoFault /\ CliOnly

\* writeFile, second half: a key that could not be saved is printed.
Write(p) ==
    /\ Exit(p)
    /\ owner' = [owner EXCEPT ![p] = cli[p].key]
    /\ \/ /\ cli[p].pc = "truncated" /\ NoFault
          /\ file' = [file EXCEPT ![p] = cli[p].key] /\ UNCHANGED printed
       \/ /\ cli[p].pc \in {"write", "truncated"} /\ Fault
          /\ printed' = printed \cup {cli[p].key} /\ UNCHANGED file
    /\ UNCHANGED <<board, httpd, net, sent, cmds, forgone, removed, released, accepted, releasing>>

\* revoke: also the end of unclaim.  Removing a live key by hand is a choice.
Revoke(p) ==
    /\ cli[p].pc = "revoke"
    /\ file' = [file EXCEPT ![p] = NoKey]
    /\ removed' = IF cli[p].cmd = "revoke" THEN removed \cup {file[p]} ELSE removed
    /\ Exit(p) /\ NoFault
    /\ UNCHANGED <<board, httpd, net, sent, cmds, printed, forgone, owner, released, accepted, releasing>>

\* The connection fails because the board is down, or nobody is left to answer.
Hung(p) ==
    \/ cli[p].pc \in {"info", "post"} /\ ~board.up
    \/ /\ cli[p].pc = "wait"
       /\ \A r \in net : r.id # cli[p].id
       /\ ~(httpd.pc = "reply" /\ httpd.id = cli[p].id)
GiveUp(p) == Hung(p) /\ Exit(p) /\ NoFault /\ CliOnly /\ UNCHANGED file

\* The command is killed at any point, or its connection breaks.
Crash(p) ==
    /\ cli[p].pc # "idle" /\ Fault
    /\ Exit(p)
    /\ forgone' = IF cli[p].cmd = "claim" THEN forgone \cup {cli[p].key} ELSE forgone
    /\ UNCHANGED <<board, httpd, net, sent, file, cmds, printed, removed, owner, released, accepted, releasing>>

CliStep(p) ==
    \/ Info(p) \/ Post(p) \/ Answer(p) \/ Truncate(p) \/ Write(p) \/ Revoke(p) \/ GiveUp(p)

-----------------------------------------------------------------------------
(* The network and the operators.                                          *)

Others == UNCHANGED <<board, httpd, cli, file, cmds, printed, forgone, removed, owner, released, accepted>>

LoseRequest(r) == r \in net /\ net' = net \ {r} /\ Fault /\ Others /\ UNCHANGED <<sent, releasing>>
Repeat(r) ==
    /\ r \in sent /\ board.up
    /\ net' = net \cup {r} /\ Fault /\ Others /\ UNCHANGED <<sent, releasing>>

BoardStep == Reply \/ Restart \/ Boot \/ \E r \in net : Handle(r)
Next ==
    \/ BoardStep \/ PowerLoss
    \/ \E p \in Pcs : CliStep(p) \/ Crash(p)
                      \/ \E c \in Kinds \cup {"revoke"} : Start(p, c)
    \/ \E r \in net : LoseRequest(r)
    \/ \E r \in sent : Repeat(r)

Spec == Init /\ [][Next]_vars

\* The board's tasks run, a command goes on, and an operator who gives the
\* board away repeats the command until the key is gone from the PC.
Fairness ==
    /\ WF_vars(BoardStep)
    /\ \A p \in Pcs : WF_vars(CliStep(p)) /\ WF_vars(p \in releasing /\ file[p] # NoKey /\ Start(p, "unclaim"))

-----------------------------------------------------------------------------
(* Properties.                                                             *)

\* Where the key k exists outside the board.
Held(k) ==
    \/ \E p \in Pcs : file[p] = k
    \/ k \in printed
    \/ \E p \in Pcs : cli[p].cmd = "claim" /\ cli[p].key = k
    \/ httpd.pc = "reply" /\ httpd.key = k

\* docs/DEVELOPMENT.md 86-87, auth.c 180-235, ota.c 58-59: the nonce makes a
\* request with a proof good for one execution, although unclaim does not
\* advance the counter and every boot starts it at zero.
ReplayRefused == \A i \in 1..MaxId : accepted[i] <= 1

\* auth.c 239-299, cli.zig 473-575: a key that the board would use after a
\* restart can be found on a PC, unless a fault or a revoke took that copy.
KeyAccounted == board.nvs # NoKey => Held(board.nvs) \/ board.nvs \in forgone \cup removed

\* README.md 142-143: after a claim that ended with a key, the board keeps that
\* key over restarts and other PCs' claims until a proof of the key releases it
\* or its flash is erased.
OwnerKeeps == \A p \in Pcs : owner[p] \notin released => board.nvs = owner[p]
=============================================================================
