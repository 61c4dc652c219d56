--------------------------- MODULE KeyLifeProofs ----------------------------
(***************************************************************************)
(* Proofs about KeyLife, for every set of PCs and every bound on commands  *)
(* and faults.                                                             *)
(***************************************************************************)
EXTENDS KeyLife, TLAPS

Active(p) == cli[p].pc # "idle"

(* A command and the place where it stands.  claim has a key exactly from  *)
(* the board's answer 200 on.                                              *)
CmdOk(c) ==
    /\ c.pc = "idle" => c.cmd = "none"
    /\ c.pc \in {"info", "post", "wait", "answer"} => c.cmd \in Kinds
    /\ c.pc \in {"write", "truncated"} => c.cmd = "claim" /\ c.key # NoKey
    /\ c.pc = "revoke" => c.cmd \in {"revoke", "unclaim"}
    /\ c.cmd = "claim" /\ c.pc \in {"info", "post", "wait"} => c.key = NoKey
    /\ c.cmd = "claim" /\ c.pc = "answer" => (c.status = 200 <=> c.key # NoKey)

(* A handler's answer while the board waits to send it.                    *)
HandlerOk ==
    /\ ~board.up => httpd.pc = "idle"
    /\ httpd.pc # "reply" => httpd.key = NoKey
    /\ httpd.kind # "claim" => httpd.key = NoKey
    /\ httpd.kind = "claim" /\ httpd.pc = "reply" => (httpd.status = 200 <=> httpd.key # NoKey)

TypeInv == TypeOK /\ HandlerOk /\ \A p \in Pcs : CmdOk(cli[p])

(* Requests in flight or on record, and their numbers: a number belongs to *)
(* one command and to one request.                                         *)
Reqs == net \cup sent
Same(i, k, p) ==      \* what carries number i and kind k comes from p's command
    Active(p) /\ cli[p].id = i => cli[p].cmd = k /\ cli[p].pc \notin {"info", "post"}
NumberInv ==
    /\ \A r \in net : r.kind = "claim" \/ r \in sent
    /\ \A r \in sent : r.kind # "claim"
    /\ \A r \in Reqs : r.id <= cmds /\ \A p \in Pcs : Same(r.id, r.kind, p)
    /\ httpd.pc = "reply" => httpd.id <= cmds /\ \A p \in Pcs : Same(httpd.id, httpd.kind, p)
    /\ \A p \in Pcs : Active(p) => cli[p].id <= cmds
    /\ \A p, q \in Pcs : p # q /\ Active(p) /\ Active(q) => cli[p].id # cli[q].id
    /\ \A r, s \in Reqs : r.id = s.id => r = s

(* No claim that may still be carried out will give out the key k.         *)
Used(k) ==
    /\ k <= cmds
    /\ \A r \in net : r.kind = "claim" => r.id # k
    /\ \A p \in Pcs : cli[p].cmd = "claim" /\ cli[p].pc \in {"info", "post"} => cli[p].id # k

Present(k) ==
    \/ k \in {board.nvs, board.psk, httpd.key}
    \/ \E p \in Pcs : k \in {file[p], cli[p].key}
UsedInv == \A k \in Keys : Present(k) => Used(k)

(* The keys the board has given away, up to the PC whose claim ended.      *)
Granted(k) ==
    \/ \E p \in Pcs : owner[p] = k \/ (cli[p].cmd = "claim" /\ cli[p].key = k)
    \/ httpd.key = k
GrantInv ==
    /\ NoKey \in released
    /\ \A k \in Keys \ released : Granted(k) => /\ board.nvs = k
                                                /\ board.up => board.psk = k /\ board.claimed

(* A request that was carried out cannot be again: its nonce is past, or   *)
(* its key is gone for good.                                               *)
Past(n)  == n.boot < board.boot \/ (n.boot = board.boot /\ n.ctr < board.ctr)
Gone(k)  == k # NoKey /\ Used(k) /\ board.nvs # k /\ board.psk # k
ReplayInv ==
    /\ board.claimed => board.psk # NoKey
    /\ \A i \in 1..MaxId : \/ accepted[i] = 0
                           \/ accepted[i] = 1 /\ \E r \in sent : r.id = i /\ (Past(r.nonce) \/ Gone(r.key))

(* Copies outside the board: where one is about to be overwritten, by the  *)
(* end of a claim or of an unclaim, the board no longer has that key.      *)
Lost == forgone \cup removed
Overwriting(p) ==
    \/ cli[p].cmd = "claim" /\ cli[p].key # NoKey
    \/ /\ cli[p].cmd = "unclaim"
       /\ cli[p].pc = "revoke" \/ (cli[p].pc = "answer" /\ cli[p].status = 200)
StaleFile(p) == file[p] = NoKey \/ file[p] # board.nvs \/ file[p] \in Lost
(* A key in flash that the running board does not use: flash reported an   *)
(* error after it had stored the key.                                      *)
HalfClaimed == board.up /\ ~board.claimed /\ board.nvs # NoKey => board.nvs \in forgone
(* The key just given out is the board's, and not yet anywhere else.       *)
JustGranted ==
    httpd.key # NoKey => /\ board.nvs = httpd.key
                         /\ \A p \in Pcs : file[p] # httpd.key /\ cli[p].key # httpd.key
JustUnclaimed ==
    httpd.pc = "reply" /\ httpd.kind = "unclaim" /\ httpd.status = 200 => board.nvs = NoKey
AccountInv ==
    /\ KeyAccounted /\ HalfClaimed /\ JustGranted /\ JustUnclaimed
    /\ \A p \in Pcs : Overwriting(p) => StaleFile(p)

-----------------------------------------------------------------------------
(* The records of the model.                                               *)
BoardType   == [up : BOOLEAN, nvs : Keys, psk : Keys, claimed : BOOLEAN, boot : Nat, ctr : Nat]
HandlerType == [pc : {"idle", "reply", "restart"}, kind : Kinds, id : 1..MaxId,
                status : Statuses, key : Keys]
CmdType     == [cmd : Kinds \cup {"revoke", "none"}, pc : CliPc, id : 1..MaxId,
                key : Keys, nonce : Nonce, status : Statuses]
Flash       == {"ok", "failed", "stored"}

LEMMA Bounds ==
    /\ MaxId \in Nat /\ MaxId >= 1 /\ MaxCmds <= MaxId /\ MaxCmds \in Nat /\ MaxFaults \in Nat
    /\ NoKey \in Keys /\ NoKey = 0 /\ 1 \in 1..MaxId
    /\ \A i \in 1..MaxId : i \in Keys /\ i # NoKey
BY KeyLifeAssumption DEF MaxId, Keys, NoKey

LEMMA BoardFields ==
    ASSUME NEW b \in BoardType
    PROVE  /\ b.up \in BOOLEAN /\ b.nvs \in Keys /\ b.psk \in Keys /\ b.claimed \in BOOLEAN
           /\ b.boot \in Nat /\ b.ctr \in Nat
BY DEF BoardType

(* auth_claim, auth_unclaim, the nonce's counter, auth_init, field by      *)
(* field.                                                                  *)
LEMMA ClaimedBoard ==
    ASSUME NEW b \in BoardType, NEW k \in Keys, NEW o \in Flash
    PROVE  LET c == Claimed(b, k, o) IN
           /\ c \in BoardType
           /\ c.up = b.up /\ c.psk = k /\ c.boot = b.boot /\ c.ctr = b.ctr
           /\ c.nvs = IF o = "failed" THEN b.nvs ELSE k
           /\ c.claimed = (o = "ok")
BY DEF BoardType, Claimed, Flash

LEMMA UnclaimedBoard ==
    ASSUME NEW b \in BoardType, NEW o \in Flash
    PROVE  LET c == Unclaimed(b, o) IN
           /\ c \in BoardType
           /\ c.up = b.up /\ c.boot = b.boot /\ c.ctr = b.ctr
           /\ c.nvs = IF o = "failed" THEN b.nvs ELSE NoKey
           /\ c.psk = IF o = "ok" THEN NoKey ELSE b.psk
           /\ c.claimed = (o # "ok")
BY Bounds DEF BoardType, Unclaimed, Flash

LEMMA BumpedBoard ==
    ASSUME NEW b \in BoardType
    PROVE  LET c == Bumped(b) IN
           /\ c \in BoardType
           /\ c.up = b.up /\ c.nvs = b.nvs /\ c.psk = b.psk /\ c.claimed = b.claimed
           /\ c.boot = b.boot /\ c.ctr = b.ctr + 1
BY DEF BoardType, Bumped

LEMMA DownBoard ==
    ASSUME NEW b \in BoardType
    PROVE  LET c == [b EXCEPT !.up = FALSE] IN
           /\ c \in BoardType
           /\ c.up = FALSE /\ c.nvs = b.nvs /\ c.psk = b.psk /\ c.claimed = b.claimed
           /\ c.boot = b.boot /\ c.ctr = b.ctr
BY DEF BoardType

LEMMA BootedBoard ==
    ASSUME NEW b \in BoardType
    PROVE  LET c == AuthInit(b) IN
           /\ c \in BoardType
           /\ c.up = TRUE /\ c.nvs = b.nvs /\ c.psk = b.nvs /\ c.claimed = (b.nvs # NoKey)
           /\ c.boot = b.boot + 1 /\ c.ctr = 0
<1>1. b.boot \in Nat /\ b.nvs \in Keys BY DEF BoardType
<1>2. PICK n \in Nat : n = b.boot + 1 BY <1>1
<1>3. PICK m \in BOOLEAN : m = (b.nvs # NoKey) OBVIOUS
<1>4. AuthInit(b) = [b EXCEPT !.up = TRUE, !.boot = n, !.ctr = 0, !.psk = b.nvs, !.claimed = m]
  BY <1>2, <1>3 DEF AuthInit
<1>5. LET c == [b EXCEPT !.up = TRUE, !.boot = n, !.ctr = 0, !.psk = b.nvs, !.claimed = m] IN
      /\ c \in BoardType
      /\ c.up = TRUE /\ c.nvs = b.nvs /\ c.psk = b.nvs /\ c.claimed = m
      /\ c.boot = n /\ c.ctr = 0
  BY <1>1 DEF BoardType
<1> QED BY <1>2, <1>3, <1>4, <1>5

LEMMA ErasedBoard ==
    ASSUME NEW b \in BoardType
    PROVE  LET c == [b EXCEPT !.nvs = NoKey] IN
           c \in BoardType /\ c.nvs = NoKey /\ c.boot = b.boot
BY Bounds DEF BoardType

LEMMA CmdFields ==
    ASSUME NEW c \in CmdType
    PROVE  /\ c.cmd \in Kinds \cup {"revoke", "none"} /\ c.pc \in CliPc /\ c.id \in 1..MaxId
           /\ c.key \in Keys /\ c.nonce \in Nonce /\ c.status \in Statuses
BY DEF CmdType

LEMMA NoCmdOk == NoCmd \in CmdType /\ CmdOk(NoCmd) /\ NoCmd.pc = "idle" /\ NoCmd.cmd = "none" /\ NoCmd.key = NoKey
<1>1. [boot |-> 0, ctr |-> 0] \in Nonce BY DEF Nonce
<1>2. NoCmd \in CmdType BY <1>1, Bounds DEF NoCmd, CmdType, CliPc, Statuses
<1>3. NoCmd.pc = "idle" /\ NoCmd.cmd = "none" /\ NoCmd.key = NoKey BY DEF NoCmd
<1> QED BY <1>2, <1>3 DEF CmdOk

LEMMA NoHandlerOk == NoHandler \in HandlerType /\ NoHandler.pc = "idle" /\ NoHandler.key = NoKey
                     /\ NoHandler.kind = "reboot"
BY Bounds DEF NoHandler, HandlerType, Kinds, Statuses

LEMMA TypeFacts ==
    ASSUME TypeOK
    PROVE  /\ board \in BoardType /\ httpd \in HandlerType /\ cli \in [Pcs -> CmdType]
           /\ net \subseteq Requests /\ sent \subseteq Requests
           /\ file \in [Pcs -> Keys] /\ owner \in [Pcs -> Keys]
           /\ cmds \in 0..MaxId /\ faults \in 0..MaxFaults
           /\ accepted \in [1..MaxId -> Nat] /\ released \subseteq Keys
BY DEF TypeOK, BoardType, HandlerType, CmdType

-----------------------------------------------------------------------------
(* What a step of p's command may do to the state the invariants speak of. *)
CliSum(p) ==
    /\ UNCHANGED <<board, httpd, released, accepted>>
    /\ \A q \in Pcs \ {p} : cli'[q] = cli[q] /\ file'[q] = file[q] /\ owner'[q] = owner[q]
    /\ cmds <= cmds'
    /\ cli'[p].pc # "idle" =>
         \/ Active(p) /\ cli'[p].id = cli[p].id /\ cli'[p].cmd = cli[p].cmd
         \/ ~Active(p) /\ cmds' = cmds + 1 /\ cli'[p].id = cmds + 1
    /\ Active(p) /\ cli'[p].pc \in {"info", "post"} => cli[p].pc = "info"
    /\ cli'[p].key \in {NoKey, cli[p].key, file[p]}
    /\ cli'[p].cmd = "claim" =>
         cli'[p].key = NoKey \/ (cli[p].cmd = "claim" /\ cli'[p].key = cli[p].key)
    /\ file'[p] \in {NoKey, file[p], cli[p].key}
    /\ owner'[p] = owner[p] \/ (cli[p].cmd = "claim" /\ owner'[p] = cli[p].key)
    /\ \/ net' = net /\ sent' = sent
       \/ /\ cli[p].pc = "post" /\ cli'[p].pc = "wait"
          /\ net' = net \cup {RequestOf(p)}
          /\ sent' = IF cli[p].cmd = "claim" THEN sent ELSE sent \cup {RequestOf(p)}

LEMMA FaultType == TypeOK /\ (Fault \/ NoFault) => faults' \in 0..MaxFaults
BY Bounds DEF TypeOK, Fault, NoFault

LEMMA StepCmd ==
    ASSUME NEW c \in CmdType, NEW x \in CliPc
    PROVE  LET d == [c EXCEPT !.pc = x] IN
           /\ d \in CmdType /\ d.pc = x
           /\ d.cmd = c.cmd /\ d.id = c.id /\ d.key = c.key /\ d.status = c.status /\ d.nonce = c.nonce
BY DEF CmdType

(* Only p's command and the variables that the commands write have changed.*)
LEMMA CmdStep ==
    ASSUME TypeInv, NEW p \in Pcs, NEW c \in CmdType, CmdOk(c), cli' = [cli EXCEPT ![p] = c],
           UNCHANGED <<board, httpd, released, accepted, releasing>>,
           net' \subseteq Requests, sent' \subseteq Requests,
           file' \in [Pcs -> Keys], owner' \in [Pcs -> Keys], cmds' \in 0..MaxId,
           faults' \in 0..MaxFaults, printed' \subseteq Keys, forgone' \subseteq Keys,
           removed' \subseteq Keys
    PROVE  TypeInv' /\ cli'[p] = c /\ \A q \in Pcs \ {p} : cli'[q] = cli[q]
<1>1. cli \in [Pcs -> CmdType] /\ \A q \in Pcs : CmdOk(cli[q]) BY TypeFacts DEF TypeInv
<1>2. cli' \in [Pcs -> CmdType] /\ cli'[p] = c /\ \A q \in Pcs \ {p} : cli'[q] = cli[q] BY <1>1
<1>3. \A q \in Pcs : CmdOk(cli[q])'
  <2> SUFFICES ASSUME NEW q \in Pcs PROVE CmdOk(cli'[q]) BY DEF CmdOk
  <2> QED BY <1>1, <1>2
<1>4. HandlerOk' BY DEF TypeInv, HandlerOk
<1>5. TypeOK' BY <1>2 DEF TypeInv, TypeOK, CmdType
<1> QED BY <1>2, <1>3, <1>4, <1>5 DEF TypeInv

LEMMA RequestType ==
    ASSUME TypeInv, NEW p \in Pcs, cli[p].pc = "post"
    PROVE  /\ RequestOf(p) \in Requests
           /\ RequestOf(p).id = cli[p].id /\ RequestOf(p).kind = cli[p].cmd
<1>1. cli[p] \in CmdType /\ CmdOk(cli[p]) BY TypeFacts DEF TypeInv
<1>2. cli[p].cmd \in Kinds BY <1>1 DEF CmdOk
<1> QED BY <1>1, <1>2, CmdFields DEF RequestOf, Requests

(* A step after which the command is over.                                 *)
LEMMA ExitStep ==
    ASSUME TypeInv, NEW p \in Pcs, Exit(p),
           UNCHANGED <<board, httpd, net, sent, cmds, released, accepted, releasing>>,
           file' \in [Pcs -> Keys], owner' \in [Pcs -> Keys], Fault \/ NoFault,
           printed' \subseteq Keys, forgone' \subseteq Keys, removed' \subseteq Keys,
           \A q \in Pcs \ {p} : file'[q] = file[q] /\ owner'[q] = owner[q],
           file'[p] \in {NoKey, file[p], cli[p].key},
           owner'[p] = owner[p] \/ (cli[p].cmd = "claim" /\ owner'[p] = cli[p].key)
    PROVE  TypeInv' /\ CliSum(p) /\ cli'[p] = NoCmd
<1>1. cli' = [cli EXCEPT ![p] = NoCmd] BY DEF Exit
<1>2. faults' \in 0..MaxFaults BY FaultType DEF TypeInv
<1>3. net' \subseteq Requests /\ sent' \subseteq Requests /\ cmds' \in 0..MaxId
  BY TypeFacts DEF TypeInv
<1>4. TypeInv' /\ cli'[p] = NoCmd /\ \A q \in Pcs \ {p} : cli'[q] = cli[q]
  BY <1>1, <1>2, <1>3, NoCmdOk, CmdStep
<1>5. cli'[p].pc = "idle" /\ cli'[p].cmd = "none" /\ cli'[p].key = NoKey BY <1>4, NoCmdOk
<1>6. cmds <= cmds' BY TypeFacts, Bounds DEF TypeInv
<1> QED BY <1>4, <1>5, <1>6 DEF CliSum

(* A step that moves the command to x and changes nothing but the command  *)
(* and a drop-in.                                                          *)
LEMMA MoveStep ==
    ASSUME TypeInv, NEW p \in Pcs, NEW x \in CliPc, NEW c \in CmdType,
           cli' = [cli EXCEPT ![p] = c], c.pc = x, CmdOk(c), Active(p),
           c.id = cli[p].id, c.cmd = cli[p].cmd, c.key = cli[p].key,
           x \in {"info", "post"} => cli[p].pc = "info",
           NoFault, CliOnly, file' \in [Pcs -> Keys],
           \A q \in Pcs \ {p} : file'[q] = file[q], file'[p] \in {NoKey, file[p]}
    PROVE  TypeInv' /\ CliSum(p) /\ cli'[p] = c
<1>1. faults' \in 0..MaxFaults BY FaultType DEF TypeInv
<1>2. /\ net' \subseteq Requests /\ sent' \subseteq Requests /\ cmds' \in 0..MaxId
      /\ owner' \in [Pcs -> Keys] /\ owner' = owner /\ net' = net /\ sent' = sent
  BY TypeFacts DEF TypeInv, CliOnly
<1>3. printed' \subseteq Keys /\ forgone' \subseteq Keys /\ removed' \subseteq Keys
  BY DEF TypeInv, TypeOK, CliOnly
<1>4. TypeInv' /\ cli'[p] = c /\ \A q \in Pcs \ {p} : cli'[q] = cli[q]
  BY <1>1, <1>2, <1>3, CmdStep DEF CliOnly
<1>5. cmds <= cmds' BY TypeFacts, Bounds DEF TypeInv, CliOnly
<1>6. UNCHANGED <<board, httpd, released, accepted>> BY DEF CliOnly
<1> QED BY <1>2, <1>4, <1>5, <1>6 DEF CliSum

LEMMA PlainExit ==
    ASSUME TypeInv, NEW p \in Pcs, Exit(p), NoFault, CliOnly, file' = file
    PROVE  TypeInv' /\ CliSum(p) /\ cli'[p] = NoCmd
<1>1. /\ UNCHANGED <<board, httpd, net, sent, cmds, released, accepted, releasing>>
      /\ printed' = printed /\ forgone' = forgone /\ removed' = removed /\ owner' = owner
  BY DEF CliOnly
<1>2. file' \in [Pcs -> Keys] /\ owner' \in [Pcs -> Keys] BY <1>1, TypeFacts DEF TypeInv
<1>3. printed' \subseteq Keys /\ forgone' \subseteq Keys /\ removed' \subseteq Keys
  BY <1>1 DEF TypeInv, TypeOK
<1> QED BY <1>1, <1>2, <1>3, ExitStep

LEMMA InfoStep ==
    ASSUME TypeInv, NEW p \in Pcs, Info(p)
    PROVE  TypeInv' /\ CliSum(p)
<1>1. cli[p].pc = "info" /\ NoFault /\ CliOnly /\ file' = file BY DEF Info
<1>2. cli[p] \in CmdType /\ CmdOk(cli[p]) BY TypeFacts DEF TypeInv
<1>3. cli[p].cmd \in Kinds BY <1>1, <1>2 DEF CmdOk
<1>4. CASE AfterInfo(cli[p]) = "exit"
  <2>1. Exit(p) BY <1>4 DEF Info
  <2> QED BY <1>1, <2>1, PlainExit
<1>5. CASE AfterInfo(cli[p]) # "exit"
  <2>1. PICK x \in CliPc : /\ x = AfterInfo(cli[p]) /\ x \in {"post", "revoke"}
                           /\ x = "revoke" => cli[p].cmd = "unclaim"
    BY <1>3, <1>5 DEF AfterInfo, Kinds, CliPc
  <2>2. PICK n \in Nonce : n = NonceOf(board)
    BY TypeFacts, BoardFields DEF TypeInv, NonceOf, Nonce
  <2>3. cli' = [cli EXCEPT ![p].pc = x, ![p].nonce = n] BY <1>5, <2>1, <2>2 DEF Info
  <2>4. PICK c : c = [cli[p] EXCEPT !.pc = x, !.nonce = n] OBVIOUS
  <2>5. cli' = [cli EXCEPT ![p] = c] BY <2>3, <2>4
  <2>6. c \in CmdType /\ c.pc = x /\ c.id = cli[p].id /\ c.cmd = cli[p].cmd /\ c.key = cli[p].key
    BY <1>2, <2>4 DEF CmdType
  <2>7. CmdOk(c) BY <1>1, <1>2, <1>3, <2>1, <2>6 DEF CmdOk
  <2>8. file' \in [Pcs -> Keys] BY <1>1, TypeFacts DEF TypeInv
  <2> QED BY <1>1, <2>1, <2>5, <2>6, <2>7, <2>8, MoveStep DEF Active
<1> QED BY <1>4, <1>5

LEMMA AnswerStep ==
    ASSUME TypeInv, NEW p \in Pcs, Answer(p)
    PROVE  TypeInv' /\ CliSum(p)
<1>1. cli[p].pc = "answer" /\ NoFault /\ CliOnly /\ file' = file BY DEF Answer
<1>2. cli[p] \in CmdType /\ CmdOk(cli[p]) BY TypeFacts DEF TypeInv
<1>3. cli[p].cmd \in Kinds BY <1>1, <1>2 DEF CmdOk
<1>4. CASE AfterAnswer(cli[p]) = "exit"
  <2>1. Exit(p) BY <1>4 DEF Answer
  <2> QED BY <1>1, <2>1, PlainExit
<1>5. CASE AfterAnswer(cli[p]) # "exit"
  <2>0. cli[p].status = 200 BY <1>5 DEF AfterAnswer
  <2>1. PICK x \in CliPc : /\ x = AfterAnswer(cli[p]) /\ x \in {"write", "revoke"}
                           /\ x = "revoke" => cli[p].cmd = "unclaim"
                           /\ x = "write" => cli[p].cmd = "claim"
    BY <1>3, <1>5, <2>0 DEF AfterAnswer, Kinds, CliPc
  <2>2. cli' = [cli EXCEPT ![p].pc = x] BY <1>5, <2>1 DEF Answer, Step
  <2>3. PICK c : c = [cli[p] EXCEPT !.pc = x] OBVIOUS
  <2>4. cli' = [cli EXCEPT ![p] = c] BY <2>2, <2>3
  <2>5. c \in CmdType /\ c.pc = x /\ c.id = cli[p].id /\ c.cmd = cli[p].cmd /\ c.key = cli[p].key
    BY <1>2, <2>3, StepCmd
  <2>6. x = "write" => cli[p].key # NoKey BY <1>1, <1>2, <2>0, <2>1 DEF CmdOk
  <2>7. CmdOk(c) BY <2>1, <2>5, <2>6 DEF CmdOk
  <2>8. file' \in [Pcs -> Keys] BY <1>1, TypeFacts DEF TypeInv
  <2>9. x \notin {"info", "post"} BY <2>1
  <2> QED BY <1>1, <2>4, <2>5, <2>7, <2>8, <2>9, MoveStep DEF Active
<1> QED BY <1>4, <1>5

LEMMA TruncateStep ==
    ASSUME TypeInv, NEW p \in Pcs, Truncate(p)
    PROVE  TypeInv' /\ CliSum(p)
<1>1. cli[p].pc = "write" /\ NoFault /\ CliOnly /\ file' = [file EXCEPT ![p] = NoKey] BY DEF Truncate
<1>2. cli[p] \in CmdType /\ CmdOk(cli[p]) /\ file \in [Pcs -> Keys] BY TypeFacts DEF TypeInv
<1>3. PICK c : c = [cli[p] EXCEPT !.pc = "truncated"] OBVIOUS
<1>4. cli' = [cli EXCEPT ![p] = c] BY <1>3 DEF Truncate, Step
<1>5. "truncated" \in CliPc BY DEF CliPc
<1>6. c \in CmdType /\ c.pc = "truncated" /\ c.id = cli[p].id /\ c.cmd = cli[p].cmd /\ c.key = cli[p].key
  BY <1>2, <1>3, <1>5, StepCmd
<1>7. CmdOk(c) BY <1>1, <1>2, <1>6 DEF CmdOk
<1>8. file' \in [Pcs -> Keys] /\ file'[p] = NoKey /\ \A q \in Pcs \ {p} : file'[q] = file[q]
  BY <1>1, <1>2, Bounds
<1> QED BY <1>1, <1>4, <1>5, <1>6, <1>7, <1>8, MoveStep DEF Active

LEMMA WriteStep ==
    ASSUME TypeInv, NEW p \in Pcs, Write(p)
    PROVE  TypeInv' /\ CliSum(p)
<1>1. /\ Exit(p) /\ UNCHANGED <<board, httpd, net, sent, cmds, released, accepted, releasing>>
      /\ forgone' = forgone /\ removed' = removed
      /\ owner' = [owner EXCEPT ![p] = cli[p].key] /\ cli[p].pc \in {"write", "truncated"}
  BY DEF Write
<1>2. cli[p] \in CmdType /\ CmdOk(cli[p]) /\ file \in [Pcs -> Keys] /\ owner \in [Pcs -> Keys]
  BY TypeFacts DEF TypeInv
<1>3. cli[p].cmd = "claim" /\ cli[p].key \in Keys BY <1>1, <1>2, CmdFields DEF CmdOk
<1>4. owner' \in [Pcs -> Keys] /\ owner'[p] = cli[p].key /\ \A q \in Pcs \ {p} : owner'[q] = owner[q]
  BY <1>1, <1>2, <1>3
<1>5. /\ file' \in [Pcs -> Keys] /\ file'[p] \in {file[p], cli[p].key}
      /\ \A q \in Pcs \ {p} : file'[q] = file[q]
  BY <1>2, <1>3 DEF Write
<1>6. printed' \subseteq Keys /\ forgone' \subseteq Keys /\ removed' \subseteq Keys
  BY <1>1, <1>3 DEF Write, TypeInv, TypeOK
<1>7. Fault \/ NoFault BY DEF Write
<1> QED BY <1>1, <1>3, <1>4, <1>5, <1>6, <1>7, ExitStep

LEMMA RevokeStep ==
    ASSUME TypeInv, NEW p \in Pcs, Revoke(p)
    PROVE  TypeInv' /\ CliSum(p)
<1>1. /\ Exit(p) /\ NoFault /\ UNCHANGED <<board, httpd, net, sent, cmds, released, accepted, releasing>>
      /\ forgone' = forgone /\ printed' = printed /\ owner' = owner
      /\ file' = [file EXCEPT ![p] = NoKey]
  BY DEF Revoke
<1>2. file \in [Pcs -> Keys] /\ owner' \in [Pcs -> Keys] BY <1>1, TypeFacts DEF TypeInv
<1>3. file' \in [Pcs -> Keys] /\ file'[p] = NoKey /\ \A q \in Pcs \ {p} : file'[q] = file[q]
  BY <1>1, <1>2, Bounds
<1>4. printed' \subseteq Keys /\ forgone' \subseteq Keys /\ removed' \subseteq Keys
  BY <1>1, <1>2 DEF Revoke, TypeInv, TypeOK
<1> QED BY <1>1, <1>2, <1>3, <1>4, ExitStep

LEMMA CrashStep ==
    ASSUME TypeInv, NEW p \in Pcs, Crash(p)
    PROVE  TypeInv' /\ CliSum(p)
<1>1. /\ Exit(p) /\ Fault /\ UNCHANGED <<board, httpd, net, sent, cmds, released, accepted, releasing>>
      /\ removed' = removed /\ printed' = printed /\ owner' = owner /\ file' = file
  BY DEF Crash
<1>2. file' \in [Pcs -> Keys] /\ owner' \in [Pcs -> Keys] /\ cli[p] \in CmdType
  BY <1>1, TypeFacts DEF TypeInv
<1>3. printed' \subseteq Keys /\ forgone' \subseteq Keys /\ removed' \subseteq Keys
  BY <1>1, <1>2, CmdFields DEF Crash, TypeInv, TypeOK
<1> QED BY <1>1, <1>2, <1>3, ExitStep

LEMMA PostStep ==
    ASSUME TypeInv, NEW p \in Pcs, Post(p)
    PROVE  TypeInv' /\ CliSum(p)
<1>1. /\ cli[p].pc = "post" /\ NoFault
      /\ UNCHANGED <<board, httpd, file, cmds, printed, forgone, removed, owner, released, accepted, releasing>>
      /\ net' = net \cup {RequestOf(p)}
      /\ sent' = IF cli[p].cmd = "claim" THEN sent ELSE sent \cup {RequestOf(p)}
      /\ cli' = [cli EXCEPT ![p].pc = "wait"]
  BY DEF Post, Step
<1>2. cli[p] \in CmdType /\ CmdOk(cli[p]) BY TypeFacts DEF TypeInv
<1>3. PICK c : c = [cli[p] EXCEPT !.pc = "wait"] OBVIOUS
<1>4. cli' = [cli EXCEPT ![p] = c] BY <1>1, <1>3
<1>5. "wait" \in CliPc BY DEF CliPc
<1>6. c \in CmdType /\ c.pc = "wait" /\ c.id = cli[p].id /\ c.cmd = cli[p].cmd /\ c.key = cli[p].key
  BY <1>2, <1>3, <1>5, StepCmd
<1>7. CmdOk(c) BY <1>1, <1>2, <1>6 DEF CmdOk
<1>8. net' \subseteq Requests /\ sent' \subseteq Requests BY <1>1, RequestType, TypeFacts DEF TypeInv
<1>9. faults' \in 0..MaxFaults BY <1>1, FaultType DEF TypeInv
<1>10. /\ file' \in [Pcs -> Keys] /\ owner' \in [Pcs -> Keys] /\ cmds' \in 0..MaxId
       /\ printed' \subseteq Keys /\ forgone' \subseteq Keys /\ removed' \subseteq Keys
  BY <1>1 DEF TypeInv, TypeOK
<1>11. TypeInv' /\ cli'[p] = c /\ \A q \in Pcs \ {p} : cli'[q] = cli[q]
  BY <1>1, <1>4, <1>6, <1>7, <1>8, <1>9, <1>10, CmdStep
<1>12. cmds <= cmds' BY <1>1, TypeFacts, Bounds DEF TypeInv
<1> QED BY <1>1, <1>6, <1>11, <1>12 DEF CliSum, Active

LEMMA StartStep ==
    ASSUME TypeInv, NEW p \in Pcs, NEW x \in Kinds \cup {"revoke"}, Start(p, x)
    PROVE  TypeInv' /\ CliSum(p)
<1>1. /\ cli[p].pc = "idle" /\ cmds' = cmds + 1
      /\ UNCHANGED <<board, httpd, net, sent, file, printed, forgone, removed, owner, released, accepted, releasing>>
      /\ Fault \/ NoFault
  BY DEF Start
<1>2. file \in [Pcs -> Keys] /\ cmds \in Nat BY TypeFacts, Bounds DEF TypeInv
<1>3. cmds < MaxId BY <1>2, Bounds DEF Start
<1>4. PICK i \in 1..MaxId : i = cmds + 1 BY <1>2, <1>3, Bounds
<1>5. PICK k \in Keys, y \in {"info", "revoke"} :
        /\ k \in {NoKey, file[p]} /\ (x = "claim" => k = NoKey)
        /\ (y = "revoke" <=> x = "revoke")
        /\ cli' = [cli EXCEPT ![p] = [NoCmd EXCEPT !.cmd = x, !.pc = y, !.id = i, !.key = k]]
  <2>0. ASSUME NEW c \in CmdType, c.key = NoKey, NEW y
        PROVE  [c EXCEPT !.cmd = x, !.pc = y, !.id = i]
                 = [c EXCEPT !.cmd = x, !.pc = y, !.id = i, !.key = NoKey]
    BY <2>0 DEF CmdType
  <2>1. CASE x = "claim"
    <3>1. cli' = [cli EXCEPT ![p] = [NoCmd EXCEPT !.cmd = x, !.pc = "info", !.id = i]]
      BY <1>4, <2>1 DEF Start
    <3>2. [NoCmd EXCEPT !.cmd = x, !.pc = "info", !.id = i]
            = [NoCmd EXCEPT !.cmd = x, !.pc = "info", !.id = i, !.key = NoKey]
      BY <2>0, NoCmdOk
    <3> QED BY <2>1, <3>1, <3>2, Bounds
  <2>2. CASE x = "revoke"
    <3>1. cli' = [cli EXCEPT ![p] = [NoCmd EXCEPT !.cmd = x, !.pc = "revoke", !.id = i]]
      BY <1>4, <2>2 DEF Start
    <3>2. [NoCmd EXCEPT !.cmd = x, !.pc = "revoke", !.id = i]
            = [NoCmd EXCEPT !.cmd = x, !.pc = "revoke", !.id = i, !.key = NoKey]
      BY <2>0, NoCmdOk
    <3> QED BY <2>2, <3>1, <3>2, Bounds
  <2>3. CASE x \in {"unclaim", "reboot"}
    <3>1. PICK k \in {file[p], NoKey} :
            cli' = [cli EXCEPT ![p] = [NoCmd EXCEPT !.cmd = x, !.pc = "info", !.id = i, !.key = k]]
      BY <1>4, <2>3 DEF Start
    <3>2. k \in Keys BY <1>2, Bounds
    <3> QED BY <2>3, <3>1, <3>2
  <2> QED BY <2>1, <2>2, <2>3 DEF Kinds
<1>6. PICK c : c = [NoCmd EXCEPT !.cmd = x, !.pc = y, !.id = i, !.key = k] OBVIOUS
<1>7. c \in CmdType /\ c.cmd = x /\ c.pc = y /\ c.id = i /\ c.key = k
  <2>1. x \in Kinds \cup {"revoke", "none"} /\ y \in CliPc BY DEF CliPc
  <2> QED BY <1>6, <2>1, NoCmdOk DEF CmdType
<1>8. CmdOk(c) BY <1>5, <1>7 DEF CmdOk, Kinds
<1>9. faults' \in 0..MaxFaults BY <1>1, FaultType DEF TypeInv
<1>10. /\ file' \in [Pcs -> Keys] /\ owner' \in [Pcs -> Keys]
       /\ net' \subseteq Requests /\ sent' \subseteq Requests
       /\ printed' \subseteq Keys /\ forgone' \subseteq Keys /\ removed' \subseteq Keys
  BY <1>1 DEF TypeInv, TypeOK
<1>11. cmds' \in 0..MaxId /\ cmds <= cmds' BY <1>1, <1>2, <1>3, Bounds
<1>12. cli' = [cli EXCEPT ![p] = c] BY <1>5, <1>6
<1>13. TypeInv' /\ cli'[p] = c /\ \A q \in Pcs \ {p} : cli'[q] = cli[q]
  BY <1>1, <1>7, <1>8, <1>9, <1>10, <1>11, <1>12, CmdStep
<1> QED BY <1>1, <1>4, <1>5, <1>7, <1>11, <1>13 DEF CliSum, Active

LEMMA CommandStep ==
    ASSUME TypeInv, NEW p \in Pcs,
           CliStep(p) \/ Crash(p) \/ \E x \in Kinds \cup {"revoke"} : Start(p, x)
    PROVE  TypeInv' /\ CliSum(p)
<1>1. CASE GiveUp(p)
  <2>1. Exit(p) /\ NoFault /\ CliOnly /\ file' = file BY <1>1 DEF GiveUp
  <2> QED BY <2>1, PlainExit
<1> QED BY <1>1, InfoStep, PostStep, AnswerStep, TruncateStep, WriteStep, RevokeStep, CrashStep,
           StartStep DEF CliStep

-----------------------------------------------------------------------------
(* What a handler does, by its outcome.                                    *)
Refused(r) ==
    httpd'.key = NoKey /\ httpd'.status = 403 /\ UNCHANGED <<board, forgone, accepted, released>>
ClaimCase(r, o) ==
    /\ r.kind = "claim" /\ ~board.claimed /\ board' = Claimed(board, r.id, o)
    /\ httpd'.status = (IF o = "ok" THEN 200 ELSE 500)
    /\ httpd'.key = (IF o = "ok" THEN r.id ELSE NoKey)
    /\ forgone' = (IF o = "stored" THEN forgone \cup {r.id} ELSE forgone)
    /\ UNCHANGED <<accepted, released>>
UnclaimCase(r, o) ==
    /\ r.kind = "unclaim" /\ ProofOk(r) /\ board' = Unclaimed(board, o)
    /\ httpd'.status = (IF o = "ok" THEN 200 ELSE 500) /\ httpd'.key = NoKey
    /\ accepted' = (IF o = "ok" THEN [accepted EXCEPT ![r.id] = @ + 1] ELSE accepted)
    /\ released' = released \cup {r.key} /\ forgone' = forgone
RebootCase(r) ==
    /\ r.kind = "reboot" /\ ProofOk(r) /\ board' = Bumped(board)
    /\ httpd'.status = 200 /\ httpd'.key = NoKey
    /\ accepted' = [accepted EXCEPT ![r.id] = @ + 1] /\ UNCHANGED <<forgone, released>>

LEMMA RequestFields ==
    ASSUME NEW r \in Requests
    PROVE  r.kind \in Kinds /\ r.id \in 1..MaxId /\ r.id \in Keys /\ r.key \in Keys /\ r.nonce \in Nonce
BY Bounds DEF Requests

LEMMA HandleCases ==
    ASSUME TypeInv, NEW r \in net, Handle(r)
    PROVE  /\ r \in Requests /\ board.up /\ httpd.pc = "idle" /\ net' = net \ {r}
           /\ UNCHANGED <<sent, cli, file, cmds, printed, removed, owner, releasing>>
           /\ httpd' \in HandlerType /\ httpd'.pc = "reply" /\ httpd'.kind = r.kind /\ httpd'.id = r.id
           /\ faults' \in 0..MaxFaults
           /\ Refused(r) \/ RebootCase(r) \/ \E o \in Flash : ClaimCase(r, o) \/ UnclaimCase(r, o)
<1>1. r \in Requests BY TypeFacts DEF TypeInv
<1>2. /\ board.up /\ httpd.pc = "idle" /\ net' = net \ {r}
      /\ UNCHANGED <<sent, cli, file, cmds, printed, removed, owner, releasing>>
      /\ ClaimPost(r) \/ UnclaimPost(r) \/ RebootPost(r)
  BY DEF Handle
<1>3. ASSUME NEW st \in Statuses, NEW k \in Keys, Serve(r, st, k)
      PROVE  /\ httpd' \in HandlerType /\ httpd'.pc = "reply" /\ httpd'.kind = r.kind
             /\ httpd'.id = r.id /\ httpd'.status = st /\ httpd'.key = k
  BY <1>1, <1>3, RequestFields DEF Serve, HandlerType
<1>4. {200, 403, 500} \subseteq Statuses /\ NoKey \in Keys /\ r.id \in Keys
  BY <1>1, RequestFields, Bounds DEF Statuses
<1>5. ASSUME NEW o, Outcome(o) PROVE faults' \in 0..MaxFaults
  BY <1>5, FaultType DEF TypeInv, Outcome
<1>6. NoFault => faults' \in 0..MaxFaults BY FaultType DEF TypeInv
<1>7. CASE Refuse(r)
  <2>1. Serve(r, 403, NoKey) /\ NoFault /\ UNCHANGED <<board, forgone, accepted, released>>
    BY <1>7 DEF Refuse
  <2> QED BY <1>1, <1>2, <1>3, <1>4, <1>6, <2>1 DEF Refused
<1>8. CASE ClaimPost(r) /\ ~Refuse(r)
  <2>1. r.kind = "claim" /\ ~board.claimed /\ UNCHANGED <<accepted, released>>
    BY <1>8 DEF ClaimPost, Claimable
  <2>2. PICK o \in Flash :
          /\ Outcome(o) /\ board' = Claimed(board, r.id, o)
          /\ Serve(r, IF o = "ok" THEN 200 ELSE 500, IF o = "ok" THEN r.id ELSE NoKey)
          /\ forgone' = IF o = "stored" THEN forgone \cup {r.id} ELSE forgone
    BY <1>8 DEF ClaimPost, Flash
  <2>3. PICK st \in Statuses, k \in Keys : /\ st = IF o = "ok" THEN 200 ELSE 500
                                           /\ k = IF o = "ok" THEN r.id ELSE NoKey
    BY <1>4
  <2>4. Serve(r, st, k) BY <2>2, <2>3
  <2>5. ClaimCase(r, o) BY <1>3, <2>1, <2>2, <2>3, <2>4 DEF ClaimCase
  <2> QED BY <1>1, <1>2, <1>3, <1>5, <2>2, <2>4, <2>5
<1>9. CASE UnclaimPost(r) /\ ~Refuse(r)
  <2>1. r.kind = "unclaim" /\ ProofOk(r) /\ released' = released \cup {r.key} /\ forgone' = forgone
    BY <1>9 DEF UnclaimPost
  <2>2. PICK o \in Flash :
          /\ Outcome(o) /\ board' = Unclaimed(board, o)
          /\ Serve(r, IF o = "ok" THEN 200 ELSE 500, NoKey)
          /\ accepted' = IF o = "ok" THEN [accepted EXCEPT ![r.id] = @ + 1] ELSE accepted
    BY <1>9 DEF UnclaimPost, Flash
  <2>3. PICK st \in Statuses : st = IF o = "ok" THEN 200 ELSE 500 BY <1>4
  <2>4. Serve(r, st, NoKey) BY <2>2, <2>3
  <2>5. UnclaimCase(r, o) BY <1>3, <1>4, <2>1, <2>2, <2>3, <2>4 DEF UnclaimCase
  <2> QED BY <1>1, <1>2, <1>3, <1>4, <1>5, <2>2, <2>4, <2>5
<1>10. CASE RebootPost(r) /\ ~Refuse(r)
  <2>1. /\ r.kind = "reboot" /\ ProofOk(r) /\ board' = Bumped(board) /\ Serve(r, 200, NoKey) /\ NoFault
        /\ accepted' = [accepted EXCEPT ![r.id] = @ + 1] /\ UNCHANGED <<forgone, released>>
    BY <1>10 DEF RebootPost
  <2>2. RebootCase(r) BY <1>3, <1>4, <2>1 DEF RebootCase
  <2> QED BY <1>1, <1>2, <1>3, <1>4, <1>6, <2>1, <2>2
<1> QED BY <1>2, <1>7, <1>8, <1>9, <1>10

LEMMA TypeHandle ==
    ASSUME TypeInv, NEW r \in net, Handle(r)
    PROVE  TypeInv'
<1>0. TypeOK /\ HandlerOk /\ (\A p \in Pcs : CmdOk(cli[p])) BY DEF TypeInv
<1>1. /\ r \in Requests /\ board.up /\ httpd.pc = "idle" /\ net' = net \ {r}
      /\ UNCHANGED <<sent, cli, file, cmds, printed, removed, owner, releasing>>
      /\ httpd' \in HandlerType /\ httpd'.pc = "reply" /\ httpd'.kind = r.kind /\ httpd'.id = r.id
      /\ faults' \in 0..MaxFaults
      /\ Refused(r) \/ RebootCase(r) \/ \E o \in Flash : ClaimCase(r, o) \/ UnclaimCase(r, o)
  BY HandleCases
<1>2. /\ r.kind \in Kinds /\ r.id \in 1..MaxId /\ r.id \in Keys /\ r.key \in Keys
      /\ r.id # NoKey
  BY <1>1, RequestFields, Bounds
<1>3. /\ board \in BoardType /\ accepted \in [1..MaxId -> Nat] /\ released \subseteq Keys
      /\ forgone \subseteq Keys
  BY <1>0, TypeFacts DEF TypeOK
<1>4. CASE Refused(r)
  <2>1. UNCHANGED <<board, accepted, released, forgone>> BY <1>4 DEF Refused
  <2>2. TypeOK' BY <1>0, <1>1, <2>1 DEF TypeOK, HandlerType
  <2>3. HandlerOk' BY <1>1, <1>4, <2>1 DEF Refused, HandlerOk
  <2> QED BY <1>0, <1>1, <2>2, <2>3 DEF TypeInv, CmdOk
<1>5. ASSUME board' \in BoardType, board'.up, accepted' \in [1..MaxId -> Nat], released' \subseteq Keys,
             forgone' \subseteq Keys, r.kind # "claim" => httpd'.key = NoKey,
             r.kind = "claim" => (httpd'.status = 200 <=> httpd'.key # NoKey)
      PROVE  TypeInv'
  <2>1. TypeOK' BY <1>0, <1>1, <1>5 DEF TypeOK, BoardType, HandlerType
  <2>2. HandlerOk' BY <1>1, <1>5 DEF HandlerOk
  <2>3. (\A p \in Pcs : CmdOk(cli[p]))' BY <1>0, <1>1 DEF CmdOk
  <2> QED BY <2>1, <2>2, <2>3 DEF TypeInv
<1>6. [accepted EXCEPT ![r.id] = @ + 1] \in [1..MaxId -> Nat] BY <1>2, <1>3
<1>7. CASE RebootCase(r)
  <2>1. board' \in BoardType /\ board'.up BY <1>1, <1>3, <1>7, BumpedBoard DEF RebootCase
  <2> QED BY <1>3, <1>5, <1>6, <1>7, <2>1 DEF RebootCase
<1>8. ASSUME NEW o \in Flash, ClaimCase(r, o) PROVE TypeInv'
  <2>1. board' \in BoardType /\ board'.up BY <1>1, <1>2, <1>3, <1>8, ClaimedBoard DEF ClaimCase
  <2>2. forgone' \subseteq Keys BY <1>2, <1>3, <1>8 DEF ClaimCase
  <2>3. httpd'.status = 200 <=> httpd'.key # NoKey BY <1>2, <1>8 DEF ClaimCase
  <2> QED BY <1>3, <1>5, <1>8, <2>1, <2>2, <2>3 DEF ClaimCase
<1>9. ASSUME NEW o \in Flash, UnclaimCase(r, o) PROVE TypeInv'
  <2>1. board' \in BoardType /\ board'.up BY <1>1, <1>3, <1>9, UnclaimedBoard DEF UnclaimCase
  <2>2. released' \subseteq Keys /\ accepted' \in [1..MaxId -> Nat]
    BY <1>2, <1>3, <1>6, <1>9 DEF UnclaimCase
  <2> QED BY <1>3, <1>5, <1>9, <2>1, <2>2 DEF UnclaimCase
<1> QED BY <1>1, <1>4, <1>7, <1>8, <1>9

(* p's command takes the board's answer.                                   *)
Answered(p) ==
    /\ cli[p].pc = "wait" /\ cli[p].id = httpd.id /\ cli[p].cmd = httpd.kind
    /\ cli'[p].pc = "answer" /\ cli'[p].id = cli[p].id /\ cli'[p].cmd = cli[p].cmd
    /\ cli'[p].status = httpd.status
    /\ cli'[p].key = (IF httpd.kind = "claim" THEN httpd.key ELSE cli[p].key)
    /\ \A q \in Pcs \ {p} : cli'[q] = cli[q]
    /\ forgone' = forgone

LEMMA ReplyCases ==
    ASSUME TypeInv, NumberInv, Reply
    PROVE  /\ board.up /\ httpd.pc = "reply"
           /\ UNCHANGED <<board, net, sent, file, cmds, printed, removed, owner, released, accepted, releasing>>
           /\ httpd' \in HandlerType /\ httpd'.pc # "reply" /\ httpd'.key = NoKey
           /\ \/ \E p \in Pcs : Answered(p)
              \/ cli' = cli /\ forgone' = forgone \cup {httpd.key}
           /\ TypeInv'
<1>0. TypeOK /\ HandlerOk /\ (\A p \in Pcs : CmdOk(cli[p])) BY DEF TypeInv
<1>1. /\ board.up /\ httpd.pc = "reply"
      /\ UNCHANGED <<board, net, sent, file, cmds, printed, removed, owner, released, accepted, releasing>>
  BY DEF Reply
<1>2. httpd' \in HandlerType /\ httpd'.pc # "reply" /\ httpd'.key = NoKey /\ httpd'.kind = "reboot"
  <2>1. httpd' \in {NoHandler, [NoHandler EXCEPT !.pc = "restart"]} BY DEF Reply, AfterReply
  <2>2. /\ [NoHandler EXCEPT !.pc = "restart"] \in HandlerType
        /\ [NoHandler EXCEPT !.pc = "restart"].pc = "restart"
        /\ [NoHandler EXCEPT !.pc = "restart"].key = NoKey
        /\ [NoHandler EXCEPT !.pc = "restart"].kind = "reboot"
    BY NoHandlerOk DEF HandlerType
  <2> QED BY <2>1, <2>2, NoHandlerOk
<1>3. faults' \in 0..MaxFaults BY <1>0, FaultType DEF Reply
<1>4. httpd \in HandlerType /\ cli \in [Pcs -> CmdType] /\ forgone \subseteq Keys
  BY <1>0, TypeFacts DEF TypeOK
<1>5. httpd.status \in Statuses /\ httpd.key \in Keys /\ httpd.kind \in Kinds BY <1>4 DEF HandlerType
<1>6. ASSUME cli' \in [Pcs -> CmdType], \A q \in Pcs : CmdOk(cli'[q]), forgone' \subseteq Keys
      PROVE  TypeInv'
  <2>1. TypeOK' BY <1>0, <1>1, <1>2, <1>3, <1>6 DEF TypeOK, CmdType, HandlerType
  <2>2. HandlerOk' BY <1>1, <1>2 DEF HandlerOk
  <2>3. (\A q \in Pcs : CmdOk(cli[q]))' BY <1>6 DEF CmdOk
  <2> QED BY <2>1, <2>2, <2>3 DEF TypeInv
<1>7. ASSUME NEW p \in Pcs, Waiting(p, httpd), forgone' = forgone,
             cli' = [cli EXCEPT ![p].pc = "answer", ![p].status = httpd.status,
                                ![p].key = IF httpd.kind = "claim" THEN httpd.key ELSE @]
      PROVE  Answered(p) /\ TypeInv'
  <2>1. cli[p].pc = "wait" /\ cli[p].id = httpd.id BY <1>7 DEF Waiting
  <2>2. cli[p].cmd = httpd.kind BY <1>1, <2>1 DEF NumberInv, Same, Active
  <2>3. cli[p] \in CmdType /\ cli[p].key \in Keys BY <1>4, CmdFields
  <2>4. PICK k \in Keys : k = IF httpd.kind = "claim" THEN httpd.key ELSE cli[p].key
    BY <1>5, <2>3
  <2>5. PICK c : c = [cli[p] EXCEPT !.pc = "answer", !.status = httpd.status, !.key = k] OBVIOUS
  <2>6. cli' = [cli EXCEPT ![p] = c] BY <1>7, <2>4, <2>5
  <2>7. "answer" \in CliPc BY DEF CliPc
  <2>8. /\ c \in CmdType /\ c.pc = "answer" /\ c.status = httpd.status /\ c.key = k
        /\ c.id = cli[p].id /\ c.cmd = cli[p].cmd
    BY <1>5, <2>3, <2>5, <2>7 DEF CmdType
  <2>9. cli' \in [Pcs -> CmdType] /\ cli'[p] = c /\ \A q \in Pcs \ {p} : cli'[q] = cli[q]
    BY <1>4, <2>6, <2>8
  <2>10. c.cmd = "claim" => (c.status = 200 <=> c.key # NoKey)
    BY <1>0, <1>1, <2>2, <2>4, <2>8 DEF HandlerOk
  <2>11. CmdOk(c) BY <1>5, <2>2, <2>8, <2>10 DEF CmdOk, Kinds
  <2>12. \A q \in Pcs : CmdOk(cli'[q]) BY <1>0, <2>9, <2>11
  <2>13. TypeInv' BY <1>4, <1>6, <1>7, <2>9, <2>12
  <2> QED BY <1>7, <2>1, <2>2, <2>4, <2>8, <2>9, <2>13 DEF Answered
<1>8. ASSUME cli' = cli, forgone' = forgone \cup {httpd.key} PROVE TypeInv'
  BY <1>0, <1>4, <1>5, <1>6, <1>8
<1>9. \/ \E p \in Pcs : /\ Waiting(p, httpd) /\ forgone' = forgone
                        /\ cli' = [cli EXCEPT ![p].pc = "answer", ![p].status = httpd.status,
                                     ![p].key = IF httpd.kind = "claim" THEN httpd.key ELSE @]
      \/ cli' = cli /\ forgone' = forgone \cup {httpd.key}
  BY DEF Reply
<1> QED BY <1>1, <1>2, <1>7, <1>8, <1>9

(* The board goes down, by its own restart or without power.               *)
LEMMA DownStep ==
    ASSUME TypeInv, Restart \/ PowerLoss
    PROVE  /\ board' = [board EXCEPT !.up = FALSE] /\ net' = {} /\ httpd' = NoHandler
           /\ board' \in BoardType /\ board'.up = FALSE
           /\ board'.nvs = board.nvs /\ board'.psk = board.psk /\ board'.claimed = board.claimed
           /\ board'.boot = board.boot /\ board'.ctr = board.ctr
           /\ forgone' = (IF httpd.pc = "reply" THEN forgone \cup {httpd.key} ELSE forgone)
           /\ UNCHANGED <<sent, cli, file, cmds, printed, removed, owner, released, accepted, releasing>>
           /\ TypeInv'
<1>0. TypeOK /\ HandlerOk /\ (\A p \in Pcs : CmdOk(cli[p])) BY DEF TypeInv
<1>1. /\ board' = [board EXCEPT !.up = FALSE] /\ net' = {} /\ httpd' = NoHandler
      /\ forgone' = (IF httpd.pc = "reply" THEN forgone \cup {httpd.key} ELSE forgone)
      /\ UNCHANGED <<sent, cli, file, cmds, printed, removed, owner, released, accepted, releasing>>
  BY DEF Restart, PowerLoss, Down
<1>2. board \in BoardType /\ httpd.key \in Keys BY <1>0, TypeFacts DEF HandlerType
<1>3. /\ board' \in BoardType /\ board'.up = FALSE
      /\ board'.nvs = board.nvs /\ board'.psk = board.psk /\ board'.claimed = board.claimed
      /\ board'.boot = board.boot /\ board'.ctr = board.ctr
  BY <1>1, <1>2, DownBoard
<1>4. faults' \in 0..MaxFaults BY <1>0, FaultType DEF Restart, PowerLoss
<1>5. forgone' \subseteq Keys BY <1>0, <1>1, <1>2 DEF TypeOK
<1>6. TypeOK' BY <1>0, <1>1, <1>3, <1>4, <1>5, NoHandlerOk DEF TypeOK, BoardType, HandlerType
<1>7. HandlerOk' BY <1>1, <1>3, NoHandlerOk DEF HandlerOk
<1>8. (\A p \in Pcs : CmdOk(cli[p]))' BY <1>0, <1>1 DEF CmdOk
<1> QED BY <1>1, <1>3, <1>6, <1>7, <1>8 DEF TypeInv

(* auth_init at boot, with the key that flash still holds.                 *)
LEMMA BootStep ==
    ASSUME TypeInv, Boot
    PROVE  /\ ~board.up /\ board' \in BoardType /\ board'.up = TRUE
           /\ board'.psk = board'.nvs /\ board'.claimed = (board'.nvs # NoKey)
           /\ board'.boot = board.boot + 1 /\ board'.ctr = 0
           /\ \/ board'.nvs = board.nvs /\ released' = released
              \/ board'.nvs = NoKey /\ released' = released \cup {board.nvs}
           /\ UNCHANGED <<httpd, net, sent, cli, file, cmds, printed, forgone, removed, owner, accepted, releasing>>
           /\ TypeInv'
<1>0. TypeOK /\ HandlerOk /\ (\A p \in Pcs : CmdOk(cli[p])) BY DEF TypeInv
<1>1. /\ ~board.up
      /\ UNCHANGED <<httpd, net, sent, cli, file, cmds, printed, forgone, removed, owner, accepted, releasing>>
      /\ \/ board' = AuthInit(board) /\ released' = released
         \/ board' = AuthInit([board EXCEPT !.nvs = NoKey]) /\ released' = released \cup {board.nvs}
  BY DEF Boot
<1>2. board \in BoardType /\ board.nvs \in Keys BY <1>0, TypeFacts, BoardFields
<1>3. /\ board' \in BoardType /\ board'.up = TRUE
      /\ board'.psk = board'.nvs /\ board'.claimed = (board'.nvs # NoKey)
      /\ board'.boot = board.boot + 1 /\ board'.ctr = 0
      /\ \/ board'.nvs = board.nvs /\ released' = released
         \/ board'.nvs = NoKey /\ released' = released \cup {board.nvs}
  <2>1. CASE board' = AuthInit(board) /\ released' = released BY <1>2, <2>1, BootedBoard
  <2>2. CASE board' = AuthInit([board EXCEPT !.nvs = NoKey]) /\ released' = released \cup {board.nvs}
    <3>1. PICK e : e = [board EXCEPT !.nvs = NoKey] OBVIOUS
    <3>2. e \in BoardType /\ e.nvs = NoKey /\ e.boot = board.boot BY <1>2, <3>1, ErasedBoard
    <3>3. board' = AuthInit(e) BY <2>2, <3>1
    <3> QED BY <2>2, <3>2, <3>3, BootedBoard
  <2> QED BY <1>1, <2>1, <2>2
<1>4. faults' \in 0..MaxFaults BY <1>0, FaultType DEF Boot
<1>5. released' \subseteq Keys BY <1>0, <1>2, <1>3 DEF TypeOK
<1>6. TypeOK' BY <1>0, <1>1, <1>3, <1>4, <1>5 DEF TypeOK, BoardType
<1>7. HandlerOk' BY <1>0, <1>1, <1>3 DEF HandlerOk
<1>8. (\A p \in Pcs : CmdOk(cli[p]))' BY <1>0, <1>1 DEF CmdOk
<1> QED BY <1>1, <1>3, <1>6, <1>7, <1>8 DEF TypeInv

(* A request is lost, or delivered again; the rest of the state stays.     *)
NetSum ==
    /\ UNCHANGED <<board, httpd, cli, file, cmds, printed, forgone, removed, owner, released, accepted, sent>>
    /\ net' \subseteq net \cup sent /\ (\A r \in net' : r \in net \/ r \in sent)

LEMMA NetworkStep ==
    ASSUME TypeInv, (\E r \in net : LoseRequest(r)) \/ (\E r \in sent : Repeat(r))
    PROVE  NetSum /\ TypeInv'
<1>0. TypeOK /\ HandlerOk /\ (\A p \in Pcs : CmdOk(cli[p])) BY DEF TypeInv
<1>1. NetSum /\ releasing' = releasing /\ Fault BY DEF LoseRequest, Repeat, Others, NetSum
<1>2. faults' \in 0..MaxFaults BY <1>0, <1>1, FaultType
<1>3. TypeOK' BY <1>0, <1>1, <1>2 DEF TypeOK, NetSum
<1>4. HandlerOk' BY <1>0, <1>1 DEF HandlerOk, NetSum
<1>5. (\A p \in Pcs : CmdOk(cli[p]))' BY <1>0, <1>1 DEF CmdOk, NetSum
<1> QED BY <1>1, <1>3, <1>4, <1>5 DEF TypeInv

-----------------------------------------------------------------------------
(* The numbers of the requests.                                            *)

(* No command is started and no new request is sent.                       *)
LEMMA NumberFrame ==
    ASSUME TypeInv, NumberInv, sent' = sent, net' \subseteq net \cup sent, cmds' = cmds,
           \A p \in Pcs : Active(p)' => /\ Active(p)
                                        /\ cli'[p].id = cli[p].id /\ cli'[p].cmd = cli[p].cmd
                                        /\ cli'[p].pc \in {"info", "post"} => cli'[p].pc = cli[p].pc,
           httpd'.pc = "reply" => httpd'.id <= cmds /\ \A p \in Pcs : Same(httpd'.id, httpd'.kind, p)
    PROVE  NumberInv'
<1>1. Reqs' \subseteq Reqs BY DEF Reqs
<1>2. (\A r \in net : r.kind = "claim" \/ r \in sent)' BY DEF NumberInv
<1>3. (\A r \in sent : r.kind # "claim")' BY DEF NumberInv
<1>4. ASSUME NEW i, NEW k, NEW p \in Pcs, Same(i, k, p)
      PROVE  Same(i, k, p)'
  BY <1>4 DEF Same, Active
<1>5. (\A r \in Reqs : r.id <= cmds /\ \A p \in Pcs : Same(r.id, r.kind, p))'
  <2> SUFFICES ASSUME NEW r \in Reqs' PROVE r.id <= cmds' /\ \A p \in Pcs : Same(r.id, r.kind, p)'
    OBVIOUS
  <2>1. r.id <= cmds /\ \A p \in Pcs : Same(r.id, r.kind, p) BY <1>1 DEF NumberInv
  <2> QED BY <1>4, <2>1
<1>6. (httpd.pc = "reply" => httpd.id <= cmds /\ \A p \in Pcs : Same(httpd.id, httpd.kind, p))'
  <2> SUFFICES ASSUME httpd'.pc = "reply"
               PROVE  httpd'.id <= cmds' /\ \A p \in Pcs : Same(httpd.id, httpd.kind, p)'
    OBVIOUS
  <2>1. httpd'.id <= cmds /\ \A p \in Pcs : Same(httpd'.id, httpd'.kind, p) OBVIOUS
  <2> QED BY <2>1 DEF Same, Active
<1>7. (\A p \in Pcs : Active(p) => cli[p].id <= cmds)' BY DEF NumberInv
<1>8. (\A p, q \in Pcs : p # q /\ Active(p) /\ Active(q) => cli[p].id # cli[q].id)'
  BY DEF NumberInv
<1>9. (\A r, s \in Reqs : r.id = s.id => r = s)' BY <1>1 DEF NumberInv
<1> QED BY <1>2, <1>3, <1>5, <1>6, <1>7, <1>8, <1>9 DEF NumberInv

LEMMA NumberCommand ==
    ASSUME TypeInv, NumberInv, NEW p \in Pcs, CliSum(p), TypeInv'
    PROVE  NumberInv'
<1>0. /\ cmds \in Nat /\ cmds' \in Nat /\ cmds <= cmds' /\ net \subseteq Requests /\ sent \subseteq Requests
      /\ cli \in [Pcs -> CmdType] /\ httpd' = httpd /\ httpd \in HandlerType
  <2>1. cmds \in 0..MaxId /\ cmds' \in 0..MaxId BY DEF TypeInv, TypeOK
  <2>2. cmds <= cmds' /\ httpd' = httpd BY DEF CliSum
  <2> QED BY <2>1, <2>2, TypeFacts, Bounds DEF TypeInv
<1>1. \A q \in Pcs \ {p} : cli'[q] = cli[q] BY DEF CliSum
<1>2. Active(p)' => \/ Active(p) /\ cli'[p].id = cli[p].id /\ cli'[p].cmd = cli[p].cmd
                    \/ ~Active(p) /\ cmds' = cmds + 1 /\ cli'[p].id = cmds + 1
  BY DEF CliSum, Active
<1>3. Active(p) /\ cli'[p].pc \in {"info", "post"} => cli[p].pc = "info" BY DEF CliSum
<1>4. \A r \in Reqs : r.id \in Nat /\ r.id <= cmds
  <2>1. \A r \in Reqs : r \in Requests BY <1>0 DEF Reqs
  <2>2. \A r \in Reqs : r.id \in Nat BY <2>1, RequestFields, Bounds
  <2> QED BY <2>2 DEF NumberInv
<1>5. \A q \in Pcs : cli[q].id \in Nat BY <1>0, CmdFields, Bounds
<1>6. httpd.id \in Nat BY <1>0, Bounds DEF HandlerType
<1>7. ASSUME NEW i \in Nat, i <= cmds, NEW k, NEW q \in Pcs, Same(i, k, q)
      PROVE  Same(i, k, q)'
  <2>1. CASE q # p BY <1>1, <1>7, <2>1 DEF Same, Active
  <2>2. CASE q = p
    <3> SUFFICES ASSUME Active(p)', cli'[p].id = i
                 PROVE  cli'[p].cmd = k /\ cli'[p].pc \notin {"info", "post"}
      BY <2>2 DEF Same
    <3>1. i # cmds + 1 BY <1>0, <1>7
    <3>2. Active(p) /\ cli'[p].id = cli[p].id /\ cli'[p].cmd = cli[p].cmd BY <1>2, <3>1
    <3>3. cli[p].cmd = k /\ cli[p].pc \notin {"info", "post"} BY <1>7, <2>2, <3>2 DEF Same
    <3> QED BY <1>3, <3>2, <3>3
  <2> QED BY <2>1, <2>2
<1>8. (\A q \in Pcs : Active(q) => cli[q].id <= cmds)'
  <2> SUFFICES ASSUME NEW q \in Pcs, Active(q)' PROVE cli'[q].id <= cmds' OBVIOUS
  <2>1. CASE q # p
    <3>1. Active(q) /\ cli'[q] = cli[q] BY <1>1, <2>1 DEF Active
    <3>2. cli[q].id <= cmds BY <3>1 DEF NumberInv
    <3> QED BY <1>0, <1>5, <3>1, <3>2
  <2>2. CASE q = p
    <3>1. Active(p) => cli[p].id <= cmds BY DEF NumberInv
    <3> QED BY <1>0, <1>2, <1>5, <2>2, <3>1
  <2> QED BY <2>1, <2>2
<1>9. (\A a, b \in Pcs : a # b /\ Active(a) /\ Active(b) => cli[a].id # cli[b].id)'
  <2>1. ASSUME NEW q \in Pcs, q # p, Active(q)', Active(p)' PROVE cli'[q].id # cli'[p].id
    <3>1. Active(q) /\ cli'[q] = cli[q] BY <1>1, <2>1 DEF Active
    <3>2. cli[q].id <= cmds BY <3>1 DEF NumberInv
    <3>3. CASE Active(p) /\ cli'[p].id = cli[p].id BY <2>1, <3>1, <3>3 DEF NumberInv
    <3>4. CASE cli'[p].id = cmds + 1 BY <1>0, <1>5, <3>1, <3>2, <3>4
    <3> QED BY <1>2, <2>1, <3>3, <3>4
  <2>2. ASSUME NEW a \in Pcs, NEW b \in Pcs, a # b, a # p, b # p, Active(a)', Active(b)'
        PROVE  cli'[a].id # cli'[b].id
    BY <1>1, <2>2 DEF NumberInv, Active
  <2> QED BY <2>1, <2>2
<1>10. (httpd.pc = "reply" => httpd.id <= cmds /\ \A q \in Pcs : Same(httpd.id, httpd.kind, q))'
  <2> SUFFICES ASSUME httpd.pc = "reply"
               PROVE  httpd.id <= cmds' /\ \A q \in Pcs : Same(httpd.id, httpd.kind, q)'
    BY <1>0
  <2>1. httpd.id <= cmds /\ \A q \in Pcs : Same(httpd.id, httpd.kind, q) BY DEF NumberInv
  <2>2. PICK i \in Nat, k \in {httpd.kind} : i = httpd.id /\ k = httpd.kind BY <1>6
  <2>3. \A q \in Pcs : Same(i, k, q)' BY <1>7, <2>1, <2>2
  <2>4. httpd'.id = i /\ httpd'.kind = k BY <1>0, <2>2
  <2> QED BY <1>0, <2>1, <2>2, <2>3, <2>4 DEF Same
<1>11. CASE net' = net /\ sent' = sent
  <2>1. (\A r \in net : r.kind = "claim" \/ r \in sent)' BY <1>11 DEF NumberInv
  <2>2. (\A r \in sent : r.kind # "claim")' BY <1>11 DEF NumberInv
  <2>3. Reqs' = Reqs BY <1>11 DEF Reqs
  <2>4. (\A r \in Reqs : r.id <= cmds /\ \A q \in Pcs : Same(r.id, r.kind, q))'
    <3> SUFFICES ASSUME NEW r \in Reqs PROVE r.id <= cmds' /\ \A q \in Pcs : Same(r.id, r.kind, q)'
      BY <2>3
    <3>1. r.id <= cmds /\ \A q \in Pcs : Same(r.id, r.kind, q) BY DEF NumberInv
    <3> QED BY <1>0, <1>4, <1>7, <3>1
  <2>5. (\A r, s \in Reqs : r.id = s.id => r = s)' BY <2>3 DEF NumberInv
  <2> QED BY <1>8, <1>9, <1>10, <2>1, <2>2, <2>4, <2>5 DEF NumberInv
<1>12. CASE /\ cli[p].pc = "post" /\ cli'[p].pc = "wait" /\ net' = net \cup {RequestOf(p)}
            /\ sent' = IF cli[p].cmd = "claim" THEN sent ELSE sent \cup {RequestOf(p)}
  <2>1. PICK x : x = RequestOf(p) OBVIOUS
  <2>2. x \in Requests /\ x.id = cli[p].id /\ x.kind = cli[p].cmd BY <1>12, <2>1, RequestType
  <2>3. Active(p) /\ Active(p)' /\ cli'[p].id = cli[p].id /\ cli'[p].cmd = cli[p].cmd
    BY <1>2, <1>12 DEF Active
  <2>4. (\A r \in net : r.kind = "claim" \/ r \in sent)' BY <1>12, <2>1, <2>2 DEF NumberInv
  <2>5. (\A r \in sent : r.kind # "claim")' BY <1>12, <2>1, <2>2 DEF NumberInv
  <2>6. \A r \in Reqs' : r \in Reqs \/ r = x BY <1>12, <2>1 DEF Reqs
  <2>7. (\A r \in Reqs : r.id <= cmds /\ \A q \in Pcs : Same(r.id, r.kind, q))'
    <3> SUFFICES ASSUME NEW r \in Reqs' PROVE r.id <= cmds' /\ \A q \in Pcs : Same(r.id, r.kind, q)'
      OBVIOUS
    <3>1. CASE r \in Reqs
      <4>1. r.id <= cmds /\ \A q \in Pcs : Same(r.id, r.kind, q) BY <3>1 DEF NumberInv
      <4> QED BY <1>0, <1>4, <1>7, <3>1, <4>1
    <3>2. CASE r = x
      <4>1. r.id <= cmds' BY <1>8, <2>2, <2>3, <3>2
      <4>2. ASSUME NEW q \in Pcs PROVE Same(r.id, r.kind, q)'
        <5>1. CASE q = p BY <1>12, <2>2, <2>3, <3>2, <5>1 DEF Same
        <5>2. CASE q # p
          <6>1. Active(q)' => cli'[q].id # cli'[p].id BY <1>9, <2>3, <5>2
          <6> QED BY <2>2, <2>3, <3>2, <6>1 DEF Same
        <5> QED BY <5>1, <5>2
      <4> QED BY <4>1, <4>2
    <3> QED BY <2>6, <3>1, <3>2
  <2>8. (\A r, s \in Reqs : r.id = s.id => r = s)'
    <3>1. ASSUME NEW r \in Reqs PROVE r.id # x.id
      <4>1. Same(r.id, r.kind, p) BY DEF NumberInv
      <4> QED BY <1>12, <2>2, <2>3, <4>1 DEF Same
    <3>2. \A r, s \in Reqs : r.id = s.id => r = s BY DEF NumberInv
    <3> QED BY <2>6, <3>1, <3>2
  <2> QED BY <1>8, <1>9, <1>10, <2>4, <2>5, <2>7, <2>8 DEF NumberInv
<1> QED BY <1>11, <1>12 DEF CliSum

LEMMA NumberHandle ==
    ASSUME TypeInv, NumberInv, NEW r \in net, Handle(r)
    PROVE  NumberInv'
<1>1. /\ net' = net \ {r} /\ sent' = sent /\ cli' = cli /\ cmds' = cmds
      /\ httpd'.id = r.id /\ httpd'.kind = r.kind
  BY HandleCases
<1>2. r.id <= cmds /\ \A p \in Pcs : Same(r.id, r.kind, p) BY DEF NumberInv, Reqs
<1> QED BY <1>1, <1>2, NumberFrame DEF Active

LEMMA NumberReply ==
    ASSUME TypeInv, NumberInv, Reply
    PROVE  NumberInv'
<1>1. /\ net' = net /\ sent' = sent /\ cmds' = cmds /\ httpd'.pc # "reply"
      /\ (\E p \in Pcs : Answered(p)) \/ cli' = cli
  BY ReplyCases
<1>2. \A p \in Pcs : Active(p)' => /\ Active(p)
                                   /\ cli'[p].id = cli[p].id /\ cli'[p].cmd = cli[p].cmd
                                   /\ cli'[p].pc \in {"info", "post"} => cli'[p].pc = cli[p].pc
  <2>1. CASE cli' = cli BY <2>1 DEF Active
  <2>2. ASSUME NEW p \in Pcs, Answered(p), NEW q \in Pcs, Active(q)'
        PROVE  /\ Active(q) /\ cli'[q].id = cli[q].id /\ cli'[q].cmd = cli[q].cmd
               /\ cli'[q].pc \in {"info", "post"} => cli'[q].pc = cli[q].pc
    BY <2>2 DEF Active, Answered
  <2> QED BY <1>1, <2>1, <2>2
<1> QED BY <1>1, <1>2, NumberFrame

LEMMA NumberDown == ASSUME TypeInv, NumberInv, Restart \/ PowerLoss PROVE NumberInv'
<1>1. net' = {} /\ sent' = sent /\ cmds' = cmds /\ cli' = cli /\ httpd' = NoHandler BY DownStep
<1> QED BY <1>1, NumberFrame, NoHandlerOk DEF Active

LEMMA NumberBoot == ASSUME TypeInv, NumberInv, Boot PROVE NumberInv'
<1>1. net' = net /\ sent' = sent /\ cmds' = cmds /\ cli' = cli /\ httpd' = httpd BY BootStep
<1>2. httpd'.pc = "reply" => httpd'.id <= cmds /\ \A p \in Pcs : Same(httpd'.id, httpd'.kind, p)
  BY <1>1 DEF NumberInv
<1> QED BY <1>1, <1>2, NumberFrame DEF Active

LEMMA NumberNet == ASSUME TypeInv, NumberInv, NetSum PROVE NumberInv'
<1>1. net' \subseteq net \cup sent /\ sent' = sent /\ cmds' = cmds /\ cli' = cli /\ httpd' = httpd
  BY DEF NetSum
<1>2. httpd'.pc = "reply" => httpd'.id <= cmds /\ \A p \in Pcs : Same(httpd'.id, httpd'.kind, p)
  BY <1>1 DEF NumberInv
<1> QED BY <1>1, <1>2, NumberFrame DEF Active

-----------------------------------------------------------------------------
(* Keys are fresh: a claim that can still be carried out gives the board a *)
(* key that is nowhere yet.                                                *)
LEMMA UsedNoKey == TypeInv => Used(NoKey)
<1> SUFFICES ASSUME TypeInv PROVE Used(NoKey) OBVIOUS
<1>1. cmds \in 0..MaxId /\ net \subseteq Requests /\ cli \in [Pcs -> CmdType] BY TypeFacts DEF TypeInv
<1>2. NoKey <= cmds BY <1>1, Bounds
<1>3. \A r \in net : r.id # NoKey BY <1>1, RequestFields, Bounds
<1>4. \A p \in Pcs : cli[p].id # NoKey BY <1>1, CmdFields, Bounds
<1> QED BY <1>2, <1>3, <1>4 DEF Used

LEMMA UsedFrame ==
    ASSUME TypeInv', UsedInv, \A k \in Keys : Used(k) => Used(k)',
           \A k \in Keys : Present(k)' => Present(k) \/ k = NoKey \/ Used(k)'
    PROVE  UsedInv'
<1> SUFFICES ASSUME NEW k \in Keys, Present(k)' PROVE Used(k)' BY DEF UsedInv
<1>1. CASE Present(k) BY <1>1 DEF UsedInv
<1>2. CASE k = NoKey
  <2>1. Used(NoKey)' BY UsedNoKey, PTL
  <2>2. Used(k)' <=> Used(NoKey)' BY <1>2
  <2> QED BY <2>1, <2>2
<1> QED BY <1>1, <1>2

(* A key stays used while no command starts and no claim is sent.          *)
LEMMA UsedStays ==
    ASSUME cmds' = cmds, \A r \in net' : r.kind = "claim" => r \in net,
           \A p \in Pcs : cli'[p].pc \in {"info", "post"} => cli'[p] = cli[p],
           NEW k, Used(k)
    PROVE  Used(k)'
BY DEF Used

LEMMA UsedCommand ==
    ASSUME TypeInv, UsedInv, NEW p \in Pcs, CliSum(p), TypeInv'
    PROVE  UsedInv' /\ \A k \in Keys : Used(k) => Used(k)'
<1>0. cmds \in Nat /\ cmds' \in Nat /\ cmds <= cmds' /\ \A k \in Keys : k \in Nat
  <2>1. cmds \in 0..MaxId /\ cmds' \in 0..MaxId BY DEF TypeInv, TypeOK
  <2>2. cmds <= cmds' BY DEF CliSum
  <2> QED BY <2>1, <2>2, Bounds DEF Keys
<1>1. ASSUME NEW k \in Keys, Used(k) PROVE Used(k)'
  <2>0. k \in Nat /\ k <= cmds BY <1>0, <1>1 DEF Used
  <2>1. k <= cmds' BY <1>0, <2>0
  <2>2. ASSUME NEW r \in net', r.kind = "claim" PROVE r.id # k
    <3>1. CASE r \in net BY <1>1, <2>2, <3>1 DEF Used
    <3>2. CASE r \notin net
      <4>1. cli[p].pc = "post" /\ r = RequestOf(p) BY <3>2 DEF CliSum
      <4>2. r.id = cli[p].id /\ r.kind = cli[p].cmd BY <4>1, RequestType
      <4> QED BY <1>1, <2>2, <4>1, <4>2 DEF Used
    <3> QED BY <3>1, <3>2
  <2>3. ASSUME NEW q \in Pcs, cli'[q].cmd = "claim", cli'[q].pc \in {"info", "post"}
        PROVE  cli'[q].id # k
    <3>1. CASE q # p
      <4>1. cli'[q] = cli[q] BY <3>1 DEF CliSum
      <4> QED BY <1>1, <2>3, <4>1 DEF Used
    <3>2. CASE q = p
      <4>1. \/ Active(p) /\ cli'[p].id = cli[p].id /\ cli'[p].cmd = cli[p].cmd /\ cli[p].pc = "info"
            \/ cli'[p].id = cmds + 1
        BY <2>3, <3>2 DEF CliSum
      <4>2. k # cmds + 1 BY <1>0, <2>0
      <4> QED BY <1>1, <2>3, <3>2, <4>1, <4>2 DEF Used
    <3> QED BY <3>1, <3>2
  <2> QED BY <2>1, <2>2, <2>3 DEF Used
<1>2. ASSUME NEW k \in Keys, Present(k)' PROVE Present(k) \/ k = NoKey
  <2>1. board' = board /\ httpd' = httpd BY DEF CliSum
  <2>2. CASE k \in {board.nvs, board.psk, httpd.key}' BY <2>1, <2>2 DEF Present
  <2>3. ASSUME NEW q \in Pcs, k \in {file'[q], cli'[q].key} PROVE Present(k) \/ k = NoKey
    <3>1. CASE q # p
      <4>1. cli'[q] = cli[q] /\ file'[q] = file[q] BY <3>1 DEF CliSum
      <4> QED BY <2>3, <4>1 DEF Present
    <3>2. CASE q = p
      <4>1. cli'[p].key \in {NoKey, cli[p].key, file[p]} /\ file'[p] \in {NoKey, file[p], cli[p].key}
        BY DEF CliSum
      <4> QED BY <2>3, <3>2, <4>1 DEF Present
    <3> QED BY <3>1, <3>2
  <2> QED BY <1>2, <2>2, <2>3 DEF Present
<1> QED BY <1>1, <1>2, UsedFrame

LEMMA UsedHandle ==
    ASSUME TypeInv, NumberInv, UsedInv, NEW r \in net, Handle(r)
    PROVE  /\ UsedInv' /\ \A k \in Keys : Used(k) => Used(k)'
           /\ r.kind = "claim" => Used(r.id)' /\ ~Present(r.id)
<1>1. /\ r \in Requests /\ net' = net \ {r} /\ cli' = cli /\ file' = file /\ cmds' = cmds
      /\ Refused(r) \/ RebootCase(r) \/ \E o \in Flash : ClaimCase(r, o) \/ UnclaimCase(r, o)
  BY HandleCases
<1>2. TypeInv' BY TypeHandle
<1>3. ASSUME NEW k \in Keys, Used(k) PROVE Used(k)' BY <1>1, <1>3, UsedStays
<1>4. ASSUME r.kind = "claim" PROVE Used(r.id)' /\ ~Present(r.id)
  <2>1. r.id <= cmds /\ \A p \in Pcs : Same(r.id, r.kind, p) BY DEF NumberInv, Reqs
  <2>2. \A s \in net : s.id = r.id => s = r BY DEF NumberInv, Reqs
  <2>3. \A p \in Pcs : cli[p].pc \in {"info", "post"} => cli[p].id # r.id
    BY <2>1 DEF Same, Active
  <2>4. Used(r.id)' BY <1>1, <2>1, <2>2, <2>3 DEF Used
  <2>5. ~Used(r.id) BY <1>4 DEF Used
  <2>6. r.id \in Keys BY <1>1, RequestFields
  <2> QED BY <2>4, <2>5, <2>6 DEF UsedInv
<1>5. board \in BoardType /\ r.id \in Keys BY <1>1, TypeFacts, RequestFields DEF TypeInv
<1>6. /\ board'.nvs \in {board.nvs, NoKey} \/ (r.kind = "claim" /\ board'.nvs = r.id)
      /\ board'.psk \in {board.psk, NoKey} \/ (r.kind = "claim" /\ board'.psk = r.id)
      /\ httpd'.key = NoKey \/ (r.kind = "claim" /\ httpd'.key = r.id)
  <2>1. CASE Refused(r) BY <2>1 DEF Refused
  <2>2. CASE RebootCase(r) BY <1>5, <2>2, BumpedBoard DEF RebootCase
  <2>3. ASSUME NEW o \in Flash, ClaimCase(r, o)
        PROVE  /\ r.kind = "claim" /\ board'.nvs \in {board.nvs, r.id} /\ board'.psk = r.id
               /\ httpd'.key \in {NoKey, r.id}
    BY <1>5, <2>3, ClaimedBoard DEF ClaimCase
  <2>4. ASSUME NEW o \in Flash, UnclaimCase(r, o)
        PROVE  board'.nvs \in {board.nvs, NoKey} /\ board'.psk \in {board.psk, NoKey} /\ httpd'.key = NoKey
    BY <1>5, <2>4, UnclaimedBoard DEF UnclaimCase
  <2> QED BY <1>1, <2>1, <2>2, <2>3, <2>4
<1>7. ASSUME NEW k \in Keys, Present(k)' PROVE Present(k) \/ k = NoKey \/ Used(k)'
  <2>1. CASE k \in {board'.nvs, board'.psk, httpd'.key}
    <3>1. k \in {board.nvs, board.psk, NoKey} \/ (r.kind = "claim" /\ k = r.id) BY <1>6, <2>1
    <3>2. CASE r.kind = "claim" /\ k = r.id
      <4>1. Used(r.id)' BY <1>4, <3>2
      <4>2. k = r.id BY <3>2
      <4>3. Used(k)' <=> Used(r.id)' BY <4>2
      <4> QED BY <4>1, <4>3
    <3> QED BY <3>1, <3>2 DEF Present
  <2>2. CASE \E p \in Pcs : k \in {file'[p], cli'[p].key} BY <1>1, <2>2 DEF Present
  <2> QED BY <1>7, <2>1, <2>2 DEF Present
<1>8. UsedInv' BY <1>2, <1>3, <1>7, UsedFrame
<1> QED BY <1>3, <1>4, <1>8

(* The steps that neither start a command nor carry one out.               *)
LEMMA UsedOther ==
    ASSUME TypeInv, NumberInv, UsedInv,
           Reply \/ Restart \/ PowerLoss \/ Boot \/ (NetSum /\ TypeInv')
    PROVE  UsedInv' /\ \A k \in Keys : Used(k) => Used(k)'
<1>1. CASE Reply
  <2>1. /\ UNCHANGED <<board, net, cmds, file>> /\ httpd'.key = NoKey /\ TypeInv'
        /\ (\E p \in Pcs : Answered(p)) \/ cli' = cli
    BY <1>1, ReplyCases
  <2>2. \A p \in Pcs : cli'[p].pc \in {"info", "post"} => cli'[p] = cli[p] BY <2>1 DEF Answered
  <2>3. \A p \in Pcs : cli'[p].key \in {cli[p].key, httpd.key}
    <3>1. CASE cli' = cli BY <3>1
    <3>2. ASSUME NEW p \in Pcs, Answered(p), NEW q \in Pcs PROVE cli'[q].key \in {cli[q].key, httpd.key}
      BY <3>2 DEF Answered
    <3> QED BY <2>1, <3>1, <3>2
  <2>4. \A k \in Keys : Used(k) => Used(k)' BY <2>1, <2>2, UsedStays
  <2>5. \A k \in Keys : Present(k)' => Present(k) \/ k = NoKey BY <2>1, <2>3 DEF Present
  <2> QED BY <2>1, <2>4, <2>5, UsedFrame
<1>2. CASE Restart \/ PowerLoss
  <2>1. /\ UNCHANGED <<cli, cmds, file>> /\ net' = {} /\ httpd' = NoHandler /\ TypeInv'
        /\ board'.nvs = board.nvs /\ board'.psk = board.psk
    BY <1>2, DownStep
  <2>2. \A k \in Keys : Used(k) => Used(k)' BY <2>1, UsedStays
  <2>3. \A k \in Keys : Present(k)' => Present(k) \/ k = NoKey BY <2>1, NoHandlerOk DEF Present
  <2> QED BY <2>1, <2>2, <2>3, UsedFrame
<1>3. CASE Boot
  <2>1. /\ UNCHANGED <<cli, cmds, file, net, httpd>> /\ TypeInv'
        /\ board'.nvs \in {board.nvs, NoKey} /\ board'.psk = board'.nvs
    BY <1>3, BootStep
  <2>2. \A k \in Keys : Used(k) => Used(k)' BY <2>1, UsedStays
  <2>3. \A k \in Keys : Present(k)' => Present(k) \/ k = NoKey BY <2>1 DEF Present
  <2> QED BY <2>1, <2>2, <2>3, UsedFrame
<1>4. CASE NetSum /\ TypeInv'
  <2>1. UNCHANGED <<cli, cmds, file, board, httpd>> BY <1>4 DEF NetSum
  <2>2. \A r \in net' : r.kind = "claim" => r \in net BY <1>4 DEF NetSum, NumberInv
  <2>3. \A k \in Keys : Used(k) => Used(k)' BY <2>1, <2>2, UsedStays
  <2>4. \A k \in Keys : Present(k)' => Present(k) \/ k = NoKey BY <2>1 DEF Present
  <2> QED BY <1>4, <2>3, <2>4, UsedFrame
<1> QED BY <1>1, <1>2, <1>3, <1>4

-----------------------------------------------------------------------------
(* The board keeps a key it has given away.                                *)
LEMMA GrantFrame ==
    ASSUME GrantInv, released \subseteq released', board'.nvs = board.nvs,
           board'.up => board.up /\ board'.psk = board.psk /\ (board.claimed => board'.claimed),
           \A k \in Keys : Granted(k)' => Granted(k) \/ k = NoKey
    PROVE  GrantInv'
<1>1. NoKey \in released' BY DEF GrantInv
<1>2. ASSUME NEW k \in Keys \ released', Granted(k)'
      PROVE  board'.nvs = k /\ (board'.up => board'.psk = k /\ board'.claimed)
  <2>1. k \in Keys \ released /\ k # NoKey BY <1>1
  <2>2. Granted(k) BY <1>2, <2>1
  <2>3. board.nvs = k /\ (board.up => board.psk = k /\ board.claimed) BY <2>1, <2>2 DEF GrantInv
  <2> QED BY <2>3
<1> QED BY <1>1, <1>2 DEF GrantInv

LEMMA GrantCommand ==
    ASSUME TypeInv, GrantInv, NEW p \in Pcs, CliSum(p)
    PROVE  GrantInv'
<1>1. board' = board /\ released' = released /\ httpd' = httpd BY DEF CliSum
<1>2. ASSUME NEW k \in Keys, NEW q \in Pcs, owner'[q] = k \/ (cli'[q].cmd = "claim" /\ cli'[q].key = k)
      PROVE  Granted(k) \/ k = NoKey
  <2>1. CASE q # p
    <3>1. cli'[q] = cli[q] /\ owner'[q] = owner[q] BY <2>1 DEF CliSum
    <3> QED BY <1>2, <3>1 DEF Granted
  <2>2. CASE q = p
    <3>1. /\ owner'[p] = owner[p] \/ (cli[p].cmd = "claim" /\ owner'[p] = cli[p].key)
          /\ cli'[p].cmd = "claim" =>
               cli'[p].key = NoKey \/ (cli[p].cmd = "claim" /\ cli'[p].key = cli[p].key)
      BY DEF CliSum
    <3> QED BY <1>2, <2>2, <3>1 DEF Granted
  <2> QED BY <2>1, <2>2
<1>3. \A k \in Keys : Granted(k)' => Granted(k) \/ k = NoKey BY <1>1, <1>2 DEF Granted
<1> QED BY <1>1, <1>3, GrantFrame

LEMMA GrantHandle ==
    ASSUME TypeInv, GrantInv, NEW r \in net, Handle(r)
    PROVE  GrantInv'
<1>1. /\ r \in Requests /\ board.up /\ httpd.pc = "idle" /\ cli' = cli /\ owner' = owner
      /\ Refused(r) \/ RebootCase(r) \/ \E o \in Flash : ClaimCase(r, o) \/ UnclaimCase(r, o)
  BY HandleCases
<1>2. httpd.key = NoKey BY <1>1 DEF TypeInv, HandlerOk
<1>3. \A k \in Keys : Granted(k)' => Granted(k) \/ k = httpd'.key BY <1>1 DEF Granted
<1>4. board \in BoardType /\ r.id \in Keys BY <1>1, TypeFacts, RequestFields DEF TypeInv
<1>5. NoKey \in released BY DEF GrantInv
<1>6. CASE Refused(r)
  <2>1. board' = board /\ released' = released /\ httpd'.key = NoKey BY <1>6 DEF Refused
  <2> QED BY <1>3, <2>1, GrantFrame
<1>7. CASE RebootCase(r)
  <2>1. released' = released /\ httpd'.key = NoKey /\ board' = Bumped(board) BY <1>7 DEF RebootCase
  <2>2. board'.nvs = board.nvs /\ board'.psk = board.psk /\ board'.claimed = board.claimed
    BY <1>4, <2>1, BumpedBoard
  <2> QED BY <1>1, <1>3, <2>1, <2>2, GrantFrame
<1>8. ASSUME NEW o \in Flash, ClaimCase(r, o) PROVE GrantInv'
  <2>1. /\ ~board.claimed /\ board' = Claimed(board, r.id, o) /\ released' = released
        /\ httpd'.key = IF o = "ok" THEN r.id ELSE NoKey
    BY <1>8 DEF ClaimCase
  <2>2. \A k \in Keys \ released : ~Granted(k) BY <1>1, <2>1 DEF GrantInv
  <2>3. o = "ok" => board'.nvs = r.id /\ board'.psk = r.id /\ board'.claimed
    <3>1. /\ Claimed(board, r.id, o).nvs = IF o = "failed" THEN board.nvs ELSE r.id
          /\ Claimed(board, r.id, o).psk = r.id /\ Claimed(board, r.id, o).claimed = (o = "ok")
      BY <1>4, ClaimedBoard
    <3> QED BY ONLY <2>1, <3>1
  <2>4. ASSUME NEW k \in Keys \ released', Granted(k)'
        PROVE  board'.nvs = k /\ (board'.up => board'.psk = k /\ board'.claimed)
    <3>1. k = httpd'.key /\ k # NoKey BY <1>3, <1>5, <2>1, <2>2, <2>4
    <3> QED BY <2>1, <2>3, <3>1
  <2> QED BY <1>5, <2>1, <2>4 DEF GrantInv
<1>9. ASSUME NEW o \in Flash, UnclaimCase(r, o) PROVE GrantInv'
  <2>1. r.key = board.psk /\ released' = released \cup {r.key} /\ httpd'.key = NoKey
    BY <1>9 DEF UnclaimCase, ProofOk
  <2>2. ASSUME NEW k \in Keys \ released', Granted(k)' PROVE FALSE
    <3>1. k \in Keys \ released /\ k # NoKey /\ k # board.psk BY <1>5, <2>1
    <3>2. Granted(k) BY <1>3, <2>1, <2>2, <3>1
    <3> QED BY <1>1, <3>1, <3>2 DEF GrantInv
  <2> QED BY <1>5, <2>1, <2>2 DEF GrantInv
<1> QED BY <1>1, <1>6, <1>7, <1>8, <1>9

LEMMA GrantOther ==
    ASSUME TypeInv, NumberInv, GrantInv, Reply \/ Restart \/ PowerLoss \/ Boot \/ NetSum
    PROVE  GrantInv'
<1>1. CASE Reply
  <2>1. /\ UNCHANGED <<board, owner, released>> /\ httpd'.key = NoKey
        /\ (\E p \in Pcs : Answered(p)) \/ cli' = cli
    BY <1>1, ReplyCases
  <2>2. ASSUME NEW q \in Pcs, cli'[q].cmd = "claim"
        PROVE  cli'[q].key = httpd.key \/ (cli[q].cmd = "claim" /\ cli'[q].key = cli[q].key)
    <3>1. CASE cli' = cli BY <2>2, <3>1
    <3>2. ASSUME NEW p \in Pcs, Answered(p)
          PROVE  cli'[q].key = httpd.key \/ (cli[q].cmd = "claim" /\ cli'[q].key = cli[q].key)
      BY <2>2, <3>2 DEF Answered
    <3> QED BY <2>1, <3>1, <3>2
  <2>3. \A k \in Keys : Granted(k)' => Granted(k) \/ k = NoKey BY <2>1, <2>2 DEF Granted
  <2> QED BY <2>1, <2>3, GrantFrame
<1>2. CASE Restart \/ PowerLoss
  <2>1. /\ UNCHANGED <<cli, owner, released>> /\ httpd' = NoHandler /\ board'.up = FALSE
        /\ board'.nvs = board.nvs
    BY <1>2, DownStep
  <2>2. \A k \in Keys : Granted(k)' => Granted(k) \/ k = NoKey BY <2>1, NoHandlerOk DEF Granted
  <2> QED BY <2>1, <2>2, GrantFrame
<1>3. CASE Boot
  <2>1. /\ UNCHANGED <<cli, owner, httpd>> /\ board'.psk = board'.nvs
        /\ board'.claimed = (board'.nvs # NoKey)
        /\ \/ board'.nvs = board.nvs /\ released' = released
           \/ board'.nvs = NoKey /\ released' = released \cup {board.nvs}
    BY <1>3, BootStep
  <2>2. NoKey \in released' BY <2>1 DEF GrantInv
  <2>3. ASSUME NEW k \in Keys \ released', Granted(k)'
        PROVE  board'.nvs = k /\ (board'.up => board'.psk = k /\ board'.claimed)
    <3>1. k \in Keys \ released /\ k # NoKey BY <2>1, <2>2
    <3>2. Granted(k) BY <2>1, <2>3 DEF Granted
    <3>3. board.nvs = k BY <3>1, <3>2 DEF GrantInv
    <3>4. board'.nvs = k BY <2>1, <2>3, <3>3
    <3>5. board'.claimed BY <2>1, <3>1, <3>4
    <3> QED BY <2>1, <3>4, <3>5
  <2> QED BY <2>2, <2>3 DEF GrantInv
<1>4. CASE NetSum
  <2>1. UNCHANGED <<cli, owner, httpd, board, released>> BY <1>4 DEF NetSum
  <2>2. \A k \in Keys : Granted(k)' => Granted(k) BY <2>1 DEF Granted
  <2> QED BY <2>1, <2>2, GrantFrame
<1> QED BY <1>1, <1>2, <1>3, <1>4

-----------------------------------------------------------------------------
(* No request is carried out twice.                                        *)
LEMMA PastStays ==
    ASSUME TypeInv, NEW n \in Nonce,
           \/ board'.boot = board.boot /\ board'.ctr \in {board.ctr, board.ctr + 1}
           \/ board'.boot = board.boot + 1,
           Past(n)
    PROVE  Past(n)'
<1>1. PICK a \in Nat, b \in Nat : a = board.boot /\ b = board.ctr
  BY TypeFacts, BoardFields DEF TypeInv
<1>2. PICK c \in Nat, d \in Nat : c = n.boot /\ d = n.ctr BY DEF Nonce
<1>3. c < a \/ (c = a /\ d < b) BY <1>1, <1>2 DEF Past
<1>4. (board'.boot = a /\ board'.ctr \in {b, b + 1}) \/ board'.boot = a + 1 BY <1>1
<1>5. c < board'.boot \/ (c = board'.boot /\ d < board'.ctr) BY <1>3, <1>4
<1> QED BY <1>2, <1>5 DEF Past

LEMMA ReplayFrame ==
    ASSUME TypeInv, ReplayInv, accepted' = accepted, sent \subseteq sent',
           board'.claimed => board'.psk # NoKey,
           \/ board'.boot = board.boot /\ board'.ctr \in {board.ctr, board.ctr + 1}
           \/ board'.boot = board.boot + 1,
           \A k \in Keys : Gone(k) => Gone(k)'
    PROVE  ReplayInv'
<1>1. ASSUME NEW i \in 1..MaxId, accepted'[i] # 0
      PROVE  accepted'[i] = 1 /\ \E r \in sent' : r.id = i /\ (Past(r.nonce)' \/ Gone(r.key)')
  <2>1. accepted[i] = 1 BY <1>1 DEF ReplayInv
  <2>2. PICK r \in sent : r.id = i /\ (Past(r.nonce) \/ Gone(r.key)) BY <1>1 DEF ReplayInv
  <2>3. r.key \in Keys /\ r.nonce \in Nonce BY TypeFacts, RequestFields DEF TypeInv
  <2>4. Past(r.nonce) => Past(r.nonce)' BY <2>3, PastStays
  <2> QED BY <2>1, <2>2, <2>3, <2>4
<1> QED BY <1>1 DEF ReplayInv

LEMMA ReplayCommand ==
    ASSUME TypeInv, UsedInv, ReplayInv, NEW p \in Pcs, CliSum(p), TypeInv'
    PROVE  ReplayInv'
<1>1. board' = board /\ accepted' = accepted BY DEF CliSum
<1>2. sent \subseteq sent' BY DEF CliSum
<1>3. \A k \in Keys : Gone(k) => Gone(k)' BY <1>1, UsedCommand DEF Gone
<1>4. board'.claimed => board'.psk # NoKey BY <1>1 DEF ReplayInv
<1> QED BY <1>1, <1>2, <1>3, <1>4, ReplayFrame

LEMMA ReplayHandle ==
    ASSUME TypeInv, NumberInv, UsedInv, ReplayInv, NEW r \in net, Handle(r)
    PROVE  ReplayInv'
<1>1. /\ r \in Requests /\ sent' = sent
      /\ Refused(r) \/ RebootCase(r) \/ \E o \in Flash : ClaimCase(r, o) \/ UnclaimCase(r, o)
  BY HandleCases
<1>2. /\ \A k \in Keys : Used(k) => Used(k)'
      /\ r.kind = "claim" => ~Present(r.id)
  BY UsedHandle
<1>3. board \in BoardType /\ r.id \in Keys /\ r.id \in 1..MaxId /\ r.id # NoKey
      /\ r.key \in Keys /\ r.nonce \in Nonce
  BY <1>1, TypeFacts, RequestFields, Bounds DEF TypeInv
<1>4. board.claimed => board.psk # NoKey BY DEF ReplayInv
<1>5. CASE Refused(r)
  <2>1. board' = board /\ accepted' = accepted BY <1>5 DEF Refused
  <2>2. \A k \in Keys : Gone(k) => Gone(k)' BY <1>2, <2>1 DEF Gone
  <2> QED BY <1>1, <1>4, <2>1, <2>2, ReplayFrame
<1>6. ASSUME NEW o \in Flash, ClaimCase(r, o) PROVE ReplayInv'
  <2>1. r.kind = "claim" /\ accepted' = accepted /\ board' = Claimed(board, r.id, o)
    BY <1>6 DEF ClaimCase
  <2>2. /\ board'.psk = r.id /\ board'.nvs \in {board.nvs, r.id}
        /\ board'.boot = board.boot /\ board'.ctr = board.ctr
    BY <1>3, <2>1, ClaimedBoard
  <2>3. \A k \in Keys : Used(k) => k # r.id BY <2>1 DEF Used
  <2>4. \A k \in Keys : Gone(k) => Gone(k)' BY <1>2, <2>2, <2>3 DEF Gone
  <2> QED BY <1>1, <1>3, <2>1, <2>2, <2>4, ReplayFrame
<1>7. ASSUME ProofOk(r), r.kind # "claim"
      PROVE  /\ r \in sent /\ accepted[r.id] = 0 /\ board.claimed /\ r.key = board.psk
             /\ r.nonce.boot = board.boot /\ r.nonce.ctr = board.ctr
             /\ \A i \in 1..MaxId : accepted[i] # 0 => \E s \in sent : s.id = i /\ (Past(s.nonce) \/ Gone(s.key))
  <2>1. r \in sent BY <1>7 DEF NumberInv
  <2>2. board.claimed /\ r.key = board.psk /\ r.nonce = NonceOf(board) BY <1>7 DEF ProofOk
  <2>3. r.nonce.boot = board.boot /\ r.nonce.ctr = board.ctr BY <2>2 DEF NonceOf
  <2>4. ~Past(r.nonce)
    <3>1. board.boot \in Nat /\ board.ctr \in Nat BY <1>3, BoardFields
    <3> QED BY <2>3, <3>1 DEF Past
  <2>5. ~Gone(r.key) BY <2>2 DEF Gone
  <2>6. ~(\E s \in sent : s.id = r.id /\ (Past(s.nonce) \/ Gone(s.key)))
    <3> SUFFICES ASSUME NEW s \in sent, s.id = r.id, Past(s.nonce) \/ Gone(s.key) PROVE FALSE
      OBVIOUS
    <3>1. s = r BY <2>1 DEF NumberInv, Reqs
    <3> QED BY <2>4, <2>5, <3>1
  <2>7. accepted[r.id] = 0 BY <1>3, <2>6 DEF ReplayInv
  <2>8. \A i \in 1..MaxId : accepted[i] # 0 => \E s \in sent : s.id = i /\ (Past(s.nonce) \/ Gone(s.key))
    BY DEF ReplayInv
  <2> QED BY <2>1, <2>2, <2>3, <2>7, <2>8
<1>8. ASSUME ProofOk(r), r.kind # "claim", accepted' = [accepted EXCEPT ![r.id] = @ + 1],
             board'.claimed => board'.psk # NoKey,
             \A n \in Nonce : Past(n) => Past(n)', \A k \in Keys : Gone(k) => Gone(k)',
             Past(r.nonce)' \/ Gone(r.key)'
      PROVE  ReplayInv'
  <2>1. r \in sent' /\ accepted[r.id] = 0 BY <1>1, <1>7, <1>8
  <2>2. accepted \in [1..MaxId -> Nat] BY TypeFacts DEF TypeInv
  <2>3. accepted'[r.id] = 1 /\ \A i \in 1..MaxId : i # r.id => accepted'[i] = accepted[i]
    BY <1>3, <1>8, <2>1, <2>2
  <2>4. ASSUME NEW i \in 1..MaxId, i # r.id, accepted'[i] # 0
        PROVE  accepted'[i] = 1 /\ \E s \in sent' : s.id = i /\ (Past(s.nonce)' \/ Gone(s.key)')
    <3>1. accepted[i] # 0 /\ accepted'[i] = accepted[i] BY <2>3, <2>4
    <3>2. accepted[i] = 1 BY <3>1 DEF ReplayInv
    <3>3. PICK s \in sent : s.id = i /\ (Past(s.nonce) \/ Gone(s.key)) BY <3>1 DEF ReplayInv
    <3>4. s.key \in Keys /\ s.nonce \in Nonce BY TypeFacts, RequestFields DEF TypeInv
    <3>5. Past(s.nonce)' \/ Gone(s.key)' BY <1>8, <3>3, <3>4
    <3> QED BY <1>1, <3>1, <3>2, <3>3, <3>5
  <2>5. \A i \in 1..MaxId : \/ accepted'[i] = 0
                            \/ accepted'[i] = 1 /\ \E s \in sent' : s.id = i /\ (Past(s.nonce)' \/ Gone(s.key)')
    BY <1>8, <2>1, <2>3, <2>4
  <2> QED BY <1>8, <2>5 DEF ReplayInv
<1>9. CASE RebootCase(r)
  <2>1. /\ ProofOk(r) /\ r.kind # "claim" /\ board' = Bumped(board)
        /\ accepted' = [accepted EXCEPT ![r.id] = @ + 1]
    BY <1>9 DEF RebootCase
  <2>2. /\ board'.nvs = board.nvs /\ board'.psk = board.psk /\ board'.claimed = board.claimed
        /\ board'.boot = board.boot /\ board'.ctr = board.ctr + 1
    BY <1>3, <2>1, BumpedBoard
  <2>3. \A n \in Nonce : Past(n) => Past(n)' BY <2>2, PastStays
  <2>4. \A k \in Keys : Gone(k) => Gone(k)' BY <1>2, <2>2 DEF Gone
  <2>5. Past(r.nonce)'
    <3>1. PICK b \in Nat : b = board.ctr BY <1>3, BoardFields
    <3>2. r.nonce.boot = board'.boot /\ r.nonce.ctr = b /\ board'.ctr = b + 1 BY <1>7, <2>1, <2>2, <3>1
    <3>3. r.nonce.ctr < board'.ctr BY <3>2
    <3> QED BY <3>2, <3>3 DEF Past
  <2> QED BY <1>4, <1>8, <2>1, <2>2, <2>3, <2>4, <2>5
<1>10. ASSUME NEW o \in Flash, UnclaimCase(r, o) PROVE ReplayInv'
  <2>1. /\ ProofOk(r) /\ r.kind # "claim" /\ board' = Unclaimed(board, o)
        /\ accepted' = IF o = "ok" THEN [accepted EXCEPT ![r.id] = @ + 1] ELSE accepted
    BY <1>10 DEF UnclaimCase
  <2>2. /\ board'.nvs = (IF o = "failed" THEN board.nvs ELSE NoKey)
        /\ board'.psk = (IF o = "ok" THEN NoKey ELSE board.psk)
        /\ board'.claimed = (o # "ok") /\ board'.boot = board.boot /\ board'.ctr = board.ctr
    BY <1>3, <2>1, UnclaimedBoard
  <2>3. \A k \in Keys : Gone(k) => Gone(k)' BY <1>2, <2>2 DEF Gone
  <2>4. board.claimed /\ r.key = board.psk BY <1>7, <2>1
  <2>5. board'.claimed => board'.psk # NoKey BY <1>4, <2>2, <2>4
  <2>6. CASE o = "ok"
    <3>1. \A n \in Nonce : Past(n) => Past(n)' BY <2>2, PastStays
    <3>2. Used(r.key)
      <4>1. Present(r.key) BY <2>4 DEF Present
      <4> QED BY <1>3, <4>1 DEF UsedInv
    <3>3. Gone(r.key)' BY <1>2, <1>3, <1>4, <2>2, <2>4, <2>6, <3>2 DEF Gone
    <3> QED BY <1>8, <2>1, <2>3, <2>5, <2>6, <3>1, <3>3
  <2>7. CASE o # "ok"
    <3>1. accepted' = accepted BY <2>1, <2>7
    <3> QED BY <1>1, <2>2, <2>3, <2>5, <3>1, ReplayFrame
  <2> QED BY <2>6, <2>7
<1> QED BY <1>1, <1>5, <1>6, <1>9, <1>10

LEMMA ReplayOther ==
    ASSUME TypeInv, NumberInv, UsedInv, ReplayInv,
           Reply \/ Restart \/ PowerLoss \/ Boot \/ (NetSum /\ TypeInv')
    PROVE  ReplayInv'
<1>0. \A k \in Keys : Used(k) => Used(k)' BY UsedOther
<1>1. CASE Reply \/ (NetSum /\ TypeInv')
  <2>1. UNCHANGED <<board, sent, accepted>> BY <1>1, ReplyCases DEF NetSum
  <2>2. \A k \in Keys : Gone(k) => Gone(k)' BY <1>0, <2>1 DEF Gone
  <2>3. board'.claimed => board'.psk # NoKey BY <2>1 DEF ReplayInv
  <2> QED BY <2>1, <2>2, <2>3, ReplayFrame
<1>2. CASE Restart \/ PowerLoss
  <2>1. /\ UNCHANGED <<sent, accepted>> /\ board'.nvs = board.nvs /\ board'.psk = board.psk
        /\ board'.claimed = board.claimed /\ board'.boot = board.boot /\ board'.ctr = board.ctr
    BY <1>2, DownStep
  <2>2. \A k \in Keys : Gone(k) => Gone(k)' BY <1>0, <2>1 DEF Gone
  <2>3. board'.claimed => board'.psk # NoKey BY <2>1 DEF ReplayInv
  <2> QED BY <2>1, <2>2, <2>3, ReplayFrame
<1>3. CASE Boot
  <2>1. /\ UNCHANGED <<sent, accepted>> /\ board'.nvs \in {board.nvs, NoKey} /\ board'.psk = board'.nvs
        /\ board'.claimed = (board'.nvs # NoKey) /\ board'.boot = board.boot + 1
    BY <1>3, BootStep
  <2>2. \A k \in Keys : Gone(k) => Gone(k)' BY <1>0, <2>1 DEF Gone
  <2>3. board'.claimed => board'.psk # NoKey BY <2>1
  <2> QED BY <2>1, <2>2, <2>3, ReplayFrame
<1> QED BY <1>1, <1>2, <1>3

-----------------------------------------------------------------------------
(* A key in flash can be found on a PC.                                    *)
LEMMA AccountCommand ==
    ASSUME TypeInv, AccountInv, NEW p \in Pcs, CliSum(p),
           forgone \subseteq forgone', removed \subseteq removed', printed \subseteq printed',
           board.nvs # NoKey /\ (file[p] = board.nvs \/ (cli[p].cmd = "claim" /\ cli[p].key = board.nvs))
             => \/ file'[p] = board.nvs \/ board.nvs \in printed' \/ board.nvs \in Lost'
                \/ cli'[p].cmd = "claim" /\ cli'[p].key = board.nvs,
           Overwriting(p)' => StaleFile(p)'
    PROVE  AccountInv'
<1>1. board' = board /\ httpd' = httpd BY DEF CliSum
<1>2. \A q \in Pcs \ {p} : cli'[q] = cli[q] /\ file'[q] = file[q] BY DEF CliSum
<1>3. Lost \subseteq Lost' BY DEF Lost
<1>4. KeyAccounted'
  <2> SUFFICES ASSUME board.nvs # NoKey PROVE Held(board.nvs)' \/ board.nvs \in Lost'
    BY <1>1 DEF KeyAccounted, Lost, Held
  <2>1. Held(board.nvs) \/ board.nvs \in Lost BY DEF AccountInv, KeyAccounted, Lost
  <2>2. CASE board.nvs \in Lost BY <1>3, <2>2
  <2>3. CASE board.nvs \in printed \/ (httpd.pc = "reply" /\ httpd.key = board.nvs)
    BY <1>1, <2>3 DEF Held
  <2>4. ASSUME NEW q \in Pcs, file[q] = board.nvs \/ (cli[q].cmd = "claim" /\ cli[q].key = board.nvs)
        PROVE  Held(board.nvs)' \/ board.nvs \in Lost'
    <3>1. CASE q # p BY <1>1, <1>2, <2>4, <3>1 DEF Held
    <3>2. CASE q = p BY <1>1, <2>4, <3>2 DEF Held
    <3> QED BY <3>1, <3>2
  <2> QED BY <2>1, <2>2, <2>3, <2>4 DEF Held
<1>5. HalfClaimed' BY <1>1 DEF AccountInv, HalfClaimed
<1>6. JustGranted'
  <2>1. cli'[p].key \in {NoKey, cli[p].key, file[p]} /\ file'[p] \in {NoKey, file[p], cli[p].key}
    BY DEF CliSum
  <2> QED BY <1>1, <1>2, <2>1 DEF AccountInv, JustGranted
<1>7. JustUnclaimed' BY <1>1 DEF AccountInv, JustUnclaimed
<1>8. ASSUME NEW q \in Pcs, Overwriting(q)' PROVE StaleFile(q)'
  <2>1. CASE q = p BY <1>8, <2>1
  <2>2. CASE q # p
    <3>1. Overwriting(q) BY <1>2, <1>8, <2>2 DEF Overwriting
    <3>2. StaleFile(q) BY <3>1 DEF AccountInv
    <3> QED BY <1>1, <1>2, <1>3, <2>2, <3>2 DEF StaleFile
  <2> QED BY <2>1, <2>2
<1> QED BY <1>4, <1>5, <1>6, <1>7, <1>8 DEF AccountInv

LEMMA ExitEffect ==
    ASSUME TypeInv, NEW p \in Pcs, Exit(p)
    PROVE  cli'[p].pc = "idle" /\ cli'[p].cmd = "none" /\ ~Overwriting(p)'
<1>1. cli'[p] = NoCmd BY TypeFacts DEF TypeInv, Exit
<1> QED BY <1>1, NoCmdOk DEF Overwriting

LEMMA MoveEffect ==
    ASSUME TypeInv, NEW p \in Pcs, NEW x \in CliPc, Step(p, x)
    PROVE  cli'[p].pc = x /\ cli'[p].cmd = cli[p].cmd /\ cli'[p].key = cli[p].key
           /\ cli'[p].status = cli[p].status
<1>1. cli \in [Pcs -> CmdType] /\ cli[p] \in CmdType BY TypeFacts DEF TypeInv
<1>2. PICK d : d = [cli[p] EXCEPT !.pc = x] OBVIOUS
<1>3. cli'[p] = d BY <1>1, <1>2 DEF Step
<1> QED BY <1>1, <1>2, <1>3, StepCmd

(* The steps that leave the drop-in alone: a claim that ends without a key *)
(* loses nothing, an unclaim goes on to remove a key that the board gave   *)
(* up.                                                                     *)
LEMMA AccountKeepsFile ==
    ASSUME TypeInv, AccountInv, NEW p \in Pcs, CliSum(p), file' = file,
           forgone \subseteq forgone', removed \subseteq removed', printed \subseteq printed',
           cli[p].cmd = "claim" /\ cli[p].key # NoKey
             => \/ cli'[p].cmd = "claim" /\ cli'[p].key = cli[p].key
                \/ cli[p].key \in forgone',
           Overwriting(p)' => Overwriting(p) \/ (board.up /\ ~board.claimed)
    PROVE  AccountInv'
<1>1. ASSUME Overwriting(p)' PROVE StaleFile(p)'
  <2>1. StaleFile(p)
    <3>1. CASE Overwriting(p) BY <3>1 DEF AccountInv
    <3>2. CASE board.up /\ ~board.claimed
      BY <3>2 DEF AccountInv, HalfClaimed, StaleFile, Lost
    <3> QED BY <1>1, <3>1, <3>2
  <2>2. board' = board BY DEF CliSum
  <2> QED BY <2>1, <2>2 DEF StaleFile, Lost
<1>2. board.nvs # NoKey /\ cli[p].cmd = "claim" /\ cli[p].key = board.nvs
        => board.nvs \in Lost' \/ (cli'[p].cmd = "claim" /\ cli'[p].key = board.nvs)
  BY DEF Lost
<1> QED BY <1>1, <1>2, AccountCommand

LEMMA AccountQuiet ==
    ASSUME TypeInv, AccountInv, NEW p \in Pcs, CliSum(p), TypeInv', Info(p) \/ Post(p) \/ Answer(p) \/ GiveUp(p)
    PROVE  AccountInv'
<1>0. CmdOk(cli[p]) /\ cli[p] \in CmdType BY TypeFacts DEF TypeInv
<1>1. file' = file /\ forgone' = forgone /\ removed' = removed /\ printed' = printed
  BY DEF Info, Post, Answer, GiveUp, CliOnly
<1>2. CASE Info(p)
  <2>1. cli[p].pc = "info" /\ board.up BY <1>2 DEF Info
  <2>2. cli[p].cmd = "claim" => cli[p].key = NoKey BY <1>0, <2>1 DEF CmdOk
  <2>3. CASE AfterInfo(cli[p]) = "exit"
    <3>1. Exit(p) BY <1>2, <2>3 DEF Info
    <3> QED BY <1>1, <2>2, <3>1, ExitEffect, AccountKeepsFile
  <2>4. CASE AfterInfo(cli[p]) # "exit"
    <3>1. cli[p].cmd \in Kinds BY <1>0, <2>1 DEF CmdOk
    <3>2. /\ AfterInfo(cli[p]) \in {"post", "revoke"}
          /\ AfterInfo(cli[p]) = "revoke" => cli[p].cmd = "unclaim" /\ ~board.claimed
      BY <2>4, <3>1 DEF AfterInfo, Kinds
    <3>3. PICK x \in CliPc, n \in Nonce : x = AfterInfo(cli[p]) /\ n = NonceOf(board)
      BY <3>2, TypeFacts, BoardFields DEF TypeInv, CliPc, NonceOf, Nonce
    <3>4. cli' = [cli EXCEPT ![p].pc = x, ![p].nonce = n] BY <1>2, <2>4, <3>3 DEF Info
    <3>5. cli'[p] = [cli[p] EXCEPT !.pc = x, !.nonce = n] BY <3>4, TypeFacts DEF TypeInv
    <3>6. cli'[p].pc = x /\ cli'[p].cmd = cli[p].cmd /\ cli'[p].key = cli[p].key
      BY <1>0, <3>5 DEF CmdType
    <3>7. Overwriting(p)' => board.up /\ ~board.claimed
      BY <2>1, <2>2, <3>2, <3>3, <3>6 DEF Overwriting
    <3> QED BY <1>1, <2>2, <3>7, AccountKeepsFile
  <2> QED BY <2>3, <2>4
<1>3. CASE Post(p)
  <2>1. cli[p].pc = "post" /\ Step(p, "wait") /\ "wait" \in CliPc BY <1>3 DEF Post, CliPc
  <2>2. cli[p].cmd = "claim" => cli[p].key = NoKey BY <1>0, <2>1 DEF CmdOk
  <2>3. cli'[p].pc = "wait" /\ cli'[p].cmd = cli[p].cmd /\ cli'[p].key = cli[p].key BY <2>1, MoveEffect
  <2>4. ~Overwriting(p)' BY <2>2, <2>3 DEF Overwriting
  <2> QED BY <1>1, <2>2, <2>4, AccountKeepsFile
<1>4. CASE Answer(p)
  <2>1. cli[p].pc = "answer" /\ cli[p].cmd \in Kinds BY <1>0, <1>4 DEF Answer, CmdOk
  <2>2. cli[p].cmd = "claim" => (cli[p].status = 200 <=> cli[p].key # NoKey) BY <1>0, <2>1 DEF CmdOk
  <2>3. CASE AfterAnswer(cli[p]) = "exit"
    <3>1. Exit(p) BY <1>4, <2>3 DEF Answer
    <3>2. cli[p].cmd = "claim" => cli[p].status # 200 BY <2>3 DEF AfterAnswer
    <3> QED BY <1>1, <2>2, <3>1, <3>2, ExitEffect, AccountKeepsFile
  <2>4. CASE AfterAnswer(cli[p]) # "exit"
    <3>1. cli[p].status = 200 BY <2>4 DEF AfterAnswer
    <3>2. PICK x \in CliPc : x = AfterAnswer(cli[p])
      BY <2>1, <2>4, <3>1 DEF AfterAnswer, Kinds, CliPc
    <3>3. Step(p, x) BY <1>4, <2>4, <3>2 DEF Answer
    <3>4. cli'[p].cmd = cli[p].cmd /\ cli'[p].key = cli[p].key BY <3>3, MoveEffect
    <3>5. Overwriting(p)' => Overwriting(p) BY <2>1, <3>1, <3>4 DEF Overwriting
    <3> QED BY <1>1, <3>4, <3>5, AccountKeepsFile
  <2> QED BY <2>3, <2>4
<1>5. CASE GiveUp(p)
  <2>1. Exit(p) /\ cli[p].pc \in {"info", "post", "wait"} BY <1>5 DEF GiveUp, Hung
  <2>2. cli[p].cmd = "claim" => cli[p].key = NoKey BY <1>0, <2>1 DEF CmdOk
  <2> QED BY <1>1, <2>1, <2>2, ExitEffect, AccountKeepsFile
<1> QED BY <1>2, <1>3, <1>4, <1>5

LEMMA AccountStartCrash ==
    ASSUME TypeInv, AccountInv, NEW p \in Pcs, CliSum(p), TypeInv',
           Crash(p) \/ \E x \in Kinds \cup {"revoke"} : Start(p, x)
    PROVE  AccountInv'
<1>0. CmdOk(cli[p]) /\ cli[p] \in CmdType BY TypeFacts DEF TypeInv
<1>1. CASE Crash(p)
  <2>1. /\ Exit(p) /\ file' = file /\ removed' = removed /\ printed' = printed
        /\ forgone' = IF cli[p].cmd = "claim" THEN forgone \cup {cli[p].key} ELSE forgone
    BY <1>1 DEF Crash
  <2> QED BY <2>1, ExitEffect, AccountKeepsFile
<1>2. ASSUME NEW x \in Kinds \cup {"revoke"}, Start(p, x) PROVE AccountInv'
  <2>1. /\ cli[p].pc = "idle" /\ file' = file /\ removed' = removed /\ printed' = printed
        /\ forgone' = forgone
    BY <1>2 DEF Start
  <2>2. cli[p].cmd = "none" BY <1>0, <2>1 DEF CmdOk
  <2>3. cli'[p].pc \in {"info", "revoke"} /\ (cli'[p].pc = "revoke" => cli'[p].cmd = "revoke")
    <3>2. cli \in [Pcs -> CmdType] BY TypeFacts DEF TypeInv
    <3>3. CASE x = "claim"
      <4>1. cli'[p] = [NoCmd EXCEPT !.cmd = x, !.pc = "info", !.id = cmds + 1]
        BY <1>2, <3>2, <3>3 DEF Start
      <4> QED BY <4>1, NoCmdOk DEF CmdType
    <3>4. CASE x = "revoke"
      <4>1. cli'[p] = [NoCmd EXCEPT !.cmd = x, !.pc = "revoke", !.id = cmds + 1]
        BY <1>2, <3>2, <3>4 DEF Start
      <4> QED BY <3>4, <4>1, NoCmdOk DEF CmdType
    <3>5. CASE x \in {"unclaim", "reboot"}
      <4>1. PICK k \in {file[p], NoKey} :
              cli'[p] = [NoCmd EXCEPT !.cmd = x, !.pc = "info", !.id = cmds + 1, !.key = k]
        BY <1>2, <3>2, <3>5 DEF Start
      <4> QED BY <4>1, NoCmdOk DEF CmdType
    <3> QED BY <3>3, <3>4, <3>5 DEF Kinds
  <2>4. ~Overwriting(p)'
    <3>1. cli'[p].cmd = "claim" => cli'[p].key = NoKey BY <2>2 DEF CliSum
    <3> QED BY <2>3, <3>1 DEF Overwriting
  <2> QED BY <2>1, <2>2, <2>4, AccountKeepsFile
<1> QED BY <1>1, <1>2

LEMMA AccountWrites ==
    ASSUME TypeInv, AccountInv, NEW p \in Pcs, CliSum(p), TypeInv',
           Truncate(p) \/ Write(p) \/ Revoke(p)
    PROVE  AccountInv'
<1>0. /\ CmdOk(cli[p]) /\ cli[p] \in CmdType /\ file \in [Pcs -> Keys]
      /\ board' = board
  BY TypeFacts DEF TypeInv, CliSum
<1>1. CASE Truncate(p)
  <2>1. /\ cli[p].pc = "write" /\ Step(p, "truncated") /\ file' = [file EXCEPT ![p] = NoKey]
        /\ forgone' = forgone /\ removed' = removed /\ printed' = printed /\ "truncated" \in CliPc
    BY <1>1 DEF Truncate, CliOnly, CliPc
  <2>2. cli[p].cmd = "claim" /\ cli[p].key # NoKey BY <1>0, <2>1 DEF CmdOk
  <2>3. file'[p] = NoKey BY <1>0, <2>1
  <2>4. cli'[p].cmd = cli[p].cmd /\ cli'[p].key = cli[p].key BY <2>1, MoveEffect
  <2>5. StaleFile(p) BY <2>2 DEF AccountInv, Overwriting
  <2>6. Lost' = Lost BY <2>1 DEF Lost
  <2>7. StaleFile(p)' BY <2>3 DEF StaleFile
  <2>8. board.nvs # NoKey /\ file[p] = board.nvs => board.nvs \in Lost' BY <2>5, <2>6 DEF StaleFile
  <2> QED BY <2>1, <2>4, <2>7, <2>8, AccountCommand
<1>2. CASE Write(p)
  <2>1. /\ Exit(p) /\ cli[p].pc \in {"write", "truncated"} /\ forgone' = forgone /\ removed' = removed
        /\ \/ file' = [file EXCEPT ![p] = cli[p].key] /\ printed' = printed
           \/ printed' = printed \cup {cli[p].key} /\ file' = file
    BY <1>2 DEF Write
  <2>2. cli[p].cmd = "claim" /\ cli[p].key # NoKey BY <1>0, <2>1 DEF CmdOk
  <2>3. StaleFile(p) BY <2>2 DEF AccountInv, Overwriting
  <2>4. Lost' = Lost BY <2>1 DEF Lost
  <2>5. file'[p] = cli[p].key \/ (cli[p].key \in printed' /\ file'[p] = file[p]) BY <1>0, <2>1
  <2>6. board.nvs # NoKey /\ file[p] = board.nvs => board.nvs \in Lost' BY <2>3, <2>4 DEF StaleFile
  <2>7. printed \subseteq printed' BY <2>1
  <2> QED BY <2>1, <2>5, <2>6, <2>7, ExitEffect, AccountCommand
<1>3. CASE Revoke(p)
  <2>1. /\ Exit(p) /\ cli[p].pc = "revoke" /\ file' = [file EXCEPT ![p] = NoKey]
        /\ forgone' = forgone /\ printed' = printed
        /\ removed' = IF cli[p].cmd = "revoke" THEN removed \cup {file[p]} ELSE removed
    BY <1>3 DEF Revoke
  <2>2. cli[p].cmd \in {"revoke", "unclaim"} BY <1>0, <2>1 DEF CmdOk
  <2>3. board.nvs # NoKey /\ file[p] = board.nvs => board.nvs \in Lost'
    <3>1. CASE cli[p].cmd = "revoke" BY <2>1, <3>1 DEF Lost
    <3>2. CASE cli[p].cmd = "unclaim"
      <4>1. StaleFile(p) BY <2>1, <3>2 DEF AccountInv, Overwriting
      <4> QED BY <2>1, <4>1 DEF StaleFile, Lost
    <3> QED BY <2>2, <3>1, <3>2
  <2>4. removed \subseteq removed' BY <2>1
  <2> QED BY <2>1, <2>2, <2>3, <2>4, ExitEffect, AccountCommand
<1> QED BY <1>1, <1>2, <1>3

(* The board's steps, and what they have in common: the drop-ins and the   *)
(* commands stay, the board keeps its key, loses it or takes a fresh one.  *)
LEMMA AccountHandle ==
    ASSUME TypeInv, NumberInv, UsedInv, AccountInv, NEW r \in net, Handle(r)
    PROVE  AccountInv'
<1>0. KeyAccounted /\ HalfClaimed /\ (\A p \in Pcs : Overwriting(p) => StaleFile(p)) BY DEF AccountInv
<1>1. /\ r \in Requests /\ board.up /\ httpd.pc = "idle"
      /\ cli' = cli /\ file' = file /\ printed' = printed /\ removed' = removed
      /\ httpd'.pc = "reply" /\ httpd'.kind = r.kind
      /\ Refused(r) \/ RebootCase(r) \/ \E o \in Flash : ClaimCase(r, o) \/ UnclaimCase(r, o)
  BY HandleCases
<1>2. board \in BoardType /\ r.id \in Keys /\ r.id # NoKey
  BY <1>1, TypeFacts, RequestFields, Bounds DEF TypeInv
<1>3. ASSUME board'.nvs = board.nvs, httpd'.key = NoKey,
             httpd'.kind # "unclaim" \/ httpd'.status # 200,
             board'.claimed \/ ~board.claimed, forgone' = forgone
      PROVE  AccountInv'
  <2>1. KeyAccounted'
    <3> SUFFICES ASSUME board.nvs # NoKey PROVE Held(board.nvs)' \/ board.nvs \in (forgone \cup removed)'
      BY <1>3 DEF KeyAccounted, Held
    <3>1. Held(board.nvs) \/ board.nvs \in forgone \cup removed BY <1>0 DEF KeyAccounted
    <3> QED BY <1>1, <1>3, <3>1 DEF Held
  <2>2. HalfClaimed' BY <1>0, <1>1, <1>3 DEF HalfClaimed
  <2>3. JustGranted' /\ JustUnclaimed' BY <1>3 DEF JustGranted, JustUnclaimed
  <2>4. (\A p \in Pcs : Overwriting(p) => StaleFile(p))'
    BY <1>0, <1>1, <1>3 DEF Overwriting, StaleFile, Lost
  <2> QED BY <2>1, <2>2, <2>3, <2>4 DEF AccountInv
<1>4. ASSUME board'.nvs = NoKey, httpd'.key = NoKey
      PROVE  AccountInv'
  <2>1. KeyAccounted' /\ HalfClaimed' /\ JustGranted' /\ JustUnclaimed'
    BY <1>4 DEF KeyAccounted, HalfClaimed, JustGranted, JustUnclaimed
  <2>2. (\A p \in Pcs : StaleFile(p))' BY <1>4 DEF StaleFile
  <2> QED BY <2>1, <2>2 DEF AccountInv
<1>5. CASE Refused(r)
  <2>1. board' = board /\ httpd'.key = NoKey /\ httpd'.status = 403 /\ forgone' = forgone
    BY <1>5 DEF Refused
  <2> QED BY <1>3, <2>1
<1>6. CASE RebootCase(r)
  <2>1. r.kind = "reboot" /\ board' = Bumped(board) /\ httpd'.key = NoKey /\ forgone' = forgone
    BY <1>6 DEF RebootCase
  <2>2. board'.nvs = board.nvs /\ board'.claimed = board.claimed BY <1>2, <2>1, BumpedBoard
  <2> QED BY <1>1, <1>3, <2>1, <2>2
<1>7. ASSUME NEW o \in Flash, ClaimCase(r, o) PROVE AccountInv'
  <2>1. /\ r.kind = "claim" /\ ~board.claimed /\ board' = Claimed(board, r.id, o)
        /\ httpd'.key = (IF o = "ok" THEN r.id ELSE NoKey)
        /\ forgone' = (IF o = "stored" THEN forgone \cup {r.id} ELSE forgone)
    BY <1>7 DEF ClaimCase
  <2>2. /\ board'.nvs = (IF o = "failed" THEN board.nvs ELSE r.id)
        /\ board'.claimed = (o = "ok")
    BY <1>2, <2>1, ClaimedBoard
  <2>3. \A p \in Pcs : file[p] # r.id /\ cli[p].key # r.id
    <3>1. ~Present(r.id) BY <2>1, UsedHandle
    <3> QED BY <3>1 DEF Present
  <2>4. CASE o = "failed" BY <1>1, <1>3, <2>1, <2>2, <2>4
  <2>5. CASE o # "failed"
    <3>1. board'.nvs = r.id BY <2>2, <2>5
    <3>2. KeyAccounted'
      <4>1. CASE o = "ok" BY <1>1, <2>1, <3>1, <4>1 DEF KeyAccounted, Held
      <4>2. CASE o = "stored" BY <2>1, <3>1, <4>2 DEF KeyAccounted
      <4> QED BY <2>5, <4>1, <4>2 DEF Flash
    <3>3. HalfClaimed' BY <2>1, <2>2, <2>5, <3>1 DEF HalfClaimed, Flash
    <3>4. JustGranted' BY <1>1, <2>1, <2>3, <3>1 DEF JustGranted
    <3>5. JustUnclaimed' BY <1>1, <2>1 DEF JustUnclaimed
    <3>6. (\A p \in Pcs : StaleFile(p))' BY <1>1, <2>3, <3>1 DEF StaleFile
    <3> QED BY <3>2, <3>3, <3>4, <3>5, <3>6 DEF AccountInv
  <2> QED BY <2>4, <2>5
<1>8. ASSUME NEW o \in Flash, UnclaimCase(r, o) PROVE AccountInv'
  <2>1. /\ board' = Unclaimed(board, o) /\ httpd'.key = NoKey /\ forgone' = forgone
        /\ httpd'.status = (IF o = "ok" THEN 200 ELSE 500)
    BY <1>8 DEF UnclaimCase
  <2>2. board'.nvs = (IF o = "failed" THEN board.nvs ELSE NoKey) /\ board'.claimed = (o # "ok")
    BY <1>2, <2>1, UnclaimedBoard
  <2>3. CASE o = "failed"
    <3>1. board'.nvs = board.nvs /\ board'.claimed BY <2>2, <2>3
    <3>2. httpd'.status # 200 BY <2>1, <2>3
    <3> QED BY <1>3, <2>1, <3>1, <3>2
  <2>4. CASE o # "failed" BY <1>4, <2>1, <2>2, <2>4
  <2> QED BY <2>3, <2>4
<1> QED BY <1>1, <1>5, <1>6, <1>7, <1>8

LEMMA AccountReply ==
    ASSUME TypeInv, NumberInv, AccountInv, Reply
    PROVE  AccountInv'
<1>0. KeyAccounted /\ HalfClaimed /\ JustGranted /\ JustUnclaimed
      /\ (\A p \in Pcs : Overwriting(p) => StaleFile(p))
  BY DEF AccountInv
<1>1. /\ httpd.pc = "reply" /\ UNCHANGED <<board, file, printed, removed>>
      /\ httpd'.pc # "reply" /\ httpd'.key = NoKey
      /\ \/ \E p \in Pcs : Answered(p)
         \/ cli' = cli /\ forgone' = forgone \cup {httpd.key}
  BY ReplyCases
<1>2. forgone \subseteq forgone' BY <1>1 DEF Answered
<1>3. HalfClaimed' /\ JustGranted' /\ JustUnclaimed'
  BY <1>0, <1>1, <1>2 DEF HalfClaimed, JustGranted, JustUnclaimed
<1>4. CASE cli' = cli /\ forgone' = forgone \cup {httpd.key}
  <2>1. KeyAccounted'
    <3> SUFFICES ASSUME board.nvs # NoKey PROVE Held(board.nvs)' \/ board.nvs \in (forgone \cup removed)'
      BY <1>1 DEF KeyAccounted, Held
    <3>1. Held(board.nvs) \/ board.nvs \in forgone \cup removed BY <1>0 DEF KeyAccounted
    <3> QED BY <1>1, <1>4, <3>1 DEF Held
  <2>2. (\A p \in Pcs : Overwriting(p) => StaleFile(p))'
    BY <1>0, <1>1, <1>4 DEF Overwriting, StaleFile, Lost
  <2> QED BY <1>3, <2>1, <2>2 DEF AccountInv
<1>5. ASSUME NEW p \in Pcs, Answered(p) PROVE AccountInv'
  <2>1. /\ cli[p].pc = "wait" /\ cli[p].cmd = httpd.kind
        /\ cli'[p].pc = "answer" /\ cli'[p].cmd = cli[p].cmd /\ cli'[p].status = httpd.status
        /\ cli'[p].key = (IF httpd.kind = "claim" THEN httpd.key ELSE cli[p].key)
        /\ (\A q \in Pcs \ {p} : cli'[q] = cli[q]) /\ forgone' = forgone
    BY <1>5 DEF Answered
  <2>2. cli[p].cmd = "claim" => cli[p].key = NoKey BY <2>1 DEF TypeInv, CmdOk
  <2>3. httpd.key # NoKey => httpd.kind = "claim" BY DEF TypeInv, HandlerOk
  <2>4. KeyAccounted'
    <3> SUFFICES ASSUME board.nvs # NoKey PROVE Held(board.nvs)' \/ board.nvs \in (forgone \cup removed)'
      BY <1>1 DEF KeyAccounted, Held
    <3>1. Held(board.nvs) \/ board.nvs \in forgone \cup removed BY <1>0 DEF KeyAccounted
    <3>2. CASE httpd.key = board.nvs BY <1>1, <2>1, <2>3, <3>2 DEF Held
    <3>3. ASSUME NEW q \in Pcs, cli[q].cmd = "claim", cli[q].key = board.nvs PROVE Held(board.nvs)'
      <4>1. q # p BY <2>2, <3>3
      <4> QED BY <1>1, <2>1, <3>3, <4>1 DEF Held
    <3> QED BY <1>1, <2>1, <3>1, <3>2, <3>3 DEF Held
  <2>5. ASSUME NEW q \in Pcs, Overwriting(q)' PROVE StaleFile(q)'
    <3>1. CASE q # p BY <1>0, <1>1, <2>1, <2>5, <3>1 DEF Overwriting, StaleFile, Lost
    <3>2. CASE q = p /\ httpd.kind = "claim"
      <4>1. httpd.key # NoKey BY <2>1, <2>5, <3>2 DEF Overwriting
      <4>2. file[p] # board.nvs BY <1>0, <4>1 DEF JustGranted
      <4> QED BY <1>1, <3>2, <4>2 DEF StaleFile
    <3>3. CASE q = p /\ httpd.kind # "claim"
      <4>1. httpd.kind = "unclaim" /\ httpd.status = 200 BY <2>1, <2>5, <3>3 DEF Overwriting
      <4>2. board.nvs = NoKey BY <1>0, <1>1, <4>1 DEF JustUnclaimed
      <4> QED BY <1>1, <3>3, <4>2 DEF StaleFile
    <3> QED BY <3>1, <3>2, <3>3
  <2> QED BY <1>3, <2>4, <2>5 DEF AccountInv
<1> QED BY <1>1, <1>4, <1>5

LEMMA AccountOther ==
    ASSUME TypeInv, AccountInv, Restart \/ PowerLoss \/ Boot \/ NetSum
    PROVE  AccountInv'
<1>0. KeyAccounted /\ HalfClaimed /\ JustGranted /\ JustUnclaimed
      /\ (\A p \in Pcs : Overwriting(p) => StaleFile(p))
  BY DEF AccountInv
<1>1. CASE Restart \/ PowerLoss
  <2>1. /\ httpd' = NoHandler /\ board'.up = FALSE /\ board'.nvs = board.nvs
        /\ forgone' = (IF httpd.pc = "reply" THEN forgone \cup {httpd.key} ELSE forgone)
        /\ UNCHANGED <<cli, file, printed, removed>>
    BY <1>1, DownStep
  <2>2. KeyAccounted'
    <3> SUFFICES ASSUME board.nvs # NoKey PROVE Held(board.nvs)' \/ board.nvs \in (forgone \cup removed)'
      BY <2>1 DEF KeyAccounted, Held
    <3>1. Held(board.nvs) \/ board.nvs \in forgone \cup removed BY <1>0 DEF KeyAccounted
    <3> QED BY <2>1, <3>1 DEF Held
  <2>3. HalfClaimed' /\ JustGranted' /\ JustUnclaimed'
    BY <2>1, NoHandlerOk DEF HalfClaimed, JustGranted, JustUnclaimed
  <2>4. (\A p \in Pcs : Overwriting(p) => StaleFile(p))'
    BY <1>0, <2>1 DEF Overwriting, StaleFile, Lost
  <2> QED BY <2>2, <2>3, <2>4 DEF AccountInv
<1>2. CASE Boot
  <2>1. /\ ~board.up /\ board'.nvs \in {board.nvs, NoKey} /\ board'.claimed = (board'.nvs # NoKey)
        /\ UNCHANGED <<httpd, cli, file, printed, forgone, removed>>
    BY <1>2, BootStep
  <2>2. httpd.key = NoKey /\ httpd.pc = "idle" BY <2>1 DEF TypeInv, HandlerOk
  <2>3. KeyAccounted'
    <3>1. CASE board'.nvs = NoKey BY <3>1 DEF KeyAccounted
    <3>2. CASE board'.nvs = board.nvs /\ board.nvs # NoKey
      <4>1. Held(board.nvs) \/ board.nvs \in forgone \cup removed BY <1>0, <3>2 DEF KeyAccounted
      <4> QED BY <2>1, <3>2, <4>1 DEF Held, KeyAccounted
    <3> QED BY <2>1, <3>1, <3>2
  <2>4. HalfClaimed' /\ JustGranted' /\ JustUnclaimed'
    BY <2>1, <2>2 DEF HalfClaimed, JustGranted, JustUnclaimed
  <2>5. (\A p \in Pcs : Overwriting(p) => StaleFile(p))'
    BY <1>0, <2>1 DEF Overwriting, StaleFile, Lost
  <2> QED BY <2>3, <2>4, <2>5 DEF AccountInv
<1>3. CASE NetSum
  <2>1. UNCHANGED <<board, httpd, cli, file, printed, forgone, removed>> BY <1>3 DEF NetSum
  <2> QED BY <1>0, <2>1 DEF AccountInv, KeyAccounted, Held, HalfClaimed, JustGranted, JustUnclaimed,
                            Overwriting, StaleFile, Lost
<1> QED BY <1>1, <1>2, <1>3

-----------------------------------------------------------------------------
(* The theorems.                                                           *)
LifeInv == TypeInv /\ NumberInv /\ UsedInv /\ GrantInv /\ ReplayInv /\ AccountInv

LEMMA LifeInit == Init => LifeInv
<1> SUFFICES ASSUME Init PROVE LifeInv OBVIOUS
<1>1. /\ board = [up |-> TRUE, nvs |-> NoKey, psk |-> NoKey, claimed |-> FALSE, boot |-> 1, ctr |-> 0]
      /\ httpd = NoHandler /\ net = {} /\ sent = {} /\ cli = [p \in Pcs |-> NoCmd]
      /\ file = [p \in Pcs |-> NoKey] /\ owner = [p \in Pcs |-> NoKey] /\ released = {NoKey}
      /\ cmds = 0 /\ faults = 0 /\ printed = {} /\ forgone = {} /\ removed = {} /\ releasing = {}
      /\ accepted = [i \in 1..MaxId |-> 0]
  BY DEF Init
<1>2. board \in BoardType /\ board.up /\ board.nvs = NoKey /\ board.psk = NoKey /\ ~board.claimed
  BY <1>1, Bounds DEF BoardType
<1>3. cli \in [Pcs -> CmdType] /\ \A p \in Pcs : cli[p] = NoCmd /\ file[p] = NoKey /\ owner[p] = NoKey
  BY <1>1, NoCmdOk
<1>4. TypeInv
  <2>1. cmds \in 0..MaxId /\ faults \in 0..MaxFaults BY <1>1, Bounds
  <2>2. accepted \in [1..MaxId -> Nat] BY <1>1
  <2>3. file \in [Pcs -> Keys] /\ owner \in [Pcs -> Keys] /\ released \subseteq Keys BY <1>1, Bounds
  <2>4. TypeOK
    BY <1>1, <1>2, <1>3, <2>1, <2>2, <2>3, NoHandlerOk DEF TypeOK, BoardType, HandlerType, CmdType
  <2>5. HandlerOk BY <1>1, <1>2, NoHandlerOk DEF HandlerOk
  <2>6. \A p \in Pcs : CmdOk(cli[p]) BY <1>3, NoCmdOk
  <2> QED BY <2>4, <2>5, <2>6 DEF TypeInv
<1>5. NumberInv BY <1>1, <1>3, NoCmdOk, NoHandlerOk DEF NumberInv, Reqs, Active
<1>6. UsedInv
  <2>1. \A k \in Keys : Present(k) => k = NoKey BY <1>1, <1>2, <1>3, NoCmdOk, NoHandlerOk DEF Present
  <2> QED BY <1>4, <2>1, UsedNoKey DEF UsedInv
<1>7. GrantInv BY <1>1, <1>3, NoCmdOk, NoHandlerOk DEF GrantInv, Granted
<1>8. ReplayInv BY <1>1, <1>2 DEF ReplayInv
<1>9. AccountInv
  BY <1>1, <1>2, <1>3, NoHandlerOk, NoCmdOk DEF AccountInv, KeyAccounted, HalfClaimed, JustGranted,
     JustUnclaimed, StaleFile
<1> QED BY <1>4, <1>5, <1>6, <1>7, <1>8, <1>9 DEF LifeInv

LEMMA LifeStep == LifeInv /\ [Next]_vars => LifeInv'
<1> SUFFICES ASSUME LifeInv, [Next]_vars PROVE LifeInv' OBVIOUS
<1>0. TypeInv /\ NumberInv /\ UsedInv /\ GrantInv /\ ReplayInv /\ AccountInv BY DEF LifeInv
<1>1. ASSUME NEW p \in Pcs, CliStep(p) \/ Crash(p) \/ \E x \in Kinds \cup {"revoke"} : Start(p, x)
      PROVE  LifeInv'
  <2>1. TypeInv' /\ CliSum(p) BY <1>0, <1>1, CommandStep
  <2>2. AccountInv'
    BY <1>0, <1>1, <2>1, AccountQuiet, AccountStartCrash, AccountWrites DEF CliStep
  <2> QED BY <1>0, <2>1, <2>2, NumberCommand, UsedCommand, GrantCommand, ReplayCommand DEF LifeInv
<1>2. ASSUME NEW r \in net, Handle(r) PROVE LifeInv'
  BY <1>0, <1>2, TypeHandle, NumberHandle, UsedHandle, GrantHandle, ReplayHandle, AccountHandle DEF LifeInv
<1>3. CASE Reply
  <2>1. TypeInv' BY <1>0, <1>3, ReplyCases
  <2> QED BY <1>0, <1>3, <2>1, NumberReply, UsedOther, GrantOther, ReplayOther, AccountReply DEF LifeInv
<1>4. CASE Restart \/ PowerLoss
  <2>1. TypeInv' BY <1>0, <1>4, DownStep
  <2> QED BY <1>0, <1>4, <2>1, NumberDown, UsedOther, GrantOther, ReplayOther, AccountOther DEF LifeInv
<1>5. CASE Boot
  <2>1. TypeInv' BY <1>0, <1>5, BootStep
  <2> QED BY <1>0, <1>5, <2>1, NumberBoot, UsedOther, GrantOther, ReplayOther, AccountOther DEF LifeInv
<1>6. CASE (\E r \in net : LoseRequest(r)) \/ (\E r \in sent : Repeat(r))
  <2>1. NetSum /\ TypeInv' BY <1>0, <1>6, NetworkStep
  <2> QED BY <1>0, <2>1, NumberNet, UsedOther, GrantOther, ReplayOther, AccountOther DEF LifeInv
<1>7. CASE UNCHANGED vars
  <2>1. TypeInv' BY <1>0, <1>7 DEF vars, TypeInv, TypeOK, HandlerOk, CmdOk
  <2>2. NetSum BY <1>7 DEF vars, NetSum
  <2> QED BY <1>0, <2>1, <2>2, NumberNet, UsedOther, GrantOther, ReplayOther, AccountOther DEF LifeInv
<1> QED BY <1>1, <1>2, <1>3, <1>4, <1>5, <1>6, <1>7 DEF Next, BoardStep

THEOREM LifeInvariant == Spec => []LifeInv
BY LifeInit, LifeStep, PTL DEF Spec

(* Whatever is lost, repeated or restarted, keys, numbers and nonces stay  *)
(* in their ranges; no command starts past the bound.                      *)
THEOREM KeyLifeTypes == Spec => []TypeOK
<1>1. LifeInv => TypeOK BY DEF LifeInv, TypeInv
<1> QED BY <1>1, LifeInvariant, PTL

(* Any number of PCs may claim, unclaim and reboot, any number of requests *)
(* with a proof may arrive again, at any time and over any number of       *)
(* restarts: the board carries each of them out at most once.              *)
THEOREM ReplaysRefused == Spec => []ReplayRefused
<1>1. LifeInv => ReplayRefused
  <2> SUFFICES ASSUME LifeInv, NEW i \in 1..MaxId PROVE accepted[i] <= 1 BY DEF ReplayRefused
  <2>1. accepted[i] = 0 \/ accepted[i] = 1 BY DEF LifeInv, ReplayInv
  <2> QED BY <2>1
<1> QED BY <1>1, LifeInvariant, PTL

(* A PC whose claim ended with a key owns the board until a proof of that  *)
(* key or an erased flash releases it: restarts, power losses and the      *)
(* claims of other PCs do not.                                             *)
THEOREM OwnersKeep == Spec => []OwnerKeeps
<1>1. LifeInv => OwnerKeeps
  <2> SUFFICES ASSUME LifeInv, NEW p \in Pcs, owner[p] \notin released PROVE board.nvs = owner[p]
    BY DEF OwnerKeeps
  <2>1. owner[p] \in Keys \ released BY TypeFacts DEF LifeInv, TypeInv
  <2>2. Granted(owner[p]) BY DEF Granted
  <2> QED BY <2>1, <2>2 DEF LifeInv, GrantInv
<1> QED BY <1>1, LifeInvariant, PTL

(* The board never comes up with a key that nobody has, unless a fault or  *)
(* an operator's revoke took the copy.                                     *)
THEOREM KeysAccounted == Spec => []KeyAccounted
<1>1. LifeInv => KeyAccounted BY DEF LifeInv, AccountInv
<1> QED BY <1>1, LifeInvariant, PTL
=============================================================================
