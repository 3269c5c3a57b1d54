-------------------------- MODULE AdminApprovals --------------------------
(***************************************************************************)
(* Approvals of security operations of the admin API: an admin files one   *)
(* for a request, accounts give it their approvals with a factor, and the  *)
(* request that names it consumes it in the transaction that performs the  *)
(* operation. Every change is told in the realm's audit log, a hash chain  *)
(* the same transaction appends to.                                        *)
(*                                                                         *)
(* A request is a process: what it reads outside its transaction, the wait *)
(* for the approval's row, the conditional UPDATE, the wait for the chain, *)
(* the append and the commit are steps of their own. `clock` is the        *)
(* database's; a node's own clock is off by one of Skews whenever it is    *)
(* read.                                                                   *)
(***************************************************************************)
EXTENDS Integers, Sequences, FiniteSets, FiniteSetsExt

CONSTANTS
  Approvals, Accounts, Requester, Procs,
  Required,   \* approvals one request needs (approvalsRequiredFor)
  Skews,      \* how far a node's clock may be off
  Lifetime,   \* APPROVAL_LIFETIME_MS
  Loads,      \* bounds: what may happen, how many approvals and requests, the last tick
  None

Open == {"pending", "approved"}
Statuses == Open \cup {"denied", "cancelled", "consumed", "expired"}

ASSUME ApprovalAssumption ==
  /\ Approvals \subseteq Nat /\ Requester \in Accounts /\ None \notin Procs \cup Approvals
  /\ Required \subseteq Nat \ {0} /\ Skews \subseteq Int
  /\ Lifetime \in Nat
  /\ None \notin [status : Statuses, given : Seq(Accounts), required : Nat, expires : Int]

VARIABLES
  load, asks, clock,
  row,         \* admin_approvals
  rowLock,     \* the process that holds the row's lock
  log,         \* admin_audit_log: the previous row's hash, by seq
  checkpoint,  \* the newest of admin_audit_log_checkpoints, 0 without one
  logLock,   \* the advisory lock of the realm's audit log
  pr,          \* the requests
  told,        \* history: what the audit rows told, in the order of commits
  uses,        \* history: the operations performed, by approval
  clashes      \* history: appends that met a row of their seq

vars == <<load, asks, clock, row, rowLock, log, checkpoint, logLock, pr, told, uses, clashes>>

Filed(need, expires) ==
  [status |-> "pending", given |-> <<>>, required |-> need, expires |-> expires]

Idle == [kind |-> "none", pc |-> "idle", a |-> None, by |-> None, count |-> 0,
         status |-> "none", now |-> 0, staged |-> None, outcome |-> "none", head |-> 0]

Init ==
  /\ load \in Loads /\ asks = 0 /\ clock = 0
  /\ row = [a \in Approvals |-> None]
  /\ rowLock = [a \in Approvals |-> None]
  /\ log = [s \in {} |-> 0] /\ checkpoint = 0 /\ logLock = None
  /\ pr = [p \in Procs |-> Idle]
  /\ told = <<>> /\ uses = [a \in Approvals |-> <<>>] /\ clashes = 0

At(p, pc) == pr[p].pc = pc
Go(p, changed) == pr' = [pr EXCEPT ![p] = changed]
history == <<told, uses, clashes>>
chain == <<log, checkpoint, logLock>>

----------------------------------------------------------------------------
(* What an approval allows *)

Given(r) == {r.given[i] : i \in DOMAIN r.given}

\* approvalStanding for a human requester: its own step-up, and the others'.
mayApprove(r, account, holdsApprove) ==
  LET others == Given(r) \ {Requester}
  IN  /\ account \notin Given(r)
      /\ \/ account = Requester
         \/ holdsApprove /\ Cardinality(others) < r.required - 1

shownStatus(r, now) == IF r.status \in Open /\ now >= r.expires THEN "expired" ELSE r.status

\* mutant: the caller's clock alone
CallersTime(now) == now

\* The later of the caller's time and the database's, as the check runs.
checkedAt(now) == Max({now, clock})

openApproval(r, now) == r.expires > checkedAt(now)

----------------------------------------------------------------------------
(* Requests arrive and read *)

Ask(p, kind) ==
  /\ At(p, "idle") /\ kind \in load.kinds /\ asks < load.asks
  /\ asks' = asks + 1

\* completeApproval and denyApproval: the approval as the approver may decide it.
approvalTheApproverMayDecide(p, kind, a, account) ==
  /\ kind \in {"approve", "deny"} /\ Ask(p, kind) /\ row[a] # None
  /\ \E skew \in Skews, holdsApprove \in BOOLEAN :
       /\ shownStatus(row[a], clock + skew) = "pending"
       /\ mayApprove(row[a], account, holdsApprove)
       /\ Go(p, [Idle EXCEPT !.kind = kind, !.a = a, !.by = account,
                             !.count = Len(row[a].given), !.now = clock + skew,
                             !.pc = IF kind = "approve" THEN "verify" ELSE "lock"])
  /\ UNCHANGED <<load, clock, row, rowLock, chain, history>>

\* The factor verifies the answer, or refuses it: that is told and no more.
verify(p) ==
  /\ At(p, "verify")
  /\ \/ \E skew \in Skews : Go(p, [pr[p] EXCEPT !.pc = "lock", !.now = clock + skew])
     \/ Go(p, [pr[p] EXCEPT !.pc = "append", !.outcome = "denied"])
  /\ UNCHANGED <<load, asks, clock, row, rowLock, chain, history>>

\* approvals.cancel names the version its requester saw (If-Match).
seeVersion(p, a) ==
  /\ Ask(p, "cancel") /\ row[a] # None /\ row[a].status \in Open
  /\ Go(p, [Idle EXCEPT !.kind = "cancel", !.a = a, !.by = Requester, !.pc = "arrive",
                        !.count = Len(row[a].given), !.status = row[a].status])
  /\ UNCHANGED <<load, clock, row, rowLock, chain, history>>

\* The gate of a security operation: the approval its header names is approved.
approvalGate(p, a) ==
  /\ Ask(p, "use") /\ row[a] # None
  /\ \E skew \in Skews : shownStatus(row[a], clock + skew) = "approved"
  /\ Go(p, [Idle EXCEPT !.kind = "use", !.a = a, !.by = Requester, !.pc = "arrive"])
  /\ UNCHANGED <<load, clock, row, rowLock, chain, history>>

\* The transaction begins: the time its write will pass on is read.
arrive(p) ==
  /\ At(p, "arrive")
  /\ \E skew \in Skews : Go(p, [pr[p] EXCEPT !.pc = "lock", !.now = clock + skew])
  /\ UNCHANGED <<load, asks, clock, row, rowLock, chain, history>>

\* approvals.create: an INSERT, in one transaction with its audit row.
fileApproval(p, a) ==
  /\ Ask(p, "file") /\ row[a] = None /\ \A q \in Procs : pr[q].a # a
  /\ a <= load.files /\ \A b \in Approvals : b < a => row[b] # None
  /\ \E skew \in Skews, need \in Required :
       Go(p, [Idle EXCEPT !.kind = "file", !.a = a, !.by = Requester, !.pc = "append",
                          !.outcome = "succeeded",
                          !.staged = Filed(need, clock + skew + Lifetime)])
  /\ UNCHANGED <<load, clock, row, rowLock, chain, history>>

----------------------------------------------------------------------------
(* The approval's row *)

lockApproval(p) ==
  /\ At(p, "lock") /\ rowLock[pr[p].a] = None
  /\ rowLock' = [rowLock EXCEPT ![pr[p].a] = p]
  /\ Go(p, [pr[p] EXCEPT !.pc = "update"])
  /\ UNCHANGED <<load, asks, clock, row, chain, history>>

addApproval(r, q) ==
  /\ r.status = "pending" /\ Len(r.given) = q.count
  /\ q.by \notin Given(r) /\ openApproval(r, q.now)

deny(r, q) ==
  r.status = "pending" /\ Len(r.given) = q.count /\ openApproval(r, q.now)

cancel(r, q) ==
  /\ r.status \in Open /\ r.status = q.status /\ Len(r.given) = q.count
  /\ openApproval(r, q.now)

consume(r, q) == r.status = "approved" /\ openApproval(r, q.now)

\* The condition of the UPDATE each kind of request makes.
Matches(r, q) ==
  CASE q.kind = "approve" -> addApproval(r, q)
    [] q.kind = "deny" -> deny(r, q)
    [] q.kind = "cancel" -> cancel(r, q)
    [] q.kind = "use" -> consume(r, q)

Changed(r, q) ==
  CASE q.kind = "approve" ->
         [r EXCEPT !.given = Append(@, q.by),
                   !.status = IF Len(r.given) + 1 >= r.required THEN "approved" ELSE "pending"]
    [] q.kind = "deny" -> [r EXCEPT !.status = "denied"]
    [] q.kind = "cancel" -> [r EXCEPT !.status = "cancelled"]
    [] q.kind = "use" -> [r EXCEPT !.status = "consumed"]

\* The rows a rollback or a commit gives back.
Freed(p) == [a \in Approvals |-> IF rowLock[a] = p THEN None ELSE rowLock[a]]
LogFreed(p) == IF logLock = p THEN None ELSE logLock

\* A rolled back admin call is told in a transaction of its own
\* (auditRefusal); a decision on the approval page is not.
Refused(p, outcome) ==
  IF pr[p].kind \in {"cancel", "use"}
  THEN [pr[p] EXCEPT !.pc = "append", !.staged = None, !.outcome = outcome]
  ELSE Idle

\* An UPDATE that met no row: the transaction throws. The gate's refusal comes
\* before the handler, a cancel's from inside it.
NoRow(p) == Refused(p, IF pr[p].kind = "use" THEN "denied" ELSE "failed")

update(p) ==
  LET q == pr[p]  r == row[q.a]
  IN  /\ At(p, "update")
      /\ IF Matches(r, q)
         THEN /\ Go(p, [q EXCEPT !.staged = Changed(r, q), !.outcome = "succeeded",
                                 !.pc = IF q.kind = "use" THEN "handle" ELSE "append",
                                 !.now = clock])
              /\ UNCHANGED rowLock
         ELSE Go(p, NoRow(p)) /\ rowLock' = Freed(p)
      /\ UNCHANGED <<load, asks, clock, row, chain, history>>

\* The operation's own handler, in the transaction that consumed the approval.
handle(p) ==
  /\ At(p, "handle")
  /\ \/ Go(p, [pr[p] EXCEPT !.pc = "append"]) /\ UNCHANGED rowLock
     \/ Go(p, Refused(p, "failed")) /\ rowLock' = Freed(p)
  /\ UNCHANGED <<load, asks, clock, row, chain, history>>

----------------------------------------------------------------------------
(* The audit chain *)

\* mutant: appends do not wait for each other
lockNothing(p) ==
  /\ At(p, "append")
  /\ Go(p, [pr[p] EXCEPT !.pc = "head"])
  /\ UNCHANGED <<load, asks, clock, row, rowLock, chain, history>>

lockRealmChain(p) ==
  /\ At(p, "append") /\ logLock = None
  /\ logLock' = p
  /\ Go(p, [pr[p] EXCEPT !.pc = "head"])
  /\ UNCHANGED <<load, asks, clock, row, rowLock, log, checkpoint, history>>

\* The newest row, else the newest checkpoint, else the genesis hash.
ChainHead == IF DOMAIN log = {} THEN checkpoint ELSE Max(DOMAIN log)

readChainHead(p) ==
  /\ At(p, "head")
  /\ Go(p, [pr[p] EXCEPT !.pc = "insert", !.head = ChainHead])
  /\ UNCHANGED <<load, asks, clock, row, rowLock, chain, history>>

Entry(q) ==
  [op |-> q.kind, a |-> q.a, outcome |-> q.outcome,
   approvals |-> IF q.kind = "use" /\ q.staged # None THEN q.staged.given ELSE <<>>]

\* The audit row is inserted and the transaction commits, or its seq is taken
\* and nothing of it stays.
appendAdminAudit(p) ==
  LET q == pr[p]  seq == q.head + 1
  IN  /\ At(p, "insert")
      /\ rowLock' = Freed(p) /\ logLock' = LogFreed(p) /\ Go(p, Idle)
      /\ IF seq \in DOMAIN log
         THEN clashes' = clashes + 1 /\ UNCHANGED <<row, log, told, uses>>
         ELSE /\ log' = [s \in DOMAIN log \cup {seq} |-> IF s = seq THEN q.head ELSE log[s]]
              /\ told' = Append(told, Entry(q))
              /\ row' = IF q.staged = None THEN row ELSE [row EXCEPT ![q.a] = q.staged]
              /\ uses' = IF q.kind = "use" /\ q.staged # None
                         THEN [uses EXCEPT ![q.a] = Append(@, q.now)] ELSE uses
              /\ UNCHANGED clashes
      /\ UNCHANGED <<load, asks, clock, checkpoint>>

\* A statement fails, the node dies or the connection is lost: the transaction
\* rolls back, and no audit row could be written either.
Fails(p) ==
  /\ "failure" \in load.kinds /\ ~At(p, "idle")
  /\ rowLock' = Freed(p) /\ logLock' = LogFreed(p) /\ Go(p, Idle)
  /\ UNCHANGED <<load, asks, clock, row, log, checkpoint, history>>

----------------------------------------------------------------------------
(* Beside the requests *)

Lapsed(r, now) == r.status \in Open /\ ~openApproval(r, now)

\* One row of the expiry job's batch; rows somebody holds are passed over.
expireLapsed(a) ==
  /\ row[a] # None /\ rowLock[a] = None
  /\ \E skew \in Skews : Lapsed(row[a], clock + skew)
  /\ row' = [row EXCEPT ![a].status = "expired"]
  /\ UNCHANGED <<load, asks, clock, rowLock, chain, pr, history>>

\* admin_audit_log_prune: a checkpoint, and the rows through it deleted.
prune(through) ==
  /\ "prune" \in load.kinds /\ logLock = None /\ through \in DOMAIN log
  /\ checkpoint' = through
  /\ log' = [s \in {s \in DOMAIN log : s > through} |-> log[s]]
  /\ UNCHANGED <<load, asks, clock, row, rowLock, logLock, pr, history>>

Tick ==
  /\ clock < load.until /\ clock' = clock + 1
  /\ UNCHANGED <<load, asks, row, rowLock, chain, pr, history>>

Step(p) ==
  \/ verify(p) \/ arrive(p) \/ lockApproval(p) \/ update(p) \/ handle(p)
  \/ lockRealmChain(p) \/ readChainHead(p) \/ appendAdminAudit(p) \/ Fails(p)

Next ==
  \/ \E p \in Procs :
       \/ \E a \in Approvals :
            \/ fileApproval(p, a) \/ seeVersion(p, a) \/ approvalGate(p, a)
            \/ \E kind \in load.kinds, account \in Accounts :
                 approvalTheApproverMayDecide(p, kind, a, account)
       \/ Step(p)
  \/ \E a \in Approvals : expireLapsed(a)
  \/ \E s \in DOMAIN log : prune(s)
  \/ Tick

Spec == Init /\ [][Next]_vars

----------------------------------------------------------------------------
(* Properties *)

TypeOK ==
  /\ \A a \in Approvals : row[a] # None =>
       /\ row[a].status \in Statuses
       /\ Given(row[a]) \subseteq Accounts /\ row[a].required \in Required
  /\ \A a \in Approvals : rowLock[a] # None => pr[rowLock[a]].a = a
  /\ checkpoint \in Nat /\ DOMAIN log \subseteq Nat

\* One approval performs one operation, however many requests name it at once
\* and however its transactions end (consume).
UsedOnce == \A a \in Approvals : Len(uses[a]) <= 1

\* Nothing is performed on an approval that has run out, although the gate
\* looked at it before, the write may wait for its row, and the node's clock
\* may be behind: at the moment of the write the database's clock had not
\* reached the expiry (checkedAt, lockApproval).
UsedInTime ==
  \A a \in Approvals : \A i \in DOMAIN uses[a] : uses[a][i] < row[a].expires

\* An approved request has its requester's own step-up and exactly as many
\* others as it needs, no account twice, although the accounts decide
\* concurrently on what they read before (approvalStanding, addApproval).
QuorumKept ==
  \A a \in Approvals :
    (row[a] # None /\ row[a].status \in {"approved", "consumed"}) =>
      /\ Requester \in Given(row[a])
      /\ Len(row[a].given) = row[a].required
      /\ Cardinality(Given(row[a])) = row[a].required

Times(op, a) ==
  Cardinality({i \in DOMAIN told : told[i].op = op /\ told[i].a = a
                                   /\ told[i].outcome = "succeeded"})

\* The audit log tells exactly what happened: as many approvals as the row
\* holds, one use if it was consumed, with the approvals it was used with, and
\* no decision that was rolled back; so no outcome is rewritten by the expiry
\* job or by a request that read before (completeApproval, inTransaction).
AuditTellsAll ==
  \A a \in Approvals : row[a] # None =>
    /\ Times("file", a) = 1
    /\ Times("approve", a) = Len(row[a].given)
    /\ Times("deny", a) = (IF row[a].status = "denied" THEN 1 ELSE 0)
    /\ Times("cancel", a) = (IF row[a].status = "cancelled" THEN 1 ELSE 0)
    /\ Times("use", a) = Len(uses[a]) /\ (uses[a] # <<>>) = (row[a].status = "consumed")
    /\ \A i \in DOMAIN told :
         (told[i].op = "use" /\ told[i].a = a /\ told[i].outcome = "succeeded")
           => told[i].approvals = row[a].given

\* The audit log verifies from its newest checkpoint, whatever is appended,
\* rolled back and pruned, also when everything was pruned
\* (verifyAdminAuditChain, admin_audit_log_prune).
AuditLogVerifies ==
  \A s \in DOMAIN log :
    /\ s > checkpoint
    /\ log[s] = s - 1
    /\ s - 1 \in DOMAIN log \cup {checkpoint}

\* No decision is lost to another's audit row: appends of a realm never meet
\* on one seq (lockRealmChain).
NoAppendClash == clashes = 0

\* An approval is used once, before its expiry and with its quorum.
UsedRightly == UsedOnce /\ UsedInTime /\ QuorumKept

\* The audit log tells what happened, verifies, and loses no decision to an
\* append beside it.
AuditKept == TypeOK /\ AuditTellsAll /\ AuditLogVerifies /\ NoAppendClash
============================================================================
