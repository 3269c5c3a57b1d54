------------------------- MODULE AdminPlane_proofs -------------------------
(***************************************************************************)
(* The two records of what administrators do. An approval is used once, in *)
(* time and with its quorum, and the audit log tells what happened and     *)
(* verifies, for any accounts, requests and clocks. An untouched chain of  *)
(* admin events verifies and raises no alarm; damage stays to be seen.     *)
(***************************************************************************)
EXTENDS AdminApprovals, AdminChain, FiniteSetTheorems, SequenceTheorems, WellFoundedInduction, TLAPS

(* The approvals *)

(* The invariant *)

RowType == [status : Statuses, given : Seq(Accounts), required : Required, expires : Int]

Kinds == {"file", "approve", "deny", "cancel", "use"}
Reading == {"verify", "arrive", "lock", "update"}
Telling == {"append", "head", "insert"}
ProcType ==
  [kind : Kinds \cup {"none"}, pc : Reading \cup Telling \cup {"idle", "handle"},
   a : Approvals \cup {None}, by : Accounts \cup {None}, count : Nat,
   status : {"none", "pending", "approved"}, now : Int, staged : RowType \cup {None},
   outcome : {"none", "succeeded", "denied", "failed"}, head : Nat]
EntryType ==
  [op : Kinds \cup {"none"}, a : Approvals \cup {None},
   outcome : {"none", "succeeded", "denied", "failed"}, approvals : Seq(Accounts)]

Others(r) == Given(r) \ {Requester}

\* No account gave twice, and no more gave than are needed: of the others, one
\* less than all.
RowOK(r) ==
  /\ r \in RowType
  /\ IsFiniteSet(Given(r)) /\ Cardinality(Given(r)) = Len(r.given)
  /\ Len(r.given) <= r.required /\ Cardinality(Others(r)) <= r.required - 1
  /\ r.status = "pending" => Len(r.given) < r.required
  /\ r.status \in {"approved", "consumed"} => Len(r.given) = r.required

\* What the request q, which holds the row's lock, makes of the row r.
Staged(r, q) ==
  /\ q.staged.required = r.required /\ q.staged.expires = r.expires
  /\ q.kind = "approve" =>
       /\ r.status = "pending" /\ q.staged.status \in Open
       /\ Len(q.staged.given) = Len(r.given) + 1
  /\ q.kind # "approve" => q.staged.given = r.given
  /\ q.kind = "deny" => r.status = "pending" /\ q.staged.status = "denied"
  /\ q.kind = "cancel" => r.status \in Open /\ q.staged.status = "cancelled"
  /\ q.kind = "use" => r.status = "approved" /\ q.staged.status = "consumed" /\ q.now < r.expires

\* An approver's reading is of now, or of fewer approvals than there are by now.
Standing(r, q) ==
  /\ q.count <= Len(r.given)
  /\ q.count = Len(r.given) /\ q.by # Requester => Cardinality(Others(r)) < r.required - 1

ProcOK(rw, rl, p, q) ==
  /\ q \in ProcType
  /\ q.kind = "none" => q.pc = "idle" /\ q.a = None
  /\ q.kind # "none" => q.pc # "idle" /\ q.a \in Approvals
  /\ q.kind \notin {"none", "file"} => rw[q.a] # None
  /\ (q.outcome = "succeeded") = (q.staged # None)
  /\ q.pc \in Reading \cup {"idle"} => q.staged = None
  /\ q.pc = "update" => rl[q.a] = p
  /\ q.staged # None => RowOK(q.staged)
  /\ q.kind = "file" =>
       rw[q.a] = None /\ q.staged # None /\ q.staged.status = "pending" /\ q.staged.given = <<>>
  /\ q.kind # "file" /\ q.staged # None => rl[q.a] = p /\ Staged(rw[q.a], q)
  /\ q.kind = "approve" /\ q.pc \in Reading => q.by \in Accounts /\ Standing(rw[q.a], q)

\* What was told of an approval, and the times it was used at.
Told(a, r, us) ==
  IF r = None
  THEN /\ us = <<>> /\ \A op \in Kinds : Times(op, a) = 0
       /\ \A i \in DOMAIN told : told[i].a = a => told[i].outcome # "succeeded"
  ELSE /\ Times("file", a) = 1
       /\ Times("approve", a) = Len(r.given)
       /\ Times("deny", a) = (IF r.status = "denied" THEN 1 ELSE 0)
       /\ Times("cancel", a) = (IF r.status = "cancelled" THEN 1 ELSE 0)
       /\ IF r.status = "consumed"
          THEN Len(us) = 1 /\ Times("use", a) = 1 /\ us[1] < r.expires
          ELSE us = <<>> /\ Times("use", a) = 0
       /\ \A i \in DOMAIN told :
            (told[i].op = "use" /\ told[i].a = a /\ told[i].outcome = "succeeded")
              => told[i].approvals = r.given /\ r.status = "consumed"

Locks == \A a \in Approvals : rowLock[a] # None => pr[rowLock[a]].a = a /\ rowLock[a] \in Procs

Filing ==
  \A p, o \in Procs : p # o /\ pr[p].kind = "file" => pr[o].a # pr[p].a

AInv ==
  /\ clock \in Nat /\ told \in Seq(EntryType) /\ DOMAIN row = Approvals
  /\ uses \in [Approvals -> Seq(Int)] /\ DOMAIN pr = Procs
  /\ rowLock \in [Approvals -> Procs \cup {None}]
  /\ \A a \in Approvals : row[a] # None => RowOK(row[a])
  /\ \A p \in Procs : ProcOK(row, rowLock, p, pr[p])
  /\ \A a \in Approvals : Told(a, row[a], uses[a])
  /\ Locks /\ Filing

\* The log runs without a gap from the checkpoint to its head, where the one
\* process that holds its lock appends.
LInv ==
  /\ clashes = 0 /\ checkpoint \in Nat
  /\ \E n \in Nat : checkpoint <= n /\ DOMAIN log = (checkpoint + 1)..n
  /\ \A s \in DOMAIN log : log[s] = s - 1
  /\ \A p \in Procs : pr[p].pc \in {"head", "insert"} => logLock = p
  /\ \A p \in Procs : pr[p].pc = "insert" => pr[p].head = ChainHead
-------------------------------------------------------------------------
(* Rows *)

LEMMA MaxOfTwo ==
  ASSUME NEW x \in Int, NEW y \in Int
  PROVE  y <= Max({x, y})
<1>1. \E m \in {x, y} : \A k \in {x, y} : m >= k
  OBVIOUS
<1>2. Max({x, y}) \in {x, y} /\ \A k \in {x, y} : Max({x, y}) >= k
  BY <1>1 DEF Max
<1>3. Max({x, y}) >= y /\ Max({x, y}) \in Int
  BY <1>2
<1> HIDE DEF Max
<1> QED BY <1>3

\* What an open approval is open at: the database's time too.
LEMMA OpenInTime ==
  ASSUME NEW r, r.expires \in Int, NEW now \in Int, clock \in Nat, openApproval(r, now)
  PROVE  clock < r.expires
<1>1. r.expires > Max({now, clock})
  BY DEF openApproval, checkedAt
<1>2. clock <= Max({now, clock}) /\ Max({now, clock}) \in Int
  <2>1. \E m \in {now, clock} : \A k \in {now, clock} : m >= k
    OBVIOUS
  <2>2. Max({now, clock}) \in {now, clock}
    BY <2>1 DEF Max
  <2> HIDE DEF Max
  <2> QED BY <2>2, MaxOfTwo
<1> HIDE DEF Max
<1> QED BY <1>1, <1>2

LEMMA GivenAppend ==
  ASSUME NEW r, NEW r2, NEW x \in Accounts, r.given \in Seq(Accounts), r2.given = Append(r.given, x)
  PROVE  /\ Given(r2) = Given(r) \cup {x} /\ Len(r2.given) = Len(r.given) + 1
         /\ r2.given \in Seq(Accounts)
<1> DEFINE g == r.given
           f == r2.given
<1>1. /\ f \in Seq(Accounts) /\ Len(f) = Len(g) + 1 /\ Len(g) \in Nat
      /\ DOMAIN f = 1..Len(f) /\ DOMAIN g = 1..Len(g)
      /\ f[Len(g) + 1] = x /\ \A i \in DOMAIN g : f[i] = g[i]
  OBVIOUS
<1> HIDE DEF f, g
<1>2. DOMAIN f = DOMAIN g \cup {Len(g) + 1}
  BY <1>1
<1>3. {f[i] : i \in DOMAIN f} = {g[i] : i \in DOMAIN g} \cup {x}
  BY <1>1, <1>2
<1> QED BY <1>1, <1>3 DEF Given, f, g

\* An account that may approve, and has not, leaves the row in order.
LEMMA RowAppend ==
  ASSUME NEW r, RowOK(r), r.status = "pending", NEW x \in Accounts, x \notin Given(r),
         x # Requester => Cardinality(Others(r)) < r.required - 1, NEW r2,
         r2.given = Append(r.given, x), r2.required = r.required, r2.expires = r.expires,
         r2.status = IF Len(r.given) + 1 >= r.required THEN "approved" ELSE "pending",
         r2 = [status |-> r2.status, given |-> r2.given, required |-> r2.required, expires |-> r2.expires]
  PROVE  RowOK(r2) /\ r2.status \in Open /\ Len(r2.given) = Len(r.given) + 1
<1>1. /\ r \in RowType /\ IsFiniteSet(Given(r)) /\ Cardinality(Given(r)) = Len(r.given)
      /\ Cardinality(Others(r)) <= r.required - 1 /\ Len(r.given) < r.required
  BY DEF RowOK
<1>2. r.required \in Nat \ {0} /\ r.given \in Seq(Accounts) /\ Len(r.given) \in Nat
  BY <1>1, ApprovalAssumption DEF RowType
<1>3. r.expires \in Int /\ r.required \in Required /\ r2.status \in Statuses
  BY <1>1 DEF RowType, Statuses, Open
<1>4. Given(r2) = Given(r) \cup {x} /\ Len(r2.given) = Len(r.given) + 1 /\ r2.given \in Seq(Accounts)
  BY <1>2, GivenAppend, Zenon
<1>5. r2 \in RowType
  BY <1>3, <1>4 DEF RowType
<1>6. IsFiniteSet(Given(r2)) /\ Cardinality(Given(r2)) = Len(r2.given)
  <2>1. IsFiniteSet(Given(r) \cup {x}) /\ Cardinality(Given(r) \cup {x}) = Cardinality(Given(r)) + 1
    BY <1>1, FS_AddElement, Zenon
  <2> QED BY <1>1, <1>4, <2>1, Zenon
<1>7. IsFiniteSet(Others(r)) /\ Cardinality(Others(r)) \in Nat
  <2>1. Others(r) \in SUBSET Given(r)
    BY DEF Others
  <2>2. IsFiniteSet(Others(r))
    BY <1>1, <2>1, FS_Subset
  <2> QED BY <2>2, FS_CardinalityType
<1>8. Cardinality(Others(r2)) <= r.required - 1
  <2>1. CASE x = Requester
    <3>1. Others(r2) = Others(r)
      BY <1>4, <2>1 DEF Others
    <3> QED BY <1>1, <3>1
  <2>2. CASE x # Requester
    <3>1. Others(r2) = Others(r) \cup {x}
      <4>1. (Given(r) \cup {x}) \ {Requester} = (Given(r) \ {Requester}) \cup {x}
        BY <2>2
      <4> QED BY <1>4, <4>1 DEF Others
    <3>2. x \notin Others(r)
      BY DEF Others
    <3>3. Cardinality(Others(r) \cup {x}) = Cardinality(Others(r)) + 1
      BY <1>7, <3>2, FS_AddElement, Zenon
    <3>4. Cardinality(Others(r2)) = Cardinality(Others(r)) + 1
      BY <3>1, <3>3
    <3> QED BY <1>2, <1>7, <2>2, <3>4
  <2> QED BY <2>1, <2>2
<1>9. /\ r2.status \in Open /\ Len(r2.given) <= r2.required
      /\ r2.status = "pending" => Len(r2.given) < r2.required
      /\ r2.status \in {"approved", "consumed"} => Len(r2.given) = r2.required
  BY <1>1, <1>2, <1>4 DEF Open
<1> QED BY <1>4, <1>5, <1>6, <1>8, <1>9 DEF RowOK

\* A decision that adds no account.
LEMMA RowStatus ==
  ASSUME NEW r, RowOK(r), NEW st \in {"denied", "cancelled", "consumed", "expired"},
         st = "consumed" => r.status = "approved", NEW r2, r2 = [r EXCEPT !.status = st]
  PROVE  /\ RowOK(r2) /\ r2.required = r.required /\ r2.expires = r.expires
         /\ r2.status = st /\ r2.given = r.given
<1>1. /\ r2.status = st /\ r2.given = r.given /\ r2.required = r.required /\ r2.expires = r.expires
      /\ r2 \in RowType
  BY DEF RowOK, RowType, Statuses
<1>2. Given(r2) = Given(r) /\ Others(r2) = Others(r)
  BY <1>1 DEF Given, Others
<1> QED BY <1>1, <1>2 DEF RowOK

\* A row in order has its quorum when it counts as approved.
LEMMA RowQuorum ==
  ASSUME NEW r, RowOK(r), r.status \in {"approved", "consumed"}
  PROVE  Requester \in Given(r) /\ Len(r.given) = r.required /\ Cardinality(Given(r)) = r.required
<1>1. /\ Len(r.given) = r.required /\ Cardinality(Given(r)) = Len(r.given)
      /\ Cardinality(Others(r)) <= r.required - 1 /\ r.required \in Nat
  BY ApprovalAssumption DEF RowOK, RowType
<1>2. Requester \notin Given(r) => Others(r) = Given(r)
  BY DEF Others
<1>3. Requester \in Given(r)
  BY <1>1, <1>2
<1> QED BY <1>1, <1>3

LEMMA RowNotNone ==
  ASSUME NEW r, RowOK(r)
  PROVE  r # None
<1>1. r \in [status : Statuses, given : Seq(Accounts), required : Required, expires : Int]
  BY DEF RowOK, RowType
<1>2. Required \subseteq Nat
  BY ApprovalAssumption
<1>3. r \in [status : Statuses, given : Seq(Accounts), required : Nat, expires : Int]
  BY <1>1, <1>2
<1> QED BY <1>3, ApprovalAssumption
-------------------------------------------------------------------------
(* What is told *)

LEMMA TimesAppend ==
  ASSUME told \in Seq(EntryType), NEW e \in EntryType, told' = Append(told, e), NEW op, NEW a
  PROVE  /\ Times(op, a)' = Times(op, a) + (IF e.op = op /\ e.a = a /\ e.outcome = "succeeded" THEN 1 ELSE 0)
         /\ Times(op, a) \in Nat
<1> DEFINE P(t, i) == t[i].op = op /\ t[i].a = a /\ t[i].outcome = "succeeded"
           A == {i \in DOMAIN told : P(told, i)}
           B == {i \in DOMAIN told' : P(told', i)}
           n == Len(told) + 1
<1>1. /\ Len(told) \in Nat /\ DOMAIN told = 1..Len(told) /\ DOMAIN told' = DOMAIN told \cup {n}
      /\ n \notin DOMAIN told /\ told'[n] = e /\ \A i \in DOMAIN told : told'[i] = told[i]
  OBVIOUS
<1>2. IsFiniteSet(A) /\ Cardinality(A) \in Nat
  <2>1. A \in SUBSET (1..Len(told))
    BY <1>1
  <2>2. IsFiniteSet(1..Len(told))
    BY <1>1, FS_Interval
  <2> HIDE DEF A
  <2>3. IsFiniteSet(A)
    BY <2>1, <2>2, FS_Subset
  <2> QED BY <2>3, FS_CardinalityType
<1>3. n \notin A /\ B = IF e.op = op /\ e.a = a /\ e.outcome = "succeeded" THEN A \cup {n} ELSE A
  BY <1>1
<1>4. Times(op, a) = Cardinality(A) /\ Times(op, a)' = Cardinality(B)
  BY DEF Times
<1> HIDE DEF A, B, n
<1>5. Cardinality(A \cup {n}) = Cardinality(A) + 1
  BY <1>2, <1>3, FS_AddElement
<1> QED BY <1>2, <1>3, <1>4, <1>5
-------------------------------------------------------------------------
(* A request's own steps *)

LEMMA IdleFields ==
  /\ Idle \in ProcType /\ Idle.kind = "none" /\ Idle.pc = "idle" /\ Idle.a = None
  /\ Idle.staged = None /\ Idle.outcome = "none"
BY DEF Idle, ProcType

LEMMA IdleOK ==
  ASSUME NEW rw, NEW rl, NEW p
  PROVE  ProcOK(rw, rl, p, Idle)
BY IdleFields DEF ProcOK, Reading

\* The parts of a request; one that is idle holds no row.
LEMMA ProcParts ==
  ASSUME AInv, NEW p \in Procs
  PROVE  /\ ProcOK(row, rowLock, p, pr[p]) /\ pr[p] \in ProcType
         /\ \A a \in Approvals : rowLock[a] = p => pr[p].a = a
         /\ pr[p].pc = "idle" => /\ pr[p].kind = "none" /\ pr[p].a = None
                                 /\ \A a \in Approvals : rowLock[a] # p
         /\ pr[p].pc # "idle" => pr[p].kind \in Kinds /\ pr[p].a \in Approvals
<1>1. ProcOK(row, rowLock, p, pr[p])
  BY DEF AInv
<1>2. pr[p] \in ProcType
  BY <1>1 DEF ProcOK
<1>3. \A a \in Approvals : rowLock[a] = p => pr[p].a = a
  BY ApprovalAssumption DEF AInv, Locks
<1>4. pr[p].pc = "idle" => pr[p].kind = "none" /\ pr[p].a = None
  BY <1>1 DEF ProcOK
<1>5. pr[p].pc # "idle" => pr[p].kind # "none" /\ pr[p].a \in Approvals
  BY <1>1 DEF ProcOK
<1>6. pr[p].kind \in Kinds \cup {"none"}
  BY <1>2 DEF ProcType
<1> QED BY <1>1, <1>2, <1>3, <1>4, <1>5, <1>6, ApprovalAssumption

\* A step of p that commits nothing: the locks of the others stay.
LEMMA ProcStep ==
  ASSUME AInv, NEW p \in Procs, NEW q, pr' = [pr EXCEPT ![p] = q], ProcOK(row, rowLock', p, q),
         UNCHANGED <<clock, row, told, uses>>, rowLock' \in [Approvals -> Procs \cup {None}],
         \A a \in Approvals : rowLock'[a] = rowLock[a] \/ (rowLock[a] \in {p, None} /\ rowLock'[a] \in {p, None}),
         \A a \in Approvals : rowLock'[a] = p => q.a = a,
         q.a = pr[p].a \/ q.a = None \/ row[q.a] # None \/ \A o \in Procs \ {p} : pr[o].a # q.a,
         q.kind = "file" => \A o \in Procs \ {p} : pr[o].a # q.a
  PROVE  AInv'
<1>1. /\ DOMAIN pr' = Procs /\ pr'[p] = q /\ \A o \in Procs \ {p} : pr'[o] = pr[o]
  BY DEF AInv
<1>2. ASSUME NEW o \in Procs PROVE ProcOK(row, rowLock', o, pr'[o])
  <2>1. CASE o = p
    BY <1>1, <2>1
  <2>2. CASE o # p
    <3>1. ProcOK(row, rowLock, o, pr[o]) /\ pr'[o] = pr[o]
      BY <1>1, <2>2 DEF AInv
    <3>2. \A a \in Approvals : rowLock[a] = o => rowLock'[a] = o
      BY <2>2, ApprovalAssumption
    <3>3. pr[o].kind # "none" => pr[o].a \in Approvals
      BY <3>1 DEF ProcOK
    <3>4. pr[o].pc # "idle" => pr[o].kind # "none"
      BY <3>1 DEF ProcOK
    <3>5. pr[o].staged # None => pr[o].kind # "none"
      BY <3>1 DEF ProcOK
    <3> QED BY <3>1, <3>2, <3>3, <3>4, <3>5 DEF ProcOK
  <2> QED BY <2>1, <2>2
<1>3. ASSUME NEW a \in Approvals PROVE Told(a, row[a], uses[a])'
  <2>1. Told(a, row[a], uses[a])
    BY DEF AInv
  <2> QED BY <2>1 DEF Told, Times
<1>4. Locks'
  <2>1. ASSUME NEW a \in Approvals, rowLock'[a] # None PROVE pr'[rowLock'[a]].a = a /\ rowLock'[a] \in Procs
    <3>1. CASE rowLock'[a] = p
      BY <1>1, <3>1
    <3>2. CASE rowLock'[a] # p
      <4>1. rowLock'[a] = rowLock[a] /\ rowLock[a] \in Procs \ {p}
        BY <2>1, <3>2 DEF AInv, Locks
      <4> QED BY <1>1, <2>1, <4>1 DEF AInv, Locks
    <3> QED BY <3>1, <3>2
  <2> QED BY <2>1 DEF Locks
<1>5. Filing'
  <2>1. ASSUME NEW m \in Procs, NEW o \in Procs, m # o, pr'[m].kind = "file" PROVE pr'[o].a # pr'[m].a
    <3>1. CASE m = p
      BY <1>1, <2>1, <3>1
    <3>2. CASE m # p /\ o # p
      BY <1>1, <2>1, <3>2 DEF AInv, Filing
    <3>3. CASE m # p /\ o = p
      <4>1. pr'[m] = pr[m] /\ pr[m].kind = "file" /\ ProcOK(row, rowLock, m, pr[m])
        BY <1>1, <2>1, <3>3 DEF AInv
      <4>2. pr[m].a \in Approvals /\ row[pr[m].a] = None
        BY <4>1 DEF ProcOK
      <4>3. pr[p].a # pr[m].a
        BY <3>3, <4>1 DEF AInv, Filing
      <4>4. q.a # pr[m].a
        BY <3>3, <4>2, <4>3, ApprovalAssumption
      <4> QED BY <1>1, <3>3, <4>1, <4>4
    <3> QED BY <3>1, <3>2, <3>3
  <2> QED BY <2>1 DEF Filing
<1>6. \A o \in Procs : ProcOK(row', rowLock', o, pr'[o])
  BY <1>2
<1>7. /\ clock' \in Nat /\ told' \in Seq(EntryType) /\ DOMAIN row' = Approvals
      /\ uses' \in [Approvals -> Seq(Int)] /\ \A a \in Approvals : row'[a] # None => RowOK(row'[a])
  BY DEF AInv
<1> QED BY <1>1, <1>3, <1>4, <1>5, <1>6, <1>7 DEF AInv

\* The steps that keep every row's lock.
LEMMA ReadStep ==
  ASSUME AInv, NEW p \in Procs, NEW q, pr' = [pr EXCEPT ![p] = q], ProcOK(row, rowLock, p, q),
         UNCHANGED <<clock, row, rowLock, told, uses>>, pr[p].pc = "idle" \/ q.a = pr[p].a,
         q.a = pr[p].a \/ row[q.a] # None \/ \A o \in Procs \ {p} : pr[o].a # q.a,
         q.kind = "file" => \A o \in Procs \ {p} : pr[o].a # q.a
  PROVE  AInv'
<1>1. \A a \in Approvals : rowLock'[a] = p => q.a = a
  BY ProcParts
<1>2. rowLock' \in [Approvals -> Procs \cup {None}]
  BY DEF AInv
<1>3. \A a \in Approvals : rowLock'[a] = rowLock[a]
  OBVIOUS
<1>4. ProcOK(row, rowLock', p, q)
  OBVIOUS
<1>5. \A a \in Approvals : rowLock'[a] = rowLock[a] \/ (rowLock[a] \in {p, None} /\ rowLock'[a] \in {p, None})
  BY <1>3
<1>6. q.a = pr[p].a \/ q.a = None \/ row[q.a] # None \/ \A o \in Procs \ {p} : pr[o].a # q.a
  OBVIOUS
<1>7. UNCHANGED <<clock, row, told, uses>>
  OBVIOUS
<1> QED BY <1>1, <1>2, <1>4, <1>5, <1>6, <1>7, ProcStep, Zenon

\* The transaction of p ends, or goes on to tell that it was refused.
LEMMA FreeStep ==
  ASSUME AInv, NEW p \in Procs, NEW q, pr' = [pr EXCEPT ![p] = q], ProcOK(row, Freed(p), p, q),
         UNCHANGED <<clock, row, told, uses>>, rowLock' = Freed(p), q.a \in {pr[p].a, None},
         q.kind # "file"
  PROVE  AInv'
<1>1. /\ rowLock' \in [Approvals -> Procs \cup {None}] /\ rowLock \in [Approvals -> Procs \cup {None}]
      /\ \A a \in Approvals : rowLock'[a] = IF rowLock[a] = p THEN None ELSE rowLock[a]
  BY DEF AInv, Freed
<1>2. \A a \in Approvals : rowLock'[a] = p => q.a = a
  BY <1>1, ApprovalAssumption
<1>3. \A a \in Approvals : rowLock'[a] = rowLock[a] \/ (rowLock[a] \in {p, None} /\ rowLock'[a] \in {p, None})
  BY <1>1
<1>4. q.a = pr[p].a \/ q.a = None \/ row[q.a] # None \/ \A o \in Procs \ {p} : pr[o].a # q.a
  OBVIOUS
<1>5. UNCHANGED <<clock, row, told, uses>> /\ ProcOK(row, rowLock', p, q)
      /\ (q.kind = "file" => \A o \in Procs \ {p} : pr[o].a # q.a)
  OBVIOUS
<1> QED BY <1>1, <1>2, <1>3, <1>4, <1>5, ProcStep, Zenon
-------------------------------------------------------------------------
(* Requests arrive and read *)

LEMMA RowIs ==
  ASSUME AInv, NEW a \in Approvals, row[a] # None
  PROVE  /\ RowOK(row[a]) /\ row[a] \in RowType /\ row[a].given \in Seq(Accounts)
         /\ Len(row[a].given) \in Nat /\ row[a].required \in Nat /\ row[a].expires \in Int
         /\ row[a].status \in Statuses
<1>1. RowOK(row[a]) /\ row[a] \in RowType
  BY DEF AInv, RowOK
<1>2. Required \subseteq Nat
  BY ApprovalAssumption
<1>3. /\ row[a].status \in Statuses /\ row[a].given \in Seq(Accounts)
      /\ row[a].required \in Required /\ row[a].expires \in Int
  BY <1>1 DEF RowType
<1>4. Len(row[a].given) \in Nat /\ row[a].required \in Nat
  <2> DEFINE g == row[a].given
  <2>1. g \in Seq(Accounts)
    BY <1>3
  <2> HIDE DEF g
  <2>2. Len(g) \in Nat
    BY <2>1
  <2> QED BY <1>2, <1>3, <2>2 DEF g
<1> QED BY <1>1, <1>3, <1>4, Zenon

LEMMA RequesterIs == Requester \in Accounts
BY ApprovalAssumption

LEMMA ClockSkewed ==
  ASSUME AInv, NEW skew \in Skews
  PROVE  clock + skew \in Int
BY ApprovalAssumption DEF AInv

LEMMA DecideKeeps ==
  ASSUME AInv, NEW p \in Procs, NEW kind, NEW a \in Approvals, NEW account \in Accounts,
         approvalTheApproverMayDecide(p, kind, a, account)
  PROVE  AInv'
<1>1. /\ kind \in {"approve", "deny"} /\ pr[p].pc = "idle" /\ row[a] # None
      /\ UNCHANGED <<clock, row, rowLock, told, uses>>
  BY DEF approvalTheApproverMayDecide, Ask, At, history
<1>2. PICK skew \in Skews, holdsApprove \in BOOLEAN :
        /\ mayApprove(row[a], account, holdsApprove)
        /\ Go(p, [Idle EXCEPT !.kind = kind, !.a = a, !.by = account,
                              !.count = Len(row[a].given), !.now = clock + skew,
                              !.pc = IF kind = "approve" THEN "verify" ELSE "lock"])
  BY DEF approvalTheApproverMayDecide
<1> DEFINE q == [Idle EXCEPT !.kind = kind, !.a = a, !.by = account,
                             !.count = Len(row[a].given), !.now = clock + skew,
                             !.pc = IF kind = "approve" THEN "verify" ELSE "lock"]
<1>3. pr' = [pr EXCEPT ![p] = q]
  BY <1>2 DEF Go
<1>4. Len(row[a].given) \in Nat /\ clock + skew \in Int /\ row[a].required \in Nat
  BY <1>1, RowIs, ClockSkewed
<1>5. /\ q \in ProcType /\ q.kind = kind /\ q.a = a /\ q.by = account /\ q.count = Len(row[a].given)
      /\ q.pc \in {"verify", "lock"} /\ q.staged = None /\ q.outcome = "none"
  BY <1>1, <1>4, IdleFields DEF ProcType, Kinds, Reading
<1> HIDE DEF q
<1>6. Standing(row[a], q)
  BY <1>2, <1>4, <1>5 DEF Standing, mayApprove, Others
<1>7. ProcOK(row, rowLock, p, q)
  BY <1>1, <1>5, <1>6 DEF ProcOK, Reading
<1>8. q.kind # "file" /\ row[q.a] # None
  BY <1>1, <1>5
<1> QED BY <1>1, <1>3, <1>7, <1>8, ReadStep

LEMMA SeeVersionKeeps ==
  ASSUME AInv, NEW p \in Procs, NEW a \in Approvals, seeVersion(p, a)
  PROVE  AInv'
<1> DEFINE q == [Idle EXCEPT !.kind = "cancel", !.a = a, !.by = Requester, !.pc = "arrive",
                             !.count = Len(row[a].given), !.status = row[a].status]
<1>1. /\ pr[p].pc = "idle" /\ row[a] # None /\ row[a].status \in Open /\ pr' = [pr EXCEPT ![p] = q]
      /\ UNCHANGED <<clock, row, rowLock, told, uses>>
  BY DEF seeVersion, Ask, At, Go, history
<1>2. Len(row[a].given) \in Nat
  BY <1>1, RowIs
<1>3. /\ q \in ProcType /\ q.kind = "cancel" /\ q.a = a /\ q.pc = "arrive" /\ q.staged = None
      /\ q.outcome = "none"
  BY <1>1, <1>2, RequesterIs, IdleFields DEF ProcType, Kinds, Reading, Open
<1> HIDE DEF q
<1>4. ProcOK(row, rowLock, p, q)
  BY <1>1, <1>3 DEF ProcOK, Reading
<1>5. q.kind # "file" /\ row[q.a] # None
  BY <1>1, <1>3
<1> QED BY <1>1, <1>4, <1>5, ReadStep

LEMMA GateKeeps ==
  ASSUME AInv, NEW p \in Procs, NEW a \in Approvals, approvalGate(p, a)
  PROVE  AInv'
<1> DEFINE q == [Idle EXCEPT !.kind = "use", !.a = a, !.by = Requester, !.pc = "arrive"]
<1>1. /\ pr[p].pc = "idle" /\ row[a] # None /\ pr' = [pr EXCEPT ![p] = q]
      /\ UNCHANGED <<clock, row, rowLock, told, uses>>
  BY DEF approvalGate, Ask, At, Go, history
<1>2. /\ q \in ProcType /\ q.kind = "use" /\ q.a = a /\ q.pc = "arrive" /\ q.staged = None
      /\ q.outcome = "none"
  BY RequesterIs, IdleFields DEF ProcType, Kinds, Reading
<1> HIDE DEF q
<1>3. ProcOK(row, rowLock, p, q)
  BY <1>1, <1>2 DEF ProcOK, Reading
<1>4. q.kind # "file" /\ row[q.a] # None
  BY <1>1, <1>2
<1> QED BY <1>1, <1>3, <1>4, ReadStep

LEMMA FileKeeps ==
  ASSUME AInv, NEW p \in Procs, NEW a \in Approvals, fileApproval(p, a)
  PROVE  AInv'
<1>1. /\ pr[p].pc = "idle" /\ row[a] = None /\ \A o \in Procs : pr[o].a # a
      /\ UNCHANGED <<clock, row, rowLock, told, uses>>
  BY DEF fileApproval, Ask, At, history
<1>2. PICK skew \in Skews, need \in Required :
        Go(p, [Idle EXCEPT !.kind = "file", !.a = a, !.by = Requester, !.pc = "append",
                           !.outcome = "succeeded", !.staged = Filed(need, clock + skew + Lifetime)])
  BY DEF fileApproval
<1> DEFINE f == Filed(need, clock + skew + Lifetime)
           q == [Idle EXCEPT !.kind = "file", !.a = a, !.by = Requester, !.pc = "append",
                             !.outcome = "succeeded", !.staged = f]
<1>3. pr' = [pr EXCEPT ![p] = q]
  BY <1>2 DEF Go
<1>4. clock + skew + Lifetime \in Int /\ need \in Nat \ {0}
  BY ClockSkewed, ApprovalAssumption
<1>5. f \in RowType /\ f.status = "pending" /\ f.given = <<>> /\ f.required = need
  BY <1>4 DEF Filed, RowType, Statuses, Open
<1> HIDE DEF f
<1>6. RowOK(f)
  <2>1. Given(f) = {} /\ Others(f) = {} /\ Len(f.given) = 0
    BY <1>5 DEF Given, Others
  <2>2. IsFiniteSet({}) /\ Cardinality({}) = 0
    BY FS_EmptySet
  <2> QED BY <1>4, <1>5, <2>1, <2>2 DEF RowOK
<1>7. f # None
  BY <1>6, RowNotNone
<1>8. /\ q \in ProcType /\ q.kind = "file" /\ q.a = a /\ q.pc = "append" /\ q.staged = f
      /\ q.outcome = "succeeded"
  BY <1>5, RequesterIs, IdleFields DEF ProcType, Kinds, Telling
<1> HIDE DEF q
<1>9. ProcOK(row, rowLock, p, q)
  BY <1>1, <1>5, <1>6, <1>7, <1>8 DEF ProcOK, Reading
<1>10. \A o \in Procs \ {p} : pr[o].a # q.a
  BY <1>1, <1>8
<1> QED BY <1>1, <1>3, <1>9, <1>10, ReadStep

LEMMA VerifyKeeps ==
  ASSUME AInv, NEW p \in Procs, verify(p)
  PROVE  AInv'
<1>1. pr[p].pc = "verify" /\ UNCHANGED <<clock, row, rowLock, told, uses>>
  BY DEF verify, At, history
<1>2. ProcOK(row, rowLock, p, pr[p]) /\ pr[p] \in ProcType /\ pr[p].kind \in Kinds
  BY <1>1, ProcParts
<1>3. pr[p].staged = None /\ pr[p].kind # "file"
  BY <1>1, <1>2 DEF ProcOK, Reading
<1>4. ASSUME NEW skew \in Skews, Go(p, [pr[p] EXCEPT !.pc = "lock", !.now = clock + skew])
      PROVE  AInv'
  <2> DEFINE q == [pr[p] EXCEPT !.pc = "lock", !.now = clock + skew]
  <2>1. pr' = [pr EXCEPT ![p] = q] /\ clock + skew \in Int
    BY <1>4, ClockSkewed DEF Go
  <2>2. /\ q \in ProcType /\ q.pc = "lock" /\ q.kind = pr[p].kind /\ q.a = pr[p].a /\ q.by = pr[p].by
        /\ q.count = pr[p].count /\ q.staged = pr[p].staged /\ q.outcome = pr[p].outcome
    BY <1>2, <2>1 DEF ProcType, Reading
  <2> HIDE DEF q
  <2>3. ProcOK(row, rowLock, p, q)
    BY <1>1, <1>2, <1>3, <2>2 DEF ProcOK, Reading, Standing
  <2> QED BY <1>1, <1>3, <2>1, <2>2, <2>3, ReadStep
<1>5. ASSUME Go(p, [pr[p] EXCEPT !.pc = "append", !.outcome = "denied"])
      PROVE  AInv'
  <2> DEFINE q == [pr[p] EXCEPT !.pc = "append", !.outcome = "denied"]
  <2>1. pr' = [pr EXCEPT ![p] = q]
    BY <1>5 DEF Go
  <2>2. /\ q \in ProcType /\ q.pc = "append" /\ q.kind = pr[p].kind /\ q.a = pr[p].a
        /\ q.staged = pr[p].staged /\ q.outcome = "denied"
    BY <1>2 DEF ProcType, Telling
  <2> HIDE DEF q
  <2>3. ProcOK(row, rowLock, p, q)
    BY <1>1, <1>2, <1>3, <2>2 DEF ProcOK, Reading
  <2> QED BY <1>1, <1>3, <2>1, <2>2, <2>3, ReadStep
<1> QED BY <1>4, <1>5 DEF verify

LEMMA ArriveKeeps ==
  ASSUME AInv, NEW p \in Procs, arrive(p)
  PROVE  AInv'
<1>1. pr[p].pc = "arrive" /\ UNCHANGED <<clock, row, rowLock, told, uses>>
  BY DEF arrive, At, history
<1>2. ProcOK(row, rowLock, p, pr[p]) /\ pr[p] \in ProcType /\ pr[p].kind \in Kinds
  BY <1>1, ProcParts
<1>3. pr[p].staged = None /\ pr[p].kind # "file"
  BY <1>1, <1>2 DEF ProcOK, Reading
<1>4. PICK skew \in Skews : Go(p, [pr[p] EXCEPT !.pc = "lock", !.now = clock + skew])
  BY DEF arrive
<1> DEFINE q == [pr[p] EXCEPT !.pc = "lock", !.now = clock + skew]
<1>5. pr' = [pr EXCEPT ![p] = q] /\ clock + skew \in Int
  BY <1>4, ClockSkewed DEF Go
<1>6. /\ q \in ProcType /\ q.pc = "lock" /\ q.kind = pr[p].kind /\ q.a = pr[p].a /\ q.by = pr[p].by
      /\ q.count = pr[p].count /\ q.staged = pr[p].staged /\ q.outcome = pr[p].outcome
  BY <1>2, <1>5 DEF ProcType, Reading
<1> HIDE DEF q
<1>7. ProcOK(row, rowLock, p, q)
  BY <1>1, <1>2, <1>3, <1>6 DEF ProcOK, Reading, Standing
<1> QED BY <1>1, <1>3, <1>5, <1>6, <1>7, ReadStep

\* A step of p on its way to tell what it did.
TellOn(p, q) ==
  /\ q \in ProcType /\ q.pc \in Telling /\ q.kind = pr[p].kind /\ q.a = pr[p].a
  /\ q.staged = pr[p].staged /\ q.outcome = pr[p].outcome /\ q.now = pr[p].now

LEMMA TellStep ==
  ASSUME AInv, NEW p \in Procs, NEW q, pr' = [pr EXCEPT ![p] = q], TellOn(p, q),
         pr[p].pc \in Telling \cup {"handle"}, UNCHANGED <<clock, row, rowLock, told, uses>>
  PROVE  AInv'
<1>1. ProcOK(row, rowLock, p, pr[p]) /\ pr[p].kind \in Kinds
  BY ProcParts DEF Telling
<1>2. ProcOK(row, rowLock, p, q)
  <2>1. q.pc # "idle" /\ q.pc \notin Reading /\ q.pc # "update" /\ q.kind # "none"
    BY <1>1 DEF TellOn, Telling, Reading, Kinds
  <2>2. q.kind # "file" /\ q.staged # None => Staged(row[q.a], q)
    BY <1>1 DEF TellOn, ProcOK, Staged
  <2> QED BY <1>1, <2>1, <2>2 DEF TellOn, ProcOK
<1>3. q.kind = "file" => \A o \in Procs \ {p} : pr[o].a # q.a
  BY DEF AInv, Filing, TellOn
<1>4. q.a = pr[p].a
  BY DEF TellOn
<1> QED BY <1>2, <1>3, <1>4, ReadStep
-------------------------------------------------------------------------
(* The approval's row *)

LEMMA LockKeeps ==
  ASSUME AInv, NEW p \in Procs, lockApproval(p)
  PROVE  AInv'
<1> DEFINE a == pr[p].a
           q == [pr[p] EXCEPT !.pc = "update"]
<1>1. /\ pr[p].pc = "lock" /\ rowLock[a] = None /\ rowLock' = [rowLock EXCEPT ![a] = p]
      /\ pr' = [pr EXCEPT ![p] = q] /\ UNCHANGED <<clock, row, told, uses>>
  BY DEF lockApproval, At, Go, history
<1>2. /\ ProcOK(row, rowLock, p, pr[p]) /\ pr[p] \in ProcType /\ pr[p].kind \in Kinds /\ a \in Approvals
      /\ \A x \in Approvals : rowLock[x] = p => a = x
  BY <1>1, ProcParts
<1>3. pr[p].staged = None /\ pr[p].kind # "file"
  BY <1>1, <1>2 DEF ProcOK, Reading
<1>4. /\ q \in ProcType /\ q.pc = "update" /\ q.kind = pr[p].kind /\ q.a = a /\ q.by = pr[p].by
      /\ q.count = pr[p].count /\ q.staged = pr[p].staged /\ q.outcome = pr[p].outcome
  BY <1>2 DEF ProcType, Reading
<1> HIDE DEF q
<1>5. rowLock \in [Approvals -> Procs \cup {None}]
  BY DEF AInv
<1>6. /\ rowLock' \in [Approvals -> Procs \cup {None}] /\ rowLock'[a] = p
      /\ \A x \in Approvals \ {a} : rowLock'[x] = rowLock[x]
  BY <1>1, <1>2, <1>5
<1>7. ProcOK(row, rowLock', p, q)
  BY <1>1, <1>2, <1>3, <1>4, <1>6 DEF ProcOK, Reading, Standing
<1>8. \A x \in Approvals : rowLock'[x] = rowLock[x] \/ (rowLock[x] \in {p, None} /\ rowLock'[x] \in {p, None})
  BY <1>1, <1>6
<1>9. \A x \in Approvals : rowLock'[x] = p => q.a = x
  BY <1>2, <1>4, <1>6
<1>10. q.a = pr[p].a /\ q.kind # "file"
  BY <1>3, <1>4
<1>11. UNCHANGED <<clock, row, told, uses>> /\ pr' = [pr EXCEPT ![p] = q]
  BY <1>1
<1> QED BY <1>6, <1>7, <1>8, <1>9, <1>10, <1>11, ProcStep, Zenon

\* What an UPDATE that met the row makes of it.
LEMMA ChangedOK ==
  ASSUME NEW r, NEW q, RowOK(r), q \in ProcType, q.kind \in Kinds \ {"file"}, Matches(r, q), clock \in Nat,
         q.kind = "approve" => q.by \in Accounts /\ Standing(r, q), NEW c, c = Changed(r, q)
  PROVE  /\ RowOK(c) /\ c.required = r.required /\ c.expires = r.expires
         /\ q.kind = "approve" => r.status = "pending" /\ c.status \in Open /\ Len(c.given) = Len(r.given) + 1
         /\ q.kind # "approve" => c.given = r.given
         /\ q.kind = "deny" => r.status = "pending" /\ c.status = "denied"
         /\ q.kind = "cancel" => r.status \in Open /\ c.status = "cancelled"
         /\ q.kind = "use" => r.status = "approved" /\ c.status = "consumed" /\ clock < r.expires
<1>1. r \in RowType /\ r.expires \in Int /\ q.now \in Int
  BY DEF RowOK, RowType, ProcType
<1>2. CASE q.kind = "approve"
  <2>1. addApproval(r, q)
    BY <1>2 DEF Matches
  <2>2. r.status = "pending" /\ Len(r.given) = q.count /\ q.by \notin Given(r)
    BY <2>1 DEF addApproval
  <2>3. q.by # Requester => Cardinality(Others(r)) < r.required - 1
    BY <1>2, <2>2 DEF Standing
  <2>4. c = [r EXCEPT !.given = Append(@, q.by),
                      !.status = IF Len(r.given) + 1 >= r.required THEN "approved" ELSE "pending"]
    BY <1>2 DEF Changed
  <2>5. /\ c.given = Append(r.given, q.by) /\ c.required = r.required /\ c.expires = r.expires
        /\ c.status = IF Len(r.given) + 1 >= r.required THEN "approved" ELSE "pending"
        /\ c = [status |-> c.status, given |-> c.given, required |-> c.required, expires |-> c.expires]
    BY <1>1, <2>4 DEF RowType
  <2>6. RowOK(c) /\ c.status \in Open /\ Len(c.given) = Len(r.given) + 1
    BY <1>2, <2>2, <2>3, <2>5, RowAppend, Zenon
  <2> QED BY <1>2, <2>2, <2>5, <2>6
<1>3. CASE q.kind = "deny"
  <2>1. r.status = "pending" /\ c = [r EXCEPT !.status = "denied"]
    BY <1>3 DEF Matches, Changed, deny
  <2> QED BY <1>3, <2>1, RowStatus
<1>4. CASE q.kind = "cancel"
  <2>1. r.status \in Open /\ c = [r EXCEPT !.status = "cancelled"]
    BY <1>4 DEF Matches, Changed, cancel
  <2> QED BY <1>4, <2>1, RowStatus
<1>5. CASE q.kind = "use"
  <2>1. consume(r, q) /\ c = [r EXCEPT !.status = "consumed"]
    BY <1>5 DEF Matches, Changed
  <2>2. r.status = "approved" /\ clock < r.expires
    BY <1>1, <2>1, OpenInTime DEF consume
  <2> QED BY <1>5, <2>1, <2>2, RowStatus
<1> QED BY <1>2, <1>3, <1>4, <1>5 DEF Kinds

\* A refused request keeps no row; it is told, or is gone.
LEMMA RefusedOK ==
  ASSUME AInv, NEW p \in Procs, pr[p].pc # "idle", NEW out \in {"denied", "failed"}
  PROVE  /\ ProcOK(row, Freed(p), p, Refused(p, out)) /\ Refused(p, out).a \in {pr[p].a, None}
         /\ Refused(p, out).kind # "file"
<1>1. ProcOK(row, rowLock, p, pr[p]) /\ pr[p] \in ProcType /\ pr[p].a \in Approvals
  BY ProcParts
<1>2. CASE pr[p].kind \in {"cancel", "use"}
  <2> DEFINE q == [pr[p] EXCEPT !.pc = "append", !.staged = None, !.outcome = out]
  <2>1. Refused(p, out) = q
    BY <1>2 DEF Refused
  <2>2. /\ q \in ProcType /\ q.pc = "append" /\ q.kind = pr[p].kind /\ q.a = pr[p].a
        /\ q.staged = None /\ q.outcome = out
    BY <1>1 DEF ProcType, Telling
  <2> HIDE DEF q
  <2>3. ProcOK(row, Freed(p), p, q)
    BY <1>1, <1>2, <2>2 DEF ProcOK, Reading
  <2> QED BY <1>2, <2>1, <2>2, <2>3
<1>3. CASE pr[p].kind \notin {"cancel", "use"}
  BY <1>3, IdleOK, IdleFields DEF Refused
<1> QED BY <1>2, <1>3

LEMMA UpdateKeeps ==
  ASSUME AInv, NEW p \in Procs, update(p)
  PROVE  AInv'
<1> DEFINE o == pr[p]
           r == row[o.a]
<1>1. o.pc = "update" /\ UNCHANGED <<clock, row, told, uses>>
  BY DEF update, At, history
<1>2. ProcOK(row, rowLock, p, o) /\ o \in ProcType /\ o.kind \in Kinds /\ o.a \in Approvals
  BY <1>1, ProcParts
<1>3. o.staged = None /\ o.kind # "file" /\ r # None /\ rowLock[o.a] = p
  BY <1>1, <1>2 DEF ProcOK, Reading, Kinds
<1>4. RowOK(r) /\ clock \in Nat
  BY <1>2, <1>3, RowIs DEF AInv
<1>5. CASE Matches(r, o)
  <2> DEFINE c == Changed(r, o)
             x == IF o.kind = "use" THEN "handle" ELSE "append"
             q == [o EXCEPT !.staged = c, !.outcome = "succeeded", !.pc = x, !.now = clock]
  <2>1. pr' = [pr EXCEPT ![p] = q] /\ UNCHANGED rowLock
    BY <1>5 DEF update, Go
  <2>2. o.kind = "approve" => o.by \in Accounts /\ Standing(r, o)
    BY <1>1, <1>2 DEF ProcOK, Reading
  <2>3. o.kind \in Kinds \ {"file"}
    BY <1>2, <1>3
  <2>4. /\ RowOK(c) /\ c.required = r.required /\ c.expires = r.expires
        /\ o.kind = "approve" => r.status = "pending" /\ c.status \in Open /\ Len(c.given) = Len(r.given) + 1
        /\ o.kind # "approve" => c.given = r.given
        /\ o.kind = "deny" => r.status = "pending" /\ c.status = "denied"
        /\ o.kind = "cancel" => r.status \in Open /\ c.status = "cancelled"
        /\ o.kind = "use" => r.status = "approved" /\ c.status = "consumed" /\ clock < r.expires
    <3> HIDE DEF c, o, r
    <3>1. c = Changed(r, o)
      BY DEF c
    <3> QED BY <1>2, <1>4, <1>5, <2>2, <2>3, <3>1, ChangedOK
  <2>5. c \in RowType /\ c # None
    BY <2>4, RowNotNone DEF RowOK
  <2>a. x \in {"handle", "append"} /\ clock \in Int
    BY <1>4
  <2> HIDE DEF c, x
  <2>6. /\ q \in ProcType /\ q.kind = o.kind /\ q.a = o.a /\ q.pc \in {"handle", "append"}
        /\ q.staged = c /\ q.outcome = "succeeded" /\ q.now = clock
    BY <1>2, <2>5, <2>a DEF ProcType, Telling
  <2> HIDE DEF q, r
  <2>7. Staged(r, q)
    BY <2>4, <2>6 DEF Staged
  <2>8. ProcOK(row, rowLock, p, q)
    <3>1. q.kind # "none" /\ q.kind # "file" /\ q.pc # "idle" /\ q.pc \notin Reading
      BY <2>3, <2>6 DEF Kinds, Reading
    <3>2. q.a \in Approvals /\ row[q.a] # None /\ rowLock[q.a] = p /\ Staged(row[q.a], q)
      BY <1>2, <1>3, <2>6, <2>7 DEF r
    <3>3. q \in ProcType /\ RowOK(q.staged) /\ q.staged # None /\ q.outcome = "succeeded"
      BY <2>4, <2>5, <2>6
    <3> QED BY <3>1, <3>2, <3>3 DEF ProcOK, Reading
  <2>9. q.kind # "file" /\ q.a = pr[p].a
    BY <1>3, <2>6
  <2> QED BY <1>1, <2>1, <2>8, <2>9, ReadStep
<1>6. CASE ~Matches(r, o)
  <2>1. pr' = [pr EXCEPT ![p] = NoRow(p)] /\ rowLock' = Freed(p)
    BY <1>6 DEF update, Go
  <2>2. PICK out \in {"denied", "failed"} : NoRow(p) = Refused(p, out)
    BY DEF NoRow
  <2>3. o.pc # "idle"
    BY <1>1
  <2>4. /\ ProcOK(row, Freed(p), p, NoRow(p)) /\ NoRow(p).a \in {pr[p].a, None} /\ NoRow(p).kind # "file"
    BY <2>2, <2>3, RefusedOK
  <2> QED BY <1>1, <2>1, <2>4, FreeStep
<1> QED BY <1>5, <1>6

LEMMA HandleKeeps ==
  ASSUME AInv, NEW p \in Procs, handle(p)
  PROVE  AInv'
<1>1. pr[p].pc = "handle" /\ UNCHANGED <<clock, row, told, uses>>
  BY DEF handle, At, history
<1>2. ProcOK(row, rowLock, p, pr[p]) /\ pr[p] \in ProcType
  BY ProcParts
<1>3. CASE Go(p, [pr[p] EXCEPT !.pc = "append"]) /\ UNCHANGED rowLock
  <2> DEFINE q == [pr[p] EXCEPT !.pc = "append"]
  <2>1. pr' = [pr EXCEPT ![p] = q]
    BY <1>3 DEF Go
  <2>2. TellOn(p, q)
    BY <1>2 DEF TellOn, ProcType, Telling
  <2> HIDE DEF q
  <2> QED BY <1>1, <1>3, <2>1, <2>2, TellStep
<1>4. CASE Go(p, Refused(p, "failed")) /\ rowLock' = Freed(p)
  BY <1>1, <1>4, RefusedOK, FreeStep DEF Go
<1> QED BY <1>3, <1>4 DEF handle
-------------------------------------------------------------------------
(* Beside the rows *)

LEMMA LockLogKeeps ==
  ASSUME AInv, NEW p \in Procs, lockRealmChain(p)
  PROVE  AInv'
<1> DEFINE q == [pr[p] EXCEPT !.pc = "head"]
<1>1. pr[p].pc = "append" /\ UNCHANGED <<clock, row, rowLock, told, uses>> /\ pr' = [pr EXCEPT ![p] = q]
  BY DEF lockRealmChain, At, Go, history
<1>2. pr[p] \in ProcType
  BY ProcParts
<1>3. TellOn(p, q)
  BY <1>2 DEF TellOn, ProcType, Telling
<1> HIDE DEF q
<1> QED BY <1>1, <1>3, TellStep DEF Telling

LEMMA HeadKeeps ==
  ASSUME AInv, NEW p \in Procs, readChainHead(p), ChainHead \in Nat
  PROVE  AInv'
<1> DEFINE q == [pr[p] EXCEPT !.pc = "insert", !.head = ChainHead]
<1>1. pr[p].pc = "head" /\ UNCHANGED <<clock, row, rowLock, told, uses>> /\ pr' = [pr EXCEPT ![p] = q]
  BY DEF readChainHead, At, Go, chain, history
<1>2. pr[p] \in ProcType
  BY ProcParts
<1>3. TellOn(p, q)
  BY <1>2 DEF TellOn, ProcType, Telling
<1> HIDE DEF q
<1> QED BY <1>1, <1>3, TellStep DEF Telling

LEMMA FailsKeeps ==
  ASSUME AInv, NEW p \in Procs, Fails(p)
  PROVE  AInv'
<1>1. /\ pr' = [pr EXCEPT ![p] = Idle] /\ rowLock' = Freed(p)
      /\ UNCHANGED <<clock, row, told, uses>>
  BY DEF Fails, Go, history
<1>2. ProcOK(row, Freed(p), p, Idle) /\ Idle.a \in {pr[p].a, None} /\ Idle.kind # "file"
  BY IdleOK, IdleFields
<1> QED BY <1>1, <1>2, FreeStep

\* The clock and the prunes of the log.
LEMMA ElsewhereKeeps ==
  ASSUME AInv, UNCHANGED <<row, rowLock, pr, told, uses>>, clock' \in Nat
  PROVE  AInv'
<1>1. ASSUME NEW a \in Approvals PROVE Told(a, row[a], uses[a])'
  <2>1. Told(a, row[a], uses[a])
    BY DEF AInv
  <2> QED BY <2>1 DEF Told, Times
<1>2. Locks' /\ Filing'
  BY DEF AInv, Locks, Filing
<1> QED BY <1>1, <1>2 DEF AInv
-------------------------------------------------------------------------
(* Rows change *)

\* The row of the approval a changes under a request o that does not hold it.
LEMMA OtherProc ==
  ASSUME NEW rw, NEW rw2, NEW rl, NEW rl2, NEW o, NEW q, ProcOK(rw, rl, o, q), NEW a \in Approvals,
         \A x \in Approvals : rl[x] = o => rl2[x] = o, rl[a] # o,
         \A x \in Approvals \ {a} : rw2[x] = rw[x],
         RowOK(rw[a]), rw2[a] # None, RowOK(rw2[a]), rw2[a].required = rw[a].required,
         rw2[a].given = rw[a].given \/ Len(rw2[a].given) = Len(rw[a].given) + 1
  PROVE  ProcOK(rw2, rl2, o, q)
<1>1. CASE q.a \in Approvals \ {a} \/ q.kind = "none"
  <2>1. q.kind # "none" => q.a \in Approvals /\ rw2[q.a] = rw[q.a]
    BY <1>1 DEF ProcOK
  <2>2. q.pc # "idle" => q.kind # "none"
    BY DEF ProcOK
  <2>3. q.kind = "none" => q.staged = None /\ q.pc = "idle"
    BY DEF ProcOK
  <2> QED BY <2>1, <2>2, <2>3 DEF ProcOK
<1>2. CASE q.a = a /\ q.kind # "none"
  <2>1. rw[a] # None
    BY RowNotNone
  <2>2. q.kind # "file"
    BY <1>2, <2>1 DEF ProcOK
  <2>3. q.staged = None /\ q.pc # "update"
    BY <1>2, <2>2 DEF ProcOK
  <2>4. ASSUME Standing(rw[a], q) PROVE Standing(rw2[a], q)
    <3>1. q.count \in Nat /\ Len(rw[a].given) \in Nat
      <4>1. rw[a].given \in Seq(Accounts)
        BY DEF RowOK, RowType
      <4> QED BY <4>1 DEF ProcOK, ProcType
    <3>2. CASE rw2[a].given = rw[a].given
      <4>1. Others(rw2[a]) = Others(rw[a])
        BY <3>2 DEF Others, Given
      <4> QED BY <2>4, <3>2, <4>1 DEF Standing
    <3>3. CASE Len(rw2[a].given) = Len(rw[a].given) + 1
      BY <2>4, <3>1, <3>3 DEF Standing
    <3> QED BY <3>2, <3>3
  <2> QED BY <1>2, <2>1, <2>2, <2>3, <2>4 DEF ProcOK
<1> QED BY <1>1, <1>2 DEF ProcOK

LEMMA ExpireKeeps ==
  ASSUME AInv, NEW a \in Approvals, expireLapsed(a)
  PROVE  AInv'
<1> DEFINE r == row[a]
           c == [r EXCEPT !.status = "expired"]
<1>1. /\ r # None /\ rowLock[a] = None /\ r.status \in Open /\ row' = [row EXCEPT ![a] = c]
      /\ UNCHANGED <<clock, rowLock, pr, told, uses>>
  BY DEF expireLapsed, Lapsed, history
<1>2. RowOK(r)
  BY <1>1, RowIs
<1>3. RowOK(c) /\ c.required = r.required /\ c.given = r.given /\ c.status = "expired"
  BY <1>2, RowStatus
<1>4. DOMAIN row = Approvals
  BY DEF AInv
<1> HIDE DEF c
<1>5. DOMAIN row' = Approvals /\ row'[a] = c /\ \A x \in Approvals \ {a} : row'[x] = row[x]
  BY <1>1, <1>4
<1>6. c # None
  BY <1>3, RowNotNone
<1>7. ASSUME NEW o \in Procs PROVE ProcOK(row', rowLock', o, pr'[o])
  <2>1. ProcOK(row, rowLock, o, pr[o]) /\ rowLock[a] # o
    BY <1>1, ApprovalAssumption DEF AInv
  <2>2. ProcOK(row', rowLock, o, pr[o])
    BY <1>2, <1>3, <1>5, <1>6, <2>1, OtherProc
  <2> QED BY <1>1, <2>2
<1>8. ASSUME NEW x \in Approvals PROVE Told(x, row[x], uses[x])'
  <2>1. Told(x, row[x], uses[x])
    BY DEF AInv
  <2>2. \A op : Times(op, x)' = Times(op, x)
    BY <1>1 DEF Times
  <2>3. CASE x # a
    BY <1>1, <1>5, <2>1, <2>2, <2>3 DEF Told
  <2>4. CASE x = a
    BY <1>1, <1>3, <1>5, <1>6, <2>1, <2>2, <2>4 DEF Told, Open
  <2> QED BY <2>3, <2>4
<1>9. \A x \in Approvals : row'[x] # None => RowOK(row'[x])
  BY <1>3, <1>5 DEF AInv
<1>10. Locks' /\ Filing'
  BY <1>1 DEF AInv, Locks, Filing
<1>11. /\ clock' \in Nat /\ told' \in Seq(EntryType) /\ uses' \in [Approvals -> Seq(Int)]
       /\ DOMAIN pr' = Procs /\ rowLock' \in [Approvals -> Procs \cup {None}]
  BY <1>1 DEF AInv
<1> QED BY <1>5, <1>7, <1>8, <1>9, <1>10, <1>11 DEF AInv

\* The transaction of p commits.
LEMMA CommitStep ==
  ASSUME AInv, NEW p \in Procs, pr' = [pr EXCEPT ![p] = Idle], rowLock' = Freed(p), clock' = clock,
         told' \in Seq(EntryType), uses' \in [Approvals -> Seq(Int)], DOMAIN row' = Approvals,
         \A a \in Approvals : row'[a] # None => RowOK(row'[a]),
         \A o \in Procs \ {p} : ProcOK(row', Freed(p), o, pr[o]),
         \A a \in Approvals : Told(a, row[a], uses[a])'
  PROVE  AInv'
<1>1. DOMAIN pr' = Procs /\ pr'[p] = Idle /\ \A o \in Procs \ {p} : pr'[o] = pr[o]
  BY DEF AInv
<1>2. /\ rowLock' \in [Approvals -> Procs \cup {None}] /\ rowLock \in [Approvals -> Procs \cup {None}]
      /\ \A a \in Approvals : rowLock'[a] = IF rowLock[a] = p THEN None ELSE rowLock[a]
  BY DEF AInv, Freed
<1>3. Locks'
  <2>1. ASSUME NEW a \in Approvals, rowLock'[a] # None PROVE pr'[rowLock'[a]].a = a /\ rowLock'[a] \in Procs
    <3>1. rowLock'[a] = rowLock[a] /\ rowLock[a] \in Procs \ {p}
      BY <1>2, <2>1
    <3> QED BY <1>1, <2>1, <3>1 DEF AInv, Locks
  <2> QED BY <2>1 DEF Locks
<1>4. Filing'
  <2>1. ASSUME NEW m \in Procs, NEW o \in Procs, m # o, pr'[m].kind = "file" PROVE pr'[o].a # pr'[m].a
    <3>1. m # p /\ pr'[m] = pr[m] /\ pr[m].kind = "file"
      BY <1>1, <2>1, IdleFields
    <3>2. pr[m].a \in Approvals
      BY <3>1 DEF AInv, ProcOK
    <3>3. CASE o = p
      BY <1>1, <3>1, <3>2, <3>3, IdleFields, ApprovalAssumption
    <3>4. CASE o # p
      BY <1>1, <2>1, <3>1, <3>4 DEF AInv, Filing
    <3> QED BY <3>3, <3>4
  <2> QED BY <2>1 DEF Filing
<1>5. \A o \in Procs : ProcOK(row', rowLock', o, pr'[o])
  BY <1>1, IdleOK
<1> QED BY <1>1, <1>2, <1>3, <1>4, <1>5 DEF AInv
-------------------------------------------------------------------------
(* The audit row *)

\* An entry about another approval, or of nothing done, tells nothing new of x.
LEMMA ToldOther ==
  ASSUME told \in Seq(EntryType), NEW e \in EntryType, told' = Append(told, e), NEW x, NEW r, NEW us,
         Told(x, r, us), e.a # x \/ e.outcome # "succeeded"
  PROVE  Told(x, r, us)'
<1>1. \A op : Times(op, x)' = Times(op, x)
  <2>1. ASSUME NEW op PROVE Times(op, x)' = Times(op, x)
    BY TimesAppend
  <2> QED BY <2>1
<1>2. \A i \in DOMAIN told' : told'[i] = e \/ (i \in DOMAIN told /\ told'[i] = told[i])
  OBVIOUS
<1> QED BY <1>1, <1>2 DEF Told

\* The entry of a filed approval.
LEMMA ToldFiled ==
  ASSUME told \in Seq(EntryType), NEW e \in EntryType, told' = Append(told, e), NEW x, NEW us, NEW c,
         Told(x, None, us), e.op = "file", e.a = x, e.outcome = "succeeded",
         c # None, c.status = "pending", c.given = <<>>
  PROVE  Told(x, c, us)'
<1>1. /\ Times("file", x)' = Times("file", x) + 1
      /\ \A op \in Kinds \ {"file"} : Times(op, x)' = Times(op, x)
  <2>1. ASSUME NEW op
        PROVE  Times(op, x)' = Times(op, x) + (IF e.op = op THEN 1 ELSE 0) /\ Times(op, x) \in Nat
    BY TimesAppend
  <2> QED BY <2>1
<1>2. us = <<>> /\ \A op \in Kinds : Times(op, x) = 0
  BY DEF Told
<1>3. \A i \in DOMAIN told' : told'[i] = e \/ (i \in DOMAIN told /\ told'[i] = told[i])
  OBVIOUS
<1>4. \A i \in DOMAIN told : told[i].a = x => told[i].outcome # "succeeded"
  BY DEF Told
<1>5. /\ Times("file", x)' = 1 /\ Times("approve", x)' = 0 /\ Times("deny", x)' = 0
      /\ Times("cancel", x)' = 0 /\ Times("use", x)' = 0
  BY <1>1, <1>2 DEF Kinds
<1>6. \A i \in DOMAIN told' : ~(told'[i].op = "use" /\ told'[i].a = x /\ told'[i].outcome = "succeeded")
  BY <1>3, <1>4
<1>7. Len(c.given) = 0
  OBVIOUS
<1> QED BY <1>2, <1>5, <1>6, <1>7 DEF Told

\* The entry of a decision on the row r, which becomes c.
LEMMA ToldDecided ==
  ASSUME told \in Seq(EntryType), NEW e \in EntryType, told' = Append(told, e), NEW x, NEW us, NEW us2,
         NEW r, NEW c, NEW q, r # None, c # None, Told(x, r, us), Staged(r, q), c = q.staged, q.kind = e.op,
         e.op \in Kinds \ {"file"}, e.a = x, e.outcome = "succeeded", e.op = "use" => e.approvals = c.given,
         us2 = IF e.op = "use" THEN Append(us, q.now) ELSE us, Len(r.given) \in Nat
  PROVE  Told(x, c, us2)'
<1>1. \A op \in Kinds : Times(op, x)' = Times(op, x) + (IF e.op = op THEN 1 ELSE 0)
  <2>1. ASSUME NEW op PROVE Times(op, x)' = Times(op, x) + (IF e.op = op THEN 1 ELSE 0)
    BY TimesAppend
  <2> QED BY <2>1
<1>2. \A i \in DOMAIN told' : told'[i] = e \/ (i \in DOMAIN told /\ told'[i] = told[i])
  OBVIOUS
<1>3. /\ Times("file", x) = 1 /\ Times("approve", x) = Len(r.given)
      /\ Times("deny", x) = (IF r.status = "denied" THEN 1 ELSE 0)
      /\ Times("cancel", x) = (IF r.status = "cancelled" THEN 1 ELSE 0)
      /\ r.status # "consumed" => us = <<>> /\ Times("use", x) = 0
      /\ \A i \in DOMAIN told :
            (told[i].op = "use" /\ told[i].a = x /\ told[i].outcome = "succeeded") => r.status = "consumed"
  BY DEF Told
<1>4. r.status \in Open
  BY DEF Staged, Kinds, Open
<1>5. r.status \notin {"consumed", "denied", "cancelled"}
  BY <1>4 DEF Open
<1>6. /\ Times("file", x)' = 1 + (IF e.op = "file" THEN 1 ELSE 0)
      /\ Times("approve", x)' = Len(r.given) + (IF e.op = "approve" THEN 1 ELSE 0)
      /\ Times("deny", x)' = 0 + (IF e.op = "deny" THEN 1 ELSE 0)
      /\ Times("cancel", x)' = 0 + (IF e.op = "cancel" THEN 1 ELSE 0)
      /\ Times("use", x)' = 0 + (IF e.op = "use" THEN 1 ELSE 0)
  BY <1>1, <1>3, <1>5 DEF Kinds
<1>7. \A i \in DOMAIN told' : (told'[i].op = "use" /\ told'[i].a = x /\ told'[i].outcome = "succeeded")
        => told'[i] = e
  BY <1>2, <1>3, <1>5
<1>8. us = <<>>
  BY <1>3, <1>5
<1>9. CASE e.op = "approve"
  <2>1. c.status \in Open /\ Len(c.given) = Len(r.given) + 1 /\ us2 = <<>>
    BY <1>8, <1>9 DEF Staged
  <2> QED BY <1>6, <1>7, <1>9, <2>1 DEF Told, Open
<1>10. CASE e.op = "deny"
  <2>1. c.status = "denied" /\ c.given = r.given /\ us2 = <<>>
    BY <1>8, <1>10 DEF Staged
  <2> QED BY <1>6, <1>7, <1>10, <2>1 DEF Told
<1>11. CASE e.op = "cancel"
  <2>1. c.status = "cancelled" /\ c.given = r.given /\ us2 = <<>>
    BY <1>8, <1>11 DEF Staged
  <2> QED BY <1>6, <1>7, <1>11, <2>1 DEF Told
<1>12. CASE e.op = "use"
  <2>1. /\ c.status = "consumed" /\ c.given = r.given /\ c.expires = r.expires /\ q.now < r.expires
        /\ e.approvals = c.given
    BY <1>12 DEF Staged
  <2>2. Len(us2) = 1 /\ us2[1] = q.now
    BY <1>8, <1>12
  <2> QED BY <1>6, <1>7, <1>12, <2>1, <2>2 DEF Told
<1> QED BY <1>9, <1>10, <1>11, <1>12 DEF Kinds

LEMMA AppendKeeps ==
  ASSUME AInv, NEW p \in Procs, appendAdminAudit(p)
  PROVE  AInv'
<1> DEFINE q == pr[p]
           a == q.a
           e == Entry(q)
<1>1. q.pc = "insert" /\ rowLock' = Freed(p) /\ pr' = [pr EXCEPT ![p] = Idle] /\ clock' = clock
  BY DEF appendAdminAudit, At, Go
<1>2. ProcOK(row, rowLock, p, q) /\ q \in ProcType /\ q.kind \in Kinds /\ a \in Approvals
  BY <1>1, ProcParts
<1>3. /\ told \in Seq(EntryType) /\ uses \in [Approvals -> Seq(Int)] /\ DOMAIN row = Approvals
      /\ \A x \in Approvals : row[x] # None => RowOK(row[x])
      /\ \A x \in Approvals : Told(x, row[x], uses[x])
      /\ \A o \in Procs : ProcOK(row, rowLock, o, pr[o])
      /\ rowLock \in [Approvals -> Procs \cup {None}]
  BY DEF AInv
<1>4. /\ e \in EntryType /\ e.op = q.kind /\ e.a = a /\ e.outcome = q.outcome
      /\ q.kind = "use" /\ q.staged # None => e.approvals = q.staged.given
  <2>1. q.staged # None => q.staged.given \in Seq(Accounts)
    BY <1>2 DEF ProcType, RowType
  <2>2. <<>> \in Seq(Accounts)
    OBVIOUS
  <2> DEFINE ap == IF q.kind = "use" /\ q.staged # None THEN q.staged.given ELSE <<>>
  <2>3. ap \in Seq(Accounts)
    BY <2>1, <2>2
  <2>4. e = [op |-> q.kind, a |-> a, outcome |-> q.outcome, approvals |-> ap]
    BY DEF Entry
  <2>5. q.kind \in Kinds \cup {"none"} /\ q.outcome \in {"none", "succeeded", "denied", "failed"}
    BY <1>2 DEF ProcType
  <2>6. (q.kind = "use" /\ q.staged # None) => ap = q.staged.given
    OBVIOUS
  <2> HIDE DEF ap, e
  <2> QED BY <1>2, <2>3, <2>4, <2>5, <2>6 DEF EntryType
<1> HIDE DEF e
<1>5. \A o \in Procs \ {p} : \A x \in Approvals : rowLock[x] = o => Freed(p)[x] = o
  BY DEF Freed
<1>6. CASE UNCHANGED <<row, told, uses>>
  BY <1>1, <1>6, FreeStep, IdleOK, IdleFields
<1>7. CASE q.staged = None /\ told' = Append(told, e) /\ row' = row /\ uses' = uses
  <2>1. e.outcome # "succeeded"
    BY <1>2, <1>4, <1>7 DEF ProcOK
  <2>2. told' \in Seq(EntryType)
    BY <1>3, <1>4, <1>7
  <2>3. ASSUME NEW x \in Approvals PROVE Told(x, row[x], uses[x])'
    <3>1. PICK r, us : r = row[x] /\ us = uses[x]
      OBVIOUS
    <3>2. Told(x, r, us)
      BY <1>3, <3>1
    <3>3. Told(x, r, us)'
      BY <1>3, <1>4, <1>7, <2>1, <3>2, ToldOther
    <3> QED BY <1>7, <3>1, <3>3 DEF Told
  <2>4. ASSUME NEW o \in Procs \ {p} PROVE ProcOK(row', Freed(p), o, pr[o])
    <3>1. ProcOK(row, rowLock, o, pr[o])
      BY <1>3
    <3>2. pr[o].kind # "none" => pr[o].a \in Approvals
      BY <3>1 DEF ProcOK
    <3>3. (pr[o].pc # "idle" \/ pr[o].staged # None) => pr[o].kind # "none"
      BY <3>1 DEF ProcOK
    <3> QED BY <1>5, <1>7, <3>1, <3>2, <3>3 DEF ProcOK
  <2> QED BY <1>1, <1>3, <1>7, <2>2, <2>3, <2>4, CommitStep
<1>8. CASE /\ q.staged # None /\ told' = Append(told, e) /\ row' = [row EXCEPT ![a] = q.staged]
           /\ uses' = IF q.kind = "use" THEN [uses EXCEPT ![a] = Append(@, q.now)] ELSE uses
  <2> DEFINE c == q.staged
  <2>1. e.outcome = "succeeded" /\ RowOK(c) /\ q.now \in Int
    BY <1>2, <1>4, <1>8 DEF ProcOK, ProcType
  <2>2. told' \in Seq(EntryType)
    BY <1>3, <1>4, <1>8
  <2>3. DOMAIN row' = Approvals /\ row'[a] = c /\ \A x \in Approvals \ {a} : row'[x] = row[x]
    BY <1>2, <1>3, <1>8
  <2>4. /\ uses' \in [Approvals -> Seq(Int)] /\ \A x \in Approvals \ {a} : uses'[x] = uses[x]
        /\ uses'[a] = IF q.kind = "use" THEN Append(uses[a], q.now) ELSE uses[a]
    <3>1. Append(uses[a], q.now) \in Seq(Int)
      BY <1>2, <1>3, <2>1
    <3> QED BY <1>2, <1>3, <1>8, <3>1
  <2>5. ASSUME NEW x \in Approvals PROVE Told(x, row[x], uses[x])'
    <3>1. PICK r, us, us2 : r = row[x] /\ us = uses[x] /\ us2 = uses'[x]
      OBVIOUS
    <3>2. Told(x, r, us)
      BY <1>3, <3>1
    <3>3. CASE x # a
      <4>1. Told(x, r, us)'
        BY <1>3, <1>4, <1>8, <3>2, <3>3, ToldOther
      <4> QED BY <2>3, <2>4, <3>1, <3>3, <4>1 DEF Told
    <3>4. CASE x = a /\ q.kind = "file"
      <4>1. r = None /\ c.status = "pending" /\ c.given = <<>> /\ c # None
        BY <1>2, <1>8, <3>1, <3>4 DEF ProcOK
      <4>2. PICK d : d = c
        OBVIOUS
      <4>3. Told(x, d, us)'
        <5>1. Told(x, None, us) /\ d # None /\ d.status = "pending" /\ d.given = <<>>
          BY <3>2, <4>1, <4>2
        <5>2. e.op = "file" /\ e.a = x /\ e.outcome = "succeeded" /\ told' = Append(told, e)
          BY <1>4, <1>8, <2>1, <3>4
        <5> QED BY <1>3, <1>4, <5>1, <5>2, ToldFiled
      <4>4. row'[x] = d /\ uses'[x] = us
        BY <2>3, <2>4, <3>1, <3>4, <4>2
      <4> QED BY <4>3, <4>4 DEF Told
    <3>5. CASE x = a /\ q.kind # "file"
      <4>1. r # None /\ Staged(r, q) /\ c # None
        BY <1>2, <1>8, <3>1, <3>5 DEF ProcOK, Kinds
      <4>2. PICK d, g : d = c /\ g = q
        OBVIOUS
      <4>3. Len(r.given) \in Nat
        BY <1>2, <3>1, <3>5, <4>1, RowIs
      <4>4. Told(x, d, us2)'
        <5>1. /\ r # None /\ d # None /\ Staged(r, g) /\ d = g.staged /\ g.kind = e.op
              /\ e.op = "use" => e.approvals = d.given
          BY <1>4, <1>8, <4>1, <4>2
        <5>2. e.op \in Kinds \ {"file"} /\ e.a = x /\ e.outcome = "succeeded" /\ told' = Append(told, e)
          BY <1>2, <1>4, <1>8, <2>1, <3>5
        <5>3. us2 = IF e.op = "use" THEN Append(us, g.now) ELSE us
          BY <1>4, <2>4, <3>1, <3>5, <4>2
        <5> QED BY <1>3, <1>4, <3>2, <4>3, <5>1, <5>2, <5>3, ToldDecided
      <4>5. row'[x] = d /\ uses'[x] = us2
        BY <2>3, <3>1, <3>5, <4>2
      <4> QED BY <4>4, <4>5 DEF Told
    <3> QED BY <3>3, <3>4, <3>5
  <2>6. ASSUME NEW o \in Procs \ {p} PROVE ProcOK(row', Freed(p), o, pr[o])
    <3>1. ProcOK(row, rowLock, o, pr[o])
      BY <1>3
    <3>2. CASE q.kind = "file"
      <4>1. pr[o].a # a
        BY <3>2 DEF AInv, Filing
      <4>2. pr[o].kind # "none" => pr[o].a \in Approvals /\ row'[pr[o].a] = row[pr[o].a]
        BY <2>3, <3>1, <4>1 DEF ProcOK
      <4>3. (pr[o].pc # "idle" \/ pr[o].staged # None) => pr[o].kind # "none"
        BY <3>1 DEF ProcOK
      <4> QED BY <1>5, <3>1, <4>2, <4>3 DEF ProcOK
    <3>3. CASE q.kind # "file"
      <4>1. row[a] # None /\ rowLock[a] = p /\ Staged(row[a], q)
        BY <1>2, <1>8, <3>3 DEF ProcOK, Kinds
      <4>2. RowOK(row[a]) /\ c # None /\ rowLock[a] # o
        BY <1>2, <1>3, <1>8, <4>1
      <4>3. /\ c.required = row[a].required
            /\ c.given = row[a].given \/ Len(c.given) = Len(row[a].given) + 1
        BY <4>1 DEF Staged
      <4>4. /\ row'[a] # None /\ RowOK(row'[a]) /\ row'[a].required = row[a].required
            /\ row'[a].given = row[a].given \/ Len(row'[a].given) = Len(row[a].given) + 1
        BY <2>1, <2>3, <4>2, <4>3
      <4>5. \A x \in Approvals : rowLock[x] = o => Freed(p)[x] = o
        BY <1>5
      <4> QED BY <1>2, <2>3, <3>1, <4>2, <4>4, <4>5, OtherProc
    <3> QED BY <3>2, <3>3
  <2>7. \A x \in Approvals : row'[x] # None => RowOK(row'[x])
    BY <1>3, <2>1, <2>3
  <2> QED BY <1>1, <2>2, <2>3, <2>4, <2>5, <2>6, <2>7, CommitStep
<1> QED BY <1>6, <1>7, <1>8 DEF appendAdminAudit, e
-------------------------------------------------------------------------
(* The audit log *)

\* The head of the log is the end of its run of seqs.
LEMMA HeadIs ==
  ASSUME LInv
  PROVE  /\ ChainHead \in Nat /\ checkpoint \in Nat /\ checkpoint <= ChainHead
         /\ DOMAIN log = (checkpoint + 1)..ChainHead
<1>1. PICK n \in Nat : checkpoint <= n /\ DOMAIN log = (checkpoint + 1)..n
  BY DEF LInv
<1>2. checkpoint \in Nat
  BY DEF LInv
<1>3. CASE DOMAIN log = {}
  <2>1. n \notin (checkpoint + 1)..n
    BY <1>1, <1>3
  <2>2. n = checkpoint
    BY <1>1, <1>2, <2>1
  <2> QED BY <1>1, <1>2, <1>3, <2>2 DEF ChainHead
<1>4. CASE DOMAIN log # {}
  <2> DEFINE S == (checkpoint + 1)..n
  <2>1. n \in S /\ (\A x \in S : n >= x) /\ S \subseteq Nat
    BY <1>1, <1>2, <1>4
  <2> HIDE DEF S
  <2>2. Max(S) \in S /\ \A x \in S : Max(S) >= x
    BY <2>1 DEF Max
  <2>3. Max(S) = n
    <3> HIDE DEF Max
    <3>1. Max(S) \in Nat /\ Max(S) >= n /\ n >= Max(S)
      BY <2>1, <2>2
    <3> QED BY <3>1
  <2>4. ChainHead = n
    BY <1>1, <1>4, <2>3 DEF ChainHead, S
  <2> QED BY <1>1, <1>2, <2>4
<1> QED BY <1>3, <1>4

\* Steps that leave the log alone, whoever takes them.
LEMMA LogStep ==
  ASSUME AInv, LInv, NEW p \in Procs, NEW q, pr' = [pr EXCEPT ![p] = q],
         UNCHANGED <<log, checkpoint, clashes>>, logLock' = logLock \/ logLock' = LogFreed(p),
         q.pc \notin {"head", "insert"}
  PROVE  LInv'
<1>1. DOMAIN pr = Procs
  BY DEF AInv
<1>2. pr'[p] = q /\ \A o \in Procs \ {p} : pr'[o] = pr[o]
  BY <1>1
<1>3. ChainHead' = ChainHead
  BY DEF ChainHead
<1>4. \A o \in Procs : pr'[o].pc \in {"head", "insert"} => o # p /\ pr'[o] = pr[o]
  BY <1>2
<1>5. \A o \in Procs : pr'[o].pc \in {"head", "insert"} => logLock' = o
  BY <1>4 DEF LInv, LogFreed
<1>6. \A o \in Procs : pr'[o].pc = "insert" => pr'[o].head = ChainHead'
  BY <1>3, <1>4 DEF LInv
<1> QED BY <1>5, <1>6 DEF LInv

LEMMA LockLogStep ==
  ASSUME AInv, LInv, NEW p \in Procs, lockRealmChain(p)
  PROVE  LInv'
<1> DEFINE q == [pr[p] EXCEPT !.pc = "head"]
<1>1. logLock = None /\ logLock' = p /\ pr' = [pr EXCEPT ![p] = q] /\ UNCHANGED <<log, checkpoint, clashes>>
  BY DEF lockRealmChain, Go, history
<1>2. DOMAIN pr = Procs /\ pr[p] \in ProcType
  BY ProcParts DEF AInv
<1>3. q.pc = "head"
  BY <1>2 DEF ProcType
<1> HIDE DEF q
<1>4. pr'[p] = q /\ \A o \in Procs \ {p} : pr'[o] = pr[o]
  BY <1>1, <1>2
<1>5. \A o \in Procs \ {p} : pr'[o].pc \notin {"head", "insert"}
  BY <1>1, <1>4, ApprovalAssumption DEF LInv
<1> QED BY <1>1, <1>3, <1>4, <1>5 DEF LInv

LEMMA HeadStep ==
  ASSUME AInv, LInv, NEW p \in Procs, readChainHead(p)
  PROVE  LInv'
<1> DEFINE h == ChainHead
           q == [pr[p] EXCEPT !.pc = "insert", !.head = h]
<1>1. pr[p].pc = "head" /\ pr' = [pr EXCEPT ![p] = q] /\ UNCHANGED <<log, checkpoint, logLock, clashes>>
  BY DEF readChainHead, At, Go, chain, history
<1>2. DOMAIN pr = Procs /\ pr[p] \in ProcType
  BY ProcParts DEF AInv
<1>3. q.pc = "insert" /\ q.head = h
  BY <1>2 DEF ProcType
<1>4. ChainHead' = h
  BY <1>1 DEF ChainHead
<1> HIDE DEF q, h
<1>5. pr'[p] = q /\ \A o \in Procs \ {p} : pr'[o] = pr[o]
  BY <1>1, <1>2
<1>6. logLock = p
  BY <1>1 DEF LInv
<1>7. \A o \in Procs : pr'[o].pc \in {"head", "insert"} => logLock' = o
  BY <1>1, <1>5, <1>6 DEF LInv
<1>8. \A o \in Procs : pr'[o].pc = "insert" => pr'[o].head = ChainHead'
  BY <1>3, <1>4, <1>5 DEF LInv, h
<1> QED BY <1>1, <1>7, <1>8 DEF LInv

LEMMA AppendStep ==
  ASSUME AInv, LInv, NEW p \in Procs, appendAdminAudit(p)
  PROVE  LInv'
<1> DEFINE n == pr[p].head
<1>1. /\ pr[p].pc = "insert" /\ pr' = [pr EXCEPT ![p] = Idle] /\ checkpoint' = checkpoint
  BY DEF appendAdminAudit, At, Go
<1>2. logLock = p /\ n = ChainHead
  BY <1>1 DEF LInv
<1>3. n \in Nat /\ checkpoint \in Nat /\ checkpoint <= n /\ DOMAIN log = (checkpoint + 1)..n
  BY <1>2, HeadIs
<1>4. n + 1 \notin DOMAIN log
  BY <1>3
<1>5. /\ log' = [s \in DOMAIN log \cup {n + 1} |-> IF s = n + 1 THEN n ELSE log[s]]
      /\ clashes' = clashes
  BY <1>4 DEF appendAdminAudit
<1> HIDE DEF n
<1>6. DOMAIN log' = (checkpoint + 1)..(n + 1) /\ n + 1 \in Nat /\ checkpoint <= n + 1
  BY <1>3, <1>5
<1>7. \A s \in DOMAIN log' : log'[s] = s - 1
  BY <1>3, <1>5 DEF LInv
<1>8. \A o \in Procs : pr'[o].pc \notin {"head", "insert"}
  <2>1. DOMAIN pr = Procs
    BY DEF AInv
  <2>2. \A o \in Procs \ {p} : pr[o].pc \notin {"head", "insert"}
    BY <1>2 DEF LInv
  <2> QED BY <1>1, <2>1, <2>2, IdleFields
<1> QED BY <1>1, <1>5, <1>6, <1>7, <1>8 DEF LInv

LEMMA PruneStep ==
  ASSUME AInv, LInv, NEW t, prune(t)
  PROVE  LInv'
<1>1. /\ logLock = None /\ t \in DOMAIN log /\ checkpoint' = t
      /\ log' = [s \in {s \in DOMAIN log : s > t} |-> log[s]]
      /\ UNCHANGED <<logLock, pr, clashes>>
  BY DEF prune, history
<1>2. PICK n \in Nat : checkpoint <= n /\ DOMAIN log = (checkpoint + 1)..n
  BY DEF LInv
<1>3. checkpoint \in Nat
  BY DEF LInv
<1>4. t \in Nat /\ t <= n /\ checkpoint < t
  BY <1>1, <1>2, <1>3
<1>5. DOMAIN log' = (t + 1)..n
  <2>1. DOMAIN log' = {s \in DOMAIN log : s > t}
    BY <1>1
  <2> QED BY <1>2, <1>3, <1>4, <2>1
<1>6. \A s \in DOMAIN log' : log'[s] = s - 1
  BY <1>1 DEF LInv
<1>7. \A o \in Procs : pr'[o].pc \notin {"head", "insert"}
  BY <1>1, ApprovalAssumption DEF LInv
<1> QED BY <1>1, <1>4, <1>5, <1>6, <1>7 DEF LInv

\* The steps of a request that do not touch the log.
LEMMA OtherStep ==
  ASSUME AInv, LInv, NEW p \in Procs,
         \/ \E a \in Approvals :
              \/ fileApproval(p, a) \/ seeVersion(p, a) \/ approvalGate(p, a)
              \/ \E kind, account : approvalTheApproverMayDecide(p, kind, a, account)
         \/ verify(p) \/ arrive(p) \/ lockApproval(p) \/ update(p) \/ handle(p) \/ Fails(p)
  PROVE  LInv'
<1>1. pr[p] \in ProcType
  BY ProcParts
<1>2. /\ UNCHANGED <<log, checkpoint, clashes>>
      /\ logLock' = logLock \/ logLock' = LogFreed(p)
  BY DEF fileApproval, seeVersion, approvalGate, approvalTheApproverMayDecide, verify, arrive, lockApproval,
         update, handle, Fails, chain, history
<1> SUFFICES \E q : Go(p, q) /\ q.pc \notin {"head", "insert"}
  BY <1>2, LogStep DEF Go
<1>3. ASSUME NEW a \in Approvals, fileApproval(p, a) PROVE \E q : Go(p, q) /\ q.pc \notin {"head", "insert"}
  <2>1. PICK f : Go(p, [Idle EXCEPT !.kind = "file", !.a = a, !.by = Requester, !.pc = "append",
                                    !.outcome = "succeeded", !.staged = f])
    BY <1>3 DEF fileApproval
  <2> DEFINE q == [Idle EXCEPT !.kind = "file", !.a = a, !.by = Requester, !.pc = "append",
                               !.outcome = "succeeded", !.staged = f]
  <2>2. q.pc = "append"
    BY IdleFields DEF ProcType
  <2> QED BY <2>1, <2>2
<1>4. ASSUME NEW a \in Approvals, seeVersion(p, a) PROVE \E q : Go(p, q) /\ q.pc \notin {"head", "insert"}
  <2> DEFINE q == [Idle EXCEPT !.kind = "cancel", !.a = a, !.by = Requester, !.pc = "arrive",
                               !.count = Len(row[a].given), !.status = row[a].status]
  <2>1. q.pc = "arrive"
    BY IdleFields DEF ProcType
  <2> QED BY <1>4, <2>1 DEF seeVersion
<1>5. ASSUME NEW a \in Approvals, approvalGate(p, a) PROVE \E q : Go(p, q) /\ q.pc \notin {"head", "insert"}
  <2> DEFINE q == [Idle EXCEPT !.kind = "use", !.a = a, !.by = Requester, !.pc = "arrive"]
  <2>1. q.pc = "arrive"
    BY IdleFields DEF ProcType
  <2> QED BY <1>5, <2>1 DEF approvalGate
<1>6. ASSUME NEW a \in Approvals, NEW kind, NEW account, approvalTheApproverMayDecide(p, kind, a, account)
      PROVE  \E q : Go(p, q) /\ q.pc \notin {"head", "insert"}
  <2>1. PICK c, m, x : /\ Go(p, [Idle EXCEPT !.kind = kind, !.a = a, !.by = account,
                                             !.count = c, !.now = m, !.pc = x])
                       /\ x \in {"verify", "lock"}
    BY <1>6 DEF approvalTheApproverMayDecide
  <2> DEFINE q == [Idle EXCEPT !.kind = kind, !.a = a, !.by = account, !.count = c, !.now = m, !.pc = x]
  <2>2. q.pc = x
    BY IdleFields DEF ProcType
  <2> QED BY <2>1, <2>2
<1>7. ASSUME verify(p) PROVE \E q : Go(p, q) /\ q.pc \notin {"head", "insert"}
  <2>1. CASE \E skew \in Skews : Go(p, [pr[p] EXCEPT !.pc = "lock", !.now = clock + skew])
    <3>1. PICK skew \in Skews : Go(p, [pr[p] EXCEPT !.pc = "lock", !.now = clock + skew])
      BY <2>1
    <3> DEFINE q == [pr[p] EXCEPT !.pc = "lock", !.now = clock + skew]
    <3>2. q.pc = "lock"
      BY <1>1 DEF ProcType
    <3> QED BY <3>1, <3>2
  <2>2. CASE Go(p, [pr[p] EXCEPT !.pc = "append", !.outcome = "denied"])
    <3> DEFINE q == [pr[p] EXCEPT !.pc = "append", !.outcome = "denied"]
    <3>1. q.pc = "append"
      BY <1>1 DEF ProcType
    <3> QED BY <2>2, <3>1
  <2> QED BY <1>7, <2>1, <2>2 DEF verify
<1>8. ASSUME arrive(p) PROVE \E q : Go(p, q) /\ q.pc \notin {"head", "insert"}
  <2>1. PICK skew \in Skews : Go(p, [pr[p] EXCEPT !.pc = "lock", !.now = clock + skew])
    BY <1>8 DEF arrive
  <2> DEFINE q == [pr[p] EXCEPT !.pc = "lock", !.now = clock + skew]
  <2>2. q.pc = "lock"
    BY <1>1 DEF ProcType
  <2> QED BY <2>1, <2>2
<1>9. ASSUME lockApproval(p) PROVE \E q : Go(p, q) /\ q.pc \notin {"head", "insert"}
  BY <1>1, <1>9 DEF lockApproval, ProcType
<1>10. \A out : Refused(p, out).pc \notin {"head", "insert"}
  <2>1. ASSUME NEW out PROVE Refused(p, out).pc \in {"append", "idle"}
    BY <1>1, IdleFields DEF Refused, ProcType
  <2> QED BY <2>1
<1>11. ASSUME update(p) PROVE \E q : Go(p, q) /\ q.pc \notin {"head", "insert"}
  <2>1. CASE Matches(row[pr[p].a], pr[p])
    <3>1. PICK c, m, x : /\ Go(p, [pr[p] EXCEPT !.staged = c, !.outcome = "succeeded", !.pc = x, !.now = m])
                         /\ x \in {"handle", "append"}
      BY <1>11, <2>1 DEF update
    <3>2. [pr[p] EXCEPT !.staged = c, !.outcome = "succeeded", !.pc = x, !.now = m].pc = x
      BY <1>1 DEF ProcType
    <3> QED BY <3>1, <3>2
  <2>2. CASE ~Matches(row[pr[p].a], pr[p])
    BY <1>10, <1>11, <2>2 DEF update, NoRow
  <2> QED BY <2>1, <2>2
<1>12. ASSUME handle(p) PROVE \E q : Go(p, q) /\ q.pc \notin {"head", "insert"}
  <2>1. CASE Go(p, [pr[p] EXCEPT !.pc = "append"])
    BY <1>1, <2>1 DEF ProcType
  <2>2. CASE Go(p, Refused(p, "failed"))
    BY <1>10, <2>2
  <2> QED BY <1>12, <2>1, <2>2 DEF handle
<1>13. ASSUME Fails(p) PROVE \E q : Go(p, q) /\ q.pc \notin {"head", "insert"}
  BY <1>13, IdleFields DEF Fails
<1> QED BY <1>3, <1>4, <1>5, <1>6, <1>7, <1>8, <1>9, <1>11, <1>12, <1>13
-------------------------------------------------------------------------
(* The theorems *)

IInv == AInv /\ LInv

LEMMA InitHolds == Init => IInv
<1> SUFFICES ASSUME Init PROVE IInv
  OBVIOUS
<1>1. /\ clock = 0 /\ row = [a \in Approvals |-> None] /\ rowLock = [a \in Approvals |-> None]
      /\ pr = [p \in Procs |-> Idle] /\ told = <<>> /\ uses = [a \in Approvals |-> <<>>]
      /\ clashes = 0 /\ checkpoint = 0 /\ DOMAIN log = {}
  BY DEF Init
<1>2. \A p \in Procs : ProcOK(row, rowLock, p, pr[p])
  BY <1>1, IdleOK
<1>3. \A a \in Approvals : Told(a, row[a], uses[a])
  <2>1. ASSUME NEW op, NEW a PROVE Times(op, a) = 0
    <3>1. {i \in DOMAIN told : told[i].op = op /\ told[i].a = a /\ told[i].outcome = "succeeded"} = {}
      BY <1>1
    <3> QED BY <3>1, FS_EmptySet DEF Times
  <2>2. DOMAIN told = {}
    BY <1>1
  <2> QED BY <1>1, <2>1, <2>2 DEF Told
<1>4. Locks /\ Filing
  BY <1>1, IdleFields DEF Locks, Filing
<1>5. told \in Seq(EntryType) /\ uses \in [Approvals -> Seq(Int)] /\ rowLock \in [Approvals -> Procs \cup {None}]
  BY <1>1
<1>6. AInv
  BY <1>1, <1>2, <1>3, <1>4, <1>5 DEF AInv
<1>7. LInv
  <2>1. 0 \in Nat /\ checkpoint <= 0 /\ DOMAIN log = (checkpoint + 1)..0
    BY <1>1
  <2> QED BY <1>1, <2>1, IdleFields DEF LInv
<1> QED BY <1>6, <1>7 DEF IInv

LEMMA NextKeeps == IInv /\ [Next]_vars => IInv'
<1> SUFFICES ASSUME AInv, LInv, [Next]_vars PROVE AInv' /\ LInv'
  BY DEF IInv
<1>1. ASSUME UNCHANGED <<row, rowLock, pr, told, uses, log, checkpoint, logLock, clashes>>, clock' \in Nat
      PROVE  AInv' /\ LInv'
  <2>1. AInv'
    BY <1>1, ElsewhereKeeps
  <2>2. ChainHead' = ChainHead
    BY <1>1 DEF ChainHead
  <2>3. LInv'
    BY <1>1, <2>2 DEF LInv
  <2> QED BY <2>1, <2>3
<1>2. CASE UNCHANGED vars
  BY <1>1, <1>2 DEF vars, AInv
<1>3. CASE Tick
  <2>1. clock' \in Nat
    BY <1>3 DEF Tick, AInv
  <2> QED BY <1>1, <1>3, <2>1 DEF Tick, chain, history
<1>4. ASSUME NEW p \in Procs, NEW a \in Approvals, NEW kind, NEW account \in Accounts,
             \/ fileApproval(p, a) \/ seeVersion(p, a) \/ approvalGate(p, a)
             \/ approvalTheApproverMayDecide(p, kind, a, account)
      PROVE  AInv' /\ LInv'
  <2>1. AInv'
    BY <1>4, FileKeeps, SeeVersionKeeps, GateKeeps, DecideKeeps
  <2>2. LInv'
    BY <1>4, OtherStep
  <2> QED BY <2>1, <2>2
<1>5. ASSUME NEW p \in Procs, NEW a \in Approvals, fileApproval(p, a) \/ seeVersion(p, a) \/ approvalGate(p, a)
      PROVE  AInv' /\ LInv'
  <2>1. AInv'
    BY <1>5, FileKeeps, SeeVersionKeeps, GateKeeps
  <2>2. LInv'
    BY <1>5, OtherStep
  <2> QED BY <2>1, <2>2
<1>6. ASSUME NEW p \in Procs, Step(p) PROVE AInv' /\ LInv'
  <2>1. CASE verify(p) \/ arrive(p) \/ lockApproval(p) \/ update(p) \/ handle(p) \/ Fails(p)
    <3>1. AInv'
      BY <2>1, VerifyKeeps, ArriveKeeps, LockKeeps, UpdateKeeps, HandleKeeps, FailsKeeps
    <3>2. LInv'
      BY <2>1, OtherStep
    <3> QED BY <3>1, <3>2
  <2>2. CASE lockRealmChain(p)
    BY <2>2, LockLogKeeps, LockLogStep
  <2>3. CASE readChainHead(p)
    BY <2>3, HeadIs, HeadKeeps, HeadStep
  <2>4. CASE appendAdminAudit(p)
    BY <2>4, AppendKeeps, AppendStep
  <2> QED BY <1>6, <2>1, <2>2, <2>3, <2>4 DEF Step
<1>7. ASSUME NEW a \in Approvals, expireLapsed(a) PROVE AInv' /\ LInv'
  <2>1. UNCHANGED <<log, checkpoint, logLock, pr, clashes>>
    BY <1>7 DEF expireLapsed, chain, history
  <2>2. ChainHead' = ChainHead
    BY <2>1 DEF ChainHead
  <2>3. LInv'
    BY <2>1, <2>2 DEF LInv
  <2> QED BY <1>7, <2>3, ExpireKeeps
<1>8. ASSUME NEW s, prune(s) PROVE AInv' /\ LInv'
  <2>1. UNCHANGED <<row, rowLock, pr, told, uses>> /\ clock' \in Nat
    BY <1>8 DEF prune, history, AInv
  <2> QED BY <1>8, <2>1, ElsewhereKeeps, PruneStep
<1> QED BY <1>2, <1>3, <1>4, <1>5, <1>6, <1>7, <1>8 DEF Next

\* Every reachable state is in the invariant: who holds a row's lock has staged
\* what its UPDATE made of the row as it still is, an approver's reading is of
\* now or of fewer approvals, and the log runs from its checkpoint to the head
\* that the holder of its lock has read (addApproval, lockRealmChain).
THEOREM ApprovalsKept == Spec => []IInv
<1>1. Init => IInv
  BY InitHolds
<1>2. IInv /\ [Next]_vars => IInv'
  BY NextKeeps
<1> QED BY <1>1, <1>2, PTL DEF Spec

\* An approval performs one operation, before its expiry by the database's
\* clock however the nodes' clocks are off, and only with the requester's own
\* step-up and exactly the others it needs, for any number of accounts and
\* concurrent requests (consume, addApproval, checkedAt).
THEOREM ApprovalsUsedRightly == Spec => []UsedRightly
<1>1. IInv => UsedRightly
  <2> SUFFICES ASSUME AInv PROVE UsedRightly
    BY DEF IInv
  <2>1. ASSUME NEW a \in Approvals PROVE Len(uses[a]) <= 1
    <3>1. Told(a, row[a], uses[a])
      BY DEF AInv
    <3>2. CASE row[a] # None /\ row[a].status = "consumed"
      <4>1. Len(uses[a]) = 1
        BY <3>1, <3>2 DEF Told
      <4> QED BY <4>1
    <3>3. CASE ~(row[a] # None /\ row[a].status = "consumed")
      <4>1. uses[a] = <<>>
        BY <3>1, <3>3 DEF Told
      <4> QED BY <4>1
    <3> QED BY <3>2, <3>3
  <2>2. ASSUME NEW a \in Approvals, NEW i \in DOMAIN uses[a] PROVE uses[a][i] < row[a].expires
    <3>1. Told(a, row[a], uses[a]) /\ uses[a] \in Seq(Int)
      BY DEF AInv
    <3>2. row[a] # None /\ row[a].status = "consumed"
      BY <2>2, <3>1 DEF Told
    <3>3. Len(uses[a]) = 1 /\ uses[a][1] < row[a].expires
      BY <3>1, <3>2 DEF Told
    <3>4. i = 1
      BY <2>2, <3>1, <3>3
    <3> QED BY <3>3, <3>4
  <2>3. ASSUME NEW a \in Approvals, row[a] # None, row[a].status \in {"approved", "consumed"}
        PROVE  /\ Requester \in Given(row[a]) /\ Len(row[a].given) = row[a].required
               /\ Cardinality(Given(row[a])) = row[a].required
    BY <2>3, RowIs, RowQuorum
  <2> QED BY <2>1, <2>2, <2>3 DEF UsedRightly, UsedOnce, UsedInTime, QuorumKept
<1> QED BY <1>1, ApprovalsKept, PTL

\* The audit log tells every filing, approval, denial, withdrawal and use that
\* took effect and none that was rolled back, verifies from its newest
\* checkpoint whatever is pruned, and no append meets another's row
\* (appendAdminAudit, admin_audit_log_prune).
THEOREM AuditStaysKept == Spec => []AuditKept
<1>1. IInv => AuditKept
  <2> SUFFICES ASSUME AInv, LInv PROVE AuditKept
    BY DEF IInv
  <2>1. TypeOK
    <3>1. ASSUME NEW a \in Approvals, row[a] # None
          PROVE  /\ row[a].status \in Statuses /\ Given(row[a]) \subseteq Accounts
                 /\ row[a].required \in Required
      <4>1. row[a] \in RowType /\ row[a].given \in Seq(Accounts)
        BY <3>1, RowIs
      <4>2. \A i \in DOMAIN row[a].given : row[a].given[i] \in Accounts
        BY <4>1
      <4> QED BY <4>1, <4>2 DEF RowType, Given
    <3>2. \A a \in Approvals : rowLock[a] # None => pr[rowLock[a]].a = a
      BY DEF AInv, Locks
    <3>3. checkpoint \in Nat /\ DOMAIN log \subseteq Nat
      BY HeadIs
    <3> QED BY <3>1, <3>2, <3>3 DEF TypeOK
  <2>2. AuditTellsAll
    <3>1. ASSUME NEW a \in Approvals, row[a] # None
          PROVE  /\ Times("file", a) = 1
                 /\ Times("approve", a) = Len(row[a].given)
                 /\ Times("deny", a) = (IF row[a].status = "denied" THEN 1 ELSE 0)
                 /\ Times("cancel", a) = (IF row[a].status = "cancelled" THEN 1 ELSE 0)
                 /\ Times("use", a) = Len(uses[a]) /\ (uses[a] # <<>>) = (row[a].status = "consumed")
                 /\ \A i \in DOMAIN told :
                      (told[i].op = "use" /\ told[i].a = a /\ told[i].outcome = "succeeded")
                        => told[i].approvals = row[a].given
      <4>1. Told(a, row[a], uses[a])
        BY DEF AInv
      <4>2. CASE row[a].status = "consumed"
        <5>1. Len(uses[a]) = 1
          BY <3>1, <4>1, <4>2 DEF Told
        <5>2. uses[a] # <<>>
          BY <5>1
        <5> QED BY <3>1, <4>1, <4>2, <5>1, <5>2 DEF Told
      <4>3. CASE row[a].status # "consumed"
        <5>1. uses[a] = <<>>
          BY <3>1, <4>1, <4>3 DEF Told
        <5>2. Len(uses[a]) = 0
          BY <5>1
        <5> QED BY <3>1, <4>1, <4>3, <5>1, <5>2 DEF Told
      <4> QED BY <4>2, <4>3
    <3> QED BY <3>1 DEF AuditTellsAll
  <2>3. AuditLogVerifies
    <3>1. /\ ChainHead \in Nat /\ checkpoint \in Nat /\ DOMAIN log = (checkpoint + 1)..ChainHead
          /\ \A s \in DOMAIN log : log[s] = s - 1
      BY HeadIs DEF LInv
    <3>2. ASSUME NEW s \in DOMAIN log
          PROVE  s > checkpoint /\ log[s] = s - 1 /\ s - 1 \in DOMAIN log \cup {checkpoint}
      <4> HIDE DEF ChainHead
      <4> QED BY <3>1
    <3> QED BY <3>2 DEF AuditLogVerifies
  <2>4. NoAppendClash
    BY DEF LInv, NoAppendClash
  <2> QED BY <2>1, <2>2, <2>3, <2>4 DEF AuditKept
<1> QED BY <1>1, ApprovalsKept, PTL

----------------------------------------------------------------------------
(* The chain *)

(* The newest of a set of seqs *)

LEMMA Least ==
  ASSUME NEW T \in SUBSET Nat, T # {}
  PROVE  \E x \in T : \A y \in T : x <= y
<1>1. PICK x \in T : \A y \in T : ~(<<y, x>> \in OpToRel(<, Nat))
  BY NatLessThanWellFounded, WFMin
<1>2. \A y \in T : ~(y < x)
  BY <1>1 DEF OpToRel
<1> QED BY <1>2

LEMMA NewestIs ==
  ASSUME NEW S \in SUBSET Nat, NEW n \in Nat, \A x \in S : x <= n
  PROVE  /\ Newest(S) \in Nat /\ Newest(S) \in S \cup {0}
         /\ \A x \in S : x <= Newest(S)
<1> DEFINE Z == S \cup {0}
           B == {m \in Nat : \A x \in Z : x <= m}
<1>1. n \in B
  OBVIOUS
<1>2. PICK m \in B : \A k \in B : m <= k
  BY <1>1, Least
<1>3. m \in Z
  <2>1. SUFFICES ASSUME m \notin Z PROVE FALSE
    OBVIOUS
  <2>2. m \in Nat /\ m # 0 /\ \A x \in Z : x <= m /\ x # m /\ x \in Nat
    BY <2>1
  <2>3. m - 1 \in B
    BY <2>2
  <2> QED BY <1>2, <2>2, <2>3
<1>4. m \in Z /\ \A x \in Z : m >= x
  BY <1>3
<1> HIDE DEF Z, B
<1>5. Max(Z) \in Z /\ \A x \in Z : Max(Z) >= x
  BY <1>4 DEF Max
<1>6. Newest(S) = Max(Z)
  BY DEF Newest, Z
<1>7. Z \in SUBSET Nat /\ S \subseteq Z /\ Z = S \cup {0}
  BY DEF Z
<1> HIDE DEF Newest
<1> QED BY <1>5, <1>6, <1>7

\* The only number of S that is at least all of them.
LEMMA NewestEq ==
  ASSUME NEW S \in SUBSET Nat, NEW v \in Nat, v \in S \cup {0}, \A x \in S : x <= v
  PROVE  Newest(S) = v
<1>1. Newest(S) \in Nat /\ Newest(S) \in S \cup {0} /\ \A x \in S : x <= Newest(S)
  BY NewestIs
<1> HIDE DEF Newest
<1>2. v <= Newest(S) /\ Newest(S) <= v
  BY <1>1
<1> QED BY <1>1, <1>2
-------------------------------------------------------------------------
(* The invariant *)

ChainRowType == [prev : Nat, whole : BOOLEAN]
TxType == [pc : {"idle", "head", "insert", "emitted"}, prev : Nat, rows : SUBSET (Nat \X Nat)]
BatchType == [pc : {"idle", "anchor", "head", "rows", "move", "delete", "commit"},
              through : Nat, anchor : Nat, head : Nat, doomed : SUBSET Nat]

ChainType ==
  /\ seqs \in Nat /\ anchor \in Nat
  /\ events \in [Stored -> ChainRowType] /\ Stored \subseteq 1..seqs
  /\ tx \in [Writers -> TxType] /\ batch \in [Batches -> BatchType]
  /\ points \subseteq Nat /\ damaged \in BOOLEAN /\ alarm \in BOOLEAN

\* The rows a transaction has inserted follow the newest stored one, h, each
\* linked to the one before it.
TxOK(h, sq, t) ==
  /\ t.pc = "idle" => t.rows = {}
  /\ \A r \in t.rows : h < r[1] /\ r[1] <= sq /\ h <= r[2] /\ r[2] < r[1]
  /\ \A r \in t.rows : r[2] = h \/ \E q \in t.rows : q[1] = r[2]
  /\ \A r, q \in t.rows : (r[1] = q[1] => r = q) /\ ~(r[2] < q[1] /\ q[1] < r[1])
  /\ t.pc = "insert" => /\ h <= t.prev /\ (t.prev = h \/ \E q \in t.rows : q[1] = t.prev)
                        /\ \A q \in t.rows : q[1] <= t.prev

Deleting == {"move", "delete", "commit"}

\* A batch knows the anchor, was offered no more than is stored, and deletes
\* from the start of the chain, never its newest row.
BatchOK(st, h, an, dm, b) ==
  /\ b.pc \notin {"idle", "anchor"} => b.anchor = an
  /\ b.pc # "idle" => b.through <= h
  /\ b.pc = "rows" => b.through <= b.head /\ b.head <= h
  /\ IF b.pc \in Deleting THEN b.doomed # {} ELSE b.doomed = {}
  /\ \A d \in b.doomed : an < d /\ d < h
  /\ \A d \in b.doomed : \A t \in st : t <= d => t \in b.doomed
  /\ b.pc = "commit" \/ ~dm => b.doomed \subseteq st

\* The row s is as it was written and follows the row before it.
InOrder(ev, an, s) ==
  /\ ev[s].whole /\ ev[s].prev < s /\ ev[s].prev \in DOMAIN ev \cup {an}
  /\ \A t \in DOMAIN ev : ~(ev[s].prev < t /\ t < s)

\* What no batch will delete: a changed row, or one whose predecessor was cut.
Evidence(ev, an, bt, n) ==
  \/ ~ev[n].whole /\ \A j \in Batches : n \notin bt[j].doomed
  \/ /\ ev[n].prev \notin DOMAIN ev \cup {an} /\ ev[n].prev < n
     /\ \A j \in Batches : n \in bt[j].doomed => ev[n].prev \in bt[j].doomed

Locked ==
  /\ \A w \in Writers : tx[w].pc # "idle" => chainLock = w
  /\ \A j \in Batches : batch[j].pc # "idle" => batchLock = j

Ordered == (\A s \in Stored : anchor < s) /\ (anchor # 0 => Stored # {})

Untouched ==
  /\ ~alarm /\ \A s \in Stored : InOrder(events, anchor, s)
  /\ \A x \in points : x <= anchor \/ x \in Stored

CInv ==
  /\ ChainType /\ Locked /\ Ordered
  /\ \A w \in Writers : TxOK(Newest(Stored), seqs, tx[w])
  /\ \A j \in Batches : BatchOK(Stored, Newest(Stored), anchor, damaged, batch[j])
  /\ ~damaged => Untouched
  /\ damaged => \E n \in Stored : Evidence(events, anchor, batch, n)
-------------------------------------------------------------------------
(* What the chain looks like *)

LEMMA ChainHeadIs ==
  ASSUME ChainType, Ordered
  PROVE  /\ Newest(Stored) \in Nat /\ Newest(Stored) <= seqs
         /\ Newest(Stored) \in Stored \cup {anchor} /\ anchor <= Newest(Stored)
         /\ \A s \in Stored : s \in Nat /\ s <= Newest(Stored)
         /\ Stored # {} => Newest(Stored) \in Stored /\ anchor < Newest(Stored)
<1>1. Stored \in SUBSET Nat /\ seqs \in Nat /\ anchor \in Nat /\ \A s \in Stored : s >= 1 /\ s <= seqs
  BY DEF ChainType
<1>2. /\ Newest(Stored) \in Nat /\ Newest(Stored) \in Stored \cup {0}
      /\ \A s \in Stored : s <= Newest(Stored)
  BY <1>1, NewestIs
<1>3. (\A s \in Stored : anchor < s) /\ (anchor # 0 => Stored # {})
  BY DEF Ordered
<1> DEFINE S == Stored
           h == Newest(Stored)
<1> SUFFICES /\ h \in Nat /\ h <= seqs /\ h \in S \cup {anchor} /\ anchor <= h
             /\ \A s \in S : s \in Nat /\ s <= h
             /\ S # {} => h \in S /\ anchor < h
  OBVIOUS
<1>4. /\ S \in SUBSET Nat /\ seqs \in Nat /\ anchor \in Nat /\ \A s \in S : s >= 1 /\ s <= seqs
      /\ h \in Nat /\ h \in S \cup {0} /\ \A s \in S : s <= h
      /\ \A s \in S : anchor < s
      /\ anchor # 0 => S # {}
  BY <1>1, <1>2, <1>3
<1> HIDE DEF S, h
<1>5. CASE S = {}
  BY <1>4, <1>5
<1>6. CASE S # {}
  <2>1. PICK s \in S : TRUE
    BY <1>6
  <2>2. h \in S
    BY <1>4, <2>1
  <2> QED BY <1>4, <2>2
<1> QED BY <1>5, <1>6

\* The row before s is v if v is stored, or the start, and none is between.
LEMMA BeforeIs ==
  ASSUME ChainType, NEW start \in Nat, NEW s \in Stored, NEW v \in Nat, v \in Stored \cup {start},
         start <= v, v < s, \A t \in Stored : ~(v < t /\ t < s)
  PROVE  Before(s, start) = v
<1> DEFINE S == {t \in Stored : start < t /\ t < s} \cup {start}
<1>0. Stored \in SUBSET Nat
  BY DEF ChainType
<1>1. S \in SUBSET Nat /\ s \in Nat /\ \A t \in Stored : t \in Nat
  BY <1>0
<1>a. v \in S
  <2>1. CASE v = start
    BY <2>1
  <2>2. CASE v # start
    <3>1. v \in Stored /\ start < v /\ v < s
      BY <2>2
    <3> QED BY <3>1
  <2> QED BY <2>1, <2>2
<1>2. \A x \in S : x <= v
  BY <1>1
<1>3. Newest(S) = v
  <2> HIDE DEF S
  <2> QED BY <1>1, <1>a, <1>2, NewestEq
<1> QED BY <1>3 DEF Before

LEMMA BeforeIn ==
  ASSUME ChainType, NEW start \in Nat, NEW s \in Stored
  PROVE  Before(s, start) \in Stored \cup {start}
<1> DEFINE S == {t \in Stored : start < t /\ t < s} \cup {start}
<1>0. Stored \in SUBSET Nat
  BY DEF ChainType
<1>1. S \in SUBSET Nat /\ s \in Nat /\ start \in S /\ S \subseteq Stored \cup {start}
  BY <1>0
<1>2. s + start \in Nat /\ \A x \in S : x <= s + start
  BY <1>1
<1>3. Newest(S) \in Nat /\ Newest(S) \in S \cup {0} /\ \A x \in S : x <= Newest(S)
  <2> HIDE DEF S
  <2> QED BY <1>1, <1>2, NewestIs
<1>4. Before(s, start) = Newest(S)
  BY DEF Before
<1> HIDE DEF S, Newest
<1>5. Newest(S) \in S
  BY <1>1, <1>3
<1> QED BY <1>1, <1>4, <1>5

\* A row in order passes the check from the anchor, and from any stored row
\* before it.
LEMMA OrderChecks ==
  ASSUME ChainType, Ordered, NEW s \in Stored, InOrder(events, anchor, s),
         NEW start \in Stored \cup {anchor}, start < s
  PROVE  checksOut(s, start)
<1>1. events[s] \in ChainRowType /\ s \in Nat /\ start \in Nat /\ anchor \in Nat /\ \A t \in Stored : t \in Nat /\ anchor < t
  BY DEF ChainType, Ordered
<1>2. /\ events[s].whole /\ events[s].prev \in Nat /\ events[s].prev < s
      /\ events[s].prev \in Stored \cup {anchor} /\ \A t \in Stored : ~(events[s].prev < t /\ t < s)
  BY <1>1 DEF InOrder, ChainRowType, Stored
<1>3. start <= events[s].prev /\ events[s].prev \in Stored \cup {start}
  <2> HIDE DEF Stored
  <2> QED BY <1>1, <1>2
<1>4. Before(s, start) = events[s].prev
  BY <1>1, <1>2, <1>3, BeforeIs
<1> QED BY <1>2, <1>4 DEF checksOut

LEMMA EvidenceFails ==
  ASSUME ChainType, NEW n \in Stored, NEW bt, Evidence(events, anchor, bt, n)
  PROVE  ~checksOut(n, anchor)
<1>1. Before(n, anchor) \in Stored \cup {anchor}
  BY BeforeIn DEF ChainType
<1> QED BY <1>1 DEF Evidence, checksOut, Stored

\* The invariant gives what is to be proved.
LEMMA SoundFromInv == CInv => ChainSound
<1> SUFFICES ASSUME CInv, ~damaged PROVE ChainSound
  BY DEF ChainSound, ChainVerifies, NoFalseAlarm
<1>1. ChainType /\ Ordered /\ Untouched
  BY DEF CInv
<1>2. NoFalseAlarm
  BY <1>1 DEF NoFalseAlarm, Untouched
<1>3. ASSUME NEW asked \in points \cup {0} PROVE Verifies(asked)
  <2>1. anchor \in Nat /\ asked \in Nat /\ \A t \in Stored : t \in Nat /\ anchor < t
    BY <1>1 DEF ChainType, Ordered
  <2>2. CASE asked <= anchor
    <3>1. StartFrom(asked) = anchor /\ anchor \notin Stored
      BY <2>1, <2>2 DEF StartFrom
    <3>2. \A s \in Stored : s > anchor => checksOut(s, anchor)
      BY <1>1, <2>1, OrderChecks DEF Untouched
    <3> QED BY <2>2, <3>1, <3>2 DEF Verifies
  <2>3. CASE ~(asked <= anchor)
    <3>1. StartFrom(asked) = asked /\ asked \in Stored
      BY <1>1, <2>1, <2>3 DEF StartFrom, Untouched
    <3>2. \A s \in Stored : s > asked => checksOut(s, asked)
      BY <1>1, <2>1, <3>1, OrderChecks DEF Untouched
    <3>3. events[asked].whole
      BY <1>1, <3>1 DEF Untouched, InOrder
    <3> QED BY <3>1, <3>2, <3>3 DEF Verifies
  <2> QED BY <2>2, <2>3
<1> QED BY <1>2, <1>3 DEF ChainSound, ChainVerifies

LEMMA EvidenceFromInv == CInv => EvidenceKept
<1> SUFFICES ASSUME CInv, damaged PROVE ~Verifies(0)
  BY DEF EvidenceKept
<1>1. PICK n \in Stored : Evidence(events, anchor, batch, n)
  BY DEF CInv
<1>2. ChainType /\ anchor \in Nat /\ anchor < n /\ n \in Nat
  BY DEF CInv, ChainType, Ordered
<1>3. ~checksOut(n, anchor) /\ StartFrom(0) = anchor
  BY <1>1, <1>2, EvidenceFails DEF StartFrom
<1> QED BY <1>2, <1>3 DEF Verifies
-------------------------------------------------------------------------
(* The writers *)

LEMMA NewTxTyped ==
  NewTx \in TxType /\ NewTx.pc = "idle" /\ NewTx.rows = {}
BY DEF NewTx, TxType

\* Writers that do not hold the chain's lock are idle.
LEMMA OthersIdle ==
  ASSUME CInv, NEW w \in Writers, tx[w].pc # "idle", NEW v \in Writers \ {w}
  PROVE  tx[v].pc = "idle" /\ tx[v].rows = {}
BY DEF CInv, Locked, TxOK

\* A statement of the transaction of w changes no stored row.
LEMMA TxStep ==
  ASSUME CInv, NEW w \in Writers, NEW t \in TxType, tx' = [tx EXCEPT ![w] = t],
         UNCHANGED <<events, retention>>, seqs' \in Nat, seqs <= seqs',
         TxOK(Newest(Stored), seqs', t), t.pc # "idle" => chainLock' = w,
         \A v \in Writers \ {w} : tx[v].pc # "idle" => chainLock' = v
  PROVE  CInv'
<1>1. /\ tx' \in [Writers -> TxType] /\ tx'[w] = t /\ \A v \in Writers \ {w} : tx'[v] = tx[v]
      /\ seqs \in Nat
  BY DEF CInv, ChainType
<1>2. UNCHANGED <<anchor, batchLock, batch, points, damaged, alarm>> /\ Stored' = Stored
      /\ Newest(Stored)' = Newest(Stored)
  BY DEF retention, Stored, Newest
<1>3. ChainType'
  <2>1. Stored \subseteq 1..seqs'
    BY <1>1 DEF CInv, ChainType
  <2> QED BY <1>1, <1>2, <2>1 DEF CInv, ChainType
<1>4. Locked' /\ Ordered'
  BY <1>1, <1>2 DEF CInv, Locked, Ordered
<1>5. ASSUME NEW v \in Writers PROVE TxOK(Newest(Stored), seqs', tx'[v])
  <2>1. CASE v = w
    BY <1>1, <2>1
  <2>2. CASE v # w
    <3>1. TxOK(Newest(Stored), seqs, tx[v]) /\ tx[v] \in TxType
      BY DEF CInv, ChainType
    <3>2. \A r \in tx[v].rows : r[1] <= seqs'
      BY <1>1, <3>1 DEF TxOK, TxType
    <3> HIDE DEF Newest
    <3> QED BY <1>1, <2>2, <3>1, <3>2 DEF TxOK
  <2> QED BY <2>1, <2>2
<1>6. \A j \in Batches : BatchOK(Stored', Newest(Stored)', anchor', damaged', batch'[j])
  BY <1>2 DEF CInv
<1>7. (~damaged' => Untouched') /\ (damaged' => \E n \in Stored' : Evidence(events', anchor', batch', n))
  BY <1>2 DEF CInv, Untouched
<1> QED BY <1>2, <1>3, <1>4, <1>5, <1>6, <1>7 DEF CInv

\* The parts of a writer's transaction, and who may hold the lock beside it.
LEMMA TxParts ==
  ASSUME CInv, NEW w \in Writers
  PROVE  /\ tx[w] \in TxType /\ tx[w].prev \in Nat /\ tx[w].rows \in SUBSET (Nat \X Nat)
         /\ \A r \in tx[w].rows : r[1] \in Nat /\ r[2] \in Nat
         /\ TxOK(Newest(Stored), seqs, tx[w]) /\ seqs \in Nat
         /\ Newest(Stored) \in Nat /\ Newest(Stored) <= seqs
<1>1. ChainType /\ Ordered /\ TxOK(Newest(Stored), seqs, tx[w])
  BY DEF CInv
<1>2. tx[w] \in TxType /\ seqs \in Nat
  BY <1>1 DEF ChainType
<1>3. Newest(Stored) \in Nat /\ Newest(Stored) <= seqs
  BY <1>1, ChainHeadIs
<1>4. tx[w].prev \in Nat /\ tx[w].rows \in SUBSET (Nat \X Nat)
  BY <1>2 DEF TxType
<1>5. \A r \in tx[w].rows : r[1] \in Nat /\ r[2] \in Nat
  BY <1>4
<1> QED BY <1>1, <1>2, <1>3, <1>4, <1>5

LEMMA ChainLockKeeps ==
  ASSUME CInv, NEW w \in Writers, lockChain(w)
  PROVE  CInv'
<1> DEFINE t == [tx[w] EXCEPT !.pc = "head"]
<1>1. tx[w].pc = "idle" /\ chainLock = NoOne /\ chainLock' = w /\ tx' = [tx EXCEPT ![w] = t]
      /\ UNCHANGED <<events, retention>> /\ seqs' = seqs
  BY DEF lockChain
<1>2. tx[w] \in TxType /\ TxOK(Newest(Stored), seqs, tx[w]) /\ seqs \in Nat
  BY TxParts
<1>3. t \in TxType /\ t.pc = "head" /\ t.rows = {}
  BY <1>1, <1>2 DEF TxType, TxOK
<1> HIDE DEF t
<1>4. TxOK(Newest(Stored), seqs', t)
  BY <1>3 DEF TxOK
<1>5. \A v \in Writers \ {w} : tx[v].pc # "idle" => chainLock' = v
  BY <1>1, ChainAssumption DEF CInv, Locked
<1>6. seqs' \in Nat /\ seqs <= seqs'
  BY <1>1, <1>2
<1> QED BY <1>1, <1>3, <1>4, <1>5, <1>6, TxStep

\* Nobody else holds the lock while w's transaction runs.
LEMMA OthersOff ==
  ASSUME CInv, NEW w \in Writers, tx[w].pc # "idle"
  PROVE  /\ chainLock = w
         /\ \A v \in Writers \ {w} : tx[v].pc = "idle"
BY DEF CInv, Locked

LEMMA ReadHeadKeeps ==
  ASSUME CInv, NEW w \in Writers, readHead(w)
  PROVE  CInv'
<1> DEFINE F == {r[1] : r \in tx[w].rows}
           p == Newest(Stored \cup F)
           h == Newest(Stored)
           t == [tx[w] EXCEPT !.pc = "insert", !.prev = p]
<1>1. tx[w].pc = "head" /\ chainLock' = chainLock /\ tx' = [tx EXCEPT ![w] = t]
      /\ UNCHANGED <<events, retention>> /\ seqs' = seqs
  BY DEF readHead
<1>2. /\ tx[w] \in TxType /\ TxOK(h, seqs, tx[w]) /\ seqs \in Nat
      /\ h \in Nat /\ h <= seqs /\ \A r \in tx[w].rows : r[1] \in Nat /\ r[2] \in Nat
  BY TxParts
<1>3. /\ \A s \in Stored : s \in Nat /\ s <= h
      /\ h \in Stored \cup {0}
  <2>1. ChainType /\ Ordered
    BY DEF CInv
  <2>2. \A s \in Stored : s \in Nat /\ s <= h
    BY <2>1, ChainHeadIs
  <2>3. Stored \in SUBSET Nat
    BY <2>2
  <2> QED BY <1>2, <2>2, <2>3, NewestIs
<1>4. /\ \A r \in tx[w].rows : h < r[1] /\ r[1] <= seqs
      /\ \A x \in F : x \in Nat /\ h < x /\ x <= seqs
  BY <1>2 DEF TxOK
<1>5. p \in Nat /\ p \in Stored \cup F \cup {0} /\ \A x \in Stored \cup F : x <= p
  <2> DEFINE S == Stored \cup F
  <2>1. S \in SUBSET Nat /\ \A x \in S : x <= seqs
    <3>1. seqs \in Nat /\ h \in Nat /\ h <= seqs
      BY <1>2
    <3> HIDE DEF F, h
    <3>2. \A x \in Stored : x \in Nat /\ x <= seqs
      BY <1>3, <3>1
    <3>3. \A x \in F : x \in Nat /\ x <= seqs
      BY <1>4
    <3> QED BY <3>2, <3>3
  <2> HIDE DEF S
  <2>2. Newest(S) \in Nat /\ Newest(S) \in S \cup {0} /\ \A x \in S : x <= Newest(S)
    BY <1>2, <2>1, NewestIs
  <2> QED BY <2>2 DEF S
<1>6. h <= p /\ (p = h \/ p \in F)
  <2> HIDE DEF F, p, h
  <2>1. h <= p
    BY <1>2, <1>3, <1>5
  <2>2. CASE p \in F
    BY <2>1, <2>2
  <2>3. CASE p \in Stored \cup {0}
    BY <1>2, <1>3, <1>5, <2>1, <2>3
  <2> QED BY <1>5, <2>1, <2>2, <2>3
<1>7. t \in TxType /\ t.pc = "insert" /\ t.prev = p /\ t.rows = tx[w].rows
  <2> HIDE DEF p
  <2> QED BY <1>2, <1>5 DEF TxType
<1>8. \A q \in tx[w].rows : q[1] <= p
  BY <1>5
<1>9. p = h \/ \E q \in tx[w].rows : q[1] = p
  BY <1>6
<1> HIDE DEF t, p, h, F
<1>10. TxOK(h, seqs', t)
  BY <1>1, <1>2, <1>6, <1>7, <1>8, <1>9 DEF TxOK
<1>11. chainLock' = w /\ \A v \in Writers \ {w} : tx[v].pc = "idle"
  BY <1>1, OthersOff
<1>12. seqs' \in Nat /\ seqs <= seqs' /\ TxOK(Newest(Stored), seqs', t)
  BY <1>1, <1>2, <1>10 DEF h
<1> QED BY <1>1, <1>7, <1>11, <1>12, TxStep

LEMMA InsertKeeps ==
  ASSUME CInv, NEW w \in Writers, insertChained(w)
  PROVE  CInv'
<1> DEFINE n == seqs + 1
           p == tx[w].prev
           h == Newest(Stored)
           R == tx[w].rows \cup {<<n, p>>}
           t == [tx[w] EXCEPT !.pc = "emitted", !.rows = R]
<1>1. tx[w].pc = "insert" /\ chainLock' = chainLock /\ tx' = [tx EXCEPT ![w] = t]
      /\ UNCHANGED <<events, retention>> /\ seqs' = n
  BY DEF insertChained
<1>2. /\ tx[w] \in TxType /\ TxOK(h, seqs, tx[w]) /\ seqs \in Nat /\ p \in Nat
      /\ h \in Nat /\ h <= seqs /\ \A r \in tx[w].rows : r[1] \in Nat /\ r[2] \in Nat
      /\ tx[w].rows \in SUBSET (Nat \X Nat)
  BY TxParts
<1>3. /\ \A r \in tx[w].rows : h < r[1] /\ r[1] <= seqs /\ h <= r[2] /\ r[2] < r[1]
      /\ \A r \in tx[w].rows : r[2] = h \/ \E q \in tx[w].rows : q[1] = r[2]
      /\ \A r, q \in tx[w].rows : (r[1] = q[1] => r = q) /\ ~(r[2] < q[1] /\ q[1] < r[1])
      /\ h <= p /\ (p = h \/ \E q \in tx[w].rows : q[1] = p)
      /\ \A q \in tx[w].rows : q[1] <= p
  BY <1>1, <1>2 DEF TxOK
<1>4. n \in Nat /\ n = seqs + 1 /\ p <= seqs
  BY <1>2, <1>3
<1>5. t \in TxType /\ t.pc = "emitted" /\ t.rows = R
  <2>1. R \in SUBSET (Nat \X Nat)
    BY <1>2, <1>4
  <2> HIDE DEF R
  <2> QED BY <1>2, <2>1 DEF TxType
<1> HIDE DEF t, n, h, p
<1>6. \A r \in R : h < r[1] /\ r[1] <= n /\ h <= r[2] /\ r[2] < r[1]
  BY <1>2, <1>3, <1>4
<1>7. \A r \in R : r[2] = h \/ \E q \in R : q[1] = r[2]
  BY <1>3
<1>8. ASSUME NEW r \in R, NEW q \in R PROVE (r[1] = q[1] => r = q) /\ ~(r[2] < q[1] /\ q[1] < r[1])
  <2>1. CASE r \in tx[w].rows /\ q \in tx[w].rows
    BY <1>3, <2>1
  <2>2. CASE r \in tx[w].rows /\ q = <<n, p>>
    BY <1>2, <1>3, <1>4, <2>2
  <2>3. CASE r = <<n, p>> /\ q \in tx[w].rows
    BY <1>2, <1>3, <1>4, <2>3
  <2>4. CASE r = <<n, p>> /\ q = <<n, p>>
    BY <1>4, <2>4
  <2> QED BY <2>1, <2>2, <2>3, <2>4
<1> HIDE DEF R
<1>9. TxOK(h, n, t)
  BY <1>5, <1>6, <1>7, <1>8 DEF TxOK
<1>10. chainLock' = w /\ \A v \in Writers \ {w} : tx[v].pc = "idle"
  BY <1>1, OthersOff
<1>11. seqs' \in Nat /\ seqs <= seqs' /\ TxOK(Newest(Stored), seqs', t)
  BY <1>1, <1>2, <1>4, <1>9 DEF h
<1> QED BY <1>1, <1>5, <1>10, <1>11, TxStep

LEMMA EmitAgainKeeps ==
  ASSUME CInv, NEW w \in Writers, emitAgain(w)
  PROVE  CInv'
<1> DEFINE t == [tx[w] EXCEPT !.pc = "head"]
<1>1. tx[w].pc = "emitted" /\ chainLock' = chainLock /\ tx' = [tx EXCEPT ![w] = t]
      /\ UNCHANGED <<events, retention>> /\ seqs' = seqs
  BY DEF emitAgain
<1>2. tx[w] \in TxType /\ TxOK(Newest(Stored), seqs, tx[w]) /\ seqs \in Nat
  BY TxParts
<1>3. t \in TxType /\ t.pc = "head" /\ t.rows = tx[w].rows
  BY <1>2 DEF TxType
<1> HIDE DEF t
<1>4. TxOK(Newest(Stored), seqs', t)
  <2> HIDE DEF Newest
  <2> QED BY <1>1, <1>2, <1>3 DEF TxOK
<1>5. chainLock' = w /\ \A v \in Writers \ {w} : tx[v].pc = "idle"
  BY <1>1, OthersOff
<1>6. seqs' \in Nat /\ seqs <= seqs'
  BY <1>1, <1>2
<1> QED BY <1>1, <1>3, <1>4, <1>5, <1>6, TxStep

LEMMA RollbackKeeps ==
  ASSUME CInv, NEW w \in Writers, endTx(w), UNCHANGED events
  PROVE  CInv'
<1>1. tx[w].pc # "idle" /\ tx' = [tx EXCEPT ![w] = NewTx] /\ UNCHANGED retention /\ seqs' = seqs
  BY DEF endTx
<1>2. TxOK(Newest(Stored), seqs', NewTx)
  BY NewTxTyped DEF TxOK
<1>3. seqs \in Nat /\ \A v \in Writers \ {w} : tx[v].pc = "idle"
  BY <1>1, OthersOff, TxParts
<1>4. seqs' \in Nat /\ seqs <= seqs'
  BY <1>1, <1>3
<1> QED BY <1>1, <1>2, <1>3, <1>4, NewTxTyped, TxStep

\* The rows of a committed transaction come after all that are stored.
LEMMA CommitKeeps ==
  ASSUME CInv, NEW w \in Writers, endTx(w), tx[w].pc = "emitted",
         events' = [s \in Stored \cup {r[1] : r \in tx[w].rows} |->
                      IF s \in Stored THEN events[s]
                      ELSE Row((CHOOSE r \in tx[w].rows : r[1] = s)[2])]
  PROVE  CInv'
<1> DEFINE R == tx[w].rows
           F == {r[1] : r \in R}
           h == Newest(Stored)
           k == Newest(Stored)'
<1>0. /\ tx' = [tx EXCEPT ![w] = NewTx] /\ seqs' = seqs
      /\ UNCHANGED <<anchor, batchLock, batch, points, damaged, alarm>>
  BY DEF endTx, retention
<1>1. /\ R \in SUBSET (Nat \X Nat) /\ \A r \in R : r[1] \in Nat /\ r[2] \in Nat
      /\ TxOK(h, seqs, tx[w]) /\ seqs \in Nat /\ h \in Nat /\ h <= seqs
  BY TxParts
<1>2. /\ \A r \in R : h < r[1] /\ r[1] <= seqs /\ h <= r[2] /\ r[2] < r[1]
      /\ \A r \in R : r[2] = h \/ \E q \in R : q[1] = r[2]
      /\ \A r, q \in R : (r[1] = q[1] => r = q) /\ ~(r[2] < q[1] /\ q[1] < r[1])
  BY <1>1 DEF TxOK
<1>3. /\ h \in Stored \cup {anchor} /\ anchor <= h /\ anchor \in Nat
      /\ \A s \in Stored : s \in Nat /\ s <= h /\ 1 <= s /\ events[s] \in ChainRowType
  <2>1. ChainType /\ Ordered
    BY DEF CInv
  <2>2. anchor \in Nat /\ \A s \in Stored : 1 <= s /\ events[s] \in ChainRowType
    BY <2>1 DEF ChainType
  <2> QED BY <2>1, <2>2, ChainHeadIs
<1>4. Stored' = Stored \cup F /\ DOMAIN events' = Stored \cup F
  BY DEF Stored
<1>5. \A s \in Stored : events'[s] = events[s]
  BY <1>4
<1>6. ASSUME NEW r \in R PROVE r[1] \in F /\ r[1] \notin Stored /\ events'[r[1]] = Row(r[2])
  <2>1. r[1] \in F
    OBVIOUS
  <2>2. r[1] \notin Stored
    <3> HIDE DEF h, R, F
    <3> QED BY <1>1, <1>2, <1>3
  <2>3. (CHOOSE q \in R : q[1] = r[1]) = r
    <3>1. (CHOOSE q \in R : q[1] = r[1]) \in R /\ (CHOOSE q \in R : q[1] = r[1])[1] = r[1]
      OBVIOUS
    <3> QED BY <1>2, <3>1
  <2> QED BY <2>1, <2>2, <2>3
<1>7. \A r \in R : Row(r[2]) \in ChainRowType /\ Row(r[2]).whole /\ Row(r[2]).prev = r[2]
  BY <1>1 DEF Row, ChainRowType
<1>8. ASSUME NEW s \in Stored \cup F PROVE s \in Stored \/ \E r \in R : s = r[1]
  OBVIOUS
<1>9. \A x \in F : x \in Nat /\ h < x /\ x <= seqs
  BY <1>1, <1>2
<1> HIDE DEF F, R
<1>10. ASSUME NEW s \in Stored \cup F PROVE s \in Nat /\ 1 <= s /\ s <= seqs /\ anchor < s /\ events'[s] \in ChainRowType
  <2> HIDE DEF h
  <2>1. CASE s \in Stored
    <3>1. anchor < s
      BY <2>1 DEF CInv, Ordered
    <3> QED BY <1>1, <1>3, <1>5, <2>1, <3>1
  <2>2. CASE s \in F
    <3>1. PICK r \in R : s = r[1]
      BY <2>2 DEF F
    <3>2. events'[s] \in ChainRowType
      BY <1>6, <1>7, <3>1
    <3> QED BY <1>1, <1>3, <1>9, <2>2, <3>2
  <2> QED BY <2>1, <2>2
<1>11. k \in Nat /\ h <= k
  <2>1. (Stored \cup F) \in SUBSET Nat /\ \A s \in Stored \cup F : s <= seqs
    BY <1>10
  <2>2. k = Newest(Stored \cup F)
    BY <1>4 DEF Newest
  <2>3. k \in Nat /\ \A s \in Stored \cup F : s <= k
    BY <1>1, <2>1, <2>2, NewestIs
  <2>4. h \in Stored \cup {0}
    <3>1. Stored \in SUBSET Nat
      BY <2>1
    <3> QED BY <1>1, <1>3, <3>1, NewestIs
  <2> HIDE DEF h, k
  <2> QED BY <1>1, <2>3, <2>4
<1> HIDE DEF h, k
<1>12. ChainType'
  <2>1. tx' \in [Writers -> TxType]
    BY <1>0, NewTxTyped DEF CInv, ChainType
  <2>2. events' \in [Stored' -> ChainRowType]
    <3>1. events' = [s \in Stored' |-> events'[s]]
      BY <1>4
    <3>2. \A s \in Stored' : events'[s] \in ChainRowType
      BY <1>4, <1>10
    <3> QED BY <3>1, <3>2
  <2>3. Stored' \subseteq 1..seqs'
    <3>0. seqs \in Nat
      BY <1>1
    <3>1. ASSUME NEW s \in Stored \cup F PROVE s \in 1..seqs
      <4>1. s \in Nat /\ 1 <= s /\ s <= seqs
        BY <1>10
      <4> QED BY <3>0, <4>1
    <3> QED BY <1>0, <1>4, <3>1
  <2> QED BY <1>0, <2>1, <2>2, <2>3 DEF CInv, ChainType
<1>13. Ordered'
  <2>1. \A s \in Stored' : anchor' < s
    BY <1>0, <1>4, <1>10
  <2>2. anchor' # 0 => Stored' # {}
    BY <1>0, <1>4 DEF CInv, Ordered
  <2> QED BY <2>1, <2>2 DEF Ordered
<1>14. \A v \in Writers : tx'[v].pc = "idle" /\ tx'[v].rows = {}
  <2>1. tx \in [Writers -> TxType]
    BY DEF CInv, ChainType
  <2> QED BY <1>0, <2>1, OthersIdle, NewTxTyped
<1>15. Locked'
  BY <1>0, <1>14 DEF CInv, Locked
<1>16. \A v \in Writers : TxOK(k, seqs', tx'[v])
  BY <1>14 DEF TxOK
<1>17. ASSUME NEW j \in Batches PROVE BatchOK(Stored', k, anchor', damaged', batch'[j])
  <2> DEFINE b == batch[j]
  <2>1. b \in BatchType /\ BatchOK(Stored, h, anchor, damaged, b) /\ batch'[j] = b
    BY <1>0 DEF CInv, ChainType, h
  <2>2. b.through \in Nat /\ b.head \in Nat /\ \A d \in b.doomed : d \in Nat
    BY <2>1 DEF BatchType
  <2> HIDE DEF b
  <2>3. /\ b.pc # "idle" => b.through <= k
        /\ b.pc = "rows" => b.through <= b.head /\ b.head <= k
    BY <1>1, <1>11, <2>1, <2>2 DEF BatchOK
  <2>4. \A d \in b.doomed : anchor < d /\ d < h
    BY <2>1 DEF BatchOK
  <2>5. \A d \in b.doomed : d < k
    BY <1>1, <1>11, <2>2, <2>4
  <2>6. \A d \in b.doomed : \A t \in Stored \cup F : t <= d => t \in b.doomed
    <3>1. \A d \in b.doomed : \A t \in Stored : t <= d => t \in b.doomed
      BY <2>1 DEF BatchOK
    <3>2. \A d \in b.doomed : \A t \in F : ~(t <= d)
      BY <1>1, <1>9, <2>2, <2>4
    <3> QED BY <3>1, <3>2
  <2> QED BY <1>0, <1>4, <2>1, <2>3, <2>4, <2>5, <2>6 DEF BatchOK
<1>18. ASSUME ~damaged' PROVE Untouched'
  <2>1. /\ ~alarm' /\ \A x \in points' : x <= anchor' \/ x \in Stored'
        /\ \A s \in Stored : InOrder(events, anchor, s)
    BY <1>0, <1>4, <1>18 DEF CInv, Untouched
  <2>2. ASSUME NEW s \in Stored PROVE InOrder(events', anchor, s)
    <3>1. /\ events[s].whole /\ events[s].prev < s /\ events[s].prev \in Stored \cup {anchor}
          /\ \A t \in Stored : ~(events[s].prev < t /\ t < s)
      BY <2>1 DEF InOrder, Stored
    <3>2. \A t \in F : ~(t < s)
      BY <1>1, <1>3, <1>9
    <3> QED BY <1>4, <1>5, <3>1, <3>2 DEF InOrder
  <2>3. ASSUME NEW r \in R PROVE InOrder(events', anchor, r[1])
    <3>1. events'[r[1]].whole /\ events'[r[1]].prev = r[2] /\ r[2] < r[1]
      BY <1>2, <1>6, <1>7
    <3>2. r[2] \in Stored \cup F \cup {anchor}
      BY <1>2, <1>3, <1>6
    <3>3. \A t \in Stored : ~(r[2] < t)
      BY <1>1, <1>2, <1>3
    <3>4. \A t \in F : ~(r[2] < t /\ t < r[1])
      BY <1>2 DEF F
    <3> QED BY <1>4, <3>1, <3>2, <3>3, <3>4 DEF InOrder
  <2>4. \A s \in Stored' : InOrder(events', anchor, s)
    BY <1>4, <1>8, <2>2, <2>3
  <2> QED BY <1>0, <2>1, <2>4 DEF Untouched
<1>19. ASSUME damaged' PROVE \E n \in Stored' : Evidence(events', anchor', batch', n)
  <2>1. PICK n \in Stored : Evidence(events, anchor, batch, n)
    BY <1>0, <1>19 DEF CInv
  <2>2. n \in Stored' /\ events'[n] = events[n] /\ events[n].prev \in Nat /\ n \in Nat /\ n <= h
    BY <1>3, <1>4, <1>5 DEF ChainRowType
  <2>3. events[n].prev < n => events[n].prev \notin F
    BY <1>1, <1>9, <2>2
  <2>4. Evidence(events', anchor', batch', n)
    BY <1>0, <1>4, <2>1, <2>2, <2>3 DEF Evidence, Stored
  <2> QED BY <2>2, <2>4
<1> QED BY <1>12, <1>13, <1>15, <1>16, <1>17, <1>18, <1>19 DEF CInv, k

LEMMA EndTxKeeps ==
  ASSUME CInv, NEW w \in Writers, endTx(w)
  PROVE  CInv'
<1>1. CASE UNCHANGED events
  BY <1>1, RollbackKeeps
<1>2. CASE ~UNCHANGED events
  <2>1. tx[w].pc = "emitted"
        /\ events' = [s \in Stored \cup {r[1] : r \in tx[w].rows} |->
                        IF s \in Stored THEN events[s]
                        ELSE Row((CHOOSE r \in tx[w].rows : r[1] = s)[2])]
    BY <1>2 DEF endTx
  <2> QED BY <2>1, CommitKeeps
<1> QED BY <1>1, <1>2
-------------------------------------------------------------------------
(* The retention batches *)

LEMMA NewBatchTyped ==
  NewBatch \in BatchType /\ NewBatch.pc = "idle" /\ NewBatch.doomed = {}
BY DEF NewBatch, BatchType

LEMMA NewBatchOK ==
  ASSUME NEW st, NEW h, NEW an, NEW dm
  PROVE  BatchOK(st, h, an, dm, NewBatch)
BY NewBatchTyped DEF BatchOK, Deleting

\* The parts of a batch.
LEMMA BatchParts ==
  ASSUME CInv, NEW j \in Batches
  PROVE  /\ batch[j] \in BatchType /\ batch[j].through \in Nat /\ batch[j].head \in Nat
         /\ batch[j].anchor \in Nat /\ batch[j].doomed \in SUBSET Nat
         /\ BatchOK(Stored, Newest(Stored), anchor, damaged, batch[j])
         /\ Newest(Stored) \in Nat /\ anchor \in Nat
<1>1. ChainType /\ Ordered /\ BatchOK(Stored, Newest(Stored), anchor, damaged, batch[j])
  BY DEF CInv
<1>2. batch[j] \in BatchType /\ anchor \in Nat
  BY <1>1 DEF ChainType
<1>3. Newest(Stored) \in Nat
  BY <1>1, ChainHeadIs
<1> QED BY <1>1, <1>2, <1>3 DEF BatchType

\* A statement of the batch j that stores nothing. What it comes to delete it
\* has checked.
LEMMA BatchStep ==
  ASSUME CInv, NEW j \in Batches, NEW b \in BatchType, batch' = [batch EXCEPT ![j] = b],
         UNCHANGED <<events, anchor, appends, damaged>>, alarm' \in BOOLEAN, ~damaged => ~alarm',
         BatchOK(Stored, Newest(Stored), anchor, damaged, b), b.pc # "idle" => batchLock' = j,
         \A i \in Batches \ {j} : batch[i].pc # "idle" => batchLock' = i,
         \/ b.doomed = {} \/ b.doomed = batch[j].doomed
         \/ \A d \in b.doomed : checksOut(d, anchor)
  PROVE  CInv'
<1>1. /\ batch' \in [Batches -> BatchType] /\ batch'[j] = b
      /\ \A i \in Batches \ {j} : batch'[i] = batch[i]
  BY DEF CInv, ChainType
<1>2. /\ UNCHANGED <<seqs, chainLock, tx, points>> /\ Stored' = Stored
      /\ Newest(Stored)' = Newest(Stored)
  BY DEF appends, Stored, Newest
<1>3. ChainType'
  BY <1>1, <1>2 DEF CInv, ChainType
<1>4. Locked' /\ Ordered'
  BY <1>1, <1>2 DEF CInv, Locked, Ordered
<1>5. \A w \in Writers : TxOK(Newest(Stored)', seqs', tx'[w])
  BY <1>2 DEF CInv
<1>6. \A i \in Batches : BatchOK(Stored', Newest(Stored)', anchor', damaged', batch'[i])
  BY <1>1, <1>2 DEF CInv
<1>7. ~damaged' => Untouched'
  BY <1>2 DEF CInv, Untouched
<1>8. ASSUME damaged' PROVE \E n \in Stored' : Evidence(events', anchor', batch', n)
  <2>1. PICK n \in Stored : Evidence(events, anchor, batch, n)
    BY <1>8 DEF CInv
  <2>2. ~checksOut(n, anchor)
    BY <2>1, EvidenceFails DEF CInv
  <2>3. n \in b.doomed => b.doomed = batch[j].doomed
    BY <2>2
  <2>4. \A i \in Batches : n \in batch'[i].doomed => batch'[i].doomed = batch[i].doomed
    BY <1>1, <2>3
  <2>5. Evidence(events', anchor', batch', n)
    BY <2>1, <2>4 DEF Evidence
  <2> QED BY <1>2, <2>5
<1> QED BY <1>2, <1>3, <1>4, <1>5, <1>6, <1>7, <1>8 DEF CInv

\* A batch that ends without a commit.
LEMMA BatchEnds ==
  ASSUME CInv, NEW j \in Batches, batch' = [batch EXCEPT ![j] = NewBatch], releaseBatch(j),
         UNCHANGED <<events, anchor, appends, damaged>>, alarm' \in BOOLEAN, ~damaged => ~alarm'
  PROVE  CInv'
<1>1. \A i \in Batches \ {j} : batch[i].pc # "idle" => batchLock' = i
  BY DEF CInv, Locked, releaseBatch
<1> QED BY <1>1, NewBatchTyped, NewBatchOK, BatchStep

LEMMA AlarmKept ==
  ASSUME CInv
  PROVE  alarm \in BOOLEAN /\ (~damaged => ~alarm) /\ damaged \in BOOLEAN
BY DEF CInv, ChainType, Untouched

\* Nobody else holds the lock while the batch j runs.
LEMMA OtherBatches ==
  ASSUME CInv, NEW j \in Batches, batch[j].pc # "idle"
  PROVE  /\ batchLock = j
         /\ \A i \in Batches \ {j} : batch[i].pc = "idle"
BY DEF CInv, Locked

LEMMA TryLockKeeps ==
  ASSUME CInv, NEW j \in Batches, tryLockBatch(j)
  PROVE  CInv'
<1> DEFINE h == Newest(Stored)
           b == [batch[j] EXCEPT !.pc = "anchor", !.through = h]
<1>1. /\ batch[j].pc = "idle" /\ batchLock = NoOne /\ batchLock' = j
      /\ batch' = [batch EXCEPT ![j] = b]
      /\ UNCHANGED <<events, anchor, appends, damaged, alarm>>
  BY DEF tryLockBatch
<1>2. batch[j] \in BatchType /\ BatchOK(Stored, h, anchor, damaged, batch[j]) /\ h \in Nat
  BY BatchParts
<1> HIDE DEF h
<1>3. b \in BatchType /\ b.pc = "anchor" /\ b.through = h /\ b.doomed = batch[j].doomed
  BY <1>2 DEF BatchType
<1>4. b.doomed = {}
  BY <1>1, <1>2, <1>3 DEF BatchOK, Deleting
<1> HIDE DEF b
<1>5. BatchOK(Stored, h, anchor, damaged, b)
  BY <1>2, <1>3, <1>4 DEF BatchOK, Deleting
<1>6. \A i \in Batches \ {j} : batch[i].pc # "idle" => batchLock' = i
  BY <1>1, ChainAssumption DEF CInv, Locked
<1>7. alarm' \in BOOLEAN /\ (~damaged => ~alarm')
  BY <1>1, AlarmKept
<1> QED BY <1>1, <1>3, <1>4, <1>5, <1>6, <1>7, BatchStep DEF h

LEMMA ReadAnchorKeeps ==
  ASSUME CInv, NEW j \in Batches, readAnchor(j)
  PROVE  CInv'
<1> DEFINE h == Newest(Stored)
           b == [batch[j] EXCEPT !.pc = "head", !.anchor = anchor]
<1>1. /\ batch[j].pc = "anchor" /\ batchLock' = batchLock /\ batch' = [batch EXCEPT ![j] = b]
      /\ UNCHANGED <<events, anchor, appends, damaged, alarm>>
  BY DEF readAnchor
<1>2. /\ batch[j] \in BatchType /\ BatchOK(Stored, h, anchor, damaged, batch[j]) /\ h \in Nat
      /\ anchor \in Nat
  BY BatchParts
<1> HIDE DEF h
<1>3. /\ b \in BatchType /\ b.pc = "head" /\ b.through = batch[j].through /\ b.anchor = anchor
      /\ b.doomed = batch[j].doomed
  BY <1>2 DEF BatchType
<1>4. b.doomed = {}
  BY <1>1, <1>2, <1>3 DEF BatchOK, Deleting
<1> HIDE DEF b
<1>5. BatchOK(Stored, h, anchor, damaged, b)
  BY <1>1, <1>2, <1>3, <1>4 DEF BatchOK, Deleting
<1>6. batchLock' = j /\ \A i \in Batches \ {j} : batch[i].pc = "idle"
  BY <1>1, OtherBatches
<1>7. alarm' \in BOOLEAN /\ (~damaged => ~alarm')
  BY <1>1, AlarmKept
<1> QED BY <1>1, <1>3, <1>4, <1>5, <1>6, <1>7, BatchStep DEF h

LEMMA ReadNewestKeeps ==
  ASSUME CInv, NEW j \in Batches, readNewest(j)
  PROVE  CInv'
<1> DEFINE h == Newest(Stored)
           b == [batch[j] EXCEPT !.pc = "rows", !.head = h]
<1>1. /\ batch[j].pc = "head" /\ batchLock' = batchLock /\ batch' = [batch EXCEPT ![j] = b]
      /\ UNCHANGED <<events, anchor, appends, damaged, alarm>>
  BY DEF readNewest
<1>2. batch[j] \in BatchType /\ BatchOK(Stored, h, anchor, damaged, batch[j]) /\ h \in Nat
  BY BatchParts
<1> HIDE DEF h
<1>3. /\ b \in BatchType /\ b.pc = "rows" /\ b.through = batch[j].through /\ b.anchor = batch[j].anchor
      /\ b.head = h /\ b.doomed = batch[j].doomed
  BY <1>2 DEF BatchType
<1>4. b.doomed = {}
  BY <1>1, <1>2, <1>3 DEF BatchOK, Deleting
<1> HIDE DEF b
<1>5. BatchOK(Stored, h, anchor, damaged, b)
  BY <1>1, <1>2, <1>3, <1>4 DEF BatchOK, Deleting
<1>6. batchLock' = j /\ \A i \in Batches \ {j} : batch[i].pc = "idle"
  BY <1>1, OtherBatches
<1>7. alarm' \in BOOLEAN /\ (~damaged => ~alarm')
  BY <1>1, AlarmKept
<1> QED BY <1>1, <1>3, <1>4, <1>5, <1>6, <1>7, BatchStep DEF h

LEMMA AbortKeeps ==
  ASSUME CInv, NEW j \in Batches, abortBatch(j)
  PROVE  CInv'
BY AlarmKept, BatchEnds DEF abortBatch

LEMMA DeleteKeeps ==
  ASSUME CInv, NEW j \in Batches, deleteDoomed(j)
  PROVE  CInv'
<1> DEFINE h == Newest(Stored)
           b == [batch[j] EXCEPT !.pc = "commit"]
<1>1. batch[j].pc = "delete" /\ UNCHANGED <<events, anchor, appends, damaged>>
  BY DEF deleteDoomed
<1>2. batch[j] \in BatchType /\ BatchOK(Stored, h, anchor, damaged, batch[j])
  BY BatchParts
<1>3. CASE batch[j].doomed \subseteq Stored
  <2>1. batch' = [batch EXCEPT ![j] = b] /\ UNCHANGED <<batchLock, alarm>>
    BY <1>3 DEF deleteDoomed
  <2> HIDE DEF h
  <2>2. /\ b \in BatchType /\ b.pc = "commit" /\ b.through = batch[j].through /\ b.anchor = batch[j].anchor
        /\ b.doomed = batch[j].doomed
    BY <1>2 DEF BatchType
  <2> HIDE DEF b
  <2>3. BatchOK(Stored, h, anchor, damaged, b)
    BY <1>1, <1>2, <1>3, <2>2 DEF BatchOK, Deleting
  <2>4. batchLock' = j /\ \A i \in Batches \ {j} : batch[i].pc = "idle"
    BY <1>1, <2>1, OtherBatches
  <2>5. alarm' \in BOOLEAN /\ (~damaged => ~alarm')
    BY <2>1, AlarmKept
  <2> QED BY <1>1, <2>1, <2>2, <2>3, <2>4, <2>5, BatchStep DEF h
<1>4. CASE ~(batch[j].doomed \subseteq Stored)
  <2>1. batch' = [batch EXCEPT ![j] = NewBatch] /\ releaseBatch(j) /\ alarm' = TRUE
    BY <1>4 DEF deleteDoomed
  <2>2. damaged
    BY <1>2, <1>4 DEF BatchOK
  <2> QED BY <1>1, <2>1, <2>2, BatchEnds
<1> QED BY <1>3, <1>4

\* The newest of the rows to delete is one of them and lies after the anchor.
LEMMA DoomedNewest ==
  ASSUME CInv, NEW j \in Batches, batch[j].doomed # {}
  PROVE  /\ Newest(batch[j].doomed) \in batch[j].doomed /\ anchor < Newest(batch[j].doomed)
         /\ \A d \in batch[j].doomed : d <= Newest(batch[j].doomed)
<1> DEFINE D == batch[j].doomed
           m == Newest(D)
           h == Newest(Stored)
<1>1. /\ D \in SUBSET Nat /\ h \in Nat /\ anchor \in Nat
      /\ \A d \in D : anchor < d /\ d < h
  BY BatchParts DEF BatchOK
<1>2. \A d \in D : d <= h
  <2> HIDE DEF D, h
  <2> QED BY <1>1
<1>3. m \in Nat /\ m \in D \cup {0} /\ \A d \in D : d <= m
  <2> HIDE DEF D, h
  <2> QED BY <1>1, <1>2, NewestIs
<1>4. D # {}
  OBVIOUS
<1> HIDE DEF D, m, h
<1>5. PICK d \in D : TRUE
  BY <1>4
<1>6. anchor < d /\ d <= m /\ d \in Nat
  BY <1>1, <1>3, <1>5
<1>7. m \in D /\ anchor < m
  BY <1>1, <1>3, <1>6
<1> QED BY <1>3, <1>7 DEF D, m

LEMMA MoveKeeps ==
  ASSUME CInv, NEW j \in Batches, moveAnchor(j)
  PROVE  CInv'
<1> DEFINE h == Newest(Stored)
           b == [batch[j] EXCEPT !.pc = "delete"]
<1>1. batch[j].pc = "move" /\ UNCHANGED <<events, anchor, appends, damaged>>
  BY DEF moveAnchor
<1>2. batch[j] \in BatchType /\ BatchOK(Stored, h, anchor, damaged, batch[j])
  BY BatchParts
<1>3. anchor < Newest(batch[j].doomed)
  <2>1. batch[j].doomed # {}
    BY <1>1, <1>2 DEF BatchOK, Deleting
  <2> QED BY <2>1, DoomedNewest
<1>4. batch' = [batch EXCEPT ![j] = b] /\ UNCHANGED <<batchLock, alarm>>
  BY <1>3 DEF moveAnchor
<1> HIDE DEF h
<1>5. /\ b \in BatchType /\ b.pc = "delete" /\ b.through = batch[j].through /\ b.anchor = batch[j].anchor
      /\ b.doomed = batch[j].doomed
  BY <1>2 DEF BatchType
<1> HIDE DEF b
<1>6. BatchOK(Stored, h, anchor, damaged, b)
  BY <1>1, <1>2, <1>5 DEF BatchOK, Deleting
<1>7. batchLock' = j /\ \A i \in Batches \ {j} : batch[i].pc = "idle"
  BY <1>1, <1>4, OtherBatches
<1>8. alarm' \in BOOLEAN /\ (~damaged => ~alarm')
  BY <1>4, AlarmKept
<1> QED BY <1>1, <1>4, <1>5, <1>6, <1>7, <1>8, BatchStep DEF h

\* What a batch may take reaches down to the start of the chain.
LEMMA DueClosed ==
  ASSUME ChainType, NEW last \in Nat, NEW s \in Due(last), NEW t \in Stored, t <= s
  PROVE  t \in Due(last)
<1> DEFINE A == {u \in Stored : u <= s}
           B == {u \in Stored : u <= t}
<1>1. Stored \in SUBSET Nat
  BY DEF ChainType
<1>2. s \in Stored /\ s <= last /\ Cardinality(A) <= Limit /\ s \in Nat /\ t \in Nat
  BY <1>1 DEF Due
<1>3. A \in SUBSET Nat /\ B \in SUBSET A /\ \A u \in A : u <= s
  <2>1. \A u \in Stored : u \in Nat /\ (u <= t => u <= s)
    BY <1>1, <1>2
  <2>2. \A u \in B : u \in A
    BY <2>1
  <2> QED BY <2>1, <2>2
<1> HIDE DEF A, B
<1>4. IsFiniteSet(A)
  BY <1>2, <1>3, FS_BoundedSetOfNaturals
<1>5. IsFiniteSet(B) /\ Cardinality(B) <= Cardinality(A)
  BY <1>3, <1>4, FS_Subset
<1>6. Cardinality(B) \in Nat /\ Cardinality(A) \in Nat
  BY <1>4, <1>5, FS_CardinalityType
<1>7. Cardinality(B) <= Limit /\ t <= last
  BY <1>2, <1>5, <1>6, ChainAssumption
<1> QED BY <1>7 DEF Due, B

LEMMA ReadRowsKeeps ==
  ASSUME CInv, NEW j \in Batches, readRows(j)
  PROVE  CInv'
<1> DEFINE h == Newest(Stored)
           a == batch[j]
<1>1. batch[j].pc = "rows" /\ UNCHANGED <<events, anchor, appends, damaged>>
  BY DEF readRows
<1>2. /\ batch[j] \in BatchType /\ BatchOK(Stored, h, anchor, damaged, batch[j]) /\ h \in Nat
      /\ anchor \in Nat /\ a.through \in Nat /\ a.head \in Nat
  BY BatchParts
<1>3. a.anchor = anchor /\ a.through <= a.head /\ a.head <= h /\ a.through <= h
  BY <1>1, <1>2 DEF BatchOK
<1>4. PICK last \in 0..a.through :
        /\ alarm' = (alarm \/ (Due(last) \ Doomed(j, Due(last)) # {}
                               /\ Min(Due(last) \ Doomed(j, Due(last))) # a.head))
        /\ IF Doomed(j, Due(last)) = {}
           THEN batch' = [batch EXCEPT ![j] = NewBatch] /\ releaseBatch(j)
           ELSE /\ batch' = [batch EXCEPT ![j].pc = "move", ![j].doomed = Doomed(j, Due(last))]
                /\ UNCHANGED batchLock
  BY DEF readRows
<1> DEFINE U == Due(last)
           D == Doomed(j, U)
           K == U \ D
<1>5. last \in Nat /\ last <= a.through
  BY <1>2
<1>6. /\ \A s \in U : s \in Stored /\ s <= last
      /\ \A s \in U : s \in D <=> /\ s # a.head
                                  /\ \A t \in U : t <= s => t # a.head /\ checksOut(t, anchor)
      /\ D \subseteq U
  BY <1>3 DEF Due, Doomed
<1>7. ChainType /\ Ordered /\ Stored \in SUBSET Nat /\ \A s \in Stored : s \in Nat /\ anchor < s
  BY DEF CInv, ChainType, Ordered
<1>8. \A s \in U : \A t \in Stored : t <= s => t \in U
  BY <1>5, <1>7, DueClosed
<1>9. alarm' = (alarm \/ (K # {} /\ Min(K) # a.head))
  BY <1>4
<1>10. \/ D = {} /\ batch' = [batch EXCEPT ![j] = NewBatch] /\ releaseBatch(j)
       \/ /\ D # {} /\ batch' = [batch EXCEPT ![j] = [batch[j] EXCEPT !.pc = "move", !.doomed = D]]
          /\ UNCHANGED batchLock
  BY <1>4
<1> HIDE DEF U, D, h
<1>11. ASSUME NEW s \in U PROVE s \in Nat /\ s <= a.head /\ s <= h
  <2>1. s \in Nat /\ s <= last
    BY <1>6, <1>7
  <2>2. a.through \in Nat /\ a.head \in Nat /\ h \in Nat
    BY <1>2
  <2> HIDE DEF a
  <2> QED BY <1>3, <1>5, <2>1, <2>2
<1>12. ASSUME ~damaged PROVE ~alarm'
  <2>1. ASSUME NEW s \in U PROVE checksOut(s, anchor)
    <3>1. s \in Stored /\ anchor < s
      BY <1>6, <1>7
    <3>2. InOrder(events, anchor, s)
      BY <1>12, <3>1 DEF CInv, Untouched
    <3> QED BY <1>7, <3>1, <3>2, OrderChecks
  <2>2. ASSUME NEW s \in K PROVE s = a.head
    <3>1. s \in U /\ s \notin D
      OBVIOUS
    <3>2. s = a.head \/ \E t \in U : t <= s /\ t = a.head
      BY <1>6, <2>1, <3>1
    <3> QED BY <1>2, <1>11, <3>1, <3>2
  <2>3. K # {} => K = {a.head}
    BY <2>2
  <2> HIDE DEF K
  <2>4. K # {} => Min(K) = a.head
    <3>1. a.head <= a.head
      BY <1>2
    <3>2. Min({a.head}) = a.head
      BY <3>1 DEF Min
    <3> QED BY <2>3, <3>2
  <2> QED BY <1>9, <1>12, <2>4, AlarmKept
<1>13. alarm' \in BOOLEAN
  BY <1>9, AlarmKept
<1>14. CASE D = {} /\ batch' = [batch EXCEPT ![j] = NewBatch] /\ releaseBatch(j)
  BY <1>1, <1>12, <1>13, <1>14, BatchEnds
<1>15. CASE /\ D # {} /\ batch' = [batch EXCEPT ![j] = [batch[j] EXCEPT !.pc = "move", !.doomed = D]]
            /\ UNCHANGED batchLock
  <2> DEFINE b == [batch[j] EXCEPT !.pc = "move", !.doomed = D]
  <2>1. D \in SUBSET Nat /\ D \subseteq Stored
    BY <1>6, <1>7
  <2>2. /\ b \in BatchType /\ b.pc = "move" /\ b.through = batch[j].through /\ b.anchor = batch[j].anchor
        /\ b.doomed = D
    BY <1>2, <2>1 DEF BatchType
  <2>3. batch' = [batch EXCEPT ![j] = b]
    BY <1>15
  <2> HIDE DEF b
  <2>4. \A d \in D : anchor < d /\ d < h
    <3>1. ASSUME NEW d \in D PROVE anchor < d /\ d < h
      <4>1. d \in Nat /\ d <= a.head /\ d # a.head
        BY <1>6, <1>11
      <4>2. anchor < d
        BY <1>7, <2>1
      <4> QED BY <1>2, <1>3, <4>1, <4>2
    <3> QED BY <3>1
  <2>5. ASSUME NEW d \in D, NEW t \in Stored, t <= d PROVE t \in D
    <3>1. d \in U /\ t \in U /\ d \in Nat /\ t \in Nat
      BY <1>6, <1>7, <1>8, <2>5
    <3>2. \A u \in U : u <= d => u # a.head /\ checksOut(u, anchor)
      BY <1>6, <3>1
    <3>3. \A u \in U : u <= t => u <= d
      BY <1>11, <2>5, <3>1
    <3>4. t # a.head
      BY <2>5, <3>1, <3>2
    <3> QED BY <1>6, <3>1, <3>2, <3>3, <3>4
  <2>6. BatchOK(Stored, h, anchor, damaged, b)
    BY <1>2, <1>3, <1>15, <2>1, <2>2, <2>4, <2>5 DEF BatchOK, Deleting
  <2>7. \A d \in b.doomed : checksOut(d, anchor)
    <3>1. ASSUME NEW d \in D PROVE checksOut(d, anchor)
      <4>1. d \in U /\ d <= d
        BY <1>6, <1>11
      <4> QED BY <1>6, <4>1
    <3> QED BY <2>2, <3>1
  <2>8. batchLock' = j /\ \A i \in Batches \ {j} : batch[i].pc = "idle"
    BY <1>1, <1>15, OtherBatches
  <2> QED BY <1>1, <1>12, <1>13, <2>2, <2>3, <2>6, <2>7, <2>8, BatchStep DEF h
<1> QED BY <1>10, <1>14, <1>15

\* The start of the chain is cut and the anchor put in its place.
LEMMA CommitBatchKeeps ==
  ASSUME CInv, NEW j \in Batches, commitBatch(j)
  PROVE  CInv'
<1> DEFINE D == batch[j].doomed
           m == Newest(D)
           h == Newest(Stored)
           E == Stored \ D
<1>1. /\ batch[j].pc = "commit" /\ anchor' = m /\ events' = [s \in E |-> events[s]]
      /\ batch' = [batch EXCEPT ![j] = NewBatch] /\ releaseBatch(j)
      /\ UNCHANGED <<seqs, chainLock, tx, points, damaged, alarm>>
  BY DEF commitBatch, appends
<1>2. /\ D \in SUBSET Nat /\ h \in Nat /\ anchor \in Nat
      /\ BatchOK(Stored, h, anchor, damaged, batch[j])
  BY BatchParts
<1>3. /\ D # {} /\ D \subseteq Stored /\ \A d \in D : anchor < d /\ d < h
      /\ \A d \in D : \A t \in Stored : t <= d => t \in D
  BY <1>1, <1>2 DEF BatchOK, Deleting
<1>4. m \in D /\ anchor < m /\ \A d \in D : d <= m
  BY <1>3, DoomedNewest
<1>5. ChainType /\ Ordered /\ seqs \in Nat
  BY DEF CInv, ChainType
<1>6. Stored' = E /\ DOMAIN events' = E /\ \A s \in E : events'[s] = events[s]
  BY <1>1 DEF Stored
<1>7. h \in Stored /\ \A s \in Stored : s \in Nat /\ s <= h
  BY <1>3, <1>5, ChainHeadIs
<1> HIDE DEF D, m, h
<1>8. h \in E /\ m \in Stored /\ m \in Nat
  BY <1>2, <1>3, <1>4, <1>7
<1>9. Newest(Stored)' = h
  <2>1. Newest(Stored)' = Newest(E)
    BY <1>6 DEF Newest
  <2>2. E \in SUBSET Nat /\ \A x \in E : x <= h
    BY <1>7
  <2>3. h \in E \cup {0}
    BY <1>8
  <2> HIDE DEF E
  <2> QED BY <1>2, <2>1, <2>2, <2>3, NewestEq
<1>10. ASSUME NEW s \in E PROVE m < s
  <2>1. ~(s <= m)
    BY <1>3, <1>4
  <2> QED BY <1>7, <1>8, <2>1
<1>11. ChainType'
  <2>1. batch' \in [Batches -> BatchType]
    BY <1>1, NewBatchTyped DEF CInv, ChainType
  <2>2. events' \in [Stored' -> ChainRowType]
    <3>1. events' = [s \in Stored' |-> events'[s]]
      BY <1>1, <1>6
    <3>2. \A s \in Stored' : events'[s] \in ChainRowType
      BY <1>5, <1>6 DEF ChainType
    <3> QED BY <3>1, <3>2
  <2>3. Stored' \subseteq 1..seqs'
    BY <1>1, <1>5, <1>6 DEF ChainType
  <2> QED BY <1>1, <1>5, <1>8, <2>1, <2>2, <2>3 DEF ChainType
<1>12. Ordered'
  BY <1>1, <1>6, <1>8, <1>10 DEF Ordered
<1>13. \A i \in Batches : batch'[i].pc = "idle" /\ batch'[i].doomed = {}
  <2>1. \A i \in Batches \ {j} : batch[i].pc = "idle"
    BY <1>1, OtherBatches
  <2>2. \A i \in Batches \ {j} : batch[i].doomed = {}
    BY <2>1, BatchParts DEF BatchOK, Deleting
  <2>3. batch \in [Batches -> BatchType]
    BY DEF CInv, ChainType
  <2> QED BY <1>1, <2>1, <2>2, <2>3, NewBatchTyped
<1>14. Locked'
  BY <1>1, <1>13 DEF CInv, Locked
<1>15. \A w \in Writers : TxOK(h, seqs', tx'[w])
  BY <1>1 DEF CInv, h
<1>16. \A i \in Batches : BatchOK(Stored', h, anchor', damaged', batch'[i])
  BY <1>13 DEF BatchOK, Deleting
<1>17. ASSUME ~damaged' PROVE Untouched'
  <2>1. ~alarm /\ \A s \in Stored : InOrder(events, anchor, s)
    BY <1>1, <1>17 DEF CInv, Untouched
  <2>2. ASSUME NEW s \in E PROVE InOrder(events', m, s)
    <3> DEFINE p == events[s].prev
    <3>1. /\ events[s].whole /\ p < s /\ p \in Stored \cup {anchor}
          /\ \A t \in Stored : ~(p < t /\ t < s)
      BY <2>1 DEF InOrder, Stored
    <3>2. p \in Nat
      BY <1>2, <1>7, <3>1
    <3> HIDE DEF p
    <3>3. m <= p
      BY <1>8, <1>10, <3>1, <3>2
    <3>4. p = m \/ p \in E
      BY <1>2, <1>4, <1>8, <3>1, <3>2, <3>3
    <3> QED BY <1>6, <3>1, <3>4 DEF InOrder, p
  <2>3. \A x \in points' : x <= anchor' \/ x \in Stored'
    <3>1. ASSUME NEW x \in points PROVE x <= m \/ x \in E
      <4>1. x \in Nat /\ (x <= anchor \/ x \in Stored)
        BY <1>1, <1>17 DEF CInv, ChainType, Untouched
      <4>2. CASE x <= anchor
        BY <1>2, <1>4, <1>8, <4>1, <4>2
      <4>3. CASE x \in Stored
        BY <1>4, <4>3
      <4> QED BY <4>1, <4>2, <4>3
    <3> QED BY <1>1, <1>6, <3>1
  <2> QED BY <1>1, <1>6, <2>1, <2>2, <2>3 DEF Untouched
<1>18. ASSUME damaged' PROVE \E n \in Stored' : Evidence(events', anchor', batch', n)
  <2>1. PICK n \in Stored : Evidence(events, anchor, batch, n)
    BY <1>1, <1>18 DEF CInv
  <2>2. n \notin D
    BY <1>3, <2>1 DEF Evidence, D, Stored
  <2>3. n \in E /\ events'[n] = events[n]
    BY <1>6, <2>2
  <2>4. events[n].prev \notin Stored => events[n].prev \notin E \cup {m}
    BY <1>8
  <2>5. Evidence(events', anchor', batch', n)
    BY <1>1, <1>6, <1>13, <2>1, <2>3, <2>4 DEF Evidence, Stored
  <2> QED BY <1>6, <2>3, <2>5
<1> QED BY <1>9, <1>11, <1>12, <1>14, <1>15, <1>16, <1>17, <1>18 DEF CInv
-------------------------------------------------------------------------
(* Verification and damage *)

LEMMA ChainVerifyKeeps ==
  ASSUME CInv, NEW asked, verifyChain(asked)
  PROVE  CInv'
<1>1. PICK s \in Stored : points' = points \cup {s}
  BY DEF verifyChain
<1>2. /\ UNCHANGED <<events, anchor, seqs, chainLock, batchLock, tx, batch, damaged, alarm>>
      /\ Stored' = Stored /\ Newest(Stored)' = Newest(Stored)
  BY DEF verifyChain, Stored, Newest
<1>3. points' \subseteq Nat
  BY <1>1 DEF CInv, ChainType
<1>4. ChainType' /\ Locked' /\ Ordered'
  BY <1>2, <1>3 DEF CInv, ChainType, Locked, Ordered
<1>5. ~damaged' => Untouched'
  BY <1>1, <1>2 DEF CInv, Untouched
<1> QED BY <1>2, <1>4, <1>5 DEF CInv

\* Nobody but the rows knows of the damage, and the evidence n of it.
LEMMA DamageStep ==
  ASSUME CInv, Stored' \subseteq Stored, Newest(Stored)' = Newest(Stored), Newest(Stored) \in Stored',
         events' \in [Stored' -> ChainRowType], damaged' = TRUE,
         UNCHANGED <<anchor, seqs, chainLock, batchLock, tx, batch, points, alarm>>,
         \A j \in Batches : batch[j].pc = "commit" => batch[j].doomed \subseteq Stored',
         NEW n \in Stored', Evidence(events', anchor, batch, n)
  PROVE  CInv'
<1>1. ChainType' /\ Locked' /\ Ordered'
  BY DEF CInv, ChainType, Locked, Ordered
<1>2. \A w \in Writers : TxOK(Newest(Stored)', seqs', tx'[w])
  BY DEF CInv
<1>3. ASSUME NEW j \in Batches PROVE BatchOK(Stored', Newest(Stored)', anchor', damaged', batch'[j])
  <2> DEFINE h == Newest(Stored)
             b == batch[j]
  <2>1. BatchOK(Stored, h, anchor, damaged, b)
    BY DEF CInv
  <2> HIDE DEF h, b
  <2>2. b.pc = "commit" => b.doomed \subseteq Stored'
    BY DEF b
  <2>3. BatchOK(Stored', h, anchor, TRUE, b)
    BY <2>1, <2>2 DEF BatchOK
  <2> QED BY <2>3 DEF h, b
<1> QED BY <1>1, <1>2, <1>3 DEF CInv

LEMMA DamageKeeps ==
  ASSUME CInv, NEW s \in Stored, Damage(s)
  PROVE  CInv'
<1>1. /\ ~damaged /\ damaged' = TRUE
      /\ UNCHANGED <<anchor, seqs, chainLock, batchLock, tx, batch, points, alarm>>
  BY DEF Damage
<1>2. ChainType /\ Ordered /\ Untouched
  BY <1>1 DEF CInv
<1>3. /\ Newest(Stored) \in Stored /\ Newest(Stored) \in Nat
      /\ \A t \in Stored : t \in Nat /\ t <= Newest(Stored)
  BY <1>2, ChainHeadIs
<1>4. \A j \in Batches : batch[j].pc = "commit" => batch[j].doomed \subseteq Stored
  BY BatchParts DEF BatchOK
<1>5. CASE /\ \A j \in Batches : s \notin batch[j].doomed
           /\ events' = [events EXCEPT ![s].whole = FALSE]
  <2>1. Stored' = Stored /\ Newest(Stored)' = Newest(Stored)
    BY <1>5 DEF Stored, Newest
  <2>2. events \in [Stored -> ChainRowType]
    BY <1>2 DEF ChainType
  <2>3. events' \in [Stored' -> ChainRowType] /\ ~events'[s].whole
    <3>1. events' = [events EXCEPT ![s] = [events[s] EXCEPT !.whole = FALSE]]
      BY <1>5
    <3>2. [events[s] EXCEPT !.whole = FALSE] \in ChainRowType /\ ~[events[s] EXCEPT !.whole = FALSE].whole
      BY <2>2 DEF ChainRowType
    <3> QED BY <2>1, <2>2, <3>1, <3>2
  <2>4. Evidence(events', anchor, batch, s)
    BY <1>5, <2>3 DEF Evidence
  <2> QED BY <1>1, <1>3, <1>4, <2>1, <2>3, <2>4, DamageStep
<1>6. CASE /\ s # Newest(Stored)
           /\ \A j \in Batches : batch[j].pc = "commit" => s \notin batch[j].doomed
           /\ events' = [t \in Stored \ {s} |-> events[t]]
  <2> DEFINE E == Stored \ {s}
             h == Newest(Stored)
             T == {t \in Stored : s < t}
  <2>1. Stored' = E /\ DOMAIN events' = E /\ \A t \in E : events'[t] = events[t]
    BY <1>6 DEF Stored
  <2>2. h \in E
    BY <1>3, <1>6
  <2>3. Newest(Stored)' = h
    <3>1. Newest(Stored)' = Newest(E)
      BY <2>1 DEF Newest
    <3>2. E \in SUBSET Nat /\ \A t \in E : t <= h
      BY <1>3
    <3>3. h \in E \cup {0} /\ h \in Nat
      BY <1>3, <2>2
    <3> HIDE DEF E, h
    <3> QED BY <3>1, <3>2, <3>3, NewestEq
  <2>4. events' \in [Stored' -> ChainRowType]
    <3>1. events' = [t \in Stored' |-> events'[t]]
      BY <1>6, <2>1
    <3>2. \A t \in Stored' : events'[t] \in ChainRowType
      BY <1>2, <2>1 DEF ChainType
    <3> QED BY <3>1, <3>2
  <2>5. PICK n \in T : \A t \in T : n <= t
    <3>1. h \in T
      <4> HIDE DEF h
      <4> QED BY <1>3, <2>2 DEF h
    <3>2. T \in SUBSET Nat /\ T # {}
      BY <1>3, <3>1
    <3> HIDE DEF T
    <3> QED BY <3>2, Least
  <2>6. n \in Stored /\ s < n /\ n \in E /\ n \in Nat /\ s \in Nat
    BY <1>3
  <2>7. events[n].prev = s /\ anchor < s
    <3> DEFINE p == events[n].prev
    <3>1. /\ p < n /\ p \in Stored \cup {anchor} /\ \A t \in Stored : ~(p < t /\ t < n)
      BY <1>2, <2>6 DEF Untouched, InOrder, Stored
    <3>2. anchor \in Nat /\ anchor < s
      BY <1>2 DEF ChainType, Ordered
    <3>3. p \in Nat
      BY <1>3, <3>1, <3>2
    <3> HIDE DEF p
    <3>4. ~(p < s)
      BY <2>6, <3>1
    <3>5. ~(s < p)
      <4>1. SUFFICES ASSUME s < p PROVE FALSE
        OBVIOUS
      <4>2. p \in T
        BY <2>6, <3>1, <3>2, <3>3, <4>1
      <4> QED BY <2>5, <2>6, <3>1, <3>3, <4>2
    <3>6. p = s
      BY <2>6, <3>3, <3>4, <3>5
    <3> QED BY <3>2, <3>6 DEF p
  <2>8. \A j \in Batches : n \in batch[j].doomed => s \in batch[j].doomed
    <3>1. s <= n
      BY <2>6
    <3> QED BY <3>1, BatchParts DEF BatchOK
  <2>9. Evidence(events', anchor, batch, n)
    <3>1. s \notin E \cup {anchor} /\ s < n /\ events'[n].prev = s
      <4>1. s # anchor
        BY <1>2, <2>7 DEF ChainType
      <4> QED BY <2>1, <2>6, <2>7, <4>1
    <3> QED BY <2>1, <2>8, <3>1 DEF Evidence
  <2>10. \A j \in Batches : batch[j].pc = "commit" => batch[j].doomed \subseteq Stored'
    BY <1>4, <1>6, <2>1
  <2> QED BY <1>1, <2>1, <2>2, <2>3, <2>4, <2>6, <2>9, <2>10, DamageStep
<1> QED BY <1>5, <1>6 DEF Damage
-------------------------------------------------------------------------
(* The theorems *)

LEMMA ChainInitHolds == ChainInit => CInv
<1> SUFFICES ASSUME ChainInit PROVE CInv
  OBVIOUS
<1>1. Stored = {} /\ events \in [Stored -> ChainRowType]
  BY DEF ChainInit, Stored
<1>2. ChainType
  BY <1>1, NewTxTyped, NewBatchTyped DEF ChainInit, ChainType
<1>3. (\A w \in Writers : tx[w] = NewTx) /\ (\A j \in Batches : batch[j] = NewBatch)
  BY DEF ChainInit
<1>4. Locked
  BY <1>3, NewTxTyped, NewBatchTyped DEF Locked
<1>5. Ordered /\ Untouched /\ ~damaged
  BY <1>1 DEF ChainInit, Ordered, Untouched
<1>6. \A w \in Writers : TxOK(Newest(Stored), seqs, tx[w])
  BY <1>3, NewTxTyped DEF TxOK
<1>7. \A j \in Batches : BatchOK(Stored, Newest(Stored), anchor, damaged, batch[j])
  BY <1>3, NewBatchOK
<1> QED BY <1>2, <1>4, <1>5, <1>6, <1>7 DEF CInv

LEMMA ChainNextKeeps == CInv /\ [ChainNext]_chainVars => CInv'
<1> SUFFICES ASSUME CInv, [ChainNext]_chainVars PROVE CInv'
  OBVIOUS
<1>1. CASE UNCHANGED chainVars
  <2>1. UNCHANGED <<events, anchor, seqs, chainLock, batchLock, tx, batch, points, damaged, alarm>>
    BY <1>1 DEF chainVars
  <2>2. Stored' = Stored /\ Newest(Stored)' = Newest(Stored)
    BY <2>1 DEF Stored, Newest
  <2>3. ChainType' /\ Locked' /\ Ordered' /\ (~damaged' => Untouched')
    BY <2>1, <2>2 DEF CInv, ChainType, Locked, Ordered, Untouched
  <2> QED BY <2>1, <2>2, <2>3 DEF CInv
<1>2. ASSUME NEW w \in Writers,
             lockChain(w) \/ readHead(w) \/ insertChained(w) \/ emitAgain(w) \/ endTx(w)
      PROVE  CInv'
  BY <1>2, ChainLockKeeps, ReadHeadKeeps, InsertKeeps, EmitAgainKeeps, EndTxKeeps
<1>3. ASSUME NEW j \in Batches,
             \/ tryLockBatch(j) \/ readAnchor(j) \/ readNewest(j) \/ readRows(j)
             \/ moveAnchor(j) \/ deleteDoomed(j) \/ commitBatch(j) \/ abortBatch(j)
      PROVE  CInv'
  BY <1>3, TryLockKeeps, ReadAnchorKeeps, ReadNewestKeeps, ReadRowsKeeps, MoveKeeps, DeleteKeeps,
     CommitBatchKeeps, AbortKeeps
<1>4. ASSUME NEW asked \in 0..MaxSeq, verifyChain(asked) PROVE CInv'
  BY <1>4, ChainVerifyKeeps
<1>5. ASSUME NEW s \in Stored, Damage(s) PROVE CInv'
  BY <1>5, DamageKeeps
<1> QED BY <1>1, <1>2, <1>3, <1>4, <1>5 DEF ChainNext

\* Every reachable chain is in the invariant: transactions append behind the
\* newest stored row one after the other (appendToChain), batches take its start
\* and never its newest row (deleteChainStart), and the sign of a damage is in no
\* batch's hands.
THEOREM ChainKept == ChainSpec => []CInv
<1>1. ChainInit => CInv
  BY ChainInitHolds
<1>2. CInv /\ [ChainNext]_chainVars => CInv'
  BY ChainNextKeeps
<1> QED BY <1>1, <1>2, PTL DEF ChainSpec

\* A chain nobody touched verifies from its start and from every head that was
\* ever reported, and retention takes no part of it for broken, for any number
\* of writers and nodes and any batch size (verifyChain, deleteBatch).
THEOREM ChainStaysSound == ChainSpec => []ChainSound
<1>1. CInv => ChainSound
  BY SoundFromInv
<1> QED BY <1>1, ChainKept, PTL

\* Once a row was changed or cut, no verification from the start passes again,
\* whatever is appended and however much retention deletes (deleteChainStart).
THEOREM DamageStaysSeen == ChainSpec => []EvidenceKept
<1>1. CInv => EvidenceKept
  BY EvidenceFromInv
<1> QED BY <1>1, ChainKept, PTL
============================================================================
