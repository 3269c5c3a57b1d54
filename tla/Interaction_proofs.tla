------------------------- MODULE Interaction_proofs -------------------------
(***************************************************************************)
(* What Interaction.tla promises of sessions, ends, revisions, turns and   *)
(* user switches, proved for every workload, every bound and any number of *)
(* interactions, sessions, requests and sweep runs.                        *)
(*                                                                         *)
(* One inductive invariant carries all of it.  Turns: the turn of the state*)
(* an interaction is in is in Redis or held by one process, and so is its  *)
(* end; whoever holds either knows the record has not moved.  Records: what*)
(* a request was checked against, and what a sweep took out and may put    *)
(* back, is the record of that revision.  Sessions: how far each step has  *)
(* brought the sessions a request makes, replaces or switches off.         *)
(*                                                                         *)
(* For each action a lemma ...Step says what the action does, in terms of  *)
(* the invariant's parts, and a lemma ...Keeps that the invariant holds    *)
(* after it; the frame lemmas between them say what a step that touches one*)
(* process and one interaction leaves of the others.                       *)
(***************************************************************************)
EXTENDS Interaction, FiniteSetTheorems, TLAPS

\* A process that took a turn and has neither used it up nor given it back.
Holding == {"reread", "return", "decide", "check", "create", "write", "delete", "shown",
            "ending", "cookie", "giveback"}
Holds(q) == q.kind \in requests /\ (q.pc \in Holding \/ (q.pc = "cleanup" /\ ~q.done))

\* It holds the turn of the state the interaction is in, not of an earlier one.
HoldsNow(q, i) == Holds(q) /\ q.id = i /\ q.turn = acted[i]

\* A process that took the member out of the index and has yet to report the end.
Finishing == {"finished", "registered", "signed_in"}
Signing == {"authenticated", "signed_in"}
Settles(q) == q.kind # "answer" \/ q.decision \in Finishing
Owns(q, i) ==
  \/ q.kind \in requests /\ q.pc = "report" /\ Settles(q) /\ q.id = i
  \/ q.kind = "sweep" /\ q.pc \in {"emit", "relist"} /\ q.entry.id = i

Untaken == {"take", "reread", "return"}

\* No report of its end was answered: it may have been reported expired by
\* events whose replies were lost.
Unheard(i) ==
  /\ \A k \in 1..Len(reports[i]) : reports[i][k] = "expired"
  /\ reports[i] # <<>> => <<"unheard", i>> \in marks
ToldFinished(i) == Len(reports[i]) > 0 /\ reports[i][Len(reports[i])] = "finished"
Told(i) ==
  /\ Len(reports[i]) > 1 => <<"unheard", i>> \in marks
  /\ \A k \in 1..(Len(reports[i]) - 1) : reports[i][k] = "expired"

----------------------------------------------------------------------------
(* Turns and ends *)

RecKept(i) ==
  /\ minted.ids < i => /\ rec[i] = None /\ turn[i] = None /\ index[i] = None
                       /\ reports[i] = <<>> /\ acted[i] = 0
  /\ rec[i] # None => index[i] # None /\ rec[i].rev = acted[i]
  /\ turn[i] # None => turn[i] = acted[i]
  /\ index[i] # None => Unheard(i)
  /\ Told(i)
  /\ <<"completed", i>> \in marks => ToldFinished(i)

\* What a request knows of its interaction.
AskKept(q) ==
  /\ q.id <= minted.ids
  /\ Holds(q) => /\ q.turn \in Nat /\ q.turn <= acted[q.id]
                 /\ q.pc # "cleanup" => q.turn = acted[q.id]
                 /\ q.pc \notin Untaken => q.turn = q.bound.rev
                 /\ turn[q.id] # None => q.turn # acted[q.id]
  /\ q.pc \notin Untaken => q.taken = q.bound
  /\ Owns(q, q.id) => index[q.id] = None /\ Unheard(q.id)
  /\ q.pc \in {"replaced", "reply"} /\ q.kind = "answer" /\ q.decision \in Finishing
       => ToldFinished(q.id)

\* How far the decision of an answer has brought it.
DecisionKept(q) ==
  /\ q.pc \in Holding \cup {"take"} => ~q.done
  /\ q.pc \in {"check", "create", "write"} => q.kind = "answer"
  /\ q.pc = "check" => q.decision = "finished"
  /\ q.pc = "create" => q.decision \in Signing /\ q.who \in Users
  /\ q.pc = "write" => q.decision \in {"step", "authenticated"}
  /\ q.pc = "delete" => Settles(q)
  /\ q.pc \in {"report", "replaced", "reply"} /\ q.kind = "answer" => q.decision \in Decisions
  /\ q.pc \in {"report", "replaced", "reply"} /\ q.decision = "authenticated" => q.secret # None
  /\ q.kind # "answer" => q.decision = None /\ q.session = None

SweepKept(q) ==
  /\ \A e \in q.todo : e.id <= minted.ids
  /\ q.pc \in {"emit", "relist"} =>
       /\ q.entry # None /\ q.entry.id <= minted.ids
       /\ index[q.entry.id] = None /\ Unheard(q.entry.id)
       /\ q.taken # None => q.taken.rev = acted[q.entry.id] /\ q.taken.binding <= minted.secrets

ProcKept(p) ==
  /\ pr[p].kind \in requests => AskKept(pr[p]) /\ DecisionKept(pr[p])
  /\ pr[p].kind = "sweep" => SweepKept(pr[p])

Apart(p, q) ==
  \A i \in Ids : ~(HoldsNow(pr[p], i) /\ HoldsNow(pr[q], i)) /\ ~(Owns(pr[p], i) /\ Owns(pr[q], i))

Turns ==
  /\ \A i \in Ids : RecKept(i)
  /\ \A p \in Procs : ProcKept(p)
  /\ \A p, q \in Procs : p # q => Apart(p, q)

----------------------------------------------------------------------------
(* The record of the state that may be answered *)

\* A sweep that took a record may put it back.
Taken(q, i) == q.kind = "sweep" /\ q.pc \in {"emit", "relist"} /\ q.entry.id = i /\ q.taken # None

Matches(q) ==
  /\ q.bound.rev <= acted[q.id]
  /\ rec[q.id] # None /\ q.bound.rev = acted[q.id] => rec[q.id] = q.bound
  /\ \A s \in Procs : Taken(pr[s], q.id) /\ q.bound.rev = acted[q.id] => pr[s].taken = q.bound

Answerable(i) ==
  \/ rec[i] = None \/ Expired(rec[i])
  \/ {<<"turn", i>>, <<"early", i>>} \cap marks # {}
  \/ turn[i] # None
  \/ \E p \in Procs : HoldsNow(pr[p], i)

Records ==
  /\ \A i \in Ids : Answerable(i)
  /\ \A p \in Procs : pr[p].kind \in requests => Matches(pr[p])
  /\ \A p \in Procs, i \in Ids :
       Taken(pr[p], i) => Expired(pr[p].taken) \/ <<"early", i>> \in marks

----------------------------------------------------------------------------
(* Sessions *)

Made(s) == sess[s] # None
Over(s) == sess[s] # None /\ ~sess[s].live
MadeIn(r) ==
  /\ r.sid # None => Made(r.sid)
  /\ r.carried # None => Made(r.carried.sid)

Shows(r) == ~r.chooser /\ switchedSids(r) # {}
SwitchedOff(q) ==
  \A s \in (switchedSids(q.taken) \cup (IF q.unread THEN {} ELSE {q.jar.sid})) \ {None} :
    Made(s) /\ ~LiveFor(s, shownUser(q.taken))

SessionKept(q) ==
  /\ MadeIn(q.bound) /\ (q.jar.sid # None => Made(q.jar.sid))
  /\ q.session # None => /\ Made(q.session)
                         /\ q.decision \in Signing
                         /\ q.pc \notin {"take", "reread", "return", "decide", "check", "create",
                                         "shown", "ending", "cookie"}
                         /\ q.pc \in {"report", "replaced", "reply"} => <<"shown", q.session>> \in marks
  /\ q.pc = "create" => /\ q.sid # None /\ q.sid <= minted.sids /\ ~Made(q.sid)
  /\ q.pc \in {"write", "delete"} /\ q.decision \in Signing
       => q.session # None
  /\ q.pc = "replaced" => q.taken.sid # None
  /\ q.late => q.bound.sid # None /\ Over(q.bound.sid)
  /\ q.pc = "delete" /\ q.decision = "finished" => ~q.late \/ q.stale
  /\ q.pc \in {"take", "reread", "shown", "cookie"} => ~q.clear
  /\ q.pc \in {"ending", "cookie"} => q.who = shownUser(q.taken)
  /\ q.pc = "ending" => /\ \A s \in q.todo : Made(s)
                        /\ \A s \in switchedSids(q.taken) \ q.todo : Over(s)
                        /\ q.clear => q.jar.sid # None /\ (q.jar.sid \in q.todo \/ Over(q.jar.sid))
  /\ q.pc = "cookie" => \A s \in switchedSids(q.taken) : Over(s)
  /\ q.kind = "switch" /\ q.pc \in {"delete", "report", "reply"} /\ Shows(q.taken) => SwitchedOff(q)

Given(s) ==
  sess[s] # None /\ sess[s].live /\ ~(job.carry /\ s = 1) =>
    \/ {<<"shown", s>>, <<"end", s>>, <<"unsettled", s>>} \cap marks # {}
    \/ \E p \in Procs : pr[p].kind \in requests /\ pr[p].session = s

ReplacedKept(s) ==
  <<"replaced", s>> \in marks =>
    /\ Made(s)
    /\ sess[s].live =>
         \/ {<<"end", s>>, <<"skipped", s>>} \cap marks # {}
         \/ \E p \in Procs : /\ pr[p].kind = "answer" /\ pr[p].pc \in {"report", "replaced"}
                             /\ pr[p].session # None /\ pr[p].taken.sid = s

Sessions ==
  /\ jar.sid # None => Made(jar.sid)
  /\ \A i \in Ids : rec[i] # None => MadeIn(rec[i])
  /\ \A p \in Procs : pr[p].kind = "sweep" /\ pr[p].taken # None => MadeIn(pr[p].taken)
  /\ \A p \in Procs : pr[p].kind \in requests => SessionKept(pr[p])
  /\ \A p, q \in Procs : p # q /\ pr[p].pc = "create" /\ pr[q].pc = "create" => pr[p].sid # pr[q].sid
  /\ \A s \in Sids : Given(s) /\ ReplacedKept(s)
IInv == TypeOK /\ Turns /\ Records /\ Sessions

----------------------------------------------------------------------------
(* Constants and types *)

LEMMA Constants ==
  /\ Ids \subseteq Nat \ {0} /\ Sids \subseteq Nat \ {0} /\ 1 \in Sids
  /\ None \notin Nat /\ None \notin Users /\ None \notin Ids /\ None \notin Sids
  /\ None \notin RecordType /\ None \notin SessionType /\ None \notin CarriedType
<1>1. Cardinality(Ids) \in Nat /\ Cardinality(Sids) \in Nat
  BY FS_CardinalityType, InteractionAssumption
<1>2. Ids \subseteq Nat \ {0} /\ Sids \subseteq Nat \ {0} /\ 1 \in Sids
  BY <1>1, InteractionAssumption
<1> QED BY <1>2, InteractionAssumption

LEMMA NoneDecides == None \notin {"step", "authenticated", "finished", "registered", "signed_in"}
BY InteractionAssumption DEF Decisions

LEMMA KindOf ==
  ASSUME NEW q \in ProcessType
  PROVE  /\ q.kind \in requests => q \in RequestType
         /\ q.kind = "sweep" => q \in SweepType
<1>1. \A r \in RequestType : r.kind \in requests
  BY DEF RequestType
<1>2. \A r \in SweepType : r.kind = "sweep"
  BY DEF SweepType
<1>3. Idle.kind = "none" /\ "none" \notin requests /\ "sweep" \notin requests
  BY DEF Idle, requests
<1> QED BY <1>1, <1>2, <1>3 DEF ProcessType

LEMMA Kinds ==
  ASSUME TypeOK, NEW p \in Procs
  PROVE  /\ pr[p] \in ProcessType
         /\ pr[p].kind \in requests => pr[p] \in RequestType
         /\ pr[p].kind = "sweep" => pr[p] \in SweepType
<1>1. pr[p] \in ProcessType
  BY DEF TypeOK
<1> QED BY <1>1, KindOf

LEMMA FaultTyped ==
  ASSUME TypeOK, NEW kind
  PROVE  (Fault(kind) => faults' \in Nat) /\ (Outcome(kind) => faults' \in Nat)
BY DEF TypeOK, Fault, Outcome

\* What no step of a request changes of it.
Same(q, r) ==
  /\ r \in RequestType
  /\ r.kind = q.kind /\ r.id = q.id /\ r.jar = q.jar /\ r.bound = q.bound
SameTurn(q, r) == r.turn = q.turn /\ r.taken = q.taken /\ r.done = q.done
SameAnswer(q, r) ==
  r.decision = q.decision /\ r.sid = q.sid /\ r.session = q.session
SameSwitch(q, r) ==
  r.who = q.who /\ r.todo = q.todo /\ r.clear = q.clear /\ r.unread = q.unread
SameAll(q, r) ==
  /\ Same(q, r) /\ SameTurn(q, r) /\ SameAnswer(q, r) /\ SameSwitch(q, r)
  /\ r.late = q.late /\ r.secret = q.secret

\* A request as its steps leave it.
AsTurned(q, t, b) == [q EXCEPT !.pc = "reread", !.turn = t, !.late = b]
AsRead(q, x, pc) == [q EXCEPT !.taken = x, !.pc = pc]
AsDecided(q, pc, d, u, s) == [q EXCEPT !.pc = pc, !.decision = d, !.who = u, !.sid = s]
AsChecked(q, b) == [q EXCEPT !.pc = "delete", !.stale = b]
AsSigned(q, pc, s) == [q EXCEPT !.pc = pc, !.session = s]
AsWritten(q, pc, b, n) == [q EXCEPT !.pc = pc, !.done = b, !.secret = n]
AsDeleted(q, pc, b) == [q EXCEPT !.pc = pc, !.done = b]
AsEnding(q, u, S) == [q EXCEPT !.pc = "ending", !.who = u, !.todo = S]
AsUnread(q) == [q EXCEPT !.pc = "delete", !.unread = TRUE]
AsCleared(q, b) == [q EXCEPT !.pc = "delete", !.clear = b]
AsNamed(q, S) == [q EXCEPT !.pc = "ending", !.clear = TRUE, !.todo = S]

LEMMA Steps ==
  /\ {"answer"} \in SUBSET requests /\ {"switch"} \in SUBSET requests /\ requests \in SUBSET requests
  /\ \A kind \in {"answer", "cancel", "switch"} : kind \in requests
BY DEF requests

LEMMA GoneOn ==
  ASSUME NEW q \in RequestType, NEW pc \in RequestSteps
  PROVE  SameAll(q, [q EXCEPT !.pc = pc]) /\ [q EXCEPT !.pc = pc].pc = pc
BY DEF RequestType, SameAll, Same, SameTurn, SameAnswer, SameSwitch

LEMMA TurnTaken ==
  ASSUME NEW q \in RequestType, NEW t \in Nat, NEW b \in BOOLEAN
  PROVE  LET r == AsTurned(q, t, b)
         IN  /\ Same(q, r) /\ SameAnswer(q, r) /\ SameSwitch(q, r) /\ r.taken = q.taken
             /\ r.pc = "reread" /\ r.turn = t /\ r.late = b /\ r.done = q.done
BY ZenonT(60) DEF AsTurned, RequestType, RequestSteps, Same, SameAnswer, SameSwitch

LEMMA RecordTaken ==
  ASSUME NEW q \in RequestType, NEW x \in RecordType, NEW pc \in RequestSteps
  PROVE  LET r == AsRead(q, x, pc)
         IN  /\ Same(q, r) /\ SameAnswer(q, r) /\ SameSwitch(q, r)
             /\ r.pc = pc /\ r.turn = q.turn /\ r.taken = x /\ r.late = q.late /\ r.done = q.done
BY DEF AsRead, RequestType, Same, SameAnswer, SameSwitch

LEMMA Decided ==
  ASSUME NEW q \in RequestType, NEW pc \in RequestSteps, NEW d \in Decisions,
         NEW u \in Users \cup {None}, NEW s \in Sids \cup {None}
  PROVE  LET r == AsDecided(q, pc, d, u, s)
         IN  /\ Same(q, r) /\ SameTurn(q, r)
             /\ r.pc = pc /\ r.decision = d /\ r.who = u /\ r.sid = s /\ r.session = q.session
             /\ r.todo = q.todo /\ r.late = q.late
BY ZenonT(60) DEF AsDecided, RequestType, Same, SameTurn

LEMMA Checked ==
  ASSUME NEW q \in RequestType, NEW b \in BOOLEAN
  PROVE  LET r == AsChecked(q, b)
         IN  SameAll(q, r) /\ r.pc = "delete" /\ r.stale = b
BY ZenonT(60) DEF AsChecked, RequestType, RequestSteps, SameAll, Same, SameTurn, SameAnswer, SameSwitch

LEMMA SessionMade ==
  ASSUME NEW q \in RequestType, NEW pc \in RequestSteps, NEW s \in Sids
  PROVE  LET r == AsSigned(q, pc, s)
         IN  /\ Same(q, r) /\ SameTurn(q, r) /\ SameSwitch(q, r)
             /\ r.pc = pc /\ r.session = s /\ r.decision = q.decision /\ r.late = q.late
BY ZenonT(60) DEF AsSigned, RequestType, Same, SameTurn, SameSwitch

LEMMA Written ==
  ASSUME NEW q \in RequestType, NEW pc \in RequestSteps, NEW b \in BOOLEAN, NEW n \in Nat
  PROVE  LET r == AsWritten(q, pc, b, n)
         IN  /\ r.secret = n /\ Same(q, r) /\ SameAnswer(q, r) /\ SameSwitch(q, r)
             /\ r.pc = pc /\ r.done = b /\ r.turn = q.turn /\ r.taken = q.taken /\ r.late = q.late
BY ZenonT(60) DEF AsWritten, RequestType, Same, SameAnswer, SameSwitch

LEMMA Deleted ==
  ASSUME NEW q \in RequestType, NEW pc \in RequestSteps, NEW b \in BOOLEAN
  PROVE  LET r == AsDeleted(q, pc, b)
         IN  /\ Same(q, r) /\ SameAnswer(q, r) /\ SameSwitch(q, r)
             /\ r.pc = pc /\ r.done = b /\ r.turn = q.turn /\ r.taken = q.taken /\ r.late = q.late
BY ZenonT(60) DEF AsDeleted, RequestType, Same, SameAnswer, SameSwitch

LEMMA SwitchBegun ==
  ASSUME NEW q \in RequestType, NEW u \in Users \cup {None}, NEW S \in SUBSET Sids
  PROVE  LET r == AsEnding(q, u, S)
         IN  /\ Same(q, r) /\ SameTurn(q, r) /\ SameAnswer(q, r)
             /\ r.pc = "ending" /\ r.who = u /\ r.todo = S /\ r.late = q.late
             /\ r.clear = q.clear /\ r.unread = q.unread
<1>1. "ending" \in RequestSteps
  BY DEF RequestSteps
<1> DEFINE r == AsEnding(q, u, S)
<1>2. r \in RequestType
  BY <1>1 DEF RequestType, AsEnding
<1>3. /\ r.kind = q.kind /\ r.id = q.id /\ r.jar = q.jar /\ r.bound = q.bound
      /\ r.pc = "ending" /\ r.who = u /\ r.todo = S /\ r.late = q.late
      /\ r.clear = q.clear /\ r.unread = q.unread
      /\ SameTurn(q, r) /\ SameAnswer(q, r)
  BY DEF RequestType, SameTurn, SameAnswer, AsEnding
<1> QED BY <1>2, <1>3 DEF Same

LEMMA SwitchGoesOn ==
  ASSUME NEW q \in RequestType, NEW s
  PROVE  LET r == [q EXCEPT !.todo = @ \ {s}]
         IN  /\ Same(q, r) /\ SameTurn(q, r) /\ SameAnswer(q, r)
             /\ r.pc = q.pc /\ r.who = q.who /\ r.todo = q.todo \ {s} /\ r.late = q.late
             /\ r.clear = q.clear /\ r.unread = q.unread
BY DEF RequestType, Same, SameTurn, SameAnswer

LEMMA CookieUnread ==
  ASSUME NEW q \in RequestType
  PROVE  LET r == AsUnread(q)
         IN  /\ Same(q, r) /\ SameTurn(q, r) /\ SameAnswer(q, r)
             /\ r.pc = "delete" /\ r.late = q.late /\ r.unread
BY ZenonT(60) DEF AsUnread, RequestType, RequestSteps, Same, SameTurn, SameAnswer

LEMMA CookieCleared ==
  ASSUME NEW q \in RequestType, NEW b \in BOOLEAN
  PROVE  LET r == AsCleared(q, b)
         IN  /\ Same(q, r) /\ SameTurn(q, r) /\ SameAnswer(q, r)
             /\ r.pc = "delete" /\ r.late = q.late /\ r.unread = q.unread
BY ZenonT(60) DEF AsCleared, RequestType, RequestSteps, Same, SameTurn, SameAnswer

LEMMA CookieNamed ==
  ASSUME NEW q \in RequestType, NEW S \in SUBSET Sids
  PROVE  LET r == AsNamed(q, S)
         IN  /\ Same(q, r) /\ SameTurn(q, r) /\ SameAnswer(q, r)
             /\ r.pc = "ending" /\ r.who = q.who /\ r.todo = S /\ r.clear /\ r.late = q.late
BY ZenonT(60) DEF AsNamed, RequestType, RequestSteps, Same, SameTurn, SameAnswer

----------------------------------------------------------------------------
(* What the steps do *)

Only(p) == pr' \in [Procs -> ProcessType] /\ \A q \in Procs \ {p} : pr'[q] = pr[q]

\* Only marks of these kinds are added.
Notes(kinds) ==
  marks \subseteq marks' /\ \A x, y : <<x, y>> \in marks' /\ x \notin kinds => <<x, y>> \in marks

Quiet == UNCHANGED <<rec, turn, index, reports, acted, minted.ids, minted.secrets>>

LEMMA OneMoves ==
  ASSUME TypeOK, NEW p \in Procs, NEW r \in ProcessType, pr' = [pr EXCEPT ![p] = r]
  PROVE  Only(p) /\ pr'[p] = r
BY DEF TypeOK, Only

LEMMA EndsDoes ==
  ASSUME TypeOK, NEW p \in Procs, Ends(p)
  PROVE  Only(p) /\ pr'[p] = Idle
<1>1. Idle \in ProcessType
  BY DEF ProcessType
<1> QED BY <1>1, OneMoves DEF Ends

LEMMA GoesDoes ==
  ASSUME TypeOK, NEW p \in Procs, pr[p] \in RequestType, NEW pc \in RequestSteps, Goes(p, pc)
  PROVE  Only(p) /\ SameAll(pr[p], pr'[p]) /\ pr'[p].pc = pc
<1>1. /\ SameAll(pr[p], [pr[p] EXCEPT !.pc = pc]) /\ [pr[p] EXCEPT !.pc = pc].pc = pc
  BY GoneOn
<1>2. [pr[p] EXCEPT !.pc = pc] \in ProcessType
  BY <1>1 DEF SameAll, Same, ProcessType
<1>3. pr' = [pr EXCEPT ![p] = [pr[p] EXCEPT !.pc = pc]]
  BY DEF Goes
<1> QED BY <1>1, <1>2, <1>3, OneMoves

\* What holds of the request that makes a step.
LEMMA AskAt ==
  ASSUME IInv, NEW p \in Procs, NEW kinds \in SUBSET requests, NEW pc, At(p, kinds, pc)
  PROVE  /\ pr[p] \in RequestType /\ pr[p] # Idle /\ pr[p].kind \in kinds /\ pr[p].pc = pc
         /\ AskKept(pr[p]) /\ DecisionKept(pr[p]) /\ Matches(pr[p]) /\ SessionKept(pr[p])
         /\ pr[p].id \in Ids /\ pr[p].bound \in RecordType
<1>1. pr[p].kind \in kinds /\ pr[p].kind \in requests /\ pr[p].pc = pc
  BY DEF At
<1>2. pr[p] \in RequestType
  BY <1>1, Kinds DEF IInv
<1>3. AskKept(pr[p]) /\ DecisionKept(pr[p]) /\ Matches(pr[p]) /\ SessionKept(pr[p])
  BY <1>1 DEF IInv, Turns, ProcKept, Records, Sessions
<1>4. pr[p].id \in Ids /\ pr[p].bound \in RecordType
  BY <1>2 DEF RequestType
<1>5. pr[p] # Idle
  BY <1>1 DEF Idle, requests
<1> QED BY <1>1, <1>2, <1>3, <1>4, <1>5

\* The record of the turn a request holds, once it was read again.
LEMMA TakenRecord ==
  ASSUME IInv, NEW p \in Procs, pr[p].kind \in requests, pr[p].pc \notin Untaken
  PROVE  /\ pr[p].taken = pr[p].bound /\ pr[p].taken \in RecordType /\ pr[p].taken.rev \in Nat
         /\ interactionDeadline(pr[p].taken) \in Nat
<1>1. pr[p].taken = pr[p].bound
  BY DEF IInv, Turns, ProcKept, AskKept
<1>2. pr[p].taken \in RecordType
  BY <1>1, Kinds DEF RequestType, IInv
<1> QED BY <1>1, <1>2, InteractionAssumption DEF RecordType, interactionDeadline

LEMMA TypeQuiet ==
  ASSUME TypeOK, pr' \in [Procs -> ProcessType], faults' \in Nat,
         UNCHANGED <<job, now, rec, turn, index, sess, jar, reports, acted, minted>>
  PROVE  TypeOK' /\ Quiet
BY DEF TypeOK, Quiet

\* The turn is burned, or the command failed.
LEMMA TakeTurnDoes ==
  ASSUME IInv, NEW p \in Procs, takeTurn(p)
  PROVE  LET i == pr[p].id
             s == pr[p].bound.sid
         IN  /\ TypeOK' /\ Only(p)
             /\ UNCHANGED <<job, now, rec, index, sess, jar, reports, acted, minted>>
             /\ Notes({"turn"})
             /\ pr[p] \in RequestType /\ pr[p].pc = "take" /\ i \in Ids
             /\ \/ /\ pr'[p] = Idle /\ (turn' = turn \/ turn' = [turn EXCEPT ![i] = None])
                   /\ turn'[i] = turn[i] \/ <<"turn", i>> \in marks'
                \/ /\ turn' = [turn EXCEPT ![i] = None] /\ turn[i] # None /\ pr'[p].turn = turn[i]
                   /\ pr'[p].pc = "reread" /\ Same(pr[p], pr'[p]) /\ SameAnswer(pr[p], pr'[p])
                   /\ SameSwitch(pr[p], pr'[p])
                   /\ (pr'[p].late => s # None /\ ~sess[s].live) /\ ~pr'[p].done
<1> DEFINE i == pr[p].id
           s == pr[p].bound.sid
           r == AsTurned(pr[p], turn[i], s # None /\ ~sess[s].live)
<1>1. pr[p] \in RequestType /\ pr[p].pc = "take" /\ i \in Ids /\ ~pr[p].done
  BY AskAt, Steps DEF takeTurn, DecisionKept
<1>2. PICK how \in Redis :
        /\ Outcome(how)
        /\ IF how = "fail" THEN UNCHANGED turn ELSE takeInteractionTurn(i)
        /\ IF how = "lost" /\ turn[i] # None THEN Marked({<<"turn", i>>}) ELSE UNCHANGED marks
        /\ IF how = "ok" /\ turn[i] # None THEN pr' = [pr EXCEPT ![p] = r] ELSE Ends(p)
  BY DEF takeTurn, AsTurned
<1>3. UNCHANGED <<job, now, rec, index, sess, jar, reports, acted, minted>>
  BY DEF takeTurn
<1>4. Notes({"turn"})
  BY <1>2 DEF Marked, Notes
<1>5. TypeOK
  BY DEF IInv
<1>6. /\ turn' = turn \/ turn' = [turn EXCEPT ![i] = None]
      /\ turn' \in [Ids -> Nat \cup {None}]
  BY <1>1, <1>2, <1>5 DEF takeInteractionTurn, TypeOK
<1>7. CASE how = "ok" /\ turn[i] # None
  <2>1. turn[i] \in Nat /\ (s # None /\ ~sess[s].live) \in BOOLEAN
    BY <1>1, <1>5, <1>7 DEF TypeOK
  <2>2. /\ Same(pr[p], r) /\ SameAnswer(pr[p], r) /\ SameSwitch(pr[p], r)
        /\ r.pc = "reread" /\ r.turn = turn[i]
        /\ r.late = (s # None /\ ~sess[s].live) /\ r.done = pr[p].done
    BY <1>1, <2>1, TurnTaken
  <2>3. r \in ProcessType
    BY <2>2 DEF Same, ProcessType
  <2>4. pr' = [pr EXCEPT ![p] = r] /\ turn' = [turn EXCEPT ![i] = None]
    BY <1>2, <1>7 DEF takeInteractionTurn
  <2> HIDE DEF r
  <2>5. Only(p) /\ pr'[p] = r
    BY <1>5, <2>3, <2>4, OneMoves
  <2>6. TypeOK'
    BY <1>2, <1>3, <1>5, <1>6, <2>5, FaultTyped DEF TypeOK, Only
  <2> QED BY <1>1, <1>3, <1>4, <1>7, <2>2, <2>4, <2>5, <2>6
<1>8. CASE ~(how = "ok" /\ turn[i] # None)
  <2>1. Only(p) /\ pr'[p] = Idle
    BY <1>2, <1>5, <1>8, EndsDoes
  <2>2. TypeOK'
    BY <1>2, <1>3, <1>5, <1>6, <2>1, FaultTyped DEF TypeOK, Only
  <2>3. turn'[i] = turn[i] \/ <<"turn", i>> \in marks'
    BY <1>1, <1>2, <1>5, <1>8 DEF takeInteractionTurn, Marked, TypeOK, Redis
  <2> QED BY <1>1, <1>3, <1>4, <1>6, <2>1, <2>2, <2>3
<1> QED BY <1>7, <1>8

\* The record was read again: the turn is lost with a record that is gone or
\* expired, goes back when it is for a later state, or serves the request.
TakeBoundDoes(p) ==
  LET q == pr[p]
      r == pr'[p]
      i == pr[p].id
  IN  \/ r = Idle /\ (rec[i] = None \/ Expired(rec[i]) \/ <<"turn", i>> \in marks' \/ q.turn # rec[i].rev)
      \/ r.pc = "return" /\ SameAll(q, r)
      \/ /\ r.pc = (IF q.kind = "answer" THEN "decide" ELSE IF q.kind = "cancel" THEN "delete" ELSE "shown")
         /\ Same(q, r) /\ SameAnswer(q, r) /\ SameSwitch(q, r)
         /\ rec[i] # None /\ ~Expired(rec[i]) /\ r.taken = rec[i] /\ r.late = q.late
         /\ r.turn = q.turn /\ q.turn = q.bound.rev /\ rec[i].rev = q.bound.rev /\ r.done = q.done

LEMMA TakeBoundStep ==
  ASSUME IInv, NEW p \in Procs, takeBound(p)
  PROVE  /\ TypeOK' /\ Quiet /\ Only(p) /\ Notes({"turn"})
         /\ UNCHANGED <<job, now, sess, jar, minted>>
         /\ pr[p] \in RequestType /\ pr[p].pc = "reread" /\ pr[p].id \in Ids
         /\ TakeBoundDoes(p)
<1> DEFINE i == pr[p].id
           x == rec[i]
           same == pr[p].turn = pr[p].bound.rev /\ x.rev = pr[p].bound.rev
                   /\ x.binding = pr[p].bound.binding
           next == IF pr[p].kind = "answer" THEN "decide" ELSE IF pr[p].kind = "cancel" THEN "delete" ELSE "shown"
           r == AsRead(pr[p], x, next)
<1>1. pr[p] \in RequestType /\ pr[p].pc = "reread" /\ i \in Ids /\ pr[p].kind \in requests
  BY AskAt, Steps DEF takeBound
<1>2. TypeOK /\ (x # None => x \in RecordType)
  BY <1>1 DEF IInv, TypeOK
<1>3. PICK how \in {"ok", "fail"} :
        /\ Outcome(how)
        /\ IF how = "fail" THEN Marked({<<"turn", i>>}) ELSE UNCHANGED marks
        /\ \/ (how = "fail" \/ x = None \/ Expired(x)) /\ Ends(p)
           \/ x # None /\ ~Expired(x) /\ same /\ pr' = [pr EXCEPT ![p] = r]
           \/ x # None /\ ~Expired(x) /\ Ends(p) /\ pr[p].turn # x.rev
           \/ x # None /\ ~Expired(x) /\ Goes(p, "return")
  <2>1. PICK how \in {"ok", "fail"} :
        /\ Outcome(how)
        /\ IF how = "fail" THEN Marked({<<"turn", i>>}) ELSE UNCHANGED marks
        /\ CASE how = "fail" \/ x = None -> Ends(p)
             [] how = "ok" /\ x # None /\ Expired(x) -> Ends(p)
             [] how = "ok" /\ x # None /\ ~Expired(x) /\ same ->
                  pr' = [pr EXCEPT ![p].taken = x, ![p].pc =
                     [answer |-> "decide", cancel |-> "delete", switch |-> "shown"][pr[p].kind]]
             [] OTHER -> pr' = [pr EXCEPT ![p] = IF pr[p].turn = x.rev
                                                   THEN [@ EXCEPT !.pc = "return"] ELSE Idle]
    BY DEF takeBound
  <2>2. [answer |-> "decide", cancel |-> "delete", switch |-> "shown"][pr[p].kind] = next
    BY <1>1 DEF requests
  <2>3. CASE how = "fail" \/ x = None
    BY <2>1, <2>3
  <2>4. CASE how = "ok" /\ x # None /\ Expired(x)
    BY <2>1, <2>4
  <2>5. CASE how = "ok" /\ x # None /\ ~Expired(x) /\ same
    BY <2>1, <2>2, <2>5 DEF AsRead
  <2>6. CASE how = "ok" /\ x # None /\ ~Expired(x) /\ ~same
    <3>1. pr' = [pr EXCEPT ![p] = IF pr[p].turn = x.rev THEN [@ EXCEPT !.pc = "return"] ELSE Idle]
      BY <2>1, <2>6
    <3> QED BY <2>1, <2>6, <3>1 DEF Ends, Goes
  <2> QED BY <2>3, <2>4, <2>5, <2>6
<1>4. UNCHANGED <<job, now, rec, turn, index, sess, jar, reports, acted, minted>>
  BY DEF takeBound, redis
<1>5. Notes({"turn"}) /\ faults' \in Nat
  BY <1>2, <1>3, FaultTyped DEF Marked, Notes
<1>6. CASE Ends(p) /\ (how = "fail" \/ x = None \/ Expired(x) \/ pr[p].turn # x.rev)
  <2>1. Only(p) /\ pr'[p] = Idle
    BY <1>2, <1>6, EndsDoes
  <2>2. how = "fail" => <<"turn", i>> \in marks'
    BY <1>3 DEF Marked
  <2> QED BY <1>1, <1>2, <1>4, <1>5, <1>6, <2>1, <2>2, TypeQuiet DEF Only, TakeBoundDoes
<1>7. CASE Goes(p, "return")
  <2>1. Only(p) /\ SameAll(pr[p], pr'[p]) /\ pr'[p].pc = "return"
    BY <1>1, <1>2, <1>7, GoesDoes DEF RequestSteps
  <2> QED BY <1>1, <1>2, <1>4, <1>5, <2>1, TypeQuiet DEF Only, TakeBoundDoes
<1>8. CASE x # None /\ ~Expired(x) /\ same /\ pr' = [pr EXCEPT ![p] = r]
  <2>1. next \in RequestSteps
    BY DEF RequestSteps
  <2>2. /\ Same(pr[p], r) /\ SameAnswer(pr[p], r) /\ SameSwitch(pr[p], r)
        /\ r.pc = next /\ r.turn = pr[p].turn /\ r.taken = x /\ r.late = pr[p].late /\ r.done = pr[p].done
    <3> HIDE DEF next, x
    <3> QED BY <1>1, <1>2, <1>8, <2>1, RecordTaken
  <2>3. r \in ProcessType
    BY <2>2 DEF Same, ProcessType
  <2> HIDE DEF r
  <2>4. Only(p) /\ pr'[p] = r
    BY <1>2, <1>8, <2>3, OneMoves
  <2> QED BY <1>1, <1>2, <1>4, <1>5, <1>8, <2>2, <2>4, TypeQuiet DEF Only, TakeBoundDoes
<1> QED BY <1>3, <1>6, <1>7, <1>8

Returned(i, t) == turn' = [turn EXCEPT ![i] = IF @ = None THEN t ELSE @]

LEMMA ReturnTurnStep ==
  ASSUME IInv, NEW p \in Procs, returnTurn(p)
  PROVE  LET i == pr[p].id
         IN  /\ TypeOK' /\ Only(p) /\ Notes({"turn"}) /\ pr'[p] = Idle
             /\ UNCHANGED <<job, now, rec, index, sess, jar, reports, acted, minted>>
             /\ pr[p] \in RequestType /\ pr[p].pc = "return" /\ i \in Ids
             /\ (turn' = turn /\ <<"turn", i>> \in marks') \/ Returned(i, pr[p].turn)
<1> DEFINE i == pr[p].id
<1>1. pr[p] \in RequestType /\ pr[p].pc = "return" /\ i \in Ids /\ AskKept(pr[p])
  BY AskAt, Steps DEF returnTurn
<1>2. pr[p].turn \in Nat
  BY <1>1 DEF AskKept, Holds, Holding, RequestType
<1>3. TypeOK
  BY DEF IInv
<1>4. UNCHANGED <<job, now, rec, index, sess, jar, reports, acted, minted>> /\ Ends(p)
  BY DEF returnTurn
<1>5. PICK how \in Redis :
        /\ Outcome(how)
        /\ IF how = "fail" THEN UNCHANGED turn /\ Marked({<<"turn", i>>})
                           ELSE Returned(i, pr[p].turn) /\ UNCHANGED marks
  BY DEF returnTurn, returnInteractionTurn, Returned
<1>6. Only(p) /\ pr'[p] = Idle
  BY <1>3, <1>4, EndsDoes
<1>7. Notes({"turn"}) /\ (how = "fail" => <<"turn", i>> \in marks')
  BY <1>5 DEF Marked, Notes
<1>8. turn' \in [Ids -> Nat \cup {None}]
  BY <1>1, <1>2, <1>3, <1>5 DEF Returned, TypeOK
<1>9. TypeOK'
  BY <1>3, <1>4, <1>5, <1>6, <1>8, FaultTyped DEF TypeOK, Only
<1> QED BY <1>1, <1>4, <1>5, <1>6, <1>7, <1>9

\* The engine threw or its decision was refused, or the answer goes on.
DecideDoes(p) ==
  LET q == pr[p]
      r == pr'[p]
  IN  /\ Same(q, r) /\ SameTurn(q, r) /\ r.session = q.session /\ r.late = q.late
      /\ \/ r.pc = "cleanup"
         \/ r.pc = "write" /\ r.decision = "step"
         \/ r.pc = "check" /\ r.decision = "finished"
         \/ r.pc = "delete" /\ r.decision = "registered"
         \/ /\ r.pc = "create" /\ r.decision \in Signing /\ r.who \in Users
            /\ r.sid = minted.sids + 1 /\ r.sid \in Sids /\ minted'.sids = minted.sids + 1

LEMMA DecideStep ==
  ASSUME IInv, NEW p \in Procs, decide(p)
  PROVE  /\ TypeOK' /\ Only(p) /\ Quiet
         /\ UNCHANGED <<job, now, sess, jar, marks>>
         /\ minted.sids \in Nat /\ minted'.sids \in Nat /\ minted.sids <= minted'.sids
         /\ pr[p] \in RequestType /\ pr[p].kind = "answer" /\ pr[p].pc = "decide"
         /\ DecideDoes(p)
<1> DEFINE x == pr[p].taken
           next == [step |-> "write", finished |-> "check", registered |-> "delete",
                    authenticated |-> "create", signed_in |-> "create"]
<1>1. pr[p] \in RequestType /\ pr[p].kind = "answer" /\ pr[p].pc = "decide"
  <2>1. At(p, {"answer"}, "decide")
    BY DEF decide
  <2> QED BY <2>1, AskAt, Steps
<1>2. TypeOK
  BY DEF IInv
<1>3. UNCHANGED <<job, now, rec, turn, index, sess, jar, reports, acted, marks>>
  BY DEF decide, redis
<1>4. CASE Fault("throw") /\ Goes(p, "cleanup") /\ UNCHANGED minted
  <2>1. Only(p) /\ SameAll(pr[p], pr'[p]) /\ pr'[p].pc = "cleanup"
    BY <1>1, <1>2, <1>4, GoesDoes DEF RequestSteps
  <2>2. TypeOK' /\ Quiet
    BY <1>2, <1>3, <1>4, <2>1, FaultTyped, TypeQuiet DEF Only
  <2>3. minted.sids \in Nat
    BY <1>2 DEF TypeOK
  <2> QED BY <1>1, <1>3, <1>4, <2>1, <2>2, <2>3 DEF DecideDoes, SameAll, SameAnswer
<1>5. CASE ~(Fault("throw") /\ Goes(p, "cleanup") /\ UNCHANGED minted)
  <2>1. PICK d \in job.decide : \E u \in About(d, x) :
          LET signs == d \in Signing
              legal == /\ ~Expired(x)
                       /\ signs => x.user \in {None, u}
                       /\ d = "registered" => x.user = None
          IN  /\ UNCHANGED faults
              /\ signs => minted.sids < Cardinality(Sids)
              /\ pr' = [pr EXCEPT ![p].pc = IF legal THEN next[d] ELSE "cleanup",
                                  ![p].decision = d, ![p].who = u,
                                  ![p].sid = IF signs THEN minted.sids + 1 ELSE None]
              /\ minted' = IF signs THEN [minted EXCEPT !.sids = @ + 1] ELSE minted
    BY <1>5, ZenonT(60) DEF decide, Signing
  <2> DEFINE signs == d \in Signing
             s == IF signs THEN minted.sids + 1 ELSE None
  <2>2. PICK u \in About(d, x), pc \in {next[d], "cleanup"} :
          /\ signs => minted.sids < Cardinality(Sids)
          /\ pr' = [pr EXCEPT ![p] = AsDecided(pr[p], pc, d, u, s)]
    <3>1. PICK u \in About(d, x), legal \in BOOLEAN :
            /\ signs => minted.sids < Cardinality(Sids)
            /\ pr' = [pr EXCEPT ![p].pc = IF legal THEN next[d] ELSE "cleanup",
                                ![p].decision = d, ![p].who = u, ![p].sid = s]
      BY <2>1
    <3> DEFINE pc == IF legal THEN next[d] ELSE "cleanup"
    <3>2. pr' = [pr EXCEPT ![p] = AsDecided(pr[p], pc, d, u, s)]
      <4> HIDE DEF s
      <4> QED BY <3>1 DEF AsDecided
    <3>3. pc \in {next[d], "cleanup"}
      OBVIOUS
    <3> HIDE DEF pc, next, s
    <3> QED BY <3>1, <3>2, <3>3
  <2>3. /\ minted' = IF signs THEN [minted EXCEPT !.sids = @ + 1] ELSE minted
        /\ UNCHANGED faults
    BY <2>1
  <2>4. d \in Decisions /\ u \in Users \cup {None} /\ (d \in Signing => u \in Users)
    <3>1. job \in JobType
      BY <1>2, InteractionAssumption DEF TypeOK
    <3>2. d \in Decisions
      BY <3>1 DEF JobType
    <3> QED BY <3>2 DEF About, Signing
  <2>5. pc \in RequestSteps
    BY <2>4 DEF Decisions, RequestSteps
  <2>6. minted.sids \in Nat /\ s \in Sids \cup {None} /\ (signs => s \in Sids /\ s = minted.sids + 1)
    <3>1. minted.sids \in Nat
      BY <1>2 DEF TypeOK
    <3>2. Cardinality(Sids) \in Nat /\ Sids = 1..Cardinality(Sids)
      BY InteractionAssumption, FS_CardinalityType
    <3> QED BY <2>2, <3>1, <3>2
  <2> DEFINE r == AsDecided(pr[p], pc, d, u, s)
  <2>7. /\ Same(pr[p], r) /\ SameTurn(pr[p], r) /\ r.pc = pc /\ r.decision = d /\ r.who = u
        /\ r.sid = s /\ r.session = pr[p].session /\ r.late = pr[p].late
    <3> HIDE DEF s
    <3> QED BY <1>1, <2>4, <2>5, <2>6, Decided
  <2>8. r \in ProcessType
    BY <2>7 DEF Same, ProcessType
  <2>9. pr' = [pr EXCEPT ![p] = r]
    BY <2>2
  <2> HIDE DEF r, s
  <2>10. Only(p) /\ pr'[p] = r
    BY <1>2, <2>8, <2>9, OneMoves
  <2>11. /\ minted' \in [ids : Nat, sids : Nat, secrets : Nat, asks : Nat]
         /\ minted'.ids = minted.ids /\ minted'.secrets = minted.secrets
         /\ minted'.sids \in Nat /\ minted.sids <= minted'.sids
         /\ signs => minted'.sids = minted.sids + 1
    <3>1. minted \in [ids : Nat, sids : Nat, secrets : Nat, asks : Nat]
      BY <1>2 DEF TypeOK
    <3> HIDE DEF signs
    <3> QED BY <2>3, <3>1
  <2>12. TypeOK' /\ Quiet
    <3>1. \A i \in Ids : rec'[i] # None => i <= minted'.ids /\ rec'[i].binding <= minted'.secrets
      BY <1>2, <1>3, <2>11 DEF TypeOK
    <3>2. \A t \in Sids : sess'[t] # None => t <= minted'.sids
      BY <1>2, <1>3, <2>6, <2>11, Constants DEF TypeOK
    <3> QED BY <1>2, <1>3, <2>3, <2>10, <2>11, <3>1, <3>2 DEF TypeOK, Quiet, Only
  <2>13. pc = "cleanup" \/ pc = next[d]
    BY <2>2
  <2>14. DecideDoes(p)
    BY <2>4, <2>6, <2>7, <2>10, <2>11, <2>13 DEF DecideDoes, Decisions, Signing
  <2> QED BY <1>1, <1>3, <2>6, <2>10, <2>11, <2>12, <2>14
<1> QED BY <1>4, <1>5

LEMMA CheckStep ==
  ASSUME IInv, NEW p \in Procs, signInSessionIsLive(p)
  PROVE  LET q == pr[p]
             r == pr'[p]
         IN  /\ TypeOK' /\ Only(p) /\ Quiet
             /\ UNCHANGED <<job, now, sess, jar, marks, minted>>
             /\ q \in RequestType /\ q.kind = "answer" /\ q.pc = "check" /\ SameAll(q, r)
             /\ \/ r.pc = "cleanup"
                \/ r.pc = "delete" /\ (q.taken.sid # None => sess[q.taken.sid].live \/ r.stale)
<1> DEFINE s == pr[p].taken.sid
<1>1. pr[p] \in RequestType /\ pr[p].kind = "answer" /\ pr[p].pc = "check"
  BY AskAt, Steps DEF signInSessionIsLive
<1>2. TypeOK
  BY DEF IInv
<1>3. UNCHANGED <<job, now, rec, turn, index, sess, jar, reports, acted, marks, minted>>
  BY DEF signInSessionIsLive, redis
<1>4. \/ Goes(p, "cleanup")
      \/ Goes(p, "delete") /\ s = None
      \/ pr' = [pr EXCEPT ![p] = AsChecked(pr[p], ~sess[s].live)]
  BY DEF signInSessionIsLive, AsChecked
<1>5. faults' \in Nat
  BY <1>2, FaultTyped DEF signInSessionIsLive, Served, TypeOK
<1>6. CASE Goes(p, "cleanup") \/ (Goes(p, "delete") /\ s = None)
  <2>1. PICK pc \in {"cleanup", "delete"} : Goes(p, pc) /\ (pc = "delete" => s = None)
    BY <1>6
  <2>2. Only(p) /\ SameAll(pr[p], pr'[p]) /\ pr'[p].pc = pc
    BY <1>1, <1>2, <2>1, GoesDoes DEF RequestSteps
  <2>3. TypeOK' /\ Quiet
    BY <1>2, <1>3, <1>5, <2>2, TypeQuiet DEF Only
  <2> QED BY <1>1, <1>3, <2>1, <2>2, <2>3
<1>7. CASE pr' = [pr EXCEPT ![p] = AsChecked(pr[p], ~sess[s].live)]
  <2> DEFINE b == ~sess[s].live
             r == AsChecked(pr[p], b)
  <2>1. SameAll(pr[p], r) /\ r.pc = "delete" /\ r.stale = b
    <3>1. b \in BOOLEAN
      OBVIOUS
    <3> HIDE DEF b
    <3> QED BY <1>1, <3>1, Checked
  <2>2. r \in ProcessType
    BY <2>1 DEF SameAll, Same, ProcessType
  <2>3. pr' = [pr EXCEPT ![p] = r]
    BY <1>7
  <2> HIDE DEF r
  <2>4. Only(p) /\ pr'[p] = r
    BY <1>2, <2>2, <2>3, OneMoves
  <2>5. TypeOK' /\ Quiet
    BY <1>2, <1>3, <1>5, <2>4, TypeQuiet DEF Only
  <2> QED BY <1>1, <1>3, <2>1, <2>4, <2>5
<1> QED BY <1>4, <1>6, <1>7

CreateDoes(p) ==
  LET q == pr[p]
      r == pr'[p]
      created == q.sid \in Sids /\ sess' = [sess EXCEPT ![q.sid] = [user |-> q.who, live |-> TRUE]]
  IN  \/ SameAll(q, r) /\ r.pc = "cleanup" /\ UNCHANGED <<sess, marks>>
      \/ SameAll(q, r) /\ r.pc = "cleanup" /\ created /\ <<"unsettled", q.sid>> \in marks'
      \/ /\ Same(q, r) /\ SameTurn(q, r) /\ r.decision = q.decision /\ r.late = q.late
         /\ r.session = q.sid /\ created
         /\ \/ r.pc = "cleanup"
            \/ r.pc = "delete" /\ q.decision = "signed_in"
            \/ r.pc = "write" /\ q.decision = "authenticated"

LEMMA CreateStep ==
  ASSUME IInv, NEW p \in Procs, createBrowserSession(p)
  PROVE  /\ TypeOK' /\ Only(p) /\ Quiet /\ Notes({"unsettled"})
         /\ UNCHANGED <<job, now, jar, minted>>
         /\ pr[p] \in RequestType /\ pr[p].kind = "answer" /\ pr[p].pc = "create"
         /\ pr[p].who \in Users /\ pr[p].decision \in Signing
         /\ CreateDoes(p)
<1> DEFINE s == pr[p].sid
           next == IF pr[p].decision = "signed_in" THEN "delete" ELSE "write"
<1>1. /\ pr[p] \in RequestType /\ pr[p].kind = "answer" /\ pr[p].pc = "create"
      /\ DecisionKept(pr[p]) /\ SessionKept(pr[p])
  <2>1. At(p, {"answer"}, "create")
    BY DEF createBrowserSession, storeSession
  <2> QED BY <2>1, AskAt, Steps
<1>2. TypeOK
  BY DEF IInv
<1>3. /\ UNCHANGED <<job, now, rec, turn, index, jar, reports, acted, minted>>
      /\ Notes({"unsettled"})
  BY DEF createBrowserSession, storeSession, redis, Marked, Notes
<1>4. pr[p].decision \in Signing /\ pr[p].who \in Users
  BY <1>1 DEF DecisionKept
<1>5. faults' \in Nat
  BY <1>2, FaultTyped DEF createBrowserSession, storeSession, TypeOK
<1>6. s \in Sids /\ s <= minted.sids
  BY <1>1 DEF SessionKept, RequestType
<1> DEFINE created == sess' = [sess EXCEPT ![s] = [user |-> pr[p].who, live |-> TRUE]]
<1>7. \/ Goes(p, "cleanup") /\ UNCHANGED <<sess, marks>>
      \/ Goes(p, "cleanup") /\ created /\ Marked({<<"unsettled", s>>})
      \/ created /\ pr' = [pr EXCEPT ![p] = AsSigned(pr[p], "cleanup", s)]
      \/ created /\ pr' = [pr EXCEPT ![p] = AsSigned(pr[p], next, s)]
  BY DEF createBrowserSession, storeSession, AsSigned
<1>8. ASSUME UNCHANGED sess \/ created
      PROVE  /\ sess' \in [Sids -> SessionType \cup {None}]
             /\ \A t \in Sids : sess'[t] # None => t <= minted'.sids
  <2>1. CASE UNCHANGED sess
    BY <1>2, <1>3, <2>1 DEF TypeOK
  <2>2. CASE created
    <3>1. sess' \in [Sids -> SessionType \cup {None}]
      BY <1>2, <1>4, <2>2 DEF TypeOK, SessionType
    <3>2. \A t \in Sids : sess'[t] # None => t <= minted'.sids
      BY <1>2, <1>3, <1>6, <2>2 DEF TypeOK
    <3> QED BY <3>1, <3>2
  <2> QED BY <1>8, <2>1, <2>2
<1>9. ASSUME pr' \in [Procs -> ProcessType], UNCHANGED sess \/ created
      PROVE  TypeOK' /\ Quiet
  BY <1>2, <1>3, <1>5, <1>8, <1>9 DEF TypeOK, Quiet
<1>10. CASE /\ Goes(p, "cleanup")
            /\ UNCHANGED <<sess, marks>> \/ (created /\ Marked({<<"unsettled", s>>}))
  <2>1. Only(p) /\ SameAll(pr[p], pr'[p]) /\ pr'[p].pc = "cleanup"
    BY <1>1, <1>2, <1>10, GoesDoes DEF RequestSteps
  <2>2. UNCHANGED <<sess, marks>> \/ (created /\ <<"unsettled", s>> \in marks')
    BY <1>10 DEF Marked
  <2>3. TypeOK' /\ Quiet
    BY <1>9, <2>1, <2>2 DEF Only
  <2> QED BY <1>1, <1>3, <1>4, <1>6, <2>1, <2>2, <2>3 DEF CreateDoes
<1>11. ASSUME NEW pc \in {"cleanup", next}, created,
              pr' = [pr EXCEPT ![p] = AsSigned(pr[p], pc, s)]
       PROVE  TypeOK' /\ Only(p) /\ Quiet /\ CreateDoes(p)
  <2>1. pc \in RequestSteps
    BY DEF RequestSteps
  <2> DEFINE r == AsSigned(pr[p], pc, s)
  <2>2. /\ Same(pr[p], r) /\ SameTurn(pr[p], r) /\ r.pc = pc /\ r.session = s
        /\ r.decision = pr[p].decision /\ r.late = pr[p].late
    <3> HIDE DEF s
    <3> QED BY <1>1, <1>6, <2>1, SessionMade
  <2>3. r \in ProcessType
    BY <2>2 DEF Same, ProcessType
  <2> HIDE DEF r
  <2>4. Only(p) /\ pr'[p] = r
    BY <1>2, <1>11, <2>3, OneMoves DEF r
  <2>5. TypeOK' /\ Quiet
    BY <1>9, <1>11, <2>4 DEF Only
  <2>6. pc = "cleanup" \/ (pc = "delete" /\ pr[p].decision = "signed_in")
           \/ (pc = "write" /\ pr[p].decision = "authenticated")
    BY <1>4 DEF Signing
  <2> QED BY <1>6, <1>11, <2>2, <2>4, <2>5, <2>6 DEF CreateDoes
<1> QED BY <1>1, <1>3, <1>4, <1>7, <1>10, <1>11

LEMMA DeadlineTyped ==
  ASSUME NEW x \in RecordType
  PROVE  interactionDeadline(x) \in Nat /\ redisDeadline(x) \in Nat
BY InteractionAssumption DEF RecordType, interactionDeadline, redisDeadline

\* The record a write leaves.
LEMMA NextTyped ==
  ASSUME TypeOK, NEW p \in Procs, pr[p] \in RequestType, NEW x \in RecordType
  PROVE  LET secret == minted.secrets + 1
             n == NextState(x, p, secret)
         IN  /\ n \in RecordType /\ n.rev = x.rev + 1 /\ n.carried = x.carried
             /\ n.sid = (IF pr[p].decision = "step" THEN x.sid ELSE pr[p].session)
             /\ n.binding = (IF pr[p].decision = "step" THEN x.binding ELSE secret)
<1> DEFINE secret == minted.secrets + 1
<1>1. secret \in Nat /\ minted.secrets \in Nat
  BY DEF TypeOK
<1>2. x.rev + 1 \in Nat
  BY DEF RecordType
<1>3. pr[p].who \in Users \cup {None} /\ pr[p].session \in Sids \cup {None}
  BY DEF RequestType
<1> HIDE DEF secret
<1>4. CASE pr[p].decision = "step"
  <2> DEFINE who == IF x.carried = None THEN None ELSE pr[p].who
             n == [x EXCEPT !.rev = @ + 1, !.chooser = FALSE, !.named = who]
  <2>1. NextState(x, p, secret) = n
    BY <1>4 DEF NextState
  <2>2. who \in Users \cup {None}
    BY <1>3
  <2> HIDE DEF who
  <2>3. n \in RecordType /\ n.rev = x.rev + 1 /\ n.carried = x.carried /\ n.sid = x.sid /\ n.binding = x.binding
    BY <1>2, <2>2 DEF RecordType
  <2> HIDE DEF n
  <2> QED BY <1>4, <2>1, <2>3 DEF secret
<1>5. CASE pr[p].decision # "step"
  <2> DEFINE n == [x EXCEPT !.rev = @ + 1, !.chooser = FALSE, !.named = None, !.binding = secret,
                             !.user = pr[p].who, !.sid = pr[p].session]
  <2>1. NextState(x, p, secret) = n
    BY <1>5 DEF NextState
  <2>3. n \in RecordType /\ n.rev = x.rev + 1 /\ n.carried = x.carried /\ n.sid = pr[p].session
          /\ n.binding = secret
    BY <1>1, <1>2, <1>3 DEF RecordType
  <2> HIDE DEF n
  <2> QED BY <1>1, <1>5, <2>1, <2>3 DEF secret
<1> QED BY <1>4, <1>5

\* A request past takeBound, at a step that holds the turn of the state Redis is in:
\* the record it was given is the one Redis holds, if it still holds one.
LEMMA HolderRecord ==
  ASSUME IInv, NEW p \in Procs, pr[p].kind \in requests, pr[p].pc \in Holding \ Untaken
  PROVE  LET i == pr[p].id
             x == pr[p].taken
         IN  /\ i \in Ids /\ x \in RecordType /\ x = pr[p].bound /\ x.rev = acted[i] /\ pr[p].turn = acted[i]
             /\ HoldsNow(pr[p], i) /\ turn[i] = None
             /\ rec[i] # None => rec[i] = x
<1>1. pr[p] \in RequestType /\ pr[p].taken = pr[p].bound /\ pr[p].taken \in RecordType
  BY Kinds, TakenRecord DEF IInv
<1>2. AskKept(pr[p]) /\ Matches(pr[p]) /\ pr[p].id \in Ids
  BY <1>1 DEF IInv, Turns, ProcKept, Records, RequestType
<1>3. RecKept(pr[p].id)
  BY <1>2 DEF IInv, Turns
<1>4. Holds(pr[p]) /\ pr[p].pc # "cleanup"
  BY DEF Holds, Holding
<1> QED BY <1>1, <1>2, <1>3, <1>4 DEF AskKept, Matches, RecKept, HoldsNow

\* A write that failed or met no record, or the next state.
WriteDoes(p) ==
  LET q == pr[p]
      r == pr'[p]
      i == pr[p].id
      n == NextState(pr[p].taken, p, minted.secrets + 1)
  IN  /\ Same(q, r) /\ SameAnswer(q, r) /\ SameSwitch(q, r)
      /\ r.turn = q.turn /\ r.taken = q.taken /\ r.late = q.late /\ r.secret # None
      /\ \/ /\ r.pc = "cleanup" /\ (r.done => rec[i] = None) /\ UNCHANGED <<rec, turn, index, acted, marks>>
         \/ /\ rec[i] # None
            /\ rec' = [rec EXCEPT ![i] = n]
            /\ turn' = [turn EXCEPT ![i] = IF @ = None THEN n.rev ELSE @]
            /\ index' = [index EXCEPT ![i] = IF @ = None THEN @ ELSE interactionDeadline(n)]
            /\ acted' = [acted EXCEPT ![i] = @ + 1]
            /\ \/ r.pc = "cleanup" /\ ~r.done /\ UNCHANGED marks
               \/ /\ r.pc = "report"
                  /\ IF q.decision = "authenticated"
                       THEN Marked({<<"shown", q.session>>} \cup {<<"replaced", s>> : s \in {q.taken.sid} \ {None}})
                       ELSE UNCHANGED marks

LEMMA WriteStep ==
  ASSUME IInv, NEW p \in Procs, writeState(p)
  PROVE  LET n == NextState(pr[p].taken, p, minted.secrets + 1)
         IN  /\ TypeOK' /\ Only(p) /\ Notes({"shown", "replaced"})
             /\ UNCHANGED <<job, now, sess, jar, reports, minted.ids, minted.sids>>
             /\ minted.secrets <= minted'.secrets
             /\ pr[p] \in RequestType /\ pr[p].kind = "answer" /\ pr[p].pc = "write" /\ pr[p].id \in Ids
             /\ pr[p].decision \in {"step", "authenticated"}
             /\ n \in RecordType /\ n.rev = pr[p].taken.rev + 1 /\ n.carried = pr[p].taken.carried
             /\ n.sid = (IF pr[p].decision = "step" THEN pr[p].taken.sid ELSE pr[p].session)
             /\ WriteDoes(p)
<1> DEFINE i == pr[p].id
           x == pr[p].taken
           secret == minted.secrets + 1
           n == NextState(x, p, secret)
           signs == pr[p].decision = "authenticated"
           there == rec[i] # None
           mark == {<<"shown", pr[p].session>>} \cup {<<"replaced", s>> : s \in {x.sid} \ {None}}
<1>1. /\ pr[p] \in RequestType /\ pr[p].kind = "answer" /\ pr[p].pc = "write" /\ i \in Ids
      /\ DecisionKept(pr[p])
  <2>1. At(p, {"answer"}, "write")
    BY DEF writeState
  <2> QED BY <2>1, AskAt, Steps
<1>2. TypeOK
  BY DEF IInv
<1>3. pr[p].decision \in {"step", "authenticated"}
  BY <1>1 DEF DecisionKept
<1>4. x \in RecordType /\ (rec[i] # None => rec[i] = x)
  BY <1>1, HolderRecord DEF Holding, Untaken, requests
<1>5. /\ n \in RecordType /\ n.rev = x.rev + 1 /\ n.carried = x.carried
      /\ n.sid = (IF pr[p].decision = "step" THEN x.sid ELSE pr[p].session)
      /\ n.binding = (IF pr[p].decision = "step" THEN x.binding ELSE secret)
  BY <1>1, <1>2, <1>4, NextTyped
<1>6. rec[i] # None => x.binding <= minted.secrets
  BY <1>1, <1>2, <1>4 DEF TypeOK
<1>7. UNCHANGED <<job, now, sess, jar, reports>>
  BY DEF writeState
<1>8. /\ minted' = IF signs THEN [minted EXCEPT !.secrets = secret] ELSE minted
      /\ \E how \in Redis :
           /\ Outcome(how)
           /\ IF how = "fail" THEN UNCHANGED <<rec, turn, index, acted>>
              ELSE /\ writeInteractionState(i, n)
                   /\ acted' = IF there THEN [acted EXCEPT ![i] = @ + 1] ELSE acted
           /\ pr' = [pr EXCEPT ![p] = AsWritten(pr[p], IF how = "ok" /\ there THEN "report" ELSE "cleanup",
                                                how = "ok", secret)]
           /\ IF how = "ok" /\ there /\ signs THEN Marked(mark) ELSE UNCHANGED marks
  <2>1. minted' = IF signs THEN [minted EXCEPT !.secrets = secret] ELSE minted
    BY DEF writeState
  <2>2. PICK how \in Redis :
           /\ Outcome(how)
           /\ IF how = "fail" THEN UNCHANGED <<rec, turn, index, acted>>
              ELSE /\ writeInteractionState(i, n)
                   /\ acted' = IF there THEN [acted EXCEPT ![i] = @ + 1] ELSE acted
           /\ pr' = [pr EXCEPT ![p].pc = IF how = "ok" /\ there THEN "report" ELSE "cleanup",
                               ![p].done = how = "ok", ![p].secret = secret]
           /\ IF how = "ok" /\ there /\ signs THEN Marked(mark) ELSE UNCHANGED marks
    BY DEF writeState, redis
  <2>3. pr' = [pr EXCEPT ![p] = AsWritten(pr[p], IF how = "ok" /\ there THEN "report" ELSE "cleanup",
                                                 how = "ok", secret)]
    BY <2>2 DEF AsWritten
  <2> HIDE DEF n, mark, signs, there, secret
  <2> QED BY <2>1, <2>2, <2>3
<1> HIDE DEF n, mark
<1>9. PICK how \in Redis :
           /\ Outcome(how)
           /\ IF how = "fail" THEN UNCHANGED <<rec, turn, index, acted>>
              ELSE /\ writeInteractionState(i, n)
                   /\ acted' = IF there THEN [acted EXCEPT ![i] = @ + 1] ELSE acted
           /\ pr' = [pr EXCEPT ![p] = AsWritten(pr[p], IF how = "ok" /\ there THEN "report" ELSE "cleanup",
                                                how = "ok", secret)]
           /\ IF how = "ok" /\ there /\ signs THEN Marked(mark) ELSE UNCHANGED marks
  BY <1>8
<1>10. /\ minted' \in [ids : Nat, sids : Nat, secrets : Nat, asks : Nat]
       /\ minted'.ids = minted.ids /\ minted'.sids = minted.sids
       /\ minted'.secrets = (IF signs THEN secret ELSE minted.secrets)
       /\ secret \in Nat /\ minted.secrets <= minted'.secrets
  <2>1. minted \in [ids : Nat, sids : Nat, secrets : Nat, asks : Nat]
    BY <1>2 DEF TypeOK
  <2> HIDE DEF signs
  <2> QED BY <1>8, <2>1
<1> DEFINE pc == IF how = "ok" /\ there THEN "report" ELSE "cleanup"
           done == how = "ok"
           r == AsWritten(pr[p], pc, done, secret)
<1>11. /\ Same(pr[p], r) /\ SameAnswer(pr[p], r) /\ SameSwitch(pr[p], r)
       /\ r.pc = pc /\ r.done = done /\ r.turn = pr[p].turn /\ r.taken = x /\ r.late = pr[p].late
       /\ r.secret # None
  <2>1. pc \in RequestSteps /\ done \in BOOLEAN /\ secret \in Nat
    BY <1>10 DEF RequestSteps
  <2> HIDE DEF pc, done, secret
  <2> QED BY <1>1, <2>1, Written, Constants
<1>12. r \in ProcessType /\ pr' = [pr EXCEPT ![p] = r]
  BY <1>9, <1>11 DEF Same, ProcessType
<1> HIDE DEF r
<1>13. Only(p) /\ pr'[p] = r
  BY <1>2, <1>12, OneMoves
<1>14. CASE how = "fail" \/ ~there
  <2>1. UNCHANGED <<rec, turn, index, acted, marks>>
    BY <1>9, <1>14 DEF writeInteractionState, redis
  <2>2. TypeOK'
    <3>1. \A j \in Ids : rec'[j] # None => j <= minted'.ids /\ rec'[j].binding <= minted'.secrets
      <4> SUFFICES ASSUME NEW j \in Ids, rec[j] # None
                   PROVE  j <= minted.ids /\ rec[j].binding <= minted'.secrets
        BY <1>10, <2>1
      <4>1. rec[j] \in RecordType /\ rec[j].binding <= minted.secrets /\ j <= minted.ids
        BY <1>2 DEF TypeOK
      <4> QED BY <1>2, <1>10, <4>1 DEF RecordType, TypeOK
    <3> QED BY <1>2, <1>7, <1>9, <1>10, <1>13, <2>1, <3>1, FaultTyped DEF TypeOK, Only
  <2>3. Notes({"shown", "replaced"}) /\ UNCHANGED marks
    BY <2>1 DEF Notes
  <2>4. r.pc = "cleanup" /\ (r.done => rec[i] = None)
    BY <1>11, <1>14
  <2>5. WriteDoes(p)
    BY <1>11, <1>13, <2>1, <2>4 DEF WriteDoes
  <2> QED BY <1>1, <1>3, <1>5, <1>7, <1>10, <1>13, <2>2, <2>3, <2>5 DEF n
<1>15. CASE how # "fail" /\ there
  <2>1. /\ rec' = [rec EXCEPT ![i] = n]
        /\ turn' = [turn EXCEPT ![i] = IF @ = None THEN n.rev ELSE @]
        /\ index' = [index EXCEPT ![i] = IF @ = None THEN @ ELSE interactionDeadline(n)]
        /\ acted' = [acted EXCEPT ![i] = @ + 1]
    BY <1>9, <1>15 DEF writeInteractionState
  <2>2. n.rev \in Nat /\ interactionDeadline(n) \in Nat /\ n \in RecordType
    BY <1>5, DeadlineTyped DEF RecordType, n
  <2>3. /\ rec' \in [Ids -> RecordType \cup {None}] /\ turn' \in [Ids -> Nat \cup {None}]
        /\ index' \in [Ids -> Nat \cup {None}] /\ acted' \in [Ids -> Nat]
    <3>1. /\ rec \in [Ids -> RecordType \cup {None}] /\ turn \in [Ids -> Nat \cup {None}]
          /\ index \in [Ids -> Nat \cup {None}] /\ acted \in [Ids -> Nat]
      BY <1>2 DEF TypeOK
    <3>2. rec' \in [Ids -> RecordType \cup {None}] /\ acted' \in [Ids -> Nat]
      BY <1>1, <2>1, <2>2, <3>1
    <3> DEFINE d == interactionDeadline(n)
    <3> HIDE DEF d
    <3>3. turn' \in [Ids -> Nat \cup {None}]
      BY <1>1, <2>1, <2>2, <3>1
    <3>4. index' \in [Ids -> Nat \cup {None}]
      BY <1>1, <2>1, <2>2, <3>1
    <3> QED BY <3>2, <3>3, <3>4
  <2>4. \A j \in Ids : rec'[j] # None => j <= minted'.ids /\ rec'[j].binding <= minted'.secrets
    <3> SUFFICES ASSUME NEW j \in Ids, rec'[j] # None
                 PROVE  j <= minted.ids /\ rec'[j].binding <= minted'.secrets
      BY <1>10
    <3>1. CASE j = i
      <4>1. rec'[i] = n /\ i <= minted.ids
        BY <1>1, <1>2, <1>15, <2>1 DEF TypeOK
      <4>2. minted.secrets \in Nat
        BY <1>2 DEF TypeOK
      <4>3. n.binding <= (IF pr[p].decision = "step" THEN minted.secrets ELSE secret)
        <5>1. n.binding = (IF pr[p].decision = "step" THEN x.binding ELSE secret)
          BY <1>5 DEF n
        <5> HIDE DEF secret, x
        <5> QED BY <1>6, <1>10, <1>15, <4>2, <5>1
      <4> QED BY <1>3, <1>10, <3>1, <4>1, <4>3
    <3>2. CASE j # i
      <4>1. rec[j] \in RecordType /\ rec[j].binding <= minted.secrets /\ j <= minted.ids /\ rec'[j] = rec[j]
        BY <1>2, <2>1, <3>2 DEF TypeOK
      <4> QED BY <1>2, <1>10, <4>1 DEF RecordType, TypeOK
    <3> QED BY <3>1, <3>2
  <2>5. TypeOK'
    BY <1>2, <1>7, <1>9, <1>10, <1>13, <2>3, <2>4, FaultTyped DEF TypeOK, Only
  <2>6. Notes({"shown", "replaced"})
    BY <1>9 DEF Notes, Marked, mark
  <2>7. \/ r.pc = "cleanup" /\ ~r.done /\ UNCHANGED marks
        \/ r.pc = "report" /\ IF signs THEN Marked(mark) ELSE UNCHANGED marks
    BY <1>9, <1>11, <1>15 DEF Redis
  <2>8. WriteDoes(p)
    BY <1>11, <1>13, <1>15, <2>1, <2>7 DEF WriteDoes, n, mark
  <2> QED BY <1>1, <1>3, <1>5, <1>7, <1>10, <1>13, <2>5, <2>6, <2>8 DEF n
<1> QED BY <1>14, <1>15

Gone(i) ==
  /\ rec' = [rec EXCEPT ![i] = None] /\ turn' = [turn EXCEPT ![i] = None]
  /\ index' = [index EXCEPT ![i] = None]

\* A delete that failed; or the record is gone, and the end is this request's to
\* report or not.
DeleteDoes(p) ==
  LET q == pr[p]
      r == pr'[p]
      i == pr[p].id
  IN  /\ Same(q, r) /\ SameAnswer(q, r) /\ SameSwitch(q, r)
      /\ r.turn = q.turn /\ r.taken = q.taken /\ r.late = q.late
      /\ \/ r.pc = "cleanup" /\ ~r.done /\ UNCHANGED <<rec, turn, index, marks>>
         \/ r.pc = "cleanup" /\ Gone(i)
         \/ /\ r.pc = "report" /\ Gone(i) /\ index[i] # None
            /\ IF q.decision = "signed_in"
                 THEN Marked({<<"shown", q.session>>} \cup {<<"replaced", s>> : s \in {q.taken.sid} \ {None}})
                 ELSE UNCHANGED marks

LEMMA DeleteStep ==
  ASSUME IInv, NEW p \in Procs, deleteTaken(p)
  PROVE  /\ TypeOK' /\ Only(p) /\ Notes({"report", "shown", "replaced"})
         /\ \A s : <<"replaced", s>> \in marks' /\ <<"replaced", s>> \notin marks
                     => pr'[p].pc = "report" /\ pr[p].decision = "signed_in" /\ s = pr[p].taken.sid
         /\ UNCHANGED <<job, now, sess, jar, reports, acted, minted>>
         /\ pr[p] \in RequestType /\ pr[p].pc = "delete" /\ pr[p].id \in Ids
         /\ DeleteDoes(p)
<1> DEFINE i == pr[p].id
           signs == pr[p].decision = "signed_in"
           mark == {<<"shown", pr[p].session>>} \cup {<<"replaced", s>> : s \in {pr[p].taken.sid} \ {None}}
<1>1. pr[p] \in RequestType /\ pr[p].pc = "delete" /\ i \in Ids
  BY AskAt, Steps DEF deleteTaken
<1>2. TypeOK
  BY DEF IInv
<1>3. UNCHANGED <<job, now, sess, jar, reports, acted, minted>>
  BY DEF deleteTaken
<1>4. PICK how \in Redis :
           /\ Outcome(how)
           /\ IF how = "fail" THEN UNCHANGED redis ELSE deleteInteraction(i)
           /\ pr' = [pr EXCEPT ![p] = AsDeleted(pr[p], IF how = "ok" /\ ownsEnd(i) THEN "report" ELSE "cleanup",
                                                how = "ok")]
           /\ CASE how = "lost" /\ ownsEnd(i) -> Marked({<<"report", i>>})
                [] how = "ok" /\ ownsEnd(i) /\ signs -> Marked(mark)
                [] OTHER -> UNCHANGED marks
  BY DEF deleteTaken, AsDeleted
<1> DEFINE pc == IF how = "ok" /\ ownsEnd(i) THEN "report" ELSE "cleanup"
           done == how = "ok"
           r == AsDeleted(pr[p], pc, done)
<1>5. /\ Same(pr[p], r) /\ SameAnswer(pr[p], r) /\ SameSwitch(pr[p], r)
      /\ r.pc = pc /\ r.done = done /\ r.turn = pr[p].turn /\ r.taken = pr[p].taken /\ r.late = pr[p].late
  <2>1. pc \in RequestSteps /\ done \in BOOLEAN
    BY DEF RequestSteps
  <2> HIDE DEF pc, done
  <2> QED BY <1>1, <2>1, Deleted
<1>6. r \in ProcessType /\ pr' = [pr EXCEPT ![p] = r]
  BY <1>4, <1>5 DEF Same, ProcessType
<1> HIDE DEF r
<1>7. Only(p) /\ pr'[p] = r
  BY <1>2, <1>6, OneMoves
<1>8. /\ how = "fail" => UNCHANGED <<rec, turn, index>>
      /\ how # "fail" => Gone(i)
  BY <1>4 DEF deleteInteraction, Gone, redis
<1> HIDE DEF mark
<1>9. \/ how = "fail" /\ UNCHANGED marks
      \/ how = "lost" /\ (UNCHANGED marks \/ Marked({<<"report", i>>}))
      \/ how = "ok" /\ ownsEnd(i) /\ IF signs THEN Marked(mark) ELSE UNCHANGED marks
      \/ how = "ok" /\ ~ownsEnd(i) /\ UNCHANGED marks
  BY <1>4 DEF Redis
<1>10. /\ rec' \in [Ids -> RecordType \cup {None}] /\ turn' \in [Ids -> Nat \cup {None}]
       /\ index' \in [Ids -> Nat \cup {None}]
       /\ \A j \in Ids : rec'[j] = None \/ rec'[j] = rec[j]
  BY <1>1, <1>2, <1>8 DEF TypeOK, Gone
<1>11. TypeOK'
  BY <1>2, <1>3, <1>4, <1>7, <1>10, FaultTyped DEF TypeOK, Only
<1>12. Notes({"report", "shown", "replaced"})
  BY <1>9 DEF Notes, Marked, mark
<1>13. DeleteDoes(p)
  <2>1. CASE how = "fail"
    BY <1>5, <1>7, <1>8, <1>9, <2>1 DEF DeleteDoes
  <2>2. CASE how = "lost"
    BY <1>5, <1>7, <1>8, <2>2 DEF DeleteDoes
  <2>3. CASE how = "ok"
    BY <1>5, <1>7, <1>8, <1>9, <2>3 DEF DeleteDoes, ownsEnd, mark
  <2> QED BY <2>1, <2>2, <2>3 DEF Redis
<1>14. ASSUME NEW s, <<"replaced", s>> \in marks', <<"replaced", s>> \notin marks
       PROVE  pr'[p].pc = "report" /\ signs /\ s = pr[p].taken.sid
  <2>1. how = "ok" /\ ownsEnd(i) /\ signs /\ Marked(mark)
    BY <1>9, <1>14 DEF Marked
  <2> QED BY <1>5, <1>7, <1>14, <2>1 DEF Marked, mark
<1> QED BY <1>1, <1>3, <1>7, <1>11, <1>12, <1>13, <1>14

LEMMA CookiesTyped ==
  ASSUME IInv, NEW p \in Procs, pr[p].kind \in requests, pr[p].pc \in {"report", "reply"}
  PROVE  /\ Cookies(p) \in JarType
         /\ Cookies(p).sid \in {jar.sid, None, pr[p].session}
<1>1. pr[p] \in RequestType /\ DecisionKept(pr[p]) /\ jar \in JarType
  BY Kinds DEF IInv, TypeOK, Turns, ProcKept
<1>2. /\ pr[p].jar \in JarType /\ pr[p].session \in Sids \cup {None} /\ jar.sid \in Sids \cup {None}
      /\ jar.secrets \in SUBSET Nat /\ pr[p].jar.secrets \in SUBSET Nat
  BY <1>1 DEF RequestType, JarType
<1>3. pr[p].decision = "authenticated" => pr[p].secret \in Nat
  BY <1>1 DEF RequestType, DecisionKept
<1> DEFINE kept == nextFlowSecrets(pr[p].jar.secrets, pr[p].bound.binding,
                                  IF pr[p].decision = "authenticated" THEN {pr[p].secret} ELSE {})
<1>4. kept \in SUBSET Nat
  BY <1>2, <1>3 DEF nextFlowSecrets
<1> HIDE DEF kept
<1>5. \/ Cookies(p) = jar
      \/ Cookies(p) = [jar EXCEPT !.sid = IF pr[p].clear THEN None ELSE @]
      \/ Cookies(p) = [secrets |-> kept, sid |-> IF pr[p].session # None THEN pr[p].session ELSE jar.sid]
  BY DEF Cookies, kept
<1> QED BY <1>1, <1>2, <1>4, <1>5 DEF JarType

\* The event failed, written or not; or it was written, where there is an end
\* to report.
ReportDoes(p) ==
  LET q == pr[p]
      r == pr'[p]
      i == pr[p].id
      how == IF q.kind = "answer" THEN Outcomes[q.decision] ELSE "cancelled"
      replaces == q.session # None /\ q.taken.sid # None
      written == Settles(q) /\ reports' = [reports EXCEPT ![i] = Append(@, how)]
  IN  /\ how \in {"finished", "cancelled", "next_step", "authenticated"}
      /\ q.kind = "answer" /\ Settles(q) => how = "finished"
      /\ \/ /\ r = Idle /\ jar'.sid \in {jar.sid, None, q.session}
            /\ replaces => <<"skipped", q.taken.sid>> \in marks'
            /\ UNCHANGED reports \/ written
         \/ /\ SameAll(q, r) /\ r.pc = (IF replaces THEN "replaced" ELSE "reply")
            /\ UNCHANGED <<jar, marks>>
            /\ IF Settles(q) THEN written ELSE UNCHANGED reports

LEMMA ReportStep ==
  ASSUME IInv, NEW p \in Procs, report(p)
  PROVE  /\ TypeOK' /\ Only(p) /\ Notes({"report", "skipped"})
         /\ UNCHANGED <<job, now, rec, turn, index, sess, acted, minted>>
         /\ pr[p] \in RequestType /\ pr[p].pc = "report" /\ pr[p].id \in Ids
         /\ ReportDoes(p)
<1> DEFINE i == pr[p].id
           q == pr[p]
           how == IF q.kind = "answer" THEN Outcomes[q.decision] ELSE "cancelled"
           ends == how \in {"finished", "cancelled"}
           replaces == q.session # None /\ q.taken.sid # None
           next == IF replaces THEN "replaced" ELSE "reply"
<1>1. pr[p] \in RequestType /\ pr[p].pc = "report" /\ i \in Ids /\ q.kind \in requests /\ DecisionKept(q)
  BY AskAt, Steps DEF report
<1>2. TypeOK
  BY DEF IInv
<1>3. UNCHANGED <<job, now, rec, turn, index, sess, acted, minted>>
  BY DEF report, redis
<1>4. /\ how \in {"finished", "cancelled", "next_step", "authenticated"}
      /\ ends <=> Settles(q)
      /\ q.kind = "answer" /\ Settles(q) => how = "finished"
  <2>1. CASE q.kind = "answer"
    <3>1. q.decision \in Decisions
      BY <1>1, <2>1 DEF DecisionKept
    <3> QED BY <2>1, <3>1 DEF Decisions, Outcomes, Settles, Finishing
  <2>2. CASE q.kind # "answer"
    BY <2>2 DEF Settles
  <2> QED BY <2>1, <2>2
<1>5. \/ /\ Fault("audit") /\ jar' = Cookies(p) /\ Ends(p)
         /\ UNCHANGED reports \/ (ends /\ Report(i, how))
         /\ Marked(When(ends, <<"report", i>>) \cup When(replaces, <<"skipped", q.taken.sid>>))
      \/ /\ UNCHANGED <<faults, jar, marks>> /\ Goes(p, next)
         /\ IF ends THEN Report(i, how) ELSE UNCHANGED reports
  BY DEF report
<1>6. Settles(q) => Append(reports[i], how) \in Seq({"finished", "cancelled", "expired"})
  <2>1. reports[i] \in Seq({"finished", "cancelled", "expired"})
    BY <1>1, <1>2 DEF TypeOK
  <2>2. Settles(q) => how \in {"finished", "cancelled", "expired"}
    BY <1>4
  <2> HIDE DEF how
  <2> QED BY <2>1, <2>2
<1>7. ASSUME UNCHANGED reports \/ (ends /\ Report(i, how))
       PROVE  /\ UNCHANGED reports \/ (Settles(q) /\ reports' = [reports EXCEPT ![i] = Append(@, how)])
              /\ reports' \in [Ids -> Seq({"finished", "cancelled", "expired"})]
  <2>1. reports \in [Ids -> Seq({"finished", "cancelled", "expired"})]
    BY <1>2 DEF TypeOK
  <2>2. UNCHANGED reports \/ (Settles(q) /\ reports' = [reports EXCEPT ![i] = Append(@, how)])
    BY <1>4, <1>7 DEF Report
  <2> HIDE DEF how
  <2> QED BY <1>1, <1>6, <2>1, <2>2
<1>8. CASE /\ Ends(p) /\ Fault("audit") /\ jar' = Cookies(p)
           /\ UNCHANGED reports \/ (ends /\ Report(i, how))
           /\ Marked(When(ends, <<"report", i>>) \cup When(replaces, <<"skipped", q.taken.sid>>))
  <2>1. Only(p) /\ pr'[p] = Idle
    BY <1>2, <1>8, EndsDoes
  <2>2. Cookies(p) \in JarType /\ Cookies(p).sid \in {jar.sid, None, q.session}
    BY <1>1, CookiesTyped
  <2>3. TypeOK'
    BY <1>2, <1>3, <1>8, <1>7, <2>1, <2>2, FaultTyped DEF TypeOK, Only
  <2>4. Notes({"report", "skipped"}) /\ (replaces => <<"skipped", q.taken.sid>> \in marks')
    <3> HIDE DEF ends, replaces
    <3> QED BY <1>8 DEF Notes, Marked, When
  <2> QED BY <1>1, <1>3, <1>4, <1>8, <1>7, <2>1, <2>2, <2>3, <2>4 DEF ReportDoes
<1>9. CASE /\ UNCHANGED <<faults, jar, marks>> /\ Goes(p, next)
           /\ IF ends THEN Report(i, how) ELSE UNCHANGED reports
  <2>1. Only(p) /\ SameAll(q, pr'[p]) /\ pr'[p].pc = next
    BY <1>1, <1>2, <1>9, GoesDoes DEF RequestSteps
  <2>2. /\ IF Settles(q) THEN reports' = [reports EXCEPT ![i] = Append(@, how)] ELSE UNCHANGED reports
        /\ reports' \in [Ids -> Seq({"finished", "cancelled", "expired"})]
    BY <1>4, <1>9, <1>7 DEF Report
  <2>3. TypeOK'
    BY <1>2, <1>3, <1>9, <2>1, <2>2 DEF TypeOK, Only
  <2>4. Notes({"report", "skipped"})
    BY <1>9 DEF Notes
  <2> QED BY <1>1, <1>3, <1>4, <1>9, <2>1, <2>2, <2>3, <2>4 DEF ReportDoes
<1> QED BY <1>5, <1>8, <1>9

LEMMA EndTyped ==
  ASSUME TypeOK, NEW s \in Sids, Made(s), EndSession(s)
  PROVE  /\ sess' \in [Sids -> SessionType \cup {None}]
         /\ sess'[s] \in SessionType /\ sess'[s].user = sess[s].user /\ ~sess'[s].live
         /\ \A t \in Sids \ {s} : sess'[t] = sess[t]
         /\ \A t \in Sids : sess'[t] # None => t <= minted.sids
<1>1. sess[s] \in SessionType
  BY DEF TypeOK, Made
<1>2. [sess[s] EXCEPT !.live = FALSE] \in SessionType
  BY <1>1 DEF SessionType
<1>3. sess' = [sess EXCEPT ![s] = [sess[s] EXCEPT !.live = FALSE]]
  BY DEF EndSession
<1>4. [sess[s] EXCEPT !.live = FALSE].user = sess[s].user /\ ~[sess[s] EXCEPT !.live = FALSE].live
  BY <1>1 DEF SessionType
<1>5. sess \in [Sids -> SessionType \cup {None}] /\ \A t \in Sids : sess[t] # None => t <= minted.sids
  BY DEF TypeOK
<1> DEFINE x == [sess[s] EXCEPT !.live = FALSE]
<1> HIDE DEF x
<1>6. sess' = [sess EXCEPT ![s] = x] /\ x \in SessionType
  BY <1>2, <1>3 DEF x
<1>7. sess'[s] = x /\ sess' \in [Sids -> SessionType \cup {None}] /\ \A t \in Sids \ {s} : sess'[t] = sess[t]
  BY <1>5, <1>6
<1>8. s <= minted.sids
  BY <1>5 DEF Made
<1> QED BY <1>2, <1>4, <1>5, <1>7, <1>8 DEF x

\* What a step may do to the sessions: end one, and start those it announced.
Ended(s) ==
  /\ sess'[s] # None /\ sess'[s].user = sess[s].user /\ ~sess'[s].live
  /\ \A t \in Sids \ {s} : sess'[t] = sess[t]

LEMMA ReplacedStep ==
  ASSUME IInv, NEW p \in Procs, endReplacedSession(p)
  PROVE  LET q == pr[p]
             r == pr'[p]
         IN  /\ TypeOK' /\ Only(p) /\ Quiet /\ Notes({"end"})
             /\ UNCHANGED <<job, now, jar, minted>>
             /\ q \in RequestType /\ q.kind = "answer" /\ q.pc = "replaced" /\ q.taken.sid \in Sids
             /\ SameAll(q, r) /\ r.pc = "reply"
             /\ (UNCHANGED sess /\ <<"end", q.taken.sid>> \in marks') \/ Ended(q.taken.sid)
<1> DEFINE s == pr[p].taken.sid
<1>1. /\ pr[p] \in RequestType /\ pr[p].kind = "answer" /\ pr[p].pc = "replaced" /\ SessionKept(pr[p])
  BY AskAt, Steps DEF endReplacedSession
<1>2. TypeOK
  BY DEF IInv
<1>3. UNCHANGED <<job, now, rec, turn, index, jar, reports, acted, minted>>
  BY DEF endReplacedSession, redis
<1>4. pr[p].taken = pr[p].bound /\ pr[p].taken \in RecordType
  BY <1>1, TakenRecord DEF requests, Untaken
<1>5. s \in Sids /\ Made(s)
  BY <1>1, <1>4 DEF SessionKept, MadeIn, RecordType
<1>6. Only(p) /\ SameAll(pr[p], pr'[p]) /\ pr'[p].pc = "reply"
  BY <1>1, <1>2, GoesDoes DEF RequestSteps, endReplacedSession
<1>7. /\ Notes({"end"}) /\ faults' \in Nat
      /\ (UNCHANGED sess /\ <<"end", s>> \in marks') \/ EndSession(s)
  BY <1>2, FaultTyped DEF endReplacedSession, Notes, Marked, TypeOK
<1>8. /\ sess' \in [Sids -> SessionType \cup {None}] /\ \A t \in Sids : sess'[t] # None => t <= minted'.sids
      /\ (UNCHANGED sess /\ <<"end", s>> \in marks') \/ Ended(s)
  <2>1. CASE UNCHANGED sess /\ <<"end", s>> \in marks'
    BY <1>2, <1>3, <2>1 DEF TypeOK
  <2>2. CASE EndSession(s)
    BY <1>2, <1>3, <1>5, <2>2, EndTyped, Constants DEF Ended
  <2> QED BY <1>7, <2>1, <2>2
<1>9. TypeOK' /\ Quiet
  BY <1>2, <1>3, <1>6, <1>7, <1>8 DEF TypeOK, Quiet, Only
<1> QED BY <1>1, <1>3, <1>5, <1>6, <1>7, <1>8, <1>9

\* A new interaction and its record.
Started(x) ==
  LET i == minted.ids + 1
  IN  /\ i \in Ids /\ x \in RecordType /\ x.rev = 0
      /\ rec' = [rec EXCEPT ![i] = x] /\ turn' = [turn EXCEPT ![i] = 0]
      /\ index' = [index EXCEPT ![i] = interactionDeadline(x)]
      /\ minted'.ids = i /\ minted.secrets <= minted'.secrets

\* Its record carries the session the sign-in so far proved.
Creates(cookie, sid, carried) ==
  /\ \E x \in RecordType : Started(x) /\ x.sid = sid /\ x.carried = carried
  /\ jar'.sid = cookie /\ jar' \in JarType
  /\ rec' \in [Ids -> RecordType \cup {None}]
  /\ turn' \in [Ids -> Nat \cup {None}] /\ index' \in [Ids -> Nat \cup {None}]
  /\ minted'.sids = minted.sids
  /\ minted' \in [ids : Nat, sids : Nat, secrets : Nat, asks : Nat]
  /\ \A j \in Ids : rec'[j] # None => j <= minted'.ids /\ rec'[j].binding <= minted'.secrets

LEMMA CreateInteraction ==
  ASSUME TypeOK, NEW how, NEW cookies \in JarType, NEW held \in SUBSET Nat, NEW removed, NEW proved,
         proved.user \in Users \cup {None}, proved.sid \in Sids \cup {None},
         NEW carried \in CarriedType \cup {None}, NEW chooser \in BOOLEAN, NEW expires \in Nat,
         createInteraction(how, cookies, held, removed, proved, carried, chooser, expires),
         how # "fail"
  PROVE  Creates(cookies.sid, proved.sid, carried)
<1> DEFINE i == minted.ids + 1
           secret == minted.secrets + 1
           x == Record(secret, proved, carried, chooser, expires)
<1>1. /\ minted \in [ids : Nat, sids : Nat, secrets : Nat, asks : Nat] /\ minted.ids \in Nat
      /\ minted.secrets \in Nat /\ secret \in Nat /\ now \in Nat /\ i \in Nat
  BY DEF TypeOK
<1>2. /\ i \in Ids
      /\ insertInteraction(i, x)
      /\ minted' = [minted EXCEPT !.ids = i, !.secrets = secret]
      /\ \/ jar' = [cookies EXCEPT !.secrets = nextFlowSecrets(held, removed, {secret})]
         \/ jar' = cookies
  BY DEF createInteraction
<1>3. minted'.ids = i /\ minted'.secrets = secret /\ minted'.sids = minted.sids
      /\ minted' \in [ids : Nat, sids : Nat, secrets : Nat, asks : Nat]
  <2> HIDE DEF i, secret
  <2> QED BY <1>1, <1>2
<1>4. jar' \in JarType /\ jar'.sid = cookies.sid
  <2> DEFINE secrets == nextFlowSecrets(held, removed, {secret})
  <2>1. secrets \in SUBSET Nat
    BY <1>1 DEF nextFlowSecrets
  <2> HIDE DEF secrets
  <2> QED BY <1>2, <2>1 DEF JarType, secrets
<1>5. /\ x \in RecordType /\ x.rev = 0 /\ x.sid = proved.sid /\ x.carried = carried /\ x.binding = secret
  BY <1>1 DEF Record, RecordType
<1> HIDE DEF x
<1>6. interactionDeadline(x) \in Nat
  BY <1>5, DeadlineTyped
<1>7. /\ rec' = [rec EXCEPT ![i] = x] /\ turn' = [turn EXCEPT ![i] = 0]
      /\ index' = [index EXCEPT ![i] = interactionDeadline(x)]
  BY <1>2 DEF insertInteraction
<1>8. /\ rec' \in [Ids -> RecordType \cup {None}]
      /\ turn' \in [Ids -> Nat \cup {None}] /\ index' \in [Ids -> Nat \cup {None}]
  BY <1>2, <1>5, <1>6, <1>7 DEF TypeOK
<1>9. ASSUME NEW j \in Ids, rec'[j] # None
      PROVE  j <= minted'.ids /\ rec'[j].binding <= minted'.secrets
  <2>1. CASE j = i
    BY <1>1, <1>2, <1>3, <1>5, <1>7, <2>1 DEF TypeOK
  <2>2. CASE j # i
    <3>1. rec'[j] = rec[j] /\ rec[j] \in RecordType /\ j <= minted.ids /\ rec[j].binding <= minted.secrets
      BY <1>7, <1>9, <2>2 DEF TypeOK
    <3>2. j \in Nat /\ rec[j].binding \in Nat
      BY <3>1, Constants DEF RecordType
    <3> QED BY <1>1, <1>3, <3>1, <3>2
  <2> QED BY <2>1, <2>2
<1>10. Started(x)
  BY <1>1, <1>2, <1>3, <1>5, <1>7 DEF Started
<1> QED BY <1>3, <1>4, <1>5, <1>8, <1>9, <1>10 DEF Creates

ReplyDoes(p) ==
  LET q == pr[p]
  IN  \/ /\ UNCHANGED <<rec, turn, index, minted>> /\ jar'.sid \in {jar.sid, None, q.session}
         /\ <<"completed", q.id>> \in marks' =>
              <<"completed", q.id>> \in marks \/ (q.kind = "answer" /\ Settles(q))
         /\ \A i : <<"completed", i>> \in marks' => <<"completed", i>> \in marks \/ i = q.id
      \/ /\ \E x \in RecordType : Started(x) /\ x.sid \in {None, q.taken.sid, q.session} /\ x.carried = None
         /\ UNCHANGED marks /\ jar'.sid \in {jar.sid, None, q.session} /\ minted'.sids = minted.sids

LEMMA ReplyStep ==
  ASSUME IInv, NEW p \in Procs, reply(p)
  PROVE  /\ TypeOK' /\ Only(p) /\ Notes({"completed"})
         /\ UNCHANGED <<job, now, sess, reports, acted>>
         /\ pr[p] \in RequestType /\ pr[p].pc = "reply" /\ pr[p].id \in Ids /\ pr'[p] = Idle
         /\ ReplyDoes(p)
<1> DEFINE q == pr[p]
           x == pr[p].taken
           finished == q.kind = "answer" /\ Outcomes[q.decision] = "finished"
<1>1. pr[p] \in RequestType /\ pr[p].pc = "reply" /\ q.id \in Ids /\ q.kind \in requests /\ DecisionKept(q)
  BY AskAt, Steps DEF reply
<1>2. TypeOK
  BY DEF IInv
<1>3. UNCHANGED <<job, now, sess, reports, acted>> /\ Ends(p)
  BY DEF reply
<1>4. Only(p) /\ pr'[p] = Idle
  BY <1>2, <1>3, EndsDoes
<1>5. Cookies(p) \in JarType /\ Cookies(p).sid \in {jar.sid, None, q.session}
  BY <1>1, CookiesTyped
<1>6. finished => q.kind = "answer" /\ Settles(q)
  BY <1>1 DEF DecisionKept, Decisions, Outcomes, Settles, Finishing
<1>7. x \in RecordType
  BY <1>1, TakenRecord DEF Untaken
<1>8. CASE /\ jar' = Cookies(p) \/ UNCHANGED jar
           /\ IF finished THEN Marked({<<"completed", q.id>>}) ELSE UNCHANGED marks
           /\ UNCHANGED <<rec, turn, index, minted>>
           /\ faults' \in Nat
  <2>1. TypeOK'
    BY <1>2, <1>3, <1>4, <1>5, <1>8 DEF TypeOK, Only
  <2>2. /\ Notes({"completed"})
        /\ \A i : <<"completed", i>> \in marks' => <<"completed", i>> \in marks \/ (i = q.id /\ finished)
    <3> HIDE DEF finished
    <3> QED BY <1>8 DEF Notes, Marked
  <2>3. jar'.sid \in {jar.sid, None, q.session}
    BY <1>5, <1>8
  <2>4. ReplyDoes(p)
    BY <1>6, <1>8, <2>2, <2>3 DEF ReplyDoes
  <2> QED BY <1>1, <1>3, <1>4, <2>1, <2>2, <2>4
<1> DEFINE proved == IF q.decision = "finished" THEN [user |-> x.user, sid |-> x.sid]
                                                ELSE [user |-> q.who, sid |-> q.session]
<1>9. ASSUME NEW how \in Redis, NEW held \in SUBSET Nat, NEW removed, NEW shown,
             shown.user \in Users \cup {None}, shown.sid \in Sids \cup {None},
             shown.sid \in {None, x.sid, q.session}, NEW expires \in Nat,
             createInteraction(how, Cookies(p), held, removed, shown, None, FALSE, expires),
             UNCHANGED marks, faults' \in Nat
      PROVE  TypeOK' /\ Notes({"completed"}) /\ ReplyDoes(p)
  <2>1. Notes({"completed"})
    BY <1>9 DEF Notes
  <2>2. CASE how = "fail"
    <3>1. UNCHANGED <<rec, turn, index, minted>> /\ jar' = Cookies(p)
      BY <1>9, <2>2 DEF createInteraction, redis
    <3>2. TypeOK'
      BY <1>2, <1>3, <1>4, <1>5, <1>9, <3>1 DEF TypeOK, Only
    <3> QED BY <1>5, <1>9, <2>1, <3>1, <3>2 DEF ReplyDoes
  <2>3. CASE how # "fail"
    <3>1. Creates(Cookies(p).sid, shown.sid, None)
      <4>1. None \in CarriedType \cup {None} /\ FALSE \in BOOLEAN
        OBVIOUS
      <4> QED BY <1>2, <1>5, <1>9, <2>3, <4>1, CreateInteraction
    <3>2. TypeOK'
      BY <1>2, <1>3, <1>4, <1>9, <3>1 DEF TypeOK, Only, Creates
    <3> QED BY <1>5, <1>9, <2>1, <3>1, <3>2 DEF ReplyDoes, Creates
  <2> QED BY <2>2, <2>3
<1>10. /\ q.jar.secrets \in SUBSET Nat /\ Cookies(p).secrets \in SUBSET Nat
       /\ x.user \in Users \cup {None} /\ x.sid \in Sids \cup {None}
       /\ q.who \in Users \cup {None} /\ q.session \in Sids \cup {None}
       /\ x.expires \in Nat
  BY <1>1, <1>5, <1>7 DEF RequestType, JarType, RecordType
<1>11. ASSUME NEW how \in Redis, Outcome(how), finished, UNCHANGED marks,
              createInteraction(how, Cookies(p), Cookies(p).secrets, None, proved, None, FALSE, x.expires)
       PROVE  TypeOK' /\ Notes({"completed"}) /\ ReplyDoes(p)
  <2>1. /\ proved.user \in Users \cup {None} /\ proved.sid \in Sids \cup {None}
        /\ proved.sid \in {None, x.sid, q.session}
    BY <1>10
  <2>2. faults' \in Nat
    BY <1>2, <1>11, FaultTyped
  <2> HIDE DEF proved
  <2> QED BY <1>9, <1>10, <1>11, <2>1, <2>2
<1>12. ASSUME NEW how \in Redis, Outcome(how), UNCHANGED marks,
              createInteraction(how, Cookies(p), q.jar.secrets, q.bound.binding, Nobody, None, FALSE, x.expires)
       PROVE  TypeOK' /\ Notes({"completed"}) /\ ReplyDoes(p)
  <2>1. /\ Nobody.user \in Users \cup {None} /\ Nobody.sid \in Sids \cup {None}
        /\ Nobody.sid \in {None, x.sid, q.session}
    BY DEF Nobody
  <2>2. faults' \in Nat
    BY <1>2, <1>12, FaultTyped
  <2> QED BY <1>9, <1>10, <1>12, <2>1, <2>2
<1>13. \/ /\ jar' = Cookies(p) \/ UNCHANGED jar
          /\ IF finished THEN Marked({<<"completed", q.id>>}) ELSE UNCHANGED marks
          /\ UNCHANGED <<rec, turn, index, minted>>
          /\ faults' \in Nat
       \/ /\ UNCHANGED marks
          /\ \E how \in Redis :
               /\ Outcome(how)
               /\ \/ /\ finished
                     /\ createInteraction(how, Cookies(p), Cookies(p).secrets, None, proved, None, FALSE, x.expires)
                  \/ createInteraction(how, Cookies(p), q.jar.secrets, q.bound.binding, Nobody, None, FALSE, x.expires)
  <2>1. (UNCHANGED faults \/ Fault("response")) => faults' \in Nat
    BY <1>2, FaultTyped DEF TypeOK
  <2>2. \/ /\ (jar' = Cookies(p) /\ UNCHANGED faults) \/ (Fault("response") /\ UNCHANGED jar)
           /\ IF finished THEN Marked({<<"completed", q.id>>}) ELSE UNCHANGED marks
           /\ UNCHANGED <<redis, minted>>
        \/ /\ UNCHANGED marks
           /\ \E how \in Redis :
               /\ Outcome(how)
               /\ \/ /\ finished
                     /\ createInteraction(how, Cookies(p), Cookies(p).secrets, None, proved, None, FALSE, x.expires)
                  \/ createInteraction(how, Cookies(p), q.jar.secrets, q.bound.binding, Nobody, None, FALSE, x.expires)
    BY DEF reply
  <2> HIDE DEF finished, proved
  <2> QED BY <2>1, <2>2 DEF redis
<1> HIDE DEF finished, proved
<1> QED BY <1>1, <1>3, <1>4, <1>8, <1>11, <1>12, <1>13

LEMMA StartStep ==
  ASSUME IInv, startInteraction
  PROVE  /\ TypeOK'
         /\ UNCHANGED <<job, now, sess, pr, reports, acted, marks, minted.sids>>
         /\ jar'.sid = jar.sid
         /\ \E x \in RecordType :
              /\ Started(x) /\ MadeIn(x)
<1>1. PICK signedIn, chooser, consent \in BOOLEAN :
        LET carried == IF signedIn THEN [user |-> sess[jar.sid].user, sid |-> jar.sid] ELSE None
        IN  /\ IF signedIn THEN jar.sid # None /\ Served(jar.sid, sess[jar.sid].user)
               ELSE (jar.sid # None => ~sess[jar.sid].live) /\ UNCHANGED faults
            /\ chooser \/ consent => signedIn
            /\ createInteraction("ok", jar, jar.secrets, None, IF consent THEN carried ELSE Nobody,
                                 carried, chooser, now + Lifetime)
  BY DEF startInteraction
<1> DEFINE carried == IF signedIn THEN [user |-> sess[jar.sid].user, sid |-> jar.sid] ELSE None
           proved == IF consent THEN carried ELSE Nobody
<1>2. /\ TypeOK /\ UNCHANGED <<job, now, sess, pr, reports, acted, marks>>
  BY DEF IInv, startInteraction
<1>3. jar \in JarType /\ jar.secrets \in SUBSET Nat /\ jar.sid \in Sids \cup {None} /\ now + Lifetime \in Nat
  BY <1>2, InteractionAssumption DEF TypeOK, JarType
<1>4. (signedIn => Made(jar.sid) /\ sess[jar.sid] \in SessionType /\ jar.sid \in Sids) /\ (consent => signedIn)
  BY <1>1, <1>2, <1>3 DEF IInv, Sessions, Made, TypeOK
<1>5. carried \in CarriedType \cup {None} /\ (carried # None => signedIn /\ carried.sid = jar.sid)
  BY <1>4 DEF CarriedType, SessionType
<1>6. /\ proved.user \in Users \cup {None} /\ proved.sid \in Sids \cup {None}
      /\ proved.sid # None => signedIn /\ proved.sid = jar.sid
  BY <1>4 DEF Nobody, SessionType
<1>11. /\ createInteraction("ok", jar, jar.secrets, None, proved, carried, chooser, now + Lifetime)
       /\ Served(jar.sid, sess[jar.sid].user) \/ UNCHANGED faults
  BY <1>1
<1>10. faults' \in Nat
  BY <1>2, <1>11, FaultTyped DEF Served, TypeOK
<1> HIDE DEF carried, proved
<1>7. Creates(jar.sid, proved.sid, carried)
  BY <1>2, <1>3, <1>5, <1>6, <1>11, CreateInteraction
<1>8. TypeOK'
  BY <1>2, <1>7, <1>10 DEF TypeOK, Creates
<1>9. \E x \in RecordType : Started(x) /\ MadeIn(x)
  BY <1>4, <1>5, <1>6, <1>7 DEF MadeIn, Creates
<1> QED BY <1>2, <1>7, <1>8, <1>9 DEF Creates

\* A request that names an interaction of its browser.
LEMMA LocateStep ==
  ASSUME IInv, NEW p \in Procs, NEW i \in Ids, NEW kind \in requests, Locate(p, kind, i)
  PROVE  LET r == pr'[p]
         IN  /\ TypeOK' /\ Only(p) /\ Quiet /\ pr[p] = Idle
             /\ UNCHANGED <<job, now, sess, jar, marks, minted.sids>>
             /\ rec[i] # None
             /\ r \in RequestType /\ r.pc = "take" /\ r.kind = kind /\ r.id = i /\ r.bound = rec[i] /\ r.jar = jar
             /\ r.session = None /\ r.decision = None /\ ~r.late /\ ~r.done /\ ~r.clear
<1> DEFINE r == [kind |-> kind, pc |-> "take", id |-> i, jar |-> jar, bound |-> rec[i], taken |-> None,
                 turn |-> None, decision |-> None, who |-> None, sid |-> None, session |-> None,
                 secret |-> None, done |-> FALSE, todo |-> {}, clear |-> FALSE, unread |-> FALSE,
                 late |-> FALSE, stale |-> FALSE]
<1>1. TypeOK
  BY DEF IInv
<1>2. /\ pr[p] = Idle /\ rec[i] # None /\ pr' = [pr EXCEPT ![p] = r]
      /\ minted' = [minted EXCEPT !.asks = @ + 1]
      /\ UNCHANGED <<job, now, rec, turn, index, sess, jar, reports, acted, marks, faults>>
  BY DEF Locate, redis
<1>3. rec[i] \in RecordType /\ jar \in JarType
  BY <1>1, <1>2 DEF TypeOK
<1>4. r \in RequestType
  BY <1>3 DEF RequestType, RequestSteps
<1>5. r \in ProcessType
  BY <1>4 DEF ProcessType
<1>6. /\ r.pc = "take" /\ r.kind = kind /\ r.id = i /\ r.bound = rec[i] /\ r.jar = jar
      /\ r.session = None /\ r.decision = None /\ ~r.late /\ ~r.done /\ ~r.clear
  OBVIOUS
<1> HIDE DEF r
<1>7. Only(p) /\ pr'[p] = r
  BY <1>1, <1>2, <1>5, OneMoves
<1>8. /\ minted' \in [ids : Nat, sids : Nat, secrets : Nat, asks : Nat]
      /\ minted'.ids = minted.ids /\ minted'.sids = minted.sids /\ minted'.secrets = minted.secrets
  <2>1. minted \in [ids : Nat, sids : Nat, secrets : Nat, asks : Nat]
    BY <1>1 DEF TypeOK
  <2>2. minted' = [minted EXCEPT !.asks = @ + 1]
    BY <1>2
  <2> QED BY <2>1, <2>2
<1>9. TypeOK' /\ Quiet
  BY <1>1, <1>2, <1>7, <1>8 DEF TypeOK, Quiet, Only
<1> QED BY <1>2, <1>4, <1>6, <1>7, <1>8, <1>9

\* The clean-up: the turn goes back only if it is still of use.
LEMMA GiveTurnBackStep ==
  ASSUME IInv, NEW p \in Procs, giveTurnBack(p)
  PROVE  LET q == pr[p]
             r == pr'[p]
             i == pr[p].id
         IN  /\ TypeOK' /\ Only(p) /\ Quiet /\ Notes({"turn"})
             /\ UNCHANGED <<job, now, sess, jar, minted>>
             /\ q \in RequestType /\ q.pc = "cleanup" /\ i \in Ids /\ SameAll(q, r)
             /\ \/ /\ r.pc = "unused"
                   /\ q.done \/ Expired(q.taken) \/ <<"turn", i>> \in marks' \/ rec[i] = None \/ rec[i].rev # q.taken.rev
                \/ r.pc = "giveback" /\ ~q.done /\ rec[i] # None /\ rec[i].rev = q.taken.rev
<1> DEFINE i == pr[p].id
           q == pr[p]
<1>1. pr[p] \in RequestType /\ pr[p].pc = "cleanup" /\ i \in Ids
  BY AskAt, Steps DEF giveTurnBack
<1>2. TypeOK
  BY DEF IInv
<1>3. UNCHANGED <<job, now, rec, turn, index, sess, jar, reports, acted, minted>>
  BY DEF giveTurnBack, redis
<1>4. PICK pc \in {"unused", "giveback"} :
        /\ Goes(p, pc)
        /\ pc = "unused" => q.done \/ Expired(q.taken) \/ Marked({<<"turn", i>>}) \/ rec[i] = None \/ rec[i].rev # q.taken.rev
        /\ pc = "giveback" => ~q.done /\ rec[i] # None /\ rec[i].rev = q.taken.rev
        /\ UNCHANGED marks \/ Marked({<<"turn", i>>})
  BY DEF giveTurnBack
<1>5. faults' \in Nat
  BY <1>2, FaultTyped DEF giveTurnBack, TypeOK
<1>6. Only(p) /\ SameAll(pr[p], pr'[p]) /\ pr'[p].pc = pc
  BY <1>1, <1>2, <1>4, GoesDoes DEF RequestSteps
<1>7. TypeOK' /\ Quiet
  BY <1>2, <1>3, <1>5, <1>6, TypeQuiet DEF Only
<1>8. Notes({"turn"}) /\ (Marked({<<"turn", i>>}) => <<"turn", i>> \in marks')
  BY <1>4 DEF Notes, Marked
<1>9. pc = "giveback" \/ pc = "unused"
  OBVIOUS
<1> QED BY <1>1, <1>3, <1>4, <1>6, <1>7, <1>8, <1>9

LEMMA GiveBackStep ==
  ASSUME IInv, NEW p \in Procs, giveBack(p)
  PROVE  LET i == pr[p].id
         IN  /\ TypeOK' /\ Only(p) /\ Notes({"turn"})
             /\ UNCHANGED <<job, now, rec, index, sess, jar, reports, acted, minted>>
             /\ pr[p] \in RequestType /\ pr[p].pc = "giveback" /\ i \in Ids
             /\ SameAll(pr[p], pr'[p]) /\ pr'[p].pc = "unused"
             /\ (turn' = turn /\ <<"turn", i>> \in marks') \/ Returned(i, pr[p].taken.rev)
<1> DEFINE i == pr[p].id
           t == pr[p].taken.rev
<1>1. pr[p] \in RequestType /\ pr[p].pc = "giveback" /\ i \in Ids /\ pr[p].kind \in requests
  BY AskAt, Steps DEF giveBack
<1>2. t \in Nat
  BY <1>1, TakenRecord DEF Untaken
<1>3. TypeOK
  BY DEF IInv
<1>4. UNCHANGED <<job, now, rec, index, sess, jar, reports, acted, minted>> /\ Goes(p, "unused")
  BY DEF giveBack
<1>5. PICK how \in Redis :
        /\ Outcome(how)
        /\ IF how = "fail" THEN UNCHANGED turn /\ Marked({<<"turn", i>>})
                           ELSE Returned(i, t) /\ UNCHANGED marks
  BY DEF giveBack, returnInteractionTurn, Returned
<1>6. Only(p) /\ SameAll(pr[p], pr'[p]) /\ pr'[p].pc = "unused"
  BY <1>1, <1>3, <1>4, GoesDoes DEF RequestSteps
<1>7. Notes({"turn"}) /\ (how = "fail" => <<"turn", i>> \in marks')
  BY <1>5 DEF Marked, Notes
<1>8. turn' \in [Ids -> Nat \cup {None}]
  <2> HIDE DEF t
  <2> QED BY <1>1, <1>2, <1>3, <1>5 DEF Returned, TypeOK
<1>9. TypeOK'
  BY <1>3, <1>4, <1>5, <1>6, <1>8, FaultTyped DEF TypeOK, Only
<1> QED BY <1>1, <1>4, <1>5, <1>6, <1>7, <1>9

LEMMA SwitchedSids ==
  ASSUME NEW x \in RecordType
  PROVE  /\ switchedSids(x) \subseteq Sids
         /\ MadeIn(x) => \A s \in switchedSids(x) : Made(s)
         /\ shownUser(x) \in Users \cup {None}
BY Constants DEF RecordType, CarriedType, switchedSids, shownUser, MadeIn

\* The session an answer did not use.
LEMMA UnusedStep ==
  ASSUME IInv, NEW p \in Procs, endUnusedSession(p)
  PROVE  LET s == pr[p].session
         IN  /\ TypeOK' /\ Only(p) /\ Quiet /\ Notes({"end"}) /\ pr'[p] = Idle
             /\ UNCHANGED <<job, now, jar, minted>>
             /\ pr[p] \in RequestType /\ pr[p].pc = "unused"
             /\ \/ UNCHANGED sess /\ (s # None => <<"end", s>> \in marks')
                \/ s \in Sids /\ Ended(s)
<1> DEFINE s == pr[p].session
<1>1. pr[p] \in RequestType /\ pr[p].pc = "unused" /\ SessionKept(pr[p])
  BY AskAt, Steps DEF endUnusedSession
<1>2. TypeOK
  BY DEF IInv
<1>3. UNCHANGED <<job, now, rec, turn, index, jar, reports, acted, minted>> /\ Ends(p)
  BY DEF endUnusedSession, redis
<1>4. s \in Sids \cup {None} /\ (s # None => Made(s) /\ s \in Sids)
  BY <1>1 DEF SessionKept, RequestType
<1>5. Only(p) /\ pr'[p] = Idle
  BY <1>2, <1>3, EndsDoes
<1>6. \/ s = None /\ UNCHANGED <<faults, marks, sess>>
      \/ s # None /\ Fault("session") /\ Marked({<<"end", s>>}) /\ UNCHANGED sess
      \/ s # None /\ UNCHANGED <<faults, marks>> /\ EndSession(s)
  BY DEF endUnusedSession
<1>7. Notes({"end"}) /\ faults' \in Nat
  BY <1>2, <1>6, FaultTyped DEF Notes, Marked, TypeOK
<1>8. CASE UNCHANGED sess /\ (s # None => <<"end", s>> \in marks')
  BY <1>1, <1>2, <1>3, <1>5, <1>7, <1>8, TypeQuiet DEF Only
<1>9. CASE s # None /\ EndSession(s)
  <2>1. /\ sess' \in [Sids -> SessionType \cup {None}] /\ \A t \in Sids : sess'[t] # None => t <= minted'.sids
        /\ Ended(s)
    BY <1>2, <1>3, <1>4, <1>9, EndTyped, Constants DEF Ended
  <2>2. TypeOK' /\ Quiet
    BY <1>2, <1>3, <1>5, <1>7, <2>1 DEF TypeOK, Quiet, Only
  <2> QED BY <1>1, <1>3, <1>4, <1>5, <1>7, <1>9, <2>1, <2>2
<1> QED BY <1>6, <1>8, <1>9 DEF Marked

\* The switch looks up whom the screen shows.
ShownDoes(p) ==
  LET q == pr[p]
      r == pr'[p]
      x == pr[p].taken
  IN  \/ r.pc = "cleanup" /\ SameAll(q, r)
      \/ r.pc = "delete" /\ SameAll(q, r) /\ ~Shows(x)
      \/ /\ r.pc = "ending" /\ Same(q, r) /\ SameTurn(q, r) /\ SameAnswer(q, r) /\ r.late = q.late
         /\ r.who = shownUser(x) /\ r.todo = switchedSids(x) /\ r.clear = q.clear

LEMMA ShownStep ==
  ASSUME IInv, NEW p \in Procs, switchedUserOf(p)
  PROVE  /\ TypeOK' /\ Only(p) /\ Quiet
         /\ UNCHANGED <<job, now, sess, jar, marks, minted>>
         /\ pr[p] \in RequestType /\ pr[p].kind = "switch" /\ pr[p].pc = "shown" /\ pr[p].taken \in RecordType
         /\ ShownDoes(p)
<1> DEFINE x == pr[p].taken
           shows == ~x.chooser /\ shownUser(x) # None /\ switchedSids(x) # {}
<1>1. pr[p] \in RequestType /\ pr[p].kind = "switch" /\ pr[p].pc = "shown"
  BY AskAt, Steps DEF switchedUserOf
<1>2. TypeOK
  BY DEF IInv
<1>3. UNCHANGED <<job, now, rec, turn, index, sess, jar, reports, acted, marks, minted>>
  BY DEF switchedUserOf, redis
<1>4. faults' \in Nat
  BY <1>2, FaultTyped DEF switchedUserOf, TypeOK
<1>5. x \in RecordType
  BY <1>1, TakenRecord DEF requests, Untaken
<1>6. switchedSids(x) \subseteq Sids /\ shownUser(x) \in Users \cup {None}
  BY <1>5, SwitchedSids
<1>7. switchedSids(x) # {} => shownUser(x) # None
  BY <1>5, Constants DEF switchedSids, shownUser, RecordType, CarriedType
<1>8. CASE Goes(p, "cleanup") \/ (Goes(p, "delete") /\ ~shows)
  <2>1. PICK pc \in {"cleanup", "delete"} : Goes(p, pc) /\ (pc = "delete" => ~shows)
    BY <1>8
  <2>2. Only(p) /\ SameAll(pr[p], pr'[p]) /\ pr'[p].pc = pc
    BY <1>1, <1>2, <2>1, GoesDoes DEF RequestSteps
  <2>3. TypeOK' /\ Quiet
    BY <1>2, <1>3, <1>4, <2>2, TypeQuiet DEF Only
  <2>4. pc = "cleanup" \/ (pc = "delete" /\ ~Shows(x))
    BY <1>7, <2>1 DEF Shows
  <2> QED BY <1>1, <1>3, <1>5, <2>2, <2>3, <2>4 DEF ShownDoes
<1>9. CASE pr' = [pr EXCEPT ![p].pc = "ending", ![p].who = shownUser(x), ![p].todo = switchedSids(x)]
  <2> DEFINE u == shownUser(x)
             S == switchedSids(x)
             r == AsEnding(pr[p], u, S)
  <2>1. /\ Same(pr[p], r) /\ SameTurn(pr[p], r) /\ SameAnswer(pr[p], r)
        /\ r.pc = "ending" /\ r.who = u /\ r.todo = S /\ r.late = pr[p].late /\ r.clear = pr[p].clear
    <3>1. u \in Users \cup {None} /\ S \in SUBSET Sids
      BY <1>6
    <3> HIDE DEF u, S
    <3> QED BY <1>1, <3>1, SwitchBegun
  <2>2. r \in ProcessType
    BY <2>1 DEF Same, ProcessType
  <2>3. pr' = [pr EXCEPT ![p] = r]
    BY <1>9 DEF AsEnding
  <2> HIDE DEF r
  <2>4. Only(p) /\ pr'[p] = r
    BY <1>2, <2>2, <2>3, OneMoves
  <2>5. TypeOK' /\ Quiet
    BY <1>2, <1>3, <1>4, <2>4, TypeQuiet DEF Only
  <2> QED BY <1>1, <1>3, <1>5, <2>1, <2>4, <2>5 DEF ShownDoes
<1> QED BY <1>8, <1>9 DEF switchedUserOf

\* Sessions end one at a time; the switch then asks about the cookie's, or goes on.
SwitchDoes(p) ==
  LET q == pr[p]
      r == pr'[p]
  IN  /\ Same(q, r) /\ SameTurn(q, r) /\ SameAnswer(q, r)
      /\ r.late = q.late /\ r.unread = q.unread /\ r.clear = q.clear /\ r.who = q.who
      /\ \/ r.pc = "cleanup" /\ UNCHANGED sess
         \/ \E s \in q.todo : s \in Sids /\ Ended(s) /\ r.pc = "ending" /\ r.todo = q.todo \ {s}
         \/ UNCHANGED sess /\ r.pc = "cookie" /\ ~q.clear /\ \A s \in switchedSids(q.taken) : Over(s)
         \/ UNCHANGED sess /\ r.pc = "delete" /\ SwitchedOff(q)

LEMMA SwitchStep ==
  ASSUME IInv, NEW p \in Procs, endSwitchedSessions(p)
  PROVE  /\ TypeOK' /\ Only(p) /\ Quiet
         /\ UNCHANGED <<job, now, jar, marks, minted>>
         /\ pr[p] \in RequestType /\ pr[p].kind = "switch" /\ pr[p].pc = "ending" /\ pr[p].taken \in RecordType
         /\ SwitchDoes(p)
<1> DEFINE x == pr[p].taken
<1>1. /\ pr[p] \in RequestType /\ pr[p].kind = "switch" /\ pr[p].pc = "ending"
      /\ SessionKept(pr[p])
  <2>1. At(p, {"switch"}, "ending")
    BY DEF endSwitchedSessions
  <2> QED BY <2>1, AskAt, Steps
<1>2. TypeOK
  BY DEF IInv
<1>3. UNCHANGED <<job, now, rec, turn, index, jar, reports, acted, marks, minted>>
  BY DEF endSwitchedSessions, redis
<1>4. faults' \in Nat
  BY <1>2, FaultTyped DEF endSwitchedSessions, TypeOK
<1>5. x = pr[p].bound /\ x \in RecordType
  BY <1>1, TakenRecord DEF requests, Untaken
<1>6. /\ pr[p].todo \in SUBSET Sids /\ \A s \in pr[p].todo : Made(s)
      /\ \A s \in switchedSids(x) \ pr[p].todo : Over(s)
      /\ pr[p].clear => pr[p].jar.sid # None /\ (pr[p].jar.sid \in pr[p].todo \/ Over(pr[p].jar.sid))
  BY <1>1 DEF SessionKept, RequestType
<1>7. ASSUME NEW pc \in {"cleanup", "delete", "cookie"}, Goes(p, pc), UNCHANGED sess
      PROVE  /\ TypeOK' /\ Only(p) /\ Quiet /\ SameAll(pr[p], pr'[p]) /\ pr'[p].pc = pc
  <2>1. Only(p) /\ SameAll(pr[p], pr'[p]) /\ pr'[p].pc = pc
    BY <1>1, <1>2, <1>7, GoesDoes DEF RequestSteps
  <2> QED BY <1>2, <1>3, <1>4, <1>7, <2>1, TypeQuiet DEF Only
<1>8. ASSUME NEW s \in pr[p].todo, EndSession(s), pr' = [pr EXCEPT ![p].todo = @ \ {s}]
      PROVE  TypeOK' /\ Only(p) /\ Quiet /\ SwitchDoes(p)
  <2> DEFINE r == [pr[p] EXCEPT !.todo = @ \ {s}]
  <2>1. /\ Same(pr[p], r) /\ SameTurn(pr[p], r) /\ SameAnswer(pr[p], r)
        /\ r.pc = pr[p].pc /\ r.who = pr[p].who /\ r.todo = pr[p].todo \ {s} /\ r.late = pr[p].late
        /\ r.clear = pr[p].clear /\ r.unread = pr[p].unread
    BY <1>1, SwitchGoesOn
  <2>2. r \in ProcessType /\ pr' = [pr EXCEPT ![p] = r]
    BY <1>8, <2>1 DEF Same, ProcessType
  <2> HIDE DEF r
  <2>3. Only(p) /\ pr'[p] = r
    BY <1>2, <2>2, OneMoves
  <2>4. s \in Sids /\ Made(s)
    BY <1>6
  <2>5. /\ sess' \in [Sids -> SessionType \cup {None}] /\ \A t \in Sids : sess'[t] # None => t <= minted'.sids
        /\ Ended(s)
    BY <1>2, <1>3, <1>8, <2>4, EndTyped, Constants DEF Ended
  <2>6. TypeOK' /\ Quiet
    BY <1>2, <1>3, <1>4, <2>3, <2>5 DEF TypeOK, Quiet, Only
  <2> QED BY <1>1, <2>1, <2>3, <2>4, <2>5, <2>6 DEF SwitchDoes
<1>9. ASSUME pr[p].todo = {}
      PROVE  /\ \A s \in switchedSids(x) : Over(s)
             /\ pr[p].clear => SwitchedOff(pr[p])
  BY <1>6, <1>9 DEF SwitchedOff, Over, Made, LiveFor
<1>10. \/ Goes(p, "cleanup") /\ UNCHANGED sess
       \/ \E s \in pr[p].todo : EndSession(s) /\ pr' = [pr EXCEPT ![p].todo = @ \ {s}]
       \/ pr[p].todo = {} /\ UNCHANGED sess /\ pr[p].clear /\ Goes(p, "delete")
       \/ pr[p].todo = {} /\ UNCHANGED sess /\ ~pr[p].clear /\ Goes(p, "cookie")
  BY DEF endSwitchedSessions
<1>11. ASSUME NEW pc \in {"cleanup", "delete", "cookie"}, Goes(p, pc), UNCHANGED sess,
              pc # "cleanup" => pr[p].todo = {} /\ (pr[p].clear <=> pc = "delete")
       PROVE  TypeOK' /\ Only(p) /\ Quiet /\ SwitchDoes(p)
  BY <1>7, <1>9, <1>11 DEF SwitchDoes, SameAll, SameSwitch
<1> QED BY <1>1, <1>3, <1>5, <1>8, <1>10, <1>11

\* The cookie cannot be read, names a session that is over or of another
\* account, or one that is to end too.
CookieDoes(p) ==
  LET q == pr[p]
      r == pr'[p]
      named == pr[p].jar.sid
  IN  /\ Same(q, r) /\ SameTurn(q, r) /\ SameAnswer(q, r) /\ r.late = q.late
      /\ \/ r.pc = "delete" /\ SwitchedOff(r)
         \/ r.pc = "ending" /\ r.who = q.who /\ r.todo = {named} /\ r.clear /\ named # None

LEMMA CookieStep ==
  ASSUME IInv, NEW p \in Procs, switchCookieSessionId(p)
  PROVE  /\ TypeOK' /\ Only(p) /\ Quiet
         /\ UNCHANGED <<job, now, sess, jar, marks, minted>>
         /\ pr[p] \in RequestType /\ pr[p].kind = "switch" /\ pr[p].pc = "cookie" /\ pr[p].taken \in RecordType
         /\ CookieDoes(p)
<1> DEFINE x == pr[p].taken
           named == pr[p].jar.sid
           mine == named \in switchedSids(x)
<1>1. /\ pr[p] \in RequestType /\ pr[p].kind = "switch" /\ pr[p].pc = "cookie"
      /\ SessionKept(pr[p])
  <2>1. At(p, {"switch"}, "cookie")
    BY DEF switchCookieSessionId
  <2> QED BY <2>1, AskAt, Steps
<1>2. TypeOK
  BY DEF IInv
<1>3. UNCHANGED <<job, now, rec, turn, index, sess, jar, reports, acted, marks, minted>>
  BY DEF switchCookieSessionId, redis
<1>4. faults' \in Nat
  BY <1>2, FaultTyped DEF switchCookieSessionId, Served, TypeOK
<1>5. x = pr[p].bound /\ x \in RecordType /\ pr[p].who = shownUser(x)
  BY <1>1, TakenRecord DEF requests, Untaken, SessionKept
<1>6. /\ named \in Sids \cup {None} /\ \A s \in switchedSids(x) : Over(s)
      /\ named # None => Made(named)
  BY <1>1 DEF SessionKept, RequestType, JarType
<1>7. ASSUME NEW r, Same(pr[p], r), SameTurn(pr[p], r), SameAnswer(pr[p], r), r.late = pr[p].late,
             pr' = [pr EXCEPT ![p] = r],
             \/ r.pc = "delete" /\ SwitchedOff(r)
             \/ r.pc = "ending" /\ r.who = pr[p].who /\ r.todo = {named} /\ r.clear /\ named # None
      PROVE  TypeOK' /\ Only(p) /\ Quiet /\ CookieDoes(p)
  <2>1. r \in ProcessType
    BY <1>7 DEF Same, ProcessType
  <2>2. Only(p) /\ pr'[p] = r
    BY <1>2, <1>7, <2>1, OneMoves
  <2>3. TypeOK' /\ Quiet
    BY <1>2, <1>3, <1>4, <2>2, TypeQuiet DEF Only
  <2> QED BY <1>7, <2>2, <2>3 DEF CookieDoes
<1>8. ASSUME NEW r, r.taken = x, r.jar = pr[p].jar,
             r.unread \/ named = None \/ mine \/ ~LiveFor(named, pr[p].who)
      PROVE  SwitchedOff(r)
  BY <1>5, <1>6, <1>8 DEF SwitchedOff, Over, Made, LiveFor
<1>9. CASE pr' = [pr EXCEPT ![p].pc = "delete", ![p].unread = TRUE]
  <2> DEFINE r == AsUnread(pr[p])
  <2>1. /\ Same(pr[p], r) /\ SameTurn(pr[p], r) /\ SameAnswer(pr[p], r)
        /\ r.pc = "delete" /\ r.late = pr[p].late /\ r.unread
    BY <1>1, CookieUnread
  <2>2. pr' = [pr EXCEPT ![p] = r]
    BY <1>9 DEF AsUnread
  <2> HIDE DEF r
  <2>3. SwitchedOff(r)
    BY <1>8, <2>1 DEF Same, SameTurn
  <2> QED BY <1>1, <1>3, <1>5, <1>7, <2>1, <2>2, <2>3
<1>10. CASE (named = None \/ mine) /\ pr' = [pr EXCEPT ![p].pc = "delete", ![p].clear = mine]
  <2> DEFINE r == AsCleared(pr[p], mine)
  <2>1. /\ Same(pr[p], r) /\ SameTurn(pr[p], r) /\ SameAnswer(pr[p], r)
        /\ r.pc = "delete" /\ r.late = pr[p].late /\ r.unread = pr[p].unread
    <3>1. mine \in BOOLEAN
      OBVIOUS
    <3> HIDE DEF mine
    <3> QED BY <1>1, <3>1, CookieCleared
  <2>2. pr' = [pr EXCEPT ![p] = r]
    BY <1>10 DEF AsCleared
  <2> HIDE DEF r
  <2>3. SwitchedOff(r)
    BY <1>8, <1>10, <2>1 DEF Same, SameTurn
  <2> QED BY <1>1, <1>3, <1>5, <1>7, <2>1, <2>2, <2>3
<1>11. CASE Goes(p, "delete") /\ ~LiveFor(named, pr[p].who)
  <2>1. Only(p) /\ SameAll(pr[p], pr'[p]) /\ pr'[p].pc = "delete"
    BY <1>1, <1>2, <1>11, GoesDoes DEF RequestSteps
  <2>2. TypeOK' /\ Quiet
    BY <1>2, <1>3, <1>4, <2>1, TypeQuiet DEF Only
  <2>3. SwitchedOff(pr'[p])
    BY <1>8, <1>11, <2>1 DEF SameAll, Same, SameTurn
  <2> QED BY <1>1, <1>3, <1>5, <2>1, <2>2, <2>3 DEF CookieDoes, SameAll
<1>12. CASE /\ named # None
            /\ pr' = [pr EXCEPT ![p].pc = "ending", ![p].clear = TRUE, ![p].todo = {named}]
  <2> DEFINE S == {named}
             r == AsNamed(pr[p], S)
  <2>1. /\ Same(pr[p], r) /\ SameTurn(pr[p], r) /\ SameAnswer(pr[p], r)
        /\ r.pc = "ending" /\ r.who = pr[p].who /\ r.todo = S /\ r.clear /\ r.late = pr[p].late
    <3>1. S \in SUBSET Sids
      BY <1>6, <1>12
    <3> HIDE DEF S
    <3> QED BY <1>1, <3>1, CookieNamed
  <2>2. pr' = [pr EXCEPT ![p] = r]
    BY <1>12 DEF AsNamed
  <2> HIDE DEF r
  <2> QED BY <1>1, <1>3, <1>5, <1>7, <1>12, <2>1, <2>2
<1> HIDE DEF named, mine
<1>13. \/ pr' = [pr EXCEPT ![p].pc = "delete", ![p].unread = TRUE]
       \/ (named = None \/ mine) /\ pr' = [pr EXCEPT ![p].pc = "delete", ![p].clear = mine]
       \/ named # None /\ pr' = [pr EXCEPT ![p].pc = "ending", ![p].clear = TRUE, ![p].todo = {named}]
       \/ Goes(p, "delete") /\ ~LiveFor(named, pr[p].who)
  BY DEF switchCookieSessionId, named, mine
<1> QED BY <1>9, <1>10, <1>11, <1>12, <1>13

\* The sweep lists what is due.
LEMMA SweepStep ==
  ASSUME IInv, NEW p \in Procs, expiredInteractionEntries(p)
  PROVE  LET r == pr'[p]
         IN  /\ TypeOK' /\ Only(p) /\ Quiet /\ pr[p] = Idle
             /\ UNCHANGED <<job, now, sess, jar, marks, minted>>
             /\ r \in SweepType /\ r.pc = "claim" /\ r.taken = None
             /\ \A e \in r.todo : e.id \in Ids /\ index[e.id] # None
<1> DEFINE due == {i \in Ids : index[i] # None /\ index[i] <= now}
           todo == {[id |-> i, at |-> index[i]] : i \in due}
           r == [kind |-> "sweep", pc |-> "claim", session |-> None, taken |-> None,
                 entry |-> None, todo |-> todo]
<1>1. TypeOK
  BY DEF IInv
<1>2. /\ pr[p] = Idle /\ pr' = [pr EXCEPT ![p] = r]
      /\ UNCHANGED <<job, now, rec, turn, index, sess, jar, reports, acted, marks, minted, faults>>
  BY DEF expiredInteractionEntries, redis
<1>3. todo \in SUBSET EntryType /\ \A e \in todo : e.id \in Ids /\ index[e.id] # None
  BY <1>1 DEF TypeOK, EntryType
<1> HIDE DEF todo
<1>4. r \in SweepType /\ r.pc = "claim" /\ r.taken = None /\ r.todo = todo
  BY <1>3 DEF SweepType
<1>5. r \in ProcessType
  BY <1>4 DEF ProcessType
<1> HIDE DEF r
<1>6. Only(p) /\ pr'[p] = r
  BY <1>1, <1>2, <1>5, OneMoves
<1>7. faults' \in Nat
  BY <1>1, <1>2 DEF TypeOK
<1>8. TypeOK' /\ Quiet
  BY <1>1, <1>2, <1>6, <1>7, TypeQuiet DEF Only
<1> QED BY <1>2, <1>3, <1>4, <1>6, <1>8

LEMMA SweepAt ==
  ASSUME IInv, NEW p \in Procs, NEW pc, At(p, {"sweep"}, pc)
  PROVE  /\ pr[p] \in SweepType /\ pr[p] # Idle /\ pr[p].kind = "sweep" /\ pr[p].pc = pc /\ SweepKept(pr[p])
         /\ \A e \in pr[p].todo : e \in EntryType /\ e.id \in Ids
         /\ pr[p].entry # None => pr[p].entry.id \in Ids /\ pr[p].entry.at \in Nat
<1>1. pr[p].kind = "sweep" /\ pr[p].pc = pc
  BY DEF At
<1>2. pr[p] \in SweepType /\ SweepKept(pr[p])
  BY <1>1, Kinds DEF IInv, Turns, ProcKept
<1>3. pr[p] # Idle
  BY <1>1 DEF Idle
<1> QED BY <1>1, <1>2, <1>3 DEF SweepType, EntryType

\* A claim that failed, or one that took the member, or one that came late.
ClaimDoes(p) ==
  LET q == pr[p]
      r == pr'[p]
  IN  \/ r = Idle /\ UNCHANGED <<rec, turn, index>>
      \/ \E e \in q.todo :
           /\ Gone(e.id) /\ e \in EntryType
           /\ \/ r = Idle
              \/ r \in SweepType /\ r.pc = "claim" /\ r.todo = q.todo \ {e} /\ r.taken = q.taken
              \/ /\ r \in SweepType /\ r.pc = "emit" /\ r.todo = q.todo \ {e}
                 /\ r.entry = e /\ r.taken = rec[e.id] /\ index[e.id] # None
                 /\ rec[e.id] = None \/ Expired(rec[e.id]) \/ <<"early", e.id>> \in marks'

LEMMA ClaimStep ==
  ASSUME IInv, NEW p \in Procs, claimExpiredInteraction(p)
  PROVE  /\ TypeOK' /\ Only(p) /\ Notes({"report", "early"})
         /\ UNCHANGED <<job, now, sess, jar, reports, acted, minted>>
         /\ pr[p] \in SweepType /\ pr[p].pc = "claim"
         /\ ClaimDoes(p)
<1> DEFINE q == pr[p]
<1>1. pr[p] \in SweepType /\ pr[p].pc = "claim" /\ \A e \in pr[p].todo : e \in EntryType /\ e.id \in Ids
  <2>1. At(p, {"sweep"}, "claim")
    BY DEF claimExpiredInteraction
  <2> QED BY <2>1, SweepAt
<1>2. TypeOK
  BY DEF IInv
<1>3. UNCHANGED <<job, now, sess, jar, reports, acted, minted>>
  BY DEF claimExpiredInteraction
<1>4. PICK e \in pr[p].todo, how \in Redis :
       LET owned == ownsEnd(e.id)
           early == rec[e.id] # None /\ ~Expired(rec[e.id])
           kept == [pr[p] EXCEPT !.todo = @ \ {e}]
       IN  /\ Outcome(how)
           /\ IF how = "fail" THEN UNCHANGED redis ELSE deleteInteraction(e.id)
           /\ CASE how # "ok" -> Ends(p)
                [] how = "ok" /\ owned ->
                     pr' = [pr EXCEPT ![p] = [kept EXCEPT !.pc = "emit", !.entry = e,
                                                          !.taken = rec[e.id]]]
                [] OTHER -> pr' = [pr EXCEPT ![p] = IF kept.todo = {} THEN Idle ELSE kept]
           /\ Marked(When(how = "lost" /\ owned, <<"report", e.id>>)
                       \cup When(how # "fail" /\ owned /\ early, <<"early", e.id>>))
  BY DEF claimExpiredInteraction
<1> DEFINE i == e.id
           owned == ownsEnd(i)
           early == rec[i] # None /\ ~Expired(rec[i])
           kept == [pr[p] EXCEPT !.todo = @ \ {e}]
           took == [kept EXCEPT !.pc = "emit", !.entry = e, !.taken = rec[i]]
<1>5. /\ Outcome(how)
      /\ how = "fail" => UNCHANGED <<rec, turn, index>>
      /\ how # "fail" => Gone(i)
      /\ Marked(When(how = "lost" /\ owned, <<"report", i>>) \cup When(how # "fail" /\ owned /\ early, <<"early", i>>))
  BY <1>4 DEF redis, deleteInteraction, Gone
<1>6. /\ how # "ok" => Ends(p)
      /\ how = "ok" /\ owned => pr' = [pr EXCEPT ![p] = took]
      /\ how = "ok" /\ ~owned => pr' = [pr EXCEPT ![p] = kept] \/ Ends(p)
  BY <1>4 DEF Ends
<1>7. e \in EntryType /\ i \in Ids /\ rec[i] \in RecordType \cup {None}
  BY <1>1, <1>2 DEF TypeOK
<1>8. kept \in SweepType /\ kept.pc = "claim" /\ kept.todo = pr[p].todo \ {e} /\ kept.taken = pr[p].taken
  <2>1. kept.pc = pr[p].pc /\ kept.todo = pr[p].todo \ {e} /\ kept.taken = pr[p].taken
    BY <1>1 DEF SweepType
  <2>2. kept \in SweepType
    BY <1>1 DEF SweepType
  <2> HIDE DEF kept
  <2> QED BY <1>1, <2>1, <2>2
<1>9. took \in SweepType /\ took.pc = "emit" /\ took.todo = pr[p].todo \ {e} /\ took.entry = e /\ took.taken = rec[i]
  <2> DEFINE x == rec[i]
  <2> HIDE DEF kept, i, x
  <2>1. took.pc = "emit" /\ took.todo = kept.todo /\ took.entry = e /\ took.taken = x
    BY <1>8 DEF SweepType, x
  <2>2. took \in SweepType
    <3>1. x \in RecordType \cup {None}
      BY <1>7 DEF x
    <3> QED BY <1>7, <1>8, <3>1 DEF SweepType, x
  <2> HIDE DEF took
  <2> QED BY <1>8, <2>1, <2>2 DEF x
<1> HIDE DEF kept, took
<1>10. Idle \in ProcessType /\ kept \in ProcessType /\ took \in ProcessType
  BY <1>8, <1>9 DEF ProcessType
<1>11. Only(p) /\ pr'[p] \in {Idle, kept, took}
       /\ (how # "ok" => pr'[p] = Idle) /\ (pr'[p] = took => how = "ok" /\ owned)
  <2>1. took # kept /\ took # Idle
    BY <1>8, <1>9 DEF Idle
  <2>2. CASE how # "ok" \/ Ends(p)
    BY <1>2, <1>6, <2>1, <2>2, EndsDoes
  <2>3. CASE how = "ok" /\ pr' = [pr EXCEPT ![p] = took] /\ owned
    BY <1>2, <1>10, <2>3, OneMoves
  <2>4. CASE how = "ok" /\ pr' = [pr EXCEPT ![p] = kept]
    BY <1>2, <1>10, <2>1, <2>4, OneMoves
  <2> HIDE DEF owned
  <2> QED BY <1>6, <2>2, <2>3, <2>4
<1>12. Notes({"report", "early"}) /\ (how = "ok" /\ owned /\ early => <<"early", i>> \in marks')
  <2> HIDE DEF owned, early
  <2> QED BY <1>5 DEF Notes, Marked, When
<1>13. /\ rec' \in [Ids -> RecordType \cup {None}] /\ turn' \in [Ids -> Nat \cup {None}]
       /\ index' \in [Ids -> Nat \cup {None}]
       /\ \A j \in Ids : rec'[j] = None \/ rec'[j] = rec[j]
  <2>1. how = "fail" \/ Gone(i)
    BY <1>5
  <2> HIDE DEF i
  <2> QED BY <1>2, <1>5, <1>7, <2>1 DEF TypeOK, Gone
<1>14. TypeOK'
  BY <1>2, <1>3, <1>5, <1>11, <1>13, FaultTyped DEF TypeOK, Only
<1>15. ClaimDoes(p)
  <2>1. CASE how = "fail"
    BY <1>5, <1>11, <2>1 DEF ClaimDoes
  <2>2. CASE how # "fail" /\ pr'[p] = Idle
    BY <1>5, <1>7, <2>2 DEF ClaimDoes
  <2>3. CASE how # "fail" /\ pr'[p] = kept
    BY <1>5, <1>7, <1>8, <2>3 DEF ClaimDoes
  <2>4. CASE how # "fail" /\ pr'[p] = took
    <3>1. index[i] # None /\ (rec[i] = None \/ Expired(rec[i]) \/ <<"early", i>> \in marks')
      BY <1>11, <1>12, <2>4 DEF ownsEnd
    <3> QED BY <1>5, <1>7, <1>9, <2>4, <3>1 DEF ClaimDoes
  <2> QED BY <1>11, <2>1, <2>2, <2>3, <2>4
<1> QED BY <1>1, <1>3, <1>11, <1>12, <1>14, <1>15

\* The event of an expiry is written, dropped, or to be listed again.
EmitDoes(p) ==
  LET q == pr[p]
      r == pr'[p]
  IN  \/ /\ r = Idle \/ (r \in SweepType /\ r.pc = "claim" /\ r.todo = q.todo /\ r.taken = q.taken)
         /\ UNCHANGED reports \/ reports' = [reports EXCEPT ![q.entry.id] = Append(@, "expired")]
      \/ /\ r \in SweepType /\ r.pc = "relist" /\ r.todo = q.todo /\ r.taken = q.taken /\ r.entry = q.entry
         /\ \/ UNCHANGED reports
            \/ /\ reports' = [reports EXCEPT ![q.entry.id] = Append(@, "expired")]
               /\ <<"unheard", q.entry.id>> \in marks'

LEMMA EmitStep ==
  ASSUME IInv, NEW p \in Procs, emitExpired(p)
  PROVE  /\ TypeOK' /\ Only(p) /\ Notes({"report", "unheard"})
         /\ UNCHANGED <<job, now, rec, turn, index, sess, jar, acted, minted>>
         /\ pr[p] \in SweepType /\ pr[p].pc = "emit" /\ pr[p].entry # None /\ pr[p].entry.id \in Ids
         /\ EmitDoes(p)
<1> DEFINE i == pr[p].entry.id
<1>1. pr[p] \in SweepType /\ pr[p].pc = "emit" /\ pr[p].entry # None /\ i \in Ids
  <2>1. At(p, {"sweep"}, "emit")
    BY DEF emitExpired
  <2> QED BY <2>1, SweepAt DEF SweepKept
<1>2. TypeOK
  BY DEF IInv
<1>3. UNCHANGED <<job, now, rec, turn, index, sess, jar, acted, minted>>
  BY DEF emitExpired, redis
<1>4. /\ \/ Ends(p) \/ Goes(p, "claim")
         \/ Goes(p, "relist") /\ (UNCHANGED reports \/ Marked({<<"unheard", i>>}))
      /\ UNCHANGED reports \/ Report(i, "expired")
      /\ UNCHANGED marks \/ Marked({<<"report", i>>}) \/ Marked({<<"unheard", i>>})
  BY DEF emitExpired
<1>5. faults' \in Nat
  BY <1>2, FaultTyped DEF emitExpired, TypeOK
<1>6. Notes({"report", "unheard"})
  BY <1>4 DEF Notes, Marked
<1>7. reports' \in [Ids -> Seq({"finished", "cancelled", "expired"})]
  <2>1. reports \in [Ids -> Seq({"finished", "cancelled", "expired"})]
    BY <1>2 DEF TypeOK
  <2>2. Append(reports[i], "expired") \in Seq({"finished", "cancelled", "expired"})
    <3>1. reports[i] \in Seq({"finished", "cancelled", "expired"})
      BY <1>1, <2>1
    <3> QED BY <3>1
  <2> QED BY <1>1, <1>4, <2>1, <2>2 DEF Report
<1>8. ASSUME NEW pc \in {"claim", "relist"}, Goes(p, pc)
      PROVE  /\ Only(p) /\ pr'[p] \in SweepType /\ pr'[p].pc = pc /\ pr'[p].todo = pr[p].todo
             /\ pr'[p].taken = pr[p].taken /\ pr'[p].entry = pr[p].entry
  <2> DEFINE r == [pr[p] EXCEPT !.pc = pc]
  <2>1. r \in SweepType /\ r.pc = pc /\ r.todo = pr[p].todo /\ r.taken = pr[p].taken /\ r.entry = pr[p].entry
    BY <1>1 DEF SweepType
  <2>2. r \in ProcessType /\ pr' = [pr EXCEPT ![p] = r]
    BY <1>8, <2>1 DEF Goes, ProcessType
  <2> HIDE DEF r
  <2> QED BY <1>2, <2>1, <2>2, OneMoves
<1>9. Only(p) /\ EmitDoes(p)
  <2>1. UNCHANGED reports \/ reports' = [reports EXCEPT ![i] = Append(@, "expired")]
    BY <1>4 DEF Report
  <2>2. CASE Ends(p)
    <3>1. Only(p) /\ pr'[p] = Idle
      BY <1>2, <2>2, EndsDoes
    <3> QED BY <2>1, <3>1 DEF EmitDoes
  <2>3. CASE Goes(p, "claim")
    BY <1>8, <2>1, <2>3 DEF EmitDoes
  <2>4. CASE Goes(p, "relist") /\ (UNCHANGED reports \/ Marked({<<"unheard", i>>}))
    <3>1. UNCHANGED reports \/ <<"unheard", i>> \in marks'
      BY <2>4 DEF Marked
    <3>2. /\ Only(p) /\ pr'[p] \in SweepType /\ pr'[p].pc = "relist" /\ pr'[p].todo = pr[p].todo
          /\ pr'[p].taken = pr[p].taken /\ pr'[p].entry = pr[p].entry
      BY <1>8, <2>4
    <3> QED BY <2>1, <3>1, <3>2 DEF EmitDoes
  <2> QED BY <1>4, <2>2, <2>3, <2>4
<1>10. TypeOK'
  BY <1>2, <1>3, <1>5, <1>7, <1>9 DEF TypeOK, Only
<1> QED BY <1>1, <1>3, <1>6, <1>9, <1>10

\* An expiry whose event could not be written is listed again.
RelistStepDoes(p) ==
  LET e == pr[p].entry
      i == pr[p].entry.id
  IN  \/ UNCHANGED <<rec, index>>
      \/ /\ index' = [index EXCEPT ![i] = e.at]
         /\ rec' = [rec EXCEPT ![i] = IF @ = None THEN pr[p].taken ELSE @]

LEMMA RelistStep ==
  ASSUME IInv, NEW p \in Procs, relistExpiredInteraction(p)
  PROVE  /\ TypeOK' /\ Only(p) /\ Notes({"report"}) /\ pr'[p] = Idle
         /\ UNCHANGED <<job, now, turn, sess, jar, reports, acted, minted>>
         /\ pr[p] \in SweepType /\ pr[p].pc = "relist" /\ pr[p].entry # None /\ pr[p].entry.id \in Ids
         /\ pr[p].entry.at \in Nat
         /\ RelistStepDoes(p)
<1> DEFINE e == pr[p].entry
           i == pr[p].entry.id
<1>1. /\ pr[p] \in SweepType /\ pr[p].pc = "relist" /\ e # None /\ i \in Ids /\ e.at \in Nat
      /\ i <= minted.ids /\ SweepKept(pr[p])
  <2>1. At(p, {"sweep"}, "relist")
    BY DEF relistExpiredInteraction
  <2> QED BY <2>1, SweepAt DEF SweepKept
<1>2. TypeOK
  BY DEF IInv
<1>3. UNCHANGED <<job, now, turn, sess, jar, reports, acted, minted>> /\ Ends(p)
  BY DEF relistExpiredInteraction
<1>4. PICK how \in Redis :
        /\ Outcome(how)
        /\ IF how = "fail" THEN UNCHANGED <<rec, index>> /\ Marked({<<"report", e.id>>})
           ELSE /\ index' = [index EXCEPT ![i] = e.at]
                /\ rec' = [rec EXCEPT ![i] = IF @ = None THEN pr[p].taken ELSE @]
                /\ UNCHANGED marks
  BY DEF relistExpiredInteraction
<1>5. Only(p) /\ pr'[p] = Idle
  BY <1>2, <1>3, EndsDoes
<1>6. Notes({"report"})
  BY <1>4 DEF Notes, Marked
<1>7. RelistStepDoes(p)
  BY <1>4 DEF RelistStepDoes
<1>8. pr[p].taken \in RecordType \cup {None}
  BY <1>1 DEF SweepType
<1>9. /\ rec' \in [Ids -> RecordType \cup {None}] /\ index' \in [Ids -> Nat \cup {None}]
      /\ \A j \in Ids : rec'[j] = rec[j] \/ (j = i /\ rec'[j] = pr[p].taken)
  <2> DEFINE x == pr[p].taken
             at == e.at
  <2> HIDE DEF x, at
  <2>1. UNCHANGED <<rec, index>> \/ (/\ index' = [index EXCEPT ![i] = at]
                                     /\ rec' = [rec EXCEPT ![i] = IF @ = None THEN x ELSE @])
    BY <1>4 DEF x, at
  <2> HIDE DEF i
  <2>2. i \in Ids /\ at \in Nat /\ x \in RecordType \cup {None}
    BY <1>1, <1>8 DEF i, at, x
  <2> QED BY <1>2, <2>1, <2>2 DEF TypeOK, x
<1>10. pr[p].taken # None => pr[p].taken.binding <= minted.secrets
  BY <1>1 DEF SweepKept
<1>11. \A j \in Ids : rec'[j] # None => j <= minted'.ids /\ rec'[j].binding <= minted'.secrets
  BY <1>1, <1>2, <1>3, <1>9, <1>10 DEF TypeOK
<1>12. TypeOK'
  BY <1>2, <1>3, <1>4, <1>5, <1>9, <1>11, FaultTyped DEF TypeOK, Only
<1> QED BY <1>1, <1>3, <1>5, <1>6, <1>7, <1>12

LEMMA SignOutStep ==
  ASSUME IInv, NEW s \in Sids, SignOutElsewhere(s)
  PROVE  /\ TypeOK' /\ Quiet
         /\ UNCHANGED <<job, now, jar, pr, marks, minted>>
         /\ Ended(s)
<1>1. TypeOK /\ Made(s) /\ EndSession(s)
  BY DEF IInv, SignOutElsewhere, Made
<1>2. UNCHANGED <<job, now, rec, turn, index, jar, pr, reports, acted, marks, minted, faults>>
  BY DEF SignOutElsewhere, redis
<1>3. /\ sess' \in [Sids -> SessionType \cup {None}] /\ \A t \in Sids : sess'[t] # None => t <= minted'.sids
      /\ Ended(s)
  BY <1>1, <1>2, EndTyped, Constants DEF Ended
<1> QED BY <1>1, <1>2, <1>3 DEF TypeOK, Quiet

\* What a node that dies leaves undone is noted.
LEMMA CrashStep ==
  ASSUME IInv, NEW p \in Procs, Crash(p)
  PROVE  LET q == pr[p]
         IN  /\ TypeOK' /\ Only(p) /\ Quiet /\ Notes({"turn", "report", "end"}) /\ pr'[p] = Idle
             /\ UNCHANGED <<job, now, sess, jar, minted>>
             /\ pr[p] # Idle
             /\ pr[p].kind \in requests =>
                  /\ Holds(pr[p]) => <<"turn", pr[p].id>> \in marks'
                  /\ pr[p].session # None => <<"end", pr[p].session>> \in marks'
                  /\ pr[p].pc \in {"report", "replaced"} /\ pr[p].taken.sid # None
                       => <<"end", pr[p].taken.sid>> \in marks'
<1> DEFINE q == pr[p]
           i == IF q.kind # "sweep" THEN q.id ELSE IF q.entry = None THEN None ELSE q.entry.id
           holds == q.kind # "sweep" /\ q.pc \notin {"take", "report", "replaced", "reply", "unused"}
           mute == q.pc \in {"emit", "relist"} \/ (q.pc = "report" /\ rec[i] = None)
           left == {q.session} \cup (IF q.pc \in {"report", "replaced"} THEN {q.taken.sid} ELSE {})
           ends == {<<"end", s>> : s \in left \ {None}}
<1>1. TypeOK
  BY DEF IInv
<1>2. /\ q # Idle /\ Fault("crash") /\ Ends(p)
      /\ UNCHANGED <<job, now, rec, turn, index, sess, jar, reports, acted, minted>>
      /\ Marked(When(holds, <<"turn", i>>) \cup When(mute, <<"report", i>>) \cup ends)
  BY DEF Crash, redis
<1>3. Only(p) /\ pr'[p] = Idle
  BY <1>1, <1>2, EndsDoes
<1>4. TypeOK' /\ Quiet
  BY <1>1, <1>2, <1>3, FaultTyped, TypeQuiet DEF Only
<1>5. Notes({"turn", "report", "end"})
  <2> HIDE DEF holds, mute, left, i
  <2> QED BY <1>2 DEF Notes, Marked, When
<1>6. holds => <<"turn", i>> \in marks'
  BY <1>2 DEF Marked, When
<1>7. \A s \in left \ {None} : <<"end", s>> \in marks'
  BY <1>2 DEF Marked
<1>8. ASSUME q.kind \in requests
      PROVE  /\ Holds(q) => <<"turn", q.id>> \in marks'
             /\ q.session # None => <<"end", q.session>> \in marks'
             /\ q.pc \in {"report", "replaced"} /\ q.taken.sid # None => <<"end", q.taken.sid>> \in marks'
  <2>1. q.kind # "sweep" /\ i = q.id
    BY <1>8 DEF requests
  <2>2. Holds(q) => holds
    BY <2>1 DEF Holds, Holding
  <2> QED BY <1>6, <1>7, <2>1, <2>2
<1> QED BY <1>2, <1>3, <1>4, <1>5, <1>8

\* Time passes: records and turns past their grace go, nothing else does.
LEMMA TickStep ==
  ASSUME IInv, Tick
  PROVE  /\ TypeOK' /\ now' \in Nat /\ now \in Nat /\ now <= now'
         /\ UNCHANGED <<job, index, sess, jar, pr, reports, acted, marks, minted>>
         /\ \A i \in Ids : \/ rec'[i] = rec[i] /\ turn'[i] = turn[i]
                           \/ rec'[i] = None /\ turn'[i] = None
<1>1. TypeOK
  BY DEF IInv
<1> DEFINE kept == {i \in Ids : rec[i] # None /\ redisDeadline(rec[i]) > now + 1}
<1>2. /\ now' = now + 1
      /\ rec' = [i \in Ids |-> IF i \in kept THEN rec[i] ELSE None]
      /\ turn' = [i \in Ids |-> IF i \in kept \/ rec[i] = None THEN turn[i] ELSE None]
      /\ UNCHANGED <<job, index, sess, jar, pr, reports, acted, marks, minted, faults>>
  BY DEF Tick
<1> HIDE DEF kept
<1>3. /\ rec' \in [Ids -> RecordType \cup {None}] /\ turn' \in [Ids -> Nat \cup {None}]
      /\ \A i \in Ids : \/ rec'[i] = rec[i] /\ turn'[i] = turn[i]
                        \/ rec'[i] = None /\ turn'[i] = None
  BY <1>1, <1>2 DEF TypeOK
<1>4. now \in Nat /\ now' \in Nat /\ now <= now'
  BY <1>1, <1>2 DEF TypeOK
<1>5. \A i \in Ids : rec'[i] # None => i <= minted'.ids /\ rec'[i].binding <= minted'.secrets
  BY <1>1, <1>2, <1>3 DEF TypeOK
<1>6. TypeOK'
  BY <1>1, <1>2, <1>3, <1>4, <1>5 DEF TypeOK
<1> QED BY <1>2, <1>3, <1>4, <1>6

----------------------------------------------------------------------------
(* Turns and ends: what a step may do to them *)

\* No process but p holds the turn of the state i is in; no other owns its end.
Alone(p, i) == \A q \in Procs \ {p} : ~HoldsNow(pr[q], i)
Sole(p, i) == \A q \in Procs \ {p} : ~Owns(pr[q], i)

RecSame(i) ==
  /\ rec'[i] = rec[i] /\ turn'[i] = turn[i] /\ index'[i] = index[i]
  /\ reports'[i] = reports[i] /\ acted'[i] = acted[i]
  /\ <<"completed", i>> \in marks' => <<"completed", i>> \in marks

Moves(p, i) ==
  /\ acted'[i] = acted[i] \/ (acted'[i] = acted[i] + 1 /\ Alone(p, i) /\ Sole(p, i))
  /\ turn'[i] \in {None, turn[i]} \/ acted'[i] # acted[i] \/ Alone(p, i)
  /\ index'[i] = None \/ index[i] # None \/ Sole(p, i)
  /\ reports'[i] = reports[i] \/ (Unheard(i) /\ Sole(p, i))

\* Reports: what is known of them before and after one more.
LEMMA NothingTold ==
  ASSUME NEW i, reports[i] = <<>>
  PROVE  Unheard(i) /\ Told(i) /\ ~ToldFinished(i)
BY DEF Unheard, Told, ToldFinished

LEMMA Untold ==
  ASSUME TypeOK, NEW i \in Ids, Unheard(i)
  PROVE  ~ToldFinished(i) /\ Told(i)
<1>1. Len(reports[i]) \in Nat
  BY DEF TypeOK
<1>2. Len(reports[i]) > 0 => reports[i] # <<>>
  OBVIOUS
<1> QED BY <1>1, <1>2 DEF Unheard, Told, ToldFinished

LEMMA ReportsStay ==
  ASSUME NEW i, reports'[i] = reports[i], marks \subseteq marks'
  PROVE  /\ Unheard(i) => Unheard(i)'
         /\ Told(i) => Told(i)'
         /\ ToldFinished(i) => ToldFinished(i)'
BY DEF Unheard, Told, ToldFinished

LEMMA ReportMade ==
  ASSUME TypeOK, NEW i \in Ids, Unheard(i), marks \subseteq marks',
         NEW how \in {"finished", "cancelled", "expired"},
         reports' = [reports EXCEPT ![i] = Append(@, how)]
  PROVE  /\ Told(i)'
         /\ how = "finished" => ToldFinished(i)'
         /\ how = "expired" /\ <<"unheard", i>> \in marks' => Unheard(i)'
         /\ \A j \in Ids \ {i} : reports'[j] = reports[j]
<1> DEFINE x == reports[i]
           y == Append(x, how)
<1>1. x \in Seq({"finished", "cancelled", "expired"}) /\ reports'[i] = y
      /\ \A j \in Ids \ {i} : reports'[j] = reports[j]
  BY DEF TypeOK
<1>2. /\ Len(x) \in Nat /\ Len(y) = Len(x) + 1 /\ y[Len(y)] = how
      /\ \A k \in 1..Len(x) : y[k] = x[k]
  BY <1>1
<1>3. /\ \A k \in 1..Len(x) : x[k] = "expired"
      /\ Len(x) > 0 => <<"unheard", i>> \in marks'
  BY <1>1 DEF Unheard
<1> HIDE DEF x, y
<1>4. /\ \A k \in 1..(Len(y) - 1) : y[k] = "expired"
      /\ Len(y) > 1 => <<"unheard", i>> \in marks'
      /\ Len(y) > 0
      /\ how = "expired" => \A k \in 1..Len(y) : y[k] = "expired"
  BY <1>2, <1>3
<1>5. Told(i)'
  BY <1>1, <1>4 DEF Told
<1>6. how = "finished" => ToldFinished(i)'
  BY <1>1, <1>2, <1>4 DEF ToldFinished
<1>7. how = "expired" /\ <<"unheard", i>> \in marks' => Unheard(i)'
  BY <1>1, <1>4 DEF Unheard
<1> QED BY <1>1, <1>5, <1>6, <1>7

LEMMA AloneAndSole ==
  ASSUME IInv, NEW p, NEW i \in Ids
  PROVE  /\ p \in Procs /\ HoldsNow(pr[p], i) => Alone(p, i)
         /\ p \in Procs /\ Owns(pr[p], i) => Sole(p, i)
         /\ turn[i] # None => Alone(p, i)
         /\ index[i] # None => Sole(p, i)
         /\ ~Unheard(i) => Sole(p, i)
         /\ minted.ids < i => Alone(p, i) /\ Sole(p, i)
<1>1. \A q \in Procs : p \in Procs /\ q # p => Apart(p, q)
  BY DEF IInv, Turns
<1>2. \A q \in Procs : /\ pr[q].kind \in requests => AskKept(pr[q])
                       /\ pr[q].kind = "sweep" => SweepKept(pr[q])
  BY DEF IInv, Turns, ProcKept
<1>3. ASSUME NEW q \in Procs, HoldsNow(pr[q], i)
      PROVE  turn[i] = None /\ i <= minted.ids
  BY <1>2, <1>3 DEF HoldsNow, Holds, AskKept
<1>4. ASSUME NEW q \in Procs, Owns(pr[q], i)
      PROVE  index[i] = None /\ Unheard(i) /\ i <= minted.ids
  BY <1>2, <1>4 DEF Owns, AskKept, SweepKept
<1>5. minted.ids \in Nat /\ i \in Nat
  BY Constants DEF IInv, TypeOK
<1> QED BY <1>1, <1>3, <1>4, <1>5 DEF Alone, Sole, Apart

LEMMA TurnsFrame ==
  ASSUME IInv, TypeOK', NEW p, marks \subseteq marks',
         \A q \in Procs \ {p} : pr'[q] = pr[q],
         minted.ids <= minted'.ids, minted.secrets <= minted'.secrets,
         \A i \in Ids : RecSame(i) \/ (RecKept(i)' /\ Moves(p, i)),
         p \in Procs =>
           /\ ProcKept(p)'
           /\ \A i \in Ids :
                /\ HoldsNow(pr[p], i)' => HoldsNow(pr[p], i) \/ acted'[i] # acted[i] \/ Alone(p, i)
                /\ Owns(pr[p], i)' => Owns(pr[p], i) \/ Sole(p, i)
  PROVE  Turns'
<1>1. TypeOK /\ Turns
  BY DEF IInv
<1>2. /\ minted.ids \in Nat /\ minted'.ids \in Nat /\ minted.secrets \in Nat /\ minted'.secrets \in Nat
      /\ \A i \in Ids : acted[i] \in Nat /\ acted'[i] \in Nat /\ i \in Nat
  BY <1>1, Constants DEF TypeOK
<1>3. ASSUME NEW i \in Ids
      PROVE  RecKept(i)'
  <2>1. CASE RecSame(i)
    <3>1. RecKept(i)
      BY <1>1 DEF Turns
    <3>2. (Unheard(i) => Unheard(i)') /\ (Told(i) => Told(i)') /\ (ToldFinished(i) => ToldFinished(i)')
      BY <2>1, ReportsStay DEF RecSame
    <3> QED BY <1>2, <2>1, <3>1, <3>2 DEF RecSame, RecKept
  <2> QED BY <2>1
<1>4. ASSUME NEW i \in Ids
      PROVE  Moves(p, i) /\ acted'[i] >= acted[i]
  <2>1. RecSame(i) => Moves(p, i)
    BY <1>1 DEF RecSame, Moves
  <2>2. Moves(p, i)
    BY <2>1
  <2> QED BY <1>2, <2>2 DEF Moves
<1>5. ASSUME NEW q \in Procs \ {p}, pr[q].kind \in requests
      PROVE  AskKept(pr[q])'
  <2> DEFINE i == pr[q].id
  <2>1. pr[q] \in RequestType /\ i \in Ids
    BY <1>1, <1>5, Kinds DEF RequestType
  <2>2. AskKept(pr[q])
    BY <1>1, <1>5 DEF Turns, ProcKept
  <2>3. Moves(p, i) /\ acted'[i] >= acted[i] /\ acted[i] \in Nat /\ acted'[i] \in Nat /\ i \in Nat
    BY <1>2, <1>4, <2>1
  <2>4. (Alone(p, i) => ~HoldsNow(pr[q], i)) /\ (Sole(p, i) => ~Owns(pr[q], i))
    BY DEF Alone, Sole
  <2>5. Holds(pr[q]) => pr[q].turn \in Nat /\ pr[q].turn <= acted[i]
    BY <2>2 DEF AskKept
  <2>6. pr'[q] = pr[q]
    OBVIOUS
  <2>7. i <= minted'.ids
    BY <1>2, <2>2, <2>3 DEF AskKept
  <2>8. ASSUME Holds(pr[q])
        PROVE  /\ pr[q].turn \in Nat /\ pr[q].turn <= acted'[i]
               /\ pr[q].pc # "cleanup" => pr[q].turn = acted'[i]
               /\ pr[q].pc \notin Untaken => pr[q].turn = pr[q].bound.rev
               /\ turn'[i] # None => pr[q].turn # acted'[i]
    <3>1. /\ pr[q].pc # "cleanup" => pr[q].turn = acted[i]
          /\ pr[q].pc \notin Untaken => pr[q].turn = pr[q].bound.rev
          /\ turn[i] # None => pr[q].turn # acted[i]
      BY <2>2, <2>8 DEF AskKept
    <3>2. HoldsNow(pr[q], i) <=> pr[q].turn = acted[i]
      BY <2>8 DEF HoldsNow
    <3>3. CASE acted'[i] = acted[i]
      BY <2>3, <2>4, <2>5, <2>8, <3>1, <3>2, <3>3 DEF Moves
    <3>4. CASE acted'[i] # acted[i]
      <4>1. acted'[i] = acted[i] + 1 /\ Alone(p, i)
        BY <2>3, <3>4 DEF Moves
      <4> QED BY <2>3, <2>4, <2>5, <2>8, <3>1, <3>2, <4>1
    <3> QED BY <3>3, <3>4
  <2>9. Owns(pr[q], i) => index'[i] = None /\ Unheard(i)'
    BY <2>2, <2>3, <2>4, ReportsStay DEF AskKept, Moves
  <2>10. pr[q].pc \in {"replaced", "reply"} /\ pr[q].kind = "answer" /\ pr[q].decision \in Finishing
           => ToldFinished(i)'
    BY <1>1, <2>1, <2>2, <2>3, Untold, ReportsStay DEF AskKept, Moves
  <2>11. pr[q].pc \notin Untaken => pr[q].taken = pr[q].bound
    BY <2>2 DEF AskKept
  <2> QED BY <2>6, <2>7, <2>8, <2>9, <2>10, <2>11 DEF AskKept
<1>6. ASSUME NEW q \in Procs \ {p}, pr[q].kind \in requests
      PROVE  DecisionKept(pr[q])'
  BY <1>1, <1>6 DEF Turns, ProcKept, DecisionKept
<1>7. ASSUME NEW q \in Procs \ {p}, pr[q].kind = "sweep"
      PROVE  SweepKept(pr[q])'
  <2>1. SweepKept(pr[q]) /\ pr'[q] = pr[q] /\ pr[q] \in SweepType
    BY <1>1, <1>7, Kinds DEF Turns, ProcKept
  <2>2. \A e \in pr[q].todo : e.id <= minted'.ids
    <3> SUFFICES ASSUME NEW e \in pr[q].todo PROVE e.id <= minted'.ids
      OBVIOUS
    <3>1. e.id \in Ids /\ e.id <= minted.ids
      BY <2>1 DEF SweepKept, SweepType, EntryType
    <3> QED BY <1>2, <3>1
  <2>3. ASSUME pr[q].pc \in {"emit", "relist"}
        PROVE  LET i == pr[q].entry.id
               IN  /\ pr[q].entry # None /\ i <= minted'.ids
                   /\ index'[i] = None /\ Unheard(i)'
                   /\ pr[q].taken # None => pr[q].taken.rev = acted'[i] /\ pr[q].taken.binding <= minted'.secrets
    <3> DEFINE i == pr[q].entry.id
    <3>1. /\ pr[q].entry # None /\ i <= minted.ids /\ index[i] = None /\ Unheard(i)
          /\ pr[q].taken # None => pr[q].taken.rev = acted[i] /\ pr[q].taken.binding <= minted.secrets
      BY <2>1, <2>3 DEF SweepKept
    <3>2. i \in Ids /\ (pr[q].taken # None => pr[q].taken.binding \in Nat)
      BY <2>1, <3>1 DEF SweepType, EntryType, RecordType
    <3>3. Owns(pr[q], i)
      BY <1>7, <2>3 DEF Owns
    <3>4. ~Sole(p, i)
      BY <3>3 DEF Sole
    <3>5. Moves(p, i) /\ i \in Nat
      BY <1>2, <1>4, <3>2
    <3>6. index'[i] = None /\ Unheard(i)' /\ acted'[i] = acted[i]
      BY <3>1, <3>4, <3>5, ReportsStay DEF Moves
    <3> QED BY <1>2, <3>1, <3>2, <3>5, <3>6
  <2> QED BY <2>1, <2>2, <2>3 DEF SweepKept
<1>8. ASSUME NEW q \in Procs
      PROVE  ProcKept(q)'
  <2>1. CASE q = p
    BY <2>1
  <2>2. CASE q # p
    <3>1. pr'[q] = pr[q]
      BY <2>2
    <3> QED BY <1>5, <1>6, <1>7, <2>2, <3>1 DEF ProcKept
  <2> QED BY <2>1, <2>2
<1>9. ASSUME NEW q \in Procs \ {p}, NEW i \in Ids
      PROVE  /\ HoldsNow(pr[q], i)' => HoldsNow(pr[q], i) /\ acted'[i] = acted[i]
             /\ Owns(pr[q], i)' <=> Owns(pr[q], i)
  <2>1. pr'[q] = pr[q]
    OBVIOUS
  <2>2. Owns(pr[q], i)' <=> Owns(pr[q], i)
    BY <2>1 DEF Owns, Settles
  <2>3. ASSUME HoldsNow(pr[q], i)'
        PROVE  HoldsNow(pr[q], i) /\ acted'[i] = acted[i]
    <3>1. Holds(pr[q]) /\ pr[q].id = i /\ pr[q].turn = acted'[i]
      BY <2>1, <2>3 DEF HoldsNow, Holds
    <3>2. pr[q].turn \in Nat /\ pr[q].turn <= acted[i]
      BY <1>1, <3>1 DEF Turns, ProcKept, AskKept, Holds
    <3>3. acted'[i] = acted[i]
      BY <1>2, <1>4, <3>1, <3>2
    <3> QED BY <3>1, <3>3 DEF HoldsNow
  <2> QED BY <2>2, <2>3
<1>10. ASSUME NEW q \in Procs \ {p}, NEW r \in Procs \ {p}, q # r
       PROVE  Apart(q, r)'
  <2>1. Apart(q, r)
    BY <1>1, <1>10 DEF Turns
  <2> QED BY <1>9, <2>1 DEF Apart
<1>11. ASSUME p \in Procs, NEW q \in Procs \ {p}
       PROVE  Apart(p, q)' /\ Apart(q, p)'
  <2>1. Apart(p, q)
    BY <1>1, <1>11 DEF Turns
  <2>2. ASSUME NEW i \in Ids
        PROVE  ~(HoldsNow(pr[p], i)' /\ HoldsNow(pr[q], i)') /\ ~(Owns(pr[p], i)' /\ Owns(pr[q], i)')
    BY <1>9, <1>11, <2>1, <2>2 DEF Apart, Alone, Sole
  <2> QED BY <2>2 DEF Apart
<1>12. \A q, r \in Procs : q # r => Apart(q, r)'
  BY <1>10, <1>11
<1> QED BY <1>3, <1>8, <1>12 DEF Turns

----------------------------------------------------------------------------
(* Records: what a step may do to them *)

\* What may become of a record: it stays, goes, is replaced by a later state, or is
\* put back by the sweep that took it; or it is new.
RecordMoves(p, i) ==
  \/ rec'[i] = rec[i] \/ rec'[i] = None
  \/ acted'[i] > acted[i]
  \/ p \in Procs /\ Taken(pr[p], i) /\ rec'[i] = pr[p].taken
  \/ minted.ids < i

LEMMA RecordsFrame ==
  ASSUME IInv, TypeOK', Turns', NEW p,
         \A q \in Procs \ {p} : pr'[q] = pr[q],
         marks \subseteq marks', now <= now',
         \A i \in Ids :
           /\ acted'[i] = acted[i] \/ acted'[i] > acted[i]
           /\ RecordMoves(p, i)
           /\ \/ Answerable(i)'
              \/ /\ rec'[i] = rec[i] /\ turn'[i] = turn[i] /\ acted'[i] = acted[i]
                 /\ p \in Procs /\ HoldsNow(pr[p], i) => HoldsNow(pr[p], i)',
         p \in Procs =>
           /\ pr'[p].kind \in requests =>
                \/ pr[p].kind \in requests /\ pr'[p].id = pr[p].id /\ pr'[p].bound = pr[p].bound
                \/ Matches(pr[p])'
           /\ \A i \in Ids : Taken(pr[p], i)' =>
                /\ acted'[i] = acted[i]
                /\ (Taken(pr[p], i) /\ pr'[p].taken = pr[p].taken) \/ rec[i] = pr'[p].taken
                /\ Expired(pr[p].taken)' \/ <<"early", i>> \in marks'
  PROVE  Records'
<1>0. ASSUME NEW i \in Ids
      PROVE  \/ rec'[i] = rec[i] \/ rec'[i] = None \/ acted'[i] > acted[i]
             \/ p \in Procs /\ Taken(pr[p], i) /\ rec'[i] = pr[p].taken
             \/ minted.ids < i
  BY DEF RecordMoves
<1>1. TypeOK /\ Turns /\ Records
  BY DEF IInv
<1>2. /\ now \in Nat /\ now' \in Nat
      /\ \A i \in Ids : acted[i] \in Nat /\ acted'[i] \in Nat /\ i \in Nat
      /\ minted.ids \in Nat
  BY <1>1, Constants DEF TypeOK
<1>3. \A x \in RecordType : Expired(x) => interactionDeadline(x) <= now'
  BY <1>2, DeadlineTyped DEF Expired
<1>4. ASSUME NEW i \in Ids
      PROVE  Answerable(i)'
  <2>1. CASE Answerable(i)'
    BY <2>1
  <2>2. CASE /\ rec'[i] = rec[i] /\ turn'[i] = turn[i] /\ acted'[i] = acted[i]
             /\ p \in Procs /\ HoldsNow(pr[p], i) => HoldsNow(pr[p], i)'
    <3>1. Answerable(i)
      BY <1>1 DEF Records
    <3>2. rec[i] # None /\ Expired(rec[i]) => Expired(rec[i])'
      <4>1. rec[i] # None => rec[i] \in RecordType
        BY <1>1 DEF TypeOK
      <4> QED BY <1>3, <2>2, <4>1 DEF Expired
    <3>3. ASSUME NEW q \in Procs, HoldsNow(pr[q], i)
          PROVE  HoldsNow(pr[q], i)'
      <4>1. CASE q = p
        BY <2>2, <3>3, <4>1
      <4>2. CASE q # p
        <5>1. pr'[q] = pr[q]
          BY <4>2
        <5> QED BY <2>2, <3>3, <5>1 DEF HoldsNow, Holds
      <4> QED BY <4>1, <4>2
    <3> QED BY <2>2, <3>1, <3>2, <3>3 DEF Answerable
  <2> QED BY <2>1, <2>2
\* The record a sweep holds is the one a request is bound to, as before.
<1>5. ASSUME NEW q \in Procs, NEW i \in Ids, Taken(pr[q], i)'
      PROVE  /\ acted'[i] = acted[i] /\ pr'[q].taken \in RecordType
             /\ (Taken(pr[q], i) /\ pr'[q].taken = pr[q].taken) \/ rec[i] = pr'[q].taken
             /\ Expired(pr[q].taken)' \/ <<"early", i>> \in marks'
  <2>0. pr'[q].taken \in RecordType
    <3>1. pr'[q] \in ProcessType /\ pr'[q].kind = "sweep" /\ pr'[q].taken # None
      BY <1>5 DEF TypeOK, Taken
    <3> QED BY <3>1, KindOf DEF SweepType
  <2>1. CASE q = p
    BY <1>5, <2>0, <2>1
  <2>2. CASE q # p
    <3>1. pr'[q] = pr[q] /\ Taken(pr[q], i)
      BY <1>5, <2>2 DEF Taken
    <3>2. Expired(pr[q].taken) \/ <<"early", i>> \in marks
      BY <1>1, <3>1 DEF Records
    <3>3. Expired(pr[q].taken) => Expired(pr[q].taken)'
      BY <1>3, <2>0, <3>1 DEF Expired
    <3>4. /\ pr[q].kind = "sweep" /\ pr[q].pc \in {"emit", "relist"} /\ pr[q].entry.id = i
          /\ pr[q].taken # None
      BY <3>1 DEF Taken
    <3>5. SweepKept(pr[q]) /\ SweepKept(pr[q])'
      BY <1>1, <3>1, <3>4 DEF Turns, ProcKept
    <3>6. acted'[i] = acted[i]
      BY <3>1, <3>4, <3>5 DEF SweepKept
    <3> QED BY <2>0, <3>1, <3>2, <3>3, <3>6
  <2> QED BY <2>1, <2>2
<1>6. ASSUME NEW q \in Procs, pr'[q].kind \in requests
      PROVE  Matches(pr[q])'
  <2>1. CASE Matches(pr[q])'
    BY <2>1
  <2>2. CASE pr[q].kind \in requests /\ pr'[q].id = pr[q].id /\ pr'[q].bound = pr[q].bound
    <3> DEFINE i == pr[q].id
               x == pr[q].bound
    <3>1. i \in Ids /\ x \in RecordType /\ x.rev \in Nat /\ Matches(pr[q]) /\ i <= minted.ids
      BY <1>1, <2>2, Kinds DEF Records, Turns, ProcKept, AskKept, RequestType, RecordType
    <3>2. acted[i] \in Nat /\ acted'[i] \in Nat /\ i \in Nat /\ (acted'[i] = acted[i] \/ acted'[i] > acted[i])
      BY <1>2, <3>1
    <3>3. x.rev <= acted[i] /\ x.rev <= acted'[i]
      BY <3>1, <3>2 DEF Matches
    <3>4. ASSUME x.rev = acted'[i]
          PROVE  acted'[i] = acted[i]
      BY <3>1, <3>2, <3>3, <3>4
    <3>5. ASSUME rec'[i] # None, x.rev = acted'[i]
          PROVE  rec'[i] = x
      <4>1. acted'[i] = acted[i] /\ ~(minted.ids < i)
        BY <1>2, <3>1, <3>2, <3>4, <3>5
      <4>2. rec[i] # None => rec[i] = x
        BY <3>1, <3>5, <4>1 DEF Matches
      <4>3. \A s \in Procs : Taken(pr[s], i) => pr[s].taken = x
        BY <3>1, <3>5, <4>1 DEF Matches
      <4>4. \/ rec'[i] = rec[i] \/ rec'[i] = None \/ acted'[i] > acted[i]
            \/ p \in Procs /\ Taken(pr[p], i) /\ rec'[i] = pr[p].taken
            \/ minted.ids < i
        BY <1>0, <3>1
      <4> QED BY <3>2, <3>5, <4>1, <4>2, <4>3, <4>4
    <3>6. ASSUME NEW s \in Procs, Taken(pr[s], pr[q].id)', x.rev = acted'[i]
          PROVE  pr'[s].taken = x
      <4>0. PICK j \in Ids : j = i
        BY <3>1
      <4>5. Taken(pr[s], j)'
        BY <2>2, <3>6, <4>0 DEF Taken
      <4>1. /\ acted'[i] = acted[i] /\ pr'[s].taken \in RecordType
            /\ (Taken(pr[s], i) /\ pr'[s].taken = pr[s].taken) \/ rec[i] = pr'[s].taken
        BY <1>5, <4>0, <4>5
      <4>2. rec[i] # None => rec[i] = x
        BY <3>1, <3>6, <4>1 DEF Matches
      <4>3. Taken(pr[s], i) => pr[s].taken = x
        BY <3>1, <3>6, <4>1 DEF Matches
      <4> QED BY <4>1, <4>2, <4>3, Constants
    <3> QED BY <2>2, <3>3, <3>5, <3>6 DEF Matches
  <2>3. q # p => pr'[q] = pr[q]
    OBVIOUS
  <2> QED BY <1>6, <2>1, <2>2, <2>3
<1> QED BY <1>4, <1>5, <1>6 DEF Records

----------------------------------------------------------------------------
(* Sessions: what a step may do to them *)

\* Sessions are made once, for one account, and do not come back to life.
SessionsGoOn ==
  \A s \in Sids : Made(s) => /\ sess'[s] # None /\ sess'[s].user = sess[s].user
                             /\ sess'[s].live => sess[s].live

LEMMA SessionsStay ==
  ASSUME SessionsGoOn
  PROVE  /\ \A s \in Sids : Made(s) => Made(s)'
         /\ \A s \in Sids : Over(s) => Over(s)'
         /\ \A s \in Sids : \A u : Made(s) /\ ~LiveFor(s, u) => ~LiveFor(s, u)'
BY DEF SessionsGoOn, Made, Over, LiveFor

LEMMA EndGoesOn ==
  ASSUME TypeOK, TypeOK', NEW s \in Sids, Made(s), Ended(s)
  PROVE  SessionsGoOn /\ (\A t \in Sids : Made(t)' => Made(t)) /\ Over(s)' /\ ~sess'[s].live
BY DEF TypeOK, Ended, SessionsGoOn, Made, Over

LEMMA RecordMade ==
  ASSUME NEW x \in RecordType, MadeIn(x), SessionsGoOn
  PROVE  /\ x.sid # None => x.sid \in Sids /\ sess'[x.sid] # None
         /\ x.carried # None => x.carried.sid \in Sids /\ sess'[x.carried.sid] # None
<1>1. /\ x.sid # None => x.sid \in Sids
      /\ x.carried # None => x.carried.sid \in Sids
  BY DEF RecordType, CarriedType
<1> QED BY <1>1 DEF MadeIn, SessionsGoOn, Made

\* What a process knows of the sessions it has to do with stays true.
LEMMA SessionKeptStays ==
  ASSUME TypeOK, TypeOK', SessionsGoOn, marks \subseteq marks', minted.sids <= minted'.sids,
         NEW p \in Procs, pr[p] \in RequestType, pr'[p] = pr[p], SessionKept(pr[p]),
         pr[p].pc = "create" => sess'[pr[p].sid] = None,
         pr[p].pc \notin Untaken => pr[p].taken \in RecordType /\ MadeIn(pr[p].taken)
  PROVE  SessionKept(pr[p])'
<1> DEFINE q == pr[p]
<1>1. /\ q.bound \in RecordType /\ q.jar.sid \in Sids \cup {None} /\ q.session \in Sids \cup {None}
      /\ q.sid \in Sids \cup {None} /\ q.todo \subseteq Sids
  BY DEF RequestType, JarType
<1>2. /\ \A s \in Sids : Made(s) => sess'[s] # None
      /\ \A s \in Sids : Over(s) => sess'[s] # None /\ ~sess'[s].live
      /\ \A s \in Sids : \A u : Made(s) /\ ~LiveFor(s, u) => ~(sess'[s] # None /\ sess'[s].live /\ sess'[s].user = u)
  BY SessionsStay DEF Made, Over, LiveFor
<1>3. (q.bound.sid # None => sess'[q.bound.sid] # None)
      /\ (q.bound.carried # None => sess'[q.bound.carried.sid] # None)
  BY <1>1, RecordMade DEF SessionKept
<1>4. MadeIn(pr[p].bound)'
  BY <1>3 DEF MadeIn, Made
<1>5. q.jar.sid # None => sess'[q.jar.sid] # None
  BY <1>1, <1>2 DEF SessionKept
<1>6. q.session # None => /\ sess'[q.session] # None
                          /\ q.decision \in Signing
                          /\ q.pc \notin {"take", "reread", "return", "decide", "check", "create",
                                          "shown", "ending", "cookie"}
                          /\ q.pc \in {"report", "replaced", "reply"} => <<"shown", q.session>> \in marks'
  BY <1>1, <1>2 DEF SessionKept
<1>7. q.pc = "create" => q.sid # None /\ q.sid <= minted'.sids /\ sess'[q.sid] = None
  <2>1. minted.sids \in Nat /\ minted'.sids \in Nat /\ (q.sid # None => q.sid \in Nat)
    BY <1>1, Constants DEF TypeOK
  <2> QED BY <2>1 DEF SessionKept
<1>8. q.late => q.bound.sid # None /\ sess'[q.bound.sid] # None /\ ~sess'[q.bound.sid].live
  <2>1. q.bound.sid \in Sids \cup {None}
    BY <1>1 DEF RecordType
  <2> QED BY <1>2, <2>1 DEF SessionKept
<1>9. ASSUME q.pc \notin Untaken
      PROVE  switchedSids(q.taken) \subseteq Sids
  BY <1>9, SwitchedSids
<1>10. /\ q.pc = "ending" =>
            /\ \A s \in q.todo : sess'[s] # None
            /\ \A s \in switchedSids(q.taken) \ q.todo : sess'[s] # None /\ ~sess'[s].live
            /\ q.clear => /\ q.jar.sid # None
                          /\ q.jar.sid \in q.todo \/ (sess'[q.jar.sid] # None /\ ~sess'[q.jar.sid].live)
       /\ q.pc = "cookie" => \A s \in switchedSids(q.taken) : sess'[s] # None /\ ~sess'[s].live
  <2>1. "ending" \notin Untaken /\ "cookie" \notin Untaken
    BY DEF Untaken
  <2> QED BY <1>1, <1>2, <1>9, <2>1 DEF SessionKept
<1>11. ASSUME q.kind = "switch", q.pc \in {"delete", "report", "reply"}, Shows(q.taken),
              NEW s \in (switchedSids(q.taken) \cup (IF q.unread THEN {} ELSE {q.jar.sid})) \ {None}
       PROVE  sess'[s] # None /\ ~(sess'[s] # None /\ sess'[s].live /\ sess'[s].user = shownUser(q.taken))
  <2>1. q.pc \notin Untaken
    BY <1>11 DEF Untaken
  <2>2. s \in Sids
    BY <1>1, <1>9, <1>11, <2>1
  <2>3. Made(s) /\ ~LiveFor(s, shownUser(q.taken))
    BY <1>11 DEF SessionKept, SwitchedOff
  <2> QED BY <1>2, <2>2, <2>3
<1>12. q.kind = "switch" /\ q.pc \in {"delete", "report", "reply"} /\ Shows(q.taken) => SwitchedOff(pr[p])'
  BY <1>11 DEF SwitchedOff, Made, LiveFor, switchedSids, shownUser
<1>13. Shows(pr[p].taken)' <=> Shows(q.taken)
  BY DEF Shows, switchedSids, shownUser
<1>14. /\ q.pc \in {"write", "delete"} /\ q.decision \in Signing => q.session # None
       /\ q.pc = "replaced" => q.taken.sid # None
       /\ q.pc = "delete" /\ q.decision = "finished" => ~q.late \/ q.stale
       /\ q.pc \in {"take", "reread", "shown", "cookie"} => ~q.clear
       /\ q.pc \in {"ending", "cookie"} => q.who = shownUser(q.taken)
  BY DEF SessionKept
<1> QED BY <1>4, <1>5, <1>6, <1>7, <1>8, <1>10, <1>12, <1>13, <1>14 DEF SessionKept, Made, Over, switchedSids, shownUser

LEMMA SessionsFrame ==
  ASSUME IInv, TypeOK', Turns', NEW p, UNCHANGED job,
         \A q \in Procs \ {p} : pr'[q] = pr[q],
         SessionsGoOn, marks \subseteq marks', minted.sids <= minted'.sids,
         jar'.sid # None => sess'[jar'.sid] # None,
         \A i \in Ids : rec'[i] = rec[i] \/ rec'[i] = None \/ MadeIn(rec[i])',
         p \in Procs =>
           /\ pr'[p].kind \in requests => SessionKept(pr[p])'
           /\ pr'[p].kind = "sweep" /\ pr'[p].taken # None => MadeIn(pr[p].taken)'
           /\ pr'[p].pc = "create" =>
                \A q \in Procs \ {p} : pr[q].pc = "create" => pr[q].sid # pr'[p].sid,
         \A s \in Sids :
           /\ sess[s] = None /\ sess'[s] # None =>
                /\ p \in Procs /\ pr[p].pc = "create" /\ pr[p].sid = s
                /\ (pr'[p].kind \in requests /\ pr'[p].session = s) \/ <<"unsettled", s>> \in marks'
           /\ p \in Procs /\ pr[p].kind \in requests /\ pr[p].session = s /\ sess'[s].live =>
                \/ pr'[p].kind \in requests /\ pr'[p].session = s
                \/ {<<"shown", s>>, <<"end", s>>} \cap marks' # {}
           /\ <<"replaced", s>> \in marks' \ marks =>
                p \in Procs /\ pr'[p].kind = "answer" /\ pr'[p].pc \in {"report", "replaced"}
                  /\ pr'[p].session # None /\ pr'[p].taken.sid = s /\ sess'[s] # None
           /\ (/\ p \in Procs /\ pr[p].kind = "answer" /\ pr[p].pc \in {"report", "replaced"}
               /\ pr[p].session # None /\ pr[p].taken.sid = s /\ sess'[s].live) =>
                   \/ /\ pr'[p].kind = "answer" /\ pr'[p].pc \in {"report", "replaced"}
                      /\ pr'[p].session # None /\ pr'[p].taken.sid = s
                   \/ {<<"end", s>>, <<"skipped", s>>} \cap marks' # {}
  PROVE  Sessions'
<1>1. TypeOK /\ Sessions
  BY DEF IInv
<1>2. (jar.sid # None => Made(jar.sid))'
  BY DEF Made
<1>3. ASSUME NEW i \in Ids, rec'[i] # None
      PROVE  MadeIn(rec[i])'
  <2>1. CASE rec'[i] = rec[i]
    <3>1. rec[i] \in RecordType /\ MadeIn(rec[i])
      BY <1>1, <1>3, <2>1 DEF Sessions, TypeOK
    <3> QED BY <2>1, <3>1, RecordMade DEF MadeIn, Made
  <2> QED BY <1>3, <2>1
<1>4. ASSUME NEW q \in Procs, pr'[q].kind = "sweep", pr'[q].taken # None
      PROVE  MadeIn(pr[q].taken)'
  <2>1. CASE q # p
    <3>1. pr'[q] = pr[q] /\ pr[q].taken \in RecordType /\ MadeIn(pr[q].taken)
      BY <1>1, <1>4, <2>1, Kinds DEF Sessions, SweepType
    <3> QED BY <3>1, RecordMade DEF MadeIn, Made
  <2> QED BY <1>4, <2>1
<1>5. \A q, r \in Procs : q # r /\ pr[q].pc = "create" /\ pr[r].pc = "create" => pr[q].sid # pr[r].sid
  BY <1>1 DEF Sessions
<1>6. ASSUME NEW q \in Procs, pr'[q].kind \in requests
      PROVE  SessionKept(pr[q])'
  <2>1. CASE q # p
    <3>1. pr'[q] = pr[q] /\ pr[q] \in RequestType /\ SessionKept(pr[q])
      BY <1>1, <1>6, <2>1, Kinds DEF Sessions
    <3>2. pr[q].pc = "create" => sess'[pr[q].sid] = None
      <4> SUFFICES ASSUME pr[q].pc = "create" PROVE sess'[pr[q].sid] = None
        OBVIOUS
      <4>1. pr[q].sid \in Sids /\ sess[pr[q].sid] = None
        BY <3>1 DEF SessionKept, RequestType, Made
      <4>2. p \in Procs /\ pr[p].pc = "create" => pr[p].sid # pr[q].sid
        BY <1>5, <2>1
      <4> QED BY <4>1, <4>2
    <3>3. pr[q].pc \notin Untaken => pr[q].taken \in RecordType /\ MadeIn(pr[q].taken)
      BY <1>6, <3>1, TakenRecord DEF SessionKept
    <3> QED BY <1>1, <3>1, <3>2, <3>3, SessionKeptStays
  <2> QED BY <1>6, <2>1
<1>7. ASSUME NEW q \in Procs, NEW r \in Procs, q # r, pr'[q].pc = "create", pr'[r].pc = "create"
      PROVE  pr'[q].sid # pr'[r].sid
  <2>1. CASE q = p
    <3>1. pr'[r] = pr[r]
      BY <1>7, <2>1
    <3> QED BY <1>7, <2>1, <3>1
  <2>2. CASE r = p
    <3>1. pr'[q] = pr[q]
      BY <1>7, <2>2
    <3> QED BY <1>7, <2>2, <3>1
  <2>3. CASE q # p /\ r # p
    <3>1. pr'[q] = pr[q] /\ pr'[r] = pr[r]
      BY <2>3
    <3> QED BY <1>5, <1>7, <3>1
  <2> QED BY <2>1, <2>2, <2>3
<1>8. ASSUME NEW s \in Sids, sess'[s] # None, sess'[s].live, ~(job.carry /\ s = 1)
      PROVE  \/ {<<"shown", s>>, <<"end", s>>, <<"unsettled", s>>} \cap marks' # {}
             \/ \E q \in Procs : pr'[q].kind \in requests /\ pr'[q].session = s
  <2>1. CASE sess[s] = None
    BY <1>8, <2>1
  <2>2. CASE sess[s] # None
    <3>1. sess[s].live
      BY <1>8, <2>2 DEF SessionsGoOn, Made
    <3>2. Given(s)
      BY <1>1 DEF Sessions
    <3>3. CASE {<<"shown", s>>, <<"end", s>>, <<"unsettled", s>>} \cap marks # {}
      BY <3>3
    <3>4. ASSUME NEW q \in Procs, pr[q].kind \in requests, pr[q].session = s
          PROVE  \/ {<<"shown", s>>, <<"end", s>>, <<"unsettled", s>>} \cap marks' # {}
                 \/ \E r \in Procs : pr'[r].kind \in requests /\ pr'[r].session = s
      <4>1. CASE q = p
        <5>1. \/ pr'[p].kind \in requests /\ pr'[p].session = s
              \/ {<<"shown", s>>, <<"end", s>>} \cap marks' # {}
          BY <1>8, <3>4, <4>1
        <5> QED BY <4>1, <5>1
      <4>2. CASE q # p
        <5>1. pr'[q] = pr[q]
          BY <4>2
        <5> QED BY <3>4, <5>1
      <4> QED BY <4>1, <4>2
    <3> QED BY <1>8, <2>2, <3>1, <3>2, <3>3, <3>4 DEF Given
  <2> QED BY <2>1, <2>2
<1>9. ASSUME NEW s \in Sids, <<"replaced", s>> \in marks'
      PROVE  /\ sess'[s] # None
             /\ sess'[s].live =>
                  \/ {<<"end", s>>, <<"skipped", s>>} \cap marks' # {}
                  \/ \E q \in Procs : /\ pr'[q].kind = "answer" /\ pr'[q].pc \in {"report", "replaced"}
                                      /\ pr'[q].session # None /\ pr'[q].taken.sid = s
  <2>1. CASE <<"replaced", s>> \notin marks
    BY <1>9, <2>1
  <2>2. CASE <<"replaced", s>> \in marks
    <3>1. ReplacedKept(s)
      BY <1>1 DEF Sessions
    <3>2. Made(s) /\ sess'[s] # None /\ (sess'[s].live => sess[s].live)
      BY <2>2, <3>1 DEF SessionsGoOn, ReplacedKept
    <3>3. ASSUME NEW q \in Procs, pr[q].kind = "answer", pr[q].pc \in {"report", "replaced"},
                 pr[q].session # None, pr[q].taken.sid = s, sess'[s].live
          PROVE  \/ {<<"end", s>>, <<"skipped", s>>} \cap marks' # {}
                 \/ \E r \in Procs : /\ pr'[r].kind = "answer" /\ pr'[r].pc \in {"report", "replaced"}
                                     /\ pr'[r].session # None /\ pr'[r].taken.sid = s
      <4>1. CASE q = p
        BY <3>3, <4>1
      <4>2. CASE q # p
        <5>1. pr'[q] = pr[q]
          BY <4>2
        <5> QED BY <3>3, <5>1
      <4> QED BY <4>1, <4>2
    <3> QED BY <2>2, <3>1, <3>2, <3>3 DEF ReplacedKept
  <2> QED BY <2>1, <2>2
<1>10. \A s \in Sids : Given(s)' /\ ReplacedKept(s)'
  BY <1>8, <1>9 DEF Given, ReplacedKept, Made
<1> QED BY <1>2, <1>3, <1>4, <1>6, <1>7, <1>10 DEF Sessions

----------------------------------------------------------------------------
(* Steps that leave Redis and the reports alone *)

LEMMA IdleAfter ==
  ASSUME NEW p \in Procs, pr'[p] = Idle
  PROVE  /\ ProcKept(p)' /\ pr'[p].kind \notin requests \cup {"sweep", "answer"} /\ pr'[p].pc # "create"
         /\ \A i \in Ids : ~HoldsNow(pr[p], i)' /\ ~Owns(pr[p], i)' /\ ~Taken(pr[p], i)'
BY DEF Idle, requests, ProcKept, HoldsNow, Holds, Owns, Taken

\* What such a step keeps of every interaction.
Still ==
  /\ UNCHANGED <<now, rec, turn, index, reports, acted, minted.ids>>
  /\ minted.secrets <= minted'.secrets

LEMMA StillSame ==
  ASSUME IInv, Still, NEW kinds, Notes(kinds), "completed" \notin kinds
  PROVE  /\ \A i \in Ids : RecSame(i)
         /\ minted.ids <= minted'.ids /\ minted.secrets <= minted'.secrets /\ now <= now'
         /\ marks \subseteq marks'
<1>1. minted.ids \in Nat /\ minted.secrets \in Nat /\ now \in Nat
  BY DEF IInv, TypeOK
<1> QED BY <1>1 DEF Still, Notes, RecSame

\* A process that comes to an end, or dies, while its interaction is gone, expired
\* or known to have lost its turn.
LEMMA Quits ==
  ASSUME IInv, TypeOK', NEW p \in Procs, Only(p), Still, pr'[p] = Idle,
         NEW kinds, Notes(kinds), "completed" \notin kinds,
         \A i \in Ids : HoldsNow(pr[p], i) => Answerable(i)'
  PROVE  Turns' /\ Records'
<1>1. \A q \in Procs \ {p} : pr'[q] = pr[q]
  BY DEF Only
<1>2. /\ \A i \in Ids : RecSame(i)
      /\ minted.ids <= minted'.ids /\ minted.secrets <= minted'.secrets /\ now <= now'
      /\ marks \subseteq marks'
  BY StillSame
<1>3. /\ ProcKept(p)' /\ pr'[p].kind \notin requests
      /\ \A i \in Ids : ~HoldsNow(pr[p], i)' /\ ~Owns(pr[p], i)' /\ ~Taken(pr[p], i)'
  BY IdleAfter
<1>4. Turns'
  BY <1>1, <1>2, <1>3, TurnsFrame
<1>5. ASSUME NEW i \in Ids
      PROVE  /\ acted'[i] = acted[i] /\ RecordMoves(p, i)
             /\ \/ Answerable(i)'
                \/ /\ rec'[i] = rec[i] /\ turn'[i] = turn[i] /\ acted'[i] = acted[i]
                   /\ p \in Procs /\ HoldsNow(pr[p], i) => HoldsNow(pr[p], i)'
  BY <1>2 DEF RecSame, RecordMoves
<1>6. Records'
  BY <1>1, <1>2, <1>3, <1>4, <1>5, RecordsFrame
<1> QED BY <1>4, <1>6

\* A request that goes on with the turn as it is.
LEMMA AskGoesOn ==
  ASSUME IInv, TypeOK', NEW p \in Procs, Only(p), Still,
         NEW kinds, Notes(kinds), "completed" \notin kinds,
         pr[p].kind \in requests, Same(pr[p], pr'[p]), pr'[p].turn = pr[p].turn,
         \/ pr[p].pc \notin Untaken /\ pr'[p].taken = pr[p].taken
         \/ pr'[p].pc \in Untaken
         \/ pr'[p].taken = pr[p].bound /\ pr[p].turn = pr[p].bound.rev,
         pr'[p].pc # "report", DecisionKept(pr[p])',
         Holds(pr'[p]) => Holds(pr[p]),
         Holds(pr'[p]) /\ pr'[p].pc # "cleanup" => pr[p].pc # "cleanup" \/ pr[p].turn = acted[pr[p].id],
         pr'[p].pc \in {"replaced", "reply"} /\ pr'[p].kind = "answer" /\ pr'[p].decision \in Finishing =>
           pr[p].pc \in {"replaced", "reply"} /\ pr'[p].decision = pr[p].decision,
         \A i \in Ids : HoldsNow(pr[p], i) => Holds(pr'[p]) \/ Answerable(i)'
  PROVE  Turns' /\ Records'
<1> DEFINE q == pr[p]
           r == pr'[p]
<1>1. \A s \in Procs \ {p} : pr'[s] = pr[s]
  BY DEF Only
<1>2. /\ \A i \in Ids : RecSame(i)
      /\ minted.ids <= minted'.ids /\ minted.secrets <= minted'.secrets /\ now <= now'
      /\ marks \subseteq marks'
  BY StillSame
<1>3. /\ r \in RequestType /\ r.kind = q.kind /\ r.id = q.id /\ r.bound = q.bound /\ r.turn = q.turn
      /\ r.kind \in requests /\ r.kind # "sweep"
  BY DEF Same, requests
<1>4. AskKept(q)
  BY DEF IInv, Turns, ProcKept
<1>5. AskKept(pr[p])'
  <2>1. q.id \in Ids /\ r.id <= minted'.ids /\ turn' = turn /\ acted' = acted /\ index' = index /\ reports' = reports
    BY <1>3, <1>4 DEF AskKept, Still, RequestType
  <2>2. Holds(r) => /\ r.turn \in Nat /\ r.turn <= acted'[r.id]
                    /\ r.pc # "cleanup" => r.turn = acted'[r.id]
                    /\ r.pc \notin Untaken => r.turn = r.bound.rev
                    /\ turn'[r.id] # None => r.turn # acted'[r.id]
    BY <1>3, <1>4, <2>1 DEF AskKept
  <2>3. r.pc \notin Untaken => r.taken = r.bound
    BY <1>3, <1>4 DEF AskKept
  <2>4. ~Owns(r, r.id)
    BY <1>3 DEF Owns
  <2>5. r.pc \in {"replaced", "reply"} /\ r.kind = "answer" /\ r.decision \in Finishing
          => ToldFinished(pr[p].id)'
    BY <1>2, <1>3, <1>4, <2>1, ReportsStay DEF AskKept
  <2> QED BY <2>1, <2>2, <2>3, <2>4, <2>5 DEF AskKept, Owns, Settles, Holds
<1>6. ProcKept(p)'
  BY <1>3, <1>5 DEF ProcKept
<1>7. ASSUME NEW i \in Ids
      PROVE  /\ HoldsNow(pr[p], i)' => HoldsNow(pr[p], i)
             /\ ~Owns(pr[p], i)' /\ ~Taken(pr[p], i)'
             /\ HoldsNow(pr[p], i) => HoldsNow(pr[p], i)' \/ Answerable(i)'
  BY <1>3 DEF HoldsNow, Holds, Owns, Taken, Still
<1>8. Turns'
  BY <1>1, <1>2, <1>6, <1>7, TurnsFrame
<1>9. ASSUME NEW i \in Ids
      PROVE  /\ acted'[i] = acted[i] /\ RecordMoves(p, i)
             /\ \/ Answerable(i)'
                \/ /\ rec'[i] = rec[i] /\ turn'[i] = turn[i] /\ acted'[i] = acted[i]
                   /\ p \in Procs /\ HoldsNow(pr[p], i) => HoldsNow(pr[p], i)'
  BY <1>2, <1>7 DEF RecSame, RecordMoves
<1>10. Records'
  BY <1>1, <1>2, <1>3, <1>7, <1>8, <1>9, RecordsFrame
<1> QED BY <1>8, <1>10

----------------------------------------------------------------------------
(* Sessions over a step of a request *)

\* What a request must show of its sessions where it goes on to.
SessionKeptGoes(p) ==
  LET r == pr'[p]
  IN  /\ r.session # None => /\ sess'[r.session] # None /\ r.decision \in Signing
                             /\ r.pc \notin {"take", "reread", "return", "decide", "check", "create",
                                             "shown", "ending", "cookie"}
                             /\ r.pc \in {"report", "replaced", "reply"} => <<"shown", r.session>> \in marks'
      /\ r.pc = "create" => r.sid # None /\ r.sid <= minted'.sids /\ sess'[r.sid] = None
      /\ r.pc \in {"write", "delete"} /\ r.decision \in Signing => r.session # None
      /\ r.pc = "replaced" => r.taken.sid # None
      /\ r.pc = "delete" /\ r.decision = "finished" => ~r.late \/ r.stale
      /\ r.pc \in {"take", "reread", "shown", "cookie"} => ~r.clear
      /\ r.pc \in {"ending", "cookie"} => r.who = shownUser(r.taken)
      /\ r.pc = "ending" =>
           /\ \A s \in r.todo : sess'[s] # None
           /\ \A s \in switchedSids(r.taken) \ r.todo : sess'[s] # None /\ ~sess'[s].live
           /\ r.clear => /\ r.jar.sid # None
                         /\ r.jar.sid \in r.todo \/ (sess'[r.jar.sid] # None /\ ~sess'[r.jar.sid].live)
      /\ r.pc = "cookie" => \A s \in switchedSids(r.taken) : sess'[s] # None /\ ~sess'[s].live
      /\ r.kind = "switch" /\ r.pc \in {"delete", "report", "reply"} /\ Shows(r.taken) => SwitchedOff(pr[p])'

LEMMA SessionKeptThen ==
  ASSUME IInv, SessionsGoOn, NEW p \in Procs, pr[p].kind \in requests, Same(pr[p], pr'[p]),
         pr'[p].late => pr[p].late \/ (pr[p].bound.sid # None /\ Over(pr[p].bound.sid)),
         SessionKeptGoes(p)
  PROVE  SessionKept(pr[p])'
<1> DEFINE q == pr[p]
           r == pr'[p]
<1>1. /\ r.bound = q.bound /\ r.jar = q.jar /\ r.kind = q.kind
      /\ q.bound \in RecordType /\ q.jar.sid \in Sids \cup {None}
  BY DEF Same, RequestType, JarType
<1>2. SessionKept(q)
  BY DEF IInv, Sessions
<1>3. /\ \A s \in Sids : Made(s) => sess'[s] # None
      /\ \A s \in Sids : Over(s) => sess'[s] # None /\ ~sess'[s].live
  BY SessionsStay DEF Made, Over
<1>4. (q.bound.sid # None => sess'[q.bound.sid] # None)
      /\ (q.bound.carried # None => sess'[q.bound.carried.sid] # None)
  BY <1>1, <1>2, RecordMade DEF SessionKept
<1>5. MadeIn(pr[p].bound)'
  BY <1>1, <1>4 DEF MadeIn, Made
<1>6. r.jar.sid # None => sess'[r.jar.sid] # None
  BY <1>1, <1>2, <1>3 DEF SessionKept
<1>7. r.late => r.bound.sid # None /\ sess'[r.bound.sid] # None /\ ~sess'[r.bound.sid].live
  <2>1. q.bound.sid \in Sids \cup {None}
    BY <1>1 DEF RecordType
  <2> QED BY <1>1, <1>2, <1>3, <2>1 DEF SessionKept
<1>8. Shows(pr[p].taken)' <=> Shows(r.taken)
  BY DEF Shows, switchedSids, shownUser
<1> QED BY <1>5, <1>6, <1>7, <1>8 DEF SessionKept, SessionKeptGoes, Made, Over, switchedSids, shownUser

\* The records and the cookie stay with sessions that were made.
CookieKept ==
  /\ jar'.sid # None => sess'[jar'.sid] # None
  /\ \A i \in Ids : rec'[i] = rec[i] \/ rec'[i] = None \/ MadeIn(rec[i])'

LEMMA SessionsQuit ==
  ASSUME IInv, TypeOK', Turns', NEW p \in Procs, Only(p), UNCHANGED job, pr'[p] = Idle,
         SessionsGoOn, minted.sids <= minted'.sids, CookieKept,
         \A s \in Sids : sess'[s] # None => sess[s] # None,
         NEW kinds, Notes(kinds), "replaced" \notin kinds,
         pr[p].kind \in requests =>
           /\ pr[p].session # None /\ sess'[pr[p].session].live
                => {<<"shown", pr[p].session>>, <<"end", pr[p].session>>} \cap marks' # {}
           /\ (/\ pr[p].kind = "answer" /\ pr[p].pc \in {"report", "replaced"}
               /\ pr[p].session # None /\ pr[p].taken.sid # None)
                => {<<"end", pr[p].taken.sid>>, <<"skipped", pr[p].taken.sid>>} \cap marks' # {}
  PROVE  Sessions'
<1>1. \A q \in Procs \ {p} : pr'[q] = pr[q]
  BY DEF Only
<1>2. marks \subseteq marks' /\ \A s : <<"replaced", s>> \notin marks' \ marks
  BY DEF Notes
<1>3. pr'[p].kind \notin requests \cup {"sweep", "answer"} /\ pr'[p].pc # "create"
  BY IdleAfter
<1>4. None \notin Sids /\ "answer" \in requests
  BY Constants DEF requests
<1>5. ASSUME NEW s \in Sids
      PROVE  /\ sess[s] = None /\ sess'[s] # None =>
                  /\ p \in Procs /\ pr[p].pc = "create" /\ pr[p].sid = s
                  /\ (pr'[p].kind \in requests /\ pr'[p].session = s) \/ <<"unsettled", s>> \in marks'
             /\ p \in Procs /\ pr[p].kind \in requests /\ pr[p].session = s /\ sess'[s].live =>
                  \/ pr'[p].kind \in requests /\ pr'[p].session = s
                  \/ {<<"shown", s>>, <<"end", s>>} \cap marks' # {}
             /\ <<"replaced", s>> \in marks' \ marks =>
                  p \in Procs /\ pr'[p].kind = "answer" /\ pr'[p].pc \in {"report", "replaced"}
                    /\ pr'[p].session # None /\ pr'[p].taken.sid = s /\ sess'[s] # None
             /\ (/\ p \in Procs /\ pr[p].kind = "answer" /\ pr[p].pc \in {"report", "replaced"}
                 /\ pr[p].session # None /\ pr[p].taken.sid = s /\ sess'[s].live) =>
                     \/ /\ pr'[p].kind = "answer" /\ pr'[p].pc \in {"report", "replaced"}
                        /\ pr'[p].session # None /\ pr'[p].taken.sid = s
                     \/ {<<"end", s>>, <<"skipped", s>>} \cap marks' # {}
  BY <1>2, <1>4
<1> QED BY <1>1, <1>2, <1>3, <1>5, SessionsFrame DEF CookieKept

\* The replaced session stays this answer's to end.
LEMMA SessionsGoes ==
  ASSUME IInv, TypeOK', Turns', NEW p \in Procs, Only(p), UNCHANGED job, pr[p].kind \in requests,
         Same(pr[p], pr'[p]), pr'[p].late => pr[p].late \/ (pr[p].bound.sid # None /\ Over(pr[p].bound.sid)),
         SessionKeptGoes(p), pr'[p].session = pr[p].session, pr'[p].pc # "create",
         SessionsGoOn, minted.sids <= minted'.sids, CookieKept,
         \A s \in Sids : sess'[s] # None => sess[s] # None,
         NEW kinds, Notes(kinds), "replaced" \notin kinds,
         (/\ pr[p].kind = "answer" /\ pr[p].pc \in {"report", "replaced"}
          /\ pr[p].session # None /\ pr[p].taken.sid # None /\ sess'[pr[p].taken.sid].live) =>
           \/ pr'[p].pc \in {"report", "replaced"} /\ pr'[p].taken = pr[p].taken
           \/ {<<"end", pr[p].taken.sid>>, <<"skipped", pr[p].taken.sid>>} \cap marks' # {}
  PROVE  Sessions'
<1>1. \A q \in Procs \ {p} : pr'[q] = pr[q]
  BY DEF Only
<1>2. marks \subseteq marks' /\ \A s : <<"replaced", s>> \notin marks' \ marks
  BY DEF Notes
<1>3. SessionKept(pr[p])' /\ pr'[p].kind = pr[p].kind /\ pr'[p].kind # "sweep"
  BY SessionKeptThen DEF Same, requests
<1>4. None \notin Sids
  BY Constants
<1>5. ASSUME NEW s \in Sids
      PROVE  /\ sess[s] = None /\ sess'[s] # None =>
                  /\ p \in Procs /\ pr[p].pc = "create" /\ pr[p].sid = s
                  /\ (pr'[p].kind \in requests /\ pr'[p].session = s) \/ <<"unsettled", s>> \in marks'
             /\ p \in Procs /\ pr[p].kind \in requests /\ pr[p].session = s /\ sess'[s].live =>
                  \/ pr'[p].kind \in requests /\ pr'[p].session = s
                  \/ {<<"shown", s>>, <<"end", s>>} \cap marks' # {}
             /\ <<"replaced", s>> \in marks' \ marks =>
                  p \in Procs /\ pr'[p].kind = "answer" /\ pr'[p].pc \in {"report", "replaced"}
                    /\ pr'[p].session # None /\ pr'[p].taken.sid = s /\ sess'[s] # None
             /\ (/\ p \in Procs /\ pr[p].kind = "answer" /\ pr[p].pc \in {"report", "replaced"}
                 /\ pr[p].session # None /\ pr[p].taken.sid = s /\ sess'[s].live) =>
                     \/ /\ pr'[p].kind = "answer" /\ pr'[p].pc \in {"report", "replaced"}
                        /\ pr'[p].session # None /\ pr'[p].taken.sid = s
                     \/ {<<"end", s>>, <<"skipped", s>>} \cap marks' # {}
  BY <1>2, <1>3, <1>4
<1> QED BY <1>1, <1>2, <1>3, <1>5, SessionsFrame DEF CookieKept

\* A step that leaves the sessions, the records and the cookie as they are.
LEMMA SessionsAsWere ==
  ASSUME IInv, UNCHANGED sess
  PROVE  /\ SessionsGoOn /\ \A s \in Sids : sess'[s] # None => sess[s] # None
         /\ jar'.sid \in {jar.sid, None} /\ rec' = rec => CookieKept
BY DEF SessionsGoOn, Made, CookieKept, IInv, Sessions

----------------------------------------------------------------------------
(* Taking the turn, and giving it back *)

\* A step that at most takes the turn away.
LEMMA TurnGoes ==
  ASSUME IInv, TypeOK', NEW p, UNCHANGED <<rec, index, reports, acted, minted.ids, minted.secrets>>,
         NEW kinds, Notes(kinds), "completed" \notin kinds,
         NEW i \in Ids, turn'[i] \in {None, turn[i]}
  PROVE  RecKept(i)' /\ Moves(p, i) /\ RecordMoves(p, i)
<1>1. RecKept(i)
  BY DEF IInv, Turns
<1>2. <<"completed", i>> \in marks' => <<"completed", i>> \in marks
  BY DEF Notes
<1>3. (Unheard(i) => Unheard(i)') /\ (Told(i) => Told(i)') /\ (ToldFinished(i) => ToldFinished(i)')
  BY ReportsStay DEF Notes
<1>4. RecKept(i)'
  BY <1>1, <1>2, <1>3 DEF RecKept
<1> QED BY <1>4 DEF Moves, RecordMoves

LEMMA TakeTurnKeeps ==
  ASSUME IInv, NEW p \in Procs, takeTurn(p)
  PROVE  IInv'
<1> DEFINE i == pr[p].id
           q == pr[p]
           r == pr'[p]
           s == pr[p].bound.sid
<1>1. /\ TypeOK' /\ Only(p)
      /\ UNCHANGED <<job, now, rec, index, sess, jar, reports, acted, minted>>
      /\ Notes({"turn"})
      /\ q \in RequestType /\ q.pc = "take" /\ i \in Ids
      /\ \/ /\ r = Idle /\ (turn' = turn \/ turn' = [turn EXCEPT ![i] = None])
            /\ turn'[i] = turn[i] \/ <<"turn", i>> \in marks'
         \/ /\ turn' = [turn EXCEPT ![i] = None] /\ turn[i] # None /\ r.turn = turn[i]
            /\ r.pc = "reread" /\ Same(q, r) /\ SameAnswer(q, r) /\ SameSwitch(q, r)
            /\ (r.late => s # None /\ ~sess[s].live) /\ ~r.done
  BY TakeTurnDoes
<1>2. /\ q.kind \in requests /\ AskKept(q) /\ DecisionKept(q) /\ SessionKept(q) /\ Matches(q) /\ q.bound \in RecordType
      /\ ~Holds(q)
  BY AskAt, Steps DEF takeTurn, Holds, Holding
<1>3. /\ turn \in [Ids -> Nat \cup {None}] /\ acted[i] \in Nat /\ minted.ids \in Nat /\ minted.secrets \in Nat
      /\ minted.sids \in Nat /\ now \in Nat
  BY <1>1 DEF IInv, TypeOK
<1>4. \A j \in Ids : turn'[j] \in {None, turn[j]} /\ (j # i => turn'[j] = turn[j])
  BY <1>1, <1>3
<1>5. \A j \in Ids : RecKept(j)' /\ Moves(p, j) /\ RecordMoves(p, j)
  BY <1>1, <1>4, TurnGoes
<1>6. \A x \in Procs \ {p} : pr'[x] = pr[x]
  BY <1>1 DEF Only
<1>7. marks \subseteq marks' /\ now <= now' /\ minted.ids <= minted'.ids /\ minted.secrets <= minted'.secrets
      /\ minted.sids <= minted'.sids
  BY <1>1, <1>3 DEF Notes
<1>8. SessionsGoOn /\ CookieKept /\ \A x \in Sids : sess'[x] # None => sess[x] # None
  BY <1>1, SessionsAsWere
<1>9. "turn" # "completed" /\ "turn" # "replaced"
  OBVIOUS
<1>10. CASE r = Idle
  <2>1. /\ ProcKept(p)' /\ r.kind \notin requests
        /\ \A j \in Ids : ~HoldsNow(pr[p], j)' /\ ~Owns(pr[p], j)' /\ ~Taken(pr[p], j)'
    BY <1>10, IdleAfter
  <2>2. Turns'
    BY <1>1, <1>5, <1>6, <1>7, <2>1, TurnsFrame
  <2>3. turn'[i] = turn[i] \/ <<"turn", i>> \in marks'
    <3>1. r.pc # "reread"
      BY <1>10 DEF Idle
    <3> QED BY <1>1, <3>1
  <2>4. ASSUME NEW j \in Ids
        PROVE  /\ acted'[j] = acted[j]
               /\ \/ Answerable(j)'
                  \/ /\ rec'[j] = rec[j] /\ turn'[j] = turn[j] /\ acted'[j] = acted[j]
                     /\ p \in Procs /\ HoldsNow(pr[p], j) => HoldsNow(pr[p], j)'
    <3>1. ~HoldsNow(pr[p], j)
      BY <1>2 DEF HoldsNow
    <3>2. turn'[j] = turn[j] \/ <<"turn", j>> \in marks'
      BY <1>4, <2>3
    <3> QED BY <1>1, <3>1, <3>2 DEF Answerable
  <2>5. Records'
    BY <1>1, <1>5, <1>6, <1>7, <2>1, <2>2, <2>4, RecordsFrame
  <2>6. q.session = None
    BY <1>1, <1>2 DEF SessionKept
  <2>7. Sessions'
    BY <1>1, <1>7, <1>8, <1>9, <1>10, <2>2, <2>6, SessionsQuit
  <2> QED BY <1>1, <2>2, <2>5, <2>7 DEF IInv
<1>11. CASE r.pc = "reread"
  <2>1. /\ turn' = [turn EXCEPT ![i] = None] /\ turn[i] # None /\ r.turn = turn[i]
        /\ Same(q, r) /\ SameAnswer(q, r) /\ SameSwitch(q, r)
        /\ (r.late => s # None /\ ~sess[s].live) /\ ~r.done
    <3>1. r # Idle
      BY <1>11 DEF Idle
    <3> QED BY <1>1, <3>1
  <2>2. /\ r.kind = q.kind /\ r.id = i /\ r.bound = q.bound /\ r.kind # "sweep" /\ r \in RequestType
    BY <1>2, <2>1 DEF Same, requests
  <2>3. turn[i] = acted[i] /\ turn'[i] = None
    BY <1>1, <1>3, <2>1 DEF IInv, Turns, RecKept
  <2>4. Holds(r) /\ ~Owns(r, i)
    BY <1>2, <1>11, <2>2 DEF Holds, Holding, Owns
  <2>5. AskKept(pr[p])'
    <3>1. r.pc \in Untaken /\ r.pc \notin {"cleanup", "replaced", "reply"}
      BY <1>11 DEF Untaken
    <3>2. i <= minted'.ids
      BY <1>1, <1>2 DEF AskKept
    <3> QED BY <1>1, <1>3, <1>11, <2>1, <2>2, <2>3, <2>4, <3>1, <3>2 DEF AskKept, Owns, Settles, Holds
  <2>6. DecisionKept(pr[p])'
    BY <1>2, <1>11, <2>1, <2>2 DEF DecisionKept, SameAnswer, Settles
  <2>7. ProcKept(p)'
    BY <2>2, <2>5, <2>6 DEF ProcKept
  <2>8. ASSUME NEW j \in Ids
        PROVE  /\ HoldsNow(pr[p], j)' => Alone(p, j)
               /\ ~Owns(pr[p], j)' /\ ~Taken(pr[p], j)'
               /\ acted'[j] = acted[j]
               /\ \/ Answerable(j)'
                  \/ /\ rec'[j] = rec[j] /\ turn'[j] = turn[j] /\ acted'[j] = acted[j]
                     /\ p \in Procs /\ HoldsNow(pr[p], j) => HoldsNow(pr[p], j)'
    <3>1. HoldsNow(pr[p], j)' => j = i
      BY <2>2 DEF HoldsNow
    <3>2. Alone(p, i)
      BY <1>1, <2>1, AloneAndSole
    <3>3. ~HoldsNow(pr[p], j)
      BY <1>2 DEF HoldsNow
    <3>4. j = i => HoldsNow(pr[p], j)'
      BY <1>1, <2>1, <2>2, <2>3, <2>4 DEF HoldsNow, Holds
    <3>5. j = i => Answerable(j)'
      BY <3>4 DEF Answerable
    <3>6. ~Owns(pr[p], j)' /\ ~Taken(pr[p], j)'
      BY <1>11, <2>2 DEF Owns, Taken
    <3> QED BY <1>1, <1>4, <3>1, <3>2, <3>3, <3>5, <3>6
  <2>9. Turns'
    BY <1>1, <1>5, <1>6, <1>7, <2>7, <2>8, TurnsFrame
  <2>10. Records'
    BY <1>1, <1>2, <1>5, <1>6, <1>7, <2>2, <2>8, <2>9, RecordsFrame
  <2>11. q.session = None /\ (r.late => s # None /\ Over(s))
    BY <1>1, <1>2, <2>1 DEF SessionKept, MadeIn, Made, Over
  <2>12. SessionKeptGoes(p)
    <3>1. ~q.clear
      BY <1>1, <1>2 DEF SessionKept
    <3> QED BY <1>11, <2>1, <2>11, <3>1 DEF SessionKeptGoes, SameAnswer, SameSwitch
  <2>13. Sessions'
    BY <1>1, <1>2, <1>7, <1>8, <1>9, <1>11, <2>1, <2>9, <2>11, <2>12, SessionsGoes DEF SameAnswer
  <2> QED BY <1>1, <2>9, <2>10, <2>13 DEF IInv
<1> QED BY <1>1, <1>10, <1>11

LEMMA TakeBoundKeeps ==
  ASSUME IInv, NEW p \in Procs, takeBound(p)
  PROVE  IInv'
<1> DEFINE i == pr[p].id
           q == pr[p]
           r == pr'[p]
<1>1. /\ TypeOK' /\ Quiet /\ Only(p) /\ Notes({"turn"})
      /\ UNCHANGED <<job, now, sess, jar, minted>>
      /\ q \in RequestType /\ q.pc = "reread" /\ i \in Ids
      /\ TakeBoundDoes(p)
  BY TakeBoundStep
<1>2. /\ q.kind \in requests /\ AskKept(q) /\ DecisionKept(q) /\ SessionKept(q) /\ Matches(q) /\ q.bound \in RecordType
      /\ Holds(q) /\ q.pc \in Untaken
  BY AskAt, Steps DEF takeBound, Holds, Holding, Untaken
<1>3. Still /\ UNCHANGED rec /\ minted.sids <= minted'.sids /\ "turn" # "completed" /\ "turn" # "replaced"
  BY <1>1 DEF Quiet, Still, IInv, TypeOK
<1>4. SessionsGoOn /\ CookieKept /\ \A x \in Sids : sess'[x] # None => sess[x] # None
  BY <1>1, <1>3, SessionsAsWere
<1>5. q.session = None
  BY <1>1, <1>2 DEF SessionKept
<1>6. RecKept(i) /\ acted[i] \in Nat
  BY <1>1 DEF IInv, Turns, TypeOK
<1>7. CASE r = Idle /\ (rec[i] = None \/ Expired(rec[i]) \/ <<"turn", i>> \in marks' \/ q.turn # rec[i].rev)
  <2>1. ASSUME NEW j \in Ids, HoldsNow(pr[p], j)
        PROVE  Answerable(j)'
    <3>1. j = i /\ q.turn = acted[i]
      BY <2>1 DEF HoldsNow
    <3>2. rec'[j] = None \/ Expired(rec[j])' \/ <<"turn", j>> \in marks'
      BY <1>1, <1>6, <1>7, <3>1 DEF RecKept, Quiet, Expired
    <3> QED BY <3>2 DEF Answerable
  <2>2. Turns' /\ Records'
    BY <1>1, <1>3, <1>7, <2>1, Quits
  <2>3. Sessions'
    BY <1>1, <1>2, <1>3, <1>4, <1>5, <1>7, <2>2, SessionsQuit
  <2> QED BY <1>1, <2>2, <2>3 DEF IInv
<1>8. ASSUME Same(q, r), SameAnswer(q, r), SameSwitch(q, r), r.turn = q.turn, r.late = q.late, ~r.done,
             r.pc \in {"return", "decide", "shown", "delete"},
             r.pc \in {"decide", "shown", "delete"} =>
               r.taken = q.bound /\ q.turn = q.bound.rev,
             r.pc = "delete" => q.kind = "cancel"
      PROVE  IInv'
  <2>1. DecisionKept(pr[p])'
    <3>1. /\ r.kind = q.kind /\ r.decision = q.decision /\ r.session = q.session
          /\ q.kind # "answer" => q.decision = None /\ q.session = None
      BY <1>2, <1>8 DEF Same, SameAnswer, DecisionKept
    <3> QED BY <1>8, <3>1 DEF DecisionKept, Settles
  <2>2. Holds(r) /\ r.pc \in {"return"} => r.pc \in Untaken
    BY DEF Untaken
  <2>3. Holds(r)
    BY <1>2, <1>8 DEF Holds, Holding, Same
  <2>4. r.pc \notin {"report", "replaced", "reply"}
    BY <1>8
  <2>5. Turns' /\ Records'
    BY <1>1, <1>2, <1>3, <1>8, <2>1, <2>2, <2>3, <2>4, AskGoesOn
  <2>6. SessionKeptGoes(p)
    <3>1. /\ r.kind = q.kind /\ r.decision = q.decision /\ r.session = None
          /\ q.kind # "answer" => q.decision = None
      BY <1>2, <1>5, <1>8 DEF Same, SameAnswer, DecisionKept
    <3>2. r.pc = "delete" => r.kind = "cancel" /\ r.decision \notin Signing \cup {"finished"}
      BY <1>8, <3>1, NoneDecides DEF Signing, requests
    <3>3. ~r.clear
      BY <1>1, <1>2, <1>8 DEF SessionKept, SameSwitch
    <3> QED BY <1>8, <3>1, <3>2, <3>3 DEF SessionKeptGoes
  <2>7. Sessions'
    BY <1>1, <1>2, <1>3, <1>4, <1>5, <1>8, <2>4, <2>5, <2>6, SessionsGoes DEF SameAnswer
  <2> QED BY <1>1, <2>5, <2>7 DEF IInv
<1>9. CASE r.pc = "return" /\ SameAll(q, r)
  <2>1. ~r.done
    BY <1>2, <1>9, <1>1 DEF SameAll, SameTurn, DecisionKept, Holding
  <2> QED BY <1>8, <1>9, <2>1 DEF SameAll, SameTurn
<1>10. CASE /\ r.pc = (IF q.kind = "answer" THEN "decide" ELSE IF q.kind = "cancel" THEN "delete" ELSE "shown")
            /\ Same(q, r) /\ SameAnswer(q, r) /\ SameSwitch(q, r)
            /\ rec[i] # None /\ r.taken = rec[i] /\ r.late = q.late
            /\ r.turn = q.turn /\ q.turn = q.bound.rev /\ rec[i].rev = q.bound.rev /\ r.done = q.done
  <2>0. ~r.done
    BY <1>1, <1>2, <1>10 DEF DecisionKept, Holding
  <2>1. rec[i] = q.bound
    BY <1>2, <1>6, <1>10 DEF Matches, RecKept
  <2>2. r.pc \in {"return", "decide", "shown", "delete"} /\ (r.pc = "delete" => q.kind = "cancel")
    BY <1>10
  <2> QED BY <1>8, <1>10, <2>0, <2>1, <2>2
<1> QED BY <1>1, <1>7, <1>9, <1>10 DEF TakeBoundDoes

\* The holder of the turn puts it back, or notes that it could not.
LEMMA TurnReturns ==
  ASSUME IInv, TypeOK', NEW p \in Procs, NEW i \in Ids, HoldsNow(pr[p], i),
         UNCHANGED <<rec, index, reports, acted, minted.ids, minted.secrets>>,
         NEW kinds, Notes(kinds), "completed" \notin kinds,
         (turn' = turn /\ <<"turn", i>> \in marks') \/ Returned(i, acted[i])
  PROVE  \A j \in Ids : /\ RecKept(j)' /\ Moves(p, j) /\ RecordMoves(p, j)
                        /\ acted'[j] = acted[j]
                        /\ Answerable(j)' \/ (j # i /\ rec'[j] = rec[j] /\ turn'[j] = turn[j])
<1>1. /\ turn \in [Ids -> Nat \cup {None}] /\ acted[i] \in Nat
      /\ \A j \in Ids : RecKept(j)
  BY DEF IInv, TypeOK, Turns
<1>2. turn[i] = None /\ Alone(p, i) /\ i <= minted.ids /\ None \notin Nat /\ minted.ids \in Nat /\ i \in Nat
  <2>1. AskKept(pr[p])
    BY DEF IInv, Turns, ProcKept, HoldsNow, Holds
  <2> QED BY <2>1, AloneAndSole, Constants DEF AskKept, HoldsNow, IInv, TypeOK
<1>3. \/ turn' = turn /\ <<"turn", i>> \in marks'
      \/ turn'[i] = acted[i] /\ \A j \in Ids \ {i} : turn'[j] = turn[j]
  BY <1>1, <1>2 DEF Returned
<1>4. ASSUME NEW j \in Ids
      PROVE  /\ <<"completed", j>> \in marks' => <<"completed", j>> \in marks
             /\ (Unheard(j) => Unheard(j)') /\ (Told(j) => Told(j)')
             /\ ToldFinished(j) => ToldFinished(j)'
  BY ReportsStay DEF Notes
<1>5. ASSUME NEW j \in Ids
      PROVE  RecKept(j)'
  <2>1. CASE turn'[j] = turn[j]
    BY <1>1, <1>4, <2>1 DEF RecKept
  <2>2. CASE j = i /\ turn'[i] = acted[i]
    <3>1. ~(minted.ids < i)
      BY <1>2
    <3> QED BY <1>1, <1>4, <2>2, <3>1 DEF RecKept
  <2> QED BY <1>3, <2>1, <2>2
<1>6. ASSUME NEW j \in Ids
      PROVE  /\ Moves(p, j) /\ RecordMoves(p, j) /\ acted'[j] = acted[j]
             /\ Answerable(j)' \/ (j # i /\ rec'[j] = rec[j] /\ turn'[j] = turn[j])
  BY <1>1, <1>2, <1>3 DEF Moves, RecordMoves, Answerable
<1> QED BY <1>5, <1>6

LEMMA ReturnTurnKeeps ==
  ASSUME IInv, NEW p \in Procs, returnTurn(p)
  PROVE  IInv'
<1> DEFINE i == pr[p].id
           q == pr[p]
           r == pr'[p]
<1>1. /\ TypeOK' /\ Only(p) /\ Notes({"turn"}) /\ r = Idle
      /\ UNCHANGED <<job, now, rec, index, sess, jar, reports, acted, minted>>
      /\ q \in RequestType /\ q.pc = "return" /\ i \in Ids
      /\ (turn' = turn /\ <<"turn", i>> \in marks') \/ Returned(i, q.turn)
  BY ReturnTurnStep
<1>2. q.kind \in requests /\ AskKept(q) /\ SessionKept(q)
  BY AskAt, Steps DEF returnTurn
<1>3. HoldsNow(q, i) /\ q.turn = acted[i] /\ q.session = None
  BY <1>1, <1>2 DEF AskKept, SessionKept, HoldsNow, Holds, Holding
<1>4. \A j \in Ids : /\ RecKept(j)' /\ Moves(p, j) /\ RecordMoves(p, j)
                     /\ acted'[j] = acted[j]
                     /\ Answerable(j)' \/ (j # i /\ rec'[j] = rec[j] /\ turn'[j] = turn[j])
  BY <1>1, <1>3, TurnReturns
<1>5. /\ ProcKept(p)' /\ r.kind \notin requests
      /\ \A j \in Ids : ~HoldsNow(pr[p], j)' /\ ~Owns(pr[p], j)' /\ ~Taken(pr[p], j)'
  BY <1>1, IdleAfter
<1>6. \A x \in Procs \ {p} : pr'[x] = pr[x]
  BY <1>1 DEF Only
<1>7. /\ marks \subseteq marks' /\ now <= now' /\ minted.ids <= minted'.ids /\ minted.secrets <= minted'.secrets
      /\ minted.sids <= minted'.sids /\ "turn" # "replaced"
  BY <1>1 DEF Notes, IInv, TypeOK
<1>8. SessionsGoOn /\ CookieKept /\ \A x \in Sids : sess'[x] # None => sess[x] # None
  BY <1>1, SessionsAsWere
<1>9. Turns'
  BY <1>1, <1>4, <1>5, <1>6, <1>7, TurnsFrame
<1>10. \A j \in Ids : j # i => ~HoldsNow(pr[p], j)
  BY DEF HoldsNow
<1>11. Records'
  BY <1>1, <1>4, <1>5, <1>6, <1>7, <1>9, <1>10, RecordsFrame
<1>12. Sessions'
  BY <1>1, <1>2, <1>3, <1>7, <1>8, <1>9, SessionsQuit
<1> QED BY <1>1, <1>9, <1>11, <1>12 DEF IInv

LEMMA GiveBackKeeps ==
  ASSUME IInv, NEW p \in Procs, giveBack(p)
  PROVE  IInv'
<1> DEFINE i == pr[p].id
           q == pr[p]
           r == pr'[p]
<1>1. /\ TypeOK' /\ Only(p) /\ Notes({"turn"})
      /\ UNCHANGED <<job, now, rec, index, sess, jar, reports, acted, minted>>
      /\ q \in RequestType /\ q.pc = "giveback" /\ i \in Ids
      /\ SameAll(q, r) /\ r.pc = "unused"
      /\ (turn' = turn /\ <<"turn", i>> \in marks') \/ Returned(i, q.taken.rev)
  BY GiveBackStep
<1>2. q.kind \in requests /\ AskKept(q) /\ SessionKept(q) /\ DecisionKept(q)
  BY AskAt, Steps DEF giveBack
<1>3. HoldsNow(q, i) /\ q.taken.rev = acted[i]
  <2>1. q.pc \in Holding \ Untaken
    BY <1>1 DEF Holding, Untaken
  <2> QED BY <1>2, <2>1, HolderRecord
<1>4. \A j \in Ids : /\ RecKept(j)' /\ Moves(p, j) /\ RecordMoves(p, j)
                     /\ acted'[j] = acted[j]
                     /\ Answerable(j)' \/ (j # i /\ rec'[j] = rec[j] /\ turn'[j] = turn[j])
  BY <1>1, <1>3, TurnReturns
<1>5. /\ Same(q, r) /\ r.kind = q.kind /\ r.id = q.id /\ r.bound = q.bound /\ r.taken = q.taken
      /\ r.decision = q.decision /\ r.session = q.session /\ r.late = q.late
      /\ r.kind # "sweep"
  BY <1>1, <1>2 DEF SameAll, Same, SameTurn, SameAnswer, requests
<1>6. /\ ~Holds(r) /\ \A j \in Ids : ~HoldsNow(pr[p], j)' /\ ~Owns(pr[p], j)' /\ ~Taken(pr[p], j)'
  BY <1>1, <1>5 DEF Holds, Holding, HoldsNow, Owns, Taken
<1>7. ProcKept(p)'
  <2>1. AskKept(pr[p])'
    <3>1. q.pc \notin Untaken /\ q.taken = q.bound
      BY <1>1, <1>2 DEF AskKept, Untaken
    <3>2. r.id <= minted'.ids
      BY <1>1, <1>2, <1>5 DEF AskKept
    <3> QED BY <1>1, <1>5, <1>6, <3>1, <3>2 DEF AskKept, Holds, Holding, Owns
  <2>2. DecisionKept(pr[p])'
    BY <1>1, <1>2, <1>5 DEF DecisionKept, Holding
  <2> QED BY <1>5, <2>1, <2>2 DEF ProcKept
<1>8. \A x \in Procs \ {p} : pr'[x] = pr[x]
  BY <1>1 DEF Only
<1>9. /\ marks \subseteq marks' /\ now <= now' /\ minted.ids <= minted'.ids /\ minted.secrets <= minted'.secrets
      /\ minted.sids <= minted'.sids /\ "turn" # "replaced"
  BY <1>1 DEF Notes, IInv, TypeOK
<1>10. SessionsGoOn /\ CookieKept /\ \A x \in Sids : sess'[x] # None => sess[x] # None
  BY <1>1, SessionsAsWere
<1>11. Turns'
  BY <1>1, <1>4, <1>6, <1>7, <1>8, <1>9, TurnsFrame
<1>12. \A j \in Ids : j # i => ~HoldsNow(pr[p], j)
  BY DEF HoldsNow
<1>13. Records'
  BY <1>1, <1>2, <1>4, <1>5, <1>6, <1>8, <1>9, <1>11, <1>12, RecordsFrame
<1>14. SessionKeptGoes(p)
  <2>1. q.session # None => q.session \in Sids /\ sess'[q.session] # None /\ q.decision \in Signing
    BY <1>1, <1>2 DEF SessionKept, Made, RequestType
  <2> QED BY <1>1, <1>5, <2>1 DEF SessionKeptGoes
<1>15. Sessions'
  BY <1>1, <1>2, <1>5, <1>9, <1>10, <1>11, <1>14, SessionsGoes
<1> QED BY <1>1, <1>11, <1>13, <1>15 DEF IInv

----------------------------------------------------------------------------
(* Deciding, and the session of a sign-in *)

LEMMA Creators ==
  ASSUME IInv, NEW p \in Procs, pr[p].pc = "create"
  PROVE  pr[p].kind \in requests
<1>1. pr[p] \in ProcessType /\ pr[p] # Idle
  BY DEF IInv, TypeOK, Idle
<1>2. pr[p] \notin SweepType
  BY DEF SweepType
<1> QED BY <1>1, <1>2 DEF ProcessType, RequestType

LEMMA DecideKeeps ==
  ASSUME IInv, NEW p \in Procs, decide(p)
  PROVE  IInv'
<1> DEFINE q == pr[p]
           r == pr'[p]
<1>1. /\ TypeOK' /\ Only(p) /\ Quiet
      /\ UNCHANGED <<job, now, sess, jar, marks>>
      /\ minted.sids \in Nat /\ minted'.sids \in Nat /\ minted.sids <= minted'.sids
      /\ q \in RequestType /\ q.kind = "answer" /\ q.pc = "decide"
      /\ DecideDoes(p)
  BY DecideStep
<1>2. q.kind \in requests /\ AskKept(q) /\ DecisionKept(q) /\ SessionKept(q)
  <2>1. At(p, {"answer"}, "decide")
    BY DEF decide
  <2> QED BY <2>1, AskAt, Steps
<1>3. /\ Same(q, r) /\ SameTurn(q, r) /\ r.session = None /\ r.late = q.late /\ r.kind = "answer"
      /\ r.turn = q.turn /\ r.taken = q.taken /\ r.done = q.done
      /\ \/ r.pc = "cleanup"
         \/ r.pc = "write" /\ r.decision = "step"
         \/ r.pc = "check" /\ r.decision = "finished"
         \/ r.pc = "delete" /\ r.decision = "registered"
         \/ /\ r.pc = "create" /\ r.decision \in Signing /\ r.who \in Users
            /\ r.sid = minted.sids + 1 /\ r.sid \in Sids /\ minted'.sids = minted.sids + 1
  BY <1>1, <1>2 DEF DecideDoes, SessionKept, Same, SameTurn
<1>4. q.pc \notin Untaken /\ r.pc \notin {"report", "replaced", "reply"} /\ Holds(q)
  BY <1>1, <1>2, <1>3 DEF Untaken, Holds, Holding
<1>5. Still /\ UNCHANGED rec /\ Notes({"turn"}) /\ "turn" # "completed"
  BY <1>1 DEF Quiet, Still, Notes, IInv, TypeOK
<1>6. /\ r.pc \in {"check", "create", "write"} => r.kind = "answer"
      /\ r.pc = "check" => r.decision = "finished"
      /\ r.pc = "create" => r.decision \in Signing /\ r.who \in Users
      /\ r.pc = "write" => r.decision \in {"step", "authenticated"}
      /\ r.pc = "delete" => Settles(r)
  BY <1>3 DEF Settles, Finishing
<1>7. Holds(r)
  BY <1>1, <1>2, <1>3 DEF Holds, Holding, DecisionKept
<1>8. DecisionKept(pr[p])'
  BY <1>1, <1>2, <1>3, <1>4, <1>6 DEF DecisionKept, Holding, Settles
<1>9. Turns' /\ Records'
  BY <1>1, <1>2, <1>3, <1>4, <1>5, <1>7, <1>8, AskGoesOn
<1>10. SessionsGoOn /\ CookieKept /\ \A x \in Sids : sess'[x] # None => sess[x] # None
  BY <1>1, <1>5, SessionsAsWere
<1>11. r.pc = "create" => r.sid # None /\ r.sid \in Sids /\ r.sid <= minted'.sids /\ sess'[r.sid] = None
                          /\ \A s \in Procs : pr[s].pc = "create" /\ pr[s].kind \in requests => pr[s].sid # r.sid
  <2> SUFFICES ASSUME r.pc = "create"
               PROVE  r.sid # None /\ r.sid \in Sids /\ r.sid <= minted'.sids /\ sess'[r.sid] = None
                      /\ \A s \in Procs : pr[s].pc = "create" /\ pr[s].kind \in requests => pr[s].sid # r.sid
    OBVIOUS
  <2>1. r.sid = minted.sids + 1 /\ r.sid \in Sids /\ minted'.sids = minted.sids + 1
    BY <1>3
  <2>2. sess[r.sid] = None
    BY <1>1, <2>1, Constants DEF IInv, TypeOK
  <2>3. ASSUME NEW s \in Procs, pr[s].pc = "create", pr[s].kind \in requests
        PROVE  pr[s].sid # r.sid
    <3>1. pr[s].sid \in Sids /\ pr[s].sid <= minted.sids
      BY <2>3, Kinds DEF IInv, Sessions, SessionKept, RequestType
    <3> QED BY <1>1, <2>1, <3>1, Constants
  <2> QED BY <1>1, <2>1, <2>2, <2>3, Constants
<1>12. SessionKeptGoes(p)
  BY <1>3, <1>11 DEF SessionKeptGoes, Signing
<1>13. SessionKept(pr[p])'
  BY <1>2, <1>3, <1>10, <1>12, SessionKeptThen
<1>14. Sessions'
  <2>1. CASE r.pc # "create"
    <3>1. q.session = None
      BY <1>1, <1>2 DEF SessionKept
    <3> QED BY <1>1, <1>2, <1>3, <1>5, <1>9, <1>10, <1>12, <2>1, <3>1, SessionsGoes
  <2>2. CASE r.pc = "create"
    <3>1. \A s \in Procs \ {p} : pr'[s] = pr[s]
      BY <1>1 DEF Only
    <3>2. \A s \in Procs \ {p} : pr[s].pc = "create" => pr[s].sid # r.sid
      <4>1. \A s \in Procs : pr[s].pc = "create" => pr[s].kind \in requests
        BY Creators
      <4> QED BY <1>11, <2>2, <4>1
    <3>3. r.kind # "sweep" /\ q.pc \notin {"report", "replaced"} /\ q.session = None
      BY <1>1, <1>2, <1>3 DEF SessionKept
    <3>4. None \notin Sids
      BY Constants
    <3> QED BY <1>1, <1>9, <1>10, <1>13, <3>1, <3>2, <3>3, <3>4, SessionsFrame DEF CookieKept
  <2> QED BY <2>1, <2>2
<1> QED BY <1>1, <1>9, <1>14 DEF IInv

LEMMA CheckKeeps ==
  ASSUME IInv, NEW p \in Procs, signInSessionIsLive(p)
  PROVE  IInv'
<1> DEFINE q == pr[p]
           r == pr'[p]
<1>1. /\ TypeOK' /\ Only(p) /\ Quiet
      /\ UNCHANGED <<job, now, sess, jar, marks, minted>>
      /\ q \in RequestType /\ q.kind = "answer" /\ q.pc = "check" /\ SameAll(q, r)
      /\ \/ r.pc = "cleanup"
         \/ r.pc = "delete" /\ (q.taken.sid # None => sess[q.taken.sid].live \/ r.stale)
  BY CheckStep
<1>2. q.kind \in requests /\ AskKept(q) /\ DecisionKept(q) /\ SessionKept(q)
  BY AskAt, Steps DEF signInSessionIsLive
<1>3. /\ Same(q, r) /\ r.kind = "answer" /\ r.turn = q.turn /\ r.taken = q.taken /\ r.done = q.done
      /\ r.decision = "finished" /\ r.session = None /\ r.late = q.late /\ q.session = None
  BY <1>1, <1>2 DEF SameAll, Same, SameTurn, SameAnswer, DecisionKept, SessionKept
<1>4. q.pc \notin Untaken /\ r.pc \notin {"report", "replaced", "reply", "create"} /\ Holds(q) /\ ~q.done
  BY <1>1, <1>2 DEF Untaken, Holds, Holding, DecisionKept
<1>5. Still /\ UNCHANGED rec /\ Notes({"turn"}) /\ "turn" # "completed" /\ "turn" # "replaced"
      /\ minted.sids <= minted'.sids
  BY <1>1 DEF Quiet, Still, Notes, IInv, TypeOK
<1>6. Holds(r)
  BY <1>1, <1>2, <1>3, <1>4 DEF Holds, Holding
<1>7. DecisionKept(pr[p])'
  BY <1>1, <1>3, <1>4 DEF DecisionKept, Settles, Finishing
<1>8. Turns' /\ Records'
  BY <1>1, <1>2, <1>3, <1>4, <1>5, <1>6, <1>7, AskGoesOn
<1>9. r.pc = "delete" => ~r.late \/ r.stale
  <2>1. q.taken = q.bound
    BY <1>2, <1>4 DEF AskKept
  <2>2. q.late => q.taken.sid # None /\ ~sess[q.taken.sid].live
    BY <1>2, <2>1 DEF SessionKept, Over
  <2> QED BY <1>1, <1>3, <2>2
<1>10. SessionsGoOn /\ CookieKept /\ \A x \in Sids : sess'[x] # None => sess[x] # None
  BY <1>1, <1>5, SessionsAsWere
<1>11. SessionKeptGoes(p)
  BY <1>1, <1>3, <1>9 DEF SessionKeptGoes, Signing
<1>12. Sessions'
  BY <1>1, <1>2, <1>3, <1>4, <1>5, <1>8, <1>10, <1>11, SessionsGoes
<1> QED BY <1>1, <1>8, <1>12 DEF IInv

LEMMA CreateKeeps ==
  ASSUME IInv, NEW p \in Procs, createBrowserSession(p)
  PROVE  IInv'
<1> DEFINE q == pr[p]
           r == pr'[p]
           s == pr[p].sid
<1>1. /\ TypeOK' /\ Only(p) /\ Quiet /\ Notes({"unsettled"})
      /\ UNCHANGED <<job, now, jar, minted>>
      /\ q \in RequestType /\ q.kind = "answer" /\ q.pc = "create"
      /\ q.who \in Users /\ q.decision \in Signing
      /\ CreateDoes(p)
  BY CreateStep
<1>2. q.kind \in requests /\ AskKept(q) /\ DecisionKept(q) /\ SessionKept(q)
  BY AskAt, Steps DEF createBrowserSession, storeSession
<1>3. q.session = None /\ s \in Sids /\ sess[s] = None /\ ~q.done
  BY <1>1, <1>2 DEF SessionKept, Made, RequestType, DecisionKept, Holding
<1>4. /\ Same(q, r) /\ r.kind = "answer" /\ r.turn = q.turn /\ r.taken = q.taken /\ r.done = q.done
      /\ r.decision = q.decision /\ r.late = q.late
      /\ \/ r.session = None /\ r.pc = "cleanup" /\ sess' = sess
         \/ /\ r.session = None /\ r.pc = "cleanup" /\ <<"unsettled", s>> \in marks'
            /\ sess' = [sess EXCEPT ![s] = [user |-> q.who, live |-> TRUE]]
         \/ /\ r.session = s /\ sess' = [sess EXCEPT ![s] = [user |-> q.who, live |-> TRUE]]
            /\ \/ r.pc = "cleanup"
               \/ r.pc = "delete" /\ q.decision = "signed_in"
               \/ r.pc = "write" /\ q.decision = "authenticated"
  BY <1>1, <1>3 DEF CreateDoes, SameAll, Same, SameTurn, SameAnswer
<1>5. q.pc \notin Untaken /\ r.pc \notin {"report", "replaced", "reply", "create"} /\ Holds(q)
  BY <1>1, <1>2, <1>4 DEF Untaken, Holds, Holding
<1>6. Still /\ UNCHANGED rec /\ "unsettled" # "completed" /\ "unsettled" # "replaced"
      /\ minted.sids <= minted'.sids
  BY <1>1 DEF Quiet, Still, IInv, TypeOK
<1>7. Holds(r)
  <2>1. r.kind \in requests /\ r.done = q.done /\ r.pc \in {"cleanup", "delete", "write"}
    BY <1>1, <1>2, <1>4
  <2> QED BY <1>3, <2>1 DEF Holds, Holding
<1>8. DecisionKept(pr[p])'
  BY <1>3, <1>4, <1>5 DEF DecisionKept, Settles, Finishing
<1>9. Turns' /\ Records'
  BY <1>1, <1>2, <1>4, <1>5, <1>6, <1>7, <1>8, AskGoesOn
<1>10. /\ sess \in [Sids -> SessionType \cup {None}]
       /\ \A x \in Sids \ {s} : sess'[x] = sess[x]
       /\ r.session # None => r.session = s /\ sess'[s] # None
  <2>1. sess \in [Sids -> SessionType \cup {None}]
    BY DEF IInv, TypeOK
  <2>2. [user |-> q.who, live |-> TRUE] \in SessionType
    BY <1>1 DEF SessionType
  <2> QED BY <1>3, <1>4, <2>1, <2>2, Constants
<1>11. SessionsGoOn
  BY <1>3, <1>10 DEF SessionsGoOn, Made
<1>12. CookieKept
  <2>1. jar.sid \in Sids \cup {None} /\ (jar.sid # None => sess[jar.sid] # None)
    BY DEF IInv, TypeOK, JarType, Sessions, Made
  <2> QED BY <1>1, <1>3, <1>6, <1>10, <2>1 DEF CookieKept
<1>13. SessionKeptGoes(p)
  <2>1. /\ r.pc \in {"cleanup", "delete", "write"} /\ r.kind = "answer"
        /\ r.decision \in Signing /\ r.decision # "finished"
        /\ r.pc \in {"write", "delete"} => r.session = s
    BY <1>1, <1>4 DEF Signing
  <2>2. (r.session # None => sess'[r.session] # None) /\ s # None
    BY <1>3, <1>10, Constants
  <2> QED BY <2>1, <2>2 DEF SessionKeptGoes
<1>14. SessionKept(pr[p])'
  BY <1>2, <1>4, <1>11, <1>13, SessionKeptThen
<1>15. Sessions'
  <2>1. /\ \A x \in Procs \ {p} : pr'[x] = pr[x]
        /\ r.kind # "sweep" /\ marks \subseteq marks'
        /\ \A x : <<"replaced", x>> \notin marks' \ marks
    BY <1>1, <1>4, <1>6 DEF Only, Notes
  <2>2. ASSUME NEW x \in Sids
        PROVE  sess[x] = None /\ sess'[x] # None =>
                 x = s /\ (r.session = s \/ <<"unsettled", s>> \in marks')
    BY <1>4, <1>10, <2>2
  <2>3. None \notin Sids
    BY Constants
  <2> QED BY <1>1, <1>2, <1>3, <1>4, <1>5, <1>6, <1>9, <1>11, <1>12, <1>14, <2>1, <2>2, <2>3, SessionsFrame DEF CookieKept
<1> QED BY <1>1, <1>9, <1>15 DEF IInv

----------------------------------------------------------------------------
(* The clean-up, and the sessions that end *)

LEMMA SessionHeld ==
  ASSUME SessionsGoOn, NEW q \in RequestType, SessionKept(q)
  PROVE  q.session # None => q.session \in Sids /\ sess'[q.session] # None /\ q.decision \in Signing
BY DEF SessionKept, SessionsGoOn, Made, RequestType

LEMMA EndLeaves ==
  ASSUME IInv, TypeOK', NEW s \in Sids, Made(s), Ended(s), UNCHANGED <<rec, jar>>
  PROVE  /\ SessionsGoOn /\ CookieKept /\ Over(s)' /\ ~sess'[s].live
         /\ \A x \in Sids : sess'[x] # None => sess[x] # None
<1>1. SessionsGoOn /\ (\A t \in Sids : Made(t)' => Made(t)) /\ Over(s)' /\ ~sess'[s].live
  BY EndGoesOn DEF IInv
<1>2. jar.sid \in Sids \cup {None} /\ (jar.sid # None => sess[jar.sid] # None)
  BY DEF IInv, TypeOK, JarType, Sessions, Made
<1> QED BY <1>1, <1>2 DEF CookieKept, SessionsGoOn, Made

LEMMA GiveTurnBackKeeps ==
  ASSUME IInv, NEW p \in Procs, giveTurnBack(p)
  PROVE  IInv'
<1> DEFINE q == pr[p]
           r == pr'[p]
           i == pr[p].id
<1>1. /\ TypeOK' /\ Only(p) /\ Quiet /\ Notes({"turn"})
      /\ UNCHANGED <<job, now, sess, jar, minted>>
      /\ q \in RequestType /\ q.pc = "cleanup" /\ i \in Ids /\ SameAll(q, r)
      /\ \/ /\ r.pc = "unused"
            /\ q.done \/ Expired(q.taken) \/ <<"turn", i>> \in marks' \/ rec[i] = None \/ rec[i].rev # q.taken.rev
         \/ r.pc = "giveback" /\ ~q.done /\ rec[i] # None /\ rec[i].rev = q.taken.rev
  BY GiveTurnBackStep
<1>2. /\ q.kind \in requests /\ AskKept(q) /\ DecisionKept(q) /\ SessionKept(q) /\ Matches(q)
      /\ RecKept(i)
  <2>1. At(p, requests, "cleanup")
    BY DEF giveTurnBack
  <2> QED BY <1>1, <2>1, AskAt, Steps DEF IInv, Turns
<1>3. /\ Same(q, r) /\ r.kind = q.kind /\ r.turn = q.turn /\ r.taken = q.taken /\ r.done = q.done
      /\ r.decision = q.decision /\ r.session = q.session /\ r.late = q.late
  BY <1>1 DEF SameAll, Same, SameTurn, SameAnswer
<1>4. /\ q.pc \notin Untaken /\ r.pc \notin {"report", "replaced", "reply", "create"}
      /\ r.pc \in {"unused", "giveback"} /\ r.pc \notin Untaken
  BY <1>1 DEF Untaken
<1>5. Still /\ UNCHANGED rec /\ "turn" # "completed" /\ "turn" # "replaced" /\ minted.sids <= minted'.sids
  BY <1>1 DEF Quiet, Still, IInv, TypeOK
<1>6. q.taken = q.bound /\ (Holds(q) => q.turn = q.taken.rev)
  BY <1>2, <1>4 DEF AskKept
<1>7. DecisionKept(pr[p])'
  BY <1>1, <1>2, <1>3 DEF DecisionKept, Holding
<1>8. Holds(r) => /\ Holds(q) /\ q.turn = acted[i] /\ r.pc = "giveback"
  <2>1. Holds(r) => r.pc = "giveback"
    BY <1>1 DEF Holds, Holding
  <2>2. r.pc = "giveback" => Holds(q)
    BY <1>1, <1>2 DEF Holds
  <2>3. r.pc = "giveback" => rec[i] # None /\ rec[i].rev = q.taken.rev /\ rec[i].rev = acted[i]
    BY <1>1, <1>2 DEF RecKept
  <2> QED BY <1>6, <2>1, <2>2, <2>3
<1>9. ASSUME NEW j \in Ids, HoldsNow(q, j)
      PROVE  Holds(r) \/ Answerable(j)'
  <2>1. j = i /\ Holds(q) /\ q.turn = acted[i] /\ ~q.done /\ q.bound.rev = acted[i]
    BY <1>1, <1>6, <1>9 DEF HoldsNow, Holds, Holding
  <2>2. rec[i] # None => rec[i] = q.taken /\ rec[i].rev = q.taken.rev
    BY <1>2, <1>6, <2>1 DEF Matches
  <2>3. CASE r.pc = "giveback"
    BY <1>2, <1>3, <2>3 DEF Holds, Holding
  <2>4. CASE r.pc = "unused"
    <3>1. rec[i] = None \/ Expired(rec[i]) \/ <<"turn", i>> \in marks'
      BY <1>1, <2>1, <2>2, <2>4
    <3>2. rec'[j] = None \/ Expired(rec[j])' \/ <<"turn", j>> \in marks'
      BY <1>1, <1>5, <2>1, <3>1 DEF Expired
    <3> QED BY <3>2 DEF Answerable
  <2> QED BY <1>1, <2>3, <2>4
<1>10. Turns' /\ Records'
  BY <1>1, <1>2, <1>3, <1>4, <1>5, <1>7, <1>8, <1>9, AskGoesOn
<1>11. SessionsGoOn /\ CookieKept /\ \A x \in Sids : sess'[x] # None => sess[x] # None
  BY <1>1, <1>5, SessionsAsWere
<1>12. q.session # None => sess'[q.session] # None /\ q.decision \in Signing
  BY <1>1, <1>2, <1>11, SessionHeld
<1>13. SessionKeptGoes(p)
  BY <1>3, <1>4, <1>12 DEF SessionKeptGoes
<1>14. Sessions'
  BY <1>1, <1>2, <1>3, <1>4, <1>5, <1>10, <1>11, <1>13, SessionsGoes
<1> QED BY <1>1, <1>10, <1>14 DEF IInv

LEMMA UnusedKeeps ==
  ASSUME IInv, NEW p \in Procs, endUnusedSession(p)
  PROVE  IInv'
<1> DEFINE q == pr[p]
           r == pr'[p]
           s == pr[p].session
<1>1. /\ TypeOK' /\ Only(p) /\ Quiet /\ Notes({"end"}) /\ r = Idle
      /\ UNCHANGED <<job, now, jar, minted>>
      /\ q \in RequestType /\ q.pc = "unused"
      /\ \/ UNCHANGED sess /\ (s # None => <<"end", s>> \in marks')
         \/ s \in Sids /\ Ended(s)
  BY UnusedStep
<1>2. q.kind \in requests /\ SessionKept(q)
  BY AskAt, Steps DEF endUnusedSession
<1>3. Still /\ UNCHANGED rec /\ "end" # "completed" /\ "end" # "replaced" /\ minted.sids <= minted'.sids
  BY <1>1 DEF Quiet, Still, IInv, TypeOK
<1>4. \A i \in Ids : ~HoldsNow(q, i)
  BY <1>1 DEF HoldsNow, Holds, Holding
<1>5. Turns' /\ Records'
  BY <1>1, <1>3, <1>4, Quits
<1>6. /\ SessionsGoOn /\ CookieKept /\ \A x \in Sids : sess'[x] # None => sess[x] # None
      /\ s # None /\ sess'[s].live => <<"end", s>> \in marks'
  <2>1. CASE UNCHANGED sess /\ (s # None => <<"end", s>> \in marks')
    BY <1>1, <1>3, <2>1, SessionsAsWere
  <2>2. CASE s \in Sids /\ Ended(s)
    <3>1. Made(s)
      BY <1>2, <2>2, Constants DEF SessionKept
    <3> QED BY <1>1, <1>3, <2>2, <3>1, EndLeaves
  <2> QED BY <1>1, <2>1, <2>2
<1>7. Sessions'
  BY <1>1, <1>2, <1>3, <1>5, <1>6, SessionsQuit
<1> QED BY <1>1, <1>5, <1>7 DEF IInv

LEMMA ReplacedKeeps ==
  ASSUME IInv, NEW p \in Procs, endReplacedSession(p)
  PROVE  IInv'
<1> DEFINE q == pr[p]
           r == pr'[p]
           s == pr[p].taken.sid
<1>1. /\ TypeOK' /\ Only(p) /\ Quiet /\ Notes({"end"})
      /\ UNCHANGED <<job, now, jar, minted>>
      /\ q \in RequestType /\ q.kind = "answer" /\ q.pc = "replaced" /\ s \in Sids
      /\ SameAll(q, r) /\ r.pc = "reply"
      /\ (UNCHANGED sess /\ <<"end", s>> \in marks') \/ Ended(s)
  BY ReplacedStep
<1>2. q.kind \in requests /\ AskKept(q) /\ DecisionKept(q) /\ SessionKept(q)
  BY AskAt, Steps DEF endReplacedSession
<1>3. /\ Same(q, r) /\ r.kind = "answer" /\ r.turn = q.turn /\ r.taken = q.taken /\ r.done = q.done
      /\ r.decision = q.decision /\ r.session = q.session /\ r.late = q.late /\ r.secret = q.secret
  BY <1>1 DEF SameAll, Same, SameTurn, SameAnswer
<1>4. q.pc \notin Untaken /\ ~Holds(q) /\ ~Holds(r) /\ r.pc \notin {"report", "create"}
  BY <1>1 DEF Untaken, Holds, Holding
<1>5. Still /\ UNCHANGED rec /\ "end" # "completed" /\ "end" # "replaced" /\ minted.sids <= minted'.sids
  BY <1>1 DEF Quiet, Still, IInv, TypeOK
<1>6. DecisionKept(pr[p])'
  BY <1>1, <1>2, <1>3 DEF DecisionKept, Holding
<1>7. \A i \in Ids : ~HoldsNow(q, i)
  BY <1>4 DEF HoldsNow
<1>8. Turns' /\ Records'
  BY <1>1, <1>2, <1>3, <1>4, <1>5, <1>6, <1>7, AskGoesOn
<1>9. /\ SessionsGoOn /\ CookieKept /\ \A x \in Sids : sess'[x] # None => sess[x] # None
      /\ sess'[s].live => <<"end", s>> \in marks'
  <2>1. CASE UNCHANGED sess /\ <<"end", s>> \in marks'
    BY <1>1, <1>5, <2>1, SessionsAsWere
  <2>2. CASE Ended(s)
    <3>1. s # None /\ q.taken = q.bound
      BY <1>1, <1>2, <1>4, Constants DEF AskKept
    <3>2. Made(s)
      BY <1>2, <3>1 DEF SessionKept, MadeIn
    <3> QED BY <1>1, <1>5, <2>2, <3>2, EndLeaves
  <2> QED BY <1>1, <2>1, <2>2
<1>10. q.session # None => sess'[q.session] # None /\ q.decision \in Signing
  BY <1>1, <1>2, <1>9, SessionHeld
<1>11. q.session # None => <<"shown", q.session>> \in marks'
  BY <1>1, <1>2 DEF SessionKept, Notes
<1>12. SessionKeptGoes(p)
  BY <1>1, <1>3, <1>10, <1>11 DEF SessionKeptGoes
<1>13. Sessions'
  BY <1>1, <1>2, <1>3, <1>4, <1>5, <1>8, <1>9, <1>12, SessionsGoes
<1> QED BY <1>1, <1>8, <1>13 DEF IInv

----------------------------------------------------------------------------
(* The user switch *)

LEMMA ShownKeeps ==
  ASSUME IInv, NEW p \in Procs, switchedUserOf(p)
  PROVE  IInv'
<1> DEFINE q == pr[p]
           r == pr'[p]
           x == pr[p].taken
<1>1. /\ TypeOK' /\ Only(p) /\ Quiet
      /\ UNCHANGED <<job, now, sess, jar, marks, minted>>
      /\ q \in RequestType /\ q.kind = "switch" /\ q.pc = "shown" /\ x \in RecordType
      /\ ShownDoes(p)
  BY ShownStep
<1>2. q.kind \in requests /\ AskKept(q) /\ DecisionKept(q) /\ SessionKept(q)
  BY AskAt, Steps DEF switchedUserOf
<1>3. /\ Same(q, r) /\ r.kind = "switch" /\ r.turn = q.turn /\ r.taken = x /\ r.done = q.done
      /\ r.decision = q.decision /\ r.session = q.session /\ r.late = q.late
      /\ \/ r.pc = "cleanup"
         \/ r.pc = "delete" /\ ~Shows(x)
         \/ r.pc = "ending" /\ r.who = shownUser(x) /\ r.todo = switchedSids(x) /\ r.clear = q.clear
  BY <1>1 DEF ShownDoes, SameAll, Same, SameTurn, SameAnswer
<1>4. /\ q.pc \notin Untaken /\ r.pc \notin {"report", "replaced", "reply", "create", "check", "write"}
      /\ q.decision = None /\ q.session = None /\ ~q.done
  BY <1>1, <1>2, <1>3 DEF Untaken, DecisionKept, Holding
<1>5. Still /\ UNCHANGED rec /\ Notes({"turn"}) /\ "turn" # "completed" /\ "turn" # "replaced"
      /\ minted.sids <= minted'.sids
  BY <1>1 DEF Quiet, Still, Notes, IInv, TypeOK
<1>6. Holds(q) /\ Holds(r)
  BY <1>1, <1>2, <1>3, <1>4 DEF Holds, Holding, requests
<1>7. DecisionKept(pr[p])'
  BY <1>3, <1>4 DEF DecisionKept, Settles
<1>8. Turns' /\ Records'
  BY <1>1, <1>2, <1>3, <1>4, <1>5, <1>6, <1>7, AskGoesOn
<1>9. SessionsGoOn /\ CookieKept /\ \A s \in Sids : sess'[s] # None => sess[s] # None
  BY <1>1, <1>5, SessionsAsWere
<1>10. x = q.bound
  BY <1>2, <1>4 DEF AskKept
<1>11. \A s \in switchedSids(x) : sess'[s] # None
  BY <1>1, <1>2, <1>10, SwitchedSids DEF SessionKept, Made
<1>12. SessionKeptGoes(p)
  <2>1. r.pc \in {"cleanup", "delete", "ending"} /\ r.session = None /\ r.decision \notin Signing \cup {"finished"}
    BY <1>3, <1>4, NoneDecides DEF Signing
  <2>2. ~q.clear
    BY <1>1, <1>2 DEF SessionKept
  <2> QED BY <1>3, <1>11, <2>1, <2>2 DEF SessionKeptGoes
<1>13. Sessions'
  BY <1>1, <1>2, <1>3, <1>4, <1>5, <1>8, <1>9, <1>12, SessionsGoes
<1> QED BY <1>1, <1>8, <1>13 DEF IInv

LEMMA SwitchKeeps ==
  ASSUME IInv, NEW p \in Procs, endSwitchedSessions(p)
  PROVE  IInv'
<1> DEFINE q == pr[p]
           r == pr'[p]
           x == pr[p].taken
           named == pr[p].jar.sid
<1>1. /\ TypeOK' /\ Only(p) /\ Quiet
      /\ UNCHANGED <<job, now, jar, marks, minted>>
      /\ q \in RequestType /\ q.kind = "switch" /\ q.pc = "ending" /\ x \in RecordType
      /\ SwitchDoes(p)
  BY SwitchStep
<1>2. q.kind \in requests /\ AskKept(q) /\ DecisionKept(q) /\ SessionKept(q)
  BY AskAt, Steps DEF endSwitchedSessions
<1>3. /\ Same(q, r) /\ r.kind = "switch" /\ r.turn = q.turn /\ r.taken = x /\ r.done = q.done
      /\ r.decision = q.decision /\ r.session = q.session /\ r.late = q.late /\ r.jar = q.jar
      /\ r.who = q.who /\ r.clear = q.clear /\ r.unread = q.unread
      /\ r.pc \in {"cleanup", "ending", "cookie", "delete"}
  BY <1>1 DEF SwitchDoes, Same, SameTurn, SameAnswer
<1>4. /\ q.pc \notin Untaken /\ r.pc \notin {"report", "replaced", "reply", "create", "check", "write"}
      /\ q.decision = None /\ q.session = None /\ ~q.done
  BY <1>1, <1>2, <1>3 DEF Untaken, DecisionKept, Holding
<1>5. Still /\ UNCHANGED rec /\ Notes({"turn"}) /\ "turn" # "completed" /\ "turn" # "replaced"
      /\ minted.sids <= minted'.sids
  BY <1>1 DEF Quiet, Still, Notes, IInv, TypeOK
<1>6. Holds(q) /\ Holds(r)
  BY <1>1, <1>2, <1>3, <1>4 DEF Holds, Holding, requests
<1>7. DecisionKept(pr[p])'
  BY <1>3, <1>4 DEF DecisionKept, Settles
<1>8. Turns' /\ Records'
  BY <1>1, <1>2, <1>3, <1>4, <1>5, <1>6, <1>7, AskGoesOn
<1>9. /\ q.who = shownUser(x) /\ \A s \in q.todo : Made(s)
      /\ \A s \in switchedSids(x) \ q.todo : Over(s)
      /\ q.clear => named # None /\ (named \in q.todo \/ Over(named))
      /\ named # None => Made(named)
      /\ switchedSids(x) \subseteq Sids /\ q.todo \subseteq Sids /\ named \in Sids \cup {None}
  BY <1>1, <1>2, SwitchedSids DEF SessionKept, RequestType, JarType
<1>10. r.session = None /\ r.decision \notin Signing \cup {"finished"}
  BY <1>3, <1>4, NoneDecides DEF Signing
<1>11. CASE r.pc = "cleanup" /\ UNCHANGED sess
  <2>1. SessionsGoOn /\ CookieKept /\ \A s \in Sids : sess'[s] # None => sess[s] # None
    BY <1>1, <1>5, <1>11, SessionsAsWere
  <2>2. SessionKeptGoes(p)
    BY <1>10, <1>11 DEF SessionKeptGoes
  <2>3. Sessions'
    BY <1>1, <1>2, <1>3, <1>4, <1>5, <1>8, <2>1, <2>2, SessionsGoes
  <2> QED BY <1>1, <1>8, <2>3 DEF IInv
<1>12. ASSUME NEW s \in q.todo, s \in Sids, Ended(s), r.pc = "ending", r.todo = q.todo \ {s}
       PROVE  IInv'
  <2>1. SessionsGoOn /\ CookieKept /\ Over(s)' /\ \A y \in Sids : sess'[y] # None => sess[y] # None
    BY <1>1, <1>5, <1>9, <1>12, EndLeaves
  <2>2. /\ \A y \in Sids : Made(y) => sess'[y] # None
        /\ \A y \in Sids : Over(y) => sess'[y] # None /\ ~sess'[y].live
    BY <2>1, SessionsStay DEF Made, Over
  <2>3. /\ \A y \in r.todo : sess'[y] # None
        /\ \A y \in switchedSids(r.taken) \ r.todo : sess'[y] # None /\ ~sess'[y].live
        /\ r.clear => named # None /\ (named \in r.todo \/ (sess'[named] # None /\ ~sess'[named].live))
    BY <1>3, <1>9, <1>12, <2>1, <2>2 DEF Over
  <2>4. SessionKeptGoes(p)
    BY <1>3, <1>9, <1>10, <1>12, <2>3 DEF SessionKeptGoes
  <2>5. Sessions'
    BY <1>1, <1>2, <1>3, <1>4, <1>5, <1>8, <2>1, <2>4, SessionsGoes
  <2> QED BY <1>1, <1>8, <2>5 DEF IInv
<1>13. CASE UNCHANGED sess /\ r.pc = "cookie" /\ ~q.clear /\ \A s \in switchedSids(x) : Over(s)
  <2>1. SessionsGoOn /\ CookieKept /\ \A s \in Sids : sess'[s] # None => sess[s] # None
    BY <1>1, <1>5, <1>13, SessionsAsWere
  <2>2. \A s \in switchedSids(r.taken) : sess'[s] # None /\ ~sess'[s].live
    BY <1>3, <1>13 DEF Over
  <2>3. SessionKeptGoes(p)
    BY <1>3, <1>9, <1>10, <1>13, <2>2 DEF SessionKeptGoes
  <2>4. Sessions'
    BY <1>1, <1>2, <1>3, <1>4, <1>5, <1>8, <2>1, <2>3, SessionsGoes
  <2> QED BY <1>1, <1>8, <2>4 DEF IInv
<1>14. CASE UNCHANGED sess /\ r.pc = "delete" /\ SwitchedOff(q)
  <2>1. SessionsGoOn /\ CookieKept /\ \A s \in Sids : sess'[s] # None => sess[s] # None
    BY <1>1, <1>5, <1>14, SessionsAsWere
  <2>2. SwitchedOff(pr[p])'
    BY <1>3, <1>14 DEF SwitchedOff, Made, LiveFor, switchedSids, shownUser
  <2>3. SessionKeptGoes(p)
    BY <1>10, <1>14, <2>2 DEF SessionKeptGoes
  <2>4. Sessions'
    BY <1>1, <1>2, <1>3, <1>4, <1>5, <1>8, <2>1, <2>3, SessionsGoes
  <2> QED BY <1>1, <1>8, <2>4 DEF IInv
<1> QED BY <1>1, <1>11, <1>12, <1>13, <1>14 DEF SwitchDoes

LEMMA CookieKeeps ==
  ASSUME IInv, NEW p \in Procs, switchCookieSessionId(p)
  PROVE  IInv'
<1> DEFINE q == pr[p]
           r == pr'[p]
           x == pr[p].taken
           named == pr[p].jar.sid
<1>1. /\ TypeOK' /\ Only(p) /\ Quiet
      /\ UNCHANGED <<job, now, sess, jar, marks, minted>>
      /\ q \in RequestType /\ q.kind = "switch" /\ q.pc = "cookie" /\ x \in RecordType
      /\ CookieDoes(p)
  BY CookieStep
<1>2. q.kind \in requests /\ AskKept(q) /\ DecisionKept(q) /\ SessionKept(q)
  BY AskAt, Steps DEF switchCookieSessionId
<1>3. /\ Same(q, r) /\ r.kind = "switch" /\ r.turn = q.turn /\ r.taken = x /\ r.done = q.done
      /\ r.decision = q.decision /\ r.session = q.session /\ r.late = q.late /\ r.jar = q.jar
      /\ \/ r.pc = "delete" /\ SwitchedOff(r)
         \/ r.pc = "ending" /\ r.who = q.who /\ r.todo = {named} /\ r.clear /\ named # None
  BY <1>1 DEF CookieDoes, Same, SameTurn, SameAnswer
<1>4. /\ q.pc \notin Untaken /\ r.pc \notin {"report", "replaced", "reply", "create", "check", "write"}
      /\ q.decision = None /\ q.session = None /\ ~q.done
  BY <1>1, <1>2, <1>3 DEF Untaken, DecisionKept, Holding
<1>5. Still /\ UNCHANGED rec /\ Notes({"turn"}) /\ "turn" # "completed" /\ "turn" # "replaced"
      /\ minted.sids <= minted'.sids
  BY <1>1 DEF Quiet, Still, Notes, IInv, TypeOK
<1>6. Holds(q) /\ Holds(r)
  BY <1>1, <1>2, <1>3, <1>4 DEF Holds, Holding, requests
<1>7. DecisionKept(pr[p])'
  BY <1>3, <1>4 DEF DecisionKept, Settles
<1>8. Turns' /\ Records'
  BY <1>1, <1>2, <1>3, <1>4, <1>5, <1>6, <1>7, AskGoesOn
<1>9. SessionsGoOn /\ CookieKept /\ \A s \in Sids : sess'[s] # None => sess[s] # None
  BY <1>1, <1>5, SessionsAsWere
<1>10. /\ q.who = shownUser(x) /\ \A s \in switchedSids(x) : sess'[s] # None /\ ~sess'[s].live
       /\ named # None => sess'[named] # None
  BY <1>1, <1>2 DEF SessionKept, Made, Over
<1>11. r.pc = "delete" => SwitchedOff(pr[p])'
  BY <1>1, <1>3 DEF SwitchedOff, Made, LiveFor, switchedSids, shownUser
<1>12. SessionKeptGoes(p)
  <2>1. r.pc \in {"delete", "ending"} /\ r.session = None /\ r.decision \notin Signing \cup {"finished"}
    BY <1>3, <1>4, NoneDecides DEF Signing
  <2> QED BY <1>3, <1>10, <1>11, <2>1 DEF SessionKeptGoes
<1>13. Sessions'
  BY <1>1, <1>2, <1>3, <1>4, <1>5, <1>8, <1>9, <1>12, SessionsGoes
<1> QED BY <1>1, <1>8, <1>13 DEF IInv

----------------------------------------------------------------------------
(* Crashes, and processes that begin *)

LEMMA CrashKeeps ==
  ASSUME IInv, NEW p \in Procs, Crash(p)
  PROVE  IInv'
<1> DEFINE q == pr[p]
           r == pr'[p]
<1>1. /\ TypeOK' /\ Only(p) /\ Quiet /\ Notes({"turn", "report", "end"}) /\ r = Idle
      /\ UNCHANGED <<job, now, sess, jar, minted>>
      /\ q.kind \in requests =>
           /\ Holds(q) => <<"turn", q.id>> \in marks'
           /\ q.session # None => <<"end", q.session>> \in marks'
           /\ q.pc \in {"report", "replaced"} /\ q.taken.sid # None => <<"end", q.taken.sid>> \in marks'
  BY CrashStep
<1>2. Still /\ UNCHANGED rec /\ "completed" \notin {"turn", "report", "end"} /\ "replaced" \notin {"turn", "report", "end"}
      /\ minted.sids <= minted'.sids
  BY <1>1 DEF Quiet, Still, IInv, TypeOK
<1>3. ASSUME NEW i \in Ids, HoldsNow(q, i)
      PROVE  Answerable(i)'
  <2>1. <<"turn", i>> \in marks'
    BY <1>1, <1>3 DEF HoldsNow, Holds
  <2> QED BY <2>1 DEF Answerable
<1>4. Turns' /\ Records'
  BY <1>1, <1>2, <1>3, Quits
<1>5. SessionsGoOn /\ CookieKept /\ \A s \in Sids : sess'[s] # None => sess[s] # None
  BY <1>1, <1>2, SessionsAsWere
<1>6. Sessions'
  BY <1>1, <1>2, <1>4, <1>5, SessionsQuit
<1> QED BY <1>1, <1>4, <1>6 DEF IInv

LEMMA LocateKeeps ==
  ASSUME IInv, NEW p \in Procs, NEW i \in Ids, NEW kind \in requests, Locate(p, kind, i)
  PROVE  IInv'
<1> DEFINE q == pr[p]
           r == pr'[p]
<1>1. /\ TypeOK' /\ Only(p) /\ Quiet /\ q = Idle
      /\ UNCHANGED <<job, now, sess, jar, marks, minted.sids>>
      /\ rec[i] # None
      /\ r \in RequestType /\ r.pc = "take" /\ r.kind = kind /\ r.id = i /\ r.bound = rec[i] /\ r.jar = jar
      /\ r.session = None /\ r.decision = None /\ ~r.late /\ ~r.done /\ ~r.clear
  BY LocateStep
<1>2. Still /\ UNCHANGED rec /\ Notes({"turn"}) /\ "turn" # "completed" /\ minted.sids <= minted'.sids
  BY <1>1 DEF Quiet, Still, Notes, IInv, TypeOK
<1>3. /\ \A j \in Ids : RecSame(j)
      /\ minted.ids <= minted'.ids /\ minted.secrets <= minted'.secrets /\ now <= now'
      /\ marks \subseteq marks'
  BY <1>2, StillSame
<1>4. /\ RecKept(i) /\ rec[i] \in RecordType /\ i \in Nat /\ minted.ids \in Nat /\ acted[i] \in Nat
      /\ i <= minted'.ids /\ index[i] # None
  BY <1>1, Constants DEF IInv, Turns, TypeOK, RecKept, Quiet
<1>5. /\ ~Holds(r) /\ r.kind # "sweep" /\ q.kind \notin requests
      /\ \A j \in Ids : ~HoldsNow(q, j) /\ ~HoldsNow(pr[p], j)' /\ ~Owns(pr[p], j)' /\ ~Taken(pr[p], j)'
  BY <1>1 DEF Idle, requests, Holds, Holding, HoldsNow, Owns, Taken
<1>6. AskKept(pr[p])'
  <2>1. r.pc \in Untaken /\ r.pc \notin {"report", "replaced", "reply"}
    BY <1>1 DEF Untaken
  <2> QED BY <1>1, <1>4, <1>5, <2>1 DEF AskKept, Holds, Owns
<1>7. DecisionKept(pr[p])'
  BY <1>1 DEF DecisionKept
<1>8. ProcKept(p)'
  BY <1>5, <1>6, <1>7 DEF ProcKept
<1>9. \A s \in Procs \ {p} : pr'[s] = pr[s]
  BY <1>1 DEF Only
<1>10. Turns'
  BY <1>1, <1>3, <1>5, <1>8, <1>9, TurnsFrame
<1>11. Matches(pr[p])'
  <2>1. rec' = rec /\ acted' = acted /\ rec[i].rev = acted[i]
    BY <1>1, <1>4 DEF Quiet, RecKept
  <2>2. ASSUME NEW s \in Procs
        PROVE  ~Taken(pr[s], pr[p].id)'
    <3> SUFFICES ASSUME pr'[s].kind = "sweep", pr'[s].pc \in {"emit", "relist"}, pr'[s].entry.id = i
                 PROVE  FALSE
      BY <1>1 DEF Taken
    <3>1. s # p
      BY <1>5
    <3>2. pr'[s] = pr[s]
      BY <1>9, <3>1
    <3>3. SweepKept(pr[s])
      BY <3>2 DEF IInv, Turns, ProcKept
    <3> QED BY <1>4, <3>2, <3>3 DEF SweepKept
  <2> QED BY <1>1, <1>4, <2>1, <2>2 DEF Matches
<1>12. ASSUME NEW j \in Ids
       PROVE  acted'[j] = acted[j] /\ RecordMoves(p, j) /\ rec'[j] = rec[j] /\ turn'[j] = turn[j]
  BY <1>3 DEF RecSame, RecordMoves
<1>13. Records'
  BY <1>3, <1>1, <1>5, <1>9, <1>10, <1>11, <1>12, RecordsFrame
<1>14. SessionsGoOn /\ CookieKept /\ \A s \in Sids : sess'[s] # None => sess[s] # None
  BY <1>1, <1>2, SessionsAsWere
<1>15. SessionKept(pr[p])'
  <2>1. MadeIn(rec[i]) /\ (jar.sid # None => Made(jar.sid))
    BY <1>1 DEF IInv, Sessions
  <2>2. MadeIn(pr[p].bound)' /\ (r.jar.sid # None => sess'[r.jar.sid] # None)
    BY <1>1, <2>1 DEF MadeIn, Made
  <2>3. r.pc \notin {"create", "write", "delete", "replaced", "ending", "cookie", "report", "reply"}
    BY <1>1
  <2> QED BY <1>1, <2>2, <2>3 DEF SessionKept, Made
<1>16. Sessions'
  <2>1. q.kind # "answer" /\ r.pc # "create"
    BY <1>1 DEF Idle
  <2> QED BY <1>1, <1>2, <1>3, <1>5, <1>9, <1>10, <1>14, <1>15, <2>1, SessionsFrame DEF CookieKept
<1> QED BY <1>1, <1>10, <1>13, <1>16 DEF IInv

LEMMA SweepKeeps ==
  ASSUME IInv, NEW p \in Procs, expiredInteractionEntries(p)
  PROVE  IInv'
<1> DEFINE q == pr[p]
           r == pr'[p]
<1>1. /\ TypeOK' /\ Only(p) /\ Quiet /\ q = Idle
      /\ UNCHANGED <<job, now, sess, jar, marks, minted>>
      /\ r \in SweepType /\ r.pc = "claim" /\ r.taken = None
      /\ \A e \in r.todo : e.id \in Ids /\ index[e.id] # None
  BY SweepStep
<1>2. Still /\ UNCHANGED rec /\ Notes({"turn"}) /\ "turn" # "completed" /\ minted.sids <= minted'.sids
  BY <1>1 DEF Quiet, Still, Notes, IInv, TypeOK
<1>3. /\ \A j \in Ids : RecSame(j)
      /\ minted.ids <= minted'.ids /\ minted.secrets <= minted'.secrets /\ now <= now'
      /\ marks \subseteq marks'
  BY <1>2, StillSame
<1>4. r.kind = "sweep" /\ r.kind \notin requests
  BY <1>1 DEF SweepType, requests
<1>5. /\ q.kind \notin requests
      /\ \A j \in Ids : ~HoldsNow(q, j) /\ ~HoldsNow(pr[p], j)' /\ ~Owns(pr[p], j)' /\ ~Taken(pr[p], j)'
  BY <1>1, <1>4 DEF Idle, requests, Holds, HoldsNow, Owns, Taken
<1>6. ProcKept(p)'
  <2>1. ASSUME NEW e \in r.todo
        PROVE  e.id <= minted'.ids
    <3>1. RecKept(e.id) /\ e.id \in Nat /\ minted.ids \in Nat
      BY <1>1, Constants DEF IInv, Turns, TypeOK
    <3> QED BY <1>1, <3>1 DEF RecKept
  <2> QED BY <1>1, <1>4, <2>1 DEF ProcKept, SweepKept
<1>7. \A s \in Procs \ {p} : pr'[s] = pr[s]
  BY <1>1 DEF Only
<1>8. Turns'
  BY <1>1, <1>3, <1>5, <1>6, <1>7, TurnsFrame
<1>9. ASSUME NEW j \in Ids
      PROVE  acted'[j] = acted[j] /\ RecordMoves(p, j) /\ rec'[j] = rec[j] /\ turn'[j] = turn[j]
  BY <1>3 DEF RecSame, RecordMoves
<1>10. Records'
  BY <1>1, <1>3, <1>4, <1>5, <1>7, <1>8, <1>9, RecordsFrame
<1>11. SessionsGoOn /\ CookieKept /\ \A s \in Sids : sess'[s] # None => sess[s] # None
  BY <1>1, <1>2, SessionsAsWere
<1>12. Sessions'
  <2>1. q.kind # "answer" /\ r.pc # "create"
    BY <1>1 DEF Idle
  <2> QED BY <1>1, <1>2, <1>3, <1>4, <1>5, <1>7, <1>8, <1>11, <2>1, SessionsFrame DEF CookieKept
<1> QED BY <1>1, <1>8, <1>10, <1>12 DEF IInv

----------------------------------------------------------------------------
(* What happens beside the requests *)

\* The steps of no process are those of one that is none of them.
LEMMA Outsider == \E x : x \notin Procs
<1> DEFINE R == {x \in Procs : x \notin x}
<1>1. R \in R <=> R \in Procs /\ R \notin R
  OBVIOUS
<1>2. R \notin Procs
  BY <1>1
<1> QED BY <1>2

LEMMA SignOutKeeps ==
  ASSUME IInv, NEW s \in Sids, SignOutElsewhere(s)
  PROVE  IInv'
<1>1. /\ TypeOK' /\ Quiet
      /\ UNCHANGED <<job, now, jar, pr, marks, minted>>
      /\ Ended(s)
  BY SignOutStep
<1>2. Made(s)
  BY DEF SignOutElsewhere, Made
<1>3. PICK p : p \notin Procs
  BY Outsider
<1>4. Still /\ UNCHANGED rec /\ Notes({"turn"}) /\ "turn" # "completed" /\ minted.sids <= minted'.sids
  BY <1>1 DEF Quiet, Still, Notes, IInv, TypeOK
<1>5. /\ \A j \in Ids : RecSame(j)
      /\ minted.ids <= minted'.ids /\ minted.secrets <= minted'.secrets /\ now <= now'
      /\ marks \subseteq marks'
  BY <1>4, StillSame
<1>6. \A x \in Procs \ {p} : pr'[x] = pr[x]
  BY <1>1
<1>7. Turns'
  BY <1>1, <1>3, <1>5, <1>6, TurnsFrame
<1>8. ASSUME NEW j \in Ids
      PROVE  acted'[j] = acted[j] /\ RecordMoves(p, j) /\ rec'[j] = rec[j] /\ turn'[j] = turn[j]
  BY <1>5 DEF RecSame, RecordMoves
<1>9. Records'
  BY <1>1, <1>3, <1>5, <1>6, <1>7, <1>8, RecordsFrame
<1>10. SessionsGoOn /\ CookieKept /\ \A x \in Sids : sess'[x] # None => sess[x] # None
  BY <1>1, <1>2, <1>4, EndLeaves
<1>11. Sessions'
  BY <1>1, <1>3, <1>4, <1>5, <1>6, <1>7, <1>10, SessionsFrame DEF CookieKept
<1> QED BY <1>1, <1>7, <1>9, <1>11 DEF IInv

LEMMA TickKeeps ==
  ASSUME IInv, Tick
  PROVE  IInv'
<1>1. /\ TypeOK' /\ now' \in Nat /\ now \in Nat /\ now <= now'
      /\ UNCHANGED <<job, index, sess, jar, pr, reports, acted, marks, minted>>
      /\ \A i \in Ids : \/ rec'[i] = rec[i] /\ turn'[i] = turn[i]
                        \/ rec'[i] = None /\ turn'[i] = None
  BY TickStep
<1>2. PICK p : p \notin Procs
  BY Outsider
<1>3. /\ minted.ids <= minted'.ids /\ minted.secrets <= minted'.secrets /\ minted.sids <= minted'.sids
      /\ marks \subseteq marks' /\ \A x \in Procs \ {p} : pr'[x] = pr[x]
  BY <1>1 DEF IInv, TypeOK
<1>4. ASSUME NEW i \in Ids
      PROVE  /\ RecKept(i)' /\ Moves(p, i) /\ RecordMoves(p, i) /\ acted'[i] = acted[i]
             /\ Answerable(i)' \/ (rec'[i] = rec[i] /\ turn'[i] = turn[i])
  <2>1. RecKept(i)
    BY DEF IInv, Turns
  <2>2. RecKept(i)'
    <3>1. (Unheard(i) => Unheard(i)') /\ (Told(i) => Told(i)') /\ (ToldFinished(i) => ToldFinished(i)')
      BY <1>1, ReportsStay
    <3> QED BY <1>1, <2>1, <3>1 DEF RecKept
  <2> QED BY <1>1, <2>2 DEF Moves, RecordMoves, Answerable
<1>5. Turns'
  BY <1>1, <1>2, <1>3, <1>4, TurnsFrame
<1>6. Records'
  BY <1>1, <1>2, <1>3, <1>4, <1>5, RecordsFrame
<1>7. SessionsGoOn
  BY <1>1 DEF SessionsGoOn, Made
<1>8. jar'.sid # None => sess'[jar'.sid] # None
  BY <1>1 DEF IInv, Sessions, Made
<1>9. Sessions'
  BY <1>1, <1>2, <1>3, <1>5, <1>7, <1>8, SessionsFrame
<1> QED BY <1>1, <1>5, <1>6, <1>9 DEF IInv

----------------------------------------------------------------------------
(* Interactions that begin *)

LEMMA StartedMoves ==
  ASSUME IInv, TypeOK', NEW p, NEW x \in RecordType, Started(x), UNCHANGED <<reports, acted, marks>>
  PROVE  /\ \A j \in Ids : /\ RecSame(j) \/ (RecKept(j)' /\ Moves(p, j))
                           /\ RecordMoves(p, j) /\ acted'[j] = acted[j]
                           /\ Answerable(j)' \/ (rec'[j] = rec[j] /\ turn'[j] = turn[j])
                           /\ rec'[j] = rec[j] \/ rec'[j] = x
         /\ minted.ids <= minted'.ids /\ minted.secrets <= minted'.secrets
<1>0. PICK i \in Ids : i = minted.ids + 1
  BY DEF Started
<1>1. /\ rec \in [Ids -> RecordType \cup {None}] /\ turn \in [Ids -> Nat \cup {None}]
      /\ index \in [Ids -> Nat \cup {None}] /\ minted.ids \in Nat
      /\ \A j \in Ids : RecKept(j)
  BY DEF IInv, TypeOK, Turns
<1>2. /\ i \in Ids /\ x.rev = 0 /\ minted'.ids = i /\ minted.secrets <= minted'.secrets
      /\ rec'[i] = x /\ turn'[i] = 0 /\ index'[i] = interactionDeadline(x)
      /\ \A j \in Ids \ {i} : rec'[j] = rec[j] /\ turn'[j] = turn[j] /\ index'[j] = index[j]
  BY <1>0, <1>1 DEF Started
<1>3. minted.ids < i /\ minted.ids <= minted'.ids /\ ~(minted'.ids < i) /\ None \notin Nat
      /\ interactionDeadline(x) \in Nat
  BY <1>0, <1>1, <1>2, Constants, DeadlineTyped
<1>4. /\ reports'[i] = <<>> /\ acted'[i] = 0 /\ rec[i] = None /\ turn[i] = None /\ index[i] = None
      /\ <<"completed", i>> \notin marks' /\ Unheard(i)' /\ Told(i)'
  <2>1. reports[i] = <<>> /\ acted[i] = 0 /\ rec[i] = None /\ turn[i] = None /\ index[i] = None
    BY <1>1, <1>2, <1>3 DEF RecKept
  <2>2. Unheard(i) /\ Told(i) /\ ~ToldFinished(i)
    BY <2>1, NothingTold
  <2>3. <<"completed", i>> \notin marks
    BY <1>1, <1>2, <2>2 DEF RecKept
  <2>4. Unheard(i)' /\ Told(i)'
    BY <2>2, ReportsStay
  <2> QED BY <2>1, <2>3, <2>4
<1>5. RecKept(i)'
  BY <1>2, <1>3, <1>4 DEF RecKept
<1>6. Alone(p, i) /\ Sole(p, i)
  BY <1>2, <1>3, AloneAndSole
<1>7. ASSUME NEW j \in Ids
      PROVE  RecSame(j) \/ (RecKept(j)' /\ Moves(p, j))
  <2>1. CASE j = i
    BY <1>4, <1>5, <1>6, <2>1 DEF Moves
  <2>2. CASE j # i
    BY <1>2, <2>2 DEF RecSame
  <2> QED BY <2>1, <2>2
<1>8. ASSUME NEW j \in Ids
      PROVE  /\ RecordMoves(p, j) /\ acted'[j] = acted[j]
             /\ Answerable(j)' \/ (rec'[j] = rec[j] /\ turn'[j] = turn[j])
             /\ rec'[j] = rec[j] \/ rec'[j] = x
  <2>1. CASE j = i
    BY <1>2, <1>3, <2>1 DEF RecordMoves, Answerable
  <2>2. CASE j # i
    BY <1>2, <2>2 DEF RecordMoves
  <2> QED BY <2>1, <2>2
<1> QED BY <1>2, <1>3, <1>7, <1>8

LEMMA StartKeeps ==
  ASSUME IInv, startInteraction
  PROVE  IInv'
<1>1. /\ TypeOK'
      /\ UNCHANGED <<job, now, sess, pr, reports, acted, marks, minted.sids>>
      /\ jar'.sid = jar.sid
  BY StartStep
<1>2. PICK x \in RecordType : Started(x) /\ MadeIn(x)
  BY StartStep
<1>3. PICK p : p \notin Procs
  BY Outsider
<1>4. /\ \A j \in Ids : /\ RecSame(j) \/ (RecKept(j)' /\ Moves(p, j))
                        /\ RecordMoves(p, j) /\ acted'[j] = acted[j]
                        /\ Answerable(j)' \/ (rec'[j] = rec[j] /\ turn'[j] = turn[j])
                        /\ rec'[j] = rec[j] \/ rec'[j] = x
      /\ minted.ids <= minted'.ids /\ minted.secrets <= minted'.secrets
  BY <1>1, <1>2, StartedMoves
<1>5. /\ \A y \in Procs \ {p} : pr'[y] = pr[y]
      /\ marks \subseteq marks' /\ now <= now' /\ minted.sids <= minted'.sids
  BY <1>1 DEF IInv, TypeOK
<1>6. Turns'
  BY <1>1, <1>3, <1>4, <1>5, TurnsFrame
<1>7. Records'
  BY <1>1, <1>3, <1>4, <1>5, <1>6, RecordsFrame
<1>8. SessionsGoOn /\ (jar'.sid # None => sess'[jar'.sid] # None)
  BY <1>1 DEF SessionsGoOn, Made, IInv, Sessions
<1>9. \A j \in Ids : rec'[j] = rec[j] \/ rec'[j] = None \/ MadeIn(rec[j])'
  BY <1>1, <1>2, <1>4 DEF MadeIn, Made
<1>10. Sessions'
  BY <1>1, <1>3, <1>5, <1>6, <1>8, <1>9, SessionsFrame
<1> QED BY <1>1, <1>6, <1>7, <1>10 DEF IInv

LEMMA ReplyKeeps ==
  ASSUME IInv, NEW p \in Procs, reply(p)
  PROVE  IInv'
<1> DEFINE q == pr[p]
           r == pr'[p]
<1>1. /\ TypeOK' /\ Only(p) /\ Notes({"completed"})
      /\ UNCHANGED <<job, now, sess, reports, acted>>
      /\ q \in RequestType /\ q.pc = "reply" /\ q.id \in Ids /\ r = Idle
      /\ ReplyDoes(p)
  BY ReplyStep
<1>2. q.kind \in requests /\ AskKept(q) /\ DecisionKept(q) /\ SessionKept(q)
  BY AskAt, Steps DEF reply
<1>3. /\ ProcKept(p)' /\ r.kind \notin requests
      /\ \A j \in Ids : ~HoldsNow(pr[p], j)' /\ ~Owns(pr[p], j)' /\ ~Taken(pr[p], j)'
  BY <1>1, IdleAfter
<1>4. \A j \in Ids : ~HoldsNow(q, j)
  BY <1>1 DEF HoldsNow, Holds, Holding
<1>5. /\ \A x \in Procs \ {p} : pr'[x] = pr[x]
      /\ marks \subseteq marks' /\ now <= now' /\ q.pc \notin Untaken /\ "completed" # "replaced"
  BY <1>1 DEF Only, Notes, IInv, TypeOK, Untaken
<1>6. /\ q.session # None => sess'[q.session] # None /\ <<"shown", q.session>> \in marks'
      /\ q.taken.sid # None => sess'[q.taken.sid] # None
      /\ jar.sid # None => sess'[jar.sid] # None
  <2>1. q.taken = q.bound /\ marks \subseteq marks' /\ sess' = sess
    BY <1>1, <1>2, <1>5 DEF AskKept
  <2>2. jar.sid # None => Made(jar.sid)
    BY DEF IInv, Sessions
  <2> QED BY <1>1, <1>2, <2>1, <2>2 DEF SessionKept, MadeIn, Made
<1>7. SessionsGoOn /\ \A x \in Sids : sess'[x] # None => sess[x] # None
  BY <1>1, SessionsAsWere
<1>8. CASE /\ UNCHANGED <<rec, turn, index, minted>> /\ jar'.sid \in {jar.sid, None, q.session}
           /\ <<"completed", q.id>> \in marks' =>
                <<"completed", q.id>> \in marks \/ (q.kind = "answer" /\ Settles(q))
           /\ \A i : <<"completed", i>> \in marks' => <<"completed", i>> \in marks \/ i = q.id
  <2>1. \A j \in Ids : RecKept(j)
    BY DEF IInv, Turns
  <2>2. q.kind = "answer" /\ Settles(q) => ToldFinished(q.id)
    BY <1>1, <1>2 DEF AskKept, Settles
  <2>3. ASSUME NEW j \in Ids
        PROVE  /\ RecKept(j)' /\ Moves(p, j) /\ RecordMoves(p, j) /\ acted'[j] = acted[j]
               /\ rec'[j] = rec[j] /\ turn'[j] = turn[j]
    <3>1. RecKept(j)
      BY <2>1
    <3>2. <<"completed", j>> \in marks' => ToldFinished(j)
      BY <1>8, <2>2, <3>1 DEF RecKept
    <3>3. (Unheard(j) => Unheard(j)') /\ (Told(j) => Told(j)') /\ (ToldFinished(j) => ToldFinished(j)')
      BY <1>1, <1>5, ReportsStay
    <3> QED BY <1>1, <1>8, <3>1, <3>2, <3>3 DEF RecKept, Moves, RecordMoves
  <2>4. minted.ids <= minted'.ids /\ minted.secrets <= minted'.secrets /\ minted.sids <= minted'.sids
    BY <1>8 DEF IInv, TypeOK
  <2>5. Turns'
    BY <1>1, <1>3, <1>5, <2>3, <2>4, TurnsFrame
  <2>6. Records'
    BY <1>1, <1>3, <1>4, <1>5, <2>3, <2>5, RecordsFrame
  <2>7. CookieKept
    BY <1>6, <1>8 DEF CookieKept
  <2>8. Sessions'
    BY <1>1, <1>2, <1>5, <1>6, <1>7, <2>4, <2>5, <2>7, SessionsQuit
  <2> QED BY <1>1, <2>5, <2>6, <2>8 DEF IInv
<1>9. ASSUME NEW x \in RecordType, Started(x), x.sid \in {None, q.taken.sid, q.session}, x.carried = None,
             UNCHANGED marks, jar'.sid \in {jar.sid, None, q.session}, minted'.sids = minted.sids
      PROVE  IInv'
  <2>1. /\ \A j \in Ids : /\ RecSame(j) \/ (RecKept(j)' /\ Moves(p, j))
                          /\ RecordMoves(p, j) /\ acted'[j] = acted[j]
                          /\ Answerable(j)' \/ (rec'[j] = rec[j] /\ turn'[j] = turn[j])
                          /\ rec'[j] = rec[j] \/ rec'[j] = x
        /\ minted.ids <= minted'.ids /\ minted.secrets <= minted'.secrets
    BY <1>1, <1>9, StartedMoves
  <2>2. Turns'
    BY <1>1, <1>3, <1>5, <2>1, TurnsFrame
  <2>3. Records'
    BY <1>1, <1>3, <1>4, <1>5, <2>1, <2>2, RecordsFrame
  <2>4. CookieKept
    BY <1>6, <1>9, <2>1 DEF CookieKept, MadeIn, Made
  <2>5. minted.sids <= minted'.sids
    BY <1>9 DEF IInv, TypeOK
  <2>6. Sessions'
    BY <1>1, <1>2, <1>5, <1>6, <1>7, <2>2, <2>4, <2>5, SessionsQuit
  <2> QED BY <1>1, <2>2, <2>3, <2>6 DEF IInv
<1> QED BY <1>1, <1>8, <1>9 DEF ReplyDoes

----------------------------------------------------------------------------
(* Writing the next state, and ending the interaction *)

LEMMA WriteKeeps ==
  ASSUME IInv, NEW p \in Procs, writeState(p)
  PROVE  IInv'
<1> DEFINE q == pr[p]
           r == pr'[p]
           i == pr[p].id
           n == NextState(pr[p].taken, p, minted.secrets + 1)
<1>1. /\ TypeOK' /\ Only(p) /\ Notes({"shown", "replaced"})
      /\ UNCHANGED <<job, now, sess, jar, reports, minted.ids, minted.sids>>
      /\ minted.secrets <= minted'.secrets
      /\ q \in RequestType /\ q.kind = "answer" /\ q.pc = "write" /\ i \in Ids
      /\ q.decision \in {"step", "authenticated"}
      /\ n \in RecordType /\ n.rev = q.taken.rev + 1 /\ n.carried = q.taken.carried
      /\ n.sid = (IF q.decision = "step" THEN q.taken.sid ELSE q.session)
      /\ WriteDoes(p)
  BY WriteStep
<1>2. q.kind \in requests /\ AskKept(q) /\ DecisionKept(q) /\ SessionKept(q) /\ RecKept(i)
  <2>1. At(p, {"answer"}, "write")
    BY DEF writeState
  <2> QED BY <1>1, <2>1, AskAt, Steps DEF IInv, Turns
<1>3. /\ q.taken = q.bound /\ q.taken.rev = acted[i] /\ q.turn = acted[i]
      /\ HoldsNow(q, i) /\ turn[i] = None /\ acted[i] \in Nat
      /\ q.pc \notin Untaken
  <2>1. q.pc \in Holding \ Untaken
    BY <1>1 DEF Holding, Untaken
  <2> QED BY <1>1, <1>2, <2>1, HolderRecord DEF IInv, TypeOK
<1>4. /\ Same(q, r) /\ r.kind = "answer" /\ r.id = i /\ r.bound = q.bound /\ r.turn = q.turn /\ r.taken = q.taken
      /\ r.decision = q.decision /\ r.session = q.session /\ r.late = q.late /\ r.secret # None
      /\ r.pc \in {"cleanup", "report"} /\ r.kind # "sweep"
  BY <1>1 DEF WriteDoes, Same, SameAnswer
<1>5. /\ \A x \in Procs \ {p} : pr'[x] = pr[x]
      /\ marks \subseteq marks' /\ now <= now' /\ minted.ids <= minted'.ids /\ minted.sids <= minted'.sids
      /\ "completed" \notin {"shown", "replaced"}
  BY <1>1 DEF Only, Notes, IInv, TypeOK
<1>6. SessionsGoOn /\ \A x \in Sids : sess'[x] # None => sess[x] # None
  BY <1>1, SessionsAsWere
<1>7. /\ q.session # None => q.session \in Sids /\ sess'[q.session] # None /\ q.decision = "authenticated"
      /\ q.decision = "authenticated" => q.session # None
      /\ q.taken.sid # None => sess'[q.taken.sid] # None
      /\ q.taken.carried # None => sess'[q.taken.carried.sid] # None
      /\ jar'.sid # None => sess'[jar'.sid] # None
  <2>1. /\ q.session # None => q.session \in Sids /\ Made(q.session) /\ q.decision = "authenticated"
        /\ q.decision = "authenticated" => q.session # None
    BY <1>1, <1>2 DEF SessionKept, Signing, RequestType
  <2>2. MadeIn(q.taken) /\ (jar.sid # None => Made(jar.sid))
    BY <1>2, <1>3 DEF SessionKept, IInv, Sessions
  <2> QED BY <1>1, <2>1, <2>2 DEF MadeIn, Made
<1>8. CASE r.pc = "cleanup" /\ (r.done => rec[i] = None) /\ UNCHANGED <<rec, turn, index, acted, marks>>
  <2>1. Still /\ Notes({"turn"}) /\ "turn" # "completed" /\ "turn" # "replaced"
    BY <1>1, <1>8 DEF Still, Notes
  <2>2. Holds(q) /\ (~r.done => Holds(r))
    BY <1>2, <1>3, <1>4, <1>8 DEF HoldsNow, Holds, Same
  <2>3. ASSUME NEW j \in Ids, HoldsNow(q, j)
        PROVE  Holds(r) \/ Answerable(j)'
    BY <1>8, <2>2, <2>3 DEF HoldsNow, Answerable
  <2>4. DecisionKept(pr[p])'
    BY <1>4, <1>8 DEF DecisionKept, Holding
  <2>5. r.pc \notin Untaken
    BY <1>8 DEF Untaken
  <2>6. Turns' /\ Records'
    BY <1>1, <1>2, <1>3, <1>4, <1>8, <2>1, <2>2, <2>3, <2>4, <2>5, AskGoesOn
  <2>7. SessionKeptGoes(p)
    BY <1>4, <1>7, <1>8 DEF SessionKeptGoes, Signing
  <2>8. CookieKept
    BY <1>7, <1>8 DEF CookieKept
  <2>9. Sessions'
    BY <1>1, <1>2, <1>4, <1>5, <1>6, <1>8, <2>1, <2>6, <2>7, <2>8, SessionsGoes
  <2> QED BY <1>1, <2>6, <2>9 DEF IInv
<1>9. ASSUME rec[i] # None,
             rec' = [rec EXCEPT ![i] = n],
             turn' = [turn EXCEPT ![i] = IF @ = None THEN n.rev ELSE @],
             index' = [index EXCEPT ![i] = IF @ = None THEN @ ELSE interactionDeadline(n)],
             acted' = [acted EXCEPT ![i] = @ + 1],
             \/ r.pc = "cleanup" /\ ~r.done /\ UNCHANGED marks
             \/ /\ r.pc = "report"
                /\ IF q.decision = "authenticated"
                     THEN Marked({<<"shown", q.session>>} \cup {<<"replaced", s>> : s \in {q.taken.sid} \ {None}})
                     ELSE UNCHANGED marks
      PROVE  IInv'
  <2>0. PICK k \in Ids : k = i
    BY <1>1
  <2>1. /\ rec'[k] = n /\ turn'[k] = acted[k] + 1 /\ acted'[k] = acted[k] + 1
        /\ index[k] # None /\ index'[k] = interactionDeadline(n) /\ index'[k] # None
        /\ \A j \in Ids \ {k} : rec'[j] = rec[j] /\ turn'[j] = turn[j] /\ index'[j] = index[j] /\ acted'[j] = acted[j]
        /\ Unheard(k) /\ n.rev = acted[k] + 1
    <3>1. /\ rec \in [Ids -> RecordType \cup {None}] /\ turn \in [Ids -> Nat \cup {None}]
          /\ index \in [Ids -> Nat \cup {None}] /\ acted \in [Ids -> Nat]
      BY DEF IInv, TypeOK
    <3>2. interactionDeadline(n) \in Nat /\ None \notin Nat /\ n.rev = acted[i] + 1
      BY <1>1, <1>3, DeadlineTyped, Constants
    <3>3. index[i] # None /\ Unheard(i)
      BY <1>2, <1>9 DEF RecKept
    <3> HIDE DEF n
    <3> QED BY <1>3, <1>9, <2>0, <3>1, <3>2, <3>3
  <2>2. /\ acted[k] \in Nat /\ k \in Nat /\ k <= minted.ids /\ minted'.ids = minted.ids /\ minted.ids \in Nat
        /\ reports' = reports /\ acted[k] + 1 # None /\ <<"completed", k>> \notin marks
    <3>1. k \in Nat /\ minted.ids \in Nat /\ None \notin Nat
      BY Constants DEF IInv, TypeOK
    <3>2. <<"completed", k>> \in marks => ToldFinished(k)
      BY <1>2, <2>0 DEF RecKept
    <3>3. <<"completed", k>> \notin marks
      BY <2>1, <3>2, Untold DEF IInv
    <3> QED BY <1>1, <1>2, <1>3, <2>0, <3>1, <3>3 DEF AskKept
  <2>3. RecKept(k)'
    <3>1. <<"completed", k>> \notin marks'
      BY <1>1, <2>2 DEF Notes
    <3>2. Unheard(k)' /\ Told(k)'
      BY <1>5, <2>1, <2>2, Untold, ReportsStay DEF IInv
    <3> HIDE DEF n
    <3> QED BY <2>1, <2>2, <3>1, <3>2 DEF RecKept
  <2>4. Moves(p, k) /\ Alone(p, k)
    <3>1. Alone(p, k) /\ Sole(p, k)
      BY <1>3, <2>0, <2>1, AloneAndSole
    <3> QED BY <2>1, <2>2, <3>1 DEF Moves
  <2>5. ASSUME NEW j \in Ids
        PROVE  RecSame(j) \/ (RecKept(j)' /\ Moves(p, j))
    <3>1. CASE j = k
      BY <2>3, <2>4, <3>1
    <3>2. CASE j # k
      BY <1>1, <2>1, <3>2 DEF RecSame, Notes
    <3> QED BY <3>1, <3>2
  <2>6. AskKept(pr[p])'
    <3>1. r.pc \notin Untaken \cup {"replaced", "reply"}
      BY <1>4 DEF Untaken
    <3>2. ~Owns(r, k) /\ (r.pc = "report" => ~Holds(r))
      BY <1>1, <1>4 DEF Owns, Settles, Finishing, Holds, Holding
    <3>3. q.turn = q.bound.rev /\ q.turn \in Nat
      BY <1>3
    <3>4. r.turn = acted[k] /\ acted[k] <= acted'[k] /\ acted[k] # acted'[k] /\ r.id = k
      BY <1>3, <1>4, <2>0, <2>1, <2>2
    <3> QED BY <1>3, <1>4, <2>2, <3>1, <3>2, <3>3, <3>4 DEF AskKept, Holds, Holding, Owns, Settles
  <2>7. DecisionKept(pr[p])'
    BY <1>1, <1>4 DEF DecisionKept, Holding, Decisions
  <2>8. ProcKept(p)'
    BY <1>4, <2>6, <2>7 DEF ProcKept
  <2>9. ASSUME NEW j \in Ids
        PROVE  /\ ~HoldsNow(pr[p], j)' /\ ~Owns(pr[p], j)' /\ ~Taken(pr[p], j)'
               /\ HoldsNow(q, j) => j = k
    <3>1. r.turn = acted[k] /\ acted[k] # acted'[k] /\ r.id = k
      BY <1>3, <1>4, <2>0, <2>1, <2>2
    <3> QED BY <1>1, <1>4, <2>0, <3>1 DEF HoldsNow, Owns, Settles, Finishing, Taken
  <2>10. Turns'
    BY <1>1, <1>5, <2>5, <2>8, <2>9, TurnsFrame
  <2>11. ASSUME NEW j \in Ids
         PROVE  /\ acted'[j] = acted[j] \/ acted'[j] > acted[j]
                /\ RecordMoves(p, j)
                /\ Answerable(j)' \/ (j # k /\ rec'[j] = rec[j] /\ turn'[j] = turn[j] /\ acted'[j] = acted[j])
    <3>1. CASE j = k
      BY <2>1, <2>2, <3>1 DEF RecordMoves, Answerable
    <3>2. CASE j # k
      BY <2>1, <3>2 DEF RecordMoves
    <3> QED BY <3>1, <3>2
  <2>12. Records'
    BY <1>1, <1>2, <1>4, <1>5, <2>9, <2>10, <2>11, RecordsFrame
  <2>13. \A j \in Ids : rec'[j] = rec[j] \/ rec'[j] = None \/ MadeIn(rec[j])'
    <3>1. (n.sid # None => sess'[n.sid] # None) /\ (n.carried # None => sess'[n.carried.sid] # None)
      BY <1>1, <1>7
    <3> HIDE DEF n
    <3> QED BY <2>1, <3>1 DEF MadeIn, Made
  <2>14. SessionKeptGoes(p)
    <3>1. r.session # None /\ r.pc = "report" => <<"shown", r.session>> \in marks'
      BY <1>4, <1>7, <1>9 DEF Marked
    <3> QED BY <1>4, <1>7, <3>1 DEF SessionKeptGoes, Signing
  <2>15. SessionKept(pr[p])'
    BY <1>2, <1>4, <1>6, <2>14, SessionKeptThen
  <2>16. ASSUME NEW s \in Sids, <<"replaced", s>> \in marks' \ marks
         PROVE  r.pc = "report" /\ r.session # None /\ r.taken.sid = s /\ sess'[s] # None
    <3>1. /\ r.pc = "report" /\ q.decision = "authenticated"
          /\ <<"replaced", s>> \in {<<"replaced", x>> : x \in {q.taken.sid} \ {None}}
      BY <1>9, <2>16 DEF Marked
    <3> QED BY <1>4, <1>7, <3>1
  <2>17. Sessions'
    <3>1. None \notin Sids
      BY Constants
    <3> QED BY <1>1, <1>2, <1>4, <1>5, <1>6, <1>7, <2>10, <2>13, <2>15, <2>16, <3>1, SessionsFrame
  <2> QED BY <1>1, <2>10, <2>12, <2>17 DEF IInv
<1> QED BY <1>1, <1>8, <1>9 DEF WriteDoes

\* A record that goes, with its turn and its member of the index.
LEMMA GoneMoves ==
  ASSUME IInv, TypeOK', NEW p, NEW i \in Ids, Gone(i), UNCHANGED <<reports, acted, minted>>,
         NEW kinds, Notes(kinds), "completed" \notin kinds
  PROVE  /\ rec'[i] = None /\ turn'[i] = None /\ index'[i] = None
         /\ \A j \in Ids : /\ RecKept(j)' /\ Moves(p, j) /\ RecordMoves(p, j) /\ acted'[j] = acted[j]
                           /\ Answerable(j)' \/ (j # i /\ rec'[j] = rec[j] /\ turn'[j] = turn[j])
                           /\ rec'[j] = rec[j] \/ rec'[j] = None
<1>1. /\ rec \in [Ids -> RecordType \cup {None}] /\ turn \in [Ids -> Nat \cup {None}]
      /\ index \in [Ids -> Nat \cup {None}]
      /\ \A j \in Ids : RecKept(j)
  BY DEF IInv, TypeOK, Turns
<1>2. rec'[i] = None /\ turn'[i] = None /\ index'[i] = None
  BY <1>1 DEF Gone
<1>3. ASSUME NEW j \in Ids
      PROVE  /\ rec'[j] \in {None, rec[j]} /\ turn'[j] \in {None, turn[j]} /\ index'[j] \in {None, index[j]}
             /\ j # i => rec'[j] = rec[j] /\ turn'[j] = turn[j] /\ index'[j] = index[j]
  BY <1>1 DEF Gone
<1>4. ASSUME NEW j \in Ids
      PROVE  RecKept(j)'
  <2>1. <<"completed", j>> \in marks' => <<"completed", j>> \in marks
    BY DEF Notes
  <2>2. RecKept(j)
    BY <1>1
  <2>3. (Unheard(j) => Unheard(j)') /\ (Told(j) => Told(j)') /\ (ToldFinished(j) => ToldFinished(j)')
    BY ReportsStay DEF Notes
  <2> QED BY <1>2, <1>3, <2>1, <2>2, <2>3 DEF RecKept
<1>5. ASSUME NEW j \in Ids
      PROVE  /\ Moves(p, j) /\ RecordMoves(p, j) /\ acted'[j] = acted[j]
             /\ Answerable(j)' \/ (j # i /\ rec'[j] = rec[j] /\ turn'[j] = turn[j])
             /\ rec'[j] = rec[j] \/ rec'[j] = None
  BY <1>2, <1>3 DEF Moves, RecordMoves, Answerable
<1> QED BY <1>2, <1>4, <1>5

LEMMA DeleteKeeps ==
  ASSUME IInv, NEW p \in Procs, deleteTaken(p)
  PROVE  IInv'
<1> DEFINE q == pr[p]
           r == pr'[p]
           i == pr[p].id
<1>1. /\ TypeOK' /\ Only(p) /\ Notes({"report", "shown", "replaced"})
      /\ \A s : <<"replaced", s>> \in marks' /\ <<"replaced", s>> \notin marks
                  => r.pc = "report" /\ q.decision = "signed_in" /\ s = q.taken.sid
      /\ UNCHANGED <<job, now, sess, jar, reports, acted, minted>>
      /\ q \in RequestType /\ q.pc = "delete" /\ i \in Ids
      /\ DeleteDoes(p)
  BY DeleteStep
<1>2. q.kind \in requests /\ AskKept(q) /\ DecisionKept(q) /\ SessionKept(q) /\ RecKept(i)
  <2>1. At(p, requests, "delete")
    BY DEF deleteTaken
  <2> QED BY <1>1, <2>1, AskAt, Steps DEF IInv, Turns
<1>3. /\ q.taken = q.bound /\ HoldsNow(q, i) /\ Holds(q) /\ q.turn = acted[i] /\ q.pc \notin Untaken /\ Settles(q)
      /\ q.turn \in Nat /\ q.turn = q.bound.rev
  <2>1. q.pc \in Holding \ Untaken
    BY <1>1 DEF Holding, Untaken
  <2>2. Settles(q)
    BY <1>1, <1>2 DEF DecisionKept
  <2> QED BY <1>2, <2>1, <2>2, HolderRecord DEF HoldsNow, AskKept
<1>4. /\ Same(q, r) /\ r.kind = q.kind /\ r.id = i /\ r.bound = q.bound /\ r.jar = q.jar /\ r.turn = q.turn
      /\ r.taken = q.taken /\ r.decision = q.decision /\ r.session = q.session /\ r.late = q.late
      /\ r.unread = q.unread /\ r.pc \in {"cleanup", "report"} /\ r.kind # "sweep" /\ r.kind \in requests
  BY <1>1, <1>2 DEF DeleteDoes, Same, SameAnswer, SameSwitch, requests
<1>5. /\ \A x \in Procs \ {p} : pr'[x] = pr[x]
      /\ marks \subseteq marks' /\ now <= now' /\ minted.ids <= minted'.ids /\ minted.sids <= minted'.sids
      /\ minted.secrets <= minted'.secrets
      /\ "completed" \notin {"report", "shown", "replaced"} /\ q.kind \in requests
  BY <1>1, <1>2 DEF Only, Notes, IInv, TypeOK
<1>6. SessionsGoOn /\ \A x \in Sids : sess'[x] # None => sess[x] # None
  BY <1>1, SessionsAsWere
<1>7. /\ q.session # None => q.session \in Sids /\ sess'[q.session] # None /\ q.decision = "signed_in"
      /\ q.decision = "signed_in" => q.session # None /\ q.kind = "answer"
      /\ q.taken.sid # None => sess'[q.taken.sid] # None
      /\ jar'.sid # None => sess'[jar'.sid] # None
  <2>1. q.decision = "signed_in" => q.kind = "answer"
    BY <1>2, NoneDecides DEF DecisionKept
  <2>2. q.session # None => q.decision \in Signing /\ q.decision \in Finishing
    BY <1>2, <1>3 DEF SessionKept, Settles, DecisionKept
  <2>3. /\ q.session # None => q.session \in Sids /\ Made(q.session) /\ q.decision = "signed_in"
        /\ q.decision = "signed_in" => q.session # None
    BY <1>1, <1>2, <2>2 DEF SessionKept, Signing, Finishing, RequestType
  <2>4. MadeIn(q.taken) /\ (jar.sid # None => Made(jar.sid))
    BY <1>2, <1>3 DEF SessionKept, IInv, Sessions
  <2> QED BY <1>1, <2>1, <2>3, <2>4 DEF MadeIn, Made
<1>8. DecisionKept(pr[p])'
  <2>1. /\ q.kind = "answer" => q.decision \in Finishing
        /\ q.kind # "answer" => q.decision = None /\ q.session = None
    BY <1>2, <1>3 DEF Settles, DecisionKept
  <2>2. q.decision # "authenticated"
    BY <2>1, NoneDecides DEF Finishing
  <2>3. q.decision \in Finishing => q.decision \in Decisions
    BY DEF Finishing, Decisions
  <2>4. r.pc \notin Holding \cup {"take", "check", "create", "write", "delete"}
    BY <1>4 DEF Holding
  <2> QED BY <1>4, <2>1, <2>2, <2>3, <2>4 DEF DecisionKept
<1>9. CASE r.pc = "cleanup" /\ ~r.done /\ UNCHANGED <<rec, turn, index, marks>>
  <2>1. Still /\ Notes({"turn"}) /\ "turn" # "completed" /\ "turn" # "replaced" /\ UNCHANGED rec
    BY <1>1, <1>5, <1>9 DEF Still, Notes
  <2>2. Holds(r) /\ r.pc \notin Untaken
    BY <1>4, <1>9 DEF Holds, Untaken
  <2>3. Turns' /\ Records'
    BY <1>1, <1>2, <1>3, <1>4, <1>8, <1>9, <2>1, <2>2, AskGoesOn
  <2>4. SessionKeptGoes(p)
    BY <1>4, <1>7, <1>9 DEF SessionKeptGoes, Signing
  <2>5. CookieKept
    BY <1>7, <2>1 DEF CookieKept
  <2>6. Sessions'
    BY <1>1, <1>2, <1>4, <1>5, <1>6, <1>9, <2>1, <2>3, <2>4, <2>5, SessionsGoes
  <2> QED BY <1>1, <2>3, <2>6 DEF IInv
<1>10. ASSUME Gone(i),
              \/ r.pc = "cleanup"
              \/ /\ r.pc = "report" /\ index[i] # None
                 /\ q.decision = "signed_in" => <<"shown", q.session>> \in marks'
       PROVE  IInv'
  <2>0. PICK k \in Ids : k = i
    BY <1>1
  <2>1. /\ rec'[k] = None /\ turn'[k] = None /\ index'[k] = None
        /\ \A j \in Ids : /\ RecKept(j)' /\ Moves(p, j) /\ RecordMoves(p, j) /\ acted'[j] = acted[j]
                          /\ Answerable(j)' \/ (j # k /\ rec'[j] = rec[j] /\ turn'[j] = turn[j])
                          /\ rec'[j] = rec[j] \/ rec'[j] = None
    BY <1>1, <1>5, <1>10, <2>0, GoneMoves
  <2>2. r.pc = "report" => Unheard(k) /\ Unheard(k)' /\ Sole(p, k)
    BY <1>1, <1>2, <1>5, <1>10, <2>0, AloneAndSole, ReportsStay DEF RecKept
  <2>3. r.pc \notin Untaken \cup {"replaced", "reply"} /\ acted[k] \in Nat
    BY <1>4 DEF Untaken, IInv, TypeOK
  <2>4. AskKept(pr[p])'
    <3>1. i <= minted'.ids
      BY <1>1, <1>2 DEF AskKept
    <3>2. Holds(r) => /\ r.turn \in Nat /\ r.turn <= acted'[k] /\ r.turn = acted'[k]
                      /\ r.turn = r.bound.rev /\ turn'[k] = None
      <4>1. acted'[k] = acted[k] /\ turn'[k] = None
        BY <2>1
      <4>2. r.turn = q.turn /\ q.turn = acted[k] /\ r.bound = q.bound
        BY <1>3, <1>4, <2>0
      <4>3. r.turn = acted'[k] /\ r.turn \in Nat /\ r.turn = r.bound.rev
        BY <1>3, <4>1, <4>2
      <4>4. r.turn <= acted'[k]
        BY <4>3
      <4> QED BY <4>1, <4>3, <4>4
    <3>3. Owns(r, k) => index'[k] = None /\ Unheard(k)'
      BY <1>1, <1>4, <2>1, <2>2 DEF Owns
    <3>4. r.taken = r.bound /\ r.id = k /\ i = k
      BY <1>3, <1>4, <2>0
    <3> QED BY <2>3, <3>1, <3>2, <3>3, <3>4 DEF AskKept, Holds, Owns, Settles
  <2>5. ProcKept(p)'
    BY <1>4, <1>8, <2>4 DEF ProcKept
  <2>6. ASSUME NEW j \in Ids
        PROVE  /\ HoldsNow(pr[p], j)' => HoldsNow(pr[p], j)
               /\ Owns(pr[p], j)' => Sole(p, j)
               /\ ~Taken(pr[p], j)'
               /\ HoldsNow(pr[p], j) => j = k
    <3>1. HoldsNow(pr[p], j)' => j = k /\ HoldsNow(q, k)
      BY <1>3, <1>4, <2>0 DEF HoldsNow
    <3>2. Owns(pr[p], j)' => r.pc = "report" /\ j = k
      BY <1>4, <2>0 DEF Owns
    <3> QED BY <1>4, <2>0, <2>2, <3>1, <3>2 DEF Taken, HoldsNow
  <2>7. Turns'
    BY <1>1, <1>5, <2>1, <2>5, <2>6, TurnsFrame
  <2>8. Records'
    BY <1>1, <1>4, <1>5, <2>1, <2>6, <2>7, RecordsFrame
  <2>9. q.kind = "switch" /\ Shows(q.taken) => SwitchedOff(pr[p])'
    <3>1. q.kind = "switch" /\ Shows(q.taken) => SwitchedOff(q)
      BY <1>1, <1>2 DEF SessionKept
    <3> QED BY <1>1, <1>4, <3>1 DEF SwitchedOff, Made, LiveFor, switchedSids, shownUser
  <2>10. SessionKeptGoes(p)
    <3>1. r.session # None /\ r.pc = "report" => <<"shown", r.session>> \in marks'
      BY <1>4, <1>7, <1>10
    <3> QED BY <1>4, <1>7, <2>9, <3>1 DEF SessionKeptGoes, Signing
  <2>11. SessionKept(pr[p])'
    BY <1>2, <1>4, <1>6, <2>10, SessionKeptThen
  <2>12. ASSUME NEW s \in Sids, <<"replaced", s>> \in marks' \ marks
         PROVE  r.kind = "answer" /\ r.pc = "report" /\ r.session # None /\ r.taken.sid = s /\ sess'[s] # None
    <3>1. r.pc = "report" /\ q.decision = "signed_in" /\ s = q.taken.sid /\ s # None
      BY <1>1, <2>12, Constants
    <3> QED BY <1>4, <1>7, <3>1
  <2>13. Sessions'
    BY <1>1, <1>2, <1>4, <1>5, <1>6, <1>7, <2>1, <2>7, <2>11, <2>12, SessionsFrame
  <2> QED BY <1>1, <2>7, <2>8, <2>13 DEF IInv
<1>11. ASSUME r.pc = "report", q.decision = "signed_in",
              Marked({<<"shown", q.session>>} \cup {<<"replaced", s>> : s \in {q.taken.sid} \ {None}})
       PROVE  <<"shown", q.session>> \in marks'
  BY <1>11 DEF Marked
<1> QED BY <1>1, <1>9, <1>10, <1>11 DEF DeleteDoes

LEMMA ReportKeeps ==
  ASSUME IInv, NEW p \in Procs, report(p)
  PROVE  IInv'
<1> DEFINE q == pr[p]
           r == pr'[p]
           i == pr[p].id
           how == IF q.kind = "answer" THEN Outcomes[q.decision] ELSE "cancelled"
           replaces == q.session # None /\ q.taken.sid # None
<1>1. /\ TypeOK' /\ Only(p) /\ Notes({"report", "skipped"})
      /\ UNCHANGED <<job, now, rec, turn, index, sess, acted, minted>>
      /\ q \in RequestType /\ q.pc = "report" /\ i \in Ids
      /\ ReportDoes(p)
  BY ReportStep
<1>2. q.kind \in requests /\ AskKept(q) /\ DecisionKept(q) /\ SessionKept(q)
  BY AskAt, Steps DEF report
<1>3. q.pc \notin Untaken /\ ~Holds(q) /\ q.taken = q.bound
  BY <1>1, <1>2 DEF Untaken, Holds, Holding, AskKept
<1>4. /\ \A x \in Procs \ {p} : pr'[x] = pr[x]
      /\ marks \subseteq marks' /\ now <= now' /\ minted.ids <= minted'.ids /\ minted.sids <= minted'.sids
      /\ minted.secrets <= minted'.secrets
      /\ "completed" \notin {"report", "skipped"} /\ "replaced" \notin {"report", "skipped"}
  BY <1>1 DEF Only, Notes, IInv, TypeOK
<1>5. SessionsGoOn /\ \A x \in Sids : sess'[x] # None => sess[x] # None
  BY <1>1, SessionsAsWere
<1>6. /\ q.session # None => sess'[q.session] # None /\ q.decision \in Signing /\ <<"shown", q.session>> \in marks'
      /\ jar.sid # None => sess'[jar.sid] # None
  <2>1. jar.sid # None => Made(jar.sid)
    BY DEF IInv, Sessions
  <2>2. q.session # None => <<"shown", q.session>> \in marks
    BY <1>1, <1>2 DEF SessionKept
  <2> QED BY <1>1, <1>2, <1>4, <1>5, <2>1, <2>2, SessionHeld DEF Made
<1>7. \A j \in Ids : ~HoldsNow(q, j)
  BY <1>3 DEF HoldsNow
<1>8. PICK k \in Ids : k = i
  BY <1>1
<1>9. Settles(q) => /\ Sole(p, k) /\ Unheard(k) /\ index[k] = None /\ ~ToldFinished(k)
                    /\ how \in {"finished", "cancelled"} /\ (q.kind = "answer" => how = "finished")
  <2>1. Settles(q) => Owns(q, k)
    BY <1>1, <1>2, <1>8 DEF Owns
  <2>2. q.kind # "answer" => how = "cancelled"
    OBVIOUS
  <2>3. q.kind = "answer" /\ Settles(q) => how = "finished"
    BY <1>1 DEF ReportDoes
  <2> HIDE DEF how
  <2> QED BY <1>2, <1>8, <2>1, <2>2, <2>3, AloneAndSole, Untold DEF AskKept, IInv
<1>10. ASSUME UNCHANGED reports \/ (Settles(q) /\ reports' = [reports EXCEPT ![i] = Append(@, how)]),
              NEW j \in Ids
       PROVE  /\ RecSame(j) \/ (RecKept(j)' /\ Moves(p, j))
              /\ acted'[j] = acted[j] /\ RecordMoves(p, j) /\ rec'[j] = rec[j] /\ turn'[j] = turn[j]
  <2>1. CASE reports'[j] = reports[j]
    BY <1>1, <2>1 DEF RecSame, RecordMoves, Notes
  <2>2. CASE j = k /\ Settles(q) /\ reports' = [reports EXCEPT ![k] = Append(@, how)]
    <3>1. RecKept(k) /\ k <= minted.ids /\ minted.ids \in Nat /\ k \in Nat
      BY <1>2, <1>8, Constants DEF AskKept, IInv, Turns, TypeOK
    <3>2. Told(k)'
      <4> HIDE DEF how
      <4> QED BY <1>4, <1>9, <2>2, ReportMade DEF IInv
    <3>3. <<"completed", k>> \notin marks'
      BY <1>1, <1>9, <2>2, <3>1 DEF RecKept, Notes
    <3>4. ~(minted'.ids < k)
      BY <1>1, <3>1
    <3>5. RecKept(k)'
      BY <1>1, <1>9, <2>2, <3>1, <3>2, <3>3, <3>4 DEF RecKept
    <3>6. Moves(p, k)
      BY <1>1, <1>9, <2>2 DEF Moves
    <3> QED BY <1>1, <2>2, <3>5, <3>6 DEF RecordMoves
  <2>3. j # k => reports'[j] = reports[j]
    <3> HIDE DEF how
    <3>1. reports' = reports \/ reports' = [reports EXCEPT ![k] = Append(@, how)]
      BY <1>8, <1>10
    <3> QED BY <3>1 DEF IInv, TypeOK
  <2> HIDE DEF how
  <2> QED BY <1>8, <1>10, <2>1, <2>2, <2>3
<1>11. ASSUME r = Idle, jar'.sid \in {jar.sid, None, q.session},
              UNCHANGED reports \/ (Settles(q) /\ reports' = [reports EXCEPT ![i] = Append(@, how)]),
              replaces => <<"skipped", q.taken.sid>> \in marks'
       PROVE  IInv'
  <2>1. /\ ProcKept(p)' /\ r.kind \notin requests
        /\ \A j \in Ids : ~HoldsNow(pr[p], j)' /\ ~Owns(pr[p], j)' /\ ~Taken(pr[p], j)'
    BY <1>1, <1>11, IdleAfter
  <2>2. \A j \in Ids : /\ RecSame(j) \/ (RecKept(j)' /\ Moves(p, j))
                       /\ acted'[j] = acted[j] /\ RecordMoves(p, j) /\ rec'[j] = rec[j] /\ turn'[j] = turn[j]
    BY <1>10, <1>11
  <2>3. Turns'
    BY <1>1, <1>4, <2>1, <2>2, TurnsFrame
  <2>4. Records'
    BY <1>1, <1>4, <1>7, <2>1, <2>2, <2>3, RecordsFrame
  <2>5. CookieKept
    BY <1>1, <1>6, <1>11 DEF CookieKept
  <2>6. Sessions'
    BY <1>1, <1>4, <1>5, <1>6, <1>11, <2>3, <2>5, SessionsQuit
  <2> QED BY <1>1, <2>3, <2>4, <2>6 DEF IInv
<1>12. ASSUME SameAll(q, r), r.pc = (IF replaces THEN "replaced" ELSE "reply"), UNCHANGED <<jar, marks>>,
              reports' = IF Settles(q) THEN [reports EXCEPT ![i] = Append(@, how)] ELSE reports
       PROVE  IInv'
  <2>1. /\ Same(q, r) /\ r.kind = q.kind /\ r.id = i /\ r.bound = q.bound /\ r.jar = q.jar /\ r.turn = q.turn
        /\ r.taken = q.taken /\ r.decision = q.decision /\ r.session = q.session /\ r.late = q.late
        /\ r.secret = q.secret /\ r.unread = q.unread
        /\ r.pc \in {"replaced", "reply"} /\ r.kind # "sweep" /\ r.kind \in requests
    BY <1>2, <1>12 DEF SameAll, Same, SameTurn, SameAnswer, SameSwitch, requests
  <2>2. \A j \in Ids : /\ RecSame(j) \/ (RecKept(j)' /\ Moves(p, j))
                       /\ acted'[j] = acted[j] /\ RecordMoves(p, j) /\ rec'[j] = rec[j] /\ turn'[j] = turn[j]
    BY <1>10, <1>12
  <2>3. q.kind = "answer" /\ Settles(q) => ToldFinished(k)'
    <3>1. q.kind = "answer" /\ Settles(q) => reports' = [reports EXCEPT ![k] = Append(@, "finished")]
      BY <1>8, <1>9, <1>12
    <3> QED BY <1>4, <1>9, <3>1, ReportMade DEF IInv
  <2>4. AskKept(pr[p])'
    <3>1. r.pc \notin Untaken \cup {"report"} /\ ~Holds(r)
      BY <2>1 DEF Untaken, Holds, Holding
    <3>2. r.kind = "answer" /\ r.decision \in Finishing => ToldFinished(k)'
      BY <2>1, <2>3 DEF Settles
    <3>3. r.id = k /\ r.taken = r.bound /\ r.id <= minted'.ids
      BY <1>1, <1>2, <1>3, <1>8, <2>1 DEF AskKept
    <3>4. ~Owns(r, r.id)
      BY <2>1 DEF Owns
    <3>5. r.kind = "answer" /\ r.decision \in Finishing => ToldFinished(pr[p].id)'
      BY <3>2, <3>3 DEF ToldFinished
    <3>6. /\ pr'[p].pc \notin Untaken \cup {"report"} /\ ~Holds(pr[p])' /\ ~Owns(pr[p], pr[p].id)'
      BY <3>1, <3>4 DEF Holds, Owns
    <3> QED BY <3>3, <3>5, <3>6 DEF AskKept
  <2>5. DecisionKept(pr[p])'
    BY <1>1, <1>2, <2>1 DEF DecisionKept, Holding
  <2>6. ProcKept(p)'
    BY <2>1, <2>4, <2>5 DEF ProcKept
  <2>7. ASSUME NEW j \in Ids
        PROVE  ~HoldsNow(pr[p], j)' /\ ~Owns(pr[p], j)' /\ ~Taken(pr[p], j)'
    BY <2>1 DEF HoldsNow, Holds, Holding, Owns, Taken
  <2>8. Turns'
    BY <1>1, <1>4, <2>2, <2>6, <2>7, TurnsFrame
  <2>9. Records'
    BY <1>1, <1>2, <1>4, <1>7, <2>1, <2>2, <2>7, <2>8, RecordsFrame
  <2>10. q.kind = "switch" /\ Shows(q.taken) => SwitchedOff(pr[p])'
    <3>1. q.kind = "switch" /\ Shows(q.taken) => SwitchedOff(q)
      BY <1>1, <1>2 DEF SessionKept
    <3> QED BY <1>1, <2>1, <3>1 DEF SwitchedOff, Made, LiveFor, switchedSids, shownUser
  <2>11. SessionKeptGoes(p)
    BY <1>6, <1>12, <2>1, <2>10 DEF SessionKeptGoes
  <2>12. CookieKept
    BY <1>1, <1>6, <1>12 DEF CookieKept
  <2>13. Sessions'
    BY <1>1, <1>2, <1>4, <1>5, <1>12, <2>1, <2>8, <2>11, <2>12, SessionsGoes
  <2> QED BY <1>1, <2>8, <2>9, <2>13 DEF IInv
<1> QED BY <1>1, <1>11, <1>12 DEF ReportDoes

\* A step of the sweep leaves the sessions and the cookies alone.
LEMMA SweepSessions ==
  ASSUME IInv, TypeOK', Turns', NEW p \in Procs, Only(p), UNCHANGED <<job, sess, jar, minted>>,
         NEW kinds, Notes(kinds), "replaced" \notin kinds,
         pr[p].kind = "sweep", pr'[p] = Idle \/ pr'[p] \in SweepType,
         \A i \in Ids : rec'[i] \in {rec[i], None, pr[p].taken},
         pr'[p].kind = "sweep" =>
           pr'[p].taken \in {None, pr[p].taken} \/ \E i \in Ids : pr'[p].taken = rec[i]
  PROVE  Sessions'
<1> DEFINE q == pr[p]
           r == pr'[p]
<1>1. /\ SessionsGoOn /\ \A x \in Sids : sess'[x] # None => sess[x] # None
      /\ jar.sid # None => sess'[jar.sid] # None
      /\ minted.sids <= minted'.sids /\ marks \subseteq marks'
      /\ \A s : <<"replaced", s>> \notin marks' \ marks
  <2>1. SessionsGoOn /\ \A x \in Sids : sess'[x] # None => sess[x] # None
    BY SessionsAsWere
  <2>2. jar.sid # None => sess'[jar.sid] # None
    BY DEF IInv, Sessions, Made
  <2>3. minted.sids <= minted'.sids
    BY DEF IInv, TypeOK
  <2> QED BY <2>1, <2>2, <2>3 DEF Notes
<1>2. /\ r.kind \notin requests /\ r.kind # "answer" /\ r.pc # "create"
      /\ q.kind \notin requests /\ q.kind # "answer" /\ q.pc # "create"
  <2>1. q \in SweepType
    BY Kinds DEF IInv
  <2> QED BY <2>1 DEF Idle, SweepType, requests
<1>3. /\ \A i \in Ids : rec[i] # None => MadeIn(rec[i])
      /\ q.taken # None => MadeIn(q.taken)
  BY DEF IInv, Sessions
<1>4. \A x : MadeIn(x) => /\ x.sid # None => sess'[x.sid] # None
                          /\ x.carried # None => sess'[x.carried.sid] # None
  BY DEF MadeIn, Made
<1>5. ASSUME NEW i \in Ids
      PROVE  rec'[i] = rec[i] \/ rec'[i] = None \/ MadeIn(rec[i])'
  <2>1. CASE rec'[i] # None /\ rec'[i] = q.taken
    BY <1>3, <1>4, <2>1 DEF MadeIn, Made
  <2> QED BY <2>1
<1>6. r.kind = "sweep" /\ r.taken # None => MadeIn(pr[p].taken)'
  BY <1>3, <1>4 DEF MadeIn, Made
<1>7. \A s \in Procs \ {p} : pr'[s] = pr[s]
  BY DEF Only
<1> HIDE DEF q, r
<1>8. ASSUME NEW s \in Sids
      PROVE  /\ ~(sess[s] = None /\ sess'[s] # None)
             /\ <<"replaced", s>> \notin marks' \ marks
  BY <1>1
<1> QED BY <1>1, <1>2, <1>5, <1>6, <1>7, <1>8, SessionsFrame DEF q, r

\* What the sweep knows of an entry it took, after a step that leaves the entry.
SweepMoves(p, k) ==
  LET r == pr'[p]
  IN  /\ r \in SweepType
      /\ r.todo \subseteq pr[p].todo
      /\ r.pc \in {"emit", "relist"} => /\ r.entry # None /\ r.entry.id = k /\ index'[k] = None /\ Unheard(k)'
                                        /\ r.taken # None => r.taken.rev = acted'[k] /\ r.taken.binding <= minted'.secrets

LEMMA SweepGoes ==
  ASSUME IInv, NEW p \in Procs, pr[p].kind = "sweep", UNCHANGED minted, NEW k \in Ids, k <= minted.ids,
         SweepMoves(p, k)
  PROVE  /\ ProcKept(p)' /\ pr'[p].kind \notin requests
         /\ \A j \in Ids : /\ ~HoldsNow(pr[p], j)' /\ ~HoldsNow(pr[p], j)
                           /\ Owns(pr[p], j)' => j = k /\ pr'[p].pc \in {"emit", "relist"}
                           /\ Taken(pr[p], j)' => j = k /\ pr'[p].pc \in {"emit", "relist"} /\ pr'[p].taken # None
<1> DEFINE r == pr'[p]
<1>1. r.kind = "sweep" /\ r.kind \notin requests /\ pr[p].kind \notin requests
  BY DEF SweepMoves, SweepType, requests
<1>2. SweepKept(pr[p])
  BY DEF IInv, Turns, ProcKept
<1>3. SweepKept(pr[p])'
  <2>1. \A e \in r.todo : e.id <= minted'.ids
    BY <1>2 DEF SweepKept, SweepMoves
  <2> HIDE DEF r
  <2>2. r.pc \in {"emit", "relist"} =>
          /\ r.entry # None /\ r.entry.id = k /\ index'[k] = None /\ Unheard(k)'
          /\ r.taken # None => r.taken.rev = acted'[k] /\ r.taken.binding <= minted'.secrets
    BY DEF SweepMoves, r
  <2>3. r.pc \in {"emit", "relist"} =>
          /\ r.entry # None /\ r.entry.id <= minted'.ids
          /\ index'[r.entry.id] = None
          /\ r.taken # None => r.taken.rev = acted'[r.entry.id] /\ r.taken.binding <= minted'.secrets
    BY <2>2
  <2>4. r.pc \in {"emit", "relist"} => Unheard(pr[p].entry.id)'
    BY <2>2 DEF Unheard, r
  <2> QED BY <2>1, <2>3, <2>4 DEF SweepKept, r
<1>4. ProcKept(p)'
  BY <1>1, <1>3 DEF ProcKept
<1>5. ASSUME NEW j \in Ids
      PROVE  /\ ~HoldsNow(pr[p], j)' /\ ~HoldsNow(pr[p], j)
             /\ Owns(pr[p], j)' => j = k /\ r.pc \in {"emit", "relist"}
             /\ Taken(pr[p], j)' => j = k /\ r.pc \in {"emit", "relist"} /\ r.taken # None
  BY <1>1 DEF HoldsNow, Holds, Owns, Taken, SweepMoves
<1> QED BY <1>1, <1>4, <1>5

LEMMA EmitKeeps ==
  ASSUME IInv, NEW p \in Procs, emitExpired(p)
  PROVE  IInv'
<1> DEFINE q == pr[p]
           r == pr'[p]
<1>1. /\ TypeOK' /\ Only(p) /\ Notes({"report", "unheard"})
      /\ UNCHANGED <<job, now, rec, turn, index, sess, jar, acted, minted>>
      /\ q \in SweepType /\ q.pc = "emit" /\ q.entry # None /\ q.entry.id \in Ids
      /\ EmitDoes(p)
  BY EmitStep
<1>2. q.kind = "sweep" /\ SweepKept(q)
  <2>1. q.kind = "sweep"
    BY <1>1 DEF SweepType
  <2> QED BY <2>1 DEF IInv, Turns, ProcKept
<1>3. PICK k \in Ids : k = q.entry.id
  BY <1>1
<1>4. /\ k <= minted.ids /\ index[k] = None /\ Unheard(k) /\ Owns(q, k)
      /\ q.taken # None => q.taken.rev = acted[k] /\ q.taken.binding <= minted.secrets
  BY <1>1, <1>2, <1>3 DEF SweepKept, Owns
<1>5. Sole(p, k)
  BY <1>4, AloneAndSole
<1>6. /\ \A x \in Procs \ {p} : pr'[x] = pr[x]
      /\ marks \subseteq marks' /\ now <= now' /\ minted.ids <= minted'.ids
      /\ minted.secrets <= minted'.secrets /\ k \in Nat /\ minted.ids \in Nat
      /\ "completed" \notin {"report", "unheard"} /\ "replaced" \notin {"report", "unheard"}
  BY <1>1, Constants DEF Only, Notes, IInv, TypeOK
<1>7. \/ r = Idle
      \/ r \in SweepType /\ r.pc = "claim" /\ r.todo = q.todo /\ r.taken = q.taken
      \/ r \in SweepType /\ r.pc = "relist" /\ r.todo = q.todo /\ r.taken = q.taken /\ r.entry = q.entry
  BY <1>1 DEF EmitDoes
<1>8. /\ \A j \in Ids \ {k} : reports'[j] = reports[j]
      /\ Told(k)' /\ (r.pc = "relist" => Unheard(k)')
  <2>1. CASE reports' = reports
    <3>1. Told(k)
      BY <1>4, Untold DEF IInv
    <3>2. reports'[k] = reports[k] /\ marks \subseteq marks'
      BY <1>6, <2>1
    <3>3. (Unheard(k) => Unheard(k)') /\ (Told(k) => Told(k)')
      BY <3>2, ReportsStay
    <3> QED BY <1>4, <2>1, <3>1, <3>3
  <2>2. CASE /\ reports' = [reports EXCEPT ![k] = Append(@, "expired")]
             /\ r.pc = "relist" => <<"unheard", k>> \in marks'
    BY <1>4, <1>6, <2>2, ReportMade DEF IInv
  <2>3. r = Idle => r.pc # "relist"
    BY DEF Idle
  <2>4. \/ reports' = reports
        \/ /\ reports' = [reports EXCEPT ![k] = Append(@, "expired")]
           /\ r.pc = "relist" => <<"unheard", k>> \in marks'
    <3> QED BY <1>1, <1>3, <2>3 DEF EmitDoes
  <2> QED BY <2>1, <2>2, <2>4
<1>9. ASSUME NEW j \in Ids
      PROVE  RecSame(j) \/ (RecKept(j)' /\ Moves(p, j))
  <2>1. <<"completed", j>> \in marks' => <<"completed", j>> \in marks
    BY <1>1, <1>6 DEF Notes
  <2>2. CASE j # k
    BY <1>1, <1>8, <2>1, <2>2 DEF RecSame
  <2>3. CASE j = k
    <3>1. RecKept(k) /\ ~ToldFinished(k)
      BY <1>4, Untold DEF IInv, Turns
    <3>2. <<"completed", k>> \notin marks' /\ ~(minted'.ids < k)
      BY <1>1, <1>4, <1>6, <2>1, <2>3, <3>1 DEF RecKept
    <3>3. RecKept(k)'
      BY <1>1, <1>4, <1>8, <3>1, <3>2 DEF RecKept
    <3>4. Moves(p, k)
      BY <1>1, <1>4, <1>5 DEF Moves
    <3> QED BY <2>3, <3>3, <3>4
  <2> QED BY <2>2, <2>3
<1>10. /\ ProcKept(p)' /\ r.kind \notin requests
       /\ \A j \in Ids : /\ ~HoldsNow(pr[p], j)' /\ ~HoldsNow(pr[p], j)
                         /\ Owns(pr[p], j)' => j = k
                         /\ Taken(pr[p], j)' => j = k /\ r.pc = "relist" /\ r.taken # None
  <2>1. CASE r = Idle
    <3>1. \A j \in Ids : ~HoldsNow(q, j)
      BY <1>2 DEF HoldsNow, Holds, requests
    <3> QED BY <2>1, <3>1, IdleAfter
  <2>2. CASE r \in SweepType /\ r.pc \in {"claim", "relist"}
    <3>1. SweepMoves(p, k)
      BY <1>1, <1>3, <1>4, <1>7, <1>8, <2>2 DEF SweepMoves, Idle
    <3> QED BY <1>1, <1>2, <1>4, <2>2, <3>1, SweepGoes
  <2> QED BY <1>7, <2>1, <2>2
<1>11. Turns'
  BY <1>1, <1>5, <1>6, <1>9, <1>10, TurnsFrame
<1>12. ASSUME NEW j \in Ids
       PROVE  /\ acted'[j] = acted[j] /\ RecordMoves(p, j) /\ rec'[j] = rec[j] /\ turn'[j] = turn[j]
  BY <1>1 DEF RecordMoves
<1>13. ASSUME NEW j \in Ids, Taken(pr[p], j)'
       PROVE  /\ Taken(pr[p], j) /\ r.taken = q.taken
              /\ Expired(pr[p].taken)' \/ <<"early", j>> \in marks'
  <2>1. j = k /\ r.taken = q.taken /\ r.taken # None
    BY <1>7, <1>10, <1>13 DEF Idle
  <2>2. Taken(q, j)
    BY <1>1, <1>2, <1>3, <2>1 DEF Taken
  <2>3. Expired(q.taken) \/ <<"early", j>> \in marks
    BY <2>2 DEF IInv, Records
  <2>4. Expired(q.taken) => Expired(pr[p].taken)'
    BY <1>1, <2>1 DEF Expired, interactionDeadline
  <2> QED BY <1>6, <2>1, <2>2, <2>3, <2>4
<1>14. Records'
  BY <1>1, <1>6, <1>10, <1>11, <1>12, <1>13, RecordsFrame
<1>15. Sessions'
  <2>1. r.kind = "sweep" => r.taken = q.taken
    BY <1>7 DEF Idle
  <2>2. r = Idle \/ r \in SweepType
    BY <1>7
  <2> QED BY <1>1, <1>2, <1>6, <1>11, <1>12, <2>1, <2>2, SweepSessions
<1> QED BY <1>1, <1>11, <1>14, <1>15 DEF IInv

LEMMA ClaimKeeps ==
  ASSUME IInv, NEW p \in Procs, claimExpiredInteraction(p)
  PROVE  IInv'
<1> DEFINE q == pr[p]
           r == pr'[p]
<1>1. /\ TypeOK' /\ Only(p) /\ Notes({"report", "early"})
      /\ UNCHANGED <<job, now, sess, jar, reports, acted, minted>>
      /\ q \in SweepType /\ q.pc = "claim"
      /\ ClaimDoes(p)
  BY ClaimStep
<1>2. q.kind = "sweep" /\ SweepKept(q) /\ \A j \in Ids : ~HoldsNow(q, j) /\ ~Taken(q, j) /\ ~Owns(q, j)
  <2>1. q.kind = "sweep" /\ q.kind \notin requests
    BY <1>1 DEF SweepType, requests
  <2>2. SweepKept(q)
    BY <2>1 DEF IInv, Turns, ProcKept
  <2> QED BY <1>1, <2>1, <2>2 DEF HoldsNow, Holds, Taken, Owns
<1>3. /\ \A x \in Procs \ {p} : pr'[x] = pr[x]
      /\ marks \subseteq marks' /\ now <= now' /\ minted.ids <= minted'.ids
      /\ minted.secrets <= minted'.secrets
      /\ "completed" \notin {"report", "early"} /\ "replaced" \notin {"report", "early"}
  BY <1>1 DEF Only, Notes, IInv, TypeOK
<1>4. CASE r = Idle /\ UNCHANGED <<rec, turn, index>>
  <2>1. Still /\ UNCHANGED rec
    BY <1>1, <1>3, <1>4 DEF Still
  <2>2. Turns' /\ Records'
    BY <1>1, <1>2, <1>3, <1>4, <2>1, Quits
  <2>3. Sessions'
    <3>1. r.kind # "sweep"
      BY <1>4 DEF Idle
    <3> QED BY <1>1, <1>2, <1>3, <1>4, <2>2, <3>1, SweepSessions
  <2> QED BY <1>1, <2>2, <2>3 DEF IInv
<1>5. ASSUME NEW e \in q.todo, Gone(e.id), e \in EntryType,
             \/ r = Idle
             \/ r \in SweepType /\ r.pc = "claim" /\ r.todo = q.todo \ {e} /\ r.taken = q.taken
             \/ /\ r \in SweepType /\ r.pc = "emit" /\ r.todo = q.todo \ {e}
                /\ r.entry = e /\ r.taken = rec[e.id] /\ index[e.id] # None
                /\ rec[e.id] = None \/ Expired(rec[e.id]) \/ <<"early", e.id>> \in marks'
      PROVE  IInv'
  <2>1. PICK k \in Ids : k = e.id
    BY <1>5 DEF EntryType
  <2>2. k <= minted.ids
    BY <1>2, <2>1 DEF SweepKept
  <2>3. RecKept(k) /\ (rec[k] # None => rec[k].binding <= minted.secrets)
    BY DEF IInv, Turns, TypeOK
  <2>4. /\ rec'[k] = None /\ turn'[k] = None /\ index'[k] = None
        /\ \A j \in Ids : /\ RecKept(j)' /\ Moves(p, j) /\ RecordMoves(p, j) /\ acted'[j] = acted[j]
                          /\ Answerable(j)' \/ (j # k /\ rec'[j] = rec[j] /\ turn'[j] = turn[j])
                          /\ rec'[j] = rec[j] \/ rec'[j] = None
    BY <1>1, <1>3, <1>5, <2>1, GoneMoves
  <2>5. r.pc = "emit" => /\ r.entry = e /\ r.taken = rec[k] /\ index[k] # None
                         /\ rec[k] = None \/ Expired(rec[k]) \/ <<"early", k>> \in marks'
    BY <1>5, <2>1 DEF Idle
  <2>6. index[k] # None => Unheard(k)' /\ Sole(p, k)
    BY <1>1, <1>3, <2>3, AloneAndSole, ReportsStay DEF RecKept
  <2>7. /\ ProcKept(p)' /\ r.kind \notin requests
        /\ \A j \in Ids : /\ ~HoldsNow(pr[p], j)'
                          /\ Owns(pr[p], j)' => j = k /\ r.pc = "emit"
                          /\ Taken(pr[p], j)' => j = k /\ r.pc = "emit" /\ r.taken # None
    <3>1. CASE r = Idle
      BY <3>1, IdleAfter
    <3>2. CASE r \in SweepType /\ r.pc \in {"claim", "emit"} /\ r.todo \subseteq q.todo
      <4>1. r.pc = "emit" => /\ r.entry # None /\ r.entry.id = k /\ index'[k] = None /\ Unheard(k)'
                             /\ r.taken # None => r.taken.rev = acted'[k] /\ r.taken.binding <= minted'.secrets
        <5>1. acted'[k] = acted[k] /\ reports' = reports /\ minted' = minted
          BY <1>1
        <5>2. e # None
          BY <1>5, InteractionAssumption
        <5>3. rec[k] # None => rec[k].rev = acted[k]
          BY <2>3 DEF RecKept
        <5> QED BY <2>1, <2>3, <2>4, <2>5, <2>6, <5>1, <5>2, <5>3
      <4>2. SweepMoves(p, k)
        BY <3>2, <4>1 DEF SweepMoves
      <4> QED BY <1>1, <1>2, <2>2, <3>2, <4>2, SweepGoes
    <3> QED BY <1>5, <3>1, <3>2
  <2>8. Turns'
    <3>1. \A j \in Ids : Owns(pr[p], j)' => Sole(p, j)
      BY <2>5, <2>6, <2>7
    <3> QED BY <1>1, <1>3, <2>4, <2>7, <3>1, TurnsFrame
  <2>9. ASSUME NEW j \in Ids, Taken(pr[p], j)'
        PROVE  /\ rec[j] = r.taken
               /\ Expired(pr[p].taken)' \/ <<"early", j>> \in marks'
    <3>1. j = k /\ r.taken = rec[k] /\ r.taken # None
      BY <2>5, <2>7, <2>9
    <3>2. Expired(rec[k]) \/ <<"early", j>> \in marks'
      BY <2>5, <2>7, <2>9, <3>1
    <3>3. Expired(rec[k]) => Expired(pr[p].taken)'
      BY <1>1, <3>1 DEF Expired, interactionDeadline
    <3> QED BY <3>1, <3>2, <3>3
  <2>10. Records'
    BY <1>1, <1>2, <1>3, <2>4, <2>7, <2>8, <2>9, RecordsFrame
  <2>11. Sessions'
    <3>1. r = Idle \/ r \in SweepType
      BY <1>5
    <3>2. r.kind = "sweep" => r.taken = q.taken \/ r.taken = rec[k]
      BY <1>5, <2>1 DEF Idle
    <3> QED BY <1>1, <1>2, <1>3, <2>4, <2>8, <3>1, <3>2, SweepSessions
  <2> QED BY <1>1, <2>8, <2>10, <2>11 DEF IInv
<1> QED BY <1>1, <1>4, <1>5 DEF ClaimDoes

LEMMA RelistKeeps ==
  ASSUME IInv, NEW p \in Procs, relistExpiredInteraction(p)
  PROVE  IInv'
<1> DEFINE q == pr[p]
           r == pr'[p]
<1>1. /\ TypeOK' /\ Only(p) /\ Notes({"report"}) /\ r = Idle
      /\ UNCHANGED <<job, now, turn, sess, jar, reports, acted, minted>>
      /\ q \in SweepType /\ q.pc = "relist" /\ q.entry # None /\ q.entry.id \in Ids
      /\ q.entry.at \in Nat
      /\ RelistStepDoes(p)
  BY RelistStep
<1>2. q.kind = "sweep" /\ SweepKept(q) /\ \A j \in Ids : ~HoldsNow(q, j)
  <2>1. q.kind = "sweep" /\ q.kind \notin requests
    BY <1>1 DEF SweepType, requests
  <2>2. SweepKept(q)
    BY <2>1 DEF IInv, Turns, ProcKept
  <2> QED BY <1>1, <2>1, <2>2 DEF HoldsNow, Holds
<1>3. /\ \A x \in Procs \ {p} : pr'[x] = pr[x]
      /\ marks \subseteq marks' /\ now <= now' /\ minted.ids <= minted'.ids
      /\ minted.secrets <= minted'.secrets
      /\ "completed" \notin {"report"} /\ "replaced" \notin {"report"}
  BY <1>1 DEF Only, Notes, IInv, TypeOK
<1>4. PICK k \in Ids : k = q.entry.id
  BY <1>1
<1>5. /\ k <= minted.ids /\ index[k] = None /\ Unheard(k) /\ RecKept(k)
      /\ q.taken # None => q.taken.rev = acted[k] /\ Taken(q, k)
  BY <1>1, <1>2, <1>4 DEF SweepKept, Taken, IInv, Turns
<1>6. rec[k] = None /\ Sole(p, k)
  <2>1. Owns(q, k)
    BY <1>1, <1>2, <1>4 DEF Owns
  <2> QED BY <1>5, <2>1, AloneAndSole DEF RecKept
<1>7. CASE UNCHANGED <<rec, index>>
  <2>1. Still /\ UNCHANGED rec
    BY <1>1, <1>3, <1>7 DEF Still
  <2>2. Turns' /\ Records'
    BY <1>1, <1>2, <1>3, <2>1, Quits
  <2>3. Sessions'
    <3>1. r.kind # "sweep"
      BY <1>1 DEF Idle
    <3> QED BY <1>1, <1>2, <1>3, <2>1, <2>2, <3>1, SweepSessions
  <2> QED BY <1>1, <2>2, <2>3 DEF IInv
<1>8. ASSUME index' = [index EXCEPT ![k] = q.entry.at],
             rec' = [rec EXCEPT ![k] = IF @ = None THEN q.taken ELSE @]
      PROVE  IInv'
  <2>1. /\ rec'[k] = q.taken /\ index'[k] # None
        /\ \A j \in Ids \ {k} : rec'[j] = rec[j] /\ index'[j] = index[j]
    <3>1. rec \in [Ids -> RecordType \cup {None}] /\ index \in [Ids -> Nat \cup {None}]
      BY DEF IInv, TypeOK
    <3>2. q.entry.at # None
      BY <1>1, Constants
    <3> HIDE DEF q
    <3> QED BY <1>6, <1>8, <3>1, <3>2
  <2>2. ASSUME NEW j \in Ids
        PROVE  RecSame(j) \/ (RecKept(j)' /\ Moves(p, j))
    <3>1. <<"completed", j>> \in marks' => <<"completed", j>> \in marks
      BY <1>1, <1>3 DEF Notes
    <3>2. CASE j # k
      BY <1>1, <2>1, <3>1, <3>2 DEF RecSame
    <3>3. CASE j = k
      <4>1. k \in Nat /\ minted.ids \in Nat
        BY Constants DEF IInv, TypeOK
      <4>2. rec'[k] # None => rec'[k].rev = acted'[k]
        BY <1>1, <1>5, <2>1
      <4>3. ~(minted'.ids < k) /\ reports'[k] = reports[k] /\ turn'[k] = turn[k] /\ acted'[k] = acted[k]
        BY <1>1, <1>5, <4>1
      <4>4. RecKept(k)'
        <5>1. Unheard(k)' /\ (Told(k) => Told(k)') /\ (ToldFinished(k) => ToldFinished(k)')
          BY <1>3, <1>5, <4>3, ReportsStay
        <5> QED BY <1>5, <2>1, <3>1, <3>3, <4>2, <4>3, <5>1 DEF RecKept
      <4>5. Moves(p, k)
        BY <1>6, <4>3 DEF Moves
      <4> QED BY <3>3, <4>4, <4>5
    <3> QED BY <3>2, <3>3
  <2>3. /\ ProcKept(p)' /\ r.kind \notin requests
        /\ \A j \in Ids : ~HoldsNow(pr[p], j)' /\ ~Owns(pr[p], j)' /\ ~Taken(pr[p], j)'
    BY <1>1, IdleAfter
  <2>4. Turns'
    BY <1>1, <1>3, <2>2, <2>3, TurnsFrame
  <2>5. ASSUME NEW j \in Ids
        PROVE  /\ acted'[j] = acted[j] /\ RecordMoves(p, j)
               /\ \/ Answerable(j)'
                  \/ rec'[j] = rec[j] /\ turn'[j] = turn[j]
    <3>1. CASE j # k
      BY <1>1, <2>1, <3>1 DEF RecordMoves
    <3>2. CASE j = k /\ q.taken = None
      BY <1>1, <1>6, <2>1, <3>2 DEF RecordMoves
    <3>3. CASE j = k /\ q.taken # None
      <4>1. Expired(q.taken) \/ <<"early", k>> \in marks'
        BY <1>3, <1>5, <3>3 DEF IInv, Records
      <4>2. Expired(q.taken) => Expired(rec[k])'
        BY <1>1, <2>1 DEF Expired, interactionDeadline
      <4>3. Answerable(k)'
        BY <4>1, <4>2 DEF Answerable
      <4>4. RecordMoves(p, k)
        BY <1>5, <2>1, <3>3 DEF RecordMoves
      <4> QED BY <1>1, <3>3, <4>3, <4>4
    <3> QED BY <3>1, <3>2, <3>3
  <2>6. Records'
    BY <1>1, <1>2, <1>3, <2>3, <2>4, <2>5, RecordsFrame
  <2>7. Sessions'
    <3>1. r.kind # "sweep"
      BY <1>1 DEF Idle
    <3> QED BY <1>1, <1>2, <1>3, <2>1, <2>4, <3>1, SweepSessions
  <2> QED BY <1>1, <2>4, <2>6, <2>7 DEF IInv
<1> QED BY <1>1, <1>4, <1>7, <1>8 DEF RelistStepDoes

----------------------------------------------------------------------------
(* The invariant, and what it says of every behaviour *)

LEMMA InitHolds ==
  ASSUME Init
  PROVE  IInv
<1> DEFINE u == CHOOSE x \in Users : TRUE
<1>1. /\ job \in JobType /\ job \in Jobs /\ job.carry \in BOOLEAN /\ job.size \in Nat
      /\ 1 \in Sids /\ Ids \subseteq Nat /\ Sids \subseteq Nat \ {0} /\ None \notin Sids
      /\ None \notin Nat /\ None \notin SessionType
  BY InteractionAssumption, Constants DEF Init, JobType
<1>2. u \in Users
  BY InteractionAssumption
<1> HIDE DEF u
<1>3. /\ now = 0 /\ faults = job.size /\ marks = {}
      /\ rec = [i \in Ids |-> None] /\ turn = [i \in Ids |-> None] /\ index = [i \in Ids |-> None]
      /\ sess = [s \in Sids |-> IF job.carry /\ s = 1 THEN [user |-> u, live |-> TRUE] ELSE None]
      /\ jar = [secrets |-> {}, sid |-> IF job.carry THEN 1 ELSE None]
      /\ pr = [p \in Procs |-> Idle]
      /\ reports = [i \in Ids |-> <<>>] /\ acted = [i \in Ids |-> 0]
      /\ minted = [ids |-> 0, sids |-> IF job.carry THEN 1 ELSE 0, secrets |-> 0, asks |-> 0]
  BY DEF Init, u
<1>4. [user |-> u, live |-> TRUE] \in SessionType
  BY <1>2 DEF SessionType
<1>5. TypeOK
  <2>1. sess \in [Sids -> SessionType \cup {None}] /\ jar \in JarType
    BY <1>1, <1>3, <1>4 DEF JarType
  <2>2. pr \in [Procs -> ProcessType]
    BY <1>3 DEF ProcessType
  <2>3. minted \in [ids : Nat, sids : Nat, secrets : Nat, asks : Nat]
    BY <1>1, <1>3
  <2>4. \A s \in Sids : sess[s] # None => s <= minted.sids
    BY <1>1, <1>3
  <2>5. reports \in [Ids -> Seq({"finished", "cancelled", "expired"})]
    BY <1>3
  <2>6. /\ rec \in [Ids -> RecordType \cup {None}] /\ turn \in [Ids -> Nat \cup {None}]
        /\ index \in [Ids -> Nat \cup {None}] /\ acted \in [Ids -> Nat]
        /\ \A i \in Ids : rec[i] = None
    BY <1>3
  <2> QED BY <1>1, <1>3, <2>1, <2>2, <2>3, <2>4, <2>5, <2>6 DEF TypeOK
<1>6. \A p \in Procs : /\ pr[p] = Idle /\ pr[p].kind \notin requests \cup {"sweep"} /\ pr[p].pc # "create"
                       /\ \A i \in Ids : ~HoldsNow(pr[p], i) /\ ~Owns(pr[p], i) /\ ~Taken(pr[p], i)
  BY <1>3 DEF Idle, requests, HoldsNow, Holds, Owns, Taken
<1>7. Turns
  <2>1. ASSUME NEW i \in Ids
        PROVE  RecKept(i)
    <3>1. reports[i] = <<>> /\ Unheard(i) /\ Told(i)
      BY <1>3, NothingTold
    <3> QED BY <1>3, <3>1 DEF RecKept
  <2> QED BY <1>6, <2>1 DEF Turns, ProcKept, Apart
<1>8. Records
  BY <1>3, <1>6 DEF Records, Answerable
<1>9. Sessions
  <2>1. jar.sid # None => Made(jar.sid)
    <3>1. jar.sid # None => job.carry /\ jar.sid = 1
      BY <1>3
    <3>2. job.carry => sess[1] # None
      BY <1>1, <1>3, <1>4
    <3> QED BY <3>1, <3>2 DEF Made
  <2>2. ASSUME NEW s \in Sids
        PROVE  Given(s) /\ ReplacedKept(s)
    <3>1. sess[s] # None => job.carry /\ s = 1
      BY <1>3
    <3> QED BY <1>3, <3>1 DEF Given, ReplacedKept
  <2> QED BY <1>3, <1>6, <2>1, <2>2 DEF Sessions
<1> QED BY <1>5, <1>7, <1>8, <1>9 DEF IInv

\* Every step keeps the invariant.
LEMMA StepKeeps ==
  ASSUME IInv, NEW p \in Procs, Step(p)
  PROVE  IInv'
<1>1. CASE takeTurn(p)
  BY <1>1, TakeTurnKeeps
<1>2. CASE takeBound(p)
  BY <1>2, TakeBoundKeeps
<1>3. CASE returnTurn(p)
  BY <1>3, ReturnTurnKeeps
<1>4. CASE decide(p)
  BY <1>4, DecideKeeps
<1>5. CASE signInSessionIsLive(p)
  BY <1>5, CheckKeeps
<1>6. CASE createBrowserSession(p)
  BY <1>6, CreateKeeps
<1>7. CASE writeState(p)
  BY <1>7, WriteKeeps
<1>8. CASE deleteTaken(p)
  BY <1>8, DeleteKeeps
<1>9. CASE report(p)
  BY <1>9, ReportKeeps
<1>10. CASE endReplacedSession(p)
  BY <1>10, ReplacedKeeps
<1>11. CASE reply(p)
  BY <1>11, ReplyKeeps
<1>12. CASE giveTurnBack(p)
  BY <1>12, GiveTurnBackKeeps
<1>13. CASE giveBack(p)
  BY <1>13, GiveBackKeeps
<1>14. CASE endUnusedSession(p)
  BY <1>14, UnusedKeeps
<1>15. CASE switchedUserOf(p)
  BY <1>15, ShownKeeps
<1>16. CASE endSwitchedSessions(p)
  BY <1>16, SwitchKeeps
<1>17. CASE switchCookieSessionId(p)
  BY <1>17, CookieKeeps
<1>18. CASE claimExpiredInteraction(p)
  BY <1>18, ClaimKeeps
<1>19. CASE emitExpired(p)
  BY <1>19, EmitKeeps
<1>20. CASE relistExpiredInteraction(p)
  BY <1>20, RelistKeeps
<1> QED
  BY <1>1, <1>2, <1>3, <1>4, <1>5, <1>6, <1>7, <1>8, <1>9, <1>10, <1>11, <1>12, <1>13, <1>14,
     <1>15, <1>16, <1>17, <1>18, <1>19, <1>20 DEF Step

LEMMA NextKeeps ==
  ASSUME IInv, [Next]_vars
  PROVE  IInv'
<1>1. CASE startInteraction
  BY <1>1, StartKeeps
<1>2. CASE Tick
  BY <1>2, TickKeeps
<1>3. ASSUME NEW s \in Sids, SignOutElsewhere(s)
      PROVE  IInv'
  BY <1>3, SignOutKeeps
<1>4. ASSUME NEW p \in Procs, NEW i \in Ids, NEW kind \in requests, Locate(p, kind, i)
      PROVE  IInv'
  BY <1>4, LocateKeeps
<1>5. ASSUME NEW p \in Procs, expiredInteractionEntries(p)
      PROVE  IInv'
  BY <1>5, SweepKeeps
<1>6. ASSUME NEW p \in Procs, Step(p)
      PROVE  IInv'
  BY <1>6, StepKeeps
<1>7. ASSUME NEW p \in Procs, Crash(p)
      PROVE  IInv'
  BY <1>7, CrashKeeps
<1>8. CASE UNCHANGED vars
  <2>1. UNCHANGED <<job, now, rec, turn, index, sess, jar, pr, reports, acted, marks, minted, faults>>
    BY <1>8 DEF vars
  <2>2. TypeOK'
    BY <2>1 DEF IInv, TypeOK
  <2>3. Turns'
    BY <2>1 DEF IInv, Turns, RecKept, ProcKept, Apart, AskKept, DecisionKept, SweepKept,
                HoldsNow, Holds, Owns, Settles, Unheard, Told, ToldFinished
  <2>4. Records'
    BY <2>1 DEF IInv, Records, Answerable, Matches, Taken, Expired, interactionDeadline, HoldsNow, Holds
  <2>5. Sessions'
    <3>1. \A p \in Procs : SessionKept(pr[p]) => SessionKept(pr[p])'
      BY <2>1 DEF SessionKept, SwitchedOff, Shows, shownUser, switchedSids, MadeIn, Made, Over, LiveFor
    <3>2. \A s \in Sids : (Given(s) => Given(s)') /\ (ReplacedKept(s) => ReplacedKept(s)')
      BY <2>1 DEF Given, ReplacedKept, Made
    <3>3. /\ \A i \in Ids : rec'[i] # None => MadeIn(rec[i])'
          /\ \A p \in Procs : pr'[p].kind = "sweep" /\ pr'[p].taken # None => MadeIn(pr[p].taken)'
          /\ jar'.sid # None => Made(jar.sid)'
      BY <2>1 DEF IInv, Sessions, MadeIn, Made
    <3> QED BY <2>1, <3>1, <3>2, <3>3 DEF IInv, Sessions
  <2> QED BY <2>2, <2>3, <2>4, <2>5 DEF IInv
<1> QED BY <1>1, <1>2, <1>3, <1>4, <1>5, <1>6, <1>7, <1>8 DEF Next

THEOREM InvariantHolds == Spec => []IInv
<1>1. Init => IInv
  BY InitHolds
<1>2. IInv /\ [Next]_vars => IInv'
  BY NextKeeps
<1> QED BY <1>1, <1>2, PTL DEF Spec

\* Sessions are accounted for: each was given to a browser, belongs to a request
\* under way or is over, unless the helper that stored its row threw before the
\* request learned of it, and a replaced one does not outlive its successor's
\* answer (settleAnswer, endUnusedSession, endReplacedSession).
THEOREM SessionsKeptHolds == Spec => []SessionsKept
<1>1. IInv => SessionsKept
  <2> SUFFICES ASSUME IInv
               PROVE  SessionsKept
    OBVIOUS
  <2>1. TypeOK /\ Sessions
    BY DEF IInv
  <2>2. SessionsGivenOrEnded
    BY <2>1 DEF Sessions, Given, SessionsGivenOrEnded
  <2>3. ReplacedSessionOver
    <3> SUFFICES ASSUME NEW s \in Sids, <<"replaced", s>> \in marks, sess[s].live,
                        {<<"end", s>>, <<"skipped", s>>} \cap marks = {}
                 PROVE  Replacing(s)
      BY DEF ReplacedSessionOver
    <3>1. ReplacedKept(s)
      BY <2>1 DEF Sessions
    <3> QED BY <3>1 DEF ReplacedKept, Replacing
  <2> QED BY <2>1, <2>2, <2>3 DEF SessionsKept
<1> QED BY <1>1, InvariantHolds, PTL

\* An interaction ends in one way: among concurrent answers, cancels, switches and
\* sweeps, with replies lost on the way, it is reported at most once, and its request
\* goes back to the caller only when it was reported finished (deleteInteraction,
\* claimExpiredInteraction). Only an expiry whose event was written with the reply lost
\* is reported again (emitExpired).
THEOREM OneOutcomeHolds == Spec => []OneOutcome
<1>1. IInv => OneOutcome
  BY DEF IInv, Turns, RecKept, Told, ToldFinished, OneOutcome
<1> QED BY <1>1, InvariantHolds, PTL

\* Each revision is answered once: the revision counts exactly the states that were
\* written, whatever turns were taken, returned and given back (takeInteractionTurn,
\* writeInteractionState).
THEOREM AnsweredOnceHolds == Spec => []AnsweredOnce
<1>1. IInv => AnsweredOnce
  BY DEF IInv, Turns, RecKept, AnsweredOnce
<1> QED BY <1>1, InvariantHolds, PTL

\* A live interaction nobody is answering can be answered: its turn is there, unless a
\* node died with it, Redis failed inside takeBound or the clean-up, or a claim of the
\* sweep was overtaken (giveTurnBack, takeBound).
THEOREM LiveIsAnswerableHolds == Spec => []LiveIsAnswerable
<1>1. IInv => LiveIsAnswerable
  <2> SUFFICES ASSUME IInv, NEW i \in Ids, rec[i] # None, ~Expired(rec[i]), InFlight(i) = {},
                      {<<"turn", i>>, <<"early", i>>} \cap marks = {}
               PROVE  turn[i] = rec[i].rev
    BY DEF LiveIsAnswerable
  <2>1. Answerable(i) /\ RecKept(i)
    BY DEF IInv, Records, Turns
  <2>2. \A p \in Procs : ~HoldsNow(pr[p], i)
    BY DEF InFlight, HoldsNow, Holds
  <2> QED BY <2>1, <2>2 DEF Answerable, RecKept
<1> QED BY <1>1, InvariantHolds, PTL

\* "Not you?" signs out: when a switch goes on to its new interaction, neither a session
\* of the shown account the record held nor the one the browser's cookie named is live
\* for that account (endSwitchedSessions); the cookie's is excepted when the cookie
\* or the row of its session could not be read (switchCookieSessionId).
THEOREM SwitchSignsOutHolds == Spec => []SwitchSignsOut
<1>1. IInv => SwitchSignsOut
  <2> SUFFICES ASSUME IInv, NEW p \in Procs, At(p, {"switch"}, "reply"), ~pr[p].taken.chooser,
                      switchedSids(pr[p].taken) # {},
                      NEW s \in (switchedSids(pr[p].taken)
                                 \cup (IF pr[p].unread THEN {} ELSE {pr[p].jar.sid})) \ {None}
               PROVE  ~LiveFor(s, shownUser(pr[p].taken))
    BY DEF SwitchSignsOut
  <2>1. SessionKept(pr[p]) /\ pr[p].kind = "switch" /\ pr[p].pc = "reply"
    BY AskAt, Steps
  <2> QED BY <2>1, Steps DEF SessionKept, Shows, SwitchedOff
<1> QED BY <1>1, InvariantHolds, PTL

\* A request completes only under a live session: a finish never ends the interaction
\* when the session its sign-in started had ended before the finish took the turn
\* (signInSessionIsLive), unless the session service answered it from a stale cache entry.
THEOREM NoFinishUnderEndedSessionHolds == Spec => NoFinishUnderEndedSession
<1>1. IInv => \A p \in Procs :
                At(p, {"answer"}, "delete") /\ pr[p].decision = "finished" => ~pr[p].late \/ pr[p].stale
  <2> SUFFICES ASSUME IInv, NEW p \in Procs, At(p, {"answer"}, "delete"), pr[p].decision = "finished"
               PROVE  ~pr[p].late \/ pr[p].stale
    OBVIOUS
  <2>1. SessionKept(pr[p]) /\ pr[p].pc = "delete"
    BY AskAt, Steps
  <2> QED BY <2>1 DEF SessionKept
<1>2. IInv => [\A p \in Procs :
                 (/\ At(p, {"answer"}, "delete") /\ pr[p].decision = "finished"
                  /\ pr'[p].pc = "report") => ~pr[p].late \/ pr[p].stale]_vars
  BY <1>1
<1> QED BY <1>2, InvariantHolds, PTL DEF NoFinishUnderEndedSession
============================================================================
