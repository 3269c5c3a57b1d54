------------------------ MODULE DeliveryQueue_proofs ------------------------
(***************************************************************************)
(* Proofs about DeliveryQueue for any nodes, rows, destinations and bounds. *)
(*                                                                          *)
(* The invariant behind them: the claims that nodes still act on are told   *)
(* apart by (row, attempt), and none is ahead of its row's attempt_count.   *)
(* A claim raises the count above every older claim; a hold lowers it by    *)
(* one only together with the end of the one claim that had reached it.     *)
(***************************************************************************)
EXTENDS DeliveryQueue, FiniteSetTheorems, TLAPS

\* Every node acts on finitely many claims.
Finite == \A n \in Nodes : IsFiniteSet(work[n])

\* A claim is never ahead of its row.
Ordered == \A n \in Nodes : \A e \in work[n] :
              row[e.id].status # "absent" /\ e.attempt <= row[e.id].attempt_count

\* The claim that may write is that of the node that claimed last.
Latest == \A n \in Nodes : \A e \in work[n] : claimed(e) => holder[e.id] = n

\* No two claims of a row have the same attempt number.
Distinct == \A n, m \in Nodes : \A e \in work[n], f \in work[m] :
               e.id = f.id /\ e.attempt = f.attempt => n = m /\ e = f

\* An outcome that ends a row was seen from a route.
Reasons == \A n \in Nodes : \A e \in work[n] :
              e.stage \in {"ok", "permanent"} => e.stage \in seen[e.id]

IInv == /\ TypeOK
        /\ Finite
        /\ Ordered
        /\ Latest
        /\ Distinct
        /\ NoLeakedLease
        /\ Reasons
        /\ EndsForAReason

----------------------------------------------------------------------------
\* The image of a finite set is finite.
LEMMA FiniteImage ==
  ASSUME NEW S, IsFiniteSet(S), NEW T, NEW f \in [S -> T],
         \A t \in T : \E x \in S : f[x] = t
  PROVE  IsFiniteSet(T)
  <1>1. f \in Surjection(S, T)
    BY DEF Surjection
  <1> QED
    BY <1>1, FS_Surjection

LEMMA InitIInv == Init => IInv
  <1> SUFFICES ASSUME Init PROVE IInv
    OBVIOUS
  <1> USE DeliveryAssumption DEF Init
  <1>1. TypeOK
    BY DEF TypeOK, Row, Round, Idle
  <1>2. Finite
    BY FS_EmptySet DEF Finite
  <1> QED
    BY <1>1, <1>2 DEF IInv, Ordered, Latest, Distinct, NoLeakedLease, Reasons, EndsForAReason

\* The new rows of FanOut and ComeDue: no claim is disturbed.
LEMMA RowStep ==
  ASSUME IInv, NEW d \in Deliveries, FanOut(d) \/ ComeDue(d)
  PROVE  IInv'
  <1> USE DeliveryAssumption DEF IInv
  <1> DEFINE r == row'[d]
  <1>0. r \in Row /\ (r.leased => r.status = "pending")
        /\ row' = [row EXCEPT ![d] = r] /\ UNCHANGED <<holder, seen, state, round, work>>
    <2>1. CASE FanOut(d)
      BY <2>1 DEF TypeOK, Row, FanOut
    <2>2. CASE ComeDue(d)
      <3>1. row[d] \in Row
        BY DEF TypeOK
      <3> QED
        BY <2>2, <3>1 DEF TypeOK, Row, ComeDue
    <2> QED
      BY <2>1, <2>2
  <1>1. TypeOK'
    <2> HIDE DEF r
    <2> QED
      BY <1>0 DEF TypeOK
  <1>2. Finite' /\ Distinct' /\ Reasons'
    BY <1>0 DEF Finite, Distinct, Reasons
  <1>3. ASSUME NEW n \in Nodes, NEW e \in work[n]
        PROVE  /\ e.id \in Deliveries
               /\ row'[e.id].status = row[e.id].status
               /\ row'[e.id].attempt_count = row[e.id].attempt_count
               /\ row'[e.id].leased = row[e.id].leased
    <2>1. e.id \in Deliveries /\ row[e.id].status # "absent"
      BY DEF TypeOK, Entry, Ordered
    <2>2. CASE e.id = d
      <3>1. row[d].status # "absent" /\ row[d] \in Row
        BY <2>1, <2>2 DEF TypeOK
      <3> QED
        BY <2>2, <3>1 DEF FanOut, ComeDue, Row, TypeOK
    <2>3. CASE e.id # d
      BY <2>1, <2>3, <1>0 DEF TypeOK
    <2> QED
      BY <2>1, <2>2, <2>3
  <1>4. Ordered' /\ Latest'
    BY <1>0, <1>3 DEF Ordered, Latest, claimed
  <1>5. NoLeakedLease'
    <2> SUFFICES ASSUME NEW c \in Deliveries, row'[c].leased, holder'[c] # NoNode
                 PROVE  \E e \in work'[holder'[c]] : e.id = c /\ claimed(e)'
      BY DEF NoLeakedLease
    <2>1. row[c].leased
      <3>1. CASE c # d
        BY <3>1, <1>0 DEF TypeOK
      <3>2. CASE c = d /\ FanOut(d)
        BY <3>2 DEF FanOut, TypeOK
      <3>3. CASE c = d /\ ComeDue(d)
        <4>1. row[d] \in Row /\ row'[d] = [row[d] EXCEPT !.due = TRUE]
          BY <3>3 DEF ComeDue, TypeOK
        <4> QED
          BY <3>3, <4>1 DEF Row
      <3> QED
        BY <3>1, <3>2, <3>3
    <2>2. holder[c] \in Nodes
      BY <1>0 DEF TypeOK
    <2>3. PICK e \in work[holder[c]] : e.id = c /\ claimed(e)
      BY <2>1, <1>0 DEF NoLeakedLease
    <2> QED
      BY <1>0, <1>3, <2>2, <2>3 DEF claimed
  <1>6. EndsForAReason'
    <2> SUFFICES ASSUME NEW c \in Deliveries, row'[c].status \in {"delivered", "failed"}
                 PROVE  row'[c] = row[c]
      BY <1>0 DEF EndsForAReason
    <2> QED
      BY DEF FanOut, ComeDue, TypeOK, Row
  <1> QED
    BY <1>1, <1>2, <1>4, <1>5, <1>6

\* Steps that only move claims from one stage to the next keep the invariant.
LEMMA Restage ==
  ASSUME IInv, TypeOK', Finite', Distinct', Reasons', row' = row, holder' = holder,
         \A d \in Deliveries : seen[d] \subseteq seen'[d],
         \A m \in Nodes : \A f \in work'[m] :
            \E e \in work[m] : e.id = f.id /\ e.attempt = f.attempt,
         \A m \in Nodes : \A e \in work[m] :
            \E f \in work'[m] : e.id = f.id /\ e.attempt = f.attempt
  PROVE  IInv'
  <1> USE DEF IInv
  <1>1. Ordered' /\ Latest'
    BY DEF Ordered, Latest, claimed
  <1>2. NoLeakedLease'
    <2> SUFFICES ASSUME NEW c \in Deliveries, row'[c].leased, holder'[c] # NoNode
                 PROVE  \E f \in work'[holder'[c]] : f.id = c /\ claimed(f)'
      BY DEF NoLeakedLease
    <2>1. holder[c] \in Nodes
      BY DEF TypeOK
    <2>2. PICK e \in work[holder[c]] : e.id = c /\ claimed(e)
      BY DEF NoLeakedLease
    <2> QED
      BY <2>1, <2>2 DEF claimed
  <1>3. EndsForAReason'
    BY DEF EndsForAReason
  <1> QED
    BY <1>1, <1>2, <1>3

\* Steps that leave rows and claims alone: ReadDue, Stop and Restart.
LEMMA LoopStep ==
  ASSUME IInv, NEW n \in Nodes, ReadDue(n) \/ Stop(n) \/ Restart(n)
  PROVE  IInv'
  <1> USE DeliveryAssumption DEF IInv
  <1>1. UNCHANGED <<row, holder, seen, work>>
    BY DEF ReadDue, Stop, Restart
  <1>2. TypeOK'
    <2>1. CASE ReadDue(n)
      <3> DEFINE free == Concurrency - Cardinality(inFlight(n))
                 due == {DestinationOf[d] : d \in {c \in Deliveries :
                            row[c].status = "pending" /\ row[c].due}}
      <3>1. IsFiniteSet(inFlight(n))
        BY FS_Subset DEF Finite, inFlight
      <3>2. Cardinality(inFlight(n)) \in Nat
        BY <3>1, FS_CardinalityType
      <3>3. free \in 0..Concurrency
        BY <2>1, <3>2 DEF ReadDue
      <3>4. due \subseteq Destinations
        OBVIOUS
      <3>5. round' = [round EXCEPT ![n] = [step |-> "due", free |-> free, due |-> due]]
        BY <2>1 DEF ReadDue
      <3>6. round' \in [Nodes -> Round]
        <4> HIDE DEF free, due
        <4> QED
          BY <3>3, <3>4, <3>5 DEF TypeOK, Round
      <3> QED
        BY <1>1, <2>1, <3>6 DEF TypeOK, ReadDue
    <2>2. CASE Stop(n) \/ Restart(n)
      BY <2>2 DEF TypeOK, Stop, Restart
    <2> QED
      BY <2>1, <2>2
  <1>3. Finite' /\ Distinct' /\ Reasons'
    BY <1>1 DEF Finite, Distinct, Reasons
  <1> QED
    BY <1>1, <1>2, <1>3, Restage

\* Moving every claim of one stage to the next (TakeUp, GiveUp).
LEMMA MoveStageStep ==
  ASSUME IInv, NEW n \in Nodes, NEW from, NEW to \in {"attempting", "releasing"},
         work' = MoveStage(n, from, to), row' = row, holder' = holder,
         \A d \in Deliveries : seen[d] \subseteq seen'[d],
         seen' \in [Deliveries -> SUBSET {"ok", "permanent"}],
         state' \in [Nodes -> {"running", "stopping", "stopped", "down"}],
         round' \in [Nodes -> Round]
  PROVE  IInv'
  <1> USE DEF IInv
  <1> DEFINE Move(e) == IF e.stage = from THEN [e EXCEPT !.stage = to] ELSE e
             T == {Move(e) : e \in work[n]}
             g == [e \in work[n] |-> Move(e)]
  <1>1. ASSUME NEW e \in work[n]
        PROVE  /\ Move(e) \in Entry /\ Move(e).id = e.id /\ Move(e).attempt = e.attempt
               /\ Move(e).stage \in {"ok", "permanent"} => Move(e) = e
    <2>1. e \in Entry
      BY DEF TypeOK
    <2> QED
      BY <2>1 DEF Entry, Stages, Outcomes
  <1>2. /\ work'[n] = T /\ \A m \in Nodes \ {n} : work'[m] = work[m]
        /\ work' = [work EXCEPT ![n] = T]
    BY DEF TypeOK, MoveStage
  <1> HIDE DEF Move
  <1>3. work' \in [Nodes -> SUBSET Entry]
    <2>1. T \subseteq Entry
      BY <1>1
    <2> HIDE DEF T
    <2> QED
      BY <1>2, <2>1 DEF TypeOK
  <1>4. TypeOK'
    BY <1>3 DEF TypeOK
  <1>5. Finite'
    <2>1. g \in [work[n] -> T] /\ \A t \in T : \E x \in work[n] : g[x] = t
      OBVIOUS
    <2>2. IsFiniteSet(work[n])
      BY DEF Finite
    <2>3. IsFiniteSet(T)
      <3> HIDE DEF T, g
      <3> QED
        BY <2>1, <2>2, FiniteImage
    <2> QED
      BY <1>2, <2>3 DEF Finite
  <1>6. \A m \in Nodes : \A f \in work'[m] : \E e \in work[m] :
           /\ e.id = f.id /\ e.attempt = f.attempt
           /\ f = (IF m = n THEN Move(e) ELSE e)
           /\ f.stage \in {"ok", "permanent"} => f = e
    BY <1>1, <1>2
  <1>7. \A m \in Nodes : \A e \in work[m] :
           \E f \in work'[m] : e.id = f.id /\ e.attempt = f.attempt
    BY <1>1, <1>2
  <1>8. Distinct'
    BY <1>6 DEF Distinct
  <1>9. Reasons'
    <2> SUFFICES ASSUME NEW m \in Nodes, NEW f \in work'[m], f.stage \in {"ok", "permanent"}
                 PROVE  f.stage \in seen'[f.id]
      BY DEF Reasons
    <2>1. f \in work[m]
      BY <1>6
    <2>2. f.id \in Deliveries
      BY <2>1 DEF TypeOK, Entry
    <2> QED
      BY <2>1, <2>2 DEF Reasons
  <1>10. \A m \in Nodes : \A f \in work'[m] :
            \E e \in work[m] : e.id = f.id /\ e.attempt = f.attempt
    BY <1>6
  <1> QED
    BY <1>4, <1>5, <1>7, <1>8, <1>9, <1>10, Restage

LEMMA TakeUpStep ==
  ASSUME IInv, NEW n \in Nodes, TakeUp(n)
  PROVE  IInv'
  <1> DEFINE next == IF state[n] = "running" THEN "attempting" ELSE "releasing"
  <1>1. next \in {"attempting", "releasing"}
    OBVIOUS
  <1>2. /\ work' = MoveStage(n, "claimed", next)
        /\ row' = row /\ holder' = holder /\ state' = state
        /\ round' = [round EXCEPT ![n] = Idle]
    BY DEF TakeUp
  <1>3. /\ \A d \in Deliveries : seen[d] \subseteq seen'[d]
        /\ seen' \in [Deliveries -> SUBSET {"ok", "permanent"}]
    BY DEF TakeUp, IInv, TypeOK
  <1>4. round' \in [Nodes -> Round] /\ state' \in [Nodes -> {"running", "stopping", "stopped", "down"}]
    BY <1>2, DeliveryAssumption DEF IInv, TypeOK, Round, Idle
  <1> HIDE DEF next
  <1> QED
    BY <1>1, <1>2, <1>3, <1>4, MoveStageStep

LEMMA GiveUpStep ==
  ASSUME IInv, NEW n \in Nodes, GiveUp(n)
  PROVE  IInv'
  <1>1. /\ work' = MoveStage(n, "attempting", "releasing")
        /\ row' = row /\ holder' = holder /\ seen' = seen /\ round' = round
    BY DEF GiveUp
  <1>2. /\ seen' \in [Deliveries -> SUBSET {"ok", "permanent"}]
        /\ round' \in [Nodes -> Round]
        /\ state' \in [Nodes -> {"running", "stopping", "stopped", "down"}]
    BY <1>1 DEF IInv, TypeOK, GiveUp
  <1> QED
    BY <1>1, <1>2, MoveStageStep

LEMMA EndAttemptStep ==
  ASSUME IInv, NEW n \in Nodes, NEW e \in work[n], NEW outcome \in Outcomes,
         EndAttempt(n, e, outcome)
  PROVE  IInv'
  <1> USE DEF IInv
  <1> DEFINE f == [e EXCEPT !.stage = outcome]
  <1>1. e \in Entry /\ f \in Entry /\ f.id = e.id /\ f.attempt = e.attempt /\ f.stage = outcome
    BY DEF TypeOK, Entry, Stages
  <1>2. e.id \in Deliveries
    BY <1>1 DEF Entry
  <1>3. /\ work'[n] = (work[n] \ {e}) \cup {f}
        /\ \A m \in Nodes \ {n} : work'[m] = work[m]
        /\ work' = [work EXCEPT ![n] = (work[n] \ {e}) \cup {f}]
        /\ seen' = [seen EXCEPT ![e.id] = @ \cup ({outcome} \cap {"ok", "permanent"})]
        /\ UNCHANGED <<row, holder, state, round>>
    BY DEF EndAttempt, TypeOK
  <1> HIDE DEF f
  <1>4. TypeOK'
    <2>1. work' \in [Nodes -> SUBSET Entry]
      BY <1>1, <1>3 DEF TypeOK
    <2>2. seen' \in [Deliveries -> SUBSET {"ok", "permanent"}]
      BY <1>2, <1>3 DEF TypeOK
    <2> QED
      BY <1>3, <2>1, <2>2 DEF TypeOK
  <1>5. Finite'
    <2>1. IsFiniteSet(work[n])
      BY DEF Finite
    <2>2. IsFiniteSet(work[n] \ {e})
      BY <2>1, FS_RemoveElement
    <2>3. IsFiniteSet((work[n] \ {e}) \cup {f})
      BY <2>2, FS_AddElement
    <2> QED
      BY <1>3, <2>3 DEF Finite
  <1>6. \A d \in Deliveries : seen[d] \subseteq seen'[d]
    BY <1>2, <1>3 DEF TypeOK
  <1>7. /\ \A m \in Nodes : \A g \in work'[m] :
              \E h \in work[m] : h.id = g.id /\ h.attempt = g.attempt
        /\ \A m \in Nodes : \A h \in work[m] :
              \E g \in work'[m] : h.id = g.id /\ h.attempt = g.attempt
    BY <1>1, <1>3
  <1>8. Distinct'
    BY <1>1, <1>3 DEF Distinct
  <1>9. Reasons'
    <2> SUFFICES ASSUME NEW m \in Nodes, NEW g \in work'[m], g.stage \in {"ok", "permanent"}
                 PROVE  g.stage \in seen'[g.id]
      BY DEF Reasons
    <2>1. CASE g = f /\ m = n
      BY <2>1, <1>1, <1>2, <1>3 DEF TypeOK
    <2>2. CASE g \in work[m]
      <3>1. g.id \in Deliveries
        BY <2>2 DEF TypeOK, Entry
      <3> QED
        BY <2>2, <3>1, <1>6 DEF Reasons
    <2> QED
      BY <1>3, <2>1, <2>2
  <1> QED
    BY <1>3, <1>4, <1>5, <1>6, <1>7, <1>8, <1>9, Restage

\* Claims that nobody acts on any more, after a crash or a failed store call:
\* their rows are orphaned, and every other claim is as it was.
LEMMA LoseStep ==
  ASSUME IInv, TypeOK', NEW n \in Nodes, NEW S \in SUBSET work[n],
         work' = [work EXCEPT ![n] = @ \ S], holder' = Orphaned(n, S),
         row' = row, seen' = seen
  PROVE  IInv'
  <1> USE DEF IInv
  <1>1. work'[n] = work[n] \ S /\ \A m \in Nodes \ {n} : work'[m] = work[m]
    BY DEF TypeOK
  <1>2. Finite'
    <2>1. IsFiniteSet(work[n] \ S)
      BY FS_Difference DEF Finite
    <2> QED
      BY <1>1, <2>1 DEF Finite
  <1>3. Ordered' /\ Distinct' /\ Reasons' /\ EndsForAReason'
    BY <1>1 DEF Ordered, Distinct, Reasons, EndsForAReason
  <1>4. Latest'
    <2> SUFFICES ASSUME NEW m \in Nodes, NEW f \in work'[m], claimed(f)
                 PROVE  holder'[f.id] = m
      BY DEF Latest, claimed
    <2>1. f \in work[m] /\ f.id \in Deliveries /\ holder[f.id] = m
      BY <1>1 DEF Latest, TypeOK, Entry
    <2>2. ASSUME NEW e \in S, e.id = f.id, claimed(e)
          PROVE  FALSE
      <3>1. e \in work[n] /\ e.attempt = f.attempt
        BY <2>2 DEF claimed
      <3>2. n = m /\ e = f
        BY <2>1, <2>2, <3>1 DEF Distinct
      <3> QED
        BY <1>1, <3>2
    <2> QED
      BY <2>1, <2>2 DEF Orphaned
  <1>5. NoLeakedLease'
    <2> SUFFICES ASSUME NEW c \in Deliveries, row[c].leased, holder'[c] # NoNode
                 PROVE  \E f \in work'[holder'[c]] : f.id = c /\ claimed(f)
      BY DEF NoLeakedLease, claimed
    <2>1. holder'[c] = holder[c] /\ ~(\E e \in S : e.id = c /\ holder[c] = n /\ claimed(e))
      BY DEF Orphaned
    <2>2. holder[c] \in Nodes
      BY <2>1 DEF TypeOK
    <2>3. PICK e \in work[holder[c]] : e.id = c /\ claimed(e)
      BY <2>1 DEF NoLeakedLease
    <2> QED
      BY <1>1, <2>1, <2>2, <2>3
  <1> QED
    BY <1>2, <1>3, <1>4, <1>5

LEMMA ExitStep ==
  ASSUME IInv, NEW n \in Nodes, Exit(n)
  PROVE  IInv'
  <1>1. work' = [work EXCEPT ![n] = @ \ work[n]] /\ work' = [work EXCEPT ![n] = {}]
    BY DEF Exit
  <1>2. /\ holder' = Orphaned(n, work[n]) /\ row' = row /\ seen' = seen
        /\ round' = [round EXCEPT ![n] = Idle] /\ state' = [state EXCEPT ![n] = "down"]
    BY DEF Exit
  <1>3. TypeOK'
    BY <1>1, <1>2, DeliveryAssumption DEF IInv, TypeOK, Orphaned, Idle, Round
  <1> QED
    BY <1>1, <1>2, <1>3, LoseStep

LEMMA StoreFailsStep ==
  ASSUME IInv, NEW n \in Nodes, StoreFails(n)
  PROVE  IInv'
  <1>1. row' = row /\ seen' = seen /\ state' = state
    BY DEF StoreFails
  <1>2. PICK S \in SUBSET work[n] :
           /\ work' = [work EXCEPT ![n] = @ \ S] /\ holder' = Orphaned(n, S)
           /\ round' = [round EXCEPT ![n] = Idle] \/ round' = round
    BY DEF StoreFails, InStage
  <1>3. TypeOK'
    BY <1>1, <1>2, DeliveryAssumption DEF IInv, TypeOK, Orphaned, Idle, Round
  <1> QED
    BY <1>1, <1>2, <1>3, LoseStep

\* An outcome that is written ends the claim that alone had reached the count.
LEMMA RecordStep ==
  ASSUME IInv, NEW n \in Nodes, NEW e \in work[n], record(n, e)
  PROVE  IInv'
  <1> USE DeliveryAssumption DEF IInv
  <1> DEFINE r == RecordedRow(row[e.id], ResultOf(e))
  <1>1. /\ e \in Entry /\ e.id \in Deliveries /\ e.attempt \in 1..MaxAttempts
        /\ e.stage \in Outcomes /\ row[e.id] \in Row
    BY DEF TypeOK, Entry, record, InStage
  <1>2. /\ work'[n] = work[n] \ {e} /\ \A m \in Nodes \ {n} : work'[m] = work[m]
        /\ work' \in [Nodes -> SUBSET Entry]
        /\ UNCHANGED <<holder, seen, state, round>>
    BY DEF TypeOK, record
  <1>3. row' = IF claimed(e) THEN [row EXCEPT ![e.id] = r] ELSE row
    BY DEF record
  <1>4. ASSUME claimed(e)
        PROVE  /\ r \in Row /\ r.leased = FALSE /\ r.status # "absent"
               /\ r.attempt_count \in {e.attempt - 1, e.attempt}
               /\ r.status = "delivered" => e.stage = "ok"
               /\ r.status = "failed" => \/ e.stage = "permanent"
                                        \/ r.attempt_count = MaxAttempts
    <2>1. /\ row[e.id].status = "pending" /\ row[e.id].attempt_count = e.attempt
      BY <1>4 DEF claimed
    <2>2. CASE ResultOf(e) = "hold"
      <3> DEFINE k == e.attempt - 1
      <3>0. k \in 0..MaxAttempts
        BY <1>1
      <3>1. r = [row[e.id] EXCEPT !.attempt_count = k, !.leased = FALSE, !.due = FALSE]
        BY <2>1, <2>2 DEF RecordedRow
      <3> HIDE DEF r, k
      <3>2. /\ r.status = "pending" /\ r.leased = FALSE /\ r.attempt_count = k
            /\ r \in Row
        BY <1>1, <2>1, <3>0, <3>1 DEF Row
      <3> QED
        BY <3>2 DEF k
    <2>3. CASE ResultOf(e) = "retry"
      <3>1. r = [row[e.id] EXCEPT !.leased = FALSE, !.due = FALSE]
        BY <2>3 DEF RecordedRow
      <3> HIDE DEF r
      <3>2. /\ r.status = "pending" /\ r.leased = FALSE /\ r.attempt_count = e.attempt
            /\ r \in Row
        BY <1>1, <2>1, <3>1 DEF Row
      <3> QED
        BY <3>2
    <2>4. CASE ResultOf(e) \in {"delivered", "failed"}
      <3>1. r = [row[e.id] EXCEPT !.status = ResultOf(e), !.leased = FALSE, !.due = FALSE]
        BY <2>4 DEF RecordedRow
      <3>2. /\ r.status = ResultOf(e) /\ r.leased = FALSE /\ r.attempt_count = e.attempt
            /\ r \in Row
        BY <1>1, <2>1, <2>4, <3>1 DEF Row
      <3>3. ResultOf(e) = "delivered" => e.stage = "ok"
        BY <1>1 DEF ResultOf, Outcomes
      <3>4. ResultOf(e) = "failed" => e.stage = "permanent" \/ e.attempt = MaxAttempts
        BY <1>1 DEF ResultOf, Outcomes
      <3> QED
        BY <2>4, <3>2, <3>3, <3>4
    <2>5. ResultOf(e) \in {"hold", "retry", "delivered", "failed"}
      BY DEF ResultOf
    <2> HIDE DEF r
    <2> QED
      BY <2>2, <2>3, <2>4, <2>5
  <1> HIDE DEF r
  <1>5. TypeOK'
    <2>1. row' \in [Deliveries -> Row] /\ \A d \in Deliveries : row'[d].leased => row'[d].status = "pending"
      BY <1>1, <1>3, <1>4 DEF TypeOK
    <2> QED
      BY <1>2, <2>1 DEF TypeOK
  <1>6. Finite'
    <2>1. IsFiniteSet(work[n] \ {e})
      BY FS_RemoveElement DEF Finite
    <2> QED
      BY <1>2, <2>1 DEF Finite
  <1>7. Distinct' /\ Reasons'
    BY <1>2 DEF Distinct, Reasons
  <1>8. Ordered'
    <2> SUFFICES ASSUME NEW m \in Nodes, NEW f \in work'[m]
                 PROVE  row'[f.id].status # "absent" /\ f.attempt <= row'[f.id].attempt_count
      BY DEF Ordered
    <2>1. /\ f \in work[m] /\ f.id \in Deliveries /\ f.attempt \in 1..MaxAttempts
          /\ row[f.id].status # "absent" /\ f.attempt <= row[f.id].attempt_count
          /\ ~(m = n /\ f = e)
      BY <1>2 DEF Ordered, TypeOK, Entry
    <2>2. CASE claimed(e) /\ f.id = e.id
      <3>1. f.attempt # e.attempt
        BY <2>1, <2>2 DEF Distinct
      <3>2. row[f.id].attempt_count = e.attempt
        BY <2>2 DEF claimed
      <3> QED
        BY <1>1, <1>3, <1>4, <2>1, <2>2, <3>1, <3>2 DEF TypeOK
    <2>3. CASE ~(claimed(e) /\ f.id = e.id)
      BY <1>1, <1>3, <2>1, <2>3 DEF TypeOK
    <2> QED
      BY <2>2, <2>3
  <1>9. \A c \in Deliveries : row'[c].leased => row'[c] = row[c]
    BY <1>1, <1>3, <1>4 DEF TypeOK
  <1>10. Latest'
    <2> SUFFICES ASSUME NEW m \in Nodes, NEW f \in work'[m], claimed(f)'
                 PROVE  holder'[f.id] = m
      BY DEF Latest
    <2>1. f \in work[m] /\ f.id \in Deliveries
      BY <1>2 DEF TypeOK, Entry
    <2> QED
      BY <1>2, <1>9, <2>1 DEF Latest, claimed
  <1>11. NoLeakedLease'
    <2> SUFFICES ASSUME NEW c \in Deliveries, row'[c].leased, holder'[c] # NoNode
                 PROVE  \E f \in work'[holder'[c]] : f.id = c /\ claimed(f)'
      BY DEF NoLeakedLease
    <2>1. row'[c] = row[c] /\ holder[c] \in Nodes /\ holder'[c] = holder[c]
      BY <1>2, <1>9 DEF TypeOK
    <2>2. PICK f \in work[holder[c]] : f.id = c /\ claimed(f)
      BY <2>1 DEF NoLeakedLease
    <2>3. f # e
      BY <1>1, <1>3, <1>4, <2>1, <2>2 DEF TypeOK
    <2> QED
      BY <1>2, <2>1, <2>2, <2>3 DEF claimed
  <1>12. EndsForAReason'
    <2> SUFFICES ASSUME NEW c \in Deliveries
                 PROVE  /\ row'[c].status = "delivered" => "ok" \in seen[c]
                        /\ row'[c].status = "failed" =>
                             row'[c].attempt_count = MaxAttempts \/ "permanent" \in seen[c]
      BY <1>2 DEF EndsForAReason
    <2>1. CASE c = e.id /\ claimed(e)
      <3>1. row'[c] = r
        BY <1>1, <1>3, <2>1 DEF TypeOK
      <3>2. e.stage \in {"ok", "permanent"} => e.stage \in seen[c]
        BY <2>1 DEF Reasons
      <3> QED
        BY <1>4, <2>1, <3>1, <3>2
    <2>2. CASE ~(c = e.id /\ claimed(e))
      BY <1>1, <1>3, <2>2 DEF EndsForAReason, TypeOK
    <2> QED
      BY <2>1, <2>2
  <1> QED
    BY <1>5, <1>6, <1>7, <1>8, <1>10, <1>11, <1>12

\* A release frees the rows that its claims still hold.
LEMMA ReleaseStep ==
  ASSUME IInv, NEW n \in Nodes, release(n)
  PROVE  IInv'
  <1> USE DeliveryAssumption DEF IInv
  <1> DEFINE Given(S) == {d \in Deliveries : \E e \in S : e.id = d /\ claimed(e)}
  <1>1. PICK S \in SUBSET work[n] :
          /\ row' = [d \in Deliveries |->
                       IF d \in Given(S) THEN [row[d] EXCEPT !.leased = FALSE, !.due = TRUE]
                       ELSE row[d]]
          /\ work' = [work EXCEPT ![n] = @ \ S]
          /\ UNCHANGED <<holder, seen, state, round>>
    BY DEF release, InStage
  <1>0. UNCHANGED <<holder, seen, state, round>>
    BY <1>1
  <1>2. /\ work'[n] = work[n] \ S /\ \A m \in Nodes \ {n} : work'[m] = work[m]
        /\ work' \in [Nodes -> SUBSET Entry]
    BY <1>1 DEF TypeOK
  <1>3. ASSUME NEW c \in Deliveries
        PROVE  /\ row'[c] \in Row
               /\ row'[c].status = row[c].status
               /\ row'[c].attempt_count = row[c].attempt_count
               /\ row'[c].leased => row'[c] = row[c] /\ c \notin Given(S)
    <2>1. row[c] \in Row
      BY DEF TypeOK
    <2>2. CASE c \in Given(S)
      <3>1. row'[c] = [row[c] EXCEPT !.leased = FALSE, !.due = TRUE]
        BY <1>1, <2>2
      <3> HIDE DEF Given
      <3> QED
        BY <2>1, <3>1 DEF Row
    <2>3. CASE c \notin Given(S)
      BY <1>1, <2>1, <2>3
    <2> QED
      BY <2>2, <2>3
  <1>4. TypeOK'
    <2>1. DOMAIN row' = Deliveries /\ row' = [d \in Deliveries |-> row'[d]]
      BY <1>1
    <2>2. row' \in [Deliveries -> Row]
      BY <1>3, <2>1
    <2>3. \A d \in Deliveries : row'[d].leased => row'[d].status = "pending"
      BY <1>3 DEF TypeOK
    <2> QED
      BY <1>1, <1>2, <2>2, <2>3 DEF TypeOK
  <1>5. Finite'
    <2>1. IsFiniteSet(work[n] \ S)
      BY FS_Difference DEF Finite
    <2> QED
      BY <1>2, <2>1 DEF Finite
  <1>6. Distinct' /\ Reasons'
    BY <1>0, <1>2 DEF Distinct, Reasons
  <1>7. \A m \in Nodes : \A f \in work'[m] : f \in work[m] /\ f.id \in Deliveries
    BY <1>2 DEF TypeOK, Entry
  <1>8. Ordered' /\ EndsForAReason'
    <2> HIDE DEF Given
    <2> QED
      BY <1>0, <1>3, <1>7 DEF Ordered, EndsForAReason
  <1>9. Latest'
    <2> SUFFICES ASSUME NEW m \in Nodes, NEW f \in work'[m], claimed(f)'
                 PROVE  holder'[f.id] = m
      BY DEF Latest
    <2> HIDE DEF Given
    <2> QED
      BY <1>0, <1>3, <1>7 DEF Latest, claimed
  <1>10. NoLeakedLease'
    <2> SUFFICES ASSUME NEW c \in Deliveries, row'[c].leased, holder'[c] # NoNode
                 PROVE  \E f \in work'[holder'[c]] : f.id = c /\ claimed(f)'
      BY DEF NoLeakedLease
    <2>1. row'[c] = row[c] /\ c \notin Given(S) /\ holder[c] \in Nodes /\ holder'[c] = holder[c]
      BY <1>1, <1>3 DEF TypeOK
    <2>2. PICK f \in work[holder[c]] : f.id = c /\ claimed(f)
      BY <2>1 DEF NoLeakedLease
    <2>3. f \notin S
      BY <2>1, <2>2
    <2> QED
      BY <1>2, <2>1, <2>2, <2>3 DEF claimed
  <1> QED
    BY <1>4, <1>5, <1>6, <1>8, <1>9, <1>10

\* What a claim statement takes is pending and due.
LEMMA TakenRows ==
  ASSUME NEW n \in Nodes, NEW S \in Taken(n)
  PROVE  \A d \in S : d \in Reads[n] /\ row[d].status = "pending"
  BY DEF Taken, Claimable

\* A claim puts its rows' counts above every older claim.
LEMMA ClaimStep ==
  ASSUME IInv, NEW n \in Nodes, claim(n)
  PROVE  IInv'
  <1> USE DeliveryAssumption DEF IInv
  <1> DEFINE Open(S) == {d \in S : row[d].attempt_count < MaxAttempts}
             New(d) == [id |-> d, attempt |-> row[d].attempt_count + 1, stage |-> "claimed"]
  <1>1. PICK S \in Taken(n) :
          /\ row' = [d \in Deliveries |-> IF d \in S THEN ClaimedRow(row[d]) ELSE row[d]]
          /\ holder' = [d \in Deliveries |->
                          IF d \in Open(S) THEN n ELSE IF d \in S THEN NoNode ELSE holder[d]]
          /\ work' = [work EXCEPT ![n] = @ \cup {New(d) : d \in Open(S)}]
    BY DEF claim
  <1>2. S \subseteq Deliveries /\ \A d \in S : row[d].status = "pending"
    BY TakenRows
  <1> DEFINE O == Open(S)
             W == {New(d) : d \in O}
  <1>3. O \subseteq S /\ \A d \in Deliveries : d \in O <=> (d \in S /\ row[d].attempt_count < MaxAttempts)
    BY <1>2
  <1>4. /\ work'[n] = work[n] \cup W /\ \A m \in Nodes \ {n} : work'[m] = work[m]
        /\ work' = [work EXCEPT ![n] = work[n] \cup W]
        /\ seen' = seen /\ state' = state
        /\ round' = [round EXCEPT ![n] = [step |-> "claimed", free |-> 0, due |-> {}]]
    <2>1. /\ work' = [work EXCEPT ![n] = work[n] \cup W]
          /\ work \in [Nodes -> SUBSET Entry]
      BY <1>1 DEF TypeOK
    <2>2. /\ seen' = seen /\ state' = state
          /\ round' = [round EXCEPT ![n] = [step |-> "claimed", free |-> 0, due |-> {}]]
      BY DEF claim
    <2> HIDE DEF W
    <2> QED BY <2>1, <2>2
  <1>5. \A d \in Deliveries : holder'[d] = IF d \in O THEN n ELSE IF d \in S THEN NoNode ELSE holder[d]
    BY <1>1
  <1>6. ASSUME NEW d \in Deliveries
        PROVE  /\ row'[d] \in Row
               /\ d \notin S => row'[d] = row[d]
               /\ d \in O => /\ row'[d].status = "pending" /\ row'[d].leased
                             /\ row'[d].attempt_count = row[d].attempt_count + 1
               /\ d \in S \ O => /\ row'[d].status = "failed" /\ ~row'[d].leased
                                 /\ row'[d].attempt_count = row[d].attempt_count
                                 /\ row[d].attempt_count = MaxAttempts
    <2>1. row[d] \in Row
      BY DEF TypeOK
    <2>2. CASE d \notin S
      BY <1>1, <1>3, <2>1, <2>2
    <2>3. CASE d \in O
      <3> DEFINE k == row[d].attempt_count + 1
      <3>1. row'[d] = [row[d] EXCEPT !.attempt_count = k, !.leased = TRUE, !.due = FALSE]
        BY <1>1, <1>3, <2>3 DEF ClaimedRow
      <3>2. row[d].status = "pending" /\ k \in 0..MaxAttempts
        BY <1>2, <1>3, <2>1, <2>3 DEF Row
      <3> HIDE DEF O, k
      <3>3. /\ row'[d] \in Row
            /\ row'[d].status = "pending" /\ row'[d].leased
            /\ row'[d].attempt_count = k
        BY <2>1, <3>1, <3>2 DEF Row
      <3> QED
        BY <1>3, <2>3, <3>3 DEF k
    <2>4. CASE d \in S \ O
      <3>1. row[d].attempt_count = MaxAttempts
        BY <1>3, <2>1, <2>4 DEF Row
      <3>2. row'[d] = [row[d] EXCEPT !.status = "failed", !.leased = FALSE, !.due = FALSE]
        BY <1>1, <2>4, <3>1 DEF ClaimedRow
      <3> HIDE DEF O
      <3> QED
        BY <2>1, <2>4, <3>1, <3>2 DEF Row
    <2> QED
      BY <2>2, <2>3, <2>4
  <1>7. ASSUME NEW w \in W
        PROVE  /\ w \in Entry /\ w.id \in O /\ w.attempt = row[w.id].attempt_count + 1
               /\ w.stage = "claimed" /\ w = New(w.id)
    <2>1. PICK d \in O : w = New(d)
      OBVIOUS
    <2>2. d \in Deliveries /\ row[d] \in Row /\ row[d].attempt_count < MaxAttempts
      BY <1>2, <1>3 DEF TypeOK
    <2> QED
      BY <2>1, <2>2 DEF Entry, Stages, Row
  <1>8. ASSUME NEW d \in O
        PROVE  \E w \in W : w.id = d
    <2>1. New(d) \in W /\ New(d).id = d
      OBVIOUS
    <2> QED
      BY <2>1
  <1>9. IsFiniteSet(W)
    <2>1. IsFiniteSet(O)
      <3>1. O \in SUBSET Deliveries
        BY <1>2, <1>3
      <3> QED
        BY <3>1, FS_Subset
    <2> DEFINE g == [d \in O |-> New(d)]
    <2>2. g \in [O -> W] /\ \A w \in W : \E d \in O : g[d] = w
      OBVIOUS
    <2> HIDE DEF g, O, W
    <2> QED
      BY <2>1, <2>2, FiniteImage
  <1>10. \A d \in O : New(d).attempt = row[d].attempt_count + 1
    OBVIOUS
  <1> HIDE DEF O, W, New
  <1>11. TypeOK'
    <2>1. row' \in [Deliveries -> Row]
      <3>1. row' = [d \in Deliveries |-> row'[d]]
        BY <1>1
      <3> QED
        BY <1>6, <3>1
    <2>2. \A d \in Deliveries : row'[d].leased => row'[d].status = "pending"
      BY <1>6 DEF TypeOK
    <2>3. holder' \in [Deliveries -> Nodes \cup {NoNode}]
      BY <1>1 DEF TypeOK
    <2>4. work' \in [Nodes -> SUBSET Entry]
      BY <1>4, <1>7 DEF TypeOK
    <2>5. round' \in [Nodes -> Round]
      BY <1>4 DEF TypeOK, Round
    <2> QED
      BY <1>4, <2>1, <2>2, <2>3, <2>4, <2>5 DEF TypeOK
  <1>12. Finite'
    <2>1. IsFiniteSet(work[n] \cup W)
      BY <1>9, FS_Union DEF Finite
    <2> QED
      BY <1>4, <2>1 DEF Finite
  <1>13. ASSUME NEW m \in Nodes, NEW f \in work[m]
         PROVE  /\ f.id \in Deliveries /\ f.attempt \in 1..MaxAttempts
                /\ row[f.id].attempt_count \in 0..MaxAttempts
                /\ f.attempt <= row[f.id].attempt_count
                /\ row[f.id].status # "absent"
    BY DEF TypeOK, Entry, Row, Ordered
  <1>14. Ordered'
    <2> SUFFICES ASSUME NEW m \in Nodes, NEW f \in work'[m]
                 PROVE  row'[f.id].status # "absent" /\ f.attempt <= row'[f.id].attempt_count
      BY DEF Ordered
    <2>1. CASE f \in work[m]
      BY <1>6, <1>13, <2>1
    <2>2. CASE f \in W
      <3>1. f.id \in O /\ f.id \in Deliveries
        BY <1>2, <1>3, <1>7, <2>2
      <3>2. row'[f.id].attempt_count \in 0..MaxAttempts
        BY <1>6, <3>1 DEF Row
      <3> QED
        BY <1>6, <1>7, <2>2, <3>1, <3>2
    <2> QED
      BY <1>4, <2>1, <2>2
  <1>15. Distinct'
    <2> SUFFICES ASSUME NEW m \in Nodes, NEW k \in Nodes, NEW f \in work'[m], NEW g \in work'[k],
                        f.id = g.id, f.attempt = g.attempt
                 PROVE  m = k /\ f = g
      BY DEF Distinct
    <2>1. \A h \in W : \A i \in Nodes : \A j \in work[i] : ~(h.id = j.id /\ h.attempt = j.attempt)
      BY <1>7, <1>13
    <2>2. CASE f \in work[m] /\ g \in work[k]
      BY <2>2 DEF Distinct
    <2>3. CASE f \in W /\ g \in W /\ m = n /\ k = n
      BY <1>7, <2>3
    <2> QED
      BY <1>4, <2>1, <2>2, <2>3
  <1>16. Latest'
    <2> SUFFICES ASSUME NEW m \in Nodes, NEW f \in work'[m], claimed(f)'
                 PROVE  holder'[f.id] = m
      BY DEF Latest
    <2>1. CASE f \in work[m]
      <3>1. f.id \notin S
        <4>1. f.id \notin O
          BY <1>6, <1>13, <2>1 DEF claimed
        <4> QED
          BY <1>6, <1>13, <2>1, <4>1 DEF claimed
      <3> QED
        BY <1>3, <1>5, <1>6, <1>13, <2>1, <3>1 DEF Latest, claimed
    <2>2. CASE f \in W /\ m = n
      BY <1>2, <1>3, <1>5, <1>7, <2>2
    <2> QED
      BY <1>4, <2>1, <2>2
  <1>17. NoLeakedLease'
    <2> SUFFICES ASSUME NEW c \in Deliveries, row'[c].leased, holder'[c] # NoNode
                 PROVE  \E f \in work'[holder'[c]] : f.id = c /\ claimed(f)'
      BY DEF NoLeakedLease
    <2>1. CASE c \in O
      <3>1. PICK w \in W : w.id = c
        BY <1>8, <2>1
      <3>2. claimed(w)'
        BY <1>6, <1>7, <2>1, <3>1 DEF claimed
      <3> QED
        BY <1>4, <1>5, <2>1, <3>1, <3>2
    <2>2. CASE c \notin O
      <3>1. c \notin S
        BY <1>6, <2>2
      <3>2. row'[c] = row[c] /\ holder'[c] = holder[c] /\ holder[c] \in Nodes
        BY <1>3, <1>5, <1>6, <3>1 DEF TypeOK
      <3>3. PICK f \in work[holder[c]] : f.id = c /\ claimed(f)
        BY <3>2 DEF NoLeakedLease
      <3> QED
        BY <1>4, <3>2, <3>3 DEF claimed
    <2> QED
      BY <2>1, <2>2
  <1>18. Reasons'
    BY <1>4, <1>7 DEF Reasons
  <1>19. EndsForAReason'
    BY <1>3, <1>4, <1>6 DEF EndsForAReason
  <1> QED
    BY <1>11, <1>12, <1>14, <1>15, <1>16, <1>17, <1>18, <1>19

----------------------------------------------------------------------------
LEMMA NextIInv == IInv /\ [Next]_vars => IInv'
  <1> SUFFICES ASSUME IInv, [Next]_vars PROVE IInv'
    OBVIOUS
  <1>1. CASE UNCHANGED vars
    BY <1>1 DEF vars, IInv, TypeOK, Finite, Ordered, Latest, Distinct, NoLeakedLease,
                Reasons, EndsForAReason, claimed
  <1>2. ASSUME NEW d \in Deliveries, FanOut(d) \/ ComeDue(d) PROVE IInv'
    BY <1>2, RowStep
  <1>3. ASSUME NEW n \in Nodes, ReadDue(n) \/ Stop(n) \/ Restart(n) PROVE IInv'
    BY <1>3, LoopStep
  <1>4. ASSUME NEW n \in Nodes, claim(n) PROVE IInv'
    BY <1>4, ClaimStep
  <1>5. ASSUME NEW n \in Nodes, TakeUp(n) \/ GiveUp(n) PROVE IInv'
    BY <1>5, TakeUpStep, GiveUpStep
  <1>6. ASSUME NEW n \in Nodes, NEW e \in work[n], NEW outcome \in Outcomes,
               EndAttempt(n, e, outcome)
        PROVE  IInv'
    BY <1>6, EndAttemptStep
  <1>7. ASSUME NEW n \in Nodes, NEW e \in work[n], record(n, e) PROVE IInv'
    BY <1>7, RecordStep
  <1>8. ASSUME NEW n \in Nodes, release(n) PROVE IInv'
    BY <1>8, ReleaseStep
  <1>9. ASSUME NEW n \in Nodes, Exit(n) \/ StoreFails(n) PROVE IInv'
    BY <1>9, ExitStep, StoreFailsStep
  <1> QED
    BY <1>1, <1>2, <1>3, <1>4, <1>5, <1>6, <1>7, <1>8, <1>9 DEF Next

\* Every state of the delivery queue is well-typed: attempt_count stays within
\* 0..maxAttempts although a hold gives attempts back, and only pending rows are
\* leased.
THEOREM TypeCorrect == Spec => []TypeOK
  <1>1. IInv => TypeOK
    BY DEF IInv
  <1> QED
    BY <1>1, InitIInv, NextIInv, PTL DEF Spec

\* Fencing: whatever the number of nodes and rows, and however leases run out,
\* calls fail and nodes crash, only a row's latest claim can write to it.
THEOREM Fencing == Spec => []OnlyTheLatestClaimWrites
  <1>1. IInv => OnlyTheLatestClaimWrites
    <2> SUFFICES ASSUME IInv, NEW n \in Nodes, NEW e \in work[n], claimed(e)
                 PROVE  /\ holder[e.id] = n
                        /\ \A m \in Nodes : \A f \in work[m] :
                              f.id = e.id /\ claimed(f) => m = n /\ f = e
      BY DEF OnlyTheLatestClaimWrites
    <2>1. holder[e.id] = n
      BY DEF IInv, Latest
    <2>2. ASSUME NEW m \in Nodes, NEW f \in work[m], f.id = e.id, claimed(f)
          PROVE  m = n /\ f = e
      <3>1. f.attempt = e.attempt
        BY <2>2 DEF claimed
      <3> QED
        BY <2>2, <3>1 DEF IInv, Distinct
    <2> QED
      BY <2>1, <2>2
  <1> QED
    BY <1>1, InitIInv, NextIInv, PTL DEF Spec

\* Every lease is owned: a leased row is given back or recorded by the claim that
\* took it, or its node crashed or lost the call.
THEOREM LeasesOwned == Spec => []NoLeakedLease
  <1>1. IInv => NoLeakedLease
    BY DEF IInv
  <1> QED
    BY <1>1, InitIInv, NextIInv, PTL DEF Spec

\* A delivered or failed row is final, whatever late answers arrive.
THEOREM FinishedIsFinal == Spec => FinishedStays
  <1>1. IInv /\ [Next]_vars => [\A d \in Deliveries : Finished(d) => row'[d] = row[d]]_vars
    <2> SUFFICES ASSUME IInv, Next, NEW d \in Deliveries, Finished(d)
                 PROVE  row'[d] = row[d]
      OBVIOUS
    <2> USE DEF IInv, TypeOK, Finished
    <2>1. ASSUME NEW c \in Deliveries, FanOut(c) \/ ComeDue(c) PROVE row'[d] = row[d]
      BY <2>1 DEF FanOut, ComeDue
    <2>2. ASSUME NEW n \in Nodes, claim(n) PROVE row'[d] = row[d]
      <3>1. PICK S \in Taken(n) :
              row' = [c \in Deliveries |-> IF c \in S THEN ClaimedRow(row[c]) ELSE row[c]]
        BY <2>2 DEF claim
      <3>2. d \notin S
        BY TakenRows
      <3> QED
        BY <3>1, <3>2
    <2>3. ASSUME NEW n \in Nodes, NEW e \in work[n], record(n, e) PROVE row'[d] = row[d]
      BY <2>3 DEF record, claimed
    <2>4. ASSUME NEW n \in Nodes, release(n) PROVE row'[d] = row[d]
      BY <2>4 DEF release, claimed
    <2>5. ASSUME NEW n \in Nodes,
                 \/ ReadDue(n) \/ TakeUp(n) \/ Stop(n) \/ GiveUp(n) \/ Exit(n) \/ Restart(n)
                 \/ StoreFails(n)
                 \/ \E e \in work[n], outcome \in Outcomes : EndAttempt(n, e, outcome)
          PROVE  row'[d] = row[d]
      BY <2>5 DEF ReadDue, TakeUp, Stop, GiveUp, Exit, Restart, StoreFails, EndAttempt
    <2> QED
      BY <2>1, <2>2, <2>3, <2>4, <2>5 DEF Next
  <1> QED
    BY <1>1, InitIInv, NextIInv, PTL DEF Spec, FinishedStays

\* A delivery is delivered only after a route accepted it, and failed only after
\* a route refused it or every attempt was counted.
THEOREM OutcomesHaveReasons == Spec => []EndsForAReason
  <1>1. IInv => EndsForAReason
    BY DEF IInv
  <1> QED
    BY <1>1, InitIInv, NextIInv, PTL DEF Spec

----------------------------------------------------------------------------
(* The refinement: the contract's view of a step is computed row by row.    *)

\* A row that was never published has no attempt counted.
Untried == \A d \in Deliveries : row[d].status = "absent" => row[d].attempt_count = 0

\* A step leaves the view of row d alone.
Same(d) == row'[d].status = row[d].status /\ row'[d].attempt_count = row[d].attempt_count

\* A step that changes no status and no attempt count is no step of the contract.
LEMMA SameView ==
  ASSUME \A d \in Deliveries : Same(d), UNCHANGED seen
  PROVE  UNCHANGED Contract!vars
  BY DEF Contract!vars, Fate, Same

\* What a step that changes one row does to the contract's view of it.
LEMMA OneRowView ==
  ASSUME NEW d \in Deliveries, \A c \in Deliveries \ {d} : Same(c)
  PROVE  /\ [c \in Deliveries |-> Fate(c)]'
              = [[c \in Deliveries |-> Fate(c)] EXCEPT ![d] = Fate(d)']
         /\ [c \in Deliveries |-> row[c].attempt_count]'
              = [[c \in Deliveries |-> row[c].attempt_count] EXCEPT ![d] = row'[d].attempt_count]
  BY DEF Fate, Same

LEMMA FanOutOwes ==
  ASSUME IInv, Untried, NEW d \in Deliveries, FanOut(d)
  PROVE  Contract!Owe(d)
  <1> USE DEF IInv, TypeOK, Row
  <1>1. \A c \in Deliveries : row'[c] = IF c = d
            THEN [status |-> "pending", attempt_count |-> 0, leased |-> FALSE, due |-> TRUE]
            ELSE row[c]
    BY DEF FanOut
  <1>2. \A c \in Deliveries \ {d} : Same(c)
    BY <1>1 DEF Same
  <1>3. Fate(d) = "absent" /\ Fate(d)' = "owed" /\ row'[d].attempt_count = row[d].attempt_count
    BY <1>1 DEF FanOut, Untried, Fate
  <1>4. UNCHANGED seen
    BY DEF FanOut
  <1>5. [c \in Deliveries |-> row[c].attempt_count]' = [c \in Deliveries |-> row[c].attempt_count]
    BY <1>2, <1>3 DEF Same
  <1> QED
    BY <1>2, <1>3, <1>4, <1>5, OneRowView DEF Contract!Owe

\* A claim statement is one Attempt of the rows it takes.
LEMMA ClaimAttempts ==
  ASSUME IInv, NEW n \in Nodes, claim(n)
  PROVE  \E S \in SUBSET Deliveries : Contract!Attempt(S)
  <1> USE DeliveryAssumption DEF IInv, TypeOK
  <1>1. PICK S \in Taken(n) :
          row' = [d \in Deliveries |-> IF d \in S THEN ClaimedRow(row[d]) ELSE row[d]]
    BY DEF claim
  <1>2. S \in SUBSET Deliveries /\ \A d \in S : row[d].status = "pending"
    BY TakenRows
  <1>3. ASSUME NEW d \in Deliveries
        PROVE  /\ Fate(d)' = IF d \in S /\ row[d].attempt_count >= MaxAttempts
                             THEN "failed" ELSE Fate(d)
               /\ row'[d].attempt_count = IF d \in S /\ row[d].attempt_count < MaxAttempts
                                          THEN row[d].attempt_count + 1
                                          ELSE row[d].attempt_count
    <2>1. row[d] \in Row /\ row'[d] = IF d \in S THEN ClaimedRow(row[d]) ELSE row[d]
      BY <1>1
    <2>2. row[d].attempt_count < MaxAttempts \/ row[d].attempt_count >= MaxAttempts
      BY <2>1 DEF Row
    <2>3. CASE d \in S /\ row[d].attempt_count < MaxAttempts
      BY <2>1, <2>3, <1>2 DEF ClaimedRow, Row, Fate
    <2>4. CASE d \in S /\ ~(row[d].attempt_count < MaxAttempts)
      BY <2>1, <2>2, <2>4, <1>2 DEF ClaimedRow, Row, Fate
    <2>5. CASE d \notin S
      BY <2>1, <2>5 DEF Fate
    <2> QED
      BY <2>3, <2>4, <2>5
  <1>4. UNCHANGED seen
    BY DEF claim
  <1>5. \A d \in S : Fate(d) = "owed"
    BY <1>2 DEF Fate
  <1>6. Contract!Attempt(S)
    BY <1>2, <1>3, <1>4, <1>5 DEF Contract!Attempt
  <1> QED
    BY <1>2, <1>6

\* A route's final answer is an Answer, any other end of an attempt is not seen.
LEMMA EndAttemptAnswers ==
  ASSUME IInv, NEW n \in Nodes, NEW e \in work[n], NEW o \in Outcomes, EndAttempt(n, e, o)
  PROVE  (\E a \in {"ok", "permanent"} : Contract!Answer(e.id, a)) \/ UNCHANGED Contract!vars
  <1> USE DEF IInv
  <1>1. e.id \in Deliveries /\ row[e.id].status # "absent"
    BY DEF TypeOK, Entry, Ordered
  <1>2. UNCHANGED row /\ seen' = [seen EXCEPT ![e.id] = @ \cup ({o} \cap {"ok", "permanent"})]
    BY DEF EndAttempt
  <1>3. CASE o \in {"ok", "permanent"}
    <2>1. seen' = [seen EXCEPT ![e.id] = @ \cup {o}]
      BY <1>2, <1>3
    <2>2. Fate(e.id) # "absent"
      BY <1>1 DEF Fate
    <2>3. Contract!Answer(e.id, o)
      BY <1>1, <1>2, <2>1, <2>2 DEF Contract!Answer, Fate
    <2> QED
      BY <1>3, <2>3
  <1>4. CASE o \notin {"ok", "permanent"}
    <2>1. UNCHANGED seen
      BY <1>1, <1>2, <1>4 DEF TypeOK
    <2> QED
      BY <1>2, <2>1, SameView DEF Same
  <1> QED
    BY <1>3, <1>4

\* A recorded outcome settles the delivery or gives its attempt back; a retry, and
\* an outcome whose claim lost its row, change nothing the contract speaks of.
LEMMA RecordSettles ==
  ASSUME IInv, NEW n \in Nodes, NEW e \in work[n], record(n, e)
  PROVE  \/ \E end \in {"delivered", "failed"} : Contract!Settle(e.id, end)
         \/ Contract!GiveBack(e.id)
         \/ UNCHANGED Contract!vars
  <1> USE DeliveryAssumption DEF IInv
  <1>1. e.id \in Deliveries /\ e \in Entry /\ e.stage \in Outcomes
    BY DEF TypeOK, Entry, record, InStage
  <1>2. UNCHANGED seen
    BY DEF record
  <1>3. CASE ~claimed(e)
    <2>1. UNCHANGED row
      BY <1>3 DEF record
    <2> QED
      BY <1>2, <2>1, SameView DEF Same
  <1>4. CASE claimed(e)
    <2>0. row[e.id] \in Row /\ row[e.id].status = "pending" /\ row[e.id].attempt_count = e.attempt
          /\ e.attempt \in 1..MaxAttempts
      BY <1>1, <1>4 DEF claimed, TypeOK, Entry
    <2>1. row'[e.id] = RecordedRow(row[e.id], ResultOf(e))
          /\ \A c \in Deliveries \ {e.id} : Same(c)
      BY <1>1, <1>4 DEF record, TypeOK, Same
    <2>2. Fate(e.id) = "owed"
      BY <2>0 DEF Fate
    <2>3. CASE e.stage = "ok"
      <3>1. "ok" \in seen[e.id]
        BY <2>3 DEF Reasons
      <3>2. ResultOf(e) = "delivered"
        BY <2>3 DEF ResultOf
      <3>3. Fate(e.id)' = "delivered" /\ row'[e.id].attempt_count = row[e.id].attempt_count
        BY <2>0, <2>1, <3>2 DEF RecordedRow, Row, Fate
      <3>4. Contract!Settle(e.id, "delivered")
        BY <1>1, <1>2, <2>1, <2>2, <3>1, <3>3, OneRowView, ZenonT(40) DEF Contract!Settle
      <3> QED
        BY <3>4
    <2>4. CASE e.stage = "hold"
      <3>2. ResultOf(e) = "hold"
        BY <2>4 DEF ResultOf
      <3>3. Fate(e.id)' = Fate(e.id) /\ row'[e.id].attempt_count = row[e.id].attempt_count - 1
        BY <2>0, <2>1, <3>2 DEF RecordedRow, Row, Fate
      <3>4. [c \in Deliveries |-> Fate(c)]' = [c \in Deliveries |-> Fate(c)]
        BY <2>1, <3>3 DEF Fate, Same
      <3>5. row[e.id].attempt_count > 0
        BY <2>0
      <3>6. [c \in Deliveries |-> row[c].attempt_count]'
              = [[c \in Deliveries |-> row[c].attempt_count] EXCEPT ![e.id] = @ - 1]
        BY <1>1, <2>1, <3>3, OneRowView
      <3>7. Contract!GiveBack(e.id)
        BY <1>1, <1>2, <2>2, <3>4, <3>5, <3>6 DEF Contract!GiveBack
      <3> QED
        BY <3>7
    <2>5. CASE e.stage = "retryable" /\ e.attempt < MaxAttempts
      <3>2. ResultOf(e) = "retry"
        BY <2>5 DEF ResultOf
      <3>3. Same(e.id)
        BY <2>0, <2>1, <3>2 DEF RecordedRow, Row, Same
      <3> QED
        BY <1>2, <2>1, <3>3, SameView
    <2>6. CASE e.stage = "permanent" \/ (e.stage = "retryable" /\ ~(e.attempt < MaxAttempts))
      <3>1. "permanent" \in seen[e.id] \/ row[e.id].attempt_count = MaxAttempts
        BY <2>0, <2>6 DEF Reasons
      <3>2. ResultOf(e) = "failed"
        BY <2>6 DEF ResultOf
      <3>3. Fate(e.id)' = "failed" /\ row'[e.id].attempt_count = row[e.id].attempt_count
        BY <2>0, <2>1, <3>2 DEF RecordedRow, Row, Fate
      <3>4. Contract!Settle(e.id, "failed")
        BY <1>1, <1>2, <2>1, <2>2, <3>1, <3>3, OneRowView, ZenonT(40) DEF Contract!Settle
      <3> QED
        BY <3>4
    <2> QED
      BY <1>1, <2>3, <2>4, <2>5, <2>6 DEF Outcomes
  <1> QED
    BY <1>3, <1>4

\* A release gives leases back: no status and no attempt count changes.
LEMMA ReleaseRows ==
  ASSUME IInv, NEW n \in Nodes, release(n)
  PROVE  UNCHANGED seen /\ \A c \in Deliveries : Same(c)
  <1>1. PICK given : /\ row' = [d \in Deliveries |-> IF d \in given
                                 THEN [row[d] EXCEPT !.leased = FALSE, !.due = TRUE] ELSE row[d]]
                     /\ UNCHANGED seen
    BY DEF release
  <1>2. ASSUME NEW c \in Deliveries PROVE Same(c)
    <2>1. row[c] \in Row
      BY DEF IInv, TypeOK
    <2> QED
      BY <1>1, <2>1 DEF Same, Row
  <1> QED
    BY <1>1, <1>2

LEMMA NextUntried == IInv /\ Untried /\ [Next]_vars => Untried'
  <1> SUFFICES ASSUME IInv, Untried, [Next]_vars, NEW d \in Deliveries,
                      row'[d].status = "absent"
               PROVE  row'[d].attempt_count = 0
    BY DEF Untried
  <1> USE DEF IInv
  <1>1. ASSUME Same(d) PROVE row'[d].attempt_count = 0
    BY <1>1 DEF Untried, Same
  <1>2. ASSUME NEW c \in Deliveries, FanOut(c) \/ ComeDue(c) PROVE row'[d] = row[d]
    BY <1>2 DEF FanOut, ComeDue, TypeOK, Row
  <1>3. ASSUME NEW n \in Nodes, claim(n) PROVE row'[d] = row[d]
    <2>1. PICK S \in Taken(n) :
            row' = [c \in Deliveries |-> IF c \in S THEN ClaimedRow(row[c]) ELSE row[c]]
      BY <1>3 DEF claim
    <2>2. CASE d \in S
      <3>1. row[d].status = "pending" /\ row[d] \in Row
        BY <2>2, TakenRows DEF TypeOK
      <3> QED
        BY <2>1, <2>2, <3>1 DEF ClaimedRow, Row
    <2> QED
      BY <2>1, <2>2
  <1>4. ASSUME NEW n \in Nodes, NEW e \in work[n], record(n, e) PROVE row'[d] = row[d]
    <2>1. CASE d = e.id /\ claimed(e)
      <3>1. row[d] \in Row /\ row[d].status = "pending"
        BY <2>1 DEF TypeOK, claimed
      <3>2. row'[d] = RecordedRow(row[d], ResultOf(e)) /\ ResultOf(e) # "absent"
        BY <1>4, <2>1 DEF record, TypeOK, ResultOf
      <3> QED
        BY <3>1, <3>2 DEF RecordedRow, Row
    <2> QED
      BY <1>4, <2>1 DEF record, TypeOK
  <1>5. ASSUME NEW n \in Nodes, release(n) PROVE Same(d)
    BY <1>5, ReleaseRows DEF Same
  <1>6. ASSUME NEW n \in Nodes,
               \/ ReadDue(n) \/ TakeUp(n) \/ Stop(n) \/ GiveUp(n) \/ Exit(n) \/ Restart(n)
               \/ StoreFails(n)
               \/ \E e \in work[n], outcome \in Outcomes : EndAttempt(n, e, outcome)
        PROVE  row'[d] = row[d]
    BY <1>6 DEF ReadDue, TakeUp, Stop, GiveUp, Exit, Restart, StoreFails, EndAttempt
  <1>7. row'[d] = row[d] => Same(d)
    BY DEF Same
  <1>8. CASE UNCHANGED vars
    BY <1>1, <1>7, <1>8 DEF vars
  <1> QED
    BY <1>1, <1>2, <1>3, <1>4, <1>5, <1>6, <1>7, <1>8 DEF Next

LEMMA StepKeepsContract == IInv /\ Untried /\ [Next]_vars => [Contract!Next]_(Contract!vars)
  <1> SUFFICES ASSUME IInv, Untried, [Next]_vars PROVE Contract!Next \/ UNCHANGED Contract!vars
    OBVIOUS
  <1>1. ASSUME NEW d \in Deliveries, FanOut(d) PROVE Contract!Next
    BY <1>1, FanOutOwes DEF Contract!Next
  <1>2. ASSUME NEW d \in Deliveries, ComeDue(d) PROVE UNCHANGED Contract!vars
    <2>1. UNCHANGED seen /\ \A c \in Deliveries : Same(c)
      BY <1>2 DEF ComeDue, Same, IInv, TypeOK, Row
    <2> QED
      BY <2>1, SameView
  <1>3. ASSUME NEW n \in Nodes, claim(n) PROVE Contract!Next
    BY <1>3, ClaimAttempts DEF Contract!Next
  <1>4. ASSUME NEW n \in Nodes, NEW e \in work[n], NEW o \in Outcomes, EndAttempt(n, e, o)
        PROVE  Contract!Next \/ UNCHANGED Contract!vars
    <2>1. e.id \in Deliveries
      BY DEF IInv, TypeOK, Entry
    <2> QED
      BY <1>4, <2>1, EndAttemptAnswers DEF Contract!Next
  <1>5. ASSUME NEW n \in Nodes, NEW e \in work[n], record(n, e)
        PROVE  Contract!Next \/ UNCHANGED Contract!vars
    <2>1. e.id \in Deliveries
      BY DEF IInv, TypeOK, Entry
    <2> QED
      BY <1>5, <2>1, RecordSettles DEF Contract!Next
  <1>6. ASSUME NEW n \in Nodes, release(n) PROVE UNCHANGED Contract!vars
    <2>1. UNCHANGED seen /\ \A c \in Deliveries : Same(c)
      BY <1>6, ReleaseRows
    <2> QED
      BY <2>1, SameView
  <1>7. ASSUME \/ UNCHANGED vars
               \/ \E n \in Nodes : \/ ReadDue(n) \/ TakeUp(n) \/ Stop(n) \/ GiveUp(n)
                                   \/ Exit(n) \/ Restart(n) \/ StoreFails(n)
        PROVE  UNCHANGED Contract!vars
    <2>1. UNCHANGED row /\ UNCHANGED seen
      BY <1>7 DEF vars, ReadDue, TakeUp, Stop, GiveUp, Exit, Restart, StoreFails
    <2> QED
      BY <2>1, SameView DEF Same
  <1> QED
    BY <1>1, <1>2, <1>3, <1>4, <1>5, <1>6, <1>7 DEF Next

\* The queue keeps its contract for any number of nodes, rows and attempts: its
\* first state is the contract's, and every step of a node, the clock or a fault is
\* a step of the contract or none.
THEOREM KeepsContract == Spec => ImplementsContract
  <1>1. Init => Contract!Init /\ Untried
    BY DEF Init, Contract!Init, Untried, Fate
  <1> QED
    BY <1>1, InitIInv, NextIInv, NextUntried, StepKeepsContract, PTL
    DEF Spec, ImplementsContract, Contract!Spec

----------------------------------------------------------------------------
(* The slots of a node.  A claim that is not being given back takes a slot  *)
(* from the moment it is claimed; a round's free slots are read before the  *)
(* claim and stay free until it, since between the two slots only come free. *)

Busy(W) == {e \in W : e.stage # "releasing"}
BusyAt(W, x) == {e \in Busy(W) : DestinationOf[e.id] = x}

Fits(W, r) ==
  /\ IsFiniteSet(r.due) /\ r.free \in Nat
  /\ Cardinality(Busy(W)) + r.free <= Concurrency
  /\ \A x \in Destinations : Cardinality(BusyAt(W, x)) <= MaxInFlightPerDestination
  /\ \A e \in W : e.stage = "claimed" => r.step = "claimed"

SlotsKept == \A n \in Nodes : Fits(work[n], round[n])

Covers(f, A, T) == \A t \in T : \E d \in A : f[d] = t

\* A set whose elements all come from a finite set is no larger.
LEMMA FewerOf ==
  ASSUME NEW A, IsFiniteSet(A), NEW T, NEW f, Covers(f, A, T)
  PROVE  /\ IsFiniteSet(T) /\ Cardinality(T) \in Nat /\ Cardinality(A) \in Nat
         /\ Cardinality(T) <= Cardinality(A)
<1> DEFINE B == {d \in A : f[d] \in T}
           g == [d \in B |-> f[d]]
<1>1. IsFiniteSet(B) /\ Cardinality(B) <= Cardinality(A)
  BY FS_Subset, B \in SUBSET A
<1>2. g \in Surjection(B, T)
  BY DEF Surjection, Covers
<1>3. IsFiniteSet(T) /\ Cardinality(T) <= Cardinality(B)
  <2> HIDE DEF B, g
  <2> QED BY <1>1, <1>2, FS_Surjection
<1>4. Cardinality(T) \in Nat /\ Cardinality(A) \in Nat /\ Cardinality(B) \in Nat
  BY <1>1, <1>3, FS_CardinalityType
<1> HIDE DEF B
<1> QED BY <1>1, <1>3, <1>4

\* Claims that were there before, whatever their stage is now, still fit.
LEMMA StillFits ==
  ASSUME NEW V, IsFiniteSet(V), NEW W, NEW f, NEW r, NEW s, Fits(V, r),
         \A e \in Busy(W) : \E d \in Busy(V) : f[d] = e /\ d.id = e.id,
         IsFiniteSet(s.due), s.free \in Nat, s.free <= r.free,
         \A e \in W : e.stage = "claimed" => s.step = "claimed"
  PROVE  Fits(W, s)
<1>1. IsFiniteSet(Busy(V)) /\ \A x \in Destinations : IsFiniteSet(BusyAt(V, x))
  <2>1. Busy(V) \in SUBSET V /\ \A x \in Destinations : BusyAt(V, x) \in SUBSET V
    BY DEF Busy, BusyAt
  <2> QED BY <2>1, FS_Subset
<1>2. /\ Cardinality(Busy(W)) <= Cardinality(Busy(V))
      /\ Cardinality(Busy(W)) \in Nat /\ Cardinality(Busy(V)) \in Nat
  <2>1. Covers(f, Busy(V), Busy(W))
    BY DEF Covers
  <2> QED BY <1>1, <2>1, FewerOf
<1>3. ASSUME NEW x \in Destinations
      PROVE  Cardinality(BusyAt(W, x)) <= MaxInFlightPerDestination
  <2>1. Covers(f, BusyAt(V, x), BusyAt(W, x))
    BY DEF BusyAt, Covers
  <2>2. /\ Cardinality(BusyAt(W, x)) <= Cardinality(BusyAt(V, x))
        /\ Cardinality(BusyAt(W, x)) \in Nat /\ Cardinality(BusyAt(V, x)) \in Nat
    BY <1>1, <2>1, FewerOf
  <2> QED BY <2>2, DeliveryAssumption DEF Fits
<1>4. Cardinality(Busy(W)) + s.free <= Concurrency
  BY <1>2, DeliveryAssumption DEF Fits
<1> QED BY <1>3, <1>4 DEF Fits

\* A step of one node leaves the others' slots alone.
LEMMA OneNodeFits ==
  ASSUME IInv, SlotsKept, NEW n \in Nodes, NEW W, NEW r, Fits(W, r),
         work' = [work EXCEPT ![n] = W], round' = [round EXCEPT ![n] = r]
  PROVE  SlotsKept'
<1>1. ASSUME NEW m \in Nodes PROVE Fits(work'[m], round'[m])
  <2>1. DOMAIN work = Nodes /\ DOMAIN round = Nodes
    BY DEF IInv, TypeOK
  <2>2. CASE m = n
    BY <2>1, <2>2
  <2>3. CASE m # n
    BY <2>1, <2>3 DEF SlotsKept
  <2> QED BY <2>2, <2>3
<1>2. ASSUME NEW m \in Nodes PROVE Fits(work[m], round[m])'
  BY <1>1 DEF Fits, Busy, BusyAt
<1> QED BY <1>2 DEF SlotsKept

\* Outside a claim's answer, what takes a slot is what is in flight.
LEMMA BusyIsInFlight ==
  ASSUME IInv, SlotsKept, NEW n \in Nodes, round[n].step # "claimed"
  PROVE  /\ Busy(work[n]) = inFlight(n)
         /\ \A x : BusyAt(work[n], x) = {e \in inFlight(n) : DestinationOf[e.id] = x}
<1>1. \A e \in work[n] : e.stage # "claimed" /\ e.stage \in Stages
  <2>1. work[n] \in SUBSET Entry
    BY DEF IInv, TypeOK
  <2>2. \A e \in work[n] : e.stage \in Stages
    BY <2>1 DEF Entry
  <2>3. \A e \in work[n] : e.stage # "claimed"
    BY DEF SlotsKept, Fits
  <2> QED BY <2>2, <2>3
<1>2. \A e \in work[n] : e.stage # "releasing" <=> e.stage \in {"attempting"} \cup Outcomes
  BY <1>1 DEF Stages, Outcomes
<1>3. Busy(work[n]) = inFlight(n)
  BY <1>2 DEF Busy, inFlight
<1> QED BY <1>3 DEF BusyAt

LEMMA InFlightFinite ==
  ASSUME IInv, NEW n \in Nodes
  PROVE  IsFiniteSet(inFlight(n)) /\ Cardinality(inFlight(n)) \in Nat
<1>1. inFlight(n) \in SUBSET work[n] /\ IsFiniteSet(work[n])
  BY DEF inFlight, IInv, Finite
<1> QED BY <1>1, FS_Subset, FS_CardinalityType

\* A round reads the slots that are free.
LEMMA ReadDueFits ==
  ASSUME IInv, SlotsKept, NEW n \in Nodes, ReadDue(n)
  PROVE  SlotsKept'
<1> DEFINE rows == {c \in Deliveries : row[c].status = "pending" /\ row[c].due}
           due == {DestinationOf[d] : d \in rows}
           free == Concurrency - Cardinality(inFlight(n))
           r == [step |-> "due", free |-> free, due |-> due]
<1>1. /\ round[n] = Idle /\ free > 0 /\ work' = work
      /\ round' = [round EXCEPT ![n] = r]
  BY DEF ReadDue
<1>2. round[n].step # "claimed" /\ round[n].step # "due"
  BY <1>1 DEF Idle
<1>3. /\ Busy(work[n]) = inFlight(n) /\ Cardinality(inFlight(n)) \in Nat
      /\ free \in Nat
  BY <1>1, <1>2, BusyIsInFlight, InFlightFinite, DeliveryAssumption
<1>4. IsFiniteSet(due)
  <2>1. IsFiniteSet(rows)
    BY FS_Subset, rows \in SUBSET Deliveries, DeliveryAssumption
  <2>2. Covers(DestinationOf, rows, due)
    BY DEF Covers
  <2> HIDE DEF rows, due
  <2> QED BY <2>1, <2>2, FewerOf
<1>5. Fits(work[n], r)
  <2>1. \A x \in Destinations : Cardinality(BusyAt(work[n], x)) <= MaxInFlightPerDestination
    BY DEF SlotsKept, Fits
  <2>2. \A e \in work[n] : e.stage # "claimed"
    BY <1>2 DEF SlotsKept, Fits
  <2>3. r.step = "due" /\ r.free = free /\ r.due = due
    OBVIOUS
  <2>4. Cardinality(Busy(work[n])) + free <= Concurrency
    BY <1>3, DeliveryAssumption
  <2> HIDE DEF r, due, free
  <2> QED BY <1>3, <1>4, <2>1, <2>2, <2>3, <2>4 DEF Fits
<1>6. work' = [work EXCEPT ![n] = work[n]]
  BY <1>1 DEF IInv, TypeOK
<1> HIDE DEF r
<1> QED BY <1>1, <1>5, <1>6, OneNodeFits

\* Every claim of W that takes a slot is one of V's, as f restages it; and a
\* claim whose answer is under way belongs to round r.
Restaged(W, V, f) == \A e \in Busy(W) : \E d \in Busy(V) : f[d] = e /\ d.id = e.id
Awaited(W, r) == \A e \in W : e.stage = "claimed" => r.step = "claimed"

\* The other steps start no claim: what takes a slot took it before.
LEMMA QuietFits ==
  ASSUME IInv, SlotsKept, IInv', NEW n \in Nodes, NEW r,
         \A m \in Nodes \ {n} : work'[m] = work[m],
         round' = [round EXCEPT ![n] = r],
         NEW f, Restaged(work'[n], work[n], f), Awaited(work'[n], r),
         IsFiniteSet(r.due), r.free \in Nat, r.free <= round[n].free
  PROVE  SlotsKept'
<1>1. IsFiniteSet(work[n]) /\ Fits(work[n], round[n])
  BY DEF IInv, Finite, SlotsKept
<1> DEFINE W == work'[n]
<1>2. Fits(W, r)
  <2> HIDE DEF W
  <2>1. \A e \in Busy(W) : \E d \in Busy(work[n]) : f[d] = e /\ d.id = e.id
    BY DEF W, Restaged
  <2>2. \A e \in W : e.stage = "claimed" => r.step = "claimed"
    BY DEF W, Awaited
  <2> QED BY <1>1, <2>1, <2>2, StillFits
<1>3. work' = [work EXCEPT ![n] = W]
  BY DEF IInv, TypeOK
<1> HIDE DEF W
<1> QED BY <1>2, <1>3, OneNodeFits

\* A round that ended, and one that stays as it is.
LEMMA RoundParts ==
  ASSUME IInv, SlotsKept, NEW n \in Nodes
  PROVE  /\ Idle.due = {} /\ Idle.free = 0 /\ Idle.step = "idle" /\ IsFiniteSet(Idle.due)
         /\ IsFiniteSet(round[n].due) /\ round[n].free \in Nat
         /\ round = [round EXCEPT ![n] = round[n]]
         /\ work[n] \in SUBSET Entry /\ DOMAIN work = Nodes
         /\ \A e \in work[n] : e.stage = "claimed" => round[n].step = "claimed"
<1>1. Idle.due = {} /\ Idle.free = 0 /\ Idle.step = "idle"
  BY DEF Idle
<1>2. IsFiniteSet(Idle.due)
  BY <1>1, FS_EmptySet
<1> QED BY <1>1, <1>2 DEF SlotsKept, Fits, IInv, TypeOK

\* TakeUp and GiveUp: every claim of one stage goes to another.
LEMMA MovedFits ==
  ASSUME IInv, SlotsKept, IInv', NEW n \in Nodes, NEW r, NEW from, NEW to,
         work' = MoveStage(n, from, to), round' = [round EXCEPT ![n] = r],
         from # "releasing", to # "claimed",
         IsFiniteSet(r.due), r.free \in Nat, r.free <= round[n].free,
         from = "claimed" \/ r.step = round[n].step
  PROVE  SlotsKept'
<1> DEFINE Move(e) == IF e.stage = from THEN [e EXCEPT !.stage = to] ELSE e
           f == [e \in work[n] |-> Move(e)]
<1>1. work'[n] = {Move(e) : e \in work[n]} /\ \A m \in Nodes \ {n} : work'[m] = work[m]
  BY RoundParts DEF MoveStage
<1>2. ASSUME NEW e \in work[n]
      PROVE  /\ Move(e).id = e.id
             /\ Move(e).stage = (IF e.stage = from THEN to ELSE e.stage)
  <2>1. e \in Entry
    BY RoundParts
  <2> QED BY <2>1 DEF Entry
<1>3. ASSUME NEW e \in Busy(work'[n]) PROVE \E d \in Busy(work[n]) : f[d] = e /\ d.id = e.id
  <2>1. PICK d \in work[n] : e = Move(d)
    BY <1>1 DEF Busy
  <2>2. f[d] = e /\ d.id = e.id
    BY <1>2, <2>1
  <2>3. d.stage # "releasing"
    <3>1. e.stage # "releasing"
      BY DEF Busy
    <3>2. e.stage = IF d.stage = from THEN to ELSE d.stage
      BY <1>2, <2>1
    <3> QED BY <3>1, <3>2
  <2> HIDE DEF f
  <2> QED BY <2>2, <2>3 DEF Busy
<1>4. ASSUME NEW e \in work'[n], e.stage = "claimed" PROVE r.step = "claimed"
  <2>1. PICK d \in work[n] : e = Move(d)
    BY <1>1
  <2>2. e.stage = IF d.stage = from THEN to ELSE d.stage
    BY <1>2, <2>1
  <2>3. d.stage = "claimed" /\ from # "claimed"
    BY <1>4, <2>2
  <2> QED BY <2>3, RoundParts
<1>5. Restaged(work'[n], work[n], f) /\ Awaited(work'[n], r)
  BY <1>3, <1>4 DEF Restaged, Awaited
<1> HIDE DEF f
<1> QED BY <1>1, <1>5, QuietFits

LEMMA EndAttemptFits ==
  ASSUME IInv, SlotsKept, IInv', NEW n \in Nodes, NEW e \in work[n], NEW outcome \in Outcomes,
         EndAttempt(n, e, outcome)
  PROVE  SlotsKept'
<1> DEFINE g == [e EXCEPT !.stage = outcome]
           f == [d \in work[n] |-> IF d = e THEN g ELSE d]
<1>1. /\ work'[n] = (work[n] \ {e}) \cup {g} /\ \A m \in Nodes \ {n} : work'[m] = work[m]
      /\ round' = round /\ e.stage = "attempting"
  BY RoundParts DEF EndAttempt, InStage
<1>2. g.id = e.id /\ g.stage = outcome /\ outcome # "claimed"
  <2>1. e \in Entry
    BY RoundParts
  <2> QED BY <2>1 DEF Entry, Outcomes
<1> HIDE DEF g
<1>3. ASSUME NEW d \in Busy(work'[n]) PROVE \E c \in Busy(work[n]) : f[c] = d /\ c.id = d.id
  <2>1. CASE d = g
    <3>1. e \in Busy(work[n]) /\ f[e] = g
      BY <1>1 DEF Busy
    <3> QED BY <1>2, <2>1, <3>1
  <2>2. CASE d # g
    <3>1. d \in work[n] /\ d # e /\ d.stage # "releasing"
      BY <1>1, <2>2 DEF Busy
    <3>2. f[d] = d
      BY <3>1
    <3> QED BY <3>1, <3>2 DEF Busy
  <2> QED BY <2>1, <2>2
<1>4. ASSUME NEW d \in work'[n], d.stage = "claimed" PROVE round[n].step = "claimed"
  <2>1. d \in work[n]
    BY <1>1, <1>2, <1>4
  <2> QED BY <1>4, <2>1, RoundParts
<1> DEFINE r == round[n]
<1>5. /\ round' = [round EXCEPT ![n] = r] /\ IsFiniteSet(r.due) /\ r.free \in Nat
      /\ r.free <= round[n].free
  BY <1>1, RoundParts
<1>6. Restaged(work'[n], work[n], f) /\ Awaited(work'[n], r)
  BY <1>3, <1>4 DEF Restaged, Awaited
<1> HIDE DEF f
<1> QED BY <1>1, <1>5, <1>6, QuietFits

\* record, release, Exit and StoreFails drop claims.
LEMMA DroppedFits ==
  ASSUME IInv, SlotsKept, IInv', NEW n \in Nodes, NEW r, NEW W, W \subseteq work[n],
         work' = [work EXCEPT ![n] = W], round' = [round EXCEPT ![n] = r],
         \/ r = round[n]
         \/ r = Idle /\ \A e \in W : e.stage # "claimed"
  PROVE  SlotsKept'
<1> DEFINE f == [d \in work[n] |-> d]
<1>1. work'[n] = W /\ \A m \in Nodes \ {n} : work'[m] = work[m]
  BY RoundParts
<1>2. \A e \in Busy(work'[n]) : e \in Busy(work[n]) /\ f[e] = e
  BY <1>1 DEF Busy
<1>3. IsFiniteSet(r.due) /\ r.free \in Nat /\ r.free <= round[n].free
  BY RoundParts
<1>4. \A e \in work'[n] : e.stage = "claimed" => r.step = "claimed"
  BY <1>1, RoundParts
<1> HIDE DEF f
<1>5. Restaged(work'[n], work[n], f) /\ Awaited(work'[n], r)
  BY <1>2, <1>4 DEF Restaged, Awaited
<1> QED BY <1>1, <1>3, <1>5, QuietFits

----------------------------------------------------------------------------
\* The rows a claim takes are no more than the slots it was given: each row of
\* a destination goes to a slot of its own among those the destination has.
LEMMA SlotsForRows ==
  ASSUME NEW D, IsFiniteSet(D), NEW p, NEW k \in Nat, p \in [D -> 0..k],
         NEW S, IsFiniteSet(S), NEW at, \A d \in S : at[d] \in D,
         \A x \in D : Cardinality({d \in S : at[d] = x}) <= p[x]
  PROVE  Cardinality(S) <= Cardinality(UNION {{x} \X (1..p[x]) : x \in D})
<1> DEFINE Of(x) == {d \in S : at[d] = x}
           c(x) == Cardinality(Of(x))
           T == UNION {{x} \X (1..p[x]) : x \in D}
           h == [x \in D |-> CHOOSE g : g \in Bijection(Of(x), 1..c(x))]
           f == [d \in S |-> <<at[d], h[at[d]][d]>>]
<1>1. ASSUME NEW x \in D
      PROVE  /\ h[x] \in Bijection(Of(x), 1..c(x)) /\ c(x) \in Nat
             /\ 1..c(x) \subseteq 1..p[x]
  <2>1. IsFiniteSet(Of(x))
    BY FS_Subset, Of(x) \in SUBSET S
  <2>2. c(x) \in Nat
    <3> HIDE DEF Of
    <3> QED BY <2>1, FS_CardinalityType
  <2>3. IsFiniteSet(1..c(x)) /\ Cardinality(1..c(x)) = c(x)
    <3> HIDE DEF c
    <3> QED BY <2>2, FS_Interval
  <2>4. ExistsBijection(Of(x), 1..c(x))
    <3> DEFINE A == Of(x)
               B == 1..c(x)
    <3>1. IsFiniteSet(A) /\ IsFiniteSet(B) /\ Cardinality(A) = Cardinality(B)
      BY <2>1, <2>3
    <3> HIDE DEF A, B
    <3>2. ExistsBijection(A, B)
      BY <3>1, FS_SameCardinalityBij
    <3> QED BY <3>2 DEF A, B
  <2>5. \E g : g \in Bijection(Of(x), 1..c(x))
    BY <2>4 DEF ExistsBijection
  <2>6. c(x) <= p[x] /\ p[x] \in Nat
    OBVIOUS
  <2> HIDE DEF c, Of
  <2> QED BY <2>2, <2>5, <2>6
<1>2. IsFiniteSet(T)
  <2>1. T \in SUBSET (D \X (1..k))
    <3> SUFFICES ASSUME NEW t \in T PROVE t \in D \X (1..k)
      OBVIOUS
    <3>1. PICK x \in D : t \in {x} \X (1..p[x])
      OBVIOUS
    <3>2. p[x] \in 0..k
      OBVIOUS
    <3> QED BY <3>1, <3>2
  <2>2. IsFiniteSet(1..k)
    BY FS_Interval
  <2>3. IsFiniteSet(D \X (1..k))
    BY <2>2, FS_Product
  <2> HIDE DEF T
  <2> QED BY <2>1, <2>3, FS_Subset
<1>3. ASSUME NEW d \in S PROVE /\ f[d] = <<at[d], h[at[d]][d]>>
                               /\ h[at[d]][d] \in 1..p[at[d]]
                               /\ f[d] \in T
  <2>1. at[d] \in D /\ d \in Of(at[d])
    OBVIOUS
  <2>2. h[at[d]] \in Bijection(Of(at[d]), 1..c(at[d])) /\ 1..c(at[d]) \subseteq 1..p[at[d]]
    BY <1>1, <2>1
  <2>3. h[at[d]][d] \in 1..c(at[d])
    <3> HIDE DEF h, Of, c
    <3> QED BY <2>1, <2>2 DEF Bijection, Injection, Surjection
  <2>4. h[at[d]][d] \in 1..p[at[d]]
    <3> HIDE DEF h, Of, c
    <3> QED BY <2>2, <2>3
  <2>5. f[d] = <<at[d], h[at[d]][d]>>
    <3> HIDE DEF h
    <3> QED OBVIOUS
  <2> HIDE DEF h, Of, c, f
  <2>6. f[d] \in {at[d]} \X (1..p[at[d]])
    BY <2>4, <2>5
  <2> QED BY <2>1, <2>4, <2>5, <2>6
<1>4. ASSUME NEW d \in S, NEW e \in S, f[d] = f[e] PROVE d = e
  <2>1. at[d] = at[e] /\ h[at[d]][d] = h[at[d]][e]
    <3> HIDE DEF h, f
    <3> QED BY <1>3, <1>4
  <2>2. at[d] \in D /\ d \in Of(at[d]) /\ e \in Of(at[d])
    BY <2>1
  <2>3. h[at[d]] \in Bijection(Of(at[d]), 1..c(at[d]))
    BY <1>1, <2>2
  <2> HIDE DEF h, Of, c, f
  <2> QED BY <2>1, <2>2, <2>3 DEF Bijection, Injection, IsInjective
<1>5. f \in Injection(S, T)
  <2>1. f \in [S -> T]
    <3> HIDE DEF h, T
    <3> QED BY <1>3
  <2> HIDE DEF f, T
  <2> QED BY <1>4, <2>1 DEF Injection, IsInjective
<1> HIDE DEF f, T
<1>6. Cardinality(S) <= Cardinality(T)
  BY <1>2, <1>5, FS_Injection
<1> QED BY <1>6 DEF T

\* A claim takes no more rows than the round has free slots, and of each
\* destination no more than still fit there.
LEMMA TakenFits ==
  ASSUME IInv, SlotsKept, NEW n \in Nodes, NEW S \in Taken(n)
  PROVE  /\ S \subseteq Deliveries /\ IsFiniteSet(S)
         /\ Cardinality(S) <= round[n].free
         /\ \A x \in Destinations :
              S = {d \in S : DestinationOf[d] # x}
                \/ Cardinality({d \in S : DestinationOf[d] = x})
                     <= MaxInFlightPerDestination - inFlightAt(n, x)
<1> DEFINE room == [x \in round[n].due |-> MaxInFlightPerDestination - inFlightAt(n, x)]
           D == {x \in round[n].due : room[x] > 0}
<1>1. PICK p \in Picks(n) :
        /\ S \subseteq UNION {Claimable(n, x) : x \in DOMAIN p}
        /\ \A x \in DOMAIN p : Cardinality(S \cap Claimable(n, x)) <= p[x]
  BY DEF Taken
<1>2. /\ p \in [D -> 0..round[n].free] /\ DOMAIN p = D
      /\ \A x \in D : p[x] <= room[x]
      /\ Cardinality(UNION {{x} \X (1..p[x]) : x \in D}) <= round[n].free
  BY DEF Picks
<1>3. S \subseteq Deliveries /\ \A d \in S : DestinationOf[d] \in D
  <2> HIDE DEF D
  <2>1. \A x \in DOMAIN p : Claimable(n, x) \subseteq Reads[n]
    BY DEF Claimable
  <2> QED BY <1>1, <1>2, <2>1, DeliveryAssumption DEF Claimable
<1>4. IsFiniteSet(S)
  BY <1>3, FS_Subset, DeliveryAssumption
<1>5. ASSUME NEW x \in D
      PROVE  Cardinality({d \in S : DestinationOf[d] = x}) <= p[x]
  <2>1. S \cap Claimable(n, x) = {d \in S : DestinationOf[d] = x}
    <3> HIDE DEF D
    <3>1. S \cap Claimable(n, x) \subseteq {d \in S : DestinationOf[d] = x}
      BY DEF Claimable
    <3>2. ASSUME NEW d \in S, DestinationOf[d] = x PROVE d \in Claimable(n, x)
      <4>1. PICK y \in DOMAIN p : d \in Claimable(n, y)
        BY <1>1
      <4>2. y = x
        BY <3>2, <4>1 DEF Claimable
      <4> QED BY <4>1, <4>2
    <3> QED BY <3>1, <3>2
  <2>2. x \in DOMAIN p
    BY <1>2
  <2> QED BY <1>1, <2>1, <2>2
<1>6. round[n].free \in Nat /\ IsFiniteSet(D)
  <2>1. round[n].free \in Nat /\ IsFiniteSet(round[n].due)
    BY RoundParts
  <2> QED BY <2>1, FS_Subset, D \in SUBSET round[n].due
<1>7. Cardinality(S) <= Cardinality(UNION {{x} \X (1..p[x]) : x \in D})
  <2> HIDE DEF D
  <2> QED BY <1>2, <1>3, <1>4, <1>5, <1>6, SlotsForRows
<1>8. Cardinality(S) <= round[n].free
  <2> DEFINE c == Cardinality(UNION {{x} \X (1..p[x]) : x \in D})
  <2>1. c \in Int
    <3> DEFINE T == UNION {{x} \X (1..p[x]) : x \in D}
    <3>1. T \in SUBSET (D \X (1..round[n].free))
      <4> SUFFICES ASSUME NEW t \in T PROVE t \in D \X (1..round[n].free)
        OBVIOUS
      <4> HIDE DEF D
      <4>1. PICK x \in D : t \in {x} \X (1..p[x])
        OBVIOUS
      <4>2. p[x] \in 0..round[n].free
        BY <1>2
      <4> QED BY <1>6, <4>1, <4>2
    <3>2. IsFiniteSet(1..round[n].free)
      BY <1>6, FS_Interval
    <3>3. IsFiniteSet(D \X (1..round[n].free))
      <4> HIDE DEF D
      <4> QED BY <1>6, <3>2, FS_Product
    <3>4. IsFiniteSet(T)
      <4> HIDE DEF T, D
      <4> QED BY <3>1, <3>3, FS_Subset
    <3>5. Cardinality(T) \in Nat
      <4> HIDE DEF T
      <4> QED BY <3>4, FS_CardinalityType
    <3> QED BY <3>5
  <2>2. Cardinality(S) \in Nat
    BY <1>4, FS_CardinalityType
  <2>3. Cardinality(S) <= c /\ c <= round[n].free
    BY <1>2, <1>7
  <2> HIDE DEF c
  <2> QED BY <1>6, <2>1, <2>2, <2>3
<1>9. ASSUME NEW x \in Destinations
      PROVE  \/ S = {d \in S : DestinationOf[d] # x}
             \/ Cardinality({d \in S : DestinationOf[d] = x})
                     <= MaxInFlightPerDestination - inFlightAt(n, x)
  <2>1. CASE x \in D
    <3>1. /\ Cardinality({d \in S : DestinationOf[d] = x}) <= p[x]
          /\ p[x] <= MaxInFlightPerDestination - inFlightAt(n, x) /\ p[x] \in Int
      <4>1. room[x] = MaxInFlightPerDestination - inFlightAt(n, x)
        BY <2>1
      <4>4. p[x] \in Int
        <5> HIDE DEF D
        <5>1. p[x] \in 0..round[n].free
          BY <1>2, <2>1
        <5> QED BY <1>6, <5>1
      <4>2. p[x] <= room[x]
        BY <1>2, <2>1
      <4>3. Cardinality({d \in S : DestinationOf[d] = x}) <= p[x]
        BY <1>5, <2>1
      <4> HIDE DEF room
      <4> QED BY <4>1, <4>2, <4>3, <4>4
    <3>2. Cardinality({d \in S : DestinationOf[d] = x}) \in Nat
      <4> DEFINE A == {d \in S : DestinationOf[d] = x}
      <4>1. IsFiniteSet(A)
        BY <1>4, FS_Subset, A \in SUBSET S
      <4> HIDE DEF A
      <4>2. Cardinality(A) \in Nat
        BY <4>1, FS_CardinalityType
      <4> QED BY <4>2 DEF A
    <3>3. inFlightAt(n, x) \in Nat
      <4> DEFINE A == {e \in inFlight(n) : DestinationOf[e.id] = x}
      <4>1. IsFiniteSet(A)
        BY InFlightFinite, FS_Subset, A \in SUBSET inFlight(n)
      <4> HIDE DEF A
      <4>2. Cardinality(A) \in Nat
        BY <4>1, FS_CardinalityType
      <4> QED BY <4>2 DEF A, inFlightAt
    <3> QED BY <3>1, <3>2, <3>3, DeliveryAssumption
  <2>2. CASE x \notin D
    <3> HIDE DEF D
    <3>1. \A d \in S : DestinationOf[d] # x
      BY <1>3, <2>2
    <3> QED BY <3>1
  <2> QED BY <2>1, <2>2
<1> HIDE DEF D
<1> QED BY <1>3, <1>4, <1>8, <1>9

LEMMA ClaimFits ==
  ASSUME IInv, SlotsKept, NEW n \in Nodes, claim(n)
  PROVE  SlotsKept'
<1> DEFINE New(d) == [id |-> d, attempt |-> row[d].attempt_count + 1, stage |-> "claimed"]
           after == [step |-> "claimed", free |-> 0, due |-> {}]
<1>1. PICK S \in Taken(n) :
        work' = [work EXCEPT ![n] = work[n] \cup
                   {New(d) : d \in {c \in S : row[c].attempt_count < MaxAttempts}}]
  BY DEF claim
<1> DEFINE O == {c \in S : row[c].attempt_count < MaxAttempts}
           N == {New(d) : d \in O}
           W == work[n] \cup N
           B == Busy(work[n])
<1>2. round[n].step = "due" /\ round' = [round EXCEPT ![n] = after]
  BY DEF claim
<1>3. /\ S \subseteq Deliveries /\ IsFiniteSet(S) /\ Cardinality(S) <= round[n].free
      /\ B = inFlight(n) /\ IsFiniteSet(B) /\ Cardinality(B) \in Nat
      /\ Cardinality(B) + round[n].free <= Concurrency /\ round[n].free \in Nat
  BY <1>2, TakenFits, BusyIsInFlight, InFlightFinite DEF SlotsKept, Fits
<1>4. \A d \in O : New(d).id = d /\ New(d).stage = "claimed"
  OBVIOUS
<1>5. Busy(W) = B \cup N
  BY <1>4 DEF Busy
<1>6. ASSUME NEW T, T \subseteq S, NEW M, \A e \in M : \E d \in T : New(d) = e
      PROVE  /\ IsFiniteSet(M) /\ Cardinality(M) \in Nat /\ Cardinality(T) \in Nat
             /\ Cardinality(M) <= Cardinality(T) /\ Cardinality(T) <= Cardinality(S)
             /\ Cardinality(S) \in Nat
  <2>1. IsFiniteSet(T) /\ Cardinality(T) <= Cardinality(S) /\ Cardinality(S) \in Nat
    BY <1>3, <1>6, FS_Subset, FS_CardinalityType
  <2> DEFINE f == [d \in T |-> New(d)]
  <2>2. Covers(f, T, M)
    BY <1>6 DEF Covers
  <2> HIDE DEF f
  <2> QED BY <2>1, <2>2, FewerOf
<1>7. Cardinality(Busy(W)) <= Concurrency /\ Cardinality(Busy(W)) \in Nat
  <2>1. IsFiniteSet(N) /\ Cardinality(N) \in Nat /\ Cardinality(N) <= round[n].free
    <3>1. O \subseteq S /\ \A e \in N : \E d \in O : New(d) = e
      OBVIOUS
    <3> HIDE DEF O, N, New
    <3> QED BY <1>3, <1>6, <3>1
  <2> HIDE DEF N, B, W
  <2>2. /\ IsFiniteSet(B \cup N)
        /\ Cardinality(B \cup N) = Cardinality(B) + Cardinality(N) - Cardinality(B \cap N)
    BY <1>3, <2>1, FS_Union
  <2>3. Cardinality(B \cap N) \in Nat /\ Cardinality(B \cup N) \in Nat
    BY <1>3, <2>2, FS_Intersection, FS_CardinalityType
  <2> QED BY <1>3, <1>5, <2>1, <2>2, <2>3, DeliveryAssumption
<1>8. ASSUME NEW x \in Destinations
      PROVE  Cardinality(BusyAt(W, x)) <= MaxInFlightPerDestination
  <2> DEFINE T == {d \in S : DestinationOf[d] = x}
             M == {e \in N : DestinationOf[e.id] = x}
             A == BusyAt(work[n], x)
  <2>1. BusyAt(W, x) = A \cup M
    <3> HIDE DEF N, B, W
    <3> QED BY <1>5 DEF BusyAt, B
  <2>2. /\ IsFiniteSet(A) /\ Cardinality(A) = inFlightAt(n, x) /\ Cardinality(A) \in Nat
        /\ Cardinality(A) <= MaxInFlightPerDestination
    <3>1. A = {e \in inFlight(n) : DestinationOf[e.id] = x}
      BY <1>2, BusyIsInFlight
    <3>2. A \in SUBSET inFlight(n)
      BY <3>1
    <3>3. Cardinality(A) <= MaxInFlightPerDestination
      BY DEF SlotsKept, Fits
    <3> HIDE DEF A
    <3>4. IsFiniteSet(A)
      BY <3>2, FS_Subset, InFlightFinite
    <3> QED BY <3>1, <3>3, <3>4, FS_CardinalityType DEF inFlightAt
  <2>3. T \subseteq S /\ \A e \in M : \E d \in T : New(d) = e
    BY <1>4
  <2>4. /\ IsFiniteSet(M) /\ Cardinality(M) \in Nat /\ Cardinality(T) \in Nat
        /\ Cardinality(M) <= Cardinality(T)
    <3> HIDE DEF T, M, New
    <3> QED BY <1>6, <2>3
  <2>5. CASE S = {d \in S : DestinationOf[d] # x}
    <3>1. M = {}
      BY <1>4, <2>5
    <3>2. BusyAt(W, x) = A
      <4> HIDE DEF A, M, W
      <4> QED BY <2>1, <3>1
    <3> HIDE DEF A, W
    <3> QED BY <2>2, <3>2
  <2>6. CASE Cardinality(T) <= MaxInFlightPerDestination - inFlightAt(n, x)
    <3> HIDE DEF A, M, W, T
    <3>1. /\ IsFiniteSet(A \cup M)
          /\ Cardinality(A \cup M) = Cardinality(A) + Cardinality(M) - Cardinality(A \cap M)
      BY <2>2, <2>4, FS_Union
    <3>2. Cardinality(A \cap M) \in Nat
      BY <2>2, FS_Intersection, FS_CardinalityType
    <3> QED BY <2>1, <2>2, <2>4, <2>6, <3>1, <3>2, DeliveryAssumption
  <2> QED BY <2>5, <2>6, TakenFits
<1>9. after.due = {} /\ after.free = 0 /\ after.step = "claimed" /\ IsFiniteSet(after.due)
  BY FS_EmptySet
<1>10. work' = [work EXCEPT ![n] = W]
  BY <1>1
<1> HIDE DEF W, after
<1>11. Fits(W, after)
  BY <1>7, <1>8, <1>9, DeliveryAssumption DEF Fits
<1> QED BY <1>2, <1>10, <1>11, OneNodeFits

LEMMA NextFits == IInv /\ SlotsKept /\ [Next]_vars => SlotsKept'
<1> SUFFICES ASSUME IInv, SlotsKept, [Next]_vars PROVE SlotsKept'
  OBVIOUS
<1>1. IInv'
  BY NextIInv
<1>2. ASSUME UNCHANGED <<round, work>> PROVE SlotsKept'
  BY <1>2 DEF SlotsKept, Fits, Busy, BusyAt
<1>3. ASSUME NEW d \in Deliveries, FanOut(d) \/ ComeDue(d) PROVE SlotsKept'
  BY <1>2, <1>3 DEF FanOut, ComeDue
<1>4. ASSUME NEW n \in Nodes, Stop(n) \/ Restart(n) PROVE SlotsKept'
  BY <1>2, <1>4 DEF Stop, Restart
<1>5. ASSUME NEW n \in Nodes, TakeUp(n) PROVE SlotsKept'
  <2> DEFINE next == IF state[n] = "running" THEN "attempting" ELSE "releasing"
  <2>1. work' = MoveStage(n, "claimed", next) /\ round' = [round EXCEPT ![n] = Idle]
    BY <1>5 DEF TakeUp
  <2>2. next # "claimed"
    OBVIOUS
  <2>3. Idle.free <= round[n].free /\ Idle.free \in Nat /\ IsFiniteSet(Idle.due)
    BY RoundParts
  <2> HIDE DEF next
  <2> QED BY <1>1, <2>1, <2>2, <2>3, MovedFits
<1>6. ASSUME NEW n \in Nodes, GiveUp(n) PROVE SlotsKept'
  <2>1. work' = MoveStage(n, "attempting", "releasing") /\ round' = [round EXCEPT ![n] = round[n]]
    BY <1>6, RoundParts DEF GiveUp
  <2>2. round[n].free <= round[n].free /\ round[n].free \in Nat /\ IsFiniteSet(round[n].due)
    BY RoundParts
  <2> QED BY <1>1, <2>1, <2>2, MovedFits
<1>7. ASSUME NEW n \in Nodes, NEW e \in work[n], record(n, e) PROVE SlotsKept'
  <2> DEFINE W == work[n] \ {e}
  <2>1. work' = [work EXCEPT ![n] = W] /\ W \subseteq work[n] /\ round' = [round EXCEPT ![n] = round[n]]
    BY <1>7, RoundParts DEF record
  <2> HIDE DEF W
  <2> QED BY <1>1, <2>1, DroppedFits
<1>8. ASSUME NEW n \in Nodes, release(n) PROVE SlotsKept'
  <2>1. \E S : work' = [work EXCEPT ![n] = @ \ S] /\ round' = round
    BY <1>8, Zenon DEF release
  <2>2. PICK S : work' = [work EXCEPT ![n] = @ \ S] /\ round' = round
    BY <2>1
  <2> DEFINE W == work[n] \ S
  <2>3. work' = [work EXCEPT ![n] = W] /\ W \subseteq work[n] /\ round' = [round EXCEPT ![n] = round[n]]
    BY <2>2, RoundParts
  <2> HIDE DEF W
  <2> QED BY <1>1, <2>3, DroppedFits
<1>9. ASSUME NEW n \in Nodes, Exit(n) PROVE SlotsKept'
  <2> DEFINE W == {}
  <2>1. /\ work' = [work EXCEPT ![n] = W] /\ W \subseteq work[n]
        /\ round' = [round EXCEPT ![n] = Idle] /\ \A e \in W : e.stage # "claimed"
    BY <1>9 DEF Exit
  <2> HIDE DEF W
  <2> QED BY <1>1, <2>1, DroppedFits
<1>10. ASSUME NEW n \in Nodes, StoreFails(n) PROVE SlotsKept'
  <2>1. CASE work' = [work EXCEPT ![n] = work[n] \ InStage(n, {"claimed"})]
             /\ round' = [round EXCEPT ![n] = Idle]
    <3> DEFINE W == work[n] \ InStage(n, {"claimed"})
    <3>1. W \subseteq work[n] /\ \A e \in W : e.stage # "claimed"
      BY DEF InStage
    <3>2. work' = [work EXCEPT ![n] = W]
      BY <2>1
    <3> HIDE DEF W
    <3> QED BY <1>1, <2>1, <3>1, <3>2, DroppedFits
  <2>2. CASE \E e : work' = [work EXCEPT ![n] = work[n] \ {e}] /\ round' = round
    <3>1. PICK e : work' = [work EXCEPT ![n] = work[n] \ {e}] /\ round' = round
      BY <2>2
    <3> DEFINE W == work[n] \ {e}
    <3>2. work' = [work EXCEPT ![n] = W] /\ W \subseteq work[n] /\ round' = [round EXCEPT ![n] = round[n]]
      BY <3>1, RoundParts
    <3> HIDE DEF W
    <3> QED BY <1>1, <3>2, DroppedFits
  <2> QED BY <1>10, <2>1, <2>2 DEF StoreFails
<1>11. CASE UNCHANGED vars
  BY <1>2, <1>11 DEF vars
<1> QED BY <1>1, <1>3, <1>4, <1>5, <1>6, <1>7, <1>8, <1>9, <1>10, <1>11,
           ReadDueFits, ClaimFits, EndAttemptFits DEF Next

\* The slots a round computed before its store calls are respected after them:
\* whatever ends, is aborted or given up between the two, no node has more
\* attempts in flight than concurrency, nor more than maxInFlightPerDestination
\* at one destination (claimRound, pickDestinations).
THEOREM SlotsRespected == Spec => []InFlightBounded
<1>1. Init => SlotsKept
  <2> SUFFICES ASSUME Init, NEW n \in Nodes PROVE Fits(work[n], round[n])
    BY DEF SlotsKept
  <2>1. work[n] = {} /\ round[n] = Idle
    BY DEF Init
  <2>2. Busy({}) = {} /\ \A x : BusyAt({}, x) = {}
    BY DEF Busy, BusyAt
  <2>3. Idle.due = {} /\ Idle.free = 0
    BY DEF Idle
  <2> QED BY <2>1, <2>2, <2>3, FS_EmptySet, DeliveryAssumption DEF Fits
<1>2. IInv /\ SlotsKept => InFlightBounded
  <2> SUFFICES ASSUME IInv, SlotsKept, NEW n \in Nodes
               PROVE  /\ Cardinality(inFlight(n)) <= Concurrency
                      /\ \A x \in Destinations : inFlightAt(n, x) <= MaxInFlightPerDestination
    BY DEF InFlightBounded
  <2> DEFINE B == Busy(work[n])
  <2>1. inFlight(n) \in SUBSET B
    BY DEF inFlight, Busy, Outcomes
  <2>2. B \in SUBSET work[n] /\ IsFiniteSet(work[n])
    BY DEF Busy, IInv, Finite
  <2>3. Cardinality(B) + round[n].free <= Concurrency /\ round[n].free \in Nat
    BY DEF SlotsKept, Fits
  <2>4. ASSUME NEW x \in Destinations PROVE inFlightAt(n, x) <= MaxInFlightPerDestination
    <3> DEFINE A == {e \in inFlight(n) : DestinationOf[e.id] = x}
               C == BusyAt(work[n], x)
    <3>1. A \in SUBSET C /\ C \in SUBSET work[n]
      BY <2>1 DEF BusyAt, Busy
    <3>2. Cardinality(C) <= MaxInFlightPerDestination
      BY DEF SlotsKept, Fits
    <3> HIDE DEF A, C
    <3>3. IsFiniteSet(C)
      BY <2>2, <3>1, FS_Subset
    <3>4. IsFiniteSet(A) /\ Cardinality(A) <= Cardinality(C)
      BY <3>1, <3>3, FS_Subset
    <3>5. Cardinality(A) \in Nat /\ Cardinality(C) \in Nat
      BY <3>3, <3>4, FS_CardinalityType
    <3>6. Cardinality(A) <= MaxInFlightPerDestination
      BY <3>2, <3>4, <3>5, DeliveryAssumption
    <3> QED BY <3>6 DEF A, inFlightAt
  <2> HIDE DEF B
  <2>5. IsFiniteSet(B)
    BY <2>2, FS_Subset
  <2>6. IsFiniteSet(inFlight(n)) /\ Cardinality(inFlight(n)) <= Cardinality(B)
    BY <2>1, <2>5, FS_Subset
  <2>7. Cardinality(B) \in Nat /\ Cardinality(inFlight(n)) \in Nat
    BY <2>5, <2>6, FS_CardinalityType
  <2> QED BY <2>3, <2>4, <2>6, <2>7, DeliveryAssumption
<1> QED BY <1>1, <1>2, InitIInv, NextIInv, NextFits, PTL DEF Spec
============================================================================
