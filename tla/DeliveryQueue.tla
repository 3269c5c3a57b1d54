--------------------------- MODULE DeliveryQueue ---------------------------
(***************************************************************************)
(* The delivery queue of the event store and the delivery role that works  *)
(* it off: event_deliveries rows in Postgres, claimed with a lease by any   *)
(* number of nodes, each running the claim loop, the attempts and the       *)
(* graceful stop of delivery-role.ts.                                       *)
(*                                                                          *)
(* Every statement of the store is one atomic step (each is a single SQL    *)
(* statement in its own transaction); between a node's statements, and      *)
(* between a statement and its answer, the steps of every node interleave.  *)
(* Time is abstract: next_attempt_at passes at any moment (ComeDue), so a   *)
(* lease may run out while its attempt still runs, whatever the clocks of   *)
(* the nodes say. Error classes and status codes are left out; an attempt's *)
(* outcome is one of Outcomes.                                              *)
(***************************************************************************)
EXTENDS Integers, FiniteSets

CONSTANTS
    Nodes,                     \* processes that run the delivery role
    Deliveries,                \* ids of event_deliveries rows
    Destinations,              \* (destination_kind, destination_id) pairs
    DestinationOf,             \* the destination of each delivery
    Reads,                     \* Reads[n]: rows whose event layout node n reads
    MaxAttempts,               \* settings.maxAttempts
    Concurrency,               \* settings.concurrency
    MaxInFlightPerDestination, \* settings.maxInFlightPerDestination
    Faults,                    \* which faults happen: "crash", "store"
    NoNode                     \* no node holds the row

ASSUME DeliveryAssumption ==
    /\ IsFiniteSet(Deliveries)
    /\ DestinationOf \in [Deliveries -> Destinations]
    /\ Reads \in [Nodes -> SUBSET Deliveries]
    /\ MaxAttempts \in Nat \ {0}
    /\ Concurrency \in Nat \ {0}
    /\ MaxInFlightPerDestination \in 1..Concurrency
    /\ Faults \subseteq {"crash", "store"}
    /\ NoNode \notin Nodes

VARIABLES
    row,    \* row[d]: the event_deliveries row
    holder, \* history: the node of d's latest claim, NoNode once that node
            \* can no longer write (it crashed, or a store call was lost)
    seen,   \* history: what routes answered for d: "ok", "permanent"
    state,  \* state[n]: Runner.state, or "down"
    round,  \* round[n]: where the claim loop of n stands
    work    \* work[n]: the claims n knows of, each with its stage

vars == <<row, holder, seen, state, round, work>>

----------------------------------------------------------------------------
\* What route.deliver came to, as outcomeOf and attempt report it: accepted,
\* failed but worth a retry (also a timeout or a throw), refused for good (also
\* an event the node cannot parse), or held (a paused stream, no signer).
Outcomes == {"ok", "retryable", "permanent", "hold"}

\* A claim's answer is on its way; the route runs; the outcome is on its way to
\* the store; the lease is being given back.
Stages == {"claimed", "attempting", "releasing"} \cup Outcomes

Row == [status : {"absent", "pending", "delivered", "failed"},
        attempt_count : 0..MaxAttempts, leased : BOOLEAN, due : BOOLEAN]

Entry == [id : Deliveries, attempt : 1..MaxAttempts, stage : Stages]

Round == [step : {"idle", "due", "claimed"}, free : 0..Concurrency,
          due : SUBSET Destinations]

Idle == [step |-> "idle", free |-> 0, due |-> {}]

\* Mutant: the writes name the row and its lease but not the attempt.
claimed_NoAttempt(e) == row[e.id].status = "pending" /\ row[e.id].leased

\* Mutant: the writes name the row alone.
claimed_ByIdAlone(e) == row[e.id].status # "absent"

\* The row a claim still holds: the guard of every write that ends a claim.
claimed(e) ==
    /\ row[e.id].attempt_count = e.attempt
    /\ row[e.id].status = "pending"
    /\ row[e.id].leased

\* An in-flight entry is one whose attempt runs or whose outcome is recorded.
inFlight(n) == {e \in work[n] : e.stage \in {"attempting"} \cup Outcomes}

inFlightAt(n, x) == Cardinality({e \in inFlight(n) : DestinationOf[e.id] = x})

InStage(n, stages) == {e \in work[n] : e.stage \in stages}

MoveStage(n, from, to) ==
    [work EXCEPT ![n] = {IF e.stage = from THEN [e EXCEPT !.stage = to] ELSE e : e \in @}]

Finished(d) == row[d].status \in {"delivered", "failed"}

----------------------------------------------------------------------------
Init ==
    /\ row = [d \in Deliveries |-> [status |-> "absent", attempt_count |-> 0,
                                    leased |-> FALSE, due |-> FALSE]]
    /\ holder = [d \in Deliveries |-> NoNode]
    /\ seen = [d \in Deliveries |-> {}]
    /\ state = [n \in Nodes |-> "running"]
    /\ round = [n \in Nodes |-> Idle]
    /\ work = [n \in Nodes |-> {}]

\* The fan-out inserts the row, due at once.
FanOut(d) ==
    /\ row[d].status = "absent"
    /\ row' = [row EXCEPT ![d] = [status |-> "pending", attempt_count |-> 0,
                                  leased |-> FALSE, due |-> TRUE]]
    /\ UNCHANGED <<holder, seen, state, round, work>>

\* The clock passes next_attempt_at: a retry's time, or the lease's end.
ComeDue(d) ==
    /\ row[d].status = "pending"
    /\ ~row[d].due
    /\ row' = [row EXCEPT ![d].due = TRUE]
    /\ UNCHANGED <<holder, seen, state, round, work>>

----------------------------------------------------------------------------
(* The claim loop: read the due destinations, claim, take up the answer.    *)

\* One pass of claimRound's loop up to dueDestinations. The free slots are
\* read before the call and used after it.
ReadDue(n) ==
    LET free == Concurrency - Cardinality(inFlight(n))
        due  == {DestinationOf[d] : d \in {c \in Deliveries :
                     row[c].status = "pending" /\ row[c].due}}
    IN  /\ state[n] = "running"
        /\ round[n] = Idle
        /\ free > 0
        /\ due # {}
        /\ round' = [round EXCEPT ![n] = [step |-> "due", free |-> free, due |-> due]]
        /\ UNCHANGED <<row, holder, seen, state, work>>

\* Mutant: every round hands out all slots, whatever is in flight already.
Picks_IgnoreInFlight(n) ==
    {p \in [round[n].due -> 0..Concurrency] : \A x \in round[n].due : p[x] <= MaxInFlightPerDestination}

\* How many slots each open destination may be given: the free slots handed out
\* one per destination in turn, so two destinations differ by more than one
\* only when the smaller has no room left.
Picks(n) ==
    LET room == [x \in round[n].due |-> MaxInFlightPerDestination - inFlightAt(n, x)]
        open == {x \in round[n].due : room[x] > 0}
        Slots(p) == Cardinality(UNION {{x} \X (1..p[x]) : x \in open})
    IN  {p \in [open -> 0..round[n].free] :
            /\ \A x \in open : p[x] <= room[x]
            /\ Slots(p) <= round[n].free
            /\ \/ Slots(p) = round[n].free
               \/ \A x \in open : p[x] = room[x]
            /\ \A x, y \in open : p[x] > p[y] + 1 => p[y] = room[y]}

\* The rows of destination x that a claim of node n may take.
Claimable(n, x) ==
    {d \in Reads[n] : DestinationOf[d] = x /\ row[d].status = "pending" /\ row[d].due}

\* The sets of rows one claim statement takes: of each picked destination as
\* many due rows as it has slots.
Taken(n) ==
    UNION {{S \in SUBSET UNION {Claimable(n, x) : x \in DOMAIN p} :
              \A x \in DOMAIN p :
                LET ours == S \cap Claimable(n, x)
                    rest == Claimable(n, x) \ S
                IN  /\ Cardinality(ours) <= p[x]
                    /\ rest # {} => Cardinality(ours) = p[x]} : p \in Picks(n)}

\* Mutant: no limit on the attempts.
ClaimedRow_NoLimit(r) == [r EXCEPT !.attempt_count = @ + 1, !.leased = TRUE, !.due = FALSE]

\* Mutant: a row whose attempts are used up is passed over instead of ended.
ClaimedRow_PassesOver(r) ==
    IF r.attempt_count < MaxAttempts
    THEN [r EXCEPT !.attempt_count = @ + 1, !.leased = TRUE, !.due = FALSE]
    ELSE r

\* A row with an attempt left is leased and its attempt counted; one whose last
\* attempt was interrupted ends failed.
ClaimedRow(r) ==
    IF r.attempt_count < MaxAttempts
    THEN [r EXCEPT !.attempt_count = @ + 1, !.leased = TRUE, !.due = FALSE]
    ELSE [r EXCEPT !.status = "failed", !.leased = FALSE, !.due = FALSE]

claim(n) ==
    /\ round[n].step = "due"
    /\ \E S \in Taken(n) :
         LET open == {d \in S : row[d].attempt_count < MaxAttempts}
         IN  /\ row' = [d \in Deliveries |-> IF d \in S THEN ClaimedRow(row[d]) ELSE row[d]]
             /\ holder' = [d \in Deliveries |->
                             IF d \in open THEN n ELSE IF d \in S THEN NoNode ELSE holder[d]]
             /\ work' = [work EXCEPT ![n] = @ \cup
                           {[id |-> d, attempt |-> row[d].attempt_count + 1,
                             stage |-> "claimed"] : d \in open}]
    /\ round' = [round EXCEPT ![n] = [step |-> "claimed", free |-> 0, due |-> {}]]
    /\ UNCHANGED <<seen, state>>

\* The answer arrives. A running node begins every attempt; a stopping one
\* attempted nothing and gives the claims back.
TakeUp(n) ==
    LET next == IF state[n] = "running" THEN "attempting" ELSE "releasing"
    IN  /\ round[n].step = "claimed"
        /\ work' = MoveStage(n, "claimed", next)
        /\ round' = [round EXCEPT ![n] = Idle]
        /\ UNCHANGED <<row, holder, seen, state>>

----------------------------------------------------------------------------
(* One attempt: the route runs, then its outcome is recorded.               *)

EndAttempt(n, e, outcome) ==
    /\ e \in InStage(n, {"attempting"})
    /\ work' = [work EXCEPT ![n] = (@ \ {e}) \cup {[e EXCEPT !.stage = outcome]}]
    /\ seen' = [seen EXCEPT ![e.id] = @ \cup ({outcome} \cap {"ok", "permanent"})]
    /\ UNCHANGED <<row, holder, state, round>>

\* What Runner.record asks the store to write: hold, delivered, retry or failed.
ResultOf(e) ==
    CASE e.stage = "ok" -> "delivered"
      [] e.stage = "hold" -> "hold"
      [] e.stage = "retryable" /\ e.attempt < MaxAttempts -> "retry"
      [] OTHER -> "failed"

\* What the store makes of the row. A hold gives back the attempt that the
\* claim counted.
RecordedRow(r, result) ==
    CASE result = "hold" -> [r EXCEPT !.attempt_count = @ - 1, !.leased = FALSE, !.due = FALSE]
      [] result = "retry" -> [r EXCEPT !.leased = FALSE, !.due = FALSE]
      [] OTHER -> [r EXCEPT !.status = result, !.leased = FALSE, !.due = FALSE]

\* The outcome is written if the claim still holds its row, and is dropped
\* otherwise; either way the attempt leaves the node.
record(n, e) ==
    /\ e \in InStage(n, Outcomes)
    /\ row' = IF claimed(e) THEN [row EXCEPT ![e.id] = RecordedRow(@, ResultOf(e))] ELSE row
    /\ work' = [work EXCEPT ![n] = @ \ {e}]
    /\ UNCHANGED <<holder, seen, state, round>>

----------------------------------------------------------------------------
(* Stopping, crashing and coming back.                                      *)

Stop(n) ==
    /\ state[n] = "running"
    /\ state' = [state EXCEPT ![n] = "stopping"]
    /\ UNCHANGED <<row, holder, seen, round, work>>

\* Mutant: a node that gives up aborts its attempts but keeps their leases.
GiveUp_KeepsLeases(n) ==
    /\ state[n] = "stopping"
    /\ state' = [state EXCEPT ![n] = "stopped"]
    /\ work' = [work EXCEPT ![n] = @ \ InStage(n, {"attempting"})]
    /\ UNCHANGED <<row, holder, seen, round>>

\* The shutdown limit passes, or all work is done: the attempts whose route
\* still runs are aborted and their leases given back; an outcome that is being
\* recorded is left alone.
GiveUp(n) ==
    /\ state[n] = "stopping"
    /\ state' = [state EXCEPT ![n] = "stopped"]
    /\ work' = MoveStage(n, "attempting", "releasing")
    /\ UNCHANGED <<row, holder, seen, round>>

\* A release statement: the rows its claims still hold are due at once, the
\* attempt stays counted.
release(n) ==
    \E S \in (SUBSET InStage(n, {"releasing"})) \ {{}} :
       LET given == {d \in Deliveries : \E e \in S : e.id = d /\ claimed(e)}
       IN  /\ row' = [d \in Deliveries |->
                        IF d \in given THEN [row[d] EXCEPT !.leased = FALSE, !.due = TRUE]
                        ELSE row[d]]
           /\ work' = [work EXCEPT ![n] = @ \ S]
           /\ UNCHANGED <<holder, seen, state, round>>

\* Nobody can write any more for the claims in S: their leases run out.
Orphaned(n, S) ==
    [d \in Deliveries |-> IF \E e \in S : e.id = d /\ holder[d] = n /\ claimed(e)
                          THEN NoNode ELSE holder[d]]

\* The process ends: after a stop, or at any moment by a crash.
Exit(n) ==
    /\ state[n] # "down"
    /\ state[n] = "stopped" \/ "crash" \in Faults
    /\ state' = [state EXCEPT ![n] = "down"]
    /\ holder' = Orphaned(n, work[n])
    /\ round' = [round EXCEPT ![n] = Idle]
    /\ work' = [work EXCEPT ![n] = {}]
    /\ UNCHANGED <<row, seen>>

Restart(n) ==
    /\ state[n] = "down"
    /\ state' = [state EXCEPT ![n] = "running"]
    /\ UNCHANGED <<row, holder, seen, round, work>>

\* A store call throws: a claim before it ran, or whose answer was lost; a
\* record or a release that did not run. The node logs and goes on.
StoreFails(n) ==
    /\ "store" \in Faults
    /\ \/ /\ round[n].step # "idle"
          /\ LET S == InStage(n, {"claimed"})
             IN  work' = [work EXCEPT ![n] = @ \ S] /\ holder' = Orphaned(n, S)
          /\ round' = [round EXCEPT ![n] = Idle]
       \/ /\ \E e \in InStage(n, {"releasing"} \cup Outcomes) :
               /\ work' = [work EXCEPT ![n] = @ \ {e}]
               /\ holder' = Orphaned(n, {e})
          /\ UNCHANGED round
    /\ UNCHANGED <<row, seen, state>>

----------------------------------------------------------------------------
Next ==
    \/ \E d \in Deliveries : FanOut(d) \/ ComeDue(d)
    \/ \E n \in Nodes :
         \/ ReadDue(n) \/ claim(n) \/ TakeUp(n)
         \/ \E e \in work[n] :
              \/ \E outcome \in Outcomes : EndAttempt(n, e, outcome)
              \/ record(n, e)
         \/ Stop(n) \/ GiveUp(n) \/ release(n) \/ Exit(n) \/ Restart(n)
         \/ StoreFails(n)

Spec == Init /\ [][Next]_vars

\* The event loop runs what is ready, timers fire, and the store answers: each
\* step of a live node that can go on does. A stopped or crashed process is
\* started again. Nothing is assumed of new events, stops, crashes or failures.
Fairness ==
    /\ \A d \in Deliveries : WF_vars(ComeDue(d))
    /\ \A n \in Nodes :
         /\ WF_vars(ReadDue(n)) /\ WF_vars(claim(n)) /\ WF_vars(TakeUp(n))
         /\ WF_vars(\E e \in work[n], o \in Outcomes : EndAttempt(n, e, o))
         /\ WF_vars(\E e \in work[n] : record(n, e))
         /\ WF_vars(GiveUp(n)) /\ WF_vars(release(n)) /\ WF_vars(Restart(n))
         /\ WF_vars(state[n] = "stopped" /\ Exit(n))

LiveSpec == Spec /\ Fairness

----------------------------------------------------------------------------
(* Properties.                                                              *)

\* Every variable has its type; a lease exists only on a pending row, the CHECK
\* event_deliveries_lease_while_pending of the schema.
TypeOK ==
    /\ row \in [Deliveries -> Row]
    /\ \A d \in Deliveries : row[d].leased => row[d].status = "pending"
    /\ holder \in [Deliveries -> Nodes \cup {NoNode}]
    /\ seen \in [Deliveries -> SUBSET {"ok", "permanent"}]
    /\ state \in [Nodes -> {"running", "stopping", "stopped", "down"}]
    /\ round \in [Nodes -> Round]
    /\ work \in [Nodes -> SUBSET Entry]

\* "A worker whose lease ran out and was claimed again cannot overwrite the newer
\* attempt" (schema/event-deliveries.ts): of all the claims any node still acts
\* on, at most one can write to a row, and it is the row's latest claim, even
\* though a hold lowers attempt_count again.
OnlyTheLatestClaimWrites ==
    \A n \in Nodes : \A e \in work[n] : claimed(e) =>
        /\ holder[e.id] = n
        /\ \A m \in Nodes : \A f \in work[m] :
              f.id = e.id /\ claimed(f) => m = n /\ f = e

\* No lease leaks: unless its node crashed or the store call was lost, a leased
\* row has a claim that will still record an outcome for it or give it back. A
\* node that stops gracefully leaves no row waiting for its lease to run out.
NoLeakedLease ==
    \A d \in Deliveries : row[d].leased /\ holder[d] # NoNode =>
        \E e \in work[holder[d]] : e.id = d /\ claimed(e)

\* The slots computed before the store calls of a claim round are respected
\* after them: a node never has more attempts in flight than concurrency, nor
\* more than maxInFlightPerDestination at one destination.
InFlightBounded ==
    \A n \in Nodes :
        /\ Cardinality(inFlight(n)) <= Concurrency
        /\ \A x \in Destinations : inFlightAt(n, x) <= MaxInFlightPerDestination

\* A delivery ends only for a reason: delivered when a route accepted the event,
\* failed when a route refused it for good or all maxAttempts are counted.
EndsForAReason ==
    \A d \in Deliveries :
        /\ row[d].status = "delivered" => "ok" \in seen[d]
        /\ row[d].status = "failed" =>
              row[d].attempt_count = MaxAttempts \/ "permanent" \in seen[d]

\* A finished row is never written again, by any late record, release or claim.
FinishedStays ==
    [][\A d \in Deliveries : Finished(d) => row'[d] = row[d]]_vars

\* The row as its owner sees it: owed until it ends.
Fate(d) == IF row[d].status = "pending" THEN "owed" ELSE row[d].status

Contract ==
    INSTANCE DeliveryContract WITH
        fate <- [d \in Deliveries |-> Fate(d)],
        tries <- [d \in Deliveries |-> row[d].attempt_count],
        answers <- seen

\* The nodes with their leases, crashes, lost calls and late outcomes keep the
\* contract of the queue: every step of any of them is one step of one delivery
\* (or one claim of several), or changes nothing that the contract speaks of.
ImplementsContract == Contract!Spec

\* Some node stops, dies or loses a store call.
Disturbance == \E n \in Nodes : Stop(n) \/ Exit(n) \/ StoreFails(n)

\* A route holds a delivery.
Hold == \E n \in Nodes : \E e \in work[n] : EndAttempt(n, e, "hold")

\* At least once: if disturbances and holds cease, every row that some node can
\* read is finished in the end, whatever crashed, timed out or was lost before.
EveryDeliveryEnds ==
    \/ []<><<Disturbance>>_vars
    \/ []<><<Hold>>_vars
    \/ \A d \in UNION {Reads[n] : n \in Nodes} :
          row[d].status = "pending" ~> Finished(d)

=============================================================================
