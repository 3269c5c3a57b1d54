-------------------------- MODULE DeliveryContract --------------------------
(***************************************************************************)
(* What the delivery queue promises to whoever owes an event to a           *)
(* destination, without leases, nodes, claims or clocks: a delivery is      *)
(* attempted at most MaxAttempts times, only attempts that a route held are *)
(* given back, what a route answered is kept, and a delivery ends once, for *)
(* a reason, and never comes back.                                          *)
(***************************************************************************)
EXTENDS Integers

CONSTANTS
    Deliveries,   \* what may be owed
    MaxAttempts   \* settings.maxAttempts

VARIABLES
    fate,     \* fate[d]: "absent", "owed", "delivered" or "failed"
    tries,    \* tries[d]: the attempts counted
    answers   \* answers[d]: the final answers routes gave: "ok", "permanent"

vars == <<fate, tries, answers>>

Init ==
    /\ fate = [d \in Deliveries |-> "absent"]
    /\ tries = [d \in Deliveries |-> 0]
    /\ answers = [d \in Deliveries |-> {}]

\* The delivery is owed from now on.
Owe(d) ==
    /\ fate[d] = "absent"
    /\ fate' = [fate EXCEPT ![d] = "owed"]
    /\ UNCHANGED <<tries, answers>>

\* Attempts begin for the owed deliveries in S that have one left; those whose
\* attempts are used up fail.
Attempt(S) ==
    /\ \A d \in S : fate[d] = "owed"
    /\ tries' = [d \in Deliveries |->
                   IF d \in S /\ tries[d] < MaxAttempts THEN tries[d] + 1 ELSE tries[d]]
    /\ fate' = [d \in Deliveries |->
                  IF d \in S /\ tries[d] >= MaxAttempts THEN "failed" ELSE fate[d]]
    /\ UNCHANGED answers

\* A route gives a final answer to an attempt, perhaps long after another
\* attempt, or the delivery itself, ended.
Answer(d, a) ==
    /\ fate[d] # "absent"
    /\ answers' = [answers EXCEPT ![d] = @ \cup {a}]
    /\ UNCHANGED <<fate, tries>>

\* The delivery ends for a reason.
Settle(d, end) ==
    /\ fate[d] = "owed"
    /\ \/ end = "delivered" /\ "ok" \in answers[d]
       \/ end = "failed" /\ ("permanent" \in answers[d] \/ tries[d] = MaxAttempts)
    /\ fate' = [fate EXCEPT ![d] = end]
    /\ UNCHANGED <<tries, answers>>

\* A route held the delivery: the attempt does not count.
GiveBack(d) ==
    /\ fate[d] = "owed"
    /\ tries[d] > 0
    /\ tries' = [tries EXCEPT ![d] = @ - 1]
    /\ UNCHANGED <<fate, answers>>

Next ==
    \/ \E S \in SUBSET Deliveries : Attempt(S)
    \/ \E d \in Deliveries :
         \/ Owe(d) \/ GiveBack(d)
         \/ \E a \in {"ok", "permanent"} : Answer(d, a)
         \/ \E end \in {"delivered", "failed"} : Settle(d, end)

Spec == Init /\ [][Next]_vars
=============================================================================
