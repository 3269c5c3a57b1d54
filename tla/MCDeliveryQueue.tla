-------------------------- MODULE MCDeliveryQueue --------------------------
(***************************************************************************)
(* Instances of DeliveryQueue for TLC.                                      *)
(***************************************************************************)
EXTENDS DeliveryQueue, TLC

CONSTANTS n1, n2, d1, d2, d3, x1, x2

TwoRows == (d1 :> x1) @@ (d2 :> x2)

\* Two rows for one destination, one for another.
ThreeRows == (d1 :> x1) @@ (d2 :> x1) @@ (d3 :> x2)

ReadAll == [n \in Nodes |-> Deliveries]

\* n1 runs an older release, which cannot read d2's layout.
OldNode == (n1 :> {d1}) @@ (n2 :> {d1, d2})

\* Nodes are alike; d1 and d2 wait for the same destination, d3 for another.
Alike == Permutations(Nodes) \cup Permutations({d1, d2})

\* The states explored: one row with all its attempts on every node, or
\* all rows, with one attempt each, while all nodes but one have nothing to do.
Explored ==
    \/ Cardinality({d \in Deliveries : row[d].status # "absent"}) <= 1
    \/ /\ \A d \in Deliveries : row[d].attempt_count <= 1
       /\ \E n \in Nodes : \A m \in Nodes \ {n} :
             state[m] = "running" /\ round[m] = Idle /\ work[m] = {}
=============================================================================
