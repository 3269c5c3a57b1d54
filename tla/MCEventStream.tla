--------------------------- MODULE MCEventStream ---------------------------
(* Small instances of EventStream: one realm's stream.                     *)
EXTENDS EventStream, TLC

CONSTANTS n1, n2, k1, k2, d1, d2

OneKind == [d \in Destinations |-> k1]

TwoKinds == (d1 :> k1) @@ (d2 :> k2)

\* Two destinations of one kind.
DestinationSymmetry == Permutations(Destinations)
============================================================================
