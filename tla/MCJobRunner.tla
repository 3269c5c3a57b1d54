---------------------------- MODULE MCJobRunner ----------------------------
EXTENDS JobRunner

CONSTANTS n1, n2

\* The clocks agree, or the second node's lags by one.
AgreeOrLag == {[n \in Nodes |-> 0], [n \in Nodes |-> IF n = n2 THEN 1 ELSE 0]}
============================================================================
