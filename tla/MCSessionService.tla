-------------------------- MODULE MCSessionService -------------------------
EXTENDS SessionService, TLC

CONSTANTS n1, n2, p1, p2, p3, p4

Ahead == [n \in Nodes |-> IF n = n2 THEN 1 ELSE 0]

Load(a, b, c, d) == (p1 :> a) @@ (p2 :> b) @@ (p3 :> c) @@ (p4 :> d)
Do(op, s, n) == [op |-> op, s |-> s, n |-> n]
Nothing == Do("none", 1, n1)
Job(calls, faults, from, until) ==
  [do |-> calls, faults |-> faults, from |-> from, until |-> until]

\* Two reads of a session on two nodes against its end on either, one of them
\* running for longer than the tombstone lives; a session created
\* while the user signs out everywhere; a reset against two lookups,
\* also for longer than the published epoch is cached, where only writes of the
\* epoch land late;
\* a realm-wide sweep against a sign-in on the node whose clock runs ahead;
\* the sweep of lapsed sessions against a session in use.
Workloads ==
  { Job(Load(Do("get", 1, n1), Do("get", 1, n2), Do("revoke", 1, n1), Nothing), {"late"}, 1, 5),
    Job(Load(Do("get", 1, n1), Do("get", 1, n1), Do("revoke", 1, n1), Nothing), {"cache"}, 1, 4),
    Job(Load(Do("get", 1, n2), Do("get", 1, n2), Do("revoke", 1, n1), Nothing), {}, 1, 5),
    Job(Load(Do("create", 1, n2), Do("get", 1, n1), Do("user", 1, n1), Nothing), {"late"}, 1, 5),
    Job(Load(Do("resolve", 1, n1), Do("resolve", 1, n2), Do("reset", 1, n1), Nothing), {}, 1, 2),
    Job(Load(Do("resolve", 1, n2), Nothing, Do("reset", 1, n1), Nothing), {"cache", "late", "store"}, 1, 2),
    Job(Load(Do("resolve", 1, n1), Do("round", 1, n2), Do("reset", 1, n1), Nothing), {"lateEpoch"}, 1, 3),
    Job(Load(Do("create", 2, n2), Do("get", 1, n1), Do("realm", 1, n1), Nothing), {"store"}, 1, 3),
    Job(Load(Do("get", 1, n1), Do("get", 1, n2), Do("lapsed", 1, n2), Do("purge", 1, n1)), {}, 5, 9) }
============================================================================
