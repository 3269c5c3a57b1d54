--------------------------- MODULE MCInteraction ---------------------------
EXTENDS Interaction, TLC

CONSTANTS p1, p2, u1, u2

\* One workload: what happens, what the engine decides, the faults and how
\* many, until when, how many interactions and requests, and a browser that
\* comes signed in.
Workload(do, decisions, errors, size, until, ids, asks, carry) ==
  [do |-> do, decide |-> decisions, faults |-> errors, size |-> size, until |-> until,
   ids |-> ids, asks |-> asks, carry |-> carry]

\* The sweep beside answers, the event store and nodes failing.
SweepLoads == {
  Workload({"start", "answer", "sweep"}, {"step", "finished"},
           {"audit", "crash", "invalid", "fail"}, 2, 5, 1, 3, FALSE)}

Workloads == SweepLoads \cup {
  \* two interactions expire together
  Workload({"start", "sweep"}, {}, {"audit", "invalid", "lost"}, 2, 3, 2, 0, FALSE),
  \* two tabs race, a Redis command fails or its reply is lost
  Workload({"start", "answer", "cancel", "sweep"}, {"step", "finished"},
           {"fail", "lost"}, 2, 4, 1, 4, FALSE),
  \* sign-ins in two tabs, the session service or the signer failing
  Workload({"start", "answer", "signout"}, {"authenticated", "finished", "signed_in"},
           {"session", "stale", "signer", "lost", "throw", "audit"}, 2, 0, 1, 3, FALSE),
  \* registration, a finish that goes on, lost responses
  Workload({"start", "answer", "cancel", "continue"}, {"registered", "signed_in", "step"},
           {"response", "fail"}, 1, 0, 2, 3, FALSE),
  \* a user switch beside a sign-in in another tab
  Workload({"start", "answer", "switch"}, {"authenticated"},
           {"session", "signer", "stale", "lost"}, 1, 0, 3, 2, TRUE),
  \* a user switch beside an answer and a sign-out
  Workload({"start", "answer", "switch", "signout"}, {"step", "authenticated"},
           {"session", "signer", "stale", "fail"}, 1, 0, 2, 2, TRUE)}

Alike == Permutations(Procs)
============================================================================
