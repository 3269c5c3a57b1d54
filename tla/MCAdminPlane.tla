--------------------------- MODULE MCAdminPlane ---------------------------
(* Small instances of the two admin records: the approvals with their      *)
(* audit log, and the chain of admin events. They share no row and no      *)
(* lock, so each behaviour moves one of them.                              *)
EXTENDS AdminApprovals, AdminChain, TLC

CONSTANTS p1, p2, p3, requester, o1, o2, w1, w2, j1, j2

VARIABLE part

Load(kinds, filed, most, until) ==
  [kinds |-> kinds, files |-> filed, asks |-> most, until |-> until]

ApprovalLoads == {
  \* concurrent decisions on what was read before
  Load({"file", "approve", "deny", "cancel"}, 1, 4, 0),
  \* two uses of one approval, with handlers and transactions failing
  Load({"file", "approve", "use", "failure"}, 1, 4, 0),
  \* a use beside a withdrawal
  Load({"file", "approve", "use", "cancel"}, 1, 4, 0),
  \* the audit log pruned while it is appended to
  Load({"file", "approve", "prune"}, 2, 4, 0),
  \* everything beside the expiry, and rows held while it passes
  Load({"file", "approve", "deny", "use", "cancel", "failure"}, 1, 3, 2)}

\* A node's clock keeps up with the database's or falls behind it.
Behind == {-1, 0}

MCInit ==
  /\ part \in {"approvals", "chain"} /\ Init /\ ChainInit
  /\ part = "chain" => load = CHOOSE l \in Loads : TRUE

MCNext ==
  \/ part = "approvals" /\ Next /\ UNCHANGED <<chainVars, part>>
  \/ part = "chain" /\ ChainNext /\ UNCHANGED <<vars, part>>

MCSpec == MCInit /\ [][MCNext]_<<vars, chainVars, part>>

Alike ==
  UNION {Permutations(S) : S \in {Procs, Accounts \ {Requester}, Writers, Batches}}
============================================================================
