---------------------------- MODULE AdminChain ----------------------------
(***************************************************************************)
(* The hash chain over one realm's admin events: transactions that append  *)
(* to it, retention batches that delete its start and move the anchor, and *)
(* the verification that reads it from the anchor or from a head an        *)
(* earlier report named.                                                   *)
(*                                                                         *)
(* A hash stands for the whole row and is free of collisions, so a row's   *)
(* seq stands for its hash and 0 for the genesis hash; `whole` says that   *)
(* the row still hashes to what it holds. The anchor is the seq of the     *)
(* last row deleted, 0 before any. Statements of a transaction are steps   *)
(* of their own, under READ COMMITTED.                                     *)
(***************************************************************************)
EXTENDS Integers, FiniteSets, FiniteSetsExt

CONSTANTS
  Writers,   \* transactions that emit admin events
  Batches,   \* retention batches, each on a node of its own
  Limit,     \* rows one batch may delete
  MaxSeq,    \* bound: seqs drawn
  MaxPerTx,  \* bound: admin events of one transaction
  NoOne

ASSUME ChainAssumption ==
  /\ NoOne \notin Writers \cup Batches
  /\ Limit \in Nat /\ MaxSeq \in Nat /\ MaxPerTx \in Nat

VARIABLES
  events,     \* the stored chain rows, by seq
  anchor,     \* event_chain_anchors
  seqs,       \* the last seq drawn
  chainLock,  \* the advisory lock of the realm's chain
  batchLock,  \* the advisory lock of the realm's retention
  tx,         \* the writers
  batch,      \* the retention batches
  points,     \* heads that verifications have reported
  damaged,    \* history: a row was changed or cut behind the server's back
  alarm       \* history: a batch reported a break or failed its own checks

chainVars == <<events, anchor, seqs, chainLock, batchLock, tx, batch, points, damaged, alarm>>

NewTx == [pc |-> "idle", prev |-> 0, rows |-> {}]
NewBatch == [pc |-> "idle", through |-> 0, anchor |-> 0, head |-> 0, doomed |-> {}]

Stored == DOMAIN events
Row(prev) == [prev |-> prev, whole |-> TRUE]
Newest(seqSet) == Max(seqSet \cup {0})

ChainInit ==
  /\ events = [s \in {} |-> Row(0)] /\ anchor = 0 /\ seqs = 0
  /\ chainLock = NoOne /\ batchLock = NoOne
  /\ tx = [w \in Writers |-> NewTx]
  /\ batch = [j \in Batches |-> NewBatch]
  /\ points = {} /\ damaged = FALSE /\ alarm = FALSE

----------------------------------------------------------------------------
(* Appending: appendToChain, in a transaction that may emit several events *)

retention == <<anchor, batchLock, batch, points, damaged, alarm>>

lockChain(w) ==
  /\ tx[w].pc = "idle" /\ chainLock = NoOne
  /\ chainLock' = w
  /\ tx' = [tx EXCEPT ![w].pc = "head"]
  /\ UNCHANGED <<events, seqs, retention>>

\* events_admin_chain_head: the newest row this transaction sees, its own too.
readHead(w) ==
  /\ tx[w].pc = "head"
  /\ tx' = [tx EXCEPT ![w].pc = "insert",
                      ![w].prev = Newest(Stored \cup {r[1] : r \in tx[w].rows})]
  /\ UNCHANGED <<events, seqs, chainLock, retention>>

insertChained(w) ==
  /\ tx[w].pc = "insert" /\ seqs < MaxSeq
  /\ seqs' = seqs + 1
  /\ tx' = [tx EXCEPT ![w].pc = "emitted",
                      ![w].rows = @ \cup {<<seqs + 1, tx[w].prev>>}]
  /\ UNCHANGED <<events, chainLock, retention>>

emitAgain(w) ==
  /\ tx[w].pc = "emitted" /\ Cardinality(tx[w].rows) < MaxPerTx
  /\ tx' = [tx EXCEPT ![w].pc = "head"]
  /\ UNCHANGED <<events, seqs, chainLock, retention>>

\* The transaction commits, or fails and keeps nothing; a drawn seq is gone.
endTx(w) ==
  /\ tx[w].pc # "idle"
  /\ \/ /\ tx[w].pc = "emitted"
        /\ events' = [s \in Stored \cup {r[1] : r \in tx[w].rows} |->
                        IF s \in Stored THEN events[s]
                        ELSE Row((CHOOSE r \in tx[w].rows : r[1] = s)[2])]
     \/ UNCHANGED events
  /\ tx' = [tx EXCEPT ![w] = NewTx]
  /\ chainLock' = IF chainLock = w THEN NoOne ELSE chainLock
  /\ UNCHANGED <<seqs, retention>>

----------------------------------------------------------------------------
(* Retention: deleteBatch and deleteChainStart                             *)

appends == <<seqs, chainLock, tx, points>>

\* pg_try_advisory_xact_lock: a batch that finds the lock taken is "busy".
\* `through`, the position the job was given before, lies behind every
\* transaction that was still open: only rows stored by now are offered.
tryLockBatch(j) ==
  /\ batch[j].pc = "idle" /\ batchLock = NoOne
  /\ batchLock' = j
  /\ batch' = [batch EXCEPT ![j].pc = "anchor", ![j].through = Newest(Stored)]
  /\ UNCHANGED <<events, anchor, appends, damaged, alarm>>

readAnchor(j) ==
  /\ batch[j].pc = "anchor"
  /\ batch' = [batch EXCEPT ![j].pc = "head", ![j].anchor = anchor]
  /\ UNCHANGED <<events, anchor, batchLock, appends, damaged, alarm>>

readNewest(j) ==
  /\ batch[j].pc = "head"
  /\ batch' = [batch EXCEPT ![j].pc = "rows", ![j].head = Newest(Stored)]
  /\ UNCHANGED <<events, anchor, batchLock, appends, damaged, alarm>>

\* The row before s in the chain that starts after `start`.
Before(s, start) == Newest({t \in Stored : start < t /\ t < s} \cup {start})

\* checkChainRow against the row before it in what was read.
checksOut(s, start) == events[s].whole /\ events[s].prev = Before(s, start)

\* The first Limit rows, up to the first that is too young or not yet offered.
Due(last) ==
  {s \in Stored : s <= last /\ Cardinality({t \in Stored : t <= s}) <= Limit}

\* mutant: the newest row may go too
DoomedWithHead(j, due) ==
  {s \in due : \A t \in due : t <= s => checksOut(t, batch[j].anchor)}

\* mutant: rows go unchecked
DoomedUnchecked(j, due) ==
  {s \in due : \A t \in due : t <= s => t # batch[j].head}

\* What of the due rows goes: all before the head and the first that fails.
Doomed(j, due) ==
  {s \in due : /\ s # batch[j].head
               /\ \A t \in due : t <= s =>
                    t # batch[j].head /\ checksOut(t, batch[j].anchor)}

releaseBatch(j) == batchLock' = IF batchLock = j THEN NoOne ELSE batchLock

\* `last` is the newest row that is old enough and offered: the first row that
\* is kept although it is due, and is not the head, is a break to report.
readRows(j) ==
  /\ batch[j].pc = "rows"
  /\ \E last \in 0..batch[j].through :
       LET due == Due(last)
           doomed == Doomed(j, due)
           kept == due \ doomed
       IN  /\ alarm' = (alarm \/ (kept # {} /\ Min(kept) # batch[j].head))
           /\ IF doomed = {}
              THEN batch' = [batch EXCEPT ![j] = NewBatch] /\ releaseBatch(j)
              ELSE /\ batch' = [batch EXCEPT ![j].pc = "move", ![j].doomed = doomed]
                   /\ UNCHANGED batchLock
  /\ UNCHANGED <<events, anchor, appends, damaged>>

AnchorFree(j) == \A k \in Batches \ {j} : batch[k].pc \notin {"delete", "commit"}

\* The anchor moves forward or the batch throws; it is written before the
\* delete, in the same transaction, and its row stays locked to the end.
moveAnchor(j) ==
  /\ batch[j].pc = "move" /\ AnchorFree(j)
  /\ IF anchor < Newest(batch[j].doomed)
     THEN /\ batch' = [batch EXCEPT ![j].pc = "delete"]
          /\ UNCHANGED <<batchLock, alarm>>
     ELSE batch' = [batch EXCEPT ![j] = NewBatch] /\ releaseBatch(j) /\ alarm' = TRUE
  /\ UNCHANGED <<events, anchor, appends, damaged>>

\* The delete must meet every row it names, or the batch throws.
deleteDoomed(j) ==
  /\ batch[j].pc = "delete"
  /\ IF batch[j].doomed \subseteq Stored
     THEN /\ batch' = [batch EXCEPT ![j].pc = "commit"]
          /\ UNCHANGED <<batchLock, alarm>>
     ELSE batch' = [batch EXCEPT ![j] = NewBatch] /\ releaseBatch(j) /\ alarm' = TRUE
  /\ UNCHANGED <<events, anchor, appends, damaged>>

commitBatch(j) ==
  /\ batch[j].pc = "commit"
  /\ anchor' = Newest(batch[j].doomed)
  /\ events' = [s \in Stored \ batch[j].doomed |-> events[s]]
  /\ batch' = [batch EXCEPT ![j] = NewBatch]
  /\ releaseBatch(j)
  /\ UNCHANGED <<appends, damaged, alarm>>

abortBatch(j) ==
  /\ batch[j].pc # "idle"
  /\ batch' = [batch EXCEPT ![j] = NewBatch]
  /\ releaseBatch(j)
  /\ UNCHANGED <<events, anchor, appends, damaged, alarm>>

----------------------------------------------------------------------------
(* Verification, in one repeatable-read snapshot                           *)

\* Where verifyChain starts when asked from a point (0: from the beginning).
StartFrom(asked) == IF asked <= anchor THEN anchor ELSE asked

Verifies(asked) ==
  LET start == StartFrom(asked)
      pruned == asked <= anchor
  IN  /\ start = 0 \/ pruned \/ start \in Stored
      /\ start \in Stored => events[start].whole
      /\ \A s \in Stored : s > start => checksOut(s, start)

\* A report of a chain in order names its head, which a caller may keep and
\* ask from later.
verifyChain(asked) ==
  /\ asked \in points \cup {0} /\ Verifies(asked)
  /\ \E s \in Stored : s = Newest(Stored) /\ points' = points \cup {s}
  /\ UNCHANGED <<events, anchor, seqs, chainLock, batchLock, tx, batch, damaged, alarm>>

\* A row changed or cut in the database. A row that changes after a batch
\* checked it goes with the batch, and a cut head leaves a shorter chain that
\* is in order: neither can be told afterwards. A deleted row is locked.
Damage(s) ==
  /\ \/ /\ \A j \in Batches : s \notin batch[j].doomed
        /\ events' = [events EXCEPT ![s].whole = FALSE]
     \/ /\ s # Newest(Stored)
        /\ \A j \in Batches : batch[j].pc = "commit" => s \notin batch[j].doomed
        /\ events' = [t \in Stored \ {s} |-> events[t]]
  /\ ~damaged /\ damaged' = TRUE
  /\ UNCHANGED <<anchor, seqs, chainLock, batchLock, tx, batch, points, alarm>>

ChainNext ==
  \/ \E w \in Writers :
       lockChain(w) \/ readHead(w) \/ insertChained(w) \/ emitAgain(w) \/ endTx(w)
  \/ \E j \in Batches :
       \/ tryLockBatch(j) \/ readAnchor(j) \/ readNewest(j) \/ readRows(j)
       \/ moveAnchor(j) \/ deleteDoomed(j) \/ commitBatch(j) \/ abortBatch(j)
  \/ \E asked \in 0..MaxSeq : verifyChain(asked)
  \/ \E s \in Stored : Damage(s)

ChainSpec == ChainInit /\ [][ChainNext]_chainVars

----------------------------------------------------------------------------
(* Properties *)

\* A chain nobody touched always verifies, from its start and from every head
\* reported before: whatever was appended, rolled back and deleted meanwhile,
\* in whatever order the transactions ended (appendToChain, deleteChainStart).
ChainVerifies ==
  ~damaged => \A asked \in points \cup {0} : Verifies(asked)

\* Retention never takes an untouched chain for a broken one, and none of its
\* own checks fails beside appends and a second node's batch (deleteBatch).
NoFalseAlarm == ~damaged => ~alarm

\* An untouched chain is never reported broken, by a verification or by
\* retention (verifyChain, deleteChainStart).
ChainSound == ChainVerifies /\ NoFalseAlarm

\* Damage stays to be seen: once a row was changed or cut, every later
\* verification reports a break, however much of the chain retention deletes
\* and whatever is appended (the checks of deleteChainStart).
EvidenceKept == damaged => ~Verifies(0)
============================================================================
