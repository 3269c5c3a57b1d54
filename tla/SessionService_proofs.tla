------------------------ MODULE SessionService_proofs ------------------------
(***************************************************************************)
(* Theorems about browser sessions and their cache.  The inductive         *)
(* invariant has five parts: the shape of the state (Types); what a row    *)
(* says of the end and of the last use of its session (Rows); what an      *)
(* entry, a tombstone or a write still on its way may hold (Cache); what   *)
(* each call knows at its step (Calls); and who may still wait for which   *)
(* read of Postgres (Flights).  `Resets` adds, for workloads with one      *)
(* reset, what the epoch and its cache may hold.                           *)
(*                                                                         *)
(* The constants; what every step leaves growing and what therefore stays  *)
(* true of a call that does not move; the records of calls; one lemma per  *)
(* action; the theorems.                                                   *)
(***************************************************************************)
EXTENDS SessionService, FiniteSetTheorems, WellFoundedInduction, TLAPS

-----------------------------------------------------------------------------
(***************************************************************************)
(* The inductive invariant.                                                *)
(***************************************************************************)
Pcs == {"start", "mget", "judge", "wait", "find", "touchHit", "touchRead", "fill",
        "answer", "epoch", "epochFind", "epochFill", "end", "ended", "mark",
        "publish", "done"}

Looks == {"none", "revoked", "entry", "empty", "error"}
Anss == {"none", "live", "created", "absent", "kept", "asked", "error", "ended"}
Vias == {"none", "hit", "read", "joined"}

Call == [pc : Pcs, look : Looks,
         rec : Recs, fresh : Nat, fill : BOOLEAN, on : Procs \cup {None},
         after : Nat, cut : Nat, since : Nat, batch : SUBSET Sids,
         sets : SUBSET Sids, dels : SUBSET Sids, took : SUBSET Sids,
         ans : Anss, must : SUBSET Nodes, pub : Nat, via : Vias,
         served : Nat, owed : SUBSET Sids, ranOut : BOOLEAN]

Row == [st : {"absent", "live", "ended", "gone"}, created : Nat, seen : Nat]

CachedEpoch == [at : Nat, dies : Nat]

\* The shape of the state.
Types ==
  /\ job \in Jobs
  /\ now \in Nat /\ job.from <= now /\ now <= job.until
  /\ row \in [Sids -> Row]
  /\ entry \in [Sids -> [rec : Recs, fresh : Nat, dies : Nat]]
  /\ tomb \in [Sids -> Nat]
  /\ inFlight \in [Nodes -> [Sids -> Procs \cup {None}]]
  /\ epoch \in Nat /\ published \in CachedEpoch /\ epochCache \in CachedEpoch
  /\ proc \in [Procs -> Call]
  /\ ensured \in [Sids -> SUBSET Nodes]
  /\ used \in [Sids -> Nat]
  /\ endedAt \in [Sids -> Nat \cup {None}]

\* A record the cache may hold: no fresher than the session's end, or now,
\* allows, and no newer than the row.
FreshOK(s, fresh) ==
  /\ endedAt[s] = None => fresh <= now + MaxSkew + CacheTtl
  /\ endedAt[s] # None => fresh <= endedAt[s] + MaxSkew + CacheTtl
CacheRec(s, rec, fresh) ==
  /\ FreshOK(s, fresh)
  /\ row[s].st # "absent" /\ rec.seen <= row[s].seen

RowOK(s) ==
  /\ endedAt[s] = None <=> row[s].st \in {"absent", "live"}
  /\ endedAt[s] # None => endedAt[s] <= now
  /\ row[s].st # "absent" => /\ row[s].created <= now + MaxSkew
                             /\ used[s] <= row[s].seen + lastSeenInterval
Rows == \A s \in Sids : RowOK(s)

\* The tombstone of a session in `ensured` outlives every entry.
Tombed(s) == endedAt[s] # None /\ tomb[s] >= endedAt[s] + 2 * CacheTtl
CacheOK(s) ==
  /\ entry[s].dies # 0 => CacheRec(s, entry[s].rec, entry[s].fresh)
  /\ tomb[s] <= now + 2 * CacheTtl
  /\ ensured[s] # {} => Tombed(s)

LateOK(l) ==
  \/ /\ l.w = "entry" /\ l.s \in Sids /\ l.rec \in Recs /\ l.fresh \in Nat /\ l.ttl \in Nat
     /\ CacheRec(l.s, l.rec, l.fresh)
  \/ l.w = "tomb" /\ l.s \in Sids /\ l.ttl = 2 * CacheTtl
  \/ l.w \in {"epoch", "fill"} /\ l.fresh \in Nat /\ l.ttl \in Nat
Cache == /\ \A s \in Sids : CacheOK(s)
         /\ \A l \in late : LateOK(l)

\* Where each operation may stand.
Kind(p) ==
  /\ proc[p].pc \in {"mget", "judge", "wait", "find", "touchHit", "touchRead", "answer"}
       => Op(p) \in {"get", "resolve"}
  /\ proc[p].pc = "mget" => proc[p].via = "none"
  /\ proc[p].pc = "fill" => Op(p) \in {"get", "resolve", "create"}
  /\ proc[p].pc \in {"epoch", "epochFind", "epochFill"} => Op(p) \in {"resolve", "round"}
  /\ proc[p].pc \in {"end", "ended", "mark"}
       => Op(p) \in {"resolve", "revoke", "user", "realm", "lapsed", "reset"}
  /\ proc[p].pc = "publish" => Op(p) = "reset"

\* What a lookup knows and holds.
Holding == {"touchHit", "touchRead", "fill", "answer"}
Known(p) ==
  /\ proc[p].must \subseteq ensured[Sid(p)]
  /\ proc[p].must # {} /\ proc[p].look \in {"entry", "empty"}
       => now >= endedAt[Sid(p)] + 2 * CacheTtl
Held(p) ==
  /\ proc[p].pc = "judge" => proc[p].look # "none"
  /\ proc[p].pc = "judge" /\ proc[p].look = "entry"
       => CacheRec(Sid(p), proc[p].rec, proc[p].fresh)
  /\ proc[p].pc \in {"find", "wait", "touchHit"} => proc[p].look \in {"entry", "empty", "error"}
  /\ proc[p].pc = "find" => proc[p].fresh <= now + MaxSkew + CacheTtl
  /\ proc[p].pc \in Holding => /\ proc[p].must = {}
                               /\ CacheRec(Sid(p), proc[p].rec, proc[p].fresh)
  /\ proc[p].pc \in {"touchHit", "touchRead"} => proc[p].cut <= Clock(Node(p))

\* What a lookup answered.
Answered(p) ==
  proc[p].via # "none" =>
    /\ proc[p].served <= now
    /\ proc[p].must # {} =>
         /\ proc[p].via = "joined" /\ Node(p) \notin proc[p].must
         /\ \/ proc[p].look = "error"
            \/ proc[p].served >= endedAt[Sid(p)] + 2 * CacheTtl
    /\ proc[p].via = "hit" /\ endedAt[Sid(p)] # None
         => proc[p].served < endedAt[Sid(p)] + CacheTtl + MaxSkew

\* What an end has done so far.
Ending(p) ==
  /\ proc[p].pc \in {"ended", "mark"} => \A s \in proc[p].batch : endedAt[s] # None
  /\ proc[p].pc = "mark" => /\ proc[p].sets \subseteq proc[p].batch
                            /\ proc[p].took \subseteq proc[p].batch
                            /\ \A s \in proc[p].took : Tombed(s)
  /\ proc[p].pc # "mark" => proc[p].took = {} /\ proc[p].dels = {}
  /\ Op(p) = "lapsed" /\ proc[p].pc \in {"end", "ended", "mark"} => proc[p].cut <= now + MaxSkew

\* A realm-wide sweep still reaches every session it owes.
InReach(p, s) == /\ row[s].st # "absent" /\ row[s].created <= proc[p].cut
                 /\ row[s].seen + SeenInterval >= proc[p].since
RowsOwed(p) == \A s \in proc[p].owed : row[s].st # "absent"
Sweeping(p) ==
  Op(p) = "realm" =>
    /\ RowsOwed(p)
    /\ proc[p].pc \in {"end", "ended", "mark"} => \A s \in proc[p].owed : InReach(p, s)
    /\ proc[p].pc = "end" => \A s \in proc[p].owed \cap Live : s > proc[p].after
    /\ proc[p].pc \in {"ended", "mark"} =>
         \A s \in proc[p].owed \cap Live :
           Cardinality(proc[p].batch) = Batch /\ \A t \in proc[p].batch : s > t
    /\ proc[p].pc = "done" /\ proc[p].ans # "error" => proc[p].owed \cap Live = {}

\* The one session an end is about has been one.
Begun(p) == Op(p) \in {"resolve", "revoke"} =>
  (proc[p].pc \in {"epoch", "epochFind", "epochFill", "end"} => row[Sid(p)].st # "absent")

CallOK(p) == /\ Kind(p) /\ Known(p) /\ Held(p) /\ Answered(p)
             /\ Ending(p) /\ Sweeping(p) /\ Begun(p)
Calls == \A p \in Procs : CallOK(p)

\* The shared reads.
Working == {"find", "touchHit", "touchRead", "fill", "answer"}
Fruitless == {"find", "touchHit"}
Lookups == {"get", "resolve"}
FlightOK(n, s) ==
  inFlight[n][s] # None =>
    /\ Node(inFlight[n][s]) = n /\ Sid(inFlight[n][s]) = s
    /\ Op(inFlight[n][s]) \in Lookups
    /\ proc[inFlight[n][s]].pc \in Working
    /\ n \in ensured[s] => proc[inFlight[n][s]].pc \in Fruitless
WaitOK(p) ==
  proc[p].pc = "wait" =>
    /\ proc[p].on \in Procs
    /\ Node(proc[p].on) = Node(p) /\ Sid(proc[p].on) = Sid(p) /\ Op(proc[p].on) \in Lookups
    /\ proc[proc[p].on].pc \in Working
    /\ Node(p) \in proc[p].must => proc[proc[p].on].pc \in Fruitless
MarkOK(p) ==
  proc[p].pc = "mark" =>
    \A s \in proc[p].batch :
      inFlight[Node(p)][s] # None => proc[inFlight[Node(p)][s]].pc \in Fruitless
Flights == /\ \A n \in Nodes, s \in Sids : FlightOK(n, s)
           /\ \A p \in Procs : WaitOK(p) /\ MarkOK(p)

IInv == Types /\ Rows /\ Cache /\ Calls /\ Flights

\* The epoch and its cache, where a workload resets once.
OneReset == \A j \in Jobs, p, q \in Procs :
              j.do[p].op = "reset" /\ j.do[q].op = "reset" => p = q
ResetCall(p) ==
  /\ Op(p) = "reset" /\ proc[p].pc = "start" => epoch = 0
  /\ proc[p].pc = "publish" => proc[p].cut = epoch /\ epoch # 0
  /\ proc[p].pub # 0 => proc[p].pub = epoch /\ published.at # 0
  /\ proc[p].pc = "epochFill" /\ proc[p].pub # 0 => proc[p].cut = epoch
  /\ proc[p].ans = "kept" =>
       /\ proc[p].pc = "done"
       /\ predatesReset(proc[p].pub, proc[p].rec.created) => proc[p].ranOut
Resets ==
  /\ published.at \in {0, epoch}
  /\ published.at # 0 /\ Alive(published.dies) => epochCache = published
  /\ \A l \in late : l.w = "epoch" => l.fresh = epoch /\ epoch # 0
  /\ \A p \in Procs : ResetCall(p)

-----------------------------------------------------------------------------
(***************************************************************************)
(* Finite sets of numbers: the greatest, and the first few.                *)
(***************************************************************************)
LEMMA Least ==
  ASSUME NEW T \in SUBSET Nat, T # {}
  PROVE  \E x \in T : \A y \in T : x <= y
<1>1. PICK x \in T : \A y \in T : ~(<<y, x>> \in OpToRel(<, Nat))
  BY NatLessThanWellFounded, WFMin
<1>2. \A y \in T : ~(y < x)
  BY <1>1 DEF OpToRel
<1> QED BY <1>2

\* The element with the fewest elements above it has none.
LEMMA Greatest ==
  ASSUME NEW S \in SUBSET Nat, IsFiniteSet(S), S # {}
  PROVE  \E x \in S : \A y \in S : x >= y
<1> DEFINE Above(x) == {y \in S : y > x}
           Counts == {Cardinality(Above(x)) : x \in S}
<1>1. \A x \in S : IsFiniteSet(Above(x)) /\ Cardinality(Above(x)) \in Nat
  <2> TAKE x \in S
  <2>1. Above(x) \in SUBSET S
    OBVIOUS
  <2> HIDE DEF Above
  <2> QED BY <2>1, FS_Subset, FS_CardinalityType
<1>2. Counts \in SUBSET Nat /\ Counts # {}
  BY <1>1
<1>3. PICK n \in Counts : \A m \in Counts : n <= m
  <2> HIDE DEF Counts
  <2> QED BY <1>2, Least
<1>4. PICK x \in S : n = Cardinality(Above(x))
  BY <1>3
<1>5. ASSUME NEW y \in S, y > x PROVE FALSE
  <2>1. Above(y) \in SUBSET Above(x)
    <3>1. \A z \in S : z \in Nat /\ (z > y => z > x)
      BY <1>5
    <3> QED BY <3>1
  <2>2. y \in Above(x) /\ y \notin Above(y)
    BY <1>5
  <2>3. Cardinality(Above(x)) <= Cardinality(Above(y))
    BY <1>3, <1>4
  <2>4. IsFiniteSet(Above(x)) /\ Cardinality(Above(x)) \in Nat /\ Cardinality(Above(y)) \in Nat
    BY <1>1
  <2> HIDE DEF Above
  <2>5. Cardinality(Above(y)) <= Cardinality(Above(x))
    BY <2>1, <2>4, FS_Subset
  <2>6. Cardinality(Above(y)) = Cardinality(Above(x))
    BY <2>3, <2>4, <2>5
  <2> QED BY <2>1, <2>2, <2>4, <2>6, FS_Subset
<1> QED BY <1>5

LEMMA MaxIs ==
  ASSUME NEW S \in SUBSET Nat, IsFiniteSet(S), S # {}
  PROVE  Max(S) \in S /\ Max(S) \in Nat /\ \A y \in S : Max(S) >= y
<1>1. \E x \in S : \A y \in S : x >= y
  BY Greatest
<1>2. Max(S) \in S /\ \A y \in S : Max(S) >= y
  BY <1>1 DEF Max
<1> QED BY <1>2

\* The first k elements are all of them, or they are k and precede the rest.
LEMMA FirstIs ==
  ASSUME NEW S \in SUBSET Nat, IsFiniteSet(S), NEW k \in Nat, k # 0
  PROVE  /\ First(S, k) \in SUBSET S
         /\ \A x \in S \ First(S, k) : /\ Cardinality(First(S, k)) = k
                                       /\ \A y \in First(S, k) : y < x
<1> DEFINE Before(x) == {y \in S : y < x}
           F == First(S, k)
<1>1. F = {x \in S : Cardinality(Before(x)) < k}
  BY DEF First
<1>2. \A x \in S : IsFiniteSet(Before(x)) /\ Cardinality(Before(x)) \in Nat
  <2> TAKE x \in S
  <2>1. Before(x) \in SUBSET S
    OBVIOUS
  <2> HIDE DEF Before
  <2> QED BY <2>1, FS_Subset, FS_CardinalityType
<1>3. \A x, y \in S : x <= y => Cardinality(Before(x)) <= Cardinality(Before(y))
  <2> TAKE x, y \in S
  <2> HAVE x <= y
  <2>1. Before(x) \in SUBSET Before(y)
    <3>1. \A z \in S : z \in Nat /\ (z < x => z < y)
      OBVIOUS
    <3> QED BY <3>1
  <2>2. IsFiniteSet(Before(y))
    BY <1>2
  <2> HIDE DEF Before
  <2> QED BY <2>1, <2>2, FS_Subset
<1>4. ASSUME NEW x \in S, x \notin F, NEW y \in F PROVE y < x
  <2>0. F \in SUBSET S
    BY <1>1
  <2>1. SUFFICES ASSUME x <= y PROVE FALSE
    <3> HIDE DEF F
    <3> QED BY <1>4, <2>0
  <2>2. y \in S /\ Cardinality(Before(y)) < k /\ ~(Cardinality(Before(x)) < k)
    BY <1>1, <1>4
  <2>3. Cardinality(Before(x)) <= Cardinality(Before(y))
    BY <1>3, <2>1, <2>2
  <2>4. Cardinality(Before(x)) \in Nat /\ Cardinality(Before(y)) \in Nat
    BY <1>2, <2>2
  <2> HIDE DEF Before, F
  <2> QED BY <2>2, <2>3, <2>4
<1>5. ASSUME NEW z \in S, z \notin F PROVE Cardinality(F) = k
  <2>1. S \ F \in SUBSET Nat /\ S \ F # {}
    BY <1>5
  <2>2. PICK x \in S \ F : \A y \in S \ F : x <= y
    <3> HIDE DEF F
    <3> QED BY <2>1, Least
  <2>3. \A y \in S : y < x => y \in F
    BY <2>2, <1>5
  <2>4. F = Before(x)
    <3>1. \A y \in F : y \in S /\ y < x
      BY <1>4, <1>1, <2>2
    <3> HIDE DEF F
    <3> QED BY <2>3, <3>1
  <2>5. x \in S /\ ~(Cardinality(Before(x)) < k)
    BY <1>1, <2>2
  <2>6. Cardinality(F) \in Nat /\ IsFiniteSet(F) /\ Cardinality(F) >= k
    <3>1. IsFiniteSet(Before(x)) /\ Cardinality(Before(x)) \in Nat
      BY <1>2, <2>5
    <3> HIDE DEF Before, F
    <3> QED BY <2>4, <2>5, <3>1
  <2>7. F # {}
    <3> HIDE DEF F, Before
    <3> QED BY <2>6, FS_EmptySet
  <2>8. PICK m \in F : \A y \in F : m >= y
    <3>1. F \in SUBSET Nat
      BY <1>1
    <3> HIDE DEF F, Before
    <3> QED BY <2>6, <2>7, <3>1, Greatest
  <2>9. F = Before(m) \cup {m} /\ m \notin Before(m) /\ m \in S /\ m \in Nat
    <3>1. m \in S /\ m \in Nat /\ m < x
      BY <2>4, <2>8
    <3>2. \A y \in F : y \in Before(m) \cup {m}
      BY <2>4, <2>8, <3>1
    <3>3. \A y \in Before(m) : y \in F
      <4> TAKE y \in Before(m)
      <4>1. y \in S /\ y < m
        OBVIOUS
      <4>2. y < x
        BY <4>1, <3>1, <2>2
      <4> HIDE DEF F, Before
      <4> QED BY <4>1, <4>2, <2>3
    <3>4. m \notin Before(m)
      BY <3>1
    <3> HIDE DEF F, Before
    <3> QED BY <3>1, <3>2, <3>3, <3>4, <2>8
  <2>10. Cardinality(Before(m)) < k /\ IsFiniteSet(Before(m)) /\ Cardinality(Before(m)) \in Nat
    BY <1>1, <1>2, <2>8, <2>9
  <2> HIDE DEF F, Before
  <2>11. Cardinality(F) = Cardinality(Before(m)) + 1
    BY <2>9, <2>10, FS_AddElement
  <2> QED BY <2>6, <2>10, <2>11
<1>6. F \in SUBSET S
  BY <1>1
<1> HIDE DEF Before
<1>7. \A x \in S \ F : Cardinality(F) = k /\ \A y \in F : y < x
  <2> HIDE DEF F
  <2> QED BY <1>4, <1>5
<1> QED BY <1>6, <1>7

-----------------------------------------------------------------------------
(***************************************************************************)
(* The constants.                                                          *)
(***************************************************************************)
Constants ==
  /\ CacheTtl \in Nat /\ CacheTtl # 0 /\ Batch \in Nat /\ Batch # 0
  /\ IdleLimit \in Nat /\ Lifespan \in Nat /\ SeenInterval \in Nat
  /\ SkewAllowance \in Nat /\ ResetMargin \in Nat
  /\ MaxSkew \in Nat /\ MaxSkew <= SkewAllowance /\ MaxSkew <= CacheTtl
  /\ \A n \in Nodes : Offset[n] \in Nat /\ Offset[n] <= MaxSkew
  /\ lastSeenInterval \in Nat /\ lastSeenInterval <= SeenInterval
  /\ lastSeenInterval <= IdleLimit \div 2 /\ IdleLimit \div 2 \in Nat
  /\ None \notin Nat /\ None \notin Procs
  /\ Sids \in SUBSET Nat /\ IsFiniteSet(Sids)

LEMMA ConstantsHold == Constants
<1>1. /\ CacheTtl \in Nat /\ CacheTtl # 0 /\ Batch \in Nat /\ Batch # 0
      /\ IdleLimit \in Nat /\ Lifespan \in Nat /\ SeenInterval \in Nat
      /\ SkewAllowance \in Nat /\ ResetMargin \in Nat
      /\ None \notin Nat /\ None \notin Procs
      /\ Sids \in SUBSET Nat /\ IsFiniteSet(Sids)
      /\ Offset \in [Nodes -> Nat] /\ IsFiniteSet(Nodes) /\ Nodes # {}
  BY SessionAssumption
<1>2. /\ MaxSkew \in Nat
      /\ \A n \in Nodes : Offset[n] \in Nat /\ Offset[n] <= MaxSkew
  <2> DEFINE T == {Offset[n] : n \in Nodes}
  <2>1. T \in SUBSET Nat /\ T # {}
    BY <1>1
  <2>2. Offset \in Surjection(Nodes, T)
    BY <1>1 DEF Surjection
  <2>3. \A n \in Nodes : Offset[n] \in T
    OBVIOUS
  <2>4. MaxSkew = Max(T)
    BY DEF MaxSkew
  <2> HIDE DEF T
  <2>5. IsFiniteSet(T)
    BY <1>1, <2>2, FS_Surjection
  <2>6. Max(T) \in T /\ Max(T) \in Nat /\ \A y \in T : Max(T) >= y
    BY <2>1, <2>5, MaxIs
  <2> QED BY <1>1, <2>3, <2>4, <2>6
<1>3. /\ lastSeenInterval \in Nat /\ lastSeenInterval <= SeenInterval
      /\ lastSeenInterval <= IdleLimit \div 2 /\ IdleLimit \div 2 \in Nat
  <2>1. IdleLimit \div 2 \in Nat
    BY <1>1
  <2> DEFINE half == IdleLimit \div 2
  <2>2. half \in Nat /\ lastSeenInterval = IF SeenInterval <= half THEN SeenInterval ELSE half
    BY <2>1 DEF lastSeenInterval, Lesser
  <2> HIDE DEF half
  <2>3. lastSeenInterval \in Nat /\ lastSeenInterval <= SeenInterval /\ lastSeenInterval <= half
    BY ONLY <1>1, <2>2
  <2> QED BY <2>1, <2>3 DEF half
<1>4. MaxSkew <= SkewAllowance /\ MaxSkew <= CacheTtl
  BY SkewAssumption
<1> QED BY <1>1, <1>2, <1>3, <1>4 DEF Constants

LEMMA CallInfo ==
  ASSUME job \in Jobs, NEW p \in Procs
  PROVE  /\ Op(p) \in Ops /\ Sid(p) \in Sids /\ Node(p) \in Nodes
         /\ job.from \in Nat /\ job.from # 0 /\ job.until \in Nat
<1>1. job \in [do : [Procs -> [op : Ops, s : Sids, n : Nodes]],
               faults : SUBSET {"cache", "late", "lateEpoch", "store"},
               from : Nat \ {0}, until : Nat]
  BY SessionAssumption
<1>2. job.do \in [Procs -> [op : Ops, s : Sids, n : Nodes]] /\ job.from \in Nat \ {0}
      /\ job.until \in Nat
  BY <1>1
<1>3. job.do[p] \in [op : Ops, s : Sids, n : Nodes]
  BY <1>2
<1> QED BY <1>2, <1>3 DEF Op, Sid, Node

LEMMA ClockIs ==
  ASSUME Constants, now \in Nat, NEW n \in Nodes
  PROVE  Clock(n) \in Nat /\ now <= Clock(n) /\ Clock(n) <= now + MaxSkew
<1>1. Offset[n] \in Nat /\ Offset[n] <= MaxSkew /\ MaxSkew \in Nat
  BY DEF Constants
<1> QED BY <1>1 DEF Clock

-----------------------------------------------------------------------------
(***************************************************************************)
(* What every step leaves growing: no session comes back, no tombstone and *)
(* no last-seen time moves back.  Whatever is said of a call in terms of   *)
(* these stays true while the call itself does not move.                   *)
(***************************************************************************)
Grows ==
  /\ job' = job
  /\ now' \in Nat /\ now <= now'
  /\ \A s \in Sids :
       /\ row[s].st # "absent" => /\ row'[s].st # "absent"
                                  /\ row'[s].created = row[s].created
                                  /\ row[s].seen <= row'[s].seen
                                  /\ row'[s].st = "live" => row[s].st = "live"
       /\ endedAt'[s] = endedAt[s] \/ (endedAt[s] = None /\ endedAt'[s] = now')
       /\ tomb[s] <= tomb'[s]
       /\ ensured[s] \subseteq ensured'[s]

LEMMA CacheRecStays ==
  ASSUME Constants, Types, Types', Grows, NEW s \in Sids, NEW rec \in Recs, NEW fresh \in Nat,
         CacheRec(s, rec, fresh)
  PROVE  CacheRec(s, rec, fresh)'
<1>1. /\ endedAt[s] \in Nat \cup {None} /\ endedAt'[s] \in Nat \cup {None}
      /\ now \in Nat /\ now' \in Nat /\ now <= now'
      /\ row[s].seen \in Nat /\ row'[s].seen \in Nat /\ rec.seen \in Nat
  BY DEF Types, Grows, Row, Recs
<1>2. /\ MaxSkew \in Nat /\ CacheTtl \in Nat /\ None \notin Nat
  BY DEF Constants
<1>3. /\ endedAt'[s] = endedAt[s] \/ (endedAt[s] = None /\ endedAt'[s] = now')
      /\ row[s].st # "absent" => row'[s].st # "absent" /\ row[s].seen <= row'[s].seen
  BY DEF Grows
<1>4. /\ endedAt[s] = None => fresh <= now + MaxSkew + CacheTtl
      /\ endedAt[s] # None => fresh <= endedAt[s] + MaxSkew + CacheTtl
      /\ row[s].st # "absent" /\ rec.seen <= row[s].seen
  BY DEF CacheRec, FreshOK
<1>5. /\ endedAt'[s] = None => fresh <= now' + MaxSkew + CacheTtl
      /\ endedAt'[s] # None => fresh <= endedAt'[s] + MaxSkew + CacheTtl
      /\ row'[s].st # "absent" /\ rec.seen <= row'[s].seen
  <2>0. row'[s].st # "absent" /\ rec.seen <= row'[s].seen
    BY ONLY <1>1, <1>3, <1>4
  <2>1. CASE endedAt'[s] = endedAt[s] /\ endedAt[s] = None
    <3>1. fresh <= now + MaxSkew + CacheTtl
      BY <1>4, <2>1
    <3>2. fresh <= now' + MaxSkew + CacheTtl
      BY ONLY <1>1, <1>2, <3>1, fresh \in Nat
    <3> QED BY <2>0, <2>1, <3>2
  <2>2. CASE endedAt'[s] = endedAt[s] /\ endedAt[s] # None
    BY <1>4, <2>0, <2>2
  <2>3. CASE endedAt[s] = None /\ endedAt'[s] = now'
    <3>1. fresh <= now + MaxSkew + CacheTtl
      BY <1>4, <2>3
    <3>2. fresh <= now' + MaxSkew + CacheTtl
      BY ONLY <1>1, <1>2, <3>1, fresh \in Nat
    <3>3. endedAt'[s] # None /\ endedAt'[s] = now'
      BY <1>1, <1>2, <2>3
    <3> QED BY <2>0, <2>3, <3>2, <3>3
  <2> QED BY <1>3, <2>1, <2>2, <2>3
<1> QED BY <1>5 DEF CacheRec, FreshOK

\* An ended session keeps its tombstone.
LEMMA TombedStays ==
  ASSUME Constants, Types, Types', Grows, NEW s \in Sids, Tombed(s)
  PROVE  Tombed(s)'
<1>1. /\ endedAt[s] # None /\ tomb[s] >= endedAt[s] + 2 * CacheTtl
      /\ endedAt'[s] = endedAt[s] /\ tomb[s] <= tomb'[s]
      /\ tomb[s] \in Nat /\ tomb'[s] \in Nat /\ endedAt[s] \in Nat
  BY DEF Tombed, Grows, Types
<1>2. CacheTtl \in Nat
  BY DEF Constants
<1>3. tomb'[s] >= endedAt'[s] + 2 * CacheTtl
  BY ONLY <1>1, <1>2
<1> QED BY <1>1, <1>3 DEF Tombed

-----------------------------------------------------------------------------
(***************************************************************************)
(* What is said of a call, carried over a step.                            *)
(***************************************************************************)
Stands == Constants /\ Types /\ Types' /\ Grows /\ Cache

\* Someone was answered: the session's row has ended, for good.
LEMMA EnsuredEnded ==
  ASSUME Stands, NEW s \in Sids, ensured[s] # {}
  PROVE  Tombed(s) /\ endedAt[s] # None /\ endedAt[s] \in Nat /\ endedAt'[s] = endedAt[s]
<1>1. Tombed(s)
  BY DEF Stands, Cache, CacheOK
<1>2. endedAt[s] # None
  BY <1>1 DEF Tombed
<1>3. endedAt[s] \in Nat
  BY <1>2 DEF Stands, Types
<1>4. endedAt'[s] = endedAt[s]
  BY <1>2 DEF Stands, Grows
<1> QED BY <1>1, <1>2, <1>3, <1>4

LEMMA SameCall ==
  ASSUME Stands, NEW p \in Procs
  PROVE  /\ Op(p) \in Ops /\ Sid(p) \in Sids /\ Node(p) \in Nodes
         /\ Op(p)' = Op(p) /\ Sid(p)' = Sid(p) /\ Node(p)' = Node(p)
         /\ Clock(Node(p)) \in Nat /\ Clock(Node(p))' \in Nat
         /\ now <= Clock(Node(p)) /\ Clock(Node(p)) <= Clock(Node(p))'
         /\ Clock(Node(p)) <= now + MaxSkew
<1>1. job \in Jobs /\ job' = job /\ now \in Nat /\ now' \in Nat /\ now <= now' /\ Constants
  BY DEF Stands, Types, Grows
<1>2. Op(p) \in Ops /\ Sid(p) \in Sids /\ Node(p) \in Nodes
  BY <1>1, CallInfo
<1>3. Op(p)' = Op(p) /\ Sid(p)' = Sid(p) /\ Node(p)' = Node(p)
  BY <1>1 DEF Op, Sid, Node
<1>4. PICK n \in Nodes : n = Node(p)
  BY <1>2
<1>5. /\ Clock(n) \in Nat /\ now <= Clock(n) /\ Clock(n) <= now + MaxSkew
  BY <1>1, ClockIs
<1>6. Clock(n)' \in Nat /\ Clock(n) <= Clock(n)'
  BY <1>1 DEF Clock, Constants
<1>7. Clock(Node(p)) = Clock(n) /\ Clock(Node(p))' = Clock(n)'
  BY <1>3, <1>4 DEF Clock
<1> QED BY <1>2, <1>3, <1>5, <1>6, <1>7

LEMMA KnownStays ==
  ASSUME Stands, NEW p \in Procs, Known(p),
         proc'[p].must = proc[p].must, proc'[p].look = proc[p].look
  PROVE  Known(p)'
<1>1. PICK s \in Sids : s = Sid(p) /\ Sid(p)' = s
  BY SameCall
<1>2. proc[p].must \subseteq ensured[s] /\ ensured[s] \subseteq ensured'[s]
  BY <1>1 DEF Known, Stands, Grows
<1>3. ASSUME proc[p].must # {}, proc[p].look \in {"entry", "empty"}
      PROVE  now' >= endedAt'[s] + 2 * CacheTtl
  <2>1. endedAt[s] \in Nat /\ endedAt'[s] = endedAt[s]
    BY <1>2, <1>3, EnsuredEnded
  <2>2. now >= endedAt[s] + 2 * CacheTtl
    BY <1>1, <1>3 DEF Known
  <2>3. now \in Nat /\ now' \in Nat /\ now <= now' /\ CacheTtl \in Nat
    BY DEF Stands, Types, Grows, Constants
  <2> QED BY ONLY <2>1, <2>2, <2>3
<1> QED BY <1>1, <1>2, <1>3 DEF Known

LEMMA HeldStays ==
  ASSUME Stands, NEW p \in Procs, Held(p), proc'[p] = proc[p]
  PROVE  Held(p)'
<1>1. PICK s \in Sids : s = Sid(p) /\ Sid(p)' = s
  BY SameCall
<1>2. Clock(Node(p)) \in Nat /\ Clock(Node(p))' \in Nat /\ Clock(Node(p)) <= Clock(Node(p))'
  BY SameCall
<1>3. PICK r \in Call : r = proc[p] /\ r = proc'[p]
  BY DEF Stands, Types
<1>4. r.rec \in Recs /\ r.fresh \in Nat /\ r.cut \in Nat
  BY DEF Call
<1>5. CacheRec(s, r.rec, r.fresh) => CacheRec(s, r.rec, r.fresh)'
  BY <1>4, CacheRecStays DEF Stands
<1>6. r.fresh <= now + MaxSkew + CacheTtl => r.fresh <= now' + MaxSkew + CacheTtl
  BY <1>4 DEF Stands, Types, Grows, Constants
<1>7. r.cut <= Clock(Node(p)) => r.cut <= Clock(Node(p))'
  BY <1>2, <1>4
<1> DEFINE C == CacheRec(s, r.rec, r.fresh)
           K == Clock(Node(p))
<1>8. /\ r.pc = "judge" => r.look # "none"
      /\ r.pc = "judge" /\ r.look = "entry" => C
      /\ r.pc \in {"find", "wait", "touchHit"} => r.look \in {"entry", "empty", "error"}
      /\ r.pc = "find" => r.fresh <= now + MaxSkew + CacheTtl
      /\ r.pc \in Holding => r.must = {} /\ C
      /\ r.pc \in {"touchHit", "touchRead"} => r.cut <= K
  BY <1>1, <1>3 DEF Held
<1>9. C' <=> CacheRec(Sid(p), proc[p].rec, proc[p].fresh)'
  BY <1>1, <1>3 DEF CacheRec, FreshOK
<1> HIDE DEF C, K
<1>10. (C => C') /\ (r.cut <= K => r.cut <= K')
  BY <1>5, <1>7 DEF C, K
<1> QED BY <1>3, <1>6, <1>8, <1>9, <1>10 DEF Held, K

LEMMA AnsweredStays ==
  ASSUME Stands, NEW p \in Procs, Known(p), Answered(p),
         proc'[p].must = proc[p].must, proc'[p].look = proc[p].look,
         proc'[p].via = proc[p].via, proc'[p].served = proc[p].served
  PROVE  Answered(p)'
<1>1. PICK s \in Sids : s = Sid(p) /\ Sid(p)' = s
  BY SameCall
<1>2. Node(p)' = Node(p)
  BY SameCall
<1>3. PICK r \in Call : r = proc[p]
  BY DEF Stands, Types
<1>4. r.served \in Nat
  BY DEF Call
<1>5. SUFFICES ASSUME r.via # "none"
               PROVE  /\ r.served <= now'
                      /\ r.must # {} =>
                           /\ r.via = "joined" /\ Node(p) \notin r.must
                           /\ r.look = "error" \/ r.served >= endedAt'[s] + 2 * CacheTtl
                      /\ r.via = "hit" /\ endedAt'[s] # None
                           => r.served < endedAt'[s] + CacheTtl + MaxSkew
  BY <1>1, <1>2, <1>3 DEF Answered
<1>6. /\ r.served <= now
      /\ r.must # {} =>
           /\ r.via = "joined" /\ Node(p) \notin r.must
           /\ r.look = "error" \/ r.served >= endedAt[s] + 2 * CacheTtl
      /\ r.via = "hit" /\ endedAt[s] # None
           => r.served < endedAt[s] + CacheTtl + MaxSkew
  BY <1>1, <1>3, <1>5 DEF Answered
<1>7. now \in Nat /\ now' \in Nat /\ now <= now' /\ CacheTtl \in Nat /\ MaxSkew \in Nat
      /\ CacheTtl # 0 /\ None \notin Nat
      /\ (endedAt'[s] = endedAt[s] \/ endedAt'[s] = now')
  BY DEF Stands, Types, Grows, Constants
<1>8. r.served <= now'
  BY ONLY <1>4, <1>6, <1>7
<1>9. ASSUME r.must # {}
      PROVE  /\ r.via = "joined" /\ Node(p) \notin r.must
             /\ r.look = "error" \/ r.served >= endedAt'[s] + 2 * CacheTtl
  <2>1. ensured[s] # {}
    BY <1>1, <1>3, <1>9 DEF Known
  <2> QED BY <1>6, <1>9, <2>1, EnsuredEnded
<1>10. ASSUME r.via = "hit", endedAt'[s] # None
       PROVE  r.served < endedAt'[s] + CacheTtl + MaxSkew
  <2>1. CASE endedAt'[s] = endedAt[s]
    BY <1>6, <1>10, <2>1
  <2>2. CASE endedAt'[s] = now'
    <3>1. r.served < now' + CacheTtl + MaxSkew
      BY ONLY <1>4, <1>7, <1>8
    <3> QED BY <2>2, <3>1
  <2> QED BY <1>7, <2>1, <2>2
<1> QED BY <1>8, <1>9, <1>10

\* An end, and what is left of a realm-wide sweep.
LEMMA EndingStays ==
  ASSUME Stands, NEW p \in Procs, Ending(p), proc'[p] = proc[p]
  PROVE  Ending(p)'
<1>1. PICK r \in Call : r = proc[p] /\ r = proc'[p]
  BY DEF Stands, Types
<1>2. r.batch \subseteq Sids /\ r.took \subseteq Sids /\ r.cut \in Nat
  BY DEF Call
<1>3. Op(p)' = Op(p)
  BY SameCall
<1>4. \A s \in Sids : endedAt[s] # None => endedAt'[s] # None
  BY DEF Stands, Grows
<1>5. \A s \in Sids : Tombed(s) => Tombed(s)'
  BY TombedStays DEF Stands
<1>6. r.cut <= now + MaxSkew => r.cut <= now' + MaxSkew
  BY <1>2 DEF Stands, Types, Grows, Constants
<1> DEFINE T(s) == Tombed(s)
<1>7. /\ r.pc \in {"ended", "mark"} => \A s \in r.batch : endedAt[s] # None
      /\ r.pc = "mark" => r.sets \subseteq r.batch /\ r.took \subseteq r.batch
                          /\ \A s \in r.took : T(s)
      /\ r.pc # "mark" => r.took = {} /\ r.dels = {}
      /\ Op(p) = "lapsed" /\ r.pc \in {"end", "ended", "mark"} => r.cut <= now + MaxSkew
  BY <1>1 DEF Ending
<1>8. \A s \in Sids : T(s) => T(s)'
  BY <1>5
<1> HIDE DEF T
<1>9. /\ r.pc \in {"ended", "mark"} => \A s \in r.batch : endedAt'[s] # None
      /\ r.pc = "mark" => r.sets \subseteq r.batch /\ r.took \subseteq r.batch
                          /\ \A s \in r.took : T(s)'
      /\ r.pc # "mark" => r.took = {} /\ r.dels = {}
      /\ Op(p)' = "lapsed" /\ r.pc \in {"end", "ended", "mark"} => r.cut <= now' + MaxSkew
  BY <1>2, <1>3, <1>4, <1>6, <1>7, <1>8
<1> QED BY <1>1, <1>9 DEF Ending, T

\* What is owed and live was so before.
LEMMA OwedShrinks ==
  ASSUME Stands, NEW S \in SUBSET Sids, \A s \in S : row[s].st # "absent"
  PROVE  S \cap Live' \subseteq S \cap Live
BY DEF Stands, Grows, Live

LEMMA InReachStays ==
  ASSUME Stands, NEW p \in Procs, NEW s \in Sids, InReach(p, s),
         proc'[p].cut = proc[p].cut, proc'[p].since = proc[p].since
  PROVE  InReach(p, s)'
<1>1. /\ row[s].st # "absent" /\ row[s].created <= proc[p].cut
      /\ row[s].seen + SeenInterval >= proc[p].since
  BY DEF InReach
<1>2. row'[s].st # "absent" /\ row'[s].created = row[s].created /\ row[s].seen <= row'[s].seen
  BY <1>1 DEF Stands, Grows
<1>3. row[s].seen \in Nat /\ row'[s].seen \in Nat /\ SeenInterval \in Nat /\ proc[p].since \in Nat
  BY DEF Stands, Types, Row, Call, Constants
<1>4. row'[s].seen + SeenInterval >= proc[p].since
  BY ONLY <1>1, <1>2, <1>3
<1> QED BY <1>1, <1>2, <1>4 DEF InReach

\* A sweep that is done keeps what it owes; the others do not move.
LEMMA SweepingStays ==
  ASSUME Stands, NEW p \in Procs, Sweeping(p), proc'[p] = proc[p]
  PROVE  Sweeping(p)'
<1>1. PICK r \in Call : r = proc[p] /\ r = proc'[p]
  BY DEF Stands, Types
<1>2. r.owed \subseteq Sids
  BY DEF Call
<1>3. Op(p)' = Op(p)
  BY SameCall
<1>4. SUFFICES ASSUME Op(p) = "realm" PROVE Sweeping(p)'
  BY <1>3 DEF Sweeping
<1>5. r.owed \cap Live' \subseteq r.owed \cap Live /\ RowsOwed(p)'
  <2>1. \A s \in r.owed : row[s].st # "absent"
    BY <1>1, <1>4 DEF Sweeping, RowsOwed
  <2>2. \A s \in r.owed : row'[s].st # "absent"
    BY <1>2, <2>1 DEF Stands, Grows
  <2> QED BY <1>1, <1>2, <2>1, <2>2, OwedShrinks DEF RowsOwed
<1>6. \A s \in Sids : InReach(p, s) => InReach(p, s)'
  BY <1>1, InReachStays
<1> DEFINE I(s) == InReach(p, s)
<1>7. /\ r.pc \in {"end", "ended", "mark"} => \A s \in r.owed : I(s)
      /\ r.pc = "end" => \A s \in r.owed \cap Live : s > r.after
      /\ r.pc \in {"ended", "mark"} =>
           \A s \in r.owed \cap Live :
             Cardinality(r.batch) = Batch /\ \A t \in r.batch : s > t
      /\ r.pc = "done" /\ r.ans # "error" => r.owed \cap Live = {}
  BY <1>1, <1>4 DEF Sweeping
<1>8. \A s \in Sids : I(s) => I(s)'
  BY <1>6
<1> HIDE DEF I
<1>9. /\ r.pc \in {"end", "ended", "mark"} => \A s \in r.owed : I(s)'
      /\ r.pc = "end" => \A s \in r.owed \cap Live' : s > r.after
      /\ r.pc \in {"ended", "mark"} =>
           \A s \in r.owed \cap Live' :
             Cardinality(r.batch) = Batch /\ \A t \in r.batch : s > t
      /\ r.pc = "done" /\ r.ans # "error" => r.owed \cap Live' = {}
  BY <1>2, <1>5, <1>7, <1>8
<1> QED BY <1>1, <1>5, <1>9 DEF Sweeping, I

LEMMA BegunStays ==
  ASSUME Stands, NEW p \in Procs, Begun(p), proc'[p].pc = proc[p].pc
  PROVE  Begun(p)'
<1>1. Op(p)' = Op(p) /\ Sid(p)' = Sid(p) /\ Sid(p) \in Sids
  BY SameCall
<1>2. row[Sid(p)].st # "absent" => row'[Sid(p)].st # "absent"
  BY <1>1 DEF Stands, Grows
<1> QED BY <1>1, <1>2 DEF Begun

LEMMA CallStays ==
  ASSUME Stands, NEW p \in Procs, CallOK(p), proc'[p] = proc[p]
  PROVE  CallOK(p)'
<1>1. Kind(p)'
  BY SameCall DEF CallOK, Kind
<1> QED BY <1>1, KnownStays, HeldStays, AnsweredStays, EndingStays, SweepingStays,
       BegunStays DEF CallOK

\* Nothing an end or a lookup holds is in a call that is neither.
LEMMA Elsewhere ==
  ASSUME Stands, NEW p \in Procs,
         proc'[p].pc \notin {"judge", "find", "wait", "end", "ended", "mark"} \cup Holding,
         proc'[p].took = {}, proc'[p].dels = {}
  PROVE  Held(p)' /\ Ending(p)'
BY DEF Held, Ending, Holding

-----------------------------------------------------------------------------
(***************************************************************************)
(* Records of calls.                                                       *)
(***************************************************************************)
LEMMA IdleIs ==
  /\ Idle \in Call /\ Idle.pc = "start" /\ Idle.must = {} /\ Idle.pub = 0 /\ Idle.via = "none"
  /\ Idle.took = {} /\ Idle.dels = {} /\ Idle.sets = {} /\ Idle.batch = {} /\ Idle.owed = {}
  /\ Idle.look = "none" /\ Idle.ans = "none" /\ Idle.after = 0
<1>1. Idle.rec \in Recs /\ Idle.on \in Procs \cup {None}
  BY DEF Idle, NoRec, Recs
<1>2. "start" \in Pcs /\ "none" \in Looks /\ "none" \in Anss /\ "none" \in Vias
  BY DEF Pcs, Looks, Anss, Vias
<1> QED BY <1>1, <1>2 DEF Idle, Call, Recs

LEMMA FinishedIs ==
  ASSUME NEW r \in Call, NEW ans \in Anss
  PROVE  LET f == Finished(r, ans)
         IN  /\ f \in Call /\ f.pc = "done" /\ f.ans = ans
             /\ f.look = r.look /\ f.must = r.must /\ f.pub = r.pub /\ f.via = r.via
             /\ f.served = r.served /\ f.owed = r.owed /\ f.took = {} /\ f.dels = {}
             /\ ans = "kept" => f.rec = r.rec
<1> DEFINE f == Finished(r, ans)
<1>1. PICK v : v = IF ans = "kept" THEN r.rec ELSE NoRec
  OBVIOUS
<1>2. v \in Recs /\ (ans = "kept" => v = r.rec)
  BY <1>1 DEF Call, NoRec, Recs
<1>3. f = [Idle EXCEPT !.pc = "done", !.ans = ans, !.look = r.look, !.must = r.must,
                       !.pub = r.pub, !.via = r.via, !.served = r.served, !.rec = v,
                       !.owed = r.owed]
  BY <1>1 DEF Finished
<1>4. r.look \in Looks /\ r.must \in SUBSET Nodes
      /\ r.pub \in Nat /\ r.via \in Vias /\ r.served \in Nat /\ r.owed \in SUBSET Sids
  BY DEF Call
<1>5. Idle \in Call
  BY IdleIs
<1> HIDE DEF f
<1>6. f \in Call
  <2> DEFINE a == [Idle EXCEPT !.pc = "done", !.ans = ans, !.look = r.look]
             b == [a EXCEPT !.must = r.must, !.pub = r.pub, !.via = r.via]
  <2>1. a = [Idle EXCEPT !.pc = "done", !.ans = ans, !.look = r.look]
    OBVIOUS
  <2>2. b = [a EXCEPT !.must = r.must, !.pub = r.pub, !.via = r.via]
    OBVIOUS
  <2>3. f = [b EXCEPT !.served = r.served, !.rec = v, !.owed = r.owed]
    BY <1>3
  <2> HIDE DEF a, b
  <2>4. a \in Call
    <3>1. "done" \in Pcs
      BY DEF Pcs
    <3> QED BY ONLY <2>1, <3>1, <1>4, <1>5, ans \in Anss DEF Call
  <2>5. b \in Call
    BY ONLY <2>2, <2>4, <1>4 DEF Call
  <2> QED BY ONLY <2>3, <2>5, <1>2, <1>4 DEF Call
<1>7. /\ f.pc = "done" /\ f.ans = ans
      /\ f.look = r.look /\ f.must = r.must /\ f.pub = r.pub /\ f.via = r.via
      /\ f.served = r.served /\ f.owed = r.owed /\ f.took = {} /\ f.dels = {} /\ f.rec = v
  BY <1>3 DEF Idle
<1> QED BY <1>2, <1>6, <1>7 DEF f

LEMMA ServedIs ==
  ASSUME Types, NEW p \in Procs, NEW rec \in Recs, NEW via \in Vias,
         Op(p) \in {"get", "resolve", "create"}
  PROVE  LET f == Served(p, rec, via)
         IN  /\ f \in Call /\ f.pc \in {"epoch", "done"} /\ (f.pc = "epoch" => Op(p) = "resolve")
             /\ f.look = proc[p].look /\ f.must = proc[p].must /\ f.pub = proc[p].pub
             /\ f.took = {} /\ f.dels = {} /\ f.ans # "kept"
             /\ Op(p) \in Lookups => f.via = via /\ f.served = now
             /\ Op(p) = "create" => f.via = proc[p].via /\ f.served = proc[p].served
<1> DEFINE r == proc[p]
           g == [Idle EXCEPT !.pc = "epoch", !.look = r.look, !.must = r.must,
                             !.pub = r.pub, !.via = via, !.served = now, !.rec = rec]
           f == Served(p, rec, via)
<1>1. r \in Call /\ now \in Nat
  BY DEF Types
<1>2. r.look \in Looks /\ r.must \in SUBSET Nodes
      /\ r.pub \in Nat
  BY <1>1 DEF Call
<1>3. Idle \in Call
  BY IdleIs
<1>4. f = CASE Op(p) = "resolve" -> g
            [] Op(p) = "get" -> Finished(g, "live")
            [] Op(p) = "create" -> Finished(r, "created")
  BY DEF Served
<1> HIDE DEF f, r
<1>5. /\ g \in Call /\ g.pc = "epoch" /\ g.look = r.look /\ g.must = r.must /\ g.pub = r.pub
      /\ g.took = {} /\ g.dels = {} /\ g.ans = "none" /\ g.via = via /\ g.served = now
  <2>1. /\ g.pc = "epoch" /\ g.look = r.look /\ g.must = r.must /\ g.pub = r.pub
        /\ g.took = {} /\ g.dels = {} /\ g.ans = "none" /\ g.via = via /\ g.served = now
    BY DEF Idle
  <2>2. PICK a : a = [Idle EXCEPT !.pc = "epoch", !.look = r.look, !.must = r.must]
    OBVIOUS
  <2>3. PICK b : b = [a EXCEPT !.pub = r.pub, !.via = via]
    OBVIOUS
  <2>4. g = [b EXCEPT !.served = now, !.rec = rec]
    BY <2>2, <2>3
  <2>5. a \in Call
    <3>1. "epoch" \in Pcs
      BY DEF Pcs
    <3> QED BY ONLY <2>2, <3>1, <1>2, <1>3 DEF Call
  <2>6. b \in Call
    BY ONLY <2>3, <2>5, <1>2, via \in Vias DEF Call
  <2>7. g \in Call
    <3> HIDE DEF g
    <3> QED BY ONLY <2>4, <2>6, <1>1, rec \in Recs DEF Call
  <2> QED BY <2>1, <2>7
<1> HIDE DEF g
<1>6. CASE Op(p) = "resolve"
  <2>1. f = g
    BY <1>4, <1>6
  <2> QED BY <1>5, <1>6, <2>1 DEF r, f, Lookups
<1>7. CASE Op(p) = "get"
  <2>1. f = Finished(g, "live")
    BY <1>4, <1>7
  <2>2. /\ f \in Call /\ f.pc = "done" /\ f.ans = "live"
        /\ f.look = g.look /\ f.must = g.must /\ f.pub = g.pub /\ f.via = g.via
        /\ f.served = g.served /\ f.took = {} /\ f.dels = {}
    BY <1>5, <2>1, FinishedIs DEF Anss
  <2> QED BY <1>5, <1>7, <2>2 DEF r, f, Lookups
<1>8. CASE Op(p) = "create"
  <2>1. f = Finished(r, "created")
    BY <1>4, <1>8
  <2>2. /\ f \in Call /\ f.pc = "done" /\ f.ans = "created"
        /\ f.look = r.look /\ f.must = r.must /\ f.pub = r.pub /\ f.via = r.via
        /\ f.served = r.served /\ f.took = {} /\ f.dels = {}
    BY <1>1, <2>1, FinishedIs DEF Anss
  <2> QED BY <1>5, <1>8, <2>2 DEF r, f, Lookups
<1> QED BY <1>6, <1>7, <1>8

\* The part of a call that a lookup's own steps leave alone.
Same(q, r) ==
  /\ q.must = r.must /\ q.pub = r.pub /\ q.via = r.via /\ q.served = r.served
  /\ q.took = r.took /\ q.dels = r.dels /\ q.owed = r.owed /\ q.ans = r.ans
  /\ q.after = r.after /\ q.since = r.since /\ q.sets = r.sets

LEMMA SetPc ==
  ASSUME NEW r \in Call, NEW pc \in Pcs
  PROVE  LET q == [r EXCEPT !.pc = pc]
         IN  /\ q \in Call /\ Same(q, r) /\ q.pc = pc /\ q.look = r.look /\ q.rec = r.rec
             /\ q.fresh = r.fresh /\ q.fill = r.fill /\ q.on = r.on /\ q.cut = r.cut
             /\ q.batch = r.batch
BY DEF Call, Same

LEMMA SetLook ==
  ASSUME NEW r \in Call, NEW look \in Looks
  PROVE  LET q == [r EXCEPT !.look = look]
         IN  /\ q \in Call /\ Same(q, r) /\ q.pc = r.pc /\ q.look = look /\ q.rec = r.rec
             /\ q.fresh = r.fresh /\ q.fill = r.fill /\ q.on = r.on /\ q.cut = r.cut
             /\ q.batch = r.batch
BY DEF Call, Same

LEMMA SetRec ==
  ASSUME NEW r \in Call, NEW rec \in Recs
  PROVE  LET q == [r EXCEPT !.rec = rec]
         IN  /\ q \in Call /\ Same(q, r) /\ q.pc = r.pc /\ q.look = r.look /\ q.rec = rec
             /\ q.fresh = r.fresh /\ q.fill = r.fill /\ q.on = r.on /\ q.cut = r.cut
             /\ q.batch = r.batch
BY DEF Call, Same

LEMMA SetFresh ==
  ASSUME NEW r \in Call, NEW fresh \in Nat
  PROVE  LET q == [r EXCEPT !.fresh = fresh]
         IN  /\ q \in Call /\ Same(q, r) /\ q.pc = r.pc /\ q.look = r.look /\ q.rec = r.rec
             /\ q.fresh = fresh /\ q.fill = r.fill /\ q.on = r.on /\ q.cut = r.cut
             /\ q.batch = r.batch
BY DEF Call, Same

LEMMA SetFill ==
  ASSUME NEW r \in Call, NEW fill \in BOOLEAN
  PROVE  LET q == [r EXCEPT !.fill = fill]
         IN  /\ q \in Call /\ Same(q, r) /\ q.pc = r.pc /\ q.look = r.look /\ q.rec = r.rec
             /\ q.fresh = r.fresh /\ q.fill = fill /\ q.on = r.on /\ q.cut = r.cut
             /\ q.batch = r.batch
BY DEF Call, Same

LEMMA SetOn ==
  ASSUME NEW r \in Call, NEW on \in Procs
  PROVE  LET q == [r EXCEPT !.on = on]
         IN  /\ q \in Call /\ Same(q, r) /\ q.pc = r.pc /\ q.look = r.look /\ q.rec = r.rec
             /\ q.fresh = r.fresh /\ q.fill = r.fill /\ q.on = on /\ q.cut = r.cut
             /\ q.batch = r.batch
BY DEF Call, Same

LEMMA SetCut ==
  ASSUME NEW r \in Call, NEW cut \in Nat
  PROVE  LET q == [r EXCEPT !.cut = cut]
         IN  /\ q \in Call /\ Same(q, r) /\ q.pc = r.pc /\ q.look = r.look /\ q.rec = r.rec
             /\ q.fresh = r.fresh /\ q.fill = r.fill /\ q.on = r.on /\ q.cut = cut
             /\ q.batch = r.batch
BY DEF Call, Same

\* One call moves.
LEMMA Moved ==
  ASSUME Types, NEW p \in Procs, NEW r \in Call, proc' = [proc EXCEPT ![p] = r]
  PROVE  /\ proc' \in [Procs -> Call] /\ proc'[p] = r
         /\ \A q \in Procs : q # p => proc'[q] = proc[q]
BY DEF Types

-----------------------------------------------------------------------------
(***************************************************************************)
(* The answer of the shared work.                                          *)
(***************************************************************************)
Mates(p) == {q \in Procs : proc[q].pc = "wait" /\ proc[q].on = p}

\* What a call that was answered looks like.
Told(q, live, via) ==
  /\ proc'[q].pc \in {"epoch", "done"} /\ (proc'[q].pc = "epoch" => Op(q) = "resolve")
  /\ proc'[q].look = proc[q].look /\ proc'[q].must = proc[q].must /\ proc'[q].pub = proc[q].pub
  /\ proc'[q].took = {} /\ proc'[q].dels = {} /\ proc'[q].ans # "kept"
  /\ ~live => proc'[q].pc = "done"
  /\ IF live /\ Op(q) \in Lookups
       THEN proc'[q].via = via /\ proc'[q].served = now
       ELSE proc'[q].via = proc[q].via /\ proc'[q].served = proc[q].served

LEMMA AnswerMoves ==
  ASSUME Types, Calls, NEW p \in Procs, NEW live \in BOOLEAN, NEW rec \in Recs,
         Op(p) \in {"get", "resolve", "create"}, Answer(p, live, rec)
  PROVE  /\ proc' \in [Procs -> Call]
         /\ \A q \in Procs : q # p /\ q \notin Mates(p) => proc'[q] = proc[q]
         /\ Told(p, live, "read")
         /\ \A q \in Mates(p) : q # p => Told(q, live, "joined")
         /\ \A q \in Mates(p) : Op(q) \in Lookups
<1> DEFINE new(q, via) == IF live THEN Served(q, rec, via) ELSE Finished(proc[q], "absent")
           via(q) == IF q = p THEN "read" ELSE "joined"
<1>1. proc' = [q \in Procs |->
        IF q = p \/ (proc[q].pc = "wait" /\ proc[q].on = p) THEN new(q, via(q)) ELSE proc[q]]
  BY DEF Answer
<1>2. ASSUME NEW q \in Procs, NEW v \in Vias, Op(q) \in {"get", "resolve", "create"},
             proc'[q] = new(q, v)
      PROVE  Told(q, live, v) /\ proc'[q] \in Call
  <2>1. CASE live
    <3>1. proc'[q] = Served(q, rec, v)
      BY <1>2, <2>1
    <3> HIDE DEF new
    <3>2. /\ proc'[q] \in Call /\ proc'[q].pc \in {"epoch", "done"}
          /\ (proc'[q].pc = "epoch" => Op(q) = "resolve")
          /\ proc'[q].look = proc[q].look /\ proc'[q].must = proc[q].must
          /\ proc'[q].pub = proc[q].pub
          /\ proc'[q].took = {} /\ proc'[q].dels = {} /\ proc'[q].ans # "kept"
          /\ Op(q) \in Lookups => proc'[q].via = v /\ proc'[q].served = now
          /\ Op(q) = "create" => proc'[q].via = proc[q].via /\ proc'[q].served = proc[q].served
      BY <1>2, <3>1, ServedIs
    <3> QED BY <1>2, <2>1, <3>2 DEF Told, Lookups
  <2>2. CASE ~live
    <3>1. proc'[q] = Finished(proc[q], "absent") /\ proc[q] \in Call
      BY <1>2, <2>2 DEF Types
    <3> HIDE DEF new
    <3>2. /\ proc'[q] \in Call /\ proc'[q].pc = "done" /\ proc'[q].ans = "absent"
          /\ proc'[q].look = proc[q].look /\ proc'[q].must = proc[q].must
          /\ proc'[q].pub = proc[q].pub /\ proc'[q].via = proc[q].via
          /\ proc'[q].served = proc[q].served /\ proc'[q].took = {} /\ proc'[q].dels = {}
      BY <3>1, FinishedIs DEF Anss
    <3> QED BY <2>2, <3>2 DEF Told
  <2> QED BY <2>1, <2>2
<1>3. \A q \in Mates(p) : Op(q) \in Lookups /\ q \in Procs
  BY DEF Mates, Calls, CallOK, Kind, Lookups
<1>4. \A q \in Procs : q = p \/ q \in Mates(p) => proc'[q] = new(q, via(q))
  BY <1>1 DEF Mates
<1>5. \A q \in Procs : q # p /\ q \notin Mates(p) => proc'[q] = proc[q]
  BY <1>1 DEF Mates
<1>6. via(p) = "read" /\ \A q \in Procs : q # p => via(q) = "joined"
  OBVIOUS
<1> HIDE DEF new, via
<1>7. Told(p, live, "read") /\ proc'[p] \in Call
  BY <1>2, <1>4, <1>6 DEF Vias
<1>8. \A q \in Mates(p) : q # p => Told(q, live, "joined") /\ proc'[q] \in Call
  BY <1>2, <1>3, <1>4, <1>6 DEF Vias, Lookups
<1>9. \A q \in Procs : proc'[q] \in Call
  BY <1>5, <1>7, <1>8 DEF Types
<1>10. \E f : proc' = [q \in Procs |-> f[q]]
  BY <1>1
<1>11. proc' \in [Procs -> Call]
  BY <1>9, <1>10
<1> QED BY <1>3, <1>5, <1>7, <1>8, <1>11

LEMMA AnswerFlights ==
  ASSUME Types, Calls, Flights, NEW p \in Procs, NEW live \in BOOLEAN, NEW rec \in Recs,
         Op(p) \in {"get", "resolve", "create"}, Node(p) \in Nodes, Sid(p) \in Sids,
         Answer(p, live, rec), job' = job, ensured' = ensured, None \notin Procs
  PROVE  Flights' /\ inFlight' \in [Nodes -> [Sids -> Procs \cup {None}]]
<1>1. \A q \in Procs : q # p /\ q \notin Mates(p) => proc'[q] = proc[q]
  BY AnswerMoves
<1>2. \A q \in Mates(p) \cup {p} : proc'[q].pc \in {"epoch", "done"}
  BY AnswerMoves DEF Told
<1>3. inFlight' = [inFlight EXCEPT ![Node(p)][Sid(p)] =
                     IF inFlight[Node(p)][Sid(p)] = p THEN None ELSE inFlight[Node(p)][Sid(p)]]
  BY DEF Answer
<1>4. inFlight' \in [Nodes -> [Sids -> Procs \cup {None}]]
  BY <1>3 DEF Types
<1>5. \A n \in Nodes, s \in Sids :
        inFlight'[n][s] = None \/ (inFlight'[n][s] = inFlight[n][s] /\ inFlight[n][s] # p)
  <2> TAKE n \in Nodes, s \in Sids
  <2>1. CASE n = Node(p) /\ s = Sid(p)
    BY <1>3, <2>1 DEF Types
  <2>2. CASE ~(n = Node(p) /\ s = Sid(p))
    <3>1. inFlight'[n][s] = inFlight[n][s]
      BY <1>3, <2>2 DEF Types
    <3>2. inFlight[n][s] # None => Node(inFlight[n][s]) = n /\ Sid(inFlight[n][s]) = s
      BY DEF Flights, FlightOK
    <3> QED BY <2>2, <3>1, <3>2
  <2> QED BY <2>1, <2>2
<1>6. \A q \in Procs : q # p /\ proc[q].pc \in Working => proc'[q] = proc[q]
  BY <1>1 DEF Mates, Working
<1>7. \A q \in Procs : /\ Op(q)' = Op(q) /\ Node(q)' = Node(q) /\ Sid(q)' = Sid(q)
  BY DEF Op, Node, Sid
<1>8. ASSUME NEW n \in Nodes, NEW s \in Sids PROVE FlightOK(n, s)'
  <2>1. SUFFICES ASSUME inFlight'[n][s] # None PROVE FlightOK(n, s)'
    BY DEF FlightOK
  <2>2. PICK q \in Procs : q = inFlight[n][s] /\ q = inFlight'[n][s] /\ q # p
    BY <1>5, <2>1 DEF Types
  <2>3. /\ Node(q) = n /\ Sid(q) = s /\ Op(q) \in Lookups /\ proc[q].pc \in Working
        /\ n \in ensured[s] => proc[q].pc \in Fruitless
    BY <2>1, <2>2 DEF Flights, FlightOK
  <2>4. proc'[q] = proc[q]
    BY <1>6, <2>2, <2>3
  <2>5. Node(q)' = n /\ Sid(q)' = s /\ Op(q)' \in Lookups
    BY <1>7, <2>3
  <2>6. Node(inFlight[n][s])' = Node(q)' /\ Sid(inFlight[n][s])' = Sid(q)'
        /\ Op(inFlight[n][s])' = Op(q)'
    BY <2>2 DEF Node, Sid, Op
  <2> QED BY <2>2, <2>3, <2>4, <2>5, <2>6 DEF FlightOK
<1>9. ASSUME NEW q \in Procs PROVE WaitOK(q)'
  <2>1. SUFFICES ASSUME proc'[q].pc = "wait" PROVE WaitOK(q)'
    BY DEF WaitOK
  <2>2. q # p /\ q \notin Mates(p) /\ proc'[q] = proc[q]
    BY <1>1, <1>2, <2>1
  <2>3. PICK o \in Procs : o = proc[q].on /\ o # p
    BY <2>1, <2>2 DEF Flights, WaitOK, Mates
  <2>4. /\ Node(o) = Node(q) /\ Sid(o) = Sid(q) /\ Op(o) \in Lookups /\ proc[o].pc \in Working
        /\ Node(q) \in proc[q].must => proc[o].pc \in Fruitless
    BY <2>1, <2>2, <2>3 DEF Flights, WaitOK
  <2>5. proc'[o] = proc[o]
    BY <1>6, <2>3, <2>4
  <2>6. /\ Node(o)' = Node(q)' /\ Sid(o)' = Sid(q)' /\ Op(o)' \in Lookups /\ Node(q)' = Node(q)
    BY <1>7, <2>4
  <2>7. proc'[q].on = o
    BY <2>2, <2>3
  <2>8. Node(proc[q].on)' = Node(o)' /\ Sid(proc[q].on)' = Sid(o)' /\ Op(proc[q].on)' = Op(o)'
    BY <2>7 DEF Node, Sid, Op
  <2> QED BY <2>2, <2>4, <2>5, <2>6, <2>7, <2>8 DEF WaitOK
<1>10. ASSUME NEW q \in Procs PROVE MarkOK(q)'
  <2>1. SUFFICES ASSUME proc'[q].pc = "mark" PROVE MarkOK(q)'
    BY DEF MarkOK
  <2>2. proc'[q] = proc[q] /\ Node(q)' = Node(q) /\ Node(q) \in Nodes /\ proc[q].batch \subseteq Sids
    <3>1. proc'[q] = proc[q]
      BY <1>1, <1>2, <2>1
    <3>2. Node(q) \in Nodes
      BY CallInfo DEF Types
    <3>3. proc[q] \in Call
      BY DEF Types
    <3> QED BY <1>7, <3>1, <3>2, <3>3 DEF Call
  <2>3. ASSUME NEW s \in proc[q].batch, inFlight'[Node(q)][s] # None
        PROVE  proc'[inFlight'[Node(q)][s]].pc \in Fruitless
    <3>1. PICK o \in Procs : /\ o = inFlight[Node(q)][s] /\ o = inFlight'[Node(q)][s] /\ o # p
      BY <1>5, <2>2, <2>3 DEF Types
    <3>2. proc[o].pc \in Fruitless
      BY <2>1, <2>2, <2>3, <3>1 DEF Flights, MarkOK
    <3>3. proc[o].pc \in Working
      BY <3>2 DEF Fruitless, Working
    <3> QED BY <1>6, <3>1, <3>2, <3>3
  <2> QED BY <2>2, <2>3 DEF MarkOK
<1> QED BY <1>4, <1>8, <1>9, <1>10 DEF Flights

\* The calls after an answer.
LEMMA AnswerCalls ==
  ASSUME Stands, Calls, Flights, NEW p \in Procs, NEW live \in BOOLEAN, NEW rec \in Recs,
         Op(p) \in {"get", "resolve", "create"}, Answer(p, live, rec),
         live => proc[p].pc \in {"fill", "answer"}
  PROVE  Calls'
<1>1. /\ \A q \in Procs : q # p /\ q \notin Mates(p) => proc'[q] = proc[q]
      /\ Told(p, live, "read")
      /\ \A q \in Mates(p) : q # p => Told(q, live, "joined")
      /\ \A q \in Mates(p) : Op(q) \in Lookups
  BY AnswerMoves DEF Stands
<1>2. ASSUME NEW q \in Procs, NEW via \in Vias, Told(q, live, via),
             Op(q) \in {"get", "resolve", "create"},
             live /\ Op(q) \in Lookups /\ proc[q].must # {} =>
               /\ via = "joined" /\ Node(q) \notin proc[q].must
               /\ proc[q].look = "error" \/ now >= endedAt[Sid(q)] + 2 * CacheTtl,
             via # "hit", live => row[Sid(q)].st # "absent"
      PROVE  CallOK(q)'
  <2>1. CallOK(q)
    BY DEF Calls
  <2>2. /\ proc'[q].pc \in {"epoch", "done"} /\ (proc'[q].pc = "epoch" => Op(q) = "resolve")
        /\ proc'[q].look = proc[q].look /\ proc'[q].must = proc[q].must
        /\ proc'[q].took = {} /\ proc'[q].dels = {}
    BY <1>2 DEF Told
  <2>3. Op(q)' = Op(q) /\ Node(q)' = Node(q) /\ Sid(q)' = Sid(q) /\ Sid(q) \in Sids
    BY SameCall
  <2>4. Kind(q)' /\ Sweeping(q)'
    BY <1>2, <2>2, <2>3 DEF Kind, Sweeping
  <2>5. Known(q)'
    BY <2>1, <2>2, KnownStays DEF CallOK
  <2>6. Held(q)' /\ Ending(q)'
    BY <2>2, Elsewhere DEF Holding
  <2>7. Answered(q)'
    <3>1. CASE live /\ Op(q) \in Lookups
      <4>1. proc'[q].via = via /\ proc'[q].served = now
        BY <1>2, <3>1 DEF Told
      <4>2. now <= now'
        BY DEF Stands, Grows
      <4>3. ASSUME proc'[q].must # {}
            PROVE  /\ via = "joined" /\ Node(q) \notin proc'[q].must
                   /\ proc'[q].look = "error" \/ now >= endedAt'[Sid(q)] + 2 * CacheTtl
        <5>1. ensured[Sid(q)] # {}
          BY <2>1, <2>2, <4>3 DEF CallOK, Known
        <5>2. endedAt'[Sid(q)] = endedAt[Sid(q)]
          BY <2>3, <5>1, EnsuredEnded
        <5> QED BY <1>2, <2>2, <3>1, <4>3, <5>2
      <4> QED BY <1>2, <2>3, <4>1, <4>2, <4>3 DEF Answered
    <3>2. CASE ~(live /\ Op(q) \in Lookups)
      <4>1. proc'[q].via = proc[q].via /\ proc'[q].served = proc[q].served
        BY <1>2, <3>2 DEF Told
      <4> QED BY <2>1, <2>2, <4>1, AnsweredStays DEF CallOK
    <3> QED BY <3>1, <3>2
  <2>8. Begun(q)'
    <3>1. row[Sid(q)].st # "absent" => row'[Sid(q)].st # "absent"
      BY <2>3 DEF Stands, Grows
    <3> QED BY <1>2, <2>3, <3>1 DEF Begun, Told
  <2> QED BY <2>4, <2>5, <2>6, <2>7, <2>8 DEF CallOK
<1>3. CallOK(p)'
  <2>1. live => proc[p].must = {} /\ row[Sid(p)].st # "absent"
    BY DEF Calls, CallOK, Held, Holding, CacheRec
  <2> QED BY <1>1, <1>2, <2>1 DEF Vias
<1>4. ASSUME NEW q \in Mates(p), q # p PROVE CallOK(q)'
  <2>1. q \in Procs /\ proc[q].pc = "wait" /\ proc[q].on = p
    BY DEF Mates
  <2>2. ASSUME live, proc[q].must # {}
        PROVE  /\ Node(q) \notin proc[q].must
               /\ proc[q].look = "error" \/ now >= endedAt[Sid(q)] + 2 * CacheTtl
    <3>1. proc[p].pc \notin Fruitless
      BY <2>2 DEF Fruitless
    <3>2. Node(q) \notin proc[q].must
      BY <2>1, <3>1 DEF Flights, WaitOK
    <3>3. proc[q].look \in {"entry", "empty", "error"}
      BY <2>1 DEF Calls, CallOK, Held
    <3>4. proc[q].look \in {"entry", "empty"} => now >= endedAt[Sid(q)] + 2 * CacheTtl
      BY <2>1, <2>2 DEF Calls, CallOK, Known
    <3> QED BY <3>2, <3>3, <3>4
  <2>3. Op(q) \in {"get", "resolve", "create"} /\ Told(q, live, "joined") /\ "joined" \in Vias
    BY <1>1, <1>4 DEF Lookups, Vias
  <2>4. live => row[Sid(q)].st # "absent"
    <3>1. live => row[Sid(p)].st # "absent"
      BY DEF Calls, CallOK, Held, Holding, CacheRec
    <3> QED BY <2>1, <3>1 DEF Flights, WaitOK
  <2> QED BY <1>2, <2>1, <2>2, <2>3, <2>4
<1>5. ASSUME NEW q \in Procs, q # p, q \notin Mates(p) PROVE CallOK(q)'
  BY <1>1, <1>5, CallStays DEF Calls
<1> QED BY <1>3, <1>4, <1>5 DEF Calls

-----------------------------------------------------------------------------
(***************************************************************************)
(* One call moves and the shared reads stay as they are.                   *)
(***************************************************************************)
Alone(p) == \A q \in Procs : q # p => proc'[q] = proc[q]

LEMMA AloneFlights ==
  ASSUME Stands, Flights, Calls, NEW p \in Procs, Alone(p), UNCHANGED <<inFlight, ensured>>,
         proc[p].pc \notin Working \/
           ( /\ proc'[p].pc \in Working
             /\ proc[p].pc \in Fruitless /\ proc'[p].pc \notin Fruitless
                  => endedAt[Sid(p)] = None ),
         proc'[p].pc # "wait",
         proc'[p].pc = "mark" => proc[p].pc = "mark" /\ proc'[p].batch = proc[p].batch
  PROVE  Flights'
<1>1. \A q \in Procs : /\ Op(q)' = Op(q) /\ Node(q)' = Node(q) /\ Sid(q)' = Sid(q)
                       /\ Node(q) \in Nodes /\ Sid(q) \in Sids
  BY SameCall
<1>2. \A q \in Procs : q # p => proc'[q] = proc[q]
  BY DEF Alone
<1>3. \A q \in Procs : proc[q].pc \in Working => proc'[q].pc \in Working
  BY <1>2
<1>4. \A q \in Procs : proc[q].pc \in Fruitless /\ endedAt[Sid(q)] # None
                         => proc'[q].pc \in Fruitless
  <2>1. Fruitless \subseteq Working
    BY DEF Fruitless, Working
  <2> QED BY <1>2, <2>1
<1>5. \A s \in Sids : ensured[s] # {} => endedAt[s] # None
  BY EnsuredEnded
<1>6. ASSUME NEW n \in Nodes, NEW s \in Sids PROVE FlightOK(n, s)'
  <2>1. SUFFICES ASSUME inFlight[n][s] # None PROVE FlightOK(n, s)'
    BY DEF FlightOK
  <2>2. PICK q \in Procs : q = inFlight[n][s]
    BY <2>1 DEF Stands, Types
  <2>3. /\ Node(q) = n /\ Sid(q) = s /\ Op(q) \in Lookups /\ proc[q].pc \in Working
        /\ n \in ensured[s] => proc[q].pc \in Fruitless
    BY <2>1, <2>2 DEF Flights, FlightOK
  <2>4. n \in ensured[s] => proc'[q].pc \in Fruitless
    BY <1>4, <1>5, <2>3
  <2>5. Node(q)' = n /\ Sid(q)' = s /\ Op(q)' \in Lookups
    BY <1>1, <2>3
  <2>6. Node(inFlight[n][s])' = Node(q)' /\ Sid(inFlight[n][s])' = Sid(q)'
        /\ Op(inFlight[n][s])' = Op(q)' /\ inFlight'[n][s] = q
    BY <2>2 DEF Node, Sid, Op
  <2> QED BY <1>3, <2>3, <2>4, <2>5, <2>6 DEF FlightOK
<1>7. ASSUME NEW q \in Procs PROVE WaitOK(q)'
  <2>1. SUFFICES ASSUME proc'[q].pc = "wait" PROVE WaitOK(q)'
    BY DEF WaitOK
  <2>2. q # p /\ proc'[q] = proc[q]
    BY <1>2, <2>1
  <2>3. PICK o \in Procs : o = proc[q].on
    BY <2>1, <2>2 DEF Flights, WaitOK
  <2>4. /\ Node(o) = Node(q) /\ Sid(o) = Sid(q) /\ Op(o) \in Lookups /\ proc[o].pc \in Working
        /\ Node(q) \in proc[q].must => proc[o].pc \in Fruitless
    BY <2>1, <2>2, <2>3 DEF Flights, WaitOK
  <2>5. Node(q) \in proc[q].must => proc'[o].pc \in Fruitless
    <3>1. proc[q].must \subseteq ensured[Sid(q)]
      BY DEF Calls, CallOK, Known
    <3>2. Node(q) \in proc[q].must => endedAt[Sid(o)] # None
      BY <1>1, <1>5, <2>4, <3>1
    <3> QED BY <1>4, <2>4, <3>2
  <2>6. /\ Node(o)' = Node(q)' /\ Sid(o)' = Sid(q)' /\ Op(o)' \in Lookups /\ Node(q)' = Node(q)
    BY <1>1, <2>4
  <2>7. proc'[q].on = o
    BY <2>2, <2>3
  <2>8. Node(proc[q].on)' = Node(o)' /\ Sid(proc[q].on)' = Sid(o)' /\ Op(proc[q].on)' = Op(o)'
    BY <2>7 DEF Node, Sid, Op
  <2> QED BY <1>3, <2>2, <2>4, <2>5, <2>6, <2>7, <2>8 DEF WaitOK
<1>8. ASSUME NEW q \in Procs PROVE MarkOK(q)'
  <2>1. SUFFICES ASSUME proc'[q].pc = "mark" PROVE MarkOK(q)'
    BY DEF MarkOK
  <2>2. proc[q].pc = "mark" /\ proc'[q].batch = proc[q].batch
    BY <1>2, <2>1
  <2>3. Node(q)' = Node(q) /\ Node(q) \in Nodes /\ proc[q].batch \subseteq Sids
    <3>1. proc[q] \in Call
      BY DEF Stands, Types
    <3> QED BY <1>1, <3>1 DEF Call
  <2>4. ASSUME NEW s \in proc[q].batch, inFlight[Node(q)][s] # None
        PROVE  proc'[inFlight[Node(q)][s]].pc \in Fruitless
    <3>1. PICK o \in Procs : o = inFlight[Node(q)][s]
      BY <2>3, <2>4 DEF Stands, Types
    <3>2. proc[o].pc \in Fruitless
      BY <2>2, <2>4, <3>1 DEF Flights, MarkOK
    <3>3. Sid(o) = s
      BY <2>3, <2>4, <3>1 DEF Flights, FlightOK
    <3>4. endedAt[s] # None
      BY <2>2 DEF Calls, CallOK, Ending
    <3> QED BY <1>4, <3>1, <3>2, <3>3, <3>4
  <2> QED BY <2>2, <2>3, <2>4 DEF MarkOK
<1> QED BY <1>6, <1>7, <1>8 DEF Flights

\* The other calls, and the rows and the cache where nothing is written.
LEMMA AloneCalls ==
  ASSUME Stands, Calls, NEW p \in Procs, Alone(p), CallOK(p)'
  PROVE  Calls'
BY CallStays DEF Calls, Alone

LEMMA RowsStay ==
  ASSUME Constants, Types, Types', Rows, now <= now', UNCHANGED <<row, used, endedAt>>
  PROVE  Rows'
<1> SUFFICES ASSUME NEW s \in Sids PROVE RowOK(s)'
  BY DEF Rows
<1>1. RowOK(s)
  BY DEF Rows
<1>2. /\ endedAt[s] # None => endedAt[s] \in Nat
      /\ now \in Nat /\ now' \in Nat /\ MaxSkew \in Nat /\ row[s].created \in Nat
  BY DEF Types, Constants, Row
<1>3. /\ endedAt[s] # None => endedAt[s] <= now'
      /\ row[s].st # "absent" => row[s].created <= now' + MaxSkew
  BY <1>1, <1>2 DEF RowOK
<1> QED BY <1>1, <1>3 DEF RowOK, lastSeenInterval

LEMMA CacheStays ==
  ASSUME Stands, Rows, UNCHANGED <<entry, tomb, late, ensured>>
  PROVE  Cache'
<1>1. \A s \in Sids, rec \in Recs, fresh \in Nat : CacheRec(s, rec, fresh) => CacheRec(s, rec, fresh)'
  BY CacheRecStays DEF Stands
<1>2. ASSUME NEW s \in Sids PROVE CacheOK(s)'
  <2>1. CacheOK(s)
    BY DEF Stands, Cache
  <2>2. PICK rec \in Recs, fresh \in Nat : rec = entry[s].rec /\ fresh = entry[s].fresh
    BY DEF Stands, Types
  <2>3. entry[s].dies # 0 => CacheRec(s, rec, fresh)'
    BY <1>1, <2>1, <2>2 DEF CacheOK
  <2>4. CacheRec(s, rec, fresh)' => CacheRec(s, entry[s].rec, entry[s].fresh)'
    BY <2>2 DEF CacheRec, FreshOK
  <2>5. tomb[s] <= now' + 2 * CacheTtl
    <3>1. tomb[s] <= now + 2 * CacheTtl /\ tomb[s] \in Nat /\ now \in Nat /\ now' \in Nat
          /\ now <= now' /\ CacheTtl \in Nat
      BY <2>1 DEF CacheOK, Stands, Types, Grows, Constants
    <3> QED BY ONLY <3>1
  <2>6. ensured[s] # {} => Tombed(s)'
    BY TombedStays, EnsuredEnded DEF Stands
  <2> QED BY <2>3, <2>4, <2>5, <2>6 DEF CacheOK
<1>3. ASSUME NEW l \in late PROVE LateOK(l)'
  <2>1. LateOK(l)
    BY DEF Stands, Cache
  <2> QED BY <1>1, <2>1 DEF LateOK
<1> QED BY <1>2, <1>3 DEF Cache

-----------------------------------------------------------------------------
(***************************************************************************)
(* Steps that move one call and write neither rows nor entries nor         *)
(* tombstones.                                                             *)
(***************************************************************************)
EpochTyped == epoch \in Nat /\ published \in CachedEpoch /\ epochCache \in CachedEpoch

LEMMA SoloStep ==
  ASSUME Constants, IInv, NEW p \in Procs, NEW r \in Call, proc' = [proc EXCEPT ![p] = r],
         UNCHANGED <<now, job, row, entry, tomb, ensured, endedAt>>, used' \in [Sids -> Nat],
         inFlight' \in [Nodes -> [Sids -> Procs \cup {None}]], EpochTyped'
  PROVE  /\ Stands /\ Types' /\ Grows /\ Alone(p) /\ proc'[p] = r
         /\ used' = used => Rows'
         /\ late' = late => Cache'
         /\ CallOK(p) /\ Calls /\ Flights
<1>1. proc' \in [Procs -> Call] /\ proc'[p] = r /\ Alone(p)
  BY Moved DEF IInv, Alone
<1>2. Types'
  BY <1>1 DEF IInv, Types, EpochTyped
<1>3. Grows
  BY DEF IInv, Types, Grows, Row
<1>4. Stands
  BY <1>2, <1>3 DEF Stands, IInv
<1>5. used' = used => Rows'
  BY <1>2, RowsStay DEF IInv, Types
<1>6. late' = late => Cache'
  BY <1>4, CacheStays DEF IInv
<1> QED BY <1>1, <1>2, <1>3, <1>4, <1>5, <1>6 DEF IInv, Calls

LEMMA AskStep ==
  ASSUME Constants, IInv, NEW p \in Procs, Ask(p)
  PROVE  IInv'
<1> DEFINE r == [Idle EXCEPT !.pc = "mget", !.must = ensured[Sid(p)], !.pub = published.at]
<1>1. Sid(p) \in Sids /\ ensured[Sid(p)] \in SUBSET Nodes /\ published.at \in Nat
  BY CallInfo DEF IInv, Types, CachedEpoch
<1>2. r \in Call /\ r.pc = "mget" /\ r.must = ensured[Sid(p)] /\ r.look = "none"
      /\ r.via = "none" /\ r.took = {} /\ r.dels = {}
  <2>1. r.pc = "mget" /\ r.must = ensured[Sid(p)] /\ r.look = "none"
        /\ r.via = "none" /\ r.took = {} /\ r.dels = {}
    BY DEF Idle
  <2>2. "mget" \in Pcs
    BY DEF Pcs
  <2> QED BY <1>1, <2>1, <2>2, IdleIs DEF Call
<1>3. proc' = [proc EXCEPT ![p] = r] /\ Op(p) \in Lookups /\ proc[p].pc = "start"
      /\ UNCHANGED <<now, job, row, entry, tomb, late, ensured, endedAt, used, inFlight,
                     epoch, published, epochCache>>
  BY DEF Ask, setup, dbVars, redisVars, Lookups
<1> HIDE DEF r
<1>4. inFlight' \in [Nodes -> [Sids -> Procs \cup {None}]] /\ EpochTyped' /\ used' \in [Sids -> Nat]
  BY <1>3 DEF IInv, Types, EpochTyped
<1>5. Stands /\ Types' /\ Alone(p) /\ proc'[p] = r /\ Rows' /\ Cache' /\ Calls /\ Flights
  BY <1>2, <1>3, <1>4, SoloStep
<1>6. Op(p)' = Op(p) /\ Sid(p)' = Sid(p) /\ ensured' = ensured
  BY <1>3, <1>5, SameCall
<1>7. CallOK(p)'
  <2>1. Held(p)' /\ Ending(p)'
    BY <1>2, <1>5, Elsewhere DEF Holding
  <2>2. Known(p)' /\ Answered(p)'
    BY <1>2, <1>5, <1>6 DEF Known, Answered
  <2>3. Kind(p)' /\ Sweeping(p)'
    BY <1>2, <1>3, <1>5, <1>6 DEF Kind, Sweeping, Lookups
  <2>4. Begun(p)'
    BY <1>2, <1>5 DEF Begun
  <2> QED BY <2>1, <2>2, <2>3, <2>4 DEF CallOK
<1>8. Flights'
  BY <1>2, <1>3, <1>5, AloneFlights DEF Working
<1> QED BY <1>5, <1>7, <1>8, AloneCalls DEF IInv

LEMMA ReadStep ==
  ASSUME Constants, IInv, NEW p \in Procs, read(p)
  PROVE  IInv'
<1>1. /\ proc[p].pc = "mget" /\ proc[p] \in Call
      /\ UNCHANGED <<now, job, row, entry, tomb, late, ensured, endedAt, used, inFlight,
                     epoch, published, epochCache>>
  BY DEF read, setup, dbVars, redisVars, IInv, Types
<1>2. PICK s \in Sids : s = Sid(p)
  BY CallInfo DEF IInv, Types
<1>3. entry[s].rec \in Recs /\ entry[s].fresh \in Nat
  BY DEF IInv, Types
<1>4. /\ "judge" \in Pcs
      /\ lookup(s) \in {"revoked", "entry", "empty"}
      /\ {"revoked", "entry", "empty", "error"} \subseteq Looks
      /\ lookup(s) # "revoked" => ~Alive(tomb[s])
      /\ lookup(s) = "entry" => Alive(entry[s].dies)
  BY DEF Pcs, Looks, lookup
<1>5. PICK v : v = lookup(s)
  OBVIOUS
<1>6. PICK r \in Call :
        /\ proc' = [proc EXCEPT ![p] = r]
        /\ r.pc = "judge" /\ Same(r, proc[p])
        /\ (r.look = v /\ r.rec = entry[s].rec /\ r.fresh = entry[s].fresh) \/ r.look = "error"
  <2> DEFINE a == [proc[p] EXCEPT !.pc = "judge"]
  <2>1. a \in Call /\ a.pc = "judge" /\ Same(a, proc[p])
    BY <1>1, <1>4, SetPc
  <2>2. CASE proc' = [proc EXCEPT ![p].pc = "judge", ![p].look = lookup(Sid(p)),
                              ![p].rec = entry[Sid(p)].rec, ![p].fresh = entry[Sid(p)].fresh]
    <3> DEFINE b == [a EXCEPT !.look = v]
               c == [b EXCEPT !.rec = entry[s].rec]
               d == [c EXCEPT !.fresh = entry[s].fresh]
    <3>1. proc' = [proc EXCEPT ![p] = d]
      BY <1>2, <1>5, <2>2
    <3>2. v \in Looks
      BY <1>4, <1>5
    <3> HIDE DEF a
    <3>3. b \in Call /\ b.pc = "judge" /\ Same(b, a) /\ b.look = v
      BY <2>1, <3>2, SetLook
    <3> HIDE DEF b
    <3>4. c \in Call /\ c.pc = "judge" /\ Same(c, b) /\ c.look = v /\ c.rec = entry[s].rec
      BY <1>3, <3>3, SetRec
    <3> HIDE DEF c
    <3>5. d \in Call /\ d.pc = "judge" /\ Same(d, c) /\ d.look = v /\ d.rec = entry[s].rec
          /\ d.fresh = entry[s].fresh
      BY <1>3, <3>4, SetFresh
    <3> HIDE DEF d
    <3>6. Same(d, proc[p])
      BY ONLY <2>1, <3>3, <3>4, <3>5 DEF Same
    <3> QED BY <3>1, <3>5, <3>6
  <2>3. CASE proc' = [proc EXCEPT ![p].pc = "judge", ![p].look = "error"]
    <3> DEFINE b == [a EXCEPT !.look = "error"]
    <3>1. proc' = [proc EXCEPT ![p] = b]
      BY <2>3
    <3> HIDE DEF a
    <3>2. b \in Call /\ b.pc = "judge" /\ Same(b, a) /\ b.look = "error"
      BY <1>4, <2>1, SetLook
    <3> HIDE DEF b
    <3>3. Same(b, proc[p])
      BY ONLY <2>1, <3>2 DEF Same
    <3> QED BY <3>1, <3>2, <3>3
  <2> QED BY <2>2, <2>3 DEF read
<1>7. inFlight' \in [Nodes -> [Sids -> Procs \cup {None}]] /\ EpochTyped' /\ used' \in [Sids -> Nat]
  BY <1>1 DEF IInv, Types, EpochTyped
<1>8. /\ Stands /\ Types' /\ Alone(p) /\ proc'[p] = r /\ Rows' /\ Cache' /\ Calls /\ Flights
      /\ CallOK(p)
  BY <1>1, <1>6, <1>7, SoloStep
<1>9. Op(p)' = Op(p) /\ Sid(p)' = s /\ Node(p)' = Node(p) /\ Op(p) \in Lookups
  BY <1>1, <1>2, <1>8, SameCall DEF CallOK, Kind, Lookups
<1>10. CacheOK(s)
  BY DEF IInv, Cache
<1>11. proc[p].via = "none" /\ r.via = "none" /\ r.must = proc[p].must
       /\ r.took = {} /\ r.dels = {}
  BY <1>1, <1>6, <1>8 DEF CallOK, Kind, Ending, Same
<1>12. CallOK(p)'
  <2>1. Kind(p)' /\ Sweeping(p)' /\ Ending(p)'
    BY <1>6, <1>8, <1>9, <1>11 DEF Kind, Sweeping, Lookups, Ending
  <2>2. Known(p)'
    <3>1. ASSUME r.must # {}, r.look \in {"entry", "empty"}
          PROVE  now' >= endedAt'[s] + 2 * CacheTtl
      <4>1. ensured[s] # {}
        BY <1>2, <1>8, <1>11, <3>1 DEF CallOK, Known
      <4>2. tomb[s] >= endedAt[s] + 2 * CacheTtl /\ endedAt[s] \in Nat
        <5>1. Tombed(s) /\ endedAt[s] \in Nat
          BY <1>8, <4>1, EnsuredEnded
        <5> QED BY <5>1 DEF Tombed
      <4>3. ~(tomb[s] > now)
        BY <1>4, <1>5, <1>6, <3>1 DEF Alive
      <4>4. now \in Nat /\ tomb[s] \in Nat /\ CacheTtl \in Nat
        BY DEF IInv, Types, Constants
      <4>5. now >= endedAt[s] + 2 * CacheTtl
        BY ONLY <4>2, <4>3, <4>4
      <4> QED BY <1>1, <4>5
    <3>2. r.must \subseteq ensured'[s]
      BY <1>1, <1>2, <1>8, <1>11 DEF CallOK, Known
    <3> QED BY <1>8, <1>9, <3>1, <3>2 DEF Known
  <2>3. Held(p)'
    <3>1. ASSUME r.look = "entry" PROVE CacheRec(s, r.rec, r.fresh)'
      <4>1. v = "entry" /\ r.rec = entry[s].rec /\ r.fresh = entry[s].fresh
        BY <1>6, <3>1
      <4>2. entry[s].dies > now /\ entry[s].dies \in Nat /\ now \in Nat
        BY <1>4, <1>5, <4>1 DEF Alive, IInv, Types
      <4>3. entry[s].dies # 0
        BY <4>2
      <4>4. CacheRec(s, entry[s].rec, entry[s].fresh)
        BY <1>10, <4>3 DEF CacheOK
      <4>5. CacheRec(s, r.rec, r.fresh)
        BY <4>1, <4>4
      <4> QED BY <1>1, <4>5 DEF CacheRec, FreshOK
    <3>2. CacheRec(s, r.rec, r.fresh)' => CacheRec(Sid(p), proc[p].rec, proc[p].fresh)'
      <4>1. PICK x : x = r.rec
        OBVIOUS
      <4>2. PICK f : f = r.fresh
        OBVIOUS
      <4>3. CacheRec(s, x, f)' => CacheRec(Sid(p), proc[p].rec, proc[p].fresh)'
        BY <1>8, <1>9, <4>1, <4>2 DEF CacheRec, FreshOK
      <4> QED BY <4>1, <4>2, <4>3
    <3>3. r.look # "none"
      BY <1>4, <1>5, <1>6
    <3> QED BY <1>6, <1>8, <3>1, <3>2, <3>3 DEF Held, Holding
  <2>4. Answered(p)' /\ Begun(p)'
    BY <1>6, <1>8, <1>11 DEF Answered, Begun
  <2> QED BY <2>1, <2>2, <2>3, <2>4 DEF CallOK
<1>13. Flights'
  BY <1>1, <1>6, <1>8, AloneFlights DEF Working
<1> QED BY <1>8, <1>12, <1>13, AloneCalls DEF IInv

\* An answer from a row that holds, at a clock before the next touch is due.
LEMMA UsedNow ==
  ASSUME Stands, Rows, NEW s \in Sids, used' = [used EXCEPT ![s] = now],
         UNCHANGED <<now, row, endedAt>>, now <= row[s].seen + lastSeenInterval
  PROVE  Rows'
<1> SUFFICES ASSUME NEW t \in Sids PROVE RowOK(t)'
  BY DEF Rows
<1>1. RowOK(t)
  BY DEF Rows
<1>2. used'[t] = used[t] \/ (t = s /\ used'[t] = now)
  BY DEF Stands, Types
<1>3. row[t].st # "absent" => used'[t] <= row[t].seen + lastSeenInterval
  BY <1>1, <1>2 DEF RowOK
<1> QED BY <1>1, <1>3 DEF RowOK, lastSeenInterval

\* A fresh entry was found before anyone was answered that the session ended.
LEMMA UsableIs ==
  ASSUME Constants, IInv, NEW p \in Procs, proc[p].pc = "judge", usable(p)
  PROVE  /\ proc[p].must = {} /\ CacheRec(Sid(p), proc[p].rec, proc[p].fresh)
         /\ endedAt[Sid(p)] # None => now < endedAt[Sid(p)] + CacheTtl + MaxSkew
<1>1. PICK s \in Sids : s = Sid(p)
  BY CallInfo DEF IInv, Types
<1>2. CallOK(p) /\ proc[p].look = "entry" /\ proc[p].fresh > Clock(Node(p))
      /\ proc[p].fresh \in Nat
  BY DEF IInv, Calls, usable, Types, Call
<1>3. CacheRec(s, proc[p].rec, proc[p].fresh)
  BY <1>1, <1>2 DEF CallOK, Held
<1>4. Clock(Node(p)) \in Nat /\ now <= Clock(Node(p)) /\ now \in Nat
  BY CallInfo, ClockIs DEF IInv, Types
<1>5. endedAt[s] # None =>
        /\ proc[p].fresh <= endedAt[s] + MaxSkew + CacheTtl
        /\ endedAt[s] \in Nat
  BY <1>3 DEF CacheRec, FreshOK, IInv, Types
<1>6. MaxSkew \in Nat /\ CacheTtl \in Nat /\ MaxSkew <= CacheTtl
  BY DEF Constants
<1>7. ASSUME endedAt[s] # None PROVE now < endedAt[s] + CacheTtl + MaxSkew
  BY ONLY <1>2, <1>4, <1>5, <1>6, <1>7
<1>8. ASSUME proc[p].must # {} PROVE FALSE
  <2>1. ensured[s] # {} /\ now >= endedAt[s] + 2 * CacheTtl
    BY <1>1, <1>2, <1>8 DEF CallOK, Known
  <2>2. endedAt[s] # None
    BY <2>1 DEF IInv, Cache, CacheOK, Tombed
  <2>3. now < endedAt[s] + CacheTtl + MaxSkew /\ endedAt[s] \in Nat
    BY <1>5, <1>7, <2>2
  <2> QED BY ONLY <1>4, <1>6, <2>1, <2>3
<1> QED BY <1>1, <1>3, <1>7, <1>8

\* Joining the node's running read, or becoming it.
LEMMA SharedMoves ==
  ASSUME Constants, IInv, NEW p \in Procs, NEW work \in Call, shared(p, work),
         proc[p].pc = "judge", work.pc \in Fruitless, job' = job, ensured' = ensured
  PROVE  /\ \E r \in Call :
              /\ proc' = [proc EXCEPT ![p] = r]
              /\ r = work \/ (r.pc = "wait" /\ Same(r, proc[p]) /\ r.look = proc[p].look)
         /\ Flights'
         /\ inFlight' \in [Nodes -> [Sids -> Procs \cup {None}]]
<1>1. PICK n \in Nodes, s \in Sids : n = Node(p) /\ s = Sid(p)
  BY CallInfo DEF IInv, Types
<1>2. /\ proc[p] \in Call /\ CallOK(p) /\ Op(p) \in Lookups /\ None \notin Procs
      /\ inFlight \in [Nodes -> [Sids -> Procs \cup {None}]] /\ proc \in [Procs -> Call]
  BY DEF IInv, Types, Calls, CallOK, Kind, Lookups, Constants
<1>3. \A q \in Procs : Op(q)' = Op(q) /\ Node(q)' = Node(q) /\ Sid(q)' = Sid(q)
  BY DEF Op, Node, Sid
<1>4. \A m \in Nodes, t \in Sids : FlightOK(m, t)
  BY DEF IInv, Flights
<1>5. \A m \in Nodes, t \in Sids : inFlight[m][t] # p
  BY <1>2, <1>4 DEF FlightOK, Working
<1>6. ASSUME Alone(p), NEW q \in Procs, q # p PROVE WaitOK(q)'
  <2>1. SUFFICES ASSUME proc'[q].pc = "wait" PROVE WaitOK(q)'
    BY DEF WaitOK
  <2>2. proc'[q] = proc[q]
    BY <1>6 DEF Alone
  <2>3. PICK o \in Procs : o = proc[q].on
    BY <2>1, <2>2 DEF IInv, Flights, WaitOK
  <2>4. /\ Node(o) = Node(q) /\ Sid(o) = Sid(q) /\ Op(o) \in Lookups /\ proc[o].pc \in Working
        /\ Node(q) \in proc[q].must => proc[o].pc \in Fruitless
    BY <2>1, <2>2, <2>3 DEF IInv, Flights, WaitOK
  <2>5. o # p /\ proc'[o] = proc[o]
    BY <1>6, <2>4 DEF Alone, Working
  <2>6. /\ Node(o)' = Node(q)' /\ Sid(o)' = Sid(q)' /\ Op(o)' \in Lookups /\ Node(q)' = Node(q)
    BY <1>3, <2>4
  <2>7. proc'[q].on = o
    BY <2>2, <2>3
  <2>8. Node(proc[q].on)' = Node(o)' /\ Sid(proc[q].on)' = Sid(o)' /\ Op(proc[q].on)' = Op(o)'
    BY <2>7 DEF Node, Sid, Op
  <2> QED BY <2>2, <2>4, <2>5, <2>6, <2>7, <2>8 DEF WaitOK
<1>7. ASSUME Alone(p), NEW m \in Nodes, NEW t \in Sids, inFlight'[m][t] = inFlight[m][t]
      PROVE  FlightOK(m, t)'
  <2>1. SUFFICES ASSUME inFlight[m][t] # None PROVE FlightOK(m, t)'
    BY <1>7 DEF FlightOK
  <2>2. PICK q \in Procs : q = inFlight[m][t] /\ q # p
    BY <1>2, <1>5, <2>1
  <2>3. /\ Node(q) = m /\ Sid(q) = t /\ Op(q) \in Lookups /\ proc[q].pc \in Working
        /\ m \in ensured[t] => proc[q].pc \in Fruitless
    BY <1>4, <2>1, <2>2 DEF FlightOK
  <2>4. proc'[q] = proc[q] /\ inFlight'[m][t] = q
    BY <1>7, <2>2 DEF Alone
  <2>5. Node(q)' = m /\ Sid(q)' = t /\ Op(q)' \in Lookups
    BY <1>3, <2>3
  <2>6. Node(inFlight[m][t])' = Node(q)' /\ Sid(inFlight[m][t])' = Sid(q)'
        /\ Op(inFlight[m][t])' = Op(q)'
    BY <2>4 DEF Node, Sid, Op
  <2> QED BY <2>3, <2>4, <2>5, <2>6 DEF FlightOK
<1>8. ASSUME Alone(p), NEW q \in Procs, q # p,
             \A m \in Nodes, t \in Sids : \/ inFlight'[m][t] = inFlight[m][t]
                                          \/ inFlight'[m][t] = p /\ proc'[p].pc \in Fruitless
      PROVE  MarkOK(q)'
  <2>1. SUFFICES ASSUME proc'[q].pc = "mark" PROVE MarkOK(q)'
    BY DEF MarkOK
  <2>2. proc'[q] = proc[q] /\ Node(q)' = Node(q) /\ Node(q) \in Nodes /\ proc[q].batch \subseteq Sids
    <3>1. proc'[q] = proc[q] /\ proc[q] \in Call
      BY <1>2, <1>8 DEF Alone
    <3>2. Node(q) \in Nodes
      BY CallInfo DEF IInv, Types
    <3> QED BY <1>3, <3>1, <3>2 DEF Call
  <2>3. ASSUME NEW t \in proc[q].batch, inFlight'[Node(q)][t] # None
        PROVE  proc'[inFlight'[Node(q)][t]].pc \in Fruitless
    <3>1. CASE inFlight'[Node(q)][t] = inFlight[Node(q)][t]
      <4>1. proc[inFlight[Node(q)][t]].pc \in Fruitless
        BY <2>1, <2>2, <2>3, <3>1 DEF IInv, Flights, MarkOK
      <4>2. inFlight[Node(q)][t] # p /\ inFlight[Node(q)][t] \in Procs
        BY <1>2, <1>5, <2>2, <2>3, <3>1
      <4> QED BY <1>8, <3>1, <4>1, <4>2 DEF Alone
    <3>2. CASE inFlight'[Node(q)][t] = p /\ proc'[p].pc \in Fruitless
      BY <3>2
    <3> QED BY <1>8, <2>2, <2>3, <3>1, <3>2
  <2> QED BY <2>2, <2>3 DEF MarkOK
<1>9. CASE inFlight[n][s] # None
  <2>1. PICK o \in Procs : o = inFlight[n][s]
    BY <1>2, <1>9
  <2>2. proc' = [proc EXCEPT ![p].pc = "wait", ![p].on = o] /\ inFlight' = inFlight
    BY <1>1, <1>9, <2>1 DEF shared
  <2> DEFINE a == [proc[p] EXCEPT !.pc = "wait"]
             r == [a EXCEPT !.on = o]
  <2>3. proc' = [proc EXCEPT ![p] = r]
    BY <2>2
  <2>4. a \in Call /\ a.pc = "wait" /\ Same(a, proc[p]) /\ a.look = proc[p].look
    <3>1. "wait" \in Pcs
      BY DEF Pcs
    <3> QED BY <1>2, <3>1, SetPc
  <2> HIDE DEF a
  <2>5. r \in Call /\ r.pc = "wait" /\ Same(r, a) /\ r.look = a.look /\ r.on = o
    BY <2>4, SetOn
  <2> HIDE DEF r
  <2>6. Same(r, proc[p]) /\ r.look = proc[p].look /\ r.must = proc[p].must
    BY ONLY <2>4, <2>5 DEF Same
  <2>7. proc'[p] = r /\ Alone(p)
    BY <1>2, <2>3 DEF Alone
  <2>8. WaitOK(p)'
    <3>1. /\ Node(o) = n /\ Sid(o) = s /\ Op(o) \in Lookups /\ proc[o].pc \in Working
          /\ n \in ensured[s] => proc[o].pc \in Fruitless
      BY <1>4, <1>9, <2>1 DEF FlightOK
    <3>2. o # p /\ proc'[o] = proc[o] /\ proc'[p].on = o
      BY <1>5, <2>1, <2>5, <2>7 DEF Alone
    <3>3. Node(p) \in proc'[p].must => n \in ensured[s]
      BY <1>1, <1>2, <2>6, <2>7 DEF CallOK, Known
    <3>4. Node(o)' = n /\ Sid(o)' = s /\ Op(o)' \in Lookups /\ Node(p)' = n /\ Sid(p)' = s
      BY <1>1, <1>3, <3>1
    <3>5. Node(proc[p].on)' = Node(o)' /\ Sid(proc[p].on)' = Sid(o)' /\ Op(proc[p].on)' = Op(o)'
      BY <3>2 DEF Node, Sid, Op
    <3> QED BY <1>1, <3>1, <3>2, <3>3, <3>4, <3>5 DEF WaitOK
  <2>9. MarkOK(p)'
    BY <2>5, <2>7 DEF MarkOK
  <2>10. Flights'
    BY <1>6, <1>7, <1>8, <2>2, <2>7, <2>8, <2>9 DEF Flights
  <2> QED BY <1>2, <2>2, <2>3, <2>5, <2>6, <2>10
<1>10. CASE inFlight[n][s] = None
  <2>1. proc' = [proc EXCEPT ![p] = work] /\ inFlight' = [inFlight EXCEPT ![n][s] = p]
    BY <1>1, <1>10 DEF shared
  <2>2. proc'[p] = work /\ Alone(p)
    BY <1>2, <2>1 DEF Alone
  <2>3. /\ inFlight' \in [Nodes -> [Sids -> Procs \cup {None}]]
        /\ inFlight'[n][s] = p
        /\ \A m \in Nodes, t \in Sids : inFlight'[m][t] = inFlight[m][t] \/ (m = n /\ t = s)
    BY <1>2, <2>1
  <2>4. FlightOK(n, s)'
    <3>1. Node(p)' = n /\ Sid(p)' = s /\ Op(p)' \in Lookups
      BY <1>1, <1>2, <1>3
    <3>2. work.pc \in Working
      BY DEF Fruitless, Working
    <3>3. Node(inFlight[n][s])' = Node(p)' /\ Sid(inFlight[n][s])' = Sid(p)'
          /\ Op(inFlight[n][s])' = Op(p)'
      BY <2>3 DEF Node, Sid, Op
    <3> QED BY <2>2, <2>3, <3>1, <3>2, <3>3 DEF FlightOK
  <2>5. \A m \in Nodes, t \in Sids : FlightOK(m, t)'
    BY <1>7, <2>2, <2>3, <2>4
  <2>6. WaitOK(p)' /\ MarkOK(p)'
    BY <2>2 DEF WaitOK, MarkOK, Fruitless
  <2>7. Flights'
    BY <1>6, <1>8, <2>2, <2>3, <2>5, <2>6 DEF Flights
  <2> QED BY <2>1, <2>3, <2>7
<1> QED BY <1>9, <1>10

\* A lookup's own bookkeeping, kept while it works.
LEMMA SameKept ==
  ASSUME Stands, NEW p \in Procs, CallOK(p), Same(proc'[p], proc[p]),
         proc'[p].look = proc[p].look, Op(p) \in Lookups, proc[p].pc # "mark",
         proc'[p].pc \in {"wait", "find", "touchHit", "touchRead", "fill", "answer"}
  PROVE  Kind(p)' /\ Known(p)' /\ Answered(p)' /\ Ending(p)' /\ Sweeping(p)' /\ Begun(p)'
<1>1. Op(p)' = Op(p)
  BY SameCall
<1>2. Kind(p)' /\ Sweeping(p)'
  BY <1>1 DEF Kind, Sweeping, Lookups
<1>3. /\ proc'[p].must = proc[p].must /\ proc'[p].via = proc[p].via
      /\ proc'[p].served = proc[p].served /\ proc'[p].took = {} /\ proc'[p].dels = {}
  BY DEF Same, CallOK, Ending
<1>4. Known(p)' /\ Answered(p)'
  BY <1>3, KnownStays, AnsweredStays DEF CallOK
<1>5. Ending(p)' /\ Begun(p)'
  BY <1>1, <1>3 DEF Ending, Lookups, Begun
<1> QED BY <1>2, <1>4, <1>5

\* What a call that finished without serving keeps.
\* A call that is over.
LEMMA ClosedOK ==
  ASSUME Stands, NEW p \in Procs, CallOK(p), NEW f \in Call, proc'[p] = f,
         f.pc = "done", f.look = proc[p].look, f.must = proc[p].must, f.via = proc[p].via,
         f.served = proc[p].served, f.owed = proc[p].owed, f.took = {}, f.dels = {},
         Op(p) = "realm" => /\ \A s \in proc[p].owed : row'[s].st # "absent"
                            /\ f.ans # "error" => proc[p].owed \cap Live' = {}
  PROVE  CallOK(p)'
<1>4. Op(p)' = Op(p)
  BY SameCall
<1>5. Kind(p)'
  BY <1>4 DEF Kind
<1>6. Known(p)' /\ Answered(p)'
  BY KnownStays, AnsweredStays DEF CallOK
<1>7. Held(p)' /\ Ending(p)'
  BY <1>4, Elsewhere DEF Holding
<1>8. Sweeping(p)' /\ Begun(p)'
  BY <1>4 DEF Sweeping, RowsOwed, Begun
<1> QED BY <1>5, <1>6, <1>7, <1>8 DEF CallOK

LEMMA FinishedOK ==
  ASSUME Stands, NEW p \in Procs, CallOK(p), NEW ans \in Anss,
         proc'[p] = Finished(proc[p], ans),
         Op(p) = "realm" => /\ \A s \in proc[p].owed : row'[s].st # "absent"
                            /\ ans # "error" => proc[p].owed \cap Live' = {}
  PROVE  CallOK(p)'
<1>1. proc[p] \in Call
  BY DEF Stands, Types
<1>2. PICK f : f = Finished(proc[p], ans)
  OBVIOUS
<1>3. /\ f \in Call /\ f.pc = "done" /\ f.ans = ans
      /\ f.look = proc[p].look /\ f.must = proc[p].must /\ f.via = proc[p].via
      /\ f.served = proc[p].served /\ f.owed = proc[p].owed /\ f.took = {} /\ f.dels = {}
  BY <1>1, <1>2, FinishedIs
<1> QED BY <1>2, <1>3, ClosedOK

LEMMA GetStep ==
  ASSUME Constants, IInv, NEW p \in Procs, get(p)
  PROVE  IInv'
<1>1. /\ proc[p].pc = "judge" /\ proc[p] \in Call /\ CallOK(p)
      /\ UNCHANGED <<now, job, row, entry, tomb, late, ensured, endedAt,
                     epoch, published, epochCache>>
      /\ used \in [Sids -> Nat] /\ inFlight \in [Nodes -> [Sids -> Procs \cup {None}]]
  BY DEF get, setup, dbVars, redisVars, IInv, Types, Calls
<1>2. PICK s \in Sids : s = Sid(p) /\ Node(p) \in Nodes
  BY CallInfo DEF IInv, Types
<1>3. Op(p) \in Lookups /\ Op(p) \in {"get", "resolve", "create"}
  BY <1>1 DEF CallOK, Kind, Lookups
<1>4. Clock(Node(p)) \in Nat /\ now <= Clock(Node(p)) /\ now \in Nat
      /\ Clock(Node(p)) <= now + MaxSkew
  BY <1>2, ClockIs DEF IInv, Types
<1>5. EpochTyped'
  BY <1>1 DEF IInv, Types, EpochTyped
<1>6. usable(p) => /\ proc[p].must = {} /\ CacheRec(Sid(p), proc[p].rec, proc[p].fresh)
                   /\ endedAt[Sid(p)] # None => now < endedAt[Sid(p)] + CacheTtl + MaxSkew
  BY <1>1, UsableIs
<1> DEFINE r == proc[p]
           at == Clock(Node(p))
<1>7. CASE /\ r.look = "revoked" \/ (usable(p) /\ verdictOf(r.rec, at) = "ended")
           /\ proc' = [proc EXCEPT ![p] = Finished(r, "absent")]
           /\ UNCHANGED <<inFlight, used>>
  <2> DEFINE f == Finished(r, "absent")
  <2>1. "absent" \in Anss
    BY DEF Anss
  <2>2. f \in Call /\ f.pc = "done"
    BY <1>1, <2>1, FinishedIs
  <2>3. proc' = [proc EXCEPT ![p] = f] /\ f = Finished(r, "absent")
    BY <1>7
  <2> HIDE DEF f
  <2>4. Stands /\ Types' /\ Alone(p) /\ proc'[p] = f /\ Rows' /\ Cache' /\ Calls /\ Flights
    BY <1>1, <1>5, <1>7, <2>2, <2>3, SoloStep
  <2>5. CallOK(p)'
    BY <1>1, <1>3, <2>1, <2>3, <2>4, FinishedOK DEF Lookups
  <2>6. Flights'
    BY <1>1, <1>7, <2>2, <2>4, AloneFlights DEF Working
  <2> QED BY <2>4, <2>5, <2>6, AloneCalls DEF IInv
<1>8. CASE /\ usable(p) /\ verdictOf(r.rec, at) = "live" /\ ~touchIsDue(r.rec, at)
           /\ proc' = [proc EXCEPT ![p] = Served(p, r.rec, "hit")]
           /\ used' = [used EXCEPT ![Sid(p)] = now]
           /\ UNCHANGED inFlight
  <2> DEFINE f == Served(p, r.rec, "hit")
  <2>1. /\ f \in Call /\ f.pc \in {"epoch", "done"} /\ (f.pc = "epoch" => Op(p) = "resolve")
        /\ f.look = r.look /\ f.must = r.must /\ f.took = {} /\ f.dels = {}
        /\ f.via = "hit" /\ f.served = now
    <3>1. r.rec \in Recs /\ "hit" \in Vias
      BY <1>1 DEF Call, Vias
    <3> QED BY <1>3, <3>1, ServedIs DEF IInv
  <2>2. proc' = [proc EXCEPT ![p] = f]
    BY <1>8
  <2> HIDE DEF f
  <2>3. used' \in [Sids -> Nat]
    BY <1>1, <1>2, <1>4, <1>8
  <2>4. Stands /\ Types' /\ Alone(p) /\ proc'[p] = f /\ Cache' /\ Calls /\ Flights
    BY <1>1, <1>5, <1>8, <2>1, <2>2, <2>3, SoloStep
  <2>5. Rows'
    <3>1. /\ r.rec.seen <= row[s].seen /\ at < r.rec.seen + lastSeenInterval
          /\ r.rec.seen \in Nat /\ row[s].seen \in Nat /\ lastSeenInterval \in Nat
      <4>1. r.rec.seen \in Nat /\ row[s].seen \in Nat /\ lastSeenInterval \in Nat
        BY <1>1, <1>2 DEF Call, Recs, IInv, Types, Row, Constants
      <4>2. r.rec.seen <= row[s].seen
        BY <1>2, <1>6, <1>8 DEF CacheRec
      <4>3. ~(at >= r.rec.seen + lastSeenInterval)
        BY <1>8 DEF touchIsDue
      <4> HIDE DEF r, at
      <4>4. at \in Nat
        BY <1>4 DEF at
      <4> QED BY <4>1, <4>2, <4>3, <4>4
    <3>2. now <= row[s].seen + lastSeenInterval
      <4>1. at \in Nat /\ now <= at /\ now \in Nat
        BY <1>4
      <4> HIDE DEF r, at
      <4> QED BY ONLY <3>1, <4>1
    <3> QED BY <1>1, <1>2, <1>8, <2>4, <3>2, UsedNow DEF IInv
  <2>6. Op(p)' = Op(p) /\ Sid(p)' = Sid(p)
    BY <2>4, SameCall
  <2>7. CallOK(p)'
    <3>1. Kind(p)' /\ Sweeping(p)'
      BY <1>3, <2>1, <2>4, <2>6 DEF Kind, Sweeping, Lookups
    <3>2. Known(p)'
      BY <1>1, <2>1, <2>4, KnownStays DEF CallOK
    <3>3. Held(p)' /\ Ending(p)'
      BY <2>1, <2>4, Elsewhere DEF Holding
    <3>4. Answered(p)'
      BY <1>1, <1>4, <1>6, <1>8, <2>1, <2>4, <2>6 DEF Answered
    <3>5. Begun(p)'
      BY <1>1, <1>6, <1>8, <2>6 DEF Begun, CacheRec
    <3> QED BY <3>1, <3>2, <3>3, <3>4, <3>5 DEF CallOK
  <2>8. Flights'
    BY <1>1, <1>8, <2>1, <2>4, AloneFlights DEF Working
  <2> QED BY <2>4, <2>5, <2>7, <2>8, AloneCalls DEF IInv
<1>9. ASSUME NEW work \in Call, shared(p, work), UNCHANGED used, work.pc \in Fruitless,
             Same(work, r), work.look = r.look, r.look \in {"entry", "empty", "error"},
             work.pc = "find" => work.fresh <= now + MaxSkew + CacheTtl,
             work.pc = "touchHit" => /\ usable(p) /\ work.cut <= at /\ work.rec = r.rec
                                     /\ work.fresh = r.fresh
      PROVE  IInv'
  <2>1. PICK q \in Call :
          /\ proc' = [proc EXCEPT ![p] = q]
          /\ q = work \/ (q.pc = "wait" /\ Same(q, r) /\ q.look = r.look)
    BY <1>1, <1>9, SharedMoves
  <2>2. Flights' /\ inFlight' \in [Nodes -> [Sids -> Procs \cup {None}]]
    BY <1>1, <1>9, SharedMoves
  <2>3. Stands /\ Types' /\ Alone(p) /\ proc'[p] = q /\ Rows' /\ Cache' /\ Calls
    <3>1. used' \in [Sids -> Nat] /\ used' = used
      BY <1>1, <1>9
    <3> QED BY <1>1, <1>5, <2>1, <2>2, <3>1, SoloStep
  <2>4. Same(q, r) /\ q.look = r.look /\ q.pc \in {"wait", "find", "touchHit"}
    BY <1>9, <2>1 DEF Fruitless
  <2>5. Kind(p)' /\ Known(p)' /\ Answered(p)' /\ Ending(p)' /\ Sweeping(p)' /\ Begun(p)'
    BY <1>1, <1>3, <2>3, <2>4, SameKept
  <2>6. Sid(p)' = Sid(p) /\ Node(p)' = Node(p) /\ Clock(Node(p))' = Clock(Node(p))
    BY <1>1, <2>3, SameCall DEF Clock
  <2>7. q.pc = "touchHit" => q.must = {} /\ q.cut <= at /\ CacheRec(s, q.rec, q.fresh)
    BY <1>2, <1>6, <1>9, <2>1 DEF Same
  <2>8. q.pc = "touchHit" => CacheRec(Sid(p), proc[p].rec, proc[p].fresh)'
    BY <1>1, <1>2, <2>3, <2>6, <2>7 DEF CacheRec, FreshOK
  <2>9. q.pc = "find" => q.fresh <= now' + MaxSkew + CacheTtl
    BY <1>1, <1>9, <2>1
  <2>10. Held(p)'
    BY <1>9, <2>3, <2>4, <2>6, <2>7, <2>8, <2>9 DEF Held, Holding
  <2> QED BY <2>2, <2>3, <2>5, <2>10, AloneCalls DEF IInv, CallOK
<1>10. CASE /\ usable(p) /\ verdictOf(r.rec, at) = "live" /\ touchIsDue(r.rec, at)
            /\ shared(p, [r EXCEPT !.pc = "touchHit", !.cut = at])
            /\ UNCHANGED used
  <2> DEFINE a == [r EXCEPT !.pc = "touchHit"]
             w == [a EXCEPT !.cut = at]
  <2>1. a \in Call /\ Same(a, r) /\ a.pc = "touchHit" /\ a.look = r.look /\ a.rec = r.rec
        /\ a.fresh = r.fresh
    <3>1. "touchHit" \in Pcs
      BY DEF Pcs
    <3> QED BY <1>1, <3>1, SetPc
  <2>2. shared(p, w) /\ UNCHANGED used
    BY <1>10
  <2> HIDE DEF a
  <2>3. w \in Call /\ Same(w, a) /\ w.pc = a.pc /\ w.look = a.look /\ w.rec = a.rec
        /\ w.fresh = a.fresh /\ w.cut = at
    BY <1>4, <2>1, SetCut
  <2> HIDE DEF w
  <2>4. Same(w, r)
    BY ONLY <2>1, <2>3 DEF Same
  <2>5. w.cut <= at /\ r.look = "entry"
    BY <1>4, <1>10, <2>3 DEF usable
  <2>6. w.pc \in Fruitless /\ w.pc # "find" /\ w.look = r.look /\ w.rec = r.rec /\ w.fresh = r.fresh
    BY <2>1, <2>3 DEF Fruitless
  <2> QED BY <1>9, <1>10, <2>2, <2>3, <2>4, <2>5, <2>6
<1>11. CASE /\ r.look # "revoked" /\ (usable(p) => verdictOf(r.rec, at) = "idle")
            /\ shared(p, readThrough(p, r.look # "error"))
            /\ UNCHANGED used
  <2> DEFINE fill == r.look # "error"
             a == [r EXCEPT !.pc = "find"]
             b == [a EXCEPT !.fill = fill]
             w == [b EXCEPT !.fresh = at + CacheTtl]
  <2>1. a \in Call /\ Same(a, r) /\ a.pc = "find" /\ a.look = r.look
    <3>1. "find" \in Pcs
      BY DEF Pcs
    <3> QED BY <1>1, <3>1, SetPc
  <2>2. shared(p, w)
    BY <1>11 DEF readThrough
  <2>3. fill \in BOOLEAN
    OBVIOUS
  <2> HIDE DEF a, fill
  <2>4. b \in Call /\ Same(b, a) /\ b.pc = a.pc /\ b.look = a.look
    BY <2>1, <2>3, SetFill
  <2> HIDE DEF b
  <2>5. at + CacheTtl \in Nat /\ at + CacheTtl <= now + MaxSkew + CacheTtl
    BY <1>4 DEF Constants
  <2>6. w \in Call /\ Same(w, b) /\ w.pc = b.pc /\ w.look = b.look /\ w.fresh = at + CacheTtl
    BY <2>4, <2>5, SetFresh
  <2> HIDE DEF w
  <2>7. Same(w, r)
    BY ONLY <2>1, <2>4, <2>6 DEF Same
  <2>8. r.look \in {"entry", "empty", "error"}
    BY <1>1, <1>11 DEF CallOK, Held, Call, Looks
  <2>9. w.pc = "find" /\ w.pc \in Fruitless /\ w.look = r.look
    BY <2>1, <2>4, <2>6 DEF Fruitless
  <2> QED BY <1>9, <1>11, <2>2, <2>5, <2>6, <2>7, <2>8, <2>9
<1>12. get(p)
  OBVIOUS
<1> QED
  <2> HIDE DEF r, at
  <2>1. \/ /\ r.look = "revoked" \/ (usable(p) /\ verdictOf(r.rec, at) = "ended")
           /\ proc' = [proc EXCEPT ![p] = Finished(r, "absent")]
           /\ UNCHANGED <<inFlight, used>>
        \/ /\ usable(p) /\ verdictOf(r.rec, at) = "live" /\ ~touchIsDue(r.rec, at)
           /\ proc' = [proc EXCEPT ![p] = Served(p, r.rec, "hit")]
           /\ used' = [used EXCEPT ![Sid(p)] = now]
           /\ UNCHANGED inFlight
        \/ /\ usable(p) /\ verdictOf(r.rec, at) = "live" /\ touchIsDue(r.rec, at)
           /\ shared(p, [r EXCEPT !.pc = "touchHit", !.cut = at])
           /\ UNCHANGED used
        \/ /\ r.look # "revoked" /\ (usable(p) => verdictOf(r.rec, at) = "idle")
           /\ shared(p, readThrough(p, r.look # "error"))
           /\ UNCHANGED used
    BY <1>12 DEF get, r, at
  <2> QED BY <1>7, <1>8, <1>10, <1>11, <2>1

-----------------------------------------------------------------------------
(***************************************************************************)
(* The steps of a read that works for its node.                            *)
(***************************************************************************)
\* The statement that writes last_seen leaves every row as good as it was.
LEMMA TouchWorld ==
  ASSUME Constants, IInv, NEW p \in Procs, touches(p),
         row' = [row EXCEPT ![Sid(p)].seen = Clock(Node(p))],
         used' = [used EXCEPT ![Sid(p)] = now],
         UNCHANGED <<now, job, entry, tomb, late, ensured, endedAt, inFlight,
                     epoch, published, epochCache>>,
         proc' \in [Procs -> Call]
  PROVE  /\ Stands /\ Types' /\ Rows' /\ Cache'
         /\ endedAt[Sid(p)] = None /\ row'[Sid(p)].st = "live"
         /\ row'[Sid(p)].seen = Clock(Node(p))
<1>1. PICK s \in Sids : s = Sid(p) /\ Node(p) \in Nodes
  BY CallInfo DEF IInv, Types
<1>2. PICK at \in Nat : at = Clock(Node(p)) /\ now <= at
  BY <1>1, ClockIs DEF IInv, Types
<1>3. /\ row \in [Sids -> Row] /\ used \in [Sids -> Nat] /\ now \in Nat
      /\ endedAt \in [Sids -> Nat \cup {None}]
      /\ lastSeenInterval \in Nat
  BY DEF IInv, Types, Constants
<1>4. row[s] \in Row /\ row[s].st = "live" /\ at >= row[s].seen + lastSeenInterval
  BY <1>1, <1>2, <1>3 DEF touches, touchIsDue
<1>5. row[s].seen \in Nat /\ row[s].created \in Nat
  BY <1>4 DEF Row
<1>6. row[s].seen <= at
  BY ONLY <1>2, <1>3, <1>4, <1>5
<1> DEFINE rw == [row[s] EXCEPT !.seen = at]
<1>7. row' = [row EXCEPT ![s] = rw]
  BY <1>1, <1>2
<1>8. rw \in Row /\ rw.st = "live" /\ rw.seen = at /\ rw.created = row[s].created
  BY <1>2, <1>4 DEF Row
<1> HIDE DEF rw
<1>9. /\ row' \in [Sids -> Row] /\ row'[s] = rw
      /\ \A t \in Sids : t # s => row'[t] = row[t]
  BY <1>3, <1>7, <1>8
<1>10. used' \in [Sids -> Nat] /\ used'[s] = now /\ \A t \in Sids : t # s => used'[t] = used[t]
  BY <1>1, <1>3
<1>11. Types'
  BY <1>9, <1>10 DEF IInv, Types
<1>12. \A t \in Sids : row[t].seen \in Nat /\ tomb[t] \in Nat
  BY <1>3 DEF Row, IInv, Types
<1>13. Grows
  <2>1. ASSUME NEW t \in Sids
        PROVE  /\ row[t].st # "absent" => /\ row'[t].st # "absent"
                                          /\ row'[t].created = row[t].created
                                          /\ row[t].seen <= row'[t].seen
                                          /\ row'[t].st = "live" => row[t].st = "live"
               /\ tomb[t] <= tomb'[t]
    <3>1. row[t].seen <= row[t].seen /\ tomb[t] <= tomb[t]
      BY <1>12
    <3>2. CASE t = s
      BY <1>4, <1>6, <1>8, <1>9, <3>1, <3>2
    <3>3. CASE t # s
      BY <1>9, <3>1, <3>3
    <3> QED BY <3>2, <3>3
  <2> QED BY <1>3, <2>1 DEF Grows
<1>14. Stands
  BY <1>11, <1>13 DEF Stands, IInv
<1>15. endedAt[s] = None
  BY <1>4 DEF IInv, Rows, RowOK
<1>16. Rows'
  <2> SUFFICES ASSUME NEW t \in Sids PROVE RowOK(t)'
    BY DEF Rows
  <2>1. RowOK(t)
    BY DEF IInv, Rows
  <2>2. CASE t # s
    BY <1>9, <1>10, <2>1, <2>2 DEF RowOK, lastSeenInterval
  <2>3. CASE t = s
    <3>1. now <= at + lastSeenInterval
      BY ONLY <1>2, <1>3
    <3>2. row[s].created <= now + MaxSkew
      BY <1>4, <2>1, <2>3 DEF RowOK
    <3> QED BY <1>8, <1>9, <1>10, <1>15, <2>3, <3>1, <3>2 DEF RowOK, lastSeenInterval
  <2> QED BY <2>2, <2>3
<1>17. Cache'
  BY <1>14, CacheStays DEF IInv
<1> QED BY <1>1, <1>2, <1>8, <1>9, <1>11, <1>14, <1>15, <1>16, <1>17

\* A read that works passes from one record to the next.
LEMMA WorkerOK ==
  ASSUME Stands, Calls, Flights, NEW p \in Procs, NEW q \in Call,
         proc' = [proc EXCEPT ![p] = q], UNCHANGED <<inFlight, ensured>>,
         proc[p].pc \in {"find", "touchHit", "touchRead"},
         q.pc \in {"find", "touchRead", "fill", "answer"},
         Same(q, proc[p]), q.look = proc[p].look,
         q.pc = "find" => proc[p].pc = "touchHit" /\ q.fresh <= now' + MaxSkew + CacheTtl,
         q.pc \in Holding => (endedAt[Sid(p)] = None \/ proc[p].pc = "touchRead"),
         q.pc \in Holding => CacheRec(Sid(p), q.rec, q.fresh)',
         q.pc = "touchRead" => q.cut <= Clock(Node(p))'
  PROVE  Calls' /\ Flights'
<1>1. CallOK(p) /\ proc \in [Procs -> Call]
  BY DEF Calls, Stands, Types
<1>2. proc'[p] = q /\ Alone(p)
  BY <1>1 DEF Alone
<1>3. Op(p) \in Lookups
  BY <1>1 DEF CallOK, Kind, Lookups
<1>4. Sid(p)' = Sid(p) /\ Node(p)' = Node(p) /\ Sid(p) \in Sids
  BY SameCall
<1>5. Kind(p)' /\ Known(p)' /\ Answered(p)' /\ Ending(p)' /\ Sweeping(p)' /\ Begun(p)'
  BY <1>1, <1>2, <1>3, SameKept
<1>6. q.must = proc[p].must
  BY DEF Same
<1>7. q.pc \in Holding => q.must = {}
  <2>1. CASE proc[p].pc = "touchRead"
    BY <1>1, <1>6, <2>1 DEF CallOK, Held, Holding
  <2>2. CASE endedAt[Sid(p)] = None
    <3>1. ensured[Sid(p)] = {}
      BY <1>4, <2>2, EnsuredEnded
    <3> QED BY <1>1, <1>6, <3>1 DEF CallOK, Known
  <2> QED BY <2>1, <2>2
<1>8. Held(p)'
  <2>1. CacheRec(Sid(p), q.rec, q.fresh)' => CacheRec(Sid(p), proc[p].rec, proc[p].fresh)'
    <3>1. PICK x : x = q.rec
      OBVIOUS
    <3>2. PICK f : f = q.fresh
      OBVIOUS
    <3>3. CacheRec(Sid(p), x, f)' => CacheRec(Sid(p), proc[p].rec, proc[p].fresh)'
      BY <1>2, <3>1, <3>2 DEF CacheRec, FreshOK
    <3> QED BY <3>1, <3>2, <3>3
  <2>2. q.pc = "find" => q.look \in {"entry", "empty", "error"}
    BY <1>1 DEF CallOK, Held
  <2> QED BY <1>2, <1>4, <1>7, <2>1, <2>2 DEF Held, Holding
<1>9. Flights'
  BY <1>2, AloneFlights DEF Working, Fruitless, Holding
<1>10. Calls'
  BY <1>2, <1>5, <1>8, AloneCalls DEF CallOK
<1> QED BY <1>9, <1>10

\* The shared work answers, its record or nothing, and writes nothing.
LEMMA AnswerStep ==
  ASSUME Constants, IInv, NEW p \in Procs, NEW live \in BOOLEAN, NEW rec \in Recs,
         Op(p) \in Lookups, Answer(p, live, rec), live => proc[p].pc \in {"fill", "answer"},
         UNCHANGED <<setup, dbVars, redisVars, ensured, used>>
  PROVE  IInv'
<1>1. Op(p) \in {"get", "resolve", "create"} /\ None \notin Procs
      /\ Node(p) \in Nodes /\ Sid(p) \in Sids
  BY CallInfo DEF Lookups, Constants, IInv, Types
<1>2. proc' \in [Procs -> Call]
  BY <1>1, AnswerMoves DEF IInv
<1>3. Flights' /\ inFlight' \in [Nodes -> [Sids -> Procs \cup {None}]]
  BY <1>1, AnswerFlights DEF IInv, setup
<1>4. Types'
  BY <1>2, <1>3 DEF IInv, Types, setup, dbVars, redisVars
<1>5. Grows
  BY DEF IInv, Types, Grows, Row, setup, dbVars, redisVars
<1>6. Stands
  BY <1>4, <1>5 DEF Stands, IInv
<1>7. Calls'
  BY <1>1, <1>6, AnswerCalls DEF IInv
<1>8. Rows' /\ Cache'
  BY <1>4, <1>6, RowsStay, CacheStays DEF IInv, Types, setup, dbVars, redisVars
<1> QED BY <1>3, <1>4, <1>7, <1>8 DEF IInv

\* The store failed: the read answers everyone with nothing.
LEMMA StoreFails ==
  ASSUME Constants, IInv, NEW p \in Procs, Op(p) \in Lookups, Answer(p, FALSE, NoRec),
         UNCHANGED <<setup, dbVars, redisVars, ensured, used>>
  PROVE  IInv'
<1>1. NoRec \in Recs
  BY DEF NoRec, Recs
<1> QED BY <1>1, AnswerStep

LEMMA ReadThroughIs ==
  ASSUME NEW p \in Procs, proc[p] \in Call, NEW fill \in BOOLEAN,
         Clock(Node(p)) \in Nat, Constants
  PROVE  LET q == readThrough(p, fill)
         IN  /\ q \in Call /\ q.pc = "find" /\ Same(q, proc[p]) /\ q.look = proc[p].look
             /\ q.fresh = Clock(Node(p)) + CacheTtl
<1> DEFINE a == [proc[p] EXCEPT !.pc = "find"]
           b == [a EXCEPT !.fill = fill]
           w == [b EXCEPT !.fresh = Clock(Node(p)) + CacheTtl]
<1>1. readThrough(p, fill) = w
  BY DEF readThrough
<1>2. a \in Call /\ Same(a, proc[p]) /\ a.pc = "find" /\ a.look = proc[p].look
  <2>1. "find" \in Pcs
    BY DEF Pcs
  <2> QED BY <2>1, SetPc
<1> HIDE DEF a
<1>3. b \in Call /\ Same(b, a) /\ b.pc = a.pc /\ b.look = a.look
  BY <1>2, SetFill
<1> HIDE DEF b
<1>4. Clock(Node(p)) + CacheTtl \in Nat
  BY DEF Constants
<1>5. w \in Call /\ Same(w, b) /\ w.pc = b.pc /\ w.look = b.look
      /\ w.fresh = Clock(Node(p)) + CacheTtl
  BY <1>3, <1>4, SetFresh
<1> HIDE DEF w
<1>6. Same(w, proc[p])
  BY ONLY <1>2, <1>3, <1>5 DEF Same
<1> QED BY <1>1, <1>2, <1>3, <1>5, <1>6

LEMMA RefreshHitStep ==
  ASSUME Constants, IInv, NEW p \in Procs, refreshHit(p)
  PROVE  IInv'
<1>1. /\ proc[p].pc = "touchHit" /\ proc[p] \in Call /\ CallOK(p)
      /\ UNCHANGED <<now, job, entry, tomb, late, ensured, endedAt, epoch, published, epochCache>>
      /\ proc \in [Procs -> Call] /\ used \in [Sids -> Nat]
      /\ inFlight \in [Nodes -> [Sids -> Procs \cup {None}]]
  BY DEF refreshHit, setup, redisVars, IInv, Types, Calls
<1>2. PICK s \in Sids, n \in Nodes : s = Sid(p) /\ n = Node(p)
  BY CallInfo DEF IInv, Types
<1>3. Op(p) \in Lookups
  BY <1>1 DEF CallOK, Kind, Lookups
<1>4. /\ proc[p].must = {} /\ CacheRec(s, proc[p].rec, proc[p].fresh)
      /\ proc[p].cut <= Clock(n) /\ proc[p].cut \in Nat /\ proc[p].rec \in Recs
      /\ proc[p].fresh \in Nat
  BY <1>1, <1>2 DEF CallOK, Held, Holding, Call
<1>5. Clock(n) \in Nat /\ now <= Clock(n) /\ now \in Nat /\ Clock(n) <= now + MaxSkew
  BY ClockIs DEF IInv, Types
<1>6. Sid(p)' = s /\ Node(p)' = n
  BY <1>1, <1>2 DEF Sid, Node
<1>7. CASE /\ touches(p)
           /\ row' = [row EXCEPT ![Sid(p)].seen = Clock(Node(p))]
           /\ used' = [used EXCEPT ![Sid(p)] = now]
           /\ proc' = [proc EXCEPT ![p] = [proc[p] EXCEPT !.pc = "fill", !.rec.seen = proc[p].cut]]
           /\ UNCHANGED inFlight
  <2>1. PICK q \in Call :
          /\ proc' = [proc EXCEPT ![p] = q]
          /\ q.pc = "fill" /\ Same(q, proc[p]) /\ q.look = proc[p].look
          /\ q.fresh = proc[p].fresh /\ q.rec.seen = proc[p].cut
    <3> DEFINE rec == [proc[p].rec EXCEPT !.seen = proc[p].cut]
               a == [proc[p] EXCEPT !.pc = "fill"]
               q == [a EXCEPT !.rec = rec]
    <3>1. rec \in Recs /\ rec.seen = proc[p].cut
      BY <1>4 DEF Recs
    <3>2. "fill" \in Pcs
      BY DEF Pcs
    <3>3. a \in Call /\ Same(a, proc[p]) /\ a.pc = "fill" /\ a.look = proc[p].look
          /\ a.fresh = proc[p].fresh /\ a.rec = proc[p].rec
      BY <1>1, <3>2, SetPc
    <3>4. proc' = [proc EXCEPT ![p] = q]
      <4>1. [proc[p] EXCEPT !.pc = "fill", !.rec.seen = proc[p].cut]
              = [a EXCEPT !.rec = [a.rec EXCEPT !.seen = proc[p].cut]]
        OBVIOUS
      <4> HIDE DEF a
      <4>2. [a EXCEPT !.rec = [a.rec EXCEPT !.seen = proc[p].cut]] = q
        BY <3>3
      <4> HIDE DEF q
      <4> QED BY <1>7, <4>1, <4>2
    <3> HIDE DEF a, rec
    <3>5. q \in Call /\ Same(q, a) /\ q.pc = "fill" /\ q.look = a.look /\ q.rec = rec
          /\ q.fresh = a.fresh
      BY <3>1, <3>3, SetRec
    <3> HIDE DEF q
    <3>6. Same(q, proc[p])
      BY ONLY <3>3, <3>5 DEF Same
    <3> QED BY <3>1, <3>3, <3>4, <3>5, <3>6
  <2>2. proc' \in [Procs -> Call]
    BY <1>1, <2>1
  <2>3. /\ Stands /\ Types' /\ Rows' /\ Cache' /\ endedAt[s] = None
        /\ row'[s].st = "live" /\ row'[s].seen = Clock(n)
    BY <1>1, <1>2, <1>7, <2>2, TouchWorld
  <2>4. CacheRec(Sid(p), q.rec, q.fresh)'
    <3>1. FreshOK(s, q.fresh)
      BY <1>4, <2>1 DEF CacheRec
    <3>2. q.rec.seen <= row'[s].seen
      BY <1>4, <2>1, <2>3
    <3> QED BY <1>1, <1>6, <2>3, <3>1, <3>2 DEF CacheRec, FreshOK
  <2>5. Calls' /\ Flights'
    BY <1>1, <1>2, <1>7, <2>1, <2>3, <2>4, WorkerOK DEF IInv
  <2> QED BY <2>3, <2>5 DEF IInv
<1>8. CASE /\ ~touches(p)
           /\ proc' = [proc EXCEPT ![p] = readThrough(p, TRUE)]
           /\ UNCHANGED <<row, used, inFlight>>
  <2>1. PICK q \in Call :
          /\ proc' = [proc EXCEPT ![p] = q]
          /\ q.pc = "find" /\ Same(q, proc[p]) /\ q.look = proc[p].look
          /\ q.fresh = Clock(n) + CacheTtl
    BY <1>1, <1>2, <1>5, <1>8, ReadThroughIs
  <2>2. EpochTyped' /\ used' = used /\ used' \in [Sids -> Nat] /\ late' = late
        /\ inFlight' \in [Nodes -> [Sids -> Procs \cup {None}]]
    BY <1>1, <1>8 DEF IInv, Types, EpochTyped
  <2>3. Stands /\ Types' /\ Rows' /\ Cache' /\ Calls /\ Flights
    BY <1>1, <1>8, <2>1, <2>2, SoloStep
  <2>4. q.fresh <= now' + MaxSkew + CacheTtl
    BY <1>1, <1>5, <2>1 DEF Constants
  <2>5. Calls' /\ Flights'
    BY <1>1, <1>8, <2>1, <2>3, <2>4, WorkerOK DEF Holding
  <2> QED BY <2>3, <2>5 DEF IInv
<1>9. CASE "store" \in Faults /\ Answer(p, FALSE, NoRec) /\ UNCHANGED <<row, used>>
  BY <1>1, <1>3, <1>9, StoreFails DEF refreshHit, setup, dbVars, redisVars
<1> QED BY <1>7, <1>8, <1>9 DEF refreshHit, touch

\* A record of a call, on its way to the cache or to the answer.
LEMMA FillingIs ==
  ASSUME NEW r \in Call
  PROVE  LET q == Filling(r)
         IN  /\ q \in Call /\ Same(q, r) /\ q.pc \in {"fill", "answer"} /\ q.look = r.look
             /\ q.rec = r.rec /\ q.fresh = r.fresh
<1>1. PICK pc \in Pcs : pc \in {"fill", "answer"} /\ Filling(r) = [r EXCEPT !.pc = pc]
  BY DEF Filling, Pcs
<1> QED BY <1>1, SetPc

LEMMA FindStep ==
  ASSUME Constants, IInv, NEW p \in Procs, find(p)
  PROVE  IInv'
<1>1. /\ proc[p].pc = "find" /\ proc[p] \in Call /\ CallOK(p)
      /\ UNCHANGED <<now, job, row, entry, tomb, late, ensured, endedAt,
                     epoch, published, epochCache>>
      /\ proc \in [Procs -> Call] /\ used \in [Sids -> Nat]
      /\ inFlight \in [Nodes -> [Sids -> Procs \cup {None}]]
  BY DEF find, setup, dbVars, redisVars, IInv, Types, Calls
<1>2. PICK s \in Sids, n \in Nodes : s = Sid(p) /\ n = Node(p)
  BY CallInfo DEF IInv, Types
<1>3. Op(p) \in Lookups
  BY <1>1 DEF CallOK, Kind, Lookups
<1>4. proc[p].fresh <= now + MaxSkew + CacheTtl
  BY <1>1 DEF CallOK, Held
<1>5. PICK at \in Nat : at = Clock(n) /\ now <= at /\ now \in Nat /\ at <= now + MaxSkew
  BY ClockIs DEF IInv, Types
<1>6. Sid(p)' = s /\ Node(p)' = n /\ Clock(Node(p))' = at
  BY <1>1, <1>2, <1>5 DEF Sid, Node, Clock
<1> DEFINE rec == [created |-> row[s].created, seen |-> row[s].seen]
<1>7. rec \in Recs /\ rec.seen = row[s].seen /\ row[s].seen \in Nat
  BY DEF Recs, Row, IInv, Types
<1>8. EpochTyped' /\ inFlight \in [Nodes -> [Sids -> Procs \cup {None}]]
  BY <1>1 DEF IInv, Types, EpochTyped
<1> HIDE DEF rec
<1>9. ASSUME row[s].st = "live", NEW q \in Call, q.rec = rec, q.fresh = proc[p].fresh,
             proc'[p] = q
      PROVE  endedAt[s] = None /\ CacheRec(Sid(p), q.rec, q.fresh)'
  <2>1. endedAt[s] = None
    BY <1>9 DEF IInv, Rows, RowOK
  <2> QED BY <1>1, <1>4, <1>6, <1>7, <1>9, <2>1 DEF CacheRec, FreshOK
<1>10. CASE Answer(p, FALSE, NoRec) /\ UNCHANGED used
  BY <1>3, <1>10, StoreFails DEF find
<1>11. CASE /\ row[s].st = "live"
            /\ proc' = [proc EXCEPT ![p] = [proc[p] EXCEPT !.pc = "touchRead", !.rec = rec, !.cut = at]]
            /\ UNCHANGED <<inFlight, used>>
  <2>1. PICK q \in Call :
          /\ proc' = [proc EXCEPT ![p] = q]
          /\ q.pc = "touchRead" /\ Same(q, proc[p]) /\ q.look = proc[p].look
          /\ q.fresh = proc[p].fresh /\ q.rec = rec /\ q.cut = at
    <3> DEFINE a == [proc[p] EXCEPT !.pc = "touchRead"]
               b == [a EXCEPT !.rec = rec]
               c == [b EXCEPT !.cut = at]
    <3>1. proc' = [proc EXCEPT ![p] = c]
      BY <1>11
    <3>2. a \in Call /\ Same(a, proc[p]) /\ a.pc = "touchRead" /\ a.look = proc[p].look
          /\ a.fresh = proc[p].fresh
      <4>1. "touchRead" \in Pcs
        BY DEF Pcs
      <4> QED BY <1>1, <4>1, SetPc
    <3> HIDE DEF a
    <3>3. b \in Call /\ Same(b, a) /\ b.pc = a.pc /\ b.look = a.look /\ b.rec = rec
          /\ b.fresh = a.fresh
      BY <1>7, <3>2, SetRec
    <3> HIDE DEF b
    <3>4. c \in Call /\ Same(c, b) /\ c.pc = b.pc /\ c.look = b.look /\ c.rec = b.rec
          /\ c.fresh = b.fresh /\ c.cut = at
      BY <3>3, SetCut
    <3> HIDE DEF c
    <3>5. Same(c, proc[p])
      BY ONLY <3>2, <3>3, <3>4 DEF Same
    <3> QED BY <3>1, <3>2, <3>3, <3>4, <3>5
  <2>2. Stands /\ Types' /\ Rows' /\ Cache' /\ Calls /\ Flights /\ proc'[p] = q
    <3>1. used' \in [Sids -> Nat] /\ used' = used /\ late' = late
          /\ inFlight' \in [Nodes -> [Sids -> Procs \cup {None}]]
      BY <1>1, <1>11
    <3> QED BY <1>1, <1>8, <2>1, <3>1, SoloStep
  <2>3. endedAt[Sid(p)] = None /\ CacheRec(Sid(p), q.rec, q.fresh)'
    BY <1>2, <1>9, <1>11, <2>1, <2>2
  <2>4. q.cut <= Clock(Node(p))'
    BY <1>5, <1>6, <2>1
  <2>5. Calls' /\ Flights'
    <3>1. q.pc \in {"find", "touchRead", "fill", "answer"} /\ q.pc # "find"
          /\ proc[p].pc \in {"find", "touchHit", "touchRead"}
      BY <1>1, <2>1
    <3> QED BY <1>1, <1>11, <2>1, <2>2, <2>3, <2>4, <3>1, WorkerOK
  <2> QED BY <2>2, <2>5 DEF IInv
<1>12. CASE /\ row[s].st = "live" /\ ~touchIsDue(rec, at)
            /\ proc' = [proc EXCEPT ![p] = Filling([proc[p] EXCEPT !.rec = rec])]
            /\ used' = [used EXCEPT ![Sid(p)] = now]
            /\ UNCHANGED inFlight
  <2>1. PICK q \in Call :
          /\ proc' = [proc EXCEPT ![p] = q]
          /\ q.pc \in {"fill", "answer"} /\ Same(q, proc[p]) /\ q.look = proc[p].look
          /\ q.fresh = proc[p].fresh /\ q.rec = rec
    <3> DEFINE a == [proc[p] EXCEPT !.rec = rec]
               q == Filling(a)
    <3>1. proc' = [proc EXCEPT ![p] = q]
      BY <1>12
    <3>2. a \in Call /\ Same(a, proc[p]) /\ a.look = proc[p].look
          /\ a.fresh = proc[p].fresh /\ a.rec = rec
      BY <1>1, <1>7, SetRec
    <3> HIDE DEF a
    <3>3. /\ q \in Call /\ Same(q, a) /\ q.pc \in {"fill", "answer"} /\ q.look = a.look
          /\ q.rec = a.rec /\ q.fresh = a.fresh
      BY <3>2, FillingIs
    <3> HIDE DEF q
    <3>4. Same(q, proc[p])
      BY ONLY <3>2, <3>3 DEF Same
    <3> QED BY <3>1, <3>2, <3>3, <3>4
  <2>2. Stands /\ Types' /\ Cache' /\ Calls /\ Flights /\ proc'[p] = q
    <3>1. used' \in [Sids -> Nat] /\ late' = late
          /\ inFlight' \in [Nodes -> [Sids -> Procs \cup {None}]]
      BY <1>1, <1>2, <1>5, <1>12
    <3> QED BY <1>1, <1>8, <2>1, <3>1, SoloStep
  <2>3. endedAt[Sid(p)] = None /\ CacheRec(Sid(p), q.rec, q.fresh)'
    BY <1>2, <1>9, <1>12, <2>1, <2>2
  <2>4. Calls' /\ Flights'
    BY <1>1, <1>6, <1>12, <2>1, <2>2, <2>3, WorkerOK
  <2>5. Rows'
    <3>1. ~(at >= row[s].seen + lastSeenInterval) /\ lastSeenInterval \in Nat
      BY <1>7, <1>12 DEF touchIsDue, Constants
    <3>2. now <= row[s].seen + lastSeenInterval
      BY ONLY <1>5, <1>7, <3>1
    <3> QED BY <1>1, <1>2, <1>12, <2>2, <3>2, UsedNow DEF IInv
  <2> QED BY <2>2, <2>4, <2>5 DEF IInv
<1> QED
  <2>1. \/ Answer(p, FALSE, NoRec) /\ UNCHANGED used
        \/ /\ row[s].st = "live"
           /\ proc' = [proc EXCEPT ![p] = [proc[p] EXCEPT !.pc = "touchRead", !.rec = rec, !.cut = at]]
           /\ UNCHANGED <<inFlight, used>>
        \/ /\ row[s].st = "live" /\ ~touchIsDue(rec, at)
           /\ proc' = [proc EXCEPT ![p] = Filling([proc[p] EXCEPT !.rec = rec])]
           /\ used' = [used EXCEPT ![Sid(p)] = now]
           /\ UNCHANGED inFlight
    BY <1>2, <1>5 DEF find, rec
  <2> QED BY <1>10, <1>11, <1>12, <2>1

LEMMA TouchReadStep ==
  ASSUME Constants, IInv, NEW p \in Procs, touchRead(p)
  PROVE  IInv'
<1>1. /\ proc[p].pc = "touchRead" /\ proc[p] \in Call /\ CallOK(p)
      /\ UNCHANGED <<now, job, entry, tomb, late, ensured, endedAt, epoch, published, epochCache>>
      /\ proc \in [Procs -> Call] /\ used \in [Sids -> Nat]
      /\ inFlight \in [Nodes -> [Sids -> Procs \cup {None}]]
  BY DEF touchRead, setup, redisVars, IInv, Types, Calls
<1>2. PICK s \in Sids, n \in Nodes : s = Sid(p) /\ n = Node(p)
  BY CallInfo DEF IInv, Types
<1>3. Op(p) \in Lookups
  BY <1>1 DEF CallOK, Kind, Lookups
<1>4. /\ CacheRec(s, proc[p].rec, proc[p].fresh)
      /\ proc[p].cut <= Clock(n) /\ proc[p].cut \in Nat /\ proc[p].rec \in Recs
      /\ proc[p].fresh \in Nat
  BY <1>1, <1>2 DEF CallOK, Held, Holding, Call
<1>5. Clock(n) \in Nat /\ now <= Clock(n) /\ now \in Nat
  BY ClockIs DEF IInv, Types
<1>6. Sid(p)' = s /\ Node(p)' = n
  BY <1>1, <1>2 DEF Sid, Node
<1>7. CASE /\ touches(p)
           /\ row' = [row EXCEPT ![Sid(p)].seen = Clock(Node(p))]
           /\ used' = [used EXCEPT ![Sid(p)] = now]
           /\ proc' = [proc EXCEPT ![p] = Filling([proc[p] EXCEPT !.rec.seen = proc[p].cut])]
           /\ UNCHANGED inFlight
  <2>1. PICK q \in Call :
          /\ proc' = [proc EXCEPT ![p] = q]
          /\ q.pc \in {"fill", "answer"} /\ Same(q, proc[p]) /\ q.look = proc[p].look
          /\ q.fresh = proc[p].fresh /\ q.rec.seen = proc[p].cut
    <3> DEFINE rec == [proc[p].rec EXCEPT !.seen = proc[p].cut]
               a == [proc[p] EXCEPT !.rec = rec]
               q == Filling(a)
    <3>1. rec \in Recs /\ rec.seen = proc[p].cut
      BY <1>4 DEF Recs
    <3>2. proc' = [proc EXCEPT ![p] = q]
      BY <1>7
    <3> HIDE DEF rec
    <3>3. a \in Call /\ Same(a, proc[p]) /\ a.look = proc[p].look
          /\ a.fresh = proc[p].fresh /\ a.rec = rec
      BY <1>1, <3>1, SetRec
    <3> HIDE DEF a
    <3>4. /\ q \in Call /\ Same(q, a) /\ q.pc \in {"fill", "answer"} /\ q.look = a.look
          /\ q.rec = a.rec /\ q.fresh = a.fresh
      BY <3>3, FillingIs
    <3> HIDE DEF q
    <3>5. Same(q, proc[p])
      BY ONLY <3>3, <3>4 DEF Same
    <3> QED BY <3>1, <3>2, <3>3, <3>4, <3>5
  <2>2. proc' \in [Procs -> Call]
    BY <1>1, <2>1
  <2>3. /\ Stands /\ Types' /\ Rows' /\ Cache' /\ endedAt[s] = None
        /\ row'[s].st = "live" /\ row'[s].seen = Clock(n)
    BY <1>1, <1>2, <1>7, <2>2, TouchWorld
  <2>4. CacheRec(Sid(p), q.rec, q.fresh)'
    <3>1. FreshOK(s, q.fresh)
      BY <1>4, <2>1 DEF CacheRec
    <3>2. q.rec.seen <= row'[s].seen
      BY <1>4, <2>1, <2>3
    <3> QED BY <1>1, <1>6, <2>3, <3>1, <3>2 DEF CacheRec, FreshOK
  <2>5. Calls' /\ Flights'
    BY <1>1, <1>2, <1>7, <2>1, <2>3, <2>4, WorkerOK DEF IInv
  <2> QED BY <2>3, <2>5 DEF IInv
<1>8. CASE /\ ~touches(p)
           /\ proc' = [proc EXCEPT ![p] = Filling(proc[p])]
           /\ UNCHANGED <<row, used, inFlight>>
  <2>1. PICK q \in Call :
          /\ proc' = [proc EXCEPT ![p] = q]
          /\ q.pc \in {"fill", "answer"} /\ Same(q, proc[p]) /\ q.look = proc[p].look
          /\ q.fresh = proc[p].fresh /\ q.rec = proc[p].rec
    BY <1>1, <1>8, FillingIs
  <2>2. EpochTyped' /\ used' = used /\ used' \in [Sids -> Nat] /\ late' = late
        /\ inFlight' \in [Nodes -> [Sids -> Procs \cup {None}]]
    BY <1>1, <1>8 DEF IInv, Types, EpochTyped
  <2>3. Stands /\ Types' /\ Rows' /\ Cache' /\ Calls /\ Flights
    BY <1>1, <1>8, <2>1, <2>2, SoloStep
  <2>4. CacheRec(Sid(p), q.rec, q.fresh)'
    <3>1. CacheRec(s, q.rec, q.fresh)
      BY <1>4, <2>1
    <3> QED BY <1>1, <1>6, <1>8, <3>1 DEF CacheRec, FreshOK
  <2>5. Calls' /\ Flights'
    BY <1>1, <1>8, <2>1, <2>3, <2>4, WorkerOK
  <2> QED BY <2>3, <2>5 DEF IInv
<1>9. CASE "store" \in Faults /\ Answer(p, FALSE, NoRec) /\ UNCHANGED <<row, used>>
  BY <1>1, <1>3, <1>9, StoreFails DEF touchRead, setup, dbVars, redisVars
<1> QED BY <1>7, <1>8, <1>9 DEF touchRead, touch

LEMMA AnsweringStep ==
  ASSUME Constants, IInv, NEW p \in Procs, answer(p)
  PROVE  IInv'
<1>1. proc[p].pc = "answer" /\ CallOK(p) /\ proc[p].rec \in Recs
  BY DEF answer, IInv, Calls, Types, Call
<1>2. Op(p) \in Lookups
  BY <1>1 DEF CallOK, Kind, Lookups
<1> QED BY <1>1, <1>2, AnswerStep DEF answer

-----------------------------------------------------------------------------
(***************************************************************************)
(* Writes to Redis, at once or late.                                       *)
(***************************************************************************)
LEMMA WriteIs ==
  ASSUME Constants, IInv, NEW l, LateOK(l),
         write(l) \/ UNCHANGED <<entry, tomb, epochCache, published>>,
         late' \subseteq late \cup {l}, UNCHANGED <<now, row, endedAt, ensured>>, epoch' \in Nat
  PROVE  /\ entry' \in [Sids -> [rec : Recs, fresh : Nat, dies : Nat]]
         /\ tomb' \in [Sids -> Nat] /\ \A s \in Sids : tomb[s] <= tomb'[s]
         /\ EpochTyped' /\ Cache'
<1>1. /\ entry \in [Sids -> [rec : Recs, fresh : Nat, dies : Nat]] /\ tomb \in [Sids -> Nat]
      /\ epochCache \in [at : Nat, dies : Nat] /\ published \in [at : Nat, dies : Nat]
      /\ now \in Nat
      /\ CacheTtl \in Nat /\ endedAt \in [Sids -> Nat \cup {None}]
  BY DEF IInv, Types, Constants, CachedEpoch
<1>2. \A s \in Sids : CacheOK(s)
  BY DEF IInv, Cache
<1>3. \A s \in Sids : /\ tomb[s] <= now + 2 * CacheTtl
                      /\ entry[s].dies # 0 => CacheRec(s, entry[s].rec, entry[s].fresh)
                      /\ ensured[s] # {} => Tombed(s)
  BY <1>2 DEF CacheOK
<1>4. ASSUME NEW s, NEW rec, NEW fresh, CacheRec(s, rec, fresh)
      PROVE  CacheRec(s, rec, fresh)'
  BY <1>4 DEF CacheRec, FreshOK
<1>5. \A m \in late \cup {l} : LateOK(m)'
  <2> TAKE m \in late \cup {l}
  <2>1. LateOK(m)
    BY DEF IInv, Cache
  <2> QED BY <1>4, <2>1 DEF LateOK
<1>6. \A s \in Sids : tomb[s] <= tomb'[s] /\ Tombed(s) => Tombed(s)'
  <2> TAKE s \in Sids
  <2> HAVE tomb[s] <= tomb'[s] /\ Tombed(s)
  <2>1. endedAt[s] \in Nat /\ tomb[s] >= endedAt[s] + 2 * CacheTtl
    BY <1>1 DEF Tombed
  <2> QED
    <3>1. CASE tomb'[s] \in Nat
      <4>1. tomb'[s] >= endedAt[s] + 2 * CacheTtl
        BY ONLY <1>1, <2>1, <3>1, tomb[s] <= tomb'[s], s \in Sids
      <4> QED BY <4>1 DEF Tombed
    <3>2. CASE tomb' = tomb
      BY <2>1, <3>2 DEF Tombed
    <3>3. tomb' = tomb \/ tomb'[s] \in Nat
      <4>1. CASE write(l)
        <5>1. CASE l.w = "tomb" /\ l.s \in Sids /\ l.ttl = 2 * CacheTtl
          <6>1. tomb' = [tomb EXCEPT ![l.s] = now + l.ttl]
            BY <4>1, <5>1 DEF write
          <6> QED BY <1>1, <5>1, <6>1
        <5>2. CASE l.w # "tomb"
          BY <4>1, <5>2 DEF write
        <5> QED BY <5>1, <5>2 DEF LateOK
      <4> QED BY <4>1
    <3> QED BY <3>1, <3>2, <3>3
<1>7. SUFFICES /\ entry' \in [Sids -> [rec : Recs, fresh : Nat, dies : Nat]]
               /\ tomb' \in [Sids -> Nat]
               /\ epochCache' \in [at : Nat, dies : Nat] /\ published' \in [at : Nat, dies : Nat]
               /\ \A s \in Sids :
                    /\ tomb[s] <= tomb'[s] /\ tomb'[s] <= now + 2 * CacheTtl
                    /\ entry'[s].dies # 0 => CacheRec(s, entry'[s].rec, entry'[s].fresh)
  <2>1. ASSUME NEW s \in Sids, entry'[s].dies # 0 => CacheRec(s, entry'[s].rec, entry'[s].fresh)
        PROVE  entry'[s].dies # 0 => CacheRec(s, entry[s].rec, entry[s].fresh)'
    BY <2>1 DEF CacheRec, FreshOK
  <2> QED BY <1>3, <1>5, <1>6, <2>1 DEF Cache, CacheOK, EpochTyped, CachedEpoch
<1>8. ASSUME UNCHANGED <<entry, tomb>>
      PROVE  /\ entry' \in [Sids -> [rec : Recs, fresh : Nat, dies : Nat]]
             /\ tomb' \in [Sids -> Nat]
             /\ \A s \in Sids :
                  /\ tomb[s] <= tomb'[s] /\ tomb'[s] <= now + 2 * CacheTtl
                  /\ entry'[s].dies # 0 => CacheRec(s, entry'[s].rec, entry'[s].fresh)
  <2>1. \A s \in Sids : tomb[s] <= tomb[s]
    BY <1>1
  <2> QED BY <1>1, <1>3, <1>8, <2>1
<1>9. CASE UNCHANGED <<entry, tomb, epochCache, published>>
  BY <1>1, <1>8, <1>9
<1>10. CASE write(l) /\ l.w = "entry"
  <2>1. l.s \in Sids /\ l.rec \in Recs /\ l.fresh \in Nat /\ l.ttl \in Nat
        /\ CacheRec(l.s, l.rec, l.fresh)
    BY <1>10 DEF LateOK
  <2>2. /\ entry' = [entry EXCEPT ![l.s] = [rec |-> l.rec, fresh |-> l.fresh, dies |-> now + l.ttl]]
        /\ tomb' = tomb /\ epochCache' = epochCache /\ published' = published
    BY <1>10 DEF write
  <2>3. entry' \in [Sids -> [rec : Recs, fresh : Nat, dies : Nat]]
    BY <1>1, <2>1, <2>2
  <2>4. \A s \in Sids : entry'[s].dies # 0 => CacheRec(s, entry'[s].rec, entry'[s].fresh)
    <3> TAKE s \in Sids
    <3>1. CASE s = l.s
      <4>1. entry'[s] = [rec |-> l.rec, fresh |-> l.fresh, dies |-> now + l.ttl]
        BY <1>1, <2>2, <3>1
      <4> QED BY <2>1, <3>1, <4>1
    <3>2. CASE s # l.s
      BY <1>1, <1>3, <2>2, <3>2
    <3> QED BY <3>1, <3>2
  <2>5. \A s \in Sids : tomb[s] <= tomb[s]
    BY <1>1
  <2> QED BY <1>1, <1>3, <2>2, <2>3, <2>4, <2>5
<1>11. CASE write(l) /\ l.w = "tomb"
  <2>1. l.s \in Sids /\ l.ttl = 2 * CacheTtl
    BY <1>11 DEF LateOK
  <2>2. /\ tomb' = [tomb EXCEPT ![l.s] = now + 2 * CacheTtl]
        /\ entry' = entry /\ epochCache' = epochCache /\ published' = published
    BY <1>11, <2>1 DEF write
  <2>3. now + 2 * CacheTtl \in Nat
    BY <1>1
  <2>4. \A s \in Sids : tomb'[s] = tomb[s] \/ tomb'[s] = now + 2 * CacheTtl
    BY <1>1, <2>2
  <2>5. tomb' \in [Sids -> Nat]
    BY <1>1, <2>2, <2>3
  <2>6. \A s \in Sids : tomb[s] <= tomb'[s] /\ tomb'[s] <= now + 2 * CacheTtl
    BY <1>1, <1>3, <2>3, <2>4
  <2> QED BY <1>1, <1>3, <2>2, <2>5, <2>6
<1>12. CASE write(l) /\ l.w = "epoch"
  <2>1. l.fresh \in Nat /\ l.ttl \in Nat
    BY <1>12 DEF LateOK
  <2>2. /\ epochCache' = [at |-> l.fresh, dies |-> now + l.ttl] /\ published' = epochCache'
        /\ UNCHANGED <<entry, tomb>>
    BY <1>12 DEF write
  <2> QED BY <1>1, <1>8, <2>1, <2>2
<1>13. CASE write(l) /\ l.w = "fill"
  <2>1. l.fresh \in Nat
    BY <1>13 DEF LateOK
  <2>2. /\ epochCache' = FillEmpty(l.fresh) /\ published' = published
        /\ UNCHANGED <<entry, tomb>>
    BY <1>13 DEF write
  <2>3. epochCache' \in [at : Nat, dies : Nat]
    BY <1>1, <2>1, <2>2 DEF FillEmpty
  <2> QED BY <1>1, <1>8, <2>2, <2>3
<1> QED BY <1>9, <1>10, <1>11, <1>12, <1>13 DEF LateOK

\* The entry is written, or not, and the answer goes out.
LEMMA FillCacheStep ==
  ASSUME Constants, IInv, NEW p \in Procs, fillCache(p)
  PROVE  IInv'
<1>1. /\ proc[p].pc = "fill" /\ proc[p] \in Call /\ CallOK(p) /\ Answer(p, TRUE, proc[p].rec)
      /\ UNCHANGED <<now, job, row, endedAt, epoch, ensured, used>>
  BY DEF fillCache, setup, dbVars, IInv, Calls, Types
<1>2. PICK s \in Sids, n \in Nodes : s = Sid(p) /\ n = Node(p)
  BY CallInfo DEF IInv, Types
<1>3. Op(p) \in {"get", "resolve", "create"} /\ None \notin Procs
  BY <1>1 DEF CallOK, Kind, Constants
<1>4. PICK rec \in Recs, fresh \in Nat : rec = proc[p].rec /\ fresh = proc[p].fresh
  BY <1>1 DEF Call
<1>5. CacheRec(s, rec, fresh)
  BY <1>1, <1>2, <1>4 DEF CallOK, Held, Holding
<1>6. Clock(n) \in Nat
  BY ClockIs DEF IInv, Types
<1>7. PICK until \in Nat : until = FreshUntil(p) /\ until <= fresh
  <2>1. PICK end \in Nat : end = sessionEnd(rec)
    BY DEF sessionEnd, absoluteEnd, idleEnd, Lesser, Recs, Constants
  <2>2. FreshUntil(p) = IF fresh <= end THEN fresh ELSE end
    BY <1>4, <2>1 DEF FreshUntil, Lesser
  <2> QED BY <2>2
<1>8. CacheRec(s, rec, until)
  <2>1. FreshOK(s, fresh)
    BY <1>5 DEF CacheRec
  <2>2. endedAt[s] # None => endedAt[s] \in Nat
    BY DEF IInv, Types
  <2>3. now \in Nat /\ MaxSkew \in Nat /\ CacheTtl \in Nat
    BY DEF IInv, Types, Constants
  <2>4. FreshOK(s, until)
    <3>1. endedAt[s] = None => until <= now + MaxSkew + CacheTtl
      <4>1. endedAt[s] = None => fresh <= now + MaxSkew + CacheTtl
        BY <2>1 DEF FreshOK
      <4> QED BY ONLY <1>7, <2>3, <4>1, fresh \in Nat
    <3>2. endedAt[s] # None => until <= endedAt[s] + MaxSkew + CacheTtl
      <4>1. endedAt[s] # None => fresh <= endedAt[s] + MaxSkew + CacheTtl
        BY <2>1 DEF FreshOK
      <4> QED BY ONLY <1>7, <2>2, <2>3, <4>1, fresh \in Nat
    <3> QED BY <3>1, <3>2 DEF FreshOK
  <2> QED BY <1>5, <2>4 DEF CacheRec
<1>9. /\ entry' \in [Sids -> [rec : Recs, fresh : Nat, dies : Nat]]
      /\ tomb' \in [Sids -> Nat] /\ \A t \in Sids : tomb[t] <= tomb'[t]
      /\ EpochTyped' /\ Cache'
  <2>1. epoch' \in Nat
    BY <1>1 DEF IInv, Types
  <2> DEFINE l(ttl) == EntryWrite(s, rec, until, ttl)
  <2>2. ASSUME NEW ttl \in Nat PROVE LateOK(l(ttl))
    BY <1>8 DEF LateOK, EntryWrite
  <2>3. CASE until > Clock(n)
    <3>1. PICK ttl \in Nat : ttl = until - Clock(n)
      BY <1>6, <2>3
    <3>2. bounded(l(ttl))
      BY <1>2, <1>4, <1>7, <2>3, <3>1 DEF fillCache
    <3>3. LateOK(l(ttl))
      BY <2>2
    <3>4. /\ write(l(ttl)) \/ UNCHANGED <<entry, tomb, epochCache, published>>
          /\ late' \subseteq late \cup {l(ttl)}
      <4> HIDE DEF l
      <4> QED BY <3>2 DEF bounded, done, lost
    <3> HIDE DEF l
    <3> QED BY <1>1, <2>1, <3>3, <3>4, WriteIs
  <2>4. CASE ~(until > Clock(n))
    <3>1. UNCHANGED <<entry, tomb, late, epochCache, published>>
      BY <1>2, <1>7, <2>4 DEF fillCache, redisVars
    <3>2. LateOK(l(0))
      BY <2>2
    <3>3. late' \subseteq late \cup {l(0)}
      BY <3>1
    <3> HIDE DEF l
    <3> QED BY <1>1, <2>1, <3>1, <3>2, <3>3, WriteIs
  <2> QED BY <2>3, <2>4
<1>10. proc' \in [Procs -> Call]
  BY <1>1, <1>3, <1>4, AnswerMoves DEF IInv
<1>11. Flights' /\ inFlight' \in [Nodes -> [Sids -> Procs \cup {None}]]
  BY <1>1, <1>2, <1>3, <1>4, AnswerFlights DEF IInv
<1>12. Types'
  BY <1>1, <1>9, <1>10, <1>11 DEF IInv, Types, EpochTyped
<1>13. Grows
  BY <1>1, <1>9 DEF IInv, Types, Grows, Row
<1>14. Stands
  BY <1>12, <1>13 DEF Stands, IInv
<1>15. Calls'
  BY <1>1, <1>3, <1>4, <1>14, AnswerCalls DEF IInv
<1>16. Rows'
  BY <1>1, <1>12, RowsStay DEF IInv, Types
<1> QED BY <1>9, <1>11, <1>12, <1>15, <1>16 DEF IInv

\* A new session is written, then its entry.
LEMMA CreateStep ==
  ASSUME Constants, IInv, NEW p \in Procs, create(p)
  PROVE  IInv'
<1>1. /\ Op(p) = "create" /\ proc[p].pc = "start" /\ proc[p] \in Call /\ CallOK(p)
      /\ row[Sid(p)].st = "absent"
      /\ UNCHANGED <<now, job, entry, tomb, late, ensured, endedAt, inFlight,
                     epoch, published, epochCache>>
      /\ proc \in [Procs -> Call] /\ used \in [Sids -> Nat] /\ row \in [Sids -> Row]
  BY DEF create, setup, redisVars, IInv, Types, Calls
<1>2. PICK s \in Sids, n \in Nodes : s = Sid(p) /\ n = Node(p)
  BY CallInfo DEF IInv, Types
<1>3. PICK at \in Nat : at = Clock(n) /\ now <= at /\ now \in Nat /\ at <= now + MaxSkew
  BY ClockIs DEF IInv, Types
<1>4. /\ CacheTtl \in Nat /\ MaxSkew \in Nat /\ lastSeenInterval \in Nat
  BY DEF Constants
<1> DEFINE rec == [created |-> at, seen |-> at]
           rw == [st |-> "live", created |-> at, seen |-> at]
           q == [Idle EXCEPT !.pc = "fill", !.fresh = at + CacheTtl, !.rec = rec]
<1>5. /\ row' = [row EXCEPT ![s] = rw] /\ used' = [used EXCEPT ![s] = now]
      /\ proc' = [proc EXCEPT ![p] = q]
  BY <1>2, <1>3 DEF create
<1>6. rw \in Row /\ rw.st = "live" /\ rw.created = at /\ rw.seen = at
      /\ rec \in Recs /\ rec.seen = at
  BY DEF Row, Recs
<1> HIDE DEF rw, rec
<1>7. /\ q \in Call /\ q.pc = "fill" /\ q.must = {} /\ q.look = "none" /\ q.via = "none"
      /\ q.took = {} /\ q.dels = {} /\ q.rec = rec /\ q.fresh = at + CacheTtl
  <2>1. /\ q.pc = "fill" /\ q.must = {} /\ q.look = "none" /\ q.via = "none"
        /\ q.took = {} /\ q.dels = {} /\ q.rec = rec /\ q.fresh = at + CacheTtl
    BY DEF Idle
  <2>2. "fill" \in Pcs /\ at + CacheTtl \in Nat /\ Idle \in Call
    BY <1>4, IdleIs DEF Pcs
  <2> QED BY <1>6, <2>1, <2>2 DEF Call
<1> HIDE DEF q
<1>8. /\ row' \in [Sids -> Row] /\ row'[s] = rw /\ \A t \in Sids : t # s => row'[t] = row[t]
      /\ used' \in [Sids -> Nat] /\ used'[s] = now /\ \A t \in Sids : t # s => used'[t] = used[t]
      /\ proc' \in [Procs -> Call] /\ proc'[p] = q /\ Alone(p)
  BY <1>1, <1>3, <1>5, <1>6, <1>7 DEF Alone
<1>9. Types'
  BY <1>1, <1>8 DEF IInv, Types
<1>10. Grows
  <2>1. \A t \in Sids : row[t].seen \in Nat /\ tomb[t] \in Nat
    BY DEF IInv, Types, Row
  <2>2. \A t \in Sids : row[t].seen <= row[t].seen /\ tomb[t] <= tomb[t]
    BY <2>1
  <2>3. \A t \in Sids : row[t].st # "absent" => row'[t] = row[t]
    BY <1>1, <1>2, <1>8
  <2> QED BY <1>1, <1>3, <2>2, <2>3 DEF Grows
<1>11. Stands
  BY <1>9, <1>10 DEF Stands, IInv
<1>12. endedAt[s] = None
  BY <1>1, <1>2 DEF IInv, Rows, RowOK
<1>13. Rows'
  <2> SUFFICES ASSUME NEW t \in Sids PROVE RowOK(t)'
    BY DEF Rows
  <2>1. RowOK(t)
    BY DEF IInv, Rows
  <2>2. CASE t # s
    BY <1>1, <1>8, <2>1, <2>2 DEF RowOK, lastSeenInterval
  <2>3. CASE t = s
    <3>1. now <= at + lastSeenInterval
      BY ONLY <1>3, <1>4
    <3> QED BY <1>1, <1>3, <1>6, <1>8, <1>12, <2>3, <3>1 DEF RowOK, lastSeenInterval
  <2> QED BY <2>2, <2>3
<1>14. Cache'
  BY <1>1, <1>11, CacheStays DEF IInv
<1>15. CallOK(p)'
  <2>1. Op(p)' = "create" /\ Sid(p)' = s
    BY <1>1, <1>2, <1>11, SameCall
  <2>2. Kind(p)' /\ Sweeping(p)' /\ Begun(p)' /\ Known(p)' /\ Answered(p)' /\ Ending(p)'
    BY <1>7, <1>8, <2>1 DEF Kind, Sweeping, Begun, Known, Answered, Ending
  <2>3. CacheRec(Sid(p), proc[p].rec, proc[p].fresh)'
    <3>1. q.fresh <= now' + MaxSkew + CacheTtl
      BY <1>1, <1>3, <1>4, <1>7
    <3>2. q.rec.seen <= row'[s].seen /\ row'[s].st # "absent"
      BY <1>6, <1>7, <1>8
    <3> QED BY <1>1, <1>8, <1>12, <2>1, <3>1, <3>2 DEF CacheRec, FreshOK
  <2>4. Held(p)'
    BY <1>7, <1>8, <2>3 DEF Held
  <2> QED BY <2>2, <2>4 DEF CallOK
<1>16. Flights'
  BY <1>1, <1>7, <1>8, <1>11, AloneFlights DEF IInv, Working
<1>17. Calls'
  BY <1>8, <1>11, <1>15, AloneCalls DEF IInv
<1> QED BY <1>9, <1>13, <1>14, <1>16, <1>17 DEF IInv

-----------------------------------------------------------------------------
(***************************************************************************)
(* Steps that move one call past its lookup: to the epoch, to an end, or   *)
(* to its answer.                                                          *)
(***************************************************************************)
World == /\ UNCHANGED <<now, job, row, entry, tomb, ensured, endedAt, used, inFlight>>
         /\ late' = late \/ Cache'

LEMMA Passing ==
  ASSUME Constants, IInv, NEW p \in Procs, NEW r \in Call, proc' = [proc EXCEPT ![p] = r],
         proc[p].pc \in {"epoch", "epochFind", "epochFill"},
         r.pc \in {"epochFind", "epochFill", "end"}, r.pc = "end" => Op(p) = "resolve",
         Same(r, proc[p]), r.look = proc[p].look,
         World, EpochTyped'
  PROVE  IInv'
<1>1. used' \in [Sids -> Nat] /\ inFlight' \in [Nodes -> [Sids -> Procs \cup {None}]]
  BY DEF World, IInv, Types
<1>2. /\ Stands /\ Types' /\ Alone(p) /\ proc'[p] = r /\ Rows' /\ Cache' /\ Calls /\ Flights
      /\ CallOK(p)
  BY <1>1, SoloStep DEF World
<1>3. Op(p) \in {"resolve", "round"}
  BY <1>2 DEF CallOK, Kind
<1>4. /\ r.must = proc[p].must /\ r.via = proc[p].via /\ r.served = proc[p].served
      /\ r.took = {} /\ r.dels = {}
  BY <1>2 DEF Same, CallOK, Ending
<1>5. Op(p)' = Op(p) /\ Sid(p)' = Sid(p) /\ row' = row
  BY <1>2, SameCall DEF World
<1>6. CallOK(p)'
  <2>1. Kind(p)' /\ Sweeping(p)' /\ Held(p)' /\ Ending(p)'
    BY <1>2, <1>3, <1>4, <1>5 DEF Kind, Sweeping, Held, Ending, Holding
  <2>2. Known(p)' /\ Answered(p)'
    BY <1>2, <1>4, KnownStays, AnsweredStays DEF CallOK
  <2>3. Begun(p)'
    BY <1>2, <1>3, <1>5 DEF CallOK, Begun
  <2> QED BY <2>1, <2>2, <2>3 DEF CallOK
<1>7. Flights'
  BY <1>2, AloneFlights DEF Working, World
<1> QED BY <1>2, <1>6, <1>7, AloneCalls DEF IInv

LEMMA Closing ==
  ASSUME Constants, IInv, NEW p \in Procs, NEW f \in Call, proc' = [proc EXCEPT ![p] = f],
         f.pc = "done", f.look = proc[p].look, f.must = proc[p].must, f.via = proc[p].via,
         f.served = proc[p].served, f.owed = proc[p].owed, f.took = {}, f.dels = {},
         proc[p].pc \notin Working,
         Op(p) = "realm" /\ f.ans # "error" => proc[p].owed \cap Live = {},
         World, EpochTyped'
  PROVE  IInv'
<1>3. used' \in [Sids -> Nat] /\ inFlight' \in [Nodes -> [Sids -> Procs \cup {None}]]
  BY DEF World, IInv, Types
<1>4. /\ Stands /\ Types' /\ Alone(p) /\ proc'[p] = f /\ Rows' /\ Cache' /\ Calls /\ Flights
      /\ CallOK(p)
  BY <1>3, SoloStep DEF World
<1>5. Live' = Live
  BY DEF World, Live
<1>6. Op(p) = "realm" => \A s \in proc[p].owed : row'[s].st # "absent"
  BY <1>4 DEF CallOK, Sweeping, RowsOwed, World
<1>7. CallOK(p)'
  BY <1>4, <1>5, <1>6, ClosedOK
<1>8. Flights'
  BY <1>4, AloneFlights DEF Working, World
<1> QED BY <1>4, <1>7, <1>8, AloneCalls DEF IInv

LEMMA Finishing ==
  ASSUME Constants, IInv, NEW p \in Procs, NEW ans \in Anss,
         proc' = [proc EXCEPT ![p] = Finished(proc[p], ans)], proc[p].pc \notin Working,
         Op(p) = "realm" /\ ans # "error" => proc[p].owed \cap Live = {},
         World, EpochTyped'
  PROVE  IInv'
<1>1. proc[p] \in Call
  BY DEF IInv, Types
<1>2. PICK f \in Call : /\ f = Finished(proc[p], ans) /\ f.pc = "done" /\ f.ans = ans
                        /\ f.look = proc[p].look /\ f.must = proc[p].must /\ f.via = proc[p].via
                        /\ f.served = proc[p].served /\ f.owed = proc[p].owed
                        /\ f.took = {} /\ f.dels = {}
  BY <1>1, FinishedIs
<1> QED BY <1>2, Closing

\* What a call makes of the epoch it was told.
LEMMA KeptIs ==
  ASSUME NEW p \in Procs, proc[p] \in Call, NEW at, NEW out \in BOOLEAN
  PROVE  LET k == Kept(p, at, out)
         IN  \/ /\ Op(p) = "round" /\ k = Finished(proc[p], "asked")
             \/ /\ Op(p) # "round" /\ predatesReset(at, proc[p].rec.created)
                /\ k = [proc[p] EXCEPT !.pc = "end"]
             \/ /\ Op(p) # "round" /\ ~predatesReset(at, proc[p].rec.created)
                /\ k \in Call /\ k.pc = "done" /\ k.ans = "kept" /\ k.ranOut = out
                /\ k.look = proc[p].look /\ k.must = proc[p].must /\ k.pub = proc[p].pub
                /\ k.via = proc[p].via /\ k.served = proc[p].served /\ k.owed = proc[p].owed
                /\ k.took = {} /\ k.dels = {} /\ k.rec = proc[p].rec
<1>1. PICK f : f = Finished(proc[p], "kept")
  OBVIOUS
<1>2. /\ f \in Call /\ f.pc = "done" /\ f.ans = "kept"
      /\ f.look = proc[p].look /\ f.must = proc[p].must /\ f.pub = proc[p].pub
      /\ f.via = proc[p].via /\ f.served = proc[p].served /\ f.owed = proc[p].owed
      /\ f.took = {} /\ f.dels = {} /\ f.rec = proc[p].rec
  BY <1>1, FinishedIs DEF Anss
<1>3. PICK g : g = [f EXCEPT !.ranOut = out]
  OBVIOUS
<1>4. /\ g \in Call /\ g.pc = "done" /\ g.ans = "kept" /\ g.ranOut = out
      /\ g.look = proc[p].look /\ g.must = proc[p].must /\ g.pub = proc[p].pub
      /\ g.via = proc[p].via /\ g.served = proc[p].served /\ g.owed = proc[p].owed
      /\ g.took = {} /\ g.dels = {} /\ g.rec = proc[p].rec
  BY ONLY <1>2, <1>3, out \in BOOLEAN DEF Call
<1>5. CASE Op(p) = "round"
  BY <1>5 DEF Kept
<1>6. CASE Op(p) # "round" /\ predatesReset(at, proc[p].rec.created)
  BY <1>6 DEF Kept
<1>7. CASE Op(p) # "round" /\ ~predatesReset(at, proc[p].rec.created)
  <2>1. Kept(p, at, out) = g
    BY <1>1, <1>3, <1>7 DEF Kept
  <2> QED BY <1>4, <1>7, <2>1
<1> QED BY <1>5, <1>6, <1>7

LEMMA KeptStep ==
  ASSUME Constants, IInv, NEW p \in Procs, NEW at \in Nat, NEW out \in BOOLEAN,
         proc' = [proc EXCEPT ![p] = Kept(p, at, out)],
         proc[p].pc \in {"epoch", "epochFind", "epochFill"}, World, EpochTyped'
  PROVE  IInv'
<1>1. proc[p] \in Call /\ CallOK(p)
  BY DEF IInv, Types, Calls
<1>2. PICK k : k = Kept(p, at, out)
  OBVIOUS
<1>3. Op(p) \in {"resolve", "round"} /\ proc[p].pc \notin Working
  BY <1>1 DEF CallOK, Kind, Working
<1>4. CASE Op(p) = "round" /\ k = Finished(proc[p], "asked")
  <2>1. "asked" \in Anss
    BY DEF Anss
  <2> QED BY <1>2, <1>3, <1>4, <2>1, Finishing
<1>5. CASE Op(p) # "round" /\ k = [proc[p] EXCEPT !.pc = "end"]
  <2>1. k \in Call /\ Same(k, proc[p]) /\ k.pc = "end" /\ k.look = proc[p].look
    <3>1. "end" \in Pcs
      BY DEF Pcs
    <3> QED BY <1>1, <1>5, <3>1, SetPc
  <2> QED BY <1>2, <1>3, <1>5, <2>1, Passing
<1>6. CASE /\ Op(p) # "round" /\ k \in Call /\ k.pc = "done"
           /\ k.look = proc[p].look /\ k.must = proc[p].must /\ k.via = proc[p].via
           /\ k.served = proc[p].served /\ k.owed = proc[p].owed /\ k.took = {} /\ k.dels = {}
  BY <1>2, <1>3, <1>6, Closing
<1> QED BY <1>1, <1>2, <1>4, <1>5, <1>6, KeptIs

LEMMA LastResetStep ==
  ASSUME Constants, IInv, NEW p \in Procs, lastReset(p)
  PROVE  IInv'
<1>1. /\ proc[p].pc = "epoch" /\ proc[p] \in Call /\ World /\ EpochTyped'
      /\ epochCache.at \in Nat /\ Alive(published.dies) \in BOOLEAN
  BY DEF lastReset, setup, dbVars, redisVars, World, EpochTyped, IInv, Types, CachedEpoch, Alive
<1>2. CASE proc' = [proc EXCEPT ![p] = Kept(p, epochCache.at, ~Alive(published.dies))]
  BY <1>1, <1>2, KeptStep
<1>3. CASE proc' = [proc EXCEPT ![p].pc = "epochFind"]
  <2> DEFINE r == [proc[p] EXCEPT !.pc = "epochFind"]
  <2>1. proc' = [proc EXCEPT ![p] = r]
    BY <1>3
  <2>2. r \in Call /\ Same(r, proc[p]) /\ r.pc = "epochFind" /\ r.look = proc[p].look
    <3>1. "epochFind" \in Pcs
      BY DEF Pcs
    <3> QED BY <1>1, <3>1, SetPc
  <2> HIDE DEF r
  <2> QED BY <1>1, <2>1, <2>2, Passing
<1> QED BY <1>2, <1>3 DEF lastReset

LEMMA FindEpochStep ==
  ASSUME Constants, IInv, NEW p \in Procs, findEpoch(p)
  PROVE  IInv'
<1>1. /\ proc[p].pc = "epochFind" /\ proc[p] \in Call /\ World /\ EpochTyped'
      /\ epoch \in Nat /\ CallOK(p)
  BY DEF findEpoch, setup, dbVars, redisVars, World, EpochTyped, IInv, Types, Calls
<1>2. CASE proc' = [proc EXCEPT ![p].pc = "epochFill", ![p].cut = epoch]
  <2> DEFINE a == [proc[p] EXCEPT !.pc = "epochFill"]
             r == [a EXCEPT !.cut = epoch]
  <2>1. proc' = [proc EXCEPT ![p] = r]
    BY <1>2
  <2>2. a \in Call /\ Same(a, proc[p]) /\ a.pc = "epochFill" /\ a.look = proc[p].look
    <3>1. "epochFill" \in Pcs
      BY DEF Pcs
    <3> QED BY <1>1, <3>1, SetPc
  <2> HIDE DEF a
  <2>3. r \in Call /\ Same(r, a) /\ r.pc = a.pc /\ r.look = a.look
    BY <1>1, <2>2, SetCut
  <2> HIDE DEF r
  <2>4. Same(r, proc[p])
    BY ONLY <2>2, <2>3 DEF Same
  <2> QED BY <1>1, <2>1, <2>2, <2>3, <2>4, Passing
<1>3. CASE proc' = [proc EXCEPT ![p] = Finished(@, "error")]
  <2>1. "error" \in Anss /\ proc[p].pc \notin Working
    BY <1>1 DEF Anss, Working
  <2> QED BY <1>1, <1>3, <2>1, Finishing
<1> QED BY <1>2, <1>3 DEF findEpoch

LEMMA FillEpochStep ==
  ASSUME Constants, IInv, NEW p \in Procs, fillEpoch(p)
  PROVE  IInv'
<1>1. /\ proc[p].pc = "epochFill" /\ proc[p] \in Call /\ epoch \in Nat
      /\ UNCHANGED <<now, job, row, epoch, endedAt, inFlight, ensured, used>>
      /\ proc' = [proc EXCEPT ![p] = Kept(p, proc[p].cut, FALSE)]
  BY DEF fillEpoch, setup, dbVars, IInv, Types
<1>2. proc[p].cut \in Nat /\ CacheTtl \in Nat
  BY <1>1 DEF Call, Constants
<1>3. PICK l : l = EpochFill(proc[p].cut)
  OBVIOUS
<1>4. LateOK(l) /\ l.w = "fill"
  BY <1>2, <1>3 DEF LateOK, EpochFill, EpochWrite
<1>5. /\ write(l) \/ UNCHANGED <<entry, tomb, epochCache, published>>
      /\ late' \subseteq late \cup {l}
  BY <1>3 DEF fillEpoch, bounded, done, lost
<1>6. EpochTyped' /\ Cache'
  BY <1>1, <1>4, <1>5, WriteIs
<1>7. UNCHANGED <<entry, tomb>>
  BY <1>4, <1>5 DEF write
<1> QED BY <1>1, <1>2, <1>6, <1>7, KeptStep DEF World

\* An end begins.
LEMMA Starting ==
  ASSUME Constants, IInv, NEW p \in Procs, NEW r \in Call, proc' = [proc EXCEPT ![p] = r],
         proc[p].pc = "start", r.must = {}, r.via = "none", r.took = {}, r.dels = {},
         \/ r.pc = "end" /\ Op(p) \in {"revoke", "user", "realm", "lapsed"}
         \/ r.pc = "publish" /\ Op(p) = "reset"
         \/ r.pc = "epoch" /\ Op(p) = "round",
         Op(p) = "revoke" => row[Sid(p)].st # "absent",
         Op(p) = "lapsed" => r.cut <= now + MaxSkew,
         Op(p) = "realm" => \A s \in r.owed :
           /\ row[s].st # "absent" /\ row[s].created <= r.cut
           /\ row[s].seen + SeenInterval >= r.since /\ s > r.after,
         World, EpochTyped'
  PROVE  IInv'
<1>1. used' \in [Sids -> Nat] /\ inFlight' \in [Nodes -> [Sids -> Procs \cup {None}]]
  BY DEF World, IInv, Types
<1>2. /\ Stands /\ Types' /\ Alone(p) /\ proc'[p] = r /\ Rows' /\ Cache' /\ Calls /\ Flights
      /\ CallOK(p)
  BY <1>1, SoloStep DEF World
<1>3. Op(p)' = Op(p) /\ Sid(p)' = Sid(p) /\ row' = row /\ now' = now
  BY <1>2, SameCall DEF World
<1>4. Kind(p)' /\ Known(p)' /\ Held(p)' /\ Answered(p)' /\ Ending(p)' /\ Begun(p)'
  BY <1>2, <1>3 DEF Kind, Known, Held, Answered, Ending, Begun, Holding
<1>5. Sweeping(p)'
  <2>1. SUFFICES ASSUME Op(p) = "realm" PROVE Sweeping(p)'
    BY <1>3 DEF Sweeping
  <2>2. r.pc = "end" /\ \A s \in r.owed :
           /\ row[s].st # "absent" /\ row[s].created <= r.cut
           /\ row[s].seen + SeenInterval >= r.since /\ s > r.after
    BY <2>1
  <2> QED BY <1>2, <1>3, <2>2 DEF Sweeping, RowsOwed, InReach
<1>6. Flights'
  BY <1>2, AloneFlights DEF Working, World
<1>7. CallOK(p)'
  BY <1>4, <1>5 DEF CallOK
<1> QED BY <1>2, <1>6, <1>7, AloneCalls DEF IInv

LEMMA RevokeStep ==
  ASSUME Constants, IInv, NEW p \in Procs, revoke(p)
  PROVE  IInv'
<1> DEFINE r == [Idle EXCEPT !.pc = "end"]
<1>1. /\ proc[p].pc = "start" /\ World /\ EpochTyped' /\ proc' = [proc EXCEPT ![p] = r]
      /\ Op(p) \in {"revoke", "user"} /\ (Op(p) = "revoke" => row[Sid(p)].st # "absent")
  BY DEF revoke, setup, dbVars, redisVars, World, EpochTyped, IInv, Types
<1>2. r \in Call /\ r.pc = "end" /\ r.must = {} /\ r.via = "none" /\ r.took = {} /\ r.dels = {}
  <2>1. Idle \in Call /\ "end" \in Pcs
    BY IdleIs DEF Pcs
  <2> QED BY <2>1 DEF Call, Idle
<1> HIDE DEF r
<1> QED BY <1>1, <1>2, Starting

LEMMA ResetNotBeforeStep ==
  ASSUME Constants, IInv, NEW p \in Procs, resetNotBefore(p)
  PROVE  IInv'
<1> DEFINE r == [Idle EXCEPT !.pc = "epoch"]
<1>1. /\ proc[p].pc = "start" /\ World /\ EpochTyped' /\ proc' = [proc EXCEPT ![p] = r]
      /\ Op(p) = "round"
  BY DEF resetNotBefore, setup, dbVars, redisVars, World, EpochTyped, IInv, Types
<1>2. r \in Call /\ r.pc = "epoch" /\ r.must = {} /\ r.via = "none" /\ r.took = {} /\ r.dels = {}
  <2>1. Idle \in Call /\ "epoch" \in Pcs
    BY IdleIs DEF Pcs
  <2> QED BY <2>1 DEF Call, Idle
<1> HIDE DEF r
<1> QED BY <1>1, <1>2, Starting

LEMMA EndLapsedStep ==
  ASSUME Constants, IInv, NEW p \in Procs, endLapsed(p)
  PROVE  IInv'
<1>1. PICK at \in Nat : at = Clock(Node(p)) /\ at <= now + MaxSkew
  BY CallInfo, ClockIs DEF IInv, Types
<1> DEFINE r == [Idle EXCEPT !.pc = "end", !.cut = at]
<1>2. /\ proc[p].pc = "start" /\ World /\ EpochTyped' /\ proc' = [proc EXCEPT ![p] = r]
      /\ Op(p) = "lapsed"
  BY <1>1 DEF endLapsed, setup, dbVars, redisVars, World, EpochTyped, IInv, Types
<1>3. r \in Call /\ r.pc = "end" /\ r.must = {} /\ r.via = "none" /\ r.took = {} /\ r.dels = {}
      /\ r.cut = at
  <2>1. Idle \in Call /\ "end" \in Pcs
    BY IdleIs DEF Pcs
  <2>2. r \in Call
    BY <2>1 DEF Call
  <2> QED BY <2>2 DEF Idle
<1> HIDE DEF r
<1> QED BY <1>1, <1>2, <1>3, Starting

\* Every live session used since the time named is within the sweep's bounds:
\* its last-seen time lags its last use by less than the interval, and a clock
\* ahead is within the allowance.
LEMMA RevokeAllForRealmStep ==
  ASSUME Constants, IInv, NEW p \in Procs, revokeAllForRealm(p)
  PROVE  IInv'
<1>1. PICK since \in {0, now} :
        proc' = [proc EXCEPT ![p] = [Idle EXCEPT !.pc = "end",
                   !.cut = createdThrough(Node(p)), !.since = since,
                   !.owed = {s \in Live : used[s] >= since}]]
  BY DEF revokeAllForRealm
<1>2. PICK at \in Nat : at = Clock(Node(p)) /\ now <= at /\ now \in Nat
  BY CallInfo, ClockIs DEF IInv, Types
<1>3. SkewAllowance \in Nat /\ MaxSkew \in Nat /\ MaxSkew <= SkewAllowance
      /\ lastSeenInterval \in Nat /\ SeenInterval \in Nat /\ lastSeenInterval <= SeenInterval
      /\ Sids \in SUBSET Nat /\ 0 \notin Sids
  BY SessionAssumption DEF Constants
<1>4. PICK cut \in Nat : cut = at + SkewAllowance /\ cut = createdThrough(Node(p))
  BY <1>2, <1>3 DEF createdThrough
<1>5. PICK owed \in SUBSET Sids : owed = {s \in Live : used[s] >= since}
  BY DEF Live
<1> DEFINE r == [Idle EXCEPT !.pc = "end", !.cut = cut, !.since = since, !.owed = owed]
<1>6. /\ proc[p].pc = "start" /\ World /\ EpochTyped' /\ proc' = [proc EXCEPT ![p] = r]
      /\ Op(p) = "realm"
  BY <1>1, <1>4, <1>5 DEF revokeAllForRealm, setup, dbVars, redisVars, World, EpochTyped, IInv, Types
<1>7. r \in Call /\ r.pc = "end" /\ r.must = {} /\ r.via = "none" /\ r.took = {} /\ r.dels = {}
      /\ r.cut = cut /\ r.since = since /\ r.owed = owed /\ r.after = 0
  <2>1. /\ r.pc = "end" /\ r.must = {} /\ r.via = "none" /\ r.took = {} /\ r.dels = {}
        /\ r.cut = cut /\ r.since = since /\ r.owed = owed /\ r.after = 0
    BY DEF Idle
  <2>2. PICK a : a = [Idle EXCEPT !.pc = "end", !.cut = cut]
    OBVIOUS
  <2>3. r = [a EXCEPT !.since = since, !.owed = owed]
    BY <2>2
  <2>4. a \in Call
    <3>1. Idle \in Call /\ "end" \in Pcs
      BY IdleIs DEF Pcs
    <3> QED BY ONLY <2>2, <3>1, cut \in Nat DEF Call
  <2>5. since \in Nat
    BY <1>2
  <2> HIDE DEF r
  <2>6. r \in Call
    BY ONLY <2>3, <2>4, <2>5, owed \in SUBSET Sids DEF Call
  <2> QED BY <2>1, <2>6 DEF r
<1> HIDE DEF r
<1>8. ASSUME NEW s \in owed
      PROVE  /\ row[s].st # "absent" /\ row[s].created <= cut
             /\ row[s].seen + SeenInterval >= since /\ s > 0
  <2>1. s \in Sids /\ row[s].st = "live" /\ used[s] >= since
    BY <1>5 DEF Live
  <2>2. row[s].created <= now + MaxSkew /\ used[s] <= row[s].seen + lastSeenInterval
    BY <2>1 DEF IInv, Rows, RowOK
  <2>3. row[s].created \in Nat /\ row[s].seen \in Nat /\ used[s] \in Nat /\ since \in Nat
    BY <1>2, <2>1 DEF IInv, Types, Row
  <2>4. row[s].created <= cut
    BY ONLY <1>2, <1>3, <1>4, <2>2, <2>3
  <2>5. row[s].seen + SeenInterval >= since
    BY ONLY <1>3, <2>1, <2>2, <2>3
  <2>6. s > 0
    BY <1>3, <2>1
  <2> QED BY <2>1, <2>4, <2>5, <2>6
<1> QED BY <1>6, <1>7, <1>8, Starting

\* A reset's transaction.
LEMMA AdvanceStep ==
  ASSUME Constants, IInv, NEW p \in Procs, advance(p)
  PROVE  IInv'
<1>1. epoch' \in Nat
  <2>1. Clock(Node(p)) \in Nat /\ epoch \in Nat
    BY CallInfo, ClockIs DEF IInv, Types
  <2> QED BY <2>1 DEF advance
<1>2. PICK c \in Nat : c = epoch'
  BY <1>1
<1> DEFINE r == [Idle EXCEPT !.pc = "publish", !.cut = c]
<1>3. /\ proc[p].pc = "start" /\ World /\ EpochTyped' /\ proc' = [proc EXCEPT ![p] = r]
      /\ Op(p) = "reset"
  BY <1>1, <1>2 DEF advance, setup, redisVars, World, EpochTyped, IInv, Types
<1>4. r \in Call /\ r.pc = "publish" /\ r.must = {} /\ r.via = "none" /\ r.took = {} /\ r.dels = {}
  <2>1. Idle \in Call /\ "publish" \in Pcs
    BY IdleIs DEF Pcs
  <2>2. r \in Call
    BY <2>1 DEF Call
  <2> QED BY <2>2 DEF Idle
<1> HIDE DEF r
<1> QED BY <1>3, <1>4, Starting

-----------------------------------------------------------------------------
(***************************************************************************)
(* The ends: the rows, then the tombstones, batch by batch.                *)
(***************************************************************************)
Enders == {"resolve", "revoke", "user", "realm", "lapsed", "reset"}

\* What the transaction ends was live; a sweep passes over no session in its
\* reach but those after a full batch.
LEMMA SelectedIs ==
  ASSUME Constants, IInv, NEW p \in Procs, Op(p) \in Enders
  PROVE  /\ Selected(p) \in SUBSET Live
         /\ Op(p) \in {"resolve", "revoke"} => Selected(p) = Live \cap {Sid(p)}
         /\ Op(p) = "realm" =>
              \A s \in Live \ Selected(p) : s > proc[p].after /\ InReach(p, s) =>
                /\ Cardinality(Selected(p)) = Batch
                /\ \A t \in Selected(p) : t < s
<1>1. /\ Live \in SUBSET Sids /\ Sids \in SUBSET Nat /\ IsFiniteSet(Sids)
      /\ Batch \in Nat /\ Batch # 0
  BY DEF Live, Constants
<1>2. ASSUME NEW S \in SUBSET Live
      PROVE  /\ First(S, Batch) \in SUBSET S
             /\ \A x \in S \ First(S, Batch) : /\ Cardinality(First(S, Batch)) = Batch
                                               /\ \A y \in First(S, Batch) : y < x
  <2>1. S \in SUBSET Nat /\ S \in SUBSET Sids
    BY <1>1
  <2>2. IsFiniteSet(S)
    BY <1>1, <2>1, FS_Subset
  <2> QED BY <1>1, <2>1, <2>2, FirstIs
<1>3. CASE Op(p) \in {"resolve", "revoke"}
  <2>1. Selected(p) = Live \cap {Sid(p)}
    BY <1>3 DEF Selected
  <2> QED BY <1>3, <2>1
<1>4. CASE Op(p) \in {"user", "reset"}
  <2>1. Selected(p) = Live
    BY <1>4 DEF Selected
  <2> QED BY <1>4, <2>1
<1>5. CASE Op(p) = "lapsed"
  <2> DEFINE S == {s \in {t \in Live : t > proc[p].after} : sessionEnd(row[s]) <= proc[p].cut}
  <2>1. Selected(p) = First(S, Batch)
    BY <1>5 DEF Selected
  <2>2. S \in SUBSET Live
    OBVIOUS
  <2> HIDE DEF S
  <2>3. First(S, Batch) \in SUBSET S
    BY <1>2, <2>2
  <2> QED BY <1>5, <2>1, <2>2, <2>3
<1>6. CASE Op(p) = "realm"
  <2> DEFINE S == {s \in {t \in Live : t > proc[p].after} :
                     /\ row[s].created <= proc[p].cut
                     /\ row[s].seen + ConfiguredInterval >= proc[p].since}
  <2>1. Selected(p) = First(S, Batch)
    BY <1>6 DEF Selected
  <2>2. S \in SUBSET Live
    OBVIOUS
  <2>3. \A s \in Live : s > proc[p].after /\ InReach(p, s) => s \in S
    BY DEF InReach, ConfiguredInterval
  <2> HIDE DEF S
  <2>4. /\ First(S, Batch) \in SUBSET S
        /\ \A x \in S \ First(S, Batch) : /\ Cardinality(First(S, Batch)) = Batch
                                          /\ \A y \in First(S, Batch) : y < x
    BY <1>2, <2>2
  <2> QED BY <1>6, <2>1, <2>2, <2>3, <2>4
<1> QED BY <1>3, <1>4, <1>5, <1>6 DEF Enders

LEMMA SetBatch ==
  ASSUME NEW r \in Call, NEW batch \in SUBSET Sids
  PROVE  LET q == [r EXCEPT !.batch = batch]
         IN  /\ q \in Call /\ Same(q, r) /\ q.pc = r.pc /\ q.look = r.look /\ q.cut = r.cut
             /\ q.batch = batch
BY DEF Call, Same

LEMMA EndSelectedStep ==
  ASSUME Constants, IInv, NEW p \in Procs, endSelected(p)
  PROVE  IInv'
<1>1. /\ proc[p].pc = "end" /\ proc[p] \in Call /\ CallOK(p)
      /\ UNCHANGED <<now, job, entry, tomb, late, ensured, used, inFlight,
                     epoch, published, epochCache>>
      /\ proc \in [Procs -> Call] /\ now \in Nat
  BY DEF endSelected, setup, redisVars, IInv, Types, Calls
<1>2. Op(p) \in Enders
  BY <1>1 DEF CallOK, Kind, Enders
<1>3. PICK s0 \in Sids : s0 = Sid(p)
  BY CallInfo DEF IInv, Types
<1>4. PICK sel \in SUBSET Sids : sel = Selected(p) /\ sel \in SUBSET Live
  BY <1>2, SelectedIs DEF Live
<1> DEFINE ended == IF Op(p) \in {"resolve", "revoke"} THEN {Sid(p)} ELSE sel
<1>5. CASE /\ "store" \in Faults /\ proc' = [proc EXCEPT ![p] = Finished(@, "error")]
           /\ UNCHANGED <<row, endedAt>>
  <2>1. World /\ EpochTyped' /\ "error" \in Anss /\ proc[p].pc \notin Working
    BY <1>1, <1>5 DEF World, EpochTyped, IInv, Types, Anss, Working
  <2> QED BY <1>5, <2>1, Finishing
<1>6. CASE /\ row' = [s \in Sids |-> IF s \in sel THEN [row[s] EXCEPT !.st = "ended"] ELSE row[s]]
           /\ endedAt' = [s \in Sids |-> IF s \in sel THEN now ELSE endedAt[s]]
           /\ proc' = [proc EXCEPT ![p] = IF ended = {} THEN Finished(@, "ended")
                                          ELSE [@ EXCEPT !.pc = "ended", !.batch = ended]]
  <2>1. \A s \in Sids : /\ row[s] \in Row /\ endedAt[s] \in Nat \cup {None}
                        /\ RowOK(s) /\ tomb[s] \in Nat /\ used[s] \in Nat
    BY DEF IInv, Types, Rows
  <2>2. \A s \in sel : /\ row'[s] \in Row /\ row'[s].st = "ended" /\ endedAt'[s] = now
                       /\ row'[s].created = row[s].created /\ row'[s].seen = row[s].seen
                       /\ row[s].st = "live" /\ endedAt[s] = None
    <3> TAKE s \in sel
    <3>1. s \in Sids /\ row[s].st = "live" /\ row[s] \in Row
      BY <1>4, <2>1 DEF Live
    <3>2. row'[s] = [row[s] EXCEPT !.st = "ended"] /\ endedAt'[s] = now
      BY <1>6, <3>1
    <3>3. endedAt[s] = None
      BY <2>1, <3>1 DEF RowOK
    <3> QED BY <3>1, <3>2, <3>3 DEF Row
  <2>3. \A s \in Sids \ sel : row'[s] = row[s] /\ endedAt'[s] = endedAt[s]
    BY <1>6
  <2>4. row' \in [Sids -> Row] /\ endedAt' \in [Sids -> Nat \cup {None}]
    <3>1. \A s \in Sids :
            /\ (IF s \in sel THEN [row[s] EXCEPT !.st = "ended"] ELSE row[s]) \in Row
            /\ (IF s \in sel THEN now ELSE endedAt[s]) \in Nat \cup {None}
      BY <1>1, <2>1 DEF Row
    <3> QED BY <1>6, <3>1
  <2>5. Live' = Live \ sel
    BY <2>2, <2>3 DEF Live
  <2> DEFINE q == IF ended = {} THEN Finished(proc[p], "ended")
                  ELSE [proc[p] EXCEPT !.pc = "ended", !.batch = ended]
  <2>6. ended \in SUBSET Sids /\ "ended" \in Pcs /\ "ended" \in Anss
    BY <1>3 DEF Pcs, Anss
  <2>7. proc' = [proc EXCEPT ![p] = q]
    BY <1>6
  <2>8. ended # {} => /\ q \in Call /\ Same(q, proc[p]) /\ q.pc = "ended"
                      /\ q.look = proc[p].look /\ q.cut = proc[p].cut /\ q.batch = ended
    <3> SUFFICES ASSUME ended # {}
                 PROVE  /\ q \in Call /\ Same(q, proc[p]) /\ q.pc = "ended"
                        /\ q.look = proc[p].look /\ q.cut = proc[p].cut /\ q.batch = ended
      OBVIOUS
    <3> DEFINE a == [proc[p] EXCEPT !.pc = "ended"]
               b == [a EXCEPT !.batch = ended]
    <3>1. q = b
      OBVIOUS
    <3>2. a \in Call /\ Same(a, proc[p]) /\ a.pc = "ended" /\ a.look = proc[p].look
          /\ a.cut = proc[p].cut
      BY <1>1, <2>6, SetPc
    <3> HIDE DEF q, a, ended
    <3>3. b \in Call /\ Same(b, a) /\ b.pc = a.pc /\ b.look = a.look /\ b.cut = a.cut
          /\ b.batch = ended
      BY <2>6, <3>2, SetBatch
    <3> HIDE DEF b
    <3>4. Same(b, proc[p])
      BY ONLY <3>2, <3>3 DEF Same
    <3> QED BY <3>1, <3>2, <3>3, <3>4
  <2>9. q \in Call /\ q.pc \in {"done", "ended"}
    <3>1. CASE ended = {}
      <4>1. q = Finished(proc[p], "ended")
        BY <3>1
      <4> HIDE DEF q, ended
      <4> QED BY <1>1, <2>6, <4>1, FinishedIs
    <3> HIDE DEF q, ended
    <3> QED BY <2>8, <3>1
  <2>10. ended = {} => q = Finished(proc[p], "ended")
    OBVIOUS
  <2> HIDE DEF q, ended
  <2>11. proc' \in [Procs -> Call] /\ proc'[p] = q /\ Alone(p)
    BY <1>1, <2>7, <2>9 DEF Alone
  <2>12. Types'
    BY <1>1, <2>4, <2>11 DEF IInv, Types
  <2>13. Grows
    <3>1. ASSUME NEW s \in Sids
          PROVE  /\ row[s].st # "absent" => /\ row'[s].st # "absent"
                                            /\ row'[s].created = row[s].created
                                            /\ row[s].seen <= row'[s].seen
                                            /\ row'[s].st = "live" => row[s].st = "live"
                 /\ endedAt'[s] = endedAt[s] \/ (endedAt[s] = None /\ endedAt'[s] = now)
                 /\ tomb[s] <= tomb[s]
      <4>1. row[s].seen \in Nat /\ tomb[s] \in Nat
        BY <2>1 DEF Row
      <4>2. row[s].seen <= row[s].seen /\ tomb[s] <= tomb[s]
        BY <4>1
      <4>3. CASE s \in sel
        BY <2>2, <4>2, <4>3
      <4>4. CASE s \notin sel
        BY <2>3, <4>2, <4>4
      <4> QED BY <4>3, <4>4
    <3>2. now <= now
      BY <1>1
    <3> QED BY <1>1, <3>1, <3>2 DEF Grows
  <2>14. Stands /\ Calls /\ Flights
    BY <2>12, <2>13 DEF Stands, IInv
  <2>15. Rows'
    <3> SUFFICES ASSUME NEW s \in Sids PROVE RowOK(s)'
      BY DEF Rows
    <3>1. CASE s \in sel
      <4>1. RowOK(s) /\ now <= now /\ None \notin Nat
        BY <1>1, <2>1 DEF Constants
      <4> QED BY <1>1, <2>2, <3>1, <4>1 DEF RowOK, lastSeenInterval
    <3>2. CASE s \notin sel
      BY <1>1, <2>1, <2>3, <3>2 DEF RowOK, lastSeenInterval
    <3> QED BY <3>1, <3>2
  <2>16. Cache'
    BY <1>1, <2>14, CacheStays DEF IInv
  <2>17. Flights'
    BY <1>1, <2>9, <2>11, <2>14, AloneFlights DEF Working
  <2>18. Op(p) = "realm" =>
           /\ \A s \in proc[p].owed : row'[s].st # "absent"
           /\ \A s \in proc[p].owed \cap Live' :
                Cardinality(sel) = Batch /\ \A t \in sel : t < s
    <3> SUFFICES ASSUME Op(p) = "realm"
                 PROVE  /\ \A s \in proc[p].owed : row'[s].st # "absent"
                        /\ \A s \in proc[p].owed \cap Live' :
                             Cardinality(sel) = Batch /\ \A t \in sel : t < s
      OBVIOUS
    <3>1. /\ RowsOwed(p) /\ \A s \in proc[p].owed : InReach(p, s)
          /\ \A s \in proc[p].owed \cap Live : s > proc[p].after
      BY <1>1 DEF CallOK, Sweeping
    <3>2. \A s \in proc[p].owed : s \in Sids /\ row[s].st # "absent"
      BY <1>1, <3>1 DEF RowsOwed, Call
    <3>3. \A s \in proc[p].owed : row'[s].st # "absent"
      BY <2>13, <3>2 DEF Grows
    <3>4. \A s \in proc[p].owed \cap Live' : s \in Live \ Selected(p) /\ InReach(p, s)
                                             /\ s > proc[p].after
      BY <1>4, <2>5, <3>1
    <3> QED BY <1>2, <1>4, <3>3, <3>4, SelectedIs
  <2>19. CASE ended = {}
    <3>1. Op(p) = "realm" => proc[p].owed \cap Live' = {}
      <4> SUFFICES ASSUME Op(p) = "realm", NEW s \in proc[p].owed \cap Live' PROVE FALSE
        OBVIOUS
      <4>1. sel = {}
        BY <2>19 DEF ended
      <4>2. Cardinality({}) = 0 /\ Batch # 0
        BY FS_EmptySet DEF Constants
      <4> QED BY <2>18, <4>1, <4>2
    <3>2. CallOK(p)'
      BY <1>1, <2>6, <2>10, <2>11, <2>14, <2>18, <2>19, <3>1, FinishedOK
    <3>3. Calls'
      BY <2>11, <2>14, <3>2, AloneCalls
    <3> QED BY <2>12, <2>15, <2>16, <2>17, <3>3 DEF IInv
  <2>20. CASE ended # {}
    <3>1. Op(p)' = Op(p) /\ Sid(p)' = Sid(p) /\ now' = now
      BY <1>1, <2>14, SameCall
    <3>2. /\ Same(q, proc[p]) /\ q.pc = "ended" /\ q.look = proc[p].look
          /\ q.cut = proc[p].cut /\ q.batch = ended
      BY <2>8, <2>20
    <3>3. /\ q.must = proc[p].must /\ q.via = proc[p].via /\ q.served = proc[p].served
          /\ q.took = {} /\ q.dels = {} /\ q.owed = proc[p].owed /\ q.since = proc[p].since
      BY <1>1, <3>2 DEF Same, CallOK, Ending
    <3>4. Kind(p)' /\ Held(p)' /\ Begun(p)'
      BY <1>2, <2>11, <3>1, <3>2 DEF Kind, Held, Begun, Holding, Enders
    <3>5. Known(p)' /\ Answered(p)'
      BY <1>1, <2>11, <2>14, <3>2, <3>3, KnownStays, AnsweredStays DEF CallOK
    <3>6. \A s \in ended : endedAt'[s] # None
      <4>1. \A s \in sel : endedAt'[s] # None
        BY <1>1, <2>2 DEF Constants
      <4>2. CASE Op(p) \in {"resolve", "revoke"}
        <5>1. ended = {s0} /\ sel = Live \cap {s0}
          BY <1>2, <1>3, <1>4, <4>2, SelectedIs DEF ended
        <5>2. CASE s0 \in Live
          BY <4>1, <5>1, <5>2
        <5>3. CASE s0 \notin Live
          <6>1. row[s0].st # "absent"
            BY <1>1, <1>3, <4>2 DEF CallOK, Begun
          <6>2. endedAt[s0] # None
            BY <2>1, <5>3, <6>1 DEF RowOK, Live
          <6> QED BY <2>3, <5>1, <5>3, <6>2
        <5> QED BY <5>2, <5>3
      <4>3. CASE Op(p) \notin {"resolve", "revoke"}
        BY <4>1, <4>3 DEF ended
      <4> QED BY <4>2, <4>3
    <3>7. Ending(p)'
      <4>1. Op(p) = "lapsed" => q.cut <= now + MaxSkew
        BY <1>1, <3>2 DEF CallOK, Ending
      <4> QED BY <2>11, <3>1, <3>2, <3>3, <3>6, <4>1 DEF Ending
    <3>8. Sweeping(p)'
      <4>1. SUFFICES ASSUME Op(p) = "realm" PROVE Sweeping(p)'
        BY <3>1 DEF Sweeping
      <4>2. ended = sel
        BY <4>1 DEF ended
      <4>3. \A s \in q.owed : InReach(p, s)'
        <5>1. \A s \in q.owed : s \in Sids /\ InReach(p, s)
          BY <1>1, <3>3, <4>1 DEF CallOK, Sweeping, Call
        <5> QED BY <2>11, <2>14, <3>2, <3>3, <5>1, InReachStays
      <4>4. /\ \A s \in q.owed : row'[s].st # "absent"
            /\ \A s \in q.owed \cap Live' :
                 Cardinality(q.batch) = Batch /\ \A t \in q.batch : s > t
        <5>1. \A s, t \in Sids : t < s => s > t
          OBVIOUS
        <5>2. q.owed \subseteq Sids
          BY <2>9 DEF Call
        <5> QED BY <2>18, <3>2, <3>3, <4>1, <4>2, <5>1, <5>2
      <4> QED BY <2>11, <3>2, <4>3, <4>4 DEF Sweeping, RowsOwed
    <3>9. CallOK(p)'
      BY <3>4, <3>5, <3>7, <3>8 DEF CallOK
    <3>10. Calls'
      BY <2>11, <2>14, <3>9, AloneCalls
    <3> QED BY <2>12, <2>15, <2>16, <2>17, <3>10 DEF IInv
  <2> QED BY <2>19, <2>20
<1> QED BY <1>4, <1>5, <1>6 DEF endSelected

\* Reads already waiting on Postgres on the node stop answering.
LEMMA TombstoneStep ==
  ASSUME Constants, IInv, NEW p \in Procs, tombstone(p)
  PROVE  IInv'
<1>1. /\ proc[p].pc = "ended" /\ proc[p] \in Call /\ CallOK(p)
      /\ UNCHANGED <<now, job, row, entry, tomb, late, ensured, used, endedAt,
                     epoch, published, epochCache>>
      /\ proc \in [Procs -> Call] /\ inFlight \in [Nodes -> [Sids -> Procs \cup {None}]]
  BY DEF tombstone, setup, dbVars, redisVars, IInv, Types, Calls
<1>2. PICK n \in Nodes : n = Node(p)
  BY CallInfo DEF IInv, Types
<1>3. PICK batch \in SUBSET Sids : batch = proc[p].batch
  BY <1>1 DEF Call
<1>4. inFlight' = [inFlight EXCEPT ![n] = [s \in Sids |-> IF s \in batch THEN None ELSE inFlight[n][s]]]
  BY <1>2, <1>3 DEF tombstone
<1>5. /\ inFlight' \in [Nodes -> [Sids -> Procs \cup {None}]]
      /\ \A m \in Nodes, s \in Sids : inFlight'[m][s] = inFlight[m][s] \/ inFlight'[m][s] = None
      /\ \A s \in batch : inFlight'[n][s] = None
  BY <1>1, <1>4
<1> DEFINE q == [proc[p] EXCEPT !.pc = "mark", !.sets = batch]
<1>6. proc' = [proc EXCEPT ![p] = q]
  BY <1>3 DEF tombstone
<1>7. /\ q \in Call /\ q.pc = "mark" /\ q.sets = batch /\ q.batch = batch
      /\ q.must = proc[p].must /\ q.look = proc[p].look /\ q.via = proc[p].via
      /\ q.served = proc[p].served /\ q.took = proc[p].took /\ q.dels = proc[p].dels
      /\ q.cut = proc[p].cut /\ q.since = proc[p].since /\ q.owed = proc[p].owed
  <2>1. "mark" \in Pcs
    BY DEF Pcs
  <2> QED BY <1>1, <1>3, <2>1 DEF Call
<1> HIDE DEF q
<1>8. EpochTyped' /\ used' \in [Sids -> Nat] /\ late' = late
  BY <1>1 DEF EpochTyped, IInv, Types
<1>9. Stands /\ Types' /\ Alone(p) /\ proc'[p] = q /\ Rows' /\ Cache' /\ Calls /\ Flights
  BY <1>1, <1>5, <1>6, <1>7, <1>8, SoloStep
<1>10. \A o \in Procs : /\ Op(o)' = Op(o) /\ Node(o)' = Node(o) /\ Sid(o)' = Sid(o)
                        /\ Node(o) \in Nodes
  BY <1>9, SameCall
<1>11. CallOK(p)'
  <2>1. Kind(p)' /\ Held(p)' /\ Begun(p)'
    BY <1>1, <1>7, <1>9, <1>10 DEF CallOK, Kind, Held, Begun, Holding
  <2>2. Known(p)' /\ Answered(p)'
    BY <1>1, <1>7, <1>9, KnownStays, AnsweredStays DEF CallOK
  <2>3. Ending(p)'
    <3>1. q.took = {} /\ (Op(p) = "lapsed" => q.cut <= now + MaxSkew)
          /\ \A s \in batch : endedAt[s] # None
      BY <1>1, <1>3, <1>7 DEF CallOK, Ending
    <3> QED BY <1>1, <1>7, <1>9, <1>10, <3>1 DEF Ending
  <2>4. Sweeping(p)'
    <3>1. SUFFICES ASSUME Op(p) = "realm" PROVE Sweeping(p)'
      BY <1>10 DEF Sweeping
    <3>2. /\ RowsOwed(p) /\ \A s \in proc[p].owed : InReach(p, s)
          /\ \A s \in proc[p].owed \cap Live :
               Cardinality(proc[p].batch) = Batch /\ \A t \in proc[p].batch : s > t
      BY <1>1, <3>1 DEF CallOK, Sweeping
    <3>3. Live' = Live
      BY <1>1 DEF Live
    <3> QED BY <1>1, <1>3, <1>7, <1>9, <3>2, <3>3 DEF Sweeping, RowsOwed, InReach
  <2> QED BY <2>1, <2>2, <2>3, <2>4 DEF CallOK
<1>12. \A o \in Procs : proc[o].pc \in Working => o # p /\ proc'[o] = proc[o]
  BY <1>1, <1>9 DEF Working, Alone
<1>13. ASSUME NEW m \in Nodes, NEW s \in Sids PROVE FlightOK(m, s)'
  <2>1. SUFFICES ASSUME inFlight'[m][s] # None PROVE FlightOK(m, s)'
    BY DEF FlightOK
  <2>2. PICK o \in Procs : o = inFlight[m][s] /\ o = inFlight'[m][s] /\ inFlight[m][s] # None
    BY <1>1, <1>5, <2>1
  <2>3. /\ Node(o) = m /\ Sid(o) = s /\ Op(o) \in Lookups /\ proc[o].pc \in Working
        /\ m \in ensured[s] => proc[o].pc \in Fruitless
    BY <1>9, <2>2 DEF Flights, FlightOK
  <2>4. Node(inFlight[m][s])' = Node(o)' /\ Sid(inFlight[m][s])' = Sid(o)'
        /\ Op(inFlight[m][s])' = Op(o)'
    BY <2>2 DEF Node, Sid, Op
  <2> QED BY <1>1, <1>10, <1>12, <2>2, <2>3, <2>4 DEF FlightOK
<1>14. ASSUME NEW o \in Procs PROVE WaitOK(o)'
  <2>1. SUFFICES ASSUME proc'[o].pc = "wait" PROVE WaitOK(o)'
    BY DEF WaitOK
  <2>2. o # p /\ proc'[o] = proc[o]
    BY <1>7, <1>9, <2>1 DEF Alone
  <2>3. PICK w \in Procs : w = proc[o].on
    BY <1>9, <2>1, <2>2 DEF Flights, WaitOK
  <2>4. /\ Node(w) = Node(o) /\ Sid(w) = Sid(o) /\ Op(w) \in Lookups /\ proc[w].pc \in Working
        /\ Node(o) \in proc[o].must => proc[w].pc \in Fruitless
    BY <1>9, <2>1, <2>2, <2>3 DEF Flights, WaitOK
  <2>5. proc'[o].on = w
    BY <2>2, <2>3
  <2>6. Node(proc[o].on)' = Node(w)' /\ Sid(proc[o].on)' = Sid(w)' /\ Op(proc[o].on)' = Op(w)'
    BY <2>5 DEF Node, Sid, Op
  <2> QED BY <1>10, <1>12, <2>2, <2>4, <2>5, <2>6 DEF WaitOK
<1>15. ASSUME NEW o \in Procs PROVE MarkOK(o)'
  <2>1. SUFFICES ASSUME proc'[o].pc = "mark" PROVE MarkOK(o)'
    BY DEF MarkOK
  <2>2. CASE o = p
    BY <1>2, <1>5, <1>7, <1>9, <1>10, <2>2 DEF MarkOK
  <2>3. CASE o # p
    <3>1. proc'[o] = proc[o] /\ proc[o].batch \subseteq Sids
      <4>1. proc'[o] = proc[o] /\ proc[o] \in Call
        BY <1>1, <1>9, <2>3 DEF Alone
      <4> QED BY <4>1 DEF Call
    <3>2. ASSUME NEW s \in proc[o].batch, inFlight'[Node(o)][s] # None
          PROVE  proc'[inFlight'[Node(o)][s]].pc \in Fruitless
      <4>1. PICK w \in Procs : w = inFlight[Node(o)][s] /\ w = inFlight'[Node(o)][s]
                               /\ inFlight[Node(o)][s] # None
        BY <1>1, <1>5, <1>10, <3>1, <3>2
      <4>2. proc[w].pc \in Fruitless
        BY <1>9, <2>1, <3>1, <4>1 DEF Flights, MarkOK
      <4>3. proc[w].pc \in Working
        BY <4>2 DEF Fruitless, Working
      <4> QED BY <1>12, <4>1, <4>2, <4>3
    <3> QED BY <1>10, <3>1, <3>2 DEF MarkOK
  <2> QED BY <2>2, <2>3
<1>16. Flights'
  BY <1>13, <1>14, <1>15 DEF Flights
<1>17. Calls'
  BY <1>9, <1>11, AloneCalls
<1> QED BY <1>9, <1>16, <1>17 DEF IInv

\* A step that writes only Redis, and calls.
LEMMA RedisStep ==
  ASSUME Constants, IInv, proc' \in [Procs -> Call],
         entry' \in [Sids -> [rec : Recs, fresh : Nat, dies : Nat]],
         tomb' \in [Sids -> Nat], \A s \in Sids : tomb[s] <= tomb'[s], EpochTyped',
         UNCHANGED <<now, job, row, endedAt, inFlight, ensured, used>>
  PROVE  Stands /\ Types' /\ Rows' /\ Calls /\ Flights
<1>1. Types'
  BY DEF IInv, Types, EpochTyped
<1>2. Grows
  BY DEF IInv, Types, Grows, Row
<1>3. Stands
  BY <1>1, <1>2 DEF Stands, IInv
<1>4. Rows'
  BY <1>1, RowsStay DEF IInv, Types
<1> QED BY <1>1, <1>3, <1>4 DEF IInv

LEMMA FlightsStay ==
  ASSUME Flights, UNCHANGED <<proc, inFlight, ensured, job>>
  PROVE  Flights'
<1>1. ASSUME NEW n \in Nodes, NEW s \in Sids PROVE FlightOK(n, s)'
  <2>1. FlightOK(n, s)
    BY DEF Flights
  <2> QED BY <2>1 DEF FlightOK, Node, Sid, Op
<1>2. ASSUME NEW p \in Procs PROVE WaitOK(p)' /\ MarkOK(p)'
  <2>1. WaitOK(p) /\ MarkOK(p)
    BY DEF Flights
  <2> QED BY <2>1 DEF WaitOK, MarkOK, Node, Sid, Op
<1> QED BY <1>1, <1>2 DEF Flights

\* The tombstones of a batch go on being taken.
LEMMA Marking ==
  ASSUME Constants, IInv, NEW p \in Procs, proc[p].pc = "mark",
         NEW sets \in SUBSET Sids, NEW dels \in SUBSET Sids, NEW took \in SUBSET Sids,
         proc' = [proc EXCEPT ![p] = [proc[p] EXCEPT !.sets = sets, !.dels = dels, !.took = took]],
         sets \subseteq proc[p].sets, took \subseteq proc[p].took \cup proc[p].batch,
         \A t \in took : t \in proc[p].took \/ Tombed(t)',
         entry' \in [Sids -> [rec : Recs, fresh : Nat, dies : Nat]],
         tomb' \in [Sids -> Nat], \A s \in Sids : tomb[s] <= tomb'[s], EpochTyped', Cache',
         UNCHANGED <<now, job, row, endedAt, inFlight, ensured, used>>
  PROVE  IInv'
<1>1. proc \in [Procs -> Call] /\ proc[p] \in Call /\ CallOK(p)
  BY DEF IInv, Types, Calls
<1> DEFINE q == [proc[p] EXCEPT !.sets = sets, !.dels = dels, !.took = took]
<1>2. /\ q \in Call /\ q.pc = "mark" /\ q.sets = sets /\ q.batch = proc[p].batch
      /\ q.must = proc[p].must /\ q.look = proc[p].look /\ q.via = proc[p].via
      /\ q.served = proc[p].served /\ q.took = took /\ q.dels = dels
      /\ q.cut = proc[p].cut /\ q.since = proc[p].since /\ q.owed = proc[p].owed
  BY <1>1 DEF Call
<1>3. proc' = [proc EXCEPT ![p] = q]
  OBVIOUS
<1> HIDE DEF q
<1>4. proc' \in [Procs -> Call] /\ proc'[p] = q /\ Alone(p)
  BY <1>1, <1>2, <1>3 DEF Alone
<1>5. Stands /\ Types' /\ Rows' /\ Calls /\ Flights
  BY <1>4, RedisStep
<1>6. Op(p)' = Op(p) /\ Node(p)' = Node(p) /\ Sid(p)' = Sid(p)
  BY <1>5, SameCall
<1>7. CallOK(p)'
  <2>1. Kind(p)' /\ Held(p)' /\ Begun(p)'
    BY <1>1, <1>2, <1>4, <1>6 DEF CallOK, Kind, Held, Begun, Holding
  <2>2. Known(p)' /\ Answered(p)'
    BY <1>1, <1>2, <1>4, <1>5, KnownStays, AnsweredStays DEF CallOK
  <2>3. Ending(p)'
    <3>1. /\ proc[p].sets \subseteq proc[p].batch /\ proc[p].took \subseteq proc[p].batch
          /\ \A t \in proc[p].took : Tombed(t)
          /\ \A t \in proc[p].batch : endedAt[t] # None
          /\ Op(p) = "lapsed" => proc[p].cut <= now + MaxSkew
      BY <1>1 DEF CallOK, Ending
    <3>2. \A t \in took : t \in Sids /\ (Tombed(t) => Tombed(t)')
      BY <1>5, TombedStays DEF Stands
    <3> DEFINE T(t) == Tombed(t)
    <3>3. \A t \in took : T(t)'
      BY <3>1, <3>2
    <3>4. sets \subseteq proc[p].batch /\ took \subseteq proc[p].batch
      BY <3>1
    <3> HIDE DEF T
    <3>5. \A t \in proc'[p].took : T(t)'
      BY <1>2, <1>4, <3>3
    <3> QED BY <1>2, <1>4, <1>6, <3>1, <3>4, <3>5 DEF Ending, T
  <2>4. Sweeping(p)'
    <3>1. SUFFICES ASSUME Op(p) = "realm" PROVE Sweeping(p)'
      BY <1>6 DEF Sweeping
    <3>2. /\ RowsOwed(p) /\ \A s \in proc[p].owed : InReach(p, s)
          /\ \A s \in proc[p].owed \cap Live :
               Cardinality(proc[p].batch) = Batch /\ \A t \in proc[p].batch : s > t
      BY <1>1, <3>1 DEF CallOK, Sweeping
    <3>3. Live' = Live
      BY DEF Live
    <3> QED BY <1>2, <1>4, <3>2, <3>3 DEF Sweeping, RowsOwed, InReach
  <2> QED BY <2>1, <2>2, <2>3, <2>4 DEF CallOK
<1>8. Flights'
  BY <1>2, <1>4, <1>5, AloneFlights DEF Working
<1>9. Calls'
  BY <1>4, <1>5, <1>7, AloneCalls
<1> QED BY <1>5, <1>8, <1>9 DEF IInv

LEMMA MarkRevokedStep ==
  ASSUME Constants, IInv, NEW p \in Procs, NEW s \in Sids, markRevoked(p, s)
  PROVE  IInv'
<1>1. /\ proc[p].pc = "mark" /\ proc[p] \in Call /\ CallOK(p)
      /\ UNCHANGED <<now, job, row, endedAt, epoch, inFlight, ensured, used>>
      /\ epoch' \in Nat
  BY DEF markRevoked, setup, dbVars, IInv, Types, Calls
<1>2. proc[p].sets \in SUBSET Sids /\ proc[p].dels \in SUBSET Sids /\ proc[p].took \in SUBSET Sids
  BY <1>1 DEF Call
<1>3. LateOK(TombWrite(s)) /\ TombWrite(s).w = "tomb" /\ TombWrite(s).s = s
      /\ TombWrite(s).ttl = 2 * CacheTtl
  BY DEF LateOK, TombWrite
<1>4. CASE /\ s \in proc[p].sets /\ done(TombWrite(s))
           /\ proc' = [proc EXCEPT ![p].sets = @ \ {s}, ![p].dels = @ \cup {s},
                                   ![p].took = @ \cup {s}]
  <2>1. /\ entry' \in [Sids -> [rec : Recs, fresh : Nat, dies : Nat]]
        /\ tomb' \in [Sids -> Nat] /\ \A t \in Sids : tomb[t] <= tomb'[t]
        /\ EpochTyped' /\ Cache'
    <3>1. write(TombWrite(s)) /\ late' \subseteq late \cup {TombWrite(s)}
      BY <1>4 DEF done
    <3>2. PICK l : l = TombWrite(s)
      OBVIOUS
    <3> QED BY <1>1, <1>3, <3>1, <3>2, WriteIs
  <2>2. s \in proc[p].batch /\ endedAt[s] # None
    BY <1>1, <1>4 DEF CallOK, Ending
  <2>3. Tombed(s)'
    <3>1. endedAt[s] <= now /\ endedAt[s] \in Nat /\ now \in Nat /\ CacheTtl \in Nat
      BY <2>2 DEF IInv, Rows, RowOK, Types, Constants
    <3>2. tomb'[s] = now + 2 * CacheTtl
      BY <1>3, <1>4 DEF done, write, IInv, Types
    <3>3. tomb'[s] >= endedAt[s] + 2 * CacheTtl
      BY ONLY <3>1, <3>2
    <3> QED BY <1>1, <2>2, <3>3 DEF Tombed
  <2> DEFINE sets == proc[p].sets \ {s}
             dels == proc[p].dels \cup {s}
             took == proc[p].took \cup {s}
  <2>4. proc' = [proc EXCEPT ![p] = [proc[p] EXCEPT !.sets = sets, !.dels = dels, !.took = took]]
    BY <1>4
  <2>5. /\ sets \in SUBSET Sids /\ dels \in SUBSET Sids /\ took \in SUBSET Sids
        /\ sets \subseteq proc[p].sets /\ took \subseteq proc[p].took \cup proc[p].batch
        /\ \A t \in took : t \in proc[p].took \/ Tombed(t)'
    <3>1. \A t \in took : t \in proc[p].took \/ t = s
      OBVIOUS
    <3> QED BY <1>2, <2>2, <2>3, <3>1
  <2> HIDE DEF sets, dels, took
  <2> QED BY <1>1, <2>1, <2>4, <2>5, Marking
<1>5. CASE /\ s \in proc[p].sets /\ lost(TombWrite(s))
           /\ proc' = [proc EXCEPT ![p].sets = @ \ {s}]
  <2>1. /\ entry' \in [Sids -> [rec : Recs, fresh : Nat, dies : Nat]]
        /\ tomb' \in [Sids -> Nat] /\ \A t \in Sids : tomb[t] <= tomb'[t]
        /\ EpochTyped' /\ Cache'
    <3>1. UNCHANGED <<entry, tomb, epochCache, published>> /\ late' \subseteq late \cup {TombWrite(s)}
      BY <1>5 DEF lost
    <3>2. PICK l : l = TombWrite(s)
      OBVIOUS
    <3> QED BY <1>1, <1>3, <3>1, <3>2, WriteIs
  <2> DEFINE sets == proc[p].sets \ {s}
             dels == proc[p].dels
             took == proc[p].took
  <2>2. proc' = [proc EXCEPT ![p] = [proc[p] EXCEPT !.sets = sets, !.dels = dels, !.took = took]]
    <3>1. [proc[p] EXCEPT !.sets = sets, !.dels = dels, !.took = took] = [proc[p] EXCEPT !.sets = sets]
      BY <1>1 DEF Call
    <3> QED BY <1>5, <3>1
  <2>3. /\ sets \in SUBSET Sids /\ dels \in SUBSET Sids /\ took \in SUBSET Sids
        /\ sets \subseteq proc[p].sets /\ took \subseteq proc[p].took \cup proc[p].batch
        /\ \A t \in took : t \in proc[p].took \/ Tombed(t)'
    BY <1>2
  <2> HIDE DEF sets, dels, took
  <2> QED BY <1>1, <2>1, <2>2, <2>3, Marking
<1>6. CASE /\ s \in proc[p].dels
           /\ entry' = [entry EXCEPT ![s] = NoEntry] \/ ("cache" \in Faults /\ UNCHANGED entry)
           /\ proc' = [proc EXCEPT ![p].dels = @ \ {s}]
           /\ UNCHANGED <<tomb, late, epochCache, published>>
  <2>1. /\ entry \in [Sids -> [rec : Recs, fresh : Nat, dies : Nat]] /\ tomb \in [Sids -> Nat]
        /\ NoEntry \in [rec : Recs, fresh : Nat, dies : Nat] /\ NoEntry.dies = 0
    BY DEF IInv, Types, NoEntry, NoRec, Recs
  <2>2. /\ entry' \in [Sids -> [rec : Recs, fresh : Nat, dies : Nat]]
        /\ \A t \in Sids : entry'[t] = entry[t] \/ entry'[t].dies = 0
        /\ tomb' \in [Sids -> Nat] /\ \A t \in Sids : tomb[t] <= tomb'[t]
    BY <1>6, <2>1
  <2>3. EpochTyped'
    BY <1>1, <1>6 DEF IInv, Types, EpochTyped
  <2>4. ASSUME NEW t, NEW rec, NEW fresh, CacheRec(t, rec, fresh)
        PROVE  CacheRec(t, rec, fresh)'
    BY <1>1, <2>4 DEF CacheRec, FreshOK
  <2>5. ASSUME NEW l \in late PROVE LateOK(l)'
    <3>1. LateOK(l)
      BY DEF IInv, Cache
    <3> QED BY <2>4, <3>1 DEF LateOK
  <2>6. ASSUME NEW t \in Sids PROVE CacheOK(t)'
    <3>1. CacheOK(t)
      BY DEF IInv, Cache
    <3>2. ASSUME entry'[t].dies # 0 PROVE CacheRec(t, entry[t].rec, entry[t].fresh)'
      <4>1. entry'[t] = entry[t] /\ CacheRec(t, entry[t].rec, entry[t].fresh)
        BY <2>2, <3>1, <3>2 DEF CacheOK
      <4> QED BY <1>1, <4>1 DEF CacheRec, FreshOK
    <3> QED BY <1>1, <1>6, <3>1, <3>2 DEF CacheOK, Tombed
  <2>7. Cache'
    BY <1>6, <2>5, <2>6 DEF Cache
  <2> DEFINE sets == proc[p].sets
             dels == proc[p].dels \ {s}
             took == proc[p].took
  <2>8. proc' = [proc EXCEPT ![p] = [proc[p] EXCEPT !.sets = sets, !.dels = dels, !.took = took]]
    <3>1. [proc[p] EXCEPT !.sets = sets, !.dels = dels, !.took = took] = [proc[p] EXCEPT !.dels = dels]
      BY <1>1 DEF Call
    <3> QED BY <1>6, <3>1
  <2>9. /\ sets \in SUBSET Sids /\ dels \in SUBSET Sids /\ took \in SUBSET Sids
        /\ sets \subseteq proc[p].sets /\ took \subseteq proc[p].took \cup proc[p].batch
        /\ \A t \in took : t \in proc[p].took \/ Tombed(t)'
    BY <1>2
  <2> HIDE DEF sets, dels, took
  <2> QED BY <1>1, <2>2, <2>3, <2>7, <2>8, <2>9, Marking
<1> QED BY <1>4, <1>5, <1>6 DEF markRevoked

\* A reset's epoch is written over the cache, or not; the ends follow.
LEMMA PublishStep ==
  ASSUME Constants, IInv, NEW p \in Procs, publish(p)
  PROVE  IInv'
<1>1. /\ proc[p].pc = "publish" /\ proc[p] \in Call /\ CallOK(p) /\ proc[p].cut \in Nat
      /\ UNCHANGED <<now, job, row, endedAt, epoch, inFlight, ensured, used>>
      /\ epoch' \in Nat /\ proc \in [Procs -> Call]
  BY DEF publish, setup, dbVars, IInv, Types, Calls, Call
<1>2. PICK l : l = EpochWrite(proc[p].cut)
  OBVIOUS
<1>3. LateOK(l)
  BY <1>1, <1>2 DEF LateOK, EpochWrite, Constants
<1>4. /\ write(l) \/ UNCHANGED <<entry, tomb, epochCache, published>>
      /\ late' \subseteq late \cup {l}
  BY <1>2 DEF publish, bounded, done, lost
<1>5. /\ entry' \in [Sids -> [rec : Recs, fresh : Nat, dies : Nat]]
      /\ tomb' \in [Sids -> Nat] /\ \A t \in Sids : tomb[t] <= tomb'[t]
      /\ EpochTyped' /\ Cache'
  BY <1>1, <1>3, <1>4, WriteIs
<1> DEFINE q == [proc[p] EXCEPT !.pc = "end"]
<1>6. proc' = [proc EXCEPT ![p] = q]
  BY DEF publish
<1>7. q \in Call /\ Same(q, proc[p]) /\ q.pc = "end" /\ q.look = proc[p].look
  <2>1. "end" \in Pcs
    BY DEF Pcs
  <2> QED BY <1>1, <2>1, SetPc
<1> HIDE DEF q
<1>8. proc' \in [Procs -> Call] /\ proc'[p] = q /\ Alone(p)
  BY <1>1, <1>6, <1>7 DEF Alone
<1>9. Stands /\ Types' /\ Rows' /\ Calls /\ Flights
  BY <1>1, <1>5, <1>8, RedisStep
<1>10. Op(p)' = Op(p) /\ Op(p) = "reset"
  BY <1>1, <1>9, SameCall DEF CallOK, Kind
<1>11. /\ q.must = proc[p].must /\ q.via = proc[p].via /\ q.served = proc[p].served
       /\ q.took = {} /\ q.dels = {}
  BY <1>1, <1>7 DEF Same, CallOK, Ending
<1>12. CallOK(p)'
  <2>1. Kind(p)' /\ Held(p)' /\ Begun(p)' /\ Sweeping(p)' /\ Ending(p)'
    BY <1>7, <1>8, <1>10, <1>11 DEF Kind, Held, Begun, Holding, Sweeping, Ending
  <2>2. Known(p)' /\ Answered(p)'
    BY <1>1, <1>7, <1>8, <1>9, <1>11, KnownStays, AnsweredStays DEF CallOK
  <2> QED BY <2>1, <2>2 DEF CallOK
<1>13. Flights'
  BY <1>1, <1>7, <1>8, <1>9, AloneFlights DEF Working
<1>14. Calls'
  BY <1>8, <1>9, <1>12, AloneCalls
<1> QED BY <1>5, <1>9, <1>13, <1>14 DEF IInv

\* A write given up by its caller lands.
LEMMA LandStep ==
  ASSUME Constants, IInv, Land
  PROVE  IInv'
<1>1. PICK l \in late : write(l) /\ late' = late \ {l}
  BY DEF Land
<1>2. /\ UNCHANGED <<now, job, row, endedAt, epoch, inFlight, ensured, used, proc>>
      /\ epoch' \in Nat /\ proc' \in [Procs -> Call]
  BY DEF Land, setup, dbVars, IInv, Types
<1>3. LateOK(l) /\ late' \subseteq late \cup {l}
  BY <1>1 DEF IInv, Cache
<1>4. /\ entry' \in [Sids -> [rec : Recs, fresh : Nat, dies : Nat]]
      /\ tomb' \in [Sids -> Nat] /\ \A t \in Sids : tomb[t] <= tomb'[t]
      /\ EpochTyped' /\ Cache'
  BY <1>1, <1>2, <1>3, WriteIs
<1>5. Stands /\ Types' /\ Rows' /\ Calls /\ Flights
  BY <1>2, <1>4, RedisStep
<1>6. Calls'
  BY <1>2, <1>5, CallStays DEF Calls
<1> QED BY <1>2, <1>4, <1>5, <1>6, FlightsStay DEF IInv

LEMMA TickStep ==
  ASSUME Constants, IInv, Tick
  PROVE  IInv'
<1>1. /\ now' = now + 1 /\ now < job.until /\ job' = job
      /\ UNCHANGED <<job, row, epoch, endedAt, entry, tomb, late, epochCache, published,
                     inFlight, proc, ensured, used>>
  BY DEF Tick, dbVars, redisVars, MaxTime
<1>2. now \in Nat /\ job.from \in Nat /\ job.until \in Nat /\ job.from <= now
  <2>1. job \in Jobs
    BY DEF IInv, Types
  <2>2. job.from \in Nat /\ job.until \in Nat
    BY <2>1, SessionAssumption
  <2> QED BY <2>2 DEF IInv, Types
<1>3. now' \in Nat /\ job'.from <= now' /\ now' <= job'.until /\ now <= now'
  BY <1>1, <1>2
<1>4. Types'
  BY <1>1, <1>3 DEF IInv, Types
<1>5. Grows
  BY <1>1, <1>3 DEF IInv, Types, Grows, Row
<1>6. Stands
  BY <1>4, <1>5 DEF Stands, IInv
<1>7. Rows' /\ Cache'
  BY <1>1, <1>3, <1>4, <1>6, RowsStay, CacheStays DEF IInv
<1>8. Calls'
  BY <1>1, <1>6, CallStays DEF IInv, Calls
<1>9. Flights'
  BY <1>1, FlightsStay DEF IInv
<1> QED BY <1>4, <1>7, <1>8, <1>9 DEF IInv

\* The tombstones of a batch are in, or given up: an end was answered, and no
\* read this node still shares can serve what it ended.
LEMMA AfterEndedStep ==
  ASSUME Constants, IInv, NEW p \in Procs, afterEnded(p)
  PROVE  IInv'
<1>1. /\ proc[p].pc = "mark" /\ proc[p].sets = {} /\ proc[p].dels = {}
      /\ proc[p] \in Call /\ CallOK(p)
      /\ UNCHANGED <<now, job, row, endedAt, epoch, published, epochCache, entry, tomb, late,
                     inFlight, used>>
      /\ proc \in [Procs -> Call] /\ ensured \in [Sids -> SUBSET Nodes]
      /\ inFlight \in [Nodes -> [Sids -> Procs \cup {None}]]
  BY DEF afterEnded, setup, dbVars, redisVars, IInv, Types, Calls
<1>2. PICK n \in Nodes : n = Node(p)
  BY CallInfo DEF IInv, Types
<1>3. PICK took \in SUBSET Sids, batch \in SUBSET Sids : took = proc[p].took /\ batch = proc[p].batch
  BY <1>1 DEF Call
<1>4. /\ took \subseteq batch /\ \A s \in took : Tombed(s)
      /\ \A s \in batch : endedAt[s] # None
      /\ Op(p) = "lapsed" => proc[p].cut <= now + MaxSkew
      /\ \A s \in batch : inFlight[n][s] # None => proc[inFlight[n][s]].pc \in Fruitless
  <2>1. MarkOK(p) /\ Ending(p)
    BY <1>1 DEF IInv, Flights, CallOK
  <2> QED BY <1>1, <1>2, <1>3, <2>1 DEF Ending, MarkOK
<1>5. ensured' = [s \in Sids |-> IF s \in took THEN ensured[s] \cup {n} ELSE ensured[s]]
  BY <1>2, <1>3 DEF afterEnded
<1>6. /\ ensured' \in [Sids -> SUBSET Nodes]
      /\ \A s \in Sids : ensured[s] \subseteq ensured'[s]
      /\ \A s \in Sids : ensured'[s] # ensured[s] => s \in took
      /\ \A s \in Sids, m \in Nodes : m \in ensured'[s] => m \in ensured[s] \/ (m = n /\ s \in took)
  BY <1>1, <1>5
<1> DEFINE more == Op(p) \in {"realm", "lapsed"} /\ Cardinality(batch) = Batch
           q == IF more THEN [proc[p] EXCEPT !.pc = "end", !.took = {}, !.batch = {},
                                             !.after = Max(batch)]
                        ELSE Finished(proc[p], "ended")
<1>7. proc' = [proc EXCEPT ![p] = q]
  BY <1>3 DEF afterEnded
<1>8. more => Max(batch) \in Nat /\ \A s \in batch : Max(batch) >= s
  <2> SUFFICES ASSUME more PROVE Max(batch) \in Nat /\ \A s \in batch : Max(batch) >= s
    OBVIOUS
  <2>1. batch \in SUBSET Nat /\ IsFiniteSet(batch)
    BY FS_Subset DEF Constants
  <2>2. batch # {}
    <3>1. Cardinality({}) = 0 /\ Batch # 0
      BY FS_EmptySet DEF Constants
    <3> QED BY <3>1
  <2> QED BY <2>1, <2>2, MaxIs
<1>9. more => /\ q \in Call /\ q.pc = "end" /\ q.after = Max(batch)
              /\ q.must = proc[p].must /\ q.look = proc[p].look /\ q.via = proc[p].via
              /\ q.served = proc[p].served /\ q.took = {} /\ q.dels = {}
              /\ q.cut = proc[p].cut /\ q.since = proc[p].since /\ q.owed = proc[p].owed
  <2> SUFFICES ASSUME more
               PROVE  /\ q \in Call /\ q.pc = "end" /\ q.after = Max(batch)
                      /\ q.must = proc[p].must /\ q.look = proc[p].look /\ q.via = proc[p].via
                      /\ q.served = proc[p].served /\ q.took = {} /\ q.dels = {}
                      /\ q.cut = proc[p].cut /\ q.since = proc[p].since /\ q.owed = proc[p].owed
    OBVIOUS
  <2>1. PICK m \in Nat : m = Max(batch)
    BY <1>8
  <2>2. q = [proc[p] EXCEPT !.pc = "end", !.took = {}, !.batch = {}, !.after = m]
    BY <2>1
  <2>3. "end" \in Pcs
    BY DEF Pcs
  <2> HIDE DEF q, more
  <2> QED BY <1>1, <2>1, <2>2, <2>3 DEF Call
<1>10. ~more => q = Finished(proc[p], "ended") /\ q \in Call /\ q.pc = "done"
  <2>1. "ended" \in Anss
    BY DEF Anss
  <2>2. ~more => q = Finished(proc[p], "ended")
    OBVIOUS
  <2> HIDE DEF q, more
  <2> QED BY <1>1, <2>1, <2>2, FinishedIs
<1> HIDE DEF q
<1>11. proc' \in [Procs -> Call] /\ proc'[p] = q /\ Alone(p) /\ q.pc \in {"end", "done"}
  <2> HIDE DEF more
  <2> QED BY <1>1, <1>7, <1>9, <1>10 DEF Alone
<1>12. Types'
  BY <1>1, <1>6, <1>11 DEF IInv, Types
<1>13. Grows
  BY <1>1, <1>6 DEF IInv, Types, Grows, Row
<1>14. Stands
  BY <1>12, <1>13 DEF Stands, IInv
<1>15. Rows'
  BY <1>1, <1>12, RowsStay DEF IInv, Types
<1>16. Cache'
  <2>1. ASSUME NEW s, NEW rec, NEW fresh, CacheRec(s, rec, fresh)
        PROVE  CacheRec(s, rec, fresh)'
    BY <1>1, <2>1 DEF CacheRec, FreshOK
  <2>2. ASSUME NEW l \in late PROVE LateOK(l)'
    <3>1. LateOK(l)
      BY DEF IInv, Cache
    <3> QED BY <2>1, <3>1 DEF LateOK
  <2>3. ASSUME NEW s \in Sids PROVE CacheOK(s)'
    <3>1. CacheOK(s)
      BY DEF IInv, Cache
    <3>2. ASSUME entry[s].dies # 0 PROVE CacheRec(s, entry[s].rec, entry[s].fresh)'
      <4>1. CacheRec(s, entry[s].rec, entry[s].fresh)
        BY <3>1, <3>2 DEF CacheOK
      <4> QED BY <1>1, <4>1 DEF CacheRec, FreshOK
    <3>3. ensured'[s] # {} => Tombed(s)
      BY <1>4, <1>6, <3>1 DEF CacheOK
    <3> QED BY <1>1, <3>1, <3>2, <3>3 DEF CacheOK, Tombed
  <2> QED BY <1>1, <2>2, <2>3 DEF Cache
<1>17. \A o \in Procs : /\ Op(o)' = Op(o) /\ Node(o)' = Node(o) /\ Sid(o)' = Sid(o)
                        /\ Node(o) \in Nodes
  BY <1>14, SameCall
<1>18. CallOK(p)'
  <2>1. CASE more
    <3>1. Kind(p)' /\ Held(p)' /\ Begun(p)'
      BY <1>9, <1>11, <1>17, <2>1 DEF Kind, Held, Begun, Holding
    <3>2. Known(p)' /\ Answered(p)'
      BY <1>1, <1>9, <1>11, <1>14, <2>1, KnownStays, AnsweredStays DEF CallOK
    <3>3. Ending(p)'
      BY <1>1, <1>4, <1>9, <1>11, <1>17, <2>1 DEF Ending
    <3>4. Sweeping(p)'
      <4>1. SUFFICES ASSUME Op(p) = "realm" PROVE Sweeping(p)'
        BY <1>17 DEF Sweeping
      <4>2. /\ RowsOwed(p) /\ \A s \in proc[p].owed : InReach(p, s)
            /\ \A s \in proc[p].owed \cap Live : \A t \in batch : s > t
        BY <1>1, <1>3, <4>1 DEF CallOK, Sweeping
      <4>3. Live' = Live
        BY <1>1 DEF Live
      <4>4. Max(batch) \in batch
        <5>1. batch \in SUBSET Nat /\ IsFiniteSet(batch)
          BY FS_Subset DEF Constants
        <5>2. batch # {}
          <6>1. Cardinality({}) = 0 /\ Batch # 0
            BY FS_EmptySet DEF Constants
          <6> QED BY <2>1, <6>1
        <5> QED BY <5>1, <5>2, MaxIs
      <4> HIDE DEF more
      <4> QED BY <1>1, <1>9, <1>11, <2>1, <4>2, <4>3, <4>4 DEF Sweeping, RowsOwed, InReach
    <3> QED BY <3>1, <3>2, <3>3, <3>4 DEF CallOK
  <2>2. CASE ~more
    <3>1. Op(p) = "realm" => /\ \A s \in proc[p].owed : row'[s].st # "absent"
                             /\ proc[p].owed \cap Live' = {}
      <4> SUFFICES ASSUME Op(p) = "realm"
                   PROVE  /\ \A s \in proc[p].owed : row'[s].st # "absent"
                          /\ proc[p].owed \cap Live' = {}
        OBVIOUS
      <4>1. /\ \A s \in proc[p].owed : row[s].st # "absent"
            /\ \A s \in proc[p].owed \cap Live : Cardinality(batch) = Batch
        BY <1>1, <1>3 DEF CallOK, Sweeping, RowsOwed
      <4>2. Live' = Live /\ row' = row
        BY <1>1 DEF Live
      <4> QED BY <2>2, <4>1, <4>2
    <3>2. "ended" \in Anss
      BY DEF Anss
    <3> HIDE DEF more
    <3> QED BY <1>1, <1>10, <1>11, <1>14, <2>2, <3>1, <3>2, FinishedOK
  <2> QED BY <2>1, <2>2
<1>19. \A o \in Procs : proc[o].pc \in Working => o # p /\ proc'[o] = proc[o]
  BY <1>1, <1>11 DEF Working, Alone
<1>20. ASSUME NEW m \in Nodes, NEW s \in Sids PROVE FlightOK(m, s)'
  <2>1. SUFFICES ASSUME inFlight[m][s] # None PROVE FlightOK(m, s)'
    BY <1>1 DEF FlightOK
  <2>2. PICK o \in Procs : o = inFlight[m][s]
    BY <1>1, <2>1
  <2>3. /\ Node(o) = m /\ Sid(o) = s /\ Op(o) \in Lookups /\ proc[o].pc \in Working
        /\ m \in ensured[s] => proc[o].pc \in Fruitless
    BY <2>1, <2>2 DEF IInv, Flights, FlightOK
  <2>4. m \in ensured'[s] => proc[o].pc \in Fruitless
    BY <1>4, <1>6, <2>1, <2>2, <2>3
  <2>5. Node(inFlight[m][s])' = Node(o)' /\ Sid(inFlight[m][s])' = Sid(o)'
        /\ Op(inFlight[m][s])' = Op(o)' /\ inFlight'[m][s] = o
    BY <1>1, <2>2 DEF Node, Sid, Op
  <2> QED BY <1>17, <1>19, <2>3, <2>4, <2>5 DEF FlightOK
<1>21. ASSUME NEW o \in Procs PROVE WaitOK(o)'
  <2>1. SUFFICES ASSUME proc'[o].pc = "wait" PROVE WaitOK(o)'
    BY DEF WaitOK
  <2>2. o # p /\ proc'[o] = proc[o]
    BY <1>11, <2>1 DEF Alone
  <2>3. PICK w \in Procs : w = proc[o].on
    BY <2>1, <2>2 DEF IInv, Flights, WaitOK
  <2>4. /\ Node(w) = Node(o) /\ Sid(w) = Sid(o) /\ Op(w) \in Lookups /\ proc[w].pc \in Working
        /\ Node(o) \in proc[o].must => proc[w].pc \in Fruitless
    BY <2>1, <2>2, <2>3 DEF IInv, Flights, WaitOK
  <2>5. proc'[o].on = w
    BY <2>2, <2>3
  <2>6. Node(proc[o].on)' = Node(w)' /\ Sid(proc[o].on)' = Sid(w)' /\ Op(proc[o].on)' = Op(w)'
    BY <2>5 DEF Node, Sid, Op
  <2> QED BY <1>17, <1>19, <2>2, <2>4, <2>5, <2>6 DEF WaitOK
<1>22. ASSUME NEW o \in Procs PROVE MarkOK(o)'
  <2>1. SUFFICES ASSUME proc'[o].pc = "mark" PROVE MarkOK(o)'
    BY DEF MarkOK
  <2>2. proc'[o] = proc[o] /\ proc[o].batch \subseteq Sids
    <3>1. proc'[o] = proc[o] /\ proc[o] \in Call
      BY <1>1, <1>11, <2>1 DEF Alone
    <3> QED BY <3>1 DEF Call
  <2>3. ASSUME NEW s \in proc[o].batch, inFlight[Node(o)][s] # None
        PROVE  proc'[inFlight[Node(o)][s]].pc \in Fruitless
    <3>1. PICK w \in Procs : w = inFlight[Node(o)][s]
      BY <1>1, <1>17, <2>2, <2>3
    <3>2. proc[w].pc \in Fruitless
      BY <2>1, <2>2, <2>3, <3>1 DEF IInv, Flights, MarkOK
    <3>3. proc[w].pc \in Working
      BY <3>2 DEF Fruitless, Working
    <3> QED BY <1>19, <3>1, <3>2, <3>3
  <2> QED BY <1>1, <1>17, <2>2, <2>3 DEF MarkOK
<1>23. Flights'
  BY <1>20, <1>21, <1>22 DEF Flights
<1>24. Calls'
  BY <1>11, <1>14, <1>18, AloneCalls DEF IInv
<1> QED BY <1>12, <1>15, <1>16, <1>23, <1>24 DEF IInv

\* Rows that ended long ago are deleted.
LEMMA DeleteEndedStep ==
  ASSUME Constants, IInv, NEW p \in Procs, deleteEnded(p)
  PROVE  IInv'
<1>1. /\ Op(p) = "purge" /\ proc[p].pc = "start" /\ proc[p] \in Call /\ CallOK(p)
      /\ UNCHANGED <<now, job, endedAt, epoch, published, epochCache, entry, tomb, late,
                     inFlight, ensured, used>>
      /\ proc \in [Procs -> Call] /\ row \in [Sids -> Row] /\ now \in Nat
      /\ row' = [s \in Sids |-> IF row[s].st = "ended" THEN [row[s] EXCEPT !.st = "gone"] ELSE row[s]]
  BY DEF deleteEnded, setup, redisVars, IInv, Types, Calls
<1>2. "ended" \in Anss
  BY DEF Anss
<1>3. PICK f \in Call : f = Finished(proc[p], "ended") /\ f.pc = "done"
  BY <1>1, <1>2, FinishedIs
<1>4. proc' = [proc EXCEPT ![p] = f]
  BY <1>3 DEF deleteEnded
<1>5. proc' \in [Procs -> Call] /\ proc'[p] = f /\ Alone(p)
  BY <1>1, <1>4 DEF Alone
<1>6. ASSUME NEW s \in Sids
      PROVE  /\ row'[s] \in Row /\ row'[s].created = row[s].created /\ row'[s].seen = row[s].seen
             /\ row'[s].st = row[s].st \/ (row[s].st = "ended" /\ row'[s].st = "gone")
  BY <1>1 DEF Row
<1>7. row' \in [Sids -> Row]
  <2>1. \A s \in Sids : (IF row[s].st = "ended" THEN [row[s] EXCEPT !.st = "gone"] ELSE row[s]) \in Row
    BY <1>1 DEF Row
  <2> QED BY <1>1, <2>1
<1>8. Types'
  BY <1>1, <1>5, <1>7 DEF IInv, Types
<1>9. Grows
  <2>1. ASSUME NEW s \in Sids
        PROVE  row[s].seen <= row[s].seen /\ tomb[s] <= tomb[s]
    BY DEF IInv, Types, Row
  <2>2. now <= now
    BY <1>1
  <2> QED BY <1>1, <1>6, <2>1, <2>2 DEF Grows
<1>10. Stands
  BY <1>8, <1>9 DEF Stands, IInv
<1>11. Rows'
  <2> SUFFICES ASSUME NEW s \in Sids PROVE RowOK(s)'
    BY DEF Rows
  <2>1. RowOK(s)
    BY DEF IInv, Rows
  <2> QED BY <1>1, <1>6, <2>1 DEF RowOK, lastSeenInterval
<1>12. Cache'
  BY <1>1, <1>10, CacheStays DEF IInv
<1>13. CallOK(p)'
  BY <1>1, <1>2, <1>3, <1>5, <1>10, FinishedOK
<1>14. Flights'
  BY <1>1, <1>3, <1>5, <1>10, AloneFlights DEF IInv, Working
<1>15. Calls'
  BY <1>5, <1>10, <1>13, AloneCalls DEF IInv
<1> QED BY <1>8, <1>11, <1>12, <1>14, <1>15 DEF IInv

-----------------------------------------------------------------------------
(***************************************************************************)
(* The invariant is inductive.                                             *)
(***************************************************************************)
LEMMA InitHolds ==
  ASSUME Constants, Init
  PROVE  IInv
<1>1. /\ job \in Jobs /\ now = job.from /\ job.from \in Nat /\ job.from # 0 /\ job.until \in Nat
      /\ job.from <= job.until
  <2>1. job \in Jobs /\ now = job.from
    BY DEF Init
  <2>2. job.from \in Nat \ {0} /\ job.until \in Nat /\ job.from <= job.until
    BY <2>1, SessionAssumption
  <2> QED BY <2>1, <2>2
<1>2. \A s \in Sids : /\ row[s] \in Row /\ row[s].st \in {"absent", "live"}
                      /\ row[s].created = 1 /\ row[s].seen = 1
  BY DEF Init, Row
<1>3. row \in [Sids -> Row]
  BY DEF Init, Row
<1>4. /\ NoEntry \in [rec : Recs, fresh : Nat, dies : Nat] /\ NoEntry.dies = 0
      /\ NoEpoch \in [at : Nat, dies : Nat] /\ Idle \in Call
  BY IdleIs DEF NoEntry, NoRec, Recs, NoEpoch
<1>5. Types
  BY <1>1, <1>3, <1>4 DEF Init, Types, CachedEpoch
<1>6. Rows
  <2> SUFFICES ASSUME NEW s \in Sids PROVE RowOK(s)
    BY DEF Rows
  <2>1. endedAt[s] = None /\ used[s] = 1
    BY DEF Init
  <2>2. 1 <= now + MaxSkew /\ 1 <= 1 + lastSeenInterval
    BY <1>1 DEF Constants
  <2> QED BY <1>2, <2>1, <2>2 DEF RowOK
<1>7. Cache
  <2>1. late = {} /\ \A s \in Sids : entry[s] = NoEntry /\ tomb[s] = 0 /\ ensured[s] = {}
    BY DEF Init
  <2>2. 0 <= now + 2 * CacheTtl
    BY <1>1 DEF Constants
  <2> QED BY <1>4, <2>1, <2>2 DEF Cache, CacheOK
<1>8. Calls
  <2> SUFFICES ASSUME NEW p \in Procs PROVE CallOK(p)
    BY DEF Calls
  <2>1. proc[p] = Idle
    BY DEF Init
  <2>2. /\ proc[p].pc = "start" /\ proc[p].must = {} /\ proc[p].via = "none"
        /\ proc[p].took = {} /\ proc[p].dels = {} /\ proc[p].owed = {}
    BY <2>1, IdleIs
  <2> QED BY <2>2 DEF CallOK, Kind, Known, Held, Holding, Answered, Ending, Sweeping, RowsOwed, Begun
<1>9. Flights
  <2>1. \A n \in Nodes, s \in Sids : inFlight[n][s] = None
    BY DEF Init
  <2>2. \A p \in Procs : proc[p].pc = "start"
    BY IdleIs DEF Init
  <2> QED BY <2>1, <2>2 DEF Flights, FlightOK, WaitOK, MarkOK
<1> QED BY <1>5, <1>6, <1>7, <1>8, <1>9 DEF IInv

LEMMA StutterHolds ==
  ASSUME Constants, IInv, UNCHANGED vars
  PROVE  IInv'
<1>1. UNCHANGED <<now, job, row, entry, tomb, late, inFlight, epoch, epochCache, proc,
                  ensured, used, endedAt, published>>
  BY DEF vars
<1>2. Types' /\ Grows
  BY <1>1 DEF IInv, Types, Grows, Row
<1>3. Stands
  BY <1>2 DEF Stands, IInv
<1>4. Rows' /\ Cache'
  BY <1>1, <1>2, <1>3, RowsStay, CacheStays DEF IInv, Types
<1>5. Calls'
  BY <1>1, <1>3, CallStays DEF IInv, Calls
<1> QED BY <1>1, <1>2, <1>4, <1>5, FlightsStay DEF IInv

LEMMA NextHolds ==
  ASSUME IInv, [Next]_vars
  PROVE  IInv'
<1>0. Constants
  BY ConstantsHold
<1>1. CASE UNCHANGED vars
  BY <1>0, <1>1, StutterHolds
<1>2. CASE Tick
  BY <1>0, <1>2, TickStep
<1>3. CASE Land
  BY <1>0, <1>3, LandStep
<1>4. ASSUME NEW p \in Procs, Start(p) PROVE IInv'
  BY <1>0, <1>4, AskStep, CreateStep, RevokeStep, RevokeAllForRealmStep, EndLapsedStep,
     DeleteEndedStep, AdvanceStep, ResetNotBeforeStep DEF Start
<1>5. ASSUME NEW p \in Procs, Step(p) PROVE IInv'
  <2>1. CASE read(p) \/ get(p) \/ refreshHit(p) \/ find(p) \/ touchRead(p) \/ fillCache(p) \/ answer(p)
    BY <1>0, <2>1, ReadStep, GetStep, RefreshHitStep, FindStep, TouchReadStep, FillCacheStep,
       AnsweringStep
  <2>2. CASE lastReset(p) \/ findEpoch(p) \/ fillEpoch(p) \/ publish(p)
    BY <1>0, <2>2, LastResetStep, FindEpochStep, FillEpochStep, PublishStep
  <2>3. CASE endSelected(p) \/ tombstone(p) \/ afterEnded(p) \/ \E s \in Sids : markRevoked(p, s)
    BY <1>0, <2>3, EndSelectedStep, TombstoneStep, AfterEndedStep, MarkRevokedStep
  <2> QED BY <1>5, <2>1, <2>2, <2>3 DEF Step
<1> QED BY <1>1, <1>2, <1>3, <1>4, <1>5 DEF Next

THEOREM Inductive == Spec => []IInv
<1>1. Init => IInv
  BY ConstantsHold, InitHolds
<1>2. IInv /\ [Next]_vars => IInv'
  BY NextHolds
<1> QED BY <1>1, <1>2, PTL DEF Spec

-----------------------------------------------------------------------------
(***************************************************************************)
(* What the invariant says of the service.                                 *)
(***************************************************************************)
\* An end that was answered with its tombstone taken is an end for every read
\* that begins later, but for one that joined, on another node, an older read
\* of Postgres; and what the tombstone missed is served from the cache for at
\* most the cache time (get, tombstone, markRevoked, fillCache).
THEOREM SessionCacheKept == Spec => []CacheKept
<1>1. IInv => CacheKept
  <2> SUFFICES ASSUME IInv PROVE CacheKept
    OBVIOUS
  <2>1. \A l \in late : l.w \in {"entry", "tomb", "epoch", "fill"} /\ l.ttl \in Nat
    BY ConstantsHold DEF IInv, Cache, LateOK, Constants
  <2>2. \A p \in Procs : proc[p].on \in Procs \cup {None}
    BY DEF IInv, Types, Call
  <2>3. now \in job.from..MaxTime
    <3>1. job.from \in Nat /\ job.until \in Nat
      <4>1. job \in Jobs
        BY DEF IInv, Types
      <4> QED BY <4>1, SessionAssumption
    <3> QED BY <3>1 DEF IInv, Types, MaxTime
  <2>4. TypeOK
    BY <2>1, <2>2, <2>3 DEF TypeOK, IInv, Types, Row, CachedEpoch
  <2>5. EndedNotServed
    BY DEF EndedNotServed, IInv, Calls, CallOK, Answered
  <2>6. StaleAtMostCacheTime
    <3> SUFFICES ASSUME NEW p \in Procs, proc[p].via = "hit", endedAt[Sid(p)] # None
                 PROVE  proc[p].served < endedAt[Sid(p)] + CacheTtl + MaxSkew
      BY DEF StaleAtMostCacheTime
    <3>1. Answered(p)
      BY DEF IInv, Calls, CallOK
    <3> QED BY <3>1 DEF Answered
  <2> QED BY <2>4, <2>5, <2>6 DEF CacheKept
<1> QED BY <1>1, Inductive, PTL

\* A realm-wide revocation that was answered has ended every session that was
\* live when it began and used since the time it names, whatever its batches
\* met on their way (revokeAllForRealm, endSelected, afterEnded).
THEOREM SessionsSwept == Spec => []RealmSweepComplete
<1>1. IInv => RealmSweepComplete
  BY DEF RealmSweepComplete, IInv, Calls, CallOK, Sweeping
<1> QED BY <1>1, Inductive, PTL

\* Only the transaction of an end turns a live session into an ended one.
LEMMA OnlyEnds ==
  ASSUME IInv, [Next]_vars, NEW s \in Sids, row[s].st = "live", row'[s].st = "ended"
  PROVE  \E q \in Procs : endSelected(q)
<1>1. row' # row
  OBVIOUS
<1>2. row[s] \in Row
  BY DEF IInv, Types
<1>3. ~UNCHANGED vars /\ ~Tick /\ ~Land
  BY <1>1 DEF vars, Tick, Land, dbVars
<1>4. PICK p \in Procs : Start(p) \/ Step(p)
  BY <1>3 DEF Next
<1>5. Sid(p) \in Sids
  BY CallInfo DEF IInv, Types
<1>6. \A t \in Sids : row[t] \in Row
  BY DEF IInv, Types
<1>7. ~Ask(p) /\ ~revoke(p) /\ ~revokeAllForRealm(p) /\ ~endLapsed(p) /\ ~advance(p)
      /\ ~resetNotBefore(p)
  BY <1>1 DEF Ask, revoke, revokeAllForRealm, endLapsed, advance, resetNotBefore, dbVars
<1>8. ~create(p)
  <2> SUFFICES ASSUME create(p) PROVE FALSE
    OBVIOUS
  <2> DEFINE new == [st |-> "live", created |-> Clock(Node(p)), seen |-> Clock(Node(p))]
  <2>1. row' = [row EXCEPT ![Sid(p)] = new] /\ row \in [Sids -> Row] /\ new.st = "live"
    BY DEF create, IInv, Types
  <2> HIDE DEF new
  <2> QED BY <2>1
<1>9. ~deleteEnded(p)
  <2> SUFFICES ASSUME deleteEnded(p) PROVE FALSE
    OBVIOUS
  <2>1. row'[s] = IF row[s].st = "ended" THEN [row[s] EXCEPT !.st = "gone"] ELSE row[s]
    BY DEF deleteEnded
  <2> QED BY <2>1
<1>10. \A w, k : ~touch(p, w, k)
  <2> SUFFICES ASSUME NEW w, NEW k, touch(p, w, k) PROVE FALSE
    OBVIOUS
  <2>1. row' = [row EXCEPT ![Sid(p)].seen = Clock(Node(p))]
    BY <1>1 DEF touch
  <2>2. row'[s].st = row[s].st
    <3>1. row \in [Sids -> Row]
      BY DEF IInv, Types
    <3>2. CASE s = Sid(p)
      <4>1. row'[s] = [row[s] EXCEPT !.seen = Clock(Node(p))]
        BY <2>1, <3>1, <3>2
      <4> QED BY <1>2, <4>1 DEF Row
    <3>3. CASE s # Sid(p)
      BY <2>1, <3>1, <3>3
    <3> QED BY <3>2, <3>3
  <2> QED BY <2>2
<1>11. ~refreshHit(p) /\ ~touchRead(p)
  BY <1>10 DEF refreshHit, touchRead
<1>12. ~read(p) /\ ~get(p) /\ ~find(p) /\ ~fillCache(p) /\ ~answer(p)
  BY <1>1 DEF read, get, find, fillCache, answer, dbVars
<1>13. ~lastReset(p) /\ ~findEpoch(p) /\ ~fillEpoch(p) /\ ~publish(p)
  BY <1>1 DEF lastReset, findEpoch, fillEpoch, publish, dbVars
<1>14. ~tombstone(p) /\ ~afterEnded(p) /\ ~\E t \in Sids : markRevoked(p, t)
  BY <1>1 DEF tombstone, afterEnded, markRevoked, dbVars
<1>15. endSelected(p)
  BY <1>4, <1>7, <1>8, <1>9, <1>11, <1>12, <1>13, <1>14 DEF Start, Step
<1> QED BY <1>15

\* The lapsed-session sweep ends no session that answered a read within half
\* its idle limit, clock skew aside: last-seen times lag by at most half of it
\* (endLapsed, endSelected, touch).
THEOREM SessionsInUseKept == Spec => UsedSessionsKept
<1> DEFINE A == \A s \in Sids : row[s].st = "live" /\ row'[s].st = "ended"
                  /\ (\E p \in Procs : Op(p) = "lapsed" /\ proc[p].pc = "end" /\ proc'[p].pc # "end")
                  => \/ now + MaxSkew >= absoluteEnd(row[s])
                     \/ now + MaxSkew >= used[s] + (IdleLimit - IdleLimit \div 2)
<1>1. IInv /\ [Next]_vars => A
  <2> SUFFICES ASSUME IInv, [Next]_vars, NEW s \in Sids, row[s].st = "live", row'[s].st = "ended",
                      NEW p \in Procs, Op(p) = "lapsed", proc[p].pc = "end", proc'[p].pc # "end"
               PROVE  \/ now + MaxSkew >= absoluteEnd(row[s])
                      \/ now + MaxSkew >= used[s] + (IdleLimit - IdleLimit \div 2)
    BY DEF A
  <2>1. PICK q \in Procs : endSelected(q)
    BY OnlyEnds
  <2>2. p = q
    <3>1. \E r : proc' = [proc EXCEPT ![q] = r]
      BY <2>1 DEF endSelected
    <3> QED BY <3>1 DEF IInv, Types
  <2>3. s \in Selected(p)
    <3>1. row' = [t \in Sids |-> IF t \in Selected(p) THEN [row[t] EXCEPT !.st = "ended"] ELSE row[t]]
      BY <2>1, <2>2 DEF endSelected
    <3> QED BY <3>1
  <2> DEFINE S == {t \in {u \in Live : u > proc[p].after} : sessionEnd(row[t]) <= proc[p].cut}
  <2>4. Selected(p) = First(S, Batch)
    BY DEF Selected
  <2>5. s \in S
    BY <2>3, <2>4 DEF First
  <2>6. sessionEnd(row[s]) <= proc[p].cut
    BY <2>5
  <2>7. proc[p].cut <= now + MaxSkew
    BY DEF IInv, Calls, CallOK, Ending
  <2>8. used[s] <= row[s].seen + lastSeenInterval
    BY DEF IInv, Rows, RowOK
  <2>9. /\ row[s].created \in Nat /\ row[s].seen \in Nat /\ used[s] \in Nat /\ now \in Nat
        /\ proc[p].cut \in Nat
    BY DEF IInv, Types, Row, Call
  <2>10. /\ IdleLimit \in Nat /\ Lifespan \in Nat /\ MaxSkew \in Nat /\ lastSeenInterval \in Nat
         /\ IdleLimit \div 2 \in Nat /\ lastSeenInterval <= IdleLimit \div 2
    BY ConstantsHold DEF Constants
  <2>11. PICK half : half = IdleLimit \div 2
    OBVIOUS
  <2>12. half \in Nat /\ lastSeenInterval <= half
    BY <2>10, <2>11
  <2>13. PICK a : a = absoluteEnd(row[s])
    OBVIOUS
  <2>14. a = row[s].created + Lifespan
    BY <2>13 DEF absoluteEnd
  <2>15. PICK i : i = row[s].seen + IdleLimit
    OBVIOUS
  <2>16. a <= proc[p].cut \/ i <= proc[p].cut
    BY <2>6, <2>13, <2>15 DEF sessionEnd, Lesser, idleEnd
  <2>17. CASE a <= proc[p].cut
    <3>1. now + MaxSkew >= a
      BY ONLY <2>7, <2>9, <2>10, <2>14, <2>17
    <3> QED BY <2>13, <3>1
  <2>18. CASE i <= proc[p].cut
    <3>1. now + MaxSkew >= used[s] + (IdleLimit - half)
      BY ONLY <2>7, <2>8, <2>9, <2>10, <2>12, <2>15, <2>18
    <3> QED BY <2>11, <3>1
  <2> QED BY <2>16, <2>17, <2>18
<1> QED BY <1>1, Inductive, PTL DEF Spec, UsedSessionsKept, A

-----------------------------------------------------------------------------
(***************************************************************************)
(* The epoch and its cache.  With two resets in a workload, the publish of *)
(* the first, given up and landing late, may cover that of the second: the *)
(* property is about one.                                                  *)
(***************************************************************************)
\* A call that neither reads the epoch nor writes it.
Quiet(q) == \/ proc'[q] = proc[q]
            \/ /\ proc'[q].pub \in {0, proc[q].pub} /\ proc'[q].ans # "kept"
               /\ proc'[q].pc \notin {"start", "epochFill", "publish"}

LEMMA QuietStays ==
  ASSUME NEW q \in Procs, ResetCall(q), Quiet(q), UNCHANGED <<job, epoch>>,
         published.at # 0 => published'.at # 0
  PROVE  ResetCall(q)'
<1>1. Op(q)' = Op(q)
  BY DEF Op
<1>2. CASE proc'[q] = proc[q]
  BY <1>1, <1>2 DEF ResetCall, predatesReset
<1>3. CASE /\ proc'[q].pub \in {0, proc[q].pub} /\ proc'[q].ans # "kept"
           /\ proc'[q].pc \notin {"start", "epochFill", "publish"}
  BY <1>1, <1>3 DEF ResetCall
<1> QED BY <1>2, <1>3 DEF Quiet

\* A step that leaves the epoch and its cache alone.
LEMMA QuietStep ==
  ASSUME Resets, UNCHANGED <<now, job, epoch, published, epochCache>>,
         \A l \in late' : l \in late \/ l.w # "epoch",
         \A q \in Procs : Quiet(q)
  PROVE  Resets'
<1>1. \A q \in Procs : ResetCall(q)'
  BY QuietStays DEF Resets, Alive
<1> QED BY <1>1 DEF Resets, Alive

\* A call that has not answered `kept` is quiet when its record moves on.
LEMMA MovesOn ==
  ASSUME Types, Resets, NEW p \in Procs, proc[p].pc # "done", NEW r,
         proc' = [proc EXCEPT ![p] = r],
         r.pub \in {0, proc[p].pub}, r.ans \in {proc[p].ans} \cup (Anss \ {"kept"}),
         r.pc \notin {"start", "epochFill", "publish"}
  PROVE  \A q \in Procs : Quiet(q)
<1>1. proc[p].ans # "kept"
  BY DEF Resets, ResetCall
<1>2. proc'[p] = r /\ \A q \in Procs : q # p => proc'[q] = proc[q]
  BY DEF Types
<1> QED BY <1>1, <1>2 DEF Quiet

LEMMA EndsQuiet ==
  ASSUME Types, Resets, NEW p \in Procs, proc[p].pc # "done",
         NEW ans \in Anss \ {"kept"}, proc' = [proc EXCEPT ![p] = Finished(proc[p], ans)]
  PROVE  \A q \in Procs : Quiet(q)
<1>1. proc[p] \in Call
  BY DEF Types
<1>2. PICK f \in Call : f = Finished(proc[p], ans) /\ f.pc = "done" /\ f.ans = ans
                        /\ f.pub = proc[p].pub
  BY <1>1, FinishedIs
<1> QED BY <1>2, MovesOn

\* The answer of the shared work is quiet.
LEMMA AnswerQuiet ==
  ASSUME Types, Calls, NEW p \in Procs, NEW live \in BOOLEAN, NEW rec \in Recs,
         Op(p) \in {"get", "resolve", "create"}, Answer(p, live, rec)
  PROVE  \A q \in Procs : Quiet(q)
<1>1. \A q \in Procs : q # p /\ q \notin Mates(p) => proc'[q] = proc[q]
  BY AnswerMoves
<1>2. Told(p, live, "read") /\ \A q \in Mates(p) : q # p => Told(q, live, "joined")
  BY AnswerMoves
<1> QED BY <1>1, <1>2 DEF Quiet, Told

LEMMA SharedQuiet ==
  ASSUME Types, Resets, NEW p \in Procs, proc[p].pc # "done", NEW w, shared(p, w),
         w.pub = proc[p].pub, w.ans = proc[p].ans, w.pc \notin {"start", "epochFill", "publish"}
  PROVE  \A q \in Procs : Quiet(q)
<1> DEFINE r == [proc[p] EXCEPT !.pc = "wait", !.on = inFlight[Node(p)][Sid(p)]]
<1>1. r.pub = proc[p].pub /\ r.ans = proc[p].ans /\ r.pc = "wait"
  BY DEF Types, Call
<1>2. proc' = [proc EXCEPT ![p] = r] \/ proc' = [proc EXCEPT ![p] = w]
  BY DEF shared
<1> HIDE DEF r
<1> QED BY <1>1, <1>2, MovesOn

LEMMA TouchQuiet ==
  ASSUME Types, Calls, Resets, NEW p \in Procs, proc[p].pc # "done", Op(p) \in Lookups,
         NEW w, NEW k, touch(p, w, k),
         w.pub = proc[p].pub, w.ans = proc[p].ans, w.pc \notin {"start", "epochFill", "publish"},
         k.pub = proc[p].pub, k.ans = proc[p].ans, k.pc \notin {"start", "epochFill", "publish"}
  PROVE  \A q \in Procs : Quiet(q)
<1>1. CASE proc' = [proc EXCEPT ![p] = w] \/ proc' = [proc EXCEPT ![p] = k]
  BY <1>1, MovesOn
<1>2. CASE Answer(p, FALSE, NoRec)
  <2>1. NoRec \in Recs
    BY DEF NoRec, Recs
  <2> QED BY <1>2, <2>1, AnswerQuiet DEF Lookups
<1> QED BY <1>1, <1>2 DEF touch

\* The lookups and the ends.
LEMMA LookupsQuiet ==
  ASSUME Constants, IInv, Resets, NEW p \in Procs,
         \/ read(p) \/ get(p) \/ refreshHit(p) \/ find(p) \/ touchRead(p)
         \/ fillCache(p) \/ answer(p)
  PROVE  Resets'
<1>1. /\ proc[p] \in Call /\ Types /\ Calls /\ CallOK(p)
      /\ proc[p].pc \in {"mget", "judge", "touchHit", "find", "touchRead", "fill", "answer"}
  BY DEF IInv, Types, Calls, read, get, refreshHit, find, touchRead, fillCache, answer
<1>2. Op(p) \in {"get", "resolve", "create"} /\ (proc[p].pc # "fill" => Op(p) \in Lookups)
      /\ proc[p].pc # "done"
  BY <1>1 DEF CallOK, Kind, Lookups
<1> DEFINE Kin(w) == w.pub = proc[p].pub /\ w.ans = proc[p].ans
                     /\ w.pc \notin {"start", "epochFill", "publish"}
<1>3. NoRec \in Recs
  BY DEF NoRec, Recs
<1>4. ASSUME NEW r, Kin(r), r \in Call PROVE Kin(Filling(r))
  <2>1. PICK q : q = Filling(r)
    OBVIOUS
  <2>2. Same(q, r) /\ q.pc \in {"fill", "answer"}
    BY <1>4, <2>1, FillingIs
  <2> QED BY <1>4, <2>1, <2>2 DEF Same
<1>5. ASSUME NEW fill \in BOOLEAN PROVE Kin(readThrough(p, fill))
  <2>1. Clock(Node(p)) \in Nat
    BY CallInfo, ClockIs DEF Types, IInv
  <2>2. PICK q : q = readThrough(p, fill)
    OBVIOUS
  <2>3. Same(q, proc[p]) /\ q.pc = "find"
    BY <1>1, <2>1, <2>2, ReadThroughIs
  <2> QED BY <2>2, <2>3 DEF Same
<1>6. ASSUME read(p) PROVE \A q \in Procs : Quiet(q)
  <2> DEFINE a == [proc[p] EXCEPT !.pc = "judge", !.look = lookup(Sid(p)),
                                  !.rec = entry[Sid(p)].rec, !.fresh = entry[Sid(p)].fresh]
             b == [proc[p] EXCEPT !.pc = "judge", !.look = "error"]
  <2>1. Kin(a) /\ Kin(b)
    BY <1>1 DEF Call
  <2>2. proc' = [proc EXCEPT ![p] = a] \/ proc' = [proc EXCEPT ![p] = b]
    BY <1>6 DEF read
  <2> HIDE DEF a, b
  <2> QED BY <1>1, <1>2, <2>1, <2>2, MovesOn
<1>7. ASSUME get(p) PROVE \A q \in Procs : Quiet(q)
  <2> DEFINE at == Clock(Node(p))
             t == [proc[p] EXCEPT !.pc = "touchHit", !.cut = at]
             f == readThrough(p, proc[p].look # "error")
  <2>1. \/ proc' = [proc EXCEPT ![p] = Finished(proc[p], "absent")]
        \/ proc[p].look = "entry" /\ proc' = [proc EXCEPT ![p] = Served(p, proc[p].rec, "hit")]
        \/ shared(p, t) \/ shared(p, f)
    BY <1>7 DEF get, usable
  <2>2. Kin(t)
    BY <1>1 DEF Call
  <2>3. Kin(f)
    <3>1. (proc[p].look # "error") \in BOOLEAN
      OBVIOUS
    <3> HIDE DEF Kin
    <3> QED BY <1>5, <3>1
  <2> HIDE DEF t, f
  <2>4. CASE proc' = [proc EXCEPT ![p] = Finished(proc[p], "absent")]
    <3>1. "absent" \in Anss \ {"kept"}
      BY DEF Anss
    <3> QED BY <1>1, <1>2, <2>4, <3>1, EndsQuiet
  <2>5. CASE proc' = [proc EXCEPT ![p] = Served(p, proc[p].rec, "hit")]
    <3>1. PICK v : v = Served(p, proc[p].rec, "hit")
      OBVIOUS
    <3>2. v.pc \in {"epoch", "done"} /\ v.pub = proc[p].pub /\ v.ans # "kept" /\ v \in Call
      BY <1>1, <1>2, <3>1, ServedIs DEF Call, Vias
    <3>3. v.ans \in Anss
      BY <3>2 DEF Call
    <3> QED BY <1>1, <1>2, <2>5, <3>1, <3>2, <3>3, MovesOn
  <2>6. CASE shared(p, t) \/ shared(p, f)
    BY <1>1, <1>2, <2>2, <2>3, <2>6, SharedQuiet
  <2> QED BY <2>1, <2>4, <2>5, <2>6
<1>8. ASSUME refreshHit(p) PROVE \A q \in Procs : Quiet(q)
  <2> DEFINE w == [proc[p] EXCEPT !.pc = "fill", !.rec.seen = proc[p].cut]
             k == readThrough(p, TRUE)
  <2>1. touch(p, w, k) /\ proc[p].pc = "touchHit"
    BY <1>8 DEF refreshHit
  <2>2. Kin(w)
    BY <1>1 DEF Call
  <2>3. Kin(k)
    <3> HIDE DEF Kin
    <3> QED BY <1>5
  <2> HIDE DEF w, k
  <2> QED BY <1>1, <1>2, <2>1, <2>2, <2>3, TouchQuiet
<1>9. ASSUME find(p) PROVE \A q \in Procs : Quiet(q)
  <2>1. PICK rec : rec = [created |-> row[Sid(p)].created, seen |-> row[Sid(p)].seen]
    OBVIOUS
  <2>2. rec \in Recs
    BY <2>1, CallInfo DEF IInv, Types, Row, Recs
  <2> DEFINE a == [proc[p] EXCEPT !.rec = rec]
             t == [proc[p] EXCEPT !.pc = "touchRead", !.rec = rec, !.cut = Clock(Node(p))]
             g == Filling(a)
  <2>3. \/ Answer(p, FALSE, NoRec)
        \/ proc' = [proc EXCEPT ![p] = t]
        \/ proc' = [proc EXCEPT ![p] = g]
    BY <1>9, <2>1 DEF find
  <2>4. Kin(t)
    BY <1>1 DEF Call
  <2>5. Kin(g)
    <3>1. a \in Call /\ Kin(a)
      <4>1. Same(a, proc[p]) /\ a.pc = proc[p].pc /\ a \in Call
        BY <1>1, <2>2, SetRec
      <4> HIDE DEF a
      <4> QED BY <1>1, <4>1 DEF Same
    <3> HIDE DEF Kin, a
    <3> QED BY <1>4, <3>1
  <2> HIDE DEF t, g
  <2>6. CASE Answer(p, FALSE, NoRec)
    BY <1>1, <1>2, <1>3, <2>6, AnswerQuiet
  <2>7. CASE proc' = [proc EXCEPT ![p] = t] \/ proc' = [proc EXCEPT ![p] = g]
    BY <1>1, <1>2, <2>4, <2>5, <2>7, MovesOn
  <2> QED BY <2>3, <2>6, <2>7
<1>10. ASSUME touchRead(p) PROVE \A q \in Procs : Quiet(q)
  <2> DEFINE a == [proc[p] EXCEPT !.rec.seen = proc[p].cut]
             w == Filling(a)
             k == Filling(proc[p])
  <2>1. touch(p, w, k) /\ proc[p].pc = "touchRead"
    BY <1>10 DEF touchRead
  <2>2. a \in Call /\ Kin(a)
    <3>1. PICK rec \in Recs : rec = [proc[p].rec EXCEPT !.seen = proc[p].cut]
      BY <1>1 DEF Call, Recs
    <3>2. a = [proc[p] EXCEPT !.rec = rec]
      BY <1>1, <3>1 DEF Call
    <3>3. Same(a, proc[p]) /\ a.pc = proc[p].pc /\ a \in Call
      BY <1>1, <3>1, <3>2, SetRec
    <3> HIDE DEF a
    <3> QED BY <1>1, <3>3 DEF Same
  <2>3. Kin(w) /\ Kin(k)
    <3>1. Kin(proc[p])
      BY <1>1
    <3> HIDE DEF Kin, a
    <3> QED BY <1>1, <1>4, <2>2, <3>1
  <2> HIDE DEF w, k
  <2> QED BY <1>1, <1>2, <2>1, <2>3, TouchQuiet
<1>11. ASSUME fillCache(p) \/ answer(p) PROVE \A q \in Procs : Quiet(q)
  <2>1. Answer(p, TRUE, proc[p].rec) /\ proc[p].rec \in Recs
    BY <1>1, <1>11 DEF fillCache, answer, Call
  <2> QED BY <1>1, <1>2, <2>1, AnswerQuiet
<1>12. /\ UNCHANGED <<now, job, epoch, published, epochCache>>
       /\ \A l \in late' : l \in late \/ l.w # "epoch"
  <2>1. CASE \/ read(p) \/ get(p) \/ refreshHit(p) \/ find(p) \/ touchRead(p) \/ answer(p)
    BY <2>1 DEF read, get, refreshHit, find, touchRead, answer, setup, dbVars, redisVars
  <2>2. CASE fillCache(p)
    <3>1. CASE UNCHANGED redisVars
      BY <2>2, <3>1 DEF fillCache, setup, dbVars, redisVars
    <3>2. CASE \E l : l.w = "entry" /\ bounded(l)
      <4>1. UNCHANGED <<published, epochCache>> /\ \A l \in late' : l \in late \/ l.w # "epoch"
        BY <3>2 DEF bounded, done, lost, write
      <4> QED BY <2>2, <4>1 DEF fillCache, setup, dbVars
    <3>3. \A s, rec, fresh, ttl : EntryWrite(s, rec, fresh, ttl).w = "entry"
      BY DEF EntryWrite
    <3> QED BY <2>2, <3>1, <3>2, <3>3 DEF fillCache
  <2> QED BY <2>1, <2>2
<1>13. \A q \in Procs : Quiet(q)
  BY <1>6, <1>7, <1>8, <1>9, <1>10, <1>11
<1> QED BY <1>12, <1>13, QuietStep

\* What a step of the marking writes: its own call and, for one session, Redis.
LEMMA MarkMoves ==
  ASSUME NEW p, NEW s, markRevoked(p, s)
  PROVE  /\ \/ proc' = [proc EXCEPT ![p] = [proc[p] EXCEPT !.sets = @ \ {s}, !.dels = @ \cup {s},
                                                         !.took = @ \cup {s}]]
            \/ proc' = [proc EXCEPT ![p] = [proc[p] EXCEPT !.sets = @ \ {s}]]
            \/ proc' = [proc EXCEPT ![p] = [proc[p] EXCEPT !.dels = @ \ {s}]]
         /\ UNCHANGED <<now, job, epoch>>
         /\ \/ done(TombWrite(s)) \/ lost(TombWrite(s))
            \/ UNCHANGED <<late, epochCache, published>>
<1>1. UNCHANGED <<now, job, epoch>>
  BY DEF markRevoked, setup, dbVars
<1>2. CASE /\ done(TombWrite(s)) \/ lost(TombWrite(s))
           /\ \/ proc' = [proc EXCEPT ![p].sets = @ \ {s}, ![p].dels = @ \cup {s},
                                      ![p].took = @ \cup {s}]
              \/ proc' = [proc EXCEPT ![p].sets = @ \ {s}]
  BY <1>1, <1>2
<1>3. CASE /\ proc' = [proc EXCEPT ![p].dels = @ \ {s}]
           /\ UNCHANGED <<late, epochCache, published>>
  BY <1>1, <1>3
<1> QED BY <1>2, <1>3 DEF markRevoked

\* What begins an end or a session, and each step of an end but the publish.
LEMMA EndsAreQuiet ==
  ASSUME Constants, IInv, Resets, NEW p \in Procs,
         \/ create(p) \/ revoke(p) \/ revokeAllForRealm(p) \/ endLapsed(p) \/ deleteEnded(p)
         \/ endSelected(p) \/ tombstone(p) \/ afterEnded(p)
         \/ \E s \in Sids : markRevoked(p, s)
  PROVE  Resets'
<1>1. proc[p] \in Call /\ Types /\ proc[p].pc # "done"
  BY DEF IInv, Types, create, revoke, revokeAllForRealm, endLapsed, deleteEnded,
         endSelected, tombstone, afterEnded, markRevoked
<1> DEFINE Kin(w) == w.pub \in {0, proc[p].pub} /\ w.ans \in {proc[p].ans, "none"}
                     /\ w.pc \notin {"start", "epochFill", "publish"}
<1>2. "none" \in Anss \ {"kept"} /\ "ended" \in Anss \ {"kept"} /\ "error" \in Anss \ {"kept"}
  BY DEF Anss
<1>3. ASSUME NEW w, Kin(w), proc' = [proc EXCEPT ![p] = w] PROVE \A q \in Procs : Quiet(q)
  BY <1>1, <1>2, <1>3, MovesOn
<1>4. ASSUME NEW ans \in {"ended", "error"}, proc' = [proc EXCEPT ![p] = Finished(proc[p], ans)]
      PROVE  \A q \in Procs : Quiet(q)
  BY <1>1, <1>2, <1>4, EndsQuiet
<1>5. ASSUME create(p) PROVE \A q \in Procs : Quiet(q)
  <2> DEFINE rec == [created |-> Clock(Node(p)), seen |-> Clock(Node(p))]
             r == [Idle EXCEPT !.pc = "fill", !.fresh = Clock(Node(p)) + CacheTtl, !.rec = rec]
  <2>1. proc' = [proc EXCEPT ![p] = r]
    BY <1>5 DEF create
  <2>2. Kin(r)
    BY DEF Idle
  <2> HIDE DEF r, Kin
  <2> QED BY <1>3, <2>1, <2>2
<1>6. ASSUME revoke(p) PROVE \A q \in Procs : Quiet(q)
  <2> DEFINE r == [Idle EXCEPT !.pc = "end"]
  <2>1. proc' = [proc EXCEPT ![p] = r]
    BY <1>6 DEF revoke
  <2>2. Kin(r)
    BY DEF Idle
  <2> HIDE DEF r, Kin
  <2> QED BY <1>3, <2>1, <2>2
<1>7. ASSUME revokeAllForRealm(p) PROVE \A q \in Procs : Quiet(q)
  <2>1. PICK since : proc' = [proc EXCEPT ![p] = [Idle EXCEPT !.pc = "end",
                       !.cut = createdThrough(Node(p)), !.since = since,
                       !.owed = {s \in Live : used[s] >= since}]]
    BY <1>7 DEF revokeAllForRealm
  <2> DEFINE r == [Idle EXCEPT !.pc = "end", !.cut = createdThrough(Node(p)), !.since = since,
                               !.owed = {s \in Live : used[s] >= since}]
  <2>2. proc' = [proc EXCEPT ![p] = r]
    BY <2>1
  <2>3. Kin(r)
    BY DEF Idle
  <2> HIDE DEF r, Kin
  <2> QED BY <1>3, <2>2, <2>3
<1>8. ASSUME endLapsed(p) PROVE \A q \in Procs : Quiet(q)
  <2> DEFINE r == [Idle EXCEPT !.pc = "end", !.cut = Clock(Node(p))]
  <2>1. proc' = [proc EXCEPT ![p] = r]
    BY <1>8 DEF endLapsed
  <2>2. Kin(r)
    BY DEF Idle
  <2> HIDE DEF r, Kin
  <2> QED BY <1>3, <2>1, <2>2
<1>9. ASSUME deleteEnded(p) PROVE \A q \in Procs : Quiet(q)
  BY <1>4, <1>9 DEF deleteEnded
<1>10. ASSUME endSelected(p) PROVE \A q \in Procs : Quiet(q)
  <2>1. PICK ended : \/ proc' = [proc EXCEPT ![p] = Finished(proc[p], "ended")]
                     \/ proc' = [proc EXCEPT ![p] = [proc[p] EXCEPT !.pc = "ended", !.batch = ended]]
                     \/ proc' = [proc EXCEPT ![p] = Finished(proc[p], "error")]
    BY <1>10 DEF endSelected
  <2> DEFINE r == [proc[p] EXCEPT !.pc = "ended", !.batch = ended]
  <2>2. Kin(r)
    BY <1>1 DEF Call
  <2>3. \/ proc' = [proc EXCEPT ![p] = Finished(proc[p], "ended")] \/ proc' = [proc EXCEPT ![p] = r]
        \/ proc' = [proc EXCEPT ![p] = Finished(proc[p], "error")]
    BY <2>1
  <2> HIDE DEF r, Kin
  <2> QED BY <1>3, <1>4, <2>2, <2>3
<1>11. ASSUME tombstone(p) PROVE \A q \in Procs : Quiet(q)
  <2> DEFINE r == [proc[p] EXCEPT !.pc = "mark", !.sets = proc[p].batch]
  <2>1. proc' = [proc EXCEPT ![p] = r]
    BY <1>11 DEF tombstone
  <2>2. Kin(r)
    BY <1>1 DEF Call
  <2> HIDE DEF r, Kin
  <2> QED BY <1>3, <2>1, <2>2
<1>12. ASSUME afterEnded(p) PROVE \A q \in Procs : Quiet(q)
  <2> DEFINE r == [proc[p] EXCEPT !.pc = "end", !.took = {}, !.batch = {},
                                  !.after = Max(proc[p].batch)]
  <2>1. \/ proc' = [proc EXCEPT ![p] = r]
        \/ proc' = [proc EXCEPT ![p] = Finished(proc[p], "ended")]
    BY <1>12 DEF afterEnded
  <2>2. Kin(r)
    BY <1>1 DEF Call
  <2> HIDE DEF r, Kin
  <2> QED BY <1>3, <1>4, <2>1, <2>2
<1>13. ASSUME NEW s \in Sids, markRevoked(p, s) PROVE \A q \in Procs : Quiet(q)
  <2> DEFINE a == [proc[p] EXCEPT !.sets = @ \ {s}, !.dels = @ \cup {s}, !.took = @ \cup {s}]
             b == [proc[p] EXCEPT !.sets = @ \ {s}]
             c == [proc[p] EXCEPT !.dels = @ \ {s}]
  <2>1. proc[p].pc = "mark" /\ proc[p] \in Call
    BY <1>1, <1>13 DEF markRevoked
  <2>3. proc' = [proc EXCEPT ![p] = a] \/ proc' = [proc EXCEPT ![p] = b]
        \/ proc' = [proc EXCEPT ![p] = c]
    BY <1>13, MarkMoves
  <2>2. Kin(a) /\ Kin(b) /\ Kin(c)
    BY <2>1 DEF Call
  <2> HIDE DEF a, b, c, Kin
  <2> QED BY <1>3, <2>2, <2>3
<1>14. /\ UNCHANGED <<now, job, epoch, published, epochCache>>
       /\ \A l \in late' : l \in late \/ l.w # "epoch"
  <2>1. CASE \/ create(p) \/ revoke(p) \/ revokeAllForRealm(p) \/ endLapsed(p) \/ deleteEnded(p)
             \/ endSelected(p) \/ tombstone(p) \/ afterEnded(p)
    BY <2>1 DEF create, revoke, revokeAllForRealm, endLapsed, deleteEnded, endSelected,
                tombstone, afterEnded, setup, dbVars, redisVars
  <2>2. ASSUME NEW s \in Sids, markRevoked(p, s)
        PROVE  /\ UNCHANGED <<now, job, epoch, published, epochCache>>
               /\ \A l \in late' : l \in late \/ l.w # "epoch"
    <3>1. UNCHANGED <<now, job, epoch>>
      BY <2>2, MarkMoves
    <3>2. CASE UNCHANGED <<late, epochCache, published>>
      BY <3>1, <3>2
    <3>3. CASE done(TombWrite(s)) \/ lost(TombWrite(s))
      BY <3>1, <3>3 DEF done, lost, write, TombWrite
    <3> QED BY <2>2, <3>2, <3>3, MarkMoves
  <2> QED BY <2>1, <2>2
<1>15. \A q \in Procs : Quiet(q)
  BY <1>5, <1>6, <1>7, <1>8, <1>9, <1>10, <1>11, <1>12, <1>13
<1> QED BY <1>14, <1>15, QuietStep

LEMMA RoundQuiet ==
  ASSUME IInv, Resets, NEW p \in Procs, resetNotBefore(p)
  PROVE  Resets'
<1> DEFINE r == [Idle EXCEPT !.pc = "epoch"]
<1>1. /\ proc' = [proc EXCEPT ![p] = r] /\ UNCHANGED <<now, job, epoch, published, epochCache, late>>
      /\ proc[p].pc = "start" /\ Types
  BY DEF resetNotBefore, setup, dbVars, redisVars, IInv
<1>2. r.pc = "epoch" /\ r.pub = 0 /\ r.ans \in Anss \ {"kept"}
  BY DEF Idle, Anss
<1> HIDE DEF r
<1>3. \A q \in Procs : Quiet(q)
  BY <1>1, <1>2, MovesOn
<1> QED BY <1>1, <1>3, QuietStep

LEMMA AskReset ==
  ASSUME IInv, Resets, NEW p \in Procs, Ask(p)
  PROVE  Resets'
<1> DEFINE r == [Idle EXCEPT !.pc = "mget", !.must = ensured[Sid(p)], !.pub = published.at]
<1>1. proc' = [proc EXCEPT ![p] = r] /\ UNCHANGED <<now, job, epoch, published, epochCache, late>>
  BY DEF Ask, setup, dbVars, redisVars
<1>2. r.pc = "mget" /\ r.pub = published.at /\ r.ans = "none"
  BY DEF Idle
<1> HIDE DEF r
<1>3. proc'[p] = r /\ \A q \in Procs : q # p => proc'[q] = proc[q]
  BY <1>1 DEF IInv, Types
<1>4. ResetCall(p)'
  BY <1>1, <1>2, <1>3 DEF ResetCall, Resets
<1>5. ASSUME NEW q \in Procs, q # p PROVE ResetCall(q)'
  BY <1>1, <1>3, <1>5, QuietStays DEF Quiet, Resets, Alive
<1> QED BY <1>1, <1>4, <1>5 DEF Resets, Alive

\* The epoch a lookup that knew of the reset was told is the reset's, unless
\* what was published has run out.
LEMMA KeptReset ==
  ASSUME IInv, Resets, NEW p \in Procs, NEW at, NEW out \in BOOLEAN,
         proc[p].pub # 0 => at = epoch \/ out,
         proc[p].pc # "done", proc' = [proc EXCEPT ![p] = Kept(p, at, out)],
         UNCHANGED <<job, epoch>>, published.at # 0 => published'.at # 0
  PROVE  ResetCall(p)'
<1>1. proc[p] \in Call /\ proc[p].ans # "kept" /\ ResetCall(p)
  BY DEF IInv, Types, Resets, ResetCall
<1>2. PICK k : k = Kept(p, at, out)
  OBVIOUS
<1>3. proc'[p] = k
  BY <1>2 DEF IInv, Types
<1>4. CASE k = [proc[p] EXCEPT !.pc = "end"]
  <2>2. k.pc = "end" /\ k.ans = proc[p].ans /\ k.pub = proc[p].pub
    BY <1>1, <1>4 DEF Call
  <2> QED BY <1>1, <1>3, <2>2 DEF ResetCall
<1>5. CASE k = Finished(proc[p], "asked")
  <2>2. k.pc = "done" /\ k.pub = proc[p].pub /\ k.ans = "asked"
    BY <1>1, <1>5, FinishedIs DEF Anss
  <2> QED BY <1>1, <1>3, <2>2 DEF ResetCall
<1>6. CASE /\ ~predatesReset(at, proc[p].rec.created) /\ k.ranOut = out
           /\ k.pc = "done" /\ k.pub = proc[p].pub /\ k.rec = proc[p].rec
  <2>3. predatesReset(k.pub, k.rec.created) => k.ranOut
    BY <1>1, <1>6 DEF predatesReset, ResetCall
  <2> QED BY <1>1, <1>3, <1>6, <2>3 DEF ResetCall, predatesReset
<1> QED BY <1>1, <1>2, <1>4, <1>5, <1>6, KeptIs

LEMMA LastResetReset ==
  ASSUME IInv, Resets, NEW p \in Procs, lastReset(p)
  PROVE  Resets'
<1>1. /\ UNCHANGED <<now, job, epoch, published, epochCache, late>> /\ proc[p].pc = "epoch"
      /\ proc[p] \in Call
  BY DEF lastReset, setup, dbVars, redisVars, IInv, Types
<1>2. CASE /\ Alive(epochCache.dies)
           /\ proc' = [proc EXCEPT ![p] = Kept(p, epochCache.at, ~Alive(published.dies))]
  <2>0. Alive(published.dies) \in BOOLEAN
    BY DEF Alive, IInv, Types, CachedEpoch
  <2>1. proc[p].pub # 0 => epochCache.at = epoch \/ ~Alive(published.dies)
    BY <1>2 DEF Resets, ResetCall
  <2>2. ResetCall(p)'
    BY <1>1, <1>2, <2>0, <2>1, KeptReset
  <2>3. ASSUME NEW q \in Procs, q # p PROVE ResetCall(q)'
    <3>1. proc'[q] = proc[q]
      BY <1>2, <2>3 DEF IInv, Types
    <3> QED BY <1>1, <3>1, QuietStays DEF Quiet, Resets, Alive
  <2> QED BY <1>1, <2>2, <2>3 DEF Resets, Alive
<1>3. CASE proc' = [proc EXCEPT ![p].pc = "epochFind"]
  <2> DEFINE r == [proc[p] EXCEPT !.pc = "epochFind"]
  <2>1. proc' = [proc EXCEPT ![p] = r]
    BY <1>3
  <2>2. r.pub = proc[p].pub /\ r.ans = proc[p].ans /\ r.pc = "epochFind"
    BY <1>1 DEF Call
  <2> HIDE DEF r
  <2>3. \A q \in Procs : Quiet(q)
    BY <1>1, <2>1, <2>2, MovesOn DEF IInv
  <2> QED BY <1>1, <2>3, QuietStep
<1> QED BY <1>2, <1>3 DEF lastReset

LEMMA FindEpochReset ==
  ASSUME IInv, Resets, NEW p \in Procs, findEpoch(p)
  PROVE  Resets'
<1>1. /\ UNCHANGED <<now, job, epoch, published, epochCache, late>> /\ proc[p].pc = "epochFind"
      /\ proc[p] \in Call
  BY DEF findEpoch, setup, dbVars, redisVars, IInv, Types
<1>2. CASE proc' = [proc EXCEPT ![p].pc = "epochFill", ![p].cut = epoch]
  <2> DEFINE r == [proc[p] EXCEPT !.pc = "epochFill", !.cut = epoch]
  <2>1. proc' = [proc EXCEPT ![p] = r]
    BY <1>2
  <2>2. r.pub = proc[p].pub /\ r.ans = proc[p].ans /\ r.pc = "epochFill" /\ r.cut = epoch
    BY <1>1 DEF Call
  <2> HIDE DEF r
  <2>3. proc'[p] = r /\ \A q \in Procs : q # p => proc'[q] = proc[q]
    BY <2>1 DEF IInv, Types
  <2>4. ResetCall(p)'
    BY <1>1, <2>2, <2>3 DEF ResetCall, Resets
  <2>5. ASSUME NEW q \in Procs, q # p PROVE ResetCall(q)'
    BY <1>1, <2>3, <2>5, QuietStays DEF Quiet, Resets, Alive
  <2> QED BY <1>1, <2>4, <2>5 DEF Resets, Alive
<1>3. CASE proc' = [proc EXCEPT ![p] = Finished(@, "error")]
  <2>1. "error" \in Anss \ {"kept"}
    BY DEF Anss
  <2>2. \A q \in Procs : Quiet(q)
    BY <1>1, <1>3, <2>1, EndsQuiet DEF IInv
  <2> QED BY <1>1, <2>2, QuietStep
<1> QED BY <1>2, <1>3 DEF findEpoch

\* A fill, in time or late, writes nothing over what was published.
LEMMA FillLands ==
  ASSUME IInv, Resets, NEW l, l.w = "fill", write(l), UNCHANGED now
  PROVE  /\ published' = published
         /\ published.at # 0 /\ Alive(published.dies) => epochCache' = epochCache
<1>1. epochCache' = FillEmpty(l.fresh) /\ published' = published
  BY DEF write
<1>2. published.at # 0 /\ Alive(published.dies) => Alive(epochCache.dies)
  BY DEF Resets
<1> QED BY <1>1, <1>2 DEF FillEmpty

LEMMA FillEpochReset ==
  ASSUME Constants, IInv, Resets, NEW p \in Procs, fillEpoch(p)
  PROVE  Resets'
<1>1. /\ UNCHANGED <<now, job, epoch>> /\ proc[p].pc = "epochFill"
      /\ proc' = [proc EXCEPT ![p] = Kept(p, proc[p].cut, FALSE)]
  BY DEF fillEpoch, setup, dbVars
<1>0. PICK l : l = EpochFill(proc[p].cut)
  OBVIOUS
<1>2. l = EpochFill(proc[p].cut) /\ l.w = "fill"
  BY <1>0 DEF EpochFill, EpochWrite
<1>3. /\ published' = published
      /\ published.at # 0 /\ Alive(published.dies) => epochCache' = epochCache
      /\ \A m \in late' : m \in late \/ m.w # "epoch"
  <2>1. bounded(l)
    BY <1>2 DEF fillEpoch
  <2>2. CASE done(l)
    BY <1>1, <1>2, <2>2, FillLands DEF done
  <2>3. CASE lost(l)
    BY <1>2, <2>3 DEF lost
  <2> QED BY <2>1, <2>2, <2>3 DEF bounded
<1>4. proc[p].pub # 0 => proc[p].cut = epoch
  BY <1>1 DEF Resets, ResetCall
<1>5. ResetCall(p)'
  BY <1>1, <1>3, <1>4, KeptReset
<1>7. ASSUME NEW q \in Procs, q # p PROVE ResetCall(q)'
  <2>1. proc'[q] = proc[q]
    BY <1>1, <1>7 DEF IInv, Types
  <2> QED BY <1>1, <1>3, <2>1, QuietStays DEF Quiet, Resets
<1> QED BY <1>1, <1>3, <1>5, <1>7 DEF Resets, Alive

\* Before the one reset, nothing is published and no write of an epoch is out.
LEMMA AdvanceReset ==
  ASSUME Constants, OneReset, IInv, Resets, NEW p \in Procs, advance(p)
  PROVE  Resets'
<1>1. /\ UNCHANGED <<now, job, published, epochCache, late>> /\ proc[p].pc = "start"
      /\ Op(p) = "reset" /\ epoch' = IF epoch >= Clock(Node(p)) THEN epoch ELSE Clock(Node(p))
  BY DEF advance, setup, redisVars
<1>2. epoch = 0 /\ published.at = 0 /\ \A q \in Procs : proc[q].pub = 0
  BY <1>1 DEF Resets, ResetCall
<1>3. epoch' # 0 /\ epoch' \in Nat
  <2>1. Clock(Node(p)) \in Nat /\ now <= Clock(Node(p)) /\ now \in Nat
    BY CallInfo, ClockIs DEF IInv, Types
  <2>2. job.from \in Nat /\ job.from # 0 /\ job.from <= now
    BY CallInfo DEF IInv, Types
  <2> QED BY <1>1, <1>2, <2>1, <2>2
<1>4. \A l \in late : l.w # "epoch"
  BY <1>2 DEF Resets
<1>5. PICK c : c = epoch'
  OBVIOUS
<1> DEFINE r == [Idle EXCEPT !.pc = "publish", !.cut = c]
<1>6. proc' = [proc EXCEPT ![p] = r]
  BY <1>5 DEF advance
<1>7. r.pc = "publish" /\ r.cut = c /\ r.pub = 0 /\ r.ans = "none"
  BY DEF Idle
<1> HIDE DEF r
<1>8. proc'[p] = r /\ \A q \in Procs : q # p => proc'[q] = proc[q]
  BY <1>6 DEF IInv, Types
<1>9. \A q \in Procs : Op(q)' = Op(q)
  BY <1>1 DEF Op
<1>10. ResetCall(p)'
  BY <1>3, <1>5, <1>7, <1>8 DEF ResetCall
<1>11. ASSUME NEW q \in Procs, q # p PROVE ResetCall(q)'
  <2>1. Op(q) # "reset"
    BY <1>1, <1>11 DEF OneReset, Op, IInv, Types
  <2>2. proc[q].pc # "publish"
    BY <2>1 DEF IInv, Calls, CallOK, Kind
  <2>3. proc[q].ans = "kept" => proc[q].pc = "done"
    BY DEF Resets, ResetCall
  <2> QED BY <1>1, <1>2, <1>8, <1>9, <1>11, <2>1, <2>2, <2>3 DEF ResetCall, predatesReset
<1> QED BY <1>1, <1>2, <1>4, <1>10, <1>11 DEF Resets

\* A write of the epoch, when it is sent or when it lands.
LEMMA EpochWritten ==
  ASSUME Resets, NEW l, l.w = "epoch", l.fresh = epoch, epoch # 0, write(l),
         UNCHANGED <<epoch, job>>, NEW q \in Procs, proc'[q] = proc[q]
  PROVE  ResetCall(q)'
<1>1. published'.at = epoch
  BY DEF write
<1> QED BY <1>1, QuietStays DEF Quiet, Resets

LEMMA PublishReset ==
  ASSUME Constants, IInv, Resets, NEW p \in Procs, publish(p)
  PROVE  Resets'
<1>1. /\ UNCHANGED <<now, job, epoch>> /\ proc[p].pc = "publish" /\ proc[p] \in Call
      /\ bounded(EpochWrite(proc[p].cut)) /\ proc' = [proc EXCEPT ![p].pc = "end"]
  BY DEF publish, setup, dbVars, IInv, Types
<1>2. proc[p].cut = epoch /\ epoch # 0
  BY <1>1 DEF Resets, ResetCall
<1>3. PICK l : l = EpochWrite(epoch)
  OBVIOUS
<1>4. l.w = "epoch" /\ l.fresh = epoch
  BY <1>3 DEF EpochWrite
<1> DEFINE r == [proc[p] EXCEPT !.pc = "end"]
<1>5. proc' = [proc EXCEPT ![p] = r]
  BY <1>1
<1>6. r.pub = proc[p].pub /\ r.ans = proc[p].ans /\ r.pc = "end"
  BY <1>1 DEF Call
<1> HIDE DEF r
<1>7. proc'[p] = r /\ \A q \in Procs : q # p => proc'[q] = proc[q]
  BY <1>5 DEF IInv, Types
<1>8. CASE done(l)
  <2>1. write(l) /\ late' = late
    BY <1>8 DEF done
  <2>2. published'.at = epoch /\ epochCache' = published'
    BY <1>4, <2>1 DEF write
  <2>3. \A q \in Procs : q # p => ResetCall(q)'
    BY <1>1, <1>2, <1>4, <1>7, <2>1, EpochWritten
  <2>4. ResetCall(p)'
    BY <1>1, <1>2, <1>6, <1>7, <2>2 DEF ResetCall, Resets
  <2> QED BY <1>1, <2>1, <2>2, <2>3, <2>4 DEF Resets
<1>9. CASE lost(l)
  <2>1. UNCHANGED <<epochCache, published>> /\ late' \subseteq late \cup {l}
    BY <1>9 DEF lost
  <2>2. \A q \in Procs : Quiet(q)
    BY <1>1, <1>5, <1>6, MovesOn DEF IInv
  <2>3. \A q \in Procs : ResetCall(q)'
    BY <1>1, <2>1, <2>2, QuietStays DEF Resets, Alive
  <2> QED BY <1>1, <1>2, <1>4, <2>1, <2>3 DEF Resets, Alive
<1> QED BY <1>1, <1>2, <1>3, <1>8, <1>9 DEF bounded

LEMMA LandReset ==
  ASSUME Constants, IInv, Resets, Land
  PROVE  Resets'
<1>1. PICK l \in late : write(l) /\ late' = late \ {l}
  BY DEF Land
<1>2. UNCHANGED <<now, job, epoch, proc>>
  BY DEF Land, setup, dbVars
<1>3. CASE l.w = "epoch"
  <2>1. l.fresh = epoch /\ epoch # 0
    BY <1>3 DEF Resets
  <2>2. published'.at = epoch /\ epochCache' = published'
    BY <1>1, <1>3, <2>1 DEF write
  <2>3. \A q \in Procs : ResetCall(q)'
    BY <1>1, <1>2, <1>3, <2>1, EpochWritten
  <2> QED BY <1>1, <1>2, <2>2, <2>3 DEF Resets
<1>4. CASE l.w = "fill"
  <2>1. /\ published' = published
        /\ published.at # 0 /\ Alive(published.dies) => epochCache' = epochCache
    BY <1>1, <1>2, <1>4, FillLands
  <2>2. \A q \in Procs : ResetCall(q)'
    BY <1>2, <2>1, QuietStays DEF Quiet, Resets
  <2> QED BY <1>1, <1>2, <2>1, <2>2 DEF Resets, Alive
<1>5. CASE l.w \notin {"epoch", "fill"}
  <2>1. UNCHANGED <<epochCache, published>>
    BY <1>1, <1>5 DEF write
  <2> QED BY <1>1, <1>2, <2>1, QuietStep DEF Quiet
<1> QED BY <1>3, <1>4, <1>5

LEMMA TickReset ==
  ASSUME IInv, Resets, Tick
  PROVE  Resets'
<1>1. now' = now + 1 /\ UNCHANGED <<job, epoch, published, epochCache, late, proc>>
  BY DEF Tick, dbVars, redisVars
<1>2. now \in Nat /\ published.dies \in Nat
  BY DEF IInv, Types, CachedEpoch
<1>3. Alive(published.dies)' => Alive(published.dies)
  BY <1>1, <1>2 DEF Alive
<1>4. ASSUME NEW q \in Procs PROVE ResetCall(q)'
  BY <1>1, QuietStays DEF Quiet, Resets
<1> QED BY <1>1, <1>3, <1>4 DEF Resets

LEMMA ResetsInit ==
  ASSUME Init
  PROVE  Resets
<1>1. epoch = 0 /\ published.at = 0 /\ late = {} /\ \A p \in Procs : proc[p] = Idle
  BY DEF Init, NoEpoch
<1> QED BY <1>1, IdleIs DEF Resets, ResetCall

LEMMA ResetsNext ==
  ASSUME OneReset, IInv, Resets, [Next]_vars
  PROVE  Resets'
<1>0. Constants
  BY ConstantsHold
<1>1. CASE UNCHANGED vars
  BY <1>1, QuietStep DEF Quiet, vars
<1>2. CASE Tick
  BY <1>2, TickReset
<1>3. CASE Land
  BY <1>0, <1>3, LandReset
<1>4. ASSUME NEW p \in Procs, Start(p) PROVE Resets'
  BY <1>0, <1>4, AskReset, AdvanceReset, EndsAreQuiet, RoundQuiet DEF Start
<1>5. ASSUME NEW p \in Procs, Step(p) PROVE Resets'
  <2>1. CASE read(p) \/ get(p) \/ refreshHit(p) \/ find(p) \/ touchRead(p) \/ fillCache(p) \/ answer(p)
    BY <1>0, <2>1, LookupsQuiet
  <2>2. CASE lastReset(p) \/ findEpoch(p) \/ fillEpoch(p) \/ publish(p)
    BY <1>0, <2>2, LastResetReset, FindEpochReset, FillEpochReset, PublishReset
  <2>3. CASE endSelected(p) \/ tombstone(p) \/ afterEnded(p) \/ \E s \in Sids : markRevoked(p, s)
    BY <1>0, <2>3, EndsAreQuiet
  <2> QED BY <1>5, <2>1, <2>2, <2>3 DEF Step
<1> QED BY <1>1, <1>2, <1>3, <1>4, <1>5 DEF Next

\* While at most one reset runs in a workload, a session created no later than
\* it is kept by no lookup that began after the epoch was published, until the
\* published value runs out in the cache: no fill covers it before, one read
\* before the reset and landing late included (advance, publish, fillEpoch, Land).
THEOREM ResetsRefuse == OneReset => (Spec => []ResetRefusesOldSessions)
<1> SUFFICES ASSUME OneReset PROVE Spec => []ResetRefusesOldSessions
  OBVIOUS
<1>1. Init => Resets
  BY ResetsInit
<1>2. IInv /\ Resets /\ [Next]_vars => Resets'
  BY ResetsNext
<1>3. Resets => ResetRefusesOldSessions
  BY DEF Resets, ResetCall, ResetRefusesOldSessions
<1> QED BY <1>1, <1>2, <1>3, Inductive, PTL DEF Spec
============================================================================
