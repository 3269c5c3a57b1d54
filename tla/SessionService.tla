-------------------------- MODULE SessionService --------------------------
(***************************************************************************)
(* Browser sessions of one user: the Postgres rows, the Redis cache in     *)
(* front of them (an entry and a tombstone per session), the sharing of    *)
(* one Postgres round trip per session and node, and the user's session    *)
(* epoch with its own cache.  Every statement and every Redis command is   *)
(* a step of its own; a process is one call of the service on one node.    *)
(*                                                                         *)
(* Time is discrete. A node reads its own clock, which runs at most        *)
(* MaxSkew ahead of real time; Redis counts down in real time. One tick is *)
(* far longer than a cache call's timeout (250 ms against a cache time of  *)
(* 60 s), so no tick passes inside the calls that `Brief` names.           *)
(***************************************************************************)
EXTENDS Integers, FiniteSets, FiniteSetsExt

CONSTANTS
  Nodes,          \* auth-server processes
  Sids,           \* session ids: numbers, in the order of the uuid column
  Procs,          \* calls of the service
  Jobs,           \* workloads: what each call does, which faults happen, the ticks
  Offset,         \* how far each node's clock runs ahead
  CacheTtl,       \* cacheTtlMs, also the epoch cache's
  IdleLimit,      \* the realm's sso_idle_timeout
  Lifespan,       \* the realm's sso_max_lifespan
  SeenInterval,   \* lastSeenIntervalSeconds
  SkewAllowance,  \* SESSION_CLOCK_SKEW_ALLOWANCE_MS
  ResetMargin,    \* NOT_VALID_BEFORE_MARGIN_MS
  Batch,          \* sessions per batch of a bulk revocation
  None

Ops == {"none", "create", "get", "resolve", "revoke", "user", "realm", "lapsed", "purge", "reset", "round"}

ASSUME SessionAssumption ==
  /\ Sids \subseteq Nat /\ 0 \notin Sids /\ IsFiniteSet(Sids)
  /\ Jobs \subseteq [do : [Procs -> [op : Ops, s : Sids, n : Nodes]],
                    faults : SUBSET {"cache", "late", "lateEpoch", "store"},
                    from : Nat \ {0}, until : Nat]
  /\ \A j \in Jobs : j.from <= j.until
  /\ IsFiniteSet(Nodes) /\ Nodes # {}
  /\ Offset \in [Nodes -> Nat]
  /\ {CacheTtl, IdleLimit, Lifespan, SeenInterval, Batch} \subseteq Nat \ {0}
  /\ {SkewAllowance, ResetMargin} \subseteq Nat
  /\ None \notin Procs \cup Nat

MaxSkew == Max({Offset[n] : n \in Nodes})

\* Two bounds the deployment keeps: clocks agree within the allowances.
ASSUME SkewAssumption == MaxSkew <= SkewAllowance /\ MaxSkew <= ResetMargin
                         /\ MaxSkew <= CacheTtl

VARIABLES
  now,        \* real time
  job,        \* the workload of this behaviour
  row,        \* sessions: the user's rows
  entry,      \* Redis: the cache entry of each session
  tomb,       \* Redis: when each session's tombstone expires, 0 for none
  late,       \* Redis writes given up by their caller that may still land
  inFlight,   \* each node's running Postgres read of each session
  epoch,      \* user_session_epochs.advanced_at, 0 before the first reset
  epochCache, \* Redis: the cached epoch and when it expires
  proc,       \* the calls
  ensured,    \* per session, the nodes that answered an end with its tombstone taken
  used,       \* when each session last answered a read
  endedAt,    \* when each session's row ended, None before
  published   \* the epoch last written over the cache, and until when it stays

vars == <<now, job, row, entry, tomb, late, inFlight, epoch, epochCache, proc,
          ensured, used, endedAt, published>>

(***************************************************************************)
(* Lifetimes.  A session record is [created, seen].                        *)
(***************************************************************************)
Clock(n) == now + Offset[n]
Lesser(a, b) == IF a <= b THEN a ELSE b

absoluteEnd(rec) == rec.created + Lifespan
idleEnd(rec) == rec.seen + IdleLimit
sessionEnd(rec) == Lesser(absoluteEnd(rec), idleEnd(rec))

\* the configured interval, also the mutant of lastSeenInterval
ConfiguredInterval == SeenInterval
lastSeenInterval == Lesser(SeenInterval, IdleLimit \div 2)

verdictOf(rec, at) == CASE at >= absoluteEnd(rec) -> "ended"
                        [] at < absoluteEnd(rec) /\ at >= idleEnd(rec) -> "idle"
                        [] OTHER -> "live"
touchIsDue(rec, at) == at >= rec.seen + lastSeenInterval

NoRec == [created |-> 0, seen |-> 0]
NoEntry == [rec |-> NoRec, fresh |-> 0, dies |-> 0]
NoEpoch == [at |-> 0, dies |-> 0]

(***************************************************************************)
(* A call.  `look` is what the cache answered, `rec` the record the call   *)
(* works on, `fresh` how long it may be cached, `on` the read it waits     *)
(* for.  The bulk ends use `after`, `cut`, `since`, `batch`, `sets`,       *)
(* `dels`, `took`.  `must`, `pub`, `via`, `served`, `owed` and `ranOut`    *)
(* only record what the properties ask about.                              *)
(***************************************************************************)
Idle == [pc |-> "start", look |-> "none", rec |-> NoRec, fresh |-> 0,
         fill |-> FALSE, on |-> None, after |-> 0, cut |-> 0, since |-> 0, batch |-> {},
         sets |-> {}, dels |-> {}, took |-> {}, ans |-> "none",
         must |-> {}, pub |-> 0, via |-> "none", served |-> 0, owed |-> {},
         ranOut |-> FALSE]

\* A finished call keeps only what the properties ask about.
Finished(r, ans) == [Idle EXCEPT !.pc = "done", !.ans = ans, !.look = r.look, !.must = r.must,
                                 !.pub = r.pub, !.via = r.via, !.served = r.served,
                                 !.rec = IF ans = "kept" THEN r.rec ELSE NoRec, !.owed = r.owed]

Op(p) == job.do[p].op
Sid(p) == job.do[p].s
Node(p) == job.do[p].n
Faults == job.faults
MaxTime == job.until

\* What get answers goes, for a request's cookie, through keepUsableSession.
Served(p, rec, via) ==
  LET r == proc[p]
      served == [Idle EXCEPT !.pc = "epoch", !.look = r.look, !.must = r.must,
                             !.pub = r.pub, !.via = via, !.served = now, !.rec = rec]
  IN CASE Op(p) = "resolve" -> served
       [] Op(p) = "get" -> Finished(served, "live")
       [] Op(p) = "create" -> Finished(r, "created")

\* The sessions the workload is about exist, except the ones it creates.
Existing == {Sid(p) : p \in {q \in Procs : Op(q) # "none"}}
              \ {Sid(p) : p \in {q \in Procs : Op(q) = "create"}}

Init == /\ job \in Jobs
        /\ now = job.from
        /\ row = [s \in Sids |-> [st |-> IF s \in Existing THEN "live" ELSE "absent",
                                 created |-> 1, seen |-> 1]]
        /\ entry = [s \in Sids |-> NoEntry]
        /\ tomb = [s \in Sids |-> 0]
        /\ late = {}
        /\ inFlight = [n \in Nodes |-> [s \in Sids |-> None]]
        /\ epoch = 0 /\ epochCache = NoEpoch
        /\ proc = [p \in Procs |-> Idle]
        /\ ensured = [s \in Sids |-> {}]
        /\ used = [s \in Sids |-> 1]
        /\ endedAt = [s \in Sids |-> None]
        /\ published = NoEpoch

To(p, pc) == proc' = [proc EXCEPT ![p].pc = pc]
dbVars    == <<row, epoch, endedAt>>
redisVars == <<entry, tomb, late, epochCache, published>>
setup     == <<now, job>>

(***************************************************************************)
(* Redis.  A command takes effect; or, under a fault, fails; or its caller *)
(* gives it up and it lands later.                                         *)
(***************************************************************************)
Alive(dies) == dies > now

EntryWrite(s, rec, fresh, ttl) ==
  [w |-> "entry", s |-> s, rec |-> rec, fresh |-> fresh, ttl |-> ttl]
\* mutant: a tombstone that lives no longer than an entry
TombWriteOnce(s) == [w |-> "tomb", s |-> s, rec |-> NoRec, fresh |-> 0, ttl |-> CacheTtl]
TombWrite(s) == [w |-> "tomb", s |-> s, rec |-> NoRec, fresh |-> 0, ttl |-> 2 * CacheTtl]
EpochWrite(at) == [w |-> "epoch", s |-> 0, rec |-> NoRec, fresh |-> at, ttl |-> CacheTtl]
EpochFill(at) == [EpochWrite(at) EXCEPT !.w = "fill"]

\* mutant: without NX
FillAlways(at) == [at |-> at, dies |-> now + CacheTtl]
FillEmpty(at) == IF Alive(epochCache.dies) THEN epochCache
                 ELSE [at |-> at, dies |-> now + CacheTtl]

write(l) ==
  /\ entry' = CASE l.w = "entry" ->
                    [entry EXCEPT ![l.s] = [rec |-> l.rec, fresh |-> l.fresh,
                                            dies |-> now + l.ttl]]
                [] OTHER -> entry
  /\ tomb' = IF l.w = "tomb" THEN [tomb EXCEPT ![l.s] = now + l.ttl] ELSE tomb
  /\ epochCache' = CASE l.w = "epoch" -> [at |-> l.fresh, dies |-> now + l.ttl]
                     [] l.w = "fill" -> FillEmpty(l.fresh)
                     [] OTHER -> epochCache
  /\ published' = IF l.w = "epoch" THEN epochCache' ELSE published

done(l) == write(l) /\ UNCHANGED late
lost(l) == /\ \/ "cache" \in Faults /\ UNCHANGED late
              \/ /\ "late" \in Faults \/ ("lateEpoch" \in Faults /\ l.w \in {"epoch", "fill"})
                 /\ late' = late \cup {l}
           /\ UNCHANGED <<entry, tomb, epochCache, published>>
bounded(l) == done(l) \/ lost(l)

\* A write its caller gave up takes effect after all.
Land == \E l \in late :
  /\ write(l)
  /\ late' = late \ {l}
  /\ UNCHANGED <<setup, dbVars, inFlight, proc, ensured, used>>

(***************************************************************************)
(* get: the cache first; then, shared per node and session, Postgres.      *)
(***************************************************************************)
\* The answer of the shared work reaches its owner and every call that joined.
Answer(p, live, rec) ==
  /\ proc' = [q \in Procs |->
       IF q = p \/ (proc[q].pc = "wait" /\ proc[q].on = p)
         THEN IF live THEN Served(q, rec, IF q = p THEN "read" ELSE "joined")
                      ELSE Finished(proc[q], "absent")
         ELSE proc[q]]
  /\ inFlight' = [inFlight EXCEPT ![Node(p)][Sid(p)] = IF @ = p THEN None ELSE @]

Ask(p) ==
  /\ Op(p) \in {"get", "resolve"} /\ proc[p].pc = "start"
  /\ proc' = [proc EXCEPT ![p] = [Idle EXCEPT !.pc = "mget",
                                              !.must = ensured[Sid(p)], !.pub = published.at]]
  /\ UNCHANGED <<setup, dbVars, redisVars, inFlight, ensured, used>>

\* One MGET reads the entry and the tombstone, and a tombstone wins.
lookup(s) == CASE Alive(tomb[s]) -> "revoked"
               [] ~Alive(tomb[s]) /\ Alive(entry[s].dies) -> "entry"
               [] OTHER -> "empty"

read(p) ==
  /\ proc[p].pc = "mget"
  /\ \/ proc' = [proc EXCEPT ![p].pc = "judge", ![p].look = lookup(Sid(p)),
                              ![p].rec = entry[Sid(p)].rec, ![p].fresh = entry[Sid(p)].fresh]
     \/ "cache" \in Faults /\ proc' = [proc EXCEPT ![p].pc = "judge", ![p].look = "error"]
  /\ UNCHANGED <<setup, dbVars, redisVars, inFlight, ensured, used>>

usable(p) == /\ proc[p].look = "entry"
             /\ proc[p].fresh > Clock(Node(p))
             /\ proc[p].fresh <= Clock(Node(p)) + CacheTtl

\* Join the node's running read of the session, or become it.
shared(p, work) ==
  IF inFlight[Node(p)][Sid(p)] # None
    THEN /\ proc' = [proc EXCEPT ![p].pc = "wait", ![p].on = inFlight[Node(p)][Sid(p)]]
         /\ UNCHANGED inFlight
    ELSE /\ proc' = [proc EXCEPT ![p] = work]
         /\ inFlight' = [inFlight EXCEPT ![Node(p)][Sid(p)] = p]

readThrough(p, fill) == [proc[p] EXCEPT !.pc = "find", !.fill = fill,
                                        !.fresh = Clock(Node(p)) + CacheTtl]

get(p) ==
  LET r == proc[p]
      at == Clock(Node(p))
      hit == usable(p)
  IN /\ r.pc = "judge"
     /\ \/ /\ r.look = "revoked" \/ (hit /\ verdictOf(r.rec, at) = "ended")
           /\ proc' = [proc EXCEPT ![p] = Finished(r, "absent")]
           /\ UNCHANGED <<inFlight, used>>
        \/ /\ hit /\ verdictOf(r.rec, at) = "live" /\ ~touchIsDue(r.rec, at)
           /\ proc' = [proc EXCEPT ![p] = Served(p, r.rec, "hit")]
           /\ used' = [used EXCEPT ![Sid(p)] = now]
           /\ UNCHANGED inFlight
        \/ /\ hit /\ verdictOf(r.rec, at) = "live" /\ touchIsDue(r.rec, at)
           /\ shared(p, [r EXCEPT !.pc = "touchHit", !.cut = at])
           /\ UNCHANGED used
        \/ /\ r.look # "revoked" /\ (hit => verdictOf(r.rec, at) = "idle")
           /\ shared(p, readThrough(p, r.look # "error"))
           /\ UNCHANGED used
     /\ UNCHANGED <<setup, dbVars, redisVars, ensured>>

\* updateLastSeen: one conditional UPDATE on the row as it is now.
touches(p) == LET rw == row[Sid(p)] IN
  /\ rw.st = "live"
  /\ absoluteEnd(rw) > Clock(Node(p))
  /\ touchIsDue(rw, Clock(Node(p)))

touch(p, written, skipped) ==
  \/ /\ touches(p)
     /\ row' = [row EXCEPT ![Sid(p)].seen = Clock(Node(p))]
     /\ used' = [used EXCEPT ![Sid(p)] = now]
     /\ proc' = [proc EXCEPT ![p] = written]
     /\ UNCHANGED inFlight
  \/ /\ ~touches(p)
     /\ proc' = [proc EXCEPT ![p] = skipped]
     /\ UNCHANGED <<row, used, inFlight>>
  \/ "store" \in Faults /\ Answer(p, FALSE, NoRec) /\ UNCHANGED <<row, used>>

\* A hit whose last-seen time is due: written, the entry keeps its freshness;
\* skipped, Postgres is read.
refreshHit(p) ==
  LET r == proc[p] IN
  /\ r.pc = "touchHit"
  /\ touch(p, [r EXCEPT !.pc = "fill", !.rec.seen = r.cut], readThrough(p, TRUE))
  /\ UNCHANGED <<setup, epoch, endedAt, redisVars, ensured>>

Filling(r) == [r EXCEPT !.pc = IF r.fill THEN "fill" ELSE "answer"]

find(p) ==
  LET r == proc[p]
      rw == row[Sid(p)]
      rec == [created |-> rw.created, seen |-> rw.seen]
      at == Clock(Node(p))
      alive == rw.st = "live" /\ verdictOf(rec, at) = "live"
  IN /\ r.pc = "find"
     /\ \/ /\ ~alive \/ "store" \in Faults
           /\ Answer(p, FALSE, NoRec)
           /\ UNCHANGED used
        \/ /\ alive /\ touchIsDue(rec, at)
           /\ proc' = [proc EXCEPT ![p] = [r EXCEPT !.pc = "touchRead", !.rec = rec, !.cut = at]]
           /\ UNCHANGED <<inFlight, used>>
        \/ /\ alive /\ ~touchIsDue(rec, at)
           /\ proc' = [proc EXCEPT ![p] = Filling([r EXCEPT !.rec = rec])]
           /\ used' = [used EXCEPT ![Sid(p)] = now]
           /\ UNCHANGED inFlight
     /\ UNCHANGED <<setup, dbVars, redisVars, ensured>>

touchRead(p) ==
  LET r == proc[p] IN
  /\ r.pc = "touchRead"
  /\ touch(p, Filling([r EXCEPT !.rec.seen = r.cut]), Filling(r))
  /\ UNCHANGED <<setup, epoch, endedAt, redisVars, ensured>>

\* The entry is written for what is left of its freshness, never past the
\* session's end; then the answer goes out.
FreshUntil(p) == Lesser(proc[p].fresh, sessionEnd(proc[p].rec))

fillCache(p) ==
  LET r == proc[p]
      until == FreshUntil(p)
  IN /\ r.pc = "fill"
     /\ IF until > Clock(Node(p))
          THEN bounded(EntryWrite(Sid(p), r.rec, until, until - Clock(Node(p))))
          ELSE UNCHANGED redisVars
     /\ Answer(p, TRUE, r.rec)
     /\ UNCHANGED <<setup, dbVars, ensured, used>>

answer(p) ==
  /\ proc[p].pc = "answer"
  /\ Answer(p, TRUE, proc[p].rec)
  /\ UNCHANGED <<setup, dbVars, redisVars, ensured, used>>

create(p) ==
  /\ Op(p) = "create" /\ proc[p].pc = "start"
  /\ row[Sid(p)].st = "absent"    \* the id is new
  /\ row' = [row EXCEPT ![Sid(p)] = [st |-> "live", created |-> Clock(Node(p)), seen |-> Clock(Node(p))]]
  /\ used' = [used EXCEPT ![Sid(p)] = now]
  /\ proc' = [proc EXCEPT ![p] =
       [Idle EXCEPT !.pc = "fill", !.fresh = Clock(Node(p)) + CacheTtl,
                    !.rec = [created |-> Clock(Node(p)), seen |-> Clock(Node(p))]]]
  /\ UNCHANGED <<setup, epoch, endedAt, redisVars, inFlight, ensured>>

(***************************************************************************)
(* keepUsableSession: a session the service served is checked against the  *)
(* user's epoch, through its cache; one that predates the last reset is    *)
(* ended.                                                                  *)
(***************************************************************************)
predatesReset(at, created) == at # 0 /\ created <= at + ResetMargin

\* A round of a sign-in only asks for the epoch.
resetNotBefore(p) ==
  /\ Op(p) = "round" /\ proc[p].pc = "start"
  /\ proc' = [proc EXCEPT ![p] = [Idle EXCEPT !.pc = "epoch"]]
  /\ UNCHANGED <<setup, dbVars, redisVars, inFlight, ensured, used>>

Kept(p, at, ranOut) ==
  LET r == proc[p] IN
  CASE Op(p) = "round" -> Finished(r, "asked")
    [] Op(p) # "round" /\ predatesReset(at, r.rec.created) -> [r EXCEPT !.pc = "end"]
    [] OTHER -> [Finished(r, "kept") EXCEPT !.ranOut = ranOut]

lastReset(p) ==
  /\ proc[p].pc = "epoch"
  /\ \/ /\ Alive(epochCache.dies)
        /\ proc' = [proc EXCEPT ![p] = Kept(p, epochCache.at, ~Alive(published.dies))]
     \/ /\ ~Alive(epochCache.dies) \/ "cache" \in Faults
        /\ proc' = [proc EXCEPT ![p].pc = "epochFind"]
  /\ UNCHANGED <<setup, dbVars, redisVars, inFlight, ensured, used>>

findEpoch(p) ==
  /\ proc[p].pc = "epochFind"
  /\ \/ proc' = [proc EXCEPT ![p].pc = "epochFill", ![p].cut = epoch]
     \/ "store" \in Faults /\ proc' = [proc EXCEPT ![p] = Finished(@, "error")]
  /\ UNCHANGED <<setup, dbVars, redisVars, inFlight, ensured, used>>

\* The fill writes over nothing (NX); given up, it may still land, and by then
\* find the published epoch expired.
fillEpoch(p) ==
  /\ proc[p].pc = "epochFill"
  /\ bounded(EpochFill(proc[p].cut))
  /\ proc' = [proc EXCEPT ![p] = Kept(p, @.cut, FALSE)]
  /\ UNCHANGED <<setup, dbVars, inFlight, ensured, used>>

(***************************************************************************)
(* What ends sessions: one by id, the user's, a realm's in batches, the    *)
(* lapsed ones in batches, and a password reset.                           *)
(***************************************************************************)
Live == {s \in Sids : row[s].st = "live"}

\* mutant: no allowance for a clock ahead
createdThroughNow(n) == Clock(n)
createdThrough(n) == Clock(n) + SkewAllowance

\* A session ended by its id has been one.
revoke(p) ==
  /\ Op(p) \in {"revoke", "user"} /\ proc[p].pc = "start"
  /\ Op(p) = "revoke" => row[Sid(p)].st # "absent"
  /\ proc' = [proc EXCEPT ![p] = [Idle EXCEPT !.pc = "end"]]
  /\ UNCHANGED <<setup, dbVars, redisVars, inFlight, ensured, used>>

revokeAllForRealm(p) == \E since \in {0, now} :
  /\ Op(p) = "realm" /\ proc[p].pc = "start"
  /\ proc' = [proc EXCEPT ![p] = [Idle EXCEPT !.pc = "end",
                 !.cut = createdThrough(Node(p)), !.since = since,
                 !.owed = {s \in Live : used[s] >= since}]]
  /\ UNCHANGED <<setup, dbVars, redisVars, inFlight, ensured, used>>

endLapsed(p) ==
  /\ Op(p) = "lapsed" /\ proc[p].pc = "start"
  /\ proc' = [proc EXCEPT ![p] = [Idle EXCEPT !.pc = "end", !.cut = Clock(Node(p))]]
  /\ UNCHANGED <<setup, dbVars, redisVars, inFlight, ensured, used>>

First(S, k) == {x \in S : Cardinality({y \in S : y < x}) < k}

Selected(p) ==
  LET r == proc[p]
      next == {s \in Live : s > r.after}
  IN CASE Op(p) \in {"resolve", "revoke"} -> Live \cap {Sid(p)}
       [] Op(p) \in {"user", "reset"} -> Live
       [] Op(p) = "realm" -> First({s \in next : row[s].created <= r.cut
                                       /\ row[s].seen + ConfiguredInterval >= r.since}, Batch)
       [] Op(p) = "lapsed" -> First({s \in next : sessionEnd(row[s]) <= r.cut}, Batch)

\* The transaction that ends the selected rows.  Ending one session by id
\* goes on to its tombstone even where nothing was left to end.
endSelected(p) ==
  LET sel == Selected(p)
      ended == IF Op(p) \in {"resolve", "revoke"} THEN {Sid(p)} ELSE sel
  IN /\ proc[p].pc = "end"
     /\ \/ /\ row' = [s \in Sids |-> IF s \in sel THEN [row[s] EXCEPT !.st = "ended"] ELSE row[s]]
           /\ endedAt' = [s \in Sids |-> IF s \in sel THEN now ELSE endedAt[s]]
           /\ proc' = [proc EXCEPT ![p] = IF ended = {} THEN Finished(@, "ended")
                                          ELSE [@ EXCEPT !.pc = "ended", !.batch = ended]]
        \/ /\ "store" \in Faults
           /\ proc' = [proc EXCEPT ![p] = Finished(@, "error")]
           /\ UNCHANGED <<row, endedAt>>
     /\ UNCHANGED <<setup, epoch, redisVars, inFlight, ensured, used>>

\* Reads already waiting on Postgres on this node stop answering for them.
tombstone(p) ==
  /\ proc[p].pc = "ended"
  /\ inFlight' = [inFlight EXCEPT ![Node(p)] =
                    [s \in Sids |-> IF s \in proc[p].batch THEN None ELSE @[s]]]
  /\ proc' = [proc EXCEPT ![p].pc = "mark", ![p].sets = proc[p].batch]
  /\ UNCHANGED <<setup, dbVars, redisVars, ensured, used>>

markRevoked(p, s) ==
  /\ proc[p].pc = "mark"
  /\ \/ /\ s \in proc[p].sets /\ done(TombWrite(s))
        /\ proc' = [proc EXCEPT ![p].sets = @ \ {s}, ![p].dels = @ \cup {s},
                                ![p].took = @ \cup {s}]
     \/ /\ s \in proc[p].sets /\ lost(TombWrite(s))
        /\ proc' = [proc EXCEPT ![p].sets = @ \ {s}]
     \/ /\ s \in proc[p].dels
        /\ entry' = [entry EXCEPT ![s] = NoEntry] \/ ("cache" \in Faults /\ UNCHANGED entry)
        /\ proc' = [proc EXCEPT ![p].dels = @ \ {s}]
        /\ UNCHANGED <<tomb, late, epochCache, published>>
  /\ UNCHANGED <<setup, dbVars, inFlight, ensured, used>>

\* The tombstones are in, or given up: the next batch, or the answer.
afterEnded(p) ==
  LET r == proc[p]
      more == Op(p) \in {"realm", "lapsed"} /\ Cardinality(r.batch) = Batch
  IN /\ r.pc = "mark" /\ r.sets = {} /\ r.dels = {}
     /\ ensured' = [s \in Sids |-> IF s \in r.took THEN ensured[s] \cup {Node(p)} ELSE ensured[s]]
     /\ proc' = [proc EXCEPT ![p] =
          IF more THEN [r EXCEPT !.pc = "end", !.took = {}, !.batch = {}, !.after = Max(r.batch)]
                  ELSE Finished(r, "ended")]
     /\ UNCHANGED <<setup, dbVars, redisVars, inFlight, used>>

deleteEnded(p) ==
  /\ Op(p) = "purge" /\ proc[p].pc = "start"
  /\ row' = [s \in Sids |-> IF row[s].st = "ended" THEN [row[s] EXCEPT !.st = "gone"] ELSE row[s]]
  /\ proc' = [proc EXCEPT ![p] = Finished(@, "ended")]
  /\ UNCHANGED <<setup, epoch, endedAt, redisVars, inFlight, ensured, used>>

\* The reset's transaction advances the epoch; after it, the publish and the
\* end of the user's sessions, neither of which can fail the reset.
advance(p) ==
  /\ Op(p) = "reset" /\ proc[p].pc = "start"
  /\ epoch' = IF epoch >= Clock(Node(p)) THEN epoch ELSE Clock(Node(p))
  /\ proc' = [proc EXCEPT ![p] = [Idle EXCEPT !.pc = "publish", !.cut = epoch']]
  /\ UNCHANGED <<setup, row, endedAt, redisVars, inFlight, ensured, used>>

publish(p) ==
  /\ proc[p].pc = "publish"
  /\ bounded(EpochWrite(proc[p].cut))
  /\ proc' = [proc EXCEPT ![p].pc = "end"]
  /\ UNCHANGED <<setup, dbVars, inFlight, ensured, used>>

(***************************************************************************)
(* Time.                                                                   *)
(***************************************************************************)
Brief == {"mark"}

Tick == /\ now < MaxTime
        /\ \A p \in Procs : proc[p].pc \notin Brief
        /\ now' = now + 1
        /\ UNCHANGED <<job, dbVars, redisVars, inFlight, proc, ensured, used>>

Start(p) == \/ Ask(p) \/ create(p) \/ revoke(p) \/ revokeAllForRealm(p)
               \/ endLapsed(p) \/ deleteEnded(p) \/ advance(p) \/ resetNotBefore(p)

Step(p) == \/ read(p) \/ get(p) \/ refreshHit(p) \/ find(p) \/ touchRead(p)
           \/ fillCache(p) \/ answer(p) \/ lastReset(p) \/ findEpoch(p) \/ fillEpoch(p)
           \/ endSelected(p) \/ tombstone(p) \/ afterEnded(p) \/ publish(p)
           \/ \E s \in Sids : markRevoked(p, s)

Next == Tick \/ Land \/ \E p \in Procs : Start(p) \/ Step(p)

Spec == Init /\ [][Next]_vars

-----------------------------------------------------------------------------
Recs == [created : Nat, seen : Nat]

\* The shape of the state; no write leaves Redis with a negative time to live.
TypeOK ==
  /\ now \in job.from..MaxTime /\ job \in Jobs
  /\ row \in [Sids -> [st : {"absent", "live", "ended", "gone"}, created : Nat, seen : Nat]]
  /\ entry \in [Sids -> [rec : Recs, fresh : Nat, dies : Nat]]
  /\ tomb \in [Sids -> Nat]
  /\ \A l \in late : l.w \in {"entry", "tomb", "epoch", "fill"} /\ l.ttl \in Nat
  /\ inFlight \in [Nodes -> [Sids -> Procs \cup {None}]]
  /\ epoch \in Nat /\ {published, epochCache} \subseteq [at : Nat, dies : Nat]
  /\ \A p \in Procs : proc[p].on \in Procs \cup {None}

\* After an end was answered with its tombstone taken, no read that begins
\* later serves the session, whatever fills were on their way (the tombstone
\* outlives them); the one exception is a read that joined, on another node, a
\* Postgres read older than the end, its own cache lookup having failed or that
\* Postgres read having run for longer than the tombstone lives.
EndedNotServed ==
  \A p \in Procs : proc[p].via # "none" /\ proc[p].must # {} =>
    /\ proc[p].via = "joined" /\ Node(p) \notin proc[p].must
    /\ \/ proc[p].look = "error"
       \/ proc[p].served >= endedAt[Sid(p)] + 2 * CacheTtl

\* Whatever the cache lost, a session is served from it at most the cache time
\* after its row ended, plus the clocks' disagreement.
StaleAtMostCacheTime ==
  \A p \in Procs : proc[p].via = "hit" /\ endedAt[Sid(p)] # None =>
    proc[p].served < endedAt[Sid(p)] + CacheTtl + MaxSkew

\* A session created no later than a reset whose epoch was published when the
\* lookup began is not kept, whichever fill of the epoch cache raced it; unless
\* the epoch came from the cache after the published value had run out there: a
\* fill read before the reset and landing so late caches the old epoch again.
ResetRefusesOldSessions ==
  \A p \in Procs : proc[p].ans = "kept" /\ predatesReset(proc[p].pub, proc[p].rec.created)
    => proc[p].ranOut

\* A realm-wide revocation ends every session that was live when it began and
\* used since the time it names, over all its batches.
RealmSweepComplete ==
  \A p \in Procs : Op(p) = "realm" /\ proc[p].pc = "done" /\ proc[p].ans # "error" =>
    proc[p].owed \cap Live = {}

\* A session in use is not ended as idle: the lapsed-session sweep ends none
\* that answered a read within half the idle limit, clock skew aside.
UsedSessionsKept ==
  [][\A s \in Sids : row[s].st = "live" /\ row'[s].st = "ended"
       /\ (\E p \in Procs : Op(p) = "lapsed" /\ proc[p].pc = "end" /\ proc'[p].pc # "end")
       => \/ now + MaxSkew >= absoluteEnd(row[s])
          \/ now + MaxSkew >= used[s] + (IdleLimit - IdleLimit \div 2)]_vars

\* The cache keeps up with the rows: an end that was answered is an end for
\* every later read, and what the tombstone misses is served for at most the
\* cache time (tombstone, fillCache).
CacheKept == TypeOK /\ EndedNotServed /\ StaleAtMostCacheTime
====
