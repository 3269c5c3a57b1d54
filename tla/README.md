# TLA+ models of the QAuth auth server

This directory holds formal models of the parts of QAuth whose correctness
depends on how several actors interleave: the event stream and the queue that
delivers it, the codes and refresh tokens of the token endpoint with everything
that ends them, browser sessions and their cache, background jobs, the
interactions of a browser ceremony and the sign-in engine behind them, and the
approvals, audit log and event chain of the admin plane. TLC checks each model
on small instances; TLAPS proves the safety properties of the runs for any number
of nodes, rows, requests and faults; section 5 says under which conditions.

    tlc -workers 2 -config <file>.cfg <MC module>     # one run
    tlapm <module>_proofs.tla                         # the proofs

`PROJECT.json` lists the components, the runs, the source lines each definition
stands for, the mutants (plausible bugs the properties catch), the hazards and
the theorems.

## 1. The system and its parts

QAuth is an OAuth 2 / OpenID Connect server: several identical Node.js
processes (`apps/auth-server`) over one PostgreSQL database and one Redis.
No process talks to another; they meet only in rows, in advisory locks and in
Redis keys. So the hard questions are all of one shape: what another process
may commit between two statements of this one.

| Part | State | Operations | Meets |
| --- | --- | --- | --- |
| Event store (`events.repository.ts`) | `events`, ordered by (transaction id, seq); a hash chain over a realm's admin events | `emit` in the caller's transaction, `readAfter` a cursor, `verifyChain` | every writer; fan-out; retention |
| Fan-out (`event-deliveries.repository.ts` `fanOut`) | one position per realm and destination kind | list, forget, find work, start, page | event store, destinations, queue, retention |
| Delivery queue (same file) and role (`delivery-role.ts`) | `event_deliveries` rows with attempt count and lease; in-flight attempts per node | `dueDestinations`, `claim`, attempt, `record`, `release`, stop | fan-out, routes (webhooks, SSF, back-channel logout) |
| Retention (`event-retention.ts`) | the chain's anchor | list destinations, ask for the bound, delete in batches | event store, fan-out, queue |
| Codes and families (`authorization-codes`, `refresh-tokens` repositories, `token.ts`) | `authorization_codes`, `refresh_tokens` | mint, redeem, rotate, replay reactions | every sweep below |
| What ends grants (`logout.ts`, `account-changes.ts`, `account-resets.ts`, `consent-management.ts`, `first-party-change.ts`, `revoke.ts`, `purge-expired.ts`) | – | sweeps over sessions, codes and tokens | codes and families, sessions |
| Access-token records (`grant-access-tokens.ts`) | Redis sets per code and family, denylist | record before the commit, deny after a replay | codes and families |
| Sessions (`libs/server/sessions`, `sessions.repository.ts`) | `sessions` rows, cache entries and tombstones in Redis, epochs | create, get, touch, revoke, sweeps, purge | mint, logout, interactions, resets |
| Jobs (`job-runner.ts`, `advisory-lock.ts`) | a session-level advisory lock, a timer per node | run once per interval | retention, purge, expiry sweeps |
| Interactions (`interaction.ts`, `interaction-record.ts`, `interaction-expiry.ts`) | a record, a turn key and an expiry-index member in Redis | start, answer, cancel, switch the user, sweep | sign-in engine, sessions, events |
| Sign-in engine (`libs/server/sign-in-engine`) | the transaction inside an interaction record; accounts, factors, recovery codes | one round per answer | interactions, sessions' epochs |
| Admin approvals (`admin/approvals`, `pipeline.ts`) | `admin_approvals` | file, approve, deny, cancel, consume, expire | audit log |
| Admin audit log (`admin-audit-log.repository.ts`) | a hash chain and its checkpoints | append, prune, verify | every admin operation |
| Realm keys, egress pool, DPoP, OID4VP states | rows or Redis keys each | – | – |

`PROJECT.json` lists every component, with the reason where it is not modelled:
what is left is cryptography, encoding, input validation, rendering and network
I/O, or waits in section 7.

### What is hard here

* A lease runs out while its attempt still runs, and the late answer meets a
  newer claim; a process dies, or is stopped, between claim, attempt and record.
* Free slots are counted before two awaited calls and used after them.
* Transactions commit in another order than their ids and sequence numbers.
* Every node reads the list of destinations by itself, before the shared
  positions it then moves; retention reads a bound once and deletes later.
* Grants are read outside the transaction that spends them, and a multi-row
  UPDATE under READ COMMITTED never sees rows inserted after its snapshot: that
  is what the user's and the client's advisory locks are for. A dozen
  operations take these locks, session rows and token rows in their own orders.
* A cache fill that read the row before a revocation writes after it; a Redis
  command its caller gave up may still land; nodes' clocks disagree.
* A job's lock is freed with its connection, whether or not the run notices.
* Two tabs, a cancel, a user switch and the expiry sweep end one interaction;
  a Redis command may be carried out with its reply lost.
* An account changes between the rounds of a sign-in, and between two store
  calls of one round.
* Approvals are decided on what was read before, and expire while a write waits.

## 2. Modules

| Module | What it is |
| --- | --- |
| `DeliveryQueue` | rows, leases, claim loop, attempts, stop, crash, restart |
| `DeliveryContract` | the abstract specification the queue implements |
| `DeliveryQueue_proofs` | theorems of the queue, the refinement included |
| `EventStream` | event store, cursor reader, fan-out, destinations, retention |
| `EventStream_proofs` | its theorems |
| `TokenGrants` | codes, refresh families, access records, sessions at the mint, and every operation that ends them |
| `TokenGrants_proofs` | its tables and requests: one live token, one access token per code; on top of them, what was ended stays ended, and no requests wait in a circle |
| `SessionService` | session rows, cache, tombstones, shared reads, epochs |
| `SessionService_proofs` | its theorems |
| `JobRunner` | timers, the advisory lock, runs, stops |
| `JobRunner_proofs` | its theorems |
| `Interaction` | records, turns, expiry index, answers, switches, sweep |
| `Interaction_proofs` | its theorems |
| `SignInEngine` | the rules of a round, answer by answer |
| `SignInEngine_proofs` | its theorems |
| `AdminApprovals` | approvals and the audit log they are told in |
| `AdminChain` | the hash chain of admin events and its retention |
| `AdminPlane_proofs` | the theorems of both |
| `MC...` | instances for TLC; `MCAdminPlane` holds both admin modules |

`DeliveryQueue` and `EventStream` meet at the `event_deliveries` row:
`EventStream!fanOutPage` writes it and `EventStream!Finish` stands for what
`DeliveryQueue` does until the row is delivered or failed. `Interaction` takes
the engine's decision as a free choice, and `SignInEngine` is what makes it.

### DeliveryQueue

`row[d]` is the row with the columns the properties tell apart: `status`,
`attempt_count`, whether it is leased and whether `next_attempt_at` has passed.
`work[n]` are the claims node n knows of, each in a stage: its answer is on the
way, its route runs, its outcome is on the way to the store, or its lease is
being given back. `round[n]` is where the claim loop stands, with the slots and
the due destinations it read earlier. `holder` and `seen` are history: the node
of the latest claim, and what a route answered.

Each store call is one SQL statement in a transaction of its own, hence one
step. `ReadDue`, `claim` and `TakeUp` are the three parts of `claimRound` around
its two awaits; `EndAttempt` and `record` those of `attempt`; `Stop`, `GiveUp`
and `release` those of `stopGracefully`. `Picks` states what the round-robin
over the due destinations hands out, without its order. `StoreFails` is a store
call that throws, also one whose statement ran. `Exit` is the end of a process,
by a crash at any moment.

`DeliveryContract` says the same without nodes, leases and claims: a delivery is
owed, attempts are counted up to a limit, an attempt that a route held is given
back, routes answer, and the delivery ends once, for a reason. The mapping reads
`fate` and `tries` off the row and `answers` off `seen`.

Left out: retry delays, jitter and lease lengths (a row may come due at any
moment, which covers every value and every clock skew), error classes, logging,
metrics, and the signer. In-flight entries are removed in the step that writes
the row.

### EventStream

A position is a pair (transaction id, seq), as in `position.ts`. `Begin`, `emit`
and `End` are the writers: a transaction's events appear together at its commit,
which may be later than that of a transaction with a higher id. `Horizon(h)` is
`pg_snapshot_xmin`. `ReadPage` is the page and the next position that `readAfter`
and `fanOutPage` compute in one statement. Each node runs its cycle `List`,
`Forget`, `FindWork`, then per stream `StartStream` or `fanOutPage`, then
`Rest`; each is one transaction of the code. A page is one step because its
transaction holds the stream's advisory lock from before its read to its commit.
`since` is history: the position from which a destination is to get every event.

Retention is `listServed` (a route whose listing fails is left out),
`offeredPosition` and one `deleteUnchained` per event; `purge` keeps what it
read first.

Left out: the filters of a destination (every destination takes every event of
its kind), realms (one realm's stream) and the ages of events (any event up to
the bound may be deleted). A node serves every kind and lists all of them in one
step.

### TokenGrants

The tables hold the rows of one user at one client, so that every advisory lock
of the code is the same user's or the same client's. A request runs a script of
statements (`Script`), put together from the repository methods, which carry the
source's names: `revokeFamily == <<"lockUser", "seeFamily", "revokeSeen">>`. An
UPDATE or DELETE of many rows is two steps, its snapshot and its writes, and in
between it may wait: `Blockers(p)` are the requests that hold a lock or a row it
needs. A statement takes the locks of all its rows at once. Ending sessions is
four steps: their rows, then, in the same transaction and with those rows still
locked, the unredeemed codes minted under them (`finishEnded`), which may wait
for a redemption. Writes of a transaction are kept in the request and appear at `Commit`.
A compare-and-set that waited is evaluated on the row as it then is, as
PostgreSQL does under READ COMMITTED.

Every operation starts with the read its handler makes outside the transaction,
and acts on that read later. A lost compare-and-set turns the request into a
replay (`SpendCode`, `SpendToken`), as `spendGrant` and `handleRefreshToken` do.
`ended` and `replayed` are history: the grants an operation that has been
answered promised to end.

Left out: everything a handler refuses before it writes (client authentication,
PKCE, DPoP, scopes), rows of other tables (credentials, consents, audit events),
the token a logout is called with (the portal's own), the order in which one
UPDATE visits its rows, Redis failures (the code logs them and goes on), and
family end times as numbers (a family may be past its end at any refresh).

### SessionService

`row`, `entry`, `tomb`, `epoch` and `epochCache` are the stores; `inFlight` is
each node's shared Postgres read of a session. A process is one call of the
service on one node: `get` with its cache lookup, its read-through, its touch
and its fill; `create`; the single, user-wide and realm-wide ends; the sweep of
lapsed sessions and the purge; a reset, and `resolve`, a lookup that also asks
for the epoch as `keepUsableSession` does; `round`, a round of a sign-in, asks
for the epoch alone. Every statement and every Redis command is a step. `late` holds the Redis writes whose caller gave up after its
timeout; they may land at any later moment. Real time is `now`; a node's clock
is `now + Offset[n]`. An end by id is of a session that has existed, and the id
of a new one is new.

A read that joins a Postgres read of its node answers with it, however old that
read is. An end makes its own node's reads stop answering, not those of other
nodes; so a lookup on another node that found neither entry nor tombstone can
still serve the session when its own cache lookup failed, or when the read it
joins has run for longer than the tombstone lives. `EndedNotServed` names
exactly these two cases.

A fill of the epoch cache (`SET … NX`) may be slow between its read of Postgres
and its write, and its caller may give it up before it lands (`fillEpoch`,
`Land`). Until the published epoch has run out in the cache it changes nothing;
after that it caches the epoch it read, which may be the one before the reset.
`ranOut` records that the cache answered a lookup in that state, and
`ResetRefusesOldSessions` excepts exactly those answers.

Left out: the check of the account's own state in `keepUsableSession`, sessions
whose `issuedAt` is dated back, changes of a realm's lifetimes (constants of the
model), the listeners told of an end, and the clients a session has served. A
PostgreSQL statement and its answer are one step.

### JobRunner

One job on every node. A node has a timer (`wake`), an attempt (`tryAcquire`,
`begin`, `execute`, `settle`, `hold`, `release`) and a stop, graceful
or abandoned. Taking the lock may be slow and a timer may fire late: both are a
late `tryAcquire`. `connectionLost` frees the lock in PostgreSQL; `onError` is
the node learning of it, or never. The signal handed to a run is a request: it
settles when it does. `why` is history: what went wrong in a slot; `Overrun`
tells which attempts overran a slot, those that were so late that they met a
later slot's holder included. `JobAssumption` has the clocks within a window of
real time and less than an interval minus two windows apart: the code's window
is a tenth of the interval, so clocks that agree within a window keep it.

### Interaction

`rec`, `turn` and `index` are the three Redis keys of an interaction; a MULTI
or a script is one step. A request locates the record with its browser's flow secret,
takes the turn, and settles the answer: the decision, the session lookup, the
session it creates, the state it writes or the delete, the event, the replaced
session, the reply; on failure the clean-up. `Tick` lets Redis drop a key at its
deadline plus the grace.

What may fail: a Redis command, the insert of a next interaction included, may
fail, or be carried out with the reply lost. An event may be refused, fail, or
be written with the reply lost (`report`, `emitExpired`). The session service may
answer a session that has ended from its cache (`Served`, the fault `stale`), or
that there is none when it cannot read the row; `SessionService` has the cache
itself, and bounds how long an ended session is served. `createBrowserSession`
may throw before it stored the row, or after: the request then knows of no
session (`unsettled`). A signer that does not answer fails a sign-in, and leaves a
switch without the cookie's session (`unread`).

Left out: the purposes other than authorization, more than one browser, the
flow cookie's cap of four secrets (not reached), clocks that disagree. The CSRF
value is the revision at the time of the locate. `switchInteractionUser` is
modelled as the helper stands; no route calls it yet.

### SignInEngine

One account and one transaction per browser. `round[t]` is the round under way:
its program counter is the next store call, `tx` the transaction it will store.
`RuleAt` and `AskAt` are the order of the rules in `round`; each rule is a pair,
what it asks for (`...Ask`) and what it does with an answer. A round that a
store fails, a limit throttles or that no step can continue leaves the stored transaction as it was;
one the engine ends is replaced by a new one (`interaction-engines.ts`).
`Elsewhere` is what other sessions, an operator and the failure ladder's ceiling
do to the account meanwhile.

Left out: rate limits and failure ladders (their one effect on the rules, a
factor at its ceiling, is `Elsewhere`), the CAPTCHA, the request hook, the
choice of steps a deployment serves (all are), login hints, and the failure of
the breach check. A provider always gives an address; an account has at most one
passkey; the reads of one verification are one step.

### AdminApprovals and AdminChain

`AdminApprovals`: a request reads the approval outside its transaction, waits
for its row, runs the conditional UPDATE (`addApproval`, `deny`, `cancel`,
`consume`), waits for the realm's audit lock, reads the head, appends, commits.
`told`, `uses` and `clashes` are history. `expireLapsed` passes over held rows;
`prune` leaves a checkpoint. `approvalsRequiredFor` returns 1 today; the model
takes any number, as the repository and the schema do, and the run checks 1
and 2.

`AdminChain`: a writer takes the chain's lock, reads the head and appends, more
than once per transaction if it likes; a retention batch takes its lock, reads
the anchor, the newest row and the rows in between, checks them, moves the
anchor and deletes. A row's seq stands for its hash, which is to say that hashes do not
collide; `whole` says that a row still hashes to what it holds. `through`, the
position retention was given, lies behind every open transaction; which rows
are old enough is a free choice. `Damage` changes or cuts a row behind the
server's back. A cut of the newest rows is not detectable, by design, and not
among them; nor is a row changed after a batch has checked it.

## 3. Runs

| Run | Instance | Properties |
| --- | --- | --- |
| **fencing** | two nodes, three rows, three attempts, crashes, lost calls | `TypeOK`, `OnlyTheLatestClaimWrites`, `NoLeakedLease`, `InFlightBounded`, `ImplementsContract` |
| **delivery_ends** | two nodes, one of which cannot read one of two rows | `EveryDeliveryEnds` |
| **stream** | two nodes, pages of one event, backfill, two transactions | `ReaderMissesNothing`, `EveryEventOffered` |
| **retention** | one node that fails, two destinations that come and go | `TypeOK`, `NoGap`, `RetentionKeepsUnfinished` |
| **grants** | two sessions, one code, four tokens, three requests in flight, ten loads | `GrantsStayEnded`, `OneLiveToken`, `RedeemedOnce`, `ReplayDeniesAccess`, `CodesKept`, `NoLockCycle` |
| **reset** | a redemption beside a password reset | `GrantsStayEnded`, violated: section 6 |
| **sessions** | up to four calls on two nodes, clocks one apart, nine loads | `CacheKept`, `ResetRefusesOldSessions`, `RealmSweepComplete`, `UsedSessionsKept` |
| **jobs** | two nodes, clocks that agree or lag, one fault | `LockDiscipline`, `OncePerSlot`, `NoSlotSkipped` |
| **interactions** | two requests at once, seven loads with their faults | `SessionsKept`, `OneOutcome`, `AnsweredOnce`, `LiveIsAnswerable`, `SwitchSignsOut`, `NoFinishUnderEndedSession` |
| **interactions_end** | answers and sweeps, events and nodes failing | `EveryEndReported` |
| **sign_in** | one account, one or two browsers, twenty loads | `CompletionProved`, `ForcedUpdateKept`, `EnrolledHasCodes`, `CodeGuessesBounded`, `CredentialChangeProved` |
| **admin** | approvals under three requests; the chain under two writers and two batches | `UsedRightly`, `AuditKept`, `ChainSound`, `EvidenceKept` |

What the properties say is in the comment above each; `CodesKept`,
`LockDiscipline`, `CacheKept`, `SessionsKept`, `CompletionProved`, `UsedRightly`,
`AuditKept` and `ChainSound` are conjunctions of parts that are stated one by one.

A load is a choice of operations, faults and bounds made in the initial state
(`Jobs`, `Loads`): one run covers several combinations, and each stays small.

**fencing.** `Explored` restricts the run to states with one row and all its
attempts on both nodes, or with all rows, one attempt each, while all nodes but
one have nothing to do. Rows share only a node's slots, so the first part is
enough for everything about a row's claims (three attempts let a lease be lost
twice, with a hold in between) and the second for `InFlightBounded` (two slots,
one per destination, two rows at one destination).

**stream**, **retention.** Two transactions are the least that commit out of
order; pages of one event make every page full. `NoGap` with several nodes is a
theorem (section 5).

**grants.** Three requests are an operation, the replay or sweep that races it,
and one more that uses what they leave behind; four tokens allow two rotations
to fork if they could. The loads are: replays, `/oauth/revoke` and lost requests; logout
and password change against codes and rotations in flight; all four sweeps beside
each other; a reset beside the two revocations, and beside redemptions and a
client's revocation; the sweeps and a new login while rows expire between a read
and a write; the purges, alone and beside a reset. With two sessions an end of
one leaves the other, and two sweeps of sessions meet on two rows. With the
purge of codes, `GrantsStayEnded` and `ReplayDeniesAccess` are not asserted
(`RowsStay`, section 6). The run does not check deadlock: arrivals are bounded,
so a behaviour ends when all requests are answered; `NoLockCycle` is what a
deadlock would be.

**sessions.** The cache time is 2 ticks, the idle limit 8: entries, tombstones
and sessions run out inside the run. Clocks are one tick apart, which is also
the allowance the code makes (`SkewAssumption`). A tick is far longer than a
Redis timeout, so none passes inside the calls `Brief` names. In one load a
Postgres read of the other node outlasts a tombstone, in one a reset meets two
lookups, and in one a lookup and a round of a sign-in whose fill is given up,
for longer than the published epoch stays; no load has two resets (section 6).

**jobs.** An interval of 5 with a window of 2 is the smallest in which two
windows end before the next slot and a run may outlast both. Two slots are run.
One fault per behaviour: each exception of `OncePerSlot` is one fault.

**interactions.** Unanswered deadline 2, absolute deadline 4, grace 1: the first
answer lifts a deadline that the sweep may be reading. Two processes are two
tabs, or a tab and the sweep. A behaviour has one fault, or two: a lost reply and
what goes wrong because of it, or an ended session served from the cache in a
request that then fails. Each exception of a property is one fault, and each is met.

**sign_in.** Each load opens one part of the rules: which factors are asked for,
the email code, forced updates, enrolment in two browsers, late bindings, a lost
passkey, a provider, registration, and a reset beside a sign-in. Every load is
started for every choice of its browsers, so the browsers are symmetric.

**admin.** The two modules share no row and no lock, so each behaviour moves one
of them (`part`). A node's clock keeps up with the database's or is one behind.

The runs of bounded workloads say `CHECK_DEADLOCK FALSE`: they end when the
requests of the load are answered.

## 4. Fairness

`DeliveryQueue!Fairness`: next_attempt_at passes, the claim loop goes on (its
poll timer re-arms itself in a `finally`), a route ends (it has a timeout), the
store answers, the shutdown limit passes, and a process that ended is started
again (the deployment's restart policy). Weak fairness each; a route's outcome
is not assumed. Nothing is assumed of stops, crashes and failures, and
`EveryDeliveryEnds` says "unless they recur for ever".

`EventStream!Fairness`: a transaction ends, and a node's cycle goes on. The
stream run has no failures and no churn.

`Interaction`: time passes, a request or sweep run that is under way goes on
(its store calls answer or fail), and the sweep is started again (its job runs
at an interval). Nothing is assumed of users or of faults.

## 5. Proofs

### DeliveryQueue_proofs

For every set of nodes, finite set of deliveries, assignment of destinations,
limits and set of faults (`DeliveryAssumption`): `TypeCorrect`, `Fencing`,
`LeasesOwned`, `OutcomesHaveReasons`, `SlotsRespected`, the action property `FinishedIsFinal`, and
`KeepsContract`, the refinement of `DeliveryContract`.

`OnlyTheLatestClaimWrites` is not inductive. Its guard compares the attempt
number of a claim with the row's, and a hold takes the number back, so it has to
be known that no late claim of the same number is left. `IInv` says so:

* `Ordered` – no claim's attempt number is above the row's count, so the next
  claim raises the count above all of them;
* `Distinct` – two claims of a row never have the same number; a hold lowers the
  count only together with the end of the one claim that had reached it;
* `Latest` – a claim that may still write is its holder's;
* `Finite` – every node's work is a finite set;
* `Reasons` – an outcome on its way to the store was seen at its route.

Every action preserves each conjunct; `claim`, `record` and `Exit` are the long
cases.

`SlotsRespected` (`InFlightBounded`) has an invariant of its own, `SlotsKept`: a
claim takes a slot from the claim statement on, and the slots a round read as
free are free until it claims, because between the two slots only come free
(`QuietFits`). `SlotsForRows` is the counting: the rows of a claim map one to one
into the slots its destinations were given.

`KeepsContract` shows, action by action, that a step of the queue is a step of
the contract or leaves its variables alone: a claim is `Attempt` of the rows it
takes, a `record` is `Settle` or `GiveBack` or, for a retry, nothing; a claim
that was lost changes nothing the contract sees. It needs `IInv` (a record that
still owns its row acts for the row's current attempt, and its outcome was
answered) and `Untried`: a row that does not exist has no attempts.

### EventStream_proofs

For every set of nodes, kinds and destinations, page size and order of commits
(`StreamAssumption`):

* `TypeCorrect`, and `ReaderComplete`: a cursor reader is given every stored
  event at or before its cursor;
* `NothingSkipped`: if the set of destinations does not change, `NoGap`, with any
  number of nodes that fail anywhere, with or without backfill and retention;
* `RetentionIsSafe`: if moreover no kind has a backfill window,
  `RetentionKeepsUnfinished`.

The idea all four share is that of a final position: no open or future
transaction can add an event at or before it. The horizon is final, a page of
final events that returns everything between its ends leaves its reader at a
final position, and final positions stay final (`CursorFinal`,
`PositionsFinal`). `NothingSkipped` also needs that the lists of all nodes are
complete (`ListsComplete`) and that a fed destination's kind keeps its position
(`SinceHasPosition`). `RetentionIsSafe` needs that the bound stays final, stays
behind every position and stays done (`PurgeSafe`), which lasts across the run
because positions only move forward and finished deliveries stay finished.

The hypotheses are needed: with two nodes and destinations that come and go
`NoGap` fails (section 6); TLC checks it on one node with churn. With a backfill
window a new position may start behind the bound retention was given.

### JobRunner_proofs

For any number of nodes, any interval, window and time limit, and any clock lags
that `JobAssumption` allows, with any faults:

* `LockKept`: `LockDiscipline`. `IInv` joins, per node, what its timer, attempt,
  run and lease say of each other; whoever believes to hold the lock does, unless
  its connection dropped in that slot.
* `OneRunPerSlot`: `OncePerSlot`. The second invariant, `Once`: a slot that was
  run either still has its winner holding the lock (`Won`), or is over by the
  clock of some node and for every node that got the lock for it and has not
  begun (`Over`), or is excused. The two windows of the hold carry it over the
  release: whoever finds the lock free comes after them, and refuses to run.
* `SlotsAreRun`: `NoSlotSkipped`. The third, `Skip`: a slot some node passed was
  run, has a note of what went wrong, or has a node with the lock that is about
  to begin.

The attempt to prove `NoSlotSkipped` showed the property, as first stated, to be
false on longer behaviours than the run's: an attempt that is late by a whole
interval meets the holder of a later slot and passes its own. TLC confirms it
with a third slot. `Overrun` counts such an attempt among the late ones.

### TokenGrants_proofs

For any codes, sessions, tokens, requests and loads (`GrantsAssumption`):

* `TypesKept`, `OneTokenPerGrant` (`OneLiveToken`) and `CodesRedeemedOnce`
  (`RedeemedOnce`). `OneLiveToken` is not inductive: a second token could be
  pending. `IInv` says of each request what its place in its script tells of its
  transaction (`Kept`: past its first statement a redemption has spent its code,
  past its third a rotation has revoked its token, and the row is still as it
  was), and of any two that they share no uncommitted row, no new row and no
  exclusive lock (`Compatible`). So the token a commit makes live replaces one
  that the same commit revokes, or is the first of a code it spends.
* `EndedStaysEnded`: `GrantsStayEnded` under `Steady` (no purge, no reset, and no
  tokens that expire beside a logout or a password change). A set of grants is
  over (`Over`) when it has no live token and no fresh code and its sessions are
  ended; that is stable. `Swept` follows each sweep statement by statement: its
  codes are void when it takes the lock, under the lock no rotation of its grants
  is in flight, and what it then sees is every live token. The three exclusions
  are the behaviours of section 6; without any of them TLC finds the property
  violated.
* `ReplayDenies`: `ReplayDeniesAccess` for all loads without purges. Every issued
  access token is filed under its code or family before its transaction commits
  (`Recorded`), and the replay holds the user's lock when it finds the family.
* `CodesEnded`: `CodesKept` for all loads. A mint shares the lock of
  its session's row until it commits, so whoever locks the row to end it sees the
  minted code in its next snapshot; and a code it saw stays fresh only while a
  redemption holds it, for which the UPDATE waits (`MintCommits`,
  `EndedCodesShrink`).
* `NoCircularWait`: `NoLockCycle` for every set of requests and every load.
  `LocksInOrder` says what a request holds at each place of its script
  (`Holding`): nothing before it ends sessions, sessions only while it waits for
  their codes, sessions or codes before the user's lock, all of these before the
  client's, and any of them before token rows. The one exception is a reset at
  its codes, which holds the user's lock and token rows. `Rank` numbers the
  statements that may wait in that order. Whoever blocks a waiting request is
  past its last wait, or waits at a higher rank, or is such a reset
  (`Follows`); so in a set of requests without one that all wait for each other,
  a request of the highest rank could be blocked by nobody in the set
  (`ClosesNext`): every circle holds a reset that waits for codes.

Such circles exist, section 6 tells which; the theorem says that there are no
others. Beside a password change the model has one that the code has not: both
first update the credential row, which is not modelled. Two UPDATEs that visit
the same rows in different orders are outside the model, and PostgreSQL may
abort one of those.

### AdminPlane_proofs: the chain

For any writers, batches and sizes (`ChainAssumption`): `ChainStaysSound`
(`ChainSound`) and `DamageStaysSeen` (`EvidenceKept`). The invariant `CInv`:
every stored row of an untouched chain follows the row before it or the anchor
(`InOrder`); the rows a transaction has inserted follow the newest stored one
(`TxOK`); a batch deletes from the start of the chain and never its newest row
(`BatchOK`). For a damaged chain it keeps a row that no batch will delete and
that fails the check (`Evidence`): a changed row, or one whose predecessor was
cut. A batch that would reach it has verified the rows up to it, and stopped.

### AdminPlane_proofs: approvals

For any accounts, requests, clocks and lifetimes (`ApprovalAssumption`):
`ApprovalsUsedRightly` (`UsedRightly`) and `AuditStaysKept` (`AuditKept`). The
invariant is `AInv` for the approvals and `LInv` for the log. Who holds a row's
lock has staged what its UPDATE made of the row as it still is (`Staged`); an
approver's reading is of now or of fewer approvals than there are by now
(`Standing`), and the `approvals` count in the UPDATE's condition tells the two
apart; what was told of an approval is what its row says (`Told`). The log runs
without a gap from the checkpoint to the head that the holder of the chain's lock
has read. The quorum needs that no account is in the list twice and that the
others never take the requester's place (`RowOK`).

### Interaction_proofs

For any number of interactions, sessions, accounts, requests and sweep runs, any
workload and any deadlines (`InteractionAssumption`: the ids and sessions are
numbered from 1, the unanswered deadline is before the absolute one, and `None` is
no other value): `OneOutcomeHolds`, `AnsweredOnceHolds`, `LiveIsAnswerableHolds`,
`SessionsKeptHolds`, `SwitchSignsOutHolds` and the action property
`NoFinishUnderEndedSessionHolds`. None of them is inductive; `IInv` is, and joins
to `TypeOK`:

* `Turns`: what is unique. The turn of the state an interaction is in is in Redis
  or held by one request (`HoldsNow`), and its end is in the index, reported, or
  owed by one request or sweep (`Owns`); what is owed is not yet reported, or only
  as expired by events whose reply was lost (`Unheard`). A request whose write lost its reply does
  not know whether the turn is still the interaction's: it compares the record's
  revision before it gives the turn back, and while the two agree it is the only
  holder, so nobody moves the record in between.
* `Records`: what a request that read a record may rely on (`Matches`): at that
  revision the record is the one it read, even when a sweep took it out and listed
  it again; and a record that is live has its turn, a holder, or a note of how the
  turn was lost (`Answerable`).
* `Sessions`: what a request's place in its script says of the sessions it created,
  found ended, was served though they had ended, or is ending (`SessionKept`), with
  `Given` and `ReplacedKept` for the sessions it leaves behind.

Every action has a lemma that says what it does and one that it keeps `IInv`; three
frame lemmas (`TurnsFrame`, `RecordsFrame`, `SessionsFrame`) carry the other
processes and interactions over a step. TLC checked `IInv` on the instance of
**interactions** first.

### SessionService_proofs

For any nodes and clocks within the allowances, finite set of sessions, calls and
workloads, faults, lifetimes and batch size (`SessionAssumption`,
`SkewAssumption`): `SessionCacheKept` (`CacheKept`), `SessionsSwept`
(`RealmSweepComplete`), the action property `SessionsInUseKept`
(`UsedSessionsKept`), and `ResetsRefuse` (`ResetRefusesOldSessions`) for
workloads with one reset. `IInv` has five parts:

* `Types`, and `Rows`: a row has an end time when and only when it is ended, no
  row is created later than the fastest clock, and a session's last use is at most
  the last-seen interval past its last-seen time. `UsedSessionsKept` is this and
  the interval's bound of half the idle limit.
* `Cache`: no entry, and no write still on its way, is fresher than the end of its
  session plus the cache time and the skew (`CacheRec`), and the tombstone of an
  answered end outlives that by the factor two (`Tombed`). This is why a lost or
  late fill does no harm.
* `Calls`: what each call knows at its step. A lookup that began after an end and
  found no tombstone began after the tombstone's time (`Known`); a call that works
  on a record began before any answered end (`Held`); a sweep's batch ends where
  the sessions it still owes begin (`Sweeping`).
* `Flights`: who may wait for which read. Once an end was answered on a node, a
  read that this node still shares is at a step that finds nothing (`FlightOK`,
  `MarkOK`), so whoever joined it is told the session is absent.

What a call knows is stated in terms of things that only grow (`Grows`: ended rows
stay ended, tombstones and last-seen times move forward), so one lemma,
`CallStays`, carries the calls that do not move over every step. An attempt to
prove `EndedNotServed` as first stated, without the case of a read that outlasts a
tombstone, found that case; TLC confirms it in the third load.

`Resets` is a second invariant: while one reset is about, the published epoch is
the account's, and the cache holds what was published for as long as that lives,
because a fill, in time or late, writes only where nothing is alive (`FillLands`).
With two resets the publish of the earlier may cover that of the later, sent in
the other order or landing late, and
the property fails (section 6): `OneReset` is the hypothesis of the theorem.

### SignInEngine_proofs

For any set of browsers, any workload, accounts and limits (`SignInAssumption`;
events elsewhere happen once each): `CompletionIsProved` (`CompletionProved`),
`UpdateIsForced` (`ForcedUpdateKept`), `EnrolmentLeavesCodes`
(`EnrolledHasCodes`), `CodeGuessesAreBounded` (`CodeGuessesBounded`) and the
action property `CredentialChangesAreProved` (`CredentialChangeProved`). `IInv`
is `Setting`, `Functions`, `Standing` and, per browser, `BrowserOK`: the stored
transaction, the round under way and the result, each said of the account as it
is now.

* A transaction (`TxnOK`): a subject was proved, under an epoch that is the
  account's or older, and then older than the transaction too, so that the next
  round ends it (`Epochs`); what it proved is on the account (`OnAccount`);
  enrolments came after a factor (`Enrolments`); the held code counts the wrong
  answers (`Counted`), also from one code to the next.
* A round (`RoundOK`): what the place it is at lets it rely on (`AtPlace`). The
  rules run in the order of their stages, and `Passed` says what the stages
  behind a round have established of the account it read: the loop of factors
  leaves `LoopMet`, the forced update leaves `UpdateMet`. A re-read of the
  account goes back to before the loop, or finds nothing new to ask for.
* A result (`ResultOK`) keeps what it was given with.

The account only grows while a round runs (`Grows`: it is not enabled again, no
factor is unbound, a required update goes only with the password it is about), so
what was proved of it stays proved: `TxnOKGrows` and `RoundOKGrows` carry a browser
over the steps of the others and of the account's other users.
`CredentialChangeProved` is read off the same invariant: five steps write a
credential (`StepChanges`), a round reaches each only past the rule that asks for
a factor beyond the password or for the mailbox, and it is judged by the account
as the round read it (`RulesBeyond`, `BindsBeyond`).

`ForcedUpdateKept` makes one exception, which its proof asked for: a password that
an operator had told to replace and that was replaced elsewhere, between the start
of the last round and its read of the account, need not be replaced again.

### Only model-checked

* Liveness (`EveryDeliveryEnds`, `EveryEventOffered`, `EveryEndReported`): the
  prover has no fairness reasoning.
* `ResetRefusesOldSessions` where a workload has more than one reset: it does not
  hold there, and no run has two.

## 6. Findings

* **reset** – `account-resets.ts` revokes the refresh tokens first and
  invalidates the codes second, in one READ COMMITTED transaction. A redemption
  that spends its code before the second statement, and inserts its token after
  the snapshot of the first, leaves a usable refresh token behind. The other
  operations sweep codes first.

Behaviours met while modelling, which the passing runs leave room for. Some are
exceptions named in a property; three are definitions no run asserts, kept to
say precisely what does not hold.

* A reset can deadlock with a consent revocation. "Both sides take it before any
  row lock, so they cannot deadlock", says the comment on the user's lock
  (`refresh-tokens.repository.ts:40-41`) of rotations and bulk revocations. A
  consent revocation (`consent-management.ts:157-166`) updates the code rows
  first and takes the user's lock second, in one transaction; a reset
  (`account-resets.ts:209-210`) takes the lock first and the code rows second.
  Each may wait for the other, and PostgreSQL aborts one: a reset or a
  revocation that fails and has to be repeated, with nothing half done. The same
  happens in a circle of three: a redemption waits for the client's lock with
  its code spent, the revocation of the client waits for a token row the reset
  has written, the reset for the code. The loads of **grants** with a reset meet
  both, and `NoLockCycle` excepts exactly the circles with a reset in them
  (`ResetWaitsForCodes`): without the exception TLC shows each of the two.
* `revokeAllForUser` passes over expired tokens. A refresh that read its token
  just before the expiry still wins `revokeIfActive`, which looks at `revoked`
  alone, and its new token outlives the logout. The sweep of a client takes
  expired rows for exactly this reason. The load of **grants** in which rows
  expire has no logout.
* A node that listed the destinations before one was enabled moves the shared
  position past events that another node already owes to the new destination; it
  never gets them. **retention**, with destinations that come and go, has one
  node.
* `release` keeps the attempt counted, also for claims a stopping node never
  attempted. With `maxAttempts` such stops a row ends failed that no route ever
  saw; `schema/event-deliveries.ts` describes failed as "the last attempt
  failed, or the route refused the event for good".
* `deleteExpired` of refresh tokens decides from its snapshot that a family is
  dead. A rotation that read the newest token before its expiry may revive the
  family, whose rotated tokens are then gone and no longer recognised when
  replayed.
* The code purge between the read of a replayed code and
  `revokeFamilyByAuthorizationCode` clears the link (ON DELETE SET NULL), and
  the replay ends no family: `RowsStay`.
* `POST /auth/login` issues an access token that is recorded against no grant,
  so a replay in its family does not deny it: the exception in
  `ReplayDeniesAccess`.
* A password change ends codes and tokens in its first transaction and ends
  the other sessions in a later one. The end of a session spends the codes minted
  under it; but a code minted and redeemed under one of them between the two
  leaves its refresh family live. `GrantsStayEnded` asks of a password change
  only what its first transaction saw.
* A backfill start may be behind the bound that `offeredPosition` gave, although
  its comment says a new position starts at the horizon. The ages the model
  leaves out keep the two apart: a window is at most 30 days, for back-channel
  logout one day, and retention deletes events older than its own limit, at
  least one day.
* `JobRunner!OneNodeAtATime`: `job-runner.ts` says the lock "keeps each job on
  one node at a time" with one exception, a run that ignores its signal. While a
  dropped connection is unnoticed the lock is free and the run has no signal, so
  another node may run beside it.
* `Interaction!LiftedDeadlineHolds`: "the first answer the server processes lifts
  that deadline" (`interaction-record.ts`), but a sweep that read the index just
  before may claim the interaction whose deadline was lifted meanwhile.
* `Interaction!ReplacedSessionEnds`: a replaced session "ends"
  (`interaction.ts`), but the event of the answer is written before it, and when
  that write throws, the end is skipped and the session lives until it lapses.
* `SessionsKept` excepts a sign-in whose helper throws after
  `sessionService.create` stored the row: `browser-session.ts:102-104` writes the
  side record next, and `settled.session` is set only once the helper has
  returned (`interaction.ts:1278`). The session stays live until it lapses, with
  its cookie given to nobody. "A browser session created for an answer that was
  not written is ended" (`interaction.ts:988`) says otherwise.
* `OneOutcome` excepts an expiry whose event was written with the reply lost:
  `run` lists the interaction again, and the next sweep writes a second
  `interaction.expired` ("so it is reported once" and "Repeating the sweep reports
  nothing twice", `interaction-expiry.ts:77-78,89`).
* `SwitchSignsOut` excepts the session the cookie names when it could not be read.
  That a signer out of reach leaves it live is documented
  (`interaction.ts:1587-1593`). Postgres out of reach does the same, where the
  comment says "when [...] the session service cannot read the cookie's session,
  the turn is given back [...]; the switch never goes on while a session it ends is
  still live" (`interaction.ts:1534-1538`): `sessionService.get` does not throw, it
  treats the session as absent (`session-service.ts:406-411`).
* `NoFinishUnderEndedSession` excepts a finish that was served its ended session
  from the cache, which a lost tombstone makes possible for the cache time
  (`session-service.ts:466-468`, `SessionService!StaleAtMostCacheTime`).
* The replies of two tabs each rebuild the flow cookie from their own request,
  so the later one drops the other's secret.
* A wrong email code whose audit write fails is answered as unavailable, and the
  count of wrong answers is not stored.
* A fill of the epoch cache that read Postgres before a reset, and whose `SET NX`
  lands after the published epoch has run out of the cache, caches the old epoch
  again for the cache time ("a fill that read Postgres before the reset committed
  and writes after the publish changes nothing", `session-epochs.ts:16-17`). A
  session the reset did not end is then kept; the reset ends the sessions
  themselves, "which the epoch only backs up". It takes a fill slower than the
  cache time, 60 s by default.
* The publishes of two resets of one account may cross, which leaves the earlier
  epoch in the cache for the cache time.

## 7. Plan

1. The composition of `EventStream` and `DeliveryQueue`, with an abstract
   at-least-once contract from emit to outcome.
2. OID4VP request states, key rotation, the egress process pool; the step
   grammar and the end of a refresh family as pure operators against reference
   definitions; the remaining purposes of an interaction.

Not planned: token formats, signatures, PKCE and password hashing (pure
cryptography), input schemas, e-mail, the developer portal and the UI. They are
most of the repository's lines: the models cover the code in which state is
shared.
