---------------------------- MODULE EventStream ----------------------------
(***************************************************************************)
(* The event store's stream of one realm, and everything that reads it:    *)
(* transactions that write events, the cursor readers (readAfter), the     *)
(* fan-out that turns events into delivery rows, and the retention job     *)
(* that deletes them.                                                      *)
(*                                                                         *)
(* An event is its place in the stream, <<xid, seq>>: the id of the        *)
(* transaction that wrote it and its number from the table's sequence.     *)
(* Neither follows the order of commits, so every reader stops at the      *)
(* horizon, the lowest transaction id that is still open                   *)
(* (pg_snapshot_xmin): below it nothing can appear any more.               *)
(*                                                                         *)
(* Filters are left out (every destination takes every event), and so are  *)
(* times: any event may be past its retention, and any event below the     *)
(* horizon may be the first inside a backfill window. A page of the        *)
(* fan-out is one step: its transaction holds the stream's advisory lock,  *)
(* and what it reads below the horizon no longer changes.                  *)
(***************************************************************************)
EXTENDS Naturals, FiniteSets

CONSTANTS
  Nodes,         \* nodes that run the delivery role
  Kinds,         \* route kinds, each with a position in the stream
  Destinations,  \* the routes' destinations
  KindOf,        \* the kind of each destination
  Churn,         \* the destinations that get enabled and disabled; others stay enabled
  Backfill,      \* the kinds with a backfill window
  PageSize,      \* events per page
  Parts,         \* what takes part: a subset of {"reader", "retention", "failure"}
  MaxXid,        \* bound: transactions that write
  MaxSeq,        \* bound: events written
  NoPosition     \* no row in event_delivery_positions

ASSUME StreamAssumption ==
  /\ KindOf \in [Destinations -> Kinds]
  /\ Churn \subseteq Destinations
  /\ Backfill \subseteq Kinds
  /\ PageSize \in Nat \ {0}
  /\ MaxXid \in Nat /\ MaxSeq \in Nat
  /\ NoPosition \notin Nat \X Nat

VARIABLES
  nextXid,   \* the next transaction id
  nextSeq,   \* the next number of the table's sequence
  open,      \* transactions that wrote and have not ended
  written,   \* the events of open transactions
  events,    \* events: committed and not deleted
  cursor,    \* the position a cursor reader reads on from
  got,       \* the events that reader was given
  enabled,   \* the destinations the routes list
  position,  \* event_delivery_positions, by kind
  pending,   \* event_deliveries rows not finished: <<destination, event>>
  finished,  \* event_deliveries rows delivered or failed
  cycle,     \* what each node's fan-out is doing
  purge,     \* what the retention job is doing
  since      \* history: where the fan-out first had each enabled destination

stream == <<nextXid, nextSeq, open, written, events>>
queue == <<enabled, position, pending, finished, cycle, since>>
vars == <<stream, queue, cursor, got, purge>>

(***************************************************************************)
(* Positions, compared as the row values (xid, seq) are.                   *)
(***************************************************************************)
Positions == Nat \X Nat

Precedes(p, q) == p[1] < q[1] \/ (p[1] = q[1] /\ p[2] < q[2])

AtOrBefore(p, q) == p = q \/ Precedes(p, q)

\* Mutant: the latest id handed out, whatever is still open.
Horizon_Latest(h) == h = nextXid

\* h is the xmin of a snapshot taken now.
Horizon(h) ==
  /\ h \in open \cup {nextXid}
  /\ \A x \in open : h <= x

\* The final events after p.
Unread(p, h) == {e \in events : Precedes(p, e) /\ e[1] < h}

\* Mutant: every page moves the position to the horizon.
ReadPage_AlwaysHorizon(p, h, read, next) ==
  /\ read \subseteq Unread(p, h)
  /\ Cardinality(read) = PageSize \/ read = Unread(p, h)
  /\ next = IF h > p[1] THEN <<h, 0>> ELSE p

\* One statement reads a page after p and the next position: the last event
\* of a full page; the horizon, unless it is behind p, after a short one.
ReadPage(p, h, read, next) ==
  \/ /\ Cardinality(Unread(p, h)) < PageSize
     /\ read = Unread(p, h)
     /\ next = IF h > p[1] THEN <<h, 0>> ELSE p
  \/ /\ read \subseteq Unread(p, h)
     /\ Cardinality(read) = PageSize
     /\ next \in read
     /\ \A e \in Unread(p, h) : e \in read <=> AtOrBefore(e, next)

\* The positions a page can end at.
PageEnds(p, h) == events \cup {<<h, 0>>, p}
----------------------------------------------------------------------------
(***************************************************************************)
(* Writers.                                                                *)
(***************************************************************************)
\* A transaction gets its id with its first write.
Begin ==
  /\ nextXid <= MaxXid
  /\ open' = open \cup {nextXid}
  /\ nextXid' = nextXid + 1
  /\ UNCHANGED <<nextSeq, written, events, queue, cursor, got, purge>>

emit(x) ==
  /\ x \in open
  /\ nextSeq <= MaxSeq
  /\ written' = written \cup {<<x, nextSeq>>}
  /\ nextSeq' = nextSeq + 1
  /\ UNCHANGED <<nextXid, open, events, queue, cursor, got, purge>>

\* It commits, or rolls back: its events appear at once, or never.
End(x, commits) ==
  /\ x \in open
  /\ open' = open \ {x}
  /\ written' = {e \in written : e[1] # x}
  /\ events' = IF commits THEN events \cup {e \in written : e[1] = x} ELSE events
  /\ UNCHANGED <<nextXid, nextSeq, queue, cursor, got, purge>>
----------------------------------------------------------------------------
(***************************************************************************)
(* The cursor reader.                                                      *)
(***************************************************************************)
readAfter ==
  /\ "reader" \in Parts
  /\ \E h \in open \cup {nextXid} :
       /\ Horizon(h)
       /\ \E read \in SUBSET Unread(cursor, h), next \in PageEnds(cursor, h) :
            /\ ReadPage(cursor, h, read, next)
            /\ cursor' = next
            /\ got' = got \cup read
  /\ UNCHANGED <<stream, queue, purge>>
----------------------------------------------------------------------------
(***************************************************************************)
(* The fan-out of a node: list the destinations, forget the positions of   *)
(* kinds without one, find the streams with work, and page each.           *)
(***************************************************************************)
Resting == [step |-> "rest", listed |-> {}, streams |-> {}]

Served(n, k) == {d \in cycle[n].listed : KindOf[d] = k}

\* The routes list their enabled destinations, before any store call.
List(n) ==
  /\ cycle[n] = Resting
  /\ cycle' = [cycle EXCEPT ![n] = [step |-> "listed", listed |-> enabled, streams |-> {}]]
  /\ UNCHANGED <<stream, cursor, got, purge, enabled, position, pending, finished, since>>

Forget(n) ==
  /\ cycle[n].step = "listed"
  /\ position' = [k \in Kinds |-> IF Served(n, k) = {} THEN NoPosition ELSE position[k]]
  /\ cycle' = [cycle EXCEPT ![n].step = "forgot"]
  /\ UNCHANGED <<stream, cursor, got, purge, enabled, pending, finished, since>>

\* Mutant: only the streams without a position.
FindWork_NewStreams(n) ==
  /\ cycle[n].step = "forgot"
  /\ cycle' = [cycle EXCEPT ![n] =
                 [step |-> "paging", listed |-> cycle[n].listed,
                  streams |-> {k \in Kinds : Served(n, k) # {} /\ position[k] = NoPosition}]]
  /\ UNCHANGED <<stream, cursor, got, purge, enabled, position, pending, finished, since>>

\* The streams with work: no position yet, or a final event after it.
FindWork(n) ==
  /\ cycle[n].step = "forgot"
  /\ \E h \in open \cup {nextXid} :
       /\ Horizon(h)
       /\ cycle' = [cycle EXCEPT ![n] =
                      [step |-> "paging", listed |-> cycle[n].listed,
                       streams |-> {k \in Kinds : /\ Served(n, k) # {}
                                                  /\ \/ position[k] = NoPosition
                                                     \/ Unread(position[k], h) # {}}]]
  /\ UNCHANGED <<stream, cursor, got, purge, enabled, position, pending, finished, since>>

\* From here on the destination is to get every event.
Receiving(n, k, p) ==
  [d \in Destinations |-> IF d \in Served(n, k) \cap enabled /\ since[d] = NoPosition
                          THEN p ELSE since[d]]

\* A stream without a position starts at the horizon or, with a backfill
\* window, just before the window's first event.
StartStream(n, k) ==
  /\ k \in cycle[n].streams
  /\ position[k] = NoPosition
  /\ \E h \in open \cup {nextXid} :
       /\ Horizon(h)
       /\ \E p \in {<<h, 0>>} \cup (IF k \in Backfill
                                    THEN {<<e[1], e[2] - 1>> : e \in {f \in events : f[1] < h}}
                                    ELSE {}) :
            /\ position' = [position EXCEPT ![k] = p]
            /\ since' = Receiving(n, k, p)
  /\ cycle' = [cycle EXCEPT ![n].streams = @ \ {k}]
  /\ UNCHANGED <<stream, cursor, got, purge, enabled, pending, finished>>

\* A page: the rows of its events for the listed destinations, none twice, and
\* the position, in one transaction. The next page follows a full one, up to
\* the page cap.
fanOutPage(n, k) ==
  /\ k \in cycle[n].streams
  /\ position[k] # NoPosition
  /\ \E h \in open \cup {nextXid} :
       /\ Horizon(h)
       /\ \E read \in SUBSET Unread(position[k], h), next \in PageEnds(position[k], h) :
            /\ ReadPage(position[k], h, read, next)
            /\ position' = [position EXCEPT ![k] = next]
            /\ pending' = pending \cup ((Served(n, k) \X read) \ finished)
            /\ \/ cycle' = [cycle EXCEPT ![n].streams = @ \ {k}]
               \/ Cardinality(read) = PageSize /\ UNCHANGED cycle
  /\ since' = Receiving(n, k, position[k])
  /\ UNCHANGED <<stream, cursor, got, purge, enabled, finished>>

\* Every stream is done.
Rest(n) ==
  /\ cycle[n].step = "paging"
  /\ cycle[n].streams = {}
  /\ cycle' = [cycle EXCEPT ![n] = Resting]
  /\ UNCHANGED <<stream, cursor, got, purge, enabled, position, pending, finished, since>>

\* The node crashes or a store call fails: the open page writes nothing.
Fails(n) ==
  /\ "failure" \in Parts
  /\ cycle[n] # Resting
  /\ cycle' = [cycle EXCEPT ![n] = Resting]
  /\ UNCHANGED <<stream, cursor, got, purge, enabled, position, pending, finished, since>>
----------------------------------------------------------------------------
\* A destination is enabled, or disabled: a stream, a webhook, a client's URI.
Enable(d) ==
  /\ d \in Churn \ enabled
  /\ enabled' = enabled \cup {d}
  /\ UNCHANGED <<stream, cursor, got, purge, position, pending, finished, cycle, since>>

Disable(d) ==
  /\ d \in Churn \cap enabled
  /\ enabled' = enabled \ {d}
  /\ since' = [since EXCEPT ![d] = NoPosition]
  /\ UNCHANGED <<stream, cursor, got, purge, position, pending, finished, cycle>>

\* The delivery queue finishes a row (DeliveryQueue: delivered or failed).
Finish(w) ==
  /\ w \in pending
  /\ pending' = pending \ {w}
  /\ finished' = finished \cup {w}
  /\ UNCHANGED <<stream, cursor, got, purge, enabled, position, cycle, since>>
----------------------------------------------------------------------------
(***************************************************************************)
(* The retention job, for one realm: list, ask how far every destination   *)
(* is done, delete in batches.                                             *)
(***************************************************************************)
Unstarted == [step |-> "rest", kinds |-> {}, listed |-> {}, through |-> NoPosition]

\* A route whose listing fails is left out, and its kind then counts in full.
listServed ==
  /\ "retention" \in Parts
  /\ purge = Unstarted
  /\ \E ks \in SUBSET Kinds :
       purge' = [step |-> "listed", kinds |-> ks,
                 listed |-> {d \in enabled : KindOf[d] \in ks}, through |-> NoPosition]
  /\ UNCHANGED <<stream, queue, cursor, got>>

\* The deliveries and the positions that hold events back.
Holds(d) == KindOf[d] \notin purge.kinds \/ d \in purge.listed

HeldPositions ==
  {position[k] : k \in {l \in Kinds : /\ position[l] # NoPosition
                                      /\ \/ l \notin purge.kinds
                                         \/ \E d \in purge.listed : KindOf[d] = l}}

\* Mutant: the pending deliveries are left out.
Bounds_PositionsOnly(h) == IF HeldPositions = {} THEN {<<h, 0>>} ELSE HeldPositions

\* The positions the answer must not be past.
Bounds(h) ==
  (IF HeldPositions = {} THEN {<<h, 0>>} ELSE HeldPositions)
    \cup {<<e[1], e[2] - 1>> : e \in {f \in events : \E d \in Destinations :
                                        <<d, f>> \in pending /\ Holds(d)}}

offeredPosition ==
  /\ purge.step = "listed"
  /\ \E h \in open \cup {nextXid} :
       /\ Horizon(h)
       /\ \E p \in Bounds(h) :
            /\ \A q \in Bounds(h) : AtOrBefore(p, q)
            /\ purge' = [purge EXCEPT !.step = "deleting", !.through = p]
  /\ UNCHANGED <<stream, queue, cursor, got>>

\* Mutant: the delivery rows stay.
deleteUnchained_NoCascade(e) ==
  /\ purge.step = "deleting"
  /\ e \in events
  /\ AtOrBefore(e, purge.through)
  /\ events' = events \ {e}
  /\ UNCHANGED <<nextXid, nextSeq, open, written, cursor, got, purge, queue>>

\* An event at or before that position is past its retention and goes, with
\* its delivery rows.
deleteUnchained(e) ==
  /\ purge.step = "deleting"
  /\ e \in events
  /\ AtOrBefore(e, purge.through)
  /\ events' = events \ {e}
  /\ pending' = {w \in pending : w[2] # e}
  /\ finished' = {w \in finished : w[2] # e}
  /\ UNCHANGED <<nextXid, nextSeq, open, written, cursor, got, purge, enabled, position,
                 cycle, since>>

\* The run ends: nothing more is due, or its time limit passed, or it failed.
EndRun ==
  /\ purge # Unstarted
  /\ purge' = Unstarted
  /\ UNCHANGED <<stream, queue, cursor, got>>
----------------------------------------------------------------------------
Init ==
  /\ nextXid = 1 /\ nextSeq = 1
  /\ open = {} /\ written = {} /\ events = {}
  /\ cursor = <<0, 0>> /\ got = {}
  /\ enabled = Destinations \ Churn
  /\ position = [k \in Kinds |-> NoPosition]
  /\ pending = {} /\ finished = {}
  /\ cycle = [n \in Nodes |-> Resting]
  /\ purge = Unstarted
  /\ since = [d \in Destinations |-> NoPosition]

FanOut(n) ==
  \/ List(n) \/ Forget(n) \/ FindWork(n) \/ Rest(n)
  \/ \E k \in Kinds : StartStream(n, k) \/ fanOutPage(n, k)

Next ==
  \/ Begin
  \/ \E x \in open : emit(x) \/ \E commits \in BOOLEAN : End(x, commits)
  \/ readAfter
  \/ \E n \in Nodes : FanOut(n) \/ Fails(n)
  \/ \E d \in Destinations : Enable(d) \/ Disable(d)
  \/ \E w \in pending : Finish(w)
  \/ listServed \/ offeredPosition \/ EndRun
  \/ \E e \in events : deleteUnchained(e)

Spec == Init /\ [][Next]_vars

\* Transactions end, and a node's cycle goes on: the timer and the store's
\* answers drive it. Nothing is assumed of writers, churn, retention or failures.
Fairness ==
  /\ \A x \in 1..MaxXid : WF_vars(\E commits \in BOOLEAN : End(x, commits))
  /\ \A n \in Nodes : WF_vars(FanOut(n))

LiveSpec == Spec /\ Fairness
----------------------------------------------------------------------------
(***************************************************************************)
(* Properties.                                                             *)
(***************************************************************************)
OptPosition == Positions \cup {NoPosition}

\* Every variable holds what its columns and fields can hold.
TypeOK ==
  /\ nextXid \in 1..(MaxXid + 1) /\ nextSeq \in 1..(MaxSeq + 1)
  /\ open \subseteq 1..(nextXid - 1)
  /\ written \subseteq open \X (1..(nextSeq - 1))
  /\ events \subseteq (1..(nextXid - 1)) \X (1..(nextSeq - 1))
  /\ cursor \in Positions /\ got \subseteq Positions
  /\ enabled \subseteq Destinations
  /\ position \in [Kinds -> OptPosition]
  /\ pending \subseteq Destinations \X events
  /\ finished \subseteq Destinations \X events
  /\ cycle \in [Nodes -> [step : {"rest", "listed", "forgot", "paging"},
                          listed : SUBSET Destinations, streams : SUBSET Kinds]]
  /\ purge \in [step : {"rest", "listed", "deleting"}, kinds : SUBSET Kinds,
                listed : SUBSET Destinations, through : OptPosition]
  /\ since \in [Destinations -> OptPosition]

\* A cursor reader that reads on from each page's next position is given every
\* event, however the transactions that wrote them interleaved and whatever
\* committed late (readAfter stops at the horizon).
ReaderMissesNothing == \A e \in events : AtOrBefore(e, cursor) => e \in got

Offered(d, e) == <<d, e>> \in pending \cup finished

\* "Every event reaches every matching destination at least once": once the
\* fan-out has had a destination, it passes no event without a row for it,
\* while the destination stays enabled.
NoGap ==
  \A d \in Destinations, e \in events :
    since[d] # NoPosition /\ position[KindOf[d]] # NoPosition
      /\ Precedes(since[d], e) /\ AtOrBefore(e, position[KindOf[d]])
    => Offered(d, e)

\* Retention deletes no event that a destination it counted still waits for:
\* neither one with an unfinished delivery, nor one not fanned out yet, even
\* though fan-out and deliveries go on between its reads and its deletions.
RetentionKeepsUnfinished ==
  [][\A e \in events \ events' : \A d \in Destinations :
       Holds(d) => /\ <<d, e>> \notin pending
                   /\ since[d] # NoPosition /\ Precedes(since[d], e) => <<d, e>> \in finished]_vars

\* Every event of an enabled destination's stream is offered to it in the end,
\* once the transactions below it have ended.
EveryEventOffered ==
  \A d \in Destinations \ Churn, x \in 1..MaxXid, s \in 1..MaxSeq :
    (<<x, s>> \in events /\ since[d] # NoPosition /\ Precedes(since[d], <<x, s>>))
      ~> Offered(d, <<x, s>>)
============================================================================
