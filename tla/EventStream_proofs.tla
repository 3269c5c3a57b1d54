------------------------ MODULE EventStream_proofs -------------------------
(***************************************************************************)
(* Proofs about EventStream, for every set of nodes, kinds and             *)
(* destinations, every page size and every number of transactions.         *)
(*                                                                         *)
(* The argument: a position that a page or a start produced is final, that *)
(* is, no transaction that can still commit has an event at or before it.  *)
(* A page returns every stored event between its two ends, so nothing is   *)
(* between what was read and what can still appear.                        *)
(***************************************************************************)
EXTENDS EventStream, TLAPS

\* No open transaction, and none from next on, can add an event at or before p.
FinalAt(p, xids, next) ==
  /\ p[1] <= next
  /\ p[1] = next => p[2] = 0
  /\ \A x \in xids : p[1] < x \/ (p[1] = x /\ p[2] = 0)

Final(p) == FinalAt(p, open, nextXid)

CursorFinal == Final(cursor)

PositionsFinal == \A k \in Kinds : position[k] # NoPosition => Final(position[k])

\* The order of positions is total.
LEMMA Total ==
  ASSUME NEW p \in Positions, NEW q \in Positions
  PROVE  AtOrBefore(p, q) \/ Precedes(q, p)
BY DEF Positions, AtOrBefore, Precedes

\* Events are positions after seq 0.
LEMMA EventTypes ==
  ASSUME TypeOK
  PROVE  /\ nextXid \in Nat /\ nextSeq \in Nat
         /\ \A x \in open : x \in Nat /\ x < nextXid
         /\ \A e \in events : /\ e \in Positions
                              /\ e[1] \in Nat /\ e[2] \in Nat /\ e[2] >= 1
                              /\ e[1] < nextXid
                              /\ e = <<e[1], e[2]>>
         /\ \A e \in written : /\ e \in Positions
                               /\ e[1] \in open /\ e[2] \in Nat /\ e[2] >= 1
                               /\ e = <<e[1], e[2]>>
<1>1. nextXid \in Nat /\ nextSeq \in Nat
  BY StreamAssumption DEF TypeOK
<1>2. \A x \in open : x \in Nat /\ x < nextXid
  BY <1>1 DEF TypeOK
<1>3. ASSUME NEW e \in events
      PROVE  /\ e \in Positions
             /\ e[1] \in Nat /\ e[2] \in Nat /\ e[2] >= 1
             /\ e[1] < nextXid
             /\ e = <<e[1], e[2]>>
  <2>1. e \in (1..(nextXid - 1)) \X (1..(nextSeq - 1))
    BY DEF TypeOK
  <2>2. e[1] \in 1..(nextXid - 1) /\ e[2] \in 1..(nextSeq - 1) /\ e = <<e[1], e[2]>>
    BY <2>1
  <2> QED BY <1>1, <2>2 DEF Positions
<1>4. ASSUME NEW e \in written
      PROVE  /\ e \in Positions
             /\ e[1] \in open /\ e[2] \in Nat /\ e[2] >= 1
             /\ e = <<e[1], e[2]>>
  <2>1. e \in open \X (1..(nextSeq - 1))
    BY DEF TypeOK
  <2>2. e[1] \in open /\ e[2] \in 1..(nextSeq - 1) /\ e = <<e[1], e[2]>>
    BY <2>1
  <2> QED BY <1>1, <1>2, <2>2 DEF Positions
<1> QED BY <1>1, <1>2, <1>3, <1>4

\* A page returns every event between its ends, and ends at a final position.
LEMMA PageComplete ==
  ASSUME TypeOK, NEW h, Horizon(h), NEW p \in Positions, Final(p),
         NEW read, NEW next, ReadPage(p, h, read, next)
  PROVE  /\ next \in Positions
         /\ Final(next)
         /\ read \subseteq events
         /\ \A e \in events : AtOrBefore(e, next) => AtOrBefore(e, p) \/ e \in read
<1>1. /\ h \in Nat /\ h <= nextXid
      /\ \A x \in open : h <= x
  BY EventTypes DEF Horizon
<1>2. p[1] \in Nat /\ p[2] \in Nat
  BY DEF Positions
<1>3. CASE /\ read = Unread(p, h)
           /\ next = IF h > p[1] THEN <<h, 0>> ELSE p
  <2>1. next \in Positions
    BY <1>1, <1>3 DEF Positions
  <2>2. Final(next)
    BY <1>1, <1>2, <1>3, EventTypes DEF Final, FinalAt
  <2>3. read \subseteq events
    BY <1>3 DEF Unread
  <2>4. ASSUME NEW e \in events, AtOrBefore(e, next), ~AtOrBefore(e, p)
        PROVE  e \in read
    <3>1. Precedes(p, e)
      BY <2>4, Total, EventTypes
    <3>2. next = <<h, 0>>
      BY <1>3, <2>4
    <3>3. e[1] < h
      BY <1>1, <2>4, <3>2, EventTypes DEF AtOrBefore, Precedes
    <3> QED BY <1>3, <3>1, <3>3 DEF Unread
  <2> QED BY <2>1, <2>2, <2>3, <2>4
<1>4. CASE /\ read \subseteq Unread(p, h)
           /\ next \in read
           /\ \A e \in Unread(p, h) : e \in read <=> AtOrBefore(e, next)
  <2>1. next \in events /\ next[1] < h
    BY <1>4 DEF Unread
  <2>2. Final(next)
    BY <1>1, <2>1, EventTypes DEF Final, FinalAt
  <2>3. ASSUME NEW e \in events, AtOrBefore(e, next), ~AtOrBefore(e, p)
        PROVE  e \in read
    <3>1. Precedes(p, e)
      BY <2>3, Total, EventTypes
    <3>2. e[1] < h
      BY <1>1, <2>1, <2>3, EventTypes DEF AtOrBefore, Precedes
    <3> QED BY <1>4, <2>3, <3>1, <3>2 DEF Unread
  <2> QED BY <1>4, <2>1, <2>2, <2>3, EventTypes DEF Unread
<1> QED BY <1>3, <1>4 DEF ReadPage

\* The horizon, and the place before an event below it, are final.
LEMMA StartFinal ==
  ASSUME TypeOK, NEW h, Horizon(h)
  PROVE  /\ <<h, 0>> \in Positions /\ Final(<<h, 0>>)
         /\ \A e \in events : e[1] < h => /\ <<e[1], e[2] - 1>> \in Positions
                                          /\ Final(<<e[1], e[2] - 1>>)
<1>1. /\ h \in Nat /\ h <= nextXid
      /\ \A x \in open : h <= x
  BY EventTypes DEF Horizon
<1> QED BY <1>1, EventTypes DEF Positions, Final, FinalAt
----------------------------------------------------------------------------
Cycles == [step : {"rest", "listed", "forgot", "paging"},
           listed : SUBSET Destinations, streams : SUBSET Kinds]

\* Type correctness of the event store, its readers and the retention job.
LEMMA TypeStep ==
  ASSUME TypeOK, CursorFinal, PositionsFinal, [Next]_vars
  PROVE  TypeOK'
<1> USE StreamAssumption
<1>1. CASE Begin
  BY <1>1 DEF Begin, TypeOK, queue, OptPosition
<1>2. ASSUME NEW x \in open, emit(x)
      PROVE  TypeOK'
  BY <1>2 DEF emit, TypeOK, queue, OptPosition
<1>3. ASSUME NEW x \in open, NEW commits \in BOOLEAN, End(x, commits)
      PROVE  TypeOK'
  <2>1. events \subseteq events'
    BY <1>3 DEF End
  <2>2. events' \subseteq (1..(nextXid - 1)) \X (1..(nextSeq - 1))
    BY <1>3 DEF End, TypeOK
  <2>3. written' \subseteq open' \X (1..(nextSeq - 1))
    BY <1>3 DEF End, TypeOK
  <2>4. pending \subseteq Destinations \X events' /\ finished \subseteq Destinations \X events'
    BY <2>1 DEF TypeOK
  <2> QED BY <1>3, <2>2, <2>3, <2>4 DEF End, TypeOK, queue, OptPosition
<1>4. CASE readAfter
  <2>1. PICK h, read, next :
          /\ Horizon(h)
          /\ ReadPage(cursor, h, read, next)
          /\ cursor' = next
          /\ got' = got \cup read
    BY <1>4 DEF readAfter
  <2>2. cursor \in Positions /\ Final(cursor)
    BY DEF TypeOK, CursorFinal
  <2>3. next \in Positions /\ read \subseteq Positions
    BY <2>1, <2>2, PageComplete, EventTypes
  <2> QED BY <1>4, <2>1, <2>3 DEF readAfter, TypeOK, stream, queue, OptPosition
<1>5. ASSUME NEW n \in Nodes, List(n) \/ Forget(n) \/ FindWork(n) \/ Rest(n) \/ Fails(n)
      PROVE  TypeOK'
  <2>1. CASE List(n)
    BY <2>1 DEF List, TypeOK, stream, OptPosition
  <2>2. CASE Forget(n)
    <3>1. [cycle[n] EXCEPT !.step = "forgot"] \in Cycles
      BY DEF TypeOK, Cycles
    <3>2. cycle' = [cycle EXCEPT ![n] = [cycle[n] EXCEPT !.step = "forgot"]]
      BY <2>2 DEF Forget
    <3>3. cycle' \in [Nodes -> Cycles]
      BY <3>1, <3>2 DEF TypeOK, Cycles
    <3> QED BY <2>2, <3>3 DEF Forget, TypeOK, stream, OptPosition, Cycles
  <2>3. CASE FindWork(n)
    <3>1. PICK ks \in SUBSET Kinds :
            cycle' = [cycle EXCEPT ![n] = [step |-> "paging", listed |-> cycle[n].listed,
                                           streams |-> ks]]
      BY <2>3 DEF FindWork
    <3>2. [step |-> "paging", listed |-> cycle[n].listed, streams |-> ks] \in Cycles
      BY DEF TypeOK, Cycles
    <3>3. cycle' \in [Nodes -> Cycles]
      BY <3>1, <3>2 DEF TypeOK, Cycles
    <3> QED BY <2>3, <3>3 DEF FindWork, TypeOK, stream, OptPosition, Cycles
  <2>4. CASE Rest(n)
    BY <2>4 DEF Rest, Resting, TypeOK, stream, OptPosition
  <2>5. CASE Fails(n)
    BY <2>5 DEF Fails, Resting, TypeOK, stream, OptPosition
  <2> QED BY <1>5, <2>1, <2>2, <2>3, <2>4, <2>5
<1>6. ASSUME NEW n \in Nodes, NEW k \in Kinds, StartStream(n, k)
      PROVE  TypeOK'
  <2>1. PICK p : /\ p \in Positions
                 /\ position' = [position EXCEPT ![k] = p]
                 /\ since' = Receiving(n, k, p)
    BY <1>6, StartFinal DEF StartStream
  <2>2. since' \in [Destinations -> OptPosition]
    BY <2>1 DEF Receiving, TypeOK, OptPosition
  <2>3. position' \in [Kinds -> OptPosition]
    BY <2>1 DEF TypeOK, OptPosition
  <2>4. cycle' \in [Nodes -> Cycles]
    <3>1. [cycle[n] EXCEPT !.streams = @ \ {k}] \in Cycles
      BY DEF TypeOK, Cycles
    <3> QED BY <1>6, <3>1 DEF StartStream, TypeOK, Cycles
  <2> QED BY <1>6, <2>2, <2>3, <2>4 DEF StartStream, TypeOK, stream, Cycles
<1>7. ASSUME NEW n \in Nodes, NEW k \in Kinds, fanOutPage(n, k)
      PROVE  TypeOK'
  <2>1. PICK h, read, next :
          /\ Horizon(h)
          /\ ReadPage(position[k], h, read, next)
          /\ position' = [position EXCEPT ![k] = next]
          /\ pending' = pending \cup ((Served(n, k) \X read) \ finished)
          /\ \/ cycle' = [cycle EXCEPT ![n].streams = @ \ {k}]
             \/ UNCHANGED cycle
    BY <1>7 DEF fanOutPage
  <2>2. position[k] \in Positions /\ Final(position[k])
    BY <1>7 DEF fanOutPage, TypeOK, OptPosition, PositionsFinal
  <2>3. next \in Positions /\ read \subseteq events
    BY <2>1, <2>2, PageComplete
  <2>4. position' \in [Kinds -> OptPosition]
    BY <2>1, <2>3 DEF TypeOK, OptPosition
  <2>5. since' \in [Destinations -> OptPosition]
    BY <1>7, <2>2 DEF fanOutPage, Receiving, TypeOK, OptPosition
  <2>6. Served(n, k) \subseteq Destinations
    BY DEF Served, TypeOK
  <2>7. pending' \subseteq Destinations \X events
    BY <2>1, <2>3, <2>6 DEF TypeOK
  <2>8. cycle' \in [Nodes -> [step : {"rest", "listed", "forgot", "paging"},
                              listed : SUBSET Destinations, streams : SUBSET Kinds]]
    BY <2>1 DEF TypeOK
  <2> QED BY <1>7, <2>4, <2>5, <2>7, <2>8 DEF fanOutPage, TypeOK, stream
<1>8. ASSUME NEW d \in Destinations, Enable(d) \/ Disable(d)
      PROVE  TypeOK'
  <2>1. CASE Enable(d)
    BY <2>1 DEF Enable, TypeOK, stream, OptPosition
  <2>2. CASE Disable(d)
    BY <2>2 DEF Disable, TypeOK, stream, OptPosition
  <2> QED BY <1>8, <2>1, <2>2
<1>9. ASSUME NEW w \in pending, Finish(w)
      PROVE  TypeOK'
  BY <1>9 DEF Finish, TypeOK, stream, OptPosition
<1>10. CASE listServed
  BY <1>10 DEF listServed, Unstarted, TypeOK, stream, queue, OptPosition
<1>11. CASE offeredPosition
  <2>1. PICK h, p : /\ Horizon(h)
                    /\ p \in Bounds(h)
                    /\ purge' = [purge EXCEPT !.step = "deleting", !.through = p]
    BY <1>11 DEF offeredPosition
  <2>2. p \in OptPosition
    <3>1. HeldPositions \subseteq OptPosition
      BY DEF HeldPositions, TypeOK
    <3>2. \A e \in events : <<e[1], e[2] - 1>> \in Positions
      BY EventTypes DEF Positions
    <3> QED BY <2>1, <3>1, <3>2, StartFinal DEF Bounds, OptPosition
  <2> QED BY <1>11, <2>1, <2>2 DEF offeredPosition, TypeOK, stream, queue
<1>12. CASE EndRun
  BY <1>12 DEF EndRun, Unstarted, TypeOK, stream, queue, OptPosition
<1>13. ASSUME NEW e \in events, deleteUnchained(e)
       PROVE  TypeOK'
  <2>1. pending' \subseteq Destinations \X events' /\ finished' \subseteq Destinations \X events'
    BY <1>13 DEF deleteUnchained, TypeOK
  <2> QED BY <1>13, <2>1 DEF deleteUnchained, TypeOK, OptPosition
<1>14. CASE UNCHANGED vars
  BY <1>14 DEF vars, stream, queue, TypeOK, OptPosition
<1> QED BY <1>1, <1>2, <1>3, <1>4, <1>5, <1>6, <1>7, <1>8, <1>9, <1>10, <1>11, <1>12, <1>13,
           <1>14 DEF Next, FanOut
----------------------------------------------------------------------------
\* What is final stays final: ids only grow, and an open transaction only ends.
LEMMA FinalStays ==
  ASSUME TypeOK, [Next]_vars
  PROVE  \A p \in Positions : Final(p) => FinalAt(p, open', nextXid')
<1> SUFFICES ASSUME NEW p \in Positions, Final(p)
             PROVE  FinalAt(p, open', nextXid')
  OBVIOUS
<1>1. p[1] \in Nat /\ p[2] \in Nat
  BY DEF Positions
<1>2. CASE Begin
  BY <1>1, <1>2, EventTypes DEF Begin, Final, FinalAt
<1>3. ASSUME NEW x \in open, NEW commits \in BOOLEAN, End(x, commits)
      PROVE  FinalAt(p, open', nextXid')
  BY <1>3 DEF End, Final, FinalAt
<1>4. CASE UNCHANGED <<open, nextXid>>
  BY <1>4 DEF Final, FinalAt
<1>5. Begin \/ (\E x \in open, commits \in BOOLEAN : End(x, commits)) \/ UNCHANGED <<open, nextXid>>
  BY DEF Next, emit, readAfter, FanOut, Fails, List, Forget, FindWork, Rest, StartStream, fanOutPage,
     Enable, Disable, Finish, listServed, offeredPosition, EndRun, deleteUnchained, vars, stream
<1> QED BY <1>2, <1>3, <1>4, <1>5

\* An event that a commit adds is after everything final.
LEMMA CommitsAreLate ==
  ASSUME TypeOK, NEW x \in open, NEW commits \in BOOLEAN, End(x, commits),
         NEW p \in Positions, Final(p), NEW e \in events', AtOrBefore(e, p)
  PROVE  e \in events
<1>1. p[1] \in Nat /\ p[2] \in Nat
  BY DEF Positions
<1>2. SUFFICES ASSUME e \in written, e[1] = x
               PROVE  FALSE
  BY DEF End
<1>3. x \in Nat /\ e[2] \in Nat /\ e[2] >= 1
  BY <1>2, EventTypes
<1>4. p[1] < x \/ (p[1] = x /\ p[2] = 0)
  BY DEF Final, FinalAt
<1> QED BY <1>1, <1>2, <1>3, <1>4 DEF AtOrBefore, Precedes

\* The positions in use stay final.
LEMMA PositionsStep ==
  ASSUME TypeOK, CursorFinal, PositionsFinal, [Next]_vars
  PROVE  CursorFinal' /\ PositionsFinal'
<1> USE StreamAssumption
<1>1. /\ cursor \in Positions
      /\ \A k \in Kinds : position[k] # NoPosition => position[k] \in Positions
  BY DEF TypeOK, OptPosition
<1>2. /\ FinalAt(cursor, open', nextXid')
      /\ \A k \in Kinds : position[k] # NoPosition => FinalAt(position[k], open', nextXid')
  BY <1>1, FinalStays DEF CursorFinal, PositionsFinal
<1>3. CASE readAfter
  <2>1. PICK h, read, next : Horizon(h) /\ ReadPage(cursor, h, read, next) /\ cursor' = next
    BY <1>3 DEF readAfter
  <2>2. next \in Positions /\ Final(next)
    BY <1>1, <2>1, PageComplete DEF CursorFinal
  <2> QED BY <1>2, <1>3, <2>1, <2>2 DEF readAfter, CursorFinal, PositionsFinal, Final, stream, queue
<1>4. ASSUME NEW n \in Nodes, Forget(n)
      PROVE  CursorFinal' /\ PositionsFinal'
  BY <1>2, <1>4 DEF Forget, CursorFinal, PositionsFinal, Final
<1>5. ASSUME NEW n \in Nodes, NEW k \in Kinds, StartStream(n, k)
      PROVE  CursorFinal' /\ PositionsFinal'
  <2>1. PICK p : Final(p) /\ position' = [position EXCEPT ![k] = p]
    BY <1>5, StartFinal DEF StartStream
  <2> QED BY <1>2, <1>5, <2>1 DEF StartStream, CursorFinal, PositionsFinal, Final, stream, TypeOK
<1>6. ASSUME NEW n \in Nodes, NEW k \in Kinds, fanOutPage(n, k)
      PROVE  CursorFinal' /\ PositionsFinal'
  <2>1. PICK h, read, next : /\ Horizon(h)
                             /\ ReadPage(position[k], h, read, next)
                             /\ position' = [position EXCEPT ![k] = next]
    BY <1>6 DEF fanOutPage
  <2>2. position[k] \in Positions /\ Final(position[k])
    BY <1>1, <1>6 DEF fanOutPage, PositionsFinal
  <2>3. Final(next)
    BY <2>1, <2>2, PageComplete
  <2> QED BY <1>2, <1>6, <2>1, <2>3 DEF fanOutPage, CursorFinal, PositionsFinal, Final, stream, TypeOK
<1>7. CASE UNCHANGED <<cursor, position>>
  BY <1>2, <1>7 DEF CursorFinal, PositionsFinal, Final
<1>8. \/ readAfter
      \/ \E n \in Nodes : Forget(n) \/ \E k \in Kinds : StartStream(n, k) \/ fanOutPage(n, k)
      \/ UNCHANGED <<cursor, position>>
  BY DEF Next, Begin, emit, End, FanOut, Fails, List, FindWork, Rest, Enable, Disable, Finish,
     listServed, offeredPosition, EndRun, deleteUnchained, vars, queue
<1> QED BY <1>3, <1>4, <1>5, <1>6, <1>7, <1>8

\* A cursor reader misses no event (readAfter, and whatever runs beside it).
LEMMA ReaderStep ==
  ASSUME TypeOK, CursorFinal, ReaderMissesNothing, [Next]_vars
  PROVE  ReaderMissesNothing'
<1>1. cursor \in Positions /\ Final(cursor)
  BY DEF TypeOK, CursorFinal
<1>2. ASSUME NEW x \in open, NEW commits \in BOOLEAN, End(x, commits)
      PROVE  ReaderMissesNothing'
  <2>1. cursor' = cursor /\ got' = got
    BY <1>2 DEF End
  <2>2. \A e \in events' : AtOrBefore(e, cursor) => e \in events
    BY <1>1, <1>2, CommitsAreLate
  <2> QED BY <2>1, <2>2 DEF ReaderMissesNothing, AtOrBefore, Precedes
<1>3. CASE readAfter
  <2>1. PICK h, read, next : /\ Horizon(h)
                             /\ ReadPage(cursor, h, read, next)
                             /\ cursor' = next
                             /\ got' = got \cup read
    BY <1>3 DEF readAfter
  <2>2. \A e \in events : AtOrBefore(e, next) => AtOrBefore(e, cursor) \/ e \in read
    BY <1>1, <2>1, PageComplete
  <2>3. events' = events
    BY <1>3 DEF readAfter, stream
  <2> QED BY <2>1, <2>2, <2>3 DEF ReaderMissesNothing, AtOrBefore, Precedes
<1>4. CASE events' \subseteq events /\ UNCHANGED <<cursor, got>>
  BY <1>4 DEF ReaderMissesNothing, AtOrBefore, Precedes
<1>5. \/ \E x \in open, commits \in BOOLEAN : End(x, commits)
      \/ readAfter
      \/ events' \subseteq events /\ UNCHANGED <<cursor, got>>
  BY DEF Next, Begin, emit, FanOut, Fails, List, Forget, FindWork, Rest, StartStream, fanOutPage,
     Enable, Disable, Finish, listServed, offeredPosition, EndRun, deleteUnchained, vars, stream
<1> QED BY <1>2, <1>3, <1>4, <1>5

IInv == TypeOK /\ CursorFinal /\ PositionsFinal /\ ReaderMissesNothing

LEMMA Inductive == Spec => []IInv
<1>1. Init => IInv
  BY StreamAssumption DEF Init, IInv, TypeOK, CursorFinal, PositionsFinal, ReaderMissesNothing, Final,
     FinalAt, Positions, OptPosition, Resting, Unstarted
<1>2. IInv /\ [Next]_vars => IInv'
  BY TypeStep, PositionsStep, ReaderStep DEF IInv
<1> QED BY <1>1, <1>2, PTL DEF Spec

\* Every table, cursor and job of the stream keeps its type in every reachable
\* state, for every number of nodes, kinds, destinations and transactions.
THEOREM TypeCorrect == Spec => []TypeOK
<1>1. IInv => TypeOK
  BY DEF IInv
<1> QED BY <1>1, Inductive, PTL

\* A reader that goes on from each page's next position is given every stored
\* event at or before its cursor, whatever the page size and however many
\* transactions commit out of order.
THEOREM ReaderComplete == Spec => []ReaderMissesNothing
<1>1. IInv => ReaderMissesNothing
  BY DEF IInv
<1> QED BY <1>1, Inductive, PTL
----------------------------------------------------------------------------
(***************************************************************************)
(* With a fixed set of destinations, the fan-out leaves no gap.            *)
(***************************************************************************)
\* Every list a node works with is the whole set.
ListsComplete ==
  /\ enabled = Destinations
  /\ \A n \in Nodes : cycle[n] = Resting \/ cycle[n].listed = Destinations

\* A destination the fan-out has had keeps its stream's position.
SinceHasPosition ==
  \A d \in Destinations : since[d] # NoPosition => position[KindOf[d]] # NoPosition

\* No list goes stale when nothing is enabled or disabled.
LEMMA ListsStep ==
  ASSUME Churn = {}, TypeOK, ListsComplete, [Next]_vars
  PROVE  ListsComplete'
<1>1. enabled' = enabled
  BY DEF Next, Begin, emit, End, readAfter, FanOut, Fails, List, Forget, FindWork, Rest, StartStream,
     fanOutPage, Enable, Disable, Finish, listServed, offeredPosition, EndRun, deleteUnchained, vars,
     queue
<1>2. ASSUME NEW n \in Nodes, List(n) \/ Rest(n) \/ Fails(n)
      PROVE  ListsComplete'
  BY <1>1, <1>2 DEF List, Rest, Fails, ListsComplete, TypeOK
<1>3. ASSUME NEW n \in Nodes, Forget(n) \/ FindWork(n)
      PROVE  ListsComplete'
  <2>1. cycle[n].listed = Destinations
    BY <1>3 DEF Forget, FindWork, ListsComplete, Resting
  <2>2. cycle'[n].listed = Destinations
    <3>1. CASE Forget(n)
      BY <2>1, <3>1 DEF Forget, TypeOK
    <3>2. CASE FindWork(n)
      BY <2>1, <3>2 DEF FindWork, TypeOK
    <3> QED BY <1>3, <3>1, <3>2
  <2>3. \A m \in Nodes \ {n} : cycle'[m] = cycle[m]
    BY <1>3 DEF Forget, FindWork, TypeOK
  <2> QED BY <1>1, <2>2, <2>3 DEF ListsComplete
<1>4. ASSUME NEW n \in Nodes, NEW k \in Kinds, StartStream(n, k) \/ fanOutPage(n, k)
      PROVE  ListsComplete'
  <2>1. cycle[n].listed = Destinations
    BY <1>4 DEF StartStream, fanOutPage, ListsComplete, Resting
  <2>2. cycle' = [cycle EXCEPT ![n].streams = @ \ {k}] \/ cycle' = cycle
    BY <1>4 DEF StartStream, fanOutPage
  <2>3. cycle'[n].listed = Destinations
    BY <2>1, <2>2 DEF TypeOK
  <2>4. \A m \in Nodes \ {n} : cycle'[m] = cycle[m]
    BY <2>2 DEF TypeOK
  <2> QED BY <1>1, <2>3, <2>4 DEF ListsComplete
<1>5. CASE cycle' = cycle
  BY <1>1, <1>5 DEF ListsComplete
<1>6. \/ \E n \in Nodes : \/ List(n) \/ Rest(n) \/ Fails(n) \/ Forget(n) \/ FindWork(n)
                          \/ \E k \in Kinds : StartStream(n, k) \/ fanOutPage(n, k)
      \/ cycle' = cycle
  BY DEF Next, Begin, emit, End, readAfter, FanOut, Enable, Disable, Finish, listServed,
     offeredPosition, EndRun, deleteUnchained, vars, queue
<1> QED BY <1>2, <1>3, <1>4, <1>5, <1>6

\* What a page does to the destinations it serves.
LEMMA PageStep ==
  ASSUME TypeOK, PositionsFinal, ListsComplete, NEW n \in Nodes, NEW k \in Kinds, fanOutPage(n, k)
  PROVE  \E read \in SUBSET events, next \in Positions :
           /\ position[k] \in Positions
           /\ position' = [position EXCEPT ![k] = next]
           /\ pending' = pending \cup (({d \in Destinations : KindOf[d] = k} \X read) \ finished)
           /\ \A e \in read : Precedes(position[k], e)
           /\ \A e \in events : AtOrBefore(e, next) => AtOrBefore(e, position[k]) \/ e \in read
           /\ \A d \in Destinations :
                since'[d] = IF KindOf[d] = k /\ since[d] = NoPosition THEN position[k] ELSE since[d]
<1>1. cycle[n].listed = Destinations
  BY DEF fanOutPage, ListsComplete, Resting
<1>2. Served(n, k) = {d \in Destinations : KindOf[d] = k}
  BY <1>1 DEF Served
<1>3. PICK h, read, next :
        /\ Horizon(h)
        /\ ReadPage(position[k], h, read, next)
        /\ position' = [position EXCEPT ![k] = next]
        /\ pending' = pending \cup ((Served(n, k) \X read) \ finished)
  BY DEF fanOutPage
<1>4. position[k] \in Positions /\ Final(position[k])
  BY DEF fanOutPage, TypeOK, OptPosition, PositionsFinal
<1>5. /\ next \in Positions
      /\ read \subseteq events
      /\ \A e \in events : AtOrBefore(e, next) => AtOrBefore(e, position[k]) \/ e \in read
  BY <1>3, <1>4, PageComplete
<1>6. \A e \in read : Precedes(position[k], e)
  BY <1>3 DEF ReadPage, Unread
<1>7. \A d \in Destinations :
        since'[d] = IF KindOf[d] = k /\ since[d] = NoPosition THEN position[k] ELSE since[d]
  BY <1>2 DEF fanOutPage, Receiving, ListsComplete
<1> QED BY <1>2, <1>3, <1>4, <1>5, <1>6, <1>7

\* A fan-out that moves a position has written the rows of what it passed.
LEMMA GapStep ==
  ASSUME Churn = {}, TypeOK, PositionsFinal, ListsComplete, SinceHasPosition, NoGap, [Next]_vars
  PROVE  SinceHasPosition' /\ NoGap'
<1> USE StreamAssumption
<1>1. \A k \in Kinds : position[k] # NoPosition => position[k] \in Positions /\ Final(position[k])
  BY DEF TypeOK, OptPosition, PositionsFinal
<1>2. ASSUME NEW x \in open, NEW commits \in BOOLEAN, End(x, commits)
      PROVE  SinceHasPosition' /\ NoGap'
  <2>1. UNCHANGED queue
    BY <1>2 DEF End
  <2>2. ASSUME NEW k \in Kinds, position[k] # NoPosition, NEW e \in events', AtOrBefore(e, position[k])
        PROVE  e \in events
    BY <1>1, <1>2, <2>2, CommitsAreLate
  <2> QED BY <2>1, <2>2 DEF SinceHasPosition, NoGap, Offered, queue, Precedes, AtOrBefore
<1>3. ASSUME NEW n \in Nodes, Forget(n)
      PROVE  SinceHasPosition' /\ NoGap'
  <2>1. cycle[n].listed = Destinations
    BY <1>3 DEF Forget, ListsComplete, Resting
  <2>2. \A d \in Destinations : position'[KindOf[d]] = position[KindOf[d]]
    BY <1>3, <2>1 DEF Forget, Served
  <2>3. UNCHANGED <<events, pending, finished, since>>
    BY <1>3 DEF Forget, stream
  <2> QED BY <2>2, <2>3 DEF SinceHasPosition, NoGap, Offered, Precedes, AtOrBefore
<1>4. ASSUME NEW n \in Nodes, NEW k \in Kinds, StartStream(n, k)
      PROVE  SinceHasPosition' /\ NoGap'
  <2>1. cycle[n].listed = Destinations
    BY <1>4 DEF StartStream, ListsComplete, Resting
  <2>2. PICK p \in Positions : position' = [position EXCEPT ![k] = p] /\ since' = Receiving(n, k, p)
    BY <1>4, StartFinal DEF StartStream
  <2>3. p # NoPosition /\ position[k] = NoPosition
    BY <1>4 DEF StartStream, Positions
  <2>4. UNCHANGED <<events, pending, finished>>
    BY <1>4 DEF StartStream, stream
  <2>5. \A d \in Destinations : KindOf[d] = k => since'[d] = p /\ position'[KindOf[d]] = p
    BY <2>1, <2>2, <2>3 DEF Receiving, Served, ListsComplete, SinceHasPosition, TypeOK
  <2>6. \A d \in Destinations : KindOf[d] # k => /\ since'[d] = since[d]
                                                /\ position'[KindOf[d]] = position[KindOf[d]]
    BY <2>2 DEF Receiving, Served, TypeOK
  <2>7. \A e \in events : ~(Precedes(p, e) /\ AtOrBefore(e, p))
    BY EventTypes DEF Positions, Precedes, AtOrBefore
  <2>8. SinceHasPosition'
    BY <2>3, <2>5, <2>6 DEF SinceHasPosition
  <2>9. ASSUME NEW d \in Destinations, NEW e \in events',
               since'[d] # NoPosition, position'[KindOf[d]] # NoPosition,
               Precedes(since'[d], e), AtOrBefore(e, position'[KindOf[d]])
        PROVE  <<d, e>> \in pending' \cup finished'
    <3>1. KindOf[d] # k
      BY <2>4, <2>5, <2>7, <2>9
    <3> QED BY <2>4, <2>6, <2>9, <3>1 DEF NoGap, Offered
  <2>10. NoGap'
    BY <2>9 DEF NoGap, Offered, Precedes, AtOrBefore
  <2> QED BY <2>8, <2>10
<1>5. ASSUME NEW n \in Nodes, NEW k \in Kinds, fanOutPage(n, k)
      PROVE  SinceHasPosition' /\ NoGap'
  <2>1. PICK read \in SUBSET events, next \in Positions :
           /\ position[k] \in Positions
           /\ position' = [position EXCEPT ![k] = next]
           /\ pending' = pending \cup (({d \in Destinations : KindOf[d] = k} \X read) \ finished)
           /\ \A e \in read : Precedes(position[k], e)
           /\ \A e \in events : AtOrBefore(e, next) => AtOrBefore(e, position[k]) \/ e \in read
           /\ \A d \in Destinations :
                since'[d] = IF KindOf[d] = k /\ since[d] = NoPosition THEN position[k] ELSE since[d]
    BY <1>5, PageStep
  <2>2. UNCHANGED <<events, finished>>
    BY <1>5 DEF fanOutPage, stream
  <2>3. /\ position[k] # NoPosition /\ next # NoPosition
        /\ position'[k] = next
        /\ \A l \in Kinds \ {k} : position'[l] = position[l]
    BY <2>1 DEF Positions, TypeOK
  <2>4. SinceHasPosition'
    BY <2>1, <2>3 DEF SinceHasPosition
  <2>5. ASSUME NEW d \in Destinations, NEW e \in events,
               since'[d] # NoPosition, position'[KindOf[d]] # NoPosition,
               Precedes(since'[d], e), AtOrBefore(e, position'[KindOf[d]])
        PROVE  <<d, e>> \in pending' \cup finished
    <3>1. CASE KindOf[d] # k
      BY <2>1, <2>3, <2>5, <3>1 DEF NoGap, Offered
    <3>2. CASE KindOf[d] = k /\ e \in read
      BY <2>1, <3>2
    <3>3. CASE KindOf[d] = k /\ AtOrBefore(e, position[k])
      <4>1. CASE since[d] = NoPosition
        <5>1. Precedes(position[k], e)
          BY <2>1, <2>5, <3>3, <4>1
        <5> QED BY <2>1, <3>3, <5>1, EventTypes DEF Positions, Precedes, AtOrBefore
      <4>2. CASE since[d] # NoPosition
        BY <2>1, <2>3, <2>5, <3>3, <4>2 DEF NoGap, Offered
      <4> QED BY <4>1, <4>2
    <3> QED BY <2>1, <2>3, <2>5, <3>1, <3>2, <3>3
  <2>6. NoGap'
    BY <2>2, <2>5 DEF NoGap, Offered, Precedes, AtOrBefore
  <2> QED BY <2>4, <2>6
<1>6. ASSUME NEW w \in pending, Finish(w)
      PROVE  SinceHasPosition' /\ NoGap'
  BY <1>6 DEF Finish, SinceHasPosition, NoGap, Offered, Precedes, AtOrBefore, stream
<1>7. ASSUME NEW e \in events, deleteUnchained(e)
      PROVE  SinceHasPosition' /\ NoGap'
  <2>1. \A d \in Destinations, f \in events' :
          /\ f \in events
          /\ Offered(d, f) => <<d, f>> \in pending' \cup finished'
    BY <1>7 DEF deleteUnchained, Offered
  <2>2. UNCHANGED <<position, since>>
    BY <1>7 DEF deleteUnchained
  <2> QED BY <2>1, <2>2 DEF SinceHasPosition, NoGap, Offered, Precedes, AtOrBefore
<1>8. CASE UNCHANGED <<events, position, pending, finished, since>>
  BY <1>8 DEF SinceHasPosition, NoGap, Offered, Precedes, AtOrBefore
<1>9. \/ \E x \in open, commits \in BOOLEAN : End(x, commits)
      \/ \E n \in Nodes : Forget(n) \/ \E k \in Kinds : StartStream(n, k) \/ fanOutPage(n, k)
      \/ \E w \in pending : Finish(w)
      \/ \E e \in events : deleteUnchained(e)
      \/ UNCHANGED <<events, position, pending, finished, since>>
  BY DEF Next, Begin, emit, readAfter, FanOut, Fails, List, FindWork, Rest, Enable, Disable,
     listServed, offeredPosition, EndRun, vars, stream, queue
<1> QED BY <1>2, <1>3, <1>4, <1>5, <1>6, <1>7, <1>8, <1>9

FixedInv == IInv /\ ListsComplete /\ SinceHasPosition /\ NoGap

LEMMA FixedInductive ==
  ASSUME Churn = {}
  PROVE  Spec => []FixedInv
<1>1. Init => FixedInv
  <2>1. Init => IInv
    BY StreamAssumption DEF Init, IInv, TypeOK, CursorFinal, PositionsFinal, ReaderMissesNothing, Final,
       FinalAt, Positions, OptPosition, Resting, Unstarted
  <2> QED BY <2>1 DEF Init, FixedInv, ListsComplete, SinceHasPosition, NoGap
<1>2. FixedInv /\ [Next]_vars => FixedInv'
  BY TypeStep, PositionsStep, ReaderStep, ListsStep, GapStep DEF FixedInv, IInv
<1> QED BY <1>1, <1>2, PTL DEF Spec

\* While no destination is enabled or disabled, every node's fan-out, whatever
\* it interleaves with and wherever it fails, leaves no event behind without a
\* row for every destination.
THEOREM NothingSkipped ==
  ASSUME Churn = {}
  PROVE  Spec => []NoGap
<1>1. FixedInv => NoGap
  BY DEF FixedInv
<1> QED BY <1>1, FixedInductive, PTL
----------------------------------------------------------------------------
(***************************************************************************)
(* With a fixed set of destinations and no backfill window, what retention *)
(* was told stays true while fan-out and deliveries go on.                 *)
(***************************************************************************)
\* The kinds whose position the run counts.
Counted(k) == k \notin purge.kinds \/ \E d \in purge.listed : KindOf[d] = k

ThroughFinal == purge.through \in Positions /\ Final(purge.through)

\* No counted position is behind the answer, nor ever gets behind it.
ThroughBehind ==
  \A k \in Kinds : Counted(k) /\ position[k] # NoPosition => AtOrBefore(purge.through, position[k])

\* The counted destinations are done with e.
Done(e) ==
  \A d \in Destinations :
    Holds(d) => /\ <<d, e>> \notin pending
                /\ since[d] # NoPosition /\ Precedes(since[d], e) => <<d, e>> \in finished

ThroughDone == \A e \in events : AtOrBefore(e, purge.through) => Done(e)

PurgeSafe == purge.step = "deleting" => ThroughFinal /\ ThroughBehind /\ ThroughDone

\* The order of positions is a strict order.
LEMMA Ordered ==
  /\ \A p \in Positions, q \in Positions : ~(Precedes(p, q) /\ AtOrBefore(q, p))
  /\ \A p \in Positions, q \in Positions, r \in Positions :
       AtOrBefore(p, q) /\ AtOrBefore(q, r) => AtOrBefore(p, r)
<1>1. \A p \in Positions : p[1] \in Nat /\ p[2] \in Nat /\ p = <<p[1], p[2]>>
  BY DEF Positions
<1> QED BY <1>1 DEF Precedes, AtOrBefore

\* A page never moves a position back.
LEMMA PageForward ==
  ASSUME TypeOK, NEW h, Horizon(h), NEW p \in Positions,
         NEW read, NEW next, ReadPage(p, h, read, next)
  PROVE  AtOrBefore(p, next)
<1>1. h \in Nat /\ p[1] \in Nat
  BY EventTypes DEF Horizon, Positions
<1>2. CASE next = IF h > p[1] THEN <<h, 0>> ELSE p
  BY <1>1, <1>2 DEF AtOrBefore, Precedes
<1>3. CASE next \in read /\ read \subseteq Unread(p, h)
  BY <1>3 DEF Unread, AtOrBefore
<1> QED BY <1>2, <1>3 DEF ReadPage

\* What is at or before a final position is final, and before the horizon.
LEMMA FinalBelow ==
  ASSUME TypeOK, NEW p \in Positions, NEW q \in Positions, AtOrBefore(p, q), Final(q)
  PROVE  Final(p)
<1>1. /\ p[1] \in Nat /\ p[2] \in Nat /\ q[1] \in Nat /\ q[2] \in Nat
      /\ \/ p[1] < q[1]
         \/ p[1] = q[1] /\ p[2] <= q[2]
  BY DEF Positions, AtOrBefore, Precedes
<1> QED BY <1>1, EventTypes DEF Final, FinalAt

LEMMA HorizonAhead ==
  ASSUME TypeOK, NEW p \in Positions, Final(p), NEW h, Horizon(h)
  PROVE  AtOrBefore(p, <<h, 0>>)
<1>1. p[1] \in Nat /\ p[2] \in Nat /\ p = <<p[1], p[2]>> /\ h \in Nat
  BY EventTypes DEF Positions, Horizon
<1>2. p[1] < h \/ (p[1] = h /\ p[2] = 0)
  BY <1>1, EventTypes DEF Final, FinalAt, Horizon
<1> QED BY <1>1, <1>2 DEF AtOrBefore, Precedes

\* The answer, when it is given: behind every counted position, and before
\* every unfinished delivery that counts.
LEMMA AnswerSafe ==
  ASSUME FixedInv, offeredPosition
  PROVE  (ThroughFinal /\ ThroughBehind /\ ThroughDone)'
<1> USE StreamAssumption
<1>1. PICK h, p : /\ Horizon(h)
                  /\ p \in Bounds(h)
                  /\ \A q \in Bounds(h) : AtOrBefore(p, q)
                  /\ purge' = [purge EXCEPT !.step = "deleting", !.through = p]
  BY DEF offeredPosition
<1>2. /\ UNCHANGED <<stream, queue, cursor, got>>
      /\ purge'.through = p /\ purge'.kinds = purge.kinds /\ purge'.listed = purge.listed
  BY <1>1 DEF offeredPosition, FixedInv, IInv, TypeOK
<1>3. TypeOK /\ PositionsFinal /\ SinceHasPosition /\ NoGap
  BY DEF FixedInv, IInv
<1>4. HeldPositions = {position[k] : k \in {l \in Kinds : position[l] # NoPosition /\ Counted(l)}}
  BY DEF HeldPositions, Counted
<1>5. \A k \in Kinds : position[k] # NoPosition => position[k] \in Positions /\ Final(position[k])
  BY <1>3 DEF TypeOK, OptPosition, PositionsFinal
<1>6. <<h, 0>> \in Positions /\ Final(<<h, 0>>)
  BY <1>1, <1>3, StartFinal
<1>7. p \in Positions
  <2>1. \A q \in HeldPositions : q \in Positions
    BY <1>4, <1>5
  <2>2. \A e \in events : <<e[1], e[2] - 1>> \in Positions
    BY <1>3, EventTypes DEF Positions
  <2> QED BY <1>1, <1>6, <2>1, <2>2 DEF Bounds
<1>8. \E q \in Bounds(h) : q \in Positions /\ Final(q)
  BY <1>4, <1>5, <1>6 DEF Bounds
<1>9. Final(p)
  BY <1>1, <1>3, <1>7, <1>8, FinalBelow
<1>10. \A k \in Kinds : Counted(k) /\ position[k] # NoPosition => AtOrBefore(p, position[k])
  <2>1. \A k \in Kinds : Counted(k) /\ position[k] # NoPosition => position[k] \in Bounds(h)
    BY <1>4 DEF Bounds
  <2> QED BY <1>1, <2>1
<1>11. ASSUME NEW e \in events, AtOrBefore(e, p), NEW d \in Destinations, Holds(d)
       PROVE  /\ <<d, e>> \notin pending
              /\ since[d] # NoPosition /\ Precedes(since[d], e) => <<d, e>> \in finished
  <2>1. e[1] \in Nat /\ e[2] \in Nat /\ e[2] >= 1 /\ e = <<e[1], e[2]>> /\ e \in Positions
    BY <1>3, EventTypes
  <2>2. <<d, e>> \notin pending
    <3>1. SUFFICES ASSUME <<d, e>> \in pending
                   PROVE  FALSE
      OBVIOUS
    <3>2. <<e[1], e[2] - 1>> \in Bounds(h)
      BY <1>11, <3>1 DEF Bounds
    <3>3. <<e[1], e[2] - 1>> \in Positions
      BY <2>1 DEF Positions
    <3>4. AtOrBefore(e, <<e[1], e[2] - 1>>)
      BY <1>1, <1>7, <1>11, <2>1, <3>2, <3>3, Ordered
    <3> QED BY <2>1, <3>4 DEF AtOrBefore, Precedes
  <2>3. ASSUME since[d] # NoPosition, Precedes(since[d], e)
        PROVE  <<d, e>> \in finished
    <3>1. KindOf[d] \in Kinds /\ position[KindOf[d]] # NoPosition
      BY <1>3, <2>3 DEF SinceHasPosition
    <3>2. Counted(KindOf[d])
      BY <1>11 DEF Holds, Counted
    <3>3. AtOrBefore(e, position[KindOf[d]])
      BY <1>5, <1>7, <1>10, <1>11, <2>1, <3>1, <3>2, Ordered
    <3> QED BY <1>3, <2>2, <2>3, <3>1, <3>3 DEF NoGap, Offered
  <2> QED BY <2>2, <2>3
<1>12. (\A d \in Destinations : Holds(d)' <=> Holds(d)) /\ (\A k \in Kinds : Counted(k)' <=> Counted(k))
  BY <1>2 DEF Holds, Counted
<1>13. ThroughFinal'
  BY <1>2, <1>7, <1>9 DEF ThroughFinal, Final, FinalAt, stream
<1>14. ThroughBehind'
  BY <1>2, <1>10, <1>12 DEF ThroughBehind, queue, AtOrBefore, Precedes
<1>15. ThroughDone'
  BY <1>2, <1>11, <1>12 DEF ThroughDone, Done, stream, queue, AtOrBefore, Precedes
<1> QED BY <1>13, <1>14, <1>15

\* The three parts survive every step of the others while a run deletes.
LEMMA DeletingStep ==
  ASSUME Churn = {}, Backfill = {}, FixedInv, [Next]_vars, purge' = purge,
         ThroughFinal, ThroughBehind, ThroughDone
  PROVE  (ThroughFinal /\ ThroughBehind /\ ThroughDone)'
<1> USE StreamAssumption
<1>1. TypeOK /\ PositionsFinal /\ ListsComplete /\ SinceHasPosition
  BY DEF FixedInv, IInv
<1>2. /\ \A d \in Destinations : Holds(d)' <=> Holds(d)
      /\ \A k \in Kinds : Counted(k)' <=> Counted(k)
      /\ \A d \in Destinations : KindOf[d] \in Kinds /\ (Holds(d) => Counted(KindOf[d]))
  BY DEF Holds, Counted
<1>3. ThroughFinal'
  BY <1>1, FinalStays DEF ThroughFinal, Final
<1>4. purge.through \in Positions /\ Final(purge.through)
  BY DEF ThroughFinal
<1>5. ASSUME NEW x \in open, NEW commits \in BOOLEAN, End(x, commits)
      PROVE  ThroughBehind' /\ ThroughDone'
  <2>1. UNCHANGED queue
    BY <1>5 DEF End
  <2>2. \A e \in events' : AtOrBefore(e, purge.through) => e \in events
    BY <1>1, <1>4, <1>5, CommitsAreLate
  <2> QED BY <1>2, <2>1, <2>2 DEF ThroughBehind, ThroughDone, Done, queue, AtOrBefore, Precedes
<1>6. ASSUME NEW n \in Nodes, Forget(n)
      PROVE  ThroughBehind' /\ ThroughDone'
  <2>1. \A k \in Kinds : position'[k] = NoPosition \/ position'[k] = position[k]
    BY <1>6 DEF Forget
  <2>2. UNCHANGED <<events, pending, finished, since>>
    BY <1>6 DEF Forget, stream
  <2> QED BY <1>2, <2>1, <2>2 DEF ThroughBehind, ThroughDone, Done, AtOrBefore, Precedes
<1>7. ASSUME NEW n \in Nodes, NEW k \in Kinds, StartStream(n, k)
      PROVE  ThroughBehind' /\ ThroughDone'
  <2>1. PICK h : /\ Horizon(h)
                 /\ position' = [position EXCEPT ![k] = <<h, 0>>]
                 /\ since' = Receiving(n, k, <<h, 0>>)
    BY <1>7 DEF StartStream
  <2>2. AtOrBefore(purge.through, <<h, 0>>) /\ <<h, 0>> \in Positions
    BY <1>1, <1>4, <2>1, HorizonAhead, StartFinal
  <2>3. UNCHANGED <<events, pending, finished>>
    BY <1>7 DEF StartStream, stream
  <2>4. \A l \in Kinds : position'[l] = IF l = k THEN <<h, 0>> ELSE position[l]
    BY <1>1, <2>1 DEF TypeOK
  <2>5. ThroughBehind'
    BY <1>2, <2>2, <2>4 DEF ThroughBehind, AtOrBefore, Precedes
  <2>6. \A d \in Destinations : since'[d] = since[d] \/ since'[d] = <<h, 0>>
    BY <2>1 DEF Receiving
  <2>7. \A e \in events : AtOrBefore(e, purge.through) => ~Precedes(<<h, 0>>, e)
    BY <1>1, <1>4, <2>2, Ordered, EventTypes
  <2>8. ThroughDone'
    BY <1>2, <2>3, <2>6, <2>7 DEF ThroughDone, Done, AtOrBefore, Precedes
  <2> QED BY <2>5, <2>8
<1>8. ASSUME NEW n \in Nodes, NEW k \in Kinds, fanOutPage(n, k)
      PROVE  ThroughBehind' /\ ThroughDone'
  <2>1. PICK read \in SUBSET events, next \in Positions :
           /\ position[k] \in Positions
           /\ position' = [position EXCEPT ![k] = next]
           /\ pending' = pending \cup (({d \in Destinations : KindOf[d] = k} \X read) \ finished)
           /\ \A e \in read : Precedes(position[k], e)
           /\ \A e \in events : AtOrBefore(e, next) => AtOrBefore(e, position[k]) \/ e \in read
           /\ \A d \in Destinations :
                since'[d] = IF KindOf[d] = k /\ since[d] = NoPosition THEN position[k] ELSE since[d]
    BY <1>1, <1>8, PageStep
  <2>2. UNCHANGED <<events, finished>>
    BY <1>8 DEF fanOutPage, stream
  <2>3. position[k] # NoPosition /\ \A l \in Kinds : position'[l] = IF l = k THEN next ELSE position[l]
    BY <1>1, <2>1 DEF TypeOK, Positions
  <2>4. AtOrBefore(position[k], next)
    <3>1. PICK h, r, q : Horizon(h) /\ ReadPage(position[k], h, r, q) /\ position' = [position EXCEPT ![k] = q]
      BY <1>8 DEF fanOutPage
    <3>2. q = next
      BY <1>1, <2>3, <3>1 DEF TypeOK
    <3> QED BY <1>1, <2>1, <3>1, <3>2, PageForward
  <2>5. Counted(k) => AtOrBefore(purge.through, position[k]) /\ AtOrBefore(purge.through, next)
    BY <1>4, <2>1, <2>3, <2>4, Ordered DEF ThroughBehind
  <2>6. ThroughBehind'
    BY <1>2, <2>3, <2>5 DEF ThroughBehind, AtOrBefore, Precedes
  <2>7. \A e \in events : Counted(k) /\ AtOrBefore(e, purge.through) => ~Precedes(position[k], e)
    BY <1>1, <1>4, <2>1, <2>5, Ordered, EventTypes
  <2>8. ASSUME NEW e \in events, AtOrBefore(e, purge.through), NEW d \in Destinations, Holds(d)
        PROVE  /\ <<d, e>> \notin pending'
               /\ since'[d] # NoPosition /\ Precedes(since'[d], e) => <<d, e>> \in finished
    <3>1. /\ <<d, e>> \notin pending
          /\ since[d] # NoPosition /\ Precedes(since[d], e) => <<d, e>> \in finished
      BY <2>8 DEF ThroughDone, Done
    <3>2. CASE KindOf[d] # k
      BY <2>1, <3>1, <3>2
    <3>3. CASE KindOf[d] = k
      <4>1. ~Precedes(position[k], e)
        BY <1>2, <2>7, <2>8, <3>3
      <4> QED BY <2>1, <3>1, <3>3, <4>1
    <3> QED BY <3>2, <3>3
  <2>9. ThroughDone'
    BY <1>2, <2>2, <2>8 DEF ThroughDone, Done, AtOrBefore, Precedes
  <2> QED BY <2>6, <2>9
<1>9. ASSUME NEW w \in pending, Finish(w)
      PROVE  ThroughBehind' /\ ThroughDone'
  <2>1. pending' \subseteq pending /\ finished \subseteq finished' /\ UNCHANGED <<events, position, since>>
    BY <1>9 DEF Finish, stream
  <2> QED BY <1>2, <2>1 DEF ThroughBehind, ThroughDone, Done, AtOrBefore, Precedes
<1>10. ASSUME NEW e \in events, deleteUnchained(e)
       PROVE  ThroughBehind' /\ ThroughDone'
  <2>1. events' \subseteq events /\ pending' \subseteq pending /\ UNCHANGED <<position, since>>
    BY <1>10 DEF deleteUnchained
  <2>2. \A d \in Destinations, f \in events' : <<d, f>> \in finished => <<d, f>> \in finished'
    BY <1>10 DEF deleteUnchained
  <2> QED BY <1>2, <2>1, <2>2 DEF ThroughBehind, ThroughDone, Done, AtOrBefore, Precedes
<1>11. CASE UNCHANGED <<events, position, pending, finished, since>>
  <2>1. ThroughBehind'
    BY <1>2, <1>11 DEF ThroughBehind, AtOrBefore, Precedes
  <2>2. ThroughDone'
    BY <1>2, <1>11 DEF ThroughDone, Done, AtOrBefore, Precedes
  <2> QED BY <1>3, <2>1, <2>2
<1>12. \/ \E x \in open, commits \in BOOLEAN : End(x, commits)
       \/ \E n \in Nodes : Forget(n) \/ \E k \in Kinds : StartStream(n, k) \/ fanOutPage(n, k)
       \/ \E w \in pending : Finish(w)
       \/ \E e \in events : deleteUnchained(e)
       \/ UNCHANGED <<events, position, pending, finished, since>>
  BY DEF Next, Begin, emit, readAfter, FanOut, Fails, List, FindWork, Rest, Enable, Disable,
     listServed, offeredPosition, EndRun, vars, stream, queue
<1> QED BY <1>3, <1>5, <1>6, <1>7, <1>8, <1>9, <1>10, <1>11, <1>12

LEMMA PurgeStep ==
  ASSUME Churn = {}, Backfill = {}, FixedInv, PurgeSafe, [Next]_vars
  PROVE  PurgeSafe'
<1>1. CASE offeredPosition
  BY <1>1, AnswerSafe DEF PurgeSafe
<1>2. CASE listServed \/ EndRun
  BY <1>2 DEF listServed, EndRun, Unstarted, PurgeSafe
<1>3. CASE purge' = purge
  BY <1>3, DeletingStep DEF PurgeSafe
<1>4. offeredPosition \/ listServed \/ EndRun \/ purge' = purge
  BY DEF Next, Begin, emit, End, readAfter, FanOut, Fails, List, Forget, FindWork, Rest, StartStream,
     fanOutPage, Enable, Disable, Finish, deleteUnchained, vars
<1> QED BY <1>1, <1>2, <1>3, <1>4

\* Retention deletes nothing a counted destination still waits for, while the
\* fan-out of every node and the delivery queue go on beside it, when the set
\* of destinations is fixed and no kind has a backfill window.
THEOREM RetentionIsSafe ==
  ASSUME Churn = {}, Backfill = {}
  PROVE  Spec => RetentionKeepsUnfinished
<1>1. Init => PurgeSafe
  BY DEF Init, Unstarted, PurgeSafe
<1>2. FixedInv /\ PurgeSafe /\ [Next]_vars => PurgeSafe'
  BY PurgeStep
<1>3. FixedInv /\ PurgeSafe /\ [Next]_vars =>
        [\A e \in events \ events' : \A d \in Destinations :
           Holds(d) => /\ <<d, e>> \notin pending
                       /\ since[d] # NoPosition /\ Precedes(since[d], e) => <<d, e>> \in finished]_vars
  <2> SUFFICES ASSUME FixedInv, PurgeSafe, [Next]_vars, NEW e \in events \ events'
               PROVE  Done(e)
    BY DEF Done
  <2>1. deleteUnchained(e)
    BY DEF Next, Begin, emit, End, readAfter, FanOut, Fails, List, Forget, FindWork, Rest, StartStream,
       fanOutPage, Enable, Disable, Finish, listServed, offeredPosition, EndRun, deleteUnchained, vars,
       stream
  <2> QED BY <2>1 DEF deleteUnchained, PurgeSafe, ThroughDone
<1> QED BY <1>1, <1>2, <1>3, FixedInductive, PTL DEF Spec, RetentionKeepsUnfinished
============================================================================
