-------------------------- MODULE JobRunner_proofs --------------------------
(***************************************************************************)
(* Proofs about the job runner, for any number of nodes, any interval,     *)
(* window and time limit that JobAssumption allows, any clock lags within  *)
(* it and any number of faults.                                            *)
(*                                                                         *)
(* IInv joins what each node knows of its timer, its attempt, its run and  *)
(* its lease (NodeKept): whoever believes to hold the lock does, unless    *)
(* its connection dropped. LockDiscipline follows.                         *)
(*                                                                         *)
(* OncePerSlot needs a second invariant, Once: a slot that was run is      *)
(* either still locked by its winner or over, and over for everyone who    *)
(* got the lock for it and has not begun. It is the two windows of the     *)
(* hold, and the attempts that are not tardy, that carry it over release   *)
(* and tryAcquire. NoSlotSkipped needs Skip: a slot somebody passed was    *)
(* run, or has a note, or has a node with the lock about to begin.         *)
(***************************************************************************)
EXTENDS JobRunner, WellFoundedInduction, TLAPS

\* The attempts that hold a lease, as their node believes.
Leasing == {"leased", "run", "hold", "release"}

\* A timer is for a slot of the grid, and for one after the current attempt's.
TimerKept(n) ==
  node[n].state = "running" =>
    /\ node[n].timer.slot > 0
    /\ node[n].timer.slot <= node[n].timer.at
    /\ node[n].timer.at < node[n].timer.slot + Window
    /\ Att(n).slot < node[n].timer.slot

\* An attempt is for a slot that has begun by its node's clock.
AttemptKept(n) ==
  /\ Att(n).pc = "idle" => Att(n).slot = 0 /\ ~Att(n).going /\ ~Att(n).lost
  /\ Att(n).pc # "idle" => /\ Att(n).slot \in Slots
                           /\ Att(n).slot <= Att(n).due
                           /\ Att(n).due < Att(n).slot + Window
                           /\ Att(n).due <= Clock(n)
  /\ node[n].state = "down" => Att(n).pc = "idle"

\* A run goes on while its runner waits for it, and beyond only if it was told.
RunKept(n) ==
  /\ Att(n).pc = "run" => Att(n).going
  /\ Att(n).pc \in {"acquire", "leased"} => ~Att(n).going /\ ~Att(n).sig
  /\ Att(n).going /\ ~Att(n).sig => Att(n).pc = "run" /\ node[n].state = "running"

\* Whoever believes to hold the lock does, unless its connection dropped.
LeaseKept(n) ==
  /\ lock = n => node[n].state = "down" \/ Att(n).pc \in Leasing
  /\ Att(n).pc \in Leasing => lock = n \/ "lost" \in why[Att(n).slot]
  /\ Att(n).lost => Att(n).pc # "idle" /\ "lost" \in why[Att(n).slot]

NodeKept(n) == TimerKept(n) /\ AttemptKept(n) /\ RunKept(n) /\ LeaseKept(n)

IInv == TypeOK /\ \A n \in Nodes : NodeKept(n)
-----------------------------------------------------------------------------
(* The grid *)

LEMMA Basics ==
  /\ Interval \in Nat /\ Window \in Nat /\ Until \in Nat /\ From \in Nat /\ Timeout \in Nat
  /\ MaxFaults \in Nat
  /\ Interval > 0 /\ Window > 0 /\ 2 * Window < Interval
  /\ Window <= From /\ From <= Until
  /\ Until \div Interval \in Nat
  /\ None \notin Nodes
BY JobAssumption

LEMMA DivBounds ==
  ASSUME NEW c \in Nat
  PROVE  /\ c \div Interval \in Nat
         /\ (c \div Interval) * Interval <= c
         /\ c < (c \div Interval + 1) * Interval
BY Basics

\* Slots apart are an interval apart.
LEMMA TimesMono ==
  ASSUME NEW a \in Nat, NEW b \in Nat
  PROVE  /\ a <= b => a * Interval <= b * Interval
         /\ a < b => a * Interval + Interval <= b * Interval
         /\ a * Interval \in Nat
BY Basics

LEMMA GridNat == Grid \subseteq Nat /\ 0 \in Grid /\ Slots \subseteq Grid
<1>1. Grid \subseteq Nat
  BY Basics, TimesMono DEF Grid
<1>2. 0 \in Grid
  <2>1. 0 \in 0..(Until \div Interval + 2) /\ 0 * Interval = 0
    BY Basics
  <2> QED BY <2>1 DEF Grid
<1>3. Slots \subseteq Grid
  BY Basics DEF Grid, Slots
<1> QED BY <1>1, <1>2, <1>3

\* A slot that has begun is one of Slots.
LEMMA BegunSlot ==
  ASSUME NEW s \in Grid, 0 < s, s <= Until
  PROVE  s \in Slots
<1>1. PICK k \in 0..(Until \div Interval + 2) : s = k * Interval
  BY DEF Grid
<1>2. k \in Nat /\ k # 0
  BY <1>1, Basics
<1>3. k <= Until \div Interval
  <2> SUFFICES ASSUME Until \div Interval < k PROVE FALSE
    BY <1>2, Basics
  <2>1. (Until \div Interval + 1) * Interval <= k * Interval
    BY <1>2, Basics, TimesMono
  <2> QED BY <2>1, <1>1, DivBounds, Basics
<1> QED BY <1>1, <1>2, <1>3, Basics DEF Slots

LEMMA SlotsApart ==
  ASSUME NEW s \in Grid, NEW t \in Grid, s < t
  PROVE  s + Interval <= t
<1>1. PICK j \in 0..(Until \div Interval + 2) : s = j * Interval
  BY DEF Grid
<1>2. PICK k \in 0..(Until \div Interval + 2) : t = k * Interval
  BY DEF Grid
<1>3. j \in Nat /\ k \in Nat
  BY Basics
<1>4. j < k
  <2> SUFFICES ASSUME k <= j PROVE FALSE BY <1>3
  <2> QED BY <1>1, <1>2, <1>3, TimesMono
<1> QED BY <1>1, <1>2, <1>3, <1>4, TimesMono

\* The clocks, and how far they disagree.
LEMMA Clocks ==
  ASSUME TypeOK, NEW n \in Nodes
  PROVE  /\ now \in Nat /\ now <= Until /\ lag[n] \in Nat
         /\ Clock(n) \in Nat /\ Clock(n) <= Until
<1>1. now \in From..Until /\ lag \in Lags
  BY DEF TypeOK
<1>2. lag[n] \in 0..Window
  BY <1>1, JobAssumption
<1> QED BY <1>1, <1>2, Basics DEF Clock

\* schedule: a slot of the grid, after now and after the previous one.
LEMMA ScheduleGrid ==
  ASSUME NEW n \in Nodes, Clock(n) \in Nat, Clock(n) <= Until,
         NEW previous \in Grid, previous <= Clock(n)
  PROVE  /\ NextSlot(n, previous) \in Grid
         /\ Clock(n) < NextSlot(n, previous)
         /\ previous < NextSlot(n, previous)
<1> DEFINE q == Clock(n) \div Interval
           u == Until \div Interval
<1>1. Clock(n) \in Nat /\ Clock(n) <= Until
  OBVIOUS
<1>2. q \in Nat /\ Clock(n) < (q + 1) * Interval /\ q * Interval <= Clock(n)
  BY <1>1, DivBounds
<1>3. u \in Nat /\ Until < (u + 1) * Interval
  BY DivBounds, Basics
<1>4. q <= u
  <2> SUFFICES ASSUME u + 1 <= q PROVE FALSE
    BY <1>2, <1>3
  <2>1. (u + 1) * Interval <= q * Interval
    BY <1>2, <1>3, TimesMono
  <2>2. q * Interval \in Nat /\ (u + 1) * Interval \in Nat
    BY <1>2, <1>3, TimesMono
  <2> HIDE DEF q, u
  <2> QED BY <2>1, <2>2, <1>1, <1>2, <1>3, Basics
<1> DEFINE next == (q + 1) * Interval
<1>5. next \in Grid
  BY <1>2, <1>3, <1>4 DEF Grid
<1> HIDE DEF q
<1>6. next \in Nat /\ previous \in Nat /\ Clock(n) < next
  BY <1>2, <1>5, GridNat
<1>7. ~(previous + Interval > next)
  <2> HIDE DEF next
  <2> QED BY <1>1, <1>5, <1>6, SlotsApart, Basics
<1>8. NextSlot(n, previous) = next
  BY <1>7 DEF NextSlot, q
<1> HIDE DEF next
<1> QED BY <1>1, <1>5, <1>6, <1>8
-----------------------------------------------------------------------------
(* Types *)

\* A node whose attempt changes.
LEMMA AttemptChanges ==
  ASSUME node \in [Nodes -> NodeType], NEW n \in Nodes, NEW a \in AttemptType, Set(n, a)
  PROVE  /\ node' \in [Nodes -> NodeType]
         /\ node'[n].att = a /\ node'[n].state = node[n].state /\ node'[n].timer = node[n].timer
         /\ \A m \in Nodes \ {n} : node'[m] = node[m]
BY DEF Set, NodeType

LEMMA AttemptTyped ==
  ASSUME TypeOK, NEW n \in Nodes
  PROVE  Att(n) \in AttemptType /\ node[n].timer \in TimerType /\ node[n].state \in {"running", "stopped", "down"}
BY DEF TypeOK, NodeType, Att

\* The notes of an attempt are about slots.
LEMMA NotesTyped ==
  ASSUME TypeOK, NEW n \in Nodes, NEW k, NEW what \in Notes,
         NEW if \in BOOLEAN
  PROVE  /\ Pass(n, k) => passed' \in [Slots -> SUBSET Nodes]
         /\ Note(k, what, if) => why' \in [Slots -> SUBSET Notes]
BY DEF TypeOK, Pass, Note

LEMMA FaultTyped ==
  ASSUME TypeOK, NEW n \in Nodes, NEW kind, Fault(kind, n)
  PROVE  /\ faults' \in 0..MaxFaults
         /\ now' = now /\ lag' = lag /\ runs' = runs /\ passed' = passed
         /\ why' \in [Slots -> SUBSET Notes]
         /\ \A k \in Slots : why[k] \subseteq why'[k]
         /\ \A k \in Slots : k \in {Att(n).slot, node[n].timer.slot} => kind \in why'[k]
BY Basics DEF TypeOK, Fault, Notes
-----------------------------------------------------------------------------
(* The lock discipline, action by action *)

LEMMA NoAttemptTyped ==
  /\ NoAttempt \in AttemptType
  /\ NoAttempt.pc = "idle" /\ NoAttempt.slot = 0
  /\ NoAttempt.going = FALSE /\ NoAttempt.lost = FALSE /\ NoAttempt.sig = FALSE
BY GridNat DEF NoAttempt, AttemptType

LEMMA InitIInv == Init => IInv
<1> SUFFICES ASSUME Init PROVE IInv
  OBVIOUS
<1>1. now \in From..Until /\ lag \in Lags /\ faults \in 0..MaxFaults
  BY Basics DEF Init
<1>2. PICK offset \in [Nodes -> 0..(Window - 1)] :
        node = [n \in Nodes |-> [state |-> "running", att |-> NoAttempt,
                                 timer |-> Timer(NextSlot(n, 0), offset[n])]]
  BY DEF Init
<1>3. ASSUME NEW n \in Nodes
      PROVE  /\ NextSlot(n, 0) \in Grid /\ NextSlot(n, 0) > 0 /\ NextSlot(n, 0) \in Nat
             /\ offset[n] \in Nat /\ offset[n] < Window
             /\ Timer(NextSlot(n, 0), offset[n]) \in TimerType
  <2>1. lag[n] \in 0..Window
    BY <1>1, JobAssumption
  <2>2. NextSlot(n, 0) \in Grid /\ NextSlot(n, 0) > 0 /\ NextSlot(n, 0) \in Nat
    <3>1. Clock(n) \in Nat /\ Clock(n) <= Until
      BY <1>1, <2>1, Basics DEF Clock
    <3>2. 0 \in Grid /\ 0 <= Clock(n)
      BY <3>1, GridNat
    <3>3. NextSlot(n, 0) \in Grid /\ 0 < NextSlot(n, 0)
      BY <3>1, <3>2, ScheduleGrid
    <3> QED BY <3>3, GridNat
  <2>3. offset[n] \in Nat /\ offset[n] < Window
    BY Basics
  <2> QED BY <2>2, <2>3 DEF Timer, TimerType
<1>5. TypeOK
  BY <1>1, <1>2, <1>3, NoAttemptTyped DEF Init, TypeOK, NodeType
<1>6. ASSUME NEW n \in Nodes PROVE NodeKept(n)
  <2>1. TimerKept(n)
    <3>1. /\ node[n].timer.slot = NextSlot(n, 0)
          /\ node[n].timer.at = NextSlot(n, 0) + offset[n]
          /\ Att(n).slot = 0
      BY <1>2 DEF Att, Timer, NoAttempt
    <3> QED BY <1>3, <3>1, Basics DEF TimerKept
  <2>2. Att(n) = NoAttempt /\ lock # n
    BY <1>2, Basics DEF Init, Att
  <2>3. node[n].state = "running"
    BY <1>2
  <2> QED
    BY <2>1, <2>2, <2>3, NoAttemptTyped DEF NodeKept, AttemptKept, RunKept, LeaseKept, Leasing
<1> QED BY <1>5, <1>6 DEF IInv

\* What another node does leaves node m as it was.
LEMMA OthersKept ==
  ASSUME TypeOK, TypeOK', NEW m \in Nodes, NodeKept(m), node'[m] = node[m],
         now <= now', lag' = lag, lock' = m <=> lock = m,
         \A k \in Slots : why[k] \subseteq why'[k]
  PROVE  NodeKept(m)'
<1>1. Clock(m) \in Nat /\ Clock(m)' \in Nat /\ Clock(m) <= Clock(m)'
  BY Clocks, Basics DEF TypeOK, Clock
<1>2. Att(m)' = Att(m) /\ Att(m) \in AttemptType
  BY AttemptTyped DEF Att
<1>3. AttemptKept(m)'
  BY <1>1, <1>2 DEF NodeKept, AttemptKept, AttemptType
<1>4. LeaseKept(m)'
  BY <1>2 DEF NodeKept, AttemptKept, LeaseKept, NoAttempt, Leasing
<1> QED BY <1>2, <1>3, <1>4 DEF NodeKept, TimerKept, RunKept

LEMMA TickStep == IInv /\ Tick => IInv'
<1> SUFFICES ASSUME IInv, Tick PROVE IInv'
  OBVIOUS
<1>1. TypeOK'
  BY Basics DEF IInv, Tick, TypeOK, ghosts
<1> QED BY <1>1, OthersKept, Basics DEF IInv, Tick, ghosts, TypeOK

\* The attempt of one node goes on, or ends.
LEMMA AttemptStep ==
  ASSUME IInv, NEW n \in Nodes, NEW a \in AttemptType, Set(n, a),
         now' = now, lag' = lag, faults' \in 0..MaxFaults,
         runs' \in [Slots -> Nat], passed' \in [Slots -> SUBSET Nodes],
         why' \in [Slots -> SUBSET Notes],
         \A k \in Slots : why[k] \subseteq why'[k],
         lock' = lock \/ (lock = n /\ lock' = None) \/ (lock = None /\ lock' = n),
         Att(n).pc # "idle",
         \/ a = NoAttempt
         \/ a.pc # "idle" /\ a.slot = Att(n).slot /\ a.due = Att(n).due,
         a.pc = "run" => a.going,
         a.pc \in {"acquire", "leased"} => ~a.going /\ ~a.sig,
         a.going /\ ~a.sig => a.pc = "run" /\ node[n].state = "running",
         lock' = n => a.pc \in Leasing,
         a.pc \in Leasing => lock' = n \/ "lost" \in why'[a.slot],
         a.lost => a.pc # "idle" /\ "lost" \in why'[a.slot]
  PROVE  IInv'
<1>1. /\ node' \in [Nodes -> NodeType]
      /\ node'[n].att = a /\ node'[n].state = node[n].state /\ node'[n].timer = node[n].timer
      /\ \A m \in Nodes \ {n} : node'[m] = node[m]
  BY AttemptChanges DEF IInv, TypeOK
<1>2. TypeOK'
  BY <1>1 DEF IInv, TypeOK
<1>3. NodeKept(n)'
  <2>1. Att(n)' = a /\ Clock(n)' = Clock(n)
    BY <1>1 DEF Att, Clock
  <2>2. NodeKept(n)
    BY DEF IInv
  <2>3. NoAttempt.pc = "idle" /\ NoAttempt.slot = 0 /\ NoAttempt.going = FALSE
    BY DEF NoAttempt
  <2>4. Att(n).slot \in Nat /\ node[n].timer.slot \in Nat
    BY AttemptTyped, GridNat DEF IInv, AttemptType, TimerType
  <2>5. TimerKept(n)'
    BY <1>1, <2>1, <2>2, <2>3, <2>4 DEF NodeKept, TimerKept
  <2>6. AttemptKept(n)'
    BY <1>1, <2>1, <2>2, <2>3 DEF NodeKept, AttemptKept
  <2>7. RunKept(n)'
    BY <1>1, <2>1, <2>3 DEF RunKept
  <2>8. LeaseKept(n)'
    BY <1>1, <2>1, <2>3 DEF LeaseKept
  <2> QED BY <2>5, <2>6, <2>7, <2>8 DEF NodeKept
<1>4. \A m \in Nodes \ {n} : NodeKept(m)'
  BY <1>1, <1>2, OthersKept, Basics DEF IInv, TypeOK
<1> QED BY <1>2, <1>3, <1>4 DEF IInv

LEMMA SettleStep == ASSUME IInv, NEW n \in Nodes, settle(n) PROVE IInv'
<1> DEFINE a == [Att(n) EXCEPT !.going = FALSE, !.pc = IF @ = "run" THEN "hold" ELSE @]
<1>1. a \in AttemptType /\ Att(n) \in AttemptType
  BY AttemptTyped DEF IInv, AttemptType
<1>2. /\ a.going = FALSE /\ a.sig = Att(n).sig /\ a.slot = Att(n).slot /\ a.due = Att(n).due
      /\ a.lost = Att(n).lost /\ a.pc = IF Att(n).pc = "run" THEN "hold" ELSE Att(n).pc
  BY <1>1 DEF AttemptType
<1>3. Set(n, a) /\ UNCHANGED <<now, lag, faults, lock, runs, passed, why>>
  BY DEF settle, env, ghosts
<1>4. NodeKept(n) /\ Att(n).going /\ node[n].state # "down"
  BY AttemptTyped DEF IInv, settle, NodeKept, AttemptKept, NoAttempt
<1> HIDE DEF a
<1> QED
  BY <1>1, <1>2, <1>3, <1>4, AttemptStep
  DEF IInv, TypeOK, NodeKept, AttemptKept, RunKept, LeaseKept, NoAttempt, Leasing

LEMMA ExecuteStep == ASSUME IInv, NEW n \in Nodes, execute(n) PROVE IInv'
<1> DEFINE a == [Att(n) EXCEPT !.pc = "hold", !.sig = TRUE]
<1>1. a \in AttemptType /\ Att(n) \in AttemptType
  BY AttemptTyped DEF IInv, AttemptType
<1>2. /\ a.pc = "hold" /\ a.sig = TRUE /\ a.going = Att(n).going /\ a.slot = Att(n).slot
      /\ a.due = Att(n).due /\ a.lost = Att(n).lost
  BY <1>1 DEF AttemptType
<1>3. Set(n, a) /\ UNCHANGED <<now, lag, faults, lock, runs, passed, why>>
  BY DEF execute, env, ghosts
<1>4. NodeKept(n) /\ Att(n).pc = "run" /\ node[n].state # "down"
  BY DEF IInv, execute, NodeKept, AttemptKept
<1> HIDE DEF a
<1> QED
  BY <1>1, <1>2, <1>3, <1>4, AttemptStep DEF IInv, TypeOK, NodeKept, LeaseKept, Leasing

LEMMA HoldStep == ASSUME IInv, NEW n \in Nodes, hold(n) PROVE IInv'
<1> DEFINE a == [Att(n) EXCEPT !.pc = "release"]
<1>1. a \in AttemptType /\ Att(n) \in AttemptType
  BY AttemptTyped DEF IInv, AttemptType
<1>2. /\ a.pc = "release" /\ a.sig = Att(n).sig /\ a.going = Att(n).going
      /\ a.slot = Att(n).slot /\ a.due = Att(n).due /\ a.lost = Att(n).lost
  BY <1>1 DEF AttemptType
<1>3. Set(n, a) /\ UNCHANGED <<now, lag, faults, lock, runs, passed, why>>
  BY DEF hold, env, ghosts
<1>4. NodeKept(n) /\ Att(n).pc = "hold"
  BY DEF IInv, hold
<1> HIDE DEF a
<1> QED
  BY <1>1, <1>2, <1>3, <1>4, AttemptStep DEF IInv, TypeOK, NodeKept, RunKept, LeaseKept, Leasing

LEMMA AbandonStep == ASSUME IInv, NEW n \in Nodes, abandon(n) PROVE IInv'
<1> DEFINE a == [Att(n) EXCEPT !.pc = "release"]
<1>1. a \in AttemptType /\ Att(n) \in AttemptType
  BY AttemptTyped DEF IInv, AttemptType
<1>2. /\ a.pc = "release" /\ a.sig = Att(n).sig /\ a.going = Att(n).going
      /\ a.slot = Att(n).slot /\ a.due = Att(n).due /\ a.lost = Att(n).lost
  BY <1>1 DEF AttemptType
<1>3. Set(n, a) /\ UNCHANGED <<now, lag, faults, lock, runs, passed, why>>
  BY DEF abandon, env, ghosts
<1>4. NodeKept(n) /\ Att(n).pc = "run" /\ node[n].state = "stopped"
  BY DEF IInv, abandon, Stopping
<1> HIDE DEF a
<1> QED
  BY <1>1, <1>2, <1>3, <1>4, AttemptStep DEF IInv, TypeOK, NodeKept, RunKept, LeaseKept, Leasing

LEMMA ReleaseStep == ASSUME IInv, NEW n \in Nodes, release(n) PROVE IInv'
<1> DEFINE a == [Att(n) EXCEPT !.pc = "settle"]
<1>1. a \in AttemptType /\ Att(n) \in AttemptType
  BY AttemptTyped DEF IInv, AttemptType
<1>2. /\ a.pc = "settle" /\ a.sig = Att(n).sig /\ a.going = Att(n).going
      /\ a.slot = Att(n).slot /\ a.due = Att(n).due /\ a.lost = Att(n).lost
  BY <1>1 DEF AttemptType
<1>3. /\ Set(n, a) /\ UNCHANGED <<now, lag, faults, runs, passed, why>>
      /\ lock' = IF lock = n THEN None ELSE lock
  BY DEF release, env, ghosts
<1>4. NodeKept(n) /\ Att(n).pc = "release"
  BY DEF IInv, release
<1> HIDE DEF a
<1> QED
  BY <1>1, <1>2, <1>3, <1>4, AttemptStep, Basics
  DEF IInv, TypeOK, NodeKept, RunKept, LeaseKept, Leasing

LEMMA FinishedStep == ASSUME IInv, NEW n \in Nodes, finished(n) PROVE IInv'
<1>1. Set(n, NoAttempt) /\ UNCHANGED <<now, lag, faults, lock, runs, passed, why>>
  BY DEF finished, env, ghosts
<1>2. NodeKept(n) /\ Att(n).pc = "settle" /\ lock # n
  BY DEF IInv, finished, NodeKept, AttemptKept, LeaseKept, Leasing
<1> QED
  BY <1>1, <1>2, NoAttemptTyped, AttemptStep DEF IInv, TypeOK, Leasing

LEMMA OnErrorStep == ASSUME IInv, NEW n \in Nodes, onError(n) PROVE IInv'
<1> DEFINE a == [Att(n) EXCEPT !.lost = TRUE]
<1>1. a \in AttemptType /\ Att(n) \in AttemptType
  BY AttemptTyped DEF IInv, AttemptType
<1>2. /\ a.pc = Att(n).pc /\ a.sig = Att(n).sig /\ a.going = Att(n).going
      /\ a.slot = Att(n).slot /\ a.due = Att(n).due
  BY <1>1 DEF AttemptType
<1>3. Set(n, a) /\ UNCHANGED <<now, lag, faults, lock, runs, passed, why>>
  BY DEF onError, env, ghosts
<1>4. NodeKept(n) /\ Att(n).pc \in {"leased", "run", "hold"} /\ lock # n
  BY DEF IInv, onError
<1> HIDE DEF a
<1> QED
  BY <1>1, <1>2, <1>3, <1>4, AttemptStep DEF IInv, TypeOK, NodeKept, RunKept, LeaseKept, Leasing

LEMMA TryAcquireStep == ASSUME IInv, NEW n \in Nodes, tryAcquire(n) PROVE IInv'
<1>1. NodeKept(n) /\ Att(n).pc = "acquire" /\ lock # n /\ Att(n).slot \in Slots
  BY DEF IInv, tryAcquire, NodeKept, AttemptKept, LeaseKept, Leasing
<1>2. CASE /\ lock = None /\ lock' = n /\ Set(n, [Att(n) EXCEPT !.pc = "leased"])
           /\ Note(Att(n).slot, "tardy", Tardy(n)) /\ UNCHANGED <<faults, passed, now, lag, runs>>
  <2> DEFINE a == [Att(n) EXCEPT !.pc = "leased"]
  <2>1. a \in AttemptType /\ Att(n) \in AttemptType
    BY AttemptTyped DEF IInv, AttemptType
  <2>2. /\ a.pc = "leased" /\ a.sig = Att(n).sig /\ a.going = Att(n).going
        /\ a.slot = Att(n).slot /\ a.due = Att(n).due /\ a.lost = Att(n).lost
    BY <2>1 DEF AttemptType
  <2>3. Set(n, a)
    BY <1>2
  <2>4. why' \in [Slots -> SUBSET Notes] /\ \A k \in Slots : why[k] \subseteq why'[k]
    BY <1>2 DEF IInv, TypeOK, Note, Notes
  <2> HIDE DEF a
  <2> QED
    BY <1>1, <1>2, <2>1, <2>2, <2>3, <2>4, AttemptStep
    DEF IInv, TypeOK, NodeKept, RunKept, LeaseKept, Leasing
<1>3. CASE /\ Set(n, NoAttempt) /\ Pass(n, Att(n).slot) /\ faults' \in 0..MaxFaults
           /\ UNCHANGED <<lock, now, lag, runs>>
           /\ \E what \in Notes, if \in BOOLEAN : Note(Att(n).slot, what, if)
  <2>1. why' \in [Slots -> SUBSET Notes] /\ \A k \in Slots : why[k] \subseteq why'[k]
    BY <1>3 DEF IInv, TypeOK, Note
  <2>2. passed' \in [Slots -> SUBSET Nodes]
    BY <1>3 DEF IInv, TypeOK, Pass
  <2> QED
    BY <1>1, <1>3, <2>1, <2>2, NoAttemptTyped, AttemptStep DEF IInv, TypeOK, Leasing
<1>4. CASE /\ Set(n, NoAttempt) /\ Pass(n, Att(n).slot) /\ UNCHANGED <<faults, lock, now, lag, runs>>
           /\ Note(Att(n).slot, "overrun", Overrun(lock, Att(n).slot))
  <2>1. Overrun(lock, Att(n).slot) \in BOOLEAN /\ "overrun" \in Notes
    BY DEF Overrun, Notes
  <2> QED BY <1>3, <1>4, <2>1 DEF IInv, TypeOK
<1>5. CASE /\ "error" \in Faults /\ faults < MaxFaults /\ faults' = faults + 1
           /\ Set(n, NoAttempt) /\ Pass(n, Att(n).slot) /\ Note(Att(n).slot, "error", TRUE)
           /\ UNCHANGED <<lock, now, lag, runs>>
  <2>1. faults' \in 0..MaxFaults /\ "error" \in Notes
    BY <1>5, Basics DEF IInv, TypeOK, Notes
  <2> QED BY <1>3, <1>5, <2>1
<1> QED
  BY <1>2, <1>4, <1>5 DEF tryAcquire

LEMMA BeginStep == ASSUME IInv, NEW n \in Nodes, begin(n) PROVE IInv'
<1>1. NodeKept(n) /\ Att(n).pc = "leased" /\ Att(n).slot \in Slots /\ Att(n) \in AttemptType
  BY AttemptTyped DEF IInv, begin, NodeKept, AttemptKept
<1>2. Clock(n) \in Nat /\ runs \in [Slots -> Nat]
  BY Clocks DEF IInv, TypeOK
<1>3. CASE MayRun(n) /\ Set(n, [Att(n) EXCEPT !.pc = "run", !.going = TRUE, !.since = Clock(n)])
           /\ runs' = [runs EXCEPT ![Att(n).slot] = @ + 1]
           /\ UNCHANGED <<passed, why, now, lag, faults, lock>>
  <2> DEFINE a == [Att(n) EXCEPT !.pc = "run", !.going = TRUE, !.since = Clock(n)]
  <2>1. a \in AttemptType
    BY <1>1, <1>2 DEF AttemptType
  <2>2. /\ a.pc = "run" /\ a.sig = Att(n).sig /\ a.going = TRUE
        /\ a.slot = Att(n).slot /\ a.due = Att(n).due /\ a.lost = Att(n).lost
    BY <1>1 DEF AttemptType
  <2>3. Set(n, a) /\ runs' \in [Slots -> Nat]
    BY <1>1, <1>2, <1>3
  <2>4. node[n].state = "running"
    BY <1>1, <1>3, AttemptTyped DEF IInv, MayRun, Stopping, NodeKept, AttemptKept
  <2> HIDE DEF a
  <2> QED
    BY <1>1, <1>3, <2>1, <2>2, <2>3, <2>4, AttemptStep
    DEF IInv, TypeOK, NodeKept, LeaseKept, Leasing
<1>4. CASE /\ Set(n, [Att(n) EXCEPT !.pc = "release"])
           /\ Pass(n, Att(n).slot) /\ Note(Att(n).slot, "closed", TRUE)
           /\ UNCHANGED <<runs, now, lag, faults, lock>>
  <2> DEFINE a == [Att(n) EXCEPT !.pc = "release"]
  <2>1. a \in AttemptType
    BY <1>1 DEF AttemptType
  <2>2. /\ a.pc = "release" /\ a.sig = Att(n).sig /\ a.going = Att(n).going
        /\ a.slot = Att(n).slot /\ a.due = Att(n).due /\ a.lost = Att(n).lost
    BY <1>1 DEF AttemptType
  <2>3. Set(n, a)
    BY <1>4
  <2>4. why' \in [Slots -> SUBSET Notes] /\ \A k \in Slots : why[k] \subseteq why'[k]
    BY <1>4 DEF IInv, TypeOK, Note, Notes
  <2>5. passed' \in [Slots -> SUBSET Nodes]
    BY <1>4 DEF IInv, TypeOK, Pass
  <2> HIDE DEF a
  <2> QED
    BY <1>1, <1>4, <2>1, <2>2, <2>3, <2>4, <2>5, AttemptStep
    DEF IInv, TypeOK, NodeKept, RunKept, LeaseKept, Leasing
<1> QED
  BY <1>1, <1>3, <1>4 DEF begin, env

LEMMA WakeStep == ASSUME IInv, NEW n \in Nodes, wake(n) PROVE IInv'
<1> DEFINE t == node[n].timer
           busy == Att(n).pc # "idle"
           fresh == [NoAttempt EXCEPT !.pc = "acquire", !.slot = t.slot, !.due = t.at]
           a == IF busy THEN Att(n) ELSE fresh
<1>1. PICK offset \in 0..(Window - 1) :
        /\ node[n].state = "running" /\ Clock(n) >= t.at
        /\ node' = [node EXCEPT ![n].timer = Timer(NextSlot(n, t.slot), offset), ![n].att = a]
        /\ IF busy THEN Pass(n, t.slot) ELSE UNCHANGED passed
        /\ Note(t.slot, "overrun", busy /\ Overrun(n, t.slot))
        /\ UNCHANGED <<now, lag, faults, lock, runs>>
  BY DEF wake, env, Att
<1> DEFINE tt == Timer(NextSlot(n, t.slot), offset)
<1>2. NodeKept(n) /\ Att(n) \in AttemptType /\ t \in TimerType
  BY AttemptTyped DEF IInv
<1>3. Clock(n) \in Nat /\ Clock(n) <= Until
  BY Clocks DEF IInv
<1>4. /\ t.slot \in Grid /\ t.slot \in Nat /\ t.at \in Nat /\ t.slot > 0
      /\ t.slot <= t.at /\ t.at < t.slot + Window /\ Att(n).slot < t.slot
  BY <1>1, <1>2, GridNat DEF NodeKept, TimerKept, TimerType
<1>5. t.slot \in Slots
  BY <1>1, <1>3, <1>4, BegunSlot, Basics
<1> DEFINE next == NextSlot(n, t.slot)
<1>6. next \in Grid /\ next \in Nat /\ t.slot < next
  BY <1>1, <1>3, <1>4, ScheduleGrid, GridNat
<1>7. /\ tt \in TimerType /\ tt.slot = next /\ next <= tt.at /\ tt.at < next + Window
  <2> HIDE DEF next
  <2>1. tt = [slot |-> next, at |-> next + offset]
    BY DEF Timer, next
  <2> HIDE DEF tt
  <2> QED BY <1>6, <2>1, Basics DEF TimerType
<1>8. /\ fresh \in AttemptType /\ fresh.pc = "acquire" /\ fresh.slot = t.slot /\ fresh.due = t.at
      /\ fresh.going = FALSE /\ fresh.lost = FALSE /\ fresh.sig = FALSE
  BY <1>4 DEF NoAttempt, AttemptType
<1>9. a \in AttemptType
  BY <1>2, <1>8
<1> HIDE DEF tt, fresh, next
<1>10. /\ node' \in [Nodes -> NodeType]
       /\ node'[n].timer = tt /\ node'[n].att = a /\ node'[n].state = "running"
       /\ \A m \in Nodes \ {n} : node'[m] = node[m]
  <2> HIDE DEF a
  <2>1. node' = [node EXCEPT ![n].timer = tt, ![n].att = a]
    BY <1>1 DEF tt
  <2>2. node[n].state = "running" /\ node \in [Nodes -> NodeType] /\ tt \in TimerType
    BY <1>1, <1>7 DEF IInv, TypeOK
  <2> HIDE DEF t
  <2> QED BY <2>1, <2>2, <1>9 DEF NodeType
<1>11. why' \in [Slots -> SUBSET Notes] /\ \A k \in Slots : why[k] \subseteq why'[k]
  BY <1>1 DEF IInv, TypeOK, Note, Notes
<1>12. passed' \in [Slots -> SUBSET Nodes]
  BY <1>1 DEF IInv, TypeOK, Pass
<1>13. TypeOK'
  BY <1>1, <1>10, <1>11, <1>12 DEF IInv, TypeOK
<1>14. NodeKept(n)'
  <2>1. Att(n)' = a /\ Clock(n)' = Clock(n) /\ lock' = lock
    BY <1>1, <1>10 DEF Att, Clock
  <2>2. TimerKept(n)'
    <3>1. a.slot \in Nat /\ a.slot <= t.slot
      <4>1. Att(n).slot \in Nat
        BY <1>2, GridNat DEF AttemptType
      <4> QED BY <4>1, <1>4, <1>8
    <3> QED BY <3>1, <2>1, <1>4, <1>6, <1>7, <1>10 DEF TimerKept
  <2>3. AttemptKept(n)'
    BY <1>1, <1>2, <1>4, <1>5, <1>8, <1>10, <2>1 DEF NodeKept, AttemptKept
  <2>4. RunKept(n)'
    BY <1>1, <1>2, <1>8, <1>10, <2>1 DEF NodeKept, RunKept
  <2>5. LeaseKept(n)'
    <3>1. CASE busy
      BY <3>1, <1>2, <1>10, <1>11, <2>1, <1>1 DEF NodeKept, AttemptKept, LeaseKept
    <3>2. CASE ~busy
      BY <3>2, <1>1, <1>2, <1>8, <1>10, <2>1 DEF NodeKept, LeaseKept, Leasing
    <3> QED BY <3>1, <3>2
  <2> QED BY <2>2, <2>3, <2>4, <2>5 DEF NodeKept
<1>15. \A m \in Nodes \ {n} : NodeKept(m)'
  BY <1>1, <1>10, <1>11, <1>13, OthersKept, Basics DEF IInv, TypeOK
<1> QED BY <1>13, <1>14, <1>15 DEF IInv

LEMMA StopStep == ASSUME IInv, NEW n \in Nodes, stop(n) PROVE IInv'
<1> DEFINE a == [Att(n) EXCEPT !.sig = @ \/ Att(n).going]
<1>1. NodeKept(n) /\ Att(n) \in AttemptType /\ node[n] \in NodeType
  BY AttemptTyped DEF IInv, TypeOK
<1>2. /\ a \in AttemptType /\ a.sig = (Att(n).sig \/ Att(n).going)
      /\ a.pc = Att(n).pc /\ a.going = Att(n).going
      /\ a.slot = Att(n).slot /\ a.due = Att(n).due /\ a.lost = Att(n).lost
  BY <1>1 DEF AttemptType
<1>3. NoTimer \in TimerType
  BY GridNat DEF NoTimer, TimerType
<1>4. /\ node' \in [Nodes -> NodeType]
      /\ node'[n].att = a /\ node'[n].state = "stopped"
      /\ \A m \in Nodes \ {n} : node'[m] = node[m]
  BY <1>1, <1>2, <1>3 DEF IInv, TypeOK, stop, NodeType, Att
<1>5. /\ UNCHANGED <<now, lag, lock, runs, passed>> /\ faults' \in 0..MaxFaults
      /\ why' \in [Slots -> SUBSET Notes] /\ \A k \in Slots : why[k] \subseteq why'[k]
  BY FaultTyped DEF IInv, stop
<1>6. TypeOK'
  BY <1>4, <1>5 DEF IInv, TypeOK
<1> HIDE DEF a
<1>7. NodeKept(n)'
  <2>1. Att(n)' = a /\ Clock(n)' = Clock(n) /\ lock' = lock
    BY <1>4, <1>5 DEF Att, Clock
  <2>2. TimerKept(n)'
    BY <1>4 DEF TimerKept
  <2>3. AttemptKept(n)'
    BY <1>1, <1>2, <1>4, <2>1 DEF NodeKept, AttemptKept
  <2>4. RunKept(n)'
    BY <1>1, <1>2, <1>4, <2>1 DEF NodeKept, RunKept
  <2>5. LeaseKept(n)'
    BY <1>1, <1>2, <1>4, <1>5, <2>1 DEF NodeKept, AttemptKept, LeaseKept, Leasing, stop
  <2> QED BY <2>2, <2>3, <2>4, <2>5 DEF NodeKept
<1>8. \A m \in Nodes \ {n} : NodeKept(m)'
  BY <1>4, <1>5, <1>6, OthersKept, Basics DEF IInv, TypeOK
<1> QED BY <1>6, <1>7, <1>8 DEF IInv

LEMMA ConnectionLostStep == ASSUME IInv, NEW n \in Nodes, connectionLost(n) PROVE IInv'
<1>1. NodeKept(n) /\ Att(n) \in AttemptType /\ lock = n /\ node[n].state # "down" /\ node' = node
  BY AttemptTyped DEF IInv, connectionLost
<1>2. /\ UNCHANGED <<now, lag, runs, passed>> /\ faults' \in 0..MaxFaults
      /\ why' \in [Slots -> SUBSET Notes] /\ \A k \in Slots : why[k] \subseteq why'[k]
      /\ Att(n).slot \in Slots => "lost" \in why'[Att(n).slot]
  BY FaultTyped DEF IInv, connectionLost
<1>3. TypeOK' /\ lock' = None
  BY <1>1, <1>2 DEF IInv, TypeOK, connectionLost
<1>4. NodeKept(n)'
  <2>1. Att(n)' = Att(n) /\ Clock(n)' = Clock(n)
    BY <1>1, <1>2 DEF Att, Clock
  <2>2. LeaseKept(n)'
    BY <1>1, <1>2, <1>3, <2>1, Basics DEF NodeKept, AttemptKept, LeaseKept, Leasing
  <2> QED BY <1>1, <2>1, <2>2 DEF NodeKept, TimerKept, AttemptKept, RunKept
<1>5. \A m \in Nodes \ {n} : NodeKept(m)'
  BY <1>1, <1>2, <1>3, OthersKept, Basics DEF IInv, TypeOK
<1> QED BY <1>3, <1>4, <1>5 DEF IInv

LEMMA CrashStep == ASSUME IInv, NEW n \in Nodes, crash(n) PROVE IInv'
<1>1. NoTimer \in TimerType
  BY GridNat DEF NoTimer, TimerType
<1>2. /\ node' \in [Nodes -> NodeType]
      /\ node'[n].att = NoAttempt /\ node'[n].state = "down"
      /\ \A m \in Nodes \ {n} : node'[m] = node[m]
  BY <1>1, NoAttemptTyped DEF IInv, TypeOK, crash, NodeType
<1>3. /\ UNCHANGED <<now, lag, lock, runs, passed>> /\ faults' \in 0..MaxFaults
      /\ why' \in [Slots -> SUBSET Notes] /\ \A k \in Slots : why[k] \subseteq why'[k]
  BY FaultTyped DEF IInv, crash
<1>4. TypeOK'
  BY <1>2, <1>3 DEF IInv, TypeOK
<1>5. NodeKept(n)'
  BY <1>2, NoAttemptTyped DEF NodeKept, TimerKept, AttemptKept, RunKept, LeaseKept, Att, Leasing
<1>6. \A m \in Nodes \ {n} : NodeKept(m)'
  BY <1>2, <1>3, <1>4, OthersKept, Basics DEF IInv, TypeOK
<1> QED BY <1>4, <1>5, <1>6 DEF IInv

LEMMA ServerDropsStep == ASSUME IInv, NEW n \in Nodes, serverDrops(n) PROVE IInv'
<1>1. /\ NodeKept(n) /\ node[n].state = "down" /\ lock = n /\ lock' = None
      /\ UNCHANGED <<now, lag, faults, node, runs, passed, why>>
  BY DEF IInv, serverDrops, env, ghosts
<1>2. TypeOK'
  BY <1>1 DEF IInv, TypeOK
<1>3. NodeKept(n)'
  BY <1>1, Basics DEF NodeKept, TimerKept, AttemptKept, RunKept, LeaseKept, Att, Clock, Leasing
<1>4. \A m \in Nodes \ {n} : NodeKept(m)'
  BY <1>1, <1>2, OthersKept, Basics DEF IInv, TypeOK
<1> QED BY <1>2, <1>3, <1>4 DEF IInv

LEMMA StartStep == ASSUME IInv, NEW n \in Nodes, start(n) PROVE IInv'
<1>1. PICK offset \in 0..(Window - 1) :
        /\ node[n].state = "down" /\ lock # n
        /\ node' = [node EXCEPT ![n].state = "running", ![n].timer = Timer(NextSlot(n, 0), offset)]
        /\ UNCHANGED <<now, lag, faults, lock, runs, passed, why>>
  BY DEF start, env, ghosts
<1> DEFINE next == NextSlot(n, 0)
           tt == Timer(next, offset)
<1>2. next \in Grid /\ next \in Nat /\ 0 < next
  <2>1. Clock(n) \in Nat /\ Clock(n) <= Until /\ 0 \in Grid /\ 0 <= Clock(n)
    BY Clocks, GridNat DEF IInv
  <2>2. next \in Grid /\ 0 < next
    BY <2>1, ScheduleGrid
  <2> QED BY <2>2, GridNat
<1> HIDE DEF next
<1>3. /\ tt \in TimerType /\ tt.slot = next /\ next <= tt.at /\ tt.at < next + Window
  <2>1. tt = [slot |-> next, at |-> next + offset]
    BY DEF Timer, next
  <2> HIDE DEF tt
  <2> QED BY <1>2, <2>1, Basics DEF TimerType
<1>4. /\ node' \in [Nodes -> NodeType]
      /\ node'[n].att = node[n].att /\ node'[n].state = "running" /\ node'[n].timer = tt
      /\ \A m \in Nodes \ {n} : node'[m] = node[m]
  <2> HIDE DEF tt
  <2>1. node' = [node EXCEPT ![n].state = "running", ![n].timer = tt]
    BY <1>1 DEF tt, next
  <2> QED BY <2>1, <1>3 DEF IInv, TypeOK, NodeType
<1>5. TypeOK'
  BY <1>1, <1>4 DEF IInv, TypeOK
<1>6. NodeKept(n)'
  <2>1. NodeKept(n) /\ Att(n)' = Att(n) /\ Clock(n)' = Clock(n) /\ lock' # n /\ Att(n).pc = "idle"
    BY <1>1, <1>4 DEF IInv, NodeKept, AttemptKept, Att, Clock
  <2>2. TimerKept(n)'
    BY <1>2, <1>3, <1>4, <2>1 DEF TimerKept, NodeKept, AttemptKept
  <2> QED
    BY <1>4, <2>1, <2>2 DEF NodeKept, AttemptKept, RunKept, LeaseKept, Leasing
<1>7. \A m \in Nodes \ {n} : NodeKept(m)'
  BY <1>1, <1>4, <1>5, OthersKept, Basics DEF IInv, TypeOK
<1> QED BY <1>5, <1>6, <1>7 DEF IInv

LEMMA NextIInv == IInv /\ [Next]_vars => IInv'
<1> SUFFICES ASSUME IInv, [Next]_vars PROVE IInv'
  OBVIOUS
<1>1. CASE Tick
  BY <1>1, TickStep
<1>2. ASSUME NEW n \in Nodes, Step(n) PROVE IInv'
  BY <1>2, WakeStep, TryAcquireStep, BeginStep, SettleStep, ExecuteStep, HoldStep, ReleaseStep,
     FinishedStep, StopStep, AbandonStep, ConnectionLostStep, OnErrorStep, CrashStep,
     ServerDropsStep, StartStep DEF Step
<1>3. CASE UNCHANGED vars
  <2>1. TypeOK'
    BY <1>3 DEF vars, IInv, TypeOK
  <2> QED BY <1>3, <2>1, OthersKept, Basics DEF vars, IInv, TypeOK
<1> QED BY <1>1, <1>2, <1>3 DEF Next

LEMMA Inductive == Spec => []IInv
BY InitIInv, NextIInv, PTL DEF Spec

\* The lock is kept as the runner means it, on any number of nodes, whatever
\* the interval and the time limit and however often nodes crash, stop or lose
\* their connection: a run that was not told to stop holds the job's lock,
\* unless its connection dropped (wake, attempt, execute, release).
THEOREM LockKept == Spec => []LockDiscipline
<1>1. IInv => LockDiscipline
  BY DEF IInv, LockDiscipline, RunHoldsLock, NodeKept, AttemptKept, RunKept, LeaseKept, Leasing
<1> QED BY <1>1, Inductive, PTL
-----------------------------------------------------------------------------
(* One run per slot *)

\* A slot whose winner may have been deprived of its lock, or that somebody
\* came to too late for the clocks' disagreement.
Excused(k) ==
  why[k] \cap {"crash", "stop", "lost"} # {} \/ (Spread # 0 /\ "tardy" \in why[k])

\* The time slot k is kept locked is over by n's clock.
Closed(n, k) == Clock(n) >= k + 2 * Window

\* A node stops, or lets the lock go, in a slot that is excused or closed.
LateKept(n) ==
  /\ node[n].state = "stopped" /\ Att(n).pc # "idle" => "stop" \in why[Att(n).slot]
  /\ Att(n).pc = "release" => Excused(Att(n).slot) \/ Closed(n, Att(n).slot)

\* The winner of slot k still has the lock.
Won(k) == \E n \in Nodes : /\ lock = n /\ Att(n).slot = k
                           /\ Att(n).pc \in {"run", "hold", "release"}

\* Slot k is over: by somebody's clock, and by that of every node that has the
\* lock for it and has not begun.
Over(k) == /\ \E n \in Nodes : Closed(n, k)
           /\ \A m \in Nodes : Att(m).slot = k /\ Att(m).pc = "leased" => Closed(m, k)

OnceKept(k) == Excused(k) \/ runs[k] = 0 \/ (runs[k] = 1 /\ (Won(k) \/ Over(k)))

Once == (\A n \in Nodes : LateKept(n)) /\ (\A k \in Slots : OnceKept(k))

\* No clock is ahead of another by more than Spread.
LEMMA SpreadBounds ==
  ASSUME TypeOK, NEW m \in Nodes, NEW n \in Nodes
  PROVE  Spread \in Nat /\ lag[m] <= lag[n] + Spread
<1> DEFINE D == {d \in 0..Window : \A x, y \in Nodes : lag[x] <= lag[y] + d}
           R == {q \in Nat \X Nat : q[1] < q[2]}
<1>1. \A x \in Nodes : lag[x] \in 0..Window
  BY JobAssumption DEF TypeOK
<1>2. D \subseteq Nat /\ Window \in D
  BY <1>1, Basics
<1>3. IsWellFoundedOn(R, Nat)
  BY NatLessThanWellFounded DEF OpToRel
<1>4. PICK d \in D : \A c \in D : <<c, d>> \notin R
  <2> HIDE DEF D, R
  <2> QED BY <1>2, <1>3, WFMin
<1>5. \E x, y \in Nodes : lag[x] = lag[y] + d
  <2>1. CASE d = 0
    BY <2>1, <1>1
  <2>2. CASE d # 0
    <3>1. d - 1 \in 0..Window /\ d \in Nat /\ d - 1 \in Nat
      BY <2>2, Basics
    <3>2. d - 1 \notin D
      <4>1. <<d - 1, d>> \in R
        BY <3>1
      <4> HIDE DEF D, R
      <4> QED BY <4>1, <1>4
    <3>3. PICK x \in Nodes, y \in Nodes : ~(lag[x] <= lag[y] + (d - 1))
      BY <3>1, <3>2
    <3>4. lag[x] <= lag[y] + d
      OBVIOUS
    <3>5. lag[x] \in Nat /\ lag[y] \in Nat
      BY <1>1, Basics
    <3>6. lag[x] = lag[y] + d
      BY <3>1, <3>3, <3>4, <3>5
    <3> QED BY <3>6
  <2> QED BY <2>1, <2>2
<1>6. /\ Spread \in 0..Window
      /\ \A x, y \in Nodes : lag[x] <= lag[y] + Spread
  <2> DEFINE P(c) == /\ \E x, y \in Nodes : lag[x] = lag[y] + c
                     /\ \A x, y \in Nodes : lag[x] <= lag[y] + c
  <2>1. \E c \in 0..Window : P(c)
    BY <1>5
  <2>2. Spread = CHOOSE c \in 0..Window : P(c)
    BY DEF Spread
  <2> HIDE DEF P
  <2>3. Spread \in 0..Window /\ P(Spread)
    BY <2>1, <2>2
  <2> QED BY <2>3 DEF P
<1> QED BY <1>6, Basics

\* An excuse stays, and so does a closed slot.
LEMMA ExcusesStay ==
  ASSUME TypeOK, TypeOK', now <= now', lag' = lag, \A k \in Slots : why[k] \subseteq why'[k]
  PROVE  /\ Spread' = Spread
         /\ \A k \in Slots : Excused(k) => Excused(k)'
         /\ \A n \in Nodes, k \in Slots : Closed(n, k) => Closed(n, k)'
<1>1. Spread' = Spread
  BY DEF Spread
<1>2. \A k \in Slots : Excused(k) => Excused(k)'
  BY <1>1 DEF Excused
<1>3. ASSUME NEW n \in Nodes, NEW k \in Slots, Closed(n, k)
      PROVE  Closed(n, k)'
  <2>1. Clock(n) \in Nat /\ Clock(n)' \in Nat /\ Clock(n) <= Clock(n)'
    BY Clocks, Basics DEF TypeOK, Clock
  <2>2. k \in Nat
    BY GridNat
  <2> QED BY <1>3, <2>1, <2>2, Basics DEF Closed
<1> QED BY <1>1, <1>2, <1>3

\* A step that starts no run, takes no lock and lets none go unexcused.
LEMMA OnceFrame ==
  ASSUME TypeOK, TypeOK', \A k \in Slots : OnceKept(k),
         now <= now', lag' = lag, runs' = runs, \A k \in Slots : why[k] \subseteq why'[k],
         \A n \in Nodes, k \in Slots :
           lock = n /\ Att(n).slot = k /\ Att(n).pc \in {"run", "hold", "release"} =>
             \/ Excused(k)'
             \/ lock' = n /\ Att(n)'.slot = k /\ Att(n)'.pc \in {"run", "hold", "release"},
         \A n \in Nodes :
           Att(n)'.pc = "leased" => Att(n).pc = "leased" /\ Att(n)'.slot = Att(n).slot
  PROVE  \A k \in Slots : OnceKept(k)'
<1> SUFFICES ASSUME NEW k \in Slots, ~Excused(k)', runs[k] # 0
             PROVE  runs[k] = 1 /\ (Won(k)' \/ Over(k)')
  BY DEF OnceKept
<1>1. runs[k] = 1 /\ (Won(k) \/ Over(k))
  BY ExcusesStay DEF OnceKept
<1>2. CASE Won(k)
  BY <1>1, <1>2 DEF Won
<1>3. CASE Over(k)
  BY <1>1, <1>3, ExcusesStay DEF Over
<1> QED BY <1>1, <1>2, <1>3

\* What a step of node n leaves alone.
LEMMA StepFrame ==
  ASSUME IInv, NEW n \in Nodes, Step(n)
  PROVE  /\ now' = now /\ lag' = lag
         /\ \A m \in Nodes \ {n} : node'[m] = node[m] /\ Att(m)' = Att(m)
         /\ \A k \in Slots : why[k] \subseteq why'[k]
<1>1. now' = now /\ lag' = lag
  BY DEF Step, wake, tryAcquire, begin, settle, execute, hold, release, finished, stop, abandon,
         connectionLost, onError, crash, serverDrops, start, Fault, env
<1>2. \A m \in Nodes \ {n} : node'[m] = node[m]
  <2>1. node \in [Nodes -> NodeType]
    BY DEF IInv, TypeOK
  <2>2. \A a : Set(n, a) => \A m \in Nodes \ {n} : node'[m] = node[m]
    BY <2>1 DEF Set
  <2>3. CASE wake(n)
    BY <2>1, <2>3 DEF wake
  <2>4. CASE stop(n) \/ crash(n)
    BY <2>1, <2>4 DEF stop, crash
  <2>5. CASE start(n)
    BY <2>1, <2>5 DEF start
  <2>6. CASE connectionLost(n) \/ serverDrops(n)
    BY <2>6 DEF connectionLost, serverDrops
  <2>7. CASE tryAcquire(n) \/ begin(n) \/ settle(n) \/ execute(n) \/ hold(n)
    BY <2>2, <2>7 DEF tryAcquire, begin, settle, execute, hold
  <2>8. CASE release(n) \/ finished(n) \/ abandon(n) \/ onError(n)
    BY <2>2, <2>8 DEF release, finished, abandon, onError
  <2> QED BY <2>3, <2>4, <2>5, <2>6, <2>7, <2>8 DEF Step
<1>3. \A k \in Slots : why[k] \subseteq why'[k]
  <2>1. why \in [Slots -> SUBSET Notes]
    BY DEF IInv, TypeOK
  <2>2. \A k, what, if : Note(k, what, if) => \A x \in Slots : why[x] \subseteq why'[x]
    BY <2>1 DEF Note
  <2>3. \A kind : Fault(kind, n) => \A x \in Slots : why[x] \subseteq why'[x]
    BY <2>1 DEF Fault
  <2>4. CASE wake(n) \/ tryAcquire(n) \/ begin(n)
    BY <2>2, <2>4 DEF wake, tryAcquire, begin
  <2>5. CASE stop(n) \/ crash(n) \/ connectionLost(n)
    BY <2>3, <2>5 DEF stop, crash, connectionLost
  <2>6. CASE why' = why
    BY <2>6
  <2> QED
    BY <2>4, <2>5, <2>6 DEF Step, settle, execute, hold, release, finished, abandon, onError,
                            serverDrops, start, ghosts
<1> QED BY <1>1, <1>2, <1>3 DEF Att

\* Nothing another node does brings n past its lateness.
LEMMA LateFrame ==
  ASSUME TypeOK, TypeOK', NEW n \in Nodes, LateKept(n), NodeKept(n), node'[n] = node[n],
         now <= now', lag' = lag, \A k \in Slots : why[k] \subseteq why'[k]
  PROVE  LateKept(n)'
<1>1. Att(n)' = Att(n) /\ (Att(n).pc # "idle" => Att(n).slot \in Slots)
  BY DEF Att, NodeKept, AttemptKept
<1> QED BY <1>1, ExcusesStay DEF LateKept

LEMMA TickOnce == ASSUME IInv, IInv', Once, Tick PROVE Once'
<1>1. /\ lag' = lag /\ node' = node /\ lock' = lock /\ runs' = runs /\ why' = why /\ now <= now'
  BY Basics DEF Tick, ghosts, IInv, TypeOK
<1>2. \A n \in Nodes : LateKept(n)'
  BY <1>1, LateFrame DEF Once, IInv
<1>3. \A k \in Slots : OnceKept(k)'
  BY <1>1, OnceFrame DEF Once, IInv, Att
<1> QED BY <1>2, <1>3 DEF Once

\* Steps after which the same attempts have the lock for the same slots.
LEMMA QuietOnce ==
  ASSUME IInv, IInv', Once, NEW n \in Nodes, Step(n), runs' = runs,
         LateKept(n)',
         \A k \in Slots :
           lock = n /\ Att(n).slot = k /\ Att(n).pc \in {"run", "hold", "release"} =>
             \/ Excused(k)'
             \/ lock' = n /\ Att(n)'.slot = k /\ Att(n)'.pc \in {"run", "hold", "release"},
         \A m \in Nodes \ {n} : lock = m => lock' = m,
         Att(n)'.pc = "leased" => Att(n).pc = "leased" /\ Att(n)'.slot = Att(n).slot
  PROVE  Once'
<1>1. /\ now' = now /\ now <= now' /\ lag' = lag
      /\ \A m \in Nodes \ {n} : node'[m] = node[m] /\ Att(m)' = Att(m)
      /\ \A k \in Slots : why[k] \subseteq why'[k]
  BY StepFrame, Basics DEF IInv, TypeOK
<1>2. \A m \in Nodes : LateKept(m)'
  BY <1>1, LateFrame DEF Once, IInv
<1>3. \A k \in Slots : OnceKept(k)'
  BY <1>1, OnceFrame DEF Once, IInv
<1> QED BY <1>2, <1>3 DEF Once

\* What the steps of an attempt do to its node, in terms of fields.
LEMMA AttemptFields ==
  ASSUME IInv, NEW n \in Nodes
  PROVE  /\ settle(n) => /\ Att(n)' = [Att(n) EXCEPT !.going = FALSE,
                                        !.pc = IF @ = "run" THEN "hold" ELSE @]
                         /\ node'[n].state = node[n].state
         /\ execute(n) => /\ Att(n)' = [Att(n) EXCEPT !.pc = "hold", !.sig = TRUE]
                          /\ node'[n].state = node[n].state
         /\ hold(n) \/ abandon(n) => /\ Att(n)' = [Att(n) EXCEPT !.pc = "release"]
                                     /\ node'[n].state = node[n].state
         /\ release(n) => /\ Att(n)' = [Att(n) EXCEPT !.pc = "settle"]
                          /\ node'[n].state = node[n].state
         /\ finished(n) => Att(n)' = NoAttempt /\ node'[n].state = node[n].state
         /\ onError(n) => /\ Att(n)' = [Att(n) EXCEPT !.lost = TRUE]
                          /\ node'[n].state = node[n].state
<1>1. node \in [Nodes -> NodeType]
  BY DEF IInv, TypeOK
<1>2. \A a : Set(n, a) => node'[n].att = a /\ node'[n].state = node[n].state
  BY <1>1 DEF Set, NodeType
<1> QED
  BY <1>2 DEF settle, execute, hold, abandon, release, finished, onError, Att

LEMMA AttemptOnce ==
  ASSUME IInv, IInv', Once, NEW n \in Nodes,
         settle(n) \/ execute(n) \/ hold(n) \/ abandon(n) \/ finished(n) \/ onError(n)
  PROVE  Once'
<1>1. /\ Step(n) /\ runs' = runs /\ lock' = lock /\ why' = why /\ now' = now /\ lag' = lag
      /\ Att(n) \in AttemptType
  BY AttemptTyped DEF Step, settle, execute, hold, abandon, finished, onError, ghosts, env, IInv
<1>2. NodeKept(n) /\ LateKept(n)
  BY DEF IInv, Once
<1>3. /\ node'[n].state = node[n].state
      /\ \/ Att(n)' = NoAttempt /\ Att(n).pc = "settle"
         \/ Att(n)'.slot = Att(n).slot /\ Att(n)'.pc = Att(n).pc /\ Att(n).pc # "idle"
         \/ Att(n)'.slot = Att(n).slot /\ Att(n)'.pc = "hold" /\ Att(n).pc = "run"
         \/ /\ Att(n)'.slot = Att(n).slot /\ Att(n)'.pc = "release"
            /\ \/ Att(n).pc = "hold" /\ HoldOver(n)
               \/ Att(n).pc = "run" /\ node[n].state = "stopped"
  <2>1. CASE settle(n)
    BY <2>1, <1>1, <1>2, AttemptFields DEF AttemptType, settle, NodeKept, AttemptKept
  <2>2. CASE execute(n)
    BY <2>2, <1>1, AttemptFields DEF AttemptType, execute
  <2>3. CASE hold(n) \/ abandon(n)
    BY <2>3, <1>1, AttemptFields DEF AttemptType, hold, abandon, Stopping
  <2>4. CASE finished(n) \/ onError(n)
    BY <2>4, <1>1, AttemptFields DEF AttemptType, finished, onError
  <2> QED BY <2>1, <2>2, <2>3, <2>4
<1>4. LateKept(n)'
  <2>1. \A k \in Slots : Excused(k)' = Excused(k) /\ Closed(n, k)' = Closed(n, k)
    BY <1>1 DEF Excused, Spread, Closed, Clock
  <2>2. Att(n).pc # "idle" => Att(n).slot \in Slots
    BY <1>2 DEF NodeKept, AttemptKept
  <2>3. Att(n).pc = "hold" /\ HoldOver(n) => Excused(Att(n).slot) \/ Closed(n, Att(n).slot)
    BY <1>2, <2>2 DEF HoldOver, holdUntil, Stopping, Closed, Excused, LateKept, NodeKept, LeaseKept
  <2>4. Att(n).pc = "run" /\ node[n].state = "stopped" => Excused(Att(n).slot)
    BY <1>2 DEF LateKept, Excused
  <2> QED BY <1>1, <1>2, <1>3, <2>1, <2>2, <2>3, <2>4, NoAttemptTyped DEF LateKept
<1> QED BY <1>1, <1>2, <1>3, <1>4, QuietOnce, NoAttemptTyped

\* The winner lets the lock go only when its slot is excused or over.
LEMMA ReleaseOnce == ASSUME IInv, IInv', Once, NEW n \in Nodes, release(n) PROVE Once'
<1>1. /\ Step(n) /\ runs' = runs /\ why' = why /\ now' = now /\ lag' = lag
      /\ lock' = IF lock = n THEN None ELSE lock
      /\ Att(n) \in AttemptType /\ Att(n).pc = "release" /\ NodeKept(n) /\ LateKept(n)
  BY AttemptTyped DEF Step, release, ghosts, env, IInv, Once
<1>2. node'[n].state = node[n].state /\ Att(n)'.slot = Att(n).slot /\ Att(n)'.pc = "settle"
  BY <1>1, AttemptFields DEF release, AttemptType
<1>3. \A m \in Nodes \ {n} : node'[m] = node[m] /\ Att(m)' = Att(m)
  BY <1>1, StepFrame
<1>4. /\ \A k \in Slots : Excused(k)' = Excused(k)
      /\ \A m \in Nodes, k \in Slots : Closed(m, k)' = Closed(m, k)
  BY <1>1 DEF Excused, Spread, Closed, Clock
<1>5. \A m \in Nodes : LateKept(m)'
  <2>1. LateKept(n)'
    BY <1>1, <1>2, <1>4 DEF LateKept
  <2> QED BY <2>1, <1>1, <1>3, LateFrame, Basics DEF Once, IInv, TypeOK
<1>6. ASSUME NEW k \in Slots PROVE OnceKept(k)'
  <2> SUFFICES ASSUME ~Excused(k), runs[k] # 0 PROVE runs[k] = 1 /\ (Won(k)' \/ Over(k)')
    BY <1>1, <1>4 DEF OnceKept
  <2>1. runs[k] = 1 /\ (Won(k) \/ Over(k))
    BY DEF Once, OnceKept
  <2>2. CASE Over(k)
    BY <2>1, <2>2, <1>2, <1>3, <1>4 DEF Over
  <2>3. CASE Won(k)
    <3>1. PICK m \in Nodes : lock = m /\ Att(m).slot = k /\ Att(m).pc \in {"run", "hold", "release"}
      BY <2>3 DEF Won
    <3>2. CASE m # n
      BY <3>1, <3>2, <2>1, <1>1, <1>3 DEF Won
    <3>3. CASE m = n
      <4>1. Closed(n, k)
        BY <3>1, <3>3, <1>1 DEF LateKept
      <4>2. ASSUME NEW j \in Nodes, Att(j).slot = k PROVE Att(j).pc # "leased"
        BY <4>2, <3>1, <3>3 DEF IInv, NodeKept, LeaseKept, Leasing, Excused
      <4> QED BY <4>1, <4>2, <2>1, <1>2, <1>3, <1>4 DEF Over
    <3> QED BY <3>2, <3>3
  <2> QED BY <2>1, <2>2, <2>3
<1> QED BY <1>5, <1>6 DEF Once

\* Whoever takes the free lock of a slot that was run comes too late to run it.
LEMMA TryAcquireOnce == ASSUME IInv, IInv', Once, NEW n \in Nodes, tryAcquire(n) PROVE Once'
<1>1. /\ Step(n) /\ runs' = runs /\ now' = now /\ lag' = lag
      /\ Att(n) \in AttemptType /\ Att(n).pc = "acquire" /\ NodeKept(n) /\ LateKept(n)
      /\ node[n].state # "down" /\ node \in [Nodes -> NodeType]
      /\ Att(n).slot \in Slots /\ lock # n
  BY AttemptTyped
  DEF Step, tryAcquire, IInv, TypeOK, Once, NodeKept, AttemptKept, LeaseKept, Leasing
<1>2. /\ \A m \in Nodes \ {n} : node'[m] = node[m] /\ Att(m)' = Att(m)
      /\ \A k \in Slots : why[k] \subseteq why'[k]
  BY <1>1, StepFrame
<1>3. CASE Set(n, NoAttempt) /\ lock' = lock
  <2>1. Att(n)' = NoAttempt
    BY <1>1, <1>3, AttemptChanges, NoAttemptTyped DEF Att
  <2>2. LateKept(n)'
    BY <2>1, NoAttemptTyped DEF LateKept
  <2> QED BY <1>1, <1>3, <2>1, <2>2, QuietOnce, NoAttemptTyped
<1>4. CASE /\ lock = None /\ lock' = n /\ Set(n, [Att(n) EXCEPT !.pc = "leased"])
           /\ Note(Att(n).slot, "tardy", Tardy(n))
  <2>1. [Att(n) EXCEPT !.pc = "leased"] \in AttemptType
    BY <1>1 DEF AttemptType
  <2>2. /\ Att(n)' = [Att(n) EXCEPT !.pc = "leased"] /\ node'[n].state = node[n].state
    BY <1>1, <1>4, <2>1, AttemptChanges DEF Att
  <2>3. Att(n)'.pc = "leased" /\ Att(n)'.slot = Att(n).slot
    BY <1>1, <2>2 DEF AttemptType
  <2>4. \A m \in Nodes : LateKept(m)'
    <3>1. LateKept(n)'
      BY <1>1, <1>2, <2>2, <2>3 DEF LateKept
    <3> QED BY <3>1, <1>1, <1>2, LateFrame, Basics DEF Once, IInv, TypeOK
  <2>5. ASSUME NEW k \in Slots PROVE OnceKept(k)'
    <3> SUFFICES ASSUME ~Excused(k)', runs[k] # 0 PROVE runs[k] = 1 /\ Over(k)'
      BY <1>1 DEF OnceKept
    <3>1. /\ \A j \in Slots : Excused(j) => Excused(j)'
          /\ \A m \in Nodes, j \in Slots : Closed(m, j) => Closed(m, j)'
          /\ Spread' = Spread
      BY <1>1, <1>2, ExcusesStay, Basics DEF IInv, TypeOK
    <3>2. runs[k] = 1 /\ Over(k)
      BY <3>1, <1>4, Basics DEF Once, OnceKept, Won
    <3>3. CASE Att(n).slot # k
      BY <3>1, <3>2, <3>3, <1>2, <2>3 DEF Over
    <3>4. CASE Att(n).slot = k
      <4>1. PICK m \in Nodes : Closed(m, k)
        BY <3>2 DEF Over
      <4>2. Closed(n, k)
        <5>1. /\ Spread \in Nat /\ lag[n] <= lag[m] + Spread
              /\ lag[m] \in Nat /\ lag[n] \in Nat /\ now \in Nat
          BY SpreadBounds, Clocks DEF IInv
        <5>2. k \in Nat /\ Att(n).due \in Nat /\ Att(n).due < k + Window
          BY <1>1, <3>4, GridNat DEF NodeKept, AttemptKept, AttemptType
        <5>3. Spread = 0 \/ ~Tardy(n)
          BY <1>4, <3>1, <3>4 DEF Excused, Note, IInv, TypeOK
        <5> QED BY <4>1, <5>1, <5>2, <5>3, Basics DEF Closed, Clock, Tardy
      <4> QED BY <4>1, <4>2, <3>1, <3>2, <3>4, <1>2, <2>3 DEF Over
    <3> QED BY <3>2, <3>3, <3>4
  <2> QED BY <2>4, <2>5 DEF Once
<1> QED BY <1>3, <1>4 DEF tryAcquire

\* Whoever begins is the first: it has the lock, and the slot is not over.
LEMMA BeginOnce == ASSUME IInv, IInv', Once, NEW n \in Nodes, begin(n) PROVE Once'
<1>1. /\ Step(n) /\ now' = now /\ lag' = lag /\ lock' = lock
      /\ Att(n) \in AttemptType /\ Att(n).pc = "leased" /\ NodeKept(n) /\ LateKept(n)
      /\ node[n].state # "down" /\ node \in [Nodes -> NodeType]
      /\ Att(n).slot \in Slots
  BY AttemptTyped DEF Step, begin, env, IInv, TypeOK, Once, NodeKept, AttemptKept
<1>2. /\ \A m \in Nodes \ {n} : node'[m] = node[m] /\ Att(m)' = Att(m)
      /\ \A k \in Slots : why[k] \subseteq why'[k]
  BY <1>1, StepFrame
<1>3. /\ \A j \in Slots : Excused(j) => Excused(j)'
      /\ \A m \in Nodes, j \in Slots : Closed(m, j) => Closed(m, j)'
  BY <1>1, <1>2, ExcusesStay, Basics DEF IInv, TypeOK
<1>4. CASE /\ MayRun(n)
           /\ Set(n, [Att(n) EXCEPT !.pc = "run", !.going = TRUE, !.since = Clock(n)])
           /\ runs' = [runs EXCEPT ![Att(n).slot] = @ + 1] /\ why' = why
  <2> DEFINE a == [Att(n) EXCEPT !.pc = "run", !.going = TRUE, !.since = Clock(n)]
  <2>1. a \in AttemptType /\ a.pc = "run" /\ a.slot = Att(n).slot
    BY <1>1, Clocks DEF AttemptType, IInv
  <2> HIDE DEF a
  <2>2. Att(n)' = a /\ node'[n].state = node[n].state
    BY <1>1, <1>4, <2>1, AttemptChanges DEF Att, a
  <2>3. \A m \in Nodes : LateKept(m)'
    <3>1. LateKept(n)'
      BY <1>1, <1>2, <2>1, <2>2 DEF LateKept
    <3> QED BY <3>1, <1>1, <1>2, LateFrame, Basics DEF Once, IInv, TypeOK
  <2>4. ASSUME NEW k \in Slots PROVE OnceKept(k)'
    <3>1. CASE k # Att(n).slot
      <4>1. runs'[k] = runs[k]
        BY <3>1, <1>1, <1>4 DEF IInv, TypeOK
      <4>2. Won(k) => Won(k)'
        BY <3>1, <1>1, <1>2 DEF Won
      <4>3. Over(k) => Over(k)'
        BY <1>2, <1>3, <2>1, <2>2 DEF Over
      <4> QED BY <4>1, <4>2, <4>3, <1>3 DEF Once, OnceKept
    <3>2. CASE k = Att(n).slot
      <4> SUFFICES ASSUME ~Excused(k)' PROVE runs'[k] = 1 /\ Won(k)'
        BY DEF OnceKept
      <4>1. ~Excused(k) /\ lock = n
        BY <3>2, <1>1, <1>3, <1>4 DEF NodeKept, LeaseKept, Leasing, Excused
      <4>2. ~Won(k)
        BY <4>1, <1>1 DEF Won
      <4>3. ~Over(k)
        <5>1. ~Closed(n, k)
          BY <1>4, <3>2, <1>1, Clocks, GridNat, Basics DEF MayRun, Closed, holdUntil, IInv
        <5> QED BY <5>1, <3>2, <1>1 DEF Over
      <4>4. runs[k] = 0
        BY <4>1, <4>2, <4>3 DEF Once, OnceKept
      <4>5. runs'[k] = 1
        BY <4>4, <3>2, <1>4 DEF IInv, TypeOK
      <4> QED BY <4>1, <4>5, <3>2, <1>1, <2>1, <2>2 DEF Won
    <3> QED BY <3>1, <3>2
  <2> QED BY <2>3, <2>4 DEF Once
<1>5. CASE ~MayRun(n) /\ Set(n, [Att(n) EXCEPT !.pc = "release"]) /\ runs' = runs
  <2> DEFINE a == [Att(n) EXCEPT !.pc = "release"]
  <2>1. a \in AttemptType /\ a.pc = "release" /\ a.slot = Att(n).slot
    BY <1>1 DEF AttemptType
  <2> HIDE DEF a
  <2>2. Att(n)' = a /\ node'[n].state = node[n].state
    BY <1>1, <1>5, <2>1, AttemptChanges DEF Att, a
  <2>3. LateKept(n)'
    <3>1. Closed(n, Att(n).slot) \/ Excused(Att(n).slot)
      <4>1. Clock(n) \in Nat /\ Att(n).slot \in Nat
        BY <1>1, Clocks, GridNat DEF IInv
      <4> QED
        BY <4>1, <1>5, <1>1, Basics DEF MayRun, Closed, holdUntil, Stopping, LateKept, Excused
    <3> QED BY <3>1, <1>1, <1>2, <1>3, <2>1, <2>2 DEF LateKept
  <2> QED BY <1>1, <1>5, <2>1, <2>2, <2>3, QuietOnce
<1> QED BY <1>1, <1>4, <1>5 DEF begin

\* Waking and starting concern nodes that have no lock to lose.
LEMMA WakeOnce == ASSUME IInv, IInv', Once, NEW n \in Nodes, wake(n) \/ start(n) PROVE Once'
<1>1. /\ Step(n) /\ now' = now /\ lag' = lag /\ lock' = lock /\ runs' = runs
      /\ node \in [Nodes -> NodeType] /\ NodeKept(n) /\ LateKept(n)
  BY DEF Step, wake, start, env, ghosts, IInv, TypeOK, Once
<1>2. /\ node'[n].state = "running"
      /\ \/ Att(n)' = Att(n)
         \/ Att(n).pc = "idle" /\ Att(n)'.pc = "acquire"
  <2>1. CASE start(n)
    BY <2>1, <1>1 DEF start, Att, NodeType
  <2>2. CASE wake(n)
    <3> DEFINE fresh == [NoAttempt EXCEPT !.pc = "acquire", !.slot = node[n].timer.slot,
                                          !.due = node[n].timer.at]
               a == IF Att(n).pc # "idle" THEN Att(n) ELSE fresh
    <3>1. PICK t : node' = [node EXCEPT ![n].timer = t, ![n].att = a] /\ node[n].state = "running"
      BY <2>2 DEF wake, Att
    <3>2. fresh.pc = "acquire"
      BY DEF NoAttempt
    <3> HIDE DEF fresh
    <3>3. node'[n].att = a /\ node'[n].state = "running"
      <4> HIDE DEF a
      <4> QED BY <3>1, <1>1 DEF NodeType
    <3> QED BY <3>2, <3>3 DEF Att
  <2> QED BY <2>1, <2>2
<1>3. \A k \in Slots : why[k] \subseteq why'[k]
  BY <1>1, StepFrame
<1>4. LateKept(n)'
  <2>1. CASE Att(n)' = Att(n)
    <3>1. Att(n).pc = "release" => Att(n).slot \in Slots
      BY <1>1 DEF NodeKept, AttemptKept
    <3> QED BY <2>1, <3>1, <1>1, <1>2, <1>3, ExcusesStay, Basics DEF LateKept, IInv, TypeOK
  <2>2. CASE Att(n)'.pc = "acquire"
    BY <2>2, <1>2 DEF LateKept
  <2> QED BY <2>1, <2>2, <1>2
<1> QED BY <1>1, <1>2, <1>4, QuietOnce

\* A stop, a crash and a dropped connection excuse the slot they fall in.
LEMMA FaultOnce ==
  ASSUME IInv, IInv', Once, NEW n \in Nodes, stop(n) \/ crash(n) \/ connectionLost(n)
  PROVE  Once'
<1>1. /\ Step(n) /\ node \in [Nodes -> NodeType] /\ NodeKept(n) /\ LateKept(n)
  BY DEF Step, IInv, TypeOK, Once
<1>2. PICK kind \in {"crash", "stop", "lost"} :
        Fault(kind, n) /\ (stop(n) => kind = "stop")
  BY DEF stop, crash, connectionLost
<1>3. /\ now' = now /\ lag' = lag /\ runs' = runs
      /\ \A k \in Slots : why[k] \subseteq why'[k]
      /\ \A k \in Slots : k = Att(n).slot => kind \in why'[k]
  BY <1>2, FaultTyped DEF IInv
<1>4. \A k \in Slots : k = Att(n).slot => Excused(k)'
  BY <1>3 DEF Excused
<1>5. \A m \in Nodes \ {n} : lock = m => lock' = m
  BY DEF stop, crash, connectionLost
<1>6. \/ Att(n)'.slot = Att(n).slot /\ Att(n)'.pc = Att(n).pc
      \/ Att(n)' = NoAttempt
  BY <1>1 DEF stop, crash, connectionLost, Att, NodeType, AttemptType
<1>7. LateKept(n)'
  <2>1. CASE Att(n)' = NoAttempt
    BY <2>1, NoAttemptTyped DEF LateKept
  <2>2. CASE Att(n)'.slot = Att(n).slot /\ Att(n)'.pc = Att(n).pc
    <3>1. Att(n).pc # "idle" => Att(n).slot \in Slots
      BY <1>1 DEF NodeKept, AttemptKept
    <3>2. CASE stop(n)
      BY <2>2, <3>1, <3>2, <1>2, <1>3, <1>4 DEF LateKept
    <3>3. CASE connectionLost(n)
      BY <2>2, <3>1, <3>3, <1>1, <1>3, <1>4 DEF LateKept, connectionLost
    <3>4. CASE crash(n)
      BY <2>2, <3>1, <3>4, <1>1, <1>3, <1>4 DEF LateKept, crash
    <3> QED BY <3>2, <3>3, <3>4
  <2> QED BY <1>6, <2>1, <2>2
<1> QED BY <1>1, <1>3, <1>4, <1>5, <1>6, <1>7, QuietOnce, NoAttemptTyped

LEMMA ServerDropsOnce == ASSUME IInv, IInv', Once, NEW n \in Nodes, serverDrops(n) PROVE Once'
<1>1. /\ Step(n) /\ now' = now /\ lag' = lag /\ runs' = runs /\ why' = why /\ node' = node
      /\ lock = n /\ NodeKept(n) /\ LateKept(n) /\ node[n].state = "down"
  BY DEF Step, serverDrops, env, ghosts, IInv, Once
<1>2. Att(n)' = Att(n) /\ Att(n).pc = "idle"
  BY <1>1 DEF Att, NodeKept, AttemptKept
<1>3. LateKept(n)'
  BY <1>2 DEF LateKept
<1> QED BY <1>1, <1>2, <1>3, QuietOnce

LEMMA NextOnce == ASSUME IInv, IInv', Once, [Next]_vars PROVE Once'
<1>1. CASE Tick
  BY <1>1, TickOnce
<1>2. ASSUME NEW n \in Nodes, Step(n) PROVE Once'
  BY <1>2, AttemptOnce, ReleaseOnce, TryAcquireOnce, BeginOnce, WakeOnce, FaultOnce, ServerDropsOnce
  DEF Step
<1>3. CASE UNCHANGED vars
  <2>1. \A n \in Nodes : LateKept(n)'
    BY <1>3, LateFrame, Basics DEF vars, Once, IInv, TypeOK
  <2>2. \A k \in Slots : OnceKept(k)'
    BY <1>3, OnceFrame, Basics DEF vars, Once, IInv, TypeOK, Att
  <2> QED BY <2>1, <2>2 DEF Once
<1> QED BY <1>1, <1>2, <1>3 DEF Next

LEMMA InitOnce == Init => Once
<1> SUFFICES ASSUME Init PROVE Once
  OBVIOUS
<1>1. \A n \in Nodes : Att(n) = NoAttempt /\ node[n].state = "running"
  BY DEF Init, Att
<1> QED BY <1>1, NoAttemptTyped DEF Init, Once, LateKept, OnceKept

\* A slot is run at most once over all nodes, unless its winner crashed,
\* stopped or lost its lock, or a node came to it later than the second window
\* leaves beside the clocks' disagreement; however long runs take and however
\* many nodes there are (attempt, holdUntil).
THEOREM OneRunPerSlot == Spec => []OncePerSlot
<1>1. Once => OncePerSlot
  BY DEF Once, OnceKept, OncePerSlot, Excused
<1>2. Spec => []Once
  <2>1. IInv /\ IInv' /\ Once /\ [Next]_vars => Once'
    BY NextOnce
  <2> QED BY <2>1, InitOnce, Inductive, PTL DEF Spec
<1> QED BY <1>1, <1>2, PTL
-----------------------------------------------------------------------------
(* No slot is skipped *)

\* Something went wrong in slot k, or it was run.
Settled(k) == why[k] # {} \/ runs[k] # 0

\* A node passes a slot that has begun, and never comes back to it.
PassedKept(n) ==
  \A k \in Slots : n \in passed[k] =>
    /\ k <= Clock(n)
    /\ node[n].state = "running" => k < node[n].timer.slot
    /\ Att(n).pc \in {"acquire", "leased"} => Att(n).slot # k

\* An attempt past its beginning has run its slot, or noted why not.
BegunKept(n) ==
  Att(n).pc \in {"run", "hold", "release", "settle"} => Settled(Att(n).slot)

\* Slot k has a node with the lock that has yet to begin.
Pending(k) == \E n \in Nodes : Att(n).slot = k /\ Att(n).pc = "leased"

Skip ==
  /\ \A n \in Nodes : PassedKept(n) /\ BegunKept(n)
  /\ \A k \in Slots : passed[k] # {} => Settled(k) \/ Pending(k)

\* What a step of node n has to show.
LEMMA SkipFrame ==
  ASSUME IInv, IInv', Skip, NEW n \in Nodes, Step(n),
         \A k \in Slots : runs[k] # 0 => runs'[k] # 0,
         \A m \in Nodes \ {n}, k \in Slots : m \in passed'[k] => m \in passed[k],
         \A k \in Slots : n \in passed'[k] => n \in passed[k] \/ Settled(k)' \/ Pending(k),
         \A k \in Slots : Att(n).pc = "leased" /\ Att(n).slot = k =>
                           Settled(k)' \/ (Att(n)'.pc = "leased" /\ Att(n)'.slot = k),
         PassedKept(n)', BegunKept(n)'
  PROVE  Skip'
<1>1. /\ now' = now /\ lag' = lag
      /\ \A m \in Nodes \ {n} : node'[m] = node[m] /\ Att(m)' = Att(m)
      /\ \A k \in Slots : why[k] \subseteq why'[k]
  BY StepFrame
<1>2. \A k \in Slots : Settled(k) => Settled(k)'
  BY <1>1 DEF Settled
<1>3. ASSUME NEW m \in Nodes \ {n} PROVE PassedKept(m)' /\ BegunKept(m)'
  <2>1. PassedKept(m) /\ BegunKept(m) /\ NodeKept(m)
    BY DEF Skip, IInv
  <2>2. Clock(m)' = Clock(m)
    BY <1>1 DEF Clock
  <2>3. PassedKept(m)'
    BY <1>1, <2>1, <2>2 DEF PassedKept
  <2>4. Att(m).pc \in {"run", "hold", "release", "settle"} => Att(m).slot \in Slots
    BY <2>1 DEF NodeKept, AttemptKept
  <2>5. BegunKept(m)'
    BY <1>1, <1>2, <2>1, <2>4 DEF BegunKept
  <2> QED BY <2>3, <2>5
<1>4. ASSUME NEW k \in Slots, Pending(k) PROVE Settled(k)' \/ Pending(k)'
  BY <1>4, <1>1 DEF Pending
<1>5. ASSUME NEW k \in Slots, passed'[k] # {} PROVE Settled(k)' \/ Pending(k)'
  <2>1. passed'[k] \subseteq Nodes
    BY DEF IInv, TypeOK
  <2>2. PICK m \in Nodes : m \in passed'[k]
    BY <1>5, <2>1
  <2>3. m \in passed[k] \/ Settled(k)' \/ Pending(k)
    BY <2>2
  <2>4. m \in passed[k] => Settled(k) \/ Pending(k)
    BY DEF Skip
  <2> QED BY <2>3, <2>4, <1>2, <1>4
<1> QED BY <1>3, <1>5 DEF Skip

\* The steps of an attempt that neither end it unrun nor take the lock.
LEMMA AttemptSkip ==
  ASSUME IInv, IInv', Skip, NEW n \in Nodes,
         \/ settle(n) \/ execute(n) \/ hold(n) \/ abandon(n) \/ finished(n) \/ onError(n)
         \/ release(n)
  PROVE  Skip'
<1>1. /\ Step(n) /\ runs' = runs /\ passed' = passed /\ why' = why /\ now' = now /\ lag' = lag
      /\ Att(n) \in AttemptType /\ NodeKept(n) /\ PassedKept(n) /\ BegunKept(n)
      /\ node \in [Nodes -> NodeType]
  BY AttemptTyped DEF Step, settle, execute, hold, abandon, finished, onError, release, ghosts, env,
                      IInv, Skip, TypeOK
<1>2. node'[n].state = node[n].state /\ node'[n].timer = node[n].timer
  <2>1. \A a : Set(n, a) => node'[n].state = node[n].state /\ node'[n].timer = node[n].timer
    BY <1>1 DEF Set, NodeType
  <2> QED BY <2>1 DEF settle, execute, hold, abandon, finished, onError, release
<1>3. \/ Att(n)' = NoAttempt /\ Att(n).pc = "settle"
      \/ Att(n)'.slot = Att(n).slot /\ Att(n)'.pc = Att(n).pc
      \/ /\ Att(n)'.slot = Att(n).slot /\ Att(n)'.pc \in {"hold", "release", "settle"}
         /\ Att(n).pc \in {"run", "hold", "release"}
  <2>1. CASE settle(n) \/ execute(n)
    BY <2>1, <1>1, AttemptFields DEF AttemptType, settle, execute
  <2>2. CASE hold(n) \/ abandon(n) \/ release(n)
    BY <2>2, <1>1, AttemptFields DEF AttemptType, hold, abandon, release
  <2>3. CASE finished(n) \/ onError(n)
    BY <2>3, <1>1, AttemptFields DEF AttemptType, finished, onError
  <2> QED BY <2>1, <2>2, <2>3
<1>4. PassedKept(n)'
  <2>1. Clock(n)' = Clock(n)
    BY <1>1 DEF Clock
  <2> QED BY <1>1, <1>2, <1>3, <2>1, NoAttemptTyped DEF PassedKept
<1>5. BegunKept(n)'
  BY <1>1, <1>3, NoAttemptTyped DEF BegunKept, Settled
<1> QED BY <1>1, <1>3, <1>4, <1>5, SkipFrame

\* No node is still waiting out an earlier slot's hold when slot k has begun by
\* the clock of another: two windows and the clocks' disagreement fit between.
LEMMA HoldsEnd ==
  ASSUME IInv, NEW m \in Nodes, NEW n \in Nodes, NEW k \in Grid,
         Att(m).slot < k, k <= Clock(n), ~HoldOver(m)
  PROVE  FALSE
<1>1. Att(m).slot \in Grid /\ Att(m).slot \in Nat /\ k \in Nat
  BY AttemptTyped, GridNat DEF IInv, AttemptType
<1>2. Att(m).slot + Interval <= k
  BY <1>1, SlotsApart
<1>3. lag[m] \in Nat /\ lag[n] \in Nat /\ now \in Nat /\ lag[m] + 2 * Window <= lag[n] + Interval
  BY Clocks, JobAssumption DEF IInv, TypeOK
<1>4. Clock(m) < Att(m).slot + 2 * Window
  BY <1>1, Clocks, Basics DEF HoldOver, holdUntil, IInv
<1> QED BY <1>1, <1>2, <1>3, <1>4, Basics DEF Clock

LEMMA TryAcquireSkip == ASSUME IInv, IInv', Skip, NEW n \in Nodes, tryAcquire(n) PROVE Skip'
<1>1. /\ Step(n) /\ runs' = runs /\ now' = now /\ lag' = lag
      /\ Att(n) \in AttemptType /\ Att(n).pc = "acquire" /\ NodeKept(n)
      /\ PassedKept(n) /\ node \in [Nodes -> NodeType]
      /\ Att(n).slot \in Slots /\ lock # n /\ Att(n).slot <= Clock(n) /\ Clock(n)' = Clock(n)
      /\ passed \in [Slots -> SUBSET Nodes] /\ why \in [Slots -> SUBSET Notes]
  <2>1. /\ Step(n) /\ runs' = runs /\ now' = now /\ lag' = lag /\ Att(n).pc = "acquire"
    BY DEF Step, tryAcquire
  <2>2. NodeKept(n) /\ PassedKept(n) /\ node \in [Nodes -> NodeType] /\ Att(n) \in AttemptType
        /\ passed \in [Slots -> SUBSET Nodes] /\ why \in [Slots -> SUBSET Notes]
    BY AttemptTyped DEF IInv, TypeOK, Skip
  <2>3. Att(n).slot \in Slots /\ Att(n).slot <= Att(n).due /\ Att(n).due <= Clock(n) /\ lock # n
    BY <2>1, <2>2 DEF NodeKept, AttemptKept, LeaseKept, Leasing
  <2>4. Att(n).slot \in Nat /\ Att(n).due \in Nat /\ Clock(n) \in Nat
    BY <2>2, <2>3, GridNat, Clocks DEF AttemptType, IInv
  <2> QED BY <2>1, <2>2, <2>3, <2>4 DEF Clock
<1>2. \A k \in Slots : why[k] \subseteq why'[k]
  BY <1>1, StepFrame
<1>j. PICK j \in Slots : j = Att(n).slot
  BY <1>1
<1>3. ASSUME Set(n, NoAttempt), Pass(n, j), Settled(j)' \/ Pending(j)
      PROVE  Skip'
  <2>1. Att(n)' = NoAttempt /\ node'[n].state = node[n].state /\ node'[n].timer = node[n].timer
    BY <1>1, <1>3, AttemptChanges, NoAttemptTyped DEF Att
  <2>2. /\ \A m \in Nodes \ {n}, k \in Slots : m \in passed'[k] => m \in passed[k]
        /\ \A k \in Slots : n \in passed'[k] => n \in passed[k] \/ k = j
    BY <1>1, <1>3, <1>j DEF Pass
  <2>3. PassedKept(n)'
    <3>1. node[n].state = "running" => Att(n).slot < node[n].timer.slot
      BY <1>1 DEF NodeKept, TimerKept
    <3> QED BY <1>1, <1>j, <2>1, <2>2, <3>1, NoAttemptTyped DEF PassedKept
  <2>4. BegunKept(n)'
    BY <2>1, NoAttemptTyped DEF BegunKept
  <2> QED BY <1>1, <1>3, <2>2, <2>3, <2>4, SkipFrame
<1>4. CASE /\ lock = None /\ Set(n, [Att(n) EXCEPT !.pc = "leased"]) /\ passed' = passed
  <2>1. [Att(n) EXCEPT !.pc = "leased"] \in AttemptType
    BY <1>1 DEF AttemptType
  <2>2. /\ Att(n)' = [Att(n) EXCEPT !.pc = "leased"] /\ node'[n].state = node[n].state
        /\ node'[n].timer = node[n].timer
    BY <1>1, <1>4, <2>1, AttemptChanges DEF Att
  <2>3. Att(n)'.pc = "leased" /\ Att(n)'.slot = Att(n).slot
    BY <1>1, <2>2 DEF AttemptType
  <2>4. PassedKept(n)'
    BY <1>1, <1>4, <2>2, <2>3 DEF PassedKept
  <2>5. BegunKept(n)'
    BY <2>3 DEF BegunKept
  <2> QED BY <1>1, <1>4, <2>4, <2>5, SkipFrame
<1>5. CASE /\ lock # None /\ Set(n, NoAttempt) /\ Pass(n, j)
           /\ Note(j, "overrun", Overrun(lock, j))
  <2>1. lock \in Nodes /\ NodeKept(lock) /\ BegunKept(lock)
    BY <1>5 DEF IInv, TypeOK, Skip
  <2>2. CASE Overrun(lock, j)
    <3>1. why'[j] # {}
      BY <1>1, <1>5, <2>2 DEF Note
    <3> QED BY <3>1, <1>3, <1>5 DEF Settled
  <2>3. CASE ~Overrun(lock, j)
    <3>1. Att(lock).slot \in Nat /\ j \in Nat /\ j \in Grid /\ j <= Clock(n) /\ Att(lock) \in AttemptType
      BY <1>1, <1>j, <2>1, AttemptTyped, GridNat DEF IInv, AttemptType
    <3>2. Att(lock).slot = j
      BY <3>1, <1>1, <2>1, <2>3, HoldsEnd DEF Overrun
    <3>3. Att(lock).pc \in Leasing
      <4>1. j # 0
        BY Basics DEF Slots
      <4> QED BY <4>1, <2>1, <3>2 DEF NodeKept, LeaseKept, AttemptKept
    <3>4. Settled(j)' \/ Pending(j)
      <4>1. CASE Att(lock).pc = "leased"
        BY <4>1, <3>2, <2>1 DEF Pending
      <4>2. CASE Att(lock).pc # "leased"
        <5>1. Settled(j)
          BY <4>2, <3>2, <3>3, <2>1 DEF BegunKept, Leasing
        <5> QED BY <5>1, <1>1, <1>2 DEF Settled
      <4> QED BY <4>1, <4>2
    <3> QED BY <3>4, <1>3, <1>5
  <2> QED BY <2>2, <2>3
<1>6. CASE /\ Set(n, NoAttempt) /\ Pass(n, j) /\ Note(j, "error", TRUE)
  <2>1. why'[j] # {}
    BY <1>1, <1>6 DEF Note
  <2> QED BY <2>1, <1>3, <1>6 DEF Settled
<1> QED BY <1>j, <1>4, <1>5, <1>6 DEF tryAcquire

LEMMA BeginSkip == ASSUME IInv, IInv', Skip, NEW n \in Nodes, begin(n) PROVE Skip'
<1>1. /\ Step(n) /\ now' = now /\ lag' = lag /\ Clock(n)' = Clock(n)
      /\ Att(n) \in AttemptType /\ Att(n).pc = "leased" /\ NodeKept(n) /\ PassedKept(n)
      /\ node \in [Nodes -> NodeType] /\ Att(n).slot \in Slots
      /\ passed \in [Slots -> SUBSET Nodes] /\ runs \in [Slots -> Nat]
      /\ why \in [Slots -> SUBSET Notes]
  BY AttemptTyped DEF Step, begin, env, IInv, TypeOK, Skip, NodeKept, AttemptKept, Clock
<1>2. PICK j \in Slots : j = Att(n).slot
  BY <1>1
<1>3. ASSUME NEW a \in AttemptType, Set(n, a), a.slot = j, a.pc \in {"run", "release"},
             Settled(j)', \A k \in Slots : runs[k] # 0 => runs'[k] # 0,
             passed' = passed \/ Pass(n, j)
      PROVE  Skip'
  <2>1. Att(n)' = a /\ node'[n].state = node[n].state /\ node'[n].timer = node[n].timer
    BY <1>1, <1>3, AttemptChanges DEF Att
  <2>2. /\ \A m \in Nodes \ {n}, k \in Slots : m \in passed'[k] => m \in passed[k]
        /\ \A k \in Slots : n \in passed'[k] => n \in passed[k] \/ k = j
    BY <1>1, <1>3 DEF Pass
  <2>3. PassedKept(n)'
    <3>1. /\ node[n].state = "running" => j < node[n].timer.slot
          /\ j <= Clock(n)
      <4>1. j <= Att(n).due /\ Att(n).due <= Clock(n) /\ j \in Nat /\ Att(n).due \in Nat /\ Clock(n) \in Nat
        BY <1>1, <1>2, GridNat, Clocks DEF NodeKept, AttemptKept, AttemptType, IInv
      <4> QED BY <4>1, <1>1, <1>2 DEF NodeKept, TimerKept
    <3> QED BY <1>1, <1>3, <2>1, <2>2, <3>1 DEF PassedKept
  <2>4. BegunKept(n)'
    BY <1>3, <2>1 DEF BegunKept, Settled
  <2> QED BY <1>1, <1>2, <1>3, <2>2, <2>3, <2>4, SkipFrame
<1>4. CASE /\ Set(n, [Att(n) EXCEPT !.pc = "run", !.going = TRUE, !.since = Clock(n)])
           /\ runs' = [runs EXCEPT ![j] = @ + 1] /\ passed' = passed
  <2> DEFINE a == [Att(n) EXCEPT !.pc = "run", !.going = TRUE, !.since = Clock(n)]
  <2>1. a \in AttemptType /\ a.pc = "run" /\ a.slot = j
    BY <1>1, <1>2, Clocks DEF AttemptType, IInv
  <2> HIDE DEF a
  <2>2. Settled(j)' /\ \A k \in Slots : runs[k] # 0 => runs'[k] # 0
    BY <1>1, <1>4 DEF Settled
  <2> QED BY <1>3, <1>4, <2>1, <2>2 DEF a
<1>5. CASE /\ Set(n, [Att(n) EXCEPT !.pc = "release"]) /\ runs' = runs
           /\ Pass(n, j) /\ Note(j, "closed", TRUE)
  <2> DEFINE a == [Att(n) EXCEPT !.pc = "release"]
  <2>1. a \in AttemptType /\ a.pc = "release" /\ a.slot = j
    BY <1>1, <1>2 DEF AttemptType
  <2> HIDE DEF a
  <2>2. Settled(j)'
    BY <1>1, <1>5 DEF Settled, Note
  <2> QED BY <1>3, <1>5, <2>1, <2>2 DEF a
<1> QED BY <1>1, <1>2, <1>4, <1>5 DEF begin

\* A timer that fires while the job is busy passes its slot, and the attempt
\* that keeps it busy has overrun an earlier one.
LEMMA WakeSkip == ASSUME IInv, IInv', Skip, NEW n \in Nodes, wake(n) PROVE Skip'
<1> DEFINE t == node[n].timer
           busy == Att(n).pc # "idle"
           fresh == [NoAttempt EXCEPT !.pc = "acquire", !.slot = t.slot, !.due = t.at]
           a == IF busy THEN Att(n) ELSE fresh
<1>1. PICK offset \in 0..(Window - 1) :
        /\ node[n].state = "running" /\ Clock(n) >= t.at
        /\ node' = [node EXCEPT ![n].timer = Timer(NextSlot(n, t.slot), offset), ![n].att = a]
        /\ IF busy THEN Pass(n, t.slot) ELSE UNCHANGED passed
        /\ Note(t.slot, "overrun", busy /\ Overrun(n, t.slot))
        /\ UNCHANGED <<now, lag, faults, lock, runs>>
  BY DEF wake, env, Att
<1>2. /\ NodeKept(n) /\ PassedKept(n) /\ BegunKept(n) /\ Att(n) \in AttemptType /\ t \in TimerType
      /\ Clock(n) \in Nat /\ Clock(n) <= Until /\ node \in [Nodes -> NodeType]
      /\ passed \in [Slots -> SUBSET Nodes] /\ why \in [Slots -> SUBSET Notes]
      /\ Clock(n)' = Clock(n) /\ Step(n)
  BY <1>1, AttemptTyped, Clocks DEF IInv, Skip, TypeOK, Clock, Step
<1>3. /\ t.slot \in Grid /\ t.slot \in Nat /\ t.at \in Nat /\ t.slot > 0
      /\ t.slot <= Clock(n) /\ Att(n).slot < t.slot
  BY <1>1, <1>2, GridNat DEF NodeKept, TimerKept, TimerType
<1>4. PICK j \in Slots : j = t.slot
  BY <1>2, <1>3, BegunSlot, Basics
<1> DEFINE next == NextSlot(n, t.slot)
<1>5. next \in Nat /\ t.slot < next
  BY <1>2, <1>3, ScheduleGrid, GridNat
<1> DEFINE tt == Timer(next, offset)
<1>6. tt.slot = next
  BY DEF Timer
<1>7. fresh.pc = "acquire" /\ fresh.slot = t.slot
  BY DEF NoAttempt
<1> HIDE DEF fresh, next, tt
<1>8. node'[n].state = "running" /\ node'[n].timer = tt /\ Att(n)' = a
  <2> HIDE DEF a
  <2>1. node' = [node EXCEPT ![n].timer = tt, ![n].att = a]
    BY <1>1 DEF tt, next
  <2> QED BY <2>1, <1>1, <1>2 DEF NodeType, Att
<1>9. /\ \A m \in Nodes \ {n}, k \in Slots : m \in passed'[k] => m \in passed[k]
      /\ \A k \in Slots : n \in passed'[k] => n \in passed[k] \/ (busy /\ k = j)
  BY <1>1, <1>2, <1>4 DEF Pass
<1>10. PassedKept(n)'
  <2> SUFFICES ASSUME NEW k \in Slots, n \in passed'[k]
               PROVE  /\ k <= Clock(n) /\ k < next
                      /\ Att(n)'.pc \in {"acquire", "leased"} => Att(n)'.slot # k
    BY <1>2, <1>6, <1>8 DEF PassedKept
  <2>1. k \in Nat
    BY GridNat
  <2>2. CASE n \in passed[k]
    <3>1. k <= Clock(n) /\ k < t.slot /\ (Att(n).pc \in {"acquire", "leased"} => Att(n).slot # k)
      BY <2>2, <1>1, <1>2 DEF PassedKept
    <3> QED BY <3>1, <2>1, <1>3, <1>5, <1>7, <1>8
  <2>3. CASE busy /\ k = j
    BY <2>3, <1>3, <1>4, <1>5, <1>8
  <2> QED BY <2>2, <2>3, <1>9
<1>11. \A k \in Slots : why[k] \subseteq why'[k]
  BY <1>2, StepFrame
<1>12. BegunKept(n)'
  BY <1>1, <1>2, <1>7, <1>8, <1>11 DEF BegunKept, Settled, NodeKept, AttemptKept
<1>13. busy => Settled(j)'
  <2> SUFFICES ASSUME busy PROVE why'[j] # {}
    BY DEF Settled
  <2>1. Overrun(n, j)
    <3>1. HoldOver(n)
      BY <1>2, <1>3, <1>4, HoldsEnd
    <3> QED BY <3>1, <1>3, <1>4 DEF Overrun
  <2> QED BY <2>1, <1>1, <1>2, <1>4 DEF Note
<1>14. \A k \in Slots : Att(n).pc = "leased" /\ Att(n).slot = k => Att(n)'.pc = "leased" /\ Att(n)'.slot = k
  BY <1>8
<1> QED BY <1>1, <1>2, <1>9, <1>10, <1>12, <1>13, <1>14, SkipFrame

\* A node that starts again goes for slots that have not begun.
LEMMA StartSkip == ASSUME IInv, IInv', Skip, NEW n \in Nodes, start(n) PROVE Skip'
<1>1. PICK offset \in 0..(Window - 1) :
        /\ node[n].state = "down"
        /\ node' = [node EXCEPT ![n].state = "running", ![n].timer = Timer(NextSlot(n, 0), offset)]
        /\ UNCHANGED <<now, lag, faults, lock, runs, passed, why>>
  BY DEF start, env, ghosts
<1> DEFINE next == NextSlot(n, 0)
           tt == Timer(next, offset)
<1>2. next \in Nat /\ Clock(n) < next /\ Clock(n) \in Nat
  <2>1. Clock(n) \in Nat /\ Clock(n) <= Until /\ 0 \in Grid /\ 0 <= Clock(n)
    BY Clocks, GridNat DEF IInv
  <2> QED BY <2>1, ScheduleGrid, GridNat
<1>3. tt.slot = next
  BY DEF Timer
<1>4. /\ NodeKept(n) /\ PassedKept(n) /\ node \in [Nodes -> NodeType] /\ Step(n)
      /\ Clock(n)' = Clock(n)
  BY <1>1 DEF IInv, Skip, TypeOK, Step, Clock
<1> HIDE DEF tt, next
<1>5. node'[n].att = node[n].att /\ node'[n].timer = tt
  <2>1. node' = [node EXCEPT ![n].state = "running", ![n].timer = tt]
    BY <1>1 DEF tt, next
  <2> QED BY <2>1, <1>4 DEF NodeType
<1>6. Att(n)' = Att(n) /\ Att(n).pc = "idle"
  BY <1>1, <1>4, <1>5 DEF Att, NodeKept, AttemptKept
<1>7. PassedKept(n)'
  <2>1. \A k \in Slots : k <= Clock(n) => k < next
    BY <1>2, GridNat
  <2> QED BY <2>1, <1>1, <1>3, <1>4, <1>5, <1>6 DEF PassedKept
<1>8. BegunKept(n)'
  BY <1>6 DEF BegunKept
<1> QED BY <1>1, <1>4, <1>6, <1>7, <1>8, SkipFrame

\* A fault is noted in the slot it falls in.
LEMMA FaultSkip ==
  ASSUME IInv, IInv', Skip, NEW n \in Nodes,
         stop(n) \/ crash(n) \/ connectionLost(n) \/ serverDrops(n)
  PROVE  Skip'
<1>1. /\ Step(n) /\ node \in [Nodes -> NodeType] /\ NodeKept(n) /\ PassedKept(n) /\ BegunKept(n)
  BY DEF Step, IInv, TypeOK, Skip
<1>2. /\ now' = now /\ lag' = lag /\ runs' = runs /\ passed' = passed
      /\ \A k \in Slots : why[k] \subseteq why'[k]
  <2>1. CASE serverDrops(n)
    BY <2>1 DEF serverDrops, env, ghosts
  <2>2. CASE stop(n) \/ crash(n) \/ connectionLost(n)
    <3>1. PICK kind \in {"stop", "crash", "lost"} : Fault(kind, n)
      BY <2>2 DEF stop, crash, connectionLost
    <3> QED BY <3>1, FaultTyped DEF IInv
  <2> QED BY <2>1, <2>2
<1>3. \/ Att(n)'.slot = Att(n).slot /\ Att(n)'.pc = Att(n).pc
      \/ Att(n)' = NoAttempt
  BY <1>1 DEF stop, crash, connectionLost, serverDrops, Att, NodeType, AttemptType
<1>4. node'[n].state = "running" => node[n].state = "running" /\ node'[n].timer = node[n].timer
  BY <1>1 DEF stop, crash, connectionLost, serverDrops, NodeType
<1>5. PassedKept(n)'
  BY <1>1, <1>2, <1>3, <1>4, NoAttemptTyped DEF PassedKept, Clock
<1>6. BegunKept(n)'
  <2>1. Att(n).pc # "idle" => Att(n).slot \in Slots
    BY <1>1 DEF NodeKept, AttemptKept
  <2> QED BY <1>1, <1>2, <1>3, <2>1, NoAttemptTyped DEF BegunKept, Settled
<1>7. \A k \in Slots : Att(n).pc = "leased" /\ Att(n).slot = k =>
                         Settled(k)' \/ (Att(n)'.pc = "leased" /\ Att(n)'.slot = k)
  <2>1. CASE crash(n)
    <3>1. \A k \in Slots : k = Att(n).slot => "crash" \in why'[k]
      BY <2>1, FaultTyped DEF crash, IInv
    <3> QED BY <3>1 DEF Settled
  <2>2. CASE ~crash(n)
    <3>1. Att(n)'.slot = Att(n).slot /\ Att(n)'.pc = Att(n).pc
      BY <2>2, <1>1 DEF stop, connectionLost, serverDrops, Att, NodeType, AttemptType
    <3> QED BY <3>1
  <2> QED BY <2>1, <2>2
<1> QED BY <1>1, <1>2, <1>5, <1>6, <1>7, SkipFrame

LEMMA TickSkip == ASSUME IInv, IInv', Skip, Tick \/ UNCHANGED vars PROVE Skip'
<1>1. /\ lag' = lag /\ node' = node /\ runs' = runs /\ passed' = passed /\ why' = why
      /\ now' >= now
  BY Basics DEF Tick, ghosts, vars, IInv, TypeOK
<1>2. ASSUME NEW n \in Nodes PROVE PassedKept(n)' /\ BegunKept(n)'
  <2>1. Clock(n) \in Nat /\ Clock(n)' \in Nat /\ Clock(n) <= Clock(n)'
    BY <1>1, Clocks, Basics DEF Clock, IInv, TypeOK
  <2>2. Slots \subseteq Nat /\ Att(n)' = Att(n)
    BY <1>1, GridNat DEF Att
  <2>3. PassedKept(n) /\ BegunKept(n)
    BY DEF Skip
  <2>4. PassedKept(n)'
    <3> SUFFICES ASSUME NEW k \in Slots, n \in passed'[k]
                 PROVE  /\ k =< Clock(n)'
                        /\ node'[n].state = "running" => k < node'[n].timer.slot
                        /\ Att(n)'.pc \in {"acquire", "leased"} => Att(n)'.slot # k
      BY DEF PassedKept
    <3>1. /\ k =< Clock(n)
          /\ node[n].state = "running" => k < node[n].timer.slot
          /\ Att(n).pc \in {"acquire", "leased"} => Att(n).slot # k
      BY <1>1, <2>3 DEF PassedKept
    <3>2. k =< Clock(n)'
      <4>1. k \in Nat
        BY <2>2
      <4> QED BY <2>1, <3>1, <4>1
    <3> QED BY <1>1, <2>2, <3>1, <3>2
  <2> QED BY <1>1, <2>2, <2>3, <2>4 DEF BegunKept, Settled
<1>3. \A k \in Slots : Settled(k)' = Settled(k) /\ Pending(k)' = Pending(k)
  BY <1>1 DEF Settled, Pending, Att
<1> QED BY <1>1, <1>2, <1>3 DEF Skip

\* A slot some node woke for is run, or something went wrong in it: a fault, a
\* lock asked for too late, or an earlier run that went on too long. Keeping
\* the lock for two windows past the run never costs the next slot its run
\* (attempt, holdUntil).
THEOREM SlotsAreRun == Spec => []NoSlotSkipped
<1>1. Skip => NoSlotSkipped
  <2> SUFFICES ASSUME Skip, NEW k \in Slots, runs[k] = 0, passed[k] # {},
                      \A n \in Nodes : n \in passed[k] \/ (Att(n).slot # k /\ node[n].timer.slot # k)
               PROVE  why[k] # {}
    BY DEF NoSlotSkipped
  <2>1. ~Pending(k)
    BY DEF Skip, PassedKept, Pending
  <2> QED BY <2>1 DEF Skip, Settled
<1>2. Init => Skip
  <2> SUFFICES ASSUME Init PROVE Skip
    OBVIOUS
  <2>1. \A n \in Nodes : Att(n) = NoAttempt
    BY DEF Init, Att
  <2> QED BY <2>1, NoAttemptTyped DEF Init, Skip, PassedKept, BegunKept
<1>3. IInv /\ IInv' /\ Skip /\ [Next]_vars => Skip'
  <2> SUFFICES ASSUME IInv, IInv', Skip, Next \/ UNCHANGED vars PROVE Skip'
    OBVIOUS
  <2>1. ASSUME NEW n \in Nodes, Step(n) PROVE Skip'
    BY <2>1, AttemptSkip, TryAcquireSkip, BeginSkip, WakeSkip, StartSkip, FaultSkip DEF Step
  <2> QED BY <2>1, TickSkip DEF Next
<1>4. Spec => []Skip
  BY <1>2, <1>3, Inductive, PTL DEF Spec
<1> QED BY <1>1, <1>4, PTL
============================================================================
