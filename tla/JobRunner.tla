----------------------------- MODULE JobRunner -----------------------------
(***************************************************************************)
(* One background job on every node of a deployment, kept to one run per   *)
(* slot by a session-level Postgres advisory lock.  Time is cut into slots *)
(* of Interval; each node wakes once per slot inside the wake window, by   *)
(* its own clock, and the first to take the lock runs the job and keeps    *)
(* the lock until its run has ended and two windows have passed.           *)
(*                                                                         *)
(* A node's clock lags real time by `lag`, chosen once per behaviour. A    *)
(* timer may fire any time after it is due, and taking the lock may be     *)
(* slow: both show as a late `tryAcquire`. The signal that stops a run is  *)
(* only a request: the run settles when it does.                           *)
(***************************************************************************)
EXTENDS Naturals, FiniteSets

CONSTANTS
  Nodes,
  Interval,   \* intervalMs
  Window,     \* jitterWindowMs(intervalMs)
  Timeout,    \* timeoutMs
  Lags,       \* the possible clock lags: a set of functions from Nodes to Nat
  Faults,     \* a subset of {"crash", "lost", "stop", "error"}
  From,       \* when the nodes start
  Until,      \* bound: the last tick
  MaxFaults,  \* bound: faults in one behaviour
  None

ASSUME JobAssumption ==
  /\ {Interval, Window, Timeout, From, Until, MaxFaults} \subseteq Nat
  /\ Window > 0 /\ 2 * Window < Interval /\ Timeout \in 1..Interval
  \* Time is counted from the epoch: no clock shows less than 0.
  /\ Window <= From /\ From <= Until
  \* jitterWindowMs is at most a tenth of the interval: clocks that disagree by
  \* less than a window stay far below what the second line needs.
  /\ \A ls \in Lags : /\ ls \in [Nodes -> 0..Window]
                      /\ \A m, n \in Nodes : ls[m] + 2 * Window <= ls[n] + Interval
  /\ Faults \subseteq {"crash", "lost", "stop", "error"}
  /\ None \notin Nodes

VARIABLES
  now, lag, faults,
  node,    \* each node's runner
  lock,    \* Postgres: the node whose connection holds the advisory lock
  runs,    \* per slot, the runs started
  passed,  \* per slot, the nodes whose attempt ended without a run
  why      \* per slot, what went wrong in it

vars == <<now, lag, faults, node, lock, runs, passed, why>>

Clock(n) == now - lag[n]
Slots == {k * Interval : k \in 1..(Until \div Interval)}

(***************************************************************************)
(* A runner: its timer (slot and due time), its attempt (`pc`, the slot it *)
(* is for, when it was due), the lease's `lost` signal, the run and the    *)
(* signal it was handed.                                                   *)
(***************************************************************************)
NoAttempt == [pc |-> "idle", slot |-> 0, due |-> 0, lost |-> FALSE,
              going |-> FALSE, sig |-> FALSE, since |-> 0]

\* schedule: the next slot by this node's clock, never one it already woke for.
NextSlot(n, previous) ==
  LET slot == (Clock(n) \div Interval + 1) * Interval
  IN IF previous # 0 /\ previous + Interval > slot THEN previous + Interval ELSE slot

Timer(slot, offset) == [slot |-> slot, at |-> slot + offset]
NoTimer == [slot |-> 0, at |-> 0]

Init ==
  /\ now = From /\ lag \in Lags /\ faults = 0
  /\ \E offset \in [Nodes -> 0..(Window - 1)] :
       node = [n \in Nodes |-> [state |-> "running", att |-> NoAttempt,
                                timer |-> Timer(NextSlot(n, 0), offset[n])]]
  /\ lock = None
  /\ runs = [k \in Slots |-> 0] /\ passed = [k \in Slots |-> {}]
  /\ why = [k \in Slots |-> {}]

Att(n) == node[n].att
Set(n, att) == node' = [node EXCEPT ![n].att = att]
env == <<now, lag, faults>>
ghosts == <<runs, passed, why>>

Stopping(n) == node[n].state = "stopped"

\* mutants: one window, or until the next slot's
HeldOneWindow(n) == Att(n).slot + Window
HeldIntoNextSlot(n) == Att(n).slot + Interval + Window
holdUntil(n) == Att(n).slot + 2 * Window
HoldOver(n) == Clock(n) >= holdUntil(n) \/ Att(n).lost \/ Stopping(n)

\* The attempt ends, with or without a run.
Pass(n, k) == passed' = IF k \in Slots THEN [passed EXCEPT ![k] = @ \cup {n}] ELSE passed
Note(k, what, if) == why' = IF if /\ k \in Slots THEN [why EXCEPT ![k] = @ \cup {what}] ELSE why

\* A node in an earlier slot's attempt that is not merely waiting out its hold,
\* or in a later slot's (whoever meets it is late by a whole interval).
Overrun(m, k) ==
  \/ Att(m).slot > k
  \/ Att(m).slot < k /\ ~(Att(m).pc = "hold" /\ ~HoldOver(m) /\ ~Att(m).going)

wake(n) == \E offset \in 0..(Window - 1) :
  /\ node[n].state = "running" /\ node[n].timer.slot # 0
  /\ Clock(n) >= node[n].timer.at
  /\ LET t == node[n].timer
         again == Timer(NextSlot(n, t.slot), offset)
         busy == Att(n).pc # "idle"
     IN /\ node' = [node EXCEPT ![n].timer = again,
                      ![n].att = IF busy THEN @
                                 ELSE [NoAttempt EXCEPT !.pc = "acquire", !.slot = t.slot,
                                                        !.due = t.at]]
        /\ IF busy THEN Pass(n, t.slot) ELSE UNCHANGED passed
        /\ Note(t.slot, "overrun", busy /\ Overrun(n, t.slot))
  /\ UNCHANGED <<env, lock, runs>>

\* Late: the lock is asked for later than the second window allows for.
Spread == CHOOSE d \in 0..Window : /\ \E m, n \in Nodes : lag[m] = lag[n] + d
                                   /\ \A m, n \in Nodes : lag[m] <= lag[n] + d
Tardy(n) == Clock(n) + Spread > Att(n).due + Window

\* pg_try_advisory_lock on a connection of the attempt's own.
tryAcquire(n) ==
  LET a == Att(n) IN
  /\ a.pc = "acquire"
  /\ \/ /\ lock = None
        /\ lock' = n
        /\ Set(n, [a EXCEPT !.pc = "leased"])
        /\ Note(a.slot, "tardy", Tardy(n))
        /\ UNCHANGED <<faults, passed>>
     \/ /\ lock # None
        /\ Set(n, NoAttempt)
        /\ Pass(n, a.slot)
        /\ Note(a.slot, "overrun", Overrun(lock, a.slot))
        /\ UNCHANGED <<faults, lock>>
     \/ /\ "error" \in Faults /\ faults < MaxFaults
        /\ faults' = faults + 1
        /\ Set(n, NoAttempt)
        /\ Pass(n, a.slot) /\ Note(a.slot, "error", TRUE)
        /\ UNCHANGED lock
  /\ UNCHANGED <<now, lag, runs>>

\* With the lease in hand: nothing at shutdown or once the slot has closed, else the run.
MayRun(n) == ~Stopping(n) /\ Clock(n) < holdUntil(n)

begin(n) ==
  LET a == Att(n) IN
  /\ a.pc = "leased"
  /\ \/ /\ MayRun(n)
        /\ Set(n, [a EXCEPT !.pc = "run", !.going = TRUE, !.since = Clock(n)])
        /\ runs' = IF a.slot \in Slots THEN [runs EXCEPT ![a.slot] = @ + 1] ELSE runs
        /\ UNCHANGED <<passed, why>>
     \/ /\ ~MayRun(n)
        /\ Set(n, [a EXCEPT !.pc = "release"])
        /\ Pass(n, a.slot) /\ Note(a.slot, "closed", TRUE)
        /\ UNCHANGED runs
  /\ UNCHANGED <<env, lock>>

\* The run's promise settles, whether or not the runner still waits for it.
settle(n) ==
  /\ Att(n).going
  /\ Set(n, [Att(n) EXCEPT !.going = FALSE, !.pc = IF @ = "run" THEN "hold" ELSE @])
  /\ UNCHANGED <<env, lock, ghosts>>

\* mutant: the run is not told
ExecuteUntold(n) ==
  /\ Att(n).pc = "run" /\ Att(n).going
  /\ Att(n).lost \/ Clock(n) >= Att(n).since + Timeout
  /\ Set(n, [Att(n) EXCEPT !.pc = "hold"])
  /\ UNCHANGED <<env, lock, ghosts>>

\* The runner stops waiting: the time limit, the lost lock; the run is told.
execute(n) ==
  /\ Att(n).pc = "run" /\ Att(n).going
  /\ Att(n).lost \/ Clock(n) >= Att(n).since + Timeout
  /\ Set(n, [Att(n) EXCEPT !.pc = "hold", !.sig = TRUE])
  /\ UNCHANGED <<env, lock, ghosts>>

hold(n) ==
  /\ Att(n).pc = "hold" /\ HoldOver(n)
  /\ Set(n, [Att(n) EXCEPT !.pc = "release"])
  /\ UNCHANGED <<env, lock, ghosts>>

\* Unlock, or close the connection: either way Postgres lets the lock go.  A
\* run given up on keeps the job busy on this node until it settles.
release(n) ==
  /\ Att(n).pc = "release"
  /\ lock' = IF lock = n THEN None ELSE lock
  /\ Set(n, [Att(n) EXCEPT !.pc = "settle"])
  /\ UNCHANGED <<env, ghosts>>

finished(n) ==
  /\ Att(n).pc = "settle" /\ ~Att(n).going
  /\ Set(n, NoAttempt)
  /\ UNCHANGED <<env, lock, ghosts>>

(***************************************************************************)
(* Faults.  A fault excuses the slot its node is in, and the one it would  *)
(* have woken for next.                                                    *)
(***************************************************************************)
Fault(kind, n) ==
  /\ kind \in Faults /\ faults < MaxFaults
  /\ faults' = faults + 1
  /\ why' = [k \in Slots |-> IF k \in {Att(n).slot, node[n].timer.slot}
                               THEN why[k] \cup {kind} ELSE why[k]]
  /\ UNCHANGED <<now, lag, runs, passed>>

\* stopGracefully: no more timers, the shutdown signal reaches the run.
stop(n) ==
  /\ node[n].state = "running" /\ Fault("stop", n)
  /\ node' = [node EXCEPT ![n].state = "stopped", ![n].timer = NoTimer,
                          ![n].att.sig = @ \/ Att(n).going]
  /\ UNCHANGED lock

\* The shutdown limit passed: the run is given up and its lock released.
abandon(n) ==
  /\ Stopping(n) /\ Att(n).pc = "run"
  /\ Set(n, [Att(n) EXCEPT !.pc = "release"])
  /\ UNCHANGED <<env, lock, ghosts>>

\* The lock's connection drops: Postgres frees the lock at once, the node hears later.
connectionLost(n) ==
  /\ lock = n /\ node[n].state # "down" /\ Fault("lost", n)
  /\ lock' = None
  /\ UNCHANGED node

onError(n) ==
  /\ Att(n).pc \in {"leased", "run", "hold"} /\ lock # n /\ ~Att(n).lost
  /\ Set(n, [Att(n) EXCEPT !.lost = TRUE])
  /\ UNCHANGED <<env, lock, ghosts>>

crash(n) ==
  /\ node[n].state # "down" /\ Fault("crash", n)
  /\ node' = [node EXCEPT ![n] = [state |-> "down", att |-> NoAttempt, timer |-> NoTimer]]
  /\ UNCHANGED lock

\* Postgres notices the dead node's connection and drops its lock.
serverDrops(n) ==
  /\ node[n].state = "down" /\ lock = n
  /\ lock' = None
  /\ UNCHANGED <<env, node, ghosts>>

start(n) == \E offset \in 0..(Window - 1) :
  /\ node[n].state = "down" /\ lock # n
  /\ node' = [node EXCEPT ![n].state = "running", ![n].timer = Timer(NextSlot(n, 0), offset)]
  /\ UNCHANGED <<env, lock, ghosts>>

Tick == now < Until /\ now' = now + 1 /\ UNCHANGED <<lag, faults, node, lock, ghosts>>

Step(n) == \/ wake(n) \/ tryAcquire(n) \/ begin(n) \/ settle(n) \/ execute(n) \/ hold(n)
           \/ release(n) \/ finished(n) \/ stop(n) \/ abandon(n) \/ connectionLost(n)
           \/ onError(n) \/ crash(n) \/ serverDrops(n) \/ start(n)

Next == Tick \/ \E n \in Nodes : Step(n)

Spec == Init /\ [][Next]_vars

-----------------------------------------------------------------------------
Grid == {k * Interval : k \in 0..(Until \div Interval + 2)}

TimerType == [slot : Grid, at : Nat]
AttemptType == [pc : {"idle", "acquire", "leased", "run", "hold", "release", "settle"},
                slot : Grid, due : Nat, lost : BOOLEAN, going : BOOLEAN, sig : BOOLEAN, since : Nat]
NodeType == [state : {"running", "stopped", "down"}, timer : TimerType, att : AttemptType]
Notes == Faults \cup {"tardy", "overrun", "closed"}

\* The shape of the state; timers and attempts are for slots of the common grid.
TypeOK ==
  /\ now \in From..Until /\ lag \in Lags /\ faults \in 0..MaxFaults
  /\ node \in [Nodes -> NodeType]
  /\ lock \in Nodes \cup {None}
  /\ runs \in [Slots -> Nat] /\ passed \in [Slots -> SUBSET Nodes]
  /\ why \in [Slots -> SUBSET Notes]

\* A slot is run at most once over all nodes. The exceptions: the winner
\* crashed, stopped or lost its lock in that slot, or a node was late by more
\* than the second window leaves beside the clocks' disagreement. Nodes whose
\* clocks agree run it once however late a timer fires.
OncePerSlot ==
  \A k \in Slots : runs[k] > 1 => why[k] \cap {"crash", "stop", "lost"} # {} \/ (Spread # 0 /\ "tardy" \in why[k])

\* A run that was not told to stop holds the job's lock, unless the lock's
\* connection dropped: so two runs overlap only where one was told to stop and
\* did not, or a dropped connection was not noticed yet.
RunHoldsLock ==
  \A n \in Nodes : Att(n).going /\ ~Att(n).sig =>
    lock = n \/ "lost" \in why[Att(n).slot]

\* What the module comment of the runner says: each job is on one node at a
\* time, the one exception a run that ignores its signal.
OneNodeAtATime ==
  \A m, n \in Nodes : m # n /\ Att(m).going /\ Att(n).going => Att(m).sig \/ Att(n).sig

\* A slot nodes woke for is run by one of them, unless something went wrong in
\* it: keeping the lock past the run never costs the next slot its run.
NoSlotSkipped ==
  \A k \in Slots :
    runs[k] = 0 /\ passed[k] # {}
      /\ (\A n \in Nodes : n \in passed[k] \/ (Att(n).slot # k /\ node[n].timer.slot # k))
    => why[k] # {}

\* The lock is kept as the runner means it: the slots are those of the common
\* grid, and whoever runs without having been told to stop holds the lock.
LockDiscipline == TypeOK /\ RunHoldsLock
============================================================================
