----------------------------- MODULE Scheduler -----------------------------
(***************************************************************************)
(* computekernel_edu/scheduler.py: the preemptive round-robin scheduler of *)
(* one CPU.  A thread is its object, which dataclass equality makes the    *)
(* same as its tid because no tid is in use twice.  The statistics         *)
(* (tick_count, _context_switches), wait_reason and the log are left out:  *)
(* no method decides anything on them.                                     *)
(*                                                                         *)
(* Two clients are modelled.  Next is the client the repository has: the   *)
(* boot pipeline and the tests hand a thread to add_thread once, when it   *)
(* has just been spawned, and never call remove_thread.  ApiNext calls     *)
(* every public method in every state it accepts.                          *)
(***************************************************************************)
EXTENDS Integers, Sequences, SequencesExt, Lists

CONSTANTS
  Thread,       \* the threads of the ThreadTable, without the idle thread
  Timeslice,    \* Thread.timeslice
  Idle,         \* the idle thread, which is never in the run queue
  NoThread,     \* Python's None
  MaxEntries    \* bound on the entries of both lists under ApiNext

ASSUME TimesliceAssumption == Timeslice \in [Thread -> Nat \ {0}]
ASSUME SentinelAssumption  ==
  Idle \notin Thread /\ NoThread \notin Thread /\ Idle # NoThread

VARIABLES
  runqueue,     \* Scheduler.runqueue, a list
  blocked,      \* Scheduler._blocked, a list
  current,      \* Scheduler.current_thread
  state,        \* Thread.state
  remaining     \* Thread.remaining_ticks

vars == <<runqueue, blocked, current, state, remaining>>

States == {"NEW", "RUNNABLE", "RUNNING", "SLEEP_INT"}

Queued   == ToSet(runqueue)
Sleeping == ToSet(blocked)

Init ==
  /\ runqueue = <<>>
  /\ blocked = <<>>
  /\ current = NoThread
  /\ state = [t \in Thread |-> "NEW"]
  /\ remaining = Timeslice

----------------------------------------------------------------------------
(* The methods.  The branches of block_thread and wake_thread that only    *)
(* warn change nothing and are stuttering steps.                           *)

AddThread(t) ==
  /\ state' = [state EXCEPT ![t] = "RUNNABLE"]
  /\ runqueue' = IF t \in Queued THEN runqueue ELSE Append(runqueue, t)
  /\ UNCHANGED <<blocked, current, remaining>>

RemoveThread(t) ==
  /\ runqueue' = Without(runqueue, {t})
  /\ UNCHANGED <<blocked, current, state, remaining>>

\* Mutant: the thread that sleeps stays current_thread.
CurrentStays(t) == current

CurrentAfterBlock(t) == IF current = t THEN NoThread ELSE current

BlockThread(t) ==
  /\ t \in Queued
  /\ state' = [state EXCEPT ![t] = "SLEEP_INT"]
  /\ runqueue' = RemoveFirst(runqueue, t)
  /\ blocked' = Append(blocked, t)
  /\ current' = CurrentAfterBlock(t)
  /\ UNCHANGED remaining

\* Mutant: the woken thread goes to the front.
WakeThreadFirst(t) ==
  /\ t \in Sleeping
  /\ state' = [state EXCEPT ![t] = "RUNNABLE"]
  /\ blocked' = RemoveFirst(blocked, t)
  /\ runqueue' = <<t>> \o runqueue
  /\ UNCHANGED <<current, remaining>>

WakeThread(t) ==
  /\ t \in Sleeping
  /\ state' = [state EXCEPT ![t] = "RUNNABLE"]
  /\ blocked' = RemoveFirst(blocked, t)
  /\ runqueue' = Append(runqueue, t)
  /\ UNCHANGED <<current, remaining>>

----------------------------------------------------------------------------
(* tick(): one timer interrupt.                                            *)

\* Mutant: a current thread that has left the queue is not noticed.
DispatchingIfNone == current \notin Thread

\* The thread the tick is charged to: the head of the queue is dispatched
\* when nobody runs or when the current thread is not in the queue.
Dispatching == current \notin Queued
Charged     == IF Dispatching THEN Head(runqueue) ELSE current

\* What is left of the slice of the charged thread after this tick.
Left == (IF Dispatching THEN Timeslice[Charged] ELSE remaining[Charged]) - 1

\* Mutant: the slice is one tick too long.
SliceOverLate == Left < 0

SliceOver == Left <= 0

TickIdle ==
  /\ runqueue = <<>>
  /\ current' = Idle
  /\ UNCHANGED <<runqueue, blocked, state, remaining>>

TickRun ==
  /\ runqueue # <<>>
  /\ ~SliceOver
  /\ current' = Charged
  /\ state' = IF Dispatching THEN [state EXCEPT ![Charged] = "RUNNING"] ELSE state
  /\ remaining' = [remaining EXCEPT ![Charged] = Left]
  /\ UNCHANGED <<runqueue, blocked>>

\* Mutants: no rotation; the current thread is taken for the head of the
\* queue.
RotatedNot  == runqueue
RotatedHead == Append(Tail(runqueue), Charged)

\* The slice is over: the charged thread goes to the tail with a full slice,
\* and the new head (itself, when it is alone) starts one.
Rotated == Append(RemoveFirst(runqueue, Charged), Charged)

TickExpire ==
  /\ runqueue # <<>>
  /\ SliceOver
  /\ runqueue' = Rotated
  /\ current' = Head(Rotated)
  /\ state' = [state EXCEPT ![Charged] = "RUNNABLE", ![Head(Rotated)] = "RUNNING"]
  /\ remaining' = [remaining EXCEPT ![Charged] = Timeslice[Charged],
                                    ![Head(Rotated)] = Timeslice[Head(Rotated)]]
  /\ UNCHANGED blocked

Tick == TickIdle \/ TickRun \/ TickExpire

----------------------------------------------------------------------------
\* Mutant: a thread is added again whatever it does.
AddAnytime(t) == AddThread(t)

\* boot.py and the tests add a thread once, fresh from ThreadTable.spawn.
AddFresh(t) == state[t] = "NEW" /\ AddThread(t)

Next ==
  \/ Tick
  \/ \E t \in Thread : AddFresh(t) \/ BlockThread(t) \/ WakeThread(t)

ApiNext ==
  \/ Tick
  \/ \E t \in Thread :
       \/ Len(runqueue) + Len(blocked) < MaxEntries /\ AddThread(t)
       \/ RemoveThread(t)
       \/ BlockThread(t)
       \/ WakeThread(t)

\* The timer goes on ticking; nothing is assumed of the threads.
Fairness == WF_vars(Tick)

Spec    == Init /\ [][Next]_vars
ApiSpec == Init /\ [][ApiNext]_vars
FairSpec == Spec /\ Fairness

----------------------------------------------------------------------------
(* Properties of both clients.                                             *)

\* The shape of the fields set by __init__ and the methods.
TypeOK ==
  /\ runqueue \in Seq(Thread)
  /\ blocked \in Seq(Thread)
  /\ current \in Thread \cup {Idle, NoThread}
  /\ state \in [Thread -> States]
  /\ remaining \in [Thread -> Nat]

\* Between two calls no thread has used up its slice or holds more than one:
\* tick() renews a slice in the call that exhausts it.
SliceBounds == \A t \in Thread : remaining[t] \in 1 .. Timeslice[t]

\* The thread on the CPU is never asleep, whatever the order in which
\* add_thread, remove_thread, block_thread, wake_thread and tick are called.
CurrentIsAwake == current \in Thread => state[current] \in {"RUNNABLE", "RUNNING"}

\* tick() never idles, nor runs a thread that is not queued, while the run
\* queue has a thread, even when current_thread is stale.
WorkConserving ==
  [][Tick /\ runqueue # <<>> => current' \in Queued']_vars

\* A thread the scheduler knows stays in one of its two lists: only
\* remove_thread makes the scheduler forget one, and never a sleeping one.
OnlyRemoveForgets ==
  [][\A t \in Thread :
       t \in Queued \cup Sleeping /\ t \notin Queued' \cup Sleeping'
         => RemoveThread(t) /\ t \notin Sleeping]_vars

----------------------------------------------------------------------------
(* Properties of the client the repository has.                            *)

\* No thread is queued twice, sleeps twice, or is queued while it sleeps.
NoDuplicates ==
  /\ IsInjective(runqueue)
  /\ IsInjective(blocked)
  /\ Queued \cap Sleeping = {}

\* The state of a thread says in which list it is.
PlacedByState ==
  /\ Queued = {t \in Thread : state[t] \in {"RUNNABLE", "RUNNING"}}
  /\ Sleeping = {t \in Thread : state[t] = "SLEEP_INT"}

\* The lists and the states of the threads say the same, and say it once.
ListsMatchStates == NoDuplicates /\ PlacedByState

\* At most one thread is RUNNING, it is current_thread, and it is the head
\* of the queue, so that everybody else is behind it.
OneRunning ==
  /\ \A t \in Thread : state[t] = "RUNNING" <=> current = t
  /\ current \in Thread => runqueue # <<>> /\ current = Head(runqueue)

\* The threads in front of t.
Ahead(q, t) == {q[i] : i \in {j \in 1 .. Len(q) : \A k \in 1 .. j : q[k] # t}}

\* Nobody overtakes a thread that waits, and the head gives up its place to
\* nobody before its slice is over: block, wake, add and tick keep the order
\* of the queue otherwise.
NoOvertaking ==
  [][\A t \in Queued \cap Queued' :
       \/ Ahead(runqueue', t) \subseteq Ahead(runqueue, t)
       \/ t = Head(runqueue) /\ t = Charged /\ SliceOver]_vars

\* The scheduler implements the task life cycle, and under a timer that goes
\* on ticking a thread that is ready runs, or is blocked by somebody, some day.
Lifecycle == INSTANCE TaskLifecycle WITH status <- state

ImplementsLifecycle == Lifecycle!Spec

----------------------------------------------------------------------------
(* What the documentation says.                                            *)

\* A round-robin scheduler (scheduler.py:22-27) gives every ready thread its
\* turn, unless somebody blocks it first, as long as the timer ticks.
ReadyThreadsRun ==
  \A t \in Thread : state[t] = "RUNNABLE" ~> state[t] # "RUNNABLE"
=============================================================================
