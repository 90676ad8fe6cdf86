-------------------------- MODULE SchedulerProofs --------------------------
(***************************************************************************)
(* Theorems about Scheduler and SchedulerWait for every finite set of      *)
(* threads and every assignment of time slices.                            *)
(***************************************************************************)
EXTENDS SchedulerWait, ListLemmas, FiniteSetTheorems

\* The inductive invariant: the lists, the states and current_thread only
\* determine each other together.
SchedInv == TypeOK /\ NoDuplicates /\ PlacedByState /\ OneRunning

----------------------------------------------------------------------------
(* tick() charges the head of the queue and rotates it.                    *)

LEMMA ChargedIsHead ==
  ASSUME SchedInv, runqueue # <<>>
  PROVE  /\ Charged = Head(runqueue)
         /\ Charged \in Queued
         /\ Charged \in Thread
<1>1. Head(runqueue) \in Queued /\ Head(runqueue) \in Thread
  <2>1. Len(runqueue) \in Nat \ {0} /\ DOMAIN runqueue = 1 .. Len(runqueue)
    BY EmptySeq, LenProperties DEF SchedInv, TypeOK
  <2>2. Head(runqueue) = runqueue[1] /\ 1 \in DOMAIN runqueue
    BY <2>1, HeadTailProperties DEF SchedInv, TypeOK
  <2> QED BY <2>1, <2>2, ElementOfSeq DEF Queued, ToSet, SchedInv, TypeOK
<1>2. current \in Queued => current = Head(runqueue)
  BY DEF SchedInv, OneRunning, PlacedByState
<1> QED BY <1>1, <1>2 DEF Charged, Dispatching

LEMMA RotatedFacts ==
  ASSUME SchedInv, runqueue # <<>>
  PROVE  /\ Rotated \in Seq(Thread)
         /\ IsInjective(Rotated)
         /\ ToSet(Rotated) = Queued
         /\ Rotated # <<>>
         /\ Head(Rotated) \in Queued
         /\ Head(Rotated) \in Thread
<1> DEFINE r == RemoveFirst(runqueue, Charged)
<1>1. Charged \in ToSet(runqueue) /\ Charged \in Thread
  BY ChargedIsHead DEF Queued
<1>2. runqueue \in Seq(Thread) /\ IsInjective(runqueue)
  BY DEF SchedInv, TypeOK, NoDuplicates
<1>3. r \in Seq(Thread) /\ IsInjective(r) /\ ToSet(r) = Queued \ {Charged}
  BY <1>1, <1>2, RemoveFirstInjective DEF Queued
<1> HIDE DEF r
<1>4. /\ Append(r, Charged) \in Seq(Thread)
      /\ IsInjective(Append(r, Charged))
      /\ ToSet(Append(r, Charged)) = ToSet(r) \cup {Charged}
      /\ Append(r, Charged) # <<>>
  BY <1>1, <1>3, AppendInjectiveList
<1>5. Rotated = Append(r, Charged)
  BY DEF Rotated, r
<1>6. ToSet(Rotated) = Queued
  BY <1>1, <1>3, <1>4, <1>5 DEF Queued
<1>7. Head(Rotated) \in ToSet(Rotated) /\ Head(Rotated) \in Thread
  <2>1. Len(Rotated) \in Nat \ {0} /\ DOMAIN Rotated = 1 .. Len(Rotated)
    BY <1>4, <1>5, EmptySeq, LenProperties
  <2>2. Head(Rotated) = Rotated[1] /\ 1 \in DOMAIN Rotated
    BY <1>4, <1>5, <2>1, HeadTailProperties
  <2> QED BY <1>4, <1>5, <2>1, <2>2, ElementOfSeq DEF ToSet
<1> QED BY <1>4, <1>5, <1>6, <1>7

----------------------------------------------------------------------------
LEMMA InitSchedInv == Init => SchedInv
<1> SUFFICES ASSUME Init PROVE SchedInv
  OBVIOUS
<1>1. runqueue = <<>> /\ blocked = <<>> /\ Queued = {} /\ Sleeping = {}
  BY DEF Init, Queued, Sleeping, ToSet
<1>2. TypeOK
  BY TimesliceAssumption, EmptySeq DEF Init, TypeOK, States
<1>3. NoDuplicates
  BY <1>1 DEF NoDuplicates, IsInjective
<1>4. PlacedByState /\ OneRunning
  BY <1>1, SentinelAssumption DEF Init, PlacedByState, OneRunning
<1> QED BY <1>2, <1>3, <1>4 DEF SchedInv

LEMMA AddKeepsSchedInv ==
  ASSUME SchedInv, NEW t \in Thread, AddFresh(t)
  PROVE  SchedInv'
<1> USE DEF SchedInv, TypeOK
<1>1. t \notin Queued /\ t \notin Sleeping /\ current # t
  BY DEF AddFresh, PlacedByState, OneRunning
<1>2. /\ runqueue' = Append(runqueue, t)
      /\ state' = [state EXCEPT ![t] = "RUNNABLE"]
      /\ UNCHANGED <<blocked, current, remaining>>
  BY <1>1 DEF AddFresh, AddThread
<1>3. /\ runqueue' \in Seq(Thread) /\ IsInjective(runqueue') /\ runqueue' # <<>>
      /\ Queued' = Queued \cup {t}
      /\ runqueue # <<>> => Head(runqueue') = Head(runqueue)
  BY <1>1, <1>2, AppendInjectiveList DEF Queued, NoDuplicates
<1>4. TypeOK'
  BY <1>2, <1>3 DEF States
<1>5. NoDuplicates'
  BY <1>1, <1>2, <1>3 DEF NoDuplicates, Sleeping
<1>6. PlacedByState'
  BY <1>1, <1>2, <1>3 DEF PlacedByState, Sleeping
<1>7. OneRunning'
  BY <1>1, <1>2, <1>3 DEF OneRunning
<1> QED BY <1>4, <1>5, <1>6, <1>7

LEMMA BlockKeepsSchedInv ==
  ASSUME SchedInv, NEW t \in Thread, BlockThread(t)
  PROVE  SchedInv'
<1> USE DEF SchedInv, TypeOK
<1>1. t \in Queued /\ t \notin Sleeping
  BY DEF BlockThread, NoDuplicates
<1>2. /\ runqueue' \in Seq(Thread) /\ IsInjective(runqueue')
      /\ Queued' = Queued \ {t}
      /\ t # Head(runqueue) => runqueue' # <<>> /\ Head(runqueue') = Head(runqueue)
  BY <1>1, RemoveFirstInjective DEF BlockThread, Queued, NoDuplicates
<1>3. /\ blocked' \in Seq(Thread) /\ IsInjective(blocked')
      /\ Sleeping' = Sleeping \cup {t}
  BY <1>1, AppendInjectiveList DEF BlockThread, Sleeping, NoDuplicates
<1>4. TypeOK'
  BY <1>2, <1>3 DEF BlockThread, CurrentAfterBlock, States
<1>5. NoDuplicates'
  BY <1>1, <1>2, <1>3 DEF NoDuplicates
<1>6. PlacedByState'
  BY <1>1, <1>2, <1>3 DEF PlacedByState, BlockThread
<1>7. OneRunning'
  BY <1>1, <1>2, SentinelAssumption DEF OneRunning, BlockThread, CurrentAfterBlock
<1> QED BY <1>4, <1>5, <1>6, <1>7

LEMMA WakeKeepsSchedInv ==
  ASSUME SchedInv, NEW t \in Thread, WakeThread(t)
  PROVE  SchedInv'
<1> USE DEF SchedInv, TypeOK
<1>1. t \in Sleeping /\ t \notin Queued /\ current # t
  BY DEF WakeThread, NoDuplicates, PlacedByState, OneRunning
<1>2. /\ runqueue' \in Seq(Thread) /\ IsInjective(runqueue') /\ runqueue' # <<>>
      /\ Queued' = Queued \cup {t}
      /\ runqueue # <<>> => Head(runqueue') = Head(runqueue)
  BY <1>1, AppendInjectiveList DEF WakeThread, Queued, NoDuplicates
<1>3. /\ blocked' \in Seq(Thread) /\ IsInjective(blocked')
      /\ Sleeping' = Sleeping \ {t}
  BY <1>1, RemoveFirstInjective DEF WakeThread, Sleeping, NoDuplicates
<1>4. TypeOK'
  BY <1>2, <1>3 DEF WakeThread, States
<1>5. NoDuplicates'
  BY <1>1, <1>2, <1>3 DEF NoDuplicates
<1>6. PlacedByState'
  BY <1>1, <1>2, <1>3 DEF PlacedByState, WakeThread
<1>7. OneRunning'
  BY <1>1, <1>2 DEF OneRunning, WakeThread
<1> QED BY <1>4, <1>5, <1>6, <1>7

LEMMA TickKeepsSchedInv ==
  ASSUME SchedInv, Tick
  PROVE  SchedInv'
<1> USE DEF SchedInv, TypeOK
<1>1. CASE TickIdle
  <2>1. current \notin Thread
    BY <1>1 DEF TickIdle, OneRunning
  <2> QED BY <1>1, <2>1, SentinelAssumption
          DEF TickIdle, NoDuplicates, PlacedByState, OneRunning, Queued, Sleeping
<1>2. CASE TickRun
  <2>1. runqueue # <<>> /\ Charged = Head(runqueue) /\ Charged \in Queued /\ Charged \in Thread
    BY <1>2, ChargedIsHead DEF TickRun
  <2>2. Dispatching => current \notin Thread
    BY DEF Dispatching, OneRunning, PlacedByState
  <2>3. Left \in Nat
    <3>1. Timeslice[Charged] \in Nat /\ remaining[Charged] \in Nat
      BY <2>1, TimesliceAssumption
    <3>2. Left \in Int
      BY <3>1 DEF Left
    <3> QED BY <1>2, <3>2 DEF TickRun, SliceOver
  <2>4. TypeOK'
    BY <1>2, <2>1, <2>3 DEF TickRun, States
  <2>5. NoDuplicates'
    BY <1>2 DEF TickRun, NoDuplicates, Queued, Sleeping
  <2>6. PlacedByState'
    BY <1>2, <2>1 DEF TickRun, PlacedByState, Queued, Sleeping
  <2>7. OneRunning'
    <3>1. CASE Dispatching
      BY <1>2, <2>1, <2>2, <3>1 DEF TickRun, OneRunning
    <3>2. CASE ~Dispatching
      BY <1>2, <2>1, <3>2 DEF TickRun, OneRunning, Charged
    <3> QED BY <3>1, <3>2
  <2> QED BY <2>4, <2>5, <2>6, <2>7
<1>3. CASE TickExpire
  <2>1. runqueue # <<>> /\ Charged = Head(runqueue) /\ Charged \in Queued /\ Charged \in Thread
    BY <1>3, ChargedIsHead DEF TickExpire
  <2>2. /\ Rotated \in Seq(Thread) /\ IsInjective(Rotated) /\ Rotated # <<>>
        /\ ToSet(Rotated) = Queued
        /\ Head(Rotated) \in Queued /\ Head(Rotated) \in Thread
    BY <2>1, RotatedFacts
  <2> DEFINE c == Charged
             h == Head(Rotated)
  <2>3. /\ runqueue' = Rotated /\ blocked' = blocked /\ current' = h
        /\ state' = [state EXCEPT ![c] = "RUNNABLE", ![h] = "RUNNING"]
        /\ remaining' = [remaining EXCEPT ![c] = Timeslice[c], ![h] = Timeslice[h]]
    BY <1>3 DEF TickExpire
  <2>4. \A t \in Thread : state[t] = "RUNNING" => t = c
    <3>1. \A t \in Thread : state[t] = "RUNNING" => current = t /\ current = Head(runqueue)
      BY DEF OneRunning
    <3> QED BY <2>1, <3>1
  <2> HIDE DEF c, h
  <2>5. c \in Queued /\ c \in Thread /\ h \in Queued /\ h \in Thread
    BY <2>1, <2>2 DEF c, h
  <2>6. \A t \in Thread : state'[t] = IF t = h THEN "RUNNING" ELSE IF t = c THEN "RUNNABLE" ELSE state[t]
    BY <2>3, <2>5
  <2>7. Queued' = Queued /\ Sleeping' = Sleeping
    BY <2>2, <2>3 DEF Queued, Sleeping
  <2>8. TypeOK'
    BY <2>2, <2>3, <2>5, TimesliceAssumption DEF States
  <2>9. NoDuplicates'
    BY <2>2, <2>3, <2>7 DEF NoDuplicates
  <2>10. PlacedByState'
    BY <2>5, <2>6, <2>7 DEF PlacedByState
  <2>11. OneRunning'
    <3>1. current' = Head(runqueue') /\ runqueue' # <<>>
      BY <2>2, <2>3 DEF h
    <3>2. \A t \in Thread : state'[t] = "RUNNING" <=> current' = t
      BY <2>3, <2>4, <2>6
    <3> QED BY <3>1, <3>2 DEF OneRunning
  <2> QED BY <2>8, <2>9, <2>10, <2>11
<1> QED BY <1>1, <1>2, <1>3 DEF Tick

\* What a step preserves, for the theorems below.
LEMMA SchedInvStep == SchedInv /\ [Next]_vars => SchedInv'
<1> SUFFICES ASSUME SchedInv, [Next]_vars PROVE SchedInv'
  OBVIOUS
<1>1. CASE Tick
  BY <1>1, TickKeepsSchedInv
<1>2. ASSUME NEW t \in Thread, AddFresh(t) PROVE SchedInv'
  BY <1>2, AddKeepsSchedInv
<1>3. ASSUME NEW t \in Thread, BlockThread(t) PROVE SchedInv'
  BY <1>3, BlockKeepsSchedInv
<1>4. ASSUME NEW t \in Thread, WakeThread(t) PROVE SchedInv'
  BY <1>4, WakeKeepsSchedInv
<1>5. CASE UNCHANGED vars
  BY <1>5 DEF vars, SchedInv, TypeOK, NoDuplicates, PlacedByState, OneRunning,
              Queued, Sleeping
<1> QED BY <1>1, <1>2, <1>3, <1>4, <1>5 DEF Next

\* The lists agree with the thread states and with current_thread, without
\* duplicates, for the client boot.py is: every method keeps them so.
THEOREM SchedulerSafe ==
  Spec => [](TypeOK /\ ListsMatchStates /\ OneRunning)
BY InitSchedInv, SchedInvStep, PTL DEF Spec, SchedInv, ListsMatchStates

\* The queue and the list of sleepers are the threads in the states that say
\* so, each once: no method moves a thread without changing its state.
THEOREM ListsAgree == Spec => []ListsMatchStates
BY InitSchedInv, SchedInvStep, PTL DEF Spec, SchedInv, ListsMatchStates

----------------------------------------------------------------------------
\* Whatever the order of the calls, the thread on the CPU is not asleep:
\* block_thread clears current_thread, and tick() only installs a thread it
\* has just marked RUNNING.
THEOREM AwakeOnCpu == ApiSpec => []CurrentIsAwake
<1> DEFINE Inv == CurrentIsAwake /\ state \in [Thread -> States]
<1>1. Init => Inv
  BY SentinelAssumption DEF Init, CurrentIsAwake, States
<1>2. Inv /\ [ApiNext]_vars => Inv'
  <2> SUFFICES ASSUME Inv, [ApiNext]_vars PROVE Inv'
    OBVIOUS
  <2> USE DEF CurrentIsAwake, States
  <2>1. CASE TickIdle
    BY <2>1, SentinelAssumption DEF TickIdle
  <2>2. CASE TickRun
    <3>1. CASE Dispatching
      BY <2>2, <3>1 DEF TickRun
    <3>2. CASE ~Dispatching
      BY <2>2, <3>2 DEF TickRun, Charged
    <3> QED BY <3>1, <3>2
  <2>3. CASE TickExpire
    BY <2>3 DEF TickExpire
  <2>4. ASSUME NEW t \in Thread, AddThread(t) PROVE Inv'
    BY <2>4 DEF AddThread
  <2>5. ASSUME NEW t \in Thread, RemoveThread(t) PROVE Inv'
    BY <2>5 DEF RemoveThread
  <2>6. ASSUME NEW t \in Thread, BlockThread(t) PROVE Inv'
    BY <2>6, SentinelAssumption DEF BlockThread, CurrentAfterBlock
  <2>7. ASSUME NEW t \in Thread, WakeThread(t) PROVE Inv'
    BY <2>7 DEF WakeThread
  <2>8. CASE UNCHANGED vars
    BY <2>8 DEF vars
  <2> QED BY <2>1, <2>2, <2>3, <2>4, <2>5, <2>6, <2>7, <2>8 DEF ApiNext, Tick
<1> QED BY <1>1, <1>2, PTL DEF ApiSpec

----------------------------------------------------------------------------
(* The lists when any method may be called at any time: a thread may be in *)
(* them more than once.                                                    *)

\* tick() charges a queued thread even when current_thread is stale.
LEMMA ChargedIsQueued ==
  ASSUME TypeOK, runqueue # <<>>
  PROVE  Charged \in Queued /\ Charged \in Thread
<1>1. runqueue \in Seq(Thread) /\ Len(runqueue) \in Nat \ {0} /\ DOMAIN runqueue = 1 .. Len(runqueue)
  BY EmptySeq, LenProperties DEF TypeOK
<1>2. Head(runqueue) = runqueue[1] /\ 1 \in DOMAIN runqueue
  BY <1>1, HeadTailProperties
<1>3. Head(runqueue) \in Queued
  BY <1>2 DEF Queued, ToSet
<1>4. \A t \in Queued : t \in Thread
  BY <1>1, ElementOfSeq DEF Queued, ToSet
<1> QED BY <1>3, <1>4 DEF Charged, Dispatching

\* Rotation keeps the threads of the queue.
LEMMA RotatedElements ==
  ASSUME TypeOK, runqueue # <<>>
  PROVE  /\ Rotated \in Seq(Thread) /\ ToSet(Rotated) = Queued
         /\ Head(Rotated) \in Queued /\ Head(Rotated) \in Thread
<1> DEFINE r == RemoveFirst(runqueue, Charged)
<1>1. runqueue \in Seq(Thread) /\ Charged \in ToSet(runqueue) /\ Charged \in Thread
  BY ChargedIsQueued DEF TypeOK, Queued
<1>2. /\ r \in Seq(Thread) /\ ToSet(r) \subseteq ToSet(runqueue)
      /\ ToSet(runqueue) \ {Charged} \subseteq ToSet(r)
  BY <1>1, RemoveFirstElements
<1> HIDE DEF r
<1>3. /\ Append(r, Charged) \in Seq(Thread) /\ Append(r, Charged) # <<>>
      /\ ToSet(Append(r, Charged)) = ToSet(r) \cup {Charged}
  BY <1>1, <1>2, AppendElements
<1>4. Rotated = Append(r, Charged)
  BY DEF Rotated, r
<1>5. Rotated \in Seq(Thread) /\ Rotated # <<>> /\ ToSet(Rotated) = Queued
  BY <1>1, <1>2, <1>3, <1>4 DEF Queued
<1>6. Len(Rotated) \in Nat \ {0} /\ DOMAIN Rotated = 1 .. Len(Rotated)
  BY <1>5, EmptySeq, LenProperties
<1>7. Head(Rotated) = Rotated[1] /\ 1 \in DOMAIN Rotated /\ Rotated[1] \in Thread
  BY <1>5, <1>6, HeadTailProperties, ElementOfSeq
<1> QED BY <1>5, <1>7 DEF ToSet

\* What each call does to the threads in the lists.
LEMMA ListsAfterCall ==
  ASSUME TypeOK, NEW t \in Thread
  PROVE  /\ AddThread(t) => runqueue' \in Seq(Thread) /\ Queued' = Queued \cup {t}
         /\ RemoveThread(t) => runqueue' \in Seq(Thread) /\ Queued' = Queued \ {t}
         /\ BlockThread(t) => /\ runqueue' \in Seq(Thread) /\ Queued \ {t} \subseteq Queued'
                              /\ blocked' \in Seq(Thread) /\ Sleeping' = Sleeping \cup {t}
         /\ WakeThread(t) => /\ runqueue' \in Seq(Thread) /\ Queued' = Queued \cup {t}
                             /\ blocked' \in Seq(Thread) /\ Sleeping \ {t} \subseteq Sleeping'
<1> USE DEF Queued, Sleeping
<1>1. runqueue \in Seq(Thread) /\ blocked \in Seq(Thread)
  BY DEF TypeOK
<1>2. ASSUME AddThread(t)
      PROVE  runqueue' \in Seq(Thread) /\ Queued' = Queued \cup {t}
  <2>1. CASE t \in Queued
    <3>1. runqueue' = runqueue
      BY <1>2, <2>1 DEF AddThread
    <3> QED BY <1>1, <2>1, <3>1
  <2>2. CASE t \notin Queued
    <3>1. runqueue' = Append(runqueue, t)
      BY <1>2, <2>2 DEF AddThread
    <3> QED BY <1>1, <3>1, AppendElements
  <2> QED BY <2>1, <2>2
<1>3. ASSUME RemoveThread(t)
      PROVE  runqueue' \in Seq(Thread) /\ Queued' = Queued \ {t}
  <2>1. runqueue' = Without(runqueue, {t})
    BY <1>3 DEF RemoveThread
  <2> QED BY <1>1, <2>1, WithoutKeeps, WithoutElements
<1>4. ASSUME BlockThread(t)
      PROVE  /\ runqueue' \in Seq(Thread) /\ Queued \ {t} \subseteq Queued'
             /\ blocked' \in Seq(Thread) /\ Sleeping' = Sleeping \cup {t}
  <2>1. t \in ToSet(runqueue) /\ runqueue' = RemoveFirst(runqueue, t) /\ blocked' = Append(blocked, t)
    BY <1>4 DEF BlockThread
  <2> QED BY <1>1, <2>1, RemoveFirstElements, AppendElements
<1>5. ASSUME WakeThread(t)
      PROVE  /\ runqueue' \in Seq(Thread) /\ Queued' = Queued \cup {t}
             /\ blocked' \in Seq(Thread) /\ Sleeping \ {t} \subseteq Sleeping'
  <2>1. t \in ToSet(blocked) /\ blocked' = RemoveFirst(blocked, t) /\ runqueue' = Append(runqueue, t)
    BY <1>5 DEF WakeThread
  <2> QED BY <1>1, <2>1, RemoveFirstElements, AppendElements
<1> QED BY <1>2, <1>3, <1>4, <1>5

LEMMA ApiTyped == TypeOK /\ [ApiNext]_vars => TypeOK'
<1> SUFFICES ASSUME TypeOK, [ApiNext]_vars PROVE TypeOK'
  OBVIOUS
<1>1. CASE TickIdle
  BY <1>1 DEF TickIdle, TypeOK
<1>2. CASE TickRun
  <2>1. Charged \in Thread
    BY <1>2, ChargedIsQueued DEF TickRun
  <2>2. Left \in Nat
    <3>1. Timeslice[Charged] \in Nat /\ remaining[Charged] \in Nat
      BY <2>1, TimesliceAssumption DEF TypeOK
    <3>2. Left \in Int
      BY <3>1 DEF Left
    <3> QED BY <1>2, <3>2 DEF TickRun, SliceOver
  <2> QED BY <1>2, <2>1, <2>2 DEF TickRun, TypeOK, States
<1>3. CASE TickExpire
  <2>1. /\ Charged \in Thread /\ Rotated \in Seq(Thread) /\ Head(Rotated) \in Thread
    BY <1>3, ChargedIsQueued, RotatedElements DEF TickExpire
  <2> QED BY <1>3, <2>1, TimesliceAssumption DEF TickExpire, TypeOK, States
<1>4. ASSUME NEW t \in Thread, AddThread(t) PROVE TypeOK'
  BY <1>4, ListsAfterCall DEF AddThread, TypeOK, States
<1>5. ASSUME NEW t \in Thread, RemoveThread(t) PROVE TypeOK'
  BY <1>5, ListsAfterCall DEF RemoveThread, TypeOK
<1>6. ASSUME NEW t \in Thread, BlockThread(t) PROVE TypeOK'
  BY <1>6, ListsAfterCall DEF BlockThread, CurrentAfterBlock, TypeOK, States
<1>7. ASSUME NEW t \in Thread, WakeThread(t) PROVE TypeOK'
  BY <1>7, ListsAfterCall DEF WakeThread, TypeOK, States
<1>8. CASE UNCHANGED vars
  BY <1>8 DEF vars, TypeOK
<1> QED BY <1>1, <1>2, <1>3, <1>4, <1>5, <1>6, <1>7, <1>8 DEF ApiNext, Tick

LEMMA InitTyped == Init => TypeOK
BY InitSchedInv DEF SchedInv

\* tick() renews a slice in the call that exhausts it, and nothing else
\* touches one.
LEMMA SlicesStep ==
  TypeOK /\ SliceBounds /\ ([Next]_vars \/ [ApiNext]_vars) => SliceBounds'
<1> SUFFICES ASSUME TypeOK, SliceBounds, [Next]_vars \/ [ApiNext]_vars PROVE SliceBounds'
  OBVIOUS
<1>1. remaining \in [Thread -> Nat]
  BY DEF TypeOK
<1>2. CASE TickRun
  <2>1. Charged \in Thread
    BY <1>2, ChargedIsQueued DEF TickRun
  <2>2. Left \in 1 .. Timeslice[Charged]
    <3>1. remaining[Charged] \in 1 .. Timeslice[Charged] /\ Timeslice[Charged] \in Nat
      BY <2>1, TimesliceAssumption DEF SliceBounds
    <3>2. Left \in Int /\ Left <= Timeslice[Charged]
      BY <3>1 DEF Left
    <3> QED BY <1>2, <3>1, <3>2 DEF TickRun, SliceOver
  <2> QED BY <1>1, <1>2, <2>2 DEF TickRun, SliceBounds
<1>3. CASE TickExpire
  <2>1. Charged \in Thread /\ Head(Rotated) \in Thread
    BY <1>3, ChargedIsQueued, RotatedElements DEF TickExpire
  <2>2. \A t \in Thread : Timeslice[t] \in 1 .. Timeslice[t]
    BY TimesliceAssumption
  <2> QED BY <1>1, <1>3, <2>1, <2>2 DEF TickExpire, SliceBounds
<1>4. CASE UNCHANGED remaining
  BY <1>4 DEF SliceBounds
<1> QED BY <1>2, <1>3, <1>4
        DEF Next, ApiNext, Tick, TickIdle, AddFresh, AddThread, RemoveThread, BlockThread,
            WakeThread, vars

\* Every slice is renewed in the tick that exhausts it (scheduler.py:132), under
\* every order of the public methods.
THEOREM SlicesBounded == ApiSpec => []SliceBounds
<1>1. Init => SliceBounds
  BY TimesliceAssumption DEF Init, SliceBounds
<1> QED BY <1>1, SlicesStep, InitTyped, ApiTyped, PTL DEF ApiSpec

\* tick() leaves a queued thread on the CPU whenever there is one, also when
\* the thread it was about to charge has been removed or blocked.
THEOREM NeverIdlesWithWork == ApiSpec => WorkConserving
<1>1. TypeOK /\ [ApiNext]_vars => [Tick /\ runqueue # <<>> => current' \in Queued']_vars
  <2> SUFFICES ASSUME TypeOK, Tick, runqueue # <<>> PROVE current' \in Queued'
    OBVIOUS
  <2>1. CASE TickRun
    BY <2>1, ChargedIsQueued DEF TickRun, Queued
  <2>2. CASE TickExpire
    BY <2>2, RotatedElements DEF TickExpire, Queued
  <2> QED BY <2>1, <2>2 DEF Tick, TickIdle
<1> QED BY <1>1, InitTyped, ApiTyped, PTL DEF ApiSpec, WorkConserving

\* Every call but remove_thread leaves a listed thread in one of the lists,
\* however often it is listed, and remove_thread forgets no sleeping one.
THEOREM NothingElseForgets == ApiSpec => OnlyRemoveForgets
<1> DEFINE Forgotten(t) == t \in Queued \cup Sleeping /\ t \notin Queued' \cup Sleeping'
<1>1. ASSUME TypeOK, [ApiNext]_vars, NEW t \in Thread, Forgotten(t)
      PROVE  RemoveThread(t) /\ t \notin Sleeping
  <2>1. CASE Tick
    <3>1. Queued' = Queued /\ Sleeping' = Sleeping
      BY <1>1, <2>1, RotatedElements DEF Tick, TickIdle, TickRun, TickExpire, Queued, Sleeping
    <3> QED BY <1>1, <3>1
  <2>2. ASSUME NEW u \in Thread, AddThread(u) PROVE FALSE
    <3>1. Queued' = Queued \cup {u} /\ Sleeping' = Sleeping
      BY <1>1, <2>2, ListsAfterCall DEF AddThread, Sleeping
    <3> QED BY <1>1, <3>1
  <2>3. ASSUME NEW u \in Thread, RemoveThread(u) PROVE RemoveThread(t) /\ t \notin Sleeping
    <3>1. Queued' = Queued \ {u} /\ Sleeping' = Sleeping
      BY <1>1, <2>3, ListsAfterCall DEF RemoveThread, Sleeping
    <3>2. t = u /\ t \notin Sleeping
      BY <1>1, <3>1
    <3> QED BY <2>3, <3>2
  <2>4. ASSUME NEW u \in Thread, BlockThread(u) PROVE FALSE
    <3>1. Queued \ {u} \subseteq Queued' /\ Sleeping' = Sleeping \cup {u}
      BY <1>1, <2>4, ListsAfterCall
    <3> QED BY <1>1, <3>1
  <2>5. ASSUME NEW u \in Thread, WakeThread(u) PROVE FALSE
    <3>1. Queued' = Queued \cup {u} /\ Sleeping \ {u} \subseteq Sleeping'
      BY <1>1, <2>5, ListsAfterCall
    <3> QED BY <1>1, <3>1
  <2>6. CASE UNCHANGED vars
    BY <1>1, <2>6 DEF vars, Queued, Sleeping
  <2> QED BY <1>1, <2>1, <2>2, <2>3, <2>4, <2>5, <2>6 DEF ApiNext
<1>2. TypeOK /\ [ApiNext]_vars =>
        [\A t \in Thread :
           t \in Queued \cup Sleeping /\ t \notin Queued' \cup Sleeping'
             => RemoveThread(t) /\ t \notin Sleeping]_vars
  BY <1>1
<1> QED BY <1>2, InitTyped, ApiTyped, PTL DEF ApiSpec, OnlyRemoveForgets

----------------------------------------------------------------------------
\* Every step of the scheduler is a step of the task life cycle or changes
\* no thread state: at most one thread runs, and it is preempted only when
\* another one is dispatched.
THEOREM ImplementsLifecycleSafely ==
  Spec => Lifecycle!Init /\ [][Lifecycle!Next]_state
<1>1. Init => Lifecycle!Init
  BY DEF Init, Lifecycle!Init
<1>2. SchedInv /\ [Next]_vars => [Lifecycle!Next]_state
  <2> SUFFICES ASSUME SchedInv, [Next]_vars PROVE Lifecycle!Next \/ UNCHANGED state
    OBVIOUS
  <2>1. state \in [Thread -> States]
    BY DEF SchedInv, TypeOK
  <2>2. CASE TickRun
    <3>1. CASE Dispatching
      <4>1. Charged \in Queued /\ Charged \in Thread /\ current \notin Thread
        BY <2>2, <3>1, ChargedIsHead
           DEF TickRun, Dispatching, SchedInv, OneRunning, PlacedByState
      <4>2. Lifecycle!Running = {}
        BY <4>1 DEF SchedInv, OneRunning, Lifecycle!Running
      <4>3. state[Charged] = "RUNNABLE"
        BY <4>1 DEF SchedInv, OneRunning, PlacedByState
      <4>4. Lifecycle!Dispatch(Charged)
        BY <2>1, <2>2, <3>1, <4>1, <4>2, <4>3 DEF TickRun, Lifecycle!Dispatch
      <4> QED BY <4>1, <4>4 DEF Lifecycle!Next
    <3>2. CASE ~Dispatching
      BY <2>2, <3>2 DEF TickRun
    <3> QED BY <3>1, <3>2
  <2>3. CASE TickExpire
    <3> DEFINE c == Charged
               h == Head(Rotated)
    <3>1. c \in Queued /\ c \in Thread /\ h \in Queued /\ h \in Thread
      BY <2>3, ChargedIsHead, RotatedFacts DEF TickExpire
    <3>2. Lifecycle!Running \subseteq {c}
      BY <2>3, ChargedIsHead DEF TickExpire, SchedInv, OneRunning, Lifecycle!Running
    <3>3. state' = [state EXCEPT ![c] = "RUNNABLE", ![h] = "RUNNING"]
      BY <2>3 DEF TickExpire
    <3>4. state[c] \in {"RUNNABLE", "RUNNING"} /\ state[h] \in {"RUNNABLE", "RUNNING"}
      BY <3>1 DEF SchedInv, PlacedByState
    <3> HIDE DEF c, h
    <3>5. CASE state[h] = "RUNNING"
      <4>1. h = c
        BY <3>1, <3>2, <3>5 DEF Lifecycle!Running
      <4> QED BY <2>1, <3>1, <3>3, <3>5, <4>1
    <3>6. CASE state[h] = "RUNNABLE"
      <4>1. Lifecycle!Dispatch(h)
        BY <2>1, <3>1, <3>2, <3>3, <3>4, <3>6 DEF Lifecycle!Dispatch, Lifecycle!Running
      <4> QED BY <3>1, <4>1 DEF Lifecycle!Next
    <3> QED BY <3>4, <3>5, <3>6
  <2>4. ASSUME NEW t \in Thread, AddFresh(t) PROVE Lifecycle!Next
    BY <2>4 DEF AddFresh, AddThread, Lifecycle!Next, Lifecycle!Admit
  <2>5. ASSUME NEW t \in Thread, BlockThread(t) PROVE Lifecycle!Next
    BY <2>5 DEF BlockThread, SchedInv, PlacedByState, Lifecycle!Next, Lifecycle!Sleep
  <2>6. ASSUME NEW t \in Thread, WakeThread(t) PROVE Lifecycle!Next
    BY <2>6 DEF WakeThread, SchedInv, PlacedByState, Lifecycle!Next, Lifecycle!Wake
  <2> QED BY <2>2, <2>3, <2>4, <2>5, <2>6 DEF Next, Tick, TickIdle, vars
<1> QED BY <1>1, <1>2, InitSchedInv, SchedInvStep, PTL DEF Spec

----------------------------------------------------------------------------
(* The order of the run queue.                                             *)

\* append puts nobody in front of a queued thread.
LEMMA AheadOfAppend ==
  ASSUME NEW q \in Seq(Thread), NEW x \in Thread, NEW t \in ToSet(q)
  PROVE  Ahead(Append(q, x), t) \subseteq Ahead(q, t)
<1> DEFINE r == Append(q, x)
<1>1. /\ Len(r) = Len(q) + 1 /\ Len(q) \in Nat /\ DOMAIN q = 1 .. Len(q)
      /\ \A i \in 1 .. Len(q) : r[i] = q[i]
  BY AppendProperties, LenProperties
<1> HIDE DEF r
<1>2. PICK m \in 1 .. Len(q) : q[m] = t
  BY <1>1 DEF ToSet
<1>3. ASSUME NEW j \in 1 .. Len(r), \A k \in 1 .. j : r[k] # t
      PROVE  r[j] \in Ahead(q, t)
  <2>1. j < m
    BY <1>1, <1>2, <1>3
  <2>2. j \in 1 .. Len(q) /\ \A k \in 1 .. j : k \in 1 .. Len(q)
    BY <1>1, <1>2, <2>1
  <2>3. r[j] = q[j] /\ \A k \in 1 .. j : q[k] # t
    BY <1>1, <1>3, <2>2
  <2> QED BY <2>2, <2>3 DEF Ahead
<1> QED BY <1>3 DEF Ahead, r

\* list.remove puts nobody in front of a thread that stays queued.
LEMMA AheadOfRemoveFirst ==
  ASSUME NEW q \in Seq(Thread), IsInjective(q), NEW u \in ToSet(q),
         NEW t \in ToSet(q) \ {u}
  PROVE  Ahead(RemoveFirst(q, u), t) \subseteq Ahead(q, t)
<1> DEFINE r == RemoveFirst(q, u)
<1>1. PICK i \in 1 .. Len(q) :
        /\ q[i] = u
        /\ Len(r) = Len(q) - 1
        /\ \A j \in 1 .. Len(q) - 1 : r[j] = IF j < i THEN q[j] ELSE q[j + 1]
  BY RemoveFirstAt
<1>2. Len(q) \in Nat
  BY LenProperties
<1> HIDE DEF r
<1>3. ASSUME NEW j \in 1 .. Len(r), \A k \in 1 .. j : r[k] # t
      PROVE  r[j] \in Ahead(q, t)
  <2> DEFINE g == IF j < i THEN j ELSE j + 1
  <2>1. j \in 1 .. Len(q) - 1 /\ g \in 1 .. Len(q) /\ r[j] = q[g]
    BY <1>1, <1>2
  <2>2. ASSUME NEW k \in 1 .. g PROVE q[k] # t
    <3>1. CASE k < i
      <4>1. k \in 1 .. j /\ k \in 1 .. Len(q) - 1
        BY <1>1, <1>2, <2>1, <3>1
      <4> QED BY <1>1, <1>3, <3>1, <4>1
    <3>2. CASE k = i
      BY <1>1, <3>2
    <3>3. CASE k > i
      <4>1. k - 1 \in 1 .. j /\ k - 1 \in 1 .. Len(q) - 1 /\ ~ (k - 1 < i) /\ (k - 1) + 1 = k
        BY <1>1, <1>2, <2>1, <3>3
      <4>2. r[k - 1] = q[k]
        BY <1>1, <4>1
      <4> QED BY <1>3, <4>1, <4>2
    <3> QED BY <2>1, <3>1, <3>2, <3>3
  <2> QED BY <2>1, <2>2 DEF Ahead
<1> QED BY <1>3 DEF Ahead, r

\* Nobody overtakes a waiting thread, and the head keeps its place for its
\* whole slice.
THEOREM QueueIsFair == Spec => NoOvertaking
<1> DEFINE Kept(t) ==
             \/ Ahead(runqueue', t) \subseteq Ahead(runqueue, t)
             \/ t = Head(runqueue) /\ t = Charged /\ SliceOver
<1>1. ASSUME SchedInv, [Next]_vars, NEW t \in Queued \cap Queued'
      PROVE  Kept(t)
  <2>1. runqueue \in Seq(Thread) /\ IsInjective(runqueue) /\ t \in ToSet(runqueue)
    BY <1>1 DEF SchedInv, TypeOK, NoDuplicates, Queued
  <2>2. CASE TickExpire
    <3>1. Charged = Head(runqueue) /\ Charged \in ToSet(runqueue) /\ Charged \in Thread
      BY <1>1, <2>2, ChargedIsHead DEF TickExpire, Queued
    <3>2. CASE t = Charged
      BY <2>2, <3>1, <3>2 DEF TickExpire
    <3>3. CASE t # Charged
      <4> DEFINE r == RemoveFirst(runqueue, Charged)
      <4>1. r \in Seq(Thread) /\ t \in ToSet(r)
        BY <2>1, <3>1, <3>3, RemoveFirstInjective
      <4>2. Ahead(r, t) \subseteq Ahead(runqueue, t)
        BY <2>1, <3>1, <3>3, AheadOfRemoveFirst
      <4> HIDE DEF r
      <4>3. Ahead(Append(r, Charged), t) \subseteq Ahead(r, t)
        BY <3>1, <4>1, AheadOfAppend
      <4>4. runqueue' = Append(r, Charged)
        BY <2>2 DEF TickExpire, Rotated, r
      <4> QED BY <4>2, <4>3, <4>4
    <3> QED BY <3>2, <3>3
  <2>3. ASSUME NEW u \in Thread, AddFresh(u) PROVE Kept(t)
    <3>1. runqueue' = runqueue \/ runqueue' = Append(runqueue, u)
      BY <2>3 DEF AddFresh, AddThread
    <3> QED BY <2>1, <3>1, AheadOfAppend
  <2>4. ASSUME NEW u \in Thread, BlockThread(u) PROVE Kept(t)
    <3>1. u \in ToSet(runqueue) /\ runqueue' = RemoveFirst(runqueue, u)
      BY <2>4 DEF BlockThread, Queued
    <3>2. t # u
      BY <1>1, <2>1, <3>1, RemoveFirstInjective DEF Queued
    <3> QED BY <2>1, <3>1, <3>2, AheadOfRemoveFirst
  <2>5. ASSUME NEW u \in Thread, WakeThread(u) PROVE Kept(t)
    BY <2>1, <2>5, AheadOfAppend DEF WakeThread
  <2>6. CASE UNCHANGED runqueue
    BY <2>6
  <2> QED BY <1>1, <2>2, <2>3, <2>4, <2>5, <2>6
          DEF Next, Tick, TickIdle, TickRun, vars
<1> HIDE DEF Kept
<1>2. SchedInv /\ [Next]_vars => \A t \in Queued \cap Queued' : Kept(t)
  BY <1>1
<1>3. SchedInv /\ [Next]_vars
        => [\A t \in Queued \cap Queued' :
              \/ Ahead(runqueue', t) \subseteq Ahead(runqueue, t)
              \/ t = Head(runqueue) /\ t = Charged /\ SliceOver]_vars
  BY <1>2 DEF Kept
<1> QED BY <1>3, InitSchedInv, SchedInvStep, PTL DEF Spec, NoOvertaking
----------------------------------------------------------------------------
(* How long a queued thread waits.                                         *)

\* The ticks u can be charged before it goes to the tail: what is left of its
\* slice, or a new one if it is dispatched first.
Due(u) == {u} \X (1 .. IF u = current THEN remaining[u] ELSE Timeslice[u])

\* The ticks that can be charged before t is.
Before(t) == UNION {Due(u) : u \in Ahead(runqueue, t)}

\* The inductive invariant: every tick a thread has waited for is one that
\* those in front of it have no more.
WaitInv ==
  /\ waited \in [Thread -> Nat]
  /\ \A t \in Thread \ Queued : waited[t] = 0
  /\ \A t \in Queued : waited[t] + Cardinality(Before(t)) <= SlicesOfOthers(t)

\* The threads have finitely many ticks in all, being finitely many.
LEMMA TicksFinite == \A S \in SUBSET Thread : IsFiniteSet(Ticks(S))
<1> SUFFICES ASSUME NEW S \in SUBSET Thread PROVE IsFiniteSet(Ticks(S))
  OBVIOUS
<1> DEFINE slice == [u \in S |-> {u} \X (1 .. Timeslice[u])]
           T == {{u} \X (1 .. Timeslice[u]) : u \in S}
<1>1. IsFiniteSet(S)
  BY FewThreads, FS_Subset
<1>2. slice \in Surjection(S, T)
  BY DEF Surjection
<1>3. IsFiniteSet(T)
  <2> HIDE DEF slice, T
  <2> QED BY <1>1, <1>2, FS_Surjection
<1>4. \A u \in S : IsFiniteSet({u} \X (1 .. Timeslice[u]))
  <2> TAKE u \in S
  <2>1. Timeslice[u] \in Int /\ 1 \in Int
    BY TimesliceAssumption
  <2>2. IsFiniteSet({u}) /\ IsFiniteSet(1 .. Timeslice[u])
    BY <2>1, FS_Singleton, FS_Interval
  <2> QED BY <2>2, FS_Product
<1>5. \A x \in T : IsFiniteSet(x)
  BY <1>4
<1>6. IsFiniteSet(UNION T)
  <2> HIDE DEF T
  <2> QED BY <1>3, <1>5, FS_UNION
<1> QED BY <1>6 DEF Ticks

\* Nobody is in front of itself, and only threads are in front of one.
LEMMA AheadAreOthers ==
  ASSUME NEW q \in Seq(Thread), NEW t \in Thread
  PROVE  Ahead(q, t) \subseteq Thread \ {t}
<1> SUFFICES ASSUME NEW j \in 1 .. Len(q), \A k \in 1 .. j : q[k] # t
             PROVE  q[j] \in Thread \ {t}
  BY DEF Ahead
<1>1. q[j] \in Thread
  BY ElementOfSeq
<1>2. j \in 1 .. j
  BY LenProperties
<1> QED BY <1>1, <1>2

\* What is due before t is less than one slice of each of the others.
LEMMA BeforeIsTicks ==
  ASSUME SchedInv, SliceBounds, NEW t \in Thread
  PROVE  /\ Before(t) \subseteq Ticks(Thread \ {t})
         /\ IsFiniteSet(Before(t))
         /\ Cardinality(Before(t)) \in Nat
         /\ SlicesOfOthers(t) \in Nat
         /\ Cardinality(Before(t)) <= SlicesOfOthers(t)
<1>1. Ahead(runqueue, t) \subseteq Thread \ {t}
  BY AheadAreOthers DEF SchedInv, TypeOK
<1>2. ASSUME NEW u \in Thread PROVE Due(u) \subseteq {u} \X (1 .. Timeslice[u])
  BY <1>2, TimesliceAssumption DEF Due, SliceBounds
<1>3. Before(t) \subseteq Ticks(Thread \ {t})
  BY <1>1, <1>2 DEF Before, Ticks
<1>4. IsFiniteSet(Ticks(Thread \ {t}))
  BY TicksFinite
<1> QED BY <1>3, <1>4, FS_Subset, FS_CardinalityType DEF SlicesOfOthers

\* A thread waits on if no more is due before it.
LEMMA WaitsOn ==
  ASSUME SchedInv, SchedInv', SliceBounds, SliceBounds', WaitInv,
         NEW t \in Queued, Before(t)' \subseteq Before(t), waited'[t] = waited[t]
  PROVE  waited'[t] + Cardinality(Before(t)') <= SlicesOfOthers(t)
<1>1. t \in Thread
  BY DEF SchedInv, PlacedByState
<1>2. /\ IsFiniteSet(Before(t)) /\ Cardinality(Before(t)) \in Nat /\ SlicesOfOthers(t) \in Nat
  BY <1>1, BeforeIsTicks
<1>3. Cardinality(Before(t)') \in Nat /\ Cardinality(Before(t)') <= Cardinality(Before(t))
  BY <1>2, FS_Subset, FS_CardinalityType
<1>4. waited[t] \in Nat /\ waited[t] + Cardinality(Before(t)) <= SlicesOfOthers(t)
  BY <1>1 DEF WaitInv
<1> QED BY <1>2, <1>3, <1>4

\* A thread that has not waited can wait for the slices of all the others.
LEMMA WaitStarts ==
  ASSUME SchedInv', SliceBounds', NEW t \in Thread, waited'[t] = 0
  PROVE  waited'[t] + Cardinality(Before(t)') <= SlicesOfOthers(t)
<1>1. /\ Cardinality(Before(t)') \in Nat /\ SlicesOfOthers(t) \in Nat
      /\ Cardinality(Before(t)') <= SlicesOfOthers(t)
  <2>1. SchedInv /\ SliceBounds => /\ Cardinality(Before(t)) \in Nat
                                   /\ SlicesOfOthers(t) \in Nat
                                   /\ Cardinality(Before(t)) <= SlicesOfOthers(t)
    BY BeforeIsTicks
  <2>2. (SchedInv /\ SliceBounds => /\ Cardinality(Before(t)) \in Nat
                                    /\ SlicesOfOthers(t) \in Nat
                                    /\ Cardinality(Before(t)) <= SlicesOfOthers(t))'
    BY BeforeIsTicks, PTL
  <2> QED BY <2>2 DEF SlicesOfOthers, Ticks
<1> QED BY <1>1

\* The smaller of two numbers.
LEMMA MinOfTwo ==
  ASSUME NEW a \in Nat, NEW b \in Nat
  PROVE  Min({a, b}) \in Nat /\ Min({a, b}) <= a
<1>1. CASE a <= b
  <2>1. a \in {a, b} /\ \A y \in {a, b} : a <= y
    BY <1>1
  <2>2. Min({a, b}) \in {a, b} /\ \A y \in {a, b} : Min({a, b}) <= y
    BY <2>1 DEF Min
  <2> QED BY <2>2
<1>2. CASE b <= a
  <2>1. b \in {a, b} /\ \A y \in {a, b} : b <= y
    BY <1>2
  <2>2. Min({a, b}) \in {a, b} /\ \A y \in {a, b} : Min({a, b}) <= y
    BY <2>1 DEF Min
  <2> QED BY <2>2
<1> QED BY <1>1, <1>2

\* The head is in front of everybody else, and nobody is who is not queued.
LEMMA HeadIsAhead ==
  ASSUME SchedInv, runqueue # <<>>, NEW t \in Queued, t # Charged
  PROVE  Charged \in Ahead(runqueue, t) /\ Ahead(runqueue, t) \subseteq Queued
<1>1. runqueue \in Seq(Thread) /\ Len(runqueue) \in Nat \ {0} /\ DOMAIN runqueue = 1 .. Len(runqueue)
  BY EmptySeq, LenProperties DEF SchedInv, TypeOK
<1>2. Charged = runqueue[1] /\ 1 \in 1 .. Len(runqueue)
  BY <1>1, ChargedIsHead, HeadTailProperties
<1>3. \A k \in 1 .. 1 : runqueue[k] # t
  BY <1>2
<1>4. Charged \in Ahead(runqueue, t)
  BY <1>2, <1>3 DEF Ahead
<1>5. Ahead(runqueue, t) \subseteq Queued
  BY <1>1 DEF Ahead, Queued, ToSet
<1> QED BY <1>4, <1>5

\* What is due of a queued thread: the one that is charged has one tick more
\* than after the tick, the others have a whole slice.
LEMMA DueOfQueued ==
  ASSUME SchedInv, SliceBounds, runqueue # <<>>
  PROVE  /\ Left \in Nat /\ Due(Charged) = {Charged} \X (1 .. Left + 1)
         /\ \A u \in Queued \ {Charged} : Due(u) = {u} \X (1 .. Timeslice[u])
<1>1. Charged \in Thread /\ Charged \in Queued
  BY ChargedIsHead
<1>2. /\ Timeslice[Charged] \in Nat \ {0}
      /\ remaining[Charged] \in 1 .. Timeslice[Charged]
  BY <1>1, TimesliceAssumption DEF SliceBounds
<1>3. CASE Dispatching
  <2>1. current \notin Queued /\ Left = Timeslice[Charged] - 1
    BY <1>3 DEF Dispatching, Left
  <2>2. Left \in Nat /\ Left + 1 = Timeslice[Charged]
    BY <1>2, <2>1
  <2> QED BY <1>1, <2>1, <2>2 DEF Due
<1>4. CASE ~Dispatching
  <2>1. current = Charged /\ Left = remaining[Charged] - 1
    BY <1>4 DEF Dispatching, Left, Charged
  <2>2. Left \in Nat /\ Left + 1 = remaining[Charged]
    BY <1>2, <2>1
  <2> QED BY <1>1, <2>1, <2>2 DEF Due
<1> QED BY <1>3, <1>4

\* A tick takes one of the ticks due before every other queued thread.
LEMMA TickShortens ==
  ASSUME SchedInv, SliceBounds, TickRun \/ TickExpire, NEW t \in Queued, t # Charged
  PROVE  \E x \in Before(t) : Before(t)' \subseteq Before(t) \ {x}
<1>c. PICK c : c = Charged
  OBVIOUS
<1>x. PICK x : x = <<c, Left + 1>>
  OBVIOUS
<1>1. /\ c \in Ahead(runqueue, t) /\ Ahead(runqueue, t) \subseteq Queued
      /\ c \in Queued /\ c \in Thread /\ c = Head(runqueue)
  BY <1>c, HeadIsAhead, ChargedIsHead DEF TickRun, TickExpire
<1>2. /\ Left \in Nat /\ Due(c) = {c} \X (1 .. Left + 1)
      /\ \A u \in Queued \ {c} : Due(u) = {u} \X (1 .. Timeslice[u])
  BY <1>c, DueOfQueued DEF TickRun, TickExpire
<1>3. x \in Due(c) /\ x \in Before(t)
  <2>1. Left + 1 \in 1 .. Left + 1
    BY <1>2
  <2>2. x \in Due(c)
    BY <1>2, <1>x, <2>1
  <2> QED BY <1>1, <2>2 DEF Before
<1>4. CASE TickRun
  <2>1. /\ runqueue' = runqueue /\ current' = c /\ remaining'[c] = Left
    BY <1>c, <1>1, <1>4 DEF TickRun, SchedInv, TypeOK
  <2>2. Due(c)' = {c} \X (1 .. Left)
    BY <2>1 DEF Due
  <2>3. \A u \in Queued \ {c} : Due(u)' = Due(u)
    BY <1>2, <2>1 DEF Due
  <2>4. Due(c)' \subseteq Due(c) \ {x}
    <3>1. 1 .. Left \subseteq (1 .. Left + 1) \ {Left + 1}
      BY <1>2
    <3> QED BY <1>2, <1>x, <2>2, <3>1
  <2>5. \A u \in Queued \ {c} : x \notin Due(u)
    BY <1>2, <1>x
  <2>6. Before(t)' = UNION {Due(u)' : u \in Ahead(runqueue, t)}
    BY <2>1 DEF Before
  <2>7. \A u \in Ahead(runqueue, t) : Due(u)' \subseteq Due(u) \ {x}
    <3> TAKE u \in Ahead(runqueue, t)
    <3>1. CASE u = c
      BY <2>4, <3>1
    <3>2. CASE u # c
      BY <1>1, <2>3, <2>5, <3>2
    <3> QED BY <3>1, <3>2
  <2>8. Before(t)' \subseteq Before(t) \ {x}
    <3> QED BY <2>6, <2>7 DEF Before
  <2> QED BY <1>3, <2>8
<1>5. CASE TickExpire
  <2> DEFINE r == RemoveFirst(runqueue, c)
  <2>1. /\ runqueue' = Append(r, c) /\ current' = Head(Rotated)
        /\ remaining' = [remaining EXCEPT ![c] = Timeslice[c],
                                          ![Head(Rotated)] = Timeslice[Head(Rotated)]]
    BY <1>c, <1>5 DEF TickExpire, Rotated
  <2>2. /\ runqueue \in Seq(Thread) /\ IsInjective(runqueue) /\ t \in ToSet(runqueue)
        /\ c \in ToSet(runqueue) /\ t # c /\ remaining \in [Thread -> Nat]
    BY <1>1, <1>c DEF SchedInv, TypeOK, NoDuplicates, Queued
  <2>3. /\ r \in Seq(Thread) /\ ToSet(r) = ToSet(runqueue) \ {c}
    BY <2>2, RemoveFirstInjective
  <2>4. Ahead(r, t) \subseteq Ahead(runqueue, t)
    BY <2>2, AheadOfRemoveFirst
  <2>5. Ahead(runqueue', t) \subseteq Ahead(r, t) /\ Ahead(r, t) \subseteq ToSet(r)
    <3> HIDE DEF r
    <3>1. t \in ToSet(r)
      BY <2>2, <2>3
    <3>2. DOMAIN r = 1 .. Len(r)
      BY <2>3, LenProperties
    <3> QED BY <1>1, <2>1, <2>3, <3>1, <3>2, AheadOfAppend DEF Ahead, ToSet
  <2> HIDE DEF r
  <2>6. \A u \in Ahead(runqueue', t) : u \in Ahead(runqueue, t) /\ u \in Queued \ {c} /\ u \in Thread
    <3>1. Queued \subseteq Thread
      BY DEF SchedInv, PlacedByState
    <3> QED BY <1>1, <2>3, <2>4, <2>5, <3>1
  <2>7. \A u \in Ahead(runqueue', t) : Due(u)' = Due(u)
    <3> TAKE u \in Ahead(runqueue', t)
    <3>1. u = current' => remaining'[u] = Timeslice[u]
      BY <2>1, <2>2, <2>6
    <3> QED BY <1>2, <2>6, <3>1 DEF Due
  <2>8. Before(t)' = UNION {Due(u)' : u \in Ahead(runqueue', t)}
    BY DEF Before
  <2>9. \A u \in Ahead(runqueue', t) : Due(u) \subseteq Before(t) /\ x \notin Due(u)
    BY <1>2, <1>x, <2>6 DEF Before
  <2>10. Before(t)' \subseteq Before(t) \ {x}
    <3> QED BY <2>7, <2>8, <2>9
  <2> QED BY <1>3, <2>10
<1> QED BY <1>4, <1>5

\* The watch counts at most one tick, for the queued threads that are not
\* charged.
LEMMA WatchCounts ==
  ASSUME WaitInv, Watch, NEW t \in Thread, SlicesOfOthers(t) \in Nat
  PROVE  /\ waited'[t] \in Nat
         /\ t \notin Queued \/ t = Charged => waited'[t] = 0
         /\ waited'[t] <= waited[t] + 1
<1>1. waited[t] \in Nat
  BY DEF WaitInv
<1>2. waited'[t] = IF t \in Queued /\ t # Charged
                   THEN Min({waited[t] + 1, SlicesOfOthers(t) + 1}) ELSE 0
  BY DEF Watch
<1>3. waited[t] + 1 \in Nat /\ SlicesOfOthers(t) + 1 \in Nat
  BY <1>1
<1>4. /\ Min({waited[t] + 1, SlicesOfOthers(t) + 1}) \in Nat
      /\ Min({waited[t] + 1, SlicesOfOthers(t) + 1}) <= waited[t] + 1
  BY <1>3, MinOfTwo
<1> QED BY <1>1, <1>2, <1>4

\* A tick takes as much from what is due as it adds to the waiting.
LEMMA WaitTickKeeps ==
  ASSUME SchedInv, SchedInv', SliceBounds, SliceBounds', WaitInv,
         TickRun \/ TickExpire, Watch
  PROVE  WaitInv'
<1>1. Queued' = Queued /\ Queued \subseteq Thread
  BY RotatedFacts DEF TickRun, TickExpire, Queued, SchedInv, PlacedByState
<1>2. \A t \in Thread : SlicesOfOthers(t) \in Nat
  BY BeforeIsTicks
<1>3. waited' \in [Thread -> Nat]
  <2>1. \A t \in Thread : waited'[t] \in Nat
    BY <1>2, WatchCounts
  <2> QED BY <2>1 DEF Watch
<1>4. \A t \in Thread \ Queued' : waited'[t] = 0
  BY <1>1, <1>2, WatchCounts
<1>5. ASSUME NEW t \in Queued
      PROVE  waited'[t] + Cardinality(Before(t)') <= SlicesOfOthers(t)
  <2>1. CASE t = Charged
    BY <1>1, <1>2, <2>1, WatchCounts, WaitStarts
  <2>2. CASE t # Charged
    <3>1. PICK x \in Before(t) : Before(t)' \subseteq Before(t) \ {x}
      BY <2>2, TickShortens
    <3>2. IsFiniteSet(Before(t)) /\ Cardinality(Before(t)) \in Nat
      BY <1>1, BeforeIsTicks
    <3>3. IsFiniteSet(Before(t) \ {x}) /\ Cardinality(Before(t) \ {x}) = Cardinality(Before(t)) - 1
      BY <3>2, FS_RemoveElement
    <3>4. /\ Cardinality(Before(t)') \in Nat
          /\ Cardinality(Before(t)') <= Cardinality(Before(t)) - 1
      BY <3>1, <3>3, FS_Subset, FS_CardinalityType
    <3>5. /\ waited[t] \in Nat /\ waited'[t] \in Nat /\ waited'[t] <= waited[t] + 1
          /\ waited[t] + Cardinality(Before(t)) <= SlicesOfOthers(t)
      BY <1>1, <1>2, WatchCounts DEF WaitInv
    <3> QED BY <1>1, <1>2, <3>2, <3>4, <3>5
  <2> QED BY <2>1, <2>2
<1> QED BY <1>1, <1>3, <1>4, <1>5 DEF WaitInv, SlicesOfOthers, Ticks

\* A step that leaves the slices and the waiting alone, but for one thread that
\* comes or goes.
LEMMA OneThreadMoves ==
  ASSUME SchedInv, SchedInv', SliceBounds, SliceBounds', WaitInv, NEW t \in Thread,
         waited' = [waited EXCEPT ![t] = 0], remaining' = remaining,
         Queued' \ {t} \subseteq Queued, Queued \ {t} \subseteq Queued',
         \A u \in Queued' \ {t} :
           /\ Ahead(runqueue', u) \subseteq Ahead(runqueue, u)
           /\ \A v \in Ahead(runqueue', u) : v = current' <=> v = current
  PROVE  WaitInv'
<1>1. Queued \subseteq Thread /\ Queued' \subseteq Thread
  BY DEF SchedInv, PlacedByState
<1>2. /\ waited' \in [Thread -> Nat] /\ waited'[t] = 0
      /\ \A u \in Thread \ {t} : waited'[u] = waited[u]
  BY DEF WaitInv
<1>3. \A u \in Thread \ Queued' : waited'[u] = 0
  BY <1>2 DEF WaitInv
<1>4. ASSUME NEW u \in Queued'
      PROVE  waited'[u] + Cardinality(Before(u)') <= SlicesOfOthers(u)
  <2>1. CASE u = t
    BY <1>2, <2>1, WaitStarts
  <2>2. CASE u # t
    <3>1. \A v \in Ahead(runqueue', u) : Due(v)' = Due(v)
      BY <2>2 DEF Due
    <3>2. Before(u)' = UNION {Due(v)' : v \in Ahead(runqueue', u)}
      BY DEF Before
    <3>3. Before(u)' \subseteq Before(u)
      BY <2>2, <3>1, <3>2 DEF Before
    <3> QED BY <1>1, <1>2, <2>2, <3>3, WaitsOn
  <2> QED BY <2>1, <2>2
<1> QED BY <1>2, <1>3, <1>4 DEF WaitInv, SlicesOfOthers, Ticks

\* Additions and wake-ups go to the tail, and a thread that blocks makes room.
LEMMA WaitStep ==
  ASSUME SchedInv, SchedInv', SliceBounds, SliceBounds', WaitInv, WaitNext
  PROVE  WaitInv'
<1>1. runqueue \in Seq(Thread) /\ IsInjective(runqueue) /\ Queued \subseteq Thread
  BY DEF SchedInv, TypeOK, NoDuplicates, PlacedByState
<1>2. CASE TickIdle /\ UNCHANGED waited
  <2>1. Queued' = {} /\ Queued = {}
    BY <1>2 DEF TickIdle, Queued, ToSet
  <2> QED BY <1>2, <2>1 DEF WaitInv
<1>3. ASSUME NEW t \in Thread, AddFresh(t), UNCHANGED waited PROVE WaitInv'
  <2>1. t \notin Queued
    BY <1>3 DEF AddFresh, SchedInv, PlacedByState
  <2>2. /\ runqueue' = Append(runqueue, t) /\ current' = current /\ remaining' = remaining
        /\ waited' = waited
    BY <1>3, <2>1 DEF AddFresh, AddThread
  <2>3. waited' = [waited EXCEPT ![t] = 0]
    BY <2>1, <2>2 DEF WaitInv
  <2>4. Queued' = Queued \cup {t}
    BY <1>1, <2>2, AppendElements DEF Queued
  <2>5. \A u \in Queued : Ahead(runqueue', u) \subseteq Ahead(runqueue, u)
    BY <1>1, <2>2, AheadOfAppend DEF Queued
  <2> QED BY <2>2, <2>3, <2>4, <2>5, OneThreadMoves
<1>4. ASSUME NEW t \in Thread, WakeThread(t), waited' = [waited EXCEPT ![t] = 0] PROVE WaitInv'
  <2>1. /\ runqueue' = Append(runqueue, t) /\ current' = current /\ remaining' = remaining
    BY <1>4 DEF WakeThread
  <2>2. Queued' = Queued \cup {t}
    BY <1>1, <2>1, AppendElements DEF Queued
  <2>3. \A u \in Queued : Ahead(runqueue', u) \subseteq Ahead(runqueue, u)
    BY <1>1, <2>1, AheadOfAppend DEF Queued
  <2> QED BY <1>4, <2>1, <2>2, <2>3, OneThreadMoves
<1>5. ASSUME NEW t \in Thread, BlockThread(t), waited' = [waited EXCEPT ![t] = 0] PROVE WaitInv'
  <2>1. /\ t \in ToSet(runqueue) /\ runqueue' = RemoveFirst(runqueue, t)
        /\ current' = (IF current = t THEN NoThread ELSE current) /\ remaining' = remaining
    BY <1>5 DEF BlockThread, CurrentAfterBlock, Queued
  <2>2. Queued' = Queued \ {t} /\ runqueue' \in Seq(Thread)
    BY <1>1, <2>1, RemoveFirstInjective DEF Queued
  <2>3. \A u \in Queued \ {t} : Ahead(runqueue', u) \subseteq Ahead(runqueue, u)
    BY <1>1, <2>1, AheadOfRemoveFirst DEF Queued
  <2>4. \A u : Ahead(runqueue', u) \subseteq Queued'
    <3>1. DOMAIN runqueue' = 1 .. Len(runqueue')
      BY <2>2, LenProperties
    <3> QED BY <3>1 DEF Ahead, Queued, ToSet
  <2>5. \A v \in Queued' : v = current' <=> v = current
    BY <1>1, <2>1, <2>2, SentinelAssumption
  <2> QED BY <1>5, <2>1, <2>2, <2>3, <2>4, <2>5, OneThreadMoves
<1> QED BY <1>2, <1>3, <1>4, <1>5, WaitTickKeeps DEF WaitNext, WaitTick

\* A queued thread is charged after at most one slice of each of the others:
\* what is left of the slices in front of it only shrinks while it waits.
THEOREM WaitIsBounded == WaitSpec => []BoundedWait
<1>1. WaitInit => SchedInv /\ SliceBounds /\ WaitInv
  <2> SUFFICES ASSUME WaitInit PROVE SchedInv /\ SliceBounds /\ WaitInv
    OBVIOUS
  <2>1. SchedInv /\ SliceBounds
    BY InitSchedInv, TimesliceAssumption DEF WaitInit, Init, SliceBounds
  <2>2. Queued = {} /\ waited = [t \in Thread |-> 0]
    BY DEF WaitInit, Init, Queued, ToSet
  <2> QED BY <2>1, <2>2 DEF WaitInv
<1>2. SchedInv /\ SliceBounds /\ WaitInv /\ [WaitNext]_WaitVars
        => SchedInv' /\ SliceBounds' /\ WaitInv'
  <2> SUFFICES ASSUME SchedInv, SliceBounds, WaitInv, [WaitNext]_WaitVars
               PROVE  SchedInv' /\ SliceBounds' /\ WaitInv'
    OBVIOUS
  <2>1. [Next]_vars
    BY DEF WaitNext, WaitTick, WaitVars, Next, Tick
  <2>2. SchedInv' /\ SliceBounds'
    BY <2>1, SchedInvStep, SlicesStep DEF SchedInv
  <2>3. CASE UNCHANGED WaitVars
    <3>1. UNCHANGED <<runqueue, current, remaining, waited>>
      BY <2>3 DEF WaitVars, vars
    <3>2. \A t : Before(t)' = Before(t)
      BY <3>1 DEF Before, Due
    <3> QED BY <2>2, <3>1, <3>2 DEF WaitInv, Queued, SlicesOfOthers, Ticks
  <2> QED BY <2>2, <2>3, WaitStep
<1>3. SchedInv /\ SliceBounds /\ WaitInv => BoundedWait
  <2> SUFFICES ASSUME SchedInv, SliceBounds, WaitInv, NEW t \in Thread
               PROVE  waited[t] <= SlicesOfOthers(t)
    BY DEF BoundedWait
  <2>1. /\ Cardinality(Before(t)) \in Nat /\ SlicesOfOthers(t) \in Nat /\ waited[t] \in Nat
    BY BeforeIsTicks DEF WaitInv
  <2> QED BY <2>1 DEF WaitInv
<1> QED BY <1>1, <1>2, <1>3, PTL DEF WaitSpec
=============================================================================
