--------------------------- MODULE SchedulerWait ---------------------------
(***************************************************************************)
(* Scheduler with a history variable: how many ticks in a row each queued  *)
(* thread has watched somebody else being charged.  It turns "nobody       *)
(* starves" into a bound a test could measure.                             *)
(***************************************************************************)
EXTENDS Scheduler, FiniteSets

ASSUME FewThreads == IsFiniteSet(Thread)

VARIABLE waited

WaitVars == <<vars, waited>>

WaitInit == Init /\ waited = [t \in Thread |-> 0]

\* The ticks of one slice of each of these threads.
Ticks(threads) == UNION {{u} \X (1 .. Timeslice[u]) : u \in threads}

\* The length of the slices of everybody but t.
SlicesOfOthers(t) == Cardinality(Ticks(Thread \ {t}))

\* A tick is charged to one queued thread; every other one waits for it.  The
\* count stops one behind the bound it is compared with.
Watch ==
  waited' = [t \in Thread |->
    IF t \in Queued /\ t # Charged
    THEN Min({waited[t] + 1, SlicesOfOthers(t) + 1}) ELSE 0]

WaitTick ==
  \/ (TickRun \/ TickExpire) /\ Watch
  \/ TickIdle /\ UNCHANGED waited

WaitNext ==
  \/ WaitTick
  \/ \E t \in Thread : AddFresh(t) /\ UNCHANGED waited
  \/ \E t \in Thread : (BlockThread(t) \/ WakeThread(t))
                         /\ waited' = [waited EXCEPT ![t] = 0]

WaitSpec == WaitInit /\ [][WaitNext]_WaitVars

\* The timer goes on ticking, as in Scheduler.
FairWaitSpec == WaitSpec /\ WF_WaitVars(WaitTick)

\* A queued thread is charged a tick after at most one slice of each of the
\* others, however they block, wake and are added in between: tick() rotates
\* the queue and add_thread and wake_thread append to it.
BoundedWait == \A t \in Thread : waited[t] <= SlicesOfOthers(t)
=============================================================================
