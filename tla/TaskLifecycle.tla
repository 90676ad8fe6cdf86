--------------------------- MODULE TaskLifecycle ---------------------------
(***************************************************************************)
(* What the TaskState life cycle of computekernel_edu/process.py promises  *)
(* a thread, with no queue, no time slice and no scheduling order: a task  *)
(* is admitted once, at most one task has the CPU, a task that sleeps does *)
(* not have it, and a task that is ready is dispatched some day unless it  *)
(* is put to sleep first.                                                  *)
(***************************************************************************)
CONSTANT Thread

VARIABLE status         \* the TaskState of every thread

States == {"NEW", "RUNNABLE", "RUNNING", "SLEEP_INT"}

Running == {t \in Thread : status[t] = "RUNNING"}

TypeOK == status \in [Thread -> States]

Init == status = [t \in Thread |-> "NEW"]

\* The thread is handed to the scheduler for the first time.
Admit(t) ==
  /\ status[t] = "NEW"
  /\ status' = [status EXCEPT ![t] = "RUNNABLE"]

\* The CPU goes to t; whoever had it is preempted and stays ready.
Dispatch(t) ==
  /\ status[t] = "RUNNABLE"
  /\ status' = [u \in Thread |->
                  IF u = t THEN "RUNNING"
                  ELSE IF u \in Running THEN "RUNNABLE" ELSE status[u]]

Sleep(t) ==
  /\ status[t] \in {"RUNNABLE", "RUNNING"}
  /\ status' = [status EXCEPT ![t] = "SLEEP_INT"]

Wake(t) ==
  /\ status[t] = "SLEEP_INT"
  /\ status' = [status EXCEPT ![t] = "RUNNABLE"]

Next == \E t \in Thread : Admit(t) \/ Dispatch(t) \/ Sleep(t) \/ Wake(t)

Spec == Init /\ [][Next]_status /\ \A t \in Thread : WF_status(Dispatch(t))
=============================================================================
