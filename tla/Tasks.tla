------------------------------- MODULE Tasks -------------------------------
(***************************************************************************)
(* The tasks of a booted kernel: the processes of Processes with the       *)
(* threads of Scheduler (thread.py gives each its pid).  They meet in one  *)
(* place, the boot, which gives init a process, a thread and a place in    *)
(* the run queue; after it the system calls know of no thread and the      *)
(* scheduler of no process.  The client is the shell, with its commands    *)
(* syscall and tick.                                                       *)
(***************************************************************************)
EXTENDS Scheduler

CONSTANTS
  MaxPid, NoProcess,    \* as in Processes
  InitThread            \* the thread the boot made for init

VARIABLES table, nextPid, freePids, spaces      \* as in Processes

Proc == INSTANCE Processes

processVars == <<table, nextPid, freePids, spaces>>
taskVars    == <<vars, processVars>>

\* Thread.pid: everybody else is a thread of the kernel.
PidOf(t) == IF t = InitThread THEN Proc!FirstPid ELSE 0

BootTicks == 5

\* What the boot leaves: all threads are queued, init's last, and the first
\* one has run for five ticks.
TasksInit ==
  /\ Proc!Init
  /\ runqueue \in SetToSeqs(Thread) /\ Last(runqueue) = InitThread
  /\ blocked = <<>>
  /\ current = Head(runqueue)
  /\ state = [t \in Thread |-> IF t = current THEN "RUNNING" ELSE "RUNNABLE"]
  /\ remaining = [Timeslice EXCEPT ![current] = @ - BootTicks]

ShellTick    == Tick /\ UNCHANGED processVars
ShellSyscall == Proc!Next /\ UNCHANGED vars

TasksNext == ShellTick \/ ShellSyscall

TasksSpec == TasksInit /\ [][TasksNext]_taskVars

----------------------------------------------------------------------------
\* A user process that has exited and awaits its parent (process.py:33) is
\* given the CPU by no tick: none of its threads becomes the current one.
ZombiesAreNotDispatched ==
  [][\A t \in {u \in Thread : PidOf(u) # 0} :
       current # t /\ current' = t => ~Proc!IsZombie(PidOf(t))]_taskVars
=============================================================================
