----------------------------- MODULE Processes -----------------------------
(***************************************************************************)
(* computekernel_edu/process.py (PidAllocator and ProcessTable) with the   *)
(* system calls of syscall.py that create and destroy processes: fork,     *)
(* exit and wait4.  The state starts where the boot pipeline leaves it,    *)
(* with the idle process and init.                                         *)
(*                                                                         *)
(* Names, credentials, exit codes and command lines are left out.  execve, *)
(* kill, getpid and nanosleep change none of this state.  The code accepts *)
(* a call from any pid in the table, a zombie included, so the model does. *)
(***************************************************************************)
EXTENDS Integers, Sequences, SequencesExt

CONSTANTS
  MaxPid,       \* bound on the pids the allocator may reach
  NoProcess     \* dict.get of a pid that is not in the table

ASSUME PidAssumption == MaxPid \in Nat /\ MaxPid >= 2

VARIABLES
  table,        \* ProcessTable._table
  nextPid,      \* PidAllocator._next_pid
  freePids,     \* PidAllocator._free_pids, a list
  spaces        \* the keys of VirtualMemoryManager.address_spaces

vars == <<table, nextPid, freePids, spaces>>

Pid     == 0 .. MaxPid
States  == {"NEW", "RUNNABLE", "ZOMBIE"}
Process == [ppid : Pid, state : States, children : Seq(Pid)]

ASSUME NoProcessAssumption == NoProcess \notin Process

Live == {p \in Pid : table[p] # NoProcess}

FirstPid == 2           \* 0 is idle, and 1 is skipped

\* After boot: idle has one child, init, which got the first pid; both have
\* an address space.
Init ==
  /\ table = [p \in Pid |->
       CASE p = 0        -> [ppid |-> 0, state |-> "RUNNABLE", children |-> <<FirstPid>>]
         [] p = FirstPid -> [ppid |-> 0, state |-> "RUNNABLE", children |-> <<>>]
         [] OTHER        -> NoProcess]
  /\ nextPid = FirstPid + 1
  /\ freePids = <<>>
  /\ spaces = {0, FirstPid}

----------------------------------------------------------------------------
(* PidAllocator.                                                           *)

\* The pid alloc() returns: a freed one, oldest first, before a new one.
NewPid == IF freePids # <<>> THEN Head(freePids) ELSE nextPid

\* Mutant: the freed pid is handed out but stays free.
AllocPeeks ==
  IF freePids # <<>> THEN UNCHANGED <<freePids, nextPid>>
  ELSE nextPid' = nextPid + 1 /\ UNCHANGED freePids

Alloc ==
  IF freePids # <<>>
  THEN freePids' = Tail(freePids) /\ UNCHANGED nextPid
  ELSE nextPid' = nextPid + 1 /\ UNCHANGED freePids

Free(pid) ==
  freePids' = IF pid > 1 THEN Append(freePids, pid) ELSE freePids

\* ProcessTable.spawn: the child enters the table, and the children of its
\* parent when the parent is there.
Spawn(parent) ==
  /\ Alloc
  /\ table' = [p \in Pid |->
       IF p = NewPid
       THEN [ppid |-> parent, state |-> "NEW", children |-> <<>>]
       ELSE IF p = parent /\ p \in Live
            THEN [table[p] EXCEPT !.children = Append(@, NewPid)]
            ELSE table[p]]

\* Mutant: the parent keeps the reaped pid.
RemoveProcessOnly(pid) == Free(pid) /\ table' = [table EXCEPT ![pid] = NoProcess]

\* ProcessTable.remove: the process leaves the table and the children of the
\* process that has its ppid now, if one has.
RemoveProcess(pid) ==
  /\ Free(pid)
  /\ table' = [p \in Pid |->
       IF p = pid THEN NoProcess
       ELSE IF p = table[pid].ppid /\ p \in Live
            THEN [table[p] EXCEPT !.children = RemoveFirst(@, pid)]
            ELSE table[p]]

----------------------------------------------------------------------------
(* The system calls.  A call from a pid that is not in the table returns   *)
(* -EINVAL, and wait4 without a zombie child returns 0: stuttering steps.  *)

Fork(p) ==
  /\ p \in Live
  /\ freePids # <<>> \/ nextPid <= MaxPid        \* the bound
  /\ Spawn(p)
  /\ spaces' = spaces \cup {NewPid}

Exit(p) ==
  /\ p \in Live
  /\ table' = [table EXCEPT ![p].state = "ZOMBIE"]
  /\ UNCHANGED <<nextPid, freePids, spaces>>

IsZombie(p) == p \in Live /\ table[p].state = "ZOMBIE"

\* Mutants: the first child is taken for a zombie; the scan stops at the
\* first child; the children are looked up by their ppid.
FirstChild(p, c)   == table[p].children # <<>> /\ c = Head(table[p].children)
FirstOnly(p, c)    == FirstChild(p, c) /\ IsZombie(c)
ZombieByPpid(p, c) == IsZombie(c) /\ table[c].ppid = p

\* The scan of wait4: the first zombie in the order of the children.
FirstZombie(p, c) ==
  \E i \in 1 .. Len(table[p].children) :
    /\ c = table[p].children[i]
    /\ IsZombie(c)
    /\ \A j \in 1 .. i - 1 : ~IsZombie(table[p].children[j])

Wait4(p) ==
  /\ p \in Live
  /\ \E c \in Pid : FirstZombie(p, c) /\ RemoveProcess(c)
  /\ UNCHANGED <<nextPid, spaces>>

Next == \E p \in Pid : Fork(p) \/ Exit(p) \/ Wait4(p)

Spec == Init /\ [][Next]_vars

----------------------------------------------------------------------------
\* The shape of the tables that spawn, remove and the allocator maintain.
TypeOK ==
  /\ table \in [Pid -> Process \cup {NoProcess}]
  /\ nextPid \in FirstPid + 1 .. MaxPid + 1
  /\ freePids \in Seq(Pid)
  /\ spaces \subseteq Pid

\* A pid below _next_pid is in the table or in the free list, once, so that
\* alloc never hands out the pid of a living process and none leaks.
PidsConserved ==
  /\ IsInjective(freePids)
  /\ ToSet(freePids) \subseteq FirstPid .. nextPid - 1
  /\ Live = ({0} \cup (FirstPid .. nextPid - 1)) \ ToSet(freePids)

\* The children a process records are living, recorded once, and have it as
\* their parent, whichever processes were reaped and pids reused before.
ChildrenAreKin ==
  \A p \in Live :
    /\ IsInjective(table[p].children)
    /\ \A c \in ToSet(table[p].children) : c \in Live \ {0} /\ table[c].ppid = p

\* A process leaves the table only as a zombie, and one at a time.
OnlyZombiesLeave ==
  [][\A p, q \in Live \ Live' : p = q /\ IsZombie(p)]_vars

\* The zombies among the children of a process that goes on calling wait4
\* are all reaped, past the children that live on.
ZombiesAreReaped ==
  \A p, c \in Pid :
    IsZombie(c) /\ p \in Live /\ c \in ToSet(table[p].children)
      ~> ~(IsZombie(c) /\ p \in Live /\ c \in ToSet(table[p].children))
=============================================================================
