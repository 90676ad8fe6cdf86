--------------------------- MODULE ProcessMemory ---------------------------
(***************************************************************************)
(* Processes and their memory together: the system calls of syscall.py     *)
(* that touch both, fork, mmap, munmap and brk, with exit and wait4.       *)
(* Memory is extended, and Processes sees its address spaces as its set of *)
(* spaces.                                                                 *)
(*                                                                         *)
(* munmap and brk do not ask the process table for their caller, as mmap   *)
(* does; here every call is made by a process, a zombie included.          *)
(***************************************************************************)
EXTENDS Memory

CONSTANTS
  MaxPid, NoProcess,            \* see Processes; its Pid is Pids here
  MmapBase,     \* where a mapping without a hint goes
  HeapStart,    \* the break of a process that has not moved it
  Breaks        \* the breaks asked for

\* Addresses are the hints given to mmap and munmap, 0 for none.  The fixed
\* areas lie around the heap.  Only a process that names an address of its own
\* heap could map something else there; no caller in the repository gives a
\* hint, and the hints here are not in the heap.
ASSUME HeapAssumption ==
  /\ Pids = 0 .. MaxPid
  /\ HeapStart \in Nat /\ MmapBase \in Nat /\ Breaks \subseteq Nat
  /\ ({TextStart, DataStart, StackStart} \cup Addresses) \cap (HeapStart .. MmapBase - 1) = {}

VARIABLES
  table, nextPid, freePids,     \* see Processes
  brk           \* SyscallDispatcher._brk, kept per pid

callVars == <<table, nextPid, freePids, owner, areas, brk>>

Proc == INSTANCE Processes WITH spaces <- DOMAIN areas

\* The kernel after boot: idle and init have a space, and no frame is used.
CallsInit ==
  /\ table = [p \in Pids |->
       CASE p = 0             -> [ppid |-> 0, state |-> "RUNNABLE", children |-> <<Proc!FirstPid>>]
         [] p = Proc!FirstPid -> [ppid |-> 0, state |-> "RUNNABLE", children |-> <<>>]
         [] OTHER             -> NoProcess]
  /\ nextPid = Proc!FirstPid + 1
  /\ freePids = <<>>
  /\ owner = [f \in Frame |-> NoOwner]
  /\ areas = [p \in {0, Proc!FirstPid} |-> FreshAreas]
  /\ brk = [p \in Pids |-> HeapStart]

\* Mutant: the space is made for the caller.
SpaceOfCaller(p) == p

\* Whose space fork makes.
ForkedSpace(p) == Proc!NewPid

\* fork: the child gets a space of its own in place of whatever its pid had.
\* Its break is not touched.
Fork(p) ==
  /\ p \in Proc!Live
  /\ freePids # <<>> \/ nextPid <= MaxPid        \* the bound
  /\ Proc!Spawn(p)
  /\ CreateSpace(ForkedSpace(p))
  /\ UNCHANGED brk

\* exit and wait4 leave the space, the frames and the break of the process.
ExitOrWait(p) ==
  /\ UNCHANGED <<owner, areas, brk>>
  /\ Proc!Exit(p) \/ Proc!Wait4(p)

Procs == <<table, nextPid, freePids>>

\* mmap refuses an empty length and a caller that is no process, and puts
\* every mapping without a hint at the same address.
Mmap(p, addr, length, flags) ==
  /\ p \in Proc!Live /\ length > 0
  /\ MapPages(p, IF addr = 0 THEN MmapBase ELSE addr, length, flags)
  /\ UNCHANGED <<Procs, brk>>

Munmap(p, addr) ==
  /\ addr # 0
  /\ UnmapPages(p, addr)
  /\ UNCHANGED <<Procs, brk>>

\* Mutant: the heap is always mapped from its start.
HeapBottom(p) == HeapStart

HeapEnd(p) == brk[p]

\* brk beyond the current break: the heap grows by an area if it can, and the
\* break moves whether it could or not.
Brk(p, newBrk) ==
  /\ newBrk > brk[p]
  /\ MapPages(p, HeapEnd(p), newBrk - HeapEnd(p), Data)
  /\ brk' = [brk EXCEPT ![p] = newBrk]
  /\ UNCHANGED Procs

CallsNext ==
  \E p \in Proc!Live :
    \/ Fork(p)
    \/ ExitOrWait(p)
    \/ \E addr \in Addresses, length \in Sizes, flags \in MapFlags :
         Mmap(p, addr, length, flags)
    \/ \E addr \in Addresses : Munmap(p, addr)
    \/ \E newBrk \in Breaks : Brk(p, newBrk)

CallsSpec == CallsInit /\ [][CallsNext]_callVars

----------------------------------------------------------------------------
\* The areas brk maps lie below the break and do not overlap, whether some of
\* them found no memory or a process that died had others under the same pid.
HeapAreas(p) == {i \in DOMAIN areas[p] : areas[p][i].start \in HeapStart .. MmapBase - 1}

HeapAreasDisjoint ==
  \A p \in DOMAIN areas : \A i, j \in HeapAreas(p) :
    /\ areas[p][i].end <= brk[p]
    /\ i < j => areas[p][i].end <= areas[p][j].start

\* The processes are those of Processes, whatever they do with memory.
ImplementsProcesses == Proc!Spec

----------------------------------------------------------------------------
(* What the documentation says.                                            *)

\* fork makes a fresh address space (syscall.py:337), with the break where a
\* new program's is.
ForkedSpaceIsFresh ==
  [][\A p \in Proc!Live' \ Proc!Live : brk[p] = HeapStart]_callVars
=============================================================================
