--------------------------- MODULE ProcessLineage ---------------------------
(***************************************************************************)
(* Processes with a history variable that the code does not have: which    *)
(* process really forked each one, forgotten when that process is reaped.  *)
(* A ppid is a number that may come to name another process; forker never  *)
(* does, so it tells a parent from a stranger with the parent's old pid.   *)
(***************************************************************************)
EXTENDS Processes

ASSUME NoForkerAssumption == NoProcess \notin Pid

VARIABLE forker

LineageVars == <<vars, forker>>

LineageInit ==
  /\ Init
  /\ forker = [p \in Pid |-> IF p = FirstPid THEN 0 ELSE NoProcess]

LineageFork(p) == Fork(p) /\ forker' = [forker EXCEPT ![NewPid] = p]

LineageExit(p) == Exit(p) /\ UNCHANGED forker

\* The processes forked by the one that is reaped become orphans.
LineageWait4(p) ==
  /\ Wait4(p)
  /\ forker' = [c \in Pid |-> IF c \notin Live' \/ forker[c] \notin Live'
                              THEN NoProcess ELSE forker[c]]

LineageNext == \E p \in Pid : LineageFork(p) \/ LineageExit(p) \/ LineageWait4(p)

LineageSpec == LineageInit /\ [][LineageNext]_LineageVars

\* Only for liveness: every process goes on calling wait4.
FairLineageSpec == LineageSpec /\ \A p \in Pid : WF_LineageVars(LineageWait4(p))

\* A process has exactly the processes it forked itself as its children: it
\* loses none of them to pid reuse and adopts no orphan of a namesake.
ChildrenAreForked ==
  \A p \in Live : ToSet(table[p].children) = {c \in Live : forker[c] = p}

\* Who goes in a step is reaped in it by the process that forked it.
ForkerReaps == \A c \in Live \ Live' : forker[c] \in Live /\ Wait4(forker[c])

\* Whoever is reaped is reaped by the process that forked it, and by nobody
\* when that one is gone: wait4 reaps for no stranger that reuses its pid.
ReapedByForker == [][ForkerReaps]_LineageVars
=============================================================================
