------------------------------ MODULE Signals ------------------------------
(***************************************************************************)
(* The signal tables of ipc.py: signals sent to processes, blocked and     *)
(* unblocked, and taken.                                                   *)
(*                                                                         *)
(* accepted and taken are the history of a table since it was created; the *)
(* code does not keep it.                                                  *)
(***************************************************************************)
EXTENDS Integers, Sequences, SequencesExt, FiniteSets

CONSTANTS
  Process, Signal,
  Unblockable,   \* SIGKILL and SIGSTOP
  MaxSignals     \* bound on the signals sent to one table

VARIABLES
  tables,        \* IpcManager._signal_tables
  killed         \* for each table, how many unblockable signals it was sent

vars == <<tables, killed>>

NewTable == [pending |-> <<>>, blocked |-> {}, accepted |-> <<>>, taken |-> <<>>]

Init ==
  /\ tables = [p \in {} |-> NewTable]
  /\ killed = [p \in Process |-> 0]

\* A second table for a process replaces the first, and what is pending in it.
CreateTable(p) ==
  /\ tables' = [q \in DOMAIN tables \cup {p} |-> IF q = p THEN NewTable ELSE tables[q]]
  /\ killed' = [killed EXCEPT ![p] = 0]

\* Mutant: a blocked signal is refused, whichever it is.
AcceptsUnblocked(table, sig) == sig \notin table.blocked

Accepts(table, sig) == sig \notin table.blocked \/ sig \in Unblockable

\* send_signal.  A blocked signal is forgotten.
Send(p, sig) ==
  /\ p \in DOMAIN tables
  /\ Len(tables[p].accepted) < MaxSignals /\ killed[p] < MaxSignals
  /\ IF Accepts(tables[p], sig)
     THEN tables' = [tables EXCEPT ![p].pending = Append(@, sig),
                                   ![p].accepted = Append(@, sig)]
     ELSE UNCHANGED tables
  /\ killed' = [killed EXCEPT ![p] = IF sig \in Unblockable THEN @ + 1 ELSE @]

\* Mutant: the last one sent is taken.
TakeLast(pending) == Len(pending)

TakeIndex(pending) == 1

\* next_signal.
Take(p) ==
  /\ p \in DOMAIN tables /\ tables[p].pending # <<>>
  /\ LET i == TakeIndex(tables[p].pending)
     IN  tables' = [tables EXCEPT ![p].pending = RemoveAt(@, i),
                                  ![p].taken = Append(@, tables[p].pending[i])]
  /\ UNCHANGED killed

Block(p, sig) ==
  /\ p \in DOMAIN tables
  /\ tables' = [tables EXCEPT ![p].blocked = @ \cup {sig}]
  /\ UNCHANGED killed

Unblock(p, sig) ==
  /\ p \in DOMAIN tables
  /\ tables' = [tables EXCEPT ![p].blocked = @ \ {sig}]
  /\ UNCHANGED killed

Next ==
  \E p \in Process :
    \/ CreateTable(p)
    \/ Take(p)
    \/ \E sig \in Signal : Send(p, sig) \/ Block(p, sig) \/ Unblock(p, sig)

Spec == Init /\ [][Next]_vars

----------------------------------------------------------------------------
\* Signals are taken in the order in which they were sent, each once, and none
\* that was accepted is lost, whatever is blocked between the two.
TakenInOrder ==
  \A p \in DOMAIN tables :
    tables[p].taken \o tables[p].pending = tables[p].accepted

\* Every SIGKILL and SIGSTOP that a table was sent was taken or is pending,
\* whatever was blocked when.
Kills(sigs) == {i \in DOMAIN sigs : sigs[i] \in Unblockable}

KillsArrive ==
  \A p \in DOMAIN tables :
    Cardinality(Kills(tables[p].taken \o tables[p].pending)) = killed[p]
=============================================================================
