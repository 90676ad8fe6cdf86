-------------------------------- MODULE Ipc --------------------------------
(***************************************************************************)
(* IpcManager of ipc.py: the pipes and the signal tables it keeps, whose   *)
(* operations interleave and leave each other's part alone.                *)
(***************************************************************************)
EXTENDS Naturals

CONSTANTS
  FirstPipe, Capacity, MaxPipes, MaxBytes, Size,    \* see Pipes
  Process, Signal, Unblockable, MaxSignals          \* see Signals

ASSUME UnblockableAssumption == Unblockable \subseteq Signal
ASSUME PipeAssumption == {FirstPipe, Capacity, Size} \subseteq Nat

VARIABLES
  ends, pipes, nextPipeFd,      \* see Pipes
  tables, killed                \* see Signals

vars == <<ends, pipes, nextPipeFd, tables, killed>>

P == INSTANCE Pipes
S == INSTANCE Signals

Init == P!Init /\ S!Init

Next ==
  \/ P!Next /\ UNCHANGED <<tables, killed>>
  \/ S!Next /\ UNCHANGED <<ends, pipes, nextPipeFd>>

Spec == Init /\ [][Next]_vars

----------------------------------------------------------------------------
\* The stream of a pipe is read in order, each byte once, and what is left is
\* its end, whatever Pipe.write had to discard.
BytesInOrder == P!BytesInOrder

\* Pipe.write discards only what does not fit.
LossOnlyWhenFull == P!LossOnlyWhenFull

\* next_signal takes what SignalTable.send accepted, in order, all of it.
TakenInOrder == S!TakenInOrder

\* block never keeps a SIGKILL or SIGSTOP from arriving.
KillsArrive == S!KillsArrive
=============================================================================
