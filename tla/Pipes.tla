------------------------------- MODULE Pipes -------------------------------
(***************************************************************************)
(* The pipes of ipc.py and the descriptors of their ends.  A byte is its   *)
(* position in the stream that its pipe was sent, from 1.                  *)
(***************************************************************************)
EXTENDS Integers, Sequences, FiniteSets, SequencesExt

CONSTANTS
  FirstPipe,    \* the first descriptor of a pipe
  Capacity,     \* of the buffer of a pipe
  MaxPipes, MaxBytes,   \* bounds on the pipes and on what one is sent
  Size          \* how much is written or read at once

VARIABLES
  ends,         \* IpcManager._pipes: the pipe of each descriptor
  pipes,        \* the Pipe objects, by their read descriptor
  nextPipeFd    \* IpcManager._next_pipe_fd

vars == <<ends, pipes, nextPipeFd>>

\* sent counts what write reported, and received is what read returned; the
\* code has neither.
NewPipe == [buffer |-> <<>>, writeClosed |-> FALSE, readClosed |-> FALSE,
            sent |-> 0, received |-> <<>>]

Init ==
  /\ ends = [fd \in {} |-> FirstPipe]
  /\ pipes = [fd \in {} |-> NewPipe]
  /\ nextPipeFd = FirstPipe

NextPipeFd == nextPipeFd + 2

CreatePipe ==
  /\ Cardinality(DOMAIN pipes) < MaxPipes
  /\ ends' = [fd \in DOMAIN ends \cup {nextPipeFd, nextPipeFd + 1} |->
                IF fd \in {nextPipeFd, nextPipeFd + 1} THEN nextPipeFd ELSE ends[fd]]
  /\ pipes' = [p \in DOMAIN pipes \cup {nextPipeFd} |->
                IF p = nextPipeFd THEN NewPipe ELSE pipes[p]]
  /\ nextPipeFd' = NextPipeFd

\* Mutants: the buffer holds one less; it refuses what is too much.
NewestButOne(bytes) ==
  SubSeq(bytes, IF Len(bytes) < Capacity THEN 1 ELSE Len(bytes) - Capacity + 2, Len(bytes))
Oldest(bytes) == SubSeq(bytes, 1, IF Len(bytes) < Capacity THEN Len(bytes) ELSE Capacity)

\* What a deque of a maximal length keeps.
Newest(bytes) ==
  SubSeq(bytes, IF Len(bytes) <= Capacity THEN 1 ELSE Len(bytes) - Capacity + 1, Len(bytes))

\* write through either descriptor; both ends lead to the same object.
Write(fd, n) ==
  LET pipe == pipes[ends[fd]]
  IN  /\ ~pipe.writeClosed /\ ~pipe.readClosed
      /\ pipe.sent + n <= MaxBytes
      /\ pipes' = [pipes EXCEPT
           ![ends[fd]].buffer = Newest(@ \o [i \in 1 .. n |-> pipe.sent + i]),
           ![ends[fd]].sent = @ + n]
      /\ UNCHANGED <<ends, nextPipeFd>>

\* read, which no closed end stops.
Read(fd, n) ==
  LET pipe == pipes[ends[fd]]
      k    == IF n < Len(pipe.buffer) THEN n ELSE Len(pipe.buffer)
  IN  /\ pipes' = [pipes EXCEPT
           ![ends[fd]].buffer = SubSeq(@, k + 1, Len(@)),
           ![ends[fd]].received = @ \o SubSeq(pipe.buffer, 1, k)]
      /\ UNCHANGED <<ends, nextPipeFd>>

CloseWrite(fd) ==
  /\ pipes' = [pipes EXCEPT ![ends[fd]].writeClosed = TRUE]
  /\ UNCHANGED <<ends, nextPipeFd>>

CloseRead(fd) ==
  /\ pipes' = [pipes EXCEPT ![ends[fd]].readClosed = TRUE]
  /\ UNCHANGED <<ends, nextPipeFd>>

Next ==
  \/ CreatePipe
  \/ \E fd \in DOMAIN ends :
       \/ \E n \in 1 .. Size : Write(fd, n) \/ Read(fd, n)
       \/ CloseWrite(fd)
       \/ CloseRead(fd)

Spec == Init /\ [][Next]_vars

----------------------------------------------------------------------------
\* Whoever writes how much, the reader sees the stream in its order, each byte
\* once, and what is left for it is the end of the stream.
BytesInOrder ==
  \A p \in DOMAIN pipes :
    LET pipe == pipes[p]
        seen == pipe.received \o pipe.buffer
    IN  /\ \A i \in 1 .. Len(seen) - 1 : seen[i] < seen[i + 1]
        /\ pipe.sent > 0 /\ pipe.buffer # <<>> => Last(pipe.buffer) = pipe.sent
        /\ Len(pipe.buffer) <= Capacity

\* Bytes are lost, which write does not report, only in a step that leaves the
\* buffer full, so that a writer that looks at what is available loses none.
Lost(pipe) == pipe.sent - Len(pipe.received) - Len(pipe.buffer)

LossOnlyWhenFull ==
  [][\A p \in DOMAIN pipes :
       Lost(pipes'[p]) # Lost(pipes[p]) => Len(pipes'[p].buffer) = Capacity]_vars
=============================================================================
