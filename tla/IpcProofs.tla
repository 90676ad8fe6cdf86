------------------------------ MODULE IpcProofs ------------------------------
(***************************************************************************)
(* Theorems about Ipc, for any processes, signals, sizes and capacity: in  *)
(* what order signals and bytes arrive.                                    *)
(***************************************************************************)
EXTENDS Ipc, Integers, Sequences, SequenceTheorems, FiniteSets, FiniteSetTheorems, TLAPS

----------------------------------------------------------------------------
(* Signals.                                                                *)

Table == [pending : Seq(Signal), blocked : SUBSET Signal,
          accepted : Seq(Signal), taken : Seq(Signal)]

TableSound(t) == t \in Table /\ t.taken \o t.pending = t.accepted

SignalInv == /\ tables \in [DOMAIN tables -> Table]
             /\ \A p \in DOMAIN tables : TableSound(tables[p])

LEMMA Regroup ==
  ASSUME NEW s \in Seq(Signal), NEW t \in Seq(Signal), NEW u \in Seq(Signal), NEW x \in Signal
  PROVE  /\ s \o Append(t, x) = Append(s \o t, x)
         /\ Append(s, x) \o u = s \o (<<x>> \o u)
<1> DEFINE one == <<x>>
<1>1. one \in Seq(Signal)
  OBVIOUS
<1>2. /\ Append(t, x) = t \o one /\ Append(s, x) = s \o one
      /\ Append(s \o t, x) = (s \o t) \o one
  BY ConcatProperties, AppendIsConcat
<1> HIDE DEF one
<1>3. (s \o t) \o one = s \o (t \o one)
  BY <1>1, ConcatAssociative
<1>4. (s \o one) \o u = s \o (one \o u)
  BY <1>1, ConcatAssociative
<1>5. Append(s, x) \o u = s \o (one \o u)
  BY <1>2, <1>4
<1>6. s \o Append(t, x) = Append(s \o t, x)
  BY <1>2, <1>3
<1> QED BY <1>5, <1>6 DEF one

\* A signal that is accepted goes to the end of what was accepted before.
LEMMA SendSound ==
  ASSUME NEW t, TableSound(t), NEW sig \in Signal
  PROVE  TableSound([t EXCEPT !.pending = Append(@, sig), !.accepted = Append(@, sig)])
<1> DEFINE u == [t EXCEPT !.pending = Append(@, sig), !.accepted = Append(@, sig)]
<1>1. /\ t.pending \in Seq(Signal) /\ t.accepted \in Seq(Signal) /\ t.taken \in Seq(Signal)
      /\ t.taken \o t.pending = t.accepted
  BY DEF TableSound, Table
<1>2. /\ u \in Table /\ u.taken = t.taken
      /\ u.pending = Append(t.pending, sig) /\ u.accepted = Append(t.accepted, sig)
  BY <1>1, AppendProperties DEF TableSound, Table
<1>3. t.taken \o Append(t.pending, sig) = Append(t.taken \o t.pending, sig)
  BY <1>1, Regroup
<1> QED BY <1>1, <1>2, <1>3 DEF TableSound

\* The signal that is taken is the next one of what was accepted.
LEMMA TakeSound ==
  ASSUME NEW t, TableSound(t), t.pending # <<>>
  PROVE  TableSound([t EXCEPT !.pending = S!RemoveAt(@, 1),
                              !.taken = Append(@, t.pending[1])])
<1> DEFINE rest == S!RemoveAt(t.pending, 1)
           u    == [t EXCEPT !.pending = rest, !.taken = Append(@, t.pending[1])]
<1>1. /\ t.pending \in Seq(Signal) /\ t.accepted \in Seq(Signal) /\ t.taken \in Seq(Signal)
      /\ t.taken \o t.pending = t.accepted
  BY DEF TableSound, Table
<1>2. Len(t.pending) \in Nat \ {0} /\ t.pending[1] \in Signal
  BY <1>1, EmptySeq, ElementOfSeq
<1>3. rest = SubSeq(t.pending, 2, Len(t.pending)) /\ rest \in Seq(Signal)
  <2>1. SubSeq(t.pending, 1, 1 - 1) = <<>>
    BY SubSeqEmpty
  <2>2. SubSeq(t.pending, 2, Len(t.pending)) \in Seq(Signal)
    <3>1. \A i \in 2 .. Len(t.pending) : t.pending[i] \in Signal
      BY <1>1, <1>2, ElementOfSeq
    <3> QED BY <1>2, <3>1, SubSeqProperties
  <2>3. rest = <<>> \o SubSeq(t.pending, 2, Len(t.pending))
    BY <2>1 DEF S!RemoveAt
  <2> QED BY <2>2, <2>3, ConcatEmptySeq
<1>4. <<t.pending[1]>> \o rest = t.pending
  <2>1. SubSeq(t.pending, 1, Len(t.pending)) = <<t.pending[1]>> \o SubSeq(t.pending, 1 + 1, Len(t.pending))
    BY <1>1, <1>2, SubSeqRecursiveFirst
  <2> QED BY <1>1, <1>3, <2>1, SubSeqFull
<1> HIDE DEF rest
<1>5. /\ u \in Table /\ u.pending = rest /\ u.accepted = t.accepted
      /\ u.taken = Append(t.taken, t.pending[1])
  BY <1>1, <1>2, <1>3, AppendProperties DEF TableSound, Table
<1>6. Append(t.taken, t.pending[1]) \o rest = t.taken \o t.pending
  <2> HIDE DEF u
  <2>1. Append(t.taken, t.pending[1]) \o rest = t.taken \o (<<t.pending[1]>> \o rest)
    BY <1>1, <1>2, <1>3, Regroup
  <2> QED BY <1>4, <2>1
<1>7. TableSound(u)
  BY <1>1, <1>5, <1>6 DEF TableSound
<1> QED BY <1>7 DEF rest

LEMMA NewTableSound == TableSound(S!NewTable)
<1>1. <<>> \in Seq(Signal) /\ <<>> \o <<>> = <<>>
  BY EmptySeq, ConcatEmptySeq
<1> QED BY <1>1 DEF TableSound, Table, S!NewTable

LEMMA BlockedSound ==
  ASSUME NEW t, TableSound(t), NEW b \in SUBSET Signal
  PROVE  TableSound([t EXCEPT !.blocked = b])
BY DEF TableSound, Table

\* Replacing the table of one process by a sound one.
LEMMA OneTable ==
  ASSUME SignalInv, NEW p \in DOMAIN tables, NEW t, TableSound(t),
         tables' = [tables EXCEPT ![p] = t]
  PROVE  SignalInv'
BY DEF SignalInv, TableSound

LEMMA SignalStep ==
  ASSUME SignalInv, S!Next
  PROVE  SignalInv'
<1>1. ASSUME NEW p \in Process, S!CreateTable(p) PROVE SignalInv'
  BY <1>1, NewTableSound DEF S!CreateTable, SignalInv, TableSound
<1>2. ASSUME NEW p \in Process, S!Take(p) PROVE SignalInv'
  <2> DEFINE t == tables[p]
             u == [t EXCEPT !.pending = S!RemoveAt(@, 1), !.taken = Append(@, t.pending[1])]
  <2>1. p \in DOMAIN tables /\ t.pending # <<>> /\ TableSound(t)
    BY <1>2 DEF S!Take, SignalInv
  <2>2. tables' = [tables EXCEPT ![p] = u]
    BY <1>2 DEF S!Take, S!TakeIndex
  <2>3. TableSound(u)
    BY <2>1, TakeSound
  <2> HIDE DEF u
  <2> QED BY <2>1, <2>2, <2>3, OneTable
<1>3. ASSUME NEW p \in Process, NEW sig \in Signal, S!Send(p, sig) PROVE SignalInv'
  <2> DEFINE t == tables[p]
             u == [t EXCEPT !.pending = Append(@, sig), !.accepted = Append(@, sig)]
  <2>1. p \in DOMAIN tables /\ TableSound(t)
    BY <1>3 DEF S!Send, SignalInv
  <2>2. tables' = [tables EXCEPT ![p] = u] \/ tables' = tables
    BY <1>3 DEF S!Send
  <2>3. TableSound(u)
    BY <2>1, SendSound
  <2> HIDE DEF u
  <2>4. CASE tables' = tables
    BY <2>4 DEF SignalInv
  <2> QED BY <2>1, <2>2, <2>3, <2>4, OneTable
<1>4. ASSUME NEW p \in Process, NEW sig \in Signal, S!Block(p, sig) \/ S!Unblock(p, sig)
      PROVE  SignalInv'
  <2> DEFINE t == tables[p]
  <2>1. p \in DOMAIN tables /\ TableSound(t)
    BY <1>4 DEF S!Block, S!Unblock, SignalInv
  <2>2. PICK b \in SUBSET Signal : tables' = [tables EXCEPT ![p] = [t EXCEPT !.blocked = b]]
    <3>1. t.blocked \cup {sig} \in SUBSET Signal /\ t.blocked \ {sig} \in SUBSET Signal
      BY <2>1 DEF TableSound, Table
    <3> QED BY <1>4, <3>1 DEF S!Block, S!Unblock
  <2>3. TableSound([t EXCEPT !.blocked = b])
    BY <2>1, BlockedSound
  <2> QED BY <2>1, <2>2, <2>3, OneTable
<1> QED BY <1>1, <1>2, <1>3, <1>4 DEF S!Next

\* Between send and next_signal no accepted signal is lost, doubled or
\* overtaken, for any signals, blocked and unblocked in any order.
THEOREM SignalsInOrder == Spec => []TakenInOrder
<1>1. Init => SignalInv
  BY DEF Init, S!Init, SignalInv, TableSound
<1>2. SignalInv /\ [Next]_vars => SignalInv'
  <2>1. CASE UNCHANGED tables
    BY <2>1 DEF SignalInv
  <2> QED BY <2>1, SignalStep DEF Next, vars
<1>3. SignalInv => TakenInOrder
  BY DEF SignalInv, TableSound, TakenInOrder, S!TakenInOrder
<1> QED BY <1>1, <1>2, <1>3, PTL DEF Spec

\* What was accepted holds as many unblockable signals as the process was sent.
KillInv ==
  /\ killed \in [Process -> Nat]
  /\ \A p \in DOMAIN tables :
       /\ p \in Process
       /\ IsFiniteSet(S!Kills(tables[p].accepted))
       /\ Cardinality(S!Kills(tables[p].accepted)) = killed[p]

\* A signal that is accepted is counted if it is unblockable.
LEMMA KillsOfAppend ==
  ASSUME NEW q \in Seq(Signal), NEW sig \in Signal, IsFiniteSet(S!Kills(q))
  PROVE  /\ IsFiniteSet(S!Kills(Append(q, sig)))
         /\ Cardinality(S!Kills(Append(q, sig)))
              = IF sig \in Unblockable THEN Cardinality(S!Kills(q)) + 1
                                       ELSE Cardinality(S!Kills(q))
<1> DEFINE r == Append(q, sig)
           n == Len(q)
<1>1. /\ n \in Nat /\ DOMAIN q = 1 .. n
      /\ DOMAIN r = 1 .. n + 1 /\ r[n + 1] = sig /\ \A i \in 1 .. n : r[i] = q[i]
  BY AppendProperties, LenProperties
<1> HIDE DEF r, n
<1>2. /\ \A i \in 1 .. n + 1 : i \in 1 .. n \/ i = n + 1
      /\ \A i \in 1 .. n : i \in 1 .. n + 1
      /\ n + 1 \in 1 .. n + 1 /\ n + 1 \notin 1 .. n
  BY <1>1
<1>3. CASE sig \in Unblockable
  <2>1. \A i : i \in S!Kills(r) <=> i \in S!Kills(q) \/ i = n + 1
    BY <1>1, <1>2, <1>3 DEF S!Kills
  <2>2. n + 1 \notin S!Kills(q)
    BY <1>1, <1>2 DEF S!Kills
  <2>3. S!Kills(r) = S!Kills(q) \cup {n + 1}
    BY <2>1
  <2> QED BY <1>3, <2>2, <2>3, FS_AddElement DEF r
<1>4. CASE sig \notin Unblockable
  <2>1. \A i : i \in S!Kills(r) <=> i \in S!Kills(q)
    BY <1>1, <1>2, <1>4 DEF S!Kills
  <2>2. S!Kills(r) = S!Kills(q)
    BY <2>1
  <2> QED BY <1>4, <2>2 DEF r
<1> QED BY <1>3, <1>4

LEMMA KillStep ==
  ASSUME SignalInv, KillInv, S!Next
  PROVE  KillInv'
<1>1. ASSUME NEW p \in Process, S!CreateTable(p) PROVE KillInv'
  <2>1. S!Kills(<<>>) = {}
    BY DEF S!Kills
  <2>2. IsFiniteSet(S!Kills(<<>>)) /\ Cardinality(S!Kills(<<>>)) = 0
    BY <2>1, FS_EmptySet
  <2>3. /\ DOMAIN tables' = DOMAIN tables \cup {p}
        /\ tables'[p].accepted = <<>> /\ killed' = [killed EXCEPT ![p] = 0]
        /\ \A q \in DOMAIN tables : q # p => tables'[q] = tables[q]
    BY <1>1 DEF S!CreateTable, S!NewTable
  <2> QED BY <2>2, <2>3 DEF KillInv
<1>2. ASSUME NEW p \in Process,
             \/ S!Take(p)
             \/ \E sig \in Signal : S!Block(p, sig) \/ S!Unblock(p, sig)
      PROVE  KillInv'
  <2>1. /\ killed' = killed /\ p \in DOMAIN tables
        /\ \E new \in Table : /\ tables' = [tables EXCEPT ![p] = new]
                              /\ new.accepted = tables[p].accepted
    <3>1. CASE S!Take(p)
      <4> DEFINE t == tables[p]
                 u == [t EXCEPT !.pending = S!RemoveAt(@, 1), !.taken = Append(@, t.pending[1])]
      <4>1. p \in DOMAIN tables /\ t.pending # <<>> /\ TableSound(t) /\ killed' = killed
        BY <3>1 DEF S!Take, SignalInv
      <4>2. tables' = [tables EXCEPT ![p] = u]
        BY <3>1 DEF S!Take, S!TakeIndex
      <4>3. u \in Table
        BY <4>1, TakeSound DEF TableSound
      <4>4. u.accepted = t.accepted
        BY <4>1 DEF TableSound, Table
      <4> QED BY <4>1, <4>2, <4>3, <4>4
    <3>2. ASSUME NEW sig \in Signal, S!Block(p, sig) \/ S!Unblock(p, sig)
          PROVE  /\ killed' = killed /\ p \in DOMAIN tables
                 /\ \E new \in Table : /\ tables' = [tables EXCEPT ![p] = new]
                                       /\ new.accepted = tables[p].accepted
      <4>1. p \in DOMAIN tables /\ tables[p] \in Table /\ killed' = killed
        BY <3>2 DEF S!Block, S!Unblock, SignalInv, TableSound
      <4>2. PICK b \in SUBSET Signal : tables' = [tables EXCEPT ![p] = [tables[p] EXCEPT !.blocked = b]]
        <5>1. tables[p].blocked \cup {sig} \in SUBSET Signal /\ tables[p].blocked \ {sig} \in SUBSET Signal
          BY <4>1 DEF Table
        <5> QED BY <3>2, <5>1 DEF S!Block, S!Unblock
      <4> DEFINE u == [tables[p] EXCEPT !.blocked = b]
      <4>3. u \in Table /\ u.accepted = tables[p].accepted
        BY <4>1 DEF Table
      <4> HIDE DEF u
      <4>4. tables' = [tables EXCEPT ![p] = u]
        BY <4>2 DEF u
      <4> QED BY <4>1, <4>3, <4>4
    <3> QED BY <1>2, <3>1, <3>2
  <2> QED BY <2>1 DEF KillInv
<1>3. ASSUME NEW p \in Process, NEW sig \in Signal, S!Send(p, sig) PROVE KillInv'
  <2> DEFINE old == tables[p].accepted
             more == IF sig \in Unblockable THEN killed[p] + 1 ELSE killed[p]
  <2>1. p \in DOMAIN tables /\ old \in Seq(Signal)
    BY <1>3 DEF S!Send, SignalInv, Table
  <2>2. killed' = [killed EXCEPT ![p] = more]
    BY <1>3 DEF S!Send
  <2>3. killed[p] \in Nat /\ IsFiniteSet(S!Kills(old)) /\ Cardinality(S!Kills(old)) = killed[p]
    BY <2>1 DEF KillInv
  <2>4. /\ DOMAIN tables' = DOMAIN tables
        /\ \A q \in DOMAIN tables : q # p => tables'[q] = tables[q]
        /\ tables'[p].accepted = IF S!Accepts(tables[p], sig) THEN Append(old, sig) ELSE old
    BY <1>3, <2>1 DEF S!Send, SignalInv, Table
  <2>5. sig \notin Unblockable \/ S!Accepts(tables[p], sig)
    BY DEF S!Accepts
  <2>6. /\ IsFiniteSet(S!Kills(tables'[p].accepted))
        /\ Cardinality(S!Kills(tables'[p].accepted)) = more
    BY <2>1, <2>3, <2>4, <2>5, KillsOfAppend
  <2>7. more \in Nat
    BY <2>3
  <2> HIDE DEF more
  <2> QED BY <2>2, <2>4, <2>6, <2>7 DEF KillInv
<1> QED BY <1>1, <1>2, <1>3 DEF S!Next

\* send never refuses a SIGKILL or SIGSTOP, and what it accepts stays until it
\* is taken, whatever is blocked and unblocked in between.
THEOREM KillsAlwaysArrive == Spec => []KillsArrive
<1>1. Init => SignalInv /\ KillInv
  BY DEF Init, S!Init, SignalInv, TableSound, KillInv
<1>2. SignalInv /\ KillInv /\ [Next]_vars => SignalInv' /\ KillInv'
  <2>1. CASE UNCHANGED <<tables, killed>>
    BY <2>1 DEF SignalInv, KillInv
  <2> QED BY <2>1, SignalStep, KillStep DEF Next, vars
<1>3. SignalInv /\ KillInv => KillsArrive
  <2>1. \A X : S!Cardinality(X) = Cardinality(X)
    BY DEF S!Cardinality, Cardinality
  <2> QED BY <2>1, Zenon DEF SignalInv, KillInv, TableSound, KillsArrive, S!KillsArrive
<1> QED BY <1>1, <1>2, <1>3, PTL DEF Spec

----------------------------------------------------------------------------
(* Pipes.                                                                  *)

Pipe == [buffer : Seq(Nat), writeClosed : BOOLEAN, readClosed : BOOLEAN,
         sent : Nat, received : Seq(Nat)]

Rising(q) == \A i, j \in 1 .. Len(q) : i < j => q[i] < q[j]

\* What was received is older than what is in the buffer, and that is no newer
\* than what was sent last.
PipeSound(q) ==
  /\ q \in Pipe
  /\ Rising(q.received) /\ Rising(q.buffer)
  /\ \A i \in 1 .. Len(q.received), j \in 1 .. Len(q.buffer) : q.received[i] < q.buffer[j]
  /\ \A i \in 1 .. Len(q.received) : q.received[i] <= q.sent
  /\ \A j \in 1 .. Len(q.buffer) : q.buffer[j] <= q.sent
  /\ q.buffer # <<>> => q.buffer[Len(q.buffer)] = q.sent
  /\ Len(q.buffer) <= Capacity

PipesInv ==
  /\ \A p \in DOMAIN pipes : PipeSound(pipes[p])
  /\ pipes \in [DOMAIN pipes -> Pipe]
  /\ \A fd \in DOMAIN ends : ends[fd] \in DOMAIN pipes
  /\ nextPipeFd \in Nat /\ \A p \in DOMAIN pipes : p \in Nat /\ p < nextPipeFd

\* What is written goes behind what is there.
LEMMA NewBytes ==
  ASSUME NEW q, PipeSound(q), NEW n \in Nat
  PROVE  LET all == q.buffer \o [i \in 1 .. n |-> q.sent + i]
         IN  /\ all \in Seq(Nat) /\ Len(all) = Len(q.buffer) + n
             /\ Rising(all)
             /\ \A i \in 1 .. Len(q.received), j \in 1 .. Len(all) : q.received[i] < all[j]
             /\ \A j \in 1 .. Len(all) : all[j] <= q.sent + n
             /\ n > 0 => all[Len(all)] = q.sent + n
<1> DEFINE new == [i \in 1 .. n |-> q.sent + i]
           all == q.buffer \o new
           k   == Len(q.buffer)
<1>1. q.buffer \in Seq(Nat) /\ q.received \in Seq(Nat) /\ q.sent \in Nat /\ k \in Nat
  BY LenProperties DEF PipeSound, Pipe
<1>2. new \in Seq(Nat) /\ Len(new) = n /\ \A i \in 1 .. n : new[i] = q.sent + i
  BY <1>1
<1> HIDE DEF new
<1>3. /\ all \in Seq(Nat) /\ Len(all) = k + n
      /\ \A i \in 1 .. k + n : all[i] = IF i <= k THEN q.buffer[i] ELSE new[i - k]
  BY <1>1, <1>2, ConcatProperties
<1> HIDE DEF all
<1>k. k = Len(q.buffer)
  OBVIOUS
<1> HIDE DEF k
<1>4. \A i \in 1 .. k + n : all[i] = IF i <= k THEN q.buffer[i] ELSE q.sent + (i - k)
  <2> TAKE i \in 1 .. k + n
  <2>1. CASE i <= k
    BY <1>3, <2>1
  <2>2. CASE ~ (i <= k)
    <3>1. i - k \in 1 .. n
      BY <1>1, <2>2
    <3> QED BY <1>2, <1>3, <2>2, <3>1
  <2> QED BY <2>1, <2>2
<1>5. \A i \in 1 .. k : q.buffer[i] \in Nat /\ q.buffer[i] <= q.sent
  BY <1>1, <1>k, ElementOfSeq DEF PipeSound
<1>6. Rising(all)
  <2> SUFFICES ASSUME NEW i \in 1 .. k + n, NEW j \in 1 .. k + n, i < j
               PROVE  all[i] < all[j]
    BY <1>3 DEF Rising
  <2>1. CASE j <= k
    <3>1. i \in 1 .. k /\ j \in 1 .. k
      BY <1>1, <2>1
    <3> QED BY <1>4, <1>k, <2>1, <3>1 DEF PipeSound, Rising
  <2>2. CASE i <= k /\ k < j
    <3>1. all[j] = q.sent + (j - k) /\ j - k > 0 /\ j - k \in Int
      BY <1>1, <1>4, <2>2
    <3>2. i \in 1 .. k /\ all[i] = q.buffer[i]
      BY <1>1, <1>4, <2>2
    <3>3. q.buffer[i] \in Nat /\ q.buffer[i] <= q.sent
      BY <1>5, <3>2
    <3> QED BY <1>1, <3>1, <3>2, <3>3
  <2>3. CASE k < i
    BY <1>1, <1>4, <2>3
  <2> QED BY <1>1, <2>1, <2>2, <2>3
<1>7. ASSUME NEW i \in 1 .. Len(q.received), NEW j \in 1 .. Len(all)
      PROVE  q.received[i] < all[j]
  <2>1. q.received[i] \in Nat /\ q.received[i] <= q.sent
    BY <1>1, ElementOfSeq DEF PipeSound
  <2>2. CASE j <= k
    <3>1. j \in 1 .. k
      BY <1>3, <2>2
    <3> QED BY <1>3, <1>4, <1>k, <2>2, <3>1 DEF PipeSound
  <2>3. CASE k < j
    <3>1. all[j] = q.sent + (j - k) /\ j - k > 0 /\ j - k \in Int
      BY <1>1, <1>3, <1>4, <2>3
    <3> QED BY <1>1, <2>1, <3>1
  <2> QED BY <1>1, <1>3, <2>2, <2>3
<1>8. \A j \in 1 .. Len(all) : all[j] <= q.sent + n
  <2> SUFFICES ASSUME NEW j \in 1 .. k + n PROVE all[j] <= q.sent + n
    BY <1>3
  <2>1. CASE j <= k
    <3>1. j \in 1 .. k
      BY <1>1, <2>1
    <3>2. q.buffer[j] \in Nat /\ q.buffer[j] <= q.sent /\ all[j] = q.buffer[j]
      BY <1>4, <1>5, <2>1, <3>1
    <3> QED BY <1>1, <3>2
  <2>2. CASE ~ (j <= k)
    <3>1. all[j] = q.sent + (j - k) /\ j - k \in 1 .. n
      BY <1>1, <1>4, <2>2
    <3> QED BY <1>1, <3>1
  <2> QED BY <2>1, <2>2
<1>9. n > 0 => all[Len(all)] = q.sent + n
  BY <1>1, <1>3, <1>4
<1> QED BY <1>3, <1>6, <1>7, <1>8, <1>9 DEF all, new, k

\* The places of a part of a list are consecutive places of the list.
LEMMA PartOf ==
  ASSUME NEW q \in Seq(Nat), NEW m \in Nat \ {0}, NEW n \in Nat, n <= Len(q), m <= n + 1
  PROVE  LET part == SubSeq(q, m, n)
         IN  /\ part \in Seq(Nat) /\ Len(part) = n - m + 1
             /\ \A i \in 1 .. Len(part) : m + i - 1 \in 1 .. Len(q) /\ part[i] = q[m + i - 1]
             /\ Rising(q) => Rising(part)
<1> DEFINE part == SubSeq(q, m, n)
<1>1. Len(q) \in Nat /\ \A i \in m .. n : q[i] \in Nat
  BY LenProperties, ElementOfSeq
<1>2. /\ part \in Seq(Nat) /\ Len(part) = IF m <= n THEN n - m + 1 ELSE 0
      /\ \A i \in 1 .. n - m + 1 : part[i] = q[m + i - 1]
  BY <1>1, SubSeqProperties
<1> HIDE DEF part
<1>3. Len(part) = n - m + 1
  BY <1>2
<1>4. \A i \in 1 .. Len(part) : m + i - 1 \in 1 .. Len(q) /\ part[i] = q[m + i - 1]
  BY <1>1, <1>2, <1>3
<1>5. ASSUME Rising(q), NEW i \in 1 .. Len(part), NEW j \in 1 .. Len(part), i < j
      PROVE  part[i] < part[j]
  <2>1. /\ m + i - 1 \in 1 .. Len(q) /\ m + j - 1 \in 1 .. Len(q)
        /\ m + i - 1 < m + j - 1
    BY <1>4, <1>5, <1>3
  <2> QED BY <1>4, <1>5, <2>1 DEF Rising
<1> QED BY <1>2, <1>3, <1>4, <1>5 DEF part, Rising

\* Pipe.write, with the oldest bytes discarded when it overruns the buffer.
LEMMA WriteSound ==
  ASSUME NEW q, PipeSound(q), NEW n \in Nat \ {0}
  PROVE  LET new == [q EXCEPT !.buffer = P!Newest(@ \o [i \in 1 .. n |-> q.sent + i]),
                              !.sent = @ + n]
         IN  /\ PipeSound(new) /\ new.sent = q.sent + n /\ new.received = q.received
             /\ Len(new.buffer) \in {Len(q.buffer) + n, Capacity}
<1> DEFINE all  == q.buffer \o [i \in 1 .. n |-> q.sent + i]
           m    == IF Len(all) <= Capacity THEN 1 ELSE Len(all) - Capacity + 1
           kept == SubSeq(all, m, Len(all))
<1>1. P!Newest(all) = kept
  BY DEF P!Newest
<1>2. /\ all \in Seq(Nat) /\ Len(all) = Len(q.buffer) + n
      /\ Rising(all)
      /\ \A i \in 1 .. Len(q.received), j \in 1 .. Len(all) : q.received[i] < all[j]
      /\ \A j \in 1 .. Len(all) : all[j] <= q.sent + n
      /\ all[Len(all)] = q.sent + n
  <2> HIDE DEF m, kept
  <2> n \in Nat /\ n > 0
    OBVIOUS
  <2> QED BY NewBytes
<1>a. all = q.buffer \o [i \in 1 .. n |-> q.sent + i]
  OBVIOUS
<1> HIDE DEF all
<1>3. /\ q.buffer \in Seq(Nat) /\ q.received \in Seq(Nat) /\ q.sent \in Nat
      /\ Len(q.received) \in Nat /\ Len(q.buffer) \in Nat /\ Capacity \in Nat
  BY PipeAssumption, LenProperties DEF PipeSound, Pipe
<1>4. m \in Nat \ {0} /\ Len(all) \in Nat /\ m <= Len(all) + 1
  BY <1>2, <1>3
<1>5. Len(all) - m + 1 = IF Len(all) <= Capacity THEN Len(all) ELSE Capacity
  BY <1>2, <1>3
<1> HIDE DEF m
<1>6. /\ kept \in Seq(Nat) /\ Len(kept) = Len(all) - m + 1
      /\ \A i \in 1 .. Len(kept) : m + i - 1 \in 1 .. Len(all) /\ kept[i] = all[m + i - 1]
      /\ Rising(kept)
  BY <1>2, <1>4, PartOf
<1> HIDE DEF kept
<1> DEFINE new == [q EXCEPT !.buffer = kept, !.sent = @ + n]
<1>7. /\ new \in Pipe /\ new.buffer = kept /\ new.sent = q.sent + n
      /\ new.received = q.received
  <2>1. q \in Pipe /\ q.sent + n \in Nat /\ kept \in Seq(Nat)
    BY <1>3, <1>6 DEF PipeSound
  <2> QED BY <2>1 DEF Pipe
<1>8. kept # <<>> => kept[Len(kept)] = q.sent + n
  <2> SUFFICES ASSUME kept # <<>> PROVE kept[Len(kept)] = q.sent + n
    OBVIOUS
  <2>1. Len(kept) \in 1 .. Len(kept)
    BY <1>6, EmptySeq
  <2>2. m + Len(kept) - 1 = Len(all)
    BY <1>4, <1>6
  <2> QED BY <1>2, <1>6, <2>1, <2>2
<1> HIDE DEF new
<1>9. PipeSound(new)
  <2>1. \A i \in 1 .. Len(q.received) : q.received[i] <= q.sent + n
    <3>1. \A i \in 1 .. Len(q.received) : q.received[i] \in Nat /\ q.received[i] <= q.sent
      BY <1>3, ElementOfSeq DEF PipeSound
    <3> QED BY <1>3, <3>1
  <2>2. \A i \in 1 .. Len(q.received), j \in 1 .. Len(kept) : q.received[i] < kept[j]
    BY <1>2, <1>6
  <2>3. \A j \in 1 .. Len(kept) : kept[j] <= q.sent + n
    BY <1>2, <1>6
  <2>4. Len(kept) <= Capacity
    BY <1>2, <1>3, <1>5, <1>6
  <2>5. Rising(q.received)
    BY DEF PipeSound
  <2> QED BY <1>6, <1>7, <1>8, <2>1, <2>2, <2>3, <2>4, <2>5 DEF PipeSound
<1>10. Len(new.buffer) \in {Len(q.buffer) + n, Capacity}
  BY <1>2, <1>5, <1>6, <1>7
<1> QED BY <1>1, <1>a, <1>7, <1>9, <1>10 DEF new

\* Pipe.read: the oldest bytes of the buffer go behind what was received.
LEMMA ReadSound ==
  ASSUME NEW q, PipeSound(q), NEW k \in Nat, k <= Len(q.buffer)
  PROVE  LET new == [q EXCEPT !.buffer = SubSeq(@, k + 1, Len(@)),
                              !.received = @ \o SubSeq(q.buffer, 1, k)]
         IN  /\ PipeSound(new) /\ new.sent = q.sent
             /\ Len(new.received) = Len(q.received) + k
             /\ Len(new.buffer) = Len(q.buffer) - k
<1> DEFINE l    == Len(q.buffer)
           r    == Len(q.received)
           rest == SubSeq(q.buffer, k + 1, l)
           read == SubSeq(q.buffer, 1, k)
           seen == q.received \o read
<1>1. /\ q.buffer \in Seq(Nat) /\ q.received \in Seq(Nat) /\ q.sent \in Nat
      /\ l \in Nat /\ r \in Nat /\ Capacity \in Nat
  BY PipeAssumption, LenProperties DEF PipeSound, Pipe
<1>2. /\ Rising(q.received) /\ Rising(q.buffer) /\ l <= Capacity
      /\ \A i \in 1 .. r, j \in 1 .. l : q.received[i] < q.buffer[j]
      /\ \A i \in 1 .. r : q.received[i] \in Nat /\ q.received[i] <= q.sent
      /\ \A j \in 1 .. l : q.buffer[j] \in Nat /\ q.buffer[j] <= q.sent
      /\ q.buffer # <<>> => q.buffer[l] = q.sent
  BY <1>1, ElementOfSeq DEF PipeSound
<1>3. /\ rest \in Seq(Nat) /\ Len(rest) = l - k /\ Rising(rest)
      /\ \A i \in 1 .. l - k : k + i \in 1 .. l /\ rest[i] = q.buffer[k + i]
  <2>1. k + 1 \in Nat \ {0} /\ k + 1 <= l + 1 /\ l <= Len(q.buffer)
    BY <1>1
  <2>2. /\ rest \in Seq(Nat) /\ Len(rest) = l - (k + 1) + 1
        /\ \A i \in 1 .. Len(rest) : (k + 1) + i - 1 \in 1 .. Len(q.buffer)
                                     /\ rest[i] = q.buffer[(k + 1) + i - 1]
        /\ Rising(rest)
    BY <1>1, <1>2, <2>1, PartOf
  <2> HIDE DEF rest
  <2>3. Len(rest) = l - k
    BY <1>1, <2>2
  <2>4. \A i \in 1 .. l - k : (k + 1) + i - 1 = k + i
    BY <1>1
  <2> QED BY <2>2, <2>3, <2>4
<1>4. /\ read \in Seq(Nat) /\ Len(read) = k /\ Rising(read)
      /\ \A i \in 1 .. k : i \in 1 .. l /\ read[i] = q.buffer[i]
  <2>1. /\ read \in Seq(Nat) /\ Len(read) = k - 1 + 1
        /\ \A i \in 1 .. Len(read) : 1 + i - 1 \in 1 .. Len(q.buffer)
                                     /\ read[i] = q.buffer[1 + i - 1]
        /\ Rising(read)
    BY <1>1, <1>2, PartOf
  <2> HIDE DEF read
  <2>2. Len(read) = k
    BY <2>1
  <2>3. \A i \in 1 .. k : 1 + i - 1 = i
    OBVIOUS
  <2> QED BY <2>1, <2>2, <2>3
<1> HIDE DEF rest, read
<1>5. /\ seen \in Seq(Nat) /\ Len(seen) = r + k
      /\ \A i \in 1 .. r + k : seen[i] = IF i <= r THEN q.received[i] ELSE read[i - r]
  BY <1>1, <1>4, ConcatProperties
<1>l. l = Len(q.buffer) /\ r = Len(q.received)
  OBVIOUS
<1>s. seen = q.received \o read
  OBVIOUS
<1> HIDE DEF seen, l, r
<1>6. \A i \in 1 .. r + k :
        \/ i \in 1 .. r /\ seen[i] = q.received[i]
        \/ i - r \in 1 .. k /\ i > r /\ seen[i] = q.buffer[i - r]
  <2> TAKE i \in 1 .. r + k
  <2>1. CASE i <= r
    BY <1>1, <1>5, <2>1
  <2>2. CASE ~ (i <= r)
    <3>1. i - r \in 1 .. k /\ i > r
      BY <1>1, <2>2
    <3> QED BY <1>4, <1>5, <2>2, <3>1
  <2> QED BY <2>1, <2>2
<1>7. Rising(seen)
  <2> SUFFICES ASSUME NEW i \in 1 .. r + k, NEW j \in 1 .. r + k, i < j
               PROVE  seen[i] < seen[j]
    BY <1>5 DEF Rising
  <2>1. CASE j \in 1 .. r /\ seen[j] = q.received[j]
    <3>1. i \in 1 .. r /\ seen[i] = q.received[i]
      <4>1. ~ (i > r)
        BY <1>1, <2>1
      <4> QED BY <1>6, <4>1
    <3> QED BY <1>l, <1>2, <2>1, <3>1 DEF Rising
  <2>2. CASE j - r \in 1 .. k /\ seen[j] = q.buffer[j - r]
    <3>1. CASE i \in 1 .. r /\ seen[i] = q.received[i]
      BY <1>2, <1>4, <2>2, <3>1
    <3>2. CASE i - r \in 1 .. k /\ seen[i] = q.buffer[i - r]
      <4>1. i - r < j - r /\ i - r \in 1 .. l /\ j - r \in 1 .. l
        BY <1>1, <1>4, <2>2, <3>2
      <4> QED BY <1>l, <1>2, <2>2, <3>2, <4>1 DEF Rising
    <3> QED BY <1>6, <3>1, <3>2
  <2> QED BY <1>6, <2>1, <2>2
<1>8. \A i \in 1 .. r + k, j \in 1 .. l - k : seen[i] < rest[j]
  <2> TAKE i \in 1 .. r + k, j \in 1 .. l - k
  <2>1. k + j \in 1 .. l /\ rest[j] = q.buffer[k + j]
    BY <1>3
  <2>2. CASE i \in 1 .. r /\ seen[i] = q.received[i]
    BY <1>2, <2>1, <2>2
  <2>3. CASE i - r \in 1 .. k /\ seen[i] = q.buffer[i - r]
    <3>1. i - r < k + j /\ i - r \in 1 .. l
      BY <1>1, <1>4, <2>3
    <3> QED BY <1>l, <1>2, <2>1, <2>3, <3>1 DEF Rising
  <2> QED BY <1>6, <2>2, <2>3
<1>9. \A i \in 1 .. r + k : seen[i] <= q.sent
  BY <1>2, <1>4, <1>6
<1>10. \A j \in 1 .. l - k : rest[j] <= q.sent
  BY <1>2, <1>3
<1>11. rest # <<>> => rest[l - k] = q.sent
  <2> SUFFICES ASSUME rest # <<>> PROVE rest[l - k] = q.sent
    OBVIOUS
  <2>1. l - k \in 1 .. l - k /\ k + (l - k) = l /\ l # 0
    BY <1>1, <1>3, EmptySeq
  <2>2. q.buffer # <<>>
    BY <1>l, <2>1, EmptySeq
  <2> QED BY <1>2, <1>3, <2>1, <2>2
<1> DEFINE new == [q EXCEPT !.buffer = rest, !.received = seen]
<1>12. /\ new \in Pipe /\ new.buffer = rest /\ new.received = seen /\ new.sent = q.sent
  <2>1. q \in Pipe
    BY DEF PipeSound
  <2> QED BY <1>3, <1>5, <2>1 DEF Pipe
<1> HIDE DEF new
<1>13. PipeSound(new)
  <2>1. l - k <= Capacity
    BY <1>1, <1>2
  <2> QED BY <1>3, <1>5, <1>7, <1>8, <1>9, <1>10, <1>11, <1>12, <2>1 DEF PipeSound
<1>14. Len(new.received) = r + k /\ Len(new.buffer) = l - k
  BY <1>3, <1>5, <1>12
<1> QED BY <1>12, <1>13, <1>14 DEF new, rest, seen, read, l, r

\* Replacing one pipe by a sound one.
LEMMA OnePipe ==
  ASSUME PipesInv, NEW p \in DOMAIN pipes, NEW q, PipeSound(q),
         pipes' = [pipes EXCEPT ![p] = q], UNCHANGED <<ends, nextPipeFd>>
  PROVE  PipesInv'
BY DEF PipesInv, PipeSound

\* What the calls on a descriptor do to its pipe, and to no other.
PipeStep(fd, q) ==
  /\ fd \in DOMAIN ends /\ ends[fd] \in DOMAIN pipes
  /\ pipes' = [pipes EXCEPT ![ends[fd]] = q]
  /\ UNCHANGED <<ends, nextPipeFd>>
  /\ PipeSound(q)
  /\ P!Lost(q) # P!Lost(pipes[ends[fd]]) => Len(q.buffer) = Capacity

LEMMA CallsOnPipes ==
  ASSUME PipesInv, NEW fd \in DOMAIN ends,
         \/ \E n \in 1 .. Size : P!Write(fd, n) \/ P!Read(fd, n)
         \/ P!CloseWrite(fd) \/ P!CloseRead(fd)
  PROVE  \E q : PipeStep(fd, q)
<1> DEFINE q == pipes[ends[fd]]
<1>1. ends[fd] \in DOMAIN pipes /\ PipeSound(q)
  BY DEF PipesInv
<1>2. /\ q \in Pipe /\ q.buffer \in Seq(Nat) /\ q.received \in Seq(Nat) /\ q.sent \in Nat
      /\ Len(q.buffer) \in Nat /\ Len(q.received) \in Nat
  BY <1>1, LenProperties DEF PipeSound, Pipe
<1>3. ASSUME NEW n \in 1 .. Size, P!Write(fd, n) PROVE \E new : PipeStep(fd, new)
  <2> DEFINE new == [q EXCEPT !.buffer = P!Newest(@ \o [i \in 1 .. n |-> q.sent + i]),
                              !.sent = @ + n]
  <2>1. n \in Nat \ {0}
    BY PipeAssumption
  <2>2. /\ PipeSound(new) /\ new.sent = q.sent + n /\ new.received = q.received
        /\ Len(new.buffer) \in {Len(q.buffer) + n, Capacity}
    <3> HIDE DEF q
    <3> QED BY <1>1, <2>1, WriteSound
  <2>3. pipes' = [pipes EXCEPT ![ends[fd]] = new] /\ UNCHANGED <<ends, nextPipeFd>>
    BY <1>3 DEF P!Write
  <2> HIDE DEF new
  <2>4. P!Lost(new) # P!Lost(q) => Len(new.buffer) = Capacity
    <3> DEFINE r == Len(q.received)
               b == Len(q.buffer)
    <3> HIDE DEF q
    <3>1. CASE Len(new.buffer) = Capacity
      BY <3>1
    <3>2. CASE Len(new.buffer) = b + n
      <4>1. P!Lost(q) = q.sent - r - b
        BY Zenon DEF P!Lost
      <4>2. new.sent = q.sent + n /\ Len(new.received) = r
        BY <2>2
      <4>3. P!Lost(new) = new.sent - Len(new.received) - Len(new.buffer)
        BY Zenon DEF P!Lost
      <4>4. P!Lost(new) = (q.sent + n) - r - (b + n)
        <5> HIDE DEF r, b
        <5> QED BY <3>2, <4>2, <4>3, Zenon
      <4>5. q.sent \in Nat /\ r \in Nat /\ b \in Nat
        BY <1>2
      <4> HIDE DEF r, b
      <4>6. (q.sent + n) - r - (b + n) = q.sent - r - b
        BY <2>1, <4>5
      <4> QED BY <4>1, <4>4, <4>6
    <3> QED BY <2>2, <3>1, <3>2
  <2> QED BY <1>1, <2>2, <2>3, <2>4 DEF PipeStep
<1>4. ASSUME NEW n \in 1 .. Size, P!Read(fd, n) PROVE \E new : PipeStep(fd, new)
  <2> DEFINE k   == IF n < Len(q.buffer) THEN n ELSE Len(q.buffer)
             new == [q EXCEPT !.buffer = SubSeq(@, k + 1, Len(@)),
                              !.received = @ \o SubSeq(q.buffer, 1, k)]
  <2>1. k \in Nat /\ k <= Len(q.buffer)
    BY <1>2, PipeAssumption
  <2>2. pipes' = [pipes EXCEPT ![ends[fd]] = new] /\ UNCHANGED <<ends, nextPipeFd>>
    BY <1>4 DEF P!Read
  <2> HIDE DEF k
  <2>3. /\ PipeSound(new) /\ new.sent = q.sent
        /\ Len(new.received) = Len(q.received) + k /\ Len(new.buffer) = Len(q.buffer) - k
    <3> HIDE DEF q
    <3> QED BY <1>1, <2>1, ReadSound
  <2> HIDE DEF new
  <2>4. P!Lost(new) = P!Lost(q)
    <3> HIDE DEF q
    <3> QED BY <1>2, <2>1, <2>3 DEF P!Lost
  <2> QED BY <1>1, <2>2, <2>3, <2>4 DEF PipeStep
<1>5. ASSUME P!CloseWrite(fd) \/ P!CloseRead(fd) PROVE \E new : PipeStep(fd, new)
  <2>1. PICK new \in {[q EXCEPT !.writeClosed = TRUE], [q EXCEPT !.readClosed = TRUE]} :
          pipes' = [pipes EXCEPT ![ends[fd]] = new] /\ UNCHANGED <<ends, nextPipeFd>>
    BY <1>5 DEF P!CloseWrite, P!CloseRead
  <2>2. /\ new \in Pipe /\ new.buffer = q.buffer /\ new.received = q.received
        /\ new.sent = q.sent
    BY <1>2, <2>1 DEF Pipe
  <2>3. PipeSound(new) /\ P!Lost(new) = P!Lost(q)
    <3> HIDE DEF q
    <3> QED BY <1>1, <2>2 DEF PipeSound, P!Lost
  <2> QED BY <1>1, <2>1, <2>3 DEF PipeStep
<1> QED BY <1>3, <1>4, <1>5

LEMMA NewPipeSound == PipeSound(P!NewPipe)
<1>1. <<>> \in Seq(Nat) /\ Len(<<>>) = 0
  BY EmptySeq
<1> QED BY <1>1, PipeAssumption DEF PipeSound, Pipe, P!NewPipe, Rising

LEMMA PipesInvInit == Init => PipesInv
BY PipeAssumption DEF Init, P!Init, PipesInv

\* A step makes a new pipe, or changes one, or changes none.
LEMMA PipesStep ==
  ASSUME PipesInv, [Next]_vars
  PROVE  /\ PipesInv'
         /\ \A p \in DOMAIN pipes :
              P!Lost(pipes'[p]) # P!Lost(pipes[p]) => Len(pipes'[p].buffer) = Capacity
<1> DEFINE NoLoss == \A p \in DOMAIN pipes :
              P!Lost(pipes'[p]) # P!Lost(pipes[p]) => Len(pipes'[p].buffer) = Capacity
<1>1. ASSUME P!CreatePipe PROVE PipesInv' /\ NoLoss
  <2>1. /\ pipes' = [p \in DOMAIN pipes \cup {nextPipeFd} |->
                       IF p = nextPipeFd THEN P!NewPipe ELSE pipes[p]]
        /\ nextPipeFd' = nextPipeFd + 2
    BY <1>1 DEF P!CreatePipe, P!NextPipeFd
  <2>2. nextPipeFd \in Nat /\ \A p \in DOMAIN pipes : p \in Nat /\ p < nextPipeFd
    BY DEF PipesInv
  <2>3. \A p \in DOMAIN pipes : pipes'[p] = pipes[p]
    BY <2>1, <2>2
  <2>4. /\ \A p \in DOMAIN pipes' : PipeSound(pipes'[p])
        /\ pipes' \in [DOMAIN pipes' -> Pipe]
    <3>1. \A p \in DOMAIN pipes' : PipeSound(pipes'[p])
      BY <2>1, NewPipeSound DEF PipesInv
    <3> QED BY <2>1, <3>1 DEF PipeSound
  <2>5. \A fd \in DOMAIN ends' : ends'[fd] \in DOMAIN pipes'
    BY <1>1, <2>1 DEF P!CreatePipe, PipesInv
  <2>6. nextPipeFd' \in Nat /\ \A p \in DOMAIN pipes' : p \in Nat /\ p < nextPipeFd'
    BY <2>1, <2>2
  <2> QED BY <2>3, <2>4, <2>5, <2>6 DEF PipesInv
<1>2. ASSUME NEW fd \in DOMAIN ends,
             \/ \E n \in 1 .. Size : P!Write(fd, n) \/ P!Read(fd, n)
             \/ P!CloseWrite(fd) \/ P!CloseRead(fd)
      PROVE  PipesInv' /\ NoLoss
  <2>1. PICK q : PipeStep(fd, q)
    BY <1>2, CallsOnPipes
  <2> QED BY <2>1, OnePipe DEF PipeStep
<1>3. ASSUME UNCHANGED <<ends, pipes, nextPipeFd>> PROVE PipesInv' /\ NoLoss
  BY <1>3 DEF PipesInv
<1> QED BY <1>1, <1>2, <1>3 DEF Next, vars, P!Next

\* The reader of a pipe sees an increasing part of the stream, each byte once,
\* whose unread end is the end of what was sent, for any capacity and sizes.
THEOREM StreamInOrder == Spec => []BytesInOrder
<1>1. PipesInv => BytesInOrder
  <2> SUFFICES ASSUME PipesInv, NEW p \in DOMAIN pipes
               PROVE  LET pipe == pipes[p]
                          seen == pipe.received \o pipe.buffer
                      IN  /\ \A i \in 1 .. Len(seen) - 1 : seen[i] < seen[i + 1]
                          /\ pipe.sent > 0 /\ pipe.buffer # <<>>
                               => P!Last(pipe.buffer) = pipe.sent
                          /\ Len(pipe.buffer) <= Capacity
    BY DEF BytesInOrder, P!BytesInOrder
  <2> DEFINE q    == pipes[p]
             r    == Len(q.received)
             b    == Len(q.buffer)
             seen == q.received \o q.buffer
  <2>1. PipeSound(q) /\ q.buffer \in Seq(Nat) /\ q.received \in Seq(Nat)
    BY DEF PipesInv, PipeSound, Pipe
  <2> HIDE DEF q
  <2>2. b \in Nat /\ r \in Nat
    BY <2>1, LenProperties
  <2>3. /\ Len(seen) = r + b
        /\ \A i \in 1 .. r + b :
             seen[i] = IF i <= r THEN q.received[i] ELSE q.buffer[i - r]
    BY <2>1, ConcatProperties
  <2>l. r = Len(q.received) /\ b = Len(q.buffer)
    OBVIOUS
  <2> HIDE DEF seen, r, b
  <2>4. ASSUME NEW i \in 1 .. Len(seen) - 1 PROVE seen[i] < seen[i + 1]
    <3>1. i \in 1 .. r + b /\ i + 1 \in 1 .. r + b
      BY <2>2, <2>3
    <3>2. CASE i + 1 <= r
      <4>1. seen[i] = q.received[i] /\ seen[i + 1] = q.received[i + 1]
        BY <2>2, <2>3, <3>1, <3>2
      <4> QED BY <2>1, <2>2, <2>l, <3>1, <3>2, <4>1 DEF PipeSound, Rising
    <3>3. CASE i = r
      <4>1. /\ seen[i] = q.received[r] /\ seen[i + 1] = q.buffer[1]
            /\ r \in 1 .. r /\ 1 \in 1 .. b
        BY <2>2, <2>3, <3>1, <3>3
      <4> QED BY <2>1, <2>l, <4>1 DEF PipeSound
    <3>4. CASE i > r
      <4>1. /\ i - r \in 1 .. b /\ (i + 1) - r \in 1 .. b
            /\ i - r < (i + 1) - r /\ ~ (i <= r) /\ ~ (i + 1 <= r)
        BY <2>2, <3>1, <3>4
      <4>2. seen[i] = q.buffer[i - r] /\ seen[i + 1] = q.buffer[(i + 1) - r]
        BY <2>3, <3>1, <4>1
      <4> QED BY <2>1, <2>l, <4>1, <4>2 DEF PipeSound, Rising
    <3> QED BY <2>2, <3>1, <3>2, <3>3, <3>4
  <2>5. /\ q.buffer # <<>> => P!Last(q.buffer) = q.sent
        /\ Len(q.buffer) <= Capacity
    BY <2>1 DEF PipeSound, P!Last
  <2> QED BY <2>4, <2>5 DEF q, seen
<1>2. PipesInv /\ [Next]_vars => PipesInv'
  BY PipesStep
<1> QED BY <1>1, <1>2, PipesInvInit, PTL DEF Spec

\* A write that discards bytes, which it does not report, leaves the buffer
\* full, and nothing else loses any.
THEOREM LossIsVisible == Spec => LossOnlyWhenFull
<1>1. PipesInv /\ [Next]_vars =>
        [\A p \in DOMAIN pipes :
           P!Lost(pipes'[p]) # P!Lost(pipes[p]) => Len(pipes'[p].buffer) = Capacity]_P!vars
  BY PipesStep
<1>2. PipesInv /\ [Next]_vars => PipesInv'
  BY PipesStep
<1> QED BY <1>1, <1>2, PipesInvInit, PTL DEF Spec, LossOnlyWhenFull, P!LossOnlyWhenFull
=============================================================================
