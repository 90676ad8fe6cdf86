--------------------------- MODULE ProcessProofs ---------------------------
(***************************************************************************)
(* Theorems about Processes and ProcessLineage, for every bound on the     *)
(* pids: the allocator and the table agree, the children a process records *)
(* are the ones it forked itself, and nobody else reaps them.              *)
(***************************************************************************)
EXTENDS ProcessLineage, ListLemmas

\* The inductive invariant.  That a living pid is not in the free list and
\* that a recorded child is alive support each other: spawn relies on the
\* first to find the pid it gets in no list of children.
TableInv == TypeOK /\ PidsConserved /\ ChildrenAreKin

----------------------------------------------------------------------------
\* alloc() hands out a pid that nobody has and takes it from the free pids.
LEMMA AllocFacts ==
  ASSUME TypeOK, PidsConserved, freePids # <<>> \/ nextPid <= MaxPid, Alloc
  PROVE  /\ NewPid \in Pid /\ NewPid # 0 /\ NewPid \notin Live
         /\ nextPid' \in FirstPid + 1 .. MaxPid + 1
         /\ freePids' \in Seq(Pid) /\ IsInjective(freePids')
         /\ ToSet(freePids') \subseteq FirstPid .. nextPid' - 1
         /\ Live \cup {NewPid}
              = ({0} \cup (FirstPid .. nextPid' - 1)) \ ToSet(freePids')
<1> USE PidAssumption DEF TypeOK, PidsConserved, FirstPid
<1>1. CASE freePids # <<>>
  <2>1. /\ Head(freePids) \in ToSet(freePids) /\ Head(freePids) \in Pid
        /\ Tail(freePids) \in Seq(Pid) /\ IsInjective(Tail(freePids))
        /\ ToSet(Tail(freePids)) = ToSet(freePids) \ {Head(freePids)}
    BY <1>1, TailInjective
  <2>2. NewPid = Head(freePids) /\ freePids' = Tail(freePids) /\ nextPid' = nextPid
    BY <1>1 DEF NewPid, Alloc
  <2>3. NewPid \in 2 .. nextPid - 1 /\ NewPid # 0 /\ NewPid \notin Live
    BY <2>1, <2>2
  <2> QED BY <2>1, <2>2, <2>3
<1>2. CASE freePids = <<>>
  <2>1. NewPid = nextPid /\ freePids' = freePids /\ nextPid' = nextPid + 1
    BY <1>2 DEF NewPid, Alloc
  <2>2. ToSet(freePids) = {}
    BY <1>2 DEF ToSet
  <2>3. nextPid \in Pid /\ nextPid >= 2 /\ nextPid \notin Live
    BY <1>2, <2>2 DEF Pid
  <2>4. 2 .. (nextPid + 1) - 1 = (2 .. nextPid - 1) \cup {nextPid}
    BY <2>3 DEF Pid
  <2> QED BY <1>2, <2>1, <2>2, <2>3, <2>4 DEF Pid
<1> QED BY <1>1, <1>2

\* free() of a living pid other than idle's puts it behind the free pids.
LEMMA FreeFacts ==
  ASSUME TypeOK, PidsConserved, NEW c \in Live \ {0}, Free(c)
  PROVE  /\ freePids' \in Seq(Pid) /\ IsInjective(freePids')
         /\ ToSet(freePids') = ToSet(freePids) \cup {c}
         /\ c \in FirstPid .. nextPid - 1
<1> USE DEF TypeOK, PidsConserved, FirstPid
<1>1. c \in 2 .. nextPid - 1 /\ c \notin ToSet(freePids) /\ c \in Pid
  BY DEF Live
<1>2. freePids' = Append(freePids, c)
  BY <1>1 DEF Free
<1> QED BY <1>1, <1>2, AppendInjectiveList

\* Changing the list of children of a process changes nothing else of it.
LEMMA WithChildren ==
  ASSUME NEW r \in Process, NEW s \in Seq(Pid)
  PROVE  /\ [r EXCEPT !.children = s] \in Process
         /\ [r EXCEPT !.children = s].ppid = r.ppid
         /\ [r EXCEPT !.children = s].state = r.state
         /\ [r EXCEPT !.children = s].children = s
BY DEF Process

----------------------------------------------------------------------------
LEMMA InitTableInv == Init => TableInv
<1> SUFFICES ASSUME Init PROVE TableInv
  OBVIOUS
<1> USE PidAssumption, NoProcessAssumption DEF Init, FirstPid
<1>1. /\ 0 \in Pid /\ 2 \in Pid /\ <<2>> \in Seq(Pid) /\ <<>> \in Seq(Pid)
      /\ ToSet(<<2>>) = {2} /\ ToSet(<<>>) = {}
      /\ IsInjective(<<2>>) /\ IsInjective(<<>>)
  BY EmptySeq DEF Pid, ToSet, IsInjective
<1> DEFINE idle == [ppid |-> 0, state |-> "RUNNABLE", children |-> <<2>>]
           init == [ppid |-> 0, state |-> "RUNNABLE", children |-> <<>>]
<1>2. idle \in Process /\ init \in Process
  BY <1>1 DEF Process, States
<1>3. \A p \in Pid : table[p] = IF p = 0 THEN idle ELSE IF p = 2 THEN init ELSE NoProcess
  OBVIOUS
<1>4. TypeOK
  BY <1>1, <1>2, <1>3 DEF TypeOK
<1>5. Live = {0, 2}
  BY <1>1, <1>2, <1>3 DEF Live
<1>6. PidsConserved
  BY <1>1, <1>5 DEF PidsConserved
<1>7. ChildrenAreKin
  BY <1>1, <1>3, <1>5 DEF ChildrenAreKin
<1> QED BY <1>4, <1>6, <1>7 DEF TableInv

\* What fork does to the lists of children, for the lemma and the lineage.
ForkEffect(p, n) ==
  /\ p \in Live /\ n \in Pid \ Live
  /\ Live' = Live \cup {n}
  /\ ToSet(table'[n].children) = {}
  /\ ToSet(table'[p].children) = ToSet(table[p].children) \cup {n}
  /\ \A q \in Live \ {p} : table'[q].children = table[q].children

LEMMA ForkKeepsTableInv ==
  ASSUME TableInv, NEW p \in Pid, Fork(p)
  PROVE  TableInv' /\ ForkEffect(p, NewPid)
<1> DEFINE n == NewPid
<1>1. /\ p \in Live /\ Alloc /\ spaces' = spaces \cup {n}
      /\ freePids # <<>> \/ nextPid <= MaxPid
  BY DEF Fork, Spawn
<1>2. /\ n \in Pid /\ n # 0 /\ n \notin Live
      /\ nextPid' \in FirstPid + 1 .. MaxPid + 1
      /\ freePids' \in Seq(Pid) /\ IsInjective(freePids')
      /\ ToSet(freePids') \subseteq FirstPid .. nextPid' - 1
      /\ Live \cup {n} = ({0} \cup (FirstPid .. nextPid' - 1)) \ ToSet(freePids')
  BY <1>1, AllocFacts DEF TableInv
<1> DEFINE child == [ppid |-> p, state |-> "NEW", children |-> <<>>]
           older == [table[p] EXCEPT !.children = Append(@, n)]
<1>3. table' = [q \in Pid |-> IF q = n THEN child
                              ELSE IF q = p /\ q \in Live THEN older ELSE table[q]]
  BY DEF Fork, Spawn
<1>4. \A q \in Live : table[q] \in Process
  BY DEF TableInv, TypeOK, Live
<1> HIDE DEF n
<1>5. /\ child \in Process /\ child.ppid = p /\ child.children = <<>>
      /\ ToSet(child.children) = {} /\ IsInjective(child.children)
  BY EmptySeq DEF Process, States, ToSet, IsInjective
<1>6. \A q \in Live : n \notin ToSet(table[q].children)
  BY <1>2 DEF TableInv, ChildrenAreKin
<1>7. /\ older \in Process /\ older.ppid = table[p].ppid
      /\ IsInjective(older.children)
      /\ ToSet(older.children) = ToSet(table[p].children) \cup {n}
  <2>1. table[p] \in Process /\ table[p].children \in Seq(Pid)
    BY <1>1, <1>4 DEF Process
  <2>2. IsInjective(table[p].children)
    BY <1>1 DEF TableInv, ChildrenAreKin
  <2>3. /\ Append(table[p].children, n) \in Seq(Pid)
        /\ IsInjective(Append(table[p].children, n))
        /\ ToSet(Append(table[p].children, n)) = ToSet(table[p].children) \cup {n}
    BY <1>1, <1>2, <1>6, <2>1, <2>2, AppendInjectiveList
  <2> QED BY <2>1, <2>3, WithChildren
<1> HIDE DEF child, older
<1>8. /\ p # n /\ table'[n] = child /\ table'[p] = older
      /\ \A q \in Live \ {p} : q # n /\ table'[q] = table[q]
  BY <1>1, <1>2, <1>3 DEF Live
<1>9. TypeOK'
  <2>1. \A q \in Pid : table'[q] \in Process \cup {NoProcess}
    BY <1>3, <1>5, <1>7 DEF TableInv, TypeOK
  <2> QED BY <1>1, <1>2, <1>3, <2>1 DEF TableInv, TypeOK
<1>10. Live' = Live \cup {n}
  BY <1>2, <1>3, <1>5, <1>7, NoProcessAssumption DEF Live
<1>11. PidsConserved'
  BY <1>2, <1>10 DEF PidsConserved
<1>12. ChildrenAreKin'
  <2> SUFFICES ASSUME NEW q \in Live'
               PROVE  /\ IsInjective(table'[q].children)
                      /\ \A c \in ToSet(table'[q].children) :
                           c \in Live' \ {0} /\ table'[c].ppid = q
    BY DEF ChildrenAreKin
  <2>1. \A c \in Live : table'[c].ppid = table[c].ppid
    BY <1>1, <1>7, <1>8
  <2>2. CASE q = n
    BY <1>5, <1>8, <2>2
  <2>3. CASE q = p
    BY <1>1, <1>2, <1>5, <1>7, <1>8, <1>10, <2>1, <2>3 DEF TableInv, ChildrenAreKin
  <2>4. CASE q # n /\ q # p
    BY <1>8, <1>10, <2>1, <2>4 DEF TableInv, ChildrenAreKin
  <2> QED BY <2>2, <2>3, <2>4
<1>13. ForkEffect(p, n)
  BY <1>1, <1>2, <1>5, <1>7, <1>8, <1>10 DEF ForkEffect
<1> QED BY <1>9, <1>11, <1>12, <1>13 DEF TableInv, n

LEMMA ExitKeepsTableInv ==
  ASSUME TableInv, NEW p \in Pid, Exit(p)
  PROVE  TableInv'
<1> DEFINE dead == [table[p] EXCEPT !.state = "ZOMBIE"]
<1>1. p \in Live /\ table[p] \in Process
  BY DEF Exit, TableInv, TypeOK, Live
<1>2. dead \in Process /\ dead.ppid = table[p].ppid /\ dead.children = table[p].children
  BY <1>1 DEF Process, States
<1>3. /\ table' = [table EXCEPT ![p] = dead]
      /\ UNCHANGED <<nextPid, freePids, spaces>>
  BY DEF Exit
<1> HIDE DEF dead
<1>4. \A q \in Pid : table'[q] = IF q = p THEN dead ELSE table[q]
  BY <1>3 DEF TableInv, TypeOK
<1>5. TypeOK'
  BY <1>2, <1>3 DEF TableInv, TypeOK
<1>6. Live' = Live
  BY <1>1, <1>2, <1>4, NoProcessAssumption DEF Live
<1>7. PidsConserved'
  BY <1>3, <1>6 DEF TableInv, PidsConserved
<1>8. \A q \in Live : table'[q].ppid = table[q].ppid /\ table'[q].children = table[q].children
  BY <1>2, <1>4 DEF Live
<1>9. ChildrenAreKin'
  BY <1>6, <1>8 DEF TableInv, ChildrenAreKin
<1> QED BY <1>5, <1>7, <1>9 DEF TableInv

\* What wait4 does to the lists of children when it reaps c.
Wait4Effect(p, c) ==
  /\ p \in Live /\ c \in ToSet(table[p].children) /\ c \in Live
  /\ Live' = Live \ {c}
  /\ p \in Live' => ToSet(table'[p].children) = ToSet(table[p].children) \ {c}
  /\ \A q \in Live' \ {p} : table'[q].children = table[q].children

LEMMA Wait4KeepsTableInv ==
  ASSUME TableInv, NEW p \in Pid, Wait4(p)
  PROVE  TableInv' /\ \E c \in Pid : Wait4Effect(p, c)
<1>1. PICK c \in Pid : FirstZombie(p, c) /\ RemoveProcess(c)
  BY DEF Wait4
<1>2. p \in Live /\ nextPid' = nextPid /\ spaces' = spaces
  BY DEF Wait4
<1>3. c \in ToSet(table[p].children)
  <2>1. table[p].children \in Seq(Pid)
    BY <1>2 DEF TableInv, TypeOK, Live, Process
  <2> QED BY <1>1, <2>1, LenProperties DEF FirstZombie, ToSet
<1>4. c \in Live \ {0} /\ table[c].ppid = p
  BY <1>2, <1>3 DEF TableInv, ChildrenAreKin
<1>5. /\ freePids' \in Seq(Pid) /\ IsInjective(freePids')
      /\ ToSet(freePids') = ToSet(freePids) \cup {c}
      /\ c \in FirstPid .. nextPid - 1
  BY <1>1, <1>4, FreeFacts DEF RemoveProcess, TableInv
<1> DEFINE r == RemoveFirst(table[p].children, c)
           waiter == [table[p] EXCEPT !.children = r]
<1>6. \A q \in Pid : table'[q] = IF q = c THEN NoProcess
                                 ELSE IF q = p THEN waiter ELSE table[q]
  BY <1>1, <1>2, <1>4 DEF RemoveProcess
<1>7. /\ waiter \in Process /\ waiter.ppid = table[p].ppid /\ waiter.children = r
      /\ IsInjective(r) /\ ToSet(r) = ToSet(table[p].children) \ {c}
  <2>1. table[p] \in Process /\ table[p].children \in Seq(Pid)
    BY <1>2 DEF TableInv, TypeOK, Live, Process
  <2>2. IsInjective(table[p].children)
    BY <1>2 DEF TableInv, ChildrenAreKin
  <2>3. r \in Seq(Pid) /\ IsInjective(r) /\ ToSet(r) = ToSet(table[p].children) \ {c}
    BY <1>3, <2>1, <2>2, RemoveFirstInjective
  <2> QED BY <2>1, <2>3, WithChildren
<1> HIDE DEF r, waiter
<1>8. TypeOK'
  <2>1. \A q \in Pid : table'[q] \in Process \cup {NoProcess}
    BY <1>6, <1>7 DEF TableInv, TypeOK
  <2>2. table' \in [Pid -> Process \cup {NoProcess}]
    BY <1>1, <2>1 DEF RemoveProcess
  <2> QED BY <1>2, <1>5, <2>2 DEF TableInv, TypeOK
<1>9. Live' = Live \ {c}
  BY <1>2, <1>4, <1>6, <1>7, NoProcessAssumption DEF Live
<1>10. PidsConserved'
  BY <1>2, <1>5, <1>9 DEF TableInv, PidsConserved
<1>11. ChildrenAreKin'
  <2> SUFFICES ASSUME NEW q \in Live'
               PROVE  /\ IsInjective(table'[q].children)
                      /\ \A d \in ToSet(table'[q].children) :
                           d \in Live' \ {0} /\ table'[d].ppid = q
    BY DEF ChildrenAreKin
  <2>1. q \in Live /\ q # c
    BY <1>9
  <2>2. \A d \in Live \ {c} : table'[d].ppid = table[d].ppid
    BY <1>6, <1>7 DEF Live
  <2>3. CASE q = p
    BY <1>2, <1>6, <1>7, <1>9, <2>1, <2>2, <2>3 DEF TableInv, ChildrenAreKin, Live
  <2>4. CASE q # p
    <3>1. table'[q] = table[q] /\ c \notin ToSet(table[q].children)
      BY <1>4, <1>6, <2>1, <2>4 DEF TableInv, ChildrenAreKin, Live
    <3> QED BY <1>9, <2>1, <2>2, <3>1 DEF TableInv, ChildrenAreKin
  <2> QED BY <2>3, <2>4
<1>12. Wait4Effect(p, c)
  BY <1>2, <1>3, <1>4, <1>6, <1>7, <1>9 DEF Wait4Effect, Live
<1> QED BY <1>8, <1>10, <1>11, <1>12 DEF TableInv

LEMMA TableInvStep == TableInv /\ [Next]_vars => TableInv'
<1> SUFFICES ASSUME TableInv, [Next]_vars PROVE TableInv'
  OBVIOUS
<1>1. ASSUME NEW p \in Pid, Fork(p) PROVE TableInv'
  BY <1>1, ForkKeepsTableInv
<1>2. ASSUME NEW p \in Pid, Exit(p) PROVE TableInv'
  BY <1>2, ExitKeepsTableInv
<1>3. ASSUME NEW p \in Pid, Wait4(p) PROVE TableInv'
  BY <1>3, Wait4KeepsTableInv
<1>4. CASE UNCHANGED vars
  BY <1>4 DEF vars, TableInv, TypeOK, PidsConserved, ChildrenAreKin, Live
<1> QED BY <1>1, <1>2, <1>3, <1>4 DEF Next

\* The pid allocator and the process table agree after every sequence of
\* fork, exit and wait4, and no process keeps a child that is not its own.
THEOREM ProcessTableSafe == Spec => [](TypeOK /\ PidsConserved /\ ChildrenAreKin)
BY InitTableInv, TableInvStep, PTL DEF Spec, TableInv

\* No call but the wait4 that reaps a zombie takes a process off the table.
THEOREM OnlyZombiesAreReaped == Spec => OnlyZombiesLeave
<1>1. ASSUME TableInv, [Next]_vars, NEW p \in Live \ Live', NEW q \in Live \ Live'
      PROVE  p = q /\ IsZombie(p)
  <2>1. ASSUME NEW r \in Pid, Fork(r) PROVE Live \subseteq Live'
    <3>1. \A d \in Pid : table'[d] = NoProcess => table[d] = NoProcess
      <4>1. r \in Live /\ table[r] \in Process
        BY <1>1, <2>1 DEF Fork, Live, TableInv, TypeOK
      <4>2. table[r].children \in Seq(Pid) /\ NewPid \in Pid
        BY <1>1, <2>1, <4>1, AllocFacts DEF Process, Fork, Spawn, TableInv
      <4>3. [table[r] EXCEPT !.children = Append(@, NewPid)] \in Process
        BY <4>1, <4>2, AppendProperties, WithChildren
      <4>4. [ppid |-> r, state |-> "NEW", children |-> <<>>] \in Process
        BY EmptySeq DEF Process, States
      <4> QED BY <2>1, <4>3, <4>4, NoProcessAssumption DEF Fork, Spawn
    <3> QED BY <3>1 DEF Live
  <2>2. ASSUME NEW r \in Pid, Exit(r) PROVE Live \subseteq Live'
    <3>1. r \in Live /\ table[r] \in Process
      BY <1>1, <2>2 DEF Exit, Live, TableInv, TypeOK
    <3>2. [table[r] EXCEPT !.state = "ZOMBIE"] \in Process
      BY <3>1 DEF Process, States
    <3> QED BY <1>1, <2>2, <3>2, NoProcessAssumption DEF Exit, Live, TableInv, TypeOK
  <2>3. ASSUME NEW r \in Pid, Wait4(r) PROVE p = q /\ IsZombie(p)
    <3>1. PICK c \in Pid : FirstZombie(r, c) /\ RemoveProcess(c)
      BY <2>3 DEF Wait4
    <3>2. \A d \in Live \ {c} : d \in Live'
      <4> SUFFICES ASSUME NEW d \in Live \ {c} PROVE table'[d] # NoProcess
        BY DEF Live
      <4>1. table[d] \in Process /\ table[d].children \in Seq(Pid)
        BY <1>1 DEF Live, TableInv, TypeOK, Process
      <4>2. CASE d = table[c].ppid
        <5>1. RemoveFirst(table[d].children, c) \in Seq(Pid)
          <6>1. CASE c \in ToSet(table[d].children)
            BY <4>1, <6>1, RemoveFirstAt
          <6>2. CASE c \notin ToSet(table[d].children)
            BY <4>1, <6>2, LenProperties DEF RemoveFirst, ToSet
          <6> QED BY <6>1, <6>2
        <5>2. [table[d] EXCEPT !.children = RemoveFirst(@, c)] \in Process
          BY <4>1, <5>1, WithChildren
        <5> QED BY <3>1, <4>2, <5>2, NoProcessAssumption DEF RemoveProcess, Live
      <4>3. CASE d # table[c].ppid
        BY <3>1, <4>3 DEF RemoveProcess, Live
      <4> QED BY <4>2, <4>3
    <3> QED BY <3>1, <3>2 DEF FirstZombie
  <2>4. CASE UNCHANGED vars
    BY <2>4 DEF vars, Live
  <2> QED BY <1>1, <2>1, <2>2, <2>3, <2>4 DEF Next
<1>2. TableInv /\ [Next]_vars => [\A p, q \in Live \ Live' : p = q /\ IsZombie(p)]_vars
  BY <1>1
<1> QED BY <1>2, InitTableInv, TableInvStep, PTL DEF Spec, OnlyZombiesLeave

----------------------------------------------------------------------------
(* The lineage.                                                            *)

\* Nobody living was forked by a process that is gone: that is what keeps a
\* child of the dead from being taken for a child of the next owner of the
\* pid.
LineageInv ==
  /\ TableInv
  /\ forker \in [Pid -> Pid \cup {NoProcess}]
  /\ \A c \in Pid : forker[c] \in Live \cup {NoProcess}
  /\ ChildrenAreForked

LEMMA InitLineageInv == LineageInit => LineageInv
<1> SUFFICES ASSUME LineageInit PROVE LineageInv
  OBVIOUS
<1> USE PidAssumption, NoProcessAssumption, NoForkerAssumption
<1>1. TableInv /\ Init
  BY InitTableInv DEF LineageInit
<1>2. \A c \in Pid : forker[c] = IF c = 2 THEN 0 ELSE NoProcess
  BY DEF LineageInit, FirstPid
<1>3. /\ 0 \in Pid /\ 2 \in Pid
      /\ table[0].children = <<2>> /\ table[2].children = <<>>
  BY <1>1 DEF Init, FirstPid, Pid
<1>4. Live = {0, 2}
  <2>1. /\ table[0] \in Process \cup {NoProcess} /\ table[2] \in Process \cup {NoProcess}
    BY <1>1, <1>3 DEF TableInv, TypeOK
  <2>2. {0} \cup {2} \subseteq Live
    BY <1>1 DEF TableInv, PidsConserved, Init, FirstPid, ToSet
  <2>3. Live \subseteq {0, 2}
    BY <1>1 DEF Init, FirstPid, Live
  <2> QED BY <2>2, <2>3
<1>5. ToSet(<<2>>) = {2} /\ ToSet(<<>>) = {}
  BY DEF ToSet
<1>6. ChildrenAreForked
  BY <1>2, <1>3, <1>4, <1>5 DEF ChildrenAreForked, Pid
<1> QED BY <1>1, <1>2, <1>3, <1>4, <1>6 DEF LineageInv, LineageInit, FirstPid

LEMMA LineageStep ==
  ASSUME LineageInv, [LineageNext]_LineageVars
  PROVE  LineageInv'
<1> USE NoForkerAssumption
<1>1. ASSUME NEW p \in Pid, LineageFork(p) PROVE LineageInv'
  <2> DEFINE n == NewPid
  <2>1. TableInv' /\ ForkEffect(p, n) /\ forker' = [forker EXCEPT ![n] = p]
    BY <1>1, ForkKeepsTableInv DEF LineageInv, LineageFork
  <2> HIDE DEF n
  <2>2. /\ forker' \in [Pid -> Pid \cup {NoProcess}]
        /\ forker'[n] = p /\ \A c \in Pid \ {n} : forker'[c] = forker[c]
    BY <2>1 DEF LineageInv, ForkEffect
  <2>3. \A c \in Pid : forker'[c] \in Live' \cup {NoProcess}
    BY <2>1, <2>2 DEF LineageInv, ForkEffect
  <2>4. \A c \in Live : forker[c] # n
    BY <2>1 DEF LineageInv, ForkEffect, Live
  <2>5. ASSUME NEW q \in Live'
        PROVE  ToSet(table'[q].children) = {c \in Live' : forker'[c] = q}
    <3>1. CASE q = n
      BY <2>1, <2>2, <2>4, <3>1 DEF ForkEffect, Live
    <3>2. CASE q = p
      <4>1. ToSet(table[p].children) = {c \in Live : forker[c] = p}
        BY <2>1 DEF LineageInv, ChildrenAreForked, ForkEffect
      <4> QED BY <2>1, <2>2, <3>2, <4>1 DEF ForkEffect, Live
    <3>3. CASE q # n /\ q # p
      <4>1. /\ q \in Live /\ table'[q].children = table[q].children
            /\ ToSet(table[q].children) = {c \in Live : forker[c] = q}
        BY <2>1, <3>3 DEF LineageInv, ChildrenAreForked, ForkEffect
      <4> QED BY <2>1, <2>2, <3>3, <4>1 DEF ForkEffect, Live
    <3> QED BY <3>1, <3>2, <3>3
  <2> QED BY <2>1, <2>2, <2>3, <2>5 DEF LineageInv, ChildrenAreForked
<1>2. ASSUME NEW p \in Pid, LineageExit(p) PROVE LineageInv'
  <2>1. TableInv' /\ forker' = forker
    BY <1>2, ExitKeepsTableInv DEF LineageInv, LineageExit
  <2>2. /\ p \in Live /\ table[p] \in Process
        /\ table' = [table EXCEPT ![p] = [table[p] EXCEPT !.state = "ZOMBIE"]]
    BY <1>2 DEF LineageExit, Exit, LineageInv, TableInv, TypeOK, Live
  <2>3. \A q \in Pid : (q \in Live' <=> q \in Live)
    BY <2>2, NoProcessAssumption DEF LineageInv, TableInv, TypeOK, Live, Process, States
  <2>4. Live' = Live
    BY <2>3 DEF Live
  <2>5. \A q \in Live : table'[q].children = table[q].children
    BY <2>2 DEF LineageInv, TableInv, TypeOK, Live, Process
  <2> QED BY <2>1, <2>4, <2>5 DEF LineageInv, ChildrenAreForked
<1>3. ASSUME NEW p \in Pid, LineageWait4(p) PROVE LineageInv'
  <2>1. PICK c \in Pid : TableInv' /\ Wait4Effect(p, c)
    BY <1>3, Wait4KeepsTableInv DEF LineageInv, LineageWait4
  <2>2. \A d \in Pid : forker'[d] = IF d \notin Live' \/ forker[d] \notin Live'
                                   THEN NoProcess ELSE forker[d]
    BY <1>3 DEF LineageWait4
  <2>3. forker' \in [Pid -> Pid \cup {NoProcess}]
    BY <1>3, <2>2 DEF LineageWait4, LineageInv
  <2>4. \A d \in Pid : forker'[d] \in Live' \cup {NoProcess}
    BY <2>2
  <2>5. ASSUME NEW q \in Live'
        PROVE  ToSet(table'[q].children) = {d \in Live' : forker'[d] = q}
    <3>1. /\ q \in Pid /\ q \in Live
          /\ ToSet(table[q].children) = {d \in Live : forker[d] = q}
      BY <2>1 DEF Wait4Effect, LineageInv, ChildrenAreForked, Live
    <3>2. {d \in Live' : forker'[d] = q} = {d \in Live : forker[d] = q} \ {c}
      BY <2>1, <2>2, <3>1 DEF Wait4Effect, Live
    <3>3. CASE q = p
      BY <2>1, <3>1, <3>2, <3>3 DEF Wait4Effect
    <3>4. CASE q # p
      <4>1. c \in ToSet(table[p].children) /\ c \in Live
            /\ ToSet(table[p].children) = {d \in Live : forker[d] = p}
        BY <2>1 DEF Wait4Effect, LineageInv, ChildrenAreForked
      <4> QED BY <2>1, <3>1, <3>2, <3>4, <4>1 DEF Wait4Effect
    <3> QED BY <3>3, <3>4
  <2> QED BY <2>1, <2>3, <2>4, <2>5 DEF LineageInv, ChildrenAreForked
<1>4. CASE UNCHANGED LineageVars
  BY <1>4 DEF LineageVars, vars, LineageInv, TableInv, TypeOK, PidsConserved,
              ChildrenAreKin, ChildrenAreForked, Live
<1> QED BY <1>1, <1>2, <1>3, <1>4 DEF LineageNext

\* Through any reuse of pids, the children in the record of a process are
\* the living processes that it forked itself.
THEOREM ChildrenAreItsOwn == LineageSpec => []ChildrenAreForked
<1>1. LineageInv /\ [LineageNext]_LineageVars => LineageInv'
  BY LineageStep
<1>2. LineageInv => ChildrenAreForked
  BY DEF LineageInv
<1> QED BY <1>1, <1>2, InitLineageInv, PTL DEF LineageSpec

\* wait4 reaps for the process that forked the zombie and for no namesake.
THEOREM ReapedByItsForker == LineageSpec => ReapedByForker
<1>1. ASSUME LineageInv, [LineageNext]_LineageVars, NEW d \in Live \ Live'
      PROVE  forker[d] \in Live /\ Wait4(forker[d])
  <2>1. ASSUME NEW p \in Pid, LineageFork(p) PROVE FALSE
    BY <1>1, <2>1, ForkKeepsTableInv DEF LineageInv, LineageFork, ForkEffect
  <2>2. ASSUME NEW p \in Pid, LineageExit(p) PROVE FALSE
    <3>1. table[p] \in Process /\ [table[p] EXCEPT !.state = "ZOMBIE"] \in Process
      BY <1>1, <2>2 DEF LineageExit, Exit, LineageInv, TableInv, TypeOK, Live, Process, States
    <3> QED BY <1>1, <2>2, <3>1, NoProcessAssumption
            DEF LineageExit, Exit, LineageInv, TableInv, TypeOK, Live
  <2>3. ASSUME NEW p \in Pid, LineageWait4(p)
        PROVE  forker[d] \in Live /\ Wait4(forker[d])
    <3>1. PICK c \in Pid : Wait4Effect(p, c)
      BY <1>1, <2>3, Wait4KeepsTableInv DEF LineageInv, LineageWait4
    <3>2. d = c /\ p \in Live /\ c \in ToSet(table[p].children)
      BY <1>1, <3>1 DEF Wait4Effect
    <3>3. forker[d] = p
      BY <1>1, <3>2 DEF LineageInv, ChildrenAreForked
    <3> QED BY <2>3, <3>2, <3>3 DEF LineageWait4
  <2>4. CASE UNCHANGED LineageVars
    BY <1>1, <2>4 DEF LineageVars, vars, Live
  <2> QED BY <1>1, <2>1, <2>2, <2>3, <2>4 DEF LineageNext
<1>2. LineageInv /\ [LineageNext]_LineageVars => [ForkerReaps]_LineageVars
  BY <1>1 DEF ForkerReaps
<1>3. LineageInv /\ [LineageNext]_LineageVars => LineageInv'
  BY LineageStep
<1> QED BY <1>2, <1>3, InitLineageInv, PTL DEF LineageSpec, ReapedByForker
=============================================================================
