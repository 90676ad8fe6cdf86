---------------------------- MODULE MemoryProofs ----------------------------
(***************************************************************************)
(* Theorems about Memory and ProcessMemory, for every number of processes, *)
(* frames, addresses, sizes and breaks: how frames and address spaces go   *)
(* together, what mapping leaves alone, and that processes with memory are *)
(* the processes of Processes.                                             *)
(***************************************************************************)
EXTENDS ProcessMemory, ListLemmas, FiniteSetTheorems

\* What holds of a memory between any two mappings.  The areas of a space do
\* not matter here, only which processes have one.
Sound(m) ==
  /\ m.owner \in [Frame -> Pids \cup {NoOwner}]
  /\ \A f \in Frame : m.owner[f] # NoOwner => m.owner[f] \in DOMAIN m.areas

FrameInv == Sound(Now)

----------------------------------------------------------------------------
LEMMA FrameFinite == IsFiniteSet(Frame)
BY FS_Interval, MemoryAssumption DEF Frame

\* The frames an allocation takes were unused, and with one of them it takes
\* every unused frame below it.
LEMMA LowestFacts ==
  ASSUME NEW o, NEW n \in Nat
  PROVE  /\ Lowest(o, n) \subseteq Unused(o)
         /\ \A f, g \in Unused(o) : f < g /\ g \in Lowest(o, n) => f \in Lowest(o, n)
<1>1. Lowest(o, n) \subseteq Unused(o)
  BY DEF Lowest
<1>2. ASSUME NEW f \in Unused(o), NEW g \in Unused(o), f < g, g \in Lowest(o, n)
      PROVE  f \in Lowest(o, n)
  <2> DEFINE F == {h \in Unused(o) : h < f}
             G == {h \in Unused(o) : h < g}
  <2>1. F \subseteq G
    BY <1>2, MemoryAssumption DEF Unused, Frame
  <2>2. IsFiniteSet(G)
    BY FrameFinite, FS_Subset DEF Unused
  <2>3. Cardinality(F) <= Cardinality(G) /\ Cardinality(F) \in Nat /\ Cardinality(G) \in Nat
    BY <2>1, <2>2, FS_Subset, FS_CardinalityType
  <2>4. Cardinality(G) < n
    BY <1>2 DEF Lowest
  <2>5. Cardinality(F) < n
    <3> HIDE DEF F, G
    <3> QED BY <2>3, <2>4
  <2> QED BY <2>5 DEF Lowest
<1> QED BY <1>1, <1>2

LEMMA PagesType == ASSUME NEW size \in Nat PROVE Pages(size) \in Nat
BY MemoryAssumption DEF Pages

\* map_pages keeps the memory sound and the spaces what they are.
LEMMA MappedSound ==
  ASSUME NEW m, Sound(m), NEW p \in Pids, NEW start, NEW size \in Nat, NEW flags
  PROVE  /\ Sound(Mapped(m, p, start, size, flags))
         /\ DOMAIN Mapped(m, p, start, size, flags).areas = DOMAIN m.areas
<1>1. CASE ~CanMap(m, p, size)
  BY <1>1 DEF Mapped
<1>2. CASE CanMap(m, p, size)
  <2> DEFINE a == Allocated(m.owner, Pages(size), p)
             s == [m.areas EXCEPT ![p] = WithArea(@, AreaAt(start, size, flags))]
  <2>1. Mapped(m, p, start, size, flags) = [owner |-> a, areas |-> s]
    BY <1>2 DEF Mapped
  <2>2. DOMAIN s = DOMAIN m.areas /\ p \in DOMAIN m.areas
    BY <1>2 DEF CanMap
  <2>3. /\ a \in [Frame -> Pids \cup {NoOwner}]
        /\ \A f \in Frame : a[f] = p \/ a[f] = m.owner[f]
    BY DEF Allocated, Sound
  <2> HIDE DEF a, s
  <2>4. \A f \in Frame : a[f] # NoOwner => a[f] \in DOMAIN s
    BY <2>2, <2>3 DEF Sound
  <2> QED BY <2>1, <2>2, <2>3, <2>4 DEF Sound
<1> QED BY <1>1, <1>2

----------------------------------------------------------------------------
LEMMA FrameInvInit == Init => FrameInv
BY DEF Init, FrameInv, Sound, Now

\* Every operation of the kernel keeps the memory sound.
LEMMA FrameInvStep ==
  ASSUME FrameInv, NEW p \in Pids, Kernel(p)
  PROVE  FrameInv'
<1>1. CASE CreateSpace(p)
  <2>1. owner' = owner /\ DOMAIN areas \subseteq DOMAIN (areas')
    BY <1>1 DEF CreateSpace, Spaces
  <2> QED BY <2>1 DEF FrameInv, Sound, Now
<1>2. ASSUME NEW start \in Addresses, NEW size \in Sizes, NEW flags \in MapFlags,
             MapPages(p, start, size, flags)
      PROVE  FrameInv'
  <2>1. Sound(Mapped(Now, p, start, size, flags))
    BY MappedSound, MemoryAssumption DEF FrameInv
  <2> QED BY <1>2, <2>1 DEF MapPages, Become, FrameInv, Sound, Now
<1>3. ASSUME NEW start \in Addresses, UnmapPages(p, start)
      PROVE  FrameInv'
  <2>1. owner' = owner /\ DOMAIN (areas') = DOMAIN areas
    BY <1>3 DEF UnmapPages
  <2> QED BY <2>1 DEF FrameInv, Sound, Now
<1>4. CASE ElfLoad(p)
  <2> USE MemoryAssumption
  <2>1. Sound(LoadedText(Now, p))
    BY MappedSound DEF FrameInv, LoadedText
  <2>2. Sound(LoadedData(Now, p))
    BY <2>1, MappedSound DEF LoadedData
  <2>3. Sound(LoadedBss(Now, p))
    BY <2>2, MappedSound DEF LoadedBss
  <2>4. Sound(Mapped(LoadedBss(Now, p), p, StackStart, StackSize, Data))
    BY <2>3, MappedSound
  <2> QED BY <1>4, <2>4 DEF ElfLoad, Become, FrameInv, Sound, Now
<1> QED BY <1>1, <1>2, <1>3, <1>4 DEF Kernel

----------------------------------------------------------------------------
\* The frames in use stay with their owner when the memory a becomes b.
Keeps(a, b) == \A f \in Frame : a.owner[f] # NoOwner => b.owner[f] = a.owner[f]

LEMMA MappedKeeps ==
  ASSUME NEW m, NEW p, NEW start, NEW size, NEW flags
  PROVE  Keeps(m, Mapped(m, p, start, size, flags))
<1>1. CASE ~CanMap(m, p, size)
  BY <1>1 DEF Mapped, Keeps
<1>2. CASE CanMap(m, p, size)
  <2>1. Mapped(m, p, start, size, flags).owner = Allocated(m.owner, Pages(size), p)
    BY <1>2 DEF Mapped
  <2> QED BY <2>1 DEF Keeps, Allocated, Lowest, Unused
<1> QED BY <1>1, <1>2

\* Whoever allocates, frees, maps, loads or destroys, a frame in use never
\* passes to another process in one step.
THEOREM FramesStayWithOwner == ApiSpec => FramesNeverStolen
<1> DEFINE Kept == \A f \in Frame : owner[f] # NoOwner => owner'[f] \in {owner[f], NoOwner}
<1>1. ASSUME [ApiNext]_memory PROVE Kept
  <2>1. ASSUME NEW p \in Pids, Kernel(p) PROVE Kept
    <3>1. CASE owner' = owner
      BY <3>1
    <3>2. ASSUME NEW start \in Addresses, NEW size \in Sizes, NEW flags \in MapFlags,
                 MapPages(p, start, size, flags)
          PROVE  Kept
      BY <3>2, MappedKeeps DEF MapPages, Become, Keeps, Now
    <3>3. CASE ElfLoad(p)
      <4>1. /\ Keeps(Now, LoadedText(Now, p))
            /\ Keeps(LoadedText(Now, p), LoadedData(Now, p))
            /\ Keeps(LoadedData(Now, p), LoadedBss(Now, p))
            /\ Keeps(LoadedBss(Now, p), Mapped(LoadedBss(Now, p), p, StackStart, StackSize, Data))
        BY MappedKeeps DEF LoadedText, LoadedData, LoadedBss
      <4>2. Keeps(Now, Mapped(LoadedBss(Now, p), p, StackStart, StackSize, Data))
        BY <4>1 DEF Keeps
      <4> QED BY <3>3, <4>2 DEF ElfLoad, Become, Keeps, Now
    <3> QED BY <2>1, <3>1, <3>2, <3>3 DEF Kernel, CreateSpace, UnmapPages
  <2>2. ASSUME NEW p \in Pids, NEW n \in 0 .. NumFrames + 1, AllocPages(p, n) PROVE Kept
    BY <2>2 DEF AllocPages, Allocated, Lowest, Unused
  <2>3. ASSUME NEW f \in Frame, FreePage(f) PROVE Kept
    BY <2>3 DEF FreePage
  <2>4. ASSUME NEW p \in Pids, DestroySpace(p) PROVE Kept
    BY <2>4 DEF DestroySpace
  <2>5. CASE UNCHANGED memory
    BY <2>5 DEF memory
  <2> QED BY <1>1, <2>1, <2>2, <2>3, <2>4, <2>5 DEF ApiNext, Next
<1> QED BY <1>1, PTL DEF ApiSpec, FramesNeverStolen

----------------------------------------------------------------------------
(* Processes and their memory.                                             *)

\* Mapping memory gives no process a space and takes none from any.
LEMMA MappingKeepsSpaces ==
  ASSUME NEW p, NEW start, NEW size, NEW flags, MapPages(p, start, size, flags)
  PROVE  DOMAIN (areas') = DOMAIN areas
<1> DEFINE m == Mapped(Now, p, start, size, flags)
<1>1. areas' = m.areas
  BY DEF MapPages, Become
<1>2. DOMAIN m.areas = DOMAIN areas
  <2>1. CASE CanMap(Now, p, size)
    BY <2>1 DEF Mapped, Now
  <2>2. CASE ~CanMap(Now, p, size)
    BY <2>2 DEF Mapped, Now
  <2> QED BY <2>1, <2>2
<1> QED BY <1>1, <1>2

\* Every step of the processes with their memory is one of Processes, or
\* leaves the table, the pids and the set of spaces alone.
LEMMA ProcessStep ==
  ASSUME [CallsNext]_callVars
  PROVE  [Proc!Next]_(Proc!vars)
<1>1. ASSUME NEW p \in Proc!Live, Fork(p) PROVE Proc!Next
  <2>1. DOMAIN (areas') = DOMAIN areas \cup {Proc!NewPid}
    BY <1>1 DEF Fork, ForkedSpace, CreateSpace, Spaces
  <2>2. Proc!Fork(p)
    BY <1>1, <2>1 DEF Fork, Proc!Fork
  <2> QED BY <2>2 DEF Proc!Next, Proc!Live
<1>2. ASSUME NEW p \in Proc!Live, ExitOrWait(p) PROVE Proc!Next
  BY <1>2 DEF ExitOrWait, Proc!Next, Proc!Live
<1>3. ASSUME NEW p, \/ \E addr \in Addresses, length \in Sizes, flags \in MapFlags :
                         Mmap(p, addr, length, flags)
                    \/ \E newBrk \in Breaks : Brk(p, newBrk)
      PROVE  UNCHANGED Proc!vars
  BY <1>3, MappingKeepsSpaces DEF Mmap, Brk, Procs, Proc!vars
<1>4. ASSUME NEW p, NEW addr, Munmap(p, addr) PROVE UNCHANGED Proc!vars
  <2>1. p \in DOMAIN areas /\ DOMAIN (areas') = DOMAIN areas
    BY <1>4 DEF Munmap, UnmapPages, Spaces
  <2> QED BY <1>4, <2>1 DEF Munmap, Procs, Proc!vars
<1>5. CASE UNCHANGED callVars
  BY <1>5 DEF callVars, Proc!vars
<1> QED BY <1>1, <1>2, <1>3, <1>4, <1>5 DEF CallsNext

\* fork, exit and wait4 with memory are what they are without: the address
\* spaces come and go with the pids, and mmap, munmap and brk change neither.
THEOREM ProcessesImplemented == CallsSpec => ImplementsProcesses
<1>1. CallsInit => Proc!Init
  BY HeapAssumption DEF CallsInit, Proc!Init, Proc!Pid
<1>2. [CallsNext]_callVars => [Proc!Next]_(Proc!vars)
  BY ProcessStep
<1> QED BY <1>1, <1>2, PTL DEF CallsSpec, ImplementsProcesses, Proc!Spec
----------------------------------------------------------------------------
(* The heap.                                                               *)

\* What map_pages enters in a list of areas.
Region == [start : Nat, end : Nat, flags : SUBSET {"w", "x"}]

\* An area brk entered, or an mmap hint between the heap and MmapBase would.
InHeap(a) == a.start \in HeapStart .. MmapBase - 1

\* No area of the list is one of the heap.
NoHeap(list) == list \in Seq(Region) /\ \A i \in 1 .. Len(list) : ~InHeap(list[i])

\* The areas of the heap lie one behind the other, below the break b.
HeapApart(list, b) ==
  /\ list \in Seq(Region)
  /\ \A i \in 1 .. Len(list) : InHeap(list[i]) => list[i].end <= b
  /\ \A i, j \in 1 .. Len(list) :
       i < j /\ InHeap(list[i]) /\ InHeap(list[j]) => list[i].end <= list[j].start

\* The inductive invariant: a pid has its break whether it has a space or not.
HeapInv ==
  /\ brk \in [Pids -> Nat] /\ \A p \in Pids : HeapStart <= brk[p]
  /\ \A p \in Spaces \cap Pids : HeapApart(areas[p], brk[p])
  /\ \A p \in Spaces \ Pids : NoHeap(areas[p])

\* A new space has nothing in the heap.
LEMMA FreshHasNoHeap == NoHeap(FreshAreas) /\ \A b : HeapApart(FreshAreas, b)
<1> DEFINE text == AreaAt(TextStart, PageSize, Code)
           data == AreaAt(DataStart, PageSize, Data)
           stack == AreaAt(StackStart, StackSize, Data)
<1>1. /\ text \in Region /\ data \in Region /\ stack \in Region
      /\ ~InHeap(text) /\ ~InHeap(data) /\ ~InHeap(stack)
  BY MemoryAssumption, HeapAssumption DEF Region, AreaAt, Code, Data, InHeap
<1>2. FreshAreas = <<text, data, stack>>
  BY DEF FreshAreas
<1> HIDE DEF text, data, stack
<1>3. /\ FreshAreas \in Seq(Region) /\ Len(FreshAreas) = 3
      /\ FreshAreas[1] = text /\ FreshAreas[2] = data /\ FreshAreas[3] = stack
  BY <1>1, <1>2
<1>4. \A i \in 1 .. Len(FreshAreas) : ~InHeap(FreshAreas[i])
  BY <1>1, <1>3
<1> QED BY <1>3, <1>4 DEF NoHeap, HeapApart

\* An area outside the heap changes nothing in it, and one that starts at the
\* break goes behind the others.
LEMMA AppendStaysApart ==
  ASSUME NEW b \in Nat, NEW c \in Nat, b <= c, NEW list, HeapApart(list, b),
         NEW a \in Region, ~InHeap(a) \/ (a.start = b /\ a.end <= c)
  PROVE  HeapApart(Append(list, a), c)
<1> DEFINE new == Append(list, a)
           n == Len(list)
<1>1. list \in Seq(Region) /\ n \in Nat /\ \A i \in 1 .. n : list[i] \in Region
  BY LenProperties, ElementOfSeq DEF HeapApart
<1>2. /\ new \in Seq(Region) /\ Len(new) = n + 1 /\ new[n + 1] = a
      /\ \A i \in 1 .. n : new[i] = list[i]
  BY <1>1, AppendProperties
<1> HIDE DEF new
<1>3. \A i \in 1 .. n : InHeap(new[i]) => new[i].end \in Nat /\ new[i].end <= b
  BY <1>1, <1>2 DEF HeapApart, Region
<1>4. ASSUME NEW i \in 1 .. Len(new), InHeap(new[i]) PROVE new[i].end <= c
  <2>1. CASE i = n + 1
    BY <1>2, <1>4, <2>1
  <2>2. CASE i \in 1 .. n
    BY <1>3, <1>4, <2>2
  <2> QED BY <1>1, <1>2, <2>1, <2>2
<1>5. ASSUME NEW i \in 1 .. Len(new), NEW j \in 1 .. Len(new), i < j,
             InHeap(new[i]), InHeap(new[j])
      PROVE  new[i].end <= new[j].start
  <2>1. i \in 1 .. n
    BY <1>1, <1>2, <1>5
  <2>2. CASE j = n + 1
    BY <1>2, <1>3, <1>5, <2>1, <2>2
  <2>3. CASE j \in 1 .. n
    BY <1>2, <1>5, <2>1, <2>3 DEF HeapApart
  <2> QED BY <1>1, <1>2, <2>2, <2>3
<1>6. HeapApart(new, c)
  BY <1>2, <1>4, <1>5 DEF HeapApart
<1> QED BY <1>6 DEF new

\* Unmapping leaves the rest where it was.
LEMMA WithoutStaysApart ==
  ASSUME NEW b, NEW list, HeapApart(list, b), NEW drop
  PROVE  HeapApart(Without(list, drop), b)
<1> DEFINE new == Without(list, drop)
<1>1. list \in Seq(Region)
  BY DEF HeapApart
<1>2. new \in Seq(Region)
  BY <1>1, WithoutKeeps
<1>3. PICK h : PicksOut(list, drop, Len(list), new, h)
  BY <1>1, WithoutKeeps
<1> HIDE DEF new
<1>4. \A i \in 1 .. Len(new) : h[i] \in 1 .. Len(list) /\ new[i] = list[h[i]]
  BY <1>3 DEF PicksOut
<1>5. \A i, j \in 1 .. Len(new) : i < j => h[i] < h[j]
  BY <1>3 DEF PicksOut
<1>6. HeapApart(new, b)
  BY <1>2, <1>4, <1>5 DEF HeapApart
<1> QED BY <1>6 DEF new

\* map_pages, by a process that has a space or not.
LEMMA MapPagesAreas ==
  ASSUME NEW p, NEW start, NEW size, NEW flags, MapPages(p, start, size, flags)
  PROVE  \/ areas' = areas
         \/ p \in Spaces /\ areas' = [areas EXCEPT ![p] = Append(@, AreaAt(start, size, flags))]
<1>1. areas' = Mapped(Now, p, start, size, flags).areas
  BY DEF MapPages, Become
<1>2. CASE CanMap(Now, p, size)
  BY <1>1, <1>2 DEF Mapped, CanMap, Now, WithArea, Spaces
<1>3. CASE ~CanMap(Now, p, size)
  BY <1>1, <1>3 DEF Mapped, Now
<1> QED BY <1>2, <1>3

\* The heap of one process changes, and its break moves up to c.
LEMMA OneHeapChanges ==
  ASSUME HeapInv, NEW p \in Pids, NEW c \in Nat, brk[p] <= c,
         brk' = [brk EXCEPT ![p] = c], NEW list,
         p \in Spaces => HeapApart(list, c),
         areas' = [areas EXCEPT ![p] = list]
  PROVE  HeapInv'
<1>1. brk \in [Pids -> Nat] /\ HeapStart \in Nat
  BY HeapAssumption DEF HeapInv
<1>2. /\ brk' \in [Pids -> Nat] /\ brk'[p] = c
      /\ \A q \in Pids : q # p => brk'[q] = brk[q]
  BY <1>1
<1>3. /\ Spaces' = Spaces /\ (p \in Spaces => areas'[p] = list)
      /\ \A q \in Spaces : q # p => areas'[q] = areas[q]
  BY DEF Spaces
<1>4. \A q \in Pids : HeapStart <= brk'[q]
  <2>1. HeapStart <= c
    BY <1>1 DEF HeapInv
  <2> QED BY <1>2, <2>1 DEF HeapInv
<1>5. \A q \in Spaces \cap Pids : HeapApart(areas'[q], brk'[q])
  BY <1>2, <1>3 DEF HeapInv
<1>6. \A q \in Spaces \ Pids : NoHeap(areas'[q])
  BY <1>3 DEF HeapInv
<1> QED BY <1>2, <1>3, <1>4, <1>5, <1>6 DEF HeapInv, HeapApart, NoHeap, InHeap

\* The space of a forked child is new, even when its pid is not.
LEMMA ForkKeepsHeap ==
  ASSUME HeapInv, NEW p, Fork(p)
  PROVE  HeapInv'
<1> DEFINE c == Proc!NewPid
<1>1. /\ brk' = brk /\ Spaces' = Spaces \cup {c}
      /\ areas'[c] = FreshAreas
      /\ \A q \in Spaces : q # c => areas'[q] = areas[q]
  BY DEF Fork, ForkedSpace, CreateSpace, Spaces
<1> HIDE DEF c
<1> QED BY <1>1, FreshHasNoHeap DEF HeapInv, HeapApart, NoHeap, InHeap

\* mmap with a hint or without one enters no area in the heap.
LEMMA MmapKeepsHeap ==
  ASSUME HeapInv, NEW p \in Pids, NEW addr \in Addresses, NEW length \in Sizes,
         NEW flags \in MapFlags, Mmap(p, addr, length, flags)
  PROVE  HeapInv'
<1> DEFINE start == IF addr = 0 THEN MmapBase ELSE addr
           a == AreaAt(start, length, flags)
<1>1. MapPages(p, start, length, flags) /\ brk' = brk
  BY DEF Mmap
<1>2. a \in Region /\ ~InHeap(a)
  <2>1. start \in Nat /\ start \notin HeapStart .. MmapBase - 1
    BY MemoryAssumption, HeapAssumption
  <2>2. length \in Nat /\ flags \in SUBSET {"w", "x"}
    BY MemoryAssumption
  <2> HIDE DEF start
  <2> QED BY <2>1, <2>2 DEF AreaAt, Region, InHeap
<1> HIDE DEF start
<1>3. areas' = areas \/ (p \in Spaces /\ areas' = [areas EXCEPT ![p] = Append(@, a)])
  BY <1>1, MapPagesAreas
<1> HIDE DEF a
<1>4. CASE areas' = areas
  BY <1>1, <1>4 DEF HeapInv, Spaces, HeapApart, NoHeap, InHeap
<1>5. CASE p \in Spaces /\ areas' = [areas EXCEPT ![p] = Append(@, a)]
  <2>1. brk[p] \in Nat /\ brk[p] <= brk[p] /\ HeapApart(areas[p], brk[p])
    BY <1>5 DEF HeapInv
  <2>2. HeapApart(Append(areas[p], a), brk[p])
    BY <1>2, <2>1, AppendStaysApart
  <2>3. brk' = [brk EXCEPT ![p] = brk[p]]
    BY <1>1 DEF HeapInv
  <2>4. areas' = [areas EXCEPT ![p] = Append(areas[p], a)]
    BY <1>5
  <2> QED BY <2>1, <2>2, <2>3, <2>4, OneHeapChanges
<1> QED BY <1>3, <1>4, <1>5

\* brk moves the break up and enters what is between, or finds no memory for
\* it and moves the break all the same.
LEMMA BrkKeepsHeap ==
  ASSUME HeapInv, NEW p \in Pids, NEW newBrk \in Breaks, Brk(p, newBrk)
  PROVE  HeapInv'
<1> DEFINE a == AreaAt(brk[p], newBrk - brk[p], Data)
<1>1. newBrk \in Nat /\ brk[p] \in Nat /\ brk[p] <= newBrk
  BY HeapAssumption DEF Brk, HeapInv
<1>2. MapPages(p, brk[p], newBrk - brk[p], Data) /\ brk' = [brk EXCEPT ![p] = newBrk]
  BY DEF Brk, HeapEnd
<1>3. a \in Region /\ a.start = brk[p] /\ a.end <= newBrk
  BY <1>1 DEF AreaAt, Region, Data
<1>4. areas' = areas \/ (p \in Spaces /\ areas' = [areas EXCEPT ![p] = Append(@, a)])
  BY <1>2, MapPagesAreas
<1> HIDE DEF a
<1>5. CASE areas' = areas
  <2>1. CASE p \in Spaces
    <3>1. HeapApart(areas[p], brk[p])
      BY <2>1 DEF HeapInv
    <3>2. HeapApart(areas[p], newBrk)
      <4>1. areas[p] \in Seq(Region) /\ \A i \in 1 .. Len(areas[p]) : areas[p][i] \in Region
        BY <3>1, ElementOfSeq DEF HeapApart
      <4>2. \A i \in 1 .. Len(areas[p]) : InHeap(areas[p][i]) => areas[p][i].end <= newBrk
        <5>1. \A i \in 1 .. Len(areas[p]) : areas[p][i].end \in Nat
          BY <4>1 DEF Region
        <5>2. \A x, y, z \in Nat : x <= y /\ y <= z => x <= z
          OBVIOUS
        <5> QED BY <1>1, <3>1, <5>1, <5>2, Zenon DEF HeapApart
      <4> QED BY <3>1, <4>2 DEF HeapApart
    <3>3. areas' = [areas EXCEPT ![p] = areas[p]] \/ areas' = areas
      BY <1>5
    <3>4. areas'[p] = areas[p] /\ Spaces' = Spaces
      BY <1>5 DEF Spaces
    <3>5. /\ brk' \in [Pids -> Nat] /\ brk'[p] = newBrk
          /\ \A q \in Pids : q # p => brk'[q] = brk[q]
      BY <1>1, <1>2 DEF HeapInv
    <3>6. \A q \in Pids : HeapStart <= brk'[q]
      <4>1. HeapStart \in Nat /\ HeapStart <= brk[p]
        BY HeapAssumption DEF HeapInv
      <4>2. HeapStart <= newBrk
        BY <1>1, <4>1
      <4> QED BY <3>5, <4>2 DEF HeapInv
    <3> QED BY <1>5, <3>2, <3>4, <3>5, <3>6 DEF HeapInv, HeapApart, NoHeap, InHeap
  <2>2. CASE p \notin Spaces
    <3>1. /\ brk' \in [Pids -> Nat] /\ brk'[p] = newBrk
          /\ \A q \in Pids : q # p => brk'[q] = brk[q]
      BY <1>1, <1>2 DEF HeapInv
    <3>2. \A q \in Pids : HeapStart <= brk'[q]
      <4>1. HeapStart \in Nat /\ HeapStart <= brk[p]
        BY HeapAssumption DEF HeapInv
      <4>2. HeapStart <= newBrk
        BY <1>1, <4>1
      <4> QED BY <3>1, <4>2 DEF HeapInv
    <3> QED BY <1>5, <2>2, <3>1, <3>2 DEF HeapInv, HeapApart, NoHeap, InHeap, Spaces
  <2> QED BY <2>1, <2>2
<1>6. CASE p \in Spaces /\ areas' = [areas EXCEPT ![p] = Append(@, a)]
  <2>1. HeapApart(areas[p], brk[p])
    BY <1>6 DEF HeapInv
  <2>2. HeapApart(Append(areas[p], a), newBrk)
    BY <1>1, <1>3, <2>1, AppendStaysApart
  <2>3. areas' = [areas EXCEPT ![p] = Append(areas[p], a)]
    BY <1>6
  <2> QED BY <1>1, <1>2, <2>2, <2>3, OneHeapChanges
<1> QED BY <1>4, <1>5, <1>6

\* munmap takes areas out and leaves the break.
LEMMA MunmapKeepsHeap ==
  ASSUME HeapInv, NEW p \in Pids, NEW addr, Munmap(p, addr)
  PROVE  HeapInv'
<1> DEFINE drop == {a \in ToSet(areas[p]) : a.start = addr}
           list == Without(areas[p], drop)
<1>1. p \in Spaces /\ areas' = [areas EXCEPT ![p] = list] /\ brk' = brk
  BY DEF Munmap, UnmapPages
<1>2. brk[p] \in Nat /\ brk[p] <= brk[p] /\ HeapApart(areas[p], brk[p])
  BY <1>1 DEF HeapInv
<1> HIDE DEF drop
<1>3. HeapApart(list, brk[p])
  BY <1>2, WithoutStaysApart
<1>4. brk' = [brk EXCEPT ![p] = brk[p]]
  BY <1>1 DEF HeapInv
<1> HIDE DEF list
<1> QED BY <1>1, <1>2, <1>3, <1>4, OneHeapChanges

\* The areas of a heap do not overlap and end below the break, whether some of
\* them found no memory, were unmapped, or belong to a process that has the
\* pid, and with it the break, of one that died.
THEOREM HeapsAreApart == CallsSpec => []HeapAreasDisjoint
<1>1. CallsInit => HeapInv
  <2> SUFFICES ASSUME CallsInit PROVE HeapInv
    OBVIOUS
  <2>1. brk \in [Pids -> Nat] /\ \A p \in Pids : HeapStart <= brk[p]
    BY HeapAssumption DEF CallsInit
  <2>2. \A p \in Spaces : areas[p] = FreshAreas
    BY DEF CallsInit, Spaces
  <2> QED BY <2>1, <2>2, FreshHasNoHeap DEF HeapInv
<1>2. HeapInv /\ [CallsNext]_callVars => HeapInv'
  <2> SUFFICES ASSUME HeapInv, [CallsNext]_callVars PROVE HeapInv'
    OBVIOUS
  <2>1. \A p \in Proc!Live : p \in Pids
    BY HeapAssumption DEF Proc!Live, Proc!Pid
  <2>2. ASSUME NEW p \in Pids, ExitOrWait(p) PROVE HeapInv'
    BY <2>2 DEF ExitOrWait, HeapInv, Spaces, HeapApart, NoHeap, InHeap
  <2>3. CASE UNCHANGED callVars
    BY <2>3 DEF callVars, HeapInv, Spaces, HeapApart, NoHeap, InHeap
  <2> QED BY <2>1, <2>2, <2>3, ForkKeepsHeap, MmapKeepsHeap, BrkKeepsHeap, MunmapKeepsHeap
          DEF CallsNext
<1>3. HeapInv => HeapAreasDisjoint
  <2> SUFFICES ASSUME HeapInv, NEW p \in DOMAIN areas, NEW i \in HeapAreas(p), NEW j \in HeapAreas(p)
               PROVE  /\ areas[p][i].end <= brk[p]
                      /\ i < j => areas[p][i].end <= areas[p][j].start
    BY DEF HeapAreasDisjoint
  <2>1. areas[p] \in Seq(Region)
    BY DEF HeapInv, HeapApart, NoHeap, Spaces
  <2>2. DOMAIN areas[p] = 1 .. Len(areas[p])
    BY <2>1, LenProperties
  <2>3. /\ i \in 1 .. Len(areas[p]) /\ InHeap(areas[p][i])
        /\ j \in 1 .. Len(areas[p]) /\ InHeap(areas[p][j])
    BY <2>2 DEF HeapAreas, InHeap
  <2>4. p \in Pids
    BY <2>3 DEF HeapInv, NoHeap, Spaces
  <2> QED BY <2>3, <2>4 DEF HeapInv, HeapApart, Spaces
<1> QED BY <1>1, <1>2, <1>3, PTL DEF CallsSpec

----------------------------------------------------------------------------
(* What a space allows.                                                    *)

\* The areas of a space are entries of map_pages, of any length.
AreasTyped(m) == \A p \in DOMAIN m.areas : m.areas[p] \in Seq(Region)

\* The same spaces, with areas added behind the old ones.
Grows(a, b) ==
  /\ DOMAIN b.areas = DOMAIN a.areas
  /\ \A p \in DOMAIN a.areas :
       /\ Len(a.areas[p]) <= Len(b.areas[p])
       /\ \A i \in 1 .. Len(a.areas[p]) : b.areas[p][i] = a.areas[p][i]

\* map_pages adds an area to one space, or fails.
LEMMA MappedGrows ==
  ASSUME NEW m, AreasTyped(m), NEW p, NEW start \in Nat, NEW size \in Nat,
         NEW flags \in SUBSET {"w", "x"}
  PROVE  /\ AreasTyped(Mapped(m, p, start, size, flags))
         /\ Grows(m, Mapped(m, p, start, size, flags))
<1>1. \A q \in DOMAIN m.areas : Len(m.areas[q]) \in Nat
  BY LenProperties DEF AreasTyped
<1>2. CASE ~CanMap(m, p, size)
  BY <1>1, <1>2 DEF Mapped, Grows
<1>3. CASE CanMap(m, p, size)
  <2> DEFINE a == AreaAt(start, size, flags)
             s == [m.areas EXCEPT ![p] = Append(@, a)]
  <2>1. Mapped(m, p, start, size, flags).areas = s
    BY <1>3 DEF Mapped, WithArea
  <2>2. a \in Region
    BY DEF AreaAt, Region
  <2>3. m.areas[p] \in Seq(Region) /\ p \in DOMAIN m.areas
    BY <1>3 DEF CanMap, AreasTyped
  <2> HIDE DEF a
  <2>4. /\ Append(m.areas[p], a) \in Seq(Region)
        /\ Len(Append(m.areas[p], a)) = Len(m.areas[p]) + 1
        /\ \A i \in 1 .. Len(m.areas[p]) : Append(m.areas[p], a)[i] = m.areas[p][i]
    BY <2>2, <2>3, AppendProperties
  <2>5. DOMAIN s = DOMAIN m.areas /\ s[p] = Append(m.areas[p], a)
        /\ \A q \in DOMAIN m.areas : q # p => s[q] = m.areas[q]
    BY <2>3
  <2> HIDE DEF s
  <2>6. \A q \in DOMAIN m.areas : s[q] \in Seq(Region)
    BY <2>4, <2>5 DEF AreasTyped
  <2>7. ASSUME NEW q \in DOMAIN m.areas
        PROVE  /\ Len(m.areas[q]) <= Len(s[q])
               /\ \A i \in 1 .. Len(m.areas[q]) : s[q][i] = m.areas[q][i]
    <3>1. CASE q = p
      BY <1>1, <2>4, <2>5, <3>1
    <3>2. CASE q # p
      BY <1>1, <2>5, <3>2
    <3> QED BY <3>1, <3>2
  <2> QED BY <2>1, <2>5, <2>6, <2>7 DEF AreasTyped, Grows
<1> QED BY <1>2, <1>3

\* Growing twice is growing.
LEMMA GrowsOn ==
  ASSUME NEW a, NEW b, NEW c, AreasTyped(a), AreasTyped(b), AreasTyped(c),
         Grows(a, b), Grows(b, c)
  PROVE  Grows(a, c)
<1> SUFFICES ASSUME NEW p \in DOMAIN a.areas
             PROVE  /\ Len(a.areas[p]) <= Len(c.areas[p])
                    /\ \A i \in 1 .. Len(a.areas[p]) : c.areas[p][i] = a.areas[p][i]
  BY DEF Grows
<1>1. /\ Len(a.areas[p]) \in Nat /\ Len(b.areas[p]) \in Nat /\ Len(c.areas[p]) \in Nat
      /\ p \in DOMAIN b.areas
  BY LenProperties DEF Grows, AreasTyped
<1>2. Len(a.areas[p]) <= Len(b.areas[p]) /\ Len(b.areas[p]) <= Len(c.areas[p])
  BY <1>1 DEF Grows
<1>3. \A i \in 1 .. Len(a.areas[p]) : i \in 1 .. Len(b.areas[p])
  BY <1>1, <1>2
<1> QED BY <1>1, <1>2, <1>3 DEF Grows

\* load maps four times, whichever of them succeed.
LEMMA ElfGrows ==
  ASSUME NEW m, AreasTyped(m), NEW p
  PROVE  LET n == Mapped(LoadedBss(m, p), p, StackStart, StackSize, Data)
         IN  AreasTyped(n) /\ Grows(m, n)
<1>0. /\ Code \in SUBSET {"w", "x"} /\ Data \in SUBSET {"w", "x"}
      /\ {TextStart, DataStart, BssStart, StackStart, PageSize, StackSize} \subseteq Nat
  BY MemoryAssumption DEF Code, Data
<1>1. AreasTyped(LoadedText(m, p)) /\ Grows(m, LoadedText(m, p))
  BY <1>0, MappedGrows DEF LoadedText
<1>2. AreasTyped(LoadedData(m, p)) /\ Grows(LoadedText(m, p), LoadedData(m, p))
  BY <1>0, <1>1, MappedGrows DEF LoadedData
<1>3. AreasTyped(LoadedBss(m, p)) /\ Grows(LoadedData(m, p), LoadedBss(m, p))
  BY <1>0, <1>2, MappedGrows DEF LoadedBss
<1> DEFINE n == Mapped(LoadedBss(m, p), p, StackStart, StackSize, Data)
<1>4. AreasTyped(n) /\ Grows(LoadedBss(m, p), n)
  BY <1>0, <1>3, MappedGrows
<1> HIDE DEF n
<1>5. Grows(m, LoadedData(m, p))
  BY <1>1, <1>2, GrowsOn
<1>6. Grows(m, LoadedBss(m, p))
  BY <1>2, <1>3, <1>5, GrowsOn
<1>7. Grows(m, n)
  BY <1>3, <1>4, <1>6, GrowsOn
<1> QED BY <1>4, <1>7 DEF n

\* The three areas of a new space.
LEMMA FreshTyped == FreshAreas \in Seq(Region)
<1>1. /\ AreaAt(TextStart, PageSize, Code) \in Region
      /\ AreaAt(DataStart, PageSize, Data) \in Region
      /\ AreaAt(StackStart, StackSize, Data) \in Region
  BY MemoryAssumption DEF Region, AreaAt, Code, Data
<1> QED BY <1>1 DEF FreshAreas

\* A step of the kernel that takes a frame is one that maps.
LEMMA TakingMaps ==
  ASSUME AreasTyped(Now), Next
  PROVE  AreasTyped(Now)' /\ (owner' # owner => Grows(Now, Now'))
<1> SUFFICES ASSUME NEW p \in Pids, Kernel(p)
             PROVE  AreasTyped(Now)' /\ (owner' # owner => Grows(Now, Now'))
  BY DEF Next
<1>1. CASE CreateSpace(p)
  <2>1. /\ DOMAIN areas' = Spaces \cup {p} /\ areas'[p] = FreshAreas
        /\ \A q \in Spaces : q # p => areas'[q] = areas[q]
    BY <1>1 DEF CreateSpace
  <2>2. FreshAreas \in Seq(Region)
    BY FreshTyped
  <2>3. AreasTyped(Now)'
    BY <2>1, <2>2 DEF AreasTyped, Now, Spaces
  <2> QED BY <1>1, <2>3 DEF CreateSpace
<1>2. ASSUME NEW start \in Addresses, UnmapPages(p, start)
      PROVE  AreasTyped(Now)' /\ owner' = owner
  <2> DEFINE drop == {a \in ToSet(areas[p]) : a.start = start}
  <2>1. /\ p \in DOMAIN areas /\ areas' = [areas EXCEPT ![p] = Without(areas[p], drop)]
        /\ owner' = owner
    BY <1>2 DEF UnmapPages, Spaces
  <2>2. areas[p] \in Seq(Region)
    BY <2>1 DEF AreasTyped, Now
  <2> HIDE DEF drop
  <2>3. Without(areas[p], drop) \in Seq(Region)
    BY <2>2, WithoutKeeps
  <2> QED BY <2>1, <2>3 DEF AreasTyped, Now
<1>3. ASSUME NEW m, AreasTyped(m), Grows(Now, m), Become(m)
      PROVE  AreasTyped(Now)' /\ Grows(Now, Now')
  BY <1>3 DEF AreasTyped, Grows, Become, Now
<1>4. ASSUME NEW start \in Addresses, NEW size \in Sizes, NEW flags \in MapFlags,
             MapPages(p, start, size, flags)
      PROVE  AreasTyped(Now)' /\ Grows(Now, Now')
  <2> DEFINE m == Mapped(Now, p, start, size, flags)
  <2>1. start \in Nat /\ size \in Nat /\ flags \in SUBSET {"w", "x"}
    BY MemoryAssumption
  <2>2. AreasTyped(m) /\ Grows(Now, m)
    BY <2>1, MappedGrows
  <2>3. Become(m)
    BY <1>4 DEF MapPages
  <2> HIDE DEF m
  <2> QED BY <1>3, <2>2, <2>3
<1>5. CASE ElfLoad(p)
  <2> DEFINE m == Mapped(LoadedBss(Now, p), p, StackStart, StackSize, Data)
  <2>1. AreasTyped(m) /\ Grows(Now, m)
    BY ElfGrows
  <2>2. Become(m)
    BY <1>5 DEF ElfLoad
  <2> HIDE DEF m
  <2> QED BY <1>3, <2>1, <2>2
<1> QED BY <1>1, <1>2, <1>4, <1>5 DEF Kernel

\* The first area that has an address is the first one after others are added
\* behind it.
LEMMA LookupStays ==
  ASSUME AreasTyped(Now), AreasTyped(Now)', Grows(Now, Now'),
         NEW p \in Spaces, NEW addr \in Nat, IsMapped(p, addr)
  PROVE  IsMapped(p, addr)' /\ Lookup(p, addr)' = Lookup(p, addr)
<1> DEFINE C == Containing(p, addr)
           D == Containing(p, addr)'
           n == Len(areas[p])
<1>1. /\ p \in DOMAIN areas /\ p \in DOMAIN areas'
      /\ areas[p] \in Seq(Region) /\ areas'[p] \in Seq(Region)
      /\ n \in Nat /\ Len(areas'[p]) \in Nat /\ n <= Len(areas'[p])
      /\ DOMAIN areas[p] = 1 .. n /\ DOMAIN (areas'[p]) = 1 .. Len(areas'[p])
      /\ \A i \in 1 .. n : areas'[p][i] = areas[p][i]
  BY LenProperties DEF Spaces, AreasTyped, Grows, Now
<1>2. C \subseteq 1 .. n /\ D \subseteq Nat /\ C # {}
  BY <1>1 DEF Containing, IsMapped
<1>3. \A i \in 1 .. n : i \in D <=> i \in C
  BY <1>1 DEF Containing
<1>0. 0 \notin D
  BY <1>1 DEF Containing
<1> HIDE DEF C, D
<1>4. PICK i \in C : \A j \in C : i <= j
  BY <1>1, <1>2, FirstPlace
<1>5. \A j \in D : i <= j
  <2> TAKE j \in D
  <2>1. j \in Nat /\ i \in 1 .. n
    BY <1>2
  <2>2. CASE j \in 1 .. n
    BY <1>3, <1>4, <2>2
  <2>3. CASE j \notin 1 .. n
    <3>1. j = 0 \/ j > n
      BY <1>1, <2>1, <2>3
    <3>2. j # 0
      BY <1>0
    <3> QED BY <1>1, <2>1, <3>1, <3>2
  <2> QED BY <2>2, <2>3
<1>6. i \in D /\ i \in 1 .. n
  BY <1>2, <1>3, <1>4
<1>7. (CHOOSE k \in C : \A j \in C : k <= j) = i
  <2> DEFINE k == CHOOSE k \in C : \A j \in C : k <= j
  <2>1. k \in C /\ \A j \in C : k <= j
    BY <1>4
  <2> HIDE DEF k
  <2>2. k \in Nat /\ i \in Nat /\ k <= i /\ i <= k
    BY <1>1, <1>2, <1>4, <2>1
  <2>3. k = i
    BY <2>2
  <2> QED BY <2>3 DEF k
<1>8. (CHOOSE k \in D : \A j \in D : k <= j) = i
  <2> DEFINE k == CHOOSE k \in D : \A j \in D : k <= j
  <2>1. k \in D /\ \A j \in D : k <= j
    BY <1>5, <1>6
  <2> HIDE DEF k
  <2>2. k \in Nat /\ i \in Nat /\ k <= i /\ i <= k
    BY <1>1, <1>2, <1>5, <1>6, <2>1
  <2>3. k = i
    BY <2>2
  <2> QED BY <2>3 DEF k
<1>9. Lookup(p, addr) = areas[p][i]
  BY <1>7 DEF Lookup, C
<1>10. Lookup(p, addr)' = areas'[p][i]
  BY <1>8 DEF Lookup, D
<1>11. IsMapped(p, addr)'
  BY <1>1, <1>6 DEF IsMapped, Spaces, D
<1> QED BY <1>1, <1>6, <1>9, <1>10, <1>11

\* Mapping over an area, or loading an image over it, changes no answer about
\* the addresses that were mapped before.
THEOREM MappingOverIsInert == Spec => AccessStays
<1>1. Init => AreasTyped(Now)
  BY DEF Init, AreasTyped, Now
<1>2. AreasTyped(Now) /\ [Next]_memory => AreasTyped(Now)'
  BY TakingMaps DEF memory, AreasTyped, Now
<1>3. AreasTyped(Now) /\ [Next]_memory =>
        [owner' # owner =>
           \A p \in Spaces, addr \in Addresses : IsMapped(p, addr) =>
             /\ \A needs \in SUBSET {"w", "x"} :
                  CheckAccess(p, addr, needs)' = CheckAccess(p, addr, needs)
             /\ \A write \in BOOLEAN : PageFault(p, addr, write)' = PageFault(p, addr, write)]_memory
  <2> SUFFICES ASSUME AreasTyped(Now), Next, owner' # owner,
                      NEW p \in Spaces, NEW addr \in Addresses, IsMapped(p, addr)
               PROVE  /\ \A needs \in SUBSET {"w", "x"} :
                           CheckAccess(p, addr, needs)' = CheckAccess(p, addr, needs)
                      /\ \A write \in BOOLEAN :
                           PageFault(p, addr, write)' = PageFault(p, addr, write)
    BY DEF memory
  <2>1. AreasTyped(Now)' /\ Grows(Now, Now') /\ addr \in Nat
    BY TakingMaps, MemoryAssumption
  <2>2. IsMapped(p, addr)' /\ Lookup(p, addr)' = Lookup(p, addr)
    BY <2>1, LookupStays
  <2>3. p \in Spaces'
    BY <2>1 DEF Grows, Spaces, Now
  <2>4. \A write \in BOOLEAN : PageFault(p, addr, write)' = PageFault(p, addr, write)
    BY <2>2, <2>3 DEF PageFault
  <2> QED BY <2>2, <2>4 DEF CheckAccess
<1> QED BY <1>1, <1>2, <1>3, PTL DEF Spec, AccessStays

----------------------------------------------------------------------------
(* What a mapping costs.                                                   *)

\* Products with the page size grow with the other factor.
LEMMA TimesGrows ==
  ASSUME NEW a \in Nat, NEW b \in Nat, a <= b, NEW s \in Nat
  PROVE  a * s <= b * s
OBVIOUS

\* map_pages rounds a size up to whole pages: as many as begin in the area.
LEMMA PagesAreBegun ==
  ASSUME NEW start \in Nat, NEW size \in Nat, NEW flags
  PROVE  /\ IsFiniteSet(PagesBegun(AreaAt(start, size, flags)))
         /\ Cardinality(PagesBegun(AreaAt(start, size, flags))) = Pages(size)
<1> DEFINE n == Pages(size)
           s == PageSize
           B == PagesBegun(AreaAt(start, size, flags))
<1>1. s \in Nat /\ s >= 1 /\ n \in Nat
  BY MemoryAssumption, PagesType
<1>2. n * s <= size + s - 1 /\ size + s - 1 < n * s + s
  BY <1>1 DEF Pages
<1>3. B = {k \in 0 .. size : k * s < size}
  BY <1>1 DEF PagesBegun, AreaAt
<1> HIDE DEF n, s, B
<1>4. ASSUME NEW k \in Nat, k < n PROVE k * s < size /\ k <= size
  <2>1. (k + 1) * s <= n * s /\ (k + 1) * s = k * s + s
    BY <1>1, <1>4, TimesGrows
  <2>2. k * s < size
    BY <1>1, <1>2, <2>1
  <2>3. k * 1 <= k * s
    BY <1>1
  <2> QED BY <1>1, <2>2, <2>3
<1>5. ASSUME NEW k \in Nat, k * s < size PROVE k < n
  <2> SUFFICES ASSUME n <= k PROVE FALSE
    BY <1>1
  <2>1. n * s <= k * s
    BY <1>1, TimesGrows
  <2> QED BY <1>1, <1>2, <1>5, <2>1
<1>6. B = 0 .. n - 1
  BY <1>1, <1>3, <1>4, <1>5
<1>7. IsFiniteSet(0 .. n - 1) /\ Cardinality(0 .. n - 1) = n
  BY <1>1, FS_Interval
<1> QED BY <1>6, <1>7 DEF n, B

\* When there are n unused frames, exactly n are taken.
LEMMA LowestCount ==
  ASSUME NEW o, NEW n \in Nat, Enough(o, n)
  PROVE  IsFiniteSet(Lowest(o, n)) /\ Cardinality(Lowest(o, n)) = n
<1> DEFINE U == Unused(o)
           Below(f) == {g \in U : g < f}
           S == {k \in Nat : k <= Cardinality(U) => Cardinality(Lowest(o, k)) = k}
<1>1. /\ IsFiniteSet(U) /\ U \subseteq Nat /\ Cardinality(U) \in Nat
      /\ \A T : T \subseteq U => IsFiniteSet(T) /\ Cardinality(T) \in Nat
  <2>1. U \subseteq Frame /\ U \subseteq Nat
    BY MemoryAssumption DEF Unused, Frame
  <2> QED BY <2>1, FrameFinite, FS_Subset, FS_CardinalityType
<1>2. \A k : Lowest(o, k) = {f \in U : Cardinality(Below(f)) < k}
  BY DEF Lowest
<1>3. \A f : Below(f) \subseteq U
  OBVIOUS
<1>4. 0 \in S
  <2>1. \A f : Cardinality(Below(f)) \in Nat
    BY <1>1, <1>3
  <2> HIDE DEF Below
  <2>2. Lowest(o, 0) = {}
    BY <1>2, <2>1
  <2> QED BY <2>2, FS_EmptySet
<1>5. ASSUME NEW k \in Nat, k \in S PROVE k + 1 \in S
  <2> SUFFICES ASSUME k + 1 <= Cardinality(U)
               PROVE  Cardinality(Lowest(o, k + 1)) = k + 1
    OBVIOUS
  <2> DEFINE L == Lowest(o, k)
             R == U \ L
  <2>1. L \subseteq U /\ IsFiniteSet(L) /\ Cardinality(L) = k
    <3>1. L \subseteq U
      BY <1>2
    <3> QED BY <1>1, <1>5, <3>1
  <2>2. R # {} /\ R \subseteq Nat
    <3>1. CASE R = {}
      <4>1. L = U
        BY <2>1, <3>1
      <4> QED BY <1>1, <2>1, <4>1
    <3> QED BY <1>1, <3>1
  <2>3. PICK f \in R : \A g \in R : f <= g
    BY <2>2, FirstPlace
  <2>4. \A g \in U : g < f => g \in L
    BY <1>1, <2>2, <2>3
  <2>5. \A g \in L : g < f
    <3> SUFFICES ASSUME NEW g \in L, ~(g < f) PROVE FALSE
      OBVIOUS
    <3>1. f < g /\ f \in U /\ g \in U
      BY <1>1, <2>1, <2>3
    <3>2. f \in L
      BY <3>1, LowestFacts
    <3> QED BY <2>3, <3>2
  <2>6. Below(f) = L
    BY <2>1, <2>4, <2>5
  <2>7. ASSUME NEW g \in R, g # f PROVE Cardinality(Below(g)) >= k + 1
    <3>1. f < g
      BY <1>1, <2>2, <2>3, <2>7
    <3>2. L \cup {f} \subseteq Below(g) /\ f \notin L
      BY <1>1, <2>1, <2>3, <2>5, <3>1
    <3>3. Cardinality(L \cup {f}) = k + 1
      BY <2>1, <3>2, FS_AddElement
    <3>4. IsFiniteSet(Below(g)) /\ Cardinality(Below(g)) \in Nat
      BY <1>1, <1>3
    <3> HIDE DEF Below, L
    <3> QED BY <3>2, <3>3, <3>4, FS_Subset
  <2>8. \A g \in U : Cardinality(Below(g)) \in Nat
    BY <1>1, <1>3
  <2> HIDE DEF U, Below
  <2>9. \A g \in L : g \in Lowest(o, k + 1)
    BY <1>2, <2>8
  <2>10. f \in Lowest(o, k + 1)
    BY <1>2, <2>1, <2>3, <2>6
  <2>11. \A g \in R : g # f => g \notin Lowest(o, k + 1)
    BY <1>2, <2>7, <2>8
  <2>12. Lowest(o, k + 1) = L \cup {f}
    BY <1>2, <2>9, <2>10, <2>11
  <2> QED BY <2>1, <2>3, <2>12, FS_AddElement
<1> HIDE DEF S
<1>6. n \in S
  BY <1>4, <1>5, Induction
<1>7. n <= Cardinality(U)
  BY <1>1 DEF Enough
<1>8. Lowest(o, n) \subseteq U
  BY <1>2
<1> QED BY <1>1, <1>6, <1>7, <1>8 DEF S

\* The memory b comes from a by mapping: its areas grow, and the frames that
\* each process gets are as many as the pages of the areas added to it.
PaysFor(a, b) ==
  /\ Grows(a, b)
  /\ \A p \in Pids :
       /\ IsFiniteSet(PagesAdded(a, b, p))
       /\ Cardinality(Charged(b, p))
            = Cardinality(Charged(a, p)) + Cardinality(PagesAdded(a, b, p))

\* Sets that are apart have as many elements as both of them.
LEMMA ApartCount ==
  ASSUME NEW S, NEW T, IsFiniteSet(S), IsFiniteSet(T), S \cap T = {}
  PROVE  /\ IsFiniteSet(S \cup T)
         /\ Cardinality(S \cup T) = Cardinality(S) + Cardinality(T)
<1>1. Cardinality(S) \in Nat /\ Cardinality(T) \in Nat
  BY FS_CardinalityType
<1>2. Cardinality(S \cap T) = 0
  BY FS_EmptySet
<1>3. /\ IsFiniteSet(S \cup T)
      /\ Cardinality(S \cup T) = Cardinality(S) + Cardinality(T) - Cardinality(S \cap T)
  BY FS_Union
<1> QED BY <1>1, <1>2, <1>3

\* Frames are finitely many.
LEMMA ChargedCount ==
  ASSUME NEW m, NEW p
  PROVE  IsFiniteSet(Charged(m, p)) /\ Cardinality(Charged(m, p)) \in Nat
<1>1. Charged(m, p) \subseteq Frame
  BY DEF Charged
<1> QED BY <1>1, FrameFinite, FS_Subset, FS_CardinalityType

\* Where no area is added, no page is.
LEMMA NothingAdded ==
  ASSUME NEW a, NEW b, NEW p, AreasTyped(a), AreasTyped(b),
         Len(AreasOf(b, p)) <= Len(AreasOf(a, p))
  PROVE  PagesAdded(a, b, p) = {}
<1>1. Len(AreasOf(a, p)) \in Nat /\ Len(AreasOf(b, p)) \in Nat
  BY EmptySeq, LenProperties DEF AreasOf, AreasTyped
<1>2. Len(AreasOf(a, p)) + 1 .. Len(AreasOf(b, p)) = {}
  BY <1>1
<1> QED BY <1>2 DEF PagesAdded

\* map_pages pays for the area it adds, or adds none.
LEMMA MappedPays ==
  ASSUME NEW m, AreasTyped(m), NEW p \in Pids, NEW start \in Nat, NEW size \in Nat,
         NEW flags \in SUBSET {"w", "x"}
  PROVE  PaysFor(m, Mapped(m, p, start, size, flags))
<1> DEFINE k == Mapped(m, p, start, size, flags)
<1>1. AreasTyped(k) /\ Grows(m, k)
  BY MappedGrows
<1>2. ASSUME NEW q \in Pids, Len(AreasOf(k, q)) <= Len(AreasOf(m, q)),
             Charged(k, q) = Charged(m, q)
      PROVE  /\ IsFiniteSet(PagesAdded(m, k, q))
             /\ Cardinality(Charged(k, q))
                  = Cardinality(Charged(m, q)) + Cardinality(PagesAdded(m, k, q))
  <2>1. PagesAdded(m, k, q) = {}
    BY <1>1, <1>2, NothingAdded
  <2> HIDE DEF k
  <2> QED BY <1>2, <2>1, FS_EmptySet, ChargedCount
<1>3. \A q : Len(AreasOf(m, q)) \in Nat
  BY EmptySeq, LenProperties DEF AreasOf, AreasTyped
<1>4. CASE ~CanMap(m, p, size)
  <2>1. k = m
    BY <1>4 DEF Mapped
  <2>2. \A q \in Pids : Len(AreasOf(k, q)) <= Len(AreasOf(m, q)) /\ Charged(k, q) = Charged(m, q)
    BY <1>3, <2>1
  <2> HIDE DEF k
  <2> QED BY <1>1, <1>2, <2>2 DEF PaysFor, k
<1>5. CASE CanMap(m, p, size)
  <2> DEFINE n == Pages(size)
             taken == Lowest(m.owner, n)
             a == AreaAt(start, size, flags)
             len == Len(m.areas[p])
  <2>1. /\ k.owner = [f \in Frame |-> IF f \in taken THEN p ELSE m.owner[f]]
        /\ k.areas = [m.areas EXCEPT ![p] = Append(@, a)]
    BY <1>5 DEF Mapped, CanMap, Allocated, WithArea
  <2>2. /\ p \in DOMAIN m.areas /\ m.areas[p] \in Seq(Region) /\ a \in Region
        /\ n \in Nat /\ len \in Nat
    BY <1>5, PagesType, LenProperties DEF CanMap, AreasTyped, AreaAt, Region
  <2>3. taken \subseteq Unused(m.owner) /\ IsFiniteSet(taken) /\ Cardinality(taken) = n
    BY <1>5, <2>2, LowestCount, LowestFacts DEF CanMap
  <2>4. \A f \in taken : f \in Frame /\ m.owner[f] = NoOwner
    BY <2>3 DEF Unused
  <2>5. IsFiniteSet(PagesBegun(a)) /\ Cardinality(PagesBegun(a)) = n
    BY PagesAreBegun
  <2> HIDE DEF k, n, taken
  <2>6. ASSUME NEW q \in Pids, q # p
        PROVE  Len(AreasOf(k, q)) <= Len(AreasOf(m, q)) /\ Charged(k, q) = Charged(m, q)
    <3>1. AreasOf(k, q) = AreasOf(m, q)
      BY <2>1, <2>6 DEF AreasOf
    <3>2. \A f \in Frame : k.owner[f] = q <=> m.owner[f] = q
      BY <2>1, <2>4, <2>6, MemoryAssumption
    <3>3. Charged(k, q) = Charged(m, q)
      BY <3>2 DEF Charged
    <3> QED BY <1>3, <3>1, <3>3
  <2>7. /\ IsFiniteSet(PagesAdded(m, k, p))
        /\ Cardinality(Charged(k, p))
             = Cardinality(Charged(m, p)) + Cardinality(PagesAdded(m, k, p))
    <3> HIDE DEF a
    <3>1. Charged(k, p) = Charged(m, p) \cup taken /\ Charged(m, p) \cap taken = {}
      BY <2>1, <2>4, MemoryAssumption DEF Charged
    <3>2. Cardinality(Charged(k, p)) = Cardinality(Charged(m, p)) + n
      BY <2>3, <3>1, ChargedCount, ApartCount
    <3>3. /\ AreasOf(m, p) = m.areas[p]
          /\ AreasOf(k, p) = Append(m.areas[p], a)
      BY <2>1, <2>2 DEF AreasOf
    <3>4. /\ Len(AreasOf(k, p)) = len + 1
          /\ AreasOf(k, p)[len + 1] = a
      BY <2>2, <3>3, AppendProperties
    <3>5. PagesAdded(m, k, p) = {len + 1} \X PagesBegun(a)
      <4>1. len + 1 .. len + 1 = {len + 1}
        BY <2>2
      <4> HIDE DEF len
      <4>2. Len(AreasOf(m, p)) + 1 .. Len(AreasOf(k, p)) = {len + 1}
        BY <3>3, <3>4, <4>1 DEF len
      <4> QED BY <3>4, <4>2 DEF PagesAdded
    <3>6. IsFiniteSet({len + 1}) /\ Cardinality({len + 1}) = 1
      BY FS_Singleton
    <3>7. /\ IsFiniteSet(PagesAdded(m, k, p))
          /\ Cardinality(PagesAdded(m, k, p)) = 1 * n
      BY <2>5, <3>5, <3>6, FS_Product
    <3> QED BY <2>2, <3>2, <3>7
  <2> QED BY <1>1, <1>2, <2>6, <2>7 DEF PaysFor, k
<1> QED BY <1>4, <1>5

\* What two mappings cost is what each of them costs.
LEMMA PaysOn ==
  ASSUME NEW a, NEW b, NEW c, AreasTyped(a), AreasTyped(b), AreasTyped(c),
         PaysFor(a, b), PaysFor(b, c)
  PROVE  PaysFor(a, c)
<1>1. Grows(a, c)
  BY GrowsOn DEF PaysFor
<1>2. ASSUME NEW p \in Pids
      PROVE  /\ IsFiniteSet(PagesAdded(a, c, p))
             /\ Cardinality(Charged(c, p))
                  = Cardinality(Charged(a, p)) + Cardinality(PagesAdded(a, c, p))
  <2> DEFINE x == Len(AreasOf(a, p))
             y == Len(AreasOf(b, p))
             z == Len(AreasOf(c, p))
             P == PagesAdded(a, b, p)
             Q == PagesAdded(b, c, p)
  <2>1. /\ x \in Nat /\ y \in Nat /\ z \in Nat /\ x <= y /\ y <= z
        /\ \A i \in 1 .. y : AreasOf(c, p)[i] = AreasOf(b, p)[i]
    BY EmptySeq, LenProperties DEF AreasOf, AreasTyped, PaysFor, Grows
  <2>2. x + 1 .. z = (x + 1 .. y) \cup (y + 1 .. z) /\ x + 1 .. y \subseteq 1 .. y
    BY <2>1
  <2>3. (x + 1 .. y) \cap (y + 1 .. z) = {}
    BY <2>1
  <2> HIDE DEF x, y, z
  <2>4. P = UNION {{i} \X PagesBegun(AreasOf(c, p)[i]) : i \in x + 1 .. y}
    <3>1. \A i \in x + 1 .. y : AreasOf(c, p)[i] = AreasOf(b, p)[i]
      BY <2>1, <2>2
    <3> QED BY <3>1 DEF PagesAdded, x, y
  <2>5. Q = UNION {{i} \X PagesBegun(AreasOf(c, p)[i]) : i \in y + 1 .. z}
    BY DEF PagesAdded, y, z
  <2>6. PagesAdded(a, c, p) = UNION {{i} \X PagesBegun(AreasOf(c, p)[i]) : i \in x + 1 .. z}
    BY DEF PagesAdded, x, z
  <2>7. /\ IsFiniteSet(P) /\ IsFiniteSet(Q)
        /\ Cardinality(Charged(b, p)) = Cardinality(Charged(a, p)) + Cardinality(P)
        /\ Cardinality(Charged(c, p)) = Cardinality(Charged(b, p)) + Cardinality(Q)
    BY DEF PaysFor
  <2> HIDE DEF P, Q
  <2>8. PagesAdded(a, c, p) = P \cup Q
    BY <2>2, <2>4, <2>5, <2>6
  <2>9. P \cap Q = {}
    BY <2>3, <2>4, <2>5
  <2>10. /\ IsFiniteSet(P \cup Q)
         /\ Cardinality(P \cup Q) = Cardinality(P) + Cardinality(Q)
    BY <2>7, <2>9, ApartCount
  <2>11. Cardinality(P) \in Nat /\ Cardinality(Q) \in Nat
    BY <2>7, FS_CardinalityType
  <2> QED BY <2>7, <2>8, <2>10, <2>11, ChargedCount
<1> QED BY <1>1, <1>2 DEF PaysFor

\* Nothing changes: nothing is paid.
LEMMA StayingPays ==
  ASSUME NEW a, NEW b, AreasTyped(a), AreasTyped(b), b.owner = a.owner,
         NEW p, Len(AreasOf(b, p)) <= Len(AreasOf(a, p))
  PROVE  /\ Cardinality(Charged(b, p)) - Cardinality(Charged(a, p)) = 0
         /\ Cardinality(PagesAdded(a, b, p)) = 0
<1>1. PagesAdded(a, b, p) = {}
  BY NothingAdded
<1>2. Charged(b, p) = Charged(a, p)
  BY DEF Charged
<1> QED BY <1>1, <1>2, ChargedCount, FS_EmptySet

\* load pays for the four areas, for those of them that are mapped.
LEMMA ElfPays ==
  ASSUME NEW m, AreasTyped(m), NEW p \in Pids
  PROVE  PaysFor(m, Mapped(LoadedBss(m, p), p, StackStart, StackSize, Data))
<1>0. /\ Code \in SUBSET {"w", "x"} /\ Data \in SUBSET {"w", "x"}
      /\ {TextStart, DataStart, BssStart, StackStart, PageSize, StackSize} \subseteq Nat
  BY MemoryAssumption DEF Code, Data
<1>1. AreasTyped(LoadedText(m, p)) /\ PaysFor(m, LoadedText(m, p))
  BY <1>0, MappedGrows, MappedPays DEF LoadedText
<1>2. AreasTyped(LoadedData(m, p)) /\ PaysFor(LoadedText(m, p), LoadedData(m, p))
  BY <1>0, <1>1, MappedGrows, MappedPays DEF LoadedData
<1>3. AreasTyped(LoadedBss(m, p)) /\ PaysFor(LoadedData(m, p), LoadedBss(m, p))
  BY <1>0, <1>2, MappedGrows, MappedPays DEF LoadedBss
<1> DEFINE n == Mapped(LoadedBss(m, p), p, StackStart, StackSize, Data)
<1>4. AreasTyped(n) /\ PaysFor(LoadedBss(m, p), n)
  BY <1>0, <1>3, MappedGrows, MappedPays
<1> HIDE DEF n
<1>5. PaysFor(m, LoadedData(m, p))
  BY <1>1, <1>2, PaysOn
<1>6. PaysFor(m, LoadedBss(m, p))
  BY <1>2, <1>3, <1>5, PaysOn
<1>7. PaysFor(m, n)
  BY <1>3, <1>4, <1>6, PaysOn
<1> QED BY <1>7 DEF n

\* A list from which elements are dropped is not longer.
LEMMA WithoutIsShorter ==
  ASSUME NEW S, NEW q \in Seq(S), NEW drop
  PROVE  Len(Without(q, drop)) <= Len(q)
<1>1. PICK h : PicksOut(q, drop, Len(q), Without(q, drop), h)
  BY WithoutKeeps
<1> DEFINE r == Without(q, drop)
<1>2. Len(r) \in Nat /\ Len(q) \in Nat
  BY WithoutKeeps, LenProperties
<1>3. h \in [1 .. Len(r) -> 1 .. Len(q)] /\ \A i, j \in 1 .. Len(r) : i < j => h[i] < h[j]
  BY <1>1 DEF PicksOut
<1> HIDE DEF r
<1>4. \A i, j \in 1 .. Len(r) : i # j => h[i] # h[j]
  <2> TAKE i, j \in 1 .. Len(r)
  <2>1. i \in Int /\ j \in Int /\ h[i] \in Int /\ h[j] \in Int
    BY <1>2, <1>3
  <2>2. i < j \/ j < i \/ i = j
    BY <2>1
  <2> QED BY <1>3, <2>1, <2>2
<1>5. ASSUME NEW n \in Nat PROVE IsFiniteSet(1 .. n) /\ Cardinality(1 .. n) = n
  <2>1. /\ IsFiniteSet(1 .. n)
        /\ Cardinality(1 .. n) = IF 1 > n THEN 0 ELSE n - 1 + 1
    BY FS_Interval
  <2> QED BY <2>1
<1>6. ~(Len(q) < Len(r))
  BY <1>2, <1>3, <1>4, <1>5, FS_PigeonHole
<1> QED BY <1>2, <1>6 DEF r

\* The frames a process gets are those of the pages it gets, and none with a
\* new space, at every step of the kernel.
THEOREM FramesPaidFor == Spec => FramesPayForAreas
<1> DEFINE Paid == \A p \in Pids :
              Cardinality(Charged(Now, p)') - Cardinality(Charged(Now, p))
                = Cardinality(PagesAdded(Now, Now', p))
<1>1. Init => AreasTyped(Now)
  BY DEF Init, AreasTyped, Now
<1>2. AreasTyped(Now) /\ [Next]_memory => AreasTyped(Now)'
  BY TakingMaps DEF memory, AreasTyped, Now
<1>3. ASSUME PaysFor(Now, Now') PROVE Paid
  <2> SUFFICES ASSUME NEW p \in Pids
               PROVE  Cardinality(Charged(Now, p)') - Cardinality(Charged(Now, p))
                        = Cardinality(PagesAdded(Now, Now', p))
    OBVIOUS
  <2>1. Cardinality(PagesAdded(Now, Now', p)) \in Nat
    BY <1>3, FS_CardinalityType DEF PaysFor
  <2>2. Charged(Now, p)' = Charged(Now', p)
    BY DEF Charged
  <2> QED BY <1>3, <2>1, <2>2, ChargedCount DEF PaysFor
<1>4. ASSUME AreasTyped(Now), AreasTyped(Now)', NEW p \in Pids, Kernel(p),
             ~CreateSpace(p)
      PROVE  Paid
  <2>1. ASSUME NEW m, PaysFor(Now, m), Become(m) PROVE Paid
    <3>1. PaysFor(Now, Now')
      BY <2>1 DEF PaysFor, Grows, PagesAdded, AreasOf, Charged, Become, Now
    <3> QED BY <1>3, <3>1
  <2>2. ASSUME NEW start \in Addresses, NEW size \in Sizes, NEW flags \in MapFlags,
               MapPages(p, start, size, flags)
        PROVE  Paid
    <3> DEFINE m == Mapped(Now, p, start, size, flags)
    <3>1. start \in Nat /\ size \in Nat /\ flags \in SUBSET {"w", "x"}
      BY MemoryAssumption
    <3>2. PaysFor(Now, m)
      BY <1>4, <3>1, MappedPays
    <3>3. Become(m)
      BY <2>2 DEF MapPages
    <3> HIDE DEF m, Paid
    <3> QED BY <2>1, <3>2, <3>3
  <2>3. CASE ElfLoad(p)
    <3> DEFINE m == Mapped(LoadedBss(Now, p), p, StackStart, StackSize, Data)
    <3>1. PaysFor(Now, m)
      BY <1>4, ElfPays
    <3>2. Become(m)
      BY <2>3 DEF ElfLoad
    <3> HIDE DEF m, Paid
    <3> QED BY <2>1, <3>1, <3>2
  <2>4. ASSUME NEW start \in Addresses, UnmapPages(p, start) PROVE Paid
    <3> DEFINE drop == {a \in ToSet(areas[p]) : a.start = start}
    <3>1. /\ p \in DOMAIN areas /\ areas' = [areas EXCEPT ![p] = Without(areas[p], drop)]
          /\ owner' = owner /\ areas[p] \in Seq(Region)
      BY <1>4, <2>4 DEF UnmapPages, Spaces, AreasTyped, Now
    <3> HIDE DEF drop
    <3>2. Len(Without(areas[p], drop)) <= Len(areas[p])
      BY <3>1, WithoutIsShorter
    <3>3. \A q : Len(AreasOf(Now', q)) <= Len(AreasOf(Now, q))
      <4> TAKE q
      <4>1. Len(AreasOf(Now, q)) \in Nat
        BY <1>4, EmptySeq, LenProperties DEF AreasOf, AreasTyped
      <4>2. CASE q = p
        BY <3>1, <3>2, <4>2 DEF AreasOf, Now
      <4>3. CASE q # p
        <5>1. AreasOf(Now', q) = AreasOf(Now, q)
          BY <3>1, <4>3 DEF AreasOf, Now
        <5> QED BY <4>1, <5>1
      <4> QED BY <4>2, <4>3
    <3>4. AreasTyped(Now') /\ Now'.owner = Now.owner
      BY <1>4, <3>1 DEF AreasTyped, Now
    <3>5. \A q : Charged(Now, q)' = Charged(Now', q)
      BY DEF Charged
    <3> QED BY <1>4, <3>3, <3>4, <3>5, StayingPays
  <2> HIDE DEF Paid
  <2> QED BY <1>4, <2>2, <2>3, <2>4 DEF Kernel
<1>5. ASSUME NEW q \in Pids, CreateSpace(q)
      PROVE  \A p \in Pids : Cardinality(Charged(Now, p)') - Cardinality(Charged(Now, p)) = 0
  <2>1. owner' = owner
    BY <1>5 DEF CreateSpace
  <2>2. \A p : Charged(Now, p)' = Charged(Now, p)
    BY <2>1 DEF Charged, Now
  <2> QED BY <2>2, ChargedCount
<1>6. AreasTyped(Now) /\ [Next]_memory =>
        [\A p \in Pids :
           Cardinality(Charged(Now, p)') - Cardinality(Charged(Now, p))
             = IF \E q \in Pids : CreateSpace(q) THEN 0
               ELSE Cardinality(PagesAdded(Now, Now', p))]_memory
  <2> SUFFICES ASSUME AreasTyped(Now), Next
               PROVE  \A p \in Pids :
                        Cardinality(Charged(Now, p)') - Cardinality(Charged(Now, p))
                          = IF \E q \in Pids : CreateSpace(q) THEN 0
                            ELSE Cardinality(PagesAdded(Now, Now', p))
    BY DEF memory
  <2>1. CASE \E q \in Pids : CreateSpace(q)
    BY <1>5, <2>1
  <2>2. CASE ~\E q \in Pids : CreateSpace(q)
    <3>1. AreasTyped(Now)'
      BY TakingMaps
    <3>2. Paid
      <4> HIDE DEF Paid
      <4> QED BY <1>4, <2>2, <3>1 DEF Next
    <3> QED BY <2>2, <3>2
  <2> QED BY <2>1, <2>2
<1> QED BY <1>1, <1>2, <1>6, PTL DEF Spec, FramesPayForAreas

----------------------------------------------------------------------------
(* No process has more mapped than it has paid for.                        *)

\* A page of an area is one of finitely many.
LEMMA PagesFinite ==
  ASSUME NEW list \in Seq(Region)
  PROVE  IsFiniteSet(PagesOf(list)) /\ Cardinality(PagesOf(list)) \in Nat
<1> DEFINE D == 1 .. Len(list)
           P(i) == {i} \X PagesBegun(list[i])
<1>1. Len(list) \in Nat /\ DOMAIN list = D /\ \A i \in D : list[i] \in Region
  BY LenProperties, ElementOfSeq
<1>2. IsFiniteSet(D)
  BY <1>1, FS_Interval
<1>3. ASSUME NEW i \in D PROVE IsFiniteSet(P(i))
  <2> DEFINE a == list[i]
  <2>1. a.end - a.start \in Int /\ PagesBegun(a) \subseteq 0 .. a.end - a.start
    BY <1>1 DEF PagesBegun, Region
  <2>2. IsFiniteSet(PagesBegun(a))
    <3> DEFINE e == a.end - a.start
    <3>1. e \in Int /\ PagesBegun(a) \subseteq 0 .. e
      BY <2>1
    <3> HIDE DEF e
    <3>2. IsFiniteSet(0 .. e)
      BY <3>1, FS_Interval
    <3> QED BY <3>1, <3>2, FS_Subset
  <2> QED BY <2>2, FS_Singleton, FS_Product
<1> DEFINE F == {P(i) : i \in D}
<1>4. IsFiniteSet(F) /\ \A T \in F : IsFiniteSet(T)
  <2>1. \A T \in F : IsFiniteSet(T)
    BY <1>3
  <2> DEFINE g == [i \in D |-> P(i)]
  <2>2. g \in Surjection(D, F)
    BY DEF Surjection
  <2>3. IsFiniteSet(F)
    <3> HIDE DEF F, D, g
    <3> QED BY <1>2, <2>2, FS_Surjection
  <2> QED BY <2>1, <2>3
<1>5. PagesOf(list) = UNION F
  BY <1>1 DEF PagesOf
<1> HIDE DEF F
<1> QED BY <1>4, <1>5, FS_UNION, FS_CardinalityType

\* Without some of its areas a list has no more pages: each keeps its pages in
\* the place its area came from.
LEMMA WithoutHasFewerPages ==
  ASSUME NEW q \in Seq(Region), NEW drop
  PROVE  Cardinality(PagesOf(Without(q, drop))) <= Cardinality(PagesOf(q))
<1> DEFINE r == Without(q, drop)
<1>1. PICK h : PicksOut(q, drop, Len(q), r, h)
  BY WithoutKeeps
<1>2. r \in Seq(Region)
  BY WithoutKeeps
<1> HIDE DEF r
<1>3. /\ Len(r) \in Nat /\ Len(q) \in Nat
      /\ DOMAIN r = 1 .. Len(r) /\ DOMAIN q = 1 .. Len(q)
  BY <1>2, LenProperties
<1>4. /\ h \in [1 .. Len(r) -> 1 .. Len(q)]
      /\ \A i, j \in 1 .. Len(r) : i < j => h[i] < h[j]
      /\ \A i \in 1 .. Len(r) : r[i] = q[h[i]]
  BY <1>1 DEF PicksOut
<1>5. \A i, j \in 1 .. Len(r) : h[i] = h[j] => i = j
  <2> TAKE i, j \in 1 .. Len(r)
  <2>1. i \in Int /\ j \in Int /\ h[i] \in Int /\ h[j] \in Int
    BY <1>3, <1>4
  <2>2. i < j \/ j < i \/ i = j
    BY <2>1
  <2> QED BY <1>4, <2>1, <2>2
<1> DEFINE g == [x \in PagesOf(r) |-> <<h[x[1]], x[2]>>]
<1>6. ASSUME NEW x \in PagesOf(r)
      PROVE  /\ x = <<x[1], x[2]>> /\ x[1] \in 1 .. Len(r)
             /\ x[2] \in PagesBegun(q[h[x[1]]]) /\ g[x] \in PagesOf(q)
  <2>1. PICK i \in 1 .. Len(r) : x \in {i} \X PagesBegun(r[i])
    BY <1>3 DEF PagesOf
  <2>2. x = <<x[1], x[2]>> /\ x[1] = i /\ x[2] \in PagesBegun(r[i])
    BY <2>1
  <2>3. h[i] \in DOMAIN q /\ r[i] = q[h[i]]
    BY <1>3, <1>4
  <2>4. <<h[i], x[2]>> \in {h[i]} \X PagesBegun(q[h[i]])
    BY <2>2, <2>3
  <2>5. <<h[i], x[2]>> \in PagesOf(q)
    BY <2>3, <2>4 DEF PagesOf
  <2> QED BY <2>2, <2>3, <2>5
<1>7. ASSUME NEW x \in PagesOf(r), NEW y \in PagesOf(r), g[x] = g[y]
      PROVE  x = y
  <2>1. h[x[1]] = h[y[1]] /\ x[2] = y[2]
    BY <1>7
  <2>2. x[1] = y[1]
    BY <1>5, <1>6, <2>1
  <2>3. x = <<x[1], x[2]>> /\ y = <<y[1], y[2]>>
    BY <1>6
  <2> QED BY <2>1, <2>2, <2>3
<1>8. g \in Injection(PagesOf(r), PagesOf(q))
  BY <1>6, <1>7 DEF Injection, IsInjective
<1> HIDE DEF g
<1> QED BY <1>8, PagesFinite, FS_Injection DEF r

\* AreasAreBacked, of any memory.
Backed(m) ==
  \A p \in Pids :
    Cardinality(PagesOf(AreasOf(m, p)))
      <= Cardinality(Charged(m, p)) + Cardinality(PagesOf(FreshAreas))

LEMMA AreasOfTyped ==
  ASSUME NEW m, AreasTyped(m), NEW p PROVE AreasOf(m, p) \in Seq(Region)
BY EmptySeq DEF AreasOf, AreasTyped

\* Mapping that pays keeps a memory backed.
LEMMA PayingIsBacked ==
  ASSUME NEW a, NEW b, AreasTyped(a), AreasTyped(b), PaysFor(a, b), Backed(a)
  PROVE  Backed(b)
<1> SUFFICES ASSUME NEW p \in Pids
             PROVE  Cardinality(PagesOf(AreasOf(b, p)))
                      <= Cardinality(Charged(b, p)) + Cardinality(PagesOf(FreshAreas))
  BY DEF Backed
<1> DEFINE u == AreasOf(a, p)
           v == AreasOf(b, p)
<1>1. u \in Seq(Region) /\ v \in Seq(Region)
  BY AreasOfTyped
<1>2. /\ Len(u) \in Nat /\ Len(v) \in Nat /\ Len(u) <= Len(v)
      /\ DOMAIN u = 1 .. Len(u) /\ DOMAIN v = 1 .. Len(v)
      /\ \A i \in 1 .. Len(u) : v[i] = u[i]
  BY <1>1, EmptySeq, LenProperties DEF AreasOf, PaysFor, Grows
<1>3. PagesAdded(a, b, p)
        = UNION {{i} \X PagesBegun(v[i]) : i \in Len(u) + 1 .. Len(v)}
  BY DEF PagesAdded
<1>4. /\ IsFiniteSet(PagesAdded(a, b, p)) /\ Cardinality(PagesAdded(a, b, p)) \in Nat
      /\ Cardinality(Charged(b, p))
           = Cardinality(Charged(a, p)) + Cardinality(PagesAdded(a, b, p))
  BY FS_CardinalityType DEF PaysFor
<1>5. /\ 1 .. Len(v) = (1 .. Len(u)) \cup (Len(u) + 1 .. Len(v))
      /\ (1 .. Len(u)) \cap (Len(u) + 1 .. Len(v)) = {}
  BY <1>2
<1> HIDE DEF u, v
<1>6. PagesOf(u) = UNION {{i} \X PagesBegun(v[i]) : i \in 1 .. Len(u)}
  BY <1>2 DEF PagesOf
<1>7. PagesOf(v) = PagesOf(u) \cup PagesAdded(a, b, p)
  BY <1>2, <1>3, <1>5, <1>6 DEF PagesOf
<1>8. PagesOf(u) \cap PagesAdded(a, b, p) = {}
  BY <1>3, <1>5, <1>6
<1>9. /\ IsFiniteSet(PagesOf(u)) /\ Cardinality(PagesOf(u)) \in Nat
      /\ Cardinality(PagesOf(FreshAreas)) \in Nat
  BY <1>1, PagesFinite, FreshTyped
<1>10. Cardinality(PagesOf(v)) = Cardinality(PagesOf(u)) + Cardinality(PagesAdded(a, b, p))
  BY <1>4, <1>7, <1>8, <1>9, ApartCount
<1>11. Cardinality(PagesOf(u)) <= Cardinality(Charged(a, p)) + Cardinality(PagesOf(FreshAreas))
  BY DEF Backed, u
<1> QED BY <1>4, <1>9, <1>10, <1>11, ChargedCount DEF v

\* Every operation of the kernel keeps the memory backed.
LEMMA BackedStep ==
  ASSUME AreasTyped(Now), Backed(Now), NEW p \in Pids, Kernel(p)
  PROVE  Backed(Now')
<1>1. AreasTyped(Now')
  <2>1. AreasTyped(Now)'
    BY TakingMaps DEF Next
  <2> QED BY <2>1 DEF AreasTyped
<1>2. ASSUME NEW m, PaysFor(Now, m), Become(m) PROVE Backed(Now')
  <2>1. PaysFor(Now, Now')
    BY <1>2 DEF PaysFor, Grows, PagesAdded, AreasOf, Charged, Become, Now
  <2> QED BY <1>1, <2>1, PayingIsBacked
\* Where no frame is charged anew and every list of areas has no more pages, or
\* is that of a new space, nothing is needed.
<1>3. ASSUME owner' = owner,
             \A q \in Pids :
               \/ AreasOf(Now', q) = FreshAreas
               \/ Cardinality(PagesOf(AreasOf(Now', q))) <= Cardinality(PagesOf(AreasOf(Now, q)))
      PROVE  Backed(Now')
  <2> SUFFICES ASSUME NEW q \in Pids
               PROVE  Cardinality(PagesOf(AreasOf(Now', q)))
                        <= Cardinality(Charged(Now', q)) + Cardinality(PagesOf(FreshAreas))
    BY DEF Backed
  <2>1. Charged(Now', q) = Charged(Now, q) /\ Cardinality(Charged(Now, q)) \in Nat
    BY <1>3, ChargedCount DEF Charged, Now
  <2>2. /\ Cardinality(PagesOf(FreshAreas)) \in Nat
        /\ Cardinality(PagesOf(AreasOf(Now, q))) \in Nat
        /\ Cardinality(PagesOf(AreasOf(Now', q))) \in Nat
    BY <1>1, AreasOfTyped, FreshTyped, PagesFinite
  <2>3. Cardinality(PagesOf(AreasOf(Now, q)))
          <= Cardinality(Charged(Now, q)) + Cardinality(PagesOf(FreshAreas))
    BY DEF Backed
  <2>4. CASE AreasOf(Now', q) = FreshAreas
    BY <2>1, <2>2, <2>4
  <2>5. CASE Cardinality(PagesOf(AreasOf(Now', q))) <= Cardinality(PagesOf(AreasOf(Now, q)))
    BY <2>1, <2>2, <2>3, <2>5
  <2> QED BY <1>3, <2>4, <2>5
<1>4. \A q \in Pids : Cardinality(PagesOf(AreasOf(Now, q))) \in Nat
  BY AreasOfTyped, PagesFinite
<1>5. CASE CreateSpace(p)
  <2>1. \A q \in Pids : AreasOf(Now', q) = IF q = p THEN FreshAreas ELSE AreasOf(Now, q)
    BY <1>5 DEF CreateSpace, AreasOf, Now, Spaces
  <2>2. ASSUME NEW q \in Pids, q # p
        PROVE  Cardinality(PagesOf(AreasOf(Now', q))) <= Cardinality(PagesOf(AreasOf(Now, q)))
    BY <1>4, <2>1, <2>2
  <2>3. owner' = owner
    BY <1>5 DEF CreateSpace
  <2> QED BY <1>3, <2>1, <2>2, <2>3
<1>6. ASSUME NEW start \in Addresses, UnmapPages(p, start) PROVE Backed(Now')
  <2> DEFINE drop == {a \in ToSet(areas[p]) : a.start = start}
  <2>1. /\ p \in DOMAIN areas /\ areas' = [areas EXCEPT ![p] = Without(areas[p], drop)]
        /\ owner' = owner /\ areas[p] \in Seq(Region)
    BY <1>6 DEF UnmapPages, Spaces, AreasTyped, Now
  <2> HIDE DEF drop
  <2>2. ASSUME NEW q \in Pids
        PROVE  Cardinality(PagesOf(AreasOf(Now', q))) <= Cardinality(PagesOf(AreasOf(Now, q)))
    <3>1. CASE q = p
      <4>1. AreasOf(Now', q) = Without(areas[p], drop) /\ AreasOf(Now, q) = areas[p]
        BY <2>1, <3>1 DEF AreasOf, Now
      <4> QED BY <2>1, <4>1, WithoutHasFewerPages
    <3>2. CASE q # p
      <4>1. AreasOf(Now', q) = AreasOf(Now, q)
        BY <2>1, <3>2 DEF AreasOf, Now
      <4> QED BY <1>4, <4>1
    <3> QED BY <3>1, <3>2
  <2> QED BY <1>3, <2>1, <2>2
<1>7. ASSUME NEW start \in Addresses, NEW size \in Sizes, NEW flags \in MapFlags,
             MapPages(p, start, size, flags)
      PROVE  Backed(Now')
  <2>1. start \in Nat /\ size \in Nat /\ flags \in SUBSET {"w", "x"}
    BY MemoryAssumption
  <2>2. PaysFor(Now, Mapped(Now, p, start, size, flags))
    BY <2>1, MappedPays
  <2> QED BY <1>2, <1>7, <2>2 DEF MapPages
<1>8. CASE ElfLoad(p)
  <2>1. PaysFor(Now, Mapped(LoadedBss(Now, p), p, StackStart, StackSize, Data))
    BY ElfPays
  <2> QED BY <1>2, <1>8, <2>1 DEF ElfLoad
<1> QED BY <1>5, <1>6, <1>7, <1>8 DEF Kernel

\* Whatever the processes map, unmap and load, and whichever allocations and
\* mappings of it fail, a frame in use belongs to a process that has an address
\* space, and no process has more pages mapped than frames charged, but for its
\* three free areas.
THEOREM MemorySafe == Spec => [](FramesHaveSpaces /\ AreasAreBacked)
<1> DEFINE Inv == FrameInv /\ AreasTyped(Now) /\ Backed(Now)
<1>1. Init => Inv
  <2> SUFFICES ASSUME Init PROVE Backed(Now) /\ AreasTyped(Now)
    BY FrameInvInit
  <2>1. AreasTyped(Now) /\ \A p : AreasOf(Now, p) = <<>>
    BY DEF Init, AreasTyped, AreasOf, Now
  <2>2. PagesOf(<<>>) = {}
    BY EmptySeq DEF PagesOf
  <2>3. \A p : Cardinality(PagesOf(AreasOf(Now, p))) = 0
    BY <2>1, <2>2, FS_EmptySet
  <2>4. \A p : Cardinality(Charged(Now, p)) \in Nat
    BY ChargedCount
  <2>5. Cardinality(PagesOf(FreshAreas)) \in Nat
    BY FreshTyped, PagesFinite
  <2> QED BY <2>1, <2>3, <2>4, <2>5 DEF Backed
<1>2. Inv /\ [Next]_memory => Inv'
  <2> SUFFICES ASSUME Inv, [Next]_memory PROVE Inv'
    OBVIOUS
  <2>1. CASE Next
    <3>1. PICK p \in Pids : Kernel(p)
      BY <2>1 DEF Next
    <3>2. FrameInv'
      BY <3>1, FrameInvStep
    <3>3. AreasTyped(Now)'
      BY <2>1, TakingMaps
    <3>4. Backed(Now')
      BY <3>1, BackedStep
    <3>5. Backed(Now)'
      BY <3>4 DEF Backed, AreasOf, Charged
    <3> QED BY <3>2, <3>3, <3>5
  <2>2. CASE UNCHANGED memory
    BY <2>2 DEF memory, FrameInv, Sound, Now, AreasTyped, Backed, AreasOf, Charged
  <2> QED BY <2>1, <2>2
<1>3. Inv => FramesHaveSpaces /\ AreasAreBacked
  BY DEF FrameInv, Sound, Now, FramesHaveSpaces, AreasAreBacked, Backed, Spaces
<1> QED BY <1>1, <1>2, <1>3, PTL DEF Spec

=============================================================================
