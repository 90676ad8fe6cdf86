------------------------------- MODULE Memory -------------------------------
(***************************************************************************)
(* computekernel_edu/memory.py, the physical frames and the address        *)
(* spaces, and the ELF loader that maps an image into a space.             *)
(*                                                                         *)
(* The names of areas are left out, and of their flags r, which nothing    *)
(* asks for.  Addresses and sizes are in bytes, so that a page is rounded  *)
(* up as in the code.  Next is what the kernel and its system calls do;    *)
(* ApiNext adds the operations that only tests call.                       *)
(***************************************************************************)
EXTENDS Integers, Sequences, FiniteSets, SequencesExt, Lists

CONSTANTS
  Pids,         \* the processes
  NumFrames,    \* PhysicalMemoryManager.total_pages
  PageSize,
  TextStart, DataStart, BssStart, StackStart,   \* the fixed addresses
  StackSize,
  Addresses,    \* where a process asks for a mapping
  Sizes,        \* the sizes it asks for
  MapFlags,     \* the flags it asks for
  MaxAreas,     \* bound on the areas of a space
  NoOwner          \* the owner of a frame that is not in use

ASSUME MemoryAssumption ==
  /\ NumFrames \in Nat /\ PageSize \in Nat \ {0} /\ StackSize \in Nat \ {0}
  /\ {TextStart, DataStart, BssStart, StackStart} \subseteq Nat
  /\ Addresses \subseteq Nat /\ Sizes \subseteq Nat
  /\ MapFlags \subseteq SUBSET {"w", "x"}
  /\ NoOwner \notin Pids

VARIABLES
  owner,        \* Page.owner_pid of the frames in use
  areas         \* address_spaces: the areas of the pids that have a space

memory == <<owner, areas>>

Frame == 0 .. NumFrames - 1
Area  == {a \in [start : Nat, end : Nat, flags : SUBSET {"w", "x"}] : a.start < a.end}

AreaAt(start, size, flags) == [start |-> start, end |-> start + size, flags |-> flags]

Code == {"x"}           \* the flags r-x
Data == {"w"}           \* the flags rw-

Spaces    == DOMAIN areas
Unused(o) == {f \in Frame : o[f] = NoOwner}

Init ==
  /\ owner = [f \in Frame |-> NoOwner]
  /\ areas = <<>>

----------------------------------------------------------------------------
(* Physical frames.                                                        *)

\* Mutant: in_use is not tested.
LowestAny(o, n) == {f \in Frame : f < n}

\* The frames n calls of alloc_page find: each takes the lowest one unused.
Lowest(o, n) == {f \in Unused(o) : Cardinality({g \in Unused(o) : g < f}) < n}

\* Mutant: what was allocated before memory ran out is kept.
EnoughOrNot(o, n) == TRUE

Enough(o, n) == Cardinality(Unused(o)) >= n

\* alloc_pages: when memory runs out, what was allocated is freed again.
Allocated(o, n, pid) ==
  LET taken == IF Enough(o, n) THEN Lowest(o, n) ELSE {}
  IN  [f \in Frame |-> IF f \in taken THEN pid ELSE o[f]]

----------------------------------------------------------------------------
(* Address spaces.                                                         *)

\* create_address_space: three areas that no frame backs, in place of the
\* space the pid had, if any.
FreshAreas == << AreaAt(TextStart, PageSize, Code), AreaAt(DataStart, PageSize, Data),
                 AreaAt(StackStart, StackSize, Data) >>

Pages(size) == (size + PageSize - 1) \div PageSize

\* map_pages succeeds.  No pages look like a failed allocation to it.
CanMap(m, p, size) ==
  p \in DOMAIN m.areas /\ Pages(size) > 0 /\ Enough(m.owner, Pages(size))

\* Mutant: a new area goes before the others.
WithAreaFirst(list, area) == <<area>> \o list

\* AddressSpace.map.
WithArea(list, area) == Append(list, area)

\* map_pages on the memory m.  When it fails nothing changes.
Mapped(m, p, start, size, flags) ==
  IF CanMap(m, p, size)
  THEN [owner |-> Allocated(m.owner, Pages(size), p),
        areas |-> [m.areas EXCEPT ![p] = WithArea(@, AreaAt(start, size, flags))]]
  ELSE m

Now       == [owner |-> owner, areas |-> areas]
Become(m) == owner' = m.owner /\ areas' = m.areas

CreateSpace(p) ==
  /\ areas' = [q \in Spaces \cup {p} |-> IF q = p THEN FreshAreas ELSE areas[q]]
  /\ UNCHANGED owner

\* Bounds the model: the code has no limit on areas.
RoomFor(p, n) == p \in Spaces => Len(areas[p]) + n <= MaxAreas

MapPages(p, start, size, flags) ==
  RoomFor(p, 1) /\ Become(Mapped(Now, p, start, size, flags))

\* Mutant: unmapping gives back the frames of the process, those of the areas
\* it keeps included.
UnmapFreeing(p, start) ==
  /\ p \in Spaces
  /\ areas' = [areas EXCEPT ![p] = Without(@, {a \in ToSet(@) : a.start = start})]
  /\ owner' = [f \in Frame |->
                 IF owner[f] = p /\ areas' # areas THEN NoOwner ELSE owner[f]]

\* unmap_pages: every area that starts there leaves; their frames do not.
UnmapPages(p, start) ==
  /\ p \in Spaces
  /\ areas' = [areas EXCEPT ![p] = Without(@, {a \in ToSet(@) : a.start = start})]
  /\ UNCHANGED owner

LoadedText(m, p) == Mapped(m, p, TextStart, PageSize, Code)
LoadedData(m, p) == Mapped(LoadedText(m, p), p, DataStart, PageSize, Data)
LoadedBss(m, p)  == Mapped(LoadedData(m, p), p, BssStart, PageSize, Data)

\* ElfLoader.load of the image make_simple builds: the three segments, then
\* the stack.  Every failure to map is ignored.
ElfLoad(p) ==
  /\ p \in Spaces /\ RoomFor(p, 4)
  /\ Become(Mapped(LoadedBss(Now, p), p, StackStart, StackSize, Data))

\* Only tests and an embedding program call these.
DestroySpace(p)  == areas' = Restrict(areas, Spaces \ {p}) /\ UNCHANGED owner
AllocPages(p, n) == owner' = Allocated(owner, n, p) /\ UNCHANGED areas
FreePage(f)      == owner' = [owner EXCEPT ![f] = NoOwner] /\ UNCHANGED areas

Kernel(p) ==
  \/ CreateSpace(p)
  \/ \E start \in Addresses, size \in Sizes, flags \in MapFlags :
       MapPages(p, start, size, flags)
  \/ \E start \in Addresses : UnmapPages(p, start)
  \/ ElfLoad(p)

Next == \E p \in Pids : Kernel(p)

ApiNext ==
  \/ Next
  \/ \E p \in Pids : DestroySpace(p)
  \/ \E p \in Pids, n \in 0 .. NumFrames + 1 : AllocPages(p, n)
  \/ \E f \in Frame : FreePage(f)

Spec    == Init /\ [][Next]_memory
ApiSpec == Init /\ [][ApiNext]_memory

----------------------------------------------------------------------------
(* What a space allows.                                                    *)

\* The areas that contain an address; lookup finds the first of them.
Containing(p, addr) ==
  {i \in DOMAIN areas[p] : areas[p][i].start <= addr /\ addr < areas[p][i].end}

IsMapped(p, addr) == p \in Spaces /\ Containing(p, addr) # {}

Lookup(p, addr) ==
  areas[p][CHOOSE i \in Containing(p, addr) : \A j \in Containing(p, addr) : i <= j]

\* check_access of an access that needs these flags.
CheckAccess(p, addr, needs) == IsMapped(p, addr) /\ needs \subseteq Lookup(p, addr).flags

\* simulate_page_fault, its answer without the wording.
PageFault(p, addr, write) ==
  CASE p \notin Spaces                    -> "no space"
    [] p \in Spaces /\ ~IsMapped(p, addr) -> "SIGSEGV"
    [] write /\ IsMapped(p, addr) /\ "w" \notin Lookup(p, addr).flags -> "protection"
    [] OTHER                              -> "satisfied"

\* Whatever is mapped over it, an address that has an area keeps what that
\* area allows: only unmapping and a new space change it.  (A step that
\* takes frames is one that maps.)
AccessStays ==
  [][owner' # owner =>
       \A p \in Spaces, addr \in Addresses : IsMapped(p, addr) =>
         /\ \A needs \in SUBSET {"w", "x"} :
              CheckAccess(p, addr, needs)' = CheckAccess(p, addr, needs)
         /\ \A write \in BOOLEAN : PageFault(p, addr, write)' = PageFault(p, addr, write)]_memory

----------------------------------------------------------------------------
\* The shape of the page array and of the address spaces.
TypeOK ==
  /\ owner \in [Frame -> Pids \cup {NoOwner}]
  /\ Spaces \subseteq Pids
  /\ \A p \in Spaces : areas[p] \in Seq(Area)

\* A frame in use belongs to a process that has an address space: nothing is
\* charged to a pid that map_pages has refused.
FramesHaveSpaces == \A f \in Frame : owner[f] # NoOwner => owner[f] \in Spaces

\* A frame in use never passes to another process; it is freed first.
FramesNeverStolen ==
  [][\A f \in Frame : owner[f] # NoOwner => owner'[f] \in {owner[f], NoOwner}]_memory

\* The areas of a process, the frames charged to it, and the pages that begin
\* in an area, by number.
AreasOf(m, p) == IF p \in DOMAIN m.areas THEN m.areas[p] ELSE <<>>
Charged(m, p) == {f \in Frame : m.owner[f] = p}
PagesBegun(a) == {k \in 0 .. a.end - a.start : a.start + k * PageSize < a.end}

\* The pages of a list of areas, each by its area and its number in it.
PagesOf(list) == UNION {{i} \X PagesBegun(list[i]) : i \in DOMAIN list}

\* Memory is never overcommitted: apart from the three areas that a new space
\* gets for nothing, a process has no more pages mapped than frames charged,
\* whatever it maps, unmaps and loads in between and whichever of it fails.
\* (More frames than pages it may have: unmapping gives none back.)
AreasAreBacked ==
  \A p \in Pids :
    Cardinality(PagesOf(AreasOf(Now, p)))
      <= Cardinality(Charged(Now, p)) + Cardinality(PagesOf(FreshAreas))

\* The pages of the areas that the memory n has behind those of m.
PagesAdded(m, n, p) ==
  UNION {{i} \X PagesBegun(AreasOf(n, p)[i]) :
           i \in Len(AreasOf(m, p)) + 1 .. Len(AreasOf(n, p))}

\* The frames a step charges to a process are exactly the pages of the areas
\* it adds, whichever of the mappings of an image found no memory.  A new space
\* costs nothing and gives nothing back, whatever the pid had before.
FramesPayForAreas ==
  [][\A p \in Pids :
       Cardinality(Charged(Now, p)') - Cardinality(Charged(Now, p))
         = IF \E q \in Pids : CreateSpace(q) THEN 0
           ELSE Cardinality(PagesAdded(Now, Now', p))]_memory
=============================================================================
