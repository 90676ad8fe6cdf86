----------------------------- MODULE KernelHeap -----------------------------
(***************************************************************************)
(* KmallocAllocator of memory.py, as operators on a record of the next     *)
(* address and of the sizes of the blocks handed out, by their addresses.  *)
(***************************************************************************)
EXTENDS Integers

CONSTANT HeapBase       \* KERNEL_BASE + 0x1000000

ASSUME HeapBaseAssumption == HeapBase \in Nat /\ HeapBase % 16 = 0

NewHeap == [next |-> HeapBase, blocks |-> [a \in {} |-> 0]]

\* Mutant: rounded down.
RoundedDown(size) == (size \div 16) * 16

Rounded(size) == ((size + 15) \div 16) * 16

\* alloc, of a size that is not refused: the address is h.next, and no address
\* is used again.
Kmalloc(h, size) ==
  [next   |-> h.next + Rounded(size),
   blocks |-> [a \in DOMAIN h.blocks \cup {h.next} |->
                 IF a = h.next THEN size ELSE h.blocks[a]]]

\* free; of an address that is not handed out it only warns.
Kfree(h, addr) ==
  [h EXCEPT !.blocks = [a \in DOMAIN h.blocks \ {addr} |-> h.blocks[a]]]

----------------------------------------------------------------------------
\* The blocks are aligned, lie apart and below the next address.
BlocksApart(h) ==
  \A a \in DOMAIN h.blocks :
    /\ a % 16 = 0 /\ HeapBase <= a /\ a + h.blocks[a] <= h.next
    /\ \A b \in DOMAIN h.blocks : a < b => a + h.blocks[a] <= b
=============================================================================
