------------------------------- MODULE Memory --------------------------------
(***************************************************************************)
(* The allocator of memory_alloc.c: blocks are cut from one region and     *)
(* never freed.  On Linux the region is one huge page, whose physical      *)
(* address the driver gives to the devices.                                *)
(***************************************************************************)
EXTENDS Integers, Sequences, SequencesExt

CONSTANTS
  OS_MEMORY_SIZE,       \* bytes of the region
  HUGEPAGE_SIZE,
  SIZE_MAX,             \* the largest size_t
  VirtualPage, PhysicalPage     \* where the huge page is, in huge pages

CACHE_LINE_SIZE == 64
PAGE_SIZE       == 4096         \* what sysconf says

\* The static_assert of os_init; the page is neither NULL nor frame 0.
ASSUME MemoryAssumption ==
  /\ OS_MEMORY_SIZE \in Nat /\ HUGEPAGE_SIZE \in Nat /\ SIZE_MAX \in Nat
  /\ HUGEPAGE_SIZE >= OS_MEMORY_SIZE /\ HUGEPAGE_SIZE % PAGE_SIZE = 0
  /\ VirtualPage \in Nat \ {0} /\ PhysicalPage \in Nat \ {0}

memory == VirtualPage * HUGEPAGE_SIZE

\* A block is cut for count objects of some size.
Block(addr, count, size) == [addr |-> addr, count |-> count, size |-> size]

\* The region when os_init is done.
EmptyHeap == [used |-> 0, blocks |-> <<>>, halted |-> FALSE]

AlignDiv(size) == size + CACHE_LINE_SIZE - (size % CACHE_LINE_SIZE)

\* Mutated form of AlignPadding: the distance to the previous multiple.
AlignPadding_Back(addr, div) == addr % div

AlignPadding(addr, div) == IF addr % div = 0 THEN 0 ELSE div - (addr % div)

\* The program halts if a block does not fit.  The alignment is used up even
\* if the block then does not fit.
os_memory_alloc(heap, count, size) ==
  LET full_size == (count * size) % (SIZE_MAX + 1)
      padding   == AlignPadding(memory + heap.used, AlignDiv(size))
      used      == heap.used + padding
  IN  IF heap.halted THEN heap
      ELSE IF SIZE_MAX - CACHE_LINE_SIZE < size \/ padding > OS_MEMORY_SIZE - heap.used
      THEN [heap EXCEPT !.halted = TRUE]
      ELSE IF full_size > OS_MEMORY_SIZE - used
      THEN [heap EXCEPT !.halted = TRUE, !.used = used]
      ELSE [heap EXCEPT !.used = used + full_size,
                        !.blocks = Append(@, Block(memory + used, count, size))]

\* The result of the last call.
Result(heap) == Last(heap.blocks).addr

\* Calls in a row, each a pair of a count and a size.
AllocAll(heap, requests) ==
  LET after[k \in 0 .. Len(requests)] ==
        IF k = 0 THEN heap
        ELSE os_memory_alloc(after[k - 1], requests[k][1], requests[k][2])
  IN  after[Len(requests)]

descriptor_ring_alloc(heap, count) == os_memory_alloc(heap, count, 16)

agents_alloc(heap, count) == os_memory_alloc(heap, count, 64)

os_pci_enumerate(heap, count) == os_memory_alloc(heap, count, 8)

\* The frame that the kernel's page map has for a page: a huge page is
\* contiguous, and stays where it is.
Frame(page) ==
  page + (PhysicalPage - VirtualPage) * (HUGEPAGE_SIZE \div PAGE_SIZE)

os_memory_virt_to_phys(addr) ==
  Frame(addr \div PAGE_SIZE) * PAGE_SIZE + (addr % PAGE_SIZE)

-----------------------------------------------------------------------------

\* The contract of memory.h: a block is within the region, shares nothing with
\* those before it, has room for what was asked for, which size_t can count,
\* is aligned, and is as contiguous for a device as it is for the program.
KeepsContract(heap) ==
  \A i \in 1 .. Len(heap.blocks) :
    LET b   == heap.blocks[i]
        end == b.addr + b.count * b.size
    IN  /\ b.count * b.size <= SIZE_MAX
        /\ b.addr >= (IF i = 1 THEN memory
                      ELSE heap.blocks[i - 1].addr
                           + heap.blocks[i - 1].count * heap.blocks[i - 1].size)
        /\ end <= memory + OS_MEMORY_SIZE
        /\ b.addr % AlignDiv(b.size) = 0
        /\ os_memory_virt_to_phys(end) - os_memory_virt_to_phys(b.addr) = end - b.addr

=============================================================================
