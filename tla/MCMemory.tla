------------------------------ MODULE MCMemory ------------------------------
(* One of the allocators, or the threads that run on what they hand out.     *)
(* The boot heap: two processors, one region of its 4k (4 units; a small     *)
(* request is under 4) and one physical page of 2M (8 units).  The slub      *)
(* allocator: two processors and four pages of eight units, with a class of  *)
(* half a page and one of a page, as kmalloc-2048 and kmalloc-4096, and one  *)
(* that does not divide the page, as kmalloc-96 and kmalloc-192; or only its *)
(* tables of sizes.  Virtual memory: two processors, five linear and four    *)
(* physical pages.  The allocator of user programs, with requests of one and *)
(* of two units beside the header.  Three threads, with every way to give    *)
(* them the levels 1 to 3 and the idle thread behind them.                   *)
EXTENDS KHeap, VM, Threads, TLC

CONSTANTS Pages, Classes, Size, LargeSizes, MaxCalls

VARIABLES
  part,                                                 \* what is looked at
  heap, page_bits, freehead, cpu, live, calls, mishap,  \* of Slub
  hdr, freep, brk, held                                 \* of UMalloc

S == INSTANCE Slub
User == INSTANCE UMalloc WITH HeapEnd <- 8, MINUNITS <- 4, Requests <- {1, 17}

svars == <<heap, page_bits, freehead, cpu, live, calls, mishap>>
uvars == <<hdr, freep, brk, held>>
MCvars == <<part, svars, khvars, vmvars, uvars, tvars>>

ASSUME KHeapAssumption /\ S!SlubAssumption /\ VMAssumption /\ ThreadsAssumption

OneRegion == {<<8, 4>>}
MCSize == [i \in Classes |-> IF i = 12 THEN 8 ELSE IF i = 11 THEN 4 ELSE 6]
MCLvls == {f \in [All -> 1..4] : f[Idle] = 4 /\ \A t \in Threads : f[t] < 4}
MCSymmetry == Permutations(CPUs)

MCInit ==
  /\ S!Init /\ KHeapInit /\ VMInit /\ User!UMallocInit /\ ThreadsInit
  /\ \/ part = "threads"
     \/ part \in {"kheap", "slub", "vm", "umalloc", "sizes"} /\ \A t \in Threads : lvl[t] = 1

\* The calls of the slub allocator and of the program are bounded, vm.c may
\* stop with its lock, and threads with an assertion; the boot heap stops only
\* in a panic.
MCNext ==
  /\ UNCHANGED part
  /\ \/ part = "kheap" /\ KHeapNext /\ UNCHANGED <<svars, vmvars, uvars, tvars>>
     \/ part = "slub" /\ S!Next /\ UNCHANGED <<khvars, vmvars, uvars, tvars>>
     \/ part = "vm" /\ VMNext /\ UNCHANGED <<svars, khvars, uvars, tvars>>
     \/ part = "umalloc" /\ User!UMallocNext /\ UNCHANGED <<svars, khvars, vmvars, tvars>>
     \/ part = "threads" /\ ThreadsNext /\ UNCHANGED <<svars, khvars, vmvars, uvars>>
     \/ (part = "kheap" => Panicked) /\ UNCHANGED MCvars

MCSpec == MCInit /\ [][MCNext]_MCvars
-----------------------------------------------------------------------------
\* slub.c, unless one of the mishaps has happened: blocks are disjoint, every
\* page is accounted for by its bits, and __kmfree finds what it frees.
SlubSafe == part = "slub" => S!BlocksDisjoint /\ S!PagesAccounted /\ S!FreeFindsBlock

\* slub.c and slub.h agree on the class of every size, the tightest one, and
\* page_bits is large enough.
ClassesFit == part = "sizes" => S!SizesFit

\* umalloc.c: the blocks of a program and its free blocks are apart, and no
\* two free blocks are neighbours.
UserHeapPartitioned == part = "umalloc" => User!HeapPartitioned
=============================================================================
