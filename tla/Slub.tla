------------------------------- MODULE Slub --------------------------------
(***************************************************************************)
(* The allocator module/mm/slub.c: for each processor and size class a     *)
(* list of free objects, cut from pages of the heap, and four bits a page  *)
(* in page_bits that tell yaos_mfree what an address is.                   *)
(*                                                                         *)
(* The heap below (yaos_heap_alloc_4k, module KHeap) is taken as a set of  *)
(* free pages.  An address is a number of units.  A call is cut where      *)
(* another processor or an interrupt can see it half done: between load    *)
(* and store of page_bits[] |= ..., two pages in a byte, and between load  *)
(* and store of freehead.  A softirq that allocates (set_timeout does)     *)
(* interrupts a call and runs to its end.                                  *)
(*                                                                         *)
(* mishap is history: what has happened that the allocator does not stand: *)
(* "straddle" (the last object of a page reaches into the next one),       *)
(* "reused" (bits are never cleared, and a page that was part of a large   *)
(* block keeps them, under a new use or behind a shorter block), "lost     *)
(* bits" (two processors store the same byte), "nested" (a softirq's call  *)
(* in the middle of one on the same list).  No call begins after one.      *)
(***************************************************************************)
EXTENDS Integers, Sequences, FiniteSets, FiniteSetsExt, SequencesExt

CONSTANTS
  CPUs,
  PAGE,        \* PAGE_4K_SIZE, in units
  Pages,       \* the pages of the heap, 0..(n - 1)
  Classes,     \* the size classes in use, indices below LARGE_NEXT
  Size,        \* their sizes, in units
  LargeSizes,  \* the pages of large requests
  MaxCalls     \* bound: calls made

\* What is assumed of the constants.
SlubAssumption ==
  /\ PAGE \in Nat \ {0} /\ MaxCalls \in Nat
  /\ Classes \subseteq 1..12 /\ Size \in [Classes -> 1..PAGE]
  /\ Pages \subseteq Nat /\ Pages = 0..Max(Pages)

VARIABLES
  heap,       \* the free pages of the heap
  page_bits,  \* the set of bits of each page
  freehead,   \* the list of each processor and class, first object first
  cpu,        \* what each processor is doing
  live,       \* the blocks handed out: [addr, units]
  calls,
  mishap

vars == <<heap, page_bits, freehead, cpu, live, calls, mishap>>

LARGE_IDX == 15
LARGE_NEXT == 14

\* An index of four bits as the set of its bits.
Bits(idx) == {b \in 0..3 : (idx \div 2^b) % 2 = 1}

\* The other page of the byte.
Sibling(p) == IF p % 2 = 0 THEN p + 1 ELSE p - 1

Page(addr) == addr \div PAGE

-----------------------------------------------------------------------------
\* The size classes

size_index == <<3, 4, 5, 5, 6, 6, 6, 6, 1, 1, 1, 1, 7, 7, 7, 7, 2, 2, 2, 2, 2, 2, 2, 2>>

\* The sizes of kmalloc_info up to the largest class of a slab.
kmalloc_info == <<96, 192, 8, 16, 32, 64, 128, 256, 512, 1024, 2048, 4096>>

\* The highest bit of n, counted from one.
fls(n) == IF n = 0 THEN 0 ELSE Max({k \in 1..30 : 2^(k - 1) <= n})

\* Mutant: the table is entered one byte too late.
kmalloc_slabLate(size) ==
  IF size <= 192 THEN size_index[(size \div 8) + 1] ELSE fls(size - 1)

\* kmalloc_slab for the sizes 1 to KMALLOC_MAX_CACHE_SIZE.
kmalloc_slab(size) ==
  IF size <= 192 THEN size_index[((size - 1) \div 8) + 1] ELSE fls(size - 1)

\* kmalloc_index of slub.h, for the same sizes.
kmalloc_index(size) ==
  IF size <= 8 THEN 3
  ELSE IF size > 64 /\ size <= 96 THEN 1
  ELSE IF size > 128 /\ size <= 192 THEN 2
  ELSE Min({k \in 3..12 : size <= 2^k})

\* The bytes of page_bits that init_slub_bp allocates for a memory of maxaddr
\* bytes: four bits a page and one byte more, up to the end of a page.
PAGE_4K_SIZE == 4096
init_slub_bp(maxaddr) ==
  LET size == ((maxaddr \div PAGE_4K_SIZE) \div 2) + 1
  IN  size + ((-size) % PAGE_4K_SIZE)

-----------------------------------------------------------------------------
idle == [pc |-> "idle"]

Init ==
  /\ heap = Pages
  /\ page_bits = [p \in Pages |-> {}]
  /\ freehead = [c \in CPUs |-> [i \in Classes \cup {0, LARGE_NEXT} |-> <<>>]]
  /\ cpu = [c \in CPUs |-> idle]
  /\ live = {}
  /\ calls = 0
  /\ mishap = {}

\* The objects slub_add_page links in a page: those that begin in it.
Objects(p, idx) ==
  [k \in 1..((PAGE + Size[idx] - 1) \div Size[idx]) |-> p * PAGE + (k - 1) * Size[idx]]

\* The last object reaches into the next page.
Straddles(idx) == PAGE % Size[idx] # 0

Call(c) == cpu[c].pc = "idle" /\ calls < MaxCalls /\ mishap = {} /\ calls' = calls + 1

\* slub_malloc of a class, __kmalloc: the list may be empty and the heap too.
slub_malloc(c, idx) ==
  /\ Call(c)
  /\ IF freehead[c][idx] # <<>>
     THEN /\ cpu' = [cpu EXCEPT ![c] = [pc |-> "freehead", idx |-> idx,
                                        value |-> Tail(freehead[c][idx]),
                                        get |-> {[addr |-> Head(freehead[c][idx]), units |-> Size[idx]]}]]
          /\ UNCHANGED <<heap, freehead, mishap>>
     ELSE IF heap = {} THEN UNCHANGED <<heap, freehead, cpu, mishap>>
     ELSE \E p \in heap :
            /\ heap' = heap \ {p}
            /\ freehead' = [freehead EXCEPT ![c][idx] = Objects(p, idx)]
            /\ cpu' = [cpu EXCEPT ![c] = [pc |-> "load", todo |-> <<[page |-> p, bits |-> Bits(idx)]>>,
                                          idx |-> idx, get |-> {}]]
            /\ mishap' = IF Straddles(idx) THEN {"straddle"} ELSE {}
  /\ UNCHANGED <<page_bits, live>>

\* Mutant: only the first page of a large block is marked.
LargeMarksFirst(p, n) == <<[page |-> p, bits |-> Bits(LARGE_IDX)]>>

\* What __kmalloc_large writes to page_bits for the n pages from p.
LargeMarks(p, n) ==
  [k \in 1..n |-> [page |-> p + k - 1, bits |-> Bits(IF k = 1 THEN LARGE_IDX ELSE LARGE_NEXT)]]

\* slub_malloc of more than KMALLOC_MAX_CACHE_SIZE: __kmalloc_large.
kmalloc_large(c, n) ==
  /\ Call(c)
  /\ LET at == {p \in Pages : p..(p + n - 1) \subseteq heap}
     IN  IF at = {} THEN UNCHANGED <<heap, cpu>>
         ELSE \E p \in at :
                /\ heap' = heap \ (p..(p + n - 1))
                /\ cpu' = [cpu EXCEPT ![c] = [pc |-> "load", todo |-> LargeMarks(p, n), idx |-> LARGE_IDX,
                                              get |-> {[addr |-> p * PAGE, units |-> n * PAGE]}]]
  /\ UNCHANGED <<page_bits, freehead, live, mishap>>

\* The load of page_bits[offset / 2] |= ..., of both pages of the byte,
LoadBits(c) ==
  /\ cpu[c].pc = "load"
  /\ LET p == Head(cpu[c].todo).page
     IN  cpu' = [cpu EXCEPT ![c] = [pc |-> "store", todo |-> cpu[c].todo, idx |-> cpu[c].idx,
                                    get |-> cpu[c].get,
                                    own |-> page_bits[p],
                                    other |-> IF Sibling(p) \in Pages THEN page_bits[Sibling(p)] ELSE {}]]
  /\ UNCHANGED <<heap, page_bits, freehead, live, calls, mishap>>

\* and its store; after the last one the call goes on, to ASSERT(pfree) if a
\* softirq has emptied the list.
StoreBits(c) ==
  /\ cpu[c].pc = "store"
  /\ LET mark == Head(cpu[c].todo)
         p == mark.page
         q == Sibling(p)
         rest == Tail(cpu[c].todo)
         idx == cpu[c].idx
     IN  /\ page_bits' = [i \in Pages |-> IF i = p THEN cpu[c].own \cup mark.bits
                                         ELSE IF i = q THEN cpu[c].other ELSE page_bits[i]]
         /\ mishap' = mishap
              \cup (IF \/ cpu[c].own \cup mark.bits # mark.bits
                       \/ idx = LARGE_IDX /\ rest = <<>> /\ p + 1 \in Pages
                            /\ page_bits[p + 1] = Bits(LARGE_NEXT)
                     THEN {"reused"} ELSE {})
              \cup (IF q \in Pages /\ page_bits[q] # cpu[c].other THEN {"lost bits"} ELSE {})
         /\ cpu' = [cpu EXCEPT ![c] =
              IF rest # <<>> THEN [pc |-> "load", todo |-> rest, idx |-> idx, get |-> cpu[c].get]
              ELSE IF idx = LARGE_IDX THEN idle
              ELSE IF freehead[c][idx] = <<>> THEN [pc |-> "assert", idx |-> idx]
              ELSE [pc |-> "freehead", idx |-> idx, value |-> Tail(freehead[c][idx]),
                    get |-> {[addr |-> Head(freehead[c][idx]), units |-> Size[idx]]}]]
         /\ live' = IF rest = <<>> /\ idx = LARGE_IDX THEN live \cup cpu[c].get ELSE live
  /\ UNCHANGED <<heap, freehead, calls>>

\* The store to freehead that ends __kmalloc and __kmfree.
StoreHead(c) ==
  /\ cpu[c].pc = "freehead"
  /\ freehead' = [freehead EXCEPT ![c][cpu[c].idx] = cpu[c].value]
  /\ live' = live \cup cpu[c].get
  /\ cpu' = [cpu EXCEPT ![c] = idle]
  /\ UNCHANGED <<heap, page_bits, calls, mishap>>

-----------------------------------------------------------------------------
\* get_cache_from_addr: the bits of the page.
get_cache_from_addr(addr) == {i \in 0..15 : Bits(i) = page_bits[Page(addr)]}

\* The pages __kmfree counts from the first one of a large block.
LargePages(p) ==
  LET ends == {q \in Pages : q > p /\ page_bits[q] # Bits(LARGE_NEXT)} \cup {Max(Pages) + 1}
  IN  p..(Min(ends) - 1)

\* slub_mfree, __kmfree of a block handed out, on any processor.
slub_mfree(c, b) ==
  /\ Call(c)
  /\ live' = live \ {b}
  /\ \E idx \in get_cache_from_addr(b.addr) :
       IF idx = LARGE_IDX
       THEN /\ heap' = heap \cup LargePages(Page(b.addr))
            /\ UNCHANGED <<freehead, cpu>>
       ELSE /\ cpu' = [cpu EXCEPT ![c] = [pc |-> "freehead", idx |-> idx, get |-> {},
                                          value |-> <<b.addr>> \o freehead[c][idx]]]
            /\ UNCHANGED <<heap, freehead>>
  /\ UNCHANGED <<page_bits, mishap>>

\* A softirq allocates from a list that is not empty, while the processor it
\* interrupts is in a call.  When that call is about the same list, it takes
\* the object the call has seen too, or one whose page has no bits yet.
softirq_malloc(c, idx) ==
  /\ cpu[c].pc # "idle" /\ calls < MaxCalls /\ mishap = {}
  /\ freehead[c][idx] # <<>>
  /\ calls' = calls + 1
  /\ freehead' = [freehead EXCEPT ![c][idx] = Tail(freehead[c][idx])]
  /\ live' = live \cup {[addr |-> Head(freehead[c][idx]), units |-> Size[idx]]}
  /\ mishap' = IF cpu[c].idx = idx THEN {"nested"} ELSE {}
  /\ UNCHANGED <<heap, page_bits, cpu>>

Next ==
  \E c \in CPUs :
    \/ \E idx \in Classes : slub_malloc(c, idx) \/ softirq_malloc(c, idx)
    \/ \E n \in LargeSizes : kmalloc_large(c, n)
    \/ \E b \in live : slub_mfree(c, b)
    \/ LoadBits(c) \/ StoreBits(c) \/ StoreHead(c)

\* A processor finishes the call it is in.
Spec == Init /\ [][Next]_vars /\ \A c \in CPUs : WF_vars(LoadBits(c) \/ StoreBits(c) \/ StoreHead(c))

-----------------------------------------------------------------------------
\* Properties

Span(b) == b.addr..(b.addr + b.units - 1)

\* Unless one of the mishaps has happened, no two blocks handed out by
\* slub_malloc, to whatever processor, overlap; none reaches into a page that
\* is free in the heap, and none holds an object of a free list.
BlocksDisjoint ==
  mishap = {} =>
    /\ \A b, d \in live : b # d => Span(b) \cap Span(d) = {}
    /\ \A b \in live : {Page(a) : a \in Span(b)} \cap heap = {}
    /\ \A b \in live, c \in CPUs, i \in Classes :
         (cpu[c].pc # "freehead" \/ cpu[c].idx # i) => Span(b) \cap Range(freehead[c][i]) = {}

\* Unless one of the mishaps has happened, a page out of the heap that no
\* call is working on is accounted for: its bits say what it holds, and it
\* holds objects of that class, live or free, or is part of a large block.
PagesAccounted ==
  (mishap = {} /\ \A c \in CPUs : cpu[c].pc = "idle") =>
    \A p \in Pages \ heap :
      \/ \E i \in Classes :
           /\ page_bits[p] = Bits(i)
           /\ \A o \in Range(Objects(p, i)) :
                \/ [addr |-> o, units |-> Size[i]] \in live
                \/ \E c \in CPUs : o \in Range(freehead[c][i])
      \/ \E b \in live : b.units >= PAGE /\ p * PAGE \in Span(b)

\* Unless one of the mishaps has happened, __kmfree finds a class or a large
\* block for what is freed, and frees a large block whole.
FreeFindsBlock ==
  mishap = {} =>
    \A b \in live :
      IF b.units > PAGE
      THEN /\ get_cache_from_addr(b.addr) = {LARGE_IDX}
           /\ \A p \in LargePages(Page(b.addr)) : p * PAGE \in Span(b)
           /\ Cardinality(LargePages(Page(b.addr))) = b.units \div PAGE
      ELSE \E i \in Classes : get_cache_from_addr(b.addr) = {i} /\ Size[i] = b.units

\* For every size the class of kmalloc_slab is the one kmalloc_index says, it
\* is large enough, and no class that is large enough is smaller.  What
\* init_slub_bp allocates has a byte for every page below the end of memory
\* and for the one behind it, which __kmfree looks at, in whole pages of which none is to spare.
SizesFit ==
  \A size \in 1..4096 :
    LET idx == kmalloc_slab(size) IN
    /\ idx = kmalloc_index(size)
    /\ kmalloc_info[idx] >= size
    /\ \A i \in 1..12 : kmalloc_info[i] >= size => kmalloc_info[i] >= kmalloc_info[idx]
    /\ LET room == init_slub_bp(size * PAGE_4K_SIZE)
       IN  size \div 2 \in 0..(room - 1) /\ room % PAGE_4K_SIZE = 0
             /\ room <= (size \div 2) + PAGE_4K_SIZE
=============================================================================
