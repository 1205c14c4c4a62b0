--------------------------------- MODULE VM ---------------------------------
(***************************************************************************)
(* Virtual memory blocks and stacks, kernel/vm.c, over the physical pages  *)
(* of phymem.c and the page table entries of pgtable.c.                    *)
(*                                                                         *)
(* Addresses are page numbers; sizes are in half pages, since the loops    *)
(* compare bytes.  The list of linear regions is a sequence of             *)
(* <<page, pages>> ordered by address, and MAX_LINEAR_HOLE bounds its      *)
(* length (the descriptors behind it are those of KHeap).  A section under *)
(* spin_vm is one step, and so is each page of a mapping loop.             *)
(* free_linear reads pfree before it takes the lock, as free_kheap_4k      *)
(* does; KHeap has that race, and here two frees do not overlap.           *)
(***************************************************************************)
EXTENDS Naturals, Sequences, FiniteSets, FiniteSetsExt, Functions

CONSTANTS
  Cpus,
  Top,             \* linear pages are 1..Top
  Phys,            \* the physical pages, none of them 0
  MAX_LINEAR_HOLE,
  Kinds,           \* the calls made: a subset of {"vm", "stack"}
  Sizes            \* in half pages

\* What is assumed of the constants.
VMAssumption ==
  /\ Top \in Nat \ {0} /\ MAX_LINEAR_HOLE \in Nat \ {0} /\ Phys \subseteq Nat \ {0}
  /\ Kinds \subseteq {"vm", "stack"} /\ Sizes \subseteq Nat \ {0}

VARIABLES
  linear,  \* the list from phead
  lock,    \* spin_vm is left locked
  free,    \* the physical pages alloc_phy_page can return
  pte,     \* page table: physical page or 0, by linear page
  mapping, \* per CPU, the call in progress
  blocks,  \* history: the blocks callers hold
  made,    \* history: the kinds of blocks asked for so far
  halted,  \* ASSERT or panic
  oom      \* a mapping loop ran out of pages: init_percpu_thread panics

vmvars == <<linear, lock, free, pte, mapping, blocks, made, halted, oom>>

NoMapping == [pc |-> "idle", kind |-> "vm", n |-> 0, first |-> 0, i |-> 0]

\* init_vm
VMInit ==
  /\ linear = << <<1, Top>> >> /\ lock = FALSE
  /\ free = Phys
  /\ pte = [v \in 1..(Top + 1) |-> 0]
  /\ mapping = [c \in Cpus |-> NoMapping]
  /\ blocks = {} /\ made = {} /\ halted = FALSE /\ oom = FALSE

-----------------------------------------------------------------------------
\* size rounded up to pages
Aligned(n) == (n + 1) \div 2

\* The rounds of while (phsize <= size).
Rounds(n) == n \div 2 + 1

\* Mutant: a stack starts in the lowest page of its region.
GuardNone(kind) == 0

\* The lowest page of a stack is kept out of the mapping.
Guard(kind) == IF kind = "stack" THEN 1 ELSE 0

\* s with e at place k, and without what it has there.
Put(s, k, e) == SubSeq(s, 1, k - 1) \o <<e>> \o SubSeq(s, k, Len(s))
Without(s, k) == SubSeq(s, 1, k - 1) \o SubSeq(s, k + 1, Len(s))

\* free_linear's list, sorted by address; a region goes behind an equal head.
Inserted(a, n) ==
  LET before == {i \in 1..Len(linear) : linear[i][1] < a \/ (i = 1 /\ linear[1][1] = a)}
  IN  Put(linear, Cardinality(before) + 1, <<a, n>>)

\* free_linear: asserts whole pages, panics without a descriptor.
free_linear(a, half) ==
  IF half % 2 # 0 \/ Len(linear) = MAX_LINEAR_HOLE
  THEN halted' = TRUE /\ UNCHANGED linear
  ELSE linear' = Inserted(a, half \div 2) /\ UNCHANGED halted

\* Mutant: one page less is taken from the region than is handed out.
CarvedShort(i, n) ==
  IF linear[i][2] = n THEN Without(linear, i)
  ELSE [linear EXCEPT ![i] = <<@[1] + n - 1, @[2] - n + 1>>]

\* alloc_linear takes n pages from the front of region i.
Carved(i, n) ==
  IF linear[i][2] = n THEN Without(linear, i)
  ELSE [linear EXCEPT ![i] = <<@[1] + n, @[2] - n>>]

\* alloc_vm and alloc_vm_stack begin with alloc_linear: the first region that
\* is large enough.  When there is none it returns 0 without unlocking.
AllocLinear(c, kind, n) ==
  /\ mapping[c].pc = "idle" /\ ~lock
  /\ LET want == Aligned(n) + Guard(kind)
         fits == {i \in 1..Len(linear) : linear[i][2] >= want}
     IN  IF fits = {}
         THEN lock' = TRUE /\ UNCHANGED <<linear, mapping>>
         ELSE /\ linear' = Carved(Min(fits), want)
              /\ mapping' = [mapping EXCEPT ![c] = [pc |-> "map", kind |-> kind, n |-> n,
                                              first |-> linear[Min(fits)][1], i |-> 0]]
              /\ UNCHANGED lock
  /\ made' = made \cup {kind}
  /\ UNCHANGED <<free, pte, blocks, halted, oom>>

\* The linear page the loop is at.
At(k) == k.first + Guard(k.kind) + k.i

\* Mutant: the page stays in the bitmap.
MapPageKeeps(c) ==
  /\ mapping[c].pc = "map" /\ free # {}
  /\ pte' = [pte EXCEPT ![At(mapping[c])] = Min(free)]
  /\ IF mapping[c].i + 1 = Rounds(mapping[c].n)
     THEN /\ mapping' = [mapping EXCEPT ![c] = NoMapping]
          /\ blocks' = blocks \cup {[kind |-> mapping[c].kind, first |-> mapping[c].first, n |-> mapping[c].n]}
     ELSE mapping' = [mapping EXCEPT ![c].i = @ + 1] /\ UNCHANGED blocks
  /\ UNCHANGED <<linear, lock, free, made, halted, oom>>

\* One round: alloc_phy_page (which of the free pages it returns makes no
\* difference) and map_page_p2v_rw; after the last the block is the caller's.
MapPage(c) ==
  /\ mapping[c].pc = "map" /\ free # {}
  /\ free' = free \ {Min(free)}
  /\ pte' = [pte EXCEPT ![At(mapping[c])] = Min(free)]
  /\ IF mapping[c].i + 1 = Rounds(mapping[c].n)
     THEN /\ mapping' = [mapping EXCEPT ![c] = NoMapping]
          /\ blocks' = blocks \cup {[kind |-> mapping[c].kind, first |-> mapping[c].first, n |-> mapping[c].n]}
     ELSE mapping' = [mapping EXCEPT ![c].i = @ + 1] /\ UNCHANGED blocks
  /\ UNCHANGED <<linear, lock, made, halted, oom>>

\* Mutant: page 0 is freed like any other.
FreedAtZero(v) == free \cup {pte[v]}

\* free_vm_page looks up the same address in every round: it frees the one
\* page mapped there; page 0 is not freed.
FreedAt(v) == IF pte[v] = 0 THEN free ELSE free \cup {pte[v]}

\* alloc_phy_page returned 0.  In the first round the region is not given back;
\* later, pages and region are freed from the address reached so far.  The
\* caller of create_thread_oncpu panics on ENOMEM.
MapFails(c) ==
  /\ mapping[c].pc = "map" /\ free = {}
  /\ IF mapping[c].i = 0 THEN UNCHANGED <<linear, free, halted>>
     ELSE /\ ~lock
          /\ free' = FreedAt(At(mapping[c]))
          /\ free_linear(At(mapping[c]), mapping[c].n)
  /\ mapping' = [mapping EXCEPT ![c] = NoMapping]
  /\ oom' = TRUE
  /\ UNCHANGED <<lock, pte, blocks, made>>

\* free_vm and free_vm_stack
Free(c, b) ==
  /\ mapping[c].pc = "idle" /\ ~lock
  /\ free' = FreedAt(b.first + Guard(b.kind))
  /\ free_linear(b.first, b.n + 2 * Guard(b.kind))
  /\ blocks' = blocks \ {b}
  /\ UNCHANGED <<lock, pte, mapping, made, oom>>

VMNext ==
  /\ ~halted /\ ~oom
  /\ \E c \in Cpus :
       \/ \E kind \in Kinds, n \in Sizes : AllocLinear(c, kind, n)
       \/ MapPage(c) \/ MapFails(c)
       \/ \E b \in blocks : Free(c, b)

VMSpec == VMInit /\ [][VMNext]_vmvars

-----------------------------------------------------------------------------
(* Properties *)

VMTypeOK ==
  /\ linear \in Seq((1..(Top + 1)) \X (Nat \ {0})) /\ Len(linear) <= MAX_LINEAR_HOLE
  /\ lock \in BOOLEAN /\ halted \in BOOLEAN /\ oom \in BOOLEAN
  /\ free \subseteq Phys
  /\ pte \in [1..(Top + 1) -> Phys \cup {0}]
  /\ mapping \in [Cpus -> [pc : {"idle", "map"}, kind : {"vm", "stack"}, n : Sizes \cup {0},
                        first : 0..Top, i : Nat]]
  /\ made \subseteq Kinds
  /\ blocks \subseteq [kind : {"vm", "stack"}, first : 1..Top, n : Sizes]

PagesOf(b) == (b.first + Guard(b.kind))..(b.first + Guard(b.kind) + Aligned(b.n) - 1)
Mapped == UNION {PagesOf(b) : b \in blocks}

\* Until the pages run out, no two linear pages of live blocks share a physical
\* page and none of theirs is free, although the loops map one page behind a
\* block and free_vm_page leaves entries behind.
NoSharing ==
  ~oom /\ ~halted =>
    /\ \A v \in Mapped : pte[v] # 0 /\ pte[v] \notin free
    /\ \A v, w \in Mapped : v # w => pte[v] # pte[w]

Region(a, n) == a..(a + n - 1)
InUse ==
  {Region(b.first, Aligned(b.n) + Guard(b.kind)) : b \in blocks} \cup
  {Region(mapping[c].first, Aligned(mapping[c].n) + Guard(mapping[c].kind)) :
     c \in {d \in Cpus : mapping[d].pc = "map"}}

\* Until the pages run out, the free regions and the blocks, live or being
\* mapped, partition the linear space.
LinearPartition ==
  ~oom /\ ~halted =>
    LET parts == InUse \cup {Region(linear[i][1], linear[i][2]) : i \in 1..Len(linear)}
    IN  UNION parts = 1..Top /\ \A x, y \in parts : x # y => x \cap y = {}

\* As long as only stacks are allocated, from any CPUs at once, no step changes
\* what the pages of a stack in use are mapped to: the page a loop maps too
\* many is the reserved page of the stack behind.
StackMappingKept ==
  made' \subseteq {"stack"} => \A b \in blocks \cap blocks' : \A v \in PagesOf(b) : pte'[v] = pte[v]

\* No behaviour of vm.c remaps a stack in use (StackMappingKept, step by step).
MappingStable == [][StackMappingKept]_vmvars

\* "the lowest page is reserved for stack overflow check": it is not mapped.
GuardUnmapped == \A b \in blocks : b.kind = "stack" => pte[b.first] = 0

\* alloc_linear leaves spin_vm locked, and every later call waiting, only when a
\* request did not fit: no other path returns with the lock.
LockLeftWhenNoneFits ==
  lock => \E kind \in Kinds, n \in Sizes :
            \A i \in 1..Len(linear) : linear[i][2] < Aligned(n) + Guard(kind)

\* vm.c shares no physical page, neither loses nor doubles linear space, and
\* returns with the lock on one path only.
VMSafe == VMTypeOK /\ NoSharing /\ LinearPartition /\ LockLeftWhenNoneFits
=============================================================================
