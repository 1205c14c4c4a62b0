------------------------------- MODULE KHeap -------------------------------
(***************************************************************************)
(* The boot heap of kernel/kheap.c: the 4k pool and the small pool, each a *)
(* list of free regions and a list of unused descriptors, called from      *)
(* several CPUs.                                                           *)
(*                                                                         *)
(* A section under spin_4k or spin_small is one step.  free_kheap_4k reads *)
(* pfree4k before it takes the lock, so it is two.  An alloc that finds no *)
(* region unlocks, fetches a page and starts again.                        *)
(* Addresses and sizes are counted in units; K is the code's 0x1000 and    *)
(* PAGE its PAGE_SIZE.                                                     *)
(***************************************************************************)
EXTENDS Naturals, Sequences, FiniteSets, FiniteSetsExt, Functions

CONSTANTS
  CPUs,
  Holes4k, HolesSmall,     \* heap_holes, heap_small_holes
  K, PAGE,
  DROP,                    \* remainders up to this size are dropped (16 bytes)
  Regions,                 \* <<addr, size>>: what boot code frees into the 4k pool
  PhyPages,                \* addresses alloc_phy_page can still return
  Sizes4k, SizesSmall,     \* sizes the callers ask for
  ReadRaces,               \* whether another CPU may come between the read of
                           \* pfree4k in free_kheap_4k and its lock
  NULL

Holes == Holes4k \cup HolesSmall
Pools == {"4k", "small"}

Units(a, n) == a..(a + n - 1)

\* All that may ever be given to the 4k pool; no two of them overlap.
Supply == Regions \cup (PhyPages \X {PAGE})

\* What is assumed of the constants.
KHeapAssumption ==
  /\ K \in Nat \ {0} /\ PAGE \in Nat \ {0} /\ PAGE % K = 0 /\ DROP \in 1..K
  /\ IsFiniteSet(Holes) /\ Holes4k # {} /\ HolesSmall # {}
  /\ Holes4k \cap HolesSmall = {} /\ NULL \notin Holes
  /\ Sizes4k \subseteq Nat \ {0} /\ SizesSmall \subseteq 1..(K - 1)
  /\ ReadRaces \in BOOLEAN
  /\ Regions \subseteq Nat \X (Nat \ {0}) /\ PhyPages \subseteq Nat
  /\ \A r \in Regions : r[1] % K = 0 /\ r[2] % K = 0
  /\ \A r, s \in Supply : r # s => Units(r[1], r[2]) \cap Units(s[1], s[2]) = {}

VARIABLES
  pfree, phead,       \* [Pools -> descriptor]
  pnext, addr, size,  \* struct kheap_t, per descriptor
  unfreed, phys,      \* regions boot still has, pages alloc_phy_page still has
  call,               \* per CPU, the call in progress
  given,              \* history: units given to the 4k pool
  out                 \* history: <<kind, addr, size>>, what others hold: blocks of the
                      \* 4k pool with callers ("4k") and with the small pool
                      \* ("page"), and blocks of the small pool ("small")

desc == <<pfree, phead, pnext, addr, size>>
khvars == <<desc, unfreed, phys, call, given, out>>

\* CPU c may touch the 4k pool.
Free4k(c) == ReadRaces \/ \A d \in CPUs \ {c} : call[d].pc # "link"

-----------------------------------------------------------------------------
(* Lists *)

\* The descriptors met from p, each once when the list is a list; a list that
\* two racing frees bent into a cycle is cut.
Chain(p) ==
  LET after(q) == IF q = NULL THEN NULL ELSE pnext[q]
      at[i \in 1..(Cardinality(Holes) + 1)] == IF i = 1 THEN p ELSE after(at[i - 1])
      len == Cardinality({i \in DOMAIN at : at[i] # NULL})
  IN  [i \in 1..len |-> at[i]]

ChainSet(p) == Range(Chain(p))

\* Mutant: the first region is taken, whatever its size.
FitLoose(pool, n) == phead[pool]

\* The first region that is large enough: while (p && p->size < size).
Fit(pool, n) ==
  LET at == Chain(phead[pool])
      fits == {i \in 1..Len(at) : size[at[i]] >= n}
  IN  IF fits = {} THEN NULL ELSE at[Min(fits)]

\* if (size & 0xfff) size = (size & ~0xfff) + 0x1000;
Align(n) == IF n % K = 0 THEN n ELSE (n \div K) * K + K

-----------------------------------------------------------------------------
NoCall == [pc |-> "idle", n |-> 0, small |-> 0, a |-> 0, len |-> 0, p |-> NULL]

\* The descriptors of an array, in its order.
Array(S) == CHOOSE q \in [1..Cardinality(S) -> S] : IsInjective(q)

\* init_kheap: each array is chained in order and becomes the free list.
init_kheap ==
  LET big == Array(Holes4k)
      small == Array(HolesSmall)
      after(q, h) == IF \E i \in 1..(Len(q) - 1) : q[i] = h
                     THEN q[1 + CHOOSE i \in 1..(Len(q) - 1) : q[i] = h] ELSE NULL
  IN  /\ pnext = [h \in Holes |-> IF h \in Holes4k THEN after(big, h) ELSE after(small, h)]
      /\ pfree = [pool \in Pools |-> IF pool = "4k" THEN big[1] ELSE small[1]]
      /\ phead = [pool \in Pools |-> NULL]

KHeapInit ==
  /\ init_kheap
  /\ addr = [h \in Holes |-> 0] /\ size = [h \in Holes |-> 0]
  /\ unfreed = Regions /\ phys = PhyPages
  /\ call = [c \in CPUs |-> NoCall]
  /\ given = {} /\ out = {}

\* Mutant: no sorting, every region goes in front.
LinkFront(pool, p, a, n) ==
  /\ addr' = [addr EXCEPT ![p] = a] /\ size' = [size EXCEPT ![p] = n]
  /\ pfree' = [pfree EXCEPT ![pool] = pnext[@]]
  /\ pnext' = [pnext EXCEPT ![p] = phead[pool]] /\ phead' = [phead EXCEPT ![pool] = p]

\* p becomes a region at the place the pool's order asks for: by address in
\* the 4k pool, in front in the small pool.
Link(pool, p, a, n) ==
  LET h == phead[pool]
      at == Chain(h)
      now == [addr EXCEPT ![p] = a]
      stop == {i \in 1..Len(at) : pnext[at[i]] = NULL \/ now[pnext[at[i]]] >= a}
  IN  /\ addr' = now /\ size' = [size EXCEPT ![p] = n]
      /\ pfree' = [pfree EXCEPT ![pool] = pnext[@]]
      /\ IF h = NULL \/ pool = "small" \/ now[h] > a
         THEN pnext' = [pnext EXCEPT ![p] = h] /\ phead' = [phead EXCEPT ![pool] = p]
         ELSE /\ pnext' = [pnext EXCEPT ![p] = pnext[at[Min(stop)]], ![at[Min(stop)]] = p]
              /\ UNCHANGED phead

\* Mutant: the descriptor of a used up region does not return to the free list.
UnlinkLeaks(pool, p) ==
  /\ IF phead[pool] = p
     THEN phead' = [phead EXCEPT ![pool] = pnext[p]] /\ UNCHANGED pnext
     ELSE LET before == CHOOSE h \in ChainSet(phead[pool]) : pnext[h] = p
          IN  pnext' = [pnext EXCEPT ![before] = pnext[p]] /\ UNCHANGED phead
  /\ UNCHANGED pfree

\* The descriptor of a used up region returns to the free list.
Unlink(pool, p) ==
  /\ IF phead[pool] = p
     THEN phead' = [phead EXCEPT ![pool] = pnext[p]] /\ pnext' = [pnext EXCEPT ![p] = pfree[pool]]
     ELSE LET before == CHOOSE h \in ChainSet(phead[pool]) : pnext[h] = p
          IN  pnext' = [pnext EXCEPT ![before] = pnext[p], ![p] = pfree[pool]] /\ UNCHANGED phead
  /\ pfree' = [pfree EXCEPT ![pool] = p]

\* Mutant: the address is not moved behind the block.
CarveStill(pool, p, n) ==
  /\ size' = [size EXCEPT ![p] = @ - n] /\ UNCHANGED addr
  /\ IF size[p] - n <= (IF pool = "small" THEN DROP ELSE 0)
     THEN Unlink(pool, p) ELSE UNCHANGED <<phead, pfree, pnext>>

\* Take n units from the front of region p.
Carve(pool, p, n) ==
  /\ size' = [size EXCEPT ![p] = @ - n] /\ addr' = [addr EXCEPT ![p] = @ + n]
  /\ IF size[p] - n <= (IF pool = "small" THEN DROP ELSE 0)
     THEN Unlink(pool, p) ELSE UNCHANGED <<phead, pfree, pnext>>

-----------------------------------------------------------------------------
(* free_kheap_4k, called by boot code or by a refill.  small > 0 in a call *)
(* means that alloc_kheap_small waits for it.                              *)

CallFree(c, r) ==
  /\ call[c].pc = "idle" /\ r \in unfreed
  /\ unfreed' = unfreed \ {r}
  /\ given' = given \cup Units(r[1], r[2])
  /\ call' = [call EXCEPT ![c] = [NoCall EXCEPT !.pc = "free", !.a = r[1], !.len = r[2]]]
  /\ UNCHANGED <<desc, phys, out>>

\* heap_free_4k: the caller of the 4k pool gives back a block it was handed.
heap_free_4k(c, b) ==
  /\ call[c].pc = "idle" /\ b \in out /\ b[1] = "4k"
  /\ out' = out \ {b}
  /\ call' = [call EXCEPT ![c] = [NoCall EXCEPT !.pc = "free", !.a = b[2], !.len = b[3]]]
  /\ UNCHANGED <<desc, unfreed, phys, given>>

\* p = pfree4k, before the lock; panic when there is none.
LoadFree(c) ==
  /\ call[c].pc = "free" /\ Free4k(c)
  /\ call' = [call EXCEPT ![c].p = pfree["4k"],
                          ![c].pc = IF pfree["4k"] = NULL THEN "panic" ELSE "link"]
  /\ UNCHANGED <<desc, unfreed, phys, given, out>>

\* The section under spin_4k; a free with n > 0 was a refill.  It reads
\* pfree4k->pnext, which faults when another CPU took the last descriptor.
LinkFree(c) ==
  /\ call[c].pc = "link"
  /\ IF pfree["4k"] = NULL
     THEN call' = [call EXCEPT ![c].pc = "panic"] /\ UNCHANGED desc
     ELSE /\ Link("4k", call[c].p, call[c].a, call[c].len)
          /\ call' = [call EXCEPT ![c] = IF @.n > 0 THEN [@ EXCEPT !.pc = "alloc", !.p = NULL]
                                         ELSE NoCall]
  /\ UNCHANGED <<unfreed, phys, given, out>>

-----------------------------------------------------------------------------
(* alloc_kheap_4k *)

CallAlloc4k(c, n) ==
  /\ call[c].pc = "idle"
  /\ call' = [call EXCEPT ![c] = [NoCall EXCEPT !.pc = "alloc", !.n = Align(n)]]
  /\ UNCHANGED <<desc, unfreed, phys, given, out>>

\* Found: the block goes to the caller, or to the waiting alloc_kheap_small.
Alloc4k(c) ==
  /\ call[c].pc = "alloc" /\ Free4k(c)
  /\ LET n == call[c].n
         p == Fit("4k", n)
     IN  /\ p # NULL
         /\ Carve("4k", p, n)
         /\ IF call[c].small = 0
            THEN call' = [call EXCEPT ![c] = NoCall] /\ out' = out \cup {<<"4k", addr[p], n>>}
            ELSE /\ call' = [call EXCEPT ![c] = [@ EXCEPT !.pc = "sfree", !.n = 0, !.a = addr[p]]]
                 /\ out' = out \cup {<<"page", addr[p], n>>}
  /\ UNCHANGED <<unfreed, phys, given>>

\* Not found: unlock, alloc_phy_page, and free_kheap_4k of that page.
Refill(c) ==
  /\ call[c].pc = "alloc" /\ Fit("4k", call[c].n) = NULL
  /\ \E a \in phys :
       /\ phys' = phys \ {a}
       /\ given' = given \cup Units(a, PAGE)
       /\ call' = [call EXCEPT ![c] = [@ EXCEPT !.pc = "free", !.a = a, !.len = PAGE]]
  /\ UNCHANGED <<desc, unfreed, out>>

\* alloc_phy_page returned 0: return 0 (and so does alloc_kheap_small).
AllocFails(c) ==
  /\ call[c].pc = "alloc" /\ Fit("4k", call[c].n) = NULL /\ phys = {}
  /\ call' = [call EXCEPT ![c] = NoCall]
  /\ UNCHANGED <<desc, unfreed, phys, given, out>>

-----------------------------------------------------------------------------
(* alloc_kheap_small and free_kheap_small *)

CallAllocSmall(c, n) ==
  /\ call[c].pc = "idle"
  /\ call' = [call EXCEPT ![c] = [NoCall EXCEPT !.pc = "salloc", !.small = n]]
  /\ UNCHANGED <<desc, unfreed, phys, given, out>>

AllocSmall(c) ==
  /\ call[c].pc = "salloc"
  /\ LET n == call[c].small
         p == Fit("small", n)
     IN  IF p = NULL
         THEN \* unlock; alloc_kheap_4k(0x1000)
              /\ call' = [call EXCEPT ![c].pc = "alloc", ![c].n = K]
              /\ UNCHANGED <<desc, out>>
         ELSE /\ Carve("small", p, n)
              /\ call' = [call EXCEPT ![c] = NoCall]
              /\ out' = out \cup {<<"small", addr[p], n>>}
  /\ UNCHANGED <<unfreed, phys, given>>

\* free_kheap_small(newaddr, 0x1000): here the pop is under the lock.
FreeSmall(c) ==
  /\ call[c].pc = "sfree"
  /\ IF pfree["small"] = NULL
     THEN call' = [call EXCEPT ![c].pc = "panic"] /\ UNCHANGED desc
     ELSE /\ Link("small", pfree["small"], call[c].a, K)
          /\ call' = [call EXCEPT ![c] = [@ EXCEPT !.pc = "salloc", !.a = 0]]
  /\ UNCHANGED <<unfreed, phys, given, out>>

\* panic() stops the machine.
Panicked == \E c \in CPUs : call[c].pc = "panic"

KHeapNext ==
  /\ ~Panicked
  /\ \E c \in CPUs :
       \/ \E r \in Regions : CallFree(c, r)
       \/ \E b \in out : heap_free_4k(c, b)
       \/ LoadFree(c) \/ LinkFree(c)
       \/ \E n \in Sizes4k : CallAlloc4k(c, n)
       \/ Alloc4k(c) \/ Refill(c) \/ AllocFails(c)
       \/ \E n \in SizesSmall : CallAllocSmall(c, n)
       \/ AllocSmall(c) \/ FreeSmall(c)

KHeapSpec == KHeapInit /\ [][KHeapNext]_khvars

-----------------------------------------------------------------------------
(* Properties *)

KHeapTypeOK ==
  /\ pfree \in [Pools -> Holes \cup {NULL}] /\ phead \in [Pools -> Holes \cup {NULL}]
  /\ pnext \in [Holes -> Holes \cup {NULL}]
  /\ addr \in [Holes -> Nat] /\ size \in [Holes -> Nat]
  /\ unfreed \subseteq Regions /\ phys \subseteq PhyPages
  /\ call \in [CPUs -> [pc : {"idle", "free", "link", "alloc", "salloc", "sfree", "panic"},
                        n : Nat, small : Nat, a : Nat, len : Nat, p : Holes \cup {NULL}]]
  /\ out \subseteq {"4k", "page", "small"} \X Nat \X Nat

RegionSets(pool) == {Units(addr[h], size[h]) : h \in ChainSet(phead[pool])}
Blocks(kinds) == {Units(b[2], b[3]) : b \in {x \in out : x[1] \in kinds}}
InFree == {Units(call[c].a, call[c].len) : c \in {d \in CPUs : call[d].pc \in {"free", "link"}}}

PairwiseDisjoint(F) == \A x, y \in F : x # y => x \cap y = {}

\* The 4k pool loses nothing and hands nothing out twice: its regions, the
\* regions on their way into it and the blocks it handed out partition the
\* memory it was given.
Partition4k ==
  ~Panicked =>
    LET parts == RegionSets("4k") \cup InFree \cup Blocks({"4k", "page"})
    IN  PairwiseDisjoint(parts) /\ UNION parts = given

\* The small pool stays inside the pages it took from the 4k pool and hands
\* nothing out twice; what it drops it never hands out again.
SmallInsidePages ==
  LET parts == RegionSets("small") \cup Blocks({"small"})
  IN  PairwiseDisjoint(parts) /\ UNION parts \subseteq UNION Blocks({"page"})

\* Every descriptor is on exactly one of its pool's two lists.
HolesConserved ==
  \A pool \in Pools :
    /\ ChainSet(pfree[pool]) \cap ChainSet(phead[pool]) = {}
    /\ ChainSet(pfree[pool]) \cup ChainSet(phead[pool])
         = IF pool = "4k" THEN Holes4k ELSE HolesSmall

\* "sort by addr asc": the regions of the 4k pool are in ascending order.
SortedAsc ==
  LET at == Chain(phead["4k"])
  IN  \A i \in 1..(Len(at) - 1) : addr[at[i]] < addr[at[i + 1]]

\* kheap.c: the regions of the 4k pool and what it handed out partition what it
\* was given, the small pool stays inside its pages, no descriptor is lost,
\* and the list is in the order its comment says.
KHeapSafe == KHeapTypeOK /\ Partition4k /\ SmallInsidePages /\ HolesConserved /\ SortedAsc
=============================================================================
