----------------------------- MODULE Multiboot ------------------------------
(***************************************************************************)
(* The page tables of arch/x86_64/pgtable.c: three levels, the last of     *)
(* which maps pages of 2M.  A table is a record of                         *)
(*   pdp, pd  the entries of the first and second level that are in place, *)
(*   pde      what the third level says, [paddr, cached],                  *)
(*   heap     how many pieces of 4K alloc_kheap_4k still has,              *)
(*   ok       whether the last map_page_p2v returned OK.                   *)
(*                                                                         *)
(* How the boot processor learns what memory there is: init_bss,           *)
(* init_bootload, init_e820 and init_page_map of arch/x86_64/multiboot.c,  *)
(* over the map the boot loader gives.  The map is a sequence of zones     *)
(* [addr, size, type]; type 1 is memory.  What the calls do is collected   *)
(* in a record of                                                          *)
(*   revmem   the reserved ranges, [addr, size],                           *)
(*   io       io_remap_pages, page numbers counted from 1,                 *)
(*   freed    the calls of free_kheap_small, free_kheap_4k and             *)
(*            free_phy_pages in order, [pool, addr, size],                 *)
(*   panic    why it stopped, "" if it did not.                            *)
(* Addresses are scaled: PAGE_SIZE, P4K and the rest are constants.        *)
(*                                                                         *)
(* The boot loader, bootloader/bootmain.c.  Addresses, offsets and sizes   *)
(* are in words; the disk is a function from word numbers, the image       *)
(* starting with sector 1; memory is a function from addresses.            *)
(***************************************************************************)
EXTENDS Integers, Sequences, FiniteSets, SequencesExt, FiniteSetsExt

CONSTANTS
  PAGE_SIZE,    \* 2M
  PD_PER_PTE,   \* entries of a table of the second and third level
  PML4_NR,      \* entries of the first level
  IO_MEM_BASE   \* where physical memory is seen uncached
CONSTANTS
  P4K,                \* 4K
  U64,                \* 2^64
  kernel_start,       \* 1M
  bss_end,            \* mboot_bss_end
  init_heap_size,     \* 64K, and as much below 1M is reserved
  IOAPIC_BASE,
  MAX_IO_REMAPS, MAX_REVERSE,
  Pieces              \* how many pieces of 4K the first heap has for tables
CONSTANTS SECTSIZE, SCRATCH, HEADER, MAGIC   \* HEADER: how far the header is looked for

NUMBER_4G == 4 * PD_PER_PTE * PAGE_SIZE

\* Mutant: the second index is not cut to the size of its table.
IndexWide(v) == LET pg == v \div PAGE_SIZE
                IN  <<(pg \div (PD_PER_PTE * PD_PER_PTE)) % PML4_NR, pg % PD_PER_PTE, pg % PD_PER_PTE>>

\* The three indexes of a virtual address.
Index(v) == LET pg == v \div PAGE_SIZE
            IN  <<(pg \div (PD_PER_PTE * PD_PER_PTE)) % PML4_NR, (pg \div PD_PER_PTE) % PD_PER_PTE,
                  pg % PD_PER_PTE>>

Entry(paddr, cached) == [paddr |-> paddr, cached |-> cached]

map_page_p2v(t, paddr, vaddr, cached) ==
  LET x == Index(vaddr)
      newpdp == x[1] \notin t.pdp
      newpd == <<x[1], x[2]>> \notin t.pd
      t1 == IF newpdp THEN [t EXCEPT !.heap = @ - 1, !.pdp = @ \cup {x[1]}] ELSE t
      t2 == IF newpd THEN [t1 EXCEPT !.heap = @ - 1, !.pd = @ \cup {<<x[1], x[2]>>}] ELSE t1
  IN  IF t2.heap < 0
      THEN LET failed == IF t1.heap < 0 THEN t ELSE t1 IN [failed EXCEPT !.ok = FALSE]
      ELSE [t2 EXCEPT !.ok = TRUE, !.pde = [y \in DOMAIN t.pde \cup {x} |->
                                               IF y = x THEN Entry(paddr, cached) ELSE t.pde[y]]]

\* map_page_p2v of a sequence of physical addresses, at base + address; the
\* caller panics at the first one that fails.
MapAll(t, addrs, base, cached) ==
  FoldLeft(LAMBDA u, a : IF u.ok THEN map_page_p2v(u, a, a + base, cached) ELSE u, t, addrs)

\* The pages from a on, as long as a page is strictly below the end.
PagesBelow(a, end) == [k \in 1..((end - a - 1) \div PAGE_SIZE) |-> a + (k - 1) * PAGE_SIZE]

\* init_pml4: the first 4G in tables that are linked in, and the memory above
\* them from the heap, up to __max_phy_mem_addr.
init_pml4(heap, max_phy_mem_addr) ==
  LET t == [pdp |-> {0}, pd |-> {<<0, j>> : j \in 0..3}, heap |-> heap, ok |-> TRUE,
            pde |-> [x \in {<<0, j, k>> : j \in 0..3, k \in 0..(PD_PER_PTE - 1)} |->
                       Entry((x[2] * PD_PER_PTE + x[3]) * PAGE_SIZE, TRUE)]]
  IN  IF max_phy_mem_addr > NUMBER_4G
      THEN MapAll(t, PagesBelow(NUMBER_4G, max_phy_mem_addr), 0, TRUE)
      ELSE t

\* The entry that translates an address; {} where a level is missing or the
\* entry is empty.
get_pte_with_addr(t, addr) ==
  {t.pde[x] : x \in {y \in DOMAIN t.pde : y = Index(addr)}}

\* ioremap_nocache does not look at what map_page_p2v returns.
ioremap_nocache(t, addr, size) ==
  LET paddr == addr - (addr % PAGE_SIZE)
      pages == [k \in 1..((size + addr - paddr) \div PAGE_SIZE + 1) |-> paddr + (k - 1) * PAGE_SIZE]
  IN  FoldLeft(LAMBDA u, a : map_page_p2v(u, a, a + IO_MEM_BASE, FALSE), t, pages)

\* What the processor reads at a virtual address: where, and whether through
\* the cache.
Seen(t, v) == {<<e.paddr + (v % PAGE_SIZE), e.cached>> : e \in get_pte_with_addr(t, v)}
-----------------------------------------------------------------------------
kernel_end == bss_end + init_heap_size

End(z) == z.addr + z.size

Down(a, unit) == a - (a % unit)

Panic(m, why) == IF m.panic = "" THEN [m EXCEPT !.panic = why] ELSE m

\* A call into the allocator; both pools of the heap assert that what they
\* are given is aligned to 4K.
Free(m, pool, addr, size) ==
  CASE m.panic # "" -> m
    [] m.panic = "" /\ pool # "page" /\ (addr % P4K # 0 \/ size % P4K # 0) -> Panic(m, "assert")
    [] OTHER -> [m EXCEPT !.freed = Append(@, [pool |-> pool, addr |-> addr, size |-> size])]

\* Memory right behind the kernel becomes the first heap.
init_bss == Free([revmem |-> <<>>, io |-> <<>>, freed |-> <<>>, panic |-> ""], "4k", bss_end, init_heap_size)

add_map(m, pg) ==
  CASE pg \in Range(m.io) -> m
    [] pg \notin Range(m.io) /\ Len(m.io) >= MAX_IO_REMAPS -> Panic(m, "MAX_IO_REMAPS")
    [] OTHER -> [m EXCEPT !.io = Append(@, pg)]

add_reverse(m, addr, size) ==
  IF Len(m.revmem) >= MAX_REVERSE THEN Panic(m, "MAX_REVERSE")
  ELSE [m EXCEPT !.revmem = Append(@, [addr |-> addr, size |-> size])]

\* The pages that the region meets, numbered from 1: the one it starts in the
\* middle of, the whole ones, and the rest.
RECURSIVE on_iomem(_, _, _)
on_iomem(m, addr, size) ==
  LET lowsize == PAGE_SIZE - (addr % PAGE_SIZE)
      whole == size \div PAGE_SIZE
      part == IF size % PAGE_SIZE = 0 THEN 0 ELSE 1
      first == addr \div PAGE_SIZE + 1
  IN  CASE addr = 0 -> m
        [] addr # 0 /\ addr % PAGE_SIZE # 0 ->
             LET m1 == add_map(m, first)
             IN  IF lowsize >= size THEN m1 ELSE on_iomem(m1, addr + lowsize, size - lowsize)
        [] OTHER -> FoldLeft(add_map, m, [k \in 1..(whole + part) |-> first + k - 1])

\* Mutant: the part of a page before the first whole one is not freed.
on_memWhole(m, addr, size, max) ==
  LET a == addr + ((PAGE_SIZE - (addr % PAGE_SIZE)) % PAGE_SIZE)
  IN  IF a + PAGE_SIZE > addr + size THEN m
      ELSE Free(m, "page", a, Down(addr + size - a, PAGE_SIZE))

\* Memory goes to the pools: what is not aligned to 4K to the small one, what
\* is not a whole page to that of 4K, and the rest to the physical pages.  A
\* piece that ends at the end of all memory is left out.
RECURSIVE on_mem(_, _, _, _)
on_mem(m, addr, size, max) ==
  LET Below(n, pool, a, s) == IF a + s < max THEN Free(n, pool, a, s) ELSE n
      low4k == P4K - (addr % P4K)
      s == Down(size, P4K)
      low == PAGE_SIZE - (addr % PAGE_SIZE)
      npg == s \div PAGE_SIZE
  IN  CASE m.panic # "" -> m
        [] m.panic = "" /\ addr % P4K # 0 ->
             LET m1 == IF low4k >= size THEN Below(m, "small", addr, size) ELSE m
             IN  on_mem(Free(m1, "small", addr, low4k), addr + low4k, (size - low4k) % U64, max)
        [] m.panic = "" /\ addr % P4K = 0 /\ s = 0 -> m
        [] m.panic = "" /\ addr % P4K = 0 /\ s \in 1..(PAGE_SIZE - 1) -> Below(m, "4k", addr, s)
        [] m.panic = "" /\ addr % P4K = 0 /\ s >= PAGE_SIZE /\ addr % PAGE_SIZE # 0 ->
             IF low >= s THEN Below(m, "4k", addr, s)
             ELSE on_mem(Below(m, "4k", addr, low), addr + low, s - low, max)
        [] OTHER ->
             LET m1 == Free(m, "page", addr, npg * PAGE_SIZE)
                 rest == s % PAGE_SIZE
             IN  IF rest = 0 THEN m1 ELSE Below(m1, "4k", addr + npg * PAGE_SIZE, rest)
\* A zone without the reserved ranges: what the first range it meets leaves
\* of it goes round again, the rest to on_mem or on_iomem.
RECURSIVE deal_reverse(_, _, _, _, _)
deal_reverse(m, addr, size, ismem, max) ==
  LET meets == {i \in DOMAIN m.revmem : addr < End(m.revmem[i]) /\ addr + size > m.revmem[i].addr}
      Whole == IF ismem THEN on_mem(m, addr, size, max) ELSE on_iomem(m, addr, size)
      r == m.revmem[CHOOSE i \in meets : \A j \in meets : i <= j]
  IN  CASE meets = {} -> Whole
        [] meets # {} /\ addr >= r.addr /\ addr + size <= End(r) -> m
        [] meets # {} /\ addr >= r.addr /\ addr + size > End(r) ->
             deal_reverse(m, End(r), size + addr - End(r), ismem, max)
        [] OTHER ->
             deal_reverse(deal_reverse(m, addr, r.addr - addr, ismem, max),
                          r.addr + size, size + addr - r.addr, ismem, max)

\* init_bootload: the end of everything in the map, and of its memory.
max_phy_addr(e820) == Max({End(e820[i]) : i \in DOMAIN e820})
max_phy_mem_addr(e820) == Max({0} \cup {End(z) : z \in {e820[i] : i \in {j \in DOMAIN e820 : e820[j].type = 1}}})

Reserved(m) == add_reverse(add_reverse(m, 0, init_heap_size), kernel_start, kernel_end - kernel_start)

\* Every zone, with the kernel and the lowest 64K reserved.  (maxaddr stays 0
\* here, so no zone is adjusted.)
init_e820(m, e820) ==
  FoldLeft(LAMBDA n, z : IF n.panic # "" THEN n
                         ELSE deal_reverse(n, z.addr, z.size, z.type = 1, max_phy_mem_addr(e820)),
           add_map(Reserved(m), IOAPIC_BASE \div PAGE_SIZE + 1), e820)

\* init_page_map: the hole before a zone is mapped page by page if it is at
\* least as large as one, apart from the part of a page it starts with, which
\* goes through deal_reverse like a smaller hole.  x.lastend is the end of the
\* zone before.
Hole(x, z) ==
  LET hsize == z.addr - x.lastend
      part == PAGE_SIZE - (x.lastend % PAGE_SIZE)
      Io(m, a, s) == deal_reverse(m, a, s, FALSE, 0)
      from == IF x.lastend % PAGE_SIZE = 0 THEN x.lastend ELSE x.lastend + part
  IN  CASE hsize <= 0 -> x
        [] hsize > 0 /\ hsize < PAGE_SIZE -> [x EXCEPT !.m = Io(x.m, x.lastend, hsize)]
        [] OTHER -> [x EXCEPT !.m = IF from = x.lastend THEN x.m ELSE Io(x.m, x.lastend, part),
                              !.t = MapAll(x.t, PagesBelow(from, z.addr), IO_MEM_BASE, FALSE)]

\* The pages on the list, in order.
remap_iomem(t, io) == MapAll(t, [k \in DOMAIN io |-> (io[k] - 1) * PAGE_SIZE], IO_MEM_BASE, FALSE)

mapped(m, u) == [m |-> IF u.ok THEN m ELSE Panic(m, "No memory"), t |-> u]
init_page_map(m, t, e820) ==
  LET Remapped(x) == mapped(x.m, remap_iomem(x.t, x.m.io))
  IN  Remapped(FoldLeft(LAMBDA y, z : [Hole(y, z) EXCEPT !.lastend = End(z)],
                        [m |-> Reserved(m), t |-> t, lastend |-> 0], e820))

\* bp_main up to init_page_map, with heap pieces of 4K for tables.
BootMemory(e820, heap) ==
  LET m == init_e820(init_bss, e820)
  IN  init_page_map(m, init_pml4(heap, max_phy_mem_addr(e820)), e820)
-----------------------------------------------------------------------------
Bytes(z) == z.addr..(End(z) - 1)

Zones(e820, mem) == {e820[i] : i \in {j \in DOMAIN e820 : (e820[j].type = 1) = mem}}

ReservedBytes == (0..(init_heap_size - 1)) \cup (kernel_start..(kernel_end - 1))

\* Memory zones start on 4K, and one that meets a reserved range starts in it,
\* as in the maps of PC firmware: low memory from 0, the rest from 1M.
Regular(e820) ==
  \A z \in Zones(e820, TRUE) :
    z.addr % P4K = 0 /\ (Bytes(z) \cap ReservedBytes = {} \/ z.addr \in ReservedBytes)

\* What on_mem leaves out of a zone: less than 4K at its end, and at the end of
\* all memory what is not a whole page.
LeftOut(z, max) ==
  {b \in Bytes(z) : \/ b >= Down(End(z), P4K)
                    \/ Down(End(z), P4K) = max /\ (b >= Down(max, PAGE_SIZE) \/ z.size < 2 * PAGE_SIZE)}

\* What the allocators are given is memory, none of it twice, none of it the
\* kernel's or below 64K, and apart from the ends of zones it is all of it:
\* the splits of deal_reverse and on_mem at reserved ranges, pages and 4K.
MemoryFreedOnce(e820) ==
  LET max == max_phy_mem_addr(e820)
      memory == UNION {Bytes(z) : z \in Zones(e820, TRUE)}
  IN  \A m \in {init_e820(init_bss, e820)} : Regular(e820) /\ m.panic = "" =>
        /\ \A i, j \in DOMAIN m.freed : i # j => Bytes(m.freed[i]) \cap Bytes(m.freed[j]) = {}
        /\ \A given \in {UNION {Bytes(m.freed[i]) : i \in 2..Len(m.freed)}} :
             /\ given \subseteq memory \ ReservedBytes
             /\ (memory \ ReservedBytes) \ given
                  \subseteq UNION {LeftOut(z, max) : z \in Zones(e820, TRUE)}

\* When the tables are in place, the processor sees the memory that the
\* allocators were given at its own address and through the cache (above 4G
\* but for the last page, which init_pml4 does not map), and what is not
\* memory at IO_MEM_BASE past it and not through the cache: no mapping of a
\* hole, a device or the memory above 4G falls on another.
MemorySeen(e820) ==
  \A x \in {BootMemory(e820, Pieces)}, m \in {init_e820(init_bss, e820)} :
    Regular(e820) /\ x.m.panic = "" =>
        /\ \A i \in DOMAIN m.freed : \A b \in Bytes(m.freed[i]) :
             \/ b >= NUMBER_4G /\ b >= Down(max_phy_mem_addr(e820) - 1, PAGE_SIZE)
             \/ Seen(x.t, b) = {<<b, TRUE>>}
        /\ \A z \in Zones(e820, FALSE) : z.addr # 0 => \A b \in Bytes(z) \ ReservedBytes :
             Seen(x.t, b + IO_MEM_BASE) = {<<b, FALSE>>}
        /\ Seen(x.t, IOAPIC_BASE + IO_MEM_BASE) = {<<IOAPIC_BASE, FALSE>>}
-----------------------------------------------------------------------------
\* The eight words of a multiboot header, from word n on.
Fields == <<"magic", "flags", "checksum", "header_addr", "load_addr", "load_end_addr", "bss_end_addr", "entry_addr">>
hdr(mem, x) == [f \in {Fields[i] : i \in 1..8} |-> mem[x + (CHOOSE i \in 1..8 : Fields[i] = f) - 1]]

\* One sector, once the disk is ready; a word past the end of the disk is 0.
readsect(mem, disk, dst, sector) ==
  [a \in DOMAIN mem |-> IF a \in dst..(dst + SECTSIZE - 1)
                        THEN LET w == sector * SECTSIZE + (a - dst) IN IF w \in DOMAIN disk THEN disk[w] ELSE 0
                        ELSE mem[a]]

\* Mutant: the address is not rounded down with the offset.
readsegUnrounded(mem, disk, pa0, count, offset) ==
  LET f[m \in [DOMAIN mem -> Int], pa \in Int, s \in Int] ==
        IF pa >= pa0 + count THEN m ELSE f[readsect(m, disk, pa, s), pa + SECTSIZE, s + 1]
  IN  f[mem, pa0, (offset \div SECTSIZE) + 1]

readseg(mem, disk, pa0, count, offset) ==
  LET f[m \in [DOMAIN mem -> Int], pa \in Int, s \in Int] ==
        IF pa >= pa0 + count THEN m ELSE f[readsect(m, disk, pa, s), pa + SECTSIZE, s + 1]
  IN  f[mem, pa0 - (offset % SECTSIZE), (offset \div SECTSIZE) + 1]

\* The first word at which there is a header whose words add up to zero.
found(mem) ==
  {n \in 0..(HEADER - 1) : /\ mem[SCRATCH + n] = MAGIC
                           /\ mem[SCRATCH + n] + mem[SCRATCH + n + 1] + mem[SCRATCH + n + 2] = 0}

stosb(mem, from, count) == [a \in DOMAIN mem |-> IF a \in from..(from + count - 1) THEN 0 ELSE mem[a]]

\* The memory when the loader ends, and where it enters the kernel: nowhere
\* when it returns.  The header is read in the scratch space each time.
bootmain(mem0, disk) ==
  LET Entered(mem, x) == [mem |-> mem, entry |-> <<hdr(mem, x).entry_addr>>]
      Cleared(mem, h) == IF h.bss_end_addr > h.load_end_addr
                         THEN stosb(mem, h.load_end_addr, h.bss_end_addr - h.load_end_addr) ELSE mem
      Loaded(mem, x) == Entered(Cleared(mem, hdr(mem, x)), x)
      At(mem, n, h) ==
        IF h.flags = 0   \* no load_* fields
           \/ h.load_addr > h.header_addr \/ h.load_end_addr < h.load_addr
        THEN [mem |-> mem, entry |-> <<>>]
        ELSE Loaded(readseg(mem, disk, h.load_addr, h.load_end_addr - h.load_addr,
                            n - (h.header_addr - h.load_addr)), SCRATCH + n)
      From(mem) == IF found(mem) = {} THEN [mem |-> mem, entry |-> <<>>]
                   ELSE At(mem, Min(found(mem)), hdr(mem, SCRATCH + Min(found(mem))))
  IN  From(readseg(mem0, disk, SCRATCH, HEADER, 0))
-----------------------------------------------------------------------------
\* A kernel whose header is at word n of the image, loaded apart from the
\* scratch space and with the words before its header in the image too.
Disk(n, h, size) ==
  [w \in SECTSIZE..(SECTSIZE + size - 1) |->
     IF w - SECTSIZE - n \in 0..7 THEN h[Fields[w - SECTSIZE - n + 1]] ELSE 1000 + w - SECTSIZE]

\* When the kernel is entered, the words from load_addr to load_end_addr are
\* those of the image around its header, in order, whichever way sectors and
\* addresses are aligned; the bss is zero; and nothing outside the sectors
\* that hold the image, the scratch space and the bss has changed.
ImageLoaded(mem0, n, h, size) ==
  LET first == n - (h.header_addr - h.load_addr)   \* the offset of load_addr in the image
      slack == (h.load_addr - SECTSIZE + 1)..(h.load_end_addr + SECTSIZE - 1)
  IN  (first >= 0 /\ first + (h.load_end_addr - h.load_addr) <= size) =>
        \A disk \in {Disk(n, h, size)} : \A r \in {bootmain(mem0, disk)} :
          /\ r.entry = <<h.entry_addr>>
          /\ \A a \in h.load_addr..(h.load_end_addr - 1) :
               r.mem[a] = disk[SECTSIZE + first + a - h.load_addr]
          /\ \A a \in h.load_end_addr..(h.bss_end_addr - 1) : r.mem[a] = 0
          /\ \A a \in DOMAIN mem0 : \/ r.mem[a] = mem0[a]
                                    \/ a \in slack \cup h.load_end_addr..(h.bss_end_addr - 1)
                                    \/ a \in SCRATCH..(SCRATCH + HEADER + SECTSIZE - 1)
=============================================================================
