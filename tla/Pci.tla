--------------------------------- MODULE Pci ---------------------------------
(***************************************************************************)
(* PCI functions as the kernel sees them: the scan of arch/x86_64/pci.c,   *)
(* libs/libpci (BARs, capabilities, MSI-X) with the accessors of           *)
(* include/drivers, and the setup of a virtio device (libs/libvirtio).     *)
(* The configuration space c of a function has                             *)
(*   bdf, id       where it is and what it is: [vid, did, rev],            *)
(*   bar           its six BAR registers, numbers below U32,               *)
(*   wired         what the hardware does with a write to each: the low    *)
(*                 bits that are wired, and the size that rounds the rest, *)
(*   command       the bits that are set of its command register,          *)
(*   ptr, caps     its list of capabilities, offset to [id, next],         *)
(*   msix          MSI-X control, and the masks of the table's entries,    *)
(*   features, guest, status   the registers of a virtio device.           *)
(*                                                                         *)
(* Where the three parts of a virtio queue lie in memory:                  *)
(* libs/libvirtio/virtio_ring.h.  An address is a number of bytes.         *)
(***************************************************************************)
EXTENDS Integers, Sequences, FiniteSets, FiniteSetsExt, SequencesExt

CONSTANTS
  U32,               \* 2^32, scaled down
  max_capabilities,  \* 0xF0, scaled down
  Buses, Slots, Funcs  \* 255, 31 and 7: what init_pci scans, exclusively
CONSTANT ALIGN   \* PAGE_SIZE_4K, a power of two

PCI_CAP_MSI == 5
PCI_CAP_MSIX == 17
VIRTIO_PCI_ID_MIN == 4096
VIRTIO_PCI_ID_MAX == 4159

\* What a BAR register holds after a write.
pci_writel(c, k, v) ==
  [c EXCEPT !.bar[k] = (v \div c.wired[k].size) * c.wired[k].size + c.wired[k].low]
-----------------------------------------------------------------------------
\* Size of a BAR: all ones, read back, restored, for one or both halves.
pci_bar_read_size(c, k, mmio, is_64) ==
  LET ones == pci_writel(c, k, U32 - 1)
      c1 == pci_writel(ones, k, c.bar[k])
      flags == IF mmio THEN 16 ELSE 4
      lo == (ones.bar[k] \div flags) * flags
      ones2 == pci_writel(c1, k + 1, U32 - 1)
      c2 == pci_writel(ones2, k + 1, c1.bar[k + 1])
      hi == IF is_64 THEN ones2.bar[k + 1] ELSE U32 - 1
  IN  [c |-> IF is_64 THEN c2 ELSE c1, size |-> (U32 * U32 - (hi * U32 + lo)) % (U32 * U32)]

\* A BAR at register k.  The device's structure is static, hence zeroed: what
\* the code leaves alone (_is_64 of a port BAR, _addr_hi) is false and 0.
pci_bar_init(c, k) ==
  LET val == c.bar[k]
      mmio == val % 2 = 0
      is_64 == mmio /\ (val \div 2) % 4 = 2
      flags == IF mmio THEN 16 ELSE 4
      sized == pci_bar_read_size(c, k, mmio, is_64)
      hi == IF is_64 THEN sized.c.bar[k + 1] ELSE 0
  IN  [c |-> sized.c,
       bar |-> [pos |-> k, mmio |-> mmio, is_64 |-> is_64, size |-> sized.size,
                prefetchable |-> mmio /\ (val \div 8) % 2 = 1,
                addr |-> hi * U32 + (val \div flags) * flags, mapped |-> FALSE]]

set_pci_bars_enable(c) == [c EXCEPT !.command = @ \cup {"mem", "io"}]
set_pci_bus_master(c) == [c EXCEPT !.command = @ \cup {"master"}]
pci_disable_intx(c) == [c EXCEPT !.command = @ \cup {"intx_disable"}]

\* Offset of a capability, 0xFF if there is none or the list is too long.
RECURSIVE find_capability_from(_, _, _, _)
find_capability_from(c, cap_id, off, ctr) ==
  CASE off = 0 -> 255
    [] off # 0 /\ c.caps[off].id = cap_id -> off
    [] off # 0 /\ c.caps[off].id # cap_id /\ ctr + 1 > max_capabilities -> 255
    [] OTHER -> find_capability_from(c, cap_id, c.caps[off].next, ctr + 1)
find_capability(c, cap_id) == find_capability_from(c, cap_id, c.ptr, 0)

\* MSI-X if there is one, else MSI, else neither.
parse_pci_capabilities(c) ==
  CASE find_capability(c, PCI_CAP_MSIX) # 255 -> "msix"
    [] find_capability(c, PCI_CAP_MSIX) = 255 /\ find_capability(c, PCI_CAP_MSI) # 255 -> "msi"
    [] OTHER -> "none"

\* Mutant: the upper half of a 64-bit BAR is taken for a BAR of its own.
RECURSIVE bars_fromHalf(_, _, _)
bars_fromHalf(c, k, bars) ==
  IF k > 6 THEN [c |-> c, bars |-> bars]
  ELSE IF c.bar[k] = 0 THEN bars_fromHalf(c, k + 1, bars)
  ELSE LET b == pci_bar_init(c, k) IN bars_fromHalf(b.c, k + 1, bars \cup {b.bar})

\* The BARs from register k on; a 64-bit one takes two registers.
RECURSIVE bars_from(_, _, _)
bars_from(c, k, bars) ==
  IF k > 6 THEN [c |-> c, bars |-> bars]
  ELSE IF c.bar[k] = 0 THEN bars_from(c, k + 1, bars)
  ELSE LET after(b) == bars_from(b.c, IF b.bar.is_64 THEN k + 2 ELSE k + 1, bars \cup {b.bar})
       IN  after(pci_bar_init(c, k))

pci_device_parse_config(c) ==
  LET With(found) ==
        [c |-> found.c, bars |-> found.bars, have |-> parse_pci_capabilities(c), id |-> c.id]
  IN  With(bars_from(set_pci_bars_enable(c), 1, {}))

pci_get_bar(d, n) == {b \in d.bars : b.pos = n}
-----------------------------------------------------------------------------
\* MSI-X, as the sequence of configuration spaces that its steps go through.

msix_mask_entry(c, e) == [c EXCEPT !.msix.masked[e] = TRUE]
msix_set_control(c, enable, fmask) == [c EXCEPT !.msix.enable = enable, !.msix.fmask = fmask]

\* Mutant: the function is unmasked before its entries are masked.
pci_msix_enableEarly(d) ==
  IF d.have # "msix" \/ pci_get_bar(d, d.c.msix.bir + 1) = {} THEN <<d.c>>
  ELSE LET s1 == pci_disable_intx(d.c)
           s2 == msix_set_control(s1, TRUE, TRUE)
           s3 == msix_set_control(s2, TRUE, FALSE)
           masks == [n \in 1..Len(d.c.msix.masked) |->
                       [s3 EXCEPT !.msix.masked = [e \in DOMAIN @ |-> e <= n \/ @[e]]]]
       IN  <<d.c, s1, s2, s3>> \o masks

\* Only with MSI-X on can the table be reached: it is turned on with the whole
\* function masked, every entry is masked, then the function is unmasked.
pci_msix_enable(d) ==
  IF d.have # "msix" \/ pci_get_bar(d, d.c.msix.bir + 1) = {} THEN <<d.c>>
  ELSE LET s1 == pci_disable_intx(d.c)
           s2 == msix_set_control(s1, TRUE, TRUE)
           masks == FoldLeft(LAMBDA s, e : Append(s, msix_mask_entry(Last(s), e)), <<s2>>,
                             [e \in 1..Len(d.c.msix.masked) |-> e])
       IN  <<d.c, s1>> \o masks \o <<msix_set_control(Last(masks), TRUE, FALSE)>>
-----------------------------------------------------------------------------
\* All functions that answer, in the order of the scan.
init_pci(fs) ==
  LET Before(f, g) == \/ f.bdf[1] < g.bdf[1]
                      \/ f.bdf[1] = g.bdf[1] /\ f.bdf[2] < g.bdf[2]
                      \/ f.bdf[1] = g.bdf[1] /\ f.bdf[2] = g.bdf[2] /\ f.bdf[3] < g.bdf[3]
  IN  SetToSortSeq({f \in fs : f.bdf[1] < Buses /\ f.bdf[2] < Slots /\ f.bdf[3] < Funcs}, Before)

find_pci(pci_bsf, vid, did) ==
  LET hits == {i \in DOMAIN pci_bsf : pci_bsf[i].id.vid = vid /\ pci_bsf[i].id.did = did}
  IN  IF hits = {} THEN {} ELSE {pci_bsf[Min(hits)]}

virtio_parse_pci_config(c) ==
  LET Checked(d) ==
        [d EXCEPT !.id = [@ EXCEPT !.ok = /\ pci_get_bar(d, 1) # {}
                                          /\ c.id.rev = 0
                                          /\ c.id.did \in VIRTIO_PCI_ID_MIN..VIRTIO_PCI_ID_MAX]]
  IN  Checked(pci_device_parse_config(c))

virtio_get_driver_features == {"INDIRECT_DESC", "EVENT_IDX"}

virtio_setup_features(c) == [c EXCEPT !.guest = c.features \cap virtio_get_driver_features]

\* The device of a driver: none, a panic or refusal, or ready for its queues.
virtio_setup_device(pci_bsf, did) ==
  {[d EXCEPT !.c = [virtio_setup_features(d.c) EXCEPT !.status = "DRIVER"]] :
     d \in {d \in {virtio_parse_pci_config(c) : c \in find_pci(pci_bsf, 6900, did)} : d.id.ok}}

\* The MSI-X table: only pci_msix_enable maps its BAR; before, its address is
\* the offset it has in a BAR at address 0.
msix_get_table(d) ==
  IF \E b \in pci_get_bar(d, d.c.msix.bir + 1) : b.mapped THEN "table" ELSE "low memory"

\* Where entry e of the table is written to, if at all.
pci_msix_write_entry(d, e) ==
  IF d.have # "msix" \/ e > Len(d.c.msix.masked) THEN {} ELSE {msix_get_table(d)}

\* The interrupts of the device: the first two entries of its table, then the
\* I/O APIC's lines; then the device is told that its driver is there.
virtio_device_ready(d) ==
  [d |-> [d EXCEPT !.c = [@ EXCEPT !.status = "DRIVER_OK"]],
   wrote |-> pci_msix_write_entry(d, 1) \cup pci_msix_write_entry(d, 2)]
-----------------------------------------------------------------------------
\* The BARs that a function has: where each starts, what it decodes.
Decodes(c, k) == k \in 1..6 /\ c.wired[k].kind \in {"io", "mem", "mem64"} /\ c.bar[k] # 0

AddressOf(c, k) ==
  LET lo == c.bar[k] - c.wired[k].low
  IN  IF c.wired[k].kind = "mem64" THEN c.bar[k + 1] * U32 + lo ELSE lo

SizeOfBar(c, k) ==
  IF c.wired[k].kind = "mem64" THEN c.wired[k].size * c.wired[k + 1].size ELSE c.wired[k].size

\* Reading a device's configuration finds exactly the ranges it decodes, with
\* the kind, place and size of each, although sizing writes all ones to them
\* one by one, and leaves every register as it was but for the bits that turn
\* the ranges on.  A list of capabilities that runs in a circle is given up.
BarsAsDecoded(c) ==
  \A d \in {pci_device_parse_config(c)} :
      /\ d.c = [c EXCEPT !.command = @ \cup {"mem", "io"}]
      /\ d.bars = {[pos |-> k, mmio |-> c.wired[k].kind # "io", is_64 |-> c.wired[k].kind = "mem64",
                    size |-> SizeOfBar(c, k), prefetchable |-> c.wired[k].low \in {8, 12},
                    addr |-> AddressOf(c, k), mapped |-> FALSE] : k \in {j \in 1..6 : Decodes(c, j)}}
      /\ d.have = "msix" => \E o \in DOMAIN c.caps : c.caps[o].id = PCI_CAP_MSIX

\* While MSI-X is being turned on no interrupt can come out of an entry that
\* firmware left unmasked, and in the end it is on, legacy interrupts are off
\* and every entry is masked.
NoStrayInterrupt(c) ==
  LET Open(s) == s.msix.enable /\ ~s.msix.fmask /\ \E e \in DOMAIN s.msix.masked : ~s.msix.masked[e]
  IN  \A d \in {pci_device_parse_config(c)} : \A steps \in {pci_msix_enable(d)} : Len(steps) > 1 =>
        /\ \A i \in DOMAIN steps : ~Open(steps[i])
        /\ LET last == Last(steps)
           IN  last.msix.enable /\ ~last.msix.fmask /\ "intx_disable" \in last.command

\* A driver gets the first function of the scan that has its identity, never
\* one it cannot drive, and never tells the device of a feature that either of
\* them lacks.
DriversFindDevices(fs) ==
  LET bsf == init_pci(fs)
  IN  \A r \in virtio_setup_device(bsf, VIRTIO_PCI_ID_MIN) :
        /\ r.c.guest \subseteq r.c.features
        /\ \A f \in fs : f.id = r.c.id /\ f.bdf # r.c.bdf /\ f.bdf \in (0..(Buses - 1)) \X (0..(Slots - 1)) \X (0..(Funcs - 1))
                           => \E i, j \in DOMAIN bsf : i < j /\ bsf[i].bdf = r.c.bdf /\ bsf[j] = f
-----------------------------------------------------------------------------
\* The sizes of the structures: u16 and u32 words in the order declared.
u16 == 2
vring_desc == 8 + 4 + 2 + 2
vring_used_elem == 4 + 4

\* Where ring[i] of the available and of the used ring lies; both begin with
\* flags and idx.
vring_avail(at, i) == at + 2 * u16 + i * u16
vring_used(at, i) == at + 2 * u16 + i * vring_used_elem

Up(a) == ((a + ALIGN - 1) \div ALIGN) * ALIGN

\* Mutant: the words around the available ring are not counted.
vring_initShort(num, p) ==
  LET avail == p + num * vring_desc
  IN  [desc |-> p, avail |-> avail, used |-> Up(avail + num * u16)]

\* The addresses of the parts in the memory at p.
vring_init(num, p) ==
  LET avail == p + num * vring_desc
  IN  [desc |-> p, avail |-> avail, used |-> Up(vring_avail(avail, num) + u16)]

\* The memory the driver allocates for them.
vring_size(num) == Up(vring_desc * num + u16 * (3 + num)) + u16 * 3 + vring_used_elem * num

vring_used_event(vr, num) == vring_avail(vr.avail, num)
vring_avail_event(vr, num) == vring_used(vr.used, num)
-----------------------------------------------------------------------------
\* In the memory of vring_size at an aligned address, vring_init lays out the
\* descriptors, the available and the used ring, and the word behind each ring
\* (vring_used_event and vring_avail_event), so that no two share a byte and
\* each is aligned as its words, the used ring, which the device writes, on a
\* page of its own; memory for one byte less would be too short.
RingsApart(num, p) ==
  LET vr == vring_init(num, p)
      end == p + vring_size(num)
      starts == <<vr.desc, vr.avail, vring_used_event(vr, num), vr.used, vring_avail_event(vr, num)>>
      ends == <<vr.desc + num * vring_desc, vring_avail(vr.avail, num), vring_used_event(vr, num) + u16,
                vring_used(vr.used, num), vring_avail_event(vr, num) + u16>>
  IN  /\ \A i \in 1..5 : starts[i] <= ends[i] /\ (i > 1 => ends[i - 1] <= starts[i])
      /\ vr.used % ALIGN = 0 /\ ends[3] > vr.used - ALIGN
      /\ ends[5] = end
=============================================================================
