-------------------------------- MODULE Acpi --------------------------------
(***************************************************************************)
(* How the boot processor finds the others, and what it prepares for them: *)
(* arch/x86_64/acpi.c, and init_cpu with all it calls and init_idt of      *)
(* pm64.c.  What firmware leaves in memory is a record of                  *)
(*   ebda   the address at 0x40E, 0 if there is none,                      *)
(*   rsdps  the places that carry the signature "RSD PTR ": address, sum   *)
(*          of 20 bytes, and the tables its RSDT lists,                    *)
(* where a table has a signature and, for "APIC", its length and entries   *)
(* [type, len, id, enabled].                                               *)
(*                                                                         *)
(* Interrupt routing: the two ways of driving a local APIC (apic.c and the *)
(* wrappers of asm/apic.h), the I/O APIC (ioapic.c) and the periodic timer *)
(* that feeds it (hpet.c).  A write of the interrupt command register is   *)
(* kept as the 32-bit command and the destination; an x2APIC takes both in *)
(* one 64-bit register, an xAPIC the destination, in the top 8 bits of a   *)
(* register of its own, first.                                             *)
(***************************************************************************)
EXTENDS Integers, Sequences, FiniteSets, SequencesExt

CONSTANTS
  MAX_CPUS,
  Areas        \* how many per-CPU areas kalloc can give
CONSTANTS
  ApicCpus,        \* APIC ids of the machine
  MaxIntr,         \* the last line of the I/O APIC
  FSEC_PER_NSEC,
  MSEC_PER_NSEC,
  HPET_U32         \* 2^32, scaled down like the two before

RDSP_SIZE == 36
MADT_SIZE == 44
TYPE_LAPIC == 0
TYPE_IOAPIC == 1
SizeOf == [t \in {TYPE_LAPIC, TYPE_IOAPIC} |-> IF t = TYPE_LAPIC THEN 8 ELSE 12]
-----------------------------------------------------------------------------
\* Descriptor tables and stacks of a processor (pm64.c).

EXCEPTION_STKSZ == 4096
DEBUG_STKSZ == 2 * 4096
IRQ_STACK_SIZE == 4 * 4096
DOUBLEFAULT_STACK == 1
NMI_STACK == 2
DEBUG_STACK == 3
MCE_STACK == 4
DEFAULT_EXCEPT_STACK == 5
IRQ_STACK == 6
N_EXCEPTION_STACKS == 6

exception_stack_sizes ==
  [v \in 0..N_EXCEPTION_STACKS |-> IF v = DEBUG_STACK THEN DEBUG_STKSZ
                                   ELSE IF v = IRQ_STACK THEN IRQ_STACK_SIZE ELSE EXCEPTION_STKSZ]

\* The size of a processor's exception_stacks, which stand for its area.
PERCPU == (N_EXCEPTION_STACKS - 2) * EXCEPTION_STKSZ + DEBUG_STKSZ + IRQ_STACK_SIZE

\* Mutant: the top of a stack is taken before the stack is counted.
init_istLow(base) ==
  [v \in 1..N_EXCEPTION_STACKS |->
     base + FoldLeft(+, 0, [k \in 1..(v - 1) |-> exception_stack_sizes[k]])]

\* The tops of the stacks, laid out upwards from the area's start.
init_ist(base) ==
  [v \in 1..N_EXCEPTION_STACKS |->
     base + FoldLeft(+, 0, [k \in 1..v |-> exception_stack_sizes[k]])]

irq_stack_ptr(ist) == ist[IRQ_STACK] - 64

\* The stack of every vector; 0x80 stays on the stack it interrupts.
init_idt ==
  [v \in 0..255 |->
     CASE v = 128 -> 0
       [] v = 2 -> NMI_STACK
       [] v = 8 -> DOUBLEFAULT_STACK
       [] v = 18 -> MCE_STACK
       [] v \in {1, 3} -> DEBUG_STACK
       [] v \in (0..31) \ {1, 2, 3, 8, 18} -> DEFAULT_EXCEPT_STACK
       [] OTHER -> IRQ_STACK]

init_percpu(n) == [cpu_number |-> n, irq_count |-> -1, tasklet_count |-> -1]

\* The two words of the TSS descriptor, lowest byte first: limit 0x67, type
\* 0x89, and the eight bytes of the address spread around them.
init_arch_cpu(a) ==
  <<103, 0, a[1], a[2], a[3], 137, 0, a[4], a[5], a[6], a[7], a[8], 0, 0, 0, 0>>

\* The address the processor reads back out of a TSS descriptor.
DescriptorBase(d) == <<d[3], d[4], d[5], d[8], d[9], d[10], d[11], d[12]>>

\* Where the TSS of the n-th area lies, in bytes: above 4G from some area on.
TssAddress(n) == <<n, n + 1, n + 2, n + 3, n \div 2, n, 0, 0>>

\* The next processor: its number is its place, whatever its APIC id.
init_cpu(s, apicid) ==
  CASE apicid > MAX_CPUS -> [s EXCEPT !.panic = "MAX_CPUS"]
    [] apicid <= MAX_CPUS /\ Len(s.cpus) >= Areas -> [s EXCEPT !.panic = "No memory"]
    [] OTHER -> LET base == Len(s.cpus) * PERCPU
                    n == Len(s.cpus)
                IN  [s EXCEPT !.cpus = Append(@, [apic_id |-> apicid, base |-> base, ist |-> init_ist(base),
                                                  percpu |-> init_percpu(n), tss |-> init_arch_cpu(TssAddress(n))])]
-----------------------------------------------------------------------------
\* Every fourth byte from base on, as long as a whole structure is left.
scan_rdsp(rsdps, base, len) ==
  LET hits == {p \in rsdps : /\ p.addr >= base
                             /\ (p.addr - base) % 4 = 0
                             /\ len - (p.addr - base) >= RDSP_SIZE
                             /\ p.sum % 256 = 0}
  IN  {p \in hits : \A q \in hits : p.addr <= q.addr}

find_rdsp(fw) ==
  LET low == IF fw.ebda = 0 THEN {} ELSE scan_rdsp(fw.rsdps, fw.ebda, 1024)
  IN  IF low # {} THEN low ELSE scan_rdsp(fw.rsdps, 917504, 131072)

\* One entry of the MADT: an enabled processor, or the first I/O APIC.
entry(s, e) ==
  CASE e.type = TYPE_LAPIC /\ e.len >= SizeOf[TYPE_LAPIC] /\ e.enabled -> init_cpu(s, e.id)
    [] e.type = TYPE_IOAPIC /\ e.len >= SizeOf[TYPE_IOAPIC] ->
         [s EXCEPT !.ioapicid = IF s.nioapic = 0 THEN e.id ELSE @, !.nioapic = @ + 1]
    [] OTHER -> s

\* The entries that lie in the table as a whole.  One of length 0 is read for
\* ever.
RECURSIVE entries(_, _, _)
entries(s, es, left) ==
  CASE es = <<>> \/ left < 2 \/ s.panic # "" -> s
    [] es # <<>> /\ left >= 2 /\ s.panic = "" /\ left < Head(es).len -> s
    [] es # <<>> /\ left >= 2 /\ s.panic = "" /\ Head(es).len = 0 -> [s EXCEPT !.panic = "stuck"]
    [] OTHER -> entries(entry(s, Head(es)), Tail(es), left - Head(es).len)

acpi_config_smp(s, madt) ==
  IF madt = {} \/ \E t \in madt : t.length < MADT_SIZE THEN s
  ELSE LET t == CHOOSE x \in madt : TRUE
           r == entries(s, t.entries, t.length - MADT_SIZE)
       IN  [r EXCEPT !.ret = IF r.cpus = <<>> THEN -1 ELSE 0]

\* The last table with the signature counts.  Without an RSDP the code goes on
\* with a null pointer.
init_acpi(fw) ==
  LET none == [cpus |-> <<>>, ioapicid |-> 0, nioapic |-> 0, ret |-> -1, panic |-> ""]
      tables == (CHOOSE p \in find_rdsp(fw) : TRUE).tables
      madts == SelectSeq(tables, LAMBDA t : t.sig = "APIC")
  IN  IF find_rdsp(fw) = {} THEN [none EXCEPT !.panic = "null"]
      ELSE acpi_config_smp(none, IF madts = <<>> THEN {} ELSE {Last(madts)})
-----------------------------------------------------------------------------
\* Where the k-th entry of a table ends.
EndOf(t, k) == MADT_SIZE + FoldLeft(+, 0, [j \in 1..k |-> t.entries[j].len])

\* The processors that a table announces: the enabled ones whose entries are
\* complete and inside the table.
Announced(t) ==
  LET in == SelectSeq([k \in DOMAIN t.entries |-> <<t.entries[k], EndOf(t, k) <= t.length>>], LAMBDA x : x[2])
  IN  [k \in DOMAIN in |-> in[k][1]]

\* The stack that vector v takes on processor c: the interval below its top.
StackOf(c, v) == LET n == init_idt[v] IN <<c.ist[n] - exception_stack_sizes[n], c.ist[n]>>

Apart(a, b) == a[2] <= b[1] \/ b[2] <= a[1]

\* Whatever firmware lists, in whatever order and with whatever between, the
\* enabled processors get the places 0, 1, ... in that order, each once, and
\* interrupt routing uses the first I/O APIC; and no two stacks that can be in
\* use at once overlap, on one processor (an NMI in a machine check in an
\* interrupt) or on two, or leave the processor's own area; below the top of
\* the interrupt stack there is room for the seven words of a trap frame, and
\* the task register leads each processor to its own TSS, 4G or not.
ProcessorsFound(fw) ==
  LET s == init_acpi(fw)
      rsdp == CHOOSE p \in find_rdsp(fw) : TRUE
      madts == SelectSeq(rsdp.tables, LAMBDA t : t.sig = "APIC")
      all == Announced(Last(madts))
      ids == SelectSeq(all, LAMBDA e : e.type = TYPE_LAPIC /\ e.enabled /\ e.len >= 8)
      ios == SelectSeq(all, LAMBDA e : e.type = TYPE_IOAPIC /\ e.len >= 12)
  IN  s.panic = "" /\ s.ret = 0 =>
        /\ rsdp.sum % 256 = 0
        /\ [k \in DOMAIN s.cpus |-> s.cpus[k].apic_id] = [k \in DOMAIN ids |-> ids[k].id]
        /\ s.ioapicid = IF ios = <<>> THEN 0 ELSE Head(ios).id
        /\ \A i \in DOMAIN s.cpus :
             /\ s.cpus[i].percpu.cpu_number = i - 1
             /\ DescriptorBase(s.cpus[i].tss) = TssAddress(i - 1)
        /\ \A i, j \in DOMAIN s.cpus : \A u, v \in {1, 2, 8, 13, 18, 32, 239} :
             LET c == s.cpus[i]
                 d == s.cpus[j]
             IN  /\ i # j \/ init_idt[u] # init_idt[v] => Apart(StackOf(c, u), StackOf(d, v))
                 /\ StackOf(c, u)[1] >= c.base /\ StackOf(c, u)[2] <= c.base + PERCPU
                 /\ irq_stack_ptr(c.ist) <= c.ist[IRQ_STACK] - 7 * 8
-----------------------------------------------------------------------------
T_IRQ0 == 32
TIMER_IRQ == 2
SPURIOUS_APIC_VECTOR == 255
LOCAL_TIMER_VECTOR == 239
FIXED_DELIVERY == 0
NMI_DELIVERY == 4
INIT_DELIVERY == 5
STARTUP_DELIVERY == 6
APIC_ICR_LEVEL_ASSERT == 2^14
APIC_SHORTHAND_SELF == 2^18
APIC_SHORTHAND_ALLBUTSELF == 3 * 2^18

Set(v, bit) == IF (v \div bit) % 2 = 1 THEN v ELSE v + bit
Command(v, dest) == [v |-> v, dest |-> dest]
lapic_delivery(mode) == mode * 256
-----------------------------------------------------------------------------
\* The commands that each method of a driver writes.

x2apic_ipi(id, v) == Command(Set(v, APIC_ICR_LEVEL_ASSERT), id)
x2apic_init_ipi(id, v) == Command(v, id)
x2apic_ipi_allbutself(v) == Command(Set(v + APIC_SHORTHAND_ALLBUTSELF, APIC_ICR_LEVEL_ASSERT), 0)
x2apic_nmi_allbutself == x2apic_ipi_allbutself(lapic_delivery(NMI_DELIVERY))
x2apic_self_ipi(v) == Command(v + APIC_SHORTHAND_SELF, 0)

\* Mutant: the destination is written to the register unshifted.
xapic_ipiLow(id, v) == Command(Set(v, APIC_ICR_LEVEL_ASSERT), 0)

\* Shifted by 24, 8 bits of the id are left.
xapic_ipi(id, v) == Command(Set(v, APIC_ICR_LEVEL_ASSERT), id % 256)
xapic_init_ipi(id, v) == xapic_ipi(id, v)
xapic_ipi_allbutself(v) == Command(Set(v + APIC_SHORTHAND_ALLBUTSELF, APIC_ICR_LEVEL_ASSERT), 0)
xapic_nmi_allbutself == Command(lapic_delivery(NMI_DELIVERY) + APIC_SHORTHAND_ALLBUTSELF, 0)
\* The shorthand goes where the id belongs, and is shifted out.
xapic_self_ipi(v) == xapic_ipi(APIC_SHORTHAND_SELF, v)

lapic_ipi(x2, id, v) == IF x2 THEN x2apic_ipi(id, v) ELSE xapic_ipi(id, v)
lapic_init_ipi(x2, id, v) == IF x2 THEN x2apic_init_ipi(id, v) ELSE xapic_init_ipi(id, v)
lapic_ipi_allbutself(x2, v) == IF x2 THEN x2apic_ipi_allbutself(v) ELSE xapic_ipi_allbutself(v)
lapic_nmi_allbutself(x2) == IF x2 THEN x2apic_nmi_allbutself ELSE xapic_nmi_allbutself

\* INIT and twice STARTUP, with the page of the start code as the vector.
lapic_start_ap(x2, id, addr) ==
  <<lapic_init_ipi(x2, id, 17664),
    lapic_init_ipi(x2, id, 17920 + addr \div 4096),
    lapic_init_ipi(x2, id, 17920 + addr \div 4096)>>

\* A local APIC: enabled globally, in x2APIC mode, by software, and LVT0.
lapic_software_enable(l) == [l EXCEPT !.lvt0 = 0, !.spiv = TRUE]
x2apic_enable(l) == IF l.x2 THEN l ELSE lapic_software_enable([l EXCEPT !.x2 = TRUE])
xapic_enable(l) == lapic_software_enable([l EXCEPT !.global = TRUE])

\* probe_apic takes the method from CPUID, then lapic_enable calls it.
init_lapic(l, has_x2) == IF has_x2 THEN x2apic_enable(l) ELSE xapic_enable(l)

\* The address that a device writes to, less the base, and the data.
apic_compose_msix(vector, dest) ==
  IF vector <= 15 THEN [dest |-> 0, data |-> 0]
  ELSE [dest |-> dest, data |-> lapic_delivery(FIXED_DELIVERY) + APIC_ICR_LEVEL_ASSERT + vector]
-----------------------------------------------------------------------------
\* The I/O APIC: one redirection entry for each line.

init_ioapic == [irq \in 0..MaxIntr |-> [masked |-> TRUE, vector |-> T_IRQ0 + irq, dest |-> 0]]

\* A line that the I/O APIC does not have is a register that it ignores.
ioapic_enable(t, irq, cpunum) ==
  IF irq > MaxIntr THEN t
  ELSE [t EXCEPT ![irq] = [masked |-> FALSE, vector |-> T_IRQ0 + irq, dest |-> cpunum]]

\* The HPET: counter, comparator, period of timer 0, and the enabling bits.
hpet_stop_counter(h) == [h EXCEPT !.enabled = FALSE]
hpet_start_counter(h) == [h EXCEPT !.enabled = TRUE]
hpet_reset_counter(h) == [h EXCEPT !.counter = 0]
hpet_restart_counter(h) == hpet_start_counter(hpet_reset_counter(hpet_stop_counter(h)))
hpet_enable_legacy_int(h) == [h EXCEPT !.legacy = TRUE]

\* Mutant: the period is taken in whole units of the counter's period.
hpet_deltaFs(period) == MSEC_PER_NSEC \div period

hpet_delta(period) == MSEC_PER_NSEC \div (period \div FSEC_PER_NSEC)

\* Comparator and period of timer 0, which SETVAL tells apart, are set from the
\* counter as it stood; then the counter starts again at 0.
init_hpet(h0, t0) ==
  LET h1 == hpet_stop_counter(h0)
      delta == hpet_delta(h1.period)
      h2 == [h1 EXCEPT !.t0 = TRUE, !.cmp = (h1.counter + delta) % HPET_U32, !.reload = delta]
      h3 == hpet_enable_legacy_int(hpet_restart_counter(hpet_start_counter(h2)))
      t1 == [irq \in 0..MaxIntr |-> IF irq < 100 THEN ioapic_enable(t0, irq, 0)[irq] ELSE t0[irq]]
  IN  [hpet |-> h3, ioapic |-> ioapic_enable(t1, TIMER_IRQ, 0)]
-----------------------------------------------------------------------------
\* Whom a command written by self interrupts, how, and with what vector.
Delivered(self, c) ==
  LET short == (c.v \div 2^18) % 4
      mode == (c.v \div 256) % 8
      to == CASE short = 0 -> {id \in ApicCpus : id = c.dest}
              [] short = 1 -> {self}
              [] short = 2 -> ApicCpus
              [] short = 3 -> ApicCpus \ {self}
  IN  {<<id, mode, IF mode \in {NMI_DELIVERY, INIT_DELIVERY} THEN 0 ELSE c.v % 256>> : id \in to}

\* With either method, whichever CPUID makes the kernel choose, an
\* interprocessor interrupt reaches the processors it names and no other, with
\* the vector asked for: starting a processor sends it INIT and the page of its
\* start code twice, "all but self" spares the sender, and an MSI-X message
\* carries the vector to its processor.
IpisDelivered(x2, self, id) ==
  /\ \A page \in {0, 7, 159} : \A k \in 1..3 :
       Delivered(self, lapic_start_ap(x2, id, 4096 * page)[k])
         = {IF k = 1 THEN <<id, INIT_DELIVERY, 0>> ELSE <<id, STARTUP_DELIVERY, page>>}
  /\ \A v \in {T_IRQ0, 128, LOCAL_TIMER_VECTOR} :
       /\ Delivered(self, lapic_ipi(x2, id, v)) = {<<id, FIXED_DELIVERY, v>>}
       /\ Delivered(self, lapic_ipi_allbutself(x2, v)) = {<<d, FIXED_DELIVERY, v>> : d \in ApicCpus \ {self}}
       /\ Delivered(self, Command(apic_compose_msix(v, id).data, apic_compose_msix(v, id).dest))
            = {<<id, FIXED_DELIVERY, v>>}
  /\ Delivered(self, lapic_nmi_allbutself(x2)) = {<<d, NMI_DELIVERY, 0>> : d \in ApicCpus \ {self}}
  /\ \A l \in [global : {TRUE}, x2 : {FALSE}, spiv : BOOLEAN, lvt0 : {0, 1}] : init_lapic(l, x2).spiv

\* The counter values at which timer 0 interrupts, the first n of them.
Ticks(h, n) == [k \in 1..n |-> (h.cmp + (k - 1) * h.reload) - h.counter]

\* Once init_ioapic and init_hpet are done, wherever firmware left the HPET's
\* counter, timer 0 counts, its interrupt comes to the first processor with
\* TIMER_VECTOR, every line has a vector of its own that is not one of an
\* exception; the first tick comes when the restarted counter reaches the
\* comparator that was set before the restart, and after that, if the counter's
\* period is a whole number of nanoseconds, ticks are a millisecond apart, less
\* than one count short (of another period, the division loses the fraction).
TimerTicks(period, counter) ==
  LET s == init_hpet([counter |-> counter, period |-> period, cmp |-> 0, reload |-> 0,
                      t0 |-> FALSE, enabled |-> TRUE, legacy |-> FALSE], init_ioapic)
      h == s.hpet
      ms == MSEC_PER_NSEC * FSEC_PER_NSEC
  IN  /\ h.enabled /\ h.legacy /\ h.t0 /\ h.counter = 0
      /\ s.ioapic[TIMER_IRQ] = [masked |-> FALSE, vector |-> T_IRQ0 + TIMER_IRQ, dest |-> 0]
      /\ \A i, j \in 0..MaxIntr : /\ s.ioapic[i].vector = s.ioapic[j].vector => i = j
                                  /\ s.ioapic[i].vector \in T_IRQ0..(LOCAL_TIMER_VECTOR - 1)
      /\ \A k \in 1..3 :
           LET gap == (Ticks(h, 4)[k + 1] - Ticks(h, 4)[k]) * period
           IN  period % FSEC_PER_NSEC = 0 => gap <= ms /\ gap > ms - period
      /\ Ticks(h, 1)[1] = (counter + h.reload) % HPET_U32
=============================================================================
