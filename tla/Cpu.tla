--------------------------------- MODULE Cpu ---------------------------------
(***************************************************************************)
(* What a processor is told and asked at boot and in a trap: the features  *)
(* (arch/x86_64/cpu.c), the gates of the IDT, the jump at address 0 and    *)
(* the segment registers (pm64.c), and the call stacks that the handlers   *)
(* of trap.c and cprint_regs of cpu.c print.                               *)
(*                                                                         *)
(* Instruction patching at boot: arch/x86_64/alternative.c.  Memory is a   *)
(* function from addresses to bytes, as far as the code looks at them: the *)
(* first byte of an instruction is a record of its kind, its length and    *)
(* its displacement (or, for "op", a number), the others are "tail".  An   *)
(* entry of the table is [instr, instrlen, repl, replacementlen].          *)
(*                                                                         *)
(* The real-time clock (arch/x86_64/time.c) and the conversion of its date *)
(* (mktime64 of kernel/timer.c).  The clock is the sequence of the states  *)
(* that it goes through while it is being read, clock[1], clock[2], ...,   *)
(* each a record [uip, reg]; at[k] is the state that the k-th access sees, *)
(* and the accesses after those see the last one.                          *)
(***************************************************************************)
EXTENDS Integers, Sequences, FiniteSets, SequencesExt

CONSTANTS WINDOW,   \* 0x4000 bytes of stack, in words
          DEPTH,    \* 10: a walk stops before this frame
          BYTES     \* the number of values of a byte
CONSTANT ASM_NOP_MAX

\* A register is the set of its bits that are set.  cpu[leaf, subleaf] is
\* what the processor answers.
Leaf1 == {<<"sse3", 0>>, <<"ssse3", 9>>, <<"cmpxchg16b", 13>>, <<"sse4_1", 19>>, <<"sse4_2", 20>>,
          <<"x2apic", 21>>, <<"tsc_deadline", 24>>, <<"xsave", 26>>, <<"osxsave", 27>>, <<"avx", 28>>,
          <<"rdrand", 30>>}
Leaf1Edx == {<<"clflush", 19>>}
Leaf7Ebx == {<<"fsgsbase", 0>>, <<"repmovsb", 9>>}
Named(table, reg) == {f[1] : f \in {g \in table : g[2] \in reg}}

\* cpuid takes its subleaf from ecx.
native_cpuid(cpu, eax, ecx) == cpu[eax, ecx]

\* Mutant: the bits of leaf 7 are looked for in the registers of leaf 1.
init_cpuidStale(cpu) ==
  LET one == native_cpuid(cpu, 1, {})
  IN  Named(Leaf1, one.ecx) \cup Named(Leaf1Edx, one.edx) \cup Named(Leaf7Ebx, one.ebx)

\* cpu_features.  The second call passes what the first left in ecx.
init_cpuid(cpu) ==
  LET one == native_cpuid(cpu, 1, {})
      seven == native_cpuid(cpu, 7, one.ecx)
  IN  Named(Leaf1, one.ecx) \cup Named(Leaf1Edx, one.edx) \cup Named(Leaf7Ebx, seven.ebx)

\* CR4 of the boot processor and of another one, from what it was.
cr4_bp(cpu, cr4) == cr4 \cup (init_cpuid(cpu) \cap {"fsgsbase"})
init_cpuid_ap(features, cr4) == cr4 \cup (features \cap {"fsgsbase"})
-----------------------------------------------------------------------------
\* An address is a sequence of eight bytes, the lowest first.
set_int_vector(ist, addr) ==
  [offset0 |-> SubSeq(addr, 1, 2), offset1 |-> SubSeq(addr, 3, 4), offset2 |-> SubSeq(addr, 5, 8),
   ist |-> ist, present |-> TRUE]

\* The jmp at address 0: its opcode and four bytes of displacement.
jmp_zero_hook(test) ==
  <<"jmp">> \o [i \in 1..4 |-> ((test - 5) \div BYTES^(i - 1)) % BYTES]
-----------------------------------------------------------------------------
\* The registers of a processor: the area its GDT and its TSS are in and its
\* GS base points to, "none" before; busy are the TSS that ltr has marked.
\* Loading a segment register sets its base to the descriptor's, 0.
lgdt(r, area) == [r EXCEPT !.gdt = area]
write_gs(r) == [r EXCEPT !.gs = "0"]
ltr(r) == [r EXCEPT !.tss = r.gdt, !.busy = @ \cup {r.gdt}, !.fault = @ \/ r.gdt \in r.busy]
set_gs_base(r, area) == [r EXCEPT !.gs = area]

\* Mutant: the base is set before the segment register is loaded.
bootup_cpuEarly(r, area) == ltr(write_gs(set_gs_base(lgdt(r, area), area)))

bootup_cpu(r, area) == set_gs_base(ltr(write_gs(lgdt(r, area))), area)

init_cpu_bp(r) == bootup_cpu(r, "__per_cpu_load")
bootup_cpu_bp(r, cpu_base) == bootup_cpu(r, cpu_base[0])
bootup_cpu_ap(r, cpu_base, apicid) == bootup_cpu(r, cpu_base[apicid])
-----------------------------------------------------------------------------
\* A walk over frames: mem[p] is the frame that the frame at p saved.  It
\* returns the frames printed and whether it ends.  Within(p) is the test at
\* the top of the loop, before the count.
Within(rbp, p) == p >= rbp /\ p < rbp + WINDOW

\* Mutant: the walk prints where it has gone on to.
RECURSIVE trap_walkLate(_, _, _, _)
trap_walkLate(mem, rbp, p, n) ==
  IF Within(rbp, p) /\ n + 1 < DEPTH THEN <<mem[p]>> \o trap_walkLate(mem, rbp, mem[p], n + 1) ELSE <<>>

\* default_trap prints a frame and goes on to the next ...
RECURSIVE trap_walk(_, _, _, _)
trap_walk(mem, rbp, p, n) ==
  IF Within(rbp, p) /\ n + 1 < DEPTH THEN <<p>> \o trap_walk(mem, rbp, mem[p], n + 1) ELSE <<>>

\* ... default_exception and cprint_regs go on first.
RECURSIVE exception_walk(_, _, _, _)
exception_walk(mem, rbp, p, n) ==
  IF Within(rbp, p) /\ n + 1 < DEPTH THEN <<mem[p]>> \o exception_walk(mem, rbp, mem[p], n + 1) ELSE <<>>

\* A trap below 15 does not return; the timer's is only counted.
default_trap(trapno, timer, mem, rbp) ==
  [frames |-> IF timer THEN <<>> ELSE <<rbp>> \o trap_walk(mem, rbp, rbp, 0), returns |-> timer \/ trapno >= 15]

\* Nothing is printed of a stack beyond the memory.
default_exception(rsp, max_phy_mem_addr, mem, rbp) ==
  [frames |-> IF rsp > max_phy_mem_addr THEN <<>> ELSE <<rbp>> \o exception_walk(mem, rbp, rbp, 0),
   returns |-> FALSE]

cprint_regs(mem, rbp) == exception_walk(mem, rbp, rbp, 0)

\* default_syscall does not count: in a circle of frames it goes on for ever,
\* and is cut off here after steps frames, inside the window.
RECURSIVE syscall_walk(_, _, _, _)
syscall_walk(mem, rbp, p, steps) ==
  IF ~Within(rbp, p) \/ steps = 0 THEN <<>> ELSE <<mem[p]>> \o syscall_walk(mem, rbp, mem[p], steps - 1)
default_syscall(mem, rbp) == <<rbp>> \o syscall_walk(mem, rbp, rbp, Cardinality(DOMAIN mem) + 1)
-----------------------------------------------------------------------------
\* A feature is taken for present only if the processor has it, whatever the
\* call for leaf 7 is given in ecx; all of leaf 1 is found; and every
\* processor has fsgsbase on exactly when the code is told that it has, so
\* that none meets an instruction that another one enabled.
FeaturesTrue(cpu, cr4) ==
  LET has == Named(Leaf1, cpu[1, {}].ecx) \cup Named(Leaf1Edx, cpu[1, {}].edx) \cup Named(Leaf7Ebx, cpu[7, {}].ebx)
      found == init_cpuid(cpu)
  IN  /\ found \subseteq has
      /\ has \ found \subseteq {f[1] : f \in Leaf7Ebx}
      /\ cr4_bp(cpu, cr4) = init_cpuid_ap(found, cr4)
      /\ "fsgsbase" \in found <=> "fsgsbase" \in cr4_bp(cpu, cr4) \ cr4

\* The processor puts a gate's three parts together to the handler's address,
\* and its jump from address 0, whose end is at 5, lands on test.
GatesLead(ist, addr, test) ==
  LET e == set_int_vector(ist, addr)
      code == jmp_zero_hook(test)
  IN  /\ e.offset0 \o e.offset1 \o e.offset2 = addr
      /\ (5 + code[2] + code[3] * BYTES + code[4] * BYTES^2 + code[5] * BYTES^3) % BYTES^4 = test % BYTES^4

\* Once it has booted, a processor's GDT, TSS and GS base are in one area,
\* its own: the boot processor's first in the image, then the first in
\* cpu_base.  No TSS is loaded a second time, which would fault.
OneAreaEach(cpu_base, apicid) ==
  LET off == [gdt |-> "none", tss |-> "none", gs |-> "none", busy |-> {}, fault |-> FALSE]
      bp1 == init_cpu_bp(off)
      bp2 == bootup_cpu_bp(bp1, cpu_base)
      ap == bootup_cpu_ap([off EXCEPT !.busy = bp2.busy], cpu_base, apicid)
      Of(r, area) == r.gdt = area /\ r.tss = area /\ r.gs = area /\ ~r.fault
  IN  Of(bp1, "__per_cpu_load") /\ Of(bp2, cpu_base[0]) /\ (apicid # 0 => Of(ap, cpu_base[apicid]))

\* Whatever the stack holds, a trap prints a bounded number of frames and
\* reads none but those in the window, and default_exception and cprint_regs
\* at most one beyond it.  When every frame lies above the one before it,
\* each handler prints the callers in order, and default_syscall, which does
\* not count, ends too.
CallersListed(mem, rbp) ==
  LET t == default_trap(13, FALSE, mem, rbp).frames
      e == default_exception(0, 0, mem, rbp).frames
      s == default_syscall(mem, rbp)
      Chain(c) == \A k \in 2..Len(c) : c[k] = mem[c[k - 1]]
      Rises == \A p \in DOMAIN mem : mem[p] > p
  IN  /\ Len(t) <= DEPTH /\ \A k \in DOMAIN t : Within(rbp, t[k])
      /\ Len(e) <= DEPTH /\ \A k \in 1..(Len(e) - 1) : Within(rbp, e[k])
      /\ Chain(Tail(t)) /\ Chain(e) /\ e = <<rbp>> \o cprint_regs(mem, rbp)
      /\ Rises => /\ Chain(s) /\ ~Within(rbp, Last(s))
                  /\ IsPrefix(Tail(t), e) /\ IsPrefix(e, s)
-----------------------------------------------------------------------------
Byte(kind, len, arg) == [kind |-> kind, len |-> len, arg |-> arg]
Insn(kind, len, arg) ==
  <<Byte(kind, len, arg)>> \o [k \in 1..(len - 1) |-> Byte("tail", 0, 0)]
-----------------------------------------------------------------------------
\* One no-operation of each length behind the other, and where the one of
\* each length begins.
p6nops == FlattenSeq([k \in 1..ASM_NOP_MAX |-> Insn("nop", k, 0)])
ideal_nops == [k \in 1..ASM_NOP_MAX |-> (k * (k - 1)) \div 2]

\* len bytes of no-operations, none longer than ASM_NOP_MAX.
RECURSIVE add_nops(_)
add_nops(len) ==
  IF len = 0 THEN <<>>
  ELSE LET noplen == IF len > ASM_NOP_MAX THEN ASM_NOP_MAX ELSE len
       IN  SubSeq(p6nops, ideal_nops[noplen] + 1, ideal_nops[noplen] + noplen) \o add_nops(len - noplen)

is_jmp(b) == b.kind = "jmp"

\* Mutant: the displacement of a short jump counted from its start.
recompute_jumpStart(a, buf) ==
  IF a.replacementlen # 5 THEN buf
  ELSE LET n_dspl == (a.repl + a.replacementlen + buf[1].arg) - a.instr
       IN  IF n_dspl >= 0 /\ n_dspl - 2 <= 127
           THEN Insn("jmp", 2, n_dspl) \o add_nops(3)
           ELSE Insn("jmp", 5, n_dspl - 5)

\* A five-byte jump, moved from the replacement to the instruction it replaces.
\* Only a forward jump becomes a two-byte one: the test for a backward one
\* compares a negative number with its own low byte.
recompute_jump(a, buf) ==
  IF a.replacementlen # 5 THEN buf
  ELSE LET n_dspl == (a.repl + a.replacementlen + buf[1].arg) - a.instr
       IN  IF n_dspl >= 0 /\ n_dspl - 2 <= 127
           THEN Insn("jmp", 2, n_dspl - 2) \o add_nops(3)
           ELSE Insn("jmp", 5, n_dspl - 5)

text_poke_early(text, addr, bytes) ==
  [p \in DOMAIN text |-> IF p \in addr..(addr + Len(bytes) - 1) THEN bytes[p - addr + 1] ELSE text[p]]

\* One entry.  Its feature number is checked to be a number of a feature, not
\* that the processor has it.
apply_alternative(text, a) ==
  LET copy == [k \in 1..a.replacementlen |-> text[a.repl + k - 1]]
      call == IF a.replacementlen = 5 /\ copy[1].kind = "call"
              THEN Insn("call", 5, copy[1].arg + (a.repl - a.instr))
              ELSE copy
      moved == IF a.replacementlen > 0 /\ is_jmp(copy[1]) THEN recompute_jump(a, call) ELSE call
      pad == IF a.instrlen > a.replacementlen THEN add_nops(a.instrlen - a.replacementlen) ELSE <<>>
  IN  text_poke_early(text, a.instr, moved \o pad)

\* From start to end: a later entry may overwrite what an earlier one wrote.
apply_alternatives(text, table) == FoldLeft(apply_alternative, text, table)
-----------------------------------------------------------------------------
\* What running the text from p does until control leaves p..end - 1: the
\* operations and calls in order, and where it goes.
RECURSIVE Does(_, _, _)
Does(text, p, end) ==
  IF p >= end THEN <<>>
  ELSE LET i == text[p]
           next == p + i.len
       IN  IF i.kind = "tail" \/ next > end THEN <<<<"broken", p>>>>
           ELSE CASE i.kind = "nop" -> Does(text, next, end)
                  [] i.kind = "op" -> <<<<"op", i.arg>>>> \o Does(text, next, end)
                  [] i.kind = "call" -> <<<<"call", next + i.arg>>>> \o Does(text, next, end)
                  [] i.kind = "jmp" -> <<<<"jmp", next + i.arg>>>>

\* A patched instruction does exactly what its last replacement does where
\* that stands: the same operations, the same call and jump targets, although
\* it runs elsewhere and a jump may have shrunk to two bytes; and the rest of
\* the text, other instructions and the replacements included, is untouched.
PatchedRight(text, table) ==
  LET new == apply_alternatives(text, table)
      IsLast(k) == \A j \in DOMAIN table : j > k => table[j].instr # table[k].instr
  IN  /\ \A k \in DOMAIN table : IsLast(k) =>
           LET a == table[k]
           IN  Does(new, a.instr, a.instr + a.instrlen) = Does(text, a.repl, a.repl + a.replacementlen)
      /\ \A p \in DOMAIN text :
           (\A k \in DOMAIN table : p \notin table[k].instr..(table[k].instr + table[k].instrlen - 1))
             => new[p] = text[p]
-----------------------------------------------------------------------------
Fields == 1..6   \* SECS, MINS, HOURS, DAY, MONTH, YEAR in the order they are read

Now(clock, at, k) == clock[IF k <= Len(at) THEN at[k] ELSE Len(clock)]
cmos_read(clock, at, k, f) == Now(clock, at, k).reg[f]

\* The date that the six accesses from k on give.
fill_rtcdate(clock, at, k) == [f \in Fields |-> cmos_read(clock, at, k + f - 1, f)]

CONV(x) == (x \div 16) * 10 + (x % 16)

\* Mutant: one reading, and the status register after it.
RECURSIVE cmostime(_, _, _, _)
cmostimeOnce(clock, at, k, bcd) ==
  LET t1 == fill_rtcdate(clock, at, k)
  IN  IF Now(clock, at, k + 6).uip THEN cmostime(clock, at, k + 7, bcd)
      ELSE [f \in Fields |-> (IF bcd THEN CONV(t1[f]) ELSE t1[f]) + (IF f = 6 THEN 2000 ELSE 0)]

\* Register B says whether the values are BCD; the date is read until it
\* reads twice the same with no update in progress in between.
cmostime(clock, at, k, bcd) ==
  LET t1 == fill_rtcdate(clock, at, k)
      t2 == fill_rtcdate(clock, at, k + 7)
  IN  IF Now(clock, at, k + 6).uip THEN cmostime(clock, at, k + 7, bcd)
      ELSE IF t1 # t2 THEN cmostime(clock, at, k + 13, bcd)
      ELSE [f \in Fields |-> (IF bcd THEN CONV(t1[f]) ELSE t1[f]) + (IF f = 6 THEN 2000 ELSE 0)]

\* Mutant: the year begins in January.
mktime_daysJanuary(year0, mon0, day) ==
  (year0 \div 4) - (year0 \div 100) + (year0 \div 400) + ((367 * mon0) \div 12) + day + year0 * 365 - 719499

\* Seconds since 1970, from the count of days; February is put last.  Every
\* operand is unsigned.
mktime_days(year0, mon0, day) ==
  LET early == mon0 <= 2
      mon == IF early THEN mon0 + 10 ELSE mon0 - 2
      year == IF early THEN year0 - 1 ELSE year0
  IN  (year \div 4) - (year \div 100) + (year \div 400) + ((367 * mon) \div 12) + day + year * 365 - 719499

mktime64(year0, mon0, day, hour, min, sec) ==
  ((mktime_days(year0, mon0, day) * 24 + hour) * 60 + min) * 60 + sec
-----------------------------------------------------------------------------
Bcd(x) == (x \div 10) * 16 + (x % 10)
Leap(y) == y % 4 = 0 /\ (y % 100 # 0 \/ y % 400 = 0)
MonthDays(y, m) == IF m = 2 THEN IF Leap(y) THEN 29 ELSE 28 ELSE IF m \in {4, 6, 9, 11} THEN 30 ELSE 31

\* A clock that shows date, as a sequence of field values, and goes on to
\* next: it raises the update flag, changes the registers one by one and
\* lowers the flag.
ClockRuns(date, next, bcd) ==
  LET Show(d) == [f \in Fields |-> IF bcd THEN Bcd(d[f]) ELSE d[f]]
  IN  [i \in 1..9 |-> [uip |-> i \in 2..8,
                       reg |-> [f \in Fields |-> IF f <= i - 2 THEN Show(next)[f] ELSE Show(date)[f]]]]

\* However the readings fall on an update of the clock, the date that
\* cmostime returns is one that the clock showed: never some registers from
\* before the update and some from after it.
DateNotTorn(date, next, bcd, at) ==
  LET got == cmostime(ClockRuns(date, next, bcd), at, 1, bcd)
      With(d) == [f \in Fields |-> d[f] + (IF f = 6 THEN 2000 ELSE 0)]
  IN  got \in {With(date), With(next)}

\* mktime64 counts the days of the calendar: a day is one more than the day
\* before it, over the ends of months, of leap years and of centuries, and
\* the count begins on 1 January 1970.
DaysCounted(y, m, d) ==
  LET prev == IF d > 1 THEN <<y, m, d - 1>>
              ELSE IF m > 1 THEN <<y, m - 1, MonthDays(y, m - 1)>> ELSE <<y - 1, 12, 31>>
  IN  /\ mktime_days(y, m, d) = mktime_days(prev[1], prev[2], prev[3]) + 1
      /\ mktime64(1970, 1, 1, 0, 0, 0) = 0
      /\ y \in 1971..2037 => mktime64(prev[1], prev[2], prev[3], 23, 59, 59) + 1 = mktime64(y, m, d, 0, 0, 0)
=============================================================================
