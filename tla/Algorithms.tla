----------------------------- MODULE Algorithms -----------------------------
(***************************************************************************)
(* The pure algorithms of the kernel, its libraries and its user programs, *)
(* each on bounded inputs: a behaviour is one algorithm, part, and one     *)
(* input, and the properties say what the code computes on it.             *)
(***************************************************************************)
EXTENDS Integers, Sequences, FiniteSets, SequencesExt

VARIABLES
  part,   \* what is looked at
  input   \* and, for an algorithm, on what

Memory == INSTANCE Multiboot WITH
  PAGE_SIZE <- 4, PD_PER_PTE <- 4, PML4_NR <- 4, IO_MEM_BASE <- 128, P4K <- 2, U64 <- 256, kernel_start <- 16,
  bss_end <- 18, init_heap_size <- 2, IOAPIC_BASE <- 61, MAX_IO_REMAPS <- 20, MAX_REVERSE <- 10, Pieces <- 8,
  SECTSIZE <- 4, SCRATCH <- 0, HEADER <- 16, MAGIC <- 77
Firmware == INSTANCE Acpi WITH
  MAX_CPUS <- 1024, Areas <- 3, ApicCpus <- {0, 1, 4, 255}, MaxIntr <- 23, FSEC_PER_NSEC <- 10,
  MSEC_PER_NSEC <- 100, HPET_U32 <- 256
Devices == INSTANCE Pci WITH
  U32 <- 1024, max_capabilities <- 4, Buses <- 2, Slots <- 2, Funcs <- 1, ALIGN <- 64
Str == INSTANCE Strings WITH BITS <- 2, SS <- 2, GROW <- 3, BYTE <- 2, LONG <- 4
Format == INSTANCE Printk WITH
  LONG <- 64, INT <- 32, SHORT <- 16, POINTER <- 2, max_ypos <- 2, max_xpos <- 2, Rows <- 4
Sh == INSTANCE Shell WITH MAXARGS <- 4, NBUF <- 6
Filter == INSTANCE Filters WITH DIRSIZ <- 3, PATHBUF <- 8
Path == INSTANCE Filters WITH DIRSIZ <- 2, PATHBUF <- 8
Cpus == INSTANCE Cpu WITH WINDOW <- 8, DEPTH <- 4, BYTES <- 4, ASM_NOP_MAX <- 8
-----------------------------------------------------------------------------
(* Memory maps of the firmware: holes, reserved zones and zones that begin   *)
(* or end within a page, below and above the I/O hole.                       *)
Zone(a, b, t) == [addr |-> a, size |-> b - a, type |-> t]
MCE820s ==
  {SelectSeq(<<Zone(0, a, 1), Zone(a, 13, 2), Zone(13, 13 + c, 2), Zone(16, d, 1), Zone(d, d + e, 2),
               Zone(56, 64, 2), Zone(64, g, 1)>>, LAMBDA z : z.size > 0) :
     a \in {9, 10, 12}, c \in {0, 2}, d \in {30, 32, 39, 44}, e \in {0, 3, 8}, g \in {64, 66, 72, 79, 80}}
-----------------------------------------------------------------------------
(* Firmware tables: checksums that fail, tables cut short, entries of other  *)
(* types and of no length.                                                   *)
Lapic(i, on) == [type |-> 0, len |-> 8, id |-> i, enabled |-> on]
IoApic(i) == [type |-> 1, len |-> 12, id |-> i, enabled |-> TRUE]
Unknown(n) == [type |-> 2, len |-> n, id |-> 9, enabled |-> TRUE]
ShortLapic == [type |-> 0, len |-> 6, id |-> 7, enabled |-> TRUE]
Madt(es, l) == [sig |-> "APIC", length |-> l, entries |-> es]
MCEntries ==
  {<<Lapic(0, TRUE), a, b, Lapic(c, TRUE), IoApic(6)>> :
     a \in {Lapic(4, TRUE), Lapic(4, FALSE), IoApic(5)}, b \in {Unknown(10), Unknown(0), ShortLapic}, c \in {1, 255}}
MCFirmwares ==
  {[ebda |-> e,
    rsdps |-> {[addr |-> p, sum |-> q,
                tables |-> <<[sig |-> "HPET"], Madt(<<Lapic(3, TRUE)>>, 52), Madt(es, l)>>],
               [addr |-> 917504 + 64, sum |-> 256, tables |-> <<Madt(<<Lapic(2, TRUE)>>, 52)>>]}] :
     e \in {0, 654336}, p \in {654336 + 8, 654336 + 1000, 917504 + 2}, q \in {512, 3},
     es \in MCEntries, l \in {40, 44, 53, 70, 83, 84, 95}}
-----------------------------------------------------------------------------
(* Alternative instructions, with jumps at the limits of the short form.     *)
Blank == [p \in 0..160 |-> Cpus!Byte("op", 1, 1)]
MCTexts ==
  {Cpus!text_poke_early(Cpus!text_poke_early(Blank, r, i), 155, Cpus!Insn("op", 3, 2)) :
     r \in {20, 148},
     i \in {Cpus!Insn("jmp", 5, d) : d \in {-130, -24, -23, -20, -5, 0, 1, 110, 111, 120, 125}} \cup
           {Cpus!Insn("call", 5, d) : d \in {-30, 0, 100}}}
Alt(i, il, r, rl) == [instr |-> i, instrlen |-> il, repl |-> r, replacementlen |-> rl]
MCTables ==
  {<<Alt(i, l, r, 5)>> \o t :
     i \in {1, 5, 130}, l \in {5, 6, 15}, r \in {20, 148},
     t \in {<<>>, <<Alt(60, 12, 155, 3)>>, <<Alt(60, 5, 155, 0)>>}} \cup
  {<<Alt(5, 6, 20, 5), Alt(5, 6, 155, 3)>>}
-----------------------------------------------------------------------------
(* PCI functions: I/O, 32 and 64 bit BARs, and capability lists with a loop. *)
Wire(k, low, size) == [kind |-> k, low |-> low, size |-> size]
None == Wire("none", 0, 1024)
Regs(w, a) ==
  [k \in 1..6 |-> CASE w[k].kind = "none" -> 0
                    [] w[k].kind = "hi" -> a * w[k].size
                    [] OTHER -> ((k * w[k].size) % 1024) + w[k].low]
MCWired ==
  {<<Wire("io", 1, 32), Wire("mem", m, 64)>> \o p \o <<q>> :
     m \in {0, 8}, q \in {None, Wire("io", 1, 4)},
     p \in {<<None, Wire("mem64", 12, 128), Wire("hi", 0, 1)>>,
            <<Wire("mem64", 4, 1024), Wire("hi", 0, 2), Wire("mem", 0, 16)>>,
            <<None, None, Wire("mem", 8, 256)>>}}
MCCaps ==
  {[o \in {64, 80, 96} |-> CASE o = 64 -> [id |-> 9, next |-> 80]
                             [] o = 80 -> [id |-> i, next |-> n]
                             [] o = 96 -> [id |-> j, next |-> 0]] :
     i \in {5, 17}, j \in {9, 17}, n \in {0, 64, 96}}
Function(bdf, did, w, a, caps, masked) ==
  [bdf |-> bdf, id |-> [vid |-> 6900, did |-> did, rev |-> 0, ok |-> FALSE],
   bar |-> Regs(w, a), wired |-> w, command |-> {}, ptr |-> IF caps = <<>> THEN 0 ELSE 64, caps |-> caps,
   msix |-> [enable |-> FALSE, fmask |-> FALSE, bir |-> 1, masked |-> masked],
   features |-> {"EVENT_IDX", "MAC"}, guest |-> {}, status |-> "0"]
Plain == {Function(<<b, s, f>>, d, [k \in 1..6 |-> None], 0, <<>>, <<>>) :
            b \in {0, 1}, s \in {0, 2}, f \in {0, 1}, d \in {4096, 1}}
Virtio == {Function(<<0, 1, 0>>, 4096, w, a, cs, <<FALSE, FALSE, TRUE>>) :
             w \in MCWired, a \in {0, 3}, cs \in MCCaps}
MCFunctions == Plain \cup Virtio
MCMachines == {{CHOOSE c \in Virtio : TRUE, f, g} : f, g \in Plain} \cup {{c} : c \in Virtio}
-----------------------------------------------------------------------------
(* Texts for the C library's string functions, 0-terminated in whole words.  *)
Words(A, N) == UNION {[1..n -> A] : n \in N}
Text(s) == [i \in 0..(2 * ((Len(s) + 2) \div 2) - 1) |-> IF i < Len(s) THEN s[i + 1] ELSE 0]
MCHaystacks == {Text(s) : s \in Words({1, 2}, {0, 1, 4, 6, 8})}
MCBlocks == {[i \in 0..5 |-> IF i < 4 THEN s[i + 1] ELSE IF i = 4 THEN x ELSE 0] : s \in [1..4 -> 0..3], x \in {0, 3}}
-----------------------------------------------------------------------------
(* Conversions of printk.                                                    *)
MCFlags == {<<>>, <<"-">>, <<"0">>, <<"#">>, <<"+">>, <<" ">>, <<"-", "0">>, <<"#", "0">>, <<"+", "0">>}
MCWidths == {<<>>, <<"1">>, <<"4">>, <<"1", "2">>}
MCPrecisions == {<<>>, <<".">>, <<".", "3">>}
-----------------------------------------------------------------------------
(* Commands for the shell, and lines for its loop.                           *)
Leaf == {Sh!execcmd(<<>>), Sh!execcmd(<<<<"a">>>>), Sh!execcmd(<<<<"b", "c">>, <<"a">>>>)}
Over(T) ==
  {Sh!redircmd(t, <<"f">>, "O_RDONLY", 0) : t \in T} \cup {Sh!redircmd(t, <<"g">>, "O_WRONLY|O_CREATE", 1) : t \in T}
  \cup {Sh!pipecmd(l, r) : l, r \in T} \cup {Sh!listcmd(l, r) : l, r \in T} \cup {Sh!backcmd(t) : t \in T}
MCTrees == LET once == Leaf \cup Over(Leaf) IN once \cup Over(once)
MCLines == {<<>>, <<"a">>, <<"c", "d">>, <<"c", "d", " ", "b">>, <<"c", "d", " ">>, <<" ", "c", "d", " ">>}
-----------------------------------------------------------------------------
(* Files, as the pieces in which they are read, and expressions for grep.    *)
MCExpressions ==
  {re \in Words({"a", "b", ".", "*", "^", "$"}, 0..3) :
     \A i \in DOMAIN re : /\ re[i] = "*" => i > 1 /\ re[i - 1] \notin {"*", "^", "$"}
                          /\ re[i] = "^" => i = 1
                          /\ re[i] = "$" => i = Len(re)}
File(pieces) == [opens |-> TRUE, data |-> pieces]
NoFile == [opens |-> FALSE, data |-> <<>>]
MCPieces ==
  {<<<<"a">>, <<"\n">>>>, <<<<"a", "\n", "b">>, <<"a", "\n">>>>, <<<<"\n", "a">>, <<"b", "a", "\n", "b", "\n">>>>,
   <<<<"a", "a", "\n", "b">>, <<"\n", "b">>, <<"b", "\n">>>>,
   <<<<"\n", "a", " ", "b">>, <<"b", " ">>, <<" ", "a", "\n">>>>, <<<<"b", "\n", "a">>>>}
MCFiles ==
  LET each == {File(p) : p \in MCPieces} \cup {NoFile}
  IN  {<<f>> : f \in each} \cup {<<File(<<<<"b", "\n", "a">>>>), f>> : f \in each}
MCDirents == [inum : {0, 1}, name : {<<"a">>, <<"b", "a">>, <<"a", "b", "b">>}, stat : BOOLEAN]
MCListed ==
  LET Listed(o, t, es) == [opens |-> o, type |-> t, entries |-> es]
  IN  {Listed(TRUE, "T_FILE", <<>>), Listed(FALSE, "T_FILE", <<>>)} \cup
      {Listed(TRUE, "T_DIR", <<d, e>>) : d, e \in MCDirents}
-----------------------------------------------------------------------------
(* Dates of the clock chip before and after its update, which comes at read  *)
(* x and again every w reads.                                                *)
MCDates == {<<<<59, 59, 23, 31, 12, 19>>, <<0, 0, 0, 1, 1, 20>>>>,
            <<<<9, 12, 10, 1, 1, 20>>, <<10, 12, 10, 1, 1, 20>>>>,
            <<<<59, 9, 10, 1, 1, 20>>, <<0, 10, 10, 1, 1, 20>>>>}
Reads(x, w, y) ==
  [k \in 1..26 |-> LET s == IF k < x THEN 1 ELSE 1 + ((k - x) \div w) + y IN IF s > 9 THEN 9 ELSE s]
MCYears == {1970, 1971, 1999, 2000, 2001, 2004, 2005, 2099, 2100, 2101, 2399, 2400, 2401}
-----------------------------------------------------------------------------
MCCalls ==
  [color : {<<>>}, str : {<<"\n">>, <<"a">>, <<"b", "\n">>, <<"c", "\r", "d", "\n">>, <<"e", "f", "g">>}]
    \cup [color : {<<1, 2>>}, str : {<<"a">>, <<"e", "f", "g">>}]
MCMem0 == [a \in 0..60 |-> 5000 + a]
Header(la, ha, le, be) ==
  [magic |-> 77, flags |-> 1, checksum |-> -78, header_addr |-> ha, load_addr |-> la,
   load_end_addr |-> le, bss_end_addr |-> be, entry_addr |-> la + 1]
-----------------------------------------------------------------------------
(* What CPUID answers, a second question depending on what ecx holds.        *)
Answer(ebx, ecx, edx) == [ebx |-> ebx, ecx |-> ecx, edx |-> edx]
MCCpuids ==
  {[q \in {<<1, {}>>, <<7, {}>>, <<7, c>>} |->
     IF q[1] = 1 THEN Answer(b1, c, d) ELSE IF q[2] = {} THEN Answer(b7, {}, {}) ELSE Answer({}, {}, {})] :
     b1 \in {{}, {0, 9}}, c \in {{}, {0}, {9, 13, 21}, {19, 20, 24, 26, 27, 28, 30}}, d \in {{}, {19}},
     b7 \in SUBSET {0, 9}}
MCAreas == [i \in 0..2 |-> <<"a0", "a1", "a2">>[i + 1]]
-----------------------------------------------------------------------------
Given(p, x) == part = p /\ input = x

MachineInputs ==
  \/ \E m \in MCE820s : Given("memory", m)
  \/ \E fw \in MCFirmwares : Given("firmware", fw)
  \/ \E x2 \in BOOLEAN, self, id \in {0, 1, 4, 255} : Given("ipi", <<x2, self, id>>)
  \/ \E p \in {10, 13, 70, 100, 255}, c \in {0, 1, 200, 255} : Given("hpet", <<p, c>>)
  \/ \E c \in MCFunctions : Given("function", c)
  \/ \E fs \in MCMachines : Given("machine", fs)
  \/ \E k \in 0..8, p \in 0..3 : Given("ring", <<2^k, 64 * p>>)
  \/ \E text \in MCTexts, table \in MCTables : Given("alternatives", <<text, table>>)
  \/ \E c \in MCCpuids, r \in SUBSET {"pae"} : Given("features", <<c, r>>)
  \/ \E i \in {0, 6}, a \in [1..8 -> {1, 2}], t \in {5, 6, 9, 100, 255, 300} : Given("gates", <<i, a, t>>)
  \/ \E i \in 0..2 : Given("areas", i)
  \/ \E m \in [{0, 2, 4, 6, 8} -> {0, 4, 6, 8, 10}], r \in {0, 2} : Given("frames", <<m, r>>)
  \/ \E d \in MCDates, b \in BOOLEAN, x \in 1..14, w \in 1..9, y \in 0..9 : Given("rtc", <<d[1], d[2], b, Reads(x, w, y)>>)
  \/ \E y \in MCYears, m \in 1..12 : \E d \in 1..Cpus!MonthDays(y, m) : Given("days", <<y, m, d>>)
  \/ \E n \in 1..4 : \E cs \in [1..n -> MCCalls] : Given("console", cs)
  \/ \E n \in 0..8, la \in 28..31, k \in 8..16, z \in {0, 3, 9} : \E b \in {x \in 0..3 : x <= n} :
       Given("loader", <<n, Header(la, la + b, la + k, la + k + z), 24>>)

LibraryInputs ==
  \/ \E m \in MCBlocks : Given("bytes", m)
  \/ \E s \in Words({1, 2}, 0..6) : Given("needle", Text(s))
  \/ \E fs \in MCFlags, w \in MCWidths, p \in MCPrecisions, q \in {<<>>, <<"l">>, <<"h">>},
        c \in {"d", "u", "o", "x", "X"}, a \in {0, 1, 8, 15, 16, 31, 32, 63} :
       Given("numbers", <<fs, w, p, q, c, a>>)
  \/ \E m \in [0..7 -> 0..1], nr \in 0..7 : Given("bit", <<nr, m>>)
  \/ \E w \in SUBSET (0..3) : Given("word", w)
  \/ \E x \in (0..255) \cup {2147483647, 1431655765, 65535, 16777219} : Given("ones", x)
  \/ \E p \in BoundedSeq({"a", "b", "/"}, 7), z \in {3, 9} : Given("path", <<p, z>>)
  \/ \E t \in MCTrees, sp \in {<<>>, <<" ">>} : Given("tree", <<t, sp>>)
  \/ \E s \in Words({"a", " ", "|", "<", ">", "&", ";", "(", ")"}, 0..4) : Given("line", s)
  \/ \E ls \in BoundedSeq(MCLines, 3), f \in 0..2, o \in SUBSET (0..2) : Given("lines", <<ls, f, o>>)
  \/ \E re \in MCExpressions, fs \in MCFiles : Given("grep", <<re, fs>>)
  \/ \E fs \in MCFiles : Given("wc", fs)
  \/ \E f, g \in MCListed :
       Given("ls", <<[path |-> <<"b", "b">>, file |-> f], [path |-> <<"b", "/", "a">>, file |-> g]>>)

Inputs == MachineInputs \/ LibraryInputs
-----------------------------------------------------------------------------
Holds(p, P(_)) == part = p => P(input)

\* From the firmware's memory map, multiboot.c gives the allocators all the
\* memory, none of it twice and none that is in use, and the page tables that
\* pgtable.c builds lead to it and to the devices without one falling on the
\* other.
MemoryMapped ==
  Holds("memory", LAMBDA e820 : Memory!MemoryFreedOnce(e820) /\ Memory!MemorySeen(e820))

\* The processors the firmware lists get places, stacks and task states of
\* their own (acpi.c, percpu.c), each runs in its own area once it has booted
\* (pm64.c), and all of them have exactly the features they are told they have
\* (cpu.c).
ProcessorsSetUp ==
  /\ Holds("firmware", LAMBDA fw : Firmware!ProcessorsFound(fw))
  /\ Holds("features", LAMBDA x : Cpus!FeaturesTrue(x[1], x[2]))
  /\ Holds("areas", LAMBDA i : Cpus!OneAreaEach(MCAreas, i))

\* Interprocessor interrupts reach the processors they name and no other, the
\* HPET ticks (apic.c, ioapic.c, hpet.c), every gate leads to its handler, and
\* a trap lists the callers within bounds (trap.c, interrupt.c).
InterruptsLead ==
  /\ Holds("ipi", LAMBDA x : Firmware!IpisDelivered(x[1], x[2], x[3]))
  /\ Holds("hpet", LAMBDA x : Firmware!TimerTicks(x[1], x[2]))
  /\ Holds("gates", LAMBDA x : Cpus!GatesLead(x[1], x[2], x[3]))
  /\ Holds("frames", LAMBDA x : Cpus!CallersListed(x[1], x[2]))

\* Reading the configuration of a PCI function finds what it decodes and
\* leaves it as it was, MSI-X is turned on without a stray interrupt, a driver
\* gets a device it can drive (pci.c, virtio.c), and the parts of a virtio
\* queue do not overlap (virtio_ring.h).
DevicesFound ==
  /\ Holds("function", LAMBDA c : Devices!BarsAsDecoded(c) /\ Devices!NoStrayInterrupt(c))
  /\ Holds("machine", LAMBDA fs : Devices!DriversFindDevices(fs))
  /\ Holds("ring", LAMBDA x : Devices!RingsApart(x[1], x[2]))

\* The text that runs is the text that was meant: bootmain.c loads the image
\* whole at its place, and alternative.c replaces instructions by ones that do
\* the same where they are put.
TextInPlace ==
  /\ Holds("loader", LAMBDA x : Memory!ImageLoaded(MCMem0, x[1], x[2], x[3]))
  /\ Holds("alternatives", LAMBDA x : Cpus!PatchedRight(x[1], x[2]))

\* The date read from the clock chip was shown by it, however the reads fall
\* on its update, and is counted in days as the calendar does (time.c).
ClockRead ==
  /\ Holds("rtc", LAMBDA x : Cpus!DateNotTorn(x[1], x[2], x[3], x[4]))
  /\ Holds("days", LAMBDA x : Cpus!DaysCounted(x[1], x[2], x[3]))

\* What is printed arrives: the screen shows whole lines in order and the
\* serial line every character (vgaoutput.c), and a number reads back as the
\* argument that printk was given (printk.c, printf.c).
PrintedReadsBack ==
  /\ Holds("console", LAMBDA calls : Format!ConsoleInOrder(calls))
  /\ Holds("numbers", LAMBDA x : Format!NumbersReadBack(x[1], x[2], x[3], x[4], x[5], x[6]))

\* The word-wise and the table-driven code of the libraries computes what the
\* obvious loop would: string functions, strstr's two-way search, the forms of
\* the bit operations, bit searches and counts, and the splitting of paths.
LibraryAgrees ==
  /\ Holds("bytes", LAMBDA m : Str!BytesFound(m))
  /\ Holds("needle", LAMBDA n : Str!NeedleFound(n, MCHaystacks))
  /\ Holds("bit", LAMBDA x : Str!FormsAgree(x[1], x[2]))
  /\ Holds("word", LAMBDA w : Str!BitsLocated(w))
  /\ Holds("ones", LAMBDA x : Str!OnesCounted(x))
  /\ Holds("path", LAMBDA x : Path!PathsSplit(x[1], x[2]))

\* sh.c reads a command as it was written, loses no word, connects the pipes
\* and leaves no end of one open, and takes lines one by one.
ShellRuns ==
  /\ Holds("tree", LAMBDA x : Sh!LineParsed(x[1], x[2]) /\ \A ab \in {{}, {<<"f">>}} : Sh!PipesConnected(x[1], ab))
  /\ Holds("line", LAMBDA s : Sh!NoWordLost(s))
  /\ Holds("lines", LAMBDA x : Sh!LinesTaken(x[1], x[2], x[3]))

\* grep prints the matching lines, wc counts, and ls lists, whatever the reads
\* cut in two and whatever an earlier name left in a buffer.
FiltersExact ==
  /\ Holds("grep", LAMBDA x : Filter!GrepPrintsMatches(x[1], x[2]))
  /\ Holds("wc", LAMBDA fs : Filter!CountsIndependent(fs))
  /\ Holds("ls", LAMBDA args : Filter!NamesListed(args))
=============================================================================
