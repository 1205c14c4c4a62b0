----------------------------- MODULE BootProofs -----------------------------
(***************************************************************************)
(* Proofs about the start of the kernel (Boot), for any number of          *)
(* processors, any APIC identities, and any modules.                       *)
(***************************************************************************)
EXTENDS Boot, FiniteSetTheorems, TLAPS

BPPoints == {"softirq_init", "init_module", "smp_init", "init_percpu_thread",
             "kernel_init_freeable", "return", "idle"}
APPoints == {"off", "ap_main", "smp_ap_init", "softirq_init", "init_module", "init_percpu_thread",
             "goto_idle", "idle"}

\* In a list without repetitions, the place of an element is found.
LEMMA FoundAt ==
  ASSUME NEW S, NEW n \in Nat, DOMAIN S = 1..n,
         \A i, j \in 1..n : S[i] = S[j] => i = j,
         NEW k \in 1..n
  PROVE  (CHOOSE i \in DOMAIN S : S[i] = S[k]) = k
  BY Zenon

\* The step after each of the BP's, as start_kernel calls them.
LEMMA BPAfter ==
  /\ After(bp, "softirq_init") = "init_module"
  /\ After(bp, "init_module") = "smp_init"
  /\ After(bp, "smp_init") = "init_percpu_thread"
  /\ After(bp, "init_percpu_thread") = "kernel_init_freeable"
  /\ After(bp, "kernel_init_freeable") = "return"
  /\ After(bp, "return") = "idle"
<1> DEFINE S == BPSteps
<1>1. /\ S[1] = "softirq_init" /\ S[2] = "init_module" /\ S[3] = "smp_init"
      /\ S[4] = "init_percpu_thread" /\ S[5] = "kernel_init_freeable" /\ S[6] = "return" /\ S[7] = "idle"
      /\ DOMAIN S = 1..7
  BY DEF BPSteps
<1>2. \A i, j \in 1..7 : S[i] = S[j] => i = j
  <2> HIDE DEF S
  <2>1. \A i \in 1..7 : i = 1 \/ i = 2 \/ i = 3 \/ i = 4 \/ i = 5 \/ i = 6 \/ i = 7
    OBVIOUS
  <2> QED
    BY <1>1, <2>1, Zenon
<1>3. \A s : After(bp, s) = S[(CHOOSE i \in DOMAIN S : S[i] = s) + 1]
  BY Zenon DEF After
<1> HIDE DEF S
<1>4. \A k \in 1..7 : (CHOOSE i \in DOMAIN S : S[i] = S[k]) = k
  BY <1>1, <1>2, FoundAt, 7 \in Nat, Zenon
<1>5. \A k \in 1..7 : After(bp, S[k]) = S[k + 1]
  BY <1>3, <1>4, Zenon
<1> QED
  BY <1>1, <1>5

\* The step after each of an AP's, as start_kernel_ap calls them.
LEMMA APAfter ==
  ASSUME NEW c, c # bp
  PROVE  /\ After(c, "ap_main") = "smp_ap_init"
         /\ After(c, "smp_ap_init") = "softirq_init"
         /\ After(c, "softirq_init") = "init_module"
         /\ After(c, "init_module") = "init_percpu_thread"
         /\ After(c, "init_percpu_thread") = "goto_idle"
         /\ After(c, "goto_idle") = "idle"
<1> DEFINE S == APSteps
<1>1. /\ S[1] = "off" /\ S[2] = "ap_main" /\ S[3] = "smp_ap_init" /\ S[4] = "softirq_init"
      /\ S[5] = "init_module" /\ S[6] = "init_percpu_thread" /\ S[7] = "goto_idle" /\ S[8] = "idle"
      /\ DOMAIN S = 1..8
  BY DEF APSteps
<1>2. \A i, j \in 1..8 : S[i] = S[j] => i = j
  <2> HIDE DEF S
  <2>1. \A i \in 1..8 : i = 1 \/ i = 2 \/ i = 3 \/ i = 4 \/ i = 5 \/ i = 6 \/ i = 7 \/ i = 8
    OBVIOUS
  <2> QED
    BY <1>1, <2>1
<1>3. \A s : After(c, s) = S[(CHOOSE i \in DOMAIN S : S[i] = s) + 1]
  BY Zenon DEF After
<1> HIDE DEF S
<1>4. \A k \in 1..8 : (CHOOSE i \in DOMAIN S : S[i] = S[k]) = k
  BY <1>1, <1>2, FoundAt, 8 \in Nat, Zenon
<1>5. \A k \in 1..8 : After(c, S[k]) = S[k + 1]
  BY <1>3, <1>4, Zenon
<1> QED
  BY <1>1, <1>5

\* The points of each list of steps.
LEMMA Points == Range(BPSteps) = BPPoints /\ Range(APSteps) = APPoints
<1>1. DOMAIN BPSteps = 1..7 /\ DOMAIN APSteps = 1..8
  BY DEF BPSteps, APSteps
<1>2. \A i \in 1..8 : i = 1 \/ i = 2 \/ i = 3 \/ i = 4 \/ i = 5 \/ i = 6 \/ i = 7 \/ i = 8
  OBVIOUS
<1>3. Range(BPSteps) = BPPoints
  <2>1. \A x \in Range(BPSteps) : x \in BPPoints
    BY <1>1, <1>2 DEF Range, BPSteps, BPPoints
  <2>2. \A x \in BPPoints : x \in Range(BPSteps)
    BY <1>1 DEF Range, BPSteps, BPPoints
  <2> QED
    BY <2>1, <2>2, Zenon
<1>4. Range(APSteps) = APPoints
  <2>1. \A x \in Range(APSteps) : x \in APPoints
    BY <1>1, <1>2 DEF Range, APSteps, APPoints
  <2>2. \A x \in APPoints : x \in Range(APSteps)
    BY <1>1 DEF Range, APSteps, APPoints
  <2> QED
    BY <2>1, <2>2, Zenon
<1> QED
  BY <1>3, <1>4, Zenon

-----------------------------------------------------------------------------
\* Where the processors are.
PcOK ==
  /\ step \in [CPUs -> BPPoints \cup APPoints] /\ bp \in CPUs
  /\ step[bp] \in BPPoints
  /\ \A c \in CPUs : c # bp => step[c] \in APPoints

\* The types of what else the steps read.
VarsOK ==
  /\ apic_id \in [CPUs -> UNION ApicIds] /\ order \in [1..Cardinality(Modules) -> Modules]
  /\ loop \in 1..Times /\ next \in 0..nr_cpu
  /\ stack \in CPUs \cup {-1} /\ rsp \in [CPUs -> CPUs \cup {-1}] /\ base \in [CPUs -> CPUs \cup {-1}]
  /\ status \in [CPUs -> BOOLEAN] /\ ap_started \in BOOLEAN
  /\ loaded \subseteq Modules /\ aploaded \in [CPUs -> SUBSET Modules]
  /\ threads \in [CPUs -> Nat]
  /\ initcode \in BOOLEAN /\ panicked \in BOOLEAN

\* bootup_aps starts the APs in the order of the table, and not before the BP
\* has registered the tasklet thread and loaded the modules; from ap_main on
\* a processor has an area.
InOrder ==
  /\ \A c \in CPUs : c # bp /\ c >= next => step[c] = "off"
  /\ step[bp] \in {"softirq_init", "init_module"} => next = 0 /\ ~ap_started
  /\ percpu_threads = (IF step[bp] = "softirq_init" THEN 0 ELSE 1)
  /\ \A c \in CPUs : step[c] \notin {"off", "ap_main"} => base[c] \in CPUs

\* idlenr counts the idle processors.
Idle == {c \in CPUs : step[c] = "idle"}
Counted == idlenr = Cardinality(Idle)

\* With what the code takes for granted: a processor has its own stack and
\* area, the trampoline holds the stack of the one AP that is on its way to
\* its area, and each area has its threads and modules from the calls on that
\* make them.
InTurn ==
  Expected =>
    /\ \A c \in CPUs : rsp[c] \in {-1, c} /\ base[c] \in {-1, c}
    /\ \A c \in CPUs : c # bp /\ status[c] => step[c] \notin {"off", "ap_main"}
    /\ \A c \in CPUs : step[c] = "ap_main" => next = c + 1 /\ stack = c
    /\ \A c \in CPUs : threads[c] =
          (IF step[c] \in {"kernel_init_freeable", "return", "goto_idle", "idle"} THEN 1 ELSE 0)
    /\ \A c \in CPUs : c # bp =>
          aploaded[c] = (IF step[c] \in {"init_percpu_thread", "goto_idle", "idle"} THEN loaded ELSE {})

IInv == PcOK /\ VarsOK /\ InOrder /\ Counted /\ InitCodeKept /\ InTurn

\* The processors are a finite set.
LEMMA FiniteCPUs ==
  ASSUME BootAssumption
  PROVE  IsFiniteSet(CPUs) /\ Cardinality(CPUs) = nr_cpu /\ CPUs \subseteq Int
         /\ \A c \in CPUs : c >= 0 /\ c < nr_cpu
<1> DEFINE n == nr_cpu - 1
<1>1. n \in Int /\ 0 \in Int /\ n >= 0 /\ n + 1 = nr_cpu
  BY DEF BootAssumption
<1> HIDE DEF n
<1>2. IsFiniteSet(0..n) /\ Cardinality(0..n) = IF 0 > n THEN 0 ELSE n - 0 + 1
  BY <1>1, FS_Interval, Zenon
<1>3. CPUs = 0..n
  BY Zenon DEF CPUs, n
<1> QED
  BY <1>1, <1>2, <1>3

\* The idle processors are a finite set, no more than there are.
LEMMA FiniteIdle ==
  ASSUME BootAssumption
  PROVE  IsFiniteSet(Idle) /\ Cardinality(Idle) \in 0..nr_cpu
<1>1. Idle \subseteq CPUs
  BY Zenon DEF Idle
<1>2. IsFiniteSet(Idle) /\ Cardinality(Idle) <= Cardinality(CPUs)
  BY <1>1, FiniteCPUs, FS_Subset, Zenon
<1>3. Cardinality(Idle) \in Nat /\ nr_cpu \in Nat
  BY <1>2, FS_CardinalityType, Zenon DEF BootAssumption
<1> QED
  BY <1>2, <1>3, FiniteCPUs

\* A step of processor c to point x: the others stay where they are.
MovesTo(c, x) == step' = [step EXCEPT ![c] = x]

\* A step to a point that is not idle, from one that is not, leaves the count.
LEMMA CountKept ==
  ASSUME PcOK, Counted, NEW c \in CPUs, NEW x, MovesTo(c, x),
         step[c] # "idle", x # "idle", idlenr' = idlenr
  PROVE  Counted'
<1>1. Idle' = Idle
  <2>1. \A d \in CPUs : step'[d] = "idle" <=> step[d] = "idle"
    BY Zenon DEF PcOK, MovesTo
  <2> QED
    BY <2>1, Zenon DEF Idle
<1> QED
  BY <1>1, Zenon DEF Counted

\* Such a step keeps the initialization code in the same hands, too.
LEMMA CodeKept ==
  ASSUME PcOK, InitCodeKept, NEW c \in CPUs, NEW x, MovesTo(c, x),
         c = bp \/ step[c] # "idle", initcode' = initcode, bp' = bp
  PROVE  InitCodeKept'
  BY Zenon DEF PcOK, MovesTo, InitCodeKept

\* The points of a step.
LEMMA PcKept ==
  ASSUME PcOK, NEW c \in CPUs, NEW x, MovesTo(c, x), bp' = bp,
         c = bp => x \in BPPoints, c # bp => x \in APPoints
  PROVE  PcOK'
  BY Zenon DEF PcOK, MovesTo

\* The initial state satisfies the invariant.
LEMMA InitInv == ASSUME BootAssumption, BootInit PROVE IInv
<1>1. PcOK
  BY Zenon DEF BootInit, PcOK, BPPoints, APPoints
<1>2. VarsOK
  <2>1. 0 \in CPUs /\ 1 \in 1..Times /\ 0 \in 0..nr_cpu
    BY DEF BootAssumption, CPUs
  <2> QED
    BY <2>1, Zenon DEF BootInit, VarsOK
<1>3. InOrder
  <2>1. 0 \in CPUs
    BY DEF BootAssumption, CPUs
  <2> QED
    BY <2>1, Zenon DEF BootInit, InOrder
<1>4. Counted
  <2>1. Idle = {}
    BY Zenon DEF BootInit, Idle
  <2> QED
    BY <2>1, FS_EmptySet, Zenon DEF Counted, BootInit
<1>5. InitCodeKept
  BY Zenon DEF BootInit, InitCodeKept
<1>6. InTurn
  BY FiniteCPUs, Zenon DEF BootInit, InTurn, Expected
<1> QED
  BY <1>1, <1>2, <1>3, <1>4, <1>5, <1>6, Zenon DEF IInv

\* softirq_init, on the BP and on an AP.
LEMMA SoftirqInv == ASSUME BootAssumption, IInv, NEW c \in CPUs, softirq_init(c) PROVE IInv'
<1> USE DEF IInv
<1>1. step[c] = "softirq_init" /\ bp' = bp /\ (Expected' <=> Expected)
  BY Zenon DEF softirq_init, fw, Expected
<1>2. MovesTo(c, "init_module")
  BY <1>1, BPAfter, APAfter, Zenon DEF softirq_init, Advance, MovesTo, PcOK, BPPoints
<1>3. PcOK'
  BY <1>1, <1>2, PcKept, Zenon DEF PcOK, BPPoints, APPoints
<1>4. Counted'
  BY <1>1, <1>2, CountKept, Zenon DEF softirq_init
<1>5. InitCodeKept'
  BY <1>1, <1>2, CodeKept, Zenon DEF softirq_init
<1>6. VarsOK'
  BY <1>1, Zenon DEF softirq_init, VarsOK, fw
<1>7. InOrder'
  BY <1>1, <1>2, FiniteCPUs DEF softirq_init, InOrder, MovesTo, PcOK, VarsOK, fw, BPPoints, APPoints
<1>8. InTurn'
  BY <1>1, <1>2, FiniteCPUs DEF softirq_init, InTurn, InOrder, MovesTo, PcOK, VarsOK, fw, BPPoints, APPoints
<1> QED
  BY <1>3, <1>4, <1>5, <1>6, <1>7, <1>8, Zenon

\* init_module_ap.
LEMMA ModuleApInv == ASSUME BootAssumption, IInv, NEW c \in CPUs, init_module_ap(c) PROVE IInv'
<1> USE DEF IInv
<1>1. step[c] = "init_module" /\ c # bp /\ bp' = bp /\ (Expected' <=> Expected)
  BY Zenon DEF init_module_ap, fw, Expected
<1>2. MovesTo(c, "init_percpu_thread")
  BY <1>1, APAfter, Zenon DEF init_module_ap, Advance, MovesTo, PcOK, BPPoints
<1>3. PcOK'
  BY <1>1, <1>2, PcKept, Zenon DEF PcOK, BPPoints, APPoints
<1>4. Counted'
  BY <1>1, <1>2, CountKept, Zenon DEF init_module_ap
<1>5. InitCodeKept'
  BY <1>1, <1>2, CodeKept, Zenon DEF init_module_ap
<1>6. VarsOK'
  BY <1>1, Zenon DEF init_module_ap, VarsOK, fw
<1>7. InOrder'
  BY <1>1, <1>2, FiniteCPUs, Zenon DEF init_module_ap, InOrder, MovesTo, PcOK, VarsOK, fw, BPPoints, APPoints
<1>8. InTurn'
  <2> SUFFICES ASSUME Expected PROVE InTurn'
    BY <1>1, Zenon DEF InTurn
  <2>1. base[c] = c
    <3>1. base[c] \in {-1, c} /\ base[c] \in CPUs
      BY <1>1, Zenon DEF InTurn, InOrder
    <3> QED
      BY <3>1, FiniteCPUs
  <2>2. aploaded[c] = {}
    BY <1>1, Zenon DEF InTurn
  <2>3. aploaded' = [aploaded EXCEPT ![c] = loaded]
    BY <2>1, <2>2, Zenon DEF init_module_ap
  <2> QED
    BY <1>1, <1>2, <2>3, Zenon DEF init_module_ap, InTurn, MovesTo, PcOK, VarsOK
<1> QED
  BY <1>3, <1>4, <1>5, <1>6, <1>7, <1>8, Zenon

\* smp_ap_init.
LEMMA SmpApInv == ASSUME BootAssumption, IInv, NEW c \in CPUs, smp_ap_init(c) PROVE IInv'
<1> USE DEF IInv
<1>1. step[c] = "smp_ap_init" /\ bp' = bp /\ (Expected' <=> Expected)
  BY Zenon DEF smp_ap_init, fw, Expected
<1>2. MovesTo(c, "softirq_init")
  BY <1>1, APAfter, Zenon DEF smp_ap_init, Advance, MovesTo, PcOK, BPPoints
<1>3. PcOK'
  BY <1>1, <1>2, PcKept, Zenon DEF PcOK, BPPoints, APPoints
<1>4. Counted'
  BY <1>1, <1>2, CountKept, Zenon DEF smp_ap_init
<1>5. InitCodeKept'
  BY <1>1, <1>2, CodeKept, Zenon DEF smp_ap_init
<1>6. VarsOK'
  BY <1>1, Zenon DEF smp_ap_init, VarsOK, fw
<1>7. InOrder'
  BY <1>1, <1>2, FiniteCPUs, Zenon DEF smp_ap_init, InOrder, MovesTo, PcOK, VarsOK, fw, BPPoints, APPoints
<1>8. InTurn'
  BY <1>1, <1>2, FiniteCPUs, Zenon DEF smp_ap_init, InTurn, InOrder, MovesTo, PcOK, VarsOK, fw, BPPoints, APPoints
<1> QED
  BY <1>3, <1>4, <1>5, <1>6, <1>7, <1>8, Zenon

\* init_percpu_thread, on the BP and on an AP.
LEMMA PercpuInv == ASSUME BootAssumption, IInv, NEW c \in CPUs, init_percpu_thread(c) PROVE IInv'
<1> USE DEF IInv
<1>1. step[c] = "init_percpu_thread" /\ bp' = bp /\ (Expected' <=> Expected)
  BY Zenon DEF init_percpu_thread, fw, Expected
<1>2. MovesTo(c, IF c = bp THEN "kernel_init_freeable" ELSE "goto_idle")
  BY <1>1, BPAfter, APAfter, Zenon DEF init_percpu_thread, Advance, MovesTo, PcOK, BPPoints
<1>3. PcOK'
  BY <1>1, <1>2, PcKept, Zenon DEF PcOK, BPPoints, APPoints
<1>4. Counted'
  BY <1>1, <1>2, CountKept, Zenon DEF init_percpu_thread
<1>5. InitCodeKept'
  BY <1>1, <1>2, CodeKept, Zenon DEF init_percpu_thread
<1>6. VarsOK'
  <2>1. base[c] \in CPUs /\ percpu_threads \in Nat
    BY <1>1, Zenon DEF InOrder
  <2>2. threads[base[c]] + percpu_threads \in Nat
    BY <2>1 DEF VarsOK
  <2> QED
    BY <2>1, <2>2, Zenon DEF init_percpu_thread, VarsOK, fw
<1>7. InOrder'
  BY <1>1, <1>2, FiniteCPUs, Zenon DEF init_percpu_thread, InOrder, MovesTo, PcOK, VarsOK, fw, BPPoints, APPoints
<1>8. InTurn'
  <2>1. ASSUME Expected PROVE base[c] = c /\ threads' = [threads EXCEPT ![c] = 1]
    <3>1. base[c] \in CPUs /\ base[c] \in {-1, c}
      BY <1>1, <2>1, Zenon DEF InOrder, InTurn
    <3>2. -1 \notin CPUs
      BY FiniteCPUs
    <3>3. base[c] = c /\ threads[c] = 0 /\ percpu_threads = 1
      <4>1. base[c] = c /\ threads[c] = 0
        BY <1>1, <2>1, <3>1, <3>2, Zenon DEF InTurn
      <4>2. c >= 0
        BY FiniteCPUs, Zenon
      <4>3. c # bp => ~(c >= next)
        BY <1>1, Zenon DEF InOrder
      <4>4. step[bp] # "softirq_init"
        BY <1>1, <4>2, <4>3, Zenon DEF InOrder
      <4> QED
        BY <4>1, <4>4, Zenon DEF InOrder
    <3>4. threads' = [threads EXCEPT ![c] = threads[c] + 1]
      BY <3>3, Zenon DEF init_percpu_thread
    <3> QED
      BY <3>3, <3>4
  <2> QED
    BY <1>1, <1>2, <2>1, Zenon DEF init_percpu_thread, InTurn, MovesTo, PcOK, VarsOK, fw, BPPoints, APPoints
<1> QED
  BY <1>3, <1>4, <1>5, <1>6, <1>7, <1>8, Zenon

\* goto_idle, on the BP and on an AP: one more is idle, and is counted.
LEMMA IdleInv == ASSUME BootAssumption, IInv, NEW c \in CPUs, goto_idle(c) PROVE IInv'
<1> USE DEF IInv
<1>1. step[c] = (IF c = bp THEN "return" ELSE "goto_idle") /\ bp' = bp /\ (Expected' <=> Expected)
  BY Zenon DEF goto_idle, fw, Expected, PcOK, BPPoints, APPoints
<1>2. MovesTo(c, "idle")
  BY <1>1, BPAfter, APAfter, Zenon DEF goto_idle, Advance, MovesTo
<1>3. PcOK'
  BY <1>1, <1>2, PcKept, Zenon DEF PcOK, BPPoints, APPoints
<1>4. Counted'
  <2>1. Idle' = Idle \cup {c} /\ c \notin Idle
    BY <1>1, <1>2, Zenon DEF Idle, MovesTo, PcOK
  <2>2. Cardinality(Idle \cup {c}) = Cardinality(Idle) + 1
    BY <2>1, FiniteIdle, FS_AddElement, Zenon
  <2> QED
    BY <2>1, <2>2, Zenon DEF Counted, goto_idle
<1>5. InitCodeKept'
  BY <1>1, <1>2, CodeKept, Zenon DEF goto_idle
<1>6. VarsOK'
  BY <1>1, Zenon DEF goto_idle, VarsOK, fw
<1>7. InOrder'
  BY <1>1, <1>2, FiniteCPUs, Zenon DEF goto_idle, InOrder, MovesTo, PcOK, VarsOK, fw, BPPoints, APPoints
<1>8. InTurn'
  BY <1>1, <1>2, FiniteCPUs DEF goto_idle, InTurn, InOrder, MovesTo, PcOK, VarsOK, fw, BPPoints, APPoints
<1> QED
  BY <1>3, <1>4, <1>5, <1>6, <1>7, <1>8, Zenon

\* kernel_init_freeable: nr_cpu - 1 idle processors, of which the BP is not
\* one, are all the others.
LEMMA FreeInv == ASSUME BootAssumption, IInv, kernel_init_freeable PROVE IInv'
<1> USE DEF IInv
<1>1. step[bp] = "kernel_init_freeable" /\ bp \in CPUs /\ bp' = bp /\ (Expected' <=> Expected)
  BY Zenon DEF kernel_init_freeable, fw, Expected, PcOK
<1>2. MovesTo(bp, "return")
  BY <1>1, BPAfter, Zenon DEF kernel_init_freeable, Advance, MovesTo
<1>3. PcOK'
  BY <1>1, <1>2, PcKept, Zenon DEF PcOK, BPPoints, APPoints
<1>4. Counted'
  BY <1>1, <1>2, CountKept, Zenon DEF kernel_init_freeable
<1>5. InitCodeKept'
  <2>1. Cardinality(Idle) = nr_cpu - 1
    BY Zenon DEF Counted, kernel_init_freeable
  <2>2. IsFiniteSet(CPUs \ {bp}) /\ Cardinality(CPUs \ {bp}) = nr_cpu - 1
    BY <1>1, FiniteCPUs, FS_RemoveElement, Zenon
  <2>3. Idle \subseteq CPUs \ {bp}
    BY <1>1, Zenon DEF Idle
  <2>4. Idle = CPUs \ {bp}
    BY <2>1, <2>2, <2>3, FS_Subset, Zenon
  <2>5. \A c \in CPUs \ {bp} : step'[c] = "idle"
    BY <1>2, <2>4, Zenon DEF Idle, MovesTo, PcOK
  <2> QED
    BY <1>1, <2>5, Zenon DEF InitCodeKept
<1>6. VarsOK'
  BY <1>1, Zenon DEF kernel_init_freeable, VarsOK, fw
<1>7. InOrder'
  BY <1>1, <1>2, FiniteCPUs, Zenon DEF kernel_init_freeable, InOrder, MovesTo, PcOK, VarsOK, fw
<1>8. InTurn'
  BY <1>1, <1>2, FiniteCPUs, Zenon DEF kernel_init_freeable, InTurn, InOrder, MovesTo, PcOK, VarsOK, fw
<1> QED
  BY <1>3, <1>4, <1>5, <1>6, <1>7, <1>8, Zenon

\* init_module on the BP: no AP has started, so none has loaded any module.
LEMMA ModuleInv == ASSUME BootAssumption, IInv, init_module PROVE IInv'
<1> USE DEF IInv
<1>1. step[bp] = "init_module" /\ bp \in CPUs /\ bp' = bp /\ (Expected' <=> Expected)
  BY Zenon DEF init_module, fw, Expected, PcOK
<1>2. PICK x \in {"init_module", "smp_init"} : MovesTo(bp, x)
  <2>1. step' = step => MovesTo(bp, "init_module")
    BY <1>1, Zenon DEF MovesTo, PcOK
  <2>2. Advance(bp) => MovesTo(bp, "smp_init")
    BY <1>1, BPAfter, Zenon DEF Advance, MovesTo
  <2> QED
    BY <2>1, <2>2, Zenon DEF init_module
<1>3. PcOK'
  BY <1>1, <1>2, PcKept, Zenon DEF PcOK, BPPoints, APPoints
<1>4. Counted'
  BY <1>1, <1>2, CountKept, Zenon DEF init_module
<1>5. InitCodeKept'
  BY <1>1, <1>2, CodeKept, Zenon DEF init_module
<1>6. VarsOK'
  <2>1. loaded' \subseteq Modules /\ panicked' \in BOOLEAN
    <3>1. loaded' = Loop(loaded, "slub" \in loaded, loop).loaded
          /\ panicked' = Loop(loaded, "slub" \in loaded, loop).panic
      BY Zenon DEF init_module
    <3>2. Loop(loaded, "slub" \in loaded, loop).loaded \subseteq loaded \cup {order[i] : i \in DOMAIN order}
      BY Zenon DEF Loop
    <3>3. Loop(loaded, "slub" \in loaded, loop).panic \in BOOLEAN
      BY Zenon DEF Loop
    <3> QED
      BY <3>1, <3>2, <3>3 DEF VarsOK
  <2>2. loop' \in 1..Times
    <3>1. loop' = loop \/ (loop' = loop + 1 /\ loop < Times)
      BY Zenon DEF init_module, GoesOn
    <3> QED
      BY <3>1 DEF VarsOK, BootAssumption
  <2> QED
    BY <1>1, <2>1, <2>2, Zenon DEF init_module, VarsOK, fw
<1>7. InOrder'
  <2>1. next' = next /\ ap_started' = ap_started /\ percpu_threads' = percpu_threads /\ base' = base
    BY Zenon DEF init_module
  <2> QED
    BY <1>1, <1>2, <2>1, FiniteCPUs, Zenon DEF InOrder, MovesTo, PcOK, VarsOK
<1>8. InTurn'
  <2>1. UNCHANGED <<next, stack, rsp, base, status, aploaded, threads>>
    BY Zenon DEF init_module
  <2>2. \A c \in CPUs : c # bp => step[c] = "off"
    BY <1>1, FiniteCPUs, Zenon DEF InOrder
  <2> QED
    BY <1>1, <1>2, <2>1, <2>2, Zenon DEF InTurn, MovesTo, PcOK
<1> QED
  BY <1>3, <1>4, <1>5, <1>6, <1>7, <1>8, Zenon

\* bootup_aps when all APs are started.
LEMMA AllStartedInv == ASSUME BootAssumption, IInv, bootup_aps, next = nr_cpu PROVE IInv'
<1> USE DEF IInv
<1>1. step[bp] = "smp_init" /\ bp \in CPUs /\ bp' = bp /\ (Expected' <=> Expected)
  BY Zenon DEF bootup_aps, fw, Expected, PcOK
<1>2. MovesTo(bp, "init_percpu_thread")
  BY <1>1, BPAfter, Zenon DEF bootup_aps, Advance, MovesTo
<1>3. PcOK'
  BY <1>1, <1>2, PcKept, Zenon DEF PcOK, BPPoints, APPoints
<1>4. Counted'
  BY <1>1, <1>2, CountKept, Zenon DEF bootup_aps
<1>5. InitCodeKept'
  BY <1>1, <1>2, CodeKept, Zenon DEF bootup_aps
<1>6. VarsOK'
  BY <1>1, Zenon DEF bootup_aps, VarsOK, fw
<1>7. InOrder'
  BY <1>1, <1>2, FiniteCPUs, Zenon DEF bootup_aps, InOrder, MovesTo, PcOK, VarsOK, fw
<1>8. InTurn'
  BY <1>1, <1>2, FiniteCPUs DEF bootup_aps, InTurn, InOrder, MovesTo, PcOK, VarsOK, fw
<1> QED
  BY <1>3, <1>4, <1>5, <1>6, <1>7, <1>8, Zenon

\* With what the code takes for granted, bootup_aps goes on only when no AP
\* stands between the trampoline and its area.
LEMMA NoneOnTheWay ==
  ASSUME BootAssumption, IInv, bootup_aps, Expected, NEW c \in CPUs
  PROVE  step[c] # "ap_main"
<1> SUFFICES ASSUME step[c] = "ap_main" PROVE FALSE
  BY Zenon
<1>1. next = c + 1 /\ c \in Int /\ c >= 0
  BY FiniteCPUs, Zenon DEF IInv, InTurn
<1>2. c # bp
  BY Zenon DEF IInv, PcOK, BPPoints
<1>3. status[c]
  BY <1>1, <1>2 DEF bootup_aps
<1> QED
  BY <1>2, <1>3, Zenon DEF IInv, InTurn

\* bootup_aps passing over its own entry.
LEMMA OwnEntryInv == ASSUME BootAssumption, IInv, bootup_aps, next # nr_cpu, next = bp PROVE IInv'
<1> USE DEF IInv
<1>1. step[bp] = "smp_init" /\ bp \in CPUs /\ bp' = bp /\ (Expected' <=> Expected) /\ step' = step /\ next' = next + 1
  BY Zenon DEF bootup_aps, fw, Expected, PcOK
<1>2. UNCHANGED <<apic_id, order, loop, stack, rsp, base, status, loaded, aploaded, ap_started,
                  percpu_threads, threads, idlenr, initcode, panicked>>
  BY <1>1, Zenon DEF bootup_aps, fw
<1>3. PcOK'
  BY <1>1, Zenon DEF PcOK
<1>4. Counted'
  BY <1>1, <1>2, Zenon DEF Counted, Idle
<1>5. InitCodeKept'
  BY <1>1, <1>2, Zenon DEF InitCodeKept
<1>6. VarsOK'
  <2>1. next' \in 0..nr_cpu
    BY <1>1 DEF VarsOK, BootAssumption
  <2> QED
    BY <1>1, <1>2, <2>1, Zenon DEF VarsOK
<1>7. InOrder'
  BY <1>1, <1>2, FiniteCPUs DEF InOrder, VarsOK
<1>8. InTurn'
  BY <1>1, <1>2, NoneOnTheWay, Zenon DEF InTurn
<1> QED
  BY <1>3, <1>4, <1>5, <1>6, <1>7, <1>8, Zenon

\* bootup_aps starting an AP.
LEMMA StartInv == ASSUME BootAssumption, IInv, bootup_aps, next # nr_cpu, next # bp PROVE IInv'
<1> USE DEF IInv
<1>1. step[bp] = "smp_init" /\ bp \in CPUs /\ bp' = bp /\ (Expected' <=> Expected)
  BY Zenon DEF bootup_aps, fw, Expected, PcOK
<1>2. MovesTo(next, "ap_main") /\ next' = next + 1 /\ stack' = next /\ status' = [status EXCEPT ![next] = FALSE]
  BY Zenon DEF bootup_aps, MovesTo
<1>3. UNCHANGED <<apic_id, order, loop, rsp, base, loaded, aploaded, ap_started,
                  percpu_threads, threads, idlenr, initcode, panicked>>
  BY Zenon DEF bootup_aps, fw
<1>4. next \in CPUs /\ next \in Int /\ next >= 0
  BY DEF VarsOK, CPUs, BootAssumption
<1>5. step[next] = "off"
  BY <1>4 DEF InOrder
<1>6. PcOK'
  BY <1>1, <1>2, <1>4, PcKept, Zenon DEF PcOK, BPPoints, APPoints
<1>7. Counted'
  BY <1>2, <1>3, <1>4, <1>5, CountKept, Zenon
<1>8. InitCodeKept'
  BY <1>1, <1>2, <1>3, <1>4, <1>5, CodeKept, Zenon
<1>9. VarsOK'
  <2>1. next' \in 0..nr_cpu
    BY <1>2 DEF VarsOK, BootAssumption
  <2> QED
    BY <1>2, <1>3, <1>4, <2>1, Zenon DEF VarsOK
<1>10. InOrder'
  BY <1>1, <1>2, <1>3, <1>4, <1>5, FiniteCPUs DEF InOrder, MovesTo, PcOK, VarsOK
<1>11. InTurn'
  <2> SUFFICES ASSUME Expected PROVE InTurn'
    BY <1>1, Zenon DEF InTurn
  <2>1. \A c \in CPUs : step'[c] = "ap_main" => c = next
    BY <1>2, <1>4, NoneOnTheWay, Zenon DEF MovesTo, PcOK
  <2>2. \A c \in CPUs : c # bp /\ status'[c] => step'[c] \notin {"off", "ap_main"}
    BY <1>2, <1>4, Zenon DEF InTurn, MovesTo, PcOK, VarsOK
  <2>3. \A c \in CPUs : threads'[c] =
          (IF step'[c] \in {"kernel_init_freeable", "return", "goto_idle", "idle"} THEN 1 ELSE 0)
    BY <1>2, <1>3, <1>4, <1>5, Zenon DEF InTurn, MovesTo, PcOK
  <2>4. \A c \in CPUs : c # bp =>
          aploaded'[c] = (IF step'[c] \in {"init_percpu_thread", "goto_idle", "idle"} THEN loaded' ELSE {})
    BY <1>2, <1>3, <1>4, <1>5, Zenon DEF InTurn, MovesTo, PcOK
  <2> QED
    BY <1>1, <1>2, <1>3, <2>1, <2>2, <2>3, <2>4, Zenon DEF InTurn
<1> QED
  BY <1>6, <1>7, <1>8, <1>9, <1>10, <1>11, Zenon

\* ap_main: the stack from the trampoline, then the area of the identity.
LEMMA ApMainInv == ASSUME BootAssumption, IInv, NEW c \in CPUs, ap_main(c) PROVE IInv'
<1> USE DEF IInv
<1>1. step[c] = "ap_main" /\ c # bp /\ bp' = bp /\ (Expected' <=> Expected)
  BY Zenon DEF ap_main, fw, Expected, PcOK, BPPoints
<1>2. UNCHANGED <<apic_id, order, loop, next, stack, loaded, aploaded, ap_started, percpu_threads,
                  threads, idlenr, initcode>>
  BY Zenon DEF ap_main, fw
<1>3. PICK x \in {"ap_main", "smp_ap_init"} :
        /\ MovesTo(c, x)
        /\ x = "smp_ap_init" => /\ apic_id[c] \in CPUs /\ base' = [base EXCEPT ![c] = apic_id[c]]
                                /\ status' = [status EXCEPT ![apic_id[c]] = TRUE] /\ rsp' = rsp
                                /\ panicked' = panicked
        /\ x = "ap_main" => /\ base' = base /\ status' = status
                            /\ rsp' \in {rsp, [rsp EXCEPT ![c] = stack]} /\ panicked' \in {panicked, TRUE}
  <2>1. step' = step => MovesTo(c, "ap_main")
    BY <1>1, Zenon DEF MovesTo, PcOK
  <2>2. Advance(c) => MovesTo(c, "smp_ap_init")
    BY <1>1, APAfter, Zenon DEF Advance, MovesTo
  <2> QED
    BY <2>1, <2>2, Zenon DEF ap_main
<1>4. PcOK'
  BY <1>1, <1>3, PcKept, Zenon DEF PcOK, BPPoints, APPoints
<1>5. Counted'
  BY <1>1, <1>2, <1>3, CountKept, Zenon
<1>6. InitCodeKept'
  BY <1>1, <1>2, <1>3, CodeKept, Zenon
<1>7. VarsOK'
  <2>1. rsp' \in [CPUs -> CPUs \cup {-1}] /\ base' \in [CPUs -> CPUs \cup {-1}] /\ status' \in [CPUs -> BOOLEAN]
    BY <1>3, Zenon DEF VarsOK
  <2>2. panicked' \in BOOLEAN
    BY <1>3, Zenon DEF VarsOK
  <2> QED
    BY <1>2, <2>1, <2>2, Zenon DEF VarsOK
<1>8. InOrder'
  <2>1. step'[bp] = step[bp] /\ \A d \in CPUs : d # c => step'[d] = step[d]
    BY <1>1, <1>3, Zenon DEF MovesTo, PcOK
  <2>2. \A d \in CPUs : d # bp /\ d >= next => step'[d] = "off"
    BY <1>1, <2>1, Zenon DEF InOrder
  <2>3. \A d \in CPUs : step'[d] \notin {"off", "ap_main"} => base'[d] \in CPUs
    <3>1. \A d \in CPUs : d # c => base'[d] = base[d]
      BY <1>3, Zenon DEF VarsOK
    <3>2. step'[c] = x
      BY <1>3, Zenon DEF MovesTo, PcOK
    <3>3. x = "smp_ap_init" => base'[c] \in CPUs
      BY <1>3, Zenon DEF VarsOK
    <3> QED
      BY <1>3, <2>1, <3>1, <3>2, <3>3, Zenon DEF InOrder
  <2> QED
    BY <1>1, <1>2, <2>1, <2>2, <2>3, Zenon DEF InOrder
<1>9. InTurn'
  <2> SUFFICES ASSUME Expected PROVE InTurn'
    BY <1>1, Zenon DEF InTurn
  <2>1. apic_id[c] = c /\ stack = c /\ next = c + 1
    BY <1>1, Zenon DEF Expected, InTurn
  <2>2. \A d \in CPUs : rsp'[d] \in {-1, d} /\ base'[d] \in {-1, d}
    BY <1>3, <2>1, ZenonT(60) DEF InTurn, VarsOK
  <2>3. \A d \in CPUs : d # bp /\ status'[d] => step'[d] \notin {"off", "ap_main"}
    BY <1>1, <1>3, <2>1, ZenonT(60) DEF InTurn, VarsOK, MovesTo, PcOK
  <2>4. \A d \in CPUs : step'[d] = "ap_main" => step[d] = "ap_main"
    BY <1>1, <1>3, Zenon DEF MovesTo, PcOK
  <2>5. \A d \in CPUs : threads'[d] =
          (IF step'[d] \in {"kernel_init_freeable", "return", "goto_idle", "idle"} THEN 1 ELSE 0)
    BY <1>1, <1>2, <1>3, Zenon DEF InTurn, MovesTo, PcOK
  <2>6. \A d \in CPUs : d # bp =>
          aploaded'[d] = (IF step'[d] \in {"init_percpu_thread", "goto_idle", "idle"} THEN loaded' ELSE {})
    BY <1>1, <1>2, <1>3, Zenon DEF InTurn, MovesTo, PcOK
  <2> QED
    BY <1>1, <1>2, <2>2, <2>3, <2>4, <2>5, <2>6, Zenon DEF InTurn
<1> QED
  BY <1>4, <1>5, <1>6, <1>7, <1>8, <1>9, Zenon

\* Every step of the start keeps the invariant: the APs follow one another
\* through the trampoline, and idlenr counts the ones that are done.
THEOREM Invariance == ASSUME BootAssumption PROVE BootSpec => []IInv
<1>1. BootInit => IInv
  BY InitInv, Zenon
<1>2. IInv /\ [BootNext]_bvars => IInv'
  <2> SUFFICES ASSUME IInv, [BootNext]_bvars PROVE IInv'
    BY Zenon
  <2>1. CASE UNCHANGED bvars
    BY <2>1, Zenon DEF bvars, fw, IInv, PcOK, VarsOK, InOrder, Counted, Idle, InitCodeKept, InTurn, Expected
  <2>2. ASSUME NEW c \in CPUs, Processor(c) PROVE IInv'
    BY <2>2, SoftirqInv, ModuleApInv, ApMainInv, SmpApInv, PercpuInv, IdleInv, ModuleInv, FreeInv,
       AllStartedInv, OwnEntryInv, StartInv, Zenon DEF Processor
  <2> QED
    BY <2>1, <2>2, Zenon DEF BootNext
<1> QED
  BY <1>1, <1>2, PTL DEF BootSpec

\* For any number of processors, any APIC identities and any modules: types;
\* with the table in the order of the identities and the BP first, no two
\* processors ever run on one stack or in one area, and an idle one has its
\* threads and all modules; and in any case the initialization code is given
\* away only when no AP has any of it left to run.
THEOREM StartSafe == ASSUME BootAssumption PROVE BootSpec => []BootSafe
<1>1. IInv => BootSafe
  <2> SUFFICES ASSUME IInv PROVE BootSafe
    BY Zenon
  <2>1. BootTypeOK
    <3>1. idlenr \in 0..nr_cpu
      BY FiniteIdle, Zenon DEF IInv, Counted
    <3>2. percpu_threads \in 0..1
      BY DEF IInv, InOrder
    <3>3. /\ \A c \in CPUs : step[c] \in Range(IF c = bp THEN BPSteps ELSE APSteps)
          /\ step \in [CPUs -> Range(BPSteps) \cup Range(APSteps)] /\ bp \in CPUs
      BY Points, Zenon DEF IInv, PcOK
    <3> QED
      BY <3>1, <3>2, <3>3, Zenon DEF BootTypeOK, IInv, VarsOK
  <2>2. OwnStackAndArea
    BY Zenon DEF IInv, InTurn, OwnStackAndArea
  <2>3. ProcessorsComplete
    <3> SUFFICES ASSUME Expected, NEW c \in CPUs, step[c] = "idle"
                 PROVE  threads[base[c]] = 1 /\ (c = bp \/ aploaded[base[c]] = loaded)
      BY Zenon DEF ProcessorsComplete
    <3>1. base[c] \in {-1, c} /\ base[c] \in CPUs
      BY Zenon DEF IInv, InTurn, InOrder
    <3>2. base[c] = c
      BY <3>1, FiniteCPUs
    <3> QED
      BY <3>2, Zenon DEF IInv, InTurn
  <2> QED
    BY <2>1, <2>2, <2>3, Zenon DEF BootSafe, IInv
<1> QED
  BY <1>1, Invariance, PTL
=============================================================================
