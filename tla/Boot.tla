------------------------------- MODULE Boot --------------------------------
(***************************************************************************)
(* The start of the kernel on all processors: start_kernel on the boot     *)
(* processor (BP), bootup_aps, which starts the others (APs) one after the *)
(* other over one trampoline, start_kernel_ap on each of them, the init    *)
(* calls both run, the modules they load, and the release of the           *)
(* initialization code.                                                    *)
(*                                                                         *)
(* A processor is known by its place in the ACPI table; cpu_base[i] is the *)
(* per-CPU area made for place i, and is called area i.  Init calls are    *)
(* steps; those that change nothing another processor or a later call can  *)
(* see (timer lists, idle thread, HPET and LAPIC registers) are left out.  *)
(***************************************************************************)
EXTENDS Integers, Sequences, FiniteSets, Functions

CONSTANTS
  nr_cpu,     \* processors in the ACPI table
  ApicIds,    \* sets of APIC identities the firmware may have given
  Modules,    \* module names; "slub", "pci" and "virtio" are the repository's
  Wants,      \* how often each other module asks for another loop
  Times       \* int times = 10

\* What is assumed of the constants.
BootAssumption ==
  nr_cpu \in Nat \ {0} /\ Times \in Nat \ {0} /\ Wants \in [Modules -> Nat]

CPUs == 0..(nr_cpu - 1)

VARIABLES
  apic_id,     \* by place
  bp,          \* the place of the boot processor
  order,       \* the modules in link order
  step,        \* where each processor is
  loop,        \* init_module: the loop it is in, from 1
  next,        \* bootup_aps: i
  stack,       \* the stack in the trampoline, by place
  rsp,         \* the stack each processor runs on
  base,        \* the area each processor uses, -1 before it has one
  status,      \* of each area, whether it is CPU_RUNNING
  loaded,      \* the modules loaded on the BP
  aploaded,    \* the modules loaded in each area
  ap_started,
  percpu_threads,  \* the registered per-CPU threads
  threads,     \* how many have been created in each area
  idlenr,
  initcode,    \* the initialization code is still there
  panicked

fw == <<apic_id, bp, order>>
bvars == <<fw, step, loop, next, stack, rsp, base, status, loaded, aploaded, ap_started,
          percpu_threads, threads, idlenr, initcode, panicked>>

\* The init calls of both, in the order of their levels; smp_init lies
\* between level 1 and level 2.
BPSteps == <<"softirq_init", "init_module", "smp_init", "init_percpu_thread",
             "kernel_init_freeable", "return", "idle">>
APSteps == <<"off", "ap_main", "smp_ap_init", "softirq_init", "init_module", "init_percpu_thread",
             "goto_idle", "idle">>

\* The step after s.
After(c, s) == LET steps == IF c = bp THEN BPSteps ELSE APSteps
               IN  steps[(CHOOSE k \in DOMAIN steps : steps[k] = s) + 1]

Advance(c) == step' = [step EXCEPT ![c] = After(c, step[c])]

BootInit ==
  /\ apic_id \in {f \in [CPUs -> UNION ApicIds] : Range(f) \in ApicIds /\ IsInjective(f)}
  /\ bp \in CPUs
  /\ order \in {s \in [1..Cardinality(Modules) -> Modules] : Range(s) = Modules}
  /\ step = [c \in CPUs |-> IF c = bp THEN "softirq_init" ELSE "off"]
  /\ loop = 1 /\ next = 0
  /\ stack = -1
  /\ rsp = [c \in CPUs |-> -1]
  /\ base = [c \in CPUs |-> IF c = bp THEN 0 ELSE -1]
  /\ status = [a \in CPUs |-> a = 0]
  /\ loaded = {} /\ aploaded = [a \in CPUs |-> {}]
  /\ ap_started = FALSE
  /\ percpu_threads = 0 /\ threads = [a \in CPUs |-> 0]
  /\ idlenr = 0
  /\ initcode = TRUE
  /\ panicked = FALSE

running == ~panicked

-----------------------------------------------------------------------------
\* softirq_init registers the tasklet thread, on the BP only.
softirq_init(c) ==
  /\ running /\ step[c] = "softirq_init"
  /\ Advance(c)
  /\ IF c = bp
     THEN /\ panicked' = ap_started
          /\ percpu_threads' = percpu_threads + (IF ap_started THEN 0 ELSE 1)
     ELSE UNCHANGED <<panicked, percpu_threads>>
  /\ UNCHANGED <<fw, loop, next, stack, rsp, base, status, loaded, aploaded, ap_started, threads,
                 idlenr, initcode>>

\* The handlers for MOD_BPLOAD, mal whether slub has registered YAOS_malloc:
\* slub loads, pci asks for another loop until there is a malloc, and
\* virtio_net panics without memory.
slub_main == "ok"
pci_main(mal) == IF mal THEN "ok" ELSE "nextloop"
virtio_net_main(mal) == IF mal THEN "ok" ELSE "panic"

\* The handler of module m in loop n.
BPLoad(m, n, mal) ==
  CASE m = "slub" -> slub_main
    [] m = "pci" -> pci_main(mal)
    [] m = "virtio" -> virtio_net_main(mal)
    [] OTHER -> IF n <= Wants[m] THEN "nextloop" ELSE "ok"

\* Loop n over the modules that are not in done; malloc is there from the
\* place of slub on.
Loop(done, mal, n) ==
  LET at(i) == BPLoad(order[i], n, mal \/ \E j \in 1..(i - 1) : order[j] = "slub")
      says(r) == {i \in DOMAIN order : order[i] \notin done /\ at(i) = r}
  IN  [loaded |-> done \cup {order[i] : i \in says("ok")},
       found |-> says("nextloop") # {},
       panic |-> says("panic") # {}]

\* Mutant: the loops end one too early.
GoesOnShort(found) == found /\ loop < Times - 1

\* while (found && --times), after loop number loop.
GoesOn(found) == found /\ loop < Times

\* init_module on the BP, one loop over the modules.
init_module ==
  LET r == Loop(loaded, "slub" \in loaded, loop)
      more == GoesOn(r.found) /\ ~r.panic
  IN  /\ running /\ step[bp] = "init_module"
      /\ loaded' = r.loaded /\ panicked' = r.panic
      /\ loop' = IF more THEN loop + 1 ELSE loop
      /\ IF more THEN UNCHANGED step ELSE Advance(bp)
      /\ UNCHANGED <<fw, next, stack, rsp, base, status, aploaded, ap_started, percpu_threads, threads,
                     idlenr, initcode>>

\* init_module_ap loads on an AP what the BP has loaded.
init_module_ap(c) ==
  /\ running /\ c # bp /\ step[c] = "init_module"
  /\ Advance(c)
  /\ aploaded' = [aploaded EXCEPT ![base[c]] = aploaded[base[c]] \cup loaded]
  /\ UNCHANGED <<fw, loop, next, stack, rsp, base, status, loaded, ap_started, percpu_threads, threads,
                 idlenr, initcode, panicked>>

-----------------------------------------------------------------------------
\* Mutant: the trampoline is written for the next one without waiting.
bootup_apsNoWait ==
  /\ running /\ step[bp] = "smp_init"
  /\ IF next = nr_cpu THEN Advance(bp) /\ UNCHANGED <<next, stack, status>>
     ELSE /\ next' = next + 1
          /\ IF next = bp THEN UNCHANGED <<step, stack, status>>
             ELSE /\ stack' = next
                  /\ status' = [status EXCEPT ![next] = FALSE]
                  /\ step' = [step EXCEPT ![next] = "ap_main"]
  /\ UNCHANGED <<fw, loop, rsp, base, loaded, aploaded, ap_started, percpu_threads, threads, idlenr,
                 initcode, panicked>>

\* bootup_aps, one round: it waits for the AP it has started, sets up the
\* trampoline for the next one and starts it.
bootup_aps ==
  /\ running /\ step[bp] = "smp_init"
  /\ next > 0 /\ next - 1 # bp => status[next - 1]
  /\ IF next = nr_cpu THEN Advance(bp) /\ UNCHANGED <<next, stack, status>>
     ELSE /\ next' = next + 1
          /\ IF next = bp THEN UNCHANGED <<step, stack, status>>
             ELSE /\ stack' = next
                  /\ status' = [status EXCEPT ![next] = FALSE]
                  /\ step' = [step EXCEPT ![next] = "ap_main"]
  /\ UNCHANGED <<fw, loop, rsp, base, loaded, aploaded, ap_started, percpu_threads, threads, idlenr,
                 initcode, panicked>>

\* ap_main to bootup_cpu_ap, in two steps: the trampoline's stack, then the
\* area of the APIC identity; without one there ASSERT(gsbase) fails.
ap_main(c) ==
  /\ running /\ step[c] = "ap_main"
  /\ IF rsp[c] = -1 THEN rsp' = [rsp EXCEPT ![c] = stack] /\ UNCHANGED <<step, base, status, panicked>>
     ELSE IF apic_id[c] \in CPUs
     THEN /\ base' = [base EXCEPT ![c] = apic_id[c]]
          /\ status' = [status EXCEPT ![apic_id[c]] = TRUE]
          /\ Advance(c)
          /\ UNCHANGED <<rsp, panicked>>
     ELSE panicked' = TRUE /\ UNCHANGED <<step, rsp, base, status>>
  /\ UNCHANGED <<fw, loop, next, stack, loaded, aploaded, ap_started, percpu_threads, threads, idlenr,
                 initcode>>

smp_ap_init(c) ==
  /\ running /\ step[c] = "smp_ap_init"
  /\ ap_started' = TRUE
  /\ Advance(c)
  /\ UNCHANGED <<fw, loop, next, stack, rsp, base, status, loaded, aploaded, percpu_threads, threads,
                 idlenr, initcode, panicked>>

\* init_percpu_thread creates the registered threads in its area.
init_percpu_thread(c) ==
  /\ running /\ step[c] = "init_percpu_thread"
  /\ threads' = [threads EXCEPT ![base[c]] = threads[base[c]] + percpu_threads]
  /\ Advance(c)
  /\ UNCHANGED <<fw, loop, next, stack, rsp, base, status, loaded, aploaded, ap_started,
                 percpu_threads, idlenr, initcode, panicked>>

\* goto_idle: idle_main counts the processor.
goto_idle(c) ==
  /\ running /\ step[c] \in {"goto_idle", "return"}
  /\ idlenr' = idlenr + 1
  /\ Advance(c)
  /\ UNCHANGED <<fw, loop, next, stack, rsp, base, status, loaded, aploaded, ap_started,
                 percpu_threads, threads, initcode, panicked>>

\* Mutant: the BP does not wait for the last AP.
kernel_init_freeableEarly ==
  /\ running /\ step[bp] = "kernel_init_freeable"
  /\ idlenr >= nr_cpu - 2
  /\ initcode' = FALSE
  /\ Advance(bp)
  /\ UNCHANGED <<fw, loop, next, stack, rsp, base, status, loaded, aploaded, ap_started,
                 percpu_threads, threads, idlenr, panicked>>

\* kernel_init_freeable: the BP spins until the others are idle and frees the
\* initialization code, which it then returns through.
kernel_init_freeable ==
  /\ running /\ step[bp] = "kernel_init_freeable"
  /\ idlenr = nr_cpu - 1
  /\ initcode' = FALSE
  /\ Advance(bp)
  /\ UNCHANGED <<fw, loop, next, stack, rsp, base, status, loaded, aploaded, ap_started,
                 percpu_threads, threads, idlenr, panicked>>

Processor(c) ==
  \/ softirq_init(c) \/ init_module_ap(c) \/ ap_main(c) \/ smp_ap_init(c)
  \/ init_percpu_thread(c) \/ goto_idle(c)
  \/ c = bp /\ (init_module \/ bootup_aps \/ kernel_init_freeable)

BootNext == \E c \in CPUs : Processor(c)

\* Every processor that runs goes on; nothing preempts it before it is idle.
BootSpec == BootInit /\ [][BootNext]_bvars /\ \A c \in CPUs : WF_bvars(Processor(c))

-----------------------------------------------------------------------------
\* Properties

\* Every variable keeps its type.
BootTypeOK ==
  /\ bp \in CPUs /\ apic_id \in [CPUs -> UNION ApicIds] /\ order \in [1..Cardinality(Modules) -> Modules]
  /\ \A c \in CPUs : step[c] \in Range(IF c = bp THEN BPSteps ELSE APSteps)
  /\ step \in [CPUs -> Range(BPSteps) \cup Range(APSteps)] /\ loop \in 1..Times /\ next \in 0..nr_cpu
  /\ stack \in CPUs \cup {-1} /\ rsp \in [CPUs -> CPUs \cup {-1}] /\ base \in [CPUs -> CPUs \cup {-1}]
  /\ status \in [CPUs -> BOOLEAN] /\ ap_started \in BOOLEAN
  /\ loaded \subseteq Modules /\ aploaded \in [CPUs -> SUBSET Modules]
  /\ percpu_threads \in 0..1 /\ threads \in [CPUs -> Nat] /\ idlenr \in 0..nr_cpu
  /\ initcode \in BOOLEAN /\ panicked \in BOOLEAN

\* What the code takes for granted: APIC identities that are the places in
\* the table, the BP in the first, and slub linked before virtio_net.
Expected ==
  /\ \A c \in CPUs : apic_id[c] = c
  /\ bp = 0
  /\ \A i, j \in DOMAIN order : (order[i] = "slub" /\ order[j] = "virtio") => i < j

\* Two processors never run on the same initial stack, nor in the same
\* per-CPU area, although bootup_aps passes every stack through one word of
\* the trampoline.
OwnStackAndArea ==
  Expected =>
    \A c, d \in CPUs : c # d =>
      /\ rsp[c] = rsp[d] => rsp[c] = -1
      /\ base[c] = base[d] => base[c] = -1

\* When kernel_init_freeable gives the initialization code away no AP is
\* still to run any of it.
InitCodeKept == ~initcode => \A c \in CPUs \ {bp} : step[c] = "idle"

\* An idle processor has one thread for every one registered, and every
\* module the BP has loaded; the threads were registered before it started.
ProcessorsComplete ==
  Expected =>
    \A c \in CPUs : step[c] = "idle" =>
      /\ threads[base[c]] = 1
      /\ c = bp \/ aploaded[base[c]] = loaded

\* No two processors share a stack or an area on their way, none still runs
\* the initialization code that kernel_init_freeable gives away, and each has
\* its threads and modules when it is idle.
BootSafe == BootTypeOK /\ OwnStackAndArea /\ InitCodeKept /\ ProcessorsComplete

\* All processors are idle, nothing panicked, and the modules are loaded that
\* ask for fewer loops than there are.
Booted ==
  /\ \A c \in CPUs : step[c] = "idle"
  /\ ~panicked
  /\ loaded = {m \in Modules : m \in {"slub", "pci", "virtio"} \/ Wants[m] < Times}
=============================================================================
