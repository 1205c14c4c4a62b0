------------------------------ MODULE SoftIrq ------------------------------
(***************************************************************************)
(* Interrupts, softirqs and the tasklet thread of one CPU, after boot.     *)
(*                                                                         *)
(* Two threads share the CPU: idle (its base is sti_hlt) and taskletd      *)
(* (smp_thread_main).  An interrupt pushes a frame on whatever stack the   *)
(* CPU is on.  raise_softirq in a handler may wake taskletd, which is a    *)
(* stack switch in the middle of the handler: the frame waits at "back"    *)
(* until taskletd suspends.  switch_to does not save the interrupt flag,   *)
(* so the frame resumes with the flag taskletd left.                       *)
(*                                                                         *)
(* pc[t] is where thread t's newest frame is and saved[t] the points below *)
(* it that interrupts will return to:                                      *)
(*   idle      hlt | frames: back exit soft enable ret                     *)
(*   taskletd  parked check ksoft suspend0 suspend1 suspend2 | exit soft   *)
(*             ret                                                         *)
(* An interrupt taken while in_tasklet() only sets a bit, so it is one     *)
(* step and no frame.                                                      *)
(***************************************************************************)
EXTENDS Integers, Sequences, FiniteSets

CONSTANTS
  NR_SOFTIRQS,          \* opened softirqs are 0..NR_SOFTIRQS-1, lowest first
  MAX_SOFTIRQ_TIME,     \* msec __do_softirq may go on restarting
  MAX_SOFTIRQ_RESTART,  \* and the restarts it may make
  MaxNest               \* bound: interrupt frames that may be open at once

ASSUME SoftIrqAssumption ==
  /\ NR_SOFTIRQS \in Nat
  /\ MAX_SOFTIRQ_TIME \in Nat
  /\ MAX_SOFTIRQ_RESTART \in Nat \ {0}
  /\ MaxNest \in Nat

Softirqs == 0..(NR_SOFTIRQS - 1)
Threads == {"idle", "taskletd"}

VARIABLES
  irq_on,           \* the interrupt flag
  softirq_pending,  \* irq_stat.__softirq_pending, as a set of bits
  tasklet_count,    \* -1 when softirqs may start
  irq_count,        \* -1 when no interrupt frame is open
  current_thread,
  suspended,        \* taskletd has THREAD_SUSPEND
  pc, saved,
  pending,          \* local of __do_softirq: bits still to run in this pass
  max_restart,      \* local of __do_softirq
  elapsed,          \* msec since __do_softirq began, saturating
  clobbered,        \* taskletd was switched to while its own stack was in use
  owed              \* history: raised, and its action not begun since

soft == <<softirq_pending, tasklet_count, pending, max_restart, elapsed, owed>>
thr == <<current_thread, suspended, clobbered>>
vars == <<irq_on, irq_count, pc, saved, soft, thr>>

-----------------------------------------------------------------------------
Init ==
  /\ irq_on = TRUE
  /\ softirq_pending = {} /\ pending = {} /\ owed = {}
  /\ tasklet_count = -1 /\ irq_count = -1
  /\ current_thread = "idle" /\ suspended = TRUE /\ clobbered = FALSE
  /\ pc = [t \in Threads |-> IF t = "idle" THEN "hlt" ELSE "parked"]
  /\ saved = [t \in Threads |-> <<>>]
  /\ max_restart = MAX_SOFTIRQ_RESTART /\ elapsed = 0

\* The thread whose stack the CPU is on: idle waits while taskletd runs.
Exec == IF pc["taskletd"] = "parked" THEN "idle" ELSE "taskletd"

\* Mutant: the test is off by one, for a counter that starts at -1.
in_taskletOff == tasklet_count > 0

in_tasklet == tasklet_count >= 0

\* Mutant: wake_up_thread without its p == pold test.
WakesTaskletdSelf == suspended

\* wakeup_taskletd and the guards of wake_up_thread: taskletd is suspended
\* and is not the current thread.  idle's level never keeps it back.
WakesTaskletd == suspended /\ current_thread # "taskletd"

\* wake_up_thread: clear the flag, make it current, switch to its stack; the
\* switching frame will go on at the given point.  When the CPU is still on
\* taskletd's stack (inside suspend_thread, past the store to current_thread)
\* the saved stack pointer is stale and the frames above it are overwritten.
Switch(point) ==
  /\ suspended' = FALSE
  /\ current_thread' = "taskletd"
  /\ IF Exec = "idle"
     THEN /\ pc' = [pc EXCEPT !["idle"] = point, !["taskletd"] = "check"]
          /\ UNCHANGED clobbered
     ELSE clobbered' = TRUE /\ UNCHANGED pc

\* Mutant: set_softirq_pending in the place of or_softirq_pending.
raiseSet(S) == softirq_pending' = S /\ owed' = owed \cup S

raise(S) == softirq_pending' = softirq_pending \cup S /\ owed' = owed \cup S

\* ++msec_count in timer_irq_handler, on this CPU or another, as far as the
\* time limit of a running __do_softirq is concerned.
Tick ==
  /\ ~clobbered /\ in_tasklet /\ elapsed < MAX_SOFTIRQ_TIME
  /\ elapsed' = elapsed + 1
  /\ UNCHANGED <<irq_on, irq_count, pc, saved, softirq_pending, tasklet_count, pending,
                 max_restart, owed, thr>>

-----------------------------------------------------------------------------
(* Interrupts.  S is what the handler raises: nothing, or one softirq.     *)

\* While softirqs are disabled: the bit is set, irq_exit does nothing.
IrqInTasklet(S) ==
  /\ ~clobbered /\ irq_on /\ in_tasklet
  /\ raise(S)
  /\ UNCHANGED <<irq_on, irq_count, pc, saved, tasklet_count, pending, max_restart,
                 elapsed, thr>>

\* Otherwise switchtrap opens a frame with interrupts off, and raise_softirq
\* (called when S is not empty) wakes taskletd if it can.
Irq(S) ==
  /\ ~clobbered /\ irq_on /\ ~in_tasklet
  /\ irq_count + 1 < MaxNest
  /\ irq_on' = FALSE
  /\ irq_count' = irq_count + 1
  /\ raise(S)
  /\ saved' = [saved EXCEPT ![Exec] = Append(@, pc[Exec])]
  /\ IF S # {} /\ WakesTaskletd
     THEN Switch("back")
     ELSE pc' = [pc EXCEPT ![Exec] = "exit"] /\ UNCHANGED thr
  /\ UNCHANGED <<tasklet_count, pending, max_restart, elapsed>>

\* raise_softirq returns after taskletd suspended: local_irq_restore.
Back ==
  /\ Exec = "idle" /\ pc["idle"] = "back" /\ ~clobbered
  /\ irq_on' = FALSE
  /\ pc' = [pc EXCEPT !["idle"] = "exit"]
  /\ UNCHANGED <<irq_count, saved, soft, thr>>

\* __do_softirq up to the first action: disable_tasklet, take the word,
\* clear it, enable interrupts.
BeginSoftirq ==
  /\ tasklet_count' = tasklet_count + 1
  /\ pending' = softirq_pending
  /\ softirq_pending' = {}
  /\ irq_on' = TRUE
  /\ max_restart' = MAX_SOFTIRQ_RESTART
  /\ elapsed' = 0
  /\ UNCHANGED owed

irq_exit(t) ==
  /\ Exec = t /\ pc[t] = "exit" /\ ~clobbered
  /\ IF ~in_tasklet /\ softirq_pending # {}
     THEN pc' = [pc EXCEPT ![t] = "soft"] /\ BeginSoftirq
     ELSE pc' = [pc EXCEPT ![t] = "ret"] /\ irq_on' = FALSE /\ UNCHANGED soft
  /\ UNCHANGED <<irq_count, saved, thr>>

\* Mutant: no decl of irq_count.
switchtrapretNoDec(t) ==
  /\ Exec = t /\ pc[t] = "ret" /\ ~clobbered
  /\ irq_on' = TRUE
  /\ pc' = [pc EXCEPT ![t] = saved[t][Len(saved[t])]]
  /\ saved' = [saved EXCEPT ![t] = SubSeq(@, 1, Len(@) - 1)]
  /\ UNCHANGED <<irq_count, soft, thr>>

\* switchtrapret: cli, decl irq_count, iretq to a point with interrupts on.
switchtrapret(t) ==
  /\ Exec = t /\ pc[t] = "ret" /\ ~clobbered
  /\ irq_on' = TRUE
  /\ irq_count' = irq_count - 1
  /\ pc' = [pc EXCEPT ![t] = saved[t][Len(saved[t])]]
  /\ saved' = [saved EXCEPT ![t] = SubSeq(@, 1, Len(@) - 1)]
  /\ UNCHANGED <<soft, thr>>

-----------------------------------------------------------------------------
(* __do_softirq, called from irq_exit ("soft") or run_ksoftirqd ("ksoft")  *)

InSoftirq(t) == pc[t] \in {"soft", "ksoft"}

\* h->action(h) for the lowest bit left; the action may raise softirqs.
RunAction(t) ==
  /\ Exec = t /\ InSoftirq(t) /\ ~clobbered
  /\ \E n \in pending :
       /\ \A m \in pending : n <= m
       /\ pending' = pending \ {n}
       /\ \E S \in SUBSET Softirqs :
            /\ softirq_pending' = softirq_pending \cup S
            /\ owed' = (owed \ {n}) \cup S
  /\ UNCHANGED <<irq_on, irq_count, pc, saved, tasklet_count, max_restart, elapsed, thr>>

\* Where the caller of __do_softirq goes on: irq_exit returns with interrupts
\* off, run_ksoftirqd enables them and returns to smp_thread_main.
ReturnPoint(t) == IF pc[t] = "soft" THEN "ret" ELSE "suspend0"

\* Mutant: the restarts are counted but never limited.
MayRestartAlways == elapsed < MAX_SOFTIRQ_TIME

\* msec_count < end && --max_restart
MayRestart == elapsed < MAX_SOFTIRQ_TIME /\ max_restart - 1 # 0

\* The end of a pass, with interrupts off.  The word is not empty and the
\* limits allow it: take it and start again ...
Restart(t) ==
  /\ Exec = t /\ InSoftirq(t) /\ pending = {} /\ ~clobbered
  /\ softirq_pending # {} /\ MayRestart
  /\ max_restart' = max_restart - 1
  /\ pending' = softirq_pending
  /\ softirq_pending' = {}
  /\ irq_on' = TRUE
  /\ UNCHANGED <<irq_count, pc, saved, tasklet_count, elapsed, owed, thr>>

\* ... or leave it to taskletd, which is woken here and runs with softirqs
\* still disabled while this frame waits at "enable" ...
HandOver(t) ==
  /\ Exec = t /\ InSoftirq(t) /\ pending = {} /\ ~clobbered
  /\ softirq_pending # {} /\ ~MayRestart /\ WakesTaskletd
  /\ Switch("enable")
  /\ irq_on' = FALSE
  /\ UNCHANGED <<irq_count, saved, soft>>

\* ... or, with nothing pending or nobody to wake, enable_tasklet and return.
Leave(t) ==
  /\ Exec = t /\ InSoftirq(t) /\ pending = {} /\ ~clobbered
  /\ softirq_pending # {} => ~MayRestart /\ ~WakesTaskletd
  /\ tasklet_count' = tasklet_count - 1
  /\ pc' = [pc EXCEPT ![t] = ReturnPoint(t)]
  /\ irq_on' = (pc[t] = "ksoft")
  /\ UNCHANGED <<irq_count, saved, softirq_pending, pending, max_restart, elapsed, owed, thr>>

\* Mutant: the path through wakeup_taskletd misses enable_tasklet.
EnableTaskletMissing ==
  /\ Exec = "idle" /\ pc["idle"] = "enable" /\ ~clobbered
  /\ pc' = [pc EXCEPT !["idle"] = "ret"]
  /\ UNCHANGED <<irq_on, irq_count, saved, soft, thr>>

\* wakeup_taskletd returns into __do_softirq: enable_tasklet and return.
EnableTasklet ==
  /\ Exec = "idle" /\ pc["idle"] = "enable" /\ ~clobbered
  /\ tasklet_count' = tasklet_count - 1
  /\ pc' = [pc EXCEPT !["idle"] = "ret"]
  /\ UNCHANGED <<irq_on, irq_count, saved, softirq_pending, pending, max_restart,
                 elapsed, owed, thr>>

-----------------------------------------------------------------------------
(* taskletd: smp_thread_main, run_ksoftirqd, suspend_thread                *)

\* ksoftirqd_should_run, then run_ksoftirqd.
Check ==
  /\ pc["taskletd"] = "check" /\ ~clobbered
  /\ IF softirq_pending # {}
     THEN pc' = [pc EXCEPT !["taskletd"] = "ksoft"] /\ BeginSoftirq
     ELSE pc' = [pc EXCEPT !["taskletd"] = "suspend0"] /\ UNCHANGED <<irq_on, soft>>
  /\ UNCHANGED <<irq_count, saved, thr>>

\* suspend_thread: set the flag ...
SetSuspend ==
  /\ pc["taskletd"] = "suspend0" /\ ~clobbered
  /\ suspended' = TRUE
  /\ pc' = [pc EXCEPT !["taskletd"] = "suspend1"]
  /\ UNCHANGED <<irq_on, irq_count, saved, soft, current_thread, clobbered>>

\* Mutant: suspend_thread leaves current_thread alone.
SetCurrentMissing ==
  /\ pc["taskletd"] = "suspend1" /\ ~clobbered
  /\ pc' = [pc EXCEPT !["taskletd"] = "suspend2"]
  /\ UNCHANGED <<irq_on, irq_count, saved, soft, thr>>

\* ... make the parent current ...
SetCurrent ==
  /\ pc["taskletd"] = "suspend1" /\ ~clobbered
  /\ current_thread' = "idle"
  /\ pc' = [pc EXCEPT !["taskletd"] = "suspend2"]
  /\ UNCHANGED <<irq_on, irq_count, saved, soft, suspended, clobbered>>

\* ... and switch to it.  switch_to leaves the interrupt flag as it is.
SwitchBack ==
  /\ pc["taskletd"] = "suspend2" /\ ~clobbered
  /\ pc' = [pc EXCEPT !["taskletd"] = "parked"]
  /\ UNCHANGED <<irq_on, irq_count, saved, soft, thr>>

\* What follows a switch to an overwritten stack is undefined.
Undefined == clobbered /\ UNCHANGED vars

-----------------------------------------------------------------------------
Raised == {{}} \cup {{n} : n \in Softirqs}

AnyIrq == \E S \in Raised : IrqInTasklet(S) \/ Irq(S)

CpuStep ==
  \/ Back \/ EnableTasklet
  \/ \E t \in Threads : irq_exit(t) \/ switchtrapret(t)
  \/ \E t \in Threads : RunAction(t) \/ Restart(t) \/ HandOver(t) \/ Leave(t)
  \/ Check \/ SetSuspend \/ SetCurrent \/ SwitchBack

Next == AnyIrq \/ Tick \/ CpuStep \/ Undefined

\* The CPU executes, and the timer keeps interrupting it.
Spec == Init /\ [][Next]_vars /\ WF_vars(CpuStep) /\ WF_vars(AnyIrq)

-----------------------------------------------------------------------------
(* Properties *)

IdlePoints == {"hlt", "back", "exit", "soft", "enable", "ret"}
TaskletdPoints == {"parked", "check", "ksoft", "suspend0", "suspend1", "suspend2",
                   "exit", "soft", "ret"}

TypeOK ==
  /\ irq_on \in BOOLEAN /\ suspended \in BOOLEAN /\ clobbered \in BOOLEAN
  /\ softirq_pending \subseteq Softirqs /\ pending \subseteq Softirqs
  /\ owed \subseteq Softirqs
  /\ tasklet_count \in -1..1 /\ irq_count \in -1..(MaxNest - 1)
  /\ current_thread \in Threads
  /\ pc \in [Threads -> IdlePoints \cup TaskletdPoints]
  /\ pc["idle"] \in IdlePoints /\ pc["taskletd"] \in TaskletdPoints
  /\ saved \in [Threads -> Seq(IdlePoints \cup TaskletdPoints)]
  /\ max_restart \in 1..MAX_SOFTIRQ_RESTART
  /\ elapsed \in 0..MAX_SOFTIRQ_TIME

\* Two runs of the softirq actions never overlap on a CPU, whatever nests in
\* whatever: interrupts, the switch to taskletd inside a handler, and the wake
\* up at the end of __do_softirq; nor is one left below an interrupt frame.
SoftirqsExclusive ==
  /\ ~(InSoftirq("idle") /\ InSoftirq("taskletd"))
  /\ \A t \in Threads : \A i \in 1..Len(saved[t]) : saved[t][i] \notin {"soft", "ksoft"}

\* A raised softirq is never lost: until its action begins, its bit is in the
\* CPU's word or in the local copy of the pass that is running.
NoLostSoftirq == owed \subseteq softirq_pending \cup pending

\* disable_tasklet and enable_tasklet balance on every path, so that softirqs
\* can start whenever no __do_softirq is open.
Open(t) == IF InSoftirq(t) \/ pc[t] = "enable" THEN 1 ELSE 0
TaskletCountBalanced ==
  ~clobbered => tasklet_count = Open("idle") + Open("taskletd") - 1

\* irq_count is -1 plus the open frames although frames stay open across
\* thread switches; switchtrap takes the interrupt stack from the top only
\* when none is open.
IrqCountExact ==
  ~clobbered => irq_count = Len(saved["idle"]) + Len(saved["taskletd"]) - 1

\* current_thread names the thread whose stack the CPU is on, except between
\* suspend_thread's store to current_thread and its switch.
InSwitchWindow ==
  \/ pc["taskletd"] = "suspend2"
  \/ Len(saved["taskletd"]) > 0 /\ saved["taskletd"][1] = "suspend2"
CurrentThreadExact ==
  ~clobbered => \/ InSwitchWindow /\ current_thread = "idle"
                \/ ~InSwitchWindow /\ current_thread = Exec

\* taskletd's stack is switched to while in use only by an interrupt taken in
\* that window of suspend_thread, which runs with interrupts enabled.
ClobberedOnlyInWindow == clobbered => InSwitchWindow

\* A pending softirq is taken up: by irq_exit, by taskletd, or by the next
\* interrupt when taskletd went to sleep on a non-empty word.
SoftirqServed ==
  \A n \in Softirqs : (n \in softirq_pending) ~> (n \notin softirq_pending \/ clobbered)

\* What irq.c, tasklet.c and kthread.c keep on a processor: softirqs do not
\* nest, tasklet_count and irq_count are exact, and current_thread and the stack
\* belong together outside the window of suspend_thread.
SoftirqSafe ==
  /\ TypeOK /\ SoftirqsExclusive /\ TaskletCountBalanced /\ IrqCountExact
  /\ CurrentThreadExact /\ ClobberedOnlyInWindow
=============================================================================
