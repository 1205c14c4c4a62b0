--------------------------- MODULE SoftIrqProofs ---------------------------
(***************************************************************************)
(* Proofs about SoftIrq for every number of softirqs, restart limit, time  *)
(* limit and interrupt nesting.                                            *)
(***************************************************************************)
EXTENDS SoftIrq, TLAPS

\* The point of taskletd's own code, below an interrupt frame if there is one.
Base == IF Len(saved["taskletd"]) = 0 THEN pc["taskletd"] ELSE saved["taskletd"][1]

FramePoints == {"exit", "soft", "ret"}

\* Interrupts return only to points that run with interrupts enabled; idle's
\* oldest one is its hlt, and taskletd has at most one frame.
FramesOK ==
  /\ \A i \in 1..Len(saved["idle"]) :
       /\ saved["idle"][i] \in {"hlt", "back", "ret"}
       /\ saved["idle"][i] = "hlt" <=> i = 1
  /\ pc["idle"] = "hlt" <=> Len(saved["idle"]) = 0
  /\ pc["taskletd"] \notin FramePoints => Len(saved["taskletd"]) = 0
  /\ pc["taskletd"] \in FramePoints =>
       /\ Len(saved["taskletd"]) = 1
       /\ saved["taskletd"][1] \in {"suspend0", "suspend1", "suspend2"}

\* While taskletd runs, idle waits in a handler or at the end of __do_softirq,
\* and in the latter case no interrupt has opened a frame on taskletd's stack.
WaitsOK ==
  /\ pc["taskletd"] # "parked" => pc["idle"] \in {"back", "enable"}
  /\ pc["idle"] = "enable" => pc["taskletd"] \notin FramePoints

\* Interrupts are off at the points between a handler and its return.
FlagOK ==
  /\ pc["taskletd"] \in {"exit", "ret", "check"} => ~irq_on
  /\ pc["taskletd"] = "parked" /\ pc["idle"] = "exit" => ~irq_on

\* taskletd's flag and current_thread follow the steps of suspend_thread.
ThreadOK ==
  /\ suspended <=> Base \in {"parked", "suspend1", "suspend2"}
  /\ current_thread = "idle" <=> Base \in {"parked", "suspend2"}

\* The local word of __do_softirq is empty when no pass is running.
LocalOK == pending # {} => InSoftirq("idle") \/ InSoftirq("taskletd")

Structure ==
  /\ FramesOK /\ WaitsOK /\ FlagOK /\ ThreadOK /\ LocalOK
  /\ tasklet_count = Open("idle") + Open("taskletd") - 1
  /\ irq_count = Len(saved["idle"]) + Len(saved["taskletd"]) - 1

IInv ==
  /\ TypeOK
  /\ NoLostSoftirq
  /\ SoftirqsExclusive
  /\ ClobberedOnlyInWindow
  /\ ~clobbered => Structure

-----------------------------------------------------------------------------
\* Opening a frame: what Append does to a stack of return points.
LEMMA PushPoint ==
  ASSUME NEW S, NEW s \in Seq(S), NEW p \in S
  PROVE  /\ Append(s, p) \in Seq(S)
         /\ Len(Append(s, p)) = Len(s) + 1
         /\ \A i \in 1..Len(s) : Append(s, p)[i] = s[i]
         /\ Append(s, p)[Len(s) + 1] = p
  OBVIOUS

\* Closing a frame: what is left when the newest return point is taken off.
LEMMA PopPoint ==
  ASSUME NEW S, NEW s \in Seq(S), Len(s) > 0
  PROVE  /\ SubSeq(s, 1, Len(s) - 1) \in Seq(S)
         /\ Len(SubSeq(s, 1, Len(s) - 1)) = Len(s) - 1
         /\ \A i \in 1..(Len(s) - 1) : SubSeq(s, 1, Len(s) - 1)[i] = s[i]
         /\ s[Len(s)] \in S
<1>1. Len(s) \in Nat /\ \A i \in 1..Len(s) : s[i] \in S
  OBVIOUS
<1>2. Len(s) - 1 \in Int /\ \A i \in 1..(Len(s) - 1) : s[i] \in S
  BY <1>1
<1> DEFINE r == SubSeq(s, 1, Len(s) - 1)
<1>3. /\ r \in Seq(S)
      /\ Len(r) = IF 1 <= Len(s) - 1 THEN Len(s) - 1 - 1 + 1 ELSE 0
      /\ \A i \in 1..(Len(s) - 1 - 1 + 1) : r[i] = s[1 + i - 1]
  BY <1>2
<1> HIDE DEF r
<1>4. Len(r) = Len(s) - 1
  <2> DEFINE n == Len(s)
  <2>1. n \in Nat /\ n > 0 /\ Len(r) = IF 1 <= n - 1 THEN n - 1 - 1 + 1 ELSE 0
    BY <1>1, <1>3, Zenon
  <2> HIDE DEF n
  <2>2. Len(r) = n - 1
    BY <2>1
  <2> QED
    BY <2>2, Zenon DEF n
<1>5. \A i \in 1..(Len(s) - 1) : r[i] = s[i]
  BY <1>1, <1>3
<1> QED
  BY <1>1, <1>3, <1>4, <1>5 DEF r

USE DEF Threads, IdlePoints, TaskletdPoints, FramePoints

\* The initial state, at sti_hlt with taskletd parked, satisfies the invariant.
LEMMA InitIInv == Init => IInv
<1> SUFFICES ASSUME Init PROVE IInv
  BY Zenon
<1>0. /\ pc["idle"] = "hlt" /\ pc["taskletd"] = "parked"
      /\ saved["idle"] = <<>> /\ saved["taskletd"] = <<>>
      /\ Len(saved["idle"]) = 0 /\ Len(saved["taskletd"]) = 0
  BY Zenon DEF Init
<1>1. TypeOK
  <2>1. saved \in [Threads -> Seq(IdlePoints \cup TaskletdPoints)]
    BY DEF Init
  <2>2. /\ tasklet_count \in -1..1 /\ irq_count \in -1..(MaxNest - 1)
        /\ max_restart \in 1..MAX_SOFTIRQ_RESTART /\ elapsed \in 0..MAX_SOFTIRQ_TIME
    BY SoftIrqAssumption DEF Init
  <2>3. pc \in [Threads -> IdlePoints \cup TaskletdPoints]
    BY Zenon DEF Init
  <2> QED
    BY <1>0, <2>1, <2>2, <2>3, Zenon DEF Init, TypeOK
<1>2. NoLostSoftirq /\ ClobberedOnlyInWindow
  BY Zenon DEF Init, NoLostSoftirq, ClobberedOnlyInWindow
<1>3. SoftirqsExclusive
  BY <1>0 DEF SoftirqsExclusive, InSoftirq
<1>4. Structure
  BY <1>0 DEF Init, Structure, FramesOK, WaitsOK, FlagOK, ThreadOK, LocalOK, Base, Open, InSoftirq
<1> QED
  BY <1>1, <1>2, <1>3, <1>4, Zenon DEF IInv

\* The time limit of a running __do_softirq draws nearer.
LEMMA TickKeeps ==
  IInv /\ Tick => IInv'
<1> SUFFICES ASSUME IInv, Tick PROVE IInv'
  BY Zenon
<1>0. ~clobbered /\ Structure /\ TypeOK
  BY Zenon DEF IInv, Tick
<1>1. TypeOK'
  BY <1>0, SoftIrqAssumption DEF TypeOK, Structure, WaitsOK, Open, InSoftirq, Tick, thr,
     in_tasklet
<1>2. NoLostSoftirq'
  BY <1>0, Zenon DEF IInv, NoLostSoftirq, Structure, LocalOK, WaitsOK, Open, InSoftirq, TypeOK,
     Tick, thr, in_tasklet
<1>3. SoftirqsExclusive'
  BY <1>0, Zenon DEF IInv, TypeOK, SoftirqsExclusive, Structure, WaitsOK, InSoftirq, Tick, thr,
     in_tasklet
<1>4. ClobberedOnlyInWindow'
  BY <1>0, Zenon DEF ClobberedOnlyInWindow, Tick, thr, in_tasklet
<1>5. ~clobbered' => FramesOK' /\ WaitsOK'
  BY <1>0, Zenon DEF TypeOK, Structure, FramesOK, WaitsOK, Tick, thr, in_tasklet
<1>6. ~clobbered' => FlagOK' /\ ThreadOK'
  BY <1>0, Zenon DEF TypeOK, Structure, FramesOK, WaitsOK, FlagOK, ThreadOK, Base, Tick, thr,
     in_tasklet
<1>7. ~clobbered' => LocalOK' /\ TaskletCountBalanced' /\ IrqCountExact'
  BY <1>0, Zenon DEF TypeOK, Structure, LocalOK, WaitsOK, TaskletCountBalanced, IrqCountExact,
     Open, InSoftirq, Tick, thr, in_tasklet
<1> QED
  BY <1>1, <1>2, <1>3, <1>4, <1>5, <1>6, <1>7, Zenon
  DEF IInv, Structure, TaskletCountBalanced, IrqCountExact

\* An interrupt while softirqs are disabled only sets a bit.
LEMMA IrqInTaskletKeeps ==
  ASSUME NEW S \in Raised PROVE IInv /\ IrqInTasklet(S) => IInv'
<1> SUFFICES ASSUME IInv, IrqInTasklet(S) PROVE IInv'
  BY Zenon
<1>0. ~clobbered /\ Structure /\ TypeOK
  BY Zenon DEF IInv, IrqInTasklet
<1>1. TypeOK'
  BY <1>0, SoftIrqAssumption DEF TypeOK, Structure, WaitsOK, Open, InSoftirq,
     IrqInTasklet, raise, Raised, thr
<1>2. NoLostSoftirq'
  BY <1>0, Zenon DEF IInv, NoLostSoftirq, Structure, LocalOK, WaitsOK, Open, InSoftirq, TypeOK,
     IrqInTasklet, raise, Raised, thr
<1>3. SoftirqsExclusive'
  BY <1>0, Zenon DEF IInv, TypeOK, SoftirqsExclusive, Structure, WaitsOK, InSoftirq,
     IrqInTasklet, raise, Raised, thr
<1>4. ClobberedOnlyInWindow'
  BY <1>0, Zenon DEF ClobberedOnlyInWindow, IrqInTasklet, raise, Raised, thr
<1>5. ~clobbered' => FramesOK' /\ WaitsOK'
  BY <1>0, Zenon DEF TypeOK, Structure, FramesOK, WaitsOK, IrqInTasklet, raise, Raised, thr
<1>6. ~clobbered' => FlagOK' /\ ThreadOK'
  BY <1>0, Zenon DEF TypeOK, Structure, FramesOK, WaitsOK, FlagOK, ThreadOK, Base,
     IrqInTasklet, raise, Raised, thr
<1>7. ~clobbered' => LocalOK' /\ TaskletCountBalanced' /\ IrqCountExact'
  BY <1>0, Zenon DEF TypeOK, Structure, LocalOK, WaitsOK, TaskletCountBalanced, IrqCountExact,
     Open, InSoftirq, IrqInTasklet, raise, Raised, thr
<1> QED
  BY <1>1, <1>2, <1>3, <1>4, <1>5, <1>6, <1>7, Zenon
  DEF IInv, Structure, TaskletCountBalanced, IrqCountExact

\* raise_softirq returns in a handler after taskletd suspended.
LEMMA BackKeeps ==
  IInv /\ Back => IInv'
<1> SUFFICES ASSUME IInv, Back PROVE IInv'
  BY Zenon
<1>0. ~clobbered /\ Structure /\ TypeOK
  BY Zenon DEF IInv, Back
<1>1. TypeOK'
  BY <1>0, SoftIrqAssumption, Zenon DEF TypeOK, Structure, WaitsOK, Open, InSoftirq, Back,
     Exec, soft, thr
<1>2. NoLostSoftirq'
  BY <1>0, Zenon DEF IInv, NoLostSoftirq, Structure, LocalOK, WaitsOK, Open, InSoftirq, TypeOK,
     Back, Exec, soft, thr
<1>3. SoftirqsExclusive'
  BY <1>0, Zenon DEF IInv, TypeOK, SoftirqsExclusive, Structure, WaitsOK, InSoftirq, Back,
     Exec, soft, thr
<1>4. ClobberedOnlyInWindow'
  BY <1>0, Zenon DEF ClobberedOnlyInWindow, Back, Exec, soft, thr
<1>5. ~clobbered' => FramesOK' /\ WaitsOK'
  BY <1>0, Zenon DEF TypeOK, Structure, FramesOK, WaitsOK, Back, Exec, soft, thr
<1>6. ~clobbered' => FlagOK' /\ ThreadOK'
  BY <1>0, Zenon DEF TypeOK, Structure, FramesOK, WaitsOK, FlagOK, ThreadOK, Base, Back, Exec,
     soft, thr
<1>7. ~clobbered' => LocalOK' /\ TaskletCountBalanced' /\ IrqCountExact'
  BY <1>0, Zenon DEF TypeOK, Structure, LocalOK, WaitsOK, TaskletCountBalanced, IrqCountExact,
     Open, InSoftirq, Back, Exec, soft, thr
<1> QED
  BY <1>1, <1>2, <1>3, <1>4, <1>5, <1>6, <1>7, Zenon
  DEF IInv, Structure, TaskletCountBalanced, IrqCountExact

\* enable_tasklet after taskletd was woken at the end of __do_softirq.
LEMMA EnableTaskletKeeps ==
  IInv /\ EnableTasklet => IInv'
<1> SUFFICES ASSUME IInv, EnableTasklet PROVE IInv'
  BY Zenon
<1>0. ~clobbered /\ Structure /\ TypeOK
  BY Zenon DEF IInv, EnableTasklet
<1>1. TypeOK'
  BY <1>0, SoftIrqAssumption DEF TypeOK, Structure, WaitsOK, Open, InSoftirq,
     EnableTasklet, Exec, thr
<1>2. NoLostSoftirq'
  BY <1>0, Zenon DEF IInv, NoLostSoftirq, Structure, LocalOK, WaitsOK, Open, InSoftirq, TypeOK,
     EnableTasklet, Exec, thr
<1>3. SoftirqsExclusive'
  BY <1>0, Zenon DEF IInv, TypeOK, SoftirqsExclusive, Structure, WaitsOK, InSoftirq,
     EnableTasklet, Exec, thr
<1>4. ClobberedOnlyInWindow'
  BY <1>0, Zenon DEF ClobberedOnlyInWindow, EnableTasklet, Exec, thr
<1>5. ~clobbered' => FramesOK' /\ WaitsOK'
  BY <1>0, Zenon DEF TypeOK, Structure, FramesOK, WaitsOK, EnableTasklet, Exec, thr
<1>6. ~clobbered' => FlagOK' /\ ThreadOK'
  BY <1>0, Zenon DEF TypeOK, Structure, FramesOK, WaitsOK, FlagOK, ThreadOK, Base,
     EnableTasklet, Exec, thr
<1>7. ~clobbered' => LocalOK' /\ TaskletCountBalanced' /\ IrqCountExact'
  BY <1>0 DEF TypeOK, Structure, LocalOK, WaitsOK, TaskletCountBalanced, IrqCountExact,
     Open, InSoftirq, EnableTasklet, Exec, thr
<1> QED
  BY <1>1, <1>2, <1>3, <1>4, <1>5, <1>6, <1>7, Zenon
  DEF IInv, Structure, TaskletCountBalanced, IrqCountExact

\* taskletd starts a run or goes on to suspend.
LEMMA CheckKeeps ==
  IInv /\ Check => IInv'
<1> SUFFICES ASSUME IInv, Check PROVE IInv'
  BY Zenon
<1>0. ~clobbered /\ Structure /\ TypeOK
  BY Zenon DEF IInv, Check
<1>1. TypeOK'
  <2>1. tasklet_count' \in -1..1
    BY <1>0 DEF TypeOK, Structure, WaitsOK, Open, InSoftirq, Check, BeginSoftirq, soft,
       thr
  <2>2. max_restart' \in 1..MAX_SOFTIRQ_RESTART /\ elapsed' \in 0..MAX_SOFTIRQ_TIME
    BY <1>0, SoftIrqAssumption DEF TypeOK, Check, BeginSoftirq, soft, thr
  <2>3. /\ pc' \in [Threads -> IdlePoints \cup TaskletdPoints]
        /\ pc'["idle"] \in IdlePoints /\ pc'["taskletd"] \in TaskletdPoints
    BY <1>0, Zenon DEF TypeOK, Check, BeginSoftirq, soft, thr
  <2> QED
    BY <1>0, <2>1, <2>2, <2>3, Zenon DEF TypeOK, Check, BeginSoftirq, soft, thr
<1>2. NoLostSoftirq'
  BY <1>0, Zenon DEF IInv, NoLostSoftirq, Structure, LocalOK, WaitsOK, Open, InSoftirq, TypeOK,
     Check, BeginSoftirq, soft, thr
<1>3. SoftirqsExclusive'
  BY <1>0, Zenon DEF IInv, TypeOK, SoftirqsExclusive, Structure, WaitsOK, InSoftirq, Check,
     BeginSoftirq, soft, thr
<1>4. ClobberedOnlyInWindow'
  BY <1>0, Zenon DEF ClobberedOnlyInWindow, Check, BeginSoftirq, soft, thr
<1>5. ~clobbered' => FramesOK' /\ WaitsOK'
  BY <1>0, Zenon DEF TypeOK, Structure, FramesOK, WaitsOK, Check, BeginSoftirq, soft, thr
<1>6. ~clobbered' => FlagOK' /\ ThreadOK'
  BY <1>0 DEF TypeOK, Structure, FramesOK, WaitsOK, FlagOK, ThreadOK, Base, Check,
     BeginSoftirq, soft, thr
<1>7. ~clobbered' => LocalOK' /\ TaskletCountBalanced' /\ IrqCountExact'
  BY <1>0 DEF TypeOK, Structure, LocalOK, WaitsOK, TaskletCountBalanced, IrqCountExact,
     Open, InSoftirq, Check, BeginSoftirq, soft, thr
<1> QED
  BY <1>1, <1>2, <1>3, <1>4, <1>5, <1>6, <1>7, Zenon
  DEF IInv, Structure, TaskletCountBalanced, IrqCountExact

\* suspend_thread sets the flag.
LEMMA SetSuspendKeeps ==
  IInv /\ SetSuspend => IInv'
<1> SUFFICES ASSUME IInv, SetSuspend PROVE IInv'
  BY Zenon
<1>0. ~clobbered /\ Structure /\ TypeOK
  BY Zenon DEF IInv, SetSuspend
<1>1. TypeOK'
  BY <1>0, SoftIrqAssumption, Zenon DEF TypeOK, Structure, WaitsOK, Open, InSoftirq,
     SetSuspend, soft, thr
<1>2. NoLostSoftirq'
  BY <1>0, Zenon DEF IInv, NoLostSoftirq, Structure, LocalOK, WaitsOK, Open, InSoftirq, TypeOK,
     SetSuspend, soft, thr
<1>3. SoftirqsExclusive'
  BY <1>0, Zenon DEF IInv, TypeOK, SoftirqsExclusive, Structure, WaitsOK, InSoftirq,
     SetSuspend, soft, thr
<1>4. ClobberedOnlyInWindow'
  BY <1>0, Zenon DEF ClobberedOnlyInWindow, SetSuspend, soft, thr
<1>5. ~clobbered' => FramesOK' /\ WaitsOK'
  BY <1>0, Zenon DEF TypeOK, Structure, FramesOK, WaitsOK, SetSuspend, soft, thr
<1>6. ~clobbered' => FlagOK' /\ ThreadOK'
  BY <1>0, Zenon DEF TypeOK, Structure, FramesOK, WaitsOK, FlagOK, ThreadOK, Base, SetSuspend,
     soft, thr
<1>7. ~clobbered' => LocalOK' /\ TaskletCountBalanced' /\ IrqCountExact'
  BY <1>0, Zenon DEF TypeOK, Structure, LocalOK, WaitsOK, TaskletCountBalanced, IrqCountExact,
     Open, InSoftirq, SetSuspend, soft, thr
<1> QED
  BY <1>1, <1>2, <1>3, <1>4, <1>5, <1>6, <1>7, Zenon
  DEF IInv, Structure, TaskletCountBalanced, IrqCountExact

\* suspend_thread makes the parent current.
LEMMA SetCurrentKeeps ==
  IInv /\ SetCurrent => IInv'
<1> SUFFICES ASSUME IInv, SetCurrent PROVE IInv'
  BY Zenon
<1>0. ~clobbered /\ Structure /\ TypeOK
  BY Zenon DEF IInv, SetCurrent
<1>1. TypeOK'
  BY <1>0, SoftIrqAssumption, Zenon DEF TypeOK, Structure, WaitsOK, Open, InSoftirq,
     SetCurrent, soft, thr
<1>2. NoLostSoftirq'
  BY <1>0, Zenon DEF IInv, NoLostSoftirq, Structure, LocalOK, WaitsOK, Open, InSoftirq, TypeOK,
     SetCurrent, soft, thr
<1>3. SoftirqsExclusive'
  BY <1>0, Zenon DEF IInv, TypeOK, SoftirqsExclusive, Structure, WaitsOK, InSoftirq,
     SetCurrent, soft, thr
<1>4. ClobberedOnlyInWindow'
  BY <1>0, Zenon DEF ClobberedOnlyInWindow, SetCurrent, soft, thr
<1>5. ~clobbered' => FramesOK' /\ WaitsOK'
  BY <1>0, Zenon DEF TypeOK, Structure, FramesOK, WaitsOK, SetCurrent, soft, thr
<1>6. ~clobbered' => FlagOK' /\ ThreadOK'
  BY <1>0, Zenon DEF TypeOK, Structure, FramesOK, WaitsOK, FlagOK, ThreadOK, Base, SetCurrent,
     soft, thr
<1>7. ~clobbered' => LocalOK' /\ TaskletCountBalanced' /\ IrqCountExact'
  BY <1>0, Zenon DEF TypeOK, Structure, LocalOK, WaitsOK, TaskletCountBalanced, IrqCountExact,
     Open, InSoftirq, SetCurrent, soft, thr
<1> QED
  BY <1>1, <1>2, <1>3, <1>4, <1>5, <1>6, <1>7, Zenon
  DEF IInv, Structure, TaskletCountBalanced, IrqCountExact

\* suspend_thread switches to the parent.
LEMMA SwitchBackKeeps ==
  IInv /\ SwitchBack => IInv'
<1> SUFFICES ASSUME IInv, SwitchBack PROVE IInv'
  BY Zenon
<1>0. ~clobbered /\ Structure /\ TypeOK
  BY Zenon DEF IInv, SwitchBack
<1>1. TypeOK'
  BY <1>0, SoftIrqAssumption, Zenon DEF TypeOK, Structure, WaitsOK, Open, InSoftirq,
     SwitchBack, soft, thr
<1>2. NoLostSoftirq'
  BY <1>0, Zenon DEF IInv, NoLostSoftirq, Structure, LocalOK, WaitsOK, Open, InSoftirq, TypeOK,
     SwitchBack, soft, thr
<1>3. SoftirqsExclusive'
  BY <1>0, Zenon DEF IInv, TypeOK, SoftirqsExclusive, Structure, WaitsOK, InSoftirq,
     SwitchBack, soft, thr
<1>4. ClobberedOnlyInWindow'
  BY <1>0, Zenon DEF ClobberedOnlyInWindow, SwitchBack, soft, thr
<1>5. ~clobbered' => FramesOK' /\ WaitsOK'
  BY <1>0, Zenon DEF TypeOK, Structure, FramesOK, WaitsOK, SwitchBack, soft, thr
<1>6. ~clobbered' => FlagOK' /\ ThreadOK'
  BY <1>0, Zenon DEF TypeOK, Structure, FramesOK, WaitsOK, FlagOK, ThreadOK, Base, SwitchBack,
     soft, thr
<1>7. ~clobbered' => LocalOK' /\ TaskletCountBalanced' /\ IrqCountExact'
  BY <1>0, Zenon DEF TypeOK, Structure, LocalOK, WaitsOK, TaskletCountBalanced, IrqCountExact,
     Open, InSoftirq, SwitchBack, soft, thr
<1> QED
  BY <1>1, <1>2, <1>3, <1>4, <1>5, <1>6, <1>7, Zenon
  DEF IInv, Structure, TaskletCountBalanced, IrqCountExact

\* irq_exit starts a run, or returns.
LEMMA irq_exitKeeps ==
  ASSUME NEW t \in Threads PROVE IInv /\ irq_exit(t) => IInv'
<1> SUFFICES ASSUME IInv, irq_exit(t) PROVE IInv'
  BY Zenon
<1>0. ~clobbered /\ Structure /\ TypeOK
  BY Zenon DEF IInv, irq_exit
<1>1. TypeOK'
  <2>1. tasklet_count' \in -1..1
    BY <1>0 DEF TypeOK, Structure, WaitsOK, Open, InSoftirq, irq_exit, Exec, in_tasklet,
       BeginSoftirq, soft, thr
  <2>2. max_restart' \in 1..MAX_SOFTIRQ_RESTART /\ elapsed' \in 0..MAX_SOFTIRQ_TIME
    BY <1>0, SoftIrqAssumption DEF TypeOK, irq_exit, Exec, in_tasklet, BeginSoftirq,
       soft, thr
  <2>3. /\ pc' \in [Threads -> IdlePoints \cup TaskletdPoints]
        /\ pc'["idle"] \in IdlePoints /\ pc'["taskletd"] \in TaskletdPoints
    BY <1>0, Zenon DEF TypeOK, irq_exit, Exec, in_tasklet, BeginSoftirq, soft, thr
  <2> QED
    BY <1>0, <2>1, <2>2, <2>3, Zenon DEF TypeOK, irq_exit, Exec, in_tasklet, BeginSoftirq,
       soft, thr
<1>2. NoLostSoftirq'
  BY <1>0, Zenon DEF IInv, NoLostSoftirq, Structure, LocalOK, WaitsOK, Open, InSoftirq, TypeOK,
     irq_exit, Exec, in_tasklet, BeginSoftirq, soft, thr
<1>3. SoftirqsExclusive'
  BY <1>0, Zenon DEF IInv, TypeOK, SoftirqsExclusive, Structure, WaitsOK, InSoftirq, irq_exit,
     Exec, in_tasklet, BeginSoftirq, soft, thr
<1>4. ClobberedOnlyInWindow'
  BY <1>0, Zenon DEF ClobberedOnlyInWindow, irq_exit, Exec, in_tasklet, BeginSoftirq, soft, thr
<1>5. ~clobbered' => FramesOK' /\ WaitsOK'
  BY <1>0 DEF TypeOK, Structure, FramesOK, WaitsOK, irq_exit, Exec, in_tasklet,
     BeginSoftirq, soft, thr
<1>6. ~clobbered' => FlagOK' /\ ThreadOK'
  BY <1>0 DEF TypeOK, Structure, FramesOK, WaitsOK, FlagOK, ThreadOK, Base, irq_exit,
     Exec, in_tasklet, BeginSoftirq, soft, thr
<1>7. ~clobbered' => LocalOK' /\ TaskletCountBalanced' /\ IrqCountExact'
  <2>1. ~clobbered' => LocalOK'
    BY <1>0, Zenon DEF TypeOK, Structure, LocalOK, WaitsOK, Open, InSoftirq, irq_exit, Exec,
       in_tasklet, BeginSoftirq, soft, thr
  <2>2. ~clobbered' => TaskletCountBalanced'
    BY <1>0 DEF TypeOK, Structure, WaitsOK, TaskletCountBalanced,
       Open, InSoftirq, irq_exit, Exec, in_tasklet, BeginSoftirq, soft, thr
  <2>3. ~clobbered' => IrqCountExact'
    BY <1>0, Zenon DEF TypeOK, Structure, IrqCountExact, irq_exit, Exec, in_tasklet, BeginSoftirq,
       soft, thr
  <2> QED
    BY <2>1, <2>2, <2>3, Zenon
<1> QED
  BY <1>1, <1>2, <1>3, <1>4, <1>5, <1>6, <1>7, Zenon
  DEF IInv, Structure, TaskletCountBalanced, IrqCountExact

\* An action of a softirq begins.
LEMMA RunActionKeeps ==
  ASSUME NEW t \in Threads PROVE IInv /\ RunAction(t) => IInv'
<1> SUFFICES ASSUME IInv, RunAction(t) PROVE IInv'
  BY Zenon
<1>0. ~clobbered /\ Structure /\ TypeOK
  BY Zenon DEF IInv, RunAction
<1>1. TypeOK'
  BY <1>0, SoftIrqAssumption, Zenon DEF TypeOK, Structure, WaitsOK, Open, InSoftirq, RunAction,
     Exec, thr
<1>2. NoLostSoftirq'
  BY <1>0, Zenon DEF IInv, NoLostSoftirq, Structure, LocalOK, WaitsOK, Open, InSoftirq, TypeOK,
     RunAction, Exec, thr
<1>3. SoftirqsExclusive'
  BY <1>0, Zenon DEF IInv, TypeOK, SoftirqsExclusive, Structure, WaitsOK, InSoftirq, RunAction,
     Exec, thr
<1>4. ClobberedOnlyInWindow'
  BY <1>0, Zenon DEF ClobberedOnlyInWindow, RunAction, Exec, thr
<1>5. ~clobbered' => FramesOK' /\ WaitsOK'
  BY <1>0, Zenon DEF TypeOK, Structure, FramesOK, WaitsOK, RunAction, Exec, thr
<1>6. ~clobbered' => FlagOK' /\ ThreadOK'
  BY <1>0, Zenon DEF TypeOK, Structure, FramesOK, WaitsOK, FlagOK, ThreadOK, Base, RunAction,
     Exec, thr
<1>7. ~clobbered' => LocalOK' /\ TaskletCountBalanced' /\ IrqCountExact'
  BY <1>0, Zenon DEF TypeOK, Structure, LocalOK, WaitsOK, TaskletCountBalanced, IrqCountExact,
     Open, InSoftirq, RunAction, Exec, thr
<1> QED
  BY <1>1, <1>2, <1>3, <1>4, <1>5, <1>6, <1>7, Zenon
  DEF IInv, Structure, TaskletCountBalanced, IrqCountExact

\* __do_softirq starts another pass.
LEMMA RestartKeeps ==
  ASSUME NEW t \in Threads PROVE IInv /\ Restart(t) => IInv'
<1> SUFFICES ASSUME IInv, Restart(t) PROVE IInv'
  BY Zenon
<1>0. ~clobbered /\ Structure /\ TypeOK
  BY Zenon DEF IInv, Restart
<1>1. TypeOK'
  BY <1>0, SoftIrqAssumption DEF TypeOK, Structure, WaitsOK, Open, InSoftirq, Restart,
     Exec, MayRestart, thr
<1>2. NoLostSoftirq'
  BY <1>0, Zenon DEF IInv, NoLostSoftirq, Structure, LocalOK, WaitsOK, Open, InSoftirq, TypeOK,
     Restart, Exec, MayRestart, thr
<1>3. SoftirqsExclusive'
  BY <1>0, Zenon DEF IInv, TypeOK, SoftirqsExclusive, Structure, WaitsOK, InSoftirq, Restart,
     Exec, MayRestart, thr
<1>4. ClobberedOnlyInWindow'
  BY <1>0, Zenon DEF ClobberedOnlyInWindow, Restart, InSoftirq, Exec, MayRestart, thr
<1>5. ~clobbered' => FramesOK' /\ WaitsOK'
  BY <1>0, Zenon DEF TypeOK, Structure, FramesOK, WaitsOK, Restart, InSoftirq, Exec,
     MayRestart, thr
<1>6. ~clobbered' => FlagOK' /\ ThreadOK'
  BY <1>0, Zenon DEF TypeOK, Structure, FramesOK, WaitsOK, FlagOK, ThreadOK, Base, Restart,
     InSoftirq, Exec, MayRestart, thr
<1>7. ~clobbered' => LocalOK' /\ TaskletCountBalanced' /\ IrqCountExact'
  BY <1>0, Zenon DEF TypeOK, Structure, LocalOK, WaitsOK, TaskletCountBalanced, IrqCountExact,
     Open, InSoftirq, Restart, Exec, MayRestart, thr
<1> QED
  BY <1>1, <1>2, <1>3, <1>4, <1>5, <1>6, <1>7, Zenon
  DEF IInv, Structure, TaskletCountBalanced, IrqCountExact

\* __do_softirq leaves the word to taskletd.
LEMMA HandOverKeeps ==
  ASSUME NEW t \in Threads PROVE IInv /\ HandOver(t) => IInv'
<1> SUFFICES ASSUME IInv, HandOver(t) PROVE IInv'
  BY Zenon
<1>0. ~clobbered /\ Structure /\ TypeOK
  BY Zenon DEF IInv, HandOver
<1>1. TypeOK'
  BY <1>0, SoftIrqAssumption, Zenon DEF TypeOK, Structure, WaitsOK, Open, InSoftirq, HandOver,
     Exec, WakesTaskletd, Switch, soft
<1>2. NoLostSoftirq'
  BY <1>0, Zenon DEF IInv, NoLostSoftirq, Structure, LocalOK, WaitsOK, Open, InSoftirq, TypeOK,
     HandOver, Exec, WakesTaskletd, Switch, soft
<1>3. SoftirqsExclusive'
  BY <1>0, Zenon DEF IInv, TypeOK, SoftirqsExclusive, Structure, WaitsOK, InSoftirq, HandOver,
     Exec, WakesTaskletd, Switch, soft
<1>4. ClobberedOnlyInWindow'
  <2> SUFFICES ASSUME clobbered' PROVE InSwitchWindow'
    BY Zenon DEF ClobberedOnlyInWindow
  <2>1. t = "taskletd" /\ pc[t] \in {"soft", "ksoft"}
    BY <1>0, Zenon DEF HandOver, Exec, InSoftirq, Switch
  <2>2. Base \in {"parked", "suspend2"}
    BY <1>0, Zenon DEF HandOver, WakesTaskletd, TypeOK, Structure, ThreadOK
  <2>3. Len(saved["taskletd"]) = 1 /\ saved["taskletd"][1] = "suspend2"
    BY <1>0, <2>1, <2>2, Zenon DEF Structure, FramesOK, Base
  <2> QED
    BY <2>3 DEF HandOver, InSwitchWindow
<1>5. ~clobbered' => FramesOK' /\ WaitsOK'
  BY <1>0, Zenon DEF TypeOK, Structure, FramesOK, WaitsOK, HandOver, InSoftirq, Exec,
     WakesTaskletd, Switch, soft
<1>6. ~clobbered' => FlagOK' /\ ThreadOK'
  BY <1>0, Zenon DEF TypeOK, Structure, FramesOK, WaitsOK, FlagOK, ThreadOK, Base, HandOver,
     InSoftirq, Exec, WakesTaskletd, Switch, soft
<1>7. ~clobbered' => LocalOK' /\ TaskletCountBalanced' /\ IrqCountExact'
  BY <1>0, Zenon DEF TypeOK, Structure, LocalOK, WaitsOK, TaskletCountBalanced, IrqCountExact,
     Open, InSoftirq, HandOver, Exec, WakesTaskletd, Switch, soft
<1> QED
  BY <1>1, <1>2, <1>3, <1>4, <1>5, <1>6, <1>7, Zenon
  DEF IInv, Structure, TaskletCountBalanced, IrqCountExact

\* __do_softirq returns.
LEMMA LeaveKeeps ==
  ASSUME NEW t \in Threads PROVE IInv /\ Leave(t) => IInv'
<1> SUFFICES ASSUME IInv, Leave(t) PROVE IInv'
  BY Zenon
<1>0. ~clobbered /\ Structure /\ TypeOK
  BY Zenon DEF IInv, Leave
<1>1. TypeOK'
  <2>1. tasklet_count' \in -1..1
    BY <1>0 DEF TypeOK, Structure, WaitsOK, Open, InSoftirq, Leave, Exec, ReturnPoint,
       thr
  <2>2. max_restart' \in 1..MAX_SOFTIRQ_RESTART /\ elapsed' \in 0..MAX_SOFTIRQ_TIME
    BY <1>0, SoftIrqAssumption, Zenon DEF TypeOK, Leave, InSoftirq, Exec, ReturnPoint, thr
  <2>3. /\ pc' \in [Threads -> IdlePoints \cup TaskletdPoints]
        /\ pc'["idle"] \in IdlePoints /\ pc'["taskletd"] \in TaskletdPoints
    BY <1>0, Zenon DEF TypeOK, Leave, InSoftirq, Exec, ReturnPoint, thr
  <2> QED
    BY <1>0, <2>1, <2>2, <2>3, Zenon DEF TypeOK, Leave, InSoftirq, Exec, ReturnPoint, thr
<1>2. NoLostSoftirq'
  BY <1>0, Zenon DEF IInv, NoLostSoftirq, Structure, LocalOK, WaitsOK, Open, InSoftirq, TypeOK,
     Leave, Exec, ReturnPoint, thr
<1>3. SoftirqsExclusive'
  BY <1>0, Zenon DEF IInv, TypeOK, SoftirqsExclusive, Structure, WaitsOK, InSoftirq, Leave,
     Exec, ReturnPoint, thr
<1>4. ClobberedOnlyInWindow'
  BY <1>0, Zenon DEF ClobberedOnlyInWindow, Leave, InSoftirq, Exec, ReturnPoint, thr
<1>5. ~clobbered' => FramesOK' /\ WaitsOK'
  BY <1>0, Zenon DEF TypeOK, Structure, FramesOK, WaitsOK, Leave, InSoftirq, Exec, ReturnPoint,
     thr
<1>6. ~clobbered' => FlagOK' /\ ThreadOK'
  BY <1>0, Zenon DEF TypeOK, Structure, FramesOK, WaitsOK, FlagOK, ThreadOK, Base, Leave,
     InSoftirq, Exec, ReturnPoint, thr
<1>7. ~clobbered' => LocalOK' /\ TaskletCountBalanced' /\ IrqCountExact'
  BY <1>0 DEF TypeOK, Structure, LocalOK, WaitsOK, TaskletCountBalanced, IrqCountExact,
     Open, InSoftirq, Leave, Exec, ReturnPoint, thr
<1> QED
  BY <1>1, <1>2, <1>3, <1>4, <1>5, <1>6, <1>7, Zenon
  DEF IInv, Structure, TaskletCountBalanced, IrqCountExact

\* The points of both threads after a handler's frame was opened.
LEMMA IrqPoints ==
  ASSUME NEW S \in Raised, TypeOK, Structure, Irq(S)
  PROVE  \/ /\ Exec = "idle" /\ pc["taskletd"] = "parked" /\ pc["idle"] \in {"hlt", "back", "ret"}
            /\ \/ /\ pc' = [pc EXCEPT !["idle"] = "back", !["taskletd"] = "check"]
                  /\ suspended' = FALSE /\ current_thread' = "taskletd" /\ clobbered' = clobbered
               \/ pc' = [pc EXCEPT !["idle"] = "exit"] /\ UNCHANGED thr
         \/ /\ Exec = "taskletd" /\ pc["taskletd"] \in {"suspend0", "suspend1", "suspend2"}
            /\ \/ pc' = pc /\ clobbered' /\ current_thread' = "taskletd" /\ suspended' = FALSE
                  /\ pc["taskletd"] = "suspend2"
               \/ pc' = [pc EXCEPT !["taskletd"] = "exit"] /\ UNCHANGED thr
<1>1. Open("idle") = 0 /\ Open("taskletd") = 0
  BY DEF Irq, in_tasklet, TypeOK, Structure, Open
<1>2. ~InSoftirq("idle") /\ ~InSoftirq("taskletd") /\ pc["idle"] # "enable"
  BY <1>1 DEF Open
<1>3. CASE Exec = "idle"
  <2>1. pc["taskletd"] = "parked"
    BY <1>3, Zenon DEF Exec
  <2>2. pc["idle"] \in {"hlt", "back", "ret"}
    BY <1>2, <2>1, Zenon DEF Irq, InSoftirq, TypeOK, Structure, FlagOK
  <2> QED
    BY <1>3, <2>1, <2>2, Zenon DEF Irq, Switch
<1>4. CASE Exec = "taskletd"
  <2>1. pc["taskletd"] \in {"suspend0", "suspend1", "suspend2"}
    BY <1>2, <1>4, Zenon DEF Irq, InSoftirq, Exec, TypeOK, Structure, FlagOK
  <2>2. WakesTaskletd => pc["taskletd"] = "suspend2"
    BY <2>1, Zenon DEF WakesTaskletd, TypeOK, Structure, ThreadOK, FramesOK, Base
  <2> QED
    BY <1>4, <2>1, <2>2, Zenon DEF Irq, Switch
<1> QED
  BY <1>3, <1>4, Zenon DEF Exec

\* An interrupt opens a frame, and its handler may switch to taskletd.
LEMMA IrqKeeps ==
  ASSUME NEW S \in Raised PROVE IInv /\ Irq(S) => IInv'
<1> SUFFICES ASSUME IInv, Irq(S) PROVE IInv'
  BY Zenon
<1> DEFINE Points == IdlePoints \cup TaskletdPoints
           q == Append(saved[Exec], pc[Exec])
<1>0. ~clobbered /\ Structure /\ TypeOK
  BY Zenon DEF IInv, Irq
<1>1. /\ \A t \in Threads : saved[t] \in Seq(Points) /\ Len(saved[t]) \in Nat
      /\ saved \in [Threads -> Seq(Points)]
  BY <1>0 DEF TypeOK
<1>2. /\ q \in Seq(Points)
      /\ Len(q) = Len(saved[Exec]) + 1
      /\ \A i \in 1..Len(saved[Exec]) : q[i] = saved[Exec][i]
      /\ q[Len(saved[Exec]) + 1] = pc[Exec]
  BY <1>0, <1>1, PushPoint DEF TypeOK, Exec
<1>3. saved' = [saved EXCEPT ![Exec] = q]
  BY Zenon DEF Irq
<1> HIDE DEF q
<1>4. /\ irq_on' = FALSE /\ irq_count' = irq_count + 1 /\ irq_count + 1 < MaxNest
      /\ softirq_pending' = softirq_pending \cup S /\ owed' = owed \cup S
      /\ S \subseteq Softirqs
      /\ UNCHANGED <<tasklet_count, pending, max_restart, elapsed>>
  BY Zenon DEF Irq, raise, Raised
<1>5. NoLostSoftirq'
  BY <1>4, Zenon DEF IInv, NoLostSoftirq
<1>6. CASE Exec = "idle"
  <2>1. /\ pc["taskletd"] = "parked" /\ pc["idle"] \in {"hlt", "back", "ret"}
        /\ \/ /\ pc' = [pc EXCEPT !["idle"] = "back", !["taskletd"] = "check"]
              /\ suspended' = FALSE /\ current_thread' = "taskletd" /\ clobbered' = clobbered
           \/ pc' = [pc EXCEPT !["idle"] = "exit"] /\ UNCHANGED thr
    BY <1>0, <1>6, IrqPoints, Zenon
  <2>2. saved'["idle"] = q /\ saved'["taskletd"] = saved["taskletd"]
    BY <1>1, <1>3, <1>6, Zenon
  <2>3. /\ pc'["idle"] \in {"back", "exit"} /\ pc'["taskletd"] \in {"parked", "check"}
        /\ pc'["taskletd"] = "check" <=> pc'["idle"] = "back"
        /\ pc' \in [Threads -> Points]
    BY <1>0, <2>1, Zenon DEF TypeOK
  <2>4. Len(saved["taskletd"]) = 0
    BY <1>0, <2>1, Zenon DEF Structure, FramesOK
  <2>5. TypeOK'
    <3>1. saved' \in [Threads -> Seq(Points)]
      BY <1>1, <1>2, <1>3, <1>6, Zenon
    <3>2. irq_count' \in -1..(MaxNest - 1)
      BY <1>0, <1>4, SoftIrqAssumption DEF TypeOK
    <3>3. suspended' \in BOOLEAN /\ current_thread' \in Threads /\ clobbered' \in BOOLEAN
      BY <1>0, <2>1, Zenon DEF TypeOK, thr
    <3> QED
      BY <1>0, <1>4, <2>3, <3>1, <3>2, <3>3, Zenon DEF TypeOK
  <2>6. FramesOK'
    <3>1. \A i \in 1..Len(q) : q[i] \in {"hlt", "back", "ret"} /\ (q[i] = "hlt" <=> i = 1)
      <4> DEFINE s == saved["idle"]
      <4>1. /\ \A i \in 1..Len(s) : s[i] \in {"hlt", "back", "ret"} /\ (s[i] = "hlt" <=> i = 1)
            /\ pc["idle"] = "hlt" <=> Len(s) = 0
        BY <1>0, Zenon DEF Structure, FramesOK
      <4>2. /\ Len(s) \in Nat /\ Len(q) = Len(s) + 1 /\ q[Len(s) + 1] = pc["idle"]
            /\ \A i \in 1..Len(s) : q[i] = s[i]
        BY <1>1, <1>2, <1>6, Zenon DEF Threads
      <4>3. pc["idle"] \in {"hlt", "back", "ret"}
        BY <2>1, Zenon
      <4> HIDE DEF s
      <4> SUFFICES ASSUME NEW i \in 1..Len(q)
                   PROVE  q[i] \in {"hlt", "back", "ret"} /\ (q[i] = "hlt" <=> i = 1)
        BY Zenon
      <4>4. CASE i = Len(s) + 1
        BY ONLY <4>1, <4>2, <4>3, <4>4
      <4>5. CASE i \in 1..Len(s)
        BY <4>1, <4>2, <4>5, Zenon
      <4>6. i = Len(s) + 1 \/ i \in 1..Len(s)
        BY ONLY <4>2, i \in 1..Len(q)
      <4> QED
        BY <4>4, <4>5, <4>6, Zenon
    <3> QED
      BY <1>1, <1>2, <1>6, <2>2, <2>3, <2>4, <3>1 DEF FramesOK
  <2>7. SoftirqsExclusive'
    BY <2>2, <2>3, <2>4, <2>6 DEF SoftirqsExclusive, InSoftirq, FramesOK
  <2>8. WaitsOK' /\ FlagOK' /\ LocalOK'
    BY <1>0, <1>4, <2>1, <2>3, Zenon DEF Structure, WaitsOK, FlagOK, LocalOK, InSoftirq
  <2>9. ThreadOK'
    <3>1. Base' = pc'["taskletd"] /\ Base = "parked"
      BY <2>1, <2>2, <2>4, Zenon DEF Base
    <3>2. suspended = TRUE /\ current_thread = "idle"
      BY <1>0, <3>1, Zenon DEF TypeOK, Structure, ThreadOK
    <3>3. \/ pc'["taskletd"] = "check" /\ suspended' = FALSE /\ current_thread' = "taskletd"
          \/ pc'["taskletd"] = "parked" /\ suspended' = TRUE /\ current_thread' = "idle"
      BY <1>1, <1>0, <2>1, <3>2, Zenon DEF TypeOK, thr
    <3> QED
      BY <3>1, <3>3, Zenon DEF ThreadOK
  <2>10. tasklet_count' = (Open("idle") + Open("taskletd") - 1)'
    BY <1>0, <1>4, <2>1, <2>3, Zenon DEF Structure, Open, InSoftirq
  <2>11. irq_count' = (Len(saved["idle"]) + Len(saved["taskletd"]) - 1)'
    <3>1. PICK m, n \in Nat : m = Len(saved["idle"]) /\ n = Len(saved["taskletd"])
      BY <1>1, Zenon
    <3>2. irq_count = m + n - 1 /\ irq_count' = irq_count + 1
      BY <1>0, <1>4, <3>1, Zenon DEF Structure
    <3>3. Len(saved'["idle"]) = m + 1 /\ Len(saved'["taskletd"]) = n
      BY <1>2, <1>6, <2>2, <3>1, Zenon
    <3>4. irq_count' = (m + 1) + n - 1
      BY ONLY m \in Nat, n \in Nat, <3>2
    <3> QED
      BY <3>3, <3>4, Zenon
  <2>12. ~clobbered'
    BY <1>0, <2>1, Zenon DEF thr
  <2> QED
    BY <1>5, <2>5, <2>6, <2>7, <2>8, <2>9, <2>10, <2>11, <2>12, Zenon
    DEF IInv, Structure, ClobberedOnlyInWindow
<1>7. CASE Exec = "taskletd"
  <2>1. /\ pc["taskletd"] \in {"suspend0", "suspend1", "suspend2"}
        /\ \/ pc' = pc /\ clobbered' /\ current_thread' = "taskletd" /\ suspended' = FALSE
              /\ pc["taskletd"] = "suspend2"
           \/ pc' = [pc EXCEPT !["taskletd"] = "exit"] /\ UNCHANGED thr
    BY <1>0, <1>7, IrqPoints, Zenon
  <2>2. saved'["taskletd"] = q /\ saved'["idle"] = saved["idle"]
    BY <1>1, <1>3, <1>7, Zenon
  <2>3. Len(saved["taskletd"]) = 0 /\ Len(q) = 1 /\ q[1] = pc["taskletd"]
    BY <1>0, <1>1, <1>2, <1>7, <2>1 DEF Structure, FramesOK
  <2>4. pc'["idle"] = pc["idle"] /\ pc'["taskletd"] \in {"exit", "suspend2"}
    BY <1>0, <2>1, Zenon DEF TypeOK
  <2>5. TypeOK'
    <3>1. saved' \in [Threads -> Seq(Points)]
      BY <1>1, <1>2, <1>3, <1>7, Zenon
    <3>2. irq_count' \in -1..(MaxNest - 1)
      BY <1>0, <1>4, SoftIrqAssumption DEF TypeOK
    <3>3. pc' \in [Threads -> Points]
      BY <1>0, <2>1, Zenon DEF TypeOK
    <3>4. suspended' \in BOOLEAN /\ current_thread' \in Threads /\ clobbered' \in BOOLEAN
      BY <1>0, <2>1, Zenon DEF TypeOK, thr, Irq, Switch
    <3> QED
      BY <1>0, <1>4, <2>4, <3>1, <3>2, <3>3, <3>4, Zenon DEF TypeOK
  <2>6. SoftirqsExclusive'
    BY <2>1, <2>2, <2>3, <2>4 DEF IInv, SoftirqsExclusive, InSoftirq
  <2>7. ClobberedOnlyInWindow'
    BY <1>0, <2>1, <2>4, Zenon DEF ClobberedOnlyInWindow, InSwitchWindow, thr
  <2>8. ASSUME ~clobbered' PROVE Structure'
    <3>1. pc'["taskletd"] = "exit" /\ UNCHANGED thr
      BY <1>0, <2>1, <2>8, Zenon DEF TypeOK
    <3>2. FramesOK'
      BY <1>0, <2>1, <2>2, <2>3, <2>4, <3>1 DEF Structure, FramesOK
    <3>3. WaitsOK' /\ FlagOK'
      <4>1. pc["idle"] = "back"
        BY <1>0, <2>1 DEF Structure, WaitsOK, Open, Irq, in_tasklet, TypeOK, InSoftirq
      <4> QED
        BY <1>4, <2>4, <3>1, <4>1, Zenon DEF WaitsOK, FlagOK
    <3>4. ThreadOK'
      BY <1>0, <2>1, <2>2, <2>3, <3>1 DEF Structure, ThreadOK, Base, thr
    <3>5. LocalOK' /\ tasklet_count' = (Open("idle") + Open("taskletd") - 1)'
      BY <1>0, <1>4, <2>1, <2>4, <3>1, Zenon DEF Structure, LocalOK, Open, InSoftirq
    <3>6. irq_count' = (Len(saved["idle"]) + Len(saved["taskletd"]) - 1)'
      BY <1>0, <1>1, <1>4, <2>2, <2>3 DEF Structure
    <3> QED
      BY <3>2, <3>3, <3>4, <3>5, <3>6, Zenon DEF Structure
  <2> QED
    BY <1>5, <2>5, <2>6, <2>7, <2>8, Zenon DEF IInv
<1> QED
  BY <1>6, <1>7, Zenon DEF Exec

\* The newest frame is closed.
LEMMA switchtrapretKeeps ==
  ASSUME NEW t \in Threads PROVE IInv /\ switchtrapret(t) => IInv'
<1> SUFFICES ASSUME IInv, switchtrapret(t) PROVE IInv'
  BY Zenon
<1> DEFINE Points == IdlePoints \cup TaskletdPoints
           q == SubSeq(saved[t], 1, Len(saved[t]) - 1)
           last == saved[t][Len(saved[t])]
<1>0. ~clobbered /\ Structure /\ TypeOK
  BY Zenon DEF IInv, switchtrapret
<1>1. /\ \A u \in Threads : saved[u] \in Seq(Points) /\ Len(saved[u]) \in Nat
      /\ saved \in [Threads -> Seq(Points)] /\ pc \in [Threads -> Points]
  BY <1>0 DEF TypeOK
<1>2. Exec = t /\ pc[t] = "ret" /\ Len(saved[t]) > 0
  BY <1>0, <1>1 DEF switchtrapret, Structure, FramesOK
<1>3. /\ q \in Seq(Points)
      /\ Len(q) = Len(saved[t]) - 1
      /\ \A i \in 1..(Len(saved[t]) - 1) : q[i] = saved[t][i]
      /\ last \in Points
  BY <1>1, <1>2, PopPoint, Zenon
<1>4. /\ saved' = [saved EXCEPT ![t] = q] /\ pc' = [pc EXCEPT ![t] = last]
      /\ irq_on' = TRUE /\ irq_count' = irq_count - 1
      /\ UNCHANGED <<soft, thr>>
  BY Zenon DEF switchtrapret
<1> HIDE DEF q, last
<1>5. saved' \in [Threads -> Seq(Points)] /\ pc' \in [Threads -> Points]
  BY <1>1, <1>3, <1>4, Zenon
<1>6. NoLostSoftirq'
  BY <1>4, Zenon DEF IInv, NoLostSoftirq, soft
<1>7. ~clobbered' /\ ClobberedOnlyInWindow'
  BY <1>0, <1>4, Zenon DEF ClobberedOnlyInWindow, thr
<1>8. CASE t = "idle"
  <2>1. pc["taskletd"] = "parked" /\ Len(saved["taskletd"]) = 0
    BY <1>0, <1>2, <1>8, Zenon DEF Exec, Structure, FramesOK
  <2>2. last \in {"hlt", "back", "ret"} /\ (last = "hlt" <=> Len(saved["idle"]) = 1)
    <3>1. Len(saved["idle"]) \in 1..Len(saved["idle"])
      BY <1>1, <1>2, <1>8
    <3>2. saved["idle"][Len(saved["idle"])] = last
      BY <1>8, Zenon DEF last
    <3> QED
      BY <1>0, <3>1, <3>2, Zenon DEF Structure, FramesOK
  <2>3. /\ saved'["idle"] = q /\ saved'["taskletd"] = saved["taskletd"]
        /\ pc'["idle"] = last /\ pc'["taskletd"] = "parked"
    BY <1>1, <1>4, <1>8, <2>1, Zenon
  <2>4. irq_count = Len(saved["idle"]) - 1
    BY <1>0, <1>1, <2>1 DEF Structure
  <2>5. irq_count' \in -1..(MaxNest - 1)
    BY <1>0, <1>1, <1>2, <1>4, <1>8, <2>4, SoftIrqAssumption DEF TypeOK
  <2>6. TypeOK'
    BY <1>0, <1>4, <1>5, <2>2, <2>3, <2>5, Zenon DEF TypeOK, soft, thr
  <2>7. FramesOK'
    <3>1. \A i \in 1..Len(q) : q[i] \in {"hlt", "back", "ret"} /\ (q[i] = "hlt" <=> i = 1)
      <4> DEFINE s == saved["idle"]
      <4>1. \A i \in 1..Len(s) : s[i] \in {"hlt", "back", "ret"} /\ (s[i] = "hlt" <=> i = 1)
        BY <1>0, Zenon DEF Structure, FramesOK
      <4>2. /\ Len(s) \in Nat /\ Len(s) > 0 /\ Len(q) = Len(s) - 1
            /\ \A i \in 1..(Len(s) - 1) : q[i] = s[i]
        BY <1>1, <1>2, <1>3, <1>8, Zenon DEF Threads
      <4> HIDE DEF s
      <4>3. \A i \in 1..Len(q) : i \in 1..(Len(s) - 1) /\ i \in 1..Len(s)
        BY ONLY <4>2
      <4> QED
        BY <4>1, <4>2, <4>3, Zenon
    <3>2. pc'["idle"] = "hlt" <=> Len(q) = 0
      BY <1>1, <1>2, <1>3, <1>8, <2>2, <2>3
    <3> QED
      BY <2>1, <2>3, <3>1, <3>2, Zenon DEF FramesOK
  <2>8. SoftirqsExclusive'
    BY <2>1, <2>2, <2>3, <2>7 DEF SoftirqsExclusive, InSoftirq, FramesOK
  <2>9. WaitsOK' /\ FlagOK'
    BY <2>2, <2>3, Zenon DEF WaitsOK, FlagOK
  <2>10. ThreadOK'
    BY <1>0, <1>4, <2>1, <2>3, Zenon DEF Structure, ThreadOK, Base, thr
  <2>11. LocalOK' /\ tasklet_count' = (Open("idle") + Open("taskletd") - 1)'
    BY <1>0, <1>2, <1>4, <1>8, <2>1, <2>2, <2>3, Zenon DEF Structure, LocalOK, Open, InSoftirq, soft
  <2>12. irq_count' = (Len(saved["idle"]) + Len(saved["taskletd"]) - 1)'
    BY <1>1, <1>3, <1>4, <1>8, <2>1, <2>3, <2>4
  <2> QED
    BY <1>6, <1>7, <2>6, <2>7, <2>8, <2>9, <2>10, <2>11, <2>12, Zenon DEF IInv, Structure
<1>9. CASE t = "taskletd"
  <2>1. /\ Len(saved["taskletd"]) = 1 /\ last \in {"suspend0", "suspend1", "suspend2"}
        /\ last = saved["taskletd"][1] /\ Len(q) = 0
    BY <1>0, <1>2, <1>3, <1>9 DEF Structure, FramesOK, last
  <2>2. /\ saved'["taskletd"] = q /\ saved'["idle"] = saved["idle"]
        /\ pc'["taskletd"] = last /\ pc'["idle"] = pc["idle"]
    BY <1>1, <1>4, <1>9, Zenon
  <2>3. irq_count = Len(saved["idle"])
    BY <1>0, <1>1, <2>1 DEF Structure, TypeOK
  <2>4. irq_count' \in -1..(MaxNest - 1)
    BY <1>0, <1>1, <1>4, <2>3, SoftIrqAssumption DEF TypeOK
  <2>5. TypeOK'
    BY <1>0, <1>4, <1>5, <2>1, <2>2, <2>4, Zenon DEF TypeOK, soft, thr
  <2>6. FramesOK'
    BY <1>0, <2>1, <2>2, Zenon DEF Structure, FramesOK
  <2>7. SoftirqsExclusive'
    BY <2>1, <2>2, <2>6 DEF SoftirqsExclusive, InSoftirq, FramesOK
  <2>8. WaitsOK' /\ FlagOK'
    BY <1>0, <1>2, <1>9, <2>1, <2>2, Zenon DEF Structure, WaitsOK, FlagOK
  <2>9. ThreadOK'
    BY <1>0, <1>4, <2>1, <2>2 DEF Structure, ThreadOK, Base, thr
  <2>10. LocalOK' /\ tasklet_count' = (Open("idle") + Open("taskletd") - 1)'
    BY <1>0, <1>2, <1>4, <1>9, <2>1, <2>2, Zenon DEF Structure, LocalOK, Open, InSoftirq, soft
  <2>11. irq_count' = (Len(saved["idle"]) + Len(saved["taskletd"]) - 1)'
    <3>1. Len(saved["idle"]) \in Nat
      BY <1>1, Zenon
    <3>2. irq_count' = Len(saved["idle"]) - 1
      BY <1>4, <2>3, Zenon
    <3>3. Len(saved'["idle"]) = Len(saved["idle"]) /\ Len(saved'["taskletd"]) = 0
      BY <2>1, <2>2, Zenon
    <3> QED
      BY <3>1, <3>2, <3>3
  <2> QED
    BY <1>6, <1>7, <2>5, <2>6, <2>7, <2>8, <2>9, <2>10, <2>11, Zenon DEF IInv, Structure
<1> QED
  BY <1>8, <1>9, Zenon

\* Every step of the CPU and of its interrupts preserves the invariant.
LEMMA NextKeeps == IInv /\ [Next]_vars => IInv'
<1> SUFFICES ASSUME IInv, [Next]_vars PROVE IInv'
  BY Zenon
<1>1. ASSUME NEW S \in Raised, IrqInTasklet(S) \/ Irq(S) PROVE IInv'
  BY <1>1, IrqInTaskletKeeps, IrqKeeps, Zenon
<1>2. ASSUME NEW t \in Threads, irq_exit(t) \/ switchtrapret(t) PROVE IInv'
  BY <1>2, irq_exitKeeps, switchtrapretKeeps, Zenon
<1>3. ASSUME NEW t \in Threads, RunAction(t) \/ Restart(t) \/ HandOver(t) \/ Leave(t) PROVE IInv'
  BY <1>3, RunActionKeeps, RestartKeeps, HandOverKeeps, LeaveKeeps, Zenon
<1>4. CASE Undefined \/ UNCHANGED vars
  <2>1. UNCHANGED <<irq_on, irq_count, pc, saved, softirq_pending, tasklet_count, pending,
                    max_restart, elapsed, owed, current_thread, suspended, clobbered>>
    BY <1>4, Zenon DEF Undefined, vars, soft, thr
  <2> QED
    BY <2>1 DEF IInv, TypeOK, NoLostSoftirq, SoftirqsExclusive, ClobberedOnlyInWindow,
       InSwitchWindow, Structure, FramesOK, WaitsOK, FlagOK, ThreadOK, LocalOK, Base, Open, InSoftirq
<1> QED
  BY <1>1, <1>2, <1>3, <1>4, TickKeeps, BackKeeps, EnableTaskletKeeps, CheckKeeps,
     SetSuspendKeeps, SetCurrentKeeps, SwitchBackKeeps, Zenon
  DEF Next, AnyIrq, CpuStep

\* The invariant holds in every reachable state.
THEOREM Invariance == Spec => []IInv
  BY InitIInv, NextKeeps, PTL DEF Spec

\* Every variable keeps its type: in particular the restart budget of
\* __do_softirq stays positive and softirqs are disabled at most twice.
THEOREM TypeCorrect == Spec => []TypeOK
<1>1. IInv => TypeOK
  BY Zenon DEF IInv
<1> QED
  BY <1>1, Invariance, PTL

\* A raised softirq is never lost (raise_softirq, __do_softirq).
THEOREM NothingLost == Spec => []NoLostSoftirq
<1>1. IInv => NoLostSoftirq
  BY Zenon DEF IInv
<1> QED
  BY <1>1, Invariance, PTL

\* Two runs of __do_softirq's actions never overlap on a CPU.
THEOREM Exclusive == Spec => []SoftirqsExclusive
<1>1. IInv => SoftirqsExclusive
  BY Zenon DEF IInv
<1> QED
  BY <1>1, Invariance, PTL

\* tasklet_count and irq_count are exact: disable_tasklet and enable_tasklet,
\* and the incl and decl of the trap entry and exit, balance on every path.
THEOREM CountsExact == Spec => [](TaskletCountBalanced /\ IrqCountExact)
<1>1. IInv => TaskletCountBalanced /\ IrqCountExact
  BY Zenon DEF IInv, Structure, TaskletCountBalanced, IrqCountExact
<1> QED
  BY <1>1, Invariance, PTL

\* current_thread is the thread on the CPU outside suspend_thread's window.
THEOREM CurrentExact == Spec => []CurrentThreadExact
<1>1. IInv => CurrentThreadExact
  BY DEF IInv, TypeOK, Structure, FramesOK, ThreadOK, Base, CurrentThreadExact, InSwitchWindow, Exec
<1> QED
  BY <1>1, Invariance, PTL

\* Only an interrupt in suspend_thread's window between the store to
\* current_thread and the switch can have taskletd's stack overwritten.
THEOREM OnlyInWindow == Spec => []ClobberedOnlyInWindow
<1>1. IInv => ClobberedOnlyInWindow
  BY Zenon DEF IInv
<1> QED
  BY <1>1, Invariance, PTL

\* Together: what irq.c, tasklet.c and kthread.c keep on a processor.
THEOREM Safe == Spec => []SoftirqSafe
  BY TypeCorrect, Exclusive, CountsExact, CurrentExact, OnlyInWindow, PTL DEF SoftirqSafe
=============================================================================
