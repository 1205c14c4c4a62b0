------------------------------- MODULE Timer -------------------------------
(***************************************************************************)
(* The per-CPU timer list of kernel/timer.c on one CPU: set_timeout, the   *)
(* timer interrupt, run_timer_softirq and the callbacks it runs.           *)
(*                                                                         *)
(* Two contexts share the list: the thread level (idle_main arming its     *)
(* timer with interrupts enabled) and the timer softirq, which preempts    *)
(* the thread at any instruction of set_timeout outside local_irq_save and *)
(* runs to its end before the thread goes on.  Every callback of the       *)
(* kernel (test_timeout, vn_timeout) re-arms itself exactly once, so a     *)
(* callback is a member of Funcs with a period.                            *)
(*                                                                         *)
(* Lists are the pointers of the code (pfree, ptimer, pnext), because the  *)
(* free list is popped without protection.                                 *)
(***************************************************************************)
EXTENDS Naturals, Sequences, FiniteSets, FiniteSetsExt

CONSTANTS
  HeapNodes,   \* the nodes yaos_malloc can still hand out
  TimerBuf,    \* the nodes of timerbuf[], a sequence
  BufSizes,    \* the values of NR_TIMER_BUF looked at
  Funcs,       \* callback functions; each re-arms itself when it runs
  Period,      \* [Funcs -> Nat]: the msec each function passes to set_timeout
  NR_FUNC,     \* the size of funcarr[] in run_timer_softirq (10)
  MaxMsec,     \* bound: msec_count saturates here
  NULL

BufNodes == {TimerBuf[i] : i \in 1..Len(TimerBuf)}
Nodes == BufNodes \cup HeapNodes
Ctx == {"thread", "softirq"}

\* What is assumed of the constants.
TimerAssumption ==
  /\ BufNodes \cap HeapNodes = {} /\ NULL \notin Nodes
  /\ Len(TimerBuf) = Cardinality(BufNodes)
  /\ BufSizes \subseteq 1..Len(TimerBuf)
  /\ Period \in [Funcs -> Nat \ {0}]
  /\ NR_FUNC \in Nat \ {0} /\ MaxMsec \in Nat

VARIABLES
  nr_buf,              \* NR_TIMER_BUF; never changes
  pfree, ptimer,       \* struct timer_manager
  pnext, deadline, callback,   \* struct timeout_callback, per node
  heap,                \* nodes yaos_malloc has not handed out yet
  msec_count,
  pending,             \* TIMER_SOFTIRQ pending
  active,              \* the softirq is running on this CPU
  call,                \* per context: the set_timeout call in progress
  softpc,              \* where run_timer_softirq is
  funcarr,             \* callbacks collected and not yet run
  full,                \* callnr reached 0 in the collecting loop
  armed,               \* history: functions whose first set_timeout was made
  dropped,             \* history: functions whose set_timeout returned ENOMEM
  due                  \* history: the deadline each function last asked for

list == <<nr_buf, pfree, ptimer, pnext, deadline, callback, heap>>
soft == <<pending, active, softpc, funcarr, full>>
hist == <<armed, dropped, due>>
vars == <<list, msec_count, soft, call, hist>>

-----------------------------------------------------------------------------
(* Pointer chains *)

\* The first k nodes met from p along pnext, then NULLs.
Follow(p, k) ==
  LET at[i \in 1..k] == IF i = 1 THEN p
                        ELSE IF at[i - 1] = NULL THEN NULL ELSE pnext[at[i - 1]]
  IN  at

\* The nodes of a chain, cut after one visit of every node and one more.
Chain(p) ==
  LET at == Follow(p, Cardinality(Nodes) + 1)
  IN  SelectSeq(at, LAMBDA x : x # NULL)

ChainSet(p) == {Chain(p)[i] : i \in 1..Len(Chain(p))}

\* A chain is a proper list when it ends before a node repeats.
IsList(p) == Len(Chain(p)) = Cardinality(ChainSet(p))

NoCall == [pc |-> "done", f |-> NULL, p |-> NULL, n |-> NULL]

-----------------------------------------------------------------------------
(* init_timer: timerbuf is chained in array order and becomes pfree.       *)
init_timer ==
  /\ pnext = [x \in Nodes |->
                IF \E i \in 1..(nr_buf - 1) : TimerBuf[i] = x
                THEN TimerBuf[1 + CHOOSE i \in 1..(nr_buf - 1) : TimerBuf[i] = x]
                ELSE NULL]
  /\ pfree = TimerBuf[1]
  /\ ptimer = NULL

Init ==
  /\ nr_buf \in BufSizes
  /\ init_timer
  /\ deadline = [x \in Nodes |-> 0]
  /\ callback = [x \in Nodes |-> NULL]
  /\ heap = HeapNodes
  /\ msec_count = 0
  /\ pending = FALSE
  /\ active = FALSE
  /\ call = [c \in Ctx |-> NoCall]
  /\ softpc = "off"
  /\ funcarr = <<>>
  /\ full = FALSE
  /\ armed = {}
  /\ dropped = {}
  /\ due = [f \in Funcs |-> 0]

-----------------------------------------------------------------------------
(* set_timeout(Period[f], f), one action per access that an interrupt can  *)
(* fall between.  The thread is stopped while the softirq is active.       *)

Runs(c) == active <=> c = "softirq"

\* Mutant: the test of p inverted, yaos_malloc although a node is free.
LoadFreeInverted(c, f) ==
  call' = [call EXCEPT ![c] = [pc |-> IF pfree # NULL THEN "malloc" ELSE "next",
                               f |-> f, p |-> pfree, n |-> NULL]]

\* struct timeout_callback *p = ptime->pfree;
LoadFree(c, f) ==
  call' = [call EXCEPT ![c] = [pc |-> IF pfree = NULL THEN "malloc" ELSE "next",
                               f |-> f, p |-> pfree, n |-> NULL]]

\* p = yaos_malloc(sizeof(*p)), which may return NULL: return ENOMEM.
Malloc(c) ==
  /\ Runs(c) /\ call[c].pc = "malloc"
  /\ \/ \E x \in heap :
          /\ heap' = heap \ {x}
          /\ call' = [call EXCEPT ![c].pc = "stamp", ![c].p = x]
          /\ UNCHANGED dropped
     \/ /\ heap = {}
        /\ call' = [call EXCEPT ![c] = NoCall]
        /\ dropped' = dropped \cup {call[c].f}
        /\ UNCHANGED heap
  /\ UNCHANGED <<nr_buf, pfree, ptimer, pnext, deadline, callback, msec_count, soft, armed, due>>

\* ptime->pfree = p->pnext; the load of p->pnext ...
LoadNext(c) ==
  /\ Runs(c) /\ call[c].pc = "next"
  /\ call' = [call EXCEPT ![c].pc = "store", ![c].n = pnext[call[c].p]]
  /\ UNCHANGED <<list, msec_count, soft, hist>>

\* ... and the store to pfree.
StoreFree(c) ==
  /\ Runs(c) /\ call[c].pc = "store"
  /\ pfree' = call[c].n
  /\ call' = [call EXCEPT ![c].pc = "stamp"]
  /\ UNCHANGED <<nr_buf, ptimer, pnext, deadline, callback, heap, msec_count, soft, hist>>

\* thedeadline = msec + msec_count; p->deadline = ...; p->callback = pfunc;
Stamp(c) ==
  /\ Runs(c) /\ call[c].pc = "stamp"
  /\ LET p == call[c].p
         f == call[c].f
     IN  /\ deadline' = [deadline EXCEPT ![p] = Period[f] + msec_count]
         /\ callback' = [callback EXCEPT ![p] = f]
         /\ due' = [due EXCEPT ![f] = Period[f] + msec_count]
  /\ call' = [call EXCEPT ![c].pc = "insert"]
  /\ UNCHANGED <<nr_buf, pfree, ptimer, pnext, heap, msec_count, soft, armed, dropped>>

\* The node the walk of the sorted insert stops at: the first one whose
\* successor is missing or not earlier than the new deadline.
InsertAfter(d) ==
  LET at == Chain(ptimer)
      stop == {i \in 1..Len(at) : pnext[at[i]] = NULL \/ deadline[pnext[at[i]]] >= d}
  IN  at[Min(stop)]

\* The sorted insert, with interrupts off from local_irq_save to the end.
Insert(c) ==
  /\ Runs(c) /\ call[c].pc = "insert"
  /\ LET p == call[c].p
         d == deadline[p]
     IN  IF ptimer = NULL \/ d < deadline[ptimer]
         THEN /\ pnext' = [pnext EXCEPT ![p] = ptimer]
              /\ ptimer' = p
         ELSE LET ptr == InsertAfter(d)
              IN  /\ pnext' = [pnext EXCEPT ![p] = pnext[ptr], ![ptr] = p]
                  /\ UNCHANGED ptimer
  /\ call' = [call EXCEPT ![c] = NoCall]
  /\ UNCHANGED <<nr_buf, pfree, deadline, callback, heap, msec_count, soft, hist>>

\* idle_main (or a driver) arms f for the first time at thread level.
ThreadArms(f) ==
  /\ Runs("thread") /\ call["thread"].pc = "done" /\ f \notin armed
  /\ LoadFree("thread", f)
  /\ armed' = armed \cup {f}
  /\ UNCHANGED <<list, msec_count, soft, dropped, due>>

-----------------------------------------------------------------------------
(* The interrupt and the softirq *)

\* timer_irq_handler: ++msec_count, raise TIMER_SOFTIRQ.  irq_exit runs the
\* softirq before the interrupted thread goes on, unless the interrupt came
\* while it was already running; then the bit stays for __do_softirq.
TimerIrq ==
  /\ msec_count' = IF msec_count < MaxMsec THEN msec_count + 1 ELSE msec_count
  /\ IF active
     THEN pending' = TRUE /\ UNCHANGED <<active, softpc>>
     ELSE pending' = FALSE /\ active' = TRUE /\ softpc' = "collect"
  /\ UNCHANGED <<list, call, funcarr, full, hist>>

\* Mutants: one slot too many, and a comparison that is early by one.
CallMaxOff == NR_FUNC + 1
ExpiredEarly(x) == deadline[x] <= msec_count + 1

\* The callbacks one pass collects, and the test that ends the pass.
CallMax == NR_FUNC
Expired(x) == msec_count >= deadline[x]

\* The first part of run_timer_softirq: the expired prefix, at most CallMax
\* nodes, moves from ptimer to pfree and its callbacks to funcarr.
run_timer_softirq ==
  /\ active /\ softpc = "collect"
  /\ IF ptimer = NULL \/ ~Expired(ptimer)
     THEN softpc' = "exit" /\ UNCHANGED <<list, funcarr, full>>
     ELSE LET at == Follow(ptimer, CallMax)
              k == Max({j \in 1..CallMax : \A i \in 1..j : at[i] # NULL /\ Expired(at[i])})
          IN  /\ funcarr' = [i \in 1..k |-> callback[at[i]]]
              /\ full' = (k = CallMax)
              /\ ptimer' = pnext[at[k]]
              /\ pnext' = [pnext EXCEPT ![at[k]] = pfree]
              /\ pfree' = ptimer
              /\ softpc' = "call"
              /\ UNCHANGED <<nr_buf, deadline, callback, heap>>
  /\ UNCHANGED <<msec_count, pending, active, call, hist>>

\* Mutant: a callback that does not arm itself again.
RunCallbackOneShot ==
  /\ active /\ softpc = "call" /\ call["softirq"].pc = "done" /\ funcarr # <<>>
  /\ funcarr' = Tail(funcarr)
  /\ UNCHANGED <<list, msec_count, pending, active, softpc, full, call, hist>>

\* (funcarr[i])(msec_count): test_timeout and vn_timeout call set_timeout.
RunCallback ==
  /\ active /\ softpc = "call" /\ call["softirq"].pc = "done" /\ funcarr # <<>>
  /\ LoadFree("softirq", Head(funcarr))
  /\ funcarr' = Tail(funcarr)
  /\ UNCHANGED <<list, msec_count, pending, active, softpc, full, hist>>

\* End of the loop; with funcarr filled to the last slot it starts again.
CallbacksDone ==
  /\ active /\ softpc = "call" /\ call["softirq"].pc = "done" /\ funcarr = <<>>
  /\ softpc' = IF full THEN "collect" ELSE "exit"
  /\ full' = FALSE
  /\ UNCHANGED <<list, msec_count, pending, active, call, funcarr, hist>>

\* Mutant: enable_tasklet missing at the end, the softirq stays marked running.
SoftirqReturnDisabled ==
  /\ active /\ softpc = "exit"
  /\ \/ pending /\ softpc' = "collect" /\ pending' = FALSE
     \/ softpc' = "off" /\ UNCHANGED pending
  /\ UNCHANGED <<list, msec_count, active, call, funcarr, full, hist>>

\* __do_softirq: a bit raised meanwhile restarts the action while the
\* budget lasts; otherwise it is left for the next interrupt.
SoftirqReturn ==
  /\ active /\ softpc = "exit"
  /\ \/ pending /\ softpc' = "collect" /\ pending' = FALSE /\ UNCHANGED active
     \/ softpc' = "off" /\ active' = FALSE /\ UNCHANGED pending
  /\ UNCHANGED <<list, msec_count, call, funcarr, full, hist>>

CallStep(c) == Malloc(c) \/ LoadNext(c) \/ StoreFree(c) \/ Stamp(c) \/ Insert(c)
SoftStep == CallStep("softirq") \/ run_timer_softirq \/ RunCallback \/ CallbacksDone \/ SoftirqReturn

Next ==
  \/ TimerIrq
  \/ \E f \in Funcs : ThreadArms(f)
  \/ \E c \in Ctx : CallStep(c)
  \/ run_timer_softirq \/ RunCallback \/ CallbacksDone \/ SoftirqReturn

\* The timer interrupt is periodic and a CPU executes its instructions.  The
\* thread level needs no fairness: nothing below waits for it.
Fairness == WF_vars(TimerIrq) /\ WF_vars(SoftStep)

Spec == Init /\ [][Next]_vars /\ Fairness

-----------------------------------------------------------------------------
(* Properties *)

TypeOK ==
  /\ nr_buf \in BufSizes
  /\ pfree \in Nodes \cup {NULL} /\ ptimer \in Nodes \cup {NULL}
  /\ pnext \in [Nodes -> Nodes \cup {NULL}]
  /\ deadline \in [Nodes -> Nat]
  /\ callback \in [Nodes -> Funcs \cup {NULL}]
  /\ heap \subseteq HeapNodes
  /\ msec_count \in 0..MaxMsec
  /\ pending \in BOOLEAN /\ active \in BOOLEAN /\ full \in BOOLEAN
  /\ call \in [Ctx -> [pc : {"done", "malloc", "next", "store", "stamp", "insert"},
                       f : Funcs \cup {NULL},
                       p : Nodes \cup {NULL}, n : Nodes \cup {NULL}]]
  /\ softpc \in {"off", "collect", "call", "exit"}
  /\ funcarr \in Seq(Funcs) /\ Len(funcarr) <= NR_FUNC
  /\ armed \subseteq Funcs /\ dropped \subseteq armed
  /\ due \in [Funcs -> Nat]

\* The node a set_timeout call owns: taken from pfree, not yet in ptimer.
Held(c) == IF call[c].pc \in {"stamp", "insert"} THEN {call[c].p} ELSE {}

\* No node is lost and none is handed out twice: the free list, the timer
\* list and the nodes owned by set_timeout calls are proper lists that
\* partition the nodes in use, although set_timeout pops pfree with
\* interrupts enabled and the softirq may pop and push in between.
NodesConserved ==
  LET part == <<ChainSet(pfree), ChainSet(ptimer), Held("thread"), Held("softirq")>>
  IN  /\ IsList(pfree) /\ IsList(ptimer)
      /\ \A i, j \in 1..4 : i # j => part[i] \cap part[j] = {}
      /\ UNION {part[i] : i \in 1..4} = {TimerBuf[i] : i \in 1..nr_buf} \cup (HeapNodes \ heap)

\* The unprotected pop is as good as an atomic one: when the thread resumes
\* after a timer softirq that fell between its load of pfree and its store,
\* pfree is again the node it loaded and that node's successor is unchanged.
PopUndisturbed ==
  LET t == call["thread"]
  IN  ~active /\ t.pc \in {"next", "store"}
        => pfree = t.p /\ (t.pc = "store" => pnext[t.p] = t.n)

\* The requests for f that exist anywhere: on the list, in funcarr or in a call.
Outstanding(f) ==
    Cardinality({x \in ChainSet(ptimer) : callback[x] = f})
  + Cardinality({i \in 1..Len(funcarr) : funcarr[i] = f})
  + Cardinality({c \in Ctx : call[c].f = f})

\* A periodic callback neither dies nor multiplies: once armed, exactly one
\* request for it exists, unless set_timeout returned ENOMEM (which the
\* callbacks ignore).  With as many nodes in timerbuf as there are callbacks
\* that cannot happen: each callback's own node is free again when it re-arms.
OneOutstanding ==
  \A f \in armed :
    Outstanding(f) = IF f \in dropped /\ nr_buf < Cardinality(Funcs) THEN 0 ELSE 1

\* A callback is run at or after the time it was asked for, never before.
NotEarly == \A i \in 1..Len(funcarr) : due[funcarr[i]] <= msec_count

Listed(f) == \E x \in ChainSet(ptimer) : callback[x] = f

\* Every request whose time comes is taken off the list to be run.
ExpiredFires == \A f \in Funcs : (Listed(f) /\ due[f] <= MaxMsec) ~> ~Listed(f)

\* set_timeout and the timer softirq keep the lists of timer.c right: no node is
\* lost or on two lists, the pop is not disturbed, a function has one timeout
\* outstanding and none fires early.
TimerSafe == TypeOK /\ NodesConserved /\ PopUndisturbed /\ OneOutstanding /\ NotEarly
=============================================================================
