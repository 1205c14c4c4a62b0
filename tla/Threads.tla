------------------------------ MODULE Threads ------------------------------
(***************************************************************************)
(* The thread calls of one CPU (kernel/kthread.c, kernel/smp.c): threads   *)
(* of several levels, the chain of parents that control goes back along,   *)
(* and the stacks that switch_to and switch_first exchange.                *)
(*                                                                         *)
(* A call is one step; an interrupt inside suspend_thread is the subject   *)
(* of SoftIrq.  A stack is named by the thread that was started on it.     *)
(***************************************************************************)
EXTENDS Naturals, FiniteSets

CONSTANTS
  Threads,     \* the per-CPU threads
  Idle,        \* mainthread of idle_task
  Lvls,        \* the levels looked at, functions from threads to Nat
  null

All == Threads \cup {Idle}

\* What is assumed of the constants; THREAD_LVL_IDLE is the last level.
ThreadsAssumption ==
  /\ IsFiniteSet(Threads) /\ Idle \notin Threads /\ null \notin All
  /\ Lvls \subseteq [All -> Nat]
  /\ \A l \in Lvls, t \in Threads : l[Idle] >= l[t]

VARIABLES
  lvl,                 \* struct thread_struct: the level, a smaller one goes first;
  parent, state, rsp,  \* rsp is the stack it was left on
  suspended,           \* the threads with THREAD_SUSPEND
  current_thread,
  running,             \* the stack the CPU is on
  saved,               \* history: the stacks that wait to be switched to
  exited,              \* history: some thread's main returned
  stopped              \* "no", or why the kernel stopped: "assert", "panic"

tvars == <<lvl, parent, state, rsp, suspended, current_thread, running, saved, exited, stopped>>

\* init_idle_thread
ThreadsInit ==
  /\ lvl \in Lvls /\ exited = FALSE
  /\ parent = [t \in All |-> null]
  /\ state = [t \in All |-> IF t = Idle THEN "RUN" ELSE "INIT"]
  /\ rsp = [t \in All |-> null]
  /\ suspended = {} /\ current_thread = Idle
  /\ running = Idle /\ saved = {} /\ stopped = "no"

Stop(why) ==
  /\ stopped' = why
  /\ UNCHANGED <<lvl, parent, state, rsp, suspended, current_thread, running, saved, exited>>

-----------------------------------------------------------------------------
(* switch_first and switch_to save the stack in old->rsp                   *)

\* Mutant: the stack pointer is not stored in old->rsp.
thread_switch_firstNoSave(p, old) ==
  /\ running' = p
  /\ UNCHANGED <<rsp, saved>>

thread_switch_first(p, old) ==
  /\ rsp' = [rsp EXCEPT ![old] = running]
  /\ running' = p
  /\ saved' = saved \cup {running}

thread_switch_to(p, old) ==
  /\ rsp' = [rsp EXCEPT ![old] = running]
  /\ running' = rsp[p]
  /\ saved' = (saved \cup {running}) \ {rsp[p]}

\* A READY thread starts, another one goes on; back = TRUE marks it running.
Switch(p, old, back) ==
  IF state[p] = "READY"
  THEN thread_switch_first(p, old) /\ state' = [state EXCEPT ![p] = "RUN"]
  ELSE /\ thread_switch_to(p, old)
       /\ state' = IF back THEN [state EXCEPT ![p] = "RUN"] ELSE state

-----------------------------------------------------------------------------
(* The calls *)

\* The thread is READY; its stack and its place in the lists of threads are
\* not looked at.
create_thread_oncpu(p) == [state EXCEPT ![p] = "READY"]

\* The thread p, in the states st, runs next and gives control back to the
\* caller.
resume_thread(p, st) ==
  IF st[p] = "DONE" THEN state' = st /\ UNCHANGED <<parent, current_thread, rsp, running, saved>>
  ELSE /\ parent' = [parent EXCEPT ![p] = current_thread]
       /\ current_thread' = p
       /\ IF st[p] = "READY"
          THEN thread_switch_first(p, current_thread) /\ state' = [st EXCEPT ![p] = "RUN"]
          ELSE thread_switch_to(p, current_thread) /\ state' = st

\* init_percpu_thread calls smp_create_thread on the boot stack.
smp_create_thread(t) ==
  /\ running = Idle /\ state[t] = "INIT"
  /\ suspended' = suspended \ {t}
  /\ resume_thread(t, create_thread_oncpu(t))
  /\ UNCHANGED <<lvl, exited, stopped>>

\* No memory for the stack: panic("smp_create_thread error").
CreateFails(t) ==
  /\ running = Idle /\ state[t] = "INIT"
  /\ Stop("panic")

\* Mutant: a thread that is not suspended is woken too.
WakesAwake(p) == p # current_thread /\ state[p] # "INIT"

\* The early returns of wake_up_thread.
Wakes(p) == p # current_thread /\ state[p] # "INIT" /\ p \in suspended

\* Mutant: the flag stays set.
WakeSwitchKeepsFlag(p) ==
  /\ Wakes(p) /\ lvl[current_thread] >= lvl[p]
  /\ current_thread' = p
  /\ parent' = [parent EXCEPT ![p] = current_thread]
  /\ Switch(p, current_thread, FALSE)
  /\ UNCHANGED <<lvl, suspended, exited, stopped>>

\* wake_up_thread of a thread that goes first: switch to it now.
WakeSwitch(p) ==
  /\ Wakes(p) /\ lvl[current_thread] >= lvl[p]
  /\ suspended' = suspended \ {p}
  /\ current_thread' = p
  /\ parent' = [parent EXCEPT ![p] = current_thread]
  /\ Switch(p, current_thread, FALSE)
  /\ UNCHANGED <<lvl, exited, stopped>>

\* wake_up_thread of a thread of a later level: it is put behind the current
\* one.  Its flag stays set.
WakeBehind(p) ==
  /\ Wakes(p) /\ lvl[current_thread] < lvl[p]
  /\ IF p = parent[current_thread]
     THEN Stop("assert")
     ELSE /\ parent' = [parent EXCEPT ![p] = parent[current_thread], ![current_thread] = p]
          /\ UNCHANGED <<lvl, state, rsp, suspended, current_thread, running, saved, exited,
                         stopped>>

\* smp_thread_main has nothing to do.  Idle never suspends.
suspend_thread ==
  /\ running \in Threads
  /\ LET pold == current_thread
         p == parent[pold]
     IN  IF p = null THEN Stop("panic")
         ELSE IF p = pold \/ pold \in suspended THEN Stop("assert")
         ELSE /\ suspended' = suspended \cup {pold}
              /\ current_thread' = p
              /\ Switch(p, pold, TRUE)
              /\ UNCHANGED <<lvl, parent, exited, stopped>>

\* A thread's main returned.  current_thread is not changed.
exit_thread ==
  /\ running \in Threads
  /\ LET pold == current_thread
         p == parent[pold]
     IN  IF p = null THEN Stop("panic")
         ELSE /\ LET done == [state EXCEPT ![pold] = "DONE"]
                 IN  state' = [done EXCEPT ![p] = "RUN"]
              /\ IF state[p] = "READY" THEN thread_switch_first(p, pold)
                                       ELSE thread_switch_to(p, pold)
              /\ exited' = TRUE
              /\ UNCHANGED <<lvl, parent, suspended, current_thread, stopped>>

ThreadsNext ==
  /\ stopped = "no"
  /\ \/ \E t \in Threads : smp_create_thread(t) \/ CreateFails(t)
     \/ \E p \in Threads : WakeSwitch(p) \/ WakeBehind(p)
     \/ suspend_thread \/ exit_thread

ThreadsSpec == ThreadsInit /\ [][ThreadsNext]_tvars

-----------------------------------------------------------------------------
(* Properties *)

ThreadsTypeOK ==
  /\ lvl \in Lvls /\ exited \in BOOLEAN
  /\ parent \in [All -> All \cup {null}]
  /\ state \in [All -> {"INIT", "READY", "RUN", "DONE"}]
  /\ rsp \in [All -> All \cup {null}]
  /\ suspended \subseteq Threads /\ current_thread \in All
  /\ running \in All /\ saved \subseteq All
  /\ stopped \in {"no", "assert", "panic"}

\* The threads control goes back along: current_thread, its parent, and so on.
Depths == 0..Cardinality(All)
Back ==
  LET at[i \in Depths] ==
        IF i = 0 THEN current_thread
        ELSE IF at[i - 1] = null THEN null ELSE parent[at[i - 1]]
  IN  at
Waiting == {Back[i] : i \in Depths}

OneLevel == \A s, t \in Threads : lvl[s] = lvl[t]

\* Threads of one level that do not return: the chain of parents ends, at Idle, and holds the
\* awake threads and no other, so that no thread that was woken is forgotten
\* and control never goes back to a suspended one.
ChainIsAwake ==
  OneLevel /\ ~exited =>
    Waiting = {null} \cup {t \in All \ suspended : state[t] = "RUN"}

\* Threads of any levels that do not return: a switch never goes to a stack that nobody waits
\* on, and never leaves one behind.  Every thread that was started is on the
\* CPU or waits on its stack, and the thread on the CPU is current_thread.
StacksConserved ==
  ~exited =>
    /\ saved \cup {running} = {t \in All : state[t] = "RUN"} /\ running \notin saved
    /\ running = current_thread
    /\ \A t \in saved : rsp[t] = t

\* Whatever threads wake, suspend and return, the stack of Idle is never lost.
IdleKept == Idle \in saved \cup {running}

\* Threads of one level that do not return meet no assert of suspend_thread
\* and wake_up_thread.
AssertsHoldOneLevel == OneLevel /\ ~exited => stopped # "assert"

\* "ASSERT(!(pold->flag & THREAD_SUSPEND))" (suspend_thread) and the assert of
\* wake_up_thread hold for any levels, when no thread returns.
AssertsHold == ~exited => stopped # "assert"

\* The scheduler of kthread.c: the chain of parents holds the threads that are
\* awake, every stack and the idle thread are kept, and with one level in use
\* its assertions hold.
ThreadsSafe == ThreadsTypeOK /\ ChainIsAwake /\ StacksConserved /\ IdleKept /\ AssertsHoldOneLevel
=============================================================================
