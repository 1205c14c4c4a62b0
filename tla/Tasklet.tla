------------------------------ MODULE Tasklet ------------------------------
(***************************************************************************)
(* Tasklets: tasklet_schedule and its hi variants, tasklet_action and      *)
(* tasklet_hi_action on several CPUs, and tasklet_disable / enable.        *)
(*                                                                         *)
(* tasklet_vec and tasklet_hi_vec of a CPU are the pointers of the code: a *)
(* head, and a tail that is the address of the head or of a tasklet's next *)
(* field.  They are touched by their own CPU only, with interrupts off, so *)
(* each such section is one step.  The two bits of t->state and t->count   *)
(* are shared; each atomic operation on them is one step.                  *)
(***************************************************************************)
EXTENDS Naturals, Sequences, FiniteSets

CONSTANTS
  CPUs, Tasklets,
  Vecs,          \* a subset of {"hi", "lo"}
  FirstOnEmpty,  \* whether tasklet_hi_schedule_first is called for an empty vector
  NULL,
  HEAD           \* as a tail: the address of the head

ASSUME TaskletAssumption ==
  /\ Vecs \subseteq {"hi", "lo"}
  /\ FirstOnEmpty \in BOOLEAN
  /\ IsFiniteSet(Tasklets) /\ NULL \notin Tasklets /\ HEAD \notin Tasklets

VARIABLES
  sched, run,    \* tasklets with TASKLET_STATE_SCHED, TASKLET_STATE_RUN
  count,         \* t->count
  next,          \* t->next
  head, tail,    \* [CPUs -> [Vecs -> ...]]
  raised,        \* softirqs pending on each CPU
  pass,          \* softirqs the running __do_softirq has still to call
  pc,            \* where a CPU is in tasklet_action / tasklet_hi_action
  vec,           \* the vector that action works on
  list, cur,     \* its locals list and t
  claim,         \* <<cpu, vec, t>>: SCHED set by a caller that has not queued yet
  ctl            \* per tasklet, the thread that disables it: on, wait, off

queues == <<next, head, tail, raised>>
action == <<pass, pc, vec, list, cur>>
vars == <<sched, run, count, queues, action, claim, ctl>>

-----------------------------------------------------------------------------
\* softirq_init and tasklet_init
Init ==
  /\ sched = {} /\ run = {} /\ claim = {}
  /\ count = [t \in Tasklets |-> 0]
  /\ next = [t \in Tasklets |-> NULL]
  /\ head = [c \in CPUs |-> [v \in Vecs |-> NULL]]
  /\ tail = [c \in CPUs |-> [v \in Vecs |-> HEAD]]
  /\ raised = [c \in CPUs |-> {}] /\ pass = [c \in CPUs |-> {}]
  /\ pc = [c \in CPUs |-> "idle"]
  /\ vec = [c \in CPUs |-> "lo"]
  /\ list = [c \in CPUs |-> NULL] /\ cur = [c \in CPUs |-> NULL]
  /\ ctl = [t \in Tasklets |-> "on"]

-----------------------------------------------------------------------------
(* Scheduling, from any context of a CPU.                                  *)

\* Mutant: SCHED is set without looking at its old value.
TestAndSetSchedBlind(c, v, t) ==
  /\ <<c, v, t>> \notin claim
  /\ sched' = sched \cup {t}
  /\ claim' = claim \cup {<<c, v, t>>}
  /\ UNCHANGED <<run, count, queues, action, ctl>>

\* test_and_set_bit(TASKLET_STATE_SCHED, &t->state)
TestAndSetSched(c, v, t) ==
  /\ t \notin sched
  /\ sched' = sched \cup {t}
  /\ claim' = claim \cup {<<c, v, t>>}
  /\ UNCHANGED <<run, count, queues, action, ctl>>

\* t->next = NULL; *tail = t; tail = &t->next; raise the softirq.
Append2Vec(c, v, t) ==
  /\ IF tail[c][v] = HEAD
     THEN /\ head' = [head EXCEPT ![c][v] = t]
          /\ next' = [next EXCEPT ![t] = NULL]
     ELSE /\ next' = [next EXCEPT ![t] = NULL, ![tail[c][v]] = t]
          /\ UNCHANGED head
  /\ tail' = [tail EXCEPT ![c][v] = t]
  /\ raised' = [raised EXCEPT ![c] = @ \cup {v}]

\* __tasklet_schedule, __tasklet_hi_schedule
tasklet_schedule(c, v, t) ==
  /\ <<c, v, t>> \in claim
  /\ claim' = claim \ {<<c, v, t>>}
  /\ Append2Vec(c, v, t)
  /\ UNCHANGED <<sched, run, count, action, ctl>>

\* __tasklet_hi_schedule_first: in front of the head.  tail is left
\* alone, so that a vector that was empty forgets it at the next append.
tasklet_hi_schedule_first(c, t) ==
  /\ <<c, "hi", t>> \in claim /\ (head[c]["hi"] # NULL \/ FirstOnEmpty)
  /\ claim' = claim \ {<<c, "hi", t>>}
  /\ next' = [next EXCEPT ![t] = head[c]["hi"]]
  /\ head' = [head EXCEPT ![c]["hi"] = t]
  /\ raised' = [raised EXCEPT ![c] = @ \cup {"hi"}]
  /\ UNCHANGED <<tail, sched, run, count, action, ctl>>

-----------------------------------------------------------------------------
(* tasklet_action and tasklet_hi_action                                    *)

\* __do_softirq takes the pending word.
BeginPass(c) ==
  /\ pc[c] = "idle" /\ pass[c] = {} /\ raised[c] # {}
  /\ pass' = [pass EXCEPT ![c] = raised[c]]
  /\ raised' = [raised EXCEPT ![c] = {}]
  /\ UNCHANGED <<sched, run, count, next, head, tail, pc, vec, list, cur, claim, ctl>>

\* Take the whole list; HI_SOFTIRQ is a lower bit than TASKLET_SOFTIRQ.
TakeList(c, v) ==
  /\ pc[c] = "idle" /\ v \in pass[c]
  /\ v = "lo" => "hi" \notin pass[c]
  /\ pass' = [pass EXCEPT ![c] = @ \ {v}]
  /\ vec' = [vec EXCEPT ![c] = v]
  /\ list' = [list EXCEPT ![c] = head[c][v]]
  /\ head' = [head EXCEPT ![c][v] = NULL]
  /\ tail' = [tail EXCEPT ![c][v] = HEAD]
  /\ pc' = [pc EXCEPT ![c] = "loop"]
  /\ UNCHANGED <<sched, run, count, next, raised, cur, claim, ctl>>

\* while (list) { t = list; list = list->next;
NextTasklet(c) ==
  /\ pc[c] = "loop"
  /\ IF list[c] = NULL
     THEN /\ pc' = [pc EXCEPT ![c] = "idle"]
          /\ cur' = [cur EXCEPT ![c] = NULL]
          /\ UNCHANGED list
     ELSE /\ cur' = [cur EXCEPT ![c] = list[c]]
          /\ list' = [list EXCEPT ![c] = next[list[c]]]
          /\ pc' = [pc EXCEPT ![c] = "trylock"]
  /\ UNCHANGED <<sched, run, count, queues, pass, vec, claim, ctl>>

\* Mutant: the old value of TASKLET_STATE_RUN is ignored.
tasklet_trylockBlind(c) ==
  /\ pc[c] = "trylock"
  /\ run' = run \cup {cur[c]} /\ pc' = [pc EXCEPT ![c] = "count"]
  /\ UNCHANGED <<sched, count, queues, pass, vec, list, cur, claim, ctl>>

tasklet_trylock(c) ==
  /\ pc[c] = "trylock"
  /\ IF cur[c] \in run
     THEN pc' = [pc EXCEPT ![c] = "requeue"] /\ UNCHANGED run
     ELSE run' = run \cup {cur[c]} /\ pc' = [pc EXCEPT ![c] = "count"]
  /\ UNCHANGED <<sched, count, queues, pass, vec, list, cur, claim, ctl>>

\* Mutant: a disabled tasklet is run.
ReadCountIgnored(c) ==
  /\ pc[c] = "count"
  /\ pc' = [pc EXCEPT ![c] = "clear"]
  /\ UNCHANGED <<sched, run, count, queues, pass, vec, list, cur, claim, ctl>>

\* if (!atomic_read(&t->count))
ReadCount(c) ==
  /\ pc[c] = "count"
  /\ pc' = [pc EXCEPT ![c] = IF count[cur[c]] = 0 THEN "clear" ELSE "unlock"]
  /\ UNCHANGED <<sched, run, count, queues, pass, vec, list, cur, claim, ctl>>

\* Mutant: SCHED stays set when the function is called.
ClearSchedMissing(c) ==
  /\ pc[c] = "clear"
  /\ pc' = [pc EXCEPT ![c] = "func"]
  /\ UNCHANGED <<sched, run, count, queues, pass, vec, list, cur, claim, ctl>>

\* if (!test_and_clear_bit(SCHED)) BUG(); BUG never returns.
ClearSched(c) ==
  /\ pc[c] = "clear"
  /\ IF cur[c] \in sched
     THEN sched' = sched \ {cur[c]} /\ pc' = [pc EXCEPT ![c] = "func"]
     ELSE pc' = [pc EXCEPT ![c] = "bug"] /\ UNCHANGED sched
  /\ UNCHANGED <<run, count, queues, pass, vec, list, cur, claim, ctl>>

\* t->func returned; tasklet_unlock, continue.
FuncDone(c) ==
  /\ pc[c] = "func"
  /\ run' = run \ {cur[c]}
  /\ pc' = [pc EXCEPT ![c] = "loop"]
  /\ UNCHANGED <<sched, count, queues, pass, vec, list, cur, claim, ctl>>

\* tasklet_unlock of a disabled tasklet, which is queued again.
UnlockDisabled(c) ==
  /\ pc[c] = "unlock"
  /\ run' = run \ {cur[c]}
  /\ pc' = [pc EXCEPT ![c] = "requeue"]
  /\ UNCHANGED <<sched, count, queues, pass, vec, list, cur, claim, ctl>>

Requeue(c) ==
  /\ pc[c] = "requeue"
  /\ Append2Vec(c, vec[c], cur[c])
  /\ pc' = [pc EXCEPT ![c] = "loop"]
  /\ UNCHANGED <<sched, run, count, pass, vec, list, cur, claim, ctl>>

-----------------------------------------------------------------------------
(* Disabling, from a thread on a CPU that is not in the tasklet's function *)

\* tasklet_disable_nosync
tasklet_disable(t) ==
  /\ ctl[t] = "on"
  /\ count' = [count EXCEPT ![t] = @ + 1]
  /\ ctl' = [ctl EXCEPT ![t] = "wait"]
  /\ UNCHANGED <<sched, run, queues, action, claim>>

\* Mutant: tasklet_disable returns without waiting.
tasklet_unlock_waitNot(t) ==
  /\ ctl[t] = "wait"
  /\ ctl' = [ctl EXCEPT ![t] = "off"]
  /\ UNCHANGED <<sched, run, count, queues, action, claim>>

tasklet_unlock_wait(t) ==
  /\ ctl[t] = "wait" /\ t \notin run
  /\ ctl' = [ctl EXCEPT ![t] = "off"]
  /\ UNCHANGED <<sched, run, count, queues, action, claim>>

\* Mutant: the count goes down without a matching tasklet_disable.
tasklet_enableUnmatched(t) ==
  /\ ctl[t] # "wait"
  /\ count' = [count EXCEPT ![t] = @ - 1]
  /\ ctl' = [ctl EXCEPT ![t] = "on"]
  /\ UNCHANGED <<sched, run, queues, action, claim>>

tasklet_enable(t) ==
  /\ ctl[t] = "off"
  /\ count' = [count EXCEPT ![t] = @ - 1]
  /\ ctl' = [ctl EXCEPT ![t] = "on"]
  /\ UNCHANGED <<sched, run, queues, action, claim>>

-----------------------------------------------------------------------------
Queue(c, t) ==
  \/ \E v \in Vecs : tasklet_schedule(c, v, t)
  \/ tasklet_hi_schedule_first(c, t)

CpuStep(c) ==
  \/ BeginPass(c)
  \/ \E v \in Vecs : TakeList(c, v)
  \/ NextTasklet(c) \/ tasklet_trylock(c) \/ ReadCount(c) \/ ClearSched(c)
  \/ FuncDone(c) \/ UnlockDisabled(c) \/ Requeue(c)

Next ==
  \/ \E c \in CPUs, v \in Vecs, t \in Tasklets : TestAndSetSched(c, v, t)
  \/ \E c \in CPUs, t \in Tasklets : Queue(c, t)
  \/ \E c \in CPUs : CpuStep(c)
  \/ \E t \in Tasklets : tasklet_disable(t) \/ tasklet_unlock_wait(t) \/ tasklet_enable(t)

\* Every CPU executes its instructions, and its pending softirqs are taken up
\* (SoftirqServed of SoftIrq); a caller that set SCHED goes on to queue its
\* tasklet.  Nobody is obliged to schedule or to disable.
Spec ==
  /\ Init /\ [][Next]_vars
  /\ \A c \in CPUs : WF_vars(CpuStep(c))
  /\ \A c \in CPUs, t \in Tasklets : WF_vars(Queue(c, t))

-----------------------------------------------------------------------------
(* Properties *)

TypeOK ==
  /\ sched \subseteq Tasklets /\ run \subseteq Tasklets
  /\ count \in [Tasklets -> Nat]
  /\ next \in [Tasklets -> Tasklets \cup {NULL}]
  /\ head \in [CPUs -> [Vecs -> Tasklets \cup {NULL}]]
  /\ tail \in [CPUs -> [Vecs -> Tasklets \cup {HEAD}]]
  /\ raised \in [CPUs -> SUBSET Vecs] /\ pass \in [CPUs -> SUBSET Vecs]
  /\ pc \in [CPUs -> {"idle", "loop", "trylock", "count", "clear", "func", "unlock",
                      "requeue", "bug"}]
  /\ vec \in [CPUs -> {"hi", "lo"}]
  /\ list \in [CPUs -> Tasklets \cup {NULL}] /\ cur \in [CPUs -> Tasklets \cup {NULL}]
  /\ claim \subseteq CPUs \X Vecs \X Tasklets
  /\ ctl \in [Tasklets -> {"on", "wait", "off"}]

\* A tasklet's function never runs on two CPUs at once, although SCHED is
\* cleared before the call and the tasklet may be queued elsewhere meanwhile.
RunExclusive ==
  \A c, d \in CPUs : c # d /\ pc[c] = "func" /\ pc[d] = "func" => cur[c] # cur[d]

\* After tasklet_disable returned and until tasklet_enable, the function is
\* not running: neither a CPU that had looked at count before, nor a later one.
DisabledNotRunning ==
  \A t \in Tasklets : ctl[t] = "off" => \A c \in CPUs : ~(pc[c] = "func" /\ cur[c] = t)

\* The tasklets met from p along next, one step longer than a list can be.
Steps == 1..(Cardinality(Tasklets) + 1)
Chain(p) ==
  LET at[i \in Steps] == IF i = 1 THEN p ELSE IF at[i - 1] = NULL THEN NULL ELSE next[at[i - 1]]
  IN  at

\* In tasklet_action with the tasklet off its list: before SCHED is cleared, or
\* about to queue the tasklet again.
Waiting(c) == pc[c] \in {"trylock", "count", "clear", "unlock", "requeue"}

\* The places where t waits to be run: with a caller about to queue it, in a
\* vector, in the list an action has taken, in the action.
Places(t) ==
  {k \in {"claim"} \X CPUs \X Vecs : <<k[2], k[3], t>> \in claim}
  \cup {k \in {"vec"} \X CPUs \X Vecs \X Steps : Chain(head[k[2]][k[3]])[k[4]] = t}
  \cup {k \in {"list"} \X CPUs \X Steps : Chain(list[k[2]])[k[3]] = t}
  \cup {k \in {"cur"} \X CPUs : Waiting(k[2]) /\ cur[k[2]] = t}

\* "Tasklet is scheduled for execution" (TASKLET_STATE_SCHED): the bit is set
\* exactly while the tasklet waits in one place, so it is neither lost nor
\* queued twice and the BUG() of tasklet_action is not reached (when
\* tasklet_hi_schedule_first finds a vector in use).
ScheduledOnce ==
  \A t \in Tasklets : IF t \in sched THEN \E k \in Places(t) : Places(t) = {k} ELSE Places(t) = {}

\* A scheduled tasklet runs, unless it is disabled.
ScheduledRuns == \A t \in Tasklets : t \in sched ~> (t \notin sched \/ count[t] > 0)

\* A disabled tasklet does not run, and a scheduled one is on one list, once.
TaskletSafe == TypeOK /\ DisabledNotRunning /\ ScheduledOnce
=============================================================================
