--------------------------- MODULE ThreadsProofs ----------------------------
(***************************************************************************)
(* Proofs about the thread calls of one CPU (Threads), for any threads and *)
(* any levels.                                                             *)
(***************************************************************************)
EXTENDS Threads, FiniteSetTheorems, WellFoundedInduction, TLAPS

\* A thread that control may go back to has been left once, and its stack is
\* known, whatever threads have returned before.
LeftBefore ==
  /\ \A t \in suspended : rsp[t] # null
  /\ \A t \in All : parent[t] # null => rsp[parent[t]] # null

\* The stack of Idle is the only one Idle is ever left on or current on.
IdleStack ==
  /\ current_thread = Idle => running = Idle
  /\ rsp[Idle] \in {null, Idle}

\* As long as no thread has returned every stack is under its own thread's
\* name, only threads that were started are parents or suspended, and
\* current_thread is the one on the CPU.
OwnStacks ==
  ~exited =>
    /\ \A t \in All : state[t] \in {"INIT", "RUN"}
    /\ \A t \in All : parent[t] # null => state[parent[t]] = "RUN"
    /\ \A t \in suspended : state[t] = "RUN"
    /\ \A t \in All : t \in saved <=> state[t] = "RUN" /\ t # current_thread
    /\ state[current_thread] = "RUN" /\ running = current_thread
    /\ \A t \in saved : rsp[t] = t

\* The chain of parents from current_thread, q[D], to Idle, q[0], holds the
\* threads that are awake.
IsAwake(t) == t \notin suspended /\ state[t] = "RUN"
IsChain(q, D) ==
  /\ q[0] = Idle /\ q[D] = current_thread /\ parent[Idle] = null
  /\ \A i \in 1..D : parent[q[i]] = q[i - 1]
  /\ \A i, j \in 0..D : q[i] = q[j] => i = j
  /\ \A t \in All : IsAwake(t) <=> \E i \in 0..D : q[i] = t
HasChain == \E D \in Nat : \E q \in [0..D -> All] : IsChain(q, D)

IInv ==
  /\ ThreadsTypeOK /\ LeftBefore /\ IdleStack /\ IdleKept /\ OwnStacks
  /\ OneLevel /\ ~exited => HasChain /\ stopped # "assert"

\* The chain with p put in front.
Pushed(q, D, p) == [i \in 0..(D + 1) |-> IF i = D + 1 THEN p ELSE q[i]]

\* A thread that was not awake is awake now and its parent is the one that
\* was current: the chain grows by it.
LEMMA ChainGrows ==
  ASSUME NEW p \in Threads, HasChain, ThreadsTypeOK, ThreadsAssumption, ~IsAwake(p),
         parent' = [parent EXCEPT ![p] = current_thread], current_thread' = p,
         \A t \in All : IsAwake(t)' <=> IsAwake(t) \/ t = p
  PROVE  HasChain'
<1>0. PICK D \in Nat : \E q \in [0..D -> All] : IsChain(q, D)
  BY Zenon DEF HasChain
<1>1. PICK q \in [0..D -> All] : IsChain(q, D)
  BY <1>0, Zenon
<1> DEFINE r == Pushed(q, D, p)
<1>2. r \in [0..(D + 1) -> All] /\ D + 1 \in Nat
  BY <1>1 DEF Pushed, All
<1>3. r[D + 1] = p /\ \A i \in 0..D : r[i] = q[i]
  BY <1>1 DEF Pushed
<1>4. \A i \in 0..D : q[i] # p
  BY <1>1, Zenon DEF IsChain, All
<1>5. \A i \in 0..(D + 1) : i \in 0..D \/ i = D + 1
  BY <1>1
<1> HIDE DEF r
<1>6. IsChain(r, D + 1)'
  <2>1. r[0] = Idle /\ r[D + 1] = current_thread' /\ parent'[Idle] = null
    <3>1. 0 \in 0..D /\ Idle # p
      BY <1>1 DEF ThreadsAssumption
    <3> QED
      BY <1>1, <1>3, <3>1, Zenon DEF IsChain, ThreadsTypeOK, All
  <2>2. \A i \in 1..(D + 1) : parent'[r[i]] = r[i - 1]
    <3> SUFFICES ASSUME NEW i \in 1..(D + 1) PROVE parent'[r[i]] = r[i - 1]
      BY Zenon
    <3>1. CASE i = D + 1
      <4>1. parent'[p] = current_thread /\ r[i] = p
        BY <3>1, <1>3, Zenon DEF ThreadsTypeOK, All
      <4>2. r[i - 1] = q[D] /\ q[D] = current_thread
        BY <3>1, <1>1, <1>3 DEF IsChain
      <4> QED
        BY <4>1, <4>2, Zenon
    <3>2. CASE i # D + 1
      <4>1. i \in 1..D /\ i \in 0..D /\ i - 1 \in 0..D
        BY <3>2, <1>1
      <4>2. parent'[q[i]] = parent[q[i]]
        BY <4>1, <1>1, <1>4, Zenon DEF ThreadsTypeOK
      <4> QED
        BY <4>1, <4>2, <1>1, <1>3, Zenon DEF IsChain
    <3> QED
      BY <3>1, <3>2, Zenon
  <2>3. \A i, j \in 0..(D + 1) : r[i] = r[j] => i = j
    BY <1>1, <1>3, <1>4, <1>5, Zenon DEF IsChain
  <2>4. \A t \in All : IsAwake(t)' <=> \E i \in 0..(D + 1) : r[i] = t
    <3>1. \A t \in All : (\E i \in 0..(D + 1) : r[i] = t) <=> (\E i \in 0..D : q[i] = t) \/ t = p
      <4>1. D + 1 \in 0..(D + 1) /\ 0..D \subseteq 0..(D + 1)
        BY <1>1
      <4> QED
        BY <4>1, <1>3, <1>5, Zenon
    <3> QED
      BY <3>1, <1>1, Zenon DEF IsChain
  <2> QED
    BY <2>1, <2>2, <2>3, <2>4, Zenon DEF IsChain
<1> QED
  BY <1>2, <1>6, Zenon DEF HasChain

\* The current thread goes to sleep and its parent goes on: the chain loses
\* its first.  Idle does not sleep, so there is one, and it is another.
LEMMA ChainShrinks ==
  ASSUME HasChain, ThreadsTypeOK, ThreadsAssumption, current_thread \in Threads
  PROVE  /\ parent[current_thread] \in All /\ parent[current_thread] # current_thread
         /\ IsAwake(current_thread)
         /\ (/\ parent' = parent /\ current_thread' = parent[current_thread]
             /\ \A t \in All : IsAwake(t)' <=> IsAwake(t) /\ t # current_thread) => HasChain'
<1>0. PICK D \in Nat : \E q \in [0..D -> All] : IsChain(q, D)
  BY Zenon DEF HasChain
<1>1. PICK q \in [0..D -> All] : IsChain(q, D)
  BY <1>0, Zenon
<1>2. D # 0
  BY <1>1, Zenon DEF IsChain, ThreadsAssumption
<1>3. D - 1 \in Nat /\ D \in 0..D /\ D \in 1..D /\ D - 1 \in 0..D /\ 0..(D - 1) \subseteq 0..D
      /\ (D - 1) # D /\ 1..(D - 1) \subseteq 1..D /\ 0 \in 0..(D - 1)
  BY <1>1, <1>2
<1>4. parent[current_thread] = q[D - 1] /\ q[D - 1] \in All /\ q[D - 1] # q[D] /\ q[D] = current_thread
  BY <1>1, <1>3, Zenon DEF IsChain
<1>5. IsAwake(current_thread)
  BY <1>1, <1>3, Zenon DEF IsChain, ThreadsTypeOK
<1>6. ASSUME parent' = parent, current_thread' = parent[current_thread],
             \A t \in All : IsAwake(t)' <=> IsAwake(t) /\ t # current_thread
      PROVE  HasChain'
  <2> DEFINE r == [i \in 0..(D - 1) |-> q[i]]
  <2>1. r \in [0..(D - 1) -> All] /\ \A i \in 0..(D - 1) : r[i] = q[i]
    BY <1>1, <1>3, Zenon
  <2>2. D - 1 \in 0..(D - 1) /\ \A i \in 1..(D - 1) : i \in 0..(D - 1) /\ i - 1 \in 0..(D - 1)
    BY <1>1, <1>3
  <2>3. \A i \in 0..D : i \in 0..(D - 1) \/ i = D
    BY <1>1
  <2>4. D \notin 0..(D - 1)
    BY <1>1
  <2> HIDE DEF r
  <2>5. r[0] = Idle /\ r[D - 1] = current_thread' /\ parent'[Idle] = null
    BY <1>1, <1>3, <1>4, <1>6, <2>1, <2>2, Zenon DEF IsChain
  <2>6. \A i \in 1..(D - 1) : parent'[r[i]] = r[i - 1]
    BY <1>1, <1>3, <1>6, <2>1, <2>2, Zenon DEF IsChain
  <2>7. \A i, j \in 0..(D - 1) : r[i] = r[j] => i = j
    BY <1>1, <1>3, <2>1, Zenon DEF IsChain
  <2>8. ASSUME NEW t \in All PROVE IsAwake(t)' <=> \E i \in 0..(D - 1) : r[i] = t
    <3>1. IsAwake(t)' => \E i \in 0..(D - 1) : r[i] = t
      BY <1>1, <1>4, <1>6, <2>1, <2>3, Zenon DEF IsChain
    <3>2. ASSUME NEW i \in 0..(D - 1), r[i] = t PROVE IsAwake(t)'
      <4>1. q[i] = t /\ i \in 0..D /\ i # D
        BY <3>2, <1>3, <2>1, <2>4, Zenon
      <4>2. t # current_thread
        BY <4>1, <1>1, <1>3, <1>4, Zenon DEF IsChain
      <4>3. IsAwake(t)
        BY <4>1, <1>1, Zenon DEF IsChain
      <4> QED
        BY <4>2, <4>3, <1>6, Zenon
    <3> QED
      BY <3>1, <3>2, Zenon
  <2>9. IsChain(r, D - 1)'
    BY <2>5, <2>6, <2>7, <2>8, Zenon DEF IsChain
  <2> QED
    BY <1>3, <2>1, <2>9, Zenon DEF HasChain
<1> QED
  BY <1>4, <1>5, <1>6, Zenon

-----------------------------------------------------------------------------
\* init_idle_thread: Idle alone is the chain.
LEMMA InitInv == ASSUME ThreadsAssumption, ThreadsInit PROVE IInv
<1>1. ThreadsTypeOK /\ LeftBefore /\ IdleStack /\ IdleKept
  BY Zenon DEF ThreadsInit, ThreadsTypeOK, LeftBefore, IdleStack, IdleKept, All, ThreadsAssumption
<1>2. OwnStacks
  BY Zenon DEF ThreadsInit, OwnStacks, All
<1>3. HasChain
  <2> DEFINE q == [i \in 0..0 |-> Idle]
  <2>1. q \in [0..0 -> All] /\ \A i \in 0..0 : i = 0 /\ q[i] = Idle
    BY DEF All
  <2>2. 0 \in 0..0 /\ 0 \in Nat /\ \A i \in 1..0 : FALSE
    OBVIOUS
  <2> HIDE DEF q
  <2>3. parent[Idle] = null /\ current_thread = Idle /\ \A t \in All : IsAwake(t) <=> t = Idle
    BY Zenon DEF ThreadsInit, IsAwake, All
  <2>4. IsChain(q, 0)
    BY <2>1, <2>2, <2>3, Zenon DEF IsChain
  <2> QED
    BY <2>1, <2>2, <2>4, Zenon DEF HasChain
<1>4. stopped # "assert"
  BY Zenon DEF ThreadsInit
<1> QED
  BY <1>1, <1>2, <1>3, <1>4, Zenon DEF IInv

\* A call that only stops the kernel.
LEMMA StopInv ==
  ASSUME IInv, NEW why \in {"assert", "panic"}, Stop(why), OneLevel /\ ~exited => why # "assert"
  PROVE  IInv'
<1>1. UNCHANGED <<lvl, parent, state, rsp, suspended, current_thread, running, saved, exited>> /\ stopped' = why
  BY Zenon DEF Stop
<1>2. ThreadsTypeOK' /\ LeftBefore' /\ IdleStack' /\ IdleKept' /\ OwnStacks'
  BY <1>1, Zenon DEF IInv, ThreadsTypeOK, LeftBefore, IdleStack, IdleKept, OwnStacks
<1>3. HasChain => HasChain'
  <2>1. \A t : IsAwake(t)' <=> IsAwake(t)
    BY <1>1, Zenon DEF IsAwake
  <2>2. \A D, q : IsChain(q, D) => IsChain(q, D)'
    BY <1>1, <2>1, Zenon DEF IsChain
  <2> QED
    BY <2>2, Zenon DEF HasChain
<1> QED
  BY <1>1, <1>2, <1>3, Zenon DEF IInv, OneLevel

\* smp_create_thread: the new thread runs on its own stack, and Idle waits.
LEMMA CreateInv ==
  ASSUME ThreadsAssumption, IInv, stopped = "no", NEW t \in Threads, smp_create_thread(t)
  PROVE  IInv'
<1> USE DEF IInv
<1>1. t \in All /\ state[t] = "INIT" /\ t # Idle /\ current_thread \in All /\ running = Idle /\ Idle \in All
  BY Zenon DEF smp_create_thread, All, ThreadsAssumption, ThreadsTypeOK
<1>2. /\ parent' = [parent EXCEPT ![t] = current_thread] /\ current_thread' = t
      /\ rsp' = [rsp EXCEPT ![current_thread] = running] /\ running' = t /\ saved' = saved \cup {running}
      /\ state' = [[state EXCEPT ![t] = "READY"] EXCEPT ![t] = "RUN"]
      /\ suspended' = suspended \ {t} /\ lvl' = lvl /\ exited' = exited /\ stopped' = stopped
  BY <1>1, Zenon DEF smp_create_thread, resume_thread, create_thread_oncpu, thread_switch_first, ThreadsTypeOK
<1>3. state' = [state EXCEPT ![t] = "RUN"]
  BY <1>1, <1>2, Zenon DEF ThreadsTypeOK
<1>4. ThreadsTypeOK'
  BY <1>1, <1>2, <1>3, Zenon DEF ThreadsTypeOK
<1>5. LeftBefore'
  BY <1>1, <1>2 DEF ThreadsTypeOK, LeftBefore, ThreadsAssumption
<1>6. IdleKept' /\ IdleStack'
  BY <1>1, <1>2, Zenon DEF IdleKept, IdleStack, ThreadsTypeOK
<1>7. OwnStacks'
  BY <1>1, <1>2, <1>3 DEF OwnStacks, ThreadsTypeOK
<1>8. ASSUME OneLevel, ~exited PROVE HasChain'
  <2>1. ~IsAwake(t) /\ \A s \in All : IsAwake(s)' <=> IsAwake(s) \/ s = t
    BY <1>1, <1>2, <1>3, Zenon DEF IsAwake, ThreadsTypeOK
  <2> QED
    BY <1>2, <1>8, <2>1, ChainGrows, Zenon
<1> QED
  BY <1>2, <1>4, <1>5, <1>6, <1>7, <1>8, Zenon DEF OneLevel

\* Switch without the difference between a thread that starts and one that
\* goes on: the stack that is left is saved, and the one taken is known.
LEMMA SwitchTo ==
  ASSUME ThreadsTypeOK, NEW p \in All, NEW old \in All, NEW back \in BOOLEAN, Switch(p, old, back),
         rsp[p] # null
  PROVE  /\ rsp' = [rsp EXCEPT ![old] = running]
         /\ running' \in {p, rsp[p]} /\ running' \in All
         /\ saved' \subseteq All /\ saved \cup {running} \subseteq saved' \cup {running'}
         /\ state' \in [All -> {"INIT", "READY", "RUN", "DONE"}]
         /\ state[p] = "RUN" => state' = state /\ running' = rsp[p] /\ saved' = (saved \cup {running}) \ {rsp[p]}
<1>1. rsp[p] \in All /\ running \in All
  BY Zenon DEF ThreadsTypeOK
<1>2. state[p] = "RUN" => [state EXCEPT ![p] = "RUN"] = state
  BY Zenon DEF ThreadsTypeOK
<1>3. CASE state[p] = "READY"
  BY <1>1, <1>3 DEF Switch, thread_switch_first, ThreadsTypeOK
<1>4. CASE state[p] # "READY"
  BY <1>1, <1>2, <1>4 DEF Switch, thread_switch_to, ThreadsTypeOK
<1> QED
  BY <1>3, <1>4, Zenon

\* wake_up_thread of a thread that goes first.
LEMMA WakeSwitchInv ==
  ASSUME ThreadsAssumption, IInv, stopped = "no", NEW p \in Threads, WakeSwitch(p)
  PROVE  IInv'
<1> USE DEF IInv
<1>1. p \in All /\ p # current_thread /\ p \in suspended /\ current_thread \in All /\ rsp[p] # null
      /\ null \notin All
  BY Zenon DEF WakeSwitch, Wakes, All, ThreadsAssumption, ThreadsTypeOK, LeftBefore
<1>2. /\ parent' = [parent EXCEPT ![p] = current_thread] /\ current_thread' = p
      /\ suspended' = suspended \ {p} /\ lvl' = lvl /\ exited' = exited /\ stopped' = stopped
      /\ Switch(p, current_thread, FALSE)
  BY Zenon DEF WakeSwitch
<1>3. /\ rsp' = [rsp EXCEPT ![current_thread] = running]
      /\ running' \in {p, rsp[p]} /\ running' \in All
      /\ saved' \subseteq All /\ saved \cup {running} \subseteq saved' \cup {running'}
      /\ state' \in [All -> {"INIT", "READY", "RUN", "DONE"}]
      /\ state[p] = "RUN" => state' = state /\ running' = rsp[p] /\ saved' = (saved \cup {running}) \ {rsp[p]}
  BY <1>1, <1>2, SwitchTo, Zenon
<1>4. ThreadsTypeOK'
  BY <1>1, <1>2, <1>3, Zenon DEF ThreadsTypeOK
<1>5. LeftBefore'
  BY <1>1, <1>2, <1>3 DEF ThreadsTypeOK, LeftBefore
<1>6. IdleKept' /\ IdleStack'
  <2>1. p # Idle /\ Idle \in All
    BY Zenon DEF ThreadsAssumption, All
  <2> QED
    BY <1>1, <1>2, <1>3, <2>1, Zenon DEF IdleKept, IdleStack, ThreadsTypeOK
<1>7. OwnStacks'
  <2> SUFFICES ASSUME ~exited PROVE OwnStacks'
    BY <1>2, Zenon DEF OwnStacks
  <2>1. state[p] = "RUN" /\ p \in saved /\ rsp[p] = p /\ running = current_thread
    BY <1>1, Zenon DEF OwnStacks
  <2>2. state' = state /\ running' = p /\ saved' = (saved \cup {current_thread}) \ {p}
        /\ rsp' = [rsp EXCEPT ![current_thread] = current_thread]
    BY <1>3, <2>1, Zenon
  <2> QED
    BY <1>1, <1>2, <2>1, <2>2 DEF OwnStacks, ThreadsTypeOK
<1>8. ASSUME OneLevel, ~exited PROVE HasChain'
  <2>1. state[p] = "RUN" /\ state' = state
    BY <1>1, <1>3, <1>8, Zenon DEF OwnStacks
  <2>2. ~IsAwake(p) /\ \A s \in All : IsAwake(s)' <=> IsAwake(s) \/ s = p
    BY <1>1, <1>2, <2>1, Zenon DEF IsAwake
  <2> QED
    BY <1>2, <1>8, <2>2, ChainGrows, Zenon
<1> QED
  BY <1>2, <1>4, <1>5, <1>6, <1>7, <1>8, Zenon DEF OneLevel

\* wake_up_thread of a thread of a later level: with one level there is none.
LEMMA WakeBehindInv ==
  ASSUME ThreadsAssumption, IInv, stopped = "no", NEW p \in Threads, WakeBehind(p)
  PROVE  IInv'
<1> USE DEF IInv
<1>1. p \in All /\ p # current_thread /\ p \in suspended /\ state[p] # "INIT" /\ current_thread \in All
      /\ rsp[p] # null /\ null \notin All
  BY Zenon DEF WakeBehind, Wakes, All, ThreadsAssumption, ThreadsTypeOK, LeftBefore
<1>2. ~OneLevel
  <2>1. lvl[current_thread] < lvl[p] /\ lvl \in [All -> Nat]
    BY Zenon DEF WakeBehind, ThreadsTypeOK, ThreadsAssumption
  <2>2. CASE current_thread = Idle
    BY <2>1, <2>2 DEF ThreadsAssumption, ThreadsTypeOK, All
  <2>3. CASE current_thread \in Threads
    <3>1. lvl[current_thread] # lvl[p]
      BY <2>1, <1>1
    <3> QED
      BY <2>3, <3>1, Zenon DEF OneLevel
  <2> QED
    BY <2>2, <2>3, <1>1, Zenon DEF All
<1>3. CASE p = parent[current_thread]
  BY <1>2, <1>3, StopInv, Zenon DEF WakeBehind
<1>4. CASE p # parent[current_thread]
  <2>1. /\ parent' = [parent EXCEPT ![p] = parent[current_thread], ![current_thread] = p]
        /\ UNCHANGED <<lvl, state, rsp, suspended, current_thread, running, saved, exited, stopped>>
    BY <1>4, Zenon DEF WakeBehind
  <2>2. parent'[p] = parent[current_thread] /\ parent'[current_thread] = p
        /\ \A t \in All : t # p /\ t # current_thread => parent'[t] = parent[t]
    BY <1>1, <2>1, Zenon DEF ThreadsTypeOK
  <2>3. ThreadsTypeOK'
    BY <1>1, <2>1, Zenon DEF ThreadsTypeOK
  <2>4. LeftBefore'
    BY <1>1, <2>1, <2>2, Zenon DEF LeftBefore
  <2>5. IdleKept' /\ IdleStack'
    BY <2>1, Zenon DEF IdleKept, IdleStack
  <2>6. OwnStacks'
    <3> SUFFICES ASSUME ~exited PROVE OwnStacks'
      BY <2>1, Zenon DEF OwnStacks
    <3>1. state[p] = "RUN" /\ \A t \in All : parent[t] # null => state[parent[t]] = "RUN"
      BY <1>1, Zenon DEF OwnStacks
    <3>2. \A t \in All : parent'[t] # null => state[parent'[t]] = "RUN"
      BY <1>1, <2>2, <3>1, Zenon
    <3> QED
      BY <2>1, <3>2, Zenon DEF OwnStacks
  <2> QED
    BY <1>2, <2>1, <2>3, <2>4, <2>5, <2>6, Zenon DEF OneLevel
<1> QED
  BY <1>3, <1>4, Zenon

\* suspend_thread: with one level, no assert fails and the chain gets shorter.
LEMMA SuspendInv ==
  ASSUME ThreadsAssumption, IInv, stopped = "no", suspend_thread
  PROVE  IInv'
<1> USE DEF IInv
<1> DEFINE p == parent[current_thread]
<1>1. current_thread \in All /\ p \in All \cup {null} /\ null \notin All /\ running \in Threads
  BY Zenon DEF suspend_thread, ThreadsAssumption, ThreadsTypeOK
<1>2. ASSUME OneLevel, ~exited PROVE p \in All /\ p # current_thread /\ IsAwake(current_thread) /\ current_thread \in Threads
  <2>1. current_thread \in Threads
    BY <1>1, <1>2, Zenon DEF OwnStacks
  <2> QED
    BY <1>2, <2>1, ChainShrinks, Zenon
<1>3. CASE p = null
  BY <1>3, StopInv, Zenon DEF suspend_thread
<1>4. CASE p # null /\ (p = current_thread \/ current_thread \in suspended)
  <2>1. Stop("assert")
    BY <1>4, Zenon DEF suspend_thread
  <2>2. ~(OneLevel /\ ~exited)
    BY <1>2, <1>4, Zenon DEF IsAwake
  <2> QED
    BY <2>1, <2>2, StopInv, Zenon
<1>5. CASE p # null /\ p # current_thread /\ current_thread \notin suspended
  <2>1. /\ suspended' = suspended \cup {current_thread} /\ current_thread' = p
        /\ Switch(p, current_thread, TRUE)
        /\ lvl' = lvl /\ parent' = parent /\ exited' = exited /\ stopped' = stopped
    BY <1>5, Zenon DEF suspend_thread
  <2>2. p \in All /\ rsp[p] # null
    BY <1>1, <1>5, Zenon DEF LeftBefore
  <2> HIDE DEF p
  <2>3. /\ rsp' = [rsp EXCEPT ![current_thread] = running]
        /\ running' \in {p, rsp[p]} /\ running' \in All
        /\ saved' \subseteq All /\ saved \cup {running} \subseteq saved' \cup {running'}
        /\ state' \in [All -> {"INIT", "READY", "RUN", "DONE"}]
        /\ state[p] = "RUN" => state' = state /\ running' = rsp[p] /\ saved' = (saved \cup {running}) \ {rsp[p]}
    BY <1>1, <2>1, <2>2, SwitchTo, Zenon
  <2>4. ThreadsTypeOK'
    <3>1. current_thread \in Threads
      BY <1>1, Zenon DEF IdleStack, All, ThreadsAssumption
    <3>2. suspended' \subseteq Threads
      BY <2>1, <3>1, Zenon DEF ThreadsTypeOK
    <3> QED
      BY <1>1, <2>1, <2>2, <2>3, <3>2, Zenon DEF ThreadsTypeOK
  <2>5. LeftBefore'
    BY <1>1, <2>1, <2>3 DEF ThreadsTypeOK, LeftBefore
  <2>6. IdleKept' /\ IdleStack'
    BY <1>1, <2>1, <2>2, <2>3, Zenon DEF IdleKept, IdleStack, ThreadsTypeOK, All
  <2>7. ASSUME ~exited PROVE state[p] = "RUN" /\ p \in saved /\ rsp[p] = p /\ running = current_thread /\ state' = state
    BY <2>7, <1>1, <1>5, <2>2, <2>3, Zenon DEF OwnStacks, p
  <2>8. OwnStacks'
    <3> SUFFICES ASSUME ~exited PROVE OwnStacks'
      BY <2>1, Zenon DEF OwnStacks
    <3>1. running' = p /\ saved' = (saved \cup {current_thread}) \ {p}
          /\ rsp' = [rsp EXCEPT ![current_thread] = current_thread]
      BY <2>3, <2>7, Zenon
    <3> QED
      BY <1>1, <1>5, <2>1, <2>2, <2>7, <3>1 DEF OwnStacks, ThreadsTypeOK
  <2>9. ASSUME OneLevel, ~exited PROVE HasChain'
    <3>1. state' = state /\ current_thread \in Threads
      BY <1>2, <2>7, <2>9, Zenon
    <3>2. \A t \in All : IsAwake(t)' <=> IsAwake(t) /\ t # current_thread
      BY <2>1, <3>1, Zenon DEF IsAwake
    <3> QED
      BY <2>1, <2>9, <3>1, <3>2, ChainShrinks, Zenon DEF p
  <2> QED
    BY <2>1, <2>4, <2>5, <2>6, <2>8, <2>9, Zenon DEF OneLevel
<1> QED
  BY <1>3, <1>4, <1>5, Zenon

\* exit_thread: what follows is not promised, but every stack that control
\* may go to is known, and Idle's is kept.
LEMMA ExitInv ==
  ASSUME ThreadsAssumption, IInv, stopped = "no", exit_thread
  PROVE  IInv'
<1> USE DEF IInv
<1> DEFINE p == parent[current_thread]
<1>1. current_thread \in All /\ p \in All \cup {null} /\ null \notin All /\ running \in Threads
  BY Zenon DEF exit_thread, ThreadsAssumption, ThreadsTypeOK
<1>2. CASE p = null
  BY <1>2, StopInv, Zenon DEF exit_thread
<1>3. CASE p # null
  <2>1. p \in All /\ rsp[p] # null /\ rsp[p] \in All /\ running \in All
    BY <1>1, <1>3, Zenon DEF LeftBefore, ThreadsTypeOK
  <2>2. /\ state' = [[state EXCEPT ![current_thread] = "DONE"] EXCEPT ![p] = "RUN"]
        /\ thread_switch_first(p, current_thread) \/ thread_switch_to(p, current_thread)
        /\ exited' /\ lvl' = lvl /\ parent' = parent /\ suspended' = suspended
        /\ current_thread' = current_thread /\ stopped' = stopped /\ exited' \in BOOLEAN
    BY <1>3, Zenon DEF exit_thread
  <2> HIDE DEF p
  <2>3. /\ rsp' = [rsp EXCEPT ![current_thread] = running] /\ running' \in All
        /\ saved' \subseteq All /\ saved \cup {running} \subseteq saved' \cup {running'}
    BY <2>1, <2>2, Zenon DEF thread_switch_first, thread_switch_to, ThreadsTypeOK
  <2>4. state' \in [All -> {"INIT", "READY", "RUN", "DONE"}]
    BY <1>1, <2>1, <2>2, Zenon DEF ThreadsTypeOK
  <2>5. ThreadsTypeOK'
    BY <2>1, <2>2, <2>3, <2>4, Zenon DEF ThreadsTypeOK
  <2>6. LeftBefore'
    BY <1>1, <2>1, <2>2, <2>3 DEF ThreadsTypeOK, LeftBefore
  <2>7. current_thread # Idle
    BY <1>1, Zenon DEF IdleStack, ThreadsAssumption
  <2>8. IdleKept' /\ IdleStack'
    BY <1>1, <2>2, <2>3, <2>7, Zenon DEF IdleKept, IdleStack, ThreadsTypeOK, All
  <2>9. OwnStacks'
    BY <2>2, Zenon DEF OwnStacks
  <2> QED
    BY <2>2, <2>5, <2>6, <2>8, <2>9, Zenon
<1> QED
  BY <1>2, <1>3, Zenon

\* The inductive invariant of the thread calls.
THEOREM Invariance == ASSUME ThreadsAssumption PROVE ThreadsSpec => []IInv
<1>1. IInv /\ [ThreadsNext]_tvars => IInv'
  <2> SUFFICES ASSUME IInv, [ThreadsNext]_tvars PROVE IInv'
    BY Zenon
  <2>1. CASE UNCHANGED tvars
    <3>1. \A t : IsAwake(t)' <=> IsAwake(t)
      BY <2>1, Zenon DEF tvars, IsAwake
    <3>2. \A D, q : IsChain(q, D) => IsChain(q, D)'
      BY <2>1, <3>1, Zenon DEF tvars, IsChain
    <3>3. HasChain => HasChain'
      BY <3>2, Zenon DEF HasChain
    <3> QED
      BY <2>1, <3>3, Zenon DEF tvars, IInv, ThreadsTypeOK, LeftBefore, IdleStack, IdleKept, OwnStacks, OneLevel
  <2>2. ASSUME NEW t \in Threads, CreateFails(t) PROVE IInv'
    BY <2>2, StopInv, Zenon DEF CreateFails
  <2> QED
    BY <2>1, <2>2, CreateInv, WakeSwitchInv, WakeBehindInv, SuspendInv, ExitInv, Zenon DEF ThreadsNext
<1> QED
  BY <1>1, InitInv, PTL DEF ThreadsSpec

-----------------------------------------------------------------------------
\* A set of naturals that is not empty has a least element.
LEMMA Least ==
  ASSUME NEW T \in SUBSET Nat, T # {}
  PROVE  \E m \in T : \A k \in T : m <= k
<1>1. PICK m \in T : \A k \in T : ~(<<k, m>> \in OpToRel(<, Nat))
  BY NatLessThanWellFounded, WFMin, Zenon
<1> SUFFICES ASSUME NEW k \in T PROVE m <= k
  BY <1>1, Zenon
<1>2. ~(<<k, m>> \in OpToRel(<, Nat))
  BY <1>1, Zenon
<1>3. k \in Nat /\ m \in Nat
  BY <1>1, Zenon
<1>4. ~(k < m)
  BY <1>2, <1>3, Zenon DEF OpToRel
<1> QED
  BY <1>3, <1>4

\* A chain is no longer than there are threads.
LEMMA ChainFits ==
  ASSUME ThreadsAssumption, NEW D \in Nat, NEW q \in [0..D -> All], IsChain(q, D)
  PROVE  D + 1 \in Depths /\ Depths \subseteq Nat /\ \A i \in Depths : i # 0 => i - 1 \in Depths
<1>1. q \in Injection(0..D, All)
  BY Zenon DEF IsChain, Injection, IsInjective
<1>2. IsFiniteSet(All)
  BY FS_AddElement, Zenon DEF All, ThreadsAssumption
<1>3. Cardinality(0..D) <= Cardinality(All)
  BY <1>1, <1>2, FS_Injection, Zenon
<1>4. Cardinality(0..D) = D + 1
  <2>1. Cardinality(0..D) = IF 0 > D THEN 0 ELSE D - 0 + 1
    BY FS_Interval, 0 \in Int, D \in Int, Zenon
  <2> QED
    BY <2>1
<1>5. Cardinality(All) \in Nat
  BY <1>2, FS_CardinalityType, Zenon
<1> QED
  BY <1>3, <1>4, <1>5 DEF Depths

\* Going back along the parents meets the chain and then null.
LEMMA BackIsChain ==
  ASSUME ThreadsAssumption, ThreadsTypeOK, NEW D \in Nat, NEW q \in [0..D -> All], IsChain(q, D)
  PROVE  \A i \in Depths : Back[i] = IF i <= D THEN q[D - i] ELSE null
<1> DEFINE f == [i \in Depths |-> IF i <= D THEN q[D - i] ELSE null]
           Eq(g) == g = [i \in Depths |-> IF i = 0 THEN current_thread
                                          ELSE IF g[i - 1] = null THEN null ELSE parent[g[i - 1]]]
<1>1. D + 1 \in Depths /\ Depths \subseteq Nat /\ \A i \in Depths : i # 0 => i - 1 \in Depths
  BY ChainFits, Zenon
<1>2. \A i \in 0..D : q[i] \in All /\ q[i] # null
  BY Zenon DEF ThreadsAssumption
<1>3. Eq(f)
  <2> SUFFICES ASSUME NEW i \in Depths
               PROVE  f[i] = IF i = 0 THEN current_thread
                             ELSE IF f[i - 1] = null THEN null ELSE parent[f[i - 1]]
    BY Zenon
  <2>1. CASE i = 0
    BY <2>1 DEF IsChain
  <2>2. CASE i # 0 /\ i - 1 <= D
    <3> DEFINE j == D - (i - 1)
    <3>1. j \in 0..D /\ i - 1 \in Depths /\ f[i - 1] = q[j] /\ D - i = j - 1
      BY <2>2, <1>1
    <3>2. parent[q[j]] = IF j = 0 THEN null ELSE q[j - 1]
      BY <3>1 DEF IsChain
    <3>3. i <= D <=> j # 0
      BY <2>2, <1>1
    <3> HIDE DEF j
    <3> QED
      BY <2>2, <3>1, <3>2, <3>3, <1>2, Zenon
  <2>3. CASE i # 0 /\ ~(i - 1 <= D)
    BY <2>3, <1>1
  <2> QED
    BY <2>1, <2>2, <2>3, Zenon
<1>4. Back = CHOOSE g : Eq(g)
  BY Zenon DEF Back
<1> HIDE DEF f, Eq
<1>5. Eq(Back)
  BY <1>3, <1>4, Zenon
<1>6. \A i \in Depths : Back[i] = IF i = 0 THEN current_thread
                                  ELSE IF Back[i - 1] = null THEN null ELSE parent[Back[i - 1]]
  BY <1>5, Zenon DEF Eq
<1>7. \A i \in Depths : f[i] = IF i = 0 THEN current_thread
                               ELSE IF f[i - 1] = null THEN null ELSE parent[f[i - 1]]
  BY <1>3, Zenon DEF Eq
<1> DEFINE Bad == {i \in Depths : Back[i] # f[i]}
<1>8. ASSUME Bad # {} PROVE FALSE
  <2>1. PICK m \in Bad : \A k \in Bad : m <= k
    BY <1>1, <1>8, Least, Zenon
  <2>2. m # 0
    BY <2>1, <1>6, <1>7, Zenon
  <2>3. m - 1 \in Depths /\ m - 1 \notin Bad
    BY <2>1, <2>2, <1>1
  <2> QED
    BY <2>1, <2>2, <2>3, <1>6, <1>7, Zenon
<1> QED
  BY <1>8, Zenon DEF f

\* For any threads and any levels: types; while no thread returns a switch
\* goes only to a stack somebody waits on and leaves none behind, and with
\* one level in use the chain of parents holds the awake threads and no other
\* and no assert of suspend_thread or wake_up_thread fails; and in any case
\* the stack of Idle is kept.
THEOREM Safe == ASSUME ThreadsAssumption PROVE ThreadsSpec => []ThreadsSafe
<1>1. IInv => ThreadsSafe
  <2> SUFFICES ASSUME IInv PROVE ThreadsSafe
    BY Zenon
  <2>1. ChainIsAwake
    <3> SUFFICES ASSUME OneLevel, ~exited
                 PROVE  Waiting = {null} \cup {t \in All \ suspended : state[t] = "RUN"}
      BY Zenon DEF ChainIsAwake
    <3>1. ThreadsTypeOK /\ HasChain
      BY Zenon DEF IInv
    <3>2. PICK D \in Nat : \E q \in [0..D -> All] : IsChain(q, D)
      BY <3>1, Zenon DEF HasChain
    <3>3. PICK q \in [0..D -> All] : IsChain(q, D)
      BY <3>2, Zenon
    <3>4. \A i \in Depths : Back[i] = IF i <= D THEN q[D - i] ELSE null
      BY <3>1, <3>3, BackIsChain, Zenon
    <3>5. D + 1 \in Depths /\ Depths \subseteq Nat /\ Depths = 0..Cardinality(All) /\ Cardinality(All) \in Nat
      <4>1. IsFiniteSet(All)
        BY FS_AddElement, Zenon DEF All, ThreadsAssumption
      <4> QED
        BY <3>3, <4>1, ChainFits, FS_CardinalityType, Zenon DEF Depths
    <3>6. ASSUME NEW x \in Waiting PROVE x = null \/ (x \in All /\ IsAwake(x))
      <4>1. PICK i \in Depths : x = Back[i]
        BY Zenon DEF Waiting
      <4>2. CASE i <= D
        <5>1. D - i \in 0..D
          BY <3>5, <4>2
        <5> QED
          BY <3>3, <3>4, <4>1, <4>2, <5>1, Zenon DEF IsChain
      <4>3. CASE ~(i <= D)
        BY <3>4, <4>1, <4>3, Zenon
      <4> QED
        BY <4>2, <4>3, Zenon
    <3>7. null \in Waiting
      <4>1. Back[D + 1] = null
        BY <3>4, <3>5
      <4> QED
        BY <3>5, <4>1, Zenon DEF Waiting
    <3>8. ASSUME NEW x \in All, IsAwake(x) PROVE x \in Waiting
      <4>1. PICK j \in 0..D : q[j] = x
        BY <3>3, <3>8, Zenon DEF IsChain
      <4>2. D - j \in Depths /\ D - j <= D /\ D - (D - j) = j
        BY <3>5, <4>1
      <4>3. Back[D - j] = x
        BY <3>4, <4>1, <4>2, Zenon
      <4> QED
        BY <4>2, <4>3, Zenon DEF Waiting
    <3> HIDE DEF Waiting
    <3> QED
      BY <3>6, <3>7, <3>8, Zenon DEF IsAwake
  <2>2. StacksConserved
    <3> SUFFICES ASSUME ~exited
                 PROVE  /\ saved \cup {running} = {t \in All : state[t] = "RUN"} /\ running \notin saved
                        /\ running = current_thread
                        /\ \A t \in saved : rsp[t] = t
      BY Zenon DEF StacksConserved
    <3>1. saved \subseteq All /\ current_thread \in All
      BY Zenon DEF IInv, ThreadsTypeOK
    <3> QED
      BY <3>1 DEF IInv, OwnStacks
  <2>3. ThreadsTypeOK /\ IdleKept /\ AssertsHoldOneLevel
    BY Zenon DEF IInv, AssertsHoldOneLevel
  <2> QED
    BY <2>1, <2>2, <2>3, Zenon DEF ThreadsSafe
<1> QED
  BY <1>1, Invariance, PTL
=============================================================================
