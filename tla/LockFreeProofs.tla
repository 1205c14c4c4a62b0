--------------------------- MODULE LockFreeProofs ---------------------------
(***************************************************************************)
(* Proofs about the code that several processors run without a lock: the   *)
(* counters of asm/atomic.h (Atomic), which implement AtomicObject, and    *)
(* the page bitmap of phymem.c (PhyMem), in which no page has two owners.  *)
(***************************************************************************)
EXTENDS Atomic, PhyMem, FiniteSetTheorems, WellFoundedInduction, TLAPS

-----------------------------------------------------------------------------
(* Atomic, for every set of processors, every set of calls and every width *)
(* of a long: every operation, the retry loops included, takes effect at   *)
(* one moment.                                                             *)

\* A call in progress, and a value that is there or not yet.
AtomicCalls == {<<>>} \cup {<<o>> : o \in Ops}
Maybe == {<<>>} \cup {<<v>> : v \in Int}

AtomicTypeOK ==
  /\ counter \in Int
  /\ todo \in [Cpus -> AtomicCalls]
  /\ c0 \in [Cpus -> Maybe]
  /\ ret \in [Cpus -> Maybe]

\* The loop leaves for the value v.
Stops(o, v) == IF o.f = "add_unless" THEN v = o.u ELSE v - 1 < 0

\* A processor that has read the counter is in a retry loop, has no answer, and
\* has found that the loop goes on for what it read.
LoopsOK ==
  \A c \in Cpus : c0[c] # <<>> =>
    /\ todo[c] # <<>> /\ ret[c] = <<>>
    /\ todo[c][1].f \in loops
    /\ ~Stops(todo[c][1], c0[c][1])

AtomicIInv == AtomicTypeOK /\ LoopsOK

-----------------------------------------------------------------------------
\* The tuples of one element that stand for a value that is there.
LEMMA Present ==
  /\ \A x : <<x>> # <<>> /\ <<x>>[1] = x
  /\ \A m \in Maybe : m # <<>> => m[1] \in Int /\ m = <<m[1]>>
  /\ \A k \in AtomicCalls : k # <<>> => k[1] \in Ops /\ k = <<k[1]>>
  BY DEF Maybe, AtomicCalls

\* A 64-bit addition gives an integer.
LEMMA LongInt == ASSUME NEW x \in Int PROVE long(x) \in Int
  BY LongsAssumption DEF long

\* What a locked instruction leaves and what its function returns.
Leaves(r, new, x) == r.new = new /\ r.ret = x /\ new \in Int /\ x \in Int

LEMMA Effects ==
  ASSUME counter \in Int, NEW o, o.i \in Int, o.u \in Int
  PROVE  LET sum == Object!Wrap(counter + o.i)
             diff == Object!Wrap(counter - o.i)
             more == Object!Wrap(counter + 1)
             less == Object!Wrap(counter - 1)
         IN
           /\ Leaves(atomic_set(o.i), o.i, 0)
           /\ Leaves(atomic_read, counter, counter)
           /\ Leaves(atomic_add(o.i), sum, 0)
           /\ Leaves(atomic_sub(o.i), diff, 0)
           /\ Leaves(atomic_inc, more, 0)
           /\ Leaves(atomic_dec, less, 0)
           /\ Leaves(atomic_sub_and_test(o.i), diff, Object!Truth(diff = 0))
           /\ Leaves(atomic_dec_and_test, less, Object!Truth(less = 0))
           /\ Leaves(atomic_inc_and_test, more, Object!Truth(more = 0))
           /\ Leaves(atomic_add_negative(o.i), sum, Object!Truth(sum < 0))
           /\ Leaves(atomic_add_return(o.i), sum, sum)
           /\ Leaves(atomic_sub_return(o.i), diff, diff)
           /\ Leaves(atomic_cmpxchg(o.u, o.i), (IF counter = o.u THEN o.i ELSE counter), counter)
           /\ Leaves(atomic_xchg(o.i), o.i, counter)
<1>1. \A x \in Int : long(x) \in Int /\ Object!Wrap(x) = long(x)
  BY LongInt, Zenon DEF long, Object!Wrap
<1>2. /\ counter + (0 - o.i) = counter - o.i /\ (0 - o.i) + counter = counter - o.i
      /\ o.i + counter = counter + o.i /\ counter + (0 - 1) = counter - 1
  OBVIOUS
<1>3. /\ counter + o.i \in Int /\ counter - o.i \in Int /\ counter + 1 \in Int /\ counter - 1 \in Int
      /\ 0 - o.i \in Int
  OBVIOUS
<1> QED
  BY <1>1, <1>2, <1>3
  DEF Leaves, Object!Truth, bool, addq, atomic_set, atomic_read, atomic_add, atomic_sub, atomic_inc,
      atomic_dec, atomic_sub_and_test, atomic_dec_and_test, atomic_inc_and_test, atomic_add_negative,
      xadd, xchg, cmpxchg, atomic_add_return, atomic_sub_return, atomic_cmpxchg, atomic_xchg

\* One locked instruction is the step its call promises.
LEMMA InstructionActs ==
  ASSUME AtomicTypeOK, NEW c \in Cpus, Instruction(c)
  PROVE  /\ Object!Act(c)
         /\ counter' \in Int /\ ret' \in [Cpus -> Maybe]
<1> DEFINE o == todo[c][1]
           Acts(new, x) == Object!Becomes(c, new, x) /\ counter' \in Int /\ ret' \in [Cpus -> Maybe]
<1>1. o \in Ops /\ o.i \in Int /\ o.u \in Int
  BY Present, OpsAssumption DEF AtomicTypeOK, Instruction
<1>2. todo[c] # <<>> /\ ret[c] = <<>> /\ todo' = todo /\ counter \in Int
  BY Zenon DEF AtomicTypeOK, Instruction
<1>3. ASSUME NEW r, NEW new, NEW x, Does(c, r), Leaves(r, new, x)
      PROVE  Acts(new, x)
  BY <1>3, Zenon DEF Does, Leaves, Object!Becomes, AtomicTypeOK, Maybe
<1>4. CASE o.f = "set"
  <2>1. Acts(o.i, 0)
    BY <1>1, <1>2, <1>3, <1>4, Effects, Zenon DEF Instruction
  <2> QED
    BY <1>2, <1>4, <2>1, Zenon DEF Object!Act
<1>5. CASE o.f = "read"
  <2>1. Acts(counter, counter)
    BY <1>1, <1>2, <1>3, <1>5, Effects, Zenon DEF Instruction
  <2> QED
    BY <1>2, <1>5, <2>1, Zenon DEF Object!Act
<1>6. CASE o.f = "add"
  <2>1. Acts(Object!Wrap(counter + o.i), 0)
    BY <1>1, <1>2, <1>3, <1>6, Effects, Zenon DEF Instruction
  <2> QED
    BY <1>2, <1>6, <2>1, Zenon DEF Object!Act
<1>7. CASE o.f = "sub"
  <2>1. Acts(Object!Wrap(counter - o.i), 0)
    BY <1>1, <1>2, <1>3, <1>7, Effects, Zenon DEF Instruction
  <2> QED
    BY <1>2, <1>7, <2>1, Zenon DEF Object!Act
<1>8. CASE o.f = "inc"
  <2>1. Acts(Object!Wrap(counter + 1), 0)
    BY <1>1, <1>2, <1>3, <1>8, Effects, Zenon DEF Instruction
  <2> QED
    BY <1>2, <1>8, <2>1, Zenon DEF Object!Act
<1>9. CASE o.f = "dec"
  <2>1. Acts(Object!Wrap(counter - 1), 0)
    BY <1>1, <1>2, <1>3, <1>9, Effects, Zenon DEF Instruction
  <2> QED
    BY <1>2, <1>9, <2>1, Zenon DEF Object!Act
<1>10. CASE o.f = "sub_and_test"
  <2>1. Acts(Object!Wrap(counter - o.i), Object!Truth(Object!Wrap(counter - o.i) = 0))
    BY <1>1, <1>2, <1>3, <1>10, Effects, Zenon DEF Instruction
  <2> QED
    BY <1>2, <1>10, <2>1, Zenon DEF Object!Act
<1>11. CASE o.f = "dec_and_test"
  <2>1. Acts(Object!Wrap(counter - 1), Object!Truth(Object!Wrap(counter - 1) = 0))
    BY <1>1, <1>2, <1>3, <1>11, Effects, Zenon DEF Instruction
  <2> QED
    BY <1>2, <1>11, <2>1, Zenon DEF Object!Act
<1>12. CASE o.f = "inc_and_test"
  <2>1. Acts(Object!Wrap(counter + 1), Object!Truth(Object!Wrap(counter + 1) = 0))
    BY <1>1, <1>2, <1>3, <1>12, Effects, Zenon DEF Instruction
  <2> QED
    BY <1>2, <1>12, <2>1, Zenon DEF Object!Act
<1>13. CASE o.f = "add_negative"
  <2>1. Acts(Object!Wrap(counter + o.i), Object!Truth(Object!Wrap(counter + o.i) < 0))
    BY <1>1, <1>2, <1>3, <1>13, Effects, Zenon DEF Instruction
  <2> QED
    BY <1>2, <1>13, <2>1, Zenon DEF Object!Act
<1>14. CASE o.f = "add_return"
  <2>1. Acts(Object!Wrap(counter + o.i), Object!Wrap(counter + o.i))
    BY <1>1, <1>2, <1>3, <1>14, Effects, Zenon DEF Instruction
  <2> QED
    BY <1>2, <1>14, <2>1, Zenon DEF Object!Act
<1>15. CASE o.f = "sub_return"
  <2>1. Acts(Object!Wrap(counter - o.i), Object!Wrap(counter - o.i))
    BY <1>1, <1>2, <1>3, <1>15, Effects, Zenon DEF Instruction
  <2> QED
    BY <1>2, <1>15, <2>1, Zenon DEF Object!Act
<1>16. CASE o.f = "cmpxchg"
  <2>1. Acts(IF counter = o.u THEN o.i ELSE counter, counter)
    BY <1>1, <1>2, <1>3, <1>16, Effects, Zenon DEF Instruction
  <2> QED
    BY <1>2, <1>16, <2>1, Zenon DEF Object!Act
<1>17. CASE o.f = "xchg"
  <2>1. Acts(o.i, counter)
    BY <1>1, <1>2, <1>3, <1>17, Effects, Zenon DEF Instruction
  <2> QED
    BY <1>2, <1>17, <2>1, Zenon DEF Object!Act
<1> QED
  BY <1>4, <1>5, <1>6, <1>7, <1>8, <1>9, <1>10, <1>11, <1>12, <1>13, <1>14, <1>15, <1>16, <1>17, Zenon DEF Instruction

-----------------------------------------------------------------------------
\* The top of a retry loop, on the value the processor found: the call is over
\* and has not touched the counter, or nothing is seen from outside.
LEMMA LoopTopActs ==
  ASSUME AtomicIInv, NEW c \in Cpus, todo[c] # <<>>, ret[c] = <<>>, todo[c][1].f \in loops,
         LoopTop(c, counter), counter' = counter, todo' = todo
  PROVE  /\ Object!Act(c) \/ UNCHANGED Object!ovars
         /\ AtomicIInv'
<1> DEFINE o == todo[c][1]
           stop == Stops(o, counter)
           left == IF o.f = "add_unless" THEN 0 ELSE counter - 1
<1>1. o \in Ops /\ o.i \in Int /\ o.u \in Int /\ counter \in Int
  BY Present, OpsAssumption DEF AtomicIInv, AtomicTypeOK
<1>2. /\ ret' = [ret EXCEPT ![c] = IF stop THEN <<left>> ELSE <<>>]
      /\ c0' = [c0 EXCEPT ![c] = IF stop THEN <<>> ELSE <<counter>>]
  BY Zenon DEF LoopTop, Stops
<1>3. left \in Int
  BY <1>1
<1>4. AtomicTypeOK'
  BY <1>1, <1>2, <1>3, Zenon DEF AtomicIInv, AtomicTypeOK, Maybe
<1>5. LoopsOK'
  <2> SUFFICES ASSUME NEW d \in Cpus, c0'[d] # <<>>
               PROVE  /\ todo[d] # <<>> /\ ret'[d] = <<>>
                      /\ todo[d][1].f \in loops
                      /\ ~Stops(todo[d][1], c0'[d][1])
    BY Zenon DEF LoopsOK, Stops
  <2>1. CASE d # c
    <3>1. c0'[d] = c0[d] /\ ret'[d] = ret[d]
      BY <1>2, <2>1, Zenon DEF AtomicIInv, AtomicTypeOK
    <3> QED
      BY <3>1, Zenon DEF AtomicIInv, LoopsOK
  <2>2. CASE d = c
    <3>1. ~stop
      BY <1>2, <2>2, Zenon DEF AtomicIInv, AtomicTypeOK
    <3>2. c0'[c] = <<counter>> /\ ret'[c] = <<>>
      BY <1>2, <3>1, Zenon DEF AtomicIInv, AtomicTypeOK
    <3>3. c0'[c][1] = counter
      BY <3>2
    <3> HIDE DEF stop
    <3> QED
      BY <2>2, <3>1, <3>2, <3>3, Zenon DEF stop
  <2> QED
    BY <2>1, <2>2, Zenon
<1>6. CASE stop
  <2>1. Object!Becomes(c, counter, left)
    BY <1>2, <1>6, Zenon DEF Object!Becomes
  <2>2. ASSUME o.f = "add_unless" PROVE Object!Act(c)
    <3>1. counter = o.u /\ left = 0
      BY <1>6, <2>2, Zenon DEF Stops
    <3>2. Object!Becomes(c, counter, 0)
      BY <2>1, <3>1, Zenon
    <3> QED
      BY <2>2, <3>1, <3>2, Zenon DEF Object!Act
  <2>3. ASSUME o.f = "dec_if_positive" PROVE Object!Act(c)
    <3>1. (IF counter >= 1 THEN counter - 1 ELSE counter) = counter /\ left = counter - 1
      BY <1>1, <1>6, <2>3 DEF Stops
    <3>2. Object!Becomes(c, IF counter >= 1 THEN counter - 1 ELSE counter, counter - 1)
      BY <2>1, <3>1, Zenon
    <3> QED
      BY <2>3, <3>2, Zenon DEF Object!Act
  <2>4. Object!Act(c)
    BY <2>2, <2>3, Zenon DEF loops
  <2> QED
    BY <1>4, <1>5, <2>4, Zenon DEF AtomicIInv
<1>7. CASE ~stop
  <2>1. ret' = ret
    BY <1>2, <1>7, Zenon DEF AtomicIInv, AtomicTypeOK
  <2> QED
    BY <1>4, <1>5, <2>1, Zenon DEF AtomicIInv, Object!ovars
<1> QED
  BY <1>6, <1>7, Zenon

\* The cmpxchg of a retry loop: it finds what was read, and the call acts here,
\* or it finds another value, and the loop is at its top with that one.
LEMMA LoopCasActs ==
  ASSUME AtomicIInv, NEW c \in Cpus, LoopCas(c)
  PROVE  /\ Object!Act(c) \/ UNCHANGED Object!ovars
         /\ AtomicIInv'
<1> DEFINE o == todo[c][1]
           v == c0[c][1]
           new == IF o.f = "add_unless" THEN long(v + o.i) ELSE v - 1
           x == IF o.f = "add_unless" THEN 1 ELSE v - 1
<1>1. c0[c] # <<>> /\ todo' = todo
  BY Zenon DEF LoopCas
<1>2. todo[c] # <<>> /\ ret[c] = <<>> /\ o.f \in loops /\ ~Stops(o, v)
  BY <1>1, Zenon DEF AtomicIInv, LoopsOK
<1>3. o \in Ops /\ o.i \in Int /\ o.u \in Int /\ counter \in Int /\ v \in Int
  BY <1>1, <1>2, Present, OpsAssumption DEF AtomicIInv, AtomicTypeOK
<1>4. CASE counter = v
  <2>1. counter' = new /\ ret' = [ret EXCEPT ![c] = <<x>>] /\ c0' = [c0 EXCEPT ![c] = <<>>]
    BY <1>4, Zenon DEF LoopCas, atomic_cmpxchg, cmpxchg
  <2>2. long(v + o.i) \in Int /\ Object!Wrap(counter + o.i) = long(v + o.i)
    BY <1>3, <1>4, LongInt DEF long, Object!Wrap
  <2>3. AtomicTypeOK'
    <3>1. new \in Int /\ x \in Int
      BY <1>3, <2>2
    <3> QED
      BY <1>1, <2>1, <3>1, Zenon DEF AtomicIInv, AtomicTypeOK, Maybe
  <2>4. LoopsOK'
    <3> SUFFICES ASSUME NEW d \in Cpus, c0'[d] # <<>>
                 PROVE  /\ todo[d] # <<>> /\ ret'[d] = <<>>
                        /\ todo[d][1].f \in loops
                        /\ ~Stops(todo[d][1], c0'[d][1])
      BY <1>1, Zenon DEF LoopsOK, Stops
    <3>1. d # c /\ c0'[d] = c0[d] /\ ret'[d] = ret[d]
      BY <2>1, Zenon DEF AtomicIInv, AtomicTypeOK
    <3> QED
      BY <3>1, Zenon DEF AtomicIInv, LoopsOK
  <2>5. ASSUME o.f = "add_unless" PROVE Object!Act(c)
    <3>1. counter # o.u /\ new = Object!Wrap(counter + o.i) /\ x = 1
      BY <1>2, <1>4, <2>2, <2>5, Zenon DEF Stops
    <3>2. Object!Becomes(c, Object!Wrap(counter + o.i), 1)
      BY <2>1, <3>1, Zenon DEF Object!Becomes
    <3> QED
      BY <1>1, <1>2, <2>5, <3>1, <3>2, Zenon DEF Object!Act
  <2>6. ASSUME o.f = "dec_if_positive" PROVE Object!Act(c)
    <3>1. new = (IF counter >= 1 THEN counter - 1 ELSE counter) /\ x = counter - 1
      BY <1>2, <1>3, <1>4, <2>6 DEF Stops
    <3>2. Object!Becomes(c, IF counter >= 1 THEN counter - 1 ELSE counter, counter - 1)
      BY <2>1, <3>1, Zenon DEF Object!Becomes
    <3> QED
      BY <1>1, <1>2, <2>6, <3>2, Zenon DEF Object!Act
  <2> QED
    BY <1>2, <2>3, <2>4, <2>5, <2>6, Zenon DEF AtomicIInv, loops
<1>5. CASE counter # v
  <2>1. counter' = counter /\ LoopTop(c, counter)
    BY <1>5, Zenon DEF LoopCas, atomic_cmpxchg, cmpxchg
  <2> QED
    BY <1>1, <1>2, <2>1, LoopTopActs, Zenon
<1> QED
  BY <1>4, <1>5, Zenon

-----------------------------------------------------------------------------
\* Every step keeps the invariant and is a step, or no step, of the object.
LEMMA StepActs ==
  ASSUME AtomicIInv, [AtomicNext]_avars
  PROVE  AtomicIInv' /\ [Object!ObjectNext]_Object!ovars
<1>1. ASSUME NEW c \in Cpus, AtomicCall(c)
      PROVE  AtomicIInv' /\ Object!Invoke(c)
  <2>1. PICK o \in Ops : todo' = [todo EXCEPT ![c] = <<o>>]
    BY <1>1, Zenon DEF AtomicCall
  <2>2. todo[c] = <<>> /\ UNCHANGED <<counter, c0, ret>>
    BY <1>1, Zenon DEF AtomicCall
  <2>3. AtomicTypeOK'
    BY <2>1, <2>2, Zenon DEF AtomicIInv, AtomicTypeOK, AtomicCalls
  <2>4. LoopsOK'
    <3> SUFFICES ASSUME NEW d \in Cpus, c0[d] # <<>>
                 PROVE  todo'[d] = todo[d]
      BY <2>2, Zenon DEF AtomicIInv, LoopsOK, Stops
    <3> QED
      BY <2>1, <2>2, Zenon DEF AtomicIInv, LoopsOK, AtomicTypeOK
  <2> QED
    BY <2>1, <2>2, <2>3, <2>4, Zenon DEF AtomicIInv, Object!Invoke
<1>2. ASSUME NEW c \in Cpus, Instruction(c)
      PROVE  AtomicIInv' /\ Object!Act(c)
  <2>1. Object!Act(c) /\ counter' \in Int /\ ret' \in [Cpus -> Maybe] /\ UNCHANGED <<todo, c0>>
    BY <1>2, InstructionActs, Zenon DEF AtomicIInv, Instruction
  <2>2. AtomicTypeOK'
    BY <2>1, Zenon DEF AtomicIInv, AtomicTypeOK
  <2>3. todo[c][1].f \notin loops
    BY <1>2, Zenon DEF Instruction, loops
  <2>4. \A d \in Cpus : d # c => ret'[d] = ret[d]
    BY <1>2, Zenon DEF Instruction, Does, AtomicIInv, AtomicTypeOK
  <2>5. LoopsOK'
    BY <2>1, <2>3, <2>4, Zenon DEF AtomicIInv, LoopsOK, Stops
  <2> QED
    BY <2>1, <2>2, <2>5, Zenon DEF AtomicIInv
<1>3. ASSUME NEW c \in Cpus, LoopRead(c)
      PROVE  AtomicIInv' /\ (Object!Act(c) \/ UNCHANGED Object!ovars)
  BY <1>3, LoopTopActs, Zenon DEF LoopRead
<1>4. ASSUME NEW c \in Cpus, LoopCas(c)
      PROVE  AtomicIInv' /\ (Object!Act(c) \/ UNCHANGED Object!ovars)
  BY <1>4, LoopCasActs, Zenon
<1>5. ASSUME NEW c \in Cpus, AtomicReturn(c)
      PROVE  AtomicIInv' /\ Object!Return(c)
  <2>1. /\ todo' = [todo EXCEPT ![c] = <<>>] /\ ret' = [ret EXCEPT ![c] = <<>>]
        /\ ret[c] # <<>> /\ UNCHANGED <<counter, c0>>
    BY <1>5, Zenon DEF AtomicReturn
  <2>2. AtomicTypeOK'
    BY <2>1, Zenon DEF AtomicIInv, AtomicTypeOK, AtomicCalls, Maybe
  <2>3. LoopsOK'
    <3> SUFFICES ASSUME NEW d \in Cpus, c0[d] # <<>>
                 PROVE  todo'[d] = todo[d] /\ ret'[d] = ret[d]
      BY <2>1, Zenon DEF AtomicIInv, LoopsOK, Stops
    <3> QED
      BY <2>1, Zenon DEF AtomicIInv, LoopsOK, AtomicTypeOK
  <2> QED
    BY <2>1, <2>2, <2>3, Zenon DEF AtomicIInv, Object!Return
<1>6. CASE UNCHANGED avars
  BY <1>6, Zenon DEF avars, Object!ovars, AtomicIInv, AtomicTypeOK, LoopsOK, Stops
<1> QED
  BY <1>1, <1>2, <1>3, <1>4, <1>5, <1>6, Zenon DEF AtomicNext, Object!ObjectNext

\* The operations of asm/atomic.h are linearizable: each call acts on the
\* counter in one step between its invocation and its return and returns what
\* that step saw, for any number of processors and calls and any width of a
\* long.
THEOREM Linearizable == AtomicSpec => ActsAtomically
<1>1. AtomicInit => AtomicIInv /\ Object!ObjectInit
  BY DEF AtomicInit, AtomicIInv, AtomicTypeOK, LoopsOK, AtomicCalls, Maybe, Object!ObjectInit
<1>2. AtomicIInv /\ [AtomicNext]_avars => AtomicIInv' /\ [Object!ObjectNext]_Object!ovars
  BY StepActs, Zenon
<1> QED
  BY <1>1, <1>2, PTL DEF AtomicSpec, ActsAtomically, Object!ObjectSpec

-----------------------------------------------------------------------------
(* PhyMem, for every number of CPUs, every bitmap and every set of usable  *)
(* pages.                                                                  *)

\* A call that puts pages back stands at a usable page and has at least that
\* one left.
Freeing(k) == k.pc \in {"set", "inc", "incstore"} => k.left >= 1 /\ k.bit \in Usable

LeftOK == \A c \in CPUs : Freeing(call[c])

IInv == TypeOK /\ PageHasOneOwner /\ LeftOK

-----------------------------------------------------------------------------
\* A non-empty set of pages has a smallest one.
LEMMA MinIn ==
  ASSUME NEW S \in SUBSET Nat, S # {}
  PROVE  Min(S) \in S
<1>1. PICK x \in S : \A y \in S : ~(<<y, x>> \in OpToRel(<, Nat))
  BY NatLessThanWellFounded, WFMin, Zenon
<1>2. \A y \in S : x <= y
  <2> SUFFICES ASSUME NEW y \in S, y < x PROVE FALSE
    BY SMT
  <2>1. <<y, x>> \in {p \in Nat \X Nat : p[1] < p[2]}
    BY Zenon
  <2> QED
    BY <1>1, <2>1, Zenon DEF OpToRel
<1> QED
  BY <1>1, <1>2, Zenon DEF Min

\* ffs returns a usable page or none.
LEMMA ffsType ==
  ASSUME TypeOK, NEW v
  PROVE  ffs(v) \in Usable \cup {NoBit}
<1> DEFINE low == {b \in Word(v) : b % WORD < INT}
<1>1. low \subseteq Usable /\ low \in SUBSET Nat
  <2>1. low \subseteq Word(v)
    BY Zenon
  <2>2. Word(v) \subseteq pgbits
    BY Zenon DEF Word
  <2>3. pgbits \subseteq Usable
    BY Zenon DEF TypeOK
  <2>4. Usable \subseteq Nat
    BY PhyMemAssumption
  <2> HIDE DEF low
  <2> QED
    BY <2>1, <2>2, <2>3, <2>4, Zenon
<1>2. CASE low = {}
  BY <1>2, Zenon DEF ffs
<1>3. CASE low # {}
  BY <1>1, <1>3, MinIn, Zenon DEF ffs
<1> QED
  BY <1>2, <1>3, Zenon

\* A call's step hands pages around among the bitmap, the callers and itself:
\* if the three still are the same pages and disjoint, every page has one owner.
LEMMA OwnStep ==
  ASSUME call \in [CPUs -> Calls], PageHasOneOwner, NEW c \in CPUs, NEW k \in Calls,
         call' = [call EXCEPT ![c] = k],
         pgbits' \cup owned' \cup HeldBy(k) = pgbits \cup owned \cup HeldBy(call[c]),
         pgbits' \cap owned' = {}, HeldBy(k) \cap (pgbits' \cup owned') = {}
  PROVE  PageHasOneOwner'
<1>1. /\ Held(c)' = HeldBy(k)
      /\ \A d \in CPUs : d # c => Held(d)' = Held(d)
  BY Zenon DEF Held
<1> DEFINE X == pgbits \cup owned \cup Held(c)
<1>2. X = pgbits' \cup owned' \cup Held(c)'
  BY <1>1, Zenon DEF Held
<1>3. \A d \in CPUs : d # c => Held(d) \cap X = {}
  BY Zenon DEF PageHasOneOwner
<1>4. \A d \in CPUs : Held(d)' \cap (pgbits' \cup owned') = {}
  BY <1>1, <1>2, <1>3, Zenon
<1>5. \A d, e \in CPUs : d # e => Held(d)' \cap Held(e)' = {}
  <2> SUFFICES ASSUME NEW d \in CPUs, NEW e \in CPUs, d # e PROVE Held(d)' \cap Held(e)' = {}
    BY Zenon
  <2>1. CASE d # c /\ e # c
    BY <2>1, <1>1, Zenon DEF PageHasOneOwner
  <2>2. CASE d = c
    BY <2>2, <1>1, <1>2, <1>3, Zenon
  <2>3. CASE e = c
    BY <2>3, <1>1, <1>2, <1>3, Zenon
  <2> QED
    BY <2>1, <2>2, <2>3, Zenon
<1>6. pgbits' \cup owned' \cup UNION {Held(d)' : d \in CPUs} = Usable
  <2> DEFINE Others == UNION {Held(d) : d \in CPUs \ {c}}
  <2>1. UNION {Held(d) : d \in CPUs} = Others \cup Held(c)
    BY Zenon
  <2>2. UNION {Held(d)' : d \in CPUs} = Others \cup Held(c)'
    <3>1. \A d \in CPUs \ {c} : Held(d)' = Held(d)
      BY <1>1, Zenon
    <3> QED
      BY <3>1, Zenon
  <2>3. pgbits \cup owned \cup UNION {Held(d) : d \in CPUs} = Usable
    BY Zenon DEF PageHasOneOwner
  <2> HIDE DEF Others
  <2> QED
    BY <2>1, <2>2, <2>3, <1>2, Zenon
<1> QED
  BY <1>4, <1>5, <1>6, Zenon DEF PageHasOneOwner

\* A step of a call that moves no page and gives the call another record.
LEMMA QuietStep ==
  ASSUME IInv, NEW c \in CPUs, NEW k \in Calls, call' = [call EXCEPT ![c] = k],
         pgbits' = pgbits, owned' = owned, HeldBy(k) = HeldBy(call[c]),
         Freeing(k),
         pnow' \in Nat, pages' \in 0..(ULONG - 1), alone' \in BOOLEAN
  PROVE  IInv'
<1>1. call \in [CPUs -> Calls] /\ call' \in [CPUs -> Calls]
  BY Zenon DEF IInv, TypeOK
<1>2. TypeOK'
  BY <1>1, Zenon DEF IInv, TypeOK
<1>3. LeftOK'
  BY <1>1, Zenon DEF IInv, LeftOK, Freeing
<1>4. HeldBy(call[c]) \cap (pgbits \cup owned) = {} /\ pgbits \cap owned = {}
  BY Zenon DEF IInv, PageHasOneOwner, Held
<1>5. PageHasOneOwner'
  BY <1>1, <1>4, OwnStep, Zenon DEF IInv
<1> QED
  BY <1>2, <1>3, <1>5, Zenon DEF IInv

\* A call that holds no page, before and after the step.
LEMMA EmptyHeld ==
  ASSUME NEW k, k.pc \notin {"dec", "decstore", "set", "inc", "incstore"}
  PROVE  HeldBy(k) = {}
  BY Zenon DEF HeldBy

LEMMA IdleCall ==
  \A p \in Points : [Idle EXCEPT !.pc = p] \in Calls /\ [Idle EXCEPT !.pc = p].pc = p
  BY PhyMemAssumption DEF Idle, Calls, Points

\* The scan of get_none_zero moves no page.
LEMMA LookStep ==
  ASSUME IInv, NEW c \in CPUs, NEW v \in Nat, NEW pos \in Nat, NEW else \in {"up", "low"},
         Look(c, v, pos, else), HeldBy(call[c]) = {},
         pgbits' = pgbits, owned' = owned, pages' = pages, alone' = alone, pnow' \in Nat
  PROVE  IInv'
<1> DEFINE p == CASE v > pmax -> "wild"
                  [] v <= pmax /\ Word(v) = {} -> else
                  [] v <= pmax /\ Word(v) # {} /\ ffs(v) = NoBit -> "retry"
                  [] OTHER -> "clear"
<1> DEFINE b == ffs(v)
<1> DEFINE k == [pc |-> p, v |-> v, pos |-> pos, bit |-> b, reg |-> 0, left |-> 0]
<1>1. call' = [call EXCEPT ![c] = k]
  BY Zenon DEF Look, To
<1>2. p \in {"wild", "up", "low", "retry", "clear"}
  BY Zenon
<1>3. b \in Usable \cup {NoBit}
  BY ffsType, Zenon DEF IInv
<1> HIDE DEF p, b
<1>4. k \in Calls /\ k.pc = p
  <2>1. p \in Points /\ 0 \in 0..(ULONG - 1) /\ 0 \in Nat
    BY <1>2, PhyMemAssumption DEF Points
  <2> QED
    BY <2>1, <1>3, Zenon DEF Calls
<1> HIDE DEF k
<1>5. HeldBy(k) = {}
  BY <1>2, <1>4, EmptyHeld, Zenon
<1>6. pages' \in 0..(ULONG - 1) /\ alone' \in BOOLEAN
  BY Zenon DEF IInv, TypeOK
<1> QED
  BY <1>1, <1>2, <1>4, <1>5, <1>6, QuietStep, Zenon DEF Freeing

LEMMA ModType ==
  ASSUME NEW a \in Nat
  PROVE  a % ULONG \in 0..(ULONG - 1)
  BY PhyMemAssumption

\* After one page of free_phy_pages, the call holds the rest.
LEMMA FreeNextOK ==
  ASSUME NEW k \in Calls, k.left >= 1, (k.bit + 1)..(k.bit + k.left - 1) \subseteq Usable,
         k.bit \in Usable
  PROVE  /\ FreeNext(k) \in Calls
         /\ HeldBy(FreeNext(k)) = (k.bit + 1)..(k.bit + k.left - 1)
         /\ Freeing(FreeNext(k))
<1>1. k.bit \in Nat /\ k.left \in Nat
  <2>1. \A b \in Usable : b \in Nat
    BY PhyMemAssumption
  <2> QED
    BY <2>1, Zenon DEF Calls
<1>2. CASE k.left = 1
  <2>1. FreeNext(k) = [Idle EXCEPT !.pc = "idle"]
    BY <1>2 DEF FreeNext, Idle
  <2>2. FreeNext(k) \in Calls /\ FreeNext(k).pc = "idle"
    BY <2>1, IdleCall DEF Points
  <2>3. HeldBy(FreeNext(k)) = {}
    BY <2>2, EmptyHeld, Zenon
  <2> QED
    BY <1>1, <1>2, <2>2, <2>3 DEF Freeing
<1>3. CASE k.left # 1
  <2> DEFINE m == [k EXCEPT !.pc = "set", !.bit = k.bit + 1, !.left = k.left - 1, !.reg = 0]
  <2>1. FreeNext(k) = m
    BY <1>3, Zenon DEF FreeNext
  <2>2. k.bit + 1 \in (k.bit + 1)..(k.bit + k.left - 1)
    BY <1>1, <1>3
  <2>3. k.bit + 1 \in Usable /\ k.left - 1 \in Nat /\ 0 \in 0..(ULONG - 1) /\ "set" \in Points
    BY <1>1, <2>2, PhyMemAssumption DEF Points
  <2>4. m \in Calls /\ m.pc = "set" /\ m.bit = k.bit + 1 /\ m.left = k.left - 1
    BY <2>3, Zenon DEF Calls
  <2> HIDE DEF m
  <2>5. HeldBy(m) = (k.bit + 1)..(k.bit + 1 + (k.left - 1) - 1)
    BY <2>4, Zenon DEF HeldBy
  <2>6. k.bit + 1 + (k.left - 1) - 1 = k.bit + k.left - 1 /\ k.left - 1 >= 1
    BY <1>1, <1>3
  <2>7. HeldBy(m) = (k.bit + 1)..(k.bit + k.left - 1)
    BY <2>5, <2>6, Zenon
  <2>8. Freeing(m)
    BY <2>3, <2>4, <2>6, Zenon DEF Freeing
  <2> QED
    BY <2>1, <2>4, <2>7, <2>8, Zenon
<1> QED
  BY <1>2, <1>3, Zenon

LEMMA InitInv == Init => IInv
<1> SUFFICES ASSUME Init PROVE IInv
  BY Zenon
<1>1. Idle \in Calls /\ Idle.pc = "idle"
  BY PhyMemAssumption DEF Idle, Calls, Points
<1>2. \A c \in CPUs : call[c] = Idle
  BY Zenon DEF Init
<1>3. TypeOK
  BY <1>1, PhyMemAssumption DEF Init, TypeOK
<1>4. LeftOK
  BY <1>1, <1>2, Zenon DEF LeftOK, Freeing
<1>5. \A c \in CPUs : Held(c) = {}
  BY <1>1, <1>2, EmptyHeld, Zenon DEF Held
<1>6. PageHasOneOwner
  BY <1>5, Zenon DEF PageHasOneOwner, Init
<1> QED
  BY <1>3, <1>4, <1>6, Zenon DEF IInv

\* The steps of alloc_phy_page keep the invariant.
LEMMA AllocInv ==
  ASSUME IInv, NEW c \in CPUs, Alloc(c) \/ AllocStep(c)
  PROVE  IInv'
<1>1. /\ call \in [CPUs -> Calls] /\ call[c] \in Calls
      /\ pnow \in Nat /\ pages \in 0..(ULONG - 1) /\ alone \in BOOLEAN
      /\ pgbits \subseteq Usable /\ owned \subseteq Usable
      /\ call[c].v \in Nat /\ call[c].pos \in Nat /\ call[c].reg \in 0..(ULONG - 1)
  BY Zenon DEF IInv, TypeOK, Calls
<1>2. \A p \in {"idle", "check", "load", "none"} :
        /\ [Idle EXCEPT !.pc = p] \in Calls
        /\ HeldBy([Idle EXCEPT !.pc = p]) = {}
        /\ [Idle EXCEPT !.pc = p].pc \notin {"set", "inc", "incstore"}
  <2> TAKE p \in {"idle", "check", "load", "none"}
  <2>1. p \in Points
    BY Zenon DEF Points
  <2>2. [Idle EXCEPT !.pc = p] \in Calls /\ [Idle EXCEPT !.pc = p].pc = p
    BY <2>1, IdleCall, Zenon
  <2> QED
    BY <2>2, EmptyHeld, Zenon
<1>3. Idle = [Idle EXCEPT !.pc = "idle"]
  BY DEF Idle
<1>4. ASSUME NEW p \in {"idle", "check", "load", "none"}, To(c, [Idle EXCEPT !.pc = p]),
             HeldBy(call[c]) = {}, pgbits' = pgbits, owned' = owned,
             pnow' \in Nat, pages' = pages, alone' \in BOOLEAN
      PROVE  IInv'
  BY <1>1, <1>2, <1>4, QuietStep, Zenon DEF To, Freeing
<1>5. CASE Alloc(c)
  <2>1. HeldBy(call[c]) = {}
    BY <1>5, EmptyHeld, Zenon DEF Alloc
  <2> QED
    BY <1>1, <1>4, <1>5, <2>1, Zenon DEF Alloc, Enter
<1>6. CASE CheckPages(c)
  <2>1. HeldBy(call[c]) = {}
    BY <1>6, EmptyHeld, Zenon DEF CheckPages
  <2> QED
    BY <1>1, <1>4, <1>6, <2>1, Zenon DEF CheckPages
<1>7. CASE LoadNow(c)
  <2>1. HeldBy(call[c]) = {}
    BY <1>7, EmptyHeld, Zenon DEF LoadNow
  <2> QED
    BY <1>1, <1>7, <2>1, LookStep, Zenon DEF LoadNow
<1>8. CASE ScanUp(c)
  <2>1. HeldBy(call[c]) = {}
    BY <1>8, EmptyHeld, Zenon DEF ScanUp
  <2>2. call[c].v + 1 \in Nat
    BY <1>1
  <2>3. CASE call[c].v + 1 < pmax
    BY <1>1, <1>8, <2>1, <2>2, <2>3, LookStep, Zenon DEF ScanUp
  <2>4. CASE ~(call[c].v + 1 < pmax)
    <3> DEFINE k == [call[c] EXCEPT !.pc = "wrap"]
    <3>1. k \in Calls /\ k.pc = "wrap"
      BY <1>1, Zenon DEF Calls, Points
    <3>2. call' = [call EXCEPT ![c] = k]
      BY <1>8, <2>4, Zenon DEF ScanUp, To
    <3> HIDE DEF k
    <3>3. HeldBy(k) = {}
      BY <3>1, EmptyHeld, Zenon
    <3> QED
      BY <1>1, <1>8, <2>1, <2>2, <3>1, <3>2, <3>3, QuietStep, Zenon DEF ScanUp, Freeing
  <2> QED
    BY <2>3, <2>4, Zenon
<1>9. CASE Wrap(c)
  <2>1. HeldBy(call[c]) = {}
    BY <1>9, EmptyHeld, Zenon DEF Wrap
  <2> QED
    BY <1>1, <1>9, <2>1, LookStep, Zenon DEF Wrap
<1>10. CASE ScanLow(c)
  <2>1. HeldBy(call[c]) = {}
    BY <1>10, EmptyHeld, Zenon DEF ScanLow
  <2>2. call[c].v + 1 \in Nat
    BY <1>1
  <2>3. CASE call[c].v + 1 < call[c].pos
    BY <1>1, <1>10, <2>1, <2>2, <2>3, LookStep, Zenon DEF ScanLow
  <2>4. CASE ~(call[c].v + 1 < call[c].pos)
    BY <1>1, <1>4, <1>10, <2>1, <2>2, <2>4, Zenon DEF ScanLow
  <2> QED
    BY <2>3, <2>4, Zenon
<1>11. CASE TestAndClear(c)
  <2>1. HeldBy(call[c]) = {}
    BY <1>11, EmptyHeld, Zenon DEF TestAndClear
  <2>2. CASE call[c].bit \in pgbits
    <3> DEFINE k == [call[c] EXCEPT !.pc = "dec"]
    <3>1. k \in Calls /\ k.pc = "dec" /\ k.bit = call[c].bit
      BY <1>1, Zenon DEF Calls, Points
    <3>2. call' = [call EXCEPT ![c] = k]
      BY <1>11, <2>2, Zenon DEF TestAndClear, To
    <3> HIDE DEF k
    <3>3. HeldBy(k) = {call[c].bit}
      BY <3>1, Zenon DEF HeldBy
    <3>4. /\ pgbits' = pgbits \ {call[c].bit} /\ owned' = owned
          /\ pnow' = pnow /\ pages' = pages /\ alone' = alone
      BY <1>11, Zenon DEF TestAndClear
    <3>5. pgbits \cap owned = {} /\ PageHasOneOwner
      BY Zenon DEF IInv, PageHasOneOwner
    <3>6. PageHasOneOwner'
      BY <1>1, <2>1, <2>2, <3>1, <3>2, <3>3, <3>4, <3>5, OwnStep, Zenon
    <3>7. TypeOK'
      BY <1>1, <3>1, <3>2, <3>4, Zenon DEF TypeOK
    <3>8. LeftOK'
      BY <1>1, <3>1, <3>2, Zenon DEF IInv, LeftOK, Freeing
    <3> QED
      BY <3>6, <3>7, <3>8, Zenon DEF IInv
  <2>3. CASE call[c].bit \notin pgbits
    <3>1. pgbits' = pgbits
      BY <1>11, <2>3, Zenon DEF TestAndClear
    <3> QED
      BY <1>1, <1>4, <1>11, <2>1, <2>3, <3>1, Zenon DEF TestAndClear
  <2> QED
    BY <2>2, <2>3, Zenon
<1>12. CASE DecLoad(c)
  <2> DEFINE r == (pages + ULONG - 1) % ULONG
  <2> DEFINE k == [call[c] EXCEPT !.pc = "decstore", !.reg = r]
  <2>1. pages + ULONG - 1 \in Nat
    BY <1>1, PhyMemAssumption
  <2>2. r \in 0..(ULONG - 1)
    BY <2>1, ModType, Zenon
  <2>3. call' = [call EXCEPT ![c] = k]
    BY <1>12, Zenon DEF DecLoad, To
  <2> HIDE DEF r
  <2>4. k \in Calls /\ k.pc = "decstore" /\ k.bit = call[c].bit
    BY <1>1, <2>2, Zenon DEF Calls, Points
  <2> HIDE DEF k
  <2>5. HeldBy(k) = HeldBy(call[c])
    BY <1>12, <2>4, Zenon DEF HeldBy, DecLoad
  <2> QED
    BY <1>1, <1>12, <2>3, <2>4, <2>5, QuietStep, Zenon DEF DecLoad, Freeing
<1>13. CASE DecStore(c)
  <2>1. HeldBy(call[c]) = {call[c].bit}
    BY <1>13, Zenon DEF DecStore, HeldBy
  <2>2. Idle \in Calls /\ HeldBy(Idle) = {} /\ Idle.pc \notin {"set", "inc", "incstore"}
    BY <1>2, <1>3, Zenon
  <2>3. /\ call' = [call EXCEPT ![c] = Idle]
        /\ owned' = owned \cup {call[c].bit} /\ pgbits' = pgbits
        /\ pnow' = pnow /\ pages' = call[c].reg /\ alone' = alone
    BY <1>13, Zenon DEF DecStore, To
  <2>4. /\ PageHasOneOwner /\ pgbits \cap owned = {}
        /\ HeldBy(call[c]) \cap (pgbits \cup owned) = {}
        /\ HeldBy(call[c]) \subseteq Usable
    BY Zenon DEF IInv, PageHasOneOwner, Held
  <2>5. PageHasOneOwner'
    BY <1>1, <2>1, <2>2, <2>3, <2>4, OwnStep, Zenon
  <2>6. TypeOK'
    BY <1>1, <2>1, <2>2, <2>3, <2>4, Zenon DEF TypeOK
  <2>7. LeftOK'
    BY <1>1, <2>2, <2>3, Zenon DEF IInv, LeftOK, Freeing
  <2> QED
    BY <2>5, <2>6, <2>7, Zenon DEF IInv
<1>14. CASE ReturnZero(c)
  <2>1. HeldBy(call[c]) = {}
    BY <1>14, EmptyHeld, Zenon DEF ReturnZero
  <2> QED
    BY <1>1, <1>3, <1>4, <1>14, <2>1, Zenon DEF ReturnZero
<1> QED
  BY <1>5, <1>6, <1>7, <1>8, <1>9, <1>10, <1>11, <1>12, <1>13, <1>14, Zenon DEF AllocStep

\* The steps of free_phy_pages keep the invariant.
LEMMA FreeInv ==
  ASSUME IInv, NEW c \in CPUs,
         (\E first \in Usable, n \in 1..2 : free_phy_pages(c, first, n)) \/ FreeStep(c)
  PROVE  IInv'
<1>1. /\ call \in [CPUs -> Calls] /\ call[c] \in Calls
      /\ pnow \in Nat /\ pages \in 0..(ULONG - 1) /\ alone \in BOOLEAN
      /\ pgbits \subseteq Usable /\ owned \subseteq Usable
      /\ call[c].left \in Nat /\ call[c].reg \in 0..(ULONG - 1)
  BY Zenon DEF IInv, TypeOK, Calls
<1>2. /\ PageHasOneOwner /\ pgbits \cap owned = {}
      /\ HeldBy(call[c]) \cap (pgbits \cup owned) = {}
      /\ HeldBy(call[c]) \subseteq Usable
  BY Zenon DEF IInv, PageHasOneOwner, Held
<1>3. \A b \in Usable : b \in Nat
  BY PhyMemAssumption
<1>4. ASSUME NEW first \in Usable, NEW n \in 1..2, free_phy_pages(c, first, n)
      PROVE  IInv'
  <2> DEFINE k == [pc |-> "set", v |-> 0, pos |-> 0, bit |-> first, reg |-> 0, left |-> n]
  <2> DEFINE P == first..(first + n - 1)
  <2>1. k \in Calls /\ k.pc = "set" /\ k.bit = first /\ k.left = n
    <3>1. "set" \in Points /\ 0 \in 0..(ULONG - 1) /\ n \in Nat
      BY PhyMemAssumption DEF Points
    <3> QED
      BY <3>1, Zenon DEF Calls
  <2>2. call' = [call EXCEPT ![c] = k]
    BY <1>4, Zenon DEF free_phy_pages, To
  <2>3. HeldBy(k) = P
    BY <2>1, Zenon DEF HeldBy
  <2>4. HeldBy(call[c]) = {}
    BY <1>4, EmptyHeld, Zenon DEF free_phy_pages
  <2>5. /\ owned' = owned \ P /\ P \subseteq owned /\ pgbits' = pgbits
        /\ pnow' = pnow /\ pages' = pages /\ alone' \in BOOLEAN
    BY <1>1, <1>4, Zenon DEF free_phy_pages, Enter
  <2> HIDE DEF k, P
  <2>6. PageHasOneOwner'
    BY <1>1, <1>2, <2>1, <2>2, <2>3, <2>4, <2>5, OwnStep, Zenon
  <2>7. TypeOK'
    BY <1>1, <2>1, <2>2, <2>5, Zenon DEF TypeOK
  <2>8. LeftOK'
    BY <1>1, <2>1, <2>2 DEF IInv, LeftOK, Freeing
  <2> QED
    BY <2>6, <2>7, <2>8, Zenon DEF IInv
<1>5. CASE TestAndSet(c)
  <2> DEFINE b == call[c].bit
  <2> DEFINE l == call[c].left
  <2> DEFINE k == [call[c] EXCEPT !.pc = "inc"]
  <2>1. HeldBy(call[c]) = b..(b + l - 1) /\ l >= 1 /\ b \in Usable
    BY <1>5, Zenon DEF HeldBy, TestAndSet, IInv, LeftOK, Freeing
  <2>2. b \in Nat
    BY <1>3, <2>1, Zenon
  <2>3. b..(b + l - 1) = {b} \cup ((b + 1)..(b + l - 1)) /\ b \notin (b + 1)..(b + l - 1)
    BY <1>1, <2>1, <2>2
  <2>4. b \notin pgbits
    BY <1>2, <2>1, <2>3, Zenon
  <2>5. k \in Calls /\ k.pc = "inc" /\ k.bit = b /\ k.left = l
    BY <1>1, Zenon DEF Calls, Points
  <2>6. /\ call' = [call EXCEPT ![c] = k] /\ pgbits' = pgbits \cup {b} /\ owned' = owned
        /\ pnow' = pnow /\ pages' = pages /\ alone' = alone
    BY <1>5, <2>4, Zenon DEF TestAndSet, To
  <2> HIDE DEF k, b, l
  <2>7. HeldBy(k) = (b + 1)..(b + l - 1)
    BY <2>5, Zenon DEF HeldBy
  <2>8. PageHasOneOwner'
    <3>1. /\ pgbits' \cup owned' \cup HeldBy(k) = pgbits \cup owned \cup HeldBy(call[c])
          /\ pgbits' \cap owned' = {} /\ HeldBy(k) \cap (pgbits' \cup owned') = {}
      BY <1>2, <2>1, <2>3, <2>6, <2>7, Zenon
    <3> QED
      BY <1>1, <1>2, <2>5, <2>6, <3>1, OwnStep, Zenon
  <2>9. TypeOK'
    BY <1>1, <1>2, <2>1, <2>3, <2>5, <2>6, Zenon DEF TypeOK
  <2>10. LeftOK'
    BY <1>1, <2>1, <2>5, <2>6, Zenon DEF IInv, LeftOK, Freeing
  <2> QED
    BY <2>8, <2>9, <2>10, Zenon DEF IInv
<1>6. CASE IncLoad(c)
  <2> DEFINE r == (pages + 1) % ULONG
  <2> DEFINE k == [call[c] EXCEPT !.pc = "incstore", !.reg = r]
  <2>1. r \in 0..(ULONG - 1)
    BY <1>1, ModType
  <2>2. call' = [call EXCEPT ![c] = k]
    BY <1>6, Zenon DEF IncLoad, To
  <2> HIDE DEF r
  <2>3. k \in Calls /\ k.pc = "incstore" /\ k.bit = call[c].bit /\ k.left = call[c].left
    BY <1>1, <2>1, Zenon DEF Calls, Points
  <2> HIDE DEF k
  <2>4. HeldBy(k) = HeldBy(call[c])
    BY <1>6, <2>3, Zenon DEF HeldBy, IncLoad
  <2>5. Freeing(k)
    BY <1>6, <2>3, Zenon DEF IncLoad, IInv, LeftOK, Freeing
  <2> QED
    BY <1>1, <1>6, <2>2, <2>3, <2>4, <2>5, QuietStep, Zenon DEF IncLoad
<1>7. CASE IncStore(c)
  <2>1. HeldBy(call[c]) = (call[c].bit + 1)..(call[c].bit + call[c].left - 1)
    BY <1>7, Zenon DEF HeldBy, IncStore
  <2>2. call[c].left >= 1 /\ call[c].bit \in Usable
    BY <1>7, Zenon DEF IncStore, IInv, LeftOK, Freeing
  <2>4. /\ FreeNext(call[c]) \in Calls
        /\ HeldBy(FreeNext(call[c])) = HeldBy(call[c])
        /\ Freeing(FreeNext(call[c]))
    BY <1>1, <1>2, <2>1, <2>2, FreeNextOK, Zenon
  <2> QED
    BY <1>1, <1>7, <2>4, QuietStep, Zenon DEF IncStore, To
<1> QED
  BY <1>4, <1>5, <1>6, <1>7, Zenon DEF FreeStep

\* IInv is an inductive invariant of PhyMem.
THEOREM Invariance == Spec => []IInv
<1>1. IInv /\ [Next]_vars => IInv'
  <2> SUFFICES ASSUME IInv, [Next]_vars PROVE IInv'
    BY Zenon
  <2>1. CASE Next
    BY <2>1, AllocInv, FreeInv, Zenon DEF Next
  <2>2. CASE UNCHANGED vars
    BY <2>2 DEF vars, IInv, TypeOK, LeftOK, Freeing, PageHasOneOwner, Held, HeldBy
  <2> QED
    BY <2>1, <2>2, Zenon
<1> QED
  BY InitInv, <1>1, PTL DEF Spec

\* Every variable of alloc_phy_page and free_phy_pages keeps its type: the scan
\* and the loop only ever name usable pages, and the count does not leave its
\* width.
THEOREM TypeCorrect == Spec => []TypeOK
<1>1. IInv => TypeOK
  BY Zenon DEF IInv
<1> QED
  BY Invariance, <1>1, PTL

\* For any number of CPUs inside alloc_phy_page and free_phy_pages, without a
\* lock, no page is handed out twice and none is lost: test_and_clear_bit and
\* test_and_set_bit alone decide who has it.
THEOREM OneOwner == Spec => []PageHasOneOwner
<1>1. IInv => PageHasOneOwner
  BY Zenon DEF IInv
<1> QED
  BY Invariance, <1>1, PTL
-----------------------------------------------------------------------------
(* What holds as long as no two calls have overlapped.  Here S, n and p stand *)
(* for pgbits, pnow and pages, before or after a step.                       *)

\* The words i to j are zero.
Zero(S, i, j) == \A b \in S : ~(i <= b \div WORD /\ b \div WORD <= j)

\* What the scan has seen: the words from pos to v, then all the words up to
\* pmax, then those from 0 to v as well.
Scanned(pc, v, pos, S) ==
  CASE pc = "up" -> pos <= v /\ (v < pmax \/ v = pos) /\ Zero(S, pos, v)
    [] pc = "wrap" -> Zero(S, pos, pos) /\ Zero(S, pos, pmax - 1)
    [] pc = "low" -> /\ v < pos \/ v = 0
                     /\ Zero(S, pos, pos) /\ Zero(S, pos, pmax - 1) /\ Zero(S, 0, v)
    [] OTHER -> TRUE

\* The count differs from the number of bits by what the call has not stored.
Counted(k, S, p) ==
  CASE k.pc = "dec" -> p = Cardinality(S) + 1
    [] k.pc = "inc" -> p + 1 = Cardinality(S)
    [] k.pc \in {"decstore", "incstore"} -> k.reg = Cardinality(S)
    [] OTHER -> p = Cardinality(S)

\* Nothing is wrong with the call k.  The scan begins only when a page is free;
\* pnow is past the last word only before it is set back to the first.
Good(k, S, n, p) ==
  /\ k.pc # "wild" /\ Counted(k, S, p) /\ Scanned(k.pc, k.v, k.pos, S)
  /\ k.pc # "wrap" => n <= pmax
  /\ k.pc = "load" => S # {}
  /\ k.pc \in {"up", "wrap", "low"} => S # {} /\ k.pos <= pmax
  /\ k.pc = "none" /\ Bits % WORD = 0 => S = {}

\* At most one CPU is inside the allocator, and nothing is wrong with its call.
AloneInv ==
  alone => \E c \in CPUs : /\ \A d \in CPUs \ {c} : call[d].pc = "idle"
                           /\ Good(call[c], pgbits, pnow, pages)

\* Words are ordered as their bits, and a bitmap of whole words ends before
\* the word pmax.
LEMMA WordOf ==
  /\ pmax \in Nat
  /\ \A b \in Usable : b \in Nat /\ b \div WORD \in Nat /\ b \div WORD <= pmax
  /\ Bits % WORD = 0 => \A b \in Usable : b \div WORD < pmax
<1>1. \A b \in Usable : b \in Nat /\ b < Bits
  BY PhyMemAssumption
<1>2. Bits \in Nat /\ WORD \in Nat \ {0}
  BY PhyMemAssumption, Zenon
<1>3. ASSUME NEW b \in Nat, b < Bits
      PROVE  b \div WORD \in Nat /\ b \div WORD <= Bits \div WORD
  BY <1>2, <1>3
<1>4. ASSUME NEW b \in Nat, b < Bits, Bits % WORD = 0
      PROVE  b \div WORD < Bits \div WORD
  BY <1>2, <1>4
<1>5. Bits \div WORD \in Nat
  BY <1>2
<1> QED
  BY <1>1, <1>3, <1>4, <1>5, Zenon DEF pmax

\* The number of free pages is a number that pages can hold.
LEMMA CardBits ==
  ASSUME NEW S \in SUBSET Usable
  PROVE  IsFiniteSet(S) /\ Cardinality(S) \in Nat /\ Cardinality(S) < ULONG
<1>1. IsFiniteSet(0..(Bits - 1))
  BY FS_Interval, PhyMemAssumption
<1>2. IsFiniteSet(Usable)
  BY <1>1, FS_Subset, PhyMemAssumption, Zenon
<1>3. IsFiniteSet(S) /\ Cardinality(S) <= Cardinality(Usable)
  BY <1>2, FS_Subset, Zenon
<1>4. Cardinality(S) \in Nat /\ Cardinality(Usable) \in Nat
  BY <1>2, <1>3, FS_CardinalityType, Zenon
<1> QED
  BY <1>3, <1>4, PhyMemAssumption

\* A call that neither scans nor counts.
LEMMA GoodPlain ==
  ASSUME NEW k, k.pc \in {"idle", "check", "retry", "clear", "set"}, NEW S, NEW n, NEW p
  PROVE  Good(k, S, n, p) <=> p = Cardinality(S) /\ n <= pmax
  BY Zenon DEF Good, Counted, Scanned

\* A step of the only call.
LEMMA AloneStep ==
  ASSUME IInv, AloneInv, NEW c \in CPUs, NEW k \in Calls, call' = [call EXCEPT ![c] = k],
         call[c].pc # "idle", alone' = alone,
         Good(call[c], pgbits, pnow, pages) => Good(k, pgbits', pnow', pages')
  PROVE  AloneInv'
<1> SUFFICES ASSUME alone'
             PROVE  /\ \A d \in CPUs \ {c} : call'[d].pc = "idle"
                    /\ Good(call'[c], pgbits', pnow', pages')
  BY Zenon DEF AloneInv
<1>1. PICK e \in CPUs : /\ \A d \in CPUs \ {e} : call[d].pc = "idle"
                        /\ Good(call[e], pgbits, pnow, pages)
  BY Zenon DEF AloneInv
<1>2. e = c
  BY <1>1, Zenon
<1>3. call'[c] = k /\ \A d \in CPUs \ {c} : call'[d] = call[d]
  BY Zenon DEF IInv, TypeOK
<1> QED
  BY <1>1, <1>2, <1>3, Zenon

\* A call begins.
LEMMA AloneEnter ==
  ASSUME IInv, AloneInv, NEW c \in CPUs, NEW k \in Calls, call' = [call EXCEPT ![c] = k],
         call[c].pc = "idle", k.pc \in {"check", "set"}, Enter(c),
         pgbits' = pgbits, pnow' = pnow, pages' = pages
  PROVE  AloneInv'
<1> SUFFICES ASSUME alone'
             PROVE  /\ \A d \in CPUs \ {c} : call'[d].pc = "idle"
                    /\ Good(call'[c], pgbits', pnow', pages')
  BY Zenon DEF AloneInv
<1>1. alone /\ \A d \in CPUs \ {c} : call[d].pc = "idle"
  BY Zenon DEF Enter
<1>2. PICK e \in CPUs : Good(call[e], pgbits, pnow, pages)
  BY <1>1, Zenon DEF AloneInv
<1>3. call[e].pc = "idle"
  BY <1>1, Zenon
<1>4. pages = Cardinality(pgbits) /\ pnow <= pmax
  BY <1>2, <1>3, GoodPlain
<1>5. Good(k, pgbits, pnow, pages)
  BY <1>4, GoodPlain
<1>6. call'[c] = k /\ \A d \in CPUs \ {c} : call'[d] = call[d]
  BY Zenon DEF IInv, TypeOK
<1> QED
  BY <1>1, <1>5, <1>6, Zenon

\* The scan looks at a word.
LEMMA AloneLook ==
  ASSUME IInv, AloneInv, NEW c \in CPUs, NEW v \in Nat, NEW pos \in Nat, NEW else \in {"up", "low"},
         Look(c, v, pos, else), call[c].pc # "idle", alone' = alone, pgbits' = pgbits, pages' = pages,
         Good(call[c], pgbits, pnow, pages) =>
           /\ v <= pmax /\ pnow' <= pmax /\ pages = Cardinality(pgbits)
           /\ Zero(pgbits, v, v) => Scanned(else, v, pos, pgbits) /\ pgbits # {} /\ pos <= pmax
  PROVE  AloneInv'
<1> DEFINE p == CASE v > pmax -> "wild"
                  [] v <= pmax /\ Word(v) = {} -> else
                  [] v <= pmax /\ Word(v) # {} /\ ffs(v) = NoBit -> "retry"
                  [] OTHER -> "clear"
<1> DEFINE b == ffs(v)
<1> DEFINE k == [pc |-> p, v |-> v, pos |-> pos, bit |-> b, reg |-> 0, left |-> 0]
<1>1. call' = [call EXCEPT ![c] = k]
  BY Zenon DEF Look, To
<1>2. p \in {"wild", "up", "low", "retry", "clear"}
  BY Zenon
<1>3. b \in Usable \cup {NoBit}
  BY ffsType, Zenon DEF IInv
<1>4. v <= pmax => IF Word(v) = {} THEN p = else ELSE p \in {"retry", "clear"}
  BY WordOf
<1> HIDE DEF p, b
<1>5. k \in Calls /\ k.pc = p /\ k.v = v /\ k.pos = pos
  <2>1. p \in Points /\ 0 \in 0..(ULONG - 1) /\ 0 \in Nat
    BY <1>2, PhyMemAssumption DEF Points
  <2> QED
    BY <2>1, <1>3, Zenon DEF Calls
<1> HIDE DEF k
<1>6. Word(v) = {} => Zero(pgbits, v, v)
  <2>1. \A x \in pgbits : x \div WORD \in Nat
    BY WordOf, Zenon DEF IInv, TypeOK
  <2> QED
    BY <2>1 DEF Word, Zero
<1>7. ASSUME Good(call[c], pgbits, pnow, pages)
      PROVE  Good(k, pgbits', pnow', pages')
  <2>1. CASE Word(v) = {}
    <3>1. k.pc = else
      BY <1>4, <1>5, <1>7, <2>1, Zenon
    <3>2. Scanned(k.pc, k.v, k.pos, pgbits) /\ pgbits # {} /\ k.pos <= pmax
      BY <1>5, <1>6, <1>7, <2>1, <3>1, Zenon
    <3> QED
      BY <1>7, <3>1, <3>2, Zenon DEF Good, Counted
  <2>2. CASE Word(v) # {}
    BY <1>4, <1>5, <1>7, <2>2, GoodPlain
  <2> QED
    BY <2>1, <2>2, Zenon
<1> QED
  BY <1>1, <1>5, <1>7, AloneStep, Zenon

LEMMA ModULong ==
  ASSUME NEW a \in Nat, a < ULONG
  PROVE  a % ULONG = a /\ (a + ULONG) % ULONG = a
  BY PhyMemAssumption

\* get_none_zero: what the words seen so far tell.
LEMMA ZeroSplit ==
  ASSUME NEW S \in SUBSET Usable, NEW i \in Nat, NEW j \in Nat, Zero(S, i, j)
  PROVE  /\ Zero(S, j + 1, j + 1) => Zero(S, i, j + 1)
         /\ \A m \in Nat, n \in Int : i <= m /\ n <= j => Zero(S, m, n)
<1>1. \A b \in S : b \div WORD \in Nat
  BY WordOf, Zenon
<1> QED
  BY <1>1 DEF Zero

\* The steps of get_none_zero.
LEMMA AloneScan ==
  ASSUME IInv, AloneInv, NEW c \in CPUs, LoadNow(c) \/ ScanUp(c) \/ Wrap(c) \/ ScanLow(c)
  PROVE  AloneInv'
<1> DEFINE k == call[c]
<1>1. /\ k \in Calls /\ pnow \in Nat /\ pgbits \in SUBSET Usable
      /\ k.v \in Nat /\ k.pos \in Nat /\ k.v + 1 \in Nat
  BY DEF IInv, TypeOK, Calls
<1>2. pmax \in Nat /\ \A b \in pgbits : b \div WORD \in Nat /\ b \div WORD <= pmax
  BY <1>1, WordOf, Zenon
<1>3. CASE LoadNow(c)
  <2>1. k.pc = "load" /\ Look(c, pnow, pnow, "up") /\ UNCHANGED <<pgbits, pnow, pages, alone>>
    BY <1>3, Zenon DEF LoadNow
  <2>2. ASSUME Good(k, pgbits, pnow, pages)
        PROVE  /\ pnow <= pmax /\ pages = Cardinality(pgbits) /\ pgbits # {}
               /\ Zero(pgbits, pnow, pnow) => Scanned("up", pnow, pnow, pgbits)
    BY <1>1, <2>1, <2>2 DEF Good, Counted, Scanned
  <2> QED
    BY <1>1, <2>1, <2>2, AloneLook, Zenon
<1>4. CASE ScanUp(c)
  <2>1. k.pc = "up" /\ pnow' = k.v + 1 /\ UNCHANGED <<pgbits, pages, alone>>
    BY <1>4, Zenon DEF ScanUp
  <2>2. ASSUME Good(k, pgbits, pnow, pages)
        PROVE  /\ k.pos <= k.v /\ Zero(pgbits, k.pos, k.v) /\ k.pos <= pmax
               /\ pages = Cardinality(pgbits) /\ pgbits # {}
    BY <2>1, <2>2, Zenon DEF Good, Counted, Scanned
  <2>3. CASE k.v + 1 < pmax
    <3>1. Look(c, k.v + 1, k.pos, "up")
      BY <1>4, <2>3, Zenon DEF ScanUp
    <3>2. ASSUME Good(k, pgbits, pnow, pages), Zero(pgbits, k.v + 1, k.v + 1)
          PROVE  Scanned("up", k.v + 1, k.pos, pgbits)
      <4>1. Zero(pgbits, k.pos, k.v + 1)
        BY <1>1, <2>2, <3>2, ZeroSplit, Zenon
      <4> QED
        BY <1>1, <2>2, <2>3, <3>2, <4>1 DEF Scanned
    <3>3. pnow' <= pmax /\ k.v + 1 <= pmax
      BY <1>1, <1>2, <2>1, <2>3
    <3> QED
      BY <1>1, <2>1, <2>2, <3>1, <3>2, <3>3, AloneLook, Zenon
  <2>4. CASE ~(k.v + 1 < pmax)
    <3> DEFINE w == [k EXCEPT !.pc = "wrap"]
    <3>1. call' = [call EXCEPT ![c] = w]
      BY <1>4, <2>4, Zenon DEF ScanUp, To
    <3>2. w \in Calls /\ w.pc = "wrap" /\ w.pos = k.pos /\ w.v = k.v
      BY <1>1, Zenon DEF Calls, Points
    <3> HIDE DEF w
    <3>3. ASSUME Good(k, pgbits, pnow, pages)
          PROVE  Good(w, pgbits', pnow', pages')
      <4>1. pmax - 1 <= k.v /\ pmax - 1 \in Int
        BY <1>1, <1>2, <2>4
      <4>2. Zero(pgbits, k.pos, k.pos) /\ Zero(pgbits, k.pos, pmax - 1)
        <5>1. \A m \in Nat, n \in Int : k.pos <= m /\ n <= k.v => Zero(pgbits, m, n)
          BY <1>1, <2>2, <3>3, ZeroSplit, Zenon
        <5> QED
          BY <1>1, <2>2, <3>3, <4>1, <5>1
      <4>3. Scanned(w.pc, w.v, w.pos, pgbits)
        BY <3>2, <4>2, Zenon DEF Scanned
      <4> QED
        BY <2>1, <2>2, <3>2, <3>3, <4>3, Zenon DEF Good, Counted
    <3> QED
      BY <2>1, <3>1, <3>2, <3>3, AloneStep, Zenon
  <2> QED
    BY <2>3, <2>4, Zenon
<1>5. CASE Wrap(c)
  <2>1. k.pc = "wrap" /\ pnow' = 0 /\ Look(c, 0, k.pos, "low") /\ UNCHANGED <<pgbits, pages, alone>>
    BY <1>5, Zenon DEF Wrap
  <2>2. ASSUME Good(k, pgbits, pnow, pages)
        PROVE  /\ pages = Cardinality(pgbits) /\ pgbits # {} /\ k.pos <= pmax
               /\ Zero(pgbits, 0, 0) => Scanned("low", 0, k.pos, pgbits)
    BY <2>1, <2>2, Zenon DEF Good, Counted, Scanned
  <2> QED
    BY <1>1, <1>2, <2>1, <2>2, AloneLook
<1>6. CASE ScanLow(c)
  <2>1. k.pc = "low" /\ pnow' = k.v + 1 /\ UNCHANGED <<pgbits, pages, alone>>
    BY <1>6, Zenon DEF ScanLow
  <2>2. ASSUME Good(k, pgbits, pnow, pages)
        PROVE  /\ k.v < k.pos \/ k.v = 0
               /\ Zero(pgbits, k.pos, k.pos) /\ Zero(pgbits, k.pos, pmax - 1) /\ Zero(pgbits, 0, k.v)
               /\ pages = Cardinality(pgbits) /\ pgbits # {} /\ k.pos <= pmax
    BY <2>1, <2>2, Zenon DEF Good, Counted, Scanned
  <2>3. CASE k.v + 1 < k.pos
    <3>1. Look(c, k.v + 1, k.pos, "low")
      BY <1>6, <2>3, Zenon DEF ScanLow
    <3>2. ASSUME Good(k, pgbits, pnow, pages), Zero(pgbits, k.v + 1, k.v + 1)
          PROVE  Scanned("low", k.v + 1, k.pos, pgbits)
      <4>1. Zero(pgbits, 0, k.v + 1)
        BY <1>1, <2>2, <3>2, ZeroSplit, Zenon
      <4> QED
        BY <2>2, <2>3, <3>2, <4>1, Zenon DEF Scanned
    <3>3. Good(k, pgbits, pnow, pages) => pnow' <= pmax /\ k.v + 1 <= pmax
      BY <1>1, <1>2, <2>1, <2>2, <2>3
    <3> QED
      BY <1>1, <2>1, <2>2, <3>1, <3>2, <3>3, AloneLook, Zenon
  <2>4. CASE ~(k.v + 1 < k.pos)
    <3> DEFINE w == [Idle EXCEPT !.pc = "none"]
    <3>1. call' = [call EXCEPT ![c] = w]
      BY <1>6, <2>4, Zenon DEF ScanLow, To
    <3>2. w \in Calls /\ w.pc = "none"
      BY IdleCall, Zenon DEF Points
    <3> HIDE DEF w
    <3>3. ASSUME Good(k, pgbits, pnow, pages)
          PROVE  Good(w, pgbits', pnow', pages')
      <4>1. k.v + 1 <= pmax
        <5>1. CASE k.v < k.pos
          BY <1>1, <1>2, <2>2, <3>3, <5>1
        <5>2. CASE k.v = 0 /\ pmax # 0
          BY <1>2, <5>2
        <5>3. CASE pmax = 0
          BY <1>1, <1>2, <2>2, <3>3, <5>3 DEF Zero
        <5> QED
          BY <2>2, <3>3, <5>1, <5>2, <5>3, Zenon
      <4>2. Bits % WORD = 0 => pgbits = {}
        <5> SUFFICES ASSUME Bits % WORD = 0, NEW b \in pgbits PROVE FALSE
          BY Zenon
        <5>1. b \div WORD \in Nat /\ b \div WORD < pmax
          BY <1>1, WordOf, Zenon
        <5> QED
          BY <1>1, <1>2, <2>2, <2>4, <3>3, <5>1 DEF Zero
      <4> QED
        BY <2>1, <2>2, <3>2, <3>3, <4>1, <4>2, Zenon DEF Good, Counted, Scanned
    <3> QED
      BY <2>1, <3>1, <3>2, <3>3, AloneStep, Zenon
  <2> QED
    BY <2>3, <2>4, Zenon
<1> QED
  BY <1>3, <1>4, <1>5, <1>6, Zenon

\* The other steps of alloc_phy_page.
LEMMA AloneAlloc ==
  ASSUME IInv, AloneInv, NEW c \in CPUs,
         Alloc(c) \/ CheckPages(c) \/ TestAndClear(c) \/ DecLoad(c) \/ DecStore(c) \/ ReturnZero(c)
  PROVE  AloneInv'
<1> DEFINE k == call[c]
<1> DEFINE N == Cardinality(pgbits)
<1>1. k \in Calls /\ pgbits \in SUBSET Usable /\ pages \in Nat /\ k.bit \in Usable \cup {NoBit}
  BY DEF IInv, TypeOK, Calls
<1>2. /\ IsFiniteSet(pgbits) /\ N \in Nat /\ N < ULONG /\ (N = 0 <=> pgbits = {})
      /\ k.bit \in pgbits => Cardinality(pgbits \ {k.bit}) = N - 1
  BY <1>1, CardBits, FS_EmptySet, FS_RemoveElement, Zenon
<1>3. \A p \in Points : [Idle EXCEPT !.pc = p] \in Calls /\ [Idle EXCEPT !.pc = p].pc = p
  BY IdleCall, Zenon
<1>4. Idle \in Calls /\ Idle.pc = "idle"
  BY PhyMemAssumption DEF Idle, Calls, Points
<1>5. CASE Alloc(c)
  <2> DEFINE w == [Idle EXCEPT !.pc = "check"]
  <2>1. w \in Calls /\ w.pc = "check"
    BY <1>3, Zenon DEF Points
  <2>2. /\ call' = [call EXCEPT ![c] = w] /\ k.pc = "idle" /\ Enter(c)
        /\ UNCHANGED <<pgbits, pnow, pages>>
    BY <1>5, Zenon DEF Alloc, To
  <2> HIDE DEF w
  <2> QED
    BY <2>1, <2>2, AloneEnter, Zenon
<1>6. CASE CheckPages(c)
  <2> DEFINE w == [Idle EXCEPT !.pc = IF pages # 0 THEN "load" ELSE "none"]
  <2>1. w \in Calls /\ w.pc = IF pages # 0 THEN "load" ELSE "none"
    BY <1>3, Zenon DEF Points
  <2>2. /\ call' = [call EXCEPT ![c] = w] /\ k.pc \in {"check", "retry"}
        /\ UNCHANGED <<pgbits, pnow, pages, alone>>
    BY <1>6, Zenon DEF CheckPages, To
  <2> HIDE DEF w
  <2>3. ASSUME Good(k, pgbits, pnow, pages)
        PROVE  Good(w, pgbits', pnow', pages')
    <3>1. pages = N /\ pnow <= pmax
      BY <2>2, <2>3, GoodPlain
    <3> QED
      BY <1>2, <2>1, <2>2, <3>1, Zenon DEF Good, Counted, Scanned
  <2> QED
    BY <2>1, <2>2, <2>3, AloneStep, Zenon
<1>7. CASE TestAndClear(c)
  <2> DEFINE w == IF k.bit \in pgbits THEN [k EXCEPT !.pc = "dec"] ELSE [Idle EXCEPT !.pc = "check"]
  <2>1. w \in Calls /\ w.pc = IF k.bit \in pgbits THEN "dec" ELSE "check"
    <3>1. [k EXCEPT !.pc = "dec"] \in Calls /\ [k EXCEPT !.pc = "dec"].pc = "dec"
      BY <1>1, Zenon DEF Calls, Points
    <3> QED
      BY <1>3, <3>1 DEF Points
  <2>2. /\ call' = [call EXCEPT ![c] = w] /\ k.pc = "clear" /\ pgbits' = pgbits \ {k.bit}
        /\ UNCHANGED <<pnow, pages, alone>>
    BY <1>7, Zenon DEF TestAndClear, To
  <2> HIDE DEF w
  <2>3. ASSUME Good(k, pgbits, pnow, pages)
        PROVE  Good(w, pgbits', pnow', pages')
    <3>1. pages = N /\ pnow <= pmax
      BY <2>2, <2>3, GoodPlain
    <3>2. CASE k.bit \in pgbits
      <4>1. pages' = Cardinality(pgbits') + 1
        BY <1>2, <2>2, <3>1, <3>2
      <4> QED
        BY <2>1, <2>2, <3>1, <3>2, <4>1, Zenon DEF Good, Counted, Scanned
    <3>3. CASE k.bit \notin pgbits
      <4>1. pgbits' = pgbits
        BY <2>2, <3>3, Zenon
      <4> QED
        BY <2>1, <2>2, <3>1, <3>3, <4>1, GoodPlain
    <3> QED
      BY <3>2, <3>3, Zenon
  <2> QED
    BY <2>1, <2>2, <2>3, AloneStep, Zenon
<1>8. CASE DecLoad(c)
  <2> DEFINE r == (pages + ULONG - 1) % ULONG
  <2> DEFINE w == [k EXCEPT !.pc = "decstore", !.reg = r]
  <2>1. r \in 0..(ULONG - 1)
    <3>1. pages + ULONG - 1 \in Nat
      BY <1>1, PhyMemAssumption
    <3> QED
      BY <3>1, ModType, Zenon
  <2>2. /\ call' = [call EXCEPT ![c] = w] /\ k.pc = "dec"
        /\ UNCHANGED <<pgbits, pnow, pages, alone>>
    BY <1>8, Zenon DEF DecLoad, To
  <2>3. ASSUME pages = N + 1 PROVE r = N
    <3>1. pages + ULONG - 1 = N + ULONG
      BY <1>2, <2>3, PhyMemAssumption
    <3> QED
      BY <1>2, <3>1, ModULong, Zenon
  <2> HIDE DEF r
  <2>4. w \in Calls /\ w.pc = "decstore" /\ w.reg = r
    BY <1>1, <2>1, Zenon DEF Calls, Points
  <2> HIDE DEF w
  <2>5. ASSUME Good(k, pgbits, pnow, pages)
        PROVE  Good(w, pgbits', pnow', pages')
    <3>1. pages = N + 1 /\ pnow <= pmax
      BY <2>2, <2>5, Zenon DEF Good, Counted
    <3> QED
      BY <2>2, <2>3, <2>4, <3>1, Zenon DEF Good, Counted, Scanned
  <2> QED
    BY <2>2, <2>4, <2>5, AloneStep, Zenon
<1>9. CASE DecStore(c)
  <2>1. /\ call' = [call EXCEPT ![c] = Idle] /\ k.pc = "decstore" /\ pages' = k.reg
        /\ UNCHANGED <<pgbits, pnow, alone>>
    BY <1>9, Zenon DEF DecStore, To
  <2>2. ASSUME Good(k, pgbits, pnow, pages)
        PROVE  Good(Idle, pgbits', pnow', pages')
    <3>1. k.reg = N /\ pnow <= pmax
      BY <2>1, <2>2, Zenon DEF Good, Counted
    <3> QED
      BY <1>4, <2>1, <3>1, GoodPlain
  <2> QED
    BY <1>4, <2>1, <2>2, AloneStep, Zenon
<1>10. CASE ReturnZero(c)
  <2>1. /\ call' = [call EXCEPT ![c] = Idle] /\ k.pc = "none"
        /\ UNCHANGED <<pgbits, pnow, pages, alone>>
    BY <1>10, Zenon DEF ReturnZero, To
  <2>2. ASSUME Good(k, pgbits, pnow, pages)
        PROVE  Good(Idle, pgbits', pnow', pages')
    <3>1. pages = N /\ pnow <= pmax
      BY <2>1, <2>2, Zenon DEF Good, Counted
    <3> QED
      BY <1>4, <2>1, <3>1, GoodPlain
  <2> QED
    BY <1>4, <2>1, <2>2, AloneStep, Zenon
<1> QED
  BY <1>5, <1>6, <1>7, <1>8, <1>9, <1>10, Zenon

\* The steps of free_phy_pages.
LEMMA AloneFree ==
  ASSUME IInv, AloneInv, NEW c \in CPUs,
         (\E first \in Usable, n \in 1..2 : free_phy_pages(c, first, n)) \/ FreeStep(c)
  PROVE  AloneInv'
<1> DEFINE k == call[c]
<1> DEFINE N == Cardinality(pgbits)
<1>1. /\ k \in Calls /\ pgbits \in SUBSET Usable /\ pages \in Nat
      /\ k.pc \in {"set", "inc", "incstore"} => k.left >= 1 /\ k.bit \in Usable
  BY DEF IInv, TypeOK, Calls, LeftOK, Freeing
<1>2. /\ IsFiniteSet(pgbits) /\ N \in Nat /\ N < ULONG
      /\ k.bit \notin pgbits => Cardinality(pgbits \cup {k.bit}) = N + 1
  BY <1>1, CardBits, FS_AddElement, Zenon
<1>3. CASE \E first \in Usable, n \in 1..2 : free_phy_pages(c, first, n)
  <2>1. PICK first \in Usable, n \in 1..2 : free_phy_pages(c, first, n)
    BY <1>3, Zenon
  <2> DEFINE w == [pc |-> "set", v |-> 0, pos |-> 0, bit |-> first, reg |-> 0, left |-> n]
  <2>2. /\ call' = [call EXCEPT ![c] = w] /\ k.pc = "idle" /\ Enter(c)
        /\ UNCHANGED <<pgbits, pnow, pages>>
    BY <2>1, Zenon DEF free_phy_pages, To
  <2>3. w \in Calls /\ w.pc = "set"
    BY PhyMemAssumption DEF Calls, Points
  <2> HIDE DEF w
  <2> QED
    BY <2>2, <2>3, AloneEnter, Zenon
<1>4. ASSUME k.pc \in {"set", "incstore"}
      PROVE  FreeNext(k) \in Calls /\ FreeNext(k).pc \in {"idle", "set"}
  <2>1. Idle.pc = "idle" /\ [k EXCEPT !.pc = "set", !.bit = @ + 1, !.left = @ - 1, !.reg = 0].pc = "set"
    BY <1>1, Zenon DEF Idle, Calls
  <2>2. HeldBy(k) \subseteq Usable
    BY Zenon DEF IInv, PageHasOneOwner, Held
  <2>3. (k.bit + 1)..(k.bit + k.left - 1) \subseteq Usable
    <3>1. k.bit \in Nat /\ k.left \in Nat
      BY <1>1, <1>4, WordOf, Zenon DEF Calls
    <3>2. (k.bit + 1)..(k.bit + k.left - 1) \subseteq HeldBy(k)
      BY <1>4, <3>1 DEF HeldBy
    <3> QED
      BY <2>2, <3>2, Zenon
  <2>4. FreeNext(k) \in Calls
    BY <1>1, <1>4, <2>3, FreeNextOK, Zenon
  <2> QED
    BY <2>1, <2>4, Zenon DEF FreeNext
<1>5. CASE TestAndSet(c)
  <2> DEFINE w == IF k.bit \in pgbits THEN FreeNext(k) ELSE [k EXCEPT !.pc = "inc"]
  <2>1. /\ call' = [call EXCEPT ![c] = w] /\ k.pc = "set" /\ pgbits' = pgbits \cup {k.bit}
        /\ UNCHANGED <<pnow, pages, alone>>
    BY <1>5, Zenon DEF TestAndSet, To
  <2>2. w \in Calls /\ IF k.bit \in pgbits THEN w.pc \in {"idle", "set"} ELSE w.pc = "inc"
    <3>1. [k EXCEPT !.pc = "inc"] \in Calls /\ [k EXCEPT !.pc = "inc"].pc = "inc"
      BY <1>1, Zenon DEF Calls, Points
    <3> QED
      BY <1>4, <2>1, <3>1, Zenon
  <2> HIDE DEF w
  <2>3. ASSUME Good(k, pgbits, pnow, pages)
        PROVE  Good(w, pgbits', pnow', pages')
    <3>1. pages = N /\ pnow <= pmax
      BY <2>1, <2>3, GoodPlain
    <3>2. CASE k.bit \in pgbits
      <4>1. pgbits' = pgbits
        BY <2>1, <3>2, Zenon
      <4> QED
        BY <2>1, <2>2, <3>1, <3>2, <4>1, GoodPlain
    <3>3. CASE k.bit \notin pgbits
      <4>1. pages' + 1 = Cardinality(pgbits')
        BY <1>2, <2>1, <3>1, <3>3, Zenon
      <4> QED
        BY <2>1, <2>2, <3>1, <3>3, <4>1, Zenon DEF Good, Counted, Scanned
    <3> QED
      BY <3>2, <3>3, Zenon
  <2> QED
    BY <2>1, <2>2, <2>3, AloneStep, Zenon
<1>6. CASE IncLoad(c)
  <2> DEFINE r == (pages + 1) % ULONG
  <2> DEFINE w == [k EXCEPT !.pc = "incstore", !.reg = r]
  <2>1. r \in 0..(ULONG - 1)
    BY <1>1, ModType
  <2>2. /\ call' = [call EXCEPT ![c] = w] /\ k.pc = "inc"
        /\ UNCHANGED <<pgbits, pnow, pages, alone>>
    BY <1>6, Zenon DEF IncLoad, To
  <2>3. ASSUME pages + 1 = N PROVE r = N
    BY <1>2, <2>3, ModULong, Zenon
  <2> HIDE DEF r
  <2>4. w \in Calls /\ w.pc = "incstore" /\ w.reg = r
    BY <1>1, <2>1, Zenon DEF Calls, Points
  <2> HIDE DEF w
  <2>5. ASSUME Good(k, pgbits, pnow, pages)
        PROVE  Good(w, pgbits', pnow', pages')
    <3>1. pages + 1 = N /\ pnow <= pmax
      BY <2>2, <2>5, Zenon DEF Good, Counted
    <3> QED
      BY <2>2, <2>3, <2>4, <3>1, Zenon DEF Good, Counted, Scanned
  <2> QED
    BY <2>2, <2>4, <2>5, AloneStep, Zenon
<1>7. CASE IncStore(c)
  <2>1. /\ call' = [call EXCEPT ![c] = FreeNext(k)] /\ k.pc = "incstore" /\ pages' = k.reg
        /\ UNCHANGED <<pgbits, pnow, alone>>
    BY <1>7, Zenon DEF IncStore, To
  <2>2. ASSUME Good(k, pgbits, pnow, pages)
        PROVE  Good(FreeNext(k), pgbits', pnow', pages')
    <3>1. k.reg = N /\ pnow <= pmax
      BY <2>1, <2>2, Zenon DEF Good, Counted
    <3> QED
      BY <1>4, <2>1, <3>1, GoodPlain
  <2> QED
    BY <1>4, <2>1, <2>2, AloneStep, Zenon
<1> QED
  BY <1>3, <1>5, <1>6, <1>7, Zenon DEF FreeStep

\* The inductive invariant of a boot processor that is alone: relative to IInv
\* it holds initially and every step keeps it.
THEOREM AloneInvariance == Spec => []AloneInv
<1>1. Init => AloneInv
  <2> SUFFICES ASSUME Init PROVE AloneInv
    BY Zenon
  <2>1. PICK c \in CPUs : TRUE
    BY PhyMemAssumption, Zenon
  <2>2. \A d \in CPUs : call[d].pc = "idle"
    BY Zenon DEF Init, Idle
  <2>3. pages = Cardinality(pgbits) /\ pnow <= pmax
    BY WordOf, FS_EmptySet DEF Init
  <2>4. Good(call[c], pgbits, pnow, pages)
    BY <2>2, <2>3, GoodPlain
  <2> QED
    BY <2>2, <2>4, Zenon DEF AloneInv
<1>2. IInv /\ AloneInv /\ [Next]_vars => AloneInv'
  <2> SUFFICES ASSUME IInv, AloneInv, [Next]_vars PROVE AloneInv'
    BY Zenon
  <2>1. CASE Next
    BY <2>1, AloneScan, AloneAlloc, AloneFree, Zenon DEF Next, AllocStep
  <2>2. CASE UNCHANGED vars
    BY <2>2, Zenon DEF vars, AloneInv
  <2> QED
    BY <2>1, <2>2, Zenon
<1> QED
  BY <1>1, <1>2, Invariance, PTL DEF Spec

\* As long as no two calls of phymem.c have overlapped, for every bitmap, every
\* set of pages and wherever pnow is: pages is the number of free pages
\* between two calls, get_none_zero never leaves the bitmap, and with whole
\* words alloc_phy_page returns 0 only when no page is free.
THEOREM CountAndScan == Spec => []PhyMemSafe
<1>1. IInv /\ AloneInv => PhyMemSafe
  <2> SUFFICES ASSUME IInv, AloneInv PROVE PhyMemSafe
    BY Zenon
  <2>1. ASSUME alone
        PROVE  \E c \in CPUs : /\ \A d \in CPUs \ {c} : call[d].pc = "idle"
                               /\ Good(call[c], pgbits, pnow, pages)
    BY <2>1, Zenon DEF AloneInv
  <2>2. CountExact
    BY <2>1, GoodPlain DEF CountExact
  <2>3. ScanInBounds
    <3> SUFFICES ASSUME alone, NEW d \in CPUs, call[d].pc = "wild" PROVE FALSE
      BY Zenon DEF ScanInBounds
    <3> QED
      BY <2>1, Zenon DEF Good
  <2>4. ZeroMeansNone
    <3> SUFFICES ASSUME alone, Bits % WORD = 0, NEW d \in CPUs, call[d].pc = "none" PROVE pgbits = {}
      BY Zenon DEF ZeroMeansNone
    <3> QED
      BY <2>1, Zenon DEF Good
  <2> QED
    BY <2>2, <2>3, <2>4, Zenon DEF PhyMemSafe, IInv
<1> QED
  BY <1>1, Invariance, AloneInvariance, PTL

=============================================================================
