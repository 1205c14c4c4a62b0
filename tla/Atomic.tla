-------------------------------- MODULE Atomic --------------------------------
(***************************************************************************)
(* The atomic counter of arch/x86_64/include/asm/atomic.h, one action per  *)
(* access to it.  Most operations are one locked instruction;              *)
(* atomic_add_unless and atomic_dec_if_positive read the counter and then  *)
(* retry a locked cmpxchg until it finds what was read.                    *)
(***************************************************************************)
EXTENDS Integers

CONSTANTS Cpus,
          LONGS,     \* the number of values of a long, 2^64
          Ops,       \* the calls, [f, i, u]: function and arguments
          MaxCalls   \* bound on the number of calls

ASSUME LongsAssumption == LONGS \in Nat \ {0}
ASSUME OpsAssumption ==
  Ops \subseteq
    [f : {"set", "read", "add", "sub", "inc", "dec", "sub_and_test", "dec_and_test", "inc_and_test",
          "add_negative", "add_return", "sub_return", "cmpxchg", "xchg", "add_unless", "dec_if_positive"},
     i : Int, u : Int]

VARIABLES counter,   \* v->counter
          todo,        \* todo[c]: the call in progress, <<>> for none
          c0,        \* c0[c]: the local variable c of the retry loops, <<>> before the read
          ret,       \* ret[c]: <<>> until the call is about to return, then its value
          calls

avars == <<counter, todo, c0, ret, calls>>

\* A 64-bit signed addition.
long(x) == ((x + LONGS \div 2) % LONGS) - LONGS \div 2
bool(b) == IF b THEN 1 ELSE 0
loops == {"add_unless", "dec_if_positive"}

AtomicInit ==
  /\ counter = 0
  /\ todo = [c \in Cpus |-> <<>>]
  /\ c0 = [c \in Cpus |-> <<>>]
  /\ ret = [c \in Cpus |-> <<>>]
  /\ calls = 0

AtomicCall(c) ==
  /\ todo[c] = <<>> /\ calls < MaxCalls
  /\ \E o \in Ops : todo' = [todo EXCEPT ![c] = <<o>>]
  /\ calls' = calls + 1
  /\ UNCHANGED <<counter, c0, ret>>

\* One instruction: the counter it leaves and the value that the function
\* makes of its flags or of the old value.
addq(i) == long(counter + i)

atomic_set(i) == [new |-> i, ret |-> 0]
atomic_read == [new |-> counter, ret |-> counter]
atomic_add(i) == [new |-> addq(i), ret |-> 0]
atomic_sub(i) == [new |-> addq(0 - i), ret |-> 0]
atomic_inc == atomic_add(1)
atomic_dec == atomic_sub(1)
atomic_sub_and_test(i) == [new |-> addq(0 - i), ret |-> bool(addq(0 - i) = 0)]
atomic_dec_and_test == [new |-> addq(0 - 1), ret |-> bool(addq(0 - 1) = 0)]
atomic_inc_and_test == [new |-> addq(1), ret |-> bool(addq(1) = 0)]
atomic_add_negative(i) == [new |-> addq(i), ret |-> bool(addq(i) < 0)]
\* The exchanges of cmpxchg.h, which return the value they found.
xadd(i) == [new |-> long(counter + i), ret |-> counter]
xchg(new) == [new |-> new, ret |-> counter]
cmpxchg(old, new) == [new |-> IF counter = old THEN new ELSE counter, ret |-> counter]

atomic_add_return(i) == [new |-> xadd(i).new, ret |-> long(i + xadd(i).ret)]
atomic_sub_return(i) == atomic_add_return(0 - i)
atomic_cmpxchg(old, new) == cmpxchg(old, new)
atomic_xchg(new) == xchg(new)

Does(c, r) == counter' = r.new /\ ret' = [ret EXCEPT ![c] = <<r.ret>>]

Instruction(c) ==
  LET o == todo[c][1]
  IN  /\ todo[c] # <<>> /\ ret[c] = <<>>
      /\ \/ o.f = "set" /\ Does(c, atomic_set(o.i))
         \/ o.f = "read" /\ Does(c, atomic_read)
         \/ o.f = "add" /\ Does(c, atomic_add(o.i))
         \/ o.f = "sub" /\ Does(c, atomic_sub(o.i))
         \/ o.f = "inc" /\ Does(c, atomic_inc)
         \/ o.f = "dec" /\ Does(c, atomic_dec)
         \/ o.f = "sub_and_test" /\ Does(c, atomic_sub_and_test(o.i))
         \/ o.f = "dec_and_test" /\ Does(c, atomic_dec_and_test)
         \/ o.f = "inc_and_test" /\ Does(c, atomic_inc_and_test)
         \/ o.f = "add_negative" /\ Does(c, atomic_add_negative(o.i))
         \/ o.f = "add_return" /\ Does(c, atomic_add_return(o.i))
         \/ o.f = "sub_return" /\ Does(c, atomic_sub_return(o.i))
         \/ o.f = "cmpxchg" /\ Does(c, atomic_cmpxchg(o.u, o.i))
         \/ o.f = "xchg" /\ Does(c, atomic_xchg(o.i))
      /\ UNCHANGED <<todo, c0, calls>>

\* The test at the top of the loop, on the value c: leave it, or go on to the
\* cmpxchg.
LoopTop(c, v) ==
  LET o == todo[c][1]
      stop == IF o.f = "add_unless" THEN v = o.u ELSE v - 1 < 0
      left == IF o.f = "add_unless" THEN 0 ELSE v - 1
  IN  /\ ret' = [ret EXCEPT ![c] = IF stop THEN <<left>> ELSE <<>>]
      /\ c0' = [c0 EXCEPT ![c] = IF stop THEN <<>> ELSE <<v>>]

LoopRead(c) ==
  /\ todo[c] # <<>> /\ ret[c] = <<>> /\ c0[c] = <<>> /\ todo[c][1].f \in loops
  /\ LoopTop(c, counter)
  /\ UNCHANGED <<counter, todo, calls>>

\* Mutant: the answer of the cmpxchg is not looked at.
LoopCasBlind(c) ==
  /\ c0[c] # <<>>
  /\ LET o == todo[c][1]
         v == c0[c][1]
         r == atomic_cmpxchg(v, IF o.f = "add_unless" THEN long(v + o.i) ELSE v - 1)
     IN  /\ counter' = r.new
         /\ ret' = [ret EXCEPT ![c] = <<IF o.f = "add_unless" THEN 1 ELSE v - 1>>]
         /\ c0' = [c0 EXCEPT ![c] = <<>>]
  /\ UNCHANGED <<todo, calls>>

LoopCas(c) ==
  /\ c0[c] # <<>>
  /\ LET o == todo[c][1]
         v == c0[c][1]
         r == atomic_cmpxchg(v, IF o.f = "add_unless" THEN long(v + o.i) ELSE v - 1)
     IN  /\ counter' = r.new
         /\ IF r.ret = v
            THEN /\ ret' = [ret EXCEPT ![c] = <<IF o.f = "add_unless" THEN 1 ELSE v - 1>>]
                 /\ c0' = [c0 EXCEPT ![c] = <<>>]
            ELSE LoopTop(c, r.ret)
  /\ UNCHANGED <<todo, calls>>

AtomicReturn(c) ==
  /\ ret[c] # <<>>
  /\ todo' = [todo EXCEPT ![c] = <<>>]
  /\ ret' = [ret EXCEPT ![c] = <<>>]
  /\ UNCHANGED <<counter, c0, calls>>

AtomicNext ==
  \E c \in Cpus : \/ AtomicCall(c)
                  \/ Instruction(c)
                  \/ LoopRead(c)
                  \/ LoopCas(c)
                  \/ AtomicReturn(c)

AtomicSpec == AtomicInit /\ [][AtomicNext]_avars
-----------------------------------------------------------------------------
Object == INSTANCE AtomicObject WITH value <- counter, asked <- todo, answer <- ret

\* Every call acts on the counter in one step and returns what that step saw,
\* the retry loops included: none is lost and none acts twice, whatever the
\* other processors do between the read and the cmpxchg.
ActsAtomically == Object!ObjectSpec
=============================================================================
