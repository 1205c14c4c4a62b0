----------------------------- MODULE AtomicObject -----------------------------
(***************************************************************************)
(* What asm/atomic.h promises: a counter of LONGS values on which each     *)
(* call acts in one step, at some moment between its invocation and its    *)
(* return.                                                                 *)
(***************************************************************************)
EXTENDS Integers

CONSTANTS Cpus, LONGS, Ops

VARIABLES value,     \* the counter
          asked,     \* asked[c]: the call of processor c, <<>> when it has none
          answer     \* answer[c]: <<>> until the call has acted, then what it returns

ovars == <<value, asked, answer>>

Wrap(x) == ((x + LONGS \div 2) % LONGS) - LONGS \div 2
Truth(b) == IF b THEN 1 ELSE 0

ObjectInit ==
  /\ value = 0
  /\ asked = [c \in Cpus |-> <<>>]
  /\ answer = [c \in Cpus |-> <<>>]

Invoke(c) ==
  /\ asked[c] = <<>>
  /\ \E op \in Ops : asked' = [asked EXCEPT ![c] = <<op>>]
  /\ UNCHANGED <<value, answer>>

\* The call acts: the value it leaves, and what it will return.
Becomes(c, new, r) == value' = new /\ answer' = [answer EXCEPT ![c] = <<r>>]

Act(c) ==
  LET op == asked[c][1]
      sum == Wrap(value + op.i)
      difference == Wrap(value - op.i)
  IN  /\ asked[c] # <<>> /\ answer[c] = <<>>
      /\ \/ op.f = "set" /\ Becomes(c, op.i, 0)
         \/ op.f = "read" /\ Becomes(c, value, value)
         \/ op.f = "add" /\ Becomes(c, sum, 0)
         \/ op.f = "sub" /\ Becomes(c, difference, 0)
         \/ op.f = "inc" /\ Becomes(c, Wrap(value + 1), 0)
         \/ op.f = "dec" /\ Becomes(c, Wrap(value - 1), 0)
         \/ op.f = "sub_and_test" /\ Becomes(c, difference, Truth(difference = 0))
         \/ op.f = "dec_and_test" /\ Becomes(c, Wrap(value - 1), Truth(Wrap(value - 1) = 0))
         \/ op.f = "inc_and_test" /\ Becomes(c, Wrap(value + 1), Truth(Wrap(value + 1) = 0))
         \/ op.f = "add_negative" /\ Becomes(c, sum, Truth(sum < 0))
         \/ op.f = "add_return" /\ Becomes(c, sum, sum)
         \/ op.f = "sub_return" /\ Becomes(c, difference, difference)
         \/ op.f = "cmpxchg" /\ Becomes(c, IF value = op.u THEN op.i ELSE value, value)
         \/ op.f = "xchg" /\ Becomes(c, op.i, value)
         \/ op.f = "add_unless" /\ IF value = op.u THEN Becomes(c, value, 0) ELSE Becomes(c, sum, 1)
         \/ op.f = "dec_if_positive" /\ Becomes(c, IF value >= 1 THEN value - 1 ELSE value, value - 1)
      /\ UNCHANGED asked

Return(c) ==
  /\ answer[c] # <<>>
  /\ asked' = [asked EXCEPT ![c] = <<>>]
  /\ answer' = [answer EXCEPT ![c] = <<>>]
  /\ UNCHANGED value

ObjectNext == \E c \in Cpus : Invoke(c) \/ Act(c) \/ Return(c)
ObjectSpec == ObjectInit /\ [][ObjectNext]_ovars
=============================================================================
