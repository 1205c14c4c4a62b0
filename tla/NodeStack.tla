----------------------------- MODULE NodeStack -----------------------------
(***************************************************************************)
(* What the lock-less list of include/yaos/llist.h promises: a stack of    *)
(* nodes, each of them in the stack, in the hand of one thread or free,    *)
(* on which every call takes effect at one moment.                         *)
(***************************************************************************)
EXTENDS Naturals, Sequences, Functions

CONSTANTS Threads, Nodes

VARIABLES
  stack,  \* the newest node first
  hand,   \* per thread, the nodes it is to add or was given
  free,   \* the other nodes
  was     \* per thread, the last llist_add answered that the list was empty

vars == <<stack, hand, free, was>>

Reversed(s) == [i \in 1..Len(s) |-> s[(Len(s) - i) + 1]]
SeqsUpTo(S, n) == UNION {[1..m -> S] : m \in 0..n}

Init ==
  /\ stack = <<>> /\ free = Nodes
  /\ hand = [t \in Threads |-> <<>>] /\ was = [t \in Threads |-> FALSE]

Prepare(t, s) ==
  /\ hand[t] = <<>> /\ IsInjective(s)
  /\ hand' = [hand EXCEPT ![t] = s] /\ free' = free \ Range(s)
  /\ UNCHANGED <<stack, was>>

Push(t) ==
  /\ hand[t] # <<>>
  /\ stack' = hand[t] \o stack
  /\ hand' = [hand EXCEPT ![t] = <<>>]
  /\ was' = [was EXCEPT ![t] = (stack = <<>>)]
  /\ UNCHANGED free

Pop(t) ==
  /\ hand[t] = <<>> /\ stack # <<>>
  /\ hand' = [hand EXCEPT ![t] = <<Head(stack)>>] /\ stack' = Tail(stack)
  /\ UNCHANGED <<free, was>>

PopAll(t) ==
  /\ hand[t] = <<>>
  /\ hand' = [hand EXCEPT ![t] = stack] /\ stack' = <<>>
  /\ UNCHANGED <<free, was>>

Turn(t) ==
  /\ hand' = [hand EXCEPT ![t] = Reversed(@)]
  /\ UNCHANGED <<stack, free, was>>

Release(t) ==
  /\ free' = free \cup Range(hand[t])
  /\ hand' = [hand EXCEPT ![t] = <<>>]
  /\ UNCHANGED <<stack, was>>

Next ==
  \E t \in Threads :
    \/ \E s \in SeqsUpTo(free, 2) : Prepare(t, s)
    \/ Push(t) \/ Pop(t) \/ PopAll(t) \/ Turn(t) \/ Release(t)

Spec == Init /\ [][Next]_vars
=============================================================================
