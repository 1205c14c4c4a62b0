------------------------------- MODULE LList -------------------------------
(***************************************************************************)
(* The lock-less list, libs/list/llist.c and include/yaos/llist.h, used by *)
(* several threads as the table in llist.h allows: any number of them add, *)
(* and either any number call llist_del_all or one calls llist_del_first   *)
(* and llist_del_all.  A node that was deleted is added again, by any      *)
(* thread, alone or in a batch.                                            *)
(*                                                                         *)
(* A read or a compare-and-exchange of head->first is one step, and so is  *)
(* the read of entry->next.  A thread's private chain is given by its ends *)
(* (head and last).                                                        *)
(***************************************************************************)
EXTENDS Naturals, Sequences, FiniteSets, FiniteSetsExt, Functions

CONSTANTS
  Threads,
  First,     \* the sets of threads that may call llist_del_first
  Nodes,
  null       \* NULL

\* "only one llist_del_first user": no set has two threads.
ASSUME LListAssumption ==
  /\ IsFiniteSet(Nodes) /\ null \notin Nodes
  /\ \A F \in First : \A s, t \in F : s = t

VARIABLES
  first,   \* head->first
  next,    \* node->next
  call,    \* per thread: the point it is at and its locals
  firsts,  \* the threads that call llist_del_first
  free,    \* history: the nodes nobody uses
  was      \* the last answer of llist_add

llvars == <<first, next, call, firsts, free, was>>

LastOf(s) == s[Len(s)]
FrontOf(s) == SubSeq(s, 1, Len(s) - 1)
Reversed(s) == [i \in 1..Len(s) |-> s[(Len(s) - i) + 1]]
SeqsUpTo(S, n) == UNION {[1..m -> S] : m \in 0..n}

\* The chain from a: up to the node z, or to the end of the list.
Chain(a, z) ==
  LET walk[n \in 0..Cardinality(Nodes)] ==
        IF n = 0 THEN IF a = null THEN <<>> ELSE <<a>>
        ELSE LET w == walk[n - 1]
             IN  IF w = <<>> \/ LastOf(w) = z \/ next[LastOf(w)] = null THEN w
                 ELSE Append(w, next[LastOf(w)])
  IN  walk[Cardinality(Nodes)]

\* The links of f, with the nodes of s linked in their order.
Linked(f, s) ==
  [n \in Nodes |-> IF n \in Range(FrontOf(s)) THEN s[Min({i \in 2..Len(s) : s[i - 1] = n})] ELSE f[n]]

At(pc, head, last) ==
  [pc |-> pc, head |-> head, last |-> last, seen |-> null, next |-> null]

To(t, c) == call' = [call EXCEPT ![t] = c]

\* init_llist_head
LListInit ==
  /\ first = null
  /\ next = [n \in Nodes |-> null]
  /\ call = [t \in Threads |-> At("idle", null, null)]
  /\ firsts \in First
  /\ free = Nodes /\ was = [t \in Threads |-> FALSE]

\* A caller links the entries of a batch: new_first and new_last are its ends.
Prepared(t, s) ==
  /\ call[t].pc = "idle" /\ IsInjective(s)
  /\ next' = Linked(next, s)
  /\ To(t, At("hand", Head(s), LastOf(s)))
  /\ free' = free \ Range(s)
  /\ UNCHANGED <<first, firsts, was>>

-----------------------------------------------------------------------------
(* llist_add_batch(new_first, new_last, head) *)

\* new_last->next = first = ACCESS_ONCE(head->first)
AddLoad(t) ==
  /\ call[t].pc \in {"hand", "add"}
  /\ next' = [next EXCEPT ![call[t].last] = first]
  /\ To(t, [call[t] EXCEPT !.pc = "cas", !.seen = first])
  /\ UNCHANGED <<first, firsts, free, was>>

\* Mutant: the loop tries the exchange again with the new value of head->first,
\* and the last node keeps the link it has.
AddCasKeeps(t) ==
  /\ call[t].pc = "cas"
  /\ IF first = call[t].seen
     THEN /\ first' = call[t].head
          /\ To(t, At("idle", null, null))
          /\ was' = [was EXCEPT ![t] = (call[t].seen = null)]
     ELSE To(t, [call[t] EXCEPT !.seen = first]) /\ UNCHANGED <<first, was>>
  /\ UNCHANGED <<next, firsts, free>>

\* while (cmpxchg(&head->first, first, new_first) != first);  return !first;
AddCas(t) ==
  /\ call[t].pc = "cas"
  /\ IF first = call[t].seen
     THEN /\ first' = call[t].head
          /\ To(t, At("idle", null, null))
          /\ was' = [was EXCEPT ![t] = (call[t].seen = null)]
     ELSE To(t, [call[t] EXCEPT !.pc = "add"]) /\ UNCHANGED <<first, was>>
  /\ UNCHANGED <<next, firsts, free>>

-----------------------------------------------------------------------------
(* llist_del_first(head) *)

\* entry = head->first; if (entry == NULL) return NULL;
DelFirstLoad(t) ==
  /\ call[t].pc = "idle" /\ t \in firsts /\ first # null
  /\ To(t, [call[t] EXCEPT !.pc = "next", !.seen = first])
  /\ UNCHANGED <<first, next, firsts, free, was>>

\* next = entry->next;
DelFirstNext(t) ==
  /\ call[t].pc = "next"
  /\ To(t, [call[t] EXCEPT !.pc = "swap", !.next = next[call[t].seen]])
  /\ UNCHANGED <<first, next, firsts, free, was>>

\* entry = cmpxchg(&head->first, old_entry, next); once more unless it was
\* old_entry
DelFirstCas(t) ==
  /\ call[t].pc = "swap"
  /\ IF first = call[t].seen
     THEN first' = call[t].next /\ To(t, At("hand", first, first))
     ELSE /\ UNCHANGED first
          /\ To(t, IF first = null THEN At("idle", null, null)
                   ELSE [call[t] EXCEPT !.pc = "next", !.seen = first])
  /\ UNCHANGED <<next, firsts, free, was>>

-----------------------------------------------------------------------------
\* llist_del_all: xchg(&head->first, NULL).  The caller can walk the chain to
\* its end with llist_for_each.
llist_del_all(t) ==
  /\ call[t].pc = "idle" /\ (firsts = {} \/ t \in firsts)
  /\ first # null
  /\ first' = null
  /\ To(t, At("hand", first, LastOf(Chain(first, null))))
  /\ UNCHANGED <<next, firsts, free, was>>

\* llist_reverse_order of a chain that ends with NULL.
llist_reverse_order(t) ==
  /\ call[t].pc = "hand" /\ next[call[t].last] = null
  /\ LET s == Chain(call[t].head, call[t].last)
     IN  next' = Linked([next EXCEPT ![Head(s)] = null], Reversed(s))
  /\ To(t, At("hand", call[t].last, call[t].head))
  /\ UNCHANGED <<first, firsts, free, was>>

\* The caller has no more use for the nodes it was given.
Released(t) ==
  /\ call[t].pc = "hand"
  /\ free' = free \cup Range(Chain(call[t].head, call[t].last))
  /\ To(t, At("idle", null, null))
  /\ UNCHANGED <<first, next, firsts, was>>

LListStep(t) ==
  \/ \E s \in SeqsUpTo(free, 2) \ {<<>>} : Prepared(t, s)
  \/ AddLoad(t) \/ AddCas(t)
  \/ DelFirstLoad(t) \/ DelFirstNext(t) \/ DelFirstCas(t)
  \/ llist_del_all(t) \/ llist_reverse_order(t) \/ Released(t)

LListNext == \E t \in Threads : LListStep(t)

LListSpec == LListInit /\ [][LListNext]_llvars

-----------------------------------------------------------------------------
(* The list is a stack *)

Holds(t) == call[t].pc \in {"hand", "add", "cas"}

HandsHeld == [t \in Threads |-> IF Holds(t) THEN Chain(call[t].head, call[t].last) ELSE <<>>]

Stack == INSTANCE NodeStack WITH stack <- Chain(first, null), hand <- HandsHeld

\* Used as llist.h allows, the list is a stack: whatever the threads do between
\* the steps of a call, every call takes effect at one moment, llist_del_all
\* gives the entries from the newest to the oldest, no node is lost, in two
\* hands or in the list twice, and llist_add answers truly whether the list was
\* empty.
IsStack == Stack!Spec
=============================================================================
