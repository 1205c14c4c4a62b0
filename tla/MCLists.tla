------------------------------ MODULE MCLists ------------------------------
(* One of three per behaviour: the lists of list.h and queue.h under any     *)
(* calls, llist.c's lock-free list between threads, or an atomic counter     *)
(* between processors.                                                       *)
EXTENDS Lists, LList, Atomic, TLC

VARIABLE part   \* what is looked at

MCFirst == {{}} \cup {{t} : t \in Threads}

AtomicCalls(fs, i, u) == [f : fs, i : i, u : u]
MCOps ==
  AtomicCalls({"set", "add", "sub", "sub_and_test", "add_negative", "add_return", "sub_return", "xchg"}, {2}, {0})
    \cup AtomicCalls({"inc", "dec", "inc_and_test", "dec_and_test", "dec_if_positive", "read"}, {0}, {0})
    \cup AtomicCalls({"add_unless"}, {1}, {0, 1}) \cup AtomicCalls({"cmpxchg"}, {1}, {0, 2})

\* Elements and threads are the same three values, and never both in use.
MCSymmetry == Permutations(Elems) \cup Permutations(Nodes)

Init ==
  /\ ListsInit /\ LListInit /\ AtomicInit
  /\ \/ part = "lists" /\ firsts = {}
     \/ part = "llist" /\ kind = "list"
     \/ part = "atomic" /\ firsts = {} /\ kind = "list"

Next ==
  /\ \/ part = "lists" /\ ListsNext /\ UNCHANGED <<llvars, avars>>
     \/ part = "llist" /\ LListNext /\ UNCHANGED <<listvars, avars>>
     \/ part = "atomic" /\ AtomicNext /\ UNCHANGED <<listvars, llvars>>
  /\ UNCHANGED part

Spec == Init /\ [][Next]_<<listvars, llvars, avars, part>>
=============================================================================
