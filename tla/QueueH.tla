------------------------------- MODULE QueueH -------------------------------
(***************************************************************************)
(* The macros of include/yaos/queue.h, on the memory of ListH: singly      *)
(* linked lists and tail queues, lists and tail queues.                    *)
(***************************************************************************)
EXTENDS ListH

-----------------------------------------------------------------------------
(* Singly-linked lists: field 1 is slh_first and sle_next *)

SLIST_INIT(m, head) == [m EXCEPT ![head, 1] = NULL]

SLIST_EMPTY(m, head) == m[head, 1] = NULL

SLIST_INSERT_AFTER(m, slistelm, elm) ==
  [m EXCEPT ![elm, 1] = m[slistelm, 1], ![slistelm, 1] = elm]

SLIST_INSERT_HEAD(m, head, elm) == [m EXCEPT ![elm, 1] = m[head, 1], ![head, 1] = elm]

SLIST_FOREACH(m, head) == Follow(m, m[head, 1], 1, LAMBDA p : p # NULL)

SLIST_REMOVE_AFTER(m, elm) == [m EXCEPT ![elm, 1] = m[m[elm, 1], 1]]

SLIST_REMOVE_HEAD(m, head) == [m EXCEPT ![head, 1] = m[m[head, 1], 1]]

\* The loop that stops at the entry before elm.
CurElm(m, head, elm) == Last(Follow(m, m[head, 1], 1, LAMBDA p : p # elm))

SLIST_REMOVE(m, head, elm) ==
  IF m[head, 1] = elm THEN SLIST_REMOVE_HEAD(m, head)
  ELSE SLIST_REMOVE_AFTER(m, CurElm(m, head, elm))

SLIST_SWAP(m, head1, head2) == [m EXCEPT ![head1, 1] = m[head2, 1], ![head2, 1] = m[head1, 1]]

SLIST_FOREACH_SAFE(m, head) ==
  DrainSafe(m, m[head, 1], 1, NULL, LAMBDA n, elm : SLIST_REMOVE(n, head, elm))

SLIST_FOREACH_FROM(m, var, head) == Follow(m, IF var # NULL THEN var ELSE m[head, 1], 1, LAMBDA p : p # NULL)
SLIST_FOREACH_FROM_SAFE(m, var, head) ==
  DrainSafe(m, IF var # NULL THEN var ELSE m[head, 1], 1, NULL, LAMBDA n, elm : SLIST_REMOVE(n, head, elm))

-----------------------------------------------------------------------------
(* Singly-linked tail queues: field 2 of a head is stqh_last, a cell *)

STAILQ_INIT(m, head) == [m EXCEPT ![head, 1] = NULL, ![head, 2] = <<head, 1>>]

STAILQ_EMPTY(m, head) == m[head, 1] = NULL

STAILQ_CONCAT(m, head1, head2) ==
  IF STAILQ_EMPTY(m, head2) THEN m
  ELSE STAILQ_INIT([m EXCEPT ![m[head1, 2]] = m[head2, 1], ![head1, 2] = m[head2, 2]], head2)

STAILQ_INSERT_AFTER(m, head, tqelm, elm) ==
  [When(m[tqelm, 1] = NULL, [m EXCEPT ![elm, 1] = m[tqelm, 1]], <<head, 2>>, <<elm, 1>>)
     EXCEPT ![tqelm, 1] = elm]

STAILQ_INSERT_HEAD(m, head, elm) ==
  [When(m[head, 1] = NULL, [m EXCEPT ![elm, 1] = m[head, 1]], <<head, 2>>, <<elm, 1>>)
     EXCEPT ![head, 1] = elm]

STAILQ_INSERT_TAIL(m, head, elm) ==
  [m EXCEPT ![elm, 1] = NULL, ![m[head, 2]] = elm, ![head, 2] = <<elm, 1>>]

\* The entry whose stqe_next the cell stqh_last is.
STAILQ_LAST(m, head) == IF STAILQ_EMPTY(m, head) THEN NULL ELSE m[head, 2][1]

\* Mutant: stqh_last is left when the last entry goes.
STAILQ_REMOVE_AFTERKeepsLast(m, head, elm) == [m EXCEPT ![elm, 1] = m[m[elm, 1], 1]]

STAILQ_REMOVE_AFTER(m, head, elm) ==
  LET next == m[m[elm, 1], 1]
  IN  When(next = NULL, [m EXCEPT ![elm, 1] = next], <<head, 2>>, <<elm, 1>>)

STAILQ_REMOVE_HEAD(m, head) ==
  LET next == m[m[head, 1], 1]
  IN  When(next = NULL, [m EXCEPT ![head, 1] = next], <<head, 2>>, <<head, 1>>)

STAILQ_REMOVE(m, head, elm) ==
  IF m[head, 1] = elm THEN STAILQ_REMOVE_HEAD(m, head)
  ELSE STAILQ_REMOVE_AFTER(m, head, CurElm(m, head, elm))

STAILQ_SWAP(m, head1, head2) ==
  LET a == [m EXCEPT ![head1, 1] = m[head2, 1], ![head1, 2] = m[head2, 2],
                     ![head2, 1] = m[head1, 1], ![head2, 2] = m[head1, 2]]
      b == When(STAILQ_EMPTY(a, head1), a, <<head1, 2>>, <<head1, 1>>)
  IN  When(STAILQ_EMPTY(b, head2), b, <<head2, 2>>, <<head2, 1>>)

STAILQ_FOREACH(m, head) == Follow(m, m[head, 1], 1, LAMBDA p : p # NULL)

STAILQ_FOREACH_SAFE(m, head) ==
  DrainSafe(m, m[head, 1], 1, NULL, LAMBDA n, elm : STAILQ_REMOVE(n, head, elm))

STAILQ_FOREACH_FROM(m, var, head) == Follow(m, IF var # NULL THEN var ELSE m[head, 1], 1, LAMBDA p : p # NULL)
STAILQ_FOREACH_FROM_SAFE(m, var, head) ==
  DrainSafe(m, IF var # NULL THEN var ELSE m[head, 1], 1, NULL, LAMBDA n, elm : STAILQ_REMOVE(n, head, elm))

-----------------------------------------------------------------------------
(* Lists: field 2 of an entry is le_prev, the cell that points to it *)

LIST_INIT(m, head) == [m EXCEPT ![head, 1] = NULL]

LIST_EMPTY(m, head) == m[head, 1] = NULL

LIST_INSERT_AFTER(m, listelm, elm) ==
  LET next == m[listelm, 1]
  IN  [When(next # NULL, [m EXCEPT ![elm, 1] = next], <<next, 2>>, <<elm, 1>>)
         EXCEPT ![listelm, 1] = elm, ![elm, 2] = <<listelm, 1>>]

LIST_INSERT_BEFORE(m, listelm, elm) ==
  LET prev == m[listelm, 2]
  IN  [m EXCEPT ![elm, 2] = prev, ![elm, 1] = listelm, ![prev] = elm, ![listelm, 2] = <<elm, 1>>]

LIST_INSERT_HEAD(m, head, elm) ==
  LET first == m[head, 1]
  IN  [When(first # NULL, [m EXCEPT ![elm, 1] = first], <<first, 2>>, <<elm, 1>>)
         EXCEPT ![head, 1] = elm, ![elm, 2] = <<head, 1>>]

LIST_PREV(m, elm, head) == IF m[elm, 2] = <<head, 1>> THEN NULL ELSE m[elm, 2][1]

LIST_REMOVE(m, elm) ==
  [When(m[elm, 1] # NULL, m, <<m[elm, 1], 2>>, m[elm, 2]) EXCEPT ![m[elm, 2]] = m[elm, 1]]

LIST_SWAP(m, head1, head2) ==
  LET a == [m EXCEPT ![head1, 1] = m[head2, 1], ![head2, 1] = m[head1, 1]]
      b == When(a[head1, 1] # NULL, a, <<a[head1, 1], 2>>, <<head1, 1>>)
  IN  When(b[head2, 1] # NULL, b, <<b[head2, 1], 2>>, <<head2, 1>>)

LIST_FOREACH(m, head) == Follow(m, m[head, 1], 1, LAMBDA p : p # NULL)

LIST_FOREACH_SAFE(m, head) == DrainSafe(m, m[head, 1], 1, NULL, LIST_REMOVE)

LIST_FOREACH_FROM(m, var, head) == Follow(m, IF var # NULL THEN var ELSE m[head, 1], 1, LAMBDA p : p # NULL)
LIST_FOREACH_FROM_SAFE(m, var, head) ==
  DrainSafe(m, IF var # NULL THEN var ELSE m[head, 1], 1, NULL, LIST_REMOVE)

-----------------------------------------------------------------------------
(* Tail queues *)

TAILQ_INIT(m, head) == [m EXCEPT ![head, 1] = NULL, ![head, 2] = <<head, 1>>]

TAILQ_EMPTY(m, head) == m[head, 1] = NULL

TAILQ_CONCAT(m, head1, head2) ==
  IF TAILQ_EMPTY(m, head2) THEN m
  ELSE TAILQ_INIT([m EXCEPT ![m[head1, 2]] = m[head2, 1], ![m[head2, 1], 2] = m[head1, 2],
                            ![head1, 2] = m[head2, 2]], head2)

TAILQ_INSERT_AFTER(m, head, listelm, elm) ==
  LET next == m[listelm, 1]
      a == [m EXCEPT ![elm, 1] = next]
      b == IF next # NULL THEN [a EXCEPT ![next, 2] = <<elm, 1>>]
           ELSE [a EXCEPT ![head, 2] = <<elm, 1>>]
  IN  [b EXCEPT ![listelm, 1] = elm, ![elm, 2] = <<listelm, 1>>]

TAILQ_INSERT_BEFORE(m, listelm, elm) ==
  LET prev == m[listelm, 2]
  IN  [m EXCEPT ![elm, 2] = prev, ![elm, 1] = listelm, ![prev] = elm, ![listelm, 2] = <<elm, 1>>]

TAILQ_INSERT_HEAD(m, head, elm) ==
  LET first == m[head, 1]
      a == [m EXCEPT ![elm, 1] = first]
      b == IF first # NULL THEN [a EXCEPT ![first, 2] = <<elm, 1>>]
           ELSE [a EXCEPT ![head, 2] = <<elm, 1>>]
  IN  [b EXCEPT ![head, 1] = elm, ![elm, 2] = <<head, 1>>]

TAILQ_INSERT_TAIL(m, head, elm) ==
  [m EXCEPT ![elm, 1] = NULL, ![elm, 2] = m[head, 2], ![m[head, 2]] = elm, ![head, 2] = <<elm, 1>>]

\* The cell tqh_last or tqe_prev is read as a head: its second field is the
\* cell that points to the structure it lies in.
TAILQ_LAST(m, head) == m[m[m[head, 2][1], 2]]

TAILQ_PREV(m, elm) == m[m[m[elm, 2][1], 2]]

TAILQ_REMOVE(m, head, elm) ==
  LET a == IF m[elm, 1] # NULL THEN [m EXCEPT ![m[elm, 1], 2] = m[elm, 2]]
           ELSE [m EXCEPT ![head, 2] = m[elm, 2]]
  IN  [a EXCEPT ![m[elm, 2]] = m[elm, 1]]

TAILQ_SWAP(m, head1, head2) ==
  LET a == [m EXCEPT ![head1, 1] = m[head2, 1], ![head1, 2] = m[head2, 2],
                     ![head2, 1] = m[head1, 1], ![head2, 2] = m[head1, 2]]
      Home(n, h) == IF n[h, 1] # NULL THEN [n EXCEPT ![n[h, 1], 2] = <<h, 1>>]
                    ELSE [n EXCEPT ![h, 2] = <<h, 1>>]
  IN  Home(Home(a, head1), head2)

TAILQ_FOREACH(m, head) == Follow(m, m[head, 1], 1, LAMBDA p : p # NULL)

TAILQ_FOREACH_SAFE(m, head) ==
  DrainSafe(m, m[head, 1], 1, NULL, LAMBDA n, elm : TAILQ_REMOVE(n, head, elm))

TAILQ_FOREACH_FROM(m, var, head) == Follow(m, IF var # NULL THEN var ELSE m[head, 1], 1, LAMBDA p : p # NULL)
TAILQ_FOREACH_FROM_SAFE(m, var, head) ==
  DrainSafe(m, IF var # NULL THEN var ELSE m[head, 1], 1, NULL, LAMBDA n, elm : TAILQ_REMOVE(n, head, elm))

TAILQ_FOREACH_REVERSE_FROM(m, var, head) ==
  LET first == IF var # NULL THEN var ELSE TAILQ_LAST(m, head)
      walk[n \in 0..Cardinality(Elems)] ==
        IF n = 0 THEN IF first = NULL THEN <<>> ELSE <<first>>
        ELSE LET w == walk[n - 1]
             IN  IF w # <<>> /\ TAILQ_PREV(m, Last(w)) # NULL
                 THEN Append(w, TAILQ_PREV(m, Last(w))) ELSE w
  IN  walk[Cardinality(Elems)]

TAILQ_FOREACH_REVERSE(m, head) == TAILQ_FOREACH_REVERSE_FROM(m, NULL, head)

TAILQ_FOREACH_REVERSE_FROM_SAFE(m, var, head) ==
  LET round[n \in 0..Cardinality(Elems)] ==
        IF n = 0 THEN [m |-> m, pos |-> IF var # NULL THEN var ELSE TAILQ_LAST(m, head), seen |-> <<>>]
        ELSE LET r == round[n - 1]
             IN  IF r.pos = NULL THEN r
                 ELSE [m |-> TAILQ_REMOVE(r.m, head, r.pos), pos |-> TAILQ_PREV(r.m, r.pos),
                       seen |-> Append(r.seen, r.pos)]
  IN  round[Cardinality(Elems)]

TAILQ_FOREACH_REVERSE_SAFE(m, head) == TAILQ_FOREACH_REVERSE_FROM_SAFE(m, NULL, head)
=============================================================================
