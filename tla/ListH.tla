------------------------------- MODULE ListH -------------------------------
(***************************************************************************)
(* The linked lists of include/yaos/list.h: the circular list of           *)
(* struct list_head and the hash list, as operators on the memory m.       *)
(*                                                                         *)
(* A cell <<x, i>> of m is field i of the structure x.  Field 1 is next    *)
(* (first, in a head) and field 2 is prev, pprev or last.  A pointer to a  *)
(* structure is the structure, a pointer to a pointer is a cell.  Stores   *)
(* are made in the order of the code.                                      *)
(***************************************************************************)
EXTENDS Naturals, Sequences, FiniteSets, SequencesExt

CONSTANTS Heads, Elems, NULL, POISON1, POISON2

Cells == (Heads \cup Elems) \X {1, 2}

\* if (c) *cell = v;
When(c, m, cell, v) == IF c THEN [m EXCEPT ![cell] = v] ELSE m

\* Follow field i from the pointer p for as long as go(p) holds: the loops
\* list_for_each, SLIST_FOREACH and their variants.  An entry is named by its
\* list_head, so container_of is the identity.
Follow(m, p, i, go(_)) ==
  LET walk[n \in 0..Cardinality(Elems)] ==
        IF n = 0 THEN IF go(p) THEN <<p>> ELSE <<>>
        ELSE LET w == walk[n - 1]
             IN  IF w # <<>> /\ go(m[Last(w), i]) THEN Append(w, m[Last(w), i]) ELSE w
  IN  walk[Cardinality(Elems)]

\* The safe loops, around a body that deletes each entry: the next pointer is
\* read before the body.
DrainSafe(m, p, i, end, del(_, _)) ==
  LET round[n \in 0..Cardinality(Elems)] ==
        IF n = 0 THEN [m |-> m, pos |-> p, seen |-> <<>>]
        ELSE LET r == round[n - 1]
             IN  IF r.pos = end THEN r
                 ELSE [m |-> del(r.m, r.pos), pos |-> r.m[r.pos, i], seen |-> Append(r.seen, r.pos)]
  IN  round[Cardinality(Elems)]

-----------------------------------------------------------------------------
(* struct list_head *)

INIT_LIST_HEAD(m, list) == [m EXCEPT ![list, 1] = list, ![list, 2] = list]

__list_add(m, new, prev, next) ==
  [m EXCEPT ![next, 2] = new, ![new, 1] = next, ![new, 2] = prev, ![prev, 1] = new]

list_add(m, new, head) == __list_add(m, new, head, m[head, 1])

list_add_tail(m, new, head) == __list_add(m, new, m[head, 2], head)

__list_del(m, prev, next) == [m EXCEPT ![next, 2] = prev, ![prev, 1] = next]

__list_del_entry(m, entry) == __list_del(m, m[entry, 2], m[entry, 1])

list_del(m, entry) ==
  [__list_del_entry(m, entry) EXCEPT ![entry, 1] = POISON1, ![entry, 2] = POISON2]

list_replace(m, old, new) ==
  LET a == [m EXCEPT ![new, 1] = m[old, 1]]
      b == [a EXCEPT ![a[new, 1], 2] = new]
      c == [b EXCEPT ![new, 2] = b[old, 2]]
  IN  [c EXCEPT ![c[new, 2], 1] = new]

list_replace_init(m, old, new) == INIT_LIST_HEAD(list_replace(m, old, new), old)

list_del_init(m, entry) == INIT_LIST_HEAD(__list_del_entry(m, entry), entry)

list_move(m, list, head) == list_add(__list_del_entry(m, list), list, head)

list_move_tail(m, list, head) == list_add_tail(__list_del_entry(m, list), list, head)

list_is_last(m, list, head) == m[list, 1] = head

list_empty(m, head) == m[head, 1] = head

list_empty_careful(m, head) == m[head, 1] = head /\ m[head, 1] = m[head, 2]

list_rotate_left(m, head) ==
  IF list_empty(m, head) THEN m ELSE list_move_tail(m, m[head, 1], head)

list_is_singular(m, head) == ~list_empty(m, head) /\ m[head, 1] = m[head, 2]

__list_cut_position(m, list, head, entry) ==
  LET new_first == m[entry, 1]
      a == [m EXCEPT ![list, 1] = m[head, 1]]
  IN  [a EXCEPT ![a[list, 1], 2] = list, ![list, 2] = entry, ![entry, 1] = list,
                ![head, 1] = new_first, ![new_first, 2] = head]

\* Mutant: a list of one entry is never cut.
list_cut_positionSingular(m, list, head, entry) ==
  IF list_empty(m, head) \/ list_is_singular(m, head) THEN m
  ELSE IF entry = head THEN INIT_LIST_HEAD(m, list)
  ELSE __list_cut_position(m, list, head, entry)

list_cut_position(m, list, head, entry) ==
  IF \/ list_empty(m, head)
     \/ list_is_singular(m, head) /\ m[head, 1] # entry /\ head # entry THEN m
  ELSE IF entry = head THEN INIT_LIST_HEAD(m, list)
  ELSE __list_cut_position(m, list, head, entry)

__list_splice(m, list, prev, next) ==
  LET first == m[list, 1]
      last == m[list, 2]
  IN  [m EXCEPT ![first, 2] = prev, ![prev, 1] = first, ![last, 1] = next, ![next, 2] = last]

list_splice(m, list, head) ==
  IF list_empty(m, list) THEN m ELSE __list_splice(m, list, head, m[head, 1])

list_splice_tail(m, list, head) ==
  IF list_empty(m, list) THEN m ELSE __list_splice(m, list, m[head, 2], head)

list_splice_init(m, list, head) ==
  IF list_empty(m, list) THEN m
  ELSE INIT_LIST_HEAD(__list_splice(m, list, head, m[head, 1]), list)

list_splice_tail_init(m, list, head) ==
  IF list_empty(m, list) THEN m
  ELSE INIT_LIST_HEAD(__list_splice(m, list, m[head, 2], head), list)

list_for_each(m, head) == Follow(m, m[head, 1], 1, LAMBDA p : p # head)

list_for_each_prev(m, head) == Follow(m, m[head, 2], 2, LAMBDA p : p # head)

list_for_each_safe(m, head) == DrainSafe(m, m[head, 1], 1, head, list_del)

list_for_each_prev_safe(m, head) == DrainSafe(m, m[head, 2], 2, head, list_del)

list_first_entry(m, head) == m[head, 1]
list_last_entry(m, head) == m[head, 2]
list_first_entry_or_null(m, head) == IF ~list_empty(m, head) THEN list_first_entry(m, head) ELSE NULL
list_next_entry(m, pos) == m[pos, 1]
list_prev_entry(m, pos) == m[pos, 2]

list_for_each_entry(m, head) == Follow(m, list_first_entry(m, head), 1, LAMBDA p : p # head)
list_for_each_entry_reverse(m, head) == Follow(m, list_last_entry(m, head), 2, LAMBDA p : p # head)
list_for_each_entry_continue(m, pos, head) == Follow(m, list_next_entry(m, pos), 1, LAMBDA p : p # head)
list_for_each_entry_continue_reverse(m, pos, head) ==
  Follow(m, list_prev_entry(m, pos), 2, LAMBDA p : p # head)
list_for_each_entry_from(m, pos, head) == Follow(m, pos, 1, LAMBDA p : p # head)

list_for_each_entry_safe(m, head) == DrainSafe(m, list_first_entry(m, head), 1, head, list_del)
list_for_each_entry_safe_continue(m, pos, head) ==
  DrainSafe(m, list_next_entry(m, pos), 1, head, list_del)
list_for_each_entry_safe_from(m, pos, head) == DrainSafe(m, pos, 1, head, list_del)
list_for_each_entry_safe_reverse(m, head) == DrainSafe(m, list_last_entry(m, head), 2, head, list_del)

-----------------------------------------------------------------------------
(* What the debug build (libs/list/list_debug.c) warns of *)

__list_addWarns(m, new, prev, next) ==
  m[next, 2] # prev \/ m[prev, 1] # next \/ new = prev \/ new = next

__list_del_entryWarns(m, entry) ==
  \/ m[entry, 1] = POISON1 \/ m[entry, 2] = POISON2
  \/ m[m[entry, 2], 1] # entry \/ m[m[entry, 1], 2] # entry

-----------------------------------------------------------------------------
(* struct hlist_head and struct hlist_node *)

INIT_HLIST_NODE(m, h) == [m EXCEPT ![h, 1] = NULL, ![h, 2] = NULL]

hlist_unhashed(m, h) == m[h, 2] = NULL

hlist_empty(m, h) == m[h, 1] = NULL

\* Mutant: the back link of the next node is left.
__hlist_delForward(m, n) == [m EXCEPT ![m[n, 2]] = m[n, 1]]

__hlist_del(m, n) ==
  LET next == m[n, 1]
      pprev == m[n, 2]
  IN  When(next # NULL, [m EXCEPT ![pprev] = next], <<next, 2>>, pprev)

hlist_del(m, n) == [__hlist_del(m, n) EXCEPT ![n, 1] = POISON1, ![n, 2] = POISON2]

hlist_del_init(m, n) ==
  IF hlist_unhashed(m, n) THEN m ELSE INIT_HLIST_NODE(__hlist_del(m, n), n)

hlist_add_head(m, n, h) ==
  LET first == m[h, 1]
      a == When(first # NULL, [m EXCEPT ![n, 1] = first], <<first, 2>>, <<n, 1>>)
  IN  [a EXCEPT ![h, 1] = n, ![n, 2] = <<h, 1>>]

hlist_add_before(m, n, next) ==
  LET pprev == m[next, 2]
  IN  [m EXCEPT ![n, 2] = pprev, ![n, 1] = next, ![next, 2] = <<n, 1>>, ![pprev] = n]

hlist_add_behind(m, n, prev) ==
  LET a == [m EXCEPT ![n, 1] = m[prev, 1], ![prev, 1] = n, ![n, 2] = <<prev, 1>>]
  IN  When(a[n, 1] # NULL, a, <<a[n, 1], 2>>, <<n, 1>>)

hlist_add_fake(m, n) == [m EXCEPT ![n, 2] = <<n, 1>>]

hlist_move_list(m, old, new) ==
  LET a == [m EXCEPT ![new, 1] = m[old, 1]]
  IN  [When(a[new, 1] # NULL, a, <<a[new, 1], 2>>, <<new, 1>>) EXCEPT ![old, 1] = NULL]

hlist_for_each(m, head) == Follow(m, m[head, 1], 1, LAMBDA p : p # NULL)

hlist_for_each_safe(m, head) == DrainSafe(m, m[head, 1], 1, NULL, hlist_del)

hlist_for_each_entry(m, head) == Follow(m, m[head, 1], 1, LAMBDA p : p # NULL)
hlist_for_each_entry_continue(m, pos) == Follow(m, m[pos, 1], 1, LAMBDA p : p # NULL)
hlist_for_each_entry_from(m, pos) == Follow(m, pos, 1, LAMBDA p : p # NULL)
hlist_for_each_entry_safe(m, head) == DrainSafe(m, m[head, 1], 1, NULL, hlist_del)
=============================================================================
