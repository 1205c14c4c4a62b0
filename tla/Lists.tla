------------------------------- MODULE Lists -------------------------------
(***************************************************************************)
(* Lists of one kind, list.h's or queue.h's, under any sequence of calls:  *)
(* every list operation is made on the memory the earlier ones left, the   *)
(* links of deleted entries included.  A caller adds only entries that are *)
(* on no list and names only entries that are.                             *)
(***************************************************************************)
EXTENDS QueueH

CONSTANT Kinds

VARIABLES
  kind,  \* the lists looked at
  mem,   \* the heads and entries
  op,    \* the last call
  said   \* what its loop went over

listvars == <<kind, mem, op, said>>

\* The forward loops
Walk(h) ==
  CASE kind = "list"   -> list_for_each(mem, h)
    [] kind = "hlist"  -> hlist_for_each(mem, h)
    [] kind = "SLIST"  -> SLIST_FOREACH(mem, h)
    [] kind = "STAILQ" -> STAILQ_FOREACH(mem, h)
    [] kind = "LIST"   -> LIST_FOREACH(mem, h)
    [] OTHER           -> TAILQ_FOREACH(mem, h)

On(h) == Range(Walk(h))
Out == Elems \ UNION {On(h) : h \in Heads}
Empty(h) == Walk(h) = <<>>
Others(h) == Heads \ {h}

Op(f, h, e, x) == [f |-> f, h |-> h, e |-> e, x |-> x]

\* All heads are initialised; the links of entries are NULL.
ListsInit ==
  /\ kind \in Kinds
  /\ LET blank == [c \in Cells |-> NULL]
         Head2(h) == CASE kind = "list" -> INIT_LIST_HEAD(blank, h)
                       [] kind = "STAILQ" -> STAILQ_INIT(blank, h)
                       [] kind = "SLIST" -> SLIST_INIT(blank, h)
                       [] kind = "LIST" -> LIST_INIT(blank, h)
                       [] kind = "TAILQ" -> TAILQ_INIT(blank, h)
                       [] OTHER -> blank
     IN  mem = [c \in Cells |-> IF c[1] \in Heads THEN Head2(c[1])[c] ELSE NULL]
  /\ op = Op("init", NULL, NULL, NULL) /\ said = <<>>

\* The call o leaves the memory m.
Call(o, m) == mem' = m /\ op' = o /\ said' = <<>> /\ UNCHANGED kind

\* A safe loop that deletes what it meets.
LoopAt(f, h, e, r) == mem' = r.m /\ op' = Op(f, h, e, NULL) /\ said' = r.seen /\ UNCHANGED kind
Loop(f, h, r) == LoopAt(f, h, NULL, r)

list_head(h) ==
  /\ kind = "list"
  /\ \/ \E e \in Out :
          \/ Call(Op("head", h, e, NULL), list_add(mem, e, h))
          \/ Call(Op("tail", h, e, NULL), list_add_tail(mem, e, h))
          \/ \E x \in On(h) : \/ Call(Op("after", h, e, x), list_add(mem, e, x))
                              \/ Call(Op("before", h, e, x), list_add_tail(mem, e, x))
     \/ \E e \in On(h) :
          \/ Call(Op("remove", h, e, NULL), list_del(mem, e))
          \/ Call(Op("remove", h, e, NULL), list_del_init(mem, e))
          \/ \E x \in Out : Call(Op("replace", h, e, x), list_replace(mem, e, x))
          \/ \E x \in Heads : \/ Call(Op("top", h, e, x), list_move(mem, e, x))
                              \/ Call(Op("bottom", h, e, x), list_move_tail(mem, e, x))
     \/ \E e \in On(h) \cup {h}, x \in Others(h) :
          Empty(x) /\ Call(Op("cut", h, e, x), list_cut_position(mem, x, h, e))
     \/ \E x \in Others(h) :
          \/ Call(Op("push", h, NULL, x), INIT_LIST_HEAD(list_splice(mem, x, h), x))
          \/ Call(Op("push", h, NULL, x), list_splice_init(mem, x, h))
          \/ Call(Op("concat", h, NULL, x), INIT_LIST_HEAD(list_splice_tail(mem, x, h), x))
          \/ Call(Op("concat", h, NULL, x), list_splice_tail_init(mem, x, h))
          \/ Empty(x) /\ Call(Op("swap", h, NULL, x), list_replace_init(mem, h, x))
     \/ Call(Op("rotate", h, NULL, NULL), list_rotate_left(mem, h))
     \/ Loop("drain", h, list_for_each_safe(mem, h))
     \/ Loop("rdrain", h, list_for_each_prev_safe(mem, h))
     \/ Loop("drain", h, list_for_each_entry_safe(mem, h))
     \/ Loop("rdrain", h, list_for_each_entry_safe_reverse(mem, h))
     \/ \E e \in On(h) :
          \/ LoopAt("drainfrom", h, e, list_for_each_entry_safe_from(mem, e, h))
          \/ LoopAt("drainafter", h, e, list_for_each_entry_safe_continue(mem, e, h))

hlist_head(h) ==
  /\ kind = "hlist"
  /\ \/ \E e \in Out :
          \/ Call(Op("head", h, e, NULL), hlist_add_head(mem, e, h))
          \/ \E x \in On(h) : \/ Call(Op("after", h, e, x), hlist_add_behind(mem, e, x))
                              \/ Call(Op("before", h, e, x), hlist_add_before(mem, e, x))
          \/ Call(Op("fake", h, e, NULL), hlist_del(hlist_add_fake(INIT_HLIST_NODE(mem, e), e), e))
     \/ \E e \in On(h) : \/ Call(Op("remove", h, e, NULL), hlist_del(mem, e))
                         \/ Call(Op("remove", h, e, NULL), hlist_del_init(mem, e))
     \/ \E x \in Others(h) :
          Empty(x) /\ Call(Op("swap", h, NULL, x), hlist_move_list(mem, h, x))
     \/ Loop("drain", h, hlist_for_each_safe(mem, h))
     \/ Loop("drain", h, hlist_for_each_entry_safe(mem, h))

SLIST(h) ==
  /\ kind = "SLIST"
  /\ \/ \E e \in Out :
          \/ Call(Op("head", h, e, NULL), SLIST_INSERT_HEAD(mem, h, e))
          \/ \E x \in On(h) : Call(Op("after", h, e, x), SLIST_INSERT_AFTER(mem, x, e))
     \/ \E e \in On(h) : Call(Op("remove", h, e, NULL), SLIST_REMOVE(mem, h, e))
     \/ \E x \in On(h) :
          mem[x, 1] # NULL /\ Call(Op("next", h, NULL, x), SLIST_REMOVE_AFTER(mem, x))
     \/ ~Empty(h) /\ Call(Op("behead", h, NULL, NULL), SLIST_REMOVE_HEAD(mem, h))
     \/ \E x \in Others(h) : Call(Op("swap", h, NULL, x), SLIST_SWAP(mem, h, x))
     \/ Loop("drain", h, SLIST_FOREACH_SAFE(mem, h))
     \/ \E e \in On(h) : LoopAt("drainfrom", h, e, SLIST_FOREACH_FROM_SAFE(mem, e, h))

STAILQ(h) ==
  /\ kind = "STAILQ"
  /\ \/ \E e \in Out :
          \/ Call(Op("head", h, e, NULL), STAILQ_INSERT_HEAD(mem, h, e))
          \/ Call(Op("tail", h, e, NULL), STAILQ_INSERT_TAIL(mem, h, e))
          \/ \E x \in On(h) : Call(Op("after", h, e, x), STAILQ_INSERT_AFTER(mem, h, x, e))
     \/ \E e \in On(h) : Call(Op("remove", h, e, NULL), STAILQ_REMOVE(mem, h, e))
     \/ \E x \in On(h) :
          mem[x, 1] # NULL /\ Call(Op("next", h, NULL, x), STAILQ_REMOVE_AFTER(mem, h, x))
     \/ ~Empty(h) /\ Call(Op("behead", h, NULL, NULL), STAILQ_REMOVE_HEAD(mem, h))
     \/ \E x \in Others(h) : \/ Call(Op("swap", h, NULL, x), STAILQ_SWAP(mem, h, x))
                             \/ Call(Op("concat", h, NULL, x), STAILQ_CONCAT(mem, h, x))
     \/ Loop("drain", h, STAILQ_FOREACH_SAFE(mem, h))
     \/ \E e \in On(h) : LoopAt("drainfrom", h, e, STAILQ_FOREACH_FROM_SAFE(mem, e, h))

LIST(h) ==
  /\ kind = "LIST"
  /\ \/ \E e \in Out :
          \/ Call(Op("head", h, e, NULL), LIST_INSERT_HEAD(mem, h, e))
          \/ \E x \in On(h) : \/ Call(Op("after", h, e, x), LIST_INSERT_AFTER(mem, x, e))
                              \/ Call(Op("before", h, e, x), LIST_INSERT_BEFORE(mem, x, e))
     \/ \E e \in On(h) : Call(Op("remove", h, e, NULL), LIST_REMOVE(mem, e))
     \/ \E x \in Others(h) : Call(Op("swap", h, NULL, x), LIST_SWAP(mem, h, x))
     \/ Loop("drain", h, LIST_FOREACH_SAFE(mem, h))
     \/ \E e \in On(h) : LoopAt("drainfrom", h, e, LIST_FOREACH_FROM_SAFE(mem, e, h))

TAILQ(h) ==
  /\ kind = "TAILQ"
  /\ \/ \E e \in Out :
          \/ Call(Op("head", h, e, NULL), TAILQ_INSERT_HEAD(mem, h, e))
          \/ Call(Op("tail", h, e, NULL), TAILQ_INSERT_TAIL(mem, h, e))
          \/ \E x \in On(h) : \/ Call(Op("after", h, e, x), TAILQ_INSERT_AFTER(mem, h, x, e))
                              \/ Call(Op("before", h, e, x), TAILQ_INSERT_BEFORE(mem, x, e))
     \/ \E e \in On(h) : Call(Op("remove", h, e, NULL), TAILQ_REMOVE(mem, h, e))
     \/ \E x \in Others(h) : \/ Call(Op("swap", h, NULL, x), TAILQ_SWAP(mem, h, x))
                             \/ Call(Op("concat", h, NULL, x), TAILQ_CONCAT(mem, h, x))
     \/ Loop("drain", h, TAILQ_FOREACH_SAFE(mem, h))
     \/ \E e \in On(h) : LoopAt("drainfrom", h, e, TAILQ_FOREACH_FROM_SAFE(mem, e, h))
     \/ Loop("rdrain", h, TAILQ_FOREACH_REVERSE_SAFE(mem, h))
     \/ \E e \in On(h) : LoopAt("rdrainfrom", h, e, TAILQ_FOREACH_REVERSE_FROM_SAFE(mem, e, h))

ListsNext ==
  \E h \in Heads :
    list_head(h) \/ hlist_head(h) \/ SLIST(h) \/ STAILQ(h) \/ LIST(h) \/ TAILQ(h)

-----------------------------------------------------------------------------
(* Properties *)

Seqs == INSTANCE SeqLists WITH seqs <- [h \in Heads |-> Walk(h)]

\* Every operation of list.h and queue.h does to the sequence a forward loop
\* goes over what its name says, to no other list anything, and a safe loop
\* meets every entry although its body deletes them, whatever links earlier
\* calls left in the entries.
ListsAreSequences == Seqs!Spec

\* What a loop that begins in the middle of a list meets: entry i is pos.
LoopsFrom(h, w, i) ==
  LET rest == SubSeq(w, i, Len(w))
      after == SubSeq(w, i + 1, Len(w))
  IN  CASE kind = "list" ->
             /\ list_for_each_entry_from(mem, w[i], h) = rest
             /\ list_for_each_entry_continue(mem, w[i], h) = after
             /\ list_for_each_entry_continue_reverse(mem, w[i], h) = Reverse(SubSeq(w, 1, i - 1))
        [] kind = "hlist" -> /\ hlist_for_each_entry_from(mem, w[i]) = rest
                             /\ hlist_for_each_entry_continue(mem, w[i]) = after
        [] kind = "SLIST" -> SLIST_FOREACH_FROM(mem, w[i], h) = rest
        [] kind = "STAILQ" -> STAILQ_FOREACH_FROM(mem, w[i], h) = rest
        [] kind = "LIST" -> LIST_FOREACH_FROM(mem, w[i], h) = rest
        [] OTHER -> /\ TAILQ_FOREACH_FROM(mem, w[i], h) = rest
                    /\ TAILQ_FOREACH_REVERSE_FROM(mem, w[i], h) = Reverse(SubSeq(w, 1, i))

\* The back links, the pointers to the last entry and the tests agree with the
\* forward loop: walking back meets the same entries in reverse, LAST is the
\* last entry, EMPTY and SINGULAR count truly, a loop that begins at an entry
\* meets what lies beyond it, and the debug build has nothing to warn of in any
\* call that could be made next.
LinksAgree ==
  \A h \in Heads :
    LET w == Walk(h)
        last == IF w = <<>> THEN NULL ELSE Last(w)
    IN  /\ \A i \in 1..Len(w) : LoopsFrom(h, w, i)
        /\ CASE kind = "list" ->
                  /\ list_for_each_prev(mem, h) = Reverse(w) /\ list_for_each_entry(mem, h) = w
                  /\ list_for_each_entry_reverse(mem, h) = Reverse(w)
                  /\ list_first_entry_or_null(mem, h) = IF w = <<>> THEN NULL ELSE Head(w)
                  /\ list_empty(mem, h) = (w = <<>>) /\ list_empty_careful(mem, h) = (w = <<>>)
                  /\ list_is_singular(mem, h) = (Len(w) = 1)
                  /\ \A e \in On(h) : list_is_last(mem, e, h) = (e = last)
                  /\ \A e \in On(h) : ~__list_del_entryWarns(mem, e)
                  /\ \A e \in Out, x \in On(h) \cup {h} : ~__list_addWarns(mem, e, x, mem[x, 1])
             [] kind = "hlist" ->
                  /\ hlist_empty(mem, h) = (w = <<>>) /\ hlist_for_each_entry(mem, h) = w
                  /\ \A e \in On(h) : ~hlist_unhashed(mem, e) /\ mem[mem[e, 2]] = e
             [] kind = "STAILQ" ->
                  STAILQ_LAST(mem, h) = last /\ mem[mem[h, 2]] = NULL
             [] kind = "LIST" ->
                  \A i \in 1..Len(w) : LIST_PREV(mem, w[i], h) = IF i = 1 THEN NULL ELSE w[i - 1]
             [] kind = "TAILQ" ->
                  TAILQ_LAST(mem, h) = last /\ TAILQ_FOREACH_REVERSE(mem, h) = Reverse(w)
             [] OTHER -> SLIST_EMPTY(mem, h) = (w = <<>>)
=============================================================================
