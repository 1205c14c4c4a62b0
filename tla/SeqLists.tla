------------------------------ MODULE SeqLists ------------------------------
(***************************************************************************)
(* What a set of linked lists promises: a sequence of elements per head,   *)
(* and what each call does to the sequences.                               *)
(***************************************************************************)
EXTENDS Naturals, Sequences, SequencesExt

CONSTANTS Heads, Elems, NULL

VARIABLES
  seqs,  \* per head, the elements on its list
  op,    \* the last call: its function f, list h and arguments e and x
  said   \* the elements a loop went over, in its order

Of(s, e) == CHOOSE i \in 1..Len(s) : s[i] = e
Without(s, e) == SelectSeq(s, LAMBDA y : y # e)

\* The sequences after the call o.
Effect(o) ==
  LET s == seqs[o.h]
      Becomes(t) == [seqs EXCEPT ![o.h] = t]
      Both(t, u) == [seqs EXCEPT ![o.h] = t, ![o.x] = u]
  IN  CASE o.f = "head"    -> Becomes(<<o.e>> \o s)
        [] o.f = "tail"    -> Becomes(Append(s, o.e))
        [] o.f = "after"   -> Becomes(InsertAt(s, Of(s, o.x) + 1, o.e))
        [] o.f = "before"  -> Becomes(InsertAt(s, Of(s, o.x), o.e))
        [] o.f = "remove"  -> Becomes(Without(s, o.e))
        [] o.f = "behead"  -> Becomes(Tail(s))
        [] o.f = "next"    -> Becomes(RemoveAt(s, Of(s, o.x) + 1))
        [] o.f = "replace" -> Becomes(ReplaceAt(s, Of(s, o.e), o.x))
        [] o.f = "rotate"  -> Becomes(IF s = <<>> THEN s ELSE Append(Tail(s), Head(s)))
        [] o.f = "top"     -> Both(Without(s, o.e), <<o.e>> \o Without(seqs[o.x], o.e))
        [] o.f = "bottom"  -> Both(Without(s, o.e), Append(Without(seqs[o.x], o.e), o.e))
        [] o.f = "cut"     -> LET n == IF o.e = o.h THEN 0 ELSE Of(s, o.e)
                              IN  Both(SubSeq(s, n + 1, Len(s)), SubSeq(s, 1, n))
        [] o.f = "push"    -> Both(seqs[o.x] \o s, <<>>)
        [] o.f = "concat"  -> Both(s \o seqs[o.x], <<>>)
        [] o.f = "swap"    -> Both(seqs[o.x], s)
        [] o.f = "drain"   -> Becomes(<<>>)
        [] o.f = "rdrain"  -> Becomes(<<>>)
        [] o.f = "drainfrom"  -> Becomes(SubSeq(s, 1, Of(s, o.e) - 1))
        [] o.f = "drainafter" -> Becomes(SubSeq(s, 1, Of(s, o.e)))
        [] o.f = "rdrainfrom" -> Becomes(SubSeq(s, Of(s, o.e) + 1, Len(s)))
        [] OTHER           -> seqs

Init ==
  /\ seqs = [h \in Heads |-> <<>>]
  /\ op = [f |-> "init", h |-> NULL, e |-> NULL, x |-> NULL] /\ said = <<>>

Next ==
  /\ seqs' = Effect(op')
  /\ LET s == seqs[op'.h]
     IN  said' = CASE op'.f = "drain" -> s
                   [] op'.f = "rdrain" -> Reverse(s)
                   [] op'.f = "drainfrom" -> SubSeq(s, Of(s, op'.e), Len(s))
                   [] op'.f = "drainafter" -> SubSeq(s, Of(s, op'.e) + 1, Len(s))
                   [] op'.f = "rdrainfrom" -> Reverse(SubSeq(s, 1, Of(s, op'.e)))
                   [] OTHER -> <<>>

Spec == Init /\ [][Next]_<<seqs, op, said>>
=============================================================================
