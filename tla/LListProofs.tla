---------------------------- MODULE LListProofs ----------------------------
(***************************************************************************)
(* The lock-less list of llist.c (LList) implements a stack (NodeStack),   *)
(* for any number of threads and nodes, used as llist.h allows.            *)
(***************************************************************************)
EXTENDS LList, FiniteSetTheorems, WellFoundedInduction, TLAPS

Distinct(s) == \A i, j \in 1..Len(s) : s[i] = s[j] => i = j

\* The links f lead along s.
Path(f, s) == \A i \in 1..Len(s) : i < Len(s) => f[s[i]] = s[i + 1]

\* A set of naturals that is not empty has a least element.
LEMMA Least ==
  ASSUME NEW T \in SUBSET Nat, T # {}
  PROVE  \E m \in T : \A k \in T : m <= k
<1>1. PICK m \in T : \A k \in T : ~(<<k, m>> \in OpToRel(<, Nat))
  BY NatLessThanWellFounded, WFMin, Zenon
<1> SUFFICES ASSUME NEW k \in T PROVE m <= k
  BY <1>1, Zenon
<1>2. ~(<<k, m>> \in OpToRel(<, Nat))
  BY <1>1, Zenon
<1>3. k \in Nat /\ m \in Nat
  BY <1>1, Zenon
<1>4. ~(k < m)
  BY <1>2, <1>3, Zenon DEF OpToRel
<1> QED
  BY <1>3, <1>4

LEMMA RangeIs ==
  ASSUME NEW S, NEW s \in Seq(S)
  PROVE  /\ \A x : x \in Range(s) <=> \E i \in 1..Len(s) : x = s[i]
         /\ Range(s) \subseteq S
  BY DEF Range

\* A chain without repetition is no longer than there are nodes.
LEMMA ShortEnough ==
  ASSUME NEW s \in Seq(Nodes), Distinct(s)
  PROVE  Cardinality(Nodes) \in Nat /\ Len(s) <= Cardinality(Nodes)
<1>1. s \in [1..Len(s) -> Nodes]
  OBVIOUS
<1>2. s \in Injection(1..Len(s), Nodes)
  BY <1>1, Zenon DEF Distinct, Injection, IsInjective
<1>3. Cardinality(1..Len(s)) <= Cardinality(Nodes)
  BY <1>2, LListAssumption, FS_Injection, Zenon
<1>4. Cardinality(1..Len(s)) = Len(s)
  <2>1. PICK n \in Int : n = Len(s) /\ n >= 0
    OBVIOUS
  <2>2. Cardinality(1..n) = IF 1 > n THEN 0 ELSE n - 1 + 1
    BY FS_Interval
  <2> QED
    BY <2>1, <2>2
<1>5. Cardinality(Nodes) \in Nat
  BY LListAssumption, FS_CardinalityType, Zenon
<1> QED
  BY <1>3, <1>4, <1>5, Zenon

\* The first n elements of s, or all of them.
Part(s, n) == SubSeq(s, 1, IF n < Len(s) THEN n ELSE Len(s))

LEMMA PartIs ==
  ASSUME NEW s \in Seq(Nodes), Len(s) # 0, NEW n \in Nat \ {0}
  PROVE  /\ Part(s, n) # <<>> /\ Part(s, 1) = <<s[1]>>
         /\ n >= Len(s) => Part(s, n) = s /\ Part(s, n + 1) = s
         /\ n < Len(s) => LastOf(Part(s, n)) = s[n] /\ Part(s, n + 1) = Append(Part(s, n), s[n + 1])
<1>1. PICK m \in Nat \ {0} : m = Len(s)
  OBVIOUS
<1>2. ASSUME NEW k \in 1..m PROVE SubSeq(s, 1, k) \in Seq(Nodes) /\ Len(SubSeq(s, 1, k)) = k
                                  /\ \A i \in 1..k : SubSeq(s, 1, k)[i] = s[i]
  BY <1>1
<1>3. SubSeq(s, 1, m) = s
  BY <1>1
<1>4. ASSUME NEW k \in 1..m, k < m PROVE SubSeq(s, 1, k + 1) = Append(SubSeq(s, 1, k), s[k + 1])
  <2>1. PICK u, w : u = SubSeq(s, 1, k) /\ w = SubSeq(s, 1, k + 1)
    BY Zenon
  <2>2. u \in Seq(Nodes) /\ Len(u) = k /\ \A i \in 1..k : u[i] = s[i]
    BY <1>2, <2>1, Zenon
  <2>3. w \in Seq(Nodes) /\ Len(w) = k + 1 /\ \A i \in 1..(k + 1) : w[i] = s[i]
    <3>1. k + 1 \in 1..m
      BY <1>4
    <3> QED
      BY <1>2, <2>1, <3>1, Zenon
  <2>4. s[k + 1] \in Nodes
    BY <1>1, <1>4
  <2>5. /\ Append(u, s[k + 1]) \in Seq(Nodes) /\ Len(Append(u, s[k + 1])) = k + 1
        /\ \A i \in 1..(k + 1) : Append(u, s[k + 1])[i] = s[i]
    BY <2>2, <2>4
  <2>6. w = Append(u, s[k + 1])
    BY <2>3, <2>5
  <2> QED
    BY <2>1, <2>6, Zenon
<1>5. Part(s, 1) = <<s[1]>>
  <2>1. Part(s, 1) = SubSeq(s, 1, 1)
    BY <1>1 DEF Part
  <2>2. SubSeq(s, 1, 1) \in Seq(Nodes) /\ Len(SubSeq(s, 1, 1)) = 1 /\ SubSeq(s, 1, 1)[1] = s[1]
    BY <1>1, <1>2
  <2> QED
    BY <2>1, <2>2
<1>6. CASE n < m
  <2>1. Part(s, n) = SubSeq(s, 1, n) /\ n \in 1..m
    BY <1>1, <1>6 DEF Part
  <2>2. Part(s, n + 1) = SubSeq(s, 1, n + 1)
    BY <1>1, <1>6 DEF Part
  <2>3. Len(Part(s, n)) = n /\ LastOf(Part(s, n)) = s[n]
    BY <1>2, <2>1 DEF LastOf
  <2>4. Part(s, n) # <<>>
    BY <2>3, Zenon
  <2> QED
    BY <1>1, <1>4, <1>5, <1>6, <2>1, <2>2, <2>3, <2>4
<1>7. CASE ~(n < m)
  <2>1. Part(s, n) = s /\ Part(s, n + 1) = s
    BY <1>1, <1>3, <1>7 DEF Part
  <2> QED
    BY <1>1, <1>5, <1>7, <2>1
<1> QED
  BY <1>6, <1>7, Zenon

\* What Chain finds along a path: the path.
LEMMA ChainIs ==
  ASSUME NEW s \in Seq(Nodes), Distinct(s), Path(next, s), NEW a, NEW z,
         a = IF s = <<>> THEN null ELSE s[1],
         s # <<>> => (z = s[Len(s)] \/ (z = null /\ next[s[Len(s)]] = null))
  PROVE  Chain(a, z) = s
<1> DEFINE N == Cardinality(Nodes)
           more(w) == IF w = <<>> \/ LastOf(w) = z \/ next[LastOf(w)] = null THEN w ELSE Append(w, next[LastOf(w)])
           Eq(g) == g = [n \in 0..N |-> IF n = 0 THEN IF a = null THEN <<>> ELSE <<a>> ELSE more(g[n - 1])]
           f == [n \in 0..N |-> IF s = <<>> THEN <<>> ELSE Part(s, n + 1)]
<1>1. N \in Nat /\ Len(s) <= N /\ Len(s) \in Nat
  BY ShortEnough
<1>2. Chain(a, z) = (CHOOSE g : Eq(g))[N]
  BY Zenon DEF Chain
<1>3. Eq(f)
  <2> SUFFICES ASSUME NEW n \in 0..N
               PROVE  f[n] = IF n = 0 THEN IF a = null THEN <<>> ELSE <<a>> ELSE more(f[n - 1])
    BY Zenon
  <2>1. CASE s = <<>>
    <3>1. f[n] = <<>> /\ a = null
      BY <2>1, Zenon
    <3>2. n # 0 => f[n - 1] = <<>>
      BY <1>1, <2>1
    <3> QED
      BY <3>1, <3>2, Zenon
  <2>2. CASE s # <<>>
    <3>1. Len(s) # 0 /\ a = s[1] /\ s[1] \in Nodes /\ s[Len(s)] \in Nodes
      BY <2>2
    <3>2. CASE n = 0
      <4>1. a # null /\ Part(s, 0 + 1) = <<s[1]>>
        BY <3>1, PartIs, LListAssumption
      <4> QED
        BY <1>1, <2>2, <3>1, <3>2, <4>1, Zenon
    <3>3. CASE n # 0
      <4>1. n \in Nat \ {0} /\ f[n] = Part(s, n + 1) /\ f[n - 1] = Part(s, n)
        BY <1>1, <2>2, <3>3
      <4> HIDE DEF f
      <4>2. Part(s, n) # <<>>
        BY <3>1, <4>1, PartIs, Zenon
      <4>3. CASE n >= Len(s)
        <5>1. Part(s, n) = s /\ Part(s, n + 1) = s
          BY <3>1, <4>1, <4>3, PartIs, Zenon
        <5>2. LastOf(s) = z \/ next[LastOf(s)] = null
          BY <2>2, Zenon DEF LastOf
        <5> QED
          BY <3>3, <4>1, <5>1, <5>2, Zenon
      <4>4. CASE ~(n >= Len(s))
        <5>1. n < Len(s) /\ n \in 1..Len(s) /\ n + 1 \in 1..Len(s)
          BY <1>1, <4>1, <4>4
        <5>2. LastOf(Part(s, n)) = s[n] /\ Part(s, n + 1) = Append(Part(s, n), s[n + 1])
          BY <3>1, <4>1, <5>1, PartIs, Zenon
        <5>3. next[s[n]] = s[n + 1] /\ s[n + 1] \in Nodes /\ s[n] \in Nodes
          BY <5>1 DEF Path
        <5>4. s[n] # z
          <6>1. n # Len(s) /\ Len(s) \in 1..Len(s)
            BY <1>1, <5>1
          <6>2. s[n] # s[Len(s)]
            BY <5>1, <6>1, Zenon DEF Distinct
          <6> QED
            BY <2>2, <5>3, <6>2, LListAssumption, Zenon
        <5> QED
          BY <3>3, <4>1, <4>2, <5>2, <5>3, <5>4, LListAssumption, Zenon
      <4> QED
        BY <4>3, <4>4, Zenon
    <3> QED
      BY <3>2, <3>3, Zenon
  <2> QED
    BY <2>1, <2>2, Zenon
<1> DEFINE h == CHOOSE g : Eq(g)
<1>4. Eq(h)
  <2> HIDE DEF f, Eq
  <2> QED
    BY <1>3, Zenon DEF h
<1> HIDE DEF f, h
<1>5. \A n \in 0..N : h[n] = IF n = 0 THEN IF a = null THEN <<>> ELSE <<a>> ELSE more(h[n - 1])
  BY <1>4, Zenon
<1>6. \A n \in 0..N : f[n] = IF n = 0 THEN IF a = null THEN <<>> ELSE <<a>> ELSE more(f[n - 1])
  BY <1>3, Zenon
<1> DEFINE Bad == {n \in 0..N : h[n] # f[n]}
<1> HIDE DEF more, Eq
<1>7. ASSUME Bad # {} PROVE FALSE
  <2>0. Bad \in SUBSET Nat
    BY <1>1
  <2>1. PICK m \in Bad : \A k \in Bad : m <= k
    BY <1>7, <2>0, Least, Zenon
  <2>2. m # 0
    BY <2>1, <1>5, <1>6, Zenon
  <2>3. m \in 0..N /\ m - 1 \in 0..N /\ m - 1 \notin Bad
    BY <2>1, <2>2, <1>1
  <2>4. h[m - 1] = f[m - 1]
    BY <2>3, Zenon
  <2>5. h[m] = more(h[m - 1]) /\ f[m] = more(f[m - 1])
    BY <2>2, <2>3, <1>5, <1>6, Zenon
  <2> QED
    BY <2>1, <2>4, <2>5, Zenon
<1>8. h[N] = f[N] /\ N \in 0..N
  BY <1>1, <1>7
<1>9. f[N] = s
  <2>1. CASE s = <<>>
    BY <1>8, <2>1, Zenon DEF f
  <2>2. CASE s # <<>>
    <3>1. Len(s) # 0
      BY <2>2
    <3>2. N \in Nat \ {0} /\ N >= Len(s)
      BY <1>1, <3>1
    <3>3. Part(s, N + 1) = s
      BY <3>1, <3>2, PartIs, Zenon
    <3> QED
      BY <1>8, <2>2, <3>3, Zenon DEF f
  <2> QED
    BY <2>1, <2>2, Zenon
<1> QED
  BY <1>2, <1>8, <1>9, Zenon DEF h

-----------------------------------------------------------------------------
(* The invariant *)

Calls ==
  [pc : {"idle", "hand", "add", "cas", "next", "swap"}, head : Nodes \cup {null}, last : Nodes \cup {null},
   seen : Nodes \cup {null}, next : Nodes \cup {null}]

TypeOK ==
  /\ first \in Nodes \cup {null} /\ next \in [Nodes -> Nodes \cup {null}]
  /\ call \in [Threads -> Calls] /\ firsts \in First /\ free \subseteq Nodes

\* The list is the chain st, and ends.
ListOK(st) ==
  /\ st \in Seq(Nodes) /\ Distinct(st) /\ Path(next, st)
  /\ first = IF st = <<>> THEN null ELSE st[1]
  /\ st # <<>> => next[st[Len(st)]] = null

\* Thread t has the chain s between head and last, or nothing.
HandOK(t, s) ==
  /\ s \in Seq(Nodes) /\ Distinct(s) /\ Path(next, s)
  /\ Holds(t) => s # <<>> /\ call[t].head = s[1] /\ call[t].last = s[Len(s)]
  /\ ~Holds(t) => s = <<>>

\* Before an exchange the new link is the one that was read.  The entry that
\* llist_del_first works on stays in the list, since no one else deletes, and
\* its link stays what it is.
CallOK(t, st) ==
  /\ call[t].pc = "cas" => next[call[t].last] = call[t].seen
  /\ call[t].pc \in {"next", "swap"} => t \in firsts /\ call[t].seen \in Range(st)
  /\ call[t].pc = "swap" => next[call[t].seen] = call[t].next

\* A node is in one place.
Apart(st, hd) ==
  /\ \A n \in Range(st) : n \notin free
  /\ \A t \in Threads : \A n \in Range(hd[t]) :
       n \notin free /\ n \notin Range(st) /\ \A u \in Threads : u # t => n \notin Range(hd[u])

Inv(st, hd) ==
  /\ hd \in [Threads -> Seq(Nodes)] /\ ListOK(st)
  /\ \A t \in Threads : HandOK(t, hd[t]) /\ CallOK(t, st)
  /\ Apart(st, hd)

IInv == TypeOK /\ \E st, hd : Inv(st, hd)

\* A path whose links are not written is still one.
LEMMA PathKept ==
  ASSUME NEW s \in Seq(Nodes), NEW f, NEW g, Path(f, s), \A n \in Range(s) : g[n] = f[n]
  PROVE  Path(g, s)
  BY RangeIs, Zenon DEF Path

LEMMA LastIn ==
  ASSUME NEW s \in Seq(Nodes), s # <<>>
  PROVE  s[Len(s)] \in Range(s) /\ s[1] \in Range(s) /\ Len(s) \in Nat \ {0}
<1>1. Len(s) \in Nat \ {0}
  OBVIOUS
<1> QED
  BY <1>1, RangeIs

\* The list, when none of its links is written.
LEMMA ListKept ==
  ASSUME NEW st, ListOK(st), first' = first, \A n \in Range(st) : next'[n] = next[n]
  PROVE  ListOK(st)'
<1>1. st \in Seq(Nodes)
  BY Zenon DEF ListOK
<1>2. Path(next', st)
  BY <1>1, PathKept, Zenon DEF ListOK
<1>3. st # <<>> => st[Len(st)] \in Range(st)
  BY <1>1, LastIn, Zenon
<1> QED
  BY <1>2, <1>3, Zenon DEF ListOK

\* A thread that does nothing, when no link it relies on is written and no one
\* deletes the entry it works on.
LEMMA OtherKept ==
  ASSUME NEW st, NEW hd, Inv(st, hd), NEW u \in Threads, call'[u] = call[u], firsts' = firsts,
         \A n \in Range(hd[u]) : next'[n] = next[n],
         NEW st2, \/ call[u].pc \notin {"next", "swap"}
                  \/ Range(st) \subseteq Range(st2) /\ \A n \in Range(st) : next'[n] = next[n]
  PROVE  HandOK(u, hd[u])' /\ CallOK(u, st2)'
<1>1. HandOK(u, hd[u]) /\ CallOK(u, st) /\ hd[u] \in Seq(Nodes)
  BY Zenon DEF Inv
<1>2. Path(next', hd[u])
  BY <1>1, PathKept, Zenon DEF HandOK
<1>3. Holds(u)' <=> Holds(u)
  BY Zenon DEF Holds
<1>4. HandOK(u, hd[u])'
  BY <1>1, <1>2, <1>3, Zenon DEF HandOK
<1>5. call[u].pc = "cas" => next'[call[u].last] = call[u].seen
  <2> SUFFICES ASSUME call[u].pc = "cas" PROVE next'[call[u].last] = call[u].seen
    BY Zenon
  <2>1. call[u].last = hd[u][Len(hd[u])] /\ hd[u] # <<>>
    BY <1>1, Zenon DEF HandOK, Holds
  <2>2. call[u].last \in Range(hd[u])
    BY <1>1, <2>1, LastIn, Zenon
  <2> QED
    BY <1>1, <2>2, Zenon DEF CallOK
<1>6. CallOK(u, st2)'
  BY <1>1, <1>5, Zenon DEF CallOK
<1> QED
  BY <1>4, <1>6, Zenon

-----------------------------------------------------------------------------
(* The stack that the list implements *)

Bar(st, hd) == Chain(first, null) = st /\ HandsHeld = hd

\* The chains that are walked are the ones of the invariant,
LEMMA BarIs == \A st, hd : Inv(st, hd) => Bar(st, hd)
<1> SUFFICES ASSUME NEW st, NEW hd, Inv(st, hd) PROVE Bar(st, hd)
  BY Zenon
<1>1. Chain(first, null) = st
  BY ChainIs, Zenon DEF Inv, ListOK
<1>2. ASSUME NEW t \in Threads PROVE HandsHeld[t] = hd[t]
  <2>1. HandOK(t, hd[t])
    BY Zenon DEF Inv
  <2>2. CASE Holds(t)
    <3>1. Chain(call[t].head, call[t].last) = hd[t]
      BY <2>1, <2>2, ChainIs, Zenon DEF HandOK
    <3> QED
      BY <2>2, <3>1, Zenon DEF HandsHeld
  <2>3. CASE ~Holds(t)
    BY <2>1, <2>3, Zenon DEF HandsHeld, HandOK
  <2> QED
    BY <2>2, <2>3, Zenon
<1>3. HandsHeld = hd
  <2>1. hd \in [Threads -> Seq(Nodes)] /\ HandsHeld = [t \in Threads |-> HandsHeld[t]]
    BY Zenon DEF Inv, HandsHeld
  <2> HIDE DEF HandsHeld
  <2> QED
    BY <1>2, <2>1, Zenon
<1> QED
  BY <1>1, <1>3, Zenon DEF Bar

\* before a step and after it.
LEMMA BarNext == \A st, hd : Inv(st, hd)' => Bar(st, hd)'
<1>1. (\A st, hd : Inv(st, hd) => Bar(st, hd))'
  BY BarIs, PTL
<1> QED
  BY <1>1, Zenon

\* Nothing happens to the stack.
Same(st, hd, st2, hd2) == st2 = st /\ hd2 = hd /\ free' = free /\ was' = was

\* One of the operations on it.
Step(st, hd, st2, hd2) ==
  \E t \in Threads :
    \/ \E s \in SeqsUpTo(free, 2) :
         /\ hd[t] = <<>> /\ IsInjective(s) /\ hd2 = [hd EXCEPT ![t] = s] /\ free' = free \ Range(s)
         /\ st2 = st /\ was' = was
    \/ /\ hd[t] # <<>> /\ st2 = hd[t] \o st /\ hd2 = [hd EXCEPT ![t] = <<>>]
       /\ was' = [was EXCEPT ![t] = (st = <<>>)] /\ free' = free
    \/ /\ hd[t] = <<>> /\ st # <<>> /\ hd2 = [hd EXCEPT ![t] = <<Head(st)>>] /\ st2 = Tail(st)
       /\ free' = free /\ was' = was
    \/ /\ hd[t] = <<>> /\ hd2 = [hd EXCEPT ![t] = st] /\ st2 = <<>> /\ free' = free /\ was' = was
    \/ hd2 = [hd EXCEPT ![t] = Reversed(@)] /\ st2 = st /\ free' = free /\ was' = was
    \/ /\ free' = free \cup Range(hd[t]) /\ hd2 = [hd EXCEPT ![t] = <<>>] /\ st2 = st /\ was' = was

LEMMA StackStep ==
  ASSUME NEW st, NEW hd, NEW st2, NEW hd2, Inv(st, hd), Inv(st2, hd2)',
         Same(st, hd, st2, hd2) \/ Step(st, hd, st2, hd2)
  PROVE  [Stack!Next]_(Stack!vars)
<1>1. Chain(first, null) = st /\ HandsHeld = hd
  BY BarIs, Zenon DEF Bar
<1>2. Chain(first, null)' = st2 /\ HandsHeld' = hd2
  BY BarNext, Zenon DEF Bar
<1>3. CASE Same(st, hd, st2, hd2)
  BY <1>1, <1>2, <1>3, Zenon DEF Same, Stack!vars, HandsHeld
<1>4. CASE Step(st, hd, st2, hd2)
  <2>1. PICK t \in Threads :
    \/ \E s \in SeqsUpTo(free, 2) :
         /\ hd[t] = <<>> /\ IsInjective(s) /\ hd2 = [hd EXCEPT ![t] = s] /\ free' = free \ Range(s)
         /\ st2 = st /\ was' = was
    \/ /\ hd[t] # <<>> /\ st2 = hd[t] \o st /\ hd2 = [hd EXCEPT ![t] = <<>>]
       /\ was' = [was EXCEPT ![t] = (st = <<>>)] /\ free' = free
    \/ /\ hd[t] = <<>> /\ st # <<>> /\ hd2 = [hd EXCEPT ![t] = <<Head(st)>>] /\ st2 = Tail(st)
       /\ free' = free /\ was' = was
    \/ /\ hd[t] = <<>> /\ hd2 = [hd EXCEPT ![t] = st] /\ st2 = <<>> /\ free' = free /\ was' = was
    \/ hd2 = [hd EXCEPT ![t] = Reversed(@)] /\ st2 = st /\ free' = free /\ was' = was
    \/ /\ free' = free \cup Range(hd[t]) /\ hd2 = [hd EXCEPT ![t] = <<>>] /\ st2 = st /\ was' = was
    BY <1>4, Zenon DEF Step
  <2>2. CASE \E s \in SeqsUpTo(free, 2) :
         /\ hd[t] = <<>> /\ IsInjective(s) /\ hd2 = [hd EXCEPT ![t] = s] /\ free' = free \ Range(s)
         /\ st2 = st /\ was' = was
    <3>1. PICK s \in SeqsUpTo(free, 2) :
            /\ hd[t] = <<>> /\ IsInjective(s) /\ hd2 = [hd EXCEPT ![t] = s] /\ free' = free \ Range(s)
            /\ st2 = st /\ was' = was
      BY <2>2, Zenon
    <3>2. Stack!Prepare(t, s)
      BY <1>1, <1>2, <3>1, Zenon DEF Stack!Prepare, IsInjective, Stack!IsInjective, Range, Stack!Range
    <3>3. s \in Stack!SeqsUpTo(free, 2)
      BY Zenon DEF SeqsUpTo, Stack!SeqsUpTo
    <3> QED
      BY <3>2, <3>3, Zenon DEF Stack!Next
  <2>3. CASE /\ hd[t] # <<>> /\ st2 = hd[t] \o st /\ hd2 = [hd EXCEPT ![t] = <<>>]
             /\ was' = [was EXCEPT ![t] = (st = <<>>)] /\ free' = free
    <3>1. Stack!Push(t)
      BY <1>1, <1>2, <2>3, Zenon DEF Stack!Push
    <3> QED
      BY <3>1, Zenon DEF Stack!Next
  <2>4. CASE /\ hd[t] = <<>> /\ st # <<>> /\ hd2 = [hd EXCEPT ![t] = <<Head(st)>>] /\ st2 = Tail(st)
             /\ free' = free /\ was' = was
    <3>1. Stack!Pop(t)
      BY <1>1, <1>2, <2>4, Zenon DEF Stack!Pop
    <3> QED
      BY <3>1, Zenon DEF Stack!Next
  <2>5. CASE hd[t] = <<>> /\ hd2 = [hd EXCEPT ![t] = st] /\ st2 = <<>> /\ free' = free /\ was' = was
    <3>1. Stack!PopAll(t)
      BY <1>1, <1>2, <2>5, Zenon DEF Stack!PopAll
    <3> QED
      BY <3>1, Zenon DEF Stack!Next
  <2>6. CASE hd2 = [hd EXCEPT ![t] = Reversed(@)] /\ st2 = st /\ free' = free /\ was' = was
    <3>1. Stack!Turn(t)
      BY <1>1, <1>2, <2>6, Zenon DEF Stack!Turn, Reversed, Stack!Reversed
    <3> QED
      BY <3>1, Zenon DEF Stack!Next
  <2>7. CASE free' = free \cup Range(hd[t]) /\ hd2 = [hd EXCEPT ![t] = <<>>] /\ st2 = st /\ was' = was
    <3>1. Stack!Release(t)
      BY <1>1, <1>2, <2>7, Zenon DEF Stack!Release, Range, Stack!Range
    <3> QED
      BY <3>1, Zenon DEF Stack!Next
  <2> QED
    BY <2>1, <2>2, <2>3, <2>4, <2>5, <2>6, <2>7, Zenon
<1> QED
  BY <1>3, <1>4, Zenon

-----------------------------------------------------------------------------
(* The steps of the calls *)

\* A step leads to a state with the invariant, and does to the stack nothing or
\* one operation.
Goes(st, hd) == TypeOK' /\ \E st2, hd2 : Inv(st2, hd2)' /\ (Same(st, hd, st2, hd2) \/ Step(st, hd, st2, hd2))

\* A step of thread t that moves no node and writes no link but the last one of
\* the chain t holds.
LEMMA QuietStep ==
  ASSUME TypeOK, NEW st, NEW hd, Inv(st, hd), NEW t \in Threads, NEW c \in Calls,
         call' = [call EXCEPT ![t] = c],
         first' = first, firsts' = firsts, free' = free, was' = was,
         next' \in [Nodes -> Nodes \cup {null}],
         \A n \in Nodes : next'[n] # next[n] => hd[t] # <<>> /\ n = hd[t][Len(hd[t])],
         Holds(t)' <=> Holds(t), Holds(t) => c.head = call[t].head /\ c.last = call[t].last,
         CallOK(t, st)'
  PROVE  Goes(st, hd)
<1>1. call'[t] = c /\ \A u \in Threads : u # t => call'[u] = call[u]
  BY Zenon DEF TypeOK
<1>2. TypeOK'
  BY Zenon DEF TypeOK
<1>3. hd[t] \in Seq(Nodes) /\ HandOK(t, hd[t]) /\ st \in Seq(Nodes)
  BY Zenon DEF Inv, ListOK
<1>4. \A n \in Nodes : next'[n] # next[n] => n \in Range(hd[t])
  BY <1>3, LastIn, Zenon
<1>5. /\ \A n \in Range(st) : next'[n] = next[n]
      /\ \A u \in Threads : u # t => \A n \in Range(hd[u]) : next'[n] = next[n]
  <2>1. Range(st) \subseteq Nodes /\ \A u \in Threads : Range(hd[u]) \subseteq Nodes
    BY <1>3, RangeIs, Zenon DEF Inv
  <2> QED
    BY <1>4, <2>1, Zenon DEF Inv, Apart
<1>6. ListOK(st)'
  BY <1>5, ListKept, Zenon DEF Inv
<1>7. \A u \in Threads : u # t => HandOK(u, hd[u])' /\ CallOK(u, st)'
  BY <1>1, <1>5, OtherKept
<1>8. HandOK(t, hd[t])'
  <2>1. Path(next', hd[t])
    <3> SUFFICES ASSUME NEW i \in 1..Len(hd[t]), i < Len(hd[t]) PROVE next'[hd[t][i]] = hd[t][i + 1]
      BY Zenon DEF Path
    <3>1. hd[t][i] \in Nodes /\ next[hd[t][i]] = hd[t][i + 1]
      BY <1>3 DEF HandOK, Path
    <3>2. hd[t][i] # hd[t][Len(hd[t])]
      <4>1. Len(hd[t]) \in 1..Len(hd[t]) /\ i # Len(hd[t])
        BY <1>3
      <4> QED
        BY <1>3, <4>1, Zenon DEF HandOK, Distinct
    <3> QED
      BY <3>1, <3>2, Zenon
  <2> QED
    BY <1>1, <1>3, <2>1, Zenon DEF HandOK
<1>9. Apart(st, hd)'
  BY Zenon DEF Inv, Apart
<1>10. Inv(st, hd)'
  BY <1>6, <1>7, <1>8, <1>9, Zenon DEF Inv
<1> QED
  BY <1>2, <1>10, Zenon DEF Goes, Same

LEMMA AddLoadGoes ==
  ASSUME TypeOK, NEW st, NEW hd, Inv(st, hd), NEW t \in Threads, AddLoad(t)
  PROVE  Goes(st, hd)
<1>1. PICK c : c = [call[t] EXCEPT !.pc = "cas", !.seen = first]
  BY Zenon
<1>2. /\ call[t].pc \in {"hand", "add"} /\ next' = [next EXCEPT ![call[t].last] = first]
      /\ call' = [call EXCEPT ![t] = c] /\ first' = first /\ firsts' = firsts /\ free' = free /\ was' = was
  BY <1>1, Zenon DEF AddLoad, To
<1>3. call[t] \in Calls /\ first \in Nodes \cup {null}
  BY Zenon DEF TypeOK
<1>4. c \in Calls /\ c.pc = "cas" /\ c.seen = first /\ c.head = call[t].head /\ c.last = call[t].last
  BY <1>1, <1>3, Zenon DEF Calls
<1>5. Holds(t) /\ Holds(t)' /\ call'[t] = c
  BY <1>2, <1>4, Zenon DEF Holds, TypeOK
<1>6. hd[t] # <<>> /\ call[t].last = hd[t][Len(hd[t])] /\ hd[t] \in Seq(Nodes)
  BY <1>5, Zenon DEF Inv, HandOK
<1>7. call[t].last \in Nodes
  BY <1>6, LastIn, RangeIs, Zenon
<1>8. next' \in [Nodes -> Nodes \cup {null}] /\ next'[call[t].last] = first
      /\ \A n \in Nodes : n # call[t].last => next'[n] = next[n]
  BY <1>2, <1>3, <1>7, Zenon DEF TypeOK
<1>9. CallOK(t, st)'
  BY <1>4, <1>5, <1>8, Zenon DEF CallOK
<1> QED
  BY <1>2, <1>4, <1>5, <1>6, <1>8, <1>9, QuietStep, Zenon

\* The exchange fails.
LEMMA AddAgainGoes ==
  ASSUME TypeOK, NEW st, NEW hd, Inv(st, hd), NEW t \in Threads, AddCas(t), first # call[t].seen
  PROVE  Goes(st, hd)
<1>1. PICK c : c = [call[t] EXCEPT !.pc = "add"]
  BY Zenon
<1>2. /\ call[t].pc = "cas" /\ next' = next
      /\ call' = [call EXCEPT ![t] = c] /\ first' = first /\ firsts' = firsts /\ free' = free /\ was' = was
  BY <1>1, Zenon DEF AddCas, To
<1>3. call[t] \in Calls
  BY Zenon DEF TypeOK
<1>4. c \in Calls /\ c.pc = "add" /\ c.head = call[t].head /\ c.last = call[t].last
  BY <1>1, <1>3, Zenon DEF Calls
<1>5. Holds(t) /\ Holds(t)' /\ call'[t] = c
  BY <1>2, <1>4, Zenon DEF Holds, TypeOK
<1>6. CallOK(t, st)'
  BY <1>4, <1>5, Zenon DEF CallOK
<1>7. next' \in [Nodes -> Nodes \cup {null}]
  BY <1>2, Zenon DEF TypeOK
<1> QED
  BY <1>2, <1>4, <1>5, <1>6, <1>7, QuietStep, Zenon

LEMMA DelLoadGoes ==
  ASSUME TypeOK, NEW st, NEW hd, Inv(st, hd), NEW t \in Threads, DelFirstLoad(t)
  PROVE  Goes(st, hd)
<1>1. PICK c : c = [call[t] EXCEPT !.pc = "next", !.seen = first]
  BY Zenon
<1>2. /\ call[t].pc = "idle" /\ next' = next /\ t \in firsts /\ first # null
      /\ call' = [call EXCEPT ![t] = c] /\ first' = first /\ firsts' = firsts /\ free' = free /\ was' = was
  BY <1>1, Zenon DEF DelFirstLoad, To
<1>3. call[t] \in Calls /\ first \in Nodes \cup {null}
  BY Zenon DEF TypeOK
<1>4. c \in Calls /\ c.pc = "next" /\ c.seen = first
  BY <1>1, <1>3, Zenon DEF Calls
<1>5. ~Holds(t) /\ ~Holds(t)' /\ call'[t] = c
  BY <1>2, <1>4, Zenon DEF Holds, TypeOK
<1>6. first \in Range(st)
  BY <1>2, LastIn, Zenon DEF Inv, ListOK
<1>7. CallOK(t, st)'
  BY <1>2, <1>4, <1>5, <1>6, Zenon DEF CallOK
<1>8. next' \in [Nodes -> Nodes \cup {null}]
  BY <1>2, Zenon DEF TypeOK
<1> QED
  BY <1>2, <1>4, <1>5, <1>7, <1>8, QuietStep, Zenon

LEMMA DelNextGoes ==
  ASSUME TypeOK, NEW st, NEW hd, Inv(st, hd), NEW t \in Threads, DelFirstNext(t)
  PROVE  Goes(st, hd)
<1>1. PICK c : c = [call[t] EXCEPT !.pc = "swap", !.next = next[call[t].seen]]
  BY Zenon
<1>2. /\ call[t].pc = "next" /\ next' = next
      /\ call' = [call EXCEPT ![t] = c] /\ first' = first /\ firsts' = firsts /\ free' = free /\ was' = was
  BY <1>1, Zenon DEF DelFirstNext, To
<1>3. t \in firsts /\ call[t].seen \in Range(st)
  BY <1>2, Zenon DEF Inv, CallOK
<1>4. next[call[t].seen] \in Nodes \cup {null} /\ call[t] \in Calls
  <2>1. call[t].seen \in Nodes
    BY <1>3, RangeIs, Zenon DEF Inv, ListOK
  <2> QED
    BY <2>1, Zenon DEF TypeOK
<1>5. c \in Calls /\ c.pc = "swap" /\ c.seen = call[t].seen /\ c.next = next[call[t].seen]
  BY <1>1, <1>4, Zenon DEF Calls
<1>6. ~Holds(t) /\ ~Holds(t)' /\ call'[t] = c
  BY <1>2, <1>5, Zenon DEF Holds, TypeOK
<1>7. CallOK(t, st)'
  BY <1>2, <1>3, <1>5, <1>6, Zenon DEF CallOK
<1>8. next' \in [Nodes -> Nodes \cup {null}]
  BY <1>2, Zenon DEF TypeOK
<1> QED
  BY <1>2, <1>5, <1>6, <1>7, <1>8, QuietStep, Zenon

\* The exchange of llist_del_first fails.
LEMMA DelAgainGoes ==
  ASSUME TypeOK, NEW st, NEW hd, Inv(st, hd), NEW t \in Threads, DelFirstCas(t), first # call[t].seen
  PROVE  Goes(st, hd)
<1>1. PICK c : c = IF first = null THEN At("idle", null, null)
                   ELSE [call[t] EXCEPT !.pc = "next", !.seen = first]
  BY Zenon
<1>2. /\ call[t].pc = "swap" /\ next' = next
      /\ call' = [call EXCEPT ![t] = c] /\ first' = first /\ firsts' = firsts /\ free' = free /\ was' = was
  BY <1>1, Zenon DEF DelFirstCas, To
<1>3. call[t] \in Calls /\ first \in Nodes \cup {null}
  BY Zenon DEF TypeOK
<1>4. c \in Calls /\ (c.pc = "idle" \/ (c.pc = "next" /\ c.seen = first /\ first # null))
  <2>1. CASE first = null
    BY <1>1, <2>1, Zenon DEF Calls, At
  <2>2. CASE first # null
    BY <1>1, <1>3, <2>2, Zenon DEF Calls
  <2> QED
    BY <2>1, <2>2, Zenon
<1>5. ~Holds(t) /\ ~Holds(t)' /\ call'[t] = c
  BY <1>2, <1>4, Zenon DEF Holds, TypeOK
<1>6. first # null => first \in Range(st)
  BY LastIn, Zenon DEF Inv, ListOK
<1>7. t \in firsts
  BY <1>2, Zenon DEF Inv, CallOK
<1>8. CallOK(t, st)'
  BY <1>2, <1>4, <1>5, <1>6, <1>7, Zenon DEF CallOK
<1>9. next' \in [Nodes -> Nodes \cup {null}]
  BY <1>2, Zenon DEF TypeOK
<1> QED
  BY <1>2, <1>4, <1>5, <1>8, <1>9, QuietStep, Zenon

-----------------------------------------------------------------------------
\* One chain in front of another.
LEMMA Joined ==
  ASSUME NEW s \in Seq(Nodes), s # <<>>, NEW r \in Seq(Nodes), Distinct(s), Distinct(r),
         \A n \in Range(s) : n \notin Range(r)
  PROVE  /\ s \o r \in Seq(Nodes) /\ s \o r # <<>> /\ Distinct(s \o r)
         /\ Range(s \o r) = Range(s) \cup Range(r)
         /\ (s \o r)[1] = s[1]
         /\ (s \o r)[Len(s \o r)] = IF r = <<>> THEN s[Len(s)] ELSE r[Len(r)]
         /\ \A f : /\ Path(f, s) /\ Path(f, r)
                   /\ r # <<>> => f[s[Len(s)]] = r[1]
                   => Path(f, s \o r)
<1>1. PICK q : q = s \o r
  BY Zenon
<1>2. PICK m \in Nat \ {0} : m = Len(s)
  OBVIOUS
<1>3. PICK k \in Nat : k = Len(r)
  OBVIOUS
<1>4. /\ q \in Seq(Nodes) /\ Len(q) = m + k
      /\ \A i \in 1..(m + k) : q[i] = IF i <= m THEN s[i] ELSE r[i - m]
  BY <1>1, <1>2, <1>3
<1>5. /\ \A x : x \in Range(s) <=> \E i \in 1..m : x = s[i]
      /\ \A x : x \in Range(r) <=> \E i \in 1..k : x = r[i]
      /\ \A x : x \in Range(q) <=> \E i \in 1..(m + k) : x = q[i]
  BY <1>2, <1>3, <1>4, RangeIs
<1>6. \A i \in 1..m : q[i] = s[i] /\ i \in 1..(m + k)
  BY <1>4
<1>7. \A i \in 1..k : q[m + i] = r[i] /\ m + i \in 1..(m + k)
  BY <1>4
<1>8. Range(q) = Range(s) \cup Range(r)
  <2>1. ASSUME NEW x \in Range(q) PROVE x \in Range(s) \cup Range(r)
    <3>1. PICK i \in 1..(m + k) : x = q[i]
      BY <1>5, Zenon
    <3>2. CASE i <= m
      BY <1>4, <1>5, <3>1, <3>2
    <3>3. CASE ~(i <= m)
      <4>1. i - m \in 1..k /\ x = r[i - m]
        BY <1>4, <3>1, <3>3
      <4> QED
        BY <1>5, <4>1, Zenon
    <3> QED
      BY <3>2, <3>3, Zenon
  <2>2. ASSUME NEW x \in Range(s) PROVE x \in Range(q)
    BY <1>5, <1>6
  <2>3. ASSUME NEW x \in Range(r) PROVE x \in Range(q)
    BY <1>5, <1>7
  <2> QED
    BY <2>1, <2>2, <2>3, Zenon
<1>9. Distinct(q)
  <2> SUFFICES ASSUME NEW i \in 1..(m + k), NEW j \in 1..(m + k), q[i] = q[j] PROVE i = j
    BY <1>4, Zenon DEF Distinct
  <2>1. \A l \in 1..(m + k) : \/ l \in 1..m /\ q[l] = s[l] /\ q[l] \in Range(s)
                              \/ l - m \in 1..k /\ q[l] = r[l - m] /\ q[l] \in Range(r)
    <3> SUFFICES ASSUME NEW l \in 1..(m + k)
                 PROVE  \/ l \in 1..m /\ q[l] = s[l] /\ q[l] \in Range(s)
                        \/ l - m \in 1..k /\ q[l] = r[l - m] /\ q[l] \in Range(r)
      BY Zenon
    <3>1. CASE l <= m
      BY <3>1, <1>4, <1>5
    <3>2. CASE ~(l <= m)
      <4>1. l - m \in 1..k /\ q[l] = r[l - m]
        BY <3>2, <1>4
      <4> QED
        BY <4>1, <1>5, Zenon
    <3> QED
      BY <3>1, <3>2, Zenon
  <2>2. \A l, o \in 1..m : s[l] = s[o] => l = o
    BY <1>2, Zenon DEF Distinct
  <2>3. \A l, o \in 1..k : r[l] = r[o] => l = o
    BY <1>3, Zenon DEF Distinct
  <2>4. CASE i \in 1..m /\ q[i] = s[i] /\ q[i] \in Range(s)
    BY <2>1, <2>2, <2>4, Zenon
  <2>5. CASE i - m \in 1..k /\ q[i] = r[i - m] /\ q[i] \in Range(r)
    <3>1. j - m \in 1..k /\ q[j] = r[j - m]
      BY <2>1, <2>5, Zenon
    <3>2. i - m = j - m
      BY <2>3, <2>5, <3>1, Zenon
    <3> QED
      BY <3>2
  <2> QED
    BY <2>1, <2>4, <2>5, Zenon
<1>10. q[1] = s[1] /\ q # <<>>
  BY <1>4
<1>11. q[Len(q)] = IF r = <<>> THEN s[Len(s)] ELSE r[Len(r)]
  <2>1. CASE k = 0
    <3>0. Len(r) = 0
      BY <1>3, <2>1, Zenon
    <3>1. r = <<>>
      BY <3>0
    <3>2. Len(q) = m /\ m \in 1..(m + k) /\ m <= m
      BY <1>4, <2>1
    <3>3. q[m] = s[m]
      BY <1>4, <3>2, Zenon
    <3> QED
      BY <1>2, <3>1, <3>2, <3>3, Zenon
  <2>2. CASE k # 0
    <3>1. m + k \in 1..(m + k) /\ ~(m + k <= m) /\ (m + k) - m = k /\ r # <<>>
      BY <1>3, <2>2
    <3> QED
      BY <1>3, <1>4, <3>1, Zenon
  <2> QED
    BY <2>1, <2>2, Zenon
<1>12. ASSUME NEW f, Path(f, s), Path(f, r), r # <<>> => f[s[Len(s)]] = r[1] PROVE Path(f, q)
  <2> SUFFICES ASSUME NEW i \in 1..(m + k), i < m + k PROVE f[q[i]] = q[i + 1]
    BY <1>4, Zenon DEF Path
  <2>1. CASE i < m
    <3>1. i \in 1..m /\ i + 1 \in 1..m /\ f[s[i]] = s[i + 1]
      BY <1>2, <1>12, <2>1 DEF Path
    <3> QED
      BY <1>6, <3>1, Zenon
  <2>2. CASE i = m
    <3>1. r # <<>> /\ 1 \in 1..k /\ q[m + 1] = r[1] /\ q[m] = s[m]
      BY <1>3, <1>6, <1>7, <2>2
    <3> QED
      BY <1>2, <1>12, <2>2, <3>1, Zenon
  <2>3. CASE i > m
    <3>1. i - m \in 1..k /\ i - m < k /\ q[i] = r[i - m] /\ q[i + 1] = r[(i + 1) - m] /\ (i + 1) - m = (i - m) + 1
      BY <1>4, <2>3
    <3>2. f[r[i - m]] = r[(i - m) + 1]
      BY <1>3, <1>12, <3>1, Zenon DEF Path
    <3> QED
      BY <3>1, <3>2, Zenon
  <2> QED
    BY <2>1, <2>2, <2>3
<1> QED
  BY <1>1, <1>4, <1>8, <1>9, <1>10, <1>11, <1>12, Zenon

\* A chain without its first node.
LEMMA Shortened ==
  ASSUME NEW s \in Seq(Nodes), s # <<>>, Distinct(s), Path(next, s), next[s[Len(s)]] = null
  PROVE  /\ Tail(s) \in Seq(Nodes) /\ Distinct(Tail(s)) /\ Path(next, Tail(s)) /\ Head(s) = s[1]
         /\ Range(s) = {s[1]} \cup Range(Tail(s)) /\ s[1] \notin Range(Tail(s))
         /\ next[s[1]] = IF Tail(s) = <<>> THEN null ELSE Tail(s)[1]
         /\ Tail(s) # <<>> => next[Tail(s)[Len(Tail(s))]] = null
<1>1. PICK q : q = Tail(s)
  BY Zenon
<1>2. PICK m \in Nat \ {0} : m = Len(s)
  OBVIOUS
<1>3. q \in Seq(Nodes) /\ Len(q) = m - 1 /\ \A i \in 1..(m - 1) : q[i] = s[i + 1]
  BY <1>1, <1>2
<1>4. /\ \A x : x \in Range(s) <=> \E i \in 1..m : x = s[i]
      /\ \A x : x \in Range(q) <=> \E i \in 1..(m - 1) : x = q[i]
  BY <1>2, <1>3, RangeIs
<1>5. \A i, j \in 1..m : s[i] = s[j] => i = j
  BY <1>2, Zenon DEF Distinct
<1>6. \A i \in 1..m : i < m => next[s[i]] = s[i + 1]
  BY <1>2, Zenon DEF Path
<1>7. \A i \in 1..(m - 1) : i + 1 \in 1..m /\ i + 1 # 1
  OBVIOUS
<1>8. Distinct(q)
  <2> SUFFICES ASSUME NEW i \in 1..(m - 1), NEW j \in 1..(m - 1), q[i] = q[j] PROVE i = j
    BY <1>3, Zenon DEF Distinct
  <2>1. i + 1 = j + 1
    BY <1>3, <1>5, <1>7, Zenon
  <2> QED
    BY <2>1
<1>9. Path(next, q)
  <2> SUFFICES ASSUME NEW i \in 1..(m - 1), i < m - 1 PROVE next[q[i]] = q[i + 1]
    BY <1>3, Zenon DEF Path
  <2>1. i + 1 \in 1..m /\ i + 1 < m /\ i + 1 \in 1..(m - 1)
    OBVIOUS
  <2> QED
    BY <1>3, <1>6, <2>1, Zenon
<1>10. s[1] \notin Range(q)
  <2> SUFFICES ASSUME NEW i \in 1..(m - 1), s[1] = q[i] PROVE FALSE
    BY <1>4, Zenon
  <2>1. 1 \in 1..m /\ s[1] = s[i + 1]
    BY <1>3
  <2> QED
    BY <1>5, <1>7, <2>1, Zenon
<1>11. Range(s) = {s[1]} \cup Range(q)
  <2>1. ASSUME NEW i \in 1..m PROVE s[i] \in {s[1]} \cup Range(q)
    <3>1. CASE i = 1
      BY <3>1, Zenon
    <3>2. CASE i # 1
      <4>1. i - 1 \in 1..(m - 1) /\ q[i - 1] = s[(i - 1) + 1] /\ (i - 1) + 1 = i
        BY <1>3, <3>2
      <4> QED
        BY <1>4, <4>1, Zenon
    <3> QED
      BY <3>1, <3>2, Zenon
  <2>2. ASSUME NEW i \in 1..(m - 1) PROVE q[i] \in Range(s)
    BY <1>3, <1>4, <1>7, Zenon
  <2>3. s[1] \in Range(s)
    BY <1>4
  <2> QED
    BY <1>4, <2>1, <2>2, <2>3, Zenon
<1>12. CASE m = 1
  <2>1. q = <<>> /\ s[Len(s)] = s[1]
    BY <1>2, <1>3, <1>12
  <2> QED
    BY <1>1, <1>3, <1>8, <1>9, <1>10, <1>11, <2>1
<1>13. CASE m # 1
  <2>1. 1 \in 1..m /\ 1 < m /\ q # <<>> /\ q[1] = s[1 + 1]
    BY <1>3, <1>13
  <2>2. next[s[1]] = q[1]
    BY <1>6, <2>1, Zenon
  <2>3. m - 1 \in 1..(m - 1) /\ (m - 1) + 1 = m
    BY <1>13
  <2>4. q[Len(q)] = s[m]
    BY <1>3, <2>3, Zenon
  <2> QED
    BY <1>1, <1>2, <1>3, <1>8, <1>9, <1>10, <1>11, <2>1, <2>2, <2>4
<1> QED
  BY <1>12, <1>13, Zenon

\* A step of thread t that moves nodes between the list, the hand of t and the
\* free ones, and writes no link that the others rely on.
LEMMA MoveStep ==
  ASSUME TypeOK, NEW st, NEW hd, Inv(st, hd), NEW t \in Threads, NEW c \in Calls,
         call' = [call EXCEPT ![t] = c], firsts' = firsts, first' \in Nodes \cup {null},
         next' \in [Nodes -> Nodes \cup {null}], free' \subseteq Nodes,
         NEW st2, NEW s2 \in Seq(Nodes), ListOK(st2)', HandOK(t, s2)', CallOK(t, st2)',
         \A u \in Threads : u # t =>
           /\ \A n \in Range(hd[u]) : next'[n] = next[n]
           /\ \/ call[u].pc \notin {"next", "swap"}
              \/ Range(st) \subseteq Range(st2) /\ \A n \in Range(st) : next'[n] = next[n],
         \A n \in free' \cup Range(st2) \cup Range(s2) : n \in free \cup Range(st) \cup Range(hd[t]),
         \A n \in Range(st2) : n \notin free',
         \A n \in Range(s2) : n \notin free' /\ n \notin Range(st2)
  PROVE  TypeOK' /\ Inv(st2, [hd EXCEPT ![t] = s2])'
<1>1. call'[t] = c /\ \A u \in Threads : u # t => call'[u] = call[u]
  BY Zenon DEF TypeOK
<1>2. TypeOK'
  BY Zenon DEF TypeOK
<1>3. PICK new : new = [hd EXCEPT ![t] = s2]
  BY Zenon
<1>4. new \in [Threads -> Seq(Nodes)] /\ new[t] = s2 /\ \A u \in Threads : u # t => new[u] = hd[u]
  BY <1>3, Zenon DEF Inv
<1>5. \A u \in Threads : u # t => HandOK(u, hd[u])' /\ CallOK(u, st2)'
  BY <1>1, OtherKept, Zenon
<1>6. ASSUME NEW u \in Threads PROVE HandOK(u, new[u])' /\ CallOK(u, st2)'
  <2>1. CASE u = t
    BY <1>4, <2>1, Zenon
  <2>2. CASE u # t
    BY <1>4, <1>5, <2>2, Zenon
  <2> QED
    BY <2>1, <2>2, Zenon
<1>7. Apart(st2, new)'
  <2>1. ASSUME NEW u \in Threads, u # t, NEW n \in Range(hd[u])
        PROVE  n \notin free' /\ n \notin Range(st2) /\ n \notin Range(s2)
    BY <2>1, Zenon DEF Inv, Apart
  <2>2. ASSUME NEW u \in Threads, u # t, NEW w \in Threads, w # t, w # u, NEW n \in Range(hd[u])
        PROVE  n \notin Range(hd[w])
    BY <2>2, Zenon DEF Inv, Apart
  <2>3. ASSUME NEW u \in Threads, NEW n \in Range(new[u])
        PROVE  n \notin free' /\ n \notin Range(st2) /\ \A w \in Threads : w # u => n \notin Range(new[w])
    <3>1. CASE u = t
      BY <1>4, <2>1, <2>3, <3>1, Zenon
    <3>2. CASE u # t
      BY <1>4, <2>1, <2>2, <2>3, <3>2, Zenon
    <3> QED
      BY <3>1, <3>2, Zenon
  <2> QED
    BY <2>3, Zenon DEF Apart
<1>8. Inv(st2, new)'
  BY <1>4, <1>6, <1>7, Zenon DEF Inv
<1> QED
  BY <1>2, <1>3, <1>8, Zenon

LEMMA IdleIs ==
  /\ At("idle", null, null) \in Calls /\ At("idle", null, null).pc = "idle"
  /\ \A a, z \in Nodes : /\ At("hand", a, z) \in Calls /\ At("hand", a, z).pc = "hand"
                         /\ At("hand", a, z).head = a /\ At("hand", a, z).last = z
  BY Zenon DEF At, Calls

\* The hand of a thread that is idle is empty.
LEMMA IdleHand ==
  ASSUME NEW t \in Threads, call'[t].pc = "idle"
  PROVE  HandOK(t, <<>>)' /\ \A st : CallOK(t, st)'
<1>1. <<>> \in Seq(Nodes) /\ Len(<<>>) = 0
  OBVIOUS
<1> QED
  BY <1>1 DEF HandOK, Holds, Distinct, Path, CallOK

\* The exchange of llist_add_batch.
LEMMA AddGoes ==
  ASSUME TypeOK, NEW st, NEW hd, Inv(st, hd), NEW t \in Threads, AddCas(t), first = call[t].seen
  PROVE  Goes(st, hd)
<1>1. PICK c : c = At("idle", null, null)
  BY Zenon
<1>2. /\ call[t].pc = "cas" /\ first' = call[t].head /\ call' = [call EXCEPT ![t] = c]
      /\ was' = [was EXCEPT ![t] = (call[t].seen = null)]
      /\ next' = next /\ firsts' = firsts /\ free' = free
  BY <1>1, Zenon DEF AddCas, To
<1>3. PICK s : s = hd[t]
  BY Zenon
<1>4. /\ s \in Seq(Nodes) /\ Distinct(s) /\ Path(next, s) /\ s # <<>>
      /\ call[t].head = s[1] /\ call[t].last = s[Len(s)]
  BY <1>2, <1>3, Zenon DEF Inv, HandOK, Holds
<1>5. /\ st \in Seq(Nodes) /\ Distinct(st) /\ Path(next, st) /\ first = IF st = <<>> THEN null ELSE st[1]
      /\ st # <<>> => next[st[Len(st)]] = null
  BY Zenon DEF Inv, ListOK
<1>6. next[s[Len(s)]] = first
  BY <1>2, <1>4, Zenon DEF Inv, CallOK
<1>7. \A n \in Range(s) : n \notin Range(st) /\ n \notin free
  BY <1>3, Zenon DEF Inv, Apart
<1>8. PICK st2 : st2 = s \o st
  BY Zenon
<1>9. /\ st2 \in Seq(Nodes) /\ st2 # <<>> /\ Distinct(st2) /\ Range(st2) = Range(s) \cup Range(st)
      /\ st2[1] = s[1] /\ st2[Len(st2)] = IF st = <<>> THEN s[Len(s)] ELSE st[Len(st)]
      /\ Path(next, st2)
  BY <1>4, <1>5, <1>6, <1>7, <1>8, Joined, Zenon
<1>10. ListOK(st2)'
  BY <1>2, <1>4, <1>5, <1>6, <1>9, Zenon DEF ListOK
<1>11. c \in Calls /\ call'[t].pc = "idle"
  BY <1>1, <1>2, IdleIs, Zenon DEF TypeOK
<1>12. HandOK(t, <<>>)' /\ CallOK(t, st2)'
  BY <1>11, IdleHand, Zenon
<1>13. Range(<<>>) = {} /\ <<>> \in Seq(Nodes)
  BY DEF Range
<1>14. first' \in Nodes \cup {null} /\ next' \in [Nodes -> Nodes \cup {null}] /\ free' \subseteq Nodes
  BY <1>2, <1>4, LastIn, RangeIs, Zenon DEF TypeOK
<1>15. \A n \in Range(st) : n \notin free
  BY Zenon DEF Inv, Apart
<1>16. TypeOK' /\ Inv(st2, [hd EXCEPT ![t] = <<>>])'
  BY <1>2, <1>3, <1>7, <1>9, <1>10, <1>11, <1>12, <1>13, <1>14, <1>15, MoveStep, Zenon
<1>17. Step(st, hd, st2, [hd EXCEPT ![t] = <<>>])
  <2>1. call[t].seen = null <=> st = <<>>
    <3>1. st # <<>> => st[1] \in Nodes
      BY <1>5, LastIn, RangeIs, Zenon
    <3> QED
      BY <1>5, <3>1, LListAssumption, Zenon
  <2>2. was' = [was EXCEPT ![t] = (st = <<>>)]
    BY <1>2, <2>1, Zenon
  <2> QED
    BY <1>2, <1>3, <1>4, <1>8, <2>2, Zenon DEF Step
<1> QED
  BY <1>16, <1>17, Zenon DEF Goes

\* Only one thread is in llist_del_first, and none deletes besides it.
LEMMA OneDeletes ==
  ASSUME TypeOK, NEW st, NEW hd, Inv(st, hd), NEW t \in Threads, firsts = {} \/ t \in firsts
  PROVE  \A u \in Threads : u # t => call[u].pc \notin {"next", "swap"}
  BY LListAssumption, Zenon DEF TypeOK, Inv, CallOK

LEMMA Single ==
  ASSUME NEW a \in Nodes
  PROVE  /\ <<a>> \in Seq(Nodes) /\ <<a>> # <<>> /\ Distinct(<<a>>) /\ Range(<<a>>) = {a}
         /\ <<a>>[1] = a /\ Len(<<a>>) = 1 /\ \A f : Path(f, <<a>>)
<1>1. <<a>> \in Seq(Nodes) /\ Len(<<a>>) = 1 /\ <<a>>[1] = a /\ <<a>> # <<>>
  OBVIOUS
<1>2. Range(<<a>>) = {a}
  <2>1. PICK s : s = <<a>>
    BY Zenon
  <2>2. s \in Seq(Nodes) /\ Len(s) = 1 /\ s[1] = a
    BY <1>1, <2>1, Zenon
  <2>3. \A x : x \in Range(s) <=> \E i \in 1..Len(s) : x = s[i]
    BY <2>2, RangeIs, Zenon
  <2>4. Range(s) = {a}
    BY <2>2, <2>3
  <2> QED
    BY <2>1, <2>4, Zenon
<1> QED
  BY <1>1, <1>2 DEF Distinct, Path

\* The exchange of llist_del_first.
LEMMA DelGoes ==
  ASSUME TypeOK, NEW st, NEW hd, Inv(st, hd), NEW t \in Threads, DelFirstCas(t), first = call[t].seen
  PROVE  Goes(st, hd)
<1>1. PICK c, a : a = first /\ c = At("hand", a, a)
  BY Zenon
<1>2. /\ call[t].pc = "swap" /\ first' = call[t].next /\ call' = [call EXCEPT ![t] = c]
      /\ next' = next /\ firsts' = firsts /\ free' = free /\ was' = was
  BY <1>1, Zenon DEF DelFirstCas, To
<1>3. t \in firsts /\ call[t].seen \in Range(st) /\ next[call[t].seen] = call[t].next
  BY <1>2, Zenon DEF Inv, CallOK
<1>4. /\ st \in Seq(Nodes) /\ Distinct(st) /\ Path(next, st) /\ first = IF st = <<>> THEN null ELSE st[1]
      /\ st # <<>> => next[st[Len(st)]] = null
  BY Zenon DEF Inv, ListOK
<1>5. st # <<>> /\ a = st[1] /\ a \in Nodes
  <2>1. call[t].seen \in Nodes
    BY <1>3, <1>4, RangeIs, Zenon
  <2> QED
    BY <1>1, <1>4, <2>1, LListAssumption, Zenon
<1>6. PICK st2 : st2 = Tail(st)
  BY Zenon
<1>7. /\ st2 \in Seq(Nodes) /\ Distinct(st2) /\ Path(next, st2) /\ Head(st) = a
      /\ Range(st) = {a} \cup Range(st2) /\ a \notin Range(st2)
      /\ next[a] = IF st2 = <<>> THEN null ELSE st2[1]
      /\ st2 # <<>> => next[st2[Len(st2)]] = null
  BY <1>4, <1>5, <1>6, Shortened, Zenon
<1>8. first' = next[a]
  BY <1>1, <1>2, <1>3, Zenon
<1>9. ListOK(st2)'
  BY <1>2, <1>7, <1>8, Zenon DEF ListOK
<1>10. c \in Calls /\ c.pc = "hand" /\ c.head = a /\ c.last = a
  BY <1>1, <1>5, IdleIs
<1>11. call'[t] = c /\ Holds(t)'
  BY <1>2, <1>10, Zenon DEF TypeOK, Holds
<1>12. PICK s2 : s2 = <<a>>
  BY Zenon
<1>13. /\ s2 \in Seq(Nodes) /\ s2 # <<>> /\ Distinct(s2) /\ Range(s2) = {a}
       /\ s2[1] = a /\ Len(s2) = 1 /\ Path(next, s2)
  BY <1>5, <1>12, Single, Zenon
<1>14. HandOK(t, s2)'
  BY <1>2, <1>10, <1>11, <1>13, Zenon DEF HandOK
<1>15. CallOK(t, st2)'
  BY <1>10, <1>11, Zenon DEF CallOK
<1>16. first' \in Nodes \cup {null} /\ next' \in [Nodes -> Nodes \cup {null}] /\ free' \subseteq Nodes
  BY <1>2, <1>5, <1>8, Zenon DEF TypeOK
<1>17. \A n \in Range(st) : n \notin free
  BY Zenon DEF Inv, Apart
<1>18. \A u \in Threads : u # t => call[u].pc \notin {"next", "swap"}
  BY <1>3, OneDeletes, Zenon
<1>19. TypeOK' /\ Inv(st2, [hd EXCEPT ![t] = s2])'
  BY <1>2, <1>7, <1>9, <1>10, <1>13, <1>14, <1>15, <1>16, <1>17, <1>18, MoveStep, Zenon
<1>20. hd[t] = <<>>
  BY <1>2, Zenon DEF Inv, HandOK, Holds
<1>21. Step(st, hd, st2, [hd EXCEPT ![t] = s2])
  BY <1>2, <1>5, <1>6, <1>7, <1>12, <1>20, Zenon DEF Step
<1> QED
  BY <1>19, <1>21, Zenon DEF Goes

LEMMA DelAllGoes ==
  ASSUME TypeOK, NEW st, NEW hd, Inv(st, hd), NEW t \in Threads, llist_del_all(t)
  PROVE  Goes(st, hd)
<1>1. /\ st \in Seq(Nodes) /\ Distinct(st) /\ Path(next, st) /\ first = IF st = <<>> THEN null ELSE st[1]
  BY Zenon DEF Inv, ListOK
<1>2. Chain(first, null) = st
  BY BarIs, Zenon DEF Bar
<1>3. PICK c : c = At("hand", first, st[Len(st)])
  BY Zenon
<1>4. /\ call[t].pc = "idle" /\ (firsts = {} \/ t \in firsts) /\ first # null
      /\ first' = null /\ call' = [call EXCEPT ![t] = c]
      /\ next' = next /\ firsts' = firsts /\ free' = free /\ was' = was
  BY <1>2, <1>3, Zenon DEF llist_del_all, To, LastOf
<1>5. st # <<>> /\ first = st[1]
  BY <1>1, <1>4, Zenon
<1>6. st[1] \in Nodes /\ st[Len(st)] \in Nodes
  BY <1>1, <1>5, LastIn, RangeIs, Zenon
<1>7. c \in Calls /\ c.pc = "hand" /\ c.head = st[1] /\ c.last = st[Len(st)]
  BY <1>3, <1>5, <1>6, IdleIs
<1>8. call'[t] = c /\ Holds(t)'
  BY <1>4, <1>7, Zenon DEF TypeOK, Holds
<1>9. HandOK(t, st)'
  BY <1>1, <1>4, <1>5, <1>7, <1>8, Zenon DEF HandOK
<1>10. CallOK(t, <<>>)'
  BY <1>7, <1>8, Zenon DEF CallOK
<1>11. <<>> \in Seq(Nodes) /\ Len(<<>>) = 0 /\ Range(<<>>) = {}
  BY DEF Range
<1>12. ListOK(<<>>)'
  BY <1>4, <1>11 DEF ListOK, Distinct, Path
<1>13. first' \in Nodes \cup {null} /\ next' \in [Nodes -> Nodes \cup {null}] /\ free' \subseteq Nodes
  BY <1>4, Zenon DEF TypeOK
<1>14. \A n \in Range(st) : n \notin free
  BY Zenon DEF Inv, Apart
<1>15. \A u \in Threads : u # t => call[u].pc \notin {"next", "swap"}
  BY <1>4, OneDeletes, Zenon
<1>16. TypeOK' /\ Inv(<<>>, [hd EXCEPT ![t] = st])'
  BY <1>1, <1>4, <1>7, <1>9, <1>10, <1>11, <1>12, <1>13, <1>14, <1>15, MoveStep, Zenon
<1>17. hd[t] = <<>>
  BY <1>4, Zenon DEF Inv, HandOK, Holds
<1>18. Step(st, hd, <<>>, [hd EXCEPT ![t] = st])
  BY <1>4, <1>17, Zenon DEF Step
<1> QED
  BY <1>16, <1>18, Zenon DEF Goes

LEMMA ReleasedGoes ==
  ASSUME TypeOK, NEW st, NEW hd, Inv(st, hd), NEW t \in Threads, Released(t)
  PROVE  Goes(st, hd)
<1>1. PICK s, c : s = hd[t] /\ c = At("idle", null, null)
  BY Zenon
<1>2. call[t].pc = "hand" /\ Holds(t)
  BY Zenon DEF Released, Holds
<1>3. Chain(call[t].head, call[t].last) = s
  <2>1. HandsHeld = hd
    BY BarIs, Zenon DEF Bar
  <2>2. HandsHeld[t] = Chain(call[t].head, call[t].last)
    BY <1>2, Zenon DEF HandsHeld
  <2> QED
    BY <1>1, <2>1, <2>2, Zenon
<1>4. /\ free' = free \cup Range(s) /\ call' = [call EXCEPT ![t] = c]
      /\ first' = first /\ next' = next /\ firsts' = firsts /\ was' = was
  BY <1>1, <1>3, Zenon DEF Released, To
<1>5. s \in Seq(Nodes) /\ \A n \in Range(s) : n \in Nodes /\ n \notin Range(st)
  BY <1>1, RangeIs, Zenon DEF Inv, Apart
<1>6. c \in Calls /\ call'[t].pc = "idle"
  BY <1>1, <1>4, IdleIs, Zenon DEF TypeOK
<1>7. HandOK(t, <<>>)' /\ CallOK(t, st)'
  BY <1>6, IdleHand, Zenon
<1>8. ListOK(st)'
  BY <1>4, ListKept, Zenon DEF Inv
<1>9. Range(<<>>) = {} /\ <<>> \in Seq(Nodes)
  BY DEF Range
<1>10. first' \in Nodes \cup {null} /\ next' \in [Nodes -> Nodes \cup {null}] /\ free' \subseteq Nodes
  BY <1>4, <1>5, Zenon DEF TypeOK
<1>11. \A n \in Range(st) : n \notin free'
  BY <1>4, <1>5, Zenon DEF Inv, Apart
<1>12. TypeOK' /\ Inv(st, [hd EXCEPT ![t] = <<>>])'
  BY <1>1, <1>4, <1>6, <1>7, <1>8, <1>9, <1>10, <1>11, MoveStep, Zenon
<1>13. Step(st, hd, st, [hd EXCEPT ![t] = <<>>])
  BY <1>1, <1>4, Zenon DEF Step
<1> QED
  BY <1>12, <1>13, Zenon DEF Goes

-----------------------------------------------------------------------------
\* Linking a chain makes a path of it, and writes no other link.
LEMMA LinkedIs ==
  ASSUME NEW s \in Seq(Nodes), s # <<>>, Distinct(s), NEW f \in [Nodes -> Nodes \cup {null}]
  PROVE  /\ Linked(f, s) \in [Nodes -> Nodes \cup {null}] /\ Path(Linked(f, s), s)
         /\ \A n \in Nodes : n \notin Range(s) => Linked(f, s)[n] = f[n]
<1>1. PICK m \in Nat \ {0} : m = Len(s)
  OBVIOUS
<1>2. \A i \in 1..m : s[i] \in Nodes
  BY <1>1
<1>3. \A x : x \in Range(FrontOf(s)) <=> \E i \in 1..(m - 1) : x = s[i]
  <2>1. PICK q : q = FrontOf(s)
    BY Zenon
  <2>2. q \in Seq(Nodes) /\ Len(q) = m - 1 /\ \A i \in 1..(m - 1) : q[i] = s[i]
    BY <1>1, <2>1 DEF FrontOf
  <2>3. \A x : x \in Range(q) <=> \E i \in 1..(m - 1) : x = q[i]
    BY <2>2, RangeIs
  <2> QED
    BY <2>1, <2>2, <2>3, Zenon
<1>4. ASSUME NEW i \in 1..(m - 1) PROVE Min({j \in 2..Len(s) : s[j - 1] = s[i]}) = i + 1
  <2>1. \A j \in 2..m : s[j - 1] = s[i] <=> j = i + 1
    <3> SUFFICES ASSUME NEW j \in 2..m PROVE s[j - 1] = s[i] <=> j = i + 1
      BY Zenon
    <3>1. j - 1 \in 1..m /\ i \in 1..m
      OBVIOUS
    <3>2. s[j - 1] = s[i] => j - 1 = i
      BY <1>1, <3>1, Zenon DEF Distinct
    <3> QED
      BY <3>2
  <2>2. {j \in 2..Len(s) : s[j - 1] = s[i]} = {i + 1}
    BY <1>1, <2>1
  <2>3. Min({i + 1}) = i + 1
    BY DEF Min
  <2> QED
    BY <2>2, <2>3, Zenon
<1>5. ASSUME NEW n \in Nodes
      PROVE  Linked(f, s)[n] = IF n \in Range(FrontOf(s)) THEN s[Min({j \in 2..Len(s) : s[j - 1] = n})] ELSE f[n]
  BY Zenon DEF Linked
<1>6. ASSUME NEW i \in 1..(m - 1) PROVE Linked(f, s)[s[i]] = s[i + 1] /\ s[i + 1] \in Nodes
  <2>1. s[i] \in Nodes /\ s[i] \in Range(FrontOf(s)) /\ s[i + 1] \in Nodes
    BY <1>2, <1>3
  <2>2. Linked(f, s)[s[i]] = s[Min({j \in 2..Len(s) : s[j - 1] = s[i]})]
    BY <1>5, <2>1, Zenon
  <2> QED
    BY <1>4, <2>1, <2>2, Zenon
<1>7. ASSUME NEW n \in Nodes PROVE Linked(f, s)[n] \in Nodes \cup {null}
  <2>1. CASE n \in Range(FrontOf(s))
    BY <1>3, <1>6, <2>1
  <2>2. CASE n \notin Range(FrontOf(s))
    BY <1>5, <2>2, Zenon
  <2> QED
    BY <2>1, <2>2, Zenon
<1>8. Linked(f, s) \in [Nodes -> Nodes \cup {null}]
  <2>1. Linked(f, s) = [n \in Nodes |-> Linked(f, s)[n]]
    BY Zenon DEF Linked
  <2> QED
    BY <1>7, <2>1, Zenon
<1>9. Path(Linked(f, s), s)
  <2> SUFFICES ASSUME NEW i \in 1..Len(s), i < Len(s) PROVE Linked(f, s)[s[i]] = s[i + 1]
    BY Zenon DEF Path
  <2>1. i \in 1..(m - 1)
    BY <1>1
  <2> QED
    BY <1>6, <2>1, Zenon
<1>10. ASSUME NEW n \in Nodes, n \notin Range(s) PROVE Linked(f, s)[n] = f[n]
  <2>1. n \notin Range(FrontOf(s))
    <3>1. \A i \in 1..(m - 1) : s[i] \in Range(s)
      BY <1>1, RangeIs
    <3> QED
      BY <1>3, <1>10, <3>1
  <2> QED
    BY <1>5, <2>1, Zenon
<1> QED
  BY <1>8, <1>9, <1>10, Zenon

\* A chain turned round.
LEMMA ReverseIs ==
  ASSUME NEW s \in Seq(Nodes), s # <<>>, Distinct(s)
  PROVE  /\ Reversed(s) \in Seq(Nodes) /\ Reversed(s) # <<>> /\ Distinct(Reversed(s))
         /\ Range(Reversed(s)) = Range(s)
         /\ Reversed(s)[1] = s[Len(s)] /\ Reversed(s)[Len(Reversed(s))] = s[1]
<1>1. PICK m \in Nat \ {0} : m = Len(s)
  OBVIOUS
<1>2. PICK q : q = Reversed(s)
  BY Zenon
<1>3. q \in Seq(Nodes) /\ Len(q) = m /\ \A i \in 1..m : q[i] = s[(m - i) + 1]
  BY <1>1, <1>2 DEF Reversed
<1>4. \A i \in 1..m : (m - i) + 1 \in 1..m /\ (m - ((m - i) + 1)) + 1 = i
  OBVIOUS
<1>5. \A i, j \in 1..m : s[i] = s[j] => i = j
  BY <1>1, Zenon DEF Distinct
<1>6. Distinct(q)
  <2> SUFFICES ASSUME NEW i \in 1..m, NEW j \in 1..m, q[i] = q[j] PROVE i = j
    BY <1>3, Zenon DEF Distinct
  <2>1. (m - i) + 1 = (m - j) + 1
    BY <1>3, <1>4, <1>5
  <2> QED
    BY <2>1
<1>7. /\ \A x : x \in Range(s) <=> \E i \in 1..m : x = s[i]
      /\ \A x : x \in Range(q) <=> \E i \in 1..m : x = q[i]
  BY <1>1, <1>3, RangeIs, Zenon
<1>8. ASSUME NEW i \in 1..m PROVE s[i] \in Range(q) /\ q[i] \in Range(s)
  <2>1. (m - i) + 1 \in 1..m /\ q[(m - i) + 1] = s[(m - ((m - i) + 1)) + 1]
    BY <1>3, <1>4, Zenon
  <2>2. q[(m - i) + 1] = s[i]
    BY <1>4, <2>1, Zenon
  <2> QED
    BY <1>3, <1>4, <1>7, <2>1, <2>2, Zenon
<1>9. Range(q) = Range(s)
  BY <1>7, <1>8, Zenon
<1>10. q[1] = s[m] /\ q[m] = s[1] /\ q # <<>>
  <2>1. 1 \in 1..m /\ m \in 1..m /\ (m - 1) + 1 = m /\ (m - m) + 1 = 1
    OBVIOUS
  <2>2. q[1] = s[m] /\ q[m] = s[1]
    BY <1>3, <2>1, Zenon
  <2>3. q # <<>>
    BY <1>3, Zenon
  <2> QED
    BY <2>2, <2>3, Zenon
<1> QED
  BY <1>1, <1>2, <1>3, <1>6, <1>9, <1>10, Zenon

\* A caller links a batch of free nodes.
LEMMA PreparedGoes ==
  ASSUME TypeOK, NEW st, NEW hd, Inv(st, hd), NEW t \in Threads,
         NEW s \in SeqsUpTo(free, 2) \ {<<>>}, Prepared(t, s)
  PROVE  Goes(st, hd)
<1>1. s \in Seq(Nodes) /\ s # <<>> /\ s \in Seq(free)
  <2>1. PICK m \in 0..2 : s \in [1..m -> free]
    BY Zenon DEF SeqsUpTo
  <2>2. s \in Seq(free) /\ free \subseteq Nodes
    BY <2>1 DEF TypeOK
  <2>3. s \in Seq(Nodes)
    BY <2>2
  <2> QED
    BY <2>2, <2>3, Zenon
<1>2. call[t].pc = "idle" /\ Distinct(s)
  BY <1>1 DEF Prepared, IsInjective, Distinct
<1>3. \A n \in Range(s) : n \in free /\ n \in Nodes
  BY <1>1, RangeIs, Zenon
<1>4. s[1] \in Nodes /\ s[Len(s)] \in Nodes
  BY <1>1, <1>3, LastIn, Zenon
<1>5. PICK c : c = At("hand", s[1], s[Len(s)])
  BY Zenon
<1>6. /\ next' = Linked(next, s) /\ call' = [call EXCEPT ![t] = c] /\ free' = free \ Range(s)
      /\ first' = first /\ firsts' = firsts /\ was' = was /\ IsInjective(s)
  BY <1>1, <1>5 DEF Prepared, To, LastOf
<1>7. /\ next' \in [Nodes -> Nodes \cup {null}] /\ Path(next', s)
      /\ \A n \in Nodes : n \notin free => next'[n] = next[n]
  BY <1>1, <1>2, <1>3, <1>6, LinkedIs DEF TypeOK
<1>8. c \in Calls /\ c.pc = "hand" /\ c.head = s[1] /\ c.last = s[Len(s)]
  BY <1>4, <1>5, IdleIs
<1>9. call'[t] = c /\ Holds(t)'
  BY <1>6, <1>8, Zenon DEF TypeOK, Holds
<1>10. HandOK(t, s)'
  BY <1>1, <1>2, <1>7, <1>8, <1>9, Zenon DEF HandOK
<1>11. CallOK(t, st)'
  BY <1>8, <1>9, Zenon DEF CallOK
<1>12. /\ \A n \in Range(st) : n \notin free /\ next'[n] = next[n]
       /\ \A u \in Threads : \A n \in Range(hd[u]) : next'[n] = next[n]
  <2>1. Range(st) \subseteq Nodes /\ \A u \in Threads : Range(hd[u]) \subseteq Nodes
    BY RangeIs, Zenon DEF Inv, ListOK
  <2> QED
    BY <1>7, <2>1, Zenon DEF Inv, Apart
<1>13. ListOK(st)'
  BY <1>6, <1>12, ListKept, Zenon DEF Inv
<1>14. first' \in Nodes \cup {null} /\ free' \subseteq Nodes
  BY <1>6, Zenon DEF TypeOK
<1>15. TypeOK' /\ Inv(st, [hd EXCEPT ![t] = s])'
  BY <1>1, <1>3, <1>6, <1>7, <1>8, <1>10, <1>11, <1>12, <1>13, <1>14, MoveStep, Zenon
<1>16. hd[t] = <<>>
  BY <1>2, Zenon DEF Inv, HandOK, Holds
<1>17. Step(st, hd, st, [hd EXCEPT ![t] = s])
  BY <1>6, <1>16, Zenon DEF Step
<1> QED
  BY <1>15, <1>17, Zenon DEF Goes

LEMMA ReverseGoes ==
  ASSUME TypeOK, NEW st, NEW hd, Inv(st, hd), NEW t \in Threads, llist_reverse_order(t)
  PROVE  Goes(st, hd)
<1>1. PICK s : s = hd[t]
  BY Zenon
<1>2. call[t].pc = "hand" /\ Holds(t)
  BY Zenon DEF llist_reverse_order, Holds
<1>3. /\ s \in Seq(Nodes) /\ Distinct(s) /\ s # <<>>
      /\ call[t].head = s[1] /\ call[t].last = s[Len(s)]
  BY <1>1, <1>2, Zenon DEF Inv, HandOK
<1>4. Chain(call[t].head, call[t].last) = s
  <2>1. HandsHeld = hd
    BY BarIs, Zenon DEF Bar
  <2>2. HandsHeld[t] = Chain(call[t].head, call[t].last)
    BY <1>2, Zenon DEF HandsHeld
  <2> QED
    BY <1>1, <2>1, <2>2, Zenon
<1>5. s[1] \in Nodes /\ s[Len(s)] \in Nodes
  BY <1>3, LastIn, RangeIs, Zenon
<1>6. PICK c, f, r : c = At("hand", s[Len(s)], s[1]) /\ f = [next EXCEPT ![s[1]] = null] /\ r = Reversed(s)
  BY Zenon
<1>7. /\ next' = Linked(f, r) /\ call' = [call EXCEPT ![t] = c]
      /\ first' = first /\ firsts' = firsts /\ free' = free /\ was' = was
  <2>1. Head(s) = s[1]
    BY <1>3
  <2> QED
    BY <1>3, <1>4, <1>6, <2>1, Zenon DEF llist_reverse_order, To
<1>8. /\ r \in Seq(Nodes) /\ r # <<>> /\ Distinct(r) /\ Range(r) = Range(s)
      /\ r[1] = s[Len(s)] /\ r[Len(r)] = s[1]
  BY <1>3, <1>6, ReverseIs, Zenon
<1>9. f \in [Nodes -> Nodes \cup {null}] /\ \A n \in Nodes : n # s[1] => f[n] = next[n]
  BY <1>5, <1>6, Zenon DEF TypeOK
<1>10. s[1] \in Range(s)
  BY <1>3, LastIn, Zenon
<1>11. /\ next' \in [Nodes -> Nodes \cup {null}] /\ Path(next', r)
       /\ \A n \in Nodes : n \notin Range(s) => next'[n] = next[n]
  BY <1>7, <1>8, <1>9, <1>10, LinkedIs, Zenon
<1>12. c \in Calls /\ c.pc = "hand" /\ c.head = r[1] /\ c.last = r[Len(r)]
  BY <1>5, <1>6, <1>8, IdleIs, Zenon
<1>13. call'[t] = c /\ Holds(t)'
  BY <1>7, <1>12, Zenon DEF TypeOK, Holds
<1>14. HandOK(t, r)'
  BY <1>8, <1>11, <1>12, <1>13, Zenon DEF HandOK
<1>15. CallOK(t, st)'
  BY <1>12, <1>13, Zenon DEF CallOK
<1>16. /\ \A n \in Range(st) : n \notin free /\ next'[n] = next[n]
       /\ \A u \in Threads : u # t => \A n \in Range(hd[u]) : next'[n] = next[n]
       /\ \A n \in Range(s) : n \notin free /\ n \notin Range(st)
  <2>1. Range(st) \subseteq Nodes /\ \A u \in Threads : Range(hd[u]) \subseteq Nodes
    BY RangeIs, Zenon DEF Inv, ListOK
  <2>2. \A n \in Range(s) : n \notin free /\ n \notin Range(st) /\ \A u \in Threads : u # t => n \notin Range(hd[u])
    BY <1>1, Zenon DEF Inv, Apart
  <2>3. \A n \in Range(st) : n \notin free
    BY Zenon DEF Inv, Apart
  <2> QED
    BY <1>11, <2>1, <2>2, <2>3, Zenon
<1>17. ListOK(st)'
  BY <1>7, <1>16, ListKept, Zenon DEF Inv
<1>18. first' \in Nodes \cup {null} /\ free' \subseteq Nodes
  BY <1>7, Zenon DEF TypeOK
<1>19. TypeOK' /\ Inv(st, [hd EXCEPT ![t] = r])'
  BY <1>1, <1>7, <1>8, <1>11, <1>12, <1>14, <1>15, <1>16, <1>17, <1>18, MoveStep, Zenon
<1>20. Step(st, hd, st, [hd EXCEPT ![t] = r])
  <2>1. [hd EXCEPT ![t] = r] = [hd EXCEPT ![t] = Reversed(@)]
    BY <1>1, <1>6, Zenon DEF Inv
  <2> QED
    BY <1>7, <2>1, Zenon DEF Step
<1> QED
  BY <1>19, <1>20, Zenon DEF Goes

-----------------------------------------------------------------------------
\* init_llist_head gives the empty stack.
LEMMA InitGoes ==
  ASSUME LListInit
  PROVE  IInv /\ Stack!Init
<1>1. PICK hd : hd = [t \in Threads |-> <<>>]
  BY Zenon
<1>2. <<>> \in Seq(Nodes) /\ Len(<<>>) = 0 /\ Range(<<>>) = {}
  BY DEF Range
<1>3. TypeOK
  BY IdleIs, Zenon DEF LListInit, TypeOK
<1>4. \A t \in Threads : call[t].pc = "idle" /\ hd[t] = <<>>
  BY <1>1, IdleIs, Zenon DEF LListInit
<1>5. ASSUME NEW t \in Threads PROVE HandOK(t, hd[t]) /\ CallOK(t, <<>>)
  <2>1. ~Holds(t) /\ CallOK(t, <<>>)
    BY <1>4, Zenon DEF CallOK, Holds
  <2>2. Distinct(<<>>) /\ Path(next, <<>>)
    BY <1>2 DEF Distinct, Path
  <2> QED
    BY <1>2, <1>4, <2>1, <2>2, Zenon DEF HandOK
<1>6. ListOK(<<>>)
  BY <1>2 DEF LListInit, ListOK, Distinct, Path
<1>7. Apart(<<>>, hd)
  BY <1>2, <1>4, Zenon DEF Apart
<1>8. Inv(<<>>, hd)
  BY <1>1, <1>2, <1>5, <1>6, <1>7, Zenon DEF Inv
<1>9. Chain(first, null) = <<>> /\ HandsHeld = hd
  BY <1>8, BarIs, Zenon DEF Bar
<1> QED
  BY <1>1, <1>3, <1>8, <1>9, Zenon DEF IInv, Stack!Init, LListInit

LEMMA StepGoes ==
  ASSUME IInv, [LListNext]_llvars
  PROVE  IInv' /\ [Stack!Next]_(Stack!vars)
<1>1. TypeOK
  BY Zenon DEF IInv
<1>2. PICK st, hd : Inv(st, hd)
  BY Zenon DEF IInv
<1>3. Goes(st, hd)
  <2>1. CASE UNCHANGED llvars
    <3>1. UNCHANGED <<first, next, call, firsts, free, was>>
      BY <2>1, Zenon DEF llvars
    <3>2. TypeOK'
      BY <1>1, <3>1, Zenon DEF TypeOK
    <3>3. Inv(st, hd)'
      BY <1>2, <3>1, Zenon DEF Inv, ListOK, HandOK, CallOK, Apart, Holds
    <3> QED
      BY <3>1, <3>2, <3>3, Zenon DEF Goes, Same
  <2>2. CASE LListNext
    <3>1. PICK t \in Threads : LListStep(t)
      BY <2>2, Zenon DEF LListNext
    <3>2. CASE \E s \in SeqsUpTo(free, 2) \ {<<>>} : Prepared(t, s)
      BY <1>1, <1>2, <3>2, PreparedGoes, Zenon
    <3>3. CASE AddLoad(t)
      BY <1>1, <1>2, <3>3, AddLoadGoes, Zenon
    <3>4. CASE AddCas(t)
      BY <1>1, <1>2, <3>4, AddGoes, AddAgainGoes, Zenon
    <3>5. CASE DelFirstLoad(t)
      BY <1>1, <1>2, <3>5, DelLoadGoes, Zenon
    <3>6. CASE DelFirstNext(t)
      BY <1>1, <1>2, <3>6, DelNextGoes, Zenon
    <3>7. CASE DelFirstCas(t)
      BY <1>1, <1>2, <3>7, DelGoes, DelAgainGoes, Zenon
    <3>8. CASE llist_del_all(t)
      BY <1>1, <1>2, <3>8, DelAllGoes, Zenon
    <3>9. CASE llist_reverse_order(t)
      BY <1>1, <1>2, <3>9, ReverseGoes, Zenon
    <3>10. CASE Released(t)
      BY <1>1, <1>2, <3>10, ReleasedGoes, Zenon
    <3> QED
      BY <3>1, <3>2, <3>3, <3>4, <3>5, <3>6, <3>7, <3>8, <3>9, <3>10, Zenon DEF LListStep
  <2> QED
    BY <2>1, <2>2, Zenon
<1>4. PICK st2, hd2 : Inv(st2, hd2)' /\ (Same(st, hd, st2, hd2) \/ Step(st, hd, st2, hd2))
  BY <1>3, Zenon DEF Goes
<1>5. IInv'
  BY <1>3, <1>4, Zenon DEF Goes, IInv
<1>6. [Stack!Next]_(Stack!vars)
  BY <1>2, <1>4, StackStep, Zenon
<1> QED
  BY <1>5, <1>6, Zenon

\* In every state of llist_add_batch, llist_del_first and llist_del_all between
\* threads, list and hands are chains without a common node, and the entry
\* llist_del_first works on is in the list with the link it has read.
THEOREM Invariance == LListSpec => []IInv
<1>1. LListInit => IInv
  BY InitGoes, Zenon
<1>2. IInv /\ [LListNext]_llvars => IInv'
  BY StepGoes, Zenon
<1> QED
  BY <1>1, <1>2, PTL DEF LListSpec

\* Used as the table in llist.h allows, llist.c is a stack for any number of
\* threads and nodes: every call takes effect at one moment, no node is lost or
\* in two places, and llist_add_batch answers truly whether the list was empty.
THEOREM ListIsStack == LListSpec => IsStack
<1>1. LListInit => Stack!Init
  BY InitGoes, Zenon
<1>2. IInv /\ [LListNext]_llvars => [Stack!Next]_(Stack!vars)
  BY StepGoes, Zenon
<1> QED
  BY <1>1, <1>2, Invariance, PTL DEF LListSpec, IsStack, Stack!Spec
=============================================================================
