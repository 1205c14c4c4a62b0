------------------------------ MODULE VMProofs ------------------------------
(***************************************************************************)
(* Proofs about the blocks and stacks of kernel/vm.c (VM), for any number  *)
(* of processors, any linear space, any physical pages and any sizes.      *)
(***************************************************************************)
EXTENDS VM, FiniteSetTheorems, WellFoundedInduction, TLAPS

\* The pages of a block, and the rounds of the loop: as many, or one more.
LEMMA HalfPages ==
  ASSUME NEW n \in Nat \ {0}
  PROVE  /\ Aligned(n) \in Nat \ {0} /\ Rounds(n) \in Nat \ {0}
         /\ Rounds(n) \in {Aligned(n), Aligned(n) + 1}
         /\ n % 2 = 0 => n \div 2 = Aligned(n) /\ (n + 2) % 2 = 0 /\ (n + 2) \div 2 = Aligned(n) + 1
         /\ (n + 2) % 2 = 0 => n % 2 = 0
  BY DEF Aligned, Rounds

\* Put, element by element.
LEMMA PutIs ==
  ASSUME NEW S, NEW s \in Seq(S), NEW k \in 1..(Len(s) + 1), NEW e \in S
  PROVE  /\ Put(s, k, e) \in Seq(S) /\ Len(Put(s, k, e)) = Len(s) + 1
         /\ \A j \in 1..(Len(s) + 1) :
              Put(s, k, e)[j] = IF j < k THEN s[j] ELSE IF j = k THEN e ELSE s[j - 1]
<1> DEFINE a == SubSeq(s, 1, k - 1)
           b == SubSeq(s, k, Len(s))
           m == a \o <<e>>
<1>1. Len(s) \in Nat /\ k \in Nat /\ s \in [1..Len(s) -> S]
  OBVIOUS
<1>2. a \in Seq(S) /\ Len(a) = k - 1 /\ \A j \in 1..(k - 1) : a[j] = s[j]
  BY <1>1
<1>3. b \in Seq(S) /\ Len(b) = Len(s) - k + 1 /\ \A j \in 1..(Len(s) - k + 1) : b[j] = s[j + k - 1]
  BY <1>1
<1> HIDE DEF a, b
<1>4. m \in Seq(S) /\ Len(m) = k /\ m[k] = e /\ \A j \in 1..(k - 1) : m[j] = s[j]
  BY <1>1, <1>2
<1> HIDE DEF m
<1>5. Put(s, k, e) = m \o b
  BY Zenon DEF Put, m, a, b
<1>6. m \o b \in Seq(S) /\ Len(m \o b) = Len(s) + 1
  BY <1>1, <1>3, <1>4
<1>7. \A j \in 1..(Len(s) + 1) : (m \o b)[j] = IF j <= k THEN m[j] ELSE b[j - k]
  BY <1>1, <1>3, <1>4
<1>8. \A j \in 1..(Len(s) + 1) : j > k => b[j - k] = s[j - 1]
  BY <1>1, <1>3
<1> QED
  BY <1>1, <1>4, <1>5, <1>6, <1>7, <1>8

\* Without, element by element.
LEMMA WithoutIs ==
  ASSUME NEW S, NEW s \in Seq(S), NEW k \in 1..Len(s)
  PROVE  /\ Without(s, k) \in Seq(S) /\ Len(Without(s, k)) = Len(s) - 1
         /\ \A j \in 1..(Len(s) - 1) : Without(s, k)[j] = IF j < k THEN s[j] ELSE s[j + 1]
<1> DEFINE a == SubSeq(s, 1, k - 1)
           b == SubSeq(s, k + 1, Len(s))
           n == Len(s)
<1>1. n \in Nat /\ k \in 1..n /\ k \in Nat /\ \A i \in 1..n : s[i] \in S
  OBVIOUS
<1>2. a \in Seq(S) /\ Len(a) = k - 1 /\ \A j \in 1..(k - 1) : a[j] = s[j]
  BY <1>1
<1>3. b \in Seq(S) /\ Len(b) = n - k /\ \A j \in 1..(n - k) : b[j] = s[k + j]
  <2>1. k + 1 \in Int /\ n \in Int /\ \A i \in (k + 1)..n : s[i] \in S
    BY <1>1
  <2>2. /\ b \in Seq(S) /\ Len(b) = IF k + 1 <= n THEN n - (k + 1) + 1 ELSE 0
        /\ \A j \in 1..(n - (k + 1) + 1) : b[j] = s[(k + 1) + j - 1]
    BY <2>1
  <2> HIDE DEF b, n
  <2>3. Len(b) = n - k /\ n - (k + 1) + 1 = n - k
    BY <1>1, <2>2
  <2>4. \A j \in 1..(n - k) : (k + 1) + j - 1 = k + j
    BY <1>1
  <2> QED
    BY <2>2, <2>3, <2>4, Zenon
<1>4. Without(s, k) = a \o b
  BY Zenon DEF Without
<1> HIDE DEF a, b, n
<1>5. /\ a \o b \in Seq(S) /\ Len(a \o b) = Len(a) + Len(b)
      /\ \A j \in 1..(Len(a) + Len(b)) : (a \o b)[j] = IF j <= Len(a) THEN a[j] ELSE b[j - Len(a)]
  <2>1. a \in Seq(S) /\ b \in Seq(S)
    BY <1>2, <1>3, Zenon
  <2>2. a \o b \in Seq(S) /\ Len(a \o b) = Len(a) + Len(b)
    BY ONLY <2>1
  <2>3. \A j \in 1..(Len(a) + Len(b)) : (a \o b)[j] = IF j <= Len(a) THEN a[j] ELSE b[j - Len(a)]
    BY ONLY <2>1
  <2> QED
    BY <2>2, <2>3, Zenon
<1>6. Len(a) + Len(b) = n - 1
  BY <1>1, <1>2, <1>3
<1>7. ASSUME NEW j \in 1..(n - 1) PROVE (a \o b)[j] = IF j < k THEN s[j] ELSE s[j + 1]
  <2>1. CASE j < k
    BY <2>1, <1>1, <1>2, <1>5, <1>6
  <2>2. CASE ~(j < k)
    <3>1. j - (k - 1) \in 1..(n - k) /\ k + (j - (k - 1)) = j + 1 /\ ~(j <= k - 1)
      BY <2>2, <1>1
    <3>2. b[j - (k - 1)] = s[j + 1]
      BY <3>1, <1>3, Zenon
    <3> QED
      BY <2>2, <3>1, <3>2, <1>2, <1>5, <1>6, Zenon
  <2> QED
    BY <2>1, <2>2, Zenon
<1> QED
  BY <1>4, <1>5, <1>6, <1>7, Zenon DEF n

\* No element twice.
Distinct(s) == \A i, j \in 1..Len(s) : s[i] = s[j] => i = j

\* The elements of a sequence.
LEMMA RangeIs ==
  ASSUME NEW S, NEW s \in Seq(S)
  PROVE  /\ \A x : x \in Range(s) <=> \E i \in 1..Len(s) : x = s[i]
         /\ Range(s) \subseteq S
  BY DEF Range

\* What Put does to the elements.
LEMMA InsertRange ==
  ASSUME NEW S, NEW s \in Seq(S), NEW k \in 1..(Len(s) + 1), NEW e \in S, Distinct(s), e \notin Range(s)
  PROVE  Range(Put(s, k, e)) = Range(s) \cup {e} /\ Distinct(Put(s, k, e))
<1> DEFINE t == Put(s, k, e)
           n == Len(s)
<1>1. t \in Seq(S) /\ Len(t) = n + 1 /\ n \in Nat /\ k \in 1..(n + 1)
      /\ \A j \in 1..(n + 1) : t[j] = IF j < k THEN s[j] ELSE IF j = k THEN e ELSE s[j - 1]
  BY PutIs
<1>2. \A x : x \in Range(s) <=> \E i \in 1..n : x = s[i]
  BY RangeIs, Zenon
<1>3. Distinct(s) <=> \A i, j \in 1..n : s[i] = s[j] => i = j
  BY Zenon DEF Distinct
<1> HIDE DEF t, n
<1>4. \A x : x \in Range(t) <=> \E i \in 1..(n + 1) : x = t[i]
  <2>1. \A x : x \in Range(t) <=> \E i \in 1..Len(t) : x = t[i]
    BY <1>1, RangeIs, Zenon
  <2>2. 1..Len(t) = 1..(n + 1)
    BY <1>1, Zenon
  <2> QED
    BY <2>1, <2>2, Zenon
<1>5. ASSUME NEW x \in Range(t) PROVE x \in Range(s) \cup {e}
  <2>1. PICK i \in 1..(n + 1) : x = t[i]
    BY <1>4, Zenon
  <2>2. CASE i < k
    BY <2>1, <2>2, <1>1, <1>2
  <2>3. CASE i > k
    <3>1. i - 1 \in 1..n
      BY <2>3, <1>1
    <3> QED
      BY <2>1, <2>3, <3>1, <1>1, <1>2
  <2> QED
    BY <2>1, <2>2, <2>3, <1>1
<1>6. ASSUME NEW x \in Range(s) PROVE x \in Range(t)
  <2>1. PICK i \in 1..n : x = s[i]
    BY <1>2, Zenon
  <2>2. CASE i < k
    BY <2>1, <2>2, <1>1, <1>4
  <2>3. CASE ~(i < k)
    <3>1. i + 1 \in 1..(n + 1) /\ ~(i + 1 < k) /\ i + 1 # k /\ (i + 1) - 1 = i
      BY <2>3, <1>1
    <3>2. t[i + 1] = x
      BY <2>1, <3>1, <1>1
    <3> QED
      BY <3>1, <3>2, <1>4, Zenon
  <2> QED
    BY <2>2, <2>3, Zenon
<1>7. e \in Range(t)
  BY <1>1, <1>4
<1>8. Distinct(t)
  <2> SUFFICES ASSUME NEW i \in 1..(n + 1), NEW j \in 1..(n + 1), t[i] = t[j] PROVE i = j
    BY <1>1, Zenon DEF Distinct
  <2> DEFINE at(l) == IF l < k THEN l ELSE l - 1
  <2>1. \A l \in 1..(n + 1) : l # k => at(l) \in 1..n /\ t[l] = s[at(l)] /\ t[l] # e
    BY <1>1, <1>2
  <2>2. t[k] = e
    BY <1>1
  <2>3. CASE i = k \/ j = k
    BY <2>1, <2>2, <2>3
  <2>4. CASE i # k /\ j # k
    <3>1. at(i) = at(j)
      BY <2>1, <2>4, <1>3, Zenon
    <3> QED
      BY <2>4, <3>1, <1>1
  <2> QED
    BY <2>3, <2>4, Zenon
<1> QED
  BY <1>5, <1>6, <1>7, <1>8, Zenon DEF t

\* What Without does to the elements.
LEMMA RemoveRange ==
  ASSUME NEW S, NEW s \in Seq(S), NEW k \in 1..Len(s), Distinct(s)
  PROVE  Range(Without(s, k)) = Range(s) \ {s[k]} /\ Distinct(Without(s, k))
<1> DEFINE t == Without(s, k)
           n == Len(s)
           at(l) == IF l < k THEN l ELSE l + 1
<1>1. t \in Seq(S) /\ Len(t) = n - 1 /\ n \in Nat /\ k \in 1..n
      /\ \A j \in 1..(n - 1) : t[j] = IF j < k THEN s[j] ELSE s[j + 1]
  <2>1. t \in Seq(S) /\ Len(t) = n - 1
        /\ \A j \in 1..(n - 1) : t[j] = IF j < k THEN s[j] ELSE s[j + 1]
    BY WithoutIs, Zenon
  <2>2. n \in Nat /\ k \in 1..n
    OBVIOUS
  <2> QED
    BY <2>1, <2>2, Zenon
<1>2. \A x : x \in Range(s) <=> \E i \in 1..n : x = s[i]
  BY RangeIs, Zenon
<1>3. \A i, j \in 1..n : s[i] = s[j] => i = j
  BY Zenon DEF Distinct
<1> HIDE DEF t, n
<1>4. \A x : x \in Range(t) <=> \E i \in 1..(n - 1) : x = t[i]
  BY <1>1, RangeIs
<1>5. \A l \in 1..(n - 1) : at(l) \in 1..n /\ at(l) # k /\ t[l] = s[at(l)]
  BY <1>1
<1>6. \A i \in 1..n : i # k => \E l \in 1..(n - 1) : at(l) = i
  <2> SUFFICES ASSUME NEW i \in 1..n, i # k PROVE \E l \in 1..(n - 1) : at(l) = i
    BY Zenon
  <2>1. CASE i < k
    <3>1. i \in 1..(n - 1) /\ at(i) = i
      BY <2>1, <1>1
    <3> QED
      BY <3>1, Zenon
  <2>2. CASE ~(i < k)
    <3>1. i - 1 \in 1..(n - 1) /\ at(i - 1) = i
      BY <2>2, <1>1
    <3> QED
      BY <3>1, Zenon
  <2> QED
    BY <2>1, <2>2, Zenon
<1>7. \A l, m \in 1..(n - 1) : at(l) = at(m) => l = m
  BY <1>1
<1> HIDE DEF at
<1>8. ASSUME NEW x \in Range(t) PROVE x \in Range(s) /\ x # s[k]
  <2>1. PICK l \in 1..(n - 1) : x = t[l]
    BY <1>4, Zenon
  <2>2. at(l) \in 1..n /\ at(l) # k /\ x = s[at(l)]
    BY <2>1, <1>5, Zenon
  <2> QED
    BY <2>2, <1>1, <1>2, <1>3, Zenon
<1>9. ASSUME NEW x \in Range(s), x # s[k] PROVE x \in Range(t)
  <2>1. PICK i \in 1..n : x = s[i]
    BY <1>2, Zenon
  <2>2. i # k
    BY <1>9, <2>1, Zenon
  <2>3. PICK l \in 1..(n - 1) : at(l) = i
    BY <2>2, <1>6, Zenon
  <2>4. x = t[l]
    BY <2>1, <2>3, <1>5, Zenon
  <2> QED
    BY <2>4, <1>4, Zenon
<1>10. Distinct(t)
  <2> SUFFICES ASSUME NEW i \in 1..(n - 1), NEW j \in 1..(n - 1), t[i] = t[j] PROVE i = j
    BY <1>1, Zenon DEF Distinct
  <2>1. at(i) \in 1..n /\ at(j) \in 1..n /\ s[at(i)] = s[at(j)]
    BY <1>5, Zenon
  <2>2. at(i) = at(j)
    BY <2>1, <1>3, Zenon
  <2> QED
    BY <2>2, <1>7, Zenon
<1> QED
  BY <1>8, <1>9, <1>10, Zenon DEF t

\* What a change of one element does.
LEMMA ReplaceRange ==
  ASSUME NEW S, NEW s \in Seq(S), NEW k \in 1..Len(s), NEW e \in S, Distinct(s), e \notin Range(s)
  PROVE  /\ [s EXCEPT ![k] = e] \in Seq(S) /\ Len([s EXCEPT ![k] = e]) = Len(s)
         /\ Range([s EXCEPT ![k] = e]) = (Range(s) \ {s[k]}) \cup {e} /\ Distinct([s EXCEPT ![k] = e])
<1> DEFINE t == [s EXCEPT ![k] = e]
           n == Len(s)
<1>1. t \in Seq(S) /\ Len(t) = n /\ n \in Nat /\ k \in 1..n /\ \A j \in 1..n : t[j] = IF j = k THEN e ELSE s[j]
  OBVIOUS
<1>2. \A x : x \in Range(s) <=> \E i \in 1..n : x = s[i]
  BY RangeIs, Zenon
<1>3. \A i, j \in 1..n : s[i] = s[j] => i = j
  BY Zenon DEF Distinct
<1> HIDE DEF t, n
<1>4. \A x : x \in Range(t) <=> \E i \in 1..n : x = t[i]
  BY <1>1, RangeIs, Zenon
<1>5. \A x : x \in Range(t) <=> (x \in Range(s) /\ x # s[k]) \/ x = e
  BY <1>1, <1>2, <1>3, <1>4
<1>6. Distinct(t)
  BY <1>1, <1>2, <1>3 DEF Distinct
<1> QED
  BY <1>1, <1>5, <1>6, Zenon DEF t, n

\* Min of a set of naturals that is not empty.
LEMMA MinIs ==
  ASSUME NEW T \in SUBSET Nat, T # {}
  PROVE  Min(T) \in T
<1>1. PICK m \in T : \A k \in T : ~(<<k, m>> \in OpToRel(<, Nat))
  BY NatLessThanWellFounded, WFMin, Zenon
<1>2. ASSUME NEW k \in T PROVE m <= k
  <2>1. ~(<<k, m>> \in OpToRel(<, Nat))
    BY <1>1, Zenon
  <2>2. k \in Nat /\ m \in Nat
    BY <1>1, Zenon
  <2>3. ~(k < m)
    BY <2>1, <2>2, Zenon DEF OpToRel
  <2> QED
    BY <2>2, <2>3
<1> QED
  BY <1>2, Zenon DEF Min

-----------------------------------------------------------------------------
\* The holder of a linear page: a free region, a block, or a call that maps.
L(r) == <<"linear", r>>
B(b) == <<"block", b>>
C(c) == <<"call", c>>

LEMMA HoldersDiffer ==
  /\ \A r, x : L(r) # B(x) /\ L(r) # C(x) /\ B(r) # C(x)
  /\ \A r, x : (L(r) = L(x) => r = x) /\ (B(r) = B(x) => r = x) /\ (C(r) = C(x) => r = x)
  BY Zenon DEF L, B, C

\* The linear pages of block or call k.
Width(k) == Aligned(k.n) + Guard(k.kind)

\* The n pages from a are the ones holder h has.
Piece(own, h, a, n) ==
  /\ a >= 1 /\ a + n <= Top + 1
  /\ \A v \in 1..Top : own[v] = h <=> (a <= v /\ v < a + n)

\* Every linear page has one holder.
LinearOwned(own) == \A r \in Range(linear) : Piece(own, L(r), r[1], r[2])
BlocksOwned(own) == \A b \in blocks : Piece(own, B(b), b.first, Width(b))
CallsOwned(own) ==
  \A c \in Cpus : mapping[c].pc = "map" => Piece(own, C(c), mapping[c].first, Width(mapping[c]))
AllOwned(own) ==
  \A v \in 1..Top :
    \/ \E r \in Range(linear) : own[v] = L(r)
    \/ \E b \in blocks : own[v] = B(b)
    \/ \E c \in Cpus : mapping[c].pc = "map" /\ own[v] = C(c)
Owned(own) == LinearOwned(own) /\ BlocksOwned(own) /\ CallsOwned(own) /\ AllOwned(own)

\* A page a call has mapped, of its block; a page of a block.
Done(c, v) ==
  /\ mapping[c].pc = "map" /\ mapping[c].first + Guard(mapping[c].kind) <= v
  /\ v < mapping[c].first + Guard(mapping[c].kind) + mapping[c].i
InBlock(b, v) == b.first + Guard(b.kind) <= v /\ v < b.first + Width(b)
Live(v) == (\E b \in blocks : InBlock(b, v)) \/ (\E c \in Cpus : Done(c, v))

\* The physical pages behind them are not free, and each is behind one only.
PagesOwn ==
  /\ \A v \in 1..Top : Live(v) => pte[v] \in Phys /\ pte[v] \notin free
  /\ \A v, w \in 1..Top : Live(v) /\ Live(w) /\ pte[v] = pte[w] => v = w

\* A loop has not made its last round, and is for a kind that was asked for.
CallsOK ==
  /\ \A c \in Cpus : mapping[c].pc = "map" =>
       mapping[c].n \in Sizes /\ mapping[c].i < Rounds(mapping[c].n) /\ mapping[c].kind \in made
  /\ \A b \in blocks : b.kind \in made

Sound == Distinct(linear) /\ PagesOwn /\ \E own : Owned(own)

IInv ==
  /\ VMTypeOK /\ CallsOK /\ LockLeftWhenNoneFits
  /\ ~oom /\ ~halted => Sound

\* A holder whose pages are the same as before.
LEMMA PieceKept ==
  ASSUME NEW own, NEW new, NEW h, NEW a, NEW n, Piece(own, h, a, n),
         \A v \in 1..Top : new[v] = h <=> own[v] = h
  PROVE  Piece(new, h, a, n)
  BY Zenon DEF Piece

\* The types of a call that maps, and of a block.
LEMMA CallIs ==
  ASSUME VMAssumption, IInv, NEW c \in Cpus, mapping[c].pc = "map"
  PROVE  /\ mapping[c].n \in Nat \ {0} /\ mapping[c].first \in Nat /\ mapping[c].i \in Nat
         /\ Guard(mapping[c].kind) \in {0, 1} /\ Width(mapping[c]) \in Nat \ {0}
         /\ Aligned(mapping[c].n) \in Nat \ {0} /\ Width(mapping[c]) = Aligned(mapping[c].n) + Guard(mapping[c].kind)
         /\ mapping[c].i <= Aligned(mapping[c].n)
<1>1. mapping[c].n \in Nat \ {0} /\ mapping[c].first \in Nat /\ mapping[c].i \in Nat
  <2>1. mapping[c] \in [pc : {"idle", "map"}, kind : {"vm", "stack"}, n : Sizes \cup {0}, first : 0..Top, i : Nat]
    BY Zenon DEF IInv, VMTypeOK
  <2>2. mapping[c].first \in 0..Top /\ mapping[c].i \in Nat
    BY <2>1, Zenon
  <2>3. mapping[c].n \in Sizes /\ Top \in Nat
    BY Zenon DEF IInv, CallsOK, VMAssumption
  <2>4. Sizes \subseteq Nat \ {0}
    BY Zenon DEF VMAssumption
  <2>5. mapping[c].n \in Nat \ {0}
    BY <2>3, <2>4, Zenon
  <2>6. mapping[c].first \in Nat
    BY <2>2, <2>3
  <2> QED
    BY <2>2, <2>5, <2>6, Zenon
<1>2. Guard(mapping[c].kind) \in {0, 1}
  BY Zenon DEF Guard
<1>3. mapping[c].i < Rounds(mapping[c].n)
  BY Zenon DEF IInv, CallsOK
<1> QED
  BY <1>1, <1>2, <1>3, HalfPages DEF Width

LEMMA BlockIs ==
  ASSUME VMAssumption, IInv, NEW b \in blocks
  PROVE  /\ b.n \in Nat \ {0} /\ b.first \in Nat /\ Guard(b.kind) \in {0, 1}
         /\ Aligned(b.n) \in Nat \ {0} /\ Width(b) \in Nat \ {0} /\ Width(b) = Aligned(b.n) + Guard(b.kind)
<1>1. b.n \in Nat \ {0} /\ b.first \in Nat
  <2>1. b \in [kind : {"vm", "stack"}, first : 1..Top, n : Sizes] /\ Top \in Nat
    BY Zenon DEF IInv, VMTypeOK, VMAssumption
  <2>2. b.first \in 1..Top /\ b.n \in Sizes
    BY <2>1, Zenon
  <2>3. Sizes \subseteq Nat \ {0} /\ Top \in Nat
    BY Zenon DEF VMAssumption
  <2>4. b.n \in Nat \ {0}
    BY <2>2, <2>3, Zenon
  <2>5. b.first \in Nat
    BY <2>2, <2>3
  <2> QED
    BY <2>4, <2>5, Zenon
<1>2. Guard(b.kind) \in {0, 1}
  BY Zenon DEF Guard
<1> QED
  BY <1>1, <1>2, HalfPages DEF Width

\* A live page has the holder it should have.
LEMMA LiveHeld ==
  ASSUME VMAssumption, IInv, NEW own, Owned(own), NEW v \in 1..Top
  PROVE  /\ \A b \in blocks : InBlock(b, v) => own[v] = B(b)
         /\ \A c \in Cpus : Done(c, v) => own[v] = C(c)
<1>1. ASSUME NEW b \in blocks, InBlock(b, v) PROVE own[v] = B(b)
  BY <1>1, BlockIs DEF InBlock, Owned, BlocksOwned, Piece
<1>2. ASSUME NEW c \in Cpus, Done(c, v) PROVE own[v] = C(c)
  <2>1. mapping[c].pc = "map"
    BY <1>2, Zenon DEF Done
  <2>2. Piece(own, C(c), mapping[c].first, Width(mapping[c]))
    BY <2>1, Zenon DEF Owned, CallsOwned
  <2>3. mapping[c].first <= v /\ v < mapping[c].first + Width(mapping[c])
    BY <1>2, <2>1, CallIs DEF Done
  <2> QED
    BY <2>2, <2>3, Zenon DEF Piece
<1> QED
  BY <1>1, <1>2, Zenon

-----------------------------------------------------------------------------
\* alloc_linear when nothing fits: it returns with the lock.
LEMMA NoneFitsInv ==
  ASSUME VMAssumption, IInv, NEW c \in Cpus, NEW kind \in Kinds, NEW n \in Sizes, AllocLinear(c, kind, n),
         \A i \in 1..Len(linear) : ~(linear[i][2] >= Aligned(n) + Guard(kind))
  PROVE  IInv'
<1>1. lock' = TRUE /\ made' = made \cup {kind}
      /\ UNCHANGED <<linear, mapping, free, pte, blocks, halted, oom>>
  BY Zenon DEF AllocLinear
<1>2. VMTypeOK'
  BY <1>1, Zenon DEF IInv, VMTypeOK
<1>3. CallsOK'
  BY <1>1, Zenon DEF IInv, CallsOK
<1>4. LockLeftWhenNoneFits'
  <2>1. \A i \in 1..Len(linear) : linear[i][2] < Aligned(n) + Guard(kind)
    <3> SUFFICES ASSUME NEW i \in 1..Len(linear) PROVE linear[i][2] < Aligned(n) + Guard(kind)
      BY Zenon
    <3>1. linear \in Seq((1..(Top + 1)) \X (Nat \ {0})) /\ n \in Nat \ {0}
      BY Zenon DEF IInv, VMTypeOK, VMAssumption
    <3>2. linear[i] \in (1..(Top + 1)) \X (Nat \ {0})
      BY <3>1
    <3>3. linear[i][2] \in Nat
      BY <3>2, Zenon
    <3>4. Aligned(n) \in Nat
      BY <3>1, HalfPages, Zenon
    <3>5. Guard(kind) \in {0, 1}
      BY Zenon DEF Guard
    <3> QED
      BY <3>3, <3>4, <3>5
  <2> QED
    BY <1>1, <2>1, Zenon DEF LockLeftWhenNoneFits
<1>5. ASSUME ~oom', ~halted' PROVE Sound'
  <2>1. Sound
    BY <1>1, <1>5, Zenon DEF IInv
  <2>2. \A v : Live(v)' <=> Live(v)
    BY <1>1, Zenon DEF Live, InBlock, Done, Width
  <2>3. PagesOwn'
    BY <1>1, <2>1, <2>2, Zenon DEF Sound, PagesOwn
  <2>4. PICK own : Owned(own)
    BY <2>1, Zenon DEF Sound
  <2>5. Owned(own)'
    BY <1>1, <2>4, Zenon DEF Owned, LinearOwned, BlocksOwned, CallsOwned, AllOwned
  <2>6. Distinct(linear')
    BY <1>1, <2>1, Zenon DEF Sound
  <2> QED
    BY <2>3, <2>5, <2>6, Zenon DEF Sound
<1> QED
  BY <1>2, <1>3, <1>4, <1>5, Zenon DEF IInv

\* The region a call takes its pages from, what is left of it, and the list.
LEMMA CarvedIs ==
  ASSUME VMAssumption, VMTypeOK, Distinct(linear), NEW own, Owned(own),
         NEW k \in 1..Len(linear), NEW w \in Nat \ {0}, linear[k][2] >= w
  PROVE  LET r == linear[k]
             e == <<r[1] + w, r[2] - w>>
         IN  /\ r \in Range(linear) /\ r[1] \in Nat \ {0} /\ r[2] \in Nat \ {0} /\ r[1] + r[2] <= Top + 1
             /\ e[1] = r[1] + w /\ e[2] = r[2] - w
             /\ e \notin Range(linear)
             /\ Carved(k, w) \in Seq((1..(Top + 1)) \X (Nat \ {0})) /\ Len(Carved(k, w)) <= Len(linear)
             /\ Distinct(Carved(k, w))
             /\ Range(Carved(k, w)) = (Range(linear) \ {r}) \cup (IF r[2] = w THEN {} ELSE {e})
<1> DEFINE S == (1..(Top + 1)) \X (Nat \ {0})
           r == linear[k]
           e == <<r[1] + w, r[2] - w>>
<1>1. linear \in Seq(S) /\ Top \in Nat
  BY Zenon DEF VMTypeOK, VMAssumption
<1>2. r \in S /\ r \in Range(linear)
  BY <1>1, RangeIs, Zenon
<1>3. r[1] \in 1..(Top + 1) /\ r[2] \in Nat \ {0}
  BY <1>2, Zenon
<1>4. r[1] + r[2] <= Top + 1 /\ Piece(own, L(r), r[1], r[2])
  BY <1>2, Zenon DEF Owned, LinearOwned, Piece
<1>5. e \notin Range(linear)
  <2> SUFFICES ASSUME e \in Range(linear) PROVE FALSE
    BY Zenon
  <2>1. Piece(own, L(e), e[1], e[2]) /\ e \in S
    BY <1>1, RangeIs DEF Owned, LinearOwned
  <2>2. e[1] = r[1] + w /\ e[2] = r[2] - w /\ e[2] \in Nat \ {0}
    BY <2>1, Zenon
  <2> HIDE DEF r, e
  <2>3. e[1] \in 1..Top /\ r[1] <= e[1] /\ e[1] < r[1] + r[2] /\ e[1] <= e[1] /\ e[1] < e[1] + e[2]
    <3>1. PICK a \in Nat : a = r[1] /\ a >= 1
      BY <1>1, <1>3
    <3>2. PICK m \in Nat : m = r[2]
      BY <1>3, Zenon
    <3>3. PICK x, y : x = e[1] /\ y = e[2]
      BY Zenon
    <3>4. x = a + w /\ y = m - w /\ y \in Nat \ {0} /\ a + m <= Top + 1 /\ Top \in Nat
      BY <1>1, <1>4, <2>2, <3>1, <3>2, <3>3, Zenon
    <3>5. x \in 1..Top /\ a <= x /\ x < a + m /\ x <= x /\ x < x + y
      BY <3>4
    <3> QED
      BY <3>1, <3>2, <3>3, <3>5, Zenon
  <2>4. own[e[1]] = L(e) /\ own[e[1]] = L(r)
    BY <1>4, <2>1, <2>3, Zenon DEF Piece
  <2>5. e = r
    BY <2>4, HoldersDiffer, Zenon
  <2> QED
    BY <1>3, <2>2, <2>5
<1>6. CASE r[2] = w
  <2>1. Carved(k, w) = Without(linear, k)
    BY <1>6, Zenon DEF Carved
  <2>2. Len(Without(linear, k)) = Len(linear) - 1 /\ Without(linear, k) \in Seq(S) /\ Len(linear) \in Nat
    BY <1>1, WithoutIs
  <2>3. Range(Without(linear, k)) = Range(linear) \ {r} /\ Distinct(Without(linear, k))
    BY <1>1, RemoveRange, Zenon
  <2>4. PICK m \in Nat : m = Len(linear)
    BY <2>2, Zenon
  <2>5. Len(Carved(k, w)) <= Len(linear)
    <3>1. Len(Carved(k, w)) = m - 1
      BY <2>1, <2>2, <2>4, Zenon
    <3>2. m - 1 <= m
      OBVIOUS
    <3> QED
      BY <2>4, <3>1, <3>2, Zenon
  <2>6. r[1] \in Nat \ {0}
    BY <1>1, <1>3
  <2>7. Range(Carved(k, w)) = (Range(linear) \ {r}) \cup (IF r[2] = w THEN {} ELSE {e})
    BY <1>6, <2>1, <2>3, Zenon
  <2> QED
    BY <1>2, <1>3, <1>4, <1>5, <2>1, <2>2, <2>3, <2>5, <2>6, <2>7, Zenon
<1>7. CASE r[2] # w
  <2>1. Carved(k, w) = [linear EXCEPT ![k] = e]
    BY <1>7, Zenon DEF Carved
  <2>2. e \in S
    <3>1. PICK a, m \in Nat : a = r[1] /\ m = r[2] /\ a >= 1 /\ m # w /\ m >= w /\ a + m <= Top + 1
      BY <1>3, <1>4, <1>7
    <3>2. Top \in Nat /\ a >= 1 /\ m # w /\ m >= w /\ a + m <= Top + 1 /\ w \in Nat \ {0} /\ a \in Nat /\ m \in Nat
      BY <3>1, <1>1, Zenon
    <3>3. a + w \in 1..(Top + 1) /\ m - w \in Nat \ {0}
      BY ONLY <3>2
    <3> QED
      BY <3>1, <3>3, Zenon
  <2> HIDE DEF S, e
  <2>3. /\ [linear EXCEPT ![k] = e] \in Seq(S) /\ Len([linear EXCEPT ![k] = e]) = Len(linear)
        /\ Range([linear EXCEPT ![k] = e]) = (Range(linear) \ {linear[k]}) \cup {e}
        /\ Distinct([linear EXCEPT ![k] = e])
    BY <1>1, <1>5, <2>2, ReplaceRange, Zenon
  <2>4. Len(linear) \in Nat
    BY <1>1
  <2>5. e[1] = r[1] + w /\ e[2] = r[2] - w
    BY Zenon DEF e
  <2>6. Len(Carved(k, w)) <= Len(linear) /\ r[1] \in Nat \ {0}
    BY <1>1, <1>3, <2>1, <2>3, <2>4
  <2>7. Range(Carved(k, w)) = (Range(linear) \ {r}) \cup (IF r[2] = w THEN {} ELSE {e})
    BY <1>7, <2>1, <2>3, Zenon
  <2> QED
    BY <1>2, <1>3, <1>4, <1>5, <2>1, <2>3, <2>5, <2>6, <2>7, Zenon DEF S, e
<1> QED
  BY <1>6, <1>7, Zenon

\* Who holds a page when call c has taken the w pages from a out of region r,
\* of which e is left.
Taken(own, c, r, e, w) ==
  [v \in 1..Top |-> IF own[v] = L(r) THEN (IF v < r[1] + w THEN C(c) ELSE L(e)) ELSE own[v]]

\* alloc_linear: the call holds the front of the region, and has mapped none.
LEMMA TakenOwned ==
  ASSUME VMAssumption, IInv, Sound, NEW own, Owned(own), NEW c \in Cpus, mapping[c].pc = "idle",
         NEW k \in 1..Len(linear), NEW w \in Nat \ {0}, linear[k][2] >= w,
         linear' = Carved(k, w), blocks' = blocks,
         NEW q, q.pc = "map", q.first = linear[k][1], Width(q) = w,
         mapping' = [mapping EXCEPT ![c] = q],
         NEW r, r = linear[k], NEW e, e = <<linear[k][1] + w, linear[k][2] - w>>
  PROVE  Owned(Taken(own, c, r, e, w))'
<1>1. /\ r \in Range(linear) /\ r[1] \in Nat \ {0} /\ r[2] \in Nat \ {0} /\ r[1] + r[2] <= Top + 1
      /\ e[1] = r[1] + w /\ e[2] = r[2] - w /\ e \notin Range(linear) /\ r[2] >= w
      /\ Range(linear') = (Range(linear) \ {r}) \cup (IF r[2] = w THEN {} ELSE {e})
  BY CarvedIs, Zenon DEF IInv, Sound
<1>2. Piece(own, L(r), r[1], r[2])
  BY <1>1, Zenon DEF Owned, LinearOwned
<1> DEFINE new == Taken(own, c, r, e, w)
<1>3. ASSUME NEW v \in 1..Top
      PROVE  new[v] = IF own[v] = L(r) THEN (IF v < r[1] + w THEN C(c) ELSE L(e)) ELSE own[v]
  BY Zenon DEF Taken
<1> HIDE DEF new
<1>4. ASSUME NEW v \in 1..Top PROVE own[v] # C(c) /\ own[v] # L(e)
  <2>1. CASE \E s \in Range(linear) : own[v] = L(s)
    BY <2>1, <1>1, HoldersDiffer, Zenon
  <2>2. CASE \E b \in blocks : own[v] = B(b)
    BY <2>2, HoldersDiffer, Zenon
  <2>3. CASE \E d \in Cpus : mapping[d].pc = "map" /\ own[v] = C(d)
    <3>1. PICK d \in Cpus : mapping[d].pc = "map" /\ own[v] = C(d)
      BY <2>3, Zenon
    <3>2. d # c
      BY <3>1, Zenon
    <3> QED
      BY <3>1, <3>2, HoldersDiffer, Zenon
  <2> QED
    BY <2>1, <2>2, <2>3, Zenon DEF Owned, AllOwned
<1>5. Top \in Nat
  BY Zenon DEF VMAssumption
<1>6. ASSUME NEW s \in Range(linear), s # r PROVE Piece(new, L(s), s[1], s[2])
  <2>1. Piece(own, L(s), s[1], s[2])
    BY Zenon DEF Owned, LinearOwned
  <2>2. L(s) # L(r) /\ L(s) # L(e) /\ L(s) # C(c)
    BY <1>1, <1>6, HoldersDiffer, Zenon
  <2>3. \A v \in 1..Top : new[v] = L(s) <=> own[v] = L(s)
    BY <1>3, <2>2, Zenon
  <2> QED
    BY <2>1, <2>3, PieceKept, Zenon
<1>7. ASSUME r[2] # w PROVE Piece(new, L(e), e[1], e[2])
  <2>1. ASSUME NEW v \in 1..Top PROVE new[v] = L(e) <=> own[v] = L(r) /\ ~(v < r[1] + w)
    <3>1. L(e) # C(c) /\ own[v] # L(e)
      BY <1>4, HoldersDiffer, Zenon
    <3> QED
      BY <1>3, <3>1, Zenon
  <2>2. \A v \in 1..Top : own[v] = L(r) <=> (r[1] <= v /\ v < r[1] + r[2])
    BY <1>2, Zenon DEF Piece
  <2>3. PICK a \in Nat \ {0} : a = r[1]
    BY <1>1, Zenon
  <2>4. PICK m \in Nat \ {0} : m = r[2]
    BY <1>1, Zenon
  <2>5. e[1] = a + w /\ e[2] = m - w /\ a + m <= Top + 1 /\ m >= w /\ m # w
    BY <1>1, <1>7, <2>3, <2>4, Zenon
  <2>6. a + w >= 1 /\ (a + w) + (m - w) <= Top + 1
        /\ \A v \in 1..Top : ((a <= v /\ v < a + m) /\ ~(v < a + w)) <=> (a + w <= v /\ v < (a + w) + (m - w))
    BY <1>5, <2>5
  <2>7. \A v \in 1..Top : new[v] = L(e) <=> ((a <= v /\ v < a + m) /\ ~(v < a + w))
    BY <2>1, <2>2, <2>3, <2>4, Zenon
  <2>8. Piece(new, L(e), a + w, m - w)
    BY <2>6, <2>7, Zenon DEF Piece
  <2> QED
    BY <2>5, <2>8, Zenon
<1>8. LinearOwned(new)'
  BY <1>1, <1>6, <1>7, Zenon DEF LinearOwned
<1>9. BlocksOwned(new)'
  <2> SUFFICES ASSUME NEW b \in blocks PROVE Piece(new, B(b), b.first, Width(b))
    BY Zenon DEF BlocksOwned
  <2>1. Piece(own, B(b), b.first, Width(b))
    BY Zenon DEF Owned, BlocksOwned
  <2>2. ASSUME NEW v \in 1..Top PROVE new[v] = B(b) <=> own[v] = B(b)
    <3>1. B(b) # L(r) /\ B(b) # L(e) /\ B(b) # C(c)
      BY HoldersDiffer, Zenon
    <3> QED
      BY <1>3, <3>1, Zenon
  <2> QED
    BY <2>1, <2>2, PieceKept, Zenon
<1>10. mapping'[c] = q /\ \A d \in Cpus : d # c => mapping'[d] = mapping[d]
  BY Zenon DEF IInv, VMTypeOK
<1>11. Piece(new, C(c), r[1], w)
  <2>1. \A v \in 1..Top : new[v] = C(c) <=> own[v] = L(r) /\ v < r[1] + w
    <3> SUFFICES ASSUME NEW v \in 1..Top PROVE new[v] = C(c) <=> own[v] = L(r) /\ v < r[1] + w
      BY Zenon
    <3>1. C(c) # L(e)
      BY HoldersDiffer, Zenon
    <3> QED
      BY <1>3, <1>4, <3>1, Zenon
  <2>2. \A v \in 1..Top : own[v] = L(r) <=> (r[1] <= v /\ v < r[1] + r[2])
    BY <1>2, Zenon DEF Piece
  <2>3. PICK a \in Nat \ {0} : a = r[1]
    BY <1>1, Zenon
  <2>4. PICK m \in Nat \ {0} : m = r[2]
    BY <1>1, Zenon
  <2>5. a + m <= Top + 1 /\ m >= w
    BY <1>1, <2>3, <2>4, Zenon
  <2>6. a >= 1 /\ a + w <= Top + 1
        /\ \A v \in 1..Top : ((a <= v /\ v < a + m) /\ v < a + w) <=> (a <= v /\ v < a + w)
    BY <1>5, <2>5
  <2>7. \A v \in 1..Top : new[v] = C(c) <=> ((a <= v /\ v < a + m) /\ v < a + w)
    BY <2>1, <2>2, <2>3, <2>4, Zenon
  <2>8. Piece(new, C(c), a, w)
    BY <2>6, <2>7, Zenon DEF Piece
  <2> QED
    BY <2>3, <2>8, Zenon
<1>12. ASSUME NEW d \in Cpus, mapping'[d].pc = "map"
       PROVE  Piece(new, C(d), mapping'[d].first, Width(mapping'[d]))
  <2>1. CASE d = c
    BY <2>1, <1>10, <1>11, Zenon
  <2>2. CASE d # c
    <3>1. Piece(own, C(d), mapping[d].first, Width(mapping[d]))
      BY <1>10, <1>12, <2>2, Zenon DEF Owned, CallsOwned
    <3>2. C(d) # L(r) /\ C(d) # L(e) /\ C(d) # C(c)
      BY <2>2, HoldersDiffer, Zenon
    <3>3. \A v \in 1..Top : new[v] = C(d) <=> own[v] = C(d)
      BY <1>3, <3>2, Zenon
    <3> QED
      BY <1>10, <2>2, <3>1, <3>3, PieceKept
  <2> QED
    BY <2>1, <2>2, Zenon
<1>13. CallsOwned(new)'
  BY <1>12, Zenon DEF CallsOwned, Width
<1>14. AllOwned(new)'
  <2> SUFFICES ASSUME NEW v \in 1..Top
               PROVE  \/ \E s \in Range(linear') : new[v] = L(s)
                      \/ \E b \in blocks : new[v] = B(b)
                      \/ \E d \in Cpus : mapping'[d].pc = "map" /\ new[v] = C(d)
    BY Zenon DEF AllOwned
  <2>1. CASE own[v] = L(r) /\ v < r[1] + w
    BY <2>1, <1>3, <1>10, Zenon
  <2>2. CASE own[v] = L(r) /\ ~(v < r[1] + w)
    <3>1. r[2] # w
      BY <1>2, <2>2, Zenon DEF Piece
    <3> QED
      BY <2>2, <3>1, <1>1, <1>3, Zenon
  <2>3. CASE own[v] # L(r)
    <3>1. new[v] = own[v] /\ own[v] # C(c)
      BY <1>3, <1>4, <2>3, Zenon
    <3>2. CASE \E s \in Range(linear) : own[v] = L(s)
      BY <3>1, <3>2, <2>3, <1>1, Zenon
    <3>3. CASE \E b \in blocks : own[v] = B(b)
      BY <3>1, <3>3, Zenon
    <3>4. CASE \E d \in Cpus : mapping[d].pc = "map" /\ own[v] = C(d)
      BY <3>1, <3>4, <1>10, Zenon
    <3> QED
      BY <3>2, <3>3, <3>4, Zenon DEF Owned, AllOwned
  <2> QED
    BY <2>1, <2>2, <2>3, Zenon
<1> QED
  BY <1>8, <1>9, <1>13, <1>14, Zenon DEF Owned, new

\* Fewer live pages, the same entries and the same free pages.
LEMMA PagesKept ==
  ASSUME PagesOwn, pte' = pte, free' = free, \A v \in 1..Top : Live(v)' => Live(v)
  PROVE  PagesOwn'
  BY Zenon DEF PagesOwn

\* alloc_linear with a region that fits.
LEMMA TakeInv ==
  ASSUME VMAssumption, IInv, ~oom, ~halted, NEW c \in Cpus, NEW kind \in Kinds, NEW n \in Sizes,
         AllocLinear(c, kind, n),
         NEW j \in 1..Len(linear), linear[j][2] >= Aligned(n) + Guard(kind)
  PROVE  IInv'
<1>1. PICK w \in Nat \ {0} : w = Aligned(n) + Guard(kind)
  <2>1. Aligned(n) \in Nat \ {0} /\ Guard(kind) \in {0, 1}
    BY HalfPages, Zenon DEF VMAssumption, Guard
  <2> QED
    BY <2>1
<1> DEFINE fits == {i \in 1..Len(linear) : linear[i][2] >= Aligned(n) + Guard(kind)}
<1>2. PICK k : k = Min(fits)
  BY Zenon
<1>3. k \in 1..Len(linear) /\ linear[k][2] >= w
  <2>1. fits # {} /\ fits \in SUBSET Nat
    <3>1. j \in fits
      BY Zenon
    <3>2. \A i \in fits : i \in 1..Len(linear)
      BY Zenon
    <3> HIDE DEF fits
    <3>3. linear \in Seq((1..(Top + 1)) \X (Nat \ {0}))
      BY Zenon DEF IInv, VMTypeOK
    <3>4. \A i \in 1..Len(linear) : i \in Nat
      BY ONLY <3>3
    <3> QED
      BY <3>1, <3>2, <3>4, Zenon
  <2> HIDE DEF fits
  <2>2. k \in fits
    BY <1>2, <2>1, MinIs, Zenon
  <2> QED
    BY <1>1, <2>2, Zenon DEF fits
<1>4. PICK q : q = [pc |-> "map", kind |-> kind, n |-> n, first |-> linear[k][1], i |-> 0]
  BY Zenon
<1>5. /\ linear' = Carved(k, w) /\ mapping' = [mapping EXCEPT ![c] = q] /\ lock' = lock
      /\ made' = made \cup {kind} /\ UNCHANGED <<free, pte, blocks, halted, oom>>
      /\ mapping[c].pc = "idle" /\ ~lock
  <2>1. fits # {}
    BY Zenon
  <2> QED
    BY <1>1, <1>2, <1>4, <2>1, Zenon DEF AllocLinear
<1> HIDE DEF fits
<1>6. q.pc = "map" /\ q.kind = kind /\ q.n = n /\ q.first = linear[k][1] /\ q.i = 0 /\ Width(q) = w
  BY <1>1, <1>4, Zenon DEF Width
<1>7. Sound
  BY Zenon DEF IInv
<1>8. PICK own : Owned(own)
  BY <1>7, Zenon DEF Sound
<1>9. PICK r, e : r = linear[k] /\ e = <<linear[k][1] + w, linear[k][2] - w>>
  BY Zenon
<1>10. Owned(Taken(own, c, r, e, w))'
  BY <1>3, <1>5, <1>6, <1>7, <1>8, <1>9, TakenOwned, Zenon
<1>11. /\ linear' \in Seq((1..(Top + 1)) \X (Nat \ {0})) /\ Len(linear') <= Len(linear) /\ Distinct(linear')
       /\ r[1] \in Nat \ {0} /\ r[2] \in Nat \ {0} /\ r[1] + r[2] <= Top + 1
  BY <1>3, <1>5, <1>7, <1>8, <1>9, CarvedIs, Zenon DEF IInv, Sound
<1>12. mapping'[c] = q /\ \A d \in Cpus : d # c => mapping'[d] = mapping[d]
  BY <1>5, Zenon DEF IInv, VMTypeOK
<1>13. r[1] \in 0..Top
  <2>1. PICK a \in Nat \ {0} : a = r[1]
    BY <1>11, Zenon
  <2>2. PICK m \in Nat \ {0} : m = r[2]
    BY <1>11, Zenon
  <2>3. a \in 0..Top
    <3>1. a \in Nat \ {0} /\ m \in Nat \ {0} /\ Top \in Nat /\ a + m <= Top + 1
      BY <1>11, <2>1, <2>2, Zenon DEF VMAssumption
    <3> QED
      BY ONLY <3>1
  <2> QED
    BY <2>1, <2>3, Zenon
<1>14. VMTypeOK'
  <2>1. q \in [pc : {"idle", "map"}, kind : {"vm", "stack"}, n : Sizes \cup {0}, first : 0..Top, i : Nat]
    BY <1>4, <1>9, <1>13, Zenon DEF VMAssumption
  <2>2. mapping' \in [Cpus -> [pc : {"idle", "map"}, kind : {"vm", "stack"}, n : Sizes \cup {0},
                            first : 0..Top, i : Nat]]
    BY <1>5, <2>1, Zenon DEF IInv, VMTypeOK
  <2>3. Len(linear') <= MAX_LINEAR_HOLE
    <3>1. Len(linear) \in Nat /\ Len(linear) <= MAX_LINEAR_HOLE
      BY DEF IInv, VMTypeOK
    <3>2. Len(linear') \in Nat
      BY <1>11
    <3>3. MAX_LINEAR_HOLE \in Nat /\ Len(linear') <= Len(linear)
      BY <1>11, Zenon DEF VMAssumption
    <3> QED
      BY <3>1, <3>2, <3>3
  <2> QED
    BY <1>5, <1>11, <2>2, <2>3, Zenon DEF IInv, VMTypeOK
<1>15. CallsOK'
  <2>1. n \in Sizes /\ 0 < Rounds(n)
    <3>1. Rounds(n) \in Nat \ {0}
      BY HalfPages, Zenon DEF VMAssumption
    <3> QED
      BY <3>1
  <2> QED
    BY <1>5, <1>6, <1>12, <2>1 DEF IInv, CallsOK
<1>16. LockLeftWhenNoneFits'
  BY <1>5, Zenon DEF LockLeftWhenNoneFits
<1>17. PagesOwn'
  <2>1. ASSUME NEW v \in 1..Top, Live(v)' PROVE Live(v)
    <3>1. CASE \E b \in blocks' : InBlock(b, v)'
      BY <1>5, <3>1, Zenon DEF Live, InBlock, Width
    <3>2. CASE \E d \in Cpus : Done(d, v)'
      <4>1. PICK d \in Cpus : Done(d, v)'
        BY <3>2, Zenon
      <4>2. d # c
        <5> SUFFICES ASSUME d = c PROVE FALSE
          BY Zenon
        <5>1. q.first + Guard(q.kind) <= v /\ v < q.first + Guard(q.kind) + q.i
          BY <1>12, <4>1, Zenon DEF Done
        <5>2. q.first \in Nat /\ Guard(q.kind) \in {0, 1} /\ q.i = 0 /\ v \in Nat
          BY <1>6, <1>9, <1>11 DEF Guard, VMAssumption
        <5> QED
          BY <5>1, <5>2
      <4>3. Done(d, v)
        BY <1>12, <4>1, <4>2, Zenon DEF Done
      <4> QED
        BY <4>3, Zenon DEF Live
    <3> QED
      BY <2>1, <3>1, <3>2, Zenon DEF Live
  <2> QED
    BY <1>5, <1>7, <2>1, PagesKept, Zenon DEF Sound
<1> QED
  BY <1>10, <1>11, <1>14, <1>15, <1>16, <1>17, Zenon DEF IInv, Sound

\* One more live page, with a page behind it that was free.
LEMMA PagesMapped ==
  ASSUME PagesOwn, VMTypeOK, VMAssumption, NEW x \in 1..(Top + 1), NEW p \in free,
         pte' = [pte EXCEPT ![x] = p], free' = free \ {p},
         \A v \in 1..Top : Live(v)' => Live(v) \/ v = x
  PROVE  PagesOwn'
<1>1. p \in Phys /\ Top \in Nat
  BY Zenon DEF VMTypeOK, VMAssumption
<1>2. ASSUME NEW v \in 1..Top PROVE pte'[v] = IF v = x THEN p ELSE pte[v]
  <2>1. v \in 1..(Top + 1)
    BY <1>1
  <2> QED
    BY <2>1, Zenon DEF VMTypeOK
<1>3. \A v \in 1..Top : Live(v)' => pte'[v] \in Phys /\ pte'[v] \notin free'
  BY <1>1, <1>2 DEF PagesOwn
<1>4. \A v, w \in 1..Top : Live(v)' /\ Live(w)' /\ pte'[v] = pte'[w] => v = w
  BY <1>2 DEF PagesOwn
<1> QED
  BY <1>3, <1>4, Zenon DEF PagesOwn

\* Where the loop is, inside the linear space or one page behind it.
LEMMA AtIs ==
  ASSUME VMAssumption, IInv, Sound, NEW c \in Cpus, mapping[c].pc = "map"
  PROVE  /\ At(mapping[c]) \in 1..(Top + 1)
         /\ At(mapping[c]) = mapping[c].first + Guard(mapping[c].kind) + mapping[c].i
<1>1. PICK own : Owned(own)
  BY Zenon DEF Sound
<1>2. Piece(own, C(c), mapping[c].first, Width(mapping[c]))
  BY <1>1, Zenon DEF Owned, CallsOwned
<1>3. PICK a, g, i, m : a = mapping[c].first /\ g = Guard(mapping[c].kind) /\ i = mapping[c].i /\ m = Aligned(mapping[c].n)
  BY Zenon
<1>4. a \in Nat /\ g \in {0, 1} /\ i \in Nat /\ m \in Nat /\ i <= m /\ Width(mapping[c]) = m + g
  BY <1>3, CallIs, Zenon
<1>5. a >= 1 /\ a + (m + g) <= Top + 1
  BY <1>2, <1>3, <1>4, Zenon DEF Piece
<1>6. Top \in Nat
  BY Zenon DEF VMAssumption
<1>7. a + g + i \in 1..(Top + 1)
  BY <1>4, <1>5, <1>6
<1> QED
  BY <1>3, <1>7, Zenon DEF At

\* A round that is not the last.
LEMMA RoundInv ==
  ASSUME VMAssumption, IInv, ~oom, ~halted, NEW c \in Cpus, MapPage(c),
         mapping[c].i + 1 # Rounds(mapping[c].n)
  PROVE  IInv'
<1>1. PICK q, x, p : q = [mapping[c] EXCEPT !.i = @ + 1] /\ x = At(mapping[c]) /\ p = Min(free)
  BY Zenon
<1>2. /\ mapping[c].pc = "map" /\ free # {} /\ free' = free \ {p} /\ pte' = [pte EXCEPT ![x] = p]
      /\ mapping' = [mapping EXCEPT ![c] = q]
      /\ UNCHANGED <<linear, lock, made, halted, oom, blocks>>
  BY <1>1, Zenon DEF MapPage
<1>3. Sound
  BY Zenon DEF IInv
<1>4. p \in free /\ p \in Phys
  <2>1. free \in SUBSET Nat /\ free \subseteq Phys
    BY Zenon DEF IInv, VMTypeOK, VMAssumption
  <2> QED
    BY <1>1, <1>2, <2>1, MinIs, Zenon
<1>5. x \in 1..(Top + 1) /\ x = mapping[c].first + Guard(mapping[c].kind) + mapping[c].i
  BY <1>1, <1>2, <1>3, AtIs, Zenon
<1>6. mapping[c] \in [pc : {"idle", "map"}, kind : {"vm", "stack"}, n : Sizes \cup {0}, first : 0..Top, i : Nat]
  BY Zenon DEF IInv, VMTypeOK
<1>7. /\ q \in [pc : {"idle", "map"}, kind : {"vm", "stack"}, n : Sizes \cup {0}, first : 0..Top, i : Nat]
      /\ q.pc = mapping[c].pc /\ q.kind = mapping[c].kind /\ q.n = mapping[c].n /\ q.first = mapping[c].first
      /\ q.i = mapping[c].i + 1
  BY <1>1, <1>6
<1>8. mapping'[c] = q /\ \A d \in Cpus : d # c => mapping'[d] = mapping[d]
  BY <1>2, Zenon DEF IInv, VMTypeOK
<1>9. VMTypeOK'
  <2>1. mapping' \in [Cpus -> [pc : {"idle", "map"}, kind : {"vm", "stack"}, n : Sizes \cup {0},
                            first : 0..Top, i : Nat]]
    BY <1>2, <1>7, Zenon DEF IInv, VMTypeOK
  <2>2. pte' \in [1..(Top + 1) -> Phys \cup {0}] /\ free' \subseteq Phys
    BY <1>2, <1>4, <1>5, Zenon DEF IInv, VMTypeOK
  <2> QED
    BY <1>2, <2>1, <2>2, Zenon DEF IInv, VMTypeOK
<1>10. CallsOK'
  <2>1. q.i < Rounds(q.n)
    <3>1. mapping[c].i \in Nat /\ Rounds(mapping[c].n) \in Nat
      BY <1>2, CallIs, HalfPages, Zenon
    <3>2. mapping[c].i < Rounds(mapping[c].n)
      BY <1>2, Zenon DEF IInv, CallsOK
    <3> QED
      BY <1>7, <3>1, <3>2
  <2> QED
    BY <1>2, <1>7, <1>8, <2>1 DEF IInv, CallsOK
<1>11. LockLeftWhenNoneFits'
  BY <1>2, Zenon DEF IInv, LockLeftWhenNoneFits
<1>12. PagesOwn'
  <2>1. ASSUME NEW v \in 1..Top, Live(v)' PROVE Live(v) \/ v = x
    <3>1. CASE \E b \in blocks' : InBlock(b, v)'
      BY <1>2, <3>1, Zenon DEF Live, InBlock, Width
    <3>2. CASE \E d \in Cpus : Done(d, v)'
      <4>1. PICK d \in Cpus : Done(d, v)'
        BY <3>2, Zenon
      <4>2. CASE d = c
        <5>1. PICK a, g, i : a = mapping[c].first /\ g = Guard(mapping[c].kind) /\ i = mapping[c].i
          BY Zenon
        <5>2. a \in Nat /\ g \in {0, 1} /\ i \in Nat /\ v \in Nat /\ x = a + g + i
          BY <1>2, <1>5, <5>1, CallIs DEF VMAssumption
        <5>3. a + g <= v /\ v < a + g + (i + 1)
          BY <1>7, <1>8, <4>1, <4>2, <5>1, Zenon DEF Done
        <5>4. v = x \/ v < a + g + i
          BY <5>2, <5>3
        <5>5. v = x \/ Done(c, v)
          BY <1>2, <5>1, <5>3, <5>4, Zenon DEF Done
        <5> QED
          BY <5>5, Zenon DEF Live
      <4>3. CASE d # c
        <5>1. Done(d, v)
          BY <1>8, <4>1, <4>3, Zenon DEF Done
        <5> QED
          BY <5>1, Zenon DEF Live
      <4> QED
        BY <4>2, <4>3, Zenon
    <3> QED
      BY <2>1, <3>1, <3>2, Zenon DEF Live
  <2> QED
    BY <1>2, <1>3, <1>4, <1>5, <2>1, PagesMapped, Zenon DEF Sound, IInv
<1>13. PICK own : Owned(own)
  BY <1>3, Zenon DEF Sound
<1>14. Owned(own)'
  <2>1. \A d \in Cpus : /\ mapping'[d].pc = mapping[d].pc /\ mapping'[d].first = mapping[d].first
                         /\ Width(mapping'[d]) = Width(mapping[d])
    BY <1>7, <1>8, Zenon DEF Width
  <2>2. LinearOwned(own)' /\ BlocksOwned(own)'
    BY <1>2, <1>13, Zenon DEF Owned, LinearOwned, BlocksOwned, Width
  <2>3. CallsOwned(own)'
    <3>1. ASSUME NEW d \in Cpus, mapping'[d].pc = "map" PROVE Piece(own, C(d), mapping'[d].first, Width(mapping'[d]))
      BY <3>1, <1>13, <2>1, Zenon DEF Owned, CallsOwned
    <3> QED
      BY <3>1, Zenon DEF CallsOwned, Width
  <2>4. AllOwned(own)'
    BY <1>2, <1>13, <2>1, Zenon DEF Owned, AllOwned
  <2> QED
    BY <2>2, <2>3, <2>4, Zenon DEF Owned
<1> QED
  BY <1>2, <1>3, <1>9, <1>10, <1>11, <1>12, <1>14, Zenon DEF IInv, Sound

\* Holder h hands its pages to k.
Handed(own, h, k) == [v \in 1..Top |-> IF own[v] = h THEN k ELSE own[v]]

LEMMA HandedIs ==
  ASSUME NEW own, NEW h, NEW k, h # k, \A v \in 1..Top : own[v] # k, NEW a, NEW n
  PROVE  /\ Piece(own, h, a, n) => Piece(Handed(own, h, k), k, a, n)
         /\ \A x : x # h /\ x # k /\ Piece(own, x, a, n) => Piece(Handed(own, h, k), x, a, n)
         /\ \A v \in 1..Top : Handed(own, h, k)[v] = IF own[v] = h THEN k ELSE own[v]
<1> DEFINE new == Handed(own, h, k)
<1>1. \A v \in 1..Top : new[v] = IF own[v] = h THEN k ELSE own[v]
  BY Zenon DEF Handed
<1> HIDE DEF new
<1>2. Piece(own, h, a, n) => Piece(new, k, a, n)
  BY <1>1, Zenon DEF Piece
<1>3. ASSUME NEW x, x # h, x # k, Piece(own, x, a, n) PROVE Piece(new, x, a, n)
  <2>1. \A v \in 1..Top : new[v] = x <=> own[v] = x
    BY <1>1, <1>3, Zenon
  <2> QED
    BY <1>3, <2>1, PieceKept, Zenon
<1> QED
  BY <1>1, <1>2, <1>3, Zenon DEF new

\* After the last round the caller's block has the pages the call had.
LEMMA BlockOwned ==
  ASSUME VMAssumption, IInv, NEW own, Owned(own), NEW c \in Cpus, mapping[c].pc = "map", NEW b,
         b.first = mapping[c].first, Width(b) = Width(mapping[c]),
         linear' = linear, blocks' = blocks \cup {b}, mapping' = [mapping EXCEPT ![c] = NoMapping]
  PROVE  Owned(Handed(own, C(c), B(b)))'
<1>1. Piece(own, C(c), b.first, Width(b))
  BY Zenon DEF Owned, CallsOwned
<1>2. b \notin blocks
  <2> SUFFICES ASSUME b \in blocks PROVE FALSE
    BY Zenon
  <2>1. Piece(own, B(b), b.first, Width(b))
    BY Zenon DEF Owned, BlocksOwned
  <2>2. b.first \in Nat /\ Width(b) \in Nat \ {0} /\ Top \in Nat
    BY BlockIs, Zenon DEF VMAssumption
  <2>3. b.first \in 1..Top /\ b.first <= b.first /\ b.first < b.first + Width(b)
    BY <1>1, <2>2 DEF Piece
  <2>4. own[b.first] = B(b) /\ own[b.first] = C(c)
    BY <1>1, <2>1, <2>3, Zenon DEF Piece
  <2> QED
    BY <2>4, HoldersDiffer, Zenon
<1>3. \A v \in 1..Top : own[v] # B(b)
  BY <1>2, HoldersDiffer DEF Owned, AllOwned
<1>4. C(c) # B(b)
  BY HoldersDiffer, Zenon
<1> DEFINE new == Handed(own, C(c), B(b))
<1>5. \A v \in 1..Top : new[v] = IF own[v] = C(c) THEN B(b) ELSE own[v]
  BY <1>3, <1>4, HandedIs
<1>6. Piece(new, B(b), b.first, Width(b))
  BY <1>1, <1>3, <1>4, HandedIs, Zenon
<1>7. ASSUME NEW x, x # C(c), x # B(b), NEW a, NEW n, Piece(own, x, a, n) PROVE Piece(new, x, a, n)
  BY <1>3, <1>4, <1>7, HandedIs, Zenon
<1> HIDE DEF new
<1>8. mapping'[c].pc = "idle" /\ \A d \in Cpus : d # c => mapping'[d] = mapping[d]
  BY Zenon DEF IInv, VMTypeOK, NoMapping
<1>9. LinearOwned(new)'
  <2> SUFFICES ASSUME NEW r \in Range(linear) PROVE Piece(new, L(r), r[1], r[2])
    BY Zenon DEF LinearOwned
  <2>1. Piece(own, L(r), r[1], r[2])
    BY Zenon DEF Owned, LinearOwned
  <2> QED
    BY <1>7, <2>1, HoldersDiffer, Zenon
<1>10. BlocksOwned(new)'
  <2> SUFFICES ASSUME NEW d \in blocks PROVE Piece(new, B(d), d.first, Width(d))
    BY <1>6, Zenon DEF BlocksOwned
  <2>1. Piece(own, B(d), d.first, Width(d))
    BY Zenon DEF Owned, BlocksOwned
  <2>2. d # b
    BY <1>2, Zenon
  <2>3. B(d) # C(c) /\ B(d) # B(b)
    BY <2>2, HoldersDiffer, Zenon
  <2> QED
    BY <1>7, <2>1, <2>3, Zenon
<1>11. CallsOwned(new)'
  <2>1. ASSUME NEW d \in Cpus, mapping'[d].pc = "map" PROVE Piece(new, C(d), mapping'[d].first, Width(mapping'[d]))
    <3>1. d # c /\ mapping'[d] = mapping[d]
      BY <1>8, <2>1, Zenon
    <3>2. Piece(own, C(d), mapping[d].first, Width(mapping[d]))
      BY <2>1, <3>1, Zenon DEF Owned, CallsOwned
    <3>3. C(d) # C(c) /\ C(d) # B(b)
      BY <3>1, HoldersDiffer, Zenon
    <3> QED
      BY <1>7, <3>1, <3>2, <3>3, Zenon
  <2> QED
    BY <2>1, Zenon DEF CallsOwned, Width
<1>12. AllOwned(new)'
  <2> SUFFICES ASSUME NEW v \in 1..Top
               PROVE  \/ \E s \in Range(linear) : new[v] = L(s)
                      \/ \E d \in blocks \cup {b} : new[v] = B(d)
                      \/ \E d \in Cpus : mapping'[d].pc = "map" /\ new[v] = C(d)
    BY Zenon DEF AllOwned
  <2>1. CASE own[v] = C(c)
    BY <2>1, <1>5, Zenon
  <2>2. CASE own[v] # C(c)
    <3>1. new[v] = own[v]
      BY <1>5, <2>2, Zenon
    <3>2. CASE \E s \in Range(linear) : own[v] = L(s)
      BY <3>1, <3>2, Zenon
    <3>3. CASE \E d \in blocks : own[v] = B(d)
      BY <3>1, <3>3, Zenon
    <3>4. CASE \E d \in Cpus : mapping[d].pc = "map" /\ own[v] = C(d)
      BY <2>2, <3>1, <3>4, <1>8, Zenon
    <3> QED
      BY <3>2, <3>3, <3>4, Zenon DEF Owned, AllOwned
  <2> QED
    BY <2>1, <2>2, Zenon
<1> QED
  BY <1>9, <1>10, <1>11, <1>12, Zenon DEF Owned, new

\* The last round.
LEMMA LastInv ==
  ASSUME VMAssumption, IInv, ~oom, ~halted, NEW c \in Cpus, MapPage(c),
         mapping[c].i + 1 = Rounds(mapping[c].n)
  PROVE  IInv'
<1>1. PICK b, x, p : /\ b = [kind |-> mapping[c].kind, first |-> mapping[c].first, n |-> mapping[c].n]
                     /\ x = At(mapping[c]) /\ p = Min(free)
  BY Zenon
<1>2. /\ mapping[c].pc = "map" /\ free # {} /\ free' = free \ {p} /\ pte' = [pte EXCEPT ![x] = p]
      /\ mapping' = [mapping EXCEPT ![c] = NoMapping] /\ blocks' = blocks \cup {b}
      /\ UNCHANGED <<linear, lock, made, halted, oom>>
  BY <1>1, Zenon DEF MapPage
<1>3. Sound
  BY Zenon DEF IInv
<1>4. p \in free /\ p \in Phys
  <2>1. free \in SUBSET Nat /\ free \subseteq Phys
    BY Zenon DEF IInv, VMTypeOK, VMAssumption
  <2> QED
    BY <1>1, <1>2, <2>1, MinIs, Zenon
<1>5. x \in 1..(Top + 1) /\ x = mapping[c].first + Guard(mapping[c].kind) + mapping[c].i
  BY <1>1, <1>2, <1>3, AtIs, Zenon
<1>6. b.kind = mapping[c].kind /\ b.first = mapping[c].first /\ b.n = mapping[c].n /\ Width(b) = Width(mapping[c])
  BY <1>1, Zenon DEF Width
<1>7. PICK own : Owned(own)
  BY <1>3, Zenon DEF Sound
<1>8. Owned(Handed(own, C(c), B(b)))'
  BY <1>2, <1>6, <1>7, BlockOwned, Zenon
<1>9. mapping'[c] = NoMapping /\ \A d \in Cpus : d # c => mapping'[d] = mapping[d]
  BY <1>2, Zenon DEF IInv, VMTypeOK
<1>10. VMTypeOK'
  <2>1. NoMapping \in [pc : {"idle", "map"}, kind : {"vm", "stack"}, n : Sizes \cup {0}, first : 0..Top, i : Nat]
    BY DEF NoMapping, VMAssumption
  <2>2. mapping' \in [Cpus -> [pc : {"idle", "map"}, kind : {"vm", "stack"}, n : Sizes \cup {0},
                            first : 0..Top, i : Nat]]
    BY <1>2, <2>1, Zenon DEF IInv, VMTypeOK
  <2>3. pte' \in [1..(Top + 1) -> Phys \cup {0}] /\ free' \subseteq Phys
    BY <1>2, <1>4, <1>5, Zenon DEF IInv, VMTypeOK
  <2>4. b \in [kind : {"vm", "stack"}, first : 1..Top, n : Sizes]
    <3>1. mapping[c].first >= 1
      BY <1>2, <1>7, Zenon DEF Owned, CallsOwned, Piece
    <3>2. mapping[c] \in [pc : {"idle", "map"}, kind : {"vm", "stack"}, n : Sizes \cup {0}, first : 0..Top, i : Nat]
      BY Zenon DEF IInv, VMTypeOK
    <3>3. mapping[c].kind \in {"vm", "stack"} /\ mapping[c].first \in 0..Top
      BY <3>2, Zenon
    <3>4. mapping[c].first \in 1..Top
      BY <3>1, <3>3 DEF VMAssumption
    <3>5. mapping[c].n \in Sizes
      BY <1>2, Zenon DEF IInv, CallsOK
    <3> QED
      BY <1>1, <3>3, <3>4, <3>5, Zenon
  <2> QED
    BY <1>2, <2>2, <2>3, <2>4, Zenon DEF IInv, VMTypeOK
<1>11. CallsOK'
  <2>1. mapping'[c].pc = "idle"
    BY <1>9 DEF NoMapping
  <2> QED
    BY <1>2, <1>6, <1>9, <2>1 DEF IInv, CallsOK
<1>12. LockLeftWhenNoneFits'
  BY <1>2, Zenon DEF IInv, LockLeftWhenNoneFits
<1>13. PagesOwn'
  <2>1. ASSUME NEW v \in 1..Top, Live(v)' PROVE Live(v) \/ v = x
    <3>1. CASE \E d \in blocks' : InBlock(d, v)'
      <4>1. PICK d \in blocks \cup {b} : InBlock(d, v)
        BY <1>2, <3>1, Zenon DEF InBlock, Width
      <4>2. CASE d \in blocks
        BY <4>1, <4>2, Zenon DEF Live
      <4>3. CASE d = b
        <5>1. PICK a, g, i, m : a = mapping[c].first /\ g = Guard(mapping[c].kind) /\ i = mapping[c].i /\ m = Aligned(mapping[c].n)
          BY Zenon
        <5>2. a \in Nat /\ g \in {0, 1} /\ i \in Nat /\ m \in Nat /\ v \in Nat /\ x = a + g + i
              /\ Width(b) = m + g
          BY <1>2, <1>5, <1>6, <5>1, CallIs DEF VMAssumption
        <5>3. i + 1 = m \/ i + 1 = m + 1
          BY <1>2, <5>1, CallIs, HalfPages, Zenon
        <5>4. a + g <= v /\ v < a + (m + g)
          BY <1>6, <4>1, <4>3, <5>1, <5>2, Zenon DEF InBlock
        <5>5. v = x \/ v < a + g + i
          BY <5>2, <5>3, <5>4
        <5>6. v = x \/ Done(c, v)
          BY <1>2, <5>1, <5>4, <5>5, Zenon DEF Done
        <5> QED
          BY <5>6, Zenon DEF Live
      <4> QED
        BY <4>2, <4>3, Zenon
    <3>2. CASE \E d \in Cpus : Done(d, v)'
      <4>1. PICK d \in Cpus : Done(d, v)'
        BY <3>2, Zenon
      <4>2. d # c
        BY <1>9, <4>1 DEF Done, NoMapping
      <4>3. Done(d, v)
        BY <1>9, <4>1, <4>2, Zenon DEF Done
      <4> QED
        BY <4>3, Zenon DEF Live
    <3> QED
      BY <2>1, <3>1, <3>2, Zenon DEF Live
  <2> QED
    BY <1>2, <1>3, <1>4, <1>5, <2>1, PagesMapped, Zenon DEF Sound, IInv
<1> QED
  BY <1>2, <1>3, <1>8, <1>10, <1>11, <1>12, <1>13, Zenon DEF IInv, Sound

\* free_linear's list is longer by the region.
LEMMA InsertedIs ==
  ASSUME VMAssumption, VMTypeOK, NEW a \in 1..(Top + 1), NEW n \in Nat \ {0}
  PROVE  /\ Inserted(a, n) \in Seq((1..(Top + 1)) \X (Nat \ {0})) /\ Len(Inserted(a, n)) = Len(linear) + 1
         /\ Distinct(linear) /\ <<a, n>> \notin Range(linear) =>
              Range(Inserted(a, n)) = Range(linear) \cup {<<a, n>>} /\ Distinct(Inserted(a, n))
<1> DEFINE S == (1..(Top + 1)) \X (Nat \ {0})
           before == {i \in 1..Len(linear) : linear[i][1] < a \/ (i = 1 /\ linear[1][1] = a)}
           e == <<a, n>>
<1>1. linear \in Seq(S) /\ e \in S /\ Len(linear) \in Nat
  BY DEF VMTypeOK
<1>2. Cardinality(before) + 1 \in 1..(Len(linear) + 1)
  <2>1. before \subseteq 1..Len(linear)
    BY Zenon
  <2> HIDE DEF before
  <2>2. IsFiniteSet(1..Len(linear)) /\ Cardinality(1..Len(linear)) = Len(linear)
    <3>1. PICK m \in Int : m = Len(linear) /\ m >= 0
      BY <1>1
    <3>2. IsFiniteSet(1..m) /\ Cardinality(1..m) = IF 1 > m THEN 0 ELSE m - 1 + 1
      BY FS_Interval
    <3> QED
      BY <3>1, <3>2
  <2>3. IsFiniteSet(before) /\ Cardinality(before) <= Len(linear)
    BY <2>1, <2>2, FS_Subset, Zenon
  <2>4. Cardinality(before) \in Nat
    BY <2>3, FS_CardinalityType, Zenon
  <2> QED
    BY <1>1, <2>3, <2>4
<1>3. PICK k \in 1..(Len(linear) + 1) : k = Cardinality(before) + 1
  BY <1>2, Zenon
<1>4. Inserted(a, n) = Put(linear, k, e)
  BY <1>3, Zenon DEF Inserted
<1> HIDE DEF S, before, e
<1>5. Put(linear, k, e) \in Seq(S) /\ Len(Put(linear, k, e)) = Len(linear) + 1
  BY <1>1, PutIs
<1>6. ASSUME Distinct(linear), e \notin Range(linear)
      PROVE  Range(Put(linear, k, e)) = Range(linear) \cup {e} /\ Distinct(Put(linear, k, e))
  BY <1>1, <1>6, InsertRange, Zenon
<1> QED
  BY <1>4, <1>5, <1>6, Zenon DEF S, e

\* alloc_phy_page returned 0.
LEMMA FailInv ==
  ASSUME VMAssumption, IInv, ~oom, ~halted, NEW c \in Cpus, MapFails(c)
  PROVE  IInv'
<1>1. /\ mapping[c].pc = "map" /\ mapping' = [mapping EXCEPT ![c] = NoMapping] /\ oom' = TRUE
      /\ UNCHANGED <<lock, pte, blocks, made>>
  BY Zenon DEF MapFails
<1>2. mapping'[c] = NoMapping /\ \A d \in Cpus : d # c => mapping'[d] = mapping[d]
  BY <1>1, Zenon DEF IInv, VMTypeOK
<1>3. CallsOK'
  <2>1. mapping'[c].pc = "idle"
    BY <1>2 DEF NoMapping
  <2> QED
    BY <1>1, <1>2, <2>1 DEF IInv, CallsOK
<1>4. At(mapping[c]) \in 1..(Top + 1)
  BY <1>1, AtIs, Zenon DEF IInv
<1>5. mapping[c].n \in Nat \ {0} /\ Len(linear) \in Nat /\ MAX_LINEAR_HOLE \in Nat
  <2>1. mapping[c].n \in Nat \ {0} /\ MAX_LINEAR_HOLE \in Nat
    BY <1>1, CallIs, Zenon DEF VMAssumption
  <2>2. linear \in Seq((1..(Top + 1)) \X (Nat \ {0}))
    BY Zenon DEF IInv, VMTypeOK
  <2>3. Len(linear) \in Nat
    BY ONLY <2>2
  <2> QED
    BY <2>1, <2>3, Zenon
<1>6. mapping' \in [Cpus -> [pc : {"idle", "map"}, kind : {"vm", "stack"}, n : Sizes \cup {0},
                          first : 0..Top, i : Nat]]
  <2>1. NoMapping \in [pc : {"idle", "map"}, kind : {"vm", "stack"}, n : Sizes \cup {0}, first : 0..Top, i : Nat]
    BY DEF NoMapping, VMAssumption
  <2> QED
    BY <1>1, <2>1, Zenon DEF IInv, VMTypeOK
<1>7. CASE UNCHANGED <<linear, free, halted>>
  <2>1. VMTypeOK'
    BY <1>1, <1>6, <1>7, Zenon DEF IInv, VMTypeOK
  <2>2. LockLeftWhenNoneFits'
    BY <1>1, <1>7, Zenon DEF IInv, LockLeftWhenNoneFits
  <2> QED
    BY <1>1, <1>3, <2>1, <2>2, Zenon DEF IInv
<1>8. CASE mapping[c].i # 0
  <2>1. ~lock /\ free' = FreedAt(At(mapping[c])) /\ free_linear(At(mapping[c]), mapping[c].n)
    BY <1>8, Zenon DEF MapFails
  <2>2. LockLeftWhenNoneFits'
    BY <1>1, <2>1, Zenon DEF LockLeftWhenNoneFits
  <2>3. free' \subseteq Phys
    BY <1>4, <2>1, Zenon DEF FreedAt, IInv, VMTypeOK
  <2>4. /\ linear' \in Seq((1..(Top + 1)) \X (Nat \ {0})) /\ Len(linear') <= MAX_LINEAR_HOLE
        /\ halted' \in BOOLEAN
    <3>1. CASE mapping[c].n % 2 # 0 \/ Len(linear) = MAX_LINEAR_HOLE
      BY <2>1, <3>1, Zenon DEF free_linear, IInv, VMTypeOK
    <3>2. CASE mapping[c].n % 2 = 0 /\ Len(linear) # MAX_LINEAR_HOLE
      <4>1. PICK m : m = mapping[c].n \div 2
        BY Zenon
      <4>2. m \in Nat \ {0}
        BY <1>5, <3>2, <4>1, HalfPages, Zenon
      <4>3. linear' = Inserted(At(mapping[c]), m) /\ halted' = halted
        BY <2>1, <3>2, <4>1, Zenon DEF free_linear
      <4>4. linear' \in Seq((1..(Top + 1)) \X (Nat \ {0})) /\ Len(linear') = Len(linear) + 1
        BY <1>4, <4>2, <4>3, InsertedIs, Zenon DEF IInv
      <4>5. Len(linear) <= MAX_LINEAR_HOLE
        BY Zenon DEF IInv, VMTypeOK
      <4> QED
        BY <1>5, <3>2, <4>3, <4>4, <4>5 DEF IInv, VMTypeOK
    <3> QED
      BY <3>1, <3>2, Zenon
  <2>5. VMTypeOK'
    BY <1>1, <1>6, <2>3, <2>4, Zenon DEF IInv, VMTypeOK
  <2> QED
    BY <1>1, <1>3, <2>2, <2>5, Zenon DEF IInv
<1> QED
  BY <1>7, <1>8, Zenon DEF MapFails

\* A freed block's region is none of the list's, and has the block's pages.
LEMMA FreedOwned ==
  ASSUME VMAssumption, IInv, NEW own, Owned(own), NEW b \in blocks, NEW e,
         e[1] = b.first, e[2] = Width(b),
         Range(linear') = Range(linear) \cup {e}, e \notin Range(linear),
         blocks' = blocks \ {b}, mapping' = mapping
  PROVE  Owned(Handed(own, B(b), L(e)))'
<1>1. Piece(own, B(b), e[1], e[2])
  BY Zenon DEF Owned, BlocksOwned
<1>2. \A v \in 1..Top : own[v] # L(e)
  BY HoldersDiffer, Zenon DEF Owned, AllOwned
<1>3. B(b) # L(e)
  BY HoldersDiffer, Zenon
<1> DEFINE new == Handed(own, B(b), L(e))
<1>4. \A v \in 1..Top : new[v] = IF own[v] = B(b) THEN L(e) ELSE own[v]
  BY <1>2, <1>3, HandedIs
<1>5. Piece(new, L(e), e[1], e[2])
  BY <1>1, <1>2, <1>3, HandedIs, Zenon
<1>6. ASSUME NEW x, x # B(b), x # L(e), NEW a, NEW n, Piece(own, x, a, n) PROVE Piece(new, x, a, n)
  BY <1>2, <1>3, <1>6, HandedIs, Zenon
<1> HIDE DEF new
<1>7. LinearOwned(new)'
  <2> SUFFICES ASSUME NEW r \in Range(linear) PROVE Piece(new, L(r), r[1], r[2])
    BY <1>5, Zenon DEF LinearOwned
  <2>1. Piece(own, L(r), r[1], r[2])
    BY Zenon DEF Owned, LinearOwned
  <2>2. r # e
    BY Zenon
  <2>3. L(r) # B(b) /\ L(r) # L(e)
    BY <2>2, HoldersDiffer, Zenon
  <2> QED
    BY <1>6, <2>1, <2>3, Zenon
<1>8. BlocksOwned(new)'
  <2> SUFFICES ASSUME NEW d \in blocks, d # b PROVE Piece(new, B(d), d.first, Width(d))
    BY Zenon DEF BlocksOwned
  <2>1. Piece(own, B(d), d.first, Width(d))
    BY Zenon DEF Owned, BlocksOwned
  <2>2. B(d) # B(b) /\ B(d) # L(e)
    BY HoldersDiffer, Zenon
  <2> QED
    BY <1>6, <2>1, <2>2, Zenon
<1>9. CallsOwned(new)'
  <2> SUFFICES ASSUME NEW d \in Cpus, mapping[d].pc = "map" PROVE Piece(new, C(d), mapping[d].first, Width(mapping[d]))
    BY Zenon DEF CallsOwned, Width
  <2>1. Piece(own, C(d), mapping[d].first, Width(mapping[d]))
    BY Zenon DEF Owned, CallsOwned
  <2> QED
    BY <1>6, <2>1, HoldersDiffer, Zenon
<1>10. AllOwned(new)'
  <2> SUFFICES ASSUME NEW v \in 1..Top
               PROVE  \/ \E s \in Range(linear) \cup {e} : new[v] = L(s)
                      \/ \E d \in blocks \ {b} : new[v] = B(d)
                      \/ \E d \in Cpus : mapping[d].pc = "map" /\ new[v] = C(d)
    BY Zenon DEF AllOwned
  <2>1. CASE own[v] = B(b)
    BY <2>1, <1>4, Zenon
  <2>2. CASE own[v] # B(b)
    <3>1. new[v] = own[v]
      BY <1>4, <2>2, Zenon
    <3> QED
      BY <2>2, <3>1, Zenon DEF Owned, AllOwned
  <2> QED
    BY <2>1, <2>2, Zenon
<1> QED
  BY <1>7, <1>8, <1>9, <1>10, Zenon DEF Owned, new

\* A block's first page that is mapped is live, and so is no page of it later.
LEMMA FreedPages ==
  ASSUME VMAssumption, IInv, Sound, NEW b \in blocks, blocks' = blocks \ {b}, mapping' = mapping,
         pte' = pte, free' = FreedAt(b.first + Guard(b.kind))
  PROVE  PagesOwn' /\ free' \subseteq Phys
<1>1. PICK own : Owned(own)
  BY Zenon DEF Sound
<1>2. PICK x : x = b.first + Guard(b.kind)
  BY Zenon
<1>3. x \in 1..Top /\ InBlock(b, x)
  <2>1. PICK a, g, m : a = b.first /\ g = Guard(b.kind) /\ m = Aligned(b.n)
    BY Zenon
  <2>2. a \in Nat /\ g \in {0, 1} /\ m \in Nat \ {0} /\ Width(b) = m + g /\ Top \in Nat
    BY <2>1, BlockIs, Zenon DEF VMAssumption
  <2>3. a >= 1 /\ a + (m + g) <= Top + 1
    BY <1>1, <2>1, <2>2, Zenon DEF Owned, BlocksOwned, Piece
  <2>4. a + g \in 1..Top /\ a + g <= a + g /\ a + g < a + (m + g)
    BY <2>2, <2>3
  <2> QED
    BY <1>2, <2>1, <2>2, <2>4, Zenon DEF InBlock
<1>4. own[x] = B(b) /\ Live(x)
  BY <1>1, <1>3, LiveHeld, Zenon DEF Live
<1>5. ASSUME NEW v \in 1..Top, Live(v)' PROVE Live(v) /\ v # x
  <2>1. CASE \E d \in blocks' : InBlock(d, v)'
    <3>1. PICK d \in blocks : d # b /\ InBlock(d, v)
      BY <2>1, Zenon DEF InBlock, Width
    <3>2. own[v] = B(d)
      BY <1>1, <3>1, LiveHeld, Zenon
    <3> QED
      BY <1>4, <3>1, <3>2, HoldersDiffer, Zenon DEF Live
  <2>2. CASE \E d \in Cpus : Done(d, v)'
    <3>1. PICK d \in Cpus : Done(d, v)
      BY <2>2, Zenon DEF Done
    <3>2. own[v] = C(d)
      BY <1>1, <3>1, LiveHeld, Zenon
    <3> QED
      BY <1>4, <3>1, <3>2, HoldersDiffer, Zenon DEF Live
  <2> QED
    BY <1>5, <2>1, <2>2, Zenon DEF Live
<1>6. free' \subseteq free \cup {pte[x]} /\ free \subseteq Phys /\ pte[x] \in Phys
  BY <1>2, <1>3, <1>4, Zenon DEF FreedAt, Sound, PagesOwn, IInv, VMTypeOK
<1>7. \A v \in 1..Top : Live(v)' => pte[v] # pte[x]
  BY <1>3, <1>4, <1>5, Zenon DEF Sound, PagesOwn
<1>8. PagesOwn'
  BY <1>5, <1>6, <1>7, Zenon DEF Sound, PagesOwn
<1> QED
  BY <1>6, <1>8, Zenon

\* free_vm and free_vm_stack.
LEMMA FreeInv ==
  ASSUME VMAssumption, IInv, ~oom, ~halted, NEW c \in Cpus, NEW b \in blocks, Free(c, b)
  PROVE  IInv'
<1>1. /\ ~lock /\ free' = FreedAt(b.first + Guard(b.kind)) /\ blocks' = blocks \ {b}
      /\ free_linear(b.first, b.n + 2 * Guard(b.kind))
      /\ UNCHANGED <<lock, pte, mapping, made, oom>>
  BY Zenon DEF Free
<1>2. Sound
  BY Zenon DEF IInv
<1>3. PagesOwn' /\ free' \subseteq Phys
  BY <1>1, <1>2, FreedPages, Zenon
<1>4. CallsOK'
  BY <1>1, Zenon DEF IInv, CallsOK
<1>5. LockLeftWhenNoneFits'
  BY <1>1, Zenon DEF LockLeftWhenNoneFits
<1>6. b.n \in Nat \ {0} /\ b.first \in Nat /\ Guard(b.kind) \in {0, 1} /\ Width(b) \in Nat \ {0}
      /\ Width(b) = Aligned(b.n) + Guard(b.kind) /\ Top \in Nat /\ Aligned(b.n) \in Nat
  BY BlockIs, Zenon DEF VMAssumption
<1>7. CASE (b.n + 2 * Guard(b.kind)) % 2 # 0 \/ Len(linear) = MAX_LINEAR_HOLE
  <2>1. halted' = TRUE /\ UNCHANGED linear
    BY <1>1, <1>7, Zenon DEF free_linear
  <2>2. VMTypeOK'
    BY <1>1, <1>3, <2>1, Zenon DEF IInv, VMTypeOK
  <2> QED
    BY <1>4, <1>5, <2>1, <2>2, Zenon DEF IInv
<1>8. CASE ~((b.n + 2 * Guard(b.kind)) % 2 # 0 \/ Len(linear) = MAX_LINEAR_HOLE)
  <2>1. linear' = Inserted(b.first, (b.n + 2 * Guard(b.kind)) \div 2) /\ halted' = halted
    BY <1>1, <1>8, Zenon DEF free_linear
  <2>2. (b.n + 2 * Guard(b.kind)) \div 2 = Width(b)
    <3>1. CASE Guard(b.kind) = 0
      <4>1. b.n + 2 * Guard(b.kind) = b.n
        BY <1>6, <3>1
      <4>2. b.n % 2 = 0
        BY <1>8, <4>1, Zenon
      <4>3. b.n \div 2 = Aligned(b.n)
        BY <1>6, <4>2, HalfPages, Zenon
      <4> QED
        BY <1>6, <3>1, <4>1, <4>3
    <3>2. CASE Guard(b.kind) = 1
      <4>1. b.n + 2 * Guard(b.kind) = b.n + 2
        BY <1>6, <3>2
      <4>2. (b.n + 2) % 2 = 0
        BY <1>8, <4>1, Zenon
      <4>3. (b.n + 2) \div 2 = Aligned(b.n) + 1
        BY <1>6, <4>2, HalfPages, Zenon
      <4> QED
        BY <1>6, <3>2, <4>1, <4>3, Zenon
    <3> QED
      BY <1>6, <3>1, <3>2, Zenon
  <2>3. PICK own : Owned(own)
    BY <1>2, Zenon DEF Sound
  <2>4. PICK e : e = <<b.first, Width(b)>>
    BY Zenon
  <2>5. e[1] = b.first /\ e[2] = Width(b)
    BY <2>4, Zenon
  <2>6. Piece(own, B(b), b.first, Width(b))
    BY <2>3, Zenon DEF Owned, BlocksOwned
  <2>7. b.first \in 1..Top /\ b.first \in 1..(Top + 1)
    BY <1>6, <2>6 DEF Piece
  <2>8. e \notin Range(linear)
    <3> SUFFICES ASSUME e \in Range(linear) PROVE FALSE
      BY Zenon
    <3>1. Piece(own, L(e), b.first, Width(b))
      BY <2>3, <2>5, Zenon DEF Owned, LinearOwned
    <3>2. b.first <= b.first /\ b.first < b.first + Width(b)
      BY <1>6
    <3>3. own[b.first] = L(e) /\ own[b.first] = B(b)
      BY <2>6, <2>7, <3>1, <3>2, Zenon DEF Piece
    <3> QED
      BY <3>3, HoldersDiffer, Zenon
  <2>9. linear' = Inserted(b.first, Width(b))
    BY <2>1, <2>2, Zenon
  <2>10. /\ linear' \in Seq((1..(Top + 1)) \X (Nat \ {0})) /\ Len(linear') = Len(linear) + 1
         /\ Range(linear') = Range(linear) \cup {e} /\ Distinct(linear')
    BY <1>2, <1>6, <2>4, <2>7, <2>8, <2>9, InsertedIs, Zenon DEF IInv, Sound
  <2>11. Owned(Handed(own, B(b), L(e)))'
    BY <1>1, <2>3, <2>5, <2>8, <2>10, FreedOwned, Zenon
  <2>12. Len(linear') <= MAX_LINEAR_HOLE
    <3>1. Len(linear) \in Nat /\ Len(linear) <= MAX_LINEAR_HOLE
      BY DEF IInv, VMTypeOK
    <3>2. MAX_LINEAR_HOLE \in Nat /\ Len(linear) # MAX_LINEAR_HOLE
      BY <1>8, Zenon DEF VMAssumption
    <3> QED
      BY <2>10, <3>1, <3>2
  <2>13. VMTypeOK'
    BY <1>1, <1>3, <2>1, <2>10, <2>12, Zenon DEF IInv, VMTypeOK
  <2> QED
    BY <1>3, <1>4, <1>5, <2>10, <2>11, <2>13, Zenon DEF IInv, Sound
<1> QED
  BY <1>7, <1>8, Zenon

-----------------------------------------------------------------------------
\* init_vm leaves one region, the whole linear space.
LEMMA InitInv ==
  ASSUME VMAssumption, VMInit
  PROVE  IInv
<1>1. PICK r : r = <<1, Top>>
  BY Zenon
<1>2. r \in (1..(Top + 1)) \X (Nat \ {0}) /\ r[1] = 1 /\ r[2] = Top /\ Top \in Nat \ {0}
  BY <1>1 DEF VMAssumption
<1>3. linear = <<r>> /\ linear \in Seq((1..(Top + 1)) \X (Nat \ {0})) /\ Len(linear) = 1 /\ linear[1] = r
  BY <1>1, <1>2 DEF VMInit
<1>4. \A x : x \in Range(linear) <=> x = r
  <2> DEFINE S == (1..(Top + 1)) \X (Nat \ {0})
  <2>1. linear \in Seq(S)
    BY <1>3, Zenon
  <2> HIDE DEF S
  <2>2. \A x : x \in Range(linear) <=> \E i \in 1..Len(linear) : x = linear[i]
    BY <2>1, RangeIs, Zenon
  <2> QED
    BY <1>3, <2>2
<1>5. \A c \in Cpus : mapping[c].pc = "idle"
  BY Zenon DEF VMInit, NoMapping
<1>6. VMTypeOK
  <2>1. NoMapping \in [pc : {"idle", "map"}, kind : {"vm", "stack"}, n : Sizes \cup {0}, first : 0..Top, i : Nat]
    BY DEF NoMapping, VMAssumption
  <2>2. mapping \in [Cpus -> [pc : {"idle", "map"}, kind : {"vm", "stack"}, n : Sizes \cup {0},
                           first : 0..Top, i : Nat]]
    BY <2>1, Zenon DEF VMInit
  <2>3. Len(linear) <= MAX_LINEAR_HOLE
    BY <1>3 DEF VMAssumption
  <2> QED
    BY <1>3, <2>2, <2>3, Zenon DEF VMInit, VMTypeOK
<1>7. CallsOK
  BY <1>5, Zenon DEF VMInit, CallsOK
<1>8. LockLeftWhenNoneFits
  BY Zenon DEF VMInit, LockLeftWhenNoneFits
<1>9. Distinct(linear)
  BY <1>3 DEF Distinct
<1>10. PagesOwn
  <2>1. \A v : ~Live(v)
    BY <1>5, Zenon DEF Live, Done, VMInit
  <2> QED
    BY <2>1, Zenon DEF PagesOwn
<1> DEFINE own == [v \in 1..Top |-> L(r)]
<1>11. \A v \in 1..Top : own[v] = L(r)
  BY Zenon
<1> HIDE DEF own
<1>12. Piece(own, L(r), r[1], r[2])
  BY <1>2, <1>11 DEF Piece
<1>13. Owned(own)
  BY <1>4, <1>5, <1>11, <1>12, Zenon DEF VMInit, Owned, LinearOwned, BlocksOwned, CallsOwned, AllOwned
<1> QED
  BY <1>6, <1>7, <1>8, <1>9, <1>10, <1>13, Zenon DEF IInv, Sound

\* Every step keeps the invariant.
LEMMA StepInv ==
  ASSUME VMAssumption, IInv, [VMNext]_vmvars
  PROVE  IInv'
<1>1. CASE UNCHANGED vmvars
  <2>1. UNCHANGED <<linear, lock, free, pte, mapping, blocks, made, halted, oom>>
    BY <1>1, Zenon DEF vmvars
  <2>2. VMTypeOK' /\ CallsOK' /\ LockLeftWhenNoneFits'
    BY <2>1, Zenon DEF IInv, VMTypeOK, CallsOK, LockLeftWhenNoneFits
  <2>3. ASSUME Sound PROVE Sound'
    <3>1. \A v : Live(v)' <=> Live(v)
      BY <2>1, Zenon DEF Live, InBlock, Done, Width
    <3>2. PagesOwn'
      BY <2>1, <2>3, <3>1, Zenon DEF Sound, PagesOwn
    <3>3. PICK own : Owned(own)
      BY <2>3, Zenon DEF Sound
    <3>4. Owned(own)'
      BY <2>1, <3>3, Zenon DEF Owned, LinearOwned, BlocksOwned, CallsOwned, AllOwned
    <3>5. Distinct(linear')
      BY <2>1, <2>3, Zenon DEF Sound
    <3> QED
      BY <3>2, <3>4, <3>5, Zenon DEF Sound
  <2> QED
    BY <2>1, <2>2, <2>3, Zenon DEF IInv
<1>2. CASE VMNext
  <2>1. ~halted /\ ~oom
    BY <1>2, Zenon DEF VMNext
  <2>2. PICK c \in Cpus : \/ \E kind \in Kinds, n \in Sizes : AllocLinear(c, kind, n)
                         \/ MapPage(c) \/ MapFails(c)
                         \/ \E b \in blocks : Free(c, b)
    BY <1>2, Zenon DEF VMNext
  <2>3. ASSUME NEW kind \in Kinds, NEW n \in Sizes, AllocLinear(c, kind, n) PROVE IInv'
    <3>1. CASE \A i \in 1..Len(linear) : ~(linear[i][2] >= Aligned(n) + Guard(kind))
      BY <2>3, <3>1, NoneFitsInv, Zenon
    <3>2. CASE \E i \in 1..Len(linear) : linear[i][2] >= Aligned(n) + Guard(kind)
      BY <2>1, <2>3, <3>2, TakeInv, Zenon
    <3> QED
      BY <3>1, <3>2, Zenon
  <2>4. CASE MapPage(c)
    BY <2>1, <2>4, RoundInv, LastInv, Zenon
  <2>5. CASE MapFails(c)
    BY <2>1, <2>5, FailInv, Zenon
  <2>6. ASSUME NEW b \in blocks, Free(c, b) PROVE IInv'
    BY <2>1, <2>6, FreeInv, Zenon
  <2> QED
    BY <2>2, <2>3, <2>4, <2>5, <2>6, Zenon
<1> QED
  BY <1>1, <1>2, Zenon

\* The inductive invariant of vm.c: every linear page has one holder, every page
\* mapped for a block has a physical page of its own.
THEOREM Invariance ==
  ASSUME VMAssumption
  PROVE  VMSpec => []IInv
<1>1. VMInit => IInv
  BY InitInv, Zenon
<1>2. IInv /\ [VMNext]_vmvars => IInv'
  BY StepInv, Zenon
<1> QED
  BY <1>1, <1>2, PTL DEF VMSpec

\* The pages of a holder, as a region.
LEMMA RegionIs ==
  ASSUME VMAssumption, NEW own, NEW h, NEW a \in Nat, NEW n \in Nat \ {0}, Piece(own, h, a, n)
  PROVE  Region(a, n) = {v \in 1..Top : own[v] = h}
<1>1. Top \in Nat /\ a >= 1 /\ a + n <= Top + 1
  BY Zenon DEF VMAssumption, Piece
<1>2. \A v : v \in Region(a, n) <=> v \in 1..Top /\ a <= v /\ v < a + n
  BY <1>1 DEF Region
<1> QED
  BY <1>2, Zenon DEF Piece

LEMMA PartitionHolds ==
  ASSUME VMAssumption, IInv, ~oom, ~halted
  PROVE  LinearPartition
<1> DEFINE parts == InUse \cup {Region(linear[i][1], linear[i][2]) : i \in 1..Len(linear)}
<1>1. PICK own : Owned(own)
  BY Zenon DEF IInv, Sound
<1> DEFINE of(h) == {v \in 1..Top : own[v] = h}
<1>2. linear \in Seq((1..(Top + 1)) \X (Nat \ {0})) /\ Top \in Nat
  BY Zenon DEF IInv, VMTypeOK, VMAssumption
<1>3. ASSUME NEW i \in 1..Len(linear)
      PROVE  Region(linear[i][1], linear[i][2]) = of(L(linear[i])) /\ linear[i] \in Range(linear)
  <2>1. linear[i] \in (1..(Top + 1)) \X (Nat \ {0}) /\ linear[i] \in Range(linear)
    BY <1>2, RangeIs, Zenon
  <2>2. linear[i][1] \in 1..(Top + 1) /\ linear[i][2] \in Nat \ {0}
    BY <2>1, Zenon
  <2>3. linear[i][1] \in Nat
    BY <1>2, <2>2
  <2>4. Piece(own, L(linear[i]), linear[i][1], linear[i][2])
    BY <1>1, <2>1, Zenon DEF Owned, LinearOwned
  <2> QED
    BY <2>1, <2>2, <2>3, <2>4, RegionIs
<1>4. ASSUME NEW b \in blocks PROVE Region(b.first, Aligned(b.n) + Guard(b.kind)) = of(B(b))
  <2>1. Piece(own, B(b), b.first, Width(b))
    BY <1>1, Zenon DEF Owned, BlocksOwned
  <2>2. b.first \in Nat /\ Width(b) \in Nat \ {0} /\ Width(b) = Aligned(b.n) + Guard(b.kind)
    BY BlockIs, Zenon
  <2>3. Region(b.first, Width(b)) = of(B(b))
    BY <2>1, <2>2, RegionIs
  <2> QED
    BY <2>2, <2>3, Zenon
<1>5. ASSUME NEW c \in Cpus, mapping[c].pc = "map"
      PROVE  Region(mapping[c].first, Aligned(mapping[c].n) + Guard(mapping[c].kind)) = of(C(c))
  <2>1. Piece(own, C(c), mapping[c].first, Width(mapping[c]))
    BY <1>1, <1>5, Zenon DEF Owned, CallsOwned
  <2>2. /\ mapping[c].first \in Nat /\ Width(mapping[c]) \in Nat \ {0}
        /\ Width(mapping[c]) = Aligned(mapping[c].n) + Guard(mapping[c].kind)
    BY <1>5, CallIs, Zenon
  <2>3. Region(mapping[c].first, Width(mapping[c])) = of(C(c))
    BY <2>1, <2>2, RegionIs
  <2> QED
    BY <2>2, <2>3, Zenon
<1>6. ASSUME NEW x \in parts PROVE \E h : x = of(h)
  <2>1. CASE \E i \in 1..Len(linear) : x = Region(linear[i][1], linear[i][2])
    BY <1>3, <2>1, Zenon
  <2>2. CASE x \in InUse
    <3>1. CASE \E b \in blocks : x = Region(b.first, Aligned(b.n) + Guard(b.kind))
      BY <1>4, <3>1, Zenon
    <3>2. CASE \E c \in {d \in Cpus : mapping[d].pc = "map"} :
                 x = Region(mapping[c].first, Aligned(mapping[c].n) + Guard(mapping[c].kind))
      BY <1>5, <3>2, Zenon
    <3> QED
      BY <2>2, <3>1, <3>2, Zenon DEF InUse
  <2> QED
    BY <2>1, <2>2, Zenon
<1>7. ASSUME NEW v \in 1..Top PROVE of(own[v]) \in parts
  <2>1. CASE \E r \in Range(linear) : own[v] = L(r)
    <3> DEFINE S == (1..(Top + 1)) \X (Nat \ {0})
    <3>1. linear \in Seq(S)
      BY <1>2, Zenon
    <3> HIDE DEF S
    <3>2. PICK i \in 1..Len(linear) : own[v] = L(linear[i])
      BY <2>1, <3>1, RangeIs
    <3> QED
      BY <1>3, <3>2, Zenon
  <2>2. CASE \E b \in blocks : own[v] = B(b)
    <3>1. PICK b \in blocks : own[v] = B(b)
      BY <2>2, Zenon
    <3>2. Region(b.first, Aligned(b.n) + Guard(b.kind)) \in InUse
      BY Zenon DEF InUse
    <3> QED
      BY <1>4, <3>1, <3>2, Zenon
  <2>3. CASE \E c \in Cpus : mapping[c].pc = "map" /\ own[v] = C(c)
    <3>1. PICK c \in Cpus : mapping[c].pc = "map" /\ own[v] = C(c)
      BY <2>3, Zenon
    <3>2. Region(mapping[c].first, Aligned(mapping[c].n) + Guard(mapping[c].kind)) \in InUse
      BY <3>1, Zenon DEF InUse
    <3> QED
      BY <1>5, <3>1, <3>2, Zenon
  <2> QED
    BY <1>1, <2>1, <2>2, <2>3, Zenon DEF Owned, AllOwned
<1> HIDE DEF parts
<1>8. UNION parts = 1..Top
  <2>1. ASSUME NEW v \in UNION parts PROVE v \in 1..Top
    BY <1>6, Zenon
  <2>2. ASSUME NEW v \in 1..Top PROVE v \in UNION parts
    BY <1>7, Zenon
  <2> QED
    BY <2>1, <2>2, Zenon
<1>9. ASSUME NEW x \in parts, NEW y \in parts, x # y PROVE x \cap y = {}
  <2>1. PICK g : x = of(g)
    BY <1>6, Zenon
  <2>2. PICK h : y = of(h)
    BY <1>6, Zenon
  <2> QED
    BY <1>9, <2>1, <2>2, Zenon
<1> QED
  BY <1>8, <1>9, Zenon DEF LinearPartition, parts

\* A page of a block is live.
LEMMA PagesLive ==
  ASSUME VMAssumption, IInv, Sound, NEW b \in blocks, NEW v \in PagesOf(b)
  PROVE  v \in 1..Top /\ InBlock(b, v) /\ Live(v)
<1>1. PICK own : Owned(own)
  BY Zenon DEF Sound
<1>2. PICK a, g, m : a = b.first /\ g = Guard(b.kind) /\ m = Aligned(b.n)
  BY Zenon
<1>3. a \in Nat /\ g \in {0, 1} /\ m \in Nat \ {0} /\ Width(b) = m + g /\ Top \in Nat
  BY <1>2, BlockIs, Zenon DEF VMAssumption
<1>4. a >= 1 /\ a + (m + g) <= Top + 1
  BY <1>1, <1>2, <1>3, Zenon DEF Owned, BlocksOwned, Piece
<1>5. v \in (a + g)..(a + g + m - 1)
  BY <1>2, Zenon DEF PagesOf
<1>6. v \in 1..Top /\ a + g <= v /\ v < a + (m + g)
  BY <1>3, <1>4, <1>5
<1>7. InBlock(b, v)
  BY <1>2, <1>3, <1>6, Zenon DEF InBlock
<1> QED
  BY <1>6, <1>7, Zenon DEF Live

\* No two blocks share a physical page, the free regions and the blocks
\* partition the linear space, and the lock stays taken on one path only, in
\* every state of alloc_vm, alloc_vm_stack, free_vm and free_vm_stack on any
\* number of processors.
THEOREM Safe ==
  ASSUME VMAssumption
  PROVE  VMSpec => []VMSafe
<1>1. IInv => VMSafe
  <2> SUFFICES ASSUME IInv PROVE VMSafe
    BY Zenon
  <2>1. NoSharing
    <3> SUFFICES ASSUME ~oom, ~halted
                 PROVE  /\ \A v \in Mapped : pte[v] # 0 /\ pte[v] \notin free
                        /\ \A v, w \in Mapped : v # w => pte[v] # pte[w]
      BY Zenon DEF NoSharing
    <3>1. Sound
      BY Zenon DEF IInv
    <3>2. ASSUME NEW v \in Mapped PROVE v \in 1..Top /\ Live(v)
      BY <3>1, PagesLive, Zenon DEF Mapped
    <3>3. 0 \notin Phys
      BY Zenon DEF VMAssumption
    <3> QED
      BY <3>1, <3>2, <3>3, Zenon DEF Sound, PagesOwn
  <2>2. LinearPartition
    <3>1. CASE ~oom /\ ~halted
      BY <3>1, PartitionHolds, Zenon
    <3>2. CASE ~(~oom /\ ~halted)
      BY <3>2, Zenon DEF LinearPartition
    <3> QED
      BY <3>1, <3>2, Zenon
  <2> QED
    BY <2>1, <2>2, Zenon DEF VMSafe, IInv
<1> QED
  BY <1>1, Invariance, PTL

\* The page a loop maps too many is never one of a stack in use.
LEMMA StackKept ==
  ASSUME VMAssumption, IInv, VMNext
  PROVE  StackMappingKept
<1> SUFFICES ASSUME made' \subseteq {"stack"}, NEW b \in blocks, NEW v \in PagesOf(b)
             PROVE  pte'[v] = pte[v]
  BY Zenon DEF StackMappingKept
<1>1. ~oom /\ ~halted /\ Sound
  BY Zenon DEF VMNext, IInv
<1>2. PICK c \in Cpus : pte' = pte \/ MapPage(c)
  BY Zenon DEF VMNext, AllocLinear, MapFails, Free
<1>3. CASE MapPage(c)
  <2>1. PICK x : x = At(mapping[c])
    BY Zenon
  <2>2. mapping[c].pc = "map" /\ pte' = [pte EXCEPT ![x] = Min(free)] /\ made' = made
    BY <1>3, <2>1, Zenon DEF MapPage
  <2>3. PICK own : Owned(own)
    BY <1>1, Zenon DEF Sound
  <2>4. v \in 1..Top /\ InBlock(b, v) /\ own[v] = B(b)
    BY <1>1, <2>3, PagesLive, LiveHeld, Zenon
  <2>5. v # x
    <3> SUFFICES ASSUME v = x PROVE FALSE
      BY Zenon
    <3>1. PICK a, g, i, m : a = mapping[c].first /\ g = Guard(mapping[c].kind) /\ i = mapping[c].i /\ m = Aligned(mapping[c].n)
      BY Zenon
    <3>2. /\ a \in Nat /\ g \in {0, 1} /\ i \in Nat /\ m \in Nat \ {0} /\ i <= m /\ Width(mapping[c]) = m + g
          /\ v \in Nat /\ v >= 1 /\ v <= Top /\ Top \in Nat
      BY <2>2, <2>4, <3>1, CallIs DEF VMAssumption
    <3>3. v = a + g + i
      BY <1>1, <2>1, <2>2, <3>1, AtIs, Zenon
    <3>4. PICK f, k : f = b.first /\ k = Aligned(b.n)
      BY Zenon
    <3>5. b.kind = "stack" /\ Guard(b.kind) = 1
      BY <2>2, Zenon DEF IInv, CallsOK, Guard
    <3>6. f \in Nat /\ k \in Nat \ {0} /\ Width(b) = k + 1
      BY <3>4, <3>5, BlockIs, Zenon
    <3>7. f + 1 <= v /\ v < f + (k + 1)
      BY <2>4, <3>4, <3>5, <3>6, Zenon DEF InBlock
    <3>8. Piece(own, C(c), a, m + g) /\ Piece(own, B(b), f, k + 1)
      BY <2>2, <2>3, <3>1, <3>2, <3>4, <3>6, Zenon DEF Owned, CallsOwned, BlocksOwned
    <3>9. a >= 1 /\ f >= 1
      BY <3>8, Zenon DEF Piece
    <3>10. PICK u \in 1..Top : a <= u /\ u < a + (m + g) /\ f <= u /\ u < f + (k + 1)
      <4>1. CASE i < m
        <5>1. v \in 1..Top /\ a <= v /\ v < a + (m + g) /\ f <= v /\ v < f + (k + 1)
          BY <3>2, <3>3, <3>6, <3>7, <4>1
        <5> QED
          BY <5>1, Zenon
      <4>2. CASE i = m
        <5>1. v - 1 \in 1..Top /\ a <= v - 1 /\ v - 1 < a + (m + g) /\ f <= v - 1 /\ v - 1 < f + (k + 1)
          BY <3>2, <3>3, <3>6, <3>7, <3>9, <4>2
        <5> QED
          BY <5>1, Zenon
      <4> QED
        BY <3>2, <4>1, <4>2
    <3>11. own[u] = C(c) /\ own[u] = B(b)
      BY <3>8, <3>10, Zenon DEF Piece
    <3> QED
      BY <3>11, HoldersDiffer, Zenon
  <2> QED
    BY <2>2, <2>5 DEF IInv, VMTypeOK
<1> QED
  BY <1>2, <1>3, Zenon

\* As long as only stacks are allocated, no step remaps a page of a stack in
\* use, on any number of processors: alloc_vm_stack's loop runs one page too
\* far, into the page the stack behind keeps for the overflow check.
THEOREM Stable ==
  ASSUME VMAssumption
  PROVE  VMSpec => MappingStable
<1>1. IInv /\ [VMNext]_vmvars => [StackMappingKept]_vmvars
  BY StackKept, Zenon
<1> QED
  BY <1>1, Invariance, PTL DEF VMSpec, MappingStable
=============================================================================
