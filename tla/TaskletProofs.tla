--------------------------- MODULE TaskletProofs ---------------------------
(***************************************************************************)
(* Proofs about Tasklet for every set of CPUs and tasklets, with and       *)
(* without tasklet_hi_schedule_first.                                      *)
(***************************************************************************)
EXTENDS Tasklet, TLAPS

\* Points between tasklet_trylock and tasklet_unlock, and those of them that
\* are past the test of count.
Locked == {"count", "clear", "func", "unlock", "bug"}
PastCount == {"clear", "func", "bug"}

\* The locals of a running action name a tasklet and a vector.
LocalsOK ==
  \A c \in CPUs : /\ pc[c] # "idle" => vec[c] \in Vecs
                  /\ pc[c] \notin {"idle", "loop"} => cur[c] \in Tasklets

\* TASKLET_STATE_RUN is a lock: who is past trylock holds it alone.
RunOK ==
  /\ \A c \in CPUs : pc[c] \in Locked => cur[c] \in run
  /\ \A c, d \in CPUs : c # d /\ pc[c] \in Locked /\ pc[d] \in Locked => cur[c] # cur[d]

\* count is the number of disables in force, and nobody who read a zero before
\* the disable is left once the disabler saw RUN clear.
CountOK ==
  /\ \A t \in Tasklets : count[t] = IF ctl[t] = "on" THEN 0 ELSE 1
  /\ \A c \in CPUs : pc[c] \in PastCount => ctl[cur[c]] # "off"

IInv == TypeOK /\ LocalsOK /\ RunOK /\ CountOK

-----------------------------------------------------------------------------
(***************************************************************************)
(* A scheduled tasklet waits in one place.  The lists are told by ghosts:  *)
(* vq[c][v] and lq[c] are the sequences of tasklets in a vector and in the *)
(* list an action has taken, and place[t] says where t is.  place being a  *)
(* function is what makes the place unique.                                *)
(***************************************************************************)
Elems(S) == {S[i] : i \in 1..Len(S)}

\* From h along nx one meets the tasklets of S, each of them once.
IsQueue(S, h, nx) ==
  /\ S \in Seq(Tasklets)
  /\ h = IF Len(S) = 0 THEN NULL ELSE S[1]
  /\ \A i \in 1..Len(S) : nx[S[i]] = IF i = Len(S) THEN NULL ELSE S[i + 1]
  /\ \A i, j \in 1..Len(S) : S[i] = S[j] => i = j

LastOf(S) == IF Len(S) = 0 THEN HEAD ELSE S[Len(S)]

QueuesOK(vq, lq, hd, tl, ls, nx) ==
  /\ \A c \in CPUs, v \in Vecs : IsQueue(vq[c][v], hd[c][v], nx) /\ tl[c][v] = LastOf(vq[c][v])
  /\ \A c \in CPUs : IsQueue(lq[c], ls[c], nx)

None == <<"none", "", "">>
InClaim(c, v) == <<"claim", c, v>>
InVec(c, v) == <<"vec", c, v>>
InList(c) == <<"list", c, "">>
InCur(c) == <<"cur", c, "">>

QueuePlaces(place, vq, lq) ==
  /\ \A c \in CPUs, v \in Vecs, t \in Tasklets : t \in Elems(vq[c][v]) <=> place[t] = InVec(c, v)
  /\ \A c \in CPUs, t \in Tasklets : t \in Elems(lq[c]) <=> place[t] = InList(c)

ClaimPlaces(place, cl) ==
  \A c \in CPUs, v \in Vecs, t \in Tasklets : <<c, v, t>> \in cl <=> place[t] = InClaim(c, v)

WaitPoints == {"trylock", "count", "clear", "unlock", "requeue"}
CurPlaces(place, p, cu) ==
  \A c \in CPUs, t \in Tasklets : (p[c] \in WaitPoints /\ cu[c] = t) <=> place[t] = InCur(c)

Known(k) ==
  \/ k = None
  \/ \E c \in CPUs : k = InList(c) \/ k = InCur(c) \/ \E v \in Vecs : k = InClaim(c, v) \/ k = InVec(c, v)
SchedPlaces(place, sc) == \A t \in Tasklets : Known(place[t]) /\ (t \in sc <=> place[t] # None)

Placed(place, vq, lq) ==
  /\ QueuesOK(vq, lq, head, tail, list, next)
  /\ QueuePlaces(place, vq, lq)
  /\ ClaimPlaces(place, claim)
  /\ CurPlaces(place, pc, cur)
  /\ SchedPlaces(place, sched)

\* Between two actions of a CPU its list is empty.
IdleOK == \A c \in CPUs : pc[c] = "idle" => list[c] = NULL

PlaceInv == IdleOK /\ \E place, vq, lq : Placed(place, vq, lq)

Moved(place, t, k) == [x \in Tasklets |-> IF x = t THEN k ELSE place[x]]
WithVec(vq, c, v, S) == [d \in CPUs |-> [w \in Vecs |-> IF d = c /\ w = v THEN S ELSE vq[d][w]]]
WithList(lq, c, S) == [d \in CPUs |-> IF d = c THEN S ELSE lq[d]]

-----------------------------------------------------------------------------
\* The places are told apart.
LEMMA PlacesDiffer ==
  ASSUME NEW c, NEW d, NEW v, NEW w
  PROVE  /\ InClaim(c, v) # None /\ InVec(c, v) # None /\ InList(c) # None /\ InCur(c) # None
         /\ InClaim(c, v) # InVec(d, w) /\ InClaim(c, v) # InList(d) /\ InClaim(c, v) # InCur(d)
         /\ InVec(c, v) # InList(d) /\ InVec(c, v) # InCur(d) /\ InList(c) # InCur(d)
         /\ InClaim(c, v) = InClaim(d, w) <=> c = d /\ v = w
         /\ InVec(c, v) = InVec(d, w) <=> c = d /\ v = w
         /\ InList(c) = InList(d) <=> c = d
         /\ InCur(c) = InCur(d) <=> c = d
  BY Zenon DEF None, InClaim, InVec, InList, InCur

\* A queue no tasklet of which has had its next changed.
LEMMA QueueKept ==
  ASSUME NEW S, NEW h, NEW nx, NEW ny, IsQueue(S, h, nx), \A x \in Elems(S) : ny[x] = nx[x]
  PROVE  IsQueue(S, h, ny)
  BY Zenon DEF IsQueue, Elems

\* ny is nx with t linked behind the last tasklet of S.
LinkedBehind(S, t, nx, ny) ==
  /\ ny[t] = NULL
  /\ Len(S) # 0 => ny[S[Len(S)]] = t
  /\ \A i \in 1..(Len(S) - 1) : ny[S[i]] = nx[S[i]]

\* Queueing at the tail: t->next = NULL and the old last tasklet points to t.
LEMMA QueueAppend ==
  ASSUME NEW S, NEW h, NEW nx, NEW ny, NEW t \in Tasklets, IsQueue(S, h, nx), t \notin Elems(S),
         LinkedBehind(S, t, nx, ny)
  PROVE  /\ IsQueue(Append(S, t), IF Len(S) = 0 THEN t ELSE h, ny)
         /\ Elems(Append(S, t)) = Elems(S) \cup {t}
         /\ LastOf(Append(S, t)) = t
<1> DEFINE A == Append(S, t)
<1>1. S \in Seq(Tasklets) /\ Len(S) \in Nat
  BY DEF IsQueue
<1>2. /\ A \in Seq(Tasklets) /\ Len(A) = Len(S) + 1 /\ A[Len(S) + 1] = t
      /\ \A i \in 1..Len(S) : A[i] = S[i]
  BY <1>1
<1> HIDE DEF A
<1>3. \A i \in 1..Len(A) : i \in 1..Len(S) \/ i = Len(S) + 1
  BY <1>1, <1>2
<1>4. \A i \in 1..Len(S) : S[i] # t
  BY Zenon DEF Elems
<1>5. \A i, j \in 1..Len(A) : A[i] = A[j] => i = j
  BY <1>1, <1>2, <1>3, <1>4 DEF IsQueue
<1>6. \A i \in 1..Len(A) : ny[A[i]] = IF i = Len(A) THEN NULL ELSE A[i + 1]
  <2> SUFFICES ASSUME NEW i \in 1..Len(A) PROVE ny[A[i]] = IF i = Len(A) THEN NULL ELSE A[i + 1]
    BY Zenon
  <2>1. CASE i = Len(A)
    BY <2>1, <1>2, Zenon DEF LinkedBehind
  <2>2. CASE i = Len(S) /\ i # Len(A)
    BY <2>2, <1>1, <1>2 DEF LinkedBehind
  <2>3. CASE i \in 1..(Len(S) - 1)
    <3>1. A[i] = S[i] /\ A[i + 1] = S[i + 1] /\ nx[S[i]] = S[i + 1]
      BY <2>3, <1>1, <1>2 DEF IsQueue
    <3> QED
      BY <2>3, <3>1, <1>1, <1>2, Zenon DEF LinkedBehind
  <2> QED
    BY <2>1, <2>2, <2>3, <1>1, <1>2
<1>7. (IF Len(S) = 0 THEN t ELSE h) = A[1] /\ Len(A) # 0
  BY <1>1, <1>2 DEF IsQueue
<1>8. Elems(A) = Elems(S) \cup {t}
  <2>1. \A i \in 1..Len(S) : i \in 1..Len(A)
    BY <1>1, <1>2
  <2>2. Len(S) + 1 \in 1..Len(A)
    BY <1>1, <1>2
  <2> QED
    BY <1>2, <1>3, <2>1, <2>2, Zenon DEF Elems
<1>9. LastOf(A) = t
  BY <1>1, <1>2 DEF LastOf
<1> QED
  BY <1>2, <1>5, <1>6, <1>7, <1>8, <1>9, Zenon DEF IsQueue, A

\* __tasklet_hi_schedule_first: t in front of the first.
LEMMA QueueFirst ==
  ASSUME NEW S, NEW h, NEW nx, NEW ny, NEW t \in Tasklets, IsQueue(S, h, nx), t \notin Elems(S),
         Len(S) # 0, ny[t] = h, \A x \in Elems(S) : ny[x] = nx[x]
  PROVE  /\ IsQueue(<<t>> \o S, t, ny)
         /\ Elems(<<t>> \o S) = Elems(S) \cup {t}
         /\ LastOf(<<t>> \o S) = LastOf(S)
<1> DEFINE A == <<t>> \o S
<1>1. S \in Seq(Tasklets) /\ Len(S) \in Nat /\ <<t>> \in Seq(Tasklets) /\ Len(<<t>>) = 1 /\ <<t>>[1] = t
  BY DEF IsQueue
<1>2. /\ A \in Seq(Tasklets) /\ Len(A) = Len(S) + 1
      /\ \A i \in 1..(Len(S) + 1) : A[i] = IF i <= 1 THEN <<t>>[i] ELSE S[i - 1]
  BY <1>1
<1> HIDE DEF A
<1>3. A[1] = t /\ \A i \in 1..Len(S) : A[i + 1] = S[i] /\ i + 1 \in 1..Len(A)
  BY <1>1, <1>2
<1>4. \A i \in 1..Len(A) : i = 1 \/ (i - 1 \in 1..Len(S) /\ A[i] = S[i - 1])
  BY <1>1, <1>2
<1>5. \A i \in 1..Len(S) : S[i] # t /\ ny[S[i]] = nx[S[i]]
  BY Zenon DEF Elems
<1>6. \A i, j \in 1..Len(A) : A[i] = A[j] => i = j
  <2> SUFFICES ASSUME NEW i \in 1..Len(A), NEW j \in 1..Len(A), A[i] = A[j] PROVE i = j
    BY Zenon
  <2>1. i = 1 <=> j = 1
    BY <1>3, <1>4, <1>5
  <2>2. CASE i # 1
    BY <2>1, <2>2, <1>1, <1>4 DEF IsQueue
  <2> QED
    BY <2>1, <2>2, Zenon
<1>7. \A i \in 1..Len(A) : ny[A[i]] = IF i = Len(A) THEN NULL ELSE A[i + 1]
  <2> SUFFICES ASSUME NEW i \in 1..Len(A) PROVE ny[A[i]] = IF i = Len(A) THEN NULL ELSE A[i + 1]
    BY Zenon
  <2>1. CASE i = 1
    BY <2>1, <1>1, <1>2, <1>3 DEF IsQueue
  <2>2. CASE i # 1
    <3>1. i - 1 \in 1..Len(S) /\ A[i] = S[i - 1] /\ ny[A[i]] = nx[S[i - 1]]
      BY <2>2, <1>4, <1>5, Zenon
    <3>2. nx[S[i - 1]] = IF i - 1 = Len(S) THEN NULL ELSE S[(i - 1) + 1]
      BY <3>1, Zenon DEF IsQueue
    <3>3. i # Len(A) => A[i + 1] = S[i]
      BY <2>2, <1>1, <1>2, <1>3
    <3> QED
      BY <3>1, <3>2, <3>3, <1>1, <1>2
  <2> QED
    BY <2>1, <2>2, Zenon
<1>8. Elems(A) = Elems(S) \cup {t}
  <2>1. 1 \in 1..Len(A)
    BY <1>1, <1>2
  <2> QED
    BY <1>3, <1>4, <2>1 DEF Elems
<1>9. LastOf(A) = LastOf(S)
  BY <1>1, <1>2, <1>3 DEF LastOf
<1> QED
  BY <1>1, <1>2, <1>3, <1>6, <1>7, <1>8, <1>9 DEF IsQueue, A

\* t = list; list = list->next.
LEMMA QueueTail ==
  ASSUME NEW S, NEW h, NEW nx, IsQueue(S, h, nx), h # NULL
  PROVE  /\ IsQueue(Tail(S), nx[h], nx)
         /\ h \in Elems(S) /\ Elems(Tail(S)) = Elems(S) \ {h}
<1> DEFINE A == Tail(S)
<1>1. S \in Seq(Tasklets) /\ Len(S) \in Nat /\ Len(S) # 0 /\ h = S[1] /\ S # <<>>
  BY DEF IsQueue
<1>2. A \in Seq(Tasklets) /\ Len(A) = Len(S) - 1 /\ \A i \in 1..Len(A) : A[i] = S[i + 1]
  BY <1>1
<1> HIDE DEF A
<1>3. \A i \in 1..Len(A) : i + 1 \in 1..Len(S) /\ i + 1 # 1
  BY <1>1, <1>2
<1>4. \A i \in 1..Len(S) : i = 1 \/ (i - 1 \in 1..Len(A) /\ A[i - 1] = S[i])
  BY <1>1, <1>2
<1>5. 1 \in 1..Len(S)
  BY <1>1
<1>6. nx[h] = IF Len(A) = 0 THEN NULL ELSE A[1]
  BY <1>1, <1>2, <1>5 DEF IsQueue
<1>7. \A i, j \in 1..Len(A) : A[i] = A[j] => i = j
  BY <1>1, <1>2, <1>3 DEF IsQueue
<1>8. \A i \in 1..Len(A) : nx[A[i]] = IF i = Len(A) THEN NULL ELSE A[i + 1]
  <2> SUFFICES ASSUME NEW i \in 1..Len(A) PROVE nx[A[i]] = IF i = Len(A) THEN NULL ELSE A[i + 1]
    BY Zenon
  <2>1. nx[S[i + 1]] = IF i + 1 = Len(S) THEN NULL ELSE S[(i + 1) + 1]
    BY <1>3, Zenon DEF IsQueue
  <2>2. i # Len(A) => i + 1 \in 1..Len(A) /\ A[i + 1] = S[(i + 1) + 1]
    BY <1>1, <1>2
  <2> QED
    BY <2>1, <2>2, <1>1, <1>2
<1>9. h \in Elems(S) /\ Elems(A) = Elems(S) \ {h}
  <2>1. \A i \in 1..Len(S) : S[i] = h => i = 1
    BY <1>1, <1>5, Zenon DEF IsQueue
  <2> QED
    BY <1>1, <1>2, <1>3, <1>4, <1>5, <2>1 DEF Elems
<1> QED
  BY <1>2, <1>6, <1>7, <1>8, <1>9, Zenon DEF IsQueue, A

-----------------------------------------------------------------------------
\* A tasklet that is in no list is put at the end of a vector.
LEMMA AppendPlaces ==
  ASSUME TypeOK, NEW place, NEW vq, NEW lq,
         QueuesOK(vq, lq, head, tail, list, next), QueuePlaces(place, vq, lq),
         NEW c \in CPUs, NEW v \in Vecs, NEW t \in Tasklets, Append2Vec(c, v, t), list' = list,
         \A d \in CPUs : place[t] # InList(d) /\ \A w \in Vecs : place[t] # InVec(d, w)
  PROVE  LET new == WithVec(vq, c, v, Append(vq[c][v], t))
         IN  /\ QueuesOK(new, lq, head', tail', list', next')
             /\ QueuePlaces(Moved(place, t, InVec(c, v)), new, lq)
<1> DEFINE S == vq[c][v]
           new == WithVec(vq, c, v, Append(S, t))
           moved == Moved(place, t, InVec(c, v))
<1>1. IsQueue(S, head[c][v], next) /\ tail[c][v] = LastOf(S) /\ S \in Seq(Tasklets) /\ Len(S) \in Nat
  BY DEF QueuesOK, IsQueue
<1>2. Len(S) # 0 => S[Len(S)] \in Tasklets /\ S[Len(S)] \in Elems(S)
  BY <1>1 DEF Elems
<1>3. t \notin Elems(S) /\ (Len(S) # 0 => place[S[Len(S)]] = InVec(c, v))
  BY <1>2 DEF QueuePlaces
<1>4. tail[c][v] = HEAD <=> Len(S) = 0
  BY <1>1, <1>2, TaskletAssumption, Zenon DEF LastOf
<1>5. /\ next'[t] = NULL
      /\ Len(S) # 0 => next'[S[Len(S)]] = t
      /\ \A x \in Tasklets : x # t /\ (Len(S) = 0 \/ x # S[Len(S)]) => next'[x] = next[x]
  <2>1. CASE Len(S) = 0
    BY <2>1, <1>4, Zenon DEF Append2Vec, TypeOK
  <2>2. CASE Len(S) # 0
    <3>1. next' = [next EXCEPT ![t] = NULL, ![S[Len(S)]] = t] /\ S[Len(S)] # t
      BY <2>2, <1>1, <1>2, <1>3, <1>4, Zenon DEF Append2Vec, LastOf
    <3> QED
      BY <2>2, <3>1, <1>2, Zenon DEF TypeOK
  <2> QED
    BY <2>1, <2>2, Zenon
<1>6. /\ head'[c][v] = IF Len(S) = 0 THEN t ELSE head[c][v]
      /\ tail'[c][v] = t
      /\ \A d \in CPUs, w \in Vecs : ~(d = c /\ w = v) => head'[d][w] = head[d][w] /\ tail'[d][w] = tail[d][w]
  BY <1>4 DEF Append2Vec, TypeOK
<1>7. \A i \in 1..(Len(S) - 1) : next'[S[i]] = next[S[i]]
  <2> SUFFICES ASSUME NEW i \in 1..(Len(S) - 1) PROVE next'[S[i]] = next[S[i]]
    BY Zenon
  <2>1. i \in 1..Len(S) /\ Len(S) \in 1..Len(S) /\ i # Len(S)
    BY <1>1
  <2>2. S[i] \in Tasklets /\ S[i] # S[Len(S)] /\ S[i] # t
    BY <2>1, <1>1, <1>3 DEF IsQueue, Elems
  <2> QED
    BY <2>2, <1>5, Zenon
<1>8. /\ IsQueue(Append(S, t), head'[c][v], next') /\ Elems(Append(S, t)) = Elems(S) \cup {t}
      /\ LastOf(Append(S, t)) = t
  <2> DEFINE h == head[c][v]
             ny == next'
  <2>1. IsQueue(S, h, next) /\ t \notin Elems(S)
    BY <1>1, <1>3, Zenon
  <2>2. LinkedBehind(S, t, next, ny)
    BY <1>5, <1>7, Zenon DEF LinkedBehind
  <2>3. head'[c][v] = IF Len(S) = 0 THEN t ELSE h
    BY <1>6, Zenon
  <2> HIDE DEF S, h, ny
  <2>4. /\ IsQueue(Append(S, t), IF Len(S) = 0 THEN t ELSE h, ny)
        /\ Elems(Append(S, t)) = Elems(S) \cup {t} /\ LastOf(Append(S, t)) = t
    BY <2>1, <2>2, QueueAppend, Zenon
  <2> QED
    BY <2>3, <2>4, Zenon DEF ny
<1>9. /\ new[c][v] = Append(S, t)
      /\ \A d \in CPUs, w \in Vecs : ~(d = c /\ w = v) => new[d][w] = vq[d][w]
      /\ moved[t] = InVec(c, v) /\ \A x \in Tasklets : x # t => moved[x] = place[x]
  BY Zenon DEF WithVec, Moved
<1> HIDE DEF new, moved
<1>10. ASSUME NEW d \in CPUs, NEW w \in Vecs, ~(d = c /\ w = v)
       PROVE  IsQueue(vq[d][w], head'[d][w], next')
  <2>1. \A x \in Elems(vq[d][w]) : x \in Tasklets /\ place[x] = InVec(d, w)
    BY DEF QueuesOK, IsQueue, QueuePlaces, Elems
  <2>2. \A x \in Elems(vq[d][w]) : next'[x] = next[x]
    BY <2>1, <1>3, <1>5, <1>10, PlacesDiffer
  <2> QED
    BY <2>2, <1>6, <1>10, QueueKept DEF QueuesOK
<1>11. ASSUME NEW d \in CPUs PROVE IsQueue(lq[d], list'[d], next')
  <2>1. \A x \in Elems(lq[d]) : x \in Tasklets /\ place[x] = InList(d)
    BY DEF QueuesOK, IsQueue, QueuePlaces, Elems
  <2>2. \A x \in Elems(lq[d]) : next'[x] = next[x]
    BY <2>1, <1>3, <1>5, PlacesDiffer
  <2> QED
    BY <2>2, QueueKept, Zenon DEF QueuesOK
<1>12. QueuesOK(new, lq, head', tail', list', next')
  <2>1. ASSUME NEW d \in CPUs, NEW w \in Vecs
        PROVE  IsQueue(new[d][w], head'[d][w], next') /\ tail'[d][w] = LastOf(new[d][w])
    <3>1. CASE d = c /\ w = v
      BY <3>1, <1>6, <1>8, <1>9, Zenon
    <3>2. CASE ~(d = c /\ w = v)
      <4>1. tail[d][w] = LastOf(vq[d][w])
        BY Zenon DEF QueuesOK
      <4> QED
        BY <3>2, <4>1, <1>6, <1>9, <1>10, Zenon
    <3> QED
      BY <3>1, <3>2, Zenon
  <2> QED
    BY <2>1, <1>11, Zenon DEF QueuesOK
<1>13. QueuePlaces(moved, new, lq)
  <2>1. ASSUME NEW d \in CPUs, NEW w \in Vecs, NEW x \in Tasklets
        PROVE  x \in Elems(new[d][w]) <=> moved[x] = InVec(d, w)
    <3>1. CASE d = c /\ w = v
      BY <3>1, <1>8, <1>9 DEF QueuePlaces
    <3>2. CASE ~(d = c /\ w = v)
      <4>1. new[d][w] = vq[d][w]
        BY <3>2, <1>9, Zenon
      <4>2. InVec(c, v) = InVec(d, w) <=> c = d /\ v = w
        BY PlacesDiffer
      <4>3. x \in Elems(vq[d][w]) <=> place[x] = InVec(d, w)
        BY Zenon DEF QueuePlaces
      <4>4. CASE x = t
        BY <3>2, <4>1, <4>2, <4>3, <4>4, <1>9, Zenon
      <4>5. CASE x # t
        BY <4>1, <4>3, <4>5, <1>9, Zenon
      <4> QED
        BY <4>4, <4>5, Zenon
    <3> QED
      BY <3>1, <3>2, Zenon
  <2>2. ASSUME NEW d \in CPUs, NEW x \in Tasklets PROVE x \in Elems(lq[d]) <=> moved[x] = InList(d)
    BY <1>9, PlacesDiffer DEF QueuePlaces
  <2> QED
    BY <2>1, <2>2, Zenon DEF QueuePlaces
<1> QED
  BY <1>12, <1>13, Zenon DEF new, moved

\* test_and_set_bit finds SCHED clear: the tasklet was in no place.
LEMMA ClaimKeepsPlace ==
  ASSUME IInv, PlaceInv, NEW c \in CPUs, NEW v \in Vecs, NEW t \in Tasklets, TestAndSetSched(c, v, t)
  PROVE  PlaceInv'
<1>1. PICK place, vq, lq : Placed(place, vq, lq)
  BY Zenon DEF PlaceInv
<1> DEFINE moved == Moved(place, t, InClaim(c, v))
<1>2. moved[t] = InClaim(c, v) /\ \A x \in Tasklets : x # t => moved[x] = place[x]
  BY Zenon DEF Moved
<1> HIDE DEF moved
<1>3. place[t] = None
  BY <1>1, Zenon DEF Placed, SchedPlaces, TestAndSetSched
<1>4. QueuePlaces(moved, vq, lq)
  BY <1>1, <1>2, <1>3, PlacesDiffer DEF Placed, QueuePlaces
<1>5. ClaimPlaces(moved, claim')
  <2> SUFFICES ASSUME NEW d \in CPUs, NEW w \in Vecs, NEW x \in Tasklets
               PROVE  <<d, w, x>> \in claim' <=> moved[x] = InClaim(d, w)
    BY Zenon DEF ClaimPlaces
  <2>1. <<d, w, x>> \in claim' <=> <<d, w, x>> \in claim \/ (d = c /\ w = v /\ x = t)
    BY Zenon DEF TestAndSetSched
  <2>2. <<d, w, x>> \in claim <=> place[x] = InClaim(d, w)
    BY <1>1, Zenon DEF Placed, ClaimPlaces
  <2> QED
    BY <2>1, <2>2, <1>2, <1>3, PlacesDiffer
<1>6. CurPlaces(moved, pc, cur)
  BY <1>1, <1>2, <1>3, PlacesDiffer DEF Placed, CurPlaces
<1>7. SchedPlaces(moved, sched')
  BY <1>1, <1>2, <1>3, PlacesDiffer DEF Placed, SchedPlaces, TestAndSetSched, Known
<1>8. UNCHANGED <<head, tail, list, next, pc, cur>>
  BY Zenon DEF TestAndSetSched, queues, action
<1>9. Placed(moved, vq, lq)'
  BY <1>1, <1>4, <1>5, <1>6, <1>7, <1>8, Zenon DEF Placed
<1> QED
  BY <1>8, <1>9, Zenon DEF PlaceInv, IdleOK

\* The caller that set SCHED appends the tasklet.
LEMMA ScheduleKeepsPlace ==
  ASSUME IInv, PlaceInv, NEW c \in CPUs, NEW v \in Vecs, NEW t \in Tasklets, tasklet_schedule(c, v, t)
  PROVE  PlaceInv'
<1>1. PICK place, vq, lq : Placed(place, vq, lq)
  BY Zenon DEF PlaceInv
<1> DEFINE moved == Moved(place, t, InVec(c, v))
           new == WithVec(vq, c, v, Append(vq[c][v], t))
<1>2. moved[t] = InVec(c, v) /\ \A x \in Tasklets : x # t => moved[x] = place[x]
  BY Zenon DEF Moved
<1>3. place[t] = InClaim(c, v)
  BY <1>1, Zenon DEF Placed, ClaimPlaces, tasklet_schedule
<1>4. UNCHANGED <<list, pc, cur, sched>> /\ claim' = claim \ {<<c, v, t>>} /\ Append2Vec(c, v, t)
  BY Zenon DEF tasklet_schedule, action
<1>5. QueuesOK(new, lq, head', tail', list', next') /\ QueuePlaces(moved, new, lq)
  <2>1. \A d \in CPUs : place[t] # InList(d) /\ \A w \in Vecs : place[t] # InVec(d, w)
    BY <1>3, PlacesDiffer
  <2> QED
    BY <1>1, <1>4, <2>1, AppendPlaces, Zenon DEF Placed, IInv
<1> HIDE DEF moved, new
<1>6. ClaimPlaces(moved, claim')
  <2> SUFFICES ASSUME NEW d \in CPUs, NEW w \in Vecs, NEW x \in Tasklets
               PROVE  <<d, w, x>> \in claim' <=> moved[x] = InClaim(d, w)
    BY Zenon DEF ClaimPlaces
  <2>1. <<d, w, x>> \in claim' <=> <<d, w, x>> \in claim /\ ~(d = c /\ w = v /\ x = t)
    BY <1>4, Zenon
  <2>2. <<d, w, x>> \in claim <=> place[x] = InClaim(d, w)
    BY <1>1, Zenon DEF Placed, ClaimPlaces
  <2> QED
    BY <2>1, <2>2, <1>2, <1>3, PlacesDiffer
<1>7. CurPlaces(moved, pc', cur')
  <2>1. \A d \in CPUs, x \in Tasklets : moved[x] = InCur(d) <=> place[x] = InCur(d)
    BY <1>2, <1>3, PlacesDiffer
  <2> QED
    BY <1>1, <1>4, <2>1, Zenon DEF Placed, CurPlaces
<1>8. SchedPlaces(moved, sched')
  <2>1. \A x \in Tasklets : Known(place[x]) /\ (x \in sched <=> place[x] # None)
    BY <1>1, Zenon DEF Placed, SchedPlaces
  <2>2. Known(InVec(c, v)) /\ InVec(c, v) # None /\ InClaim(c, v) # None
    BY PlacesDiffer DEF Known
  <2> QED
    BY <2>1, <2>2, <1>2, <1>3, <1>4, Zenon DEF SchedPlaces
<1>9. Placed(moved, new, lq)'
  BY <1>5, <1>6, <1>7, <1>8, Zenon DEF Placed
<1> QED
  BY <1>4, <1>9, Zenon DEF PlaceInv, IdleOK

\* tasklet_action takes a vector's list whole.
LEMMA TakeKeepsPlace ==
  ASSUME IInv, PlaceInv, NEW c \in CPUs, NEW v \in Vecs, TakeList(c, v)
  PROVE  PlaceInv'
<1>1. PICK place, vq, lq : Placed(place, vq, lq)
  BY Zenon DEF PlaceInv
<1> DEFINE moved == [x \in Tasklets |-> IF place[x] = InVec(c, v) THEN InList(c) ELSE place[x]]
           newv == WithVec(vq, c, v, <<>>)
           newl == WithList(lq, c, vq[c][v])
<1>2. \A x \in Tasklets : moved[x] = IF place[x] = InVec(c, v) THEN InList(c) ELSE place[x]
  BY Zenon
<1>3. /\ pc[c] = "idle" /\ pc' = [pc EXCEPT ![c] = "loop"] /\ list' = [list EXCEPT ![c] = head[c][v]]
      /\ head' = [head EXCEPT ![c][v] = NULL] /\ tail' = [tail EXCEPT ![c][v] = HEAD]
      /\ UNCHANGED <<sched, next, cur, claim>>
  BY Zenon DEF TakeList
<1>4. /\ pc'[c] = "loop" /\ list'[c] = head[c][v] /\ head'[c][v] = NULL /\ tail'[c][v] = HEAD
      /\ \A d \in CPUs : d # c => pc'[d] = pc[d] /\ list'[d] = list[d]
      /\ \A d \in CPUs, w \in Vecs : ~(d = c /\ w = v) => head'[d][w] = head[d][w] /\ tail'[d][w] = tail[d][w]
  BY <1>3, Zenon DEF IInv, TypeOK
<1>5. /\ newv[c][v] = <<>> /\ newl[c] = vq[c][v]
      /\ \A d \in CPUs : d # c => newl[d] = lq[d]
      /\ \A d \in CPUs, w \in Vecs : ~(d = c /\ w = v) => newv[d][w] = vq[d][w]
  BY Zenon DEF WithVec, WithList
<1> HIDE DEF moved, newv, newl
<1>6. IsQueue(<<>>, NULL, next) /\ LastOf(<<>>) = HEAD /\ Elems(<<>>) = {}
  BY DEF IsQueue, LastOf, Elems
<1>7. Elems(lq[c]) = {}
  <2>1. list[c] = NULL /\ IsQueue(lq[c], list[c], next)
    BY <1>1, <1>3, Zenon DEF PlaceInv, IdleOK, Placed, QueuesOK
  <2> QED
    BY <2>1, TaskletAssumption DEF IsQueue, Elems
<1>8. \A x \in Tasklets : place[x] # InList(c)
  BY <1>1, <1>7, Zenon DEF Placed, QueuePlaces
<1>9. QueuesOK(newv, newl, head', tail', list', next')
  BY <1>1, <1>3, <1>4, <1>5, <1>6 DEF Placed, QueuesOK
<1>10. QueuePlaces(moved, newv, newl)
  <2>1. ASSUME NEW d \in CPUs, NEW w \in Vecs, NEW x \in Tasklets
        PROVE  x \in Elems(newv[d][w]) <=> moved[x] = InVec(d, w)
    <3>1. CASE d = c /\ w = v
      BY <3>1, <1>2, <1>5, <1>6, PlacesDiffer
    <3>2. CASE ~(d = c /\ w = v)
      <4>1. newv[d][w] = vq[d][w] /\ (x \in Elems(vq[d][w]) <=> place[x] = InVec(d, w))
        BY <3>2, <1>1, <1>5, Zenon DEF Placed, QueuePlaces
      <4>2. InVec(c, v) # InVec(d, w) /\ InList(c) # InVec(d, w)
        BY <3>2, PlacesDiffer
      <4> QED
        BY <4>1, <4>2, <1>2, Zenon
    <3> QED
      BY <3>1, <3>2, Zenon
  <2>2. ASSUME NEW d \in CPUs, NEW x \in Tasklets PROVE x \in Elems(newl[d]) <=> moved[x] = InList(d)
    <3>1. CASE d = c
      BY <3>1, <1>1, <1>2, <1>5, <1>8, Zenon DEF Placed, QueuePlaces
    <3>2. CASE d # c
      <4>1. newl[d] = lq[d] /\ (x \in Elems(lq[d]) <=> place[x] = InList(d))
        BY <3>2, <1>1, <1>5, Zenon DEF Placed, QueuePlaces
      <4>2. InVec(c, v) # InList(d) /\ InList(c) # InList(d)
        BY <3>2, PlacesDiffer
      <4> QED
        BY <4>1, <4>2, <1>2, Zenon
    <3> QED
      BY <3>1, <3>2, Zenon
  <2> QED
    BY <2>1, <2>2, Zenon DEF QueuePlaces
<1>11. ClaimPlaces(moved, claim')
  <2> SUFFICES ASSUME NEW d \in CPUs, NEW w \in Vecs, NEW x \in Tasklets
               PROVE  <<d, w, x>> \in claim' <=> moved[x] = InClaim(d, w)
    BY Zenon DEF ClaimPlaces
  <2>1. moved[x] = InClaim(d, w) <=> place[x] = InClaim(d, w)
    BY <1>2, PlacesDiffer
  <2>2. <<d, w, x>> \in claim <=> place[x] = InClaim(d, w)
    BY <1>1, Zenon DEF Placed, ClaimPlaces
  <2> QED
    BY <2>1, <2>2, <1>3, Zenon
<1>12. CurPlaces(moved, pc', cur')
  <2>1. \A d \in CPUs : pc'[d] \in WaitPoints <=> pc[d] \in WaitPoints
    BY <1>3, <1>4, Zenon DEF WaitPoints
  <2>2. \A x \in Tasklets, d \in CPUs : moved[x] = InCur(d) <=> place[x] = InCur(d)
    BY <1>2, PlacesDiffer
  <2> QED
    BY <1>1, <1>3, <2>1, <2>2 DEF Placed, CurPlaces
<1>13. SchedPlaces(moved, sched')
  BY <1>1, <1>2, <1>3, PlacesDiffer DEF Placed, SchedPlaces, Known
<1>14. Placed(moved, newv, newl)'
  BY <1>9, <1>10, <1>11, <1>12, <1>13, Zenon DEF Placed
<1>15. IdleOK'
  BY <1>4, Zenon DEF PlaceInv, IdleOK
<1> QED
  BY <1>14, <1>15, Zenon DEF PlaceInv

\* softirq_init and tasklet_init: nothing is scheduled.
LEMMA InitPlace == Init => PlaceInv
<1> SUFFICES ASSUME Init PROVE PlaceInv
  BY Zenon
<1> DEFINE place == [t \in Tasklets |-> None]
           vq == [c \in CPUs |-> [v \in Vecs |-> <<>>]]
           lq == [c \in CPUs |-> <<>>]
<1>1. IsQueue(<<>>, NULL, next) /\ LastOf(<<>>) = HEAD /\ Elems(<<>>) = {}
  BY DEF IsQueue, LastOf, Elems
<1>2. QueuesOK(vq, lq, head, tail, list, next)
  BY <1>1, Zenon DEF QueuesOK, Init
<1>3. QueuePlaces(place, vq, lq)
  BY <1>1, PlacesDiffer DEF QueuePlaces
<1>4. ClaimPlaces(place, claim)
  <2>1. \A d \in CPUs, w \in Vecs : None # InClaim(d, w)
    BY PlacesDiffer
  <2> QED
    BY <2>1, Zenon DEF ClaimPlaces, Init
<1>5. CurPlaces(place, pc, cur)
  BY PlacesDiffer, Zenon DEF CurPlaces, WaitPoints, Init
<1>6. SchedPlaces(place, sched)
  BY Zenon DEF SchedPlaces, Known, Init
<1>7. Placed(place, vq, lq)
  BY <1>2, <1>3, <1>4, <1>5, <1>6, Zenon DEF Placed
<1> QED
  BY <1>7, Zenon DEF PlaceInv, IdleOK, Init

-----------------------------------------------------------------------------
\* softirq_init establishes the invariant.
LEMMA InitIInv == Init => IInv
  BY TaskletAssumption
  DEF Init, IInv, TypeOK, LocalsOK, RunOK, CountOK, Locked, PastCount

\* Queueing a tasklet keeps the vectors' types.
LEMMA Append2VecType ==
  ASSUME TypeOK, NEW c \in CPUs, NEW v \in Vecs, NEW t \in Tasklets, Append2Vec(c, v, t)
  PROVE  /\ next' \in [Tasklets -> Tasklets \cup {NULL}]
         /\ head' \in [CPUs -> [Vecs -> Tasklets \cup {NULL}]]
         /\ tail' \in [CPUs -> [Vecs -> Tasklets \cup {HEAD}]]
         /\ raised' \in [CPUs -> SUBSET Vecs]
<1>1. tail' \in [CPUs -> [Vecs -> Tasklets \cup {HEAD}]]
  BY Zenon DEF TypeOK, Append2Vec
<1>2. raised' \in [CPUs -> SUBSET Vecs]
  BY Zenon DEF TypeOK, Append2Vec
<1>3. CASE tail[c][v] = HEAD
  <2>0. head \in [CPUs -> [Vecs -> Tasklets \cup {NULL}]] /\ head' = [head EXCEPT ![c][v] = t]
    BY <1>3, Zenon DEF TypeOK, Append2Vec
  <2>1. head' \in [CPUs -> [Vecs -> Tasklets \cup {NULL}]]
    BY <2>0, Zenon
  <2>2. next' \in [Tasklets -> Tasklets \cup {NULL}]
    BY <1>3, Zenon DEF TypeOK, Append2Vec
  <2> QED
    BY <1>1, <1>2, <2>1, <2>2, Zenon
<1>4. CASE tail[c][v] # HEAD
  <2>1. head' = head /\ next' = [next EXCEPT ![t] = NULL, ![tail[c][v]] = t]
    BY <1>4, Zenon DEF Append2Vec
  <2>2. next' \in [Tasklets -> Tasklets \cup {NULL}]
    BY <2>1, Zenon DEF TypeOK
  <2> QED
    BY <1>1, <1>2, <2>1, <2>2, Zenon DEF TypeOK
<1> QED
  BY <1>3, <1>4, Zenon

\* The callers of the scheduling functions leave RUN and count alone.
LEMMA SchedulingKeeps ==
  ASSUME IInv, NEW c \in CPUs, NEW t \in Tasklets,
         (\E v \in Vecs : TestAndSetSched(c, v, t)) \/ Queue(c, t)
  PROVE  IInv'
<1>1. ASSUME NEW v \in Vecs, TestAndSetSched(c, v, t) PROVE IInv'
  BY <1>1 DEF TestAndSetSched, queues, action, IInv, TypeOK, LocalsOK, RunOK, CountOK, Locked, PastCount
<1>2. ASSUME NEW v \in Vecs, tasklet_schedule(c, v, t) PROVE IInv'
  <2>1. TypeOK'
    BY <1>2, Append2VecType, Zenon DEF tasklet_schedule, action, IInv, TypeOK
  <2>2. LocalsOK' /\ RunOK' /\ CountOK'
    BY <1>2, Zenon DEF tasklet_schedule, action, IInv, LocalsOK, RunOK, CountOK, Locked, PastCount
  <2> QED
    BY <2>1, <2>2, Zenon DEF IInv
<1>3. ASSUME tasklet_hi_schedule_first(c, t) PROVE IInv'
  <2>1. "hi" \in Vecs
    BY <1>3 DEF tasklet_hi_schedule_first, IInv, TypeOK
  <2>2. TypeOK'
    BY <1>3, <2>1 DEF tasklet_hi_schedule_first, action, IInv, TypeOK
  <2>3. LocalsOK' /\ RunOK' /\ CountOK'
    BY <1>3, Zenon DEF tasklet_hi_schedule_first, action, IInv, LocalsOK, RunOK, CountOK, Locked, PastCount
  <2> QED
    BY <2>2, <2>3, Zenon DEF IInv
<1> QED
  BY <1>1, <1>2, <1>3, Zenon DEF Queue

\* tasklet_action and tasklet_hi_action keep the invariant at every point.
LEMMA CpuStepKeeps ==
  ASSUME IInv, NEW c \in CPUs, CpuStep(c)
  PROVE  IInv'
<1>0. TypeOK /\ LocalsOK /\ RunOK /\ CountOK
  BY Zenon DEF IInv
<1>1. CASE BeginPass(c)
  BY <1>1, Zenon DEF BeginPass,
     IInv, TypeOK, LocalsOK, RunOK, CountOK, Locked, PastCount
<1>2. ASSUME NEW v \in Vecs, TakeList(c, v) PROVE IInv'
  BY <1>2, TaskletAssumption DEF TakeList,
     IInv, TypeOK, LocalsOK, RunOK, CountOK, Locked, PastCount
<1>3. CASE NextTasklet(c)
  <2>1. CASE list[c] = NULL
    <3>1. /\ pc' = [pc EXCEPT ![c] = "idle"] /\ cur' = [cur EXCEPT ![c] = NULL]
          /\ UNCHANGED <<sched, run, count, next, head, tail, raised, pass, vec, list, claim, ctl>>
      BY <1>3, <2>1, Zenon DEF NextTasklet, queues
    <3>2. TypeOK'
      BY <1>0, <3>1, Zenon DEF TypeOK
    <3>3. LocalsOK'
      BY <1>0, <3>1, Zenon DEF TypeOK, LocalsOK
    <3>4. RunOK'
      BY <1>0, <3>1, Zenon DEF TypeOK, RunOK, Locked
    <3>5. CountOK'
      BY <1>0, <3>1, Zenon DEF TypeOK, CountOK, PastCount
    <3> QED
      BY <3>2, <3>3, <3>4, <3>5, Zenon DEF IInv
  <2>2. CASE list[c] # NULL
    <3>0. list[c] \in Tasklets /\ next[list[c]] \in Tasklets \cup {NULL} /\ pc[c] = "loop"
      BY <1>0, <1>3, <2>2, Zenon DEF NextTasklet, TypeOK
    <3>1. /\ pc' = [pc EXCEPT ![c] = "trylock"] /\ cur' = [cur EXCEPT ![c] = list[c]]
          /\ list' = [list EXCEPT ![c] = next[list[c]]]
          /\ UNCHANGED <<sched, run, count, next, head, tail, raised, pass, vec, claim, ctl>>
      BY <1>3, <2>2, Zenon DEF NextTasklet, queues
    <3>2. TypeOK'
      BY <1>0, <3>0, <3>1, Zenon DEF TypeOK
    <3>3. LocalsOK'
      BY <1>0, <3>0, <3>1, Zenon DEF TypeOK, LocalsOK
    <3>4. RunOK'
      BY <1>0, <3>0, <3>1, Zenon DEF TypeOK, RunOK, Locked
    <3>5. CountOK'
      BY <1>0, <3>0, <3>1, Zenon DEF TypeOK, CountOK, PastCount
    <3> QED
      BY <3>2, <3>3, <3>4, <3>5, Zenon DEF IInv
  <2> QED
    BY <2>1, <2>2, Zenon
<1>4. CASE tasklet_trylock(c)
  <2>0. cur[c] \in Tasklets /\ vec[c] \in Vecs /\ pc[c] = "trylock"
    BY <1>0, <1>4, Zenon DEF tasklet_trylock, LocalsOK
  <2>1. CASE cur[c] \in run
    <3>1. /\ pc' = [pc EXCEPT ![c] = "requeue"]
          /\ UNCHANGED <<sched, run, count, next, head, tail, raised, pass, vec, list, cur, claim, ctl>>
      BY <1>4, <2>1, Zenon DEF tasklet_trylock, queues
    <3>2. TypeOK'
      BY <1>0, <2>0, <3>1, Zenon DEF TypeOK
    <3>3. LocalsOK'
      BY <1>0, <2>0, <3>1 DEF LocalsOK
    <3>4. RunOK'
      BY <1>0, <2>0, <3>1 DEF RunOK, Locked
    <3>5. CountOK'
      BY <1>0, <2>0, <3>1 DEF CountOK, PastCount
    <3> QED
      BY <3>2, <3>3, <3>4, <3>5, Zenon DEF IInv
  <2>2. CASE cur[c] \notin run
    <3>0. \A d \in CPUs : pc[d] \in Locked => cur[d] # cur[c]
      BY <1>0, <2>2, Zenon DEF RunOK
    <3>1. /\ pc' = [pc EXCEPT ![c] = "count"] /\ run' = run \cup {cur[c]}
          /\ UNCHANGED <<sched, count, next, head, tail, raised, pass, vec, list, cur, claim, ctl>>
      BY <1>4, <2>2, Zenon DEF tasklet_trylock, queues
    <3>2. TypeOK'
      BY <1>0, <2>0, <3>0, <3>1, Zenon DEF TypeOK
    <3>3. LocalsOK'
      BY <1>0, <2>0, <3>0, <3>1 DEF LocalsOK
    <3>4. RunOK'
      BY <1>0, <2>0, <3>0, <3>1 DEF RunOK, Locked
    <3>5. CountOK'
      BY <1>0, <2>0, <3>0, <3>1 DEF CountOK, PastCount
    <3> QED
      BY <3>2, <3>3, <3>4, <3>5, Zenon DEF IInv
  <2> QED
    BY <2>1, <2>2, Zenon
<1>5. CASE ReadCount(c)
  <2>1. /\ pc[c] = "count"
        /\ pc' = [pc EXCEPT ![c] = IF count[cur[c]] = 0 THEN "clear" ELSE "unlock"]
        /\ UNCHANGED <<sched, run, count, next, head, tail, raised, pass, vec, list, cur, claim, ctl>>
    BY <1>5, Zenon DEF ReadCount, queues
  <2>2. TypeOK'
    BY <1>0, <2>1, Zenon DEF TypeOK
  <2>3. LocalsOK'
    BY <1>0, <2>1, Zenon DEF TypeOK, LocalsOK
  <2>4. RunOK'
    BY <1>0, <2>1 DEF RunOK, Locked
  <2>5. CountOK'
    BY <1>0, <2>1 DEF TypeOK, LocalsOK, CountOK, PastCount
  <2> QED
    BY <2>2, <2>3, <2>4, <2>5, Zenon DEF IInv
<1>6. CASE ClearSched(c)
  <2>1. PICK p \in {"func", "bug"} :
          /\ pc[c] = "clear" /\ pc' = [pc EXCEPT ![c] = p] /\ sched' \subseteq sched
          /\ UNCHANGED <<run, count, next, head, tail, raised, pass, vec, list, cur, claim, ctl>>
    BY <1>6, Zenon DEF ClearSched, queues
  <2>2. TypeOK'
    BY <1>0, <2>1, Zenon DEF TypeOK
  <2>3. LocalsOK'
    BY <1>0, <2>1 DEF LocalsOK
  <2>4. RunOK'
    BY <1>0, <2>1 DEF RunOK, Locked
  <2>5. CountOK'
    BY <1>0, <2>1 DEF CountOK, PastCount
  <2> QED
    BY <2>2, <2>3, <2>4, <2>5, Zenon DEF IInv
<1>7. CASE FuncDone(c)
  BY <1>7, Zenon DEF FuncDone, queues,
     IInv, TypeOK, LocalsOK, RunOK, CountOK, Locked, PastCount
<1>8. CASE UnlockDisabled(c)
  BY <1>8 DEF UnlockDisabled, queues,
     IInv, TypeOK, LocalsOK, RunOK, CountOK, Locked, PastCount
<1>9. CASE Requeue(c)
  <2>1. vec[c] \in Vecs /\ cur[c] \in Tasklets
    BY <1>0, <1>9, Zenon DEF Requeue, LocalsOK
  <2>2. TypeOK'
    BY <1>0, <1>9, <2>1, Append2VecType, Zenon DEF Requeue, TypeOK
  <2> QED
    BY <1>0, <1>9, <2>1, <2>2
    DEF Requeue, IInv, TypeOK, LocalsOK, RunOK, CountOK, Locked, PastCount
<1> QED
  BY <1>1, <1>2, <1>3, <1>4, <1>5, <1>6, <1>7, <1>8, <1>9, Zenon DEF CpuStep

\* Disabling and enabling keep it: the disabler waits for RUN to be clear.
LEMMA ControlKeeps ==
  ASSUME IInv, NEW t \in Tasklets,
         tasklet_disable(t) \/ tasklet_unlock_wait(t) \/ tasklet_enable(t)
  PROVE  IInv'
<1> USE DEF IInv, TypeOK, LocalsOK, RunOK, CountOK, Locked, PastCount
<1>1. CASE tasklet_disable(t)
  BY <1>1 DEF tasklet_disable, queues, action
<1>2. CASE tasklet_unlock_wait(t)
  BY <1>2, Zenon DEF tasklet_unlock_wait, queues, action
<1>3. CASE tasklet_enable(t)
  BY <1>3 DEF tasklet_enable, queues, action
<1> QED
  BY <1>1, <1>2, <1>3, Zenon

\* The invariant holds in every reachable state.
THEOREM Invariance == Spec => []IInv
<1>1. IInv /\ [Next]_vars => IInv'
  <2> SUFFICES ASSUME IInv, [Next]_vars PROVE IInv'
    BY Zenon
  <2>1. CASE UNCHANGED vars
    BY <2>1, Zenon DEF vars, queues, action, IInv, TypeOK, LocalsOK, RunOK, CountOK, Locked, PastCount
  <2> QED
    BY <2>1, SchedulingKeeps, CpuStepKeeps, ControlKeeps, Zenon DEF Next
<1> QED
  BY <1>1, InitIInv, PTL DEF Spec

\* Every variable keeps its type.
THEOREM TypeCorrect == Spec => []TypeOK
<1>1. IInv => TypeOK
  BY Zenon DEF IInv
<1> QED
  BY <1>1, Invariance, PTL

\* A tasklet's function never runs on two CPUs at once.
THEOREM Exclusive == Spec => []RunExclusive
<1>1. IInv => RunExclusive
  BY Zenon DEF IInv, RunOK, Locked, RunExclusive
<1> QED
  BY <1>1, Invariance, PTL

\* tasklet_disable is synchronous: after it returned the function is not
\* running and does not start until tasklet_enable.
THEOREM DisableSynchronous == Spec => []DisabledNotRunning
<1>1. IInv => DisabledNotRunning
  BY Zenon DEF IInv, CountOK, PastCount, DisabledNotRunning
<1> QED
  BY <1>1, Invariance, PTL
=============================================================================
