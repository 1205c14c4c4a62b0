------------------------ MODULE TaskletQueueProofs ------------------------
(***************************************************************************)
(* A scheduled tasklet waits in one place, for every set of CPUs and       *)
(* tasklets: the steps of the actions, after those of the scheduling calls *)
(* in TaskletProofs.                                                       *)
(***************************************************************************)
EXTENDS TaskletProofs, FiniteSetTheorems

\* tasklet_hi_schedule_first puts it in front of a vector that is in use.
LEMMA FirstKeepsPlace ==
  ASSUME ~FirstOnEmpty, IInv, PlaceInv, NEW c \in CPUs, NEW t \in Tasklets, tasklet_hi_schedule_first(c, t)
  PROVE  PlaceInv'
<1>1. PICK place, vq, lq : Placed(place, vq, lq)
  BY Zenon DEF PlaceInv
<1> DEFINE S == vq[c]["hi"]
           moved == Moved(place, t, InVec(c, "hi"))
           new == WithVec(vq, c, "hi", <<t>> \o S)
<1>2. moved[t] = InVec(c, "hi") /\ \A x \in Tasklets : x # t => moved[x] = place[x]
  BY Zenon DEF Moved
<1>3. /\ "hi" \in Vecs /\ <<c, "hi", t>> \in claim /\ head[c]["hi"] # NULL
      /\ next' = [next EXCEPT ![t] = head[c]["hi"]] /\ head' = [head EXCEPT ![c]["hi"] = t]
      /\ claim' = claim \ {<<c, "hi", t>>} /\ UNCHANGED <<tail, list, pc, cur, sched>>
  BY Zenon DEF tasklet_hi_schedule_first, action, IInv, TypeOK
<1>4. place[t] = InClaim(c, "hi")
  BY <1>1, <1>3, Zenon DEF Placed, ClaimPlaces
<1>5. next'[t] = head[c]["hi"] /\ \A x \in Tasklets : x # t => next'[x] = next[x]
  BY <1>3, Zenon DEF IInv, TypeOK
<1>6. /\ head'[c]["hi"] = t
      /\ \A d \in CPUs, w \in Vecs : ~(d = c /\ w = "hi") => head'[d][w] = head[d][w]
  BY <1>3, Zenon DEF IInv, TypeOK
<1>7. /\ IsQueue(S, head[c]["hi"], next) /\ tail[c]["hi"] = LastOf(S) /\ Len(S) # 0
      /\ t \notin Elems(S) /\ \A x \in Elems(S) : x \in Tasklets
  BY <1>1, <1>3, <1>4, PlacesDiffer DEF Placed, QueuesOK, QueuePlaces, IsQueue, Elems
<1>8. /\ IsQueue(<<t>> \o S, t, next') /\ Elems(<<t>> \o S) = Elems(S) \cup {t}
      /\ LastOf(<<t>> \o S) = LastOf(S)
  BY <1>5, <1>7, QueueFirst
<1>9. /\ new[c]["hi"] = <<t>> \o S
      /\ \A d \in CPUs, w \in Vecs : ~(d = c /\ w = "hi") => new[d][w] = vq[d][w]
  BY <1>3, Zenon DEF WithVec
<1> HIDE DEF new, moved, S
<1>10. ASSUME NEW d \in CPUs, NEW w \in Vecs PROVE IsQueue(vq[d][w], head[d][w], next')
  <2>1. \A x \in Elems(vq[d][w]) : x \in Tasklets /\ place[x] = InVec(d, w)
    BY <1>1 DEF Placed, QueuesOK, IsQueue, QueuePlaces, Elems
  <2>2. \A x \in Elems(vq[d][w]) : next'[x] = next[x]
    BY <2>1, <1>4, <1>5, PlacesDiffer
  <2> QED
    BY <1>1, <2>2, QueueKept, Zenon DEF Placed, QueuesOK
<1>11. ASSUME NEW d \in CPUs PROVE IsQueue(lq[d], list'[d], next')
  <2>1. \A x \in Elems(lq[d]) : x \in Tasklets /\ place[x] = InList(d)
    BY <1>1 DEF Placed, QueuesOK, IsQueue, QueuePlaces, Elems
  <2>2. \A x \in Elems(lq[d]) : next'[x] = next[x]
    BY <2>1, <1>4, <1>5, PlacesDiffer
  <2> QED
    BY <1>1, <1>3, <2>2, QueueKept, Zenon DEF Placed, QueuesOK
<1>12. QueuesOK(new, lq, head', tail', list', next')
  <2>1. ASSUME NEW d \in CPUs, NEW w \in Vecs
        PROVE  IsQueue(new[d][w], head'[d][w], next') /\ tail'[d][w] = LastOf(new[d][w])
    <3>1. tail'[d][w] = LastOf(vq[d][w])
      BY <1>1, <1>3, Zenon DEF Placed, QueuesOK
    <3>2. CASE d = c /\ w = "hi"
      BY <3>1, <3>2, <1>6, <1>8, <1>9, Zenon DEF S
    <3>3. CASE ~(d = c /\ w = "hi")
      BY <3>1, <3>3, <1>6, <1>9, <1>10, Zenon
    <3> QED
      BY <3>2, <3>3, Zenon
  <2> QED
    BY <2>1, <1>11, Zenon DEF QueuesOK
<1>13. QueuePlaces(moved, new, lq)
  <2>1. ASSUME NEW d \in CPUs, NEW w \in Vecs, NEW x \in Tasklets
        PROVE  x \in Elems(new[d][w]) <=> moved[x] = InVec(d, w)
    <3>1. CASE d = c /\ w = "hi"
      BY <3>1, <1>1, <1>2, <1>8, <1>9 DEF Placed, QueuePlaces, S
    <3>2. CASE ~(d = c /\ w = "hi")
      <4>1. new[d][w] = vq[d][w] /\ (x \in Elems(vq[d][w]) <=> place[x] = InVec(d, w))
        BY <3>2, <1>1, <1>9 DEF Placed, QueuePlaces
      <4>2. InClaim(c, "hi") # InVec(d, w) /\ InVec(c, "hi") # InVec(d, w)
        BY <3>2, PlacesDiffer
      <4> QED
        BY <4>1, <4>2, <1>2, <1>4, Zenon
    <3> QED
      BY <3>1, <3>2, Zenon
  <2>2. ASSUME NEW d \in CPUs, NEW x \in Tasklets PROVE x \in Elems(lq[d]) <=> moved[x] = InList(d)
    <3>1. x \in Elems(lq[d]) <=> place[x] = InList(d)
      BY <1>1, Zenon DEF Placed, QueuePlaces
    <3>2. InClaim(c, "hi") # InList(d) /\ InVec(c, "hi") # InList(d)
      BY PlacesDiffer
    <3> QED
      BY <3>1, <3>2, <1>2, <1>4, Zenon
  <2> QED
    BY <2>1, <2>2, Zenon DEF QueuePlaces
<1>14. ClaimPlaces(moved, claim')
  <2> SUFFICES ASSUME NEW d \in CPUs, NEW w \in Vecs, NEW x \in Tasklets
               PROVE  <<d, w, x>> \in claim' <=> moved[x] = InClaim(d, w)
    BY Zenon DEF ClaimPlaces
  <2>1. <<d, w, x>> \in claim' <=> <<d, w, x>> \in claim /\ ~(d = c /\ w = "hi" /\ x = t)
    BY <1>3, Zenon
  <2>2. <<d, w, x>> \in claim <=> place[x] = InClaim(d, w)
    BY <1>1, Zenon DEF Placed, ClaimPlaces
  <2> QED
    BY <2>1, <2>2, <1>2, <1>4, PlacesDiffer
<1>15. CurPlaces(moved, pc', cur')
  <2>1. \A d \in CPUs, x \in Tasklets : moved[x] = InCur(d) <=> place[x] = InCur(d)
    BY <1>2, <1>4, PlacesDiffer
  <2> QED
    BY <1>1, <1>3, <2>1, Zenon DEF Placed, CurPlaces
<1>16. SchedPlaces(moved, sched')
  BY <1>1, <1>2, <1>3, <1>4, PlacesDiffer DEF Placed, SchedPlaces, Known
<1>17. Placed(moved, new, lq)'
  BY <1>12, <1>13, <1>14, <1>15, <1>16, Zenon DEF Placed
<1> QED
  BY <1>3, <1>17, Zenon DEF PlaceInv, IdleOK

\* The loop takes the next tasklet off the list, or ends.
LEMMA NextKeepsPlace ==
  ASSUME IInv, PlaceInv, NEW c \in CPUs, NextTasklet(c)
  PROVE  PlaceInv'
<1>1. PICK place, vq, lq : Placed(place, vq, lq)
  BY Zenon DEF PlaceInv
<1>2. pc[c] = "loop" /\ UNCHANGED <<sched, next, head, tail, raised, claim>>
  BY Zenon DEF NextTasklet, queues
<1>3. CASE list[c] = NULL
  <2>1. pc'[c] = "idle" /\ \A d \in CPUs : d # c => pc'[d] = pc[d] /\ cur'[d] = cur[d]
    BY <1>3, Zenon DEF NextTasklet, IInv, TypeOK
  <2>2. list' = list
    BY <1>3, Zenon DEF NextTasklet
  <2>3. CurPlaces(place, pc', cur')
    BY <1>1, <1>2, <2>1 DEF Placed, CurPlaces, WaitPoints
  <2>4. Placed(place, vq, lq)'
    BY <1>1, <1>2, <2>2, <2>3, Zenon DEF Placed
  <2> QED
    BY <1>3, <2>1, <2>2, <2>4, Zenon DEF PlaceInv, IdleOK
<1>4. CASE list[c] # NULL
  <2>0. PICK t \in Tasklets : t = list[c]
    BY <1>4, Zenon DEF IInv, TypeOK
  <2> DEFINE moved == Moved(place, t, InCur(c))
             newl == WithList(lq, c, Tail(lq[c]))
  <2>1. /\ pc'[c] = "trylock" /\ cur'[c] = t /\ list'[c] = next[t]
        /\ \A d \in CPUs : d # c => pc'[d] = pc[d] /\ cur'[d] = cur[d] /\ list'[d] = list[d]
    BY <1>4, <2>0 DEF NextTasklet, IInv, TypeOK
  <2>2. IsQueue(lq[c], t, next) /\ t # NULL
    BY <1>1, <1>4, <2>0, Zenon DEF Placed, QueuesOK
  <2>3. IsQueue(Tail(lq[c]), next[t], next) /\ t \in Elems(lq[c]) /\ Elems(Tail(lq[c])) = Elems(lq[c]) \ {t}
    BY <2>2, QueueTail, Zenon
  <2>5. place[t] = InList(c)
    BY <1>1, <2>3, Zenon DEF Placed, QueuePlaces
  <2>6. moved[t] = InCur(c) /\ \A x \in Tasklets : x # t => moved[x] = place[x]
    BY Zenon DEF Moved
  <2>7. newl[c] = Tail(lq[c]) /\ \A d \in CPUs : d # c => newl[d] = lq[d]
    BY Zenon DEF WithList
  <2> HIDE DEF moved, newl
  <2>8. QueuesOK(vq, newl, head', tail', list', next')
    <3>1. QueuesOK(vq, lq, head, tail, list, next) /\ head' = head /\ tail' = tail /\ next' = next
      BY <1>1, <1>2, Zenon DEF Placed
    <3>2. ASSUME NEW d \in CPUs PROVE IsQueue(newl[d], list'[d], next)
      <4>1. CASE d = c
        BY <4>1, <2>1, <2>3, <2>7, Zenon
      <4>2. CASE d # c
        BY <4>2, <3>1, <2>1, <2>7, Zenon DEF QueuesOK
      <4> QED
        BY <4>1, <4>2, Zenon
    <3> QED
      BY <3>1, <3>2, Zenon DEF QueuesOK
  <2>9. QueuePlaces(moved, vq, newl)
    <3>1. ASSUME NEW d \in CPUs, NEW w \in Vecs, NEW x \in Tasklets
          PROVE  x \in Elems(vq[d][w]) <=> moved[x] = InVec(d, w)
      BY <1>1, <2>5, <2>6, PlacesDiffer DEF Placed, QueuePlaces
    <3>2. ASSUME NEW d \in CPUs, NEW x \in Tasklets PROVE x \in Elems(newl[d]) <=> moved[x] = InList(d)
      <4>1. CASE d = c
        BY <4>1, <1>1, <2>3, <2>6, <2>7, PlacesDiffer DEF Placed, QueuePlaces
      <4>2. CASE d # c
        BY <4>2, <1>1, <2>5, <2>6, <2>7, PlacesDiffer DEF Placed, QueuePlaces
      <4> QED
        BY <4>1, <4>2, Zenon
    <3> QED
      BY <3>1, <3>2, Zenon DEF QueuePlaces
  <2>10. ClaimPlaces(moved, claim')
    <3> SUFFICES ASSUME NEW d \in CPUs, NEW w \in Vecs, NEW x \in Tasklets
                 PROVE  <<d, w, x>> \in claim' <=> moved[x] = InClaim(d, w)
      BY Zenon DEF ClaimPlaces
    <3>1. moved[x] = InClaim(d, w) <=> place[x] = InClaim(d, w)
      BY <2>5, <2>6, PlacesDiffer
    <3>2. <<d, w, x>> \in claim <=> place[x] = InClaim(d, w)
      BY <1>1, Zenon DEF Placed, ClaimPlaces
    <3> QED
      BY <3>1, <3>2, <1>2, Zenon
  <2>11. CurPlaces(moved, pc', cur')
    <3> SUFFICES ASSUME NEW d \in CPUs, NEW x \in Tasklets
                 PROVE  (pc'[d] \in WaitPoints /\ cur'[d] = x) <=> moved[x] = InCur(d)
      BY Zenon DEF CurPlaces
    <3>1. CASE d = c
      <4>1. place[x] # InCur(c)
        BY <1>1, <1>2, Zenon DEF Placed, CurPlaces, WaitPoints
      <4> QED
        BY <3>1, <4>1, <2>1, <2>6, Zenon DEF WaitPoints
    <3>2. CASE d # c
      <4>1. moved[x] = InCur(d) <=> place[x] = InCur(d)
        BY <3>2, <2>5, <2>6, PlacesDiffer
      <4> QED
        BY <3>2, <4>1, <1>1, <2>1 DEF Placed, CurPlaces
    <3> QED
      BY <3>1, <3>2, Zenon
  <2>12. SchedPlaces(moved, sched')
    BY <1>1, <1>2, <2>5, <2>6, PlacesDiffer DEF Placed, SchedPlaces, Known
  <2>13. Placed(moved, vq, newl)'
    BY <2>8, <2>9, <2>10, <2>11, <2>12, Zenon DEF Placed
  <2>14. IdleOK'
    BY <2>1, Zenon DEF PlaceInv, IdleOK
  <2> QED
    BY <2>13, <2>14, Zenon DEF PlaceInv
<1> QED
  BY <1>3, <1>4, Zenon

\* The lock, the look at count, the unlock of a disabled tasklet and the end
\* of the function move nothing.
LEMMA StillKeepsPlace ==
  ASSUME IInv, PlaceInv, NEW c \in CPUs,
         BeginPass(c) \/ tasklet_trylock(c) \/ ReadCount(c) \/ FuncDone(c) \/ UnlockDisabled(c)
  PROVE  PlaceInv'
<1>1. PICK place, vq, lq : Placed(place, vq, lq)
  BY Zenon DEF PlaceInv
<1>2. UNCHANGED <<sched, next, head, tail, list, cur, claim>>
  BY Zenon DEF BeginPass, tasklet_trylock, ReadCount, FuncDone, UnlockDisabled, queues
<1>3. \A d \in CPUs : /\ pc'[d] \in WaitPoints <=> pc[d] \in WaitPoints
                      /\ pc'[d] = "idle" => pc[d] = "idle"
  BY DEF BeginPass, tasklet_trylock, ReadCount, FuncDone, UnlockDisabled, WaitPoints, IInv, TypeOK
<1>4. CurPlaces(place, pc', cur')
  BY <1>1, <1>2, <1>3, Zenon DEF Placed, CurPlaces
<1>5. Placed(place, vq, lq)'
  BY <1>1, <1>2, <1>4, Zenon DEF Placed
<1> QED
  BY <1>2, <1>3, <1>5, Zenon DEF PlaceInv, IdleOK

\* SCHED is set when the action clears it, so BUG() is not reached.
LEMMA ClearKeepsPlace ==
  ASSUME IInv, PlaceInv, NEW c \in CPUs, ClearSched(c)
  PROVE  PlaceInv'
<1>1. PICK place, vq, lq : Placed(place, vq, lq)
  BY Zenon DEF PlaceInv
<1>0. PICK t \in Tasklets : t = cur[c]
  BY Zenon DEF ClearSched, IInv, LocalsOK
<1> DEFINE moved == Moved(place, t, None)
<1>2. pc[c] = "clear" /\ t = cur[c] /\ UNCHANGED <<next, head, tail, list, cur, claim>>
  BY <1>0, Zenon DEF ClearSched, queues
<1>3. place[t] = InCur(c)
  BY <1>1, <1>2, Zenon DEF Placed, CurPlaces, WaitPoints
<1>4. t \in sched
  BY <1>1, <1>2, <1>3, PlacesDiffer, Zenon DEF Placed, SchedPlaces
<1>5. sched' = sched \ {t} /\ pc'[c] = "func" /\ \A d \in CPUs : d # c => pc'[d] = pc[d]
  BY <1>0, <1>4, Zenon DEF ClearSched, IInv, TypeOK
<1>6. moved[t] = None /\ \A x \in Tasklets : x # t => moved[x] = place[x]
  BY <1>2, Zenon DEF Moved
<1> HIDE DEF moved
<1>7. QueuePlaces(moved, vq, lq)
  BY <1>1, <1>3, <1>6, PlacesDiffer DEF Placed, QueuePlaces
<1>8. ClaimPlaces(moved, claim')
  <2> SUFFICES ASSUME NEW d \in CPUs, NEW w \in Vecs, NEW x \in Tasklets
               PROVE  <<d, w, x>> \in claim' <=> moved[x] = InClaim(d, w)
    BY Zenon DEF ClaimPlaces
  <2>1. moved[x] = InClaim(d, w) <=> place[x] = InClaim(d, w)
    BY <1>3, <1>6, PlacesDiffer
  <2>2. <<d, w, x>> \in claim <=> place[x] = InClaim(d, w)
    BY <1>1, Zenon DEF Placed, ClaimPlaces
  <2> QED
    BY <2>1, <2>2, <1>2, Zenon
<1>9. CurPlaces(moved, pc', cur')
  <2> SUFFICES ASSUME NEW d \in CPUs, NEW x \in Tasklets
               PROVE  (pc'[d] \in WaitPoints /\ cur'[d] = x) <=> moved[x] = InCur(d)
    BY Zenon DEF CurPlaces
  <2>1. CASE d = c
    <3>1. x # t => place[x] # InCur(c)
      BY <1>1, <1>2, Zenon DEF Placed, CurPlaces
    <3> QED
      BY <2>1, <3>1, <1>5, <1>6, PlacesDiffer, Zenon DEF WaitPoints
  <2>2. CASE d # c
    <3>1. moved[x] = InCur(d) <=> place[x] = InCur(d)
      BY <2>2, <1>3, <1>6, PlacesDiffer
    <3> QED
      BY <2>2, <3>1, <1>1, <1>2, <1>5, Zenon DEF Placed, CurPlaces
  <2> QED
    BY <2>1, <2>2, Zenon
<1>10. SchedPlaces(moved, sched')
  BY <1>1, <1>5, <1>6, Zenon DEF Placed, SchedPlaces, Known
<1>11. Placed(moved, vq, lq)'
  BY <1>1, <1>2, <1>7, <1>8, <1>9, <1>10, Zenon DEF Placed
<1> QED
  BY <1>2, <1>5, <1>11, Zenon DEF PlaceInv, IdleOK

\* A tasklet that is running elsewhere or disabled is put back.
LEMMA RequeueKeepsPlace ==
  ASSUME IInv, PlaceInv, NEW c \in CPUs, Requeue(c)
  PROVE  PlaceInv'
<1>1. PICK place, vq, lq : Placed(place, vq, lq)
  BY Zenon DEF PlaceInv
<1>0. PICK t \in Tasklets, v \in Vecs : t = cur[c] /\ v = vec[c]
  BY Zenon DEF Requeue, IInv, LocalsOK
<1> DEFINE moved == Moved(place, t, InVec(c, v))
           new == WithVec(vq, c, v, Append(vq[c][v], t))
<1>2. pc[c] = "requeue" /\ t = cur[c] /\ UNCHANGED <<sched, list, cur, claim>>
  BY <1>0, Zenon DEF Requeue
<1>3. Append2Vec(c, v, t) /\ pc'[c] = "loop" /\ \A d \in CPUs : d # c => pc'[d] = pc[d]
  BY <1>0, Zenon DEF Requeue, IInv, TypeOK
<1>4. place[t] = InCur(c)
  BY <1>1, <1>2, Zenon DEF Placed, CurPlaces, WaitPoints
<1>5. QueuesOK(new, lq, head', tail', list', next') /\ QueuePlaces(moved, new, lq)
  <2>1. \A d \in CPUs : place[t] # InList(d) /\ \A w \in Vecs : place[t] # InVec(d, w)
    BY <1>4, PlacesDiffer
  <2>2. list' = list
    BY <1>2, Zenon
  <2> QED
    BY <1>1, <1>2, <1>3, <2>1, <2>2, AppendPlaces, Zenon DEF Placed, IInv
<1>6. moved[t] = InVec(c, v) /\ \A x \in Tasklets : x # t => moved[x] = place[x]
  BY <1>2, Zenon DEF Moved
<1> HIDE DEF moved, new
<1>7. ClaimPlaces(moved, claim')
  <2> SUFFICES ASSUME NEW d \in CPUs, NEW w \in Vecs, NEW x \in Tasklets
               PROVE  <<d, w, x>> \in claim' <=> moved[x] = InClaim(d, w)
    BY Zenon DEF ClaimPlaces
  <2>1. moved[x] = InClaim(d, w) <=> place[x] = InClaim(d, w)
    BY <1>4, <1>6, PlacesDiffer
  <2>2. <<d, w, x>> \in claim <=> place[x] = InClaim(d, w)
    BY <1>1, Zenon DEF Placed, ClaimPlaces
  <2> QED
    BY <2>1, <2>2, <1>2, Zenon
<1>8. CurPlaces(moved, pc', cur')
  <2> SUFFICES ASSUME NEW d \in CPUs, NEW x \in Tasklets
               PROVE  (pc'[d] \in WaitPoints /\ cur'[d] = x) <=> moved[x] = InCur(d)
    BY Zenon DEF CurPlaces
  <2>1. CASE d = c
    <3>1. x # t => place[x] # InCur(c)
      BY <1>1, <1>2, Zenon DEF Placed, CurPlaces
    <3> QED
      BY <2>1, <3>1, <1>3, <1>6, PlacesDiffer DEF WaitPoints
  <2>2. CASE d # c
    <3>1. moved[x] = InCur(d) <=> place[x] = InCur(d)
      BY <2>2, <1>4, <1>6, PlacesDiffer
    <3> QED
      BY <2>2, <3>1, <1>1, <1>2, <1>3, Zenon DEF Placed, CurPlaces
  <2> QED
    BY <2>1, <2>2, Zenon
<1>9. SchedPlaces(moved, sched')
  <2>1. \A x \in Tasklets : Known(place[x]) /\ (x \in sched <=> place[x] # None)
    BY <1>1, Zenon DEF Placed, SchedPlaces
  <2>2. Known(InVec(c, v)) /\ InVec(c, v) # None /\ InCur(c) # None
    BY PlacesDiffer DEF Known
  <2> QED
    BY <2>1, <2>2, <1>2, <1>4, <1>6, Zenon DEF SchedPlaces
<1>10. Placed(moved, new, lq)'
  BY <1>5, <1>7, <1>8, <1>9, Zenon DEF Placed
<1> QED
  BY <1>2, <1>3, <1>10, Zenon DEF PlaceInv, IdleOK

\* Wherever tasklet_hi_schedule_first finds a vector in use, the lists stay
\* lists and every scheduled tasklet has its place.
THEOREM PlaceInvariance == ASSUME ~FirstOnEmpty PROVE Spec => []PlaceInv
<1>1. IInv /\ PlaceInv /\ [Next]_vars => PlaceInv'
  <2> SUFFICES ASSUME IInv, PlaceInv, [Next]_vars PROVE PlaceInv'
    BY Zenon
  <2>1. ASSUME UNCHANGED <<sched, claim, head, tail, next, pc, list, cur>> PROVE PlaceInv'
    <3>1. PICK place, vq, lq : Placed(place, vq, lq)
      BY Zenon DEF PlaceInv
    <3>2. Placed(place, vq, lq)'
      BY <2>1, <3>1, Zenon DEF Placed
    <3> QED
      BY <2>1, <3>2, Zenon DEF PlaceInv, IdleOK
  <2>2. CASE UNCHANGED vars
    BY <2>1, <2>2, Zenon DEF vars, queues, action
  <2>3. ASSUME NEW t \in Tasklets, tasklet_disable(t) \/ tasklet_unlock_wait(t) \/ tasklet_enable(t)
        PROVE  PlaceInv'
    BY <2>1, <2>3, Zenon DEF tasklet_disable, tasklet_unlock_wait, tasklet_enable, queues, action
  <2>4. ASSUME NEW c \in CPUs, NEW t \in Tasklets, Queue(c, t) PROVE PlaceInv'
    BY <2>4, ScheduleKeepsPlace, FirstKeepsPlace, Zenon DEF Queue
  <2>5. ASSUME NEW c \in CPUs, CpuStep(c) PROVE PlaceInv'
    BY <2>5, TakeKeepsPlace, NextKeepsPlace, StillKeepsPlace, ClearKeepsPlace, RequeueKeepsPlace, Zenon DEF CpuStep
  <2> QED
    BY <2>2, <2>3, <2>4, <2>5, ClaimKeepsPlace, Zenon DEF Next
<1> QED
  BY <1>1, InitPlace, Invariance, PTL DEF Spec

-----------------------------------------------------------------------------
\* A set of naturals that is not empty has a least element.
LEMMA Least ==
  ASSUME NEW T \in SUBSET Nat, T # {}
  PROVE  \E m \in T : \A k \in T : m <= k
<1>1. PICK m \in T : \A k \in T : ~(<<k, m>> \in OpToRel(<, Nat))
  BY NatLessThanWellFounded, WFMin, Zenon
<1> SUFFICES ASSUME NEW k \in T PROVE m <= k
  BY <1>1, Zenon
<1>2. ~(<<k, m>> \in OpToRel(<, Nat))
  BY <1>1, Zenon
<1>3. k \in Nat /\ m \in Nat
  BY <1>1, Zenon
<1>4. ~(k < m)
  BY <1>2, <1>3, Zenon DEF OpToRel
<1> QED
  BY <1>3, <1>4

\* What Chain finds from the head of a queue is the queue, and then NULL.
LEMMA ChainIsQueue ==
  ASSUME NEW S, NEW p, IsQueue(S, p, next)
  PROVE  \A i \in Steps : Chain(p)[i] = IF i <= Len(S) THEN S[i] ELSE NULL
<1> DEFINE f == [i \in Steps |-> IF i <= Len(S) THEN S[i] ELSE NULL]
           Eq(g) == g = [i \in Steps |-> IF i = 1 THEN p ELSE IF g[i - 1] = NULL THEN NULL ELSE next[g[i - 1]]]
<1>1. Cardinality(Tasklets) \in Nat /\ Steps \subseteq Nat /\ \A i \in Steps : i # 1 => i - 1 \in Steps
  BY TaskletAssumption, FS_CardinalityType DEF Steps
<1>2. Len(S) \in Nat /\ \A i \in 1..Len(S) : S[i] \in Tasklets /\ S[i] # NULL
  BY TaskletAssumption DEF IsQueue
<1>3. Eq(f)
  <2> SUFFICES ASSUME NEW i \in Steps
               PROVE  f[i] = IF i = 1 THEN p ELSE IF f[i - 1] = NULL THEN NULL ELSE next[f[i - 1]]
    BY Zenon
  <2>1. CASE i = 1
    BY <2>1, <1>2 DEF IsQueue
  <2>2. CASE i # 1 /\ i - 1 <= Len(S)
    <3>1. i - 1 \in 1..Len(S) /\ f[i - 1] = S[i - 1]
      BY <2>2, <1>1, <1>2 DEF Steps
    <3>2. next[S[i - 1]] = IF i - 1 = Len(S) THEN NULL ELSE S[(i - 1) + 1]
      BY <3>1, Zenon DEF IsQueue
    <3> QED
      BY <2>2, <3>1, <3>2, <1>1, <1>2
  <2>3. CASE i # 1 /\ ~(i - 1 <= Len(S))
    BY <2>3, <1>1, <1>2
  <2> QED
    BY <2>1, <2>2, <2>3, Zenon
<1>4. Chain(p) = CHOOSE g : Eq(g)
  BY Zenon DEF Chain
<1> HIDE DEF f, Eq
<1>5. Eq(Chain(p))
  BY <1>3, <1>4, Zenon
<1>6. \A i \in Steps : Chain(p)[i] = IF i = 1 THEN p ELSE IF Chain(p)[i - 1] = NULL THEN NULL ELSE next[Chain(p)[i - 1]]
  BY <1>5, Zenon DEF Eq
<1>7. \A i \in Steps : f[i] = IF i = 1 THEN p ELSE IF f[i - 1] = NULL THEN NULL ELSE next[f[i - 1]]
  BY <1>3, Zenon DEF Eq
<1> DEFINE Bad == {i \in Steps : Chain(p)[i] # f[i]}
<1>8. ASSUME Bad # {} PROVE FALSE
  <2>1. PICK m \in Bad : \A k \in Bad : m <= k
    BY <1>1, <1>8, Least, Zenon
  <2>2. m # 1
    BY <2>1, <1>6, <1>7, Zenon
  <2>3. m - 1 \in Steps /\ m - 1 \notin Bad
    BY <2>1, <2>2, <1>1
  <2> QED
    BY <2>1, <2>2, <2>3, <1>6, <1>7
<1> QED
  BY <1>8, Zenon DEF f

\* A tasklet is at one position of a queue it is in, and a queue is short
\* enough for Chain to reach its end.
LEMMA ChainPositions ==
  ASSUME NEW S, NEW p, IsQueue(S, p, next), NEW t \in Tasklets
  PROVE  /\ t \in Elems(S) => \E i \in Steps : \A j \in Steps : Chain(p)[j] = t <=> j = i
         /\ t \notin Elems(S) => \A j \in Steps : Chain(p)[j] # t
<1>1. S \in [1..Len(S) -> Tasklets] /\ Len(S) \in Nat
  BY DEF IsQueue
<1>2. S \in Injection(1..Len(S), Tasklets)
  BY <1>1, Zenon DEF IsQueue, Injection, IsInjective
<1>3. Cardinality(1..Len(S)) <= Cardinality(Tasklets)
  BY <1>2, TaskletAssumption, FS_Injection, Zenon
<1>4. Cardinality(1..Len(S)) = Len(S)
  <2> DEFINE n == Len(S)
  <2>1. n \in Int /\ 1 \in Int /\ n >= 0
    BY <1>1
  <2> HIDE DEF n
  <2>2. Cardinality(1..n) = IF 1 > n THEN 0 ELSE n - 1 + 1
    BY <2>1, FS_Interval, Zenon
  <2> QED
    BY <2>1, <2>2 DEF n
<1>5. Cardinality(Tasklets) \in Nat
  BY TaskletAssumption, FS_CardinalityType, Zenon
<1>6. \A i \in 1..Len(S) : i \in Steps
  BY <1>1, <1>3, <1>4, <1>5 DEF Steps
<1>7. \A j \in Steps : Chain(p)[j] = t <=> j \in 1..Len(S) /\ S[j] = t
  BY <1>1, <1>5, ChainIsQueue, TaskletAssumption DEF Steps
<1> QED
  BY <1>6, <1>7 DEF Elems, IsQueue

\* Each of the four sets of places, with the place of t known.
LEMMA PlacesOf ==
  ASSUME TypeOK, NEW place, NEW vq, NEW lq, Placed(place, vq, lq), NEW t \in Tasklets
  PROVE  /\ place[t] = None => Places(t) = {}
         /\ place[t] # None => \E k : Places(t) = {k}
<1> DEFINE C == {k \in {"claim"} \X CPUs \X Vecs : <<k[2], k[3], t>> \in claim}
           V == {k \in {"vec"} \X CPUs \X Vecs \X Steps : Chain(head[k[2]][k[3]])[k[4]] = t}
           L == {k \in {"list"} \X CPUs \X Steps : Chain(list[k[2]])[k[3]] = t}
           U == {k \in {"cur"} \X CPUs : Waiting(k[2]) /\ cur[k[2]] = t}
<1>1. Places(t) = C \cup V \cup L \cup U
  BY Zenon DEF Places
<1>2. /\ \A c \in CPUs, v \in Vecs : place[t] = InClaim(c, v) => C = {<<"claim", c, v>>}
      /\ (\A c \in CPUs, v \in Vecs : place[t] # InClaim(c, v)) => C = {}
  <2>1. ASSUME NEW c \in CPUs, NEW v \in Vecs PROVE <<c, v, t>> \in claim <=> place[t] = InClaim(c, v)
    BY Zenon DEF Placed, ClaimPlaces
  <2>2. ASSUME NEW k \in {"claim"} \X CPUs \X Vecs
        PROVE  k = <<"claim", k[2], k[3]>> /\ k[2] \in CPUs /\ k[3] \in Vecs
    OBVIOUS
  <2>3. ASSUME NEW k \in C PROVE k = <<"claim", k[2], k[3]>> /\ k[2] \in CPUs /\ k[3] \in Vecs /\ place[t] = InClaim(k[2], k[3])
    BY <2>1, <2>2, Zenon
  <2>4. ASSUME NEW c \in CPUs, NEW v \in Vecs, place[t] = InClaim(c, v) PROVE C = {<<"claim", c, v>>}
    <3>1. <<"claim", c, v>> \in C
      BY <2>1, <2>4, Zenon
    <3>2. \A k \in C : k = <<"claim", c, v>>
      BY <2>3, <2>4, PlacesDiffer
    <3> HIDE DEF C
    <3> QED
      BY <3>1, <3>2, Zenon
  <2>5. ASSUME \A c \in CPUs, v \in Vecs : place[t] # InClaim(c, v) PROVE C = {}
    <3>1. \A k \in C : FALSE
      BY <2>3, <2>5, Zenon
    <3> HIDE DEF C
    <3> QED
      BY <3>1, Zenon
  <2> QED
    BY <2>4, <2>5, Zenon
<1>3. /\ \A c \in CPUs, v \in Vecs : place[t] = InVec(c, v) => \E k : V = {k}
      /\ (\A c \in CPUs, v \in Vecs : place[t] # InVec(c, v)) => V = {}
  <2>1. ASSUME NEW c \in CPUs, NEW v \in Vecs
        PROVE  /\ place[t] = InVec(c, v) => \E i \in Steps : \A j \in Steps : Chain(head[c][v])[j] = t <=> j = i
               /\ place[t] # InVec(c, v) => \A j \in Steps : Chain(head[c][v])[j] # t
    <3>1. IsQueue(vq[c][v], head[c][v], next) /\ (t \in Elems(vq[c][v]) <=> place[t] = InVec(c, v))
      BY Zenon DEF Placed, QueuesOK, QueuePlaces
    <3> QED
      BY <3>1, ChainPositions
  <2>2. ASSUME NEW k \in {"vec"} \X CPUs \X Vecs \X Steps
        PROVE  k = <<"vec", k[2], k[3], k[4]>> /\ k[2] \in CPUs /\ k[3] \in Vecs /\ k[4] \in Steps
    OBVIOUS
  <2>3. ASSUME NEW k \in V
        PROVE  /\ k = <<"vec", k[2], k[3], k[4]>> /\ k[2] \in CPUs /\ k[3] \in Vecs /\ k[4] \in Steps
               /\ Chain(head[k[2]][k[3]])[k[4]] = t /\ place[t] = InVec(k[2], k[3])
    BY <2>1, <2>2, Zenon
  <2>4. ASSUME NEW c \in CPUs, NEW v \in Vecs, place[t] = InVec(c, v) PROVE \E k : V = {k}
    <3>1. PICK i \in Steps : \A j \in Steps : Chain(head[c][v])[j] = t <=> j = i
      BY <2>1, <2>4, Zenon
    <3>2. <<"vec", c, v, i>> \in V
      BY <3>1, Zenon
    <3>3. ASSUME NEW k \in V PROVE k = <<"vec", c, v, i>>
      <4>1. k[2] = c /\ k[3] = v
        BY <2>3, <2>4, PlacesDiffer
      <4> QED
        BY <4>1, <2>3, <3>1
    <3> HIDE DEF V
    <3>4. V = {<<"vec", c, v, i>>}
      BY <3>2, <3>3, Zenon
    <3> QED
      BY <3>4, Zenon
  <2>5. ASSUME \A c \in CPUs, v \in Vecs : place[t] # InVec(c, v) PROVE V = {}
    <3>1. \A k \in V : FALSE
      BY <2>3, <2>5, Zenon
    <3> HIDE DEF V
    <3> QED
      BY <3>1, Zenon
  <2> HIDE DEF V
  <2> QED
    BY <2>4, <2>5, Zenon
<1>4. /\ \A c \in CPUs : place[t] = InList(c) => \E k : L = {k}
      /\ (\A c \in CPUs : place[t] # InList(c)) => L = {}
  <2>1. ASSUME NEW c \in CPUs
        PROVE  /\ place[t] = InList(c) => \E i \in Steps : \A j \in Steps : Chain(list[c])[j] = t <=> j = i
               /\ place[t] # InList(c) => \A j \in Steps : Chain(list[c])[j] # t
    <3>1. IsQueue(lq[c], list[c], next) /\ (t \in Elems(lq[c]) <=> place[t] = InList(c))
      BY Zenon DEF Placed, QueuesOK, QueuePlaces
    <3> QED
      BY <3>1, ChainPositions
  <2>2. ASSUME NEW k \in {"list"} \X CPUs \X Steps
        PROVE  k = <<"list", k[2], k[3]>> /\ k[2] \in CPUs /\ k[3] \in Steps
    OBVIOUS
  <2>3. ASSUME NEW k \in L
        PROVE  /\ k = <<"list", k[2], k[3]>> /\ k[2] \in CPUs /\ k[3] \in Steps
               /\ Chain(list[k[2]])[k[3]] = t /\ place[t] = InList(k[2])
    BY <2>1, <2>2, Zenon
  <2>4. ASSUME NEW c \in CPUs, place[t] = InList(c) PROVE \E k : L = {k}
    <3>1. PICK i \in Steps : \A j \in Steps : Chain(list[c])[j] = t <=> j = i
      BY <2>1, <2>4, Zenon
    <3>2. <<"list", c, i>> \in L
      BY <3>1, Zenon
    <3>3. ASSUME NEW k \in L PROVE k = <<"list", c, i>>
      <4>1. k[2] = c
        BY <2>3, <2>4, PlacesDiffer
      <4> QED
        BY <4>1, <2>3, <3>1, Zenon
    <3> HIDE DEF L
    <3>4. L = {<<"list", c, i>>}
      BY <3>2, <3>3, Zenon
    <3> QED
      BY <3>4, Zenon
  <2>5. ASSUME \A c \in CPUs : place[t] # InList(c) PROVE L = {}
    <3>1. \A k \in L : FALSE
      BY <2>3, <2>5, Zenon
    <3> HIDE DEF L
    <3> QED
      BY <3>1, Zenon
  <2> HIDE DEF L
  <2> QED
    BY <2>4, <2>5, Zenon
<1>5. /\ \A c \in CPUs : place[t] = InCur(c) => U = {<<"cur", c>>}
      /\ (\A c \in CPUs : place[t] # InCur(c)) => U = {}
  <2>1. ASSUME NEW c \in CPUs PROVE (Waiting(c) /\ cur[c] = t) <=> place[t] = InCur(c)
    BY Zenon DEF Placed, CurPlaces, WaitPoints, Waiting
  <2>2. ASSUME NEW k \in U PROVE k = <<"cur", k[2]>> /\ k[2] \in CPUs /\ place[t] = InCur(k[2])
    BY <2>1
  <2>3. ASSUME NEW c \in CPUs, place[t] = InCur(c) PROVE U = {<<"cur", c>>}
    <3>1. <<"cur", c>> \in U
      BY <2>1, <2>3, Zenon
    <3>2. \A k \in U : k = <<"cur", c>>
      BY <2>2, <2>3, PlacesDiffer
    <3> HIDE DEF U
    <3> QED
      BY <3>1, <3>2, Zenon
  <2>4. ASSUME \A c \in CPUs : place[t] # InCur(c) PROVE U = {}
    <3>1. \A k \in U : FALSE
      BY <2>2, <2>4, Zenon
    <3> HIDE DEF U
    <3> QED
      BY <3>1, Zenon
  <2> HIDE DEF U
  <2> QED
    BY <2>3, <2>4, Zenon
<1> HIDE DEF C, V, L, U
<1>6. Known(place[t])
  BY Zenon DEF Placed, SchedPlaces
<1>7. CASE place[t] = None
  BY <1>1, <1>2, <1>3, <1>4, <1>5, <1>7, PlacesDiffer
<1>8. ASSUME NEW c \in CPUs, NEW v \in Vecs, place[t] = InClaim(c, v) PROVE \E k : Places(t) = {k}
  <2>1. C = {<<"claim", c, v>>} /\ V = {} /\ L = {} /\ U = {}
    BY <1>2, <1>3, <1>4, <1>5, <1>8, PlacesDiffer
  <2> QED
    BY <1>1, <2>1, Zenon
<1>9. ASSUME NEW c \in CPUs, NEW v \in Vecs, place[t] = InVec(c, v) PROVE \E k : Places(t) = {k}
  <2>1. C = {} /\ L = {} /\ U = {}
    BY <1>2, <1>4, <1>5, <1>9, PlacesDiffer
  <2>2. \E k : V = {k}
    BY <1>3, <1>9, Zenon
  <2> QED
    BY <1>1, <2>1, <2>2, Zenon
<1>10. ASSUME NEW c \in CPUs, place[t] = InList(c) PROVE \E k : Places(t) = {k}
  <2>1. C = {} /\ V = {} /\ U = {}
    BY <1>2, <1>3, <1>5, <1>10, PlacesDiffer
  <2>2. \E k : L = {k}
    BY <1>4, <1>10, Zenon
  <2> QED
    BY <1>1, <2>1, <2>2, Zenon
<1>11. ASSUME NEW c \in CPUs, place[t] = InCur(c) PROVE \E k : Places(t) = {k}
  <2>1. C = {} /\ V = {} /\ L = {} /\ U = {<<"cur", c>>}
    BY <1>2, <1>3, <1>4, <1>5, <1>11, PlacesDiffer
  <2> QED
    BY <1>1, <2>1, Zenon
<1> QED
  BY <1>6, <1>7, <1>8, <1>9, <1>10, <1>11, Zenon DEF Known

\* TASKLET_STATE_SCHED is set exactly while the tasklet waits in one place, a
\* disabled tasklet does not run, and every variable keeps its type, for any
\* CPUs and tasklets, as long as tasklet_hi_schedule_first is called for
\* vectors in use only.
THEOREM ScheduledInOnePlace == ASSUME ~FirstOnEmpty PROVE Spec => []TaskletSafe
<1>1. IInv /\ PlaceInv => TaskletSafe
  <2> SUFFICES ASSUME IInv, PlaceInv PROVE TaskletSafe
    BY Zenon
  <2>1. PICK place, vq, lq : Placed(place, vq, lq)
    BY Zenon DEF PlaceInv
  <2>2. ScheduledOnce
    <3> SUFFICES ASSUME NEW t \in Tasklets
                 PROVE  IF t \in sched THEN \E k \in Places(t) : Places(t) = {k} ELSE Places(t) = {}
      BY Zenon DEF ScheduledOnce
    <3>1. t \in sched <=> place[t] # None
      BY <2>1, Zenon DEF Placed, SchedPlaces
    <3>2. TypeOK
      BY Zenon DEF IInv
    <3> QED
      BY <2>1, <3>1, <3>2, PlacesOf, Zenon
  <2>3. TypeOK /\ DisabledNotRunning
    BY Zenon DEF IInv, CountOK, PastCount, DisabledNotRunning
  <2> QED
    BY <2>2, <2>3, Zenon DEF TaskletSafe
<1> QED
  BY <1>1, Invariance, PlaceInvariance, PTL
=============================================================================
