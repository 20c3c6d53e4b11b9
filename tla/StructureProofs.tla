-------------------------- MODULE StructureProofs --------------------------
(***************************************************************************)
(* The kernel's data structures, for every size: the doubly linked ready   *)
(* queue, the page bitmap with its counter, and the kernel heap.           *)
(***************************************************************************)
EXTENDS Pmm, ReadyQueue, Kmalloc, FiniteSetTheorems, WellFoundedInduction, TLAPS

(* The ready queue. *)

Distinct == \A i, j \in 1 .. Len(order) : order[i] = order[j] => i = j

QueueInv == QueueTypeOK /\ Distinct /\ Linked /\ NoStaleLinks

(* r is s, a sequence without repetitions, with its i-th element left out.  *)
IsWithout(s, i, r) ==
  /\ r \in Seq(Procs)
  /\ Len(r) = Len(s) - 1
  /\ \A j \in 1 .. Len(r) : r[j] = IF j < i THEN s[j] ELSE s[j + 1]
  /\ \A k, l \in 1 .. Len(r) : r[k] = r[l] => k = l
  /\ \A j \in 1 .. Len(r) : r[j] # s[i]
  /\ \A k \in 1 .. Len(s) : k # i => \E j \in 1 .. Len(r) : r[j] = s[k]

LEMMA WithoutFacts ==
  ASSUME NEW s \in Seq(Procs), NEW i \in 1 .. Len(s),
         \A k, l \in 1 .. Len(s) : s[k] = s[l] => k = l
  PROVE  IsWithout(s, i, Without(s, i))
<1> DEFINE r == Without(s, i)
           n == Len(s) - 1
<1>1. Len(s) \in Nat /\ n \in Nat /\ Len(s) = n + 1
  OBVIOUS
<1>2. r = [j \in 1 .. n |-> IF j < i THEN s[j] ELSE s[j + 1]]
  BY Zenon DEF Without
<1> HIDE DEF n, r
<1>3. \A j \in 1 .. n : (IF j < i THEN s[j] ELSE s[j + 1]) \in Procs
  BY <1>1
<1>4. r \in Seq(Procs) /\ Len(r) = n
  BY <1>1, <1>2, <1>3
<1>5. \A j \in 1 .. n : r[j] = IF j < i THEN s[j] ELSE s[j + 1]
  BY <1>2, Zenon
<1>6. \A k, l \in 1 .. n : r[k] = r[l] => k = l
  BY <1>1, <1>5
<1>7. \A j \in 1 .. n : r[j] # s[i]
  BY <1>1, <1>5
<1>8. ASSUME NEW k \in 1 .. Len(s), k # i
      PROVE  \E j \in 1 .. n : r[j] = s[k]
  <2>1. CASE k < i
    BY <1>1, <1>5, <2>1
  <2>2. CASE k > i
    <3>1. k - 1 \in 1 .. n /\ ~(k - 1 < i) /\ (k - 1) + 1 = k
      BY <1>1, <1>8, <2>2
    <3> QED BY <3>1, <1>5, Zenon
  <2> QED BY <1>1, <1>8, <2>1, <2>2
<1> QED BY <1>1, <1>4, <1>5, <1>6, <1>7, <1>8, Zenon DEF IsWithout, n, r

LEMMA InitQueueInv ==
  ASSUME InitQueue
  PROVE  QueueInv
BY DEF InitQueue, QueueInv, QueueTypeOK, Distinct, Linked, NoStaleLinks, Queued, Pointers

(* ready_queue_push of a process that is not queued. *)
LEMMA PushQueueInv ==
  ASSUME QueueInv, NEW p \in Procs, Push(p)
  PROVE  QueueInv'
<1> DEFINE n == Len(order)
<1>1. /\ order \in Seq(Procs) /\ n \in Nat
      /\ \A i \in 1 .. n : order[i] \in Procs /\ order[i] # p
  BY DEF QueueInv, QueueTypeOK, Push, Queued
<1>2. /\ order' \in Seq(Procs) /\ Len(order') = n + 1
      /\ \A i \in 1 .. n : order'[i] = order[i]
      /\ order'[n + 1] = p
  BY <1>1 DEF Push
<1>3. tail = (IF n = 0 THEN NULL ELSE order[n]) /\ (order = <<>> <=> n = 0)
  BY <1>1 DEF QueueInv, Linked
<1>4. tail # NULL <=> n # 0
  BY <1>1, <1>3, NullAssumption
<1>5. /\ prev' = [prev EXCEPT ![p] = tail]
      /\ next' = IF tail # NULL THEN [next EXCEPT ![p] = NULL, ![tail] = p]
                                ELSE [next EXCEPT ![p] = NULL]
      /\ head' = IF tail # NULL THEN head ELSE p
      /\ tail' = p
  BY Zenon DEF Push, ready_queue_push
<1>6. QueueTypeOK'
  BY <1>2, <1>5, Zenon DEF QueueInv, QueueTypeOK, Pointers
<1>7. next \in [Procs -> Pointers] /\ prev \in [Procs -> Pointers]
  BY Zenon DEF QueueInv, QueueTypeOK
<1> HIDE DEF n
<1>8. Distinct'
  BY <1>1, <1>2 DEF QueueInv, Distinct, n
<1>9. Linked'
  <2>1. head' = order'[1] /\ tail' = order'[n + 1] /\ order' # <<>>
    <3>1. n # 0 => order'[1] = order[1] /\ head = order[1]
      BY <1>1, <1>2, <1>3 DEF QueueInv, Linked
    <3>2. order' # <<>>
      BY <1>1, <1>2
    <3> QED BY <3>1, <3>2, <1>1, <1>2, <1>4, <1>5
  <2>2. ASSUME NEW i \in 1 .. n + 1
        PROVE  /\ next'[order'[i]] = IF i = n + 1 THEN NULL ELSE order'[i + 1]
               /\ prev'[order'[i]] = IF i = 1 THEN NULL ELSE order'[i - 1]
    <3>1. CASE i = n + 1
      <4>1. order'[i] = p /\ next'[p] = NULL /\ prev'[p] = tail
        <5>1. tail # p
          BY <1>1, <1>3, NullAssumption
        <5> QED BY <5>1, <3>1, <1>2, <1>5, <1>7, Zenon
      <4>2. tail = IF i = 1 THEN NULL ELSE order'[i - 1]
        BY <3>1, <1>1, <1>2, <1>3
      <4> QED BY <3>1, <4>1, <4>2, Zenon
    <3>2. CASE i \in 1 .. n
      <4>1. /\ order'[i] = order[i] /\ order[i] \in Procs /\ order[i] # p
            /\ tail = order[n] /\ tail # NULL
        BY <3>2, <1>1, <1>2, <1>3, <1>4
      <4>2. prev'[order[i]] = prev[order[i]]
        BY <4>1, <1>5, <1>7, Zenon
      <4>3. i # n => order[i] # tail /\ next'[order[i]] = next[order[i]]
        BY <4>1, <3>2, <1>1, <1>5, <1>7 DEF QueueInv, Distinct, n
      <4>4. i = n => next'[order[i]] = p
        BY <4>1, <1>5, <1>7, Zenon
      <4>5. /\ next[order[i]] = IF i = n THEN NULL ELSE order[i + 1]
            /\ prev[order[i]] = IF i = 1 THEN NULL ELSE order[i - 1]
        BY <3>2, Zenon DEF QueueInv, Linked, n
      <4>6. /\ i # n => order'[i + 1] = order[i + 1]
            /\ i # 1 => order'[i - 1] = order[i - 1]
            /\ i # n + 1
        <5>1. (i # n => i + 1 \in 1 .. n) /\ (i # 1 => i - 1 \in 1 .. n) /\ i # n + 1
          BY <3>2, <1>1
        <5> QED BY <5>1, <1>2, Zenon
      <4> QED BY <4>1, <4>2, <4>3, <4>4, <4>5, <4>6, <1>2, Zenon
    <3> QED BY <1>1, <3>1, <3>2
  <2> QED BY <2>1, <2>2, <1>2, Zenon DEF Linked
<1>10. NoStaleLinks'
  <2> SUFFICES ASSUME NEW q \in Procs, ~ Queued(q)'
               PROVE  next'[q] = NULL /\ prev'[q] = NULL
    BY Zenon DEF NoStaleLinks
  <2>1. q # p /\ ~ Queued(q)
    BY <1>1, <1>2 DEF Queued, n
  <2>2. tail # NULL => q # tail
    BY <2>1, <1>1, <1>3, <1>4 DEF Queued, n
  <2> QED BY <2>1, <2>2, <1>5, <1>7, Zenon DEF QueueInv, NoStaleLinks
<1> QED BY <1>6, <1>8, <1>9, <1>10, Zenon DEF QueueInv

(* ready_queue_remove of the i-th process, from the head, the middle or the *)
(* tail.                                                                    *)
LEMMA RemoveQueueInv ==
  ASSUME QueueInv, NEW i \in 1 .. Len(order), ready_queue_remove(order[i]),
         order' = Without(order, i)
  PROVE  QueueInv'
<1> DEFINE n == Len(order)
           p == order[i]
           b == IF i = 1 THEN NULL ELSE order[i - 1]
           f == IF i = n THEN NULL ELSE order[i + 1]
<1>1. /\ order \in Seq(Procs) /\ n \in Nat /\ n # 0
      /\ \A j \in 1 .. n : order[j] \in Procs /\ order[j] # NULL
      /\ i \in 1 .. n /\ p \in Procs
  BY NullAssumption DEF QueueInv, QueueTypeOK
<1>2. /\ order' \in Seq(Procs)
      /\ Len(order') = n - 1
      /\ \A j \in 1 .. n - 1 :
           order'[j] = IF j < i THEN order[j] ELSE order[j + 1]
      /\ Distinct'
      /\ \A j \in 1 .. n - 1 : order'[j] # p
      /\ \A k \in 1 .. n : k # i => \E j \in 1 .. n - 1 : order'[j] = order[k]
  <2>1. \A k, l \in 1 .. Len(order) : order[k] = order[l] => k = l
    BY Zenon DEF QueueInv, Distinct
  <2>2. IsWithout(order, i, order')
    BY <2>1, <1>1, WithoutFacts, Zenon
  <2> QED BY <2>2, Zenon DEF IsWithout, Distinct
<1>3. next[p] = f /\ prev[p] = b
  BY Zenon DEF QueueInv, Linked
<1>4. /\ next' = IF b # NULL THEN [next EXCEPT ![b] = f, ![p] = NULL]
                             ELSE [next EXCEPT ![p] = NULL]
      /\ head' = IF b # NULL THEN head ELSE f
      /\ prev' = IF f # NULL THEN [prev EXCEPT ![f] = b, ![p] = NULL]
                             ELSE [prev EXCEPT ![p] = NULL]
      /\ tail' = IF f # NULL THEN tail ELSE b
  BY <1>3, Zenon DEF ready_queue_remove
<1>5. /\ b \in Pointers /\ f \in Pointers
      /\ b # NULL <=> i # 1
      /\ f # NULL <=> i # n
      /\ i # 1 => i - 1 \in 1 .. n
      /\ i # n => i + 1 \in 1 .. n
  BY <1>1 DEF Pointers
<1>6. next \in [Procs -> Pointers] /\ prev \in [Procs -> Pointers]
  BY Zenon DEF QueueInv, QueueTypeOK
<1>7. \A j \in 1 .. n :
        /\ next[order[j]] = IF j = n THEN NULL ELSE order[j + 1]
        /\ prev[order[j]] = IF j = 1 THEN NULL ELSE order[j - 1]
  BY Zenon DEF QueueInv, Linked
<1>8. \A j, k \in 1 .. n : order[j] = order[k] => j = k
  BY Zenon DEF QueueInv, Distinct
<1>9. head = order[1] /\ tail = order[n]
  BY <1>1 DEF QueueInv, Linked
<1>10. QueueTypeOK'
  BY <1>1, <1>2, <1>4, <1>5, <1>6, <1>9, Zenon DEF QueueInv, QueueTypeOK, Pointers
<1>11. \A q \in Procs : q # p =>
         /\ next'[q] = IF i # 1 /\ q = order[i - 1] THEN f ELSE next[q]
         /\ prev'[q] = IF i # n /\ q = order[i + 1] THEN b ELSE prev[q]
  <2>1. \A q \in Procs : q # p =>
          /\ next'[q] = IF b # NULL /\ q = b THEN f ELSE next[q]
          /\ prev'[q] = IF f # NULL /\ q = f THEN b ELSE prev[q]
    <3> HIDE DEF b, f, p
    <3> QED BY <1>4, <1>6, Zenon
  <2> QED BY <2>1, <1>5, Zenon
<1>12. Linked'
  <2>1. /\ head' = IF order' = <<>> THEN NULL ELSE order'[1]
        /\ tail' = IF order' = <<>> THEN NULL ELSE order'[n - 1]
    <3>1. order' = <<>> <=> n = 1
      BY <1>1, <1>2
    <3>2. head' = IF i = 1 THEN f ELSE order[1]
      BY <1>4, <1>5, <1>9, Zenon
    <3>3. tail' = IF i = n THEN b ELSE order[n]
      BY <1>4, <1>5, <1>9, Zenon
    <3>4. CASE n = 1
      BY <3>1, <3>2, <3>3, <3>4, <1>1
    <3>5. CASE n # 1
      <4>1. 1 \in 1 .. n - 1 /\ n - 1 \in 1 .. n - 1 /\ (n - 1) + 1 = n
        <5> HIDE DEF n
        <5> QED BY <1>1, <3>5
      <4>2. /\ order'[1] = IF 1 < i THEN order[1] ELSE order[2]
            /\ order'[n - 1] = IF n - 1 < i THEN order[n - 1] ELSE order[n]
        BY <4>1, <1>2
      <4>3. head' = order'[1]
        <5>1. i = 1 => f = order[2]
          BY <3>5, <1>1
        <5>2. i # 1 => 1 < i
          BY <1>1
        <5> HIDE DEF f
        <5> QED BY <5>1, <5>2, <4>2, <3>2
      <4>4. tail' = order'[n - 1]
        <5>1. i = n => b = order[n - 1]
          BY <3>5, <1>1, Zenon
        <5>2. n - 1 < i <=> i = n
          BY <1>1
        <5> HIDE DEF b
        <5> QED BY <5>1, <5>2, <4>2, <3>3, Zenon
      <4> QED BY <3>1, <3>5, <4>3, <4>4, Zenon
    <3> QED BY <3>4, <3>5, Zenon
  <2>2. ASSUME NEW j \in 1 .. n - 1
        PROVE  /\ next'[order'[j]] = IF j = n - 1 THEN NULL ELSE order'[j + 1]
               /\ prev'[order'[j]] = IF j = 1 THEN NULL ELSE order'[j - 1]
    <3> DEFINE k == IF j < i THEN j ELSE j + 1
    <3>1. k \in 1 .. n /\ order'[j] = order[k] /\ order[k] \in Procs
          /\ order[k] # p /\ k # i
      BY <1>1, <1>2
    <3>2. i # 1 => (order[k] = order[i - 1] <=> k = i - 1)
      BY <3>1, <1>5, <1>8, Zenon
    <3>3. i # n => (order[k] = order[i + 1] <=> k = i + 1)
      BY <3>1, <1>5, <1>8, Zenon
    <3>4. next'[order[k]] = IF k = i - 1 THEN f
                            ELSE IF k = n THEN NULL ELSE order[k + 1]
      <4>1. i = 1 => k # i - 1
        BY <3>1, <1>1
      <4> HIDE DEF k, f
      <4>2. next[order[k]] = IF k = n THEN NULL ELSE order[k + 1]
        BY <3>1, <1>7, Zenon
      <4>3. next'[order[k]] = IF i # 1 /\ order[k] = order[i - 1] THEN f ELSE next[order[k]]
        BY <3>1, <1>11, Zenon
      <4> QED BY <3>2, <4>1, <4>2, <4>3, Zenon
    <3>5. prev'[order[k]] = IF k = i + 1 THEN b
                            ELSE IF k = 1 THEN NULL ELSE order[k - 1]
      <4>1. i = n => k # i + 1
        BY <3>1, <1>1
      <4> HIDE DEF k, b
      <4>2. prev[order[k]] = IF k = 1 THEN NULL ELSE order[k - 1]
        BY <3>1, <1>7, Zenon
      <4>3. prev'[order[k]] = IF i # n /\ order[k] = order[i + 1] THEN b ELSE prev[order[k]]
        BY <3>1, <1>11, Zenon
      <4> QED BY <3>3, <4>1, <4>2, <4>3, Zenon
    <3>6. /\ j # n - 1 => order'[j + 1] = IF j + 1 < i THEN order[j + 1]
                                                      ELSE order[j + 2]
          /\ j # 1 => order'[j - 1] = IF j - 1 < i THEN order[j - 1]
                                                  ELSE order[j]
      <4>1. j # n - 1 => j + 1 \in 1 .. n - 1 /\ (j + 1) + 1 = j + 2
        BY <1>1
      <4>2. j # 1 => j - 1 \in 1 .. n - 1 /\ (j - 1) + 1 = j
        BY <1>1
      <4> QED BY <4>1, <4>2, <1>2, Zenon
    <3>7. next'[order[k]] = IF j = n - 1 THEN NULL ELSE order'[j + 1]
      <4>0. n \in Nat /\ i \in 1 .. n /\ j \in 1 .. n - 1
        BY <1>1, Zenon
      <4>1. CASE j = i - 1
        <5>1. k = i - 1 /\ ~ (j + 1 < i) /\ j + 2 = i + 1 /\ (j = n - 1 <=> i = n)
          BY ONLY <4>0, <4>1
        <5> HIDE DEF k
        <5> QED BY <3>4, <3>6, <5>1, Zenon
      <4>2. CASE j < i - 1
        <5>1. k = j /\ k # i - 1 /\ k # n /\ j # n - 1 /\ j + 1 < i
          BY ONLY <4>0, <4>2
        <5> HIDE DEF k, f
        <5> QED BY <3>4, <3>6, <5>1, Zenon
      <4>3. CASE j >= i
        <5>1. k # i - 1 /\ (k = n <=> j = n - 1) /\ ~ (j + 1 < i) /\ k + 1 = j + 2
          BY ONLY <4>0, <4>3
        <5> HIDE DEF k, f
        <5> QED BY <3>4, <3>6, <5>1, Zenon
      <4>4. j = i - 1 \/ j < i - 1 \/ j >= i
        BY ONLY <4>0
      <4> QED BY <4>1, <4>2, <4>3, <4>4, Zenon
    <3>8. prev'[order[k]] = IF j = 1 THEN NULL ELSE order'[j - 1]
      BY <3>1, <3>5, <3>6, <1>1
    <3> QED BY <3>1, <3>7, <3>8, Zenon
  <2> QED BY <2>1, <2>2, <1>2 DEF Linked
<1>13. NoStaleLinks'
  <2> SUFFICES ASSUME NEW q \in Procs, ~ Queued(q)'
               PROVE  next'[q] = NULL /\ prev'[q] = NULL
    BY Zenon DEF NoStaleLinks
  <2>1. CASE q = p
    <3> HIDE DEF b, f, p
    <3>1. (b # NULL => b \in Procs) /\ (f # NULL => f \in Procs)
      BY <1>5, Zenon DEF Pointers
    <3> QED BY <2>1, <3>1, <1>4, <1>6, Zenon
  <2>2. CASE q # p
    <3>1. \A k \in 1 .. n : order[k] # q
      BY <2>2, <1>1, <1>2, Zenon DEF Queued
    <3>2. next[q] = NULL /\ prev[q] = NULL
      BY <3>1, Zenon DEF QueueInv, NoStaleLinks, Queued
    <3> QED BY <2>2, <3>1, <3>2, <1>5, <1>11, Zenon
  <2> QED BY <2>1, <2>2, Zenon
<1> QED BY <1>2, <1>10, <1>12, <1>13, Zenon DEF QueueInv

(* The pointers of the ready queue represent the queue, and PCBs outside it *)
(* keep no link, for any number of processes and any sequence of pushes,    *)
(* pops and removals.                                                       *)
LEMMA QueueInvariant == SpecQueue => []QueueInv
<1>1. InitQueue => QueueInv
  BY InitQueueInv, Zenon
<1>2. QueueInv /\ [NextQueue]_queueVars => QueueInv'
  <2> SUFFICES ASSUME QueueInv, [NextQueue]_queueVars
               PROVE  QueueInv'
    BY Zenon
  <2>1. ASSUME NEW p \in Procs, Push(p)
        PROVE  QueueInv'
    BY <2>1, PushQueueInv, Zenon
  <2>2. ASSUME NEW p \in Procs, Destroy(p)
        PROVE  QueueInv'
    BY <2>2, RemoveQueueInv, Zenon DEF Destroy
  <2>3. CASE ready_queue_pop
    <3>1. order # <<>> /\ head = order[1] /\ order \in Seq(Procs)
      BY <2>3, Zenon DEF ready_queue_pop, QueueInv, Linked, QueueTypeOK
    <3>2. 1 \in 1 .. Len(order)
      BY <3>1
    <3> QED BY <2>3, <3>1, <3>2, RemoveQueueInv, Zenon DEF ready_queue_pop
  <2>4. CASE UNCHANGED queueVars
    BY <2>4, Zenon DEF QueueInv, QueueTypeOK, Distinct, Linked, NoStaleLinks, Queued, queueVars
  <2> QED BY <2>1, <2>2, <2>3, <2>4, Zenon DEF NextQueue
<1> QED BY <1>1, <1>2, PTL DEF SpecQueue

(* head, tail, next and prev represent the processes in the order in which  *)
(* they were pushed.                                                        *)
THEOREM ListCorrect == SpecQueue => []Linked
<1>1. QueueInv => Linked
  BY Zenon DEF QueueInv
<1> QED BY <1>1, QueueInvariant, PTL

(* ready_queue_remove and ready_queue_pop clear the links of what they take *)
(* out: a PCB outside the queue points nowhere.                             *)
THEOREM RemovedPcbsUnlinked == SpecQueue => []NoStaleLinks
<1>1. QueueInv => NoStaleLinks
  BY Zenon DEF QueueInv
<1> QED BY <1>1, QueueInvariant, PTL

-----------------------------------------------------------------------------
(* The page bitmap. *)

PmmInv == TypeOK /\ CounterExact /\ OutsideStaysUsed

(* A set of pages is finite, and giving away or taking back a run of n     *)
(* pages changes its size by n.                                            *)
LEMMA PagesFinite ==
  ASSUME NEW S \in SUBSET AllPages
  PROVE  IsFiniteSet(S) /\ Cardinality(S) \in Nat
<1>1. IsFiniteSet(AllPages)
  BY FS_Interval, PagesAssumption DEF AllPages
<1> QED BY <1>1, FS_Subset, FS_CardinalityType, Zenon

LEMMA RunSize ==
  ASSUME NEW start \in Nat, NEW n \in Nat
  PROVE  IsFiniteSet(Run(start, n)) /\ Cardinality(Run(start, n)) = n
<1>1. IsFiniteSet(start .. start + n - 1)
      /\ Cardinality(start .. start + n - 1) =
           IF start > start + n - 1 THEN 0 ELSE (start + n - 1) - start + 1
  BY FS_Interval
<1> QED BY <1>1 DEF Run

LEMMA TakeRun ==
  ASSUME NEW u \in SUBSET AllPages, NEW start \in Nat, NEW n \in Nat,
         Run(start, n) \subseteq FreePages(u)
  PROVE  /\ Cardinality(FreePages(u \cup Run(start, n))) =
              Cardinality(FreePages(u)) - n
         /\ Cardinality(FreePages(u)) >= n
<1>1. FreePages(u \cup Run(start, n)) = FreePages(u) \ Run(start, n)
  BY Zenon DEF FreePages
<1>2. FreePages(u) \cap Run(start, n) = Run(start, n)
  BY Zenon
<1>3. FreePages(u) \in SUBSET AllPages
  BY Zenon DEF FreePages
<1>4. IsFiniteSet(FreePages(u))
  BY <1>3, PagesFinite, Zenon
<1>5. Cardinality(Run(start, n)) <= Cardinality(FreePages(u))
  BY <1>4, FS_Subset, Zenon
<1>6. Cardinality(FreePages(u) \ Run(start, n)) =
        Cardinality(FreePages(u)) - Cardinality(FreePages(u) \cap Run(start, n))
  BY <1>4, FS_Difference, Zenon
<1> QED BY <1>1, <1>2, <1>3, <1>5, <1>6, RunSize, PagesFinite, Zenon

LEMMA GiveRun ==
  ASSUME NEW u \in SUBSET AllPages, NEW start \in Nat, NEW n \in Nat,
         Run(start, n) \subseteq u
  PROVE  Cardinality(FreePages(u \ Run(start, n))) = Cardinality(FreePages(u)) + n
<1> DEFINE R == Run(start, n)
<1>1. R \subseteq AllPages /\ u \ R \in SUBSET AllPages
  BY Zenon
<1>2. R \subseteq FreePages(u \ R)
  BY <1>1, Zenon DEF FreePages
<1>3. (u \ R) \cup R = u
  BY Zenon
<1>4. /\ Cardinality(FreePages(u)) = Cardinality(FreePages(u \ R)) - n
  BY <1>1, <1>2, <1>3, TakeRun, Zenon
<1>5. FreePages(u \ R) \in SUBSET AllPages /\ FreePages(u) \in SUBSET AllPages
  BY Zenon DEF FreePages
<1>6. Cardinality(FreePages(u \ R)) \in Nat /\ Cardinality(FreePages(u)) \in Nat
  BY <1>5, PagesFinite, Zenon
<1> QED BY <1>4, <1>6

LEMMA OnePage ==
  ASSUME NEW p \in Nat
  PROVE  Run(p, 1) = {p}
BY DEF Run

LEMMA InitPmmInv ==
  ASSUME Init
  PROVE  PmmInv
<1>1. FreePages(used) = Managed
  BY PagesAssumption DEF Init, InitialBitmap, FreePages, AllPages, Managed
<1>2. Cardinality(Managed) = TotalPages - FirstPage
  <2>1. Cardinality(FirstPage .. TotalPages - 1) =
          IF FirstPage > TotalPages - 1 THEN 0 ELSE (TotalPages - 1) - FirstPage + 1
    BY FS_Interval, PagesAssumption
  <2> QED BY <2>1, PagesAssumption DEF Managed
<1>3. TypeOK
  <2>1. 0 \in AllPages /\ TotalPages - FirstPage \in Nat
    BY PagesAssumption DEF AllPages
  <2>2. last \in [n : Nat, start : AllPages]
    BY <2>1, Zenon DEF Init, NoPage
  <2> QED BY <2>1, <2>2, Zenon DEF Init, TypeOK, InitialBitmap
<1> QED BY <1>1, <1>2, <1>3
       , Zenon DEF PmmInv, Init, CounterExact, OutsideStaysUsed, InitialBitmap

(* What is free is managed, so it can be handed out. *)
LEMMA FreeIsManaged ==
  ASSUME PmmInv
  PROVE  FreePages(used) \subseteq Managed
BY Zenon DEF PmmInv, OutsideStaysUsed, FreePages

LEMMA FitsIsFree ==
  ASSUME PmmInv, NEW start \in AllPages, NEW n \in Nat \ {0}, Fits(start, n)
  PROVE  /\ Run(start, n) \subseteq Managed
         /\ Run(start, n) \subseteq FreePages(used)
BY PagesAssumption DEF Fits, Run, Managed, AllPages, FreePages

LEMMA FreeableRun ==
  ASSUME PmmInv, NEW p \in AllPages, NEW k \in Nat,
         \A q \in Run(p, k) : Freeable(q)
  PROVE  Run(p, k) \subseteq used /\ Run(p, k) \subseteq Managed
BY PagesAssumption DEF Freeable, Run, AllPages, Managed

LEMMA NextPmmInv ==
  ASSUME PmmInv, [Next]_vars
  PROVE  PmmInv'
<1> USE PagesAssumption, CountAssumption
<1>1. used \in SUBSET AllPages /\ free \in Nat /\ free = Cardinality(FreePages(used))
  BY Zenon DEF PmmInv, TypeOK, CounterExact
<1>2. CASE pmm_alloc_page
  <2>1. PICK p \in AllPages :
          bitmap_find_free(used, p) /\ used' = used \cup {p} /\ last' = [n |-> 1, start |-> p]
    BY <1>2, Zenon DEF pmm_alloc_page
  <2>2. p \in Nat /\ Run(p, 1) = {p} /\ {p} \subseteq FreePages(used)
    BY <2>1, OnePage DEF bitmap_find_free, AllPages
  <2>3. /\ Cardinality(FreePages(used \cup {p})) = Cardinality(FreePages(used)) - 1
        /\ Cardinality(FreePages(used)) >= 1
    <3>1. Run(p, 1) \subseteq FreePages(used)
      BY <2>2, Zenon
    <3>2. /\ Cardinality(FreePages(used \cup Run(p, 1))) = Cardinality(FreePages(used)) - 1
          /\ Cardinality(FreePages(used)) >= 1
      BY <1>1, <2>2, <3>1, TakeRun, Zenon
    <3> QED BY <2>2, <3>2, Zenon
  <2>5. free' = free - 1 /\ free >= 1 /\ CounterExact'
    BY <1>1, <1>2, <2>1, <2>3, Zenon DEF pmm_alloc_page, CounterExact
  <2>4. TypeOK'
    BY <1>1, <1>2, <2>1, <2>5 DEF PmmInv, TypeOK, pmm_alloc_page
  <2> QED BY <2>1, <2>5, <2>4, Zenon DEF PmmInv, OutsideStaysUsed
<1>3. CASE AllocPageFails
  BY <1>3 DEF AllocPageFails, PmmInv, TypeOK, CounterExact, OutsideStaysUsed, AllPages, NoPage
<1>4. ASSUME NEW p \in AllPages, NEW aligned \in BOOLEAN, pmm_free_page(p, aligned)
      PROVE  PmmInv'
  <2>1. CASE aligned /\ Freeable(p)
    <3>1. used' = used \ {p} /\ free' = free + 1 /\ UNCHANGED <<panicked, last>>
      BY <1>4, <2>1, Zenon DEF pmm_free_page
    <3>2. p \in Nat /\ Run(p, 1) = {p} /\ {p} \subseteq used /\ p \in Managed
      BY <2>1, OnePage DEF Freeable, AllPages, Managed
    <3>3. CounterExact'
      BY <1>1, <3>1, <3>2, GiveRun DEF CounterExact
    <3>4. OutsideStaysUsed'
      BY <3>1, <3>2, Zenon DEF PmmInv, OutsideStaysUsed
    <3> QED BY <1>1, <3>1, <3>3, <3>4 DEF PmmInv, TypeOK
  <2>2. CASE ~ (aligned /\ Freeable(p))
    BY <1>4, <2>2, Zenon DEF pmm_free_page, PmmInv, TypeOK, CounterExact, OutsideStaysUsed
  <2> QED BY <2>1, <2>2, Zenon
<1>5. ASSUME NEW n \in 1 .. MaxCount, pmm_alloc_pages(n)
      PROVE  PmmInv'
  <2>1. PICK start \in AllPages :
          /\ Fits(start, n) /\ used' = used \cup Run(start, n)
          /\ last' = [n |-> n, start |-> start]
    BY <1>5, Zenon DEF pmm_alloc_pages
  <2>2. n \in Nat \ {0} /\ start \in Nat /\ Run(start, n) \subseteq FreePages(used)
    BY <2>1, FitsIsFree DEF AllPages
  <2>3. free' = free - n /\ free >= n /\ CounterExact'
    BY <1>1, <1>5, <2>1, <2>2, TakeRun, Zenon DEF pmm_alloc_pages, CounterExact
  <2>4. used' \subseteq AllPages
    BY <1>1, <2>1, <2>2, Zenon DEF FreePages
  <2>5. TypeOK'
    BY <1>1, <1>5, <2>1, <2>2, <2>3, <2>4 DEF PmmInv, TypeOK, pmm_alloc_pages
  <2> QED BY <2>1, <2>3, <2>5, Zenon DEF PmmInv, OutsideStaysUsed
<1>6. ASSUME NEW n \in 1 .. MaxCount, AllocPagesFails(n)
      PROVE  PmmInv'
  BY <1>6 DEF AllocPagesFails, PmmInv, TypeOK, CounterExact, OutsideStaysUsed, AllPages, NoPage
<1>7. ASSUME NEW p \in AllPages, NEW n \in 1 .. MaxCount, pmm_free_pages(p, n)
      PROVE  PmmInv'
  <2>1. PICK k \in 0 .. n :
          /\ \A q \in Run(p, k) : Freeable(q)
          /\ used' = used \ Run(p, k)
          /\ free' = free + k
          /\ panicked' = (k < n)
    BY <1>7, Zenon DEF pmm_free_pages
  <2>2. k \in Nat /\ p \in Nat /\ Run(p, k) \subseteq used /\ Run(p, k) \subseteq Managed
    BY <2>1, FreeableRun DEF AllPages
  <2>3. CounterExact'
    BY <1>1, <2>1, <2>2, GiveRun, Zenon DEF CounterExact
  <2>4. OutsideStaysUsed'
    BY <2>1, <2>2, Zenon DEF PmmInv, OutsideStaysUsed
  <2>5. TypeOK'
    <3>1. free' \in Nat
      BY <1>1, <2>1, <2>2
    <3>2. used' \subseteq AllPages
      BY <1>1, <2>1, Zenon
    <3>3. panicked' \in BOOLEAN
      <4>1. CASE k < n
        BY <2>1, <4>1, Zenon
      <4>2. CASE ~ (k < n)
        BY <2>1, <4>2
      <4> QED BY <4>1, <4>2, Zenon
    <3> QED BY <1>7, <3>1, <3>2, <3>3, Zenon DEF PmmInv, TypeOK, pmm_free_pages
  <2> QED BY <2>3, <2>4, <2>5, Zenon DEF PmmInv
<1>8. CASE UNCHANGED vars
  BY <1>8, Zenon DEF vars, PmmInv, TypeOK, CounterExact, OutsideStaysUsed
<1> QED BY <1>2, <1>3, <1>4, <1>5, <1>6, <1>7, <1>8, Zenon DEF Next

(* The free counter is exact and nothing outside the managed range is ever *)
(* handed out, for a memory of any size and requests of any length.        *)
THEOREM PmmInvariant == Spec => []PmmInv
BY InitPmmInv, NextPmmInv, PTL DEF Spec

(* pmm_free_pages is the number of clear bits of the bitmap.                *)
THEOREM PmmCounter == Spec => []CounterExact
<1>1. PmmInv => CounterExact
  BY Zenon DEF PmmInv
<1> QED BY <1>1, PmmInvariant, PTL

-----------------------------------------------------------------------------
LEMMA InitMaps ==
  ASSUME Init
  PROVE  Pool!Init
BY PagesAssumption, Zenon DEF Init, Pool!Init, InitialBitmap, Managed, AllPages, NoPage

LEMMA NextMaps ==
  ASSUME PmmInv, [Next]_vars
  PROVE  [Pool!Next]_<<used \cap Managed, last>>
<1> USE PagesAssumption, CountAssumption
<1> DEFINE held == used \cap Managed
<1>0. used \in SUBSET AllPages
  BY Zenon DEF PmmInv, TypeOK
<1>1. \A s, n : Pool!Run(s, n) = Run(s, n)
  BY Zenon DEF Pool!Run, Run
<1>2. CASE pmm_alloc_page
  <2>1. PICK p \in AllPages :
          bitmap_find_free(used, p) /\ used' = used \cup {p} /\ last' = [n |-> 1, start |-> p]
    BY <1>2, Zenon DEF pmm_alloc_page
  <2>2. p \in Nat /\ p \in Managed /\ p \notin used /\ Run(p, 1) = {p}
    BY <2>1, FreeIsManaged, OnePage DEF bitmap_find_free, AllPages, FreePages
  <2>3. Pool!Grant(1, p)
    BY <1>1, <2>1, <2>2, Zenon DEF Pool!Grant
  <2>4. 1 \in 1 .. MaxCount
    OBVIOUS
  <2> QED BY <2>2, <2>3, <2>4, Zenon DEF Pool!Next
<1>3. CASE AllocPageFails
  <2>1. FreePages(used) = {} /\ last' = [n |-> 1, start |-> 0] /\ UNCHANGED used
    BY <1>3, Zenon DEF AllocPageFails, NoPage
  <2>2. Managed \subseteq used
    BY <2>1 DEF FreePages, Managed, AllPages
  <2>3. \A s \in Managed : ~ (Run(s, 1) \subseteq Managed \ held)
    <3> SUFFICES ASSUME NEW s \in Managed
                 PROVE  ~ (Run(s, 1) \subseteq Managed \ held)
      BY Zenon
    <3>1. s \in Nat /\ Run(s, 1) = {s}
      BY OnePage DEF Managed
    <3> QED BY <2>2, <3>1, Zenon
  <2>4. Pool!Refuse(1)
    BY <1>1, <2>1, <2>3, Zenon DEF Pool!Refuse
  <2>5. 1 \in 1 .. MaxCount
    OBVIOUS
  <2> QED BY <2>4, <2>5, Zenon DEF Pool!Next
<1>4. ASSUME NEW p \in AllPages, NEW aligned \in BOOLEAN, pmm_free_page(p, aligned)
      PROVE  [Pool!Next]_<<held, last>>
  <2>1. CASE aligned /\ Freeable(p)
    <3>1. used' = used \ {p} /\ last' = last
      BY <1>4, <2>1, Zenon DEF pmm_free_page
    <3>2. {p} \in SUBSET held
      BY <2>1 DEF Freeable, AllPages, Managed
    <3>3. Pool!Return({p})
      BY <3>1, <3>2, Zenon DEF Pool!Return
    <3> QED BY <3>2, <3>3, Zenon DEF Pool!Next
  <2>2. CASE ~ (aligned /\ Freeable(p))
    BY <1>4, <2>2, Zenon DEF pmm_free_page
  <2> QED BY <2>1, <2>2, Zenon
<1>5. ASSUME NEW n \in 1 .. MaxCount, pmm_alloc_pages(n)
      PROVE  [Pool!Next]_<<held, last>>
  <2>1. PICK start \in AllPages :
          /\ Fits(start, n) /\ used' = used \cup Run(start, n)
          /\ last' = [n |-> n, start |-> start]
    BY <1>5, Zenon DEF pmm_alloc_pages
  <2>2. n \in Nat \ {0}
    OBVIOUS
  <2>3. Run(start, n) \subseteq Managed /\ Run(start, n) \subseteq FreePages(used)
    BY <2>1, <2>2, FitsIsFree, Zenon
  <2>4. start \in Managed
    BY <2>1, <2>2 DEF Fits, Managed, AllPages
  <2>5. Pool!Grant(n, start)
    BY <1>1, <2>1, <2>3, Zenon DEF Pool!Grant, FreePages
  <2> QED BY <2>4, <2>5, Zenon DEF Pool!Next
<1>6. ASSUME NEW n \in 1 .. MaxCount, AllocPagesFails(n)
      PROVE  [Pool!Next]_<<held, last>>
  <2>1. /\ \A s \in AllPages : ~ Fits(s, n)
        /\ last' = [n |-> n, start |-> 0] /\ UNCHANGED used
    BY <1>6, Zenon DEF AllocPagesFails, NoPage
  <2>2. \A s \in Managed : ~ (Run(s, n) \subseteq Managed \ held)
    <3> SUFFICES ASSUME NEW s \in Managed, Run(s, n) \subseteq Managed \ held
                 PROVE  FALSE
      BY Zenon
    <3>1. s \in AllPages /\ s >= FirstPage /\ s + n - 1 \in Run(s, n)
      BY DEF Managed, AllPages, Run
    <3>2. s + n - 1 \in Managed
      BY <3>1, Zenon
    <3>3. s + n <= TotalPages
      BY <3>1, <3>2 DEF Managed, AllPages
    <3>4. Run(s, n) \cap used = {}
      BY Zenon
    <3> QED BY <2>1, <3>1, <3>3, <3>4, Zenon DEF Fits
  <2>3. Pool!Refuse(n)
    BY <1>1, <2>1, <2>2, Zenon DEF Pool!Refuse
  <2> QED BY <2>3, Zenon DEF Pool!Next
<1>7. ASSUME NEW p \in AllPages, NEW n \in 1 .. MaxCount, pmm_free_pages(p, n)
      PROVE  [Pool!Next]_<<held, last>>
  <2>1. PICK k \in 0 .. n :
          /\ \A q \in Run(p, k) : Freeable(q)
          /\ used' = used \ Run(p, k)
    BY <1>7, Zenon DEF pmm_free_pages
  <2>2. k \in Nat /\ Run(p, k) \subseteq used /\ Run(p, k) \subseteq Managed
    BY <2>1, FreeableRun
  <2>3. Run(p, k) \in SUBSET held /\ last' = last
    BY <1>7, <2>2, Zenon DEF pmm_free_pages
  <2>4. Pool!Return(Run(p, k))
    BY <2>1, <2>3, Zenon DEF Pool!Return
  <2> QED BY <2>3, <2>4, Zenon DEF Pool!Next
<1>8. CASE UNCHANGED vars
  BY <1>8, Zenon DEF vars
<1> QED BY <1>2, <1>3, <1>4, <1>5, <1>6, <1>7, <1>8, Zenon DEF Next

(* The bitmap allocator is a pool of frames: no frame is ever granted      *)
(* twice, a request is refused only when it cannot be met, and a free that *)
(* panics half-way has returned only frames that were out.                 *)
THEOREM PmmImplementsPageSpec == Spec => ImplementsPageSpec
<1>1. Init => Pool!Init
  BY InitMaps, Zenon
<1>2. PmmInv /\ [Next]_vars => [Pool!Next]_<<used \cap Managed, last>>
  BY NextMaps, Zenon
<1> QED BY <1>1, <1>2, PmmInvariant, PTL DEF Spec, ImplementsPageSpec, Pool!Spec

-----------------------------------------------------------------------------
(* The kernel heap, for every size of the heap and of the block header, any *)
(* number of requests of any size in any order.  All of it follows from one *)
(* invariant, HeapInv: the list of blocks spans the heap, no two free       *)
(* blocks are neighbours, and the pointers the callers hold are exactly the *)
(* blocks in use.  split_block replaces one block by two that span the same *)
(* bytes; the walk of coalesce_free_blocks is followed by induction over    *)
(* its steps.  The sum of the sizes in use is given by the function of its  *)
(* partial sums.                                                            *)
LEMMA HeapConstants ==
  /\ HeapSize \in Nat /\ Header \in Nat /\ Header > 0 /\ Header <= HeapSize
  /\ MinBlock \in Nat /\ Requests \subseteq Nat
BY HeapAssumption

LEMMA NatSetInduction ==
  ASSUME NEW G, 0 \in G, \A n \in Nat : n \in G => n + 1 \in G
  PROVE  Nat \subseteq G
<1> DEFINE T == Nat \ G
<1> SUFFICES ASSUME T # {} PROVE FALSE
  BY Zenon
<1>1. PICK x \in T : \A k \in T : ~ (<<k, x>> \in OpToRel(<, Nat))
  <2>1. T \subseteq Nat
    BY Zenon
  <2> HIDE DEF T
  <2> QED BY <2>1, NatLessThanWellFounded, WFMin, Zenon
<1>2. x \in Nat /\ x # 0
  BY Zenon
<1>3. x - 1 \in Nat /\ x - 1 < x /\ (x - 1) + 1 = x
  BY <1>2
<1>4. <<x - 1, x>> \in OpToRel(<, Nat)
  BY <1>2, <1>3, Zenon DEF OpToRel
<1>5. x - 1 \in G
  BY <1>1, <1>3, <1>4, Zenon
<1>6. (x - 1) + 1 \in G
  BY <1>3, <1>5, Zenon
<1> QED BY <1>3, <1>6, Zenon

(* Headers, and block lists that lie end to end from 0 to e. *)
Headers == [addr : Nat, size : Nat, free : BOOLEAN]

Spans(h, e) ==
  /\ h \in Seq(Headers)
  /\ h # <<>>
  /\ h[1].addr = 0
  /\ \A i \in 1 .. Len(h) - 1 : End(h[i]) = h[i + 1].addr
  /\ End(h[Len(h)]) = e

Apart(h) == \A i \in 1 .. Len(h) - 1 : ~ (h[i].free /\ h[i + 1].free)

InUse(h) == {h[i] : i \in {j \in DOMAIN h : ~ h[j].free}}

LEMMA HeaderEnds ==
  ASSUME NEW b \in Headers
  PROVE  /\ b.addr \in Nat /\ b.size \in Nat /\ b.free \in BOOLEAN
         /\ End(b) \in Nat /\ End(b) = b.addr + Header + b.size /\ b.addr < End(b)
         /\ Taken(b) \in Nat /\ Taken(b) <= b.size
BY HeapConstants DEF Headers, End, Taken

(* Later blocks lie behind earlier ones. *)
LEMMA Ascending ==
  ASSUME NEW h, NEW e, Spans(h, e), NEW i \in 1 .. Len(h), NEW j \in 1 .. Len(h), i < j
  PROVE  End(h[i]) <= h[j].addr
<1> DEFINE G == {d \in Nat : i + d + 1 <= Len(h) => End(h[i]) <= h[i + d + 1].addr}
<1>0. /\ Len(h) \in Nat /\ i \in Nat /\ j \in Nat
      /\ \A k \in 1 .. Len(h) : h[k] \in Headers
      /\ \A k \in 1 .. Len(h) - 1 : End(h[k]) = h[k + 1].addr
  BY DEF Spans
<1>1. 0 \in G
  <2> SUFFICES ASSUME i + 0 + 1 <= Len(h) PROVE End(h[i]) <= h[i + 0 + 1].addr
    BY Zenon
  <2>1. i \in 1 .. Len(h) - 1 /\ i + 0 + 1 = i + 1
    BY <1>0
  <2>2. End(h[i]) = h[i + 1].addr /\ End(h[i]) \in Nat
    BY <1>0, <2>1, HeaderEnds, Zenon
  <2> QED BY <2>1, <2>2
<1>2. ASSUME NEW d \in Nat, d \in G PROVE d + 1 \in G
  <2> SUFFICES ASSUME i + (d + 1) + 1 <= Len(h) PROVE End(h[i]) <= h[i + (d + 1) + 1].addr
    OBVIOUS
  <2> DEFINE k == i + d + 1
  <2>1. k \in 1 .. Len(h) - 1 /\ i + (d + 1) + 1 = k + 1 /\ i + d + 1 <= Len(h) /\ k \in 1 .. Len(h)
    BY <1>0
  <2>2. End(h[i]) <= h[k].addr
    BY <1>2, <2>1, Zenon
  <2> HIDE DEF k
  <2>3. End(h[k]) = h[k + 1].addr /\ h[k].addr < End(h[k])
        /\ h[k].addr \in Nat /\ End(h[k]) \in Nat /\ End(h[i]) \in Nat
    BY <1>0, <2>1, HeaderEnds, Zenon
  <2>4. End(h[i]) <= h[k + 1].addr
    BY <2>2, <2>3
  <2> QED BY <2>1, <2>4, Zenon
<1>3. Nat \subseteq G
  <2> HIDE DEF G
  <2> QED BY <1>1, <1>2, NatSetInduction, Zenon
<1>4. j - i - 1 \in Nat /\ i + (j - i - 1) + 1 = j
  BY <1>0
<1>5. \A d \in Nat : i + d + 1 <= Len(h) => End(h[i]) <= h[i + d + 1].addr
  BY <1>3, Zenon
<1>6. i + (j - i - 1) + 1 <= Len(h)
  BY <1>0, <1>4
<1> QED BY <1>4, <1>5, <1>6, Zenon

LEMMA AddressesDiffer ==
  ASSUME NEW h, NEW e, Spans(h, e), NEW i \in 1 .. Len(h), NEW j \in 1 .. Len(h),
         h[i].addr = h[j].addr
  PROVE  i = j
<1>1. h[i] \in Headers /\ h[j] \in Headers /\ i \in Nat /\ j \in Nat
  BY DEF Spans
<1>2. ~ (i < j)
  BY <1>1, Ascending, HeaderEnds
<1>3. ~ (j < i)
  BY <1>1, Ascending, HeaderEnds
<1> QED BY <1>1, <1>2, <1>3

-----------------------------------------------------------------------------
(* Sums of the bytes in use. *)
IsSum(h, s) ==
  /\ s \in [0 .. Len(h) -> Int]
  /\ s[0] = 0
  /\ \A k \in 1 .. Len(h) : s[k] = s[k - 1] + Taken(h[k])

LEMMA SumsEqual ==
  ASSUME NEW h \in Seq(Headers), NEW s, NEW t, IsSum(h, s), IsSum(h, t)
  PROVE  s[Len(h)] = t[Len(h)]
<1> DEFINE G == {k \in Nat : k <= Len(h) => s[k] = t[k]}
<1>0. Len(h) \in Nat
  OBVIOUS
<1>1. 0 \in G
  BY Zenon DEF IsSum
<1>2. ASSUME NEW k \in Nat, k \in G PROVE k + 1 \in G
  <2> SUFFICES ASSUME k + 1 <= Len(h) PROVE s[k + 1] = t[k + 1]
    OBVIOUS
  <2>1. k + 1 \in 1 .. Len(h) /\ (k + 1) - 1 = k /\ s[k] = t[k]
    BY <1>0, <1>2
  <2>2. s[k + 1] = s[k] + Taken(h[k + 1]) /\ t[k + 1] = t[k] + Taken(h[k + 1])
    BY <2>1, Zenon DEF IsSum
  <2> QED BY <2>1, <2>2, Zenon
<1>3. Nat \subseteq G
  <2> HIDE DEF G
  <2> QED BY <1>1, <1>2, NatSetInduction, Zenon
<1> QED BY <1>0, <1>3

LEMMA SumExists ==
  ASSUME NEW h, NEW n \in Nat
  PROVE  \E f : f = [k \in 0 .. n |-> IF k = 0 THEN 0 ELSE f[k - 1] + Taken(h[k])]
<1> DEFINE G == {m \in Nat : \E f : f = [k \in 0 .. m |-> IF k = 0 THEN 0
                                                        ELSE f[k - 1] + Taken(h[k])]}
<1>1. 0 \in G
  <2> DEFINE f == [k \in 0 .. 0 |-> 0]
  <2>1. f = [k \in 0 .. 0 |-> IF k = 0 THEN 0 ELSE f[k - 1] + Taken(h[k])]
    OBVIOUS
  <2> HIDE DEF f
  <2> QED BY <2>1, Zenon
<1>2. ASSUME NEW m \in Nat, m \in G PROVE m + 1 \in G
  <2>1. PICK f : f = [k \in 0 .. m |-> IF k = 0 THEN 0 ELSE f[k - 1] + Taken(h[k])]
    BY <1>2, Zenon
  <2> DEFINE g == [k \in 0 .. m + 1 |-> IF k = m + 1 THEN f[m] + Taken(h[m + 1]) ELSE f[k]]
  <2>2. ASSUME NEW k \in 0 .. m + 1
        PROVE  g[k] = IF k = 0 THEN 0 ELSE g[k - 1] + Taken(h[k])
    <3>1. CASE k = m + 1
      <4>1. g[k] = f[m] + Taken(h[k]) /\ k # 0 /\ k - 1 = m /\ m \in 0 .. m + 1 /\ m # m + 1
        BY <3>1
      <4>2. g[m] = f[m]
        BY <4>1, Zenon
      <4> HIDE DEF g
      <4> QED BY <4>1, <4>2, Zenon
    <3>2. CASE k # m + 1
      <4>1. k \in 0 .. m /\ g[k] = f[k]
        BY <3>2
      <4>2. f[k] = IF k = 0 THEN 0 ELSE f[k - 1] + Taken(h[k])
        BY <2>1, <4>1, Zenon
      <4>3. k # 0 => g[k - 1] = f[k - 1]
        BY <4>1
      <4> HIDE DEF g
      <4> QED BY <4>1, <4>2, <4>3, Zenon
    <3> QED BY <3>1, <3>2, Zenon
  <2>3. g = [k \in 0 .. m + 1 |-> g[k]]
    BY Zenon
  <2> HIDE DEF g
  <2>4. g = [k \in 0 .. m + 1 |-> IF k = 0 THEN 0 ELSE g[k - 1] + Taken(h[k])]
    BY <2>2, <2>3, Zenon
  <2> QED BY <2>4
<1>3. Nat \subseteq G
  <2> HIDE DEF G
  <2> QED BY <1>1, <1>2, NatSetInduction, Zenon
<1> QED BY <1>3, Zenon

LEMMA TakenIsSum ==
  ASSUME NEW h \in Seq(Headers)
  PROVE  \E s : IsSum(h, s) /\ TakenIn(h) = s[Len(h)]
<1> DEFINE s == CHOOSE f : f = [k \in 0 .. Len(h) |-> IF k = 0 THEN 0 ELSE f[k - 1] + Taken(h[k])]
<1>0. Len(h) \in Nat /\ \A k \in 1 .. Len(h) : h[k] \in Headers
  OBVIOUS
<1>1. s = [k \in 0 .. Len(h) |-> IF k = 0 THEN 0 ELSE s[k - 1] + Taken(h[k])]
  BY <1>0, SumExists, Zenon
<1>2. TakenIn(h) = s[Len(h)]
  BY Zenon DEF TakenIn
<1> HIDE DEF s
<1>3. s[0] = 0 /\ \A k \in 1 .. Len(h) : s[k] = s[k - 1] + Taken(h[k])
  <2>1. 0 \in 0 .. Len(h) /\ \A k \in 1 .. Len(h) : k \in 0 .. Len(h) /\ k # 0
    BY <1>0
  <2> QED BY <1>1, <2>1, Zenon
<1> DEFINE G == {k \in Nat : k <= Len(h) => s[k] \in Int}
<1>4. 0 \in G
  BY <1>3
<1>5. ASSUME NEW k \in Nat, k \in G PROVE k + 1 \in G
  <2> SUFFICES ASSUME k + 1 <= Len(h) PROVE s[k + 1] \in Int
    OBVIOUS
  <2>1. k + 1 \in 1 .. Len(h) /\ (k + 1) - 1 = k /\ s[k] \in Int
    BY <1>0, <1>5
  <2>2. s[k + 1] = s[k] + Taken(h[k + 1]) /\ Taken(h[k + 1]) \in Nat
    BY <1>0, <1>3, <2>1, HeaderEnds, Zenon
  <2> QED BY <2>1, <2>2
<1>6. Nat \subseteq G
  <2> HIDE DEF G
  <2> QED BY <1>4, <1>5, NatSetInduction, Zenon
<1>7. s \in [0 .. Len(h) -> Int]
  <2>1. \A k \in 0 .. Len(h) : s[k] \in Int
    BY <1>0, <1>6
  <2>2. s = [k \in 0 .. Len(h) |-> s[k]]
    BY <1>1, Zenon
  <2> QED BY <2>1, <2>2, Zenon
<1> QED BY <1>2, <1>3, <1>7, Zenon DEF IsSum

(* A function that adds up the blocks gives the sum. *)
LEMMA TakenBy ==
  ASSUME NEW h \in Seq(Headers), NEW s, IsSum(h, s)
  PROVE  TakenIn(h) = s[Len(h)]
BY TakenIsSum, SumsEqual, Zenon

LEMMA TakenType ==
  ASSUME NEW h \in Seq(Headers)
  PROVE  TakenIn(h) \in Int
BY TakenIsSum DEF IsSum

LEMMA TakenEmpty ==
  ASSUME NEW h \in Seq(Headers), Len(h) = 0
  PROVE  TakenIn(h) = 0
BY TakenIsSum, Zenon DEF IsSum

LEMMA TakenAppend ==
  ASSUME NEW h \in Seq(Headers), NEW b \in Headers
  PROVE  TakenIn(Append(h, b)) = TakenIn(h) + Taken(b)
<1> DEFINE g == Append(h, b)
<1>1. PICK s : IsSum(h, s) /\ TakenIn(h) = s[Len(h)]
  BY TakenIsSum, Zenon
<1>2. /\ g \in Seq(Headers) /\ Len(h) \in Nat /\ Len(g) = Len(h) + 1 /\ g[Len(h) + 1] = b
      /\ \A k \in 1 .. Len(h) : g[k] = h[k]
  OBVIOUS
<1> HIDE DEF g
<1> DEFINE t == [k \in 0 .. Len(g) |-> IF k = Len(g) THEN s[Len(h)] + Taken(b) ELSE s[k]]
<1>3. Taken(b) \in Int /\ s \in [0 .. Len(h) -> Int] /\ s[0] = 0
      /\ \A k \in 1 .. Len(h) : s[k] = s[k - 1] + Taken(h[k])
  <2>1. Taken(b) \in Int
    BY HeaderEnds
  <2>2. s \in [0 .. Len(h) -> Int] /\ s[0] = 0
        /\ \A k \in 1 .. Len(h) : s[k] = s[k - 1] + Taken(h[k])
    BY <1>1, Zenon DEF IsSum
  <2> QED BY <2>1, <2>2, Zenon
<1>4. t \in [0 .. Len(g) -> Int] /\ t[0] = 0
  BY <1>2, <1>3, SMTT(20)
<1>5. ASSUME NEW k \in 1 .. Len(g) PROVE t[k] = t[k - 1] + Taken(g[k])
  <2>1. CASE k = Len(g)
    <3>1. k - 1 = Len(h) /\ k - 1 \in 0 .. Len(g) /\ k - 1 # Len(g) /\ k \in 0 .. Len(g)
      BY <1>2, <2>1
    <3> QED BY <1>2, <2>1, <3>1, Zenon
  <2>2. CASE k # Len(g)
    <3>1. k \in 1 .. Len(h) /\ k - 1 \in 0 .. Len(g) /\ k - 1 # Len(g) /\ k \in 0 .. Len(g)
      BY <1>2, <2>2
    <3> QED BY <1>2, <1>3, <2>2, <3>1, Zenon
  <2> QED BY <2>1, <2>2, Zenon
<1>6. t[Len(g)] = s[Len(h)] + Taken(b)
  BY <1>2
<1> HIDE DEF t
<1>7. IsSum(g, t)
  BY <1>4, <1>5, Zenon DEF IsSum
<1> QED BY <1>1, <1>2, <1>6, <1>7, TakenBy, Zenon DEF g

LEMMA TakenReplace ==
  ASSUME NEW h \in Seq(Headers), NEW i \in 1 .. Len(h), NEW g \in Seq(Headers),
         Len(g) = Len(h), \A k \in 1 .. Len(h) : k # i => g[k] = h[k]
  PROVE  TakenIn(g) = TakenIn(h) - Taken(h[i]) + Taken(g[i])
<1>1. PICK s : IsSum(h, s) /\ TakenIn(h) = s[Len(h)]
  BY TakenIsSum, Zenon
<1> DEFINE d == Taken(g[i]) - Taken(h[i])
           t == [k \in 0 .. Len(g) |-> IF k < i THEN s[k] ELSE s[k] + d]
<1>2. /\ Len(h) \in Nat /\ i \in Nat /\ i > 0 /\ Taken(g[i]) \in Int /\ Taken(h[i]) \in Int
      /\ s \in [0 .. Len(h) -> Int] /\ s[0] = 0
      /\ \A k \in 1 .. Len(h) : s[k] = s[k - 1] + Taken(h[k])
      /\ \A k \in 1 .. Len(h) : Taken(h[k]) \in Int
  <2>1. /\ s \in [0 .. Len(h) -> Int] /\ s[0] = 0
        /\ \A k \in 1 .. Len(h) : s[k] = s[k - 1] + Taken(h[k])
    BY <1>1, Zenon DEF IsSum
  <2>2. Len(h) \in Nat /\ i \in Nat /\ i > 0
    OBVIOUS
  <2>3. \A k \in 1 .. Len(h) : h[k] \in Headers /\ g[k] \in Headers
    OBVIOUS
  <2>4. \A k \in 1 .. Len(h) : Taken(h[k]) \in Nat /\ Taken(g[k]) \in Nat
    BY <2>3, HeaderEnds, Zenon
  <2>5. \A x \in Nat : x \in Int
    OBVIOUS
  <2> QED BY <2>1, <2>2, <2>4, <2>5, Zenon
<1>3. d \in Int /\ d = Taken(g[i]) - Taken(h[i])
  BY <1>2
<1> HIDE DEF d
<1>4. t \in [0 .. Len(g) -> Int] /\ t[0] = 0 /\ t[Len(g)] = s[Len(h)] + d
  BY <1>2, <1>3
<1>5. ASSUME NEW k \in 1 .. Len(g) PROVE t[k] = t[k - 1] + Taken(g[k])
  <2>0. k \in 1 .. Len(h) /\ k \in 0 .. Len(g) /\ k - 1 \in 0 .. Len(g) /\ k \in Int
        /\ s[k] \in Int /\ s[k - 1] \in Int /\ Taken(h[k]) \in Int
        /\ s[k] = s[k - 1] + Taken(h[k])
    BY <1>2, SMTT(20)
  <2>1. CASE k < i
    <3>1. t[k] = s[k] /\ t[k - 1] = s[k - 1] /\ g[k] = h[k]
      BY <1>2, <2>0, <2>1
    <3> QED BY <2>0, <3>1, Zenon
  <2>2. CASE k = i
    <3>1. t[k] = s[k] + d /\ t[k - 1] = s[k - 1]
      BY <1>2, <2>0, <2>2
    <3> QED BY <1>2, <1>3, <2>0, <2>2, <3>1
  <2>3. CASE k > i
    <3>1. t[k] = s[k] + d /\ t[k - 1] = s[k - 1] + d /\ g[k] = h[k]
      BY <1>2, <2>0, <2>3
    <3> QED BY <1>3, <2>0, <3>1
  <2> QED BY <1>2, <2>0, <2>1, <2>2, <2>3
<1> HIDE DEF t
<1>6. IsSum(g, t)
  BY <1>4, <1>5, Zenon DEF IsSum
<1>7. TakenIn(g) = t[Len(g)]
  BY <1>6, TakenBy, Zenon
<1>8. s[Len(h)] \in Int
  BY <1>2
<1> QED BY <1>1, <1>2, <1>3, <1>4, <1>7, <1>8

(* g is h with b inserted behind its i-th block. *)
Inserted(g, h, i, b) ==
  /\ g \in Seq(Headers) /\ Len(g) = Len(h) + 1
  /\ \A k \in 1 .. i : g[k] = h[k]
  /\ g[i + 1] = b
  /\ \A k \in i + 1 .. Len(h) : g[k + 1] = h[k]

LEMMA InsertFacts ==
  ASSUME NEW h \in Seq(Headers), NEW i \in 1 .. Len(h), NEW b \in Headers
  PROVE  Inserted(Behind(h, i, b), h, i, b)
<1> DEFINE u == SubSeq(h, 1, i)
           v == SubSeq(h, i + 1, Len(h))
           g == u \o <<b>> \o v
<1>1. Behind(h, i, b) = g
  BY Zenon DEF Behind
<1>2. Len(h) \in Nat /\ i \in Nat /\ u \in Seq(Headers) /\ v \in Seq(Headers)
      /\ Len(u) = i /\ Len(v) = Len(h) - i
  OBVIOUS
<1>3. \A k \in 1 .. i : u[k] = h[k]
  OBVIOUS
<1>4. \A k \in 1 .. Len(h) - i : v[k] = h[k + i]
  OBVIOUS
<1> HIDE DEF u, v
<1>5. g \in Seq(Headers) /\ Len(g) = Len(h) + 1
  BY <1>2
<1>6. \A k \in 1 .. i : g[k] = h[k]
  BY <1>2, <1>3
<1>7. g[i + 1] = b
  BY <1>2
<1>8. ASSUME NEW k \in i + 1 .. Len(h) PROVE g[k + 1] = h[k]
  <2>1. k - i \in 1 .. Len(h) - i /\ (k - i) + i = k /\ k + 1 > i + 1 /\ (k + 1) - (i + 1) = k - i
    BY <1>2
  <2>2. g[k + 1] = v[(k + 1) - (i + 1)]
    BY <1>2, <2>1
  <2> QED BY <1>4, <2>1, <2>2, Zenon
<1> HIDE DEF g
<1> QED BY <1>1, <1>5, <1>6, <1>7, <1>8, Zenon DEF Inserted

LEMMA TakenInsert ==
  ASSUME NEW h \in Seq(Headers), NEW i \in 1 .. Len(h), NEW b \in Headers, b.free,
         NEW g, Inserted(g, h, i, b)
  PROVE  TakenIn(g) = TakenIn(h)
<1>1. PICK s : IsSum(h, s) /\ TakenIn(h) = s[Len(h)]
  BY TakenIsSum, Zenon
<1> DEFINE t == [k \in 0 .. Len(g) |-> IF k <= i THEN s[k] ELSE s[k - 1]]
<1>2. /\ Len(h) \in Nat /\ i \in Nat /\ i > 0 /\ i <= Len(h)
      /\ s \in [0 .. Len(h) -> Int] /\ s[0] = 0
      /\ \A k \in 1 .. Len(h) : s[k] = s[k - 1] + Taken(h[k])
  BY <1>1 DEF IsSum
<1>3. /\ g \in Seq(Headers) /\ Len(g) = Len(h) + 1
      /\ \A k \in 1 .. i : g[k] = h[k]
      /\ g[i + 1] = b
      /\ \A k \in i + 1 .. Len(h) : g[k + 1] = h[k]
  BY Zenon DEF Inserted
<1>4. t \in [0 .. Len(g) -> Int] /\ t[0] = 0 /\ t[Len(g)] = s[Len(h)]
  BY <1>2, <1>3
<1>5. Taken(b) = 0
  BY Zenon DEF Taken
<1>6. ASSUME NEW k \in 1 .. Len(g) PROVE t[k] = t[k - 1] + Taken(g[k])
  <2>0. k \in 0 .. Len(g) /\ k - 1 \in 0 .. Len(g) /\ k \in Int
    BY <1>2, <1>3
  <2>1. CASE k <= i
    <3>1. t[k] = s[k] /\ t[k - 1] = s[k - 1] /\ g[k] = h[k] /\ k \in 1 .. Len(h)
      BY <1>2, <1>3, <2>0, <2>1
    <3> QED BY <1>2, <3>1, Zenon
  <2>2. CASE k = i + 1
    <3>1. t[k] = s[i] /\ t[k - 1] = s[i] /\ s[i] \in Int
      BY <1>2, <1>3, <2>0, <2>2
    <3> QED BY <1>3, <1>5, <2>2, <3>1
  <2>3. CASE k > i + 1
    <3>1. k - 1 \in i + 1 .. Len(h) /\ (k - 1) + 1 = k /\ k - 1 \in 1 .. Len(h)
      BY <1>2, <1>3, <2>0, <2>3
    <3>2. t[k] = s[k - 1] /\ t[k - 1] = s[(k - 1) - 1]
      BY <1>2, <1>3, <2>0, <2>3, <3>1
    <3>3. g[k] = h[k - 1]
      BY <1>3, <3>1, Zenon
    <3> QED BY <1>2, <3>1, <3>2, <3>3, Zenon
  <2> QED BY <1>2, <2>0, <2>1, <2>2, <2>3
<1> HIDE DEF t
<1>7. IsSum(g, t)
  BY <1>4, <1>6, Zenon DEF IsSum
<1> QED BY <1>1, <1>3, <1>4, <1>7, TakenBy, Zenon

-----------------------------------------------------------------------------
(* The steps of kmalloc and kfree on the block list. *)
LEMMA InUseIff ==
  ASSUME NEW h \in Seq(Headers), NEW b
  PROVE  b \in InUse(h) <=> \E j \in 1 .. Len(h) : ~ h[j].free /\ b = h[j]
BY DEF InUse

(* g is what split_block makes of h for a request of n bytes at block i. *)
SplitDone(g, h, i, n, e) ==
  /\ Spans(g, e) /\ i \in 1 .. Len(g)
  /\ g[i].free /\ g[i].addr = h[i].addr /\ g[i].size >= n
  /\ \A k \in 1 .. Len(g) - 1 : k # i => ~ (g[k].free /\ g[k + 1].free)
  /\ InUse(g) = InUse(h) /\ TakenIn(g) = TakenIn(h)

LEMMA SplitOk ==
  ASSUME NEW h, NEW e, Spans(h, e), Apart(h), NEW i \in 1 .. Len(h), NEW n \in Nat,
         h[i].free, h[i].size >= n
  PROVE  SplitDone(split_block(h, i, n), h, i, n, e)
<1> DEFINE g == split_block(h, i, n)
           c == [h[i] EXCEPT !.size = n]
           b == Block(h[i].addr + Header + n, h[i].size - n - Header, TRUE)
           m == [h EXCEPT ![i] = c]
<1>0. /\ h \in Seq(Headers) /\ Len(h) \in Nat /\ h[i] \in Headers /\ i \in Nat
      /\ h # <<>> /\ h[1].addr = 0 /\ End(h[Len(h)]) = e
      /\ \A k \in 1 .. Len(h) - 1 : End(h[k]) = h[k + 1].addr
      /\ \A k \in 1 .. Len(h) : h[k] \in Headers
  BY DEF Spans
<1>1. CASE ~ (h[i].size >= n + Header + MinBlock)
  <2>1. g = h
    BY <1>1, Zenon DEF split_block
  <2> QED BY <1>0, <2>1, Zenon DEF SplitDone, Apart
<1>2. CASE h[i].size >= n + Header + MinBlock
  <2>1. g = Behind(m, i, b)
    BY <1>2, Zenon DEF split_block
  <2>2. h[i].addr \in Nat /\ h[i].size \in Nat /\ h[i].size - n - Header \in Nat
        /\ h[i].addr + Header + n \in Nat
    <3>1. h[i].addr \in Nat /\ h[i].size \in Nat
      BY <1>0, HeaderEnds, Zenon
    <3>2. Header \in Nat /\ MinBlock \in Nat
      BY HeapConstants, Zenon
    <3> QED BY <1>2, <3>1, <3>2
  <2>3. b \in Headers /\ b.addr = h[i].addr + Header + n /\ b.size = h[i].size - n - Header /\ b.free
    BY <2>2, Zenon DEF Block, Headers
  <2>4. c \in Headers /\ c.addr = h[i].addr /\ c.size = n /\ c.free = h[i].free
    BY <1>0, Zenon DEF Headers
  <2> HIDE DEF b, c
  <2>5. m \in Seq(Headers) /\ Len(m) = Len(h) /\ m[i] = c
        /\ \A k \in 1 .. Len(h) : k # i => m[k] = h[k]
    BY <1>0, <2>4
  <2> HIDE DEF m, g
  <2>6. Inserted(g, m, i, b)
    BY <2>1, <2>3, <2>5, InsertFacts, Zenon
  <2>7. /\ g \in Seq(Headers) /\ Len(g) = Len(h) + 1
        /\ \A k \in 1 .. i - 1 : g[k] = h[k]
        /\ g[i] = c /\ g[i + 1] = b
        /\ \A k \in i + 1 .. Len(h) : g[k + 1] = h[k]
    BY <1>0, <2>5, <2>6 DEF Inserted
  <2>8. TakenIn(g) = TakenIn(h)
    <3>1. TakenIn(g) = TakenIn(m)
      BY <2>3, <2>5, <2>6, TakenInsert, Zenon
    <3>2. TakenIn(m) = TakenIn(h) - Taken(h[i]) + Taken(m[i])
      BY <1>0, <2>5, TakenReplace, Zenon
    <3>3. Taken(h[i]) = 0 /\ Taken(m[i]) = 0
      BY <2>4, <2>5, Zenon DEF Taken
    <3>4. TakenIn(h) \in Int
      BY <1>0, TakenType, Zenon
    <3> QED BY <3>1, <3>2, <3>3, <3>4
  <2>9. End(c) = b.addr /\ End(b) = End(h[i])
    BY <1>0, <2>2, <2>3, <2>4, HeapConstants, SMTT(20) DEF End
  <2>10. ASSUME NEW k \in 1 .. Len(g) - 1 PROVE End(g[k]) = g[k + 1].addr
    <3>0. k \in Nat /\ k \in 1 .. Len(h)
      BY <1>0, <2>7
    <3>1. CASE k < i - 1
      <4>1. k \in 1 .. i - 1 /\ k + 1 \in 1 .. i - 1 /\ k \in 1 .. Len(h) - 1
        BY <1>0, <3>0, <3>1
      <4> QED BY <1>0, <2>7, <4>1, Zenon
    <3>2. CASE k = i - 1
      <4>1. k \in 1 .. i - 1 /\ k + 1 = i /\ k \in 1 .. Len(h) - 1
        BY <1>0, <3>0, <3>2
      <4>2. g[k] = h[k] /\ g[k + 1] = c /\ End(h[k]) = h[i].addr
        BY <1>0, <2>7, <4>1, Zenon
      <4> QED BY <2>4, <4>2, Zenon
    <3>3. CASE k = i
      BY <2>7, <2>9, <3>3, Zenon
    <3>4. CASE k = i + 1
      <4>1. i + 1 \in i + 1 .. Len(h) /\ i \in 1 .. Len(h) - 1
        BY <1>0, <2>7, <3>4
      <4>2. g[k] = b /\ g[k + 1] = h[i + 1] /\ End(h[i]) = h[i + 1].addr
        BY <1>0, <2>7, <3>4, <4>1, Zenon
      <4> QED BY <2>9, <4>2, Zenon
    <3>5. CASE k > i + 1
      <4>1. k - 1 \in i + 1 .. Len(h) /\ k \in i + 1 .. Len(h) /\ (k - 1) + 1 = k /\ k - 1 \in 1 .. Len(h) - 1
        BY <1>0, <2>7, <3>0, <3>5
      <4>2. g[k] = h[k - 1] /\ g[k + 1] = h[k]
        BY <2>7, <4>1, Zenon
      <4>3. End(h[k - 1]) = h[k].addr
        BY <1>0, <4>1, Zenon
      <4> QED BY <4>2, <4>3, Zenon
    <3> QED BY <1>0, <3>0, <3>1, <3>2, <3>3, <3>4, <3>5
  <2>11. ASSUME NEW k \in 1 .. Len(g) - 1, k # i PROVE ~ (g[k].free /\ g[k + 1].free)
    <3>0. k \in Nat /\ k \in 1 .. Len(h)
      BY <1>0, <2>7
    <3>a. \A l \in 1 .. Len(h) - 1 : ~ (h[l].free /\ h[l + 1].free)
      BY Zenon DEF Apart
    <3>1. CASE k < i - 1
      <4>1. k \in 1 .. i - 1 /\ k + 1 \in 1 .. i - 1 /\ k \in 1 .. Len(h) - 1
        BY <1>0, <3>0, <3>1
      <4> QED BY <2>7, <3>a, <4>1, Zenon
    <3>2. CASE k = i - 1
      <4>1. k \in 1 .. i - 1 /\ k + 1 = i /\ k \in 1 .. Len(h) - 1
        BY <1>0, <3>0, <3>2
      <4>2. g[k] = h[k] /\ ~ (h[k].free /\ h[i].free)
        BY <2>7, <3>a, <4>1, Zenon
      <4> QED BY <4>2, Zenon
    <3>4. CASE k = i + 1
      <4>1. i + 1 \in i + 1 .. Len(h) /\ i \in 1 .. Len(h) - 1
        BY <1>0, <2>7, <3>4
      <4>2. g[k + 1] = h[i + 1] /\ ~ (h[i].free /\ h[i + 1].free)
        BY <2>7, <3>4, <3>a, <4>1, Zenon
      <4> QED BY <4>2, Zenon
    <3>5. CASE k > i + 1
      <4>1. k - 1 \in i + 1 .. Len(h) /\ k \in i + 1 .. Len(h) /\ (k - 1) + 1 = k /\ k - 1 \in 1 .. Len(h) - 1
        BY <1>0, <2>7, <3>0, <3>5
      <4>2. g[k] = h[k - 1] /\ g[k + 1] = h[k]
        BY <2>7, <4>1, Zenon
      <4>3. ~ (h[k - 1].free /\ h[k].free)
        BY <3>a, <4>1, Zenon
      <4> QED BY <4>2, <4>3, Zenon
    <3> QED BY <1>0, <3>0, <2>11, <3>1, <3>2, <3>4, <3>5
  <2>12. InUse(g) = InUse(h)
    <3>1. ASSUME NEW x \in InUse(g) PROVE x \in InUse(h)
      <4>1. PICK k \in 1 .. Len(g) : ~ g[k].free /\ x = g[k]
        BY <2>7, InUseIff
      <4>2. k # i /\ k # i + 1
        BY <2>3, <2>4, <2>7, <4>1, Zenon
      <4>3. CASE k < i
        BY <1>0, <2>7, <4>1, <4>3, InUseIff
      <4>4. CASE k > i + 1
        <5>1. k - 1 \in i + 1 .. Len(h) /\ (k - 1) + 1 = k /\ k - 1 \in 1 .. Len(h)
          BY <1>0, <2>7, <4>4
        <5>2. g[k] = h[k - 1]
          BY <2>7, <5>1, Zenon
        <5> QED BY <1>0, <4>1, <5>1, <5>2, InUseIff, Zenon
      <4> QED BY <1>0, <2>7, <4>2, <4>3, <4>4
    <3>2. ASSUME NEW x \in InUse(h) PROVE x \in InUse(g)
      <4>1. PICK k \in 1 .. Len(h) : ~ h[k].free /\ x = h[k]
        BY <1>0, InUseIff, Zenon
      <4>2. k # i
        BY <4>1, Zenon
      <4>3. CASE k < i
        <5>1. k \in 1 .. i - 1 /\ k \in 1 .. Len(g)
          BY <1>0, <2>7, <4>3
        <5>2. g[k] = h[k]
          BY <2>7, <5>1, Zenon
        <5> QED BY <2>7, <4>1, <5>1, <5>2, InUseIff, Zenon
      <4>4. CASE k > i
        <5>1. k \in i + 1 .. Len(h) /\ k + 1 \in 1 .. Len(g)
          BY <1>0, <2>7, <4>4
        <5>2. g[k + 1] = h[k]
          BY <2>7, <5>1, Zenon
        <5> QED BY <2>7, <4>1, <5>1, <5>2, InUseIff, Zenon
      <4> QED BY <1>0, <4>2, <4>3, <4>4
    <3> QED BY <3>1, <3>2, Zenon
  <2>13. g # <<>> /\ g[1].addr = 0 /\ i \in 1 .. Len(g) /\ 1 \in 1 .. Len(g)
    <3>1. CASE i = 1
      BY <1>0, <2>4, <2>7, <3>1
    <3>2. CASE i # 1
      BY <1>0, <2>7, <3>2
    <3> QED BY <3>1, <3>2, Zenon
  <2>14. End(g[Len(g)]) = e
    <3>1. CASE i = Len(h)
      BY <1>0, <2>7, <2>9, <3>1, Zenon
    <3>2. CASE i # Len(h)
      <4>1. Len(h) \in i + 1 .. Len(h)
        BY <1>0, <3>2
      <4> QED BY <1>0, <2>7, <4>1, Zenon
    <3> QED BY <3>1, <3>2, Zenon
  <2>15. Spans(g, e)
    BY <2>7, <2>10, <2>13, <2>14, Zenon DEF Spans
  <2>16. g[i].free /\ g[i].addr = h[i].addr /\ g[i].size >= n
    <3>1. n >= n
      OBVIOUS
    <3> QED BY <2>4, <2>7, <3>1, Zenon
  <2>17. SplitDone(g, h, i, n, e)
    BY <2>8, <2>11, <2>12, <2>13, <2>15, <2>16, Zenon DEF SplitDone
  <2> QED BY <2>17, Zenon DEF g
<1> QED BY <1>1, <1>2, Zenon

(* g is h with the flag of block i set to f. *)
Flagged(g, h, i, f, e) ==
  /\ Spans(g, e) /\ Len(g) = Len(h)
  /\ g[i].addr = h[i].addr /\ g[i].size = h[i].size /\ g[i].free = f
  /\ \A k \in 1 .. Len(h) : k # i => g[k] = h[k]

LEMMA FlagFacts ==
  ASSUME NEW h, NEW e, Spans(h, e), NEW i \in 1 .. Len(h), NEW f \in BOOLEAN
  PROVE  Flagged([h EXCEPT ![i].free = f], h, i, f, e)
<1> DEFINE c == [h[i] EXCEPT !.free = f]
           g == [h EXCEPT ![i] = c]
<1>0. /\ h \in Seq(Headers) /\ Len(h) \in Nat /\ h[i] \in Headers /\ i \in Nat
      /\ h # <<>> /\ h[1].addr = 0 /\ End(h[Len(h)]) = e
      /\ \A k \in 1 .. Len(h) - 1 : End(h[k]) = h[k + 1].addr
  BY DEF Spans
<1>1. c \in Headers /\ c.addr = h[i].addr /\ c.size = h[i].size /\ c.free = f
  BY <1>0, Zenon DEF Headers
<1>2. [h EXCEPT ![i].free = f] = g
  BY Zenon
<1> HIDE DEF c
<1>3. g \in Seq(Headers) /\ Len(g) = Len(h) /\ g[i] = c
      /\ \A k \in 1 .. Len(h) : k # i => g[k] = h[k]
  BY <1>0, <1>1
<1> HIDE DEF g
<1>4. End(c) = End(h[i])
  BY <1>1, Zenon DEF End
<1>5. \A k \in 1 .. Len(h) : End(g[k]) = End(h[k]) /\ g[k].addr = h[k].addr
  BY <1>1, <1>3, <1>4, Zenon
<1>6. 1 \in 1 .. Len(h) /\ Len(h) \in 1 .. Len(h) /\ g # <<>>
      /\ \A k \in 1 .. Len(h) - 1 : k \in 1 .. Len(h) /\ k + 1 \in 1 .. Len(h)
  BY <1>0, <1>3
<1>7. Spans(g, e)
  BY <1>0, <1>3, <1>5, <1>6, Zenon DEF Spans
<1> QED BY <1>1, <1>2, <1>3, <1>7, Zenon DEF Flagged

LEMMA MarkUsed ==
  ASSUME NEW h, NEW e, Spans(h, e), NEW i \in 1 .. Len(h), h[i].free,
         \A k \in 1 .. Len(h) - 1 : k # i => ~ (h[k].free /\ h[k + 1].free),
         NEW g, Flagged(g, h, i, FALSE, e)
  PROVE  /\ Apart(g) /\ InUse(g) = InUse(h) \cup {g[i]}
         /\ TakenIn(g) = TakenIn(h) + h[i].size
         /\ \A b \in InUse(h) : b.addr # h[i].addr
<1>0. /\ h \in Seq(Headers) /\ g \in Seq(Headers) /\ Len(h) \in Nat /\ Len(g) = Len(h)
      /\ g[i].size = h[i].size /\ g[i].free = FALSE
      /\ \A k \in 1 .. Len(h) : k # i => g[k] = h[k]
  BY DEF Spans, Flagged
<1>1. Apart(g)
  <2> SUFFICES ASSUME NEW k \in 1 .. Len(g) - 1 PROVE ~ (g[k].free /\ g[k + 1].free)
    BY Zenon DEF Apart
  <2>1. k \in 1 .. Len(h) /\ k + 1 \in 1 .. Len(h) /\ k \in 1 .. Len(h) - 1
    BY <1>0
  <2>2. CASE k = i \/ k + 1 = i
    BY <1>0, <2>2, Zenon
  <2>3. CASE k # i /\ k + 1 # i
    BY <1>0, <2>1, <2>3, Zenon
  <2> QED BY <2>2, <2>3, Zenon
<1>2. InUse(g) = InUse(h) \cup {g[i]}
  <2>1. ASSUME NEW x \in InUse(g) PROVE x \in InUse(h) \cup {g[i]}
    <3>1. PICK k \in 1 .. Len(g) : ~ g[k].free /\ x = g[k]
      BY <1>0, InUseIff
    <3> QED BY <1>0, <3>1, InUseIff, Zenon
  <2>2. ASSUME NEW x \in InUse(h) PROVE x \in InUse(g)
    <3>1. PICK k \in 1 .. Len(h) : ~ h[k].free /\ x = h[k]
      BY <1>0, InUseIff, Zenon
    <3> QED BY <1>0, <3>1, InUseIff, Zenon
  <2>3. g[i] \in InUse(g)
    BY <1>0, InUseIff, Zenon
  <2> QED BY <2>1, <2>2, <2>3, Zenon
<1>3. TakenIn(g) = TakenIn(h) + h[i].size
  <2>1. TakenIn(g) = TakenIn(h) - Taken(h[i]) + Taken(g[i])
    BY <1>0, TakenReplace, Zenon
  <2>2. Taken(h[i]) = 0 /\ Taken(g[i]) = h[i].size
    BY <1>0, Zenon DEF Taken
  <2>3. TakenIn(h) \in Int
    BY <1>0, TakenType, Zenon
  <2> QED BY <2>1, <2>2, <2>3
<1>4. ASSUME NEW b \in InUse(h) PROVE b.addr # h[i].addr
  <2>1. PICK k \in 1 .. Len(h) : ~ h[k].free /\ b = h[k]
    BY <1>0, InUseIff, Zenon
  <2> QED BY <2>1, AddressesDiffer, Zenon
<1> QED BY <1>1, <1>2, <1>3, <1>4, Zenon

LEMMA MarkFree ==
  ASSUME NEW h, NEW e, Spans(h, e), NEW i \in 1 .. Len(h), ~ h[i].free,
         NEW g, Flagged(g, h, i, TRUE, e)
  PROVE  /\ InUse(g) = InUse(h) \ {h[i]}
         /\ TakenIn(g) = TakenIn(h) - h[i].size
<1>0. /\ h \in Seq(Headers) /\ g \in Seq(Headers) /\ Len(h) \in Nat /\ Len(g) = Len(h)
      /\ g[i].size = h[i].size /\ g[i].free = TRUE /\ h[i] \in Headers
      /\ \A k \in 1 .. Len(h) : k # i => g[k] = h[k]
  BY DEF Spans, Flagged
<1>1. InUse(g) = InUse(h) \ {h[i]}
  <2>1. ASSUME NEW x \in InUse(g) PROVE x \in InUse(h) \ {h[i]}
    <3>1. PICK k \in 1 .. Len(g) : ~ g[k].free /\ x = g[k]
      BY <1>0, InUseIff, Zenon
    <3>2. k # i /\ k \in 1 .. Len(h) /\ x = h[k] /\ ~ h[k].free
      BY <1>0, <3>1, Zenon
    <3>3. x # h[i]
      BY <3>2, AddressesDiffer, Zenon
    <3> QED BY <1>0, <3>2, <3>3, InUseIff, Zenon
  <2>2. ASSUME NEW x \in InUse(h), x # h[i] PROVE x \in InUse(g)
    <3>1. PICK k \in 1 .. Len(h) : ~ h[k].free /\ x = h[k]
      BY <1>0, InUseIff
    <3> QED BY <1>0, <2>2, <3>1, InUseIff, Zenon
  <2> QED BY <2>1, <2>2, Zenon
<1>2. TakenIn(g) = TakenIn(h) - h[i].size
  <2>1. TakenIn(g) = TakenIn(h) - Taken(h[i]) + Taken(g[i])
    BY <1>0, TakenReplace, Zenon
  <2>2. Taken(h[i]) = h[i].size /\ Taken(g[i]) = 0 /\ h[i].size \in Nat
    BY <1>0, HeaderEnds, Zenon DEF Taken
  <2>3. TakenIn(h) \in Int
    BY <1>0, TakenType, Zenon
  <2> QED BY <2>1, <2>2, <2>3
<1> QED BY <1>1, <1>2, Zenon

(* What the walk of coalesce_free_blocks has made of the first blocks.      *)
Walked(c, e, u, s) ==
  Spans(c, e) /\ Apart(c) /\ InUse(c) = u /\ TakenIn(c) = s

LEMMA AbsorbFirst ==
  ASSUME NEW b \in Headers, b.addr = 0
  PROVE  Walked(Absorb(<<>>, b), End(b), IF b.free THEN {} ELSE {b}, Taken(b))
<1> DEFINE c == <<b>>
<1>1. Absorb(<<>>, b) = c
  BY DEF Absorb
<1>2. c \in Seq(Headers) /\ Len(c) = 1 /\ c[1] = b /\ c # <<>> /\ c = Append(<<>>, b)
      /\ <<>> \in Seq(Headers)
  OBVIOUS
<1> HIDE DEF c
<1>3. Spans(c, End(b)) /\ Apart(c)
  <2>1. 1 .. Len(c) - 1 = {}
    BY <1>2
  <2> QED BY <1>2, <2>1, Zenon DEF Spans, Apart
<1>4. InUse(c) = IF b.free THEN {} ELSE {b}
  <2>1. \A x : x \in InUse(c) <=> ~ b.free /\ x = b
    <3> TAKE x
    <3>1. 1 .. Len(c) = {1}
      BY <1>2
    <3>a. c \in Seq(Headers)
      BY <1>2, Zenon
    <3>2. x \in InUse(c) <=> \E j \in 1 .. Len(c) : ~ c[j].free /\ x = c[j]
      BY <3>a DEF InUse
    <3> QED BY <1>2, <3>1, <3>2, Zenon
  <2> QED BY <2>1, Zenon
<1>5. TakenIn(c) = Taken(b)
  <2>1. TakenIn(<<>>) = 0
    BY <1>2, TakenEmpty, Zenon
  <2>2. TakenIn(c) = TakenIn(<<>>) + Taken(b)
    BY <1>2, TakenAppend, Zenon
  <2> QED BY <2>1, <2>2, HeaderEnds
<1> QED BY <1>1, <1>3, <1>4, <1>5, Zenon DEF Walked

LEMMA AbsorbNext ==
  ASSUME NEW b \in Headers, NEW c, NEW u, NEW s \in Int, Walked(c, b.addr, u, s)
  PROVE  Walked(Absorb(c, b), End(b), u \cup (IF b.free THEN {} ELSE {b}), s + Taken(b))
<1> DEFINE n == Len(c)
<1>0. /\ c \in Seq(Headers) /\ n \in Nat /\ c # <<>> /\ n > 0 /\ c[1].addr = 0 /\ End(c[n]) = b.addr
      /\ c[n] \in Headers /\ n \in 1 .. n
      /\ \A i \in 1 .. n - 1 : End(c[i]) = c[i + 1].addr
      /\ \A i \in 1 .. n - 1 : ~ (c[i].free /\ c[i + 1].free)
      /\ InUse(c) = u /\ TakenIn(c) = s
  BY DEF Walked, Spans, Apart
<1>1. CASE c[n].free /\ b.free
  <2> DEFINE d == [c[n] EXCEPT !.size = @ + Header + b.size]
             g == [c EXCEPT ![n] = d]
  <2>1. Absorb(c, b) = g
    BY <1>0, <1>1, Zenon DEF Absorb
  <2>2. /\ c[n].size \in Nat /\ c[n].addr \in Nat /\ b.size \in Nat /\ Header \in Nat
        /\ c[n].size + Header + b.size \in Nat
    BY <1>0, HeaderEnds, HeapConstants, SMTT(20)
  <2>3. d \in Headers /\ d.addr = c[n].addr /\ d.free = c[n].free /\ d.size = c[n].size + Header + b.size
    BY <1>0, <2>2, Zenon DEF Headers
  <2> HIDE DEF d
  <2>4. g \in Seq(Headers) /\ Len(g) = n /\ g[n] = d /\ \A i \in 1 .. n : i # n => g[i] = c[i]
    BY <1>0, <2>3
  <2> HIDE DEF g
  <2>5. End(d) = End(b)
    BY <1>0, <2>2, <2>3, SMTT(20) DEF End
  <2>6. ASSUME NEW i \in 1 .. n - 1
        PROVE  End(g[i]) = g[i + 1].addr /\ ~ (g[i].free /\ g[i + 1].free)
    <3>1. i \in 1 .. n /\ i # n /\ i + 1 \in 1 .. n
      BY <1>0
    <3>2. g[i] = c[i] /\ g[i + 1].addr = c[i + 1].addr /\ g[i + 1].free = c[i + 1].free
      BY <2>3, <2>4, <3>1, Zenon
    <3> QED BY <1>0, <3>2, Zenon
  <2>7. g # <<>> /\ g[1].addr = 0
    BY <1>0, <2>3, <2>4
  <2>8. Spans(g, End(b)) /\ Apart(g)
    BY <2>4, <2>5, <2>6, <2>7, Zenon DEF Spans, Apart
  <2>9. InUse(g) = u
    <3>1. \A x : x \in InUse(g) <=> x \in InUse(c)
      <4> TAKE x
      <4>1. x \in InUse(g) <=> \E j \in 1 .. n : ~ g[j].free /\ x = g[j]
        BY <2>4, InUseIff
      <4>2. x \in InUse(c) <=> \E j \in 1 .. n : ~ c[j].free /\ x = c[j]
        BY <1>0, InUseIff, Zenon
      <4>3. \A j \in 1 .. n : j = n \/ g[j] = c[j]
        BY <2>4, Zenon
      <4>4. g[n].free /\ c[n].free
        BY <1>1, <2>3, <2>4, Zenon
      <4> QED BY <4>1, <4>2, <4>3, <4>4, Zenon
    <3> QED BY <1>0, <3>1, Zenon
  <2>10. TakenIn(g) = s + Taken(b)
    <3>1. TakenIn(g) = TakenIn(c) - Taken(c[n]) + Taken(g[n])
      BY <1>0, <2>4, TakenReplace, Zenon
    <3>2. Taken(c[n]) = 0 /\ Taken(g[n]) = 0 /\ Taken(b) = 0
      BY <1>1, <2>3, <2>4, Zenon DEF Taken
    <3> QED BY <1>0, <3>1, <3>2
  <2>11. u \cup (IF b.free THEN {} ELSE {b}) = u
    BY <1>1, Zenon
  <2> QED BY <2>1, <2>8, <2>9, <2>10, <2>11, Zenon DEF Walked
<1>2. CASE ~ (c[n].free /\ b.free)
  <2> DEFINE g == Append(c, b)
  <2>1. Absorb(c, b) = g
    BY <1>0, <1>2, Zenon DEF Absorb
  <2>2. g \in Seq(Headers) /\ Len(g) = n + 1 /\ g[n + 1] = b /\ \A i \in 1 .. n : g[i] = c[i]
    BY <1>0
  <2>3. TakenIn(g) = s + Taken(b)
    BY <1>0, TakenAppend, Zenon
  <2> HIDE DEF g
  <2>4. ASSUME NEW i \in 1 .. Len(g) - 1
        PROVE  End(g[i]) = g[i + 1].addr /\ ~ (g[i].free /\ g[i + 1].free)
    <3>1. CASE i = n
      BY <1>0, <1>2, <2>2, <3>1, Zenon
    <3>2. CASE i # n
      <4>1. i \in 1 .. n - 1 /\ i \in 1 .. n /\ i + 1 \in 1 .. n
        BY <1>0, <2>2, <3>2
      <4> QED BY <1>0, <2>2, <4>1, Zenon
    <3> QED BY <3>1, <3>2, Zenon
  <2>5. g # <<>> /\ g[1].addr = 0 /\ End(g[Len(g)]) = End(b)
    BY <1>0, <2>2
  <2>6. Spans(g, End(b)) /\ Apart(g)
    BY <2>2, <2>4, <2>5, Zenon DEF Spans, Apart
  <2>7. InUse(g) = u \cup (IF b.free THEN {} ELSE {b})
    <3>1. \A x : x \in InUse(g) <=> x \in InUse(c) \/ (~ b.free /\ x = b)
      <4> TAKE x
      <4>1. x \in InUse(g) <=> \E j \in 1 .. n + 1 : ~ g[j].free /\ x = g[j]
        BY <2>2, InUseIff
      <4>2. x \in InUse(c) <=> \E j \in 1 .. n : ~ c[j].free /\ x = c[j]
        BY <1>0, InUseIff, Zenon
      <4>3. 1 .. n + 1 = (1 .. n) \cup {n + 1}
        BY <1>0
      <4>4. \A j \in 1 .. n : g[j] = c[j]
        BY <2>2, Zenon
      <4>5. g[n + 1] = b
        BY <2>2, Zenon
      <4> HIDE DEF n
      <4>6. x \in InUse(g) => x \in InUse(c) \/ (~ b.free /\ x = b)
        BY <4>1, <4>2, <4>3, <4>4, <4>5, Zenon
      <4>7. x \in InUse(c) \/ (~ b.free /\ x = b) => x \in InUse(g)
        BY <4>1, <4>2, <4>3, <4>4, <4>5, Zenon
      <4> QED BY <4>6, <4>7, Zenon
    <3> QED BY <1>0, <3>1, Zenon
  <2> QED BY <2>1, <2>3, <2>6, <2>7, Zenon DEF Walked
<1> QED BY <1>1, <1>2, Zenon

LEMMA WalkExists ==
  ASSUME NEW h, NEW n \in Nat
  PROVE  \E f : f = [k \in 0 .. n |-> IF k = 0 THEN <<>> ELSE Absorb(f[k - 1], h[k])]
<1> DEFINE G == {m \in Nat : \E f : f = [k \in 0 .. m |-> IF k = 0 THEN <<>>
                                                        ELSE Absorb(f[k - 1], h[k])]}
<1>1. 0 \in G
  <2> DEFINE f == [k \in 0 .. 0 |-> <<>>]
  <2>1. f = [k \in 0 .. 0 |-> IF k = 0 THEN <<>> ELSE Absorb(f[k - 1], h[k])]
    OBVIOUS
  <2> HIDE DEF f
  <2> QED BY <2>1, Zenon
<1>2. ASSUME NEW m \in Nat, m \in G PROVE m + 1 \in G
  <2>1. PICK f : f = [k \in 0 .. m |-> IF k = 0 THEN <<>> ELSE Absorb(f[k - 1], h[k])]
    BY <1>2, Zenon
  <2> DEFINE g == [k \in 0 .. m + 1 |-> IF k = m + 1 THEN Absorb(f[m], h[m + 1]) ELSE f[k]]
  <2>2. ASSUME NEW k \in 0 .. m + 1
        PROVE  g[k] = IF k = 0 THEN <<>> ELSE Absorb(g[k - 1], h[k])
    <3>1. CASE k = m + 1
      <4>1. g[k] = Absorb(f[m], h[k]) /\ k # 0 /\ k - 1 = m /\ m \in 0 .. m + 1 /\ m # m + 1
        BY <3>1
      <4>2. g[m] = f[m]
        BY <4>1, Zenon
      <4> HIDE DEF g
      <4> QED BY <4>1, <4>2, Zenon
    <3>2. CASE k # m + 1
      <4>1. k \in 0 .. m /\ g[k] = f[k]
        BY <3>2
      <4>2. f[k] = IF k = 0 THEN <<>> ELSE Absorb(f[k - 1], h[k])
        BY <2>1, <4>1, Zenon
      <4>3. k # 0 => g[k - 1] = f[k - 1]
        BY <4>1
      <4> HIDE DEF g
      <4> QED BY <4>1, <4>2, <4>3, Zenon
    <3> QED BY <3>1, <3>2, Zenon
  <2>3. g = [k \in 0 .. m + 1 |-> g[k]]
    BY Zenon
  <2> HIDE DEF g
  <2>4. g = [k \in 0 .. m + 1 |-> IF k = 0 THEN <<>> ELSE Absorb(g[k - 1], h[k])]
    BY <2>2, <2>3, Zenon
  <2> QED BY <2>4
<1>3. Nat \subseteq G
  <2> HIDE DEF G
  <2> QED BY <1>1, <1>2, NatSetInduction, Zenon
<1> QED BY <1>3, Zenon

(* The blocks in use among the first k. *)
UsedUpTo(h, k) == {h[j] : j \in {i \in 1 .. k : ~ h[i].free}}

(* coalesce_free_blocks keeps the extent of the heap and every block in     *)
(* use, and leaves no two free neighbours.                                  *)
LEMMA CoalesceOk ==
  ASSUME NEW h, NEW e, Spans(h, e)
  PROVE  Walked(coalesce_free_blocks(h), e, InUse(h), TakenIn(h))
<1> DEFINE w == CHOOSE f : f = [k \in 0 .. Len(h) |-> IF k = 0 THEN <<>> ELSE Absorb(f[k - 1], h[k])]
<1>0. /\ h \in Seq(Headers) /\ Len(h) \in Nat /\ Len(h) > 0 /\ h[1].addr = 0 /\ End(h[Len(h)]) = e
      /\ \A i \in 1 .. Len(h) - 1 : End(h[i]) = h[i + 1].addr
      /\ \A k \in 1 .. Len(h) : h[k] \in Headers
  BY DEF Spans
<1>1. w = [k \in 0 .. Len(h) |-> IF k = 0 THEN <<>> ELSE Absorb(w[k - 1], h[k])]
  BY <1>0, WalkExists, Zenon
<1>2. coalesce_free_blocks(h) = w[Len(h)]
  BY Zenon DEF coalesce_free_blocks
<1> HIDE DEF w
<1>3. w[0] = <<>> /\ \A k \in 1 .. Len(h) : w[k] = Absorb(w[k - 1], h[k])
  <2>1. 0 \in 0 .. Len(h) /\ \A k \in 1 .. Len(h) : k \in 0 .. Len(h) /\ k # 0
    BY <1>0
  <2> QED BY <1>1, <2>1, Zenon
<1>4. PICK s : IsSum(h, s) /\ TakenIn(h) = s[Len(h)]
  BY <1>0, TakenIsSum, Zenon
<1>5. s \in [0 .. Len(h) -> Int] /\ s[0] = 0 /\ \A k \in 1 .. Len(h) : s[k] = s[k - 1] + Taken(h[k])
  BY <1>4, Zenon DEF IsSum
<1> DEFINE G == {k \in Nat : k + 1 <= Len(h) =>
                   Walked(w[k + 1], End(h[k + 1]), UsedUpTo(h, k + 1), s[k + 1])}
<1>6. 0 \in G
  <2>1. 1 \in 1 .. Len(h) /\ 1 - 1 = 0 /\ h[1] \in Headers
    BY <1>0
  <2>2. w[1] = Absorb(<<>>, h[1])
    BY <1>3, <2>1, Zenon
  <2>3. s[1] = Taken(h[1])
    BY <1>5, <2>1, HeaderEnds
  <2>4. UsedUpTo(h, 1) = IF h[1].free THEN {} ELSE {h[1]}
    <3>1. 1 .. 1 = {1}
      OBVIOUS
    <3> QED BY <3>1, Zenon DEF UsedUpTo
  <2>5. Walked(w[1], End(h[1]), UsedUpTo(h, 1), s[1])
    BY <1>0, <2>1, <2>2, <2>3, <2>4, AbsorbFirst, Zenon
  <2> QED BY <2>5
<1>7. ASSUME NEW k \in Nat, k \in G PROVE k + 1 \in G
  <2> SUFFICES ASSUME (k + 1) + 1 <= Len(h)
               PROVE  Walked(w[(k + 1) + 1], End(h[(k + 1) + 1]), UsedUpTo(h, (k + 1) + 1), s[(k + 1) + 1])
    OBVIOUS
  <2> DEFINE m == k + 1
  <2>1. /\ m \in 1 .. Len(h) - 1 /\ m + 1 \in 1 .. Len(h) /\ (m + 1) - 1 = m /\ m \in 0 .. Len(h) /\ m \in Nat
    BY <1>0
  <2>2. Walked(w[m], End(h[m]), UsedUpTo(h, m), s[m])
    BY <1>0, <1>7
  <2> HIDE DEF m
  <2>3. w[m + 1] = Absorb(w[m], h[m + 1]) /\ s[m + 1] = s[m] + Taken(h[m + 1]) /\ s[m] \in Int
        /\ End(h[m]) = h[m + 1].addr /\ h[m + 1] \in Headers
    BY <1>0, <1>3, <1>5, <2>1, Zenon
  <2>4. UsedUpTo(h, m + 1) = UsedUpTo(h, m) \cup (IF h[m + 1].free THEN {} ELSE {h[m + 1]})
    <3>1. 1 .. m + 1 = (1 .. m) \cup {m + 1}
      BY <2>1
    <3> QED BY <3>1, Zenon DEF UsedUpTo
  <2>5. Walked(w[m + 1], End(h[m + 1]), UsedUpTo(h, m + 1), s[m + 1])
    BY <2>2, <2>3, <2>4, AbsorbNext, Zenon
  <2> QED BY <2>5, Zenon DEF m
<1>8. Nat \subseteq G
  <2> HIDE DEF G
  <2> QED BY <1>6, <1>7, NatSetInduction, Zenon
<1>9. Walked(w[Len(h)], End(h[Len(h)]), UsedUpTo(h, Len(h)), s[Len(h)])
  <2>1. Len(h) - 1 \in Nat /\ (Len(h) - 1) + 1 = Len(h) /\ Len(h) <= Len(h)
    BY <1>0
  <2> QED BY <1>8, <2>1, Zenon
<1>10. UsedUpTo(h, Len(h)) = InUse(h)
  <2>1. DOMAIN h = 1 .. Len(h)
    BY <1>0
  <2> QED BY <2>1, Zenon DEF UsedUpTo, InUse
<1> QED BY <1>0, <1>2, <1>4, <1>9, <1>10, Zenon

-----------------------------------------------------------------------------
(* The invariant, as a predicate of the heap k and the pointers in use l:   *)
(* the callers hold exactly the blocks in use.                              *)
HeapRecords ==
  [blocks : Seq(Headers), total_allocated : Int, total_free : Int, allocation_count : Int]

HeapOk(k, l) ==
  /\ k \in HeapRecords
  /\ k.blocks # <<>> => Spans(k.blocks, HeapSize)
  /\ Apart(k.blocks)
  /\ IsFiniteSet(DOMAIN l)
  /\ \A p \in DOMAIN l : l[p] \in Nat
  /\ DOMAIN l = {b.addr + Header : b \in InUse(k.blocks)}
  /\ \A b \in InUse(k.blocks) : l[b.addr + Header] <= b.size
  /\ k.total_allocated = TakenIn(k.blocks)
  /\ k.total_allocated + k.total_free = HeapSize
  /\ k.allocation_count = Cardinality(DOMAIN l)

HeapInv == HeapOk(heap, live)

LEMMA EmptyList ==
  /\ <<>> \in Seq(Headers) /\ Apart(<<>>) /\ InUse(<<>>) = {} /\ TakenIn(<<>>) = 0
<1>1. <<>> \in Seq(Headers) /\ Apart(<<>>) /\ InUse(<<>>) = {}
  BY DEF Apart, InUse
<1>2. TakenIn(<<>>) = 0
  <2>1. <<>> \in Seq(Headers) /\ Len(<<>>) = 0
    OBVIOUS
  <2> QED BY <2>1, TakenEmpty, Zenon
<1> QED BY <1>1, <1>2, Zenon

(* init_heap makes one free block of the whole heap. *)
LEMMA InitListOk ==
  ASSUME NEW h \in Seq(Headers), h # <<>> => Spans(h, HeapSize), Apart(h)
  PROVE  /\ Spans(init_heap(h), HeapSize) /\ Apart(init_heap(h))
         /\ InUse(init_heap(h)) = InUse(h) /\ TakenIn(init_heap(h)) = TakenIn(h)
<1>1. CASE h # <<>>
  BY <1>1, Zenon DEF init_heap
<1>2. CASE h = <<>>
  <2> DEFINE b == Block(0, HeapSize - Header, TRUE)
  <2>1. b \in Headers /\ b.addr = 0 /\ b.free /\ End(b) = HeapSize
    BY HeapConstants DEF Block, Headers, End
  <2>2. init_heap(h) = Absorb(<<>>, b)
    BY <1>2 DEF init_heap, Absorb
  <2> HIDE DEF b
  <2>3. Walked(init_heap(h), HeapSize, {}, Taken(b))
    BY <2>1, <2>2, AbsorbFirst, Zenon
  <2>4. Taken(b) = 0
    BY <2>1, Zenon DEF Taken
  <2> QED BY <1>2, <2>3, <2>4, EmptyList, Zenon DEF Walked
<1> QED BY <1>1, <1>2, Zenon

LEMMA FindFacts ==
  ASSUME NEW h \in Seq(Headers), NEW n \in Nat
  PROVE  \/ find_free_block(h, n) = 0
         \/ /\ find_free_block(h, n) \in 1 .. Len(h)
            /\ h[find_free_block(h, n)].free /\ h[find_free_block(h, n)].size >= n
<1> DEFINE I == {i \in DOMAIN h : h[i].free /\ h[i].size >= n}
<1>1. find_free_block(h, n) = IF I = {} THEN 0 ELSE Min(I)
  BY Zenon DEF find_free_block, FirstOf
<1>2. I \in SUBSET Nat /\ \A i \in I : i \in 1 .. Len(h) /\ h[i].free /\ h[i].size >= n
  OBVIOUS
<1> HIDE DEF I
<1>3. I # {} => Min(I) \in I
  <2> SUFFICES ASSUME I # {} PROVE Min(I) \in I
    BY Zenon
  <2>1. PICK m \in I : \A k \in I : ~ (<<k, m>> \in OpToRel(<, Nat))
    BY <1>2, WFMin, NatLessThanWellFounded, Zenon
  <2>2. \A k \in I : ~ (k < m)
    BY <1>2, <2>1, Zenon DEF OpToRel
  <2>3. \A k \in I : m <= k
    BY <1>2, <2>2
  <2> QED BY <2>3, Zenon DEF Min
<1> QED BY <1>1, <1>2, <1>3, Zenon

LEMMA HeaderIs ==
  ASSUME NEW k, NEW e, Spans(k.blocks, e), NEW i \in 1 .. Len(k.blocks), NEW p,
         p = k.blocks[i].addr + Header
  PROVE  HeaderOf(k, p) = i
<1> DEFINE h == k.blocks
           I == {j \in DOMAIN h : h[j].addr + Header = p}
<1>1. HeaderOf(k, p) = IF I = {} THEN 0 ELSE Min(I)
  BY Zenon DEF HeaderOf, FirstOf
<1>2. I = {i}
  <2>1. i \in I
    OBVIOUS
  <2>2. ASSUME NEW j \in I PROVE j = i
    <3>1. j \in 1 .. Len(h) /\ h[j].addr + Header = h[i].addr + Header
      OBVIOUS
    <3>2. h[j].addr \in Nat /\ h[i].addr \in Nat /\ Header \in Nat
      <4>1. h[j] \in Headers /\ h[i] \in Headers
        BY <3>1 DEF Spans
      <4> QED BY <4>1, HeaderEnds, HeapConstants, Zenon
    <3>3. h[j].addr = h[i].addr
      BY <3>1, <3>2, SMTT(20)
    <3> QED BY <3>1, <3>3, AddressesDiffer, Zenon
  <2> QED BY <2>1, <2>2, Zenon
<1>3. Min({i}) = i
  BY DEF Min
<1> QED BY <1>1, <1>2, <1>3, Zenon

(* The pointers in use with one more, and with one less. *)
With(l, p, n) == [q \in DOMAIN l \cup {p} |-> IF q = p THEN n ELSE l[q]]
Less(l, p) == [q \in DOMAIN l \ {p} |-> l[q]]

KmallocDone(r, l, n) ==
  \/ r.ptr = 0 /\ HeapOk(r.heap, l)
  \/ r.ptr # 0 /\ r.ptr \notin DOMAIN l /\ HeapOk(r.heap, With(l, r.ptr, n))

LEMMA AlignFacts ==
  ASSUME NEW n \in Nat
  PROVE  Align(n) \in Nat /\ n <= Align(n)
BY DEF Align

LEMMA KmallocOk ==
  ASSUME NEW k, NEW l, HeapOk(k, l), NEW n \in Nat
  PROVE  KmallocDone(kmalloc(k, n), l, n)
<1> DEFINE size == Align(n)
           h0 == init_heap(k.blocks)
           i == find_free_block(h0, size)
           h == split_block(h0, i, size)
           g == [h EXCEPT ![i].free = FALSE]
           r == kmalloc(k, n)
<1>0. /\ k \in HeapRecords /\ k.blocks \in Seq(Headers)
      /\ k.blocks # <<>> => Spans(k.blocks, HeapSize)
      /\ Apart(k.blocks)
      /\ IsFiniteSet(DOMAIN l)
      /\ \A p \in DOMAIN l : l[p] \in Nat
      /\ DOMAIN l = {b.addr + Header : b \in InUse(k.blocks)}
      /\ \A b \in InUse(k.blocks) : l[b.addr + Header] <= b.size
      /\ k.total_allocated = TakenIn(k.blocks)
      /\ k.total_allocated + k.total_free = HeapSize
      /\ k.allocation_count = Cardinality(DOMAIN l)
      /\ k.total_allocated \in Int /\ k.total_free \in Int /\ k.allocation_count \in Int
  BY Zenon DEF HeapOk, HeapRecords
<1>1. size \in Nat /\ n <= size
  BY AlignFacts, Zenon
<1>2. /\ Spans(h0, HeapSize) /\ Apart(h0) /\ h0 \in Seq(Headers)
      /\ InUse(h0) = InUse(k.blocks) /\ TakenIn(h0) = TakenIn(k.blocks)
  <2>1. /\ Spans(h0, HeapSize) /\ Apart(h0)
        /\ InUse(h0) = InUse(k.blocks) /\ TakenIn(h0) = TakenIn(k.blocks)
    BY <1>0, InitListOk, Zenon
  <2> QED BY <2>1, Zenon DEF Spans
<1>3. r = IF i = 0
          THEN [heap |-> [k EXCEPT !.blocks = h0], ptr |-> 0]
          ELSE [heap |-> [blocks |-> g,
                          total_allocated |-> k.total_allocated + h[i].size,
                          total_free |-> k.total_free - h[i].size,
                          allocation_count |-> k.allocation_count + 1],
                ptr |-> h[i].addr + Header]
  BY Zenon DEF kmalloc
<1>4. i = 0 \/ (i \in 1 .. Len(h0) /\ h0[i].free /\ h0[i].size >= size)
  BY <1>1, <1>2, FindFacts, Zenon
<1> HIDE DEF size, h0, i, h, g, r
<1>5. CASE i = 0
  <2> DEFINE m == [k EXCEPT !.blocks = h0]
  <2>1. m \in HeapRecords /\ m.blocks = h0 /\ m.total_allocated = k.total_allocated
        /\ m.total_free = k.total_free /\ m.allocation_count = k.allocation_count
    BY <1>0, <1>2, Zenon DEF HeapRecords
  <2>2. r.ptr = 0 /\ r.heap = m
    BY <1>3, <1>5, Zenon
  <2> HIDE DEF m
  <2>3. HeapOk(m, l)
    BY <1>0, <1>2, <2>1, Zenon DEF HeapOk
  <2> QED BY <2>2, <2>3, Zenon DEF KmallocDone, r
<1>6. CASE i # 0
  <2>1. i \in 1 .. Len(h0) /\ h0[i].free /\ h0[i].size >= size
    BY <1>4, <1>6, Zenon
  <2>2. SplitDone(h, h0, i, size, HeapSize)
    BY <1>1, <1>2, <2>1, SplitOk, Zenon DEF h
  <2>3. /\ Spans(h, HeapSize) /\ i \in 1 .. Len(h) /\ h[i].free /\ h[i].size >= size
        /\ \A j \in 1 .. Len(h) - 1 : j # i => ~ (h[j].free /\ h[j + 1].free)
        /\ InUse(h) = InUse(k.blocks) /\ TakenIn(h) = TakenIn(k.blocks)
    BY <1>2, <2>2, Zenon DEF SplitDone
  <2>4. Flagged(g, h, i, FALSE, HeapSize)
    BY <2>3, FlagFacts, Zenon DEF g
  <2>5. /\ Apart(g) /\ InUse(g) = InUse(h) \cup {g[i]}
        /\ TakenIn(g) = TakenIn(h) + h[i].size
        /\ \A b \in InUse(h) : b.addr # h[i].addr
    BY <2>3, <2>4, MarkUsed, Zenon
  <2>6. /\ Spans(g, HeapSize) /\ g \in Seq(Headers) /\ g[i].addr = h[i].addr /\ g[i].size = h[i].size
    BY <2>4, Zenon DEF Flagged, Spans
  <2>7. h[i] \in Headers /\ h[i].addr \in Nat /\ h[i].size \in Nat /\ Header \in Nat /\ Header > 0
    <3>1. h[i] \in Headers
      BY <2>3 DEF Spans
    <3> QED BY <3>1, HeaderEnds, HeapConstants, Zenon
  <2> DEFINE p == h[i].addr + Header
             l2 == With(l, p, n)
             m == [blocks |-> g,
                   total_allocated |-> k.total_allocated + h[i].size,
                   total_free |-> k.total_free - h[i].size,
                   allocation_count |-> k.allocation_count + 1]
  <2>8. r.ptr = p /\ r.heap = m
    BY <1>3, <1>6, Zenon
  <2>9. p \in Nat /\ p # 0
    BY <2>7
  <2>10. \A b \in InUse(h) : b.addr \in Nat /\ b.addr + Header # p
    <3> TAKE b \in InUse(h)
    <3>1. b.addr # h[i].addr
      BY <2>5, Zenon
    <3>2. b.addr \in Nat
      <4>1. b \in Headers
        BY <2>3, InUseIff DEF Spans
      <4> QED BY <4>1, HeaderEnds, Zenon
    <3> QED BY <2>7, <3>1, <3>2
  <2>11. p \notin DOMAIN l
    BY <1>0, <2>3, <2>10, Zenon
  <2>12. DOMAIN l2 = DOMAIN l \cup {p} /\ l2[p] = n /\ \A q \in DOMAIN l : l2[q] = l[q]
    BY <2>11, Zenon DEF With
  <2>13. m \in HeapRecords /\ m.blocks = g /\ m.total_allocated = k.total_allocated + h[i].size
         /\ m.total_free = k.total_free - h[i].size /\ m.allocation_count = k.allocation_count + 1
    BY <1>0, <2>6, <2>7, SMTT(20) DEF HeapRecords
  <2>14. p = g[i].addr + Header
    BY <2>6, Zenon
  <2> HIDE DEF p, l2, m
  <2>15. IsFiniteSet(DOMAIN l2) /\ Cardinality(DOMAIN l2) = Cardinality(DOMAIN l) + 1
    <3>1. IsFiniteSet(DOMAIN l) /\ p \notin DOMAIN l /\ DOMAIN l2 = DOMAIN l \cup {p}
      BY <1>0, <2>11, <2>12, Zenon
    <3> QED BY <3>1, FS_AddElement, Zenon
  <2>16. DOMAIN l2 = {b.addr + Header : b \in InUse(g)}
    <3>1. DOMAIN l = {b.addr + Header : b \in InUse(h)}
      BY <1>0, <2>3, Zenon
    <3>2. InUse(g) = InUse(h) \cup {g[i]}
      BY <2>5, Zenon
    <3>3. DOMAIN l2 = DOMAIN l \cup {p}
      BY <2>12, Zenon
    <3> QED BY <2>14, <3>1, <3>2, <3>3, Zenon
  <2>17. ASSUME NEW b \in InUse(g) PROVE l2[b.addr + Header] <= b.size
    <3>1. CASE b \in InUse(h)
      <4>1. b.addr + Header \in DOMAIN l /\ l[b.addr + Header] <= b.size
        BY <1>0, <2>3, <3>1, Zenon
      <4> QED BY <2>12, <4>1, Zenon
    <3>2. CASE b = g[i]
      <4>1. l2[b.addr + Header] = n /\ b.size = h[i].size
        BY <2>6, <2>12, <2>14, <3>2, Zenon
      <4>2. n <= h[i].size
        BY <1>1, <2>3, <2>7
      <4> QED BY <4>1, <4>2, Zenon
    <3> QED BY <2>5, <3>1, <3>2, Zenon
  <2>18. \A q \in DOMAIN l2 : l2[q] \in Nat
    BY <1>0, <2>12, Zenon
  <2>19. m.total_allocated = TakenIn(m.blocks) /\ m.total_allocated + m.total_free = HeapSize
         /\ m.allocation_count = Cardinality(DOMAIN l2)
    BY <1>0, <2>3, <2>5, <2>7, <2>13, <2>15, SMTT(20)
  <2>20. HeapOk(m, l2)
    BY <2>5, <2>6, <2>13, <2>15, <2>16, <2>17, <2>18, <2>19, Zenon DEF HeapOk
  <2> QED BY <2>8, <2>9, <2>11, <2>20, Zenon DEF KmallocDone, l2, r
<1> QED BY <1>5, <1>6, Zenon

LEMMA LiveHeader ==
  ASSUME NEW k, NEW l, HeapOk(k, l), NEW p \in DOMAIN l
  PROVE  /\ Spans(k.blocks, HeapSize)
         /\ HeaderOf(k, p) \in 1 .. Len(k.blocks)
         /\ ~ k.blocks[HeaderOf(k, p)].free
         /\ p = k.blocks[HeaderOf(k, p)].addr + Header
         /\ l[p] <= k.blocks[HeaderOf(k, p)].size
<1>0. /\ k.blocks \in Seq(Headers)
      /\ k.blocks # <<>> => Spans(k.blocks, HeapSize)
      /\ DOMAIN l = {b.addr + Header : b \in InUse(k.blocks)}
      /\ \A b \in InUse(k.blocks) : l[b.addr + Header] <= b.size
  BY Zenon DEF HeapOk, HeapRecords
<1>1. PICK b \in InUse(k.blocks) : p = b.addr + Header
  BY <1>0, Zenon
<1>2. PICK i \in 1 .. Len(k.blocks) : ~ k.blocks[i].free /\ b = k.blocks[i]
  BY <1>0, <1>1, InUseIff, Zenon
<1>3. Spans(k.blocks, HeapSize)
  BY <1>0, <1>2
<1>4. HeaderOf(k, p) = i
  BY <1>1, <1>2, <1>3, HeaderIs, Zenon
<1> QED BY <1>0, <1>1, <1>2, <1>3, <1>4, Zenon

LEMMA KfreeOk ==
  ASSUME NEW k, NEW l, HeapOk(k, l), NEW p \in DOMAIN l
  PROVE  HeapOk(kfree(k, p), Less(l, p))
<1> DEFINE i == HeaderOf(k, p)
           h == k.blocks
           g == [h EXCEPT ![i].free = TRUE]
           c == coalesce_free_blocks(g)
           l2 == Less(l, p)
           m == kfree(k, p)
<1>0. /\ k \in HeapRecords /\ h \in Seq(Headers)
      /\ IsFiniteSet(DOMAIN l)
      /\ \A q \in DOMAIN l : l[q] \in Nat
      /\ DOMAIN l = {b.addr + Header : b \in InUse(h)}
      /\ \A b \in InUse(h) : l[b.addr + Header] <= b.size
      /\ k.total_allocated = TakenIn(h)
      /\ k.total_allocated + k.total_free = HeapSize
      /\ k.allocation_count = Cardinality(DOMAIN l)
      /\ k.total_allocated \in Int /\ k.total_free \in Int /\ k.allocation_count \in Int
  BY Zenon DEF HeapOk, HeapRecords
<1>1. Spans(h, HeapSize) /\ i \in 1 .. Len(h) /\ ~ h[i].free /\ p = h[i].addr + Header
  BY LiveHeader, Zenon
<1>2. m = [blocks |-> c,
           total_allocated |-> k.total_allocated - h[i].size,
           total_free |-> k.total_free + h[i].size,
           allocation_count |-> k.allocation_count - 1]
  BY Zenon DEF kfree
<1>3. DOMAIN l2 = DOMAIN l \ {p} /\ \A q \in DOMAIN l \ {p} : l2[q] = l[q]
  BY Zenon DEF Less
<1> HIDE DEF i, h, g, c, l2, m
<1>4. Flagged(g, h, i, TRUE, HeapSize)
  BY <1>1, FlagFacts, Zenon DEF g
<1>5. Spans(g, HeapSize) /\ InUse(g) = InUse(h) \ {h[i]} /\ TakenIn(g) = TakenIn(h) - h[i].size
  <2>1. Spans(g, HeapSize)
    BY <1>4, Zenon DEF Flagged
  <2>2. InUse(g) = InUse(h) \ {h[i]} /\ TakenIn(g) = TakenIn(h) - h[i].size
    BY <1>1, <1>4, MarkFree, Zenon
  <2> QED BY <2>1, <2>2, Zenon
<1>6. Walked(c, HeapSize, InUse(g), TakenIn(g))
  BY <1>5, CoalesceOk, Zenon DEF c
<1>7. /\ Spans(c, HeapSize) /\ c \in Seq(Headers) /\ Apart(c) /\ InUse(c) = InUse(h) \ {h[i]}
      /\ TakenIn(c) = TakenIn(h) - h[i].size
  BY <1>5, <1>6, Zenon DEF Walked, Spans
<1>8. h[i] \in Headers /\ h[i].addr \in Nat /\ h[i].size \in Nat /\ Header \in Nat
  <2>1. h[i] \in Headers
    BY <1>0, <1>1
  <2> QED BY <2>1, HeaderEnds, HeapConstants, Zenon
<1>9. m \in HeapRecords /\ m.blocks = c /\ m.total_allocated = k.total_allocated - h[i].size
      /\ m.total_free = k.total_free + h[i].size /\ m.allocation_count = k.allocation_count - 1
  BY <1>0, <1>2, <1>7, <1>8, SMTT(20) DEF HeapRecords
<1>10. IsFiniteSet(DOMAIN l2) /\ Cardinality(DOMAIN l2) = Cardinality(DOMAIN l) - 1
  <2>1. IsFiniteSet(DOMAIN l) /\ DOMAIN l2 = DOMAIN l \ {p} /\ p \in DOMAIN l
    BY <1>0, <1>3, Zenon
  <2> QED BY <2>1, FS_RemoveElement, Zenon
<1>11. \A b \in InUse(h) \ {h[i]} : b.addr + Header # p
  <2> TAKE b \in InUse(h) \ {h[i]}
  <2>1. PICK j \in 1 .. Len(h) : b = h[j]
    BY <1>0, InUseIff
  <2>2. b.addr # h[i].addr
    BY <1>1, <2>1, AddressesDiffer, Zenon
  <2>3. b.addr \in Nat
    BY <1>0, <2>1, HeaderEnds
  <2> QED BY <1>1, <1>8, <2>2, <2>3
<1>12. h[i] \in InUse(h)
  BY <1>0, <1>1, InUseIff, Zenon
<1>13. DOMAIN l2 = {b.addr + Header : b \in InUse(c)}
  <2>1. DOMAIN l = {b.addr + Header : b \in InUse(h)}
    BY <1>0, Zenon
  <2>2. InUse(c) = InUse(h) \ {h[i]}
    BY <1>7, Zenon
  <2>3. DOMAIN l2 = DOMAIN l \ {p} /\ p = h[i].addr + Header
    BY <1>1, <1>3, Zenon
  <2>4. \A q \in DOMAIN l2 : \E b \in InUse(c) : q = b.addr + Header
    BY <2>1, <2>2, <2>3, Zenon
  <2>5. \A b \in InUse(c) : b.addr + Header \in DOMAIN l2
    BY <1>11, <2>1, <2>2, <2>3, Zenon
  <2> QED BY <2>4, <2>5, Zenon
<1>14. \A b \in InUse(c) : l2[b.addr + Header] <= b.size
  <2> TAKE b \in InUse(c)
  <2>1. b \in InUse(h) /\ b.addr + Header \in DOMAIN l \ {p}
    BY <1>3, <1>7, <1>13, Zenon
  <2>2. l2[b.addr + Header] = l[b.addr + Header]
    BY <1>3, <2>1, Zenon
  <2> QED BY <1>0, <2>1, <2>2, Zenon
<1>15. \A q \in DOMAIN l2 : l2[q] \in Nat
  BY <1>0, <1>3, Zenon
<1>16. m.total_allocated = TakenIn(m.blocks) /\ m.total_allocated + m.total_free = HeapSize
       /\ m.allocation_count = Cardinality(DOMAIN l2)
  BY <1>0, <1>7, <1>8, <1>9, <1>10, SMTT(20)
<1>17. HeapOk(m, l2)
  BY <1>7, <1>9, <1>10, <1>13, <1>14, <1>15, <1>16, Zenon DEF HeapOk
<1> QED BY <1>17, Zenon DEF m, l2

-----------------------------------------------------------------------------
LEMMA InitHeapInv ==
  ASSUME InitHeap
  PROVE  HeapInv
<1> DEFINE k == [blocks |-> <<>>, total_allocated |-> 0, total_free |-> HeapSize,
                 allocation_count |-> 0]
<1>1. k \in HeapRecords /\ k.blocks = <<>> /\ k.total_allocated = 0 /\ k.total_free = HeapSize
      /\ k.allocation_count = 0
  BY EmptyList, HeapConstants DEF HeapRecords
<1>2. heap = k /\ DOMAIN live = {}
  BY DEF InitHeap
<1> HIDE DEF k
<1>3. IsFiniteSet({}) /\ Cardinality({}) = 0
  BY FS_EmptySet, Zenon
<1>4. HeapOk(k, live)
  BY <1>1, <1>2, <1>3, EmptyList, HeapConstants DEF HeapOk
<1> QED BY <1>2, <1>4, Zenon DEF HeapInv

LEMMA KmallocStep ==
  ASSUME HeapInv, NEW n \in Requests, Kmalloc(n)
  PROVE  HeapInv'
<1> DEFINE r == kmalloc(heap, n)
<1>1. heap' = r.heap /\ live' = IF r.ptr = 0 THEN live ELSE NowLive({}, r.ptr, n)
  BY Zenon DEF Kmalloc
<1>2. n \in Nat
  BY HeapConstants, Zenon
<1>3. KmallocDone(r, live, n)
  BY <1>2, KmallocOk, Zenon DEF HeapInv
<1> HIDE DEF r
<1>4. NowLive({}, r.ptr, n) = With(live, r.ptr, n)
  BY Zenon DEF NowLive, With
<1>5. HeapOk(heap', live')
  BY <1>1, <1>3, <1>4, Zenon DEF KmallocDone
<1> QED BY <1>5, Zenon DEF HeapInv

LEMMA KfreeStep ==
  ASSUME HeapInv, NEW p \in DOMAIN live, Kfree(p)
  PROVE  HeapInv'
<1>1. heap' = kfree(heap, p) /\ live' = Less(live, p)
  BY Zenon DEF Kfree, Less
<1>2. HeapOk(kfree(heap, p), Less(live, p))
  BY KfreeOk, Zenon DEF HeapInv
<1>3. HeapOk(heap', live')
  BY <1>1, <1>2, Zenon
<1> QED BY <1>3, Zenon DEF HeapInv

LEMMA ReallocInPlaceStep ==
  ASSUME HeapInv, NEW p \in DOMAIN live, NEW n \in Requests, ReallocInPlace(p, n)
  PROVE  HeapInv'
<1>1. heap' = heap /\ live' = NowLive({}, p, n) /\ n <= heap.blocks[HeaderOf(heap, p)].size
  BY Zenon DEF ReallocInPlace
<1>2. DOMAIN live' = DOMAIN live /\ live'[p] = n /\ \A q \in DOMAIN live : q # p => live'[q] = live[q]
  BY <1>1, Zenon DEF NowLive
<1>3. /\ HeaderOf(heap, p) \in 1 .. Len(heap.blocks)
      /\ p = heap.blocks[HeaderOf(heap, p)].addr + Header
      /\ Spans(heap.blocks, HeapSize)
  BY LiveHeader, Zenon DEF HeapInv
<1>4. ASSUME NEW b \in InUse(heap.blocks) PROVE live'[b.addr + Header] <= b.size
  <2>1. b.addr + Header \in DOMAIN live /\ live[b.addr + Header] <= b.size
    BY Zenon DEF HeapInv, HeapOk
  <2>2. CASE b.addr + Header # p
    BY <1>2, <2>1, <2>2, Zenon
  <2>3. CASE b.addr + Header = p
    <3>1. PICK j \in 1 .. Len(heap.blocks) : b = heap.blocks[j]
      BY <1>3, InUseIff DEF Spans
    <3>2. HeaderOf(heap, p) = j
      BY <1>3, <2>3, <3>1, HeaderIs, Zenon
    <3> QED BY <1>1, <1>2, <2>3, <3>1, <3>2, Zenon
  <2> QED BY <2>2, <2>3, Zenon
<1>5. \A q \in DOMAIN live' : live'[q] \in Nat
  BY <1>2, HeapConstants, Zenon DEF HeapInv, HeapOk
<1>6. HeapOk(heap, live')
  BY <1>2, <1>4, <1>5, Zenon DEF HeapInv, HeapOk
<1>7. HeapOk(heap', live')
  BY <1>1, <1>6, Zenon
<1> QED BY <1>7, Zenon DEF HeapInv

LEMMA ReallocMovesStep ==
  ASSUME HeapInv, NEW p \in DOMAIN live, NEW n \in Requests, ReallocMoves(p, n)
  PROVE  HeapInv'
<1> DEFINE r == kmalloc(heap, n)
<1>1. IF r.ptr = 0 THEN heap' = r.heap /\ live' = live
      ELSE heap' = kfree(r.heap, p) /\ live' = NowLive({p}, r.ptr, n)
  BY Zenon DEF ReallocMoves
<1>2. n \in Nat
  BY HeapConstants, Zenon
<1>3. KmallocDone(r, live, n)
  BY <1>2, KmallocOk, Zenon DEF HeapInv
<1> HIDE DEF r
<1>4. CASE r.ptr = 0
  <2>1. HeapOk(heap', live')
    BY <1>1, <1>3, <1>4, Zenon DEF KmallocDone
  <2> QED BY <2>1, Zenon DEF HeapInv
<1>5. CASE r.ptr # 0
  <2> DEFINE l == With(live, r.ptr, n)
  <2>1. HeapOk(r.heap, l) /\ r.ptr \notin DOMAIN live
    BY <1>3, <1>5, Zenon DEF KmallocDone
  <2>2. p \in DOMAIN l /\ p # r.ptr
    BY <2>1, Zenon DEF With
  <2>3. HeapOk(kfree(r.heap, p), Less(l, p))
    BY <2>1, <2>2, KfreeOk, Zenon
  <2>4. NowLive({p}, r.ptr, n) = Less(l, p)
    <3>1. (DOMAIN live \cup {r.ptr}) \ {p} = (DOMAIN live \ {p}) \cup {r.ptr}
      BY <2>2, Zenon
    <3>2. DOMAIN l = DOMAIN live \cup {r.ptr}
      BY Zenon DEF With
    <3>3. \A q \in DOMAIN l : l[q] = IF q = r.ptr THEN n ELSE live[q]
      BY Zenon DEF With
    <3> HIDE DEF l
    <3> QED BY <3>1, <3>2, <3>3, Zenon DEF NowLive, Less
  <2>5. HeapOk(heap', live')
    BY <1>1, <1>5, <2>3, <2>4, Zenon
  <2> QED BY <2>5, Zenon DEF HeapInv
<1> QED BY <1>4, <1>5, Zenon

LEMMA HeapInvNext == HeapInv /\ [NextHeap]_heapVars => HeapInv'
<1> SUFFICES ASSUME HeapInv, [NextHeap]_heapVars PROVE HeapInv'
  BY Zenon
<1>1. ASSUME NEW n \in Requests, Kmalloc(n) PROVE HeapInv'
  BY <1>1, KmallocStep, Zenon
<1>2. ASSUME NEW p \in DOMAIN live, Kfree(p) PROVE HeapInv'
  BY <1>2, KfreeStep, Zenon
<1>3. ASSUME NEW p \in DOMAIN live, NEW n \in Requests, ReallocInPlace(p, n) PROVE HeapInv'
  BY <1>3, ReallocInPlaceStep, Zenon
<1>4. ASSUME NEW p \in DOMAIN live, NEW n \in Requests, ReallocMoves(p, n) PROVE HeapInv'
  BY <1>4, ReallocMovesStep, Zenon
<1>5. CASE UNCHANGED heapVars
  BY <1>5, Zenon DEF HeapInv, heapVars
<1> QED BY <1>1, <1>2, <1>3, <1>4, <1>5, Zenon DEF NextHeap

(* Every sequence of kmalloc, kzalloc, kfree and krealloc leaves the callers *)
(* holding exactly the blocks in use.                                        *)
THEOREM HeapInvariant == SpecHeap => []HeapInv
<1>1. InitHeap => HeapInv
  BY InitHeapInv, Zenon
<1> QED BY <1>1, HeapInvNext, PTL DEF SpecHeap

(* split_block and coalesce_free_blocks keep the blocks end to end from      *)
(* HEAP_START to the end of the heap.                                        *)
THEOREM HeapTiled == SpecHeap => []Tiled
<1>1. HeapInv => Tiled
  BY Zenon DEF HeapInv, HeapOk, Spans, Tiled
<1> QED BY <1>1, HeapInvariant, PTL

(* One walk of coalesce_free_blocks after each kfree is enough: there are    *)
(* never two free neighbours.                                                *)
THEOREM HeapCoalesced == SpecHeap => []Coalesced
<1>1. HeapInv => Coalesced
  BY Zenon DEF HeapInv, HeapOk, Apart, Coalesced
<1> QED BY <1>1, HeapInvariant, PTL

(* The bytes behind a pointer that kmalloc or krealloc returned belong to    *)
(* its holder alone until kfree, and kfree of it meets neither panic.        *)
THEOREM LiveMemoryIntact == SpecHeap => []LiveIntact
<1>1. HeapInv => LiveIntact
  <2> SUFFICES ASSUME HeapInv, NEW p \in DOMAIN live
               PROVE  /\ MayFree(heap, p)
                      /\ p + live[p] <= End(heap.blocks[HeaderOf(heap, p)])
                      /\ \A i \in DOMAIN heap.blocks :
                           LET b == heap.blocks[i]
                           IN  b.addr + Header # p => End(b) <= p - Header \/ p + live[p] <= b.addr
    BY Zenon DEF LiveIntact
  <2> DEFINE i == HeaderOf(heap, p)
             h == heap.blocks
  <2>1. /\ Spans(h, HeapSize) /\ i \in 1 .. Len(h) /\ ~ h[i].free
        /\ p = h[i].addr + Header /\ live[p] <= h[i].size
    BY LiveHeader, Zenon DEF HeapInv
  <2>2. MayFree(heap, p)
    BY <2>1 DEF MayFree
  <2>3. live[p] \in Nat
    BY Zenon DEF HeapInv, HeapOk
  <2> HIDE DEF i, h
  <2>4. h \in Seq(Headers) /\ h[i] \in Headers /\ Header \in Nat
    BY <2>1, HeapConstants DEF Spans
  <2>5. p + live[p] <= End(h[i])
    BY <2>1, <2>3, <2>4, HeaderEnds, SMTT(20)
  <2>6. ASSUME NEW j \in 1 .. Len(h), h[j].addr + Header # p
        PROVE  End(h[j]) <= p - Header \/ p + live[p] <= h[j].addr
    <3>0. i \in Nat /\ j \in Nat /\ i # j /\ h[j] \in Headers /\ p - Header = h[i].addr
      <4>1. i \in Nat /\ j \in Nat /\ h[j] \in Headers /\ h[i].addr \in Nat
        BY <2>1, <2>4, HeaderEnds
      <4>2. i # j
        BY <2>1, <2>6, Zenon
      <4>3. p - Header = h[i].addr
        BY <2>1, <2>4, <4>1
      <4> QED BY <4>1, <4>2, <4>3, Zenon
    <3>1. CASE j < i
      BY <2>1, <3>0, <3>1, Ascending, Zenon
    <3>2. CASE i < j
      <4>1. End(h[i]) <= h[j].addr
        BY <2>1, <3>2, Ascending, Zenon
      <4>2. End(h[i]) \in Nat /\ h[j].addr \in Nat /\ h[i].addr \in Nat
        BY <2>4, <3>0, HeaderEnds, Zenon
      <4> QED BY <2>1, <2>3, <2>4, <2>5, <4>1, <4>2
    <3> QED BY <3>0, <3>1, <3>2
  <2>7. DOMAIN h = 1 .. Len(h)
    BY <2>4
  <2> QED BY <2>2, <2>5, <2>6, <2>7, Zenon DEF i, h
<1> QED BY <1>1, HeapInvariant, PTL

(* total_allocated, total_free and allocation_count, which kmalloc_stats     *)
(* reports, are what the blocks and the callers add up to.                   *)
THEOREM HeapStats == SpecHeap => []StatsMatch
<1>1. HeapInv => StatsMatch
  BY Zenon DEF HeapInv, HeapOk, StatsMatch
<1> QED BY <1>1, HeapInvariant, PTL
=============================================================================
