---------------------------- MODULE SchedulerProofs ----------------------------
(***************************************************************************)
(* Scheduler.tla for any number of handles and instants: what pop_pending  *)
(* returns and leaves behind, and what next_event promises.                *)
(***************************************************************************)
EXTENDS HeapProofs

\* The entries of a sequence.
Values(s) == {s[i] : i \in 1..Len(s)}

\* A heap of timed handles.
Heap(s) ==
  /\ s \in Seq(Nat)
  /\ Entries(s, Len(s), when)
  /\ IsHeap(s, Len(s), when)

\* A sequence without repetition has as many entries as its set.
LEMMA CountDistinct ==
  ASSUME NEW s \in Seq(Nat), \A i, j \in 1..Len(s) : s[i] = s[j] => i = j
  PROVE  IsFiniteSet(Values(s)) /\ Cardinality(Values(s)) = Len(s)
<1>1. Len(s) \in Nat /\ s \in [1..Len(s) -> Nat]
  OBVIOUS
<1>2. s \in [1..Len(s) -> Values(s)] /\ \A e \in Values(s) : \E i \in 1..Len(s) : s[i] = e
  BY <1>1 DEF Values
<1>3. s \in Bijection(1..Len(s), Values(s))
  BY <1>2 DEF Bijection, Injection, Surjection, IsInjective
<1>4. ExistsBijection(1..Len(s), Values(s))
  BY <1>3 DEF ExistsBijection
<1> QED
  BY <1>1, <1>4, FS_CountingElements, FS_NatBijection

\* The entries of an array of the heap are its positions' values.
LEMMA HeldIsValues ==
  ASSUME NEW s, s \in Seq(Nat)
  PROVE  /\ Held(s, Len(s)) = Values(s)
         /\ {s[i] : i \in DOMAIN s} = Values(s)
         /\ Len(s) \in Nat
BY DEF Held, Values

-----------------------------------------------------------------------------
(* _pop_prioritized_low: popping one root after the other. *)

Afters ==
  LET after[n \in 0..Len(heap)] ==
        IF n = 0 THEN heap ELSE PopRoot(after[n - 1])
  IN after

\* HeapAfter is the function that its definition describes.
LEMMA AfterDef ==
  ASSUME Len(heap) \in Nat
  PROVE  /\ HeapAfter(0) = heap
         /\ \A k \in Nat : k + 1 <= Len(heap) => HeapAfter(k + 1) = PopRoot(HeapAfter(k))
<1> DEFINE L == Len(heap)
           Step(f, n) == IF n = 0 THEN heap ELSE PopRoot(f[n - 1])
           D == {m \in Nat : \E f : f = [n \in 0..m |-> Step(f, n)]}
<1>1. 0 \in D
  <2>1. [n \in 0..0 |-> heap] = [n \in 0..0 |-> Step([k \in 0..0 |-> heap], n)]
    OBVIOUS
  <2> QED
    BY <2>1
<1>2. ASSUME NEW m \in Nat, m \in D PROVE m + 1 \in D
  <2>1. PICK f : f = [n \in 0..m |-> Step(f, n)]
    BY <1>2
  <2> DEFINE g == [n \in 0..(m + 1) |-> IF n = m + 1 THEN PopRoot(f[m]) ELSE f[n]]
  <2>2. ASSUME NEW n \in 0..(m + 1) PROVE g[n] = Step(g, n)
    <3>1. CASE n = m + 1
      BY <3>1
    <3>2. CASE n = 0
      BY <2>1, <3>2
    <3>3. CASE n \in 1..m
      BY <2>1, <3>3
    <3> QED
      BY <3>1, <3>2, <3>3
  <2>3. g = [n \in 0..(m + 1) |-> g[n]]
    OBVIOUS
  <2> HIDE DEF g, Step
  <2>4. g = [n \in 0..(m + 1) |-> Step(g, n)]
    BY <2>2, <2>3
  <2> QED
    BY <2>4
<1>3. L \in D
  BY <1>1, <1>2, Climb
<1>4. PICK f : f = [n \in 0..L |-> Step(f, n)]
  BY <1>3
<1>5. Afters = [n \in 0..L |-> Step(Afters, n)]
  BY <1>4 DEF Afters
<1>6. \A k : HeapAfter(k) = Afters[k]
  BY DEF HeapAfter, Afters
<1>7. \A n \in 0..L : Afters[n] = Step(Afters, n)
  BY <1>5
<1>8. ASSUME NEW k \in Nat, k + 1 <= Len(heap) PROVE Afters[k + 1] = PopRoot(Afters[k])
  BY <1>7, <1>8
<1>9. Afters[0] = heap
  BY <1>7
<1> QED
  BY <1>6, <1>8, <1>9

Root(i) == HeapAfter(i)[1]

\* After k pops: a heap of the entries whose turn has not come, and those popped
\* come before them.
Popped(k) ==
  /\ Heap(HeapAfter(k))
  /\ Len(HeapAfter(k)) = Len(heap) - k
  /\ Values(HeapAfter(k)) = Values(heap) \ {Root(i) : i \in 0..(k - 1)}
  /\ \A i \in 0..(k - 1) :
       /\ Root(i) \in Values(heap)
       /\ \A h \in Values(HeapAfter(k)) : Before(Root(i), h)

\* One heappop takes the least entry.
LEMMA PopsLeast ==
  ASSUME NEW s, Heap(s), Len(s) > 0
  PROVE  /\ Heap(PopRoot(s)) /\ Len(PopRoot(s)) = Len(s) - 1
         /\ Values(PopRoot(s)) = Values(s) \ {s[1]}
         /\ s[1] \in Values(s)
         /\ \A h \in Values(PopRoot(s)) : Before(s[1], h)
         /\ \A h \in Values(s) : ~Before(h, s[1])
<1> DEFINE n == Len(s)
           t == PopRoot(s)
<1>1. n \in Nat /\ n > 0 /\ s \in Seq(Nat) /\ Entries(s, n, when) /\ IsHeap(s, n, when)
  BY DEF Heap
<1>2. /\ t \in Seq(Nat) /\ Len(t) = n - 1
      /\ Entries(t, n - 1, when) /\ IsHeap(t, n - 1, when)
      /\ Held(t, n - 1) = Held(s, n) \ {s[1]}
  BY <1>1, PopFacts
<1>3. \A j \in 1..n : ~Earlier(when, s[j], s[1]) /\ s[j] \in Nat /\ when[s[j]] \in Nat
  BY <1>1, RootIsLeast DEF Entries
<1> HIDE DEF t
<1>4. Values(t) = Values(s) \ {s[1]}
  BY <1>2 DEF Held, Values
<1>5. \A h \in Values(s) : \E j \in 1..n : h = s[j]
  BY DEF Values
<1>6. \A h \in Values(s) : ~Before(h, s[1])
  BY <1>3, <1>5 DEF Before
<1>7. 1 \in 1..n
  BY <1>1
<1>8. ASSUME NEW h \in Values(t) PROVE Before(s[1], h)
  <2>1. h # s[1] /\ \E j \in 1..n : h = s[j]
    BY <1>4, <1>5
  <2> QED
    BY <1>3, <1>7, <2>1, OrderFacts DEF Before
<1>9. s[1] \in Values(s)
  BY <1>7 DEF Values
<1> QED
  BY <1>2, <1>4, <1>6, <1>8, <1>9 DEF Heap, t

\* Popping goes through the heap in order.
LEMMA PopsInOrder ==
  ASSUME Heap(heap)
  PROVE  \A k \in 0..Len(heap) : Popped(k)
<1> DEFINE L == Len(heap)
           D == {k \in Nat : k <= L => Popped(k)}
<1>0. L \in Nat
  BY DEF Heap
<1>1. 0 \in D
  <2>1. HeapAfter(0) = heap /\ 0..(0 - 1) = {}
    BY <1>0, AfterDef
  <2>2. Popped(0)
    BY <1>0, <2>1 DEF Popped
  <2> QED
    BY <2>2
<1>2. ASSUME NEW k \in Nat, k \in D PROVE k + 1 \in D
  <2> SUFFICES ASSUME k + 1 <= L PROVE Popped(k + 1)
    OBVIOUS
  <2> DEFINE s == HeapAfter(k)
             t == HeapAfter(k + 1)
  <2>1. Popped(k)
    BY <1>0, <1>2
  <2>2. t = PopRoot(s) /\ Root(k) = s[1]
    BY <1>0, AfterDef DEF Root
  <2>3. Heap(s) /\ Len(s) = L - k /\ Values(s) = Values(heap) \ {Root(i) : i \in 0..(k - 1)}
    BY <2>1 DEF Popped
  <2>4. Len(s) > 0
    BY <1>0, <2>3
  <2>5. /\ Heap(t) /\ Len(t) = Len(s) - 1
        /\ Values(t) = Values(s) \ {Root(k)}
        /\ Root(k) \in Values(s)
        /\ \A h \in Values(t) : Before(Root(k), h)
    BY <2>2, <2>3, <2>4, PopsLeast
  <2>6. \A i \in 0..k : i = k \/ i \in 0..(k - 1)
    OBVIOUS
  <2>7. \A i \in 0..(k - 1) : /\ i \in 0..k /\ Root(i) \in Values(heap)
                              /\ \A h \in Values(s) : Before(Root(i), h)
    BY <2>1 DEF Popped
  <2> HIDE DEF s, t
  <2>8. ASSUME NEW i \in 0..k
        PROVE  Root(i) \in Values(heap) /\ \A h \in Values(t) : Before(Root(i), h)
    <3>1. CASE i = k
      BY <2>3, <2>5, <3>1
    <3>2. CASE i \in 0..(k - 1)
      BY <2>5, <2>7, <3>2
    <3> QED
      BY <2>6, <3>1, <3>2
  <2>9. Values(t) = Values(heap) \ {Root(i) : i \in 0..k}
    <3>1. {Root(i) : i \in 0..k} = {Root(i) : i \in 0..(k - 1)} \cup {Root(k)}
      BY <2>6, <2>7
    <3> QED
      BY <2>3, <2>5, <3>1
  <2>10. k + 1 - 1 = k /\ Len(t) = L - (k + 1)
    BY <1>0, <2>3, <2>5
  <2> QED
    BY <2>5, <2>8, <2>9, <2>10 DEF Popped, t
<1>3. Nat \subseteq D
  BY <1>1, <1>2, Climb
<1> QED
  BY <1>0, <1>3

\* Roots are popped in the order of (when, _ids_generator).
LEMMA RootsAscend ==
  ASSUME Heap(heap), NEW j \in 0..(Len(heap) - 1)
  PROVE  /\ Root(j) \in Values(heap)
         /\ Root(j) \in Nat /\ when[Root(j)] \in Nat
         /\ \A i \in 0..(j - 1) : Before(Root(i), Root(j))
         /\ \A h \in Values(HeapAfter(j)) : ~Before(h, Root(j))
<1>0. Len(heap) \in Nat
  BY DEF Heap
<1>1. Popped(j)
  BY <1>0, PopsInOrder
<1> DEFINE s == HeapAfter(j)
<1>2. /\ Heap(s) /\ Len(s) > 0 /\ Values(s) \subseteq Values(heap) /\ Root(j) = s[1]
      /\ \A i \in 0..(j - 1) : \A h \in Values(s) : Before(Root(i), h)
  BY <1>0, <1>1 DEF Popped, Root
<1> HIDE DEF s
<1>3. s[1] \in Values(s) /\ \A h \in Values(s) : ~Before(h, s[1])
  BY <1>2, PopsLeast
<1>4. Root(j) \in Nat /\ when[Root(j)] \in Nat
  <2>1. 1 \in 1..Len(s)
    BY <1>2 DEF Heap
  <2> QED
    BY <1>2, <2>1 DEF Heap, Entries
<1> QED
  BY <1>2, <1>3, <1>4 DEF s

\* What is due by a threshold, and what is not.
Due(threshold)  == {h \in Values(heap) : when[h] <= threshold}

\* DueCount is where the first root that is not due stands.
LEMMA DueCountFacts ==
  ASSUME Heap(heap), NEW threshold \in Nat
  PROVE  LET K == DueCount(threshold)
         IN /\ K \in 0..Len(heap)
            /\ K = Len(heap) \/ when[Root(K)] > threshold
            /\ \A j \in 0..(K - 1) : when[Root(j)] <= threshold
<1> DEFINE L == Len(heap)
           Late == {k \in 0..L : k = L \/ when[Root(k)] > threshold}
<1>0. L \in Nat
  BY DEF Heap
<1>1. L \in Late /\ Late \subseteq Nat
  BY <1>0
<1>2. PICK k \in Late : \A m \in Late : k <= m
  <2> HIDE DEF Late
  <2> QED
    BY <1>1, LeastNat
<1>3. ASSUME NEW j \in 0..(k - 1) PROVE when[Root(j)] <= threshold
  <2>1. j \in 0..L /\ j # L /\ j \notin Late /\ j \in 0..(L - 1)
    BY <1>0, <1>2
  <2>2. when[Root(j)] \in Nat
    BY <2>1, RootsAscend
  <2>3. ~(when[Root(j)] > threshold)
    BY <2>1
  <2> QED
    BY <2>2, <2>3
<1>4. /\ k \in 0..L
      /\ k = L \/ when[Root(k)] > threshold
      /\ \A j \in 0..(k - 1) : when[Root(j)] <= threshold
  BY <1>2, <1>3
<1> QED
  BY <1>4 DEF DueCount, Root

\* The roots popped are the entries that are due; the rest stays.
LEMMA PopsDue ==
  ASSUME Heap(heap), NEW threshold \in Nat
  PROVE  LET K == DueCount(threshold)
         IN /\ K \in 0..Len(heap)
            /\ {Root(i) : i \in 0..(K - 1)} = Due(threshold)
            /\ Heap(HeapAfter(K))
            /\ Values(HeapAfter(K)) = Values(heap) \ Due(threshold)
<1> DEFINE K == DueCount(threshold)
           L == Len(heap)
           Gone == {Root(i) : i \in 0..(K - 1)}
<1>0. L \in Nat
  BY DEF Heap
<1>1. /\ K \in 0..L
      /\ K = L \/ when[Root(K)] > threshold
      /\ \A j \in 0..(K - 1) : when[Root(j)] <= threshold
  BY DueCountFacts
<1> HIDE DEF K
<1>2. Popped(K)
  BY <1>1, PopsInOrder
<1>3. Heap(HeapAfter(K)) /\ Values(HeapAfter(K)) = Values(heap) \ Gone
  BY <1>2 DEF Popped
<1>4. \A i \in 0..(K - 1) : Root(i) \in Due(threshold)
  BY <1>1, <1>2 DEF Popped, Due
<1>5. ASSUME NEW h \in Due(threshold), h \notin Gone PROVE FALSE
  <2>1. h \in Values(HeapAfter(K)) /\ when[h] <= threshold
    BY <1>3, <1>5 DEF Due
  <2>2. K \in 0..(L - 1)
    <3>1. K # L
      <4>1. ASSUME K = L PROVE FALSE
        <5>1. Len(HeapAfter(K)) = 0
          BY <1>0, <1>2, <4>1 DEF Popped
        <5>2. 1..Len(HeapAfter(K)) = {}
          BY <5>1
        <5> QED
          BY <2>1, <5>2 DEF Values
      <4> QED
        BY <4>1
    <3> QED
      BY <1>0, <1>1, <3>1
  <2>3. when[Root(K)] > threshold /\ ~Before(h, Root(K)) /\ when[Root(K)] \in Nat
    BY <1>0, <1>1, <2>1, <2>2, RootsAscend
  <2>4. when[h] \in Nat
    BY <1>3, <2>1 DEF Heap, Entries, Values
  <2> QED
    BY <2>1, <2>3, <2>4 DEF Before, Earlier
<1>6. Gone = Due(threshold)
  BY <1>4, <1>5
<1> QED
  BY <1>1, <1>3, <1>6 DEF K

\* The due timers in the order in which they are popped.
DueSeq(threshold) == [i \in 1..DueCount(threshold) |-> HeapAfter(i - 1)[1]]

\* What DueSeq holds, in order and without repetition.
LEMMA DueSeqFacts ==
  ASSUME Heap(heap), NEW threshold \in Nat
  PROVE  LET s == DueSeq(threshold)
         IN /\ s \in Seq(Nat)
            /\ Values(s) = Due(threshold)
            /\ \A i, j \in 1..Len(s) : i < j => Before(s[i], s[j])
            /\ \A i, j \in 1..Len(s) : s[i] = s[j] => i = j
<1> DEFINE K == DueCount(threshold)
           L == Len(heap)
           s == DueSeq(threshold)
<1>0. L \in Nat
  BY DEF Heap
<1>1. K \in 0..L /\ {Root(i) : i \in 0..(K - 1)} = Due(threshold)
  BY PopsDue
<1>2. s = [i \in 1..K |-> Root(i - 1)]
  BY DEF DueSeq, Root
<1> HIDE DEF K, s
<1>3. \A i \in 1..K : i - 1 \in 0..(L - 1)
  BY <1>0, <1>1
<1>4. \A i \in 1..K : s[i] = Root(i - 1) /\ s[i] \in Nat /\ when[s[i]] \in Nat
  BY <1>2, <1>3, RootsAscend
<1>5. s \in [1..K -> Nat] /\ K \in Nat
  BY <1>0, <1>1, <1>2, <1>4
<1>6. s \in Seq(Nat) /\ Len(s) = K
  BY <1>5
<1>7. ASSUME NEW i \in 1..K, NEW j \in 1..K, i < j PROVE Before(s[i], s[j])
  <2>1. i - 1 \in 0..(j - 1 - 1)
    BY <1>7
  <2> QED
    BY <1>3, <1>4, <2>1, RootsAscend
<1>8. ASSUME NEW i \in 1..K, NEW j \in 1..K, s[i] = s[j] PROVE i = j
  <2>1. ~Before(s[i], s[j]) /\ ~Before(s[j], s[i])
    BY <1>4, <1>8, OrderFacts DEF Before
  <2> QED
    BY <1>7, <2>1
<1>9. Values(s) = Due(threshold)
  <2>1. \A i \in 0..(K - 1) : i + 1 \in 1..K /\ s[i + 1] = Root(i)
    BY <1>2, <1>5
  <2>2. \A i \in 1..K : i - 1 \in 0..(K - 1)
    BY <1>5
  <2> QED
    BY <1>1, <1>4, <1>6, <2>1, <2>2 DEF Values
<1> QED
  BY <1>6, <1>7, <1>8, <1>9 DEF s

-----------------------------------------------------------------------------
(* The filter that drops cancelled handles. *)

Kept(s) ==
  LET kept[i \in 0..Len(s)] ==
        IF i = 0 THEN <<>>
        ELSE IF s[i] \in cancelled THEN kept[i - 1] ELSE Append(kept[i - 1], s[i])
  IN kept

\* The step of the filter: k, its results so far, at the next entry of s.
FilterStep(k, s, i) ==
  k[i + 1] = IF s[i + 1] \in cancelled THEN k[i] ELSE Append(k[i], s[i + 1])

\* Kept is the function that its definition describes.
LEMMA KeptDef ==
  ASSUME NEW s, Len(s) \in Nat
  PROVE  /\ LiveOf(s) = Kept(s)[Len(s)]
         /\ Kept(s)[0] = <<>>
         /\ \A i \in 0..(Len(s) - 1) : FilterStep(Kept(s), s, i)
<1> DEFINE L == Len(s)
           Step(f, n) == IF n = 0 THEN <<>>
                         ELSE IF s[n] \in cancelled THEN f[n - 1] ELSE Append(f[n - 1], s[n])
           D == {m \in Nat : \E f : f = [n \in 0..m |-> Step(f, n)]}
<1>1. 0 \in D
  <2>1. [n \in 0..0 |-> <<>>] = [n \in 0..0 |-> Step([k \in 0..0 |-> <<>>], n)]
    OBVIOUS
  <2> QED
    BY <2>1
<1>2. ASSUME NEW m \in Nat, m \in D PROVE m + 1 \in D
  <2>1. PICK f : f = [n \in 0..m |-> Step(f, n)]
    BY <1>2
  <2> DEFINE g == [n \in 0..(m + 1) |->
                     IF n = m + 1
                       THEN IF s[n] \in cancelled THEN f[m] ELSE Append(f[m], s[n])
                       ELSE f[n]]
  <2>2. ASSUME NEW n \in 0..(m + 1) PROVE g[n] = Step(g, n)
    <3>1. CASE n = m + 1
      BY <3>1
    <3>2. CASE n = 0
      BY <2>1, <3>2
    <3>3. CASE n \in 1..m
      <4>1. g[n] = f[n] /\ g[n - 1] = f[n - 1] /\ n # 0
        BY <3>3
      <4>2. Step(g, n) = Step(f, n)
        BY <4>1
      <4>3. n \in 0..m
        BY <3>3
      <4> HIDE DEF g, Step
      <4>4. f[n] = Step(f, n)
        BY <2>1, <4>3
      <4> QED
        BY <4>1, <4>2, <4>4
    <3> QED
      BY <3>1, <3>2, <3>3
  <2>3. g = [n \in 0..(m + 1) |-> g[n]]
    OBVIOUS
  <2> HIDE DEF g, Step
  <2>4. g = [n \in 0..(m + 1) |-> Step(g, n)]
    BY <2>2, <2>3
  <2> QED
    BY <2>4
<1>3. L \in D
  BY <1>1, <1>2, Climb
<1>4. PICK f : f = [n \in 0..L |-> Step(f, n)]
  BY <1>3
<1>5. Kept(s) = [n \in 0..L |-> Step(Kept(s), n)]
  BY <1>4 DEF Kept
<1>6. LiveOf(s) = Kept(s)[Len(s)]
  BY DEF LiveOf, Kept
<1>7. \A n \in 0..L : Kept(s)[n] = Step(Kept(s), n)
  BY <1>5
<1>8. Kept(s)[0] = <<>>
  BY <1>7
<1>9. ASSUME NEW i \in 0..(L - 1)
      PROVE  FilterStep(Kept(s), s, i)
  <2>1. i + 1 \in 0..L /\ i + 1 # 0 /\ (i + 1) - 1 = i
    OBVIOUS
  <2> QED
    BY <1>7, <2>1 DEF FilterStep
<1> QED
  BY <1>6, <1>8, <1>9

\* a holds the entries of s up to i that are live, and in their order.
Filters(a, s, i) ==
  /\ a \in Seq(Nat)
  /\ \A p \in 1..i : s[p] \notin cancelled => \E k \in 1..Len(a) : a[k] = s[p]
  /\ \A k \in 1..Len(a) : a[k] \notin cancelled /\ \E p \in 1..i : a[k] = s[p]
  /\ \A k, l \in 1..Len(a) : k < l =>
       \E p, q \in 1..i : p < q /\ a[k] = s[p] /\ a[l] = s[q]

\* LiveOf keeps exactly the live entries, in their order.
LEMMA LiveFilters ==
  ASSUME NEW s \in Seq(Nat)
  PROVE  Filters(LiveOf(s), s, Len(s))
<1> DEFINE L == Len(s)
           D == {i \in Nat : i <= L => Filters(Kept(s)[i], s, i)}
<1>0. L \in Nat
  OBVIOUS
<1>1. 0 \in D
  <2>1. Kept(s)[0] = <<>>
    BY KeptDef
  <2>2. Filters(<<>>, s, 0)
    <3>1. <<>> \in Seq(Nat) /\ 1..Len(<<>>) = {} /\ 1..0 = {}
      OBVIOUS
    <3> QED
      BY <3>1 DEF Filters
  <2> QED
    BY <2>1, <2>2
<1>2. ASSUME NEW i \in Nat, i \in D PROVE i + 1 \in D
  <2> SUFFICES ASSUME i + 1 <= L PROVE Filters(Kept(s)[i + 1], s, i + 1)
    OBVIOUS
  <2> DEFINE a == Kept(s)[i]
             b == Kept(s)[i + 1]
             x == s[i + 1]
  <2>1. Filters(a, s, i)
    BY <1>0, <1>2
  <2>2. b = IF x \in cancelled THEN a ELSE Append(a, x)
    <3>1. i \in 0..(L - 1)
      BY <1>0
    <3> QED
      BY <1>0, <3>1, KeptDef DEF FilterStep
  <2>3. \A p \in 1..(i + 1) : p = i + 1 \/ p \in 1..i
    OBVIOUS
  <2>4. i + 1 \in 1..(i + 1) /\ (\A p \in 1..i : p \in 1..(i + 1) /\ p < i + 1) /\ x \in Nat
    OBVIOUS
  <2> HIDE DEF a, b
  <2>5. CASE x \in cancelled
    <3>1. b = a
      BY <2>2, <2>5
    <3>2. \A p \in 1..(i + 1) : s[p] \notin cancelled => \E k \in 1..Len(a) : a[k] = s[p]
      BY <2>1, <2>3, <2>5 DEF Filters
    <3>3. \A k \in 1..Len(a) : a[k] \notin cancelled /\ \E p \in 1..(i + 1) : a[k] = s[p]
      BY <2>1, <2>4 DEF Filters
    <3>4. \A k, l \in 1..Len(a) : k < l =>
            \E p, q \in 1..(i + 1) : p < q /\ a[k] = s[p] /\ a[l] = s[q]
      BY <2>1, <2>4 DEF Filters
    <3>5. a \in Seq(Nat)
      BY <2>1 DEF Filters
    <3>6. Filters(a, s, i + 1)
      BY <3>2, <3>3, <3>4, <3>5 DEF Filters
    <3> QED
      BY <3>1, <3>6 DEF b
  <2>6. CASE x \notin cancelled
    <3> DEFINE n == Len(a)
    <3>1. /\ n \in Nat /\ b \in Seq(Nat) /\ Len(b) = n + 1 /\ b[n + 1] = x
          /\ \A k \in 1..n : b[k] = a[k]
      BY <2>1, <2>2, <2>4, <2>6, AppendProperties DEF Filters
    <3> HIDE DEF n
    <3>2. \A k \in 1..(n + 1) : k = n + 1 \/ k \in 1..n
      BY <3>1
    <3>3. n + 1 \in 1..(n + 1) /\ \A k \in 1..n : k \in 1..(n + 1) /\ k < n + 1
      BY <3>1
    <3>4. /\ \A p \in 1..i : s[p] \notin cancelled => \E k \in 1..n : a[k] = s[p]
          /\ \A k \in 1..n : a[k] \notin cancelled /\ \E p \in 1..i : a[k] = s[p]
          /\ \A k, l \in 1..n : k < l =>
               \E p, q \in 1..i : p < q /\ a[k] = s[p] /\ a[l] = s[q]
      BY <2>1 DEF Filters, n
    <3>5. ASSUME NEW p \in 1..(i + 1), s[p] \notin cancelled
          PROVE  \E k \in 1..(n + 1) : b[k] = s[p]
      <4>1. CASE p = i + 1
        BY <3>1, <3>3, <4>1
      <4>2. CASE p \in 1..i
        BY <3>1, <3>3, <3>4, <3>5, <4>2
      <4> QED
        BY <2>3, <4>1, <4>2
    <3>6. ASSUME NEW k \in 1..(n + 1)
          PROVE  b[k] \notin cancelled /\ \E p \in 1..(i + 1) : b[k] = s[p]
      <4>1. CASE k = n + 1
        BY <2>4, <2>6, <3>1, <4>1
      <4>2. CASE k \in 1..n
        <5>1. b[k] = a[k] /\ a[k] \notin cancelled
          BY <3>1, <3>4, <4>2
        <5>2. PICK p \in 1..i : a[k] = s[p]
          BY <3>4, <4>2
        <5> QED
          BY <2>4, <5>1, <5>2
      <4> QED
        BY <3>2, <4>1, <4>2
    <3>7. ASSUME NEW k \in 1..(n + 1), NEW l \in 1..(n + 1), k < l
          PROVE  \E p, q \in 1..(i + 1) : p < q /\ b[k] = s[p] /\ b[l] = s[q]
      <4>1. k \in 1..n
        BY <3>1, <3>7
      <4>2. CASE l = n + 1
        <5>1. PICK p \in 1..i : a[k] = s[p]
          BY <3>4, <4>1
        <5> QED
          BY <2>4, <3>1, <4>1, <4>2, <5>1
      <4>3. CASE l \in 1..n
        <5>1. PICK p \in 1..i, q \in 1..i : p < q /\ a[k] = s[p] /\ a[l] = s[q]
          BY <3>4, <3>7, <4>1, <4>3
        <5> QED
          BY <2>4, <3>1, <4>1, <4>3, <5>1
      <4> QED
        BY <3>2, <4>2, <4>3
    <3>8. Filters(b, s, i + 1)
      BY <3>1, <3>5, <3>6, <3>7 DEF Filters
    <3> QED
      BY <3>8 DEF b
  <2> QED
    BY <2>5, <2>6
<1>3. L \in D
  BY <1>0, <1>1, <1>2, Climb
<1>4. LiveOf(s) = Kept(s)[L]
  BY <1>0, KeptDef
<1> QED
  BY <1>0, <1>3, <1>4

\* What LiveOf returns: the live entries, in their order.
LEMMA LiveFacts ==
  ASSUME NEW s \in Seq(Nat)
  PROVE  /\ LiveOf(s) \in Seq(Nat)
         /\ Values(LiveOf(s)) = Values(s) \ cancelled
         /\ \A k, l \in 1..Len(LiveOf(s)) : k < l =>
              \E p, q \in 1..Len(s) : p < q /\ LiveOf(s)[k] = s[p] /\ LiveOf(s)[l] = s[q]
<1> DEFINE a == LiveOf(s)
<1>1. Filters(a, s, Len(s))
  BY LiveFilters
<1> HIDE DEF a
<1>2. Values(a) = Values(s) \ cancelled
  <2>1. \A p \in 1..Len(s) : s[p] \notin cancelled => s[p] \in Values(a)
    BY <1>1 DEF Filters, Values
  <2>2. \A k \in 1..Len(a) : a[k] \in Values(s) \ cancelled
    BY <1>1 DEF Filters, Values
  <2>3. /\ \A e \in Values(a) : \E k \in 1..Len(a) : e = a[k]
        /\ \A e \in Values(s) : \E p \in 1..Len(s) : e = s[p]
    BY DEF Values
  <2>4. \A e : e \in Values(a) => e \in Values(s) \ cancelled
    BY <2>2, <2>3
  <2>5. \A e : e \in Values(s) \ cancelled => e \in Values(a)
    BY <2>1, <2>3
  <2> QED
    BY <2>4, <2>5
<1> QED
  BY <1>1, <1>2 DEF Filters, a

\* Appending to a concatenation appends to its second part.
LEMMA ConcatAppend ==
  ASSUME NEW a \in Seq(Nat), NEW b \in Seq(Nat), NEW x \in Nat
  PROVE  Append(a \o b, x) = a \o Append(b, x)
<1> DEFINE c == Append(b, x)
           l == Append(a \o b, x)
           r == a \o c
           n == Len(a)
           m == Len(b)
<1>1. /\ a \o b \in Seq(Nat) /\ Len(a \o b) = n + m /\ n \in Nat /\ m \in Nat
      /\ \A i \in 1..(n + m) : (a \o b)[i] = IF i <= n THEN a[i] ELSE b[i - n]
  BY ConcatProperties
<1>2. c \in Seq(Nat) /\ Len(c) = m + 1 /\ c[m + 1] = x /\ \A i \in 1..m : c[i] = b[i]
  BY AppendProperties
<1>3. /\ l \in Seq(Nat) /\ Len(l) = n + m + 1 /\ l[n + m + 1] = x
      /\ \A i \in 1..(n + m) : l[i] = (a \o b)[i]
  <2>1. /\ l \in Seq(Nat) /\ Len(l) = Len(a \o b) + 1 /\ l[Len(a \o b) + 1] = x
        /\ \A i \in 1..Len(a \o b) : l[i] = (a \o b)[i]
    BY <1>1, AppendProperties
  <2> QED
    BY <1>1, <2>1
<1> HIDE DEF c, l
<1>4. /\ r \in Seq(Nat) /\ Len(r) = n + m + 1
      /\ \A i \in 1..(n + m + 1) : r[i] = IF i <= n THEN a[i] ELSE c[i - n]
  <2>1. /\ r \in Seq(Nat) /\ Len(r) = n + Len(c)
        /\ \A i \in 1..(n + Len(c)) : r[i] = IF i <= n THEN a[i] ELSE c[i - n]
    BY <1>2, ConcatProperties
  <2>2. n + Len(c) = n + m + 1
    BY <1>1, <1>2
  <2> QED
    BY <2>1, <2>2
<1> HIDE DEF n, m, r
<1>5. ASSUME NEW i \in 1..(n + m + 1) PROVE l[i] = r[i]
  <2>1. CASE i = n + m + 1
    BY <1>1, <1>2, <1>3, <1>4, <2>1
  <2>2. CASE i \in 1..n
    <3>1. i \in 1..(n + m) /\ i <= n
      BY <1>1, <2>2
    <3> QED
      BY <1>1, <1>3, <1>4, <3>1
  <2>3. CASE i \in (n + 1)..(n + m)
    <3>1. i - n \in 1..m /\ i \in 1..(n + m) /\ ~(i <= n)
      BY <1>1, <2>3
    <3> QED
      BY <1>1, <1>2, <1>3, <1>4, <3>1
  <2> QED
    BY <1>1, <2>1, <2>2, <2>3
<1>6. l = r
  BY <1>3, <1>4, <1>5, SeqEqual
<1> QED
  BY <1>6 DEF l, r, c

\* Filtering a concatenation filters its parts.
LEMMA LiveOfConcat ==
  ASSUME NEW s \in Seq(Nat), NEW t \in Seq(Nat)
  PROVE  LiveOf(s \o t) = LiveOf(s) \o LiveOf(t)
<1> DEFINE u == s \o t
           n == Len(s)
           m == Len(t)
           a == LiveOf(s)
<1>1. /\ n \in Nat /\ m \in Nat /\ u \in Seq(Nat) /\ Len(u) = n + m
      /\ \A i \in 1..n : u[i] = s[i]
      /\ \A i \in 1..m : u[n + i] = t[i]
      /\ \A i \in 1..m : t[i] \in Nat
  <2>1. /\ n \in Nat /\ m \in Nat /\ u \in Seq(Nat) /\ Len(u) = n + m
        /\ \A i \in 1..(n + m) : u[i] = IF i <= n THEN s[i] ELSE t[i - n]
        /\ \A i \in 1..m : t[i] \in Nat
    BY ConcatProperties
  <2> HIDE DEF u, n, m
  <2>2. \A i \in 1..n : i \in 1..(n + m) /\ i <= n
    BY <2>1
  <2>3. \A i \in 1..m : n + i \in 1..(n + m) /\ ~(n + i <= n) /\ (n + i) - n = i
    BY <2>1
  <2> QED
    BY <2>1, <2>2, <2>3
<1> HIDE DEF u
<1>2. /\ LiveOf(u) = Kept(u)[n + m] /\ Kept(u)[0] = <<>>
      /\ \A i \in 0..(n + m - 1) : FilterStep(Kept(u), u, i)
  <2>1. Len(u) \in Nat /\ Len(u) = n + m
    BY <1>1
  <2> HIDE DEF n, m
  <2>2. /\ LiveOf(u) = Kept(u)[Len(u)] /\ Kept(u)[0] = <<>>
        /\ \A i \in 0..(Len(u) - 1) : FilterStep(Kept(u), u, i)
    BY <2>1, KeptDef
  <2> DEFINE N == Len(u)
  <2>3. N = n + m
    BY <2>1
  <2> HIDE DEF N
  <2>4. /\ LiveOf(u) = Kept(u)[N] /\ Kept(u)[0] = <<>>
        /\ \A i \in 0..(N - 1) : FilterStep(Kept(u), u, i)
    BY <2>2 DEF N
  <2>5. LiveOf(u) = Kept(u)[n + m] /\ Kept(u)[0] = <<>>
    BY <2>3, <2>4
  <2>6. \A i \in 0..(n + m - 1) : FilterStep(Kept(u), u, i)
    <3>1. n \in Nat /\ m \in Nat
      BY <1>1
    <3> QED
      BY <2>3, <2>4, <3>1
  <2> QED
    BY <2>5, <2>6
<1>3. /\ LiveOf(s) = Kept(s)[n] /\ Kept(s)[0] = <<>>
      /\ \A i \in 0..(n - 1) : FilterStep(Kept(s), s, i)
  BY <1>1, KeptDef
<1>4. /\ LiveOf(t) = Kept(t)[m] /\ Kept(t)[0] = <<>>
      /\ \A i \in 0..(m - 1) : FilterStep(Kept(t), t, i)
  BY <1>1, KeptDef
<1>5. a \in Seq(Nat)
  BY LiveFacts
<1> HIDE DEF n, m, a
<1>6. Kept(u)[n] = Kept(s)[n]
  <2> DEFINE D == {i \in Nat : i <= n => Kept(u)[i] = Kept(s)[i]}
  <2>1. 0 \in D
    BY <1>2, <1>3
  <2>2. ASSUME NEW i \in Nat, i \in D PROVE i + 1 \in D
    <3> SUFFICES ASSUME i + 1 <= n PROVE Kept(u)[i + 1] = Kept(s)[i + 1]
      OBVIOUS
    <3>1. i \in 0..(n - 1) /\ i \in 0..(n + m - 1) /\ u[i + 1] = s[i + 1]
      BY <1>1
    <3>2. FilterStep(Kept(u), u, i) /\ FilterStep(Kept(s), s, i)
      BY <1>2, <1>3, <3>1
    <3>3. Kept(u)[i] = Kept(s)[i]
      BY <1>1, <2>2
    <3> QED
      BY <3>1, <3>2, <3>3 DEF FilterStep
  <2>3. n \in D
    <3> HIDE DEF D
    <3> QED
      BY <1>1, <2>1, <2>2, Climb
  <2> QED
    BY <1>1, <2>3
<1> DEFINE OK(i) == Kept(t)[i] \in Seq(Nat) /\ Kept(u)[n + i] = a \o Kept(t)[i]
           E == {i \in Nat : i <= m => OK(i)}
<1>7. OK(0)
  <2>1. <<>> \in Seq(Nat) /\ a \o <<>> = a /\ n + 0 = n
    BY <1>1, <1>5, ConcatEmptySeq
  <2> QED
    BY <1>3, <1>4, <1>6, <2>1 DEF a
<1>8. ASSUME NEW i \in Nat, i + 1 <= m, OK(i) PROVE OK(i + 1)
  <2> DEFINE x == t[i + 1]
             b == Kept(t)[i]
  <2>1. /\ i \in 0..(m - 1) /\ n + i \in 0..(n + m - 1) /\ n + i + 1 = n + (i + 1)
        /\ u[n + i + 1] = x /\ x \in Nat
    BY <1>1, <1>8
  <2>2. FilterStep(Kept(u), u, n + i) /\ FilterStep(Kept(t), t, i)
    BY <1>2, <1>4, <2>1
  <2>3. Kept(u)[n + (i + 1)] = IF x \in cancelled THEN Kept(u)[n + i] ELSE Append(Kept(u)[n + i], x)
    BY <2>1, <2>2 DEF FilterStep
  <2>4. Kept(t)[i + 1] = IF x \in cancelled THEN b ELSE Append(b, x)
    BY <2>1, <2>2 DEF FilterStep
  <2>5. b \in Seq(Nat) /\ Kept(u)[n + i] = a \o b
    BY <1>8
  <2> HIDE DEF x, b
  <2>6. Append(b, x) \in Seq(Nat) /\ Append(a \o b, x) = a \o Append(b, x)
    BY <1>5, <2>1, <2>5, ConcatAppend, AppendProperties
  <2> QED
    BY <2>3, <2>4, <2>5, <2>6
<1> HIDE DEF OK
<1>9. m \in E
  <2>1. 0 \in E
    BY <1>7
  <2>2. ASSUME NEW i \in Nat, i \in E PROVE i + 1 \in E
    BY <1>1, <1>8, <2>2
  <2> HIDE DEF E
  <2> QED
    BY <1>1, <2>1, <2>2, Climb
<1>10. OK(m)
  BY <1>1, <1>9
<1> QED
  BY <1>2, <1>4, <1>10 DEF u, a, OK

-----------------------------------------------------------------------------
(* The inductive invariant. *)

\* The array is a heap of timed handles.
HeapInv ==
  /\ Heap(heap)
  /\ \A h \in Values(heap) : h \in Made /\ when[h] \in Times

\* The deque holds handles without a time, in the order in which they were made.
ReadyInv ==
  /\ \A h \in Values(ready) : h \in Made /\ when[h] = Soon
  /\ \A i, j \in 1..Len(ready) : i < j => ready[i] < ready[j]

SchedInv == SchedTypeOK /\ HeapInv /\ ReadyInv

\* What the types say of the handles that were made.
LEMMA MadeFacts ==
  ASSUME SchedTypeOK
  PROVE  /\ Cardinality(Made) \in 0..MaxHandle
         /\ Made = 1..Cardinality(Made) /\ Made \subseteq Handles /\ Handles \subseteq Nat
         /\ when \in [Made -> Times \cup {Soon}]
         /\ Soon \notin Times /\ Times \subseteq Nat
<1>1. PICK n \in 0..MaxHandle : when \in [1..n -> Times \cup {Soon}]
  BY DEF SchedTypeOK
<1>2. n \in Nat /\ n \in 0..MaxHandle /\ 1..n \subseteq Handles
  BY SchedulerAssumption DEF Handles
<1>3. Made = 1..n
  BY <1>1 DEF Made
<1>4. Cardinality(Made) = n
  <2>1. Cardinality(1..n) = IF 1 > n THEN 0 ELSE n - 1 + 1
    BY <1>2, FS_Interval
  <2> QED
    BY <1>2, <1>3, <2>1
<1> QED
  BY <1>1, <1>2, <1>3, <1>4, SchedulerAssumption DEF Times, Handles

\* Deque and array as sequences, and their sets.
LEMMA PlaceFacts ==
  ASSUME SchedInv
  PROVE  /\ ready \in Seq(Nat) /\ heap \in Seq(Nat)
         /\ InReady = Values(ready) /\ InHeap = Values(heap)
         /\ InReady \subseteq Made /\ InHeap \subseteq Made
         /\ InReady \cap InHeap = {}
         /\ \A i, j \in 1..Len(ready) : ready[i] = ready[j] => i = j
         /\ \A i, j \in 1..Len(heap) : heap[i] = heap[j] => i = j
<1>1. Handles \subseteq Nat /\ Soon \notin Times
  BY MadeFacts DEF SchedInv
<1>2. ready \in Seq(Nat) /\ heap \in Seq(Nat)
  BY <1>1, SeqMonotonic DEF SchedInv, SchedTypeOK
<1>3. InReady = Values(ready) /\ InHeap = Values(heap)
  BY <1>2, HeldIsValues DEF InReady, InHeap
<1>4. \A i, j \in 1..Len(ready) : ready[i] = ready[j] => i = j
  <2> SUFFICES ASSUME NEW i \in 1..Len(ready), NEW j \in 1..Len(ready), ready[i] = ready[j]
               PROVE  i = j
    OBVIOUS
  <2>1. ready[i] \in Nat /\ ready[j] \in Nat /\ Len(ready) \in Nat
    BY <1>2
  <2>2. ~(i < j) /\ ~(j < i)
    BY <2>1 DEF SchedInv, ReadyInv
  <2> QED
    BY <2>1, <2>2
<1>5. \A i, j \in 1..Len(heap) : heap[i] = heap[j] => i = j
  BY DEF SchedInv, HeapInv, Heap, Entries
<1> QED
  BY <1>1, <1>2, <1>3, <1>4, <1>5 DEF SchedInv, HeapInv, ReadyInv

-----------------------------------------------------------------------------
(* pop_pending and next_event. *)

\* What pop_pending returns: the live handles of the deque, then the live due
\* timers, in the order in which they are popped.
LEMMA PendingFacts ==
  ASSUME SchedInv, NEW threshold \in Nat
  PROVE  LET soon  == LiveOf(ready)
             timed == LiveOf(DueSeq(threshold))
         IN /\ Pending(threshold) = soon \o timed
            /\ soon \in Seq(Nat) /\ Values(soon) = InReady \ cancelled
            /\ \A i, j \in 1..Len(soon) : i < j => soon[i] < soon[j]
            /\ timed \in Seq(Nat) /\ Values(timed) = Due(threshold) \ cancelled
            /\ \A i, j \in 1..Len(timed) : i < j => Before(timed[i], timed[j])
            /\ \A i, j \in 1..Len(timed) : timed[i] = timed[j] => i = j
<1> DEFINE d == DueSeq(threshold)
           soon == LiveOf(ready)
           timed == LiveOf(d)
<1>1. Heap(heap)
  BY DEF SchedInv, HeapInv
<1>2. /\ d \in Seq(Nat) /\ Values(d) = Due(threshold)
      /\ \A i, j \in 1..Len(d) : i < j => Before(d[i], d[j])
      /\ \A i, j \in 1..Len(d) : d[i] = d[j] => i = j
  BY <1>1, DueSeqFacts
<1>3. ready \in Seq(Nat) /\ InReady = Values(ready)
  BY PlaceFacts
<1>4. Pending(threshold) = LiveOf(ready \o d)
  BY DEF Pending, DueSeq
<1> HIDE DEF d
<1>5. Pending(threshold) = soon \o timed
  BY <1>2, <1>3, <1>4, LiveOfConcat
<1>6. /\ soon \in Seq(Nat) /\ Values(soon) = InReady \ cancelled
      /\ \A k, l \in 1..Len(soon) : k < l =>
           \E p, q \in 1..Len(ready) : p < q /\ soon[k] = ready[p] /\ soon[l] = ready[q]
  BY <1>3, LiveFacts
<1>7. /\ timed \in Seq(Nat) /\ Values(timed) = Due(threshold) \ cancelled
      /\ \A k, l \in 1..Len(timed) : k < l =>
           \E p, q \in 1..Len(d) : p < q /\ timed[k] = d[p] /\ timed[l] = d[q]
  BY <1>2, LiveFacts
<1> HIDE DEF soon, timed
<1>8. \A i, j \in 1..Len(soon) : i < j => soon[i] < soon[j]
  BY <1>6 DEF SchedInv, ReadyInv
<1>9. \A i, j \in 1..Len(timed) : i < j => Before(timed[i], timed[j]) /\ timed[i] # timed[j]
  <2> SUFFICES ASSUME NEW i \in 1..Len(timed), NEW j \in 1..Len(timed), i < j
               PROVE  Before(timed[i], timed[j]) /\ timed[i] # timed[j]
    OBVIOUS
  <2>1. PICK a \in 1..Len(d), b \in 1..Len(d) : a < b /\ timed[i] = d[a] /\ timed[j] = d[b]
    BY <1>7
  <2>2. a # b
    BY <1>2, <2>1
  <2> QED
    BY <1>2, <2>1, <2>2
<1>10. ASSUME NEW i \in 1..Len(timed), NEW j \in 1..Len(timed), timed[i] = timed[j]
       PROVE  i = j
  <2>1. ~(i < j) /\ ~(j < i)
    BY <1>9, <1>10
  <2> QED
    BY <2>1
<1> QED
  BY <1>5, <1>6, <1>7, <1>8, <1>9, <1>10 DEF soon, timed, d

\* The parts of a concatenation.
LEMMA ConcatParts ==
  ASSUME NEW a \in Seq(Nat), NEW b \in Seq(Nat)
  PROVE  /\ Len(a) \in Nat /\ Len(b) \in Nat
         /\ a \o b \in Seq(Nat) /\ Len(a \o b) = Len(a) + Len(b)
         /\ \A i \in 1..Len(a) : (a \o b)[i] = a[i]
         /\ \A i \in (Len(a) + 1)..(Len(a) + Len(b)) :
              i - Len(a) \in 1..Len(b) /\ (a \o b)[i] = b[i - Len(a)]
         /\ \A i \in 1..Len(b) : (a \o b)[Len(a) + i] = b[i]
<1> DEFINE n == Len(a)
           m == Len(b)
           u == a \o b
<1>1. /\ n \in Nat /\ m \in Nat /\ u \in Seq(Nat) /\ Len(u) = n + m
      /\ \A i \in 1..(n + m) : u[i] = IF i <= n THEN a[i] ELSE b[i - n]
  BY ConcatProperties
<1> HIDE DEF u, n, m
<1>2. ASSUME NEW i \in 1..n PROVE u[i] = a[i]
  <2>1. i \in 1..(n + m) /\ i <= n
    BY <1>1
  <2> QED
    BY <1>1, <2>1
<1>3. ASSUME NEW i \in (n + 1)..(n + m) PROVE i - n \in 1..m /\ u[i] = b[i - n]
  <2>1. i \in 1..(n + m) /\ ~(i <= n) /\ i - n \in 1..m
    BY <1>1
  <2> QED
    BY <1>1, <2>1
<1>4. ASSUME NEW i \in 1..m PROVE u[n + i] = b[i]
  <2>1. n + i \in (n + 1)..(n + m) /\ (n + i) - n = i
    BY <1>1
  <2> QED
    BY <1>3, <2>1
<1> QED
  BY <1>1, <1>2, <1>3, <1>4 DEF u, n, m

\* The invariant says what pop_pending does, at whatever instant it is called.
LEMMA InvPops == SchedInv => PopsTheDue
<1> SUFFICES ASSUME SchedInv, NEW now \in Times
    PROVE LET popped == Pending(now)
              soon   == LiveOf(ready)
              due    == {h \in InHeap : when[h] <= now}
              rest   == HeapAfter(DueCount(now))
              front  == Len(soon)
          IN /\ SubSeq(popped, 1, front) = soon
             /\ Len(popped) = front + Cardinality(due \ cancelled)
             /\ {popped[i] : i \in (front + 1)..Len(popped)} = due \ cancelled
             /\ \A i \in (front + 1)..Len(popped), j \in (front + 1)..Len(popped) :
                  i < j => Before(popped[i], popped[j])
             /\ {rest[i] : i \in DOMAIN rest} = InHeap \ due
             /\ Len(rest) = Cardinality(InHeap \ due)
  BY DEF PopsTheDue
<1> DEFINE soon == LiveOf(ready)
           timed == LiveOf(DueSeq(now))
           popped == Pending(now)
           due == {h \in InHeap : when[h] <= now}
           rest == HeapAfter(DueCount(now))
           n == Len(soon)
           m == Len(timed)
<1>1. now \in Nat /\ InHeap = Values(heap) /\ Heap(heap)
  BY MadeFacts, PlaceFacts DEF SchedInv, HeapInv
<1>2. due = Due(now)
  BY <1>1 DEF Due
<1>3. /\ popped = soon \o timed /\ soon \in Seq(Nat)
      /\ timed \in Seq(Nat) /\ Values(timed) = due \ cancelled
      /\ \A i, j \in 1..m : i < j => Before(timed[i], timed[j])
      /\ \A i, j \in 1..m : timed[i] = timed[j] => i = j
  BY <1>1, <1>2, PendingFacts
<1>4. Heap(rest) /\ Values(rest) = InHeap \ due
  BY <1>1, <1>2, PopsDue
<1> HIDE DEF soon, timed, popped, due, rest
<1>5. /\ n \in Nat /\ m \in Nat /\ popped \in Seq(Nat) /\ Len(popped) = n + m
      /\ \A i \in 1..n : popped[i] = soon[i]
      /\ \A i \in (n + 1)..(n + m) : i - n \in 1..m /\ popped[i] = timed[i - n]
      /\ \A i \in 1..m : popped[n + i] = timed[i]
  BY <1>3, ConcatParts
<1>6. Len(popped) = n + Cardinality(due \ cancelled)
  BY <1>3, <1>5, CountDistinct
<1>7. SubSeq(popped, 1, n) = soon
  <2>1. \A i \in 1..n : popped[i] \in Nat
    BY <1>3, <1>5
  <2>2. /\ SubSeq(popped, 1, n) \in Seq(Nat)
        /\ Len(SubSeq(popped, 1, n)) = IF 1 <= n THEN n - 1 + 1 ELSE 0
        /\ \A i \in 1..(n - 1 + 1) : SubSeq(popped, 1, n)[i] = popped[1 + i - 1]
    BY <1>5, <2>1, SubSeqProperties
  <2>3. /\ Len(SubSeq(popped, 1, n)) = n
        /\ \A i \in 1..n : SubSeq(popped, 1, n)[i] = soon[i]
    BY <1>5, <2>2
  <2> HIDE DEF n
  <2>4. Len(soon) = n
    BY DEF n
  <2> QED
    BY <1>3, <2>2, <2>3, <2>4, SeqEqual
<1> HIDE DEF n, m
<1>8. {popped[i] : i \in (n + 1)..Len(popped)} = due \ cancelled
  <2>1. \A i \in (n + 1)..Len(popped) : popped[i] \in Values(timed)
    BY <1>5 DEF Values, m
  <2>2. \A i \in 1..m : n + i \in (n + 1)..Len(popped) /\ popped[n + i] = timed[i]
    BY <1>5
  <2>3. \A e \in Values(timed) : \E i \in (n + 1)..Len(popped) : e = popped[i]
    BY <2>2 DEF Values, m
  <2> DEFINE tail == {popped[i] : i \in (n + 1)..Len(popped)}
  <2>4. \A e : e \in tail => e \in Values(timed)
    BY <2>1
  <2>5. \A e : e \in Values(timed) => e \in tail
    BY <2>3
  <2> HIDE DEF tail
  <2>6. tail = Values(timed)
    BY <2>4, <2>5
  <2> QED
    BY <1>3, <2>6 DEF tail
<1>9. ASSUME NEW i \in (n + 1)..Len(popped), NEW j \in (n + 1)..Len(popped), i < j
      PROVE  Before(popped[i], popped[j])
  <2>1. /\ i - n \in 1..m /\ popped[i] = timed[i - n]
        /\ j - n \in 1..m /\ popped[j] = timed[j - n] /\ i - n < j - n
    BY <1>5, <1>9
  <2> QED
    BY <1>3, <2>1
<1>10. {rest[i] : i \in DOMAIN rest} = InHeap \ due /\ Len(rest) = Cardinality(InHeap \ due)
  <2>1. rest \in Seq(Nat) /\ \A i, j \in 1..Len(rest) : rest[i] = rest[j] => i = j
    BY <1>4 DEF Heap, Entries
  <2> QED
    BY <1>4, <2>1, CountDistinct, HeldIsValues
<1> QED
  BY <1>6, <1>7, <1>8, <1>9, <1>10 DEF soon, popped, due, rest, n

\* The time next_event returns is that of a live timer, if there is one, and the
\* earliest when the root is live.
LEMMA InvNextEvent == SchedInv => NextEventIfRootLive /\ NextEvent \in Times \cup {Soon}
<1> SUFFICES ASSUME SchedInv PROVE NextEventIfRootLive /\ NextEvent \in Times \cup {Soon}
  OBVIOUS
<1> DEFINE alive == {i \in DOMAIN heap : heap[i] \notin cancelled}
           live == InHeap \ cancelled
<1>1. /\ heap \in Seq(Nat) /\ Len(heap) \in Nat /\ DOMAIN heap = 1..Len(heap)
      /\ InHeap = Values(heap)
      /\ Soon \notin Times /\ Times \subseteq Nat
      /\ \A h \in InHeap : when[h] \in Times
      /\ Entries(heap, Len(heap), when) /\ IsHeap(heap, Len(heap), when)
  BY MadeFacts, PlaceFacts, HeldIsValues DEF SchedInv, HeapInv, Heap
<1>2. \A i \in alive : heap[i] \in live
  BY <1>1 DEF Values
<1>3. \A h \in live : \E i \in alive : h = heap[i]
  BY <1>1 DEF Values
<1>4. CASE alive = {}
  <2>1. live = {} /\ NextEvent = Soon
    BY <1>3, <1>4 DEF NextEvent
  <2>2. heap # <<>> => 1 \in 1..Len(heap)
    BY <1>1
  <2> QED
    BY <1>1, <1>4, <2>1, <2>2 DEF NextEventIfRootLive
<1>5. CASE alive # {}
  <2> DEFINE first == CHOOSE i \in alive : \A j \in alive : i <= j
  <2>1. alive \subseteq Nat
    BY <1>1
  <2>2. first \in alive /\ \A j \in alive : first <= j
    <3> HIDE DEF alive
    <3>1. \E i \in alive : \A j \in alive : i <= j
      BY <1>5, <2>1, LeastNat
    <3> QED
      BY <3>1
  <2>3. NextEvent = when[heap[first]]
    BY <1>5 DEF NextEvent
  <2> HIDE DEF first
  <2>4. heap[first] \in live /\ NextEvent \in Times /\ NextEvent # Soon
    BY <1>1, <1>2, <2>2, <2>3
  <2>5. ASSUME heap # <<>>, heap[1] \notin cancelled, NEW h \in live PROVE NextEvent <= when[h]
    <3>1. 1 \in 1..Len(heap) /\ 1 \in alive
      BY <1>1, <2>5
    <3>2. first = 1
      BY <1>1, <2>2, <3>1
    <3>3. PICK i \in 1..Len(heap) : h = heap[i]
      BY <1>1, <2>5 DEF Values
    <3>4. ~Earlier(when, h, heap[1])
      BY <1>1, <3>3, RootIsLeast
    <3>5. when[h] \in Nat /\ when[heap[1]] \in Nat
      BY <1>1, <2>3, <2>4, <2>5, <3>2
    <3> QED
      BY <2>3, <3>2, <3>4, <3>5 DEF Earlier
  <2> QED
    BY <2>3, <2>4, <2>5 DEF NextEventIfRootLive
<1> QED
  BY <1>4, <1>5

-----------------------------------------------------------------------------
(* The operations keep the invariant. *)

\* What enqueue changes.
Enqueued(w, h) ==
  /\ h \in Handles /\ h \notin Made /\ \A g \in Made : g < h /\ when'[g] = when[g]
  /\ Made' = Made \cup {h} /\ when'[h] = w
  /\ cancelled' = cancelled
  /\ w = Soon => heap' = heap /\ Values(ready') = Values(ready) \cup {h}
  /\ w # Soon => ready' = ready /\ Values(heap') = Values(heap) \cup {h}

\* enqueue puts the new handle at the end of the deque, or into the heap.
LEMMA EnqueueFacts ==
  ASSUME SchedInv, NEW w \in Times \cup {Soon}, Enqueue(w)
  PROVE  SchedInv' /\ \E h \in Handles : Enqueued(w, h)
<1> DEFINE h == Cardinality(Made) + 1
           n == Cardinality(Made)
           made == [g \in Made \cup {h} |-> IF g = h THEN w ELSE when[g]]
           L == Len(heap)
           R == Len(ready)
<1>1. /\ n \in 0..MaxHandle /\ Made = 1..n /\ Made \subseteq Handles /\ Handles \subseteq Nat
      /\ when \in [Made -> Times \cup {Soon}] /\ Soon \notin Times /\ Times \subseteq Nat
  BY MadeFacts DEF SchedInv
<1>2. /\ h \in Handles /\ when' = made /\ cancelled' = cancelled
      /\ w = Soon => ready' = Append(ready, h) /\ heap' = heap
      /\ w # Soon => heap' = Push(heap, h, made) /\ ready' = ready
  BY DEF Enqueue
<1>3. /\ h \in Nat /\ h \notin Made /\ Made \cup {h} = 1..(n + 1) /\ n + 1 \in 0..MaxHandle
      /\ \A g \in Made : g < h
  BY <1>1, <1>2, SchedulerAssumption DEF Handles
<1> HIDE DEF h, n
<1>4. /\ when' \in [1..(n + 1) -> Times \cup {Soon}] /\ Made' = Made \cup {h}
      /\ when'[h] = w /\ \A g \in Made : when'[g] = when[g]
  <2>1. made \in [Made \cup {h} -> Times \cup {Soon}]
    BY <1>1
  <2> QED
    BY <1>2, <1>3, <2>1 DEF Made
<1> HIDE DEF made
<1>5. /\ heap \in Seq(Nat) /\ ready \in Seq(Nat) /\ L \in Nat /\ R \in Nat
      /\ ready \in Seq(Handles) /\ heap \in Seq(Handles)
      /\ Entries(heap, L, when) /\ IsHeap(heap, L, when)
      /\ \A i \in 1..L : heap[i] \in Made /\ when[heap[i]] \in Times
      /\ \A i \in 1..R : ready[i] \in Made /\ when[ready[i]] = Soon
  <2>1. heap \in Seq(Nat) /\ ready \in Seq(Nat)
    BY PlaceFacts
  <2>2. /\ Entries(heap, L, when) /\ IsHeap(heap, L, when)
        /\ \A g \in Values(heap) : g \in Made /\ when[g] \in Times
        /\ \A g \in Values(ready) : g \in Made /\ when[g] = Soon
    BY DEF SchedInv, HeapInv, ReadyInv, Heap
  <2>3. (\A i \in 1..L : heap[i] \in Values(heap)) /\ (\A i \in 1..R : ready[i] \in Values(ready))
    BY DEF Values
  <2> QED
    BY <2>1, <2>2, <2>3 DEF SchedInv, SchedTypeOK
<1>6. Entries(heap, L, when') /\ IsHeap(heap, L, when')
  <2>1. \A i \in 1..L : when'[heap[i]] = when[heap[i]]
    BY <1>4, <1>5
  <2>2. Entries(heap, L, when')
    BY <1>5, <2>1 DEF Entries
  <2>3. ASSUME NEW j \in 2..L PROVE ~Earlier(when', heap[j], heap[j \div 2])
    <3>1. j \in 1..L /\ j \div 2 \in 1..L
      BY <1>5, ParentFacts
    <3> QED
      BY <1>5, <2>1, <3>1 DEF IsHeap, Earlier
  <2> QED
    BY <2>2, <2>3 DEF IsHeap
<1>7. cancelled' \subseteq Made'
  BY <1>2, <1>4 DEF SchedInv, SchedTypeOK
<1>8. CASE w = Soon
  <2>1. ready' = Append(ready, h) /\ heap' = heap
    BY <1>2, <1>8
  <2>2. /\ ready' \in Seq(Handles) /\ Len(ready') = R + 1 /\ ready'[R + 1] = h
        /\ \A i \in 1..R : ready'[i] = ready[i]
    BY <1>2, <1>5, <2>1, AppendProperties
  <2>3. \A i \in 1..(R + 1) : i = R + 1 \/ i \in 1..R
    BY <1>5
  <2>4. Values(ready') = Values(ready) \cup {h}
    <3>1. R + 1 \in 1..(R + 1) /\ \A i \in 1..R : i \in 1..(R + 1)
      BY <1>5
    <3>2. \A e \in Values(ready') : e \in Values(ready) \cup {h}
      BY <2>2, <2>3 DEF Values
    <3>3. \A e \in Values(ready) \cup {h} : e \in Values(ready')
      BY <2>2, <3>1 DEF Values
    <3> QED
      BY <3>2, <3>3
  <2>5. SchedTypeOK'
    BY <1>3, <1>4, <1>5, <1>7, <2>1, <2>2 DEF SchedTypeOK
  <2>6. HeapInv'
    <3>1. Heap(heap)'
      BY <1>5, <1>6, <2>1 DEF Heap
    <3>2. \A g \in Values(heap) : g \in Made' /\ when'[g] \in Times
      BY <1>4, <1>5 DEF Values
    <3> QED
      BY <2>1, <3>1, <3>2 DEF HeapInv
  <2>7. ReadyInv'
    <3>1. \A g \in Values(ready') : g \in Made' /\ when'[g] = Soon
      <4>1. \A g \in Values(ready) : g \in Made /\ when[g] = Soon
        BY <1>5 DEF Values
      <4> QED
        BY <1>4, <1>8, <2>4, <4>1
    <3>2. ASSUME NEW i \in 1..(R + 1), NEW j \in 1..(R + 1), i < j
          PROVE  ready'[i] < ready'[j]
      <4>1. i \in 1..R
        BY <1>5, <3>2
      <4>2. CASE j = R + 1
        BY <1>3, <1>5, <2>2, <4>1, <4>2
      <4>3. CASE j \in 1..R
        BY <2>2, <3>2, <4>1, <4>3 DEF SchedInv, ReadyInv
      <4> QED
        BY <2>3, <4>2, <4>3
    <3> QED
      BY <2>2, <3>1, <3>2 DEF ReadyInv
  <2> QED
    BY <1>2, <1>3, <1>4, <1>8, <2>1, <2>4, <2>5, <2>6, <2>7 DEF SchedInv, Enqueued
<1>9. CASE w # Soon
  <2>1. heap' = Push(heap, h, when') /\ ready' = ready /\ w \in Times
    BY <1>2, <1>9
  <2>2. h \notin Held(heap, L)
    BY <1>3, <1>5 DEF Held
  <2>3. when'[h] \in Nat
    BY <1>1, <1>4, <2>1
  <2>4. /\ heap' \in Seq(Nat) /\ Len(heap') = L + 1
        /\ Entries(heap', L + 1, when') /\ IsHeap(heap', L + 1, when')
        /\ Held(heap', L + 1) = Held(heap, L) \cup {h}
    BY <1>3, <1>5, <1>6, <2>1, <2>2, <2>3, PushFacts
  <2>5. Values(heap') = Values(heap) \cup {h}
    BY <2>4 DEF Values, Held
  <2>6. \A g \in Values(heap') : g \in Made' /\ when'[g] \in Times
    <3>1. \A g \in Values(heap) : g \in Made /\ when[g] \in Times
      BY <1>5 DEF Values
    <3> QED
      BY <1>4, <2>1, <2>5, <3>1
  <2>7. HeapInv'
    <3>1. Heap(heap)'
      BY <2>4 DEF Heap
    <3> QED
      BY <2>6, <3>1 DEF HeapInv
  <2>8. heap' \in Seq(Handles)
    <3>1. \A i \in 1..(L + 1) : heap'[i] \in Handles
      BY <1>1, <1>2, <1>4, <2>4, <2>6 DEF Values
    <3>2. heap' \in [1..(L + 1) -> Handles]
      BY <2>4, <3>1 DEF Entries
    <3> QED
      BY <1>5, <3>2
  <2>9. SchedTypeOK'
    BY <1>3, <1>4, <1>5, <1>7, <2>1, <2>8 DEF SchedTypeOK
  <2>10. ReadyInv'
    <3>1. \A g \in Values(ready) : g \in Made' /\ when'[g] = Soon
      BY <1>4, <1>5 DEF Values
    <3>2. \A i, j \in 1..Len(ready) : i < j => ready[i] < ready[j]
      BY DEF SchedInv, ReadyInv
    <3> QED
      BY <2>1, <3>1, <3>2 DEF ReadyInv
  <2> QED
    BY <1>2, <1>3, <1>4, <1>9, <2>1, <2>5, <2>7, <2>9, <2>10 DEF SchedInv, Enqueued
<1> QED
  BY <1>8, <1>9

\* pop_pending empties the deque and leaves a heap of what is not due.
LEMMA PopPendingFacts ==
  ASSUME SchedInv, NEW threshold \in Nat, PopPending(threshold)
  PROVE  /\ SchedInv'
         /\ Values(ready') = {} /\ Values(heap') = Values(heap) \ Due(threshold)
         /\ when' = when /\ cancelled' = cancelled /\ Made' = Made
<1>1. /\ ready' = <<>> /\ heap' = HeapAfter(DueCount(threshold))
      /\ when' = when /\ cancelled' = cancelled /\ Made' = Made
  BY DEF PopPending, Made
<1>2. Heap(heap) /\ \A h \in Values(heap) : h \in Made /\ when[h] \in Times
  BY DEF SchedInv, HeapInv
<1>3. /\ Heap(HeapAfter(DueCount(threshold)))
      /\ Values(heap') = Values(heap) \ Due(threshold)
  BY <1>1, <1>2, PopsDue
<1>4. HeapInv'
  <2>1. Heap(heap)'
    BY <1>1, <1>3 DEF Heap
  <2> QED
    BY <1>1, <1>2, <1>3, <2>1 DEF HeapInv
<1>5. ready' \in Seq(Handles) /\ Len(ready') = 0 /\ 1..0 = {}
  BY <1>1
<1>6. ReadyInv' /\ Values(ready') = {}
  BY <1>5 DEF ReadyInv, Values
<1>7. heap' \in Seq(Handles)
  <2>1. Made \subseteq Handles
    BY MadeFacts DEF SchedInv
  <2>2. heap' \in Seq(Nat) /\ Len(heap') \in Nat
    BY <1>4 DEF HeapInv, Heap
  <2>3. \A i \in 1..Len(heap') : heap'[i] \in Values(heap')
    BY DEF Values
  <2>4. \A i \in 1..Len(heap') : heap'[i] \in Handles
    BY <1>2, <1>3, <2>1, <2>3
  <2>5. heap' \in [1..Len(heap') -> Handles]
    BY <2>2, <2>4
  <2> QED
    BY <2>2, <2>5
<1>8. SchedTypeOK'
  BY <1>1, <1>5, <1>7 DEF SchedInv, SchedTypeOK, Made
<1> QED
  BY <1>1, <1>3, <1>4, <1>6, <1>8 DEF SchedInv

\* A step that leaves the queues alone keeps them.
LEMMA QueuesKept ==
  ASSUME SchedInv, UNCHANGED <<ready, heap, when>>, cancelled' \subseteq Made
  PROVE  SchedInv'
BY DEF SchedInv, SchedTypeOK, HeapInv, ReadyInv, Heap, Made

-----------------------------------------------------------------------------
(* The theorems. *)

\* The invariant holds from the empty scheduler on, whatever is called.
THEOREM SchedInductive == SchedSpec => []SchedInv
<1>1. SchedInit => SchedInv
  <2> SUFFICES ASSUME SchedInit PROVE SchedInv
    OBVIOUS
  <2>1. /\ ready = <<>> /\ heap = <<>> /\ when = <<>> /\ cancelled = {}
        /\ Len(<<>>) = 0 /\ 1..0 = {} /\ 2..0 = {}
    BY DEF SchedInit
  <2>2. <<>> \in [1..0 -> Times \cup {Soon}] /\ <<>> \in [1..0 -> Nat] /\ 0 \in 0..MaxHandle
    BY SchedulerAssumption
  <2>3. SchedTypeOK
    BY <2>1, <2>2 DEF SchedTypeOK
  <2>4. HeapInv /\ ReadyInv
    BY <2>1, <2>2 DEF HeapInv, ReadyInv, Heap, Entries, IsHeap, Values
  <2> QED
    BY <2>3, <2>4 DEF SchedInv
<1>2. SchedInv /\ [SchedNext]_schedVars => SchedInv'
  <2> SUFFICES ASSUME SchedInv, [SchedNext]_schedVars PROVE SchedInv'
    OBVIOUS
  <2>1. ASSUME NEW w \in Times \cup {Soon}, Enqueue(w) PROVE SchedInv'
    BY <2>1, EnqueueFacts
  <2>2. ASSUME NEW h \in Handles, CancelHandle(h) PROVE SchedInv'
    <3>1. UNCHANGED <<ready, heap, when>> /\ cancelled' \subseteq Made
      BY <2>2 DEF CancelHandle, SchedInv, SchedTypeOK
    <3> QED
      BY <3>1, QueuesKept
  <2>3. ASSUME NEW now \in Times, PopPending(now) PROVE SchedInv'
    <3>1. now \in Nat
      BY MadeFacts DEF SchedInv
    <3> QED
      BY <2>3, <3>1, PopPendingFacts
  <2>4. CASE UNCHANGED schedVars
    <3>1. UNCHANGED <<ready, heap, when>> /\ cancelled' \subseteq Made
      BY <2>4 DEF schedVars, SchedInv, SchedTypeOK
    <3> QED
      BY <3>1, QueuesKept
  <2> QED
    BY <2>1, <2>2, <2>3, <2>4 DEF SchedNext
<1> QED
  BY <1>1, <1>2, PTL DEF SchedSpec

\* Deque, heap and cancelled handles keep their types.
THEOREM SchedTypeCorrect == SchedSpec => []SchedTypeOK
<1>1. SchedInv => SchedTypeOK
  BY DEF SchedInv
<1> QED
  BY <1>1, SchedInductive, PTL

\* pop_pending returns the live handles of the deque in order, then the live due
\* timers in the order of time and creation, and leaves the rest.
THEOREM PendingIsTheDue == SchedSpec => []PopsTheDue
<1> QED
  BY InvPops, SchedInductive, PTL

\* next_event names a live timer's time, the earliest when the root is live.
THEOREM NextEventExact == SchedSpec => []NextEventIfRootLive
<1>1. SchedInv => NextEventIfRootLive
  BY InvNextEvent
<1> QED
  BY <1>1, SchedInductive, PTL
=============================================================================
