------------------------------ MODULE HeapProofs ------------------------------
(***************************************************************************)
(* heapq, as Scheduler.tla has it, is a priority queue: heappush and       *)
(* heappop keep the entries, but for the one they add or take, and the     *)
(* heap order, and the root is the least entry - for arrays of any length. *)
(*                                                                         *)
(* Rise and Sink are recursive functions.  That there is a function that   *)
(* satisfies the recursive equation is shown by climbing from 0 (RiseDef,  *)
(* SinkDef); what the function computes, by looking at the first position  *)
(* where it would go wrong (LeastNat).                                     *)
(***************************************************************************)
EXTENDS Scheduler, FiniteSetTheorems, SequenceTheorems, WellFoundedInduction, TLAPS

-----------------------------------------------------------------------------
(* Induction.  The library's theorem takes a predicate; a set serves as well. *)

\* Every set of naturals that is not empty has a least element.
LEMMA LeastNat ==
  ASSUME NEW S, S \subseteq Nat, S # {}
  PROVE  \E n \in S : \A m \in S : n <= m
<1> DEFINE R == OpToRel(<, Nat)
<1>1. \A m, n \in Nat : m < n => <<m, n>> \in R
  BY DEF OpToRel
<1> HIDE DEF R
<1>2. IsWellFoundedOn(R, Nat)
  BY NatLessThanWellFounded DEF R
<1>3. PICK n \in S : \A m \in S : <<m, n>> \notin R
  BY <1>2, WFMin
<1>4. \A m \in S : ~(m < n)
  BY <1>1, <1>3
<1>5. \A m \in S : n <= m
  BY <1>4
<1> QED
  BY <1>5

\* A set that holds 0, and with each number the next, holds all of them.
LEMMA Climb ==
  ASSUME NEW S, 0 \in S, \A n \in Nat : n \in S => n + 1 \in S
  PROVE  Nat \subseteq S
<1> SUFFICES ASSUME Nat \ S # {} PROVE FALSE
  OBVIOUS
<1>1. PICK n \in Nat \ S : \A m \in Nat \ S : n <= m
  BY LeastNat
<1>2. n # 0 /\ n - 1 \in Nat /\ n - 1 \in S
  BY <1>1
<1> QED
  BY <1>1, <1>2

-----------------------------------------------------------------------------
(* Heaps: positions, the order of their entries, and the root. *)

\* Positions of a tree with children 2i and 2i + 1.
LEMMA ParentFacts ==
  ASSUME NEW j \in Nat, j > 1
  PROVE  /\ j \div 2 \in Nat /\ 1 <= j \div 2 /\ j \div 2 < j
         /\ \A i \in Nat : j \div 2 = i <=> j = 2 * i \/ j = 2 * i + 1
OBVIOUS

\* hp has the entries 1..n, all of them timed, and none of them twice.
Entries(hp, n, time) ==
  /\ hp \in [1..n -> Nat]
  /\ \A i \in 1..n : time[hp[i]] \in Nat
  /\ \A i, k \in 1..n : hp[i] = hp[k] => i = k

\* No entry precedes its parent.
IsHeap(hp, n, time) ==
  \A j \in 2..n : ~Earlier(time, hp[j], hp[j \div 2])

\* (when, _ids_generator) is a total order.
LEMMA OrderFacts ==
  ASSUME NEW time, NEW h \in Nat, NEW g \in Nat, NEW e \in Nat,
         time[h] \in Nat, time[g] \in Nat, time[e] \in Nat
  PROVE  /\ ~Earlier(time, h, h)
         /\ h # g => Earlier(time, h, g) \/ Earlier(time, g, h)
         /\ Earlier(time, h, g) => ~Earlier(time, g, h)
         /\ ~Earlier(time, g, h) /\ ~Earlier(time, e, g) => ~Earlier(time, e, h)
         /\ Earlier(time, h, g) /\ ~Earlier(time, e, g) => Earlier(time, h, e)
BY DEF Earlier

\* The root is the least entry.
LEMMA RootIsLeast ==
  ASSUME NEW n \in Nat, NEW time, NEW hp, Entries(hp, n, time), IsHeap(hp, n, time)
  PROVE  \A j \in 1..n : ~Earlier(time, hp[j], hp[1])
<1> DEFINE Bad == {j \in 1..n : Earlier(time, hp[j], hp[1])}
<1> SUFFICES ASSUME Bad # {} PROVE FALSE
  OBVIOUS
<1>0. Bad \subseteq Nat
  OBVIOUS
<1>1. PICK j \in Bad : \A k \in Bad : j <= k
  <2> HIDE DEF Bad
  <2> QED
    BY <1>0, LeastNat
<1>2. j \in 1..n /\ Earlier(time, hp[j], hp[1]) /\ 1 \in 1..n
  BY <1>1
<1>3. \A i \in 1..n : hp[i] \in Nat /\ time[hp[i]] \in Nat
  BY DEF Entries
<1>4. j # 1
  BY <1>2, <1>3, OrderFacts
<1>5. j \div 2 \in 1..n /\ j \div 2 < j
  BY <1>2, <1>4, ParentFacts
<1>6. ~Earlier(time, hp[j], hp[j \div 2])
  BY <1>2, <1>4 DEF IsHeap
<1>7. ~Earlier(time, hp[j \div 2], hp[1])
  BY <1>1, <1>5
<1> QED
  BY <1>2, <1>3, <1>5, <1>6, <1>7, OrderFacts

-----------------------------------------------------------------------------
(* heappush. *)

Risen(hp, x, time, f, i) ==
  IF i > 1 /\ Earlier(time, x, hp[i \div 2])
    THEN [f[i \div 2] EXCEPT ![i] = hp[i \div 2]]
    ELSE [hp EXCEPT ![i] = x]

\* Rise is the function that its definition describes.
LEMMA RiseDef ==
  ASSUME NEW n \in Nat, NEW hp \in [1..n -> Nat], NEW x, NEW time
  PROVE  Rise(hp, x, time) =
           [i \in 1..n |-> Risen(hp, x, time, Rise(hp, x, time), i)]
<1> DEFINE D == {m \in Nat : m <= n => \E f : f = [i \in 1..m |-> Risen(hp, x, time, f, i)]}
<1>1. 0 \in D
  <2>1. [i \in 1..0 |-> 0] = [i \in 1..0 |-> Risen(hp, x, time, [k \in 1..0 |-> 0], i)]
    OBVIOUS
  <2> QED
    BY <2>1
<1>2. ASSUME NEW m \in Nat, m \in D PROVE m + 1 \in D
  <2> SUFFICES ASSUME m + 1 <= n
               PROVE  \E g : g = [i \in 1..(m + 1) |-> Risen(hp, x, time, g, i)]
    OBVIOUS
  <2>1. PICK f : f = [i \in 1..m |-> Risen(hp, x, time, f, i)]
    BY <1>2
  <2> DEFINE g == [i \in 1..(m + 1) |-> IF i = m + 1 THEN Risen(hp, x, time, f, i) ELSE f[i]]
  <2>2. ASSUME NEW i \in 1..(m + 1)
        PROVE  g[i] = Risen(hp, x, time, f, i) /\ Risen(hp, x, time, g, i) = Risen(hp, x, time, f, i)
    <3>1. g[i] = Risen(hp, x, time, f, i)
      BY <2>1
    <3>2. i > 1 => g[i \div 2] = f[i \div 2]
      <4>1. i > 1 => i \div 2 \in 1..m
        BY ParentFacts
      <4>2. \A k \in 1..m : g[k] = f[k]
        OBVIOUS
      <4> QED
        BY <4>1, <4>2
    <3> HIDE DEF g
    <3>3. Risen(hp, x, time, g, i) = Risen(hp, x, time, f, i)
      BY <3>2 DEF Risen
    <3> QED
      BY <3>1, <3>3
  <2>3. g = [i \in 1..(m + 1) |-> Risen(hp, x, time, g, i)]
    <3> HIDE DEF g
    <3> SUFFICES g = [i \in 1..(m + 1) |-> Risen(hp, x, time, f, i)]
      BY <2>2
    <3> QED
      BY <2>2 DEF g
  <2> QED
    BY <2>3
<1>3. n \in D
  BY <1>1, <1>2, Climb
<1>4. PICK f : f = [i \in 1..n |-> Risen(hp, x, time, f, i)]
  BY <1>3
<1> QED
  BY <1>4 DEF Rise, Risen

\* Halfway up, at position i: x is there, or the parent of i, and the rest are the
\* entries of hp without that of i.  Only the children of i may be out of order.
Lifted(s, hp, n, time, i) ==
  /\ s \in [1..n -> Nat]
  /\ \A j \in (i + 1)..n : s[j] = hp[j]
  /\ s[i] = hp[n] \/ (i > 1 /\ s[i] = hp[i \div 2])
  /\ \A j \in 2..(n - 1) : j \div 2 # i => ~Earlier(time, s[j], s[j \div 2])
  /\ \A j \in 1..(n - 1) : \E k \in 1..n : k # i /\ s[j] = hp[k]
  /\ \A k \in 1..n : k # i => \E j \in 1..(n - 1) : s[j] = hp[k]
  /\ \A j, k \in 1..(n - 1) : s[j] = s[k] => j = k

\* The new entry stays at i.
LEMMA RiseStops ==
  ASSUME NEW n \in Nat, NEW time, NEW hp, NEW i \in 1..(n - 1),
         Entries(hp, n, time), IsHeap(hp, n - 1, time),
         ~(i > 1 /\ Earlier(time, hp[n], hp[i \div 2]))
  PROVE  Lifted([hp EXCEPT ![i] = hp[n]], hp, n, time, i)
<1> DEFINE s == [hp EXCEPT ![i] = hp[n]]
<1>1. /\ hp \in [1..n -> Nat] /\ n \in 1..n /\ n # i /\ i \in 1..n
      /\ \A k \in 1..(n - 1) : k \in 1..n /\ k # n
  BY DEF Entries
<1>2. /\ s \in [1..n -> Nat] /\ s[i] = hp[n]
      /\ \A j \in 1..n : j # i => s[j] = hp[j]
  BY <1>1
<1> HIDE DEF s
<1>3. \A j \in (i + 1)..n : s[j] = hp[j]
  BY <1>2
<1>4. ASSUME NEW j \in 2..(n - 1), j \div 2 # i PROVE ~Earlier(time, s[j], s[j \div 2])
  <2>1. j \in 1..n /\ j \div 2 \in 1..n /\ s[j \div 2] = hp[j \div 2]
    BY <1>2, <1>4, ParentFacts
  <2>2. CASE j = i
    BY <1>2, <2>1, <2>2
  <2>3. CASE j # i
    BY <1>2, <1>4, <2>1, <2>3 DEF IsHeap
  <2> QED
    BY <2>2, <2>3
<1>5. \A j \in 1..(n - 1) : \E k \in 1..n : k # i /\ s[j] = hp[k]
  BY <1>1, <1>2
<1>6. ASSUME NEW k \in 1..n, k # i PROVE \E j \in 1..(n - 1) : s[j] = hp[k]
  <2>1. CASE k = n
    BY <1>2, <2>1
  <2>2. CASE k # n
    <3>1. k \in 1..(n - 1)
      BY <2>2
    <3> QED
      BY <1>2, <1>6, <3>1
  <2> QED
    BY <2>1, <2>2
<1>7. ASSUME NEW j \in 1..(n - 1), NEW k \in 1..(n - 1), s[j] = s[k] PROVE j = k
  <2>1. \A a, b \in 1..n : hp[a] = hp[b] => a = b
    BY DEF Entries
  <2> QED
    BY <1>1, <1>2, <1>7, <2>1
<1> QED
  BY <1>2, <1>3, <1>4, <1>5, <1>6, <1>7 DEF Lifted, s

\* The parent of i takes its place, and the new entry goes on to rise from there.
LEMMA RiseGoesOn ==
  ASSUME NEW n \in Nat, NEW time, NEW hp, NEW i \in 1..(n - 1), i > 1,
         Entries(hp, n, time), IsHeap(hp, n - 1, time),
         Earlier(time, hp[n], hp[i \div 2]),
         NEW r, Lifted(r, hp, n, time, i \div 2)
  PROVE  Lifted([r EXCEPT ![i] = hp[i \div 2]], hp, n, time, i)
<1> DEFINE p == i \div 2
           s == [r EXCEPT ![i] = hp[p]]
<1>1. /\ p \in 1..(n - 1) /\ p \in 1..n /\ p < i /\ i \in 1..n /\ n \in 1..n
      /\ \A k \in 1..(n - 1) : k \in 1..n /\ k # n
  BY ParentFacts
<1>2. p > 1 => /\ p \in 2..(n - 1) /\ p \div 2 \in 1..n
  BY <1>1, ParentFacts
<1>3. i > 1 /\ s[i] = hp[p]
  BY <1>1 DEF Lifted
<1>4. /\ s \in [1..n -> Nat]
      /\ \A j \in 1..n : j # i => s[j] = r[j]
      /\ r[i] = hp[i]
  <2>1. r \in [1..n -> Nat] /\ \A j \in (p + 1)..n : r[j] = hp[j]
    BY DEF Lifted
  <2>2. i \in (p + 1)..n
    BY <1>1
  <2>3. hp[p] \in Nat
    BY <1>1 DEF Entries
  <2> HIDE DEF p
  <2> QED
    BY <1>1, <2>1, <2>2, <2>3
<1>5. /\ r[p] = hp[n] \/ (p > 1 /\ r[p] = hp[p \div 2])
      /\ \A j \in 2..(n - 1) : j \div 2 # p => ~Earlier(time, r[j], r[j \div 2])
      /\ \A j \in 1..(n - 1) : \E k \in 1..n : k # p /\ r[j] = hp[k]
      /\ \A k \in 1..n : k # p => \E j \in 1..(n - 1) : r[j] = hp[k]
      /\ \A j, k \in 1..(n - 1) : r[j] = r[k] => j = k
      /\ \A j \in (p + 1)..n : r[j] = hp[j]
  BY DEF Lifted
<1>6. /\ \A k \in 1..n : hp[k] \in Nat /\ time[hp[k]] \in Nat
      /\ \A j, k \in 1..n : hp[j] = hp[k] => j = k
  BY DEF Entries
<1>7. ~Earlier(time, hp[p], r[p])
  <2>1. CASE r[p] = hp[n]
    BY <1>1, <1>6, <2>1, OrderFacts
  <2>2. CASE p > 1 /\ r[p] = hp[p \div 2]
    BY <1>2, <2>2 DEF IsHeap
  <2> QED
    BY <1>5, <2>1, <2>2
<1> HIDE DEF s, p
<1>8. \A j \in (i + 1)..n : s[j] = hp[j]
  <2>1. \A j \in (i + 1)..n : j \in 1..n /\ j # i /\ j \in (p + 1)..n
    BY <1>1
  <2> QED
    BY <1>4, <1>5, <2>1
<1>9. ASSUME NEW j \in 2..(n - 1), j \div 2 # i PROVE ~Earlier(time, s[j], s[j \div 2])
  <2>1. j \in 1..n /\ j \div 2 \in 1..n /\ s[j \div 2] = r[j \div 2]
    BY <1>4, <1>9, ParentFacts
  <2>2. CASE j = i
    BY <1>3, <1>7, <2>1, <2>2 DEF p
  <2>3. CASE j # i /\ j \div 2 = p
    <3>1. j > p
      BY <2>3, ParentFacts
    <3>2. s[j] = hp[j]
      <4>1. j \in (p + 1)..n
        BY <1>1, <2>1, <3>1
      <4> QED
        BY <1>4, <1>5, <2>1, <2>3, <4>1
    <3>3. ~Earlier(time, hp[j], hp[p])
      BY <2>3 DEF IsHeap
    <3>4. r[p] \in Nat /\ time[r[p]] \in Nat
      BY <1>1, <1>2, <1>5, <1>6
    <3> QED
      BY <1>1, <1>6, <1>7, <2>1, <2>3, <3>2, <3>3, <3>4, OrderFacts
  <2>4. CASE j # i /\ j \div 2 # p
    BY <1>4, <1>5, <2>1, <2>4
  <2> QED
    BY <2>2, <2>3, <2>4
<1>10. ASSUME NEW j \in 1..(n - 1) PROVE \E k \in 1..n : k # i /\ s[j] = hp[k]
  <2>1. CASE j = i
    BY <1>1, <1>3, <2>1
  <2>2. CASE j # i
    <3>1. PICK k \in 1..n : k # p /\ r[j] = hp[k]
      BY <1>5
    <3>2. k # i
      BY <1>4, <1>5, <2>2, <3>1
    <3> QED
      BY <1>1, <1>4, <2>2, <3>1, <3>2
  <2> QED
    BY <2>1, <2>2
<1>11. ASSUME NEW k \in 1..n, k # i PROVE \E j \in 1..(n - 1) : s[j] = hp[k]
  <2>1. CASE k = p
    BY <1>3, <2>1
  <2>2. CASE k # p
    <3>1. PICK j \in 1..(n - 1) : r[j] = hp[k]
      BY <1>5, <2>2
    <3>2. j # i
      BY <1>1, <1>4, <1>6, <1>11, <3>1
    <3> QED
      BY <1>1, <1>4, <3>1, <3>2
  <2> QED
    BY <2>1, <2>2
<1>12. ASSUME NEW j \in 1..(n - 1), NEW k \in 1..(n - 1), s[j] = s[k] PROVE j = k
  <2>1. \A a \in 1..(n - 1) : r[a] # hp[p]
    BY <1>1, <1>5, <1>6
  <2>2. CASE j # i /\ k # i
    <3>1. r[j] = r[k]
      BY <1>1, <1>4, <1>12, <2>2
    <3> QED
      BY <1>5, <3>1
  <2>3. CASE j = i /\ k # i
    BY <1>1, <1>3, <1>4, <1>12, <2>1, <2>3
  <2>4. CASE j # i /\ k = i
    BY <1>1, <1>3, <1>4, <1>12, <2>1, <2>4
  <2> QED
    BY <2>2, <2>3, <2>4
<1> QED
  BY <1>3, <1>4, <1>8, <1>9, <1>10, <1>11, <1>12 DEF Lifted, s, p

\* Wherever the new entry rises from.
LEMMA RiseFacts ==
  ASSUME NEW n \in Nat, NEW time, NEW hp,
         Entries(hp, n, time), IsHeap(hp, n - 1, time)
  PROVE  \A i \in 1..(n - 1) : Lifted(Rise(hp, hp[n], time)[i], hp, n, time, i)
<1> DEFINE R == Rise(hp, hp[n], time)
           Bad == {i \in 1..(n - 1) : ~Lifted(R[i], hp, n, time, i)}
<1> SUFFICES ASSUME Bad # {} PROVE FALSE
  OBVIOUS
<1>1. \A i \in 1..n : R[i] = Risen(hp, hp[n], time, R, i)
  <2>1. R = [i \in 1..n |-> Risen(hp, hp[n], time, R, i)]
    BY RiseDef DEF Entries
  <2> HIDE DEF R
  <2> QED
    BY <2>1
<1> HIDE DEF R
<1>2. Bad \subseteq Nat
  OBVIOUS
<1>3. PICK i \in Bad : \A k \in Bad : i <= k
  <2> HIDE DEF Bad
  <2> QED
    BY <1>2, LeastNat
<1>4. i \in 1..(n - 1) /\ i \in 1..n
  BY <1>3
<1>5. CASE i > 1 /\ Earlier(time, hp[n], hp[i \div 2])
  <2>1. R[i] = [R[i \div 2] EXCEPT ![i] = hp[i \div 2]]
    BY <1>1, <1>4, <1>5 DEF Risen
  <2>2. i \div 2 \in 1..(n - 1) /\ i \div 2 < i
    BY <1>4, <1>5, ParentFacts
  <2>3. Lifted(R[i \div 2], hp, n, time, i \div 2)
    BY <1>3, <2>2
  <2>4. Lifted(R[i], hp, n, time, i)
    BY <1>4, <1>5, <2>1, <2>3, RiseGoesOn
  <2> QED
    BY <1>3, <2>4
<1>6. CASE ~(i > 1 /\ Earlier(time, hp[n], hp[i \div 2]))
  <2>1. R[i] = [hp EXCEPT ![i] = hp[n]]
    BY <1>1, <1>4, <1>6 DEF Risen
  <2>2. Lifted(R[i], hp, n, time, i)
    BY <1>4, <1>6, <2>1, RiseStops
  <2> QED
    BY <1>3, <2>2
<1> QED
  BY <1>5, <1>6

\* What a position holds.
Held(hp, n) == {hp[i] : i \in 1..n}

\* heappush makes a heap of the old entries and the new one.
LEMMA PushFacts ==
  ASSUME NEW n \in Nat, NEW time, NEW hp \in Seq(Nat), Len(hp) = n,
         Entries(hp, n, time), IsHeap(hp, n, time),
         NEW x \in Nat, time[x] \in Nat, x \notin Held(hp, n)
  PROVE  LET s == Push(hp, x, time)
         IN /\ s \in Seq(Nat) /\ Len(s) = n + 1
            /\ Entries(s, n + 1, time) /\ IsHeap(s, n + 1, time)
            /\ Held(s, n + 1) = Held(hp, n) \cup {x}
<1> DEFINE a == Append(hp, x)
           N == n + 1
           R == Rise(a, x, time)
           s == R[N]
<1>1. /\ a \in [1..N -> Nat] /\ N \in Nat /\ N \in 1..N /\ a[N] = x
      /\ \A i \in 1..n : a[i] = hp[i] /\ i \in 1..N /\ i # N
  <2>1. /\ a \in Seq(Nat) /\ Len(a) = n + 1 /\ a[n + 1] = x
        /\ \A i \in 1..n : a[i] = hp[i]
    BY AppendProperties
  <2> HIDE DEF a
  <2>2. a \in [1..N -> Nat]
    BY <2>1
  <2> QED
    BY <2>1, <2>2
<1> HIDE DEF a
<1>2. Entries(a, N, time)
  <2>1. ASSUME NEW i \in 1..N PROVE time[a[i]] \in Nat
    BY <1>1 DEF Entries
  <2>2. ASSUME NEW i \in 1..N, NEW k \in 1..N, a[i] = a[k] PROVE i = k
    BY <1>1, <2>2 DEF Entries, Held
  <2> QED
    BY <1>1, <2>1, <2>2 DEF Entries
<1>3. IsHeap(a, N - 1, time)
  <2>1. ASSUME NEW j \in 2..n PROVE ~Earlier(time, a[j], a[j \div 2])
    <3>1. j \in 1..n /\ j \div 2 \in 1..n
      BY ParentFacts
    <3> QED
      BY <1>1, <3>1 DEF IsHeap
  <2> QED
    BY <2>1 DEF IsHeap
<1>4. s = Risen(a, x, time, R, N)
  <2>1. R = [i \in 1..N |-> Risen(a, x, time, R, i)]
    BY <1>1, RiseDef
  <2> HIDE DEF R
  <2> QED
    BY <1>1, <2>1
<1>5. \A i \in 1..n : Lifted(R[i], a, N, time, i)
  BY <1>1, <1>2, <1>3, RiseFacts
<1>6. Push(hp, x, time) = s
  BY DEF Push, a
<1> HIDE DEF R
<1>7. s \in [1..N -> Nat] /\ Entries(s, N, time) /\ IsHeap(s, N, time) /\ Held(s, N) = Held(a, N)
  <2>1. CASE ~(N > 1 /\ Earlier(time, x, a[N \div 2]))
    <3>1. s = a
      BY <1>1, <1>4, <2>1 DEF Risen
    <3>2. IsHeap(a, N, time)
      <4>1. \A j \in 2..N : j = N \/ j \in 2..(N - 1)
        OBVIOUS
      <4>2. N > 1 => ~Earlier(time, a[N], a[N \div 2])
        BY <1>1, <2>1
      <4>3. ASSUME NEW j \in 2..N PROVE ~Earlier(time, a[j], a[j \div 2])
        <5>1. CASE j = N
          BY <4>2, <5>1
        <5>2. CASE j \in 2..(N - 1)
          BY <1>3, <5>2 DEF IsHeap
        <5> QED
          BY <4>1, <5>1, <5>2
      <4> QED
        BY <4>3 DEF IsHeap
    <3> QED
      BY <1>1, <1>2, <3>1, <3>2
  <2>2. CASE N > 1 /\ Earlier(time, x, a[N \div 2])
    <3> DEFINE p == N \div 2
               r == R[p]
    <3>1. p \in 1..n /\ p \in 1..N /\ p < N
      BY <2>2, ParentFacts
    <3>2. Lifted(r, a, N, time, p)
      BY <1>5, <3>1
    <3>3. s = [r EXCEPT ![N] = a[p]]
      BY <1>4, <2>2 DEF Risen
    <3> HIDE DEF s, p, r
    <3>4. /\ s \in [1..N -> Nat] /\ s[N] = a[p]
          /\ \A j \in 1..n : s[j] = r[j]
      BY <1>1, <3>1, <3>2, <3>3 DEF Lifted, Entries
    <3>5. /\ \A j \in 1..n : \E k \in 1..N : k # p /\ s[j] = a[k]
          /\ \A k \in 1..N : k # p => \E j \in 1..n : s[j] = a[k]
          /\ \A j, k \in 1..n : s[j] = s[k] => j = k
      BY <3>2, <3>4 DEF Lifted
    <3>6. \A i, k \in 1..N : a[i] = a[k] => i = k
      BY <1>2 DEF Entries
    <3>7. \A j \in 1..N : j = N \/ j \in 1..n
      OBVIOUS
    <3>8. ASSUME NEW j \in 1..N PROVE \E k \in 1..N : s[j] = a[k]
      <4>1. CASE j = N
        BY <3>1, <3>4, <4>1
      <4>2. CASE j \in 1..n
        BY <3>5, <4>2
      <4> QED
        BY <3>7, <4>1, <4>2
    <3>9. ASSUME NEW k \in 1..N PROVE \E j \in 1..N : s[j] = a[k]
      BY <1>1, <3>1, <3>4, <3>5, <3>7
    <3>10. Held(s, N) = Held(a, N)
      <4>1. \A j \in 1..N : s[j] \in Held(a, N)
        BY <3>8 DEF Held
      <4>2. \A k \in 1..N : a[k] \in Held(s, N)
        BY <3>9 DEF Held
      <4> QED
        BY <4>1, <4>2 DEF Held
    <3>11. Entries(s, N, time)
      <4>1. \A j \in 1..N : time[s[j]] \in Nat
        BY <1>2, <3>8 DEF Entries
      <4>2. ASSUME NEW j \in 1..N, NEW k \in 1..N, s[j] = s[k] PROVE j = k
        <5>1. \A i \in 1..n : s[i] # a[p]
          BY <3>1, <3>5, <3>6
        <5>2. CASE j \in 1..n /\ k \in 1..n
          BY <3>5, <4>2, <5>2
        <5>3. CASE j = N \/ k = N
          BY <3>4, <3>7, <4>2, <5>1, <5>3
        <5> QED
          BY <3>7, <5>2, <5>3
      <4> QED
        BY <3>4, <4>1, <4>2 DEF Entries
    <3>12. IsHeap(s, N, time)
      <4>1. ASSUME NEW j \in 2..N PROVE ~Earlier(time, s[j], s[j \div 2])
        <5>1. j \div 2 \in 1..n /\ s[j \div 2] = r[j \div 2]
          BY <3>4, ParentFacts
        <5>2. r[p] \in Nat /\ time[r[p]] \in Nat
          BY <1>2, <3>1, <3>4, <3>11 DEF Entries
        <5>3. ~Earlier(time, a[p], r[p])
          <6>1. CASE r[p] = a[N]
            BY <1>1, <1>2, <2>2, <3>1, <6>1, OrderFacts DEF Entries, p
          <6>2. CASE p > 1 /\ r[p] = a[p \div 2]
            <7>1. p \in 2..(N - 1)
              BY <3>1, <6>2
            <7> QED
              BY <1>3, <6>2, <7>1 DEF IsHeap
          <6> QED
            BY <3>2, <6>1, <6>2 DEF Lifted
        <5>4. CASE j = N
          BY <3>4, <5>1, <5>3, <5>4 DEF p
        <5>5. CASE j # N /\ j \div 2 = p
          <6>1. j \in 2..(N - 1) /\ j \in (p + 1)..N /\ j \in 1..n /\ j \in 1..N
            BY <3>1, <5>5, ParentFacts
          <6>2. s[j] = a[j]
            BY <3>2, <3>4, <6>1 DEF Lifted
          <6>3. ~Earlier(time, a[j], a[p])
            BY <1>3, <5>5, <6>1 DEF IsHeap
          <6>4. /\ a[j] \in Nat /\ time[a[j]] \in Nat
                /\ a[p] \in Nat /\ time[a[p]] \in Nat
            BY <1>2, <3>1, <6>1 DEF Entries
          <6>5. ~Earlier(time, a[j], r[p])
            BY <5>2, <5>3, <6>3, <6>4, OrderFacts
          <6> QED
            BY <5>1, <5>5, <6>2, <6>5
        <5>6. CASE j # N /\ j \div 2 # p
          <6>1. j \in 2..(N - 1) /\ j \in 1..n
            BY <5>6
          <6> QED
            BY <3>2, <3>4, <5>1, <5>6, <6>1 DEF Lifted
        <5> QED
          BY <5>4, <5>5, <5>6
      <4> QED
        BY <4>1 DEF IsHeap
    <3> QED
      BY <3>4, <3>10, <3>11, <3>12
  <2> QED
    BY <2>1, <2>2
<1>8. Held(a, N) = Held(hp, n) \cup {x}
  <2>1. \A i \in 1..N : i = N \/ i \in 1..n
    OBVIOUS
  <2> QED
    BY <1>1, <2>1 DEF Held
<1>9. s \in Seq(Nat) /\ Len(s) = N
  <2> HIDE DEF s
  <2>1. s \in [1..N -> Nat]
    BY <1>7
  <2>2. s \in Seq(Nat)
    BY <1>1, <2>1, SeqDef
  <2> QED
    BY <1>1, <2>1, <2>2
<1> QED
  BY <1>6, <1>7, <1>8, <1>9

-----------------------------------------------------------------------------
(* heappop. *)

\* The child that takes its parent's place.
LEMMA LeastChildFacts ==
  ASSUME NEW n \in Nat, NEW hp, Entries(hp, n, when), NEW i \in 1..n
  PROVE  /\ \A d \in 2..n : d \div 2 = i <=> d \in Children(hp, i)
         /\ \A d \in Children(hp, i) : d \in 2..n /\ d > i
         /\ Children(hp, i) # {} =>
              /\ LeastChild(hp, i) \in Children(hp, i)
              /\ \A d \in Children(hp, i) : ~Before(hp[d], hp[LeastChild(hp, i)])
<1>1. hp \in [1..n -> Nat] /\ DOMAIN hp = 1..n
  BY DEF Entries
<1>2. \A d \in 2..n : d \div 2 = i <=> d = 2 * i \/ d = 2 * i + 1
  BY ParentFacts
<1>3. \A d : d \in Children(hp, i) <=> d \in 1..n /\ (d = 2 * i \/ d = 2 * i + 1)
  BY <1>1 DEF Children
<1>4. \A d \in Children(hp, i) : d \in 2..n /\ d > i /\ d \in 1..n
  BY <1>3
<1>5. \A d \in 2..n : d \in 1..n
  OBVIOUS
<1>6. ASSUME Children(hp, i) # {}
      PROVE  \E c \in Children(hp, i) : \A d \in Children(hp, i) : ~Before(hp[d], hp[c])
  <2>1. \A d \in Children(hp, i) : hp[d] \in Nat /\ when[hp[d]] \in Nat
    BY <1>4 DEF Entries
  <2>2. PICK a \in Children(hp, i) : TRUE
    BY <1>6
  <2>3. CASE \E b \in Children(hp, i) : Before(hp[b], hp[a])
    <3>1. PICK b \in Children(hp, i) : Before(hp[b], hp[a])
      BY <2>3
    <3>2. a # b
      BY <2>1, <3>1, OrderFacts DEF Before
    <3>3. \A d \in Children(hp, i) : d = a \/ d = b
      BY <1>3, <3>2
    <3>4. ~Before(hp[a], hp[b]) /\ ~Before(hp[b], hp[b])
      BY <2>1, <3>1, OrderFacts DEF Before
    <3> QED
      BY <3>3, <3>4
  <2>4. CASE ~\E b \in Children(hp, i) : Before(hp[b], hp[a])
    BY <2>4
  <2> QED
    BY <2>3, <2>4
<1> QED
  BY <1>2, <1>3, <1>4, <1>5, <1>6 DEF LeastChild

Sunk(hp, x, f, i) ==
  IF Children(hp, i) # {} /\ Before(hp[LeastChild(hp, i)], x)
    THEN [f[LeastChild(hp, i)] EXCEPT ![i] = hp[LeastChild(hp, i)]]
    ELSE [hp EXCEPT ![i] = x]

\* Sink is the function that its definition describes.
LEMMA SinkDef ==
  ASSUME NEW n \in Nat, NEW hp, Entries(hp, n, when), NEW x
  PROVE  Sink(hp, x) = [i \in 1..n |-> Sunk(hp, x, Sink(hp, x), i)]
<1> DEFINE From(m) == (n - m + 1)..n
           D == {m \in Nat : m <= n => \E f : f = [i \in From(m) |-> Sunk(hp, x, f, i)]}
<1>1. 0 \in D
  <2>1. From(0) = {}
    OBVIOUS
  <2>2. [i \in {} |-> 0] = [i \in {} |-> Sunk(hp, x, [k \in {} |-> 0], i)]
    OBVIOUS
  <2> QED
    BY <2>1, <2>2
<1>2. ASSUME NEW m \in Nat, m \in D PROVE m + 1 \in D
  <2> SUFFICES ASSUME m + 1 <= n
               PROVE  \E g : g = [i \in From(m + 1) |-> Sunk(hp, x, g, i)]
    OBVIOUS
  <2>1. PICK f : f = [i \in From(m) |-> Sunk(hp, x, f, i)]
    BY <1>2
  <2> DEFINE g == [i \in From(m + 1) |-> IF i = n - m THEN Sunk(hp, x, f, i) ELSE f[i]]
  <2>2. ASSUME NEW i \in From(m + 1)
        PROVE  g[i] = Sunk(hp, x, f, i) /\ Sunk(hp, x, g, i) = Sunk(hp, x, f, i)
    <3>1. i \in 1..n /\ (i = n - m \/ i \in From(m))
      OBVIOUS
    <3>2. g[i] = Sunk(hp, x, f, i)
      BY <2>1, <3>1
    <3>3. Children(hp, i) # {} => g[LeastChild(hp, i)] = f[LeastChild(hp, i)]
      <4>1. Children(hp, i) # {} => LeastChild(hp, i) \in From(m)
        BY <3>1, LeastChildFacts
      <4>2. \A k \in From(m) : g[k] = f[k]
        OBVIOUS
      <4> QED
        BY <4>1, <4>2
    <3> HIDE DEF g
    <3>4. Sunk(hp, x, g, i) = Sunk(hp, x, f, i)
      BY <3>3 DEF Sunk
    <3> QED
      BY <3>2, <3>4
  <2>3. g = [i \in From(m + 1) |-> Sunk(hp, x, g, i)]
    <3> HIDE DEF g
    <3> SUFFICES g = [i \in From(m + 1) |-> Sunk(hp, x, f, i)]
      BY <2>2
    <3> QED
      BY <2>2 DEF g
  <2> QED
    BY <2>3
<1>3. n \in D
  BY <1>1, <1>2, Climb
<1>4. PICK f : f = [i \in 1..n |-> Sunk(hp, x, f, i)]
  <2>1. From(n) = 1..n
    OBVIOUS
  <2> QED
    BY <1>3, <2>1
<1>5. DOMAIN hp = 1..n
  BY DEF Entries
<1> QED
  BY <1>4, <1>5 DEF Sink, Sunk

\* Halfway down, at position i: x is there, or a child of i, and the rest are the
\* entries of hp without that of i, and x.  Only i may be out of order.
Lowered(s, hp, n, x, i) ==
  /\ s \in [1..n -> Nat]
  /\ \A j \in 1..(i - 1) : s[j] = hp[j]
  /\ s[i] = x \/ \E d \in 2..n : d \div 2 = i /\ s[i] = hp[d]
  /\ \A j \in 1..n : j # i /\ s[j] # hp[j] => j > 1 /\ s[j \div 2] = hp[j]
  /\ \A j \in 2..n : j # i => ~Before(s[j], s[j \div 2])
  /\ \A j \in 1..n : s[j] = x \/ \E k \in 1..n : k # i /\ s[j] = hp[k]
  /\ \A k \in 1..n : k # i => \E j \in 1..n : s[j] = hp[k]
  /\ \E j \in 1..n : s[j] = x
  /\ \A j, k \in 1..n : s[j] = s[k] => j = k

\* The last entry stays at i.
LEMMA SinkStops ==
  ASSUME NEW n \in Nat, NEW hp, NEW i \in 1..n, NEW x \in Nat, when[x] \in Nat,
         Entries(hp, n, when), IsHeap(hp, n, when), x \notin Held(hp, n),
         \A d \in 2..n : d \div 2 = i => ~Before(hp[d], x)
  PROVE  Lowered([hp EXCEPT ![i] = x], hp, n, x, i)
<1> DEFINE s == [hp EXCEPT ![i] = x]
<1>1. /\ s \in [1..n -> Nat] /\ s[i] = x
      /\ \A j \in 1..n : j # i => s[j] = hp[j]
      /\ \A j \in 1..n : hp[j] # x
      /\ \A j, k \in 1..n : hp[j] = hp[k] => j = k
  BY DEF Entries, Held
<1> HIDE DEF s
<1>2. ASSUME NEW j \in 2..n, j # i PROVE ~Before(s[j], s[j \div 2])
  <2>1. j \in 1..n /\ j \div 2 \in 1..n /\ s[j] = hp[j]
    BY <1>1, <1>2, ParentFacts
  <2>2. CASE j \div 2 = i
    BY <1>1, <2>1, <2>2
  <2>3. CASE j \div 2 # i
    BY <1>1, <2>1, <2>3 DEF IsHeap, Before
  <2> QED
    BY <2>2, <2>3
<1>3. \A j \in 1..(i - 1) : s[j] = hp[j]
  BY <1>1
<1>4. ASSUME NEW j \in 1..n, NEW k \in 1..n, s[j] = s[k] PROVE j = k
  BY <1>1, <1>4
<1>5. \A j \in 1..n : s[j] = x \/ \E k \in 1..n : k # i /\ s[j] = hp[k]
  BY <1>1
<1>6. \A k \in 1..n : k # i => \E j \in 1..n : s[j] = hp[k]
  BY <1>1
<1> QED
  BY <1>1, <1>2, <1>3, <1>4, <1>5, <1>6 DEF Lowered, s

\* The least child of i takes its place, and the last entry sinks on from there.
LEMMA SinkGoesOn ==
  ASSUME NEW n \in Nat, NEW hp, NEW i \in 1..n, NEW x \in Nat, when[x] \in Nat,
         Entries(hp, n, when), IsHeap(hp, n, when), x \notin Held(hp, n),
         NEW c \in 2..n, c \div 2 = i, Before(hp[c], x),
         \A d \in 2..n : d \div 2 = i => ~Before(hp[d], hp[c]),
         NEW r, Lowered(r, hp, n, x, c)
  PROVE  Lowered([r EXCEPT ![i] = hp[c]], hp, n, x, i)
<1> DEFINE s == [r EXCEPT ![i] = hp[c]]
<1>1. c \in 1..n /\ i < c
  BY ParentFacts
<1>2. /\ r \in [1..n -> Nat]
      /\ \A j \in 1..(c - 1) : r[j] = hp[j]
      /\ r[c] = x \/ \E d \in 2..n : d \div 2 = c /\ r[c] = hp[d]
      /\ \A j \in 1..n : j # c /\ r[j] # hp[j] => j > 1 /\ r[j \div 2] = hp[j]
      /\ \A j \in 2..n : j # c => ~Before(r[j], r[j \div 2])
      /\ \A j \in 1..n : r[j] = x \/ \E k \in 1..n : k # c /\ r[j] = hp[k]
      /\ \A k \in 1..n : k # c => \E j \in 1..n : r[j] = hp[k]
      /\ \E j \in 1..n : r[j] = x
      /\ \A j, k \in 1..n : r[j] = r[k] => j = k
  BY DEF Lowered
<1>3. /\ \A j \in 1..n : hp[j] \in Nat /\ when[hp[j]] \in Nat /\ hp[j] # x
      /\ \A j, k \in 1..n : hp[j] = hp[k] => j = k
  BY DEF Entries, Held
<1>4. r[i] = hp[i]
  <2>1. i \in 1..(c - 1)
    BY <1>1
  <2> QED
    BY <1>2, <2>1
<1>5. /\ s \in [1..n -> Nat] /\ s[i] = hp[c]
      /\ \A j \in 1..n : j # i => s[j] = r[j]
  BY <1>1, <1>2, <1>3
<1> HIDE DEF s
<1>6. \A j \in 1..(i - 1) : s[j] = hp[j]
  <2>1. \A j \in 1..(i - 1) : j \in 1..(c - 1) /\ j \in 1..n /\ j # i
    BY <1>1
  <2> QED
    BY <1>2, <1>5, <2>1
<1>7. ASSUME NEW j \in 1..n, j # i, s[j] # hp[j] PROVE j > 1 /\ s[j \div 2] = hp[j]
  <2>1. CASE j = c
    BY <1>5, <2>1
  <2>2. CASE j # c
    <3>1. j > 1 /\ r[j \div 2] = hp[j]
      BY <1>2, <1>5, <1>7, <2>2
    <3>2. j \div 2 # i
      BY <1>3, <1>4, <1>7, <3>1
    <3>3. j \div 2 \in 1..n
      BY <3>1, ParentFacts
    <3> QED
      BY <1>5, <3>1, <3>2, <3>3
  <2> QED
    BY <2>1, <2>2
<1>8. ASSUME NEW j \in 2..n, j # i PROVE ~Before(s[j], s[j \div 2])
  <2>1. j \in 1..n /\ j \div 2 \in 1..n /\ j > 1
    BY ParentFacts
  <2>2. CASE j = c
    <3>1. ~Before(r[c], hp[c])
      <4>1. CASE r[c] = x
        BY <1>1, <1>3, <4>1, OrderFacts DEF Before
      <4>2. CASE \E d \in 2..n : d \div 2 = c /\ r[c] = hp[d]
        BY <4>2 DEF IsHeap, Before
      <4> QED
        BY <1>2, <4>1, <4>2
    <3> QED
      BY <1>5, <1>8, <2>1, <2>2, <3>1
  <2>3. CASE j # c /\ j \div 2 = i
    <3>1. r[j] = hp[j]
      <4>1. r[j] # hp[j] => hp[i] = hp[j]
        BY <1>2, <1>4, <2>1, <2>3
      <4> QED
        BY <1>3, <1>8, <2>1, <4>1
    <3> QED
      BY <1>5, <1>8, <2>1, <2>3, <3>1
  <2>4. CASE j # c /\ j \div 2 # i
    BY <1>2, <1>5, <1>8, <2>1, <2>4
  <2> QED
    BY <2>2, <2>3, <2>4
<1>9. s[i] = x \/ \E d \in 2..n : d \div 2 = i /\ s[i] = hp[d]
  BY <1>5
<1>10. ASSUME NEW j \in 1..n PROVE s[j] = x \/ \E k \in 1..n : k # i /\ s[j] = hp[k]
  <2>1. CASE j = i
    BY <1>1, <1>5, <2>1
  <2>2. CASE j # i
    <3>1. s[j] = r[j] /\ r[j] # hp[i]
      BY <1>2, <1>4, <1>5, <2>2
    <3> QED
      BY <1>2, <3>1
  <2> QED
    BY <2>1, <2>2
<1>11. ASSUME NEW k \in 1..n, k # i PROVE \E j \in 1..n : s[j] = hp[k]
  <2>1. CASE k = c
    BY <1>5, <2>1
  <2>2. CASE k # c
    <3>1. PICK j \in 1..n : r[j] = hp[k]
      BY <1>2, <2>2
    <3>2. j # i
      BY <1>3, <1>4, <1>11, <3>1
    <3> QED
      BY <1>5, <3>1, <3>2
  <2> QED
    BY <2>1, <2>2
<1>12. \E j \in 1..n : s[j] = x
  <2>1. PICK j \in 1..n : r[j] = x
    BY <1>2
  <2>2. j # i
    BY <1>3, <1>4, <2>1
  <2> QED
    BY <1>5, <2>1, <2>2
<1>13. ASSUME NEW j \in 1..n, NEW k \in 1..n, s[j] = s[k] PROVE j = k
  <2>1. ASSUME NEW a \in 1..n PROVE r[a] # hp[c]
    <3>1. CASE r[a] = x
      BY <1>1, <1>3, <3>1
    <3>2. CASE \E b \in 1..n : b # c /\ r[a] = hp[b]
      BY <1>1, <1>3, <3>2
    <3> QED
      BY <1>2, <3>1, <3>2
  <2>2. CASE j # i /\ k # i
    <3>1. r[j] = r[k]
      BY <1>5, <1>13, <2>2
    <3> QED
      BY <1>2, <3>1
  <2>3. CASE j = i /\ k # i
    BY <1>5, <1>13, <2>1, <2>3
  <2>4. CASE j # i /\ k = i
    BY <1>5, <1>13, <2>1, <2>4
  <2> QED
    BY <2>2, <2>3, <2>4
<1> QED
  BY <1>5, <1>6, <1>7, <1>8, <1>9, <1>10, <1>11, <1>12, <1>13 DEF Lowered, s

\* Wherever the last entry sinks from.
LEMMA SinkFacts ==
  ASSUME NEW n \in Nat, NEW hp, NEW x \in Nat, when[x] \in Nat,
         Entries(hp, n, when), IsHeap(hp, n, when), x \notin Held(hp, n)
  PROVE  \A i \in 1..n : Lowered(Sink(hp, x)[i], hp, n, x, i)
<1> DEFINE S == Sink(hp, x)
           Bad == {m \in 0..n : n - m > 0 /\ ~Lowered(S[n - m], hp, n, x, n - m)}
<1> SUFFICES ASSUME Bad # {} PROVE FALSE
  <2>1. \A i \in 1..n : n - i \in 0..n /\ n - (n - i) = i
    OBVIOUS
  <2> HIDE DEF S
  <2>2. ASSUME Bad = {}, NEW i \in 1..n PROVE Lowered(S[i], hp, n, x, i)
    <3>1. n - i \notin Bad
      BY <2>2
    <3>2. i > 0
      OBVIOUS
    <3> QED
      BY <2>1, <3>1, <3>2
  <2> QED
    BY <2>2 DEF S
<1>1. \A i \in 1..n : S[i] = Sunk(hp, x, S, i)
  <2>1. S = [i \in 1..n |-> Sunk(hp, x, S, i)]
    BY SinkDef
  <2> HIDE DEF S
  <2> QED
    BY <2>1
<1> HIDE DEF S
<1>2. Bad \subseteq Nat
  OBVIOUS
<1>3. PICK m \in Bad : \A k \in Bad : m <= k
  <2> HIDE DEF Bad
  <2> QED
    BY <1>2, LeastNat
<1> DEFINE i == n - m
           c == LeastChild(hp, i)
<1>4. i \in 1..n /\ ~Lowered(S[i], hp, n, x, i)
  BY <1>3
<1>5. \A k \in 1..n : k > i => Lowered(S[k], hp, n, x, k)
  <2> SUFFICES ASSUME NEW k \in 1..n, k > i PROVE Lowered(S[k], hp, n, x, k)
    OBVIOUS
  <2>1. n - k \in 0..n /\ n - (n - k) = k /\ n - k < m
    BY <1>3
  <2> QED
    BY <1>3, <2>1
<1> HIDE DEF i, Bad
<1>6. CASE Children(hp, i) # {} /\ Before(hp[c], x)
  <2>1. /\ c \in 2..n /\ c \div 2 = i /\ c > i /\ c \in 1..n
        /\ \A d \in 2..n : d \div 2 = i => ~Before(hp[d], hp[c])
    BY <1>4, <1>6, LeastChildFacts
  <2>2. S[i] = [S[c] EXCEPT ![i] = hp[c]]
    BY <1>1, <1>4, <1>6 DEF Sunk
  <2>3. Lowered(S[c], hp, n, x, c)
    BY <1>5, <2>1
  <2>4. Before(hp[c], x) /\ \A d \in 2..n : d \div 2 = i => ~Before(hp[d], hp[c])
    BY <1>6, <2>1
  <2> HIDE DEF c
  <2>5. Lowered([S[c] EXCEPT ![i] = hp[c]], hp, n, x, i)
    BY <1>4, <2>1, <2>3, <2>4, SinkGoesOn
  <2> QED
    BY <1>4, <2>2, <2>5
<1>7. CASE ~(Children(hp, i) # {} /\ Before(hp[c], x))
  <2>1. S[i] = [hp EXCEPT ![i] = x]
    BY <1>1, <1>4, <1>7 DEF Sunk
  <2>2. ASSUME NEW d \in 2..n, d \div 2 = i PROVE ~Before(hp[d], x)
    <3>1. d \in Children(hp, i) /\ c \in Children(hp, i) /\ c \in 1..n /\ d \in 1..n
          /\ ~Before(hp[d], hp[c]) /\ ~Before(hp[c], x)
      BY <1>4, <1>7, <2>2, LeastChildFacts
    <3>2. /\ hp[d] \in Nat /\ when[hp[d]] \in Nat
          /\ hp[c] \in Nat /\ when[hp[c]] \in Nat
      BY <3>1 DEF Entries
    <3> QED
      BY <3>1, <3>2, OrderFacts DEF Before
  <2>3. Lowered(S[i], hp, n, x, i)
    BY <1>4, <2>1, <2>2, SinkStops
  <2> QED
    BY <1>4, <2>3
<1> QED
  BY <1>6, <1>7

\* heappop leaves a heap of the other entries.
LEMMA PopFacts ==
  ASSUME NEW n \in Nat, n > 0, NEW hp \in Seq(Nat), Len(hp) = n,
         Entries(hp, n, when), IsHeap(hp, n, when)
  PROVE  LET s == PopRoot(hp)
         IN /\ s \in Seq(Nat) /\ Len(s) = n - 1
            /\ Entries(s, n - 1, when) /\ IsHeap(s, n - 1, when)
            /\ Held(s, n - 1) = Held(hp, n) \ {hp[1]}
<1> DEFINE m == n - 1
           rest == SubSeq(hp, 1, m)
           x == hp[n]
           s == Sink(rest, x)[1]
<1>1. m \in Nat /\ n \in 1..n /\ \A i \in 1..m : i \in 1..n /\ i # n
  OBVIOUS
<1>2. /\ rest \in Seq(Nat) /\ Len(rest) = m /\ rest \in [1..m -> Nat]
      /\ \A i \in 1..m : rest[i] = hp[i]
  <2>1. \A i \in 1..m : hp[i] \in Nat
    BY <1>1 DEF Entries
  <2>2. /\ SubSeq(hp, 1, m) \in Seq(Nat)
        /\ Len(SubSeq(hp, 1, m)) = IF 1 <= m THEN m - 1 + 1 ELSE 0
        /\ \A i \in 1..(m - 1 + 1) : SubSeq(hp, 1, m)[i] = hp[1 + i - 1]
    BY <1>1, <2>1, SubSeqProperties
  <2> HIDE DEF rest
  <2>3. rest \in Seq(Nat) /\ Len(rest) = m /\ \A i \in 1..m : rest[i] = hp[i]
    BY <1>1, <2>2 DEF rest
  <2> QED
    BY <2>3
<1>3. PopRoot(hp) = IF m = 0 THEN <<>> ELSE s
  <2>1. rest = <<>> <=> m = 0
    BY <1>1, <1>2, EmptySeq
  <2> QED
    BY <2>1 DEF PopRoot
<1> HIDE DEF rest
<1>4. Entries(rest, m, when) /\ IsHeap(rest, m, when)
  <2>1. Entries(rest, m, when)
    BY <1>1, <1>2 DEF Entries
  <2>2. ASSUME NEW j \in 2..m PROVE ~Earlier(when, rest[j], rest[j \div 2])
    <3>1. j \in 1..m /\ j \div 2 \in 1..m /\ j \in 2..n
      BY ParentFacts
    <3> QED
      BY <1>2, <3>1 DEF IsHeap
  <2> QED
    BY <2>1, <2>2 DEF IsHeap
<1>5. x \in Nat /\ when[x] \in Nat /\ x \notin Held(rest, m)
  BY <1>1, <1>2 DEF Entries, Held
<1>6. CASE m = 0
  <2>1. PopRoot(hp) = <<>> /\ n = 1 /\ 1..m = {} /\ 2..m = {} /\ 1..n = {1}
    BY <1>3, <1>6
  <2>2. <<>> \in Seq(Nat) /\ Len(<<>>) = 0 /\ <<>> \in [1..m -> Nat]
    BY <1>6
  <2>3. Held(<<>>, m) = {} /\ Held(hp, n) = {hp[1]}
    BY <2>1 DEF Held
  <2> QED
    BY <1>6, <2>1, <2>2, <2>3 DEF Entries, IsHeap
<1>7. CASE m # 0
  <2>1. Lowered(s, rest, m, x, 1)
    <3>1. 1 \in 1..m
      BY <1>1, <1>7
    <3> QED
      BY <1>1, <1>4, <1>5, <3>1, SinkFacts
  <2> HIDE DEF s, x
  <2>2. /\ s \in [1..m -> Nat]
        /\ \A j \in 2..m : ~Before(s[j], s[j \div 2])
        /\ \A j \in 1..m : s[j] = x \/ \E k \in 1..m : k # 1 /\ s[j] = rest[k]
        /\ \A k \in 1..m : k # 1 => \E j \in 1..m : s[j] = rest[k]
        /\ \E j \in 1..m : s[j] = x
        /\ \A j, k \in 1..m : s[j] = s[k] => j = k
    <3>1. \A j \in 2..m : j # 1
      OBVIOUS
    <3> QED
      BY <2>1, <3>1 DEF Lowered
  <2>3. \A j \in 1..m : \E k \in 1..n : k # 1 /\ s[j] = hp[k]
    <3>1. x = hp[n] /\ n # 1
      BY <1>7 DEF x
    <3> QED
      BY <1>1, <1>2, <2>2, <3>1
  <2>4. \A k \in 1..n : k # 1 => \E j \in 1..m : s[j] = hp[k]
    <3>1. x = hp[n] /\ \A k \in 1..n : k = n \/ k \in 1..m
      BY DEF x
    <3> QED
      BY <1>2, <2>2, <3>1
  <2>5. /\ \A i \in 1..n : when[hp[i]] \in Nat
        /\ \A i, k \in 1..n : hp[i] = hp[k] => i = k
        /\ 1 \in 1..n
    BY <1>1 DEF Entries
  <2>6. Entries(s, m, when)
    <3>1. \A j \in 1..m : when[s[j]] \in Nat
      BY <2>3, <2>5
    <3> QED
      BY <2>2, <3>1 DEF Entries
  <2>7. IsHeap(s, m, when)
    BY <2>2 DEF IsHeap, Before
  <2>8. Held(s, m) = Held(hp, n) \ {hp[1]}
    <3>1. \A j \in 1..m : s[j] \in Held(hp, n) \ {hp[1]}
      BY <2>3, <2>5 DEF Held
    <3>2. \A k \in 1..n : k # 1 => hp[k] \in Held(s, m)
      BY <2>4 DEF Held
    <3>3. \A e \in Held(s, m) : \E j \in 1..m : e = s[j]
      BY DEF Held
    <3>4. \A e \in Held(hp, n) : \E k \in 1..n : e = hp[k]
      BY DEF Held
    <3>5. \A e : e \in Held(s, m) => e \in Held(hp, n) \ {hp[1]}
      BY <3>1, <3>3
    <3>6. \A e : e \in Held(hp, n) \ {hp[1]} => e \in Held(s, m)
      BY <3>2, <3>4
    <3> QED
      BY <3>5, <3>6
  <2>9. s \in Seq(Nat) /\ Len(s) = m
    <3>1. s \in [1..m -> Nat]
      BY <2>2
    <3> QED
      BY <1>1, <3>1
  <2> QED
    BY <1>3, <1>7, <2>6, <2>7, <2>8, <2>9
<1> QED
  BY <1>6, <1>7
=============================================================================
