----------------------------- MODULE ChannelProofs -----------------------------
(***************************************************************************)
(* Proofs about Channel, for any users, capacity, and number of elements.  *)
(*                                                                         *)
(* That nobody waits in vain, and that no element is lost, need each       *)
(* other: a get that waits shows that there is nothing to take, and an     *)
(* element that is offered shows who is to be told of it.  IInv says where *)
(* users and elements can be, and in which order the elements are.         *)
(***************************************************************************)
EXTENDS Channel, SequenceTheorems, TLAPS

\* Who is in which deque, and why: a waiter whose promise has finished may still
\* be there, one whose promise is pending is.
Waits ==
  /\ IsInjective(readers) /\ IsInjective(writers)
  /\ \A u \in ToSet(readers) : op[u] = "get" /\ promise[u] # "set"
  /\ \A u \in ToSet(writers) : op[u] = "put" /\ promise[u] # "set"
  /\ \A u \in Users : promise[u] = "pending" =>
       /\ ~closed
       /\ op[u] = "get" => u \in ToSet(readers)
       /\ op[u] = "put" => u \in ToSet(writers)
  /\ readers # <<>> => container = <<>>
  /\ writers # <<>> => Full
  /\ Bounded /\ Prefill <= Capacity => Len(container) <= Capacity

\* Who has an element: a put that has not been told that it is over, a get that
\* has not been resumed with it.
Holds(u) == \/ op[u] = "put" /\ promise[u] # "set"
            \/ op[u] = "get" /\ promise[u] = "set"

Settled == ToSet(container) \cup received \cup refused \cup dropped

\* Every element is somewhere, and nowhere else.
Places ==
  /\ \A u \in Users : Holds(u) => elem[u] \in 1..made /\ elem[u] \notin Settled
  /\ \A u, v \in Users : Holds(u) /\ Holds(v) /\ elem[u] = elem[v] => u = v
  /\ \A e \in 1..made : e \in Settled \/ \E u \in Users : Holds(u) /\ elem[u] = e
  /\ ToSet(container) \subseteq 1..made
  /\ ToSet(container) \cap (received \cup refused \cup dropped) = {}
  /\ received \cap (refused \cup dropped) = {} /\ refused \cap dropped = {}

\* Elements are in the order of their puts: handed out, in the container, waiting.
Rising(s) == \A i, k \in DOMAIN s : i < k => s[i] < s[k]
Sorted(s, f) == \A i, k \in DOMAIN s : i < k => f[s[i]] < f[s[k]]

InOrder ==
  /\ Rising(container)
  /\ \A d \in HandedOut : \A e \in ToSet(container) : d < e
  /\ \A u \in ToSet(writers) : \A d \in HandedOut \cup ToSet(container) : d < elem[u]
  /\ Sorted(writers, elem)

IInv == TypeOK /\ Waits /\ Places /\ InOrder

\* What HandedOutInOrder says of a step.
StepInOrder == \A e \in HandedOut' \ HandedOut : \A d \in HandedOut : d < e

-----------------------------------------------------------------------------
(* Deques. *)

\* Nothing is in a deque that is empty.
LEMMA EmptyFacts ==
  ASSUME NEW S, NEW s \in Seq(S)
  PROVE  (s = <<>> <=> ToSet(s) = {}) /\ (s = <<>> <=> Len(s) = 0) /\ Len(s) \in Nat
<1>1. DOMAIN s = 1..Len(s) /\ Len(s) \in Nat
  BY LenProperties
<1>2. s = <<>> <=> Len(s) = 0
  BY EmptySeq
<1>3. s # <<>> => s[1] \in ToSet(s)
  BY <1>1, <1>2 DEF ToSet
<1>4. s = <<>> => ToSet(s) = {}
  BY <1>1, <1>2 DEF ToSet
<1> QED
  BY <1>1, <1>2, <1>3, <1>4

\* deque.append.
LEMMA AppendFacts ==
  ASSUME NEW S, NEW s \in Seq(S), NEW x \in S
  PROVE  /\ Append(s, x) \in Seq(S) /\ Append(s, x) # <<>>
         /\ ToSet(Append(s, x)) = ToSet(s) \cup {x}
         /\ Len(Append(s, x)) = Len(s) + 1
         /\ IsInjective(s) /\ x \notin ToSet(s) => IsInjective(Append(s, x))
         /\ Rising(s) /\ (\A e \in ToSet(s) : e < x) => Rising(Append(s, x))
         /\ \A f : Sorted(s, f) /\ (\A e \in ToSet(s) : f[e] < f[x]) => Sorted(Append(s, x), f)
<1> DEFINE a == Append(s, x)
<1>1. /\ a \in Seq(S) /\ Len(a) = Len(s) + 1 /\ a # <<>>
      /\ \A i \in 1..Len(s) : a[i] = s[i]
      /\ a[Len(s) + 1] = x
  BY AppendProperties
<1> HIDE DEF a
<1>2. /\ DOMAIN s = 1..Len(s) /\ DOMAIN a = 1..Len(a) /\ Len(s) \in Nat
  BY <1>1
<1>3. \A i \in DOMAIN a : \/ i = Len(s) + 1 /\ a[i] = x
                          \/ i \in DOMAIN s /\ a[i] = s[i] /\ i < Len(s) + 1
  BY <1>1, <1>2
<1>4. ToSet(a) = ToSet(s) \cup {x}
  <2>1. ToSet(a) \subseteq ToSet(s) \cup {x}
    BY <1>3 DEF ToSet
  <2>2. x \in ToSet(a) /\ ToSet(s) \subseteq ToSet(a)
    BY <1>1, <1>2 DEF ToSet
  <2> QED
    BY <2>1, <2>2
<1>5. IsInjective(s) /\ x \notin ToSet(s) => IsInjective(a)
  BY <1>3 DEF IsInjective, ToSet
<1>6. \A i, k \in DOMAIN a : i < k => i \in DOMAIN s
  BY <1>1, <1>2
<1>7. Rising(s) /\ (\A e \in ToSet(s) : e < x) => Rising(a)
  BY <1>3, <1>6, <1>2 DEF Rising, ToSet
<1>8. \A f : Sorted(s, f) /\ (\A e \in ToSet(s) : f[e] < f[x]) => Sorted(a, f)
  BY <1>3, <1>6, <1>2 DEF Sorted, ToSet
<1> QED
  BY <1>1, <1>4, <1>5, <1>7, <1>8 DEF a

\* deque.popleft.
LEMMA TailFacts ==
  ASSUME NEW S, NEW s \in Seq(S), s # <<>>
  PROVE  /\ Tail(s) \in Seq(S) /\ Head(s) \in S
         /\ ToSet(s) = ToSet(Tail(s)) \cup {Head(s)}
         /\ Len(s) = Len(Tail(s)) + 1 /\ Len(Tail(s)) \in Nat
         /\ IsInjective(s) => IsInjective(Tail(s)) /\ Head(s) \notin ToSet(Tail(s))
         /\ Rising(s) => Rising(Tail(s)) /\ \A e \in ToSet(Tail(s)) : Head(s) < e
         /\ \A f : Sorted(s, f) =>
              Sorted(Tail(s), f) /\ \A e \in ToSet(Tail(s)) : f[Head(s)] < f[e]
<1> DEFINE r == Tail(s)
<1>1. /\ Head(s) \in S /\ r \in Seq(S) /\ Len(r) = Len(s) - 1
      /\ \A i \in 1..Len(r) : r[i] = s[i + 1]
  BY HeadTailProperties
<1>2. Head(s) = s[1] /\ DOMAIN s = 1..Len(s) /\ Len(s) \in Nat \ {0}
  BY EmptySeq, LenProperties
<1> HIDE DEF r
<1>3. DOMAIN r = 1..Len(r) /\ Len(r) \in Nat
  BY <1>1
<1>4. \A i \in DOMAIN s : i = 1 \/ (i - 1 \in DOMAIN r /\ r[i - 1] = s[i])
  BY <1>1, <1>2, <1>3
<1>5. \A i \in DOMAIN r : i + 1 \in DOMAIN s /\ r[i] = s[i + 1] /\ i \in Nat \ {0}
  BY <1>1, <1>2, <1>3
<1>6. ToSet(s) = ToSet(r) \cup {s[1]}
  <2>1. ToSet(s) \subseteq ToSet(r) \cup {s[1]}
    BY <1>4 DEF ToSet
  <2>2. ToSet(r) \subseteq ToSet(s)
    BY <1>5 DEF ToSet
  <2>3. s[1] \in ToSet(s)
    BY <1>2 DEF ToSet
  <2> QED
    BY <2>1, <2>2, <2>3
<1>7. 1 \in DOMAIN s /\ \A i \in DOMAIN r : 1 < i + 1 /\ i + 1 # 1
  BY <1>2, <1>5
<1>8. \A i, k \in DOMAIN r : (i < k => i + 1 < k + 1) /\ (i + 1 = k + 1 => i = k)
  BY <1>5
<1>9. IsInjective(s) => IsInjective(r) /\ s[1] \notin ToSet(r)
  BY <1>5, <1>7, <1>8 DEF IsInjective, ToSet
<1>10. Rising(s) => Rising(r) /\ \A e \in ToSet(r) : s[1] < e
  BY <1>5, <1>7, <1>8 DEF Rising, ToSet
<1>11. \A f : Sorted(s, f) => Sorted(r, f) /\ \A e \in ToSet(r) : f[s[1]] < f[e]
  BY <1>5, <1>7, <1>8 DEF Sorted, ToSet
<1> QED
  BY <1>1, <1>2, <1>3, <1>6, <1>9, <1>10, <1>11 DEF r

\* deque.remove, in the `finally` of get and put.
LEMMA WithoutFacts ==
  ASSUME NEW S, NEW s \in Seq(S), NEW u, IsInjective(s)
  PROVE  /\ Without(s, u) \in Seq(S)
         /\ ToSet(Without(s, u)) = ToSet(s) \ {u}
         /\ IsInjective(Without(s, u))
         /\ \A f : Sorted(s, f) => Sorted(Without(s, u), f)
<1>1. CASE u \notin ToSet(s)
  BY <1>1 DEF Without
<1>2. CASE u \in ToSet(s)
  <2> DEFINE p == CHOOSE i \in DOMAIN s : s[i] = u
             l == SubSeq(s, 1, p - 1)
             h == SubSeq(s, p + 1, Len(s))
             r == l \o h
  <2>1. DOMAIN s = 1..Len(s) /\ Len(s) \in Nat /\ \A i \in 1..Len(s) : s[i] \in S
    BY LenProperties
  <2>2. p \in DOMAIN s /\ s[p] = u
    BY <1>2 DEF ToSet
  <2>3. Without(s, u) = r
    BY <1>2 DEF Without, RemoveAt
  <2> HIDE DEF p
  <2>4. p \in 1..Len(s) /\ p \in Int /\ Len(s) \in Int /\ p - 1 \in Int /\ p + 1 \in Int
    BY <2>1, <2>2
  <2>5. /\ l \in Seq(S) /\ Len(l) = p - 1
        /\ \A i \in 1..(p - 1) : l[i] = s[i]
    <3>1. \A i \in 1..(p - 1) : s[i] \in S
      BY <2>1, <2>4
    <3>2. /\ SubSeq(s, 1, p - 1) \in Seq(S)
          /\ Len(SubSeq(s, 1, p - 1)) = IF 1 <= p - 1 THEN (p - 1) - 1 + 1 ELSE 0
          /\ \A i \in 1..((p - 1) - 1 + 1) : SubSeq(s, 1, p - 1)[i] = s[1 + i - 1]
      BY <2>4, <3>1, SubSeqProperties
    <3> QED
      BY <2>4, <3>2
  <2>6. /\ h \in Seq(S) /\ Len(h) = Len(s) - p
        /\ \A i \in 1..(Len(s) - p) : h[i] = s[p + i]
    <3>1. \A i \in (p + 1)..Len(s) : s[i] \in S
      BY <2>1, <2>4
    <3>2. /\ SubSeq(s, p + 1, Len(s)) \in Seq(S)
          /\ Len(SubSeq(s, p + 1, Len(s))) =
               IF p + 1 <= Len(s) THEN Len(s) - (p + 1) + 1 ELSE 0
          /\ \A i \in 1..(Len(s) - (p + 1) + 1) :
               SubSeq(s, p + 1, Len(s))[i] = s[(p + 1) + i - 1]
      BY <2>4, <3>1, SubSeqProperties
    <3>3. /\ Len(s) - (p + 1) + 1 = Len(s) - p
          /\ ~(p + 1 <= Len(s)) => Len(s) - p = 0
      <4>1. \A n, q \in Int : n - (q + 1) + 1 = n - q
        OBVIOUS
      <4>2. p + 1 <= Len(s) \/ p = Len(s)
        <5>1. \A n \in Nat : \A q \in 1..n : q + 1 <= n \/ q = n
          OBVIOUS
        <5> QED
          BY <2>1, <2>4, <5>1
      <4> QED
        BY <2>4, <4>1, <4>2
    <3>4. \A i \in 1..(Len(s) - p) : (p + 1) + i - 1 = p + i
      BY <2>1, <2>4
    <3> QED
      BY <3>2, <3>3, <3>4
  <2> HIDE DEF l, h
  <2>7. /\ r \in Seq(S) /\ Len(r) = Len(l) + Len(h)
        /\ \A i \in 1..(Len(l) + Len(h)) : r[i] = IF i <= Len(l) THEN l[i] ELSE h[i - Len(l)]
    BY <2>5, <2>6, ConcatProperties
  <2> HIDE DEF r
  <2>8. DOMAIN r = 1..(Len(s) - 1)
    BY <2>1, <2>4, <2>5, <2>6, <2>7
  <2> DEFINE up(i) == IF i < p THEN i ELSE i + 1
  <2>9. \A i \in DOMAIN r : up(i) \in DOMAIN s \ {p} /\ r[i] = s[up(i)]
    <3>1. ASSUME NEW i \in DOMAIN r, i < p PROVE up(i) \in DOMAIN s \ {p} /\ r[i] = s[up(i)]
      <4>1. i \in 1..(Len(l) + Len(h)) /\ i <= Len(l) /\ i \in 1..(p - 1)
        BY <2>1, <2>4, <2>5, <2>6, <2>8, <3>1
      <4>2. r[i] = s[i]
        BY <2>5, <2>7, <4>1
      <4> QED
        BY <2>1, <2>4, <2>8, <3>1, <4>2
    <3>2. ASSUME NEW i \in DOMAIN r, ~(i < p) PROVE up(i) \in DOMAIN s \ {p} /\ r[i] = s[up(i)]
      <4>1. i - (p - 1) \in 1..(Len(s) - p) /\ p + (i - (p - 1)) = i + 1
        BY <2>1, <2>4, <2>8, <3>2
      <4>2. r[i] = h[i - (p - 1)]
        <5>1. i \in 1..(Len(l) + Len(h)) /\ ~(i <= Len(l)) /\ Len(l) = p - 1
          BY <2>1, <2>4, <2>5, <2>6, <2>8, <3>2
        <5> QED
          BY <2>7, <5>1
      <4>3. h[i - (p - 1)] = s[i + 1]
        BY <2>6, <4>1
      <4>4. up(i) = i + 1
        BY <3>2
      <4>5. i + 1 \in DOMAIN s /\ i + 1 # p
        BY <2>1, <2>4, <2>8, <3>2
      <4> QED
        BY <4>2, <4>3, <4>4, <4>5
    <3> QED
      BY <3>1, <3>2
  <2>10. \A i \in DOMAIN s \ {p} :
           \E k \in DOMAIN r : up(k) = i
    <3>1. ASSUME NEW i \in DOMAIN s \ {p}, i < p PROVE i \in DOMAIN r /\ up(i) = i
      BY <2>1, <2>4, <2>8, <3>1
    <3>2. ASSUME NEW i \in DOMAIN s \ {p}, ~(i < p) PROVE i - 1 \in DOMAIN r /\ up(i - 1) = i
      BY <2>1, <2>4, <2>8, <3>2
    <3> QED
      BY <3>1, <3>2
  <2>11. \A i, k \in DOMAIN r : (i < k => up(i) < up(k)) /\ (up(i) = up(k) => i = k)
    BY <2>4, <2>8
  <2> HIDE DEF up
  <2>12. ToSet(r) = ToSet(s) \ {u}
    <3>1. ASSUME NEW i \in DOMAIN r PROVE r[i] \in ToSet(s) \ {u}
      BY <2>2, <2>9 DEF IsInjective, ToSet
    <3>2. ASSUME NEW i \in DOMAIN s, s[i] # u PROVE s[i] \in ToSet(r)
      BY <2>2, <2>9, <2>10, <3>2 DEF ToSet
    <3> QED
      BY <3>1, <3>2 DEF ToSet
  <2>13. IsInjective(r)
    BY <2>9, <2>11 DEF IsInjective
  <2>14. \A f : Sorted(s, f) => Sorted(r, f)
    BY <2>9, <2>11 DEF Sorted
  <2> QED
    BY <2>3, <2>7, <2>12, <2>13, <2>14
<1> QED
  BY <1>1, <1>2

-----------------------------------------------------------------------------
(* The steps: each keeps the invariant, and hands elements out in order. *)

\* What Holds and HandedOut depend on.
LEMMA SameHands ==
  ASSUME UNCHANGED <<op, promise, elem>>
  PROVE  /\ \A u \in Users : Holds(u)' <=> Holds(u)
         /\ InFlight' = InFlight
BY DEF Holds, InFlight

\* A call that raises and changes nothing.
LEMMA FailsIInv ==
  ASSUME IInv, NEW error \in {"Closed", "EmptyError", "OverflowedError", "AssertionError"},
         Fails(error)
  PROVE  IInv' /\ StepInOrder
<1> USE DEF Fails
<1>1. TypeOK'
  BY DEF IInv, TypeOK
<1>2. Waits'
  BY DEF IInv, Waits, Full, Bounded
<1>3. Places'
  BY SameHands DEF IInv, Places, Settled
<1>4. HandedOut' = HandedOut
  BY SameHands DEF HandedOut
<1>5. InOrder'
  BY <1>4 DEF IInv, InOrder, Rising, Sorted
<1> QED
  BY <1>1, <1>2, <1>3, <1>4, <1>5 DEF IInv, StepInOrder

\* Elements that are somewhere are numbers.
LEMMA Numbers ==
  ASSUME IInv
  PROVE  /\ HandedOut \subseteq 1..made /\ Settled \subseteq 1..made
         /\ made \in Nat /\ 1..made \subseteq Nat
<1>1. made \in Nat
  BY ChannelAssumption DEF IInv, TypeOK
<1>2. Settled \subseteq 1..made
  BY DEF IInv, TypeOK, Places, Settled
<1>3. InFlight \subseteq 1..made
  BY DEF IInv, Places, Holds, InFlight
<1>4. HandedOut \subseteq 1..made
  BY <1>2, <1>3 DEF HandedOut, Settled
<1>5. 1..made \subseteq Nat
  BY <1>1
<1> QED
  BY <1>1, <1>2, <1>4, <1>5

\* get_no_wait of a container that is not empty.
LEMMA TakeIInv ==
  ASSUME IInv, TakeElem
  PROVE  IInv' /\ StepInOrder
<1> TypeOK /\ Waits /\ Places /\ InOrder
  BY DEF IInv
<1> DEFINE x == Head(container)
           t == Tail(container)
           h == Head(writers)
<1>1. container # <<>> /\ readers = <<>>
  BY DEF TakeElem, Waits
<1>2. /\ t \in Seq(Elems) /\ x \in Elems
      /\ ToSet(container) = ToSet(t) \cup {x} /\ x \notin ToSet(t)
      /\ Rising(t) /\ \A e \in ToSet(t) : x < e
      /\ Len(container) = Len(t) + 1 /\ Len(t) \in Nat
  <2>1. container \in Seq(Elems) /\ Rising(container)
    BY DEF TypeOK, InOrder
  <2>2. /\ t \in Seq(Elems) /\ x \in Elems
        /\ ToSet(container) = ToSet(t) \cup {x}
        /\ Rising(t) /\ \A e \in ToSet(t) : x < e
        /\ Len(container) = Len(t) + 1 /\ Len(t) \in Nat
    BY <1>1, <2>1, TailFacts
  <2>3. x \in Nat
    BY <2>2 DEF Elems
  <2> QED
    BY <2>2, <2>3
<1>3. writers # <<>> =>
        /\ Tail(writers) \in Seq(Users) /\ h \in Users
        /\ ToSet(writers) = ToSet(Tail(writers)) \cup {h} /\ h \notin ToSet(Tail(writers))
        /\ IsInjective(Tail(writers)) /\ Sorted(Tail(writers), elem)
        /\ \A u \in ToSet(Tail(writers)) : elem[h] < elem[u]
  BY TailFacts DEF TypeOK, Waits, InOrder
<1>4. x \in 1..made /\ x \notin received \cup refused \cup dropped
  BY <1>2 DEF Places
<1>5. writers # <<>> => Bounded
  BY DEF Waits, Full
<1>6. ToSet(writers) \subseteq Users
  BY DEF TypeOK, ToSet
<1>7. CASE writers # <<>> /\ Bounded /\ Len(container) # Capacity
  BY <1>1, <1>7, FailsIInv DEF TakeElem
<1>8. CASE writers # <<>> /\ Len(container) = Capacity /\ promise[h] # "pending"
  <2>1. /\ writers' = Tail(writers) /\ raised' = "FutureFinishedError"
        /\ UNCHANGED <<container, readers, closed, op, promise, elem, thrown, made,
                       received, refused, dropped>>
    BY <1>1, <1>5, <1>8 DEF TakeElem
  <2>2. TypeOK'
    BY <1>3, <1>8, <2>1 DEF TypeOK
  <2>3. Waits'
    BY <1>3, <1>8, <2>1 DEF Waits, Full, Bounded
  <2>4. Places'
    BY <2>1, SameHands DEF Places, Settled
  <2>5. HandedOut' = HandedOut
    BY <2>1, SameHands DEF HandedOut
  <2>6. InOrder'
    BY <1>3, <1>8, <2>1, <2>5 DEF InOrder, Rising, Sorted
  <2> QED
    BY <2>2, <2>3, <2>4, <2>5, <2>6 DEF IInv, StepInOrder
<1>9. CASE writers # <<>> /\ Len(container) = Capacity /\ promise[h] = "pending"
  <2> DEFINE e == elem[h]
  <2>1. /\ writers' = Tail(writers) /\ raised' = "none"
        /\ promise' = [promise EXCEPT ![h] = "set"]
        /\ container' = Append(t, e) /\ received' = received \cup {x}
        /\ UNCHANGED <<readers, closed, op, elem, thrown, made, refused, dropped>>
    BY <1>1, <1>5, <1>9 DEF TakeElem
  <2>2. h \in Users /\ op[h] = "put" /\ h \in ToSet(writers)
    BY <1>3, <1>9 DEF Waits
  <2>3. Holds(h) /\ e \in 1..made /\ e \notin Settled
    BY <1>9, <2>2 DEF Holds, Places
  <2>4. \A c \in ToSet(container) : c < e
    BY <2>2 DEF InOrder
  <2>5. e \in Elems
    BY <2>3, ChannelAssumption DEF TypeOK, Elems
  <2>6. /\ container' \in Seq(Elems) /\ ToSet(container') = ToSet(t) \cup {e}
        /\ Len(container') = Len(container) /\ Rising(container')
    <3> HIDE DEF t, e
    <3> QED
      BY <1>2, <2>1, <2>4, <2>5, AppendFacts
  <2>7. /\ promise'[h] = "set" /\ \A u \in Users \ {h} : promise'[u] = promise[u]
    BY <2>1, <2>2 DEF TypeOK
  <2> HIDE DEF x, t, h, e
  <2>8. \A u \in Users : Holds(u)' <=> Holds(u) /\ u # h
    BY <2>1, <2>2, <2>7 DEF Holds
  <2>9. InFlight' = InFlight
    BY <2>1, <2>2, <2>7 DEF InFlight
  <2>10. Settled' = Settled \cup {e}
    BY <1>2, <2>1, <2>6 DEF Settled
  <2>11. HandedOut' = HandedOut \cup {x}
    BY <2>1, <2>9 DEF HandedOut
  <2>12. TypeOK'
    <3>1. promise' \in [Users -> {"none", "pending", "set", "closed", "cancelled"}]
      BY <2>1 DEF TypeOK
    <3>2. \A u \in Users : op'[u] = "idle" <=> promise'[u] = "none"
      BY <2>1, <2>2, <2>7 DEF TypeOK
    <3> QED
      BY <1>3, <1>4, <1>9, <2>1, <2>6, <3>1, <3>2 DEF TypeOK
  <2>13. Waits'
    <3>1. Full' <=> Full
      BY <2>6 DEF Full, Bounded
    <3>2. \A u \in ToSet(writers') : u # h /\ u \in ToSet(writers)
      BY <1>3, <1>9, <2>1
    <3>3. \A u \in Users \ {h} : u \in ToSet(writers) => u \in ToSet(writers')
      BY <1>3, <1>9, <2>1
    <3>4. readers' = <<>> /\ ToSet(readers') = ToSet(readers)
      BY <1>1, <2>1
    <3>5. IsInjective(writers') /\ IsInjective(readers')
      BY <1>3, <1>9, <2>1 DEF Waits
    <3>6. ToSet(readers) = {}
      BY <1>1 DEF ToSet
    <3> QED
      BY <1>6, <1>9, <2>1, <2>6, <2>7, <3>1, <3>2, <3>3, <3>4, <3>5, <3>6 DEF Waits, Bounded
  <2>14. Places'
    <3>1. \A u \in Users : Holds(u)' => elem'[u] \in 1..made' /\ elem'[u] \notin Settled'
      <4>1. \A u \in Users : Holds(u) /\ u # h => elem[u] # e
        BY <2>2, <2>3 DEF Places, e
      <4> QED
        BY <2>1, <2>8, <2>10, <4>1 DEF Places
    <3>2. \A d \in 1..made' : d \in Settled' \/ \E u \in Users : Holds(u)' /\ elem'[u] = d
      <4>1. ASSUME NEW d \in 1..made, d \notin Settled, d # e
            PROVE  \E u \in Users : Holds(u)' /\ elem'[u] = d
        <5>1. PICK u \in Users : Holds(u) /\ elem[u] = d
          BY <4>1 DEF Places
        <5> QED
          BY <2>1, <2>8, <4>1, <5>1 DEF e
      <4> QED
        BY <2>1, <2>10, <4>1
    <3>3. e \notin received \cup refused \cup dropped
      BY <2>3 DEF Settled
    <3>4. e # x
      BY <1>2, <2>3 DEF Settled
    <3>5. \A u, v \in Users : Holds(u)' /\ Holds(v)' /\ elem'[u] = elem'[v] => u = v
      BY <2>1, <2>8 DEF Places
    <3>6. /\ ToSet(container') \subseteq 1..made'
          /\ ToSet(container') \cap (received' \cup refused' \cup dropped') = {}
      BY <1>2, <2>1, <2>3, <2>6, <3>3, <3>4 DEF Places
    <3>7. /\ received' \cap (refused' \cup dropped') = {} /\ refused' \cap dropped' = {}
      BY <1>4, <2>1 DEF Places
    <3> QED
      BY <3>1, <3>2, <3>5, <3>6, <3>7 DEF Places
  <2>15. InOrder'
    <3>1. \A d \in HandedOut' : \A c \in ToSet(container') : d < c
      BY <1>2, <2>2, <2>4, <2>6, <2>11 DEF InOrder, e
    <3>2. \A u \in ToSet(writers') : \A d \in HandedOut' \cup ToSet(container') : d < elem'[u]
      <4>1. \A u \in ToSet(writers') : u \in ToSet(writers) /\ e < elem[u]
        BY <1>3, <1>9, <2>1 DEF e
      <4> QED
        BY <1>2, <2>1, <2>6, <2>11, <4>1 DEF InOrder
    <3>3. Sorted(writers', elem')
      BY <1>3, <1>9, <2>1 DEF h
    <3> QED
      BY <2>6, <3>1, <3>2, <3>3 DEF InOrder
  <2>16. StepInOrder
    BY <1>2, <2>11 DEF StepInOrder, InOrder
  <2> QED
    BY <2>12, <2>13, <2>14, <2>15, <2>16 DEF IInv
<1>10. CASE writers = <<>>
  <2>1. /\ container' = t /\ received' = received \cup {x} /\ raised' = "none"
        /\ UNCHANGED <<readers, writers, closed, op, promise, elem, thrown, made,
                       refused, dropped>>
    BY <1>1, <1>10 DEF TakeElem
  <2> HIDE DEF x, t
  <2>2. Settled' = Settled /\ HandedOut' = HandedOut \cup {x}
    BY <1>2, <2>1, SameHands DEF Settled, HandedOut
  <2>3. ToSet(readers) = {} /\ ToSet(writers) = {}
    BY <1>1, <1>10 DEF ToSet
  <2>4. TypeOK'
    BY <1>2, <1>4, <2>1 DEF TypeOK
  <2>5. Waits'
    <3>1. Bounded /\ Prefill <= Capacity => Len(t) <= Capacity
      BY <1>2, ChannelAssumption DEF Waits, Bounded
    <3> QED
      BY <1>1, <1>10, <2>1, <2>3, <3>1 DEF Waits, Bounded
  <2>6. Places'
    BY <1>2, <1>4, <2>1, <2>2, SameHands DEF Places
  <2>7. InOrder'
    BY <1>2, <1>10, <2>1, <2>2, <2>3 DEF InOrder, Sorted
  <2>8. StepInOrder
    BY <1>2, <2>2 DEF StepInOrder, InOrder
  <2> QED
    BY <2>4, <2>5, <2>6, <2>7, <2>8 DEF IInv
<1> QED
  BY <1>5, <1>7, <1>8, <1>9, <1>10

\* get of an empty container suspends.
LEMMA GetWaitsIInv ==
  ASSUME IInv, NEW u \in Users, op[u] = "idle", container = <<>>, ~closed,
         readers' = Append(readers, u), Suspend(u, "get", NoElem),
         UNCHANGED <<container, writers, closed, thrown, made, received, refused, dropped>>
  PROVE  IInv' /\ StepInOrder
<1> TypeOK /\ Waits /\ Places /\ InOrder
  BY DEF IInv
<1>1. u \notin ToSet(readers) /\ u \notin ToSet(writers)
  BY DEF Waits
<1>2. /\ readers' \in Seq(Users) /\ ToSet(readers') = ToSet(readers) \cup {u}
      /\ IsInjective(readers')
  BY <1>1, AppendFacts DEF TypeOK, Waits
<1>3. /\ op'[u] = "get" /\ promise'[u] = "pending" /\ elem'[u] = NoElem
      /\ \A v \in Users \ {u} : op'[v] = op[v] /\ promise'[v] = promise[v] /\ elem'[v] = elem[v]
  BY DEF Suspend, TypeOK
<1>4. \A v \in Users : (Holds(v)' <=> Holds(v)) /\ (Holds(v) => elem'[v] = elem[v])
  BY <1>3 DEF Holds
<1>5. HandedOut' = HandedOut /\ Settled' = Settled
  <2>1. InFlight' = InFlight
    BY <1>3 DEF InFlight
  <2> QED
    BY <2>1 DEF HandedOut, Settled
<1>6. TypeOK'
  BY <1>2, <1>3 DEF TypeOK, Suspend
<1>7. Waits'
  <2>1. \A v \in ToSet(readers') : op'[v] = "get" /\ promise'[v] # "set"
    BY <1>2, <1>3 DEF Waits, TypeOK, ToSet
  <2>2. \A v \in ToSet(writers) : op'[v] = "put" /\ promise'[v] # "set"
    BY <1>1, <1>3 DEF Waits, TypeOK, ToSet
  <2>3. \A v \in Users : promise'[v] = "pending" =>
          /\ op'[v] = "get" => v \in ToSet(readers')
          /\ op'[v] = "put" => v \in ToSet(writers)
    BY <1>2, <1>3 DEF Waits
  <2> QED
    BY <1>2, <2>1, <2>2, <2>3 DEF Waits, Full, Bounded
<1>8. Places'
  BY <1>4, <1>5 DEF Places
<1>9. InOrder'
  <2>1. \A v \in ToSet(writers) : elem'[v] = elem[v]
    BY <1>1, <1>3 DEF TypeOK, ToSet
  <2>2. Sorted(writers, elem')
    BY <2>1 DEF InOrder, Sorted, ToSet
  <2> QED
    BY <1>5, <2>1, <2>2 DEF InOrder
<1> QED
  BY <1>5, <1>6, <1>7, <1>8, <1>9 DEF IInv, StepInOrder

\* put_no_wait, where it does not overflow.
LEMMA PlaceIInv ==
  ASSUME IInv, Placing
  PROVE  IInv' /\ StepInOrder
<1> TypeOK /\ Waits /\ Places /\ InOrder
  BY DEF IInv
<1> DEFINE n == NewElem
<1>1. /\ n \in Elems /\ made' = n /\ n \in Nat /\ made' \in 0..MaxElems /\ n \in 1..made'
      /\ 1..made' = 1..made \cup {n} /\ \A e \in 1..made : e < n
      /\ UNCHANGED <<writers, closed, op, thrown, received, dropped>>
  BY ChannelAssumption DEF Placing, NewElem, TypeOK, Elems
<1>2. /\ n \notin Settled /\ \A u \in Users : Holds(u) => elem[u] # n
      /\ \A d \in HandedOut \cup Settled : d < n
  BY <1>1, Numbers DEF Places
<1> HIDE DEF n
<1>3. ASSUME refused' = refused \cup {n}, UNCHANGED <<container, promise, elem>>,
             readers' = readers \/ (readers # <<>> /\ readers' = Tail(readers)
                                    /\ promise[Head(readers)] # "pending"),
             raised' \in {"Closed", "AssertionError", "FutureFinishedError"}
      PROVE  IInv' /\ StepInOrder
  <2>1. /\ readers' \in Seq(Users) /\ ToSet(readers') \subseteq ToSet(readers)
        /\ IsInjective(readers') /\ (readers' # <<>> => readers # <<>>)
        /\ \A u \in ToSet(readers) \ ToSet(readers') : promise[u] # "pending"
    <3>1. CASE readers' = readers
      BY <3>1 DEF TypeOK, Waits
    <3>2. CASE readers # <<>> /\ readers' = Tail(readers) /\ promise[Head(readers)] # "pending"
      BY <3>2, TailFacts DEF TypeOK, Waits
    <3> QED
      BY <1>3, <3>1, <3>2
  <2>2. HandedOut' = HandedOut /\ Settled' = Settled \cup {n}
    BY <1>1, <1>3, SameHands DEF HandedOut, Settled
  <2>3. TypeOK'
    BY <1>1, <1>3, <2>1 DEF TypeOK
  <2>4. Waits'
    BY <1>1, <1>3, <2>1 DEF Waits, Full, Bounded
  <2>5. Places'
    <3>1. \A u \in Users : Holds(u)' <=> Holds(u)
      BY <1>1, <1>3 DEF Holds
    <3>2. n \notin ToSet(container) \cup received \cup dropped
      BY <1>2 DEF Settled
    <3> QED
      BY <1>1, <1>2, <1>3, <2>2, <3>1, <3>2 DEF Places
  <2>6. InOrder'
    BY <1>1, <1>3, <2>2 DEF InOrder
  <2> QED
    BY <2>2, <2>3, <2>4, <2>5, <2>6 DEF IInv, StepInOrder
<1>4. ASSUME ~closed, ~Full, readers # <<>>, container = <<>>, readers' = Tail(readers),
             promise[Head(readers)] = "pending",
             promise' = [promise EXCEPT ![Head(readers)] = "set"],
             elem' = [elem EXCEPT ![Head(readers)] = n],
             raised' = "none", UNCHANGED <<refused, container>>
      PROVE  IInv' /\ StepInOrder
  <2> DEFINE r == Head(readers)
  <2>1. /\ readers' \in Seq(Users) /\ r \in Users
        /\ ToSet(readers) = ToSet(readers') \cup {r} /\ r \notin ToSet(readers')
        /\ IsInjective(readers')
    BY <1>4, TailFacts DEF TypeOK, Waits
  <2>2. op[r] = "get" /\ promise[r] = "pending" /\ r \notin ToSet(writers)
    BY <1>4, <2>1 DEF Waits
  <2>3. /\ promise'[r] = "set" /\ elem'[r] = n
        /\ \A u \in Users \ {r} : promise'[u] = promise[u] /\ elem'[u] = elem[u]
    BY <1>4, <2>1 DEF TypeOK
  <2> HIDE DEF r
  <2>4. \A u \in Users : (Holds(u)' <=> Holds(u) \/ u = r) /\ (Holds(u) => u # r)
    BY <1>1, <2>2, <2>3 DEF Holds
  <2>5. InFlight' = InFlight \cup {n}
    BY <1>1, <2>1, <2>2, <2>3 DEF InFlight
  <2>6. HandedOut' = HandedOut \cup {n} /\ Settled' = Settled
    BY <1>1, <1>4, <2>5 DEF HandedOut, Settled
  <2>7. writers = <<>> /\ ToSet(writers) = {} /\ ToSet(container) = {}
    BY <1>4 DEF Waits, ToSet
  <2>8. TypeOK'
    <3>1. promise' \in [Users -> {"none", "pending", "set", "closed", "cancelled"}]
      BY <1>4 DEF TypeOK
    <3>2. elem' \in [Users -> Elems \cup {NoElem}]
      BY <1>1, <1>4 DEF TypeOK
    <3>3. \A u \in Users : op'[u] = "idle" <=> promise'[u] = "none"
      BY <1>1, <2>2, <2>3 DEF TypeOK
    <3> QED
      BY <1>1, <1>4, <2>1, <3>1, <3>2, <3>3 DEF TypeOK
  <2>9. Waits'
    BY <1>1, <1>4, <2>1, <2>2, <2>3, <2>7 DEF Waits, Bounded
  <2>10. Places'
    <3>1. \A u \in Users : Holds(u)' => elem'[u] \in 1..made' /\ elem'[u] \notin Settled'
      BY <1>1, <1>2, <2>3, <2>4, <2>6 DEF Places
    <3>2. \A u, v \in Users : Holds(u)' /\ Holds(v)' /\ elem'[u] = elem'[v] => u = v
      BY <1>2, <2>3, <2>4 DEF Places
    <3>3. \A d \in 1..made' : d \in Settled' \/ \E u \in Users : Holds(u)' /\ elem'[u] = d
      BY <1>1, <2>1, <2>3, <2>4, <2>6 DEF Places
    <3> QED
      BY <1>1, <1>4, <3>1, <3>2, <3>3 DEF Places
  <2>11. InOrder'
    BY <1>1, <1>4, <2>7 DEF InOrder, Rising, Sorted
  <2>12. StepInOrder
    BY <1>2, <2>6 DEF StepInOrder
  <2> QED
    BY <2>8, <2>9, <2>10, <2>11, <2>12 DEF IInv
<1>5. ASSUME ~closed, ~Full, readers = <<>>, container' = Append(container, n),
             raised' = "none", UNCHANGED <<readers, promise, elem, refused>>
      PROVE  IInv' /\ StepInOrder
  <2>1. \A e \in ToSet(container) : e < n
    BY <1>2 DEF Settled
  <2>2. /\ container' \in Seq(Elems) /\ ToSet(container') = ToSet(container) \cup {n}
        /\ Len(container') = Len(container) + 1 /\ Rising(container')
    BY <1>1, <1>5, <2>1, AppendFacts DEF TypeOK, InOrder
  <2>3. HandedOut' = HandedOut /\ Settled' = Settled \cup {n}
    BY <1>1, <1>5, <2>2, SameHands DEF HandedOut, Settled
  <2>4. writers = <<>> /\ ToSet(writers) = {} /\ ToSet(readers) = {}
    BY <1>5 DEF Waits, ToSet
  <2>5. TypeOK'
    BY <1>1, <1>5, <2>2 DEF TypeOK
  <2>6. Waits'
    <3>1. Bounded /\ Prefill <= Capacity => Len(container') <= Capacity
      BY <1>5, <2>2, ChannelAssumption, EmptyFacts DEF Full, Bounded, TypeOK
    <3> QED
      BY <1>1, <1>5, <2>4, <3>1 DEF Waits, Bounded
  <2>7. Places'
    <3>1. \A u \in Users : Holds(u)' <=> Holds(u)
      BY <1>1, <1>5 DEF Holds
    <3>2. n \notin received \cup refused \cup dropped
      BY <1>2 DEF Settled
    <3> QED
      BY <1>1, <1>2, <1>5, <2>2, <2>3, <3>1, <3>2 DEF Places
  <2>8. InOrder'
    BY <1>1, <1>2, <2>2, <2>3, <2>4 DEF InOrder, Sorted
  <2> QED
    BY <2>3, <2>5, <2>6, <2>7, <2>8 DEF IInv, StepInOrder
<1> QED
  BY <1>3, <1>4, <1>5 DEF Placing, PlaceElem, n

\* put on a full container suspends.
LEMMA PutWaitsIInv ==
  ASSUME IInv, NEW u \in Users, op[u] = "idle", Overflows, made < MaxElems,
         made' = NewElem, writers' = Append(writers, u), Suspend(u, "put", NewElem),
         UNCHANGED <<container, readers, closed, thrown, received, refused, dropped>>
  PROVE  IInv' /\ StepInOrder
<1> TypeOK /\ Waits /\ Places /\ InOrder
  BY DEF IInv
<1> DEFINE n == NewElem
<1>1. /\ n \in Elems /\ made' = n /\ n \in Nat /\ made' \in 0..MaxElems /\ n \in 1..made'
      /\ 1..made' = 1..made \cup {n} /\ \A e \in 1..made : e < n
  BY ChannelAssumption DEF NewElem, TypeOK, Elems
<1>2. /\ n \notin Settled /\ \A v \in Users : Holds(v) => elem[v] # n
      /\ \A d \in HandedOut \cup Settled : d < n
  BY <1>1, Numbers DEF Places
<1>3. u \notin ToSet(readers) /\ u \notin ToSet(writers)
  BY DEF Waits
<1>4. /\ op'[u] = "put" /\ promise'[u] = "pending" /\ elem'[u] = n
      /\ \A v \in Users \ {u} : op'[v] = op[v] /\ promise'[v] = promise[v] /\ elem'[v] = elem[v]
      /\ raised' = "none" /\ promise[u] = "none"
  BY DEF Suspend, TypeOK
<1>5. TypeOK'
  <2>1. writers' \in Seq(Users)
    BY AppendFacts DEF TypeOK
  <2>2. /\ op' \in [Users -> {"idle", "get", "put"}]
        /\ promise' \in [Users -> {"none", "pending", "set", "closed", "cancelled"}]
        /\ elem' \in [Users -> Elems \cup {NoElem}]
    BY <1>1 DEF Suspend, TypeOK
  <2> HIDE DEF n
  <2> QED
    BY <1>1, <1>4, <2>1, <2>2 DEF TypeOK
<1> HIDE DEF n
<1>6. \A v \in ToSet(writers) : v \in Users /\ v # u /\ Holds(v) /\ elem'[v] = elem[v]
  BY <1>3, <1>4 DEF TypeOK, Waits, Holds, ToSet
<1>7. \A v \in ToSet(writers) : elem'[v] < elem'[u]
  BY <1>1, <1>4, <1>6 DEF Places
<1>8. Sorted(writers, elem')
  BY <1>6 DEF InOrder, Sorted, ToSet
<1>9. /\ ToSet(writers') = ToSet(writers) \cup {u}
      /\ IsInjective(writers') /\ Sorted(writers', elem')
  BY <1>3, <1>7, <1>8, AppendFacts DEF TypeOK, Waits
<1>10. \A v \in Users : /\ Holds(v)' <=> Holds(v) \/ v = u
                        /\ Holds(v) => v # u /\ elem'[v] = elem[v]
  BY <1>4 DEF Holds
<1>11. HandedOut' = HandedOut /\ Settled' = Settled
  <2>1. InFlight' = InFlight
    BY <1>4 DEF InFlight
  <2> QED
    BY <2>1 DEF HandedOut, Settled
<1>12. Waits'
  <2>1. Full /\ ~closed
    BY DEF Overflows
  <2>2. \A v \in ToSet(readers) : op'[v] = "get" /\ promise'[v] # "set"
    BY <1>3, <1>4 DEF Waits, TypeOK, ToSet
  <2>3. \A v \in ToSet(writers') : op'[v] = "put" /\ promise'[v] # "set"
    BY <1>4, <1>6, <1>9 DEF Waits
  <2>4. \A v \in Users : promise'[v] = "pending" =>
          /\ op'[v] = "get" => v \in ToSet(readers)
          /\ op'[v] = "put" => v \in ToSet(writers')
    BY <1>4, <1>9 DEF Waits
  <2> QED
    BY <1>9, <2>1, <2>2, <2>3, <2>4 DEF Waits, Full, Bounded
<1>13. Places'
  <2>1. \A v \in Users : Holds(v)' => elem'[v] \in 1..made' /\ elem'[v] \notin Settled'
    BY <1>1, <1>2, <1>4, <1>10, <1>11 DEF Places
  <2>2. \A v, w \in Users : Holds(v)' /\ Holds(w)' /\ elem'[v] = elem'[w] => v = w
    BY <1>2, <1>4, <1>10 DEF Places
  <2>3. \A d \in 1..made' : d \in Settled' \/ \E v \in Users : Holds(v)' /\ elem'[v] = d
    BY <1>1, <1>4, <1>10, <1>11 DEF Places
  <2> QED
    BY <1>1, <2>1, <2>2, <2>3 DEF Places
<1>14. InOrder'
  <2>1. \A v \in ToSet(writers') : \A d \in HandedOut' \cup ToSet(container') : d < elem'[v]
    BY <1>2, <1>4, <1>6, <1>9, <1>11 DEF InOrder, Settled
  <2> QED
    BY <1>9, <1>11, <2>1 DEF InOrder
<1> QED
  BY <1>5, <1>11, <1>12, <1>13, <1>14 DEF IInv, StepInOrder

\* close: nobody is pending any more, and nobody's element goes anywhere.
LEMMA CloseIInv ==
  ASSUME IInv, Close
  PROVE  IInv' /\ StepInOrder
<1> TypeOK /\ Waits /\ Places /\ InOrder
  BY DEF IInv
<1>1. \A u \in Users : /\ promise'[u] # "pending"
                       /\ promise[u] # "pending" => promise'[u] = promise[u]
                       /\ promise[u] = "pending" => promise'[u] = "closed"
  <2>1. \A u \in Users : promise[u] = "pending" => u \in ToSet(readers) \cup ToSet(writers)
    BY DEF TypeOK, Waits
  <2> QED
    BY <2>1 DEF Close
<1>2. /\ closed' /\ raised' = "none"
      /\ UNCHANGED <<container, readers, writers, op, elem, thrown, made, received,
                     refused, dropped>>
  BY DEF Close
<1>3. ToSet(readers) \subseteq Users /\ ToSet(writers) \subseteq Users
  BY DEF TypeOK, ToSet
<1>4. (\A u \in Users : Holds(u)' <=> Holds(u)) /\ HandedOut' = HandedOut /\ Settled' = Settled
  <2>1. \A u \in Users : promise'[u] = "set" <=> promise[u] = "set"
    BY <1>1
  <2>2. InFlight' = InFlight
    BY <1>2, <2>1 DEF InFlight
  <2> QED
    BY <1>2, <2>1, <2>2 DEF Holds, HandedOut, Settled
<1>5. TypeOK'
  <2>1. promise' \in [Users -> {"none", "pending", "set", "closed", "cancelled"}]
    BY DEF Close, TypeOK
  <2>2. \A u \in Users : op'[u] = "idle" <=> promise'[u] = "none"
    BY <1>1, <1>2 DEF TypeOK
  <2> QED
    BY <1>2, <2>1, <2>2 DEF TypeOK, Close
<1>6. Waits'
  BY <1>1, <1>2, <1>3 DEF Waits, Full, Bounded
<1>7. Places'
  BY <1>2, <1>4 DEF Places
<1>8. InOrder'
  BY <1>2, <1>4 DEF InOrder
<1> QED
  BY <1>4, <1>5, <1>6, <1>7, <1>8 DEF IInv, StepInOrder

\* A waiting task is cancelled.
LEMMA CancelIInv ==
  ASSUME IInv, NEW u \in Users, CancelWaiting(u)
  PROVE  IInv' /\ StepInOrder
<1> TypeOK /\ Waits /\ Places /\ InOrder
  BY DEF IInv
<1>1. /\ \A v \in Users \ {u} : promise'[v] = promise[v]
      /\ promise'[u] = IF promise[u] = "pending" THEN "cancelled" ELSE promise[u]
      /\ raised' = "none"
      /\ UNCHANGED <<container, readers, writers, closed, op, elem, made, received,
                     refused, dropped>>
  BY DEF CancelWaiting, TypeOK
<1>2. ToSet(readers) \subseteq Users /\ ToSet(writers) \subseteq Users
  BY DEF TypeOK, ToSet
<1>3. (\A v \in Users : Holds(v)' <=> Holds(v)) /\ HandedOut' = HandedOut /\ Settled' = Settled
  <2>1. \A v \in Users : promise'[v] = "set" <=> promise[v] = "set"
    BY <1>1
  <2>2. InFlight' = InFlight
    BY <1>1, <2>1 DEF InFlight
  <2> QED
    BY <1>1, <2>1, <2>2 DEF Holds, HandedOut, Settled
<1>4. TypeOK'
  <2>1. /\ promise' \in [Users -> {"none", "pending", "set", "closed", "cancelled"}]
        /\ thrown' \in [Users -> BOOLEAN]
    BY DEF CancelWaiting, TypeOK
  <2>2. \A v \in Users : op'[v] = "idle" <=> promise'[v] = "none"
    BY <1>1 DEF TypeOK
  <2> QED
    BY <1>1, <2>1, <2>2 DEF TypeOK
<1>5. Waits'
  <2>1. \A v \in Users : /\ promise'[v] = "pending" => promise[v] = "pending"
                         /\ promise'[v] = "set" <=> promise[v] = "set"
    BY <1>1
  <2> QED
    BY <1>1, <1>2, <2>1 DEF Waits, Full, Bounded
<1>6. Places'
  BY <1>1, <1>3 DEF Places
<1>7. InOrder'
  BY <1>1, <1>3 DEF InOrder
<1> QED
  BY <1>3, <1>4, <1>5, <1>6, <1>7 DEF IInv, StepInOrder

\* A waiting task is resumed: what it held is settled, or goes with it.
LEMMA ResumeIInv ==
  ASSUME IInv, NEW u \in Users, Resume(u)
  PROVE  IInv' /\ StepInOrder
<1> TypeOK /\ Waits /\ Places /\ InOrder
  BY DEF IInv
<1> DEFINE e == elem[u]
<1>1. /\ op[u] \in {"get", "put"} /\ promise[u] \in {"set", "closed", "cancelled"}
      /\ op'[u] = "idle" /\ promise'[u] = "none" /\ elem'[u] = NoElem
      /\ \A v \in Users \ {u} : op'[v] = op[v] /\ promise'[v] = promise[v] /\ elem'[v] = elem[v]
      /\ UNCHANGED <<container, closed, made>>
  BY DEF Resume, TypeOK
<1>0. ToSet(readers) \subseteq Users /\ ToSet(writers) \subseteq Users
  BY DEF TypeOK, ToSet
<1>2. /\ readers' \in Seq(Users) /\ ToSet(readers') = ToSet(readers) \ {u}
      /\ IsInjective(readers')
  BY WithoutFacts DEF Resume, TypeOK, Waits
<1>3. /\ writers' \in Seq(Users) /\ ToSet(writers') = ToSet(writers) \ {u}
      /\ IsInjective(writers') /\ Sorted(writers', elem)
  BY WithoutFacts DEF Resume, TypeOK, Waits, InOrder
<1>4. (readers' # <<>> => readers # <<>>) /\ (writers' # <<>> => writers # <<>>)
  <2>1. readers \in Seq(Users) /\ writers \in Seq(Users)
    BY DEF TypeOK
  <2>2. /\ readers = <<>> => ToSet(readers) = {} /\ ToSet(readers') = {}
        /\ writers = <<>> => ToSet(writers) = {} /\ ToSet(writers') = {}
    BY <1>2, <1>3, <2>1, EmptyFacts
  <2> QED
    BY <1>2, <1>3, <2>2, EmptyFacts
<1>5. \/ /\ Holds(u) /\ op[u] = "get" /\ HandedOut' = HandedOut /\ refused' = refused
         /\ \/ received' = received \cup {e} /\ dropped' = dropped
            \/ dropped' = dropped \cup {e} /\ received' = received
      \/ /\ Holds(u) /\ op[u] = "put" /\ HandedOut' = HandedOut
         /\ refused' = refused \cup {e} /\ UNCHANGED <<received, dropped>>
      \/ /\ ~Holds(u) /\ HandedOut' = HandedOut /\ UNCHANGED <<received, refused, dropped>>
  <2>1. CASE op[u] = "get" /\ promise[u] = "set"
    <3>1. InFlight = InFlight' \cup {e}
      BY <1>1, <2>1 DEF InFlight
    <3>2. /\ refused' = refused
          /\ \/ received' = received \cup {e} /\ dropped' = dropped
             \/ dropped' = dropped \cup {e} /\ received' = received
      BY <2>1 DEF Resume
    <3> QED
      BY <2>1, <3>1, <3>2 DEF Holds, HandedOut
  <2>2. CASE ~(op[u] = "get" /\ promise[u] = "set")
    <3>1. InFlight' = InFlight
      BY <1>1, <2>2 DEF InFlight
    <3>2. UNCHANGED <<received, dropped>>
      BY <2>2 DEF Resume
    <3>3. refused' = IF op[u] = "put" /\ promise[u] # "set" THEN refused \cup {e} ELSE refused
      BY DEF Resume
    <3> QED
      BY <1>1, <2>2, <3>1, <3>2, <3>3 DEF Holds, HandedOut
  <2> QED
    BY <2>1, <2>2
<1>6. Holds(u) => e \in 1..made /\ e \notin Settled
  BY DEF Places
<1>7. \A v \in Users : Holds(v)' <=> Holds(v) /\ v # u
  BY <1>1 DEF Holds
<1> HIDE DEF e
<1>8. Settled' = IF Holds(u) THEN Settled \cup {e} ELSE Settled
  BY <1>1, <1>5 DEF Settled
<1>9. TypeOK'
  <2>1. /\ op' \in [Users -> {"idle", "get", "put"}]
        /\ promise' \in [Users -> {"none", "pending", "set", "closed", "cancelled"}]
        /\ elem' \in [Users -> Elems \cup {NoElem}]
        /\ thrown' \in [Users -> BOOLEAN]
        /\ raised' \in {"none", "Closed", "Cancelled"}
    BY DEF Resume, TypeOK
  <2>2. \A v \in Users : op'[v] = "idle" <=> promise'[v] = "none"
    BY <1>1 DEF TypeOK
  <2>3. received' \cup refused' \cup dropped' \subseteq 1..made'
    BY <1>1, <1>5, <1>6 DEF TypeOK
  <2> QED
    BY <1>1, <1>2, <1>3, <2>1, <2>2, <2>3 DEF TypeOK
<1>10. Waits'
  <2>1. \A v \in ToSet(readers') : op'[v] = "get" /\ promise'[v] # "set"
    BY <1>0, <1>1, <1>2 DEF Waits
  <2>2. \A v \in ToSet(writers') : op'[v] = "put" /\ promise'[v] # "set"
    BY <1>0, <1>1, <1>3 DEF Waits
  <2>3. \A v \in Users : promise'[v] = "pending" =>
          /\ ~closed'
          /\ op'[v] = "get" => v \in ToSet(readers')
          /\ op'[v] = "put" => v \in ToSet(writers')
    BY <1>1, <1>2, <1>3 DEF Waits
  <2> QED
    BY <1>1, <1>2, <1>3, <1>4, <2>1, <2>2, <2>3 DEF Waits, Full, Bounded
<1>11. Places'
  <2>1. \A v \in Users : Holds(v)' => elem'[v] \in 1..made' /\ elem'[v] \notin Settled'
    BY <1>1, <1>6, <1>7, <1>8 DEF Places, e
  <2>2. \A v, w \in Users : Holds(v)' /\ Holds(w)' /\ elem'[v] = elem'[w] => v = w
    BY <1>1, <1>7 DEF Places
  <2>3. ASSUME NEW d \in 1..made', d \notin Settled'
        PROVE  \E v \in Users : Holds(v)' /\ elem'[v] = d
    <3>1. d \notin Settled /\ (Holds(u) => d # e)
      BY <1>8, <2>3
    <3>2. PICK v \in Users : Holds(v) /\ elem[v] = d
      BY <1>1, <2>3, <3>1 DEF Places
    <3> QED
      BY <1>1, <1>7, <3>1, <3>2 DEF e
  <2>4. e \in Settled \/ e \notin ToSet(container) \cup received \cup refused \cup dropped
    BY DEF Settled
  <2>5. /\ ToSet(container') \subseteq 1..made'
        /\ ToSet(container') \cap (received' \cup refused' \cup dropped') = {}
        /\ received' \cap (refused' \cup dropped') = {} /\ refused' \cap dropped' = {}
    BY <1>1, <1>5, <1>6, <2>4 DEF Places
  <2> QED
    BY <2>1, <2>2, <2>3, <2>5 DEF Places
<1>12. InOrder'
  <2>1. \A v \in ToSet(writers') : v \in ToSet(writers) /\ elem'[v] = elem[v]
    BY <1>0, <1>1, <1>3
  <2>2. Sorted(writers', elem')
    BY <1>3, <2>1 DEF Sorted, ToSet
  <2>3. HandedOut' = HandedOut
    BY <1>5
  <2> QED
    BY <1>1, <2>1, <2>2, <2>3 DEF InOrder
<1> QED
  BY <1>5, <1>9, <1>10, <1>11, <1>12 DEF IInv, StepInOrder

-----------------------------------------------------------------------------
(* The theorems. *)

\* The prepopulated elements are in the container, in their order.
LEMMA InitIInv ==
  ASSUME Init
  PROVE  IInv
<1>1. /\ Prefill \in Nat /\ Prefill <= MaxElems /\ made = Prefill
      /\ container = [i \in 1..Prefill |-> i]
      /\ readers = <<>> /\ writers = <<>>
      /\ \A u \in Users : op[u] = "idle" /\ promise[u] = "none"
      /\ received = {} /\ refused = {} /\ dropped = {}
  BY ChannelAssumption DEF Init
<1>2. /\ DOMAIN container = 1..Prefill /\ \A i \in 1..Prefill : container[i] = i
      /\ container \in Seq(Elems) /\ Len(container) = Prefill
  <2>1. \A i \in 1..Prefill : i \in Elems
    BY <1>1, ChannelAssumption DEF Elems
  <2>2. container \in [1..Prefill -> Elems]
    BY <1>1, <2>1
  <2>3. container \in Seq(Elems)
    BY <1>1, <2>2
  <2>4. DOMAIN container = 1..Len(container) /\ Len(container) \in Nat
    BY <2>3, LenProperties
  <2>5. DOMAIN container = 1..Prefill /\ \A i \in 1..Prefill : container[i] = i
    BY <1>1
  <2>6. Len(container) = Prefill
    BY <1>1, <2>4, <2>5
  <2> QED
    BY <2>3, <2>5, <2>6
<1>3. ToSet(container) = 1..made /\ ToSet(readers) = {} /\ ToSet(writers) = {}
  BY <1>1, <1>2 DEF ToSet
<1>4. (\A u \in Users : ~Holds(u)) /\ HandedOut = {}
  <2>1. InFlight = {}
    BY <1>1 DEF InFlight
  <2> QED
    BY <1>1, <2>1 DEF Holds, HandedOut
<1>5. TypeOK
  <2>1. made \in 0..MaxElems /\ readers \in Seq(Users) /\ writers \in Seq(Users)
    BY <1>1, ChannelAssumption
  <2>2. /\ op \in [Users -> {"idle"}] /\ promise \in [Users -> {"none"}]
        /\ elem \in [Users -> {NoElem}] /\ thrown \in [Users -> {FALSE}]
        /\ closed = FALSE /\ raised = "none"
    BY DEF Init
  <2>3. /\ op \in [Users -> {"idle", "get", "put"}]
        /\ promise \in [Users -> {"none", "pending", "set", "closed", "cancelled"}]
        /\ elem \in [Users -> Elems \cup {NoElem}] /\ thrown \in [Users -> BOOLEAN]
    BY <2>2
  <2>4. \A u \in Users : op[u] = "idle" <=> promise[u] = "none"
    BY <1>1
  <2>5. received \cup refused \cup dropped \subseteq 1..made
    BY <1>1
  <2> QED
    BY <1>2, <2>1, <2>2, <2>3, <2>4, <2>5 DEF TypeOK
<1>6. Waits
  <2>1. Bounded /\ Prefill <= Capacity => Len(container) <= Capacity
    BY <1>2
  <2> QED
    BY <1>1, <1>3, <2>1 DEF Waits, IsInjective
<1>7. Places
  BY <1>1, <1>3, <1>4 DEF Places, Settled
<1>8. InOrder
  BY <1>1, <1>2, <1>3, <1>4 DEF InOrder, Rising, Sorted
<1> QED
  BY <1>5, <1>6, <1>7, <1>8 DEF IInv

\* IInv is inductive.
LEMMA NextIInv ==
  ASSUME IInv, [Next]_vars
  PROVE  IInv' /\ StepInOrder
<1>1. ASSUME NEW u \in Users, GetNoWait(u) PROVE IInv' /\ StepInOrder
  BY <1>1, TakeIInv, FailsIInv DEF GetNoWait
<1>2. ASSUME NEW u \in Users, Get(u) PROVE IInv' /\ StepInOrder
  BY <1>2, TakeIInv, FailsIInv, GetWaitsIInv DEF Get
<1>3. ASSUME NEW u \in Users, PutNoWait(u) PROVE IInv' /\ StepInOrder
  BY <1>3, PlaceIInv, FailsIInv DEF PutNoWait
<1>4. ASSUME NEW u \in Users, Put(u) PROVE IInv' /\ StepInOrder
  BY <1>4, PlaceIInv, PutWaitsIInv DEF Put
<1>5. ASSUME Close PROVE IInv' /\ StepInOrder
  BY <1>5, CloseIInv
<1>6. ASSUME NEW u \in Users, CancelWaiting(u) PROVE IInv' /\ StepInOrder
  BY <1>6, CancelIInv
<1>7. ASSUME NEW u \in Users, Resume(u) PROVE IInv' /\ StepInOrder
  BY <1>7, ResumeIInv
<1>8. ASSUME UNCHANGED vars PROVE IInv' /\ StepInOrder
  <2> USE <1>8 DEF vars
  <2>1. HandedOut' = HandedOut
    BY SameHands DEF HandedOut
  <2>2. TypeOK' /\ Waits' /\ InOrder'
    BY <2>1 DEF IInv, TypeOK, Waits, Full, Bounded, InOrder, Rising, Sorted
  <2>3. Places'
    BY SameHands DEF IInv, Places, Settled
  <2> QED
    BY <2>1, <2>2, <2>3 DEF IInv, StepInOrder
<1> QED
  BY <1>1, <1>2, <1>3, <1>4, <1>5, <1>6, <1>7, <1>8 DEF Next

\* IInv holds in every reachable state of the channel.
THEOREM SpecIInv == Spec => []IInv
<1>1. Init => IInv
  BY InitIInv
<1>2. IInv /\ [Next]_vars => IInv'
  BY NextIInv
<1> QED
  BY <1>1, <1>2, PTL DEF Spec

\* Every variable keeps its type, and a user has a promise while it waits.
THEOREM TypeCorrect == Spec => []TypeOK
<1>1. IInv => TypeOK
  BY DEF IInv
<1> QED
  BY <1>1, SpecIInv, PTL

\* Nobody waits for what is there, or after the channel was closed.
THEOREM NoMissedHandoffHolds == Spec => []NoMissedHandoff
<1>1. ASSUME IInv PROVE NoMissedHandoff
  <2>1. readers = <<>> => ToSet(readers) = {}
    BY DEF ToSet
  <2>2. writers = <<>> => ToSet(writers) = {}
    BY DEF ToSet
  <2> QED
    BY <1>1, <2>1, <2>2 DEF IInv, Waits, NoMissedHandoff
<1> QED
  BY <1>1, SpecIInv, PTL

\* Every element is in exactly one of its six places (channel.py:94-104).
THEOREM ElementsConservedHolds == Spec => []ElementsConserved
<1>1. ASSUME IInv PROVE ElementsConserved
  <2> TypeOK /\ Places /\ InOrder
    BY <1>1 DEF IInv
  <2>1. IsInjective(container)
    <3>1. \A i \in DOMAIN container : container[i] \in Nat
      <4>1. \A i \in DOMAIN container : container[i] \in Elems
        BY DEF TypeOK
      <4>2. Elems \subseteq Nat
        BY ChannelAssumption DEF Elems
      <4> QED
        BY <4>1, <4>2
    <3>2. DOMAIN container = 1..Len(container) /\ Len(container) \in Nat
      BY DEF TypeOK
    <3> QED
      BY <3>1, <3>2 DEF InOrder, Rising, IsInjective
  <2>2. \A e : e \in Offered <=>
          \E u \in Users : op[u] = "put" /\ promise[u] # "set" /\ elem[u] = e
    BY DEF Offered
  <2>3. \A e : e \in InFlight <=>
          \E u \in Users : op[u] = "get" /\ promise[u] = "set" /\ elem[u] = e
    BY DEF InFlight
  <2>4. /\ Offered \cap InFlight = {} /\ Offered \cap Settled = {} /\ InFlight \cap Settled = {}
        /\ \A e \in 1..made : e \in Offered \cup InFlight \cup Settled
    BY <2>2, <2>3 DEF Places, Holds
  <2>5. /\ \A e \in 1..made : e \in Offered \/ e \in InContainer \/ e \in InFlight
                              \/ e \in received \/ e \in refused \/ e \in dropped
        /\ Offered \cap InContainer = {} /\ Offered \cap InFlight = {}
        /\ Offered \cap received = {} /\ Offered \cap refused = {} /\ Offered \cap dropped = {}
        /\ InContainer \cap InFlight = {} /\ InContainer \cap received = {}
        /\ InContainer \cap refused = {} /\ InContainer \cap dropped = {}
        /\ InFlight \cap received = {} /\ InFlight \cap refused = {} /\ InFlight \cap dropped = {}
        /\ received \cap refused = {} /\ received \cap dropped = {} /\ refused \cap dropped = {}
    BY <2>4 DEF Places, Settled, InContainer
  <2> DEFINE places == <<Offered, InContainer, InFlight, received, refused, dropped>>
  <2>6. /\ places[1] = Offered /\ places[2] = InContainer /\ places[3] = InFlight
        /\ places[4] = received /\ places[5] = refused /\ places[6] = dropped
    OBVIOUS
  <2> HIDE DEF places
  <2>7. 1..6 = {1, 2, 3, 4, 5, 6}
    OBVIOUS
  <2>8. \A e \in 1..made : \E i \in 1..6 : e \in places[i]
    BY <2>5, <2>6, <2>7
  <2>9. \A i, j \in {1, 2, 3, 4, 5, 6} : i # j => places[i] \cap places[j] = {}
    BY <2>5, <2>6
  <2> QED
    BY <2>1, <2>7, <2>8, <2>9 DEF ElementsConserved, places
<1> QED
  BY <1>1, SpecIInv, PTL

\* Elements are handed out in the order of their puts.
THEOREM HandedOutInOrderHolds == Spec => HandedOutInOrder
<1>1. IInv /\ [Next]_vars => [StepInOrder]_vars
  BY NextIInv
<1>2. Spec => [][StepInOrder]_vars
  BY <1>1, SpecIInv, PTL DEF Spec
<1> QED
  BY <1>2 DEF HandedOutInOrder, StepInOrder

\* A channel has room, and was not filled with more than that.
Roomy == Bounded => Capacity > 0 /\ Prefill <= Capacity

\* Such a channel fails none of its assertions (channel.py:77,80,114,119).
THEOREM AssertionsHoldIfRoomy == Roomy => (Spec => []AssertionsHold)
<1>1. ASSUME Roomy, IInv, AssertionsHold, [Next]_vars PROVE AssertionsHold'
  <2> TypeOK /\ Waits
    BY <1>1 DEF IInv
  <2>1. Bounded => Capacity \in Nat
    BY ChannelAssumption DEF Bounded
  <2>2. container = <<>> => Len(container) = 0
    OBVIOUS
  <2>3. Len(container) \in Nat
    BY DEF TypeOK
  <2>4. ~(Full /\ readers # <<>>)
    BY <1>1, <2>1, <2>2 DEF Roomy, Full, Waits
  <2>5. writers # <<>> /\ Bounded => Len(container) = Capacity
    BY <1>1, <2>1, <2>3 DEF Roomy, Full, Waits
  <2>6. container # <<>> => readers = <<>>
    BY DEF Waits
  <2>7. TakeElem => raised' # "AssertionError"
    BY <2>5, <2>6 DEF TakeElem
  <2>8. Placing => raised' # "AssertionError"
    BY <2>4, <2>6 DEF Placing, PlaceElem
  <2>9. ASSUME NEW u \in Users, GetNoWait(u) \/ Get(u) \/ PutNoWait(u) \/ Put(u)
        PROVE  raised' # "AssertionError"
    BY <2>7, <2>8, <2>9 DEF GetNoWait, Get, PutNoWait, Put, Fails, Suspend
  <2>10. ASSUME NEW u \in Users, CancelWaiting(u) \/ Resume(u) PROVE raised' # "AssertionError"
    BY <2>10 DEF CancelWaiting, Resume
  <2> QED
    BY <1>1, <2>9, <2>10 DEF Next, vars, Close, AssertionsHold
<1>2. Init => AssertionsHold
  BY DEF Init, AssertionsHold
<1>3. ASSUME Roomy PROVE Spec => []AssertionsHold
  <2>1. IInv /\ AssertionsHold /\ [Next]_vars => AssertionsHold'
    BY <1>1, <1>3
  <2> QED
    BY <1>2, <2>1, SpecIInv, PTL DEF Spec
<1> QED
  BY <1>3
=============================================================================
