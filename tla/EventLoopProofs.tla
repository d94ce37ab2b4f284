---------------------------- MODULE EventLoopProofs ----------------------------
(***************************************************************************)
(* EventLoop.tla for any number of handles, instants and threads: where    *)
(* each handle is, in what order they are invoked, and when the loop may   *)
(* sleep or stop.                                                          *)
(***************************************************************************)
EXTENDS EventLoop, SchedulerProofs

-----------------------------------------------------------------------------
(* The inductive invariant. *)

\* Where the handles are.
Queued == Values(ready) \cup Values(heap)

Places ==
  /\ Values(batch) \subseteq Made /\ invoked \subseteq Made
  /\ Values(batch) \cap Queued = {}
  /\ invoked \cap (Queued \cup Values(batch)) = {}
  /\ pc # "crashed" => Made \ (cancelled \cup invoked) \subseteq Queued \cup Values(batch)
  /\ \A i, j \in 1..Len(batch) : batch[i] = batch[j] => i = j

\* What run_step has popped is due, is in order, and nothing that is still queued
\* should have gone first.
Order ==
  /\ \A h \in Values(batch) : when[h] = Soon \/ when[h] <= now
  /\ \A h \in Values(batch), g \in Queued : ~Precedes(g, h)
  /\ \A i, j \in 1..Len(batch) : i < j => ~Precedes(batch[j], batch[i])

\* Where callbacks run, and where run_step holds popped handles.
Control ==
  /\ running # Nothing => pc \in {"early", "io", "late"}
  /\ pc \in {"top", "io", "stopped", "crashed"} => batch = <<>>
  /\ pc \in {"early", "io"} => until \in Times /\ until <= now

\* What select's timeout takes into account.
Waiting ==
  /\ pc \in {"popped", "armed", "poll"} => Values(ready) \subseteq outside
  /\ pc \in {"armed", "poll"} /\ batch # <<>> => until \in Times /\ until <= now
  /\ pc \in {"armed", "poll"} /\ heap # <<>> /\ heap[1] \notin cancelled =>
       /\ until # Soon
       /\ until <= now \/ \A h \in Values(heap) \ cancelled : until <= when[h]

LoopInv ==
  /\ SchedInv /\ LoopTypeOK
  /\ Places /\ Order
  /\ Control /\ Waiting /\ StopDrains

\* The popped handles as a sequence.
LEMMA BatchFacts ==
  ASSUME LoopTypeOK
  PROVE  /\ batch \in Seq(Nat) /\ Len(batch) \in Nat /\ InBatch = Values(batch)
         /\ \A i \in 1..Len(batch) : batch[i] \in Values(batch)
<1>1. Handles \subseteq Nat
  BY MadeFacts DEF LoopTypeOK
<1>2. batch \in Seq(Nat)
  BY <1>1, SeqMonotonic DEF LoopTypeOK
<1> QED
  BY <1>2, HeldIsValues DEF InBatch, Values

\* An empty sequence has no entries.
LEMMA NoValues == Values(<<>>) = {} /\ Len(<<>>) = 0
<1>1. 1..Len(<<>>) = {}
  OBVIOUS
<1> QED
  BY <1>1 DEF Values

\* A sequence and what is left of it without its head.
LEMMA TailFacts ==
  ASSUME NEW s \in Seq(Nat), s # <<>>
  PROVE  /\ Len(s) \in Nat /\ Len(s) > 0
         /\ Head(s) = s[1] /\ Tail(s) \in Seq(Nat) /\ Len(Tail(s)) = Len(s) - 1
         /\ \A i \in 1..(Len(s) - 1) : i + 1 \in 1..Len(s) /\ Tail(s)[i] = s[i + 1]
         /\ Values(s) = Values(Tail(s)) \cup {Head(s)}
         /\ (\A i, j \in 1..Len(s) : s[i] = s[j] => i = j) => Head(s) \notin Values(Tail(s))
<1> DEFINE n == Len(s)
           t == Tail(s)
<1>1. /\ n \in Nat /\ n > 0 /\ Head(s) = s[1]
  BY EmptySeq
<1>2. t \in Seq(Nat) /\ Len(t) = n - 1 /\ \A i \in 1..Len(t) : t[i] = s[i + 1]
  BY HeadTailProperties
<1> HIDE DEF t, n
<1>3. ASSUME NEW i \in 1..(n - 1) PROVE i + 1 \in 1..n /\ t[i] = s[i + 1]
  BY <1>1, <1>2
<1>4. \A j \in 1..n : j = 1 \/ (j - 1 \in 1..(n - 1) /\ (j - 1) + 1 = j)
  BY <1>1
<1>5. Values(s) = Values(t) \cup {Head(s)}
  <2>1. 1 \in 1..n
    BY <1>1
  <2>2. \A e \in Values(t) \cup {Head(s)} : e \in Values(s)
    BY <1>1, <1>2, <1>3, <2>1 DEF Values, n
  <2>3. \A j \in 1..n : s[j] \in Values(t) \cup {Head(s)}
    <3>1. \A i \in 1..(n - 1) : t[i] \in Values(t)
      BY <1>2 DEF Values
    <3> QED
      BY <1>1, <1>3, <1>4, <3>1
  <2>4. \A e \in Values(s) : e \in Values(t) \cup {Head(s)}
    BY <2>3 DEF Values, n
  <2> QED
    BY <2>2, <2>4
<1>6. ASSUME \A i, j \in 1..n : s[i] = s[j] => i = j, Head(s) \in Values(t) PROVE FALSE
  <2>1. PICK i \in 1..(n - 1) : t[i] = Head(s)
    BY <1>2, <1>6 DEF Values
  <2>2. i + 1 \in 1..n /\ s[i + 1] = s[1] /\ 1 \in 1..n
    BY <1>1, <1>3, <2>1
  <2> QED
    BY <1>6, <2>2
<1> QED
  BY <1>1, <1>2, <1>3, <1>5, <1>6 DEF t, n

-----------------------------------------------------------------------------
(* What the operations of the scheduler do to places and order. *)

\* Both calls of pop_pending: they hand what is due to the empty batch.
LEMMA PopKeeps ==
  ASSUME LoopInv, batch = <<>>, pc # "crashed",
         NEW threshold \in Times, threshold <= now,
         batch' = Pending(threshold), PopPending(threshold),
         UNCHANGED <<now, invoked>>
  PROVE  /\ SchedInv' /\ Places' /\ Order'
         /\ batch' \in Seq(Handles)
         /\ Values(ready') = {} /\ when' = when /\ cancelled' = cancelled /\ Made' = Made
<1> DEFINE soon == LiveOf(ready)
           timed == LiveOf(DueSeq(threshold))
           n == Len(soon)
           m == Len(timed)
           b == Pending(threshold)
<1>0. /\ SchedInv /\ LoopTypeOK /\ Places
      /\ now \in Nat /\ threshold \in Nat /\ Soon \notin Nat /\ Handles \subseteq Nat
      /\ Made \subseteq Handles
  BY MadeFacts, SchedulerAssumption DEF LoopInv, LoopTypeOK, SchedInv
<1>1. /\ SchedInv'
      /\ Values(ready') = {} /\ Values(heap') = Values(heap) \ Due(threshold)
      /\ when' = when /\ cancelled' = cancelled /\ Made' = Made
  BY <1>0, PopPendingFacts
<1>2. /\ InReady = Values(ready) /\ InHeap = Values(heap)
      /\ InReady \subseteq Made /\ InHeap \subseteq Made /\ InReady \cap InHeap = {}
  BY <1>0, PlaceFacts
<1>3. /\ b = soon \o timed
      /\ soon \in Seq(Nat) /\ Values(soon) = InReady \ cancelled
      /\ \A i, j \in 1..n : i < j => soon[i] < soon[j]
      /\ timed \in Seq(Nat) /\ Values(timed) = Due(threshold) \ cancelled
      /\ \A i, j \in 1..m : i < j => Before(timed[i], timed[j])
      /\ \A i, j \in 1..m : timed[i] = timed[j] => i = j
  BY <1>0, PendingFacts
<1>4. /\ \A h \in InReady : when[h] = Soon
      /\ \A h \in InHeap : when[h] \in Nat
  <2>1. Times \subseteq Nat
    BY <1>0, MadeFacts DEF SchedInv
  <2> QED
    BY <1>0, <1>2, <2>1 DEF SchedInv, HeapInv, ReadyInv
<1>5. Due(threshold) \subseteq InHeap /\ \A h \in InHeap : h \in Due(threshold) <=> when[h] <= threshold
  BY <1>2 DEF Due
<1> HIDE DEF soon, timed, b
<1>6. /\ n \in Nat /\ m \in Nat /\ b \in Seq(Nat) /\ Len(b) = n + m
      /\ \A i \in 1..n : b[i] = soon[i]
      /\ \A i \in (n + 1)..(n + m) : i - n \in 1..m /\ b[i] = timed[i - n]
      /\ \A i \in 1..m : b[n + i] = timed[i]
  BY <1>3, ConcatParts
<1>7. /\ \A i \in 1..n : soon[i] \in Values(soon)
      /\ \A i \in 1..m : timed[i] \in Values(timed)
  BY DEF Values
<1>8. Values(soon) \subseteq InReady /\ Values(timed) \subseteq Due(threshold)
  BY <1>3
<1>9. Values(b) = Values(soon) \cup Values(timed)
  <2>1. \A i \in 1..Len(b) : i \in 1..n \/ i \in (n + 1)..(n + m)
    BY <1>6
  <2>2. \A i \in 1..Len(b) : b[i] \in Values(soon) \cup Values(timed)
    BY <1>6, <1>7, <2>1
  <2>3. \A i \in 1..n : i \in 1..Len(b)
    BY <1>6
  <2>4. \A i \in 1..m : n + i \in 1..Len(b)
    BY <1>6
  <2>5. \A e \in Values(soon) : e \in Values(b)
    BY <1>6, <2>3 DEF Values
  <2>6. \A e \in Values(timed) : e \in Values(b)
    <3>1. \A i \in 1..m : b[n + i] \in Values(b)
      BY <2>4 DEF Values
    <3>2. \A i \in 1..m : timed[i] \in Values(b)
      BY <1>6, <3>1
    <3> QED
      BY <3>2 DEF Values
  <2>7. \A e \in Values(b) : e \in Values(soon) \cup Values(timed)
    BY <2>2 DEF Values
  <2> QED
    BY <2>5, <2>6, <2>7
<1>10. ASSUME NEW i \in 1..Len(b), NEW j \in 1..Len(b), i < j
       PROVE  b[i] # b[j] /\ ~Precedes(b[j], b[i])
  <2>1. \A k \in 1..Len(b) : k \in 1..n \/ k \in (n + 1)..(n + m)
    BY <1>6
  <2>2. CASE i \in 1..n /\ j \in 1..n
    <3>1. b[i] < b[j] /\ b[i] \in Nat /\ b[j] \in Nat
      BY <1>3, <1>6, <1>10, <2>2
    <3> QED
      BY <3>1 DEF Precedes
  <2>3. CASE i \in 1..n /\ j \in (n + 1)..(n + m)
    <3>1. b[i] \in InReady /\ b[j] \in InHeap
      BY <1>5, <1>6, <1>7, <1>8, <2>3
    <3>2. b[i] # b[j] /\ when[b[i]] = Soon /\ when[b[j]] # Soon
      BY <1>0, <1>2, <1>4, <3>1
    <3> QED
      BY <3>2 DEF Precedes
  <2>4. CASE i \in (n + 1)..(n + m) /\ j \in (n + 1)..(n + m)
    <3>1. /\ i - n \in 1..m /\ j - n \in 1..m /\ i - n < j - n
          /\ b[i] = timed[i - n] /\ b[j] = timed[j - n]
      <4>1. i - n < j - n
        BY <1>6, <1>10, <2>4
      <4> QED
        BY <1>6, <2>4, <4>1
    <3>2. Before(b[i], b[j]) /\ b[i] # b[j] /\ b[i] \in InHeap /\ b[j] \in InHeap
      BY <1>3, <1>5, <1>7, <1>8, <3>1
    <3>3. when[b[i]] \in Nat /\ when[b[j]] \in Nat /\ b[i] \in Nat /\ b[j] \in Nat
      BY <1>0, <1>2, <1>4, <3>2
    <3> QED
      BY <1>0, <3>2, <3>3 DEF Before, Earlier, Precedes
  <2>5. ~(i \in (n + 1)..(n + m) /\ j \in 1..n)
    BY <1>6, <1>10
  <2> QED
    BY <2>1, <2>2, <2>3, <2>4, <2>5
<1>11. Queued = InReady \cup InHeap /\ Queued' = InHeap \ Due(threshold)
  BY <1>1, <1>2 DEF Queued
<1>12. Values(batch) = {} /\ Values(batch') = Values(b) /\ batch' = b
  BY NoValues DEF b
<1>13. Places'
  <2>1. Values(b) \subseteq Made /\ Values(b) \subseteq Queued
    BY <1>2, <1>5, <1>8, <1>9, <1>11
  <2>2. Values(b) \cap (InHeap \ Due(threshold)) = {}
    BY <1>2, <1>5, <1>8, <1>9
  <2>3. Queued \ cancelled \subseteq (InHeap \ Due(threshold)) \cup Values(b)
    BY <1>3, <1>9, <1>11
  <2>4. /\ invoked \subseteq Made /\ invoked \cap Queued = {}
        /\ Made \ (cancelled \cup invoked) \subseteq Queued
    BY <1>0, <1>12 DEF Places
  <2>5. ASSUME NEW i \in 1..Len(b), NEW j \in 1..Len(b), b[i] = b[j] PROVE i = j
    <3>1. ~(i < j) /\ ~(j < i)
      BY <1>10, <2>5
    <3> QED
      BY <3>1
  <2>6. invoked' = invoked
    OBVIOUS
  <2>7. Queued' \subseteq Queued
    BY <1>11
  <2>8. invoked \cap (Queued' \cup Values(b)) = {}
    BY <2>1, <2>4, <2>7
  <2>9. Made \ (cancelled \cup invoked) \subseteq Queued' \cup Values(b)
    BY <1>11, <2>3, <2>4
  <2> QED
    BY <1>1, <1>11, <1>12, <2>1, <2>2, <2>4, <2>5, <2>6, <2>8, <2>9 DEF Places
<1>14. Order'
  <2>1. ASSUME NEW h \in Values(b) PROVE when[h] = Soon \/ when[h] <= now
    <3>1. CASE h \in Values(soon)
      BY <1>4, <1>8, <3>1
    <3>2. CASE h \in Values(timed)
      <4>1. when[h] \in Nat /\ when[h] <= threshold
        BY <1>4, <1>5, <1>8, <3>2
      <4> QED
        BY <1>0, <4>1
    <3> QED
      BY <1>9, <3>1, <3>2
  <2>2. ASSUME NEW h \in Values(b), NEW g \in InHeap \ Due(threshold) PROVE ~Precedes(g, h)
    <3>1. when[g] \in Nat /\ ~(when[g] <= threshold)
      BY <1>4, <1>5
    <3>2. CASE h \in Values(soon)
      <4>1. when[h] = Soon /\ when[g] # Soon
        BY <1>0, <1>4, <1>8, <3>1, <3>2
      <4> QED
        BY <4>1 DEF Precedes
    <3>3. CASE h \in Values(timed)
      <4>1. when[h] \in Nat /\ when[h] <= threshold /\ when[g] # Soon
        BY <1>0, <1>4, <1>5, <1>8, <3>1, <3>3
      <4> QED
        BY <1>0, <3>1, <4>1 DEF Precedes
    <3> QED
      BY <1>9, <3>2, <3>3
  <2>3. /\ now' = now
        /\ \A g, h : Precedes(g, h)' <=> Precedes(g, h)
    BY <1>1 DEF Precedes
  <2> QED
    BY <1>1, <1>10, <1>11, <1>12, <2>1, <2>2, <2>3 DEF Order, Precedes
<1>15. batch' \in Seq(Handles)
  <2>1. Values(b) \subseteq Handles
    BY <1>0, <1>2, <1>5, <1>8, <1>9
  <2>2. \A i \in 1..Len(b) : b[i] \in Handles
    BY <2>1 DEF Values
  <2>3. b \in [1..Len(b) -> Handles] /\ Len(b) \in Nat
    BY <1>6, <2>2
  <2> QED
    BY <1>12, <2>3
<1> QED
  BY <1>1, <1>13, <1>14, <1>15

\* A new handle: it is queued behind all that is held, and after all of them.
LEMMA EnqueueKeeps ==
  ASSUME LoopInv, NEW w \in Times \cup {Soon}, Enqueue(w),
         UNCHANGED <<now, pc, batch, invoked>>
  PROVE  /\ SchedInv' /\ Places' /\ Order'
         /\ cancelled' = cancelled
         /\ \E h \in Handles :
              /\ Made' = Made \cup {h} /\ h \notin Made
              /\ \A g \in Made : when'[g] = when[g]
              /\ w = Soon => heap' = heap /\ Values(ready') = Values(ready) \cup {h}
              /\ w # Soon => Values(ready') = Values(ready)
<1>0. /\ SchedInv /\ LoopTypeOK /\ Places /\ Order
      /\ Handles \subseteq Nat /\ Made \subseteq Handles
  BY MadeFacts DEF LoopInv, SchedInv
<1>1. SchedInv' /\ \E h \in Handles : Enqueued(w, h)
  BY <1>0, EnqueueFacts
<1>2. PICK h \in Handles : Enqueued(w, h)
  BY <1>1
<1>3. /\ h \notin Made /\ \A g \in Made : g < h /\ when'[g] = when[g]
      /\ Made' = Made \cup {h} /\ cancelled' = cancelled
      /\ w = Soon => heap' = heap /\ Values(ready') = Values(ready) \cup {h}
      /\ w # Soon => ready' = ready /\ Values(heap') = Values(heap) \cup {h}
  BY <1>2 DEF Enqueued
<1>4. Queued' = Queued \cup {h} /\ Queued \subseteq Made
  <2>1. Queued' = Queued \cup {h}
    BY <1>3 DEF Queued
  <2>2. Queued \subseteq Made
    BY <1>0, PlaceFacts DEF Queued
  <2> QED
    BY <2>1, <2>2
<1>5. batch' = batch /\ invoked' = invoked /\ pc' = pc /\ now' = now
  OBVIOUS
<1>6. Places'
  <2>1. Values(batch) \subseteq Made /\ invoked \subseteq Made
    BY <1>0 DEF Places
  <2> QED
    BY <1>0, <1>3, <1>4, <1>5, <2>1 DEF Places
<1>7. Order'
  <2>1. Values(batch) \subseteq Made /\ \A i \in 1..Len(batch) : batch[i] \in Values(batch)
    BY <1>0, BatchFacts DEF Places
  <2>2. ASSUME NEW f \in Made, NEW g \in Made PROVE Precedes(g, f)' <=> Precedes(g, f)
    BY <1>3 DEF Precedes
  <2>3. ASSUME NEW f \in Made PROVE ~Precedes(h, f)'
    <3>1. f < h /\ f \in Nat /\ h \in Nat
      BY <1>0, <1>3
    <3> QED
      BY <3>1 DEF Precedes
  <2>4. \A f \in Values(batch) : when'[f] = Soon \/ when'[f] <= now
    BY <1>0, <1>3, <2>1 DEF Order
  <2>5. \A f \in Values(batch), g \in Queued' : ~Precedes(g, f)'
    BY <1>0, <1>4, <2>1, <2>2, <2>3 DEF Order
  <2>6. \A i, j \in 1..Len(batch) : i < j => ~Precedes(batch[j], batch[i])'
    BY <1>0, <1>5, <2>1, <2>2 DEF Order
  <2> QED
    BY <1>5, <2>4, <2>5, <2>6 DEF Order, Precedes
<1> QED
  BY <1>1, <1>3, <1>6, <1>7

\* The head of the batch leaves it: invoked, or skipped because it is cancelled.
LEMMA HeadLeaves ==
  ASSUME LoopInv, batch # <<>>, batch' = Tail(batch),
         \/ Head(batch) \in cancelled /\ invoked' = invoked
         \/ invoked' = invoked \cup {Head(batch)},
         UNCHANGED <<schedVars, now, pc>>
  PROVE  /\ SchedInv' /\ Places' /\ Order'
         /\ batch' \in Seq(Handles) /\ Head(batch) \in Values(batch) /\ Head(batch) \in Handles
<1> DEFINE t == Tail(batch)
           x == Head(batch)
           n == Len(batch)
<1>0. /\ SchedInv /\ LoopTypeOK /\ Places /\ Order
  BY DEF LoopInv
<1>1. batch \in Seq(Nat) /\ batch \in Seq(Handles)
  BY <1>0, BatchFacts DEF LoopTypeOK
<1>2. /\ n \in Nat /\ n > 0 /\ x = batch[1] /\ t \in Seq(Nat) /\ Len(t) = n - 1
      /\ \A i \in 1..(n - 1) : i + 1 \in 1..n /\ t[i] = batch[i + 1]
      /\ Values(batch) = Values(t) \cup {x}
      /\ x \notin Values(t)
  BY <1>0, <1>1, TailFacts DEF Places
<1>3. t \in Seq(Handles) /\ x \in Handles
  BY <1>1, HeadTailProperties
<1> HIDE DEF t, x
<1>4. /\ ready' = ready /\ heap' = heap /\ when' = when /\ cancelled' = cancelled
      /\ Made' = Made /\ Queued' = Queued /\ now' = now /\ pc' = pc /\ batch' = t
      /\ (x \in cancelled /\ invoked' = invoked) \/ invoked' = invoked \cup {x}
  BY DEF schedVars, Made, Queued, x, t
<1>5. SchedInv'
  BY <1>0, <1>4, QueuesKept DEF SchedInv, SchedTypeOK
<1>6. Places'
  <2>1. /\ Values(batch) \subseteq Made /\ invoked \subseteq Made
        /\ Values(batch) \cap Queued = {}
        /\ invoked \cap (Queued \cup Values(batch)) = {}
        /\ pc # "crashed" => Made \ (cancelled \cup invoked) \subseteq Queued \cup Values(batch)
        /\ \A i, j \in 1..n : batch[i] = batch[j] => i = j
    BY <1>0 DEF Places
  <2>2. ASSUME NEW i \in 1..(n - 1), NEW j \in 1..(n - 1), t[i] = t[j] PROVE i = j
    <3>1. i + 1 = j + 1
      BY <1>2, <2>1, <2>2
    <3> QED
      BY <3>1
  <2>3. Values(t) \subseteq Made /\ invoked' \subseteq Made /\ Values(t) \cap Queued = {}
    BY <1>2, <1>4, <2>1
  <2>4. invoked' \cap (Queued \cup Values(t)) = {}
    BY <1>2, <1>4, <2>1
  <2>5. pc # "crashed" => Made \ (cancelled \cup invoked') \subseteq Queued \cup Values(t)
    BY <1>2, <1>4, <2>1
  <2> QED
    BY <1>2, <1>4, <2>2, <2>3, <2>4, <2>5 DEF Places
<1>7. Order'
  <2>1. \A g, h : Precedes(g, h)' <=> Precedes(g, h)
    BY <1>4 DEF Precedes
  <2>2. /\ \A h \in Values(t) : when[h] = Soon \/ when[h] <= now
        /\ \A h \in Values(t), g \in Queued : ~Precedes(g, h)
    BY <1>0, <1>2 DEF Order
  <2>3. ASSUME NEW i \in 1..(n - 1), NEW j \in 1..(n - 1), i < j PROVE ~Precedes(t[j], t[i])
    <3>1. i + 1 < j + 1 /\ i + 1 \in 1..n /\ j + 1 \in 1..n
      BY <1>2, <2>3
    <3>2. ~Precedes(batch[j + 1], batch[i + 1])
      BY <1>0, <3>1 DEF Order
    <3> QED
      BY <1>2, <3>2
  <2> QED
    BY <1>2, <1>4, <2>1, <2>2, <2>3 DEF Order
<1> QED
  BY <1>2, <1>3, <1>4, <1>5, <1>6, <1>7 DEF x

\* Steps that leave queues, batch and invoked handles alone.
LEMMA OthersKeep ==
  ASSUME LoopInv, UNCHANGED <<ready, heap, when, batch, invoked>>,
         cancelled \subseteq cancelled', cancelled' \subseteq Made,
         now' \in Times, now <= now', pc' = "crashed" <=> pc = "crashed"
  PROVE  SchedInv' /\ Places' /\ Order'
<1>0. /\ SchedInv /\ LoopTypeOK /\ Places /\ Order
      /\ Times \subseteq Nat /\ Made \subseteq Handles
      /\ when \in [Made -> Times \cup {Soon}]
  BY MadeFacts DEF LoopInv, SchedInv
<1>1. SchedInv'
  BY <1>0, QueuesKept
<1>2. /\ when' = when /\ Made' = Made /\ Queued' = Queued /\ batch' = batch /\ invoked' = invoked
  BY DEF Made, Queued
<1>3. Places'
  BY <1>0, <1>2 DEF Places
<1>4. Order'
  <2>1. \A g, h : Precedes(g, h)' <=> Precedes(g, h)
    BY <1>2 DEF Precedes
  <2>2. ASSUME NEW h \in Values(batch) PROVE when[h] = Soon \/ when[h] <= now'
    <3>1. when[h] \in Times \cup {Soon} /\ (when[h] = Soon \/ when[h] <= now)
      BY <1>0, <2>2 DEF Places, Order
    <3>2. now \in Nat /\ now' \in Nat
      BY <1>0 DEF LoopTypeOK
    <3>3. CASE when[h] # Soon
      <4>1. when[h] \in Nat /\ when[h] <= now
        BY <1>0, <3>1, <3>3
      <4> QED
        BY <3>2, <4>1
    <3> QED
      BY <3>3
  <2> QED
    BY <1>0, <1>2, <2>1, <2>2 DEF Order
<1> QED
  BY <1>1, <1>3, <1>4

-----------------------------------------------------------------------------
(* Every step keeps the invariant: run_step and run_loop. *)

\* pop_pending(now) at the top of run_step, into the empty list of early callbacks.
LEMMA PopEarlyStep == LoopInv /\ PopEarly => LoopInv'
<1> SUFFICES ASSUME LoopInv, PopEarly PROVE LoopInv'
  OBVIOUS
<1>1. /\ pc = "top" /\ pc' = "popped" /\ batch = <<>> /\ batch' = Pending(now) /\ PopPending(now)
      /\ running = Nothing /\ now \in Times /\ now <= now
      /\ UNCHANGED <<now, events, until, inPoll, pipe, running, invoked, run, caller, outside>>
  <2>1. now \in Times /\ now <= now
    BY MadeFacts DEF LoopInv, LoopTypeOK
  <2> QED
    BY <2>1 DEF PopEarly, LoopInv, Control
<1>2. /\ SchedInv' /\ Places' /\ Order' /\ batch' \in Seq(Handles)
      /\ Values(ready') = {} /\ when' = when /\ cancelled' = cancelled /\ Made' = Made
  BY <1>1, PopKeeps
<1>3. LoopTypeOK'
  BY <1>1, <1>2 DEF LoopInv, LoopTypeOK, SchedInv
<1>4. Control' /\ Waiting' /\ StopDrains'
  BY <1>1, <1>2 DEF Control, Waiting, StopDrains
<1> QED
  BY <1>2, <1>3, <1>4 DEF LoopInv

\* pop_pending(end_at) after the callbacks of select, into the empty list of late ones.
LEMMA PopLateStep == LoopInv /\ PopLate => LoopInv'
<1> SUFFICES ASSUME LoopInv, PopLate PROVE LoopInv'
  OBVIOUS
<1>1. /\ pc = "io" /\ pc' = "late" /\ batch = <<>> /\ batch' = Pending(until) /\ PopPending(until)
      /\ running = Nothing /\ until \in Times /\ until <= now
      /\ UNCHANGED <<now, events, until, inPoll, pipe, running, invoked, run, caller, outside>>
  BY DEF PopLate, LoopInv, Control
<1>2. /\ SchedInv' /\ Places' /\ Order' /\ batch' \in Seq(Handles)
      /\ Values(ready') = {} /\ when' = when /\ cancelled' = cancelled /\ Made' = Made
  BY <1>1, PopKeeps
<1>3. LoopTypeOK'
  BY <1>1, <1>2 DEF LoopInv, LoopTypeOK, SchedInv
<1>4. Control' /\ Waiting' /\ StopDrains'
  BY <1>1, <1>2 DEF Control, Waiting, StopDrains
<1> QED
  BY <1>2, <1>3, <1>4 DEF LoopInv

\* What holds of the queues when the scheduler is left alone.
LEMMA SchedAlone ==
  ASSUME LoopInv, UNCHANGED <<schedVars, batch, invoked>>,
         now' \in Times, now <= now', pc' = "crashed" <=> pc = "crashed"
  PROVE  /\ SchedInv' /\ Places' /\ Order'
         /\ ready' = ready /\ heap' = heap /\ when' = when /\ cancelled' = cancelled /\ Made' = Made
<1>1. /\ ready' = ready /\ heap' = heap /\ when' = when /\ cancelled' = cancelled /\ Made' = Made
      /\ cancelled \subseteq cancelled' /\ cancelled' \subseteq Made
  BY DEF schedVars, Made, LoopInv, SchedInv, SchedTypeOK
<1> QED
  BY <1>1, OthersKeep

\* The clock is a time.
LEMMA NowFacts == LoopInv => now \in Times /\ now \in Nat /\ now <= now /\ Times \subseteq Nat
BY MadeFacts DEF LoopInv, LoopTypeOK

\* items_num is zero only when every handle in deque and heap is cancelled.
LEMMA NoItems ==
  ASSUME LoopInv, ItemsNum = 0
  PROVE  Queued \subseteq cancelled
<1> DEFINE A == {i \in DOMAIN ready : ready[i] \notin cancelled}
           B == {i \in DOMAIN heap : heap[i] \notin cancelled}
<1>1. /\ ready \in Seq(Nat) /\ heap \in Seq(Nat)
      /\ InReady = Values(ready) /\ InHeap = Values(heap)
      /\ DOMAIN ready = 1..Len(ready) /\ DOMAIN heap = 1..Len(heap)
      /\ Len(ready) \in Nat /\ Len(heap) \in Nat
  BY PlaceFacts DEF LoopInv
<1>2. IsFiniteSet(DOMAIN ready) /\ IsFiniteSet(DOMAIN heap)
  BY <1>1, FS_Interval
<1>3. A \in SUBSET DOMAIN ready /\ B \in SUBSET DOMAIN heap
  OBVIOUS
<1>4. Cardinality(A) + Cardinality(B) = 0
  BY DEF ItemsNum
<1> HIDE DEF A, B
<1>5. IsFiniteSet(A) /\ IsFiniteSet(B)
  BY <1>2, <1>3, FS_Subset
<1>6. Cardinality(A) \in Nat /\ Cardinality(B) \in Nat
  BY <1>5, FS_CardinalityType
<1>7. Cardinality(A) = 0 /\ Cardinality(B) = 0
  BY <1>4, <1>6
<1>8. A = {} /\ B = {}
  BY <1>5, <1>7, FS_EmptySet
<1>9. (\A i \in 1..Len(ready) : ready[i] \in cancelled) /\ (\A i \in 1..Len(heap) : heap[i] \in cancelled)
  BY <1>1, <1>8 DEF A, B
<1> QED
  BY <1>9 DEF Queued, Values

\* run_loop ends with nothing in flight and items_num() = 0: all was drained.
LEMMA StopStep == LoopInv /\ Stop => LoopInv'
<1> SUFFICES ASSUME LoopInv, Stop PROVE LoopInv'
  OBVIOUS
<1>1. /\ pc = "top" /\ pc' = "stopped" /\ batch = <<>> /\ running = Nothing /\ ItemsNum = 0
      /\ UNCHANGED <<schedVars, now, batch, events, until, inPoll, pipe, running,
                     invoked, run, caller, outside>>
  BY DEF Stop, LoopInv, Control
<1>2. /\ SchedInv' /\ Places' /\ Order'
      /\ ready' = ready /\ heap' = heap /\ when' = when /\ cancelled' = cancelled /\ Made' = Made
  BY <1>1, NowFacts, SchedAlone
<1>3. LoopTypeOK'
  BY <1>1, <1>2 DEF LoopInv, LoopTypeOK, SchedInv
<1>4. StopDrains'
  <2>1. Queued \subseteq cancelled
    BY <1>1, NoItems
  <2>2. Made \ (cancelled \cup invoked) \subseteq Queued
    BY <1>1, NoValues DEF LoopInv, Places
  <2> QED
    BY <1>1, <1>2, <2>1, <2>2 DEF StopDrains
<1>5. Control' /\ Waiting'
  BY <1>1 DEF Control, Waiting
<1> QED
  BY <1>2, <1>3, <1>4, <1>5 DEF LoopInv

\* The timeout of select: 0 with early callbacks, at most the time to the live root.
LEMMA ArmPollStep == LoopInv /\ ArmPoll => LoopInv'
<1> SUFFICES ASSUME LoopInv, ArmPoll PROVE LoopInv'
  OBVIOUS
<1>1. /\ pc = "popped" /\ pc' = "armed" /\ running = Nothing
      /\ until' = IF batch # <<>> THEN now
                  ELSE IF NextEvent # Soon /\ NextEvent < now THEN now ELSE NextEvent
      /\ UNCHANGED <<schedVars, now, batch, events, inPoll, pipe, running, invoked,
                     run, caller, outside>>
  BY DEF ArmPoll, LoopInv, Control
<1>2. /\ SchedInv' /\ Places' /\ Order'
      /\ ready' = ready /\ heap' = heap /\ when' = when /\ cancelled' = cancelled /\ Made' = Made
  BY <1>1, NowFacts, SchedAlone
<1>3. /\ now \in Times /\ now \in Nat /\ Times \subseteq Nat /\ Soon \notin Times
      /\ NextEvent \in Times \cup {Soon} /\ NextEventIfRootLive
      /\ InHeap = Values(heap)
  BY NowFacts, MadeFacts, InvNextEvent, PlaceFacts DEF LoopInv, SchedInv
<1>4. until' \in Times \cup {Soon}
  BY <1>1, <1>3
<1>5. LoopTypeOK'
  BY <1>1, <1>2, <1>4 DEF LoopInv, LoopTypeOK, SchedInv
<1>6. batch # <<>> => until' \in Times /\ until' <= now
  BY <1>1, <1>3
<1>7. ASSUME heap # <<>>, heap[1] \notin cancelled
      PROVE  /\ until' # Soon
             /\ until' <= now \/ \A h \in Values(heap) \ cancelled : until' <= when[h]
  <2>1. heap[1] \in InHeap
    <3>1. 1 \in 1..Len(heap)
      BY <1>7, PlaceFacts DEF LoopInv
    <3> QED
      BY <1>3, <3>1 DEF Values
  <2>2. NextEvent # Soon /\ \A h \in Values(heap) \ cancelled : NextEvent <= when[h]
    BY <1>3, <1>7, <2>1 DEF NextEventIfRootLive
  <2>3. until' = now \/ until' = NextEvent
    BY <1>1
  <2>4. CASE until' = now
    BY <1>3, <2>4
  <2>5. CASE until' = NextEvent
    BY <2>2, <2>5
  <2> QED
    BY <2>3, <2>4, <2>5
<1>8. Waiting'
  <2>1. Values(ready) \subseteq outside
    BY <1>1 DEF LoopInv, Waiting
  <2> QED
    BY <1>1, <1>2, <1>6, <1>7, <2>1 DEF Waiting
<1>9. Control' /\ StopDrains'
  BY <1>1 DEF Control, StopDrains
<1> QED
  BY <1>2, <1>5, <1>8, <1>9 DEF LoopInv

\* Entering select changes _selector_in_poll only.
LEMMA EnterPollStep == LoopInv /\ EnterPoll => LoopInv'
<1> SUFFICES ASSUME LoopInv, EnterPoll PROVE LoopInv'
  OBVIOUS
<1>1. /\ pc = "armed" /\ pc' = "poll" /\ running = Nothing /\ inPoll' = TRUE
      /\ UNCHANGED <<schedVars, now, batch, events, until, pipe, running, invoked,
                     run, caller, outside>>
  BY DEF EnterPoll, LoopInv, Control
<1>2. /\ SchedInv' /\ Places' /\ Order'
      /\ ready' = ready /\ heap' = heap /\ when' = when /\ cancelled' = cancelled /\ Made' = Made
  BY <1>1, NowFacts, SchedAlone
<1>3. LoopTypeOK'
  BY <1>1, <1>2 DEF LoopInv, LoopTypeOK, SchedInv
<1>4. Control' /\ StopDrains'
  BY <1>1 DEF Control, StopDrains
<1>5. Waiting'
  BY <1>1, <1>2 DEF LoopInv, Waiting
<1> QED
  BY <1>2, <1>3, <1>4, <1>5 DEF LoopInv

\* When select returns, end_at is the present.
LEMMA LeavePollStep ==
  ASSUME LoopInv, NEW socket \in BOOLEAN, LeavePoll(socket)
  PROVE  LoopInv'
<1>1. /\ pc = "poll" /\ pc' = "early" /\ running = Nothing /\ inPoll' = FALSE /\ until' = now
      /\ events' \subseteq {"pipe", "socket"}
      /\ UNCHANGED <<schedVars, now, batch, pipe, running, invoked, run, caller, outside>>
  BY DEF LeavePoll, LoopInv, Control
<1>2. /\ SchedInv' /\ Places' /\ Order'
      /\ ready' = ready /\ heap' = heap /\ when' = when /\ cancelled' = cancelled /\ Made' = Made
  BY <1>1, NowFacts, SchedAlone
<1>3. LoopTypeOK'
  BY <1>1, <1>2, NowFacts DEF LoopInv, LoopTypeOK, SchedInv
<1>4. Control' /\ StopDrains' /\ Waiting'
  BY <1>1, NowFacts DEF Control, StopDrains, Waiting
<1> QED
  BY <1>2, <1>3, <1>4 DEF LoopInv

\* The head of the batch is due, is live when it is invoked, and is not overtaken.
LEMMA HeadInOrder ==
  ASSUME LoopInv, pc \in {"early", "late"}, batch # <<>>
  PROVE  LET h == Head(batch)
         IN /\ h \notin invoked
            /\ when[h] = Soon \/ when[h] <= now
            /\ \A g \in Made \ (invoked \cup cancelled) : ~Precedes(g, h)
<1> DEFINE h == Head(batch)
           n == Len(batch)
<1>1. /\ LoopTypeOK /\ Places /\ Order /\ Made \subseteq Nat
      /\ batch \in Seq(Nat)
  BY BatchFacts, MadeFacts DEF LoopInv, SchedInv
<1>2. n \in Nat /\ n > 0 /\ h = batch[1] /\ h \in Values(batch)
  BY <1>1, TailFacts
<1> HIDE DEF h
<1>3. h \notin invoked /\ h \in Made /\ (when[h] = Soon \/ when[h] <= now)
  BY <1>1, <1>2 DEF Places, Order
<1>4. ASSUME NEW g \in Made \ (invoked \cup cancelled) PROVE ~Precedes(g, h)
  <2>1. g \in Queued \/ g \in Values(batch)
    BY <1>1 DEF Places
  <2>2. CASE g \in Queued
    BY <1>1, <1>2, <2>2 DEF Order
  <2>3. CASE g \in Values(batch)
    <3>1. PICK j \in 1..n : g = batch[j]
      BY <2>3 DEF Values
    <3>2. CASE j = 1
      <4>1. g = h /\ g \in Nat
        BY <1>1, <1>2, <3>1, <3>2
      <4> QED
        BY <4>1 DEF Precedes
    <3>3. CASE j # 1
      <4>1. 1 < j /\ 1 \in 1..n
        BY <1>2, <3>3
      <4> QED
        BY <1>1, <1>2, <3>1, <4>1 DEF Order
    <3> QED
      BY <3>2, <3>3
  <2> QED
    BY <2>1, <2>2, <2>3
<1> QED
  BY <1>3, <1>4 DEF h

\* A handle cancelled after it was popped leaves the batch without being invoked.
LEMMA SkipCancelledStep == LoopInv /\ SkipCancelled => LoopInv'
<1> SUFFICES ASSUME LoopInv, SkipCancelled PROVE LoopInv'
  OBVIOUS
<1>1. /\ pc \in {"early", "late"} /\ batch # <<>> /\ batch' = Tail(batch)
      /\ Head(batch) \in cancelled
      /\ UNCHANGED <<schedVars, now, pc, events, until, inPoll, pipe, running,
                     invoked, run, caller, outside>>
  BY DEF SkipCancelled
<1>2. SchedInv' /\ Places' /\ Order' /\ batch' \in Seq(Handles)
  BY <1>1, HeadLeaves
<1>3. /\ Made' = Made /\ ready' = ready /\ heap' = heap /\ when' = when
      /\ cancelled' = cancelled
  BY <1>1 DEF schedVars, Made
<1>4. LoopTypeOK'
  BY <1>1, <1>2, <1>3 DEF LoopInv, LoopTypeOK, SchedInv
<1>5. Control' /\ Waiting' /\ StopDrains'
  BY <1>1 DEF LoopInv, Control, Waiting, StopDrains
<1> QED
  BY <1>2, <1>4, <1>5 DEF LoopInv

\* The head of the batch leaves it as it is invoked.
LEMMA InvokeStep == LoopInv /\ Invoke => LoopInv'
<1> SUFFICES ASSUME LoopInv, Invoke PROVE LoopInv'
  OBVIOUS
<1>1. /\ pc \in {"early", "late"} /\ batch # <<>> /\ batch' = Tail(batch)
      /\ running' = Head(batch) /\ invoked' = invoked \cup {Head(batch)}
      /\ UNCHANGED <<schedVars, now, pc, events, until, inPoll, pipe, run, caller,
                     outside>>
  BY DEF Invoke
<1>2. SchedInv' /\ Places' /\ Order' /\ batch' \in Seq(Handles) /\ Head(batch) \in Handles
  BY <1>1, HeadLeaves
<1>3. /\ Made' = Made /\ ready' = ready /\ heap' = heap /\ when' = when
      /\ cancelled' = cancelled
  BY <1>1 DEF schedVars, Made
<1>4. LoopTypeOK'
  BY <1>1, <1>2, <1>3 DEF LoopInv, LoopTypeOK, SchedInv
<1>5. Control' /\ Waiting' /\ StopDrains'
  BY <1>1 DEF LoopInv, Control, Waiting, StopDrains
<1> QED
  BY <1>2, <1>4, <1>5 DEF LoopInv

\* The callbacks of select follow only when all early callbacks were invoked.
LEMMA EarlyDoneStep == LoopInv /\ EarlyDone => LoopInv'
<1> SUFFICES ASSUME LoopInv, EarlyDone PROVE LoopInv'
  OBVIOUS
<1>1. /\ pc = "early" /\ pc' = "io" /\ running = Nothing /\ batch = <<>>
      /\ UNCHANGED <<schedVars, now, batch, events, until, inPoll, pipe, running,
                     invoked, run, caller, outside>>
  BY DEF EarlyDone
<1>2. SchedInv' /\ Places' /\ Order'
  BY <1>1, NowFacts, SchedAlone
<1>3. LoopTypeOK'
  BY <1>1, <1>2 DEF LoopInv, LoopTypeOK, SchedInv, schedVars, Made
<1>4. Control' /\ Waiting' /\ StopDrains'
  BY <1>1 DEF LoopInv, Control, Waiting, StopDrains
<1> QED
  BY <1>2, <1>3, <1>4 DEF LoopInv

\* The self-pipe and the sockets do not touch the queues.
LEMMA InvokeIOStep ==
  ASSUME LoopInv, NEW e \in {"pipe", "socket"}, InvokeIO(e)
  PROVE  LoopInv'
<1>1. /\ pc = "io" /\ running = Nothing /\ running' \in {Nothing, IO} /\ pipe' \in BOOLEAN
      /\ events' \subseteq events
      /\ UNCHANGED <<schedVars, now, pc, batch, until, inPoll, invoked, run, caller,
                     outside>>
  BY DEF InvokeIO, OnReceiverInput, LoopInv, LoopTypeOK
<1>2. SchedInv' /\ Places' /\ Order'
  BY <1>1, NowFacts, SchedAlone
<1>3. LoopTypeOK'
  BY <1>1, <1>2 DEF LoopInv, LoopTypeOK, SchedInv, schedVars, Made
<1>4. Control' /\ Waiting' /\ StopDrains'
  BY <1>1 DEF LoopInv, Control, Waiting, StopDrains
<1> QED
  BY <1>2, <1>3, <1>4 DEF LoopInv

\* run_step ends when all late callbacks were invoked.
LEMMA LateDoneStep == LoopInv /\ LateDone => LoopInv'
<1> SUFFICES ASSUME LoopInv, LateDone PROVE LoopInv'
  OBVIOUS
<1>1. /\ pc = "late" /\ pc' = "top" /\ running = Nothing /\ batch = <<>> /\ until' = Soon
      /\ UNCHANGED <<schedVars, now, batch, events, inPoll, pipe, running, invoked,
                     run, caller, outside>>
  BY DEF LateDone
<1>2. SchedInv' /\ Places' /\ Order'
  BY <1>1, NowFacts, SchedAlone
<1>3. LoopTypeOK'
  BY <1>1, <1>2 DEF LoopInv, LoopTypeOK, SchedInv, schedVars, Made
<1>4. Control' /\ Waiting' /\ StopDrains'
  BY <1>1 DEF LoopInv, Control, Waiting, StopDrains
<1> QED
  BY <1>2, <1>3, <1>4 DEF LoopInv

-----------------------------------------------------------------------------
(* Every step keeps the invariant: callbacks, threads and time. *)

\* A callback returns.
LEMMA ReturnStep == LoopInv /\ Return => LoopInv'
<1> SUFFICES ASSUME LoopInv, Return PROVE LoopInv'
  OBVIOUS
<1>1. /\ running' = Nothing
      /\ UNCHANGED <<schedVars, now, pc, batch, events, until, inPoll, pipe, invoked,
                     run, caller, outside>>
  BY DEF Return
<1>2. SchedInv' /\ Places' /\ Order'
  BY <1>1, NowFacts, SchedAlone
<1>3. LoopTypeOK'
  BY <1>1, <1>2 DEF LoopInv, LoopTypeOK, SchedInv, schedVars, Made
<1>4. Control' /\ Waiting' /\ StopDrains'
  BY <1>1 DEF LoopInv, Control, Waiting, StopDrains, schedVars, Made
<1> QED
  BY <1>2, <1>3, <1>4 DEF LoopInv

\* A BaseException drops the batch: from then on handles may be lost, but none is doubled.
LEMMA CrashStep == LoopInv /\ Crash => LoopInv'
<1> SUFFICES ASSUME LoopInv, Crash PROVE LoopInv'
  OBVIOUS
<1>1. /\ running # Nothing /\ running' = Nothing /\ pc' = "crashed" /\ batch' = <<>> /\ events' = {}
      /\ pc \in {"early", "io", "late"}
      /\ UNCHANGED <<schedVars, now, until, inPoll, pipe, invoked, run, caller,
                     outside>>
  BY DEF Crash, LoopInv, Control
<1>2. /\ ready' = ready /\ heap' = heap /\ when' = when /\ cancelled' = cancelled
      /\ Made' = Made /\ Queued' = Queued /\ now' = now /\ invoked' = invoked
      /\ Values(batch') = {} /\ Len(batch') = 0 /\ 1..0 = {}
  BY <1>1, NoValues DEF schedVars, Made, Queued
<1>3. SchedInv'
  BY <1>2, QueuesKept DEF LoopInv, SchedInv, SchedTypeOK
<1>4. Places' /\ Order'
  <2>1. Places'
    BY <1>1, <1>2 DEF LoopInv, Places
  <2>2. Order'
    BY <1>2 DEF Order
  <2> QED
    BY <2>1, <2>2
<1>5. LoopTypeOK'
  <2>1. batch' \in Seq(Handles)
    BY <1>1
  <2> QED
    BY <1>1, <1>2, <1>3, <2>1 DEF LoopInv, LoopTypeOK, SchedInv
<1>6. Control' /\ Waiting' /\ StopDrains'
  BY <1>1 DEF Control, Waiting, StopDrains
<1> QED
  BY <1>3, <1>4, <1>5, <1>6 DEF LoopInv

\* call_soon and call_later, from the callback that is running.
LEMMA CallStep ==
  ASSUME LoopInv, running # Nothing, NEW w \in Times \cup {Soon}, Enqueue(w),
         UNCHANGED loopVars
  PROVE  LoopInv'
<1>1. /\ pc \in {"early", "io", "late"}
      /\ UNCHANGED <<now, pc, batch, events, until, inPoll, pipe, running, invoked,
                     run, caller, outside>>
  BY DEF LoopInv, Control, loopVars
<1>2. SchedInv' /\ Places' /\ Order' /\ Made \subseteq Made'
  BY <1>1, EnqueueKeeps
<1>3. LoopTypeOK'
  BY <1>1, <1>2 DEF LoopInv, LoopTypeOK, SchedInv
<1>4. Control' /\ Waiting' /\ StopDrains'
  BY <1>1 DEF LoopInv, Control, Waiting, StopDrains
<1> QED
  BY <1>2, <1>3, <1>4 DEF LoopInv

\* Cancelling leaves the handle in its place.
LEMMA CancelStep ==
  ASSUME LoopInv, NEW h \in Handles, Cancel(h)
  PROVE  LoopInv'
<1>1. /\ pc \in {"early", "io", "late"} /\ h \in Made /\ cancelled' = cancelled \cup {h}
      /\ UNCHANGED <<ready, heap, when>>
      /\ UNCHANGED <<now, pc, batch, events, until, inPoll, pipe, running, invoked,
                     run, caller, outside>>
  BY DEF Cancel, CancelHandle, LoopInv, Control, loopVars
<1>2. cancelled \subseteq cancelled' /\ cancelled' \subseteq Made
  BY <1>1 DEF LoopInv, SchedInv, SchedTypeOK
<1>3. SchedInv' /\ Places' /\ Order'
  BY <1>1, <1>2, NowFacts, OthersKeep
<1>4. LoopTypeOK'
  BY <1>1, <1>3 DEF LoopInv, LoopTypeOK, SchedInv, Made
<1>5. Control' /\ Waiting' /\ StopDrains'
  BY <1>1 DEF LoopInv, Control, Waiting, StopDrains
<1> QED
  BY <1>3, <1>4, <1>5 DEF LoopInv

\* stop_loop clears _run only.
LEMMA StopLoopStep == LoopInv /\ StopLoop => LoopInv'
<1> SUFFICES ASSUME LoopInv, StopLoop PROVE LoopInv'
  OBVIOUS
<1>1. /\ run' = FALSE
      /\ UNCHANGED <<schedVars, now, pc, batch, events, until, inPoll, pipe, running,
                     invoked, caller, outside>>
  BY DEF StopLoop
<1>2. SchedInv' /\ Places' /\ Order'
  BY <1>1, NowFacts, SchedAlone
<1>3. LoopTypeOK'
  BY <1>1, <1>2 DEF LoopInv, LoopTypeOK, SchedInv, schedVars, Made
<1>4. Control' /\ Waiting' /\ StopDrains'
  BY <1>1 DEF LoopInv, Control, Waiting, StopDrains, schedVars, Made
<1> QED
  BY <1>2, <1>3, <1>4 DEF LoopInv

\* A call from outside enqueues wherever the loop is, also after it has stopped.
LEMMA ThreadEnqueueStep ==
  ASSUME LoopInv, NEW t \in Threads, ThreadEnqueue(t)
  PROVE  LoopInv'
<1>1. /\ Enqueue(Soon) /\ Soon \in Times \cup {Soon}
      /\ caller' = [caller EXCEPT ![t] = "enqueued"]
      /\ outside' = outside \cup (Made' \ Made)
      /\ UNCHANGED <<now, pc, batch, events, until, inPoll, pipe, running, invoked, run>>
  BY DEF ThreadEnqueue
<1>2. /\ SchedInv' /\ Places' /\ Order' /\ cancelled' = cancelled
      /\ \E h \in Handles :
           /\ Made' = Made \cup {h} /\ h \notin Made
           /\ \A g \in Made : when'[g] = when[g]
           /\ Soon = Soon => heap' = heap /\ Values(ready') = Values(ready) \cup {h}
           /\ Soon # Soon => Values(ready') = Values(ready)
  BY <1>1, EnqueueKeeps
<1>3. PICK h \in Handles :
        /\ Made' = Made \cup {h} /\ h \notin Made
        /\ \A g \in Made : when'[g] = when[g]
        /\ heap' = heap /\ Values(ready') = Values(ready) \cup {h}
  BY <1>2
<1>4. outside' = outside \cup {h}
  BY <1>1, <1>3
<1>5. LoopTypeOK'
  <2>1. caller' \in [Threads -> {"idle", "enqueued", "done"}]
    BY <1>1 DEF LoopInv, LoopTypeOK
  <2>2. outside' \subseteq Made'
    BY <1>3, <1>4 DEF LoopInv, LoopTypeOK
  <2> QED
    BY <1>1, <1>2, <2>1, <2>2 DEF LoopInv, LoopTypeOK, SchedInv
<1>6. Control'
  BY <1>1 DEF LoopInv, Control
<1>7. Waiting'
  <2>1. Values(heap) \subseteq Made
    BY PlaceFacts DEF LoopInv
  <2>2. \A g \in Values(heap') \ cancelled' : g \in Values(heap) \ cancelled /\ when'[g] = when[g]
    BY <1>2, <1>3, <2>1
  <2>3. pc \in {"popped", "armed", "poll"} => Values(ready') \subseteq outside'
    BY <1>3, <1>4 DEF LoopInv, Waiting
  <2>4. pc \in {"armed", "poll"} /\ heap' # <<>> /\ heap'[1] \notin cancelled' =>
          /\ until # Soon
          /\ until <= now \/ \A g \in Values(heap') \ cancelled' : until <= when'[g]
    BY <1>2, <1>3, <2>2 DEF LoopInv, Waiting
  <2> QED
    BY <1>1, <2>3, <2>4 DEF LoopInv, Waiting
<1>8. StopDrains'
  BY <1>1, <1>2, <1>3, <1>4 DEF LoopInv, StopDrains
<1> QED
  BY <1>2, <1>5, <1>6, <1>7, <1>8 DEF LoopInv

\* The second half of call_soon_thread_safe writes at most to the self-pipe.
LEMMA ThreadWakeupStep ==
  ASSUME LoopInv, NEW t \in Threads, ThreadWakeup(t)
  PROVE  LoopInv'
<1>1. /\ pipe' \in BOOLEAN
      /\ caller' = [caller EXCEPT ![t] = "done"]
      /\ UNCHANGED <<schedVars, now, pc, batch, events, until, inPoll, running,
                     invoked, run, outside>>
  BY DEF ThreadWakeup, Wakeup, LoopInv, LoopTypeOK
<1>2. SchedInv' /\ Places' /\ Order'
  BY <1>1, NowFacts, SchedAlone
<1>3. caller' \in [Threads -> {"idle", "enqueued", "done"}]
  BY <1>1 DEF LoopInv, LoopTypeOK
<1>4. LoopTypeOK'
  BY <1>1, <1>2, <1>3 DEF LoopInv, LoopTypeOK, SchedInv, schedVars, Made
<1>5. Control' /\ Waiting' /\ StopDrains'
  BY <1>1 DEF LoopInv, Control, Waiting, StopDrains, schedVars, Made
<1> QED
  BY <1>2, <1>4, <1>5 DEF LoopInv

\* Time passes only in select and in callbacks, and what was due stays due.
LEMMA TickStep == LoopInv /\ Tick => LoopInv'
<1> SUFFICES ASSUME LoopInv, Tick PROVE LoopInv'
  OBVIOUS
<1>1. /\ now < MaxTime /\ now' = now + 1
      /\ UNCHANGED <<schedVars, pc, batch, events, until, inPoll, pipe, running,
                     invoked, run, caller, outside>>
  BY DEF Tick
<1>2. now \in Nat /\ now' \in Times /\ now <= now' /\ Times \subseteq Nat
  BY <1>1, NowFacts, SchedulerAssumption DEF Times
<1>3. SchedInv' /\ Places' /\ Order'
  BY <1>1, <1>2, SchedAlone
<1>4. LoopTypeOK'
  BY <1>1, <1>2, <1>3 DEF LoopInv, LoopTypeOK, SchedInv, schedVars, Made
<1>5. until \in Times /\ until <= now => until <= now'
  BY <1>1, <1>2
<1>6. Control' /\ StopDrains'
  BY <1>1, <1>5 DEF LoopInv, Control, StopDrains, schedVars, Made
<1>7. Waiting'
  <2>1. until # Soon /\ until <= now => until <= now'
    BY <1>5 DEF LoopInv, LoopTypeOK
  <2>2. ready' = ready /\ heap' = heap /\ when' = when /\ cancelled' = cancelled
    BY <1>1 DEF schedVars
  <2> QED
    BY <1>1, <1>5, <2>1, <2>2 DEF LoopInv, Waiting
<1> QED
  BY <1>3, <1>4, <1>6, <1>7 DEF LoopInv

-----------------------------------------------------------------------------
(* The theorems. *)

\* The loop starts with the root task's first step in the deque.
LEMMA InitInv == Init => LoopInv
<1> SUFFICES ASSUME Init PROVE LoopInv
  OBVIOUS
<1>1. /\ ready = <<1>> /\ heap = <<>> /\ when = [h \in {1} |-> Soon] /\ cancelled = {}
      /\ now = 0 /\ pc = "top" /\ batch = <<>> /\ events = {} /\ until = Soon
      /\ inPoll = FALSE /\ pipe = FALSE /\ running = Nothing /\ invoked = {} /\ run = TRUE
      /\ caller = [t \in Threads |-> "idle"] /\ outside = {}
  BY DEF Init
<1>2. /\ 1 \in Handles /\ 1 \in 0..MaxHandle /\ 0 \in Times /\ 1..1 = {1}
  BY SchedulerAssumption, EventLoopAssumption DEF Handles, Times
<1>3. Made = {1} /\ when \in [1..1 -> Times \cup {Soon}] /\ when[1] = Soon
  BY <1>1, <1>2 DEF Made
<1>4. /\ ready \in Seq(Handles) /\ Len(ready) = 1 /\ ready[1] = 1
      /\ heap \in Seq(Handles) /\ heap \in Seq(Nat) /\ batch \in Seq(Handles)
  BY <1>1, <1>2
<1>5. Values(ready) = {1} /\ Values(heap) = {} /\ Values(batch) = {} /\ Len(heap) = 0 /\ Len(batch) = 0
  BY <1>1, <1>2, <1>4, NoValues DEF Values
<1>6. SchedTypeOK
  BY <1>1, <1>2, <1>3, <1>4 DEF SchedTypeOK
<1>7. HeapInv
  <2>1. <<>> \in [1..0 -> Nat] /\ 1..0 = {} /\ 2..0 = {}
    OBVIOUS
  <2>2. Heap(heap)
    BY <1>1, <1>4, <1>5, <2>1 DEF Heap, Entries, IsHeap
  <2> QED
    BY <1>5, <2>2 DEF HeapInv
<1>8. ReadyInv
  BY <1>2, <1>3, <1>4, <1>5 DEF ReadyInv
<1>9. LoopTypeOK
  BY <1>1, <1>2, <1>4, <1>6 DEF LoopTypeOK
<1>10. Places /\ Order
  <2>1. 1..0 = {}
    OBVIOUS
  <2> QED
    BY <1>1, <1>3, <1>5, <2>1 DEF Places, Order, Queued
<1>11. Control /\ Waiting /\ StopDrains
  BY <1>1 DEF Control, Waiting, StopDrains
<1> QED
  BY <1>6, <1>7, <1>8, <1>9, <1>10, <1>11 DEF LoopInv, SchedInv

\* No step of the loop, of a callback, of a thread or of the clock breaks it.
THEOREM LoopInductive == Spec => []LoopInv
<1>1. LoopInv /\ [Next]_vars => LoopInv'
  <2> SUFFICES ASSUME LoopInv, [Next]_vars PROVE LoopInv'
    OBVIOUS
  <2>1. CASE LoopStep
    <3>1. ASSUME NEW e \in {"pipe", "socket"}, InvokeIO(e) PROVE LoopInv'
      BY <3>1, InvokeIOStep
    <3>2. CASE LeavePoll(FALSE)
      BY <3>2, LeavePollStep
    <3> QED
      BY <2>1, <3>1, <3>2, PopEarlyStep, StopStep, ArmPollStep, EnterPollStep,
         SkipCancelledStep, InvokeStep, EarlyDoneStep, PopLateStep, LateDoneStep
         DEF LoopStep
  <2>2. CASE Sockets /\ LeavePoll(TRUE)
    BY <2>2, LeavePollStep
  <2>3. CASE Callback
    <3>1. CASE CallSoon
      BY <3>1, CallStep DEF CallSoon
    <3>2. ASSUME NEW delay \in 1..MaxTime, CallLater(delay) PROVE LoopInv'
      BY <3>2, CallStep DEF CallLater
    <3>3. ASSUME NEW h \in Handles, Cancel(h) PROVE LoopInv'
      BY <3>3, CancelStep
    <3> QED
      BY <2>3, <3>1, <3>2, <3>3, StopLoopStep DEF Callback
  <2>4. ASSUME NEW t \in Threads, ThreadEnqueue(t) \/ ThreadWakeup(t) PROVE LoopInv'
    BY <2>4, ThreadEnqueueStep, ThreadWakeupStep
  <2>5. CASE UNCHANGED vars
    <3>1. /\ UNCHANGED schedVars
          /\ UNCHANGED <<now, pc, batch, events, until, inPoll, pipe, running, invoked,
                         run, caller, outside>>
      BY <2>5 DEF vars, loopVars
    <3>2. SchedInv' /\ Places' /\ Order'
      BY <3>1, NowFacts, SchedAlone
    <3>3. LoopTypeOK'
      BY <3>1, <3>2 DEF LoopInv, LoopTypeOK, SchedInv, schedVars, Made
    <3>4. Control' /\ Waiting' /\ StopDrains'
      BY <3>1 DEF LoopInv, Control, Waiting, StopDrains, schedVars, Made
    <3> QED
      BY <3>2, <3>3, <3>4 DEF LoopInv
  <2> QED
    BY <2>1, <2>2, <2>3, <2>4, <2>5, ReturnStep, CrashStep, TickStep DEF Next
<1> QED
  BY <1>1, InitInv, PTL DEF Spec

\* Every variable of run_step keeps its type, and _selector_in_poll is set exactly
\* while select is called.
THEOREM LoopTypeCorrect == Spec => []LoopTypeOK
<1>1. LoopInv => LoopTypeOK
  BY DEF LoopInv
<1> QED
  BY <1>1, LoopInductive, PTL

\* What the scheduler promises holds of the loop's own scheduler, which starts with
\* the root task's first step in its deque: run_step's two calls of pop_pending
\* return what is due, and select's timeout comes from next_event.
THEOREM SchedulerInTheLoop == Spec => [](PopsTheDue /\ NextEventIfRootLive)
<1>1. LoopInv => PopsTheDue /\ NextEventIfRootLive
  BY InvPops, InvNextEvent DEF LoopInv
<1> QED
  BY <1>1, LoopInductive, PTL

\* No handle is lost or doubled on its way through deque, heap and the local lists
\* of run_step.
THEOREM NothingLostOrDoubled == Spec => []EachHandleInOnePlace
<1>1. LoopInv => EachHandleInOnePlace
  <2> SUFFICES ASSUME LoopInv PROVE EachHandleInOnePlace
    OBVIOUS
  <2>1. /\ ready \in Seq(Nat) /\ heap \in Seq(Nat)
        /\ InReady = Values(ready) /\ InHeap = Values(heap)
        /\ InReady \cap InHeap = {}
        /\ \A i, j \in 1..Len(ready) : ready[i] = ready[j] => i = j
        /\ \A i, j \in 1..Len(heap) : heap[i] = heap[j] => i = j
    BY PlaceFacts DEF LoopInv
  <2>2. batch \in Seq(Nat) /\ InBatch = Values(batch)
    BY BatchFacts DEF LoopInv
  <2>3. Places
    BY DEF LoopInv
  <2>4. /\ Cardinality(InReady) = Len(ready) /\ Cardinality(InHeap) = Len(heap)
        /\ Cardinality(InBatch) = Len(batch)
    <3>1. \A i, j \in 1..Len(batch) : batch[i] = batch[j] => i = j
      BY <2>3 DEF Places
    <3> QED
      BY <2>1, <2>2, <3>1, CountDistinct
  <2>5. /\ \A h \in Made \ cancelled :
             h \notin invoked /\ pc # "crashed" => h \in InReady \cup InHeap \cup InBatch
        /\ \A h \in invoked : h \notin InReady \cup InHeap \cup InBatch
        /\ InReady \cap InBatch = {} /\ InHeap \cap InBatch = {}
    BY <2>1, <2>2, <2>3 DEF Places, Queued
  <2> QED
    BY <2>1, <2>4, <2>5 DEF EachHandleInOnePlace
<1> QED
  BY <1>1, LoopInductive, PTL

\* select blocks only when there is nothing to invoke: no popped handle, no handle
\* of the loop's own thread, no live timer before its time while the root is live.
THEOREM SleepsOnlyWhenIdle == Spec => []NoSleepOnWork
<1>1. LoopInv => NoSleepOnWork
  <2> SUFFICES ASSUME LoopInv, Asleep
               PROVE  /\ batch = <<>>
                      /\ InReady \subseteq cancelled \cup outside
                      /\ heap # <<>> /\ heap[1] \notin cancelled =>
                           \A h \in InHeap \ cancelled : until # Soon /\ until <= when[h]
    BY DEF NoSleepOnWork
  <2>1. pc = "poll" /\ (until = Soon \/ until > now)
    BY DEF Asleep
  <2>2. /\ now \in Nat /\ until \in Times \cup {Soon} /\ Times \subseteq Nat /\ Soon \notin Times
        /\ InReady = Values(ready) /\ InHeap = Values(heap)
    BY NowFacts, MadeFacts, PlaceFacts DEF LoopInv, SchedInv, LoopTypeOK
  <2>3. ~(until \in Times /\ until <= now)
    BY <2>1, <2>2
  <2>4. batch = <<>>
    BY <2>1, <2>3 DEF LoopInv, Waiting
  <2>5. InReady \subseteq cancelled \cup outside
    BY <2>1, <2>2 DEF LoopInv, Waiting
  <2>6. ASSUME heap # <<>>, heap[1] \notin cancelled, NEW h \in InHeap \ cancelled
        PROVE  until # Soon /\ until <= when[h]
    <3>1. /\ until # Soon
          /\ until <= now \/ \A g \in Values(heap) \ cancelled : until <= when[g]
      BY <2>1, <2>6 DEF LoopInv, Waiting
    <3>2. ~(until <= now)
      BY <2>2, <2>3, <3>1
    <3> QED
      BY <2>2, <3>1, <3>2
  <2> QED
    BY <2>4, <2>5, <2>6
<1> QED
  BY <1>1, LoopInductive, PTL

\* run_loop ends only when every handle of its own thread was invoked or cancelled.
THEOREM StopsDrained == Spec => []StopDrains
<1>1. LoopInv => StopDrains
  BY DEF LoopInv
<1> QED
  BY <1>1, LoopInductive, PTL

\* Handles are invoked when they are due, never after they were cancelled, and
\* never before a live handle that was enqueued earlier and was to run no later.
THEOREM InvocationsInOrder == Spec => InvokedInOrder
<1> DEFINE A == \A h \in invoked' \ invoked :
                  /\ h \notin cancelled
                  /\ when[h] = Soon \/ when[h] <= now
                  /\ \A g \in Made \ (invoked \cup cancelled) : ~Precedes(g, h)
<1>1. LoopInv /\ [Next]_vars => A
  <2> SUFFICES ASSUME LoopInv, [Next]_vars PROVE A
    OBVIOUS
  <2>1. CASE Invoke
    <3>1. /\ pc \in {"early", "late"} /\ batch # <<>> /\ Head(batch) \notin cancelled
          /\ \A h \in invoked' \ invoked : h = Head(batch)
      BY <2>1 DEF Invoke
    <3> QED
      BY <3>1, HeadInOrder
  <2>2. CASE ~Invoke
    <3>1. invoked' = invoked
      BY <2>2 DEF Next, LoopStep, Callback, vars, loopVars, PopEarly, Stop, ArmPoll,
         EnterPoll, LeavePoll, SkipCancelled, EarlyDone, PopLate, LateDone, InvokeIO,
         Return, Crash, CallSoon, CallLater, Cancel, StopLoop, ThreadEnqueue,
         ThreadWakeup, Tick
    <3> QED
      BY <3>1
  <2> QED
    BY <2>1, <2>2
<1>2. LoopInv /\ [Next]_vars => [A]_vars
  BY <1>1
<1> QED
  BY <1>2, LoopInductive, PTL DEF Spec, InvokedInOrder
=============================================================================
