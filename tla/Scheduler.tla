------------------------------ MODULE Scheduler ------------------------------
(***************************************************************************)
(* The loop's scheduler, src/aio/loop/pure/scheduler.py: a deque of the    *)
(* handles to run soon and a binary heap (heapq) of the timed ones.        *)
(*                                                                         *)
(* A cancelled handle stays where it is until it is popped, and is then    *)
(* dropped; next_event looks through the heap's array for a live one.      *)
(***************************************************************************)
EXTENDS Naturals, Sequences, FiniteSets

CONSTANTS MaxHandle,    \* bound: how many handles are ever made
          MaxTime,      \* bound: the last instant of the clock
          Soon          \* Handle.when is None

ASSUME SchedulerAssumption ==
  MaxHandle \in Nat /\ MaxTime \in Nat /\ Soon \notin Nat

Handles == 1..MaxHandle   \* in the order in which they are enqueued
Times   == 0..MaxTime

VARIABLES ready,        \* the deque _min_priority
          heap,         \* the array _prioritized, position 1 is its root
          when,         \* [1..number of handles made -> Times \cup {Soon}]
          cancelled     \* the handles whose `cancelled` flag is set

schedVars == <<ready, heap, when, cancelled>>

Made == DOMAIN when

\* Types; only handles that were made can be cancelled.
SchedTypeOK ==
  /\ ready \in Seq(Handles)
  /\ heap \in Seq(Handles)
  /\ \E n \in 0..MaxHandle : when \in [1..n -> Times \cup {Soon}]
  /\ cancelled \subseteq Made

\* Entries of the heap are compared by (when, _ids_generator).
Earlier(time, h, g) == time[h] < time[g] \/ (time[h] = time[g] /\ h < g)

Before(h, g) == Earlier(when, h, g)

-----------------------------------------------------------------------------
(* heapq, over positions 1, 2, ...: the parent of i is i \div 2. *)

Children(hp, i) == {2 * i, 2 * i + 1} \cap DOMAIN hp

\* At position i: x, or the parent of i if x precedes that, and x is above.
Rise(hp, x, time) ==
  LET rise[i \in DOMAIN hp] ==
        IF i > 1 /\ Earlier(time, x, hp[i \div 2])
          THEN [rise[i \div 2] EXCEPT ![i] = hp[i \div 2]]
          ELSE [hp EXCEPT ![i] = x]
  IN rise

\* heappush: the new last element changes places with the parents it precedes.
Push(hp, x, time) == Rise(Append(hp, x), x, time)[Len(hp) + 1]

LeastChild(hp, i) ==
  CHOOSE c \in Children(hp, i) : \A d \in Children(hp, i) : ~Before(hp[d], hp[c])

\* At position i: x, or the least child of i if it precedes x, and x is below.
Sink(hp, x) ==
  LET sink[i \in DOMAIN hp] ==
        IF Children(hp, i) # {} /\ Before(hp[LeastChild(hp, i)], x)
          THEN [sink[LeastChild(hp, i)] EXCEPT ![i] = hp[LeastChild(hp, i)]]
          ELSE [hp EXCEPT ![i] = x]
  IN sink

\* heappop: the last element fills the root and sinks below smaller children.
PopRoot(hp) ==
  LET rest == SubSeq(hp, 1, Len(hp) - 1)
  IN IF rest = <<>> THEN <<>> ELSE Sink(rest, hp[Len(hp)])[1]

-----------------------------------------------------------------------------
(* PriorityQueue and Scheduler. *)

\* _pop_prioritized_low: the heap after k pops, and the number it makes.
HeapAfter(k) ==
  LET after[n \in 0..Len(heap)] ==
        IF n = 0 THEN heap ELSE PopRoot(after[n - 1])
  IN after[k]

\* Faulty variants (names with a double underscore) stand before the operator
\* they spoil; the README says which property each one breaks.

\* Fault: a timer that is due exactly now is left behind.
DueCount__Strict(threshold) ==
  CHOOSE k \in 0..Len(heap) :
    /\ k = Len(heap) \/ when[HeapAfter(k)[1]] >= threshold
    /\ \A j \in 0..(k - 1) : when[HeapAfter(j)[1]] < threshold

DueCount(threshold) ==
  CHOOSE k \in 0..Len(heap) :
    /\ k = Len(heap) \/ when[HeapAfter(k)[1]] > threshold
    /\ \A j \in 0..(k - 1) : when[HeapAfter(j)[1]] <= threshold

\* The handles of s that were not cancelled, in their order.
LiveOf(s) ==
  LET kept[i \in 0..Len(s)] ==
        IF i = 0 THEN <<>>
        ELSE IF s[i] \in cancelled THEN kept[i - 1] ELSE Append(kept[i - 1], s[i])
  IN kept[Len(s)]

\* What pop_pending returns: the deque, then the due timers, the live ones.
Pending(threshold) ==
  LiveOf(ready \o [i \in 1..DueCount(threshold) |-> HeapAfter(i - 1)[1]])

PopPending(threshold) ==
  /\ ready' = <<>>
  /\ heap' = HeapAfter(DueCount(threshold))
  /\ UNCHANGED <<when, cancelled>>

\* Fault: append in place of heappush.
Enqueue__Appends(w) ==
  LET h == Cardinality(Made) + 1
  IN /\ h \in Handles
     /\ when' = [g \in Made \cup {h} |-> IF g = h THEN w ELSE when[g]]
     /\ IF w = Soon
          THEN ready' = Append(ready, h) /\ UNCHANGED heap
          ELSE heap' = Append(heap, h) /\ UNCHANGED ready
     /\ UNCHANGED cancelled

\* A new handle, and enqueue.
Enqueue(w) ==
  LET h == Cardinality(Made) + 1
      made == [g \in Made \cup {h} |-> IF g = h THEN w ELSE when[g]]
  IN /\ h \in Handles
     /\ when' = made
     /\ IF w = Soon
          THEN ready' = Append(ready, h) /\ UNCHANGED heap
          ELSE heap' = Push(heap, h, made) /\ UNCHANGED ready
     /\ UNCHANGED cancelled

\* Fault: handles that do not exist yet can be cancelled.
CancelHandle__Any(h) ==
  /\ cancelled' = cancelled \cup {h}
  /\ UNCHANGED <<ready, heap, when>>

\* Handle.cancel.
CancelHandle(h) ==
  /\ h \in Made
  /\ cancelled' = cancelled \cup {h}
  /\ UNCHANGED <<ready, heap, when>>

\* Fault: the root's time, whether it is cancelled or not.
NextEvent__Root == IF heap = <<>> THEN Soon ELSE when[heap[1]]

\* next_event: the first live entry of the array, not the least.
NextEvent ==
  LET alive == {i \in DOMAIN heap : heap[i] \notin cancelled}
  IN IF alive = {} THEN Soon
     ELSE when[heap[CHOOSE i \in alive : \A j \in alive : i <= j]]

\* Fault: cancelled handles are counted.
ItemsNum__All == Len(ready) + Len(heap)

ItemsNum ==
  Cardinality({i \in DOMAIN ready : ready[i] \notin cancelled})
    + Cardinality({i \in DOMAIN heap : heap[i] \notin cancelled})

-----------------------------------------------------------------------------
SchedInit ==
  /\ ready = <<>>
  /\ heap = <<>>
  /\ when = <<>>
  /\ cancelled = {}

SchedNext ==
  \/ \E w \in Times \cup {Soon} : Enqueue(w)
  \/ \E h \in Handles : CancelHandle(h)
  \/ \E now \in Times : PopPending(now)

SchedSpec == SchedInit /\ [][SchedNext]_schedVars

-----------------------------------------------------------------------------
(* Properties. *)

InReady == {ready[i] : i \in DOMAIN ready}
InHeap  == {heap[i] : i \in DOMAIN heap}

\* What a pop_pending(now) would return in this state is exactly the live soon
\* handles, in the order of call_soon, followed by the live due timers, in the
\* order of their times and, for equal times, of their creation; what stays
\* behind is the rest of the heap.
PopsTheDue ==
  \A now \in Times :
    LET popped == Pending(now)
        soon   == LiveOf(ready)
        due    == {h \in InHeap : when[h] <= now}
        rest   == HeapAfter(DueCount(now))
        front  == Len(soon)
    IN /\ SubSeq(popped, 1, front) = soon
       /\ Len(popped) = front + Cardinality(due \ cancelled)
       /\ {popped[i] : i \in (front + 1)..Len(popped)} = due \ cancelled
       /\ \A i \in (front + 1)..Len(popped), j \in (front + 1)..Len(popped) :
            i < j => Before(popped[i], popped[j])
       /\ {rest[i] : i \in DOMAIN rest} = InHeap \ due
       /\ Len(rest) = Cardinality(InHeap \ due)

\* next_event is exact as long as the root of the heap is live, and never
\* earlier than a live timer nor absent while there is one.
NextEventIfRootLive ==
  LET alive == InHeap \ cancelled
  IN /\ NextEvent = Soon <=> alive = {}
     /\ alive # {} => \E h \in alive : when[h] = NextEvent
     /\ heap # <<>> /\ heap[1] \notin cancelled =>
          \A h \in alive : NextEvent <= when[h]

\* "acts like asyncio" (impl.py:96): the loop waits for the earliest live timer.
NextEventIsEarliest ==
  \A h \in InHeap \ cancelled : NextEvent <= when[h]
=============================================================================
