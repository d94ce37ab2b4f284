------------------------------- MODULE Channel -------------------------------
(***************************************************************************)
(* The queue behind aio.channel.create, src/aio/channel.py.                *)
(*                                                                         *)
(* get and put first try get_no_wait and put_no_wait; if the queue is      *)
(* empty, or full, they leave a promise in a deque of waiters and suspend. *)
(* Between the moment a promise is finished - by the other side, by close  *)
(* or by a cancellation of the waiting task - and the moment its task is   *)
(* resumed, anybody else may run, and the waiter may still be in its deque.*)
(***************************************************************************)
EXTENDS Naturals, Sequences, SequencesExt

CONSTANTS Users,      \* the tasks that use the channel
          MaxElems,   \* bound: how many elements are ever put
          Capacity,   \* max_capacity, or Unbounded
          Unbounded,  \* max_capacity=None
          Prefill     \* the number of prepopulated elements

ASSUME ChannelAssumption ==
  /\ MaxElems \in Nat /\ Prefill \in 0..MaxElems
  /\ Unbounded \notin Nat /\ Capacity \in Nat \cup {Unbounded}

Elems == 1..MaxElems   \* numbered in the order in which their put is called

VARIABLES container,  \* the deque _container
          readers,    \* _read_waiters_q: users, each has one promise at most
          writers,    \* _write_waiters_q: users, the element is elem[user]
          closed,     \* _closed
          op,         \* [Users -> "idle" | "get" | "put"]: where it suspends
          promise,    \* [Users -> state of its waiter's promise]
          elem,       \* [Users -> element]: being put, or received by promise
          thrown,     \* [Users -> BOOLEAN]: a Cancelled is on its way by throw
          made,       \* how many elements there are
          received,   \* the elements that a get has returned
          refused,    \* the elements whose put raised without placing them
          dropped,    \* the elements handed to a get that was cancelled
          raised      \* what the last call raised

vars == <<container, readers, writers, closed, op, promise, elem, thrown, made,
          received, refused, dropped, raised>>

NoElem == 0

Bounded == Capacity # Unbounded

\* Faulty variants (names with a double underscore) stand before the operator
\* they spoil; the README says which property each one breaks.

\* Fault: one element too many.
Full__OffByOne == Bounded /\ Len(container) > Capacity

Full    == Bounded /\ Len(container) >= Capacity

\* Types; a user has a promise exactly while it is inside of get or put, and only
\* elements that exist have met their fate.
TypeOK ==
  /\ container \in Seq(Elems)
  /\ readers \in Seq(Users) /\ writers \in Seq(Users)
  /\ closed \in BOOLEAN
  /\ op \in [Users -> {"idle", "get", "put"}]
  /\ promise \in [Users -> {"none", "pending", "set", "closed", "cancelled"}]
  /\ \A u \in Users : op[u] = "idle" <=> promise[u] = "none"
  /\ elem \in [Users -> Elems \cup {NoElem}]
  /\ thrown \in [Users -> BOOLEAN]
  /\ made \in 0..MaxElems
  /\ received \cup refused \cup dropped \subseteq 1..made
  /\ raised \in {"none", "Closed", "EmptyError", "OverflowedError",
                 "FutureFinishedError", "AssertionError", "Cancelled"}

Init ==
  /\ container = [i \in 1..Prefill |-> i]
  /\ readers = <<>> /\ writers = <<>>
  /\ closed = FALSE
  /\ op = [u \in Users |-> "idle"]
  /\ promise = [u \in Users |-> "none"]
  /\ elem = [u \in Users |-> NoElem]
  /\ thrown = [u \in Users |-> FALSE]
  /\ made = Prefill
  /\ received = {} /\ refused = {} /\ dropped = {}
  /\ raised = "none"

\* deque.remove; a user is there once at most, or has been taken out before.
Without(queue, u) ==
  IF u \in ToSet(queue)
    THEN RemoveAt(queue, CHOOSE i \in DOMAIN queue : queue[i] = u) ELSE queue

\* The call changes nothing but what it raises.
Fails(error) ==
  /\ raised' = error
  /\ UNCHANGED <<container, readers, writers, closed, op, promise, elem, thrown,
                 made, received, refused, dropped>>

\* Fault: a waiting put does not leave its element with its promise.
Suspend__ForgetsElem(u, kind, e) ==
  /\ op' = [op EXCEPT ![u] = kind]
  /\ promise' = [promise EXCEPT ![u] = "pending"]
  /\ elem' = [elem EXCEPT ![u] = NoElem]
  /\ raised' = "none"

\* Fault: the task suspends on a promise that nobody made.
Suspend__NoPromise(u, kind, e) ==
  /\ op' = [op EXCEPT ![u] = kind]
  /\ elem' = [elem EXCEPT ![u] = e]
  /\ raised' = "none"
  /\ UNCHANGED promise

\* The task suspends on a new promise at the end of a deque.
Suspend(u, kind, e) ==
  /\ op' = [op EXCEPT ![u] = kind]
  /\ promise' = [promise EXCEPT ![u] = "pending"]
  /\ elem' = [elem EXCEPT ![u] = e]
  /\ raised' = "none"

-----------------------------------------------------------------------------
(* The reading side. *)

\* get_no_wait of a container that is not empty: the oldest element; a waiting
\* writer's element takes the place that becomes free.
TakeElem ==
  /\ container # <<>>
  /\ IF readers # <<>> \/ (writers # <<>> /\ Bounded /\ Len(container) # Capacity)
       THEN Fails("AssertionError")
     ELSE IF writers # <<>> /\ Bounded /\ promise[Head(writers)] # "pending"
       THEN /\ writers' = Tail(writers)      \* popleft, then set_result raises
            /\ raised' = "FutureFinishedError"
            /\ UNCHANGED <<container, readers, closed, op, promise, elem, thrown,
                           made, received, refused, dropped>>
     ELSE /\ IF writers # <<>> /\ Bounded
               THEN /\ writers' = Tail(writers)
                    /\ promise' = [promise EXCEPT ![Head(writers)] = "set"]
                    /\ container' = Append(Tail(container), elem[Head(writers)])
               ELSE /\ container' = Tail(container)
                    /\ UNCHANGED <<writers, promise>>
          /\ received' = received \cup {Head(container)}
          /\ raised' = "none"
          /\ UNCHANGED <<readers, closed, op, elem, thrown, made, refused, dropped>>

GetNoWait(u) ==
  /\ op[u] = "idle"
  /\ \/ TakeElem
     \/ container = <<>> /\ Fails(IF closed THEN "Closed" ELSE "EmptyError")

Get(u) ==
  /\ op[u] = "idle"
  /\ \/ TakeElem
     \/ container = <<>> /\ closed /\ Fails("Closed")
     \/ /\ container = <<>> /\ ~closed
        /\ readers' = Append(readers, u)
        /\ Suspend(u, "get", NoElem)
        /\ UNCHANGED <<container, writers, closed, thrown, made, received,
                       refused, dropped>>

-----------------------------------------------------------------------------
(* The writing side. *)

NewElem == made + 1

\* put_no_wait, where it does not raise OverflowedError.
PlaceElem ==
  \/ /\ closed
     /\ raised' = "Closed"
     /\ refused' = refused \cup {NewElem}
     /\ UNCHANGED <<container, readers, promise, elem>>
  \/ /\ ~closed /\ Full /\ readers # <<>>
     /\ raised' = "AssertionError"
     /\ refused' = refused \cup {NewElem}
     /\ UNCHANGED <<container, readers, promise, elem>>
  \/ /\ ~closed /\ ~Full /\ readers # <<>> /\ container # <<>>
     /\ raised' = "AssertionError"
     /\ refused' = refused \cup {NewElem}
     /\ UNCHANGED <<container, readers, promise, elem>>
  \/ /\ ~closed /\ ~Full /\ readers # <<>> /\ container = <<>>
     /\ readers' = Tail(readers)
     /\ IF promise[Head(readers)] = "pending"
          THEN /\ promise' = [promise EXCEPT ![Head(readers)] = "set"]
               /\ elem' = [elem EXCEPT ![Head(readers)] = NewElem]
               /\ raised' = "none"
               /\ UNCHANGED refused
          ELSE /\ raised' = "FutureFinishedError"
               /\ refused' = refused \cup {NewElem}
               /\ UNCHANGED <<promise, elem>>
     /\ UNCHANGED container
  \/ /\ ~closed /\ ~Full /\ readers = <<>>
     /\ container' = Append(container, NewElem)
     /\ raised' = "none"
     /\ UNCHANGED <<readers, promise, elem, refused>>

Placing ==
  /\ made < MaxElems
  /\ made' = NewElem
  /\ PlaceElem
  /\ UNCHANGED <<writers, closed, op, thrown, received, dropped>>

Overflows == ~closed /\ Full /\ readers = <<>>

PutNoWait(u) ==
  /\ op[u] = "idle"
  /\ Placing \/ (Overflows /\ Fails("OverflowedError"))

\* Fault: appendleft in place of append.
Put__Front(u) ==
  /\ op[u] = "idle"
  /\ \/ Placing
     \/ /\ Overflows /\ made < MaxElems
        /\ made' = NewElem
        /\ writers' = <<u>> \o writers
        /\ Suspend(u, "put", NewElem)
        /\ UNCHANGED <<container, readers, closed, thrown, received, refused,
                       dropped>>

Put(u) ==
  /\ op[u] = "idle"
  /\ \/ Placing
     \/ /\ Overflows /\ made < MaxElems
        /\ made' = NewElem
        /\ writers' = Append(writers, u)
        /\ Suspend(u, "put", NewElem)
        /\ UNCHANGED <<container, readers, closed, thrown, received, refused,
                       dropped>>

-----------------------------------------------------------------------------
(* Close, cancellation, and the resumption of a waiting task. *)

\* Fault: waiting gets are not told.
Close__WritersOnly ==
  /\ closed' = TRUE
  /\ promise' = [u \in Users |->
       IF promise[u] = "pending" /\ u \in ToSet(writers) THEN "closed" ELSE promise[u]]
  /\ raised' = "none"
  /\ UNCHANGED <<container, readers, writers, op, elem, thrown, made, received,
                 refused, dropped>>

\* Every waiter still pending is failed; the deques are left as they are.
Close ==
  /\ closed' = TRUE
  /\ promise' = [u \in Users |->
       IF promise[u] = "pending" /\ (u \in ToSet(readers) \/ u \in ToSet(writers))
         THEN "closed" ELSE promise[u]]
  /\ raised' = "none"
  /\ UNCHANGED <<container, readers, writers, op, elem, thrown, made, received,
                 refused, dropped>>

\* The waiting task is cancelled: a pending promise is cancelled; if it has
\* finished already, Cancelled is thrown at the await instead (Task._cancel).
CancelWaiting(u) ==
  /\ op[u] # "idle" /\ ~thrown[u]
  /\ IF promise[u] = "pending"
       THEN promise' = [promise EXCEPT ![u] = "cancelled"] /\ UNCHANGED thrown
       ELSE thrown' = [thrown EXCEPT ![u] = TRUE] /\ UNCHANGED promise
  /\ raised' = "none"
  /\ UNCHANGED <<container, readers, writers, closed, op, elem, made, received,
                 refused, dropped>>

\* The await returns or raises, and `finally` takes the waiter out of its deque.
Resume(u) ==
  /\ op[u] # "idle" /\ promise[u] # "pending"
  /\ readers' = Without(readers, u)
  /\ writers' = Without(writers, u)
  /\ received' = IF op[u] = "get" /\ promise[u] = "set" /\ ~thrown[u]
                   THEN received \cup {elem[u]} ELSE received
  /\ dropped'  = IF op[u] = "get" /\ promise[u] = "set" /\ thrown[u]
                   THEN dropped \cup {elem[u]} ELSE dropped
  /\ refused'  = IF op[u] = "put" /\ promise[u] # "set"
                   THEN refused \cup {elem[u]} ELSE refused
  /\ raised' = IF thrown[u] \/ promise[u] = "cancelled" THEN "Cancelled"
               ELSE IF promise[u] = "closed" THEN "Closed" ELSE "none"
  /\ op' = [op EXCEPT ![u] = "idle"]
  /\ promise' = [promise EXCEPT ![u] = "none"]
  /\ elem' = [elem EXCEPT ![u] = NoElem]
  /\ thrown' = [thrown EXCEPT ![u] = FALSE]
  /\ UNCHANGED <<container, closed, made>>

Next ==
  \/ \E u \in Users : \/ GetNoWait(u) \/ Get(u) \/ PutNoWait(u) \/ Put(u)
                      \/ CancelWaiting(u) \/ Resume(u)
  \/ Close

Spec == Init /\ [][Next]_vars

-----------------------------------------------------------------------------
(* Properties. *)

\* Elements that were handed to a get that has not been resumed yet.
InFlight == {elem[u] : u \in {v \in Users : op[v] = "get" /\ promise[v] = "set"}}

\* Elements of a put that still waits, or has to be told that it failed.
Offered == {elem[u] : u \in {v \in Users : op[v] = "put" /\ promise[v] # "set"}}

InContainer == ToSet(container)

\* Every element is in exactly one place: offered, in the container, in flight,
\* received, refused to its putter, or dropped with the get that was cancelled
\* after it had been handed over (channel.py:94-104).  In particular none is ever
\* received twice, and a put has not left its element behind when it raised Closed
\* or was cancelled while its promise was pending.  A put that is cancelled later,
\* after its element was taken, raises Cancelled although the element is in the
\* channel or was received (:140): Cancelled alone does not tell the putter.
ElementsConserved ==
  LET places == <<Offered, InContainer, InFlight, received, refused, dropped>>
  IN /\ \A e \in 1..made : \E i \in 1..6 : e \in places[i]
     /\ \A i, j \in 1..6 : i # j => places[i] \cap places[j] = {}
     /\ IsInjective(container)

\* Nobody waits in vain: a get is pending only while the container is empty, a
\* put only while it is full, neither once the channel is closed, and whoever
\* is pending is still in its deque, where the other side finds it.
NoMissedHandoff ==
  \A u \in Users : promise[u] = "pending" =>
    /\ ~closed
    /\ op[u] = "get" => container = <<>> /\ u \in ToSet(readers)
    /\ op[u] = "put" => Full /\ u \in ToSet(writers)

\* Elements are handed out in the order in which they were put, whether through
\* the container, by a direct hand-over or from a waiting writer.
HandedOut == received \cup InFlight \cup dropped

HandedOutInOrder ==
  [][\A e \in HandedOut' \ HandedOut : \A d \in HandedOut : d < e]_vars

\* The assertions of get_no_wait and put_no_wait hold (channel.py:77,80,114,119).
AssertionsHold == raised # "AssertionError"
=============================================================================
