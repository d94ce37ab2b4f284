------------------------------ MODULE EventLoop ------------------------------
(***************************************************************************)
(* The event loop and its runner, src/aio/loop/pure/impl.py, over the      *)
(* scheduler of Scheduler.tla and the self-pipe of networking.py.          *)
(*                                                                         *)
(* run_step is cut where another thread, or a signal handler, can get in:  *)
(* after pop_pending, after next_event, and while select blocks.  A thread *)
(* that calls call_soon_thread_safe first enqueues the handle and then     *)
(* looks at _selector_in_poll.  Callbacks run one at a time on the loop's  *)
(* thread and may call back into the loop.                                 *)
(*                                                                         *)
(* Time is a bounded counter.  It advances while select blocks and while a *)
(* callback runs; the clock's resolution is below its unit.                *)
(***************************************************************************)
EXTENDS Scheduler

CONSTANTS Threads,      \* other threads (or signal handlers), one call each
          Sockets,      \* BOOLEAN: whether sockets are watched
          Crashes       \* BOOLEAN: whether a callback may raise BaseException

\* There is room for the handle of the root task's first step.
ASSUME EventLoopAssumption ==
  Sockets \in BOOLEAN /\ Crashes \in BOOLEAN /\ MaxHandle > 0

VARIABLES now,      \* the clock
          pc,       \* where run_step is
          batch,    \* what is left of early_callbacks or late_callbacks
          events,   \* what select returned: SUBSET {"pipe", "socket"}
          until,    \* when select gives up (Soon: never); later: end_at
          inPoll,   \* _selector_in_poll
          pipe,     \* whether the self-pipe holds bytes
          running,  \* the handle being invoked, IO or Nothing
          invoked,  \* the handles whose callback was called
          run,      \* BaseLoopRunner._run
          caller,   \* [Threads -> {"idle", "enqueued", "done"}]
          outside   \* the handles that threads enqueued

loopVars == <<now, pc, batch, events, until, inPoll, pipe, running, invoked,
              run, caller, outside>>
vars == <<schedVars, loopVars>>

Nothing == 0
IO      == MaxHandle + 1

\* Types; _selector_in_poll is set exactly while select is called.
LoopTypeOK ==
  /\ SchedTypeOK
  /\ now \in Times
  /\ pc \in {"top", "popped", "armed", "poll", "early", "io", "late",
             "stopped", "crashed"}
  /\ batch \in Seq(Handles)
  /\ events \subseteq {"pipe", "socket"}
  /\ until \in Times \cup {Soon}
  /\ inPoll \in BOOLEAN
  /\ pipe \in BOOLEAN
  /\ running \in Handles \cup {Nothing, IO}
  /\ invoked \subseteq Handles
  /\ run \in BOOLEAN
  /\ caller \in [Threads -> {"idle", "enqueued", "done"}]
  /\ outside \subseteq Made
  /\ inPoll <=> pc = "poll"

\* The root task's first step is enqueued before run_loop is called (entry.py).
Init ==
  /\ ready = <<1>>
  /\ heap = <<>>
  /\ when = [h \in {1} |-> Soon]
  /\ cancelled = {}
  /\ now = 0
  /\ pc = "top"
  /\ batch = <<>>
  /\ events = {}
  /\ until = Soon
  /\ inPoll = FALSE
  /\ pipe = FALSE
  /\ running = Nothing
  /\ invoked = {}
  /\ run = TRUE
  /\ caller = [t \in Threads |-> "idle"]
  /\ outside = {}

-----------------------------------------------------------------------------
(* BaseEventLoop.run_step and BaseLoopRunner.run_loop. *)

\* `while self._run or items_num()`: another step, or LoopStopped.
PopEarly ==
  /\ pc = "top"
  /\ run \/ ItemsNum > 0
  /\ batch' = Pending(now)
  /\ PopPending(now)
  /\ pc' = "popped"
  /\ UNCHANGED <<now, events, until, inPoll, pipe, running, invoked, run, caller,
                 outside>>

\* Faulty variants (names with a double underscore) stand before the operator
\* they spoil; the README says which property each one breaks.

\* Fault: the loop ends as soon as it is told to.
Stop__AtOnce ==
  /\ pc = "top"
  /\ ~run
  /\ pc' = "stopped"
  /\ UNCHANGED <<schedVars, now, batch, events, until, inPoll, pipe, running,
                 invoked, run, caller, outside>>

Stop ==
  /\ pc = "top"
  /\ ~run /\ ItemsNum = 0
  /\ pc' = "stopped"
  /\ UNCHANGED <<schedVars, now, batch, events, until, inPoll, pipe, running,
                 invoked, run, caller, outside>>

\* Fault: popped callbacks do not keep the loop from waiting.
ArmPoll__IgnoresEarly ==
  /\ pc = "popped"
  /\ until' = IF NextEvent # Soon /\ NextEvent < now THEN now ELSE NextEvent
  /\ pc' = "armed"
  /\ UNCHANGED <<schedVars, now, batch, events, inPoll, pipe, running, invoked,
                 run, caller, outside>>

\* Fault: timers do not limit the wait.
ArmPoll__IgnoresTimers ==
  /\ pc = "popped"
  /\ until' = IF batch # <<>> THEN now ELSE Soon
  /\ pc' = "armed"
  /\ UNCHANGED <<schedVars, now, batch, events, inPoll, pipe, running, invoked,
                 run, caller, outside>>

\* wait_events: 0 with early callbacks, None without any timer, else the time
\* to the next event, not below 0.
ArmPoll ==
  /\ pc = "popped"
  /\ until' = IF batch # <<>> THEN now
              ELSE IF NextEvent # Soon /\ NextEvent < now THEN now
              ELSE NextEvent
  /\ pc' = "armed"
  /\ UNCHANGED <<schedVars, now, batch, events, inPoll, pipe, running, invoked,
                 run, caller, outside>>

EnterPoll ==
  /\ pc = "armed"
  /\ inPoll' = TRUE
  /\ pc' = "poll"
  /\ UNCHANGED <<schedVars, now, batch, events, until, pipe, running, invoked,
                 run, caller, outside>>

\* Fault: without the `finally` that resets _selector_in_poll.
LeavePoll__StaysInPoll(socket) ==
  /\ pc = "poll"
  /\ pipe \/ socket \/ (until # Soon /\ until <= now)
  /\ events' = (IF pipe THEN {"pipe"} ELSE {}) \cup (IF socket THEN {"socket"} ELSE {})
  /\ until' = now
  /\ pc' = "early"
  /\ UNCHANGED <<schedVars, now, batch, inPoll, pipe, running, invoked, run,
                 caller, outside>>

\* select returns on bytes in the pipe, on a socket, or when its time is up.
\* Its results and end_at are fixed before any callback runs.
LeavePoll(socket) ==
  /\ pc = "poll"
  /\ pipe \/ socket \/ (until # Soon /\ until <= now)
  /\ events' = (IF pipe THEN {"pipe"} ELSE {}) \cup (IF socket THEN {"socket"} ELSE {})
  /\ until' = now
  /\ inPoll' = FALSE
  /\ pc' = "early"
  /\ UNCHANGED <<schedVars, now, batch, pipe, running, invoked, run, caller,
                 outside>>

\* _invoke_handle: a handle cancelled since it was popped is skipped.
SkipCancelled ==
  /\ pc \in {"early", "late"} /\ running = Nothing /\ batch # <<>>
  /\ Head(batch) \in cancelled
  /\ batch' = Tail(batch)
  /\ UNCHANGED <<schedVars, now, pc, events, until, inPoll, pipe, running,
                 invoked, run, caller, outside>>

\* Fault: cancellation is looked at only when handles are popped.
Invoke__Cancelled ==
  /\ pc \in {"early", "late"} /\ running = Nothing /\ batch # <<>>
  /\ batch' = Tail(batch)
  /\ running' = Head(batch)
  /\ invoked' = invoked \cup {Head(batch)}
  /\ UNCHANGED <<schedVars, now, pc, events, until, inPoll, pipe, run, caller,
                 outside>>

Invoke ==
  /\ pc \in {"early", "late"} /\ running = Nothing /\ batch # <<>>
  /\ Head(batch) \notin cancelled
  /\ batch' = Tail(batch)
  /\ running' = Head(batch)
  /\ invoked' = invoked \cup {Head(batch)}
  /\ UNCHANGED <<schedVars, now, pc, events, until, inPoll, pipe, run, caller,
                 outside>>

\* Fault: events are looked after before all early callbacks were invoked.
EarlyDone__LeavesBatch ==
  /\ pc = "early" /\ running = Nothing
  /\ pc' = "io"
  /\ UNCHANGED <<schedVars, now, batch, events, until, inPoll, pipe, running,
                 invoked, run, caller, outside>>

\* The early callbacks are done; those of select's events follow.
EarlyDone ==
  /\ pc = "early" /\ running = Nothing /\ batch = <<>>
  /\ pc' = "io"
  /\ UNCHANGED <<schedVars, now, batch, events, until, inPoll, pipe, running,
                 invoked, run, caller, outside>>

\* The self-pipe's callback empties it; an error of select is logged only.
OnReceiverInput == pipe' = FALSE

\* A socket's callback is the program's.
InvokeIO(e) ==
  /\ pc = "io" /\ running = Nothing
  /\ e \in events
  /\ events' = events \ {e}
  /\ IF e = "pipe" THEN OnReceiverInput /\ UNCHANGED running
                   ELSE running' = IO /\ UNCHANGED pipe
  /\ UNCHANGED <<schedVars, now, pc, batch, until, inPoll, invoked, run, caller,
                 outside>>

PopLate ==
  /\ pc = "io" /\ running = Nothing /\ events = {}
  /\ batch' = Pending(until)
  /\ PopPending(until)
  /\ pc' = "late"
  /\ UNCHANGED <<now, events, until, inPoll, pipe, running, invoked, run, caller,
                 outside>>

LateDone ==
  /\ pc = "late" /\ running = Nothing /\ batch = <<>>
  /\ pc' = "top"
  /\ until' = Soon
  /\ UNCHANGED <<schedVars, now, batch, events, inPoll, pipe, running, invoked,
                 run, caller, outside>>

\* The callback returns, or raises an Exception, which is reported only.
Return ==
  /\ running # Nothing
  /\ running' = Nothing
  /\ UNCHANGED <<schedVars, now, pc, batch, events, until, inPoll, pipe, invoked,
                 run, caller, outside>>

\* Any other BaseException leaves run_step, with it the callbacks still to be
\* invoked, and run_loop.
Crash ==
  /\ Crashes
  /\ running # Nothing
  /\ running' = Nothing
  /\ pc' = "crashed"
  /\ batch' = <<>>
  /\ events' = {}
  /\ UNCHANGED <<schedVars, now, until, inPoll, pipe, invoked, run, caller,
                 outside>>

-----------------------------------------------------------------------------
(* Calls of the callback that is running. *)

\* call_soon and call_later; call_later(0) is call_soon.  The loop's thread is
\* not in select, so _wakeup_selector_if_in_poll does nothing.
CallSoon ==
  /\ running # Nothing
  /\ Enqueue(Soon)
  /\ UNCHANGED loopVars

CallLater(delay) ==
  /\ running # Nothing
  /\ now + delay \in Times
  /\ Enqueue(now + delay)
  /\ UNCHANGED loopVars

Cancel(h) ==
  /\ running # Nothing
  /\ CancelHandle(h)
  /\ UNCHANGED loopVars

StopLoop ==
  /\ running # Nothing
  /\ run' = FALSE
  /\ UNCHANGED <<schedVars, now, pc, batch, events, until, inPoll, pipe, running,
                 invoked, caller, outside>>

-----------------------------------------------------------------------------
(* call_soon_thread_safe of another thread: enqueue, then wake up if in poll. *)

ThreadEnqueue(t) ==
  /\ caller[t] = "idle"
  /\ Enqueue(Soon)
  /\ caller' = [caller EXCEPT ![t] = "enqueued"]
  /\ outside' = outside \cup (Made' \ Made)
  /\ UNCHANGED <<now, pc, batch, events, until, inPoll, pipe, running, invoked,
                 run>>

\* One byte more for the self-pipe; a failure to write is logged only.
Wakeup == pipe' = TRUE

ThreadWakeup(t) ==
  /\ caller[t] = "enqueued"
  /\ IF inPoll THEN Wakeup ELSE UNCHANGED pipe
  /\ caller' = [caller EXCEPT ![t] = "done"]
  /\ UNCHANGED <<schedVars, now, pc, batch, events, until, inPoll, running,
                 invoked, run, outside>>

\* Clock.now later gives another instant.
Tick ==
  /\ pc = "poll" \/ running # Nothing
  /\ now < MaxTime
  /\ now' = now + 1
  /\ UNCHANGED <<schedVars, pc, batch, events, until, inPoll, pipe, running,
                 invoked, run, caller, outside>>

-----------------------------------------------------------------------------
LoopStep ==
  \/ PopEarly \/ Stop \/ ArmPoll \/ EnterPoll \/ LeavePoll(FALSE)
  \/ SkipCancelled \/ Invoke \/ EarlyDone \/ PopLate \/ LateDone
  \/ \E e \in {"pipe", "socket"} : InvokeIO(e)

Callback ==
  \/ CallSoon \/ StopLoop
  \/ \E delay \in 1..MaxTime : CallLater(delay)
  \/ \E h \in Handles : Cancel(h)

Next ==
  \/ LoopStep
  \/ Sockets /\ LeavePoll(TRUE)
  \/ Return \/ Crash \/ Callback
  \/ \E t \in Threads : ThreadEnqueue(t) \/ ThreadWakeup(t)
  \/ Tick

Spec == Init /\ [][Next]_vars

\* The loop's thread runs, a callback returns, a thread that has begun a call
\* completes it, and time passes however often select is interrupted.  Nothing
\* makes a socket ready.
Fairness ==
  /\ WF_vars(LoopStep)
  /\ WF_vars(Return)
  /\ SF_vars(Tick /\ pc = "poll")
  /\ \A t \in Threads : WF_vars(ThreadWakeup(t))

FairSpec == Spec /\ Fairness

-----------------------------------------------------------------------------
(* Properties. *)

InBatch == {batch[i] : i \in DOMAIN batch}

\* No handle is lost or doubled on its way through deque, heap and the local
\* lists of run_step: until it is invoked or cancelled it is in exactly one of
\* them, and once invoked in none.
EachHandleInOnePlace ==
  /\ \A h \in Made \ cancelled :
       h \notin invoked /\ pc # "crashed" => h \in InReady \cup InHeap \cup InBatch
  /\ \A h \in invoked : h \notin InReady \cup InHeap \cup InBatch
  /\ InReady \cap InHeap = {} /\ InReady \cap InBatch = {}
  /\ InHeap \cap InBatch = {}
  /\ Cardinality(InReady) + Cardinality(InHeap) + Cardinality(InBatch)
       = Len(ready) + Len(heap) + Len(batch)

\* select blocks: nothing is due, and nobody has written to the self-pipe.
Asleep == pc = "poll" /\ ~pipe /\ (until = Soon \/ until > now)

\* The loop never blocks while there is something it could invoke: not with
\* popped callbacks in hand, not with a handle of its own thread in the deque,
\* and not past a live timer unless the root of the heap is cancelled (see
\* Scheduler).
NoSleepOnWork ==
  Asleep =>
    /\ batch = <<>>
    /\ InReady \subseteq cancelled \cup outside
    /\ heap # <<>> /\ heap[1] \notin cancelled =>
         \A h \in InHeap \ cancelled : until # Soon /\ until <= when[h]

\* "Cancel will schedule loop callback, and this should wakeup loop selector"
\* (entry.py:34): once a call from outside has returned, the loop does not sleep
\* on the handle it enqueued.
CallWakesLoop ==
  Asleep /\ (\A t \in Threads : caller[t] # "enqueued") => InReady \subseteq cancelled

\* g was enqueued first and is not due later than h.
Precedes(g, h) ==
  g < h /\ (when[g] = Soon \/ (when[h] # Soon /\ when[g] <= when[h]))

\* A handle is invoked only when it is due, never after it was cancelled - also
\* when that happened after it was popped - and never before a live handle that
\* was enqueued earlier and was to run no later: early callbacks, I/O and late
\* callbacks do not overtake each other.
InvokedInOrder ==
  [][\A h \in invoked' \ invoked :
       /\ h \notin cancelled
       /\ when[h] = Soon \/ when[h] <= now
       /\ \A g \in Made \ (invoked \cup cancelled) : ~Precedes(g, h)]_vars

\* run_loop ends only when every handle of the loop's thread was invoked or
\* cancelled: `items_num` is looked at when nothing is in flight.
StopDrains == pc = "stopped" => Made \ outside \subseteq invoked \cup cancelled

\* Every handle enqueued from the loop's own thread is invoked or cancelled,
\* and timers are, late or not, even behind a cancelled root.
EveryCallRuns ==
  \A h \in Handles : h \in Made \ outside ~> (h \in invoked \cup cancelled \/ pc = "crashed")

\* After stop_loop the runner gets to its end, however far or cancelled the timers
\* that are left.  It does because only so many handles are made (MaxHandle): the
\* runner drains what callbacks go on to enqueue, and one that always enqueues
\* another keeps it from ending.
StopEnds == ~run ~> pc \in {"stopped", "crashed"}
=============================================================================
