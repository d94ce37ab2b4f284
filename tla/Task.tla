-------------------------------- MODULE Task --------------------------------
(***************************************************************************)
(* Futures, promises and tasks of src/aio/future/pure.py.                  *)
(*                                                                         *)
(* A promise's future is finished by its owner; a task is a future that    *)
(* drives a coroutine: `_step` sends into the coroutine, the coroutine     *)
(* yields the future it waits for, and `_step` is registered as a callback *)
(* of that future.  A finished future hands each of its callbacks to the   *)
(* loop with call_soon, and keeps the handles so that remove_callback can  *)
(* still take one back.                                                    *)
(*                                                                         *)
(* One action is one synchronous call of the code.  Between the start of a *)
(* step and its end (cur = t) the coroutine runs, and may itself make any  *)
(* of the calls; with cur = None they come from loop callbacks.  The order *)
(* in which the loop invokes ready handles is left open here (EventLoop    *)
(* models it); handles that were cancelled are simply gone, as             *)
(* BaseEventLoop._invoke_handle skips them.                                *)
(***************************************************************************)
EXTENDS Naturals, FiniteSets

CONSTANTS Tasks,        \* task identities; each is created at most once
          Promises,     \* futures that are controlled by a FuturePromise
          Callbacks,    \* callables that are not a task's `_step`
          Misuse,       \* tasks whose coroutine may yield what it must not
          Fatal,        \* tasks whose coroutine may raise e.g. SystemExit
          None,         \* no task / no future
          Dead          \* the value of cur after the loop was torn down

ASSUME TaskAssumption ==
  /\ IsFiniteSet(Tasks)
  /\ Tasks \cap Promises = {}
  /\ Tasks \cap Callbacks = {}
  /\ Misuse \subseteq Tasks
  /\ Fatal \subseteq Tasks
  /\ None \notin Tasks \cup Promises
  /\ Dead \notin Tasks \cup {None}

VARIABLES
  st,         \* [Tasks -> state names]: which of the _TaskState classes
  coro,       \* [Tasks -> coroutine states], inspect.getcoroutinestate
  waitingOn,  \* [Tasks -> Futures \cup {None}]: _RunningState.waiting_on
  outcome,    \* [Futures -> outcome]: pending, or the final state object
  callbacks,  \* [Futures -> SUBSET Cbs]: _PendingState.result_callbacks
  queued,     \* live handles of scheduled_cbs: {<<cb, future>>}
  soon,       \* [Tasks -> Nat]: live handles of call_soon(self._step, None)
  executed,   \* callbacks the loop has invoked: {<<cb, future>>}
  cur,        \* the task whose coroutine is running, None or Dead
  raised      \* what the last call raised

vars == <<st, coro, waitingOn, outcome, callbacks, queued, soon, executed,
          cur, raised>>

Futures == Tasks \cup Promises
Cbs     == Tasks \cup Callbacks        \* a task stands for its own `_step`

\* A value and an exception are the same here, nothing below tells them apart.
Outcomes == {"result", "cancelled"}
Errors   == {"FutureFinishedError", "Cancelled", "AlreadyCancelling",
             "RecursionError", "AssertionError", "ResumeFinished",
             "ResumedEarly", "BadYield"}

\* Types; a task names an awaited future exactly while it is in _RunningState.
TypeOK ==
  /\ st \in [Tasks -> {"absent", "scheduled", "running", "cancelling",
                       "finished"}]
  /\ coro \in [Tasks -> {"created", "running", "suspended", "closed"}]
  /\ waitingOn \in [Tasks -> Futures \cup {None}]
  /\ \A t \in Tasks : st[t] = "running" <=> waitingOn[t] # None
  /\ outcome \in [Futures -> Outcomes \cup {"pending"}]
  /\ callbacks \in [Futures -> SUBSET Cbs]
  /\ queued \subseteq Cbs \X Futures
  /\ soon \in [Tasks -> Nat]
  /\ executed \subseteq Cbs \X Futures
  /\ cur \in Tasks \cup {None, Dead}
  /\ raised \in Errors \cup {"none"}

Init ==
  /\ st = [t \in Tasks |-> "absent"]
  /\ coro = [t \in Tasks |-> "created"]
  /\ waitingOn = [t \in Tasks |-> None]
  /\ outcome = [f \in Futures |-> "pending"]
  /\ callbacks = [f \in Futures |-> {}]
  /\ queued = {}
  /\ soon = [t \in Tasks |-> 0]
  /\ executed = {}
  /\ cur = None
  /\ raised = "none"

-----------------------------------------------------------------------------
(* Building blocks. *)

Alive     == cur # Dead
Finished(f) == outcome[f] # "pending"
Exists(f) == f \in Promises \/ (f \in Tasks /\ st[f] # "absent")

\* A call that fails without having changed anything.
Fails(error) ==
  /\ raised' = error
  /\ UNCHANGED <<st, coro, waitingOn, outcome, callbacks, queued, soon,
                 executed, cur>>

\* Faulty variants (names with a double underscore) stand before the operator
\* they spoil; the README says which property each one breaks.

\* Fault: callbacks are forgotten when the outcome is set.
SetOutcome__Forgets(f, o) ==
  /\ outcome' = [outcome EXCEPT ![f] = o]
  /\ callbacks' = [callbacks EXCEPT ![f] = {}]
  /\ UNCHANGED queued

\* Future._set_result: callbacks go to the loop, then the state is replaced.
SetOutcome(f, o) ==
  /\ outcome' = [outcome EXCEPT ![f] = o]
  /\ queued' = queued \cup (callbacks[f] \X {f})
  /\ callbacks' = [callbacks EXCEPT ![f] = {}]

\* Fault: the handle is dropped from scheduled_cbs but not cancelled.
Unhook__KeepsHandle(cb, f) ==
  /\ callbacks' = [callbacks EXCEPT ![f] = @ \ {cb}]
  /\ UNCHANGED queued

\* Future.remove_callback, in both of its branches.
Unhook(cb, f) ==
  IF Finished(f)
    THEN /\ queued' = queued \ {<<cb, f>>}
         /\ UNCHANGED callbacks
    ELSE /\ callbacks' = [callbacks EXCEPT ![f] = @ \ {cb}]
         /\ UNCHANGED queued

\* The `finally` of Task._step.
LeaveAwaited(t) ==
  IF st[t] = "running" THEN Unhook(t, waitingOn[t])
                       ELSE UNCHANGED <<queued, callbacks>>

-----------------------------------------------------------------------------
(* Calls made by coroutines and callbacks. *)

\* create_task: the task is built and its first step scheduled in one call.
CreateTask(t) ==
  /\ Alive
  /\ st[t] = "absent"
  /\ st' = [st EXCEPT ![t] = "scheduled"]
  /\ soon' = [soon EXCEPT ![t] = @ + 1]
  /\ raised' = "none"
  /\ UNCHANGED <<coro, waitingOn, outcome, callbacks, queued, executed, cur>>

\* FuturePromise.set_result; set_exception is the same call with an exception, and
\* refuses a Cancelled with TypeError before it changes anything (see Executor).
SetResult(p) ==
  /\ Alive
  /\ IF Finished(p)
       THEN Fails("FutureFinishedError")
       ELSE /\ SetOutcome(p, "result")
            /\ raised' = "none"
            /\ UNCHANGED <<st, coro, waitingOn, soon, executed, cur>>

AddCallback(cb, f) ==
  /\ Alive
  /\ Exists(f)
  /\ IF Finished(f)
       THEN Fails("FutureFinishedError")
       ELSE /\ callbacks' = [callbacks EXCEPT ![f] = @ \cup {cb}]
            /\ raised' = "none"
            /\ UNCHANGED <<st, coro, waitingOn, outcome, queued, soon,
                           executed, cur>>

RemoveCallback(cb, f) ==
  /\ Alive
  /\ Exists(f)
  /\ Unhook(cb, f)
  /\ raised' = "none"
  /\ UNCHANGED <<st, coro, waitingOn, outcome, soon, executed, cur>>

-----------------------------------------------------------------------------
(* Cancellation. *)

\* Task._cancel of a suspended task whose awaited future is pending is a call
\* of cancel_future on that future.
PassesOn(f) ==
  /\ f \in Tasks
  /\ st[f] = "running"
  /\ coro[f] # "running"
  /\ ~Finished(waitingOn[f])

\* Where the chain of such calls ends; a cycle of awaits has no end.
CancelEnd(f) ==
  LET hop[n \in 0..Cardinality(Tasks)] ==
        IF n = 0 THEN f
        ELSE IF PassesOn(hop[n - 1]) THEN waitingOn[hop[n - 1]]
                                     ELSE hop[n - 1]
  IN hop[Cardinality(Tasks)]

\* Fault: the cancelling state still names an awaited future.
InnerCancel__KeepsWait(t) ==
  /\ st' = [st EXCEPT ![t] = "cancelling"]
  /\ raised' = "none"
  /\ UNCHANGED <<waitingOn, coro, outcome, executed, cur>>

\* Task._go_to_inner_cancellation: a step that will throw into the coroutine.
InnerCancel(t) ==
  /\ st' = [st EXCEPT ![t] = "cancelling"]
  /\ waitingOn' = [waitingOn EXCEPT ![t] = None]
  /\ raised' = "none"
  /\ UNCHANGED <<coro, outcome, executed, cur>>

\* Future._cancel.
CancelPromise(p) ==
  /\ SetOutcome(p, "cancelled")
  /\ raised' = "none"
  /\ UNCHANGED <<st, coro, waitingOn, soon, executed, cur>>

\* Fault: the handle is cancelled and no new step scheduled.
CancelScheduled__NoStep(t) ==
  /\ InnerCancel(t)
  /\ soon' = [soon EXCEPT ![t] = 0]
  /\ UNCHANGED <<callbacks, queued>>

\* Task._cancel, _ScheduledState: the first step is replaced by a throwing one.
CancelScheduled(t) ==
  IF soon[t] = 0
    THEN Fails("AssertionError")
    ELSE /\ InnerCancel(t)
         /\ soon' = [soon EXCEPT ![t] = (@ - 1) + 1]
         /\ UNCHANGED <<callbacks, queued>>

\* Fault: the awaited future's callback is taken back, nothing put in its place.
CancelAwakened__NoStep(t) ==
  /\ Unhook(t, waitingOn[t])
  /\ InnerCancel(t)
  /\ UNCHANGED soon

\* Fault: the callback of the finished future is left in the loop's queue.
CancelAwakened__KeepsHook(t) ==
  /\ InnerCancel(t)
  /\ soon' = [soon EXCEPT ![t] = @ + 1]
  /\ UNCHANGED <<callbacks, queued>>

\* Task._cancel, _RunningState whose awaited future has just finished.
CancelAwakened(t) ==
  /\ Unhook(t, waitingOn[t])
  /\ InnerCancel(t)
  /\ soon' = [soon EXCEPT ![t] = @ + 1]

\* The end of the chain: the order of the tests is that of Task._cancel.
CancelAt(f) ==
  \/ Finished(f) /\ Fails("FutureFinishedError")
  \/ /\ ~Finished(f)
     /\ \/ f \in Promises /\ CancelPromise(f)
        \/ /\ f \in Tasks
           /\ IF coro[f] = "running" THEN Fails("Cancelled")
              ELSE \/ st[f] = "scheduled"  /\ CancelScheduled(f)
                   \/ st[f] = "running"    /\ CancelAwakened(f)
                   \/ st[f] = "cancelling" /\ Fails("AlreadyCancelling")

\* cancel_future(f).
Cancel(f) ==
  /\ Alive
  /\ Exists(f)
  /\ \E end \in Futures :
       /\ end = CancelEnd(f)
       /\ IF PassesOn(end) THEN Fails("RecursionError") ELSE CancelAt(end)

-----------------------------------------------------------------------------
(* Task._step. *)

\* The step begins: the coroutine is resumed, or turns out not to be resumable.
\* An unstarted coroutine that is thrown into closes at once.
BeginStep(t) ==
  \/ /\ st[t] \notin {"scheduled", "running", "cancelling"}
     /\ raised' = "ResumeFinished"
     /\ UNCHANGED <<st, coro, waitingOn, outcome, callbacks, cur>>
  \/ /\ st[t] \in {"scheduled", "running"} \/ coro[t] = "suspended"
     /\ coro' = [coro EXCEPT ![t] = "running"]
     /\ cur' = t
     /\ raised' = IF st[t] = "running" /\ ~Finished(waitingOn[t])
                    THEN "ResumedEarly" ELSE "none"
     /\ UNCHANGED <<st, waitingOn, outcome, callbacks>>
  \/ /\ st[t] = "cancelling"
     /\ coro[t] = "created"
     /\ coro' = [coro EXCEPT ![t] = "closed"]
     /\ st' = [st EXCEPT ![t] = "finished"]
     /\ outcome' = [outcome EXCEPT ![t] = "cancelled"]
     /\ callbacks' = [callbacks EXCEPT ![t] = {}]
     /\ raised' = "none"
     /\ UNCHANGED <<waitingOn, cur>>

\* The callbacks a step that closes an unstarted coroutine hands to the loop.
ClosedNow(t) == IF st[t] = "cancelling" /\ coro[t] = "created"
                  THEN callbacks[t] \X {t} ELSE {}

\* The loop invokes a handle made by call_soon(self._step, None).
RunSoon(t) ==
  /\ cur = None
  /\ soon[t] > 0
  /\ soon' = [soon EXCEPT ![t] = @ - 1]
  /\ BeginStep(t)
  /\ queued' = queued \cup ClosedNow(t)
  /\ UNCHANGED executed

\* The loop invokes a `_step` that was a callback of the finished future f.
RunStep(t, f) ==
  /\ cur = None
  /\ <<t, f>> \in queued
  /\ BeginStep(t)
  /\ queued' = (queued \ {<<t, f>>}) \cup ClosedNow(t)
  /\ executed' = executed \cup {<<t, f>>}
  /\ UNCHANGED soon

\* Fault: the handle is not used up.
RunCallback__Again(cb, f) ==
  /\ cur = None
  /\ <<cb, f>> \in queued
  /\ executed' = executed \cup {<<cb, f>>}
  /\ raised' = "none"
  /\ UNCHANGED <<st, coro, waitingOn, outcome, callbacks, queued, soon, cur>>

\* The loop invokes any other callback of f; what it does is its own calls.
RunCallback(cb, f) ==
  /\ cur = None
  /\ <<cb, f>> \in queued
  /\ queued' = queued \ {<<cb, f>>}
  /\ executed' = executed \cup {<<cb, f>>}
  /\ raised' = "none"
  /\ UNCHANGED <<st, coro, waitingOn, outcome, callbacks, soon, cur>>

\* The coroutine returns or raises: the state is final before the `finally`.
Conclude(t, o) ==
  /\ cur = t
  /\ SetOutcome(t, o)
  /\ st' = [st EXCEPT ![t] = "finished"]
  /\ coro' = [coro EXCEPT ![t] = "closed"]
  /\ waitingOn' = [waitingOn EXCEPT ![t] = None]
  /\ cur' = None
  /\ raised' = "none"
  /\ UNCHANGED <<soon, executed>>

\* `await f` of a pending future yields it; `_step` becomes its callback.
Await(t, f) ==
  /\ cur = t
  /\ f # t
  /\ Exists(f)
  /\ ~Finished(f)
  /\ LET w == waitingOn[t] IN
       /\ callbacks' = [g \in Futures |->
            IF g = f THEN callbacks[g] \cup {t}
            ELSE IF st[t] = "running" /\ g = w THEN callbacks[g] \ {t}
            ELSE callbacks[g]]
       /\ queued' = IF st[t] = "running" THEN queued \ {<<t, w>>} ELSE queued
  /\ st' = [st EXCEPT ![t] = "running"]
  /\ waitingOn' = [waitingOn EXCEPT ![t] = f]
  /\ coro' = [coro EXCEPT ![t] = "suspended"]
  /\ cur' = None
  /\ raised' = "none"
  /\ UNCHANGED <<outcome, soon, executed>>

\* The coroutine yields itself, another loop's future, a finished future or
\* no future at all: _step raises and the task keeps the state it had.
YieldBad(t) ==
  /\ cur = t
  /\ t \in Misuse
  /\ LeaveAwaited(t)
  /\ coro' = [coro EXCEPT ![t] = "suspended"]
  /\ cur' = None
  /\ raised' = "BadYield"
  /\ UNCHANGED <<st, waitingOn, outcome, soon, executed>>

\* A BaseException other than Cancelled leaves _step, run_step and run_loop.
Escape(t) ==
  /\ cur = t
  /\ t \in Fatal
  /\ LeaveAwaited(t)
  /\ coro' = [coro EXCEPT ![t] = "closed"]
  /\ cur' = Dead
  /\ raised' = "none"
  /\ UNCHANGED <<st, waitingOn, outcome, soon, executed>>

EndStep(t) ==
  \/ \E o \in Outcomes : Conclude(t, o)
  \/ \E f \in Futures : Await(t, f)
  \/ YieldBad(t)
  \/ Escape(t)

-----------------------------------------------------------------------------
Next ==
  \/ \E t \in Tasks : CreateTask(t) \/ RunSoon(t) \/ EndStep(t)
  \/ \E p \in Promises : SetResult(p)
  \/ \E f \in Futures : Cancel(f)
  \/ \E cb \in Callbacks, f \in Futures :
       AddCallback(cb, f) \/ RemoveCallback(cb, f) \/ RunCallback(cb, f)
  \/ \E t \in Tasks, f \in Futures : RunStep(t, f)

Spec == Init /\ [][Next]_vars

\* The loop's queue is first in, first out, so a live handle is invoked after
\* finitely many others; a coroutine that was resumed gives control back.
Wake(t) == RunSoon(t) \/ \E f \in Futures : RunStep(t, f)

Fairness ==
  /\ \A t \in Tasks : SF_vars(Wake(t)) /\ WF_vars(EndStep(t))
  /\ \A cb \in Callbacks, f \in Futures : SF_vars(RunCallback(cb, f))

FairSpec == Spec /\ Fairness

-----------------------------------------------------------------------------
(* Properties. *)

\* The futures that have, or have just handed to the loop, the step of t.
Hooked(t) == {f \in Futures : t \in callbacks[f] \/ <<t, f>> \in queued}

Unfinished(t) == st[t] \in {"scheduled", "running", "cancelling"}

\* Every suspended task of a well-behaved coroutine has exactly one way to be
\* resumed: one live call_soon handle, or the one future it waits for, whose
\* callback is in the set while it is pending and in a live handle afterwards.
\* Cancelling the first step, cancelling a task between the end of its awaited
\* future and its step, and _step's own clean-up all replace that one by
\* another (pure.py, _cancel and _step); what other tasks do wrong is no matter.
NoLostWakeup ==
  \A t \in Tasks \ Misuse :
    Unfinished(t) /\ cur \notin {t, Dead} =>
      \/ soon[t] = 1 /\ Hooked(t) = {} /\ st[t] # "running"
      \/ soon[t] = 0 /\ Hooked(t) = {waitingOn[t]} /\ st[t] = "running"

\* No step is ever run for a task that has finished, nor for one whose awaited
\* future is pending: the RuntimeErrors at the top of Task._step and in
\* Future.__await__ ("resumed after first yield, but still not finished") are
\* unreachable, whatever coroutines yield.
NoBadResume == raised \notin {"ResumeFinished", "ResumedEarly"}

\* A task never has two steps coming, and none is coming while it runs or after
\* it finished - not even for one that _step left behind after a bad yield.
NoStrayStep ==
  \A t \in Tasks :
    /\ soon[t] > 0 => soon[t] = 1 /\ Hooked(t) = {}
    /\ \A f, g \in Hooked(t) : f = g
    /\ t = cur \/ ~Unfinished(t) => soon[t] = 0 /\ Hooked(t) = {}

\* The assertion of Task._cancel, "Handle being executed, but state not
\* changed" (pure.py:363), never fails.
FirstStepNotExecuted == raised # "AssertionError"

\* A task that has been scheduled or cancelled, or whose awaited future has
\* finished, gets to run (or is closed by the cancellation before it started).
ReadyRuns ==
  \A t \in Tasks \ Misuse :
    (Unfinished(t) /\ cur # t /\ (st[t] = "running" => Finished(waitingOn[t])))
      ~> (cur \in {t, Dead} \/ Finished(t))

\* Seen from its subscribers every future is a one-shot cell (FutureCell).
sub == [e \in Cbs \X Futures |->
          IF e[1] \in callbacks[e[2]] THEN "waiting"
          ELSE IF e \in queued THEN "owed"
          ELSE IF e \in executed THEN "done" ELSE "none"]

Cell == INSTANCE FutureCell WITH Subscribers <- Cbs

\* add_callback, remove_callback, _set_result and the loop's invocations of the
\* handles deliver each outcome exactly once, and only after it is there.
ImplementsCell == Cell!CellSafety

\* ... and sooner or later, as long as nothing tears the loop down.
ImplementsFairCell == Cell!CellSpec
=============================================================================
