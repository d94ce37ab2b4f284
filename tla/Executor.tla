------------------------------- MODULE Executor -------------------------------
(***************************************************************************)
(* Blocking functions run on a pool of threads for tasks of the loop:      *)
(* src/aio/components/executor.py over a ThreadPoolExecutor.               *)
(*                                                                         *)
(* execute_sync_callable submits the function and waits on a promise; the  *)
(* pool's thread that ends the job tells the loop.  When the executor is   *)
(* left, a thread of its own shuts the pool down, and tells the loop in    *)
(* the same way.  A thread tells the loop in two steps, as in EventLoop:   *)
(* it enqueues a call, and wakes the loop up if that is in select.         *)
(***************************************************************************)
EXTENDS Naturals, Sequences, SequencesExt

CONSTANTS Jobs,      \* calls of execute_sync_callable, one task each
          Workers,   \* the pool's threads
          Owner,     \* who leaves concurrent_executor_factory
          Shutter,   \* the thread "executor-shutdowner"
          Impatient, \* bound: the tasks that are cancelled
          Rude       \* bound: the jobs whose function may raise Cancelled

ASSUME ExecutorAssumption ==
  /\ Owner \notin Jobs /\ Shutter \notin Workers
  /\ Impatient \subseteq Jobs \cup {Owner} /\ Rude \subseteq Jobs

Threads == Workers \cup {Shutter}

VARIABLES job,      \* [Jobs -> state of its concurrent.futures.Future]
          hooked,   \* the jobs that have on_result_from_executor registered
          work,     \* the pool's queue: functions, cancels, and "stop"
          at,       \* [Threads -> where the thread is]
          holds,    \* [Threads -> the item it has taken, or Stop]
          shut,     \* ThreadPoolExecutor._shutdown
          user,     \* [Jobs \cup {Owner} -> where the task is]
          waiter,   \* [Jobs \cup {Owner} -> state of its promise]
          calls,    \* the handles that other threads have enqueued
          answered, \* whose call was invoked
          asked,    \* the tasks that were cancelled
          turn,     \* the task whose code the loop is in, or "loop"
          select    \* "off" | "armed" (not asked yet, but nothing was due) | "on"

poolVars == <<job, hooked, work, shut>>

threadVars == <<at, holds>>

taskVars == <<user, waiter, asked, turn>>

callVars == <<calls, answered, select>>

vars == <<poolVars, threadVars, taskVars, callVars>>

Item(kind, j) == [kind |-> kind, job |-> j]
Stop == Item("stop", Owner)
Items == [kind : {"run", "cancel"}, job : Jobs]

Done == {"result", "exception", "cancelled exception", "cancelled"}

\* Types; a task has a promise exactly while it waits or after it did.
TypeOK ==
  /\ job \in [Jobs -> {"none", "pending", "running"} \cup Done]
  /\ hooked \subseteq Jobs
  /\ work \in Seq(Items \cup {Stop})
  /\ holds \in [Threads -> Items \cup {Stop}]
  /\ at \in [Threads -> {"off", "idle", "took", "running", "tell", "wake", "bye",
                         "drain", "join", "report", "ended", "dead"}]
  /\ shut \in BOOLEAN
  /\ user \in [Jobs \cup {Owner} ->
                 {"idle", "hooking", "waiting", "thrown", "returned", "raised",
                  "cancelled", "refused"}]
  /\ waiter \in [Jobs \cup {Owner} -> {"none", "pending", "set", "failed", "cancelled"}]
  /\ calls \in Seq(Jobs \cup {Owner})
  /\ answered \cup asked \subseteq Jobs \cup {Owner}
  /\ turn \in Jobs \cup {Owner, "loop"}
  /\ select \in {"off", "armed", "on"}
  /\ \A u \in Jobs \cup {Owner} :
       /\ waiter[u] = "pending" => user[u] = "waiting"
       /\ user[u] \in {"waiting", "thrown"} => waiter[u] # "none"

Init ==
  /\ job = [j \in Jobs |-> "none"]
  /\ hooked = {}
  /\ work = <<>>
  /\ at = [th \in Threads |-> IF th = Shutter THEN "off" ELSE "idle"]
  /\ holds = [th \in Threads |-> Stop]
  /\ shut = FALSE
  /\ user = [u \in Jobs \cup {Owner} |-> "idle"]
  /\ waiter = [u \in Jobs \cup {Owner} |-> "none"]
  /\ calls = <<>>
  /\ answered = {}
  /\ asked = {}
  /\ turn = "loop"
  /\ select = "off"

-----------------------------------------------------------------------------
(* On the loop's thread. *)

\* The loop's thread is between two callbacks (run_step calls one at a time).
Free == turn = "loop" /\ select = "off"

\* A step of the task is due: its promise has finished, or it was cancelled.
Resumable(u) ==
  user[u] = "thrown" \/ (user[u] = "waiting" /\ waiter[u] # "pending")

\* execute_sync_callable, up to submit; it raises RuntimeError after shutdown
\* has begun (once the queue is drained: until then it waits for the lock).
Submit(j) ==
  /\ Free /\ user[j] = "idle"
  /\ IF shut
       THEN /\ user' = [user EXCEPT ![j] = "refused"]
            /\ UNCHANGED <<poolVars, turn>>
       ELSE /\ user' = [user EXCEPT ![j] = "hooking"]
            /\ job' = [job EXCEPT ![j] = "pending"]
            /\ work' = Append(work, Item("run", j))
            /\ turn' = j
            /\ UNCHANGED <<hooked, shut>>
  /\ UNCHANGED <<threadVars, waiter, asked, callVars>>

\* Faulty variants (names with a double underscore) stand before the operator
\* they spoil; the README says which property each one breaks.

\* Fault: no callback for a job that is done already.
Hook__UnlessDone(j) ==
  /\ turn = j /\ user[j] = "hooking"
  /\ hooked' = IF job[j] \in Done THEN hooked ELSE hooked \cup {j}
  /\ waiter' = [waiter EXCEPT ![j] = "pending"]
  /\ user' = [user EXCEPT ![j] = "waiting"]
  /\ turn' = "loop"
  /\ UNCHANGED <<job, work, shut, threadVars, asked, callVars>>

\* The promise, and add_done_callback, which calls at once if the job is done.
Hook(j) ==
  /\ turn = j /\ user[j] = "hooking"
  /\ IF job[j] \in Done
       THEN calls' = Append(calls, j) /\ UNCHANGED hooked
       ELSE hooked' = hooked \cup {j} /\ UNCHANGED calls
  /\ waiter' = [waiter EXCEPT ![j] = "pending"]
  /\ user' = [user EXCEPT ![j] = "waiting"]
  /\ turn' = "loop"
  /\ UNCHANGED <<job, work, shut, threadVars, asked, answered, select>>

\* Fault: the exception of a job is not passed on.
Outcome__NoException(u) ==
  IF u = Owner \/ job[u] = "result" THEN "set"
  ELSE IF job[u] = "cancelled" THEN "cancelled" ELSE "pending"

\* What the call that a thread has enqueued does to a promise that is pending.
\* A promise does not take a Cancelled for an exception: TypeError, which goes
\* to the loop's exception handler.
Outcome(u) ==
  IF u = Owner THEN "set"
  ELSE CASE job[u] = "result" -> "set"
         [] job[u] = "exception" -> "failed"
         [] job[u] = "cancelled" -> "cancelled"
         [] job[u] = "cancelled exception" -> "pending"

\* Fault: the outcome of a promise that was cancelled is overwritten.
Deliver__Late ==
  /\ Free /\ calls # <<>>
  /\ calls' = Tail(calls)
  /\ answered' = answered \cup {Head(calls)}
  /\ waiter' = [waiter EXCEPT ![Head(calls)] = Outcome(Head(calls))]
  /\ UNCHANGED <<poolVars, threadVars, user, asked, turn, select>>

\* _ignore_feature_finished_error: a promise that is finished stays as it is.
Deliver ==
  /\ Free /\ calls # <<>>
  /\ calls' = Tail(calls)
  /\ answered' = answered \cup {Head(calls)}
  /\ waiter' = [waiter EXCEPT ![Head(calls)] = IF @ = "pending" THEN Outcome(Head(calls)) ELSE @]
  /\ UNCHANGED <<poolVars, threadVars, user, asked, turn, select>>

ResumeTold(j) ==
  /\ Free /\ user[j] = "waiting" /\ waiter[j] \in {"set", "failed"}
  /\ user' = [user EXCEPT ![j] = IF waiter[j] = "set" THEN "returned" ELSE "raised"]
  /\ UNCHANGED <<poolVars, threadVars, waiter, asked, turn, callVars>>

\* Fault: the job is cancelled before all that waits in the queue.
ResumeCancelled__First(j) ==
  /\ Free
  /\ user[j] = "thrown" \/ (user[j] = "waiting" /\ waiter[j] = "cancelled")
  /\ user' = [user EXCEPT ![j] = IF shut THEN "refused" ELSE "cancelled"]
  /\ work' = IF shut THEN work ELSE <<Item("cancel", j)>> \o work
  /\ UNCHANGED <<job, hooked, shut, threadVars, waiter, asked, turn, callVars>>

\* `except Cancelled`: the pool is told to cancel the job, and Cancelled goes on.
\* After the shutdown submit raises RuntimeError, which takes its place.
ResumeCancelled(j) ==
  /\ Free
  /\ user[j] = "thrown" \/ (user[j] = "waiting" /\ waiter[j] = "cancelled")
  /\ user' = [user EXCEPT ![j] = IF shut THEN "refused" ELSE "cancelled"]
  /\ work' = IF shut THEN work ELSE Append(work, Item("cancel", j))
  /\ UNCHANGED <<job, hooked, shut, threadVars, waiter, asked, turn, callVars>>

\* Fault: the promise that the task waits for is not cancelled with it.
Cancel__KeepsPromise(u) ==
  /\ Free /\ user[u] = "waiting" /\ u \notin asked
  /\ asked' = asked \cup {u}
  /\ user' = [user EXCEPT ![u] = "thrown"]
  /\ UNCHANGED <<poolVars, threadVars, waiter, turn, callVars>>

\* Another task cancels u, once.
Cancel(u) ==
  /\ Free /\ user[u] = "waiting" /\ u \notin asked
  /\ asked' = asked \cup {u}
  /\ IF waiter[u] = "pending"
       THEN waiter' = [waiter EXCEPT ![u] = "cancelled"] /\ UNCHANGED user
       ELSE user' = [user EXCEPT ![u] = "thrown"] /\ UNCHANGED waiter
  /\ UNCHANGED <<poolVars, threadVars, turn, callVars>>

\* The `finally` of concurrent_executor_factory: _stupid_execute_on_thread
\* starts the thread,
Close ==
  /\ Free /\ user[Owner] = "idle"
  /\ user' = [user EXCEPT ![Owner] = "hooking"]
  /\ at' = [at EXCEPT ![Shutter] = "idle"]
  /\ turn' = Owner
  /\ UNCHANGED <<poolVars, holds, waiter, asked, callVars>>

\* and then makes the promise that the thread is to finish.
Bind ==
  /\ turn = Owner
  /\ user' = [user EXCEPT ![Owner] = "waiting"]
  /\ waiter' = [waiter EXCEPT ![Owner] = "pending"]
  /\ turn' = "loop"
  /\ UNCHANGED <<poolVars, threadVars, asked, callVars>>

ResumeOwner ==
  /\ Free /\ Resumable(Owner)
  /\ user' = [user EXCEPT ![Owner] =
                IF @ = "waiting" /\ waiter[Owner] = "set" THEN "returned" ELSE "cancelled"]
  /\ UNCHANGED <<poolVars, threadVars, waiter, asked, turn, callVars>>

\* A loop step that finds nothing due goes to select, which has no time limit.
ArmSelect ==
  /\ Free /\ calls = <<>> /\ \A u \in Jobs \cup {Owner} : ~Resumable(u)
  /\ select' = "armed"
  /\ UNCHANGED <<poolVars, threadVars, taskVars, calls, answered>>

EnterSelect ==
  /\ select = "armed"
  /\ select' = "on"
  /\ UNCHANGED <<poolVars, threadVars, taskVars, calls, answered>>

\* Something else, a socket or a timer, wakes the loop.
LeaveSelect ==
  /\ select = "on"
  /\ select' = "off"
  /\ UNCHANGED <<poolVars, threadVars, taskVars, calls, answered>>

-----------------------------------------------------------------------------
(* On the pool's threads (concurrent.futures). *)

Take(w) ==
  /\ at[w] = "idle" /\ work # <<>>
  /\ IF Head(work) = Stop
       THEN at' = [at EXCEPT ![w] = "ended"] /\ UNCHANGED <<holds, work>>
       ELSE /\ at' = [at EXCEPT ![w] = "took"]
            /\ holds' = [holds EXCEPT ![w] = Head(work)]
            /\ work' = Tail(work)
  /\ UNCHANGED <<job, hooked, shut, taskVars, callVars>>

\* Where a thread is when it has nothing in hand.
Rest(th) == IF th = Shutter THEN "drain" ELSE "idle"

Puts(th) ==
  /\ at' = [at EXCEPT ![th] = Rest(th)]
  /\ holds' = [holds EXCEPT ![th] = Stop]

\* Future.cancel, of this job on this thread: only a pending one is cancelled,
\* and then its callbacks are called.
CancelJob(th, item) ==
  IF job[item.job] = "pending"
    THEN /\ job' = [job EXCEPT ![item.job] = "cancelled"]
         /\ at' = [at EXCEPT ![th] = "tell"]
         /\ holds' = [holds EXCEPT ![th] = item]
    ELSE Puts(th) /\ UNCHANGED job

Begin(w) ==
  /\ at[w] = "took"
  /\ LET j == holds[w].job
     IN IF holds[w].kind = "cancel" THEN CancelJob(w, holds[w])
        ELSE IF job[j] = "pending"
          THEN /\ job' = [job EXCEPT ![j] = "running"]
               /\ at' = [at EXCEPT ![w] = "running"]
               /\ UNCHANGED holds
          ELSE Puts(w) /\ UNCHANGED job
  /\ UNCHANGED <<hooked, work, shut, taskVars, callVars>>

\* The function returns or raises, perhaps Cancelled.
Finish(w, outcome) ==
  /\ at[w] = "running"
  /\ outcome = "cancelled exception" => holds[w].job \in Rude
  /\ job' = [job EXCEPT ![holds[w].job] = outcome]
  /\ at' = [at EXCEPT ![w] = "tell"]
  /\ UNCHANGED <<hooked, work, shut, holds, taskVars, callVars>>

\* on_result_from_executor, on the thread that ended the job.
Tell(th) ==
  /\ at[th] = "tell"
  /\ LET j == holds[th].job
     IN IF j \in hooked
          THEN /\ hooked' = hooked \ {j}
               /\ calls' = Append(calls, j)
               /\ at' = [at EXCEPT ![th] = "wake"]
               /\ holds' = [holds EXCEPT ![th] = Stop]
          ELSE Puts(th) /\ UNCHANGED <<hooked, calls>>
  /\ UNCHANGED <<job, work, shut, taskVars, answered, select>>

\* The second half of call_soon_thread_safe.
Wake(th) ==
  /\ at[th] \in {"wake", "bye"}
  /\ select' = IF select = "on" THEN "off" ELSE select
  /\ at' = [at EXCEPT ![th] = IF @ = "bye" THEN "ended" ELSE Rest(th)]
  /\ UNCHANGED <<poolVars, holds, taskVars, calls, answered>>

-----------------------------------------------------------------------------
(* On the thread that shuts the pool down: shutdown(wait, cancel_futures). *)

Shutdown ==
  /\ at[Shutter] = "idle"
  /\ shut' = TRUE
  /\ at' = [at EXCEPT ![Shutter] = "drain"]
  /\ UNCHANGED <<job, hooked, work, holds, taskVars, callVars>>

Drain ==
  /\ at[Shutter] = "drain" /\ work # <<>>
  /\ work' = Tail(work)
  /\ IF Head(work).kind = "run"
       THEN CancelJob(Shutter, Head(work))
       ELSE UNCHANGED <<at, holds, job>>
  /\ UNCHANGED <<hooked, shut, taskVars, callVars>>

Drained ==
  /\ at[Shutter] = "drain" /\ work = <<>>
  /\ work' = <<Stop>>
  /\ at' = [at EXCEPT ![Shutter] = "join"]
  /\ UNCHANGED <<job, hooked, shut, holds, taskVars, callVars>>

\* Fault: wait=False.
Join__NoWait ==
  /\ at[Shutter] = "join"
  /\ at' = [at EXCEPT ![Shutter] = "report"]
  /\ UNCHANGED <<poolVars, holds, taskVars, callVars>>

Join ==
  /\ at[Shutter] = "join" /\ \A w \in Workers : at[w] = "ended"
  /\ at' = [at EXCEPT ![Shutter] = "report"]
  /\ UNCHANGED <<poolVars, holds, taskVars, callVars>>

\* thread_fn, after shutdown has returned - that of a ThreadPoolExecutor does not
\* raise, so its `except` has nothing to catch: if the promise is not bound yet,
\* NameError ends the thread.
Report ==
  /\ at[Shutter] = "report"
  /\ IF waiter[Owner] = "none"
       THEN at' = [at EXCEPT ![Shutter] = "dead"] /\ UNCHANGED calls
       ELSE at' = [at EXCEPT ![Shutter] = "bye"] /\ calls' = Append(calls, Owner)
  /\ UNCHANGED <<poolVars, holds, taskVars, answered, select>>

-----------------------------------------------------------------------------
LoopStep ==
  \/ Deliver \/ Bind \/ ResumeOwner \/ ArmSelect \/ EnterSelect
  \/ \E j \in Jobs : Hook(j) \/ ResumeTold(j) \/ ResumeCancelled(j)

WorkerStep(w) ==
  \/ Take(w) \/ Begin(w) \/ Tell(w) \/ Wake(w)
  \/ \E outcome \in Done \ {"cancelled"} : Finish(w, outcome)

ShutterStep ==
  \/ Shutdown \/ Drain \/ Drained \/ Join \/ Report
  \/ Tell(Shutter) \/ Wake(Shutter)

Next ==
  \/ LoopStep \/ LeaveSelect \/ ShutterStep
  \/ \E w \in Workers : WorkerStep(w)
  \/ \E j \in Jobs : Submit(j)
  \/ \E u \in Impatient : Cancel(u)
  \/ Close

Spec == Init /\ [][Next]_vars

\* The loop and the threads go on, and functions end; nobody has to submit, to
\* cancel or to close, and nothing else wakes the loop.
FairSpec ==
  /\ Spec
  /\ WF_vars(LoopStep) /\ WF_vars(ShutterStep)
  /\ \A w \in Workers : WF_vars(WorkerStep(w))

-----------------------------------------------------------------------------
(* Properties. *)

Telling(j) == \E th \in Threads : at[th] = "tell" /\ holds[th].job = j

\* add_done_callback races with the pool's thread (executor.py:74): whether the
\* job ends before or after, its answer is in exactly one place - registered,
\* and then the job still runs or a thread is about to tell, or enqueued once,
\* or delivered.
AnswerNotLost ==
  /\ \A j \in Jobs :
       /\ waiter[j] # "none" => j \in hooked \cup ToSet(calls) \cup answered
       /\ j \in hooked => job[j] \in {"pending", "running"} \/ Telling(j)
  /\ IsInjective(calls)
  /\ hooked \cap ToSet(calls) = {}
  /\ answered \cap (hooked \cup ToSet(calls)) = {}

\* A task ends as its job did, or as one that was cancelled: an answer that
\* comes after the cancellation changes nothing (executor.py:17-23), and nobody
\* is cancelled on account of another.
EndsAsItsJob ==
  \A j \in Jobs :
    /\ user[j] = "returned" => job[j] = "result" /\ j \notin asked
    /\ user[j] = "raised" => job[j] = "exception" /\ j \notin asked
    /\ user[j] = "cancelled" => j \in asked \/ job[j] = "cancelled"
    /\ user[j] = "refused" => shut

\* The cancel of a job goes through the same queue (executor.py:78): before the
\* shutdown it can only prevent a job that another thread has taken already.
\* All others run although nobody waits for them.
CancelComesLate ==
  [][\A j \in Jobs :
       job[j] # "cancelled" /\ job'[j] = "cancelled" /\ ~shut =>
         \E w \in Workers : at[w] = "took" /\ holds[w] = Item("run", j)]_vars

\* When the executor has been left, nothing of it is left (executor.py:82-88): no
\* job is pending or running, and whoever still waits was answered, or will be by
\* a call that is enqueued; no thread has anything to tell.
ClosedIsQuiet ==
  user[Owner] = "returned" =>
    /\ \A j \in Jobs : job[j] \in Done \cup {"none"}
    /\ \A j \in Jobs : user[j] = "waiting" => j \in answered \cup ToSet(calls)
    /\ \A w \in Workers : at[w] = "ended"

\* The ways in which a call that was enqueued, or was to be, is never seen: the
\* loop went to sleep between the two halves (EventLoop), fn raised Cancelled
\* (executor.py:62), the shutdown was over before the promise was bound (:40).
Missed == /\ select # "off" /\ calls # <<>>
          /\ \A th \in Threads : at[th] \notin {"wake", "bye"}
Deaf(u) == IF u = Owner THEN at[Shutter] = "dead" ELSE job[u] = "cancelled exception"

\* Save for these, everybody who waits is told in the end.
EveryoneIsTold ==
  \A u \in Jobs \cup {Owner} : user[u] = "waiting" ~> user[u] # "waiting" \/ Missed \/ Deaf(u)
=============================================================================
