------------------------------ MODULE TaskScope ------------------------------
(***************************************************************************)
(* Task scopes: `async with create_task(coro) as child`, that is           *)
(* _guard_task of src/aio/future/_factories.py with shield of              *)
(* src/aio/funcs.py.                                                       *)
(*                                                                         *)
(* A child that fails cancels its parent with CancelledByChild while the   *)
(* parent is in the body of the scope; a parent that leaves the body with  *)
(* an exception cancels the child with CancelledByParent; either way the   *)
(* parent then waits for the child behind a shield, so that cancelling the *)
(* parent does not cancel the child.                                       *)
(*                                                                         *)
(* What a task does on cancellation is Task's, in brief: a wait on a       *)
(* pending future is ended by cancelling that future, a step that is       *)
(* already coming is replaced by a throwing one.  A coroutine suspends in  *)
(* three places: in a body on a promise, on its innermost child, or in the *)
(* shield of a scope that it leaves.                                       *)
(***************************************************************************)
EXTENDS Naturals, Sequences, FiniteSets

CONSTANTS Tasks,      \* task identities; each is created at most once
          Root,       \* the task that nobody's scope holds
          Openers,    \* tasks whose coroutine opens scopes
          Catchers,   \* tasks whose coroutine may catch an exception
          None        \* no task

ASSUME TaskScopeAssumption ==
  /\ IsFiniteSet(Tasks) /\ Root \in Tasks /\ None \notin Tasks
  /\ Openers \subseteq Tasks /\ Catchers \subseteq Tasks

VARIABLES
  at,        \* [Tasks -> Places]: where the coroutine is
  wake,      \* [Tasks -> Wakes]: what stands between it and its next step
  exc,       \* the exception in flight, or that the next step will deliver
  outcome,   \* [Tasks -> "pending", or what the task ended with]
  scopes,    \* [Tasks -> Seq(Tasks)]: children of its open scopes
  leaving,   \* parent_exc of the scope that is being left
  parent,    \* [Tasks -> Tasks \cup {None}]: current_task in _guard_task
  cur,       \* the task whose coroutine is running, or None
  told,      \* children whose on_task_done is in a live handle of the loop
  joined     \* children whose future_done_cb is in a live handle of the loop

vars == <<at, wake, exc, outcome, scopes, leaving, parent, cur, told, joined>>

\* "error" stands for any exception but the two of scopes and for what a
\* canceller from outside sends; "ok" for none.
Excs   == {"error", "Cancelled", "ByChild", "ByParent"}
Ends   == Excs \cup {"ok"}
Places == {"absent", "start", "body", "await", "shield", "done"}

\* pending: the awaited future is; queued: a step is coming that resumes (also
\* the first); thrown: one that throws (_CancellingState).
Wakes  == {"none", "pending", "queued", "thrown"}

\* Types; a task is without a wake exactly while its coroutine does not exist or
\* is running, and has an outcome exactly when it is done.
TypeOK ==
  /\ at \in [Tasks -> Places] /\ wake \in [Tasks -> Wakes]
  /\ exc \in [Tasks -> Ends] /\ leaving \in [Tasks -> Ends]
  /\ outcome \in [Tasks -> Ends \cup {"pending"}]
  /\ scopes \in [Tasks -> Seq(Tasks)]
  /\ parent \in [Tasks -> Tasks \cup {None}]
  /\ cur \in Tasks \cup {None}
  /\ told \subseteq Tasks /\ joined \subseteq Tasks
  /\ \A t \in Tasks :
       /\ wake[t] = "none" <=> at[t] \in {"absent", "done"} \/ cur = t
       /\ outcome[t] = "pending" <=> at[t] # "done"

Init ==
  /\ at = [t \in Tasks |-> IF t = Root THEN "start" ELSE "absent"]
  /\ wake = [t \in Tasks |-> IF t = Root THEN "queued" ELSE "none"]
  /\ exc = [t \in Tasks |-> "ok"]
  /\ outcome = [t \in Tasks |-> "pending"]
  /\ scopes = [t \in Tasks |-> <<>>]
  /\ leaving = [t \in Tasks |-> "ok"]
  /\ parent = [t \in Tasks |-> None]
  /\ cur = None
  /\ told = {} /\ joined = {}

Finished(t) == outcome[t] # "pending"
Inner(t)    == scopes[t][Len(scopes[t])]
Outer(t)    == SubSeq(scopes[t], 1, Len(scopes[t]) - 1)
Holds(p, c) == \E i \in DOMAIN scopes[p] : scopes[p][i] = c

\* p waits in the shield of the scope that holds c.
Leaves(p, c) == at[p] = "shield" /\ Inner(p) = c

-----------------------------------------------------------------------------
(* Cancellation, as Task._cancel does it. *)

\* A task that awaits its child passes a cancellation on to the child.
Passes(t) == at[t] = "await" /\ wake[t] = "pending"

CancelEnd(t) ==
  LET hop[n \in 0..Cardinality(Tasks)] ==
        IF n = 0 THEN t
        ELSE IF Passes(hop[n - 1]) THEN Inner(hop[n - 1]) ELSE hop[n - 1]
  IN hop[Cardinality(Tasks)]

\* Faulty variants (names with a double underscore) stand before the operator
\* they spoil; the README says which property each one breaks.

\* Fault: tasks that run, or have ended, are cancelled like others.
CanCancel__Always(t) == TRUE

CanCancel(t) == wake[t] \in {"pending", "queued"}

\* The awaited promise is cancelled, or a throwing step takes the place of the
\* one that is coming.
Hit(t, e) ==
  /\ wake' = [wake EXCEPT ![t] = IF @ = "pending" THEN "queued" ELSE "thrown"]
  /\ exc' = [exc EXCEPT ![t] = e]

\* cancel_future(t, e) called from the loop; what it raises is only reported.
CancelCall(t, e) ==
  LET end == CancelEnd(t)
  IN IF CanCancel(end) THEN Hit(end, e) ELSE UNCHANGED <<wake, exc>>

\* Anybody cancels t: a timeout, the program, SIGINT for the root.
Cancel(t) ==
  /\ at[t] # "absent"
  /\ CanCancel(CancelEnd(t))
  /\ Hit(CancelEnd(t), "Cancelled")
  /\ UNCHANGED <<at, outcome, scopes, leaving, parent, cur, told, joined>>

-----------------------------------------------------------------------------
(* The callbacks of a child. *)


\* on_task_done: a child that failed cancels its parent.
OnTaskDone(c) ==
  /\ cur = None
  /\ c \in told
  /\ told' = told \ {c}
  /\ IF outcome[c] = "ok" THEN UNCHANGED <<wake, exc>>
                          ELSE CancelCall(parent[c], "ByChild")
  /\ UNCHANGED <<at, outcome, scopes, leaving, parent, cur, joined>>

\* future_done_cb of shield: the promise takes the child's outcome, unless it
\* was cancelled in the meantime.
ShieldDone(c) ==
  /\ cur = None
  /\ c \in joined
  /\ joined' = joined \ {c}
  /\ LET p == parent[c] IN
       IF wake[p] = "pending"
         THEN /\ wake' = [wake EXCEPT ![p] = "queued"]
              /\ exc' = [exc EXCEPT ![p] = outcome[c]]
         ELSE UNCHANGED <<wake, exc>>
  /\ UNCHANGED <<at, outcome, scopes, leaving, parent, cur, told>>

\* Fault: nobody is told of the end of a task.
Conclude__Silently(t, o) ==
  /\ outcome' = [outcome EXCEPT ![t] = o]
  /\ at' = [at EXCEPT ![t] = "done"]
  /\ wake' = [wake EXCEPT ![t] = "none"]
  /\ exc' = [exc EXCEPT ![t] = "ok"]
  /\ cur' = None
  /\ UNCHANGED <<told, joined, scopes, leaving, parent>>

\* t ends with o.  Its parent's callback, shield or step goes to the loop.
Conclude(t, o) ==
  LET p == parent[t]
      held == p # None /\ Holds(p, t)
      awaited == held /\ Passes(p) /\ Inner(p) = t
  IN /\ outcome' = [outcome EXCEPT ![t] = o]
     /\ at' = [at EXCEPT ![t] = "done"]
     /\ wake' = [u \in Tasks |-> IF u = t THEN "none"
                                 ELSE IF awaited /\ u = p THEN "queued" ELSE wake[u]]
     /\ exc' = [u \in Tasks |-> IF u = t THEN "ok"
                                ELSE IF awaited /\ u = p THEN o ELSE exc[u]]
     /\ told' = IF held /\ ~Leaves(p, t) THEN told \cup {t} ELSE told
     /\ joined' = IF held /\ Leaves(p, t) THEN joined \cup {t} ELSE joined
     /\ cur' = None
     /\ UNCHANGED <<scopes, leaving, parent>>

-----------------------------------------------------------------------------
(* The end of a scope. *)

\* What leaves a scope whose body ended with e when shield(child) gave x.
After(e, x) == IF x \notin {"ok", "ByParent"} /\ e = "ByChild" THEN x ELSE e

\* Fault: on_task_done stays registered.
LeaveFinished__KeepsCallback(t) ==
  /\ Finished(Inner(t))
  /\ scopes' = [scopes EXCEPT ![t] = Outer(t)]
  /\ exc' = [exc EXCEPT ![t] = After(@, outcome[Inner(t)])]
  /\ UNCHANGED <<told, at, wake, outcome, leaving, parent, cur, joined>>

\* Fault: the task goes on without waiting for its child.
LeaveFinished__NoWait(t) ==
  /\ scopes' = [scopes EXCEPT ![t] = Outer(t)]
  /\ told' = told \ {Inner(t)}
  /\ UNCHANGED <<exc, at, wake, outcome, leaving, parent, cur, joined>>

\* The child has finished already: shield returns or raises at once.
LeaveFinished(t) ==
  /\ Finished(Inner(t))
  /\ scopes' = [scopes EXCEPT ![t] = Outer(t)]
  /\ exc' = [exc EXCEPT ![t] = After(@, outcome[Inner(t)])]
  /\ told' = told \ {Inner(t)}
  /\ UNCHANGED <<at, wake, outcome, leaving, parent, cur, joined>>

\* Fault: the child is not cancelled when the body raises.
LeavePending__NoCancel(t) ==
  /\ ~Finished(Inner(t))
  /\ wake' = [wake EXCEPT ![t] = "pending"]
  /\ exc' = [exc EXCEPT ![t] = "ok"]
  /\ leaving' = [leaving EXCEPT ![t] = exc[t]]
  /\ at' = [at EXCEPT ![t] = "shield"]
  /\ cur' = None
  /\ UNCHANGED <<outcome, scopes, parent, told, joined>>

\* Otherwise a body that raised cancels the child - which may be cancelling
\* already, and then AlreadyCancelling takes the place of the exception - and
\* the task suspends on the shield's promise.
LeavePending(t) ==
  LET end == CancelEnd(Inner(t))
      hit == exc[t] # "ok" /\ CanCancel(end)
  IN /\ ~Finished(Inner(t))
     /\ wake' = [u \in Tasks |->
          IF u = t THEN "pending"
          ELSE IF hit /\ u = end
            THEN IF wake[u] = "pending" THEN "queued" ELSE "thrown"
          ELSE wake[u]]
     /\ exc' = [u \in Tasks |-> IF u = t THEN "ok"
                                ELSE IF hit /\ u = end THEN "ByParent" ELSE exc[u]]
     /\ leaving' = [leaving EXCEPT ![t] =
          IF exc[t] = "ok" \/ hit THEN exc[t] ELSE "error"]
     /\ at' = [at EXCEPT ![t] = "shield"]
     /\ cur' = None
     /\ UNCHANGED <<outcome, scopes, parent, told, joined>>

LeaveScope(t) ==
  /\ cur = t
  /\ scopes[t] # <<>>
  /\ LeaveFinished(t) \/ LeavePending(t)

\* The wait in the shield is over: with the child's outcome, or because t itself
\* was cancelled, in which case the child is left to itself.
EndShield(t) ==
  /\ scopes' = [scopes EXCEPT ![t] = Outer(t)]
  /\ exc' = [exc EXCEPT ![t] = After(leaving[t], @)]
  /\ leaving' = [leaving EXCEPT ![t] = "ok"]
  /\ joined' = joined \ {Inner(t)}

-----------------------------------------------------------------------------
(* Steps and bodies. *)

\* Task._step: a task that is cancelled before it started ends unstarted.
Step(t) ==
  /\ cur = None
  /\ wake[t] \in {"queued", "thrown"}
  /\ IF at[t] = "start" /\ exc[t] # "ok" THEN Conclude(t, exc[t])
     ELSE /\ cur' = t
          /\ wake' = [wake EXCEPT ![t] = "none"]
          /\ at' = [at EXCEPT ![t] = "body"]
          /\ IF at[t] = "shield" THEN EndShield(t)
                                 ELSE UNCHANGED <<scopes, exc, leaving, joined>>
          /\ UNCHANGED <<outcome, parent, told>>

\* create_task and the entry of its context: no suspension in between.
OpenScope(t, c) ==
  /\ cur = t /\ exc[t] = "ok"
  /\ t \in Openers /\ at[c] = "absent"
  /\ at' = [at EXCEPT ![c] = "start"]
  /\ wake' = [wake EXCEPT ![c] = "queued"]
  /\ parent' = [parent EXCEPT ![c] = t]
  /\ scopes' = [scopes EXCEPT ![t] = Append(@, c)]
  /\ UNCHANGED <<exc, outcome, leaving, cur, told, joined>>

AwaitPromise(t) ==
  /\ cur = t /\ exc[t] = "ok"
  /\ wake' = [wake EXCEPT ![t] = "pending"]
  /\ cur' = None
  /\ UNCHANGED <<at, exc, outcome, scopes, leaving, parent, told, joined>>

PromiseDone(t) ==
  /\ at[t] = "body" /\ wake[t] = "pending"
  /\ wake' = [wake EXCEPT ![t] = "queued"]
  /\ UNCHANGED <<at, exc, outcome, scopes, leaving, parent, cur, told, joined>>

\* `await child`: of a finished one it gives the outcome at once.
AwaitChild(t) ==
  /\ cur = t /\ exc[t] = "ok" /\ scopes[t] # <<>>
  /\ IF Finished(Inner(t))
       THEN /\ exc' = [exc EXCEPT ![t] = outcome[Inner(t)]]
            /\ UNCHANGED <<at, wake, cur>>
       ELSE /\ at' = [at EXCEPT ![t] = "await"]
            /\ wake' = [wake EXCEPT ![t] = "pending"]
            /\ cur' = None
            /\ UNCHANGED exc
  /\ UNCHANGED <<outcome, scopes, leaving, parent, told, joined>>

Raise(t) ==
  /\ cur = t /\ exc[t] = "ok"
  /\ exc' = [exc EXCEPT ![t] = "error"]
  /\ UNCHANGED <<at, wake, outcome, scopes, leaving, parent, cur, told, joined>>

Catch(t) ==
  /\ cur = t /\ exc[t] # "ok" /\ t \in Catchers
  /\ exc' = [exc EXCEPT ![t] = "ok"]
  /\ UNCHANGED <<at, wake, outcome, scopes, leaving, parent, cur, told, joined>>

\* The coroutine returns or raises outside of any scope.
Return(t) ==
  /\ cur = t /\ scopes[t] = <<>>
  /\ Conclude(t, exc[t])

Next ==
  \E t \in Tasks :
    \/ Cancel(t) \/ OnTaskDone(t) \/ ShieldDone(t) \/ Step(t) \/ PromiseDone(t)
    \/ LeaveScope(t) \/ AwaitPromise(t) \/ AwaitChild(t) \/ Raise(t) \/ Catch(t)
    \/ Return(t)
    \/ \E c \in Tasks : OpenScope(t, c)

Spec == Init /\ [][Next]_vars

\* The handle that is live for a task: of its step or, when it has ended, of a
\* callback of it.
Handle(t) == Step(t) \/ OnTaskDone(t) \/ ShieldDone(t)

\* A coroutine suspends, leaves a scope, or ends.
GivesBack(t) == LeaveScope(t) \/ Return(t) \/ AwaitPromise(t)

\* The loop invokes every live handle (EventLoop), and coroutines do not run for
\* ever.  No promise need ever be kept.
Fairness ==
  /\ \A t \in Tasks : SF_vars(Handle(t))
  /\ SF_vars(\E t \in Tasks : GivesBack(t))

FairSpec == Spec /\ Fairness

-----------------------------------------------------------------------------
(* Properties. *)

\* Leaf tasks neither open scopes nor catch what is thrown into them.
Leaf(t) == t \notin Openers \cup Catchers

\* The wait for a child is never missed: as long as the shield's promise is
\* pending the child is still going, or the callback that will finish the
\* promise is on its way; likewise for `await child`.
NoLostJoin ==
  \A p \in Tasks : wake[p] = "pending" =>
    /\ at[p] = "shield" => ~Finished(Inner(p)) \/ Inner(p) \in joined
    /\ at[p] = "await"  => ~Finished(Inner(p))

\* A child's callbacks live no longer than the part of the scope they serve: a
\* child that fails cannot cancel a parent that has left the body, nor can the
\* end of one child finish the shield of another (remove_callback, in
\* _guard_task and in shield).
CallbacksInScope ==
  /\ \A c \in told : Holds(parent[c], c) /\ ~Leaves(parent[c], c)
  /\ \A c \in joined : Leaves(parent[c], c)

\* A scope is left while its child is unfinished only by a parent that was
\* cancelled in the shield - by its own other child, by its own parent, or from
\* outside - and never because the shield's wait was finished too early.
LeftUnfinished(p) == scopes[p] # <<>> /\ scopes'[p] = Outer(p) /\ ~Finished(Inner(p))

WaitsForChild ==
  [][\A p \in Tasks : LeftUnfinished(p) =>
       at[p] = "shield" /\ exc[p] \in {"Cancelled", "ByChild", "ByParent"}]_vars

\* "parent will wait for child to finish via shield" (tests/test_future.py:791):
\* a task that was opened in a scope is over when the scope is.
NoOrphans ==
  \A c \in Tasks \ {Root} :
    at[c] \notin {"absent", "done"} => Holds(parent[c], c)

\* A scope whose body raised is left: its child, if it is a leaf, has been
\* cancelled, or was being cancelled anyway.
Aborting(c) == \E p \in Tasks : Leaves(p, c) /\ leaving[p] # "ok"

AbortedScopeEnds == \A c \in Tasks : Leaf(c) => (Aborting(c) ~> ~Aborting(c))

\* A failed child in whose scope's body its parent is, and the parent's children
\* are simple: none holds a scope or may catch what is thrown into it.
FailedInBody(c) ==
  LET p == parent[c] IN
    /\ p # None /\ Holds(p, c) /\ ~Leaves(p, c)
    /\ outcome[c] \in Excs
    /\ \A u \in Tasks : Holds(p, u) => u \notin Catchers /\ scopes[u] = <<>>

\* An exception is raised in p's coroutine, which may catch it.
Raised(p) == cur = p /\ exc[p] # "ok"

\* A cancellation is about to be dropped: p receives it in the shield of a scope
\* whose body ended normally (_factories.py:75-79).
Drops(p) ==
  /\ at[p] = "shield" /\ leaving[p] = "ok"
  /\ exc[p] \in {"Cancelled", "ByChild", "ByParent"}

=============================================================================
