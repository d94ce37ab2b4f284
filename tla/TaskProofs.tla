----------------------------- MODULE TaskProofs -----------------------------
(***************************************************************************)
(* Proofs about Task, for any sets of tasks, promises and callbacks.       *)
(*                                                                         *)
(* NoLostWakeup alone is not inductive: to know that a step leaves a task  *)
(* with one way to be resumed one must know how the coroutine, the handles *)
(* and the state object agree in every phase of the task's life.  Phase    *)
(* names the phases; the two wrong ones, Stuck and Torn, are reached only  *)
(* by tasks of Misuse and Fatal.                                           *)
(***************************************************************************)
EXTENDS Task, TLAPS

\* A finished future has no callback waiting, and live handles exist only for
\* callbacks of finished futures.
HandedOver ==
  /\ \A f \in Futures : Finished(f) => callbacks[f] = {}
  /\ \A e \in queued : Finished(e[2])

NoWake(t) == soon[t] = 0 /\ Hooked(t) = {}

Absent(t)  == st[t] = "absent" /\ coro[t] = "created" /\ NoWake(t)
Gone(t)    == st[t] = "finished" /\ coro[t] = "closed" /\ NoWake(t)
Woken(t)   == /\ soon[t] = 1 /\ Hooked(t) = {}
              /\ \/ st[t] = "scheduled" /\ coro[t] = "created"
                 \/ st[t] = "cancelling" /\ coro[t] \in {"created", "suspended"}
Waiting(t) == /\ soon[t] = 0 /\ Hooked(t) = {waitingOn[t]}
              /\ st[t] = "running" /\ coro[t] = "suspended"

\* The awaited future of a task that is past its wait has finished.
Past(t)    == st[t] = "running" => Finished(waitingOn[t])
InStep(t)  == /\ cur = t /\ Unfinished(t) /\ coro[t] = "running"
              /\ NoWake(t) /\ Past(t)
Stuck(t)   == /\ t \in Misuse /\ Unfinished(t) /\ coro[t] = "suspended"
              /\ NoWake(t) /\ Past(t)
Torn(t)    == /\ t \in Fatal /\ cur = Dead /\ Unfinished(t)
              /\ coro[t] = "closed" /\ NoWake(t)

Phase(t) ==
  IF cur = t THEN InStep(t)
  ELSE Absent(t) \/ Gone(t) \/ Woken(t) \/ Waiting(t) \/ Stuck(t) \/ Torn(t)

IInv ==
  /\ TypeOK
  /\ HandedOver
  /\ \A t \in Tasks : Phase(t) /\ (Finished(t) <=> st[t] = "finished")

-----------------------------------------------------------------------------
\* Before any task is created the invariant holds.
THEOREM InitIInv == Init => IInv
<1> SUFFICES ASSUME Init PROVE IInv
  OBVIOUS
<1>1. TypeOK
  BY TaskAssumption DEF Init, TypeOK, Futures, Cbs
<1>2. HandedOver
  BY DEF Init, HandedOver, Finished
<1>3. ASSUME NEW t \in Tasks
      PROVE  Phase(t) /\ (Finished(t) <=> st[t] = "finished")
  BY TaskAssumption DEF Init, Phase, Absent, NoWake, Hooked, Finished, Futures
<1> QED
  BY <1>1, <1>2, <1>3 DEF IInv

-----------------------------------------------------------------------------
(* What the building blocks do to the hooks of a task. *)

\* Handing the callbacks of f to the loop moves hooks, it loses none.
LEMMA SetOutcomeHooks ==
  ASSUME TypeOK, HandedOver, NEW f \in Futures, ~Finished(f), NEW o \in Outcomes,
         SetOutcome(f, o)
  PROVE  /\ HandedOver'
         /\ \A t \in Tasks : Hooked(t)' = Hooked(t)
         /\ \A g \in Futures : Finished(g)' <=> Finished(g) \/ g = f
         /\ outcome' \in [Futures -> Outcomes \cup {"pending"}]
         /\ callbacks' \in [Futures -> SUBSET Cbs]
         /\ queued' \subseteq Cbs \X Futures
<1>1. /\ outcome' \in [Futures -> Outcomes \cup {"pending"}]
      /\ callbacks' \in [Futures -> SUBSET Cbs]
      /\ queued' \subseteq Cbs \X Futures
  BY DEF TypeOK, SetOutcome
<1>2. \A g \in Futures : Finished(g)' <=> Finished(g) \/ g = f
  BY DEF TypeOK, SetOutcome, Finished, Outcomes
<1>3. \A g \in Futures : callbacks'[g] = IF g = f THEN {} ELSE callbacks[g]
  BY DEF TypeOK, SetOutcome
<1>4. \A cb, g : <<cb, g>> \in queued' <=>
                  <<cb, g>> \in queued \/ (g = f /\ cb \in callbacks[f])
  BY DEF SetOutcome
<1>5. HandedOver'
  BY <1>1, <1>2, <1>3, <1>4 DEF HandedOver, SetOutcome
<1>6. ASSUME NEW t \in Tasks PROVE Hooked(t)' = Hooked(t)
  BY <1>3, <1>4 DEF Hooked
<1> QED
  BY <1>1, <1>2, <1>5, <1>6

\* remove_callback takes away the one hook it names, wherever it is.
LEMMA UnhookHooks ==
  ASSUME TypeOK, HandedOver, NEW cb \in Cbs, NEW f \in Futures,
         Unhook(cb, f), UNCHANGED outcome
  PROVE  /\ HandedOver'
         /\ \A t \in Tasks : Hooked(t)' = IF t = cb THEN Hooked(t) \ {f}
                                                   ELSE Hooked(t)
         /\ \A g \in Futures : Finished(g)' <=> Finished(g)
         /\ callbacks' \in [Futures -> SUBSET Cbs]
         /\ queued' \subseteq Cbs \X Futures
<1>1. \A g \in Futures : Finished(g)' <=> Finished(g)
  BY DEF Finished
<1>2. CASE Finished(f)
  <2>1. queued' = queued \ {<<cb, f>>} /\ callbacks' = callbacks
    BY <1>2 DEF Unhook
  <2>2. callbacks[f] = {}
    BY <1>2 DEF HandedOver
  <2>3. HandedOver'
    BY <2>1, <1>1 DEF HandedOver, TypeOK
  <2>4. ASSUME NEW t \in Tasks
        PROVE  Hooked(t)' = IF t = cb THEN Hooked(t) \ {f} ELSE Hooked(t)
    BY <2>1, <2>2 DEF Hooked
  <2> QED
    BY <1>1, <2>1, <2>3, <2>4 DEF TypeOK
<1>3. CASE ~Finished(f)
  <2>1. queued' = queued /\ callbacks' = [callbacks EXCEPT ![f] = @ \ {cb}]
    BY <1>3 DEF Unhook
  <2>2. \A c : <<c, f>> \notin queued
    BY <1>3 DEF HandedOver
  <2>3. /\ callbacks' \in [Futures -> SUBSET Cbs]
        /\ \A g \in Futures :
             callbacks'[g] = IF g = f THEN callbacks[f] \ {cb} ELSE callbacks[g]
    BY <2>1 DEF TypeOK
  <2>4. HandedOver'
    BY <2>1, <2>3, <1>1 DEF HandedOver, TypeOK
  <2>5. ASSUME NEW t \in Tasks
        PROVE  Hooked(t)' = IF t = cb THEN Hooked(t) \ {f} ELSE Hooked(t)
    BY <2>1, <2>2, <2>3 DEF Hooked
  <2> QED
    BY <1>1, <2>1, <2>3, <2>4, <2>5 DEF TypeOK
<1> QED
  BY <1>2, <1>3

\* A task that a step does not touch stays in its phase.
LEMMA PhaseFrame ==
  ASSUME NEW t \in Tasks, Phase(t), TypeOK, TypeOK',
         st'[t] = st[t], coro'[t] = coro[t], waitingOn'[t] = waitingOn[t],
         soon'[t] = soon[t], Hooked(t)' = Hooked(t),
         \A f \in Futures : Finished(f) => Finished(f)',
         cur' = cur \/ {cur, cur'} \cap {t, Dead} = {}
  PROVE  Phase(t)'
<1>1. st[t] = "running" => waitingOn[t] \in Futures
  BY DEF TypeOK
<1>2. Unfinished(t)' <=> Unfinished(t)
  BY DEF Unfinished
<1>3. NoWake(t)' <=> NoWake(t)
  BY DEF NoWake
<1>4. Past(t) => Past(t)'
  BY <1>1 DEF Past
<1> QED
  BY <1>2, <1>3, <1>4 DEF Phase, Absent, Gone, Woken, Waiting, InStep, Stuck,
                          Torn

-----------------------------------------------------------------------------
(* Calls. *)

\* A call that fails changes nothing the invariant speaks of, but raised.
LEMMA FailsIInv ==
  ASSUME IInv, NEW error \in Errors, Fails(error)
  PROVE  IInv'
<1>1. /\ UNCHANGED <<st, coro, waitingOn, outcome, callbacks, queued, soon,
                    executed, cur>>
      /\ raised' \in Errors
  BY DEF Fails
<1>2. TypeOK'
  BY <1>1 DEF IInv, TypeOK
<1>3. HandedOver'
  BY <1>1 DEF IInv, HandedOver, Finished
<1>4. ASSUME NEW t \in Tasks
      PROVE  (Phase(t) /\ (Finished(t) <=> st[t] = "finished"))'
  BY <1>1 DEF IInv, Phase, Absent, Gone, Woken, Waiting, InStep, Stuck, Torn,
              NoWake, Past, Hooked, Unfinished, Finished
<1> QED
  BY <1>2, <1>3, <1>4 DEF IInv

\* create_task schedules the first step of a task nobody knows of.
LEMMA CreateTaskIInv ==
  ASSUME IInv, NEW t \in Tasks, CreateTask(t)
  PROVE  IInv'
<1> USE DEF IInv
<1>1. TypeOK'
  BY DEF CreateTask, TypeOK
<1>2. /\ HandedOver'
      /\ \A u \in Tasks : Hooked(u)' = Hooked(u)
      /\ \A f \in Futures : Finished(f)' <=> Finished(f)
  BY DEF CreateTask, HandedOver, Hooked, Finished
<1>3. Absent(t) /\ cur # t
  BY DEF CreateTask, Phase, Absent, Gone, Woken, Waiting, InStep, Stuck, Torn,
         Unfinished
<1>4. Phase(t)'
  BY <1>2, <1>3 DEF CreateTask, TypeOK, Phase, Absent, Woken, NoWake
<1>5. ASSUME NEW u \in Tasks, u # t PROVE Phase(u)'
  BY <1>1, <1>2, <1>5, PhaseFrame DEF CreateTask, TypeOK
<1>6. \A u \in Tasks : (Finished(u) <=> st[u] = "finished")'
  BY <1>2, <1>3 DEF CreateTask, TypeOK, Absent, Futures
<1> QED
  BY <1>1, <1>2, <1>4, <1>5, <1>6

\* SetResult and CancelPromise: the future of a promise gets its outcome.
LEMMA PromiseOutcomeIInv ==
  ASSUME IInv, NEW p \in Promises, ~Finished(p), NEW o \in Outcomes,
         SetOutcome(p, o), raised' = "none",
         UNCHANGED <<st, coro, waitingOn, soon, executed, cur>>
  PROVE  IInv'
<1> USE DEF IInv
<1>1. p \in Futures /\ p \notin Tasks
  BY TaskAssumption DEF Futures
<1>2. /\ HandedOver'
      /\ \A t \in Tasks : Hooked(t)' = Hooked(t)
      /\ \A g \in Futures : Finished(g)' <=> Finished(g) \/ g = p
  BY <1>1, SetOutcomeHooks
<1>3. TypeOK'
  BY <1>1, SetOutcomeHooks DEF TypeOK
<1>4. ASSUME NEW t \in Tasks PROVE Phase(t)'
  BY <1>2, <1>3, PhaseFrame
<1>5. \A t \in Tasks : (Finished(t) <=> st[t] = "finished")'
  BY <1>1, <1>2 DEF Futures
<1> QED
  BY <1>2, <1>3, <1>4, <1>5

\* Finishing a promise hands its callbacks over to the loop.
LEMMA SetResultIInv ==
  ASSUME IInv, NEW p \in Promises, SetResult(p)
  PROVE  IInv'
<1>1. CASE Finished(p)
  BY <1>1, FailsIInv DEF SetResult, Errors
<1>2. CASE ~Finished(p)
  BY <1>2, PromiseOutcomeIInv DEF SetResult, Outcomes
<1> QED
  BY <1>1, <1>2

\* Callbacks of users are not the steps of tasks: nobody's phase changes.
LEMMA AddCallbackIInv ==
  ASSUME IInv, NEW cb \in Callbacks, NEW f \in Futures, AddCallback(cb, f)
  PROVE  IInv'
<1>1. CASE Finished(f)
  BY <1>1, FailsIInv DEF AddCallback, Errors
<1>2. CASE ~Finished(f)
  <2> USE DEF IInv
  <2>1. /\ callbacks' = [callbacks EXCEPT ![f] = @ \cup {cb}]
        /\ raised' = "none"
        /\ UNCHANGED <<st, coro, waitingOn, outcome, queued, soon, executed, cur>>
    BY <1>2 DEF AddCallback
  <2>2. \A g \in Futures : Finished(g)' <=> Finished(g)
    BY <2>1 DEF Finished
  <2>3. /\ callbacks' \in [Futures -> SUBSET Cbs]
        /\ \A g \in Futures :
             callbacks'[g] = IF g = f THEN callbacks[f] \cup {cb} ELSE callbacks[g]
    BY <2>1 DEF TypeOK, Cbs
  <2>4. TypeOK'
    BY <2>1, <2>3 DEF TypeOK
  <2>5. HandedOver'
    BY <1>2, <2>1, <2>2, <2>3 DEF HandedOver, TypeOK
  <2>6. \A t \in Tasks : Hooked(t)' = Hooked(t)
    BY <2>1, <2>3, TaskAssumption DEF Hooked
  <2>7. ASSUME NEW t \in Tasks PROVE Phase(t)'
    BY <2>1, <2>2, <2>4, <2>6, PhaseFrame
  <2> QED
    BY <2>1, <2>2, <2>4, <2>5, <2>7 DEF Futures
<1> QED
  BY <1>1, <1>2

\* A user takes back no task's `_step`.
LEMMA RemoveCallbackIInv ==
  ASSUME IInv, NEW cb \in Callbacks, NEW f \in Futures, RemoveCallback(cb, f)
  PROVE  IInv'
<1> USE DEF IInv
<1>1. /\ HandedOver'
      /\ \A t \in Tasks : Hooked(t)' = Hooked(t)
      /\ \A g \in Futures : Finished(g)' <=> Finished(g)
      /\ TypeOK'
  BY UnhookHooks, TaskAssumption DEF RemoveCallback, TypeOK, Cbs
<1>2. ASSUME NEW t \in Tasks PROVE Phase(t)'
  BY <1>1, PhaseFrame DEF RemoveCallback
<1> QED
  BY <1>1, <1>2 DEF RemoveCallback, Futures

-----------------------------------------------------------------------------
(* Cancellation. *)

\* The first step becomes a throwing one: still one live handle.
LEMMA CancelScheduledIInv ==
  ASSUME IInv, NEW t \in Tasks, ~Finished(t), coro[t] # "running",
         st[t] = "scheduled", CancelScheduled(t)
  PROVE  IInv'
<1> USE DEF IInv
<1>1. CASE soon[t] = 0
  BY <1>1, FailsIInv DEF CancelScheduled, Errors
<1>2. CASE soon[t] # 0
  <2>1. InnerCancel(t) /\ UNCHANGED <<callbacks, queued>>
        /\ soon' = [soon EXCEPT ![t] = (@ - 1) + 1]
    BY <1>2 DEF CancelScheduled
  <2>2. Woken(t) /\ coro[t] = "created" /\ cur # t
    BY <1>2 DEF Phase, Absent, Gone, Woken, Waiting, InStep, Stuck, Torn, NoWake,
                TypeOK
  <2>3. TypeOK'
    BY <2>1, <2>2, TaskAssumption DEF InnerCancel, TypeOK, Woken, Futures
  <2>4. /\ HandedOver'
        /\ \A u \in Tasks : Hooked(u)' = Hooked(u)
        /\ \A g \in Futures : Finished(g)' <=> Finished(g)
    BY <2>1 DEF InnerCancel, HandedOver, Hooked, Finished
  <2>5. Phase(t)'
    BY <2>1, <2>2, <2>4 DEF InnerCancel, TypeOK, Phase, Woken
  <2>6. ASSUME NEW u \in Tasks, u # t PROVE Phase(u)'
    BY <2>1, <2>3, <2>4, <2>6, PhaseFrame DEF InnerCancel, TypeOK
  <2>7. \A u \in Tasks : (Finished(u) <=> st[u] = "finished")'
    BY <2>1, <2>4 DEF InnerCancel, TypeOK, Futures
  <2> QED
    BY <2>3, <2>4, <2>5, <2>6, <2>7
<1> QED
  BY <1>1, <1>2

\* The hook on the finished future is traded for a throwing step.
LEMMA CancelAwakenedIInv ==
  ASSUME IInv, NEW t \in Tasks, ~Finished(t), coro[t] # "running", Alive,
         st[t] = "running", ~PassesOn(t), CancelAwakened(t)
  PROVE  IInv'
<1> USE DEF IInv
<1>1. Unhook(t, waitingOn[t]) /\ InnerCancel(t)
      /\ soon' = [soon EXCEPT ![t] = @ + 1]
  BY DEF CancelAwakened
<1>2. waitingOn[t] \in Futures /\ Finished(waitingOn[t])
  BY DEF PassesOn, TypeOK
<1>3. /\ HandedOver'
      /\ \A u \in Tasks : Hooked(u)' = IF u = t THEN Hooked(t) \ {waitingOn[t]}
                                                ELSE Hooked(u)
      /\ \A g \in Futures : Finished(g)' <=> Finished(g)
      /\ callbacks' \in [Futures -> SUBSET Cbs]
      /\ queued' \subseteq Cbs \X Futures
  BY <1>1, <1>2, UnhookHooks DEF InnerCancel, Cbs
<1>4. TypeOK'
  <2>1. soon' \in [Tasks -> Nat]
    BY <1>1 DEF TypeOK
  <2>2. \A u \in Tasks : st'[u] = "running" <=> waitingOn'[u] # None
    BY <1>1 DEF InnerCancel, TypeOK
  <2> QED
    BY <1>1, <1>3, <2>1, <2>2 DEF InnerCancel, TypeOK
<1>5. cur # t /\ soon[t] = 0 /\ coro[t] = "suspended"
      /\ Hooked(t) \ {waitingOn[t]} = {}
  <2>1. cur # t
    BY DEF Phase, InStep
  <2>2. Waiting(t) \/ Stuck(t)
    BY <2>1 DEF Alive, Phase, Absent, Gone, Woken, Torn
  <2> QED
    BY <2>1, <2>2 DEF Waiting, Stuck, NoWake
<1>6. Phase(t)'
  BY <1>1, <1>3, <1>5 DEF InnerCancel, TypeOK, Phase, Woken
<1>7. ASSUME NEW u \in Tasks, u # t PROVE Phase(u)'
  BY <1>1, <1>3, <1>4, <1>7, PhaseFrame DEF InnerCancel, TypeOK
<1>8. \A u \in Tasks : (Finished(u) <=> st[u] = "finished")'
  BY <1>1, <1>3 DEF InnerCancel, TypeOK, Futures
<1> QED
  BY <1>3, <1>4, <1>6, <1>7, <1>8

\* cancel_future, at whichever end of the chain of awaited futures it acts.
LEMMA CancelIInv ==
  ASSUME IInv, NEW f \in Futures, Cancel(f)
  PROVE  IInv'
<1>1. PICK end \in Futures :
        IF PassesOn(end) THEN Fails("RecursionError") ELSE CancelAt(end)
  BY DEF Cancel
<1>2. Alive
  BY DEF Cancel
<1>3. CASE PassesOn(end)
  BY <1>1, <1>3, FailsIInv DEF Errors
<1>4. CASE ~PassesOn(end) /\ Finished(end)
  BY <1>1, <1>4, FailsIInv DEF CancelAt, Errors
<1>5. CASE ~PassesOn(end) /\ ~Finished(end) /\ end \in Promises
  <2>1. CancelPromise(end)
    BY <1>1, <1>5, TaskAssumption DEF CancelAt
  <2> QED
    BY <1>5, <2>1, PromiseOutcomeIInv DEF CancelPromise, Outcomes
<1>6. CASE ~PassesOn(end) /\ ~Finished(end) /\ end \in Tasks
  <2>1. IF coro[end] = "running" THEN Fails("Cancelled")
        ELSE \/ st[end] = "scheduled"  /\ CancelScheduled(end)
             \/ st[end] = "running"    /\ CancelAwakened(end)
             \/ st[end] = "cancelling" /\ Fails("AlreadyCancelling")
    BY <1>1, <1>6, TaskAssumption DEF CancelAt
  <2> QED
    BY <1>2, <1>6, <2>1, FailsIInv, CancelScheduledIInv, CancelAwakenedIInv
       DEF Errors
<1> QED
  BY <1>3, <1>4, <1>5, <1>6 DEF Futures

-----------------------------------------------------------------------------
(* The steps of a task. *)

\* What is true of a task when the loop takes one of its live handles.
LEMMA WakeFacts ==
  ASSUME IInv, NEW t \in Tasks, cur = None
  PROVE  /\ soon[t] > 0 => Woken(t)
         /\ \A f \in Futures : <<t, f>> \in queued => Waiting(t) /\ waitingOn[t] = f
<1>1. Absent(t) \/ Gone(t) \/ Woken(t) \/ Waiting(t) \/ Stuck(t) \/ Torn(t)
  BY TaskAssumption DEF IInv, Phase
<1>2. soon[t] > 0 => Woken(t)
  BY <1>1 DEF IInv, TypeOK, Absent, Gone, Waiting, Stuck, Torn, NoWake
<1>3. ASSUME NEW f \in Futures, <<t, f>> \in queued
      PROVE  Waiting(t) /\ waitingOn[t] = f
  <2>1. f \in Hooked(t)
    BY <1>3 DEF Hooked
  <2> QED
    BY <1>1, <2>1 DEF Absent, Gone, Woken, Waiting, Stuck, Torn, NoWake
<1> QED
  BY <1>2, <1>3

\* A first step, or a throw, begins.
LEMMA RunSoonIInv ==
  ASSUME IInv, NEW t \in Tasks, RunSoon(t)
  PROVE  IInv' /\ raised' = "none"
<1> USE DEF IInv
<1>1. cur = None /\ Woken(t) /\ soon' = [soon EXCEPT ![t] = @ - 1]
      /\ queued' = queued \cup ClosedNow(t) /\ executed' = executed
      /\ BeginStep(t)
  BY WakeFacts DEF RunSoon
<1>2. soon'[t] = 0 /\ soon' \in [Tasks -> Nat]
      /\ \A u \in Tasks : u # t => soon'[u] = soon[u]
  BY <1>1 DEF Woken, TypeOK
<1>3. cur # t /\ t \in Futures /\ cur # Dead
  BY <1>1, TaskAssumption DEF Futures
<1>4. CASE st[t] = "cancelling" /\ coro[t] = "created"
  <2>1. /\ coro' = [coro EXCEPT ![t] = "closed"]
        /\ st' = [st EXCEPT ![t] = "finished"]
        /\ SetOutcome(t, "cancelled")
        /\ raised' = "none"
        /\ UNCHANGED <<waitingOn, cur>>
    BY <1>1, <1>4 DEF BeginStep, ClosedNow, SetOutcome
  <2>2. ~Finished(t)
    BY <1>4
  <2>3. /\ HandedOver'
        /\ \A u \in Tasks : Hooked(u)' = Hooked(u)
        /\ \A g \in Futures : Finished(g)' <=> Finished(g) \/ g = t
    BY <1>3, <2>1, <2>2, SetOutcomeHooks DEF Outcomes
  <2>4. TypeOK'
    BY <1>1, <1>2, <1>3, <1>4, <2>1, <2>2, SetOutcomeHooks DEF Outcomes, TypeOK
  <2>5. Phase(t)'
    BY <1>1, <1>2, <1>3, <2>1, <2>3 DEF TypeOK, Phase, Gone, Woken, NoWake
  <2>6. ASSUME NEW u \in Tasks, u # t PROVE Phase(u)'
    BY <1>2, <2>1, <2>3, <2>4, <2>6, PhaseFrame DEF TypeOK
  <2>7. \A u \in Tasks : (Finished(u) <=> st[u] = "finished")'
    BY <2>1, <2>3 DEF TypeOK, Futures
  <2> QED
    BY <2>1, <2>3, <2>4, <2>5, <2>6, <2>7
<1>5. CASE ~(st[t] = "cancelling" /\ coro[t] = "created")
  <2>1. /\ coro' = [coro EXCEPT ![t] = "running"]
        /\ cur' = t
        /\ raised' = "none"
        /\ UNCHANGED <<st, waitingOn, outcome, callbacks, queued>>
    BY <1>1, <1>5 DEF BeginStep, ClosedNow, Woken
  <2>2. /\ HandedOver'
        /\ \A u \in Tasks : Hooked(u)' = Hooked(u)
        /\ \A g \in Futures : Finished(g)' <=> Finished(g)
    BY <2>1 DEF HandedOver, Hooked, Finished
  <2>3. TypeOK'
    BY <1>1, <1>2, <2>1 DEF TypeOK
  <2>4. Phase(t)'
    BY <1>1, <1>2, <2>1, <2>2
       DEF TypeOK, Phase, InStep, Woken, NoWake, Past, Unfinished
  <2>5. ASSUME NEW u \in Tasks, u # t PROVE Phase(u)'
    BY <1>1, <1>2, <1>3, <2>1, <2>2, <2>3, <2>5, TaskAssumption, PhaseFrame
       DEF TypeOK
  <2>6. \A u \in Tasks : (Finished(u) <=> st[u] = "finished")'
    BY <2>1, <2>2 DEF Futures
  <2> QED
    BY <2>1, <2>2, <2>3, <2>4, <2>5, <2>6
<1> QED
  BY <1>4, <1>5

\* The step that an awaited future woke begins.
LEMMA RunStepIInv ==
  ASSUME IInv, NEW t \in Tasks, NEW f \in Futures, RunStep(t, f)
  PROVE  IInv' /\ raised' = "none"
<1> USE DEF IInv
<1>1. cur = None /\ Waiting(t) /\ waitingOn[t] = f /\ <<t, f>> \in queued
      /\ BeginStep(t)
  BY WakeFacts DEF RunStep
<1>2. Finished(f) /\ callbacks[f] = {}
  BY <1>1 DEF HandedOver
<1>3. /\ coro' = [coro EXCEPT ![t] = "running"]
      /\ cur' = t
      /\ raised' = "none"
      /\ queued' = queued \ {<<t, f>>}
      /\ executed' = executed \cup {<<t, f>>}
      /\ UNCHANGED <<st, waitingOn, outcome, callbacks, soon>>
  BY <1>1, <1>2 DEF RunStep, BeginStep, ClosedNow, Waiting
<1>4. /\ HandedOver'
      /\ \A u \in Tasks : Hooked(u)' = IF u = t THEN {} ELSE Hooked(u)
      /\ \A g \in Futures : Finished(g)' <=> Finished(g)
  BY <1>1, <1>2, <1>3 DEF HandedOver, Hooked, Finished, Waiting, TypeOK
<1>5. TypeOK'
  BY <1>3 DEF TypeOK, Cbs
<1>6. Phase(t)'
  BY <1>1, <1>2, <1>3, <1>4
     DEF TypeOK, Phase, InStep, Waiting, NoWake, Past, Unfinished
<1>7. ASSUME NEW u \in Tasks, u # t PROVE Phase(u)'
  BY <1>1, <1>3, <1>4, <1>5, <1>7, TaskAssumption, PhaseFrame DEF TypeOK
<1> QED
  BY <1>3, <1>4, <1>5, <1>6, <1>7 DEF Futures

\* A user's callback is invoked.
LEMMA RunCallbackIInv ==
  ASSUME IInv, NEW cb \in Callbacks, NEW f \in Futures, RunCallback(cb, f)
  PROVE  IInv'
<1> USE DEF IInv
<1>1. /\ HandedOver'
      /\ \A u \in Tasks : Hooked(u)' = Hooked(u)
      /\ \A g \in Futures : Finished(g)' <=> Finished(g)
  BY TaskAssumption DEF RunCallback, HandedOver, Hooked, Finished
<1>2. TypeOK'
  BY DEF RunCallback, TypeOK, Cbs
<1>3. ASSUME NEW u \in Tasks PROVE Phase(u)'
  BY <1>1, <1>2, PhaseFrame DEF RunCallback
<1> QED
  BY <1>1, <1>2, <1>3 DEF RunCallback, Futures

\* A step ends the task.
LEMMA ConcludeIInv ==
  ASSUME IInv, NEW t \in Tasks, NEW o \in Outcomes, Conclude(t, o)
  PROVE  IInv'
<1> USE DEF IInv
<1>1. InStep(t) /\ ~Finished(t) /\ t \in Futures
  BY DEF Conclude, Phase, InStep, Unfinished, Futures
<1>2. /\ HandedOver'
      /\ \A u \in Tasks : Hooked(u)' = Hooked(u)
      /\ \A g \in Futures : Finished(g)' <=> Finished(g) \/ g = t
  BY <1>1, SetOutcomeHooks DEF Conclude
<1>3. TypeOK'
  BY <1>1, SetOutcomeHooks, TaskAssumption DEF Conclude, TypeOK, Futures
<1>4. Phase(t)'
  BY <1>1, <1>2, TaskAssumption
     DEF Conclude, TypeOK, Phase, Gone, InStep, NoWake
<1>5. ASSUME NEW u \in Tasks, u # t PROVE Phase(u)'
  BY <1>2, <1>3, <1>5, TaskAssumption, PhaseFrame DEF Conclude, TypeOK
<1>6. \A u \in Tasks : (Finished(u) <=> st[u] = "finished")'
  BY <1>2 DEF Conclude, TypeOK, Futures
<1> QED
  BY <1>2, <1>3, <1>4, <1>5, <1>6

\* The step that ends has no hook, so the clean-up of `finally` finds nothing.
LEMMA AwaitIInv ==
  ASSUME IInv, NEW t \in Tasks, NEW f \in Futures, Await(t, f)
  PROVE  IInv'
<1> USE DEF IInv
<1>1. cur = t /\ InStep(t) /\ ~Finished(f)
  BY DEF Await, Phase
<1>2. /\ callbacks' \in [Futures -> SUBSET Cbs]
      /\ \A g \in Futures :
           callbacks'[g] = IF g = f THEN callbacks[g] \cup {t} ELSE callbacks[g]
      /\ queued' = queued
  <2>1. \A g \in Futures : t \notin callbacks[g] /\ <<t, g>> \notin queued
    BY <1>1 DEF InStep, NoWake, Hooked
  <2>2. queued' = queued
    BY <2>1, <1>1 DEF Await, TypeOK
  <2>3. /\ callbacks' \in [Futures -> SUBSET Cbs]
        /\ \A g \in Futures :
             callbacks'[g] = IF g = f THEN callbacks[g] \cup {t} ELSE callbacks[g]
    BY <2>1 DEF Await, TypeOK, Cbs
  <2> QED
    BY <2>2, <2>3
<1>3. \A g \in Futures : Finished(g)' <=> Finished(g)
  BY DEF Await, Finished
<1>4. HandedOver'
  BY <1>1, <1>2, <1>3 DEF HandedOver, TypeOK
<1>5. \A u \in Tasks : Hooked(u)' = IF u = t THEN {f} ELSE Hooked(u)
  BY <1>1, <1>2 DEF Hooked, InStep, NoWake
<1>6. TypeOK'
  BY <1>2, TaskAssumption DEF Await, TypeOK, Futures
<1>7. Phase(t)'
  BY <1>1, <1>5, TaskAssumption
     DEF Await, TypeOK, Phase, InStep, Waiting, NoWake
<1>8. ASSUME NEW u \in Tasks, u # t PROVE Phase(u)'
  BY <1>3, <1>5, <1>6, <1>8, TaskAssumption, PhaseFrame DEF Await, TypeOK
<1>9. \A u \in Tasks : (Finished(u) <=> st[u] = "finished")'
  BY <1>1, <1>3 DEF Await, TypeOK, Futures, InStep, Unfinished
<1> QED
  BY <1>4, <1>6, <1>7, <1>8, <1>9

\* YieldBad and Escape change what the coroutine is, and no hook.
LEMMA LeaveAwaitedHooks ==
  ASSUME IInv, NEW t \in Tasks, cur = t, LeaveAwaited(t), UNCHANGED outcome
  PROVE  /\ HandedOver'
         /\ \A u \in Tasks : Hooked(u)' = Hooked(u)
         /\ \A g \in Futures : Finished(g)' <=> Finished(g)
         /\ callbacks' \in [Futures -> SUBSET Cbs]
         /\ queued' \subseteq Cbs \X Futures
<1> USE DEF IInv
<1>1. Hooked(t) = {}
  BY DEF Phase, InStep, NoWake
<1>2. CASE st[t] = "running"
  <2>1. waitingOn[t] \in Futures /\ t \in Cbs
    BY <1>2 DEF TypeOK, Cbs
  <2>2. Unhook(t, waitingOn[t])
    BY <1>2 DEF LeaveAwaited
  <2> QED
    BY <1>1, <2>1, <2>2, UnhookHooks
<1>3. CASE st[t] # "running"
  BY <1>3 DEF LeaveAwaited, HandedOver, Hooked, Finished, TypeOK
<1> QED
  BY <1>2, <1>3

\* A step ends in an error of the user's, and leaves the task as it is.
LEMMA YieldBadIInv ==
  ASSUME IInv, NEW t \in Tasks, YieldBad(t)
  PROVE  IInv'
<1> USE DEF IInv
<1>1. InStep(t) /\ t \in Misuse /\ cur = t
  BY DEF YieldBad, Phase
<1>2. /\ HandedOver'
      /\ \A u \in Tasks : Hooked(u)' = Hooked(u)
      /\ \A g \in Futures : Finished(g)' <=> Finished(g)
  BY <1>1, LeaveAwaitedHooks DEF YieldBad
<1>3. TypeOK'
  BY <1>1, LeaveAwaitedHooks DEF YieldBad, TypeOK, Errors
<1>4. Phase(t)'
  BY <1>1, <1>2, <1>3, TaskAssumption
     DEF YieldBad, TypeOK, Phase, InStep, Stuck, NoWake, Past, Unfinished
<1>5. ASSUME NEW u \in Tasks, u # t PROVE Phase(u)'
  BY <1>2, <1>3, <1>5, TaskAssumption, PhaseFrame DEF YieldBad, TypeOK
<1> QED
  BY <1>2, <1>3, <1>4, <1>5 DEF YieldBad, Futures

\* A step ends the loop.
LEMMA EscapeIInv ==
  ASSUME IInv, NEW t \in Tasks, Escape(t)
  PROVE  IInv'
<1> USE DEF IInv
<1>1. InStep(t) /\ t \in Fatal /\ cur = t
  BY DEF Escape, Phase
<1>2. /\ HandedOver'
      /\ \A u \in Tasks : Hooked(u)' = Hooked(u)
      /\ \A g \in Futures : Finished(g)' <=> Finished(g)
  BY <1>1, LeaveAwaitedHooks DEF Escape
<1>3. TypeOK'
  BY <1>1, LeaveAwaitedHooks DEF Escape, TypeOK
<1>4. Phase(t)'
  BY <1>1, <1>2, <1>3, TaskAssumption
     DEF Escape, TypeOK, Phase, InStep, Torn, NoWake, Unfinished
<1>5. ASSUME NEW u \in Tasks, u # t PROVE Phase(u)'
  <2>1. Absent(u) \/ Gone(u) \/ Woken(u) \/ Waiting(u) \/ Stuck(u)
    BY <1>1, <1>5, TaskAssumption DEF Phase, Torn
  <2>2. cur' # u
    BY TaskAssumption DEF Escape
  <2> QED
    BY <1>2, <1>5, <2>1, <2>2
       DEF Escape, TypeOK, Phase, Absent, Gone, Woken, Waiting, Stuck, NoWake,
           Past, Unfinished
<1> QED
  BY <1>2, <1>3, <1>4, <1>5 DEF Escape, Futures

-----------------------------------------------------------------------------
(* The theorems. *)

\* IInv is inductive.
LEMMA NextIInv == IInv /\ [Next]_vars => IInv'
<1> SUFFICES ASSUME IInv, [Next]_vars PROVE IInv'
  OBVIOUS
<1>1. ASSUME NEW t \in Tasks, CreateTask(t) PROVE IInv'
  BY <1>1, CreateTaskIInv
<1>2. ASSUME NEW t \in Tasks, RunSoon(t) PROVE IInv'
  BY <1>2, RunSoonIInv
<1>3. ASSUME NEW t \in Tasks, EndStep(t) PROVE IInv'
  BY <1>3, ConcludeIInv, AwaitIInv, YieldBadIInv, EscapeIInv DEF EndStep
<1>4. ASSUME NEW p \in Promises, SetResult(p) PROVE IInv'
  BY <1>4, SetResultIInv
<1>5. ASSUME NEW f \in Futures, Cancel(f) PROVE IInv'
  BY <1>5, CancelIInv
<1>6. ASSUME NEW cb \in Callbacks, NEW f \in Futures,
             AddCallback(cb, f) \/ RemoveCallback(cb, f) \/ RunCallback(cb, f)
      PROVE  IInv'
  BY <1>6, AddCallbackIInv, RemoveCallbackIInv, RunCallbackIInv
<1>7. ASSUME NEW t \in Tasks, NEW f \in Futures, RunStep(t, f) PROVE IInv'
  BY <1>7, RunStepIInv
<1>8. CASE UNCHANGED vars
  BY <1>8 DEF vars, IInv, TypeOK, HandedOver, Phase, Absent, Gone, Woken,
              Waiting, InStep, Stuck, Torn, NoWake, Past, Hooked, Unfinished,
              Finished
<1> QED
  BY <1>1, <1>2, <1>3, <1>4, <1>5, <1>6, <1>7, <1>8 DEF Next

\* The invariant of every reachable state of futures and tasks.
THEOREM SpecIInv == Spec => []IInv
  BY InitIInv, NextIInv, PTL DEF Spec

\* Type correctness: the state objects keep the shape pure.py gives them.
THEOREM TypeCorrect == Spec => []TypeOK
<1>1. IInv => TypeOK
  BY DEF IInv
<1> QED
  BY <1>1, SpecIInv, PTL

\* For any number of tasks and promises, a suspended task has exactly one way
\* to be resumed, however cancellations, results and steps interleave.
THEOREM NoLostWakeupHolds == Spec => []NoLostWakeup
<1>1. IInv => NoLostWakeup
  <2> SUFFICES ASSUME IInv, NEW t \in Tasks \ Misuse, Unfinished(t),
                      cur \notin {t, Dead}
               PROVE  \/ soon[t] = 1 /\ Hooked(t) = {} /\ st[t] # "running"
                      \/ soon[t] = 0 /\ Hooked(t) = {waitingOn[t]} /\ st[t] = "running"
    BY DEF NoLostWakeup
  <2>1. Woken(t) \/ Waiting(t)
    BY DEF IInv, Phase, Absent, Gone, Stuck, Torn, Unfinished
  <2> QED
    BY <2>1 DEF Woken, Waiting
<1> QED
  BY <1>1, SpecIInv, PTL

\* No task ever has two steps coming, nor one while it runs or after its end,
\* misused tasks included.
THEOREM NoStrayStepHolds == Spec => []NoStrayStep
<1>1. IInv => NoStrayStep
  <2> SUFFICES ASSUME IInv, NEW t \in Tasks
               PROVE  /\ soon[t] > 0 => soon[t] = 1 /\ Hooked(t) = {}
                      /\ \A f, g \in Hooked(t) : f = g
                      /\ t = cur \/ ~Unfinished(t) =>
                           soon[t] = 0 /\ Hooked(t) = {}
    BY DEF NoStrayStep
  <2>1. CASE cur = t
    BY <2>1 DEF IInv, Phase, InStep, NoWake
  <2>2. CASE cur # t
    BY <2>2 DEF IInv, Phase, Absent, Gone, Woken, Waiting, Stuck, Torn, NoWake,
                Unfinished
  <2> QED
    BY <2>1, <2>2
<1> QED
  BY <1>1, SpecIInv, PTL

\* The RuntimeErrors that guard Task._step and Future.__await__ are unreachable.
THEOREM NoBadResumeHolds == Spec => []NoBadResume
<1>1. Init => NoBadResume
  BY DEF Init, NoBadResume
<1>2. IInv /\ NoBadResume /\ [Next]_vars => NoBadResume'
  <2> SUFFICES ASSUME IInv, NoBadResume, [Next]_vars PROVE NoBadResume'
    OBVIOUS
  <2>1. ASSUME NEW t \in Tasks,
               RunSoon(t) \/ \E f \in Futures : RunStep(t, f)
        PROVE  NoBadResume'
    BY <2>1, RunSoonIInv, RunStepIInv DEF NoBadResume
  <2>2. ASSUME NEW t \in Tasks, CreateTask(t) \/ EndStep(t)
        PROVE  NoBadResume'
    BY <2>2 DEF NoBadResume, CreateTask, EndStep, Conclude, Await, YieldBad,
                Escape
  <2>3. ASSUME NEW f \in Futures, Cancel(f) PROVE NoBadResume'
    BY <2>3 DEF NoBadResume, Cancel, CancelAt, CancelPromise, CancelScheduled,
                CancelAwakened, InnerCancel, Fails
  <2>4. ASSUME NEW p \in Promises, SetResult(p) PROVE NoBadResume'
    BY <2>4 DEF NoBadResume, SetResult, Fails
  <2>5. ASSUME NEW cb \in Callbacks, NEW f \in Futures,
               AddCallback(cb, f) \/ RemoveCallback(cb, f) \/ RunCallback(cb, f)
        PROVE  NoBadResume'
    BY <2>5 DEF NoBadResume, AddCallback, RemoveCallback, RunCallback, Fails
  <2>6. CASE UNCHANGED vars
    BY <2>6 DEF NoBadResume, vars
  <2> QED
    BY <2>1, <2>2, <2>3, <2>4, <2>5, <2>6 DEF Next
<1> QED
  BY <1>1, <1>2, SpecIInv, PTL DEF Spec

\* With coroutines that only yield what they may, the assertion of Task._cancel
\* about the handle of the first step cannot fail.
THEOREM AssertionHolds == Misuse = {} => (Spec => []FirstStepNotExecuted)
<1> SUFFICES ASSUME Misuse = {} PROVE Spec => []FirstStepNotExecuted
  OBVIOUS
<1>1. Init => FirstStepNotExecuted
  BY DEF Init, FirstStepNotExecuted
<1>2. IInv /\ FirstStepNotExecuted /\ [Next]_vars => FirstStepNotExecuted'
  <2> SUFFICES ASSUME IInv, FirstStepNotExecuted, [Next]_vars
               PROVE  FirstStepNotExecuted'
    OBVIOUS
  <2>1. ASSUME NEW f \in Futures, Cancel(f) PROVE FirstStepNotExecuted'
    <3>1. PICK end \in Futures :
            IF PassesOn(end) THEN Fails("RecursionError") ELSE CancelAt(end)
      BY <2>1 DEF Cancel
    <3>2. CASE PassesOn(end) \/ Finished(end) \/ end \in Promises
      BY <3>1, <3>2, TaskAssumption
         DEF FirstStepNotExecuted, CancelAt, CancelPromise, Fails
    <3>3. CASE /\ ~PassesOn(end) /\ ~Finished(end)
               /\ end \in Tasks /\ st[end] # "scheduled"
      BY <3>1, <3>3, TaskAssumption
         DEF FirstStepNotExecuted, CancelAt, CancelAwakened, InnerCancel, Fails
    <3>4. CASE /\ ~PassesOn(end) /\ ~Finished(end)
               /\ end \in Tasks /\ st[end] = "scheduled"
      <4>1. cur # Dead
        BY <2>1 DEF Cancel, Alive
      <4>2. coro[end] = "running" \/ soon[end] = 1
        BY <3>4, <4>1 DEF IInv, Phase, Absent, Gone, Woken, Waiting, InStep,
                          Stuck, Torn
      <4>3. CancelAt(end)
        BY <3>1, <3>4
      <4> QED
        BY <3>4, <4>2, <4>3, TaskAssumption
           DEF FirstStepNotExecuted, CancelAt, CancelScheduled, InnerCancel, Fails
    <3> QED
      BY <3>2, <3>3, <3>4 DEF Futures
  <2>2. ASSUME NEW t \in Tasks,
               CreateTask(t) \/ RunSoon(t) \/ EndStep(t)
                 \/ \E f \in Futures : RunStep(t, f)
        PROVE  FirstStepNotExecuted'
    BY <2>2, RunSoonIInv, RunStepIInv
       DEF FirstStepNotExecuted, CreateTask, EndStep, Conclude, Await, YieldBad,
           Escape
  <2>3. ASSUME NEW p \in Promises, SetResult(p) PROVE FirstStepNotExecuted'
    BY <2>3 DEF FirstStepNotExecuted, SetResult, Fails
  <2>4. ASSUME NEW cb \in Callbacks, NEW f \in Futures,
               AddCallback(cb, f) \/ RemoveCallback(cb, f) \/ RunCallback(cb, f)
        PROVE  FirstStepNotExecuted'
    BY <2>4 DEF FirstStepNotExecuted, AddCallback, RemoveCallback, RunCallback,
                Fails
  <2>5. CASE UNCHANGED vars
    BY <2>5 DEF FirstStepNotExecuted, vars
  <2> QED
    BY <2>1, <2>2, <2>3, <2>4, <2>5 DEF Next
<1> QED
  BY <1>1, <1>2, SpecIInv, PTL DEF Spec

-----------------------------------------------------------------------------
(* Futures implement FutureCell. *)

\* What the loop has invoked belongs to a finished future and is not live.
Ran == \A e \in executed : Finished(e[2]) /\ e \notin queued

\* To finish a future is to owe its subscribers the delivery.
LEMMA CellFinish ==
  ASSUME TypeOK, HandedOver, Ran, NEW f \in Futures, ~Finished(f),
         NEW o \in Outcomes, SetOutcome(f, o), UNCHANGED executed
  PROVE  Cell!Finish(f, o) /\ Ran'
<1>1. /\ outcome' = [outcome EXCEPT ![f] = o]
      /\ queued' = queued \cup (callbacks[f] \X {f})
      /\ \A g \in Futures : callbacks'[g] = IF g = f THEN {} ELSE callbacks[g]
  BY DEF SetOutcome, TypeOK
<1>2. Ran'
  BY <1>1, SetOutcomeHooks DEF Ran, TypeOK
<1>3. ASSUME NEW e \in Cbs \X Futures
      PROVE  sub'[e] = IF e[2] = f /\ sub[e] = "waiting" THEN "owed" ELSE sub[e]
  <2>1. e[1] \in Cbs /\ e[2] \in Futures /\ e = <<e[1], e[2]>>
    OBVIOUS
  <2>2. e \in queued' <=> e \in queued \/ (e[2] = f /\ e[1] \in callbacks[f])
    BY <1>1, <2>1
  <2>3. e \in queued => e[2] # f
    BY DEF HandedOver
  <2> QED
    BY <1>1, <2>1, <2>2, <2>3 DEF sub, HandedOver, Ran
<1> QED
  BY <1>1, <1>2, <1>3 DEF Cell!Finish, Finished, sub

\* remove_callback withdraws a subscription, or there was none to withdraw.
LEMMA CellUnhook ==
  ASSUME TypeOK, HandedOver, Ran, NEW cb \in Cbs, NEW f \in Futures,
         Unhook(cb, f), UNCHANGED <<outcome, executed>>
  PROVE  (Cell!Withdraw(cb, f) \/ UNCHANGED Cell!cellVars) /\ Ran'
<1> DEFINE d == <<cb, f>>
<1>1. d \in Cbs \X Futures
  OBVIOUS
<1>2. /\ \A e \in Cbs \X Futures : e \in queued' <=>
           e \in queued /\ ~(e = d /\ Finished(f))
      /\ \A e \in Cbs \X Futures : e[1] \in callbacks'[e[2]] <=>
           e[1] \in callbacks[e[2]] /\ ~(e = d /\ ~Finished(f))
      /\ queued' \subseteq queued
  <2>1. CASE Finished(f)
    BY <2>1 DEF Unhook
  <2>2. CASE ~Finished(f)
    <3>1. /\ queued' = queued
          /\ \A g \in Futures :
               callbacks'[g] = IF g = f THEN callbacks[f] \ {cb} ELSE callbacks[g]
      BY <2>2 DEF Unhook, TypeOK
    <3>2. ASSUME NEW e \in Cbs \X Futures
          PROVE  e[1] \in callbacks'[e[2]] <=>
                   e[1] \in callbacks[e[2]] /\ e # d
      <4>1. e = <<e[1], e[2]>> /\ e[2] \in Futures
        OBVIOUS
      <4> QED
        BY <3>1, <4>1
    <3> QED
      BY <2>2, <3>1, <3>2
  <2> QED
    BY <2>1, <2>2
<1>3. Ran'
  BY <1>2 DEF Ran, Finished
<1>4. d \in queued => Finished(f)
  BY DEF HandedOver
<1>5. cb \in callbacks[f] => ~Finished(f)
  BY DEF HandedOver
<1>6. ASSUME NEW e \in Cbs \X Futures
      PROVE  sub'[e] = IF e = d /\ sub[d] \in {"waiting", "owed"} THEN "none"
                       ELSE sub[e]
  <2>1. CASE e # d
    BY <1>2, <2>1 DEF sub
  <2>2. CASE e = d
    BY <1>1, <1>2, <1>4, <1>5, <2>2 DEF sub, Ran
  <2> QED
    BY <2>1, <2>2
<1>7. CASE sub[d] \in {"waiting", "owed"}
  BY <1>1, <1>3, <1>6, <1>7 DEF Cell!Withdraw, sub
<1>8. CASE sub[d] \notin {"waiting", "owed"}
  <2>1. sub' = sub
    BY <1>6, <1>8 DEF sub
  <2> QED
    BY <1>3, <2>1 DEF Cell!cellVars
<1> QED
  BY <1>7, <1>8

\* add_callback.
LEMMA CellSubscribe ==
  ASSUME TypeOK, HandedOver, Ran, NEW cb \in Cbs, NEW f \in Futures,
         ~Finished(f), callbacks' = [callbacks EXCEPT ![f] = @ \cup {cb}],
         UNCHANGED <<outcome, queued, executed>>
  PROVE  Cell!Subscribe(cb, f) /\ Ran'
<1>1. \A g \in Futures :
        callbacks'[g] = IF g = f THEN callbacks[f] \cup {cb} ELSE callbacks[g]
  BY DEF TypeOK
<1>2. ASSUME NEW e \in Cbs \X Futures
      PROVE  sub'[e] = IF e = <<cb, f>> THEN "waiting" ELSE sub[e]
  <2>1. e = <<e[1], e[2]>> /\ e[2] \in Futures
    OBVIOUS
  <2> QED
    BY <1>1, <2>1 DEF sub
<1>3. Ran'
  BY DEF Ran, Finished
<1> QED
  BY <1>2, <1>3 DEF Cell!Subscribe, sub, Finished

\* The loop invokes a live handle of scheduled_cbs.
LEMMA CellDeliver ==
  ASSUME TypeOK, HandedOver, Ran, NEW cb \in Cbs, NEW f \in Futures,
         <<cb, f>> \in queued, queued' = queued \ {<<cb, f>>},
         executed' = executed \cup {<<cb, f>>}, UNCHANGED <<outcome, callbacks>>
  PROVE  Cell!Deliver(cb, f) /\ Ran'
<1>1. Finished(f) /\ callbacks[f] = {}
  BY DEF HandedOver
<1>2. ASSUME NEW e \in Cbs \X Futures
      PROVE  sub'[e] = IF e = <<cb, f>> THEN "done" ELSE sub[e]
  BY <1>1 DEF sub
<1>3. Ran'
  BY <1>1 DEF Ran, Finished
<1>4. sub[<<cb, f>>] = "owed"
  BY <1>1 DEF sub
<1> QED
  BY <1>2, <1>3, <1>4 DEF Cell!Deliver, sub

\* What touches no callback and no outcome is a stutter of the cell.
LEMMA CellSame ==
  ASSUME Ran, UNCHANGED <<outcome, callbacks, queued, executed>>
  PROVE  [Cell!CellNext]_Cell!cellVars /\ Ran'
<1>1. sub' = sub
  BY DEF sub
<1> QED
  BY <1>1 DEF Ran, Finished, Cell!cellVars

\* cancel_future finishes a future, withdraws a task from one, or stutters.
LEMMA CellCancel ==
  ASSUME IInv, Ran, NEW f \in Futures, Cancel(f)
  PROVE  [Cell!CellNext]_Cell!cellVars /\ Ran'
<1> USE DEF IInv
<1>1. PICK end \in Futures :
        IF PassesOn(end) THEN Fails("RecursionError") ELSE CancelAt(end)
  BY DEF Cancel
<1>2. CASE \E error \in Errors : Fails(error)
  BY <1>2, CellSame DEF Fails
<1>3. CASE ~Finished(end) /\ CancelPromise(end)
  BY <1>3, CellFinish DEF CancelPromise, Cell!CellNext, Outcomes, Cell!Outcomes
<1>4. CASE ~Finished(end) /\ end \in Tasks /\ CancelScheduled(end)
  <2>1. Fails("AssertionError") \/ UNCHANGED <<outcome, callbacks, queued, executed>>
    BY <1>4 DEF CancelScheduled, InnerCancel
  <2> QED
    BY <2>1, CellSame DEF Fails
<1>5. CASE /\ end \in Tasks /\ st[end] = "running" /\ CancelAwakened(end)
  <2>1. waitingOn[end] \in Futures /\ end \in Cbs
    BY <1>5 DEF TypeOK, Cbs
  <2>2. Unhook(end, waitingOn[end]) /\ UNCHANGED <<outcome, executed>>
    BY <1>5 DEF CancelAwakened, InnerCancel
  <2> QED
    BY <2>1, <2>2, CellUnhook DEF Cell!CellNext
<1> QED
  BY <1>1, <1>2, <1>3, <1>4, <1>5, TaskAssumption DEF CancelAt, Errors, Futures

\* So does the end of a task's step.
LEMMA CellEndStep ==
  ASSUME IInv, Ran, NEW t \in Tasks, EndStep(t)
  PROVE  [Cell!CellNext]_Cell!cellVars /\ Ran'
<1> USE DEF IInv
<1>1. cur = t /\ InStep(t) /\ ~Finished(t) /\ t \in Futures /\ t \in Cbs
  BY DEF EndStep, Conclude, Await, YieldBad, Escape, Phase, InStep, Unfinished,
         Futures, Cbs
<1>2. \A g \in Futures : t \notin callbacks[g] /\ <<t, g>> \notin queued
  BY <1>1 DEF InStep, NoWake, Hooked
<1>3. ASSUME NEW o \in Outcomes, Conclude(t, o)
      PROVE  [Cell!CellNext]_Cell!cellVars /\ Ran'
  BY <1>1, <1>3, CellFinish DEF Conclude, Cell!CellNext, Outcomes, Cell!Outcomes
<1>4. ASSUME NEW f \in Futures, Await(t, f)
      PROVE  [Cell!CellNext]_Cell!cellVars /\ Ran'
  <2>1. ~Finished(f) /\ UNCHANGED <<outcome, executed>>
    BY <1>4 DEF Await
  <2>2. queued' = queued
    BY <1>1, <1>2, <1>4 DEF Await, TypeOK
  <2>3. callbacks' = [callbacks EXCEPT ![f] = @ \cup {t}]
    <3>1. ASSUME NEW g \in Futures
          PROVE  callbacks'[g] = IF g = f THEN callbacks[f] \cup {t}
                                 ELSE callbacks[g]
      BY <1>2, <1>4 DEF Await
    <3>2. callbacks' = [g \in Futures |-> callbacks'[g]]
      BY <1>4 DEF Await
    <3> QED
      BY <3>1, <3>2 DEF TypeOK
  <2> QED
    BY <1>1, <2>1, <2>2, <2>3, CellSubscribe DEF Cell!CellNext
<1>5. ASSUME YieldBad(t) \/ Escape(t)
      PROVE  [Cell!CellNext]_Cell!cellVars /\ Ran'
  <2>1. LeaveAwaited(t) /\ UNCHANGED <<outcome, executed>>
    BY <1>5 DEF YieldBad, Escape
  <2>2. CASE st[t] = "running"
    <3>1. waitingOn[t] \in Futures /\ Unhook(t, waitingOn[t])
      BY <2>1, <2>2 DEF LeaveAwaited, TypeOK
    <3> QED
      BY <1>1, <2>1, <3>1, CellUnhook DEF Cell!CellNext
  <2>3. CASE st[t] # "running"
    BY <2>1, <2>3, CellSame DEF LeaveAwaited
  <2> QED
    BY <2>2, <2>3
<1> QED
  BY <1>3, <1>4, <1>5 DEF EndStep

\* The step of a task that was woken is the delivery it was owed.
LEMMA CellWake ==
  ASSUME IInv, Ran, NEW t \in Tasks,
         RunSoon(t) \/ \E f \in Futures : RunStep(t, f)
  PROVE  [Cell!CellNext]_Cell!cellVars /\ Ran'
<1> USE DEF IInv
<1>1. ASSUME RunSoon(t) PROVE [Cell!CellNext]_Cell!cellVars /\ Ran'
  <2>1. cur = None /\ Woken(t) /\ BeginStep(t) /\ executed' = executed
        /\ queued' = queued \cup ClosedNow(t)
    BY <1>1, WakeFacts DEF RunSoon
  <2>2. CASE st[t] = "cancelling" /\ coro[t] = "created"
    <3>1. SetOutcome(t, "cancelled")
      BY <2>1, <2>2 DEF BeginStep, ClosedNow, SetOutcome
    <3>2. ~Finished(t) /\ t \in Futures
      BY <2>2 DEF Futures
    <3> QED
      BY <2>1, <3>1, <3>2, CellFinish DEF Cell!CellNext, Outcomes, Cell!Outcomes
  <2>3. CASE ~(st[t] = "cancelling" /\ coro[t] = "created")
    BY <2>1, <2>3, CellSame DEF BeginStep, ClosedNow, Woken
  <2> QED
    BY <2>2, <2>3
<1>2. ASSUME NEW f \in Futures, RunStep(t, f)
      PROVE  [Cell!CellNext]_Cell!cellVars /\ Ran'
  <2>1. Waiting(t) /\ <<t, f>> \in queued /\ t \in Cbs
    BY <1>2, WakeFacts DEF RunStep, Cbs
  <2>2. /\ queued' = queued \ {<<t, f>>}
        /\ executed' = executed \cup {<<t, f>>}
        /\ UNCHANGED <<outcome, callbacks>>
    BY <1>2, <2>1 DEF RunStep, BeginStep, ClosedNow, Waiting
  <2> QED
    BY <2>1, <2>2, CellDeliver DEF Cell!CellNext
<1> QED
  BY <1>1, <1>2

\* Every outcome is set once and delivered exactly once to each subscription
\* that stands, whatever tasks, promises and callbacks there are.
THEOREM TaskImplementsCell == Spec => ImplementsCell
<1>1. Init => Cell!CellInit /\ Ran
  BY DEF Init, Ran, Cell!CellInit, sub
<1>2. IInv /\ Ran /\ [Next]_vars => [Cell!CellNext]_Cell!cellVars /\ Ran'
  <2> SUFFICES ASSUME IInv, Ran, [Next]_vars
               PROVE  [Cell!CellNext]_Cell!cellVars /\ Ran'
    OBVIOUS
  <2> USE DEF IInv
  <2>1. ASSUME NEW t \in Tasks, CreateTask(t)
        PROVE  [Cell!CellNext]_Cell!cellVars /\ Ran'
    BY <2>1, CellSame DEF CreateTask
  <2>2. ASSUME NEW t \in Tasks,
               RunSoon(t) \/ \E f \in Futures : RunStep(t, f)
        PROVE  [Cell!CellNext]_Cell!cellVars /\ Ran'
    BY <2>2, CellWake
  <2>3. ASSUME NEW t \in Tasks, EndStep(t)
        PROVE  [Cell!CellNext]_Cell!cellVars /\ Ran'
    BY <2>3, CellEndStep
  <2>4. ASSUME NEW f \in Futures, Cancel(f)
        PROVE  [Cell!CellNext]_Cell!cellVars /\ Ran'
    BY <2>4, CellCancel
  <2>5. ASSUME NEW p \in Promises, SetResult(p)
        PROVE  [Cell!CellNext]_Cell!cellVars /\ Ran'
    <3>1. CASE Finished(p)
      BY <2>5, <3>1, CellSame DEF SetResult, Fails
    <3>2. CASE ~Finished(p)
      BY <2>5, <3>2, CellFinish
         DEF SetResult, Futures, Cell!CellNext, Outcomes, Cell!Outcomes
    <3> QED
      BY <3>1, <3>2
  <2>6. ASSUME NEW cb \in Callbacks, NEW f \in Futures, AddCallback(cb, f)
        PROVE  [Cell!CellNext]_Cell!cellVars /\ Ran'
    <3>1. CASE Finished(f)
      BY <2>6, <3>1, CellSame DEF AddCallback, Fails
    <3>2. CASE ~Finished(f)
      BY <2>6, <3>2, CellSubscribe DEF AddCallback, Cbs, Cell!CellNext
    <3> QED
      BY <3>1, <3>2
  <2>7. ASSUME NEW cb \in Callbacks, NEW f \in Futures, RemoveCallback(cb, f)
        PROVE  [Cell!CellNext]_Cell!cellVars /\ Ran'
    BY <2>7, CellUnhook DEF RemoveCallback, Cbs, Cell!CellNext
  <2>8. ASSUME NEW cb \in Callbacks, NEW f \in Futures, RunCallback(cb, f)
        PROVE  [Cell!CellNext]_Cell!cellVars /\ Ran'
    BY <2>8, CellDeliver DEF RunCallback, Cbs, Cell!CellNext
  <2>9. CASE UNCHANGED vars
    BY <2>9, CellSame DEF vars
  <2> QED
    BY <2>1, <2>2, <2>3, <2>4, <2>5, <2>6, <2>7, <2>8, <2>9 DEF Next
<1> QED
  BY <1>1, <1>2, SpecIInv, PTL DEF Spec, ImplementsCell, Cell!CellSafety
=============================================================================
