----------------------------- MODULE FutureCell -----------------------------
(***************************************************************************)
(* What a future promises to the people who subscribe to it, with nothing  *)
(* said about handles, loops or coroutines:                                *)
(*   - it gets at most one outcome;                                        *)
(*   - a subscription is accepted only before the outcome is known;        *)
(*   - the outcome makes every standing subscription owed a delivery, and  *)
(*     each one is delivered exactly once unless it is withdrawn first.    *)
(* Task.tla (src/aio/future/pure.py) is shown to implement this.           *)
(***************************************************************************)

CONSTANTS Futures,      \* the one-shot cells
          Subscribers   \* whoever can be notified: callbacks and task steps

VARIABLES outcome,      \* [Futures -> Outcomes \cup {"pending"}]
          sub           \* [Subscribers \X Futures -> SubStates]

cellVars == <<outcome, sub>>

Outcomes  == {"result", "cancelled"}
SubStates == {"none", "waiting", "owed", "done"}

CellInit ==
  /\ outcome = [f \in Futures |-> "pending"]
  /\ sub = [e \in Subscribers \X Futures |-> "none"]

\* The outcome is known: whoever waits is now owed a delivery.
Finish(f, o) ==
  /\ outcome[f] = "pending"
  /\ outcome' = [outcome EXCEPT ![f] = o]
  /\ sub' = [e \in Subscribers \X Futures |->
               IF e[2] = f /\ sub[e] = "waiting" THEN "owed" ELSE sub[e]]

Subscribe(s, f) ==
  /\ outcome[f] = "pending"
  /\ sub' = [sub EXCEPT ![<<s, f>>] = "waiting"]
  /\ UNCHANGED outcome

\* Withdrawing is possible until the delivery has been made.
Withdraw(s, f) ==
  /\ sub[<<s, f>>] \in {"waiting", "owed"}
  /\ sub' = [sub EXCEPT ![<<s, f>>] = "none"]
  /\ UNCHANGED outcome

Deliver(s, f) ==
  /\ sub[<<s, f>>] = "owed"
  /\ sub' = [sub EXCEPT ![<<s, f>>] = "done"]
  /\ UNCHANGED outcome

CellNext ==
  \/ \E f \in Futures, o \in Outcomes : Finish(f, o)
  \/ \E s \in Subscribers, f \in Futures :
       Subscribe(s, f) \/ Withdraw(s, f) \/ Deliver(s, f)

CellSafety == CellInit /\ [][CellNext]_cellVars

\* Every delivery that is owed is made or withdrawn.
CellSpec ==
  /\ CellSafety
  /\ \A s \in Subscribers, f \in Futures : WF_cellVars(Deliver(s, f))
=============================================================================
