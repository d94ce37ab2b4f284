---------------------------- MODULE TaskScopeProofs ----------------------------
(***************************************************************************)
(* Proofs about TaskScope, for any finite set of tasks, whoever of them    *)
(* opens scopes or catches exceptions.                                     *)
(*                                                                         *)
(* Which task a cancellation ends at (CancelEnd) makes no difference to    *)
(* any of this: a cancelled task is on its way, whoever it is.             *)
(***************************************************************************)
EXTENDS TaskScope, SequenceTheorems, TLAPS

\* What a canceller sends, as opposed to what a body raises.
Cancels == {"Cancelled", "ByChild", "ByParent"}

Distinct(s) == \A i, k \in DOMAIN s : s[i] = s[k] => i = k

\* Scopes hold each task once, and only tasks that were created for them.
Family ==
  \A p \in Tasks :
    /\ Distinct(scopes[p])
    /\ \A c \in Tasks : Holds(p, c) => parent[c] = p /\ at[c] # "absent"
    /\ at[p] \in {"shield", "await"} => scopes[p] # <<>>
    /\ cur = p => at[p] = "body"

\* Only tasks that have ended, and have a parent, have a callback to be called.
Callbacks ==
  /\ \A c \in told \cup joined : Finished(c) /\ parent[c] \in Tasks
  /\ CallbacksInScope

\* A parent whose wait is over, while its child goes on, was cancelled.
Joins ==
  /\ NoLostJoin
  /\ \A p \in Tasks : at[p] = "shield" /\ wake[p] # "pending" =>
       Finished(Inner(p)) \/ exc[p] \in Cancels

IInv == TypeOK /\ Family /\ Callbacks /\ Joins

\* What WaitsForChild says of a step.
StepWaits ==
  \A p \in Tasks : LeftUnfinished(p) => at[p] = "shield" /\ exc[p] \in Cancels

-----------------------------------------------------------------------------
(* Stacks of scopes. *)

\* The innermost child is one that the task holds.
LEMMA InnerFacts ==
  ASSUME TypeOK, NEW p \in Tasks, scopes[p] # <<>>
  PROVE  Inner(p) \in Tasks /\ Holds(p, Inner(p))
<1>1. scopes[p] \in Seq(Tasks)
  BY DEF TypeOK
<1>2. Len(scopes[p]) \in DOMAIN scopes[p]
  BY <1>1, EmptySeq, LenProperties
<1> QED
  BY <1>1, <1>2, ElementOfSeq DEF Inner, Holds

\* Entering a scope.
LEMMA PushFacts ==
  ASSUME NEW s \in Seq(Tasks), NEW x \in Tasks
  PROVE  LET a == Append(s, x) IN
         /\ a \in Seq(Tasks) /\ a # <<>> /\ Len(a) = Len(s) + 1
         /\ \A c : (\E i \in DOMAIN a : a[i] = c) <=> c = x \/ \E i \in DOMAIN s : s[i] = c
         /\ Distinct(s) /\ (\A i \in DOMAIN s : s[i] # x) => Distinct(a)
<1> DEFINE a == Append(s, x)
<1>1. /\ a \in Seq(Tasks) /\ Len(a) = Len(s) + 1 /\ a # <<>>
      /\ \A i \in 1..Len(s) : a[i] = s[i]
      /\ a[Len(s) + 1] = x
  BY AppendProperties
<1> HIDE DEF a
<1>2. DOMAIN s = 1..Len(s) /\ DOMAIN a = 1..Len(a) /\ Len(s) \in Nat
  BY <1>1
<1>3. \A i \in DOMAIN a : \/ i = Len(s) + 1 /\ a[i] = x
                          \/ i \in DOMAIN s /\ a[i] = s[i]
  BY <1>1, <1>2
<1>4. Len(s) + 1 \in DOMAIN a /\ \A i \in DOMAIN s : i \in DOMAIN a /\ a[i] = s[i]
  BY <1>1, <1>2
<1>5. \A c : (\E i \in DOMAIN a : a[i] = c) <=> c = x \/ \E i \in DOMAIN s : s[i] = c
  BY <1>1, <1>3, <1>4
<1>6. Distinct(s) /\ (\A i \in DOMAIN s : s[i] # x) => Distinct(a)
  BY <1>3 DEF Distinct
<1> QED
  BY <1>1, <1>5, <1>6 DEF a

\* Leaving a scope takes away the innermost child and nothing else.
LEMMA OuterFacts ==
  ASSUME TypeOK, NEW p \in Tasks, scopes[p] # <<>>, Distinct(scopes[p])
  PROVE  /\ Outer(p) \in Seq(Tasks) /\ Distinct(Outer(p))
         /\ \A c : (\E i \in DOMAIN Outer(p) : Outer(p)[i] = c)
                     <=> Holds(p, c) /\ c # Inner(p)
<1> DEFINE s == scopes[p]
           o == Outer(p)
<1>1. s \in Seq(Tasks)
  BY DEF TypeOK
<1>2. DOMAIN s = 1..Len(s) /\ Len(s) \in Nat /\ Len(s) # 0
  BY <1>1, EmptySeq, LenProperties
<1>3. 1 \in Int /\ Len(s) - 1 \in Int /\ Len(s) - 1 \in Nat
  BY <1>2
<1>4. \A i \in 1..(Len(s) - 1) : s[i] \in Tasks
  BY <1>1, <1>2
<1>5. /\ o \in Seq(Tasks) /\ Len(o) = Len(s) - 1
      /\ \A i \in 1..(Len(s) - 1) : o[i] = s[i]
  BY <1>1, <1>2, <1>3, <1>4, SubSeqProperties DEF Outer
<1>6. Inner(p) = s[Len(s)]
  BY DEF Inner
<1> HIDE DEF o
<1>7. DOMAIN o = 1..(Len(s) - 1)
  BY <1>5, LenProperties
<1>8. \A i \in DOMAIN o : i \in DOMAIN s /\ o[i] = s[i] /\ i # Len(s)
  BY <1>2, <1>5, <1>7
<1>9. \A i \in DOMAIN s : i # Len(s) => i \in DOMAIN o
  BY <1>2, <1>7
<1>10. Len(s) \in DOMAIN s
  BY <1>2
<1>11. Distinct(o)
  BY <1>8 DEF Distinct
<1>12. \A c : (\E i \in DOMAIN o : o[i] = c) <=> Holds(p, c) /\ c # Inner(p)
  BY <1>6, <1>8, <1>9, <1>10 DEF Holds, Distinct
<1> QED
  BY <1>5, <1>11, <1>12 DEF o

\* No step leaves a scope without taking a child away.
LEMMA OuterIsShorter ==
  ASSUME TypeOK, NEW p \in Tasks, scopes[p] # <<>>
  PROVE  scopes[p] # Outer(p)
<1>1. scopes[p] \in Seq(Tasks)
  BY DEF TypeOK
<1>2. Len(scopes[p]) \in Nat /\ Len(scopes[p]) # 0 /\ DOMAIN scopes[p] = 1..Len(scopes[p])
  BY <1>1, EmptySeq, LenProperties
<1>3. Len(scopes[p]) - 1 \in Nat /\ \A i \in 1..(Len(scopes[p]) - 1) : scopes[p][i] \in Tasks
  BY <1>1, <1>2
<1>4. Len(Outer(p)) = Len(scopes[p]) - 1
  BY <1>1, <1>2, <1>3, SubSeqProperties DEF Outer
<1> QED
  BY <1>2, <1>4

-----------------------------------------------------------------------------
(* Initially, and the steps that cancel. *)

\* The root is about to start, and nobody else is there.
LEMMA InitIInv == Init => IInv
<1> SUFFICES ASSUME Init PROVE IInv
  OBVIOUS
<1>1. \A t \in Tasks : scopes[t] = <<>> /\ DOMAIN scopes[t] = {}
  BY DEF Init
<1>2. TypeOK
  BY <1>1, TaskScopeAssumption DEF Init, TypeOK, Places, Wakes, Ends, Excs
<1>3. Family
  BY <1>1, TaskScopeAssumption DEF Init, Family, Distinct, Holds
<1>4. Callbacks /\ Joins
  BY TaskScopeAssumption
  DEF Init, Callbacks, CallbacksInScope, Joins, NoLostJoin
<1> QED
  BY <1>2, <1>3, <1>4 DEF IInv

\* Scopes that do not change are held and left as before.
LEMMA SameScopes ==
  ASSUME UNCHANGED scopes
  PROVE  /\ \A p, c : Holds(p, c)' <=> Holds(p, c)
         /\ \A p : Inner(p)' = Inner(p)
<1>1. \A p, c : Holds(p, c)' <=> Holds(p, c)
  BY DEF Holds
<1>2. \A p : Inner(p)' = Inner(p)
  BY DEF Inner
<1> QED
  BY <1>1, <1>2

\* A step that leaves scopes as they are does not end a wait.
LEMMA NobodyLeaves ==
  ASSUME TypeOK, UNCHANGED scopes
  PROVE  StepWaits
BY OuterIsShorter DEF StepWaits, LeftUnfinished

\* Whoever is cancelled goes on; callbacks that are gone do no harm.
LEMMA HitKeeps ==
  ASSUME IInv, NEW v, NEW e \in Cancels, CanCancel(v), Hit(v, e),
         told' \subseteq told,
         UNCHANGED <<at, outcome, scopes, leaving, parent, cur, joined>>
  PROVE  IInv'
<1> TypeOK /\ Family /\ Callbacks /\ Joins
  BY DEF IInv
<1>1. \A u \in Tasks : /\ u # v => wake'[u] = wake[u] /\ exc'[u] = exc[u]
                       /\ u = v => /\ wake[u] \in {"pending", "queued"}
                                   /\ wake'[u] \in {"queued", "thrown"} /\ exc'[u] = e
  BY DEF Hit, CanCancel, TypeOK
<1>2. wake' \in [Tasks -> Wakes] /\ exc' \in [Tasks -> Ends]
  BY DEF Hit, TypeOK, Wakes, Ends, Excs, Cancels
<1>3. TypeOK'
  BY <1>1, <1>2 DEF TypeOK
<1>4. Family'
  BY SameScopes DEF Family
<1>5. Callbacks'
  BY SameScopes DEF Callbacks, CallbacksInScope, Leaves, Finished
<1>6. Joins'
  BY <1>1, SameScopes DEF Joins, NoLostJoin, Finished
<1> QED
  BY <1>3, <1>4, <1>5, <1>6 DEF IInv

\* Cancellation from outside.
LEMMA CancelStep ==
  ASSUME IInv, NEW t \in Tasks, Cancel(t)
  PROVE  IInv' /\ StepWaits
BY HitKeeps, NobodyLeaves DEF IInv, Cancel, Cancels

\* A failed child cancels its parent.
LEMMA OnTaskDoneStep ==
  ASSUME IInv, NEW c \in Tasks, OnTaskDone(c)
  PROVE  IInv' /\ StepWaits
<1> TypeOK /\ Family /\ Callbacks /\ Joins
  BY DEF IInv
<1>1. /\ told' = told \ {c}
      /\ UNCHANGED <<at, outcome, scopes, leaving, parent, cur, joined>>
  BY DEF OnTaskDone
<1>2. StepWaits
  BY <1>1, NobodyLeaves
<1>3. CASE UNCHANGED <<wake, exc>>
  <2>1. TypeOK'
    BY <1>1, <1>3 DEF TypeOK
  <2>2. Family'
    BY <1>1, SameScopes DEF Family
  <2>3. Callbacks'
    BY <1>1, SameScopes DEF Callbacks, CallbacksInScope, Leaves, Finished
  <2>4. Joins'
    BY <1>1, <1>3, SameScopes DEF Joins, NoLostJoin, Finished
  <2> QED
    BY <1>2, <2>1, <2>2, <2>3, <2>4 DEF IInv
<1>4. CASE ~UNCHANGED <<wake, exc>>
  <2>1. PICK v : CanCancel(v) /\ Hit(v, "ByChild")
    BY <1>4 DEF OnTaskDone, CancelCall
  <2> QED
    BY <1>1, <1>2, <2>1, HitKeeps DEF Cancels
<1> QED
  BY <1>3, <1>4

\* The shield's promise takes the outcome of a child that has ended.
LEMMA ShieldDoneStep ==
  ASSUME IInv, NEW c \in Tasks, ShieldDone(c)
  PROVE  IInv' /\ StepWaits
<1> TypeOK /\ Family /\ Callbacks /\ Joins
  BY DEF IInv
<1> DEFINE p == parent[c]
<1>1. /\ c \in joined /\ cur = None
      /\ joined' = joined \ {c}
      /\ UNCHANGED <<at, outcome, scopes, leaving, parent, cur, told>>
  BY DEF ShieldDone
<1>2. p \in Tasks /\ Finished(c) /\ at[p] = "shield" /\ Inner(p) = c
  BY <1>1 DEF Callbacks, CallbacksInScope, Leaves
<1>3. \A u \in Tasks : \/ wake'[u] = wake[u] /\ exc'[u] = exc[u] /\ (u = p => wake[u] # "pending")
                       \/ u = p /\ wake[u] = "pending" /\ wake'[u] = "queued" /\ exc'[u] = outcome[c]
  BY <1>2 DEF ShieldDone, TypeOK
<1>4. wake' \in [Tasks -> Wakes] /\ exc' \in [Tasks -> Ends]
  <2>1. outcome[c] \in Ends
    BY <1>2 DEF TypeOK, Finished
  <2> QED
    BY <2>1 DEF ShieldDone, TypeOK, Wakes
<1>5. TypeOK'
  BY <1>1, <1>3, <1>4 DEF TypeOK
<1>6. Family'
  BY <1>1, SameScopes DEF Family
<1>7. Callbacks'
  BY <1>1, SameScopes DEF Callbacks, CallbacksInScope, Leaves, Finished
<1>8. NoLostJoin'
  <2>1. ASSUME NEW u \in Tasks, wake'[u] = "pending"
        PROVE  wake[u] = "pending" /\ u # p
    BY <1>3, <2>1
  <2>2. ASSUME NEW u \in Tasks, wake'[u] = "pending", at'[u] = "shield"
        PROVE  ~Finished(Inner(u))' \/ Inner(u)' \in joined'
    <3>1. wake[u] = "pending" /\ u # p /\ at[u] = "shield" /\ Inner(u)' = Inner(u)
      BY <1>1, <2>1, <2>2, SameScopes
    <3>2. scopes[u] # <<>>
      BY <3>1 DEF Family
    <3>3. Inner(u) # c
      BY <3>1, <3>2, InnerFacts DEF Family
    <3> QED
      BY <1>1, <3>1, <3>3 DEF Joins, NoLostJoin, Finished
  <2>3. ASSUME NEW u \in Tasks, wake'[u] = "pending", at'[u] = "await"
        PROVE  ~Finished(Inner(u))'
    BY <1>1, <2>1, <2>3, SameScopes DEF Joins, NoLostJoin, Finished
  <2> QED
    BY <2>2, <2>3 DEF NoLostJoin
<1>9. Joins'
  BY <1>1, <1>2, <1>3, <1>8, SameScopes DEF Joins, Finished
<1> QED
  BY <1>1, <1>5, <1>6, <1>7, <1>9, NobodyLeaves DEF IInv

-----------------------------------------------------------------------------
(* The end of a task. *)

\* Whoever ends is taken note of: by a callback, or by a step of its parent.
LEMMA ConcludeKeeps ==
  ASSUME IInv, NEW t \in Tasks, NEW o \in Ends, Conclude(t, o),
         cur = t \/ (cur = None /\ at[t] = "start" /\ wake[t] # "none")
  PROVE  IInv' /\ StepWaits
<1> TypeOK /\ Family /\ Callbacks /\ Joins
  BY DEF IInv
<1> DEFINE p == parent[t]
           held == p # None /\ Holds(p, t)
           awaited == held /\ Passes(p) /\ Inner(p) = t
<1>1. /\ outcome' = [outcome EXCEPT ![t] = o]
      /\ at' = [at EXCEPT ![t] = "done"]
      /\ told' = IF held /\ ~Leaves(p, t) THEN told \cup {t} ELSE told
      /\ joined' = IF held /\ Leaves(p, t) THEN joined \cup {t} ELSE joined
      /\ cur' = None
      /\ UNCHANGED <<scopes, leaving, parent>>
  BY DEF Conclude
<1>2. /\ wake' = [u \in Tasks |-> IF u = t THEN "none"
                                  ELSE IF awaited /\ u = p THEN "queued" ELSE wake[u]]
      /\ exc' = [u \in Tasks |-> IF u = t THEN "ok"
                                 ELSE IF awaited /\ u = p THEN o ELSE exc[u]]
  BY DEF Conclude
<1>3. at[t] \in {"body", "start"} /\ ~Finished(t) /\ o # "pending"
  BY DEF Family, TypeOK, Finished, Ends, Excs
<1>4. \A u \in Tasks : /\ u # t => at'[u] = at[u] /\ outcome'[u] = outcome[u]
                       /\ u = t => at'[u] = "done" /\ outcome'[u] = o
  BY <1>1 DEF TypeOK
<1>5. p \in Tasks \cup {None} /\ (held => p \in Tasks)
  BY DEF TypeOK
<1> HIDE DEF p, held, awaited
<1>6. awaited => held /\ wake[p] = "pending" /\ at[p] = "await" /\ Inner(p) = t
  BY DEF awaited, Passes
<1>7. \A u \in Tasks : /\ u = t => wake'[u] = "none" /\ exc'[u] = "ok"
                       /\ u # t => \/ wake'[u] = wake[u] /\ exc'[u] = exc[u]
                                   \/ awaited /\ u = p /\ wake'[u] = "queued"
  BY <1>2
<1>8. \A q \in Tasks : scopes[q] # <<>> /\ Inner(q) = t => q = p /\ held
  BY InnerFacts, TaskScopeAssumption DEF Family, p, held
<1>9. TypeOK'
  <2>1. wake' \in [Tasks -> Wakes] /\ exc' \in [Tasks -> Ends]
    BY <1>2 DEF TypeOK, Wakes, Ends, Excs
  <2>2. at' \in [Tasks -> Places] /\ outcome' \in [Tasks -> Ends \cup {"pending"}]
    BY <1>1 DEF TypeOK, Places
  <2>3. told' \subseteq Tasks /\ joined' \subseteq Tasks
    BY <1>1 DEF TypeOK
  <2>4. ASSUME NEW u \in Tasks
        PROVE  /\ wake'[u] = "none" <=> at'[u] \in {"absent", "done"} \/ cur' = u
               /\ outcome'[u] = "pending" <=> at'[u] # "done"
    <3>1. cur' # u /\ cur' = None
      BY <1>1, TaskScopeAssumption
    <3>2. CASE u = t
      BY <1>3, <1>4, <1>7, <3>2
    <3>3. CASE u # t
      <4>1. cur # u
        BY <3>3, TaskScopeAssumption
      <4>2. wake'[u] = "none" <=> wake[u] = "none"
        BY <1>6, <1>7, <3>3
      <4> QED
        BY <1>4, <3>1, <3>3, <4>1, <4>2 DEF TypeOK
    <3> QED
      BY <3>2, <3>3
  <2> QED
    BY <1>1, <2>1, <2>2, <2>3, <2>4 DEF TypeOK
<1>10. Family'
  <2>1. ASSUME NEW q \in Tasks
        PROVE  /\ Distinct(scopes'[q])
               /\ \A c \in Tasks : Holds(q, c)' => parent'[c] = q /\ at'[c] # "absent"
               /\ at'[q] \in {"shield", "await"} => scopes'[q] # <<>>
               /\ cur' = q => at'[q] = "body"
    BY <1>1, <1>4, SameScopes, TaskScopeAssumption DEF Family
  <2> QED
    BY <2>1 DEF Family
<1>11. Callbacks'
  <2>1. \A q, c \in Tasks : q # t => (Leaves(q, c)' <=> Leaves(q, c))
    BY <1>1, <1>4, SameScopes DEF Leaves
  <2>2. \A c \in Tasks : ~Leaves(t, c) /\ ~Leaves(t, c)'
    BY <1>3, <1>4 DEF Leaves
  <2>3. \A q, c \in Tasks : Leaves(q, c)' <=> Leaves(q, c)
    BY <2>1, <2>2
  <2>4. \A c \in told' \cup joined' : c \in Tasks /\ outcome'[c] # "pending" /\ parent[c] \in Tasks
    BY <1>1, <1>3, <1>4, <1>5 DEF Callbacks, Finished, p, TypeOK
  <2>5. \A c \in told' : Holds(parent[c], c) /\ ~Leaves(parent[c], c)
    BY <1>1 DEF Callbacks, CallbacksInScope, p, held
  <2>6. \A c \in joined' : Leaves(parent[c], c)
    BY <1>1 DEF Callbacks, CallbacksInScope, p, held
  <2>7. \A c \in told' : \A q \in Tasks : q = parent'[c] => Holds(q, c)' /\ ~Leaves(q, c)'
    BY <1>1, <2>3, <2>4, <2>5, SameScopes
  <2>8. \A c \in joined' : \A q \in Tasks : q = parent'[c] => Leaves(q, c)'
    BY <1>1, <2>3, <2>4, <2>6
  <2>9. CallbacksInScope'
    BY <1>1, <2>4, <2>7, <2>8 DEF CallbacksInScope
  <2> QED
    BY <1>1, <2>4, <2>9 DEF Callbacks, Finished
<1>12. Joins'
  <2>1. ASSUME NEW u \in Tasks, at'[u] \in {"shield", "await"}
        PROVE  /\ u # t /\ at[u] = at'[u] /\ scopes[u] # <<>> /\ Inner(u)' = Inner(u)
               /\ Inner(u) \in Tasks
    BY <1>1, <1>4, <2>1, InnerFacts, SameScopes DEF Family
  <2>2. ASSUME NEW u \in Tasks, at'[u] = "shield", wake'[u] = "pending"
        PROVE  ~Finished(Inner(u))' \/ Inner(u)' \in joined'
    <3>1. wake[u] = "pending" /\ at[u] = "shield"
      BY <1>7, <2>1, <2>2
    <3>2. CASE Inner(u) = t
      <4>1. u = p /\ held
        BY <1>8, <2>1, <2>2, <3>2
      <4> QED
        BY <1>1, <2>1, <2>2, <3>1, <3>2, <4>1 DEF Leaves
    <3>3. CASE Inner(u) # t
      BY <1>1, <1>4, <2>1, <2>2, <3>1, <3>3 DEF Joins, NoLostJoin, Finished
    <3> QED
      BY <3>2, <3>3
  <2>3. ASSUME NEW u \in Tasks, at'[u] = "await", wake'[u] = "pending"
        PROVE  ~Finished(Inner(u))'
    <3>1. wake[u] = "pending" /\ at[u] = "await"
      BY <1>7, <2>1, <2>3
    <3>2. Inner(u) # t
      <4>1. SUFFICES ASSUME Inner(u) = t PROVE FALSE
        OBVIOUS
      <4>2. u = p /\ held
        BY <1>8, <2>1, <2>3, <4>1
      <4>3. awaited
        BY <3>1, <4>1, <4>2 DEF awaited, Passes
      <4> QED
        BY <1>2, <2>1, <2>3, <4>2, <4>3
    <3> QED
      BY <1>4, <2>1, <2>3, <3>1, <3>2 DEF Joins, NoLostJoin, Finished
  <2>4. ASSUME NEW u \in Tasks, at'[u] = "shield", wake'[u] # "pending"
        PROVE  Finished(Inner(u))' \/ exc'[u] \in Cancels
    <3>1. u # t /\ at[u] = "shield" /\ wake'[u] = wake[u] /\ exc'[u] = exc[u]
      BY <1>6, <1>7, <2>1, <2>4
    <3> QED
      BY <1>3, <1>4, <2>1, <2>4, <3>1 DEF Joins, Finished
  <2> QED
    BY <2>2, <2>3, <2>4 DEF Joins, NoLostJoin
<1> QED
  BY <1>1, <1>9, <1>10, <1>11, <1>12, NobodyLeaves DEF IInv

\* A coroutine ends outside of any scope.
LEMMA ReturnStep ==
  ASSUME IInv, NEW t \in Tasks, Return(t)
  PROVE  IInv' /\ StepWaits
<1>1. exc[t] \in Ends
  BY DEF IInv, TypeOK
<1> QED
  BY <1>1, ConcludeKeeps DEF Return
-----------------------------------------------------------------------------
(* Scopes are left. *)

\* A scope that is left takes its callbacks with it.
LEMMA LeaveKeeps ==
  ASSUME IInv, NEW t \in Tasks, scopes[t] # <<>>, TypeOK',
         scopes' = [scopes EXCEPT ![t] = Outer(t)],
         \A u \in Tasks : u # t => at'[u] = at[u] /\ wake'[u] = wake[u] /\ exc'[u] = exc[u],
         at[t] \in {"body", "shield"}, at'[t] = "body", cur' = t,
         told' \subseteq told, joined' = joined \ {Inner(t)}, Inner(t) \notin told',
         Finished(Inner(t)) \/ (at[t] = "shield" /\ exc[t] \in Cancels),
         UNCHANGED <<outcome, parent>>
  PROVE  IInv' /\ StepWaits
<1> TypeOK /\ Family /\ Callbacks /\ Joins
  BY DEF IInv
<1>1. /\ scopes'[t] = Outer(t)
      /\ \A q \in Tasks : q # t => scopes'[q] = scopes[q]
  BY DEF TypeOK
<1>2. /\ Distinct(scopes'[t])
      /\ \A c : Holds(t, c)' <=> Holds(t, c) /\ c # Inner(t)
  <2>1. Distinct(scopes[t])
    BY DEF Family
  <2>2. \A c : Holds(t, c)' <=> \E i \in DOMAIN Outer(t) : Outer(t)[i] = c
    BY <1>1 DEF Holds
  <2> QED
    BY <1>1, <2>1, <2>2, OuterFacts
<1>3. \A q \in Tasks : q # t => /\ \A c : Holds(q, c)' <=> Holds(q, c)
                                /\ Inner(q)' = Inner(q)
  BY <1>1 DEF Holds, Inner
<1>4. Family'
  <2>1. ASSUME NEW q \in Tasks
        PROVE  /\ Distinct(scopes'[q])
               /\ \A c \in Tasks : Holds(q, c)' => parent'[c] = q /\ at'[c] # "absent"
               /\ at'[q] \in {"shield", "await"} => scopes'[q] # <<>>
               /\ cur' = q => at'[q] = "body"
    BY <1>1, <1>2, <1>3 DEF Family
  <2> QED
    BY <2>1 DEF Family
<1>5. Callbacks'
  <2>1. \A q \in Tasks : q # t => \A c : Leaves(q, c)' <=> Leaves(q, c)
    BY <1>3 DEF Leaves
  <2>2. \A c \in told' : \A q \in Tasks : q = parent'[c] => Holds(q, c)' /\ ~Leaves(q, c)'
    <3>1. ASSUME NEW c \in told', NEW q \in Tasks, q = parent[c]
          PROVE  Holds(q, c)' /\ ~Leaves(q, c)'
      <4>1. c \in told /\ c # Inner(t) /\ Holds(q, c) /\ ~Leaves(q, c)
        BY <3>1 DEF Callbacks, CallbacksInScope
      <4>2. CASE q = t
        BY <1>2, <4>1, <4>2 DEF Leaves
      <4>3. CASE q # t
        BY <1>3, <2>1, <4>1, <4>3
      <4> QED
        BY <4>2, <4>3
    <3> QED
      BY <3>1
  <2>3. \A c \in joined' : \A q \in Tasks : q = parent'[c] => Leaves(q, c)'
    <3>1. ASSUME NEW c \in joined', NEW q \in Tasks, q = parent[c]
          PROVE  Leaves(q, c)'
      <4>1. c \in joined /\ c # Inner(t) /\ Leaves(q, c)
        BY <3>1 DEF Callbacks, CallbacksInScope
      <4>2. q # t
        BY <4>1 DEF Leaves
      <4> QED
        BY <2>1, <4>1, <4>2
    <3> QED
      BY <3>1
  <2>4. \A c \in told' \cup joined' : outcome'[c] # "pending" /\ parent'[c] \in Tasks
    BY DEF Callbacks, Finished
  <2>5. CallbacksInScope'
    BY <2>2, <2>3, <2>4 DEF CallbacksInScope
  <2> QED
    BY <2>4, <2>5 DEF Callbacks, Finished
<1>6. Joins'
  <2>1. ASSUME NEW u \in Tasks, at'[u] \in {"shield", "await"}
        PROVE  /\ u # t /\ at'[u] = at[u] /\ wake'[u] = wake[u] /\ exc'[u] = exc[u]
               /\ Inner(u)' = Inner(u) /\ (Finished(Inner(u))' <=> Finished(Inner(u)))
    BY <1>3, <2>1 DEF Finished
  <2>2. ASSUME NEW u \in Tasks, at[u] = "shield", Inner(u) \in joined, u # t
        PROVE  Inner(u) \in joined'
    <3>1. scopes[u] # <<>>
      BY <2>2 DEF Family
    <3>2. Inner(u) # Inner(t)
      BY <2>2, <3>1, InnerFacts DEF Family
    <3> QED
      BY <2>2, <3>2
  <2> QED
    BY <2>1, <2>2 DEF Joins, NoLostJoin
<1>7. StepWaits
  BY <1>1, OuterIsShorter DEF StepWaits, LeftUnfinished
<1> QED
  BY <1>4, <1>5, <1>6, <1>7 DEF IInv

\* What leaves a scope is one of the exceptions that came together there.
LEMMA AfterFacts ==
  ASSUME NEW e \in Ends, NEW x \in Ends
  PROVE  After(e, x) \in Ends
BY DEF After

\* A scope whose child has ended.
LEMMA LeaveFinishedStep ==
  ASSUME IInv, NEW t \in Tasks, cur = t, scopes[t] # <<>>, LeaveFinished(t)
  PROVE  IInv' /\ StepWaits
<1> TypeOK /\ Family /\ Callbacks /\ Joins
  BY DEF IInv
<1>1. /\ Finished(Inner(t)) /\ Inner(t) \in Tasks /\ at[t] = "body"
  BY InnerFacts DEF LeaveFinished, Family
<1>2. Inner(t) \notin joined
  <2>1. Holds(t, Inner(t)) /\ parent[Inner(t)] = t
    BY InnerFacts DEF Family
  <2> QED
    BY <1>1, <2>1 DEF Callbacks, CallbacksInScope, Leaves
<1>3. /\ scopes' = [scopes EXCEPT ![t] = Outer(t)]
      /\ exc' = [exc EXCEPT ![t] = After(@, outcome[Inner(t)])]
      /\ told' = told \ {Inner(t)}
      /\ UNCHANGED <<at, wake, outcome, leaving, parent, cur, joined>>
  BY DEF LeaveFinished
<1>4. TypeOK'
  <2>1. After(exc[t], outcome[Inner(t)]) \in Ends
    BY <1>1, AfterFacts DEF TypeOK, Finished
  <2>2. Outer(t) \in Seq(Tasks)
    BY OuterFacts DEF Family
  <2>3. exc' \in [Tasks -> Ends] /\ scopes' \in [Tasks -> Seq(Tasks)] /\ told' \subseteq Tasks
    BY <1>3, <2>1, <2>2 DEF TypeOK
  <2> QED
    BY <1>3, <2>3 DEF TypeOK
<1>5. \A u \in Tasks : u # t => at'[u] = at[u] /\ wake'[u] = wake[u] /\ exc'[u] = exc[u]
  BY <1>3 DEF TypeOK
<1> QED
  BY <1>1, <1>2, <1>3, <1>4, <1>5, LeaveKeeps

\* A scope whose child is going on: the task begins to wait, and its child may
\* be cancelled.
LEMMA LeavePendingStep ==
  ASSUME IInv, NEW t \in Tasks, cur = t, scopes[t] # <<>>, LeavePending(t)
  PROVE  IInv' /\ StepWaits
<1> TypeOK /\ Family /\ Callbacks /\ Joins
  BY DEF IInv
<1> DEFINE end == CancelEnd(Inner(t))
           hit == exc[t] # "ok" /\ CanCancel(end)
<1>1. /\ ~Finished(Inner(t)) /\ Inner(t) \in Tasks /\ at[t] = "body"
  BY InnerFacts DEF LeavePending, Family
<1>2. /\ at' = [at EXCEPT ![t] = "shield"]
      /\ leaving' = [leaving EXCEPT ![t] = IF exc[t] = "ok" \/ hit THEN exc[t] ELSE "error"]
      /\ cur' = None
      /\ UNCHANGED <<outcome, scopes, parent, told, joined>>
  BY DEF LeavePending
<1>3. /\ wake' = [u \in Tasks |->
           IF u = t THEN "pending"
           ELSE IF hit /\ u = end THEN IF wake[u] = "pending" THEN "queued" ELSE "thrown"
           ELSE wake[u]]
      /\ exc' = [u \in Tasks |-> IF u = t THEN "ok"
                                 ELSE IF hit /\ u = end THEN "ByParent" ELSE exc[u]]
  BY DEF LeavePending
<1>4. hit => wake[end] \in {"pending", "queued"}
  BY DEF CanCancel
<1> HIDE DEF end, hit
<1>5. \A u \in Tasks : u # t =>
        /\ at'[u] = at[u]
        /\ \/ wake'[u] = wake[u] /\ exc'[u] = exc[u]
           \/ /\ wake[u] \in {"pending", "queued"}
              /\ wake'[u] \in {"queued", "thrown"} /\ exc'[u] = "ByParent"
  BY <1>2, <1>3, <1>4 DEF TypeOK
<1>6. at'[t] = "shield" /\ wake'[t] = "pending"
  BY <1>2, <1>3 DEF TypeOK
<1>7. TypeOK'
  <2>1. wake' \in [Tasks -> Wakes] /\ exc' \in [Tasks -> Ends]
    BY <1>3 DEF TypeOK, Wakes, Ends, Excs
  <2>2. at' \in [Tasks -> Places] /\ leaving' \in [Tasks -> Ends]
    BY <1>2 DEF TypeOK, Places, Ends, Excs
  <2>3. ASSUME NEW u \in Tasks
        PROVE  /\ wake'[u] = "none" <=> at'[u] \in {"absent", "done"} \/ cur' = u
               /\ outcome'[u] = "pending" <=> at'[u] # "done"
    <3>1. cur' # u
      BY <1>2, TaskScopeAssumption
    <3>2. (wake[u] = "none" <=> at[u] \in {"absent", "done"} \/ cur = u)
          /\ (outcome[u] = "pending" <=> at[u] # "done")
      BY DEF TypeOK
    <3>3. CASE u = t
      BY <1>1, <1>2, <1>6, <3>1, <3>2, <3>3
    <3>4. CASE u # t
      <4>1. wake'[u] = "none" <=> wake[u] = "none"
        BY <1>5, <3>4
      <4> QED
        BY <1>2, <1>5, <3>1, <3>2, <3>4, <4>1
    <3> QED
      BY <3>3, <3>4
  <2> QED
    BY <1>2, <2>1, <2>2, <2>3 DEF TypeOK
<1>8. Family'
  <2>1. ASSUME NEW q \in Tasks
        PROVE  /\ Distinct(scopes'[q])
               /\ \A c \in Tasks : Holds(q, c)' => parent'[c] = q /\ at'[c] # "absent"
               /\ at'[q] \in {"shield", "await"} => scopes'[q] # <<>>
               /\ cur' = q => at'[q] = "body"
    BY <1>2, <1>5, <1>6, SameScopes, TaskScopeAssumption DEF Family
  <2> QED
    BY <2>1 DEF Family
<1>9. Callbacks'
  <2>1. \A q \in Tasks : q # t => \A c : Leaves(q, c)' <=> Leaves(q, c)
    BY <1>2, <1>5, SameScopes DEF Leaves
  <2>2. \A c : (Leaves(t, c)' => c = Inner(t)) /\ ~Leaves(t, c)
    BY <1>1, <1>2, SameScopes DEF Leaves
  <2>3. \A c \in told : \A q \in Tasks : q = parent'[c] => Holds(q, c)' /\ ~Leaves(q, c)'
    BY <1>1, <1>2, <2>1, <2>2, SameScopes DEF Callbacks, CallbacksInScope
  <2>4. \A c \in joined : \A q \in Tasks : q = parent'[c] => Leaves(q, c)'
    BY <1>2, <2>1, <2>2 DEF Callbacks, CallbacksInScope
  <2>5. \A c \in told' \cup joined' : outcome'[c] # "pending" /\ parent'[c] \in Tasks
    BY <1>2 DEF Callbacks, Finished
  <2>6. CallbacksInScope'
    BY <1>2, <2>3, <2>4, <2>5 DEF CallbacksInScope
  <2> QED
    BY <2>5, <2>6 DEF Callbacks, Finished
<1>10. Joins'
  <2>1. \A u \in Tasks : /\ Inner(u)' = Inner(u)
                         /\ Finished(Inner(u))' <=> Finished(Inner(u))
    BY <1>2, SameScopes DEF Finished
  <2> QED
    BY <1>1, <1>2, <1>5, <1>6, <2>1 DEF Joins, NoLostJoin, Cancels
<1> QED
  BY <1>2, <1>7, <1>8, <1>9, <1>10, NobodyLeaves DEF IInv

-----------------------------------------------------------------------------
(* Steps that are a task's own. *)

\* A task that is in none of its scopes' ends goes on, or begins a wait in a body.
LEMMA OwnStep ==
  ASSUME IInv, NEW t \in Tasks, TypeOK',
         at[t] \in {"start", "body", "await"}, at'[t] \in {"body", "await"},
         at'[t] = "await" => scopes[t] # <<>> /\ ~Finished(Inner(t)),
         \A u \in Tasks : u # t => at'[u] = at[u] /\ wake'[u] = wake[u] /\ exc'[u] = exc[u],
         cur' = cur \/ cur' = None \/ (cur' = t /\ at'[t] = "body"),
         cur = t => at'[t] = "body" \/ cur' = None,
         UNCHANGED <<outcome, scopes, parent, told, joined>>
  PROVE  IInv' /\ StepWaits
<1> TypeOK /\ Family /\ Callbacks /\ Joins
  BY DEF IInv
<1>1. Family'
  <2>1. ASSUME NEW q \in Tasks
        PROVE  /\ Distinct(scopes'[q])
               /\ \A c \in Tasks : Holds(q, c)' => parent'[c] = q /\ at'[c] # "absent"
               /\ at'[q] \in {"shield", "await"} => scopes'[q] # <<>>
               /\ cur' = q => at'[q] = "body"
    BY SameScopes, TaskScopeAssumption DEF Family
  <2> QED
    BY <2>1 DEF Family
<1>2. Callbacks'
  <2>1. \A q \in Tasks : \A c : Leaves(q, c)' <=> Leaves(q, c)
    BY SameScopes DEF Leaves
  <2>2. \A c \in told \cup joined : \A q \in Tasks : q = parent'[c] =>
          /\ c \in told => Holds(q, c)' /\ ~Leaves(q, c)'
          /\ c \in joined => Leaves(q, c)'
    BY <2>1, SameScopes DEF Callbacks, CallbacksInScope
  <2>3. \A c \in told' \cup joined' : outcome'[c] # "pending" /\ parent'[c] \in Tasks
    BY DEF Callbacks, Finished
  <2>4. CallbacksInScope'
    BY <2>2, <2>3 DEF CallbacksInScope
  <2> QED
    BY <2>3, <2>4 DEF Callbacks, Finished
<1>3. Joins'
  <2>1. \A u \in Tasks : /\ Inner(u)' = Inner(u)
                         /\ Finished(Inner(u))' <=> Finished(Inner(u))
    BY SameScopes DEF Finished
  <2> QED
    BY <2>1 DEF Joins, NoLostJoin
<1> QED
  BY <1>1, <1>2, <1>3, NobodyLeaves DEF IInv

\* The awaits, and what happens in a body.
LEMMA BodyStep ==
  ASSUME IInv, NEW t \in Tasks,
         AwaitPromise(t) \/ PromiseDone(t) \/ AwaitChild(t) \/ Raise(t) \/ Catch(t)
  PROVE  IInv' /\ StepWaits
<1> TypeOK /\ Family
  BY DEF IInv
<1>1. UNCHANGED <<outcome, scopes, leaving, parent, told, joined>>
  BY DEF AwaitPromise, PromiseDone, AwaitChild, Raise, Catch
<1>2. at[t] = "body" /\ (cur = t \/ PromiseDone(t))
  BY DEF AwaitPromise, PromiseDone, AwaitChild, Raise, Catch, Family
<1>3. CASE AwaitPromise(t) \/ PromiseDone(t)
  <2>2. /\ UNCHANGED <<at, exc>>
        /\ (cur' = None /\ cur = t) \/ (cur' = cur /\ wake[t] = "pending")
        /\ wake'[t] \in {"pending", "queued"}
        /\ \A u \in Tasks : u # t => wake'[u] = wake[u]
        /\ wake' \in [Tasks -> Wakes]
    BY <1>3 DEF AwaitPromise, PromiseDone, TypeOK, Wakes
  <2>3. ASSUME NEW u \in Tasks
        PROVE  wake'[u] = "none" <=> at'[u] \in {"absent", "done"} \/ cur' = u
    BY <1>2, <2>2, TaskScopeAssumption DEF TypeOK
  <2>1. TypeOK'
    BY <1>1, <2>2, <2>3 DEF TypeOK
  <2> QED
    BY <1>1, <1>2, <2>1, <2>2, OwnStep
<1>4. CASE Raise(t) \/ Catch(t)
  <2>1. TypeOK'
    BY <1>1, <1>4 DEF Raise, Catch, TypeOK, Ends, Excs
  <2>2. /\ UNCHANGED <<at, wake, cur>>
        /\ \A u \in Tasks : u # t => exc'[u] = exc[u]
    BY <1>4 DEF Raise, Catch, TypeOK
  <2> QED
    BY <1>1, <1>2, <2>1, <2>2, OwnStep
<1>5. CASE AwaitChild(t)
  <2>1. cur = t /\ scopes[t] # <<>> /\ Inner(t) \in Tasks
    BY <1>5, InnerFacts DEF AwaitChild
  <2>2. CASE Finished(Inner(t))
    <3>1. exc' = [exc EXCEPT ![t] = outcome[Inner(t)]] /\ UNCHANGED <<at, wake, cur>>
      BY <1>5, <2>2 DEF AwaitChild
    <3>2. outcome[Inner(t)] \in Ends
      BY <2>1, <2>2 DEF TypeOK, Finished
    <3>3. TypeOK'
      BY <1>1, <3>1, <3>2 DEF TypeOK
    <3>4. \A u \in Tasks : u # t => exc'[u] = exc[u]
      BY <3>1 DEF TypeOK
    <3> QED
      BY <1>1, <1>2, <3>1, <3>3, <3>4, OwnStep
  <2>3. CASE ~Finished(Inner(t))
    <3>1. /\ at' = [at EXCEPT ![t] = "await"] /\ wake' = [wake EXCEPT ![t] = "pending"]
          /\ cur' = None /\ UNCHANGED exc
      BY <1>5, <2>3 DEF AwaitChild
    <3>2. TypeOK'
      BY <1>1, <1>2, <2>1, <3>1, TaskScopeAssumption DEF TypeOK, Places, Wakes
    <3>3. /\ at'[t] = "await"
          /\ \A u \in Tasks : u # t => at'[u] = at[u] /\ wake'[u] = wake[u]
      BY <3>1 DEF TypeOK
    <3> QED
      BY <1>1, <1>2, <2>1, <2>3, <3>1, <3>2, <3>3, OwnStep
  <2> QED
    BY <2>2, <2>3
<1> QED
  BY <1>3, <1>4, <1>5

\* A task opens a scope for a task that did not exist.
LEMMA OpenScopeStep ==
  ASSUME IInv, NEW t \in Tasks, NEW c \in Tasks, OpenScope(t, c)
  PROVE  IInv' /\ StepWaits
<1> TypeOK /\ Family /\ Callbacks /\ Joins
  BY DEF IInv
<1>1. /\ cur = t /\ at[t] = "body" /\ at[c] = "absent" /\ c # t
      /\ at' = [at EXCEPT ![c] = "start"] /\ wake' = [wake EXCEPT ![c] = "queued"]
      /\ parent' = [parent EXCEPT ![c] = t]
      /\ scopes' = [scopes EXCEPT ![t] = Append(@, c)]
      /\ UNCHANGED <<exc, outcome, leaving, cur, told, joined>>
  BY DEF OpenScope, Family
<1>2. \A q \in Tasks : ~Holds(q, c)
  BY <1>1 DEF Family
<1>3. \A u \in Tasks : /\ u # c => at'[u] = at[u] /\ wake'[u] = wake[u] /\ parent'[u] = parent[u]
                       /\ u = c => at'[u] = "start" /\ wake'[u] = "queued" /\ parent'[u] = t
  BY <1>1 DEF TypeOK
<1>4. /\ \A q \in Tasks : q # t => scopes'[q] = scopes[q]
      /\ scopes'[t] = Append(scopes[t], c) /\ scopes[t] \in Seq(Tasks)
  BY <1>1 DEF TypeOK
<1>5. /\ Distinct(scopes'[t]) /\ scopes'[t] # <<>> /\ scopes'[t] \in Seq(Tasks)
      /\ Len(scopes'[t]) = Len(scopes[t]) + 1
      /\ \A d : Holds(t, d)' <=> d = c \/ Holds(t, d)
  <2>1. Distinct(scopes[t]) /\ \A i \in DOMAIN scopes[t] : scopes[t][i] # c
    BY <1>2 DEF Family, Holds
  <2> QED
    BY <1>4, <2>1, PushFacts DEF Holds
<1>6. \A q \in Tasks : q # t => /\ \A d : Holds(q, d)' <=> Holds(q, d)
                                /\ Inner(q)' = Inner(q)
  BY <1>4 DEF Holds, Inner
<1>7. TypeOK'
  <2>1. /\ at' \in [Tasks -> Places] /\ wake' \in [Tasks -> Wakes]
        /\ parent' \in [Tasks -> Tasks \cup {None}]
    BY <1>1 DEF TypeOK, Places, Wakes
  <2>2. scopes' \in [Tasks -> Seq(Tasks)]
    BY <1>1, <1>4, <1>5 DEF TypeOK
  <2>3. ASSUME NEW u \in Tasks
        PROVE  /\ wake'[u] = "none" <=> at'[u] \in {"absent", "done"} \/ cur' = u
               /\ outcome'[u] = "pending" <=> at'[u] # "done"
    BY <1>1, <1>3 DEF TypeOK
  <2> QED
    BY <1>1, <2>1, <2>2, <2>3 DEF TypeOK
<1>8. Family'
  <2>1. ASSUME NEW q \in Tasks
        PROVE  /\ Distinct(scopes'[q])
               /\ \A d \in Tasks : Holds(q, d)' => parent'[d] = q /\ at'[d] # "absent"
               /\ at'[q] \in {"shield", "await"} => scopes'[q] # <<>>
               /\ cur' = q => at'[q] = "body"
    <3>1. CASE q = t
      BY <1>1, <1>3, <1>5, <3>1 DEF Family
    <3>2. CASE q # t
      BY <1>1, <1>2, <1>3, <1>4, <1>6, <3>2 DEF Family
    <3> QED
      BY <3>1, <3>2
  <2> QED
    BY <2>1 DEF Family
<1>9. Callbacks'
  <2>1. \A q \in Tasks : \A d : Leaves(q, d)' <=> Leaves(q, d)
    BY <1>1, <1>3, <1>6 DEF Leaves
  <2>2. \A q \in Tasks : \A d : Holds(q, d) => Holds(q, d)'
    BY <1>5, <1>6
  <2>3. \A d \in told \cup joined : d \in Tasks /\ d # c
    BY <1>1 DEF Callbacks, Finished, TypeOK
  <2>4. \A d \in told \cup joined : \A q \in Tasks : q = parent'[d] =>
          /\ d \in told => Holds(q, d)' /\ ~Leaves(q, d)'
          /\ d \in joined => Leaves(q, d)'
    BY <1>3, <2>1, <2>2, <2>3 DEF Callbacks, CallbacksInScope
  <2>5. \A d \in told' \cup joined' : outcome'[d] # "pending" /\ parent'[d] \in Tasks
    BY <1>1, <1>3, <2>3 DEF Callbacks, Finished
  <2>6. CallbacksInScope'
    BY <1>1, <2>4, <2>5 DEF CallbacksInScope
  <2> QED
    BY <2>5, <2>6 DEF Callbacks, Finished
<1>10. Joins'
  <2>1. ASSUME NEW u \in Tasks, at'[u] \in {"shield", "await"}
        PROVE  /\ at[u] = at'[u] /\ wake[u] = wake'[u] /\ Inner(u)' = Inner(u)
               /\ Finished(Inner(u))' <=> Finished(Inner(u))
    BY <1>1, <1>3, <1>6, <2>1 DEF Finished
  <2> QED
    BY <1>1, <2>1 DEF Joins, NoLostJoin
<1>11. StepWaits
  <2>1. scopes[t] # <<>> => scopes'[t] # Outer(t)
    <3>1. SUFFICES ASSUME scopes[t] # <<>> PROVE Len(scopes'[t]) # Len(Outer(t))
      OBVIOUS
    <3>2. Len(scopes[t]) \in Nat /\ DOMAIN scopes[t] = 1..Len(scopes[t]) /\ Len(scopes[t]) # 0
      BY <1>4, <3>1, EmptySeq, LenProperties
    <3>3. /\ Len(scopes[t]) - 1 \in Nat
          /\ \A i \in 1..(Len(scopes[t]) - 1) : scopes[t][i] \in Tasks
      BY <1>4, <3>2
    <3>4. Len(Outer(t)) = Len(scopes[t]) - 1
      BY <1>4, <3>2, <3>3, SubSeqProperties DEF Outer
    <3> QED
      BY <1>5, <3>2, <3>4
  <2> QED
    BY <1>4, <2>1, OuterIsShorter DEF StepWaits, LeftUnfinished
<1> QED
  BY <1>7, <1>8, <1>9, <1>10, <1>11 DEF IInv

\* Task._step: a task is resumed, ends unstarted, or comes back from a shield.
LEMMA StepStep ==
  ASSUME IInv, NEW t \in Tasks, Step(t)
  PROVE  IInv' /\ StepWaits
<1> TypeOK /\ Family /\ Callbacks /\ Joins
  BY DEF IInv
<1>1. /\ cur = None /\ wake[t] \in {"queued", "thrown"} /\ cur # t
      /\ at[t] \in {"start", "body", "await", "shield"}
  BY TaskScopeAssumption DEF Step, TypeOK, Places
<1>2. CASE at[t] = "start" /\ exc[t] # "ok"
  <2>1. Conclude(t, exc[t]) /\ exc[t] \in Ends
    BY <1>2 DEF Step, TypeOK
  <2> QED
    BY <1>1, <1>2, <2>1, ConcludeKeeps
<1>3. CASE ~(at[t] = "start" /\ exc[t] # "ok")
  <2>1. /\ cur' = t
        /\ wake' = [wake EXCEPT ![t] = "none"] /\ at' = [at EXCEPT ![t] = "body"]
        /\ UNCHANGED <<outcome, parent, told>>
    BY <1>3 DEF Step
  <2>2. at'[t] = "body" /\ \A u \in Tasks : u # t => at'[u] = at[u] /\ wake'[u] = wake[u]
    BY <2>1 DEF TypeOK
  <2>3. /\ at' \in [Tasks -> Places] /\ wake' \in [Tasks -> Wakes]
        /\ \A u \in Tasks :
             /\ wake'[u] = "none" <=> at'[u] \in {"absent", "done"} \/ cur' = u
             /\ outcome'[u] = "pending" <=> at'[u] # "done"
    <3>1. at' \in [Tasks -> Places] /\ wake' \in [Tasks -> Wakes]
      BY <2>1 DEF TypeOK, Places, Wakes
    <3>2. ASSUME NEW u \in Tasks
          PROVE  /\ wake'[u] = "none" <=> at'[u] \in {"absent", "done"} \/ cur' = u
                 /\ outcome'[u] = "pending" <=> at'[u] # "done"
      BY <1>1, <2>1, TaskScopeAssumption DEF TypeOK
    <3> QED
      BY <3>1, <3>2
  <2>4. CASE at[t] # "shield"
    <3>1. UNCHANGED <<scopes, exc, leaving, joined>>
      BY <1>3, <2>4 DEF Step
    <3>2. TypeOK'
      BY <2>1, <2>3, <3>1 DEF TypeOK
    <3> QED
      BY <1>1, <2>1, <2>2, <2>4, <3>1, <3>2, OwnStep
  <2>5. CASE at[t] = "shield"
    <3>1. /\ scopes' = [scopes EXCEPT ![t] = Outer(t)]
          /\ exc' = [exc EXCEPT ![t] = After(leaving[t], @)]
          /\ leaving' = [leaving EXCEPT ![t] = "ok"]
          /\ joined' = joined \ {Inner(t)}
      BY <1>3, <2>5 DEF Step, EndShield
    <3>2. scopes[t] # <<>> /\ Inner(t) \in Tasks
      BY <2>5, InnerFacts DEF Family
    <3>3. Inner(t) \notin told
      <4>1. parent[Inner(t)] = t
        BY <3>2, InnerFacts DEF Family
      <4> QED
        BY <2>5, <4>1 DEF Callbacks, CallbacksInScope, Leaves
    <3>4. TypeOK'
      <4>1. After(leaving[t], exc[t]) \in Ends
        BY AfterFacts DEF TypeOK
      <4>2. Outer(t) \in Seq(Tasks)
        BY <3>2, OuterFacts DEF Family
      <4>3. /\ exc' \in [Tasks -> Ends] /\ leaving' \in [Tasks -> Ends]
            /\ scopes' \in [Tasks -> Seq(Tasks)] /\ joined' \subseteq Tasks
        BY <3>1, <4>1, <4>2 DEF TypeOK, Ends
      <4> QED
        BY <2>1, <2>3, <4>3 DEF TypeOK
    <3>5. \A u \in Tasks : u # t => exc'[u] = exc[u]
      BY <3>1 DEF TypeOK
    <3>6. Finished(Inner(t)) \/ (at[t] = "shield" /\ exc[t] \in Cancels)
      BY <1>1, <2>5 DEF Joins
    <3> QED
      BY <2>1, <2>2, <2>5, <3>1, <3>2, <3>3, <3>4, <3>5, <3>6, LeaveKeeps
  <2> QED
    BY <2>4, <2>5
<1> QED
  BY <1>2, <1>3

-----------------------------------------------------------------------------
(* The theorems. *)

\* Nothing happens.
LEMMA StutterStep ==
  ASSUME IInv, UNCHANGED vars
  PROVE  IInv' /\ StepWaits
<1> TypeOK /\ Family /\ Callbacks /\ Joins
  BY DEF IInv
<1>1. UNCHANGED <<at, wake, exc, outcome, scopes, leaving, parent, cur, told, joined>>
  BY DEF vars
<1>2. TypeOK'
  BY <1>1 DEF TypeOK
<1>3. Family'
  BY <1>1, SameScopes DEF Family
<1>4. Callbacks'
  BY <1>1, SameScopes DEF Callbacks, CallbacksInScope, Leaves, Finished
<1>5. Joins'
  BY <1>1, SameScopes DEF Joins, NoLostJoin, Finished
<1> QED
  BY <1>1, <1>2, <1>3, <1>4, <1>5, NobodyLeaves DEF IInv

\* Each action keeps the invariant, and ends no wait too early.
LEMMA NextIInv == IInv /\ [Next]_vars => IInv' /\ StepWaits
<1> SUFFICES ASSUME IInv, [Next]_vars PROVE IInv' /\ StepWaits
  OBVIOUS
<1>1. ASSUME NEW t \in Tasks, Cancel(t) PROVE IInv' /\ StepWaits
  BY <1>1, CancelStep
<1>2. ASSUME NEW t \in Tasks, OnTaskDone(t) PROVE IInv' /\ StepWaits
  BY <1>2, OnTaskDoneStep
<1>3. ASSUME NEW t \in Tasks, ShieldDone(t) PROVE IInv' /\ StepWaits
  BY <1>3, ShieldDoneStep
<1>4. ASSUME NEW t \in Tasks, Step(t) PROVE IInv' /\ StepWaits
  BY <1>4, StepStep
<1>5. ASSUME NEW t \in Tasks, LeaveScope(t) PROVE IInv' /\ StepWaits
  BY <1>5, LeaveFinishedStep, LeavePendingStep DEF LeaveScope
<1>6. ASSUME NEW t \in Tasks,
             AwaitPromise(t) \/ PromiseDone(t) \/ AwaitChild(t) \/ Raise(t) \/ Catch(t)
      PROVE  IInv' /\ StepWaits
  BY <1>6, BodyStep
<1>7. ASSUME NEW t \in Tasks, Return(t) PROVE IInv' /\ StepWaits
  BY <1>7, ReturnStep
<1>8. ASSUME NEW t \in Tasks, NEW c \in Tasks, OpenScope(t, c) PROVE IInv' /\ StepWaits
  BY <1>8, OpenScopeStep
<1>9. CASE UNCHANGED vars
  BY <1>9, StutterStep
<1> QED
  BY <1>1, <1>2, <1>3, <1>4, <1>5, <1>6, <1>7, <1>8, <1>9 DEF Next

\* IInv holds in every reachable state.
THEOREM SpecIInv == Spec => []IInv
<1>1. IInv /\ [Next]_vars => IInv'
  BY NextIInv
<1> QED
  BY <1>1, InitIInv, PTL DEF Spec

\* Every variable keeps its type; a task is without a wake exactly while its
\* coroutine does not exist or is running.
THEOREM TypeCorrect == Spec => []TypeOK
<1>1. IInv => TypeOK
  BY DEF IInv
<1> QED
  BY <1>1, SpecIInv, PTL

\* A task that waits for its child, in the shield of funcs.py or by `await`, is
\* told of the child's end.
THEOREM NoLostJoinHolds == Spec => []NoLostJoin
<1>1. IInv => NoLostJoin
  BY DEF IInv, Joins
<1> QED
  BY <1>1, SpecIInv, PTL

\* on_task_done and future_done_cb do not outlive the part of the scope that
\* registered them (_guard_task, _factories.py).
THEOREM CallbacksInScopeHolds == Spec => []CallbacksInScope
<1>1. IInv => CallbacksInScope
  BY DEF IInv, Callbacks
<1> QED
  BY <1>1, SpecIInv, PTL

\* Only a parent that is cancelled in the shield leaves its child behind.
THEOREM WaitsForChildHolds == Spec => WaitsForChild
<1>1. IInv /\ [Next]_vars => [StepWaits]_vars
  BY NextIInv
<1>2. Spec => [][StepWaits]_vars
  BY <1>1, SpecIInv, PTL DEF Spec
<1> QED
  BY <1>2 DEF WaitsForChild, StepWaits, Cancels
=============================================================================
