---------------------------- MODULE ExecutorProofs ----------------------------
(***************************************************************************)
(* Proofs about Executor, for any sets of jobs and of the pool's threads.  *)
(*                                                                         *)
(* What a task is told depends on how far the pool has come with its job,  *)
(* and that the pool has come to an end depends on where each thread is.   *)
(* IInv follows a job from the queue into a worker's hands, and its answer *)
(* from there to the loop, until the last thread has ended.                *)
(***************************************************************************)
EXTENDS Executor, SequenceTheorems, TLAPS

\* Where the threads can be: the pool's run jobs, the other one shuts it down.
Places ==
  /\ \A w \in Workers : at[w] \in {"idle", "took", "running", "tell", "wake", "ended"}
  /\ at[Shutter] \in {"off", "idle", "drain", "tell", "wake", "join", "report", "bye",
                      "ended", "dead"}
  /\ \A j \in Jobs : user[j] \in {"idle", "hooking"} => waiter[j] = "none"
  /\ \A j \in Jobs : user[j] = "idle" => job[j] = "none"
  /\ \A j \in Jobs : user[j] = "hooking" => job[j] # "none"
  /\ user[Owner] = "idle" => at[Shutter] = "off"

\* A job is run by one worker at a time, and what a thread tells has happened.
Working ==
  /\ \A w \in Workers : at[w] = "took" => holds[w] \in Items
  /\ \A w \in Workers : at[w] = "running" =>
       holds[w] \in Items /\ job[holds[w].job] = "running"
  /\ \A v, w \in Workers :
       at[v] = "running" /\ at[w] = "running" /\ holds[v].job = holds[w].job => v = w
  /\ \A th \in Threads : at[th] = "tell" => holds[th] \in Items /\ job[holds[th].job] \in Done

\* An answer is on its way until it is delivered, and it is the job's.
Answers ==
  /\ AnswerNotLost
  /\ \A j \in Jobs : j \in hooked \cup ToSet(calls) \cup answered => waiter[j] # "none"
  /\ \A j \in Jobs : j \in ToSet(calls) \cup answered => job[j] \in Done
  /\ Owner \in ToSet(calls) \cup answered => at[Shutter] \in {"bye", "ended"}

\* How a promise ends, and what its task makes of it.
Ends ==
  /\ EndsAsItsJob
  /\ \A j \in Jobs :
       /\ waiter[j] = "set" => job[j] = "result"
       /\ waiter[j] = "failed" => job[j] = "exception"
       /\ waiter[j] = "cancelled" => j \in asked \/ job[j] = "cancelled"
       /\ user[j] = "thrown" => j \in asked
       /\ user[j] = "waiting" /\ j \in asked => waiter[j] = "cancelled"
       /\ j \in asked => waiter[j] # "none"

\* A job that is not done is in the queue or in a worker's hands.
Taken(j) == \E w \in Workers : at[w] = "took" /\ holds[w] = Item("run", j)
Runs(j) == \E w \in Workers : at[w] = "running" /\ holds[w].job = j

Held ==
  /\ \A j \in Jobs : job[j] = "pending" => Item("run", j) \in ToSet(work) \/ Taken(j)
  /\ \A j \in Jobs : job[j] = "running" => Runs(j)

\* The shutdown drains the queue, and then every worker ends, before the owner
\* is told.
Closing ==
  /\ shut <=> at[Shutter] \notin {"off", "idle"}
  /\ at[Shutter] \in {"join", "report", "bye", "ended", "dead"} => work = <<Stop>>
  /\ at[Shutter] \in {"report", "bye", "ended", "dead"} =>
       \A w \in Workers : at[w] = "ended"
  /\ user[Owner] = "returned" \/ waiter[Owner] = "set" => at[Shutter] \in {"bye", "ended"}

\* In the queue a cancel is behind its job.
Before(s, x, y) == \A i, k \in DOMAIN s : s[i] = x /\ s[k] = y => i < k

Ordered ==
  /\ \A j \in Jobs : Before(work, Item("run", j), Item("cancel", j))
  /\ \A w \in Workers, j \in Jobs :
       at[w] = "took" /\ holds[w] = Item("cancel", j) => Item("run", j) \notin ToSet(work)
  /\ \A j \in Jobs : user[j] = "idle" =>
       /\ Item("run", j) \notin ToSet(work) /\ Item("cancel", j) \notin ToSet(work)
       /\ \A w \in Workers : at[w] = "took" => holds[w].job # j

IInv == TypeOK /\ Places /\ Working /\ Answers /\ Ends /\ Held /\ Closing /\ Ordered

-----------------------------------------------------------------------------
(* Queues: what a call at the end, or from the front, does to them. *)

\* A queue with x behind all that was in it.
LEMMA AppendFacts ==
  ASSUME NEW S, NEW s \in Seq(S), NEW x \in S
  PROVE  /\ Append(s, x) \in Seq(S)
         /\ ToSet(Append(s, x)) = ToSet(s) \cup {x}
         /\ IsInjective(s) /\ x \notin ToSet(s) => IsInjective(Append(s, x))
         /\ \A y, z : Before(s, y, z) /\ (x = y => z \notin ToSet(s)) /\ y # z
                      => Before(Append(s, x), y, z)
<1> DEFINE a == Append(s, x)
<1>1. /\ a \in Seq(S) /\ Len(a) = Len(s) + 1
      /\ \A i \in 1..Len(s) : a[i] = s[i]
      /\ a[Len(s) + 1] = x
  BY AppendProperties
<1> HIDE DEF a
<1>2. /\ DOMAIN s = 1..Len(s) /\ DOMAIN a = 1..Len(a) /\ Len(s) \in Nat
  BY <1>1
<1>3. \A i \in DOMAIN a : \/ i = Len(s) + 1 /\ a[i] = x
                          \/ i \in DOMAIN s /\ a[i] = s[i] /\ i < Len(s) + 1
  BY <1>1, <1>2
<1>4. ToSet(a) = ToSet(s) \cup {x}
  <2>1. ToSet(a) \subseteq ToSet(s) \cup {x}
    BY <1>3 DEF ToSet
  <2>2. x \in ToSet(a)
    BY <1>1, <1>2 DEF ToSet
  <2>3. ToSet(s) \subseteq ToSet(a)
    BY <1>1, <1>2 DEF ToSet
  <2> QED
    BY <2>1, <2>2, <2>3
<1>5. IsInjective(s) /\ x \notin ToSet(s) => IsInjective(a)
  BY <1>3 DEF IsInjective, ToSet
<1>6. ASSUME NEW y, NEW z, Before(s, y, z), x = y => z \notin ToSet(s), y # z
      PROVE  Before(a, y, z)
  BY <1>2, <1>3, <1>6 DEF Before, ToSet
<1> QED
  BY <1>1, <1>4, <1>5, <1>6 DEF a

\* A queue without its head.
LEMMA TailFacts ==
  ASSUME NEW S, NEW s \in Seq(S), s # <<>>
  PROVE  /\ Tail(s) \in Seq(S) /\ Head(s) \in S
         /\ ToSet(s) = ToSet(Tail(s)) \cup {Head(s)}
         /\ IsInjective(s) => IsInjective(Tail(s)) /\ Head(s) \notin ToSet(Tail(s))
         /\ \A y, z : Before(s, y, z) =>
              Before(Tail(s), y, z) /\ (Head(s) = z => y \notin ToSet(Tail(s)))
<1> DEFINE r == Tail(s)
<1>1. /\ Head(s) \in S /\ r \in Seq(S) /\ Len(r) = Len(s) - 1
      /\ \A i \in 1..Len(r) : r[i] = s[i + 1]
  BY HeadTailProperties
<1>2. Head(s) = s[1] /\ DOMAIN s = 1..Len(s) /\ Len(s) \in Nat \ {0}
  BY EmptySeq, LenProperties
<1> HIDE DEF r
<1>3. DOMAIN r = 1..Len(r) /\ Len(r) \in Nat
  BY <1>1
<1>4. \A i \in DOMAIN s : i = 1 \/ (i - 1 \in DOMAIN r /\ r[i - 1] = s[i])
  BY <1>1, <1>2, <1>3
<1>5. \A i \in DOMAIN r : i + 1 \in DOMAIN s /\ r[i] = s[i + 1] /\ i \in Nat \ {0}
  BY <1>1, <1>2, <1>3
<1>6. ToSet(s) = ToSet(r) \cup {s[1]}
  <2>1. ToSet(s) \subseteq ToSet(r) \cup {s[1]}
    BY <1>4 DEF ToSet
  <2>2. ToSet(r) \subseteq ToSet(s)
    BY <1>5 DEF ToSet
  <2>3. s[1] \in ToSet(s)
    BY <1>2 DEF ToSet
  <2> QED
    BY <2>1, <2>2, <2>3
<1>7. 1 \in DOMAIN s
  BY <1>2
<1>8. IsInjective(s) => IsInjective(r) /\ s[1] \notin ToSet(r)
  BY <1>5, <1>7 DEF IsInjective, ToSet
<1>9. ASSUME NEW y, NEW z, Before(s, y, z)
      PROVE  Before(r, y, z) /\ (s[1] = z => y \notin ToSet(r))
  BY <1>5, <1>7, <1>9 DEF Before, ToSet
<1> QED
  BY <1>1, <1>2, <1>6, <1>8, <1>9 DEF r

\* What is in the pool's queue.
LEMMA ItemFacts ==
  /\ Stop \notin Items
  /\ \A j \in Jobs : \A k \in {"run", "cancel"} :
       /\ Item(k, j) \in Items /\ Item(k, j) # Stop
       /\ Item(k, j).kind = k /\ Item(k, j).job = j
  /\ \A x \in Items : /\ x.kind \in {"run", "cancel"} /\ x.job \in Jobs
                       /\ x = Item(x.kind, x.job)
  /\ \A i, j \in Jobs : Item("run", i) # Item("cancel", j)
BY DEF Item, Items, Stop

\* submit: the pool's queue with a new item.
LEMMA WorkIn ==
  ASSUME TypeOK, NEW x \in Items, work' = Append(work, x)
  PROVE  /\ work' \in Seq(Items \cup {Stop})
         /\ ToSet(work') = ToSet(work) \cup {x}
         /\ \A y, z : Before(work, y, z) /\ (x = y => z \notin ToSet(work)) /\ y # z
                      => Before(work', y, z)
<1>1. work \in Seq(Items \cup {Stop}) /\ x \in Items \cup {Stop}
  BY DEF TypeOK
<1> QED
  BY <1>1, AppendFacts

\* A thread takes the oldest item.
LEMMA WorkOut ==
  ASSUME TypeOK, work # <<>>, work' = Tail(work)
  PROVE  /\ work' \in Seq(Items \cup {Stop}) /\ Head(work) \in Items \cup {Stop}
         /\ ToSet(work) = ToSet(work') \cup {Head(work)}
         /\ \A y, z : Before(work, y, z) =>
              Before(work', y, z) /\ (Head(work) = z => y \notin ToSet(work'))
BY TailFacts DEF TypeOK

\* call_soon_thread_safe: the loop's queue with a new call.
LEMMA CallsIn ==
  ASSUME TypeOK, NEW u \in Jobs \cup {Owner}, calls' = Append(calls, u)
  PROVE  /\ calls' \in Seq(Jobs \cup {Owner})
         /\ ToSet(calls') = ToSet(calls) \cup {u}
         /\ IsInjective(calls) /\ u \notin ToSet(calls) => IsInjective(calls')
BY AppendFacts DEF TypeOK

\* The loop takes the oldest call.
LEMMA CallsOut ==
  ASSUME TypeOK, calls # <<>>, calls' = Tail(calls)
  PROVE  /\ calls' \in Seq(Jobs \cup {Owner}) /\ Head(calls) \in Jobs \cup {Owner}
         /\ ToSet(calls) = ToSet(calls') \cup {Head(calls)}
         /\ IsInjective(calls) => IsInjective(calls') /\ Head(calls) \notin ToSet(calls')
BY TailFacts DEF TypeOK

-----------------------------------------------------------------------------
(* Types. *)

\* Every step keeps the types.
LEMMA TypesNext ==
  ASSUME IInv, Next
  PROVE  TypeOK'
<1> USE DEF TypeOK, Threads, Done, poolVars, threadVars, taskVars, callVars
<1> TypeOK /\ Places /\ Working
  BY DEF IInv
<1>1. ASSUME NEW j \in Jobs, Submit(j) PROVE TypeOK'
  <2>1. work' \in Seq(Items \cup {Stop})
    BY <1>1, WorkIn, ItemFacts DEF Submit
  <2>2. /\ job' \in [Jobs -> {"none", "pending", "running"} \cup Done]
        /\ turn' \in Jobs \cup {Owner, "loop"}
    BY <1>1 DEF Submit
  <2>3. /\ user' \in [Jobs \cup {Owner} ->
                     {"idle", "hooking", "waiting", "thrown", "returned", "raised",
                      "cancelled", "refused"}]
        /\ user[j] = "idle" /\ user'[j] \in {"hooking", "refused"}
        /\ \A u \in Jobs \cup {Owner} : u # j => user'[u] = user[u]
    BY <1>1 DEF Submit
  <2>4. waiter[j] = "none" /\ waiter' = waiter
    BY <1>1 DEF Submit, Places
  <2> QED
    BY <1>1, <2>1, <2>2, <2>3, <2>4 DEF Submit
<1>2. ASSUME NEW j \in Jobs, Hook(j) PROVE TypeOK'
  <2>1. calls' \in Seq(Jobs \cup {Owner})
    BY <1>2, CallsIn DEF Hook
  <2> QED
    BY <1>2, <2>1 DEF Hook
<1>3. ASSUME Deliver PROVE TypeOK'
  <2>1. calls' \in Seq(Jobs \cup {Owner}) /\ Head(calls) \in Jobs \cup {Owner}
    BY <1>3, CallsOut DEF Deliver
  <2>2. waiter[Head(calls)] = "pending" => Head(calls) = Owner \/ job[Head(calls)] \in Done
    <3>1. Head(calls) \in ToSet(calls)
      BY <1>3, CallsOut DEF Deliver
    <3> QED
      BY <2>1, <3>1 DEF IInv, Answers
  <2>3. waiter[Head(calls)] = "pending" =>
          Outcome(Head(calls)) \in {"pending", "set", "failed", "cancelled"}
    BY <2>2 DEF Outcome
  <2>4. /\ waiter' \in [Jobs \cup {Owner} -> {"none", "pending", "set", "failed", "cancelled"}]
        /\ \A u \in Jobs \cup {Owner} :
             /\ waiter'[u] = "pending" => waiter[u] = "pending"
             /\ waiter'[u] = "none" => waiter[u] = "none"
    BY <1>3, <2>1, <2>3 DEF Deliver
  <2> QED
    BY <1>3, <2>1, <2>4 DEF Deliver
<1>4. ASSUME NEW j \in Jobs, ResumeTold(j) PROVE TypeOK'
  BY <1>4 DEF ResumeTold
<1>5. ASSUME NEW j \in Jobs, ResumeCancelled(j) PROVE TypeOK'
  <2>1. work' \in Seq(Items \cup {Stop})
    BY <1>5, WorkIn, ItemFacts DEF ResumeCancelled
  <2> QED
    BY <1>5, <2>1 DEF ResumeCancelled
<1>6. ASSUME NEW u \in Jobs \cup {Owner}, Cancel(u) PROVE TypeOK'
  BY <1>6 DEF Cancel
<1>7. ASSUME Close PROVE TypeOK'
  BY <1>7 DEF Close
<1>8. ASSUME Bind PROVE TypeOK'
  BY <1>8 DEF Bind
<1>9. ASSUME ResumeOwner PROVE TypeOK'
  BY <1>9 DEF ResumeOwner, Resumable
<1>10. ASSUME ArmSelect \/ EnterSelect \/ LeaveSelect PROVE TypeOK'
  BY <1>10 DEF ArmSelect, EnterSelect, LeaveSelect
<1>11. ASSUME NEW w \in Workers, Take(w) PROVE TypeOK'
  <2>1. Head(work) # Stop => /\ work' \in Seq(Items \cup {Stop})
                             /\ Head(work) \in Items \cup {Stop}
    BY <1>11, WorkOut DEF Take
  <2> QED
    BY <1>11, <2>1 DEF Take
<1>12. ASSUME NEW w \in Workers, Begin(w) PROVE TypeOK'
  <2>1. holds[w] \in Items /\ holds[w].job \in Jobs
    BY <1>12, ItemFacts DEF Working, Begin
  <2> QED
    BY <1>12, <2>1 DEF Begin, CancelJob, Puts, Rest
<1>13. ASSUME NEW w \in Workers, NEW o \in Done \ {"cancelled"}, Finish(w, o) PROVE TypeOK'
  BY <1>13 DEF Finish
<1>14. ASSUME NEW th \in Threads, Tell(th) PROVE TypeOK'
  <2>1. holds[th].job \in Jobs
    BY <1>14, ItemFacts DEF Working, Tell
  <2>2. calls' \in Seq(Jobs \cup {Owner})
    BY <1>14, <2>1, CallsIn DEF Tell
  <2> QED
    BY <1>14, <2>2 DEF Tell, Puts, Rest
<1>15. ASSUME NEW th \in Threads, Wake(th) PROVE TypeOK'
  BY <1>15 DEF Wake, Rest
<1>16. ASSUME Shutdown \/ Join PROVE TypeOK'
  BY <1>16 DEF Shutdown, Join
<1>17. ASSUME Drain PROVE TypeOK'
  <2>1. work' \in Seq(Items \cup {Stop}) /\ Head(work) \in Items \cup {Stop}
    BY <1>17, WorkOut DEF Drain
  <2>2. CASE Head(work).kind = "run"
    <3>1. Head(work) \in Items
      <4>1. Stop.kind = "stop"
        BY DEF Stop, Item
      <4> QED
        BY <2>1, <2>2, <4>1
    <3>2. CancelJob(Shutter, Head(work)) /\ Head(work).job \in Jobs
      BY <1>17, <2>2, <3>1, ItemFacts DEF Drain
    <3>3. /\ job' \in [Jobs -> {"none", "pending", "running"} \cup Done]
          /\ at' \in [Threads -> {"off", "idle", "took", "running", "tell", "wake", "bye",
                                 "drain", "join", "report", "ended", "dead"}]
          /\ holds' \in [Threads -> Items \cup {Stop}]
      BY <3>1, <3>2 DEF CancelJob, Puts, Rest
    <3> QED
      BY <1>17, <2>1, <3>3 DEF Drain
  <2>3. CASE Head(work).kind # "run"
    BY <1>17, <2>1, <2>3 DEF Drain
  <2> QED
    BY <2>2, <2>3
<1>18. ASSUME Drained PROVE TypeOK'
  <2>1. work' \in Seq(Items \cup {Stop})
    <3>1. work' = <<Stop>>
      BY <1>18 DEF Drained
    <3> HIDE DEF TypeOK
    <3>2. <<Stop>> \in Seq(Items \cup {Stop})
      OBVIOUS
    <3> QED
      BY <3>1, <3>2
  <2> QED
    BY <1>18, <2>1 DEF Drained
<1>19. ASSUME Report PROVE TypeOK'
  <2>1. calls' \in Seq(Jobs \cup {Owner})
    BY <1>19, CallsIn DEF Report
  <2> QED
    BY <1>19, <2>1 DEF Report
<1> QED
  BY <1>1, <1>2, <1>3, <1>4, <1>5, <1>6, <1>7, <1>8, <1>9, <1>10, <1>11, <1>12, <1>13,
     <1>14, <1>15, <1>16, <1>17, <1>18, <1>19, ExecutorAssumption
  DEF Next, LoopStep, WorkerStep, ShutterStep

-----------------------------------------------------------------------------
(* Places. *)

\* Every step leaves each thread, and each task, at a place of its own code.
LEMMA PlacesNext ==
  ASSUME IInv, Next
  PROVE  Places'
<1> USE DEF Places, Threads, poolVars, threadVars, taskVars, callVars
<1> TypeOK /\ Places /\ Working
  BY DEF IInv
<1>1. ASSUME NEW j \in Jobs, Submit(j) PROVE Places'
  BY <1>1, ExecutorAssumption DEF Submit, TypeOK
<1>2. ASSUME NEW j \in Jobs, Hook(j) PROVE Places'
  BY <1>2, ExecutorAssumption DEF Hook, TypeOK
<1>3. ASSUME Deliver PROVE Places'
  <2>1. Head(calls) \in ToSet(calls) /\ Head(calls) \in Jobs \cup {Owner}
    BY <1>3, CallsOut DEF Deliver
  <2>2. Head(calls) \in Jobs => waiter[Head(calls)] # "none"
    BY <2>1 DEF IInv, Answers
  <2>3. \A j \in Jobs : waiter[j] = "none" => waiter'[j] = "none"
    BY <1>3, <2>1, <2>2 DEF Deliver, TypeOK
  <2> QED
    BY <1>3, <2>3 DEF Deliver
<1>4. ASSUME NEW j \in Jobs, ResumeTold(j) \/ ResumeCancelled(j) PROVE Places'
  BY <1>4, ExecutorAssumption DEF ResumeTold, ResumeCancelled, TypeOK
<1>5. ASSUME NEW u \in Jobs \cup {Owner}, Cancel(u) PROVE Places'
  BY <1>5 DEF Cancel, TypeOK
<1>6. ASSUME Close \/ Bind \/ ResumeOwner PROVE Places'
  <2>1. /\ \A j \in Jobs : user'[j] = user[j] /\ waiter'[j] = waiter[j] /\ job'[j] = job[j]
        /\ user'[Owner] # "idle"
    BY <1>6, ExecutorAssumption DEF Close, Bind, ResumeOwner, TypeOK
  <2>2. at'[Shutter] \in {at[Shutter], "idle"} /\ \A w \in Workers : at'[w] = at[w]
    BY <1>6, ExecutorAssumption DEF Close, Bind, ResumeOwner, TypeOK
  <2> QED
    BY <2>1, <2>2
<1>7. ASSUME ArmSelect \/ EnterSelect \/ LeaveSelect PROVE Places'
  BY <1>7 DEF ArmSelect, EnterSelect, LeaveSelect
<1>8. ASSUME NEW w \in Workers, Take(w) PROVE Places'
  BY <1>8, ExecutorAssumption DEF Take, TypeOK
<1>9. ASSUME NEW w \in Workers, Begin(w) PROVE Places'
  <2>1. holds[w].job \in Jobs /\ w # Shutter
    BY <1>9, ItemFacts, ExecutorAssumption DEF Working, Begin
  <2>2. at' \in [Threads -> {"off", "idle", "took", "running", "tell", "wake", "bye",
                           "drain", "join", "report", "ended", "dead"}]
        /\ at'[w] \in {"idle", "running", "tell"} /\ \A th \in Threads : th # w => at'[th] = at[th]
    BY <1>9, <2>1 DEF Begin, CancelJob, Puts, Rest, TypeOK
  <2>3. \A j \in Jobs : job[j] = "none" <=> job'[j] = "none"
    BY <1>9, <2>1 DEF Begin, CancelJob, TypeOK
  <2> QED
    BY <1>9, <2>1, <2>2, <2>3 DEF Begin
<1>10. ASSUME NEW w \in Workers, NEW o \in Done \ {"cancelled"}, Finish(w, o) PROVE Places'
  <2>1. holds[w].job \in Jobs /\ job[holds[w].job] = "running"
    BY <1>10, ItemFacts DEF Finish, Working
  <2>2. at'[w] = "tell" /\ \A x \in Threads : x # w => at'[x] = at[x]
    BY <1>10 DEF Finish, TypeOK
  <2>3. \A j \in Jobs : job[j] = "none" <=> job'[j] = "none"
    BY <1>10, <2>1 DEF Finish, TypeOK, Done
  <2> QED
    BY <1>10, <2>2, <2>3, ExecutorAssumption DEF Finish
<1>11. ASSUME NEW th \in Threads, Tell(th) \/ Wake(th) PROVE Places'
  <2>1. at'[th] \in (IF th = Shutter THEN {"drain", "wake", "ended"} ELSE {"idle", "wake"})
    BY <1>11, ExecutorAssumption DEF Tell, Wake, Puts, Rest, TypeOK
  <2>2. \A x \in Threads : x # th => at'[x] = at[x]
    BY <1>11 DEF Tell, Wake, Puts, TypeOK
  <2>3. at[th] # "off" /\ UNCHANGED <<job, user, waiter>>
    BY <1>11 DEF Tell, Wake
  <2>4. at'[Shutter] = at[Shutter] \/ at'[Shutter] \in {"drain", "wake", "ended"}
    BY <2>1, <2>2
  <2>5. \A w \in Workers : at'[w] = at[w] \/ at'[w] \in {"idle", "wake"}
    BY <2>1, <2>2, ExecutorAssumption
  <2>6. at[Shutter] = "off" => at'[Shutter] = "off"
    BY <2>2, <2>3
  <2> QED
    BY <2>3, <2>4, <2>5, <2>6
<1>12. ASSUME Shutdown \/ Drained \/ Join \/ Report PROVE Places'
  BY <1>12, ExecutorAssumption DEF Shutdown, Drained, Join, Report, TypeOK
<1>13. ASSUME Drain PROVE Places'
  <2>1. at'[Shutter] \in {"drain", "tell"} /\ \A w \in Workers : at'[w] = at[w]
    BY <1>13, ExecutorAssumption DEF Drain, CancelJob, Puts, Rest, TypeOK
  <2>2. \A j \in Jobs : job[j] = "none" <=> job'[j] = "none"
    BY <1>13 DEF Drain, CancelJob, TypeOK
  <2> QED
    BY <1>13, <2>1, <2>2 DEF Drain
<1> QED
  BY <1>1, <1>2, <1>3, <1>4, <1>5, <1>6, <1>7, <1>8, <1>9, <1>10, <1>11, <1>12, <1>13,
     ExecutorAssumption
  DEF Next, LoopStep, WorkerStep, ShutterStep

-----------------------------------------------------------------------------
(* Working. *)

\* A thread that goes where it neither runs a job nor has one to tell.
LEMMA QuietMove ==
  ASSUME Working, NEW th \in Threads, job' = job,
         at'[th] \notin {"took", "running", "tell"},
         \A x \in Threads \ {th} : at'[x] = at[x] /\ holds'[x] = holds[x]
  PROVE  Working'
BY DEF Working, Threads

\* Future.cancel, on a worker or in the drain, ends no job that is being run.
LEMMA CancelWorking ==
  ASSUME TypeOK, Places, Working, NEW th \in Threads, NEW item \in Items,
         CancelJob(th, item), at[th] \in {"took", "drain"}
  PROVE  Working'
<1>1. item.job \in Jobs
  BY ItemFacts
<1>2. CASE job[item.job] = "pending"
  <2>1. /\ \A j \in Jobs : job'[j] = IF j = item.job THEN "cancelled" ELSE job[j]
        /\ at'[th] = "tell" /\ holds'[th] = item
        /\ \A x \in Threads \ {th} : at'[x] = at[x] /\ holds'[x] = holds[x]
    BY <1>1, <1>2 DEF CancelJob, TypeOK
  <2>2. \A x \in Threads : at[x] = "tell" => holds[x].job # item.job
    BY <1>2 DEF Working, Done
  <2>3. \A w \in Workers : at[w] = "running" => holds[w].job # item.job
    BY <1>2 DEF Working
  <2>4. \A x \in Threads : at'[x] = "tell" =>
          holds'[x] \in Items /\ job'[holds'[x].job] \in Done
    <3>1. ASSUME NEW x \in Threads \ {th}, at'[x] = "tell"
          PROVE  holds'[x] \in Items /\ job'[holds'[x].job] \in Done
      <4>1. holds[x] \in Items /\ job[holds[x].job] \in Done /\ holds[x].job \in Jobs
        BY <2>1, <3>1, ItemFacts DEF Working
      <4> QED
        BY <2>1, <2>2, <3>1, <4>1
    <3>2. item \in Items /\ job'[item.job] \in Done
      BY <1>1, <2>1 DEF Done
    <3> QED
      BY <2>1, <3>1, <3>2
  <2>5. \A w \in Workers : at'[w] \in {"took", "running"} => w # th
    BY <2>1
  <2> QED
    BY <1>1, <2>1, <2>3, <2>4, <2>5, ItemFacts DEF Working, Threads
<1>3. CASE job[item.job] # "pending"
  BY <1>3, QuietMove DEF CancelJob, Puts, Rest, TypeOK
<1> QED
  BY <1>2, <1>3

\* Two workers never run the same job.
LEMMA WorkingNext ==
  ASSUME IInv, Next
  PROVE  Working'
<1> USE DEF poolVars, threadVars, taskVars, callVars
<1> TypeOK /\ Places /\ Working
  BY DEF IInv
<1> DEFINE Still == UNCHANGED <<job, at, holds>>
<1>1. ASSUME Still PROVE Working'
  BY <1>1 DEF Working
<1>2. ASSUME NEW j \in Jobs, Submit(j) PROVE Working'
  <2>1. CASE shut
    BY <1>1, <1>2, <2>1 DEF Submit
  <2>2. CASE ~shut
    <3>1. job[j] = "none" /\ \A i \in Jobs : i # j => job'[i] = job[i]
      BY <1>2, <2>2 DEF Submit, Places, TypeOK
    <3>2. UNCHANGED <<at, holds>>
      BY <1>2 DEF Submit
    <3>3. /\ \A v \in Workers : at[v] = "running" => holds[v].job \in Jobs \ {j}
          /\ \A x \in Threads : at[x] = "tell" => holds[x].job \in Jobs \ {j}
      BY <3>1, ItemFacts DEF Working, Done
    <3> QED
      BY <3>1, <3>2, <3>3 DEF Working
  <2> QED
    BY <2>1, <2>2
<1>3. ASSUME Close PROVE Working'
  BY <1>3, QuietMove DEF Close, TypeOK, Threads
<1>4. ASSUME NEW w \in Workers, Take(w) PROVE Working'
  <2>1. CASE Head(work) = Stop
    BY <1>4, <2>1, QuietMove DEF Take, TypeOK, Threads
  <2>2. CASE Head(work) # Stop
    <3>1. Head(work) \in Items
      BY <1>4, <2>2, WorkOut DEF Take
    <3>2. /\ at'[w] = "took" /\ holds'[w] = Head(work) /\ job' = job
          /\ \A x \in Threads \ {w} : at'[x] = at[x] /\ holds'[x] = holds[x]
      BY <1>4, <2>2 DEF Take, TypeOK, Threads
    <3> QED
      BY <3>1, <3>2 DEF Working, Threads
  <2> QED
    BY <2>1, <2>2
<1>5. ASSUME NEW w \in Workers, Begin(w) PROVE Working'
  <2>1. holds[w] \in Items /\ holds[w].job \in Jobs
    BY <1>5, ItemFacts DEF Begin, Working
  <2>2. CASE holds[w].kind = "cancel"
    BY <1>5, <2>1, <2>2, CancelWorking DEF Begin, Threads
  <2>3. CASE holds[w].kind # "cancel" /\ job[holds[w].job] # "pending"
    <3>1. Puts(w) /\ job' = job
      BY <1>5, <2>3 DEF Begin
    <3>2. at'[w] \in {"drain", "idle"}
      BY <3>1 DEF Puts, Rest, TypeOK, Threads
    <3>3. \A x \in Threads \ {w} : at'[x] = at[x] /\ holds'[x] = holds[x]
      BY <3>1 DEF Puts, TypeOK
    <3> QED
      BY <3>1, <3>2, <3>3, QuietMove DEF Threads
  <2>4. CASE holds[w].kind # "cancel" /\ job[holds[w].job] = "pending"
    <3>1. /\ \A j \in Jobs : job'[j] = IF j = holds[w].job THEN "running" ELSE job[j]
          /\ at'[w] = "running" /\ \A x \in Threads \ {w} : at'[x] = at[x]
          /\ holds' = holds
      BY <1>5, <2>1, <2>4 DEF Begin, TypeOK, Threads
    <3>2. /\ \A v \in Workers : at[v] = "running" => holds[v].job # holds[w].job
          /\ \A x \in Threads : at[x] = "tell" => holds[x].job # holds[w].job
      BY <2>4 DEF Working, Done
    <3>3. \A v \in Workers : at'[v] = "running" =>
            holds'[v] \in Items /\ job'[holds'[v].job] = "running"
      BY <2>1, <3>1, <3>2, ItemFacts DEF Working, Threads
    <3>4. \A x \in Threads : at'[x] = "tell" =>
            holds'[x] \in Items /\ job'[holds'[x].job] \in Done
      BY <3>1, <3>2, ItemFacts DEF Working, Threads
    <3>5. \A v \in Workers : at'[v] = "took" => holds'[v] \in Items
      BY <3>1 DEF Working, Threads
    <3>6. \A u, v \in Workers :
            at'[u] = "running" /\ at'[v] = "running" /\ holds'[u].job = holds'[v].job => u = v
      BY <3>1, <3>2 DEF Working, Threads
    <3> QED
      BY <3>3, <3>4, <3>5, <3>6 DEF Working
  <2> QED
    BY <2>2, <2>3, <2>4
<1>6. ASSUME NEW w \in Workers, NEW o \in Done \ {"cancelled"}, Finish(w, o) PROVE Working'
  <2>1. holds[w] \in Items /\ holds[w].job \in Jobs /\ job[holds[w].job] = "running"
    BY <1>6, ItemFacts DEF Finish, Working
  <2>2. /\ \A j \in Jobs : job'[j] = IF j = holds[w].job THEN o ELSE job[j]
        /\ at'[w] = "tell" /\ \A x \in Threads \ {w} : at'[x] = at[x]
        /\ holds' = holds
    BY <1>6, <2>1 DEF Finish, TypeOK, Threads
  <2>3. \A v \in Workers : v # w /\ at[v] = "running" => holds[v].job # holds[w].job
    BY <1>6 DEF Finish, Working
  <2>4. \A v \in Workers : at'[v] = "running" =>
          holds'[v] \in Items /\ job'[holds'[v].job] = "running"
    BY <2>1, <2>2, <2>3, ItemFacts DEF Working, Threads
  <2>5. \A x \in Threads : at'[x] = "tell" =>
          holds'[x] \in Items /\ job'[holds'[x].job] \in Done
    BY <2>1, <2>2, ItemFacts DEF Working, Threads
  <2>6. \A v \in Workers : at'[v] = "took" => holds'[v] \in Items
    BY <2>2 DEF Working, Threads
  <2>7. \A u, v \in Workers :
          at'[u] = "running" /\ at'[v] = "running" /\ holds'[u].job = holds'[v].job => u = v
    BY <2>2 DEF Working, Threads
  <2> QED
    BY <2>4, <2>5, <2>6, <2>7 DEF Working
<1>7. ASSUME NEW th \in Threads, Tell(th) \/ Wake(th) PROVE Working'
  <2>1. at'[th] \in {"idle", "drain", "wake", "ended"} /\ job' = job
    BY <1>7 DEF Tell, Wake, Puts, Rest, TypeOK
  <2>2. \A x \in Threads \ {th} : at'[x] = at[x] /\ holds'[x] = holds[x]
    BY <1>7 DEF Tell, Wake, Puts, Rest, TypeOK
  <2> QED
    BY <2>1, <2>2, QuietMove
<1>8. ASSUME Shutdown \/ Drained \/ Join \/ Report PROVE Working'
  <2>1. at'[Shutter] \in {"drain", "join", "report", "bye", "dead"} /\ job' = job
    BY <1>8 DEF Shutdown, Drained, Join, Report, TypeOK, Threads
  <2>2. \A x \in Threads \ {Shutter} : at'[x] = at[x] /\ holds'[x] = holds[x]
    BY <1>8 DEF Shutdown, Drained, Join, Report, TypeOK, Threads
  <2> QED
    BY <2>1, <2>2, QuietMove DEF Threads
<1>9. ASSUME Drain PROVE Working'
  <2>1. CASE Head(work).kind = "run"
    <3>1. Head(work) \in Items
      <4>1. Stop.kind = "stop"
        BY DEF Stop, Item
      <4> QED
        BY <1>9, <2>1, <4>1, WorkOut DEF Drain
    <3> QED
      BY <1>9, <2>1, <3>1, CancelWorking DEF Drain, Threads
  <2>2. CASE Head(work).kind # "run"
    BY <1>1, <1>9, <2>2 DEF Drain
  <2> QED
    BY <2>1, <2>2
<1>10. ASSUME \/ Deliver \/ Bind \/ ResumeOwner \/ ArmSelect \/ EnterSelect \/ LeaveSelect
              \/ \E j \in Jobs : Hook(j) \/ ResumeTold(j) \/ ResumeCancelled(j)
              \/ \E u \in Impatient : Cancel(u)
       PROVE  Still
  BY <1>10 DEF Deliver, Bind, ResumeOwner, ArmSelect, EnterSelect, LeaveSelect,
     Hook, ResumeTold, ResumeCancelled, Cancel
<1> HIDE DEF Still
<1> QED
  BY <1>1, <1>2, <1>3, <1>4, <1>5, <1>6, <1>7, <1>8, <1>9, <1>10
  DEF Next, LoopStep, WorkerStep, ShutterStep, Threads

-----------------------------------------------------------------------------
(* Answers. *)

\* A thread moves, and who was about to tell still is, or has nobody to tell.
LEMMA KeepAnswers ==
  ASSUME TypeOK, Answers, UNCHANGED <<hooked, calls, answered>>,
         \A j \in Jobs : waiter'[j] = "none" <=> waiter[j] = "none",
         \A j \in Jobs : job[j] \in Done => job'[j] = job[j],
         \A j \in hooked : job[j] \in {"pending", "running"} =>
           job'[j] \in {"pending", "running"} \/ Telling(j)',
         \A j \in hooked : Telling(j) => Telling(j)',
         at[Shutter] \in {"bye", "ended"} => at'[Shutter] \in {"bye", "ended"}
  PROVE  Answers'
<1>1. hooked \subseteq Jobs
  BY DEF TypeOK
<1>2. \A j \in Jobs : j \in hooked => job'[j] \in {"pending", "running"} \/ Telling(j)'
  BY <1>1 DEF Answers, AnswerNotLost
<1>3. AnswerNotLost'
  BY <1>2 DEF Answers, AnswerNotLost
<1> QED
  BY <1>3 DEF Answers

\* Future.cancel leaves a thread that is to tell of it.
LEMMA CancelAnswers ==
  ASSUME TypeOK, Answers, NEW th \in Threads, NEW item \in Items, CancelJob(th, item),
         at[th] \in {"took", "drain"}, UNCHANGED <<hooked, calls, answered, waiter>>
  PROVE  Answers'
<1>1. item.job \in Jobs
  BY ItemFacts
<1>2. \A x \in Threads \ {th} : at'[x] = at[x] /\ holds'[x] = holds[x]
  BY DEF CancelJob, Puts, TypeOK
<1>3. \A j \in Jobs : Telling(j) => Telling(j)'
  BY <1>2 DEF Telling
<1>4. /\ \A j \in Jobs : job[j] \in Done => job'[j] = job[j]
      /\ \A j \in Jobs : job'[j] # job[j] => j = item.job /\ at'[th] = "tell" /\ holds'[th] = item
  BY <1>1 DEF CancelJob, TypeOK, Done
<1>5. \A j \in Jobs : job'[j] = job[j] \/ Telling(j)'
  BY <1>4 DEF Telling
<1>6. hooked \subseteq Jobs
  BY DEF TypeOK
<1>7. at[Shutter] \in {"bye", "ended"} => at'[Shutter] = at[Shutter]
  BY <1>2 DEF Threads
<1> QED
  BY <1>3, <1>4, <1>5, <1>6, <1>7, KeepAnswers

\* A thread that had nothing to tell goes on without ending a job.
LEMMA QuietAnswers ==
  ASSUME TypeOK, Answers, NEW th \in Threads, at[th] # "tell",
         UNCHANGED <<hooked, calls, answered, waiter>>,
         \A x \in Threads \ {th} : at'[x] = at[x] /\ holds'[x] = holds[x],
         \A j \in Jobs : job[j] # "pending" => job'[j] = job[j],
         \A j \in Jobs : job[j] = "pending" => job'[j] \in {"pending", "running"},
         at[Shutter] \in {"bye", "ended"} => at'[Shutter] \in {"bye", "ended"}
  PROVE  Answers'
<1>1. \A j \in Jobs : Telling(j) => Telling(j)'
  BY DEF Telling
<1>2. hooked \subseteq Jobs
  BY DEF TypeOK
<1> QED
  BY <1>1, <1>2, KeepAnswers DEF Done

\* No step loses an answer or gives it twice.
LEMMA AnswersNext ==
  ASSUME IInv, Next
  PROVE  Answers'
<1> USE DEF poolVars, threadVars, taskVars, callVars
<1> TypeOK /\ Places /\ Working /\ Answers
  BY DEF IInv
<1> hooked \subseteq Jobs
  BY DEF TypeOK
<1>1. ASSUME UNCHANGED <<job, hooked, at, holds, calls, answered>>,
             \A j \in Jobs : waiter'[j] = "none" <=> waiter[j] = "none"
      PROVE  Answers'
  <2>1. \A j \in Jobs : Telling(j)' <=> Telling(j)
    BY <1>1 DEF Telling
  <2> QED
    BY <1>1, <2>1, KeepAnswers
<1>2. ASSUME NEW j \in Jobs, Submit(j) PROVE Answers'
  <2>1. job[j] = "none"
    BY <1>2 DEF Submit, Places
  <2>2. \A i \in Jobs : job'[i] = job[i] \/ (i = j /\ job'[i] = "pending")
    BY <1>2 DEF Submit, TypeOK
  <2>3. \A i \in Jobs : Telling(i)' <=> Telling(i)
    BY <1>2 DEF Telling, Submit
  <2>4. UNCHANGED <<hooked, calls, answered, waiter, at>>
    BY <1>2 DEF Submit
  <2> QED
    BY <2>1, <2>2, <2>3, <2>4, KeepAnswers DEF Done
<1>3. ASSUME NEW j \in Jobs, Hook(j) PROVE Answers'
  <2>1. j \notin hooked \cup ToSet(calls) \cup answered
    BY <1>3 DEF Hook, Places, Answers
  <2>2. /\ waiter'[j] # "none" /\ \A i \in Jobs \ {j} : waiter'[i] = waiter[i]
        /\ UNCHANGED <<job, at, answered>> /\ j # Owner
    BY <1>3, ExecutorAssumption DEF Hook, TypeOK
  <2>3. \A i \in Jobs : Telling(i)' <=> Telling(i)
    BY <1>3 DEF Telling, Hook
  <2>4. CASE job[j] \in Done
    <3>1. /\ ToSet(calls') = ToSet(calls) \cup {j} /\ hooked' = hooked
          /\ IsInjective(calls) => IsInjective(calls')
      BY <1>3, <2>1, <2>4, CallsIn DEF Hook
    <3>2. AnswerNotLost'
      BY <2>1, <2>2, <2>3, <3>1 DEF Answers, AnswerNotLost
    <3> QED
      BY <2>1, <2>2, <2>4, <3>1, <3>2 DEF Answers
  <2>5. CASE job[j] \notin Done
    <3>1. hooked' = hooked \cup {j} /\ calls' = calls
      BY <1>3, <2>5 DEF Hook
    <3>2. job[j] \in {"pending", "running"}
      BY <1>3, <2>5 DEF TypeOK, Places, Hook
    <3>3. AnswerNotLost'
      BY <2>1, <2>2, <2>3, <3>1, <3>2 DEF Answers, AnswerNotLost
    <3> QED
      BY <2>1, <2>2, <3>1, <3>3 DEF Answers
  <2> QED
    BY <2>4, <2>5
<1>4. ASSUME Deliver PROVE Answers'
  <2> DEFINE u == Head(calls)
  <2>1. /\ u \in Jobs \cup {Owner} /\ ToSet(calls) = ToSet(calls') \cup {u}
        /\ IsInjective(calls') /\ u \notin ToSet(calls')
    BY <1>4, CallsOut DEF Deliver, Answers, AnswerNotLost
  <2>2. /\ answered' = answered \cup {u} /\ UNCHANGED <<job, hooked, at>>
        /\ \A j \in Jobs : waiter[j] = "none" => waiter'[j] = "none"
    <3>1. u \in Jobs => waiter[u] # "none"
      BY <2>1 DEF Answers
    <3> QED
      BY <1>4, <2>1, <3>1 DEF Deliver, TypeOK
  <2>3. \A j \in Jobs : waiter'[j] = "none" => waiter[j] = "none"
    <3>1. waiter[u] = "pending" => Outcome(u) # "none"
      BY <2>1 DEF Outcome, Answers, Done
    <3> QED
      BY <1>4, <2>1, <3>1 DEF Deliver, TypeOK
  <2>4. \A j \in Jobs : Telling(j)' <=> Telling(j)
    BY <1>4 DEF Deliver, Telling
  <2> HIDE DEF u
  <2>5. AnswerNotLost'
    BY <2>1, <2>2, <2>3, <2>4 DEF Answers, AnswerNotLost
  <2> QED
    BY <2>1, <2>2, <2>3, <2>5 DEF Answers
<1>5. ASSUME NEW j \in Jobs, ResumeTold(j) \/ ResumeCancelled(j) PROVE Answers'
  BY <1>1, <1>5 DEF ResumeTold, ResumeCancelled
<1>6. ASSUME NEW u \in Jobs \cup {Owner}, Cancel(u) PROVE Answers'
  <2>1. \A j \in Jobs : waiter'[j] = "none" <=> waiter[j] = "none"
    BY <1>6 DEF Cancel, TypeOK
  <2> QED
    BY <1>1, <1>6, <2>1 DEF Cancel
<1>7. ASSUME Close PROVE Answers'
  <2>1. \A j \in Jobs : Telling(j) => Telling(j)'
    BY <1>7 DEF Telling, Close, TypeOK, Places
  <2>2. UNCHANGED <<job, hooked, calls, answered, waiter>> /\ at[Shutter] = "off"
    BY <1>7 DEF Close, Places
  <2> QED
    BY <2>1, <2>2, KeepAnswers
<1>8. ASSUME Bind PROVE Answers'
  BY <1>1, <1>8, ExecutorAssumption DEF Bind, TypeOK
<1>9. ASSUME ResumeOwner \/ ArmSelect \/ EnterSelect \/ LeaveSelect PROVE Answers'
  BY <1>1, <1>9 DEF ResumeOwner, ArmSelect, EnterSelect, LeaveSelect
<1>10. ASSUME NEW w \in Workers, Take(w) PROVE Answers'
  <2>1. /\ at[w] # "tell" /\ w \in Threads /\ w # Shutter
        /\ UNCHANGED <<job, hooked, calls, answered, waiter>>
    BY <1>10, ExecutorAssumption DEF Take, Threads
  <2>2. \A x \in Threads \ {w} : at'[x] = at[x] /\ holds'[x] = holds[x]
    BY <1>10 DEF Take, TypeOK
  <2> QED
    BY <2>1, <2>2, QuietAnswers DEF Threads
<1>11. ASSUME NEW w \in Workers, Begin(w) PROVE Answers'
  <2>1. /\ holds[w] \in Items /\ holds[w].job \in Jobs /\ w \in Threads /\ w # Shutter
        /\ UNCHANGED <<hooked, calls, answered, waiter>> /\ at[w] = "took"
    BY <1>11, ItemFacts, ExecutorAssumption DEF Begin, Working, Threads
  <2>2. CASE holds[w].kind = "cancel"
    BY <1>11, <2>1, <2>2, CancelAnswers DEF Begin
  <2>3. CASE holds[w].kind # "cancel"
    <3>1. \A x \in Threads \ {w} : at'[x] = at[x] /\ holds'[x] = holds[x]
      BY <1>11, <2>3 DEF Begin, Puts, TypeOK
    <3>2. job' = job \/ (/\ job[holds[w].job] = "pending"
                        /\ job' = [job EXCEPT ![holds[w].job] = "running"])
      BY <1>11, <2>3 DEF Begin
    <3>3. /\ \A j \in Jobs : job[j] # "pending" => job'[j] = job[j]
          /\ \A j \in Jobs : job[j] = "pending" => job'[j] \in {"pending", "running"}
      BY <2>1, <3>2 DEF TypeOK
    <3> QED
      BY <2>1, <3>1, <3>3, QuietAnswers DEF Threads
  <2> QED
    BY <2>2, <2>3
<1>12. ASSUME NEW w \in Workers, NEW o \in Done \ {"cancelled"}, Finish(w, o) PROVE Answers'
  <2>1. /\ holds[w].job \in Jobs /\ job[holds[w].job] = "running" /\ w \in Threads /\ w # Shutter
        /\ UNCHANGED <<hooked, calls, answered, waiter>> /\ holds' = holds
    BY <1>12, ItemFacts, ExecutorAssumption DEF Finish, Working, Threads
  <2>2. at'[w] = "tell" /\ \A x \in Threads \ {w} : at'[x] = at[x]
    BY <1>12, <2>1 DEF Finish, TypeOK
  <2>3. \A j \in Jobs : Telling(j) => Telling(j)'
    BY <2>1, <2>2 DEF Telling
  <2>4. \A j \in Jobs : job'[j] = job[j] \/ (job[j] = "running" /\ Telling(j)')
    BY <1>12, <2>1, <2>2 DEF Finish, TypeOK, Telling
  <2>5. at'[Shutter] = at[Shutter]
    BY <2>1, <2>2 DEF Threads
  <2> QED
    BY <2>1, <2>3, <2>4, <2>5, KeepAnswers DEF Done
<1>13. ASSUME NEW th \in Threads, Tell(th) PROVE Answers'
  <2> DEFINE j == holds[th].job
  <2>1. /\ j \in Jobs /\ job[j] \in Done /\ j # Owner
        /\ UNCHANGED <<job, answered, waiter>>
    BY <1>13, ItemFacts, ExecutorAssumption DEF Tell, Working
  <2>2. \A x \in Threads \ {th} : at'[x] = at[x] /\ holds'[x] = holds[x]
    BY <1>13 DEF Tell, Puts, TypeOK
  <2>3. at[Shutter] \in {"bye", "ended"} => at'[Shutter] = at[Shutter]
    BY <1>13, <2>2 DEF Tell, Threads
  <2>4. \A i \in Jobs \ {j} : Telling(i) => Telling(i)'
    BY <2>2 DEF Telling
  <2>5. CASE j \in hooked
    <3>1. /\ hooked' = hooked \ {j} /\ ToSet(calls') = ToSet(calls) \cup {j}
          /\ IsInjective(calls')
      BY <1>13, <2>1, <2>5, CallsIn DEF Tell, Answers, AnswerNotLost
    <3> HIDE DEF j
    <3>2. AnswerNotLost'
      BY <2>1, <2>4, <2>5, <3>1 DEF Answers, AnswerNotLost
    <3> QED
      BY <2>1, <2>3, <2>5, <3>1, <3>2 DEF Answers
  <2>6. CASE j \notin hooked
    <3>1. UNCHANGED <<hooked, calls>>
      BY <1>13, <2>6 DEF Tell
    <3> HIDE DEF j
    <3> QED
      BY <2>1, <2>3, <2>4, <2>6, <3>1, KeepAnswers
  <2> QED
    BY <2>5, <2>6
<1>14. ASSUME NEW th \in Threads, Wake(th) PROVE Answers'
  <2>1. /\ at[th] # "tell" /\ UNCHANGED <<job, hooked, calls, answered, waiter>>
        /\ (at[th] \in {"bye", "ended"} => at'[th] = "ended")
    BY <1>14 DEF Wake, TypeOK
  <2>2. \A x \in Threads \ {th} : at'[x] = at[x] /\ holds'[x] = holds[x]
    BY <1>14 DEF Wake, TypeOK
  <2>3. at[Shutter] \in {"bye", "ended"} => at'[Shutter] \in {"bye", "ended"}
    <3>1. CASE th = Shutter
      BY <2>1, <3>1
    <3>2. CASE th # Shutter
      BY <2>2, <3>2 DEF Threads
    <3> QED
      BY <3>1, <3>2
  <2> QED
    BY <2>1, <2>2, <2>3, QuietAnswers
<1>15. ASSUME Shutdown \/ Drained \/ Join PROVE Answers'
  <2>1. /\ at[Shutter] \notin {"tell", "bye", "ended"} /\ Shutter \in Threads
        /\ UNCHANGED <<job, hooked, calls, answered, waiter>>
    BY <1>15 DEF Shutdown, Drained, Join, Threads
  <2>2. \A x \in Threads \ {Shutter} : at'[x] = at[x] /\ holds'[x] = holds[x]
    BY <1>15 DEF Shutdown, Drained, Join, TypeOK
  <2> QED
    BY <2>1, <2>2, QuietAnswers
<1>16. ASSUME Drain PROVE Answers'
  <2>1. CASE Head(work).kind = "run"
    <3>1. Head(work) \in Items
      <4>1. Stop.kind = "stop"
        BY DEF Stop, Item
      <4> QED
        BY <1>16, <2>1, <4>1, WorkOut DEF Drain
    <3> QED
      BY <1>16, <2>1, <3>1, CancelAnswers DEF Drain, Threads
  <2>2. CASE Head(work).kind # "run"
    BY <1>1, <1>16, <2>2 DEF Drain
  <2> QED
    BY <2>1, <2>2
<1>17. ASSUME Report PROVE Answers'
  <2>1. /\ at[Shutter] = "report" /\ Owner \notin ToSet(calls) \cup answered
        /\ UNCHANGED <<job, hooked, answered, waiter, holds>>
        /\ Owner \notin hooked /\ Owner \notin Jobs /\ Shutter \in Threads
    BY <1>17, ExecutorAssumption DEF Report, Answers, Threads
  <2>2. CASE waiter[Owner] = "none"
    <3>1. \A x \in Threads \ {Shutter} : at'[x] = at[x]
      BY <1>17, <2>2 DEF Report, TypeOK
    <3>2. calls' = calls
      BY <1>17, <2>2 DEF Report
    <3> QED
      BY <2>1, <3>1, <3>2, QuietAnswers
  <2>3. CASE waiter[Owner] # "none"
    <3>1. ToSet(calls') = ToSet(calls) \cup {Owner} /\ IsInjective(calls')
      BY <1>17, <2>1, <2>3, CallsIn DEF Report, Answers, AnswerNotLost
    <3>2. at'[Shutter] = "bye" /\ \A x \in Threads \ {Shutter} : at'[x] = at[x]
      BY <1>17, <2>1, <2>3 DEF Report, TypeOK
    <3>3. \A j \in Jobs : Telling(j) => Telling(j)'
      BY <2>1, <3>2 DEF Telling
    <3>4. AnswerNotLost'
      BY <2>1, <3>1, <3>3 DEF Answers, AnswerNotLost
    <3> QED
      BY <2>1, <3>1, <3>2, <3>4 DEF Answers
  <2> QED
    BY <2>2, <2>3
<1> QED
  BY <1>2, <1>3, <1>4, <1>5, <1>6, <1>7, <1>8, <1>9, <1>10, <1>11, <1>12, <1>13, <1>14,
     <1>15, <1>16, <1>17, ExecutorAssumption
  DEF Next, LoopStep, WorkerStep, ShutterStep, Threads

-----------------------------------------------------------------------------
(* Ends. *)

\* What has ended stays as it ended, and the shutdown is for good.
LEMMA DoneStays ==
  ASSUME IInv, Next
  PROVE  /\ \A j \in Jobs : job[j] \in Done => job'[j] = job[j]
         /\ shut => shut'
<1> DEFINE P == (\A j \in Jobs : job[j] \in Done => job'[j] = job[j]) /\ (shut => shut')
<1> USE DEF poolVars, threadVars, taskVars, callVars
<1> TypeOK /\ Places /\ Working
  BY DEF IInv
<1>1. ASSUME NEW j \in Jobs, Submit(j) PROVE P
  BY <1>1 DEF Submit, Places, TypeOK, Done
<1>2. ASSUME NEW item \in Items, NEW th \in Threads, CancelJob(th, item), shut' = shut PROVE P
  <2>1. item.job \in Jobs
    BY ItemFacts
  <2>2. \/ job' = job
        \/ job[item.job] = "pending" /\ job' = [job EXCEPT ![item.job] = "cancelled"]
    BY <1>2 DEF CancelJob
  <2> QED
    BY <1>2, <2>1, <2>2 DEF TypeOK, Done
<1>3. ASSUME NEW w \in Workers, Begin(w) PROVE P
  <2>1. holds[w] \in Items /\ holds[w].job \in Jobs
    BY <1>3, ItemFacts DEF Begin, Working
  <2>2. CASE holds[w].kind = "cancel"
    BY <1>2, <1>3, <2>1, <2>2 DEF Begin, Threads
  <2>3. CASE holds[w].kind # "cancel"
    BY <1>3, <2>1, <2>3 DEF Begin, TypeOK, Done
  <2> QED
    BY <2>2, <2>3
<1>4. ASSUME NEW w \in Workers, NEW o \in Done \ {"cancelled"}, Finish(w, o) PROVE P
  <2>1. job[holds[w].job] = "running"
    BY <1>4 DEF Finish, Working
  <2> QED
    BY <1>4, <2>1 DEF Finish, TypeOK, Done
<1>5. ASSUME Drain PROVE P
  <2>1. CASE Head(work).kind = "run"
    <3>1. Head(work) \in Items
      <4>1. Stop.kind = "stop"
        BY DEF Stop, Item
      <4> QED
        BY <1>5, <2>1, <4>1, WorkOut DEF Drain
    <3> QED
      BY <1>2, <1>5, <2>1, <3>1 DEF Drain, Threads
  <2>2. CASE Head(work).kind # "run"
    BY <1>5, <2>2 DEF Drain
  <2> QED
    BY <2>1, <2>2
<1>6. ASSUME \/ Deliver \/ Bind \/ ResumeOwner \/ ArmSelect \/ EnterSelect \/ LeaveSelect
             \/ \E j \in Jobs : Hook(j) \/ ResumeTold(j) \/ ResumeCancelled(j)
             \/ \E u \in Impatient : Cancel(u)
             \/ \E w \in Workers : Take(w)
             \/ \E th \in Threads : Tell(th) \/ Wake(th)
             \/ Close \/ Shutdown \/ Drained \/ Join \/ Report
      PROVE  P
  BY <1>6 DEF Deliver, Bind, ResumeOwner, ArmSelect, EnterSelect, LeaveSelect, Hook,
     ResumeTold, ResumeCancelled, Cancel, Take, Tell, Wake, Close, Shutdown, Drained,
     Join, Report
<1> HIDE DEF P
<1> P
  BY <1>1, <1>3, <1>4, <1>5, <1>6 DEF Next, LoopStep, WorkerStep, ShutterStep, Threads
<1> QED
  BY DEF P

\* What a task makes of its promise agrees with the job, and with who cancelled.
LEMMA EndsNext ==
  ASSUME IInv, Next
  PROVE  Ends'
<1> USE DEF poolVars, threadVars, taskVars, callVars
<1> TypeOK /\ Places /\ Answers /\ Ends
  BY DEF IInv
<1>0. /\ \A j \in Jobs : job[j] \in Done => job'[j] = job[j]
      /\ shut => shut'
  BY DoneStays
<1>1. ASSUME \A j \in Jobs : user'[j] = user[j] /\ waiter'[j] = waiter[j],
             asked' \cap Jobs = asked \cap Jobs
      PROVE  Ends'
  <2>1. \A j \in Jobs : j \in asked' <=> j \in asked
    BY <1>1
  <2>2. EndsAsItsJob'
    BY <1>0, <1>1, <2>1 DEF Ends, EndsAsItsJob, Done
  <2> QED
    BY <1>0, <1>1, <2>1, <2>2 DEF Ends, Done
<1>2. ASSUME NEW j \in Jobs, Submit(j) PROVE Ends'
  <2>1. waiter[j] = "none" /\ j \notin asked
    BY <1>2 DEF Submit, Places, Ends
  <2>2. /\ user'[j] = "hooking" \/ (user'[j] = "refused" /\ shut)
        /\ \A i \in Jobs \ {j} : user'[i] = user[i]
        /\ UNCHANGED <<waiter, asked>>
    BY <1>2 DEF Submit, TypeOK
  <2>3. EndsAsItsJob'
    BY <1>0, <2>2 DEF Ends, EndsAsItsJob, Done
  <2> QED
    BY <1>0, <2>1, <2>2, <2>3 DEF Ends, Done
<1>3. ASSUME NEW j \in Jobs, Hook(j) PROVE Ends'
  <2>1. j \notin asked
    BY <1>3 DEF Hook, Places, Ends
  <2>2. /\ user'[j] = "waiting" /\ waiter'[j] = "pending"
        /\ \A i \in Jobs \ {j} : user'[i] = user[i] /\ waiter'[i] = waiter[i]
        /\ asked' = asked
    BY <1>3 DEF Hook, TypeOK
  <2>3. EndsAsItsJob'
    BY <1>0, <2>2 DEF Ends, EndsAsItsJob, Done
  <2> QED
    BY <1>0, <2>1, <2>2, <2>3 DEF Ends, Done
<1>4. ASSUME Deliver PROVE Ends'
  <2> DEFINE u == Head(calls)
  <2>1. u \in Jobs \cup {Owner} /\ u \in ToSet(calls)
    BY <1>4, CallsOut DEF Deliver
  <2>2. /\ UNCHANGED <<user, asked, job>>
        /\ \A j \in Jobs \ {u} : waiter'[j] = waiter[j]
        /\ waiter[u] # "pending" => waiter'[u] = waiter[u]
        /\ waiter[u] = "pending" => waiter'[u] = Outcome(u)
    BY <1>4, <2>1 DEF Deliver, TypeOK
  <2> HIDE DEF u
  <2>3. CASE u \notin Jobs \/ waiter[u] # "pending"
    BY <1>1, <2>1, <2>2, <2>3
  <2>4. CASE u \in Jobs /\ waiter[u] = "pending"
    <3>1. job[u] \in Done /\ u # Owner /\ user[u] = "waiting" /\ u \notin asked
      BY <2>1, <2>4, ExecutorAssumption DEF Answers, TypeOK, Ends
    <3>2. /\ waiter'[u] = "set" => job[u] = "result"
          /\ waiter'[u] = "failed" => job[u] = "exception"
          /\ waiter'[u] = "cancelled" => job[u] = "cancelled"
      BY <2>2, <2>4, <3>1 DEF Outcome, Done
    <3>3. EndsAsItsJob'
      BY <1>0, <2>2 DEF Ends, EndsAsItsJob, Done
    <3> QED
      BY <2>2, <3>1, <3>2, <3>3 DEF Ends
  <2> QED
    BY <2>3, <2>4
<1>5. ASSUME NEW j \in Jobs, ResumeTold(j) PROVE Ends'
  <2>1. /\ user[j] = "waiting" /\ j \notin asked
        /\ user'[j] = IF waiter[j] = "set" THEN "returned" ELSE "raised"
        /\ waiter[j] \in {"set", "failed"}
        /\ \A i \in Jobs \ {j} : user'[i] = user[i]
        /\ UNCHANGED <<job, waiter, asked, shut>>
    BY <1>5 DEF ResumeTold, Ends, TypeOK
  <2>2. EndsAsItsJob'
    BY <2>1 DEF Ends, EndsAsItsJob
  <2> QED
    BY <2>1, <2>2 DEF Ends
<1>6. ASSUME NEW j \in Jobs, ResumeCancelled(j) PROVE Ends'
  <2>1. /\ user[j] \in {"waiting", "thrown"}
        /\ j \in asked \/ job[j] = "cancelled"
        /\ user'[j] = IF shut THEN "refused" ELSE "cancelled"
        /\ \A i \in Jobs \ {j} : user'[i] = user[i]
        /\ UNCHANGED <<job, waiter, asked, shut>>
    BY <1>6 DEF ResumeCancelled, Ends, TypeOK
  <2>2. EndsAsItsJob'
    BY <2>1 DEF Ends, EndsAsItsJob
  <2> QED
    BY <2>1, <2>2 DEF Ends
<1>7. ASSUME NEW u \in Jobs \cup {Owner}, Cancel(u) PROVE Ends'
  <2>1. /\ user[u] = "waiting" /\ waiter[u] # "none" /\ asked' = asked \cup {u}
        /\ \A i \in Jobs \ {u} : user'[i] = user[i] /\ waiter'[i] = waiter[i]
        /\ UNCHANGED <<job, shut>>
        /\ \/ user'[u] = "waiting" /\ waiter'[u] = "cancelled"
           \/ user'[u] = "thrown" /\ waiter'[u] = waiter[u]
    BY <1>7 DEF Cancel, TypeOK
  <2>2. CASE u \notin Jobs
    BY <1>1, <2>1, <2>2
  <2>3. CASE u \in Jobs
    <3>1. EndsAsItsJob'
      BY <2>1, <2>3 DEF Ends, EndsAsItsJob
    <3> QED
      BY <2>1, <2>3, <3>1 DEF Ends
  <2> QED
    BY <2>2, <2>3
<1>8. ASSUME Close \/ Bind \/ ResumeOwner PROVE Ends'
  BY <1>1, <1>8, ExecutorAssumption DEF Close, Bind, ResumeOwner, TypeOK
<1>9. ASSUME \/ ArmSelect \/ EnterSelect \/ LeaveSelect
             \/ \E w \in Workers : WorkerStep(w)
             \/ ShutterStep
      PROVE  Ends'
  <2>1. UNCHANGED <<user, waiter, asked>>
    BY <1>9 DEF ArmSelect, EnterSelect, LeaveSelect, WorkerStep, ShutterStep, Take, Begin,
       Finish, Tell, Wake, Shutdown, Drain, Drained, Join, Report
  <2> QED
    BY <1>1, <2>1
<1> QED
  BY <1>2, <1>3, <1>4, <1>5, <1>6, <1>7, <1>8, <1>9, ExecutorAssumption DEF Next, LoopStep

-----------------------------------------------------------------------------
(* Jobs that are not done, and the shutdown. *)

\* What a worker has in hand stays there, and so does the queue, save for what
\* is not the job of anybody who waits.
LEMMA KeepHeld ==
  ASSUME Held,
         \A j \in Jobs : job'[j] \in {"pending", "running"} => job'[j] = job[j],
         \A j \in Jobs : job'[j] = "pending" /\ Item("run", j) \in ToSet(work) =>
           Item("run", j) \in ToSet(work') \/ Taken(j)',
         \A w \in Workers : /\ at[w] = "took" /\ holds[w].kind = "run"
                            /\ job'[holds[w].job] = "pending"
                            => at'[w] = at[w] /\ holds'[w] = holds[w],
         \A w \in Workers : at[w] = "running" /\ job'[holds[w].job] = "running"
                            => at'[w] = at[w] /\ holds'[w] = holds[w]
  PROVE  Held'
<1>1. ASSUME NEW j \in Jobs, job'[j] = "pending"
      PROVE  Item("run", j) \in ToSet(work') \/ Taken(j)'
  <2>1. Item("run", j).kind = "run" /\ Item("run", j).job = j
    BY ItemFacts
  <2>2. ASSUME Taken(j) PROVE Taken(j)'
    BY <1>1, <2>1, <2>2 DEF Taken
  <2>3. job[j] = "pending"
    BY <1>1
  <2> QED
    BY <1>1, <2>2, <2>3 DEF Held
<1>2. ASSUME NEW j \in Jobs, job'[j] = "running" PROVE Runs(j)'
  <2>1. PICK w \in Workers : at[w] = "running" /\ holds[w].job = j
    BY <1>2 DEF Held, Runs
  <2> QED
    BY <1>2, <2>1 DEF Runs
<1> QED
  BY <1>1, <1>2 DEF Held

\* Future.cancel loses no other job.
LEMMA CancelHeld ==
  ASSUME TypeOK, Held, NEW th \in Threads, NEW item \in Items, CancelJob(th, item),
         th = Shutter \/ (at[th] = "took" /\ holds[th] = item /\ item.kind = "cancel"),
         \A j \in Jobs : Item("run", j) \in ToSet(work) =>
           Item("run", j) \in ToSet(work') \/ item = Item("run", j)
  PROVE  Held'
<1>1. item.job \in Jobs
  BY ItemFacts
<1>2. /\ job'[item.job] # "pending"
      /\ \A j \in Jobs : job'[j] \in {"pending", "running"} => job'[j] = job[j]
  BY <1>1 DEF CancelJob, TypeOK
<1>3. \A x \in Threads \ {th} : at'[x] = at[x] /\ holds'[x] = holds[x]
  BY DEF CancelJob, Puts, TypeOK
<1>4. \A j \in Jobs : job'[j] = "pending" => item # Item("run", j)
  BY <1>2, ItemFacts
<1>5. \A w \in Workers : /\ at[w] = "took" /\ holds[w].kind = "run" => w # th
                         /\ at[w] = "running" => w # th
  BY ExecutorAssumption
<1> QED
  BY <1>2, <1>3, <1>4, <1>5, KeepHeld DEF Threads

\* No step loses a job that is not done.
LEMMA HeldNext ==
  ASSUME IInv, Next
  PROVE  Held'
<1> USE DEF poolVars, threadVars, taskVars, callVars
<1> TypeOK /\ Places /\ Working /\ Held
  BY DEF IInv
<1>1. ASSUME UNCHANGED <<job, work>>,
             \A w \in Workers : at[w] \in {"took", "running"} =>
               at'[w] = at[w] /\ holds'[w] = holds[w]
      PROVE  Held'
  BY <1>1, KeepHeld
<1>2. ASSUME NEW j \in Jobs, Submit(j) PROVE Held'
  <2>1. CASE shut
    BY <1>1, <1>2, <2>1 DEF Submit
  <2>2. CASE ~shut
    <3>1. ToSet(work') = ToSet(work) \cup {Item("run", j)}
      BY <1>2, <2>2, WorkIn, ItemFacts DEF Submit
    <3>2. /\ job'[j] = "pending" /\ \A i \in Jobs \ {j} : job'[i] = job[i]
          /\ UNCHANGED <<at, holds>>
      BY <1>2, <2>2 DEF Submit, TypeOK
    <3>3. \A i \in Jobs : job'[i] = "pending" => Item("run", i) \in ToSet(work') \/ Taken(i)'
      BY <3>1, <3>2 DEF Held, Taken
    <3>4. \A i \in Jobs : job'[i] = "running" => Runs(i)'
      BY <3>2 DEF Held, Runs
    <3> QED
      BY <3>3, <3>4 DEF Held
  <2> QED
    BY <2>1, <2>2
<1>3. ASSUME NEW j \in Jobs, ResumeCancelled(j) PROVE Held'
  <2>1. CASE shut
    BY <1>1, <1>3, <2>1 DEF ResumeCancelled
  <2>2. CASE ~shut
    <3>1. ToSet(work') = ToSet(work) \cup {Item("cancel", j)}
      BY <1>3, <2>2, WorkIn, ItemFacts DEF ResumeCancelled
    <3> QED
      BY <1>3, <3>1, KeepHeld DEF ResumeCancelled
  <2> QED
    BY <2>1, <2>2
<1>4. ASSUME NEW w \in Workers, Take(w) PROVE Held'
  <2>1. CASE Head(work) = Stop
    BY <1>1, <1>4, <2>1 DEF Take, TypeOK, Threads
  <2>2. CASE Head(work) # Stop
    <3>1. ToSet(work) = ToSet(work') \cup {Head(work)}
      BY <1>4, <2>2, WorkOut DEF Take
    <3>2. /\ at'[w] = "took" /\ holds'[w] = Head(work) /\ at[w] = "idle" /\ job' = job
          /\ \A x \in Threads \ {w} : at'[x] = at[x] /\ holds'[x] = holds[x]
      BY <1>4, <2>2 DEF Take, TypeOK, Threads
    <3>3. \A j \in Jobs : Item("run", j) \in ToSet(work) =>
            Item("run", j) \in ToSet(work') \/ Taken(j)'
      BY <3>1, <3>2 DEF Taken
    <3>4. \A v \in Workers : at[v] \in {"took", "running"} =>
            at'[v] = at[v] /\ holds'[v] = holds[v]
      BY <3>2 DEF Threads
    <3> QED
      BY <3>2, <3>3, <3>4, KeepHeld
  <2> QED
    BY <2>1, <2>2
<1>5. ASSUME NEW w \in Workers, Begin(w) PROVE Held'
  <2>1. holds[w] \in Items /\ holds[w].job \in Jobs /\ at[w] = "took" /\ work' = work
    BY <1>5, ItemFacts DEF Begin, Working
  <2>2. CASE holds[w].kind = "cancel"
    BY <1>5, <2>1, <2>2, CancelHeld DEF Begin, Threads
  <2>3. CASE holds[w].kind # "cancel" /\ job[holds[w].job] # "pending"
    <3>1. /\ job' = job
          /\ \A x \in Threads \ {w} : at'[x] = at[x] /\ holds'[x] = holds[x]
      BY <1>5, <2>3 DEF Begin, Puts, TypeOK
    <3> QED
      BY <2>1, <2>3, <3>1, KeepHeld DEF Threads
  <2>4. CASE holds[w].kind # "cancel" /\ job[holds[w].job] = "pending"
    <3> DEFINE j == holds[w].job
    <3>1. /\ job'[j] = "running" /\ \A i \in Jobs \ {j} : job'[i] = job[i]
          /\ holds' = holds /\ at'[w] = "running"
          /\ \A x \in Threads \ {w} : at'[x] = at[x]
      BY <1>5, <2>1, <2>4 DEF Begin, TypeOK, Threads
    <3>2. holds[w] = Item("run", j)
      BY <2>1, <2>4, ItemFacts
    <3>3. ASSUME NEW i \in Jobs, job'[i] = "pending"
          PROVE  Item("run", i) \in ToSet(work') \/ Taken(i)'
      <4>1. i # j /\ Item("run", i) # holds[w]
        BY <2>1, <3>1, <3>2, <3>3, ItemFacts
      <4>2. Taken(i) => Taken(i)'
        BY <3>1, <4>1 DEF Taken, Threads
      <4> QED
        BY <2>1, <3>1, <3>3, <4>1, <4>2 DEF Held
    <3>4. ASSUME NEW i \in Jobs, job'[i] = "running" PROVE Runs(i)'
      <4>1. CASE i = j
        BY <3>1, <4>1 DEF Runs
      <4>2. CASE i # j
        <5>1. Runs(i)
          BY <3>1, <3>4, <4>2 DEF Held
        <5> QED
          BY <2>1, <3>1, <5>1 DEF Runs, Threads
      <4> QED
        BY <4>1, <4>2
    <3> QED
      BY <3>3, <3>4 DEF Held
  <2> QED
    BY <2>2, <2>3, <2>4
<1>6. ASSUME NEW w \in Workers, NEW o \in Done \ {"cancelled"}, Finish(w, o) PROVE Held'
  <2>1. /\ holds[w].job \in Jobs /\ at[w] = "running" /\ w \in Threads
        /\ UNCHANGED <<work, holds>>
    BY <1>6, ItemFacts DEF Finish, Working, Threads
  <2>2. \A x \in Threads \ {w} : at'[x] = at[x]
    BY <1>6 DEF Finish, TypeOK
  <2>3. /\ job'[holds[w].job] \in Done
        /\ \A j \in Jobs \ {holds[w].job} : job'[j] = job[j]
    BY <1>6, <2>1 DEF Finish, TypeOK
  <2> QED
    BY <2>1, <2>2, <2>3, KeepHeld DEF Done, Threads
<1>7. ASSUME NEW th \in Threads, Tell(th) \/ Wake(th) PROVE Held'
  <2>1. \A x \in Threads \ {th} : at'[x] = at[x] /\ holds'[x] = holds[x]
    BY <1>7 DEF Tell, Wake, Puts, TypeOK
  <2>2. at[th] \notin {"took", "running"} /\ UNCHANGED <<job, work>>
    BY <1>7 DEF Tell, Wake
  <2> QED
    BY <1>1, <2>1, <2>2 DEF Threads
<1>8. ASSUME Drain PROVE Held'
  <2>1. /\ ToSet(work) = ToSet(work') \cup {Head(work)}
        /\ Head(work) \in Items \cup {Stop} /\ Shutter \in Threads
    BY <1>8, WorkOut DEF Drain, Threads
  <2>2. CASE Head(work).kind = "run"
    <3>1. Head(work) \in Items
      BY <2>1, <2>2 DEF Stop, Item
    <3> QED
      BY <1>8, <2>1, <2>2, <3>1, CancelHeld DEF Drain
  <2>3. CASE Head(work).kind # "run"
    <3>1. \A j \in Jobs : Head(work) # Item("run", j)
      BY <2>3, ItemFacts
    <3> QED
      BY <1>8, <2>1, <2>3, <3>1, KeepHeld DEF Drain
  <2> QED
    BY <2>2, <2>3
<1>9. ASSUME Drained PROVE Held'
  <2>1. \A j \in Jobs : Item("run", j) \notin ToSet(work)
    <3>1. DOMAIN work = {}
      BY <1>9 DEF Drained
    <3> QED
      BY <3>1 DEF ToSet
  <2>2. \A w \in Workers : at'[w] = at[w] /\ holds'[w] = holds[w]
    BY <1>9, ExecutorAssumption DEF Drained, TypeOK, Threads
  <2> QED
    BY <1>9, <2>1, <2>2, KeepHeld DEF Drained
<1>10. ASSUME Close \/ Shutdown \/ Join \/ Report PROVE Held'
  <2>1. \A w \in Workers : at'[w] = at[w] /\ holds'[w] = holds[w]
    BY <1>10, ExecutorAssumption DEF Close, Shutdown, Join, Report, TypeOK, Threads
  <2> QED
    BY <1>1, <1>10, <2>1 DEF Close, Shutdown, Join, Report
<1>11. ASSUME \/ Deliver \/ Bind \/ ResumeOwner \/ ArmSelect \/ EnterSelect \/ LeaveSelect
              \/ \E j \in Jobs : Hook(j) \/ ResumeTold(j)
              \/ \E u \in Impatient : Cancel(u)
       PROVE  Held'
  BY <1>1, <1>11 DEF Deliver, Bind, ResumeOwner, ArmSelect, EnterSelect, LeaveSelect,
     Hook, ResumeTold, Cancel
<1> QED
  BY <1>2, <1>3, <1>4, <1>5, <1>6, <1>7, <1>8, <1>9, <1>10, <1>11
  DEF Next, LoopStep, WorkerStep, ShutterStep, Threads

\* The steps that neither move the shutdown's thread, nor touch what it has done.
LEMMA KeepClosing ==
  ASSUME Closing, at'[Shutter] = at[Shutter], shut' = shut,
         at[Shutter] \in {"join", "report", "bye", "ended", "dead"} => work' = work,
         \A w \in Workers : at[w] = "ended" => at'[w] = "ended",
         user'[Owner] = "returned" => user[Owner] = "returned" \/ waiter[Owner] = "set",
         waiter'[Owner] = "set" => waiter[Owner] = "set"
  PROVE  Closing'
BY DEF Closing

\* Every step of the shutdown comes after the one before.
LEMMA ClosingNext ==
  ASSUME IInv, Next
  PROVE  Closing'
<1> USE DEF poolVars, threadVars, taskVars, callVars
<1> TypeOK /\ Places /\ Answers /\ Closing /\ Shutter \in Threads /\ Owner \notin Jobs
  BY ExecutorAssumption DEF IInv, Threads
<1>1. ASSUME NEW j \in Jobs, Submit(j) \/ ResumeCancelled(j) PROVE Closing'
  <2>1. /\ user'[Owner] = user[Owner] /\ UNCHANGED <<waiter, at, shut>>
        /\ shut => work' = work
    BY <1>1 DEF Submit, ResumeCancelled, TypeOK
  <2>2. at[Shutter] \in {"join", "report", "bye", "ended", "dead"} => shut
    BY DEF Closing
  <2> QED
    BY <2>1, <2>2, KeepClosing
<1>2. ASSUME NEW j \in Jobs, Hook(j) \/ ResumeTold(j) PROVE Closing'
  BY <1>2, KeepClosing DEF Hook, ResumeTold, TypeOK
<1>3. ASSUME Deliver PROVE Closing'
  <2>1. CASE Head(calls) = Owner
    <3>1. at[Shutter] \in {"bye", "ended"}
      BY <1>3, <2>1, CallsOut DEF Deliver, Answers
    <3> QED
      BY <1>3, <3>1 DEF Deliver, Closing
  <2>2. CASE Head(calls) # Owner
    <3>1. waiter'[Owner] = waiter[Owner]
      BY <1>3, <2>2 DEF Deliver, TypeOK
    <3> QED
      BY <1>3, <3>1, KeepClosing DEF Deliver
  <2> QED
    BY <2>1, <2>2
<1>4. ASSUME NEW u \in Jobs \cup {Owner}, Cancel(u) PROVE Closing'
  BY <1>4, KeepClosing DEF Cancel, TypeOK
<1>5. ASSUME Close PROVE Closing'
  <2>1. /\ at[Shutter] = "off" /\ at'[Shutter] = "idle" /\ user'[Owner] = "hooking"
        /\ UNCHANGED <<shut, waiter>>
    BY <1>5 DEF Close, Places, TypeOK
  <2> QED
    BY <2>1 DEF Closing
<1>6. ASSUME Bind PROVE Closing'
  BY <1>6, KeepClosing DEF Bind, TypeOK
<1>7. ASSUME ResumeOwner PROVE Closing'
  BY <1>7, KeepClosing DEF ResumeOwner, TypeOK
<1>8. ASSUME ArmSelect \/ EnterSelect \/ LeaveSelect PROVE Closing'
  BY <1>8, KeepClosing DEF ArmSelect, EnterSelect, LeaveSelect
<1>9. ASSUME NEW w \in Workers, WorkerStep(w) PROVE Closing'
  <2>1. w \in Threads /\ w # Shutter
    BY ExecutorAssumption DEF Threads
  <2>2. /\ UNCHANGED <<user, waiter, shut>>
        /\ at[w] # "ended" \/ at'[w] = "ended"
        /\ \A x \in Threads \ {w} : at'[x] = at[x]
    BY <1>9, <2>1 DEF WorkerStep, Take, Begin, CancelJob, Puts, Finish, Tell, Wake, TypeOK
  <2>3. Head(<<Stop>>) = Stop
    OBVIOUS
  <2>4. work' = work \/ Head(work) # Stop
    BY <1>9 DEF WorkerStep, Take, Begin, Finish, Tell, Wake
  <2>5. at[Shutter] \in {"join", "report", "bye", "ended", "dead"} => work' = work
    BY <2>3, <2>4 DEF Closing
  <2> QED
    BY <2>1, <2>2, <2>5, KeepClosing DEF Threads
<1>10. ASSUME Tell(Shutter) PROVE Closing'
  <2>1. /\ at[Shutter] = "tell" /\ at'[Shutter] \in {"drain", "wake"}
        /\ UNCHANGED <<user, waiter, shut>>
    BY <1>10 DEF Tell, Puts, Rest, TypeOK
  <2> QED
    BY <2>1 DEF Closing
<1>11. ASSUME Wake(Shutter) PROVE Closing'
  <2>1. /\ \/ at[Shutter] = "wake" /\ at'[Shutter] = "drain"
           \/ at[Shutter] = "bye" /\ at'[Shutter] = "ended"
        /\ \A w \in Workers : at'[w] = at[w]
        /\ UNCHANGED <<user, waiter, shut, work>>
    BY <1>11, ExecutorAssumption DEF Wake, Rest, TypeOK, Threads
  <2> QED
    BY <2>1 DEF Closing
<1>12. ASSUME Shutdown PROVE Closing'
  <2>1. /\ at[Shutter] = "idle" /\ at'[Shutter] = "drain" /\ shut'
        /\ UNCHANGED <<user, waiter>>
    BY <1>12 DEF Shutdown, TypeOK
  <2> QED
    BY <2>1 DEF Closing
<1>13. ASSUME Drain PROVE Closing'
  <2>1. /\ at[Shutter] = "drain" /\ at'[Shutter] \in {"drain", "tell"}
        /\ UNCHANGED <<user, waiter, shut>>
    BY <1>13 DEF Drain, CancelJob, Puts, Rest, TypeOK
  <2> QED
    BY <2>1 DEF Closing
<1>14. ASSUME Drained PROVE Closing'
  <2>1. /\ at[Shutter] = "drain" /\ at'[Shutter] = "join" /\ work' = <<Stop>>
        /\ UNCHANGED <<user, waiter, shut>>
    BY <1>14 DEF Drained, TypeOK
  <2> QED
    BY <2>1 DEF Closing
<1>15. ASSUME Join PROVE Closing'
  <2>1. /\ at[Shutter] = "join" /\ at'[Shutter] = "report"
        /\ \A w \in Workers : at'[w] = "ended"
        /\ UNCHANGED <<user, waiter, shut, work>>
    BY <1>15, ExecutorAssumption DEF Join, TypeOK, Threads
  <2> QED
    BY <2>1 DEF Closing
<1>16. ASSUME Report PROVE Closing'
  <2>1. /\ at[Shutter] = "report" /\ at'[Shutter] \in {"bye", "dead"}
        /\ \A w \in Workers : at'[w] = at[w]
        /\ UNCHANGED <<user, waiter, shut, work>>
    BY <1>16, ExecutorAssumption DEF Report, TypeOK, Threads
  <2> QED
    BY <2>1 DEF Closing
<1> QED
  BY <1>1, <1>2, <1>3, <1>4, <1>5, <1>6, <1>7, <1>8, <1>9, <1>10, <1>11, <1>12, <1>13,
     <1>14, <1>15, <1>16, ExecutorAssumption
  DEF Next, LoopStep, ShutterStep

-----------------------------------------------------------------------------
(* The order of the queue. *)

\* The steps that put nothing into the queue, and take no item from it.
LEMMA KeepOrdered ==
  ASSUME Ordered, work' = work,
         \A w \in Workers : at'[w] = "took" => at[w] = "took" /\ holds'[w] = holds[w],
         \A j \in Jobs : user'[j] = "idle" => user[j] = "idle"
  PROVE  Ordered'
BY DEF Ordered

\* A cancel never gets in front of its job.
LEMMA OrderedNext ==
  ASSUME IInv, Next
  PROVE  Ordered'
<1> USE DEF poolVars, threadVars, taskVars, callVars
<1> TypeOK /\ Places /\ Working /\ Ordered
  BY DEF IInv
<1>1. ASSUME NEW j \in Jobs, Submit(j) PROVE Ordered'
  <2>1. CASE shut
    BY <1>1, <2>1, KeepOrdered DEF Submit, TypeOK
  <2>2. CASE ~shut
    <3>1. /\ user[j] = "idle" /\ user'[j] = "hooking"
          /\ \A i \in Jobs \ {j} : user'[i] = user[i]
          /\ UNCHANGED <<at, holds>> /\ work' = Append(work, Item("run", j))
      BY <1>1, <2>2 DEF Submit, TypeOK
    <3>2. /\ ToSet(work') = ToSet(work) \cup {Item("run", j)}
          /\ \A y, z : /\ Before(work, y, z)
                       /\ Item("run", j) = y => z \notin ToSet(work)
                       /\ y # z
                       => Before(work', y, z)
      BY <3>1, WorkIn, ItemFacts
    <3>3. /\ Item("cancel", j) \notin ToSet(work)
          /\ \A w \in Workers : at[w] = "took" => holds[w].job # j
      BY <3>1 DEF Ordered
    <3>4. \A i \in Jobs : Before(work', Item("run", i), Item("cancel", i))
      BY <3>2, <3>3, ItemFacts DEF Ordered
    <3>5. \A w \in Workers, i \in Jobs :
            at'[w] = "took" /\ holds'[w] = Item("cancel", i) => Item("run", i) \notin ToSet(work')
      BY <3>1, <3>2, <3>3, ItemFacts DEF Ordered
    <3>6. \A i \in Jobs : user'[i] = "idle" =>
            /\ Item("run", i) \notin ToSet(work') /\ Item("cancel", i) \notin ToSet(work')
            /\ \A w \in Workers : at'[w] = "took" => holds'[w].job # i
      BY <3>1, <3>2, ItemFacts DEF Ordered
    <3> QED
      BY <3>4, <3>5, <3>6 DEF Ordered
  <2> QED
    BY <2>1, <2>2
<1>2. ASSUME NEW j \in Jobs, ResumeCancelled(j) PROVE Ordered'
  <2>1. CASE shut
    BY <1>2, <2>1, KeepOrdered DEF ResumeCancelled, TypeOK
  <2>2. CASE ~shut
    <3>1. /\ user'[j] # "idle" /\ \A i \in Jobs \ {j} : user'[i] = user[i]
          /\ UNCHANGED <<at, holds>> /\ work' = Append(work, Item("cancel", j))
      BY <1>2, <2>2 DEF ResumeCancelled, TypeOK
    <3>2. /\ ToSet(work') = ToSet(work) \cup {Item("cancel", j)}
          /\ \A y, z : /\ Before(work, y, z)
                       /\ Item("cancel", j) = y => z \notin ToSet(work)
                       /\ y # z
                       => Before(work', y, z)
      BY <3>1, WorkIn, ItemFacts
    <3>3. \A i \in Jobs : Before(work', Item("run", i), Item("cancel", i))
      BY <3>2, ItemFacts DEF Ordered
    <3>4. \A w \in Workers, i \in Jobs :
            at'[w] = "took" /\ holds'[w] = Item("cancel", i) => Item("run", i) \notin ToSet(work')
      BY <3>1, <3>2, ItemFacts DEF Ordered
    <3>5. \A i \in Jobs : user'[i] = "idle" =>
            /\ Item("run", i) \notin ToSet(work') /\ Item("cancel", i) \notin ToSet(work')
            /\ \A w \in Workers : at'[w] = "took" => holds'[w].job # i
      BY <3>1, <3>2, ItemFacts DEF Ordered
    <3> QED
      BY <3>3, <3>4, <3>5 DEF Ordered
  <2> QED
    BY <2>1, <2>2
<1>3. ASSUME work # <<>>, work' = Tail(work), UNCHANGED user,
             \A w \in Workers : at'[w] = "took" =>
               \/ at[w] = "took" /\ holds'[w] = holds[w]
               \/ holds'[w] = Head(work) /\ holds'[w] \in Items
      PROVE  Ordered'
  <2>1. /\ ToSet(work) = ToSet(work') \cup {Head(work)}
        /\ \A y, z : Before(work, y, z) =>
             Before(work', y, z) /\ (Head(work) = z => y \notin ToSet(work'))
    BY <1>3, WorkOut
  <2>2. \A j \in Jobs : Before(work', Item("run", j), Item("cancel", j))
    BY <2>1 DEF Ordered
  <2>3. \A w \in Workers, j \in Jobs :
          at'[w] = "took" /\ holds'[w] = Item("cancel", j) => Item("run", j) \notin ToSet(work')
    BY <1>3, <2>1 DEF Ordered
  <2>4. \A w \in Workers, j \in Jobs :
          user[j] = "idle" /\ at'[w] = "took" => holds'[w].job # j
    BY <1>3, <2>1, ItemFacts DEF Ordered
  <2> QED
    BY <1>3, <2>1, <2>2, <2>3, <2>4 DEF Ordered
<1>4. ASSUME NEW w \in Workers, Take(w) PROVE Ordered'
  <2>1. CASE Head(work) = Stop
    BY <1>4, <2>1, KeepOrdered DEF Take, TypeOK, Threads
  <2>2. CASE Head(work) # Stop
    <3>1. Head(work) \in Items /\ work # <<>> /\ work' = Tail(work) /\ user' = user
      BY <1>4, <2>2, WorkOut DEF Take
    <3>2. /\ holds'[w] = Head(work)
          /\ \A x \in Threads \ {w} : at'[x] = at[x] /\ holds'[x] = holds[x]
      BY <1>4, <2>2 DEF Take, TypeOK, Threads
    <3> QED
      BY <1>3, <3>1, <3>2 DEF Threads
  <2> QED
    BY <2>1, <2>2
<1>5. ASSUME NEW th \in Threads,
             \/ th # Shutter /\ Begin(th)
             \/ Tell(th) \/ Wake(th) \/ \E o \in Done \ {"cancelled"} : Finish(th, o)
      PROVE  Ordered'
  <2>1. \A x \in Threads \ {th} : at'[x] = at[x] /\ holds'[x] = holds[x]
    BY <1>5 DEF Begin, CancelJob, Puts, Finish, Tell, Wake, TypeOK
  <2>2. at'[th] # "took" /\ UNCHANGED <<work, user>>
    BY <1>5 DEF Begin, CancelJob, Puts, Rest, Finish, Tell, Wake, TypeOK
  <2> QED
    BY <2>1, <2>2, KeepOrdered DEF Threads
<1>6. ASSUME Drain PROVE Ordered'
  <2>1. \A w \in Workers : at'[w] = at[w] /\ holds'[w] = holds[w]
    BY <1>6, ExecutorAssumption DEF Drain, CancelJob, Puts, TypeOK, Threads
  <2> QED
    BY <1>3, <1>6, <2>1 DEF Drain
<1>7. ASSUME Drained PROVE Ordered'
  <2>1. work' = <<Stop>> /\ user' = user
    BY <1>7 DEF Drained
  <2>2. \A w \in Workers : at'[w] = at[w] /\ holds'[w] = holds[w]
    BY <1>7, ExecutorAssumption DEF Drained, TypeOK, Threads
  <2>3. \A i \in DOMAIN work' : work'[i] = Stop
    BY <2>1
  <2>4. \A j \in Jobs : Item("run", j) \notin ToSet(work') /\ Item("cancel", j) \notin ToSet(work')
    BY <2>3, ItemFacts DEF ToSet
  <2>5. \A j \in Jobs : Before(work', Item("run", j), Item("cancel", j))
    BY <2>3, ItemFacts DEF Before
  <2> QED
    BY <2>1, <2>2, <2>4, <2>5 DEF Ordered
<1>8. ASSUME Close \/ Shutdown \/ Join \/ Report PROVE Ordered'
  <2>1. \A w \in Workers : at'[w] = at[w] /\ holds'[w] = holds[w]
    BY <1>8, ExecutorAssumption DEF Close, Shutdown, Join, Report, TypeOK, Threads
  <2>2. work' = work /\ \A j \in Jobs : user'[j] = user[j]
    BY <1>8, ExecutorAssumption DEF Close, Shutdown, Join, Report, TypeOK
  <2> QED
    BY <2>1, <2>2, KeepOrdered
<1>9. ASSUME \/ Deliver \/ Bind \/ ResumeOwner \/ ArmSelect \/ EnterSelect \/ LeaveSelect
             \/ \E j \in Jobs : Hook(j) \/ ResumeTold(j)
             \/ \E u \in Jobs \cup {Owner} : Cancel(u)
      PROVE  Ordered'
  <2>1. UNCHANGED <<at, holds, work>> /\ \A j \in Jobs : user'[j] = "idle" => user[j] = "idle"
    BY <1>9, ExecutorAssumption DEF Deliver, Bind, ResumeOwner, ArmSelect, EnterSelect,
       LeaveSelect, Hook, ResumeTold, Cancel, TypeOK
  <2> QED
    BY <2>1, KeepOrdered
<1> QED
  BY <1>1, <1>2, <1>4, <1>5, <1>6, <1>7, <1>8, <1>9, ExecutorAssumption
  DEF Next, LoopStep, WorkerStep, ShutterStep, Threads

-----------------------------------------------------------------------------
(* The invariant. *)

\* Nothing has been submitted, and the pool's threads are idle.
LEMMA InitIInv ==
  ASSUME Init
  PROVE  IInv
<1> /\ DOMAIN work = {} /\ ToSet(work) = {} /\ DOMAIN calls = {} /\ ToSet(calls) = {}
  BY DEF Init, ToSet
<1> Shutter \in Threads /\ \A w \in Workers : at[w] = "idle"
  BY ExecutorAssumption DEF Init, Threads
<1>1. TypeOK
  <2>1. work \in Seq(Items \cup {Stop}) /\ calls \in Seq(Jobs \cup {Owner})
    BY DEF Init
  <2>2. /\ at \in [Threads -> {"off", "idle"}]
        /\ holds \in [Threads -> {Stop}]
    BY DEF Init
  <2>3. /\ job \in [Jobs -> {"none"}]
        /\ user \in [Jobs \cup {Owner} -> {"idle"}]
        /\ waiter \in [Jobs \cup {Owner} -> {"none"}]
    BY DEF Init
  <2>4. \A u \in Jobs \cup {Owner} : user[u] = "idle" /\ waiter[u] = "none"
    BY DEF Init
  <2>5. /\ hooked \subseteq Jobs /\ shut \in BOOLEAN
        /\ answered \cup asked \subseteq Jobs \cup {Owner}
        /\ turn \in Jobs \cup {Owner, "loop"} /\ select \in {"off", "armed", "on"}
    BY DEF Init
  <2> QED
    BY <2>1, <2>2, <2>3, <2>4, <2>5 DEF TypeOK
<1>2. Places /\ Working /\ Held /\ Closing
  BY DEF Init, Places, Working, Held, Closing, Threads
<1>3. Answers
  BY DEF Init, Answers, AnswerNotLost, IsInjective
<1>4. Ends
  BY DEF Init, Ends, EndsAsItsJob
<1>5. Ordered
  BY DEF Ordered, Before
<1> QED
  BY <1>1, <1>2, <1>3, <1>4, <1>5 DEF IInv

\* IInv is inductive.
LEMMA NextIInv ==
  ASSUME IInv, [Next]_vars
  PROVE  IInv'
<1>1. CASE Next
  BY <1>1, TypesNext, PlacesNext, WorkingNext, AnswersNext, EndsNext, HeldNext,
     ClosingNext, OrderedNext DEF IInv
<1>2. CASE UNCHANGED vars
  <2> USE <1>2 DEF vars, poolVars, threadVars, taskVars, callVars
  <2>1. TypeOK' /\ Places' /\ Working'
    BY DEF IInv, TypeOK, Places, Working
  <2>2. Answers'
    BY DEF IInv, Answers, AnswerNotLost, Telling
  <2>3. Ends'
    BY DEF IInv, Ends, EndsAsItsJob
  <2>4. Held' /\ Closing' /\ Ordered'
    BY DEF IInv, Held, Taken, Runs, Closing, Ordered
  <2> QED
    BY <2>1, <2>2, <2>3, <2>4 DEF IInv
<1> QED
  BY <1>1, <1>2

\* IInv holds in every reachable state of the executor, whatever the number of
\* its jobs and threads.
THEOREM SpecIInv == Spec => []IInv
<1>1. Init => IInv
  BY InitIInv
<1>2. IInv /\ [Next]_vars => IInv'
  BY NextIInv
<1> QED
  BY <1>1, <1>2, PTL DEF Spec

\* Every variable keeps its type, and a task has a promise when it waits.
THEOREM TypeCorrect == Spec => []TypeOK
<1>1. IInv => TypeOK
  BY DEF IInv
<1> QED
  BY <1>1, SpecIInv, PTL

\* However add_done_callback races with the thread that ends the job
\* (executor.py:74), its answer is in exactly one place.
THEOREM AnswerNotLostHolds == Spec => []AnswerNotLost
<1>1. IInv => AnswerNotLost
  BY DEF IInv, Answers
<1> QED
  BY <1>1, SpecIInv, PTL

\* A task of execute_sync_callable ends as its job did, or was cancelled
\* (executor.py:17-23, 62-79).
THEOREM EndsAsItsJobHolds == Spec => []EndsAsItsJob
<1>1. IInv => EndsAsItsJob
  BY DEF IInv, Ends
<1> QED
  BY <1>1, SpecIInv, PTL

\* The owner is told after the last thread of the pool has ended, and by then
\* nothing is left in the queue (executor.py:82-88).
LEMMA QuietAtLast ==
  ASSUME IInv
  PROVE  ClosedIsQuiet
<1> SUFFICES ASSUME user[Owner] = "returned"
             PROVE  /\ \A j \in Jobs : job[j] \in Done \cup {"none"}
                    /\ \A j \in Jobs : user[j] = "waiting" => j \in answered \cup ToSet(calls)
                    /\ \A w \in Workers : at[w] = "ended"
  BY DEF ClosedIsQuiet
<1>1. /\ at[Shutter] \in {"bye", "ended"} /\ work = <<Stop>>
      /\ \A w \in Workers : at[w] = "ended"
  BY DEF IInv, Closing
<1>2. \A j \in Jobs : Item("run", j) \notin ToSet(work)
  <2>1. \A i \in DOMAIN work : work[i] = Stop
    BY <1>1
  <2> QED
    BY <2>1, ItemFacts DEF ToSet
<1>3. \A j \in Jobs : job[j] \notin {"pending", "running"}
  BY <1>1, <1>2 DEF IInv, Held, Taken, Runs
<1>4. \A j \in Jobs : ~Telling(j)
  BY <1>1 DEF Telling, Threads
<1>5. \A j \in Jobs : j \notin hooked
  BY <1>3, <1>4 DEF IInv, Answers, AnswerNotLost
<1>6. \A j \in Jobs : user[j] = "waiting" => waiter[j] # "none"
  BY DEF IInv, TypeOK
<1>7. \A j \in Jobs : user[j] = "waiting" => j \in answered \cup ToSet(calls)
  BY <1>5, <1>6 DEF IInv, Answers, AnswerNotLost
<1>8. \A j \in Jobs : job[j] \in Done \cup {"none"}
  BY <1>3 DEF IInv, TypeOK
<1> QED
  BY <1>1, <1>7, <1>8

\* When the executor has been left, nothing of it is left (executor.py:82-88).
THEOREM ClosedIsQuietHolds == Spec => []ClosedIsQuiet
<1>1. IInv => ClosedIsQuiet
  BY QuietAtLast
<1> QED
  BY <1>1, SpecIInv, PTL

\* A cancel that a worker acts on has left the job no place but the hands of
\* another worker: in the queue it would be in front.
LEMMA CancelMeetsTaken ==
  ASSUME IInv, Next, NEW j \in Jobs, job[j] # "cancelled", job'[j] = "cancelled", ~shut
  PROVE  Taken(j)
<1> USE DEF poolVars, threadVars, taskVars, callVars
<1> TypeOK /\ Places /\ Working /\ Held /\ Closing /\ Ordered
  BY DEF IInv
<1>1. ASSUME NEW w \in Workers, Begin(w) PROVE Taken(j)
  <2>1. holds[w] \in Items /\ holds[w].job \in Jobs /\ at[w] = "took"
    BY <1>1, ItemFacts DEF Begin, Working
  <2>2. /\ holds[w].kind = "cancel" /\ job[holds[w].job] = "pending"
        /\ job' = [job EXCEPT ![holds[w].job] = "cancelled"]
    BY <1>1, <2>1 DEF Begin, CancelJob, TypeOK
  <2>3. holds[w].job = j
    BY <2>1, <2>2 DEF TypeOK
  <2>4. holds[w] = Item("cancel", j)
    BY <2>1, <2>2, <2>3, ItemFacts
  <2>5. Item("run", j) \notin ToSet(work)
    BY <2>1, <2>4 DEF Ordered
  <2> QED
    BY <2>2, <2>3, <2>5 DEF Held
<1>2. ASSUME NEW i \in Jobs, Submit(i) PROVE FALSE
  BY <1>2 DEF Submit, TypeOK
<1>3. ASSUME NEW w \in Workers, NEW o \in Done \ {"cancelled"}, Finish(w, o) PROVE FALSE
  BY <1>3 DEF Finish, TypeOK
<1>4. ASSUME Drain PROVE FALSE
  BY <1>4 DEF Drain, Closing
<1>5. job' # job
  OBVIOUS
<1>6. ~ \/ Deliver \/ Bind \/ ResumeOwner \/ ArmSelect \/ EnterSelect \/ LeaveSelect
        \/ \E i \in Jobs : Hook(i) \/ ResumeTold(i) \/ ResumeCancelled(i)
        \/ \E u \in Impatient : Cancel(u)
        \/ \E w \in Workers : Take(w)
        \/ \E th \in Threads : Tell(th) \/ Wake(th)
        \/ Close \/ Shutdown \/ Drained \/ Join \/ Report
  BY <1>5 DEF Deliver, Bind, ResumeOwner, ArmSelect, EnterSelect, LeaveSelect, Hook,
     ResumeTold, ResumeCancelled, Cancel, Take, Tell, Wake, Close, Shutdown, Drained,
     Join, Report
<1> QED
  BY <1>1, <1>2, <1>3, <1>4, <1>6 DEF Next, LoopStep, WorkerStep, ShutterStep, Threads

\* Before the shutdown, a job is only ever cancelled between a worker's taking it
\* and its running it (executor.py:78).
THEOREM CancelComesLateHolds == Spec => CancelComesLate
<1> DEFINE Late == \A j \in Jobs :
      job[j] # "cancelled" /\ job'[j] = "cancelled" /\ ~shut =>
        \E w \in Workers : at[w] = "took" /\ holds[w] = Item("run", j)
<1>1. IInv /\ [Next]_vars => [Late]_vars
  BY CancelMeetsTaken DEF Taken
<1>2. Spec => [][Late]_vars
  <2> HIDE DEF Late
  <2> QED
    BY <1>1, SpecIInv, PTL DEF Spec
<1> QED
  BY <1>2 DEF CancelComesLate
=============================================================================
