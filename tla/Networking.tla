------------------------------ MODULE Networking ------------------------------
(***************************************************************************)
(* Tasks that use sockets: SelectorNetworking of                           *)
(* src/aio/loop/pure/networking.py over Selector.tla, and the part of the  *)
(* loop step that matters to them.                                         *)
(*                                                                         *)
(* A call that would block leaves a callback with the selector and waits   *)
(* on a promise.  The loop takes the steps that are due, then asks select, *)
(* then runs those steps, and only then the callbacks that select          *)
(* returned; so a wait may be over, or another one begun, before the       *)
(* callback of its event is called.                                        *)
(***************************************************************************)
EXTENDS Selector

CONSTANTS Tasks,       \* the tasks that use sockets
          Ops,         \* which calls the tasks make
          Quiet,       \* bound: connections on which nothing ever happens
          MaxAccepts   \* bound: how often accept returns the same descriptor

\* What get_map() has for a registered descriptor.  A task has two callbacks
\* at most, the one that waits and one that select has returned.
Keys == [mask : SUBSET Events,
         watchers : SUBSET [events : SUBSET Events, cb : Tasks \X BOOLEAN]]

ASSUME NetworkingAssumption ==
  /\ MaxAccepts \in Nat /\ Quiet \subseteq Fds
  /\ Ops \subseteq {"event", "connect", "accept", "read", "write", "write_all"}
  /\ None \notin Fds /\ None \notin Keys
  /\ IsFiniteSet(Tasks)

VARIABLES refs,      \* [Fds -> Nat]: _managed_sockets_refs
          accepted,  \* [Fds -> Nat]: how often accept returned the descriptor
          op,        \* [Tasks -> Ops \cup {"idle"}]: where it waits
          sock,      \* [Tasks -> descriptor it waits for, or None]
          need,      \* [Tasks -> events it waits for]
          wait,      \* [Tasks -> state of its waiter's promise; "thrown": a
                     \* Cancelled is on its way by throw, whatever that state is]
          turn,      \* [Tasks -> BOOLEAN]: which of its done_cb is current
          phase,     \* "early" | "late": which part of the loop step
          due,       \* the tasks whose steps were popped for this part
          batch,     \* what select returned and was not called yet
          stranded,  \* the tasks whose watch was taken away by close
          fresh      \* the tasks that began to wait after select was asked and
                     \* before all that it returned was called

netVars == <<reg, refs, accepted>>

waitVars == <<op, sock, need, wait, turn>>

loopVars == <<phase, due, batch>>

seen == <<stranded, fresh>>

vars == <<ready, netVars, waitVars, loopVars, seen>>

CallbackOf(t) == <<t, turn[t]>>

Finished(t) == wait[t] \notin {"none", "pending"}

Users(fd) == {t \in Tasks : sock[t] = fd}

\* Types; a task has a waiter exactly while it is inside of a call.
TypeOK ==
  /\ reg \in [Fds -> Keys \cup {None}]
  /\ ready \in [Fds -> SUBSET Events]
  /\ refs \in [Fds -> Nat]
  /\ accepted \in [Fds -> 0..MaxAccepts]
  /\ op \in [Tasks -> Ops \cup {"idle"}]
  /\ sock \in [Tasks -> Fds \cup {None}]
  /\ need \in [Tasks -> SUBSET Events]
  /\ wait \in [Tasks -> {"none", "pending", "set", "failed", "cancelled", "thrown"}]
  /\ turn \in [Tasks -> BOOLEAN]
  /\ phase \in {"early", "late"}
  /\ due \subseteq {t \in Tasks : Finished(t)}
  /\ batch \subseteq [cb : Tasks \X BOOLEAN, exc : BOOLEAN]
  /\ stranded \cup fresh \subseteq {t \in Tasks : wait[t] # "none"}
  /\ \A t \in Tasks : (op[t] = "idle") <=> (wait[t] = "none")

Init ==
  /\ reg = [fd \in Fds |-> None]
  /\ ready = [fd \in Fds |-> {}]
  /\ refs = [fd \in Fds |-> 0]
  /\ accepted = [fd \in Fds |-> 0]
  /\ op = [t \in Tasks |-> "idle"]
  /\ sock = [t \in Tasks |-> None]
  /\ need = [t \in Tasks |-> {}]
  /\ wait = [t \in Tasks |-> "none"]
  /\ turn = [t \in Tasks |-> FALSE]
  /\ phase = "late"
  /\ due = {}
  /\ batch = {}
  /\ stranded = {}
  /\ fresh = {}
-----------------------------------------------------------------------------
(* SelectorNetworking: a call tries the system call; if that would block, it *)
(* waits for an event, and then tries again.                                 *)

\* What sock_connect and the others wait for; wait_sock_event chooses.
Needs(o) ==
  CASE o = "connect" -> {Events}
    [] o \in {"accept", "read"} -> {{"read"}}
    [] o \in {"write", "write_all"} -> {{"write"}}
    [] o = "event" -> SUBSET Events \ {{}}

\* BlockingIOError; sock_write_all also waits when it could send a part only,
\* and wait_sock_event waits without trying anything.
WouldBlock(o, fd) ==
  CASE o = "connect" -> "write" \notin ready[fd]
    [] o \in {"accept", "read"} -> "read" \notin ready[fd]
    [] o = "write" -> "write" \notin ready[fd]
    [] o \in {"write_all", "event"} -> TRUE

\* A new done_cb differs from one that select has returned already.
NewTurn(t) == \E c \in batch : c.cb = <<t, FALSE>>

\* Fault: the new wait answers to the callback of the one before.
Suspend__SameCallback(t, o, fd, key) ==
  \E events \in Needs(o) :
    /\ reg' = [reg EXCEPT ![fd] = Watched(key, events, CallbackOf(t))]
    /\ op' = [op EXCEPT ![t] = o]
    /\ sock' = [sock EXCEPT ![t] = fd]
    /\ need' = [need EXCEPT ![t] = events]
    /\ wait' = [wait EXCEPT ![t] = "pending"]
    /\ fresh' = IF phase = "early" THEN fresh \cup {t} ELSE fresh
    /\ UNCHANGED turn

\* The first half of _wait_sock_events: a new promise, and a new done_cb.
Suspend(t, o, fd, key) ==
  \E events \in Needs(o) :
    /\ reg' = [reg EXCEPT ![fd] = Watched(key, events, <<t, NewTurn(t)>>)]
    /\ turn' = [turn EXCEPT ![t] = NewTurn(t)]
    /\ op' = [op EXCEPT ![t] = o]
    /\ sock' = [sock EXCEPT ![t] = fd]
    /\ need' = [need EXCEPT ![t] = events]
    /\ wait' = [wait EXCEPT ![t] = "pending"]
    /\ fresh' = IF phase = "early" THEN fresh \cup {t} ELSE fresh

Idle(t) ==
  /\ op' = [op EXCEPT ![t] = "idle"]
  /\ sock' = [sock EXCEPT ![t] = None]
  /\ need' = [need EXCEPT ![t] = {}]
  /\ wait' = [wait EXCEPT ![t] = "none"]
  /\ turn' = [turn EXCEPT ![t] = FALSE]
  /\ fresh' = fresh \ {t}

\* Fault: the entry of _managed_sockets_refs stays.
LeaveSock__KeepsRef(t) == UNCHANGED <<refs, accepted>> /\ Idle(t)

\* The end of _manage_sock, however the call ends.
LeaveSock(t) ==
  /\ refs' = [refs EXCEPT ![sock[t]] = @ - 1]
  /\ UNCHANGED accepted
  /\ Idle(t)

\* sock.accept returns a connection; its descriptor is one that nobody uses.
Connection(conn) ==
  /\ accepted[conn] < MaxAccepts
  /\ ~IsRegistered(conn) /\ Users(conn) = {}
  /\ accepted' = [accepted EXCEPT ![conn] = @ + 1]

\* A call that blocks; accept is called on listeners only.
Call(t, o, fd) ==
  /\ op[t] = "idle" /\ (o = "accept" => fd \notin Quiet)
  /\ WouldBlock(o, fd)
  /\ Suspend(t, o, fd, reg[fd])
  /\ refs' = [refs EXCEPT ![fd] = @ + 1]
  /\ UNCHANGED <<ready, accepted, loopVars, stranded>>

\* A call that does not block leaves nothing behind, but for sock_accept.
AcceptAtOnce(t, fd, conn) ==
  /\ op[t] = "idle"
  /\ "read" \in ready[fd] /\ conn # fd
  /\ Connection(conn)
  /\ refs' = [refs EXCEPT ![conn] = @ + 1]
  /\ UNCHANGED <<reg, ready, waitVars, loopVars, seen>>

\* Fault: stop_watch is not in a `finally`.
KeyAfter__NoFinally(t) ==
  IF wait[t] = "set"
    THEN Unwatched(reg[sock[t]], need[t], CallbackOf(t)) ELSE reg[sock[t]]

\* The `finally` of _wait_sock_events.
KeyAfter(t) == Unwatched(reg[sock[t]], need[t], CallbackOf(t))

\* Fault: the step that runs stays in the batch.
Resumes__StaysDue(t) ==
  /\ t \in due
  /\ stranded' = stranded \ {t}
  /\ UNCHANGED <<ready, phase, due, batch>>

\* The loop invokes the task's step, which was popped with the batch.
Resumes(t) ==
  /\ t \in due
  /\ due' = due \ {t}
  /\ stranded' = stranded \ {t}
  /\ UNCHANGED <<ready, phase, batch>>

Told(t) == wait[t] = "set"

\* The event came, and the call would block again: it waits again.
ResumeAgain(t) ==
  /\ Resumes(t)
  /\ Told(t) /\ op[t] # "event" /\ WouldBlock(op[t], sock[t])
  /\ Suspend(t, op[t], sock[t], KeyAfter(t))
  /\ UNCHANGED <<refs, accepted>>

\* The call returns, or raises: the error of the system call or of select, or
\* Cancelled.
ResumeLast(t) ==
  /\ Resumes(t)
  /\ reg' = [reg EXCEPT ![sock[t]] = KeyAfter(t)]
  /\ LeaveSock(t)

\* sock_accept returns: the connection is counted, and no longer the listener.
ResumeAccepted(t, conn) ==
  /\ Resumes(t)
  /\ Told(t) /\ op[t] = "accept" /\ "read" \in ready[sock[t]]
  /\ reg' = [reg EXCEPT ![sock[t]] = KeyAfter(t)]
  /\ Connection(conn)
  /\ refs' = [refs EXCEPT ![sock[t]] = @ - 1, ![conn] = @ + 1]
  /\ Idle(t)

\* The waiting task is cancelled: its promise is, or, when that has finished
\* already, the step that was to come is replaced by one that throws.
Cancel(t) ==
  /\ \/ /\ wait[t] = "pending"
        /\ wait' = [wait EXCEPT ![t] = "cancelled"]
        /\ UNCHANGED due
     \/ /\ wait[t] \in {"set", "failed", "cancelled"}
        /\ wait' = [wait EXCEPT ![t] = "thrown"]
        /\ due' = due \ {t}
  /\ UNCHANGED <<ready, netVars, op, sock, need, turn, phase, batch, seen>>

\* close: the descriptors in use are taken from the selector, whoever watches
\* them.  Whoever has got the instance from create_networking (policy.py:57) may
\* still be inside of a call.
InUse == {fd \in Fds : refs[fd] > 0}

Close ==
  /\ reg' = Forgotten(InUse)
  /\ stranded' = stranded \cup {t \in Tasks : wait[t] = "pending" /\ sock[t] \in InUse}
  /\ UNCHANGED <<ready, refs, accepted, waitVars, loopVars, fresh>>

-----------------------------------------------------------------------------
(* The loop step, as far as it concerns waiters. *)

Steppable == {t \in Tasks : Finished(t)}

\* The steps that are due are popped, then select is asked.
Poll ==
  /\ phase = "late" /\ due = {}
  /\ phase' = "early"
  /\ due' = Steppable
  /\ \E found \in {Selected, SelectFailed} : batch' = found
  /\ UNCHANGED <<ready, netVars, waitVars, seen>>

Outcome(c) == IF c.exc THEN "failed" ELSE "set"

\* Fault: done_cb does not look whether its waiter is finished.
Tells__Finished(t, c) == wait[t] # "none" /\ c.cb = CallbackOf(t)

\* done_cb finds its waiter pending; another one does nothing.
Tells(t, c) == wait[t] = "pending" /\ c.cb = CallbackOf(t)

\* The early steps have run; each callback that select returned is called.
RunIO(c) ==
  /\ phase = "early" /\ due = {}
  /\ c \in batch
  /\ batch' = batch \ {c}
  /\ wait' = [t \in Tasks |-> IF Tells(t, c) THEN Outcome(c) ELSE wait[t]]
  /\ UNCHANGED <<ready, netVars, op, sock, need, turn, phase, due, seen>>

\* Fault: what select returned is dropped once steps are due again.
PopLate__DropsBatch ==
  /\ phase = "early" /\ due = {}
  /\ phase' = "late"
  /\ due' = Steppable
  /\ batch' = {}
  /\ fresh' = {}
  /\ UNCHANGED <<ready, netVars, waitVars, stranded>>

PopLate ==
  /\ phase = "early" /\ due = {} /\ batch = {}
  /\ phase' = "late"
  /\ due' = Steppable
  /\ fresh' = {}
  /\ UNCHANGED <<ready, netVars, waitVars, batch, stranded>>

-----------------------------------------------------------------------------
(* The kernel. *)

\* Data or room for data comes, and goes with the calls that use it.
Kernel(fd, event) ==
  /\ ready' = [ready EXCEPT ![fd] =
                 IF event \in @ THEN @ \ {event} ELSE @ \cup {event}]
  /\ UNCHANGED <<netVars, waitVars, loopVars, seen>>

-----------------------------------------------------------------------------
LoopStep ==
  \/ Poll \/ PopLate
  \/ \E c \in batch : RunIO(c)
  \/ \E t \in due : \/ ResumeAgain(t) \/ ResumeLast(t)
                    \/ \E conn \in Fds : ResumeAccepted(t, conn)

Next ==
  \/ LoopStep \/ Close
  \/ \E t \in Tasks :
       \/ Cancel(t)
       \/ \E fd \in Fds : \/ \E o \in Ops : Call(t, o, fd)
                          \/ "accept" \in Ops /\ \E conn \in Fds : AcceptAtOnce(t, fd, conn)
  \/ \E fd \in Fds \ Quiet, event \in Events : Kernel(fd, event)

Spec == Init /\ [][Next]_vars

\* The loop keeps running; nobody has to cancel, close or send anything.
FairSpec == Spec /\ WF_vars(LoopStep)

-----------------------------------------------------------------------------
(* Properties. *)

\* The watches and the waits belong together (networking.py:216-234).  A task
\* that waits is in the selector with the events it needs, unless a close took
\* its descriptor away; once its wait is over, however it ended, none of its
\* callbacks is left; and a descriptor that nobody watches is not registered.
WatchedWhileWaiting ==
  /\ \A t \in Tasks : wait[t] = "pending" /\ t \notin stranded =>
       Watcher(need[t], CallbackOf(t)) \in WatchersOf(reg[sock[t]])
  /\ \A fd \in Fds : IsRegistered(fd) => reg[fd].watchers # {}
  /\ \A fd \in Fds : \A w \in WatchersOf(reg[fd]) :
       \E t \in Users(fd) :
         wait[t] # "none" /\ w = Watcher(need[t], CallbackOf(t))

Deaf(w, fd) == ~(w.events \subseteq reg[fd].mask)

\* add_watch asks the kernel for the events of the earlier watchers only
\* (networking.py:132).  Of all who watch a descriptor at most one - the last
\* that was added - may need an event that nobody waits for.
AtMostOneDeaf ==
  \A fd \in Fds : Cardinality({w \in WatchersOf(reg[fd]) : Deaf(w, fd)}) <= 1

\* The references that close goes by (networking.py:299-313) are those of the
\* calls in progress, whatever became of others, and of accepted connections;
\* only the latter are never given back.
RefsCounted ==
  \A fd \in Fds : refs[fd] = Cardinality(Users(fd)) + accepted[fd]

\* A waiter is told once, and by an event that select returned after it began
\* to wait (networking.py:219-226).  Neither an event that is called after the
\* wait was cancelled, nor one that was meant for an earlier wait of the same
\* task on the same descriptor, changes its outcome.
ToldByItsOwnEvent ==
  [][\A t \in Tasks :
       wait'[t] \in {"set", "failed"} /\ wait'[t] # wait[t] =>
         wait[t] = "pending" /\ t \notin fresh]_vars

\* What t waits for is there, and the kernel was asked for it.
Audible(t) ==
  /\ wait[t] = "pending" /\ t \notin stranded
  /\ need[t] \cap Polled(sock[t]) # {}

\* Nobody whose event is there, and asked for, waits for ever.
HeardIsTold == \A t \in Tasks : []<>~Audible(t)
=============================================================================
