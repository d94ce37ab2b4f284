--------------------------- MODULE NetworkingProofs ---------------------------
(***************************************************************************)
(* Proofs about Networking, for any finite set of tasks and any sets of    *)
(* descriptors and calls.                                                  *)
(*                                                                         *)
(* The registry and the waits are changed by different code, so IInv is    *)
(* about both at once: a watcher names the wait that it serves, and what   *)
(* select has returned names watchers of before.                           *)
(***************************************************************************)
EXTENDS Networking, FiniteSetTheorems, TLAPS

\* Where a waiting task is: on a descriptor, and on none else.
Placed ==
  /\ \A t \in Tasks : wait[t] # "none" => sock[t] \in Fds
  /\ \A t \in Tasks : wait[t] = "none" => sock[t] = None

\* What select has returned was asked before the waits of `fresh` began.
Asked ==
  /\ phase = "late" => batch = {} /\ fresh = {}
  /\ \A c, d \in batch : c.cb[1] = d.cb[1] => c.cb = d.cb
  /\ \A t \in fresh : \A c \in batch : c.cb # CallbackOf(t)

\* AtMostOneDeaf without counting.
DeafAreOne ==
  \A fd \in Fds : \A v, w \in WatchersOf(reg[fd]) :
    Deaf(v, fd) /\ Deaf(w, fd) => v = w

\* The three parts of the invariant, and what each adds to the types.
Watches ==
  /\ reg \in [Fds -> Keys \cup {None}]
  /\ WatchedWhileWaiting /\ DeafAreOne

Waits ==
  /\ ready \in [Fds -> SUBSET Events]
  /\ op \in [Tasks -> Ops \cup {"idle"}]
  /\ sock \in [Tasks -> Fds \cup {None}]
  /\ need \in [Tasks -> SUBSET Events]
  /\ wait \in [Tasks -> {"none", "pending", "set", "failed", "cancelled", "thrown"}]
  /\ turn \in [Tasks -> BOOLEAN]
  /\ phase \in {"early", "late"}
  /\ due \subseteq {t \in Tasks : Finished(t)}
  /\ batch \subseteq [cb : Tasks \X BOOLEAN, exc : BOOLEAN]
  /\ stranded \cup fresh \subseteq {t \in Tasks : wait[t] # "none"}
  /\ \A t \in Tasks : (op[t] = "idle") <=> (wait[t] = "none")
  /\ Placed /\ Asked

Counts ==
  /\ refs \in [Fds -> Nat]
  /\ accepted \in [Fds -> 0..MaxAccepts]
  /\ RefsCounted

IInv == Watches /\ Waits /\ Counts

-----------------------------------------------------------------------------
(* What add_watch and stop_watch leave, and what select returns. *)

\* add_watch adds one watcher, and asks for what the earlier ones need.
LEMMA WatchedFacts ==
  ASSUME NEW key \in Keys \cup {None}, NEW events \in SUBSET Events,
         NEW cb \in Tasks \X BOOLEAN
  PROVE  LET k == Watched(key, events, cb)
         IN /\ k \in Keys /\ k # None
            /\ WatchersOf(k) = WatchersOf(key) \cup {Watcher(events, cb)}
            /\ \A w \in WatchersOf(key) : w.events \subseteq k.mask
<1> DEFINE k == Watched(key, events, cb)
<1>1. CASE key = None
  <2>1. k = [mask |-> events, watchers |-> {Watcher(events, cb)}]
    BY <1>1 DEF Watched
  <2>2. k \in Keys
    BY <2>1 DEF Keys, Watcher
  <2> QED
    BY <1>1, <2>1, <2>2, NetworkingAssumption DEF WatchersOf
<1>2. CASE key \in Keys /\ key # None
  <2>1. k = [mask |-> UNION {w.events : w \in key.watchers},
             watchers |-> key.watchers \cup {Watcher(events, cb)}]
    BY <1>2 DEF Watched
  <2>2. k.mask \in SUBSET Events
    BY <1>2, <2>1 DEF Keys
  <2>3. k.watchers \in SUBSET [events : SUBSET Events, cb : Tasks \X BOOLEAN]
    BY <1>2, <2>1 DEF Keys, Watcher
  <2>4. k \in Keys
    BY <2>1, <2>2, <2>3 DEF Keys
  <2>5. k # None
    BY <2>4, NetworkingAssumption
  <2>6. WatchersOf(k) = k.watchers /\ WatchersOf(key) = key.watchers
    BY <1>2, <2>5 DEF WatchersOf
  <2>7. /\ k.watchers = key.watchers \cup {Watcher(events, cb)}
        /\ k.mask = UNION {w.events : w \in key.watchers}
    BY <2>1
  <2> HIDE DEF k
  <2> QED
    BY <2>4, <2>5, <2>6, <2>7 DEF k
<1> QED
  BY <1>1, <1>2

\* stop_watch takes one watcher away, and the key with the last.
LEMMA UnwatchedFacts ==
  ASSUME NEW key \in Keys \cup {None}, NEW events, NEW cb,
         \A w \in WatchersOf(key) : w.cb = cb => w = Watcher(events, cb)
  PROVE  LET k == Unwatched(key, events, cb)
         IN /\ k \in Keys \cup {None}
            /\ WatchersOf(k) = {w \in WatchersOf(key) : w.cb # cb}
            /\ k # None => key # None /\ k.mask = key.mask /\ k.watchers # {}
<1> DEFINE mine == {w \in WatchersOf(key) : w.cb = cb}
           rest == {Watcher(w.events \ events, cb) : w \in mine} \ {Watcher({}, cb)}
           left == (WatchersOf(key) \ mine) \cup rest
           k == Unwatched(key, events, cb)
<1>1. rest = {}
  <2>1. \A w \in mine : w.events = events
    BY DEF Watcher
  <2> QED
    BY <2>1
<1>2. left = {w \in WatchersOf(key) : w.cb # cb}
  BY <1>1
<1>3. k = IF left = {} THEN None ELSE [key EXCEPT !.watchers = left]
  BY DEF Unwatched
<1> HIDE DEF k, left
<1> SUFFICES /\ k \in Keys \cup {None}
             /\ WatchersOf(k) = {w \in WatchersOf(key) : w.cb # cb}
             /\ k # None => key # None /\ k.mask = key.mask /\ k.watchers # {}
  BY DEF k
<1>4. CASE left = {}
  <2>1. k = None
    BY <1>3, <1>4
  <2>2. WatchersOf(k) = {}
    BY <2>1 DEF WatchersOf
  <2> QED
    BY <1>2, <1>4, <2>1, <2>2
<1>5. CASE left # {}
  <2>1. key # None /\ key \in Keys
    BY <1>2, <1>5 DEF WatchersOf
  <2>2. left \subseteq key.watchers
    BY <1>2, <2>1 DEF WatchersOf
  <2>3. k = [mask |-> key.mask, watchers |-> left]
    BY <1>3, <1>5, <2>1 DEF Keys
  <2>4. k \in Keys
    BY <2>1, <2>2, <2>3 DEF Keys
  <2>5. k # None
    BY <2>4, NetworkingAssumption
  <2>6. WatchersOf(k) = left
    BY <2>3, <2>5 DEF WatchersOf
  <2>7. k.mask = key.mask /\ k.watchers = left
    BY <2>3
  <2> QED
    BY <1>2, <1>5, <2>1, <2>4, <2>5, <2>6, <2>7
<1> QED
  BY <1>4, <1>5

\* Whatever select returns, it is the callback of a watcher.
LEMMA SelectedFacts ==
  ASSUME NEW c \in Selected \cup SelectFailed
  PROVE  \E fd \in Fds : \E w \in WatchersOf(reg[fd]) :
           \E exc \in BOOLEAN : c = [cb |-> w.cb, exc |-> exc]
BY DEF Selected, SelectFailed

-----------------------------------------------------------------------------
(* The watches. *)

\* A watcher with a callback of t is the one that t waits with.
LEMMA OwnWatch ==
  ASSUME Watches, NEW t \in Tasks, NEW fd \in Fds,
         NEW w \in WatchersOf(reg[fd]), w.cb[1] = t
  PROVE  sock[t] = fd /\ wait[t] # "none" /\ w = Watcher(need[t], CallbackOf(t))
<1>1. PICK u \in Users(fd) : wait[u] # "none" /\ w = Watcher(need[u], CallbackOf(u))
  BY DEF Watches, WatchedWhileWaiting
<1>2. w.cb = <<u, turn[u]>>
  BY <1>1 DEF Watcher, CallbackOf
<1>3. u = t
  BY <1>2
<1> QED
  BY <1>1, <1>3 DEF Users

\* The `finally` of _wait_sock_events takes the task's watcher, and no other.
LEMMA KeyAfterFacts ==
  ASSUME Watches, Waits, NEW t \in Tasks, wait[t] # "none"
  PROVE  /\ sock[t] \in Fds
         /\ KeyAfter(t) \in Keys \cup {None}
         /\ WatchersOf(KeyAfter(t)) = {w \in WatchersOf(reg[sock[t]]) : w.cb[1] # t}
         /\ KeyAfter(t) # None => /\ KeyAfter(t).mask = reg[sock[t]].mask
                                 /\ KeyAfter(t).watchers # {}
<1>1. sock[t] \in Fds
  BY DEF Waits, Placed
<1> DEFINE key == reg[sock[t]]
<1>2. key \in Keys \cup {None}
  BY <1>1 DEF Watches
<1>3. \A w \in WatchersOf(key) : w.cb[1] = t <=> w.cb = CallbackOf(t)
  <2>1. \A w \in WatchersOf(key) : w.cb[1] = t => w.cb = CallbackOf(t)
    BY <1>1, OwnWatch DEF Watcher
  <2> QED
    BY <2>1 DEF CallbackOf
<1>4. \A w \in WatchersOf(key) :
        w.cb = CallbackOf(t) => w = Watcher(need[t], CallbackOf(t))
  BY <1>1, <1>3, OwnWatch
<1>5. LET k == Unwatched(key, need[t], CallbackOf(t))
      IN /\ k \in Keys \cup {None}
         /\ WatchersOf(k) = {w \in WatchersOf(key) : w.cb # CallbackOf(t)}
         /\ k # None => key # None /\ k.mask = key.mask /\ k.watchers # {}
  BY <1>2, <1>4, UnwatchedFacts
<1> QED
  BY <1>1, <1>3, <1>5 DEF KeyAfter

\* A call waits for events that there are.
LEMMA NeedsFacts ==
  ASSUME NEW o \in Ops, NEW events \in Needs(o)
  PROVE  events \in SUBSET Events
<1>1. o \in {"event", "connect", "accept", "read", "write", "write_all"}
  BY NetworkingAssumption
<1> QED
  BY <1>1 DEF Needs, Events

\* A new wait on fd, from a key without watchers of t.
LEMMA WaitWatches ==
  ASSUME Watches, Waits, NEW t \in Tasks, NEW o \in Ops, NEW fd \in Fds,
         NEW key \in Keys \cup {None},
         WatchersOf(key) = {w \in WatchersOf(reg[fd]) : w.cb[1] # t},
         \A f \in Fds \ {fd} : \A w \in WatchersOf(reg[f]) : w.cb[1] # t,
         Suspend(t, o, fd, key), stranded' = stranded \ {t}
  PROVE  Watches'
<1>1. PICK events \in Needs(o) :
        /\ reg' = [reg EXCEPT ![fd] = Watched(key, events, <<t, NewTurn(t)>>)]
        /\ turn' = [turn EXCEPT ![t] = NewTurn(t)]
        /\ sock' = [sock EXCEPT ![t] = fd]
        /\ need' = [need EXCEPT ![t] = events]
        /\ wait' = [wait EXCEPT ![t] = "pending"]
  BY DEF Suspend
<1> DEFINE k == Watched(key, events, <<t, NewTurn(t)>>)
           new == Watcher(events, <<t, NewTurn(t)>>)
<1>2. /\ k \in Keys /\ k # None
      /\ WatchersOf(k) = WatchersOf(key) \cup {new}
      /\ \A w \in WatchersOf(key) : w.events \subseteq k.mask
  <2>1. <<t, NewTurn(t)>> \in Tasks \X BOOLEAN
    BY DEF NewTurn
  <2>2. events \in SUBSET Events
    BY NeedsFacts
  <2> QED
    BY <2>1, <2>2, WatchedFacts
<1> HIDE DEF k
<1>3. /\ reg' \in [Fds -> Keys \cup {None}]
      /\ \A f \in Fds : reg'[f] = IF f = fd THEN k ELSE reg[f]
  BY <1>1, <1>2 DEF Watches, k
<1>4. /\ \A u \in Tasks : u # t =>
           /\ sock'[u] = sock[u] /\ need'[u] = need[u]
           /\ wait'[u] = wait[u] /\ CallbackOf(u)' = CallbackOf(u)
      /\ sock'[t] = fd /\ wait'[t] = "pending"
      /\ Watcher(need[t], CallbackOf(t))' = new
  BY <1>1 DEF Waits, CallbackOf, Watcher
<1>5. \A f \in Fds : WatchersOf(reg[f])' =
        {w \in WatchersOf(reg[f]) : w.cb[1] # t} \cup (IF f = fd THEN {new} ELSE {})
  BY <1>2, <1>3 DEF WatchersOf
<1>6. WatchedWhileWaiting'
  <2>1. ASSUME NEW u \in Tasks, wait'[u] = "pending", u \notin stranded'
        PROVE  Watcher(need[u], CallbackOf(u))' \in WatchersOf(reg[sock[u]])'
    <3>1. CASE u = t
      BY <3>1, <1>4, <1>5
    <3>2. CASE u # t
      <4>1. wait[u] = "pending" /\ u \notin stranded
        BY <3>2, <2>1, <1>4
      <4>2. Watcher(need[u], CallbackOf(u)) \in WatchersOf(reg[sock[u]])
        BY <4>1 DEF Watches, WatchedWhileWaiting
      <4>3. sock[u] \in Fds
        BY <4>1 DEF Waits, Placed
      <4>4. Watcher(need[u], CallbackOf(u)).cb[1] # t
        BY <3>2 DEF Watcher, CallbackOf
      <4>5. Watcher(need[u], CallbackOf(u))' = Watcher(need[u], CallbackOf(u))
        BY <3>2, <1>4 DEF Watcher
      <4> QED
        BY <3>2, <4>2, <4>3, <4>4, <4>5, <1>4, <1>5
    <3> QED
      BY <3>1, <3>2
  <2>2. ASSUME NEW f \in Fds, IsRegistered(f)'
        PROVE  reg'[f].watchers # {}
    BY <2>2, <1>2, <1>3 DEF IsRegistered, WatchersOf, Watches, WatchedWhileWaiting
  <2>3. ASSUME NEW f \in Fds, NEW w \in WatchersOf(reg[f])'
        PROVE  \E u \in Users(f)' :
                 wait'[u] # "none" /\ w = Watcher(need[u], CallbackOf(u))'
    <3>1. CASE w = new /\ f = fd
      BY <3>1, <1>4 DEF Users
    <3>2. CASE w \in WatchersOf(reg[f]) /\ w.cb[1] # t
      <4>1. PICK u \in Users(f) : wait[u] # "none" /\ w = Watcher(need[u], CallbackOf(u))
        BY <3>2 DEF Watches, WatchedWhileWaiting
      <4>2. u # t
        BY <4>1, <3>2 DEF Watcher, CallbackOf
      <4> QED
        BY <4>1, <4>2, <1>4 DEF Users, Watcher
    <3> QED
      BY <3>1, <3>2, <1>5
  <2> QED
    BY <2>1, <2>2, <2>3 DEF WatchedWhileWaiting
<1>7. DeafAreOne'
  <2> SUFFICES ASSUME NEW f \in Fds, NEW v \in WatchersOf(reg[f])',
                      NEW w \in WatchersOf(reg[f])', Deaf(v, f)', Deaf(w, f)'
               PROVE  v = w
    BY DEF DeafAreOne
  <2>1. CASE f = fd
    <3>1. \A x \in WatchersOf(reg[f])' : Deaf(x, f)' => x = new
      BY <2>1, <1>2, <1>3 DEF Deaf, WatchersOf
    <3> QED
      BY <3>1
  <2>2. CASE f # fd
    BY <2>2, <1>3 DEF Watches, DeafAreOne, Deaf, WatchersOf
  <2> QED
    BY <2>1, <2>2
<1> QED
  BY <1>3, <1>6, <1>7 DEF Watches

\* The end of a wait.
LEMMA LeaveWatches ==
  ASSUME Watches, Waits, NEW t \in Tasks, wait[t] # "none",
         reg' = [reg EXCEPT ![sock[t]] = KeyAfter(t)],
         Idle(t), stranded' = stranded \ {t}
  PROVE  Watches'
<1> DEFINE k == KeyAfter(t)
<1>1. /\ sock[t] \in Fds /\ k \in Keys \cup {None}
      /\ WatchersOf(k) = {w \in WatchersOf(reg[sock[t]]) : w.cb[1] # t}
      /\ k # None => k.mask = reg[sock[t]].mask /\ k.watchers # {}
  BY KeyAfterFacts
<1> HIDE DEF k
<1>2. /\ reg' \in [Fds -> Keys \cup {None}]
      /\ \A f \in Fds : reg'[f] = IF f = sock[t] THEN k ELSE reg[f]
  BY <1>1 DEF Watches, k
<1>3. /\ \A u \in Tasks : u # t =>
           /\ sock'[u] = sock[u] /\ need'[u] = need[u]
           /\ wait'[u] = wait[u] /\ CallbackOf(u)' = CallbackOf(u)
      /\ wait'[t] = "none"
  BY DEF Waits, Idle, CallbackOf
<1>4. \A f \in Fds : WatchersOf(reg[f])' = {w \in WatchersOf(reg[f]) : w.cb[1] # t}
  <2>1. \A f \in Fds \ {sock[t]} : \A w \in WatchersOf(reg[f]) : w.cb[1] # t
    BY OwnWatch
  <2> QED
    BY <2>1, <1>1, <1>2 DEF WatchersOf
<1>5. WatchedWhileWaiting'
  <2>1. ASSUME NEW u \in Tasks, wait'[u] = "pending", u \notin stranded'
        PROVE  Watcher(need[u], CallbackOf(u))' \in WatchersOf(reg[sock[u]])'
    <3>1. u # t /\ wait[u] = "pending" /\ u \notin stranded
      BY <2>1, <1>3
    <3>2. Watcher(need[u], CallbackOf(u)) \in WatchersOf(reg[sock[u]])
      BY <3>1 DEF Watches, WatchedWhileWaiting
    <3>3. sock[u] \in Fds
      BY <3>1 DEF Waits, Placed
    <3>4. Watcher(need[u], CallbackOf(u)).cb[1] # t
      BY <3>1 DEF Watcher, CallbackOf
    <3>5. Watcher(need[u], CallbackOf(u))' = Watcher(need[u], CallbackOf(u))
      BY <3>1, <1>3 DEF Watcher
    <3> QED
      BY <3>1, <3>2, <3>3, <3>4, <3>5, <1>3, <1>4
  <2>2. ASSUME NEW f \in Fds, IsRegistered(f)'
        PROVE  reg'[f].watchers # {}
    BY <2>2, <1>1, <1>2 DEF IsRegistered, Watches, WatchedWhileWaiting
  <2>3. ASSUME NEW f \in Fds, NEW w \in WatchersOf(reg[f])'
        PROVE  \E u \in Users(f)' :
                 wait'[u] # "none" /\ w = Watcher(need[u], CallbackOf(u))'
    <3>1. w \in WatchersOf(reg[f]) /\ w.cb[1] # t
      BY <1>4
    <3>2. PICK u \in Users(f) : wait[u] # "none" /\ w = Watcher(need[u], CallbackOf(u))
      BY <3>1 DEF Watches, WatchedWhileWaiting
    <3>3. u # t
      BY <3>1, <3>2 DEF Watcher, CallbackOf
    <3> QED
      BY <3>2, <3>3, <1>3 DEF Users, Watcher
  <2> QED
    BY <2>1, <2>2, <2>3 DEF WatchedWhileWaiting
<1>6. DeafAreOne'
  <2> SUFFICES ASSUME NEW f \in Fds, NEW v \in WatchersOf(reg[f])',
                      NEW w \in WatchersOf(reg[f])', Deaf(v, f)', Deaf(w, f)'
               PROVE  v = w
    BY DEF DeafAreOne
  <2>1. v \in WatchersOf(reg[f]) /\ w \in WatchersOf(reg[f])
    BY <1>4
  <2>2. reg'[f].mask = reg[f].mask
    BY <1>1, <1>2 DEF WatchersOf
  <2>3. Deaf(v, f) /\ Deaf(w, f)
    BY <2>2 DEF Deaf
  <2> QED
    BY <2>1, <2>3 DEF Watches, DeafAreOne
<1> QED
  BY <1>2, <1>5, <1>6 DEF Watches

\* What neither begins nor ends a wait does not touch the watches.
LEMMA KeepWatches ==
  ASSUME Watches, Waits, UNCHANGED <<reg, sock, need, turn, stranded>>,
         \A t \in Tasks : wait'[t] = "pending" => wait[t] = "pending",
         \A t \in Tasks : wait'[t] = "none" => wait[t] = "none"
  PROVE  Watches'
<1>1. \A f \in Fds : /\ WatchersOf(reg[f])' = WatchersOf(reg[f])
                     /\ IsRegistered(f)' <=> IsRegistered(f)
                     /\ Users(f)' = Users(f)
  BY DEF WatchersOf, IsRegistered, Users
<1>2. \A t \in Tasks : /\ CallbackOf(t)' = CallbackOf(t)
                       /\ Watcher(need[t], CallbackOf(t))' = Watcher(need[t], CallbackOf(t))
  BY DEF CallbackOf, Watcher
<1>3. WatchedWhileWaiting'
  <2>1. ASSUME NEW t \in Tasks, wait'[t] = "pending", t \notin stranded'
        PROVE  Watcher(need[t], CallbackOf(t))' \in WatchersOf(reg[sock[t]])'
    <3>1. sock[t] \in Fds
      BY <2>1 DEF Waits, Placed
    <3> QED
      BY <2>1, <3>1, <1>1, <1>2 DEF Watches, WatchedWhileWaiting
  <2>2. \A f \in Fds : IsRegistered(f)' => reg'[f].watchers # {}
    BY <1>1 DEF Watches, WatchedWhileWaiting
  <2>3. ASSUME NEW f \in Fds, NEW w \in WatchersOf(reg[f])'
        PROVE  \E t \in Users(f)' :
                 wait'[t] # "none" /\ w = Watcher(need[t], CallbackOf(t))'
    <3>1. PICK t \in Users(f) : wait[t] # "none" /\ w = Watcher(need[t], CallbackOf(t))
      BY <1>1 DEF Watches, WatchedWhileWaiting
    <3> QED
      BY <3>1, <1>1, <1>2 DEF Users
  <2> QED
    BY <2>1, <2>2, <2>3 DEF WatchedWhileWaiting
<1> QED
  BY <1>1, <1>3 DEF Watches, DeafAreOne, Deaf

\* close takes descriptors with all that watch them, and strands those who wait.
LEMMA CloseWatches ==
  ASSUME Watches, Waits, Close
  PROVE  Watches'
<1>1. /\ reg' \in [Fds -> Keys \cup {None}]
      /\ \A f \in Fds : reg'[f] = IF f \in InUse THEN None ELSE reg[f]
  BY DEF Close, Forgotten, Watches
<1>2. \A f \in Fds : WatchersOf(reg[f])' = IF f \in InUse THEN {} ELSE WatchersOf(reg[f])
  BY <1>1 DEF WatchersOf
<1>3. \A t \in Tasks : /\ CallbackOf(t)' = CallbackOf(t)
                       /\ Watcher(need[t], CallbackOf(t))' = Watcher(need[t], CallbackOf(t))
  BY DEF CallbackOf, Watcher, Close, waitVars
<1>4. \A f \in Fds : Users(f)' = Users(f)
  BY DEF Users, Close, waitVars
<1>5. WatchedWhileWaiting'
  <2>1. ASSUME NEW t \in Tasks, wait'[t] = "pending", t \notin stranded'
        PROVE  Watcher(need[t], CallbackOf(t))' \in WatchersOf(reg[sock[t]])'
    <3>1. wait[t] = "pending" /\ t \notin stranded /\ sock[t] \notin InUse /\ sock' = sock
      BY <2>1 DEF Close, waitVars
    <3>2. sock[t] \in Fds
      BY <3>1 DEF Waits, Placed
    <3> QED
      BY <3>1, <3>2, <1>2, <1>3 DEF Watches, WatchedWhileWaiting
  <2>2. \A f \in Fds : IsRegistered(f)' => reg'[f].watchers # {}
    BY <1>1 DEF Watches, WatchedWhileWaiting, IsRegistered
  <2>3. ASSUME NEW f \in Fds, NEW w \in WatchersOf(reg[f])'
        PROVE  \E t \in Users(f)' :
                 wait'[t] # "none" /\ w = Watcher(need[t], CallbackOf(t))'
    <3>1. PICK t \in Users(f) : wait[t] # "none" /\ w = Watcher(need[t], CallbackOf(t))
      BY <1>2 DEF Watches, WatchedWhileWaiting
    <3>2. wait' = wait
      BY DEF Close, waitVars
    <3> QED
      BY <3>1, <3>2, <1>3, <1>4 DEF Users
  <2> QED
    BY <2>1, <2>2, <2>3 DEF WatchedWhileWaiting
<1>6. DeafAreOne'
  BY <1>1, <1>2 DEF Watches, DeafAreOne, Deaf
<1> QED
  BY <1>1, <1>5, <1>6 DEF Watches

-----------------------------------------------------------------------------
(* The waits. *)

\* The callback of a new wait is none of those that select has returned.
LEMMA WaitWaits ==
  ASSUME Waits, NEW t \in Tasks, NEW o \in Ops, NEW fd \in Fds, NEW key,
         Suspend(t, o, fd, key), stranded' = stranded \ {t}, due' = due \ {t},
         UNCHANGED <<ready, phase, batch>>
  PROVE  Waits'
<1>1. PICK events \in Needs(o) :
        /\ turn' = [turn EXCEPT ![t] = NewTurn(t)]
        /\ op' = [op EXCEPT ![t] = o]
        /\ sock' = [sock EXCEPT ![t] = fd]
        /\ need' = [need EXCEPT ![t] = events]
        /\ wait' = [wait EXCEPT ![t] = "pending"]
        /\ fresh' = IF phase = "early" THEN fresh \cup {t} ELSE fresh
  BY DEF Suspend
<1>2. events \in SUBSET Events
  BY NeedsFacts
<1>3. NewTurn(t) \in BOOLEAN
  BY DEF NewTurn
<1>4. o # "idle"
  BY NetworkingAssumption
<1>5. Asked'
  <2>1. phase' = "late" => batch' = {} /\ fresh' = {}
    BY <1>1 DEF Waits, Asked
  <2>2. ASSUME NEW u \in fresh', NEW c \in batch'
        PROVE  c.cb # CallbackOf(u)'
    <3>1. CASE u = t
      <4>1. CallbackOf(u)' = <<t, NewTurn(t)>>
        BY <3>1, <1>1 DEF CallbackOf, Waits
      <4>2. CASE NewTurn(t)
        <5>1. PICK d \in batch : d.cb = <<t, FALSE>>
          BY <4>2 DEF NewTurn
        <5>2. c \in batch /\ d.cb[1] = t
          BY <5>1
        <5>3. c.cb[1] = t => c.cb = <<t, FALSE>>
          BY <5>1, <5>2 DEF Waits, Asked
        <5>4. NewTurn(t) = TRUE
          BY <4>2, <1>3
        <5>5. CallbackOf(u)' = <<t, TRUE>>
          BY <4>1, <5>4
        <5>6. <<t, TRUE>>[1] = t
          OBVIOUS
        <5>7. <<t, TRUE>> # <<t, FALSE>>
          <6>1. <<t, TRUE>>[2] # <<t, FALSE>>[2]
            OBVIOUS
          <6> QED
            BY <6>1
        <5> QED
          BY <5>3, <5>5, <5>6, <5>7
      <4>3. CASE ~NewTurn(t)
        BY <4>1, <4>3 DEF NewTurn
      <4> QED
        BY <4>2, <4>3
    <3>2. CASE u # t
      <4>1. u \in fresh
        BY <3>2, <1>1
      <4>2. CallbackOf(u)' = CallbackOf(u)
        BY <3>2, <1>1 DEF CallbackOf, Waits
      <4> QED
        BY <4>1, <4>2 DEF Waits, Asked
    <3> QED
      BY <3>1, <3>2
  <2> QED
    BY <2>1, <2>2 DEF Waits, Asked
<1>6. Placed'
  BY <1>1 DEF Waits, Placed
<1>7. due' \subseteq {u \in Tasks : Finished(u)'}
  BY <1>1 DEF Waits, Finished
<1> QED
  BY <1>1, <1>2, <1>3, <1>4, <1>5, <1>6, <1>7 DEF Waits, Finished

\* A call that ends leaves nothing of its wait.
LEMMA LeaveWaits ==
  ASSUME Waits, NEW t \in Tasks, Idle(t), stranded' = stranded \ {t},
         due' = due \ {t}, UNCHANGED <<ready, phase, batch>>
  PROVE  Waits'
<1>1. Asked'
  <2>1. ASSUME NEW u \in fresh', NEW c \in batch'
        PROVE  c.cb # CallbackOf(u)'
    <3>1. u \in fresh /\ u # t
      BY DEF Idle
    <3>2. CallbackOf(u)' = CallbackOf(u)
      BY <3>1 DEF CallbackOf, Waits, Idle
    <3> QED
      BY <3>1, <3>2 DEF Waits, Asked
  <2> QED
    BY <2>1 DEF Waits, Asked, Idle
<1>2. Placed'
  BY DEF Waits, Placed, Idle
<1>3. due' \subseteq {u \in Tasks : Finished(u)'}
  BY DEF Waits, Finished, Idle
<1> QED
  BY <1>1, <1>2, <1>3 DEF Waits, Finished, Idle

\* The kernel is asked when nothing of the last time is left, and a task has at
\* most one watcher.
LEMMA PollWaits ==
  ASSUME Watches, Waits, Poll
  PROVE  Waits'
<1>1. PICK found \in {Selected, SelectFailed} : batch' = found
  BY DEF Poll
<1>2. \A c \in batch' : \E fd \in Fds : \E w \in WatchersOf(reg[fd]) :
        \E exc \in BOOLEAN : c = [cb |-> w.cb, exc |-> exc]
  BY <1>1, SelectedFacts
<1>3. \A fd \in Fds : \A w \in WatchersOf(reg[fd]) : w.cb \in Tasks \X BOOLEAN
  BY DEF Watches, Keys, WatchersOf
<1>4. batch' \subseteq [cb : Tasks \X BOOLEAN, exc : BOOLEAN]
  BY <1>2, <1>3
<1>5. ASSUME NEW c \in batch' PROVE c.cb = CallbackOf(c.cb[1])
  <2>1. PICK fd \in Fds : \E w \in WatchersOf(reg[fd]) : c.cb = w.cb
    BY <1>2
  <2> PICK w \in WatchersOf(reg[fd]) : c.cb = w.cb
    BY <2>1
  <2>2. w.cb[1] \in Tasks
    BY <1>3
  <2>3. w = Watcher(need[w.cb[1]], CallbackOf(w.cb[1]))
    BY <2>2, OwnWatch
  <2> QED
    BY <2>3 DEF Watcher
<1>6. Asked'
  <2>1. fresh' = {} /\ phase' = "early"
    BY DEF Poll, Waits, Asked, seen
  <2>2. \A c, d \in batch' : c.cb[1] = d.cb[1] => c.cb = d.cb
    BY <1>5
  <2> QED
    BY <2>1, <2>2 DEF Asked
<1>7. Placed'
  BY DEF Poll, Waits, Placed, waitVars
<1>8. due' \subseteq {t \in Tasks : Finished(t)'}
  BY DEF Poll, Steppable, Finished, waitVars
<1> QED
  BY <1>4, <1>6, <1>7, <1>8 DEF Poll, Waits, waitVars, seen

\* done_cb finishes a wait, it begins none.
LEMMA RunIOWaits ==
  ASSUME Waits, NEW c \in batch, RunIO(c)
  PROVE  Waits'
<1>1. Outcome(c) \in {"set", "failed"}
  BY DEF Outcome
<1>2. /\ wait' \in [Tasks -> {"none", "pending", "set", "failed", "cancelled", "thrown"}]
      /\ \A t \in Tasks : wait'[t] = IF Tells(t, c) THEN Outcome(c) ELSE wait[t]
  BY <1>1 DEF RunIO, Waits
<1>3. \A t \in Tasks : (wait'[t] = "none") <=> (wait[t] = "none")
  BY <1>1, <1>2 DEF Tells
<1>4. Asked'
  BY DEF RunIO, Waits, Asked, CallbackOf, seen
<1>5. Placed'
  BY <1>3 DEF RunIO, Waits, Placed
<1> QED
  BY <1>2, <1>3, <1>4, <1>5 DEF RunIO, Waits, seen

\* So does a cancel, and a step that it replaces is no longer due.
LEMMA CancelWaits ==
  ASSUME Waits, NEW t \in Tasks, Cancel(t)
  PROVE  Waits'
<1>1. /\ wait' \in [Tasks -> {"none", "pending", "set", "failed", "cancelled", "thrown"}]
      /\ \A u \in Tasks : u # t => wait'[u] = wait[u]
      /\ wait[t] # "none" /\ wait'[t] \in {"cancelled", "thrown"}
  BY DEF Cancel, Waits
<1>2. Asked'
  BY DEF Cancel, Waits, Asked, CallbackOf, seen
<1>3. Placed'
  BY <1>1 DEF Cancel, Waits, Placed
<1>4. due' \subseteq {u \in Tasks : Finished(u)'}
  BY <1>1 DEF Cancel, Waits, Finished
<1> QED
  BY <1>1, <1>2, <1>3, <1>4 DEF Cancel, Waits, seen

-----------------------------------------------------------------------------
(* The references. *)

\* Users can be counted.
LEMMA UsersFinite == \A fd \in Fds : IsFiniteSet(Users(fd))
BY NetworkingAssumption, FS_Subset DEF Users

\* A task that enters a call, or leaves it, is one user more or one less.
LEMMA EnterCounts ==
  ASSUME Waits, Counts, NEW t \in Tasks, NEW fd \in Fds, wait[t] = "none",
         sock' = [sock EXCEPT ![t] = fd],
         refs' = [refs EXCEPT ![fd] = @ + 1], UNCHANGED accepted
  PROVE  Counts'
<1>1. sock[t] = None
  BY DEF Waits, Placed
<1>2. \A f \in Fds : Users(f)' = IF f = fd THEN Users(f) \cup {t} ELSE Users(f)
  BY <1>1, NetworkingAssumption DEF Users, Waits
<1>3. t \notin Users(fd)
  BY <1>1, NetworkingAssumption DEF Users
<1>4. Cardinality(Users(fd) \cup {t}) = Cardinality(Users(fd)) + 1
  BY <1>3, UsersFinite, FS_AddElement
<1>5. \A f \in Fds : refs'[f] = IF f = fd THEN refs[f] + 1 ELSE refs[f]
  BY DEF Counts
<1>6. ASSUME NEW f \in Fds
      PROVE  refs'[f] = Cardinality(Users(f)') + accepted'[f]
  <2>1. Cardinality(Users(f)) \in Nat /\ accepted[f] \in Nat
    BY UsersFinite, FS_CardinalityType, NetworkingAssumption DEF Counts
  <2>2. refs[f] = Cardinality(Users(f)) + accepted[f] /\ accepted'[f] = accepted[f]
    BY DEF Counts, RefsCounted
  <2>3. Cardinality(Users(f)') = Cardinality(Users(f)) + (IF f = fd THEN 1 ELSE 0)
    <3>1. CASE f = fd
      <4>1. Users(f)' = Users(fd) \cup {t}
        BY <3>1, <1>2
      <4> QED
        BY <3>1, <4>1, <1>4
    <3>2. CASE f # fd
      <4>1. Users(f)' = Users(f)
        BY <3>2, <1>2
      <4> QED
        BY <3>2, <4>1, <2>1
    <3> QED
      BY <3>1, <3>2
  <2> QED
    BY <2>1, <2>2, <2>3, <1>5
<1>7. refs' \in [Fds -> Nat]
  BY DEF Counts
<1> QED
  BY <1>6, <1>7 DEF Counts, RefsCounted

\* The users that are left, and the references that are due to them.
LEMMA LeaveUsers ==
  ASSUME Waits, Counts, NEW t \in Tasks, wait[t] # "none", Idle(t)
  PROVE  /\ sock[t] \in Fds
         /\ \A f \in Fds : Cardinality(Users(f)') \in Nat
         /\ \A f \in Fds : Cardinality(Users(f)) =
                           Cardinality(Users(f)') + (IF f = sock[t] THEN 1 ELSE 0)
<1>1. sock[t] \in Fds
  BY DEF Waits, Placed
<1>2. \A f \in Fds : Users(f)' = Users(f) \ {t}
  BY NetworkingAssumption DEF Users, Waits, Idle
<1>3. t \in Users(sock[t])
  BY DEF Users
<1>4. \A f \in Fds : f # sock[t] => t \notin Users(f)
  BY DEF Users
<1>5. ASSUME NEW f \in Fds
      PROVE  /\ Cardinality(Users(f)') \in Nat
             /\ Cardinality(Users(f)) =
                  Cardinality(Users(f)') + (IF f = sock[t] THEN 1 ELSE 0)
  <2>1. /\ IsFiniteSet(Users(f) \ {t})
        /\ Cardinality(Users(f) \ {t}) =
             IF t \in Users(f) THEN Cardinality(Users(f)) - 1 ELSE Cardinality(Users(f))
    BY UsersFinite, FS_RemoveElement
  <2>2. Cardinality(Users(f)) \in Nat /\ Cardinality(Users(f) \ {t}) \in Nat
    BY <2>1, UsersFinite, FS_CardinalityType
  <2> QED
    BY <2>1, <2>2, <1>2, <1>3, <1>4
<1> QED
  BY <1>1, <1>5

\* _manage_sock gives back the reference of one user who leaves.
LEMMA LeaveCounts ==
  ASSUME Waits, Counts, NEW t \in Tasks, wait[t] # "none", LeaveSock(t)
  PROVE  Counts'
<1>1. Idle(t)
  BY DEF LeaveSock
<1>2. \A f \in Fds : refs'[f] = IF f = sock[t] THEN refs[f] - 1 ELSE refs[f]
  BY DEF LeaveSock, Counts
<1>3. ASSUME NEW f \in Fds
      PROVE  refs'[f] \in Nat /\ refs'[f] = Cardinality(Users(f)') + accepted'[f]
  <2>1. accepted'[f] = accepted[f] /\ accepted[f] \in Nat
    BY NetworkingAssumption DEF Counts, LeaveSock
  <2>2. refs[f] = Cardinality(Users(f)) + accepted[f]
    BY DEF Counts, RefsCounted
  <2> QED
    BY <2>1, <2>2, <1>1, <1>2, LeaveUsers
<1>4. refs' = [f \in Fds |-> refs'[f]]
  BY DEF LeaveSock, Counts
<1> QED
  BY <1>3, <1>4 DEF Counts, RefsCounted, LeaveSock

\* A connection is counted twice, as a reference and as accepted.
LEMMA ConnectionFacts ==
  ASSUME Counts, NEW conn \in Fds, Connection(conn)
  PROVE  /\ accepted' \in [Fds -> 0..MaxAccepts]
         /\ \A f \in Fds : /\ accepted[f] \in Nat
                           /\ accepted'[f] = IF f = conn THEN accepted[f] + 1 ELSE accepted[f]
<1>1. accepted[conn] + 1 \in 0..MaxAccepts
  BY NetworkingAssumption DEF Counts, Connection
<1> QED
  BY <1>1 DEF Counts, Connection

-----------------------------------------------------------------------------
(* The invariant, step by step. *)

\* Nobody waits and nothing is watched in the beginning.
LEMMA InitIInv == Init => IInv
<1> SUFFICES ASSUME Init PROVE IInv
  OBVIOUS
<1>1. Watches
  BY DEF Init, Watches, WatchedWhileWaiting, DeafAreOne, WatchersOf, IsRegistered
<1>2. Waits
  BY NetworkingAssumption DEF Init, Waits, Placed, Asked, Finished
<1>3. Counts
  <2>1. \A fd \in Fds : Users(fd) = {}
    BY NetworkingAssumption DEF Init, Users
  <2>2. \A fd \in Fds : Cardinality(Users(fd)) = 0
    BY <2>1, FS_EmptySet
  <2> QED
    BY <2>2, NetworkingAssumption DEF Init, Counts, RefsCounted
<1> QED
  BY <1>1, <1>2, <1>3 DEF IInv

\* A call that blocks begins its first wait.
LEMMA CallIInv ==
  ASSUME IInv, NEW t \in Tasks, NEW o \in Ops, NEW fd \in Fds, Call(t, o, fd)
  PROVE  IInv'
<1>1. wait[t] = "none" /\ t \notin due /\ t \notin stranded
  BY DEF IInv, Call, Waits, Finished
<1>2. Suspend(t, o, fd, reg[fd]) /\ due' = due \ {t} /\ stranded' = stranded \ {t}
  BY <1>1 DEF Call, loopVars
<1>3. \A f \in Fds : \A w \in WatchersOf(reg[f]) : w.cb[1] # t
  BY <1>1, OwnWatch DEF IInv
<1>4. reg[fd] \in Keys \cup {None}
  BY DEF IInv, Watches
<1>5. Watches'
  BY <1>2, <1>3, <1>4, WaitWatches DEF IInv
<1>6. Waits'
  BY <1>2, WaitWaits DEF IInv, Call, loopVars
<1>7. Counts'
  <2>1. sock' = [sock EXCEPT ![t] = fd]
    BY <1>2 DEF Suspend
  <2> QED
    BY <2>1, <1>1, EnterCounts DEF IInv, Call
<1> QED
  BY <1>5, <1>6, <1>7 DEF IInv

\* An accept that does not block only counts its connection.
LEMMA AcceptAtOnceIInv ==
  ASSUME IInv, NEW t \in Tasks, NEW fd \in Fds, NEW conn \in Fds,
         AcceptAtOnce(t, fd, conn)
  PROVE  IInv'
<1>1. Watches'
  BY KeepWatches DEF IInv, AcceptAtOnce, waitVars, seen
<1>2. Waits'
  BY DEF IInv, AcceptAtOnce, waitVars, loopVars, seen, Waits, Placed, Asked,
         Finished, CallbackOf
<1>3. Counts'
  <2>1. /\ accepted' \in [Fds -> 0..MaxAccepts]
        /\ \A f \in Fds : /\ accepted[f] \in Nat
                          /\ accepted'[f] = IF f = conn THEN accepted[f] + 1 ELSE accepted[f]
    BY ConnectionFacts DEF IInv, AcceptAtOnce
  <2>2. /\ refs' \in [Fds -> Nat]
        /\ \A f \in Fds : refs'[f] = IF f = conn THEN refs[f] + 1 ELSE refs[f]
    BY DEF IInv, AcceptAtOnce, Counts
  <2>3. ASSUME NEW f \in Fds
        PROVE  refs'[f] = Cardinality(Users(f)') + accepted'[f]
    <3>1. Users(f)' = Users(f)
      BY DEF Users, AcceptAtOnce, waitVars
    <3>2. Cardinality(Users(f)) \in Nat
      BY UsersFinite, FS_CardinalityType
    <3>3. refs[f] = Cardinality(Users(f)) + accepted[f]
      BY DEF IInv, Counts, RefsCounted
    <3> QED
      BY <3>1, <3>2, <3>3, <2>1, <2>2
  <2> QED
    BY <2>1, <2>2, <2>3 DEF Counts, RefsCounted
<1> QED
  BY <1>1, <1>2, <1>3 DEF IInv

\* A step that is due is that of a task whose wait is over.
LEMMA ResumesFacts ==
  ASSUME IInv, NEW t \in Tasks, Resumes(t)
  PROVE  /\ wait[t] \notin {"none", "pending"} /\ op[t] \in Ops /\ sock[t] \in Fds
         /\ due' = due \ {t} /\ stranded' = stranded \ {t}
         /\ UNCHANGED <<ready, phase, batch>>
BY DEF IInv, Waits, Placed, Finished, Resumes

\* A call that would block again takes its old watcher away and begins anew.
LEMMA ResumeAgainIInv ==
  ASSUME IInv, NEW t \in Tasks, ResumeAgain(t)
  PROVE  IInv'
<1>1. /\ wait[t] # "none" /\ op[t] \in Ops /\ sock[t] \in Fds
      /\ due' = due \ {t} /\ stranded' = stranded \ {t}
      /\ UNCHANGED <<ready, phase, batch>>
  BY ResumesFacts DEF ResumeAgain
<1>2. Suspend(t, op[t], sock[t], KeyAfter(t))
  BY DEF ResumeAgain
<1>3. /\ KeyAfter(t) \in Keys \cup {None}
      /\ WatchersOf(KeyAfter(t)) = {w \in WatchersOf(reg[sock[t]]) : w.cb[1] # t}
  BY <1>1, KeyAfterFacts DEF IInv
<1>4. \A f \in Fds \ {sock[t]} : \A w \in WatchersOf(reg[f]) : w.cb[1] # t
  BY OwnWatch DEF IInv
<1>5. Watches'
  BY <1>1, <1>2, <1>3, <1>4, WaitWatches DEF IInv
<1>6. Waits'
  BY <1>1, <1>2, WaitWaits DEF IInv
<1>7. Counts'
  <2>1. sock' = sock
    BY <1>2 DEF Suspend, IInv, Waits
  <2>2. \A f \in Fds : Users(f)' = Users(f)
    BY <2>1 DEF Users
  <2> QED
    BY <2>2 DEF ResumeAgain, IInv, Counts, RefsCounted
<1> QED
  BY <1>5, <1>6, <1>7 DEF IInv

\* A call that ends takes its watcher away and gives its reference back.
LEMMA ResumeLastIInv ==
  ASSUME IInv, NEW t \in Tasks, ResumeLast(t)
  PROVE  IInv'
<1>1. /\ wait[t] # "none"
      /\ due' = due \ {t} /\ stranded' = stranded \ {t}
      /\ UNCHANGED <<ready, phase, batch>>
  BY ResumesFacts DEF ResumeLast
<1>2. Idle(t)
  BY DEF ResumeLast, LeaveSock
<1>3. Watches'
  BY <1>1, <1>2, LeaveWatches DEF IInv, ResumeLast
<1>4. Waits'
  BY <1>1, <1>2, LeaveWaits DEF IInv
<1>5. Counts'
  BY <1>1, LeaveCounts DEF IInv, ResumeLast
<1> QED
  BY <1>3, <1>4, <1>5 DEF IInv

\* So does an accept, and its connection is counted.
LEMMA ResumeAcceptedIInv ==
  ASSUME IInv, NEW t \in Tasks, NEW conn \in Fds, ResumeAccepted(t, conn)
  PROVE  IInv'
<1>1. /\ wait[t] # "none" /\ sock[t] \in Fds
      /\ due' = due \ {t} /\ stranded' = stranded \ {t}
      /\ UNCHANGED <<ready, phase, batch>>
  BY ResumesFacts DEF ResumeAccepted
<1>2. Idle(t)
  BY DEF ResumeAccepted
<1>3. Watches'
  BY <1>1, <1>2, LeaveWatches DEF IInv, ResumeAccepted
<1>4. Waits'
  BY <1>1, <1>2, LeaveWaits DEF IInv
<1>5. Counts'
  <2>1. /\ accepted' \in [Fds -> 0..MaxAccepts]
        /\ \A f \in Fds : /\ accepted[f] \in Nat
                          /\ accepted'[f] = IF f = conn THEN accepted[f] + 1 ELSE accepted[f]
    BY ConnectionFacts DEF IInv, ResumeAccepted
  <2>2. conn # sock[t]
    BY DEF ResumeAccepted, Connection, Users
  <2>3. /\ refs' = [f \in Fds |-> refs'[f]]
        /\ \A f \in Fds : refs'[f] = IF f = sock[t] THEN refs[f] - 1
                                     ELSE IF f = conn THEN refs[f] + 1 ELSE refs[f]
    BY <2>2 DEF ResumeAccepted, IInv, Counts
  <2>4. ASSUME NEW f \in Fds
        PROVE  refs'[f] \in Nat /\ refs'[f] = Cardinality(Users(f)') + accepted'[f]
    <3>1. refs[f] = Cardinality(Users(f)) + accepted[f]
      BY DEF IInv, Counts, RefsCounted
    <3>2. /\ Cardinality(Users(f)') \in Nat
          /\ Cardinality(Users(f)) = Cardinality(Users(f)') + (IF f = sock[t] THEN 1 ELSE 0)
      BY <1>1, <1>2, LeaveUsers DEF IInv
    <3> QED
      BY <3>1, <3>2, <2>1, <2>2, <2>3
  <2> QED
    BY <2>1, <2>3, <2>4 DEF Counts, RefsCounted
<1> QED
  BY <1>3, <1>4, <1>5 DEF IInv

\* Every step keeps the invariant.
LEMMA NextIInv == IInv /\ [Next]_vars => IInv'
<1> SUFFICES ASSUME IInv, [Next]_vars PROVE IInv'
  OBVIOUS
<1>1. ASSUME Poll PROVE IInv'
  <2>1. Watches'
    BY <1>1, KeepWatches DEF IInv, Poll, netVars, waitVars, seen
  <2>2. Waits'
    BY <1>1, PollWaits DEF IInv
  <2> QED
    BY <1>1, <2>1, <2>2 DEF IInv, Poll, Counts, RefsCounted, Users, netVars, waitVars
<1>2. ASSUME PopLate PROVE IInv'
  <2>1. Watches'
    BY <1>2, KeepWatches DEF IInv, PopLate, netVars, waitVars
  <2>2. Waits'
    BY <1>2 DEF IInv, PopLate, Waits, Placed, Asked, Steppable, Finished, waitVars
  <2> QED
    BY <1>2, <2>1, <2>2 DEF IInv, PopLate, Counts, RefsCounted, Users, netVars, waitVars
<1>3. ASSUME NEW c \in batch, RunIO(c) PROVE IInv'
  <2>1. Waits'
    BY <1>3, RunIOWaits DEF IInv
  <2>2. Watches'
    <3>1. /\ \A t \in Tasks : wait'[t] = "pending" => wait[t] = "pending"
          /\ \A t \in Tasks : wait'[t] = "none" => wait[t] = "none"
      BY <1>3 DEF RunIO, Outcome, Tells
    <3>2. UNCHANGED <<reg, sock, need, turn, stranded>>
      BY <1>3 DEF RunIO, netVars, seen
    <3> QED
      BY <3>1, <3>2, KeepWatches DEF IInv
  <2> QED
    BY <1>3, <2>1, <2>2 DEF IInv, RunIO, Counts, RefsCounted, Users, netVars
<1>4. ASSUME NEW t \in due, ResumeAgain(t) PROVE IInv'
  BY <1>4, ResumeAgainIInv DEF IInv, Waits
<1>5. ASSUME NEW t \in due, ResumeLast(t) PROVE IInv'
  BY <1>5, ResumeLastIInv DEF IInv, Waits
<1>6. ASSUME NEW t \in due, NEW conn \in Fds, ResumeAccepted(t, conn) PROVE IInv'
  BY <1>6, ResumeAcceptedIInv DEF IInv, Waits
<1>7. ASSUME Close PROVE IInv'
  <2>1. Watches'
    BY <1>7, CloseWatches DEF IInv
  <2>2. Waits'
    BY <1>7 DEF IInv, Close, Waits, Placed, Asked, Finished, CallbackOf, waitVars, loopVars
  <2> QED
    BY <1>7, <2>1, <2>2 DEF IInv, Close, Counts, RefsCounted, Users, waitVars
<1>8. ASSUME NEW t \in Tasks, Cancel(t) PROVE IInv'
  <2>1. Waits'
    BY <1>8, CancelWaits DEF IInv
  <2>2. Watches'
    <3>1. /\ \A u \in Tasks : wait'[u] = "pending" => wait[u] = "pending"
          /\ \A u \in Tasks : wait'[u] = "none" => wait[u] = "none"
      BY <1>8 DEF Cancel, IInv, Waits
    <3>2. UNCHANGED <<reg, sock, need, turn, stranded>>
      BY <1>8 DEF Cancel, netVars, seen
    <3> QED
      BY <3>1, <3>2, KeepWatches DEF IInv
  <2> QED
    BY <1>8, <2>1, <2>2 DEF IInv, Cancel, Counts, RefsCounted, Users, netVars
<1>9. ASSUME NEW t \in Tasks, NEW fd \in Fds, NEW o \in Ops, Call(t, o, fd) PROVE IInv'
  BY <1>9, CallIInv
<1>10. ASSUME NEW t \in Tasks, NEW fd \in Fds, NEW conn \in Fds, AcceptAtOnce(t, fd, conn)
       PROVE  IInv'
  BY <1>10, AcceptAtOnceIInv
<1>11. ASSUME NEW fd \in Fds, NEW event \in Events, Kernel(fd, event) PROVE IInv'
  <2>1. Watches'
    BY <1>11, KeepWatches DEF IInv, Kernel, netVars, waitVars, seen
  <2>2. Waits'
    <3>1. ready' \in [Fds -> SUBSET Events]
      BY <1>11 DEF IInv, Kernel, Waits
    <3> QED
      BY <1>11, <3>1 DEF IInv, Kernel, Waits, Placed, Asked, Finished, CallbackOf,
         waitVars, loopVars, seen
  <2> QED
    BY <1>11, <2>1, <2>2 DEF IInv, Kernel, Counts, RefsCounted, Users, netVars, waitVars
<1>12. ASSUME UNCHANGED vars PROVE IInv'
  <2>1. Watches'
    BY <1>12, KeepWatches DEF IInv, vars, netVars, waitVars, seen
  <2>2. Waits'
    BY <1>12 DEF IInv, vars, Waits, Placed, Asked, Finished, CallbackOf,
       waitVars, loopVars, seen
  <2> QED
    BY <1>12, <2>1, <2>2 DEF IInv, vars, Counts, RefsCounted, Users, netVars, waitVars
<1> QED
  BY <1>1, <1>2, <1>3, <1>4, <1>5, <1>6, <1>7, <1>8, <1>9, <1>10, <1>11, <1>12
  DEF Next, LoopStep

-----------------------------------------------------------------------------
(* The theorems. *)

\* The inductive invariant: watchers and waits belong together, what select has
\* returned is older than the waits of `fresh`, and references count users.
THEOREM SpecIInv == Spec => []IInv
<1>1. Init => IInv
  BY InitIInv
<1>2. IInv /\ [Next]_vars => IInv'
  BY NextIInv
<1> QED
  BY <1>1, <1>2, PTL DEF Spec

\* Type correctness of the registry (networking.py:118-176) and of the waits.
THEOREM TypeCorrect == Spec => []TypeOK
<1>1. IInv => TypeOK
  BY DEF IInv, Watches, Waits, Counts, TypeOK
<1> QED
  BY <1>1, SpecIInv, PTL

\* For any number of tasks and descriptors: whoever waits is in the selector,
\* unless a close took its descriptor away, and nobody else is
\* (networking.py:216-234).
THEOREM WatchedWhileWaitingHolds == Spec => []WatchedWhileWaiting
<1>1. IInv => WatchedWhileWaiting
  BY DEF IInv, Watches
<1> QED
  BY <1>1, SpecIInv, PTL

\* However many tasks share a descriptor, the kernel is asked for the events of
\* all of them but one (networking.py:132).
THEOREM AtMostOneDeafHolds == Spec => []AtMostOneDeaf
<1>1. ASSUME IInv PROVE AtMostOneDeaf
  <2> SUFFICES ASSUME NEW fd \in Fds
               PROVE  Cardinality({w \in WatchersOf(reg[fd]) : Deaf(w, fd)}) <= 1
    BY DEF AtMostOneDeaf
  <2> DEFINE D == {w \in WatchersOf(reg[fd]) : Deaf(w, fd)}
  <2>1. CASE D = {}
    BY <2>1, FS_EmptySet
  <2>2. CASE D # {}
    <3>1. PICK w \in D : TRUE
      BY <2>2
    <3>2. D = {w}
      BY <1>1, <3>1 DEF IInv, Watches, DeafAreOne
    <3> QED
      BY <3>2, FS_Singleton
  <2> QED
    BY <2>1, <2>2
<1> QED
  BY <1>1, SpecIInv, PTL

\* References are those of calls in progress and of accepted connections, for
\* any number of tasks and descriptors (networking.py:299-313).
THEOREM RefsCountedHolds == Spec => []RefsCounted
<1>1. IInv => RefsCounted
  BY DEF IInv, Counts
<1> QED
  BY <1>1, SpecIInv, PTL

\* No done_cb tells a wait that is over, or one that began after its event was
\* returned (networking.py:219-226).
THEOREM ToldByItsOwnEventHolds == Spec => ToldByItsOwnEvent
<1> DEFINE A == \A t \in Tasks :
                  wait'[t] \in {"set", "failed"} /\ wait'[t] # wait[t] =>
                    wait[t] = "pending" /\ t \notin fresh
<1>1. IInv /\ [Next]_vars => [A]_vars
  <2> SUFFICES ASSUME IInv, Next, NEW t \in Tasks,
                      wait'[t] \in {"set", "failed"}, wait'[t] # wait[t]
               PROVE  wait[t] = "pending" /\ t \notin fresh
    OBVIOUS
  <2>1. CASE \E c \in batch : RunIO(c)
    <3>1. PICK c \in batch : RunIO(c)
      BY <2>1
    <3>2. Tells(t, c)
      BY <3>1 DEF RunIO
    <3> QED
      BY <3>2 DEF Tells, IInv, Waits, Asked
  <2>2. CASE wait' = wait
    BY <2>2
  <2>3. CASE \E u \in Tasks : \E o, fd, key : Suspend(u, o, fd, key)
    BY <2>3 DEF Suspend, IInv, Waits
  <2>4. CASE \E u \in Tasks : Idle(u) \/ Cancel(u)
    BY <2>4 DEF Idle, Cancel, IInv, Waits
  <2>5. \/ wait' = wait
        \/ \E c \in batch : RunIO(c)
        \/ \E u \in Tasks : \E o, fd, key : Suspend(u, o, fd, key)
        \/ \E u \in Tasks : Idle(u) \/ Cancel(u)
    <3>1. due \subseteq Tasks
      BY DEF IInv, Waits
    <3>2. ASSUME NEW u \in due, ResumeAgain(u)
          PROVE  Suspend(u, op[u], sock[u], KeyAfter(u))
      BY <3>2 DEF ResumeAgain
    <3>3. ASSUME NEW u \in Tasks, NEW o \in Ops, NEW fd \in Fds, Call(u, o, fd)
          PROVE  Suspend(u, o, fd, reg[fd])
      BY <3>3 DEF Call
    <3> QED
      BY <3>1, <3>2, <3>3 DEF Next, LoopStep, Poll, PopLate, ResumeLast, LeaveSock,
         ResumeAccepted, Close, AcceptAtOnce, Kernel, waitVars
  <2> QED
    BY <2>1, <2>2, <2>3, <2>4, <2>5
<1> QED
  BY <1>1, SpecIInv, PTL DEF Spec, ToldByItsOwnEvent
=============================================================================
