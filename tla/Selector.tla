------------------------------- MODULE Selector -------------------------------
(***************************************************************************)
(* The registry of watched descriptors, SelectorsEventsSelector of         *)
(* src/aio/loop/pure/networking.py, over a selector of the standard        *)
(* library.  That selector keeps a key for each registered descriptor: the *)
(* events the kernel is asked for (mask) and a set of watchers, each with  *)
(* the events it needs and its callback.  Nothing keeps the two in step    *)
(* but add_watch and stop_watch.                                           *)
(***************************************************************************)
EXTENDS Naturals, FiniteSets

CONSTANTS Fds,     \* descriptors
          None     \* a descriptor that is not registered has no key

Events == {"read", "write"}

VARIABLES reg,     \* [Fds -> key or None]: get_map()
          ready    \* [Fds -> SUBSET Events]: what would not block now

IsRegistered(fd) == reg[fd] # None

WatchersOf(key) == IF key = None THEN {} ELSE key.watchers

Watcher(events, cb) == [events |-> events, cb |-> cb]

\* Faulty variants (names with a double underscore) stand before the operator
\* they spoil; the README says which property each one breaks.

\* Fault: the mask of a registered descriptor stays as it is.
Watched__SameMask(key, events, cb) ==
  IF key = None
    THEN [mask |-> events, watchers |-> {Watcher(events, cb)}]
    ELSE [key EXCEPT !.watchers = @ \cup {Watcher(events, cb)}]

\* add_watch: the key that it leaves.  For a descriptor that is registered the
\* new mask is made of the events of the watchers it had before.
Watched(key, events, cb) ==
  IF key = None
    THEN [mask |-> events, watchers |-> {Watcher(events, cb)}]
    ELSE [mask |-> UNION {w.events : w \in key.watchers},
          watchers |-> key.watchers \cup {Watcher(events, cb)}]

\* Fault: a descriptor without watchers stays registered.
Unwatched__StaysRegistered(key, events, cb) ==
  LET mine == {w \in WatchersOf(key) : w.cb = cb}
      rest == {Watcher(w.events \ events, cb) : w \in mine} \ {Watcher({}, cb)}
  IN IF key = None THEN None
     ELSE [key EXCEPT !.watchers = (@ \ mine) \cup rest]

\* stop_watch(fd, events, cb): the key that it leaves; the mask stays.  (A
\* callback watches a descriptor once at a time, for one event at least, so
\* `mine` has one element at most.)
Unwatched(key, events, cb) ==
  LET mine == {w \in WatchersOf(key) : w.cb = cb}
      rest == {Watcher(w.events \ events, cb) : w \in mine} \ {Watcher({}, cb)}
      left == (WatchersOf(key) \ mine) \cup rest
  IN IF left = {} THEN None ELSE [key EXCEPT !.watchers = left]

\* stop_watch(fd, None, None) for each of these descriptors.
Forgotten(fds) == [fd \in Fds |-> IF fd \in fds THEN None ELSE reg[fd]]

\* The standard selector's select: what the kernel was asked for and has.
Polled(fd) == IF IsRegistered(fd) THEN reg[fd].mask \cap ready[fd] ELSE {}

\* select: the callbacks to call, and whether it is with an exception.
Selected ==
  UNION {{[cb |-> w.cb, exc |-> FALSE] :
            w \in {v \in WatchersOf(reg[fd]) : v.events \cap Polled(fd) # {}}}
         : fd \in Fds}

\* select, when the poll itself raises OSError: everybody is told.
SelectFailed ==
  UNION {{[cb |-> w.cb, exc |-> TRUE] : w \in WatchersOf(reg[fd])} : fd \in Fds}
=============================================================================
