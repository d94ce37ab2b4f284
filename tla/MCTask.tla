------------------------------- MODULE MCTask -------------------------------
(* Model-checking instances of Task. *)
EXTENDS Task, TLC

\* Safety runs only: tasks of the same kind, promises and callbacks are
\* interchangeable.
TaskSymmetry ==
  Permutations(Misuse) \cup Permutations(Tasks \ (Misuse \cup Fatal))
    \cup Permutations(Promises) \cup Permutations(Callbacks)
=============================================================================
