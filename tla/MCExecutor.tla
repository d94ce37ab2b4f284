----------------------------- MODULE MCExecutor -----------------------------
(* Model-checking instances of Executor. *)
EXTENDS Executor
=============================================================================
