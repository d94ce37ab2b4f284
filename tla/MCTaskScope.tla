---------------------------- MODULE MCTaskScope ----------------------------
(* Model-checking instances of TaskScope; the constants are in the cfgs. *)
EXTENDS TaskScope
=============================================================================
