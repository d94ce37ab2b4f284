---------------------------- MODULE MCEventLoop ----------------------------
(* Model-checking instances of EventLoop; the constants are in the cfgs. *)
EXTENDS EventLoop
=============================================================================
