---------------------------- MODULE MCNetworking ----------------------------
(* Model-checking instances of Networking. *)
EXTENDS Networking
=============================================================================
