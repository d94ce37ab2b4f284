----------------------------- MODULE MCChannel -----------------------------
(* Model-checking instances of Channel. *)
EXTENDS Channel, TLC

\* Safety runs only: the users are interchangeable.
UserSymmetry == Permutations(Users)
=============================================================================
