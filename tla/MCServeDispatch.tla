-------------------------- MODULE MCServeDispatch --------------------------
(* Instances of ServeDispatch for TLC. *)
EXTENDS ServeDispatch, TLC

\* Clients are interchangeable: nothing compares them.
Clients == Permutations(Conns)
=============================================================================
