---------------------------- MODULE MCSharedKvRows ----------------------------
(* Instances of SharedKvRows for TLC. *)
EXTENDS SharedKvRows, TLC

Symmetric == Permutations(Views) \cup Permutations(Writers)
===============================================================================
