---------------------------- MODULE Subsequences ----------------------------
(* A part of a sequence, in the order of the sequence.                      *)
EXTENDS Naturals, Sequences, FiniteSets

\* The elements of s that belong to T: the k-th is where k of them are met.
Keep(s, T) ==
    LET kept == {i \in DOMAIN s : s[i] \in T}
        ends(k) == {i \in kept : Cardinality({j \in kept : j <= i}) = k}
    IN  [k \in 1..Cardinality(kept) |-> s[CHOOSE i \in ends(k) : TRUE]]
=============================================================================
