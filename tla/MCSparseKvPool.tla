--------------------------- MODULE MCSparseKvPool ---------------------------
(* Instances of SparseKvPool for TLC. *)
EXTENDS SparseKvPool, TLC

\* Buffers are interchangeable: nothing compares them.
BufferSymmetry == Permutations(Buffers)
=============================================================================
