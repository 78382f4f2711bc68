------------------------- MODULE MCSpeculativeDecode -------------------------
(* Instances of SpeculativeDecode for TLC. *)
EXTENDS SpeculativeDecode

Base == [history |-> "committed", depth |-> 2, lookup |-> 0, adaptive |-> FALSE,
         resident |-> TRUE, rows |-> TRUE, sampled |-> FALSE, overlap |-> FALSE,
         early |-> FALSE]

MCModes == {
  \* the defaults of a long and of a short prompt
  [Base EXCEPT !.adaptive = TRUE, !.lookup = 2, !.early = TRUE],
  [Base EXCEPT !.adaptive = TRUE, !.history = "fresh", !.early = TRUE],
  \* fixed depth, emission while the GPU works
  [Base EXCEPT !.depth = 1, !.overlap = TRUE, !.early = TRUE],
  [Base EXCEPT !.overlap = TRUE],
  \* the general path with captures, with a snapshot on the GPU, on the CPU
  [Base EXCEPT !.depth = 3, !.overlap = TRUE],
  [Base EXCEPT !.rows = FALSE, !.lookup = 2],
  [Base EXCEPT !.resident = FALSE, !.rows = FALSE, !.adaptive = TRUE],
  [Base EXCEPT !.resident = FALSE, !.rows = FALSE, !.history = "cycle"],
  [Base EXCEPT !.history = "cycle", !.lookup = 2],
  \* sampling, with and without the bonus row
  [Base EXCEPT !.sampled = TRUE],
  [Base EXCEPT !.sampled = TRUE, !.resident = FALSE, !.rows = FALSE, !.history = "cycle"] }

FreshModes == {[Base EXCEPT !.history = "fresh", !.adaptive = TRUE]}

MCStopSeqs == {<<"a", "b">>}
===============================================================================
