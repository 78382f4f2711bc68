--------------------------- MODULE InferenceLine ---------------------------
(***************************************************************************)
(* What the I/O façade promises about the inference queue, without         *)
(* threads, channel or counters (src/src/serve/dispatch.rs, module comment *)
(* and `run_engine`): the waiting jobs stand in one bounded line; the      *)
(* engine always starts the first of the line, alone or with at most       *)
(* MaxStreams - 1 companions from anywhere behind it; those left keep      *)
(* their order; no job is started twice, and none is lost unless the       *)
(* engine dies.  ServeDispatch implements this specification.              *)
(***************************************************************************)
EXTENDS Naturals, Sequences, FiniteSets, Functions, Subsequences

CONSTANTS Jobs, QueueDepth, MaxStreams

VARIABLES
    up,       \* the engine has not panicked
    line,     \* the jobs waiting, first come first
    running   \* the jobs of the current turn that are not finished

vars == <<up, line, running>>

Init ==
    /\ up = TRUE
    /\ line = <<>>
    /\ running = {}

\* A job is accepted only while the line has room for it.
Join(j) ==
    /\ up /\ Len(line) < QueueDepth
    /\ j \notin Range(line) \cup running
    /\ line' = Append(line, j)
    /\ UNCHANGED <<up, running>>

\* A turn begins when the previous one is over.
Start ==
    /\ up /\ running = {} /\ line # <<>>
    /\ \E companions \in SUBSET Range(Tail(line)) :
          /\ Cardinality(companions) < MaxStreams
          /\ running' = {Head(line)} \cup companions
          /\ line' = Keep(Tail(line), Jobs \ companions)
    /\ UNCHANGED up

Finish(j) ==
    /\ up /\ j \in running
    /\ running' = running \ {j}
    /\ UNCHANGED <<up, line>>

\* The death of the engine loses every job.
Die ==
    /\ up
    /\ up' = FALSE
    /\ line' = <<>>
    /\ running' = {}

Next ==
    \/ \E j \in Jobs : Join(j) \/ Finish(j)
    \/ Start
    \/ Die

Spec == Init /\ [][Next]_vars

\* A waiting line is served, and a turn ends.
FairSpec ==
    /\ Spec
    /\ WF_vars(Start)
    /\ \A j \in Jobs : WF_vars(Finish(j))
=============================================================================
