----------------------------- MODULE GreedyDecode -----------------------------
(***************************************************************************)
(* The plain decode loop (generate_greedy_timed_from_prefilled_state in    *)
(* src/src/decoder/generation.rs): one forward per token, each token given *)
(* to the callback before the next one is computed.  What every faster     *)
(* decode of the program promises to be equal to.                          *)
(*                                                                         *)
(* `line` is the answer the model would give if nothing stopped it: the    *)
(* token chosen after each prefix of itself.  Weights and sampling are in  *)
(* it; the loop only decides how much of it is produced.                   *)
(***************************************************************************)
EXTENDS Naturals, Sequences, SequencesExt

CONSTANTS MaxNew,        \* max_new_tokens
          Tokens,        \* the vocabulary
          StopIds,       \* options.stop_token_ids
          StopSeqs       \* options.stop_sequences

VARIABLES line,          \* the token after each prefix of the answer
          out,           \* tokens given to on_token, in order
          refused,       \* on_token returned false
          ended,         \* the call has returned
          result         \* GenerationOutput.tokens, once it has

vars == <<line, out, refused, ended, result>>

\* generated_matches_stop_sequence: the sequence ends with a stop sequence.
EndsWithStop(tokens) ==
  \E s \in StopSeqs : s # <<>> /\ IsSuffix(s, tokens)

\* The loop leaves before it would emit another token.
Over ==
  \/ refused
  \/ Len(out) = MaxNew
  \/ EndsWithStop(out)
  \/ line[Len(out) + 1] \in StopIds

Init ==
  /\ line \in [1 .. MaxNew -> Tokens]
  /\ out = <<>> /\ refused = FALSE
  /\ ended = FALSE /\ result = <<>>

\* One turn of the loop: push the token and hand it to the callback, which
\* goes on (ok) or refuses the rest.
Emit(ok) ==
  /\ ~ended /\ ~Over
  /\ out' = Append(out, line[Len(out) + 1])
  /\ refused' = ~ok
  /\ UNCHANGED <<line, ended, result>>

Return ==
  /\ ~ended /\ Over
  /\ ended' = TRUE /\ result' = out
  /\ UNCHANGED <<line, out, refused>>

Next == (\E ok \in BOOLEAN : Emit(ok)) \/ Return

Spec == Init /\ [][Next]_vars
===============================================================================
