--------------------------- MODULE SpeculativeDecode ---------------------------
(***************************************************************************)
(* Decoding with drafts (generate_greedy_mtp_core and what it calls, in    *)
(* src/src/decoder: generation.rs and resident/mtp.rs).  A turn            *)
(* takes the token the model has already chosen (`pending`), has a small   *)
(* head or an n-gram table propose the next ones, runs the model over all  *)
(* of them at once, keeps those it would have chosen itself, and undoes    *)
(* the rest in every cache:                                                *)
(*   - the K/V of attention, which is cut back to a length;                *)
(*   - the recurrent state, which cannot be cut: it is restored from a     *)
(*     capture taken after each row, or from a snapshot and a replay;      *)
(*   - the K/V of the draft head, whose rows must be those of the tokens   *)
(*     kept, computed from the states of the model and not of the head.    *)
(* Three paths do it: one draft and two drafts fused with the verification *)
(* (D1, D2), and the general one.  A generation may change path each turn. *)
(*                                                                         *)
(* Tokens stand for themselves; a state is the sequence it was computed    *)
(* from; a row of the head is the number of the token it belongs to, 0 if  *)
(* it was not computed from the model's state or not from that token.      *)
(***************************************************************************)
EXTENDS Integers, Sequences, SequencesExt, FiniteSetsExt

CONSTANTS MaxNew, Tokens, StopIds, StopSeqs,   \* as in GreedyDecode
          Seeded,        \* prompt tokens but one: rows of the head at the start
          Modes          \* the configurations of a generation, see ModeAssumption

\* history:  mtp_history_policy and mtp_fresh_cache_enabled
\* depth:    max_draft_tokens;  adaptive: mtp_adaptive_depth_enabled
\* resident: the arena on the GPU is set up; rows: it verifies in one batch
\* lookup:   mtp_lookup_draft_tokens, 0 when sampling; sampled: temperature > 0
\* overlap:  emission while the GPU works; early: first token before the setup
ASSUME ModeAssumption ==
  /\ Modes \subseteq [history : {"cycle", "fresh", "committed"},
                      depth : Nat \ {0}, lookup : Nat,
                      adaptive : BOOLEAN, resident : BOOLEAN, rows : BOOLEAN,
                      sampled : BOOLEAN, overlap : BOOLEAN, early : BOOLEAN]
  /\ \A m \in Modes : /\ m.rows => m.resident
                      /\ m.sampled => m.lookup = 0
ASSUME SeedAssumption == Seeded \in Nat
ASSUME LimitAssumption == MaxNew \in Nat \ {0}
ASSUME StopAssumption == StopIds \subseteq Tokens /\ StopSeqs \subseteq Seq(Tokens)

VARIABLES
  line,        \* what the model chooses after each prefix of the answer
  mode,        \* the configuration of this generation
  phase,       \* where the loop is
  generated,   \* tokens committed
  sent,        \* tokens given to on_token, in order
  emitted,     \* how many of `generated` the loop counts as given
  goal,        \* how many may be given now
  scanned,     \* stop_scanned
  stopped,     \* stop_streaming, or early_stop
  pending,     \* the token chosen after `generated`
  state,       \* final_state
  cache,       \* CausalDecoderCache: K/V of attention, recurrent state, position
  mtp,         \* K/V of the draft head and its deferred rows
  history,     \* resident_mtp_history_len
  plan         \* the drafts of this turn: depth, and what the table found

vars == <<line, mode, phase, generated, sent, emitted, goal, scanned, stopped,
          pending, state, cache, mtp, history, plan>>

output == <<sent, emitted, stopped>>
model  == <<pending, state, cache, mtp, history>>

G == INSTANCE GreedyDecode WITH
       out <- sent, refused <- stopped, ended <- phase = "done",
       result <- IF phase = "done" THEN generated ELSE <<>>

Off == "off the line"     \* a choice nobody may look at

\* The model's choice after `context`.
Choice(context) ==
  IF Len(context) < MaxNew /\ IsPrefix(context, line)
  THEN line[Len(context) + 1] ELSE Off

-----------------------------------------------------------------------------
(* Buffers of K/V rows: a cut moves the length and keeps the rows.  The      *)
(* first `live` rows have been neither written over nor cut since they were  *)
(* put there; a cut beyond the length, an error on the CPU, brings back old  *)
(* rows on the GPU.                                                          *)

Rows(b) == SubSeq(b.rows, 1, b.len)

Cut(b, n) ==
  [b EXCEPT !.rows = @ \o [i \in 1 .. n - Len(@) |-> 0],
            !.len = n, !.live = Min({@, n})]

Put(b, new) ==
  [b EXCEPT !.rows = SubSeq(@, 1, b.len) \o new
                       \o SubSeq(@, b.len + Len(new) + 1, Len(@)),
            !.len = @ + Len(new),
            !.live = IF @ = b.len THEN b.len + Len(new) ELSE @]

(* The model.  Its context is what its caches hold, if they agree.           *)

Context(c) ==
  IF Rows(c) = c.lin /\ c.pos = Len(c.lin) THEN c.lin ELSE <<Off>>

Forward(c, tokens) ==
  [Put(c, tokens) EXCEPT !.lin = @ \o tokens, !.pos = @ + Len(tokens)]

\* The caches after the first n tokens of the batch of a verification.
After(c, tokens, n) == Forward(c, SubSeq(tokens, 1, n))

\* Mutant of CutBack: the recurrent state is not restored.
CutBackRowsOnly(c, tokens, n) ==
  [Cut(Forward(c, tokens), c.pos + n) EXCEPT !.pos = c.pos + n]

\* restore_mtp_resident_progress: keep n tokens of the batch, with captures.
CutBack(c, tokens, n) ==
  [Cut(Forward(c, tokens), c.pos + n) EXCEPT !.lin = After(c, tokens, n).lin,
                                             !.pos = c.pos + n]

\* Mutant of Replay: one token is replayed too many.
ReplayRefused(c, tokens, n) ==
  Forward([Cut(Forward(c, tokens), c.len) EXCEPT !.lin = c.lin, !.pos = c.pos],
          SubSeq(tokens, 1, n + 1))

\* restore_mtp_snapshot_replay: back to the snapshot, then n tokens again.
Replay(c, tokens, n) ==
  Forward([Cut(Forward(c, tokens), c.len) EXCEPT !.lin = c.lin, !.pos = c.pos],
          SubSeq(tokens, 1, n))

(* The draft head.  Its row for `token` after `context`.                     *)

Row(context, token) ==
  IF IsPrefix(Append(context, token), line) THEN Seeded + Len(context) + 1 ELSE 0

Fresh == mode.history = "fresh"
Kept == mode.history # "cycle"       \* mtp_history_cache.is_some()

\* Mutant of Flush: the rows left by two drafts are forgotten.
FlushForgets(m, len) == [Cut(m, len) EXCEPT !.due = <<>>]

\* encode_mtp_pending_append_rows and flush_mtp_resident_pending_append.
Flush(m, len) ==
  IF m.due = <<>> THEN Cut(m, len)
  ELSE IF m.start + Len(m.due) # len THEN [m EXCEPT !.live = -1]   \* an error
  ELSE [Put(Cut(m, m.start), m.due) EXCEPT !.due = <<>>]

\* truncate_mtp_resident_history.
Truncate(m, len) == [Cut(m, len) EXCEPT !.due = <<>>]

-----------------------------------------------------------------------------
EmptyCache == [rows |-> <<>>, len |-> 0, live |-> 0, lin |-> <<>>, pos |-> 0]
EmptyHead == [rows |-> <<>>, len |-> 0, live |-> 0, start |-> 0, due |-> <<>>]
NoPlan == [depth |-> 0, found |-> <<>>]

Init ==
  /\ line \in [1 .. MaxNew -> Tokens] /\ mode \in Modes
  /\ phase = "first"
  /\ generated = <<>> /\ sent = <<>> /\ emitted = 0 /\ goal = 0 /\ scanned = 0
  /\ stopped = FALSE
  /\ pending = Off /\ state = <<>> /\ cache = EmptyCache
  /\ mtp = EmptyHead /\ history = 0 /\ plan = NoPlan

EarlyDue == Kept /\ mode.early /\ line[1] \notin StopIds

\* The first token is emitted from the last state of the prompt, before the
\* head and the arena are prepared.
EarlyToken(ok) ==
  /\ phase = "first" /\ EarlyDue
  /\ sent' = <<line[1]>>
  /\ stopped' = ~ok
  /\ phase' = "seed"
  /\ UNCHANGED <<line, mode, generated, emitted, goal, scanned, model, plan>>

\* Refused, it is the whole answer.
EarlyReturn ==
  /\ phase = "seed" /\ stopped
  /\ generated' = sent
  /\ phase' = "done"
  /\ UNCHANGED <<line, mode, output, goal, scanned, model, plan>>

\* The head is seeded with the prompt, the first token is chosen.
Setup ==
  /\ ~stopped
  /\ phase = "seed" \/ (phase = "first" /\ ~EarlyDue)
  /\ mtp' = IF Kept THEN Put(EmptyHead, [i \in 1 .. Seeded |-> i]) ELSE EmptyHead
  /\ history' = IF Kept THEN Seeded ELSE 0
  /\ pending' = Choice(<<>>)
  /\ phase' = "scan"
  /\ UNCHANGED <<line, mode, generated, output, goal, scanned, state, cache, plan>>

\* emit_mtp_committed, one token.  Refused, the turn ends; a turn that emits
\* while the GPU works has taken a token that is then not kept.
Emit(ok) ==
  /\ phase \in {"take", "draft", "flush"} /\ emitted < goal /\ ~stopped
  /\ sent' = Append(sent, generated[emitted + 1])
  /\ emitted' = emitted + 1
  /\ stopped' = ~ok
  /\ generated' = IF ~ok /\ phase = "draft" THEN SubSeq(generated, 1, goal) ELSE generated
  /\ phase' = IF ok \/ phase = "flush" THEN phase ELSE "leave"
  /\ UNCHANGED <<line, mode, goal, scanned, model, plan>>

Ready == emitted = goal /\ ~stopped

\* Mutant of StopEnds: as the plain loop does, only at the last token.
StopEndsAtLast(tokens, from) ==
  {e \in {Len(tokens)} : e > from /\ G!EndsWithStop(tokens)}

\* first_stop_end: the ends, from `from` on, of a stop sequence.
StopEnds(tokens, from) ==
  {e \in from + 1 .. Len(tokens) : G!EndsWithStop(SubSeq(tokens, 1, e))}

UpToStop(tokens, from) ==
  IF StopEnds(tokens, from) = {} THEN tokens
  ELSE SubSeq(tokens, 1, Min(StopEnds(tokens, from)))

Greedy == ~mode.sampled

\* defer_emit
Defer ==
  /\ mode.overlap /\ emitted < Len(generated) /\ Len(generated) + 1 < MaxNew
  /\ pending \notin StopIds /\ Greedy /\ Kept

\* Head of the loop: the tokens of the last turn are searched for a stop
\* sequence before any of them is emitted.
Scan ==
  /\ phase = "scan"
  /\ \/ /\ Len(generated) >= MaxNew
        /\ phase' = "leave" /\ UNCHANGED <<generated, scanned, goal>>
     \/ /\ Len(generated) < MaxNew /\ StopEnds(generated, scanned) # {}
        /\ generated' = UpToStop(generated, scanned)
        /\ phase' = "leave" /\ UNCHANGED <<scanned, goal>>
     \/ /\ Len(generated) < MaxNew /\ StopEnds(generated, scanned) = {}
        /\ scanned' = Len(generated)
        /\ goal' = IF Defer THEN emitted ELSE Len(generated)
        /\ phase' = "take" /\ UNCHANGED generated
  /\ UNCHANGED <<line, mode, output, model, plan>>

TakeStop ==
  /\ phase = "take" /\ Ready /\ pending \in StopIds
  /\ phase' = "leave"
  /\ UNCHANGED <<line, mode, generated, output, goal, scanned, model, plan>>

\* AdaptiveDepthController::plan, whose average is left open.
Depths(left) == IF mode.adaptive THEN {1, Min({mode.depth, left})} ELSE {Min({mode.depth, MaxNew})}

\* NgramLookup::propose, whose table is left open: nothing, or up to
\* lookup_draft tokens.
Findings(left) == UNION {[1 .. n -> Tokens] : n \in 0 .. Min({mode.lookup, left})}

\* The chosen token is committed, and the drafts of the turn are planned.
Take ==
  /\ phase = "take" /\ Ready /\ pending \notin StopIds
  /\ LET now == Append(generated, pending)
         left == MaxNew - Len(now)
         given == IF Len(now) = 1 /\ sent # <<>> THEN 1 ELSE emitted
     IN /\ generated' = now
        /\ emitted' = given
        /\ IF left = 0 \/ G!EndsWithStop(now)
           THEN phase' = "leave" /\ UNCHANGED <<goal, plan>>
           ELSE /\ phase' = "draft"
                /\ goal' = IF Defer THEN Len(generated) ELSE given
                /\ \E d \in Depths(left), f \in Findings(left) :
                     plan' = [depth |-> d, found |-> f]
  /\ UNCHANGED <<line, mode, sent, stopped, scanned, model>>

-----------------------------------------------------------------------------
Primary == Last(generated)

\* What D1 and D2 ask of the configuration.
Fused == Greedy /\ Kept /\ plan.found = <<>> /\ mode.rows

DoOne == Fused /\ plan.depth = 1
DoTwo == Fused /\ plan.depth = 2 /\ MaxNew - Len(generated) >= 2

\* next_mtp_spec_one_resident: one draft, two rows verified, and the rows of
\* the head for the primary token and for the model's choice after it.
SpecOne(m, draft) ==
  LET from == IF Fresh THEN 0 ELSE history
      one == Put(Cut(m, from), <<IF Fresh THEN 0 ELSE Row(state, Primary)>>)
      tokens == <<Primary, draft>>
      after == Context(After(cache, tokens, 1))
      target == Choice(after)
      two == IF Fresh THEN one ELSE Put(one, <<Row(after, target)>>)
      keep == draft = target /\ target \notin StopIds
      both == After(cache, tokens, 2)
  IN [keep |-> keep, target |-> target,
      bonus |-> Choice(Context(both)),
      state |-> IF keep THEN Context(both) ELSE after,
      cache |-> IF keep THEN both ELSE CutBack(cache, tokens, 1),
      mtp |-> IF keep THEN two ELSE Cut(two, from + 1)]

DraftOne(draft) ==
  /\ phase = "draft" /\ Ready /\ DoOne
  /\ LET out == SpecOne(IF mode.adaptive THEN Flush(mtp, history) ELSE mtp, draft)
     IN /\ generated' = IF out.keep THEN Append(generated, draft) ELSE generated
        /\ pending' = IF ~out.keep THEN out.target
                      ELSE IF Len(generated') < MaxNew THEN out.bonus ELSE pending
        /\ cache' = out.cache /\ state' = out.state
        /\ mtp' = IF out.keep \/ Fresh THEN out.mtp
                  ELSE Truncate(out.mtp, history + 1)
        /\ history' = IF Fresh THEN history
                      ELSE history + (IF out.keep THEN 2 ELSE 1)
  /\ phase' = "scan"
  /\ UNCHANGED <<line, mode, output, goal, scanned, plan>>

\* next_mtp_spec_two_resident: two drafts, three rows verified.  The rows of
\* the head for the drafts kept are left to the next turn.
SpecTwo(drafts) ==
  LET head == Put(Flush(mtp, history), <<Row(state, Primary), 0>>)
      tokens == <<Primary>> \o drafts
      after(i) == Context(After(cache, tokens, i))
      target(i) == Choice(after(i))
      good(i) == drafts[i] = target(i) /\ target(i) \notin StopIds
      kept == IF ~good(1) THEN 0 ELSE IF ~good(2) THEN 1 ELSE 2
  IN [kept |-> kept,
      state |-> after(kept + 1), pending |-> target(kept + 1),
      cache |-> IF kept = 2 THEN Forward(cache, tokens)
                ELSE CutBack(cache, tokens, kept + 1),
      mtp |-> [Cut(head, history + 1) EXCEPT
                 !.start = history + 1,
                 !.due = [i \in 1 .. kept |-> Row(after(i), target(i))]]]

DraftTwo(drafts) ==
  /\ phase = "draft" /\ Ready /\ DoTwo
  /\ LET out == SpecTwo(drafts)
     IN /\ generated' = generated \o SubSeq(drafts, 1, out.kept)
        /\ cache' = out.cache /\ state' = out.state /\ pending' = out.pending
        /\ mtp' = out.mtp
        /\ history' = history + out.kept + 1
  /\ phase' = "scan"
  /\ UNCHANGED <<line, mode, output, goal, scanned, plan>>

-----------------------------------------------------------------------------
(* The general path.                                                         *)

\* The rows of the head's drafts.  With a finding of the table the head only
\* writes the row of the primary token.
HeadDepth == IF plan.found = <<>> THEN plan.depth ELSE IF Kept THEN 1 ELSE 0

\* start_mtp_resident_draft: the buffer the drafts are appended to.
DraftBase ==
  LET start == IF mode.resident /\ Kept THEN Flush(mtp, history) ELSE mtp
  IN IF mode.resident THEN Cut(start, IF Kept THEN history ELSE 0)
     ELSE IF Kept THEN start ELSE EmptyHead

Drafted ==
  Put(DraftBase, [i \in 1 .. HeadDepth |-> IF i = 1 THEN Row(state, Primary) ELSE 0])

\* The row of the last draft is verified too when the bonus token is drawn
\* from it.
BonusRow == mode.sampled /\ mode.rows

Verified(drafts) ==
  <<Primary>> \o (IF BonusRow THEN drafts ELSE Front(drafts))

\* verify_mtp_drafts_batched: the drafts are compared in order with the model's
\* choices, up to the first that differs, a stop token or the last token allowed.
Verify(drafts) ==
  LET tokens == Verified(drafts)
      after(i) == Context(After(cache, tokens, i))
      target(i) == Choice(after(i))
      wrong(i) == target(i) \in StopIds \/ drafts[i] # target(i)
      ends == {i \in 1 .. Len(drafts) : wrong(i) \/ Len(generated) + i >= MaxNew}
      all == ends = {}
      last == IF all THEN Len(drafts) ELSE Min(ends)
      kept == IF ~all /\ wrong(last) THEN last - 1 ELSE last
  IN [all |-> all, kept |-> kept, state |-> after(last),
      pending |-> IF ~all /\ wrong(last) THEN target(last) ELSE pending,
      rows |-> [i \in 1 .. kept |-> Row(after(i), drafts[i])],
      cache |-> IF all \/ last = Len(tokens) THEN Forward(cache, tokens)
                ELSE IF mode.rows THEN CutBack(cache, tokens, last)
                ELSE Replay(cache, tokens, last)]

\* The verification, the update of the head and the bonus token.
DraftGeneral(drafts) ==
  /\ phase = "draft" /\ Ready /\ ~DoOne /\ ~DoTwo
  /\ LET out == Verify(drafts)
         ahead == IF BonusRow THEN out.cache ELSE Forward(out.cache, <<Last(drafts)>>)
     IN /\ generated' = generated \o SubSeq(drafts, 1, out.kept)
        /\ cache' = IF out.all THEN ahead ELSE out.cache
        /\ state' = IF out.all THEN Context(ahead) ELSE out.state
        /\ pending' = IF out.all THEN Choice(Context(ahead)) ELSE out.pending
        /\ mtp' = IF Kept THEN Put(Truncate(Drafted, history + 1), out.rows)
                  ELSE Drafted
        /\ history' = IF Kept THEN history + 1 + out.kept ELSE history
  /\ phase' = "scan"
  /\ UNCHANGED <<line, mode, output, goal, scanned, plan>>

\* The drafts are those of the table, or any the head may come up with.
Drafts(n) == IF plan.found # <<>> THEN {plan.found} ELSE [1 .. n -> Tokens]

-----------------------------------------------------------------------------
\* Out of the loop: cut at a stop sequence once more, emit what is left.
Leave ==
  /\ phase = "leave"
  /\ generated' = UpToStop(generated, scanned)
  /\ goal' = IF stopped THEN goal ELSE Len(generated')
  /\ phase' = "flush"
  /\ UNCHANGED <<line, mode, output, scanned, model, plan>>

Return ==
  /\ phase = "flush" /\ (stopped \/ emitted = goal)
  /\ generated' = IF stopped /\ emitted < Len(generated)
                  THEN SubSeq(generated, 1, emitted) ELSE generated
  /\ phase' = "done"
  /\ UNCHANGED <<line, mode, output, goal, scanned, model, plan>>

\* The call has returned.
Done == phase = "done" /\ UNCHANGED vars

Next ==
  \/ \E ok \in BOOLEAN : EarlyToken(ok) \/ Emit(ok)
  \/ EarlyReturn \/ Setup \/ Scan \/ TakeStop \/ Take
  \/ \E d \in Tokens : DraftOne(d)
  \/ \E drafts \in [1 .. 2 -> Tokens] : DraftTwo(drafts)
  \/ \E drafts \in Drafts(plan.depth) : DraftGeneral(drafts)
  \/ Leave \/ Return \/ Done

Spec == Init /\ [][Next]_vars
-----------------------------------------------------------------------------
Attended(m) == IF m.due = <<>> THEN Rows(m)
           ELSE SubSeq(m.rows, 1, m.start) \o m.due

TypeOK ==
  /\ line \in [1 .. MaxNew -> Tokens] /\ mode \in Modes
  /\ phase \in {"first", "seed", "scan", "take", "draft", "leave", "flush", "done"}
  /\ generated \in Seq(Tokens) /\ sent \in Seq(Tokens)
  /\ {emitted, goal, scanned, history} \subseteq Nat /\ stopped \in BOOLEAN
  /\ pending \in Tokens \cup {Off}

\* Between two turns every kind of cache holds the committed tokens and nothing
\* else, whatever was drafted, refused or undone before: the attention rows, the
\* recurrent state and the position agree, the state the next draft starts from
\* is theirs and the pending token is what the model chooses after them.
StateExact ==
  phase \in {"scan", "take"} /\ Len(generated) < MaxNew =>
    /\ cache.live = cache.len
    /\ Rows(cache) = generated /\ cache.lin = generated /\ cache.pos = Len(generated)
    /\ state = generated /\ pending = Choice(generated)

\* With a committed history the head attends, turn after turn, exactly the rows
\* of the prompt and of the committed tokens, each computed from the model's
\* state: those still due included, and no cut ever brings back an old row.
HistoryExact ==
  phase \in {"scan", "take"} /\ mode.history = "committed" =>
    /\ mtp.live = mtp.len
    /\ Attended(mtp) = [i \in 1 .. history |-> i]
    /\ history = Seeded + Len(generated)

\* What the comment at src/src/decoder/generation.rs:1742 says the fresh mode
\* avoids: a cut beyond the rows there are brings back old rows of the head.
NoStaleRow == mtp.live = mtp.len

\* With drafts or without, what the callback is given, in what order, and what
\* the call returns are those of the plain loop, stop tokens, stop sequences
\* and refusals included.
ImplementsGreedy == G!Spec
===============================================================================
