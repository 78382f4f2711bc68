-------------------------- MODULE StreamedReplies --------------------------
(***************************************************************************)
(* The streamed answers of `saragossa serve`: what each client of a batch, *)
(* or a client served alone, gets on its connection, token by token.       *)
(*                                                                         *)
(* A batch is cut into sub-batches that fit into memory.  Each is decoded  *)
(* by the light-batch loop (src/src/decoder/lightbatch.rs), which hands    *)
(* every token to `drive_batch` (src/src/serve/state.rs); that routes it   *)
(* to the SSE sink of its client (src/src/serve/http.rs, anthropic.rs) and *)
(* ends each client's answer on its own.  A sub-batch of one request takes *)
(* the solo path, `complete_streaming`, as does a request that came alone. *)
(*                                                                         *)
(* All this runs on the engine thread.  What is not known in advance is    *)
(* the environment: the tokens of the model, the errors of the decoder,    *)
(* the memory, and which writes to a socket succeed: a write that fails on *)
(* its timeout may well be followed by one that succeeds.                  *)
(***************************************************************************)
EXTENDS Integers, Sequences, SequencesExt

CONSTANTS
    N,          \* number of jobs of the largest batch
    MaxTokens,  \* largest max_tokens of a request
    Stride,     \* SARAGOSSA_RUST_LIGHTBATCH_BG_STRIDE
    Kinds       \* what the tokens of the model may do to the text of a stream

\* Show more of it; be held back (an incomplete character, the beginning of a
\* stop text); complete a stop text; be a stop token; fail to be decoded.
ASSUME KindsAssumption == Kinds \subseteq {"text", "hold", "stop", "eos", "bad"}

ASSUME SizesAssumption ==
    /\ N \in Nat \ {0}
    /\ MaxTokens \in Nat \ {0}
    /\ Stride \in Nat \ {0}

Clients == 1..N

VARIABLES
    stage,       \* what the engine thread is doing
    jobs,        \* the number of jobs: 1 is handle_job, more is handle_batch
    budget,      \* [Clients -> Nat]: PreparedRequest::max_tokens
    todo,        \* rest: the prepared requests of no sub-batch yet
    rows,        \* the current sub-batch: rows[i] is the client of stream i
    reply,       \* [Clients -> Replies]: the BatchFlux and the sink of a client
    token,       \* [Clients -> Kinds]: LightBatchStream::token
    step,        \* [Clients -> Nat]: LightBatchStream::step
    done,        \* [Clients -> BOOLEAN]: LightBatchStream::done
    grouped,     \* the duo or multi-stream step, not time slicing
    round,       \* number of the round, modulo Stride
    background,  \* background_turn
    row,         \* the next stream of this round
    live,        \* the streams of this round that are to be decoded together
    mtp,         \* solo: use_mtp
    broken       \* solo: stream_error; batch: generate returned an error

vars == <<stage, jobs, budget, todo, rows, reply, token, step, done, grouped,
          round, background, row, live, mtp, broken>>

Stages == {
    "prepare",  \* complete_streaming_batch prepares the requests
    "split",    \* cuts the next sub-batch
    "prefill",  \* lightbatch_generate prefills its streams
    "round",    \* begins a round
    "push",     \* hands the current token of stream `row` to drive_batch
    "decode",   \* decodes the streams of `live`
    "collect",  \* drive_batch ends the streams that are still open
    "start",    \* solo: complete_streaming, up to the decode loop
    "solo",     \* solo: in the decode loop
    "close",    \* solo: after the loop
    "report",   \* handle_batch, reply_on_error: the HTTP errors
    "over"}

\* What one call of a sink sends to its client: the 200 head and the first event,
\* a delta of text, the error event, the closing event with its reason and the
\* end of the stream, an HTTP error response.  A "cut" stands where a write or a
\* flush failed: any part of what was to be sent may have gone out.
Item(kind, of, n) == [kind |-> kind, of |-> of, n |-> n]
Mark(kind) == Item(kind, 0, 0)
Delta(c, n) == Item("delta", c, n)  \* the text of c's tokens up to the n-th
Marks == {"head", "error", "length", "stopped", "errorHead", "cut"}
Items == {Mark(k) : k \in Marks} \cup {Delta(c, n) : c \in Clients, n \in 1..MaxTokens}

Replies == [started: BOOLEAN,               \* BatchFlux::started, stream_started
            open: BOOLEAN,                  \* the sink's own `started`
            tokens: Seq(Kinds),             \* BatchFlux::tokens
            outcome: {"none", "ok", "err"}, \* BatchFlux::outcome
            wire: Seq(Items)]               \* what the client was sent

TypeOK ==
    /\ stage \in Stages
    /\ jobs \in Clients
    /\ budget \in [Clients -> 0..MaxTokens]
    /\ todo \in Seq(Clients)
    /\ rows \in Seq(Clients)
    /\ reply \in [Clients -> Replies]
    /\ token \in [Clients -> Kinds \cup {"none"}]
    /\ step \in [Clients -> 0..MaxTokens]
    /\ done \in [Clients -> BOOLEAN]
    /\ grouped \in BOOLEAN
    /\ round \in 0..(Stride - 1)
    /\ background \in BOOLEAN
    /\ row \in 1..(N + 1)
    /\ live \in Seq(Clients)
    /\ mtp \in BOOLEAN
    /\ broken \in BOOLEAN

NoReply == [started |-> FALSE, open |-> FALSE, tokens |-> <<>>,
            outcome |-> "none", wire |-> <<>>]

\* One job alone, or a batch, whose requests have a budget of at least one token
\* (`batchable`).  The values of a stream that is not being decoded do not matter.
Init ==
    /\ jobs \in Clients
    /\ budget \in [Clients -> 0..MaxTokens]
    /\ \A c \in Clients : IF c <= jobs THEN jobs > 1 => budget[c] > 0
                                       ELSE budget[c] = 0
    /\ todo = [i \in 1..jobs |-> i]
    /\ stage = "prepare"
    /\ rows = <<>>
    /\ reply = [c \in Clients |-> NoReply]
    /\ token = [c \in Clients |-> "none"]
    /\ step = [c \in Clients |-> 0]
    /\ done = [c \in Clients |-> FALSE]
    /\ grouped = FALSE
    /\ round = 0
    /\ background = FALSE
    /\ row = 1
    /\ live = <<>>
    /\ mtp = FALSE
    /\ broken = FALSE

-----------------------------------------------------------------------------
(* What the handlers do to one reply.  A result is the reply after the call and *)
(* whether the call returned Ok; an operator returns the set of its results.    *)

Result(f, ok) == [reply |-> f, ok |-> ok]

\* write_all and flush: all is sent, or one of them fails.
Write(f, item) == {Result([f EXCEPT !.wire = Append(@, item)], TRUE),
                   Result([f EXCEPT !.wire = Append(@, Mark("cut"))], FALSE)}

\* The event Start of a sink: it counts as started before anything is written.
SendStart(f) == Write([f EXCEPT !.open = TRUE], Mark("head"))

\* start_flux, and the same test in the MTP callback.
StartFlux(f) ==
    IF f.started THEN {Result(f, TRUE)}
    ELSE {Result([r.reply EXCEPT !.started = r.ok], r.ok) : r \in SendStart(f)}

\* CompletionSink::finish(Err): swallowed once the answer has started, else it is
\* for the caller to send.
FinishErr(f) == [f EXCEPT !.outcome = IF f.open THEN "ok" ELSE "err"]

\* CompletionSink::finish(Ok): the closing event and the end of the stream.
FinishOk(f, reason) ==
    {[r.reply EXCEPT !.outcome = IF r.ok THEN "ok" ELSE "err"] :
        r \in Write(f, Mark(reason))}

\* Go on with the replies of the results that are Ok, finish the others.
OrFail(results, Continue(_)) ==
    UNION {IF r.ok THEN Continue(r.reply) ELSE {FinishErr(r.reply)} : r \in results}

\* StreamingTextDetokenizer::push_token, of the token of kind t of client c.  The
\* text before a stop text may be new.
PushToken(f, c, t) ==
    LET g == [f EXCEPT !.tokens = Append(@, t)]
    IN  IF t = "bad" THEN {Result(g, FALSE)}
        ELSE (IF t # "hold" THEN Write(g, Delta(c, Len(g.tokens))) ELSE {})
             \cup (IF t # "text" THEN {Result(g, TRUE)} ELSE {})

\* Mutant of SendRest: what is still held back is forgotten.
ForgetRest(f, c) == {Result(f, TRUE)}

\* StreamingTextDetokenizer::finish: text still held back is sent.
SendRest(f, c) ==
    IF f.tokens # <<>> /\ Last(f.tokens) = "hold"
    THEN Write(f, Delta(c, Len(f.tokens)))
    ELSE {Result(f, TRUE)}

Stopped(f) == f.tokens # <<>> /\ Last(f.tokens) = "stop"

\* Mutant of BudgetSpent: one token too many.
BudgetExceeded(f, max) == Len(f.tokens) > max

BudgetSpent(f, max) == Len(f.tokens) >= max

\* finish_completion and detokenizer.finish, then the closing events.  The first
\* two may fail: undecodable tokens, a text that does not extend what was sent.
CloseReply(f, c, max) ==
    {FinishErr(f)} \cup
    OrFail(SendRest(f, c),
           LAMBDA g : FinishOk(g, IF BudgetSpent(g, max) /\ ~Stopped(g)
                                  THEN "length" ELSE "stopped"))

FinishFlux(f, c, max) == OrFail(StartFlux(f), LAMBDA g : CloseReply(g, c, max))

\* drive_batch's on_token: it returns true when the outcome is still "none".
OnToken(f, c, t, max) ==
    IF f.outcome # "none" THEN {f}
    ELSE OrFail(StartFlux(f), LAMBDA g :
            IF t = "eos" THEN FinishFlux(g, c, max)
            ELSE OrFail(PushToken(g, c, t), LAMBDA h :
                    IF t = "stop" \/ BudgetSpent(h, max)
                    THEN FinishFlux(h, c, max)
                    ELSE {h}))

\* Mutant of Leftover: the error event is sent to every open stream.
LeftoverTold(f, c, max) ==
    IF ~broken THEN FinishFlux(f, c, max)
    ELSE {FinishErr(r.reply) : r \in Write(f, Mark("error"))}

\* After `generate`, a stream without an outcome: it is finished, or the error of
\* the decoder is sent as an event if its answer has started.
Leftover(f, c, max) ==
    IF ~broken THEN FinishFlux(f, c, max)
    ELSE {FinishErr(r.reply) :
            r \in IF f.started THEN Write(f, Mark("error")) ELSE {Result(f, TRUE)}}

-----------------------------------------------------------------------------
(* complete_streaming_batch: the requests, then one sub-batch after the other. *)

lightVars == <<token, step, done, grouped, round, background, row, live>>
requestVars == <<jobs, budget>>

\* The requests of the jobs that are prepared, in the order of the jobs.
Prepared == {kept \in SeqOf(1..jobs, jobs) :
                \A i, j \in DOMAIN kept : i < j => kept[i] < kept[j]}

\* A request that is not valid, or whose prompt cannot be encoded, is refused; if
\* the model is not there all are.
Prepare ==
    /\ stage = "prepare"
    /\ todo' \in Prepared
    /\ reply' = [c \in Clients |-> IF c <= jobs /\ c \notin ToSet(todo')
                                  THEN FinishErr(reply[c]) ELSE reply[c]]
    /\ stage' = "split"
    /\ UNCHANGED <<requestVars, rows, lightVars, mtp, broken>>

\* Mutant of Split: the tail of split_at begins one request too late.
SplitLosesOne ==
    /\ stage = "split" /\ todo # <<>>
    /\ \E take \in 1..Len(todo) :
          /\ rows' = SubSeq(todo, 1, take)
          /\ todo' = SubSeq(todo, take + 2, Len(todo))
          /\ stage' = IF take = 1 THEN "start" ELSE "prefill"
    /\ UNCHANGED <<requestVars, reply, lightVars, mtp, broken>>

\* fitting_streams: at least one request, and as many as the memory allows.
Split ==
    /\ stage = "split" /\ todo # <<>>
    /\ \E take \in 1..Len(todo) :
          /\ rows' = SubSeq(todo, 1, take)
          /\ todo' = SubSeq(todo, take + 1, Len(todo))
          /\ stage' = IF take = 1 THEN "start" ELSE "prefill"
    /\ UNCHANGED <<requestVars, reply, lightVars, mtp, broken>>

SplitEnd ==
    /\ stage = "split" /\ todo = <<>>
    /\ stage' = "report"
    /\ row' = 1
    /\ rows' = <<>>
    /\ UNCHANGED <<requestVars, todo, reply, token, step, done, grouped, round,
                   background, live, mtp, broken>>

-----------------------------------------------------------------------------
(* lightbatch_generate, and drive_batch around it. *)

lightRest == <<requestVars, todo, rows, mtp>>

\* An error of the decoder, in a prefill or in a step, ends the whole generation.
GenerateFails ==
    /\ stage \in {"prefill", "decode"}
    /\ broken' = TRUE
    /\ stage' = "collect"
    /\ UNCHANGED <<lightRest, reply, lightVars>>

\* Every stream is prefilled and has its first token.  The duo and multi-stream
\* steps depend on the model and on the arenas.
Prefill ==
    /\ stage = "prefill"
    /\ \E t \in [ToSet(rows) -> Kinds] :
          token' = [c \in Clients |-> IF c \in ToSet(rows) THEN t[c] ELSE token[c]]
    /\ step' = [c \in Clients |-> 0]
    /\ done' = [c \in Clients |-> FALSE]
    /\ grouped' \in BOOLEAN
    /\ round' = 0
    /\ stage' = "round"
    /\ UNCHANGED <<lightRest, reply, background, row, live, broken>>

\* Mutant of BackgroundTurn: the test of the first stream is negated.
BackgroundOnlyWithFirst(r) == r = 0 /\ ~done[rows[1]]

\* In round r, do the streams other than the first have a turn?
BackgroundTurn(r) == r = 0 \/ done[rows[1]]

\* Streams other than the first get a turn every Stride rounds, or always once the
\* first is done.
BeginRound ==
    /\ stage = "round"
    /\ round' = (round + 1) % Stride
    /\ background' = BackgroundTurn(round')
    /\ row' = 1
    /\ live' = <<>>
    /\ stage' = "push"
    /\ UNCHANGED <<lightRest, reply, token, step, done, grouped, broken>>

HasTurn(c) == ~done[c] /\ (row = 1 \/ background)

SkipRow ==
    /\ stage = "push" /\ row <= Len(rows) /\ ~HasTurn(rows[row])
    /\ row' = row + 1
    /\ UNCHANGED <<stage, lightRest, reply, token, step, done, grouped, round,
                   background, live, broken>>

\* Mutant of Addressee: the rank of the stream among the live ones of this round.
LiveRank == rows[Len(live) + 1]

\* The stream that on_token is called for: LightBatchStream::index.
Addressee == rows[row]

\* What finishes a stream: its callback returns false, or its budget is spent.
Finished(f, c) == f.outcome # "none" \/ step[c] + 1 >= budget[c]

\* resolve_lightbatch_push: the callback, then the stream is finished or is to
\* be decoded, at once or with the others of this round.
Push ==
    /\ stage = "push" /\ row <= Len(rows) /\ HasTurn(rows[row])
    /\ LET c == rows[row]
       IN  \E f \in OnToken(reply[Addressee], c, token[c], budget[Addressee]) :
             /\ reply' = [reply EXCEPT ![Addressee] = f]
             /\ \/ /\ Finished(f, c)
                   /\ done' = [done EXCEPT ![c] = TRUE]
                   /\ token' = [token EXCEPT ![c] = "none"]
                   /\ UNCHANGED <<stage, live>>
                \/ /\ ~Finished(f, c)
                   /\ live' = Append(live, c)
                   /\ stage' = IF grouped THEN "push" ELSE "decode"
                   /\ UNCHANGED <<done, token>>
    /\ row' = row + 1
    /\ UNCHANGED <<lightRest, step, grouped, round, background, broken>>

\* The end of a round: decode the live streams together, or go on, or return.
EndRound ==
    /\ stage = "push" /\ row > Len(rows)
    /\ stage' = IF \A c \in ToSet(rows) : done[c] THEN "collect"
                ELSE IF live # <<>> THEN "decode" ELSE "round"
    /\ UNCHANGED <<lightRest, reply, lightVars, broken>>

\* decode_lightbatch_step or decode_lightbatch_multi_step: a token per live stream.
Decode ==
    /\ stage = "decode"
    /\ \E t \in [ToSet(live) -> Kinds] :
          token' = [c \in Clients |-> IF c \in ToSet(live) THEN t[c] ELSE token[c]]
    /\ step' = [c \in Clients |-> IF c \in ToSet(live) THEN step[c] + 1 ELSE step[c]]
    /\ live' = <<>>
    /\ stage' = IF grouped THEN "round" ELSE "push"
    /\ UNCHANGED <<lightRest, reply, done, grouped, round, background, row, broken>>

\* Mutant of Open: every stream of the sub-batch.
OpenOrNot == DOMAIN rows

\* The streams of the sub-batch that have no outcome yet, by their place in it.
Open == {i \in DOMAIN rows : reply[rows[i]].outcome = "none"}

Collect ==
    /\ stage = "collect"
    /\ \E i \in Open :
          /\ \A j \in Open : i <= j
          /\ \E f \in Leftover(reply[rows[i]], rows[i], budget[rows[i]]) :
                reply' = [reply EXCEPT ![rows[i]] = f]
    /\ UNCHANGED <<stage, lightRest, lightVars, broken>>

CollectEnd ==
    /\ stage = "collect" /\ Open = {}
    /\ broken' = FALSE
    /\ stage' = "split"
    /\ UNCHANGED <<lightRest, reply, lightVars>>

-----------------------------------------------------------------------------
(* complete_streaming, for a sub-batch of one request, then sink.finish.      *)

soloRest == <<requestVars, todo, rows, step, done, grouped, round, background,
              row, live>>

Solo == rows[1]

\* The solo request is over with the reply f.
SoloEnds(f) ==
    /\ reply' = [reply EXCEPT ![Solo] = f]
    /\ broken' = FALSE
    /\ mtp' = FALSE
    /\ stage' = "split"

\* The first token, or none to decode.
FirstToken ==
    IF budget[Solo] = 0 THEN stage' = "close" /\ UNCHANGED token
    ELSE stage' = "solo" /\ \E t \in Kinds : token' = [token EXCEPT ![Solo] = t]

\* The plain path sends Start as soon as the prompt is prefilled.
SoloStart ==
    /\ stage = "start"
    /\ \E r \in StartFlux(reply[Solo]) :
          \/ /\ r.ok
             /\ reply' = [reply EXCEPT ![Solo] = r.reply]
             /\ FirstToken
             /\ UNCHANGED <<mtp, broken>>
          \/ /\ ~r.ok
             /\ SoloEnds(FinishErr(r.reply))
             /\ UNCHANGED token
    /\ UNCHANGED soloRest

\* The speculative path prefills inside the decode loop.
SoloStartMtp ==
    /\ stage = "start"
    /\ mtp' = TRUE
    /\ FirstToken
    /\ UNCHANGED <<soloRest, reply, broken>>

\* The prefill fails, or the decoder, or the token constraint.
SoloFails ==
    /\ stage \in {"start", "solo"}
    /\ SoloEnds(FinishErr(reply[Solo]))
    /\ UNCHANGED <<soloRest, token>>

\* The callback sends Start if it has not been sent, then pushes the token.
SoloCallback(f, c, t) ==
    UNION {IF r.ok THEN PushToken(r.reply, c, t) ELSE {r} : r \in StartFlux(f)}

\* One turn of the decode loop: it ends at a stop token, at an error of the
\* callback, at a stop text or with the budget.
SoloToken ==
    /\ stage = "solo"
    /\ \/ /\ token[Solo] = "eos"
          /\ stage' = "close"
          /\ UNCHANGED <<reply, token, broken>>
       \/ /\ token[Solo] # "eos"
          /\ \E r \in SoloCallback(reply[Solo], Solo, token[Solo]) :
                /\ reply' = [reply EXCEPT ![Solo] = r.reply]
                /\ broken' = ~r.ok
                /\ IF ~r.ok \/ Stopped(r.reply) \/ BudgetSpent(r.reply, budget[Solo])
                   THEN stage' = "close" /\ UNCHANGED token
                   ELSE /\ stage' = "solo"
                        /\ \E t \in Kinds : token' = [token EXCEPT ![Solo] = t]
    /\ UNCHANGED <<soloRest, mtp>>

\* A guided request, which never comes in a batch nor takes the speculative path,
\* whose JSON is not finished: the error event.
Unfinished(f) ==
    IF jobs = 1 /\ ~mtp THEN {FinishErr(r.reply) : r \in Write(f, Mark("error"))}
    ELSE {}

\* After the loop: Start if no token was pushed (or if Start itself failed), then
\* the error of the callback, the unfinished JSON, the memory budget exceeded
\* after all text is sent, or the regular end.
SoloClose ==
    /\ stage = "close"
    /\ \E f \in OrFail(StartFlux(reply[Solo]), LAMBDA g :
                      IF broken THEN {FinishErr(g)}
                      ELSE Unfinished(g)
                           \cup {FinishErr(r.reply) : r \in SendRest(g, Solo)}
                           \cup CloseReply(g, Solo, budget[Solo])) :
          SoloEnds(f)
    /\ UNCHANGED <<soloRest, token>>

-----------------------------------------------------------------------------
(* handle_batch, reply_on_error: an outcome that is an error is answered with  *)
(* an HTTP error response; whether it can be written is not looked at.         *)

reportRest == <<requestVars, todo, rows, token, step, done, grouped, round,
                background, live, mtp, broken>>

Report ==
    /\ stage = "report" /\ row <= jobs
    /\ IF reply[row].outcome = "err"
       THEN \E r \in Write(reply[row], Mark("errorHead")) :
               reply' = [reply EXCEPT ![row] = r.reply]
       ELSE UNCHANGED reply
    /\ row' = row + 1
    /\ UNCHANGED <<stage, reportRest>>

ReportEnd ==
    /\ stage = "report" /\ row > jobs
    /\ stage' = "over"
    /\ UNCHANGED <<reply, row, reportRest>>

Work ==
    \/ Prepare
    \/ Split
    \/ SplitEnd
    \/ GenerateFails
    \/ Prefill
    \/ BeginRound
    \/ SkipRow
    \/ Push
    \/ EndRound
    \/ Decode
    \/ Collect
    \/ CollectEnd
    \/ SoloStart
    \/ SoloStartMtp
    \/ SoloFails
    \/ SoloToken
    \/ SoloClose
    \/ Report
    \/ ReportEnd

Next == Work \/ (stage = "over" /\ UNCHANGED vars)

Spec == Init /\ [][Next]_vars

\* The engine thread goes on: every step ends, writes by their timeout.
FairSpec == Spec /\ WF_vars(Work)

-----------------------------------------------------------------------------
(* What every client must be able to rely on.                                 *)

Kind(c, i) == reply[c].wire[i].kind
Sent(c) == DOMAIN reply[c].wire
Whole(c) == \A i \in Sent(c) : Kind(c, i) # "cut"

\* As long as no write to it fails, a client gets an HTTP error response and
\* nothing else, or a head, then text, then at most one closing or error event
\* and nothing after it, whatever becomes of the other streams of its batch, of
\* the decoder and of the memory.
WellFormed ==
    \A c \in Clients : Whole(c) => \A i \in Sent(c) :
        /\ i = 1 <=> Kind(c, i) \in {"head", "errorHead"}
        /\ Kind(c, i) \in {"errorHead", "error", "length", "stopped"}
             => i = Len(reply[c].wire)

\* A client only ever gets the text of its own tokens, each once and in order,
\* although the light-batch numbers the streams of a step by their rank among the
\* live ones; and it gets no text after a write that failed.
OwnText ==
    \A c \in Clients : \A i, j \in Sent(c) :
        Kind(c, j) = "delta" =>
            /\ reply[c].wire[j].of = c
            /\ i < j => /\ Kind(c, i) # "cut"
                       /\ reply[c].wire[i].n < reply[c].wire[j].n

\* A closed answer has all its text: every token shown or held back whose text
\* was not cut off by a stop text.
NothingLost ==
    \A c \in Clients :
        (\E i \in Sent(c) : Kind(c, i) \in {"length", "stopped"}) =>
            \A n \in DOMAIN reply[c].tokens :
                \/ \E i \in Sent(c) : Kind(c, i) = "delta" /\ reply[c].wire[i].n >= n
                \/ Stopped(reply[c]) /\ \A k \in n..Len(reply[c].tokens) :
                                          reply[c].tokens[k] # "text"

\* While a sub-batch is decoded, the light-batch and drive_batch agree, though
\* each counts for itself: a stream is done, and its cache released, exactly when
\* its client has its outcome, and a live one has pushed what it has decoded.
StreamsAgree ==
    stage \in {"round", "push", "decode"} =>
        \A c \in ToSet(rows) :
            /\ done[c] <=> reply[c].outcome # "none"
            /\ ~done[c] => Len(reply[c].tokens)
                             = step[c] + (IF c \in ToSet(live) THEN 1 ELSE 0)

\* The answer of a client that has its outcome is left alone, by late tokens, by an
\* error of the decoder and by the end of the batch, but for the error response
\* of an outcome that is an error.
OutcomeFinal ==
    [][\A c \in Clients : reply[c].outcome # "none" /\ reply'[c] # reply[c] =>
          /\ stage = "report" /\ reply[c].outcome = "err"
          /\ [reply'[c] EXCEPT !.wire = <<>>] = [reply[c] EXCEPT !.wire = <<>>]]_vars

\* When the engine is done with the jobs, each client has been sent something and
\* has its outcome, whatever was refused, split or failed.
AllAnswered ==
    stage = "over" =>
        \A c \in 1..jobs : reply[c].outcome # "none" /\ reply[c].wire # <<>>

\* The jobs come to an end: no stream keeps the others from finishing.
JobsEnd == <>(stage = "over")

\* What the comments of CompletionSink::finish (src/src/serve/streaming.rs) and of
\* complete_streaming_batch (src/src/serve/state.rs) say: an error that is handed
\* back has not been written, because the answer has not started.
ErrorNotWritten ==
    \A c \in Clients : reply[c].outcome = "err" => ~reply[c].open
=============================================================================
