----------------------- MODULE StreamedRepliesProofs -----------------------
(***************************************************************************)
(* Proofs about the streamed answers: whatever the sizes of the batch and  *)
(* of its sub-batches, the budgets, the stride and the failures, the       *)
(* light-batch and drive_batch agree on which streams are over, each       *)
(* client is sent its own text, once and in order, in a well-formed answer *)
(* that is complete when it is closed, and an outcome is final.            *)
(***************************************************************************)
EXTENDS StreamedReplies, SequenceTheorems, TLAPS

Closings == {"length", "stopped"}
Endings == {"error"} \cup Closings
Heads == {"head", "errorHead"}

-----------------------------------------------------------------------------
(* The states of one reply f, of the client c.                               *)

HasCut(f) == \E i \in DOMAIN f.wire : f.wire[i].kind = "cut"
HasEnd(f) == \E i \in DOMAIN f.wire : f.wire[i].kind \in Endings \cup {"errorHead"}

\* OwnText of one reply.
Own(c, f) ==
    \A i, j \in DOMAIN f.wire :
        f.wire[j].kind = "delta" =>
            /\ f.wire[j].of = c
            /\ i < j => f.wire[i].kind # "cut" /\ f.wire[i].n < f.wire[j].n

\* WellFormed of one reply.
Formed(f) ==
    ~HasCut(f) => \A i \in DOMAIN f.wire :
        /\ i = 1 <=> f.wire[i].kind \in Heads
        /\ f.wire[i].kind \in {"errorHead"} \cup Endings => i = Len(f.wire)

Shown(f, n) == \E i \in DOMAIN f.wire : f.wire[i].kind = "delta" /\ f.wire[i].n >= n
NoText(f, n) == \A k \in n..Len(f.tokens) : f.tokens[k] # "text"

\* Nothing is held back: every token is shown, or cut off by a stop text.
AllShown(f) == \A n \in DOMAIN f.tokens : Shown(f, n) \/ (Stopped(f) /\ NoText(f, n))

\* NothingLost of one reply.
Complete(f) ==
    (\E i \in DOMAIN f.wire : f.wire[i].kind \in Closings) => AllShown(f)

Sound(c, f) == f \in Replies /\ Own(c, f) /\ Formed(f) /\ Complete(f)

\* No outcome yet, whatever has been written.
Failing(c, f) == Sound(c, f) /\ f.outcome = "none" /\ (f.open <=> f.wire # <<>>)

\* No outcome yet, and all that was sent has been written.
Running(c, f) ==
    /\ Failing(c, f)
    /\ f.started <=> f.open
    /\ ~HasCut(f) /\ ~HasEnd(f)
    /\ f.tokens \in Seq({"text", "hold", "stop"})
    /\ \A i \in DOMAIN f.wire : f.wire[i].n <= Len(f.tokens)

\* And what is held back has not been sent.
Ready(c, f) ==
    /\ Running(c, f)
    /\ \A n \in DOMAIN f.tokens : Shown(f, n) \/ NoText(f, n)
    /\ f.tokens # <<>> /\ Last(f.tokens) = "hold" =>
          \A i \in DOMAIN f.wire : f.wire[i].n < Len(f.tokens)

\* No outcome yet, but the answer has begun, and a write or a token has failed.
Broken(c, f) == Failing(c, f) /\ f.open /\ (f.started \/ HasCut(f))

\* It has its outcome, and the error response has not been sent.
Closed(c, f) ==
    /\ Sound(c, f)
    /\ f.outcome \in {"ok", "err"}
    /\ f.outcome = "ok" => f.wire # <<>>
    /\ f.outcome = "err" => HasCut(f) \/ f.wire = <<>>

\* The error response has been sent.
Told(c, f) == Sound(c, f) /\ f.outcome \in {"ok", "err"} /\ f.wire # <<>>

-----------------------------------------------------------------------------
(* The inductive invariant.                                                  *)

Working == {"prefill", "round", "push", "decode", "collect", "start", "solo", "close"}

\* Each request is in one place: to be decoded, or in the sub-batch.
Requests ==
    /\ \A c \in Clients : c <= jobs /\ jobs > 1 => budget[c] > 0
    /\ Len(todo) <= jobs /\ Len(rows) <= jobs
    /\ \A i \in DOMAIN todo : todo[i] <= jobs
    /\ \A i \in DOMAIN rows : rows[i] <= jobs
    /\ \A i, j \in DOMAIN todo : todo[i] = todo[j] => i = j
    /\ \A i, j \in DOMAIN rows : rows[i] = rows[j] => i = j
    /\ \A i \in DOMAIN todo, j \in DOMAIN rows : todo[i] # rows[j]

\* A request is in no sub-batch before it is prepared, and nothing is sent before
\* it is decoded.
Untouched ==
    /\ stage = "prepare" => rows = <<>> /\ live = <<>> /\ \A c \in Clients : reply[c] = NoReply
    /\ \A i \in DOMAIN todo : reply[todo[i]] = NoReply
    /\ \A i \in DOMAIN todo, k \in DOMAIN live : todo[i] # live[k]
    /\ stage \in {"report", "over"} => todo = <<>>
    /\ stage \in {"prefill", "start"} => \A i \in DOMAIN rows : reply[rows[i]] = NoReply

Reported(c) == c <= jobs /\ (stage = "over" \/ (stage = "report" /\ c < row))
Stuck(c) == stage = "close" /\ broken /\ c = rows[1]

\* What is known of each reply.
ReplyStates ==
    \A c \in Clients :
        IF reply[c].outcome = "none"
        THEN /\ Len(reply[c].tokens) <= MaxTokens
             /\ IF Stuck(c) THEN Broken(c, reply[c]) ELSE Ready(c, reply[c])
        ELSE IF Reported(c) THEN Told(c, reply[c]) ELSE Closed(c, reply[c])

\* No request is forgotten.
Pending ==
    \A c \in 1..jobs :
        \/ reply[c].outcome # "none"
        \/ c \in ToSet(todo)
        \/ stage \in Working /\ c \in ToSet(rows)

\* StreamsAgree, and what both sides know of the budget.
Decoding ==
    /\ StreamsAgree
    /\ stage \in {"round", "push", "decode"} =>
          \A c \in ToSet(rows) : ~done[c] => /\ Len(reply[c].tokens) < budget[c]
                                             /\ token[c] \in Kinds

\* The live streams are those of the round that the loop has passed.
LiveRows ==
    /\ stage \in {"push", "decode"} =>
          /\ row <= Len(rows) + 1
          /\ \A k \in DOMAIN live : \E i \in DOMAIN rows : i < row /\ live[k] = rows[i]
          /\ \A k \in DOMAIN live : ~done[live[k]]
    /\ stage \in {"prefill", "round"} =>
          \A k \in DOMAIN live, i \in DOMAIN rows : live[k] # rows[i]
    /\ stage = "prefill" => Len(rows) > 1
    /\ stage = "report" => row <= jobs + 1

\* The solo path: its request is the only one, and has room for the next token.
Alone ==
    /\ stage \in {"start", "solo", "close"} =>
          /\ Len(rows) = 1
          /\ reply[rows[1]].outcome = "none"
          /\ Len(reply[rows[1]].tokens) <= budget[rows[1]]
    /\ stage = "solo" => /\ Len(reply[rows[1]].tokens) < budget[rows[1]]
                         /\ token[rows[1]] \in Kinds
    /\ broken => stage \in {"collect", "close"}

Inv ==
    /\ TypeOK
    /\ Requests
    /\ Untouched
    /\ ReplyStates
    /\ Pending
    /\ Decoding
    /\ LiveRows
    /\ Alone

-----------------------------------------------------------------------------
(* One reply: what is written.                                               *)

Extended(f, item) == [f EXCEPT !.wire = Append(@, item)]

LEMMA MarkFacts ==
    ASSUME NEW k \in Marks
    PROVE  Mark(k) \in Items /\ Mark(k).kind = k /\ Mark(k).n = 0
BY DEF Items, Mark, Item

LEMMA DeltaFacts ==
    ASSUME NEW c \in Clients, NEW n \in 1..MaxTokens
    PROVE  /\ Delta(c, n) \in Items
           /\ Delta(c, n).kind = "delta" /\ Delta(c, n).of = c /\ Delta(c, n).n = n
BY DEF Items, Delta, Item

LEMMA ItemFacts ==
    ASSUME NEW item \in Items
    PROVE  item.kind \in Marks \cup {"delta"} /\ item.n \in Nat /\ item.n <= MaxTokens
BY SizesAssumption DEF Items, Mark, Delta, Item, Marks

LEMMA ReplyFacts ==
    ASSUME NEW f \in Replies
    PROVE  /\ f.started \in BOOLEAN /\ f.open \in BOOLEAN
           /\ f.tokens \in Seq(Kinds) /\ f.wire \in Seq(Items)
           /\ f.outcome \in {"none", "ok", "err"}
           /\ Len(f.wire) \in Nat /\ DOMAIN f.wire = 1..Len(f.wire)
           /\ Len(f.tokens) \in Nat /\ DOMAIN f.tokens = 1..Len(f.tokens)
           /\ \A i \in DOMAIN f.wire : f.wire[i] \in Items
BY DEF Replies

LEMMA ExtendedFacts ==
    ASSUME NEW f \in Replies, NEW item \in Items
    PROVE  LET g == Extended(f, item)
           IN  /\ g \in Replies
               /\ g.started = f.started /\ g.open = f.open
               /\ g.tokens = f.tokens /\ g.outcome = f.outcome
               /\ Len(g.wire) = Len(f.wire) + 1
               /\ DOMAIN g.wire = 1..(Len(f.wire) + 1)
               /\ \A i \in 1..Len(f.wire) : g.wire[i] = f.wire[i]
               /\ g.wire[Len(f.wire) + 1] = item
               /\ g.wire # <<>>
<1> DEFINE g == Extended(f, item)
           w == Append(f.wire, item)
<1>1. w \in Seq(Items) /\ Len(w) = Len(f.wire) + 1 /\ DOMAIN w = 1..(Len(f.wire) + 1)
  BY ReplyFacts
<1>2. /\ \A i \in 1..Len(f.wire) : w[i] = f.wire[i]
      /\ w[Len(f.wire) + 1] = item
      /\ w # <<>>
  BY ReplyFacts
<1>3. g.wire = w /\ g.started = f.started /\ g.open = f.open
      /\ g.tokens = f.tokens /\ g.outcome = f.outcome
  BY DEF Extended, Replies
<1>4. g \in Replies
  BY <1>1 DEF Extended, Replies
<1> HIDE DEF g, w
<1> QED
  BY <1>1, <1>2, <1>3, <1>4 DEF g

\* What is written keeps a sound reply sound when it is a text of its own, in order,
\* when only the first item is a head and none follows an end, and when it closes an
\* answer that has all its text.
LEMMA ExtendedSound ==
    ASSUME NEW c, NEW f, Sound(c, f), NEW item \in Items,
           item.kind = "delta" =>
               /\ item.of = c /\ ~HasCut(f)
               /\ \A i \in DOMAIN f.wire : f.wire[i].n < item.n,
           \/ item.kind = "cut" \/ HasCut(f)
           \/ (~HasEnd(f) /\ (item.kind \in Heads <=> f.wire = <<>>)),
           item.kind \in Closings => AllShown(f)
    PROVE  /\ Sound(c, Extended(f, item))
           /\ HasCut(Extended(f, item)) <=> (HasCut(f) \/ item.kind = "cut")
           /\ HasEnd(Extended(f, item)) <=>
                 (HasEnd(f) \/ item.kind \in Endings \cup {"errorHead"})
           /\ \A n : Shown(f, n) => Shown(Extended(f, item), n)
<1> DEFINE g == Extended(f, item)
           l == Len(f.wire)
<1>1. /\ g \in Replies /\ g.tokens = f.tokens /\ Len(g.wire) = l + 1
      /\ DOMAIN g.wire = 1..(l + 1) /\ DOMAIN f.wire = 1..l /\ l \in Nat
      /\ \A i \in 1..l : g.wire[i] = f.wire[i]
      /\ g.wire[l + 1] = item
  BY ExtendedFacts, ReplyFacts DEF Sound
<1>2. \A i \in 1..(l + 1) : i \in 1..l \/ i = l + 1
  BY <1>1
<1>3. \A i \in 1..l : i \in 1..(l + 1) /\ i # l + 1
  BY <1>1
<1>4. l + 1 \in 1..(l + 1)
  BY <1>1
<1>5. f.wire = <<>> <=> l = 0
  BY ReplyFacts DEF Sound
<1> HIDE DEF g, l
<1>6. HasCut(g) <=> (HasCut(f) \/ item.kind = "cut")
  BY <1>1, <1>2, <1>3, <1>4 DEF HasCut
<1>7. HasEnd(g) <=> (HasEnd(f) \/ item.kind \in Endings \cup {"errorHead"})
  BY <1>1, <1>2, <1>3, <1>4 DEF HasEnd
<1>8. \A n : Shown(f, n) => Shown(g, n)
  BY <1>1, <1>3 DEF Shown
<1>9. Own(c, g)
  <2> SUFFICES ASSUME NEW i \in 1..(l + 1), NEW j \in 1..(l + 1), g.wire[j].kind = "delta"
               PROVE  /\ g.wire[j].of = c
                      /\ i < j => g.wire[i].kind # "cut" /\ g.wire[i].n < g.wire[j].n
    BY <1>1 DEF Own
  <2>1. CASE j \in 1..l
    <3>1. i < j => i \in 1..l
      BY <2>1, <1>1
    <3> QED
      BY <2>1, <3>1, <1>1 DEF Sound, Own
  <2>2. CASE j = l + 1
    <3>1. i < j => i \in 1..l
      BY <2>2, <1>1
    <3> QED
      BY <2>2, <3>1, <1>1 DEF HasCut
  <2> QED
    BY <2>1, <2>2, <1>2
<1>10. Formed(g)
  <2> SUFFICES ASSUME ~HasCut(g), NEW i \in 1..(l + 1)
               PROVE  /\ i = 1 <=> g.wire[i].kind \in Heads
                      /\ g.wire[i].kind \in {"errorHead"} \cup Endings => i = l + 1
    BY <1>1 DEF Formed
  <2>1. ~HasCut(f) /\ ~HasEnd(f) /\ (item.kind \in Heads <=> l = 0)
    BY <1>5, <1>6
  <2>2. CASE i \in 1..l
    BY <2>1, <2>2, <1>1 DEF Sound, Formed, HasEnd
  <2>3. CASE i = l + 1
    BY <2>1, <2>3, <1>1
  <2> QED
    BY <2>2, <2>3, <1>2
<1>11. AllShown(f) => AllShown(g)
  BY <1>1, <1>8 DEF AllShown, Stopped, NoText
<1>12. Complete(g)
  BY <1>1, <1>2, <1>11 DEF Complete, Sound
<1> QED
  BY <1>1, <1>6, <1>7, <1>8, <1>9, <1>10, <1>12 DEF Sound, g

\* Being sound is a matter of what was written and of the tokens.
LEMMA SoundSame ==
    ASSUME NEW c, NEW f, NEW g \in Replies, Sound(c, f),
           g.wire = f.wire, g.tokens = f.tokens
    PROVE  /\ Sound(c, g)
           /\ HasCut(g) <=> HasCut(f)
           /\ HasEnd(g) <=> HasEnd(f)
           /\ \A n : Shown(g, n) <=> Shown(f, n)
           /\ \A n : NoText(g, n) <=> NoText(f, n)
BY DEF Sound, Own, Formed, Complete, AllShown, HasCut, HasEnd, Shown, NoText, Stopped

LEMMA WriteFacts ==
    ASSUME NEW c, NEW f, Sound(c, f), NEW item \in Items,
           item.kind = "delta" =>
               /\ item.of = c /\ ~HasCut(f)
               /\ \A i \in DOMAIN f.wire : f.wire[i].n < item.n,
           \/ HasCut(f)
           \/ (~HasEnd(f) /\ (item.kind \in Heads <=> f.wire = <<>>)),
           item.kind \in Closings => AllShown(f),
           NEW r \in Write(f, item)
    PROVE  /\ r.ok \in BOOLEAN
           /\ Sound(c, r.reply)
           /\ r.reply.tokens = f.tokens /\ r.reply.outcome = f.outcome
           /\ r.reply.started = f.started /\ r.reply.open = f.open
           /\ r.reply.wire # <<>>
           /\ ~r.ok => HasCut(r.reply)
           /\ r.ok => r.reply = Extended(f, item)
<1>1. f \in Replies
  BY DEF Sound
<1>2. CASE r = Result(Extended(f, item), TRUE)
  <2>1. Sound(c, Extended(f, item))
    BY ExtendedSound
  <2> QED
    BY <1>1, <1>2, <2>1, ExtendedFacts DEF Result
<1>3. CASE r = Result(Extended(f, Mark("cut")), FALSE)
  <2>1. Mark("cut") \in Items /\ Mark("cut").kind = "cut"
    BY MarkFacts DEF Marks
  <2>2. "cut" # "delta" /\ "cut" \notin Closings
    BY DEF Closings
  <2>3. Sound(c, Extended(f, Mark("cut"))) /\ HasCut(Extended(f, Mark("cut")))
    BY <2>1, <2>2, ExtendedSound
  <2> QED
    BY <1>1, <1>3, <2>1, <2>3, ExtendedFacts DEF Result
<1> QED
  BY <1>2, <1>3 DEF Write, Extended

\* An error ends a reply: swallowed once it has begun, else to be told.
LEMMA FinishErrFacts ==
    ASSUME NEW c, NEW f, Failing(c, f)
    PROVE  Closed(c, FinishErr(f)) /\ FinishErr(f).tokens = f.tokens
<1> DEFINE g == FinishErr(f)
<1>1. /\ g \in Replies /\ g.wire = f.wire /\ g.tokens = f.tokens
      /\ g.outcome = IF f.open THEN "ok" ELSE "err"
  BY DEF FinishErr, Failing, Sound, Replies
<1> HIDE DEF g
<1>2. Sound(c, g)
  BY <1>1, SoundSame DEF Failing
<1> QED
  BY <1>1, <1>2 DEF Closed, Failing, g

\* The head is the first thing a client is sent.
LEMMA StartFacts ==
    ASSUME NEW c, NEW f, Ready(c, f), NEW r \in StartFlux(f)
    PROVE  /\ r.ok \in BOOLEAN
           /\ r.reply.tokens = f.tokens
           /\ r.ok => Ready(c, r.reply) /\ r.reply.started
           /\ ~r.ok => Broken(c, r.reply)
<1>1. CASE f.started
  <2>1. r = Result(f, TRUE)
    BY <1>1 DEF StartFlux
  <2>2. r.ok = TRUE /\ r.reply = f
    BY <2>1 DEF Result
  <2> QED
    BY <1>1, <2>2
<1>2. CASE ~f.started
  <2> DEFINE e == [f EXCEPT !.open = TRUE]
  <2>1. /\ f \in Replies /\ ~f.open /\ f.wire = <<>> /\ ~HasEnd(f) /\ ~HasCut(f)
        /\ f.outcome = "none" /\ Sound(c, f)
    BY <1>2 DEF Ready, Running, Failing, Sound
  <2>2. /\ e \in Replies /\ e.wire = f.wire /\ e.tokens = f.tokens /\ e.open
        /\ e.outcome = f.outcome /\ e.started = f.started
    BY <2>1 DEF Replies
  <2> HIDE DEF e
  <2>3. Sound(c, e) /\ ~HasEnd(e) /\ ~HasCut(e)
    BY <2>1, <2>2, SoundSame
  <2>4. Mark("head") \in Items /\ Mark("head").kind = "head" /\ Mark("head").n = 0
    BY MarkFacts DEF Marks
  <2>5. PICK q \in Write(e, Mark("head")) :
            r = Result([q.reply EXCEPT !.started = q.ok], q.ok)
    BY <1>2 DEF StartFlux, SendStart, e
  <2>6. "head" \in Heads /\ "head" # "delta" /\ "head" \notin Closings
    BY DEF Heads, Closings
  <2>7. /\ q.ok \in BOOLEAN /\ Sound(c, q.reply) /\ q.reply.wire # <<>>
        /\ q.reply.tokens = f.tokens /\ q.reply.outcome = "none" /\ q.reply.open
        /\ ~q.ok => HasCut(q.reply)
        /\ q.ok => q.reply = Extended(e, Mark("head"))
    BY <2>1, <2>2, <2>3, <2>4, <2>6, WriteFacts
  <2>8. /\ r.ok = q.ok /\ r.reply \in Replies /\ r.reply.wire = q.reply.wire
        /\ r.reply.tokens = q.reply.tokens /\ r.reply.open = q.reply.open
        /\ r.reply.outcome = q.reply.outcome /\ r.reply.started = q.ok
    BY <2>5, <2>7 DEF Result, Sound, Replies
  <2>9. /\ Sound(c, r.reply) /\ (HasCut(r.reply) <=> HasCut(q.reply))
        /\ (HasEnd(r.reply) <=> HasEnd(q.reply))
        /\ \A n : Shown(r.reply, n) <=> Shown(q.reply, n)
        /\ \A n : NoText(r.reply, n) <=> NoText(q.reply, n)
    BY <2>7, <2>8, SoundSame
  <2>10. Failing(c, r.reply)
    BY <2>7, <2>8, <2>9 DEF Failing
  <2>11. ASSUME r.ok PROVE Ready(c, r.reply)
    <3>1. q.reply = Extended(e, Mark("head"))
      BY <2>7, <2>8, <2>11
    <3>2. ~HasCut(r.reply) /\ ~HasEnd(r.reply)
      BY <2>2, <2>3, <2>1, <2>4, <2>6, <2>9, <3>1, ExtendedSound DEF Endings, Closings, Heads
    <3>3. r.reply.wire = <<Mark("head")>>
      BY <2>1, <2>2, <2>8, <3>1 DEF Extended, Replies
    <3>4. Running(c, r.reply)
      BY <2>10, <2>7, <2>8, <2>11, <3>2, <3>3, <2>4, ReplyFacts DEF Running, Ready, Failing, Sound
    <3>5. \A n \in DOMAIN f.tokens : NoText(r.reply, n)
      <4>1. \A n : ~Shown(f, n)
        BY <2>1 DEF Shown
      <4>2. \A n \in DOMAIN f.tokens : NoText(f, n)
        BY <4>1 DEF Ready
      <4> QED
        BY <4>2, <2>7, <2>8 DEF NoText
    <3>6. f.tokens # <<>> /\ Last(f.tokens) = "hold" => 0 < Len(f.tokens)
      BY <2>1, ReplyFacts
    <3> QED
      BY <2>7, <2>8, <2>4, <3>3, <3>4, <3>5, <3>6 DEF Ready
  <2> QED
    BY <2>7, <2>8, <2>9, <2>10, <2>11 DEF Broken
<1> QED
  BY <1>1, <1>2

-----------------------------------------------------------------------------
(* One reply: the tokens and the end.                                        *)

\* A token that is taken leaves the reply ready, one that is not leaves it broken.
LEMMA PushFacts ==
    ASSUME NEW c \in Clients, NEW f, Ready(c, f), f.started,
           NEW t \in Kinds \ {"eos"}, Len(f.tokens) < MaxTokens,
           NEW r \in PushToken(f, c, t)
    PROVE  /\ r.ok \in BOOLEAN
           /\ Len(r.reply.tokens) = Len(f.tokens) + 1
           /\ r.reply.started
           /\ r.ok => Ready(c, r.reply)
           /\ ~r.ok => Broken(c, r.reply)
<1> DEFINE l == Len(f.tokens)
           g == [f EXCEPT !.tokens = Append(@, t)]
<1>1. /\ f \in Replies /\ Sound(c, f) /\ f.outcome = "none" /\ f.open /\ f.wire # <<>>
      /\ ~HasCut(f) /\ ~HasEnd(f) /\ l \in Nat /\ DOMAIN f.tokens = 1..l
      /\ \A i \in DOMAIN f.wire : f.wire[i].n <= l /\ f.wire[i].n \in Nat
      /\ DOMAIN f.wire = 1..Len(f.wire) /\ Len(f.wire) \in Nat
  BY ReplyFacts, ItemFacts DEF Ready, Running, Failing, Sound
<1>2. t \in {"text", "hold", "stop", "bad"}
  BY KindsAssumption
<1>3. /\ g \in Replies /\ g.wire = f.wire /\ g.open /\ g.started /\ g.outcome = "none"
      /\ g.tokens = Append(f.tokens, t)
  <2>1. Append(f.tokens, t) \in Seq(Kinds)
    BY <1>1, ReplyFacts
  <2> QED
    BY <1>1, <2>1 DEF Replies
<1>4. /\ Len(g.tokens) = l + 1 /\ DOMAIN g.tokens = 1..(l + 1) /\ g.tokens[l + 1] = t
      /\ \A n \in 1..l : g.tokens[n] = f.tokens[n]
      /\ t # "bad" => g.tokens \in Seq({"text", "hold", "stop"})
  BY <1>1, <1>2, <1>3, ReplyFacts DEF Ready, Running
<1>5. r \in (IF t = "bad" THEN {Result(g, FALSE)}
             ELSE (IF t # "hold" THEN Write(g, Delta(c, l + 1)) ELSE {})
                  \cup (IF t # "text" THEN {Result(g, TRUE)} ELSE {}))
  BY <1>4 DEF PushToken
<1> HIDE DEF g, l
<1>6. /\ HasCut(g) <=> HasCut(f)
      /\ HasEnd(g) <=> HasEnd(f)
      /\ \A n : Shown(g, n) <=> Shown(f, n)
  BY <1>3 DEF HasCut, HasEnd, Shown
<1>7. Sound(c, g)
  <2>1. Complete(g)
    BY <1>1, <1>6, <1>3 DEF Complete, HasEnd, Endings
  <2>2. Own(c, g) /\ Formed(g)
    BY <1>1, <1>3, <1>6 DEF Sound, Own, Formed
  <2> QED
    BY <1>3, <2>1, <2>2 DEF Sound
<1>8. Failing(c, g)
  BY <1>1, <1>3, <1>7 DEF Failing
<1>9. CASE r = Result(g, FALSE)
  BY <1>3, <1>4, <1>8, <1>9 DEF Result, Broken, l
<1>10. CASE t \in {"hold", "stop"} /\ r = Result(g, TRUE)
  <2>1. Running(c, g)
    <3>1. \A i \in DOMAIN g.wire : g.wire[i].n <= l + 1
      BY <1>1, <1>3
    <3>2. g.tokens \in Seq({"text", "hold", "stop"})
      BY <1>4, <1>10
    <3> QED
      BY <1>1, <1>3, <1>4, <1>6, <1>8, <3>1, <3>2 DEF Running
  <2>2. ASSUME NEW n \in 1..(l + 1) PROVE Shown(g, n) \/ NoText(g, n)
    <3>1. CASE n \in 1..l
      <4>1. Shown(f, n) \/ NoText(f, n)
        BY <1>1, <3>1 DEF Ready
      <4>2. \A k \in n..(l + 1) : k \in n..l \/ k = l + 1
        BY <1>1
      <4>3. \A k \in n..l : k \in 1..l
        BY <1>1, <3>1
      <4> QED
        BY <4>1, <4>2, <4>3, <1>4, <1>6, <1>10 DEF NoText, l
    <3>2. CASE n = l + 1
      BY <3>2, <1>1, <1>4, <1>10 DEF NoText
    <3> QED
      BY <1>1, <3>1, <3>2
  <2>3. \A i \in DOMAIN g.wire : g.wire[i].n < Len(g.tokens)
    BY <1>1, <1>3, <1>4
  <2>4. Ready(c, g)
    BY <2>1, <2>2, <2>3, <1>4 DEF Ready
  <2> QED
    BY <2>4, <1>10, <1>4, <1>3 DEF Result, l
<1>11. CASE t \in {"text", "stop"} /\ r \in Write(g, Delta(c, l + 1))
  <2> DEFINE d == Delta(c, l + 1)
  <2>1. d \in Items /\ d.kind = "delta" /\ d.of = c /\ d.n = l + 1
    BY <1>1, DeltaFacts, SizesAssumption DEF l
  <2> HIDE DEF d
  <2>2. "delta" \notin Heads /\ "delta" \notin Closings /\ "delta" # "cut"
        /\ "delta" \notin Endings \cup {"errorHead"}
    BY DEF Heads, Closings, Endings
  <2>3. \A i \in DOMAIN g.wire : g.wire[i].n < l + 1
    BY <1>1, <1>3
  <2>4. /\ r.ok \in BOOLEAN /\ Sound(c, r.reply)
        /\ r.reply.tokens = g.tokens /\ r.reply.outcome = "none"
        /\ r.reply.started /\ r.reply.open /\ r.reply.wire # <<>>
        /\ ~r.ok => HasCut(r.reply)
        /\ r.ok => r.reply = Extended(g, d)
    BY <1>1, <1>3, <1>6, <1>7, <1>11, <2>1, <2>2, <2>3, WriteFacts DEF d
  <2>5. Failing(c, r.reply)
    BY <2>4 DEF Failing
  <2>6. ASSUME r.ok PROVE Ready(c, r.reply)
    <3> DEFINE h == r.reply
               w == Len(g.wire)
    <3>1. /\ DOMAIN h.wire = 1..(w + 1) /\ h.wire[w + 1] = d
          /\ \A i \in 1..w : h.wire[i] = g.wire[i]
          /\ w \in Nat /\ DOMAIN g.wire = 1..w
      <4>1. h = Extended(g, d)
        BY <2>4, <2>6
      <4>2. /\ DOMAIN Extended(g, d).wire = 1..(w + 1)
            /\ Extended(g, d).wire[w + 1] = d
            /\ \A i \in 1..w : Extended(g, d).wire[i] = g.wire[i]
        BY <2>1, <1>3, ExtendedFacts
      <4>3. w \in Nat /\ DOMAIN g.wire = 1..w
        BY <2>1, <1>3, ReplyFacts
      <4> HIDE DEF h
      <4> QED
        BY <4>1, <4>2, <4>3
    <3>2. ~HasCut(h) /\ ~HasEnd(h)
      BY <1>1, <1>3, <1>6, <1>7, <2>1, <2>2, <2>3, <2>4, <2>6, ExtendedSound
    <3> HIDE DEF h, w
    <3>3. \A i \in DOMAIN h.wire : h.wire[i].n <= l + 1
      <4>1. \A i \in 1..(w + 1) : i \in 1..w \/ i = w + 1
        BY <3>1
      <4>2. \A i \in DOMAIN g.wire : g.wire[i].n <= l + 1
        BY <1>1, <1>3
      <4> QED
        BY <3>1, <4>1, <4>2, <2>1, <1>1
    <3>4. Running(c, h)
      BY <2>4, <2>5, <3>2, <3>3, <1>4, <1>11, <1>2 DEF Running, h
    <3>5. w + 1 \in DOMAIN h.wire
      BY <3>1
    <3>6. \A n \in 1..(l + 1) : Shown(h, n)
      BY <3>1, <3>5, <2>1, <1>1 DEF Shown
    <3>7. Last(h.tokens) # "hold"
      BY <2>4, <1>4, <1>11 DEF Last, h
    <3> QED
      BY <2>4, <3>4, <3>6, <3>7, <1>4 DEF Ready, h
  <2> QED
    BY <2>4, <2>5, <2>6, <1>4 DEF Broken, l
<1> QED
  BY <1>2, <1>5, <1>9, <1>10, <1>11

\* Text that is still held back is sent: then nothing is.
LEMMA RestFacts ==
    ASSUME NEW c \in Clients, NEW f, Ready(c, f), f.started, Len(f.tokens) <= MaxTokens,
           NEW r \in SendRest(f, c)
    PROVE  /\ r.ok \in BOOLEAN
           /\ Failing(c, r.reply) /\ r.reply.started
           /\ r.reply.tokens = f.tokens
           /\ r.ok => Running(c, r.reply) /\ AllShown(r.reply)
<1> DEFINE l == Len(f.tokens)
           d == Delta(c, l)
<1>1. /\ f \in Replies /\ Sound(c, f) /\ Failing(c, f) /\ f.outcome = "none" /\ f.open
      /\ f.wire # <<>> /\ ~HasCut(f) /\ ~HasEnd(f) /\ l \in Nat /\ DOMAIN f.tokens = 1..l
      /\ f.tokens \in Seq({"text", "hold", "stop"}) /\ (f.tokens # <<>> => l \in 1..l)
      /\ Running(c, f)
  BY ReplyFacts DEF Ready, Running, Failing, Sound
<1>2. CASE f.tokens # <<>> /\ Last(f.tokens) = "hold"
  <2>1. l \in 1..MaxTokens
    BY <1>1, <1>2, SizesAssumption
  <2>2. d \in Items /\ d.kind = "delta" /\ d.of = c /\ d.n = l
    BY <2>1, DeltaFacts
  <2>3. r \in Write(f, d)
    BY <1>2 DEF SendRest
  <2>4. \A i \in DOMAIN f.wire : f.wire[i].n < l
    BY <1>2 DEF Ready
  <2> HIDE DEF d, l
  <2>5. "delta" \notin Heads /\ "delta" \notin Closings /\ "delta" # "cut"
        /\ "delta" \notin Endings \cup {"errorHead"}
    BY DEF Heads, Closings, Endings
  <2>6. /\ r.ok \in BOOLEAN /\ Sound(c, r.reply)
        /\ r.reply.tokens = f.tokens /\ r.reply.outcome = "none"
        /\ r.reply.started /\ r.reply.open /\ r.reply.wire # <<>>
        /\ r.ok => r.reply = Extended(f, d)
    BY <1>1, <2>2, <2>3, <2>4, <2>5, WriteFacts
  <2>7. Failing(c, r.reply)
    BY <2>6 DEF Failing
  <2>8. ASSUME r.ok PROVE Running(c, r.reply) /\ AllShown(r.reply)
    <3> DEFINE h == r.reply
               w == Len(f.wire)
    <3>1. /\ DOMAIN h.wire = 1..(w + 1) /\ h.wire[w + 1] = d
          /\ \A i \in 1..w : h.wire[i] = f.wire[i]
          /\ w \in Nat /\ DOMAIN f.wire = 1..w
      <4>1. h = Extended(f, d)
        BY <2>6, <2>8
      <4>2. /\ DOMAIN Extended(f, d).wire = 1..(w + 1)
            /\ Extended(f, d).wire[w + 1] = d
            /\ \A i \in 1..w : Extended(f, d).wire[i] = f.wire[i]
        BY <2>2, <1>1, ExtendedFacts
      <4>3. w \in Nat /\ DOMAIN f.wire = 1..w
        BY <2>2, <1>1, ReplyFacts
      <4> HIDE DEF h
      <4> QED
        BY <4>1, <4>2, <4>3
    <3>2. ~HasCut(h) /\ ~HasEnd(h)
      BY <1>1, <2>2, <2>4, <2>5, <2>6, <2>8, ExtendedSound
    <3> HIDE DEF h, w
    <3>3. \A i \in DOMAIN f.wire : f.wire[i].n <= l
      BY DEF Ready, Running, l
    <3>4. \A i \in DOMAIN h.wire : h.wire[i].n <= l
      <4>1. \A i \in 1..(w + 1) : i \in 1..w \/ i = w + 1
        BY <3>1
      <4> QED
        BY <3>1, <3>3, <4>1, <2>2, <1>1
    <3>5. Running(c, h)
      BY <2>6, <2>7, <3>2, <3>4, <1>1 DEF Running, h, l
    <3>6. \A n \in 1..l : Shown(h, n)
      BY <3>1, <2>2, <1>1 DEF Shown, l
    <3> QED
      BY <2>6, <3>5, <3>6, <1>1 DEF AllShown, h, l
  <2> QED
    BY <2>6, <2>7, <2>8
<1>3. CASE ~(f.tokens # <<>> /\ Last(f.tokens) = "hold")
  <2>1. r = Result(f, TRUE)
    BY <1>3 DEF SendRest
  <2>2. r.ok = TRUE /\ r.reply = f
    BY <2>1 DEF Result
  <2>3. ASSUME NEW n \in 1..l PROVE Shown(f, n) \/ (Stopped(f) /\ NoText(f, n))
    <3>1. f.tokens # <<>> /\ l \in n..l
      BY <1>1
    <3>2. f.tokens[l] \in {"text", "stop"}
      BY <1>1, <1>3, <3>1 DEF Last
    <3>3. NoText(f, n) => Stopped(f)
      BY <3>1, <3>2 DEF NoText, Stopped, Last
    <3> QED
      BY <3>3, <1>1 DEF Ready
  <2>4. AllShown(f)
    BY <2>3, <1>1 DEF AllShown
  <2> QED
    BY <1>1, <2>2, <2>4
<1> QED
  BY <1>2, <1>3

\* The closing event, of an answer that has all its text.
LEMMA FinishOkFacts ==
    ASSUME NEW c, NEW f, Running(c, f), f.started, AllShown(f),
           NEW reason \in Closings, NEW g \in FinishOk(f, reason)
    PROVE  Closed(c, g)
<1>1. /\ f \in Replies /\ Sound(c, f) /\ ~HasCut(f) /\ ~HasEnd(f) /\ f.wire # <<>>
      /\ f.outcome = "none"
  BY DEF Running, Failing, Sound
<1>2. /\ Mark(reason) \in Items /\ Mark(reason).kind = reason
      /\ reason \notin Heads /\ reason # "delta"
  BY MarkFacts DEF Marks, Closings, Heads
<1>3. PICK r \in Write(f, Mark(reason)) :
          g = [r.reply EXCEPT !.outcome = IF r.ok THEN "ok" ELSE "err"]
  BY DEF FinishOk
<1>4. /\ r.ok \in BOOLEAN /\ Sound(c, r.reply) /\ r.reply.wire # <<>>
      /\ ~r.ok => HasCut(r.reply)
  BY <1>1, <1>2, WriteFacts
<1>5. /\ g \in Replies /\ g.wire = r.reply.wire /\ g.tokens = r.reply.tokens
      /\ g.outcome = IF r.ok THEN "ok" ELSE "err"
  BY <1>3, <1>4 DEF Sound, Replies
<1>6. Sound(c, g) /\ (HasCut(g) <=> HasCut(r.reply))
  BY <1>4, <1>5, SoundSame
<1> QED
  BY <1>4, <1>5, <1>6 DEF Closed

LEMMA CloseFacts ==
    ASSUME NEW c \in Clients, NEW f, Ready(c, f), f.started, Len(f.tokens) <= MaxTokens,
           NEW max, NEW g \in CloseReply(f, c, max)
    PROVE  Closed(c, g)
<1>1. CASE g = FinishErr(f)
  BY <1>1, FinishErrFacts DEF Ready, Running
<1>2. ASSUME NEW r \in SendRest(f, c),
             g \in IF r.ok
                   THEN FinishOk(r.reply, IF BudgetSpent(r.reply, max) /\ ~Stopped(r.reply)
                                          THEN "length" ELSE "stopped")
                   ELSE {FinishErr(r.reply)}
      PROVE  Closed(c, g)
  <2> DEFINE reason == IF BudgetSpent(r.reply, max) /\ ~Stopped(r.reply)
                       THEN "length" ELSE "stopped"
  <2>1. reason \in Closings
    BY DEF Closings
  <2> HIDE DEF reason
  <2>2. CASE r.ok
    <3>1. g \in FinishOk(r.reply, reason)
      BY <1>2, <2>2 DEF reason
    <3> QED
      BY <2>1, <2>2, <3>1, RestFacts, FinishOkFacts
  <2>3. CASE ~r.ok
    BY <1>2, <2>3, RestFacts, FinishErrFacts
  <2> QED
    BY <2>2, <2>3
<1>3. g = FinishErr(f) \/ \E r \in SendRest(f, c) :
          g \in IF r.ok
                THEN FinishOk(r.reply, IF BudgetSpent(r.reply, max) /\ ~Stopped(r.reply)
                                       THEN "length" ELSE "stopped")
                ELSE {FinishErr(r.reply)}
  BY DEF CloseReply, OrFail
<1> QED
  BY <1>1, <1>2, <1>3

LEMMA FinishFacts ==
    ASSUME NEW c \in Clients, NEW f, Ready(c, f), Len(f.tokens) <= MaxTokens,
           NEW max, NEW g \in FinishFlux(f, c, max)
    PROVE  Closed(c, g)
<1>1. PICK r \in StartFlux(f) :
          g \in IF r.ok THEN CloseReply(r.reply, c, max) ELSE {FinishErr(r.reply)}
  BY DEF FinishFlux, OrFail
<1>2. CASE r.ok
  BY <1>1, <1>2, StartFacts, CloseFacts
<1>3. CASE ~r.ok
  BY <1>1, <1>3, StartFacts, FinishErrFacts DEF Broken
<1> QED
  BY <1>2, <1>3

\* drive_batch's on_token: the reply has its outcome, or takes the token and has
\* room for another.
LEMMA OnTokenFacts ==
    ASSUME NEW c \in Clients, NEW f, Ready(c, f), NEW t \in Kinds,
           NEW max \in 0..MaxTokens, Len(f.tokens) < max,
           NEW g \in OnToken(f, c, t, max)
    PROVE  \/ Closed(c, g)
           \/ /\ Ready(c, g)
              /\ Len(g.tokens) = Len(f.tokens) + 1
              /\ Len(g.tokens) < max
<1> DEFINE Rest(h) == IF t = "stop" \/ BudgetSpent(h, max) THEN FinishFlux(h, c, max)
                      ELSE {h}
           After(h) == IF t = "eos" THEN FinishFlux(h, c, max)
                       ELSE UNION {IF r.ok THEN Rest(r.reply) ELSE {FinishErr(r.reply)} :
                                      r \in PushToken(h, c, t)}
<1>1. f.outcome = "none" /\ Len(f.tokens) \in Nat /\ Len(f.tokens) < MaxTokens
  BY ReplyFacts, SizesAssumption DEF Ready, Running, Failing, Sound
<1>2. PICK r \in StartFlux(f) : g \in IF r.ok THEN After(r.reply) ELSE {FinishErr(r.reply)}
  BY <1>1 DEF OnToken, OrFail
<1> HIDE DEF Rest, After
<1>3. CASE ~r.ok
  BY <1>2, <1>3, StartFacts, FinishErrFacts DEF Broken
<1>4. CASE r.ok
  <2>1. Ready(c, r.reply) /\ r.reply.started /\ r.reply.tokens = f.tokens
    BY <1>4, StartFacts
  <2>2. g \in After(r.reply)
    BY <1>2, <1>4
  <2>3. CASE t = "eos"
    <3>1. Len(r.reply.tokens) <= MaxTokens
      BY <1>1, <2>1, SizesAssumption
    <3>2. g \in FinishFlux(r.reply, c, max)
      BY <2>2, <2>3 DEF After
    <3> QED
      BY <2>1, <3>1, <3>2, FinishFacts
  <2>4. CASE t # "eos"
    <3>1. PICK q \in PushToken(r.reply, c, t) :
              g \in IF q.ok THEN Rest(q.reply) ELSE {FinishErr(q.reply)}
      BY <2>2, <2>4 DEF After
    <3>2. /\ q.ok \in BOOLEAN /\ Len(q.reply.tokens) = Len(f.tokens) + 1
          /\ q.ok => Ready(c, q.reply)
          /\ ~q.ok => Broken(c, q.reply)
      BY <1>1, <2>1, <2>4, PushFacts
    <3>3. CASE ~q.ok
      BY <3>1, <3>2, <3>3, FinishErrFacts DEF Broken
    <3>4. CASE q.ok
      <4>1. g \in Rest(q.reply) /\ Ready(c, q.reply) /\ Len(q.reply.tokens) <= MaxTokens
        BY <1>1, <3>1, <3>2, <3>4, SizesAssumption
      <4>2. CASE t = "stop" \/ BudgetSpent(q.reply, max)
        BY <4>1, <4>2, FinishFacts DEF Rest
      <4>3. CASE ~(t = "stop" \/ BudgetSpent(q.reply, max))
        BY <1>1, <3>2, <4>1, <4>3 DEF Rest, BudgetSpent
      <4> QED
        BY <4>2, <4>3
    <3> QED
      BY <3>2, <3>3, <3>4
  <2> QED
    BY <2>3, <2>4
<1> QED
  BY <1>3, <1>4

\* An error event, or the error alone, ends a reply.
LEMMA ErrorFacts ==
    ASSUME NEW c, NEW f, Ready(c, f), f.started, NEW r \in Write(f, Mark("error"))
    PROVE  Closed(c, FinishErr(r.reply))
<1>1. /\ f \in Replies /\ Sound(c, f) /\ ~HasCut(f) /\ ~HasEnd(f) /\ f.wire # <<>>
      /\ f.outcome = "none" /\ f.open
  BY DEF Ready, Running, Failing, Sound
<1>2. /\ Mark("error") \in Items /\ Mark("error").kind = "error"
      /\ "error" \notin Heads /\ "error" # "delta" /\ "error" \notin Closings
  BY MarkFacts DEF Marks, Closings, Heads
<1>3. /\ Sound(c, r.reply) /\ r.reply.wire # <<>> /\ r.reply.open
      /\ r.reply.outcome = "none"
  BY <1>1, <1>2, WriteFacts
<1> QED
  BY <1>3, FinishErrFacts DEF Failing

LEMMA LeftoverFacts ==
    ASSUME NEW c \in Clients, NEW f, Ready(c, f), Len(f.tokens) <= MaxTokens,
           NEW max, NEW g \in Leftover(f, c, max)
    PROVE  Closed(c, g)
<1>1. CASE ~broken
  BY <1>1, FinishFacts DEF Leftover
<1>2. CASE broken /\ f.started
  BY <1>2, ErrorFacts DEF Leftover
<1>3. CASE broken /\ ~f.started
  <2>1. g = FinishErr(f)
    BY <1>3 DEF Leftover, Result
  <2> QED
    BY <2>1, FinishErrFacts DEF Ready, Running
<1> QED
  BY <1>1, <1>2, <1>3

\* The callback of the solo path: the token is taken, or the answer is broken.
LEMMA CallbackFacts ==
    ASSUME NEW c \in Clients, NEW f, Ready(c, f), NEW t \in Kinds \ {"eos"},
           Len(f.tokens) < MaxTokens, NEW r \in SoloCallback(f, c, t)
    PROVE  /\ r.ok \in BOOLEAN
           /\ Len(r.reply.tokens) \in {Len(f.tokens), Len(f.tokens) + 1}
           /\ r.ok => Ready(c, r.reply)
           /\ ~r.ok => Broken(c, r.reply)
<1>1. PICK q \in StartFlux(f) : r \in IF q.ok THEN PushToken(q.reply, c, t) ELSE {q}
  BY DEF SoloCallback
<1>2. /\ q.ok \in BOOLEAN /\ q.reply.tokens = f.tokens
      /\ q.ok => Ready(c, q.reply) /\ q.reply.started
      /\ ~q.ok => Broken(c, q.reply)
  BY StartFacts
<1>3. CASE q.ok
  <2>1. r \in PushToken(q.reply, c, t) /\ Len(q.reply.tokens) < MaxTokens
    BY <1>1, <1>2, <1>3
  <2> QED
    BY <1>2, <1>3, <2>1, PushFacts
<1>4. CASE ~q.ok
  BY <1>1, <1>2, <1>4
<1> QED
  BY <1>2, <1>3, <1>4

\* What SoloClose makes of the reply.
Closes(f, c, max) ==
    OrFail(StartFlux(f), LAMBDA g :
        IF broken THEN {FinishErr(g)}
        ELSE Unfinished(g)
             \cup {FinishErr(r.reply) : r \in SendRest(g, c)}
             \cup CloseReply(g, c, max))

LEMMA ClosesFacts ==
    ASSUME NEW c \in Clients, NEW f, Len(f.tokens) <= MaxTokens,
           IF broken THEN Broken(c, f) ELSE Ready(c, f),
           NEW max, NEW g \in Closes(f, c, max)
    PROVE  Closed(c, g)
<1> DEFINE After(h) == IF broken THEN {FinishErr(h)}
                       ELSE Unfinished(h)
                            \cup {FinishErr(r.reply) : r \in SendRest(h, c)}
                            \cup CloseReply(h, c, max)
<1>1. PICK q \in StartFlux(f) : g \in IF q.ok THEN After(q.reply) ELSE {FinishErr(q.reply)}
  BY DEF Closes, OrFail
<1> HIDE DEF After
<1>2. CASE broken
  <2>1. Broken(c, f) /\ g = FinishErr(q.reply)
    BY <1>1, <1>2 DEF After
  <2>2. CASE f.started
    <3>1. q = Result(f, TRUE)
      BY <2>2 DEF StartFlux
    <3>2. q.reply = f
      BY <3>1 DEF Result
    <3> QED
      BY <2>1, <3>2, FinishErrFacts DEF Broken
  <2>3. CASE ~f.started
    <3> DEFINE e == [f EXCEPT !.open = TRUE]
    <3>1. /\ f \in Replies /\ f.open /\ HasCut(f) /\ f.outcome = "none" /\ Sound(c, f)
      BY <2>1, <2>3 DEF Broken, Failing, Sound
    <3>2. e = f
      BY <3>1 DEF Replies
    <3>3. PICK p \in Write(f, Mark("head")) :
              q = Result([p.reply EXCEPT !.started = p.ok], p.ok)
      BY <2>3, <3>2 DEF StartFlux, SendStart
    <3>4. /\ Mark("head") \in Items /\ Mark("head").kind = "head"
          /\ "head" # "delta" /\ "head" \notin Closings
      BY MarkFacts DEF Marks, Closings
    <3>5. /\ p.ok \in BOOLEAN /\ Sound(c, p.reply) /\ p.reply.open
          /\ p.reply.outcome = "none" /\ p.reply.wire # <<>>
      BY <3>1, <3>4, WriteFacts
    <3>6. /\ q.reply \in Replies /\ q.reply.wire = p.reply.wire /\ q.reply.open
          /\ q.reply.tokens = p.reply.tokens /\ q.reply.outcome = "none"
      BY <3>3, <3>5 DEF Result, Sound, Replies
    <3>7. Failing(c, q.reply)
      BY <3>5, <3>6, SoundSame DEF Failing
    <3> QED
      BY <2>1, <3>7, FinishErrFacts
  <2> QED
    BY <2>2, <2>3
<1>3. CASE ~broken /\ ~q.ok
  <2>1. g = FinishErr(q.reply) /\ Broken(c, q.reply)
    BY <1>1, <1>3, StartFacts
  <2> QED
    BY <2>1, FinishErrFacts DEF Broken
<1>4. CASE ~broken /\ q.ok
  <2>1. Ready(c, q.reply) /\ q.reply.started /\ Len(q.reply.tokens) <= MaxTokens
    BY <1>4, StartFacts
  <2>2. g \in Unfinished(q.reply) \cup {FinishErr(r.reply) : r \in SendRest(q.reply, c)}
             \cup CloseReply(q.reply, c, max)
    BY <1>1, <1>4 DEF After
  <2>3. CASE g \in Unfinished(q.reply)
    <3>1. PICK r \in Write(q.reply, Mark("error")) : g = FinishErr(r.reply)
      BY <2>3 DEF Unfinished
    <3> QED
      BY <2>1, <3>1, ErrorFacts
  <2>4. CASE \E r \in SendRest(q.reply, c) : g = FinishErr(r.reply)
    BY <2>1, <2>4, RestFacts, FinishErrFacts
  <2>5. CASE g \in CloseReply(q.reply, c, max)
    BY <2>1, <2>5, CloseFacts
  <2> QED
    BY <2>2, <2>3, <2>4, <2>5
<1> QED
  BY <1>1, <1>2, <1>3, <1>4, StartFacts

\* The error response, to a client that has been sent nothing, or whose answer is cut.
LEMMA ReportFacts ==
    ASSUME NEW c, NEW f, Closed(c, f), f.outcome = "err",
           NEW r \in Write(f, Mark("errorHead"))
    PROVE  /\ Told(c, r.reply)
           /\ r.reply.outcome = f.outcome
           /\ [r.reply EXCEPT !.wire = <<>>] = [f EXCEPT !.wire = <<>>]
<1>1. f \in Replies /\ Sound(c, f) /\ (HasCut(f) \/ (f.wire = <<>> /\ ~HasEnd(f)))
  BY DEF Closed, Sound, HasEnd
<1>2. /\ Mark("errorHead") \in Items /\ Mark("errorHead").kind = "errorHead"
      /\ "errorHead" \in Heads /\ "errorHead" # "delta" /\ "errorHead" \notin Closings
  BY MarkFacts DEF Marks, Closings, Heads
<1>3. /\ Sound(c, r.reply) /\ r.reply.wire # <<>> /\ r.reply.outcome = f.outcome
  BY <1>1, <1>2, WriteFacts
<1>4. \/ r.reply = Extended(f, Mark("errorHead"))
      \/ r.reply = Extended(f, Mark("cut"))
  <2>1. \/ r = Result(Extended(f, Mark("errorHead")), TRUE)
        \/ r = Result(Extended(f, Mark("cut")), FALSE)
    BY DEF Write, Extended
  <2> QED
    BY <2>1 DEF Result
<1>5. [r.reply EXCEPT !.wire = <<>>] = [f EXCEPT !.wire = <<>>]
  BY <1>1, <1>4 DEF Extended, Replies
<1> QED
  BY <1>3, <1>5 DEF Told

\* Before anything is done for it, a reply is ready.
LEMMA NoReplyFacts ==
    ASSUME NEW c
    PROVE  /\ Ready(c, NoReply) /\ NoReply.tokens = <<>> /\ NoReply.outcome = "none"
           /\ ~NoReply.open
<1>1. /\ NoReply \in Replies /\ NoReply.tokens = <<>> /\ NoReply.outcome = "none"
      /\ NoReply.wire = <<>> /\ ~NoReply.open /\ ~NoReply.started
  BY DEF NoReply, Replies
<1>2. /\ ~HasCut(NoReply) /\ ~HasEnd(NoReply)
  BY <1>1 DEF HasCut, HasEnd
<1>3. Sound(c, NoReply)
  BY <1>1 DEF Sound, Own, Formed, Complete
<1>4. Running(c, NoReply)
  BY <1>1, <1>2, <1>3 DEF Running, Failing
<1> QED
  BY <1>1, <1>4 DEF Ready

-----------------------------------------------------------------------------
(* The invariant, action by action.                                          *)

LEMMA InvFacts ==
    ASSUME Inv
    PROVE  /\ N \in Nat /\ jobs \in Nat /\ 1 <= jobs /\ jobs <= N
           /\ \A c \in Clients : budget[c] \in 0..MaxTokens /\ budget[c] \in Nat
           /\ MaxTokens \in Nat
           /\ Len(todo) \in Nat /\ DOMAIN todo = 1..Len(todo)
           /\ Len(rows) \in Nat /\ DOMAIN rows = 1..Len(rows)
           /\ Len(live) \in Nat /\ DOMAIN live = 1..Len(live)
           /\ \A i \in DOMAIN todo : todo[i] \in Clients
           /\ \A i \in DOMAIN rows : rows[i] \in Clients
           /\ \A i \in DOMAIN live : live[i] \in Clients
           /\ reply \in [Clients -> Replies]
           /\ \A c \in Clients : /\ reply[c].outcome \in {"none", "ok", "err"}
                                 /\ Len(reply[c].tokens) \in Nat
<1> USE DEF Inv, TypeOK
<1>1. N \in Nat /\ jobs \in Nat /\ 1 <= jobs /\ jobs <= N /\ MaxTokens \in Nat
  BY SizesAssumption DEF Clients
<1>2. \A c \in Clients : budget[c] \in 0..MaxTokens /\ budget[c] \in Nat
  BY <1>1
<1>3. \A c \in Clients : reply[c].outcome \in {"none", "ok", "err"} /\ Len(reply[c].tokens) \in Nat
  BY ReplyFacts
<1> QED
  BY <1>1, <1>2, <1>3

\* Replies that nothing is done to, in steps that neither close nor report.
LEMMA RepliesKept ==
    ASSUME ReplyStates, UNCHANGED reply,
           \A c \in Clients : (Stuck(c)' <=> Stuck(c)) /\ (Reported(c)' <=> Reported(c))
    PROVE  ReplyStates'
<1> SUFFICES ASSUME NEW c \in Clients
             PROVE  IF reply'[c].outcome = "none"
                    THEN /\ Len(reply'[c].tokens) <= MaxTokens
                         /\ IF Stuck(c)' THEN Broken(c, reply[c])' ELSE Ready(c, reply[c])'
                    ELSE IF Reported(c)' THEN Told(c, reply[c])' ELSE Closed(c, reply[c])'
  BY DEF ReplyStates
<1> USE DEF Sound, Own, Formed, Complete, AllShown, HasCut, HasEnd, Shown, NoText,
            Stopped
<1>1. Broken(c, reply[c])' <=> Broken(c, reply[c])
  BY ONLY UNCHANGED reply DEF Broken, Failing
<1>2. Ready(c, reply[c])' <=> Ready(c, reply[c])
  BY ONLY UNCHANGED reply DEF Ready, Running, Failing
<1>3. Told(c, reply[c])' <=> Told(c, reply[c])
  BY ONLY UNCHANGED reply DEF Told
<1>4. Closed(c, reply[c])' <=> Closed(c, reply[c])
  BY ONLY UNCHANGED reply DEF Closed
<1> QED
  BY <1>1, <1>2, <1>3, <1>4 DEF ReplyStates

LEMMA InitInv == Init => Inv
<1> SUFFICES ASSUME Init PROVE Inv
  OBVIOUS
<1> USE DEF Init
<1>1. N \in Nat /\ jobs \in Nat /\ 1 <= jobs /\ jobs <= N /\ Stride \in Nat \ {0}
      /\ MaxTokens \in Nat
  BY SizesAssumption DEF Clients
<1>2. todo \in Seq(Clients) /\ Len(todo) = jobs /\ DOMAIN todo = 1..jobs
  BY <1>1 DEF Clients
<1>3. NoReply \in Replies
  BY NoReplyFacts DEF Ready, Running, Failing, Sound
<1>4. TypeOK
  <2>1. row \in 1..(N + 1) /\ round \in 0..(Stride - 1)
    BY <1>1
  <2>2. <<>> \in Seq(Clients)
    OBVIOUS
  <2>3. /\ reply \in [Clients -> Replies]
        /\ token \in [Clients -> Kinds \cup {"none"}]
        /\ step \in [Clients -> 0..MaxTokens]
        /\ done \in [Clients -> BOOLEAN]
    BY <1>1, <1>3
  <2> QED
    BY <1>2, <2>1, <2>2, <2>3 DEF TypeOK, Stages
<1>5. Requests
  BY <1>1, <1>2 DEF Requests, Clients
<1>6. Untouched
  BY <1>1, <1>2 DEF Untouched, Clients
<1>7. ReplyStates
  <2>1. NoReply.tokens = <<>> /\ NoReply.outcome = "none"
    BY NoReplyFacts
  <2>2. Len(NoReply.tokens) <= MaxTokens
    BY <1>1, <2>1
  <2> QED
    BY <2>1, <2>2, NoReplyFacts DEF ReplyStates, Stuck
<1>8. Pending
  BY <1>1, <1>2 DEF Pending, ToSet
<1>9. Decoding /\ LiveRows /\ Alone
  BY DEF Decoding, LiveRows, Alone, StreamsAgree
<1> QED
  BY <1>4, <1>5, <1>6, <1>7, <1>8, <1>9 DEF Inv

LEMMA PrepareInv == Inv /\ Prepare => Inv'
<1> SUFFICES ASSUME Inv, Prepare PROVE Inv'
  OBVIOUS
<1> USE DEF Prepare, requestVars, lightVars
<1>1. stage = "prepare" /\ stage' = "split" /\ ~broken /\ ~broken'
  BY DEF Inv, Alone
<1>2. PICK m \in 0..jobs : todo' \in [1..m -> 1..jobs]
  BY DEF Prepared, SeqOf
<1>3. /\ todo' \in Seq(Clients) /\ Len(todo') = m /\ DOMAIN todo' = 1..m
      /\ \A i \in 1..m : todo'[i] \in 1..jobs
  BY <1>2, InvFacts DEF Clients
<1>4. \A i, j \in 1..m : todo'[i] = todo'[j] => i = j
  BY <1>2, <1>3 DEF Prepared
<1>5. rows = <<>> /\ live = <<>> /\ \A c \in Clients : reply[c] = NoReply
  BY <1>1 DEF Inv, Untouched
<1>6. \A c \in Clients : reply'[c] = IF c <= jobs /\ c \notin ToSet(todo')
                                     THEN FinishErr(NoReply) ELSE NoReply
  BY <1>5
<1>7. \A c : Closed(c, FinishErr(NoReply))
  BY NoReplyFacts, FinishErrFacts DEF Ready, Running
<1>8. TypeOK'
  <2>1. NoReply \in Replies /\ FinishErr(NoReply) \in Replies
    BY <1>7, NoReplyFacts DEF Closed, Ready, Running, Failing, Sound
  <2>2. reply' \in [Clients -> Replies]
    BY <1>5, <2>1
  <2> QED
    BY <1>1, <1>3, <2>2 DEF Inv, TypeOK, Stages
<1>9. Requests'
  BY <1>2, <1>3, <1>4, <1>5, InvFacts DEF Inv, Requests
<1>10. Untouched'
  BY <1>1, <1>3, <1>5, <1>6, InvFacts DEF Untouched, ToSet, Clients
<1>11. ReplyStates'
  <2>1. \A c \in Clients : ~Stuck(c)' /\ ~Reported(c)'
    BY <1>1 DEF Stuck, Reported
  <2> SUFFICES ASSUME NEW c \in Clients
               PROVE  IF reply'[c].outcome = "none"
                      THEN Len(reply'[c].tokens) <= MaxTokens /\ Ready(c, reply'[c])
                      ELSE Closed(c, reply'[c])
    BY <2>1 DEF ReplyStates
  <2>2. NoReply.tokens = <<>> /\ NoReply.outcome = "none"
    BY NoReplyFacts
  <2>3. Len(NoReply.tokens) <= MaxTokens
    BY <2>2, InvFacts
  <2> QED
    BY <1>6, <1>7, <2>2, <2>3, NoReplyFacts DEF Closed
<1>12. Pending'
  <2> SUFFICES ASSUME NEW c \in 1..jobs, c \notin ToSet(todo')
               PROVE  reply'[c].outcome # "none"
    BY DEF Pending
  <2>1. c \in Clients /\ c <= jobs
    BY InvFacts DEF Clients
  <2> QED
    BY <2>1, <1>6, <1>7 DEF Closed
<1>13. Decoding' /\ LiveRows' /\ Alone'
  BY <1>1 DEF Decoding, LiveRows, Alone, StreamsAgree
<1> QED
  BY <1>8, <1>9, <1>10, <1>11, <1>12, <1>13 DEF Inv

\* What is left of a sequence without its first elements.
LEMMA TailFacts ==
    ASSUME NEW S, NEW s \in Seq(S), NEW t \in 0..Len(s)
    PROVE  LET u == SubSeq(s, t + 1, Len(s))
           IN  /\ u \in Seq(S) /\ Len(u) = Len(s) - t
               /\ \A i \in 1..(Len(s) - t) : u[i] = s[t + i]
<1> DEFINE l == Len(s)
           u == SubSeq(s, t + 1, l)
<1>1. l \in Nat /\ t \in Nat /\ t <= l /\ t + 1 \in Int /\ l \in Int
  OBVIOUS
<1>2. \A i \in (t + 1)..l : s[i] \in S
  BY <1>1
<1> HIDE DEF l
<1>3. /\ u \in Seq(S)
      /\ Len(u) = IF t + 1 <= l THEN l - (t + 1) + 1 ELSE 0
      /\ \A i \in 1..(l - (t + 1) + 1) : u[i] = s[t + 1 + i - 1]
  BY <1>1, <1>2, SubSeqProperties
<1> HIDE DEF u
<1>4. Len(u) = l - t
  BY <1>1, <1>3
<1>5. \A i \in 1..(l - t) : i \in 1..(l - (t + 1) + 1) /\ t + 1 + i - 1 = t + i
  BY <1>1
<1>6. \A i \in 1..(l - t) : u[i] = s[t + i]
  BY <1>3, <1>5
<1> QED
  BY <1>3, <1>4, <1>6 DEF u, l

LEMMA SplitInv == Inv /\ Split => Inv'
<1> SUFFICES ASSUME Inv, Split PROVE Inv'
  OBVIOUS
<1> USE DEF Split, requestVars, lightVars
<1>1. PICK take \in 1..Len(todo) :
          /\ rows' = SubSeq(todo, 1, take)
          /\ todo' = SubSeq(todo, take + 1, Len(todo))
          /\ stage' = IF take = 1 THEN "start" ELSE "prefill"
  OBVIOUS
<1> DEFINE l == Len(todo)
<1>2. /\ l \in Nat /\ take \in Nat /\ take <= l /\ 1 <= take /\ l <= jobs
      /\ jobs \in Nat /\ stage = "split" /\ DOMAIN todo = 1..l
  BY InvFacts DEF Inv, Requests
<1>3. /\ rows' \in Seq(Clients) /\ Len(rows') = take /\ DOMAIN rows' = 1..take
      /\ \A i \in 1..take : rows'[i] = todo[i] /\ i \in DOMAIN todo
  <2>1. \A i \in 1..take : i \in DOMAIN todo
    BY <1>2
  <2>2. \A i \in 1..take : todo[i] \in Clients
    BY <2>1, InvFacts
  <2>3. /\ rows' \in Seq(Clients) /\ Len(rows') = take - 1 + 1
        /\ \A i \in 1..(take - 1 + 1) : rows'[i] = todo[1 + i - 1]
    BY <1>1, <1>2, <2>2, SubSeqProperties
  <2> QED
    BY <1>2, <2>1, <2>3
<1>4. /\ todo' \in Seq(Clients) /\ Len(todo') = l - take /\ DOMAIN todo' = 1..(l - take)
      /\ \A i \in 1..(l - take) : todo'[i] = todo[take + i] /\ take + i \in DOMAIN todo
  <2>1. \A i \in 1..(l - take) : take + i \in DOMAIN todo
    BY <1>2
  <2>2. todo \in Seq(Clients) /\ take \in 0..Len(todo)
    BY <1>2 DEF Inv, TypeOK
  <2>3. /\ todo' \in Seq(Clients) /\ Len(todo') = l - take
        /\ \A i \in 1..(l - take) : todo'[i] = todo[take + i]
    BY <1>1, <2>2, TailFacts
  <2>4. DOMAIN todo' = 1..(l - take)
    BY <2>3, LenProperties
  <2> HIDE DEF l
  <2> QED
    BY <2>1, <2>3, <2>4
<1> HIDE DEF l
<1>5. /\ ~broken /\ stage' \in {"start", "prefill"}
      /\ \A i \in DOMAIN todo : reply[todo[i]] = NoReply
      /\ \A i, j \in DOMAIN todo : todo[i] = todo[j] => i = j
      /\ \A i \in DOMAIN todo : todo[i] <= jobs
  BY <1>1, <1>2 DEF Inv, Alone, Untouched, Requests
<1>6. TypeOK'
  BY <1>3, <1>4, <1>5 DEF Inv, TypeOK, Stages
<1>7. Requests'
  <2>1. \A c \in Clients : c <= jobs' /\ jobs' > 1 => budget'[c] > 0
    BY DEF Inv, Requests
  <2>2. Len(todo') <= jobs' /\ Len(rows') <= jobs'
    BY <1>2, <1>3, <1>4
  <2>3. \A i \in DOMAIN todo' : todo'[i] <= jobs'
    BY <1>4, <1>5
  <2>4. \A i \in DOMAIN rows' : rows'[i] <= jobs'
    BY <1>3, <1>5
  <2>5. \A i, j \in DOMAIN todo' : todo'[i] = todo'[j] => i = j
    <3>1. SUFFICES ASSUME NEW i \in 1..(l - take), NEW j \in 1..(l - take),
                          todo'[i] = todo'[j]
                   PROVE  i = j
      BY <1>4
    <3>2. take + i = take + j
      BY <1>4, <1>5, <3>1
    <3> QED
      BY <1>2, <3>2
  <2>6. \A i, j \in DOMAIN rows' : rows'[i] = rows'[j] => i = j
    BY <1>3, <1>5
  <2>7. \A i \in DOMAIN todo', j \in DOMAIN rows' : todo'[i] # rows'[j]
    <3>1. SUFFICES ASSUME NEW i \in 1..(l - take), NEW j \in 1..take,
                          todo'[i] = rows'[j]
                   PROVE  FALSE
      BY <1>3, <1>4
    <3>2. take + i = j
      BY <1>3, <1>4, <1>5, <3>1
    <3> QED
      BY <1>2, <3>2
  <2> QED
    BY <2>1, <2>2, <2>3, <2>4, <2>5, <2>6, <2>7 DEF Requests
<1>8. Untouched'
  BY <1>1, <1>3, <1>4, <1>5 DEF Inv, Untouched
<1>9. ReplyStates'
  BY <1>2, <1>5, RepliesKept DEF Inv, Stuck, Reported
<1>10. Pending'
  <2> SUFFICES ASSUME NEW c \in 1..jobs, reply[c].outcome = "none"
               PROVE  c \in ToSet(todo') \/ c \in ToSet(rows')
    BY <1>5 DEF Pending, Working
  <2>1. PICK i \in DOMAIN todo : c = todo[i]
    BY <1>2 DEF Inv, Pending, Working, ToSet
  <2>2. CASE i <= take
    BY <1>2, <1>3, <2>1, <2>2 DEF ToSet
  <2>3. CASE ~(i <= take)
    <3>1. i - take \in 1..(l - take) /\ take + (i - take) = i
      BY <1>2, <2>1, <2>3
    <3> QED
      BY <1>4, <2>1, <3>1 DEF ToSet
  <2> QED
    BY <2>2, <2>3
<1>11. Decoding'
  BY <1>5 DEF Decoding, StreamsAgree
<1>12. LiveRows'
  <2>1. stage' = "prefill" => Len(rows') > 1
    BY <1>1, <1>2, <1>3
  <2>2. \A k \in DOMAIN live', i \in DOMAIN rows' : live'[k] # rows'[i]
    BY <1>3 DEF Inv, Untouched
  <2> QED
    BY <1>5, <2>1, <2>2 DEF LiveRows
<1>13. Alone'
  <2> SUFFICES ASSUME stage' = "start"
               PROVE  /\ Len(rows') = 1 /\ reply[rows'[1]].outcome = "none"
                      /\ Len(reply[rows'[1]].tokens) <= budget[rows'[1]]
    BY <1>5 DEF Alone
  <2>1. Len(rows') = 1 /\ rows'[1] = todo[1] /\ 1 \in DOMAIN todo /\ take = 1
    BY <1>1, <1>2, <1>3
  <2>2. reply[rows'[1]] = NoReply
    BY <1>5, <2>1
  <2>3. Len(NoReply.tokens) = 0 /\ NoReply.outcome = "none" /\ budget[rows'[1]] \in Nat
    <3>1. rows'[1] \in Clients
      BY <2>1, InvFacts
    <3>2. NoReply.tokens = <<>> /\ NoReply.outcome = "none"
      BY NoReplyFacts
    <3>3. budget[rows'[1]] \in Nat
      BY <3>1, InvFacts
    <3> QED
      BY <3>2, <3>3
  <2>4. 0 <= budget[rows'[1]]
    BY <2>3
  <2> QED
    BY <2>1, <2>2, <2>3, <2>4
<1> QED
  BY <1>6, <1>7, <1>8, <1>9, <1>10, <1>11, <1>12, <1>13 DEF Inv

\* The part of the invariant that says where the requests are, in the steps that
\* leave the requests where they are.
LEMMA PlacesKept ==
    ASSUME Requests, UNCHANGED <<jobs, budget, todo, rows>>
    PROVE  Requests'
BY DEF Requests

LEMMA SplitEndInv == Inv /\ SplitEnd => Inv'
<1> SUFFICES ASSUME Inv, SplitEnd PROVE Inv'
  OBVIOUS
<1> USE DEF SplitEnd, requestVars
<1>1. stage = "split" /\ stage' = "report" /\ todo = <<>> /\ rows' = <<>> /\ row' = 1 /\ ~broken
  BY DEF Inv, Alone
<1>2. TypeOK'
  BY <1>1, InvFacts DEF Inv, TypeOK, Stages
<1>3. Requests'
  BY <1>1, InvFacts DEF Inv, Requests
<1>4. Untouched'
  BY <1>1 DEF Inv, Untouched
<1>5. ReplyStates'
  <2>1. \A c \in Clients : ~Stuck(c) /\ ~Stuck(c)' /\ ~Reported(c) /\ ~Reported(c)'
    BY <1>1, InvFacts DEF Stuck, Reported, Clients
  <2> QED
    BY <2>1, RepliesKept DEF Inv
<1>6. Pending'
  BY <1>1 DEF Inv, Pending, Working, ToSet
<1>7. Decoding' /\ LiveRows' /\ Alone'
  BY <1>1, InvFacts DEF Decoding, LiveRows, Alone, StreamsAgree
<1> QED
  BY <1>2, <1>3, <1>4, <1>5, <1>6, <1>7 DEF Inv

\* A step of the light-batch that leaves the replies and the rows alone.
LEMMA LightKept ==
    ASSUME Inv, UNCHANGED <<jobs, budget, todo, rows, reply>>,
           stage \in {"prefill", "round", "push", "decode"},
           stage' \in {"round", "push", "decode", "collect"},
           \A k \in DOMAIN live' : \E i \in DOMAIN live : live'[k] = live[i]
    PROVE  Requests' /\ Untouched' /\ ReplyStates' /\ Pending'
<1>1. Requests'
  BY PlacesKept DEF Inv
<1>2. Untouched'
  BY DEF Inv, Untouched
<1>3. ReplyStates'
  BY RepliesKept DEF Inv, Stuck, Reported
<1>4. Pending'
  BY DEF Inv, Pending, Working
<1> QED
  BY <1>1, <1>2, <1>3, <1>4

LEMMA GenerateFailsInv == Inv /\ GenerateFails => Inv'
<1> SUFFICES ASSUME Inv, GenerateFails PROVE Inv'
  OBVIOUS
<1> USE DEF GenerateFails, lightRest, requestVars, lightVars
<1>1. Requests' /\ Untouched' /\ ReplyStates' /\ Pending'
  BY LightKept
<1>2. TypeOK'
  BY DEF Inv, TypeOK, Stages
<1>3. Decoding' /\ LiveRows' /\ Alone'
  BY DEF Decoding, LiveRows, Alone, StreamsAgree
<1> QED
  BY <1>1, <1>2, <1>3 DEF Inv

LEMMA PrefillInv == Inv /\ Prefill => Inv'
<1> SUFFICES ASSUME Inv, Prefill PROVE Inv'
  OBVIOUS
<1> USE DEF Prefill, lightRest, requestVars
<1>1. Requests' /\ Untouched' /\ ReplyStates' /\ Pending'
  BY LightKept
<1>2. PICK t \in [ToSet(rows) -> Kinds] :
          token' = [c \in Clients |-> IF c \in ToSet(rows) THEN t[c] ELSE token[c]]
  OBVIOUS
<1>3. /\ MaxTokens \in Nat /\ 0 \in 0..(Stride - 1) /\ 0 \in 0..MaxTokens
  BY SizesAssumption
<1>4. TypeOK'
  <2>1. token' \in [Clients -> Kinds \cup {"none"}]
    BY <1>2 DEF Inv, TypeOK
  <2>2. step' \in [Clients -> 0..MaxTokens] /\ done' \in [Clients -> BOOLEAN]
    BY <1>3
  <2> QED
    BY <1>3, <2>1, <2>2 DEF Inv, TypeOK, Stages
<1>5. /\ Len(rows) > 1 /\ jobs > 1 /\ ~broken
      /\ \A k \in DOMAIN live, i \in DOMAIN rows : live[k] # rows[i]
  BY InvFacts DEF Inv, LiveRows, Requests, Alone
<1>6. Decoding'
  <2> SUFFICES ASSUME NEW c \in ToSet(rows)
               PROVE  /\ done'[c] <=> reply[c].outcome # "none"
                      /\ ~done'[c] => /\ Len(reply[c].tokens) = step'[c]
                                       + (IF c \in ToSet(live) THEN 1 ELSE 0)
                                     /\ Len(reply[c].tokens) < budget[c]
                                     /\ token'[c] \in Kinds
    BY DEF Decoding, StreamsAgree
  <2>1. PICK i \in DOMAIN rows : c = rows[i]
    BY DEF ToSet
  <2>2. c \in Clients /\ c <= jobs /\ c \notin ToSet(live)
    BY <2>1, <1>5, InvFacts DEF Inv, Requests, ToSet
  <2>3. reply[c] = NoReply /\ budget[c] > 0
    BY <2>1, <2>2, <1>5 DEF Inv, Untouched, Requests
  <2>4. Len(reply[c].tokens) = 0 /\ reply[c].outcome = "none"
    <3>1. NoReply.tokens = <<>> /\ NoReply.outcome = "none"
      BY NoReplyFacts
    <3> QED
      BY <2>3, <3>1
  <2> QED
    BY <1>2, <2>2, <2>3, <2>4
<1>7. LiveRows' /\ Alone'
  BY <1>5 DEF LiveRows, Alone
<1> QED
  BY <1>1, <1>4, <1>6, <1>7 DEF Inv

LEMMA BeginRoundInv == Inv /\ BeginRound => Inv'
<1> SUFFICES ASSUME Inv, BeginRound PROVE Inv'
  OBVIOUS
<1> USE DEF BeginRound, lightRest, requestVars
<1>1. DOMAIN live' = {} /\ Len(live') = 0
  OBVIOUS
<1>2. Requests' /\ Untouched' /\ ReplyStates' /\ Pending'
  BY <1>1, LightKept
<1>3. TypeOK'
  <2>1. round' \in 0..(Stride - 1) /\ background' \in BOOLEAN /\ row' \in 1..(N + 1)
    BY SizesAssumption DEF Inv, TypeOK, BackgroundTurn
  <2> QED
    BY <2>1 DEF Inv, TypeOK, Stages
<1>4. Decoding'
  <2>1. ToSet(live) \cap ToSet(rows) = {} /\ ToSet(live') = {}
    BY <1>1 DEF Inv, LiveRows, ToSet
  <2> QED
    BY <2>1 DEF Inv, Decoding, StreamsAgree
<1>5. LiveRows' /\ Alone'
  BY <1>1, InvFacts DEF Inv, LiveRows, Alone
<1> QED
  BY <1>2, <1>3, <1>4, <1>5 DEF Inv

LEMMA SkipRowInv == Inv /\ SkipRow => Inv'
<1> SUFFICES ASSUME Inv, SkipRow PROVE Inv'
  OBVIOUS
<1> USE DEF SkipRow, lightRest, requestVars
<1>1. Requests' /\ Untouched' /\ ReplyStates' /\ Pending'
  BY LightKept
<1>2. row \in Nat /\ row >= 1 /\ Len(rows) <= N /\ Len(rows) \in Nat /\ N \in Nat
  <2>1. N \in Nat /\ Len(rows) \in Nat /\ jobs \in Nat /\ jobs <= N
    BY ONLY Inv, InvFacts
  <2>2. row \in 1..(N + 1)
    BY ONLY Inv DEF Inv, TypeOK
  <2>3. Len(rows) <= jobs
    BY ONLY Inv DEF Inv, Requests
  <2> QED
    BY ONLY <2>1, <2>2, <2>3
<1>3. TypeOK'
  BY <1>2 DEF Inv, TypeOK
<1>4. Decoding'
  BY DEF Inv, Decoding, StreamsAgree
<1>5. LiveRows' /\ Alone'
  BY <1>2, InvFacts DEF Inv, LiveRows, Alone
<1> QED
  BY <1>1, <1>3, <1>4, <1>5 DEF Inv

LEMMA EndRoundInv == Inv /\ EndRound => Inv'
<1> SUFFICES ASSUME Inv, EndRound PROVE Inv'
  OBVIOUS
<1> USE DEF EndRound, lightRest, requestVars, lightVars
<1>1. stage' \in {"collect", "decode", "round"} /\ (stage' = "round" => live = <<>>)
  OBVIOUS
<1>2. Requests' /\ Untouched' /\ ReplyStates' /\ Pending'
  BY <1>1, LightKept
<1>3. TypeOK'
  BY <1>1 DEF Inv, TypeOK, Stages
<1>4. Decoding'
  BY <1>1 DEF Inv, Decoding, StreamsAgree
<1>5. LiveRows' /\ Alone'
  BY <1>1, InvFacts DEF Inv, LiveRows, Alone
<1> QED
  BY <1>2, <1>3, <1>4, <1>5 DEF Inv

LEMMA DecodeInv == Inv /\ Decode => Inv'
<1> SUFFICES ASSUME Inv, Decode PROVE Inv'
  OBVIOUS
<1> USE DEF Decode, lightRest, requestVars
<1>1. DOMAIN live' = {} /\ stage' \in {"round", "push"} /\ stage = "decode"
  OBVIOUS
<1>2. Requests' /\ Untouched' /\ ReplyStates' /\ Pending'
  BY <1>1, LightKept
<1>3. PICK t \in [ToSet(live) -> Kinds] :
          token' = [c \in Clients |-> IF c \in ToSet(live) THEN t[c] ELSE token[c]]
  OBVIOUS
<1>4. ASSUME NEW c \in ToSet(live)
      PROVE  /\ c \in ToSet(rows) /\ c \in Clients /\ ~done[c]
             /\ Len(reply[c].tokens) = step[c] + 1 /\ step[c] + 1 < budget[c]
             /\ step[c] + 1 \in 0..MaxTokens
  <2>1. PICK k \in DOMAIN live : c = live[k]
    BY DEF ToSet
  <2>2. c \in Clients /\ ~done[c] /\ c \in ToSet(rows)
    BY <1>1, <2>1, InvFacts DEF Inv, LiveRows, ToSet
  <2>3. Len(reply[c].tokens) = step[c] + 1 /\ Len(reply[c].tokens) < budget[c]
    BY <1>1, <2>2 DEF Inv, Decoding, StreamsAgree
  <2>4. budget[c] \in 0..MaxTokens /\ MaxTokens \in Nat
    BY ONLY <2>2, Inv, InvFacts
  <2>5. step[c] \in Nat
    BY ONLY <2>2, Inv DEF Inv, TypeOK
  <2> QED
    BY <2>2, <2>3, <2>4, <2>5
<1>5. TypeOK'
  <2>1. token' \in [Clients -> Kinds \cup {"none"}]
    BY <1>3 DEF Inv, TypeOK
  <2>2. step' \in [Clients -> 0..MaxTokens]
    BY <1>4 DEF Inv, TypeOK
  <2> QED
    BY <1>1, <2>1, <2>2 DEF Inv, TypeOK, Stages
<1>6. Decoding'
  <2> SUFFICES ASSUME NEW c \in ToSet(rows)
               PROVE  /\ done[c] <=> reply[c].outcome # "none"
                      /\ ~done[c] => /\ Len(reply[c].tokens) = step'[c]
                                       + (IF c \in ToSet(live') THEN 1 ELSE 0)
                                    /\ Len(reply[c].tokens) < budget[c]
                                    /\ token'[c] \in Kinds
    BY DEF Decoding, StreamsAgree
  <2>0. c \notin ToSet(live')
    BY <1>1 DEF ToSet
  <2>1. c \in Clients /\ step[c] \in Nat
    BY InvFacts DEF Inv, TypeOK, ToSet
  <2>2. /\ done[c] <=> reply[c].outcome # "none"
        /\ ~done[c] => /\ Len(reply[c].tokens) = step[c] + (IF c \in ToSet(live) THEN 1 ELSE 0)
                      /\ Len(reply[c].tokens) < budget[c]
                      /\ token[c] \in Kinds
    BY <1>1 DEF Inv, Decoding, StreamsAgree
  <2>3. CASE c \in ToSet(live)
    BY <1>3, <1>4, <2>0, <2>1, <2>2, <2>3
  <2>4. CASE c \notin ToSet(live)
    BY <1>3, <2>0, <2>1, <2>2, <2>4
  <2> QED
    BY <2>3, <2>4
<1>7. LiveRows' /\ Alone'
  <2>1. \A k \in DOMAIN live', i \in DOMAIN rows : live'[k] # rows[i]
    BY <1>1
  <2> QED
    BY <1>1, <2>1, InvFacts DEF Inv, LiveRows, Alone
<1> QED
  BY <1>2, <1>5, <1>6, <1>7 DEF Inv

\* A step that changes the reply of one client of the sub-batch, and leaves the
\* requests where they are.
LEMMA OneReply ==
    ASSUME Inv, UNCHANGED <<jobs, budget, todo, rows>>,
           NEW p \in DOMAIN rows, NEW f,
           reply' = [reply EXCEPT ![rows[p]] = f],
           stage \in {"push", "collect", "start", "solo", "close"},
           stage' \in {"push", "decode", "collect", "solo", "close", "split"},
           stage' = "close" => p = 1,
           IF f.outcome = "none"
           THEN /\ Len(f.tokens) <= MaxTokens
                /\ IF stage' = "close" /\ broken' THEN Broken(rows[p], f)
                                                 ELSE Ready(rows[p], f)
           ELSE Closed(rows[p], f),
           \A k \in DOMAIN live' : live'[k] \in ToSet(live) \cup ToSet(rows)
    PROVE  /\ rows[p] \in Clients /\ reply' \in [Clients -> Replies]
           /\ reply'[rows[p]] = f
           /\ \A d \in Clients : d # rows[p] => reply'[d] = reply[d]
           /\ Requests' /\ Untouched' /\ ReplyStates'
<1>1. rows[p] \in Clients /\ reply \in [Clients -> Replies]
  BY InvFacts
<1>2. f \in Replies
  BY DEF Broken, Ready, Running, Failing, Closed, Sound
<1>3. /\ reply' \in [Clients -> Replies] /\ reply'[rows[p]] = f
      /\ \A d \in Clients : d # rows[p] => reply'[d] = reply[d]
  BY <1>1, <1>2
<1>4. Requests'
  BY PlacesKept DEF Inv
<1>5. Untouched'
  <2>1. \A i \in DOMAIN todo : todo[i] # rows[p] /\ todo[i] \in Clients
    BY InvFacts DEF Inv, Requests
  <2>2. \A i \in DOMAIN todo : reply'[todo[i]] = NoReply
    BY <1>3, <2>1 DEF Inv, Untouched
  <2>3. \A i \in DOMAIN todo, k \in DOMAIN live' : todo[i] # live'[k]
    BY DEF Inv, Untouched, Requests, ToSet
  <2> QED
    BY <2>2, <2>3 DEF Untouched
<1>6. ReplyStates'
  <2> SUFFICES ASSUME NEW d \in Clients
               PROVE  IF reply'[d].outcome = "none"
                      THEN /\ Len(reply'[d].tokens) <= MaxTokens
                           /\ IF Stuck(d)' THEN Broken(d, reply'[d]) ELSE Ready(d, reply'[d])
                      ELSE Closed(d, reply'[d])
    BY DEF ReplyStates, Reported
  <2>1. CASE d = rows[p]
    BY <1>3, <2>1 DEF Stuck
  <2>2. CASE d # rows[p]
    <3>1. ~Reported(d)
      BY DEF Reported
    <3>2. ~Stuck(d)
      <4>1. SUFFICES ASSUME stage = "close" PROVE d # rows[1]
        BY DEF Stuck
      <4>2. p = 1
        BY <4>1, InvFacts DEF Inv, Alone
      <4> QED
        BY <4>2, <2>2
    <3>3. ~Stuck(d)'
      BY <2>2 DEF Stuck
    <3> QED
      BY <1>3, <2>2, <3>1, <3>2, <3>3 DEF Inv, ReplyStates
  <2> QED
    BY <2>1, <2>2
<1> QED
  BY <1>1, <1>3, <1>4, <1>5, <1>6

\* The stream whose turn it is, and what the callback makes of its reply.
LEMMA TurnFacts ==
    ASSUME Inv, Push
    PROVE  LET c == rows[row]
           IN  /\ row \in DOMAIN rows /\ c \in Clients /\ c \in ToSet(rows)
               /\ ~done[c] /\ reply[c].outcome = "none" /\ c \notin ToSet(live)
               /\ Ready(c, reply[c])
               /\ Len(reply[c].tokens) = step[c] /\ Len(reply[c].tokens) < budget[c]
               /\ \A f \in OnToken(reply[c], c, token[c], budget[c]) :
                     \/ (Closed(c, f) /\ f.outcome # "none")
                     \/ /\ Ready(c, f) /\ f.outcome = "none"
                        /\ Len(f.tokens) = step[c] + 1
                        /\ Len(f.tokens) < budget[c]
                        /\ ~Finished(f, c)
<1> DEFINE c == rows[row]
<1>1. stage = "push" /\ row <= Len(rows) /\ ~done[c] /\ row \in Nat /\ row >= 1
  BY DEF Push, HasTurn, Inv, TypeOK
<1>2. row \in DOMAIN rows /\ c \in Clients /\ c \in ToSet(rows)
  BY <1>1, InvFacts DEF ToSet
<1>3. c \notin ToSet(live)
  <2> SUFFICES ASSUME NEW k \in DOMAIN live, live[k] = c PROVE FALSE
    BY DEF ToSet
  <2>1. PICK i \in DOMAIN rows : i < row /\ live[k] = rows[i]
    BY <1>1 DEF Inv, LiveRows
  <2>2. i = row
    BY <1>2, <2>1 DEF Inv, Requests
  <2> QED
    BY <1>1, <2>1, <2>2
<1> HIDE DEF c
<1>4. /\ reply[c].outcome = "none" /\ token[c] \in Kinds /\ Len(reply[c].tokens) < budget[c]
      /\ Len(reply[c].tokens) = step[c] + 0
  BY <1>1, <1>2, <1>3 DEF Inv, Decoding, StreamsAgree
<1>5. step[c] \in Nat /\ budget[c] \in 0..MaxTokens /\ budget[c] \in Nat
  BY <1>2, InvFacts DEF Inv, TypeOK
<1>6. Ready(c, reply[c])
  BY <1>1, <1>2, <1>4 DEF Inv, ReplyStates, Stuck
<1>7. ASSUME NEW f \in OnToken(reply[c], c, token[c], budget[c])
      PROVE  \/ (Closed(c, f) /\ f.outcome # "none")
             \/ /\ Ready(c, f) /\ f.outcome = "none"
                /\ Len(f.tokens) = step[c] + 1
                /\ Len(f.tokens) < budget[c]
                /\ ~Finished(f, c)
  <2>1. \/ Closed(c, f)
        \/ /\ Ready(c, f)
           /\ Len(f.tokens) = Len(reply[c].tokens) + 1
           /\ Len(f.tokens) < budget[c]
    BY <1>2, <1>4, <1>5, <1>6, OnTokenFacts
  <2>2. CASE Closed(c, f)
    BY <2>2 DEF Closed
  <2>3. CASE /\ Ready(c, f)
             /\ Len(f.tokens) = Len(reply[c].tokens) + 1
             /\ Len(f.tokens) < budget[c]
    <3>1. f.outcome = "none"
      BY <2>3 DEF Ready, Running, Failing
    <3> QED
      BY <2>3, <3>1, <1>4, <1>5 DEF Finished
  <2> QED
    BY <2>1, <2>2, <2>3
<1> QED
  BY <1>1, <1>2, <1>3, <1>4, <1>5, <1>6, <1>7 DEF c

LEMMA PushInv == Inv /\ Push => Inv'
<1> SUFFICES ASSUME Inv, Push PROVE Inv'
  OBVIOUS
<1> DEFINE c == rows[row]
<1> USE DEF lightRest, requestVars
<1>1. PICK f \in OnToken(reply[c], c, token[c], budget[c]) :
          /\ reply' = [reply EXCEPT ![c] = f]
          /\ \/ /\ Finished(f, c)
                /\ done' = [done EXCEPT ![c] = TRUE]
                /\ token' = [token EXCEPT ![c] = "none"]
                /\ UNCHANGED <<stage, live>>
             \/ /\ ~Finished(f, c)
                /\ live' = Append(live, c)
                /\ stage' = IF grouped THEN "push" ELSE "decode"
                /\ UNCHANGED <<done, token>>
  BY DEF Push, Addressee
<1>2. /\ row \in DOMAIN rows /\ c \in Clients /\ c \in ToSet(rows)
      /\ ~done[c] /\ reply[c].outcome = "none" /\ c \notin ToSet(live)
      /\ \/ (Closed(c, f) /\ f.outcome # "none")
         \/ /\ Ready(c, f) /\ f.outcome = "none" /\ ~Finished(f, c)
            /\ Len(f.tokens) = step[c] + 1 /\ Len(f.tokens) < budget[c]
  BY TurnFacts
<1>3. /\ stage = "push" /\ stage' \in {"push", "decode"} /\ row' = row + 1
      /\ UNCHANGED <<jobs, budget, todo, rows, mtp, step, grouped, round, background, broken>>
  BY <1>1 DEF Push
<1>4. f.outcome # "none" <=> Finished(f, c)
  BY <1>2 DEF Finished
<1>5. live \in Seq(Clients) /\ Len(live) \in Nat /\ DOMAIN live = 1..Len(live)
  BY InvFacts DEF Inv, TypeOK
<1>6. /\ live' \in Seq(Clients)
      /\ \A d : d \in ToSet(live') <=> (d \in ToSet(live) \/ (~Finished(f, c) /\ d = c))
  <2>1. CASE Finished(f, c)
    BY <1>1, <1>5, <2>1
  <2>2. CASE ~Finished(f, c)
    <3>1. live' = Append(live, c)
      BY <1>1, <2>2
    <3> HIDE DEF c
    <3>2. /\ live' \in Seq(Clients) /\ DOMAIN live' = 1..(Len(live) + 1)
          /\ \A k \in 1..Len(live) : live'[k] = live[k]
          /\ live'[Len(live) + 1] = c
      BY <1>2, <1>5, <3>1
    <3>3. \A k \in 1..(Len(live) + 1) : k \in 1..Len(live) \/ k = Len(live) + 1
      BY <1>5
    <3>4. \A k \in 1..Len(live) : k \in 1..(Len(live) + 1)
      BY <1>5
    <3>5. Len(live) + 1 \in 1..(Len(live) + 1)
      BY <1>5
    <3> QED
      BY <1>5, <2>2, <3>2, <3>3, <3>4, <3>5 DEF ToSet
  <2> QED
    BY <2>1, <2>2
<1>7. /\ done' \in [Clients -> BOOLEAN] /\ (done'[c] <=> Finished(f, c))
      /\ \A d \in Clients : d # c => done'[d] = done[d]
      /\ token' \in [Clients -> Kinds \cup {"none"}]
      /\ \A d \in Clients : d # c => token'[d] = token[d]
      /\ ~Finished(f, c) => token'[c] = token[c]
  <2>1. done \in [Clients -> BOOLEAN] /\ token \in [Clients -> Kinds \cup {"none"}]
    BY DEF Inv, TypeOK
  <2> HIDE DEF c
  <2>2. CASE Finished(f, c)
    BY <1>1, <1>2, <2>1, <2>2
  <2>3. CASE ~Finished(f, c)
    BY <1>1, <1>2, <2>1, <2>3
  <2> QED
    BY <2>2, <2>3
<1>8. /\ reply' \in [Clients -> Replies] /\ reply'[c] = f
      /\ \A d \in Clients : d # c => reply'[d] = reply[d]
      /\ Requests' /\ Untouched' /\ ReplyStates'
  <2>1. \A k \in DOMAIN live' : live'[k] \in ToSet(live) \cup ToSet(rows)
    BY <1>2, <1>6 DEF ToSet
  <2>2. IF f.outcome = "none" THEN Ready(c, f) /\ Len(f.tokens) <= MaxTokens
                              ELSE Closed(c, f)
    <3>1. budget[c] <= MaxTokens /\ budget[c] \in Nat /\ MaxTokens \in Nat /\ step[c] \in Nat
      BY <1>2, InvFacts DEF Inv, TypeOK
    <3> QED
      BY <1>2, <3>1
  <2> QED
    BY <1>1, <1>2, <1>3, <2>1, <2>2, OneReply
<1> HIDE DEF c
<1>9. TypeOK'
  <2>1. row \in Nat /\ row >= 1 /\ Len(rows) <= N /\ Len(rows) \in Nat /\ N \in Nat
        /\ row <= Len(rows)
    <3>1. row \in Nat /\ row >= 1 /\ Len(rows) <= jobs
      BY <1>2 DEF Inv, TypeOK, Requests
    <3> QED
      BY <1>2, <3>1, InvFacts
  <2>2. row' \in 1..(N + 1)
    BY <1>3, <2>1
  <2> QED
    BY <1>3, <1>6, <1>7, <1>8, <2>2 DEF Inv, TypeOK, Stages
<1>10. Pending'
  <2> SUFFICES ASSUME NEW d \in 1..jobs
               PROVE  reply'[d].outcome # "none" \/ d \in ToSet(todo) \/ d \in ToSet(rows)
    BY <1>3 DEF Pending, Working
  <2>1. d \in Clients
    BY InvFacts DEF Clients
  <2>2. CASE d = c
    BY <1>2, <2>2
  <2>3. CASE d # c
    BY <1>8, <2>1, <2>3 DEF Inv, Pending
  <2> QED
    BY <2>2, <2>3
<1>11. Decoding'
  <2> SUFFICES ASSUME NEW d \in ToSet(rows)
               PROVE  /\ done'[d] <=> reply'[d].outcome # "none"
                      /\ ~done'[d] => /\ Len(reply'[d].tokens) = step[d]
                                       + (IF d \in ToSet(live') THEN 1 ELSE 0)
                                     /\ Len(reply'[d].tokens) < budget[d]
                                     /\ token'[d] \in Kinds
    BY <1>3 DEF Decoding, StreamsAgree
  <2>1. d \in Clients
    BY InvFacts DEF ToSet
  <2>2. /\ done[d] <=> reply[d].outcome # "none"
        /\ ~done[d] => /\ Len(reply[d].tokens) = step[d] + (IF d \in ToSet(live) THEN 1 ELSE 0)
                      /\ Len(reply[d].tokens) < budget[d]
                      /\ token[d] \in Kinds
    BY <1>3 DEF Inv, Decoding, StreamsAgree
  <2>3. CASE d # c
    BY <1>6, <1>7, <1>8, <2>1, <2>2, <2>3
  <2>4. CASE d = c
    BY <1>2, <1>4, <1>6, <1>7, <1>8, <2>2, <2>4
  <2> QED
    BY <2>3, <2>4
<1>12. LiveRows'
  <2>1. row' <= Len(rows') + 1
    BY <1>2, <1>3, InvFacts
  <2>2. ASSUME NEW k \in DOMAIN live'
        PROVE  (\E i \in DOMAIN rows : i < row' /\ live'[k] = rows[i]) /\ ~done'[live'[k]]
    <3>1. live'[k] \in ToSet(live')
      BY DEF ToSet
    <3>2. CASE live'[k] \in ToSet(live)
      <4>1. PICK j \in DOMAIN live : live'[k] = live[j]
        BY <3>2 DEF ToSet
      <4>2. PICK i \in DOMAIN rows : i < row /\ live[j] = rows[i]
        BY <1>3 DEF Inv, LiveRows
      <4>3. i < row'
        BY <1>2, <1>3, <4>2, InvFacts
      <4>4. ~done'[live[j]]
        BY <1>2, <1>3, <1>7, <3>2, <4>1, InvFacts DEF Inv, LiveRows
      <4> QED
        BY <4>1, <4>2, <4>3, <4>4
    <3>3. CASE ~Finished(f, c) /\ live'[k] = c
      BY <1>2, <1>3, <1>7, <3>3, InvFacts DEF c
    <3> QED
      BY <1>6, <3>1, <3>2, <3>3
  <2> QED
    BY <1>3, <2>1, <2>2 DEF LiveRows
<1>13. Alone'
  BY <1>3 DEF Inv, Alone
<1> QED
  BY <1>8, <1>9, <1>10, <1>11, <1>12, <1>13 DEF Inv

LEMMA CollectInv == Inv /\ Collect => Inv'
<1> SUFFICES ASSUME Inv, Collect PROVE Inv'
  OBVIOUS
<1> USE DEF Collect, lightRest, requestVars, lightVars
<1>1. PICK i \in Open : \E f \in Leftover(reply[rows[i]], rows[i], budget[rows[i]]) :
          reply' = [reply EXCEPT ![rows[i]] = f]
  OBVIOUS
<1>2. PICK f \in Leftover(reply[rows[i]], rows[i], budget[rows[i]]) :
          reply' = [reply EXCEPT ![rows[i]] = f]
  BY <1>1
<1>3. i \in DOMAIN rows /\ rows[i] \in Clients /\ reply[rows[i]].outcome = "none"
  BY InvFacts DEF Open
<1>4. Ready(rows[i], reply[rows[i]])
  BY <1>3 DEF Inv, ReplyStates, Stuck
<1>5. Len(reply[rows[i]].tokens) <= MaxTokens
  BY <1>3 DEF Inv, ReplyStates
<1>6. Closed(rows[i], f) /\ f.outcome # "none"
  <2>1. Closed(rows[i], f)
    BY <1>3, <1>4, <1>5, LeftoverFacts
  <2> QED
    BY <2>1 DEF Closed
<1>7. /\ reply' \in [Clients -> Replies] /\ reply'[rows[i]] = f
      /\ \A d \in Clients : d # rows[i] => reply'[d] = reply[d]
      /\ Requests' /\ Untouched' /\ ReplyStates'
  <2>1. \A k \in DOMAIN live' : live'[k] \in ToSet(live) \cup ToSet(rows)
    BY DEF ToSet
  <2> QED
    BY <1>2, <1>3, <1>6, <2>1, OneReply
<1>8. TypeOK'
  BY <1>7 DEF Inv, TypeOK
<1>9. Pending'
  <2> SUFFICES ASSUME NEW d \in 1..jobs
               PROVE  reply'[d].outcome # "none" \/ d \in ToSet(todo) \/ d \in ToSet(rows)
    BY DEF Pending, Working
  <2>1. d \in Clients
    BY InvFacts DEF Clients
  <2> QED
    BY <1>6, <1>7, <2>1 DEF Inv, Pending
<1>10. Decoding' /\ LiveRows' /\ Alone'
  BY DEF Inv, Decoding, LiveRows, Alone, StreamsAgree
<1> QED
  BY <1>7, <1>8, <1>9, <1>10 DEF Inv

LEMMA CollectEndInv == Inv /\ CollectEnd => Inv'
<1> SUFFICES ASSUME Inv, CollectEnd PROVE Inv'
  OBVIOUS
<1> USE DEF CollectEnd, lightRest, requestVars, lightVars
<1>1. TypeOK'
  BY DEF Inv, TypeOK, Stages
<1>2. Requests'
  BY PlacesKept DEF Inv
<1>3. Untouched'
  BY DEF Inv, Untouched
<1>4. ReplyStates'
  BY RepliesKept DEF Inv, Stuck, Reported
<1>5. Pending'
  BY DEF Inv, Pending, Open, ToSet, Working
<1>6. Decoding' /\ LiveRows' /\ Alone'
  BY DEF Decoding, LiveRows, Alone, StreamsAgree
<1> QED
  BY <1>1, <1>2, <1>3, <1>4, <1>5, <1>6 DEF Inv

LEMMA SoloFacts ==
    ASSUME Inv, stage \in {"start", "solo", "close"}
    PROVE  /\ Len(rows) = 1 /\ 1 \in DOMAIN rows /\ Solo \in Clients
           /\ ToSet(rows) = {Solo}
           /\ reply[Solo].outcome = "none"
           /\ Len(reply[Solo].tokens) \in Nat /\ Len(reply[Solo].tokens) <= budget[Solo]
           /\ budget[Solo] \in Nat /\ budget[Solo] <= MaxTokens /\ MaxTokens \in Nat
           /\ IF broken THEN stage = "close" /\ Broken(Solo, reply[Solo])
                        ELSE Ready(Solo, reply[Solo])
<1>1. /\ Len(rows) = 1 /\ reply[rows[1]].outcome = "none"
      /\ Len(reply[rows[1]].tokens) <= budget[rows[1]]
      /\ broken => stage = "close"
  BY DEF Inv, Alone
<1>2. DOMAIN rows = 1..1 /\ 1 \in DOMAIN rows
  BY <1>1, InvFacts
<1>3. rows[1] \in Clients
  BY <1>2, InvFacts
<1>4. /\ budget[rows[1]] \in Nat /\ budget[rows[1]] \in 0..MaxTokens
      /\ MaxTokens \in Nat /\ Len(reply[rows[1]].tokens) \in Nat
  BY <1>3, InvFacts
<1>5. ToSet(rows) = {rows[1]}
  BY <1>2 DEF ToSet
<1>6. IF broken THEN Broken(rows[1], reply[rows[1]]) ELSE Ready(rows[1], reply[rows[1]])
  BY <1>1, <1>3 DEF Inv, ReplyStates, Stuck
<1> QED
  BY <1>1, <1>2, <1>3, <1>4, <1>5, <1>6 DEF Solo

\* The solo request is over.
LEMMA SoloEndsInv ==
    ASSUME Inv, stage \in {"start", "solo", "close"}, UNCHANGED <<soloRest, token>>,
           NEW f, Closed(Solo, f), SoloEnds(f)
    PROVE  Inv'
<1> USE DEF soloRest, requestVars, SoloEnds
<1>1. f.outcome # "none" /\ 1 \in DOMAIN rows /\ ToSet(rows) = {Solo} /\ Solo \in Clients
  BY SoloFacts DEF Closed
<1>2. /\ reply' \in [Clients -> Replies] /\ reply'[Solo] = f
      /\ \A d \in Clients : d # Solo => reply'[d] = reply[d]
      /\ Requests' /\ Untouched' /\ ReplyStates'
  <2>1. \A k \in DOMAIN live' : live'[k] \in ToSet(live) \cup ToSet(rows)
    BY DEF ToSet
  <2> QED
    BY <1>1, <2>1, OneReply DEF Solo
<1>3. TypeOK'
  BY <1>2 DEF Inv, TypeOK, Stages
<1>4. Pending'
  <2> SUFFICES ASSUME NEW d \in 1..jobs
               PROVE  reply'[d].outcome # "none" \/ d \in ToSet(todo)
    BY DEF Pending
  <2>1. d \in Clients
    BY InvFacts DEF Clients
  <2> QED
    BY <1>1, <1>2, <2>1 DEF Inv, Pending
<1>5. Decoding' /\ LiveRows' /\ Alone'
  BY DEF Decoding, LiveRows, Alone, StreamsAgree
<1> QED
  BY <1>2, <1>3, <1>4, <1>5 DEF Inv

LEMMA SoloFailsInv == Inv /\ SoloFails => Inv'
<1> SUFFICES ASSUME Inv, SoloFails PROVE Inv'
  OBVIOUS
<1>1. stage \in {"start", "solo"} /\ ~broken
  BY DEF SoloFails, Inv, Alone
<1>2. Closed(Solo, FinishErr(reply[Solo]))
  BY <1>1, SoloFacts, FinishErrFacts DEF Ready, Running
<1> QED
  BY <1>1, <1>2, SoloEndsInv DEF SoloFails

LEMMA SoloCloseInv == Inv /\ SoloClose => Inv'
<1> SUFFICES ASSUME Inv, SoloClose PROVE Inv'
  OBVIOUS
<1>1. stage = "close" /\ UNCHANGED <<soloRest, token>>
  BY DEF SoloClose
<1>2. PICK f \in Closes(reply[Solo], Solo, budget[Solo]) : SoloEnds(f)
  BY DEF SoloClose, Closes
<1>3. Closed(Solo, f)
  <2>1. Len(reply[Solo].tokens) <= MaxTokens
    BY <1>1, SoloFacts
  <2> QED
    BY <1>1, <1>2, <2>1, SoloFacts, ClosesFacts
<1> QED
  BY <1>1, <1>2, <1>3, SoloEndsInv

\* A step of the decode loop, or into it.
LEMMA SoloGoesOn ==
    ASSUME Inv, stage \in {"start", "solo"}, stage' \in {"solo", "close"},
           UNCHANGED soloRest, NEW f, reply' = [reply EXCEPT ![Solo] = f],
           token' \in [Clients -> Kinds \cup {"none"}],
           mtp' \in BOOLEAN, broken' \in BOOLEAN,
           f.outcome = "none", Len(f.tokens) <= budget[Solo],
           IF broken' THEN stage' = "close" /\ Broken(Solo, f) ELSE Ready(Solo, f),
           stage' = "solo" => Len(f.tokens) < budget[Solo] /\ token'[Solo] \in Kinds
    PROVE  Inv'
<1> USE DEF soloRest, requestVars
<1>1. /\ 1 \in DOMAIN rows /\ ToSet(rows) = {Solo} /\ Solo \in Clients /\ Len(rows) = 1
      /\ budget[Solo] <= MaxTokens /\ budget[Solo] \in Nat /\ MaxTokens \in Nat
  BY SoloFacts
<1>2. Len(f.tokens) <= MaxTokens
  <2>1. f \in Replies
    BY DEF Broken, Ready, Running, Failing, Sound
  <2> QED
    BY <1>1, <2>1, ReplyFacts
<1>3. /\ reply' \in [Clients -> Replies] /\ reply'[Solo] = f
      /\ \A d \in Clients : d # Solo => reply'[d] = reply[d]
      /\ Requests' /\ Untouched' /\ ReplyStates'
  <2>1. \A k \in DOMAIN live' : live'[k] \in ToSet(live) \cup ToSet(rows)
    BY DEF ToSet
  <2> QED
    BY <1>1, <1>2, <2>1, OneReply DEF Solo
<1>4. TypeOK'
  BY <1>3 DEF Inv, TypeOK, Stages
<1>5. Pending'
  <2> SUFFICES ASSUME NEW d \in 1..jobs
               PROVE  reply'[d].outcome # "none" \/ d \in ToSet(todo) \/ d \in ToSet(rows)
    BY DEF Pending, Working
  <2>1. d \in Clients
    BY InvFacts DEF Clients
  <2> QED
    BY <1>1, <1>3, <2>1 DEF Inv, Pending
<1>6. Decoding' /\ LiveRows'
  BY DEF Decoding, LiveRows, StreamsAgree
<1>7. Alone'
  BY <1>1, <1>3 DEF Alone, Solo
<1> QED
  BY <1>3, <1>4, <1>5, <1>6, <1>7 DEF Inv

\* The first token, if the budget has room for one.
LEMMA FirstTokenFacts ==
    ASSUME Inv, stage = "start", FirstToken
    PROVE  /\ stage' \in {"solo", "close"}
           /\ token' \in [Clients -> Kinds \cup {"none"}]
           /\ stage' = "solo" => budget[Solo] > 0 /\ token'[Solo] \in Kinds
<1>1. token \in [Clients -> Kinds \cup {"none"}] /\ Solo \in Clients /\ budget[Solo] \in Nat
  BY SoloFacts DEF Inv, TypeOK
<1> QED
  BY <1>1 DEF FirstToken

LEMMA StartRepliesFacts ==
    ASSUME Inv, stage = "start"
    PROVE  reply[Solo] = NoReply /\ ~broken /\ Len(NoReply.tokens) = 0
<1>1. reply[Solo] = NoReply /\ ~broken
  BY SoloFacts DEF Inv, Untouched, Alone, Solo
<1>2. NoReply.tokens = <<>>
  BY NoReplyFacts
<1> QED
  BY <1>1, <1>2

LEMMA SoloStartInv == Inv /\ SoloStart => Inv'
<1> SUFFICES ASSUME Inv, SoloStart PROVE Inv'
  OBVIOUS
<1>1. stage = "start" /\ UNCHANGED soloRest
  BY DEF SoloStart
<1>2. PICK r \in StartFlux(reply[Solo]) :
          \/ /\ r.ok
             /\ reply' = [reply EXCEPT ![Solo] = r.reply]
             /\ FirstToken
             /\ UNCHANGED <<mtp, broken>>
          \/ /\ ~r.ok
             /\ SoloEnds(FinishErr(r.reply))
             /\ UNCHANGED token
  BY DEF SoloStart
<1>3. /\ reply[Solo] = NoReply /\ ~broken /\ Len(NoReply.tokens) = 0
      /\ Ready(Solo, reply[Solo]) /\ budget[Solo] \in Nat
  BY <1>1, SoloFacts, StartRepliesFacts
<1>4. /\ r.reply.tokens = reply[Solo].tokens
      /\ r.ok => Ready(Solo, r.reply)
      /\ ~r.ok => Broken(Solo, r.reply)
  BY <1>3, StartFacts
<1>5. CASE r.ok
  <2>1. r.reply.outcome = "none" /\ Len(r.reply.tokens) = 0
    BY <1>3, <1>4, <1>5 DEF Ready, Running, Failing
  <2>2. mtp' \in BOOLEAN /\ broken' \in BOOLEAN /\ ~broken'
    BY <1>2, <1>3, <1>5 DEF Inv, TypeOK
  <2>3. /\ stage' \in {"solo", "close"}
        /\ token' \in [Clients -> Kinds \cup {"none"}]
        /\ stage' = "solo" => budget[Solo] > 0 /\ token'[Solo] \in Kinds
    BY <1>1, <1>2, <1>5, FirstTokenFacts
  <2> QED
    BY <1>1, <1>2, <1>3, <1>4, <1>5, <2>1, <2>2, <2>3, SoloGoesOn
<1>6. CASE ~r.ok
  <2>1. Closed(Solo, FinishErr(r.reply))
    BY <1>4, <1>6, FinishErrFacts DEF Broken
  <2> QED
    BY <1>1, <1>2, <1>6, <2>1, SoloEndsInv
<1> QED
  BY <1>5, <1>6

LEMMA SoloStartMtpInv == Inv /\ SoloStartMtp => Inv'
<1> SUFFICES ASSUME Inv, SoloStartMtp PROVE Inv'
  OBVIOUS
<1>1. /\ stage = "start" /\ UNCHANGED soloRest /\ FirstToken /\ mtp' = TRUE
      /\ UNCHANGED <<reply, broken>>
  BY DEF SoloStartMtp
<1>2. /\ reply[Solo] = NoReply /\ ~broken /\ Len(reply[Solo].tokens) = 0
      /\ Ready(Solo, reply[Solo]) /\ budget[Solo] \in Nat /\ reply[Solo].outcome = "none"
  BY <1>1, SoloFacts, StartRepliesFacts
<1>3. reply' = [reply EXCEPT ![Solo] = reply[Solo]]
  BY <1>1, InvFacts
<1>4. mtp' \in BOOLEAN /\ broken' \in BOOLEAN /\ ~broken'
  BY <1>1, <1>2 DEF Inv, TypeOK
<1>5. /\ stage' \in {"solo", "close"}
      /\ token' \in [Clients -> Kinds \cup {"none"}]
      /\ stage' = "solo" => budget[Solo] > 0 /\ token'[Solo] \in Kinds
  BY <1>1, FirstTokenFacts
<1>6. /\ Len(reply[Solo].tokens) <= budget[Solo]
      /\ stage' = "solo" => Len(reply[Solo].tokens) < budget[Solo]
  BY <1>2, <1>5
<1> QED
  BY <1>1, <1>2, <1>3, <1>4, <1>5, <1>6, SoloGoesOn

LEMMA SoloTokenInv == Inv /\ SoloToken => Inv'
<1> SUFFICES ASSUME Inv, SoloToken PROVE Inv'
  OBVIOUS
<1>1. stage = "solo" /\ UNCHANGED <<soloRest, mtp>>
  BY DEF SoloToken
<1>2. /\ ~broken /\ Ready(Solo, reply[Solo]) /\ Solo \in Clients
      /\ Len(reply[Solo].tokens) < budget[Solo] /\ token[Solo] \in Kinds
      /\ budget[Solo] \in Nat /\ budget[Solo] <= MaxTokens /\ MaxTokens \in Nat
      /\ Len(reply[Solo].tokens) \in Nat /\ reply[Solo].outcome = "none"
  BY <1>1, SoloFacts DEF Inv, Alone, Solo
<1>3. /\ mtp' \in BOOLEAN /\ broken \in BOOLEAN /\ token \in [Clients -> Kinds \cup {"none"}]
      /\ reply \in [Clients -> Replies]
  BY <1>1 DEF Inv, TypeOK
<1>4. CASE token[Solo] = "eos"
  <2>1. stage' = "close" /\ UNCHANGED <<reply, token, broken>>
    BY <1>4 DEF SoloToken
  <2>2. reply' = [reply EXCEPT ![Solo] = reply[Solo]]
    BY <1>3, <2>1
  <2>3. /\ broken' \in BOOLEAN /\ ~broken' /\ token' \in [Clients -> Kinds \cup {"none"}]
        /\ Len(reply[Solo].tokens) <= budget[Solo]
    BY <1>2, <1>3, <2>1
  <2> QED
    BY <1>1, <1>2, <1>3, <2>1, <2>2, <2>3, SoloGoesOn
<1>5. CASE token[Solo] # "eos"
  <2>1. PICK r \in SoloCallback(reply[Solo], Solo, token[Solo]) :
            /\ reply' = [reply EXCEPT ![Solo] = r.reply]
            /\ broken' = ~r.ok
            /\ IF ~r.ok \/ Stopped(r.reply) \/ BudgetSpent(r.reply, budget[Solo])
               THEN stage' = "close" /\ UNCHANGED token
               ELSE /\ stage' = "solo"
                    /\ \E t \in Kinds : token' = [token EXCEPT ![Solo] = t]
    BY <1>5 DEF SoloToken
  <2>2. Len(reply[Solo].tokens) < MaxTokens
    BY <1>2
  <2>3. /\ r.ok \in BOOLEAN
        /\ Len(r.reply.tokens) \in {Len(reply[Solo].tokens), Len(reply[Solo].tokens) + 1}
        /\ r.ok => Ready(Solo, r.reply)
        /\ ~r.ok => Broken(Solo, r.reply)
    BY <1>2, <1>5, <2>2, CallbackFacts
  <2>4. Len(r.reply.tokens) \in Nat /\ Len(r.reply.tokens) <= budget[Solo]
    BY <1>2, <2>3
  <2>5. r.reply.outcome = "none"
    BY <2>3 DEF Ready, Broken, Running, Failing
  <2>6. /\ token' \in [Clients -> Kinds \cup {"none"}] /\ stage' \in {"solo", "close"}
        /\ stage' = "solo" => /\ token'[Solo] \in Kinds
                             /\ ~BudgetSpent(r.reply, budget[Solo])
        /\ ~r.ok => stage' = "close"
    BY <1>2, <1>3, <2>1
  <2>7. stage' = "solo" => Len(r.reply.tokens) < budget[Solo]
    BY <1>2, <2>4, <2>6 DEF BudgetSpent
  <2>8. broken' \in BOOLEAN /\ (broken' <=> ~r.ok)
    BY <2>1, <2>3
  <2> QED
    BY <1>1, <1>3, <2>1, <2>3, <2>4, <2>5, <2>6, <2>7, <2>8, SoloGoesOn
<1> QED
  BY <1>4, <1>5

LEMMA ReportInv == Inv /\ Report => Inv'
<1> SUFFICES ASSUME Inv, Report PROVE Inv'
  OBVIOUS
<1> USE DEF reportRest, requestVars
<1>1. /\ stage = "report" /\ stage' = "report" /\ row <= jobs /\ row' = row + 1
      /\ UNCHANGED reportRest /\ row \in Clients /\ row \in Nat /\ jobs <= N
      /\ jobs \in Nat /\ N \in Nat
  BY InvFacts DEF Report, Inv, TypeOK, Clients
<1>2. todo = <<>> /\ ~Reported(row) /\ ~broken
  BY <1>1 DEF Inv, Untouched, Alone, Reported
<1>3. reply[row].outcome # "none"
  <2>1. ToSet(todo) = {} /\ row \in 1..jobs
    BY <1>1, <1>2 DEF ToSet, Clients
  <2> QED
    BY <1>1, <2>1 DEF Inv, Pending, Working
<1>4. Closed(row, reply[row])
  BY <1>1, <1>2, <1>3 DEF Inv, ReplyStates
<1>5. \E f : /\ reply' = [reply EXCEPT ![row] = f] /\ Told(row, f)
             /\ f.outcome = reply[row].outcome
  <2>1. CASE reply[row].outcome = "err"
    <3>1. PICK r \in Write(reply[row], Mark("errorHead")) :
              reply' = [reply EXCEPT ![row] = r.reply]
      BY <2>1 DEF Report
    <3> QED
      BY <1>4, <2>1, <3>1, ReportFacts
  <2>2. CASE reply[row].outcome # "err"
    <3>1. reply' = [reply EXCEPT ![row] = reply[row]]
      BY <2>2, InvFacts DEF Report
    <3>2. Told(row, reply[row])
      BY <1>4, <2>2 DEF Closed, Told
    <3> QED
      BY <3>1, <3>2
  <2> QED
    BY <2>1, <2>2
<1>6. PICK f : /\ reply' = [reply EXCEPT ![row] = f] /\ Told(row, f)
               /\ f.outcome = reply[row].outcome
  BY <1>5
<1>7. /\ reply' \in [Clients -> Replies] /\ reply'[row] = f
      /\ \A d \in Clients : d # row => reply'[d] = reply[d]
  BY <1>1, <1>6, InvFacts DEF Told, Sound
<1>8. TypeOK'
  <2>1. row' \in 1..(N + 1)
    BY <1>1
  <2> QED
    BY <1>1, <1>7, <2>1 DEF Inv, TypeOK
<1>9. Requests'
  BY <1>1, PlacesKept DEF Inv
<1>10. Untouched'
  BY <1>1, <1>2 DEF Inv, Untouched
<1>11. ReplyStates'
  <2> SUFFICES ASSUME NEW d \in Clients
               PROVE  IF reply'[d].outcome = "none"
                      THEN Len(reply'[d].tokens) <= MaxTokens /\ Ready(d, reply'[d])
                      ELSE IF Reported(d)' THEN Told(d, reply'[d]) ELSE Closed(d, reply'[d])
    BY <1>1 DEF ReplyStates, Stuck
  <2>1. CASE d = row
    BY <1>1, <1>3, <1>6, <1>7, <2>1 DEF Reported
  <2>2. CASE d # row
    <3>1. Reported(d)' <=> Reported(d)
      BY <1>1, <2>2 DEF Reported, Clients
    <3> QED
      BY <1>1, <1>7, <2>2, <3>1 DEF Inv, ReplyStates, Stuck
  <2> QED
    BY <2>1, <2>2
<1>12. Pending'
  <2> SUFFICES ASSUME NEW d \in 1..jobs PROVE reply'[d].outcome # "none"
    BY <1>1 DEF Pending
  <2>1. d \in Clients /\ reply[d].outcome # "none"
    BY <1>1, <1>2 DEF Inv, Pending, Working, ToSet, Clients
  <2> QED
    BY <1>6, <1>7, <2>1
<1>13. Decoding' /\ LiveRows' /\ Alone'
  BY <1>1, <1>2 DEF Decoding, LiveRows, Alone, StreamsAgree
<1> QED
  BY <1>8, <1>9, <1>10, <1>11, <1>12, <1>13 DEF Inv

LEMMA ReportEndInv == Inv /\ ReportEnd => Inv'
<1> SUFFICES ASSUME Inv, ReportEnd PROVE Inv'
  OBVIOUS
<1> USE DEF ReportEnd, reportRest, requestVars
<1>1. stage = "report" /\ stage' = "over" /\ row > jobs /\ row \in Nat /\ jobs \in Nat
  BY InvFacts DEF Inv, TypeOK
<1>2. TypeOK'
  BY DEF Inv, TypeOK, Stages
<1>3. Requests'
  BY PlacesKept DEF Inv
<1>4. Untouched'
  BY <1>1 DEF Inv, Untouched
<1>5. ReplyStates'
  <2>1. \A d \in Clients : Reported(d)' <=> Reported(d)
    BY <1>1, InvFacts DEF Reported, Clients
  <2> QED
    BY <1>1, <2>1, RepliesKept DEF Inv, Stuck
<1>6. Pending'
  BY <1>1 DEF Inv, Pending, Working
<1>7. Decoding' /\ LiveRows' /\ Alone'
  BY <1>1 DEF Inv, Decoding, LiveRows, Alone, StreamsAgree
<1> QED
  BY <1>2, <1>3, <1>4, <1>5, <1>6, <1>7 DEF Inv

-----------------------------------------------------------------------------
(* The theorems.                                                             *)

LEMMA StutterInv == Inv /\ UNCHANGED vars => Inv'
<1> SUFFICES ASSUME Inv, UNCHANGED vars PROVE Inv'
  OBVIOUS
<1> USE DEF vars
<1>1. TypeOK'
  BY DEF Inv, TypeOK
<1>2. Requests' /\ Untouched' /\ Pending'
  BY DEF Inv, Requests, Untouched, Pending
<1>3. ReplyStates'
  BY RepliesKept DEF Inv, Stuck, Reported
<1>4. Decoding' /\ LiveRows' /\ Alone'
  BY DEF Inv, Decoding, LiveRows, Alone, StreamsAgree
<1> QED
  BY <1>1, <1>2, <1>3, <1>4 DEF Inv

LEMMA NextInv == Inv /\ [Next]_vars => Inv'
BY StutterInv, PrepareInv, SplitInv, SplitEndInv, GenerateFailsInv, PrefillInv,
   BeginRoundInv, SkipRowInv, PushInv, EndRoundInv, DecodeInv, CollectInv,
   CollectEndInv, SoloStartInv, SoloStartMtpInv, SoloFailsInv, SoloTokenInv,
   SoloCloseInv, ReportInv, ReportEndInv DEF Next, Work

LEMMA Invariance == Spec => []Inv
BY InitInv, NextInv, PTL DEF Spec

\* The state of the streamed answers keeps its types, for any numbers of jobs and
\* tokens and any stride.
THEOREM TypeCorrect == Spec => []TypeOK
<1>1. Inv => TypeOK
  BY DEF Inv
<1> QED
  BY <1>1, Invariance, PTL

\* The light-batch and drive_batch never disagree on which streams are over, nor on
\* how many tokens a stream has had.
THEOREM AgreementCorrect == Spec => []StreamsAgree
<1>1. Inv => StreamsAgree
  BY DEF Inv, Decoding
<1> QED
  BY <1>1, Invariance, PTL

\* In every state the reply of a client is sound.
LEMMA SoundReplies ==
    ASSUME Inv, NEW c \in Clients
    PROVE  Sound(c, reply[c])
BY DEF Inv, ReplyStates, Broken, Ready, Running, Failing, Closed, Told

\* Every client is sent the text of its own tokens only, in order and once, and none
\* after a write that failed.
THEOREM TextCorrect == Spec => []OwnText
<1>1. Inv => OwnText
  BY SoundReplies DEF OwnText, Sound, Own, Kind, Sent
<1> QED
  BY <1>1, Invariance, PTL

\* An answer whose writes succeed is well formed: one head, its text, then its end.
THEOREM AnswersFormed == Spec => []WellFormed
<1>1. ASSUME Inv PROVE WellFormed
  <2> SUFFICES ASSUME NEW c \in Clients, Whole(c)
               PROVE  \A i \in Sent(c) :
                         /\ i = 1 <=> Kind(c, i) \in {"head", "errorHead"}
                         /\ Kind(c, i) \in {"errorHead", "error", "length", "stopped"}
                              => i = Len(reply[c].wire)
    BY DEF WellFormed
  <2>1. Formed(reply[c]) /\ ~HasCut(reply[c])
    BY <1>1, SoundReplies DEF Sound, Whole, HasCut, Kind, Sent
  <2> QED
    BY <2>1 DEF Formed, Kind, Sent, Heads, Endings, Closings
<1> QED
  BY <1>1, Invariance, PTL

\* An answer that is closed in good order has all its text: nothing that was held
\* back for an incomplete character or a stop text is lost at the end.
THEOREM AnswersComplete == Spec => []NothingLost
<1>1. ASSUME Inv PROVE NothingLost
  <2> SUFFICES ASSUME NEW c \in Clients,
                      \E i \in Sent(c) : Kind(c, i) \in {"length", "stopped"}
               PROVE  AllShown(reply[c])
    BY DEF NothingLost, AllShown, Shown, NoText, Kind, Sent
  <2> QED
    BY <1>1, SoundReplies DEF Sound, Complete, Kind, Sent, Closings
<1> QED
  BY <1>1, Invariance, PTL

\* When the engine is done, every job has its outcome and has been sent something.
THEOREM AllAnsweredAlways == Spec => []AllAnswered
<1>1. ASSUME Inv, stage = "over", NEW c \in 1..jobs
      PROVE  reply[c].outcome # "none" /\ reply[c].wire # <<>>
  <2>1. c \in Clients /\ c <= jobs
    BY <1>1, InvFacts DEF Clients
  <2>2. reply[c].outcome # "none"
    <3>1. ToSet(todo) = {}
      BY <1>1 DEF Inv, Untouched, ToSet
    <3> QED
      BY <1>1, <3>1 DEF Inv, Pending, Working
  <2> QED
    BY <1>1, <2>1, <2>2 DEF Inv, ReplyStates, Reported, Told
<1>2. Inv => AllAnswered
  BY <1>1 DEF AllAnswered
<1> QED
  BY <1>2, Invariance, PTL

\* What OutcomeFinal says of one step.
FinalStep ==
    \A c \in Clients : reply[c].outcome # "none" /\ reply'[c] # reply[c] =>
        /\ stage = "report" /\ reply[c].outcome = "err"
        /\ [reply'[c] EXCEPT !.wire = <<>>] = [reply[c] EXCEPT !.wire = <<>>]

\* Only Report touches the reply of a client that has its outcome.
LEMMA FinalSteps == Inv /\ Next => FinalStep
<1> SUFFICES ASSUME Inv, Next PROVE FinalStep
  OBVIOUS
<1>1. reply \in [Clients -> Replies]
  BY InvFacts
<1>2. ASSUME NEW c, NEW f, reply[c].outcome = "none", reply' = [reply EXCEPT ![c] = f]
      PROVE  FinalStep
  BY <1>1, <1>2 DEF FinalStep
<1>3. ASSUME UNCHANGED reply PROVE FinalStep
  BY <1>3 DEF FinalStep
<1>4. CASE Prepare
  BY <1>4, NoReplyFacts DEF Prepare, FinalStep, Inv, Untouched
<1>5. CASE Push
  <2>1. reply[rows[row]].outcome = "none"
    BY <1>5, TurnFacts
  <2>2. PICK f : reply' = [reply EXCEPT ![rows[row]] = f]
    BY <1>5 DEF Push, Addressee
  <2> QED
    BY <2>1, <2>2, <1>2
<1>6. CASE Collect
  BY <1>2, <1>6 DEF Collect, Open
<1>7. CASE SoloStart \/ SoloFails \/ SoloToken \/ SoloClose
  <2>1. stage \in {"start", "solo", "close"}
    BY <1>7 DEF SoloStart, SoloFails, SoloToken, SoloClose
  <2>2. reply[Solo].outcome = "none"
    BY <2>1, SoloFacts
  <2>3. (\E f : reply' = [reply EXCEPT ![Solo] = f]) \/ UNCHANGED reply
    BY <1>7 DEF SoloStart, SoloFails, SoloToken, SoloClose, SoloEnds
  <2> QED
    BY <2>2, <2>3, <1>2, <1>3
<1>8. CASE Report
  <2>1. CASE reply[row].outcome = "err"
    <3>1. PICK r \in Write(reply[row], Mark("errorHead")) :
              reply' = [reply EXCEPT ![row] = r.reply]
      BY <1>8, <2>1 DEF Report
    <3>2. stage = "report" /\ row <= jobs /\ row \in Clients
      BY <1>8, InvFacts DEF Report, Inv, TypeOK, Clients
    <3>3. Closed(row, reply[row])
      <4>1. row \in Nat
        BY DEF Inv, TypeOK
      <4>2. ~Reported(row)
        BY <3>2, <4>1 DEF Reported
      <4> QED
        BY <2>1, <3>2, <4>2 DEF Inv, ReplyStates
    <3>4. [r.reply EXCEPT !.wire = <<>>] = [reply[row] EXCEPT !.wire = <<>>]
      BY <2>1, <3>1, <3>3, ReportFacts
    <3> QED
      BY <1>1, <2>1, <3>1, <3>2, <3>4 DEF FinalStep
  <2>2. CASE reply[row].outcome # "err"
    BY <1>3, <1>8, <2>2 DEF Report
  <2> QED
    BY <2>1, <2>2
<1>9. CASE UNCHANGED reply
  BY <1>3, <1>9
<1> QED
  BY <1>4, <1>5, <1>6, <1>7, <1>8, <1>9
     DEF Next, Work, vars, Split, SplitEnd, GenerateFails, Prefill, BeginRound, SkipRow,
         EndRound, Decode, CollectEnd, SoloStartMtp, ReportEnd

\* An outcome is final: late tokens, errors of the decoder and the end of the batch
\* leave the answer alone, but for the error response of an outcome that is an error.
THEOREM OutcomesFinal == Spec => OutcomeFinal
<1>1. Inv /\ [Next]_vars => [FinalStep]_vars
  BY FinalSteps
<1>2. Spec => [][FinalStep]_vars
  BY <1>1, Invariance, PTL DEF Spec
<1> QED
  BY <1>2 DEF OutcomeFinal, FinalStep
=============================================================================
