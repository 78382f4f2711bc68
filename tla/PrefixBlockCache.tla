------------------------- MODULE PrefixBlockCache -------------------------
(***************************************************************************)
(* The prefix cache of one loaded model (src/src/serve/cache.rs) under the *)
(* requests that read and fill it (`prefill_prompt_state` and              *)
(* `remember_prefix_block`, src/src/serve/state.rs) and the purges that    *)
(* empty it.                                                               *)
(*                                                                         *)
(* The cache keeps one boundary per prompt served: the state of the        *)
(* decoder after the last complete block, under the hash chained from the  *)
(* root of the session over the blocks.  The K/V of a state lies in        *)
(* allocations; a state that was extended may share those of the state it  *)
(* comes from, add one, or have copied all of them.  A conversation should *)
(* find its last boundary again, never somebody else's, and should not pay *)
(* for two copies of its K/V.                                              *)
(*                                                                         *)
(* A prompt is the sequence of its complete blocks; the tokens after the   *)
(* last one extend a state that is not in the cache.                       *)
(***************************************************************************)
EXTENDS Naturals, FiniteSets, Sequences, SequencesExt, Subsequences

CONSTANTS
    Sessions,     \* roots of chains: the keys of sessions, and "no session"
    Prompts,      \* the complete blocks of the prompts
    Capacity,     \* SARAGOSSA_SERVE_PREFIX_CACHE_BLOCKS
    PerSession,   \* SARAGOSSA_SERVE_PREFIX_BLOCKS_PER_SESSION
    MaxBytes,     \* the byte cap, in allocations of K/V
    SnapshotBytes \* a copy of the Metal state, one per block

ASSUME Limits ==
    /\ Prompts \subseteq Seq(Nat)
    /\ {Capacity, PerSession, MaxBytes, SnapshotBytes} \subseteq Nat

VARIABLES
    entries,  \* the blocks, most recently used first
    stage,    \* where the engine is in the prefill of a request
    request,  \* the request: its session, its prompt, how it may be prefilled
    live,     \* the state in hand
    reused,   \* how many blocks of the prompt the hit covers
    skipped   \* the boundary is not remembered

vars == <<entries, stage, request, live, reused, skipped>>

\* The state of a decoder: whose prompt it has read, and where its K/V is.
NoState == [owner |-> "none", tokens |-> <<>>, kv |-> {}]
NoRequest == [session |-> "none", prompt |-> <<>>, cheap |-> FALSE,
              usable |-> FALSE]

\* A block is found by its session and by the hash chained over its tokens from
\* the root of the session; different chains are taken to hash differently.
Key(session, tokens) == <<session, <<session, tokens>>, Len(tokens)>>
KeyOf(e) == <<e.session, e.hash, e.tokens>>

Allocations(es) == UNION {e.state.kv : e \in Range(es)}

\* Allocations shared by several blocks count once.
Bytes(es) == Cardinality(Allocations(es)) + SnapshotBytes * Len(es)

StateBytes(s) == Cardinality(s.kv) + SnapshotBytes

\* An allocation that neither a block nor the state in hand holds.
Fresh == CHOOSE a \in 1..(Cardinality(Allocations(entries) \cup live.kv) + 1) :
            a \notin Allocations(entries) \cup live.kv

Cold(session, tokens) == [owner |-> session, tokens |-> tokens, kv |-> {Fresh}]

Init ==
    /\ entries = <<>>
    /\ stage = "idle"
    /\ request = NoRequest
    /\ live = NoState
    /\ reused = 0
    /\ skipped = FALSE

------------------------------------------------------------------------------
(* The operations of the cache.                                              *)

\* Mutant of Boundaries: the blocks of every session are looked at.
AnyBoundaries(session, prompt) ==
    {i \in DOMAIN entries :
        \E n \in 1..Len(prompt) :
           entries[i].hash[2] = SubSeq(prompt, 1, n) /\ entries[i].tokens = n}

\* The blocks that are a boundary of the prompt, by their place in the cache.
Boundaries(session, prompt) ==
    {i \in DOMAIN entries :
        \E n \in 1..Len(prompt) :
           KeyOf(entries[i]) = Key(session, SubSeq(prompt, 1, n))}

\* The deepest one is the hit.
Hit(session, prompt) ==
    CHOOSE i \in Boundaries(session, prompt) :
        \A j \in Boundaries(session, prompt) :
            entries[j].tokens <= entries[i].tokens

\* The block at place i, then the others.
MovedToFront(i) ==
    <<entries[i]>> \o Keep(entries, Range(entries) \ {entries[i]})

\* The blocks of a session beyond its share, least recently used first.
WithinSession(es, session) ==
    LET own == Keep(es, {e \in Range(es) : e.session = session})
        beyond == {own[i] : i \in (PerSession + 1)..Len(own)}
    IN  Keep(es, Range(es) \ beyond)

\* Mutant of WithinCaps: one block makes room, whatever it frees.
WithinCapsOnce(es) ==
    IF Len(es) > Capacity \/ Bytes(es) > MaxBytes THEN Front(es) ELSE es

\* The least recently used blocks go until both caps hold.
WithinCaps(es) ==
    LET fits(n) == n <= Capacity /\ Bytes(SubSeq(es, 1, n)) <= MaxBytes
    IN  SubSeq(es, 1, CHOOSE n \in 0..Len(es) :
                          /\ fits(n)
                          /\ \A k \in (n + 1)..Len(es) : ~fits(k))

Inserted(session, tokens, state) ==
    LET key == Key(session, tokens)
        others == Keep(entries, {e \in Range(entries) : KeyOf(e) # key})
        entry == [session |-> session, hash |-> key[2], tokens |-> key[3],
                  state |-> state]
    IN  IF Capacity = 0 THEN entries
        ELSE IF StateBytes(state) > MaxBytes THEN others
        ELSE WithinCaps(WithinSession(<<entry>> \o others, session))

\* The blocks of the session that only hold what the new state has copied.
WithoutSuperseded(session, old, new) ==
    Keep(entries, {e \in Range(entries) :
        \/ e.session # session
        \/ e.state.kv \cap old = {}
        \/ e.state.kv \cap new # {}})

------------------------------------------------------------------------------
(* The prefill of a request.                                                 *)

\* Flint models, which only extend a prompt on the GPU, do without blocks when
\* this prompt cannot be extended there; so does a server without this cache.
Bypass ==
    /\ stage = "asked" /\ ~request.usable
    /\ live' = Cold(request.session, request.prompt)
    /\ skipped' = TRUE
    /\ stage' = "decode"
    /\ UNCHANGED <<entries, request, reused>>

\* A new request.  How its prompt may be extended depends on the model and on
\* the length of the prompt.
Ask ==
    /\ stage = "idle"
    /\ \E s \in Sessions, p \in Prompts, cheap, usable \in BOOLEAN :
          request' = [session |-> s, prompt |-> p, cheap |-> cheap,
                      usable |-> usable]
    /\ stage' = "asked"
    /\ UNCHANGED <<entries, live, reused, skipped>>

\* match_prefix moves the block it finds to the front, whether the request then
\* uses it or not: a hit that covers less than half of the prompt is declined
\* when extending costs more than starting again.
Match ==
    /\ stage = "asked" /\ request.usable
    /\ Capacity > 0 /\ Boundaries(request.session, request.prompt) # {}
    /\ LET hit == Hit(request.session, request.prompt)
           n == entries[hit].tokens
       IN  /\ entries' = MovedToFront(hit)
           /\ \/ /\ request.cheap \/ 2 * n >= Len(request.prompt)
                 /\ reused' = n
                 /\ live' = entries[hit].state
                 /\ stage' = "extend"
              \/ /\ ~request.cheap /\ 2 * n < Len(request.prompt)
                 /\ stage' = "cold"
                 /\ UNCHANGED <<reused, live>>
    /\ UNCHANGED <<request, skipped>>

Miss ==
    /\ stage = "asked" /\ request.usable
    /\ Capacity = 0 \/ Boundaries(request.session, request.prompt) = {}
    /\ stage' = "cold"
    /\ UNCHANGED <<entries, request, live, reused, skipped>>

\* A prefill from nothing; a prompt without a complete block leaves no boundary.
PrefillCold ==
    /\ stage = "cold"
    /\ live' = Cold(request.session, request.prompt)
    /\ IF request.prompt = <<>>
       THEN skipped' = TRUE /\ stage' = "decode"
       ELSE stage' = "remember" /\ UNCHANGED skipped
    /\ UNCHANGED <<entries, request, reused>>

\* Where the K/V of an extended state may be: in the rows reserved behind it,
\* in one more allocation, or all of it in a new one.
ExtendedKv == {live.kv, live.kv \cup {Fresh}, {Fresh}}

\* The hit is extended to the last complete block.  If that copied all its K/V,
\* the blocks of the session that hold the old copy go.
Extend ==
    /\ stage = "extend"
    /\ IF reused = Len(request.prompt)
       THEN stage' = "decode" /\ UNCHANGED <<entries, live>>
       ELSE \E kv \in ExtendedKv :
               /\ live' = [live EXCEPT !.tokens = @ \o
                              SubSeq(request.prompt, reused + 1,
                                     Len(request.prompt)),
                                       !.kv = kv]
               /\ entries' = IF live.kv \cap kv = {}
                             THEN WithoutSuperseded(request.session, live.kv, kv)
                             ELSE entries
               /\ stage' = "remember"
    /\ UNCHANGED <<request, reused, skipped>>

\* Memory is short: a block makes room for the new one.
MakeRoom ==
    /\ stage = "remember" /\ entries # <<>>
    /\ entries' = Front(entries)
    /\ UNCHANGED <<stage, request, live, reused, skipped>>

\* Memory is short and there is no block left: the boundary is not remembered.
Skip ==
    /\ stage = "remember" /\ entries = <<>>
    /\ skipped' = TRUE
    /\ stage' = "decode"
    /\ UNCHANGED <<entries, request, live, reused>>

Remember ==
    /\ stage = "remember"
    /\ entries' = Inserted(request.session, request.prompt, live)
    /\ stage' = "decode"
    /\ UNCHANGED <<request, live, reused, skipped>>

\* The request is over, because it has been decoded, or because a prefill, a
\* snapshot or a copy failed; its state is dropped.
Return ==
    /\ stage' = "idle"
    /\ request' = NoRequest
    /\ live' = NoState
    /\ reused' = 0
    /\ skipped' = FALSE
    /\ UNCHANGED entries

Decode == stage = "decode" /\ Return

Fail == stage \in {"asked", "cold", "extend", "remember"} /\ Return

\* Between two requests the memory budget takes the least recently used block.
Purge ==
    /\ stage = "idle" /\ entries # <<>>
    /\ entries' = Front(entries)
    /\ UNCHANGED <<stage, request, live, reused, skipped>>

Next ==
    \/ Ask \/ Bypass \/ Match \/ Miss \/ PrefillCold \/ Extend
    \/ MakeRoom \/ Skip \/ Remember
    \/ Decode \/ Fail \/ Purge

Spec == Init /\ [][Next]_vars

------------------------------------------------------------------------------
States == [owner : Sessions, tokens : Prompts \ {<<>>}, kv : SUBSET Nat]

\* The blocks are well formed, each under a key of its own, and hold the state of
\* the prompt their key stands for; the three caps hold after every insertion,
\* whatever order its evictions come in and whatever the blocks share.
CacheSound ==
    /\ \A i \in DOMAIN entries :
          LET e == entries[i]
          IN  /\ e.state \in States
              /\ KeyOf(e) = Key(e.state.owner, e.state.tokens)
              /\ \A j \in DOMAIN entries : KeyOf(entries[j]) = KeyOf(e) => i = j
    /\ Len(entries) <= Capacity
    /\ Bytes(entries) <= MaxBytes
    /\ \A s \in Sessions :
          Cardinality({i \in DOMAIN entries : entries[i].session = s})
              <= PerSession

\* A request is decoded from the state of its own prompt in its own session,
\* whatever was found, declined, extended or evicted on the way.  The boundary it
\* adds was not in the cache; and once it was added or found, no eviction made to
\* fit it took it away: the next turn of the conversation finds it first.
ServedOwn ==
    LET key == Key(request.session, request.prompt)
    IN  /\ stage = "decode" =>
              live.owner = request.session /\ live.tokens = request.prompt
        /\ stage = "remember" => \A e \in Range(entries) : KeyOf(e) # key
        /\ /\ stage = "decode" /\ ~skipped
           /\ StateBytes(live) <= MaxBytes /\ Capacity > 0 /\ PerSession > 0
           => entries # <<>> /\ KeyOf(entries[1]) = key
=============================================================================
