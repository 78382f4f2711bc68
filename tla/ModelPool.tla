----------------------------- MODULE ModelPool -----------------------------
(***************************************************************************)
(* The models of the server (src/src/serve/state.rs): loading on demand,   *)
(* the pool limit, the memory budget and what it purges, under the jobs of *)
(* the engine thread (src/src/serve/dispatch.rs `run_engine`,              *)
(* src/src/serve/http.rs `handle_batch`).  Only that thread touches them:  *)
(* the watcher of the memory pressure (src/src/memory_guard.rs:466), which *)
(* would purge beside it, is started by nothing in the repository.         *)
(*                                                                         *)
(* One job loads its model several times over: to know whether it may lead *)
(* a batch, which format it writes, then to run.  In between the engine    *)
(* decides on what it saw: a job is admitted to a batch because its model  *)
(* is loaded and decodes with MTP, waits, and is looked at again when the  *)
(* batch is served.  Whether memory is short is the choice of the system   *)
(* at each look.                                                           *)
(*                                                                         *)
(* A panic of the engine ends the server.  The locks it leaves poisoned    *)
(* would hide entries from the purges, which skip what they cannot lock;   *)
(* `poisoned` keeps track of them.                                         *)
(*                                                                         *)
(* A prefix cache is a number of blocks here (PrefixBlockCache has its     *)
(* operations), the prefix cache of a decoder a number of entries.         *)
(***************************************************************************)
EXTENDS Naturals, FiniteSets, Sequences

CONSTANTS
    NumModels,    \* the models of the command line, by index
    MtpModels,    \* those whose decoder has an MTP head
    LruEnabled,   \* SARAGOSSA_SERVE_LRU
    PoolSize,     \* SARAGOSSA_SERVE_MODEL_POOL
    QueueDepth,   \* SARAGOSSA_SERVE_QUEUE
    MaxStreams,   \* SARAGOSSA_SERVE_MAX_STREAMS
    MaxBlocks,    \* a bound of the prefix blocks of a model
    MaxOwn        \* a bound of the entries of a decoder's prefix cache

Models == 1..NumModels

ASSUME Limits ==
    /\ NumModels \in Nat /\ MtpModels \subseteq Models
    /\ LruEnabled \in BOOLEAN
    /\ PoolSize \in Nat \ {0}
    /\ QueueDepth \in Nat /\ MaxStreams \in Nat
    /\ MaxBlocks \in Nat /\ MaxOwn \in Nat

VARIABLES
    loaded,   \* the models whose slot holds a decoder
    age,      \* the rank of last_used among the models used, 0 for never
    blocks,   \* the prefix blocks of each model
    own,      \* the entries of the decoder's own prefix cache
    poisoned, \* the models whose entries lie behind a poisoned lock
    pending,  \* the jobs received and not started
    kept,     \* those that take_batch has put aside
    batch,    \* the leader of a batch and those that join it
    streams,  \* how many requests of a batch are not served yet
    aside,    \* how many jobs of a batch turned out not to belong to it
    model,    \* the model of this turn, 0 for none
    stage,    \* where the engine is
    goal      \* what the model is being loaded, or the memory checked, for

poolVars == <<loaded, age, blocks, own, poisoned>>
jobVars == <<pending, kept, batch, streams, aside, model>>
vars == <<poolVars, jobVars, stage, goal>>

\* A streamed greedy chat without a session may join a batch, with a session only
\* where the solo would ignore it; everything else is served alone.
Kinds == {"plain", "session", "solo"}
Jobs == [model : Models, kind : Kinds]

\* The goals for which the budget is enforced after a generation.
After == {"after run", "after alone", "after batch"}

LoadGoals == {"preload", "ready", "probe", "run", "flint", "batch", "alone"}

Init ==
    /\ loaded = {}
    /\ age = [m \in Models |-> 0]
    /\ blocks = [m \in Models |-> 0]
    /\ own = [m \in Models |-> 0]
    /\ poisoned = {}
    /\ pending = <<>> /\ kept = <<>> /\ batch = <<>>
    /\ streams = 0 /\ aside = 0
    \* --preload loads the models one by one before anything is served
    /\ \/ model = 1 /\ stage = "ensure" /\ goal = "preload" /\ NumModels > 0
       \/ model = 0 /\ stage = "idle" /\ goal = "none"

------------------------------------------------------------------------------
(* The pool.                                                                 *)

\* The least recently used of some models, the first of those never used.
Oldest(m, ms) ==
    \A n \in ms : age[m] < age[n] \/ (age[m] = age[n] /\ m <= n)

\* last_used takes the clock: only its order is kept.
Touch(m) ==
    age' = [n \in Models |->
              IF n = m THEN Cardinality({k \in Models : age[k] > 0} \cup {m})
              ELSE IF age[m] > 0 /\ age[n] > age[m] THEN age[n] - 1
              ELSE age[n]]

\* Mutant of Evictable: a slot that is empty already is evicted again.
EvictableEmpty == IF LruEnabled THEN Models \ {model} ELSE {}

\* Mutant of Evictable: after a generation its model is not protected.
EvictableAny ==
    IF ~LruEnabled THEN {}
    ELSE IF goal \in After THEN loaded ELSE loaded \ {model}

\* evict_lru_model never takes the model of the running job.
Evictable == IF LruEnabled THEN loaded \ {model} ELSE {}

\* A model goes with its two caches.
EvictModel ==
    \E m \in Evictable :
        /\ Oldest(m, Evictable)
        /\ loaded' = loaded \ {m}
        /\ blocks' = [blocks EXCEPT ![m] = 0]
        /\ own' = [own EXCEPT ![m] = 0]
        /\ UNCHANGED <<age, poisoned>>

WithBlocks == {m \in loaded : blocks[m] > 0}
WithOwn == {m \in loaded : own[m] > 0}

\* The callbacks of the process registry free an entry of a decoder, of whichever
\* was registered first.  A lock that is poisoned, that of the registry or that of
\* the cache, looks like an empty cache.
OwnPurgeable == WithOwn \ poisoned

------------------------------------------------------------------------------
(* Loading a model and enforcing the memory budget, for some goal.           *)

At(s) == stage' = s /\ UNCHANGED <<goal>>

To(s) == stage' = s /\ goal' = "none"

Begin(g) == goal' = g /\ stage' = "ensure"

Enforce(g) == goal' = g /\ stage' = "check"

\* A loaded model is used as it is.
Ensure ==
    /\ stage = "ensure"
    /\ At(IF model \in loaded THEN "ensured" ELSE "check")
    /\ UNCHANGED <<poolVars, jobVars>>

\* The memory guard compares its projection with the limit.
CheckMemory ==
    /\ stage = "check"
    /\ \/ At("purge block")
       \/ At(IF goal \in After THEN "ensured" ELSE "pool")
    /\ UNCHANGED <<poolVars, jobVars>>

\* The purgeables are tried in their order until one frees something, then the
\* memory is looked at again: a prefix block of a model, an entry of a decoder's
\* own cache, and only then a model.
PurgeBlock ==
    /\ stage = "purge block"
    /\ \/ \E m \in WithBlocks :
             /\ Oldest(m, WithBlocks)
             /\ blocks' = [blocks EXCEPT ![m] = @ - 1]
             /\ At("check")
       \/ WithBlocks = {} /\ At("purge own") /\ UNCHANGED blocks
    /\ UNCHANGED <<loaded, age, own, poisoned, jobVars>>

PurgeOwn ==
    /\ stage = "purge own"
    /\ \/ \E m \in OwnPurgeable :
             own' = [own EXCEPT ![m] = @ - 1] /\ At("check")
       \/ OwnPurgeable = {} /\ At("purge model") /\ UNCHANGED own
    /\ UNCHANGED <<loaded, age, blocks, poisoned, jobVars>>

PurgeModel ==
    /\ stage = "purge model"
    /\ \/ EvictModel /\ At("check")
       \/ Evictable = {} /\ At("failed") /\ UNCHANGED poolVars
    /\ UNCHANGED jobVars

\* The pool limit evicts models until there is room for one more.
PoolLimit ==
    /\ stage = "pool"
    /\ IF Cardinality(loaded) >= PoolSize /\ Evictable # {}
       THEN EvictModel /\ UNCHANGED stage
       ELSE stage' = "load" /\ UNCHANGED poolVars
    /\ UNCHANGED <<jobVars, goal>>

\* Loading ends with a warm-up, which may leave an entry in the decoder's cache,
\* and may fail at any file; the slot then stays empty.
Load ==
    /\ stage = "load"
    /\ \/ /\ loaded' = loaded \cup {model}
          /\ blocks' = [blocks EXCEPT ![model] = 0]
          /\ \E n \in 0..MaxOwn :
                /\ n > 0 => model \in MtpModels
                /\ own' = [own EXCEPT ![model] = n]
          /\ UNCHANGED <<age, poisoned>>
          /\ At("ensured")
       \/ At("failed") /\ UNCHANGED poolVars
    /\ UNCHANGED jobVars

LoadStep ==
    \/ Ensure \/ CheckMemory \/ PurgeBlock \/ PurgeOwn \/ PurgeModel
    \/ PoolLimit \/ Load

Ensured(g) == goal = g /\ stage = "ensured"
Failed(g) == goal = g /\ stage = "failed"

\* --preload stops at the first model that cannot be loaded, and the server too.
Preload ==
    /\ \/ /\ Ensured("preload") /\ model < NumModels
          /\ model' = model + 1 /\ Begin("preload")
       \/ /\ Ensured("preload") /\ model = NumModels
          /\ model' = 0 /\ To("idle")
       \/ /\ Failed("preload")
          /\ To("exited") /\ UNCHANGED model
    /\ UNCHANGED <<poolVars, pending, kept, batch, streams, aside>>

------------------------------------------------------------------------------
(* The turns of the engine.                                                  *)

\* batch_chat: may the job join a batch, as far as one can see now?
Batchable(j) ==
    \/ j.kind = "plain"
    \/ j.kind = "session" /\ j.model \in loaded \cap MtpModels

\* What the engine keeps of a job it receives: whether it was found batchable.
Queued(j) ==
    IF MaxStreams > 1 /\ Batchable(j) THEN j ELSE [j EXCEPT !.kind = "solo"]

\* A chat asks first which format its model writes; Anthropic messages do not.
Serve == Begin("probe") \/ Begin("run")

Turn(j) ==
    /\ model' = j.model
    /\ IF j.kind = "solo" THEN Serve /\ UNCHANGED batch
       ELSE Begin("ready") /\ batch' = <<j>>

\* The jobs that fell out of their batch are served one by one after it.
Over ==
    /\ stage = "over"
    /\ IF aside > 0 THEN aside' = aside - 1 /\ Serve /\ UNCHANGED model
       ELSE To("idle") /\ model' = 0 /\ UNCHANGED aside
    /\ UNCHANGED <<poolVars, pending, kept, batch, streams>>

Receive ==
    /\ stage = "idle" /\ pending = <<>>
    /\ \E j \in Jobs : Turn(Queued(j))
    /\ UNCHANGED <<poolVars, pending, kept, streams, aside>>

PopPending ==
    /\ stage = "idle" /\ pending # <<>>
    /\ Turn(Head(pending))
    /\ pending' = Tail(pending)
    /\ UNCHANGED <<poolVars, kept, streams, aside>>

\* A model that cannot be loaded, or whose decoder has no dense batches, serves
\* the leader alone.
BatchReady ==
    /\ \/ Ensured("ready") /\ To("drain") /\ UNCHANGED batch
       \/ (Ensured("ready") \/ Failed("ready")) /\ Serve /\ batch' = <<>>
    /\ UNCHANGED <<poolVars, pending, kept, streams, aside, model>>

Drain ==
    /\ stage = "drain"
    /\ \/ /\ Len(pending) < QueueDepth
          /\ \E j \in Jobs : pending' = Append(pending, Queued(j))
          /\ UNCHANGED stage
       \/ stage' = "take" /\ UNCHANGED pending
    /\ UNCHANGED <<poolVars, kept, batch, streams, aside, model, goal>>

Joins(j) == j.kind # "solo" /\ j.model = model /\ Len(batch) < MaxStreams

TakeOne ==
    /\ stage = "take" /\ pending # <<>>
    /\ IF Joins(Head(pending))
       THEN batch' = Append(batch, Head(pending)) /\ UNCHANGED kept
       ELSE kept' = Append(kept, Head(pending)) /\ UNCHANGED batch
    /\ pending' = Tail(pending)
    /\ UNCHANGED <<poolVars, streams, aside, model, stage, goal>>

TakeEnd ==
    /\ stage = "take" /\ pending = <<>>
    /\ pending' = kept
    /\ kept' = <<>>
    /\ IF Len(batch) = 1
       THEN Serve /\ batch' = <<>>
       ELSE To("admit") /\ UNCHANGED batch
    /\ UNCHANGED <<poolVars, streams, aside, model>>

\* handle_batch looks at every request again.
HandleBatch ==
    /\ stage = "admit"
    /\ LET solo == {i \in DOMAIN batch : ~Batchable(batch[i])}
       IN  /\ aside' = Cardinality(solo)
           /\ streams' = Len(batch) - Cardinality(solo)
    /\ batch' = <<>>
    /\ IF streams' > 0 THEN Begin("flint") ELSE To("over")
    /\ UNCHANGED <<poolVars, pending, kept, model>>

\* The format of the answers, and the batch itself, each load the model if need
\* be; requests that are not valid for it are answered at once.
BeginBatch ==
    /\ \/ /\ Ensured("flint") \/ Failed("flint")
          /\ Begin("batch") /\ UNCHANGED <<age, streams>>
       \/ /\ Ensured("batch")
          /\ Touch(model)
          /\ \E n \in 0..streams : streams' = n
          /\ To("chunk")
       \/ /\ Failed("batch")
          /\ streams' = 0 /\ To("over") /\ UNCHANGED age
    /\ UNCHANGED <<loaded, blocks, own, poisoned, pending, kept, batch, aside, model>>

\* The n prefills of a generation leave up to n entries more in the decoder's own
\* cache, in place of others or not, or none if they fail.
Prefills(n) ==
    \E k \in 0..MaxOwn :
        /\ k <= own[model] + n
        /\ own[model] > 0 => k > 0
        /\ own' = [own EXCEPT ![model] = k]

\* The requests that fit in memory are served together, the first one whatever
\* its size, alone then; what is left comes next.  Served together, they fill the
\* decoder's own cache, that of a model without MTP as well.
Chunk ==
    /\ stage = "chunk"
    /\ \/ streams > 0 /\ streams' = streams - 1 /\ Begin("alone") /\ UNCHANGED own
       \/ /\ \E n \in 2..streams : streams' = streams - n /\ Prefills(n)
          /\ UNCHANGED <<stage, goal>>
       \/ streams = 0 /\ Enforce("after batch") /\ UNCHANGED <<own, streams>>
    /\ UNCHANGED <<loaded, age, blocks, poisoned, pending, kept, batch, aside, model>>

Run ==
    /\ \/ (Ensured("run") \/ Ensured("alone")) /\ Touch(model) /\ At("running")
       \/ Failed("probe") /\ To("over") /\ UNCHANGED age
       \/ Failed("run") /\ To("over") /\ UNCHANGED age
       \/ Failed("alone") /\ To("chunk") /\ UNCHANGED age
       \/ Ensured("probe") /\ Begin("run") /\ UNCHANGED age
    /\ UNCHANGED <<loaded, blocks, own, poisoned, jobVars>>

\* A request served alone uses one of the two caches of its model: the prefix
\* blocks, or for MTP the decoder's own, which one of a batch always does if it can.
Generate ==
    \/ /\ model \notin MtpModels \/ goal = "run"
       /\ \E n \in 0..MaxBlocks :
             n <= blocks[model] + 1 /\ blocks' = [blocks EXCEPT ![model] = n]
       /\ UNCHANGED own
    \/ model \in MtpModels /\ Prefills(1) /\ UNCHANGED blocks

\* The budget is enforced after a generation that succeeds only.
Running ==
    /\ stage = "running"
    /\ Generate
    /\ IF goal = "run" THEN Enforce("after run") \/ To("over")
       ELSE Enforce("after alone") \/ To("chunk")
    /\ UNCHANGED <<loaded, age, poisoned, jobVars>>

\* Memory that is still short after a generation fails a request served alone,
\* although it was generated; after a batch it is only logged.
AfterRun ==
    /\ stage \in {"ensured", "failed"} /\ goal \in After
    /\ IF goal = "after alone" THEN To("chunk") ELSE To("over")
    /\ UNCHANGED <<poolVars, jobVars>>

JobStep ==
    \/ PopPending \/ BatchReady \/ Drain \/ TakeOne \/ TakeEnd
    \/ HandleBatch \/ BeginBatch \/ Chunk \/ Run \/ Running \/ AfterRun \/ Over

EngineStep == LoadStep \/ Preload \/ JobStep

\* What a panic may leave behind a poisoned lock: a prefill holds that of its cache
\* when it looks for an entry or leaves one, a purge and the registration of a new
\* decoder hold that of the registry.
Locked ==
    IF stage \in {"chunk", "running"} THEN {model}
    ELSE IF stage \in {"purge own", "load"} THEN Models ELSE {}

\* Mutant of Panic: the engine catches it and takes the next job.
PanicCaught ==
    /\ stage \notin {"idle", "exited"}
    /\ poisoned' \in {poisoned, poisoned \cup Locked}
    /\ To("idle")
    /\ model' = 0 /\ kept' = <<>> /\ batch' = <<>> /\ streams' = 0 /\ aside' = 0
    /\ UNCHANGED <<loaded, age, blocks, own, pending>>

\* A panic of the engine is caught nowhere and kills the process.
Panic ==
    /\ stage \notin {"idle", "exited"}
    /\ poisoned' \in {poisoned, poisoned \cup Locked}
    /\ To("exited")
    /\ UNCHANGED <<loaded, age, blocks, own, jobVars>>

\* The server has ended: a model could not be loaded in advance, or a panic.
Exited == stage = "exited" /\ UNCHANGED vars

Next == EngineStep \/ Receive \/ Panic \/ Exited

Spec == Init /\ [][Next]_vars

\* The engine thread goes on; clients need not come.
FairSpec == Spec /\ WF_vars(EngineStep)

------------------------------------------------------------------------------
\* While a model is in use it stays in its slot, whatever the budget and the limit
\* evict meanwhile: the stages of a batch that take it for loaded are right, and
\* no request of a batch goes unserved because its model went.  When a batch is
\* served, every job of it still belongs to it, though it was admitted earlier,
\* when other models may have been loaded.  The pool holds PoolSize models.
ModelKept ==
    /\ stage \in {"drain", "take", "admit", "chunk", "running"} =>
          model \in loaded
    /\ stage = "admit" => \A i \in DOMAIN batch :
          batch[i].model = model /\ Batchable(batch[i])
    /\ goal \in After => model \in loaded
    /\ LruEnabled => Cardinality(loaded) <= PoolSize
    /\ \A m \in Models \ loaded : blocks[m] = 0 /\ own[m] = 0

\* When the budget comes to the models, and when it fails a request that was
\* generated already, no prefix block and no entry of a decoder's cache is left in
\* any model, nor, at the end, a model that nobody uses: the purgeables are tried
\* one after the other, each skips what it cannot lock, and neither a batch nor a
\* panic in an earlier turn may leave anything they would not see.
CheapestFirst ==
    /\ stage = "purge model" => WithBlocks = {} /\ WithOwn = {}
    /\ stage = "failed" /\ goal \in After =>
          /\ WithBlocks = {} /\ WithOwn = {}
          /\ LruEnabled => loaded = {model}

\* Every turn ends, though memory may never be seen to suffice: the purges run out
\* of things to purge.
TurnsEnd == stage \notin {"idle", "exited"} ~> stage \in {"idle", "exited"}
=============================================================================
