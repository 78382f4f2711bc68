# Saragossa: a TLA+ model of `saragossa serve`

Saragossa is an inference engine for language models on Apple Metal, written in
Rust. Most of its 373 files are numeric: kernels, layers, quantization, audio.
The part whose correctness is a matter of *order* is the server, `saragossa
serve` (`src/src/serve/`), with the decode loops it drives (`src/src/decoder/`)
its models and caches, and the memory guard (`src/src/memory_guard.rs`). Three
more parts are about order too: decoding with drafts, which undoes what it
computed too much of, and, where CPU and GPU meet, the K/V rows shared in place
(`src/src/metal_backend/shared_rows.rs`) and the pool of sparse K/V tiles
(`src/src/metal_backend/sparse.rs`). This project models these parts, checks them
with TLC on small instances and proves what can be proved with TLAPS.

Files:

| file | what it is |
|---|---|
| `ServeDispatch.tla` | the I/O façade and the inference queue, `serve/dispatch.rs` |
| `InferenceLine.tla` | what the façade promises: an abstract bounded line |
| `Subsequences.tla` | the part of a sequence that belongs to a set, in order (`filter`, `retain`) |
| `MCServeDispatch.tla`, `ServeDispatch_*.cfg` | its instances for TLC |
| `ServeDispatchProofs.tla` | its theorems |
| `StreamedReplies.tla`, `StreamedReplies_*.cfg` | streamed answers, alone and in batches: `serve/state.rs`, `serve/http.rs`, `decoder/lightbatch.rs`, `decoder/generation.rs` |
| `StreamedRepliesProofs.tla` | its theorems |
| `SparseKvPool.tla`, `MCSparseKvPool.tla`, `SparseKvPool_*.cfg` | the pool of K/V tiles, `metal_backend/sparse.rs` |
| `SparseKvPoolProofs.tla` | its theorems |
| `ModelPool.tla`, `ModelPool_pool.cfg` | loading and evicting models, the memory budget, the turns of the engine: `serve/state.rs`, `serve/http.rs`, `memory_guard.rs` |
| `ModelPoolProofs.tla` | its theorems |
| `PrefixBlockCache.tla`, `MCPrefixBlockCache.tla`, `PrefixBlockCache_blocks.cfg` | the prefix cache of a model and the prefill that uses it: `serve/cache.rs`, `serve/state.rs` |
| `PrefixBlockCacheProofs.tla` | its theorems |
| `SpeculativeDecode.tla`, `MCSpeculativeDecode.tla`, `SpeculativeDecode_*.cfg` | decoding with drafts: `decoder/generation.rs`, `decoder/resident/mtp.rs` |
| `GreedyDecode.tla` | what it promises: the plain decode loop |
| `SpeculativeDecodeProofs.tla` | its theorems, the refinement of the plain loop among them |
| `SharedKvRows.tla`, `MCSharedKvRows.tla`, `SharedKvRows_rows.cfg` | K/V rows read and extended in place: `metal_backend/shared_rows.rs`, `metal_backend/prefill/resident.rs`, `decode_resident/attention.rs` |
| `SharedKvRowsProofs.tla` | its theorems |
| `DataLemmas.tla` | what the proofs share: induction, and lemmas on sequences, subsequences, ranges and counts |
| `PROJECT.json` | components, runs, mutants, source map, findings, hazards, theorems |

## 1. Inventory

### The parts and how they interact

    accept thread ──spawns──> connection threads (at most max_connections)
                                 │  read head, route, reserve bytes,
                                 │  read body, reserve a place, try_send
                                 ▼
                        sync_channel (queue_depth)
                                 ▼
                 engine thread: run_engine ── handle_job / handle_batch
                                 │                 │
                                 ▼                 ▼
                     ServeState (models, LRU)   sinks (SSE, one per client)
                                 │                 ▲
                                 ▼                 │ on_token, on_event
                     LoadedModel ── decoder loops ─┘
                       │   prefix block cache, K/V rows shared in place
                       │   (to come: K/V in SparseKvPool buffers)
                       ▼
                     memory_guard (process-wide: reservations, purge
                                   registry)

| component | state | operations | what makes it correct |
|---|---|---|---|
| façade, `serve::dispatch` | three capped counters, the channel, the engine's local queue, one thread per connection | accept, handle, acquire/drop of a `Reservation`, run_engine, drain_queue, take_batch, run_job, run_batch | counters equal what is owned on every exit; a reserved place is a place in the channel; sending order; one answer per connection; shutdown ends, panic included |
| streamed answers, `serve::state` + sinks + `decoder::lightbatch` | per client: started, text sent and held, outcome; per stream: current token, step, done | complete_streaming(_batch), drive_batch, lightbatch_generate, sink events and finish | each client gets its own text, once, one head and one end; a stream's end, error or lost client does not touch the others |
| sparse K/V tiles, `metal_backend::sparse` | heaps cut into tiles, free lists and use counts; per buffer: tiles, valid rows, last proof of use, poisoned; the lock | new_buffer, ensure_rows, set_valid_rows, record_use, release_from, drop of a buffer and of the pool | no tile is unmapped or reused under a GPU command; every tile has one place; counters exact; valid rows mapped; one spare heap |
| model pool, `serve::state` | slots (loaded or not), `last_used`, clock, caches of the models | preload, ensure_loaded, evict, enforce_memory_budget, batch_ready, complete_streaming_batch | the pool's cap; the model in use is never evicted; purge order; the budget loop ends |
| prefix block cache, `serve::cache` | blocks chained by hash, sessions, use order, bytes | match_prefix, insert, remove_superseded, evict; prefill_prompt_state, remember_prefix_block | block and byte caps; a request decodes its own prompt; what was just remembered stays |
| shared K/V rows, `metal_backend::shared_rows` | views of a buffer, the register of their ends, the claimed buffers | new, clone, truncate, drop, extended, claim, adopt | no command in flight writes a row that a saved state reads; the claim is given back |
| text streaming, `serve::streaming` | text decoded, text emitted | push_token, emit_until, finish | the concatenated deltas are the completion, cut at the stop text |
| memory guard | reserved bytes, purge callbacks | reserve_allocation, release, purge (its pressure watcher is started nowhere) | reservations never exceed the limit together; a release gives back what was taken |
| guided JSON | stack automaton over characters | push, allowed end | a turn ends only after a closed root value |
| Flint parser, Anthropic blocks | open block, held characters | push, finish | blocks open and close in pairs; no marker is lost or shown |
| speculative decode | K/V of attention and of the head, recurrent state, pending token, drafts | draft, verify, commit, roll back, emit | the tokens are those of the plain loop; the caches are those of the tokens kept |
| tensors, Metal, loaders, audio, CLI | – | – | numeric or pure I/O; not modelled |

### The behaviours that are hard

* **Concurrency.** The façade, the memory guard, the shared rows and the tile
  pool have it: connection threads against the engine thread on the channel and
  on three atomics; one allocating thread against another; the owners of views and
  buffers against each other, and all of them against the GPU, whose commands go on
  after the call that submitted them has returned.
  Everything else runs on the engine thread.
* **Stale decisions.** What the engine has seen of a model when it admits a job
  is used turns later; a hit in the prefix cache is used after evictions; a
  reserve that looked free is claimed a moment later.
* **Undoing.** A turn with drafts writes ahead in three caches of different
  kinds, and each must come back to the last token kept.
* **Failure.** Every write to a client may fail or time out, and a later one may
  succeed; a prefill, a decode step, a load may fail; a connection thread may
  panic (it costs one connection), an engine panic kills the process.
  What it leaves locked is poisoned, and the purges take a poisoned cache for an
  empty one.
* **Ordering.** Jobs set aside from a batch against later ones; streams of a
  batch that end at different times and are renumbered.
* **Timeouts.** Reads have a deadline, writes a timeout; nothing is retried by
  the server but the Start event of the speculative path. Waits for the GPU are
  bounded, and a wait that expires says nothing about the command.

The full list, with the line of each, is under `hazards` in `PROJECT.json`.

## 2. What is modelled

### ServeDispatch (`serve/dispatch.rs`)

One value of `Conns` is a client that may connect again and again. `thread[c]` is
the program counter of its connection thread; one action per stretch of
`Connection::handle` between two accesses to shared state: `ReadHead`,
`AcquireBytes`, `ReadBody`, `AcquireWaiting`, `TrySend`, `DropBytes`,
`EndThread`. `Dispatch` and `StopAccepting` are the accept thread. The engine
thread is `run_engine`, with `drain_queue` and `take_batch` job by job (`Recv`,
`PopPending`, `LeadSolo`, `LeadBatch`, `DrainOne`, `DrainEnd`, `TakeOne`,
`TakeEnd`, `GivePlaceBack`, `Serve`, `DropJob`, `RecvClosed`), so that connection
threads run between any two of its steps. A panic of the engine unwinds
(Cargo.toml sets no `panic = "abort"`): the jobs in hand, the local queue and
the channel are dropped one by one in the order of the Rust drop rules, while
connection threads still run, and then the process is dead (`Crash`).

The three counters are integers that `Reservation::acquire` and its drop change;
whether they equal what is owned is a property, never a definition. `line` is a
history variable: the jobs sent and not started, in sending order.

Merged: the compare-exchange loop of `Reservation::acquire` is one step, at the
exchange that succeeds or the read that gives up (the loop has no other effect);
the end of a connection thread drops the slot and the sender together; a socket
that cannot be configured and a thread that cannot be spawned are one outcome.
Abstracted: the contents of a request are its Content-Length and whether
`batch_chat` admits it (any answer); the work of the engine on a job is `Serve`,
which StreamedReplies details.

### InferenceLine

The promise: one bounded line; a turn takes the first of the line and at most
`MaxStreams - 1` others; the rest keep their order; jobs are lost only when the
engine dies. `ServeDispatch!ImplementsLine` and `ImplementsFairLine` are the
refinement: the abstract line is the history `line`, the running set the jobs in
hand that are not answered yet.

### StreamedReplies (`serve/state.rs`, sinks, decode loops)

What happens inside `Serve` for streamed chat answers. A batch is prepared, cut
into sub-batches (`Split`, the memory decides how many fit) and decoded by the
loop of `lightbatch_generate`: rounds (`BeginRound`), turns (`SkipRow`, `Push`),
decode steps for one stream or for all live ones together (`Decode`, variable
`grouped`), with streams other than the first served every `Stride` rounds.
`Push` makes the whole callback `drive_batch::on_token`: Start if it is the
first, stop token, text, stop text, budget, `finish_flux`, and the end of the
sink. `Collect` ends the streams left open after the loop or after an error of
the decoder. A sub-batch of one, and a job alone, take `complete_streaming`:
`SoloStart` (plain) or `SoloStartMtp` (speculative: Start is sent by the first
token), `SoloToken`, `SoloClose`, with the guided and memory-budget errors.
`Report` is the HTTP error that `handle_batch` or `reply_on_error` writes.

A sink is modelled by what it puts on the wire: `wire` is a sequence of head,
deltas (owner and last token), error, closing event, HTTP error, and `cut`, which
stands where a write or flush failed and any part of it may have gone out. The
environment chooses the kind of each token (shows text, is held back, completes
a stop text, is a stop token, cannot be decoded), the failing writes, the errors
of prefill and decode, and the memory.

Details kept because they matter: the sink counts as open *before* the head is
written; a failed Start of the speculative path leaves the reply unstarted and is
sent a second time after generation; the memory budget checked after a solo
stream turns a fully sent answer into one without closing events, while after a
batch it is only logged; lightbatch and drive_batch each count the tokens of a
stream; in a light-batch stop tokens are seen by drive_batch, not by the loop;
`max_tokens` 0 only reaches a job alone. Not in it: the characters of a delta,
the block structure of the Anthropic protocol, the prefix cache behind the
prefill, non-streamed completions (one write), and the branch of `handle_batch`
for requests no longer admitted, which its comment declares unreachable.

### SparseKvPool (`metal_backend/sparse.rs`)

The pool is not used by prefill and decode yet (its module comment calls it a
foundation); its contract is stated there in full, and this is the cheapest
moment to check it.

`flight[b]` holds the commands of the GPU in flight on buffer `b`, each as the set
of tiles it touches; `Complete` ends the oldest. A `UseProof` is the number of
those commands it still waits for: `Use` submits a command and records a proof
behind it (`record_use`), as the module comment asks. The operations of the owner
of a buffer are `new_buffer`, `set_valid_rows`, `Use`, `ensure_rows`,
`release_from` and `Drop`. `stage[b]` is where its call stands: `ensure_rows` takes
tile after tile and heap after heap (`TakeTile`, `AddHeap`, `RefuseHeap`,
`MapTiles`); `release_from`, and `Drop` through it, waits without the lock
(`Proven`, `Unproven`), then unmaps (`Unmap`, `UnmapRefused`) or poisons
(`Expire`), and frees surplus heaps (`DrainHeap`, `DrainEnd`); `Leak` is the drop
that gives the buffer up. What happens under the lock is cut into these steps to
state each once; `Unlocked` keeps the lock-holders apart, while commands end and
other buffers wait in between. The environment refuses heaps, withholds the
confirmation of a map or unmap, lets proofs expire, and panics with the lock
(`PoisonMutex`), after which every call fails at its lock but the `leak` of a drop.

`lost` stands for the counters of leaked tiles, by name. `TileProofs` chooses the
contract of the proof given to `release_from` (section 5). Abstracted: the Metal
calls, the statistics (`virtual_bytes`, `stats`), `use_heaps`; a panic with the
lock strikes between two critical sections. Assumed of the caller: a command is
submitted and recorded without a panic in between, which the module comment
requires.

### ModelPool (`serve/state.rs`, `serve/http.rs`, `memory_guard.rs`)

The engine again, from the side of the models. A turn loads its model up to four
times: to see whether it can lead a batch (`ready`), which format it writes
(`probe`, `flint`), and to run (`run`, `batch`, `alone`); `goal` says what for,
`stage` where the loading stands: `Ensure`, `CheckMemory` and the purges (the
budget loop), `PoolLimit`, `Load`. The same loop runs after a generation (`After`).
`purge_one_for_memory_budget` tries three purgeables in their order, each a step:
`PurgeBlock`, a prefix block of the least recently used model that has one;
`PurgeOwn`, an entry of a decoder's own prefix cache through the process registry;
`PurgeModel`, a model. The first that frees something leads back to `CheckMemory`,
one that finds nothing to the next.

The two kinds of cache are filled in different ways (`Generate`, `Prefills`). A
request served alone uses the prefix blocks, or for MTP the decoder's own cache. The
streams of a batch are prefilled one by one through the decoder's own cache, that of
a model without MTP as well (`Chunk`; `prefill_cache_state`,
`decoder/generation.rs:3895`), although the comment at `runtime_flags.rs:1797` gives
that cache to MTP alone: `own` of a model without MTP is above 0 in many states of
`models`.

`PurgeOwn` sees only what it can lock (`OwnPurgeable`): a poisoned process registry,
or the poisoned cache of a decoder, answers "empty". `Panic` may strike at any step
of the engine, and poisons the lock that the step held (`Locked`): the cache of the
model in a prefill, the registry, and with it the entries of all, in a purge or in a
load. As in the code it ends the process, and nobody purges afterwards: only the
engine thread takes these locks, since nothing in the repository starts the pressure
watcher of `memory_guard.rs:466`. `CheapestFirst` rests on that, and its mutant
`PanicCaught` lets the engine go on.

`Queued` keeps of a job what `batch_chat` saw when it was received; `HandleBatch`
asks `batch_chat` again when the batch is served, and serves alone (`Over`) what
fell out. The branch is there although its comment calls it impossible; that it is
impossible is part of `ModelKept`.

Abstracted: memory is over its limit or not, at each look, as the system likes;
the clock of `last_used` is a rank; caches are counted, up to `MaxBlocks` and
`MaxOwn`; the sizes of models, audio and embedding models are left out, the latter
because they share nothing with the pool but the engine thread.

### PrefixBlockCache (`serve/cache.rs`, `serve/state.rs:1218-1345`)

One model's cache under `prefill_prompt_state`: `Bypass`, `Match` or `Miss`, then
`Extend` or `PrefillCold`, then `MakeRoom`, `Skip` or `Remember`. `Match` moves the
hit to the front whether or not it is then declined; `Extend` drops the blocks of
the session that only hold a copy of what it has copied; `Fail` is any `?` on the
way; `Purge` is the budget between two requests.

A prompt is the sequence of its complete blocks, a hash the chain it stands for
(no collisions). A state knows whose prompt it has read (what the properties are
about) and in which allocations its K/V lies, because the byte cap counts an
allocation once however many blocks share it: an extension may write behind the
prefix in place, add an allocation, or copy everything (`ExtendedKv`).

### GreedyDecode and SpeculativeDecode (`decoder/`)

GreedyDecode is the plain loop: one forward, one token, one callback. `line` is what
the model would answer; sampling and weights are in it.

SpeculativeDecode is `generate_greedy_mtp_core`. A turn drafts, runs the model over
the drafts at once, keeps those it agrees with and undoes the rest; the fused path
of one draft, that of two, and the general one each undo differently, and a
generation changes path from turn to turn with the adaptive depth, the n-gram table
and the end of the token limit. K/V rows are cut by length and stay in memory, so
the model keeps the rows beyond the length and marks which are live: a cut beyond
the length brings old rows back. The recurrent state cannot be cut; it is restored
from the capture of a row, or from a snapshot with a replay. The head's cache has
rows owed from one turn to the next (`Flush`). Emission runs before, during and
after the work of the GPU, with its own scan for stop sequences.

The environment chooses the model's line, every draft, what the table proposes, the
average that drives the adaptive depth, and the answers of the callback. Left out:
the GPU block and DFlash (developer builds), the pipelined form of the plain loop,
the reuse of a prefix before the prefill, statistics and profiling. `mode` is the
configuration of a generation, of which `MCModes` has eleven.

### SharedKvRows (`metal_backend/shared_rows.rs`, prefill, adoption)

The K/V of a prompt stays in the buffer the prefill wrote, with room behind it.
Every saved state that has this prompt as a prefix is a view; a writer (a prefill
that goes on, or the arena of a decode) may use the room behind the longest. It
claims both buffers (`Claim`), then asks the register of ends, key before value
(`CheckKey`, `CheckValue`, `Refuse`), while other threads clone, cut and drop their
views; a cut moves an end in two critical sections (`CutBegin`, `CutEnd`). A prefill
publishes longer views (`PublishKey`, `PublishValue`), an arena writes and rolls
back (`Write`, `RollBack`). `flight` holds the rows that commands of a writer may
still write; `GpuWrites` ends them one by one, and what a writer waits for before
it gives its claim back is `Waited`.

A view is one `SharedRows` value whoever shares its `Arc`. Left out: views that start
inside a buffer (never extended), the copy a refused writer makes, and a poisoned
lock of the claims; an arena borrows its two views until it has adopted them, a
prefill to its end. Compaction of a tree of drafts is `RollBack` and `Write`.

## 3. The runs

| run | instance | states | shows |
|---|---|---|---|
| `line` | 4 clients, 2 models, bodies of 0 and 2 bytes under a cap of 3, 3 connections, queue of 3, batches of 2 | 1.5 M | the counters equal what is owned in every interleaving, panics included, and their caps hold; sending order through drain and split; a batch is exactly the leader and the oldest of its model; one answer per connection; a stopped server holds nothing; refinement of InferenceLine |
| `live` | 3 clients that come back for ever | 119 k | every queued job is served, every thread ends, shutdown ends, fair refinement |
| `batch` | 3 streams, up to 2 tokens, stride 1 | 1.4 M | own text only, lightbatch and drive_batch agree, everyone is answered, outcomes are final |
| `text` | 2 streams, up to 3 tokens, stride 2, all kinds of token | 1.3 M | well-formed wires on every path, held text sent once, batches end |
| `models` | 3 models, 2 with MTP, a pool of 2, queue of 2, batches of 3, panics | 1.4 M | the model of a turn stays loaded where the turn relies on it, batches keep their jobs, the pool keeps its size, no cheaper entry is left when the budget comes to the models or fails a request, every turn ends |
| `blocks` | 2 sessions, prompts of up to 3 blocks that branch, capacity 3, 2 per session, 2 allocations | 334 k | caps; each block holds the state of its key; a request decodes its own prompt and its boundary stays in front |
| `exact` | 5 new tokens of 3, 11 configurations | 468 k | caches, state and head are those of the tokens kept; refinement of GreedyDecode |
| `rows` | 2 writers, 5 views, 2 rows | 91 k | no command writes a row a live view covers; register and claims exact |
| `pool` | 2 buffers of up to 3 tiles, 2 heaps of 2, rows of 3 bytes on tiles of 4, one command in flight each | 2.5 M | nothing is unmapped, recycled or freed under a command; tiles conserved over refusals, expired proofs, poisonings, drops and the end of the pool; valid rows mapped; one spare heap |
| `proofs` | 1 buffer of 2 tiles, 2 commands, proofs that cover the released tiles only | violated | section 5 |
| `contract` | 2 streams, 1 token | violated | section 5 |
| `fresh` | 4 new tokens, fresh history, adaptive depth | violated | section 5 |

**Why these bounds.** Every cap is below the number of clients, so each 503 is
reached while others hold what it protects: two bodies of 2 do not fit under 3,
three clients do not fit in two slots or two places. In `line` four clients over
two models are the least that leaves a kept job in front of a batched one, fills
a batch, and has a job arrive in the channel during the drain. Three streams are
the least with which a stream in the middle ends and renumbers its successor;
three tokens are the least that hold text back twice and then show it. A queue
depth, connection cap and stream count of 0 are refused by `runtime_flags.rs`, a
byte budget of 0 is not; the assumptions on the constants say the same. The
client symmetry is used in the safety run only. In `models` three models share a
pool of two, so that loading one costs another, and each kind of purgeable can run
out before the next; a job can be admitted for one model while another is loaded,
wait through two turns, and lead. Prompts of three blocks are the least with a hit
below half; two of them branch from the same prefix, so that blocks share
allocations and a copy supersedes another's; capacity, share and byte cap are each
below what the prompts would fill. Five tokens let a turn of three drafts be
followed by one of another kind; two drafts owed and a turn without them is the
longest debt of the head. Two rows and five views: a prefill that publishes has
two old views and two new ones, and there is one in between; buffers of one row
would have no view shorter than another. In `pool`, two buffers of three tiles do
not fit on two heaps of two, so growth spans heaps and is refused half-way, and a
heap can be empty while the free tiles exceed one heap; rows and tiles are not
aligned. One command in flight lets a proof expire under it; that one proof can be
older than another needs two, in `proofs`. Views, writers and buffers are
interchangeable and nothing about them is about liveness.

**Fairness.** `ServeDispatch` assumes weak fairness of each connection thread and
of the engine. It is what the code gives: sockets have read and write timeouts
and heads and bodies a deadline (`http.rs:90-111`, `read_head`, `read_body`),
nothing else in a connection thread blocks (`try_send`, never `send`), and a
generation is bounded by `max_tokens`. No fairness of clients, of the accept
thread or of its failure is assumed: new clients may come for ever (`JobsServed`
holds against them), or never. `StreamedReplies` assumes weak fairness of the
engine thread's next step only; which step, and what the environment answers, is
free. `ModelPool` assumes weak fairness of the engine thread: `TurnsEnd` holds even if
memory never suffices, because every purge leaves less to purge. No liveness is
stated of the decode loop: its steps are those of one call, bounded by the token
limit, and TLC's check for deadlock shows that it is never stuck before it returns.

**Mutants.** Every property has a mutant, an operator of the module placed before
the definition it replaces, which is the code with a plausible bug (a
reservation not given back, an off-by-one in a cap, `push_front` for `push_back`,
a rank used for an index, a panic caught that should end the process). TLC finds the property violated with it.

## 4. The proofs

Every safety property, action property and refinement that a passing run checks on a
small instance is proved for every value of the constants; what is left to TLC is
liveness. `PROJECT.json` lists the theorems. The modules assume only what the code
guarantees of its parameters (the named `ASSUME`s, each evaluated by TLC on the runs).

**Induction over data.** The library's induction theorems take an operator as a
parameter and cannot be cited here. `DataLemmas.tla` states induction for a *set*
instead: `NatsByInduction` (a set that has 0 and each successor has every number) and
`SequencesByInduction` (a set that has the empty sequence and each extension has every
sequence over `S`), both from the least element of a set of numbers. A proof defines
the set of sequences for which the claim holds and shows that it has them all. So are
proved the lemmas on `Keep` (the part of a sequence that is in a set): what it has, how
long it is, that it keeps distinct elements distinct and distributes over
concatenation. No recursive operator is used by a proof.

### The façade (`ServeDispatchProofs.tla`)

For any finite set of clients, any models and any limits (`ConnsAssumption`,
`LimitsAssumption`, `NoModelAssumption`):

* `TypeCorrect`: `Spec => [](TypeOK /\ EngineShape)`;
* `CountersCorrect`, `CountersExactAlways`: the three counters are exact, `inflight`
  to the byte, and their caps hold;
* `SendsSucceed`: `[]HolderCanSend`, both error branches of `try_send` are dead
  code until the engine panics;
* `DrainsReachAll`: a drain ends only on an empty channel;
* `AnsweredOnceAlways`: what a client got never changes while its connection is
  open, and no connection is closed before something is settled;
* `StopsClean`: a server that has returned holds nothing;
* `LineInOrder`: the waiting jobs stand in the order in which they were sent;
* `BatchesAreFirst`: a batch is the leader and the oldest other jobs of its model;
* `ServerIsLine`: the façade implements InferenceLine.

The inductive invariant begins with `TypeOK /\ EngineShape` and the exactness of two
counters with their bounds. `EngineShape` ties the stage of the engine to what it
holds (a leader owns its place until `GivePlaceBack`, `kept` is used only while
taking, a stopped engine has no sender left): without it, neither the number of
places given back nor `Room` follows. `HolderCanSend` then is arithmetic: the
sender owns one place, each job in the channel another, and their sum is at most
`QueueDepth`; and its own sender keeps `RecvClosed` from happening.
`DrainsReachAll` needs that the leader owns a place too, so the local queue never
reaches the cap of the drain. `AnsweredOnceAlways` rests on `Answering`: until its job
is sent a connection has no answer and is no job, and a thread about to end leaves
a job or an answer behind; what the engine and its end may do to a job is stated
once, as `Handled`.

The bytes are a sum over the owners. `BytesOf` makes it the size of a set with one
element for each byte reserved, so that a reservation adds, and a release removes, a
part that is disjoint from the rest, and the cardinality theorems apply.

The order is `LineInv`. While the engine takes a batch there is a sequence `seen`, the
front of the line looked at so far, of which the batch and the jobs set aside are the
two parts in order (`Split`), and the batch has left out a job of its own model only
once it was full (`FirstOfModel`); at every other stage the line is the jobs in hand
followed by the local queue and the channel (`InLine`). No job is at two places
(`JobsDistinct`) and none has an answer before it is served (`Unanswered`).
`BatchIsFirstOfModel` and the refinement follow: a turn of the server, however many
steps its drain and its selection take, is one `Start` of the line, and every other step
is a `Join`, a `Finish`, the death of the engine or a stutter.

### Streamed answers (`StreamedRepliesProofs.tla`)

For any number of clients, any budgets, stride and kinds of token:

* `TypeCorrect`, `TextCorrect`, `AnswersFormed`, `AnswersComplete`, `AgreementCorrect`,
  `AllAnsweredAlways`: `TypeOK`, `OwnText`, `WellFormed`, `NothingLost`, `StreamsAgree`
  and `AllAnswered` are invariants;
* `OutcomesFinal`: `Spec => OutcomeFinal`.

The inductive invariant says in which of a few states each reply is: without an outcome
it has written all it was to write (`Ready`, or `Broken` once a write or a token has
failed while a job alone is being closed); with one it waits for its report
(`Closed`) or has had it (`Told`). Around that, `Requests` and `Pending` keep each
request in one place, `Untouched` says that nothing is sent before a request is
decoded, `Decoding` adds to `StreamsAgree` what both counters know of the budget,
`LiveRows` ties the live streams to the part of the round the loop has passed, and
`Alone` is the path of a job alone. `StreamsAgree` is not inductive without it: a decode
step counts for the live streams only, so it must be known which those are. `OwnText`
needs that a reply without an outcome has no failed write on its wire, and
`NothingLost` that the last token of a running reply is either shown or held back.

### The tile pool (`SparseKvPoolProofs.tla`)

For any set of buffers and any sizes (`SizesAssumption`):

* `TypeCorrect`: `Spec => []TypeOK`;
* `UseProtected`: `ASSUME ~TileProofs PROVE Spec => []InUseKept`;
* `LedgerCorrect`: `Spec => []LedgerExact`, whatever proofs are handed over;
* `ValidRowsMapped`: `Spec => []ValidMapped`;
* `SpareBounded`: `Spec => []OneSpareHeap`.

`UseProtected` rests on `ProofsCover`: a recorded proof, or one that is waited
for, waits for exactly the commands in flight on its buffer. It is inductive
because `Use` needs an idle owner, because `Sooner` moves a proof with the command
that ends, and because an expired proof is forgotten; hence nothing is in flight
on a buffer between the end of the wait and the unmap, and every other loss of a
tile is a loss for ever. The violated run `proofs` is this invariant broken when
the assumption is dropped. `LedgerCorrect` adds `DropShape`: a buffer that is gone
has no tiles, which needs that a drop releases down to row 0 and ends only after
the unmap or the loss, and that tiles are only `taken` while somebody grows. With
it the last owner can free the heaps. The use counts are related to the free lists
by the cardinality theorems of the library.

`ValidMapped` is about rounding: rows are cut into tiles whose size need not be a
multiple of theirs. The quotients are eliminated by lemmas (`RowsInGrow`, `RowsHeld`)
that are products of two unknowns, proved by hand from monotonicity; `ValidParts`
adds that a release under way has lowered the valid rows before it takes a tile away.
`OneSpareHeap` is `SpareInv`: when the pool holds more than one heap of free tiles
while some heap is empty, somebody is draining; the drain ends only when no heap may be
freed, and by `LedgerExact` the counter it looks at tells the truth.

### The model pool (`ModelPoolProofs.tla`)

For any number of models and any limits (`Limits`):

* `ModelKeptAlways`: `Spec => []ModelKept`;
* `ModelsLast`: `Spec => []CheapestFirst`.

`ModelKept` speaks of the stages that use a model; the invariant adds what every
stage before them knows: which goals imply a loaded model (`InUse`), that the
stages that load do so for a model that is missing (`Missing`), from which the pool
limit follows because a missing model is not among those that may be evicted, and
that a session waiting to be batched is for an MTP model (`Admitted`), which is
what makes the second look of `batch_chat` agree with the first.

`CheapestFirst` is a claim about what is left in the caches, while a purge only knows
that it found nothing it could lock. `Spared` closes the gap: no lock is poisoned while
the engine lives (every step but `Panic` leaves `poisoned` alone, and `Panic` ends it),
and what a purge has emptied stays empty until the next one is tried. That a
generation that fails for memory leaves no model but its own needs `InUse` too.

### The prefix cache (`PrefixBlockCacheProofs.tla`)

For any sessions, prompts, sizes and caps (`Limits`):

* `CacheCorrect`: `Spec => []CacheSound`;
* `ServedOwnState`: `Spec => []ServedOwn`.

`Good` says that every block is the block of some state with K/V, that none is there
twice, and that two blocks never share a key; `Fit` is the three caps. Each operation of
the cache keeps a part of the blocks (`Part`) and puts at most one in front, so `Good` is
kept whatever the order; the three loops of the insertion end with the caps and leave the
block just put there. `PrefillShape` follows the request: after a miss, or a hit on less
than the prompt, no block is under the key of the whole prompt (`Absent`), so what is
remembered is new; and once it was inserted or found it is the first one (`Found`).

### Decoding with drafts (`SpeculativeDecodeProofs.tla`)

For any vocabulary, stop tokens and stop sequences, any length of answer and of prompt,
and any set of configurations (`ModeAssumption`, `SeedAssumption`, `LimitAssumption`,
`StopAssumption`):

* `TypeCorrect`: `Spec => []TypeOK`;
* `CachesExact`: `Spec => []StateExact`;
* `HeadRowsExact`: `Spec => []HistoryExact`;
* `DraftsChangeNothing`: `Spec => ImplementsGreedy`, the refinement of GreedyDecode.

`Pre(n)` is the first `n` tokens of the model's line. The first part of the module
proves what the buffers do: `Holds(c, s)` says that the K/V rows, the recurrent state and
the position of `c` are those of `s` and nothing else, and it survives a forward, a cut
with a capture (`HoldsCutBack`) and a snapshot with a replay (`HoldsReplay`);
`HeadExact(m, h)` says that the head has the rows of the first `h` tokens, the last of
them perhaps due. The second proves that a turn leads from `Drafting(n)` (the n-th token
taken, not yet in the caches) to `Between(n + k)`, for one draft (`TurnOne`), two
(`TurnTwo`) and the general path (`TurnGeneral`, on `VerifyOnLine`: what is kept of the
drafts is the line as far as it agrees). `DueShape` is what makes the paths fit together:
rows are left due only in configurations in which every later turn appends them first.

The inductive invariant of the call, `Inv`, says for each place of the loop how far the
answer, the search for stop sequences and the emission have come. No stop sequence ends
among the tokens searched (`Searched`); what was given is the beginning of the line that
is counted, or the one token given before the loop (`InStep`, `Ahead`), and it is never
more than one token ahead of the search; while the GPU works all but the last token may
be due. It is these bounds that keep a token after a stop sequence from being given
although a turn commits several at once. `GreedyNext` maps each step: a token given is
`Emit` of the plain loop, the returns are its `Return`, everything else stutters. TLC
checked `Inv` on the configurations of `exact`, with four new tokens, before it was
proved.

### Rows shared in place (`SharedKvRowsProofs.tla`)

For any finite set of views, any writers and rows (`SizesAssumption`): `TypeCorrect`,
`RegistryCorrect` (`[]RegistryExact`), `ClaimCorrect` (`[]ClaimExact`) and `RowsUntouched`
(`[]Untouched`). The register counts a view at both of its ends while it is being cut, so
a writer that finds no end above its own knows that no live view is longer; the invariant
carries that from the check over every later clone, cut and drop (`Reserved`), ties the
two views of a writer together (`Borrows`, `Pairs`) and keeps its commands above what was
published (`Flights`).

### What is only model-checked

Liveness: `JobsServed`, `ThreadsEnd`, `ShutdownEnds`, `ImplementsFairLine` (its safety half
is `ServerIsLine`), `JobsEnd` and `TurnsEnd`. It needs `ENABLED` and the fairness of
actions, which the prover does not handle. The three violated runs are counterexamples,
and have nothing to prove.

## 5. Three disagreements between comment and code

`CompletionSink::finish` (`serve/streaming.rs:78`) and `complete_streaming_batch`
(`serve/state.rs:236`) say that an error handed back has not been written, because
the answer has not started, so that the caller may send the HTTP error. The run
`contract` shows the case in which it has started: the head and the text are
sent, then a write or the flush of the *closing* events fails; `OpenAiSse::finish`
and `AnthropicSse::finish` return that error, and the caller writes an HTTP head
and error body on the same connection. A write that failed on its timeout may be
followed by one that succeeds, so a slow client can see it. Everything else about
the wire (`WellFormed`) is stated for clients none of whose writes fail, and
holds.

`SparseKvBuffer::record_use` (`metal_backend/sparse.rs:743`) says that it keeps the
most recent proof for the drop. `release_from` calls it with whatever proof it was
given (`:862`, `:881`), and the comments ask of that proof only that it stands
behind the last commands on the tiles *given back* (`:16-18`, `:847-850`), so it may
be older than the recorded one: a later command that uses only the tiles that stay
is recorded, a release of the others replaces its proof with the older one, and
the drop then waits for the older one alone and recycles tiles the GPU still uses.
The run `proofs` shows it on two tiles. The tests always pass a proof signalled behind everything, and
with that contract the property holds (`pool`, `UseProtected`).

The comment at `decoder/generation.rs:1742-1746` says that in fresh mode the history
of the head is left alone, which avoids a cut beyond its real length that would
expose stale rows. With an adaptive depth the modes mix: a turn of one draft cuts
the head to nothing and writes its first row, while the tracked length stays that of
the prompt; the next turn of two drafts, or of the general path, cuts to that
length, and the head attends rows of an earlier use as history
(`decoder/resident/mtp.rs:274`). The run `fresh` shows it. Only the quality of the
drafts suffers: `exact` includes this mode, and its answers are those of the plain
loop.

## 6. The plan

Done, in this order: the façade and its line; streamed answers; the tile pool;
speculative decode over the plain loop; rows shared in place; the prefix cache; the
model pool. What the code still has, the most valuable first:

1. The reservations of `memory_guard.rs` against a footprint that other threads
   move (`reserve_allocation`, release): the footprint is read between the load and the
   exchange of the counter, so a counter that came back to its value hides a stale
   one. To state: the reserved counter is exactly the sum of the live reservations.
2. The text held back (`serve/streaming.rs:257`), as a pure algorithm against a
   reference definition over bounded inputs.
3. The guided JSON automaton, the Flint parser, the Anthropic blocks.
4. The prefix cache of a decoder (`decoder/generation.rs`), whose entries ModelPool
   only counts, and the rows of the multi-stream caches.

Proofs: nothing that a run checks is left but liveness. What is modelled next should
come with its inductive invariant; the reservations of the memory guard are the first
candidate, since their sum is the kind of count that `BytesOf` handles.

## 7. Not modelled

The Metal backend but for the tile pool and the shared rows, tensors, quantization
and the numeric layers; audio and embeddings beyond being jobs of the engine;
loaders, tokenizer, templates and sampling; command line, benchmarks and developer
tools. They are numeric, pure, or input and output without a protocol, and they
are most of the repository: the lines mapped here are a small share of it by size,
and most of what it has of concurrency, failure and order. The parts of section 6
could be modelled and are not yet. `PROJECT.json` gives the reason for each.
