--------------------------- MODULE ServeDispatch ---------------------------
(***************************************************************************)
(* The I/O façade of `saragossa serve` (src/src/serve/dispatch.rs).        *)
(*                                                                         *)
(* An accept thread gives every connection a thread of its own; that       *)
(* thread reads the request, answers what needs no model, and hands the    *)
(* rest to the engine thread through a bounded channel.  Three capped      *)
(* counters (connections, bytes of request bodies, jobs waiting for the    *)
(* engine) are taken by `Reservation::acquire` and given back when the     *)
(* Reservation is dropped.  The engine serves one job at a time or, when   *)
(* batching is on, a batch of waiting jobs of one model.                   *)
(*                                                                         *)
(* One value of Conns is a client: it may connect again once its previous  *)
(* connection is closed.  A connection is handled by its thread (thread[c])*)
(* and, once it is sent, lives on as a job of the engine.                  *)
(***************************************************************************)
EXTENDS Integers, Sequences, FiniteSets, Functions, Subsequences

CONSTANTS
    Conns,             \* clients that connect to the server
    Models,            \* names of chat models a batch can be formed for
    NoModel,           \* Queued::model = None: the job takes the solo path
    BodySizes,         \* values of Content-Length
    MaxConnections,    \* SARAGOSSA_SERVE_MAX_CONNECTIONS
    MaxInflightBytes,  \* SARAGOSSA_SERVE_MAX_INFLIGHT_BYTES
    QueueDepth,        \* SARAGOSSA_SERVE_QUEUE
    MaxStreams         \* SARAGOSSA_SERVE_MAX_STREAMS, 1 when batching is off

ASSUME ConnsAssumption == IsFiniteSet(Conns)

ASSUME LimitsAssumption ==
    /\ MaxConnections \in Nat \ {0}
    /\ QueueDepth \in Nat \ {0}
    /\ MaxStreams \in Nat \ {0}
    /\ MaxInflightBytes \in Nat
    /\ BodySizes \subseteq Nat

ASSUME NoModelAssumption == NoModel \notin Models

VARIABLES
    acceptor,     \* the accept thread: does it still hold the dispatcher?
    thread,       \* [Conns -> ThreadStages]: where each connection thread is
    length,       \* [Conns -> Nat]: Content-Length of the request in hand, the
                  \*   amount of its Reservation; 0 when there is none
    model,        \* [Conns -> ModelOrNone]: Queued::model of a received job
    answer,       \* [Conns -> Answers]: what the client got on its connection
    connections,  \* counter of open slots
    inflight,     \* counter of reserved body bytes
    waiting,      \* counter of places of the inference queue
    channel,      \* contents of the sync_channel
    engine,       \* stage of the engine thread
    pending,      \* the engine's local queue
    kept,         \* take_batch: jobs set aside for the next turns
    batch,        \* the leader, then the jobs batched with it
    places,       \* number of jobs of batch that still own their waiting place
    line          \* history: the jobs sent and not started, in sending order

vars == <<acceptor, thread, length, model, answer, connections, inflight,
          waiting, channel, engine, pending, kept, batch, places, line>>

counters == <<connections, inflight, waiting>>
engineVars == <<channel, engine, pending, kept, batch, places, line, model>>

ThreadStages == {
    "none",   \* no thread
    "head",   \* reads the request line and the headers, then routes
    "bytes",  \* about to reserve the bytes of the body
    "body",   \* reads the body
    "wait",   \* about to reserve a place in the queue
    "send",   \* owns a place, about to try_send
    "drop",   \* returns without a job: still owns its bytes
    "exit"}   \* ends: still owns its sender and its connection slot

EngineStages == {
    "idle",          \* between two turns of run_engine's loop
    "leading",       \* has a leader, has not yet decided how to run it
    "draining",      \* drain_queue
    "taking",        \* take_batch
    "starting",      \* run_job, run_batch: gives the waiting places back
    "serving",       \* handle_job, handle_batch, then the drop of the jobs
    "stopped",       \* the loop has ended
    "unwinding",     \* a panic drops the locals of run_engine
    "disconnected",  \* the receiver is dropped, the process not yet dead
    "exited"}        \* the process is dead

Answers == {
    "none",        \* nothing yet
    "front",       \* by the connection thread: /health, /v1/models, 401, 400
    "dropped",     \* closed without a word
    "full",        \* 503: one of the three caps is reached
    "disconnected",\* 503: the engine has stopped
    "served"}      \* handled by the engine

ModelOrNone == Models \cup {NoModel}

\* The types of the program's own state; LineOrder types the history.
TypeOK ==
    /\ acceptor \in {"accepting", "stopped"}
    /\ thread \in [Conns -> ThreadStages]
    /\ length \in [Conns -> Nat]
    /\ model \in [Conns -> ModelOrNone]
    /\ answer \in [Conns -> Answers]
    /\ connections \in Int
    /\ inflight \in Int
    /\ waiting \in Int
    /\ channel \in Seq(Conns)
    /\ engine \in EngineStages
    /\ pending \in Seq(Conns)
    /\ kept \in Seq(Conns)
    /\ batch \in Seq(Conns)
    /\ places \in Nat

Init ==
    /\ acceptor = "accepting"
    /\ thread = [c \in Conns |-> "none"]
    /\ length = [c \in Conns |-> 0]
    /\ model = [c \in Conns |-> NoModel]
    /\ answer = [c \in Conns |-> "none"]
    /\ connections = 0
    /\ inflight = 0
    /\ waiting = 0
    /\ channel = <<>>
    /\ engine = "idle"
    /\ pending = <<>>
    /\ kept = <<>>
    /\ batch = <<>>
    /\ places = 0
    /\ line = <<>>

-----------------------------------------------------------------------------
\* The jobs the engine side owns: their sockets are open.
Jobs == Range(channel) \cup Range(pending) \cup Range(kept) \cup Range(batch)

\* The client c has no open connection.
Closed(c) == thread[c] = "none" /\ c \notin Jobs

Alive == engine # "exited"
ReceiverAlive == engine \notin {"stopped", "disconnected", "exited"}

\* Mutant of Fits: the test forgets the amount it is about to add.
FitsBefore(counter, amount, max) == counter <= max

\* The test of Reservation::acquire.  Its compare-exchange loop is one step
\* here: it takes effect where the exchange succeeds, it gives up where it read
\* a counter that is too high.
Fits(counter, amount, max) == counter + amount <= max

\* The connection c got the answer a; its thread goes on at the given stage.
Reply(c, a, stage) ==
    /\ answer' = [answer EXCEPT ![c] = a]
    /\ thread' = [thread EXCEPT ![c] = stage]

Goto(c, stage) ==
    /\ thread' = [thread EXCEPT ![c] = stage]
    /\ UNCHANGED answer

\* The Reservation of the body's bytes of c is dropped.
ReleaseBytes(c) ==
    /\ inflight' = inflight - length[c]
    /\ length' = [length EXCEPT ![c] = 0]

-----------------------------------------------------------------------------
(* The accept thread. *)

\* Dispatcher::dispatch: the slot and the thread are there, or the cap is
\* reached (503), or the socket cannot be configured or the thread spawned, in
\* which case the slot is given back at once and the socket closed.
Dispatch(c) ==
    /\ Alive /\ acceptor = "accepting" /\ Closed(c)
    /\ \/ /\ Fits(connections, 1, MaxConnections)
          /\ connections' = connections + 1
          /\ Reply(c, "none", "head")
       \/ /\ ~Fits(connections, 1, MaxConnections)
          /\ Reply(c, "full", "none")
          /\ UNCHANGED connections
       \/ /\ Reply(c, "dropped", "none")
          /\ UNCHANGED connections
    /\ UNCHANGED <<acceptor, length, inflight, waiting, engineVars>>

\* accept_all: the first error of the listener ends the thread, which drops its
\* sender.
StopAccepting ==
    /\ Alive /\ acceptor = "accepting"
    /\ acceptor' = "stopped"
    /\ UNCHANGED <<thread, length, answer, counters, engineVars>>

-----------------------------------------------------------------------------
(* The connection threads: Connection::handle. *)

\* How a connection ends before its body is read: a bad or late head, a static
\* route and a bad bearer are answered; a socket closed by its client, or by a
\* panic of the thread, is not.
HeadAnswers == {"front", "dropped"}

\* read_head and route_front.  Only the other requests go on, with their
\* Content-Length.
ReadHead(c) ==
    /\ Alive /\ thread[c] = "head"
    /\ \/ /\ \E a \in HeadAnswers : Reply(c, a, "exit")
          /\ UNCHANGED length
       \/ /\ \E n \in BodySizes : length' = [length EXCEPT ![c] = n]
          /\ Goto(c, "bytes")
    /\ UNCHANGED <<acceptor, counters, engineVars>>

AcquireBytes(c) ==
    /\ Alive /\ thread[c] = "bytes"
    /\ \/ /\ Fits(inflight, length[c], MaxInflightBytes)
          /\ inflight' = inflight + length[c]
          /\ Goto(c, "body")
          /\ UNCHANGED length
       \/ /\ ~Fits(inflight, length[c], MaxInflightBytes)
          /\ Reply(c, "full", "exit")
          /\ length' = [length EXCEPT ![c] = 0]
          /\ UNCHANGED inflight
    /\ UNCHANGED <<acceptor, connections, waiting, engineVars>>

\* A body cut short or late is answered; a panic closes the connection.
BodyAnswers == {"front", "dropped"}

\* read_body, complete or not.
ReadBody(c) ==
    /\ Alive /\ thread[c] = "body"
    /\ \/ Goto(c, "wait")
       \/ \E a \in BodyAnswers : Reply(c, a, "drop")
    /\ UNCHANGED <<acceptor, length, counters, engineVars>>

\* Mutant of AcquireWaiting: the thread waits for a place instead of answering.
AcquireWaitingBlocks(c) ==
    /\ Alive /\ thread[c] = "wait"
    /\ Fits(waiting, 1, QueueDepth)
    /\ waiting' = waiting + 1
    /\ Goto(c, "send")
    /\ UNCHANGED <<acceptor, length, connections, inflight, engineVars>>

AcquireWaiting(c) ==
    /\ Alive /\ thread[c] = "wait"
    /\ \/ /\ Fits(waiting, 1, QueueDepth)
          /\ waiting' = waiting + 1
          /\ Goto(c, "send")
       \/ /\ ~Fits(waiting, 1, QueueDepth)
          /\ Reply(c, "full", "drop")
          /\ UNCHANGED waiting
    /\ UNCHANGED <<acceptor, length, connections, inflight, engineVars>>

\* The room of the sync_channel, which try_send needs.
Room == Len(channel) < QueueDepth

\* try_send: the job and its two reservations move into the channel, or come
\* back in the error; then 503 and the drop of the job.
TrySend(c) ==
    /\ Alive /\ thread[c] = "send"
    /\ \/ /\ ReceiverAlive /\ Room
          /\ channel' = Append(channel, c)
          /\ line' = Append(line, c)
          /\ Goto(c, "exit")
          /\ UNCHANGED <<length, inflight, waiting>>
       \/ /\ ~(ReceiverAlive /\ Room)
          /\ Reply(c, IF ReceiverAlive THEN "full" ELSE "disconnected", "exit")
          /\ ReleaseBytes(c)
          /\ waiting' = waiting - 1
          /\ UNCHANGED <<channel, line>>
    /\ UNCHANGED <<acceptor, connections, engine, pending, kept, batch, places,
                   model>>

\* An early return after the reservation of the bytes: they are given back.
DropBytes(c) ==
    /\ Alive /\ thread[c] = "drop"
    /\ ReleaseBytes(c)
    /\ Goto(c, "exit")
    /\ UNCHANGED <<acceptor, connections, waiting, engineVars>>

\* The end of the thread, by a return or by a panic: its sender and its slot
\* are dropped.
EndThread(c) ==
    /\ Alive /\ thread[c] = "exit"
    /\ connections' = connections - 1
    /\ Goto(c, "none")
    /\ UNCHANGED <<acceptor, length, inflight, waiting, engineVars>>

ThreadStep(c) ==
    \/ ReadHead(c)
    \/ AcquireBytes(c)
    \/ ReadBody(c)
    \/ AcquireWaiting(c)
    \/ TrySend(c)
    \/ DropBytes(c)
    \/ EndThread(c)

-----------------------------------------------------------------------------
(* The engine thread: run_engine. *)

threadVars == <<acceptor, thread, connections>>
jobVars == <<length, answer, inflight>>

\* What Queued::new may answer for a request of unknown contents: batch_chat
\* admits it for its model, or not; without batching it is never asked.
Admissions == IF MaxStreams > 1 THEN ModelOrNone ELSE {NoModel}

\* Mutant of PopPending: pending.pop_back().
PopYoungest ==
    /\ engine = "idle" /\ pending # <<>>
    /\ batch' = <<pending[Len(pending)]>>
    /\ pending' = SubSeq(pending, 1, Len(pending) - 1)
    /\ places' = 1
    /\ engine' = "leading"
    /\ UNCHANGED <<threadVars, jobVars, waiting, channel, kept, line, model>>

\* pending.pop_front(): the leader still owns its waiting place.
PopPending ==
    /\ engine = "idle" /\ pending # <<>>
    /\ batch' = <<Head(pending)>>
    /\ pending' = Tail(pending)
    /\ places' = 1
    /\ engine' = "leading"
    /\ UNCHANGED <<threadVars, jobVars, waiting, channel, kept, line, model>>

\* Mutant of Recv: the channel is looked at before the local queue.
RecvFirst ==
    /\ engine = "idle" /\ channel # <<>>
    /\ batch' = <<Head(channel)>>
    /\ channel' = Tail(channel)
    /\ \E m \in Admissions : model' = [model EXCEPT ![Head(channel)] = m]
    /\ places' = 1
    /\ engine' = "leading"
    /\ UNCHANGED <<threadVars, jobVars, waiting, pending, kept, line>>

\* queue.recv() with a job in the channel.
Recv ==
    /\ engine = "idle" /\ pending = <<>> /\ channel # <<>>
    /\ batch' = <<Head(channel)>>
    /\ channel' = Tail(channel)
    /\ \E m \in Admissions : model' = [model EXCEPT ![Head(channel)] = m]
    /\ places' = 1
    /\ engine' = "leading"
    /\ UNCHANGED <<threadVars, jobVars, waiting, pending, kept, line>>

\* Mutants of SendersGone: the connection threads have no sender of their own;
\* the serving thread keeps one for itself.
AcceptorGone == acceptor = "stopped"
SenderKept == FALSE

\* Every sender is dropped: the dispatcher's and one per connection thread.
SendersGone == acceptor = "stopped" /\ \A c \in Conns : thread[c] = "none"

\* Mutant of RecvClosed: the loop ends with the senders, whatever was sent.
RecvClosedEarly ==
    /\ engine = "idle" /\ pending = <<>> /\ SendersGone
    /\ engine' = "stopped"
    /\ UNCHANGED <<threadVars, jobVars, waiting, channel, pending, kept, batch,
                   places, line, model>>

\* queue.recv() fails only when the channel is empty and has no sender.
RecvClosed ==
    /\ engine = "idle" /\ pending = <<>> /\ channel = <<>> /\ SendersGone
    /\ engine' = "stopped"
    /\ UNCHANGED <<threadVars, jobVars, waiting, channel, pending, kept, batch,
                   places, line, model>>

\* The job leaves the line of the waiting jobs when it is started.
Started(jobs) == line' = Keep(line, Conns \ Range(jobs))

\* No model, or batch_ready says no (unknown model, load error, architecture
\* without the dense multi-stream step): run_job.
LeadSolo ==
    /\ engine = "leading"
    /\ engine' = "starting"
    /\ Started(batch)
    /\ UNCHANGED <<threadVars, jobVars, waiting, channel, pending, kept, batch,
                   places, model>>

LeadBatch ==
    /\ engine = "leading" /\ model[batch[1]] # NoModel
    /\ engine' = "draining"
    /\ UNCHANGED <<threadVars, jobVars, waiting, channel, pending, kept, batch,
                   places, line, model>>

\* One turn of drain_queue, while connection threads go on sending.
DrainOne ==
    /\ engine = "draining" /\ Len(pending) < QueueDepth /\ channel # <<>>
    /\ pending' = Append(pending, Head(channel))
    /\ channel' = Tail(channel)
    /\ \E m \in Admissions : model' = [model EXCEPT ![Head(channel)] = m]
    /\ UNCHANGED <<threadVars, jobVars, waiting, engine, kept, batch, places,
                   line>>

\* Mutant of DrainEnd: the drain takes no more jobs than there are free streams.
DrainStreamsOnly ==
    /\ engine = "draining"
    /\ Len(pending) >= MaxStreams - 1 \/ channel = <<>>
    /\ engine' = "taking"
    /\ UNCHANGED <<threadVars, jobVars, waiting, channel, pending, kept, batch,
                   places, line, model>>

DrainEnd ==
    /\ engine = "draining" /\ (Len(pending) >= QueueDepth \/ channel = <<>>)
    /\ engine' = "taking"
    /\ UNCHANGED <<threadVars, jobVars, waiting, channel, pending, kept, batch,
                   places, line, model>>

\* Mutant of Joins: the leader is not counted among the streams.
JoinsOneMore(c) == Len(batch) <= MaxStreams /\ model[c] = model[batch[1]]

\* One turn of take_batch: the next pending job joins the batch if it is of the
\* leader's model and a stream is left, else it is kept.
Joins(c) == Len(batch) < MaxStreams /\ model[c] = model[batch[1]]

TakeOne ==
    /\ engine = "taking" /\ pending # <<>>
    /\ pending' = Tail(pending)
    /\ \/ /\ Joins(Head(pending))
          /\ batch' = Append(batch, Head(pending))
          /\ places' = places + 1
          /\ UNCHANGED kept
       \/ /\ ~Joins(Head(pending))
          /\ kept' = Append(kept, Head(pending))
          /\ UNCHANGED <<batch, places>>
    /\ UNCHANGED <<threadVars, jobVars, waiting, engine, channel, line, model>>

\* Mutant of TakeEnd: the jobs set aside come back in the reverse order.
TakeEndReversed ==
    /\ engine = "taking" /\ pending = <<>>
    /\ pending' = [i \in DOMAIN kept |-> kept[Len(kept) + 1 - i]]
    /\ kept' = <<>>
    /\ engine' = "starting"
    /\ Started(batch)
    /\ UNCHANGED <<threadVars, jobVars, waiting, channel, batch, places,
                   model>>

TakeEnd ==
    /\ engine = "taking" /\ pending = <<>>
    /\ pending' = kept
    /\ kept' = <<>>
    /\ engine' = "starting"
    /\ Started(batch)
    /\ UNCHANGED <<threadVars, jobVars, waiting, channel, batch, places,
                   model>>

\* Mutants of GivePlaceBack: only the leader's place is given back; one place too
\* many is.
GiveLeaderPlaceBack ==
    /\ engine = "starting"
    /\ waiting' = waiting - 1
    /\ places' = 0
    /\ engine' = "serving"
    /\ UNCHANGED <<threadVars, jobVars, channel, pending, kept, batch, line,
                   model>>

GiveOnePlaceMore ==
    /\ engine = "starting"
    /\ waiting' = waiting - 1
    /\ places' = places - 1
    /\ engine' = IF places = 0 THEN "serving" ELSE "starting"
    /\ UNCHANGED <<threadVars, jobVars, channel, pending, kept, batch, line,
                   model>>

\* drop(waiting), once per job of the batch, before any of them is served.
GivePlaceBack ==
    /\ engine = "starting"
    /\ waiting' = waiting - 1
    /\ places' = places - 1
    /\ engine' = IF places = 1 THEN "serving" ELSE "starting"
    /\ UNCHANGED <<threadVars, jobVars, channel, pending, kept, batch, line,
                   model>>

\* Mutant of Serve: only the leader of a batch is ever answered.
ServeLeader(c) ==
    /\ engine = "serving" /\ batch # <<>> /\ c = batch[1] /\ answer[c] = "none"
    /\ answer' = [answer EXCEPT ![c] = "served"]
    /\ UNCHANGED <<threadVars, length, inflight, waiting, engineVars>>

\* handle_job or handle_batch is done with one of the connections: answered,
\* refused with its error, or given up because its client has left.
Serve(c) ==
    /\ engine = "serving" /\ c \in Range(batch) /\ answer[c] = "none"
    /\ answer' = [answer EXCEPT ![c] = "served"]
    /\ UNCHANGED <<threadVars, length, inflight, waiting, engineVars>>

\* Mutant of DropJob: a job is dropped without having been answered.
DropJobUnanswered ==
    /\ engine = "serving"
    /\ ReleaseBytes(Head(batch))
    /\ model' = [model EXCEPT ![Head(batch)] = NoModel]
    /\ batch' = Tail(batch)
    /\ engine' = IF Len(batch) = 1 THEN "idle" ELSE "serving"
    /\ UNCHANGED <<threadVars, answer, waiting, channel, pending, kept, places,
                   line>>

\* Once all are served, each job is dropped: socket closed, bytes given back.
DropJob ==
    /\ engine = "serving" /\ \A c \in Range(batch) : answer[c] # "none"
    /\ ReleaseBytes(Head(batch))
    /\ model' = [model EXCEPT ![Head(batch)] = NoModel]
    /\ batch' = Tail(batch)
    /\ engine' = IF Len(batch) = 1 THEN "idle" ELSE "serving"
    /\ UNCHANGED <<threadVars, answer, waiting, channel, pending, kept, places,
                   line>>

EngineStep ==
    \/ PopPending
    \/ Recv
    \/ RecvClosed
    \/ LeadSolo
    \/ LeadBatch
    \/ DrainOne
    \/ DrainEnd
    \/ TakeOne
    \/ TakeEnd
    \/ GivePlaceBack
    \/ \E c \in Conns : Serve(c)
    \/ DropJob

-----------------------------------------------------------------------------
(* A panic of the engine thread kills the process.  While it unwinds, the     *)
(* connection threads still run and may find the receiver gone.               *)

\* batch_ready (a model load) or the inference itself panics.
EnginePanic ==
    /\ engine \in {"leading", "serving"}
    /\ engine' = "unwinding"
    /\ line' = <<>>
    /\ UNCHANGED <<threadVars, jobVars, waiting, channel, pending, kept, batch,
                   places, model>>

\* A job dropped unserved: its socket is closed without a word.
Discard(c) ==
    /\ answer' = [answer EXCEPT ![c] = IF @ = "none" THEN "dropped" ELSE @]
    /\ model' = [model EXCEPT ![c] = NoModel]
    /\ ReleaseBytes(c)

\* The locals of run_engine are dropped: first the jobs in its hands, of which
\* the leader may still own its place, then the local queue.
UnwindHands ==
    /\ engine = "unwinding" /\ batch # <<>>
    /\ Discard(Head(batch))
    /\ batch' = Tail(batch)
    /\ \/ /\ places > 0
          /\ places' = places - 1
          /\ waiting' = waiting - 1
       \/ /\ places = 0
          /\ UNCHANGED <<places, waiting>>
    /\ UNCHANGED <<threadVars, engine, channel, pending, kept, line>>

UnwindPending ==
    /\ engine = "unwinding" /\ batch = <<>> /\ pending # <<>>
    /\ Discard(Head(pending))
    /\ pending' = Tail(pending)
    /\ waiting' = waiting - 1
    /\ UNCHANGED <<threadVars, engine, channel, kept, batch, places, line>>

\* The receiver is dropped: try_send fails from here on.
Disconnect ==
    /\ engine = "unwinding" /\ batch = <<>> /\ pending = <<>>
    /\ engine' = "disconnected"
    /\ line' = <<>>
    /\ UNCHANGED <<threadVars, jobVars, waiting, channel, pending, kept, batch,
                   places, model>>

\* Dropping the receiver drops the jobs left in the channel.
DiscardMessage ==
    /\ engine = "disconnected" /\ channel # <<>>
    /\ Discard(Head(channel))
    /\ channel' = Tail(channel)
    /\ waiting' = waiting - 1
    /\ UNCHANGED <<threadVars, engine, pending, kept, batch, places, line>>

Exit ==
    /\ engine = "disconnected" /\ channel = <<>>
    /\ engine' = "exited"
    /\ UNCHANGED <<threadVars, jobVars, waiting, channel, pending, kept, batch,
                   places, line, model>>

Crash ==
    \/ EnginePanic
    \/ UnwindHands
    \/ UnwindPending
    \/ Disconnect
    \/ DiscardMessage
    \/ Exit

-----------------------------------------------------------------------------
\* The server has returned, or the process is dead.
Terminated == engine \in {"stopped", "exited"} /\ UNCHANGED vars

Next ==
    \/ \E c \in Conns : Dispatch(c) \/ ThreadStep(c)
    \/ StopAccepting
    \/ EngineStep
    \/ Crash
    \/ Terminated

Spec == Init /\ [][Next]_vars

\* A connection thread never waits without a bound: reads and writes have
\* timeouts and a deadline, nothing else blocks.  The engine ends what it
\* serves: a generation is bounded by max_tokens.
Fairness ==
    /\ \A c \in Conns : WF_vars(ThreadStep(c))
    /\ WF_vars(EngineStep)

FairSpec == Spec /\ Fairness

-----------------------------------------------------------------------------
(* What the server must guarantee. *)

Healthy == engine \notin {"unwinding", "disconnected", "exited"}

\* The threads that own a waiting place, those that own a connection slot, and
\* the connections whose body's bytes are reserved.
Senders == {c \in Conns : thread[c] = "send"}
Threads == {c \in Conns : thread[c] # "none"}
BytesHolders == {c \in Conns : thread[c] \in {"body", "wait", "send", "drop"}}
                    \cup Jobs

\* How the stage of the engine and its hands fit together.
EngineShape ==
    /\ places <= Len(batch)
    /\ engine # "taking" => kept = <<>>
    /\ engine \in {"idle", "stopped", "disconnected", "exited"} => batch = <<>>
    /\ engine \in {"leading", "draining"} => Len(batch) = 1
    /\ engine \in {"leading", "draining", "taking"} => places = Len(batch)
    /\ engine \in {"taking", "starting", "serving"} => batch # <<>>
    /\ engine = "starting" => places > 0
    /\ engine = "serving" => places = 0
    /\ engine = "stopped" => SendersGone /\ channel = <<>>
    /\ engine \in {"stopped", "disconnected", "exited"} => pending = <<>>

\* The places owned by jobs: in the channel, in the engine's local queue (put
\* aside or not) and in its hands.
JobPlaces == Len(channel) + Len(pending) + Len(kept) + places

\* The counter `waiting` is the number of places really owned, by threads about
\* to send and by jobs.
WaitingExact == waiting = Cardinality(Senders) + JobPlaces

\* The counter `connections` is the number of connection threads.
ConnectionsExact == connections = Cardinality(Threads)

\* The bytes reserved for the bodies of the requests, one by one.
ReservedBytes == UNION {{c} \X (1..length[c]) : c \in BytesHolders}

\* The counter `inflight` is the total Content-Length of the bodies being read,
\* waiting, or being served, whatever exit each connection takes, and this total
\* stays below its cap.
InflightExact ==
    /\ inflight = Cardinality(ReservedBytes)
    /\ inflight <= MaxInflightBytes

\* The three counters equal what is really owned, whatever exit each connection
\* takes and whatever the engine was holding when it panicked.  A reservation
\* leaked on an early return, or given back twice, would shrink or inflate a cap
\* for ever.
CountersExact == WaitingExact /\ ConnectionsExact /\ InflightExact

\* What the caps are about stays below them in every interleaving: the
\* connection threads, and the places of the inference queue over the threads
\* about to send, the channel, the local queue and the engine's hands.
CapsHold ==
    /\ Cardinality(Threads) <= MaxConnections
    /\ Cardinality(Senders) + JobPlaces <= QueueDepth

\* A thread that owns a waiting place can send its job: while the engine has not
\* panicked both error branches of try_send are dead code.  Full, because the
\* jobs of the channel and of the local queue are counted together;
\* Disconnected, because the thread's own sender keeps the engine's loop going.
HolderCanSend ==
    \A c \in Conns : thread[c] = "send" /\ Healthy => ReceiverAlive /\ Room

\* drain_queue never stops because of its cap: the leader owns a place too, so
\* every job that was sent before the drain ends can join the batch.
DrainReachesAll ==
    [][engine = "draining" /\ engine' = "taking" => channel = <<>>]_vars

\* The channel and the local queue, whatever was set aside and put back, hold
\* the waiting jobs in the order in which they were sent.
LineOrder ==
    /\ engine \in {"idle", "starting", "serving"} => line = pending \o channel
    /\ engine \in {"leading", "draining"} => line = batch \o pending \o channel
    /\ engine = "taking" =>
         \* the jobs already looked at, then the others
         /\ Range(line) = Range(batch) \cup Range(kept) \cup Range(pending)
                              \cup Range(channel)
         /\ line[1] = batch[1]
         /\ Keep(line, Conns \ Range(batch)) = kept \o pending \o channel
         /\ Keep(line, Range(batch)) = batch

\* The server only returns when every connection is over, every job served and
\* every reservation given back.
CleanStop ==
    engine = "stopped" =>
        /\ Jobs = {}
        /\ connections = 0 /\ inflight = 0 /\ waiting = 0
        /\ \A c \in Conns : thread[c] = "none"

\* A connection is answered once: what its client got does not change before it
\* is closed, and it is never closed before something is settled.  This holds
\* across the hand-over from the connection thread to the engine.
AnsweredOnce ==
    [][\A c \in Conns :
          /\ ~Closed(c) /\ answer[c] # "none" => answer'[c] = answer[c]
          /\ ~Closed(c) /\ Closed(c)' => answer'[c] # "none"]_vars

\* A batch is the leader and the oldest of the other received jobs of its model,
\* up to the number of streams: drain_queue and take_batch, in whatever steps,
\* amount to this selection on the line.
BatchIsFirstOfModel ==
    [][engine = "taking" /\ engine' = "starting" =>
          LET received == Keep(line, Conns \ Range(channel))
              same == Keep(received, {c \in Conns : model[c] = model[line[1]]})
          IN  /\ model[line[1]] # NoModel
              /\ batch' = SubSeq(same, 1, IF Len(same) < MaxStreams
                                          THEN Len(same) ELSE MaxStreams)]_vars

\* Every job in the line is served, however many clients keep coming, unless
\* the engine panics.
JobsServed ==
    \A c \in Conns : c \in Range(line) ~> (answer[c] = "served" \/ ~Healthy)

\* Every connection thread ends, unless the process dies first.
ThreadsEnd ==
    \A c \in Conns : thread[c] # "none" ~> (thread[c] = "none" \/ ~Alive)

\* Once the listener has failed, the engine serves what was accepted and then
\* the server returns.
ShutdownEnds == acceptor = "stopped" ~> (engine = "stopped" \/ ~Healthy)

\* The server implements the abstract line.
Line == INSTANCE InferenceLine WITH
            Jobs <- Conns,
            up <- Healthy,
            line <- IF Healthy THEN line ELSE <<>>,
            running <- IF engine \in {"starting", "serving"}
                       THEN {c \in Range(batch) : answer[c] = "none"}
                       ELSE {}

\* Every step of the server is a step of the line or leaves it alone.
ImplementsLine == Line!Spec

\* And its fairness gives the line's.
ImplementsFairLine == Line!FairSpec
=============================================================================
