------------------------ MODULE ServeDispatchProofs ------------------------
(***************************************************************************)
(* Proofs about ServeDispatch, for every number of clients and every value *)
(* of the limits.                                                          *)
(***************************************************************************)
EXTENDS ServeDispatch, DataLemmas

-----------------------------------------------------------------------------
(* Type correctness. *)

LEMMA AdmissionsTyped == Admissions \subseteq ModelOrNone
BY DEF Admissions, ModelOrNone

LEMMA InitTyped == Init => TypeOK
BY DEF Init, TypeOK, ThreadStages, ModelOrNone, Answers, EngineStages

LEMMA ReplyTyped ==
    ASSUME TypeOK, NEW c \in Conns, NEW a \in Answers,
           NEW stage \in ThreadStages, Reply(c, a, stage)
    PROVE  answer' \in [Conns -> Answers] /\ thread' \in [Conns -> ThreadStages]
BY DEF TypeOK, Reply

LEMMA GotoTyped ==
    ASSUME TypeOK, NEW c \in Conns, NEW stage \in ThreadStages, Goto(c, stage)
    PROVE  answer' \in [Conns -> Answers] /\ thread' \in [Conns -> ThreadStages]
BY DEF TypeOK, Goto

LEMMA ReleaseTyped ==
    ASSUME TypeOK, NEW c \in Conns, ReleaseBytes(c)
    PROVE  inflight' \in Int /\ length' \in [Conns -> Nat]
BY DEF TypeOK, ReleaseBytes

\* The threads and the acceptor keep the types.
LEMMA ThreadsTyped ==
    ASSUME TypeOK, NEW c \in Conns, Dispatch(c) \/ ThreadStep(c)
    PROVE  TypeOK'
<1>1. answer' \in [Conns -> Answers] /\ thread' \in [Conns -> ThreadStages]
  <2>1. {"none", "front", "dropped", "full", "disconnected"} \subseteq Answers
    BY DEF Answers
  <2>2. {"none", "head", "bytes", "body", "wait", "send", "drop", "exit"}
            \subseteq ThreadStages
    BY DEF ThreadStages
  <2>3. CASE \E a \in Answers, stage \in ThreadStages : Reply(c, a, stage)
    BY <2>3, ReplyTyped
  <2>4. CASE \E stage \in ThreadStages : Goto(c, stage)
    BY <2>4, GotoTyped
  <2>5. \/ \E a \in Answers, stage \in ThreadStages : Reply(c, a, stage)
        \/ \E stage \in ThreadStages : Goto(c, stage)
    BY <2>1, <2>2
       DEF ThreadStep, Dispatch, ReadHead, HeadAnswers, AcquireBytes,
           ReadBody, BodyAnswers, AcquireWaiting, TrySend, DropBytes, EndThread
  <2> QED
    BY <2>3, <2>4, <2>5
<1>2. /\ length' \in [Conns -> Nat]
      /\ connections' \in Int /\ inflight' \in Int /\ waiting' \in Int
  <2>1. CASE Dispatch(c)
    BY <2>1 DEF TypeOK, Dispatch
  <2>2. CASE ReadHead(c)
    <3>1. \/ length' = length
          \/ \E n \in BodySizes : length' = [length EXCEPT ![c] = n]
      BY <2>2 DEF ReadHead
    <3>2. length' \in [Conns -> Nat]
      BY <3>1, LimitsAssumption DEF TypeOK
    <3>3. /\ connections' = connections /\ inflight' = inflight
          /\ waiting' = waiting
      BY <2>2 DEF ReadHead, counters
    <3> QED
      BY <3>2, <3>3 DEF TypeOK
  <2>3. CASE AcquireBytes(c)
    <3>1. length[c] \in Nat /\ inflight \in Int /\ connections \in Int
          /\ waiting \in Int
      BY DEF TypeOK
    <3>2. inflight' \in Int /\ connections' \in Int /\ waiting' \in Int
      BY <2>3, <3>1 DEF AcquireBytes
    <3>3. length' = length \/ length' = [length EXCEPT ![c] = 0]
      BY <2>3 DEF AcquireBytes
    <3>4. length' \in [Conns -> Nat]
      <4>1. length \in [Conns -> Nat]
        BY DEF TypeOK
      <4> QED
        BY <3>3, <4>1
    <3> QED
      BY <3>2, <3>4
  <2>4. CASE ReadBody(c) \/ EndThread(c)
    BY <2>4 DEF TypeOK, ReadBody, EndThread, counters
  <2>5. CASE AcquireWaiting(c)
    BY <2>5 DEF TypeOK, AcquireWaiting
  <2>6. CASE TrySend(c)
    BY <2>6, ReleaseTyped DEF TypeOK, TrySend
  <2>7. CASE DropBytes(c)
    BY <2>7, ReleaseTyped DEF TypeOK, DropBytes
  <2> QED
    BY <2>1, <2>2, <2>3, <2>4, <2>5, <2>6, <2>7 DEF ThreadStep
<1>3. /\ acceptor' = acceptor /\ engine' = engine /\ model' = model
      /\ pending' = pending /\ kept' = kept /\ batch' = batch
      /\ places' = places
      /\ channel' = channel \/ channel' = Append(channel, c)
  BY DEF ThreadStep, Dispatch, ReadHead, AcquireBytes, ReadBody,
         AcquireWaiting, TrySend, DropBytes, EndThread, engineVars
<1>4. channel' \in Seq(Conns)
  <2>1. channel \in Seq(Conns)
    BY DEF TypeOK
  <2>2. Append(channel, c) \in Seq(Conns)
    BY <2>1, PutLast
  <2> QED
    BY <1>3, <2>1, <2>2
<1> QED
  BY <1>1, <1>2, <1>3, <1>4 DEF TypeOK

\* So do the steps of the engine: what it takes out of its queues is there.
LEMMA EngineTyped ==
    ASSUME TypeOK, EngineShape, EngineStep
    PROVE  TypeOK'
<1> USE LimitsAssumption DEF TypeOK, EngineStages, threadVars, jobVars,
        engineVars
<1>1. CASE PopPending
  BY <1>1 DEF PopPending
<1>2. CASE Recv
  BY <1>2, AdmissionsTyped DEF Recv
<1>3. CASE RecvClosed
  BY <1>3 DEF RecvClosed
<1>4. CASE LeadSolo
  BY <1>4 DEF LeadSolo
<1>5. CASE LeadBatch
  BY <1>5 DEF LeadBatch
<1>6. CASE DrainOne
  BY <1>6, AdmissionsTyped DEF DrainOne
<1>7. CASE DrainEnd
  BY <1>7 DEF DrainEnd
<1>8. CASE TakeOne
  <2>1. Head(pending) \in Conns /\ Tail(pending) \in Seq(Conns)
    BY <1>8, TakeHead DEF TakeOne
  <2>2. /\ Append(batch, Head(pending)) \in Seq(Conns)
        /\ Append(kept, Head(pending)) \in Seq(Conns)
    BY <2>1, PutLast
  <2>3. /\ pending' \in Seq(Conns) /\ kept' \in Seq(Conns)
        /\ batch' \in Seq(Conns) /\ places' \in Nat
    <3>1. CASE batch' = Append(batch, Head(pending)) /\ places' = places + 1
               /\ kept' = kept
      BY <1>8, <2>1, <2>2, <3>1 DEF TakeOne
    <3>2. CASE kept' = Append(kept, Head(pending)) /\ batch' = batch
               /\ places' = places
      BY <1>8, <2>1, <2>2, <3>2 DEF TakeOne
    <3> QED
      BY <1>8, <3>1, <3>2 DEF TakeOne
  <2> QED
    BY <1>8, <2>3 DEF TakeOne
<1>9. CASE TakeEnd
  BY <1>9 DEF TakeEnd
<1>10. CASE GivePlaceBack
  BY <1>10 DEF GivePlaceBack, EngineShape
<1>11. ASSUME NEW c \in Conns, Serve(c) PROVE TypeOK'
  BY <1>11 DEF Serve, Answers
<1>12. CASE DropJob
  BY <1>12 DEF DropJob, ReleaseBytes, ModelOrNone, EngineShape
<1> QED
  BY <1>1, <1>2, <1>3, <1>4, <1>5, <1>6, <1>7, <1>8, <1>9, <1>10, <1>11,
     <1>12 DEF EngineStep

LEMMA DiscardTyped ==
    ASSUME TypeOK, NEW c \in Conns, Discard(c)
    PROVE  /\ answer' \in [Conns -> Answers]
           /\ model' \in [Conns -> ModelOrNone]
           /\ inflight' \in Int /\ length' \in [Conns -> Nat]
BY ReleaseTyped DEF TypeOK, Discard, Answers, ModelOrNone

\* And those of its death.
LEMMA CrashTyped ==
    ASSUME TypeOK, Crash
    PROVE  TypeOK'
<1> USE DEF TypeOK, EngineStages, threadVars, jobVars
<1>1. CASE EnginePanic
  BY <1>1 DEF EnginePanic
<1>2. CASE UnwindHands
  <2>1. Head(batch) \in Conns /\ Tail(batch) \in Seq(Conns)
    BY <1>2, TakeHead DEF UnwindHands
  <2>2. waiting' \in Int /\ places' \in Nat
    BY <1>2 DEF UnwindHands
  <2> QED
    BY <1>2, <2>1, <2>2, DiscardTyped DEF UnwindHands
<1>3. CASE UnwindPending
  BY <1>3, DiscardTyped, TakeHead DEF UnwindPending
<1>4. CASE Disconnect
  BY <1>4 DEF Disconnect
<1>5. CASE DiscardMessage
  BY <1>5, DiscardTyped, TakeHead DEF DiscardMessage
<1>6. CASE Exit
  BY <1>6 DEF Exit
<1> QED
  BY <1>1, <1>2, <1>3, <1>4, <1>5, <1>6 DEF Crash

LEMMA NextTyped ==
    ASSUME TypeOK, EngineShape, [Next]_vars
    PROVE  TypeOK'
<1>1. ASSUME NEW c \in Conns, Dispatch(c) \/ ThreadStep(c)
      PROVE  TypeOK'
  BY <1>1, ThreadsTyped
<1>2. CASE StopAccepting
  BY <1>2 DEF StopAccepting, TypeOK, counters, engineVars
<1>3. CASE UNCHANGED vars
  BY <1>3 DEF vars, TypeOK
<1> QED
  BY <1>1, <1>2, <1>3, EngineTyped, CrashTyped DEF Next, Terminated

-----------------------------------------------------------------------------
(* The stage of the engine and its hands. *)

LEMMA InitShape == Init => EngineShape
BY DEF Init, EngineShape

LEMMA ThreadsShape ==
    ASSUME TypeOK, EngineShape, NEW c \in Conns,
           Dispatch(c) \/ ThreadStep(c)
    PROVE  EngineShape'
<1> USE DEF TypeOK, EngineShape, SendersGone, Reply, Goto, ReleaseBytes,
        counters, engineVars
<1>1. CASE Dispatch(c)
  BY <1>1 DEF Dispatch
<1>2. CASE ReadHead(c)
  BY <1>2 DEF ReadHead
<1>3. CASE AcquireBytes(c)
  BY <1>3 DEF AcquireBytes
<1>4. CASE ReadBody(c)
  BY <1>4 DEF ReadBody
<1>5. CASE AcquireWaiting(c)
  BY <1>5 DEF AcquireWaiting
<1>6. CASE TrySend(c)
  BY <1>6 DEF TrySend
<1>7. CASE DropBytes(c)
  BY <1>7 DEF DropBytes
<1>8. CASE EndThread(c)
  BY <1>8 DEF EndThread
<1> QED
  BY <1>1, <1>2, <1>3, <1>4, <1>5, <1>6, <1>7, <1>8 DEF ThreadStep

LEMMA EngineKeepsShape ==
    ASSUME TypeOK, EngineShape, EngineStep
    PROVE  EngineShape'
<1> USE DEF TypeOK, EngineShape, SendersGone, threadVars, jobVars, engineVars
<1>1. CASE PopPending
  BY <1>1 DEF PopPending
<1>2. CASE Recv
  BY <1>2 DEF Recv
<1>3. CASE RecvClosed
  BY <1>3 DEF RecvClosed
<1>4. CASE LeadSolo
  BY <1>4 DEF LeadSolo
<1>5. CASE LeadBatch
  BY <1>5 DEF LeadBatch
<1>6. CASE DrainOne
  BY <1>6 DEF DrainOne
<1>7. CASE DrainEnd
  BY <1>7, EmptyOrNot DEF DrainEnd
<1>8. CASE TakeOne
  BY <1>8 DEF TakeOne
<1>9. CASE TakeEnd
  BY <1>9 DEF TakeEnd
<1>10. CASE GivePlaceBack
  BY <1>10 DEF GivePlaceBack
<1>11. ASSUME NEW c \in Conns, Serve(c) PROVE EngineShape'
  BY <1>11 DEF Serve
<1>12. CASE DropJob
  <2>1. /\ Len(Tail(batch)) = Len(batch) - 1
        /\ Tail(batch) = <<>> <=> Len(batch) = 1
        /\ Len(batch) >= 1
    BY <1>12, TakeHead, EmptyOrNot DEF DropJob
  <2>2. CASE Len(batch) = 1
    BY <1>12, <2>1, <2>2 DEF DropJob
  <2>3. CASE Len(batch) # 1
    BY <1>12, <2>1, <2>3 DEF DropJob
  <2> QED
    BY <2>2, <2>3
<1> QED
  BY <1>1, <1>2, <1>3, <1>4, <1>5, <1>6, <1>7, <1>8, <1>9, <1>10, <1>11,
     <1>12 DEF EngineStep

LEMMA CrashKeepsShape ==
    ASSUME TypeOK, EngineShape, Crash
    PROVE  EngineShape'
<1> USE DEF TypeOK, EngineShape, SendersGone, threadVars, jobVars
<1>1. CASE EnginePanic
  BY <1>1 DEF EnginePanic
<1>2. CASE UnwindHands
  BY <1>2, TakeHead DEF UnwindHands
<1>3. CASE UnwindPending
  BY <1>3, TakeHead DEF UnwindPending
<1>4. CASE Disconnect
  BY <1>4, EmptyOrNot DEF Disconnect
<1>5. CASE DiscardMessage
  BY <1>5 DEF DiscardMessage
<1>6. CASE Exit
  BY <1>6 DEF Exit
<1> QED
  BY <1>1, <1>2, <1>3, <1>4, <1>5, <1>6 DEF Crash

LEMMA NextShape ==
    ASSUME TypeOK, EngineShape, [Next]_vars
    PROVE  EngineShape'
<1>1. CASE StopAccepting
  BY <1>1 DEF StopAccepting, EngineShape, SendersGone, counters, engineVars
<1>2. CASE UNCHANGED vars
  BY <1>2 DEF vars, EngineShape, SendersGone
<1> QED
  BY <1>1, <1>2, ThreadsShape, EngineKeepsShape, CrashKeepsShape
     DEF Next, Terminated

\* Every variable keeps its type, and what the engine has in hand fits its
\* stage, in every execution.
THEOREM TypeCorrect == Spec => [](TypeOK /\ EngineShape)
<1>1. Init => TypeOK /\ EngineShape
  BY InitTyped, InitShape
<1>2. TypeOK /\ EngineShape /\ [Next]_vars => (TypeOK /\ EngineShape)'
  BY NextTyped, NextShape
<1> QED
  BY <1>1, <1>2, PTL DEF Spec

-----------------------------------------------------------------------------
(* The counters.  WaitingExact and ConnectionsExact are inductive once the    *)
(* types and the shape of the engine are known; the caps follow by induction, *)
(* since a counter only grows where Fits was tested.                          *)

CountersBound ==
    /\ connections <= MaxConnections
    /\ inflight <= MaxInflightBytes
    /\ waiting <= QueueDepth

Counters == WaitingExact /\ ConnectionsExact /\ CountersBound

LEMMA CountsAreNaturals ==
    ASSUME NEW T \in SUBSET Conns
    PROVE  IsFiniteSet(T) /\ Cardinality(T) \in Nat
BY ConnsAssumption, FS_Subset, FS_CardinalityType

LEMMA CountEnter ==
    ASSUME NEW T \in SUBSET Conns, NEW c \in Conns, c \notin T
    PROVE  Cardinality(T \cup {c}) = Cardinality(T) + 1
BY CountsAreNaturals, FS_AddElement

LEMMA CountLeave ==
    ASSUME NEW T \in SUBSET Conns, NEW c \in T
    PROVE  Cardinality(T \ {c}) = Cardinality(T) - 1
BY CountsAreNaturals, FS_RemoveElement

LEMMA ThreadSets ==
    /\ Senders \in SUBSET Conns /\ Threads \in SUBSET Conns
    /\ Senders' \in SUBSET Conns /\ Threads' \in SUBSET Conns
BY DEF Senders, Threads

LEMMA InitCounters == Init => Counters
<1> SUFFICES ASSUME Init PROVE Counters
  OBVIOUS
<1>1. Senders = {} /\ Threads = {}
  BY DEF Init, Senders, Threads
<1>2. Cardinality({}) = 0
  BY FS_EmptySet
<1> QED
  BY <1>1, <1>2, EmptySeq, LimitsAssumption
     DEF Init, Counters, WaitingExact, JobPlaces, ConnectionsExact, CountersBound

\* A thread that changes stage, by the sets it enters and leaves.
LEMMA MoveThread ==
    ASSUME TypeOK, NEW c \in Conns, NEW stage \in ThreadStages,
           thread' = [thread EXCEPT ![c] = stage]
    PROVE  /\ Senders' = IF stage = "send" THEN Senders \cup {c}
                                           ELSE Senders \ {c}
           /\ Threads' = IF stage = "none" THEN Threads \ {c}
                                           ELSE Threads \cup {c}
BY DEF TypeOK, Senders, Threads

LEMMA SendersCount ==
    ASSUME TypeOK, NEW c \in Conns, NEW stage \in ThreadStages,
           thread' = [thread EXCEPT ![c] = stage]
    PROVE  /\ thread[c] # "send" /\ stage # "send" =>
                Cardinality(Senders') = Cardinality(Senders)
           /\ thread[c] # "send" /\ stage = "send" =>
                Cardinality(Senders') = Cardinality(Senders) + 1
           /\ thread[c] = "send" /\ stage # "send" =>
                Cardinality(Senders') = Cardinality(Senders) - 1
<1>1. c \in Senders <=> thread[c] = "send"
  BY DEF Senders
<1>2. CASE thread[c] # "send" /\ stage # "send"
  <2>1. Senders' = Senders \ {c}
    BY <1>2, MoveThread
  <2>2. Senders' = Senders
    BY <1>1, <1>2, <2>1
  <2> QED
    BY <1>2, <2>2
<1>3. CASE thread[c] # "send" /\ stage = "send"
  BY <1>1, <1>3, MoveThread, ThreadSets, CountEnter
<1>4. CASE thread[c] = "send" /\ stage # "send"
  BY <1>1, <1>4, MoveThread, ThreadSets, CountLeave
<1> QED
  BY <1>2, <1>3, <1>4

LEMMA ThreadsCount ==
    ASSUME TypeOK, NEW c \in Conns, NEW stage \in ThreadStages,
           thread' = [thread EXCEPT ![c] = stage]
    PROVE  /\ thread[c] # "none" /\ stage # "none" =>
                Cardinality(Threads') = Cardinality(Threads)
           /\ thread[c] = "none" /\ stage = "none" =>
                Cardinality(Threads') = Cardinality(Threads)
           /\ thread[c] = "none" /\ stage # "none" =>
                Cardinality(Threads') = Cardinality(Threads) + 1
           /\ thread[c] # "none" /\ stage = "none" =>
                Cardinality(Threads') = Cardinality(Threads) - 1
<1>1. c \in Threads <=> thread[c] # "none"
  BY DEF Threads
<1>2. CASE thread[c] # "none" /\ stage # "none"
  <2>1. Threads' = Threads \cup {c}
    BY <1>2, MoveThread
  <2>2. Threads' = Threads
    BY <1>1, <1>2, <2>1
  <2> QED
    BY <1>2, <2>2
<1>3. CASE thread[c] = "none" /\ stage = "none"
  <2>1. Threads' = Threads \ {c}
    BY <1>3, MoveThread
  <2>2. Threads' = Threads
    BY <1>1, <1>3, <2>1
  <2> QED
    BY <1>3, <2>2
<1>4. CASE thread[c] = "none" /\ stage # "none"
  BY <1>1, <1>4, MoveThread, ThreadSets, CountEnter
<1>5. CASE thread[c] # "none" /\ stage = "none"
  BY <1>1, <1>5, MoveThread, ThreadSets, CountLeave
<1> QED
  BY <1>2, <1>3, <1>4, <1>5

\* The types of the numbers below.
LEMMA Numbers ==
    ASSUME TypeOK
    PROVE  /\ Cardinality(Senders) \in Nat /\ Cardinality(Threads) \in Nat
           /\ Len(channel) \in Nat /\ Len(pending) \in Nat
           /\ Len(kept) \in Nat /\ Len(batch) \in Nat /\ places \in Nat
           /\ JobPlaces \in Nat
           /\ connections \in Int /\ inflight \in Int /\ waiting \in Int
           /\ MaxConnections \in Nat /\ MaxInflightBytes \in Nat
           /\ QueueDepth \in Nat
<1>1. Cardinality(Senders) \in Nat /\ Cardinality(Threads) \in Nat
  BY ThreadSets, CountsAreNaturals
<1>2. /\ Len(channel) \in Nat /\ Len(pending) \in Nat
      /\ Len(kept) \in Nat /\ Len(batch) \in Nat
  BY LenProperties DEF TypeOK
<1>3. JobPlaces \in Nat
  BY <1>2 DEF JobPlaces, TypeOK
<1> QED
  BY <1>1, <1>2, <1>3, LimitsAssumption DEF TypeOK

\* The sums below, over numbers: what a move from one queue to another does to
\* the total of four.
LEMMA Moves ==
    ASSUME NEW a \in Nat, NEW b \in Nat, NEW k \in Nat, NEW p \in Nat
    PROVE  /\ a + (b - 1) + k + (p + 1) = a + b + k + p
           /\ (a - 1) + b + k + (p + 1) = a + b + k + p
           /\ (a - 1) + (b + 1) + k + p = a + b + k + p
           /\ a + (b - 1) + (k + 1) + p = a + b + k + p
           /\ a + b + 0 + p = a + 0 + b + p
OBVIOUS

LEMMA OneLess ==
    ASSUME TypeOK
    PROVE  /\ Len(channel) + Len(pending) + Len(kept) + (places - 1)
                = JobPlaces - 1
           /\ Len(channel) + (Len(pending) - 1) + Len(kept) + places
                = JobPlaces - 1
           /\ (Len(channel) - 1) + Len(pending) + Len(kept) + places
                = JobPlaces - 1
BY Numbers DEF JobPlaces

\* A number of places leaves both sides of WaitingExact.
LEMMA BothLower ==
    ASSUME NEW w \in Int, NEW s \in Nat, NEW j \in Nat, NEW max \in Nat,
           w = s + j, w <= max
    PROVE  /\ w - 1 = s + (j - 1) /\ w - 1 <= max
           /\ w - 1 = (s - 1) + j
OBVIOUS

LEMMA BelowStaysBelow ==
    ASSUME NEW x \in Int, NEW y \in Int, NEW max \in Nat, y <= x, x <= max
    PROVE  y <= max
OBVIOUS

\* A released reservation only lowers the counter of bytes.
LEMMA ReleaseLowers ==
    ASSUME TypeOK, NEW c \in Conns, ReleaseBytes(c)
    PROVE  inflight' <= inflight
BY DEF TypeOK, ReleaseBytes

\* A step of a thread leaves the jobs alone, except the one that sends.
LEMMA ThreadsAndJobs ==
    ASSUME TypeOK, NEW c \in Conns, Dispatch(c) \/ ThreadStep(c)
    PROVE  /\ channel' = channel => JobPlaces' = JobPlaces
           /\ channel' # channel => JobPlaces' = JobPlaces + 1
<1>1. /\ pending' = pending /\ kept' = kept /\ places' = places
      /\ channel' = channel \/ channel' = Append(channel, c)
  BY DEF ThreadStep, Dispatch, ReadHead, AcquireBytes, ReadBody,
         AcquireWaiting, TrySend, DropBytes, EndThread, engineVars
<1>2. CASE channel' = channel
  <2>1. JobPlaces' = JobPlaces
    BY <1>1, <1>2 DEF JobPlaces
  <2> QED
    BY <1>2, <2>1, Numbers
<1>3. CASE channel' = Append(channel, c)
  <2>1. Len(channel') = Len(channel) + 1
    BY <1>3, PutLast DEF TypeOK
  <2>2. channel' # channel
    BY <2>1, Numbers
  <2>3. JobPlaces' = (Len(channel) + 1) + Len(pending) + Len(kept) + places
    BY <1>1, <2>1 DEF JobPlaces
  <2>4. /\ Len(channel) \in Nat /\ Len(pending) \in Nat /\ Len(kept) \in Nat
        /\ places \in Nat
    BY Numbers
  <2>5. JobPlaces' = JobPlaces + 1
    BY ONLY <2>3, <2>4 DEF JobPlaces
  <2> QED
    BY <2>2, <2>5
<1> QED
  BY <1>1, <1>2, <1>3

\* What each step of a thread does to the counters and to their owners.
LEMMA ThreadsCounters ==
    ASSUME TypeOK, EngineShape, Counters, NEW c \in Conns,
           Dispatch(c) \/ ThreadStep(c)
    PROVE  Counters'
<1> USE Numbers DEF Counters, WaitingExact, ConnectionsExact, CountersBound, Fits
<1>1. CASE Dispatch(c)
  <2>1. /\ thread[c] = "none" /\ channel' = channel
        /\ waiting' = waiting /\ inflight' = inflight
    BY <1>1 DEF Dispatch, Closed, engineVars
  <2>2. JobPlaces' = JobPlaces
    BY <2>1, ThreadsAndJobs
  <2>3. CASE /\ thread' = [thread EXCEPT ![c] = "head"]
             /\ connections' = connections + 1
             /\ connections + 1 <= MaxConnections
    BY <2>1, <2>2, <2>3, SendersCount, ThreadsCount DEF ThreadStages
  <2>4. CASE /\ thread' = [thread EXCEPT ![c] = "none"]
             /\ connections' = connections
    BY <2>1, <2>2, <2>4, SendersCount, ThreadsCount DEF ThreadStages
  <2> QED
    BY <1>1, <2>3, <2>4 DEF Dispatch, Reply
<1>2. CASE ReadHead(c)
  <2>1. /\ thread[c] = "head" /\ channel' = channel
        /\ connections' = connections
        /\ waiting' = waiting /\ inflight' = inflight
    BY <1>2 DEF ReadHead, counters, engineVars
  <2>2. \/ thread' = [thread EXCEPT ![c] = "exit"]
        \/ thread' = [thread EXCEPT ![c] = "bytes"]
    BY <1>2 DEF ReadHead, Reply, Goto
  <2>3. JobPlaces' = JobPlaces
    BY <2>1, ThreadsAndJobs
  <2> QED
    BY <2>1, <2>2, <2>3, SendersCount, ThreadsCount DEF ThreadStages
<1>3. CASE AcquireBytes(c)
  <2>1. /\ thread[c] = "bytes" /\ channel' = channel
        /\ connections' = connections /\ waiting' = waiting
    BY <1>3 DEF AcquireBytes, engineVars
  <2>2. inflight' <= MaxInflightBytes
    BY <1>3 DEF AcquireBytes
  <2>3. \/ thread' = [thread EXCEPT ![c] = "body"]
        \/ thread' = [thread EXCEPT ![c] = "exit"]
    BY <1>3 DEF AcquireBytes, Reply, Goto
  <2>4. JobPlaces' = JobPlaces
    BY <2>1, ThreadsAndJobs
  <2> QED
    BY <2>1, <2>2, <2>3, <2>4, SendersCount, ThreadsCount DEF ThreadStages
<1>4. CASE ReadBody(c)
  <2>1. /\ thread[c] = "body" /\ channel' = channel
        /\ connections' = connections
        /\ waiting' = waiting /\ inflight' = inflight
    BY <1>4 DEF ReadBody, counters, engineVars
  <2>2. \/ thread' = [thread EXCEPT ![c] = "wait"]
        \/ thread' = [thread EXCEPT ![c] = "drop"]
    BY <1>4 DEF ReadBody, Reply, Goto
  <2>3. JobPlaces' = JobPlaces
    BY <2>1, ThreadsAndJobs
  <2> QED
    BY <2>1, <2>2, <2>3, SendersCount, ThreadsCount DEF ThreadStages
<1>5. CASE AcquireWaiting(c)
  <2>1. /\ thread[c] = "wait" /\ channel' = channel
        /\ connections' = connections /\ inflight' = inflight
    BY <1>5 DEF AcquireWaiting, engineVars
  <2>2. JobPlaces' = JobPlaces
    BY <2>1, ThreadsAndJobs
  <2>3. CASE /\ thread' = [thread EXCEPT ![c] = "send"]
             /\ waiting' = waiting + 1 /\ waiting + 1 <= QueueDepth
    <3>1. /\ Cardinality(Senders') = Cardinality(Senders) + 1
          /\ Cardinality(Threads') = Cardinality(Threads)
      BY <2>1, <2>3, SendersCount, ThreadsCount DEF ThreadStages
    <3> QED
      BY <2>1, <2>2, <2>3, <3>1
  <2>4. CASE /\ thread' = [thread EXCEPT ![c] = "drop"]
             /\ waiting' = waiting
    BY <2>1, <2>2, <2>4, SendersCount, ThreadsCount DEF ThreadStages
  <2> QED
    BY <1>5, <2>3, <2>4 DEF AcquireWaiting, Reply, Goto
<1>6. CASE TrySend(c)
  <2>1. /\ thread[c] = "send" /\ thread' = [thread EXCEPT ![c] = "exit"]
        /\ connections' = connections
    BY <1>6 DEF TrySend, Reply, Goto
  <2>2. /\ Cardinality(Senders') = Cardinality(Senders) - 1
        /\ Cardinality(Threads') = Cardinality(Threads)
    BY <2>1, SendersCount, ThreadsCount DEF ThreadStages
  <2>3. CASE channel' = Append(channel, c) /\ waiting' = waiting
             /\ inflight' = inflight
    <3>1. channel' # channel
      BY <2>3, PutLast DEF TypeOK
    <3>2. JobPlaces' = JobPlaces + 1
      BY <3>1, ThreadsAndJobs
    <3> QED
      BY <2>1, <2>2, <2>3, <3>2
  <2>4. CASE channel' = channel /\ waiting' = waiting - 1 /\ ReleaseBytes(c)
    <3>1. inflight' <= inflight /\ inflight' \in Int
      BY <2>4, ReleaseLowers, ReleaseTyped
    <3>2. JobPlaces' = JobPlaces
      BY <2>4, ThreadsAndJobs
    <3>3. waiting - 1 = (Cardinality(Senders) - 1) + JobPlaces
          /\ waiting - 1 <= QueueDepth
      BY BothLower
    <3>4. WaitingExact' /\ ConnectionsExact'
      BY <2>1, <2>2, <2>4, <3>2, <3>3
    <3>5. inflight' <= MaxInflightBytes
      BY <3>1, BelowStaysBelow
    <3>6. CountersBound'
      BY <2>1, <2>4, <3>3, <3>5
    <3> QED
      BY <3>4, <3>6
  <2> QED
    BY <1>6, <2>3, <2>4 DEF TrySend
<1>7. CASE DropBytes(c)
  <2>1. /\ thread[c] = "drop" /\ thread' = [thread EXCEPT ![c] = "exit"]
        /\ connections' = connections /\ waiting' = waiting
        /\ channel' = channel
    BY <1>7 DEF DropBytes, Goto, engineVars
  <2>2. inflight' <= inflight /\ inflight' \in Int
    BY <1>7, ReleaseLowers, ReleaseTyped DEF DropBytes
  <2>3. /\ Cardinality(Senders') = Cardinality(Senders)
        /\ Cardinality(Threads') = Cardinality(Threads)
    BY <2>1, SendersCount, ThreadsCount DEF ThreadStages
  <2>4. JobPlaces' = JobPlaces
    BY <2>1, ThreadsAndJobs
  <2> QED
    BY <2>1, <2>2, <2>3, <2>4
<1>8. CASE EndThread(c)
  <2>1. /\ thread[c] = "exit" /\ thread' = [thread EXCEPT ![c] = "none"]
        /\ connections' = connections - 1 /\ waiting' = waiting
        /\ inflight' = inflight /\ channel' = channel
    BY <1>8 DEF EndThread, Goto, engineVars
  <2>2. /\ Cardinality(Senders') = Cardinality(Senders)
        /\ Cardinality(Threads') = Cardinality(Threads) - 1
    BY <2>1, SendersCount, ThreadsCount DEF ThreadStages
  <2>3. JobPlaces' = JobPlaces
    BY <2>1, ThreadsAndJobs
  <2> QED
    BY <2>1, <2>2, <2>3
<1> QED
  BY <1>1, <1>2, <1>3, <1>4, <1>5, <1>6, <1>7, <1>8 DEF ThreadStep

\* A step that leaves the threads alone keeps the counters if it takes the same
\* number of places from `waiting` and from the jobs.
LEMMA SameThreads ==
    ASSUME TypeOK, Counters,
           thread' = thread, connections' = connections,
           inflight' \in Int, inflight' <= inflight,
           \/ waiting' = waiting /\ JobPlaces' = JobPlaces
           \/ waiting' = waiting - 1 /\ JobPlaces' = JobPlaces - 1
    PROVE  Counters'
<1>1. Senders' = Senders /\ Threads' = Threads
  BY DEF Senders, Threads
<1>2. /\ waiting = Cardinality(Senders) + JobPlaces /\ waiting <= QueueDepth
      /\ connections <= MaxConnections /\ inflight <= MaxInflightBytes
      /\ connections = Cardinality(Threads)
  BY DEF Counters, WaitingExact, ConnectionsExact, CountersBound
<1>3. /\ waiting - 1 = Cardinality(Senders) + (JobPlaces - 1)
      /\ waiting - 1 <= QueueDepth
  BY <1>2, Numbers, BothLower
<1>4. waiting' = Cardinality(Senders) + JobPlaces' /\ waiting' <= QueueDepth
  BY <1>2, <1>3
<1>5. inflight' <= MaxInflightBytes
  BY <1>2, Numbers, BelowStaysBelow
<1> QED
  BY <1>1, <1>2, <1>4, <1>5
     DEF Counters, WaitingExact, ConnectionsExact, CountersBound

\* The engine moves jobs between its queues and gives places back.
LEMMA EngineMoves ==
    ASSUME TypeOK, EngineShape, EngineStep
    PROVE  \/ waiting' = waiting /\ JobPlaces' = JobPlaces
           \/ waiting' = waiting - 1 /\ JobPlaces' = JobPlaces - 1
<1> USE DEF JobPlaces
<1>0. /\ Len(channel) \in Nat /\ Len(pending) \in Nat /\ Len(kept) \in Nat
      /\ places \in Nat
  BY Numbers
<1>1. CASE PopPending
  <2>1. /\ Len(pending') = Len(pending) - 1 /\ places = 0 /\ places' = 1
        /\ channel' = channel /\ kept' = kept /\ waiting' = waiting
    BY <1>1, TakeHead, EmptySeq DEF PopPending, TypeOK, EngineShape
  <2>2. JobPlaces' = Len(channel) + (Len(pending) - 1) + Len(kept) + (places + 1)
    BY <2>1
  <2> QED
    BY ONLY <1>0, <2>1, <2>2, Moves DEF JobPlaces
<1>2. CASE Recv
  <2>1. /\ Len(channel') = Len(channel) - 1 /\ places = 0 /\ places' = 1
        /\ pending' = pending /\ kept' = kept /\ waiting' = waiting
    BY <1>2, TakeHead, EmptySeq DEF Recv, TypeOK, EngineShape
  <2>2. JobPlaces' = (Len(channel) - 1) + Len(pending) + Len(kept) + (places + 1)
    BY <2>1
  <2> QED
    BY ONLY <1>0, <2>1, <2>2, Moves DEF JobPlaces
<1>3. CASE RecvClosed \/ LeadSolo \/ LeadBatch \/ DrainEnd
  BY <1>3 DEF RecvClosed, LeadSolo, LeadBatch, DrainEnd
<1>4. CASE DrainOne
  <2>1. /\ Len(channel') = Len(channel) - 1
        /\ Len(pending') = Len(pending) + 1
        /\ places' = places /\ kept' = kept /\ waiting' = waiting
    BY <1>4, TakeHead, PutLast DEF DrainOne, TypeOK
  <2>2. JobPlaces' = (Len(channel) - 1) + (Len(pending) + 1) + Len(kept) + places
    BY <2>1
  <2> QED
    BY ONLY <1>0, <2>1, <2>2, Moves DEF JobPlaces
<1>5. CASE TakeOne
  <2>1. /\ Len(pending') = Len(pending) - 1
        /\ channel' = channel /\ waiting' = waiting
    BY <1>5, TakeHead DEF TakeOne, TypeOK
  <2>2. CASE places' = places + 1 /\ kept' = kept
    <3>1. JobPlaces' = Len(channel) + (Len(pending) - 1) + Len(kept)
                           + (places + 1)
      BY <2>1, <2>2
    <3> QED
      BY ONLY <1>0, <2>1, <3>1, Moves DEF JobPlaces
  <2>3. CASE places' = places /\ kept' = Append(kept, Head(pending))
    <3>1. Len(kept') = Len(kept) + 1
      BY <1>5, <2>3, TakeHead, PutLast DEF TakeOne, TypeOK
    <3>2. JobPlaces' = Len(channel) + (Len(pending) - 1) + (Len(kept) + 1)
                           + places
      BY <2>1, <2>3, <3>1
    <3> QED
      BY ONLY <1>0, <2>1, <3>2, Moves DEF JobPlaces
  <2> QED
    BY <1>5, <2>2, <2>3 DEF TakeOne
<1>6. CASE TakeEnd
  <2>1. /\ Len(pending') = Len(kept) /\ Len(pending) = 0 /\ Len(kept') = 0
        /\ channel' = channel /\ places' = places /\ waiting' = waiting
    BY <1>6, EmptySeq DEF TakeEnd
  <2>2. /\ JobPlaces' = Len(channel) + Len(kept) + 0 + places
        /\ JobPlaces = Len(channel) + 0 + Len(kept) + places
    BY <2>1
  <2> QED
    BY ONLY <1>0, <2>1, <2>2, Moves DEF JobPlaces
<1>7. CASE GivePlaceBack
  <2>1. /\ waiting' = waiting - 1 /\ places' = places - 1
        /\ channel' = channel /\ pending' = pending /\ kept' = kept
    BY <1>7 DEF GivePlaceBack
  <2>2. JobPlaces' = Len(channel) + Len(pending) + Len(kept) + (places - 1)
    BY <2>1
  <2> QED
    BY <2>1, <2>2, OneLess
<1>8. ASSUME NEW c \in Conns, Serve(c)
      PROVE  waiting' = waiting /\ JobPlaces' = JobPlaces
  BY <1>8 DEF Serve, engineVars
<1>9. CASE DropJob
  BY <1>9 DEF DropJob
<1> QED
  BY <1>1, <1>2, <1>3, <1>4, <1>5, <1>6, <1>7, <1>8, <1>9 DEF EngineStep

LEMMA EngineCounters ==
    ASSUME TypeOK, EngineShape, Counters, EngineStep
    PROVE  Counters'
<1>1. thread' = thread /\ connections' = connections
  BY DEF EngineStep, PopPending, Recv, RecvClosed, LeadSolo, LeadBatch,
         DrainOne, DrainEnd, TakeOne, TakeEnd, GivePlaceBack, Serve, DropJob,
         threadVars
<1>2. inflight' <= inflight /\ inflight' \in Int
  <2>1. CASE DropJob
    <3>1. Head(batch) \in Conns
      BY <2>1, TakeHead DEF DropJob, EngineShape, TypeOK
    <3> QED
      BY <2>1, <3>1, ReleaseLowers, ReleaseTyped DEF DropJob
  <2>2. CASE ~DropJob
    <3>1. inflight' = inflight
      BY <2>2 DEF EngineStep, PopPending, Recv, RecvClosed, LeadSolo,
         LeadBatch, DrainOne, DrainEnd, TakeOne, TakeEnd, GivePlaceBack, Serve,
         jobVars
    <3> QED
      BY <3>1, Numbers
  <2> QED
    BY <2>1, <2>2
<1> QED
  BY <1>1, <1>2, EngineMoves, SameThreads

\* A panic gives back what it discards, place by place.
LEMMA CrashMoves ==
    ASSUME TypeOK, EngineShape, Crash
    PROVE  \/ waiting' = waiting /\ JobPlaces' = JobPlaces
           \/ waiting' = waiting - 1 /\ JobPlaces' = JobPlaces - 1
<1> USE DEF JobPlaces
<1>0. /\ Len(channel) \in Nat /\ Len(pending) \in Nat /\ Len(kept) \in Nat
      /\ places \in Nat
  BY Numbers
<1>1. CASE EnginePanic \/ Disconnect \/ Exit
  BY <1>1 DEF EnginePanic, Disconnect, Exit
<1>2. CASE UnwindHands
  <2>1. channel' = channel /\ pending' = pending /\ kept' = kept
    BY <1>2 DEF UnwindHands
  <2>2. CASE waiting' = waiting /\ places' = places
    BY <2>1, <2>2
  <2>3. CASE waiting' = waiting - 1 /\ places' = places - 1
    <3>1. JobPlaces' = Len(channel) + Len(pending) + Len(kept) + (places - 1)
      BY <2>1, <2>3
    <3> QED
      BY <2>3, <3>1, OneLess
  <2> QED
    BY <1>2, <2>2, <2>3 DEF UnwindHands
<1>3. CASE UnwindPending
  <2>1. /\ Len(pending') = Len(pending) - 1 /\ waiting' = waiting - 1
        /\ channel' = channel /\ kept' = kept /\ places' = places
    BY <1>3, TakeHead DEF UnwindPending, TypeOK
  <2>2. JobPlaces' = Len(channel) + (Len(pending) - 1) + Len(kept) + places
    BY <2>1
  <2> QED
    BY <2>1, <2>2, OneLess
<1>4. CASE DiscardMessage
  <2>1. /\ Len(channel') = Len(channel) - 1 /\ waiting' = waiting - 1
        /\ pending' = pending /\ kept' = kept /\ places' = places
    BY <1>4, TakeHead DEF DiscardMessage, TypeOK
  <2>2. JobPlaces' = (Len(channel) - 1) + Len(pending) + Len(kept) + places
    BY <2>1
  <2> QED
    BY <2>1, <2>2, OneLess
<1> QED
  BY <1>1, <1>2, <1>3, <1>4 DEF Crash

LEMMA CrashCounters ==
    ASSUME TypeOK, EngineShape, Counters, Crash
    PROVE  Counters'
<1>1. thread' = thread /\ connections' = connections
  BY DEF Crash, EnginePanic, UnwindHands, UnwindPending, Disconnect,
         DiscardMessage, Exit, threadVars
<1>2. inflight' <= inflight /\ inflight' \in Int
  <2>1. CASE \E c \in Conns : ReleaseBytes(c)
    BY <2>1, ReleaseLowers, ReleaseTyped
  <2>2. CASE inflight' = inflight
    BY <2>2, Numbers
  <2>3. (\E c \in Conns : ReleaseBytes(c)) \/ inflight' = inflight
    BY TakeHead
       DEF TypeOK, Crash, EnginePanic, UnwindHands, UnwindPending, Disconnect,
           DiscardMessage, Exit, Discard, jobVars
  <2> QED
    BY <2>1, <2>2, <2>3
<1> QED
  BY <1>1, <1>2, CrashMoves, SameThreads

LEMMA NextCounters ==
    ASSUME TypeOK, EngineShape, Counters, [Next]_vars
    PROVE  Counters'
<1>1. CASE StopAccepting \/ UNCHANGED vars
  <2>1. /\ thread' = thread /\ connections' = connections
        /\ inflight' = inflight /\ waiting' = waiting /\ channel' = channel
        /\ pending' = pending /\ kept' = kept /\ places' = places
    BY <1>1 DEF StopAccepting, counters, engineVars, vars
  <2>2. waiting' = waiting /\ JobPlaces' = JobPlaces
    BY <2>1 DEF JobPlaces
  <2> QED
    BY <2>1, <2>2, SameThreads, Numbers
<1> QED
  BY <1>1, ThreadsCounters, EngineCounters, CrashCounters
     DEF Next, Terminated

-----------------------------------------------------------------------------
(* What the counters give. *)

\* A thread about to send is one of the places counted by `waiting`, and so is
\* every job of the channel: there is room for one more.
LEMMA PlaceMeansRoom ==
    ASSUME TypeOK, EngineShape, Counters
    PROVE  HolderCanSend
<1> SUFFICES ASSUME NEW c \in Conns, thread[c] = "send", Healthy
             PROVE  ReceiverAlive /\ Room
  BY DEF HolderCanSend
<1>1. Cardinality(Senders) >= 1
  <2>1. c \in Senders
    BY DEF Senders
  <2>2. Cardinality(Senders \ {c}) = Cardinality(Senders) - 1
    BY <2>1, ThreadSets, CountLeave
  <2>3. Cardinality(Senders \ {c}) \in Nat
    BY ThreadSets, CountsAreNaturals
  <2> QED
    BY <2>2, <2>3, Numbers
<1>2. Room
  <2>1. JobPlaces < QueueDepth
    BY <1>1, Numbers DEF Counters, WaitingExact, CountersBound
  <2>2. Len(channel) <= JobPlaces
    BY Numbers DEF JobPlaces
  <2> QED
    BY <2>1, <2>2, Numbers DEF Room
<1>3. engine # "stopped"
  BY DEF EngineShape, SendersGone
<1> QED
  BY <1>2, <1>3 DEF Healthy, ReceiverAlive

\* While the engine drains, its leader owns a place: the local queue stays below
\* its cap, so the drain ends only on an empty channel.
LEMMA LeaderLeavesRoom ==
    ASSUME TypeOK, EngineShape, Counters, engine = "draining",
           Len(pending) >= QueueDepth
    PROVE  channel = <<>>
<1>1. places = 1
  BY DEF EngineShape
<1>2. JobPlaces <= QueueDepth
  BY Numbers DEF Counters, WaitingExact, CountersBound
<1>3. FALSE
  BY <1>1, <1>2, Numbers DEF JobPlaces
<1> QED
  BY <1>3

\* Only DrainEnd ends a drain without a crash.
LEMMA DrainStep ==
    ASSUME TypeOK, EngineShape, Counters, [Next]_vars,
           engine = "draining", engine' = "taking"
    PROVE  channel = <<>>
<1>1. DrainEnd
  BY DEF Next, Dispatch, ThreadStep, ReadHead, AcquireBytes, ReadBody,
         AcquireWaiting, TrySend, DropBytes, EndThread, StopAccepting,
         EngineStep, PopPending, Recv, RecvClosed, LeadSolo, LeadBatch,
         DrainOne, TakeOne, TakeEnd, GivePlaceBack, Serve, DropJob, Crash,
         EnginePanic, UnwindHands, UnwindPending, Disconnect, DiscardMessage,
         Exit, Terminated, engineVars, vars
<1> QED
  BY <1>1, LeaderLeavesRoom DEF DrainEnd

\* The exact counters and their bounds cap what they count.
LEMMA BoundsCap ==
    ASSUME TypeOK, Counters
    PROVE  CapsHold
BY Numbers DEF Counters, WaitingExact, ConnectionsExact, CountersBound, CapsHold

\* The inductive invariant, for every execution.
LEMMA CountersInvariant ==
    Spec => [](TypeOK /\ EngineShape /\ Counters)
<1>1. Init => TypeOK /\ EngineShape /\ Counters
  BY InitTyped, InitShape, InitCounters
<1>2. /\ TypeOK /\ EngineShape /\ Counters
      /\ [Next]_vars
      => (TypeOK /\ EngineShape /\ Counters)'
  BY NextTyped, NextShape, NextCounters
<1> QED
  BY <1>1, <1>2, PTL DEF Spec

\* The counters of waiting places and of connections are exact and their caps
\* hold: in every execution, with any number of clients and any limits.
THEOREM CountersCorrect == Spec => [](WaitingExact /\ ConnectionsExact /\ CapsHold)
<1>1. TypeOK /\ EngineShape /\ Counters
      => WaitingExact /\ ConnectionsExact /\ CapsHold
  BY BoundsCap DEF Counters
<1> QED
  BY <1>1, CountersInvariant, PTL

\* A thread that owns a waiting place can always send its job: the error branches
\* of try_send are dead code until the engine panics.
THEOREM SendsSucceed == Spec => []HolderCanSend
<1>1. TypeOK /\ EngineShape /\ Counters => HolderCanSend
  BY PlaceMeansRoom
<1> QED
  BY <1>1, CountersInvariant, PTL

\* A drain ends on an empty channel only, whatever the connection threads do in
\* the meantime.
THEOREM DrainsReachAll == Spec => DrainReachesAll
<1>1. /\ TypeOK /\ EngineShape /\ Counters
      /\ [Next]_vars
      => [engine = "draining" /\ engine' = "taking" => channel = <<>>]_vars
  BY DrainStep
<1> QED
  BY <1>1, CountersInvariant, PTL DEF Spec, DrainReachesAll

-----------------------------------------------------------------------------
(* Answers. *)

\* Before it is sent a connection has no answer and is no job; once its thread is
\* about to end, it is a job or has its answer.
Answering ==
    \A c \in Conns :
        /\ thread[c] \in {"head", "bytes", "body", "wait", "send"} =>
              answer[c] = "none" /\ c \notin Jobs
        /\ thread[c] \in {"drop", "exit"} => c \in Jobs \/ answer[c] # "none"

\* What the engine and its end may do to the connections: no job is new, a job that
\* is dropped has its answer, and only jobs without an answer get one.
Handled ==
    /\ UNCHANGED thread
    /\ Jobs' \subseteq Jobs
    /\ \A c \in Conns :
          /\ c \in Jobs /\ c \notin Jobs' => answer'[c] # "none"
          /\ answer'[c] # answer[c] => answer[c] = "none" /\ c \in Jobs

LEMMA DiscardFacts ==
    ASSUME TypeOK, NEW c \in Conns, Discard(c)
    PROVE  /\ answer'[c] # "none"
           /\ \A d \in Conns : answer'[d] # answer[d] => d = c /\ answer[d] = "none"
BY DEF TypeOK, Discard

\* The engine moves its jobs from queue to queue; only DropJob lets one go.
LEMMA EngineJobs ==
    ASSUME TypeOK, EngineShape, EngineStep
    PROVE  /\ UNCHANGED thread
           /\ \/ Jobs' = Jobs /\ UNCHANGED <<length, inflight>>
              \/ /\ DropJob /\ batch # <<>> /\ Head(batch) \in Jobs
                 /\ Jobs' \cup {Head(batch)} = Jobs
<1> USE DEF TypeOK, Jobs, threadVars, jobVars, engineVars
<1>1. CASE PopPending
  <2>1. Range(pending) = {Head(pending)} \cup Range(Tail(pending))
    BY <1>1, RangeHead DEF PopPending
  <2>2. Range(<<Head(pending)>>) = {Head(pending)} /\ Range(batch) = {}
    BY <1>1, RangeOne, RangeEmpty DEF PopPending, EngineShape
  <2>3. Jobs' = Jobs
    BY <1>1, <2>1, <2>2 DEF PopPending
  <2> QED
    BY <1>1, <2>3 DEF PopPending
<1>2. CASE Recv
  <2>1. Range(channel) = {Head(channel)} \cup Range(Tail(channel))
    BY <1>2, RangeHead DEF Recv
  <2>2. Range(<<Head(channel)>>) = {Head(channel)} /\ Range(batch) = {}
    BY <1>2, RangeOne, RangeEmpty DEF Recv, EngineShape
  <2>3. Jobs' = Jobs
    BY <1>2, <2>1, <2>2 DEF Recv
  <2> QED
    BY <1>2, <2>3 DEF Recv
<1>3. CASE RecvClosed
  BY <1>3 DEF RecvClosed
<1>4. CASE LeadSolo
  BY <1>4 DEF LeadSolo
<1>5. CASE LeadBatch
  BY <1>5 DEF LeadBatch
<1>6. CASE DrainOne
  <2>1. Head(channel) \in Conns
    BY <1>6, TakeHead DEF DrainOne
  <2>2. Range(channel) = {Head(channel)} \cup Range(Tail(channel))
    BY <1>6, RangeHead DEF DrainOne
  <2>3. Range(Append(pending, Head(channel))) = Range(pending) \cup {Head(channel)}
    BY <2>1, RangeAppend
  <2>4. Jobs' = Jobs
    BY <1>6, <2>2, <2>3 DEF DrainOne
  <2> QED
    BY <1>6, <2>4 DEF DrainOne
<1>7. CASE DrainEnd
  BY <1>7 DEF DrainEnd
<1>8. CASE TakeOne
  <2>1. Head(pending) \in Conns
    BY <1>8, TakeHead DEF TakeOne
  <2>2. Range(pending) = {Head(pending)} \cup Range(Tail(pending))
    BY <1>8, RangeHead DEF TakeOne
  <2>3. /\ Range(Append(batch, Head(pending))) = Range(batch) \cup {Head(pending)}
        /\ Range(Append(kept, Head(pending))) = Range(kept) \cup {Head(pending)}
    BY <2>1, RangeAppend
  <2>4. Jobs' = Jobs
    BY <1>8, <2>2, <2>3 DEF TakeOne
  <2> QED
    BY <1>8, <2>4 DEF TakeOne
<1>9. CASE TakeEnd
  BY <1>9, RangeEmpty DEF TakeEnd
<1>10. CASE GivePlaceBack
  BY <1>10 DEF GivePlaceBack
<1>11. ASSUME NEW c \in Conns, Serve(c)
       PROVE  Jobs' = Jobs /\ UNCHANGED <<thread, length, inflight>>
  BY <1>11 DEF Serve
<1>12. CASE DropJob
  <2>1. Range(batch) = {Head(batch)} \cup Range(Tail(batch))
    BY <1>12, RangeHead DEF DropJob, EngineShape
  <2> QED
    BY <1>12, <2>1 DEF DropJob, EngineShape
<1> QED
  BY <1>1, <1>2, <1>3, <1>4, <1>5, <1>6, <1>7, <1>8, <1>9, <1>10, <1>11,
     <1>12 DEF EngineStep

LEMMA EngineHandles ==
    ASSUME TypeOK, EngineShape, EngineStep
    PROVE  Handled
<1>1. /\ UNCHANGED thread
      /\ Jobs' = Jobs \/ (DropJob /\ batch # <<>> /\ Jobs' \cup {Head(batch)} = Jobs)
  BY EngineJobs
<1>2. CASE \E c \in Conns : Serve(c)
  <2>1. PICK c \in Conns : Serve(c)
    BY <1>2
  <2>2. c \in Jobs /\ Jobs' = Jobs
    BY <2>1 DEF Serve, Jobs, engineVars
  <2> QED
    BY <1>1, <2>1, <2>2 DEF Serve, Handled, TypeOK
<1>3. CASE DropJob
  <2>1. answer[Head(batch)] # "none" /\ answer' = answer
    BY <1>3, RangeHead DEF DropJob, EngineShape, TypeOK
  <2> QED
    BY <1>1, <2>1 DEF Handled
<1>4. CASE ~DropJob /\ ~\E c \in Conns : Serve(c)
  <2>1. answer' = answer
    BY <1>4 DEF EngineStep, PopPending, Recv, RecvClosed, LeadSolo, LeadBatch,
         DrainOne, DrainEnd, TakeOne, TakeEnd, GivePlaceBack, jobVars
  <2> QED
    BY <1>1, <1>4, <2>1 DEF Handled
<1> QED
  BY <1>2, <1>3, <1>4

\* A panic leaves the jobs alone or discards one of them.
LEMMA CrashJobs ==
    ASSUME TypeOK, Crash
    PROVE  /\ UNCHANGED thread
           /\ \/ Jobs' = Jobs /\ UNCHANGED jobVars
              \/ \E c \in Jobs : Discard(c) /\ Jobs' \cup {c} = Jobs
<1> USE DEF TypeOK, Jobs, threadVars, jobVars
<1>1. CASE EnginePanic
  BY <1>1 DEF EnginePanic
<1>2. CASE UnwindHands
  <2>1. Range(batch) = {Head(batch)} \cup Range(Tail(batch))
    BY <1>2, RangeHead DEF UnwindHands
  <2>2. Jobs' \cup {Head(batch)} = Jobs
    BY <1>2, <2>1 DEF UnwindHands
  <2> QED
    BY <1>2, <2>2 DEF UnwindHands
<1>3. CASE UnwindPending
  <2>1. Range(pending) = {Head(pending)} \cup Range(Tail(pending))
    BY <1>3, RangeHead DEF UnwindPending
  <2>2. Jobs' \cup {Head(pending)} = Jobs
    BY <1>3, <2>1 DEF UnwindPending
  <2> QED
    BY <1>3, <2>2 DEF UnwindPending
<1>4. CASE Disconnect
  BY <1>4 DEF Disconnect
<1>5. CASE DiscardMessage
  <2>1. Range(channel) = {Head(channel)} \cup Range(Tail(channel))
    BY <1>5, RangeHead DEF DiscardMessage
  <2>2. Jobs' \cup {Head(channel)} = Jobs
    BY <1>5, <2>1 DEF DiscardMessage
  <2> QED
    BY <1>5, <2>2 DEF DiscardMessage
<1>6. CASE Exit
  BY <1>6 DEF Exit
<1> QED
  BY <1>1, <1>2, <1>3, <1>4, <1>5, <1>6 DEF Crash

LEMMA CrashHandles ==
    ASSUME TypeOK, Crash
    PROVE  Handled
<1>1. UNCHANGED thread
  BY CrashJobs
<1>2. CASE Jobs' = Jobs /\ UNCHANGED jobVars
  BY <1>1, <1>2 DEF Handled, jobVars
<1>3. CASE \E c \in Jobs : Discard(c) /\ Jobs' \cup {c} = Jobs
  <2>1. PICK c \in Jobs : Discard(c) /\ Jobs' \cup {c} = Jobs
    BY <1>3
  <2>2. c \in Conns
    BY RangeOfSeq DEF TypeOK, Jobs
  <2>3. /\ answer'[c] # "none"
        /\ \A d \in Conns : answer'[d] # answer[d] => d = c /\ answer[d] = "none"
    BY <2>1, <2>2, DiscardFacts
  <2> QED
    BY <1>1, <2>1, <2>3 DEF Handled
<1> QED
  BY <1>2, <1>3, CrashJobs

\* One step of AnsweredOnce.
Settled ==
    \A c \in Conns :
        /\ ~Closed(c) /\ answer[c] # "none" => answer'[c] = answer[c]
        /\ ~Closed(c) /\ Closed(c)' => answer'[c] # "none"

LEMMA HandledSettles ==
    ASSUME Answering, Handled
    PROVE  Answering' /\ Settled
BY DEF Answering, Handled, Settled, Closed

\* A step of the connection of c leaves those of the others alone.
LEMMA OnlyOne ==
    ASSUME Answering, NEW c \in Conns,
           \A d \in Conns \ {c} :
               thread'[d] = thread[d] /\ answer'[d] = answer[d]
                   /\ (d \in Jobs' <=> d \in Jobs),
           /\ thread'[c] \in {"head", "bytes", "body", "wait", "send"} =>
                 answer'[c] = "none" /\ c \notin Jobs'
           /\ thread'[c] \in {"drop", "exit"} => c \in Jobs' \/ answer'[c] # "none",
           ~Closed(c) => \/ answer[c] = "none" /\ ~Closed(c)'
                         \/ answer'[c] = answer[c] /\ (Closed(c)' => answer[c] # "none")
    PROVE  Answering' /\ Settled
BY DEF Answering, Settled, Closed

LEMMA ThreadsSettle ==
    ASSUME TypeOK, Answering, NEW c \in Conns, Dispatch(c) \/ ThreadStep(c)
    PROVE  Answering' /\ Settled
<1> USE DEF TypeOK, Answering, Reply, Goto, engineVars, counters, Closed, Jobs
<1>1. CASE Dispatch(c)
  BY <1>1, OnlyOne DEF Dispatch
<1>2. CASE ReadHead(c)
  BY <1>2, OnlyOne DEF ReadHead, HeadAnswers
<1>3. CASE AcquireBytes(c)
  BY <1>3, OnlyOne DEF AcquireBytes
<1>4. CASE ReadBody(c)
  BY <1>4, OnlyOne DEF ReadBody, BodyAnswers
<1>5. CASE AcquireWaiting(c)
  BY <1>5, OnlyOne DEF AcquireWaiting
<1>6. CASE TrySend(c)
  <2>1. Range(Append(channel, c)) = Range(channel) \cup {c}
    BY RangeAppend
  <2> QED
    BY <1>6, <2>1, OnlyOne DEF TrySend
<1>7. CASE DropBytes(c)
  BY <1>7, OnlyOne DEF DropBytes
<1>8. CASE EndThread(c)
  BY <1>8, OnlyOne DEF EndThread
<1> QED
  BY <1>1, <1>2, <1>3, <1>4, <1>5, <1>6, <1>7, <1>8 DEF ThreadStep

LEMMA NextSettles ==
    ASSUME TypeOK, EngineShape, Answering, [Next]_vars
    PROVE  Answering' /\ Settled
<1>1. CASE StopAccepting
  BY <1>1 DEF StopAccepting, Answering, Settled, Closed, Jobs, engineVars
<1>2. CASE UNCHANGED vars
  BY <1>2 DEF vars, Answering, Settled, Closed, Jobs
<1> QED
  BY <1>1, <1>2, ThreadsSettle, EngineHandles, CrashHandles, HandledSettles
     DEF Next, Terminated

LEMMA InitAnswering == Init => Answering
BY RangeEmpty DEF Init, Answering, Jobs

\* What a client got never changes while its connection is open, and no
\* connection is closed before something is settled: across the hand-over from
\* the connection thread to the engine, in batches and through a panic.
THEOREM AnsweredOnceAlways == Spec => AnsweredOnce
<1>1. Init => Answering
  BY InitAnswering
<1>2. TypeOK /\ EngineShape /\ Answering /\ [Next]_vars => Answering'
  BY NextSettles
<1>3. /\ TypeOK /\ EngineShape /\ Answering /\ [Next]_vars
      => [\A c \in Conns :
            /\ ~Closed(c) /\ answer[c] # "none" => answer'[c] = answer[c]
            /\ ~Closed(c) /\ Closed(c)' => answer'[c] # "none"]_vars
  BY NextSettles DEF Settled
<1> QED
  BY <1>1, <1>2, <1>3, TypeCorrect, PTL DEF Spec, AnsweredOnce

-----------------------------------------------------------------------------
(* The bytes.                                                               *)

\* One element for each byte reserved, with the owners H and the amounts len.
BytesOf(H, len) == UNION {{c} \X (1..len[c]) : c \in H}

LEMMA ReservedIs ==
    /\ ReservedBytes = BytesOf(BytesHolders, length)
    /\ ReservedBytes' = BytesOf(BytesHolders', length')
BY DEF ReservedBytes, BytesOf

LEMMA BytesFinite ==
    ASSUME NEW H \in SUBSET Conns, NEW len \in [Conns -> Nat]
    PROVE  /\ IsFiniteSet(BytesOf(H, len))
           /\ Cardinality(BytesOf(H, len)) \in Nat
<1> DEFINE f == [c \in H |-> {c} \X (1..len[c])]
           T == {{c} \X (1..len[c]) : c \in H}
<1>1. IsFiniteSet(H)
  BY CountsAreNaturals
<1>2. f \in Surjection(H, T)
  BY DEF Surjection
<1>3. IsFiniteSet(T)
  <2> HIDE DEF f, T
  <2> QED
    BY <1>1, <1>2, FS_Surjection
<1>4. \A b \in T : IsFiniteSet(b)
  <2> SUFFICES ASSUME NEW c \in H PROVE IsFiniteSet({c} \X (1..len[c]))
    OBVIOUS
  <2>1. IsFiniteSet({c})
    BY FS_Singleton
  <2>2. len[c] \in Nat
    OBVIOUS
  <2>3. IsFiniteSet(1..len[c])
    BY <2>2, FS_Interval
  <2> QED
    BY <2>1, <2>3, FS_Product
<1>5. IsFiniteSet(UNION T)
  <2> HIDE DEF T
  <2> QED
    BY <1>3, <1>4, FS_UNION
<1> QED
  BY <1>5, FS_CardinalityType DEF BytesOf

LEMMA BytesSame ==
    ASSUME NEW H, NEW len, NEW len2, \A c \in H : len2[c] = len[c]
    PROVE  BytesOf(H, len2) = BytesOf(H, len)
BY DEF BytesOf

LEMMA BytesEnter ==
    ASSUME NEW H \in SUBSET Conns, NEW len \in [Conns -> Nat],
           NEW c \in Conns, c \notin H
    PROVE  Cardinality(BytesOf(H \cup {c}, len)) = Cardinality(BytesOf(H, len)) + len[c]
<1> DEFINE own == {c} \X (1..len[c])
<1>1. BytesOf(H \cup {c}, len) = BytesOf(H, len) \cup own
  BY DEF BytesOf
<1>2. BytesOf(H, len) \cap own = {}
  BY DEF BytesOf
<1>3. IsFiniteSet(own) /\ Cardinality(own) = len[c]
  <2>1. IsFiniteSet({c}) /\ Cardinality({c}) = 1
    BY FS_Singleton
  <2>2. len[c] \in Nat
    OBVIOUS
  <2>3. IsFiniteSet(1..len[c]) /\ Cardinality(1..len[c]) = len[c]
    BY <2>2, FS_Interval
  <2>4. IsFiniteSet(own) /\ Cardinality(own) = 1 * len[c]
    BY <2>1, <2>3, FS_Product
  <2> QED
    BY <2>2, <2>4
<1> HIDE DEF own
<1>4. /\ IsFiniteSet(BytesOf(H, len)) /\ Cardinality(BytesOf(H, len)) \in Nat
      /\ Cardinality({}) = 0 /\ len[c] \in Nat
  BY BytesFinite, FS_EmptySet
<1>5. Cardinality(BytesOf(H, len) \cup own)
         = Cardinality(BytesOf(H, len)) + Cardinality(own)
               - Cardinality(BytesOf(H, len) \cap own)
  BY <1>3, <1>4, FS_Union
<1>6. Cardinality(BytesOf(H, len) \cap own) = 0
  BY <1>2, <1>4
<1>7. Cardinality(BytesOf(H \cup {c}, len)) = Cardinality(BytesOf(H, len) \cup own)
  BY <1>1
<1> QED
  BY ONLY <1>3, <1>4, <1>5, <1>6, <1>7

LEMMA BytesEmpty ==
    ASSUME NEW len
    PROVE  Cardinality(BytesOf({}, len)) = 0
BY FS_EmptySet DEF BytesOf

\* The owners that leave give back exactly what they own.
LEMMA ReleaseExact ==
    ASSUME TypeOK, InflightExact, NEW c \in BytesHolders, c \in Conns, ReleaseBytes(c),
           BytesHolders \in SUBSET Conns,
           BytesHolders' \ {c} = BytesHolders \ {c}
    PROVE  InflightExact'
<1> DEFINE H == BytesHolders \ {c}
<1>1. H \in SUBSET Conns /\ c \notin H /\ H \cup {c} = BytesHolders
  OBVIOUS
<1>2. /\ length \in [Conns -> Nat] /\ inflight \in Int
      /\ length' = [length EXCEPT ![c] = 0] /\ inflight' = inflight - length[c]
  BY DEF TypeOK, ReleaseBytes
<1>3. BytesOf(BytesHolders', length') = BytesOf(H, length)
  <2>1. BytesHolders' = H \/ BytesHolders' = H \cup {c}
    OBVIOUS
  <2>2. 1..length'[c] = {} /\ \A d \in H : length'[d] = length[d]
    BY <1>1, <1>2
  <2>3. {c} \X {} = {}
    OBVIOUS
  <2>4. BytesOf(H \cup {c}, length') = BytesOf(H, length') \cup ({c} \X (1..length'[c]))
    BY DEF BytesOf
  <2>5. BytesOf(H, length') = BytesOf(H, length)
    BY <2>2, BytesSame
  <2> QED
    BY <2>1, <2>2, <2>3, <2>4, <2>5
<1> HIDE DEF H
<1>4. /\ Cardinality(BytesOf(H \cup {c}, length)) = Cardinality(BytesOf(H, length)) + length[c]
      /\ Cardinality(BytesOf(H, length)) \in Nat
  BY <1>1, <1>2, BytesEnter, BytesFinite
<1>5. inflight = Cardinality(BytesOf(H \cup {c}, length)) /\ inflight <= MaxInflightBytes
  BY <1>1, ReservedIs DEF InflightExact
<1>6. inflight' = Cardinality(BytesOf(H, length)) /\ inflight' <= MaxInflightBytes
  <2>1. length[c] \in Nat /\ MaxInflightBytes \in Nat
    BY <1>2, LimitsAssumption
  <2> QED
    BY <1>2, <1>4, <1>5, <2>1
<1> QED
  BY <1>3, <1>6, ReservedIs DEF InflightExact

LEMMA SameBytes ==
    ASSUME InflightExact, inflight' = inflight, BytesHolders' = BytesHolders,
           \A c \in BytesHolders : length'[c] = length[c]
    PROVE  InflightExact'
<1>1. BytesOf(BytesHolders', length') = BytesOf(BytesHolders, length)
  BY BytesSame
<1> QED
  BY <1>1, ReservedIs DEF InflightExact

LEMMA HoldersAreConns ==
    ASSUME TypeOK
    PROVE  BytesHolders \in SUBSET Conns /\ Jobs \in SUBSET Conns
BY RangeOfSeq DEF TypeOK, BytesHolders, Jobs

LEMMA ThreadsBytes ==
    ASSUME TypeOK, Answering, InflightExact, NEW c \in Conns,
           Dispatch(c) \/ ThreadStep(c)
    PROVE  InflightExact'
<1> USE DEF Reply, Goto, engineVars, counters
<1>0. /\ thread \in [Conns -> ThreadStages] /\ length \in [Conns -> Nat]
      /\ BytesHolders \in SUBSET Conns
  BY HoldersAreConns DEF TypeOK
<1>1. CASE Dispatch(c)
  <2>1. /\ Jobs' = Jobs /\ length' = length /\ inflight' = inflight
        /\ thread[c] = "none"
        /\ thread' = [thread EXCEPT ![c] = "head"]
              \/ thread' = [thread EXCEPT ![c] = "none"]
    BY <1>1 DEF Dispatch, Closed, Jobs
  <2>2. BytesHolders' = BytesHolders
    BY <1>0, <2>1 DEF BytesHolders
  <2> QED
    BY <2>1, <2>2, SameBytes
<1>2. CASE ReadHead(c)
  <2>1. /\ Jobs' = Jobs /\ inflight' = inflight /\ thread[c] = "head"
        /\ thread' = [thread EXCEPT ![c] = "exit"]
              \/ thread' = [thread EXCEPT ![c] = "bytes"]
        /\ \A d \in Conns \ {c} : length'[d] = length[d]
    BY <1>0, <1>2 DEF ReadHead, Jobs
  <2>2. c \notin Jobs
    BY <2>1 DEF Answering
  <2>3. BytesHolders' = BytesHolders /\ c \notin BytesHolders
    BY <1>0, <2>1, <2>2 DEF BytesHolders
  <2> QED
    BY <1>0, <2>1, <2>3, SameBytes
<1>3. CASE AcquireBytes(c)
  <2>1. Jobs' = Jobs /\ thread[c] = "bytes"
    BY <1>3 DEF AcquireBytes, Jobs
  <2>2. c \notin Jobs
    BY <2>1 DEF Answering
  <2>3. c \notin BytesHolders
    BY <2>1, <2>2 DEF BytesHolders
  <2>4. CASE /\ thread' = [thread EXCEPT ![c] = "body"] /\ length' = length
             /\ inflight' = inflight + length[c]
             /\ inflight + length[c] <= MaxInflightBytes
    <3>1. BytesHolders' = BytesHolders \cup {c}
      BY <1>0, <2>1, <2>2, <2>4 DEF BytesHolders
    <3>2. Cardinality(BytesOf(BytesHolders \cup {c}, length))
             = Cardinality(BytesOf(BytesHolders, length)) + length[c]
      BY <1>0, <2>3, BytesEnter
    <3> QED
      BY <2>4, <3>1, <3>2, ReservedIs DEF InflightExact
  <2>5. CASE /\ thread' = [thread EXCEPT ![c] = "exit"] /\ inflight' = inflight
             /\ length' = [length EXCEPT ![c] = 0]
    <3>1. BytesHolders' = BytesHolders
      BY <1>0, <2>1, <2>2, <2>5 DEF BytesHolders
    <3> QED
      BY <1>0, <2>3, <2>5, <3>1, SameBytes
  <2> QED
    BY <1>3, <2>4, <2>5 DEF AcquireBytes, Fits
<1>4. CASE ReadBody(c) \/ AcquireWaiting(c)
  <2>1. /\ Jobs' = Jobs /\ length' = length /\ inflight' = inflight
        /\ thread[c] \in {"body", "wait"}
        /\ \/ thread' = [thread EXCEPT ![c] = "wait"]
           \/ thread' = [thread EXCEPT ![c] = "send"]
           \/ thread' = [thread EXCEPT ![c] = "drop"]
    BY <1>4 DEF ReadBody, AcquireWaiting, Jobs
  <2>2. BytesHolders' = BytesHolders
    BY <1>0, <2>1 DEF BytesHolders
  <2> QED
    BY <2>1, <2>2, SameBytes
<1>5. CASE TrySend(c)
  <2>1. thread[c] = "send" /\ thread' = [thread EXCEPT ![c] = "exit"]
    BY <1>5 DEF TrySend
  <2>2. c \notin Jobs /\ c \in BytesHolders
    BY <2>1 DEF Answering, BytesHolders
  <2>3. CASE channel' = Append(channel, c) /\ length' = length /\ inflight' = inflight
    <3>1. Range(channel') = Range(channel) \cup {c}
      BY <2>3, RangeAppend DEF TypeOK
    <3>2. Jobs' = Jobs \cup {c}
      BY <1>5, <3>1 DEF TrySend, Jobs
    <3>3. BytesHolders' = BytesHolders
      BY <1>0, <2>1, <3>2 DEF BytesHolders
    <3> QED
      BY <2>3, <3>3, SameBytes
  <2>4. CASE channel' = channel /\ ReleaseBytes(c)
    <3>1. Jobs' = Jobs
      BY <1>5, <2>4 DEF TrySend, Jobs
    <3>2. BytesHolders' \ {c} = BytesHolders \ {c}
      BY <1>0, <2>1, <3>1 DEF BytesHolders
    <3> QED
      BY <1>0, <2>2, <2>4, <3>2, ReleaseExact
  <2> QED
    BY <1>5, <2>3, <2>4 DEF TrySend
<1>6. CASE DropBytes(c)
  <2>1. /\ thread[c] = "drop" /\ thread' = [thread EXCEPT ![c] = "exit"]
        /\ Jobs' = Jobs /\ ReleaseBytes(c)
    BY <1>6 DEF DropBytes, Jobs
  <2>2. c \in BytesHolders /\ BytesHolders' \ {c} = BytesHolders \ {c}
    BY <1>0, <2>1 DEF BytesHolders
  <2> QED
    BY <1>0, <2>1, <2>2, ReleaseExact
<1>7. CASE EndThread(c)
  <2>1. /\ Jobs' = Jobs /\ length' = length /\ inflight' = inflight
        /\ thread[c] = "exit" /\ thread' = [thread EXCEPT ![c] = "none"]
    BY <1>7 DEF EndThread, Jobs
  <2>2. BytesHolders' = BytesHolders
    BY <1>0, <2>1 DEF BytesHolders
  <2> QED
    BY <2>1, <2>2, SameBytes
<1> QED
  BY <1>1, <1>2, <1>3, <1>4, <1>5, <1>6, <1>7 DEF ThreadStep

LEMMA EngineBytes ==
    ASSUME TypeOK, EngineShape, InflightExact, EngineStep
    PROVE  InflightExact'
<1>1. UNCHANGED thread
  BY EngineJobs
<1>2. CASE Jobs' = Jobs /\ UNCHANGED <<length, inflight>>
  <2>1. BytesHolders' = BytesHolders
    BY <1>1, <1>2 DEF BytesHolders
  <2> QED
    BY <1>2, <2>1, SameBytes
<1>3. CASE DropJob /\ Head(batch) \in Jobs /\ Jobs' \cup {Head(batch)} = Jobs
  <2> DEFINE c == Head(batch)
  <2>1. BytesHolders' \ {c} = BytesHolders \ {c} /\ c \in BytesHolders
    BY <1>1, <1>3 DEF BytesHolders
  <2>2. ReleaseBytes(c)
    BY <1>3 DEF DropJob
  <2>3. BytesHolders \in SUBSET Conns
    BY HoldersAreConns
  <2> QED
    BY <2>1, <2>2, <2>3, ReleaseExact
<1> QED
  BY <1>2, <1>3, EngineJobs

LEMMA CrashBytes ==
    ASSUME TypeOK, InflightExact, Crash
    PROVE  InflightExact'
<1>1. UNCHANGED thread
  BY CrashJobs
<1>2. CASE Jobs' = Jobs /\ UNCHANGED jobVars
  <2>1. BytesHolders' = BytesHolders
    BY <1>1, <1>2 DEF BytesHolders
  <2> QED
    BY <1>2, <2>1, SameBytes DEF jobVars
<1>3. CASE \E c \in Jobs : Discard(c) /\ Jobs' \cup {c} = Jobs
  <2>1. PICK c \in Jobs : Discard(c) /\ Jobs' \cup {c} = Jobs
    BY <1>3
  <2>2. BytesHolders' \ {c} = BytesHolders \ {c} /\ c \in BytesHolders
    BY <1>1, <2>1 DEF BytesHolders
  <2>3. ReleaseBytes(c)
    BY <2>1 DEF Discard
  <2>4. BytesHolders \in SUBSET Conns
    BY HoldersAreConns
  <2> QED
    BY <2>2, <2>3, <2>4, ReleaseExact
<1> QED
  BY <1>2, <1>3, CrashJobs

LEMMA NextBytes ==
    ASSUME TypeOK, EngineShape, Answering, InflightExact, [Next]_vars
    PROVE  InflightExact'
<1>1. CASE StopAccepting \/ UNCHANGED vars
  <2>1. /\ thread' = thread /\ length' = length /\ inflight' = inflight
        /\ channel' = channel /\ pending' = pending /\ kept' = kept
        /\ batch' = batch
    BY <1>1 DEF StopAccepting, counters, engineVars, vars
  <2>2. BytesHolders' = BytesHolders
    BY <2>1 DEF BytesHolders, Jobs
  <2> QED
    BY <2>1, <2>2, SameBytes
<1> QED
  BY <1>1, ThreadsBytes, EngineBytes, CrashBytes DEF Next, Terminated

LEMMA InitBytes == Init => InflightExact
<1> SUFFICES ASSUME Init PROVE InflightExact
  OBVIOUS
<1>1. Jobs = {}
  BY RangeEmpty DEF Init, Jobs
<1>2. BytesHolders = {}
  BY <1>1 DEF Init, BytesHolders
<1>3. inflight = 0
  BY DEF Init
<1> QED
  BY <1>2, <1>3, BytesEmpty, ReservedIs, LimitsAssumption DEF InflightExact

\* What the proofs below rest on: types, shape, counters and answers together.
Core == TypeOK /\ EngineShape /\ Counters /\ Answering /\ InflightExact

LEMMA CoreInvariant == Spec => []Core
<1>1. Init => Core
  BY InitTyped, InitShape, InitCounters, InitAnswering, InitBytes DEF Core
<1>2. Core /\ [Next]_vars => Core'
  BY NextTyped, NextShape, NextCounters, NextSettles, NextBytes DEF Core
<1> QED
  BY <1>1, <1>2, PTL DEF Spec

\* The three counters are exact, bytes included: every exit of a connection and
\* every place where a job is dropped gives back what was reserved, once.
THEOREM CountersExactAlways == Spec => []CountersExact
<1>1. Core => CountersExact
  BY DEF Core, Counters, CountersExact
<1> QED
  BY <1>1, CoreInvariant, PTL

\* When the server returns nothing is left: no job, no connection thread and no
\* reservation, so the exact counters are all at zero.
LEMMA StoppedIsClean ==
    ASSUME Core
    PROVE  CleanStop
<1> SUFFICES ASSUME engine = "stopped"
             PROVE  /\ Jobs = {}
                    /\ connections = 0 /\ inflight = 0 /\ waiting = 0
                    /\ \A c \in Conns : thread[c] = "none"
  BY DEF CleanStop
<1> USE DEF Core
<1>1. \A c \in Conns : thread[c] = "none"
  BY DEF EngineShape, SendersGone
<1>2. /\ channel = <<>> /\ pending = <<>> /\ kept = <<>> /\ batch = <<>>
      /\ places = 0
  BY EmptySeq DEF EngineShape, TypeOK
<1>3. Jobs = {}
  BY <1>2, RangeEmpty DEF Jobs
<1>4. Senders = {} /\ Threads = {} /\ BytesHolders = {}
  BY <1>1, <1>3 DEF Senders, Threads, BytesHolders
<1>5. Cardinality({}) = 0 /\ JobPlaces = 0
  BY <1>2, FS_EmptySet, EmptySeq DEF JobPlaces
<1>6. connections = 0 /\ waiting = 0
  BY <1>4, <1>5 DEF Counters, ConnectionsExact, WaitingExact
<1>7. inflight = 0
  BY <1>4, BytesEmpty, ReservedIs DEF InflightExact
<1> QED
  BY <1>1, <1>3, <1>6, <1>7

\* The server only returns when every connection is over, every job served and
\* every reservation given back.
THEOREM StopsClean == Spec => []CleanStop
<1>1. Core => CleanStop
  BY StoppedIsClean
<1> QED
  BY <1>1, CoreInvariant, PTL

-----------------------------------------------------------------------------
(* The line of the waiting jobs.                                            *)

\* Behind the jobs in the engine's hands: its local queue, then the channel.
Behind == pending \o channel

\* take_batch has looked at the jobs of seen, the front of the line, and has
\* split them, in their order, between the batch and the jobs set aside.
Split(seen) ==
    /\ seen # <<>> /\ seen[1] = batch[1] /\ Distinct(seen)
    /\ line = seen \o Behind
    /\ Len(seen) = Len(batch) + Len(kept)
    /\ Keep(seen, Range(batch)) = batch
    /\ Keep(seen, Conns \ Range(batch)) = kept

\* The batch holds the first jobs of its model; it left others behind only once
\* it was full.
OfModel(seen) == Keep(seen, {c \in Conns : model[c] = model[batch[1]]})

FirstOfModel(seen) ==
    \E rest \in Seq(Conns) :
        /\ OfModel(seen) = batch \o rest
        /\ rest # <<>> => Len(batch) >= MaxStreams

InLine ==
    /\ engine \in {"idle", "starting", "serving"} => line = Behind
    /\ engine \in {"leading", "draining"} => line = batch \o Behind
    /\ engine = "taking" =>
          \E seen \in Seq(Conns) : Split(seen) /\ FirstOfModel(seen)

BatchShape ==
    /\ Len(batch) <= MaxStreams
    /\ engine \in {"draining", "taking"} => model[batch[1]] # NoModel

\* No job is at two places.
JobsDistinct ==
    /\ Distinct(batch) /\ Distinct(kept) /\ Distinct(Behind)
    /\ Range(batch) \cap Range(kept) = {}
    /\ Range(batch) \cap Range(Behind) = {}
    /\ Range(kept) \cap Range(Behind) = {}

\* A job has no answer until it is served.
Unanswered ==
    /\ \A c \in Range(kept) \cup Range(Behind) : answer[c] = "none"
    /\ engine # "serving" => \A c \in Range(batch) : answer[c] = "none"

\* The thread of a job is about to end, or has ended.
JobThreads == \A c \in Jobs : thread[c] \in {"none", "exit"}

Standing == InLine /\ BatchShape /\ JobsDistinct /\ Unanswered
LineInv == JobThreads /\ (Healthy => Standing)

LEMMA BehindTyped ==
    ASSUME TypeOK
    PROVE  /\ Behind \in Seq(Conns)
           /\ Range(Behind) = Range(pending) \cup Range(channel)
           /\ Jobs = Range(batch) \cup Range(kept) \cup Range(Behind)
           /\ Range(batch) \in SUBSET Conns /\ Range(kept) \in SUBSET Conns
           /\ Range(Behind) \in SUBSET Conns
           /\ Len(Behind) = Len(pending) + Len(channel)
<1>1. pending \in Seq(Conns) /\ channel \in Seq(Conns)
  BY DEF TypeOK
<1>2. /\ Behind \in Seq(Conns)
      /\ Len(Behind) = Len(pending) + Len(channel)
  BY <1>1, ConcatProperties DEF Behind
<1>3. Range(Behind) = Range(pending) \cup Range(channel)
  BY <1>1, RangeConcatenation DEF Behind
<1>4. /\ Range(batch) \in SUBSET Conns /\ Range(kept) \in SUBSET Conns
      /\ Range(Behind) \in SUBSET Conns
  BY <1>2, RangeOfSeq DEF TypeOK
<1> QED
  BY <1>2, <1>3, <1>4 DEF Jobs

LEMMA InitLine == Init => LineInv
<1> SUFFICES ASSUME Init PROVE LineInv
  OBVIOUS
<1>1. Behind = <<>>
  BY EmptySeq, ConcatEmptySeq DEF Init, Behind
<1>2. Jobs = {}
  BY RangeEmpty DEF Init, Jobs
<1>3. Standing
  BY <1>1, RangeEmpty, DistinctEmptyOne, EmptySeq, LimitsAssumption
     DEF Init, Standing, InLine, BatchShape, JobsDistinct, Unanswered
<1> QED
  BY <1>2, <1>3 DEF LineInv, JobThreads

\* A step that leaves the queues, the hands, the line and the models alone, and
\* answers no job.
LEMMA SameLine ==
    ASSUME LineInv, UNCHANGED <<engine, pending, channel, kept, batch, line, model>>,
           Healthy => \A c \in Jobs : answer'[c] = answer[c],
           \A c \in Jobs : thread'[c] \in {"none", "exit"},
           TypeOK
    PROVE  LineInv'
<1>1. Behind' = Behind /\ Jobs' = Jobs /\ (Healthy' <=> Healthy)
  BY DEF Behind, Jobs, Healthy
<1>2. ASSUME Healthy PROVE Standing'
  <2>1. Standing
    BY <1>2 DEF LineInv
  <2>2. InLine'
    BY <1>1, <2>1 DEF Standing, InLine, Split, FirstOfModel, OfModel
  <2>3. BatchShape' /\ JobsDistinct'
    BY <1>1, <2>1 DEF Standing, BatchShape, JobsDistinct
  <2>4. Unanswered'
    BY <1>1, <1>2, <2>1, BehindTyped DEF Standing, Unanswered
  <2> QED
    BY <2>2, <2>3, <2>4 DEF Standing
<1> QED
  BY <1>1, <1>2 DEF LineInv, JobThreads

\* A job that is sent goes to the end of the line.
LEMMA SendLine ==
    ASSUME Core, LineInv, NEW c \in Conns, TrySend(c), channel' = Append(channel, c)
    PROVE  LineInv'
<1> USE DEF Core
<1>1. /\ thread[c] = "send" /\ thread' = [thread EXCEPT ![c] = "exit"]
      /\ line' = Append(line, c) /\ answer' = answer
      /\ UNCHANGED <<engine, pending, kept, batch, model>>
  <2>1. channel' # channel
    <3>1. Len(Append(channel, c)) = Len(channel) + 1 /\ Len(channel) \in Nat
      BY AppendProperties, LenProperties DEF TypeOK
    <3> QED
      BY <3>1
  <2> QED
    BY <2>1 DEF TrySend, Goto, Reply
<1>2. /\ c \notin Jobs /\ answer[c] = "none"
  BY <1>1 DEF Answering
<1>3. pending \in Seq(Conns) /\ channel \in Seq(Conns) /\ thread \in [Conns -> ThreadStages]
  BY DEF TypeOK
<1>4. /\ Behind \in Seq(Conns) /\ Jobs = Range(batch) \cup Range(kept) \cup Range(Behind)
      /\ batch \in Seq(Conns)
  BY BehindTyped DEF TypeOK
<1>5. Behind' = Append(Behind, c)
  BY <1>1, <1>3, AppendBehind DEF Behind
<1>6. Range(Behind') = Range(Behind) \cup {c}
  BY <1>4, <1>5, RangeAppend
<1>7. Range(channel') = Range(channel) \cup {c}
  BY <1>3, RangeAppend
<1>8. JobThreads'
  <2>1. Jobs' = Jobs \cup {c}
    BY <1>1, <1>7 DEF Jobs
  <2> QED
    BY <1>1, <1>2, <1>3, <2>1, HoldersAreConns DEF LineInv, JobThreads
<1>9. ASSUME Healthy' PROVE Standing'
  <2>1. Standing
    BY <1>1, <1>9 DEF LineInv, Healthy
  <2>2. BatchShape'
    BY <1>1, <2>1 DEF Standing, BatchShape
  <2>3. JobsDistinct'
    <3>1. Distinct(Append(Behind, c))
      BY <1>2, <1>4, <2>1, DistinctAppend DEF Standing, JobsDistinct
    <3> QED
      BY <1>1, <1>2, <1>4, <1>5, <1>6, <2>1, <3>1 DEF Standing, JobsDistinct
  <2>4. Unanswered'
    BY <1>1, <1>2, <1>6, <2>1 DEF Standing, Unanswered
  <2>5. \A s \in Seq(Conns) : s \o Append(Behind, c) = Append(s \o Behind, c)
    BY <1>4, AppendBehind
  <2>6. InLine'
    <3>1. engine \in {"idle", "starting", "serving"} => line' = Behind'
      BY <1>1, <1>5, <2>1 DEF Standing, InLine
    <3>2. engine \in {"leading", "draining"} => line' = batch \o Behind'
      BY <1>1, <1>4, <1>5, <2>1, <2>5 DEF Standing, InLine
    <3>3. ASSUME engine = "taking"
          PROVE  \E seen \in Seq(Conns) : Split(seen)' /\ FirstOfModel(seen)'
      <4>1. PICK seen \in Seq(Conns) : Split(seen) /\ FirstOfModel(seen)
        BY <2>1, <3>3 DEF Standing, InLine
      <4>2. Split(seen)'
        BY <1>1, <1>5, <2>5, <4>1 DEF Split
      <4>3. FirstOfModel(seen)'
        BY <1>1, <4>1 DEF FirstOfModel, OfModel
      <4> QED
        BY <4>2, <4>3
    <3> QED
      BY <1>1, <3>1, <3>2, <3>3 DEF InLine
  <2> QED
    BY <2>2, <2>3, <2>4, <2>6 DEF Standing
<1> QED
  BY <1>8, <1>9 DEF LineInv

\* Any other step of a connection thread leaves the queues and the answers of the
\* jobs alone.
LEMMA OtherThreads ==
    ASSUME Core, LineInv, NEW c \in Conns, Dispatch(c) \/ ThreadStep(c),
           ~(TrySend(c) /\ channel' = Append(channel, c))
    PROVE  /\ UNCHANGED <<engine, pending, channel, kept, batch, line, model>>
           /\ \A d \in Jobs : thread'[d] \in {"none", "exit"} /\ answer'[d] = answer[d]
<1> USE DEF Core
<1>1. UNCHANGED <<engine, pending, channel, kept, batch, line, model>>
  BY DEF ThreadStep, Dispatch, ReadHead, AcquireBytes, ReadBody,
     AcquireWaiting, TrySend, DropBytes, EndThread, engineVars
<1>2. /\ \A d \in Conns \ {c} : thread'[d] = thread[d] /\ answer'[d] = answer[d]
      /\ c \in Jobs => thread'[c] = "none" /\ answer'[c] = answer[c]
  <2>1. CASE Dispatch(c)
    BY <2>1 DEF Dispatch, Closed, Reply, TypeOK
  <2>2. CASE EndThread(c)
    BY <2>2 DEF EndThread, Goto, TypeOK
  <2>3. CASE ThreadStep(c) /\ ~EndThread(c)
    <3>1. thread[c] \in {"head", "bytes", "body", "wait", "send", "drop"}
      BY <2>3 DEF ThreadStep, ReadHead, AcquireBytes, ReadBody,
         AcquireWaiting, TrySend, DropBytes
    <3>2. c \notin Jobs
      BY <3>1 DEF LineInv, JobThreads
    <3>3. \A d \in Conns \ {c} : thread'[d] = thread[d] /\ answer'[d] = answer[d]
      BY <2>3 DEF ThreadStep, ReadHead, AcquireBytes, ReadBody,
         AcquireWaiting, TrySend, DropBytes, Reply, Goto, TypeOK
    <3> QED
      BY <3>2, <3>3
  <2> QED
    BY <2>1, <2>2, <2>3
<1>3. Jobs \in SUBSET Conns
  BY HoldersAreConns
<1> QED
  BY <1>1, <1>2, <1>3 DEF LineInv, JobThreads

LEMMA ThreadsLine ==
    ASSUME Core, LineInv, NEW c \in Conns, Dispatch(c) \/ ThreadStep(c)
    PROVE  LineInv'
BY SendLine, OtherThreads, SameLine DEF Core

\* The engine takes the head of the line as its leader, from its local queue or
\* from the channel.
LEMMA LeaderLine ==
    ASSUME TypeOK, EngineShape, Standing, engine = "idle", engine' = "leading",
           NEW h \in Conns, Behind' \in Seq(Conns), Behind = <<h>> \o Behind',
           batch' = <<h>>, kept' = kept, answer' = answer, line' = line
    PROVE  Standing'
<1>1. batch = <<>> /\ kept = <<>> /\ Range(<<>>) = {} /\ Range(<<h>>) = {h}
  BY RangeEmpty, RangeOne DEF EngineShape
<1>2. <<h>> \in Seq(Conns) /\ Behind \in Seq(Conns) /\ Len(<<h>>) = 1
  BY BehindTyped
<1>3. /\ Distinct(<<h>>) /\ Distinct(Behind') /\ {h} \cap Range(Behind') = {}
  BY <1>1, <1>2, DistinctConcat DEF Standing, JobsDistinct
<1>4. Range(Behind) = {h} \cup Range(Behind')
  <2>1. Range(<<h>> \o Behind') = Range(<<h>>) \cup Range(Behind')
    BY <1>2, RangeConcatenation
  <2> QED
    BY <1>1, <2>1
<1>5. line' = batch' \o Behind'
  BY DEF Standing, InLine
<1>6. BatchShape'
  BY <1>2, LimitsAssumption DEF BatchShape
<1>7. JobsDistinct'
  BY <1>1, <1>3, DistinctEmptyOne DEF JobsDistinct
<1>8. Unanswered'
  BY <1>1, <1>4 DEF Standing, Unanswered
<1> QED
  BY <1>5, <1>6, <1>7, <1>8 DEF Standing, InLine

\* The batch leaves the line: those behind it keep their order.
LEMMA LeaveLine ==
    ASSUME TypeOK, Standing, engine \in {"leading", "draining"},
           line' = Keep(line, Conns \ Range(batch))
    PROVE  line' = Behind
<1>1. batch \in Seq(Conns) /\ Behind \in Seq(Conns) /\ Range(Behind) \in SUBSET Conns
  BY BehindTyped DEF TypeOK
<1>2. line = batch \o Behind
  BY DEF Standing, InLine
<1>3. line' = Keep(batch, Conns \ Range(batch)) \o Keep(Behind, Conns \ Range(batch))
  <2>1. \A T : Keep(batch \o Behind, T) = Keep(batch, T) \o Keep(Behind, T)
    BY <1>1, KeepConcat
  <2> QED
    BY <1>2, <2>1
<1>4. Keep(batch, Conns \ Range(batch)) = <<>>
  BY <1>1, KeepNone
<1>5. Range(Behind) \subseteq Conns \ Range(batch)
  BY <1>1 DEF Standing, JobsDistinct
<1>6. Keep(Behind, Conns \ Range(batch)) = Behind
  BY <1>1, <1>5, KeepAll
<1> QED
  BY <1>1, <1>3, <1>4, <1>6, ConcatEmptySeq

\* Where the jobs of seen are: in the batch or set aside.
LEMMA SplitRange ==
    ASSUME TypeOK, NEW seen \in Seq(Conns), Split(seen)
    PROVE  Range(seen) = Range(batch) \cup Range(kept)
<1>1. /\ Range(seen) \cap Range(batch) = Range(batch)
      /\ Range(seen) \cap (Conns \ Range(batch)) = Range(kept)
  BY KeepTyped DEF Split
<1>2. Range(seen) \in SUBSET Conns
  BY RangeOfSeq
<1> QED
  BY <1>1, <1>2

LEMMA SplitLine ==
    ASSUME TypeOK, Standing, NEW seen \in Seq(Conns), Split(seen)
    PROVE  /\ Keep(line, Conns \ Range(batch)) = kept \o Behind
           /\ Keep(line, Range(batch)) = batch
           /\ Range(line) = Range(batch) \cup Range(kept) \cup Range(Behind)
           /\ line[1] = batch[1]
<1>1. /\ batch \in Seq(Conns) /\ kept \in Seq(Conns) /\ Behind \in Seq(Conns)
      /\ Range(Behind) \in SUBSET Conns
  BY BehindTyped DEF TypeOK
<1>2. line = seen \o Behind /\ Keep(seen, Range(batch)) = batch
      /\ Keep(seen, Conns \ Range(batch)) = kept
  BY DEF Split
<1>3. \A T : Keep(line, T) = Keep(seen, T) \o Keep(Behind, T)
  <2>1. \A T : Keep(seen \o Behind, T) = Keep(seen, T) \o Keep(Behind, T)
    BY <1>1, KeepConcat
  <2> QED
    BY <1>2, <2>1
<1>4. Range(Behind) \subseteq Conns \ Range(batch) /\ Range(Behind) \cap Range(batch) = {}
  BY <1>1 DEF Standing, JobsDistinct
<1>5. Keep(Behind, Conns \ Range(batch)) = Behind
  BY <1>1, <1>4, KeepAll
<1>6. Keep(Behind, Range(batch)) = <<>>
  BY <1>1, <1>4, KeepNone
<1>7. Range(line) = Range(seen) \cup Range(Behind)
  BY <1>1, <1>2, RangeConcatenation
<1>8. line[1] = seen[1]
  <2>1. Len(seen) \in Nat /\ Len(seen) >= 1 /\ Len(Behind) \in Nat
    BY <1>1, EmptyOrNot DEF Split
  <2>2. 1 \in 1..(Len(seen) + Len(Behind)) /\ 1 <= Len(seen)
    BY <2>1
  <2> QED
    BY <1>1, <1>2, <2>2, ConcatProperties
<1> QED
  BY <1>1, <1>2, <1>3, <1>5, <1>6, <1>7, <1>8, SplitRange, ConcatEmptySeq
     DEF Split

\* take_batch begins with the leader alone.
LEMMA FirstSplit ==
    ASSUME TypeOK, EngineShape, Standing, engine = "draining"
    PROVE  Split(batch) /\ FirstOfModel(batch)
<1>1. /\ batch \in Seq(Conns) /\ Len(batch) = 1 /\ batch # <<>> /\ kept = <<>>
      /\ Len(kept) = 0 /\ batch[1] \in Conns
  <2>1. /\ batch \in Seq(Conns) /\ Len(batch) = 1 /\ kept = <<>>
    BY DEF TypeOK, EngineShape
  <2>2. batch # <<>> /\ Len(<<>>) = 0
    BY <2>1, EmptySeq
  <2>3. 1 \in 1..Len(batch)
    BY <2>1
  <2> QED
    BY <2>1, <2>2, <2>3, ElementOfSeq
<1>2. line = batch \o Behind
  BY DEF Standing, InLine
<1>3. Range(batch) \in SUBSET Conns
  BY <1>1, RangeOfSeq
<1>4. Keep(batch, Range(batch)) = batch /\ Keep(batch, Conns \ Range(batch)) = <<>>
  BY <1>1, KeepAll, KeepNone
<1>5. Split(batch)
  BY <1>1, <1>2, <1>4 DEF Split, Standing, JobsDistinct
<1>6. Range(batch) \subseteq {c \in Conns : model[c] = model[batch[1]]}
  <2>1. \A i \in DOMAIN batch : i = 1
    BY <1>1
  <2> QED
    BY <1>1, <2>1 DEF Range
<1>7. OfModel(batch) = batch
  BY <1>1, <1>6, KeepAll DEF OfModel
<1>8. batch = batch \o <<>> /\ <<>> \in Seq(Conns)
  BY <1>1, ConcatEmptySeq, EmptySeq
<1> QED
  BY <1>5, <1>7, <1>8 DEF FirstOfModel

\* One more job is looked at: it joins the batch, or is set aside.
LEMMA TakeOneLine ==
    ASSUME TypeOK, EngineShape, Standing, TakeOne
    PROVE  Standing'
<1>1. PICK h : h = Head(pending)
  OBVIOUS
<1>2. /\ h \in Conns /\ Tail(pending) \in Seq(Conns) /\ <<h>> \in Seq(Conns)
      /\ pending \in Seq(Conns) /\ channel \in Seq(Conns)
      /\ pending = <<h>> \o Tail(pending)
      /\ batch \in Seq(Conns) /\ kept \in Seq(Conns) /\ batch # <<>>
  BY <1>1, TakeHead, HeadThenTail DEF TakeOne, TypeOK, EngineShape
<1>3. /\ pending' = Tail(pending) /\ channel' = channel
      /\ engine = "taking" /\ engine' = "taking" /\ line' = line /\ model' = model
      /\ answer' = answer
  BY DEF TakeOne, jobVars
<1>4. Behind = <<h>> \o Behind' /\ Behind' \in Seq(Conns) /\ Behind \in Seq(Conns)
  BY <1>2, <1>3, ConcatAssociative, ConcatProperties DEF Behind
<1>5. Range(<<h>>) = {h} /\ Range(Behind) = {h} \cup Range(Behind')
  <2>1. Range(<<h>> \o Behind') = Range(<<h>>) \cup Range(Behind')
    BY <1>2, <1>4, RangeConcatenation
  <2>2. Range(<<h>>) = {h}
    BY RangeOne
  <2> QED
    BY <1>4, <2>1, <2>2
<1>6. Distinct(Behind') /\ h \notin Range(Behind')
  BY <1>2, <1>4, <1>5, DistinctConcat DEF Standing, JobsDistinct
<1>7. h \notin Range(batch) /\ h \notin Range(kept)
  BY <1>5 DEF Standing, JobsDistinct
<1>8. PICK seen \in Seq(Conns) : Split(seen) /\ FirstOfModel(seen)
  BY <1>3 DEF Standing, InLine
<1>9. PICK next : next = Append(seen, h)
  OBVIOUS
<1>10. /\ next \in Seq(Conns) /\ next # <<>> /\ next[1] = seen[1]
      /\ Len(next) = Len(seen) + 1 /\ Len(seen) \in Nat
  <2>1. Len(seen) \in Nat /\ 1 <= Len(seen)
    BY <1>8, EmptyOrNot DEF Split
  <2> QED
    BY <1>2, <1>9, <2>1, AppendProperties
<1>11. line = next \o Behind'
  <2>1. line = seen \o (<<h>> \o Behind')
    BY <1>4, <1>8 DEF Split
  <2>2. seen \o (<<h>> \o Behind') = (seen \o <<h>>) \o Behind'
    <3>1. seen \in Seq(Conns) /\ <<h>> \in Seq(Conns) /\ Behind' \in Seq(Conns)
      BY <1>2, <1>4, <1>8
    <3> QED
      BY <3>1, ConcatAssociative
  <2>3. Append(seen, h) = seen \o <<h>>
    BY <1>2, AppendIsConcat
  <2> QED
    BY <1>9, <2>1, <2>2, <2>3
<1>12. Range(seen) = Range(batch) \cup Range(kept)
  BY <1>8, SplitRange
<1>13. h \notin Range(seen)
  BY <1>7, <1>12
<1>14. Distinct(next)
  <2>1. seen \in Seq(Conns) /\ h \in Conns /\ Distinct(seen)
    BY <1>2, <1>8 DEF Split
  <2> QED
    BY <1>13, <1>9, <2>1, DistinctAppend
<1>15. \A T : /\ h \in T => Keep(next, T) = Append(Keep(seen, T), h)
              /\ h \notin T => Keep(next, T) = Keep(seen, T)
  <2>1. \A T : /\ h \in T => Keep(Append(seen, h), T) = Append(Keep(seen, T), h)
               /\ h \notin T => Keep(Append(seen, h), T) = Keep(seen, T)
    <3>1. seen \in Seq(Conns) /\ h \in Conns
      BY <1>2, <1>8
    <3> QED
      BY <3>1, KeepMore
  <2> QED
    BY <1>9, <2>1
<1> DEFINE M == {c \in Conns : model[c] = model[batch[1]]}
<1>16. PICK rest \in Seq(Conns) : /\ Keep(seen, M) = batch \o rest
                                  /\ rest # <<>> => Len(batch) >= MaxStreams
  BY <1>8 DEF FirstOfModel, OfModel
<1>17. h \in M <=> model[h] = model[batch[1]]
  BY <1>2
<1>18. Len(batch) \in Nat /\ Len(kept) \in Nat /\ MaxStreams \in Nat
       /\ Len(seen) = Len(batch) + Len(kept)
  BY <1>2, <1>8, EmptyOrNot, LimitsAssumption DEF Split
<1> HIDE DEF M
<1>19. CASE Joins(h) /\ batch' = Append(batch, h) /\ kept' = kept
  <2>1. /\ batch' \in Seq(Conns) /\ batch'[1] = batch[1] /\ Range(batch') = Range(batch) \cup {h}
        /\ Len(batch') = Len(batch) + 1
    <3>1. 1 <= Len(batch)
      BY <1>2, EmptyOrNot
    <3> QED
      BY <1>2, <1>18, <1>19, <3>1, AppendProperties, RangeAppend
  <2>2. Keep(next, Range(batch')) = batch'
    <3>1. Keep(seen, Range(batch')) = Keep(seen, Range(batch))
      BY <1>13, <2>1, KeepSame
    <3>2. Keep(next, Range(batch')) = Append(Keep(seen, Range(batch')), h)
      BY <1>15, <2>1
    <3> QED
      BY <1>8, <1>19, <3>1, <3>2 DEF Split
  <2>3. Keep(next, Conns \ Range(batch')) = kept'
    <3>1. Keep(seen, Conns \ Range(batch')) = Keep(seen, Conns \ Range(batch))
      BY <1>13, <2>1, KeepSame
    <3>2. Keep(next, Conns \ Range(batch')) = Keep(seen, Conns \ Range(batch'))
      BY <1>15, <2>1
    <3> QED
      BY <1>8, <1>19, <3>1, <3>2 DEF Split
  <2>4. Split(next)'
    <3>1. Len(next) = Len(batch') + Len(kept')
      BY <1>10, <1>18, <1>19, <2>1
    <3>2. next[1] = batch'[1]
      BY <1>8, <1>10, <2>1 DEF Split
    <3> QED
      BY <1>3, <1>10, <1>11, <1>14, <2>2, <2>3, <3>1, <3>2 DEF Split
  <2>5. h \in M /\ Len(batch) < MaxStreams
    BY <1>17, <1>19 DEF Joins
  <2>6. rest = <<>>
    BY <1>16, <1>18, <2>5
  <2>7. Keep(next, M) = batch' \o <<>>
    <3>1. Keep(seen, M) = batch
      BY <1>2, <1>16, <2>6, ConcatEmptySeq
    <3>2. Keep(next, M) = batch'
      BY <1>15, <1>19, <2>5, <3>1
    <3> QED
      BY <2>1, <3>2, ConcatEmptySeq
  <2>8. FirstOfModel(next)'
    BY <1>3, <2>1, <2>7, EmptySeq DEF FirstOfModel, OfModel, M
  <2>9. InLine'
    BY <1>3, <1>10, <2>4, <2>8 DEF InLine
  <2>10. BatchShape'
    BY <1>3, <1>18, <2>1, <2>5 DEF Standing, BatchShape
  <2>11. Distinct(batch')
    BY <1>2, <1>7, <1>19, DistinctAppend DEF Standing, JobsDistinct
  <2>12. JobsDistinct'
    BY <1>5, <1>6, <1>7, <1>19, <2>1, <2>11 DEF Standing, JobsDistinct
  <2>13. Unanswered'
    BY <1>3, <1>5, <1>19, <2>1 DEF Standing, Unanswered
  <2> QED
    BY <2>9, <2>10, <2>12, <2>13 DEF Standing
<1>20. CASE ~Joins(h) /\ batch' = batch /\ kept' = Append(kept, h)
  <2>1. /\ kept' \in Seq(Conns) /\ Range(kept') = Range(kept) \cup {h}
        /\ Len(kept') = Len(kept) + 1
    BY <1>2, <1>20, AppendProperties, RangeAppend
  <2>2. Keep(next, Range(batch)) = batch
    BY <1>7, <1>8, <1>15 DEF Split
  <2>3. Keep(next, Conns \ Range(batch)) = kept'
    <3>1. h \in Conns \ Range(batch)
      BY <1>2, <1>7
    <3> QED
      BY <1>8, <1>15, <1>20, <3>1 DEF Split
  <2>4. Split(next)'
    <3>1. Len(next) = Len(batch') + Len(kept')
      BY <1>10, <1>18, <1>20, <2>1
    <3>2. next[1] = batch'[1]
      BY <1>8, <1>10, <1>20 DEF Split
    <3> QED
      BY <1>3, <1>10, <1>11, <1>20, <1>14, <2>2, <2>3, <3>1, <3>2 DEF Split
  <2>5. \E more \in Seq(Conns) : /\ Keep(next, M) = batch \o more
                                 /\ more # <<>> => Len(batch) >= MaxStreams
    <3>1. CASE h \in M
      <4>1. ~(Len(batch) < MaxStreams)
        BY <1>17, <1>20, <3>1 DEF Joins
      <4>2. Keep(next, M) = Append(batch \o rest, h)
        BY <1>15, <1>16, <3>1
      <4>3. Append(batch \o rest, h) = batch \o Append(rest, h) /\ Append(rest, h) \in Seq(Conns)
        <5>1. batch \in Seq(Conns) /\ rest \in Seq(Conns) /\ h \in Conns
          BY <1>2, <1>16
        <5>2. batch \o Append(rest, h) = Append(batch \o rest, h)
          BY <5>1, AppendBehind
        <5>3. Append(rest, h) \in Seq(Conns)
          BY <5>1, AppendProperties
        <5> QED
          BY <5>2, <5>3
      <4>4. Len(batch) >= MaxStreams
        BY <1>18, <4>1
      <4> QED
        BY <4>2, <4>3, <4>4
    <3>2. CASE h \notin M
      BY <1>15, <1>16, <3>2
    <3> QED
      BY <3>1, <3>2
  <2>6. FirstOfModel(next)'
    BY <1>3, <1>20, <2>5 DEF FirstOfModel, OfModel, M
  <2>7. InLine'
    BY <1>3, <1>10, <2>4, <2>6 DEF InLine
  <2>8. BatchShape'
    BY <1>3, <1>20 DEF Standing, BatchShape
  <2>9. Distinct(kept')
    BY <1>2, <1>7, <1>20, DistinctAppend DEF Standing, JobsDistinct
  <2>10. JobsDistinct'
    BY <1>5, <1>6, <1>7, <1>20, <2>1, <2>9 DEF Standing, JobsDistinct
  <2>11. Unanswered'
    BY <1>3, <1>5, <1>20, <2>1 DEF Standing, Unanswered
  <2> QED
    BY <2>7, <2>8, <2>10, <2>11 DEF Standing
<1> QED
  BY <1>1, <1>19, <1>20 DEF TakeOne

\* The steps of the engine keep its threads' sets and, while it is healthy, the
\* line.
LEMMA EngineLine ==
    ASSUME Core, LineInv, EngineStep
    PROVE  LineInv'
<1> USE DEF Core
<1>1. JobThreads'
  <2>1. UNCHANGED thread /\ Jobs' \subseteq Jobs
    BY EngineHandles DEF Handled
  <2> QED
    BY <2>1 DEF LineInv, JobThreads
<1>2. Healthy /\ Standing
  <2>1. Healthy
    BY DEF Healthy, EngineStep, PopPending, Recv, RecvClosed, LeadSolo, LeadBatch,
       DrainOne, DrainEnd, TakeOne, TakeEnd, GivePlaceBack, Serve, DropJob
  <2> QED
    BY <2>1 DEF LineInv
<1>3. /\ pending \in Seq(Conns) /\ channel \in Seq(Conns) /\ batch \in Seq(Conns)
      /\ kept \in Seq(Conns) /\ model \in [Conns -> ModelOrNone]
  BY DEF TypeOK
<1>4. /\ Behind \in Seq(Conns) /\ Range(Behind) = Range(pending) \cup Range(channel)
      /\ Range(batch) \in SUBSET Conns
  BY BehindTyped
<1> SUFFICES Standing'
  BY <1>1 DEF LineInv
<1>5. CASE PopPending
  <2>1. PICK h : h = Head(pending)
    OBVIOUS
  <2>2. /\ h \in Conns /\ <<h>> \in Seq(Conns) /\ Tail(pending) \in Seq(Conns)
        /\ pending = <<h>> \o Tail(pending)
    BY <1>3, <1>5, <2>1, TakeHead, HeadThenTail DEF PopPending
  <2>3. pending' = Tail(pending) /\ channel' = channel
    BY <1>5 DEF PopPending
  <2>4. Behind = <<h>> \o Behind' /\ Behind' \in Seq(Conns)
    BY <1>3, <2>2, <2>3, ConcatAssociative, ConcatProperties DEF Behind
  <2>5. /\ engine = "idle" /\ engine' = "leading" /\ batch' = <<h>> /\ kept' = kept
        /\ answer' = answer /\ line' = line
    BY <1>5, <2>1 DEF PopPending, jobVars
  <2> QED
    BY <1>2, <2>2, <2>4, <2>5, LeaderLine
<1>6. CASE Recv
  <2>1. PICK h : h = Head(channel)
    OBVIOUS
  <2>2. /\ h \in Conns /\ <<h>> \in Seq(Conns) /\ Tail(channel) \in Seq(Conns)
        /\ channel = <<h>> \o Tail(channel)
    BY <1>3, <1>6, <2>1, TakeHead, HeadThenTail DEF Recv
  <2>3. pending = <<>> /\ pending' = <<>> /\ channel' = Tail(channel)
    BY <1>6 DEF Recv
  <2>4. Behind = <<h>> \o Behind' /\ Behind' \in Seq(Conns)
    <3>1. Behind = channel /\ Behind' = Tail(channel)
      BY <1>3, <2>2, <2>3, ConcatEmptySeq DEF Behind
    <3> QED
      BY <2>2, <3>1
  <2>5. /\ engine = "idle" /\ engine' = "leading" /\ batch' = <<h>> /\ kept' = kept
        /\ answer' = answer /\ line' = line
    BY <1>6, <2>1 DEF Recv, jobVars
  <2> QED
    BY <1>2, <2>2, <2>4, <2>5, LeaderLine
<1>7. CASE RecvClosed
  <2>1. /\ engine' = "stopped" /\ Behind' = Behind
        /\ UNCHANGED <<batch, kept, answer, model, line>>
    BY <1>7 DEF RecvClosed, Behind, jobVars
  <2> QED
    BY <1>2, <1>7, <2>1
       DEF RecvClosed, Standing, InLine, BatchShape, JobsDistinct, Unanswered
<1>8. CASE LeadSolo
  <2>1. /\ engine = "leading" /\ engine' = "starting" /\ Behind' = Behind
        /\ UNCHANGED <<batch, kept, answer, model>>
        /\ line' = Keep(line, Conns \ Range(batch))
    BY <1>8 DEF LeadSolo, Behind, jobVars, Started
  <2>2. line' = Behind
    BY <1>2, <2>1, LeaveLine
  <2> QED
    BY <1>2, <2>1, <2>2
       DEF Standing, InLine, BatchShape, JobsDistinct, Unanswered
<1>9. CASE LeadBatch
  <2>1. /\ engine = "leading" /\ engine' = "draining" /\ Behind' = Behind
        /\ UNCHANGED <<batch, kept, answer, model, line>>
        /\ model[batch[1]] # NoModel
    BY <1>9 DEF LeadBatch, Behind, jobVars
  <2> QED
    BY <1>2, <2>1
       DEF Standing, InLine, BatchShape, JobsDistinct, Unanswered
<1>10. CASE DrainOne
  <2>1. PICK h : h = Head(channel)
    OBVIOUS
  <2>2. /\ h \in Conns /\ <<h>> \in Seq(Conns) /\ Tail(channel) \in Seq(Conns)
        /\ channel = <<h>> \o Tail(channel)
    BY <1>3, <1>10, <2>1, TakeHead, HeadThenTail DEF DrainOne
  <2>3. pending' = Append(pending, h) /\ channel' = Tail(channel)
    BY <1>10, <2>1 DEF DrainOne
  <2>4. Behind' = Behind
    <3>1. Append(pending, h) = pending \o <<h>>
      BY <1>3, <2>2, AppendIsConcat
    <3>2. (pending \o <<h>>) \o Tail(channel) = pending \o (<<h>> \o Tail(channel))
      BY <1>3, <2>2, ConcatAssociative
    <3> QED
      BY <2>2, <2>3, <3>1, <3>2 DEF Behind
  <2>5. h \in Range(Behind)
    BY <1>3, <1>4, <1>10, <2>1, RangeHead DEF DrainOne
  <2>6. batch[1] \in Range(batch)
    BY <1>10 DEF DrainOne, EngineShape, Range
  <2>7. batch[1] # h
    BY <1>2, <2>5, <2>6 DEF Standing, JobsDistinct
  <2>8. /\ engine = "draining" /\ engine' = "draining"
        /\ UNCHANGED <<batch, kept, answer, line>>
        /\ \E m \in Admissions : model' = [model EXCEPT ![h] = m]
    BY <1>10, <2>1 DEF DrainOne, jobVars
  <2>9. model'[batch[1]] = model[batch[1]]
    BY <1>3, <1>4, <2>6, <2>7, <2>8
  <2> QED
    BY <1>2, <2>4, <2>8, <2>9
       DEF Standing, InLine, BatchShape, JobsDistinct, Unanswered
<1>11. CASE DrainEnd
  <2>1. /\ engine = "draining" /\ engine' = "taking" /\ Behind' = Behind
        /\ UNCHANGED <<batch, kept, answer, model, line>>
    BY <1>11 DEF DrainEnd, Behind, jobVars
  <2>2. Split(batch) /\ FirstOfModel(batch)
    BY <1>2, <2>1, FirstSplit
  <2>3. PICK seen \in Seq(Conns) : Split(seen) /\ FirstOfModel(seen)
    BY <1>3, <2>2
  <2>4. Split(seen)' /\ FirstOfModel(seen)'
    BY <2>1, <2>3 DEF Split, FirstOfModel, OfModel
  <2>5. InLine'
    BY <2>1, <2>3, <2>4 DEF InLine
  <2> QED
    BY <1>2, <2>1, <2>5
       DEF Standing, BatchShape, JobsDistinct, Unanswered
<1>12. CASE TakeOne
  BY <1>2, <1>12, TakeOneLine
<1>13. CASE TakeEnd
  <2>1. /\ engine = "taking" /\ engine' = "starting"
        /\ pending = <<>> /\ pending' = kept /\ kept' = <<>> /\ channel' = channel
        /\ UNCHANGED <<batch, answer, model>>
        /\ line' = Keep(line, Conns \ Range(batch))
    BY <1>13 DEF TakeEnd, jobVars, Started
  <2>2. Behind = channel /\ Behind' = kept \o channel
    BY <1>3, <2>1, ConcatEmptySeq DEF Behind
  <2>3. PICK seen \in Seq(Conns) : Split(seen)
    BY <1>2, <2>1 DEF Standing, InLine
  <2>4. line' = Behind'
    BY <1>2, <2>1, <2>2, <2>3, SplitLine
  <2>5. Range(Behind') = Range(kept) \cup Range(Behind)
    BY <1>3, <2>2, RangeConcatenation
  <2>6. JobsDistinct'
    <3>1. Distinct(kept \o channel)
      BY <1>2, <1>3, <2>2, DistinctConcat DEF Standing, JobsDistinct
    <3> QED
      BY <1>2, <2>1, <2>2, <2>5, <3>1, DistinctEmptyOne, RangeEmpty
         DEF Standing, JobsDistinct
  <2>7. Unanswered'
    BY <1>2, <2>1, <2>5, RangeEmpty DEF Standing, Unanswered
  <2> QED
    BY <1>2, <2>1, <2>4, <2>6, <2>7 DEF Standing, InLine, BatchShape
<1>14. CASE GivePlaceBack
  <2>1. /\ engine = "starting" /\ engine' \in {"starting", "serving"}
        /\ Behind' = Behind /\ UNCHANGED <<batch, kept, answer, model, line>>
    BY <1>14 DEF GivePlaceBack, Behind, jobVars
  <2> QED
    BY <1>2, <2>1
       DEF Standing, InLine, BatchShape, JobsDistinct, Unanswered
<1>15. ASSUME NEW c \in Conns, Serve(c) PROVE Standing'
  <2>1. /\ engine = "serving" /\ engine' = "serving" /\ Behind' = Behind
        /\ UNCHANGED <<batch, kept, model, line>> /\ c \in Range(batch)
        /\ answer' = [answer EXCEPT ![c] = "served"]
    BY <1>15 DEF Serve, Behind, engineVars
  <2>2. Range(Behind) \in SUBSET Conns /\ Range(kept) \in SUBSET Conns
    BY BehindTyped
  <2>3. Unanswered'
    BY <1>2, <2>1, <2>2 DEF Standing, JobsDistinct, Unanswered, TypeOK
  <2> QED
    BY <1>2, <2>1, <2>3 DEF Standing, InLine, BatchShape, JobsDistinct
<1>16. CASE DropJob
  <2>1. /\ engine = "serving" /\ engine' \in {"idle", "serving"}
        /\ Behind' = Behind /\ UNCHANGED <<kept, answer, line>>
        /\ batch # <<>> /\ batch' = Tail(batch)
        /\ engine' = "idle" => Len(batch) = 1
    BY <1>16 DEF DropJob, Behind, EngineShape
  <2>2. Distinct(Tail(batch)) /\ Range(batch) = {Head(batch)} \cup Range(Tail(batch))
    BY <1>2, <1>3, <2>1, DistinctHead DEF Standing, JobsDistinct
  <2>3. JobsDistinct'
    BY <1>2, <2>1, <2>2 DEF Standing, JobsDistinct
  <2>4. BatchShape'
    <3>1. Len(Tail(batch)) = Len(batch) - 1 /\ Len(batch) \in Nat
      BY <1>3, <2>1, TakeHead, LenProperties
    <3> QED
      BY <1>2, <2>1, <3>1, LimitsAssumption DEF Standing, BatchShape
  <2>5. engine' = "idle" => Tail(batch) = <<>>
    BY <1>3, <2>1, TakeHead
  <2>6. Unanswered'
    BY <1>2, <2>1, <2>5, RangeEmpty DEF Standing, Unanswered
  <2> QED
    BY <1>2, <2>1, <2>3, <2>4, <2>6 DEF Standing, InLine
<1> QED
  BY <1>5, <1>6, <1>7, <1>8, <1>9, <1>10, <1>11, <1>12, <1>13, <1>14, <1>15,
     <1>16 DEF EngineStep

LEMMA NextLine ==
    ASSUME Core, LineInv, [Next]_vars
    PROVE  LineInv'
<1> USE DEF Core
<1>1. CASE Crash
  <2>1. UNCHANGED thread /\ Jobs' \subseteq Jobs
    BY <1>1, CrashHandles DEF Handled
  <2>2. ~Healthy'
    BY <1>1 DEF Crash, EnginePanic, UnwindHands, UnwindPending, Disconnect,
       DiscardMessage, Exit, Healthy
  <2> QED
    BY <2>1, <2>2 DEF LineInv, JobThreads
<1>2. CASE StopAccepting \/ UNCHANGED vars
  <2>1. UNCHANGED <<engine, pending, channel, kept, batch, line, model, answer, thread>>
    BY <1>2 DEF StopAccepting, engineVars, vars
  <2> QED
    BY <2>1, SameLine DEF LineInv, JobThreads
<1> QED
  BY <1>1, <1>2, ThreadsLine, EngineLine DEF Next, Terminated

LEMMA LineInvariant == Spec => [](Core /\ LineInv)
<1>1. Init => LineInv
  BY InitLine
<1>2. Core /\ LineInv /\ [Next]_vars => LineInv'
  BY NextLine
<1> QED
  BY <1>1, <1>2, CoreInvariant, PTL DEF Spec

LEMMA StandingInOrder ==
    ASSUME TypeOK, LineInv
    PROVE  LineOrder
<1>1. Behind = pending \o channel
  BY DEF Behind
<1>2. \A s \in Seq(Conns) : s \o (pending \o channel) = s \o pending \o channel
  <2>1. pending \in Seq(Conns) /\ channel \in Seq(Conns)
    BY DEF TypeOK
  <2> QED
    BY <2>1, ConcatAssociative
<1>3. batch \in Seq(Conns) /\ kept \in Seq(Conns)
  BY DEF TypeOK
<1>4. ASSUME engine \in {"idle", "starting", "serving"}
      PROVE  line = pending \o channel
  BY <1>1, <1>4 DEF LineInv, Healthy, Standing, InLine
<1>5. ASSUME engine \in {"leading", "draining"}
      PROVE  line = batch \o pending \o channel
  <2>1. line = batch \o (pending \o channel)
    BY <1>1, <1>5 DEF LineInv, Healthy, Standing, InLine
  <2>2. batch \o (pending \o channel) = batch \o pending \o channel
    BY <1>2, <1>3
  <2> QED
    BY <2>1, <2>2
<1>6. ASSUME engine = "taking"
      PROVE  /\ Range(line) = Range(batch) \cup Range(kept) \cup Range(pending)
                                  \cup Range(channel)
             /\ line[1] = batch[1]
             /\ Keep(line, Conns \ Range(batch)) = kept \o pending \o channel
             /\ Keep(line, Range(batch)) = batch
  <2>1. Standing
    BY <1>6 DEF LineInv, Healthy
  <2>2. PICK seen \in Seq(Conns) : Split(seen)
    BY <1>6, <2>1 DEF Standing, InLine
  <2>3. kept \o (pending \o channel) = kept \o pending \o channel
    BY <1>2, <1>3
  <2>4. Range(Behind) = Range(pending) \cup Range(channel)
    BY BehindTyped
  <2> QED
    BY <1>1, <2>1, <2>2, <2>3, <2>4, SplitLine
<1> QED
  BY <1>4, <1>5, <1>6 DEF LineOrder

\* The channel and the local queue hold the waiting jobs in the order in which
\* they were sent, at every turn of the drain and of take_batch: the jobs looked
\* at are the front of the line, split in order between batch and kept.
THEOREM LineInOrder == Spec => []LineOrder
<1>1. Core /\ LineInv => LineOrder
  BY StandingInOrder DEF Core
<1> QED
  BY <1>1, LineInvariant, PTL

-----------------------------------------------------------------------------
(* The choice of the batch.                                                 *)

\* The first part of a sequence made of two.
LEMMA FirstPart ==
    ASSUME NEW S, NEW s \in Seq(S), NEW t \in Seq(S), NEW m \in Nat,
           Len(s) <= m, t # <<>> => Len(s) = m
    PROVE  SubSeq(s \o t, 1, IF Len(s \o t) < m THEN Len(s \o t) ELSE m) = s
<1>1. Len(s) \in Nat /\ Len(t) \in Nat /\ Len(s \o t) = Len(s) + Len(t)
      /\ (t = <<>> <=> Len(t) = 0)
  BY ConcatProperties, EmptyOrNot
<1>2. (IF Len(s \o t) < m THEN Len(s \o t) ELSE m) = Len(s)
  BY <1>1
<1>3. SubSeq(s \o t, 1, Len(s)) = s
  <2>1. SubSeq(s, 1, Len(s)) = s
    BY SubSeqFull
  <2>2. CASE Len(s) = 0
    <3>1. s = <<>> /\ s \o t = t
      BY <2>2, EmptyOrNot, ConcatEmptySeq
    <3> QED
      BY <1>1, <2>2, <3>1, SubSeqEmpty
  <2>3. CASE Len(s) # 0
    <3>1. 1 \in 1..Len(s) /\ Len(s) \in 1..Len(s)
      BY <1>1, <2>3
    <3>2. SubSeq(s \o t, 1, Len(s)) = SubSeq(s, 1, Len(s))
      BY <1>1, <3>1, SubSeqOfConcat1
    <3> QED
      BY <2>1, <3>2
  <2> QED
    BY <2>2, <2>3
<1> QED
  BY <1>2, <1>3

LEMMA BatchChoice ==
    ASSUME TypeOK, Standing, TakeEnd
    PROVE  LET received == Keep(line, Conns \ Range(channel))
               same == Keep(received, {c \in Conns : model[c] = model[line[1]]})
           IN  /\ model[line[1]] # NoModel
               /\ batch' = SubSeq(same, 1, IF Len(same) < MaxStreams
                                           THEN Len(same) ELSE MaxStreams)
<1>1. engine = "taking" /\ pending = <<>> /\ batch' = batch
  BY DEF TakeEnd
<1>2. /\ batch \in Seq(Conns) /\ kept \in Seq(Conns) /\ channel \in Seq(Conns)
      /\ Range(channel) \in SUBSET Conns /\ MaxStreams \in Nat
  BY LimitsAssumption, RangeOfSeq DEF TypeOK
<1>3. Behind = channel
  BY <1>1, <1>2, ConcatEmptySeq DEF Behind
<1>4. PICK seen \in Seq(Conns) : Split(seen) /\ FirstOfModel(seen)
  BY <1>1 DEF Standing, InLine
<1>5. line[1] = batch[1]
  BY <1>4, SplitLine
<1>6. Keep(line, Conns \ Range(channel)) = seen
  <2>1. Range(seen) \cap Range(channel) = {} /\ Range(seen) \in SUBSET Conns
    BY <1>3, <1>4, SplitRange, RangeOfSeq DEF Standing, JobsDistinct
  <2>2. line = seen \o channel
    BY <1>3, <1>4 DEF Split
  <2>3. seen \in Seq(Conns) /\ channel \in Seq(Conns)
    BY <1>2, <1>4
  <2>4. Keep(seen \o channel, Conns \ Range(channel))
          = Keep(seen, Conns \ Range(channel)) \o Keep(channel, Conns \ Range(channel))
    BY <2>3, KeepConcat
  <2>5. Keep(seen, Conns \ Range(channel)) = seen
    <3>1. Range(seen) \subseteq Conns \ Range(channel)
      BY <2>1
    <3> QED
      BY <2>3, <3>1, KeepAll
  <2>6. Keep(channel, Conns \ Range(channel)) = <<>>
    BY <2>3, KeepNone
  <2>7. seen \o <<>> = seen
    BY <2>3, ConcatEmptySeq
  <2> QED
    BY <2>2, <2>4, <2>5, <2>6, <2>7
<1>7. PICK rest \in Seq(Conns) : /\ OfModel(seen) = batch \o rest
                                 /\ rest # <<>> => Len(batch) >= MaxStreams
  BY <1>4 DEF FirstOfModel
<1>8. SubSeq(batch \o rest, 1, IF Len(batch \o rest) < MaxStreams
                               THEN Len(batch \o rest) ELSE MaxStreams) = batch
  <2>1. batch \in Seq(Conns) /\ rest \in Seq(Conns) /\ MaxStreams \in Nat
    BY <1>2, <1>7
  <2>2. Len(batch) <= MaxStreams
    BY DEF Standing, BatchShape
  <2>3. rest # <<>> => Len(batch) = MaxStreams
    BY <1>7, <2>1, <2>2, LenProperties
  <2> QED
    BY <2>1, <2>2, <2>3, FirstPart
<1>9. Keep(seen, {c \in Conns : model[c] = model[line[1]]}) = batch \o rest
  BY <1>5, <1>7 DEF OfModel
<1>10. model[line[1]] # NoModel
  BY <1>1, <1>5 DEF Standing, BatchShape
<1> QED
  BY <1>1, <1>6, <1>8, <1>9, <1>10

\* A batch is the leader and the oldest of the other received jobs of its model,
\* up to the number of streams: drain_queue and take_batch, in whatever steps
\* and whatever the connection threads send meanwhile, amount to this selection.
THEOREM BatchesAreFirst == Spec => BatchIsFirstOfModel
<1>1. ASSUME Core, LineInv, [Next]_vars, engine = "taking", engine' = "starting"
      PROVE  TypeOK /\ Standing /\ TakeEnd
  <2>1. Standing
    BY <1>1 DEF LineInv, Healthy
  <2>2. \A c \in Conns : Dispatch(c) \/ ThreadStep(c) => engine' = engine
    BY DEF ThreadStep, Dispatch, ReadHead, AcquireBytes, ReadBody,
       AcquireWaiting, TrySend, DropBytes, EndThread, engineVars
  <2>3. EngineStep => TakeEnd
    BY <1>1 DEF EngineStep, PopPending, Recv, RecvClosed, LeadSolo, LeadBatch,
       DrainOne, DrainEnd, TakeOne, TakeEnd, GivePlaceBack, Serve, DropJob
  <2>4. ~Crash
    BY <1>1 DEF Crash, EnginePanic, UnwindHands, UnwindPending, Disconnect,
       DiscardMessage, Exit
  <2>5. ~StopAccepting /\ ~Terminated /\ ~UNCHANGED vars
    BY <1>1 DEF StopAccepting, engineVars, Terminated, vars
  <2> QED
    BY <1>1, <2>1, <2>2, <2>3, <2>4, <2>5 DEF Core, Next
<1>2. Core /\ LineInv /\ [Next]_vars
        => (engine = "taking" /\ engine' = "starting" =>
              LET received == Keep(line, Conns \ Range(channel))
                  same == Keep(received, {c \in Conns : model[c] = model[line[1]]})
              IN  /\ model[line[1]] # NoModel
                  /\ batch' = SubSeq(same, 1, IF Len(same) < MaxStreams
                                              THEN Len(same) ELSE MaxStreams))
  BY <1>1, BatchChoice
<1> QED
  BY <1>2, LineInvariant, PTL DEF Spec, BatchIsFirstOfModel

-----------------------------------------------------------------------------
(* The server implements the abstract line.                                 *)

\* The variables of the abstract line.
Waiting == IF Healthy THEN line ELSE <<>>
Running == IF engine \in {"starting", "serving"}
           THEN {c \in Range(batch) : answer[c] = "none"}
           ELSE {}

\* The operators of the abstract line are those of the server.
LEMMA LineCounts == \A S : Line!Cardinality(S) = Cardinality(S)
BY DEF Line!Cardinality, Cardinality

LEMMA LineKeeps == \A s, T : Line!Keep(s, T) = Keep(s, T)
<1> SUFFICES ASSUME NEW s, NEW T PROVE Line!Keep(s, T) = Keep(s, T)
  OBVIOUS
<1> DEFINE Last(k) == {i \in At(s, T) : Line!Cardinality(UpTo(s, T, i)) = k}
<1>1. Line!Keep(s, T) = [k \in 1..Line!Cardinality(At(s, T)) |->
                            s[CHOOSE i \in Last(k) : TRUE]]
  BY DEF Line!Keep, At, UpTo
<1>2. Line!Cardinality(At(s, T)) = Cardinality(At(s, T))
  BY LineCounts
<1>3. \A k : Last(k) = Ends(s, T, k)
  BY LineCounts DEF Ends
<1> HIDE DEF Last
<1> QED
  BY <1>1, <1>2, <1>3, KeepIs

LEMMA LineRanges == \A s : Line!Range(s) = Range(s)
BY DEF Line!Range, Range

LEMMA LineStutters ==
    ASSUME Healthy' = Healthy, Waiting' = Waiting, Running' = Running
    PROVE  UNCHANGED Line!vars
BY DEF Line!vars, Waiting, Running

\* The jobs of the line are jobs, and each of them owns a place.
LEMMA LineOwnsPlaces ==
    ASSUME Core, LineInv, Healthy, engine # "stopped"
    PROVE  /\ line \in Seq(Conns)
           /\ Len(line) <= JobPlaces
           /\ Range(line) \subseteq Jobs
<1> USE DEF Core
<1>1. Standing
  BY DEF LineInv
<1>2. /\ batch \in Seq(Conns) /\ Behind \in Seq(Conns)
      /\ Len(Behind) = Len(pending) + Len(channel)
      /\ Jobs = Range(batch) \cup Range(kept) \cup Range(Behind)
  BY BehindTyped DEF TypeOK
<1>3. /\ Len(batch) \in Nat /\ Len(pending) \in Nat /\ Len(channel) \in Nat
      /\ Len(kept) \in Nat /\ places \in Nat
  BY EmptyOrNot DEF TypeOK
<1>4. CASE engine \in {"idle", "starting", "serving"}
  <2>1. line = Behind
    BY <1>1, <1>4 DEF Standing, InLine
  <2> QED
    BY <1>2, <1>3, <2>1 DEF JobPlaces
<1>5. CASE engine \in {"leading", "draining"}
  <2>1. line = batch \o Behind /\ places = Len(batch)
    BY <1>1, <1>5 DEF Standing, InLine, EngineShape
  <2>2. /\ batch \o Behind \in Seq(Conns)
        /\ Len(batch \o Behind) = Len(batch) + Len(Behind)
        /\ Range(batch \o Behind) = Range(batch) \cup Range(Behind)
    BY <1>2, ConcatProperties, RangeConcatenation
  <2> QED
    BY <1>2, <1>3, <2>1, <2>2 DEF JobPlaces
<1>6. CASE engine = "taking"
  <2>1. PICK seen \in Seq(Conns) : Split(seen)
    BY <1>1, <1>6 DEF Standing, InLine
  <2>2. places = Len(batch)
    BY <1>6 DEF EngineShape
  <2>3. line = seen \o Behind /\ Len(seen) = Len(batch) + Len(kept)
    BY <2>1 DEF Split
  <2>4. /\ seen \o Behind \in Seq(Conns)
        /\ Len(seen \o Behind) = Len(seen) + Len(Behind)
    BY <1>2, <2>1, ConcatProperties
  <2>5. Range(line) = Range(batch) \cup Range(kept) \cup Range(Behind)
    BY <1>1, <2>1, SplitLine
  <2> QED
    BY <1>2, <1>3, <2>2, <2>3, <2>4, <2>5 DEF JobPlaces
<1> QED
  BY <1>4, <1>5, <1>6 DEF Healthy, TypeOK, EngineStages

\* A job that is sent joins the line.
LEMMA SendJoins ==
    ASSUME Core, LineInv, NEW c \in Conns, TrySend(c), channel' = Append(channel, c)
    PROVE  Line!Join(c) \/ UNCHANGED Line!vars
<1> USE DEF Core
<1>1. /\ thread[c] = "send" /\ ReceiverAlive
      /\ line' = Append(line, c) /\ answer' = answer
      /\ UNCHANGED <<engine, batch>>
  <2>1. channel' # channel
    <3>1. Len(Append(channel, c)) = Len(channel) + 1 /\ Len(channel) \in Nat
      BY AppendProperties, LenProperties DEF TypeOK
    <3> QED
      BY <3>1
  <2> QED
    BY <2>1 DEF TrySend, Goto, Reply
<1>2. (Healthy' <=> Healthy) /\ Healthy' = Healthy /\ Running' = Running
  BY <1>1 DEF Healthy, Running
<1>3. CASE ~Healthy
  BY <1>2, <1>3, LineStutters DEF Waiting
<1>4. CASE Healthy
  <2>1. /\ Len(line) <= JobPlaces /\ Range(line) \subseteq Jobs /\ line \in Seq(Conns)
    BY <1>1, <1>4, LineOwnsPlaces DEF ReceiverAlive
  <2>2. c \notin Jobs
    BY <1>1 DEF Answering
  <2>3. Running \subseteq Jobs
    BY DEF Running, Jobs
  <2>4. Len(line) < QueueDepth
    <3>1. c \in Senders
      BY <1>1 DEF Senders
    <3>2. Cardinality(Senders \ {c}) = Cardinality(Senders) - 1
      BY <3>1, ThreadSets, CountLeave
    <3>3. Cardinality(Senders \ {c}) \in Nat
      BY ThreadSets, CountsAreNaturals
    <3>4. waiting = Cardinality(Senders) + JobPlaces /\ waiting <= QueueDepth
      BY DEF Counters, WaitingExact, CountersBound
    <3>5. /\ Len(line) \in Nat /\ Cardinality(Senders) \in Nat
          /\ JobPlaces \in Nat /\ QueueDepth \in Nat
      BY <2>1, LenProperties, Numbers
    <3>6. Cardinality(Senders) >= 1
      BY <3>2, <3>3, <3>5
    <3> HIDE DEF Core
    <3> QED
      BY <2>1, <3>4, <3>5, <3>6
  <2>5. Healthy /\ Waiting = line /\ Waiting' = Append(Waiting, c)
    BY <1>1, <1>2, <1>4 DEF Waiting
  <2>6. /\ Healthy /\ Len(Waiting) < QueueDepth
        /\ c \notin Range(Waiting) \cup Running
        /\ Waiting' = Append(Waiting, c)
        /\ Healthy' = Healthy /\ Running' = Running
    BY <1>2, <2>1, <2>2, <2>3, <2>4, <2>5
  <2>7. Line!Join(c)
    BY <2>6, LineRanges DEF Line!Join, Waiting, Running
  <2> QED
    BY <2>7
<1> QED
  BY <1>3, <1>4

\* What stays of a line whose front goes.
LEMMA KeepAfterFront ==
    ASSUME NEW f \in Seq(Conns), NEW s \in Seq(Conns), NEW U, NEW V,
           Range(f) \cap U = {}, Range(s) \cap U = Range(s) \cap V
    PROVE  Keep(f \o s, U) = Keep(s, V)
<1>1. Keep(f \o s, U) = Keep(f, U) \o Keep(s, U)
  BY KeepConcat
<1>2. Keep(f, U) = <<>>
  BY KeepNone
<1>3. Keep(s, U) = Keep(s, V) /\ Keep(s, V) \in Seq(Conns)
  BY KeepSame, KeepTyped
<1> QED
  BY <1>1, <1>2, <1>3, ConcatEmptySeq

\* The batch is the head of the line and its companions.
LEMMA BatchStarts ==
    ASSUME Core, Healthy, Standing, engine \notin {"starting", "serving"},
           engine' = "starting", batch # <<>>, batch' = batch, answer' = answer,
           \A c \in Range(batch) : answer[c] = "none",
           line \in Seq(Conns), line # <<>>, Distinct(line),
           line[1] = batch[1], Range(batch) \subseteq Range(line),
           line' = Keep(line, Conns \ Range(batch))
    PROVE  Line!Start
<1>1. batch \in Seq(Conns) /\ Distinct(batch) /\ Len(batch) <= MaxStreams
  BY DEF Core, TypeOK, Standing, JobsDistinct, BatchShape
<1>2. PICK h : h = Head(line)
  OBVIOUS
<1>3. /\ h \in Conns /\ Tail(line) \in Seq(Conns) /\ <<h>> \in Seq(Conns)
      /\ line = <<h>> \o Tail(line) /\ h = line[1]
      /\ h \notin Range(Tail(line)) /\ Range(line) = {h} \cup Range(Tail(line))
  BY <1>2, TakeHead, HeadThenTail, DistinctHead
<1>4. /\ Head(batch) = batch[1] /\ Tail(batch) \in Seq(Conns)
      /\ Len(Tail(batch)) = Len(batch) - 1
      /\ Head(batch) \notin Range(Tail(batch))
      /\ Range(batch) = {Head(batch)} \cup Range(Tail(batch))
  BY <1>1, TakeHead, HeadThenTail, DistinctHead
<1> DEFINE companions == Range(Tail(batch))
<1>5. companions \in SUBSET Range(Tail(line)) /\ Range(batch) = {h} \cup companions
  BY <1>3, <1>4
<1>6. Cardinality(companions) < MaxStreams
  <2>1. IsFiniteSet(companions) /\ Cardinality(companions) <= Len(Tail(batch))
    BY <1>4, RangeSize
  <2>2. Cardinality(companions) \in Nat /\ Len(batch) \in Nat /\ MaxStreams \in Nat
    BY <1>1, <2>1, FS_CardinalityType, LenProperties, LimitsAssumption
  <2> QED
    BY <1>1, <1>4, <2>1, <2>2
<1>7. line' = Keep(Tail(line), Conns \ companions)
  <2>1. h \in Range(batch)
    BY <1>5
  <2>2. Range(Tail(line)) \cap (Conns \ Range(batch))
          = Range(Tail(line)) \cap (Conns \ companions)
    BY <1>3, <1>5
  <2> QED
    <3>1. PICK front, rest, U, V :
             /\ front = <<h>> /\ rest = Tail(line)
             /\ U = Conns \ Range(batch) /\ V = Conns \ companions
      OBVIOUS
    <3>2. front \in Seq(Conns) /\ rest \in Seq(Conns) /\ line = front \o rest
      BY <1>3, <3>1
    <3>3. Range(front) \cap U = {} /\ Range(rest) \cap U = Range(rest) \cap V
      BY <2>1, <2>2, <3>1, RangeOne
    <3>4. Keep(front \o rest, U) = Keep(rest, V)
      BY <3>2, <3>3, KeepAfterFront
    <3> QED
      BY <3>1, <3>2, <3>4
<1>8. /\ Healthy' = Healthy /\ Waiting = line /\ Waiting' = line'
  BY DEF Healthy, Waiting
<1>9. Running = {} /\ Running' = {h} \cup companions
  <2>1. Running' = Range(batch)
    BY DEF Running
  <2> QED
    BY <1>5, <2>1 DEF Running
<1> HIDE DEF companions
<1>10. /\ Healthy /\ Running = {} /\ Waiting # <<>>
       /\ companions \in SUBSET Range(Tail(Waiting))
       /\ Cardinality(companions) < MaxStreams
       /\ Running' = {Head(Waiting)} \cup companions
       /\ Waiting' = Keep(Tail(Waiting), Conns \ companions)
       /\ Healthy' = Healthy
  BY <1>2, <1>5, <1>6, <1>7, <1>8, <1>9
<1> QED
  BY <1>10, LineCounts, LineKeeps, LineRanges DEF Line!Start, Waiting, Running

\* A turn begins, alone or with a batch.
LEMMA TurnStarts ==
    ASSUME Core, LineInv, LeadSolo \/ TakeEnd
    PROVE  Line!Start
<1>1. /\ engine \in {"leading", "taking"} /\ engine' = "starting"
      /\ batch' = batch /\ answer' = answer
      /\ line' = Keep(line, Conns \ Range(batch))
  BY DEF LeadSolo, TakeEnd, Started, jobVars
<1>2. Healthy /\ Standing /\ TypeOK
  BY <1>1 DEF Healthy, LineInv, Core
<1>3. batch \in Seq(Conns) /\ batch # <<>> /\ Behind \in Seq(Conns)
  BY <1>1, <1>2, BehindTyped, EmptyOrNot DEF Core, TypeOK, EngineShape
<1>4. \A c \in Range(batch) : answer[c] = "none"
  BY <1>1, <1>2 DEF Standing, Unanswered
<1>5. line \in Seq(Conns)
  BY <1>1, <1>2, LineOwnsPlaces
<1>6. /\ line[1] = batch[1] /\ Range(batch) \subseteq Range(line)
      /\ Distinct(line)
  <2>1. CASE engine = "leading"
    <3>1. line = batch \o Behind
      BY <1>2, <2>1 DEF Standing, InLine
    <3>2. Len(batch) \in Nat /\ Len(batch) >= 1 /\ Len(Behind) \in Nat
      BY <1>3, EmptyOrNot
    <3>3. 1 \in 1..(Len(batch) + Len(Behind)) /\ 1 <= Len(batch)
      BY <3>2
    <3>4. (batch \o Behind)[1] = batch[1]
      BY <1>3, <3>3, ConcatProperties
    <3>5. Range(batch \o Behind) = Range(batch) \cup Range(Behind)
      BY <1>3, RangeConcatenation
    <3>6. Distinct(batch \o Behind)
      BY <1>2, <1>3, DistinctConcat DEF Standing, JobsDistinct
    <3> QED
      BY <3>1, <3>4, <3>5, <3>6
  <2>2. CASE engine = "taking"
    <3>1. PICK seen \in Seq(Conns) : Split(seen)
      BY <1>2, <2>2 DEF Standing, InLine
    <3>2. line[1] = batch[1] /\ Range(batch) \subseteq Range(line)
      BY <1>2, <3>1, SplitLine
    <3>3. Range(seen) \cap Range(Behind) = {}
      BY <1>2, <3>1, SplitRange DEF Standing, JobsDistinct
    <3>4. Distinct(seen \o Behind)
      BY <1>2, <1>3, <3>1, <3>3, DistinctConcat DEF Split, Standing, JobsDistinct
    <3> QED
      BY <3>1, <3>2, <3>4 DEF Split
  <2> QED
    BY <1>1, <2>1, <2>2
<1>7. line # <<>>
  <2>1. batch[1] \in Range(batch)
    BY <1>3, EmptyOrNot DEF Range
  <2> QED
    BY <1>6, <2>1, RangeEmpty
<1> QED
  BY <1>1, <1>2, <1>3, <1>4, <1>5, <1>6, <1>7, BatchStarts

\* Every step of the engine is a step of the line or leaves it alone.
LEMMA EngineImplements ==
    ASSUME Core, LineInv, EngineStep
    PROVE  Line!Next \/ UNCHANGED Line!vars
<1> USE DEF Core
<1>1. CASE PopPending \/ Recv \/ RecvClosed \/ LeadBatch \/ DrainOne \/ DrainEnd \/ TakeOne
  <2>1. /\ Healthy /\ Healthy' /\ Healthy' = Healthy /\ line' = line
        /\ engine \notin {"starting", "serving"} /\ engine' \notin {"starting", "serving"}
    BY <1>1 DEF PopPending, Recv, RecvClosed, LeadBatch, DrainOne, DrainEnd, TakeOne,
       Healthy
  <2>2. Waiting' = Waiting /\ Running' = Running
    BY <2>1 DEF Waiting, Running
  <2> QED
    BY <2>1, <2>2, LineStutters
<1>2. CASE LeadSolo \/ TakeEnd
  BY <1>2, TurnStarts DEF Line!Next
<1>3. CASE GivePlaceBack
  <2>1. /\ Healthy /\ Healthy' /\ Healthy' = Healthy /\ line' = line
        /\ engine = "starting" /\ engine' \in {"starting", "serving"}
        /\ batch' = batch /\ answer' = answer
    BY <1>3 DEF GivePlaceBack, Healthy, jobVars
  <2>2. Waiting' = Waiting /\ Running' = Running
    BY <2>1 DEF Waiting, Running
  <2> QED
    BY <2>1, <2>2, LineStutters
<1>4. ASSUME NEW c \in Conns, Serve(c) PROVE Line!Finish(c)
  <2>1. /\ Healthy /\ Healthy' = Healthy /\ line' = line
        /\ engine = "serving" /\ engine' = "serving" /\ batch' = batch
        /\ c \in Range(batch) /\ answer[c] = "none"
        /\ answer' = [answer EXCEPT ![c] = "served"]
    BY <1>4 DEF Serve, Healthy, engineVars
  <2>2. Range(batch) \in SUBSET Conns /\ answer \in [Conns -> Answers]
    BY BehindTyped DEF TypeOK
  <2>3. c \in Running /\ Running' = Running \ {c} /\ Waiting' = Waiting
    BY <2>1, <2>2 DEF Running, Waiting
  <2> QED
    BY <2>1, <2>3 DEF Line!Finish, Running, Waiting
<1>5. CASE DropJob
  <2>1. /\ Healthy /\ Healthy' /\ Healthy' = Healthy /\ line' = line
        /\ engine = "serving" /\ batch' = Tail(batch) /\ answer' = answer
        /\ \A c \in Range(batch) : answer[c] # "none"
    BY <1>5 DEF DropJob, Healthy
  <2>2. Range(Tail(batch)) \subseteq Range(batch)
    BY <1>5, RangeHead DEF DropJob, EngineShape, TypeOK
  <2>3. Waiting' = Waiting /\ Running' = Running
    BY <2>1, <2>2 DEF Waiting, Running
  <2> QED
    BY <2>1, <2>3, LineStutters
<1> QED
  BY <1>1, <1>2, <1>3, <1>4, <1>5 DEF EngineStep, Line!Next

LEMMA CrashImplements ==
    ASSUME Crash
    PROVE  Line!Next \/ UNCHANGED Line!vars
<1>1. CASE EnginePanic
  <2>1. /\ Healthy /\ ~Healthy' /\ Healthy' = FALSE /\ Waiting' = <<>> /\ Running' = {}
    BY <1>1 DEF EnginePanic, Healthy, Waiting, Running
  <2> QED
    BY <2>1 DEF Line!Next, Line!Die, Waiting, Running
<1>2. CASE ~EnginePanic
  <2>1. /\ ~Healthy /\ ~Healthy' /\ Healthy' = Healthy
        /\ engine \notin {"starting", "serving"} /\ engine' \notin {"starting", "serving"}
    BY <1>2 DEF Crash, UnwindHands, UnwindPending, Disconnect, DiscardMessage, Exit,
       Healthy
  <2>2. Waiting' = Waiting /\ Running' = Running
    BY <2>1 DEF Waiting, Running
  <2> QED
    BY <2>1, <2>2, LineStutters
<1> QED
  BY <1>1, <1>2

LEMMA NextImplements ==
    ASSUME Core, LineInv, [Next]_vars
    PROVE  [Line!Next]_(Line!vars)
<1>1. ASSUME NEW c \in Conns, Dispatch(c) \/ ThreadStep(c)
      PROVE  Line!Next \/ UNCHANGED Line!vars
  <2>1. CASE TrySend(c) /\ channel' = Append(channel, c)
    BY <2>1, SendJoins DEF Line!Next
  <2>2. CASE ~(TrySend(c) /\ channel' = Append(channel, c))
    <3>1. /\ UNCHANGED <<engine, batch, line>>
          /\ \A d \in Range(batch) : answer'[d] = answer[d]
      BY <1>1, <2>2, OtherThreads DEF Jobs
    <3>2. Healthy' = Healthy /\ Waiting' = Waiting /\ Running' = Running
      BY <3>1 DEF Healthy, Waiting, Running
    <3> QED
      BY <3>2, LineStutters
  <2> QED
    BY <2>1, <2>2
<1>2. CASE StopAccepting \/ Terminated \/ UNCHANGED vars
  <2>1. UNCHANGED <<engine, batch, line, answer>>
    BY <1>2 DEF StopAccepting, Terminated, engineVars, vars
  <2>2. Healthy' = Healthy /\ Waiting' = Waiting /\ Running' = Running
    BY <2>1 DEF Healthy, Waiting, Running
  <2> QED
    BY <2>2, LineStutters
<1> QED
  BY <1>1, <1>2, EngineImplements, CrashImplements DEF Next

\* The server implements the abstract line: whatever the threads, the channel,
\* the drain and the selection do, jobs only join at the end of the line while it
\* has room, a turn starts the head of the line with at most MaxStreams - 1
\* companions and keeps the others in order, and a job finishes once.
THEOREM ServerIsLine == Spec => ImplementsLine
<1>1. Init => Line!Init
  BY RangeEmpty DEF Init, Line!Init, Healthy
<1>2. Core /\ LineInv /\ [Next]_vars => [Line!Next]_(Line!vars)
  BY NextImplements
<1> QED
  BY <1>1, <1>2, LineInvariant, PTL DEF Spec, ImplementsLine, Line!Spec
=============================================================================
