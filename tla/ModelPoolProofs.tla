-------------------------- MODULE ModelPoolProofs --------------------------
(***************************************************************************)
(* ModelPool for any number of models, any limits and any queue: a model   *)
(* in use stays loaded, a batch keeps its jobs, the pool keeps its size    *)
(* (ModelKept), and models are the last thing the budget frees             *)
(* (CheapestFirst).                                                        *)
(*                                                                         *)
(* ModelKept is not inductive: that a stage finds its model loaded follows *)
(* from what every stage between the loading and the use knows of it, and  *)
(* that a batch keeps its jobs from where its sessions come from.  InUse,  *)
(* Missing and Admitted say so.                                            *)
(*                                                                         *)
(* CheapestFirst is not either: a purge skips what lies behind a poisoned  *)
(* lock, so nothing may be poisoned while the engine lives, and what one   *)
(* purge has emptied has to stay empty until the next one is tried.        *)
(* Spared says so.                                                         *)
(***************************************************************************)
EXTENDS ModelPool, FiniteSetTheorems, TLAPS

PurgeStages == {"purge block", "purge own", "purge model"}
LoadStages ==
    {"ensure", "check", "pool", "load", "ensured", "failed"} \cup PurgeStages
UseStages == {"drain", "take", "admit", "chunk", "running"}
Stages == LoadStages \cup UseStages \cup {"idle", "over", "exited"}

\* A list of stages with a name for readers: the provers may always see through it.
USE DEF PurgeStages

Types ==
    /\ loaded \in SUBSET Models
    /\ blocks \in [Models -> Nat]
    /\ own \in [Models -> Nat]
    /\ pending \in Seq(Jobs) /\ kept \in Seq(Jobs) /\ batch \in Seq(Jobs)
    /\ stage \in Stages
    /\ goal \in LoadGoals \cup After \cup {"none"}
    /\ stage \in {"ensure", "pool", "load"} => goal \in LoadGoals
    /\ stage \in {"check", "ensured", "failed"} \cup PurgeStages => goal # "none"
    /\ stage # "idle" => model \in Models

\* The stages and the goals for which the model of the turn is loaded.
InUse ==
    /\ stage \in UseStages \cup {"ensured"} => model \in loaded
    /\ goal \in {"flint", "batch", "alone"} \cup After => model \in loaded

\* The stages that load it.
Missing ==
    stage \in {"check", "pool", "load", "failed"} \cup PurgeStages /\ goal \notin After
        => model \notin loaded

\* A job with a session that is to be batched is for an MTP model; the jobs of a
\* batch are for its model.
Admitted ==
    /\ \A s \in {pending, kept, batch} : \A i \in DOMAIN s :
          s[i].kind = "session" => s[i].model \in MtpModels
    /\ goal = "ready" \/ stage \in {"drain", "take", "admit"} =>
          \A i \in DOMAIN batch : batch[i].model = model /\ batch[i].kind # "solo"

Bounded ==
    /\ LruEnabled => Cardinality(loaded) <= PoolSize
    /\ LruEnabled /\ stage = "load" => Cardinality(loaded) < PoolSize
    /\ \A m \in Models \ loaded : blocks[m] = 0 /\ own[m] = 0

Inv == Types /\ InUse /\ Missing /\ Admitted /\ Bounded

\* What the purges find: no lock is poisoned before the engine has ended, and what
\* the earlier ones free is all gone when a later one is tried.
Spared ==
    /\ stage # "exited" => poisoned = {}
    /\ stage = "purge own" => WithBlocks = {}
    /\ CheapestFirst

------------------------------------------------------------------------------
LEMMA LoadedFinite ==
    ASSUME NEW S \in SUBSET Models
    PROVE  IsFiniteSet(S) /\ Cardinality(S) \in Nat
<1>1. IsFiniteSet(Models)
  BY FS_Interval, Limits DEF Models
<1>2. IsFiniteSet(S)
  BY <1>1, FS_Subset
<1> QED BY <1>2, FS_CardinalityType

LEMMA InvKept == ASSUME Inv PROVE ModelKept
<1>1. ASSUME stage = "admit", NEW i \in DOMAIN batch
      PROVE  batch[i].model = model /\ Batchable(batch[i])
  <2>1. batch[i] \in Jobs
    <3>1. batch \in Seq(Jobs)
      BY DEF Inv, Types
    <3> QED BY <1>1, <3>1
  <2>2. model \in loaded
    BY <1>1 DEF Inv, InUse, UseStages
  <2>3. batch[i].model = model /\ batch[i].kind # "solo"
    BY <1>1 DEF Inv, Admitted
  <2>4. batch[i].kind = "session" => batch[i].model \in MtpModels
    BY DEF Inv, Admitted
  <2> QED
    BY <2>1, <2>2, <2>3, <2>4 DEF Batchable, Jobs, Kinds
<1>2. stage \in {"drain", "take", "admit", "chunk", "running"} => model \in loaded
  BY DEF Inv, InUse, UseStages
<1>3. goal \in After => model \in loaded
  BY DEF Inv, InUse
<1> QED
  BY <1>1, <1>2, <1>3 DEF Inv, Bounded, ModelKept

LEMMA InitInv == ASSUME Init PROVE Inv
<1> USE Limits DEF Init
<1>1. Types
  <2>1. \/ stage = "ensure" /\ goal = "preload" /\ model \in Models
        \/ stage = "idle" /\ goal = "none"
    BY DEF Models
  <2>2. stage \in Stages /\ goal \in LoadGoals \cup After \cup {"none"}
    BY <2>1 DEF Stages, LoadStages, LoadGoals
  <2>3. <<>> \in Seq(Jobs)
    OBVIOUS
  <2> QED
    BY <2>1, <2>2, <2>3 DEF Types, LoadGoals
<1>2. InUse /\ Missing
  <2>1. stage \in {"ensure", "idle"} /\ goal \in {"preload", "none"}
    OBVIOUS
  <2> QED
    BY <2>1 DEF InUse, Missing, UseStages, After
<1>3. Admitted
  <2>1. goal # "ready" /\ stage \notin {"drain", "take", "admit"}
    OBVIOUS
  <2>2. \A i \in DOMAIN <<>> : FALSE
    OBVIOUS
  <2> QED
    BY <2>1, <2>2 DEF Admitted
<1>4. Bounded
  BY FS_EmptySet DEF Bounded
<1> QED
  BY <1>1, <1>2, <1>3, <1>4 DEF Inv

------------------------------------------------------------------------------
(* The steps.  Most of them leave the pool alone, or only shrink a cache.    *)

\* Bounded does not look at anything else.
LEMMA SameBounds ==
    ASSUME Inv, UNCHANGED <<loaded, blocks, own>>, stage' # "load"
    PROVE  Bounded'
BY DEF Inv, Bounded

\* A model other than that of the turn goes.
LEMMA Evicted ==
    ASSUME Inv, EvictModel
    PROVE  /\ loaded' \in SUBSET Models
           /\ blocks' \in [Models -> Nat] /\ own' \in [Models -> Nat]
           /\ loaded' \subseteq loaded
           /\ model \in loaded => model \in loaded'
           /\ LruEnabled => Cardinality(loaded') <= PoolSize
           /\ \A m \in Models \ loaded' : blocks'[m] = 0 /\ own'[m] = 0
<1>1. PICK m \in Evictable :
          /\ loaded' = loaded \ {m}
          /\ blocks' = [blocks EXCEPT ![m] = 0]
          /\ own' = [own EXCEPT ![m] = 0]
  BY DEF EvictModel
<1>2. m \in loaded /\ m # model
  BY <1>1 DEF Evictable
<1>3. Cardinality(loaded \ {m}) = Cardinality(loaded) - 1
      /\ Cardinality(loaded) \in Nat /\ Cardinality(loaded \ {m}) \in Nat
  BY <1>2, LoadedFinite, FS_RemoveElement DEF Inv, Types
<1>4. LruEnabled => Cardinality(loaded') <= PoolSize
  <2>1. LruEnabled => Cardinality(loaded) <= PoolSize
    BY DEF Inv, Bounded
  <2> QED
    BY <1>1, <1>3, <2>1, Limits
<1> QED
  BY <1>1, <1>2, <1>4 DEF Inv, Types, Bounded

LEMMA EnsureInv == ASSUME Inv, Ensure PROVE Inv'
<1> USE DEF Ensure, At, poolVars, jobVars
<1>1. Types'
  BY DEF Inv, Types, Stages, LoadStages, LoadGoals
<1>2. InUse' /\ Missing'
  BY DEF Inv, Types, InUse, Missing, UseStages, LoadGoals, After
<1>3. Admitted'
  BY DEF Inv, Admitted
<1>4. Bounded'
  BY SameBounds
<1> QED
  BY <1>1, <1>2, <1>3, <1>4 DEF Inv

LEMMA CheckInv == ASSUME Inv, CheckMemory PROVE Inv'
<1> USE DEF CheckMemory, At, poolVars, jobVars
<1>1. Types'
  BY DEF Inv, Types, Stages, LoadStages
<1>2. InUse' /\ Missing'
  BY DEF Inv, InUse, Missing, UseStages
<1>3. Admitted'
  BY DEF Inv, Admitted
<1>4. Bounded'
  BY SameBounds
<1> QED
  BY <1>1, <1>2, <1>3, <1>4 DEF Inv

\* A purge that leaves the jobs alone, and the model of the turn.
LEMMA Purged ==
    ASSUME Inv, stage \in PurgeStages, UNCHANGED <<jobVars, goal>>,
           stage' \in PurgeStages \cup {"check", "failed"},
           loaded' \in SUBSET Models, loaded' \subseteq loaded,
           model \in loaded => model \in loaded',
           blocks' \in [Models -> Nat], own' \in [Models -> Nat],
           LruEnabled => Cardinality(loaded') <= PoolSize,
           \A m \in Models \ loaded' : blocks'[m] = 0 /\ own'[m] = 0
    PROVE  Inv'
<1> USE DEF jobVars
<1>1. Types'
  BY DEF Inv, Types, Stages, LoadStages
<1>2. InUse' /\ Missing'
  BY DEF Inv, InUse, Missing, UseStages
<1>3. Admitted'
  BY DEF Inv, Admitted
<1>4. Bounded'
  BY DEF Bounded
<1> QED
  BY <1>1, <1>2, <1>3, <1>4 DEF Inv

LEMMA Freed ==
    ASSUME NEW f \in [Models -> Nat], NEW m \in Models, f[m] > 0,
           \A k \in Models \ loaded : f[k] = 0
    PROVE  /\ [f EXCEPT ![m] = @ - 1] \in [Models -> Nat]
           /\ \A k \in Models \ loaded : [f EXCEPT ![m] = @ - 1][k] = 0
<1>1. f[m] - 1 \in Nat /\ m \in loaded
  OBVIOUS
<1> QED BY <1>1

LEMMA PurgeBlockInv == ASSUME Inv, PurgeBlock PROVE Inv'
<1> USE DEF PurgeBlock, At
<1>1. /\ blocks \in [Models -> Nat] /\ loaded \in SUBSET Models
      /\ \A m \in Models \ loaded : blocks[m] = 0
  BY DEF Inv, Types, Bounded
<1>2. /\ blocks' \in [Models -> Nat]
      /\ \A m \in Models \ loaded : blocks'[m] = 0
  <2>1. CASE UNCHANGED blocks
    BY <1>1, <2>1
  <2>2. CASE \E m \in WithBlocks : blocks' = [blocks EXCEPT ![m] = @ - 1]
    <3>1. PICK m \in Models : blocks[m] > 0 /\ blocks' = [blocks EXCEPT ![m] = @ - 1]
      BY <1>1, <2>2 DEF WithBlocks
    <3> QED
      BY <1>1, <3>1, Freed
  <2> QED BY <2>1, <2>2
<1> QED
  BY <1>2, Purged DEF Inv, Types, Bounded

LEMMA PurgeOwnInv == ASSUME Inv, PurgeOwn PROVE Inv'
<1> USE DEF PurgeOwn, At
<1>1. /\ own \in [Models -> Nat] /\ loaded \in SUBSET Models
      /\ \A m \in Models \ loaded : own[m] = 0
  BY DEF Inv, Types, Bounded
<1>2. /\ own' \in [Models -> Nat]
      /\ \A m \in Models \ loaded : own'[m] = 0
  <2>1. CASE UNCHANGED own
    BY <1>1, <2>1
  <2>2. CASE \E m \in OwnPurgeable : own' = [own EXCEPT ![m] = @ - 1]
    <3>1. PICK m \in Models : own[m] > 0 /\ own' = [own EXCEPT ![m] = @ - 1]
      BY <1>1, <2>2 DEF OwnPurgeable, WithOwn
    <3> QED
      BY <1>1, <3>1, Freed
  <2> QED BY <2>1, <2>2
<1> QED
  BY <1>2, Purged DEF Inv, Types, Bounded

LEMMA PurgeModelInv == ASSUME Inv, PurgeModel PROVE Inv'
<1> USE DEF PurgeModel, At
<1>1. CASE EvictModel
  BY <1>1, Evicted, Purged
<1>2. CASE UNCHANGED poolVars
  BY <1>2, Purged DEF Inv, Types, Bounded, poolVars
<1> QED BY <1>1, <1>2

LEMMA PoolLimitInv == ASSUME Inv, PoolLimit PROVE Inv'
<1> USE DEF PoolLimit, jobVars
<1>1. model \notin loaded /\ stage = "pool" /\ goal \in LoadGoals
  BY DEF Inv, Types, Missing, LoadGoals, After
<1>2. CASE EvictModel /\ UNCHANGED stage
  <2>1. Types'
    BY <1>2, Evicted DEF Inv, Types
  <2>2. InUse' /\ Missing' /\ Admitted'
    BY <1>1, <1>2, Evicted DEF Inv, InUse, Missing, Admitted, UseStages
  <2>3. Bounded'
    BY <1>1, <1>2, Evicted DEF Bounded
  <2> QED
    BY <2>1, <2>2, <2>3 DEF Inv
<1>3. CASE /\ ~(Cardinality(loaded) >= PoolSize /\ Evictable # {})
           /\ stage' = "load" /\ UNCHANGED poolVars
  <2>1. LruEnabled => Cardinality(loaded) < PoolSize
    <3>1. CASE Evictable = {}
      BY <1>1, <3>1, FS_EmptySet, Limits DEF Evictable
    <3>2. CASE Evictable # {}
      BY <1>3, <3>2, LoadedFinite, Limits DEF Inv, Types
    <3> QED BY <3>1, <3>2
  <2>2. Types'
    BY <1>1, <1>3 DEF Inv, Types, poolVars, Stages, LoadStages
  <2>3. InUse' /\ Missing' /\ Admitted'
    BY <1>1, <1>3 DEF Inv, InUse, Missing, Admitted, UseStages, poolVars
  <2>4. Bounded'
    BY <1>3, <2>1 DEF Inv, Bounded, poolVars
  <2> QED
    BY <2>2, <2>3, <2>4 DEF Inv
<1> QED BY <1>2, <1>3

LEMMA LoadInv == ASSUME Inv, Load PROVE Inv'
<1> USE DEF Load, At, jobVars
<1>1. model \in Models \ loaded /\ stage = "load" /\ goal \in LoadGoals
  BY DEF Inv, Types, Missing, LoadGoals, After
<1>2. CASE /\ loaded' = loaded \cup {model}
           /\ blocks' = [blocks EXCEPT ![model] = 0]
           /\ \E n \in 0..MaxOwn : own' = [own EXCEPT ![model] = n]
           /\ stage' = "ensured"
  <2>1. Types'
    BY <1>1, <1>2, Limits DEF Inv, Types, Stages, LoadStages, LoadGoals
  <2>2. InUse' /\ Missing' /\ Admitted'
    BY <1>1, <1>2 DEF Inv, InUse, Missing, Admitted
  <2>3. Cardinality(loaded \cup {model}) = Cardinality(loaded) + 1
    BY <1>1, LoadedFinite, FS_AddElement DEF Inv, Types
  <2>4. LruEnabled => Cardinality(loaded') <= PoolSize
    <3>1. LruEnabled => Cardinality(loaded) < PoolSize
      BY <1>1 DEF Inv, Bounded
    <3> QED
      BY <1>2, <2>3, <3>1, LoadedFinite, Limits DEF Inv, Types
  <2>5. Bounded'
    BY <1>1, <1>2, <2>4 DEF Inv, Types, Bounded
  <2> QED
    BY <2>1, <2>2, <2>5 DEF Inv
<1>3. CASE stage' = "failed" /\ UNCHANGED poolVars
  <2>1. Types'
    BY <1>1, <1>3 DEF Inv, Types, Stages, LoadStages, LoadGoals, poolVars
  <2>2. InUse' /\ Missing' /\ Admitted'
    BY <1>1, <1>3 DEF Inv, InUse, Missing, Admitted, UseStages, poolVars
  <2>3. Bounded'
    BY <1>3, SameBounds DEF poolVars
  <2> QED
    BY <2>1, <2>2, <2>3 DEF Inv
<1> QED BY <1>2, <1>3

LEMMA LoadStepInv == ASSUME Inv, LoadStep PROVE Inv'
BY EnsureInv, CheckInv, PurgeBlockInv, PurgeOwnInv, PurgeModelInv, PoolLimitInv,
   LoadInv DEF LoadStep

------------------------------------------------------------------------------
(* The turns of the engine.                                                  *)

\* What is queued of a job is a job, and a session is for an MTP model.
LEMMA QueuedJob ==
    ASSUME NEW j \in Jobs
    PROVE  /\ Queued(j) \in Jobs
           /\ Queued(j).kind = "session" => Queued(j).model \in MtpModels
<1>1. j.model \in Models /\ j.kind \in Kinds
  BY DEF Jobs
<1>2. CASE MaxStreams > 1 /\ Batchable(j)
  BY <1>1, <1>2 DEF Queued, Batchable, Jobs, Kinds
<1>3. CASE ~(MaxStreams > 1 /\ Batchable(j))
  <2>1. Queued(j) = [j EXCEPT !.kind = "solo"]
    BY <1>3 DEF Queued
  <2> QED
    BY <1>1, <2>1 DEF Jobs, Kinds
<1> QED BY <1>2, <1>3

\* A step that leaves the jobs and the caches of the pool alone.
LEMMA KeptJobs ==
    ASSUME Inv, UNCHANGED <<loaded, blocks, own, pending, kept, batch, model>>,
           stage' \in Stages \ {"load", "drain", "take", "admit"},
           goal' \in (LoadGoals \ {"ready"}) \cup After \cup {"none"},
           stage' \in {"ensure", "pool"} => goal' \in LoadGoals,
           stage' \in {"check", "ensured", "failed"} \cup PurgeStages => goal' # "none",
           stage' # "idle" => model \in Models,
           InUse', Missing'
    PROVE  Inv'
<1>1. Types'
  BY DEF Inv, Types
<1>2. Admitted'
  BY DEF Inv, Admitted, After
<1>3. Bounded'
  BY SameBounds
<1> QED
  BY <1>1, <1>2, <1>3 DEF Inv

LEMMA PreloadInv == ASSUME Inv, Preload PROVE Inv'
<1> USE DEF Preload, Begin, To, Ensured, Failed, poolVars
<1>1. Types'
  <2>1. \/ stage' = "ensure" /\ goal' = "preload"
        \/ stage' \in {"idle", "exited"} /\ goal' = "none"
    OBVIOUS
  <2>2. stage' \in Stages /\ goal' \in LoadGoals \cup After \cup {"none"}
    BY <2>1 DEF Stages, LoadStages, LoadGoals
  <2>3. stage' # "idle" => model' \in Models
    <3>1. model \in 1..NumModels
      BY DEF Inv, Types, Models
    <3>2. CASE model' = model + 1 /\ model < NumModels
      BY <3>1, <3>2, Limits DEF Models
    <3>3. CASE UNCHANGED model
      BY <3>1, <3>3 DEF Models
    <3>4. CASE stage' = "idle"
      BY <3>4
    <3> QED BY <3>2, <3>3, <3>4
  <2> QED
    BY <2>1, <2>2, <2>3 DEF Inv, Types, LoadGoals
<1>2. InUse' /\ Missing' /\ Admitted'
  BY DEF Inv, InUse, Missing, Admitted, UseStages, After
<1>3. Bounded'
  BY SameBounds
<1> QED
  BY <1>1, <1>2, <1>3 DEF Inv

LEMMA TurnInv ==
    ASSUME Inv, stage = "idle", NEW j \in Jobs, Turn(j),
           j.kind = "session" => j.model \in MtpModels,
           pending' \in Seq(Jobs),
           \A i \in DOMAIN pending' :
               pending'[i].kind = "session" => pending'[i].model \in MtpModels,
           UNCHANGED <<poolVars, kept>>
    PROVE  Inv'
<1> USE DEF Turn, Serve, Begin, poolVars
<1>1. stage' = "ensure" /\ goal' \in {"probe", "run", "ready"}
      /\ model' = j.model /\ j.model \in Models
  BY DEF Jobs
<1>2. Types'
  <2>1. batch' \in Seq(Jobs)
    <3>1. batch' = batch \/ batch' = <<j>>
      OBVIOUS
    <3>2. batch \in Seq(Jobs) /\ <<j>> \in Seq(Jobs)
      BY DEF Inv, Types
    <3> QED BY <3>1, <3>2
  <2>2. stage' \in Stages /\ goal' \in LoadGoals
    BY <1>1 DEF Stages, LoadStages, LoadGoals
  <2> QED
    BY <1>1, <2>1, <2>2 DEF Inv, Types
<1>3. InUse' /\ Missing'
  BY <1>1 DEF InUse, Missing, UseStages, After
<1>4. Admitted'
  <2>1. CASE j.kind = "solo"
    BY <1>1, <2>1 DEF Inv, Admitted
  <2>2. CASE j.kind # "solo"
    BY <1>1, <2>2 DEF Inv, Admitted
  <2> QED BY <2>1, <2>2
<1>5. Bounded'
  BY <1>1, SameBounds
<1> QED
  BY <1>2, <1>3, <1>4, <1>5 DEF Inv

LEMMA ReceiveInv == ASSUME Inv, Receive PROVE Inv'
<1>1. PICK j \in Jobs : Turn(Queued(j))
  BY DEF Receive
<1> QED
  BY <1>1, QueuedJob, TurnInv DEF Receive, Inv, Types, Admitted, poolVars

LEMMA PopPendingInv == ASSUME Inv, PopPending PROVE Inv'
<1> USE DEF PopPending
<1>1. Head(pending) = pending[1] /\ 1 \in DOMAIN pending /\ Head(pending) \in Jobs
  BY DEF Inv, Types
<1>2. pending' \in Seq(Jobs)
      /\ \A i \in DOMAIN pending' : i + 1 \in DOMAIN pending
                                    /\ pending'[i] = pending[i + 1]
  BY DEF Inv, Types
<1>3. \A i \in DOMAIN pending :
          pending[i].kind = "session" => pending[i].model \in MtpModels
  BY DEF Inv, Admitted
<1> QED
  BY <1>1, <1>2, <1>3, TurnInv DEF poolVars

LEMMA BatchReadyInv == ASSUME Inv, BatchReady PROVE Inv'
<1> USE DEF BatchReady, Ensured, Failed, To, Serve, Begin, poolVars
<1>1. /\ \/ stage' = "drain" /\ goal' = "none"
         \/ stage' = "ensure" /\ goal' \in {"probe", "run"}
      /\ goal = "ready" /\ model \in Models
  BY DEF Inv, Types
<1>2. Types'
  <2>1. batch' \in Seq(Jobs)
    <3>1. batch' = batch \/ batch' = <<>>
      OBVIOUS
    <3>2. batch \in Seq(Jobs)
      BY DEF Inv, Types
    <3>3. <<>> \in Seq(Jobs)
      OBVIOUS
    <3> QED BY <3>1, <3>2, <3>3
  <2>2. stage' \in Stages /\ goal' \in LoadGoals \cup After \cup {"none"}
    BY <1>1 DEF Stages, LoadStages, UseStages, LoadGoals
  <2> QED
    BY <1>1, <2>1, <2>2 DEF Inv, Types, LoadGoals
<1>3. InUse' /\ Missing'
  BY <1>1 DEF Inv, InUse, Missing, UseStages, After
<1>4. Admitted'
  BY <1>1 DEF Inv, Admitted
<1>5. Bounded'
  BY <1>1, SameBounds
<1> QED
  BY <1>2, <1>3, <1>4, <1>5 DEF Inv

LEMMA DrainInv == ASSUME Inv, Drain PROVE Inv'
<1> USE DEF Drain, poolVars
<1>1. stage = "drain" /\ stage' \in {"drain", "take"}
  OBVIOUS
<1>2. /\ pending' \in Seq(Jobs)
      /\ \A i \in DOMAIN pending' :
             pending'[i].kind = "session" => pending'[i].model \in MtpModels
  <2>1. CASE UNCHANGED pending
    BY <2>1 DEF Inv, Types, Admitted
  <2>2. CASE \E j \in Jobs : pending' = Append(pending, Queued(j))
    BY <2>2, QueuedJob DEF Inv, Types, Admitted
  <2> QED BY <2>1, <2>2
<1>3. Types'
  BY <1>1, <1>2 DEF Inv, Types, Stages, UseStages
<1>4. InUse' /\ Missing'
  BY <1>1 DEF Inv, InUse, Missing, UseStages
<1>5. Admitted'
  BY <1>1, <1>2 DEF Inv, Admitted
<1>6. Bounded'
  BY <1>1, SameBounds
<1> QED
  BY <1>3, <1>4, <1>5, <1>6 DEF Inv

LEMMA TakeOneInv == ASSUME Inv, TakeOne PROVE Inv'
<1> USE DEF TakeOne, poolVars
<1> DEFINE Right(q) == \A i \in DOMAIN q :
               q[i].kind = "session" => q[i].model \in MtpModels
<1>1. /\ Head(pending) \in Jobs /\ Head(pending) = pending[1]
      /\ 1 \in DOMAIN pending
      /\ Tail(pending) \in Seq(Jobs)
      /\ \A i \in DOMAIN Tail(pending) :
            i + 1 \in DOMAIN pending /\ Tail(pending)[i] = pending[i + 1]
  BY DEF Inv, Types
<1>2. Right(pending) /\ Right(kept) /\ Right(batch)
  BY DEF Inv, Admitted
<1>3. ASSUME NEW q \in Seq(Jobs), Right(q)
      PROVE  /\ Append(q, Head(pending)) \in Seq(Jobs)
             /\ Right(Append(q, Head(pending)))
  BY <1>1, <1>2, <1>3
<1>4. Right(pending')
  BY <1>1, <1>2
<1>5. batch' \in Seq(Jobs) /\ kept' \in Seq(Jobs) /\ Right(batch') /\ Right(kept')
  BY <1>2, <1>3 DEF Inv, Types
<1>6. Types'
  BY <1>1, <1>5 DEF Inv, Types
<1>7. InUse' /\ Missing'
  BY DEF Inv, InUse, Missing
<1>8. \A i \in DOMAIN batch' : batch'[i].model = model /\ batch'[i].kind # "solo"
  <2>1. \A i \in DOMAIN batch : batch[i].model = model /\ batch[i].kind # "solo"
    BY DEF Inv, Admitted
  <2>2. CASE UNCHANGED batch
    BY <2>1, <2>2
  <2>3. CASE Joins(Head(pending)) /\ batch' = Append(batch, Head(pending))
    <3>1. batch \in Seq(Jobs)
      BY DEF Inv, Types
    <3>2. Head(pending).model = model /\ Head(pending).kind # "solo"
      BY <2>3 DEF Joins
    <3> QED
      BY <1>1, <2>1, <2>3, <3>1, <3>2
  <2> QED BY <2>2, <2>3
<1>9. Admitted'
  BY <1>4, <1>5, <1>8 DEF Admitted
<1>10. Bounded'
  BY SameBounds
<1> QED
  BY <1>6, <1>7, <1>9, <1>10 DEF Inv

LEMMA TakeEndInv == ASSUME Inv, TakeEnd PROVE Inv'
<1> USE DEF TakeEnd, To, Serve, Begin, poolVars
<1>1. /\ \/ stage' = "admit" /\ goal' = "none" /\ batch' = batch
         \/ stage' = "ensure" /\ goal' \in {"probe", "run"} /\ batch' = <<>>
      /\ stage = "take" /\ model \in Models
  BY DEF Inv, Types
<1>2. Types'
  <2>1. batch' \in Seq(Jobs) /\ kept' \in Seq(Jobs) /\ pending' \in Seq(Jobs)
    BY <1>1 DEF Inv, Types
  <2>2. stage' \in Stages /\ goal' \in LoadGoals \cup After \cup {"none"}
    BY <1>1 DEF Stages, LoadStages, UseStages, LoadGoals
  <2> QED
    BY <1>1, <2>1, <2>2 DEF Inv, Types, LoadGoals
<1>3. InUse' /\ Missing'
  BY <1>1 DEF Inv, InUse, Missing, UseStages, After
<1>4. Admitted'
  BY <1>1 DEF Inv, Admitted
<1>5. Bounded'
  BY <1>1, SameBounds
<1> QED
  BY <1>2, <1>3, <1>4, <1>5 DEF Inv

LEMMA HandleBatchInv == ASSUME Inv, HandleBatch PROVE Inv'
<1> USE DEF HandleBatch, To, Begin, poolVars
<1>1. /\ \/ stage' = "over" /\ goal' = "none"
         \/ stage' = "ensure" /\ goal' = "flint"
      /\ stage = "admit" /\ model \in loaded /\ model \in Models
  BY DEF Inv, Types, InUse, UseStages
<1>2. Types'
  <2>1. batch' \in Seq(Jobs)
    OBVIOUS
  <2>2. stage' \in Stages /\ goal' \in LoadGoals \cup After \cup {"none"}
    BY <1>1 DEF Stages, LoadStages, UseStages, LoadGoals
  <2> QED
    BY <1>1, <2>1, <2>2 DEF Inv, Types, LoadGoals
<1>3. InUse' /\ Missing'
  BY <1>1 DEF InUse, Missing, UseStages, After
<1>4. Admitted'
  BY <1>1 DEF Inv, Admitted
<1>5. Bounded'
  BY <1>1, SameBounds
<1> QED
  BY <1>2, <1>3, <1>4, <1>5 DEF Inv

LEMMA BeginBatchInv == ASSUME Inv, BeginBatch PROVE Inv'
<1> USE DEF BeginBatch, Ensured, Failed, To, Begin
<1>1. /\ \/ stage' = "ensure" /\ goal' = "batch"
         \/ stage' \in {"chunk", "over"} /\ goal' = "none"
      /\ model \in loaded /\ model \in Models
  BY DEF Inv, Types, InUse
<1>2. InUse' /\ Missing'
  BY <1>1 DEF InUse, Missing, UseStages, After
<1> QED
  BY <1>1, <1>2, KeptJobs DEF Stages, LoadStages, UseStages, LoadGoals

LEMMA Resized ==
    ASSUME NEW f \in [Models -> Nat], NEW m \in loaded, m \in Models,
           \A k \in Models \ loaded : f[k] = 0, NEW max, NEW k \in 0..max
    PROVE  /\ [f EXCEPT ![m] = k] \in [Models -> Nat]
           /\ \A j \in Models \ loaded : [f EXCEPT ![m] = k][j] = 0
<1>1. k \in Nat
  OBVIOUS
<1> QED BY <1>1

\* Prefills leave the decoder's own caches of the other models alone.
LEMMA Prefilled ==
    ASSUME Inv, model \in loaded, NEW n, Prefills(n)
    PROVE  /\ own' \in [Models -> Nat]
           /\ \A m \in Models \ loaded : own'[m] = 0
<1>1. /\ own \in [Models -> Nat] /\ model \in Models
      /\ \A m \in Models \ loaded : own[m] = 0
  BY DEF Inv, Types, Bounded
<1>2. PICK k \in 0..MaxOwn : own' = [own EXCEPT ![model] = k]
  BY DEF Prefills
<1> QED
  BY <1>1, <1>2, Resized

LEMMA ChunkInv == ASSUME Inv, Chunk PROVE Inv'
<1> USE DEF Chunk, Begin, Enforce
<1>1. /\ \/ stage' = "ensure" /\ goal' = "alone"
         \/ stage' = "chunk" /\ goal' = goal
         \/ stage' = "check" /\ goal' = "after batch"
      /\ stage = "chunk" /\ model \in loaded /\ model \in Models
  BY DEF Inv, Types, InUse, UseStages
<1>2. /\ own' \in [Models -> Nat]
      /\ \A m \in Models \ loaded : own'[m] = 0
  <2>1. CASE UNCHANGED own
    BY <2>1 DEF Inv, Types, Bounded
  <2>2. CASE \E n \in 2..streams : Prefills(n)
    BY <1>1, <2>2, Prefilled
  <2> QED BY <2>1, <2>2
<1>3. InUse' /\ Missing'
  BY <1>1 DEF InUse, Missing, UseStages, After
<1>4. Types' /\ Admitted'
  BY <1>1, <1>2 DEF Inv, Types, Admitted, Stages, LoadStages, UseStages,
     LoadGoals, After
<1>5. Bounded'
  BY <1>1, <1>2 DEF Inv, Bounded
<1> QED
  BY <1>3, <1>4, <1>5 DEF Inv

LEMMA RunInv == ASSUME Inv, Run PROVE Inv'
<1> USE DEF Run, Ensured, Failed, To, At, Begin, jobVars
<1>1. /\ \/ stage' = "running" /\ goal \in {"run", "alone"} /\ goal' = goal
            /\ model \in loaded
         \/ stage' = "over" /\ goal' = "none"
         \/ stage' = "chunk" /\ goal' = "none" /\ model \in loaded
         \/ stage' = "ensure" /\ goal' = "run"
      /\ model \in Models
  BY DEF Inv, Types, InUse
<1>2. InUse' /\ Missing'
  BY <1>1 DEF InUse, Missing, UseStages, After
<1> QED
  BY <1>1, <1>2, KeptJobs DEF Stages, LoadStages, UseStages, LoadGoals

\* A generation leaves the caches of the other models alone.
LEMMA Generated ==
    ASSUME Inv, Generate, model \in loaded
    PROVE  /\ blocks' \in [Models -> Nat] /\ own' \in [Models -> Nat]
           /\ \A m \in Models \ loaded : blocks'[m] = 0 /\ own'[m] = 0
<1>1. /\ blocks \in [Models -> Nat] /\ own \in [Models -> Nat]
      /\ model \in Models
      /\ \A m \in Models \ loaded : blocks[m] = 0 /\ own[m] = 0
  BY DEF Inv, Types, Bounded
<1>2. CASE /\ \E n \in 0..MaxBlocks : blocks' = [blocks EXCEPT ![model] = n]
           /\ UNCHANGED own
  <2>1. PICK n \in 0..MaxBlocks : blocks' = [blocks EXCEPT ![model] = n]
    BY <1>2
  <2> QED
    BY <1>1, <1>2, <2>1, Resized
<1>3. CASE Prefills(1) /\ UNCHANGED blocks
  BY <1>1, <1>3, Prefilled
<1> QED
  BY <1>2, <1>3 DEF Generate

LEMMA RunningInv == ASSUME Inv, Running PROVE Inv'
<1> USE DEF Running, To, Enforce, jobVars
<1>1. /\ \/ stage' = "check" /\ goal' \in {"after run", "after alone"}
         \/ stage' \in {"over", "chunk"} /\ goal' = "none"
      /\ model \in loaded /\ model \in Models
  BY DEF Inv, Types, InUse, UseStages
<1>2. /\ blocks' \in [Models -> Nat] /\ own' \in [Models -> Nat]
      /\ \A m \in Models \ loaded : blocks'[m] = 0 /\ own'[m] = 0
  BY <1>1, Generated
<1>3. Types'
  BY <1>1, <1>2 DEF Inv, Types, Stages, LoadStages, UseStages, After
<1>4. InUse' /\ Missing'
  BY <1>1 DEF InUse, Missing, UseStages, After
<1>5. Admitted'
  BY <1>1 DEF Inv, Admitted
<1>6. Bounded'
  BY <1>1, <1>2 DEF Inv, Bounded
<1> QED
  BY <1>3, <1>4, <1>5, <1>6 DEF Inv

LEMMA AfterRunInv == ASSUME Inv, AfterRun PROVE Inv'
<1> USE DEF AfterRun, To, poolVars, jobVars
<1>1. /\ stage' \in {"over", "chunk"} /\ goal' = "none"
      /\ model \in loaded /\ model \in Models
  BY DEF Inv, Types, InUse
<1>2. InUse' /\ Missing'
  BY <1>1 DEF InUse, Missing, UseStages, After
<1> QED
  BY <1>1, <1>2, KeptJobs DEF Stages, LoadStages, UseStages

LEMMA OverInv == ASSUME Inv, Over PROVE Inv'
<1> USE DEF Over, To, Serve, Begin, poolVars
<1>1. \/ stage' = "ensure" /\ goal' \in {"probe", "run"} /\ model' \in Models
      \/ stage' = "idle" /\ goal' = "none"
  BY DEF Inv, Types
<1>2. InUse' /\ Missing'
  BY <1>1 DEF InUse, Missing, UseStages, After
<1>3. Types'
  BY <1>1 DEF Inv, Types, Stages, LoadStages, LoadGoals
<1>4. Admitted'
  BY <1>1 DEF Inv, Admitted
<1>5. Bounded'
  BY <1>1, SameBounds
<1> QED
  BY <1>2, <1>3, <1>4, <1>5 DEF Inv

LEMMA PanicInv == ASSUME Inv, Panic PROVE Inv'
<1> USE DEF Panic, To, jobVars
<1>1. Types'
  BY DEF Inv, Types, Stages, LoadStages
<1>2. InUse' /\ Missing' /\ Admitted'
  BY DEF Inv, InUse, Missing, Admitted, UseStages, After
<1>3. Bounded'
  BY SameBounds
<1> QED
  BY <1>1, <1>2, <1>3 DEF Inv

LEMMA NextInv == ASSUME Inv, [Next]_vars PROVE Inv'
<1>1. CASE EngineStep
  BY <1>1, LoadStepInv, PreloadInv, PopPendingInv, BatchReadyInv, DrainInv,
     TakeOneInv, TakeEndInv, HandleBatchInv, BeginBatchInv, ChunkInv, RunInv,
     RunningInv, AfterRunInv, OverInv DEF EngineStep, JobStep
<1>2. CASE Receive \/ Panic
  BY <1>2, ReceiveInv, PanicInv
<1>3. CASE UNCHANGED vars
  <2>1. Types' /\ InUse' /\ Missing' /\ Admitted' /\ Bounded'
    BY <1>3 DEF vars, poolVars, jobVars, Inv, Types, InUse, Missing, Admitted,
       Bounded
  <2> QED BY <2>1 DEF Inv
<1> QED
  BY <1>1, <1>2, <1>3 DEF Next, Exited

LEMMA InvAlways == Spec => []Inv
<1>1. Init => Inv
  BY InitInv
<1>2. Inv /\ [Next]_vars => Inv'
  BY NextInv
<1> QED
  BY <1>1, <1>2, PTL DEF Spec

------------------------------------------------------------------------------
\* A model in use stays in its slot, a batch keeps the jobs it was given, and the
\* pool keeps its size, for any models and limits (evict_lru_model, batch_chat).
THEOREM ModelKeptAlways == Spec => []ModelKept
<1>1. Inv => ModelKept
  BY InvKept
<1> QED
  BY <1>1, InvAlways, PTL

------------------------------------------------------------------------------
(* The purges.                                                               *)

\* Any other step of a living engine poisons nothing and asks for no purge but the
\* first.
LEMMA OtherSteps ==
    ASSUME Inv,
           \/ Ensure \/ CheckMemory \/ PoolLimit \/ Preload \/ JobStep \/ Receive
    PROVE  /\ stage # "exited" /\ UNCHANGED poisoned
           /\ stage' \notin {"purge own", "purge model", "failed"}
<1>1. CASE Ensure \/ CheckMemory \/ PoolLimit
  BY <1>1 DEF Ensure, CheckMemory, PoolLimit, EvictModel, At, poolVars
<1>2. CASE Preload
  BY <1>2 DEF Preload, Ensured, Failed, Begin, To, poolVars
<1>3. CASE PopPending \/ Receive
  BY <1>3 DEF PopPending, Receive, Turn, Serve, Begin, poolVars
<1>4. CASE BatchReady \/ Drain \/ TakeOne \/ TakeEnd \/ HandleBatch
  BY <1>4 DEF BatchReady, Drain, TakeOne, TakeEnd, HandleBatch, Ensured, Failed,
     Serve, Begin, To, poolVars
<1>5. CASE BeginBatch \/ Chunk \/ Run
  BY <1>5 DEF BeginBatch, Chunk, Run, Ensured, Failed, Begin, Enforce, To, At
<1>6. CASE Running \/ AfterRun \/ Over
  BY <1>6 DEF Running, AfterRun, Over, Serve, Begin, Enforce, To, poolVars
<1> QED
  BY <1>1, <1>2, <1>3, <1>4, <1>5, <1>6 DEF JobStep

LEMMA SparedNext == ASSUME Inv, Spared, [Next]_vars PROVE Spared'
<1>1. CASE \/ Ensure \/ CheckMemory \/ PoolLimit \/ Preload \/ JobStep \/ Receive
  BY <1>1, OtherSteps DEF Spared, CheapestFirst
<1>2. CASE PurgeBlock
  BY <1>2 DEF PurgeBlock, At, Spared, CheapestFirst, WithBlocks, WithOwn, After
<1>3. CASE PurgeOwn
  \* Nothing is poisoned, so what it cannot free is not there.
  <2>1. poisoned = {} /\ WithBlocks = {} /\ poisoned' = {} /\ WithBlocks' = {}
    BY <1>3 DEF PurgeOwn, Spared, WithBlocks
  <2>2. CASE stage' = "check"
    BY <2>1, <2>2 DEF Spared, CheapestFirst
  <2>3. CASE OwnPurgeable = {} /\ stage' = "purge model" /\ UNCHANGED own
    <3>1. WithOwn' = {}
      BY <1>3, <2>1, <2>3 DEF PurgeOwn, OwnPurgeable, WithOwn
    <3> QED
      BY <2>1, <2>3, <3>1 DEF Spared, CheapestFirst
  <2> QED
    BY <1>3, <2>2, <2>3 DEF PurgeOwn, At
<1>4. CASE PurgeModel
  <2>1. /\ poisoned = {} /\ WithBlocks = {} /\ WithOwn = {}
        /\ goal' = goal /\ model' = model /\ poisoned' = {}
    BY <1>4 DEF PurgeModel, Spared, CheapestFirst, EvictModel, At, poolVars, jobVars
  <2>2. CASE stage' = "check"
    BY <2>1, <2>2 DEF Spared, CheapestFirst
  <2>3. CASE Evictable = {} /\ stage' = "failed" /\ UNCHANGED poolVars
    <3>1. WithBlocks' = {} /\ WithOwn' = {}
      BY <2>1, <2>3 DEF WithBlocks, WithOwn, poolVars
    <3>2. goal \in After /\ LruEnabled => loaded' = {model'}
      BY <2>1, <2>3 DEF Evictable, Inv, InUse, poolVars
    <3> QED
      BY <2>1, <2>3, <3>1, <3>2 DEF Spared, CheapestFirst
  <2> QED
    BY <1>4, <2>2, <2>3 DEF PurgeModel, At
<1>5. CASE Load
  <2>1. goal \notin After /\ goal' = goal /\ stage' \in {"ensured", "failed"}
    BY <1>5 DEF Load, At, Inv, Types, LoadGoals, After
  <2>2. poisoned' = {}
    BY <1>5 DEF Load, Spared, poolVars
  <2> QED
    BY <2>1, <2>2 DEF Spared, CheapestFirst
<1>6. CASE Panic
  BY <1>6 DEF Panic, To, Spared, CheapestFirst
<1>7. CASE UNCHANGED vars
  BY <1>7 DEF vars, poolVars, jobVars, Spared, CheapestFirst, WithBlocks, WithOwn
<1> QED
  BY <1>1, <1>2, <1>3, <1>4, <1>5, <1>6, <1>7 DEF Next, EngineStep, LoadStep, Exited

\* The budget comes to the models when no block and no entry is left, and gives up
\* a generated answer only when nothing but its model is, though each purge skips
\* what it cannot lock (enforce_memory_budget, purge_one_for_memory_budget).
THEOREM ModelsLast == Spec => []CheapestFirst
<1>1. Init => Spared
  BY DEF Init, Spared, CheapestFirst
<1>2. Inv /\ Spared /\ [Next]_vars => Spared'
  BY SparedNext
<1>3. Spared => CheapestFirst
  BY DEF Spared
<1> QED
  BY <1>1, <1>2, <1>3, InvAlways, PTL DEF Spec
=============================================================================
