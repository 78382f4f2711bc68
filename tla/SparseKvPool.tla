---------------------------- MODULE SparseKvPool ----------------------------
(***************************************************************************)
(* The pool of K/V tiles on sparse Metal 4 buffers                         *)
(* (src/src/metal_backend/sparse.rs).                                      *)
(*                                                                         *)
(* A heap is a slab of memory cut into tiles; a buffer is virtual and gets *)
(* tiles mapped from its beginning on.  Commands of the GPU that read or   *)
(* write a buffer stay in flight after the CPU has gone on, so a tile may  *)
(* only be unmapped, given to another buffer or freed with its heap after  *)
(* a `UseProof`: an event the GPU signals behind the last of them.  Waits  *)
(* are bounded; when a proof or a confirmation does not come in time the   *)
(* tiles are lost for ever rather than recycled.                           *)
(*                                                                         *)
(* Each buffer belongs to one thread (its methods take &mut self); the     *)
(* ledger of the tiles is behind the lock of the pool, which is not held   *)
(* while a proof is waited for.                                            *)
(***************************************************************************)
EXTENDS Integers, Sequences, FiniteSets, Functions

CONSTANTS
    Buffers,       \* the buffers; each name can be used again after its drop
    MaxHeaps,      \* number of heaps the memory guard or Metal ever admits
    TilesPerHeap,
    RowBytes,
    TileBytes,
    Capacity,      \* capacity_rows
    MaxFlight,     \* number of commands a caller has in flight per buffer
    TileProofs     \* the proof handed to release_from only covers the commands
                   \*   that touch the tiles released; else all of the buffer's

ASSUME SizesAssumption ==
    /\ MaxHeaps \in Nat
    /\ TilesPerHeap \in Nat \ {0}
    /\ RowBytes \in Nat \ {0}
    /\ TileBytes \in Nat \ {0}
    /\ Capacity \in Nat
    /\ MaxFlight \in Nat

ASSUME TileProofsAssumption == TileProofs \in BOOLEAN

VARIABLES
    pool,      \* "up", or "down" once the last owner of the pool is gone
    mutex,     \* "ok", or "poisoned" by a thread that panicked
    heaps,     \* the slots that hold a heap; when down, the heaps never freed
    free,      \* the tiles of the free lists of the heaps
    used,      \* [Slots -> Nat]: HeapSlot::used
    lost,      \* the tiles counted by HeapSlot::leaked
    taken,     \* ensure_rows: the tiles taken, not yet in the buffer
    stage,     \* [Buffers -> Stages]: what the owner of a buffer is doing
    tiles,     \* [Buffers -> Seq(Tiles)]: SparseKvBuffer::tiles
    valid,     \* [Buffers -> Nat]: valid_rows
    poisoned,  \* [Buffers -> BOOLEAN]
    proof,     \* [Buffers -> Proofs]: last_proof
    rows,      \* [Buffers -> Nat]: the argument of the call in progress
    quiesced,  \* [Buffers -> Proofs]: the proof release_from waits for
    dropping,  \* [Buffers -> BOOLEAN]: in Drop
    flight     \* [Buffers -> Seq(SUBSET Tiles)]: the tiles touched by each
               \*   command of the GPU in flight, oldest first

vars == <<pool, mutex, heaps, free, used, lost, taken, stage, tiles, valid,
          poisoned, proof, rows, quiesced, dropping, flight>>

Slots == 1..MaxHeaps
Tiles == Slots \X (1..TilesPerHeap)
HeapTiles(s) == {s} \X (1..TilesPerHeap)

\* A proof is the number of commands in flight that it still has to wait for.
NoProof == -1
Proofs == -1..MaxFlight

Stages == {
    "none",     \* no buffer
    "idle",     \* between two calls
    "grow",     \* ensure_rows, holding the lock
    "wait",     \* release_from waits for the proof, without the lock
    "expired",  \* the proof did not come: about to lock
    "unmap",    \* the proof came: about to lock
    "drain",    \* drain_empty_heaps, holding the lock
    "leak"}     \* SparseKvBuffer::leak: about to lock

TypeOK ==
    /\ pool \in {"up", "down"}
    /\ mutex \in {"ok", "poisoned"}
    /\ heaps \subseteq Slots
    /\ free \subseteq Tiles
    /\ used \in [Slots -> Int]
    /\ lost \subseteq Tiles
    /\ taken \in Seq(Tiles)
    /\ stage \in [Buffers -> Stages]
    /\ tiles \in [Buffers -> Seq(Tiles)]
    /\ valid \in [Buffers -> 0..Capacity]
    /\ poisoned \in [Buffers -> BOOLEAN]
    /\ proof \in [Buffers -> Proofs]
    /\ rows \in [Buffers -> 0..Capacity]
    /\ quiesced \in [Buffers -> Proofs]
    /\ dropping \in [Buffers -> BOOLEAN]
    /\ flight \in [Buffers -> Seq(SUBSET Tiles)]

Init ==
    /\ pool = "up"
    /\ mutex = "ok"
    /\ heaps = {}
    /\ free = {}
    /\ used = [s \in Slots |-> 0]
    /\ lost = {}
    /\ taken = <<>>
    /\ stage = [b \in Buffers |-> "none"]
    /\ tiles = [b \in Buffers |-> <<>>]
    /\ valid = [b \in Buffers |-> 0]
    /\ poisoned = [b \in Buffers |-> FALSE]
    /\ proof = [b \in Buffers |-> NoProof]
    /\ rows = [b \in Buffers |-> 0]
    /\ quiesced = [b \in Buffers |-> NoProof]
    /\ dropping = [b \in Buffers |-> FALSE]
    /\ flight = [b \in Buffers |-> <<>>]

-----------------------------------------------------------------------------
(* Rows and tiles. *)

Lesser(m, n) == IF m <= n THEN m ELSE n

\* Mutant of TilesFor: rounded down.
WholeTiles(n) == (n * RowBytes) \div TileBytes

\* tiles_for_rows: the tiles that hold the first n rows, the last one in part.
TilesFor(n) == (n * RowBytes + TileBytes - 1) \div TileBytes

\* The rows that lie wholly in the mapped tiles.
mapped_rows(b) == Lesser(Capacity, (Len(tiles[b]) * TileBytes) \div RowBytes)

\* The first k tiles of b, or as many as it has.
FirstTiles(b, k) == {tiles[b][i] : i \in DOMAIN tiles[b] \cap 1..k}

Unlocked == \A b \in Buffers : stage[b] \notin {"grow", "drain"}

Goto(b, s) == stage' = [stage EXCEPT ![b] = s]

\* The call returns, and with it go its arguments.
Return(b) ==
    /\ Goto(b, IF dropping[b] THEN "none" ELSE "idle")
    /\ rows' = [rows EXCEPT ![b] = 0]
    /\ quiesced' = [quiesced EXCEPT ![b] = NoProof]
    /\ UNCHANGED dropping

\* Ledger::recycle: the tiles are free again.
Recycle(back) ==
    /\ free' = free \cup back
    /\ used' = [s \in Slots |-> used[s] - Cardinality(back \cap HeapTiles(s))]

\* SparseKvBuffer::poison: nothing is known of the mapping of these tiles of b.
Poison(b, unknown) ==
    /\ poisoned' = [poisoned EXCEPT ![b] = TRUE]
    /\ lost' = lost \cup Range(unknown)
    /\ tiles' = [tiles EXCEPT ![b] = <<>>]

ledger == <<heaps, free, used>>
shared == <<pool, mutex>>
call == <<rows, quiesced, dropping>>

-----------------------------------------------------------------------------
(* The owner of a buffer, which creates it, uses it on the GPU and drops it. *)

new_buffer(b) ==
    /\ pool = "up" /\ mutex = "ok" /\ Unlocked
    /\ stage[b] = "none" /\ flight[b] = <<>>
    /\ Goto(b, "idle")
    /\ valid' = [valid EXCEPT ![b] = 0]
    /\ poisoned' = [poisoned EXCEPT ![b] = FALSE]
    /\ proof' = [proof EXCEPT ![b] = NoProof]
    /\ dropping' = [dropping EXCEPT ![b] = FALSE]
    /\ UNCHANGED <<shared, ledger, lost, taken, tiles, rows, quiesced, flight>>

set_valid_rows(b, n) ==
    /\ stage[b] = "idle" /\ n <= mapped_rows(b)
    /\ valid' = [valid EXCEPT ![b] = n]
    /\ UNCHANGED <<shared, ledger, lost, taken, stage, tiles, poisoned, proof,
                   call, flight>>

\* The caller submits a command on the first n rows, then calls record_use with
\* a proof signalled behind it, as the comment of the module asks.
Use(b, n) ==
    /\ stage[b] = "idle" /\ ~poisoned[b]
    /\ n > 0 /\ TilesFor(n) <= Len(tiles[b])
    /\ Len(flight[b]) < MaxFlight
    /\ flight' = [flight EXCEPT ![b] =
                     Append(@, FirstTiles(b, TilesFor(n)))]
    /\ proof' = [proof EXCEPT ![b] = Len(flight[b]) + 1]
    /\ UNCHANGED <<shared, ledger, lost, taken, stage, tiles, valid, poisoned,
                   call>>

\* Mutant of Sooner: not for a proof that is reached already.
SoonerAlways(p) == p - 1

\* A proof, one command later.
Sooner(p) == IF p > 0 THEN p - 1 ELSE p

\* The oldest command of b in flight ends.
Complete(b) ==
    /\ flight[b] # <<>>
    /\ flight' = [flight EXCEPT ![b] = Tail(@)]
    /\ proof' = [proof EXCEPT ![b] = Sooner(@)]
    /\ quiesced' = [quiesced EXCEPT ![b] = Sooner(@)]
    /\ UNCHANGED <<shared, ledger, lost, taken, stage, tiles, valid, poisoned,
                   rows, dropping>>

-----------------------------------------------------------------------------
(* ensure_rows: more tiles, under the lock. *)

Growing(b) == stage[b] = "grow"
Short(b) == Len(tiles[b]) + Len(taken) < TilesFor(rows[b])

\* A call that needs no more tiles, or that is refused at once, changes nothing.
ensure_rows(b, n) ==
    /\ stage[b] = "idle" /\ ~poisoned[b] /\ mutex = "ok" /\ Unlocked
    /\ TilesFor(n) > Len(tiles[b])
    /\ rows' = [rows EXCEPT ![b] = n]
    /\ Goto(b, "grow")
    /\ UNCHANGED <<shared, ledger, lost, taken, tiles, valid, poisoned, proof,
                   quiesced, dropping, flight>>

\* Ledger::take: the first free tile of the first slot that has one.
Lowest(t) == \A u \in free : t[1] < u[1] \/ (t[1] = u[1] /\ t[2] <= u[2])

TakeTile(b) ==
    /\ Growing(b) /\ Short(b)
    /\ \E t \in free :
          /\ Lowest(t)
          /\ free' = free \ {t}
          /\ used' = [used EXCEPT ![t[1]] = @ + 1]
          /\ taken' = Append(taken, t)
    /\ UNCHANGED <<shared, heaps, lost, stage, tiles, valid, poisoned, proof,
                   call, flight>>

\* The guard reserves a heap and Metal creates it; it gets the first empty slot.
AddHeap(b) ==
    /\ Growing(b) /\ Short(b) /\ free = {}
    /\ \E s \in Slots \ heaps :
          /\ \A r \in Slots \ heaps : s <= r
          /\ heaps' = heaps \cup {s}
          /\ free' = HeapTiles(s)
          /\ used' = [used EXCEPT ![s] = 0]
    /\ UNCHANGED <<shared, lost, taken, stage, tiles, valid, poisoned, proof,
                   call, flight>>

\* Mutant of RefuseHeap: the tiles already taken are forgotten.
RefuseHeapForgets(b) ==
    /\ Growing(b) /\ Short(b) /\ free = {}
    /\ taken' = <<>>
    /\ Goto(b, "drain")
    /\ UNCHANGED <<shared, ledger, lost, tiles, valid, poisoned, proof, call,
                   flight>>

\* The guard or Metal refuses: the tiles taken, never mapped, go back.
RefuseHeap(b) ==
    /\ Growing(b) /\ Short(b) /\ free = {}
    /\ Recycle(Range(taken))
    /\ taken' = <<>>
    /\ Goto(b, "drain")
    /\ UNCHANGED <<shared, heaps, lost, tiles, valid, poisoned, proof, call,
                   flight>>

\* The mapping is confirmed, or the buffer is poisoned with the tiles it had.
MapTiles(b) ==
    /\ Growing(b) /\ ~Short(b)
    /\ \/ /\ tiles' = [tiles EXCEPT ![b] = @ \o taken]
          /\ UNCHANGED <<lost, poisoned>>
       \/ Poison(b, tiles[b] \o taken)
    /\ taken' = <<>>
    /\ Return(b)
    /\ UNCHANGED <<shared, ledger, valid, proof, flight>>

-----------------------------------------------------------------------------
(* release_from, and Drop, which calls it. *)

\* The proofs a caller may hand to release_from when `keep` tiles stay.  Its
\* comment asks that no command touches the others any more: the later commands
\* only touch tiles that stay.  A proof behind all commands is always one.
Acceptable(b, keep) ==
    {Len(flight[b])} \cup
    {p \in 0..Len(flight[b]) :
        /\ TileProofs /\ keep < Len(tiles[b])
        /\ \A i \in (p + 1)..Len(flight[b]) :
              flight[b][i] \subseteq FirstTiles(b, keep)}

\* Without a tile to give back the proof is recorded at once; else it is waited
\* for.
release_from(b, row, p) ==
    /\ stage[b] = "idle" /\ ~poisoned[b]
    /\ \/ /\ TilesFor(row) >= Len(tiles[b])
          /\ valid' = [valid EXCEPT ![b] = Lesser(@, row)]
          /\ proof' = [proof EXCEPT ![b] = p]
          /\ UNCHANGED <<stage, rows, quiesced>>
       \/ /\ TilesFor(row) < Len(tiles[b])
          /\ rows' = [rows EXCEPT ![b] = row]
          /\ quiesced' = [quiesced EXCEPT ![b] = p]
          /\ Goto(b, "wait")
          /\ UNCHANGED <<valid, proof>>
    /\ UNCHANGED <<shared, ledger, lost, taken, tiles, poisoned, dropping,
                   flight>>

\* Drop: a poisoned buffer, or one without a proof, is lost with its tiles; the
\* others are released down to nothing.
Drop(b) ==
    /\ stage[b] = "idle"
    /\ \/ /\ ~poisoned[b] /\ tiles[b] = <<>>
          /\ Goto(b, "none")
          /\ UNCHANGED <<proof, rows, quiesced, dropping>>
       \/ /\ poisoned[b] \/ (tiles[b] # <<>> /\ proof[b] = NoProof)
          /\ dropping' = [dropping EXCEPT ![b] = TRUE]
          /\ Goto(b, "leak")
          /\ UNCHANGED <<proof, rows, quiesced>>
       \/ /\ ~poisoned[b] /\ tiles[b] # <<>> /\ proof[b] # NoProof
          /\ dropping' = [dropping EXCEPT ![b] = TRUE]
          /\ rows' = [rows EXCEPT ![b] = 0]
          /\ quiesced' = [quiesced EXCEPT ![b] = proof[b]]
          /\ proof' = [proof EXCEPT ![b] = NoProof]
          /\ Goto(b, "wait")
    /\ UNCHANGED <<shared, ledger, lost, taken, tiles, valid, poisoned, flight>>

\* Mutant of Proven: what the wait returned is not looked at.
ProvenAnyway(b) ==
    /\ stage[b] = "wait"
    /\ valid' = [valid EXCEPT ![b] = Lesser(@, rows[b])]
    /\ proof' = [proof EXCEPT ![b] = quiesced[b]]
    /\ Goto(b, "unmap")
    /\ UNCHANGED <<shared, ledger, lost, taken, tiles, poisoned, call, flight>>

\* wait_signaled returns true.
Proven(b) ==
    /\ stage[b] = "wait" /\ quiesced[b] = 0
    /\ valid' = [valid EXCEPT ![b] = Lesser(@, rows[b])]
    /\ proof' = [proof EXCEPT ![b] = quiesced[b]]
    /\ Goto(b, "unmap")
    /\ UNCHANGED <<shared, ledger, lost, taken, tiles, poisoned, call, flight>>

\* wait_signaled returns false: no older proof may serve either.
Unproven(b) ==
    /\ stage[b] = "wait" /\ quiesced[b] # 0
    /\ proof' = [proof EXCEPT ![b] = NoProof]
    /\ Goto(b, "expired")
    /\ UNCHANGED <<shared, ledger, lost, taken, tiles, valid, poisoned, call,
                   flight>>

\* Where an error of release_from leads to.
Failed(b) ==
    \/ ~dropping[b] /\ Return(b)
    \/ dropping[b] /\ Goto(b, "leak") /\ UNCHANGED call

Expire(b) ==
    /\ stage[b] = "expired" /\ Unlocked
    /\ \/ /\ mutex = "ok"
          /\ Poison(b, tiles[b])
       \/ /\ mutex = "poisoned"
          /\ UNCHANGED <<poisoned, lost, tiles>>
    /\ Failed(b)
    /\ UNCHANGED <<shared, ledger, taken, valid, proof, flight>>

\* The unmap is confirmed and its tiles are free again, or the buffer is poisoned.
Unmap(b) ==
    /\ stage[b] = "unmap" /\ Unlocked /\ mutex = "ok"
    /\ \/ LET keep == TilesFor(rows[b])
          IN  /\ tiles' = [tiles EXCEPT ![b] = SubSeq(@, 1, keep)]
              /\ Recycle(Range(tiles[b]) \ FirstTiles(b, keep))
              /\ Goto(b, "drain")
              /\ UNCHANGED <<poisoned, lost, call>>
       \/ /\ Poison(b, tiles[b])
          /\ Failed(b)
          /\ UNCHANGED <<free, used>>
    /\ UNCHANGED <<shared, heaps, taken, valid, proof, flight>>

\* The lock is poisoned: an error, and nothing is unmapped.
UnmapRefused(b) ==
    /\ stage[b] = "unmap" /\ mutex = "poisoned"
    /\ Failed(b)
    /\ UNCHANGED <<shared, ledger, lost, taken, tiles, valid, poisoned, proof,
                   flight>>

\* Mutant of Surplus: off by one.
SurplusLate == Cardinality(free) > TilesPerHeap + 1

\* More than one heap's worth of free tiles.
Surplus == Cardinality(free) > TilesPerHeap

Empty(s) == s \in heaps /\ used[s] = 0

\* drain_empty_heaps: the last empty heap is freed while there is a surplus.
DrainHeap(b) ==
    /\ stage[b] = "drain" /\ Surplus
    /\ \E s \in Slots :
          /\ Empty(s)
          /\ \A r \in Slots : Empty(r) => r <= s
          /\ heaps' = heaps \ {s}
          /\ free' = free \ HeapTiles(s)
    /\ UNCHANGED <<shared, used, lost, taken, stage, tiles, valid, poisoned,
                   proof, call, flight>>

DrainEnd(b) ==
    /\ stage[b] = "drain" /\ ~(Surplus /\ \E s \in Slots : Empty(s))
    /\ Return(b)
    /\ UNCHANGED <<shared, ledger, lost, taken, tiles, valid, poisoned, proof,
                   flight>>

\* SparseKvBuffer::leak, with the lock poisoned or not: the Metal buffer is never
\* freed, so its mappings stay valid.
Leak(b) ==
    /\ stage[b] = "leak" /\ Unlocked
    /\ lost' = lost \cup Range(tiles[b])
    /\ tiles' = [tiles EXCEPT ![b] = <<>>]
    /\ Return(b)
    /\ UNCHANGED <<shared, ledger, taken, valid, poisoned, proof, flight>>

-----------------------------------------------------------------------------
(* The pool. *)

bufferVars == <<taken, stage, tiles, valid, poisoned, proof, call, flight>>

\* A thread panics with the lock.
PoisonMutex ==
    /\ mutex = "ok" /\ Unlocked
    /\ mutex' = "poisoned"
    /\ UNCHANGED <<pool, ledger, lost, bufferVars>>

\* Drop of PoolState, with the last buffer and the last handle: the heaps are
\* freed, but for those with a lost tile.
DropPool ==
    /\ pool = "up" /\ \A b \in Buffers : stage[b] = "none"
    /\ pool' = "down"
    /\ heaps' = {s \in heaps : lost \cap HeapTiles(s) # {}}
    /\ free' = {t \in free : t[1] \in heaps'}
    /\ UNCHANGED <<mutex, used, lost, bufferVars>>

Owner(b) ==
    \/ new_buffer(b)
    \/ \E n \in 0..Capacity :
          \/ set_valid_rows(b, n)
          \/ Use(b, n)
          \/ ensure_rows(b, n)
          \/ \E p \in Acceptable(b, TilesFor(n)) : release_from(b, n, p)
    \/ Drop(b)

Step(b) ==
    \/ TakeTile(b)
    \/ AddHeap(b)
    \/ RefuseHeap(b)
    \/ MapTiles(b)
    \/ Proven(b)
    \/ Unproven(b)
    \/ Expire(b)
    \/ Unmap(b)
    \/ UnmapRefused(b)
    \/ DrainHeap(b)
    \/ DrainEnd(b)
    \/ Leak(b)

\* The pool is gone; commands on lost buffers may still be in flight.
Terminated == pool = "down" /\ UNCHANGED vars

Next ==
    \/ \E b \in Buffers : Owner(b) \/ Step(b) \/ Complete(b)
    \/ PoisonMutex
    \/ DropPool
    \/ Terminated

Spec == Init /\ [][Next]_vars

-----------------------------------------------------------------------------
(* What makes the pool correct. *)

\* The tiles that buffer b owns, and those of the heaps that are there.
Owned(b) == Range(tiles[b])
Present == {t \in Tiles : t[1] \in heaps}

\* A command in flight only touches tiles that its buffer still owns or that are
\* lost for ever: none is unmapped, recycled, given to another buffer or freed
\* under a command, whatever expires, fails or is dropped.
InUseKept ==
    \A b \in Buffers : \A i \in DOMAIN flight[b] :
        flight[b][i] \subseteq Owned(b) \cup lost

\* Every tile of the heaps is free, in one buffer, taken by the buffer that
\* grows, or lost, and only in one of these places; no other tile is anywhere.
\* Hence no tile has two owners and no owned or lost tile is in a freed heap.
TilesConserved ==
    /\ Present = free \cup lost \cup Range(taken)
                    \cup UNION {Owned(b) : b \in Buffers}
    /\ free \cap lost = {} /\ (free \cup lost) \cap Range(taken) = {}
    /\ \A b \in Buffers : Owned(b) \cap (free \cup lost \cup Range(taken)) = {}
    /\ \A a, b \in Buffers : a # b => Owned(a) \cap Owned(b) = {}

\* The counter that decides which heap is freed is exact.
UsedExact ==
    \A s \in heaps : used[s] = Cardinality(HeapTiles(s) \ free)

LedgerExact == TilesConserved /\ UsedExact

\* The rows declared valid are mapped, however rows and tiles are aligned and
\* whatever is released; only the tiles of a poisoned buffer are gone.
ValidMapped ==
    \A b \in Buffers :
        stage[b] # "none" /\ ~poisoned[b] => valid[b] <= mapped_rows(b)

\* Between two operations at most one heap's worth of tiles is kept free for
\* growth, unless every heap is in use.
OneSpareHeap ==
    pool = "up" /\ Unlocked =>
        \/ Cardinality(free) <= TilesPerHeap
        \/ \A s \in heaps : used[s] > 0
=============================================================================
