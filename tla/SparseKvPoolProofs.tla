------------------------- MODULE SparseKvPoolProofs -------------------------
(***************************************************************************)
(* Proofs about SparseKvPool, for every set of buffers and every size.     *)
(***************************************************************************)
EXTENDS SparseKvPool, SequenceTheorems, FiniteSetTheorems, TLAPS

-----------------------------------------------------------------------------
(* Sequences. *)

LEMMA RangeEmpty == Range(<<>>) = {}
BY DEF Range

LEMMA RangeAppend ==
    ASSUME NEW S, NEW s \in Seq(S), NEW e \in S
    PROVE  /\ Append(s, e) \in Seq(S)
           /\ Len(Append(s, e)) = Len(s) + 1
           /\ Range(Append(s, e)) = Range(s) \cup {e}
           /\ DOMAIN Append(s, e) = 1..(Len(s) + 1)
           /\ \A i \in 1..(Len(s) + 1) :
                 Append(s, e)[i] = IF i <= Len(s) THEN s[i] ELSE e
<1>1. /\ Append(s, e) \in Seq(S)
      /\ Len(Append(s, e)) = Len(s) + 1
      /\ \A i \in 1..Len(s) : Append(s, e)[i] = s[i]
      /\ Append(s, e)[Len(s) + 1] = e
  BY AppendProperties
<1>2. DOMAIN s = 1..Len(s) /\ Len(s) \in Nat
      /\ DOMAIN Append(s, e) = 1..(Len(s) + 1)
  BY <1>1, LenProperties
<1>3. \A i \in 1..(Len(s) + 1) : i \in 1..Len(s) \/ i = Len(s) + 1
  BY <1>2
<1>4. 1..Len(s) \subseteq 1..(Len(s) + 1) /\ Len(s) + 1 \in 1..(Len(s) + 1)
  BY <1>2
<1>5. Range(Append(s, e)) = Range(s) \cup {e}
  BY <1>1, <1>2, <1>3, <1>4 DEF Range
<1> QED
  BY <1>1, <1>2, <1>3, <1>5

LEMMA RangeConcat ==
    ASSUME NEW S, NEW s \in Seq(S), NEW t \in Seq(S)
    PROVE  /\ s \o t \in Seq(S)
           /\ Len(s \o t) = Len(s) + Len(t)
           /\ Range(s \o t) = Range(s) \cup Range(t)
<1> DEFINE u == s \o t
<1>1. /\ u \in Seq(S)
      /\ Len(u) = Len(s) + Len(t)
      /\ \A i \in 1..(Len(s) + Len(t)) :
            u[i] = IF i <= Len(s) THEN s[i] ELSE t[i - Len(s)]
  BY ConcatProperties
<1>2. /\ DOMAIN s = 1..Len(s) /\ Len(s) \in Nat
      /\ DOMAIN t = 1..Len(t) /\ Len(t) \in Nat
      /\ DOMAIN u = 1..(Len(s) + Len(t))
  BY <1>1, LenProperties
<1> HIDE DEF u
<1>3. Range(u) \subseteq Range(s) \cup Range(t)
  <2>1. ASSUME NEW i \in 1..(Len(s) + Len(t))
        PROVE  u[i] \in Range(s) \cup Range(t)
    <3>1. CASE i <= Len(s)
      BY <1>1, <1>2, <3>1 DEF Range
    <3>2. CASE i > Len(s)
      <4>1. i - Len(s) \in 1..Len(t)
        BY <1>2, <3>2
      <4>2. u[i] = t[i - Len(s)]
        BY <1>1, <1>2, <3>2
      <4> QED
        BY <1>2, <4>1, <4>2 DEF Range
    <3> QED
      BY <1>2, <3>1, <3>2
  <2> QED
    BY <1>2, <2>1 DEF Range
<1>4. Range(s) \subseteq Range(u)
  <2>1. \A i \in 1..Len(s) : i \in 1..(Len(s) + Len(t)) /\ u[i] = s[i]
    BY <1>1, <1>2
  <2> QED
    BY <1>2, <2>1 DEF Range
<1>5. Range(t) \subseteq Range(u)
  <2>1. ASSUME NEW i \in 1..Len(t)
        PROVE  /\ i + Len(s) \in 1..(Len(s) + Len(t))
               /\ u[i + Len(s)] = t[i]
    BY <1>1, <1>2
  <2> QED
    BY <1>2, <2>1 DEF Range
<1> QED
  BY <1>1, <1>3, <1>4, <1>5 DEF u

LEMMA RangePrefix ==
    ASSUME NEW S, NEW s \in Seq(S), NEW k \in Int, k <= Len(s)
    PROVE  /\ SubSeq(s, 1, k) \in Seq(S)
           /\ Range(SubSeq(s, 1, k)) = {s[i] : i \in DOMAIN s \cap 1..k}
<1>1. DOMAIN s = 1..Len(s) /\ Len(s) \in Nat /\ \A i \in 1..Len(s) : s[i] \in S
  BY LenProperties, ElementOfSeq
<1>2. \A i \in 1..k : s[i] \in S
  BY <1>1
<1> DEFINE u == SubSeq(s, 1, k)
<1>3. /\ u \in Seq(S)
      /\ Len(u) = IF 1 <= k THEN k - 1 + 1 ELSE 0
      /\ \A i \in 1..(k - 1 + 1) : u[i] = s[1 + i - 1]
  <2>1. 1 \in Int
    OBVIOUS
  <2> QED
    BY <1>2, <2>1, SubSeqProperties
<1>4. DOMAIN u = 1..Len(u)
  BY <1>3, LenProperties
<1> HIDE DEF u
<1>5. DOMAIN u = 1..k /\ \A i \in 1..k : u[i] = s[i]
  BY <1>3, <1>4
<1>6. DOMAIN s \cap 1..k = 1..k
  BY <1>1
<1> QED
  BY <1>3, <1>5, <1>6 DEF u, Range

LEMMA TailEntries ==
    ASSUME NEW S, NEW s \in Seq(S), s # <<>>
    PROVE  /\ Tail(s) \in Seq(S)
           /\ Len(Tail(s)) = Len(s) - 1
           /\ Len(s) \in Nat \ {0}
           /\ \A i \in DOMAIN Tail(s) : i + 1 \in DOMAIN s /\ Tail(s)[i] = s[i + 1]
<1>1. /\ Tail(s) \in Seq(S)
      /\ Len(Tail(s)) = Len(s) - 1
      /\ \A i \in 1..Len(Tail(s)) : Tail(s)[i] = s[i + 1]
  BY HeadTailProperties
<1>2. /\ DOMAIN s = 1..Len(s) /\ Len(s) \in Nat
      /\ DOMAIN Tail(s) = 1..Len(Tail(s)) /\ Len(Tail(s)) \in Nat
  BY <1>1, LenProperties
<1> QED
  BY <1>1, <1>2

-----------------------------------------------------------------------------
(* Types, and the arguments of the calls in progress. *)

LEMMA TilesForInt ==
    ASSUME NEW n \in Nat
    PROVE  TilesFor(n) \in Int
<1>1. n * RowBytes + TileBytes - 1 \in Int
  BY SizesAssumption
<1> QED
  BY <1>1, SizesAssumption DEF TilesFor

LEMMA TilesForZero == TilesFor(0) = 0
<1>1. 0 * RowBytes + TileBytes - 1 = TileBytes - 1
  BY SizesAssumption
<1>2. (TileBytes - 1) \div TileBytes = 0
  BY SizesAssumption
<1> QED
  BY <1>1, <1>2 DEF TilesFor

\* No buffer has more commands in flight than are allowed.
FlightBounded == \A b \in Buffers : Len(flight[b]) <= MaxFlight

\* A release keeps a part of the tiles, until it has unmapped the others.
KeepFits ==
    \A b \in Buffers :
        stage[b] \in {"wait", "unmap"} => TilesFor(rows[b]) <= Len(tiles[b])

TypeInv == TypeOK /\ FlightBounded /\ KeepFits

LEMMA Members ==
    /\ 0 \in 0..Capacity /\ NoProof \in Proofs
    /\ {"none", "idle", "grow", "wait", "expired", "unmap", "drain", "leak"}
           \subseteq Stages
BY SizesAssumption DEF Proofs, NoProof, Stages

LEMMA InitTyped == Init => TypeInv
<1> SUFFICES ASSUME Init PROVE TypeInv
  OBVIOUS
<1>1. <<>> \in Seq(Tiles) /\ <<>> \in Seq(SUBSET Tiles) /\ Len(<<>>) = 0
  OBVIOUS
<1>2. TypeOK
  BY <1>1, SizesAssumption DEF Init, TypeOK, Stages, Proofs, NoProof
<1> QED
  BY <1>1, <1>2, SizesAssumption
     DEF Init, TypeInv, FlightBounded, KeepFits

LEMMA ReturnTyped ==
    ASSUME TypeOK, NEW b \in Buffers, Return(b)
    PROVE  /\ stage' \in [Buffers -> Stages]
           /\ rows' \in [Buffers -> 0..Capacity]
           /\ quiesced' \in [Buffers -> Proofs]
           /\ dropping' \in [Buffers -> BOOLEAN]
           /\ stage'[b] \in {"none", "idle"}
           /\ \A a \in Buffers : a # b => stage'[a] = stage[a] /\ rows'[a] = rows[a]
BY SizesAssumption DEF TypeOK, Return, Goto, Stages, Proofs, NoProof

LEMMA FailedTyped ==
    ASSUME TypeOK, NEW b \in Buffers, Failed(b)
    PROVE  /\ stage' \in [Buffers -> Stages]
           /\ rows' \in [Buffers -> 0..Capacity]
           /\ quiesced' \in [Buffers -> Proofs]
           /\ dropping' \in [Buffers -> BOOLEAN]
           /\ stage'[b] \in {"none", "idle", "leak"}
           /\ \A a \in Buffers : a # b => stage'[a] = stage[a] /\ rows'[a] = rows[a]
<1>1. CASE ~dropping[b] /\ Return(b)
  BY <1>1, ReturnTyped
<1>2. CASE dropping[b] /\ Goto(b, "leak") /\ UNCHANGED call
  BY <1>2 DEF TypeOK, Goto, call, Stages
<1> QED
  BY <1>1, <1>2 DEF Failed

LEMMA PoisonTyped ==
    ASSUME TypeOK, NEW b \in Buffers, NEW u \in Seq(Tiles), Poison(b, u)
    PROVE  /\ poisoned' \in [Buffers -> BOOLEAN]
           /\ lost' \subseteq Tiles
           /\ tiles' \in [Buffers -> Seq(Tiles)]
           /\ \A a \in Buffers : a # b => tiles'[a] = tiles[a]
<1>1. Range(u) \subseteq Tiles
  BY RangeOfSeq
<1> QED
  BY <1>1 DEF TypeOK, Poison

LEMMA RecycleTyped ==
    ASSUME TypeOK, NEW back \in SUBSET Tiles, Recycle(back),
           \A s \in Slots : Cardinality(back \cap HeapTiles(s)) \in Int
    PROVE  free' \subseteq Tiles /\ used' \in [Slots -> Int]
<1>1. ASSUME NEW s \in Slots
      PROVE  used[s] - Cardinality(back \cap HeapTiles(s)) \in Int
  <2>1. used[s] \in Int
    BY DEF TypeOK
  <2>2. Cardinality(back \cap HeapTiles(s)) \in Int
    OBVIOUS
  <2> QED
    BY <2>1, <2>2
<1>2. free \cup back \subseteq Tiles
  BY DEF TypeOK
<1> QED
  BY <1>1, <1>2 DEF Recycle

LEMMA HeapTilesFinite ==
    ASSUME NEW s \in Slots
    PROVE  HeapTiles(s) \subseteq Tiles /\ IsFiniteSet(HeapTiles(s))
<1>1. IsFiniteSet({s}) /\ IsFiniteSet(1..TilesPerHeap)
  <2>1. 1 \in Int /\ TilesPerHeap \in Int
    BY SizesAssumption
  <2> QED
    BY <2>1, FS_Singleton, FS_Interval
<1>2. IsFiniteSet(HeapTiles(s))
  BY <1>1, FS_Product DEF HeapTiles
<1> QED
  BY <1>2 DEF HeapTiles, Tiles

LEMMA PartCounted ==
    ASSUME NEW s \in Slots, NEW back
    PROVE  Cardinality(back \cap HeapTiles(s)) \in Nat
BY HeapTilesFinite, FS_Subset, FS_CardinalityType

\* The owner of a buffer keeps the types.
LEMMA OwnerTyped ==
    ASSUME TypeInv, NEW b \in Buffers, Owner(b)
    PROVE  TypeInv'
<1> USE DEF TypeInv
<1>1. CASE new_buffer(b)
  <2>1. TypeOK'
    BY <1>1, Members DEF new_buffer, Goto, shared, ledger, TypeOK
  <2>2. FlightBounded' /\ KeepFits'
    BY <1>1 DEF new_buffer, Goto, FlightBounded, KeepFits, TypeOK, TilesFor
  <2> QED
    BY <2>1, <2>2
<1>2. CASE \E n \in 0..Capacity : set_valid_rows(b, n)
  <2>1. TypeOK'
    BY <1>2 DEF set_valid_rows, shared, ledger, call, TypeOK
  <2>2. FlightBounded' /\ KeepFits'
    BY <1>2 DEF set_valid_rows, call, FlightBounded, KeepFits, TilesFor
  <2> QED
    BY <2>1, <2>2
<1>3. CASE \E n \in 0..Capacity : Use(b, n)
  <2>1. PICK n \in 0..Capacity : Use(b, n)
    BY <1>3
  <2> DEFINE u == FirstTiles(b, TilesFor(n))
  <2>2. u \in SUBSET Tiles
    <3>1. \A i \in DOMAIN tiles[b] : tiles[b][i] \in Tiles
      BY ElementOfSeq, LenProperties DEF TypeOK
    <3> QED
      BY <3>1 DEF FirstTiles
  <2>3. /\ Append(flight[b], u) \in Seq(SUBSET Tiles)
        /\ Len(Append(flight[b], u)) = Len(flight[b]) + 1
    BY <2>2, RangeAppend DEF TypeOK
  <2>4. flight' = [flight EXCEPT ![b] = Append(flight[b], u)]
    BY <2>1 DEF Use
  <2> HIDE DEF u
  <2>5. Len(flight[b]) \in Nat /\ Len(flight[b]) < MaxFlight
    BY <2>1, LenProperties DEF TypeOK, Use
  <2>6. proof' \in [Buffers -> Proofs]
    BY <2>1, <2>5, SizesAssumption DEF TypeOK, Use, Proofs
  <2>7. TypeOK'
    BY <2>1, <2>3, <2>4, <2>6 DEF Use, shared, ledger, call, TypeOK
  <2>8. FlightBounded'
    BY <2>3, <2>4, <2>5, SizesAssumption DEF FlightBounded, TypeOK
  <2>9. KeepFits'
    BY <2>1 DEF Use, call, KeepFits, TilesFor
  <2> QED
    BY <2>7, <2>8, <2>9
<1>4. CASE \E n \in 0..Capacity : ensure_rows(b, n)
  <2>1. TypeOK'
    BY <1>4 DEF ensure_rows, Goto, shared, ledger, TypeOK, Stages
  <2>2. FlightBounded' /\ KeepFits'
    BY <1>4 DEF ensure_rows, Goto, FlightBounded, KeepFits, TypeOK, TilesFor
  <2> QED
    BY <2>1, <2>2
<1>5. CASE \E n \in 0..Capacity : \E p \in Acceptable(b, TilesFor(n)) :
              release_from(b, n, p)
  <2>0. PICK n \in 0..Capacity :
            \E p \in Acceptable(b, TilesFor(n)) : release_from(b, n, p)
    BY <1>5
  <2>1. PICK p \in Acceptable(b, TilesFor(n)) : release_from(b, n, p)
    BY <2>0
  <2>2. p \in Proofs
    <3>1. Len(flight[b]) \in Nat /\ Len(flight[b]) <= MaxFlight
      BY LenProperties DEF TypeOK, FlightBounded
    <3>2. p \in 0..Len(flight[b])
      BY <3>1 DEF Acceptable
    <3> QED
      BY <3>1, <3>2, SizesAssumption DEF Proofs
  <2>3. Lesser(valid[b], n) \in 0..Capacity
    BY DEF Lesser, TypeOK
  <2>4. TilesFor(n) \in Int /\ Len(tiles[b]) \in Nat
    BY TilesForInt, LenProperties, SizesAssumption DEF TypeOK
  <2>5. CASE TilesFor(n) >= Len(tiles[b]) /\ UNCHANGED <<stage, rows, quiesced>>
             /\ valid' = [valid EXCEPT ![b] = Lesser(@, n)]
             /\ proof' = [proof EXCEPT ![b] = p]
    <3>1. TypeOK'
      BY <2>1, <2>2, <2>3, <2>5 DEF release_from, shared, ledger, TypeOK
    <3> QED
      BY <2>1, <2>5, <3>1 DEF release_from, FlightBounded, KeepFits, TilesFor
  <2>6. CASE /\ TilesFor(n) < Len(tiles[b]) /\ UNCHANGED <<valid, proof>>
             /\ rows' = [rows EXCEPT ![b] = n]
             /\ quiesced' = [quiesced EXCEPT ![b] = p]
             /\ Goto(b, "wait")
    <3>1. TypeOK'
      BY <2>1, <2>2, <2>6 DEF release_from, Goto, shared, ledger, TypeOK, Stages
    <3>2. /\ rows'[b] = n
          /\ \A a \in Buffers :
                a # b => rows'[a] = rows[a] /\ stage'[a] = stage[a]
      BY <2>6 DEF Goto, TypeOK
    <3>3. TilesFor(rows'[b]) <= Len(tiles[b])
      BY <2>4, <2>6, <3>2
    <3>4. KeepFits'
      BY <2>1, <3>2, <3>3 DEF release_from, KeepFits, TilesFor
    <3> QED
      BY <2>1, <3>1, <3>4 DEF release_from, FlightBounded
  <2> QED
    BY <2>1, <2>5, <2>6 DEF release_from
<1>6. CASE Drop(b)
  <2>1. TypeOK'
    <3>1. UNCHANGED <<shared, ledger, lost, taken, tiles, valid, poisoned, flight>>
      BY <1>6 DEF Drop
    <3>2. /\ stage' \in [Buffers -> Stages] /\ proof' \in [Buffers -> Proofs]
          /\ rows' \in [Buffers -> 0..Capacity]
          /\ quiesced' \in [Buffers -> Proofs]
          /\ dropping' \in [Buffers -> BOOLEAN]
      <4>1. CASE Goto(b, "none") /\ UNCHANGED <<proof, rows, quiesced, dropping>>
        BY <4>1, Members DEF Goto, TypeOK
      <4>2. CASE /\ dropping' = [dropping EXCEPT ![b] = TRUE]
                 /\ Goto(b, "leak")
                 /\ UNCHANGED <<proof, rows, quiesced>>
        BY <4>2, Members DEF Goto, TypeOK
      <4>3. CASE /\ dropping' = [dropping EXCEPT ![b] = TRUE]
                 /\ rows' = [rows EXCEPT ![b] = 0]
                 /\ quiesced' = [quiesced EXCEPT ![b] = proof[b]]
                 /\ proof' = [proof EXCEPT ![b] = NoProof]
                 /\ Goto(b, "wait")
        BY <4>3, Members DEF Goto, TypeOK
      <4> QED
        BY <1>6, <4>1, <4>2, <4>3 DEF Drop
    <3> QED
      BY <3>1, <3>2 DEF shared, ledger, TypeOK
  <2>2. FlightBounded'
    BY <1>6 DEF Drop, FlightBounded
  <2>3. \A a \in Buffers : stage'[a] \in {"wait", "unmap"} =>
            \/ a # b /\ stage'[a] = stage[a] /\ rows'[a] = rows[a]
            \/ rows'[a] = 0
    BY <1>6 DEF Drop, Goto, TypeOK
  <2>4. KeepFits'
    <3> SUFFICES ASSUME NEW a \in Buffers, stage'[a] \in {"wait", "unmap"}
                 PROVE  TilesFor(rows'[a]) <= Len(tiles[a])
      BY <1>6 DEF KeepFits, Drop, TilesFor
    <3>1. Len(tiles[a]) \in Nat
      BY LenProperties DEF TypeOK
    <3> QED
      BY <2>3, <3>1, TilesForZero DEF KeepFits
  <2> QED
    BY <2>1, <2>2, <2>4
<1> QED
  BY <1>1, <1>2, <1>3, <1>4, <1>5, <1>6 DEF Owner

\* Growth under the lock keeps the types.
LEMMA GrowTyped ==
    ASSUME TypeInv, NEW b \in Buffers,
           TakeTile(b) \/ AddHeap(b) \/ RefuseHeap(b) \/ MapTiles(b)
    PROVE  TypeInv'
<1> USE DEF TypeInv
<1>1. CASE TakeTile(b)
  <2>1. PICK t \in free :
            /\ free' = free \ {t}
            /\ used' = [used EXCEPT ![t[1]] = @ + 1]
            /\ taken' = Append(taken, t)
    BY <1>1 DEF TakeTile
  <2>2. taken' \in Seq(Tiles)
    BY <2>1, RangeAppend DEF TypeOK
  <2>3. used' \in [Slots -> Int] /\ free' \subseteq Tiles
    <3>1. t \in Tiles
      BY DEF TypeOK
    <3>2. t[1] \in Slots
      BY <3>1 DEF Tiles
    <3>3. used[t[1]] + 1 \in Int /\ used \in [Slots -> Int]
      BY <3>2 DEF TypeOK
    <3>4. used' \in [Slots -> Int]
      BY <2>1, <3>3
    <3>5. free' \subseteq Tiles
      BY <2>1 DEF TypeOK
    <3> QED
      BY <3>4, <3>5
  <2> QED
    BY <1>1, <2>2, <2>3
       DEF TakeTile, shared, call, TypeOK, FlightBounded, KeepFits, TilesFor
<1>2. CASE AddHeap(b)
  <2>1. PICK s \in Slots \ heaps :
            /\ heaps' = heaps \cup {s}
            /\ free' = HeapTiles(s)
            /\ used' = [used EXCEPT ![s] = 0]
    BY <1>2 DEF AddHeap
  <2>2. used' \in [Slots -> Int] /\ free' \subseteq Tiles /\ heaps' \subseteq Slots
    BY <2>1, HeapTilesFinite DEF TypeOK
  <2> QED
    BY <1>2, <2>2
       DEF AddHeap, shared, call, TypeOK, FlightBounded, KeepFits, TilesFor
<1>3. CASE RefuseHeap(b)
  <2>1. Range(taken) \in SUBSET Tiles
    BY RangeOfSeq DEF TypeOK
  <2>2. Recycle(Range(taken))
    BY <1>3 DEF RefuseHeap
  <2>3. \A s \in Slots : Cardinality(Range(taken) \cap HeapTiles(s)) \in Int
    BY PartCounted
  <2>4. used' \in [Slots -> Int] /\ free' \subseteq Tiles
    BY <2>1, <2>2, <2>3, RecycleTyped
  <2>5. taken' \in Seq(Tiles) /\ stage' \in [Buffers -> Stages]
    BY <1>3, Members DEF RefuseHeap, Goto, TypeOK
  <2> QED
    BY <1>3, <2>4, <2>5
       DEF RefuseHeap, Goto, shared, call, TypeOK, FlightBounded, KeepFits, TilesFor
<1>4. CASE MapTiles(b)
  <2>1. /\ tiles[b] \o taken \in Seq(Tiles)
        /\ tiles[b] \in Seq(Tiles)
    BY ConcatProperties DEF TypeOK
  <2>2. /\ poisoned' \in [Buffers -> BOOLEAN]
        /\ lost' \subseteq Tiles
        /\ tiles' \in [Buffers -> Seq(Tiles)]
        /\ \A a \in Buffers : a # b => tiles'[a] = tiles[a]
    <3>1. CASE /\ tiles' = [tiles EXCEPT ![b] = @ \o taken]
               /\ UNCHANGED <<lost, poisoned>>
      BY <2>1, <3>1 DEF TypeOK
    <3>2. CASE Poison(b, tiles[b] \o taken)
      BY <2>1, <3>2, PoisonTyped
    <3> QED
      BY <1>4, <3>1, <3>2 DEF MapTiles
  <2>3. /\ Return(b) /\ taken' = <<>>
        /\ UNCHANGED <<shared, ledger, valid, proof, flight>>
    BY <1>4 DEF MapTiles
  <2>4. /\ stage' \in [Buffers -> Stages]
        /\ rows' \in [Buffers -> 0..Capacity]
        /\ quiesced' \in [Buffers -> Proofs]
        /\ dropping' \in [Buffers -> BOOLEAN]
        /\ stage'[b] \in {"none", "idle"}
        /\ \A a \in Buffers : a # b => stage'[a] = stage[a] /\ rows'[a] = rows[a]
    BY <2>3, ReturnTyped
  <2>5. TypeOK'
    BY <2>2, <2>3, <2>4 DEF TypeOK, shared, ledger
  <2>6. FlightBounded' /\ KeepFits'
    BY <2>2, <2>3, <2>4 DEF FlightBounded, KeepFits, TilesFor
  <2> QED
    BY <2>5, <2>6
<1> QED
  BY <1>1, <1>2, <1>3, <1>4

\* Releases keep the types.
LEMMA ReleaseTyped ==
    ASSUME TypeInv, NEW b \in Buffers,
           Proven(b) \/ Unproven(b) \/ Expire(b) \/ Unmap(b) \/ UnmapRefused(b)
    PROVE  TypeInv'
<1> USE DEF TypeInv
<1>1. CASE Proven(b)
  <2>1. Lesser(valid[b], rows[b]) \in 0..Capacity
    BY DEF Lesser, TypeOK
  <2>2. valid' \in [Buffers -> 0..Capacity] /\ proof' \in [Buffers -> Proofs]
        /\ stage' \in [Buffers -> Stages]
    BY <1>1, <2>1, Members DEF Proven, Goto, TypeOK
  <2>3. TypeOK'
    BY <1>1, <2>2 DEF Proven, shared, ledger, call, TypeOK
  <2>4. FlightBounded' /\ KeepFits'
    BY <1>1 DEF Proven, Goto, call, FlightBounded, KeepFits, TypeOK, TilesFor
  <2> QED
    BY <2>3, <2>4
<1>2. CASE Unproven(b)
  <2>1. proof' \in [Buffers -> Proofs] /\ stage' \in [Buffers -> Stages]
    BY <1>2, Members DEF Unproven, Goto, TypeOK
  <2>2. TypeOK'
    BY <1>2, <2>1 DEF Unproven, shared, ledger, call, TypeOK
  <2>3. FlightBounded' /\ KeepFits'
    BY <1>2 DEF Unproven, Goto, call, FlightBounded, KeepFits, TypeOK, TilesFor
  <2> QED
    BY <2>2, <2>3
<1> DEFINE Ended ==
        /\ stage' \in [Buffers -> Stages]
        /\ rows' \in [Buffers -> 0..Capacity]
        /\ quiesced' \in [Buffers -> Proofs]
        /\ dropping' \in [Buffers -> BOOLEAN]
        /\ stage'[b] \in {"none", "idle", "leak"}
        /\ \A a \in Buffers : a # b => stage'[a] = stage[a] /\ rows'[a] = rows[a]
<1>3. CASE Expire(b)
  <2>1. Ended
    BY <1>3, FailedTyped DEF Expire
  <2>2. /\ poisoned' \in [Buffers -> BOOLEAN]
        /\ lost' \subseteq Tiles
        /\ tiles' \in [Buffers -> Seq(Tiles)]
        /\ \A a \in Buffers : a # b => tiles'[a] = tiles[a]
    <3>1. tiles[b] \in Seq(Tiles)
      BY DEF TypeOK
    <3>2. CASE Poison(b, tiles[b])
      BY <3>1, <3>2, PoisonTyped
    <3>3. CASE UNCHANGED <<poisoned, lost, tiles>>
      BY <3>3 DEF TypeOK
    <3> QED
      BY <1>3, <3>2, <3>3 DEF Expire
  <2>3. TypeOK'
    BY <1>3, <2>1, <2>2 DEF Expire, shared, ledger, TypeOK
  <2>4. FlightBounded' /\ KeepFits'
    BY <1>3, <2>1, <2>2 DEF Expire, FlightBounded, KeepFits, TilesFor
  <2> QED
    BY <2>3, <2>4
<1>4. CASE UnmapRefused(b)
  <2>1. Ended
    BY <1>4, FailedTyped DEF UnmapRefused
  <2>2. TypeOK'
    BY <1>4, <2>1 DEF UnmapRefused, shared, ledger, TypeOK
  <2>3. FlightBounded' /\ KeepFits'
    BY <1>4, <2>1 DEF UnmapRefused, FlightBounded, KeepFits, TilesFor
  <2> QED
    BY <2>2, <2>3
<1>5. CASE Unmap(b)
  <2> DEFINE keep == TilesFor(rows[b])
             back == Range(tiles[b]) \ FirstTiles(b, keep)
  <2>1. CASE /\ tiles' = [tiles EXCEPT ![b] = SubSeq(@, 1, keep)]
             /\ Recycle(back)
             /\ Goto(b, "drain")
             /\ UNCHANGED <<poisoned, lost, call>>
    <3>1. /\ tiles[b] \in Seq(Tiles) /\ keep \in Int /\ keep <= Len(tiles[b])
          /\ stage[b] = "unmap"
      BY <1>5, TilesForInt, SizesAssumption DEF TypeOK, KeepFits, Unmap
    <3>2. SubSeq(tiles[b], 1, keep) \in Seq(Tiles)
      BY <3>1, RangePrefix
    <3>3. back \in SUBSET Tiles
      BY <3>1, RangeOfSeq
    <3> HIDE DEF keep, back
    <3>9. \A s \in Slots : Cardinality(back \cap HeapTiles(s)) \in Int
      BY PartCounted
    <3>4. free' \subseteq Tiles /\ used' \in [Slots -> Int]
      BY <2>1, <3>3, <3>9, RecycleTyped
    <3>5. /\ tiles' \in [Buffers -> Seq(Tiles)] /\ stage' \in [Buffers -> Stages]
          /\ stage'[b] = "drain"
          /\ \A a \in Buffers : a # b => tiles'[a] = tiles[a] /\ stage'[a] = stage[a]
      BY <2>1, <3>2, Members DEF TypeOK, Goto
    <3>6. UNCHANGED <<shared, heaps, taken, valid, proof, flight, poisoned, lost, call>>
      BY <1>5, <2>1 DEF Unmap
    <3>7. TypeOK'
      BY <3>4, <3>5, <3>6 DEF shared, call, TypeOK
    <3>8. FlightBounded' /\ KeepFits'
      BY <3>5, <3>6 DEF call, FlightBounded, KeepFits, TilesFor
    <3> QED
      BY <3>7, <3>8
  <2>2. CASE Poison(b, tiles[b]) /\ Failed(b) /\ UNCHANGED <<free, used>>
    <3>1. Ended
      BY <2>2, FailedTyped
    <3>2. tiles[b] \in Seq(Tiles)
      BY DEF TypeOK
    <3>3. /\ poisoned' \in [Buffers -> BOOLEAN]
          /\ lost' \subseteq Tiles
          /\ tiles' \in [Buffers -> Seq(Tiles)]
          /\ \A a \in Buffers : a # b => tiles'[a] = tiles[a]
      BY <2>2, <3>2, PoisonTyped
    <3>4. UNCHANGED <<shared, heaps, taken, valid, proof, flight, free, used>>
      BY <1>5, <2>2 DEF Unmap
    <3>5. TypeOK'
      BY <3>1, <3>3, <3>4 DEF shared, TypeOK
    <3>6. FlightBounded' /\ KeepFits'
      BY <3>1, <3>3, <3>4 DEF FlightBounded, KeepFits, TilesFor
    <3> QED
      BY <3>5, <3>6
  <2> QED
    BY <1>5, <2>1, <2>2 DEF Unmap
<1> QED
  BY <1>1, <1>2, <1>3, <1>4, <1>5

\* The other steps keep the types.
LEMMA OthersTyped ==
    ASSUME TypeInv,
           \/ \E b \in Buffers :
                 Complete(b) \/ DrainHeap(b) \/ DrainEnd(b) \/ Leak(b)
           \/ PoisonMutex \/ DropPool \/ UNCHANGED vars
    PROVE  TypeInv'
<1> USE DEF TypeInv
<1>1. ASSUME NEW b \in Buffers, Complete(b)
      PROVE  TypeInv'
  <2>1. /\ Tail(flight[b]) \in Seq(SUBSET Tiles)
        /\ Len(Tail(flight[b])) = Len(flight[b]) - 1
        /\ Len(flight[b]) \in Nat
    BY <1>1, TailEntries DEF Complete, TypeOK
  <2>2. \A q \in Proofs : Sooner(q) \in Proofs
    BY SizesAssumption DEF Proofs, Sooner
  <2>3. /\ proof' \in [Buffers -> Proofs] /\ quiesced' \in [Buffers -> Proofs]
        /\ flight' \in [Buffers -> Seq(SUBSET Tiles)]
    BY <1>1, <2>1, <2>2 DEF Complete, TypeOK
  <2>4. TypeOK'
    BY <1>1, <2>3 DEF Complete, shared, ledger, TypeOK
  <2>5. FlightBounded'
    BY <1>1, <2>1, SizesAssumption DEF Complete, FlightBounded, TypeOK
  <2>6. KeepFits'
    BY <1>1 DEF Complete, KeepFits, TilesFor
  <2> QED
    BY <2>4, <2>5, <2>6
<1>2. ASSUME NEW b \in Buffers, DrainHeap(b)
      PROVE  TypeInv'
  BY <1>2 DEF DrainHeap, shared, call, TypeOK, FlightBounded, KeepFits, TilesFor
<1>3. ASSUME NEW b \in Buffers, DrainEnd(b)
      PROVE  TypeInv'
  <2>1. Return(b) /\ UNCHANGED <<shared, ledger, lost, taken, tiles, valid,
                                 poisoned, proof, flight>>
    BY <1>3 DEF DrainEnd
  <2>2. /\ stage' \in [Buffers -> Stages]
        /\ rows' \in [Buffers -> 0..Capacity]
        /\ quiesced' \in [Buffers -> Proofs]
        /\ dropping' \in [Buffers -> BOOLEAN]
        /\ stage'[b] \in {"none", "idle"}
        /\ \A a \in Buffers : a # b => stage'[a] = stage[a] /\ rows'[a] = rows[a]
    BY <2>1, ReturnTyped
  <2> QED
    BY <2>1, <2>2 DEF shared, ledger, TypeOK, FlightBounded, KeepFits, TilesFor
<1>4. ASSUME NEW b \in Buffers, Leak(b)
      PROVE  TypeInv'
  <2>1. /\ Return(b) /\ UNCHANGED <<shared, ledger, taken, valid, poisoned,
                                    proof, flight>>
        /\ lost' = lost \cup Range(tiles[b])
        /\ tiles' = [tiles EXCEPT ![b] = <<>>]
    BY <1>4 DEF Leak
  <2>2. /\ stage' \in [Buffers -> Stages]
        /\ rows' \in [Buffers -> 0..Capacity]
        /\ quiesced' \in [Buffers -> Proofs]
        /\ dropping' \in [Buffers -> BOOLEAN]
        /\ stage'[b] \in {"none", "idle"}
        /\ \A a \in Buffers : a # b => stage'[a] = stage[a] /\ rows'[a] = rows[a]
    BY <2>1, ReturnTyped
  <2>3. /\ lost' \subseteq Tiles /\ tiles' \in [Buffers -> Seq(Tiles)]
        /\ \A a \in Buffers : a # b => tiles'[a] = tiles[a]
    <3>1. Range(tiles[b]) \subseteq Tiles
      BY RangeOfSeq DEF TypeOK
    <3> QED
      BY <2>1, <3>1 DEF TypeOK
  <2>4. TypeOK'
    BY <2>1, <2>2, <2>3 DEF shared, ledger, TypeOK
  <2> QED
    BY <2>1, <2>2, <2>3, <2>4 DEF FlightBounded, KeepFits, TilesFor
<1>5. CASE PoisonMutex
  BY <1>5 DEF PoisonMutex, ledger, bufferVars, call, TypeOK, FlightBounded,
              KeepFits, TilesFor
<1>6. CASE DropPool
  BY <1>6 DEF DropPool, bufferVars, call, TypeOK, FlightBounded, KeepFits, TilesFor
<1>7. CASE UNCHANGED vars
  BY <1>7 DEF vars, TypeOK, FlightBounded, KeepFits, TilesFor
<1> QED
  BY <1>1, <1>2, <1>3, <1>4, <1>5, <1>6, <1>7

LEMMA TypeInvariant == Spec => []TypeInv
<1>1. TypeInv /\ [Next]_vars => TypeInv'
  BY OwnerTyped, GrowTyped, ReleaseTyped, OthersTyped
     DEF Next, Step, Terminated
<1> QED
  BY <1>1, InitTyped, PTL DEF Spec

\* Every variable keeps its type, whatever the sizes and the number of buffers;
\* in particular no count of commands goes below that of "no proof".
THEOREM TypeCorrect == Spec => []TypeOK
<1>1. TypeInv => TypeOK
  BY DEF TypeInv
<1> QED
  BY <1>1, TypeInvariant, PTL

-----------------------------------------------------------------------------
(* What is in use is kept, when each proof covers all commands of its buffer. *)

\* A recorded proof, or one that is waited for, waits for every command in
\* flight; and none is left when it is reached.
ProofsCover ==
    \A b \in Buffers :
        /\ proof[b] \in {NoProof, Len(flight[b])}
        /\ stage[b] = "wait" => quiesced[b] = Len(flight[b])
        /\ stage[b] = "unmap" => flight[b] = <<>>

UseInv == TypeInv /\ ProofsCover /\ InUseKept

\* Tiles may only leave a buffer that no command uses, or become lost.
LEMMA KeptWhenOwned ==
    ASSUME TypeOK, InUseKept, UNCHANGED flight, lost \subseteq lost',
           \A a \in Buffers :
               flight[a] # <<>> => Range(tiles[a]) \subseteq Range(tiles'[a]) \cup lost'
    PROVE  InUseKept'
<1> SUFFICES ASSUME NEW a \in Buffers, NEW i \in DOMAIN flight[a]
             PROVE  flight[a][i] \subseteq Range(tiles'[a]) \cup lost'
  BY DEF InUseKept, Owned
<1>1. flight[a] # <<>>
  OBVIOUS
<1>2. flight[a][i] \subseteq Range(tiles[a]) \cup lost
  BY DEF InUseKept, Owned
<1> QED
  BY <1>1, <1>2

\* So it is for every step that leaves the tiles of the buffers alone.
LEMMA KeptWhenSame ==
    ASSUME TypeOK, InUseKept, UNCHANGED <<flight, tiles, lost>>
    PROVE  InUseKept'
BY KeptWhenOwned

\* And for every step that may poison a buffer.
LEMMA KeptWhenPoisoned ==
    ASSUME TypeOK, InUseKept, UNCHANGED flight, NEW b \in Buffers,
           NEW u \in Seq(Tiles), Range(tiles[b]) \subseteq Range(u), Poison(b, u)
    PROVE  InUseKept'
<1>1. /\ lost' = lost \cup Range(u)
      /\ \A a \in Buffers : a # b => tiles'[a] = tiles[a]
  BY DEF Poison, TypeOK
<1> QED
  BY <1>1, KeptWhenOwned

LEMMA CoveredWhenSame ==
    ASSUME ProofsCover, UNCHANGED <<flight, proof>>,
           \A a \in Buffers :
               \/ stage'[a] \notin {"wait", "unmap"}
               \/ stage'[a] = stage[a] /\ quiesced'[a] = quiesced[a]
    PROVE  ProofsCover'
BY DEF ProofsCover

LEMMA CoveredWhenEnded ==
    ASSUME TypeOK, ProofsCover, NEW b \in Buffers, Return(b) \/ Failed(b),
           UNCHANGED <<flight, proof>>
    PROVE  ProofsCover'
<1>1. CASE Return(b)
  <2>1. \A a \in Buffers :
            \/ stage'[a] \notin {"wait", "unmap"}
            \/ stage'[a] = stage[a] /\ quiesced'[a] = quiesced[a]
    BY <1>1 DEF Return, Goto, TypeOK
  <2> QED
    BY <2>1, CoveredWhenSame
<1>2. CASE Goto(b, "leak") /\ UNCHANGED call
  <2>1. \A a \in Buffers :
            \/ stage'[a] \notin {"wait", "unmap"}
            \/ stage'[a] = stage[a] /\ quiesced'[a] = quiesced[a]
    BY <1>2 DEF call, Goto, TypeOK
  <2> QED
    BY <2>1, CoveredWhenSame
<1> QED
  BY <1>1, <1>2 DEF Failed

LEMMA OwnerKeeps ==
    ASSUME ~TileProofs, UseInv, NEW b \in Buffers, Owner(b)
    PROVE  ProofsCover' /\ InUseKept'
<1> USE DEF UseInv, TypeInv
<1>1. CASE new_buffer(b)
  <2>1. ProofsCover'
    BY <1>1 DEF new_buffer, Goto, ProofsCover, TypeOK
  <2> QED
    BY <1>1, <2>1, KeptWhenSame DEF new_buffer
<1>2. CASE \E n \in 0..Capacity : set_valid_rows(b, n)
  BY <1>2, KeptWhenSame, CoveredWhenSame DEF set_valid_rows, call
<1>3. CASE \E n \in 0..Capacity : Use(b, n)
  <2>1. PICK n \in 0..Capacity : Use(b, n)
    BY <1>3
  <2> DEFINE u == FirstTiles(b, TilesFor(n))
  <2>2. u \in SUBSET Tiles /\ u \subseteq Owned(b)
    <3>1. \A i \in DOMAIN tiles[b] : tiles[b][i] \in Tiles /\ tiles[b][i] \in Owned(b)
      BY ElementOfSeq, LenProperties DEF TypeOK, Owned, Range
    <3> QED
      BY <3>1 DEF FirstTiles
  <2>3. /\ flight' = [flight EXCEPT ![b] = Append(flight[b], u)]
        /\ proof' = [proof EXCEPT ![b] = Len(flight[b]) + 1]
        /\ UNCHANGED <<lost, stage, tiles, quiesced>>
        /\ stage[b] = "idle"
    BY <2>1 DEF Use, call
  <2> HIDE DEF u
  <2>4. /\ Len(Append(flight[b], u)) = Len(flight[b]) + 1
        /\ DOMAIN Append(flight[b], u) = 1..(Len(flight[b]) + 1)
        /\ \A i \in 1..(Len(flight[b]) + 1) :
              Append(flight[b], u)[i] = IF i <= Len(flight[b]) THEN flight[b][i] ELSE u
    <3>1. flight[b] \in Seq(SUBSET Tiles)
      BY DEF TypeOK
    <3> QED
      BY <2>2, <3>1, RangeAppend
  <2>5. ProofsCover'
    <3>1. /\ proof'[b] = Len(flight'[b]) /\ stage'[b] = "idle"
          /\ \A a \in Buffers : a # b => /\ proof'[a] = proof[a]
                                         /\ flight'[a] = flight[a]
      BY <2>3, <2>4 DEF TypeOK
    <3> QED
      BY <2>3, <3>1 DEF ProofsCover
  <2>6. InUseKept'
    <3> SUFFICES ASSUME NEW a \in Buffers, NEW i \in DOMAIN flight'[a]
                 PROVE  flight'[a][i] \subseteq Range(tiles[a]) \cup lost
      BY <2>3 DEF InUseKept, Owned
    <3>1. CASE a # b
      BY <2>3, <3>1 DEF InUseKept, Owned, TypeOK
    <3>2. CASE a = b
      <4>1. flight'[b] = Append(flight[b], u)
        BY <2>3 DEF TypeOK
      <4>2. i \in 1..(Len(flight[b]) + 1)
        BY <2>4, <3>2, <4>1
      <4>3. Len(flight[b]) \in Nat /\ DOMAIN flight[b] = 1..Len(flight[b])
        BY LenProperties DEF TypeOK
      <4>4. CASE i <= Len(flight[b])
        <5>1. i \in DOMAIN flight[b] /\ flight'[b][i] = flight[b][i]
          BY <2>4, <4>1, <4>2, <4>3, <4>4
        <5> QED
          BY <3>2, <5>1 DEF InUseKept, Owned
      <4>5. CASE i > Len(flight[b])
        <5>1. flight'[b][i] = u
          BY <2>4, <4>1, <4>2, <4>3, <4>5
        <5> QED
          BY <2>2, <3>2, <5>1 DEF Owned
      <4> QED
        BY <4>2, <4>3, <4>4, <4>5
    <3> QED
      BY <3>1, <3>2
  <2> QED
    BY <2>5, <2>6
<1>4. CASE \E n \in 0..Capacity : ensure_rows(b, n)
  <2>1. UNCHANGED <<flight, tiles, lost, proof, quiesced>>
    BY <1>4 DEF ensure_rows
  <2>2. \A a \in Buffers :
            stage'[a] \notin {"wait", "unmap"} \/ stage'[a] = stage[a]
    BY <1>4 DEF ensure_rows, Goto, TypeOK
  <2> QED
    BY <2>1, <2>2, KeptWhenSame, CoveredWhenSame
<1>5. CASE \E n \in 0..Capacity : \E p \in Acceptable(b, TilesFor(n)) :
              release_from(b, n, p)
  <2>1. PICK n \in 0..Capacity :
            \E p \in Acceptable(b, TilesFor(n)) : release_from(b, n, p)
    BY <1>5
  <2>2. release_from(b, n, Len(flight[b]))
    BY <2>1 DEF Acceptable
  <2>3. UNCHANGED <<flight, tiles, lost>>
    BY <2>2 DEF release_from
  <2>4. ProofsCover'
    <3>1. CASE /\ proof' = [proof EXCEPT ![b] = Len(flight[b])]
               /\ UNCHANGED <<stage, rows, quiesced>>
      BY <2>3, <3>1 DEF ProofsCover, TypeOK
    <3>2. CASE /\ quiesced' = [quiesced EXCEPT ![b] = Len(flight[b])]
               /\ Goto(b, "wait")
               /\ UNCHANGED <<valid, proof>>
      BY <2>3, <3>2 DEF ProofsCover, Goto, TypeOK
    <3> QED
      BY <2>2, <3>1, <3>2 DEF release_from
  <2> QED
    BY <2>3, <2>4, KeptWhenSame
<1>6. CASE Drop(b)
  <2>1. UNCHANGED <<flight, tiles, lost>>
    BY <1>6 DEF Drop
  <2>2. CASE Goto(b, "none") /\ UNCHANGED <<proof, rows, quiesced, dropping>>
    BY <2>1, <2>2, KeptWhenSame DEF ProofsCover, Goto, TypeOK
  <2>3. CASE Goto(b, "leak") /\ UNCHANGED <<proof, rows, quiesced>>
    BY <2>1, <2>3, KeptWhenSame DEF ProofsCover, Goto, TypeOK
  <2>4. CASE /\ proof[b] # NoProof
             /\ quiesced' = [quiesced EXCEPT ![b] = proof[b]]
             /\ proof' = [proof EXCEPT ![b] = NoProof]
             /\ Goto(b, "wait")
    BY <2>1, <2>4, KeptWhenSame DEF ProofsCover, Goto, TypeOK
  <2> QED
    BY <1>6, <2>2, <2>3, <2>4 DEF Drop
<1> QED
  BY <1>1, <1>2, <1>3, <1>4, <1>5, <1>6 DEF Owner

LEMMA StepKeeps ==
    ASSUME UseInv, NEW b \in Buffers, Step(b)
    PROVE  ProofsCover' /\ InUseKept'
<1> USE DEF UseInv, TypeInv
<1>1. CASE TakeTile(b) \/ AddHeap(b) \/ DrainHeap(b)
  BY <1>1, KeptWhenSame, CoveredWhenSame DEF TakeTile, AddHeap, DrainHeap, call
<1>2. CASE RefuseHeap(b)
  BY <1>2, KeptWhenSame, CoveredWhenSame DEF RefuseHeap, Goto, call, TypeOK
<1>3. CASE MapTiles(b)
  <2>1. ProofsCover' /\ UNCHANGED flight
    BY <1>3, CoveredWhenEnded DEF MapTiles
  <2>2. /\ tiles[b] \o taken \in Seq(Tiles)
        /\ Range(tiles[b]) \subseteq Range(tiles[b] \o taken)
    BY RangeConcat DEF TypeOK
  <2>3. CASE /\ tiles' = [tiles EXCEPT ![b] = @ \o taken]
             /\ UNCHANGED <<lost, poisoned>>
    <3>1. \A a \in Buffers : Range(tiles[a]) \subseteq Range(tiles'[a])
      BY <2>2, <2>3 DEF TypeOK
    <3> QED
      BY <2>1, <2>3, <3>1, KeptWhenOwned
  <2>4. CASE Poison(b, tiles[b] \o taken)
    BY <2>1, <2>2, <2>4, KeptWhenPoisoned
  <2> QED
    BY <1>3, <2>1, <2>3, <2>4 DEF MapTiles
<1>4. CASE Proven(b)
  <2>1. flight[b] \in Seq(SUBSET Tiles) /\ Len(flight[b]) = 0
    BY <1>4 DEF Proven, ProofsCover, TypeOK
  <2>2. flight[b] = <<>>
    BY <2>1, EmptySeq
  <2>3. ProofsCover'
    BY <1>4, <2>1, <2>2 DEF Proven, ProofsCover, Goto, call, TypeOK
  <2> QED
    BY <1>4, <2>3, KeptWhenSame DEF Proven
<1>5. CASE Unproven(b)
  BY <1>5, KeptWhenSame DEF Unproven, ProofsCover, Goto, call, TypeOK
<1>6. CASE Expire(b)
  <2>1. ProofsCover' /\ UNCHANGED flight
    BY <1>6, CoveredWhenEnded DEF Expire
  <2>2. CASE Poison(b, tiles[b])
    <3>1. tiles[b] \in Seq(Tiles)
      BY DEF TypeOK
    <3> QED
      BY <2>1, <2>2, <3>1, KeptWhenPoisoned
  <2>3. CASE UNCHANGED <<poisoned, lost, tiles>>
    BY <2>1, <2>3, KeptWhenSame
  <2> QED
    BY <1>6, <2>1, <2>2, <2>3 DEF Expire
<1>7. CASE Unmap(b)
  <2>1. UNCHANGED <<flight, proof>> /\ flight[b] = <<>>
    BY <1>7 DEF Unmap, ProofsCover
  <2>2. CASE /\ tiles' = [tiles EXCEPT ![b] = SubSeq(@, 1, TilesFor(rows[b]))]
             /\ Goto(b, "drain")
             /\ UNCHANGED <<poisoned, lost, call>>
    <3>1. \A a \in Buffers : a # b => tiles'[a] = tiles[a]
      BY <2>2 DEF TypeOK
    <3>2. InUseKept'
      BY <2>1, <2>2, <3>1, KeptWhenOwned
    <3>3. ProofsCover'
      BY <2>1, <2>2, CoveredWhenSame DEF Goto, call, TypeOK
    <3> QED
      BY <3>2, <3>3
  <2>3. CASE Poison(b, tiles[b]) /\ Failed(b)
    <3>1. tiles[b] \in Seq(Tiles)
      BY DEF TypeOK
    <3> QED
      BY <2>1, <2>3, <3>1, KeptWhenPoisoned, CoveredWhenEnded
  <2> QED
    BY <1>7, <2>2, <2>3 DEF Unmap
<1>8. CASE UnmapRefused(b)
  BY <1>8, KeptWhenSame, CoveredWhenEnded DEF UnmapRefused
<1>9. CASE DrainEnd(b)
  BY <1>9, KeptWhenSame, CoveredWhenEnded DEF DrainEnd
<1>10. CASE Leak(b)
  <2>1. /\ lost' = lost \cup Range(tiles[b])
        /\ \A a \in Buffers : a # b => tiles'[a] = tiles[a]
        /\ Return(b) /\ UNCHANGED <<flight, proof>>
    BY <1>10 DEF Leak, TypeOK
  <2> QED
    BY <2>1, KeptWhenOwned, CoveredWhenEnded
<1> QED
  BY <1>1, <1>2, <1>3, <1>4, <1>5, <1>6, <1>7, <1>8, <1>9, <1>10 DEF Step

\* Commands that end move the proofs with them.
LEMMA CompleteKeeps ==
    ASSUME UseInv, NEW b \in Buffers, Complete(b)
    PROVE  ProofsCover' /\ InUseKept'
<1> USE DEF UseInv, TypeInv
<1>1. /\ Len(Tail(flight[b])) = Len(flight[b]) - 1
      /\ Len(flight[b]) \in Nat \ {0}
      /\ \A i \in DOMAIN Tail(flight[b]) :
            i + 1 \in DOMAIN flight[b] /\ Tail(flight[b])[i] = flight[b][i + 1]
  BY TailEntries DEF Complete, TypeOK
<1>2. /\ flight' = [flight EXCEPT ![b] = Tail(flight[b])]
      /\ proof' = [proof EXCEPT ![b] = Sooner(proof[b])]
      /\ quiesced' = [quiesced EXCEPT ![b] = Sooner(quiesced[b])]
      /\ flight[b] # <<>>
      /\ UNCHANGED <<tiles, lost, stage>>
  BY DEF Complete
<1>3. ProofsCover'
  <2>1. /\ Sooner(Len(flight[b])) = Len(Tail(flight[b]))
        /\ Sooner(NoProof) = NoProof
    BY <1>1 DEF Sooner, NoProof
  <2> QED
    BY <1>2, <2>1 DEF ProofsCover, TypeOK
<1>4. InUseKept'
  <2> SUFFICES ASSUME NEW a \in Buffers, NEW i \in DOMAIN flight'[a]
               PROVE  flight'[a][i] \subseteq Range(tiles[a]) \cup lost
    BY <1>2 DEF InUseKept, Owned
  <2>1. CASE a = b
    BY <1>1, <1>2, <2>1 DEF InUseKept, Owned, TypeOK
  <2>2. CASE a # b
    BY <1>2, <2>2 DEF InUseKept, Owned, TypeOK
  <2> QED
    BY <2>1, <2>2
<1> QED
  BY <1>3, <1>4

\* A proof behind all commands of its buffer protects every tile in use: over
\* expired proofs, failed unmaps, drops and a poisoned lock, none is unmapped
\* or recycled under a command.
THEOREM UseProtected ==
    ASSUME ~TileProofs
    PROVE  Spec => []InUseKept
<1>1. Init => UseInv
  <2>1. ASSUME Init PROVE ProofsCover /\ InUseKept
    BY <2>1 DEF Init, ProofsCover, InUseKept
  <2> QED
    BY <2>1, InitTyped DEF UseInv
<1>2. UseInv /\ [Next]_vars => UseInv'
  <2> SUFFICES ASSUME UseInv, [Next]_vars
               PROVE  UseInv'
    OBVIOUS
  <2>1. TypeInv'
    BY OwnerTyped, GrowTyped, ReleaseTyped, OthersTyped
       DEF UseInv, Next, Step, Terminated
  <2>2. CASE PoisonMutex \/ DropPool \/ Terminated \/ UNCHANGED vars
    <3>1. UNCHANGED <<flight, proof, stage, quiesced, tiles, lost>>
      BY <2>2 DEF PoisonMutex, DropPool, Terminated, bufferVars, call, vars
    <3> QED
      BY <2>1, <3>1, KeptWhenSame, CoveredWhenSame DEF UseInv, TypeInv
  <2>3. CASE \E b \in Buffers : Owner(b) \/ Step(b) \/ Complete(b)
    BY <2>1, <2>3, OwnerKeeps, StepKeeps, CompleteKeeps DEF UseInv
  <2> QED
    BY <2>2, <2>3 DEF Next
<1>3. UseInv => InUseKept
  BY DEF UseInv
<1> QED
  BY <1>1, <1>2, <1>3, PTL DEF Spec

-----------------------------------------------------------------------------
(* The ledger is exact. *)

\* What a buffer holds at each stage of its drop, and the lock's holder.
DropShape ==
    /\ \A b \in Buffers :
          /\ stage[b] = "none" => tiles[b] = <<>>
          /\ dropping[b] => stage[b] \notin {"idle", "grow"}
          /\ dropping[b] /\ stage[b] \in {"wait", "unmap"} => rows[b] = 0
          /\ dropping[b] /\ stage[b] = "drain" => tiles[b] = <<>>
    /\ taken # <<>> => \E b \in Buffers : stage[b] = "grow"

LedgerInv == TypeInv /\ DropShape /\ LedgerExact

LEMMA TileOfHeap ==
    ASSUME NEW t \in Tiles
    PROVE  /\ t[1] \in Slots
           /\ \A s \in Slots : t \in HeapTiles(s) <=> t[1] = s
BY DEF Tiles, HeapTiles

LEMMA Counted ==
    ASSUME NEW s \in Slots, NEW X
    PROVE  /\ IsFiniteSet(HeapTiles(s) \ X)
           /\ Cardinality(HeapTiles(s) \ X) \in Nat
<1>1. IsFiniteSet(HeapTiles(s)) /\ HeapTiles(s) \ X \subseteq HeapTiles(s)
  BY HeapTilesFinite
<1> QED
  BY <1>1, FS_Subset, FS_CardinalityType

\* Steps that leave the ledger and the owners alone.
LEMMA ExactWhenSame ==
    ASSUME LedgerExact, UNCHANGED <<heaps, free, used, lost, taken, tiles>>
    PROVE  LedgerExact'
<1>1. TilesConserved'
  BY DEF LedgerExact, TilesConserved, Present, Owned
<1>2. UsedExact'
  BY DEF LedgerExact, UsedExact
<1> QED
  BY <1>1, <1>2 DEF LedgerExact

\* Steps that move tiles between owners, and none to or from the free lists.
LEMMA UsedWhenSame ==
    ASSUME UsedExact, UNCHANGED <<heaps, free, used>>
    PROVE  UsedExact'
BY DEF UsedExact

LEMMA RecycledCounted ==
    ASSUME TypeOK, UsedExact, NEW back \in SUBSET Tiles, back \cap free = {},
           Recycle(back), UNCHANGED heaps
    PROVE  UsedExact'
<1> SUFFICES ASSUME NEW s \in heaps
             PROVE  used'[s] = Cardinality(HeapTiles(s) \ free')
  BY DEF UsedExact
<1>1. s \in Slots
  BY DEF TypeOK
<1>2. /\ used'[s] = used[s] - Cardinality(back \cap HeapTiles(s))
      /\ free' = free \cup back
  BY <1>1 DEF Recycle
<1>3. used[s] = Cardinality(HeapTiles(s) \ free)
  BY DEF UsedExact
<1> DEFINE held == HeapTiles(s) \ free
           gone == back \cap HeapTiles(s)
<1>4. HeapTiles(s) \ free' = held \ gone /\ held \cap gone = gone
  BY <1>2
<1>5. IsFiniteSet(held) /\ IsFiniteSet(gone)
  BY <1>1, Counted, HeapTilesFinite, FS_Subset
<1> HIDE DEF held, gone
<1>6. Cardinality(held \ gone) = Cardinality(held) - Cardinality(held \cap gone)
  BY <1>5, FS_Difference
<1> QED
  BY <1>2, <1>3, <1>4, <1>6 DEF held, gone

Mine == UNION {Range(tiles[b]) : b \in Buffers}

\* Conservation, where the tiles of all buffers are one set.
LEMMA ConservedAsSets ==
    TilesConserved <=>
        /\ Present = free \cup lost \cup Range(taken) \cup Mine
        /\ free \cap lost = {} /\ (free \cup lost) \cap Range(taken) = {}
        /\ Mine \cap (free \cup lost \cup Range(taken)) = {}
        /\ \A a, b \in Buffers : a # b => Range(tiles[a]) \cap Range(tiles[b]) = {}
<1>1. UNION {Owned(b) : b \in Buffers} = Mine
  BY DEF Owned, Mine
<1>2. (\A b \in Buffers : Owned(b) \cap (free \cup lost \cup Range(taken)) = {})
      <=> Mine \cap (free \cup lost \cup Range(taken)) = {}
  BY DEF Owned, Mine
<1> QED
  BY <1>1, <1>2 DEF TilesConserved, Owned

LEMMA ConservedNext ==
    (/\ Present' = free' \cup lost' \cup Range(taken') \cup Mine'
     /\ free' \cap lost' = {} /\ (free' \cup lost') \cap Range(taken') = {}
     /\ Mine' \cap (free' \cup lost' \cup Range(taken')) = {}
     /\ \A a, b \in Buffers : a # b => Range(tiles'[a]) \cap Range(tiles'[b]) = {})
    => TilesConserved'
<1>1. UNION {Range(tiles'[b]) : b \in Buffers} = Mine'
  BY DEF Mine
<1>2. (\A b \in Buffers :
          Range(tiles'[b]) \cap (free' \cup lost' \cup Range(taken')) = {})
      <=> Mine' \cap (free' \cup lost' \cup Range(taken')) = {}
  BY DEF Mine
<1> QED
  BY <1>1, <1>2 DEF TilesConserved, Owned

\* One buffer gets other tiles, which no buffer has.
LEMMA OneChanges ==
    ASSUME TypeOK, NEW b \in Buffers, NEW u,
           tiles' = [tiles EXCEPT ![b] = u],
           \A a, c \in Buffers : a # c => Range(tiles[a]) \cap Range(tiles[c]) = {},
           Range(u) \cap (Mine \ Range(tiles[b])) = {}
    PROVE  /\ Mine' = (Mine \ Range(tiles[b])) \cup Range(u)
           /\ \A a, c \in Buffers :
                 a # c => Range(tiles'[a]) \cap Range(tiles'[c]) = {}
<1>1. tiles'[b] = u /\ \A a \in Buffers : a # b => tiles'[a] = tiles[a]
  BY DEF TypeOK
<1>2. \A a \in Buffers : a # b => /\ Range(tiles[a]) \cap Range(tiles[b]) = {}
                                  /\ Range(tiles[a]) \subseteq Mine
  BY DEF Mine
<1>3. Mine' \subseteq (Mine \ Range(tiles[b])) \cup Range(u)
  <2> SUFFICES ASSUME NEW a \in Buffers, NEW t \in Range(tiles'[a])
               PROVE  t \in (Mine \ Range(tiles[b])) \cup Range(u)
    BY DEF Mine
  <2>1. CASE a = b
    BY <1>1, <2>1
  <2>2. CASE a # b
    BY <1>1, <1>2, <2>2
  <2> QED
    BY <2>1, <2>2
<1>4. Range(u) \subseteq Mine'
  BY <1>1 DEF Mine
<1>5. Mine \ Range(tiles[b]) \subseteq Mine'
  <2> SUFFICES ASSUME NEW t \in Mine, t \notin Range(tiles[b])
               PROVE  t \in Mine'
    OBVIOUS
  <2>1. PICK a \in Buffers : t \in Range(tiles[a])
    BY DEF Mine
  <2>2. t \in Range(tiles'[a])
    BY <1>1, <2>1
  <2> QED
    BY <2>2 DEF Mine
<1>6. ASSUME NEW a \in Buffers, NEW c \in Buffers, a # c
      PROVE  Range(tiles'[a]) \cap Range(tiles'[c]) = {}
  <2>1. CASE a = b
    BY <1>1, <1>2, <1>6, <2>1
  <2>2. CASE c = b
    BY <1>1, <1>2, <1>6, <2>2
  <2>3. CASE a # b /\ c # b
    BY <1>1, <1>6, <2>3
  <2> QED
    BY <2>1, <2>2, <2>3
<1> QED
  BY <1>3, <1>4, <1>5, <1>6

\* A buffer loses all its tiles, with those just taken for it or without.
LEMMA LostConserved ==
    ASSUME TypeOK, TilesConserved, NEW b \in Buffers,
           NEW u \in Seq(Tiles),
           \/ Range(u) = Range(tiles[b]) /\ UNCHANGED taken
           \/ Range(u) = Range(tiles[b]) \cup Range(taken) /\ taken' = <<>>,
           lost' = lost \cup Range(u),
           tiles' = [tiles EXCEPT ![b] = <<>>],
           UNCHANGED <<heaps, free>>
    PROVE  TilesConserved'
<1>1. /\ Mine' = Mine \ Range(tiles[b])
      /\ \A a, c \in Buffers : a # c => Range(tiles'[a]) \cap Range(tiles'[c]) = {}
  BY OneChanges, ConservedAsSets, RangeEmpty
<1>2. Range(tiles[b]) \subseteq Mine
  BY DEF Mine
<1>3. Present' = Present
  BY DEF Present
<1>4. \/ Range(u) = Range(tiles[b]) /\ Range(taken') = Range(taken)
      \/ Range(u) = Range(tiles[b]) \cup Range(taken) /\ Range(taken') = {}
  BY RangeEmpty
<1> QED
  BY <1>1, <1>2, <1>3, <1>4, ConservedAsSets, ConservedNext

LEMMA PoisonExact ==
    ASSUME TypeOK, LedgerExact, NEW b \in Buffers, Poison(b, tiles[b]),
           UNCHANGED <<heaps, free, used, taken>>
    PROVE  LedgerExact'
<1>1. tiles[b] \in Seq(Tiles)
  BY DEF TypeOK
<1>2. lost' = lost \cup Range(tiles[b]) /\ tiles' = [tiles EXCEPT ![b] = <<>>]
  BY DEF Poison
<1> QED
  BY <1>1, <1>2, LostConserved, UsedWhenSame DEF LedgerExact

LEMMA TakeExact ==
    ASSUME TypeOK, LedgerExact, NEW b \in Buffers, TakeTile(b)
    PROVE  LedgerExact'
<1>1. PICK t \in free :
          /\ free' = free \ {t}
          /\ used' = [used EXCEPT ![t[1]] = @ + 1]
          /\ taken' = Append(taken, t)
  BY DEF TakeTile
<1>2. UNCHANGED <<heaps, lost, tiles>>
  BY DEF TakeTile
<1>3. t \in Tiles /\ t[1] \in Slots
  BY TileOfHeap DEF TypeOK
<1>4. Range(taken') = Range(taken) \cup {t}
  BY <1>1, <1>3, RangeAppend DEF TypeOK
<1>5. TilesConserved'
  <2>1. Mine' = Mine /\ Present' = Present
    BY <1>2 DEF Mine, Present
  <2> QED
    BY <1>1, <1>2, <1>4, <2>1, ConservedAsSets, ConservedNext DEF LedgerExact
<1>6. UsedExact'
  <2> SUFFICES ASSUME NEW s \in heaps
               PROVE  used'[s] = Cardinality(HeapTiles(s) \ free')
    BY <1>2 DEF UsedExact
  <2>1. s \in Slots /\ used[s] = Cardinality(HeapTiles(s) \ free)
    BY DEF LedgerExact, UsedExact, TypeOK
  <2>2. CASE t[1] = s
    <3>1. HeapTiles(s) \ free' = (HeapTiles(s) \ free) \cup {t}
      BY <1>1, <1>3, <2>1, <2>2, TileOfHeap
    <3>2. t \notin HeapTiles(s) \ free
      OBVIOUS
    <3>3. Cardinality((HeapTiles(s) \ free) \cup {t})
              = Cardinality(HeapTiles(s) \ free) + 1
      BY <2>1, <3>2, Counted, FS_AddElement
    <3>4. used'[s] = used[s] + 1
      BY <1>1, <2>1, <2>2 DEF TypeOK
    <3> QED
      BY <2>1, <3>1, <3>3, <3>4
  <2>3. CASE t[1] # s
    <3>1. HeapTiles(s) \ free' = HeapTiles(s) \ free
      BY <1>1, <1>3, <2>1, <2>3, TileOfHeap
    <3>2. used'[s] = used[s]
      BY <1>1, <1>3, <2>1, <2>3 DEF TypeOK
    <3> QED
      BY <2>1, <3>1, <3>2
  <2> QED
    BY <2>2, <2>3
<1> QED
  BY <1>5, <1>6 DEF LedgerExact

LEMMA AddExact ==
    ASSUME TypeOK, LedgerExact, NEW b \in Buffers, AddHeap(b)
    PROVE  LedgerExact'
<1>1. PICK s \in Slots \ heaps :
          /\ heaps' = heaps \cup {s}
          /\ free' = HeapTiles(s)
          /\ used' = [used EXCEPT ![s] = 0]
  BY DEF AddHeap
<1>2. free = {} /\ UNCHANGED <<lost, taken, tiles>>
  BY DEF AddHeap
<1>3. Present' = Present \cup HeapTiles(s) /\ Present \cap HeapTiles(s) = {}
  BY <1>1, TileOfHeap, HeapTilesFinite DEF Present
<1>4. TilesConserved'
  <2>1. Mine' = Mine
    BY <1>2 DEF Mine
  <2> QED
    BY <1>1, <1>2, <1>3, <2>1, ConservedAsSets, ConservedNext DEF LedgerExact
<1>5. UsedExact'
  <2> SUFFICES ASSUME NEW r \in heaps'
               PROVE  used'[r] = Cardinality(HeapTiles(r) \ free')
    BY DEF UsedExact
  <2>1. CASE r = s
    <3>1. HeapTiles(r) \ free' = {} /\ used'[r] = 0
      BY <1>1, <2>1 DEF TypeOK
    <3> QED
      BY <3>1, FS_EmptySet
  <2>2. CASE r # s
    <3>1. r \in heaps /\ r \in Slots
      BY <1>1, <2>2 DEF TypeOK
    <3>2. HeapTiles(r) \ free' = HeapTiles(r) \ free
      BY <1>1, <1>2, <2>2, <3>1, TileOfHeap, HeapTilesFinite
    <3>3. used'[r] = used[r]
      BY <1>1, <2>2, <3>1 DEF TypeOK
    <3> QED
      BY <3>1, <3>2, <3>3 DEF LedgerExact, UsedExact
  <2> QED
    BY <2>1, <2>2
<1> QED
  BY <1>4, <1>5 DEF LedgerExact

LEMMA RefuseExact ==
    ASSUME TypeOK, LedgerExact, NEW b \in Buffers, RefuseHeap(b)
    PROVE  LedgerExact'
<1>1. /\ Recycle(Range(taken)) /\ taken' = <<>>
      /\ UNCHANGED <<heaps, lost, tiles>>
      /\ free' = free \cup Range(taken)
  BY DEF RefuseHeap, Recycle
<1>2. Range(taken) \in SUBSET Tiles
  BY RangeOfSeq DEF TypeOK
<1>3. Mine' = Mine /\ Present' = Present /\ Range(taken') = {}
  BY <1>1, RangeEmpty DEF Mine, Present
<1>4. TilesConserved'
  BY <1>1, <1>3, ConservedAsSets, ConservedNext DEF LedgerExact
<1>5. UsedExact'
  BY <1>1, <1>2, RecycledCounted, ConservedAsSets DEF LedgerExact
<1> QED
  BY <1>4, <1>5 DEF LedgerExact

LEMMA MapExact ==
    ASSUME TypeOK, LedgerExact, NEW b \in Buffers, MapTiles(b)
    PROVE  LedgerExact'
<1>1. taken' = <<>> /\ UNCHANGED <<heaps, free, used>>
  BY DEF MapTiles, ledger
<1>2. /\ tiles[b] \o taken \in Seq(Tiles)
      /\ Range(tiles[b] \o taken) = Range(tiles[b]) \cup Range(taken)
  BY RangeConcat DEF TypeOK
<1>3. TilesConserved'
  <2>1. CASE tiles' = [tiles EXCEPT ![b] = tiles[b] \o taken] /\ UNCHANGED lost
    <3>1. Range(tiles[b]) \subseteq Mine /\ Mine \cap Range(taken) = {}
      BY ConservedAsSets DEF Mine, LedgerExact
    <3>2. /\ \A a, c \in Buffers : a # c => Range(tiles[a]) \cap Range(tiles[c]) = {}
          /\ (Range(tiles[b]) \cup Range(taken)) \cap (Mine \ Range(tiles[b])) = {}
      BY <3>1, ConservedAsSets DEF LedgerExact
    <3>3. /\ Mine' = Mine \cup Range(taken)
          /\ \A a, c \in Buffers :
                a # c => Range(tiles'[a]) \cap Range(tiles'[c]) = {}
      <4> DEFINE u == tiles[b] \o taken
      <4>1. /\ Range(u) = Range(tiles[b]) \cup Range(taken)
            /\ tiles' = [tiles EXCEPT ![b] = u]
        BY <1>2, <2>1
      <4> HIDE DEF u
      <4>2. Range(u) \cap (Mine \ Range(tiles[b])) = {}
        BY <3>2, <4>1
      <4>3. /\ Mine' = (Mine \ Range(tiles[b])) \cup Range(u)
            /\ \A a, c \in Buffers :
                  a # c => Range(tiles'[a]) \cap Range(tiles'[c]) = {}
        BY <3>2, <4>1, <4>2, OneChanges
      <4> QED
        BY <3>1, <4>1, <4>3
    <3>4. Present' = Present /\ Range(taken') = {}
      BY <1>1, RangeEmpty DEF Present
    <3> QED
      BY <1>1, <2>1, <3>3, <3>4, ConservedAsSets, ConservedNext DEF LedgerExact
  <2>2. CASE Poison(b, tiles[b] \o taken)
    BY <1>1, <1>2, <2>2, LostConserved DEF Poison, LedgerExact
  <2> QED
    BY <2>1, <2>2 DEF MapTiles
<1> QED
  BY <1>1, <1>3, UsedWhenSame DEF LedgerExact

LEMMA UnmapExact ==
    ASSUME TypeInv, LedgerExact, NEW b \in Buffers, Unmap(b)
    PROVE  LedgerExact'
<1> USE DEF TypeInv
<1>1. UNCHANGED <<heaps, taken>>
  BY DEF Unmap
<1> DEFINE keep == TilesFor(rows[b])
           back == Range(tiles[b]) \ FirstTiles(b, keep)
<1>2. CASE /\ tiles' = [tiles EXCEPT ![b] = SubSeq(tiles[b], 1, keep)]
           /\ Recycle(back)
           /\ UNCHANGED lost
  <2>1. tiles[b] \in Seq(Tiles) /\ keep \in Int /\ keep <= Len(tiles[b])
    BY TilesForInt, SizesAssumption DEF TypeOK, KeepFits, Unmap
  <2>2. Range(SubSeq(tiles[b], 1, keep)) = FirstTiles(b, keep)
    BY <2>1, RangePrefix DEF FirstTiles
  <2>3. /\ FirstTiles(b, keep) \subseteq Range(tiles[b])
        /\ Range(tiles[b]) \subseteq Mine
        /\ Range(tiles[b]) \in SUBSET Tiles
    BY <2>1, RangeOfSeq DEF FirstTiles, Range, Mine
  <2> HIDE DEF keep, back
  <2>4. back = Range(tiles[b]) \ FirstTiles(b, keep)
    BY DEF back
  <2>5. /\ \A a, c \in Buffers : a # c => Range(tiles[a]) \cap Range(tiles[c]) = {}
        /\ FirstTiles(b, keep) \cap (Mine \ Range(tiles[b])) = {}
    BY <2>3, ConservedAsSets DEF LedgerExact
  <2>6. /\ Mine' = (Mine \ Range(tiles[b])) \cup FirstTiles(b, keep)
        /\ \A a, c \in Buffers :
              a # c => Range(tiles'[a]) \cap Range(tiles'[c]) = {}
    BY <1>2, <2>2, <2>5, OneChanges
  <2>7. free' = free \cup back /\ Present' = Present
    BY <1>1, <1>2 DEF Recycle, Present
  <2>8. TilesConserved'
    BY <1>1, <1>2, <2>3, <2>4, <2>6, <2>7, ConservedAsSets, ConservedNext
       DEF LedgerExact
  <2>9. back \in SUBSET Tiles /\ back \cap free = {}
    BY <2>3, <2>4, ConservedAsSets DEF LedgerExact
  <2>10. UsedExact'
    BY <1>1, <1>2, <2>9, RecycledCounted DEF LedgerExact
  <2> QED
    BY <2>8, <2>10 DEF LedgerExact
<1>3. CASE Poison(b, tiles[b]) /\ UNCHANGED <<free, used>>
  BY <1>1, <1>3, PoisonExact
<1> QED
  BY <1>2, <1>3 DEF Unmap

LEMMA DrainExact ==
    ASSUME TypeOK, LedgerExact, NEW b \in Buffers, DrainHeap(b)
    PROVE  LedgerExact'
<1>1. PICK s \in Slots :
          Empty(s) /\ heaps' = heaps \ {s} /\ free' = free \ HeapTiles(s)
  BY DEF DrainHeap
<1>2. UNCHANGED <<used, lost, taken, tiles>>
  BY DEF DrainHeap
<1>3. HeapTiles(s) \subseteq free
  <2>1. Cardinality(HeapTiles(s) \ free) = 0
    BY <1>1 DEF Empty, LedgerExact, UsedExact
  <2>2. HeapTiles(s) \ free = {}
    BY <2>1, Counted, FS_EmptySet
  <2> QED
    BY <2>2
<1>4. Present' = Present \ HeapTiles(s)
  BY <1>1, TileOfHeap DEF Present
<1>5. TilesConserved'
  <2>1. Mine' = Mine
    BY <1>2 DEF Mine
  <2> QED
    BY <1>1, <1>2, <1>3, <1>4, <2>1, ConservedAsSets, ConservedNext DEF LedgerExact
<1>6. UsedExact'
  <2> SUFFICES ASSUME NEW r \in heaps'
               PROVE  used[r] = Cardinality(HeapTiles(r) \ free')
    BY <1>2 DEF UsedExact
  <2>1. r \in heaps /\ r # s /\ r \in Slots
    BY <1>1 DEF TypeOK
  <2>2. HeapTiles(r) \ free' = HeapTiles(r) \ free
    BY <1>1, <2>1, TileOfHeap, HeapTilesFinite
  <2> QED
    BY <2>1, <2>2 DEF LedgerExact, UsedExact
<1> QED
  BY <1>5, <1>6 DEF LedgerExact

LEMMA LeakExact ==
    ASSUME TypeOK, LedgerExact, NEW b \in Buffers, Leak(b)
    PROVE  LedgerExact'
<1>1. /\ lost' = lost \cup Range(tiles[b])
      /\ tiles' = [tiles EXCEPT ![b] = <<>>]
      /\ UNCHANGED <<heaps, free, used, taken>>
      /\ tiles[b] \in Seq(Tiles)
  BY DEF Leak, ledger, TypeOK
<1> QED
  BY <1>1, LostConserved, UsedWhenSame DEF LedgerExact

\* The pool goes with the last buffer: what is left of it is lost or free.
LEMMA DropPoolExact ==
    ASSUME TypeOK, LedgerExact, DropShape, DropPool
    PROVE  LedgerExact'
<1>1. /\ heaps' = {s \in heaps : lost \cap HeapTiles(s) # {}}
      /\ free' = {t \in free : t[1] \in heaps'}
      /\ UNCHANGED <<used, lost, taken, tiles>>
      /\ \A b \in Buffers : stage[b] = "none"
  BY DEF DropPool, bufferVars
<1>2. taken = <<>> /\ \A b \in Buffers : tiles[b] = <<>>
  BY <1>1 DEF DropShape
<1>3. Mine = {} /\ Mine' = {} /\ Range(taken) = {}
  BY <1>1, <1>2, RangeEmpty DEF Mine
<1>4. Present = free \cup lost /\ free \cap lost = {}
  BY <1>3, ConservedAsSets DEF LedgerExact
<1>5. lost \subseteq Tiles /\ free \subseteq Tiles
  BY DEF TypeOK
<1>6. \A t \in lost : t[1] \in heaps'
  <2> SUFFICES ASSUME NEW t \in lost
               PROVE  t[1] \in heaps /\ t \in HeapTiles(t[1])
    BY <1>1
  <2>1. t \in Present /\ t \in Tiles
    BY <1>4, <1>5
  <2> QED
    BY <2>1, TileOfHeap DEF Present
<1>7. Present' = free' \cup lost
  BY <1>1, <1>4, <1>5, <1>6 DEF Present
<1>8. TilesConserved'
  BY <1>1, <1>3, <1>4, <1>7, ConservedAsSets, ConservedNext DEF LedgerExact
<1>9. UsedExact'
  <2> SUFFICES ASSUME NEW s \in heaps'
               PROVE  used[s] = Cardinality(HeapTiles(s) \ free')
    BY <1>1 DEF UsedExact
  <2>1. s \in heaps /\ s \in Slots
    BY <1>1 DEF TypeOK
  <2>2. HeapTiles(s) \ free' = HeapTiles(s) \ free
    BY <1>1, <1>5, <2>1, TileOfHeap
  <2> QED
    BY <2>1, <2>2 DEF LedgerExact, UsedExact
<1> QED
  BY <1>8, <1>9 DEF LedgerExact

\* The shape of a drop, step by step.
LEMMA ShapeWhenSame ==
    ASSUME DropShape, UNCHANGED <<tiles, taken, rows, dropping, stage>>
    PROVE  DropShape'
BY DEF DropShape

LEMMA OwnerShape ==
    ASSUME TypeOK, DropShape, NEW b \in Buffers, Owner(b)
    PROVE  DropShape'
<1>1. UNCHANGED <<tiles, taken>>
  BY DEF Owner, new_buffer, set_valid_rows, Use, ensure_rows, release_from, Drop
<1>2. stage[b] # "grow" /\ \A a \in Buffers : a # b => /\ stage'[a] = stage[a]
                                                     /\ rows'[a] = rows[a]
                                                     /\ dropping'[a] = dropping[a]
  BY DEF Owner, new_buffer, set_valid_rows, Use, ensure_rows, release_from, Drop,
         Goto, call, TypeOK
<1>3. taken' # <<>> => \E a \in Buffers : stage'[a] = "grow"
  BY <1>1, <1>2 DEF DropShape
<1>4. /\ stage'[b] = "none" => tiles[b] = <<>>
      /\ dropping'[b] => stage'[b] \notin {"idle", "grow"}
      /\ dropping'[b] /\ stage'[b] \in {"wait", "unmap"} => rows'[b] = 0
      /\ dropping'[b] /\ stage'[b] = "drain" => tiles[b] = <<>>
  <2>1. CASE new_buffer(b)
    BY <2>1 DEF new_buffer, Goto, TypeOK
  <2>2. CASE \E n \in 0..Capacity : set_valid_rows(b, n) \/ Use(b, n)
    BY <2>2 DEF set_valid_rows, Use, call, DropShape
  <2>3. CASE \E n \in 0..Capacity :
                \/ ensure_rows(b, n)
                \/ \E p \in Acceptable(b, TilesFor(n)) : release_from(b, n, p)
    BY <2>3 DEF ensure_rows, release_from, Goto, DropShape, TypeOK
  <2>4. CASE Drop(b)
    BY <2>4 DEF Drop, Goto, DropShape, TypeOK
  <2> QED
    BY <2>1, <2>2, <2>3, <2>4 DEF Owner
<1> QED
  BY <1>1, <1>2, <1>3, <1>4 DEF DropShape

\* A step that ends a call, or hands a drop that failed to `leak`.
LEMMA EndShape ==
    ASSUME TypeOK, DropShape, NEW b \in Buffers, Return(b) \/ Failed(b),
           \A a \in Buffers : a # b => tiles'[a] = tiles[a],
           \/ taken' = <<>>
           \/ UNCHANGED taken /\ stage[b] # "grow",
           Return(b) /\ dropping[b] => tiles'[b] = <<>>
    PROVE  DropShape'
<1>1. /\ \A a \in Buffers : a # b => /\ stage'[a] = stage[a]
                                     /\ rows'[a] = rows[a]
                                     /\ dropping'[a] = dropping[a]
      /\ dropping'[b] = dropping[b]
      /\ \/ stage'[b] = "idle" /\ ~dropping[b]
         \/ stage'[b] = "none" /\ Return(b) /\ dropping[b]
         \/ stage'[b] = "leak"
  BY DEF Return, Failed, Goto, call, TypeOK
<1>2. taken' # <<>> => \E a \in Buffers : stage'[a] = "grow"
  BY <1>1 DEF DropShape
<1> QED
  BY <1>1, <1>2 DEF DropShape

LEMMA GrowShape ==
    ASSUME TypeOK, DropShape, NEW b \in Buffers,
           TakeTile(b) \/ AddHeap(b) \/ RefuseHeap(b) \/ MapTiles(b)
    PROVE  DropShape'
<1>1. stage[b] = "grow" /\ ~dropping[b]
  BY DEF TakeTile, AddHeap, RefuseHeap, MapTiles, Growing, DropShape
<1>2. CASE TakeTile(b) \/ AddHeap(b)
  BY <1>1, <1>2 DEF TakeTile, AddHeap, call, DropShape
<1>3. CASE RefuseHeap(b)
  BY <1>1, <1>3 DEF RefuseHeap, Goto, call, DropShape, TypeOK
<1>4. CASE MapTiles(b)
  <2>1. /\ Return(b) /\ taken' = <<>>
        /\ \A a \in Buffers : a # b => tiles'[a] = tiles[a]
    BY <1>4 DEF MapTiles, Poison, TypeOK
  <2> QED
    BY <1>1, <2>1, EndShape
<1> QED
  BY <1>2, <1>3, <1>4

LEMMA StepShape ==
    ASSUME TypeInv, DropShape, NEW b \in Buffers, Step(b)
    PROVE  DropShape'
<1> USE DEF TypeInv
<1>1. CASE TakeTile(b) \/ AddHeap(b) \/ RefuseHeap(b) \/ MapTiles(b)
  BY <1>1, GrowShape
<1>2. CASE Proven(b) \/ Unproven(b)
  BY <1>2 DEF Proven, Unproven, Goto, call, DropShape, TypeOK
<1>3. CASE Expire(b)
  <2>1. /\ Failed(b) /\ stage[b] = "expired" /\ UNCHANGED taken
        /\ \A a \in Buffers : a # b => tiles'[a] = tiles[a]
    BY <1>3 DEF Expire, Poison, TypeOK
  <2>2. Return(b) /\ dropping[b] => FALSE
    BY <2>1 DEF Failed, Return, Goto, TypeOK
  <2> QED
    BY <2>1, <2>2, EndShape
<1>4. CASE Unmap(b)
  <2> DEFINE keep == TilesFor(rows[b])
  <2>1. CASE /\ tiles' = [tiles EXCEPT ![b] = SubSeq(@, 1, keep)]
             /\ Goto(b, "drain")
             /\ UNCHANGED call
    <3>1. dropping[b] => keep = 0
      BY <1>4, TilesForZero DEF Unmap, DropShape
    <3>2. SubSeq(tiles[b], 1, 0) = <<>>
      BY SubSeqEmpty
    <3> HIDE DEF keep
    <3>3. dropping[b] => tiles'[b] = <<>>
      BY <2>1, <3>1, <3>2 DEF TypeOK
    <3>4. /\ UNCHANGED taken /\ stage[b] = "unmap"
          /\ \A a \in Buffers : a # b => tiles'[a] = tiles[a]
      BY <1>4, <2>1 DEF Unmap, TypeOK
    <3> QED
      BY <2>1, <3>3, <3>4 DEF Goto, call, DropShape, TypeOK
  <2>2. CASE Poison(b, tiles[b]) /\ Failed(b)
    <3>1. /\ stage[b] = "unmap" /\ UNCHANGED taken /\ tiles'[b] = <<>>
          /\ \A a \in Buffers : a # b => tiles'[a] = tiles[a]
      BY <1>4, <2>2 DEF Unmap, Poison, TypeOK
    <3> QED
      BY <2>2, <3>1, EndShape
  <2> QED
    BY <1>4, <2>1, <2>2 DEF Unmap
<1>5. CASE UnmapRefused(b)
  <2>1. Failed(b) /\ stage[b] = "unmap" /\ UNCHANGED <<taken, tiles>>
    BY <1>5 DEF UnmapRefused
  <2>2. Return(b) /\ dropping[b] => FALSE
    BY <2>1 DEF Failed, Return, Goto, TypeOK
  <2> QED
    BY <2>1, <2>2, EndShape
<1>6. CASE DrainHeap(b)
  BY <1>6, ShapeWhenSame DEF DrainHeap, call
<1>7. CASE DrainEnd(b)
  <2>1. Return(b) /\ stage[b] = "drain" /\ UNCHANGED <<taken, tiles>>
    BY <1>7 DEF DrainEnd
  <2> QED
    BY <2>1, EndShape DEF DropShape
<1>8. CASE Leak(b)
  <2>1. /\ Return(b) /\ stage[b] = "leak" /\ UNCHANGED taken /\ tiles'[b] = <<>>
        /\ \A a \in Buffers : a # b => tiles'[a] = tiles[a]
    BY <1>8 DEF Leak, TypeOK
  <2> QED
    BY <2>1, EndShape
<1> QED
  BY <1>1, <1>2, <1>3, <1>4, <1>5, <1>6, <1>7, <1>8 DEF Step

LEMMA LedgerInvariant == Spec => []LedgerInv
<1>1. Init => LedgerInv
  <2>1. ASSUME Init PROVE DropShape /\ LedgerExact
    <3>1. DropShape /\ UsedExact
      BY <2>1 DEF Init, DropShape, UsedExact
    <3>2. TilesConserved
      BY <2>1, RangeEmpty DEF Init, TilesConserved, Present, Owned
    <3> QED
      BY <3>1, <3>2 DEF LedgerExact
  <2> QED
    BY <2>1, InitTyped DEF LedgerInv
<1>2. LedgerInv /\ [Next]_vars => LedgerInv'
  <2> SUFFICES ASSUME LedgerInv, [Next]_vars
               PROVE  LedgerInv'
    OBVIOUS
  <2> USE DEF LedgerInv, TypeInv
  <2>1. TypeInv'
    BY OwnerTyped, GrowTyped, ReleaseTyped, OthersTyped
       DEF Next, Step, Terminated
  <2>2. ASSUME NEW b \in Buffers, Owner(b)
        PROVE  LedgerInv'
    <3>1. UNCHANGED <<heaps, free, used, lost, taken, tiles>>
      BY <2>2 DEF Owner, new_buffer, set_valid_rows, Use, ensure_rows,
                  release_from, Drop, ledger
    <3> QED
      BY <2>1, <2>2, <3>1, ExactWhenSame, OwnerShape
  <2>3. ASSUME NEW b \in Buffers, Step(b)
        PROVE  LedgerInv'
    <3>1. LedgerExact'
      <4>1. CASE Proven(b) \/ Unproven(b) \/ UnmapRefused(b) \/ DrainEnd(b)
        BY <4>1, ExactWhenSame DEF Proven, Unproven, UnmapRefused, DrainEnd, ledger
      <4>2. CASE Expire(b)
        <5>1. UNCHANGED <<heaps, free, used, taken>>
          BY <4>2 DEF Expire, ledger
        <5>2. CASE Poison(b, tiles[b])
          BY <5>1, <5>2, PoisonExact
        <5>3. CASE UNCHANGED <<poisoned, lost, tiles>>
          BY <5>1, <5>3, ExactWhenSame
        <5> QED
          BY <4>2, <5>2, <5>3 DEF Expire
      <4> QED
        BY <2>3, <4>1, <4>2, TakeExact, AddExact, RefuseExact, MapExact,
           UnmapExact, DrainExact, LeakExact DEF Step
    <3> QED
      BY <2>1, <2>3, <3>1, StepShape
  <2>4. ASSUME NEW b \in Buffers, Complete(b)
        PROVE  LedgerInv'
    BY <2>1, <2>4, ExactWhenSame, ShapeWhenSame DEF Complete, ledger
  <2>5. CASE DropPool
    BY <2>1, <2>5, DropPoolExact, ShapeWhenSame DEF DropPool, bufferVars, call
  <2>6. CASE PoisonMutex \/ Terminated \/ UNCHANGED vars
    BY <2>1, <2>6, ExactWhenSame, ShapeWhenSame
       DEF PoisonMutex, Terminated, ledger, bufferVars, call, vars
  <2> QED
    BY <2>2, <2>3, <2>4, <2>5, <2>6 DEF Next
<1> QED
  BY <1>1, <1>2, PTL DEF Spec

\* Tiles are neither lost from the accounts nor given twice, and the counters
\* that decide which heap is freed are exact, for any sizes and proofs.
THEOREM LedgerCorrect == Spec => []LedgerExact
<1>1. LedgerInv => LedgerExact
  BY DEF LedgerInv
<1> QED
  BY <1>1, LedgerInvariant, PTL

-----------------------------------------------------------------------------
(* At most one heap's worth of tiles stays free.                             *)

\* What the pool keeps for growth while nobody holds its lock.
Spare == Cardinality(free) <= TilesPerHeap \/ \A s \in heaps : used[s] > 0

\* Only drain_empty_heaps works on a pool that keeps more.
Draining == \E b \in Buffers : stage[b] = "drain"
SpareInv == pool = "up" => Draining \/ Spare

LEMMA FreeFinite ==
    ASSUME NEW X \in SUBSET Tiles
    PROVE  IsFiniteSet(X) /\ Cardinality(X) \in Nat
<1>1. IsFiniteSet(Slots) /\ IsFiniteSet(1..TilesPerHeap)
  <2>1. 1 \in Int /\ TilesPerHeap \in Int /\ MaxHeaps \in Int
    BY SizesAssumption
  <2> QED
    BY <2>1, FS_Interval DEF Slots
<1>2. IsFiniteSet(Tiles)
  BY <1>1, FS_Product DEF Tiles
<1> QED
  BY <1>2, FS_Subset, FS_CardinalityType

LEMMA HeapTilesCount ==
    ASSUME NEW s \in Slots
    PROVE  Cardinality(HeapTiles(s)) = TilesPerHeap
<1>1. /\ IsFiniteSet({s}) /\ Cardinality({s}) = 1
      /\ IsFiniteSet(1..TilesPerHeap) /\ Cardinality(1..TilesPerHeap) = TilesPerHeap
  <2>1. 1 \in Int /\ TilesPerHeap \in Int /\ TilesPerHeap >= 1
    BY SizesAssumption
  <2>2. /\ IsFiniteSet(1..TilesPerHeap)
        /\ Cardinality(1..TilesPerHeap) = IF 1 > TilesPerHeap THEN 0 ELSE TilesPerHeap - 1 + 1
    BY <2>1, FS_Interval
  <2>3. Cardinality(1..TilesPerHeap) = TilesPerHeap
    BY <2>1, <2>2
  <2>4. IsFiniteSet({s}) /\ Cardinality({s}) = 1
    BY FS_Singleton
  <2> QED
    BY <2>2, <2>3, <2>4
<1>2. Cardinality(HeapTiles(s)) = Cardinality({s}) * Cardinality(1..TilesPerHeap)
  BY <1>1, FS_Product DEF HeapTiles
<1> QED
  BY <1>1, <1>2, SizesAssumption

\* A smaller free list, and no counter that goes down.
LEMMA SpareTaken ==
    ASSUME TypeOK, Spare, NEW t \in free, free' = free \ {t}, UNCHANGED heaps,
           used' = [used EXCEPT ![t[1]] = @ + 1]
    PROVE  Spare'
<1>1. CASE Cardinality(free) <= TilesPerHeap
  <2>1. free' \subseteq free /\ IsFiniteSet(free) /\ Cardinality(free) \in Nat
    BY FreeFinite DEF TypeOK
  <2>2. Cardinality(free') <= Cardinality(free) /\ Cardinality(free') \in Nat
    BY <2>1, FS_Subset, FS_CardinalityType
  <2> QED
    BY <1>1, <2>1, <2>2, SizesAssumption DEF Spare
<1>2. CASE \A s \in heaps : used[s] > 0
  <2> SUFFICES ASSUME NEW s \in heaps PROVE used'[s] > 0
    BY DEF Spare
  <2>1. s \in Slots /\ used[s] \in Int /\ used[s] > 0
    BY <1>2 DEF TypeOK
  <2> QED
    BY <2>1 DEF TypeOK
<1> QED
  BY <1>1, <1>2 DEF Spare

LEMMA SpareSame ==
    ASSUME SpareInv, UNCHANGED <<heaps, free, used, pool>>,
           \A b \in Buffers : stage[b] = "drain" => stage'[b] = "drain"
    PROVE  SpareInv'
BY DEF SpareInv, Spare, Draining

LEMMA StepSpare ==
    ASSUME LedgerInv, SpareInv, NEW b \in Buffers, Step(b)
    PROVE  SpareInv'
<1>1. TypeOK /\ UsedExact
  BY DEF LedgerInv, TypeInv, LedgerExact
<1>2. CASE TakeTile(b)
  <2>1. PICK t \in free : free' = free \ {t} /\ used' = [used EXCEPT ![t[1]] = @ + 1]
    BY <1>2 DEF TakeTile
  <2>2. UNCHANGED <<heaps, stage, pool>>
    BY <1>2 DEF TakeTile, shared
  <2> QED
    BY <1>1, <2>1, <2>2, SpareTaken DEF SpareInv, Draining
<1>3. CASE AddHeap(b)
  <2>1. PICK s \in Slots : free' = HeapTiles(s)
    BY <1>3 DEF AddHeap
  <2>2. Cardinality(free') <= TilesPerHeap
    BY <2>1, HeapTilesCount, SizesAssumption
  <2> QED
    BY <2>2 DEF SpareInv, Spare
<1>4. CASE RefuseHeap(b)
  BY <1>1, <1>4 DEF RefuseHeap, Goto, TypeOK, SpareInv, Draining
<1>5. CASE MapTiles(b)
  BY <1>1, <1>5, SpareSame DEF MapTiles, Growing, Return, Goto, TypeOK, ledger, shared
<1>6. CASE Proven(b) \/ Unproven(b)
  BY <1>1, <1>6, SpareSame DEF Proven, Unproven, Goto, TypeOK, ledger, shared
<1>7. CASE Expire(b)
  BY <1>1, <1>7, SpareSame DEF Expire, Failed, Return, Goto, TypeOK, ledger, shared
<1>8. CASE Unmap(b)
  <2>1. CASE Goto(b, "drain")
    BY <1>1, <2>1 DEF Goto, TypeOK, SpareInv, Draining
  <2>2. CASE Failed(b) /\ UNCHANGED <<free, used>>
    BY <1>1, <1>8, <2>2, SpareSame DEF Unmap, Failed, Return, Goto, TypeOK, shared
  <2> QED
    BY <1>8, <2>1, <2>2 DEF Unmap
<1>9. CASE UnmapRefused(b)
  BY <1>1, <1>9, SpareSame DEF UnmapRefused, Failed, Return, Goto, TypeOK, ledger, shared
<1>10. CASE DrainHeap(b)
  BY <1>10 DEF DrainHeap, SpareInv, Draining
<1>11. CASE DrainEnd(b)
  <2>1. UNCHANGED <<heaps, free, used>> /\ ~(Surplus /\ \E s \in Slots : Empty(s))
    BY <1>11 DEF DrainEnd, ledger
  <2>2. CASE ~Surplus
    <3>1. Cardinality(free) \in Nat
      BY <1>1, FreeFinite DEF TypeOK
    <3> QED
      BY <2>1, <2>2, <3>1, SizesAssumption DEF Surplus, SpareInv, Spare
  <2>3. CASE \A s \in Slots : ~Empty(s)
    <3>1. ASSUME NEW s \in heaps PROVE used[s] > 0
      <4>1. s \in Slots /\ used[s] # 0
        BY <1>1, <2>3 DEF TypeOK, Empty
      <4>2. used[s] \in Nat
        BY <1>1, <4>1, Counted DEF UsedExact
      <4> QED
        BY <4>1, <4>2
    <3> QED
      BY <2>1, <3>1 DEF SpareInv, Spare
  <2> QED
    BY <2>1, <2>2, <2>3
<1>12. CASE Leak(b)
  BY <1>1, <1>12, SpareSame DEF Leak, Return, Goto, TypeOK, ledger, shared
<1> QED
  BY <1>2, <1>3, <1>4, <1>5, <1>6, <1>7, <1>8, <1>9, <1>10, <1>11, <1>12 DEF Step

\* Between two operations the pool keeps at most one heap's worth of free tiles,
\* unless every heap is in use: every way out of a release or of a refused
\* growth drains the surplus, whatever the number of heaps and tiles.
THEOREM SpareBounded == Spec => []OneSpareHeap
<1>1. Init => SpareInv
  BY DEF Init, SpareInv, Spare
<1>2. LedgerInv /\ SpareInv /\ [Next]_vars => SpareInv'
  <2> SUFFICES ASSUME LedgerInv, SpareInv, [Next]_vars PROVE SpareInv'
    OBVIOUS
  <2>1. ASSUME NEW b \in Buffers, Owner(b) PROVE SpareInv'
    <3>1. TypeOK
      BY DEF LedgerInv, TypeInv
    <3>2. UNCHANGED <<heaps, free, used, pool>>
      BY <2>1 DEF Owner, new_buffer, set_valid_rows, Use, ensure_rows,
                  release_from, Drop, ledger, shared
    <3>3. \A a \in Buffers : stage[a] = "drain" => stage'[a] = "drain"
      BY <2>1, <3>1 DEF Owner, new_buffer, set_valid_rows, Use, ensure_rows,
                        release_from, Drop, Goto, call, TypeOK
    <3> QED
      BY <3>2, <3>3, SpareSame
  <2>2. ASSUME NEW b \in Buffers, Step(b) PROVE SpareInv'
    BY <2>2, StepSpare
  <2>3. ASSUME NEW b \in Buffers, Complete(b) PROVE SpareInv'
    BY <2>3, SpareSame DEF Complete, ledger, shared
  <2>4. CASE PoisonMutex \/ Terminated \/ UNCHANGED vars
    BY <2>4, SpareSame DEF PoisonMutex, Terminated, ledger, bufferVars, vars
  <2>5. CASE DropPool
    BY <2>5 DEF DropPool, SpareInv
  <2> QED
    BY <2>1, <2>2, <2>3, <2>4, <2>5 DEF Next
<1>3. SpareInv => OneSpareHeap
  BY DEF SpareInv, Spare, Draining, OneSpareHeap, Unlocked
<1> QED
  BY <1>1, <1>2, <1>3, LedgerInvariant, PTL DEF Spec

-----------------------------------------------------------------------------
(* Valid rows are mapped.                                                    *)

\* The rows that lie wholly in n tiles.
RowsIn(n) == Lesser(Capacity, (n * TileBytes) \div RowBytes)

LEMMA RowsInGrow ==
    ASSUME NEW m \in Nat, NEW n \in Nat, m <= n
    PROVE  RowsIn(m) \in Nat /\ RowsIn(n) \in Nat /\ RowsIn(m) <= RowsIn(n)
<1>1. PICK T \in Nat, R \in Nat \ {0} : T = TileBytes /\ R = RowBytes
  BY SizesAssumption
<1>2. m * T \in Nat /\ n * T \in Nat /\ m * T <= n * T
  BY ONLY m \in Nat, n \in Nat, m <= n, T \in Nat, SMT
<1>3. ASSUME NEW x \in Nat, NEW y \in Nat, x <= y
      PROVE  x \div R \in Nat /\ y \div R \in Nat /\ x \div R <= y \div R
  BY ONLY <1>3, R \in Nat \ {0}, SMT
<1>4. (m * T) \div R \in Nat /\ (n * T) \div R \in Nat /\ (m * T) \div R <= (n * T) \div R
  BY <1>2, <1>3
<1> QED
  BY <1>1, <1>4, SizesAssumption DEF RowsIn, Lesser

\* The tiles that hold n rows hold no row less.
LEMMA RowsHeld ==
    ASSUME NEW n \in 0..Capacity
    PROVE  TilesFor(n) \in Nat /\ n <= RowsIn(TilesFor(n))
<1>1. PICK T \in Nat \ {0}, R \in Nat \ {0} : T = TileBytes /\ R = RowBytes
  BY SizesAssumption
<1>2. n \in Nat
  BY SizesAssumption
<1>3. PICK k : k = (n * R + T - 1) \div T
  OBVIOUS
<1>4. PICK p \in Nat : p = n * R
  BY <1>2, SMT
<1>5. k \in Nat /\ p <= k * T
  BY ONLY <1>3, <1>4, T \in Nat \ {0}, SMT
<1>6. n <= (k * T) \div R
  <2>1. PICK q \in Nat : q = k * T
    BY <1>5, SMT
  <2>2. n * R <= q
    BY <1>4, <1>5, <2>1
  <2>3. n <= q \div R
    BY ONLY <2>2, n \in Nat, q \in Nat, R \in Nat \ {0}, SMT
  <2> QED
    BY <2>1, <2>3
<1> QED
  BY <1>1, <1>3, <1>5, <1>6, SizesAssumption DEF TilesFor, RowsIn, Lesser

\* What is known of the valid rows of a buffer that is being released or dropped.
ValidParts ==
    \A b \in Buffers :
        /\ stage[b] = "unmap" => valid[b] <= rows[b]
        /\ stage[b] = "leak" => dropping[b]
ValidInv == TypeInv /\ ValidParts /\ ValidMapped

LEMMA MappedIs ==
    ASSUME TypeOK, NEW b \in Buffers
    PROVE  mapped_rows(b) = RowsIn(Len(tiles[b])) /\ Len(tiles[b]) \in Nat
BY DEF mapped_rows, RowsIn, TypeOK

\* The step of one buffer; the others keep what they had.
LEMMA OthersValid ==
    ASSUME ValidInv, NEW b \in Buffers,
           \A a \in Buffers : a # b =>
               /\ stage'[a] = stage[a] /\ valid'[a] = valid[a] /\ tiles'[a] = tiles[a]
               /\ poisoned'[a] = poisoned[a] /\ rows'[a] = rows[a]
               /\ dropping'[a] = dropping[a],
           stage'[b] = "unmap" => valid'[b] <= rows'[b],
           stage'[b] = "leak" => dropping'[b],
           stage'[b] # "none" /\ ~poisoned'[b] => valid'[b] <= RowsIn(Len(tiles'[b]))
    PROVE  ValidParts' /\ ValidMapped'
<1>1. ValidParts'
  BY DEF ValidInv, ValidParts
<1>2. ValidMapped'
  BY DEF ValidInv, ValidMapped, mapped_rows, RowsIn
<1> QED
  BY <1>1, <1>2

\* The owner only declares rows that are mapped, or fewer than it had.
LEMMA OwnerValid ==
    ASSUME ValidInv, NEW b \in Buffers, Owner(b)
    PROVE  ValidParts' /\ ValidMapped'
<1>1. TypeOK
  BY DEF ValidInv, TypeInv
<1>2. UNCHANGED tiles
  BY DEF Owner, new_buffer, set_valid_rows, Use, ensure_rows, release_from, Drop
<1>3. \A a \in Buffers : a # b =>
               /\ stage'[a] = stage[a] /\ valid'[a] = valid[a]
               /\ poisoned'[a] = poisoned[a] /\ rows'[a] = rows[a]
               /\ dropping'[a] = dropping[a]
  BY <1>1 DEF Owner, new_buffer, set_valid_rows, Use, ensure_rows, release_from,
              Drop, Goto, call, TypeOK
<1>4. /\ stage'[b] # "unmap"
      /\ stage'[b] = "leak" => dropping'[b]
  BY <1>1 DEF Owner, new_buffer, set_valid_rows, Use, ensure_rows, release_from,
              Drop, Goto, call, TypeOK
<1>5. \/ valid'[b] = 0 \/ valid'[b] <= mapped_rows(b)
      \/ /\ valid'[b] = valid[b] \/ \E n \in 0..Capacity : valid'[b] = Lesser(valid[b], n)
         /\ UNCHANGED poisoned /\ stage[b] # "none"
  <2>1. CASE new_buffer(b)
    BY <1>1, <2>1 DEF new_buffer, TypeOK
  <2>2. CASE \E n \in 0..Capacity : set_valid_rows(b, n)
    BY <1>1, <2>2 DEF set_valid_rows, TypeOK
  <2>3. CASE \E n \in 0..Capacity : Use(b, n) \/ ensure_rows(b, n)
    BY <1>1, <2>3 DEF Use, ensure_rows, TypeOK
  <2>4. CASE \E n \in 0..Capacity : \E p \in Acceptable(b, TilesFor(n)) : release_from(b, n, p)
    BY <1>1, <2>4 DEF release_from, TypeOK
  <2>5. CASE Drop(b)
    BY <1>1, <2>5 DEF Drop, TypeOK
  <2> QED
    BY <2>1, <2>2, <2>3, <2>4, <2>5 DEF Owner
<1>6. RowsIn(Len(tiles[b])) \in Nat
  BY <1>1, MappedIs, RowsInGrow
<1>7. stage'[b] # "none" /\ ~poisoned'[b] => valid'[b] <= RowsIn(Len(tiles[b]))
  <2>1. valid[b] \in Nat /\ Capacity \in Nat
    BY <1>1, SizesAssumption DEF TypeOK
  <2>2. stage[b] # "none" /\ ~poisoned[b] => valid[b] <= RowsIn(Len(tiles[b]))
    BY <1>1, MappedIs DEF ValidInv, ValidMapped
  <2>3. ASSUME NEW n \in 0..Capacity PROVE Lesser(valid[b], n) <= valid[b]
    BY <2>1 DEF Lesser
  <2>4. ASSUME NEW n \in 0..Capacity PROVE Lesser(valid[b], n) \in Nat
    BY <2>1 DEF Lesser
  <2> QED
    BY <1>1, <1>5, <1>6, <2>1, <2>2, <2>3, <2>4, MappedIs
<1> QED
  BY <1>2, <1>3, <1>4, <1>7, OthersValid

\* A step that leaves the valid rows of b alone, and takes none of its tiles.
LEMMA ValidKept ==
    ASSUME ValidInv, NEW b \in Buffers, UNCHANGED valid,
           Return(b) \/ Failed(b), stage[b] # "none", stage[b] # "leak",
           \A a \in Buffers : a # b =>
               poisoned'[a] = poisoned[a] /\ tiles'[a] = tiles[a],
           \/ poisoned'[b] /\ poisoned' = [poisoned EXCEPT ![b] = TRUE]
           \/ /\ UNCHANGED poisoned
              /\ Len(tiles'[b]) \in Nat /\ Len(tiles[b]) <= Len(tiles'[b])
    PROVE  ValidParts' /\ ValidMapped'
<1>1. TypeOK
  BY DEF ValidInv, TypeInv
<1>2. /\ \A a \in Buffers : a # b =>
            stage'[a] = stage[a] /\ rows'[a] = rows[a] /\ dropping'[a] = dropping[a]
      /\ stage'[b] \in {"none", "idle"} \/ (stage'[b] = "leak" /\ dropping'[b])
  BY <1>1 DEF Return, Failed, Goto, call, TypeOK
<1>3. ~poisoned'[b] => valid[b] <= RowsIn(Len(tiles'[b]))
  <2>1. Len(tiles[b]) \in Nat /\ valid[b] \in Nat
    BY <1>1, SizesAssumption DEF TypeOK
  <2>2. ~poisoned[b] => valid[b] <= RowsIn(Len(tiles[b]))
    BY <1>1, MappedIs DEF ValidInv, ValidMapped
  <2>3. CASE UNCHANGED poisoned /\ Len(tiles'[b]) \in Nat /\ Len(tiles[b]) <= Len(tiles'[b])
    <3>1. PICK m \in Nat, n \in Nat : m = Len(tiles[b]) /\ n = Len(tiles'[b]) /\ m <= n
      BY <2>1, <2>3
    <3>2. RowsIn(m) \in Nat /\ RowsIn(n) \in Nat /\ RowsIn(m) <= RowsIn(n)
      BY <3>1, RowsInGrow
    <3>3. valid[b] \in Nat /\ (~poisoned[b] => valid[b] <= RowsIn(m))
      BY <2>1, <2>2, <3>1
    <3> QED
      BY <2>3, <3>1, <3>2, <3>3
  <2> QED
    BY <2>3
<1> QED
  BY <1>2, <1>3, OthersValid

LEMMA StepValid ==
    ASSUME ValidInv, NEW b \in Buffers, Step(b)
    PROVE  ValidParts' /\ ValidMapped'
<1>1. TypeOK /\ KeepFits
  BY DEF ValidInv, TypeInv
<1>2. CASE TakeTile(b) \/ AddHeap(b) \/ DrainHeap(b)
  BY <1>2 DEF TakeTile, AddHeap, DrainHeap, call, ValidInv, ValidParts, ValidMapped,
              mapped_rows
<1>3. CASE RefuseHeap(b)
  BY <1>1, <1>3 DEF RefuseHeap, Growing, Goto, TypeOK, call, ValidInv, ValidParts,
                    ValidMapped, mapped_rows
<1>4. CASE MapTiles(b)
  <2>1. Return(b) /\ UNCHANGED valid /\ stage[b] = "grow"
    BY <1>4 DEF MapTiles, Growing
  <2>2. CASE Poison(b, tiles[b] \o taken)
    BY <1>1, <2>1, <2>2, ValidKept DEF Poison, TypeOK
  <2>3. CASE tiles' = [tiles EXCEPT ![b] = @ \o taken] /\ UNCHANGED <<lost, poisoned>>
    <3>1. tiles'[b] = tiles[b] \o taken /\ \A a \in Buffers : a # b => tiles'[a] = tiles[a]
      BY <1>1, <2>3 DEF TypeOK
    <3>2. PICK s \in Seq(Tiles), u \in Seq(Tiles) : s = tiles[b] /\ u = taken
      BY <1>1 DEF TypeOK
    <3>3. Len(s \o u) = Len(s) + Len(u) /\ Len(s) \in Nat /\ Len(u) \in Nat
      BY LenProperties, ConcatProperties
    <3>4. Len(tiles'[b]) \in Nat /\ Len(tiles[b]) <= Len(tiles'[b])
      BY <3>1, <3>2, <3>3
    <3> QED
      BY <2>1, <2>3, <3>1, <3>4, ValidKept
  <2> QED
    BY <1>4, <2>2, <2>3 DEF MapTiles
<1>5. CASE Proven(b)
  <2>1. /\ UNCHANGED <<tiles, poisoned, rows, dropping>> /\ stage[b] = "wait"
        /\ stage' = [stage EXCEPT ![b] = "unmap"]
        /\ valid' = [valid EXCEPT ![b] = Lesser(@, rows[b])]
    BY <1>5 DEF Proven, Goto, call
  <2>2. valid[b] \in Nat /\ rows[b] \in Nat /\ RowsIn(Len(tiles[b])) \in Nat
    BY <1>1, MappedIs, RowsInGrow, SizesAssumption DEF TypeOK
  <2>3. ~poisoned[b] => valid[b] <= RowsIn(Len(tiles[b]))
    BY <1>1, <2>1, MappedIs DEF ValidInv, ValidMapped
  <2>4. valid'[b] <= rows[b] /\ valid'[b] <= valid[b] /\ valid'[b] \in Nat
    BY <1>1, <2>1, <2>2 DEF Lesser, TypeOK
  <2>5. ~poisoned[b] => valid'[b] <= RowsIn(Len(tiles[b]))
    BY <2>2, <2>3, <2>4
  <2>6. /\ stage'[b] = "unmap"
        /\ \A a \in Buffers : a # b => stage'[a] = stage[a] /\ valid'[a] = valid[a]
    BY <1>1, <2>1 DEF TypeOK
  <2> QED
    BY <2>1, <2>4, <2>5, <2>6, OthersValid
<1>6. CASE Unproven(b)
  BY <1>1, <1>6 DEF Unproven, Goto, TypeOK, call, ValidInv, ValidParts, ValidMapped,
                    mapped_rows
<1>7. CASE Expire(b)
  <2>1. /\ UNCHANGED valid /\ stage[b] = "expired" /\ Failed(b)
        /\ Len(tiles[b]) \in Nat
    BY <1>1, <1>7 DEF Expire, TypeOK
  <2>2. CASE Poison(b, tiles[b])
    BY <1>1, <2>1, <2>2, ValidKept DEF Poison, TypeOK
  <2>3. CASE UNCHANGED <<poisoned, lost, tiles>>
    BY <2>1, <2>3, ValidKept
  <2> QED
    BY <1>7, <2>2, <2>3 DEF Expire
<1>8. CASE Unmap(b)
  <2> DEFINE keep == TilesFor(rows[b])
  <2>1. stage[b] = "unmap" /\ UNCHANGED valid
    BY <1>8 DEF Unmap
  <2>2. CASE /\ tiles' = [tiles EXCEPT ![b] = SubSeq(@, 1, keep)]
             /\ Goto(b, "drain") /\ UNCHANGED <<poisoned, lost, call>>
    <3>1. PICK n \in 0..Capacity : n = rows[b]
      BY <1>1 DEF TypeOK
    <3>2. PICK k \in Nat : k = keep
      BY <3>1, RowsHeld
    <3>3. k <= Len(tiles[b]) /\ n <= RowsIn(k) /\ RowsIn(k) \in Nat
      BY <1>1, <2>1, <3>1, <3>2, RowsHeld, RowsInGrow DEF KeepFits
    <3> HIDE DEF keep
    <3>4. Len(tiles'[b]) = k
      <4>1. PICK s \in Seq(Tiles) : s = tiles[b]
        BY <1>1 DEF TypeOK
      <4>2. tiles'[b] = SubSeq(s, 1, k) /\ k <= Len(s)
        BY <1>1, <2>2, <3>2, <3>3, <4>1 DEF TypeOK
      <4>3. Len(SubSeq(s, 1, k)) = k
        <5>1. 1 \in 1..(Len(s) + 1) /\ k \in 0..Len(s) /\ Len(s) \in Nat
          BY <4>2, LenProperties
        <5>2. Len(SubSeq(s, 1, k)) = IF 1 <= k THEN k - 1 + 1 ELSE 0
          BY <5>1, SubSeqProperties
        <5> QED
          BY <5>2
      <4> QED
        BY <4>2, <4>3
    <3>5. valid[b] <= n /\ valid[b] \in Nat
      BY <1>1, <2>1, <3>1, SizesAssumption DEF ValidInv, ValidParts, TypeOK
    <3>6. valid'[b] <= RowsIn(Len(tiles'[b]))
      BY <2>1, <3>3, <3>4, <3>5, SizesAssumption
    <3>7. /\ stage'[b] = "drain" /\ UNCHANGED <<rows, dropping, poisoned>>
          /\ \A a \in Buffers : a # b => stage'[a] = stage[a] /\ tiles'[a] = tiles[a]
      BY <1>1, <2>2 DEF Goto, call, TypeOK
    <3> QED
      BY <2>1, <3>6, <3>7, OthersValid
  <2>3. CASE Poison(b, tiles[b]) /\ Failed(b)
    BY <1>1, <2>1, <2>3, ValidKept DEF Poison, TypeOK
  <2> QED
    BY <1>8, <2>2, <2>3 DEF Unmap
<1>9. CASE UnmapRefused(b)
  <2>1. /\ UNCHANGED <<valid, tiles, poisoned>> /\ stage[b] = "unmap" /\ Failed(b)
        /\ Len(tiles[b]) \in Nat
    BY <1>1, <1>9 DEF UnmapRefused, TypeOK
  <2> QED
    BY <2>1, ValidKept
<1>10. CASE DrainEnd(b)
  <2>1. /\ UNCHANGED <<valid, tiles, poisoned>> /\ stage[b] = "drain" /\ Return(b)
        /\ Len(tiles[b]) \in Nat
    BY <1>1, <1>10 DEF DrainEnd, TypeOK
  <2> QED
    BY <2>1, ValidKept
<1>11. CASE Leak(b)
  <2>1. /\ stage[b] = "leak" /\ dropping[b] /\ UNCHANGED <<valid, poisoned, dropping>>
    BY <1>11 DEF Leak, Return, ValidInv, ValidParts
  <2>2. /\ stage'[b] = "none"
        /\ \A a \in Buffers : a # b =>
              stage'[a] = stage[a] /\ tiles'[a] = tiles[a] /\ rows'[a] = rows[a]
    BY <1>1, <1>11, <2>1 DEF Leak, Return, Goto, TypeOK
  <2> QED
    BY <2>1, <2>2, OthersValid
<1> QED
  BY <1>2, <1>3, <1>4, <1>5, <1>6, <1>7, <1>8, <1>9, <1>10, <1>11 DEF Step

\* The rows a buffer declares valid are mapped, however rows and tiles are
\* aligned: a release declares no more than it keeps, before it unmaps.
THEOREM ValidRowsMapped == Spec => []ValidMapped
<1>1. Init => ValidInv
  BY InitTyped DEF Init, ValidInv, ValidParts, ValidMapped
<1>2. ValidInv /\ [Next]_vars => ValidInv'
  <2> SUFFICES ASSUME ValidInv, [Next]_vars PROVE ValidInv'
    OBVIOUS
  <2>1. TypeInv'
    BY OwnerTyped, GrowTyped, ReleaseTyped, OthersTyped
       DEF Next, Step, Terminated, ValidInv
  <2>2. ASSUME NEW b \in Buffers, Owner(b) \/ Step(b) PROVE ValidInv'
    BY <2>1, <2>2, OwnerValid, StepValid DEF ValidInv
  <2>3. ASSUME NEW b \in Buffers, Complete(b) PROVE ValidInv'
    BY <2>1, <2>3 DEF Complete, ValidInv, ValidParts, ValidMapped, mapped_rows
  <2>4. CASE PoisonMutex \/ DropPool \/ Terminated \/ UNCHANGED vars
    BY <2>1, <2>4 DEF PoisonMutex, DropPool, Terminated, bufferVars, call, vars,
                      ValidInv, ValidParts, ValidMapped, mapped_rows
  <2> QED
    BY <2>2, <2>3, <2>4 DEF Next
<1>3. ValidInv => ValidMapped
  BY DEF ValidInv
<1> QED
  BY <1>1, <1>2, <1>3, PTL DEF Spec
=============================================================================
