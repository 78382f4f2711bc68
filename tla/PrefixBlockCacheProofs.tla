----------------------- MODULE PrefixBlockCacheProofs -----------------------
(***************************************************************************)
(* Proofs about the prefix cache: for every session, every prompt and all  *)
(* caps, the blocks hold the state their key stands for, the three caps    *)
(* hold after every insertion and eviction, and a request is decoded from  *)
(* the state of its own prompt in its own session.                         *)
(***************************************************************************)
EXTENDS PrefixBlockCache, DataLemmas

-----------------------------------------------------------------------------
(* What the cache may hold.                                                 *)

\* The states whose K/V lies in finitely many allocations, and their blocks.
KvStates == {st \in States : IsFiniteSet(st.kv)}
BlockOf(st) == [session |-> st.owner, hash |-> <<st.owner, st.tokens>>,
                tokens |-> Len(st.tokens), state |-> st]
Blocks == {BlockOf(st) : st \in KvStates}

\* Well-formed blocks, each under a key of its own.
Keyed(es) == \A e, f \in Range(es) : KeyOf(e) = KeyOf(f) => e = f
Good(es) == es \in Seq(Blocks) /\ Distinct(es) /\ Keyed(es)

\* The blocks of a session; the three caps.
Of(es, session) == {e \in Range(es) : e.session = session}
Fit(es) ==
    /\ Len(es) <= Capacity
    /\ Bytes(es) <= MaxBytes
    /\ \A s \in Sessions : Cardinality(Of(es, s)) <= PerSession

\* Some of the blocks of es, in whatever order.
Part(p, es) == p \in Seq(Blocks) /\ Distinct(p) /\ Range(p) \subseteq Range(es)

LEMMA BlockFacts ==
    ASSUME NEW e \in Blocks
    PROVE  /\ e.state \in States /\ IsFiniteSet(e.state.kv)
           /\ e.state.owner \in Sessions /\ e.state.tokens \in Prompts
           /\ e.state.tokens # <<>> /\ e.state.tokens \in Seq(Nat)
           /\ e.state.kv \in SUBSET Nat
           /\ e.session = e.state.owner /\ e.tokens = Len(e.state.tokens)
           /\ KeyOf(e) = Key(e.state.owner, e.state.tokens)
<1>1. PICK st \in KvStates : e = BlockOf(st)
  BY DEF Blocks
<1>2. e.state = st /\ e.session = st.owner /\ e.hash = <<st.owner, st.tokens>>
      /\ e.tokens = Len(st.tokens)
  BY <1>1 DEF BlockOf
<1> QED
  BY <1>2, Limits DEF KvStates, States, KeyOf, Key

\* The key tells the session and the tokens.
LEMMA KeyTells ==
    ASSUME NEW s, NEW t, NEW s2, NEW t2, Key(s, t) = Key(s2, t2)
    PROVE  s = s2 /\ t = t2
BY DEF Key

LEMMA BlockHas ==
    ASSUME NEW e \in Blocks, NEW s, NEW t, KeyOf(e) = Key(s, t)
    PROVE  e.state.owner = s /\ e.state.tokens = t /\ e.tokens = Len(t)
<1>1. PICK o, u : o = e.state.owner /\ u = e.state.tokens
  OBVIOUS
<1>2. KeyOf(e) = Key(o, u) /\ e.tokens = Len(u)
  BY <1>1, BlockFacts
<1>3. Key(o, u) = Key(s, t)
  BY <1>2
<1>4. o = s /\ u = t
  BY <1>3, KeyTells
<1> QED
  BY <1>1, <1>2, <1>4

-----------------------------------------------------------------------------
(* The bytes.                                                               *)

LEMMA FiniteAllocations ==
    ASSUME NEW es \in Seq(Blocks)
    PROVE  /\ IsFiniteSet(Allocations(es))
           /\ Allocations(es) \in SUBSET Nat
           /\ Bytes(es) \in Nat
<1>1. Range(es) \in SUBSET Blocks /\ IsFiniteSet(Range(es))
  BY RangeOfSeq, RangeSize
<1> DEFINE kvs == {e.state.kv : e \in Range(es)}
<1>2. IsFiniteSet(kvs)
  <2> DEFINE f == [e \in Range(es) |-> e.state.kv]
  <2>1. f \in Surjection(Range(es), kvs)
    BY DEF Surjection
  <2> QED
    BY <1>1, <2>1, FS_Surjection
<1>3. \A kv \in kvs : IsFiniteSet(kv) /\ kv \in SUBSET Nat
  BY <1>1, BlockFacts
<1>4. IsFiniteSet(UNION kvs)
  BY <1>2, <1>3, FS_UNION
<1>5. Allocations(es) = UNION kvs
  BY DEF Allocations
<1>6. Allocations(es) \in SUBSET Nat
  BY <1>3, <1>5
<1>7. Cardinality(Allocations(es)) \in Nat /\ Len(es) \in Nat /\ SnapshotBytes \in Nat
  BY <1>4, <1>5, FS_CardinalityType, LenProperties, Limits
<1> QED
  BY <1>4, <1>5, <1>6, <1>7 DEF Bytes

LEMMA TimesGrows ==
    ASSUME NEW k \in Nat, NEW m \in Nat, NEW n \in Nat, m <= n
    PROVE  k * m <= k * n
<1>1. k * (n - m) \in Nat
  OBVIOUS
<1>2. k * n = k * m + k * (n - m)
  OBVIOUS
<1> QED
  BY <1>1, <1>2

\* Some of the blocks of a good cache are a good cache, and take no more room.
LEMMA PartIsGood ==
    ASSUME NEW es, Good(es), NEW p, Part(p, es)
    PROVE  /\ Good(p) /\ Len(p) <= Len(es) /\ Bytes(p) <= Bytes(es)
           /\ \A s \in Sessions : Cardinality(Of(p, s)) <= Cardinality(Of(es, s))
<1>1. es \in Seq(Blocks) /\ p \in Seq(Blocks) /\ Distinct(es) /\ Distinct(p)
      /\ Range(p) \subseteq Range(es)
  BY DEF Good, Part
<1>2. Good(p)
  BY <1>1 DEF Good, Keyed
<1>3. IsFiniteSet(Range(es))
  BY <1>1, RangeSize
<1>4. Len(p) <= Len(es)
  <2>1. Len(p) = Cardinality(Range(p)) /\ Len(es) = Cardinality(Range(es))
    BY <1>1, DistinctCount
  <2> QED
    BY <1>1, <1>3, <2>1, FS_Subset
<1>5. Bytes(p) <= Bytes(es)
  <2>1. Allocations(p) \subseteq Allocations(es)
    BY <1>1 DEF Allocations
  <2>2. IsFiniteSet(Allocations(es)) /\ IsFiniteSet(Allocations(p))
    BY <1>1, FiniteAllocations
  <2>3. /\ Cardinality(Allocations(p)) <= Cardinality(Allocations(es))
        /\ Cardinality(Allocations(p)) \in Nat /\ Cardinality(Allocations(es)) \in Nat
    BY <2>1, <2>2, FS_Subset, FS_CardinalityType
  <2>4. Len(p) \in Nat /\ Len(es) \in Nat /\ SnapshotBytes \in Nat
    BY <1>1, LenProperties, Limits
  <2>5. SnapshotBytes * Len(p) <= SnapshotBytes * Len(es)
    BY <1>4, <2>4, TimesGrows
  <2>6. SnapshotBytes * Len(p) \in Nat /\ SnapshotBytes * Len(es) \in Nat
    BY <2>4
  <2> QED
    BY <2>3, <2>5, <2>6 DEF Bytes
<1>6. ASSUME NEW s \in Sessions
      PROVE  Cardinality(Of(p, s)) <= Cardinality(Of(es, s))
  <2>1. Of(p, s) \subseteq Of(es, s) /\ Of(es, s) \subseteq Range(es)
    BY <1>1 DEF Of
  <2> QED
    BY <1>3, <2>1, FS_Subset
<1> QED
  BY <1>2, <1>4, <1>5, <1>6

LEMMA PartFits ==
    ASSUME NEW es, Good(es), Fit(es), NEW p, Part(p, es)
    PROVE  Good(p) /\ Fit(p)
<1>1. /\ Good(p) /\ Len(p) <= Len(es) /\ Bytes(p) <= Bytes(es)
      /\ \A s \in Sessions : Cardinality(Of(p, s)) <= Cardinality(Of(es, s))
  BY PartIsGood
<1>2. es \in Seq(Blocks) /\ p \in Seq(Blocks)
  BY <1>1 DEF Good
<1>3. /\ Len(es) \in Nat /\ Len(p) \in Nat /\ Bytes(es) \in Nat /\ Bytes(p) \in Nat
      /\ Capacity \in Nat /\ MaxBytes \in Nat /\ PerSession \in Nat
  BY <1>2, LenProperties, FiniteAllocations, Limits
<1>4. \A s \in Sessions : Cardinality(Of(p, s)) <= PerSession
  <2> SUFFICES ASSUME NEW s \in Sessions PROVE Cardinality(Of(p, s)) <= PerSession
    OBVIOUS
  <2>1. Cardinality(Of(p, s)) \in Nat /\ Cardinality(Of(es, s)) \in Nat
    <3>1. IsFiniteSet(Range(p)) /\ IsFiniteSet(Range(es))
      BY <1>2, RangeSize
    <3>2. Of(p, s) \subseteq Range(p) /\ Of(es, s) \subseteq Range(es)
      BY DEF Of
    <3> QED
      BY <3>1, <3>2, FS_Subset, FS_CardinalityType
  <2>2. Cardinality(Of(es, s)) <= PerSession
    BY DEF Fit
  <2> QED
    BY <1>1, <1>3, <2>1, <2>2
<1> QED
  BY <1>1, <1>3, <1>4 DEF Fit

\* Keeping blocks, and dropping the last one, leaves a part.
LEMMA KeepIsPart ==
    ASSUME NEW es, Good(es), NEW T
    PROVE  Part(Keep(es, T), es)
<1>1. es \in Seq(Blocks) /\ Distinct(es)
  BY DEF Good
<1>2. Keep(es, T) \in Seq(Blocks) /\ Range(Keep(es, T)) = Range(es) \cap T
  BY <1>1, KeepTyped
<1>3. Distinct(Keep(es, T))
  BY <1>1, KeepDistinct
<1> QED
  BY <1>2, <1>3 DEF Part

LEMMA FirstIsPart ==
    ASSUME NEW es, Good(es), NEW n \in 0..Len(es)
    PROVE  /\ Part(SubSeq(es, 1, n), es)
           /\ Len(SubSeq(es, 1, n)) = n
           /\ n >= 1 => SubSeq(es, 1, n)[1] = es[1]
<1>1. es \in Seq(Blocks) /\ Distinct(es)
  BY DEF Good
<1> QED
  BY <1>1, FirstOnes DEF Part

LEMMA FrontIsPart ==
    ASSUME NEW es, Good(es), es # <<>>
    PROVE  Part(Front(es), es)
<1>1. Len(es) - 1 \in 0..Len(es)
  BY EmptyOrNot DEF Good
<1> QED
  BY <1>1, FirstIsPart DEF Front

-----------------------------------------------------------------------------
(* The operations of the cache.                                             *)

\* The hit goes first, and no block goes.
LEMMA MovedIsPart ==
    ASSUME Good(entries), NEW i \in DOMAIN entries
    PROVE  /\ Part(MovedToFront(i), entries)
           /\ MovedToFront(i) # <<>> /\ MovedToFront(i)[1] = entries[i]
<1>1. PICK e, others : e = entries[i] /\ others = Keep(entries, Range(entries) \ {e})
  OBVIOUS
<1>2. entries \in Seq(Blocks) /\ e \in Range(entries) /\ e \in Blocks
  BY <1>1, ElementOfSeq DEF Good, Range
<1>3. others \in Seq(Blocks) /\ Range(others) = Range(entries) \ {e}
  BY <1>1, <1>2, KeepTyped
<1>4. Distinct(others)
  BY <1>1, KeepIsPart DEF Part
<1>5. /\ <<e>> \o others \in Seq(Blocks) /\ <<e>> \o others # <<>>
      /\ (<<e>> \o others)[1] = e /\ Distinct(<<e>> \o others)
      /\ Range(<<e>> \o others) = {e} \cup Range(others)
  BY <1>2, <1>3, <1>4, PutFirst
<1> QED
  BY <1>1, <1>2, <1>3, <1>5 DEF Part, MovedToFront

\* A session keeps its share, and the newest of its blocks.
LEMMA WithinSessionFacts ==
    ASSUME NEW es, Good(es), NEW session
    PROVE  /\ Part(WithinSession(es, session), es)
           /\ Cardinality(Of(WithinSession(es, session), session)) <= PerSession
           /\ es # <<>> /\ es[1].session = session /\ PerSession > 0 =>
                 /\ WithinSession(es, session) # <<>>
                 /\ WithinSession(es, session)[1] = es[1]
<1> DEFINE theirs == {e \in Range(es) : e.session = session}
           own == Keep(es, theirs)
           beyond == {own[i] : i \in (PerSession + 1)..Len(own)}
           rest == Keep(es, Range(es) \ beyond)
<1>1. es \in Seq(Blocks) /\ Distinct(es) /\ PerSession \in Nat
  BY Limits DEF Good
<1>2. own \in Seq(Blocks) /\ Distinct(own) /\ Range(own) = theirs
  BY <1>1, KeepTyped, KeepDistinct
<1>3. Part(rest, es) /\ Range(rest) = Range(es) \ beyond
  <2>1. \A T : Part(Keep(es, T), es)
    BY KeepIsPart
  <2>2. \A T : Range(Keep(es, T)) = Range(es) \cap T
    BY <1>1, KeepTyped
  <2> QED
    BY <2>1, <2>2
<1>4. WithinSession(es, session) = rest
  BY DEF WithinSession
<1> HIDE DEF own, rest
<1>5. Len(own) \in Nat /\ DOMAIN own = 1..Len(own)
  BY <1>2, LenProperties
<1>6. Cardinality(Of(rest, session)) <= PerSession
  <2> DEFINE K == {i \in 1..PerSession : i <= Len(own)}
             first == [i \in K |-> own[i]]
             firsts == {own[i] : i \in K}
  <2>1. IsFiniteSet(1..PerSession) /\ Cardinality(1..PerSession) = PerSession
    BY <1>1, FS_Interval
  <2>2. IsFiniteSet(K) /\ Cardinality(K) <= PerSession
    BY <2>1, FS_Subset
  <2>3. first \in Surjection(K, firsts)
    BY DEF Surjection
  <2>4. IsFiniteSet(firsts) /\ Cardinality(firsts) <= Cardinality(K)
    BY <2>2, <2>3, FS_Surjection
  <2>5. Of(rest, session) \subseteq firsts
    <3> SUFFICES ASSUME NEW e \in Of(rest, session) PROVE e \in firsts
      OBVIOUS
    <3>1. e \in Range(own) /\ e \notin beyond
      BY <1>2, <1>3 DEF Of
    <3>2. PICK i \in 1..Len(own) : e = own[i]
      BY <1>5, <3>1 DEF Range
    <3>3. ~(i \in (PerSession + 1)..Len(own))
      BY <3>1, <3>2
    <3>4. i \in 1..PerSession /\ i <= Len(own)
      BY <1>1, <1>5, <3>3
    <3> QED
      BY <3>2, <3>4
  <2>6. IsFiniteSet(Of(rest, session)) /\ Cardinality(Of(rest, session)) <= Cardinality(firsts)
    BY <2>4, <2>5, FS_Subset
  <2>7. /\ Cardinality(Of(rest, session)) \in Nat /\ Cardinality(firsts) \in Nat
        /\ Cardinality(K) \in Nat
    BY <2>2, <2>4, <2>6, FS_CardinalityType
  <2> HIDE DEF K, firsts
  <2> QED
    BY <1>1, <2>2, <2>4, <2>6, <2>7
<1>7. ASSUME es # <<>>, es[1].session = session, PerSession > 0
      PROVE  rest # <<>> /\ rest[1] = es[1]
  <2>1. es[1] \in Range(es)
    BY <1>1, <1>7, EmptyOrNot DEF Range
  <2>2. own # <<>> /\ own[1] = es[1]
    <3>1. es[1] \in theirs
      BY <1>7, <2>1
    <3> QED
      BY <1>1, <1>7, <3>1, KeepFirst DEF own
  <2>3. es[1] \notin beyond
    <3> SUFFICES ASSUME NEW i \in (PerSession + 1)..Len(own), own[i] = es[1] PROVE FALSE
      OBVIOUS
    <3>1. i \in 1..Len(own) /\ 1 \in 1..Len(own) /\ i # 1
      BY <1>1, <1>5, <1>7
    <3> QED
      BY <1>2, <1>5, <2>2, <3>1 DEF Distinct
  <2> QED
    BY <1>1, <1>7, <2>1, <2>3, KeepFirst DEF rest
<1> QED
  BY <1>3, <1>4, <1>6, <1>7

LEMMA BytesNone == Bytes(<<>>) = 0
<1>1. Allocations(<<>>) = {}
  BY RangeEmpty DEF Allocations
<1>2. Cardinality({}) = 0 /\ Len(<<>>) = 0 /\ SnapshotBytes * 0 = 0
  BY FS_EmptySet, Limits
<1>3. Bytes(<<>>) = Cardinality({}) + SnapshotBytes * 0
  BY <1>1, <1>2 DEF Bytes
<1> QED
  BY <1>2, <1>3

LEMMA BytesOne ==
    ASSUME NEW p \in Seq(Blocks), Len(p) = 1
    PROVE  Bytes(p) = StateBytes(p[1].state)
<1>1. Range(p) = {p[1]}
  <2>1. DOMAIN p = 1..1
    BY LenProperties
  <2> QED
    BY <2>1 DEF Range
<1>2. Allocations(p) = p[1].state.kv
  BY <1>1 DEF Allocations
<1>3. SnapshotBytes * 1 = SnapshotBytes
  BY Limits
<1> QED
  BY <1>2, <1>3 DEF Bytes, StateBytes

\* Both caps hold after the evictions, and a first block that fits stays.
LEMMA WithinCapsFacts ==
    ASSUME NEW es, Good(es)
    PROVE  /\ Part(WithinCaps(es), es)
           /\ Len(WithinCaps(es)) <= Capacity
           /\ Bytes(WithinCaps(es)) <= MaxBytes
           /\ es # <<>> /\ Capacity > 0 /\ StateBytes(es[1].state) <= MaxBytes =>
                 WithinCaps(es) # <<>> /\ WithinCaps(es)[1] = es[1]
<1> DEFINE fits(n) == n <= Capacity /\ Bytes(SubSeq(es, 1, n)) <= MaxBytes
           largest(n) == fits(n) /\ \A k \in (n + 1)..Len(es) : ~fits(k)
           n == CHOOSE m \in 0..Len(es) : largest(m)
<1>1. /\ es \in Seq(Blocks) /\ Len(es) \in Nat /\ Capacity \in Nat /\ MaxBytes \in Nat
  BY LenProperties, Limits DEF Good
<1>2. \E m \in 0..Len(es) : largest(m)
  <2> DEFINE F == {m \in 0..Len(es) : fits(m)}
  <2>1. 0 \in F
    <3>1. Bytes(SubSeq(es, 1, 0)) = 0
      <4>1. SubSeq(es, 1, 0) = <<>>
        BY SubSeqEmpty
      <4> QED
        BY <4>1, BytesNone, Zenon
    <3> QED
      BY <1>1, <3>1
  <2>2. F \in SUBSET (0..Len(es)) /\ F # {}
    BY <2>1
  <2> HIDE DEF F
  <2>3. PICK m \in F : \A k \in F : k <= m
    BY <1>1, <2>2, LargestNat
  <2>4. m \in 0..Len(es) /\ fits(m)
    BY <2>3 DEF F
  <2>5. ASSUME NEW k \in (m + 1)..Len(es) PROVE ~fits(k)
    <3>1. k \in 0..Len(es) /\ ~(k <= m)
      BY <1>1, <2>4
    <3> QED
      BY <2>3, <3>1 DEF F
  <2> QED
    BY <2>4, <2>5
<1>3. n \in 0..Len(es) /\ largest(n)
  BY <1>2
<1>4. WithinCaps(es) = SubSeq(es, 1, n)
  BY DEF WithinCaps
<1> HIDE DEF n
<1>5. /\ Part(SubSeq(es, 1, n), es) /\ Len(SubSeq(es, 1, n)) = n
      /\ n >= 1 => SubSeq(es, 1, n)[1] = es[1]
  BY <1>3, FirstIsPart
<1>6. ASSUME es # <<>>, Capacity > 0, StateBytes(es[1].state) <= MaxBytes
      PROVE  n >= 1
  <2>1. Len(es) >= 1 /\ 1 \in 0..Len(es)
    BY <1>1, <1>6, EmptyOrNot
  <2>2. /\ SubSeq(es, 1, 1) \in Seq(Blocks) /\ Len(SubSeq(es, 1, 1)) = 1
        /\ SubSeq(es, 1, 1)[1] = es[1]
    BY <2>1, FirstIsPart DEF Part
  <2>3. Bytes(SubSeq(es, 1, 1)) = StateBytes(es[1].state)
    BY <2>2, BytesOne
  <2>4. fits(1)
    BY <1>1, <1>6, <2>3
  <2>5. ~(1 \in (n + 1)..Len(es))
    BY <1>3, <2>4
  <2> QED
    BY <1>1, <1>3, <2>1, <2>5
<1>7. n >= 1 => SubSeq(es, 1, n) # <<>>
  BY <1>3, <1>5, EmptyOrNot DEF Part
<1> QED
  BY <1>3, <1>4, <1>5, <1>6, <1>7

LEMMA StateBytesNatural ==
    ASSUME NEW st, IsFiniteSet(st.kv)
    PROVE  StateBytes(st) \in Nat
<1>1. Cardinality(st.kv) \in Nat /\ SnapshotBytes \in Nat
  BY FS_CardinalityType, Limits
<1> QED
  BY <1>1 DEF StateBytes

\* An insertion keeps the blocks well formed and within the three caps, and the
\* new block, when it fits at all, is the most recently used.
LEMMA InsertedFacts ==
    ASSUME Good(entries), Fit(entries), NEW st \in KvStates
    PROVE  LET es == Inserted(st.owner, st.tokens, st)
           IN  /\ Good(es) /\ Fit(es)
               /\ Capacity > 0 /\ PerSession > 0 /\ StateBytes(st) <= MaxBytes =>
                     es # <<>> /\ KeyOf(es[1]) = Key(st.owner, st.tokens)
<1> DEFINE key == Key(st.owner, st.tokens)
           others == Keep(entries, {e \in Range(entries) : KeyOf(e) # key})
           new == <<BlockOf(st)>> \o others
           shared == WithinSession(new, st.owner)
           es == Inserted(st.owner, st.tokens, st)
<1>1. /\ BlockOf(st) \in Blocks /\ KeyOf(BlockOf(st)) = key
      /\ BlockOf(st).session = st.owner /\ BlockOf(st).state = st
      /\ [session |-> st.owner, hash |-> key[2], tokens |-> key[3],
          state |-> st] = BlockOf(st)
  BY DEF Blocks, BlockOf, KeyOf, Key
<1>2. Part(others, entries) /\ Good(others) /\ Fit(others)
  <2>1. Part(others, entries)
    BY KeepIsPart
  <2> HIDE DEF others
  <2> QED
    BY <2>1, PartFits
<1>3. \A e \in Range(others) : KeyOf(e) # key
  BY KeepTyped DEF Good
<1>4. es = IF Capacity = 0 THEN entries
           ELSE IF StateBytes(st) > MaxBytes THEN others
           ELSE WithinCaps(shared)
  BY <1>1 DEF Inserted
<1> HIDE DEF es, others
<1>5. /\ new \in Seq(Blocks) /\ new # <<>> /\ new[1] = BlockOf(st)
      /\ Range(new) = {BlockOf(st)} \cup Range(others) /\ Distinct(new)
  <2>1. others \in Seq(Blocks) /\ Distinct(others) /\ BlockOf(st) \notin Range(others)
    BY <1>1, <1>2, <1>3 DEF Good
  <2> QED
    BY <1>1, <2>1, PutFirst
<1> HIDE DEF new
<1>6. Good(new)
  BY <1>1, <1>2, <1>3, <1>5 DEF Good, Keyed
<1>7. /\ Part(shared, new)
      /\ Cardinality(Of(shared, st.owner)) <= PerSession
      /\ PerSession > 0 => shared # <<>> /\ shared[1] = BlockOf(st)
  BY <1>1, <1>5, <1>6, WithinSessionFacts
<1> HIDE DEF shared
<1>8. ASSUME NEW s \in Sessions PROVE Cardinality(Of(shared, s)) <= PerSession
  <2>1. CASE s = st.owner
    BY <1>7, <2>1
  <2>2. CASE s # st.owner
    <3>1. Of(shared, s) \subseteq Of(others, s)
      BY <1>1, <1>5, <1>7, <2>2 DEF Of, Part
    <3>2. IsFiniteSet(Of(others, s))
      <4>1. IsFiniteSet(Range(others)) /\ Of(others, s) \subseteq Range(others)
        BY <1>2, RangeSize DEF Good, Of
      <4> QED
        BY <4>1, FS_Subset
    <3>3. /\ Cardinality(Of(shared, s)) <= Cardinality(Of(others, s))
          /\ Cardinality(Of(shared, s)) \in Nat /\ Cardinality(Of(others, s)) \in Nat
      BY <3>1, <3>2, FS_Subset, FS_CardinalityType
    <3>4. Cardinality(Of(others, s)) <= PerSession /\ PerSession \in Nat
      BY <1>2, Limits DEF Fit
    <3> QED
      BY <3>3, <3>4
  <2> QED
    BY <2>1, <2>2
<1>9. Good(shared)
  BY <1>6, <1>7, PartIsGood
<1> DEFINE kept == WithinCaps(shared)
<1>10. /\ Part(kept, shared) /\ Len(kept) <= Capacity /\ Bytes(kept) <= MaxBytes
       /\ shared # <<>> /\ Capacity > 0 /\ StateBytes(shared[1].state) <= MaxBytes =>
             kept # <<>> /\ kept[1] = shared[1]
  BY <1>9, WithinCapsFacts
<1> HIDE DEF kept
<1>11. Good(kept) /\ Fit(kept)
  <2>1. Good(kept) /\ \A s \in Sessions : Cardinality(Of(kept, s)) <= Cardinality(Of(shared, s))
    BY <1>9, <1>10, PartIsGood
  <2>2. ASSUME NEW s \in Sessions PROVE Cardinality(Of(kept, s)) <= PerSession
    <3>1. IsFiniteSet(Range(shared)) /\ IsFiniteSet(Range(kept))
      BY <1>9, <2>1, RangeSize DEF Good
    <3>2. Of(shared, s) \subseteq Range(shared) /\ Of(kept, s) \subseteq Range(kept)
      BY DEF Of
    <3>3. Cardinality(Of(kept, s)) \in Nat /\ Cardinality(Of(shared, s)) \in Nat
      BY <3>1, <3>2, FS_Subset, FS_CardinalityType
    <3>4. PerSession \in Nat
      BY Limits
    <3> QED
      BY <1>8, <2>1, <3>3, <3>4
  <2> QED
    BY <1>10, <2>1, <2>2 DEF Fit
<1>12. Good(es) /\ Fit(es)
  BY <1>2, <1>4, <1>11 DEF kept
<1>13. ASSUME Capacity > 0, PerSession > 0, StateBytes(st) <= MaxBytes
       PROVE  es # <<>> /\ KeyOf(es[1]) = key
  <2>1. StateBytes(st) \in Nat /\ MaxBytes \in Nat /\ Capacity \in Nat
    BY StateBytesNatural, Limits DEF KvStates
  <2>2. es = kept
    BY <1>4, <1>13, <2>1 DEF kept
  <2>3. kept # <<>> /\ kept[1] = BlockOf(st)
    BY <1>1, <1>7, <1>10, <1>13
  <2> QED
    BY <1>1, <2>2, <2>3
<1> QED
  BY <1>12, <1>13 DEF es

\* There is always one more allocation.
LEMMA FreshNatural ==
    ASSUME Good(entries), IsFiniteSet(live.kv), live.kv \in SUBSET Nat
    PROVE  Fresh \in Nat
<1> DEFINE A == Allocations(entries) \cup live.kv
           n == Cardinality(A)
<1>1. IsFiniteSet(A)
  BY FiniteAllocations, FS_Union DEF Good
<1>2. n \in Nat
  BY <1>1, FS_CardinalityType
<1>3. \E a \in 1..(n + 1) : a \notin A
  <2> SUFFICES ASSUME 1..(n + 1) \subseteq A PROVE FALSE
    OBVIOUS
  <2>1. Cardinality(1..(n + 1)) = n + 1
    BY <1>2, FS_Interval
  <2>2. Cardinality(1..(n + 1)) <= n
    BY <1>1, FS_Subset
  <2> QED
    BY <1>2, <2>1, <2>2
<1>4. Fresh \in 1..(n + 1)
  BY <1>3 DEF Fresh
<1> QED
  BY <1>2, <1>4

-----------------------------------------------------------------------------
(* The inductive invariant.                                                 *)

RequestKey == Key(request.session, request.prompt)

\* The boundary of the request is not in the cache, or is its first block.
Absent == \A e \in Range(entries) : KeyOf(e) # RequestKey
Found == entries # <<>> /\ KeyOf(entries[1]) = RequestKey

\* The state in hand is that of the prompt of the request.
OwnState == live.owner = request.session /\ live.tokens = request.prompt

LiveTyped ==
    /\ live \in [owner : Sessions \cup {"none"}, tokens : Seq(Nat), kv : SUBSET Nat]
    /\ IsFiniteSet(live.kv)

\* A hit covers a part of the prompt; it covers all of it only if its block is
\* that of the request.
HitShape ==
    /\ reused \in 1..Len(request.prompt)
    /\ live.owner = request.session
    /\ live.tokens = SubSeq(request.prompt, 1, reused)
    /\ IF reused = Len(request.prompt) THEN Found ELSE Absent

PrefillShape ==
    /\ stage \in {"idle", "asked", "extend", "cold", "remember", "decode"}
    /\ stage # "idle" => request.session \in Sessions /\ request.prompt \in Prompts
    /\ stage = "extend" => HitShape
    /\ stage = "cold" => Absent
    /\ stage = "remember" => OwnState /\ Absent /\ request.prompt # <<>>
    /\ stage = "decode" =>
          /\ OwnState
          /\ ~skipped /\ StateBytes(live) <= MaxBytes /\ Capacity > 0 /\ PerSession > 0
               => Found

Inv == Good(entries) /\ Fit(entries) /\ LiveTyped /\ PrefillShape

LEMMA InitInv == Init => Inv
<1> SUFFICES ASSUME Init PROVE Inv
  OBVIOUS
<1>1. entries = <<>> /\ live = NoState /\ stage = "idle"
  BY DEF Init
<1>2. Range(entries) = {} /\ Len(entries) = 0 /\ entries \in Seq(Blocks)
  BY <1>1, RangeEmpty, EmptySeq
<1>3. Good(entries)
  BY <1>1, <1>2, DistinctEmptyOne DEF Good, Keyed
<1>4. Fit(entries)
  <2>1. Bytes(entries) = 0
    BY <1>1, BytesNone
  <2>2. \A s \in Sessions : Cardinality(Of(entries, s)) = 0
    BY <1>2, FS_EmptySet DEF Of
  <2> QED
    BY <1>2, <2>1, <2>2, Limits DEF Fit
<1>5. LiveTyped
  BY <1>1, FS_EmptySet, EmptySeq DEF LiveTyped, NoState
<1> QED
  BY <1>1, <1>3, <1>4, <1>5 DEF Inv, PrefillShape

\* A block under the key of the whole prompt is a boundary of it.
LEMMA WholeBoundary ==
    ASSUME Good(entries), NEW session, NEW prompt \in Seq(Nat), NEW i \in DOMAIN entries,
           KeyOf(entries[i]) = Key(session, prompt)
    PROVE  i \in Boundaries(session, prompt) /\ entries[i].tokens = Len(prompt)
<1>1. entries[i] \in Blocks
  BY ElementOfSeq DEF Good
<1>2. entries[i].state.tokens = prompt /\ prompt # <<>> /\ entries[i].tokens = Len(prompt)
  BY <1>1, BlockFacts, KeyTells
<1>3. SubSeq(prompt, 1, Len(prompt)) = prompt /\ Len(prompt) \in 1..Len(prompt)
  BY <1>2, SubSeqFull, EmptyOrNot
<1> QED
  BY <1>2, <1>3 DEF Boundaries

\* The hit is a boundary of the prompt in its session, and the deepest one.
LEMMA HitFacts ==
    ASSUME Good(entries), NEW session, NEW prompt \in Seq(Nat),
           Boundaries(session, prompt) # {}
    PROVE  LET hit == Hit(session, prompt)
               n == entries[hit].tokens
           IN  /\ hit \in DOMAIN entries /\ entries[hit] \in Blocks
               /\ n \in 1..Len(prompt)
               /\ KeyOf(entries[hit]) = Key(session, SubSeq(prompt, 1, n))
               /\ n # Len(prompt) =>
                     \A e \in Range(entries) : KeyOf(e) # Key(session, prompt)
<1> DEFINE B == Boundaries(session, prompt)
<1>1. ASSUME NEW i \in B
      PROVE  /\ i \in DOMAIN entries /\ entries[i] \in Blocks
             /\ entries[i].tokens \in 1..Len(prompt)
             /\ KeyOf(entries[i]) = Key(session, SubSeq(prompt, 1, entries[i].tokens))
  <2>1. /\ i \in DOMAIN entries
        /\ \E n \in 1..Len(prompt) : KeyOf(entries[i]) = Key(session, SubSeq(prompt, 1, n))
    BY <1>1 DEF Boundaries
  <2>2. PICK n \in 1..Len(prompt) : KeyOf(entries[i]) = Key(session, SubSeq(prompt, 1, n))
    BY <2>1
  <2>3. entries[i] \in Blocks
    BY <2>1, ElementOfSeq DEF Good
  <2>4. Len(prompt) \in Nat /\ n \in 0..Len(prompt)
    BY LenProperties
  <2>5. Len(SubSeq(prompt, 1, n)) = n
    BY <2>4, FirstOnes
  <2>6. entries[i].tokens = n
    <3>1. PICK t : t = SubSeq(prompt, 1, n)
      OBVIOUS
    <3>2. entries[i].tokens = Len(t)
      BY <2>2, <2>3, <3>1, BlockHas
    <3> QED
      BY <2>5, <3>1, <3>2
  <2> QED
    BY <2>1, <2>2, <2>3, <2>6
<1> HIDE DEF B
<1>2. \E i \in B : \A j \in B : entries[j].tokens <= entries[i].tokens
  <2> DEFINE depths == {entries[i].tokens : i \in B}
  <2>1. Len(prompt) \in Nat /\ depths \in SUBSET (0..Len(prompt)) /\ depths # {}
    BY <1>1, LenProperties DEF B
  <2>2. PICK d \in depths : \A y \in depths : y <= d
    BY <2>1, LargestNat
  <2> QED
    BY <2>2
<1>3. PICK hit : hit = Hit(session, prompt)
  OBVIOUS
<1>4. hit \in B /\ \A j \in B : entries[j].tokens <= entries[hit].tokens
  BY <1>2, <1>3 DEF Hit, B
<1>5. ASSUME entries[hit].tokens # Len(prompt), NEW e \in Range(entries),
             KeyOf(e) = Key(session, prompt)
      PROVE  FALSE
  <2>1. PICK j \in DOMAIN entries : e = entries[j]
    BY DEF Range
  <2>2. j \in B /\ entries[j].tokens = Len(prompt)
    BY <1>5, <2>1, WholeBoundary DEF B
  <2>3. entries[hit].tokens \in 1..Len(prompt) /\ Len(prompt) \in Nat
    BY <1>1, <1>4, LenProperties
  <2> QED
    BY <1>4, <1>5, <2>2, <2>3
<1> QED
  BY <1>1, <1>3, <1>4, <1>5

\* Where nothing is found the prompt has no block of its own.
LEMMA NothingFound ==
    ASSUME Inv, stage = "asked", Capacity = 0 \/ Boundaries(request.session, request.prompt) = {}
    PROVE  Absent
<1> SUFFICES ASSUME NEW e \in Range(entries), KeyOf(e) = RequestKey PROVE FALSE
  BY DEF Absent
<1>1. request.prompt \in Seq(Nat)
  BY Limits DEF Inv, PrefillShape
<1>2. PICK i \in DOMAIN entries : e = entries[i]
  BY DEF Range
<1>3. i \in Boundaries(request.session, request.prompt)
  BY <1>1, <1>2, WholeBoundary DEF Inv, RequestKey
<1>4. Len(entries) \in Nat /\ Len(entries) <= Capacity /\ Len(entries) >= 1
  <2>1. entries \in Seq(Blocks) /\ entries # <<>>
    BY <1>2, EmptySeq DEF Inv, Good
  <2> QED
    BY <2>1, EmptyOrNot DEF Inv, Fit
<1> QED
  BY <1>3, <1>4

\* Blocks that go, or change places, leave the rest sound.
LEMMA FewerBlocks ==
    ASSUME Inv, Part(entries', entries)
    PROVE  /\ Good(entries)' /\ Fit(entries)'
           /\ UNCHANGED request /\ Absent => Absent'
<1>1. Good(entries') /\ Fit(entries')
  BY PartFits DEF Inv
<1>2. UNCHANGED request /\ Absent => Absent'
  BY DEF Absent, RequestKey, Part
<1> QED
  BY <1>1, <1>2

\* A prefill from nothing gives a state of the prompt of the request.
LEMMA ColdFacts ==
    ASSUME Inv, stage # "idle", live' = Cold(request.session, request.prompt)
    PROVE  /\ LiveTyped'
           /\ live'.owner = request.session /\ live'.tokens = request.prompt
<1>1. Fresh \in Nat
  BY FreshNatural DEF Inv, LiveTyped
<1>2. request.session \in Sessions /\ request.prompt \in Seq(Nat)
  BY Limits DEF Inv, PrefillShape
<1> QED
  BY <1>1, <1>2, FS_Singleton DEF LiveTyped, Cold

LEMMA MatchInv == Inv /\ Match => Inv'
<1> SUFFICES ASSUME Inv, Match PROVE Inv'
  OBVIOUS
<1>1. /\ request.session \in Sessions /\ request.prompt \in Prompts
      /\ request.prompt \in Seq(Nat) /\ stage = "asked" /\ request' = request
      /\ Boundaries(request.session, request.prompt) # {}
  BY Limits DEF Inv, PrefillShape, Match
<1>2. PICK hit : hit = Hit(request.session, request.prompt)
  OBVIOUS
<1>3. PICK n : n = entries[hit].tokens
  OBVIOUS
<1>4. /\ hit \in DOMAIN entries /\ entries[hit] \in Blocks /\ n \in 1..Len(request.prompt)
      /\ KeyOf(entries[hit]) = Key(request.session, SubSeq(request.prompt, 1, n))
      /\ n # Len(request.prompt) => Absent
  BY <1>1, <1>2, <1>3, HitFacts DEF Inv, Absent, RequestKey
<1>5. /\ entries' = MovedToFront(hit)
      /\ \/ /\ reused' = n /\ live' = entries[hit].state /\ stage' = "extend"
         \/ /\ 2 * n < Len(request.prompt) /\ stage' = "cold" /\ live' = live
  BY <1>2, <1>3 DEF Match
<1>6. /\ Part(entries', entries) /\ entries' # <<>> /\ entries'[1] = entries[hit]
  BY <1>4, <1>5, MovedIsPart DEF Inv
<1>7. Good(entries)' /\ Fit(entries)' /\ (Absent => Absent')
  BY <1>1, <1>6, FewerBlocks
<1>8. Len(request.prompt) \in Nat /\ n \in Nat
  BY <1>1, <1>4, LenProperties
<1>9. CASE reused' = n /\ live' = entries[hit].state /\ stage' = "extend"
  <2>1. live'.owner = request.session /\ live'.tokens = SubSeq(request.prompt, 1, n)
    <3>1. PICK t : t = SubSeq(request.prompt, 1, n)
      OBVIOUS
    <3>2. PICK e \in Blocks : e = entries[hit]
      BY <1>4
    <3>3. KeyOf(e) = Key(request.session, t)
      BY <1>4, <3>1, <3>2
    <3>4. e.state.owner = request.session /\ e.state.tokens = t
      BY <3>3, BlockHas
    <3> QED
      BY <1>9, <3>1, <3>2, <3>4
  <2>2. LiveTyped'
    <3>1. live' \in States /\ IsFiniteSet(live'.kv)
      BY <1>4, <1>9, BlockFacts
    <3> QED
      BY <3>1, Limits DEF LiveTyped, States
  <2>3. n = Len(request.prompt) => Found'
    <3>1. SubSeq(request.prompt, 1, Len(request.prompt)) = request.prompt
      BY <1>1, SubSeqFull
    <3> QED
      BY <1>1, <1>4, <1>6, <3>1 DEF Found, RequestKey
  <2>4. HitShape'
    BY <1>1, <1>4, <1>7, <1>9, <2>1, <2>3 DEF HitShape
  <2> QED
    BY <1>1, <1>7, <1>9, <2>2, <2>4 DEF Inv, PrefillShape
<1>10. CASE 2 * n < Len(request.prompt) /\ stage' = "cold" /\ live' = live
  <2>1. n # Len(request.prompt)
    BY <1>8, <1>10
  <2>2. LiveTyped'
    BY <1>10 DEF Inv, LiveTyped
  <2> QED
    BY <1>1, <1>4, <1>7, <1>10, <2>1, <2>2 DEF Inv, PrefillShape
<1> QED
  BY <1>5, <1>9, <1>10

LEMMA ExtendInv == Inv /\ Extend => Inv'
<1> SUFFICES ASSUME Inv, Extend PROVE Inv'
  OBVIOUS
<1>1. /\ request.session \in Sessions /\ request.prompt \in Prompts
      /\ request.prompt \in Seq(Nat) /\ stage = "extend" /\ HitShape
      /\ UNCHANGED <<request, reused, skipped>>
  BY Limits DEF Inv, PrefillShape, Extend
<1>2. CASE reused = Len(request.prompt)
  <2>1. stage' = "decode" /\ UNCHANGED <<entries, live>>
    BY <1>2 DEF Extend
  <2>2. OwnState /\ Found
    <3>1. SubSeq(request.prompt, 1, Len(request.prompt)) = request.prompt
      BY <1>1, SubSeqFull
    <3> QED
      BY <1>1, <1>2, <3>1 DEF HitShape, OwnState
  <2> QED
    BY <1>1, <2>1, <2>2
       DEF Inv, PrefillShape, LiveTyped, OwnState, Found, RequestKey
<1>3. CASE reused # Len(request.prompt)
  <2>1. PICK kv \in ExtendedKv :
           /\ live' = [live EXCEPT !.tokens = @ \o SubSeq(request.prompt, reused + 1,
                                                         Len(request.prompt)),
                                   !.kv = kv]
           /\ entries' = IF live.kv \cap kv = {}
                         THEN WithoutSuperseded(request.session, live.kv, kv)
                         ELSE entries
           /\ stage' = "remember"
    BY <1>3 DEF Extend
  <2>2. Part(entries', entries)
    <3>1. Part(entries, entries)
      BY DEF Inv, Good, Part
    <3>2. Part(WithoutSuperseded(request.session, live.kv, kv), entries)
      BY KeepIsPart DEF Inv, WithoutSuperseded
    <3> QED
      BY <2>1, <3>1, <3>2
  <2>3. Absent
    BY <1>1, <1>3 DEF HitShape
  <2>4. Good(entries)' /\ Fit(entries)' /\ Absent'
    BY <1>1, <2>2, <2>3, FewerBlocks
  <2>5. kv \in SUBSET Nat /\ IsFiniteSet(kv)
    <3>1. Fresh \in Nat /\ live.kv \in SUBSET Nat /\ IsFiniteSet(live.kv)
      BY FreshNatural DEF Inv, LiveTyped
    <3>2. IsFiniteSet({Fresh}) /\ IsFiniteSet(live.kv \cup {Fresh})
      BY <3>1, FS_Singleton, FS_AddElement
    <3> QED
      BY <2>1, <3>1, <3>2 DEF ExtendedKv
  <2>6. SubSeq(request.prompt, 1, reused)
          \o SubSeq(request.prompt, reused + 1, Len(request.prompt)) = request.prompt
    <3>1. reused \in 1..Len(request.prompt) /\ Len(request.prompt) \in Nat
      BY <1>1, LenProperties DEF HitShape
    <3> QED
      BY <1>1, <3>1, ConcatAdjacentSubSeq, SubSeqFull
  <2>7. /\ live'.owner = request.session /\ live'.tokens = request.prompt
        /\ live'.kv = kv /\ live' \in [owner : Sessions \cup {"none"}, tokens : Seq(Nat),
                                       kv : SUBSET Nat]
    <3>1. live.owner = request.session /\ live.tokens = SubSeq(request.prompt, 1, reused)
      BY <1>1 DEF HitShape
    <3>2. live \in [owner : Sessions \cup {"none"}, tokens : Seq(Nat), kv : SUBSET Nat]
      BY DEF Inv, LiveTyped
    <3>3. live.tokens \o SubSeq(request.prompt, reused + 1, Len(request.prompt))
            = request.prompt
      BY <2>6, <3>1
    <3>4. live' = [live EXCEPT !.tokens = request.prompt, !.kv = kv]
      BY <2>1, <3>3
    <3> QED
      BY <1>1, <2>5, <3>1, <3>2, <3>4
  <2>8. request.prompt # <<>>
    BY <1>1, EmptyOrNot DEF HitShape
  <2> QED
    BY <1>1, <2>1, <2>4, <2>5, <2>7, <2>8
       DEF Inv, PrefillShape, LiveTyped, OwnState
<1> QED
  BY <1>2, <1>3

LEMMA RememberInv == Inv /\ Remember => Inv'
<1> SUFFICES ASSUME Inv, Remember PROVE Inv'
  OBVIOUS
<1>1. /\ stage = "remember" /\ stage' = "decode"
      /\ entries' = Inserted(request.session, request.prompt, live)
      /\ UNCHANGED <<request, live, reused, skipped>>
  BY DEF Remember
<1>2. /\ OwnState /\ request.session \in Sessions /\ request.prompt \in Prompts
      /\ request.prompt # <<>>
  BY <1>1 DEF Inv, PrefillShape
<1>3. live \in KvStates
  BY <1>2 DEF Inv, LiveTyped, OwnState, KvStates, States
<1>4. entries' = Inserted(live.owner, live.tokens, live)
  BY <1>1, <1>2 DEF OwnState
<1>5. /\ Good(entries') /\ Fit(entries')
      /\ Capacity > 0 /\ PerSession > 0 /\ StateBytes(live) <= MaxBytes =>
            entries' # <<>> /\ KeyOf(entries'[1]) = Key(live.owner, live.tokens)
  BY <1>3, <1>4, InsertedFacts DEF Inv
<1> QED
  BY <1>1, <1>2, <1>5
     DEF Inv, LiveTyped, PrefillShape, OwnState, Found, RequestKey

\* The other steps of a prefill: the cache only loses its last block.
LEMMA OtherInv ==
    ASSUME Inv, \/ Ask \/ Bypass \/ Miss \/ PrefillCold \/ MakeRoom \/ Skip
                \/ Decode \/ Fail \/ Purge \/ UNCHANGED vars
    PROVE  Inv'
<1>1. CASE Ask
  BY <1>1 DEF Ask, Inv, LiveTyped, PrefillShape
<1>2. CASE Bypass
  <2>1. /\ LiveTyped' /\ live'.owner = request.session /\ live'.tokens = request.prompt
    BY <1>2, ColdFacts DEF Bypass
  <2> QED
    BY <1>2, <2>1 DEF Bypass, Inv, PrefillShape, OwnState
<1>3. CASE Miss
  <2>1. Absent
    BY <1>3, NothingFound DEF Miss
  <2> QED
    BY <1>3, <2>1 DEF Miss, Inv, LiveTyped, PrefillShape, Absent, RequestKey
<1>4. CASE PrefillCold
  <2>1. /\ LiveTyped' /\ live'.owner = request.session /\ live'.tokens = request.prompt
    BY <1>4, ColdFacts DEF PrefillCold
  <2> QED
    BY <1>4, <2>1 DEF PrefillCold, Inv, PrefillShape, OwnState, Absent, RequestKey
<1>5. CASE MakeRoom \/ Purge
  <2>1. Part(entries', entries)
    BY <1>5, FrontIsPart DEF MakeRoom, Purge, Inv
  <2>2. UNCHANGED <<stage, request, live, reused, skipped>>
        /\ stage \in {"remember", "idle"}
    BY <1>5 DEF MakeRoom, Purge
  <2>3. Good(entries)' /\ Fit(entries)' /\ (Absent => Absent')
    BY <2>1, <2>2, FewerBlocks
  <2> QED
    BY <2>2, <2>3 DEF Inv, LiveTyped, PrefillShape, OwnState
<1>6. CASE Skip
  BY <1>6 DEF Skip, Inv, LiveTyped, PrefillShape, OwnState
<1>7. CASE Decode \/ Fail
  <2>1. stage' = "idle" /\ live' = NoState /\ UNCHANGED entries
    BY <1>7 DEF Decode, Fail, Return
  <2>2. LiveTyped'
    BY <2>1, FS_EmptySet, EmptySeq DEF LiveTyped, NoState
  <2> QED
    BY <2>1, <2>2 DEF Inv, PrefillShape
<1>8. CASE UNCHANGED vars
  BY <1>8 DEF vars, Inv, LiveTyped, PrefillShape, HitShape, OwnState, Found, Absent,
     RequestKey
<1> QED
  BY <1>1, <1>2, <1>3, <1>4, <1>5, <1>6, <1>7, <1>8

LEMMA Invariance == Spec => []Inv
<1>1. Inv /\ [Next]_vars => Inv'
  BY MatchInv, ExtendInv, RememberInv, OtherInv DEF Next
<1> QED
  BY <1>1, InitInv, PTL DEF Spec

-----------------------------------------------------------------------------
(* The theorems.                                                            *)

\* The blocks are well formed, each under a key of its own and with the state of the
\* prompt its key stands for, and the three caps hold, for any sessions, prompts and
\* caps, whatever the order of evictions and whatever the blocks share.
THEOREM CacheCorrect == Spec => []CacheSound
<1>1. ASSUME Inv PROVE CacheSound
  <2>1. Good(entries) /\ Fit(entries)
    BY <1>1 DEF Inv
  <2>2. ASSUME NEW i \in DOMAIN entries
        PROVE  LET e == entries[i]
               IN  /\ e.state \in States
                   /\ KeyOf(e) = Key(e.state.owner, e.state.tokens)
                   /\ \A j \in DOMAIN entries : KeyOf(entries[j]) = KeyOf(e) => i = j
    <3>1. entries[i] \in Blocks /\ entries[i] \in Range(entries)
      BY <2>1, ElementOfSeq DEF Good, Range
    <3>2. \A j \in DOMAIN entries : entries[j] \in Range(entries)
      BY DEF Range
    <3>3. \A j \in DOMAIN entries : KeyOf(entries[j]) = KeyOf(entries[i]) => i = j
      BY <2>1, <3>1, <3>2 DEF Good, Keyed, Distinct
    <3> QED
      BY <3>1, <3>3, BlockFacts
  <2>3. ASSUME NEW s \in Sessions
        PROVE  Cardinality({i \in DOMAIN entries : entries[i].session = s}) <= PerSession
    <3> DEFINE T == {e \in Range(entries) : e.session = s}
    <3>1. {i \in DOMAIN entries : entries[i].session = s} = At(entries, T)
      BY DEF At, Range
    <3>2. Range(entries) \cap T = Of(entries, s)
      BY DEF Of
    <3> HIDE DEF T
    <3>3. Cardinality(At(entries, T)) = Cardinality(Of(entries, s))
      BY <2>1, <3>2, PlacesCount DEF Good
    <3> QED
      BY <2>1, <3>1, <3>3 DEF Fit
  <2> QED
    BY <2>1, <2>2, <2>3 DEF CacheSound, Fit
<1> QED
  BY <1>1, Invariance, PTL

\* A request is decoded from the state of its own prompt in its own session; the
\* boundary it adds is new, and no eviction made to fit it takes it away.
THEOREM ServedOwnState == Spec => []ServedOwn
<1>1. Inv => ServedOwn
  BY DEF Inv, PrefillShape, ServedOwn, OwnState, Absent, Found, RequestKey
<1> QED
  BY <1>1, Invariance, PTL
=============================================================================
