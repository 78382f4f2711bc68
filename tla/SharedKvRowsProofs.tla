-------------------------- MODULE SharedKvRowsProofs --------------------------
(***************************************************************************)
(* Proofs about SharedKvRows, for every number of views, writers and rows. *)
(***************************************************************************)
EXTENDS SharedKvRows, FiniteSetTheorems, TLAPS

-----------------------------------------------------------------------------
(* The register. *)

\* A view is cut to less than it has.
CutsShorten ==
    \A v \in Views : cut[v] # -1 => Live(v) /\ cut[v] \in 0 .. Rows /\ cut[v] < len[v]

Registered == TypeOK /\ CutsShorten /\ RegistryExact

LEMMA Counts ==
    ASSUME NEW a, NEW end
    PROVE  /\ IsFiniteSet(Ending(a, end)) /\ Cardinality(Ending(a, end)) \in Nat
           /\ IsFiniteSet(CutTo(a, end)) /\ Cardinality(CutTo(a, end)) \in Nat
<1>1. Ending(a, end) \in SUBSET Views /\ CutTo(a, end) \in SUBSET Views
  BY DEF Ending, CutTo
<1>2. IsFiniteSet(Ending(a, end)) /\ IsFiniteSet(CutTo(a, end))
  BY <1>1, SizesAssumption, FS_Subset
<1> QED
  BY <1>2, FS_CardinalityType

LEMMA OneMore ==
    ASSUME NEW S, NEW T, NEW x, IsFiniteSet(S), x \notin S, T = S \cup {x}
    PROVE  Cardinality(T) = Cardinality(S) + 1
BY FS_AddElement

LEMMA OneLess ==
    ASSUME NEW S, NEW T, NEW x, IsFiniteSet(S), x \in S, T = S \ {x}
    PROVE  Cardinality(T) = Cardinality(S) - 1
BY FS_RemoveElement

\* The end of a live view is counted, and above it if another view ends there.
LEMMA EndCounted ==
    ASSUME Registered, NEW v \in Views, Live(v)
    PROVE  /\ of[v] \in Sides /\ len[v] \in 0 .. Rows
           /\ live[of[v]][len[v]] \in Nat \ {0}
<1>1. of[v] \in Sides /\ len[v] \in 0 .. Rows
  BY DEF Registered, TypeOK, Live
<1>2. v \in Ending(of[v], len[v])
  BY DEF Ending
<1>3. Cardinality(Ending(of[v], len[v])) # 0
  BY <1>2, Counts, FS_EmptySet
<1>4. /\ Cardinality(Ending(of[v], len[v])) \in Nat
      /\ Cardinality(CutTo(of[v], len[v])) \in Nat
  BY Counts
<1>5. live[of[v]][len[v]]
        = Cardinality(Ending(of[v], len[v])) + Cardinality(CutTo(of[v], len[v]))
  BY <1>1 DEF Registered, RegistryExact
<1> QED
  BY <1>1, <1>3, <1>4, <1>5

\* What is_whole says, when the register is exact: no view of the buffer is longer.
LEMMA WholeLongest ==
    ASSUME Registered, NEW v \in Views, Live(v), Whole(v),
           NEW u \in Views, of[u] = of[v]
    PROVE  len[u] <= len[v]
<1> SUFFICES ASSUME len[u] > len[v] PROVE FALSE
  BY DEF Registered, TypeOK
<1>1. Live(u) /\ len[u] \in len[v] + 1 .. Rows
  BY DEF Registered, TypeOK, Live
<1>2. live[of[u]][len[u]] = 0
  BY <1>1 DEF Whole
<1> QED
  BY <1>1, <1>2, EndCounted

\* Of a step that changes the views, what the register has to follow.
Follows(a, end) ==
    live'[a][end] = Cardinality(Ending(a, end)') + Cardinality(CutTo(a, end)')

LEMMA AddType ==
    ASSUME TypeOK, NEW a \in Sides, NEW n \in 0 .. Rows
    PROVE  /\ Add(a, n) \in [Sides -> [0 .. Rows -> Nat]]
           /\ \A b \in Sides, end \in 0 .. Rows :
                 Add(a, n)[b][end] = IF b = a /\ end = n
                                       THEN live[b][end] + 1 ELSE live[b][end]
<1> DEFINE row == [live[a] EXCEPT ![n] = @ + 1]
<1>1. live \in [Sides -> [0 .. Rows -> Nat]] /\ live[a] \in [0 .. Rows -> Nat]
  BY DEF TypeOK
<1>2. row \in [0 .. Rows -> Nat]
  BY <1>1
<1>3. \A end \in 0 .. Rows :
         row[end] = IF end = n THEN live[a][end] + 1 ELSE live[a][end]
  BY <1>1
<1>4. Add(a, n) = [live EXCEPT ![a] = row]
  BY <1>1 DEF Add
<1> HIDE DEF row
<1>5. Add(a, n) \in [Sides -> [0 .. Rows -> Nat]]
  BY <1>1, <1>2, <1>4
<1>6. \A b \in Sides : Add(a, n)[b] = IF b = a THEN row ELSE live[b]
  BY <1>1, <1>4
<1> QED
  BY <1>3, <1>5, <1>6

LEMMA RemoveType ==
    ASSUME TypeOK, NEW a \in Sides, NEW n \in 0 .. Rows, live[a][n] # 0
    PROVE  /\ Remove(a, n) \in [Sides -> [0 .. Rows -> Nat]]
           /\ \A b \in Sides, end \in 0 .. Rows :
                 Remove(a, n)[b][end] = IF b = a /\ end = n
                                          THEN live[b][end] - 1 ELSE live[b][end]
<1> DEFINE row == [live[a] EXCEPT ![n] = @ - 1]
<1>1. live \in [Sides -> [0 .. Rows -> Nat]] /\ live[a] \in [0 .. Rows -> Nat]
  BY DEF TypeOK
<1>2. row \in [0 .. Rows -> Nat]
  BY <1>1
<1>3. \A end \in 0 .. Rows :
         row[end] = IF end = n THEN live[a][end] - 1 ELSE live[a][end]
  BY <1>1
<1>4. Remove(a, n) = [live EXCEPT ![a] = row]
  BY <1>1 DEF Remove
<1> HIDE DEF row
<1>5. Remove(a, n) \in [Sides -> [0 .. Rows -> Nat]]
  BY <1>1, <1>2, <1>4
<1>6. \A b \in Sides : Remove(a, n)[b] = IF b = a THEN row ELSE live[b]
  BY <1>1, <1>4
<1> QED
  BY <1>3, <1>5, <1>6

LEMMA RegisteredUnchanged ==
    ASSUME Registered, UNCHANGED <<views, live>>, TypeOK'
    PROVE  Registered'
<1>1. \A a, end : Ending(a, end)' = Ending(a, end) /\ CutTo(a, end)' = CutTo(a, end)
  BY DEF Ending, CutTo, views
<1>2. RegistryExact'
  BY <1>1 DEF Registered, RegistryExact, views
<1>3. CutsShorten'
  BY DEF Registered, CutsShorten, Live, views
<1> QED
  BY <1>2, <1>3 DEF Registered

\* A view appears: Clone, and Extended as part of a publication.
LEMMA RegisteredNew ==
    ASSUME Registered, NEW new \in Views, ~Live(new),
           NEW a \in Sides, NEW n \in 0 .. Rows,
           of' = [of EXCEPT ![new] = a], len' = [len EXCEPT ![new] = n],
           live' = Add(a, n), cut' = cut, TypeOK'
    PROVE  Registered'
<1>1. cut[new] = -1 /\ of[new] = "none"
  BY DEF Registered, CutsShorten, Live
<1>2. \A v \in Views : /\ of'[v] = IF v = new THEN a ELSE of[v]
                       /\ len'[v] = IF v = new THEN n ELSE len[v]
  BY DEF Registered, TypeOK
<1>3. CutsShorten'
  BY <1>1, <1>2 DEF Registered, CutsShorten, Live
<1>4. ASSUME NEW b \in Sides, NEW end \in 0 .. Rows
      PROVE  Follows(b, end)
  <2>1. b # "none" /\ end # -1
    BY DEF Sides
  <2>2. CutTo(b, end)' = CutTo(b, end)
    BY <1>1, <1>2, <2>1 DEF CutTo
  <2>3. CASE b = a /\ end = n
    <3>1. Ending(b, end)' = Ending(b, end) \cup {new} /\ new \notin Ending(b, end)
      BY <1>1, <1>2, <2>1, <2>3 DEF Ending
    <3>2. Cardinality(Ending(b, end)') = Cardinality(Ending(b, end)) + 1
      BY <3>1, Counts, OneMore
    <3>3. live'[b][end] = live[b][end] + 1
      BY <2>3, AddType DEF Registered
    <3> QED
      BY <2>2, <3>2, <3>3, Counts DEF Registered, RegistryExact, Follows
  <2>4. CASE ~(b = a /\ end = n)
    <3>1. Ending(b, end)' = Ending(b, end)
      BY <1>1, <1>2, <2>1, <2>4 DEF Ending
    <3>2. live'[b][end] = live[b][end]
      BY <2>4, AddType DEF Registered
    <3> QED
      BY <2>2, <3>1, <3>2 DEF Registered, RegistryExact, Follows
  <2> QED
    BY <2>3, <2>4
<1>5. RegistryExact'
  BY <1>4 DEF RegistryExact, Follows
<1> QED
  BY <1>3, <1>5 DEF Registered

LEMMA RegisteredDrop ==
    ASSUME Registered, NEW v \in Views, Drop(v)
    PROVE  live' \in [Sides -> [0 .. Rows -> Nat]] /\ RegistryExact' /\ CutsShorten'
<1> DEFINE a == of[v]  n == len[v]
<1>1. /\ Live(v) /\ cut[v] = -1 /\ cut' = cut /\ len' = len
      /\ of' = [of EXCEPT ![v] = "none"] /\ live' = Remove(a, n)
  BY DEF Drop, Owned
<1>2. a \in Sides /\ n \in 0 .. Rows /\ live[a][n] \in Nat \ {0}
  BY <1>1, EndCounted
<1>3. TypeOK /\ live[a][n] # 0
  BY <1>2 DEF Registered
<1>4. /\ live' \in [Sides -> [0 .. Rows -> Nat]]
      /\ \A b \in Sides, end \in 0 .. Rows :
            live'[b][end] = IF b = a /\ end = n THEN live[b][end] - 1 ELSE live[b][end]
  BY <1>1, <1>2, <1>3, RemoveType
<1>5. \A u \in Views : of'[u] = IF u = v THEN "none" ELSE of[u]
  BY <1>1, <1>3 DEF TypeOK
<1>6. CutsShorten'
  BY <1>1, <1>5 DEF Registered, CutsShorten, Live
<1> HIDE DEF a, n
<1>7. ASSUME NEW b \in Sides, NEW end \in 0 .. Rows
      PROVE  Follows(b, end)
  <2>1. b # "none" /\ end # -1
    BY DEF Sides
  <2>2. CutTo(b, end)' = CutTo(b, end)
    BY <1>1, <1>5, <2>1 DEF CutTo
  <2>3. CASE b = a /\ end = n
    <3>1. Ending(b, end)' = Ending(b, end) \ {v} /\ v \in Ending(b, end)
      BY <1>1, <1>5, <2>1, <2>3 DEF Ending, a, n
    <3>2. Cardinality(Ending(b, end)') = Cardinality(Ending(b, end)) - 1
      BY <3>1, Counts, OneLess
    <3> QED
      BY <1>4, <2>2, <2>3, <3>2, Counts DEF Registered, RegistryExact, Follows
  <2>4. CASE ~(b = a /\ end = n)
    <3>1. Ending(b, end)' = Ending(b, end)
      BY <1>1, <1>5, <2>1, <2>4 DEF Ending, a, n
    <3> QED
      BY <1>4, <2>2, <2>4, <3>1 DEF Registered, RegistryExact, Follows
  <2> QED
    BY <2>3, <2>4
<1> QED
  BY <1>4, <1>6, <1>7 DEF RegistryExact, Follows

LEMMA RegisteredCutBegin ==
    ASSUME Registered, NEW v \in Views, NEW n \in 0 .. Rows, CutBegin(v, n)
    PROVE  live' \in [Sides -> [0 .. Rows -> Nat]] /\ RegistryExact' /\ CutsShorten'
<1> DEFINE a == of[v]
<1>1. /\ Live(v) /\ cut[v] = -1 /\ n < len[v] /\ of' = of /\ len' = len
      /\ cut' = [cut EXCEPT ![v] = n] /\ live' = Add(a, n)
  BY DEF CutBegin, Owned
<1>2. a \in Sides /\ TypeOK
  BY <1>1 DEF Registered, TypeOK, Live
<1> HIDE DEF a
<1>4. /\ live' \in [Sides -> [0 .. Rows -> Nat]]
      /\ \A b \in Sides, end \in 0 .. Rows :
            live'[b][end] = IF b = a /\ end = n THEN live[b][end] + 1 ELSE live[b][end]
  BY <1>1, <1>2, AddType
<1>5. \A u \in Views : cut'[u] = IF u = v THEN n ELSE cut[u]
  BY <1>1, <1>2 DEF TypeOK
<1>6. CutsShorten'
  BY <1>1, <1>5 DEF Registered, CutsShorten, Live
<1>7. ASSUME NEW b \in Sides, NEW end \in 0 .. Rows
      PROVE  Follows(b, end)
  <2>1. end # -1
    OBVIOUS
  <2>2. Ending(b, end)' = Ending(b, end)
    BY <1>1 DEF Ending
  <2>3. CASE b = a /\ end = n
    <3>1. CutTo(b, end)' = CutTo(b, end) \cup {v} /\ v \notin CutTo(b, end)
      BY <1>1, <1>5, <2>1, <2>3 DEF CutTo, a
    <3>2. Cardinality(CutTo(b, end)') = Cardinality(CutTo(b, end)) + 1
      BY <3>1, Counts, OneMore
    <3> QED
      BY <1>4, <2>2, <2>3, <3>2, Counts DEF Registered, RegistryExact, Follows
  <2>4. CASE ~(b = a /\ end = n)
    <3>1. CutTo(b, end)' = CutTo(b, end)
      BY <1>1, <1>5, <2>1, <2>4 DEF CutTo, a
    <3> QED
      BY <1>4, <2>2, <2>4, <3>1 DEF Registered, RegistryExact, Follows
  <2> QED
    BY <2>3, <2>4
<1> QED
  BY <1>4, <1>6, <1>7 DEF RegistryExact, Follows

\* The old end of the view loses its count; the new one keeps it, no longer that
\* of a cut but of a view.
LEMMA RegisteredCutEnd ==
    ASSUME Registered, NEW v \in Views, CutEnd(v)
    PROVE  live' \in [Sides -> [0 .. Rows -> Nat]] /\ RegistryExact' /\ CutsShorten'
<1> DEFINE a == of[v]  old == len[v]  n == cut[v]
<1>1. /\ Live(v) /\ n # -1 /\ of' = of
      /\ len' = [len EXCEPT ![v] = n] /\ cut' = [cut EXCEPT ![v] = -1]
      /\ live' = Remove(a, old)
  BY DEF CutEnd
<1>2. /\ a \in Sides /\ old \in 0 .. Rows /\ n \in 0 .. Rows /\ n < old
      /\ live[a][old] \in Nat \ {0}
  BY <1>1, EndCounted DEF Registered, CutsShorten
<1>3. TypeOK /\ live[a][old] # 0
  BY <1>2 DEF Registered
<1>4. /\ live' \in [Sides -> [0 .. Rows -> Nat]]
      /\ \A b \in Sides, end \in 0 .. Rows :
            live'[b][end] = IF b = a /\ end = old THEN live[b][end] - 1 ELSE live[b][end]
  BY <1>1, <1>2, <1>3, RemoveType
<1>5. \A u \in Views : /\ len'[u] = IF u = v THEN n ELSE len[u]
                       /\ cut'[u] = IF u = v THEN -1 ELSE cut[u]
  BY <1>1, <1>3 DEF TypeOK
<1>6. CutsShorten'
  BY <1>1, <1>5 DEF Registered, CutsShorten, Live
<1> HIDE DEF n, old, a
<1>7. ASSUME NEW b \in Sides, NEW end \in 0 .. Rows
      PROVE  Follows(b, end)
  <2>1. end # -1
    OBVIOUS
  <2>2. CASE b = a /\ end = old
    <3>1. Ending(b, end)' = Ending(b, end) \ {v} /\ v \in Ending(b, end)
      BY <1>1, <1>2, <1>5, <2>2 DEF Ending, a, old
    <3>2. CutTo(b, end)' = CutTo(b, end)
      BY <1>1, <1>2, <1>5, <2>1, <2>2 DEF CutTo, n
    <3>3. Cardinality(Ending(b, end)') = Cardinality(Ending(b, end)) - 1
      BY <3>1, Counts, OneLess
    <3> QED
      BY <1>4, <2>2, <3>2, <3>3, Counts DEF Registered, RegistryExact, Follows
  <2>3. CASE b = a /\ end = n
    <3>1. /\ Ending(b, end)' = Ending(b, end) \cup {v} /\ v \notin Ending(b, end)
          /\ CutTo(b, end)' = CutTo(b, end) \ {v} /\ v \in CutTo(b, end)
      BY <1>1, <1>2, <1>5, <2>1, <2>3 DEF Ending, CutTo, a, old, n
    <3>2. /\ Cardinality(Ending(b, end)') = Cardinality(Ending(b, end)) + 1
          /\ Cardinality(CutTo(b, end)') = Cardinality(CutTo(b, end)) - 1
      BY <3>1, Counts, OneMore, OneLess
    <3>3. live'[b][end] = live[b][end]
      BY <1>2, <1>4, <2>3
    <3> QED
      BY <3>2, <3>3, Counts DEF Registered, RegistryExact, Follows
  <2>4. CASE b # a \/ (end # old /\ end # n)
    <3>1. Ending(b, end)' = Ending(b, end) /\ CutTo(b, end)' = CutTo(b, end)
      BY <1>1, <1>5, <2>1, <2>4 DEF Ending, CutTo, a, old, n
    <3> QED
      BY <1>4, <2>4, <3>1 DEF Registered, RegistryExact, Follows
  <2> QED
    BY <2>2, <2>3, <2>4
<1> QED
  BY <1>4, <1>6, <1>7 DEF RegistryExact, Follows

LEMMA RegisteredNewBuffers ==
    ASSUME Registered, NEW k \in Views, NEW v \in Views, NEW n \in 1 .. Rows,
           NewBuffers(k, v, n)
    PROVE  live' \in [Sides -> [0 .. Rows -> Nat]] /\ RegistryExact' /\ CutsShorten'
<1>1. /\ \A u \in Views : of[u] = "none" /\ cut[u] = -1
      /\ k # v /\ cut' = cut
      /\ of' = [of EXCEPT ![k] = "k", ![v] = "v"]
      /\ len' = [len EXCEPT ![k] = n, ![v] = n]
      /\ live' = [a \in Sides |-> [NoEnds EXCEPT ![n] = 1]]
  BY DEF NewBuffers, Registered, CutsShorten, Live
<1>2. \A u \in Views : /\ of'[u] = IF u = k THEN "k" ELSE IF u = v THEN "v" ELSE "none"
                       /\ len'[u] = IF u \in {k, v} THEN n ELSE len[u]
  BY <1>1 DEF Registered, TypeOK
<1>3. SizesAssumption /\ n \in 0 .. Rows
  BY SizesAssumption
<1>4. /\ live' \in [Sides -> [0 .. Rows -> Nat]]
      /\ \A b \in Sides, end \in 0 .. Rows : live'[b][end] = IF end = n THEN 1 ELSE 0
  BY <1>1, <1>3 DEF NoEnds
<1>5. CutsShorten'
  BY <1>1 DEF CutsShorten
<1>6. ASSUME NEW b \in Sides, NEW end \in 0 .. Rows
      PROVE  Follows(b, end)
  <2>1. end # -1 /\ b # "none"
    BY DEF Sides
  <2>2. CutTo(b, end)' = {}
    BY <1>1, <2>1 DEF CutTo
  <2>3. CASE end = n
    <3>1. ASSUME b = "k" PROVE Cardinality(Ending(b, end)') = 1
      <4>0. "k" # "v" /\ "k" # "none" /\ "v" # "none"
        OBVIOUS
      <4>1. \A u \in Views : of'[u] = "k" <=> u = k
        BY <1>1, <1>2, <4>0
      <4>2. len'[k] = n
        BY <1>2
      <4>3. Ending(b, end)' = {u \in Views : of'[u] = b /\ len'[u] = end}
        BY DEF Ending
      <4>4. Ending(b, end)' = {k}
        BY <2>3, <3>1, <4>1, <4>2, <4>3
      <4> QED
        BY <4>4, FS_Singleton
    <3>2. ASSUME b = "v" PROVE Cardinality(Ending(b, end)') = 1
      <4>0. "k" # "v" /\ "k" # "none" /\ "v" # "none"
        OBVIOUS
      <4>1. \A u \in Views : of'[u] = "v" <=> u = v
        BY <1>1, <1>2, <4>0
      <4>2. len'[v] = n
        BY <1>2
      <4>3. Ending(b, end)' = {u \in Views : of'[u] = b /\ len'[u] = end}
        BY DEF Ending
      <4>4. Ending(b, end)' = {v}
        BY <2>3, <3>2, <4>1, <4>2, <4>3
      <4> QED
        BY <4>4, FS_Singleton
    <3>3. Cardinality(Ending(b, end)') = 1
      BY <3>1, <3>2 DEF Sides
    <3> QED
      BY <1>4, <2>2, <2>3, <3>3, FS_EmptySet DEF Follows
  <2>4. CASE end # n
    <3>1. Ending(b, end)' = {}
      BY <1>1, <1>2, <2>1, <2>4 DEF Ending, Sides
    <3> QED
      BY <1>4, <2>2, <2>4, <3>1, FS_EmptySet DEF Follows
  <2> QED
    BY <2>3, <2>4
<1> QED
  BY <1>4, <1>5, <1>6 DEF RegistryExact, Follows

-----------------------------------------------------------------------------
(* The writers. *)

\* What a writer borrows stays as it was when it was claimed.
Borrows ==
    \A w \in Writers : \A v \in prefix[w] : Live(v) /\ cut[v] = -1 /\ len[v] = start[w]

\* As long as it has something to check, a writer has a view of each buffer.
Pairs ==
    \A w \in Writers : step[w] \in {"claimed", "half"} =>
        \A a \in Sides : \E v \in prefix[w] : of[v] = a

\* Of a side that is checked, no view is longer than the prefix.
Reserved ==
    \A w \in Writers, v \in Views :
        /\ step[w] = "half" /\ of[v] = "k" => len[v] <= start[w]
        /\ step[w] = "granted" /\ Live(v) => len[v] <= start[w]

\* Commands are in flight only for a writer that has the reserve, behind its prefix.
Flights ==
    \A w \in Writers :
        /\ start[w] <= filled[w]
        /\ flight[w] # {} => step[w] = "granted"
        /\ \A row \in flight[w] : row > start[w]

Inv == Registered /\ ClaimExact /\ Borrows /\ Pairs /\ Reserved /\ Flights

LEMMA InvInit == Init => Inv
<1> SUFFICES ASSUME Init PROVE Inv
  OBVIOUS
<1> USE SizesAssumption
<1>1. TypeOK
  BY DEF Init, TypeOK, NoEnds, Sides
<1>2. CutsShorten
  BY DEF Init, CutsShorten
<1>3. RegistryExact
  <2> SUFFICES ASSUME NEW a \in Sides, NEW end \in 0 .. Rows
               PROVE  live[a][end] = Cardinality(Ending(a, end)) + Cardinality(CutTo(a, end))
    BY DEF RegistryExact
  <2>1. Ending(a, end) = {} /\ CutTo(a, end) = {}
    BY DEF Init, Ending, CutTo, Sides
  <2>2. live[a][end] = 0
    BY DEF Init, NoEnds
  <2> QED
    BY <2>1, <2>2, FS_EmptySet
<1>4. ClaimExact
  BY DEF Init, ClaimExact
<1>5. Borrows /\ Pairs /\ Reserved /\ Flights
  BY DEF Init, Borrows, Pairs, Reserved, Flights, Live
<1> QED
  BY <1>1, <1>2, <1>3, <1>4, <1>5 DEF Inv, Registered

\* Every step keeps the types; that of the register comes with its counts.
LEMMA TypesOfWriters ==
    ASSUME TypeOK, live' \in [Sides -> [0 .. Rows -> Nat]], Next
    PROVE  TypeOK'
<1> USE SizesAssumption
<1>1. ASSUME NEW k \in Views, NEW v \in Views, NEW n \in 1 .. Rows, NewBuffers(k, v, n)
      PROVE  TypeOK'
  <2>1. "k" \in Sides \cup {"none"} /\ "v" \in Sides \cup {"none"} /\ n \in 0 .. Rows
    BY DEF Sides
  <2>2. of' \in [Views -> Sides \cup {"none"}]
    BY <1>1, <2>1 DEF TypeOK, NewBuffers
  <2>3. len' \in [Views -> 0 .. Rows]
    BY <1>1, <2>1 DEF TypeOK, NewBuffers
  <2> QED
    BY <1>1, <2>2, <2>3 DEF TypeOK, NewBuffers, writers
<1>2. ASSUME NEW v \in Views, NEW new \in Views, Clone(v, new)
      PROVE  TypeOK'
  BY <1>2 DEF TypeOK, Clone, writers
<1>3. ASSUME NEW v \in Views, NEW n \in 0 .. Rows, CutBegin(v, n)
      PROVE  TypeOK'
  BY <1>3 DEF TypeOK, CutBegin, writers
<1>4. ASSUME NEW v \in Views, CutEnd(v)
      PROVE  TypeOK'
  <2>1. cut[v] \in 0 .. Rows /\ -1 \in -1 .. Rows
    BY <1>4 DEF TypeOK, CutEnd
  <2>2. len' \in [Views -> 0 .. Rows] /\ cut' \in [Views -> -1 .. Rows]
    BY <1>4, <2>1 DEF TypeOK, CutEnd
  <2> QED
    BY <1>4, <2>2 DEF TypeOK, CutEnd, writers
<1>5. ASSUME NEW v \in Views, Drop(v)
      PROVE  TypeOK'
  BY <1>5 DEF TypeOK, Drop, writers
<1>6. ASSUME NEW w \in Writers, NEW k \in Views, NEW v \in Views,
             NEW as \in {"prefill", "arena"}, Claim(w, k, v, as)
      PROVE  TypeOK'
  BY <1>6 DEF TypeOK, Claim, views
<1>7. ASSUME NEW w \in Writers, CheckKey(w) \/ CheckValue(w)
      PROVE  TypeOK'
  BY <1>7 DEF TypeOK, CheckKey, CheckValue, views
<1>8. ASSUME NEW w \in Writers, Refuse(w) \/ Release(w)
      PROVE  TypeOK'
  <2>1. GiveBack(w)
    BY <1>8 DEF Refuse, Release
  <2> QED
    BY <2>1 DEF TypeOK, GiveBack, views
<1>9. ASSUME NEW w \in Writers, NEW n \in 0 .. Rows, Write(w, n)
      PROVE  TypeOK'
  <2>1. filled[w] + 1 .. n \subseteq 1 .. Rows
    BY DEF TypeOK
  <2> QED
    BY <1>9, <2>1 DEF TypeOK, Write, views
<1>10. ASSUME NEW w \in Writers, NEW n \in 0 .. Rows, RollBack(w, n)
       PROVE  TypeOK'
  BY <1>10 DEF TypeOK, RollBack, views
<1>11. ASSUME NEW w \in Writers, NEW row \in 1 .. Rows, GpuWrites(w, row)
       PROVE  TypeOK'
  BY <1>11 DEF TypeOK, GpuWrites, views
<1>12. ASSUME NEW w \in Writers, NEW new \in Views, PublishKey(w, new)
       PROVE  TypeOK'
  BY <1>12 DEF TypeOK, PublishKey, Extended, Sides
<1>13. ASSUME NEW w \in Writers, NEW new \in Views, PublishValue(w, new)
       PROVE  TypeOK'
  BY <1>13 DEF TypeOK, PublishValue, Extended, Sides
<1> QED
  BY <1>1, <1>2, <1>3, <1>4, <1>5, <1>6, <1>7, <1>8, <1>9, <1>10, <1>11, <1>12, <1>13
     DEF Next

LEMMA InvCommon ==
    ASSUME Inv
    PROVE  /\ Registered /\ ClaimExact /\ Borrows /\ Pairs /\ Reserved /\ Flights
           /\ TypeOK /\ CutsShorten
           /\ SizesAssumption
BY SizesAssumption DEF Inv, Registered

\* Steps of views: clones, cuts, drops and the views of new buffers.
LEMMA InvOfViews ==
    ASSUME Inv, Registered', UNCHANGED <<claimed, writers>>,
           \A v \in Views : Live(v) /\ Borrowed(v) =>
               of'[v] = of[v] /\ cut'[v] = cut[v] /\ len'[v] = len[v],
           \A v \in Views : of'[v] # "none" =>
               \/ \E u \in Views : of'[v] = of[u] /\ len'[v] <= len[u]
               \/ claimed = {}
    PROVE  Inv'
<1> USE InvCommon
<1>1. UNCHANGED <<step, kind, prefix, start, filled, flight>>
  BY DEF writers
<1>2. ClaimExact' /\ Flights'
  BY <1>1 DEF ClaimExact, Flights
<1>3. ASSUME NEW w \in Writers, NEW v \in prefix[w]
      PROVE  /\ v \in Views /\ Live(v) /\ cut[v] = -1 /\ len[v] = start[w]
             /\ of'[v] = of[v] /\ cut'[v] = cut[v] /\ len'[v] = len[v]
  BY DEF Borrowed, Borrows, TypeOK
<1>4. Borrows'
  BY <1>1, <1>3 DEF Borrows, Live
<1>5. Pairs'
  BY <1>1, <1>3 DEF Pairs
<1>6. ASSUME NEW w \in Writers, step[w] # "idle", NEW v \in Views, of'[v] # "none"
      PROVE  \E u \in Views : Live(u) /\ of'[v] = of[u] /\ len'[v] <= len[u]
  <2>1. claimed # {}
    BY <1>6 DEF ClaimExact, Sides
  <2> QED
    BY <1>6, <2>1 DEF Live
<1>7. ASSUME NEW w \in Writers, NEW v \in Views,
             \/ step[w] = "half" /\ of'[v] = "k"
             \/ step[w] = "granted" /\ of'[v] # "none"
      PROVE  len'[v] <= start[w]
  <2>1. PICK u \in Views : Live(u) /\ of'[v] = of[u] /\ len'[v] <= len[u]
    BY <1>6, <1>7
  <2>2. len[u] <= start[w]
    BY <1>7, <2>1 DEF Reserved
  <2>3. len'[v] \in Int /\ len[u] \in Int /\ start[w] \in Int
    BY <1>1 DEF Registered, TypeOK
  <2> QED
    BY <2>1, <2>2, <2>3
<1>8. Reserved'
  BY <1>1, <1>7 DEF Reserved, Live
<1> QED
  BY <1>2, <1>4, <1>5, <1>8 DEF Inv

LEMMA NewBuffersInv ==
    ASSUME Inv, NEW k \in Views, NEW v \in Views, NEW n \in 1 .. Rows,
           NewBuffers(k, v, n), Next
    PROVE  Inv'
<1> USE InvCommon
<1>1. Registered'
  BY RegisteredNewBuffers, TypesOfWriters DEF Registered
<1> QED
  BY <1>1, InvOfViews DEF NewBuffers

LEMMA CloneInv ==
    ASSUME Inv, NEW v \in Views, NEW new \in Views, Clone(v, new), Next
    PROVE  Inv'
<1> USE InvCommon
<1>1. /\ Live(v) /\ ~Live(new) /\ of[v] \in Sides /\ len[v] \in 0 .. Rows
      /\ of' = [of EXCEPT ![new] = of[v]] /\ len' = [len EXCEPT ![new] = len[v]]
      /\ live' = Add(of[v], len[v]) /\ cut' = cut
      /\ UNCHANGED <<claimed, writers>>
  BY EndCounted DEF Clone
<1>2. TypeOK'
  BY <1>1, AddType, TypesOfWriters
<1>3. Registered'
  BY <1>1, <1>2, RegisteredNew
<1>4. \A u \in Views : /\ of'[u] = IF u = new THEN of[v] ELSE of[u]
                       /\ len'[u] = IF u = new THEN len[v] ELSE len[u]
  BY <1>1 DEF TypeOK
<1>5. \A u \in Views : len[u] <= len[u]
  BY DEF TypeOK
<1> QED
  BY <1>1, <1>3, <1>4, <1>5, InvOfViews

LEMMA CutBeginInv ==
    ASSUME Inv, NEW v \in Views, NEW n \in 0 .. Rows, CutBegin(v, n), Next
    PROVE  Inv'
<1> USE InvCommon
<1>1. Registered'
  BY RegisteredCutBegin, TypesOfWriters DEF Registered
<1>2. /\ ~Borrowed(v) /\ of' = of /\ len' = len /\ UNCHANGED <<claimed, writers>>
      /\ cut' = [cut EXCEPT ![v] = n]
  BY DEF CutBegin, Owned
<1>3. \A u \in Views : u # v => cut'[u] = cut[u]
  BY <1>2 DEF TypeOK
<1>4. \A u \in Views : len[u] <= len[u]
  BY DEF TypeOK
<1> QED
  BY <1>1, <1>2, <1>3, <1>4, InvOfViews

LEMMA CutEndInv ==
    ASSUME Inv, NEW v \in Views, CutEnd(v), Next
    PROVE  Inv'
<1> USE InvCommon
<1>1. Registered'
  BY RegisteredCutEnd, TypesOfWriters DEF Registered
<1>2. /\ cut[v] # -1 /\ of' = of /\ UNCHANGED <<claimed, writers>>
      /\ len' = [len EXCEPT ![v] = cut[v]] /\ cut' = [cut EXCEPT ![v] = -1]
  BY DEF CutEnd
<1>3. ~Borrowed(v)
  BY <1>2 DEF Borrowed, Borrows
<1>4. \A u \in Views : /\ u # v => cut'[u] = cut[u] /\ len'[u] = len[u]
                       /\ len'[u] <= len[u]
  BY <1>2 DEF TypeOK, CutsShorten
<1> QED
  BY <1>1, <1>2, <1>3, <1>4, InvOfViews

LEMMA DropInv ==
    ASSUME Inv, NEW v \in Views, Drop(v), Next
    PROVE  Inv'
<1> USE InvCommon
<1>1. Registered'
  BY RegisteredDrop, TypesOfWriters DEF Registered
<1>2. /\ ~Borrowed(v) /\ len' = len /\ UNCHANGED <<cut, claimed, writers>>
      /\ of' = [of EXCEPT ![v] = "none"]
  BY DEF Drop, Owned
<1>3. \A u \in Views : /\ of'[u] = IF u = v THEN "none" ELSE of[u]
                       /\ len'[u] <= len[u]
  BY <1>2 DEF TypeOK
<1> QED
  BY <1>1, <1>2, <1>3, InvOfViews

\* The steps of a writer that leave views and register alone.
LEMMA RegisteredOfWriter ==
    ASSUME Inv, Next, UNCHANGED <<views, live>>
    PROVE  /\ Registered' /\ TypeOK'
           /\ of' = of /\ len' = len /\ cut' = cut /\ live' = live
<1> USE InvCommon
<1>1. live' \in [Sides -> [0 .. Rows -> Nat]]
  BY DEF TypeOK
<1> QED
  BY <1>1, TypesOfWriters, RegisteredUnchanged DEF views

\* A writer that has begun is alone.
LEMMA Alone ==
    ASSUME ClaimExact, NEW w \in Writers, step[w] # "idle"
    PROVE  claimed = Sides /\ \A x \in Writers : x # w => step[x] = "idle"
BY DEF ClaimExact

LEMMA ClaimInv ==
    ASSUME Inv, NEW w \in Writers, NEW k \in Views, NEW v \in Views,
           NEW as \in {"prefill", "arena"}, Claim(w, k, v, as), Next
    PROVE  Inv'
<1> USE InvCommon
<1>1. /\ step[w] = "idle" /\ Live(k) /\ Live(v) /\ of[k] = "k" /\ of[v] = "v"
      /\ cut[k] = -1 /\ cut[v] = -1 /\ len[k] = len[v]
      /\ claimed \cap Sides = {} /\ claimed' = claimed \cup Sides
      /\ UNCHANGED <<views, live, flight>>
  BY DEF Claim
<1>2. Registered' /\ of' = of /\ len' = len /\ cut' = cut
  BY <1>1, RegisteredOfWriter
<1>3. \A x \in Writers :
         /\ step'[x] = IF x = w THEN "claimed" ELSE step[x]
         /\ prefix'[x] = IF x = w THEN {k, v} ELSE prefix[x]
         /\ start'[x] = IF x = w THEN len[k] ELSE start[x]
         /\ filled'[x] = IF x = w THEN len[k] ELSE filled[x]
         /\ flight'[x] = flight[x]
  BY <1>1 DEF Claim, TypeOK
<1>4. claimed = {} /\ \A x \in Writers : step[x] = "idle"
  BY <1>1 DEF ClaimExact, TypeOK, Sides
<1>5. ClaimExact'
  BY <1>1, <1>3, <1>4 DEF ClaimExact
<1>6. Borrows'
  BY <1>1, <1>2, <1>3 DEF Borrows, Live
<1>7. Pairs'
  BY <1>1, <1>2, <1>3, <1>4 DEF Pairs, Sides
<1>8. Reserved'
  BY <1>3, <1>4 DEF Reserved
<1>9. Flights'
  BY <1>3, <1>4 DEF Flights, TypeOK
<1> QED
  BY <1>2, <1>5, <1>6, <1>7, <1>8, <1>9 DEF Inv

\* GiveBack, from any step without commands in flight.
LEMMA GiveBackInv ==
    ASSUME Inv, NEW w \in Writers, step[w] # "idle", flight[w] = {}, GiveBack(w), Next
    PROVE  Inv'
<1> USE InvCommon
<1>1. claimed' = claimed \ Sides /\ UNCHANGED <<views, live, flight>>
  BY DEF GiveBack
<1>2. Registered' /\ of' = of /\ len' = len /\ cut' = cut
  BY <1>1, RegisteredOfWriter
<1>3. \A x \in Writers :
         /\ step'[x] = IF x = w THEN "idle" ELSE step[x]
         /\ prefix'[x] = IF x = w THEN {} ELSE prefix[x]
         /\ start'[x] = IF x = w THEN 0 ELSE start[x]
         /\ filled'[x] = IF x = w THEN 0 ELSE filled[x]
         /\ flight'[x] = flight[x]
  BY <1>1 DEF GiveBack, TypeOK
<1>4. \A x \in Writers : step'[x] = "idle"
  BY <1>3, Alone
<1>5. ClaimExact'
  BY <1>1, <1>4, Alone DEF ClaimExact
<1>6. Borrows'
  BY <1>2, <1>3 DEF Borrows, Live
<1>7. Pairs' /\ Reserved'
  BY <1>4 DEF Pairs, Reserved
<1>8. Flights'
  BY <1>3, Alone DEF Flights
<1> QED
  BY <1>2, <1>5, <1>6, <1>7, <1>8 DEF Inv

\* Under the claim, what is_whole says of one side bounds all of its views.
LEMMA WholeSide ==
    ASSUME Inv, NEW w \in Writers, step[w] \in {"claimed", "half"},
           NEW a \in Sides, WholeOn(w, a), NEW u \in Views, of[u] = a
    PROVE  len[u] <= start[w]
<1> USE InvCommon
<1>1. PICK v \in prefix[w] : of[v] = a
  BY DEF Pairs
<1>2. v \in Views /\ Live(v) /\ len[v] = start[w] /\ Whole(v)
  BY <1>1 DEF TypeOK, Borrows, WholeOn
<1> QED
  BY <1>1, <1>2, WholeLongest

LEMMA CheckKeyInv ==
    ASSUME Inv, NEW w \in Writers, CheckKey(w), Next
    PROVE  Inv'
<1> USE InvCommon
<1>1. /\ step[w] = "claimed" /\ WholeOn(w, "k")
      /\ UNCHANGED <<views, live, claimed, prefix, start, filled, flight>>
  BY DEF CheckKey
<1>2. Registered' /\ of' = of /\ len' = len /\ cut' = cut
  BY <1>1, RegisteredOfWriter
<1>3. \A x \in Writers : step'[x] = IF x = w THEN "half" ELSE step[x]
  BY DEF CheckKey, TypeOK
<1>4. ClaimExact'
  BY <1>1, <1>3 DEF ClaimExact
<1>5. Borrows' /\ Pairs'
  BY <1>1, <1>2, <1>3 DEF Borrows, Pairs, Live
<1>6. \A u \in Views : of[u] = "k" => len[u] <= start[w]
  BY <1>1, WholeSide DEF Sides
<1>7. Reserved'
  BY <1>1, <1>2, <1>3, <1>6 DEF Reserved, Live
<1>8. Flights'
  BY <1>1, <1>3 DEF Flights
<1> QED
  BY <1>2, <1>4, <1>5, <1>7, <1>8 DEF Inv

LEMMA CheckValueInv ==
    ASSUME Inv, NEW w \in Writers, CheckValue(w), Next
    PROVE  Inv'
<1> USE InvCommon
<1>1. /\ step[w] = "half" /\ WholeOn(w, "v")
      /\ UNCHANGED <<views, live, claimed, start, filled, flight>>
  BY DEF CheckValue
<1>2. Registered' /\ of' = of /\ len' = len /\ cut' = cut
  BY <1>1, RegisteredOfWriter
<1>3. \A x \in Writers : /\ step'[x] = IF x = w THEN "granted" ELSE step[x]
                         /\ prefix'[x] \subseteq prefix[x]
                         /\ x # w => prefix'[x] = prefix[x]
  BY DEF CheckValue, TypeOK
<1>4. ClaimExact'
  BY <1>1, <1>3 DEF ClaimExact
<1>5. Borrows'
  BY <1>1, <1>2, <1>3 DEF Borrows, Live
<1>6. Pairs'
  BY <1>2, <1>3 DEF Pairs
<1>7. \A u \in Views : Live(u) => len[u] <= start[w]
  <2>1. \A u \in Views : of[u] = "v" => len[u] <= start[w]
    BY <1>1, WholeSide DEF Sides
  <2>2. \A u \in Views : of[u] = "k" => len[u] <= start[w]
    BY <1>1 DEF Reserved
  <2> QED
    BY <2>1, <2>2 DEF Live, TypeOK, Sides
<1>8. Reserved'
  BY <1>1, <1>2, <1>3, <1>7 DEF Reserved, Live
<1>9. Flights'
  BY <1>1, <1>3 DEF Flights
<1> QED
  BY <1>2, <1>4, <1>5, <1>6, <1>8, <1>9 DEF Inv

LEMMA WriteInv ==
    ASSUME Inv, NEW w \in Writers, NEW n \in 0 .. Rows, Write(w, n), Next
    PROVE  Inv'
<1> USE InvCommon
<1>1. /\ step[w] = "granted" /\ n > filled[w]
      /\ UNCHANGED <<views, live, claimed, step, prefix, start>>
  BY DEF Write
<1>2. Registered' /\ of' = of /\ len' = len /\ cut' = cut
  BY <1>1, RegisteredOfWriter
<1>3. ClaimExact' /\ Borrows' /\ Pairs' /\ Reserved'
  BY <1>1, <1>2 DEF ClaimExact, Borrows, Pairs, Reserved, Live
<1>4. \A x \in Writers :
         /\ filled'[x] = IF x = w THEN n ELSE filled[x]
         /\ flight'[x] = IF x = w THEN flight[w] \cup (filled[w] + 1 .. n) ELSE flight[x]
  BY DEF Write, TypeOK
<1>5. /\ start[w] \in Int /\ filled[w] \in Int /\ start[w] <= filled[w]
      /\ flight[w] \subseteq Int
  BY DEF TypeOK, Flights
<1>6. \A row \in filled[w] + 1 .. n : row > start[w]
  BY <1>5
<1>7. Flights'
  BY <1>1, <1>4, <1>5, <1>6 DEF Flights
<1> QED
  BY <1>2, <1>3, <1>7 DEF Inv

LEMMA RollBackInv ==
    ASSUME Inv, NEW w \in Writers, NEW n \in 0 .. Rows, RollBack(w, n), Next
    PROVE  Inv'
<1> USE InvCommon
<1>1. /\ start[w] <= n /\ UNCHANGED <<views, live, claimed, step, prefix, start, flight>>
  BY DEF RollBack
<1>2. Registered' /\ of' = of /\ len' = len /\ cut' = cut
  BY <1>1, RegisteredOfWriter
<1>3. ClaimExact' /\ Borrows' /\ Pairs' /\ Reserved'
  BY <1>1, <1>2 DEF ClaimExact, Borrows, Pairs, Reserved, Live
<1>4. \A x \in Writers : filled'[x] = IF x = w THEN n ELSE filled[x]
  BY DEF RollBack, TypeOK
<1>5. Flights'
  BY <1>1, <1>4 DEF Flights
<1> QED
  BY <1>2, <1>3, <1>5 DEF Inv

LEMMA GpuWritesInv ==
    ASSUME Inv, NEW w \in Writers, NEW row \in 1 .. Rows, GpuWrites(w, row), Next
    PROVE  Inv'
<1> USE InvCommon
<1>1. UNCHANGED <<views, live, claimed, step, prefix, start, filled>>
  BY DEF GpuWrites
<1>2. Registered' /\ of' = of /\ len' = len /\ cut' = cut
  BY <1>1, RegisteredOfWriter
<1>3. ClaimExact' /\ Borrows' /\ Pairs' /\ Reserved'
  BY <1>1, <1>2 DEF ClaimExact, Borrows, Pairs, Reserved, Live
<1>4. \A x \in Writers : flight'[x] \subseteq flight[x]
  BY DEF GpuWrites, TypeOK
<1>5. Flights'
  BY <1>1, <1>4 DEF Flights
<1> QED
  BY <1>2, <1>3, <1>5 DEF Inv

\* Half of a publication: a writer with nothing in flight adds a view of one side
\* and goes to a step that has no reserve any more.
LEMMA PublishInv ==
    ASSUME Inv, Next, NEW w \in Writers, step[w] # "idle", flight[w] = {},
           NEW a \in Sides, NEW new \in Views, Extended(w, a, new),
           NEW next \in {"published", "over"}, step' = [step EXCEPT ![w] = next],
           UNCHANGED <<cut, claimed, kind, prefix, start, filled, flight>>
    PROVE  Inv'
<1> USE InvCommon
<1>1. /\ ~Live(new) /\ filled[w] \in 0 .. Rows
      /\ of' = [of EXCEPT ![new] = a] /\ len' = [len EXCEPT ![new] = filled[w]]
      /\ live' = Add(a, filled[w]) /\ cut' = cut
  BY DEF Extended, TypeOK
<1>2. TypeOK'
  BY <1>1, AddType, TypesOfWriters
<1>3. Registered'
  BY <1>1, <1>2, RegisteredNew
<1>4. \A u \in Views : /\ of'[u] = IF u = new THEN a ELSE of[u]
                       /\ len'[u] = IF u = new THEN filled[w] ELSE len[u]
  BY <1>1 DEF TypeOK
<1>5. \A x \in Writers : step'[x] = IF x = w THEN next ELSE "idle"
  BY Alone DEF TypeOK
<1>6. ClaimExact'
  BY <1>5, Alone DEF ClaimExact
<1>7. Borrows'
  BY <1>1, <1>4 DEF Borrows, Live, TypeOK
<1>8. Pairs' /\ Reserved'
  BY <1>5 DEF Pairs, Reserved
<1>9. Flights'
  BY <1>5, Alone DEF Flights
<1> QED
  BY <1>3, <1>6, <1>7, <1>8, <1>9 DEF Inv

\* The invariant is inductive.
LEMMA InvNext == Inv /\ [Next]_vars => Inv'
<1> SUFFICES ASSUME Inv, [Next]_vars PROVE Inv'
  OBVIOUS
<1> USE InvCommon
<1>1. CASE UNCHANGED vars
  <2>1. UNCHANGED <<of, len, cut, live, claimed, step, kind, prefix, start, filled, flight>>
    BY <1>1 DEF vars, views, writers
  <2>2. TypeOK'
    BY <2>1 DEF TypeOK
  <2>3. Registered'
    BY <2>1, <2>2, RegisteredUnchanged DEF views
  <2> QED
    BY <2>1, <2>3 DEF Inv, ClaimExact, Borrows, Pairs, Reserved, Flights, Live
<1>2. CASE Next
  <2>1. ASSUME NEW w \in Writers, Refuse(w)
        PROVE  Inv'
    <3>1. step[w] \in {"claimed", "half"} /\ GiveBack(w)
      BY <2>1 DEF Refuse
    <3>2. flight[w] = {}
      BY <3>1 DEF Flights
    <3> QED
      BY <1>2, <3>1, <3>2, GiveBackInv
  <2>2. ASSUME NEW w \in Writers, Release(w)
        PROVE  Inv'
    <3>1. step[w] # "idle" /\ flight[w] = {} /\ GiveBack(w)
      BY <2>2 DEF Release, Waited
    <3> QED
      BY <1>2, <3>1, GiveBackInv
  <2>3. ASSUME NEW w \in Writers, NEW new \in Views, PublishKey(w, new)
        PROVE  Inv'
    <3>1. /\ step[w] # "idle" /\ flight[w] = {} /\ Extended(w, "k", new)
          /\ step' = [step EXCEPT ![w] = "published"]
          /\ UNCHANGED <<cut, claimed, kind, prefix, start, filled, flight>>
      BY <2>3 DEF PublishKey, Waited
    <3> QED
      BY <1>2, <3>1, PublishInv DEF Sides
  <2>4. ASSUME NEW w \in Writers, NEW new \in Views, PublishValue(w, new)
        PROVE  Inv'
    <3>1. /\ step[w] = "published" /\ Extended(w, "v", new)
          /\ step' = [step EXCEPT ![w] = "over"]
          /\ UNCHANGED <<cut, claimed, kind, prefix, start, filled, flight>>
      BY <2>4 DEF PublishValue
    <3>2. flight[w] = {}
      BY <3>1 DEF Flights
    <3> QED
      BY <1>2, <3>1, <3>2, PublishInv DEF Sides
  <2> QED
    BY <1>2, <2>1, <2>2, <2>3, <2>4, NewBuffersInv, CloneInv, CutBeginInv, CutEndInv,
       DropInv, ClaimInv, CheckKeyInv, CheckValueInv, WriteInv, RollBackInv, GpuWritesInv
       DEF Next
<1> QED
  BY <1>1, <1>2

-----------------------------------------------------------------------------
THEOREM Invariance == Spec => []Inv
BY InvInit, InvNext, PTL DEF Spec

\* The types, whatever views and writers do.
THEOREM TypeCorrect == Spec => []TypeOK
<1>1. Inv => TypeOK
  BY DEF Inv, Registered
<1> QED
  BY <1>1, Invariance, PTL

\* LiveEnds counts every live view at its end, and at both of its ends while it
\* is being cut, for every interleaving of SharedRows::clone, truncate, extended
\* and drop.
THEOREM RegistryCorrect == Spec => []RegistryExact
<1>1. Inv => RegistryExact
  BY DEF Inv, Registered
<1> QED
  BY <1>1, Invariance, PTL

\* IN_PLACE_ALLOCATIONS holds the two buffers exactly as long as one writer, and
\* never two, holds an InPlaceClaim.
THEOREM ClaimCorrect == Spec => []ClaimExact
<1>1. Inv => ClaimExact
  BY DEF Inv
<1> QED
  BY <1>1, Invariance, PTL

\* The contract of SharedRows::new: no command in flight writes a row that a
\* live view covers.
THEOREM RowsUntouched == Spec => []Untouched
<1>1. Inv => Untouched
  <2> SUFFICES ASSUME Inv, NEW w \in Writers, NEW row \in flight[w],
                      NEW v \in Views, Live(v)
               PROVE  len[v] < row
    BY DEF Untouched
  <2> USE InvCommon
  <2>1. row > start[w] /\ len[v] <= start[w]
    BY DEF Flights, Reserved
  <2>2. row \in Int /\ start[w] \in Int /\ len[v] \in Int
    BY DEF TypeOK
  <2> QED
    BY <2>1, <2>2
<1> QED
  BY <1>1, Invariance, PTL

===============================================================================
