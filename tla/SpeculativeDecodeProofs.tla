----------------------- MODULE SpeculativeDecodeProofs -----------------------
(***************************************************************************)
(* Proofs about decoding with drafts: for every vocabulary, every length   *)
(* of answer, every configuration and whatever is drafted, the caches hold *)
(* exactly the committed tokens between two turns, and the tokens given    *)
(* and returned are those of the plain loop.                               *)
(***************************************************************************)
EXTENDS SpeculativeDecode, DataLemmas

-----------------------------------------------------------------------------
(* The beginnings of the line.                                              *)

\* The first n tokens of the answer the model would give.
Pre(n) == SubSeq(line, 1, n)

Lines == [1 .. MaxNew -> Tokens]

LEMMA LineIs ==
    ASSUME line \in Lines
    PROVE  line \in Seq(Tokens) /\ Len(line) = MaxNew /\ MaxNew \in Nat
<1>1. MaxNew \in Nat
  BY LimitAssumption
<1> QED
  BY <1>1 DEF Lines

LEMMA PreIs ==
    ASSUME line \in Lines, NEW n \in 0 .. MaxNew
    PROVE  /\ Pre(n) \in Seq(Tokens) /\ Len(Pre(n)) = n
           /\ \A i \in 1 .. n : Pre(n)[i] = line[i] /\ line[i] \in Tokens
<1>1. line \in Seq(Tokens) /\ Len(line) = MaxNew /\ MaxNew \in Nat
  BY LineIs
<1>2. n \in Nat /\ \A i \in 1 .. n : i \in 1 .. MaxNew
  BY <1>1
<1>3. \A i \in 1 .. n : line[i] \in Tokens
  BY <1>2 DEF Lines
<1>4. /\ SubSeq(line, 1, n) \in Seq(Tokens)
      /\ Len(SubSeq(line, 1, n)) = IF 1 <= n THEN n - 1 + 1 ELSE 0
      /\ \A i \in 1 .. n - 1 + 1 : SubSeq(line, 1, n)[i] = line[1 + i - 1]
  BY <1>2, <1>3, SubSeqProperties
<1>5. Len(SubSeq(line, 1, n)) = n
  BY <1>2, <1>4
<1>6. ASSUME NEW i \in 1 .. n PROVE SubSeq(line, 1, n)[i] = line[i]
  <2>1. i \in 1 .. n - 1 + 1 /\ 1 + i - 1 = i
    BY <1>2
  <2> QED
    BY <1>4, <2>1
<1> QED
  BY <1>3, <1>4, <1>5, <1>6 DEF Pre

LEMMA PreEmpty == Pre(0) = <<>>
BY SubSeqEmpty DEF Pre

\* A sequence of tokens of the line from its beginning on is a beginning of it.
LEMMA PreWhen ==
    ASSUME line \in Lines, NEW n \in 0 .. MaxNew, NEW s \in Seq(Tokens),
           Len(s) = n, \A i \in 1 .. n : s[i] = line[i]
    PROVE  s = Pre(n)
<1>1. /\ Pre(n) \in Seq(Tokens) /\ Len(Pre(n)) = n
      /\ \A i \in 1 .. n : Pre(n)[i] = line[i]
  BY PreIs
<1>2. PICK p : p = Pre(n)
  OBVIOUS
<1>3. \A i \in 1 .. Len(s) : s[i] = p[i]
  BY <1>1, <1>2
<1>4. s = p
  BY <1>1, <1>2, <1>3, SeqEqual
<1> QED
  BY <1>2, <1>4

LEMMA PreAppend ==
    ASSUME line \in Lines, NEW n \in Nat, n < MaxNew
    PROVE  /\ Append(Pre(n), line[n + 1]) = Pre(n + 1)
           /\ line[n + 1] \in Tokens /\ n \in 0 .. MaxNew /\ n + 1 \in 0 .. MaxNew
<1>1. n \in 0 .. MaxNew /\ n + 1 \in 0 .. MaxNew /\ n + 1 \in 1 .. MaxNew
  BY LimitAssumption
<1>2. PICK e \in Tokens : e = line[n + 1]
  BY <1>1 DEF Lines
<1>3. PICK p \in Seq(Tokens) : p = Pre(n) /\ Len(p) = n /\ \A i \in 1 .. n : p[i] = line[i]
  BY <1>1, PreIs
<1>4. PICK s : s = Append(p, e)
  OBVIOUS
<1>5. /\ s \in Seq(Tokens) /\ Len(s) = n + 1 /\ s[n + 1] = e
      /\ \A i \in 1 .. n : s[i] = p[i]
  BY <1>3, <1>4, AppendProperties
<1>6. \A i \in 1 .. n + 1 : i \in 1 .. n \/ i = n + 1
  OBVIOUS
<1>7. \A i \in 1 .. n + 1 : s[i] = line[i]
  BY <1>2, <1>3, <1>5, <1>6
<1>8. s = Pre(n + 1)
  BY <1>1, <1>5, <1>7, PreWhen
<1> QED
  BY <1>1, <1>2, <1>3, <1>4, <1>8

\* A part of a beginning.
LEMMA PrePart ==
    ASSUME line \in Lines, NEW n \in 0 .. MaxNew, NEW m \in 0 .. n
    PROVE  SubSeq(Pre(n), 1, m) = Pre(m) /\ m \in 0 .. MaxNew
<1>1. m \in 0 .. MaxNew /\ m \in 0 .. n /\ m \in Nat
  BY LimitAssumption
<1>2. PICK p \in Seq(Tokens) : p = Pre(n) /\ Len(p) = n /\ \A i \in 1 .. n : p[i] = line[i]
  BY PreIs
<1>3. PICK s : s = SubSeq(p, 1, m)
  OBVIOUS
<1>4. m \in 0 .. Len(p)
  BY <1>1, <1>2
<1>5. s \in Seq(Tokens) /\ Len(s) = m
  BY <1>3, <1>4, FirstOnes
<1>6. ASSUME NEW i \in 1 .. m PROVE s[i] = line[i]
  <2>1. \A j \in 1 .. m : p[j] \in Tokens
    BY <1>1, <1>2, ElementOfSeq
  <2>2. \A j \in 1 .. m - 1 + 1 : SubSeq(p, 1, m)[j] = p[1 + j - 1]
    BY <1>1, <2>1, SubSeqProperties
  <2>3. i \in 1 .. m - 1 + 1 /\ 1 + i - 1 = i /\ i \in 1 .. n
    BY <1>1
  <2> QED
    BY <1>2, <1>3, <2>2, <2>3
<1> QED
  BY <1>1, <1>2, <1>3, <1>5, <1>6, PreWhen

\* Tokens that go on along the line.
LEMMA PreOn ==
    ASSUME line \in Lines, NEW m \in Nat, NEW t \in Seq(Tokens), NEW k \in 0 .. Len(t),
           m + k <= MaxNew, \A i \in 1 .. k : t[i] = line[m + i]
    PROVE  /\ Pre(m) \o SubSeq(t, 1, k) = Pre(m + k)
           /\ m \in 0 .. MaxNew /\ m + k \in 0 .. MaxNew
<1>1. /\ m \in 0 .. MaxNew /\ m + k \in 0 .. MaxNew /\ k \in Nat
  BY LimitAssumption, LenProperties
<1>2. PICK p \in Seq(Tokens) : p = Pre(m) /\ Len(p) = m /\ \A i \in 1 .. m : p[i] = line[i]
  BY <1>1, PreIs
<1>3. PICK u : u = SubSeq(t, 1, k)
  OBVIOUS
<1>4. u \in Seq(Tokens) /\ Len(u) = k
  BY <1>3, FirstOnes
<1>5. ASSUME NEW i \in 1 .. k PROVE u[i] = line[m + i]
  <2>1. \A j \in 1 .. k : t[j] \in Tokens
    <3>1. Len(t) \in Nat /\ \A j \in 1 .. k : j \in 1 .. Len(t)
      BY LenProperties
    <3> QED
      BY <3>1, ElementOfSeq
  <2>2. \A j \in 1 .. k - 1 + 1 : SubSeq(t, 1, k)[j] = t[1 + j - 1]
    BY <1>1, <2>1, SubSeqProperties
  <2>3. i \in 1 .. k - 1 + 1 /\ 1 + i - 1 = i
    BY <1>1
  <2> QED
    BY <1>3, <2>2, <2>3
<1>6. PICK s : s = p \o u
  OBVIOUS
<1>7. /\ s \in Seq(Tokens) /\ Len(s) = m + k
      /\ \A i \in 1 .. m + k : s[i] = IF i <= m THEN p[i] ELSE u[i - m]
  <2>1. /\ p \o u \in Seq(Tokens) /\ Len(p \o u) = Len(p) + Len(u)
        /\ \A i \in 1 .. Len(p) + Len(u) :
              (p \o u)[i] = IF i <= Len(p) THEN p[i] ELSE u[i - Len(p)]
    BY <1>4, ConcatProperties
  <2> QED
    BY <1>2, <1>4, <1>6, <2>1
<1>8. ASSUME NEW i \in 1 .. m + k PROVE s[i] = line[i]
  <2>1. CASE i <= m
    <3>1. i \in 1 .. m
      BY <1>1, <2>1
    <3> QED
      BY <1>2, <1>7, <2>1, <3>1
  <2>2. CASE i > m
    <3>1. i - m \in 1 .. k /\ m + (i - m) = i /\ ~(i <= m)
      BY <1>1, <2>2
    <3>2. u[i - m] = line[i]
      BY <1>5, <3>1
    <3> QED
      BY <1>7, <3>1, <3>2
  <2> QED
    BY <1>1, <2>1, <2>2
<1>9. s = Pre(m + k)
  BY <1>1, <1>7, <1>8, PreWhen
<1> QED
  BY <1>1, <1>2, <1>3, <1>6, <1>9

\* On the line the model chooses the next token of it.
LEMMA ChoiceOnLine ==
    ASSUME line \in Lines, NEW n \in Nat, n < MaxNew
    PROVE  Choice(Pre(n)) = line[n + 1]
<1>1. n \in 0 .. MaxNew /\ n <= MaxNew
  BY LimitAssumption
<1>2. Pre(n) \in Seq(Tokens) /\ Len(Pre(n)) = n
  BY <1>1, PreIs
<1>3. SubSeq(Pre(n), 1, n) = SubSeq(line, 1, n)
  <2>1. PICK p \in Seq(Tokens) : p = Pre(n) /\ Len(p) = n
    BY <1>2
  <2>2. SubSeq(p, 1, n) = p
    BY <2>1, SubSeqFull
  <2> QED
    BY <2>1, <2>2 DEF Pre
<1>4. IsPrefix(Pre(n), line)
  BY <1>1, <1>2, <1>3, LineIs DEF IsPrefix
<1> QED
  BY <1>2, <1>4 DEF Choice

\* The head's row of a token of the line.
LEMMA RowOnLine ==
    ASSUME line \in Lines, NEW n \in Nat, n < MaxNew
    PROVE  Row(Pre(n), line[n + 1]) = Seeded + n + 1
<1>1. /\ Append(Pre(n), line[n + 1]) = Pre(n + 1)
      /\ n \in 0 .. MaxNew /\ n + 1 \in 0 .. MaxNew
  BY PreAppend
<1>2. Len(Pre(n)) = n
  BY <1>1, PreIs
<1>3. PICK p \in Seq(Tokens) : p = Pre(n + 1) /\ Len(p) = n + 1
  BY <1>1, PreIs
<1>4. SubSeq(p, 1, n + 1) = p
  BY <1>3, SubSeqFull
<1>5. SubSeq(line, 1, n + 1) = p
  BY <1>3 DEF Pre
<1>6. n + 1 <= MaxNew
  BY LimitAssumption
<1>7. IsPrefix(p, line)
  BY <1>3, <1>4, <1>5, <1>6, LineIs DEF IsPrefix
<1> QED
  BY <1>1, <1>2, <1>3, <1>7 DEF Row

-----------------------------------------------------------------------------
(* The buffers of rows.                                                     *)

LEMMA MinOfTwo ==
    ASSUME NEW a \in Int, NEW b \in Int
    PROVE  Min({a, b}) = IF a <= b THEN a ELSE b
<1>1. PICK m : m = IF a <= b THEN a ELSE b
  OBVIOUS
<1>2. m \in {a, b} /\ \A y \in {a, b} : m <= y
  BY <1>1
<1>3. \A x \in {a, b} : (\A y \in {a, b} : x <= y) => x = m
  BY <1>1
<1> QED
  BY <1>1, <1>2, <1>3 DEF Min

LEMMA MinOfSome ==
    ASSUME NEW T \in SUBSET Nat, T # {}
    PROVE  Min(T) \in T /\ \A x \in T : Min(T) <= x
BY LeastNat DEF Min

LEMMA Begin ==
    ASSUME NEW S, NEW s \in Seq(S), NEW n \in 0 .. Len(s)
    PROVE  /\ SubSeq(s, 1, n) \in Seq(S) /\ Len(SubSeq(s, 1, n)) = n
           /\ \A i \in 1 .. n : SubSeq(s, 1, n)[i] = s[i]
<1>1. Len(s) \in Nat /\ n \in Int
  BY LenProperties
<1>2. \A i \in 1 .. n : s[i] \in S
  <2>1. \A i \in 1 .. n : i \in 1 .. Len(s)
    BY <1>1
  <2> QED
    BY <2>1, ElementOfSeq
<1>3. \A i \in 1 .. n - 1 + 1 : SubSeq(s, 1, n)[i] = s[1 + i - 1]
  BY <1>1, <1>2, SubSeqProperties
<1>4. \A i \in 1 .. n : i \in 1 .. n - 1 + 1 /\ 1 + i - 1 = i
  BY <1>1
<1>5. \A i \in 1 .. n : SubSeq(s, 1, n)[i] = s[i]
  BY <1>3, <1>4
<1>6. SubSeq(s, 1, n) \in Seq(S) /\ Len(SubSeq(s, 1, n)) = n
  BY FirstOnes
<1> QED
  BY <1>5, <1>6

\* The beginning of a beginning.
LEMMA BeginOfBegin ==
    ASSUME NEW S, NEW s \in Seq(S), NEW n \in 0 .. Len(s), NEW m \in 0 .. n
    PROVE  SubSeq(SubSeq(s, 1, n), 1, m) = SubSeq(s, 1, m)
<1>1. Len(s) \in Nat /\ m \in 0 .. Len(s) /\ n \in Nat /\ m \in Nat
  BY LenProperties
<1>2. PICK u : u = SubSeq(s, 1, n)
  OBVIOUS
<1>3. u \in Seq(S) /\ Len(u) = n /\ \A i \in 1 .. n : u[i] = s[i]
  BY <1>2, Begin
<1>4. PICK x, y : x = SubSeq(u, 1, m) /\ y = SubSeq(s, 1, m)
  OBVIOUS
<1>5. x \in Seq(S) /\ Len(x) = m /\ \A i \in 1 .. m : x[i] = u[i]
  BY <1>1, <1>3, <1>4, Begin
<1>6. y \in Seq(S) /\ Len(y) = m /\ \A i \in 1 .. m : y[i] = s[i]
  BY <1>1, <1>4, Begin
<1>7. \A i \in 1 .. m : x[i] = y[i]
  <2>1. \A i \in 1 .. m : i \in 1 .. n
    BY <1>1
  <2> QED
    BY <1>3, <1>5, <1>6, <2>1
<1>8. x = y
  BY <1>5, <1>6, <1>7, SeqEqual
<1> QED
  BY <1>2, <1>4, <1>8

LEMMA ConcatFront ==
    ASSUME NEW S, NEW s \in Seq(S), NEW t \in Seq(S), NEW n \in 0 .. Len(s)
    PROVE  SubSeq(s \o t, 1, n) = SubSeq(s, 1, n)
<1>1. PICK c \in Seq(S) : /\ c = s \o t /\ Len(c) = Len(s) + Len(t)
                          /\ \A i \in 1 .. Len(s) : c[i] = s[i]
  <2>1. /\ s \o t \in Seq(S) /\ Len(s \o t) = Len(s) + Len(t)
        /\ \A i \in 1 .. Len(s) + Len(t) :
              (s \o t)[i] = IF i <= Len(s) THEN s[i] ELSE t[i - Len(s)]
    BY ConcatProperties
  <2>2. Len(s) \in Nat /\ Len(t) \in Nat
    BY LenProperties
  <2>3. \A i \in 1 .. Len(s) : i \in 1 .. Len(s) + Len(t) /\ i <= Len(s)
    BY <2>2
  <2> QED
    BY <2>1, <2>3
<1>2. Len(s) \in Nat /\ Len(t) \in Nat /\ n \in Nat /\ n \in 0 .. Len(c)
  BY <1>1, LenProperties
<1>3. PICK a, b : a = SubSeq(c, 1, n) /\ b = SubSeq(s, 1, n)
  OBVIOUS
<1>4. /\ a \in Seq(S) /\ Len(a) = n /\ \A i \in 1 .. n : a[i] = c[i]
      /\ b \in Seq(S) /\ Len(b) = n /\ \A i \in 1 .. n : b[i] = s[i]
  BY <1>2, <1>3, Begin
<1>5. \A i \in 1 .. n : a[i] = b[i]
  <2>1. \A i \in 1 .. n : i \in 1 .. Len(s)
    BY <1>2
  <2> QED
    BY <1>1, <1>4, <2>1
<1>6. a = b
  BY <1>4, <1>5, SeqEqual
<1> QED
  BY <1>1, <1>3, <1>6

\* The rows after a cut to n, and after new ones were put there.
CutRows(rows, n) == rows \o [i \in 1 .. n - Len(rows) |-> 0]
PutRows(rows, len, new) ==
    SubSeq(rows, 1, len) \o new \o SubSeq(rows, len + Len(new) + 1, Len(rows))

LEMMA PutRowsHeld ==
    ASSUME NEW S, NEW rows \in Seq(S), NEW len \in Nat, len <= Len(rows),
           NEW new \in Seq(S)
    PROVE  /\ PutRows(rows, len, new) \in Seq(S)
           /\ len + Len(new) <= Len(PutRows(rows, len, new))
           /\ SubSeq(PutRows(rows, len, new), 1, len + Len(new))
                 = SubSeq(rows, 1, len) \o new
<1>1. Len(new) \in Nat /\ Len(rows) \in Nat /\ len \in 0 .. Len(rows)
  BY LenProperties
<1>2. PICK a \in Seq(S) : a = SubSeq(rows, 1, len) /\ Len(a) = len
  BY <1>1, FirstOnes
<1>3. PICK b \in Seq(S) : b = SubSeq(rows, len + Len(new) + 1, Len(rows))
  <2>1. \A i \in len + Len(new) + 1 .. Len(rows) : rows[i] \in S
    <3>1. \A i \in len + Len(new) + 1 .. Len(rows) : i \in 1 .. Len(rows)
      BY <1>1
    <3> QED
      BY <3>1, ElementOfSeq
  <2>2. SubSeq(rows, len + Len(new) + 1, Len(rows)) \in Seq(S)
    BY <1>1, <2>1, SubSeqProperties
  <2> QED
    BY <2>2
<1>4. PICK c \in Seq(S) : c = a \o new /\ Len(c) = len + Len(new)
  <2>1. a \o new \in Seq(S) /\ Len(a \o new) = Len(a) + Len(new)
    BY ConcatProperties
  <2> QED
    BY <1>2, <2>1
<1>5. PICK d \in Seq(S) : d = c \o b /\ Len(d) = Len(c) + Len(b) /\ Len(b) \in Nat
  BY ConcatProperties, LenProperties
<1>6. Len(c) \in 0 .. Len(c)
  BY <1>1, <1>4
<1>7. SubSeq(d, 1, Len(c)) = SubSeq(c, 1, Len(c))
  BY <1>5, <1>6, ConcatFront
<1>8. SubSeq(c, 1, Len(c)) = c
  BY SubSeqFull
<1>9. PutRows(rows, len, new) = d
  BY <1>2, <1>3, <1>4, <1>5 DEF PutRows
<1>10. len + Len(new) <= Len(d)
  BY <1>1, <1>4, <1>5
<1>11. SubSeq(d, 1, len + Len(new)) = a \o new
  BY <1>4, <1>7, <1>8
<1> QED
  BY <1>2, <1>9, <1>10, <1>11

LEMMA CutRowsHeld ==
    ASSUME NEW S, NEW rows \in Seq(S), NEW n \in 0 .. Len(rows)
    PROVE  CutRows(rows, n) = rows
<1>1. Len(rows) \in Nat
  BY LenProperties
<1>2. 1 .. n - Len(rows) = {}
  BY <1>1
<1>3. PICK f : f = [i \in 1 .. n - Len(rows) |-> 0]
  OBVIOUS
<1>4. f = <<>>
  BY <1>2, <1>3
<1> QED
  BY <1>3, <1>4, ConcatEmptySeq DEF CutRows

\* The caches of the model, and the buffer of the draft head.
CacheType == [rows : Seq(Tokens), len : Nat, live : Int, lin : Seq(Tokens), pos : Nat]
HeadType == [rows : Seq(Nat), len : Nat, live : Int, start : Nat, due : Seq(Nat)]

\* The caches agree: they hold the tokens s and nothing else.
Holds(c, s) ==
    /\ c \in CacheType
    /\ c.len = Len(s) /\ c.live = c.len /\ c.len <= Len(c.rows)
    /\ SubSeq(c.rows, 1, c.len) = s /\ c.lin = s /\ c.pos = Len(s)

\* The rows of the head are s.
HeadHolds(m, s) ==
    /\ m \in HeadType
    /\ m.len = Len(s) /\ m.live = m.len /\ m.len <= Len(m.rows)
    /\ SubSeq(m.rows, 1, m.len) = s

LEMMA HoldsContext ==
    ASSUME NEW c, NEW s \in Seq(Tokens), Holds(c, s)
    PROVE  Context(c) = s
BY DEF Holds, Context, Rows

LEMMA HoldsForward ==
    ASSUME NEW c, NEW s \in Seq(Tokens), Holds(c, s), NEW t \in Seq(Tokens)
    PROVE  Holds(Forward(c, t), s \o t)
<1>1. /\ c \in CacheType /\ c.rows \in Seq(Tokens) /\ c.len \in Nat /\ c.len <= Len(c.rows)
      /\ SubSeq(c.rows, 1, c.len) = s /\ c.len = Len(s) /\ c.live = c.len
      /\ c.lin = s /\ c.pos = Len(s)
  BY DEF Holds, CacheType
<1>2. PICK r : r = PutRows(c.rows, c.len, t)
  OBVIOUS
<1>3. r \in Seq(Tokens) /\ c.len + Len(t) <= Len(r) /\ SubSeq(r, 1, c.len + Len(t)) = s \o t
  <2>1. PICK rs \in Seq(Tokens), n \in Nat : rs = c.rows /\ n = c.len /\ n <= Len(rs)
    BY <1>1
  <2>2. /\ PutRows(rs, n, t) \in Seq(Tokens) /\ n + Len(t) <= Len(PutRows(rs, n, t))
        /\ SubSeq(PutRows(rs, n, t), 1, n + Len(t)) = SubSeq(rs, 1, n) \o t
    BY <2>1, PutRowsHeld
  <2> QED
    BY <1>1, <1>2, <2>1, <2>2
<1>4. s \o t \in Seq(Tokens) /\ Len(s \o t) = Len(s) + Len(t) /\ Len(t) \in Nat /\ Len(s) \in Nat
  BY ConcatProperties, LenProperties
<1>5. PICK f : f = Forward(c, t)
  OBVIOUS
<1>6. /\ f.rows = r /\ f.len = c.len + Len(t) /\ f.live = c.len + Len(t)
      /\ f.lin = c.lin \o t /\ f.pos = c.pos + Len(t)
      /\ f = [rows |-> r, len |-> c.len + Len(t), live |-> c.len + Len(t),
              lin |-> c.lin \o t, pos |-> c.pos + Len(t)]
  BY <1>1, <1>2, <1>5 DEF Forward, Put, PutRows, CacheType
<1>7. f \in CacheType
  BY <1>1, <1>3, <1>4, <1>6 DEF CacheType
<1> QED
  BY <1>1, <1>3, <1>4, <1>5, <1>6, <1>7 DEF Holds

LEMMA HoldsAfter ==
    ASSUME NEW c, NEW s \in Seq(Tokens), Holds(c, s), NEW t \in Seq(Tokens),
           NEW n \in 0 .. Len(t)
    PROVE  /\ s \o SubSeq(t, 1, n) \in Seq(Tokens)
           /\ Holds(After(c, t, n), s \o SubSeq(t, 1, n))
           /\ Context(After(c, t, n)) = s \o SubSeq(t, 1, n)
<1>1. PICK u \in Seq(Tokens) : u = SubSeq(t, 1, n)
  BY FirstOnes
<1>2. Holds(Forward(c, u), s \o u)
  BY HoldsForward
<1>3. s \o u \in Seq(Tokens)
  BY ConcatProperties
<1>4. Context(Forward(c, u)) = s \o u
  BY <1>2, <1>3, HoldsContext
<1> QED
  BY <1>1, <1>2, <1>3, <1>4 DEF After

\* A cut of rows that were there.
LEMMA CutHeld ==
    ASSUME NEW S, NEW b, NEW T, b \in T, T = CacheType \/ T = HeadType,
           b.rows \in Seq(S), b.live = b.len, b.len <= Len(b.rows), NEW n \in 0 .. b.len
    PROVE  /\ Cut(b, n) = [b EXCEPT !.len = n, !.live = n]
           /\ SubSeq(b.rows, 1, n) = SubSeq(SubSeq(b.rows, 1, b.len), 1, n)
<1>0. b.len \in Nat
  <2>1. CASE T = CacheType
    BY <2>1 DEF CacheType
  <2>2. CASE T = HeadType
    BY <2>2 DEF HeadType
  <2> QED
    BY <2>1, <2>2
<1>1. b.len \in Nat /\ Len(b.rows) \in Nat /\ n \in 0 .. Len(b.rows) /\ n \in Int /\ n <= b.len
      /\ b.len \in 0 .. Len(b.rows)
  <2>1. Len(b.rows) \in Nat
    BY LenProperties
  <2> QED
    BY <1>0, <2>1
<1>2. CutRows(b.rows, n) = b.rows
  BY <1>1, CutRowsHeld
<1>3. Min({b.live, n}) = n
  <2>1. Min({b.len, n}) = IF b.len <= n THEN b.len ELSE n
    BY <1>1, MinOfTwo
  <2> QED
    BY <1>1, <2>1
<1>4. Cut(b, n) = [b EXCEPT !.len = n, !.live = n]
  BY <1>2, <1>3 DEF Cut, CutRows, CacheType, HeadType
<1>5. SubSeq(b.rows, 1, n) = SubSeq(SubSeq(b.rows, 1, b.len), 1, n)
  <2>0. PICK r \in Seq(S) : r = b.rows
    OBVIOUS
  <2>1. PICK k \in 0 .. Len(r) : r = b.rows /\ k = b.len
    BY <1>1, <2>0
  <2>2. n \in 0 .. k
    BY <1>1, <2>1
  <2> QED
    BY <2>1, <2>2, BeginOfBegin
<1> QED
  BY <1>4, <1>5

\* What the two ways of undoing a verification leave.
LEMMA HoldsCutBack ==
    ASSUME NEW c, NEW s \in Seq(Tokens), Holds(c, s), NEW t \in Seq(Tokens),
           NEW n \in 0 .. Len(t)
    PROVE  Holds(CutBack(c, t, n), s \o SubSeq(t, 1, n))
<1>1. PICK f : f = Forward(c, t)
  OBVIOUS
<1>2. PICK u : u = s \o t
  OBVIOUS
<1>3. u \in Seq(Tokens) /\ Len(u) = Len(s) + Len(t) /\ Len(s) \in Nat /\ Len(t) \in Nat
  BY <1>2, ConcatProperties, LenProperties
<1>4. Holds(f, u) /\ f \in CacheType /\ f.rows \in Seq(Tokens)
  <2>1. Holds(f, u)
    BY <1>1, <1>2, HoldsForward
  <2> QED
    BY <2>1 DEF Holds, CacheType
<1>5. PICK k : k = Len(s) + n
  OBVIOUS
<1>6. k \in 0 .. f.len /\ k \in Nat /\ k \in 0 .. Len(u) /\ c.pos + n = k
  BY <1>3, <1>4, <1>5 DEF Holds
<1>7. /\ Cut(f, k) = [f EXCEPT !.len = k, !.live = k]
      /\ SubSeq(f.rows, 1, k) = SubSeq(SubSeq(f.rows, 1, f.len), 1, k)
  BY <1>4, <1>6, CutHeld DEF Holds
<1>8. PICK w : w = s \o SubSeq(t, 1, n)
  OBVIOUS
<1>9. SubSeq(u, 1, k) = w /\ w \in Seq(Tokens) /\ Len(w) = k
  <2>1. PICK b : b = SubSeq(t, 1, n)
    OBVIOUS
  <2>2. b \in Seq(Tokens) /\ Len(b) = n /\ \A i \in 1 .. n : b[i] = t[i]
    BY <2>1, Begin
  <2>3. PICK v : v = SubSeq(u, 1, k)
    OBVIOUS
  <2>4. v \in Seq(Tokens) /\ Len(v) = k /\ \A i \in 1 .. k : v[i] = u[i]
    BY <1>3, <1>6, <2>3, Begin
  <2>5. /\ w \in Seq(Tokens) /\ Len(w) = k
        /\ \A i \in 1 .. k : w[i] = IF i <= Len(s) THEN s[i] ELSE b[i - Len(s)]
    <3>1. /\ s \o b \in Seq(Tokens) /\ Len(s \o b) = Len(s) + Len(b)
          /\ \A i \in 1 .. Len(s) + Len(b) :
                (s \o b)[i] = IF i <= Len(s) THEN s[i] ELSE b[i - Len(s)]
      BY <2>2, ConcatProperties
    <3> QED
      BY <1>5, <1>8, <2>1, <2>2, <3>1
  <2>6. \A i \in 1 .. Len(s) + Len(t) : u[i] = IF i <= Len(s) THEN s[i] ELSE t[i - Len(s)]
    BY <1>2, ConcatProperties
  <2>7. ASSUME NEW i \in 1 .. k PROVE v[i] = w[i]
    <3>1. i \in 1 .. Len(s) + Len(t) /\ (~(i <= Len(s)) => i - Len(s) \in 1 .. n)
      BY <1>3, <1>5
    <3>2. u[i] = w[i]
      BY <2>2, <2>5, <2>6, <3>1
    <3> QED
      BY <2>4, <3>2
  <2>8. v = w
    BY <2>4, <2>5, <2>7, SeqEqual
  <2> QED
    BY <2>3, <2>4, <2>8
<1>10. After(c, t, n).lin = w
  <2>1. Holds(After(c, t, n), w)
    BY <1>8, HoldsAfter
  <2> QED
    BY <2>1 DEF Holds
<1>11. CutBack(c, t, n) = [f EXCEPT !.len = k, !.live = k, !.lin = w, !.pos = k]
  BY <1>1, <1>4, <1>6, <1>7, <1>10 DEF CutBack, CacheType
<1>12. /\ f.len \in Nat /\ f.len <= Len(f.rows) /\ k <= f.len /\ Len(f.rows) \in Nat
       /\ SubSeq(f.rows, 1, k) = w
  <2>1. f \in CacheType /\ f.len <= Len(f.rows) /\ SubSeq(f.rows, 1, f.len) = u
    BY <1>4 DEF Holds
  <2>2. f.rows \in Seq(Tokens) /\ f.len \in Nat
    BY <2>1 DEF CacheType
  <2>3. Len(f.rows) \in Nat
    BY <2>2, LenProperties
  <2>4. SubSeq(f.rows, 1, k) = w
    BY <1>7, <1>9, <2>1
  <2> QED
    BY <1>6, <2>1, <2>2, <2>3, <2>4
<1>13. Holds(CutBack(c, t, n), w)
  <2>1. PICK g : g = CutBack(c, t, n)
    OBVIOUS
  <2>2. g = [rows |-> f.rows, len |-> k, live |-> k, lin |-> w, pos |-> k]
    BY <1>4, <1>11, <2>1 DEF CacheType
  <2>3. g \in CacheType /\ g.len = k /\ g.live = k /\ g.rows = f.rows /\ g.lin = w /\ g.pos = k
    BY <1>4, <1>6, <1>9, <2>2 DEF CacheType
  <2>4. k <= Len(f.rows)
    BY <1>6, <1>12
  <2> QED
    BY <1>9, <1>12, <2>1, <2>3, <2>4 DEF Holds
<1> QED
  BY <1>8, <1>13

LEMMA HoldsReplay ==
    ASSUME NEW c, NEW s \in Seq(Tokens), Holds(c, s), NEW t \in Seq(Tokens),
           NEW n \in 0 .. Len(t)
    PROVE  Holds(Replay(c, t, n), s \o SubSeq(t, 1, n))
<1>1. PICK f : f = Forward(c, t)
  OBVIOUS
<1>2. PICK u : u = s \o t
  OBVIOUS
<1>3. u \in Seq(Tokens) /\ Len(u) = Len(s) + Len(t) /\ Len(s) \in Nat /\ Len(t) \in Nat
  BY <1>2, ConcatProperties, LenProperties
<1>4. Holds(f, u) /\ f \in CacheType /\ f.rows \in Seq(Tokens)
  <2>1. Holds(f, u)
    BY <1>1, <1>2, HoldsForward
  <2> QED
    BY <2>1 DEF Holds, CacheType
<1>5. PICK k : k = Len(s)
  OBVIOUS
<1>6. /\ k \in 0 .. f.len /\ k \in Nat /\ c.pos = k /\ c.len = k /\ c.lin = s
      /\ f.live = f.len /\ f.len <= Len(f.rows) /\ SubSeq(f.rows, 1, f.len) = u
      /\ f.len \in Nat /\ Len(f.rows) \in Nat
  <2>1. f.len \in Nat /\ Len(f.rows) \in Nat
    BY <1>4, LenProperties DEF CacheType
  <2> QED
    BY <1>3, <1>4, <1>5, <2>1 DEF Holds
<1>7. /\ Cut(f, k) = [f EXCEPT !.len = k, !.live = k]
      /\ SubSeq(f.rows, 1, k) = SubSeq(u, 1, k)
  BY <1>4, <1>6, CutHeld
<1>8. SubSeq(u, 1, k) = s
  <2>1. k \in 0 .. Len(s)
    BY <1>3, <1>5
  <2>2. SubSeq(u, 1, k) = SubSeq(s, 1, k)
    BY <1>2, <2>1, ConcatFront
  <2>3. SubSeq(s, 1, Len(s)) = s
    BY SubSeqFull
  <2> QED
    BY <1>5, <2>2, <2>3
<1>9. PICK g : g = [Cut(f, k) EXCEPT !.lin = s, !.pos = k]
  OBVIOUS
<1>10. g = [rows |-> f.rows, len |-> k, live |-> k, lin |-> s, pos |-> k]
  BY <1>4, <1>7, <1>9 DEF CacheType
<1>11. Holds(g, s)
  <2>1. g \in CacheType /\ g.len = k /\ g.live = k /\ g.rows = f.rows /\ g.lin = s /\ g.pos = k
    BY <1>4, <1>6, <1>10 DEF CacheType
  <2>2. k <= Len(f.rows)
    BY <1>6
  <2> QED
    BY <1>5, <1>7, <1>8, <2>1, <2>2 DEF Holds
<1>12. PICK v \in Seq(Tokens) : v = SubSeq(t, 1, n)
  <2>1. SubSeq(t, 1, n) \in Seq(Tokens)
    BY Begin
  <2> QED
    BY <2>1
<1>13. Replay(c, t, n) = Forward(g, v)
  BY <1>1, <1>6, <1>9, <1>12 DEF Replay
<1> QED
  BY <1>11, <1>12, <1>13, HoldsForward

-----------------------------------------------------------------------------
(* The buffer of the draft head.                                            *)

LEMMA HeadPut ==
    ASSUME NEW m, NEW s \in Seq(Nat), HeadHolds(m, s), NEW t \in Seq(Nat)
    PROVE  /\ HeadHolds(Put(m, t), s \o t)
           /\ Put(m, t).due = m.due /\ Put(m, t).start = m.start
<1>1. /\ m \in HeadType /\ m.rows \in Seq(Nat) /\ m.len \in Nat /\ m.len <= Len(m.rows)
      /\ SubSeq(m.rows, 1, m.len) = s /\ m.len = Len(s) /\ m.live = m.len
  BY DEF HeadHolds, HeadType
<1>2. PICK r : r = PutRows(m.rows, m.len, t)
  OBVIOUS
<1>3. r \in Seq(Nat) /\ m.len + Len(t) <= Len(r) /\ SubSeq(r, 1, m.len + Len(t)) = s \o t
  <2>1. PICK rs \in Seq(Nat), n \in Nat : rs = m.rows /\ n = m.len /\ n <= Len(rs)
    BY <1>1
  <2>2. /\ PutRows(rs, n, t) \in Seq(Nat) /\ n + Len(t) <= Len(PutRows(rs, n, t))
        /\ SubSeq(PutRows(rs, n, t), 1, n + Len(t)) = SubSeq(rs, 1, n) \o t
    BY <2>1, PutRowsHeld
  <2> QED
    BY <1>1, <1>2, <2>1, <2>2
<1>4. Len(s \o t) = Len(s) + Len(t) /\ Len(t) \in Nat
  BY ConcatProperties, LenProperties
<1>5. PICK f : f = Put(m, t)
  OBVIOUS
<1>6. f = [rows |-> r, len |-> m.len + Len(t), live |-> m.len + Len(t),
          start |-> m.start, due |-> m.due]
  BY <1>1, <1>2, <1>5 DEF Put, PutRows, HeadType
<1>7. /\ f \in HeadType /\ f.rows = r /\ f.len = m.len + Len(t) /\ f.live = m.len + Len(t)
      /\ f.due = m.due /\ f.start = m.start
  BY <1>1, <1>3, <1>4, <1>6 DEF HeadType
<1> QED
  BY <1>1, <1>3, <1>4, <1>5, <1>7 DEF HeadHolds

LEMMA HeadCut ==
    ASSUME NEW m, NEW s \in Seq(Nat), HeadHolds(m, s), NEW n \in 0 .. Len(s)
    PROVE  /\ HeadHolds(Cut(m, n), SubSeq(s, 1, n))
           /\ Cut(m, n).due = m.due /\ Cut(m, n).start = m.start
<1>1. /\ m \in HeadType /\ m.rows \in Seq(Nat) /\ m.len \in Nat /\ m.len <= Len(m.rows)
      /\ SubSeq(m.rows, 1, m.len) = s /\ m.len = Len(s) /\ m.live = m.len
      /\ Len(m.rows) \in Nat /\ n \in Nat /\ n <= m.len
  BY LenProperties DEF HeadHolds, HeadType
<1>2. /\ Cut(m, n) = [m EXCEPT !.len = n, !.live = n]
      /\ SubSeq(m.rows, 1, n) = SubSeq(s, 1, n)
  BY <1>1, CutHeld
<1>3. PICK f : f = Cut(m, n)
  OBVIOUS
<1>4. f = [rows |-> m.rows, len |-> n, live |-> n, start |-> m.start, due |-> m.due]
  BY <1>1, <1>2, <1>3 DEF HeadType
<1>5. /\ f \in HeadType /\ f.rows = m.rows /\ f.len = n /\ f.live = n
      /\ f.due = m.due /\ f.start = m.start
  BY <1>1, <1>4 DEF HeadType
<1>6. n <= Len(m.rows) /\ Len(SubSeq(s, 1, n)) = n
  BY <1>1, Begin
<1> QED
  BY <1>2, <1>3, <1>5, <1>6 DEF HeadHolds

\* The numbers of the first h tokens: the prompt's and those of the answer.
Ids(h) == [i \in 1 .. h |-> i]

LEMMA IdsAre ==
    ASSUME NEW h \in Nat
    PROVE  Ids(h) \in Seq(Nat) /\ Len(Ids(h)) = h /\ \A i \in 1 .. h : Ids(h)[i] = i
BY DEF Ids

LEMMA IdsWhen ==
    ASSUME NEW h \in Nat, NEW s \in Seq(Nat), Len(s) = h, \A i \in 1 .. h : s[i] = i
    PROVE  s = Ids(h)
<1>1. PICK t \in Seq(Nat) : t = Ids(h) /\ Len(t) = h /\ \A i \in 1 .. h : t[i] = i
  BY IdsAre
<1>2. s = t
  BY <1>1, SeqEqual
<1> QED
  BY <1>1, <1>2

\* The next k numbers; and the first of what follows, when that is the next one.
LEMMA IdsOn ==
    ASSUME NEW h \in Nat, NEW t \in Seq(Nat), \A i \in 1 .. Len(t) : t[i] = h + i
    PROVE  Ids(h) \o t = Ids(h + Len(t)) /\ h + Len(t) \in Nat
<1>1. PICK s \in Seq(Nat) : s = Ids(h) /\ Len(s) = h /\ \A i \in 1 .. h : s[i] = i
  BY IdsAre
<1>2. Len(t) \in Nat
  BY LenProperties
<1>3. PICK u : u = s \o t
  OBVIOUS
<1>4. /\ u \in Seq(Nat) /\ Len(u) = h + Len(t)
      /\ \A i \in 1 .. h + Len(t) : u[i] = IF i <= h THEN s[i] ELSE t[i - h]
  <2>1. /\ s \o t \in Seq(Nat) /\ Len(s \o t) = Len(s) + Len(t)
        /\ \A i \in 1 .. Len(s) + Len(t) :
              (s \o t)[i] = IF i <= Len(s) THEN s[i] ELSE t[i - Len(s)]
    BY ConcatProperties
  <2> QED
    BY <1>1, <1>3, <2>1
<1>5. ASSUME NEW i \in 1 .. h + Len(t) PROVE u[i] = i
  <2>1. CASE i <= h
    <3>1. i \in 1 .. h
      BY <1>2, <2>1
    <3> QED
      BY <1>1, <1>4, <2>1, <3>1
  <2>2. CASE ~(i <= h)
    <3>1. i - h \in 1 .. Len(t) /\ h + (i - h) = i
      BY <1>2, <2>2
    <3>2. t[i - h] = i
      BY <3>1
    <3> QED
      BY <1>4, <2>2, <3>2
  <2> QED
    BY <2>1, <2>2
<1>6. u = Ids(h + Len(t))
  <2>1. PICK g \in Nat : g = h + Len(t)
    BY <1>2
  <2>2. Len(u) = g /\ \A i \in 1 .. g : u[i] = i
    BY <1>4, <1>5, <2>1
  <2>3. u = Ids(g)
    BY <1>4, <2>2, IdsWhen
  <2> QED
    BY <2>1, <2>3
<1> QED
  BY <1>1, <1>2, <1>3, <1>6

LEMMA IdsPart ==
    ASSUME NEW h \in Nat, NEW n \in 0 .. h
    PROVE  SubSeq(Ids(h), 1, n) = Ids(n)
<1>1. PICK s \in Seq(Nat) : s = Ids(h) /\ Len(s) = h /\ \A i \in 1 .. h : s[i] = i
  BY IdsAre
<1>2. PICK u : u = SubSeq(s, 1, n)
  OBVIOUS
<1>3. u \in Seq(Nat) /\ Len(u) = n /\ \A i \in 1 .. n : u[i] = s[i]
  <2>1. n \in 0 .. Len(s)
    BY <1>1
  <2> QED
    BY <1>2, <2>1, Begin
<1>4. n \in Nat /\ \A i \in 1 .. n : u[i] = i
  BY <1>1, <1>3
<1> QED
  BY <1>1, <1>2, <1>3, <1>4, IdsWhen

LEMMA IdsFirst ==
    ASSUME NEW h \in Nat, NEW t \in Seq(Nat), t # <<>>, t[1] = h + 1
    PROVE  /\ SubSeq(Ids(h) \o t, 1, h + 1) = Ids(h + 1)
           /\ h + 1 \in 0 .. Len(Ids(h) \o t) /\ Ids(h) \o t \in Seq(Nat)
<1>1. PICK s \in Seq(Nat) : s = Ids(h) /\ Len(s) = h /\ \A i \in 1 .. h : s[i] = i
  BY IdsAre
<1>2. Len(t) \in Nat /\ Len(t) >= 1
  BY EmptyOrNot
<1>3. PICK u : u = s \o t
  OBVIOUS
<1>4. /\ u \in Seq(Nat) /\ Len(u) = h + Len(t)
      /\ \A i \in 1 .. h + Len(t) : u[i] = IF i <= h THEN s[i] ELSE t[i - h]
  <2>1. /\ s \o t \in Seq(Nat) /\ Len(s \o t) = Len(s) + Len(t)
        /\ \A i \in 1 .. Len(s) + Len(t) :
              (s \o t)[i] = IF i <= Len(s) THEN s[i] ELSE t[i - Len(s)]
    BY ConcatProperties
  <2> QED
    BY <1>1, <1>3, <2>1
<1>5. h + 1 \in 0 .. Len(u)
  BY <1>2, <1>4
<1>6. PICK v : v = SubSeq(u, 1, h + 1)
  OBVIOUS
<1>7. v \in Seq(Nat) /\ Len(v) = h + 1 /\ \A i \in 1 .. h + 1 : v[i] = u[i]
  BY <1>4, <1>5, <1>6, Begin
<1>8. ASSUME NEW i \in 1 .. h + 1 PROVE v[i] = i
  <2>1. i \in 1 .. h + Len(t)
    BY <1>2
  <2>2. CASE i <= h
    <3>1. i \in 1 .. h
      BY <2>2
    <3> QED
      BY <1>1, <1>4, <1>7, <2>1, <2>2, <3>1
  <2>3. CASE ~(i <= h)
    <3>1. i = h + 1 /\ i - h = 1
      BY <2>3
    <3> QED
      BY <1>4, <1>7, <2>1, <2>3, <3>1
  <2> QED
    BY <2>2, <2>3
<1>9. v = Ids(h + 1)
  BY <1>7, <1>8, IdsWhen
<1> QED
  BY <1>1, <1>3, <1>4, <1>5, <1>6, <1>9

\* The head has the rows of the first h tokens, some of them still due.
HeadExact(m, h) ==
    /\ m \in HeadType
    /\ m.live = m.len /\ m.len <= Len(m.rows)
    /\ SubSeq(m.rows, 1, m.len) \o m.due = Ids(h)
    /\ m.due # <<>> => m.start = m.len

LEMMA ExactParts ==
    ASSUME NEW h \in Nat, NEW m, HeadExact(m, h)
    PROVE  /\ m.due \in Seq(Nat) /\ Len(m.due) \in Nat /\ m.len \in Nat
           /\ HeadHolds(m, SubSeq(m.rows, 1, m.len))
           /\ SubSeq(m.rows, 1, m.len) \in Seq(Nat) /\ Len(SubSeq(m.rows, 1, m.len)) = m.len
           /\ m.len + Len(m.due) = h
           /\ m.due = <<>> => m.len = h /\ HeadHolds(m, Ids(h))
<1>1. /\ m \in HeadType /\ m.due \in Seq(Nat) /\ m.rows \in Seq(Nat) /\ m.len \in Nat
      /\ m.live = m.len /\ m.len <= Len(m.rows)
      /\ SubSeq(m.rows, 1, m.len) \o m.due = Ids(h)
  BY DEF HeadExact, HeadType
<1>2. m.len \in 0 .. Len(m.rows) /\ Len(m.due) \in Nat
  BY <1>1, LenProperties
<1>3. PICK s : s = SubSeq(m.rows, 1, m.len)
  OBVIOUS
<1>4. s \in Seq(Nat) /\ Len(s) = m.len
  BY <1>1, <1>2, <1>3, Begin
<1>5. HeadHolds(m, s)
  BY <1>1, <1>3, <1>4 DEF HeadHolds
<1>6. Len(s \o m.due) = Len(s) + Len(m.due)
  BY <1>1, <1>4, ConcatProperties
<1>7. m.len + Len(m.due) = h
  BY <1>1, <1>3, <1>4, <1>6, IdsAre
<1>8. ASSUME m.due = <<>> PROVE m.len = h /\ s = Ids(h)
  <2>1. Len(m.due) = 0
    BY <1>8, EmptySeq
  <2>2. s \o <<>> = s
    BY <1>4, ConcatEmptySeq
  <2> QED
    BY <1>1, <1>3, <1>7, <1>8, <2>1, <2>2
<1> QED
  BY <1>1, <1>2, <1>3, <1>4, <1>5, <1>7, <1>8

\* Once the rows that are due have been appended the head has all rows.
LEMMA FlushExact ==
    ASSUME NEW h \in Nat, NEW m, HeadExact(m, h)
    PROVE  HeadHolds(Flush(m, h), Ids(h)) /\ Flush(m, h).due = <<>>
<1>1. /\ m.due \in Seq(Nat) /\ Len(m.due) \in Nat /\ m.len \in Nat
      /\ m.len + Len(m.due) = h /\ m.len \in 0 .. h
  BY ExactParts
<1>2. CASE m.due = <<>>
  <2>1. HeadHolds(m, Ids(h)) /\ Flush(m, h) = Cut(m, h)
    BY <1>2, ExactParts DEF Flush
  <2>2. /\ HeadHolds(Cut(m, h), SubSeq(Ids(h), 1, h)) /\ Cut(m, h).due = m.due
    <3>1. Ids(h) \in Seq(Nat) /\ h \in 0 .. Len(Ids(h))
      BY IdsAre
    <3> QED
      BY <2>1, <3>1, HeadCut
  <2>3. SubSeq(Ids(h), 1, h) = Ids(h)
    <3>1. h \in 0 .. h
      OBVIOUS
    <3> QED
      BY <3>1, IdsPart
  <2> QED
    BY <1>2, <2>1, <2>2, <2>3
<1>3. CASE m.due # <<>>
  <2>1. PICK s \in Seq(Nat) : s = SubSeq(m.rows, 1, m.len) /\ Len(s) = m.len
    BY ExactParts
  <2>2. /\ HeadHolds(m, s) /\ m.start = m.len /\ m.start + Len(m.due) = h
        /\ s \o m.due = Ids(h)
    BY <1>1, <1>3, <2>1, ExactParts DEF HeadExact
  <2>3. PICK c : c = Cut(m, m.len)
    OBVIOUS
  <2>4. HeadHolds(c, s) /\ c.due = m.due
    <3>1. m.len \in 0 .. Len(s)
      BY <1>1, <2>1
    <3>2. SubSeq(s, 1, Len(s)) = s
      BY SubSeqFull
    <3>3. PICK n \in 0 .. Len(s) : n = m.len
      BY <3>1
    <3>4. HeadHolds(Cut(m, n), SubSeq(s, 1, n)) /\ Cut(m, n).due = m.due
      BY <2>2, HeadCut
    <3> QED
      BY <2>1, <2>3, <3>2, <3>3, <3>4
  <2>5. PICK p : p = Put(c, m.due)
    OBVIOUS
  <2>6. HeadHolds(p, Ids(h))
    BY <1>1, <2>2, <2>4, <2>5, HeadPut
  <2>7. Flush(m, h) = [p EXCEPT !.due = <<>>]
    BY <1>3, <2>2, <2>3, <2>5 DEF Flush
  <2>8. PICK f : f = Flush(m, h)
    OBVIOUS
  <2>9. f \in HeadType /\ f.due = <<>> /\ f.len = p.len /\ f.rows = p.rows /\ f.live = p.live
    <3>1. p \in HeadType /\ <<>> \in Seq(Nat)
      BY <2>6, EmptySeq DEF HeadHolds
    <3>2. f = [rows |-> p.rows, len |-> p.len, live |-> p.live, start |-> p.start, due |-> <<>>]
      BY <2>7, <2>8, <3>1 DEF HeadType
    <3> QED
      BY <3>1, <3>2 DEF HeadType
  <2> QED
    BY <2>6, <2>8, <2>9 DEF HeadHolds
<1> QED
  BY <1>2, <1>3

\* A head without rows due.
LEMMA HeldExact ==
    ASSUME NEW h \in Nat, NEW m, HeadHolds(m, Ids(h)), m.due = <<>>
    PROVE  HeadExact(m, h)
<1>1. Ids(h) \o <<>> = Ids(h)
  BY IdsAre, ConcatEmptySeq
<1> QED
  BY <1>1 DEF HeadHolds, HeadExact

\* What the head attends is all rows.
LEMMA AttendedExact ==
    ASSUME NEW h \in Nat, NEW m, HeadExact(m, h)
    PROVE  m.live = m.len /\ Attended(m) = [i \in 1 .. h |-> i]
<1>1. CASE m.due = <<>>
  <2>1. HeadHolds(m, Ids(h))
    BY <1>1, ExactParts
  <2> QED
    BY <1>1, <2>1 DEF Attended, Rows, HeadHolds, Ids
<1>2. CASE m.due # <<>>
  BY <1>2 DEF Attended, HeadExact, Ids
<1> QED
  BY <1>1, <1>2

\* The next rows are put there; rows are taken back.
LEMMA HeadNext ==
    ASSUME NEW h \in Nat, NEW m, HeadHolds(m, Ids(h)),
           NEW t \in Seq(Nat), \A i \in 1 .. Len(t) : t[i] = h + i
    PROVE  /\ HeadHolds(Put(m, t), Ids(h + Len(t)))
           /\ Put(m, t).due = m.due
<1>1. Ids(h) \in Seq(Nat) /\ Ids(h) \o t = Ids(h + Len(t))
  BY IdsAre, IdsOn
<1>2. HeadHolds(Put(m, t), Ids(h) \o t) /\ Put(m, t).due = m.due
  BY <1>1, HeadPut
<1> QED
  BY <1>1, <1>2

LEMMA HeadOneMore ==
    ASSUME NEW h \in Nat, NEW m, HeadHolds(m, Ids(h))
    PROVE  /\ HeadHolds(Put(m, <<h + 1>>), Ids(h + 1))
           /\ Put(m, <<h + 1>>).due = m.due
<1>1. PICK t \in Seq(Nat) : t = <<h + 1>> /\ Len(t) = 1 /\ t[1] = h + 1
  <2>1. <<h + 1>> \in Seq(Nat) /\ Len(<<h + 1>>) = 1 /\ <<h + 1>>[1] = h + 1
    OBVIOUS
  <2> QED
    BY <2>1
<1>2. \A i \in 1 .. Len(t) : t[i] = h + i
  BY <1>1
<1>3. HeadHolds(Put(m, t), Ids(h + Len(t))) /\ Put(m, t).due = m.due
  BY <1>2, HeadNext
<1> QED
  BY <1>1, <1>3

LEMMA HeadBack ==
    ASSUME NEW m, NEW s \in Seq(Nat), HeadHolds(m, s), NEW n \in 0 .. Len(s)
    PROVE  HeadHolds(Truncate(m, n), SubSeq(s, 1, n)) /\ Truncate(m, n).due = <<>>
<1>1. PICK c : c = Cut(m, n)
  OBVIOUS
<1>2. HeadHolds(c, SubSeq(s, 1, n)) /\ c \in HeadType
  BY <1>1, HeadCut DEF HeadHolds
<1>3. PICK f : f = Truncate(m, n)
  OBVIOUS
<1>4. f = [rows |-> c.rows, len |-> c.len, live |-> c.live, start |-> c.start, due |-> <<>>]
  BY <1>1, <1>2, <1>3 DEF Truncate, HeadType
<1>5. /\ f \in HeadType /\ f.rows = c.rows /\ f.len = c.len /\ f.live = c.live
      /\ f.due = <<>>
  BY <1>2, <1>4, EmptySeq DEF HeadType
<1> QED
  BY <1>2, <1>3, <1>5 DEF HeadHolds

LEMMA HeadBackIds ==
    ASSUME NEW h \in Nat, NEW m, HeadHolds(m, Ids(h)), NEW n \in 0 .. h
    PROVE  /\ HeadHolds(Truncate(m, n), Ids(n)) /\ Truncate(m, n).due = <<>>
           /\ HeadHolds(Cut(m, n), Ids(n)) /\ Cut(m, n).due = m.due
<1>1. PICK s \in Seq(Nat) : s = Ids(h) /\ Len(s) = h
  BY IdsAre
<1>2. n \in 0 .. Len(s) /\ SubSeq(s, 1, n) = Ids(n)
  BY <1>1, IdsPart
<1> QED
  BY <1>1, <1>2, HeadBack, HeadCut

-----------------------------------------------------------------------------
(* A turn.                                                                  *)

\* The model's caches after the first i tokens of a batch that goes on along
\* the line, undone or not.
LEMMA BatchOnLine ==
    ASSUME line \in Lines, NEW n \in Nat, NEW c, Holds(c, Pre(n)),
           NEW t \in Seq(Tokens), NEW i \in 0 .. Len(t), n + i <= MaxNew,
           \A j \in 1 .. i : t[j] = line[n + j]
    PROVE  /\ Context(After(c, t, i)) = Pre(n + i)
           /\ Holds(After(c, t, i), Pre(n + i))
           /\ Holds(CutBack(c, t, i), Pre(n + i))
           /\ Holds(Replay(c, t, i), Pre(n + i))
           /\ i = Len(t) => Holds(Forward(c, t), Pre(n + i))
<1>1. Pre(n) \o SubSeq(t, 1, i) = Pre(n + i) /\ n \in 0 .. MaxNew
  BY PreOn
<1>2. Pre(n) \in Seq(Tokens)
  BY <1>1, PreIs
<1>3. /\ Context(After(c, t, i)) = Pre(n) \o SubSeq(t, 1, i)
      /\ Holds(After(c, t, i), Pre(n) \o SubSeq(t, 1, i))
  BY <1>2, HoldsAfter
<1>4. Holds(CutBack(c, t, i), Pre(n) \o SubSeq(t, 1, i))
  BY <1>2, HoldsCutBack
<1>5. Holds(Replay(c, t, i), Pre(n) \o SubSeq(t, 1, i))
  BY <1>2, HoldsReplay
<1>6. ASSUME i = Len(t) PROVE Holds(Forward(c, t), Pre(n + i))
  <2>1. SubSeq(t, 1, Len(t)) = t
    BY SubSeqFull
  <2>2. Holds(Forward(c, t), Pre(n) \o t)
    BY <1>2, HoldsForward
  <2> QED
    BY <1>1, <1>6, <2>1, <2>2
<1> QED
  BY <1>1, <1>3, <1>4, <1>5, <1>6

Choosable == Tokens \cup {Off}

\* Rows of the head are due only after two drafts, which the configuration allows.
DueShape ==
    mtp.due # <<>> => mode.rows /\ (mode.adaptive \/ Min({mode.depth, MaxNew}) = 2)

\* n tokens are on the line and none of them stops; the caches hold m of them.
Committed(n) ==
    /\ n \in 0 .. MaxNew /\ generated = Pre(n)
    /\ \A i \in 1 .. n : line[i] \notin StopIds

CachesAt(m) == Holds(cache, Pre(m)) /\ state = Pre(m)

HeadAt(m) ==
    mode.history = "committed" =>
        HeadExact(mtp, Seeded + m) /\ history = Seeded + m /\ DueShape

Typed == line \in Lines /\ mode \in Modes /\ pending \in Choosable /\ history \in Nat

PlanOK ==
    /\ plan.depth \in Nat \ {0} /\ plan.found \in Seq(Tokens)
    /\ ~mode.adaptive => plan.depth = Min({mode.depth, MaxNew})

\* Before the drafts of a turn: n tokens, the last one not yet in the caches.
Drafting(n) ==
    /\ Typed /\ Committed(n) /\ n \in Nat \ {0} /\ n < MaxNew
    /\ CachesAt(n - 1) /\ HeadAt(n - 1) /\ PlanOK

\* Between two turns.
Between(n) ==
    /\ Typed /\ Committed(n) /\ HeadAt(n)
    /\ n < MaxNew => CachesAt(n) /\ pending = line[n + 1]

LEMMA PrimaryIs ==
    ASSUME NEW n, Drafting(n)
    PROVE  /\ Primary = line[n] /\ Primary \in Tokens /\ Len(generated) = n
           /\ n \in 0 .. MaxNew /\ n - 1 \in Nat /\ MaxNew \in Nat /\ Seeded \in Nat
           /\ Row(state, Primary) = Seeded + n
<1>1. n \in 0 .. MaxNew /\ n \in 1 .. n /\ n - 1 \in Nat /\ (n - 1) + 1 = n /\ n - 1 < MaxNew
  BY LimitAssumption DEF Drafting, Committed
<1>2. /\ Len(Pre(n)) = n /\ Pre(n)[n] = line[n] /\ line[n] \in Tokens
  BY <1>1, PreIs DEF Drafting, Typed
<1>3. Primary = line[n] /\ Len(generated) = n
  BY <1>2 DEF Primary, Last, Drafting, Committed
<1>4. Row(Pre(n - 1), line[(n - 1) + 1]) = Seeded + (n - 1) + 1
  BY <1>1, RowOnLine DEF Drafting, Typed
<1>5. Seeded + (n - 1) + 1 = Seeded + n
  BY <1>1, SeedAssumption
<1> QED
  BY <1>1, <1>2, <1>3, <1>4, <1>5, LimitAssumption, SeedAssumption DEF Drafting, CachesAt

\* One more token of the line is committed.
LEMMA CommitMore ==
    ASSUME line \in Lines, NEW n \in Nat, n < MaxNew, generated = Pre(n),
           \A i \in 1 .. n : line[i] \notin StopIds, line[n + 1] \notin StopIds
    PROVE  /\ Append(generated, line[n + 1]) = Pre(n + 1)
           /\ \A i \in 1 .. n + 1 : line[i] \notin StopIds
           /\ n + 1 \in 0 .. MaxNew
<1>1. \A i \in 1 .. n + 1 : i \in 1 .. n \/ i = n + 1
  OBVIOUS
<1> QED
  BY <1>1, PreAppend

\* The rows of the head after one draft.
LEMMA OneHead ==
    ASSUME NEW n, Drafting(n), mode.history = "committed", DoOne,
           NEW m, m = IF mode.adaptive THEN Flush(mtp, history) ELSE mtp
    PROVE  /\ HeadHolds(Put(Cut(m, history), <<Row(state, Primary)>>), Ids(Seeded + n))
           /\ Put(Cut(m, history), <<Row(state, Primary)>>).due = <<>>
<1>1. PICK h \in Nat : h = history /\ h = Seeded + n - 1 /\ h + 1 = Seeded + n
  <2>1. history = Seeded + (n - 1) /\ Seeded \in Nat /\ n - 1 \in Nat /\ n \in Nat
    BY PrimaryIs DEF Drafting, HeadAt
  <2> QED
    BY <2>1
<1>2. HeadExact(mtp, h) /\ DueShape
  BY <1>1 DEF Drafting, HeadAt
<1>3. HeadHolds(m, Ids(h)) /\ m.due = <<>>
  <2>1. CASE mode.adaptive
    BY <1>1, <1>2, <2>1, FlushExact
  <2>2. CASE ~mode.adaptive
    <3>1. Min({mode.depth, MaxNew}) = 1
      BY <2>2 DEF Drafting, PlanOK, DoOne
    <3>2. m.due = <<>>
      BY <1>2, <2>2, <3>1 DEF DueShape
    <3> QED
      BY <1>2, <2>2, <3>2, ExactParts
  <2> QED
    BY <2>1, <2>2
<1>4. PICK c : c = Cut(m, h)
  OBVIOUS
<1>5. HeadHolds(c, Ids(h)) /\ c.due = <<>>
  <2>1. h \in 0 .. h
    OBVIOUS
  <2> QED
    BY <1>3, <1>4, <2>1, HeadBackIds
<1>6. HeadHolds(Put(c, <<h + 1>>), Ids(h + 1)) /\ Put(c, <<h + 1>>).due = <<>>
  BY <1>5, HeadOneMore
<1>7. Row(state, Primary) = h + 1
  BY <1>1, PrimaryIs
<1> QED
  BY <1>1, <1>4, <1>6, <1>7

LEMMA TurnOne ==
    ASSUME NEW n, Drafting(n), NEW d \in Tokens, DraftOne(d)
    PROVE  \E k \in {0, 1} : Between(n + k)' /\ Len(generated') = n + k
<1> DEFINE tokens == <<Primary, d>>
<1>1. /\ n \in Nat /\ n - 1 \in Nat /\ (n - 1) + 1 = n /\ (n - 1) + 2 = n + 1 /\ n < MaxNew
      /\ n + 1 <= MaxNew /\ MaxNew \in Nat /\ Seeded \in Nat
  BY PrimaryIs DEF Drafting
<1>2. /\ line \in Lines /\ mode \in Modes /\ generated = Pre(n) /\ Primary = line[n]
      /\ Primary \in Tokens /\ Holds(cache, Pre(n - 1)) /\ history \in Nat
      /\ \A i \in 1 .. n : line[i] \notin StopIds
      /\ pending \in Choosable /\ line' = line /\ mode' = mode
  BY PrimaryIs DEF Drafting, Typed, Committed, CachesAt, DraftOne
<1>3. tokens \in Seq(Tokens) /\ Len(tokens) = 2 /\ tokens[1] = line[(n - 1) + 1] /\ tokens[2] = d
  BY <1>1, <1>2
<1>4. PICK m : m = IF mode.adaptive THEN Flush(mtp, history) ELSE mtp
  OBVIOUS
<1>5. PICK out : out = SpecOne(m, d)
  OBVIOUS
<1> DEFINE after == Context(After(cache, tokens, 1))
           both == After(cache, tokens, 2)
           keep == d = line[n + 1] /\ line[n + 1] \notin StopIds
           one == Put(Cut(m, IF Fresh THEN 0 ELSE history),
                      <<IF Fresh THEN 0 ELSE Row(state, Primary)>>)
           two == IF Fresh THEN one ELSE Put(one, <<Row(after, Choice(after))>>)
<1>6. after = Pre(n) /\ Holds(CutBack(cache, tokens, 1), Pre(n))
  <2>1. /\ 1 \in 0 .. Len(tokens) /\ (n - 1) + 1 <= MaxNew
        /\ \A j \in 1 .. 1 : tokens[j] = line[(n - 1) + j]
    BY <1>1, <1>3
  <2> HIDE DEF tokens
  <2>2. /\ Context(After(cache, tokens, 1)) = Pre((n - 1) + 1)
        /\ Holds(CutBack(cache, tokens, 1), Pre((n - 1) + 1))
    BY <1>1, <1>2, <1>3, <2>1, BatchOnLine
  <2> QED
    BY <1>1, <2>2
<1>7. Choice(Pre(n)) = line[n + 1] /\ line[n + 1] \in Tokens
  BY <1>1, <1>2, ChoiceOnLine, PreAppend
<1>8. ASSUME keep PROVE Context(both) = Pre(n + 1) /\ Holds(both, Pre(n + 1))
  <2>1. /\ 2 \in 0 .. Len(tokens) /\ (n - 1) + 2 <= MaxNew
        /\ \A j \in 1 .. 2 : tokens[j] = line[(n - 1) + j]
    <3>1. \A j \in 1 .. 2 : j = 1 \/ j = 2
      OBVIOUS
    <3> QED
      BY <1>1, <1>3, <1>8, <3>1
  <2> HIDE DEF tokens
  <2>2. /\ Context(After(cache, tokens, 2)) = Pre((n - 1) + 2)
        /\ Holds(After(cache, tokens, 2), Pre((n - 1) + 2))
    BY <1>1, <1>2, <1>3, <2>1, BatchOnLine
  <2> QED
    BY <1>1, <2>2
<1>9. /\ out.keep = keep /\ out.target = line[n + 1]
      /\ out.bonus = Choice(Context(both))
      /\ out.state = (IF keep THEN Context(both) ELSE Pre(n))
      /\ out.cache = (IF keep THEN both ELSE CutBack(cache, tokens, 1))
      /\ out.mtp = (IF keep THEN two
                    ELSE Cut(two, (IF Fresh THEN 0 ELSE history) + 1))
  BY <1>5, <1>6, <1>7 DEF SpecOne
<1>10. /\ generated' = IF keep THEN Append(generated, d) ELSE generated
       /\ pending' = IF ~keep THEN line[n + 1]
                     ELSE IF Len(generated') < MaxNew THEN Choice(Context(both)) ELSE pending
       /\ cache' = out.cache /\ state' = out.state
       /\ mtp' = (IF keep \/ Fresh THEN out.mtp ELSE Truncate(out.mtp, history + 1))
       /\ history' = (IF Fresh THEN history ELSE history + (IF keep THEN 2 ELSE 1))
  <2> HIDE DEF keep, both
  <2> QED
    BY <1>4, <1>5, <1>9 DEF DraftOne
<1>11. ASSUME mode.history = "committed"
       PROVE  /\ HeadHolds(two, Ids(Seeded + n + 1)) /\ two.due = <<>>
              /\ history = Seeded + n - 1
              /\ HeadHolds(one, Ids(Seeded + n)) /\ ~Fresh
  <2>1. ~Fresh /\ one = Put(Cut(m, history), <<Row(state, Primary)>>)
    BY <1>11 DEF Fresh
  <2>2. HeadHolds(one, Ids(Seeded + n)) /\ one.due = <<>>
    BY <1>4, <1>11, <2>1, OneHead DEF DraftOne
  <2>3. Row(after, Choice(after)) = Seeded + n + 1
    BY <1>1, <1>2, <1>6, <1>7, RowOnLine
  <2> HIDE DEF one, after
  <2>4. PICK h \in Nat : h = Seeded + n
    BY <1>1
  <2>5. HeadHolds(Put(one, <<h + 1>>), Ids(h + 1)) /\ Put(one, <<h + 1>>).due = <<>>
    BY <2>2, <2>4, HeadOneMore
  <2>6. two = Put(one, <<h + 1>>)
    BY <2>1, <2>3, <2>4
  <2>7. history = Seeded + n - 1
    BY <1>1, <1>11 DEF Drafting, HeadAt
  <2> QED
    BY <2>1, <2>2, <2>4, <2>5, <2>6, <2>7
<1> HIDE DEF two, one, after, both, tokens
<1>12. CASE keep
  <2>1. /\ generated' = Pre(n + 1) /\ \A i \in 1 .. n + 1 : line[i] \notin StopIds
        /\ n + 1 \in 0 .. MaxNew
    BY <1>1, <1>2, <1>10, <1>12, CommitMore
  <2>2. Len(generated') = n + 1
    BY <1>2, <2>1, PreIs
  <2>3. Committed(n + 1)'
    BY <1>2, <2>1 DEF Committed, Pre
  <2>4. CachesAt(n + 1)'
    BY <1>2, <1>8, <1>9, <1>10, <1>12 DEF CachesAt, Pre
  <2>5. ASSUME n + 1 < MaxNew
        PROVE  pending' = line[(n + 1) + 1] /\ pending' \in Tokens
    <3>1. n + 1 \in Nat
      BY <1>1
    <3>2. Choice(Pre(n + 1)) = line[(n + 1) + 1] /\ line[(n + 1) + 1] \in Tokens
      BY <1>2, <2>5, <3>1, ChoiceOnLine, PreAppend
    <3> QED
      BY <1>8, <1>10, <1>12, <2>2, <2>5, <3>2
  <2>6. pending' \in Choosable
    BY <1>1, <1>2, <1>10, <1>12, <2>2, <2>5 DEF Choosable
  <2>7. HeadAt(n + 1)'
    <3> SUFFICES ASSUME mode.history = "committed"
                 PROVE  HeadExact(mtp', Seeded + (n + 1)) /\ history' = Seeded + (n + 1) /\ DueShape'
      BY <1>2 DEF HeadAt
    <3>1. mtp' = two /\ history' = history + 2
      BY <1>9, <1>10, <1>11, <1>12
    <3>2. PICK h \in Nat : h = Seeded + (n + 1) /\ h = Seeded + n + 1 /\ history + 2 = h
      BY <1>1, <1>11
    <3>3. HeadExact(two, h)
      BY <1>11, <3>2, HeldExact
    <3> QED
      BY <1>11, <3>1, <3>2, <3>3 DEF DueShape
  <2>8. Typed'
    BY <1>2, <1>10, <2>6 DEF Typed, Lines, Choosable
  <2>9. Between(n + 1)'
    BY <1>2, <2>3, <2>4, <2>5, <2>7, <2>8 DEF Between
  <2> QED
    BY <2>2, <2>9
<1>13. CASE ~keep
  <2>1. generated' = Pre(n) /\ Len(generated') = n
    BY <1>2, <1>10, <1>13, PrimaryIs
  <2>2. Committed(n)'
    BY <1>2, <2>1, PrimaryIs DEF Committed, Pre
  <2>3. CachesAt(n)' /\ pending' = line[n + 1]
    BY <1>2, <1>6, <1>9, <1>10, <1>13 DEF CachesAt, Pre
  <2>4. HeadAt(n)'
    <3> SUFFICES ASSUME mode.history = "committed"
                 PROVE  HeadExact(mtp', Seeded + n) /\ history' = Seeded + n /\ DueShape'
      BY <1>2 DEF HeadAt
    <3>1. PICK c : c = Cut(two, history + 1)
      OBVIOUS
    <3>2. PICK h \in Nat : h = Seeded + n /\ h + 1 = Seeded + n + 1 /\ history + 1 = h
      BY <1>1, <1>11
    <3>3. mtp' = Truncate(c, h) /\ history' = h /\ c = Cut(two, h)
      BY <1>9, <1>10, <1>11, <1>13, <3>1, <3>2
    <3>4. HeadHolds(c, Ids(h))
      <4>1. h \in 0 .. h + 1 /\ h + 1 \in Nat
        OBVIOUS
      <4> QED
        BY <1>11, <3>2, <3>3, <4>1, HeadBackIds
    <3>5. HeadHolds(Truncate(c, h), Ids(h)) /\ Truncate(c, h).due = <<>>
      <4>1. h \in 0 .. h
        OBVIOUS
      <4> QED
        BY <3>4, <4>1, HeadBackIds
    <3>6. HeadExact(Truncate(c, h), h)
      BY <3>5, HeldExact
    <3> QED
      BY <3>2, <3>3, <3>5, <3>6 DEF DueShape
  <2>5. Typed'
    BY <1>2, <1>7, <1>10, <2>3 DEF Typed, Lines, Choosable
  <2>6. Between(n)'
    BY <1>2, <2>2, <2>3, <2>4, <2>5 DEF Between
  <2>7. n + 0 = n
    BY <1>1
  <2> QED
    BY <2>1, <2>6, <2>7
<1> QED
  BY <1>12, <1>13

LEMMA ChoiceTyped ==
    ASSUME line \in Lines, NEW n \in 0 .. MaxNew
    PROVE  Choice(Pre(n)) \in Choosable
<1>1. n \in Nat /\ Len(Pre(n)) = n /\ MaxNew \in Nat
  BY PreIs, LimitAssumption
<1>2. CASE n < MaxNew
  BY <1>1, <1>2, ChoiceOnLine, PreAppend DEF Choosable
<1>3. CASE ~(n < MaxNew)
  BY <1>1, <1>3 DEF Choice, Choosable
<1> QED
  BY <1>2, <1>3

\* The batch of a verification whose first k drafts are on the line.
LEMMA Accepted ==
    ASSUME NEW n, Drafting(n), NEW t \in Seq(Tokens), NEW k \in Nat,
           k + 1 <= Len(t), n + k <= MaxNew,
           t[1] = Primary, \A i \in 1 .. k : t[i + 1] = line[n + i]
    PROVE  /\ Context(After(cache, t, k + 1)) = Pre(n + k)
           /\ Holds(CutBack(cache, t, k + 1), Pre(n + k))
           /\ Holds(Replay(cache, t, k + 1), Pre(n + k))
           /\ k + 1 = Len(t) => Holds(Forward(cache, t), Pre(n + k))
           /\ Choice(Pre(n + k)) \in Choosable
           /\ n + k < MaxNew => /\ Choice(Pre(n + k)) = line[n + k + 1]
                                /\ line[n + k + 1] \in Tokens
                                /\ Row(Pre(n + k), line[n + k + 1]) = Seeded + n + k + 1
<1>1. /\ n \in Nat /\ n - 1 \in Nat /\ (n - 1) + (k + 1) = n + k /\ n + k \in 0 .. MaxNew
      /\ k + 1 \in 0 .. Len(t) /\ MaxNew \in Nat /\ Seeded \in Nat
  BY PrimaryIs, LenProperties DEF Drafting
<1>2. line \in Lines /\ Holds(cache, Pre(n - 1))
  BY DEF Drafting, Typed, CachesAt
<1>3. ASSUME NEW j \in 1 .. k + 1 PROVE t[j] = line[(n - 1) + j]
  <2>1. CASE j = 1
    <3>1. (n - 1) + 1 = n
      BY <1>1
    <3> QED
      BY <2>1, <3>1, PrimaryIs
  <2>2. CASE j # 1
    <3>1. j - 1 \in 1 .. k /\ (j - 1) + 1 = j /\ n + (j - 1) = (n - 1) + j
      BY <1>1, <2>2
    <3> QED
      BY <3>1
  <2> QED
    BY <2>1, <2>2
<1>4. PICK i \in 0 .. Len(t) : i = k + 1
  BY <1>1
<1>5. PICK p \in Nat : p = n - 1
  BY <1>1
<1>6. /\ Context(After(cache, t, i)) = Pre(p + i)
      /\ Holds(CutBack(cache, t, i), Pre(p + i))
      /\ Holds(Replay(cache, t, i), Pre(p + i))
      /\ i = Len(t) => Holds(Forward(cache, t), Pre(p + i))
  <2>1. p + i <= MaxNew /\ \A j \in 1 .. i : t[j] = line[p + j]
    BY <1>1, <1>3, <1>4, <1>5
  <2> QED
    BY <1>2, <1>5, <2>1, BatchOnLine
<1>7. p + i = n + k
  BY <1>1, <1>4, <1>5
<1>8. Choice(Pre(n + k)) \in Choosable
  BY <1>1, <1>2, ChoiceTyped
<1>9. ASSUME n + k < MaxNew
      PROVE  /\ Choice(Pre(n + k)) = line[n + k + 1] /\ line[n + k + 1] \in Tokens
             /\ Row(Pre(n + k), line[n + k + 1]) = Seeded + n + k + 1
  <2>1. PICK q \in Nat : q = n + k
    BY <1>1
  <2>2. /\ Choice(Pre(q)) = line[q + 1] /\ line[q + 1] \in Tokens
        /\ Row(Pre(q), line[q + 1]) = Seeded + q + 1
    BY <1>2, <1>9, <2>1, ChoiceOnLine, PreAppend, RowOnLine
  <2>3. Seeded + q + 1 = Seeded + n + k + 1
    BY <1>1, <2>1
  <2> QED
    BY <2>1, <2>2, <2>3
<1> QED
  BY <1>4, <1>6, <1>7, <1>8, <1>9

\* k of the drafts are committed.
LEMMA CommitDrafts ==
    ASSUME NEW n, Drafting(n), NEW d \in Seq(Tokens), NEW k \in 0 .. Len(d),
           n + k <= MaxNew,
           \A i \in 1 .. k : d[i] = line[n + i] /\ line[n + i] \notin StopIds
    PROVE  /\ generated \o SubSeq(d, 1, k) = Pre(n + k)
           /\ Len(Pre(n + k)) = n + k /\ n + k \in 0 .. MaxNew
           /\ \A i \in 1 .. n + k : line[i] \notin StopIds
<1>1. n \in Nat /\ k \in Nat /\ line \in Lines /\ generated = Pre(n)
      /\ \A i \in 1 .. n : line[i] \notin StopIds
  BY LenProperties DEF Drafting, Typed, Committed
<1>2. Pre(n) \o SubSeq(d, 1, k) = Pre(n + k) /\ n + k \in 0 .. MaxNew
  BY <1>1, PreOn
<1>3. Len(Pre(n + k)) = n + k
  BY <1>1, <1>2, PreIs
<1>4. ASSUME NEW i \in 1 .. n + k PROVE line[i] \notin StopIds
  <2>1. i \in 1 .. n \/ (i - n \in 1 .. k /\ n + (i - n) = i)
    BY <1>1
  <2> QED
    BY <1>1, <2>1
<1> QED
  BY <1>1, <1>2, <1>3, <1>4

LEMMA FunctionIsSeq ==
    ASSUME NEW S, NEW n \in Nat, NEW f \in [1 .. n -> S]
    PROVE  f \in Seq(S) /\ Len(f) = n
OBVIOUS

\* Rows that are left to the next turn.
LEMMA HeadDue ==
    ASSUME NEW h \in Nat, NEW m, HeadHolds(m, Ids(h)),
           NEW t \in Seq(Nat), \A i \in 1 .. Len(t) : t[i] = h + i
    PROVE  HeadExact([m EXCEPT !.start = h, !.due = t], h + Len(t))
<1>1. PICK f : f = [m EXCEPT !.start = h, !.due = t]
  OBVIOUS
<1>2. f = [rows |-> m.rows, len |-> m.len, live |-> m.live, start |-> h, due |-> t]
      /\ m \in HeadType
  BY <1>1 DEF HeadHolds, HeadType
<1>3. /\ f \in HeadType /\ f.rows = m.rows /\ f.len = m.len /\ f.live = m.live
      /\ f.start = h /\ f.due = t
  BY <1>2 DEF HeadType
<1>4. m.len = h /\ Ids(h) \o t = Ids(h + Len(t))
  BY IdsAre, IdsOn DEF HeadHolds
<1> QED
  BY <1>1, <1>3, <1>4 DEF HeadHolds, HeadExact

LEMMA TurnTwo ==
    ASSUME NEW n, Drafting(n), NEW d \in [1 .. 2 -> Tokens], DraftTwo(d)
    PROVE  \E k \in 0 .. 2 : Between(n + k)' /\ Len(generated') = n + k
<1>1. /\ n \in Nat /\ n - 1 \in Nat /\ n < MaxNew /\ MaxNew \in Nat /\ Seeded \in Nat
      /\ Len(generated) = n /\ n + 2 <= MaxNew
  <2>1. MaxNew - Len(generated) >= 2
    BY DEF DraftTwo, DoTwo
  <2> QED
    BY <2>1, PrimaryIs DEF Drafting
<1>2. /\ line \in Lines /\ mode \in Modes /\ Primary \in Tokens /\ history \in Nat
      /\ line' = line /\ mode' = mode
  BY PrimaryIs DEF Drafting, Typed, DraftTwo
<1>3. PICK t : t = <<Primary>> \o d
  OBVIOUS
<1>4. d \in Seq(Tokens) /\ Len(d) = 2
  <2>1. PICK z \in Nat : z = 2
    OBVIOUS
  <2> QED
    BY <2>1, FunctionIsSeq
<1>5. t \in Seq(Tokens) /\ Len(t) = 3 /\ t[1] = Primary /\ \A i \in 1 .. 2 : t[i + 1] = d[i]
  <2>1. <<Primary>> \in Seq(Tokens) /\ Len(<<Primary>>) = 1 /\ <<Primary>>[1] = Primary
    BY <1>2
  <2>2. /\ <<Primary>> \o d \in Seq(Tokens) /\ Len(<<Primary>> \o d) = 1 + 2
        /\ \A i \in 1 .. 1 + 2 :
              (<<Primary>> \o d)[i] = IF i <= 1 THEN <<Primary>>[i] ELSE d[i - 1]
    <3>1. PICK p \in Seq(Tokens) : p = <<Primary>> /\ Len(p) = 1
      BY <2>1
    <3>2. /\ p \o d \in Seq(Tokens) /\ Len(p \o d) = Len(p) + Len(d)
          /\ \A i \in 1 .. Len(p) + Len(d) :
                (p \o d)[i] = IF i <= Len(p) THEN p[i] ELSE d[i - Len(p)]
      BY <1>4, ConcatProperties
    <3> QED
      BY <1>4, <3>1, <3>2
  <2>3. \A i \in 1 .. 2 : i + 1 \in 1 .. 1 + 2 /\ ~(i + 1 <= 1) /\ (i + 1) - 1 = i
    OBVIOUS
  <2> QED
    BY <1>3, <2>1, <2>2, <2>3
<1> DEFINE after(i) == Context(After(cache, t, i))
           target(i) == Choice(after(i))
           good(i) == d[i] = target(i) /\ target(i) \notin StopIds
           kept == IF ~good(1) THEN 0 ELSE IF ~good(2) THEN 1 ELSE 2
           head == Put(Flush(mtp, history), <<Row(state, Primary), 0>>)
<1>6. PICK out : out = SpecTwo(d)
  OBVIOUS
<1>7. /\ out.kept = kept /\ out.state = after(kept + 1) /\ out.pending = target(kept + 1)
      /\ out.cache = (IF kept = 2 THEN Forward(cache, t) ELSE CutBack(cache, t, kept + 1))
      /\ out.mtp = [Cut(head, history + 1) EXCEPT
                      !.start = history + 1,
                      !.due = [i \in 1 .. kept |-> Row(after(i), target(i))]]
  BY <1>3, <1>6 DEF SpecTwo
<1>8. PICK k : k = kept
  OBVIOUS
<1>9. /\ k \in Nat /\ k <= 2 /\ n + k <= MaxNew
      /\ \A i \in 1 .. k : d[i] = line[n + i] /\ line[n + i] \notin StopIds
      /\ \A i \in 1 .. k : after(i) = Pre(n + (i - 1)) /\ target(i) = line[n + i]
  <2>1. after(1) = Pre(n) /\ target(1) = line[n + 1]
    <3>1. /\ 0 + 1 = 1 /\ 1 <= Len(t) /\ n + 0 = n /\ n + 0 <= MaxNew /\ n + 0 + 1 = n + 1
          /\ \A i \in 1 .. 0 : t[i + 1] = line[n + i]
      BY <1>1, <1>5
    <3>2. PICK z \in Nat : z = 0
      OBVIOUS
    <3>3. /\ Context(After(cache, t, z + 1)) = Pre(n + z)
          /\ n + z < MaxNew => Choice(Pre(n + z)) = line[n + z + 1]
      BY <1>5, <3>1, <3>2, Accepted
    <3> QED
      BY <1>1, <3>1, <3>2, <3>3
  <2>2. ASSUME good(1) PROVE after(2) = Pre(n + 1) /\ target(2) = line[n + 2]
    <3>1. d[1] = line[n + 1]
      BY <2>1, <2>2
    <3>2. /\ 1 + 1 = 2 /\ 2 <= Len(t) /\ n + 1 <= MaxNew /\ n + 1 + 1 = n + 2 /\ n + 1 < MaxNew
          /\ \A i \in 1 .. 1 : t[i + 1] = line[n + i]
      BY <1>1, <1>5, <3>1
    <3>3. PICK z \in Nat : z = 1
      OBVIOUS
    <3>4. /\ Context(After(cache, t, z + 1)) = Pre(n + z)
          /\ n + z < MaxNew => Choice(Pre(n + z)) = line[n + z + 1]
      BY <1>5, <3>2, <3>3, Accepted
    <3> QED
      BY <3>2, <3>3, <3>4
  <2> HIDE DEF after, target
  <2>3. CASE ~good(1)
    BY <1>1, <1>8, <2>3
  <2>4. CASE good(1) /\ ~good(2)
    <3>1. k = 1 /\ d[1] = line[n + 1] /\ line[n + 1] \notin StopIds
      BY <1>8, <2>1, <2>4
    <3>2. \A i \in 1 .. k : i = 1 /\ n + i = n + 1 /\ n + (i - 1) = n
      BY <1>1, <3>1
    <3> QED
      BY <1>1, <2>1, <3>1, <3>2
  <2>5. CASE good(1) /\ good(2)
    <3>1. /\ k = 2 /\ d[1] = line[n + 1] /\ line[n + 1] \notin StopIds
          /\ d[2] = line[n + 2] /\ line[n + 2] \notin StopIds
      BY <1>8, <2>1, <2>2, <2>5
    <3>2. \A i \in 1 .. k : \/ i = 1 /\ n + i = n + 1 /\ n + (i - 1) = n
                            \/ i = 2 /\ n + i = n + 2 /\ n + (i - 1) = n + 1
      BY <1>1, <3>1
    <3> QED
      BY <1>1, <2>1, <2>2, <2>5, <3>1, <3>2
  <2> QED
    BY <2>3, <2>4, <2>5
<1>10. /\ Context(After(cache, t, k + 1)) = Pre(n + k)
       /\ Holds(CutBack(cache, t, k + 1), Pre(n + k))
       /\ k = 2 => Holds(Forward(cache, t), Pre(n + k))
       /\ Choice(Pre(n + k)) \in Choosable
       /\ n + k < MaxNew => Choice(Pre(n + k)) = line[n + k + 1]
  <2>1. k + 1 <= Len(t) /\ (k = 2 => k + 1 = Len(t)) /\ \A i \in 1 .. k : i \in 1 .. 2
    BY <1>5, <1>9
  <2>2. \A i \in 1 .. k : t[i + 1] = line[n + i]
    BY <1>5, <1>9, <2>1
  <2> HIDE DEF after, target
  <2> QED
    BY <1>5, <1>9, <2>1, <2>2, Accepted
<1>11. after(k + 1) = Pre(n + k) /\ target(k + 1) = Choice(Pre(n + k))
  BY <1>10
<1> HIDE DEF after, target, good, kept
<1>12. /\ generated' = generated \o SubSeq(d, 1, k) /\ cache' = out.cache
       /\ state' = Pre(n + k) /\ pending' = Choice(Pre(n + k)) /\ mtp' = out.mtp
       /\ history' = history + k + 1
  BY <1>6, <1>7, <1>8, <1>11 DEF DraftTwo
<1>13. /\ generated' = Pre(n + k) /\ Len(generated') = n + k /\ n + k \in 0 .. MaxNew
       /\ \A i \in 1 .. n + k : line[i] \notin StopIds
  <2>1. k \in 0 .. Len(d)
    BY <1>4, <1>9
  <2> QED
    BY <1>4, <1>9, <1>12, <2>1, CommitDrafts
<1>14. Holds(cache', Pre(n + k))
  BY <1>7, <1>8, <1>10, <1>12
<1>15. ASSUME mode.history = "committed"
       PROVE  HeadExact(mtp', Seeded + (n + k)) /\ history' = Seeded + (n + k) /\ DueShape'
  <2>1. PICK h \in Nat : h = history /\ h + 1 = Seeded + n /\ h = Seeded + (n - 1)
    <3>1. history = Seeded + (n - 1)
      BY <1>15 DEF Drafting, HeadAt
    <3> QED
      BY <1>1, <1>2, <3>1
  <2>2. HeadExact(mtp, h)
    BY <1>15, <2>1 DEF Drafting, HeadAt
  <2>3. PICK m : m = Flush(mtp, h)
    OBVIOUS
  <2>4. HeadHolds(m, Ids(h)) /\ m.due = <<>>
    BY <2>2, <2>3, FlushExact
  <2>5. PICK r \in Seq(Nat) : r = <<h + 1, 0>> /\ r # <<>> /\ r[1] = h + 1
    <3>1. <<h + 1, 0>> \in Seq(Nat) /\ <<h + 1, 0>> # <<>> /\ <<h + 1, 0>>[1] = h + 1
      OBVIOUS
    <3> QED
      BY <3>1
  <2>6. head = Put(m, r)
    BY <2>1, <2>3, <2>5, PrimaryIs
  <2>7. PICK s \in Seq(Nat) : /\ s = Ids(h) \o r /\ h + 1 \in 0 .. Len(s)
                             /\ SubSeq(s, 1, h + 1) = Ids(h + 1)
    BY <2>5, IdsFirst
  <2>8. HeadHolds(head, s)
    BY <2>4, <2>6, <2>7, IdsAre, HeadPut
  <2> HIDE DEF head
  <2>9. PICK c : c = Cut(head, h + 1)
    OBVIOUS
  <2>10. HeadHolds(c, Ids(h + 1))
    BY <2>7, <2>8, <2>9, HeadCut
  <2>11. PICK q : q = [i \in 1 .. k |-> Row(after(i), target(i))]
    OBVIOUS
  <2>12. \A i \in 1 .. k : q[i] = (h + 1) + i
    <3> TAKE i \in 1 .. k
    <3>1. PICK j \in Nat : j = n + (i - 1) /\ j + 1 = n + i /\ j < MaxNew
                            /\ Seeded + j + 1 = (h + 1) + i
      BY <1>1, <1>9, <2>1
    <3>2. q[i] = Row(Pre(j), line[j + 1])
      BY <1>9, <2>11, <3>1
    <3> QED
      BY <1>2, <3>1, <3>2, RowOnLine
  <2>13. q \in Seq(Nat) /\ Len(q) = k
    <3>1. \A i \in 1 .. k : Row(after(i), target(i)) \in Nat
      BY <2>1, <2>11, <2>12
    <3> HIDE DEF after, target
    <3> QED
      BY <1>9, <2>11, <3>1
  <2>14. PICK g \in Nat : g = h + 1
    OBVIOUS
  <2>15. HeadExact([c EXCEPT !.start = g, !.due = q], g + Len(q))
    BY <2>10, <2>12, <2>13, <2>14, HeadDue
  <2>16. mtp' = [c EXCEPT !.start = g, !.due = q]
    BY <1>7, <1>8, <1>12, <2>1, <2>9, <2>11, <2>14
  <2>17. g + Len(q) = Seeded + (n + k) /\ history' = Seeded + (n + k)
    BY <1>1, <1>9, <1>12, <2>1, <2>13, <2>14
  <2>18. DueShape'
    <3>1. mode.rows /\ plan.depth = 2
      BY DEF DraftTwo, DoTwo, Fused
    <3>2. ~mode.adaptive => Min({mode.depth, MaxNew}) = 2
      BY <3>1 DEF Drafting, PlanOK
    <3> QED
      BY <1>2, <3>1, <3>2 DEF DueShape
  <2> QED
    BY <2>15, <2>16, <2>17, <2>18
<1>16. Between(n + k)'
  <2>1. Committed(n + k)' /\ CachesAt(n + k)'
    BY <1>2, <1>12, <1>13, <1>14 DEF Committed, CachesAt, Pre
  <2>2. HeadAt(n + k)'
    BY <1>2, <1>15 DEF HeadAt
  <2>3. Typed'
    BY <1>2, <1>9, <1>10, <1>12 DEF Typed, Lines, Choosable
  <2>4. n + k < MaxNew => pending' = line'[(n + k) + 1]
    BY <1>2, <1>10, <1>12
  <2> QED
    BY <2>1, <2>2, <2>3, <2>4 DEF Between
<1>17. k \in 0 .. 2
  BY <1>9
<1> QED
  BY <1>13, <1>16, <1>17

\* The batch of the general path: the primary token, then the drafts, the last
\* one only when the bonus token is drawn from its row.
LEMMA VerifiedIs ==
    ASSUME Primary \in Tokens, NEW d \in Seq(Tokens), Len(d) >= 1
    PROVE  /\ Verified(d) \in Seq(Tokens) /\ Verified(d)[1] = Primary
           /\ Len(Verified(d)) = IF BonusRow THEN Len(d) + 1 ELSE Len(d)
           /\ \A i \in 1 .. Len(Verified(d)) - 1 : Verified(d)[i + 1] = d[i]
<1>1. PICK p \in Seq(Tokens) : p = <<Primary>> /\ Len(p) = 1 /\ p[1] = Primary
  <2>1. /\ <<Primary>> \in Seq(Tokens) /\ Len(<<Primary>>) = 1 /\ <<Primary>>[1] = Primary
    OBVIOUS
  <2> QED
    BY <2>1
<1>2. Len(d) \in Nat
  BY LenProperties
<1>3. PICK n \in 0 .. Len(d) : n = IF BonusRow THEN Len(d) ELSE Len(d) - 1
  <2>1. CASE BonusRow
    <3>1. Len(d) \in 0 .. Len(d)
      BY <1>2
    <3> QED
      BY <2>1, <3>1
  <2>2. CASE ~BonusRow
    <3>1. Len(d) - 1 \in 0 .. Len(d)
      BY <1>2
    <3> QED
      BY <2>2, <3>1
  <2> QED
    BY <2>1, <2>2
<1>4. PICK e : e = SubSeq(d, 1, n)
  OBVIOUS
<1>5. e \in Seq(Tokens) /\ Len(e) = n /\ \A i \in 1 .. n : e[i] = d[i]
  BY <1>4, Begin
<1>6. e = IF BonusRow THEN d ELSE Front(d)
  BY <1>3, <1>4, SubSeqFull DEF Front
<1>7. PICK v : v = p \o e
  OBVIOUS
<1>8. /\ v \in Seq(Tokens) /\ Len(v) = 1 + n
      /\ \A i \in 1 .. 1 + n : v[i] = IF i <= 1 THEN p[i] ELSE e[i - 1]
  <2>1. /\ p \o e \in Seq(Tokens) /\ Len(p \o e) = Len(p) + Len(e)
        /\ \A i \in 1 .. Len(p) + Len(e) :
              (p \o e)[i] = IF i <= Len(p) THEN p[i] ELSE e[i - Len(p)]
    BY <1>5, ConcatProperties
  <2> QED
    BY <1>1, <1>5, <1>7, <2>1
<1>9. v = Verified(d)
  BY <1>1, <1>6, <1>7 DEF Verified
<1>10. v[1] = Primary
  <2>1. 1 \in 1 .. 1 + n /\ 1 <= 1
    BY <1>2, <1>3
  <2> QED
    BY <1>1, <1>8, <2>1
<1>11. ASSUME NEW i \in 1 .. n PROVE v[i + 1] = d[i]
  <2>1. i + 1 \in 1 .. 1 + n /\ ~(i + 1 <= 1) /\ (i + 1) - 1 = i
    BY <1>2, <1>3
  <2> QED
    BY <1>5, <1>8, <2>1
<1>12. /\ Len(v) - 1 = n /\ 1 + n = IF BonusRow THEN Len(d) + 1 ELSE Len(d)
  BY <1>2, <1>3, <1>8
<1> QED
  BY <1>8, <1>9, <1>10, <1>11, <1>12

\* The outcome `out` of a verification of the drafts d after n tokens.
Verdict(n, d, out) ==
    /\ out.kept \in 0 .. Len(d) /\ n + out.kept <= MaxNew
    /\ \A i \in 1 .. out.kept : d[i] = line[n + i] /\ line[n + i] \notin StopIds
    /\ out.rows \in Seq(Nat) /\ Len(out.rows) = out.kept
    /\ \A i \in 1 .. out.kept : out.rows[i] = Seeded + n + i
    /\ out.all =>
         /\ out.kept = Len(d) /\ n + Len(d) < MaxNew
         /\ BonusRow => Holds(out.cache, Pre(n + Len(d)))
         /\ ~BonusRow => Holds(out.cache, Pre(n + (Len(d) - 1)))
    /\ ~out.all => out.pending \in Choosable
    /\ ~out.all /\ n + out.kept < MaxNew =>
         /\ Holds(out.cache, Pre(n + out.kept)) /\ out.state = Pre(n + out.kept)
         /\ out.pending = line[n + out.kept + 1]

\* What the general path keeps of the drafts d is on the line, and its caches
\* hold it, as far as the answer goes on.
LEMMA VerifyOnLine ==
    ASSUME NEW n, Drafting(n), NEW d \in Seq(Tokens), Len(d) >= 1, NEW out, out = Verify(d)
    PROVE  Verdict(n, d, out)
<1>1. /\ n \in Nat /\ n - 1 \in Nat /\ n < MaxNew /\ MaxNew \in Nat /\ Seeded \in Nat
      /\ Len(generated) = n /\ Primary \in Tokens /\ Len(d) \in Nat /\ line \in Lines
      /\ pending \in Choosable
  BY PrimaryIs, LenProperties DEF Drafting, Typed
<1>2. PICK t \in Seq(Tokens) :
         /\ t = Verified(d) /\ t[1] = Primary
         /\ Len(t) = (IF BonusRow THEN Len(d) + 1 ELSE Len(d))
         /\ \A i \in 1 .. Len(t) - 1 : t[i + 1] = d[i]
  BY <1>1, VerifiedIs
<1> DEFINE after(i) == Context(After(cache, t, i))
           target(i) == Choice(after(i))
           wrong(i) == target(i) \in StopIds \/ d[i] # target(i)
           ends == {i \in 1 .. Len(d) : wrong(i) \/ Len(generated) + i >= MaxNew}
           all == ends = {}
           last == IF all THEN Len(d) ELSE Min(ends)
           kept == IF ~all /\ wrong(last) THEN last - 1 ELSE last
<1>3. /\ out.all = all /\ out.kept = kept /\ out.state = after(last)
      /\ out.pending = (IF ~all /\ wrong(last) THEN target(last) ELSE pending)
      /\ out.rows = [i \in 1 .. kept |-> Row(after(i), d[i])]
      /\ out.cache = (IF all \/ last = Len(t) THEN Forward(cache, t)
                      ELSE IF mode.rows THEN CutBack(cache, t, last)
                      ELSE Replay(cache, t, last))
  BY <1>2 DEF Verify
<1>4. PICK l : l = last
  OBVIOUS
<1>5. l \in 1 .. Len(d) /\ (~all => l \in ends) /\ \A i \in 1 .. l - 1 : i \notin ends
  <2>1. CASE all
    BY <1>1, <1>4, <2>1
  <2>2. CASE ~all
    <3>1. PICK E \in SUBSET Nat : E = ends /\ E \in SUBSET (1 .. Len(d))
      <4>1. ends \in SUBSET (1 .. Len(d))
        OBVIOUS
      <4>2. 1 .. Len(d) \in SUBSET Nat
        OBVIOUS
      <4> HIDE DEF ends
      <4>3. ends \in SUBSET Nat
        BY <4>1, <4>2
      <4> QED
        BY <4>1, <4>3
    <3> HIDE DEF ends
    <3>2. Min(E) \in E /\ \A x \in E : Min(E) <= x
      BY <2>2, <3>1, MinOfSome
    <3>3. l = Min(E)
      BY <1>4, <2>2, <3>1
    <3>4. ASSUME NEW i \in 1 .. l - 1 PROVE i \notin E
      <4>1. l \in Nat
        BY <3>1, <3>2, <3>3
      <4>2. l <= i => FALSE
        BY <4>1
      <4> QED
        BY <3>2, <3>3, <4>2
    <3> QED
      BY <2>2, <3>1, <3>2, <3>3, <3>4
  <2> QED
    BY <2>1, <2>2
<1>6. l \in Nat /\ l >= 1 /\ l <= Len(d) /\ l <= Len(t) /\ l - 1 \in Nat
  BY <1>1, <1>2, <1>5
<1>7. ASSUME NEW i \in 1 .. Len(d), i \notin ends
      PROVE  ~wrong(i) /\ n + i < MaxNew
  BY <1>1, <1>7
\* What follows from the drafts before the k-th: its context is on the line.
<1>8. ASSUME NEW k \in Nat, k + 1 <= l,
             \A i \in 1 .. k : d[i] = line[n + i]
      PROVE  /\ n + k < MaxNew
             /\ after(k + 1) = Pre(n + k) /\ target(k + 1) = line[n + k + 1]
             /\ line[n + k + 1] \in Tokens
             /\ Row(Pre(n + k), line[n + k + 1]) = Seeded + n + k + 1
             /\ Holds(CutBack(cache, t, k + 1), Pre(n + k))
             /\ Holds(Replay(cache, t, k + 1), Pre(n + k))
             /\ k + 1 = Len(t) => Holds(Forward(cache, t), Pre(n + k))
  <2>1. n + k < MaxNew
    <3>1. CASE k = 0
      BY <1>1, <3>1
    <3>2. CASE k # 0
      <4>1. k \in 1 .. l - 1 /\ k \in 1 .. Len(d)
        BY <1>1, <1>6, <1>8, <3>2
      <4>2. k \notin ends
        BY <1>5, <4>1
      <4> QED
        BY <1>7, <4>1, <4>2
    <3> QED
      BY <3>1, <3>2
  <2>2. k + 1 <= Len(t) /\ n + k <= MaxNew /\ \A i \in 1 .. k : i \in 1 .. Len(t) - 1
    BY <1>1, <1>2, <1>6, <1>8, <2>1
  <2>3. \A i \in 1 .. k : t[i + 1] = line[n + i]
    BY <1>2, <1>8, <2>2
  <2>4. /\ Context(After(cache, t, k + 1)) = Pre(n + k)
        /\ Holds(CutBack(cache, t, k + 1), Pre(n + k))
        /\ Holds(Replay(cache, t, k + 1), Pre(n + k))
        /\ k + 1 = Len(t) => Holds(Forward(cache, t), Pre(n + k))
        /\ n + k < MaxNew => /\ Choice(Pre(n + k)) = line[n + k + 1]
                             /\ line[n + k + 1] \in Tokens
                             /\ Row(Pre(n + k), line[n + k + 1]) = Seeded + n + k + 1
    BY <1>2, <2>2, <2>3, Accepted
  <2> QED
    BY <2>1, <2>4
<1> HIDE DEF after, target, ends, kept, last, all
<1>9. \A i \in 1 .. l - 1 : d[i] = line[n + i] /\ line[n + i] \notin StopIds
  <2> DEFINE Q(k) == k + 1 <= l => \A i \in 1 .. k : d[i] = line[n + i] /\ line[n + i] \notin StopIds
             T == {k \in Nat : Q(k)}
  <2>1. 0 \in T
    OBVIOUS
  <2>2. ASSUME NEW k \in Nat, k \in T PROVE k + 1 \in T
    <3> SUFFICES ASSUME (k + 1) + 1 <= l
                 PROVE  \A i \in 1 .. k + 1 : d[i] = line[n + i] /\ line[n + i] \notin StopIds
      OBVIOUS
    <3>1. k + 1 <= l /\ k + 1 \in 1 .. l - 1 /\ k + 1 \in 1 .. Len(d)
      BY <1>6
    <3>2. \A i \in 1 .. k : d[i] = line[n + i] /\ line[n + i] \notin StopIds
      BY <2>2, <3>1
    <3>3. target(k + 1) = line[n + k + 1]
      BY <1>8, <3>1, <3>2
    <3>4. ~wrong(k + 1)
      BY <1>5, <1>7, <3>1
    <3>5. d[k + 1] = line[n + (k + 1)] /\ line[n + (k + 1)] \notin StopIds
      <4>1. n + k + 1 = n + (k + 1)
        BY <1>1
      <4> QED
        BY <3>3, <3>4, <4>1
    <3>6. \A i \in 1 .. k + 1 : i \in 1 .. k \/ i = k + 1
      OBVIOUS
    <3> QED
      BY <3>2, <3>5, <3>6
  <2> HIDE DEF T
  <2>3. l - 1 \in T
    BY <1>6, <2>1, <2>2, NatsByInduction
  <2>4. (l - 1) + 1 <= l
    BY <1>6
  <2> QED
    BY <2>3, <2>4 DEF T
<1>10. PICK p \in Nat : p = l - 1 /\ p + 1 = l
  BY <1>6
<1>11. /\ n + p < MaxNew /\ after(l) = Pre(n + p) /\ target(l) = line[n + l]
       /\ line[n + l] \in Tokens
       /\ Holds(CutBack(cache, t, l), Pre(n + p)) /\ Holds(Replay(cache, t, l), Pre(n + p))
       /\ l = Len(t) => Holds(Forward(cache, t), Pre(n + p))
  <2>1. p + 1 <= l /\ \A i \in 1 .. p : d[i] = line[n + i]
    BY <1>9, <1>10
  <2>2. n + p + 1 = n + l
    BY <1>1, <1>10
  <2> QED
    BY <1>8, <1>10, <2>1, <2>2
<1>12. PICK q : q = kept
  OBVIOUS
<1>13. /\ q = IF ~all /\ wrong(l) THEN p ELSE l
       /\ q \in 0 .. Len(d) /\ q \in Nat /\ q <= l /\ n + q <= MaxNew
  <2>1. q = IF ~all /\ wrong(l) THEN p ELSE l
    BY <1>4, <1>10, <1>12 DEF kept
  <2> QED
    BY <1>1, <1>6, <1>10, <1>11, <2>1
<1>14. ~(~all /\ wrong(l)) => d[l] = line[n + l] /\ line[n + l] \notin StopIds
  <2>1. all => ~wrong(l)
    BY <1>5, <1>7 DEF all
  <2> QED
    BY <1>11, <2>1
<1>15. \A i \in 1 .. q : d[i] = line[n + i] /\ line[n + i] \notin StopIds
  <2>1. CASE ~all /\ wrong(l)
    BY <1>9, <1>10, <1>13, <2>1
  <2>2. CASE ~(~all /\ wrong(l))
    <3>1. \A i \in 1 .. q : i \in 1 .. l - 1 \/ i = l
      BY <1>6, <1>13
    <3> QED
      BY <1>9, <1>14, <2>2, <3>1
  <2> QED
    BY <2>1, <2>2
<1>16. \A i \in 1 .. q : Row(after(i), d[i]) = Seeded + n + i
  <2> TAKE i \in 1 .. q
  <2>1. PICK k \in Nat : k + 1 = i /\ k + 1 <= l /\ \A j \in 1 .. k : j \in 1 .. q
    <3>1. i - 1 \in Nat /\ (i - 1) + 1 = i /\ i <= l /\ \A j \in 1 .. i - 1 : j \in 1 .. q
      BY <1>6, <1>13
    <3> QED
      BY <3>1
  <2>2. /\ after(k + 1) = Pre(n + k) /\ Row(Pre(n + k), line[n + k + 1]) = Seeded + n + k + 1
    BY <1>8, <1>15, <2>1
  <2>3. n + k + 1 = n + i /\ Seeded + n + k + 1 = Seeded + n + i
    BY <1>1, <2>1
  <2> QED
    BY <1>15, <2>1, <2>2, <2>3
<1>17. /\ out.rows \in Seq(Nat) /\ Len(out.rows) = q
       /\ \A i \in 1 .. q : out.rows[i] = Seeded + n + i
  <2>1. out.rows = [i \in 1 .. q |-> Row(after(i), d[i])]
    BY <1>3, <1>12
  <2>2. \A i \in 1 .. q : Row(after(i), d[i]) \in Nat
    BY <1>1, <1>16
  <2>3. out.rows \in [1 .. q -> Nat]
    BY <2>1, <2>2
  <2>4. out.rows \in Seq(Nat) /\ Len(out.rows) = q
    BY <1>13, <2>3, FunctionIsSeq
  <2> QED
    BY <1>16, <2>1, <2>4
<1>18. ASSUME all
       PROVE  /\ q = Len(d) /\ n + Len(d) < MaxNew
              /\ BonusRow => Holds(out.cache, Pre(n + Len(d)))
              /\ ~BonusRow => Holds(out.cache, Pre(n + (Len(d) - 1)))
  <2>1. l = Len(d) /\ q = l
    BY <1>4, <1>13, <1>18 DEF last
  <2>2. n + l < MaxNew
    BY <1>5, <1>7, <1>18 DEF all
  <2>3. out.cache = Forward(cache, t)
    BY <1>3, <1>18
  <2>4. ASSUME ~BonusRow PROVE Holds(out.cache, Pre(n + (Len(d) - 1)))
    BY <1>2, <1>10, <1>11, <2>1, <2>3, <2>4
  <2>5. ASSUME BonusRow PROVE Holds(out.cache, Pre(n + Len(d)))
    <3>1. l + 1 = Len(t) /\ l + 1 <= Len(t) /\ n + l <= MaxNew
          /\ \A i \in 1 .. l : i \in 1 .. Len(t) - 1
      BY <1>1, <1>2, <1>6, <2>1, <2>2, <2>5
    <3>2. \A i \in 1 .. l : t[i + 1] = line[n + i]
      BY <1>2, <1>15, <2>1, <3>1
    <3>3. Holds(Forward(cache, t), Pre(n + l))
      BY <1>2, <1>6, <3>1, <3>2, Accepted
    <3> QED
      BY <2>1, <2>3, <3>3
  <2> QED
    BY <2>1, <2>2, <2>4, <2>5
<1>19. ASSUME ~all, n + q < MaxNew
       PROVE  /\ Holds(out.cache, Pre(n + q)) /\ out.state = Pre(n + q)
              /\ out.pending = line[n + q + 1]
  <2>1. wrong(l)
    <3> SUFFICES ASSUME ~wrong(l) PROVE FALSE
      OBVIOUS
    <3>1. q = l
      BY <1>13
    <3>2. Len(generated) + l >= MaxNew
      BY <1>5, <1>19 DEF ends
    <3> QED
      BY <1>1, <1>6, <1>19, <3>1, <3>2
  <2>2. q = p /\ n + q + 1 = n + l
    BY <1>1, <1>10, <1>13, <1>19, <2>1
  <2>3. out.pending = target(l) /\ out.state = after(l)
    BY <1>3, <1>4, <1>19, <2>1
  <2>4. Holds(out.cache, Pre(n + p))
    BY <1>3, <1>4, <1>11, <1>19
  <2> QED
    BY <1>11, <2>2, <2>3, <2>4
<1>20. out.pending \in Choosable
  BY <1>1, <1>3, <1>4, <1>11 DEF Choosable
<1> QED
  BY <1>3, <1>12, <1>13, <1>15, <1>17, <1>18, <1>19, <1>20 DEF Verdict
\* The rows of the head after the general path: those its drafts wrote are
\* taken back up to the primary token's, and those of the tokens kept follow.
LEMMA GeneralHead ==
    ASSUME NEW n, Drafting(n), mode.history = "committed",
           NEW q \in Seq(Nat), \A i \in 1 .. Len(q) : q[i] = Seeded + n + i
    PROVE  LET m == Put(Truncate(Drafted, history + 1), q)
           IN  HeadHolds(m, Ids(Seeded + n + Len(q))) /\ m.due = <<>>
<1>1. PICK h \in Nat : h = history /\ h = Seeded + n - 1 /\ h + 1 = Seeded + n
  <2>1. history = Seeded + (n - 1) /\ Seeded \in Nat /\ n - 1 \in Nat /\ n \in Nat
    BY PrimaryIs DEF Drafting, HeadAt
  <2> QED
    BY <2>1
<1>2. HeadExact(mtp, h) /\ DueShape /\ mode \in Modes
  BY <1>1 DEF Drafting, HeadAt, Typed
<1>3. HeadHolds(DraftBase, Ids(h))
  <2>1. CASE mode.resident
    <3>1. HeadHolds(Flush(mtp, h), Ids(h))
      BY <1>2, FlushExact
    <3>2. h \in 0 .. h
      OBVIOUS
    <3>3. HeadHolds(Cut(Flush(mtp, h), h), Ids(h))
      BY <3>1, <3>2, HeadBackIds
    <3>4. DraftBase = Cut(Flush(mtp, h), h)
      BY <1>1, <2>1 DEF DraftBase, Kept
    <3> QED
      BY <3>3, <3>4
  <2>2. CASE ~mode.resident
    <3>1. mtp.due = <<>>
      BY <1>2, <2>2, ModeAssumption DEF DueShape
    <3>2. HeadHolds(mtp, Ids(h))
      BY <1>2, <3>1, ExactParts
    <3>3. DraftBase = mtp
      BY <2>2 DEF DraftBase, Kept
    <3> QED
      BY <3>2, <3>3
  <2> QED
    BY <2>1, <2>2
<1>4. PICK w : w = [i \in 1 .. HeadDepth |-> IF i = 1 THEN Row(state, Primary) ELSE 0]
  OBVIOUS
<1>5. HeadDepth \in Nat /\ HeadDepth >= 1
  BY DEF HeadDepth, Kept, Drafting, PlanOK
<1>6. w \in Seq(Nat) /\ w # <<>> /\ w[1] = h + 1
  <2>1. Row(state, Primary) = h + 1
    BY <1>1, PrimaryIs
  <2>2. PICK k \in Nat : k = HeadDepth /\ k >= 1
    BY <1>5
  <2>3. w \in [1 .. k -> Nat]
    BY <1>4, <2>1, <2>2
  <2>4. w \in Seq(Nat) /\ Len(w) = k
    BY <2>3, FunctionIsSeq
  <2>5. w # <<>>
    BY <2>2, <2>4, EmptyOrNot
  <2>6. w[1] = h + 1
    BY <1>4, <2>1, <2>2
  <2> QED
    BY <2>4, <2>5, <2>6
<1>7. PICK s \in Seq(Nat) : s = Ids(h) \o w /\ h + 1 \in 0 .. Len(s)
                            /\ SubSeq(s, 1, h + 1) = Ids(h + 1)
  BY <1>6, IdsFirst
<1>8. PICK b : b = Drafted
  OBVIOUS
<1>9. HeadHolds(b, s)
  <2>1. b = Put(DraftBase, w)
    BY <1>4, <1>8 DEF Drafted
  <2>2. Ids(h) \in Seq(Nat)
    BY IdsAre
  <2> QED
    BY <1>3, <1>6, <1>7, <2>1, <2>2, HeadPut
<1>10. PICK g \in Nat : g = h + 1 /\ g = Seeded + n /\ g \in 0 .. Len(s)
  BY <1>1, <1>7
<1>11. PICK c : c = Truncate(b, g)
  OBVIOUS
<1>12. HeadHolds(c, Ids(g)) /\ c.due = <<>>
  <2>1. HeadHolds(Truncate(b, g), SubSeq(s, 1, g)) /\ Truncate(b, g).due = <<>>
    BY <1>9, <1>10, HeadBack
  <2> QED
    BY <1>7, <1>10, <1>11, <2>1
<1>13. HeadHolds(Put(c, q), Ids(g + Len(q))) /\ Put(c, q).due = c.due
  <2>1. \A i \in 1 .. Len(q) : q[i] = g + i
    BY <1>10
  <2> QED
    BY <1>12, <2>1, HeadNext
<1> QED
  BY <1>1, <1>8, <1>10, <1>11, <1>12, <1>13

\* The drafts of the general path are some tokens, at least one.
LEMMA DraftsAre ==
    ASSUME NEW n, Drafting(n), NEW d \in Drafts(plan.depth)
    PROVE  d \in Seq(Tokens) /\ Len(d) \in Nat /\ Len(d) >= 1
<1>1. CASE plan.found # <<>>
  <2>1. d = plan.found /\ d \in Seq(Tokens) /\ d # <<>>
    BY <1>1 DEF Drafts, Drafting, PlanOK
  <2> QED
    BY <2>1, EmptyOrNot
<1>2. CASE plan.found = <<>>
  <2>1. PICK k \in Nat : k = plan.depth /\ k >= 1 /\ d \in [1 .. k -> Tokens]
    BY <1>2 DEF Drafts, Drafting, PlanOK
  <2>2. d \in Seq(Tokens) /\ Len(d) = k
    BY <2>1, FunctionIsSeq
  <2> QED
    BY <2>1, <2>2
<1> QED
  BY <1>1, <1>2

\* The caches once the last draft has been run too.
LEMMA AheadOnLine ==
    ASSUME NEW n, Drafting(n), NEW d \in Seq(Tokens), Len(d) \in Nat, Len(d) >= 1,
           NEW c, n + Len(d) < MaxNew, \A i \in 1 .. Len(d) : d[i] = line[n + i],
           BonusRow => Holds(c, Pre(n + Len(d))),
           ~BonusRow => Holds(c, Pre(n + (Len(d) - 1)))
    PROVE  Holds(IF BonusRow THEN c ELSE Forward(c, <<Last(d)>>), Pre(n + Len(d)))
<1>1. CASE BonusRow
  BY <1>1
<1>2. CASE ~BonusRow
  <2>1. /\ n \in Nat /\ line \in Lines /\ MaxNew \in Nat
    BY PrimaryIs DEF Drafting, Typed
  <2>2. PICK m \in Nat : /\ m = n + (Len(d) - 1) /\ m + 1 = n + Len(d) /\ m < MaxNew
                         /\ m \in 0 .. MaxNew
    BY <2>1
  <2>3. Last(d) = line[m + 1]
    <3>1. Len(d) \in 1 .. Len(d)
      OBVIOUS
    <3> QED
      BY <2>2, <3>1 DEF Last
  <2>4. PICK e \in Tokens : e = line[m + 1] /\ Append(Pre(m), e) = Pre(m + 1)
    BY <2>1, <2>2, PreAppend
  <2>5. PICK u \in Seq(Tokens) : u = <<e>>
    <3>1. <<e>> \in Seq(Tokens)
      BY <2>4
    <3> QED
      BY <3>1
  <2>6. PICK p \in Seq(Tokens) : p = Pre(m)
    BY <2>1, <2>2, PreIs
  <2>7. Holds(Forward(c, u), p \o u)
    BY <1>2, <2>2, <2>6, HoldsForward
  <2>8. p \o u = Pre(m + 1)
    BY <2>4, <2>5, <2>6, AppendIsConcat
  <2> QED
    BY <1>2, <2>2, <2>3, <2>4, <2>5, <2>7, <2>8
<1> QED
  BY <1>1, <1>2

LEMMA TurnGeneral ==
    ASSUME NEW n, Drafting(n), NEW d \in Drafts(plan.depth), DraftGeneral(d)
    PROVE  \E k \in Nat : Between(n + k)' /\ Len(generated') = n + k
<1>1. d \in Seq(Tokens) /\ Len(d) \in Nat /\ Len(d) >= 1
  BY DraftsAre
<1>2. /\ n \in Nat /\ n < MaxNew /\ MaxNew \in Nat /\ Seeded \in Nat
      /\ line \in Lines /\ mode \in Modes /\ history \in Nat /\ line' = line /\ mode' = mode
  BY PrimaryIs DEF Drafting, Typed, DraftGeneral
<1>3. PICK out : out = Verify(d)
  OBVIOUS
<1>4. /\ out.kept \in 0 .. Len(d) /\ n + out.kept <= MaxNew
      /\ \A i \in 1 .. out.kept : d[i] = line[n + i] /\ line[n + i] \notin StopIds
      /\ out.rows \in Seq(Nat) /\ Len(out.rows) = out.kept
      /\ \A i \in 1 .. out.kept : out.rows[i] = Seeded + n + i
      /\ out.all =>
           /\ out.kept = Len(d) /\ n + Len(d) < MaxNew
           /\ BonusRow => Holds(out.cache, Pre(n + Len(d)))
           /\ ~BonusRow => Holds(out.cache, Pre(n + (Len(d) - 1)))
      /\ ~out.all => out.pending \in Choosable
      /\ ~out.all /\ n + out.kept < MaxNew =>
           /\ Holds(out.cache, Pre(n + out.kept)) /\ out.state = Pre(n + out.kept)
           /\ out.pending = line[n + out.kept + 1]
  <2>1. Verdict(n, d, out)
    BY <1>1, <1>3, VerifyOnLine
  <2> QED
    BY <2>1 DEF Verdict
<1>5. PICK k \in 0 .. Len(d) : k = out.kept /\ k \in Nat
  BY <1>1, <1>4
<1>6. PICK ahead : ahead = IF BonusRow THEN out.cache ELSE Forward(out.cache, <<Last(d)>>)
  OBVIOUS
<1>7. /\ generated' = generated \o SubSeq(d, 1, k)
      /\ cache' = (IF out.all THEN ahead ELSE out.cache)
      /\ state' = (IF out.all THEN Context(ahead) ELSE out.state)
      /\ pending' = (IF out.all THEN Choice(Context(ahead)) ELSE out.pending)
      /\ mtp' = (IF Kept THEN Put(Truncate(Drafted, history + 1), out.rows) ELSE Drafted)
      /\ history' = (IF Kept THEN history + 1 + k ELSE history)
  BY <1>3, <1>5, <1>6 DEF DraftGeneral
<1>8. /\ generated' = Pre(n + k) /\ Len(Pre(n + k)) = n + k /\ n + k \in 0 .. MaxNew
      /\ \A i \in 1 .. n + k : line[i] \notin StopIds
  <2>1. n + k <= MaxNew /\ \A i \in 1 .. k : d[i] = line[n + i] /\ line[n + i] \notin StopIds
    BY <1>4, <1>5
  <2>2. /\ generated \o SubSeq(d, 1, k) = Pre(n + k)
        /\ Len(Pre(n + k)) = n + k /\ n + k \in 0 .. MaxNew
        /\ \A i \in 1 .. n + k : line[i] \notin StopIds
    BY <1>1, <2>1, CommitDrafts
  <2> QED
    BY <1>7, <2>2
<1>9. ASSUME out.all
      PROVE  /\ Holds(cache', Pre(n + k)) /\ state' = Pre(n + k)
             /\ pending' = line[(n + k) + 1] /\ pending' \in Choosable
  <2>1. k = Len(d) /\ n + k < MaxNew /\ \A i \in 1 .. Len(d) : d[i] = line[n + i]
    BY <1>4, <1>5, <1>9
  <2>2. Holds(ahead, Pre(n + k))
    BY <1>1, <1>4, <1>6, <1>9, <2>1, AheadOnLine
  <2>3. PICK p \in Nat : p = n + k /\ p \in 0 .. MaxNew
    BY <1>2, <1>5, <1>8
  <2>4. Pre(p) \in Seq(Tokens)
    BY <1>2, <2>3, PreIs
  <2>5. Context(ahead) = Pre(p)
    BY <2>2, <2>3, <2>4, HoldsContext
  <2>6. Choice(Pre(p)) = line[p + 1] /\ Choice(Pre(p)) \in Choosable
    BY <1>2, <2>1, <2>3, ChoiceOnLine, ChoiceTyped
  <2> QED
    BY <1>7, <1>9, <2>2, <2>3, <2>5, <2>6
<1>10. ASSUME ~out.all
       PROVE  /\ pending' \in Choosable
              /\ n + k < MaxNew => /\ Holds(cache', Pre(n + k)) /\ state' = Pre(n + k)
                                   /\ pending' = line[(n + k) + 1]
  BY <1>4, <1>5, <1>7, <1>10
<1>11. HeadAt(n + k)'
  <2> SUFFICES ASSUME mode.history = "committed"
               PROVE  /\ HeadExact(mtp', Seeded + (n + k)) /\ history' = Seeded + (n + k)
                      /\ DueShape'
    BY <1>2 DEF HeadAt
  <2>1. PICK q \in Seq(Nat) : /\ q = out.rows /\ Len(q) = k
                             /\ \A i \in 1 .. Len(q) : q[i] = Seeded + n + i
    BY <1>4, <1>5
  <2>2. HeadHolds(mtp', Ids(Seeded + n + Len(q))) /\ mtp'.due = <<>>
    <3>1. mtp' = Put(Truncate(Drafted, history + 1), q)
      BY <1>7, <2>1 DEF Kept
    <3> QED
      BY <2>1, <3>1, GeneralHead
  <2>3. PICK g \in Nat : g = Seeded + n + Len(q) /\ g = Seeded + (n + k)
    BY <1>2, <1>5, <2>1
  <2>4. HeadExact(mtp', g)
    BY <2>2, <2>3, HeldExact
  <2>5. history' = g
    <3>1. history = Seeded + (n - 1) /\ n - 1 \in Nat
      BY PrimaryIs DEF Drafting, HeadAt
    <3> QED
      BY <1>2, <1>5, <1>7, <2>3, <3>1 DEF Kept
  <2> QED
    BY <2>2, <2>3, <2>4, <2>5 DEF DueShape
<1>12. history' \in Nat
  BY <1>2, <1>5, <1>7
<1>13. Between(n + k)'
  <2>1. Typed'
    BY <1>2, <1>9, <1>10, <1>12 DEF Typed, Lines, Choosable
  <2>2. Committed(n + k)'
    BY <1>2, <1>8 DEF Committed, Pre
  <2>3. n + k < MaxNew => CachesAt(n + k)' /\ pending' = line'[(n + k) + 1]
    BY <1>2, <1>9, <1>10 DEF CachesAt, Pre
  <2> QED
    BY <1>11, <2>1, <2>2, <2>3 DEF Between
<1> QED
  BY <1>5, <1>8, <1>13

-----------------------------------------------------------------------------
(* The whole call.  The inductive invariant says, for each place of the      *)
(* loop, how far the answer (n tokens), the search for stop sequences and    *)
(* the emission have come.                                                   *)

\* The answer may not go on after its first e tokens: they end with a stop
\* sequence.
Stops(e) == G!EndsWithStop(Pre(e))

\* n tokens are committed, and no stop sequence ends among those searched.
Searched(n) ==
    /\ Committed(n) /\ scanned <= n
    /\ \A e \in 0 .. scanned : ~Stops(e)

\* What has been given: what is counted, or the first token before the loop.
InStep(n) == emitted <= n /\ sent = Pre(emitted)
Ahead(n) == n = 0 /\ emitted = 0 /\ EarlyDue /\ sent = Pre(1)

\* Nothing more is committed after n tokens.
Final(n) == n = MaxNew \/ line[n + 1] \in StopIds

Started ==
    /\ generated = <<>> /\ emitted = 0 /\ goal = 0 /\ scanned = 0
    /\ cache = EmptyCache /\ state = <<>>

AtFirst == Started /\ ~stopped /\ sent = <<>>

AtSeed == Started /\ EarlyDue /\ sent = Pre(1)

AtScan(n) ==
    /\ ~stopped /\ Between(n) /\ Searched(n)
    /\ InStep(n) \/ Ahead(n)
    /\ emitted <= scanned + 1

AtTake(n) ==
    /\ ~stopped /\ Between(n) /\ Searched(n)
    /\ InStep(n) \/ Ahead(n)
    /\ n < MaxNew /\ scanned = n /\ emitted <= goal /\ goal <= n

\* With emission during the work of the GPU all but the last token are due.
AtDraft(n) ==
    /\ ~stopped /\ Drafting(n) /\ Searched(n) /\ InStep(n)
    /\ scanned = n - 1 /\ ~Stops(n)
    /\ emitted <= goal /\ goal <= n
    /\ emitted < goal => goal = n - 1

AtLeave(n) ==
    /\ Searched(n) /\ InStep(n) /\ emitted <= scanned + 1
    /\ stopped => \A e \in 0 .. n : ~Stops(e)
    /\ ~stopped => Final(n) \/ \E e \in scanned + 1 .. n : Stops(e)

AtFlush(n) ==
    /\ Committed(n) /\ InStep(n)
    /\ \A e \in 0 .. n - 1 : ~Stops(e)
    /\ ~stopped => goal = n /\ (Final(n) \/ Stops(n))

AtDone(n) == generated = Pre(n) /\ sent = Pre(n)

Here(n) ==
    \/ phase = "first" /\ AtFirst
    \/ phase = "seed" /\ AtSeed
    \/ phase = "scan" /\ AtScan(n)
    \/ phase = "take" /\ AtTake(n)
    \/ phase = "draft" /\ AtDraft(n)
    \/ phase = "leave" /\ AtLeave(n)
    \/ phase = "flush" /\ AtFlush(n)
    \/ phase = "done" /\ AtDone(n)

Inv ==
    /\ Typed /\ stopped \in BOOLEAN
    /\ emitted \in Nat /\ goal \in Nat /\ scanned \in Nat
    /\ \E n \in 0 .. MaxNew : Here(n)

LEMMA InvTyped ==
    ASSUME Inv
    PROVE  /\ line \in Lines /\ mode \in Modes /\ pending \in Choosable /\ history \in Nat
           /\ stopped \in BOOLEAN /\ emitted \in Nat /\ goal \in Nat /\ scanned \in Nat
           /\ MaxNew \in Nat /\ MaxNew >= 1 /\ Typed
BY LimitAssumption DEF Inv, Typed

\* No stop sequence is empty.
LEMMA StopsNever == ~Stops(0)
<1> SUFFICES ASSUME NEW s \in StopSeqs, s # <<>>, G!IsSuffix(s, Pre(0)) PROVE FALSE
  BY DEF Stops, G!EndsWithStop
<1>1. s \in Seq(Tokens) /\ Len(s) \in Nat /\ Len(s) >= 1
  BY StopAssumption, EmptyOrNot
<1>2. G!Reverse(Pre(0)) = <<>>
  <2>1. Pre(0) = <<>> /\ Len(<<>>) = 0
    BY PreEmpty
  <2>2. G!Reverse(<<>>) = [i \in 1 .. 0 |-> <<>>[(0 - i) + 1]]
    BY <2>1 DEF G!Reverse
  <2> QED
    BY <2>1, <2>2
<1>3. Len(G!Reverse(s)) = Len(s)
  BY <1>1 DEF G!Reverse
<1>4. Len(G!Reverse(s)) <= Len(G!Reverse(Pre(0)))
  BY DEF G!IsSuffix, G!IsPrefix
<1> QED
  BY <1>1, <1>2, <1>3, <1>4

LEMMA PreOne ==
    ASSUME line \in Lines
    PROVE  <<line[1]>> = Pre(1) /\ Len(Pre(1)) = 1 /\ Pre(1) \in Seq(Tokens)
<1>1. 0 < MaxNew /\ MaxNew \in Nat
  BY LimitAssumption
<1>2. PICK z \in Nat, y \in Nat : z = 0 /\ y = 1 /\ z + 1 = y
  OBVIOUS
<1>3. Append(Pre(z), line[y]) = Pre(y)
  BY <1>1, <1>2, PreAppend
<1>4. Append(<<>>, line[1]) = Pre(1)
  <2>1. Pre(z) = <<>>
    BY <1>2, PreEmpty
  <2> QED
    BY <1>2, <1>3, <2>1
<1>5. PICK u \in 0 .. MaxNew : u = 1
  BY <1>1
<1>6. Len(Pre(u)) = u /\ Pre(u) \in Seq(Tokens)
  BY <1>5, PreIs
<1> QED
  BY <1>4, <1>5, <1>6

\* The search for stop sequences from a on: the answer is cut at the first.
LEMMA CutAtStop ==
    ASSUME line \in Lines, NEW n \in 0 .. MaxNew, NEW a \in Nat, a <= n
    PROVE  /\ StopEnds(Pre(n), a) = {e \in a + 1 .. n : Stops(e)}
           /\ \E m \in 0 .. n :
                /\ UpToStop(Pre(n), a) = Pre(m)
                /\ \A e \in a + 1 .. m - 1 : ~Stops(e)
                /\ \/ m = n /\ \A e \in a + 1 .. n : ~Stops(e)
                   \/ m \in a + 1 .. n /\ Stops(m)
<1>1. MaxNew \in Nat /\ n \in Nat /\ Len(Pre(n)) = n
  BY LimitAssumption, PreIs
<1>2. ASSUME NEW e \in 0 .. n PROVE SubSeq(Pre(n), 1, e) = Pre(e)
  BY <1>1, PrePart
<1>3. PICK E : E = StopEnds(Pre(n), a)
  OBVIOUS
<1>4. E = {e \in a + 1 .. n : Stops(e)}
  <2>1. \A e \in a + 1 .. n : e \in 0 .. n
    BY <1>1
  <2>2. \A e \in a + 1 .. n : G!EndsWithStop(SubSeq(Pre(n), 1, e)) <=> Stops(e)
    BY <1>2, <2>1 DEF Stops
  <2> QED
    BY <1>1, <1>3, <2>2 DEF StopEnds
<1>5. CASE E = {}
  <2>1. UpToStop(Pre(n), a) = Pre(n)
    BY <1>3, <1>5 DEF UpToStop
  <2>2. n \in 0 .. n /\ \A e \in a + 1 .. n - 1 : e \in a + 1 .. n
    BY <1>1
  <2>3. \A e \in a + 1 .. n : ~Stops(e)
    BY <1>4, <1>5
  <2> QED
    BY <1>3, <1>4, <2>1, <2>2, <2>3
<1>6. CASE E # {}
  <2>1. E \in SUBSET Nat
    <3>1. a + 1 .. n \in SUBSET Nat
      OBVIOUS
    <3> QED
      BY <1>4, <3>1
  <2>2. PICK m \in E : m = Min(E) /\ \A x \in E : m <= x
    BY <1>6, <2>1, MinOfSome
  <2>3. m \in a + 1 .. n /\ Stops(m) /\ m \in Nat /\ m \in 0 .. n
    BY <1>4, <2>1, <2>2
  <2>4. UpToStop(Pre(n), a) = Pre(m)
    BY <1>2, <1>3, <1>6, <2>2, <2>3 DEF UpToStop
  <2>5. ASSUME NEW e \in a + 1 .. m - 1 PROVE ~Stops(e)
    <3>1. e \in a + 1 .. n /\ ~(m <= e)
      BY <2>3
    <3> QED
      BY <1>4, <2>2, <3>1
  <2> QED
    BY <1>3, <1>4, <2>3, <2>4, <2>5
<1> QED
  BY <1>5, <1>6

\* What does not change with the line.
LEMMA SameLine ==
    ASSUME line' = line
    PROVE  \A e : Pre(e)' = Pre(e) /\ (Stops(e)' <=> Stops(e)) /\ (Final(e)' <=> Final(e))
BY DEF Pre, Stops, Final

LEMMA SameTurn ==
    ASSUME line' = line, mode' = mode, generated' = generated, model' = model, NEW n
    PROVE  /\ Between(n) => Between(n)'
           /\ Drafting(n) /\ plan' = plan => Drafting(n)'
BY DEF Between, Drafting, Typed, Committed, CachesAt, HeadAt, DueShape, PlanOK, model, Pre,
       Lines, Choosable

-----------------------------------------------------------------------------
(* Each action preserves the invariant.                                      *)

LEMMA InvInit == Init => Inv
<1> SUFFICES ASSUME Init PROVE Inv
  OBVIOUS
<1>1. Typed
  BY DEF Init, Typed, Lines, Choosable
<1>2. AtFirst /\ phase = "first"
  BY DEF Init, AtFirst, Started
<1>3. 0 \in 0 .. MaxNew /\ Here(0)
  BY <1>2, LimitAssumption DEF Here
<1> QED
  BY <1>1, <1>3 DEF Init, Inv

LEMMA EarlyTokenInv ==
    ASSUME Inv, NEW ok \in BOOLEAN, EarlyToken(ok)
    PROVE  Inv'
<1>1. /\ AtFirst /\ EarlyDue /\ phase' = "seed" /\ sent' = <<line[1]>> /\ stopped' = ~ok
      /\ UNCHANGED <<line, mode, generated, emitted, goal, scanned, model, plan>>
  BY DEF Inv, Here, EarlyToken
<1>2. Pre(1)' = Pre(1) /\ Pre(1) = <<line[1]>>
  BY <1>1, InvTyped, PreOne DEF Pre
<1>3. AtSeed'
  BY <1>1, <1>2 DEF AtSeed, AtFirst, Started, EarlyDue, Kept, model
<1>4. Typed'
  BY <1>1, InvTyped DEF Typed, Lines, Choosable, model
<1>5. 0 \in 0 .. MaxNew /\ Here(0)'
  BY <1>1, <1>3, LimitAssumption DEF Here
<1> QED
  BY <1>1, <1>4, <1>5, InvTyped DEF Inv

LEMMA EarlyReturnInv ==
    ASSUME Inv, EarlyReturn
    PROVE  Inv'
<1>1. /\ AtSeed /\ phase' = "done" /\ generated' = sent
      /\ UNCHANGED <<line, mode, sent, emitted, stopped, goal, scanned, model, plan>>
  BY DEF Inv, Here, EarlyReturn, output
<1>2. AtDone(1)'
  BY <1>1 DEF AtSeed, AtDone, Pre
<1>3. Typed'
  BY <1>1, InvTyped DEF Typed, Lines, Choosable, model
<1>4. 1 \in 0 .. MaxNew /\ Here(1)'
  BY <1>1, <1>2, LimitAssumption DEF Here
<1> QED
  BY <1>1, <1>3, <1>4, InvTyped DEF Inv

\* The head with the rows of the prompt.
LEMMA SeededHead ==
    HeadExact(Put(EmptyHead, Ids(Seeded)), Seeded) /\ Put(EmptyHead, Ids(Seeded)).due = <<>>
<1>1. PICK h \in Nat, z \in Nat : h = Seeded /\ z = 0 /\ h = z + h
  BY SeedAssumption
<1>2. HeadHolds(EmptyHead, Ids(z)) /\ EmptyHead.due = <<>>
  <2>1. /\ EmptyHead \in HeadType /\ EmptyHead.rows = <<>> /\ EmptyHead.len = 0
        /\ EmptyHead.live = 0 /\ EmptyHead.due = <<>> /\ Len(<<>>) = 0
    BY EmptySeq DEF EmptyHead, HeadType
  <2>2. Ids(z) = <<>>
    BY <1>1, IdsAre, EmptyOrNot
  <2>3. SubSeq(<<>>, 1, 0) = <<>>
    BY SubSeqEmpty
  <2> QED
    BY <2>1, <2>2, <2>3 DEF HeadHolds
<1>3. PICK t \in Seq(Nat) : t = Ids(h) /\ Len(t) = h /\ \A i \in 1 .. h : t[i] = i
  BY IdsAre
<1>4. HeadHolds(Put(EmptyHead, t), Ids(z + Len(t))) /\ Put(EmptyHead, t).due = EmptyHead.due
  <2>1. \A i \in 1 .. Len(t) : t[i] = z + i
    BY <1>1, <1>3
  <2> QED
    BY <1>2, <2>1, HeadNext
<1>5. z + Len(t) = h
  BY <1>1, <1>3
<1>6. HeadExact(Put(EmptyHead, t), h)
  BY <1>2, <1>4, <1>5, HeldExact
<1> QED
  BY <1>1, <1>2, <1>3, <1>4, <1>6

LEMMA SetupInv ==
    ASSUME Inv, Setup
    PROVE  Inv'
<1>1. /\ ~stopped /\ phase' = "scan"
      /\ mtp' = (IF Kept THEN Put(EmptyHead, [i \in 1 .. Seeded |-> i]) ELSE EmptyHead)
      /\ history' = (IF Kept THEN Seeded ELSE 0)
      /\ pending' = Choice(<<>>)
      /\ UNCHANGED <<line, mode, generated, sent, emitted, stopped, goal, scanned, state,
                     cache, plan>>
  BY DEF Setup, output
<1>2. Started /\ (sent = <<>> \/ (EarlyDue /\ sent = Pre(1)))
  BY DEF Inv, Here, Setup, AtFirst, AtSeed
<1>3. \A e : Pre(e)' = Pre(e) /\ (Stops(e)' <=> Stops(e))
  BY <1>1, SameLine
<1>4. PICK z \in Nat : z = 0 /\ z < MaxNew /\ z \in 0 .. MaxNew
  BY LimitAssumption
<1>5. Pre(z) = <<>> /\ Choice(Pre(z)) = line[z + 1] /\ Choice(Pre(z)) \in Choosable
  BY <1>4, InvTyped, PreEmpty, ChoiceOnLine, ChoiceTyped
<1>6. Typed'
  BY <1>1, <1>5, InvTyped, SeedAssumption DEF Typed, Lines, Choosable
<1>7. CachesAt(z)'
  <2>1. Holds(EmptyCache, <<>>)
    <3>1. EmptyCache \in CacheType
      BY EmptySeq DEF EmptyCache, CacheType
    <3>2. /\ EmptyCache.rows = <<>> /\ EmptyCache.len = 0 /\ EmptyCache.live = 0
          /\ EmptyCache.lin = <<>> /\ EmptyCache.pos = 0
          /\ Len(<<>>) = 0 /\ SubSeq(<<>>, 1, 0) = <<>>
      BY SubSeqEmpty DEF EmptyCache
    <3> QED
      BY <3>1, <3>2 DEF Holds
  <2>2. cache' = EmptyCache /\ state' = <<>>
    BY <1>1, <1>2 DEF Started
  <2> QED
    BY <1>3, <1>5, <2>1, <2>2 DEF CachesAt
<1>8. HeadAt(z)'
  <2> SUFFICES ASSUME mode.history = "committed"
               PROVE  HeadExact(mtp', Seeded + z) /\ history' = Seeded + z /\ DueShape'
    BY <1>1 DEF HeadAt
  <2>1. mtp' = Put(EmptyHead, Ids(Seeded)) /\ history' = Seeded
    BY <1>1 DEF Kept, Ids
  <2>2. Seeded + z = Seeded
    BY <1>4, SeedAssumption
  <2> QED
    BY <2>1, <2>2, SeededHead DEF DueShape
<1>9. Committed(z)'
  <2>1. \A i \in 1 .. z : FALSE
    BY <1>4
  <2> QED
    BY <1>1, <1>2, <1>3, <1>4, <1>5, <2>1 DEF Committed, Started
<1>10. Between(z)'
  BY <1>1, <1>5, <1>6, <1>7, <1>8, <1>9 DEF Between
<1>11. Searched(z)'
  <2>1. scanned' = 0 /\ \A e \in 0 .. 0 : e = 0
    BY <1>1, <1>2 DEF Started
  <2> QED
    BY <1>3, <1>4, <1>9, <2>1, StopsNever DEF Searched
<1>12. (InStep(z) \/ Ahead(z))'
  <2>1. emitted' = 0 /\ Pre(0)' = <<>> /\ Pre(1)' = Pre(1) /\ sent' = sent
    BY <1>1, <1>2, <1>3, PreEmpty DEF Started
  <2>2. EarlyDue' <=> EarlyDue
    BY <1>1 DEF EarlyDue, Kept
  <2>3. CASE sent = <<>>
    BY <1>4, <2>1, <2>3 DEF InStep
  <2>4. CASE EarlyDue /\ sent = Pre(1)
    BY <1>4, <2>1, <2>2, <2>4 DEF Ahead
  <2> QED
    BY <1>2, <2>3, <2>4
<1>13. AtScan(z)'
  BY <1>1, <1>2, <1>10, <1>11, <1>12 DEF AtScan, Started
<1>14. Here(z)'
  BY <1>1, <1>13 DEF Here
<1> QED
  BY <1>1, <1>4, <1>6, <1>14, InvTyped DEF Inv

\* The next token given is the next one of the line, and one the plain loop
\* would give there.
LEMMA EmitNext ==
    ASSUME Inv, NEW ok \in BOOLEAN, Emit(ok), NEW n \in 0 .. MaxNew, Here(n)
    PROVE  /\ n \in Nat /\ n <= MaxNew /\ emitted < goal /\ goal <= n /\ emitted + 1 <= n
           /\ ~stopped /\ generated = Pre(n) /\ Len(generated) = n
           /\ sent = Pre(emitted) /\ Len(sent) = emitted
           /\ sent' = Append(sent, line[emitted + 1]) /\ sent' = Pre(emitted + 1)
           /\ line[emitted + 1] \notin StopIds /\ ~Stops(emitted)
           /\ Committed(n)
<1>1. /\ phase \in {"take", "draft", "flush"} /\ emitted < goal /\ ~stopped
      /\ sent' = Append(sent, generated[emitted + 1])
  BY DEF Emit
<1>2. n \in Nat /\ n <= MaxNew /\ emitted \in Nat /\ goal \in Nat /\ scanned \in Nat
      /\ MaxNew \in Nat /\ line \in Lines
  BY InvTyped
<1>3. goal <= n /\ Committed(n) /\ InStep(n) /\ ~Stops(emitted)
  <2>1. CASE phase = "take"
    <3>1. AtTake(n)
      BY <2>1 DEF Here
    <3>2. ~Ahead(n)
      BY <1>1, <1>2, <3>1 DEF AtTake, Ahead
    <3>3. emitted \in 0 .. scanned
      BY <1>1, <1>2, <3>1 DEF AtTake
    <3> QED
      BY <3>1, <3>2, <3>3 DEF AtTake, Searched
  <2>2. CASE phase = "draft"
    <3>1. AtDraft(n)
      BY <2>2 DEF Here
    <3>2. emitted \in 0 .. scanned
      BY <1>1, <1>2, <3>1 DEF AtDraft
    <3> QED
      BY <3>1, <3>2 DEF AtDraft, Searched
  <2>3. CASE phase = "flush"
    <3>1. AtFlush(n)
      BY <2>3 DEF Here
    <3>2. emitted \in 0 .. n - 1 /\ goal <= n
      BY <1>1, <1>2, <3>1 DEF AtFlush
    <3> QED
      BY <3>1, <3>2 DEF AtFlush
  <2> QED
    BY <1>1, <2>1, <2>2, <2>3
<1>4. generated = Pre(n) /\ Len(Pre(n)) = n /\ \A i \in 1 .. n : Pre(n)[i] = line[i]
  BY <1>2, <1>3, PreIs DEF Committed
<1>5. PICK e \in Nat : e = emitted /\ e < n /\ e < MaxNew /\ e + 1 \in 1 .. n /\ e \in 0 .. MaxNew
  BY <1>1, <1>2, <1>3
<1>6. line[e + 1] \notin StopIds /\ generated[e + 1] = line[e + 1]
  BY <1>3, <1>4, <1>5 DEF Committed
<1>7. sent = Pre(e) /\ Len(Pre(e)) = e /\ Append(Pre(e), line[e + 1]) = Pre(e + 1)
  BY <1>2, <1>3, <1>5, PreAppend, PreIs DEF InStep
<1> QED
  BY <1>1, <1>2, <1>3, <1>4, <1>5, <1>6, <1>7

LEMMA EmitInv ==
    ASSUME Inv, NEW ok \in BOOLEAN, Emit(ok)
    PROVE  Inv'
<1>1. PICK n \in 0 .. MaxNew : Here(n)
  BY DEF Inv
<1>2. /\ phase \in {"take", "draft", "flush"} /\ emitted' = emitted + 1 /\ stopped' = ~ok
      /\ generated' = (IF ~ok /\ phase = "draft" THEN SubSeq(generated, 1, goal) ELSE generated)
      /\ phase' = (IF ok \/ phase = "flush" THEN phase ELSE "leave")
      /\ UNCHANGED <<line, mode, goal, scanned, model, plan>>
  BY DEF Emit
<1>3. /\ n \in Nat /\ n <= MaxNew /\ emitted < goal /\ goal <= n /\ emitted + 1 <= n
      /\ ~stopped /\ generated = Pre(n) /\ Len(generated) = n
      /\ sent' = Pre(emitted + 1) /\ Committed(n)
  BY <1>1, EmitNext
<1>4. emitted \in Nat /\ goal \in Nat /\ scanned \in Nat /\ MaxNew \in Nat /\ line \in Lines
  BY InvTyped
<1>5. \A e : Pre(e)' = Pre(e) /\ (Stops(e)' <=> Stops(e)) /\ (Final(e)' <=> Final(e))
  BY <1>2, SameLine
<1>6. Typed'
  BY <1>2, InvTyped DEF Typed, Lines, Choosable, model
<1>7. InStep(n)'
  BY <1>2, <1>3, <1>5 DEF InStep
<1>8. \E m \in 0 .. MaxNew : Here(m)'
  <2>1. CASE phase = "take"
    <3>1. AtTake(n) /\ generated' = generated
      BY <1>1, <1>2, <2>1 DEF Here
    <3>2. Between(n)' /\ Searched(n)'
      BY <1>2, <1>5, <3>1, SameTurn DEF AtTake, Searched, Committed
    <3>3. CASE ok
      <4>1. ~stopped' /\ phase' = "take" /\ scanned' = n /\ n < MaxNew
        BY <1>2, <2>1, <3>1, <3>3 DEF AtTake
      <4>2. emitted' <= goal' /\ goal' <= n
        BY <1>2, <1>3, <1>4
      <4>3. AtTake(n)'
        BY <1>7, <3>2, <4>1, <4>2 DEF AtTake
      <4> QED
        BY <4>1, <4>3 DEF Here
    <3>4. CASE ~ok
      <4>1. emitted' <= scanned' + 1 /\ (\A e \in 0 .. n : ~Stops(e))'
        BY <1>2, <1>3, <1>4, <1>5, <3>1 DEF AtTake, Searched
      <4>2. AtLeave(n)' /\ phase' = "leave"
        BY <1>2, <1>7, <2>1, <3>2, <3>4, <4>1 DEF AtLeave
      <4> QED
        BY <4>2 DEF Here
    <3> QED
      BY <3>3, <3>4
  <2>2. CASE phase = "draft"
    <3>1. AtDraft(n)
      BY <1>1, <2>2 DEF Here
    <3>2. CASE ok
      <4>1. Drafting(n)' /\ Searched(n)' /\ generated' = generated
        BY <1>2, <1>5, <3>1, <3>2, SameTurn DEF AtDraft, Searched, Committed
      <4>2. ~stopped' /\ phase' = "draft" /\ scanned' = n - 1 /\ ~Stops(n)' /\ goal' = n - 1
        <5>1. goal = n - 1 /\ scanned = n - 1 /\ ~Stops(n)
          BY <1>3, <3>1 DEF AtDraft
        <5> QED
          BY <1>2, <1>5, <2>2, <3>2, <5>1
      <4>3. emitted' <= goal' /\ goal' <= n
        BY <1>2, <1>3, <1>4
      <4>4. AtDraft(n)'
        BY <1>7, <4>1, <4>2, <4>3 DEF AtDraft
      <4> QED
        BY <4>2, <4>4 DEF Here
    <3>3. CASE ~ok
      <4>1. PICK m \in 0 .. n : m = goal /\ m = n - 1 /\ m = scanned /\ m \in 0 .. MaxNew
        BY <1>3, <1>4, <3>1 DEF AtDraft
      <4>2. generated' = Pre(m)
        BY <1>2, <1>3, <1>4, <2>2, <3>3, <4>1, PrePart
      <4>3. Committed(m)'
        <5>1. \A i \in 1 .. m : i \in 1 .. n
          BY <1>3, <4>1
        <5> QED
          BY <1>2, <1>3, <1>5, <4>1, <4>2, <5>1 DEF Committed
      <4>4. Searched(m)' /\ (\A e \in 0 .. m : ~Stops(e))'
        BY <1>2, <1>5, <3>1, <4>1, <4>3 DEF AtDraft, Searched
      <4>5. InStep(m)' /\ emitted' <= scanned' + 1
        BY <1>2, <1>3, <1>4, <1>5, <4>1 DEF InStep
      <4>6. AtLeave(m)' /\ phase' = "leave"
        BY <1>2, <2>2, <3>3, <4>4, <4>5 DEF AtLeave
      <4> QED
        BY <4>1, <4>6 DEF Here
    <3> QED
      BY <3>2, <3>3
  <2>3. CASE phase = "flush"
    <3>1. AtFlush(n) /\ generated' = generated /\ phase' = "flush"
      BY <1>1, <1>2, <2>3 DEF Here
    <3>2. Committed(n)'
      BY <1>2, <1>3, <1>5, <3>1 DEF Committed
    <3>3. AtFlush(n)'
      BY <1>2, <1>3, <1>5, <1>7, <3>1, <3>2 DEF AtFlush
    <3> QED
      BY <3>1, <3>3 DEF Here
  <2> QED
    BY <1>2, <2>1, <2>2, <2>3
<1> QED
  BY <1>2, <1>4, <1>6, <1>8 DEF Inv

LEMMA ScanInv ==
    ASSUME Inv, Scan
    PROVE  Inv'
<1>1. PICK n \in 0 .. MaxNew : AtScan(n)
  BY DEF Inv, Here, Scan
<1>2. UNCHANGED <<line, mode, sent, emitted, stopped, pending, state, cache, mtp, history, plan>>
  BY DEF Scan, output, model
<1>3. /\ emitted \in Nat /\ goal \in Nat /\ scanned \in Nat /\ MaxNew \in Nat /\ MaxNew >= 1
      /\ line \in Lines /\ n \in Nat /\ n <= MaxNew
  BY InvTyped
<1>4. \A e : Pre(e)' = Pre(e) /\ (Stops(e)' <=> Stops(e)) /\ (Final(e)' <=> Final(e))
  BY <1>2, SameLine
<1>5. /\ generated = Pre(n) /\ Len(generated) = n /\ scanned <= n
      /\ \A e \in 0 .. scanned : ~Stops(e)
      /\ \A i \in 1 .. n : line[i] \notin StopIds
  BY <1>1, <1>3, PreIs DEF AtScan, Searched, Committed
<1>6. Typed'
  BY <1>2, InvTyped DEF Typed, Lines, Choosable
<1>7. ~stopped /\ emitted <= scanned + 1 /\ (InStep(n) \/ Ahead(n))
  BY <1>1 DEF AtScan
<1>8. EarlyDue' <=> EarlyDue
  BY <1>2 DEF EarlyDue, Kept
<1>9. scanned' \in Nat /\ goal' \in Nat /\ \E m \in 0 .. MaxNew : Here(m)'
  <2>1. ASSUME Len(generated) >= MaxNew, phase' = "leave",
               UNCHANGED <<generated, scanned, goal>>
        PROVE  Here(n)'
    <3>1. n = MaxNew /\ ~Ahead(n)
      BY <1>3, <1>5, <2>1 DEF Ahead
    <3>2. InStep(n)' /\ Searched(n)' /\ Final(n)'
      BY <1>1, <1>2, <1>4, <1>7, <2>1, <3>1
         DEF InStep, Searched, Committed, Final, AtScan
    <3>3. AtLeave(n)'
      BY <1>2, <1>7, <2>1, <3>2 DEF AtLeave
    <3> QED
      BY <2>1, <3>3 DEF Here
  <2>2. ASSUME StopEnds(generated, scanned) # {}, phase' = "leave",
               generated' = UpToStop(generated, scanned), UNCHANGED <<scanned, goal>>
        PROVE  \E m \in 0 .. MaxNew : Here(m)'
    <3>1. PICK m \in 0 .. n : Pre(m) = generated' /\ m \in scanned + 1 .. n /\ Stops(m)
      BY <1>3, <1>5, <2>2, CutAtStop
    <3>2. m \in 0 .. MaxNew /\ m \in Nat /\ n >= 1 /\ emitted <= m
      BY <1>3, <1>7, <3>1
    <3>3. Committed(m)'
      <4>1. \A i \in 1 .. m : i \in 1 .. n
        BY <1>3, <3>1
      <4> QED
        BY <1>2, <1>4, <1>5, <3>1, <3>2, <4>1 DEF Committed
    <3>4. Searched(m)'
      BY <1>3, <1>4, <1>5, <2>2, <3>1, <3>3 DEF Searched
    <3>5. InStep(m)'
      BY <1>2, <1>4, <1>7, <3>2 DEF InStep, Ahead
    <3>6. (\E e \in scanned + 1 .. m : Stops(e))'
      <4>1. m \in scanned' + 1 .. m
        BY <1>3, <2>2, <3>1, <3>2
      <4> QED
        BY <1>4, <3>1, <4>1
    <3>7. AtLeave(m)'
      BY <1>2, <1>7, <2>2, <3>4, <3>5, <3>6 DEF AtLeave
    <3> QED
      BY <2>2, <3>2, <3>7 DEF Here
  <2>3. ASSUME Len(generated) < MaxNew, StopEnds(generated, scanned) = {},
               scanned' = Len(generated),
               goal' = (IF Defer THEN emitted ELSE Len(generated)),
               phase' = "take", UNCHANGED generated
        PROVE  Here(n)'
    <3>1. \A e \in 0 .. n : ~Stops(e)
      <4>1. \A e \in scanned + 1 .. n : ~Stops(e)
        <5>1. StopEnds(Pre(n), scanned) = {e \in scanned + 1 .. n : Stops(e)}
          BY <1>3, <1>5, CutAtStop
        <5>2. {e \in scanned + 1 .. n : Stops(e)} = {}
          BY <1>5, <2>3, <5>1
        <5> QED
          BY <5>2
      <4>2. \A e \in 0 .. n : e \in 0 .. scanned \/ e \in scanned + 1 .. n
        BY <1>3
      <4> QED
        BY <1>5, <4>1, <4>2
    <3>2. Searched(n)' /\ Between(n)'
      BY <1>1, <1>2, <1>3, <1>4, <1>5, <2>3, <3>1, SameTurn
         DEF Searched, AtScan, Between, Committed, model
    <3>3. (InStep(n) \/ Ahead(n))' /\ emitted <= n
      BY <1>2, <1>3, <1>4, <1>7, <1>8 DEF InStep, Ahead
    <3>4. n < MaxNew /\ scanned' = n /\ emitted' <= goal' /\ goal' <= n
      BY <1>2, <1>3, <1>5, <2>3, <3>3
    <3>5. AtTake(n)'
      BY <1>2, <1>7, <3>2, <3>3, <3>4 DEF AtTake
    <3> QED
      BY <2>3, <3>5 DEF Here
  <2> QED
    BY <1>3, <1>5, <2>1, <2>2, <2>3 DEF Scan
<1> QED
  BY <1>2, <1>3, <1>6, <1>7, <1>9 DEF Inv

LEMMA TakeStopInv ==
    ASSUME Inv, TakeStop
    PROVE  Inv'
<1>1. PICK n \in 0 .. MaxNew : AtTake(n)
  BY DEF Inv, Here, TakeStop
<1>2. /\ UNCHANGED <<line, mode, generated, sent, emitted, stopped, goal, scanned, pending,
                     state, cache, mtp, history, plan>>
      /\ phase' = "leave" /\ emitted = goal /\ pending \in StopIds
  BY DEF TakeStop, Ready, output, model
<1>3. /\ emitted \in Nat /\ goal \in Nat /\ scanned \in Nat /\ MaxNew \in Nat
      /\ line \in Lines /\ n \in Nat /\ n <= MaxNew
  BY InvTyped
<1>4. \A e : Pre(e)' = Pre(e) /\ (Stops(e)' <=> Stops(e)) /\ (Final(e)' <=> Final(e))
  BY <1>2, SameLine
<1>5. Typed'
  BY <1>2, InvTyped DEF Typed, Lines, Choosable
<1>6. Final(n)
  BY <1>1, <1>2 DEF AtTake, Between, Final
<1>7. InStep(n)
  <2>1. line[n + 1] \in StopIds
    BY <1>1, <1>2 DEF AtTake, Between
  <2>2. n = 0 => n + 1 = 1
    OBVIOUS
  <2>3. ~Ahead(n)
    BY <2>1, <2>2 DEF Ahead, EarlyDue
  <2> QED
    BY <1>1, <2>3 DEF AtTake
<1>8. Searched(n)' /\ InStep(n)' /\ Final(n)' /\ ~stopped'
  BY <1>1, <1>2, <1>4, <1>6, <1>7 DEF AtTake, Searched, Committed, InStep
<1>9. emitted' <= scanned' + 1
  BY <1>1, <1>2, <1>3 DEF AtTake
<1>10. AtLeave(n)'
  BY <1>8, <1>9 DEF AtLeave
<1>11. Here(n)'
  BY <1>2, <1>10 DEF Here
<1> QED
  BY <1>2, <1>3, <1>5, <1>11, InvTyped DEF Inv

\* What is planned for a turn has at least one draft, and tokens of the table.
LEMMA PlanIs ==
    ASSUME Typed, NEW left \in Nat, left >= 1, NEW d \in Depths(left), NEW f \in Findings(left)
    PROVE  /\ d \in Nat \ {0} /\ f \in Seq(Tokens)
           /\ ~mode.adaptive => d = Min({mode.depth, MaxNew})
<1>1. mode.depth \in Nat \ {0} /\ mode.lookup \in Nat /\ MaxNew \in Nat \ {0}
      /\ mode.adaptive \in BOOLEAN
  BY ModeAssumption, LimitAssumption DEF Typed
<1>2. /\ Min({mode.depth, left}) \in Nat \ {0}
      /\ Min({mode.depth, MaxNew}) \in Nat \ {0}
  BY <1>1, MinOfTwo
<1>3. d \in Nat \ {0} /\ (~mode.adaptive => d = Min({mode.depth, MaxNew}))
  BY <1>1, <1>2 DEF Depths
<1>4. PICK n \in 0 .. Min({mode.lookup, left}) : f \in [1 .. n -> Tokens]
  BY DEF Findings
<1>5. n \in Nat
  <2>1. Min({mode.lookup, left}) \in Nat
    BY <1>1, MinOfTwo
  <2> QED
    BY <2>1
<1>6. f \in Seq(Tokens)
  BY <1>4, <1>5, FunctionIsSeq
<1> QED
  BY <1>3, <1>6

LEMMA TakeInv ==
    ASSUME Inv, Take
    PROVE  Inv'
<1>1. PICK n \in 0 .. MaxNew : AtTake(n)
  BY DEF Inv, Here, Take
<1>2. /\ emitted \in Nat /\ goal \in Nat /\ scanned \in Nat /\ MaxNew \in Nat
      /\ line \in Lines /\ n \in Nat /\ n < MaxNew /\ scanned = n /\ emitted <= goal /\ goal <= n
      /\ ~stopped /\ Typed /\ n + 1 \in 0 .. MaxNew
  BY <1>1, InvTyped DEF AtTake
<1>3. /\ generated = Pre(n) /\ Len(generated) = n /\ pending = line[n + 1]
      /\ CachesAt(n) /\ HeadAt(n) /\ \A i \in 1 .. n : line[i] \notin StopIds
      /\ \A e \in 0 .. n : ~Stops(e)
  BY <1>1, <1>2, PreIs DEF AtTake, Between, Searched, Committed
<1>4. PICK now, given :
        /\ now = Append(generated, pending)
        /\ given = IF Len(now) = 1 /\ sent # <<>> THEN 1 ELSE emitted
  OBVIOUS
<1>5. /\ emitted = goal /\ pending \notin StopIds
      /\ generated' = now /\ emitted' = given
      /\ UNCHANGED <<line, mode, sent, stopped, scanned, pending, state, cache, mtp, history>>
      /\ IF MaxNew - Len(now) = 0 \/ G!EndsWithStop(now)
         THEN phase' = "leave" /\ UNCHANGED <<goal, plan>>
         ELSE /\ phase' = "draft"
              /\ goal' = IF Defer THEN Len(generated) ELSE given
              /\ \E d \in Depths(MaxNew - Len(now)), f \in Findings(MaxNew - Len(now)) :
                   plan' = [depth |-> d, found |-> f]
  BY <1>4 DEF Take, Ready, model
<1>6. /\ now = Pre(n + 1) /\ Len(now) = n + 1
      /\ \A i \in 1 .. n + 1 : line[i] \notin StopIds
      /\ G!EndsWithStop(now) <=> Stops(n + 1)
  <2>1. now = Pre(n + 1) /\ \A i \in 1 .. n + 1 : line[i] \notin StopIds
    BY <1>2, <1>3, <1>4, <1>5, CommitMore
  <2> QED
    BY <1>2, <2>1, PreIs DEF Stops
<1>7. \A e : Pre(e)' = Pre(e) /\ (Stops(e)' <=> Stops(e)) /\ (Final(e)' <=> Final(e))
  BY <1>5, SameLine
<1>8. Typed'
  BY <1>2, <1>5 DEF Typed, Lines, Choosable
<1>9. /\ given \in Nat /\ given <= n + 1 /\ sent = Pre(given)
      /\ n >= 1 => given = emitted
  <2>1. CASE n = 0
    <3>1. emitted = 0 /\ Len(now) = 1
      BY <1>2, <1>6, <2>1
    <3>2. sent = <<>> \/ sent = Pre(1)
      BY <1>1, <2>1, <3>1, PreEmpty DEF AtTake, InStep, Ahead
    <3>3. <<>> # Pre(1)
      BY <1>2, PreOne
    <3>4. CASE sent = <<>>
      BY <1>2, <1>4, <2>1, <3>1, <3>4, PreEmpty
    <3>5. CASE sent = Pre(1)
      BY <1>2, <1>4, <2>1, <3>1, <3>3, <3>5
    <3> QED
      BY <3>2, <3>4, <3>5
  <2>2. CASE n # 0
    <3>1. ~Ahead(n)
      BY <2>2 DEF Ahead
    <3>2. InStep(n)
      BY <1>1, <3>1 DEF AtTake
    <3>3. ~(Len(now) = 1)
      <4>1. n + 1 # 1
        BY <1>2, <2>2
      <4> QED
        BY <1>6, <4>1
    <3>4. given = emitted
      BY <1>4, <3>3
    <3> QED
      BY <1>2, <3>2, <3>4 DEF InStep
  <2> QED
    BY <2>1, <2>2
<1>10. InStep(n + 1)'
  BY <1>5, <1>7, <1>9 DEF InStep
<1>11. Committed(n + 1)' /\ Searched(n + 1)'
  <2>1. Committed(n + 1)'
    BY <1>2, <1>5, <1>6, <1>7 DEF Committed
  <2> QED
    BY <1>2, <1>3, <1>5, <1>7, <2>1 DEF Searched
<1>12. CASE MaxNew - Len(now) = 0 \/ G!EndsWithStop(now)
  <2>1. phase' = "leave" /\ goal' = goal
    BY <1>5, <1>12
  <2>2. emitted' <= scanned' + 1
    BY <1>2, <1>5, <1>9
  <2>3. (Final(n + 1) \/ \E e \in scanned + 1 .. n + 1 : Stops(e))'
    <3>1. CASE MaxNew - Len(now) = 0
      <4>1. n + 1 = MaxNew
        BY <1>2, <1>6, <3>1
      <4> QED
        BY <1>7, <4>1 DEF Final
    <3>2. CASE G!EndsWithStop(now)
      <4>1. n + 1 \in scanned' + 1 .. n + 1
        BY <1>2, <1>5
      <4> QED
        BY <1>6, <1>7, <3>2, <4>1
    <3> QED
      BY <1>12, <3>1, <3>2
  <2>4. AtLeave(n + 1)'
    BY <1>2, <1>5, <1>10, <1>11, <2>2, <2>3 DEF AtLeave
  <2>5. Here(n + 1)'
    BY <2>1, <2>4 DEF Here
  <2> QED
    BY <1>2, <1>5, <1>8, <1>9, <2>1, <2>5, InvTyped DEF Inv
<1>13. CASE ~(MaxNew - Len(now) = 0 \/ G!EndsWithStop(now))
  <2>1. /\ phase' = "draft" /\ goal' = (IF Defer THEN Len(generated) ELSE given)
        /\ \E d \in Depths(MaxNew - Len(now)), f \in Findings(MaxNew - Len(now)) :
             plan' = [depth |-> d, found |-> f]
    BY <1>5, <1>13
  <2>2. n + 1 < MaxNew /\ ~Stops(n + 1)
    BY <1>2, <1>6, <1>13
  <2>3. PICK left \in Nat : left = MaxNew - Len(now) /\ left >= 1
    BY <1>2, <1>6, <2>2
  <2>4. PlanOK'
    <3>1. PICK d \in Depths(left), f \in Findings(left) : plan' = [depth |-> d, found |-> f]
      BY <2>1, <2>3
    <3>2. /\ d \in Nat \ {0} /\ f \in Seq(Tokens)
          /\ ~mode.adaptive => d = Min({mode.depth, MaxNew})
      BY <1>2, <2>3, PlanIs
    <3>3. plan'.depth = d /\ plan'.found = f /\ mode' = mode
      BY <1>5, <3>1
    <3> QED
      BY <3>2, <3>3 DEF PlanOK
  <2>5. Drafting(n + 1)'
    <3>1. (n + 1) - 1 = n /\ n + 1 \in Nat \ {0}
      BY <1>2
    <3>2. CachesAt(n)' /\ HeadAt(n)'
      BY <1>3, <1>5, <1>7 DEF CachesAt, HeadAt, DueShape
    <3> QED
      BY <1>8, <1>11, <2>2, <2>4, <3>1, <3>2 DEF Drafting
  <2>6. /\ goal' \in Nat /\ emitted' <= goal' /\ goal' <= n + 1
        /\ emitted' < goal' => goal' = (n + 1) - 1
    <3>1. CASE Defer
      <4>1. goal' = n /\ emitted < n /\ n >= 1
        BY <1>2, <1>3, <2>1, <3>1 DEF Defer
      <4> QED
        BY <1>2, <1>5, <1>9, <4>1
    <3>2. CASE ~Defer
      BY <1>2, <1>5, <1>9, <2>1, <3>2
    <3> QED
      BY <3>1, <3>2
  <2>7. scanned' = (n + 1) - 1 /\ ~stopped' /\ ~Stops(n + 1)'
    BY <1>2, <1>5, <1>7, <2>2
  <2>8. AtDraft(n + 1)'
    BY <1>10, <1>11, <2>5, <2>6, <2>7 DEF AtDraft
  <2>9. Here(n + 1)'
    BY <2>1, <2>8 DEF Here
  <2> QED
    BY <1>2, <1>5, <1>8, <1>9, <2>6, <2>9, InvTyped DEF Inv
<1> QED
  BY <1>12, <1>13

\* A turn ends with some more tokens, all of them on the line.
LEMMA TurnInv ==
    ASSUME Inv, phase = "draft", Ready, NEW n \in 0 .. MaxNew, AtDraft(n),
           NEW k \in Nat, Between(n + k)', phase' = "scan",
           UNCHANGED <<line, mode, output, goal, scanned, plan>>
    PROVE  Inv'
<1>1. /\ emitted \in Nat /\ goal \in Nat /\ scanned \in Nat /\ MaxNew \in Nat
      /\ line \in Lines /\ n \in Nat /\ emitted <= n /\ scanned = n - 1
      /\ ~stopped /\ sent = Pre(emitted) /\ \A e \in 0 .. scanned : ~Stops(e)
  BY InvTyped DEF AtDraft, InStep, Searched
<1>2. UNCHANGED <<line, mode, sent, emitted, stopped, goal, scanned>>
  BY DEF output
<1>3. \A e : Pre(e)' = Pre(e) /\ (Stops(e)' <=> Stops(e))
  BY <1>2, SameLine
<1>4. PICK m \in 0 .. MaxNew : m = n + k /\ Between(m)'
  <2>1. n + k \in 0 .. MaxNew
    BY DEF Between, Committed
  <2> QED
    BY <2>1
<1>5. m \in Nat /\ emitted <= m /\ scanned <= m /\ emitted <= scanned + 1
  BY <1>1, <1>4
<1>6. Searched(m)' /\ InStep(m)'
  BY <1>1, <1>2, <1>3, <1>4, <1>5 DEF Searched, InStep, Between
<1>7. AtScan(m)'
  BY <1>1, <1>2, <1>4, <1>5, <1>6 DEF AtScan
<1>8. Here(m)'
  BY <1>7 DEF Here
<1>9. Typed'
  BY <1>4 DEF Between
<1> QED
  BY <1>1, <1>2, <1>4, <1>8, <1>9, InvTyped DEF Inv

LEMMA DraftOneInv ==
    ASSUME Inv, NEW d \in Tokens, DraftOne(d)
    PROVE  Inv'
<1>1. /\ phase = "draft" /\ Ready /\ phase' = "scan"
      /\ UNCHANGED <<line, mode, output, goal, scanned, plan>>
  BY DEF DraftOne
<1>2. PICK n \in 0 .. MaxNew : AtDraft(n)
  BY <1>1 DEF Inv, Here
<1>3. PICK k \in {0, 1} : Between(n + k)'
  BY <1>2, TurnOne DEF AtDraft
<1> QED
  BY <1>1, <1>2, <1>3, TurnInv

LEMMA DraftTwoInv ==
    ASSUME Inv, NEW d \in [1 .. 2 -> Tokens], DraftTwo(d)
    PROVE  Inv'
<1>1. /\ phase = "draft" /\ Ready /\ phase' = "scan"
      /\ UNCHANGED <<line, mode, output, goal, scanned, plan>>
  BY DEF DraftTwo
<1>2. PICK n \in 0 .. MaxNew : AtDraft(n)
  BY <1>1 DEF Inv, Here
<1>3. PICK k \in 0 .. 2 : Between(n + k)'
  BY <1>2, TurnTwo DEF AtDraft
<1> QED
  BY <1>1, <1>2, <1>3, TurnInv

LEMMA DraftGeneralInv ==
    ASSUME Inv, NEW d \in Drafts(plan.depth), DraftGeneral(d)
    PROVE  Inv'
<1>1. /\ phase = "draft" /\ Ready /\ phase' = "scan"
      /\ UNCHANGED <<line, mode, output, goal, scanned, plan>>
  BY DEF DraftGeneral
<1>2. PICK n \in 0 .. MaxNew : AtDraft(n)
  BY <1>1 DEF Inv, Here
<1>3. PICK k \in Nat : Between(n + k)'
  BY <1>2, TurnGeneral DEF AtDraft
<1> QED
  BY <1>1, <1>2, <1>3, TurnInv

LEMMA LeaveInv ==
    ASSUME Inv, Leave
    PROVE  Inv'
<1>1. PICK n \in 0 .. MaxNew : AtLeave(n)
  BY DEF Inv, Here, Leave
<1>2. /\ generated' = UpToStop(generated, scanned) /\ phase' = "flush"
      /\ goal' = (IF stopped THEN goal ELSE Len(generated'))
      /\ UNCHANGED <<line, mode, sent, emitted, stopped, scanned, pending, history>>
  BY DEF Leave, output, model
<1>3. /\ emitted \in Nat /\ goal \in Nat /\ scanned \in Nat /\ MaxNew \in Nat
      /\ line \in Lines /\ n \in Nat /\ n <= MaxNew /\ scanned <= n
      /\ emitted <= n /\ emitted <= scanned + 1 /\ sent = Pre(emitted)
      /\ generated = Pre(n) /\ \A e \in 0 .. scanned : ~Stops(e)
      /\ \A i \in 1 .. n : line[i] \notin StopIds
  BY <1>1, InvTyped DEF AtLeave, Searched, InStep, Committed
<1>4. \A e : Pre(e)' = Pre(e) /\ (Stops(e)' <=> Stops(e)) /\ (Final(e)' <=> Final(e))
  BY <1>2, SameLine
<1>5. PICK m \in 0 .. n :
        /\ generated' = Pre(m)
        /\ \A e \in scanned + 1 .. m - 1 : ~Stops(e)
        /\ \/ m = n /\ \A e \in scanned + 1 .. n : ~Stops(e)
           \/ m \in scanned + 1 .. n /\ Stops(m)
  BY <1>2, <1>3, CutAtStop
<1>6. m \in 0 .. MaxNew /\ m \in Nat /\ Len(Pre(m)) = m /\ emitted <= m
  <2>1. m \in 0 .. MaxNew /\ m \in Nat /\ emitted <= m
    BY <1>3, <1>5
  <2> QED
    BY <1>3, <2>1, PreIs
<1>7. Committed(m)' /\ InStep(m)'
  <2>1. \A i \in 1 .. m : i \in 1 .. n
    BY <1>3, <1>5
  <2> QED
    BY <1>2, <1>3, <1>4, <1>5, <1>6, <2>1 DEF Committed, InStep
<1>8. \A e \in 0 .. m - 1 : ~Stops(e)
  <2>1. \A e \in 0 .. m - 1 : e \in 0 .. scanned \/ e \in scanned + 1 .. m - 1
    BY <1>3, <1>6
  <2> QED
    BY <1>3, <1>5, <2>1
<1>9. ASSUME ~stopped PROVE goal' = m /\ (Final(m) \/ Stops(m))
  <2>1. goal' = m
    BY <1>2, <1>5, <1>6, <1>9
  <2>2. Final(n) \/ \E e \in scanned + 1 .. n : Stops(e)
    BY <1>1, <1>9 DEF AtLeave
  <2> QED
    BY <1>5, <2>1, <2>2
<1>10. AtFlush(m)'
  BY <1>2, <1>4, <1>7, <1>8, <1>9 DEF AtFlush
<1>11. Here(m)'
  BY <1>2, <1>10 DEF Here
<1>12. Typed'
  BY <1>2, InvTyped DEF Typed, Lines, Choosable
<1>13. goal' \in Nat
  BY <1>2, <1>3, <1>5, <1>6
<1> QED
  BY <1>2, <1>3, <1>6, <1>11, <1>12, <1>13, InvTyped DEF Inv

\* What the call returns is what it has given, and all of it.
LEMMA ReturnIs ==
    ASSUME Inv, Return
    PROVE  /\ generated' = sent /\ sent = Pre(emitted) /\ emitted \in 0 .. MaxNew
           /\ stopped \/ Final(emitted) \/ Stops(emitted)
<1>1. PICK n \in 0 .. MaxNew : AtFlush(n)
  BY DEF Inv, Here, Return
<1>2. /\ stopped \/ emitted = goal
      /\ generated' = IF stopped /\ emitted < Len(generated)
                      THEN SubSeq(generated, 1, emitted) ELSE generated
  BY DEF Return
<1>3. /\ emitted \in Nat /\ MaxNew \in Nat /\ line \in Lines /\ n \in Nat
      /\ emitted <= n /\ sent = Pre(emitted) /\ generated = Pre(n)
      /\ emitted \in 0 .. n /\ emitted \in 0 .. MaxNew
  BY <1>1, InvTyped DEF AtFlush, InStep, Committed
<1>4. Len(generated) = n /\ SubSeq(generated, 1, emitted) = Pre(emitted)
  BY <1>3, PreIs, PrePart
<1>5. CASE stopped /\ emitted < n
  BY <1>2, <1>3, <1>4, <1>5
<1>6. CASE ~(stopped /\ emitted < n)
  <2>1. emitted = n
    BY <1>1, <1>2, <1>3, <1>6 DEF AtFlush
  <2>2. generated' = generated
    BY <1>2, <1>4, <1>6
  <2>3. stopped \/ Final(n) \/ Stops(n)
    BY <1>1 DEF AtFlush
  <2> QED
    BY <1>3, <2>1, <2>2, <2>3
<1> QED
  BY <1>5, <1>6

LEMMA ReturnInv ==
    ASSUME Inv, Return
    PROVE  Inv'
<1>1. /\ phase' = "done"
      /\ UNCHANGED <<line, mode, sent, emitted, stopped, goal, scanned, pending, history>>
  BY DEF Return, output, model
<1>2. PICK m \in 0 .. MaxNew : m = emitted /\ generated' = Pre(m) /\ sent = Pre(m)
  BY ReturnIs
<1>3. AtDone(m)'
  BY <1>1, <1>2 DEF AtDone, Pre
<1>4. Here(m)'
  BY <1>1, <1>3 DEF Here
<1>5. Typed'
  BY <1>1, InvTyped DEF Typed, Lines, Choosable
<1> QED
  BY <1>1, <1>4, <1>5, InvTyped DEF Inv

LEMMA StutterInv ==
    ASSUME Inv, UNCHANGED vars
    PROVE  Inv'
<1>1. /\ UNCHANGED <<line, mode, phase, generated, sent, emitted, goal, scanned, stopped,
                     pending, state, cache, mtp, history, plan>>
  BY DEF vars
<1>2. PICK n \in 0 .. MaxNew : Here(n)
  BY DEF Inv
<1>3. Here(n)'
  BY <1>1, <1>2
     DEF Here, AtFirst, AtSeed, AtScan, AtTake, AtDraft, AtLeave, AtFlush, AtDone, Started,
         InStep, Ahead, Final, Searched, Stops, Between, Drafting, PlanOK, Committed, CachesAt,
         HeadAt, DueShape, Typed, EarlyDue, Kept, Pre, Lines, Choosable
<1>4. Typed'
  BY <1>1, InvTyped DEF Typed, Lines, Choosable
<1> QED
  BY <1>1, <1>3, <1>4, InvTyped DEF Inv

LEMMA InvNext == Inv /\ [Next]_vars => Inv'
<1> SUFFICES ASSUME Inv, [Next]_vars PROVE Inv'
  OBVIOUS
<1>1. ASSUME NEW ok \in BOOLEAN, EarlyToken(ok) \/ Emit(ok) PROVE Inv'
  BY <1>1, EarlyTokenInv, EmitInv
<1>2. ASSUME NEW d \in Tokens, DraftOne(d) PROVE Inv'
  BY <1>2, DraftOneInv
<1>3. ASSUME NEW d \in [1 .. 2 -> Tokens], DraftTwo(d) PROVE Inv'
  BY <1>3, DraftTwoInv
<1>4. ASSUME NEW d \in Drafts(plan.depth), DraftGeneral(d) PROVE Inv'
  BY <1>4, DraftGeneralInv
<1>5. CASE EarlyReturn \/ Setup \/ Scan \/ TakeStop \/ Take \/ Leave \/ Return
  BY <1>5, EarlyReturnInv, SetupInv, ScanInv, TakeStopInv, TakeInv, LeaveInv, ReturnInv
<1>6. CASE Done \/ UNCHANGED vars
  BY <1>6, StutterInv DEF Done
<1> QED
  BY <1>1, <1>2, <1>3, <1>4, <1>5, <1>6 DEF Next

LEMMA AlwaysInv == Spec => []Inv
BY InvInit, InvNext, PTL DEF Spec

-----------------------------------------------------------------------------
(* The theorems.                                                             *)

\* generate_greedy_mtp_core keeps tokens of the vocabulary, in order, and
\* counts of them, whatever is drafted, refused or undone.
THEOREM TypeCorrect == Spec => []TypeOK
<1>1. Inv => TypeOK
  <2> SUFFICES ASSUME Inv PROVE TypeOK
    OBVIOUS
  <2>1. PICK n \in 0 .. MaxNew : Here(n)
    BY DEF Inv
  <2>2. phase \in {"first", "seed", "scan", "take", "draft", "leave", "flush", "done"}
    BY <2>1 DEF Here
  <2>3. \A m \in 0 .. MaxNew : Pre(m) \in Seq(Tokens)
    BY InvTyped, PreIs
  <2>4. Pre(1) \in Seq(Tokens) /\ <<>> \in Seq(Tokens)
    BY InvTyped, PreOne, EmptySeq
  <2>5. \A m \in 0 .. MaxNew : emitted <= m => Pre(emitted) \in Seq(Tokens)
    <3> TAKE m \in 0 .. MaxNew
    <3>1. emitted <= m => emitted \in 0 .. MaxNew
      BY InvTyped
    <3> QED
      BY <2>3, <3>1
  <2>6. generated \in Seq(Tokens)
    BY <2>1, <2>3, <2>4
       DEF Here, AtFirst, AtSeed, Started, AtScan, AtTake, AtDraft, AtLeave, AtFlush, AtDone,
           Searched, Committed
  <2>7. sent \in Seq(Tokens)
    BY <2>1, <2>3, <2>4, <2>5
       DEF Here, AtFirst, AtSeed, AtScan, AtTake, AtDraft, AtLeave, AtFlush, AtDone, InStep, Ahead
  <2> QED
    BY <2>2, <2>6, <2>7, InvTyped DEF TypeOK, Lines, Choosable
<1> QED
  BY <1>1, AlwaysInv, PTL

\* Whatever was drafted, accepted, refused or undone on any of the three paths,
\* between two turns the attention rows, the recurrent state and the position
\* hold the committed tokens and nothing else, and the pending token is the
\* model's choice after them (restore_mtp_resident_progress,
\* restore_mtp_snapshot_replay, verify_mtp_drafts_batched).
THEOREM CachesExact == Spec => []StateExact
<1>1. Inv => StateExact
  <2> SUFFICES ASSUME Inv, phase \in {"scan", "take"}, Len(generated) < MaxNew
               PROVE  /\ cache.live = cache.len
                      /\ Rows(cache) = generated /\ cache.lin = generated
                      /\ cache.pos = Len(generated)
                      /\ state = generated /\ pending = Choice(generated)
    BY DEF StateExact
  <2>1. PICK n \in 0 .. MaxNew : Between(n)
    BY DEF Inv, Here, AtScan, AtTake
  <2>2. generated = Pre(n) /\ Len(Pre(n)) = n /\ n \in Nat
    BY <2>1, InvTyped, PreIs DEF Between, Committed
  <2>3. Holds(cache, Pre(n)) /\ state = Pre(n) /\ pending = line[n + 1]
    BY <2>1, <2>2 DEF Between, CachesAt
  <2>4. Choice(Pre(n)) = line[n + 1]
    BY <2>2, InvTyped, ChoiceOnLine
  <2> QED
    BY <2>2, <2>3, <2>4 DEF Holds, Rows
<1> QED
  BY <1>1, AlwaysInv, PTL

\* With a committed history the draft head attends exactly the rows of the
\* prompt and of the committed tokens, those two drafts left due included
\* (flush_mtp_resident_pending_append, truncate_mtp_resident_history).
THEOREM HeadRowsExact == Spec => []HistoryExact
<1>1. Inv => HistoryExact
  <2> SUFFICES ASSUME Inv, phase \in {"scan", "take"}, mode.history = "committed"
               PROVE  /\ mtp.live = mtp.len
                      /\ Attended(mtp) = [i \in 1 .. history |-> i]
                      /\ history = Seeded + Len(generated)
    BY DEF HistoryExact
  <2>1. PICK n \in 0 .. MaxNew : Between(n)
    BY DEF Inv, Here, AtScan, AtTake
  <2>2. Len(generated) = n /\ n \in Nat
    BY <2>1, InvTyped, PreIs DEF Between, Committed
  <2>3. PICK h \in Nat : h = Seeded + n
    BY <2>2, SeedAssumption
  <2>4. HeadExact(mtp, h) /\ history = h
    BY <2>1, <2>3 DEF Between, HeadAt
  <2>5. mtp.live = mtp.len /\ Attended(mtp) = [i \in 1 .. h |-> i]
    BY <2>4, AttendedExact
  <2> QED
    BY <2>2, <2>3, <2>4, <2>5
<1> QED
  BY <1>1, AlwaysInv, PTL

-----------------------------------------------------------------------------
(* Decoding with drafts implements the plain loop.                           *)

\* A token given is one the plain loop would give: the first, before the loop,
\* and any other.
LEMMA GivesToken ==
    ASSUME Inv, NEW e \in Nat, e < MaxNew, sent = Pre(e), ~stopped, ~Stops(e),
           line[e + 1] \notin StopIds, NEW ok \in BOOLEAN,
           sent' = Append(sent, line[e + 1]), stopped' = ~ok,
           phase # "done", phase' # "done", line' = line
    PROVE  G!Emit(ok)
<1>1. Len(sent) = e /\ MaxNew \in Nat
  BY InvTyped, PreIs
<1>2. ~G!Over
  BY <1>1 DEF G!Over, Stops
<1> QED
  BY <1>1, <1>2 DEF G!Emit

LEMMA GreedyInit == Init => G!Init
BY DEF Init, G!Init

LEMMA GreedyNext == Inv /\ [Next]_vars => [G!Next]_(G!vars)
<1> SUFFICES ASSUME Inv, [Next]_vars PROVE [G!Next]_(G!vars)
  OBVIOUS
<1>1. ASSUME NEW ok \in BOOLEAN, EarlyToken(ok) PROVE [G!Next]_(G!vars)
  <2>1. /\ AtFirst /\ EarlyDue /\ phase = "first" /\ phase' = "seed" /\ sent' = <<line[1]>>
        /\ stopped' = ~ok /\ line' = line
    BY <1>1 DEF Inv, Here, EarlyToken
  <2>2. PICK z \in Nat : z = 0 /\ z + 1 = 1 /\ z < MaxNew
    BY LimitAssumption
  <2>3. sent = Pre(z) /\ ~Stops(z) /\ ~stopped /\ sent = <<>>
    BY <2>1, <2>2, PreEmpty, StopsNever DEF AtFirst
  <2>4. sent' = Append(sent, line[z + 1]) /\ line[z + 1] \notin StopIds
    <3>1. Append(<<>>, line[1]) = <<line[1]>>
      OBVIOUS
    <3> QED
      BY <2>1, <2>2, <2>3, <3>1 DEF EarlyDue
  <2>5. G!Emit(ok)
    BY <2>1, <2>2, <2>3, <2>4, GivesToken
  <2> QED
    BY <2>5 DEF G!Next
<1>2. ASSUME NEW ok \in BOOLEAN, Emit(ok) PROVE [G!Next]_(G!vars)
  <2>1. PICK n \in 0 .. MaxNew : Here(n)
    BY DEF Inv
  <2>2. /\ n <= MaxNew /\ emitted + 1 <= n /\ n \in Nat
        /\ ~stopped /\ sent = Pre(emitted) /\ sent' = Append(sent, line[emitted + 1])
        /\ line[emitted + 1] \notin StopIds /\ ~Stops(emitted)
    BY <1>2, <2>1, EmitNext
  <2>3. /\ phase # "done" /\ phase' # "done" /\ line' = line /\ stopped' = ~ok
    BY <1>2 DEF Emit
  <2>4. PICK e \in Nat : e = emitted /\ e < MaxNew
    BY <2>2, InvTyped
  <2>5. G!Emit(ok)
    BY <2>2, <2>3, <2>4, GivesToken
  <2> QED
    BY <2>5 DEF G!Next
<1>3. CASE EarlyReturn
  BY <1>3 DEF EarlyReturn, output, G!Next, G!Return, G!Over
<1>4. CASE Return
  <2>1. /\ generated' = sent /\ sent = Pre(emitted) /\ emitted \in 0 .. MaxNew
        /\ stopped \/ Final(emitted) \/ Stops(emitted)
    BY <1>4, ReturnIs
  <2>2. Len(sent) = emitted
    BY <2>1, InvTyped, PreIs
  <2>3. G!Over
    BY <2>1, <2>2 DEF G!Over, Final, Stops
  <2>4. phase # "done" /\ phase' = "done" /\ UNCHANGED <<line, sent, stopped>>
    BY <1>4 DEF Return, output
  <2>5. G!Return
    BY <2>1, <2>3, <2>4 DEF G!Return
  <2> QED
    BY <2>5 DEF G!Next
<1>5. CASE Setup \/ Scan \/ TakeStop \/ Take \/ Leave
  <2>1. phase # "done" /\ phase' # "done" /\ UNCHANGED <<line, sent, stopped>>
    BY <1>5 DEF Setup, Scan, TakeStop, Take, Leave, output
  <2> QED
    BY <2>1 DEF G!vars
<1>6. ASSUME \/ \E d \in Tokens : DraftOne(d)
             \/ \E d \in [1 .. 2 -> Tokens] : DraftTwo(d)
             \/ \E d \in Drafts(plan.depth) : DraftGeneral(d)
      PROVE  [G!Next]_(G!vars)
  <2>1. phase # "done" /\ phase' # "done" /\ UNCHANGED <<line, sent, stopped>>
    BY <1>6 DEF DraftOne, DraftTwo, DraftGeneral, output
  <2> QED
    BY <2>1 DEF G!vars
<1>7. CASE Done \/ UNCHANGED vars
  BY <1>7 DEF Done, vars, G!vars
<1> QED
  BY <1>1, <1>2, <1>3, <1>4, <1>5, <1>6, <1>7 DEF Next

\* Decoding with drafts is the plain loop to its callback and its caller: the
\* same tokens in the same order, the same end at a stop token, a stop sequence,
\* the limit or a refusal, the same answer (generate_greedy_mtp_core against
\* generate_greedy_timed_from_prefilled_state).
THEOREM DraftsChangeNothing == Spec => ImplementsGreedy
BY GreedyInit, AlwaysInv, GreedyNext, PTL DEF Spec, ImplementsGreedy, G!Spec

=============================================================================
