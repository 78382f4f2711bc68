----------------------------- MODULE DataLemmas -----------------------------
(***************************************************************************)
(* What the proofs about the components share: induction over the numbers  *)
(* and over the sequences, stated for a set, and the lemmas about the data *)
(* the models are built from (parts of sequences, ranges, cardinalities).  *)
(***************************************************************************)
EXTENDS Integers, Subsequences, Functions, SequenceTheorems, FiniteSetTheorems,
        WellFoundedInduction, TLAPS

-----------------------------------------------------------------------------
(* Induction.                                                               *)

LEMMA LeastNat ==
    ASSUME NEW T \in SUBSET Nat, T # {}
    PROVE  \E x \in T : \A y \in T : x <= y
<1>1. PICK x \in T : \A y \in T : ~ (<<y, x>> \in OpToRel(<, Nat))
  BY NatLessThanWellFounded, WFMin
<1>2. \A y \in T : ~ (y < x)
  BY <1>1 DEF OpToRel
<1> QED
  BY <1>2

\* A set of numbers that has 0 and, with a number, the next one, has them all.
LEMMA NatsByInduction ==
    ASSUME NEW T, 0 \in T, \A n \in Nat : n \in T => n + 1 \in T
    PROVE  Nat \subseteq T
<1> SUFFICES ASSUME Nat \ T # {} PROVE FALSE
  OBVIOUS
<1>1. PICK x \in Nat \ T : \A y \in Nat \ T : x <= y
  BY LeastNat
<1>2. x # 0 /\ x - 1 \in Nat /\ x - 1 \in T
  BY <1>1
<1> QED
  BY <1>1, <1>2

\* A set that has the empty sequence and, with a sequence, those with one more
\* element at the end, has all the sequences.
LEMMA SequencesByInduction ==
    ASSUME NEW S, NEW T, <<>> \in T,
           \A s \in Seq(S), e \in S : s \in T => Append(s, e) \in T
    PROVE  Seq(S) \subseteq T
<1> DEFINE N == {n \in Nat : \A s \in Seq(S) : Len(s) = n => s \in T}
<1>1. 0 \in N
  <2> SUFFICES ASSUME NEW s \in Seq(S), Len(s) = 0 PROVE s \in T
    OBVIOUS
  <2>1. s = <<>>
    BY EmptySeq
  <2> QED
    BY <2>1
<1>2. ASSUME NEW n \in Nat, n \in N PROVE n + 1 \in N
  <2> SUFFICES ASSUME NEW s \in Seq(S), Len(s) = n + 1 PROVE s \in T
    OBVIOUS
  <2>1. s # <<>>
    BY EmptySeq
  <2>2. PICK t \in Seq(S), e \in S : s = Append(t, e)
    BY <2>1, SequenceEmptyOrAppend
  <2>3. Len(s) = Len(t) + 1 /\ Len(t) \in Nat
    BY <2>2, AppendProperties, LenProperties
  <2>4. Len(t) = n
    BY <2>3
  <2>5. t \in T
    BY <1>2, <2>4
  <2> QED
    BY <2>2, <2>5
<1> HIDE DEF N
<1>3. Nat \subseteq N
  BY <1>1, <1>2, NatsByInduction
<1>4. ASSUME NEW s \in Seq(S) PROVE s \in T
  <2>1. Len(s) \in N
    BY <1>3, LenProperties
  <2> QED
    BY <2>1 DEF N
<1> QED
  BY <1>4

-----------------------------------------------------------------------------
(* Sequences.                                                               *)

LEMMA EmptyOrNot ==
    ASSUME NEW S, NEW s \in Seq(S)
    PROVE  /\ s = <<>> <=> Len(s) = 0
           /\ s # <<>> <=> Len(s) >= 1
           /\ Len(s) \in Nat
BY EmptySeq, LenProperties

LEMMA TakeHead ==
    ASSUME NEW S, NEW s \in Seq(S), s # <<>>
    PROVE  /\ Head(s) \in S
           /\ Tail(s) \in Seq(S)
           /\ Len(Tail(s)) = Len(s) - 1
           /\ Tail(s) = <<>> <=> Len(s) = 1
<1>1. Head(s) \in S /\ Tail(s) \in Seq(S) /\ Len(Tail(s)) = Len(s) - 1
  BY HeadTailProperties
<1>2. Tail(s) = <<>> <=> Len(Tail(s)) = 0
  BY <1>1, EmptySeq
<1>3. Len(s) \in Nat
  BY LenProperties
<1> QED
  BY <1>1, <1>2, <1>3

LEMMA PutLast ==
    ASSUME NEW S, NEW s \in Seq(S), NEW e \in S
    PROVE  /\ Append(s, e) \in Seq(S)
           /\ Append(s, e) # <<>>
           /\ Len(Append(s, e)) = Len(s) + 1
BY AppendProperties

LEMMA RangeEmpty == Range(<<>>) = {}
BY DEF Range

LEMMA RangeOne ==
    ASSUME NEW e
    PROVE  Range(<<e>>) = {e}
BY DEF Range

LEMMA RangeAppend ==
    ASSUME NEW S, NEW s \in Seq(S), NEW e \in S
    PROVE  Range(Append(s, e)) = Range(s) \cup {e}
<1>1. /\ Len(s) \in Nat /\ DOMAIN s = 1..Len(s) /\ DOMAIN Append(s, e) = 1..(Len(s) + 1)
      /\ \A i \in 1..Len(s) : Append(s, e)[i] = s[i]
      /\ Append(s, e)[Len(s) + 1] = e
  BY EmptyOrNot
<1>2. \A i \in 1..(Len(s) + 1) : i \in 1..Len(s) \/ i = Len(s) + 1
  BY <1>1
<1>3. (\A i \in 1..Len(s) : i \in 1..(Len(s) + 1)) /\ Len(s) + 1 \in 1..(Len(s) + 1)
  BY <1>1
<1> QED
  BY <1>1, <1>2, <1>3 DEF Range

LEMMA RangeSize ==
    ASSUME NEW S, NEW s \in Seq(S)
    PROVE  /\ IsFiniteSet(Range(s))
           /\ Cardinality(Range(s)) <= Len(s)
<1>1. /\ Len(s) \in Nat /\ IsFiniteSet(1..Len(s)) /\ Cardinality(1..Len(s)) = Len(s)
      /\ s \in [1..Len(s) -> S] /\ DOMAIN s = 1..Len(s)
  BY LenProperties, FS_Interval
<1>2. s \in Surjection(1..Len(s), Range(s))
  BY <1>1 DEF Surjection, Range
<1> QED
  BY <1>1, <1>2, FS_Surjection

\* A sequence that is not empty is its first element, then the others.
LEMMA HeadThenTail ==
    ASSUME NEW S, NEW s \in Seq(S), s # <<>>
    PROVE  /\ s = <<Head(s)>> \o Tail(s)
           /\ Head(s) = s[1]
           /\ <<Head(s)>> \in Seq(S)
<1>1. /\ Head(s) \in S /\ Tail(s) \in Seq(S) /\ Len(Tail(s)) = Len(s) - 1
      /\ \A i \in 1 .. Len(Tail(s)) : Tail(s)[i] = s[i + 1]
  BY HeadTailProperties
<1>2. Len(s) \in Nat /\ Len(s) >= 1 /\ Head(s) = s[1]
  BY EmptyOrNot
<1>3. <<Head(s)>> \in Seq(S) /\ Len(<<Head(s)>>) = 1 /\ <<Head(s)>>[1] = s[1]
  BY <1>1, <1>2
<1> DEFINE t == <<Head(s)>> \o Tail(s)
<1>4. /\ t \in Seq(S) /\ Len(t) = Len(s)
      /\ \A i \in 1..Len(s) : t[i] = IF i <= 1 THEN s[1] ELSE Tail(s)[i - 1]
  BY <1>1, <1>2, <1>3, ConcatProperties
<1>5. \A i \in 1..Len(s) : t[i] = s[i]
  <2> SUFFICES ASSUME NEW i \in 1..Len(s) PROVE t[i] = s[i]
    OBVIOUS
  <2>1. CASE i <= 1
    BY <1>4, <2>1
  <2>2. CASE ~(i <= 1)
    <3>1. i - 1 \in 1..Len(Tail(s)) /\ (i - 1) + 1 = i
      BY <1>1, <1>2, <2>2
    <3> QED
      BY <1>1, <1>4, <2>2, <3>1
  <2> QED
    BY <2>1, <2>2
<1> HIDE DEF t
<1>6. s = t
  BY <1>4, <1>5, SeqEqual
<1> QED
  BY <1>2, <1>3, <1>6 DEF t

LEMMA RangeHead ==
    ASSUME NEW S, NEW s \in Seq(S), s # <<>>
    PROVE  Range(s) = {Head(s)} \cup Range(Tail(s))
<1>1. /\ s = <<Head(s)>> \o Tail(s) /\ <<Head(s)>> \in Seq(S)
      /\ Tail(s) \in Seq(S)
  BY HeadThenTail, TakeHead
<1>2. Range(<<Head(s)>> \o Tail(s)) = Range(<<Head(s)>>) \cup Range(Tail(s))
  BY <1>1, RangeConcatenation
<1>3. Range(<<Head(s)>>) = {Head(s)}
  BY RangeOne
<1> QED
  BY <1>1, <1>2, <1>3, Zenon

-----------------------------------------------------------------------------
(* Parts of a sequence.                                                     *)

\* The positions of the elements of s in T, and where k of them are met.
At(s, T) == {i \in DOMAIN s : s[i] \in T}
UpTo(s, T, i) == {j \in At(s, T) : j <= i}
Ends(s, T, k) == {i \in At(s, T) : Cardinality(UpTo(s, T, i)) = k}

LEMMA KeepIs ==
    ASSUME NEW s, NEW T
    PROVE  Keep(s, T) = [k \in 1..Cardinality(At(s, T)) |->
                            s[CHOOSE i \in Ends(s, T, k) : TRUE]]
BY DEF Keep, At, UpTo, Ends

LEMMA AtFinite ==
    ASSUME NEW S, NEW s \in Seq(S), NEW T
    PROVE  /\ IsFiniteSet(At(s, T)) /\ Cardinality(At(s, T)) \in Nat
           /\ At(s, T) \in SUBSET (1..Len(s))
           /\ \A i : /\ IsFiniteSet(UpTo(s, T, i))
                     /\ Cardinality(UpTo(s, T, i)) \in Nat
                     /\ Cardinality(UpTo(s, T, i)) <= Cardinality(At(s, T))
<1>1. DOMAIN s = 1..Len(s) /\ Len(s) \in Nat
  BY LenProperties
<1>2. At(s, T) \in SUBSET (1..Len(s))
  BY <1>1 DEF At
<1>3. IsFiniteSet(1..Len(s))
  BY <1>1, FS_Interval
<1>4. IsFiniteSet(At(s, T)) /\ Cardinality(At(s, T)) \in Nat
  BY <1>2, <1>3, FS_Subset, FS_CardinalityType
<1>5. \A i : UpTo(s, T, i) \in SUBSET At(s, T)
  BY DEF UpTo
<1> QED
  BY <1>2, <1>4, <1>5, FS_Subset, FS_CardinalityType

LEMMA KeepEmpty ==
    ASSUME NEW T
    PROVE  Keep(<<>>, T) = <<>>
<1>1. At(<<>>, T) = {}
  BY DEF At
<1>2. Cardinality(At(<<>>, T)) = 0
  BY <1>1, FS_EmptySet
<1>3. Keep(<<>>, T) = [k \in 1..0 |-> <<>>[CHOOSE i \in Ends(<<>>, T, k) : TRUE]]
  BY <1>2, KeepIs
<1>4. DOMAIN Keep(<<>>, T) = 1..0 /\ 1..0 = {}
  BY <1>3
<1> QED
  BY <1>3, <1>4

\* What one more element at the end does to the positions.
LEMMA AtAppend ==
    ASSUME NEW S, NEW s \in Seq(S), NEW e \in S, NEW T
    PROVE  LET n == Len(s)
               c == Cardinality(At(s, T))
               t == Append(s, e)
           IN  /\ c \in Nat
               /\ \A k \in 1..c : Ends(t, T, k) = Ends(s, T, k)
               /\ e \notin T => Cardinality(At(t, T)) = c
               /\ e \in T => /\ Cardinality(At(t, T)) = c + 1
                             /\ Ends(t, T, c + 1) = {n + 1}
<1> DEFINE n == Len(s)
           t == Append(s, e)
           c == Cardinality(At(s, T))
<1>1. /\ n \in Nat /\ DOMAIN s = 1..n /\ t \in Seq(S) /\ DOMAIN t = 1..(n + 1)
      /\ \A i \in 1..n : t[i] = s[i]
      /\ t[n + 1] = e
  BY AppendProperties, LenProperties
<1>0. At(s, T) \in SUBSET (1..n) /\ c \in Nat /\ IsFiniteSet(At(s, T))
  BY AtFinite DEF n
<1> HIDE DEF t, n
<1>2. /\ e \in T => At(t, T) = At(s, T) \cup {n + 1}
      /\ e \notin T => At(t, T) = At(s, T)
  <2>1. At(s, T) \subseteq 1..n /\ At(t, T) \subseteq 1..(n + 1)
    BY <1>1 DEF At
  <2>2. \A i \in 1..n : i \in At(t, T) <=> i \in At(s, T)
    <3>1. \A i \in 1..n : i \in 1..(n + 1)
      BY <1>1
    <3> QED
      BY <1>1, <3>1 DEF At
  <2>3. n + 1 \in At(t, T) <=> e \in T
    BY <1>1 DEF At
  <2>4. \A i \in 1..(n + 1) : i \in 1..n \/ i = n + 1
    BY <1>1
  <2> QED
    BY <2>1, <2>2, <2>3, <2>4, Zenon
<1>3. n + 1 \notin At(s, T) /\ \A i \in At(s, T) : i <= n /\ i \in Nat
  BY <1>0, <1>1
<1>4. ASSUME NEW i \in At(s, T)
      PROVE  /\ UpTo(t, T, i) = UpTo(s, T, i)
             /\ Cardinality(UpTo(s, T, i)) <= c
             /\ Cardinality(UpTo(s, T, i)) \in Nat
  <2>1. i <= n /\ ~(n + 1 <= i)
    BY <1>1, <1>3
  <2> QED
    BY <1>2, <2>1, AtFinite DEF UpTo
<1>5. CASE e \notin T
  <2>1. At(t, T) = At(s, T)
    BY <1>2, <1>5
  <2>2. \A k : Ends(t, T, k) = Ends(s, T, k)
    BY <1>4, <2>1 DEF Ends
  <2> QED
    BY <1>0, <1>5, <2>1, <2>2 DEF t, n
<1>6. CASE e \in T
  <2>1. At(t, T) = At(s, T) \cup {n + 1}
    BY <1>2, <1>6
  <2>2. Cardinality(At(t, T)) = c + 1
    BY <1>0, <1>3, <2>1, FS_AddElement
  <2>3. UpTo(t, T, n + 1) = At(t, T)
    <3>1. \A j \in At(t, T) : j <= n + 1
      BY <1>1, <1>3, <2>1
    <3> QED
      BY <3>1 DEF UpTo
  <2>4. Cardinality(UpTo(t, T, n + 1)) = c + 1
    BY <2>2, <2>3
  <2>5. \A k \in 1..c : Ends(t, T, k) = Ends(s, T, k)
    <3> TAKE k \in 1..c
    <3>1. k # c + 1
      BY <1>0
    <3> QED
      BY <1>4, <2>1, <2>4, <3>1 DEF Ends
  <2>6. Ends(t, T, c + 1) = {n + 1}
    <3>1. \A i \in At(s, T) : Cardinality(UpTo(t, T, i)) # c + 1
      <4> TAKE i \in At(s, T)
      <4>1. /\ UpTo(t, T, i) = UpTo(s, T, i)
            /\ Cardinality(UpTo(s, T, i)) <= c
            /\ Cardinality(UpTo(s, T, i)) \in Nat
        BY <1>4
      <4> QED
        BY <1>0, <4>1
    <3> QED
      BY <2>1, <2>4, <3>1 DEF Ends
  <2> QED
    BY <1>0, <1>6, <2>2, <2>5, <2>6 DEF t, n
<1> QED
  BY <1>5, <1>6

\* Every element that is kept has its position.
LEMMA EndsThere ==
    ASSUME NEW S, NEW s \in Seq(S), NEW T, NEW k \in 1..Cardinality(At(s, T))
    PROVE  Ends(s, T, k) # {} /\ Ends(s, T, k) \subseteq 1..Len(s)
<1> DEFINE Good == {t \in Seq(S) :
                       \A i \in 1..Cardinality(At(t, T)) : Ends(t, T, i) # {}}
<1>1. <<>> \in Good
  <2>1. Cardinality(At(<<>>, T)) = 0
    BY FS_EmptySet DEF At
  <2> QED
    BY <2>1, EmptySeq
<1>2. ASSUME NEW t \in Seq(S), NEW e \in S, t \in Good
      PROVE  Append(t, e) \in Good
  <2> DEFINE c == Cardinality(At(t, T))
             u == Append(t, e)
  <2>1. u \in Seq(S)
    BY AppendProperties
  <2>2. /\ c \in Nat
        /\ \A i \in 1..c : Ends(u, T, i) = Ends(t, T, i)
        /\ e \notin T => Cardinality(At(u, T)) = c
        /\ e \in T => /\ Cardinality(At(u, T)) = c + 1
                      /\ Ends(u, T, c + 1) = {Len(t) + 1}
    BY AtAppend
  <2>3. \A i \in 1..c : Ends(u, T, i) # {}
    BY <1>2, <2>2
  <2> HIDE DEF c, u
  <2>4. \A i \in 1..Cardinality(At(u, T)) : i \in 1..c \/ (e \in T /\ i = c + 1)
    BY <2>2
  <2>5. \A i \in 1..Cardinality(At(u, T)) : Ends(u, T, i) # {}
    BY <2>2, <2>3, <2>4
  <2> QED
    BY <2>1, <2>5 DEF u
<1> HIDE DEF Good
<1>3. s \in Good
  BY <1>1, <1>2, SequencesByInduction
<1>4. Ends(s, T, k) \subseteq 1..Len(s)
  BY AtFinite DEF Ends
<1> QED
  BY <1>3, <1>4 DEF Good

\* One more element at the end: kept there, or not.
LEMMA KeepAppend ==
    ASSUME NEW S, NEW s \in Seq(S), NEW e \in S, NEW T
    PROVE  /\ e \in T => Keep(Append(s, e), T) = Append(Keep(s, T), e)
           /\ e \notin T => Keep(Append(s, e), T) = Keep(s, T)
           /\ Keep(s, T) \in Seq(S)
<1> DEFINE n == Len(s)
           t == Append(s, e)
           c == Cardinality(At(s, T))
           of(k) == CHOOSE i \in Ends(s, T, k) : TRUE
<1>1. /\ n \in Nat /\ DOMAIN s = 1..n
      /\ \A i \in 1..n : t[i] = s[i] /\ s[i] \in S
      /\ t[n + 1] = e
  BY AppendProperties, LenProperties
<1>2. /\ c \in Nat
      /\ \A k \in 1..c : Ends(t, T, k) = Ends(s, T, k)
      /\ e \notin T => Cardinality(At(t, T)) = c
      /\ e \in T => /\ Cardinality(At(t, T)) = c + 1
                    /\ Ends(t, T, c + 1) = {n + 1}
  BY AtAppend
<1>3. \A k \in 1..c : of(k) \in 1..n
  BY EndsThere
<1>4. Keep(s, T) = [k \in 1..c |-> s[of(k)]]
  BY KeepIs
<1>5. Keep(t, T) = [k \in 1..Cardinality(At(t, T)) |->
                        t[CHOOSE i \in Ends(t, T, k) : TRUE]]
  BY KeepIs
<1> HIDE DEF t, n, c
<1>6. \A k \in 1..c : t[CHOOSE i \in Ends(t, T, k) : TRUE] = s[of(k)]
                        /\ s[of(k)] \in S
  BY <1>1, <1>2, <1>3
<1> HIDE DEF of
<1>7. Keep(s, T) \in Seq(S) /\ Len(Keep(s, T)) = c
  BY <1>2, <1>4, <1>6, SMT
<1>8. CASE e \notin T
  BY <1>2, <1>4, <1>5, <1>6, <1>7, <1>8 DEF t
<1>9. CASE e \in T
  <2>1. Keep(t, T) = [k \in 1..(c + 1) |-> t[CHOOSE i \in Ends(t, T, k) : TRUE]]
    BY <1>2, <1>5, <1>9
  <2>2. t[CHOOSE i \in Ends(t, T, c + 1) : TRUE] = e
    <3>1. (CHOOSE i \in {n + 1} : TRUE) = n + 1
      OBVIOUS
    <3> QED
      BY <1>1, <1>2, <1>9, <3>1
  <2>3. /\ DOMAIN Keep(t, T) = 1..(c + 1)
        /\ \A k \in 1..c : Keep(t, T)[k] = Keep(s, T)[k]
        /\ Keep(t, T)[c + 1] = e
    BY <1>2, <1>4, <1>6, <2>1, <2>2
  <2> DEFINE a == Append(Keep(s, T), e)
  <2>4. /\ a \in Seq(S) /\ Len(a) = c + 1
        /\ \A k \in 1..c : a[k] = Keep(s, T)[k]
        /\ a[c + 1] = e
    BY <1>7, AppendProperties
  <2>5. Keep(t, T) \in Seq(S) /\ Len(Keep(t, T)) = c + 1
    <3>1. \A k \in 1..(c + 1) : k \in 1..c \/ k = c + 1
      BY <1>2
    <3>2. \A k \in 1..(c + 1) : t[CHOOSE i \in Ends(t, T, k) : TRUE] \in S
      BY <1>6, <2>2, <3>1
    <3> QED
      BY <1>2, <2>1, <3>2, SMT
  <2> HIDE DEF a
  <2>6. \A k \in 1..(c + 1) : Keep(t, T)[k] = a[k]
    <3>1. \A k \in 1..(c + 1) : k \in 1..c \/ k = c + 1
      BY <1>2
    <3> QED
      BY <2>3, <2>4, <3>1
  <2>7. Keep(t, T) = a
    BY <2>4, <2>5, <2>6, SeqEqual
  <2> QED
    BY <1>7, <1>9, <2>7 DEF t, a
<1> QED
  BY <1>8, <1>9

\* The same, for whatever is kept.
LEMMA KeepMore ==
    ASSUME NEW S, NEW s \in Seq(S), NEW e \in S
    PROVE  \A T : /\ e \in T => Keep(Append(s, e), T) = Append(Keep(s, T), e)
                  /\ e \notin T => Keep(Append(s, e), T) = Keep(s, T)
<1> TAKE T
<1>1. CASE e \in T
  BY <1>1, KeepAppend
<1>2. CASE e \notin T
  BY <1>2, KeepAppend
<1> QED
  BY <1>1, <1>2

\* What is kept: the elements of s that are in T, no more of them than s has.
LEMMA KeepTyped ==
    ASSUME NEW S, NEW s \in Seq(S), NEW T
    PROVE  /\ Keep(s, T) \in Seq(S)
           /\ Range(Keep(s, T)) = Range(s) \cap T
           /\ Len(Keep(s, T)) <= Len(s)
<1> DEFINE Good == {t \in Seq(S) : /\ Keep(t, T) \in Seq(S)
                                   /\ Range(Keep(t, T)) = Range(t) \cap T
                                   /\ Len(Keep(t, T)) <= Len(t)}
<1>1. <<>> \in Good
  <2>1. /\ <<>> \in Seq(S) /\ Keep(<<>>, T) = <<>> /\ Range(<<>>) = {}
        /\ Len(<<>>) <= Len(<<>>)
    BY KeepEmpty, RangeEmpty, EmptySeq
  <2> QED
    BY <2>1
<1>2. ASSUME NEW t \in Seq(S), NEW e \in S, t \in Good
      PROVE  Append(t, e) \in Good
  <2>1. /\ Append(t, e) \in Seq(S) /\ Len(Append(t, e)) = Len(t) + 1
        /\ Range(Append(t, e)) = Range(t) \cup {e}
    BY AppendProperties, RangeAppend
  <2>2. /\ Keep(t, T) \in Seq(S) /\ Range(Keep(t, T)) = Range(t) \cap T
        /\ Len(Keep(t, T)) <= Len(t) /\ Len(t) \in Nat /\ Len(Keep(t, T)) \in Nat
    BY <1>2, LenProperties
  <2>3. CASE e \in T
    <3>1. Keep(Append(t, e), T) = Append(Keep(t, T), e)
      BY <2>3, KeepAppend
    <3>2. /\ Append(Keep(t, T), e) \in Seq(S)
          /\ Len(Append(Keep(t, T), e)) = Len(Keep(t, T)) + 1
          /\ Range(Append(Keep(t, T), e)) = Range(Keep(t, T)) \cup {e}
      BY <2>2, AppendProperties, RangeAppend
    <3>3. (Range(t) \cup {e}) \cap T = (Range(t) \cap T) \cup {e}
      BY <2>3
    <3>4. Range(Keep(Append(t, e), T)) = Range(Append(t, e)) \cap T
      BY <2>1, <2>2, <3>1, <3>2, <3>3, Zenon
    <3>5. Len(Append(Keep(t, T), e)) <= Len(Append(t, e))
      BY <2>1, <2>2, <3>2
    <3> QED
      BY <2>1, <3>1, <3>2, <3>4, <3>5
  <2>4. CASE e \notin T
    <3>1. Keep(Append(t, e), T) = Keep(t, T)
      BY <2>4, KeepAppend
    <3>2. (Range(t) \cup {e}) \cap T = Range(t) \cap T
      BY <2>4
    <3> QED
      BY <2>1, <2>2, <3>1, <3>2
  <2> QED
    BY <2>3, <2>4
<1> HIDE DEF Good
<1>3. s \in Good
  BY <1>1, <1>2, SequencesByInduction
<1> QED
  BY <1>3 DEF Good

LEMMA AppendBehind ==
    ASSUME NEW S, NEW s \in Seq(S), NEW t \in Seq(S), NEW e \in S
    PROVE  s \o Append(t, e) = Append(s \o t, e)
<1>1. s \o t \in Seq(S) /\ <<e>> \in Seq(S)
  BY ConcatProperties
<1>2. Append(t, e) = t \o <<e>> /\ Append(s \o t, e) = (s \o t) \o <<e>>
  BY <1>1, AppendIsConcat
<1> QED
  BY <1>1, <1>2, ConcatAssociative

LEMMA KeepConcat ==
    ASSUME NEW S, NEW s \in Seq(S), NEW t \in Seq(S), NEW T
    PROVE  Keep(s \o t, T) = Keep(s, T) \o Keep(t, T)
<1> DEFINE Good == {u \in Seq(S) : Keep(s \o u, T) = Keep(s, T) \o Keep(u, T)}
<1>0. Keep(s, T) \in Seq(S)
  BY KeepTyped
<1>1. <<>> \in Good
  BY <1>0, KeepEmpty, EmptySeq, ConcatEmptySeq
<1>2. ASSUME NEW u \in Seq(S), NEW e \in S, u \in Good
      PROVE  Append(u, e) \in Good
  <2>1. /\ Append(u, e) \in Seq(S) /\ s \o u \in Seq(S) /\ Keep(u, T) \in Seq(S)
        /\ <<e>> \in Seq(S)
    BY AppendProperties, ConcatProperties, KeepTyped
  <2>2. s \o Append(u, e) = Append(s \o u, e)
    BY AppendBehind
  <2>3. CASE e \in T
    <3>0. \A w \in Seq(S) : Keep(Append(w, e), T) = Append(Keep(w, T), e)
      BY <2>3, KeepAppend
    <3>1. Keep(s \o Append(u, e), T) = Append(Keep(s \o u, T), e)
      BY <2>1, <2>2, <3>0, Zenon
    <3>2. Keep(Append(u, e), T) = Append(Keep(u, T), e)
      BY <2>3, KeepAppend
    <3>3. /\ Append(Keep(u, T), e) = Keep(u, T) \o <<e>>
          /\ Append(Keep(s, T) \o Keep(u, T), e) = (Keep(s, T) \o Keep(u, T)) \o <<e>>
      BY <1>0, <2>1, AppendIsConcat, ConcatProperties
    <3>4. (Keep(s, T) \o Keep(u, T)) \o <<e>> = Keep(s, T) \o (Keep(u, T) \o <<e>>)
      BY <1>0, <2>1, ConcatAssociative
    <3> QED
      BY <1>2, <2>1, <3>1, <3>2, <3>3, <3>4
  <2>4. CASE e \notin T
    <3>0. \A w \in Seq(S) : Keep(Append(w, e), T) = Keep(w, T)
      BY <2>4, KeepAppend
    <3>1. Keep(s \o Append(u, e), T) = Keep(s \o u, T)
      BY <2>1, <2>2, <3>0, Zenon
    <3>2. Keep(Append(u, e), T) = Keep(u, T)
      BY <2>4, KeepAppend
    <3> QED
      BY <1>2, <2>1, <3>1, <3>2
  <2> QED
    BY <2>3, <2>4
<1> HIDE DEF Good
<1>3. t \in Good
  BY <1>1, <1>2, SequencesByInduction
<1> QED
  BY <1>3 DEF Good

\* All of it, or nothing.
LEMMA KeepAll ==
    ASSUME NEW S, NEW s \in Seq(S), NEW T, Range(s) \subseteq T
    PROVE  Keep(s, T) = s
<1> DEFINE Good == {t \in Seq(S) : Range(t) \subseteq T => Keep(t, T) = t}
<1>1. <<>> \in Good
  BY KeepEmpty, EmptySeq
<1>2. ASSUME NEW t \in Seq(S), NEW e \in S, t \in Good
      PROVE  Append(t, e) \in Good
  <2>1. Append(t, e) \in Seq(S) /\ Range(Append(t, e)) = Range(t) \cup {e}
    BY AppendProperties, RangeAppend
  <2> SUFFICES ASSUME Range(Append(t, e)) \subseteq T
               PROVE  Keep(Append(t, e), T) = Append(t, e)
    BY <2>1
  <2>2. e \in T /\ Keep(t, T) = t
    BY <1>2, <2>1
  <2>3. Keep(Append(t, e), T) = Append(Keep(t, T), e)
    <3>1. e \in T
      BY <2>2
    <3> QED
      BY <3>1, KeepAppend
  <2> QED
    BY <2>2, <2>3
<1> HIDE DEF Good
<1>3. s \in Good
  BY <1>1, <1>2, SequencesByInduction
<1> QED
  BY <1>3 DEF Good

LEMMA KeepNone ==
    ASSUME NEW S, NEW s \in Seq(S), NEW T, Range(s) \cap T = {}
    PROVE  Keep(s, T) = <<>>
<1>1. Keep(s, T) \in Seq(S) /\ Range(Keep(s, T)) = {}
  BY KeepTyped
<1>2. Len(Keep(s, T)) = 0
  <2> SUFFICES ASSUME Len(Keep(s, T)) # 0 PROVE FALSE
    OBVIOUS
  <2>1. Len(Keep(s, T)) \in Nat /\ DOMAIN Keep(s, T) = 1..Len(Keep(s, T))
    BY <1>1, LenProperties
  <2>2. 1 \in DOMAIN Keep(s, T)
    BY <2>1
  <2> QED
    BY <1>1, <2>2 DEF Range
<1> QED
  BY <1>1, <1>2, EmptySeq

\* What is kept depends only on which elements of the sequence are in the set.
LEMMA KeepSame ==
    ASSUME NEW S, NEW s \in Seq(S), NEW T, NEW U, Range(s) \cap T = Range(s) \cap U
    PROVE  Keep(s, T) = Keep(s, U)
<1> DEFINE Good == {t \in Seq(S) : Range(t) \cap T = Range(t) \cap U
                                      => Keep(t, T) = Keep(t, U)}
<1>1. <<>> \in Good
  BY KeepEmpty, EmptySeq
<1>2. ASSUME NEW t \in Seq(S), NEW e \in S, t \in Good
      PROVE  Append(t, e) \in Good
  <2>1. Append(t, e) \in Seq(S) /\ Range(Append(t, e)) = Range(t) \cup {e}
    BY AppendProperties, RangeAppend
  <2> SUFFICES ASSUME Range(Append(t, e)) \cap T = Range(Append(t, e)) \cap U
               PROVE  Keep(Append(t, e), T) = Keep(Append(t, e), U)
    BY <2>1
  <2>2. (e \in T <=> e \in U) /\ Range(t) \cap T = Range(t) \cap U
    BY <2>1
  <2>3. Keep(t, T) = Keep(t, U)
    BY <1>2, <2>2
  <2>4. CASE e \in T
    <3>1. Keep(Append(t, e), T) = Append(Keep(t, T), e)
      BY <2>4, KeepAppend
    <3>2. e \in U
      BY <2>2, <2>4
    <3>3. Keep(Append(t, e), U) = Append(Keep(t, U), e)
      BY <3>2, KeepAppend
    <3> QED
      BY <2>3, <3>1, <3>3
  <2>5. CASE e \notin T
    <3>1. Keep(Append(t, e), T) = Keep(t, T)
      BY <2>5, KeepAppend
    <3>2. e \notin U
      BY <2>2, <2>5
    <3>3. Keep(Append(t, e), U) = Keep(t, U)
      BY <3>2, KeepAppend
    <3> QED
      BY <2>3, <3>1, <3>3
  <2> QED
    BY <2>4, <2>5
<1> HIDE DEF Good
<1>3. s \in Good
  BY <1>1, <1>2, SequencesByInduction
<1> QED
  BY <1>3 DEF Good

-----------------------------------------------------------------------------
(* Sequences without repetition.                                            *)

Distinct(s) == \A i, j \in DOMAIN s : s[i] = s[j] => i = j

LEMMA DistinctConcat ==
    ASSUME NEW S, NEW s \in Seq(S), NEW t \in Seq(S)
    PROVE  Distinct(s \o t) <=> /\ Distinct(s) /\ Distinct(t)
                                /\ Range(s) \cap Range(t) = {}
<1> DEFINE u == s \o t
           m == Len(s)
           n == Len(t)
<1>1. /\ m \in Nat /\ n \in Nat
      /\ DOMAIN s = 1..m /\ DOMAIN t = 1..n /\ DOMAIN u = 1..(m + n)
  BY LenProperties, ConcatProperties
<1>2. \A i \in 1..m : i \in 1..(m + n) /\ u[i] = s[i]
  <2> TAKE i \in 1..m
  <2>1. i \in 1..(m + n) /\ i <= m
    BY <1>1
  <2> QED
    BY <2>1, ConcatProperties
<1>3. \A i \in 1..n : m + i \in 1..(m + n) /\ u[m + i] = t[i]
  <2> TAKE i \in 1..n
  <2>1. m + i \in 1..(m + n) /\ ~(m + i <= m) /\ (m + i) - m = i
    BY <1>1
  <2> QED
    BY <2>1, ConcatProperties
<1>4. \A i \in 1..(m + n) : i \in 1..m \/ \E k \in 1..n : i = m + k
  <2> TAKE i \in 1..(m + n)
  <2>1. i \in 1..m \/ (i - m \in 1..n /\ i = m + (i - m))
    BY <1>1
  <2> QED
    BY <2>1
<1>5. /\ \A i \in 1..m, k \in 1..n : i # m + k
      /\ \A i, k \in 1..n : m + i = m + k => i = k
  BY <1>1
<1> HIDE DEF u, m, n
<1>6. ASSUME Distinct(u)
      PROVE  Distinct(s) /\ Distinct(t) /\ Range(s) \cap Range(t) = {}
  <2>1. Distinct(s)
    BY <1>1, <1>2, <1>6 DEF Distinct
  <2>2. Distinct(t)
    BY <1>1, <1>3, <1>5, <1>6 DEF Distinct
  <2>3. ASSUME NEW i \in 1..m, NEW k \in 1..n PROVE s[i] # t[k]
    BY <1>1, <1>2, <1>3, <1>5, <1>6 DEF Distinct
  <2> QED
    BY <1>1, <2>1, <2>2, <2>3 DEF Range
<1>7. ASSUME Distinct(s), Distinct(t), Range(s) \cap Range(t) = {}
      PROVE  Distinct(u)
  <2>1. \A i \in 1..m, k \in 1..n : s[i] # t[k]
    BY <1>1, <1>7 DEF Range
  <2> SUFFICES ASSUME NEW i \in 1..(m + n), NEW k \in 1..(m + n), u[i] = u[k]
               PROVE  i = k
    BY <1>1 DEF Distinct
  <2>2. CASE i \in 1..m /\ k \in 1..m
    BY <1>1, <1>2, <1>7, <2>2 DEF Distinct
  <2>3. ASSUME NEW x \in 1..n, NEW y \in 1..n, i = m + x, k = m + y
        PROVE  i = k
    BY <1>1, <1>3, <1>7, <2>3 DEF Distinct
  <2>4. ~(i \in 1..m /\ \E y \in 1..n : k = m + y)
    BY <1>2, <1>3, <2>1
  <2>5. ~(k \in 1..m /\ \E y \in 1..n : i = m + y)
    BY <1>2, <1>3, <2>1
  <2> QED
    BY <1>4, <2>2, <2>3, <2>4, <2>5
<1> QED
  BY <1>6, <1>7 DEF u

LEMMA DistinctAppend ==
    ASSUME NEW S, NEW s \in Seq(S), NEW e \in S
    PROVE  Distinct(Append(s, e)) <=> Distinct(s) /\ e \notin Range(s)
<1>1. <<e>> \in Seq(S) /\ Append(s, e) = s \o <<e>> /\ Range(<<e>>) = {e}
  BY AppendIsConcat, RangeOne
<1>2. Distinct(<<e>>)
  BY DEF Distinct
<1>3. Distinct(s \o <<e>>) <=> /\ Distinct(s) /\ Distinct(<<e>>)
                               /\ Range(s) \cap Range(<<e>>) = {}
  BY <1>1, DistinctConcat
<1> QED
  BY <1>1, <1>2, <1>3

LEMMA KeepDistinct ==
    ASSUME NEW S, NEW s \in Seq(S), NEW T, Distinct(s)
    PROVE  Distinct(Keep(s, T))
<1> DEFINE Good == {t \in Seq(S) : Distinct(t) => Distinct(Keep(t, T))}
<1>1. <<>> \in Good
  BY KeepEmpty, EmptySeq
<1>2. ASSUME NEW t \in Seq(S), NEW e \in S, t \in Good
      PROVE  Append(t, e) \in Good
  <2>1. Append(t, e) \in Seq(S)
    BY AppendProperties
  <2> SUFFICES ASSUME Distinct(Append(t, e)) PROVE Distinct(Keep(Append(t, e), T))
    BY <2>1
  <2>2. Distinct(t) /\ e \notin Range(t)
    BY DistinctAppend
  <2>3. Distinct(Keep(t, T)) /\ Keep(t, T) \in Seq(S) /\ e \notin Range(Keep(t, T))
    BY <1>2, <2>2, KeepTyped
  <2>4. Distinct(Append(Keep(t, T), e))
    BY <2>3, DistinctAppend
  <2>5. \/ Keep(Append(t, e), T) = Append(Keep(t, T), e)
        \/ Keep(Append(t, e), T) = Keep(t, T)
    BY KeepAppend
  <2> QED
    BY <2>3, <2>4, <2>5
<1> HIDE DEF Good
<1>3. s \in Good
  BY <1>1, <1>2, SequencesByInduction
<1> QED
  BY <1>3 DEF Good

\* Without its first element, a sequence without repetition is one without it.
LEMMA DistinctHead ==
    ASSUME NEW S, NEW s \in Seq(S), s # <<>>, Distinct(s)
    PROVE  /\ Distinct(Tail(s)) /\ Head(s) \notin Range(Tail(s))
           /\ Range(s) = {Head(s)} \cup Range(Tail(s))
<1>1. /\ s = <<Head(s)>> \o Tail(s) /\ <<Head(s)>> \in Seq(S)
      /\ Tail(s) \in Seq(S) /\ Range(<<Head(s)>>) = {Head(s)}
  BY HeadThenTail, TakeHead, RangeOne
<1>2. Distinct(<<Head(s)>> \o Tail(s))
  BY <1>1
<1>3. /\ Distinct(Tail(s))
      /\ Range(<<Head(s)>>) \cap Range(Tail(s)) = {}
  BY <1>1, <1>2, DistinctConcat
<1> QED
  BY <1>1, <1>3, RangeHead

LEMMA DistinctEmptyOne ==
    /\ Distinct(<<>>)
    /\ \A e : Distinct(<<e>>)
BY DEF Distinct

\* A sequence without repetition is as long as its range is large.
LEMMA DistinctCount ==
    ASSUME NEW S, NEW s \in Seq(S), Distinct(s)
    PROVE  Len(s) = Cardinality(Range(s))
<1>1. /\ Len(s) \in Nat /\ IsFiniteSet(1..Len(s)) /\ Cardinality(1..Len(s)) = Len(s)
      /\ s \in [1..Len(s) -> S] /\ DOMAIN s = 1..Len(s)
  BY LenProperties, FS_Interval
<1>2. s \in Surjection(1..Len(s), Range(s))
  BY <1>1 DEF Surjection, Range
<1>3. s \in Injection(1..Len(s), Range(s))
  BY <1>1, <1>2 DEF Distinct, Injection, IsInjective, Surjection
<1> QED
  BY <1>1, <1>2, <1>3, FS_Surjection

\* The first elements of a sequence.
LEMMA FirstOnes ==
    ASSUME NEW S, NEW s \in Seq(S), NEW n \in 0..Len(s)
    PROVE  /\ SubSeq(s, 1, n) \in Seq(S)
           /\ Len(SubSeq(s, 1, n)) = n
           /\ Range(SubSeq(s, 1, n)) \subseteq Range(s)
           /\ Distinct(s) => Distinct(SubSeq(s, 1, n))
           /\ n >= 1 => SubSeq(s, 1, n)[1] = s[1]
<1> DEFINE t == SubSeq(s, 1, n)
<1>1. Len(s) \in Nat /\ n \in Nat /\ n <= Len(s) /\ DOMAIN s = 1..Len(s)
  BY LenProperties
<1>2. /\ t \in Seq(S) /\ Len(t) = n
      /\ \A i \in 1..n : t[i] = s[i]
  <2>1. /\ t \in Seq(S) /\ Len(t) = IF 1 <= n THEN n - 1 + 1 ELSE 0
        /\ \A i \in 1..(n - 1 + 1) : t[i] = s[1 + i - 1]
    BY <1>1, SubSeqProperties
  <2> QED
    BY <1>1, <2>1
<1> HIDE DEF t
<1>3. DOMAIN t = 1..n /\ 1..n \subseteq 1..Len(s)
  BY <1>1, <1>2, LenProperties
<1>4. Range(t) \subseteq Range(s)
  BY <1>1, <1>2, <1>3 DEF Range
<1>5. Distinct(s) => Distinct(t)
  BY <1>1, <1>2, <1>3 DEF Distinct
<1>6. n >= 1 => t[1] = s[1]
  BY <1>1, <1>2
<1> QED
  BY <1>2, <1>4, <1>5, <1>6 DEF t

\* The places of some elements, where none is repeated.
LEMMA PlacesCount ==
    ASSUME NEW S, NEW s \in Seq(S), Distinct(s), NEW T
    PROVE  /\ IsFiniteSet(Range(s) \cap T)
           /\ Cardinality(At(s, T)) = Cardinality(Range(s) \cap T)
<1>1. Len(s) \in Nat /\ DOMAIN s = 1..Len(s)
  BY LenProperties
<1>2. IsFiniteSet(At(s, T))
  <2>1. IsFiniteSet(1..Len(s))
    BY <1>1, FS_Interval
  <2>2. At(s, T) \subseteq 1..Len(s)
    BY <1>1 DEF At
  <2> QED
    BY <2>1, <2>2, FS_Subset
<1> DEFINE f == [i \in At(s, T) |-> s[i]]
<1>3. f \in Surjection(At(s, T), Range(s) \cap T)
  BY DEF Surjection, At, Range
<1>4. f \in Injection(At(s, T), Range(s) \cap T)
  BY <1>3 DEF Distinct, Injection, IsInjective, Surjection, At
<1> HIDE DEF f
<1> QED
  BY <1>2, <1>3, <1>4, FS_Surjection

\* Of numbers below a bound, one is the largest.
LEMMA LargestNat ==
    ASSUME NEW b \in Nat, NEW T \in SUBSET (0..b), T # {}
    PROVE  \E x \in T : \A y \in T : y <= x
<1> DEFINE U == {n \in Nat : b - n \in T}
<1>1. U \in SUBSET Nat /\ U # {}
  <2>1. PICK y \in T : y \in 0..b
    OBVIOUS
  <2>2. b - y \in Nat /\ b - (b - y) = y
    BY <2>1
  <2> QED
    BY <2>1, <2>2
<1>2. PICK n \in U : \A m \in U : n <= m
  BY <1>1, LeastNat
<1>3. b - n \in T
  BY <1>2
<1>4. ASSUME NEW y \in T PROVE y <= b - n
  <2>1. y \in 0..b
    OBVIOUS
  <2>2. b - y \in Nat /\ b - (b - y) = y
    BY <2>1
  <2>3. n <= b - y /\ n \in Nat
    BY <1>2, <1>4, <2>2
  <2> QED
    BY <2>1, <2>3
<1> QED
  BY <1>3, <1>4

\* An element put before the others.
LEMMA PutFirst ==
    ASSUME NEW S, NEW s \in Seq(S), NEW e \in S
    PROVE  /\ <<e>> \o s \in Seq(S)
           /\ <<e>> \o s # <<>>
           /\ (<<e>> \o s)[1] = e
           /\ Len(<<e>> \o s) = Len(s) + 1
           /\ Range(<<e>> \o s) = {e} \cup Range(s)
           /\ Distinct(<<e>> \o s) <=> Distinct(s) /\ e \notin Range(s)
<1>1. PICK t : t = <<e>>
  OBVIOUS
<1>2. /\ t \in Seq(S) /\ Len(t) = 1 /\ t[1] = e /\ Range(t) = {e} /\ Distinct(t)
  BY <1>1, RangeOne, DistinctEmptyOne
<1>3. Len(s) \in Nat /\ 1 \in 1..(Len(t) + Len(s)) /\ 1 <= Len(t)
  BY <1>2, LenProperties
<1>4. /\ t \o s \in Seq(S) /\ Len(t \o s) = Len(t) + Len(s) /\ (t \o s)[1] = t[1]
  <2>1. /\ t \o s \in Seq(S) /\ Len(t \o s) = Len(t) + Len(s)
        /\ \A i \in 1..(Len(t) + Len(s)) :
             (t \o s)[i] = IF i <= Len(t) THEN t[i] ELSE s[i - Len(t)]
    BY <1>2, ConcatProperties
  <2> QED
    BY <1>3, <2>1
<1>5. Range(t \o s) = Range(t) \cup Range(s)
  BY <1>2, RangeConcatenation
<1>6. Distinct(t \o s) <=> Distinct(t) /\ Distinct(s) /\ Range(t) \cap Range(s) = {}
  BY <1>2, DistinctConcat
<1>7. t \o s # <<>>
  BY <1>2, <1>3, <1>4, EmptyOrNot
<1> QED
  BY <1>1, <1>2, <1>3, <1>4, <1>5, <1>6, <1>7

\* A first element that is kept stays the first.
LEMMA KeepFirst ==
    ASSUME NEW S, NEW s \in Seq(S), s # <<>>, NEW T, s[1] \in T
    PROVE  Keep(s, T) # <<>> /\ Keep(s, T)[1] = s[1]
<1>1. PICK t, u, e : t = <<Head(s)>> /\ u = Tail(s) /\ e = Head(s)
  OBVIOUS
<1>2. t \in Seq(S) /\ u \in Seq(S) /\ s = t \o u /\ e = s[1] /\ e \in S
  BY <1>1, HeadThenTail, TakeHead
<1>3. Range(t) \subseteq T
  BY <1>1, <1>2, RangeOne
<1>4. Keep(t \o u, T) = Keep(t, T) \o Keep(u, T)
  BY <1>2, KeepConcat
<1>5. Keep(t, T) = t
  BY <1>2, <1>3, KeepAll
<1>6. Keep(u, T) \in Seq(S)
  BY <1>2, KeepTyped
<1>7. <<e>> \o Keep(u, T) # <<>> /\ (<<e>> \o Keep(u, T))[1] = e
  BY <1>2, <1>6, PutFirst
<1> QED
  BY <1>1, <1>2, <1>4, <1>5, <1>7
=============================================================================
