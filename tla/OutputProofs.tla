---------------------------- MODULE OutputProofs ----------------------------
(***************************************************************************)
(* Proofs about OutputPump, as ResumedChat uses it, for every bound of a   *)
(* line and every way the output may be cut into frames: the lineWriters   *)
(* give out the lines that were written.                                   *)
(***************************************************************************)
EXTENDS ResumedChat, FiniteSetTheorems, SequenceTheorems, TLAPS

-----------------------------------------------------------------------------
(* Places in a set of numbers.                                             *)

LEMMA PlaceType ==
  ASSUME NEW S \in SUBSET Nat, IsFiniteSet(S), NEW k \in S
  PROVE  PlaceIn(S, k) \in 1..Cardinality(S)
<1>. DEFINE T == {j \in S : j <= k}
<1>1. T \in SUBSET S /\ k \in T
  OBVIOUS
<1>2. IsFiniteSet(T) /\ Cardinality(T) <= Cardinality(S)
  BY <1>1, FS_Subset
<1>3. Cardinality(T) \in Nat /\ Cardinality(S) \in Nat /\ Cardinality(T) # 0
  BY <1>1, <1>2, FS_CardinalityType, FS_EmptySet
<1>. QED
  BY <1>2, <1>3 DEF PlaceIn

\* Two numbers have two places.
LEMMA PlacesDiffer ==
  ASSUME NEW S \in SUBSET Nat, IsFiniteSet(S), NEW j \in S, NEW k \in S, j < k
  PROVE  PlaceIn(S, j) < PlaceIn(S, k)
<1>. DEFINE T == {i \in S : i <= j}
<1>. DEFINE U == {i \in S : i <= k}
<1>0. \A i \in S : i \in Nat
  OBVIOUS
<1>1. T \in SUBSET U /\ U \in SUBSET S /\ k \in U /\ k \notin T
  <2>1. k <= k /\ ~(k <= j) /\ \A i \in S : i <= j => i <= k
    BY <1>0
  <2>. QED
    BY <2>1
<1>2. IsFiniteSet(U)
  BY <1>1, FS_Subset
<1>3. IsFiniteSet(T) /\ Cardinality(T) <= Cardinality(U) /\ Cardinality(U) # Cardinality(T)
  BY <1>1, <1>2, FS_Subset
<1>4. Cardinality(T) \in Nat /\ Cardinality(U) \in Nat
  BY <1>2, <1>3, FS_CardinalityType
<1>. QED
  BY <1>3, <1>4 DEF PlaceIn

\* Every place is some element's.
LEMMA PlaceTaken ==
  ASSUME NEW S \in SUBSET Nat, IsFiniteSet(S), NEW n \in 1..Cardinality(S)
  PROVE  \E k \in S : PlaceIn(S, k) = n
<1>. DEFINE C == 1..Cardinality(S)
<1>. DEFINE f == [k \in S |-> PlaceIn(S, k)]
<1>1. Cardinality(S) \in Nat
  BY FS_CardinalityType
<1>2. IsFiniteSet(C) /\ Cardinality(C) = Cardinality(S)
  BY <1>1, FS_Interval
<1>3. f \in [S -> C]
  BY PlaceType
<1>4. ASSUME NEW j \in S, NEW k \in S, f[j] = f[k] PROVE j = k
  <2>1. PlaceIn(S, j) = PlaceIn(S, k) /\ PlaceIn(S, k) \in Nat
    BY <1>4, PlaceType
  <2>2. ~(j < k) /\ ~(k < j)
    BY <2>1, PlacesDiffer
  <2>. QED
    BY <2>2
<1>5. f \in Injection(S, C)
  BY <1>3, <1>4 DEF Injection, IsInjective
<1>. HIDE DEF f, C
<1>6. f \in Surjection(S, C)
  BY <1>2, <1>5, FS_Injection
<1>7. \E k \in S : f[k] = n
  BY <1>6 DEF Surjection, C
<1>. QED
  BY <1>7 DEF f

\* A number greater than all the others comes last and leaves their places to them.
LEMMA PlaceAppends ==
  ASSUME NEW S \in SUBSET Nat, IsFiniteSet(S), NEW m \in Nat, \A k \in S : k < m
  PROVE  /\ IsFiniteSet(S \cup {m}) /\ Cardinality(S) \in Nat
         /\ Cardinality(S \cup {m}) = Cardinality(S) + 1
         /\ PlaceIn(S \cup {m}, m) = Cardinality(S) + 1
         /\ \A k \in S : PlaceIn(S \cup {m}, k) = PlaceIn(S, k)
<1>1. m \notin S
  OBVIOUS
<1>2. IsFiniteSet(S \cup {m}) /\ Cardinality(S \cup {m}) = Cardinality(S) + 1
  BY <1>1, FS_AddElement
<1>3. {j \in S \cup {m} : j <= m} = S \cup {m}
  <2>1. \A j \in S \cup {m} : j <= m
    OBVIOUS
  <2>. QED
    BY <2>1, Zenon
<1>4. ASSUME NEW k \in S PROVE {j \in S \cup {m} : j <= k} = {j \in S : j <= k}
  BY <1>4
<1>. QED
  BY <1>2, <1>3, <1>4, FS_CardinalityType DEF PlaceIn

\* The places in the first part of a set are the same.
LEMMA PlaceInPart ==
  ASSUME NEW S \in SUBSET Nat, NEW n \in Nat, NEW k \in S, k <= n
  PROVE  PlaceIn({j \in S : j <= n}, k) = PlaceIn(S, k)
<1>1. \A j \in S : j <= k => j <= n
  OBVIOUS
<1>2. {j \in {i \in S : i <= n} : j <= k} = {j \in S : j <= k}
  BY <1>1, Zenon
<1>. QED
  BY <1>2 DEF PlaceIn

-----------------------------------------------------------------------------
(* Greatest elements and bounded lines.                                    *)

\* The greatest element is the one that is.
LEMMA MaxIs ==
  ASSUME NEW T \in SUBSET Nat, NEW m \in T, \A y \in T : y <= m
  PROVE  Max(T) = m
<1>. DEFINE P(x) == x \in T /\ \A y \in T : x >= y
<1>1. P(m)
  OBVIOUS
<1>2. P(CHOOSE x : P(x))
  BY <1>1, Zenon
<1>3. Max(T) = CHOOSE x : P(x)
  BY Zenon DEF Max
<1>4. Max(T) \in T /\ Max(T) >= m
  BY <1>2, <1>3
<1>5. Max(T) <= m /\ Max(T) \in Nat /\ m \in Nat
  BY <1>4
<1>6. \A x, y \in Nat : x >= y /\ x <= y => x = y
  OBVIOUS
<1>. QED
  BY <1>4, <1>5, <1>6

LEMMA MinIs ==
  ASSUME NEW a \in Nat, NEW b \in Nat
  PROVE  Min({a, b}) = IF a <= b THEN a ELSE b
<1>. DEFINE P(x) == x \in {a, b} /\ \A y \in {a, b} : x =< y
<1>1. \E x : P(x)
  <2>1. P(a) \/ P(b)
    OBVIOUS
  <2>. QED
    BY <2>1, Zenon
<1>2. P(CHOOSE x : P(x))
  BY <1>1, Zenon
<1>3. Min({a, b}) = CHOOSE x : P(x)
  BY Zenon DEF Min
<1>4. P(Min({a, b}))
  BY <1>2, <1>3
<1>. QED
  BY <1>4

\* What a lineWriter keeps of a line.
Clip(l) == SubSeq(l, 1, Min({Len(l), MaxLine}))

LEMMA ClipFits ==
  ASSUME NEW l \in Seq(Bytes)
  PROVE  /\ Clip(l) \in Seq(Bytes)
         /\ Len(l) <= MaxLine => Clip(l) = l
         /\ Len(l) > MaxLine => Clip(l) = SubSeq(l, 1, MaxLine) /\ Len(Clip(l)) = MaxLine
         /\ Clip(l) = <<>> <=> l = <<>>
<1>1. Len(l) \in Nat /\ MaxLine \in Nat \ {0}
  BY LineAssumption
<1>2. Min({Len(l), MaxLine}) = IF Len(l) <= MaxLine THEN Len(l) ELSE MaxLine
  BY <1>1, MinIs
<1>3. CASE Len(l) <= MaxLine
  <2>1. Clip(l) = SubSeq(l, 1, Len(l))
    BY <1>1, <1>2, <1>3, Zenon DEF Clip
  <2>. QED
    BY <1>1, <1>3, <2>1, SubSeqFull
<1>4. CASE Len(l) > MaxLine
  <2>1. Clip(l) = SubSeq(l, 1, MaxLine)
    <3>1. ~(Len(l) <= MaxLine)
      BY <1>1, <1>4
    <3>. QED
      BY <1>2, <3>1, Zenon DEF Clip
  <2>2. \A i \in 1..MaxLine : l[i] \in Bytes
    BY <1>1, <1>4
  <2>3. Clip(l) \in Seq(Bytes) /\ Len(Clip(l)) = MaxLine
    BY <1>1, <2>1, <2>2, SubSeqProperties
  <2>. QED
    BY <1>1, <1>4, <2>1, <2>3
<1>. QED
  BY <1>1, <1>3, <1>4

\* A part of a sequence.
LEMMA Slice ==
  ASSUME NEW w \in Seq(Bytes), NEW m \in 1..(Len(w) + 1), NEW n \in (m - 1)..Len(w)
  PROVE  /\ SubSeq(w, m, n) \in Seq(Bytes)
         /\ Len(SubSeq(w, m, n)) = n - m + 1
         /\ \A i \in 1..(n - m + 1) : SubSeq(w, m, n)[i] = w[m + i - 1]
<1>1. Len(w) \in Nat
  OBVIOUS
<1>2. m \in Int /\ n \in Int
  BY <1>1
<1>3. \A i \in m..n : w[i] \in Bytes
  BY <1>1
<1>4. /\ SubSeq(w, m, n) \in Seq(Bytes)
      /\ Len(SubSeq(w, m, n)) = (IF m <= n THEN n - m + 1 ELSE 0)
      /\ \A i \in 1..(n - m + 1) : SubSeq(w, m, n)[i] = w[m + i - 1]
  BY <1>2, <1>3, SubSeqProperties
<1>5. (IF m <= n THEN n - m + 1 ELSE 0) = n - m + 1
  BY <1>1, <1>2
<1>. QED
  BY <1>4, <1>5

LEMMA Joined ==
  ASSUME NEW b \in Seq(Bytes), NEW f \in Seq(Bytes)
  PROVE  /\ b \o f \in Seq(Bytes) /\ Len(b \o f) = Len(b) + Len(f)
         /\ \A k \in 1..Len(b) : (b \o f)[k] = b[k]
         /\ \A k \in 1..Len(f) : (b \o f)[Len(b) + k] = f[k]
<1>1. Len(b) \in Nat /\ Len(f) \in Nat
  OBVIOUS
<1>2. \A k \in 1..Len(b) : (b \o f)[k] = b[k]
  BY <1>1, ConcatProperties
<1>3. ASSUME NEW k \in 1..Len(f) PROVE (b \o f)[Len(b) + k] = f[k]
  <2>1. Len(b) + k \in 1..(Len(b) + Len(f)) /\ ~(Len(b) + k <= Len(b)) /\ Len(b) + k - Len(b) = k
    BY <1>1
  <2>2. \A i \in 1..(Len(b) + Len(f)) :
          (b \o f)[i] = IF i <= Len(b) THEN b[i] ELSE f[i - Len(b)]
    BY ConcatProperties
  <2>3. (b \o f)[Len(b) + k] = f[Len(b) + k - Len(b)]
    BY <2>1, <2>2
  <2>. QED
    BY <2>1, <2>3
<1>. QED
  BY <1>2, <1>3, ConcatProperties

LEMMA Adjacent ==
  ASSUME NEW w \in Seq(Bytes), NEW i \in Nat, NEW k \in Nat, NEW l \in Nat,
         i <= k, k <= l, l <= Len(w)
  PROVE  SubSeq(w, i + 1, k) \o SubSeq(w, k + 1, l) = SubSeq(w, i + 1, l)
<1>. DEFINE m == i + 1
<1>1. m \in 1..(Len(w) + 1) /\ k \in (m - 1)..Len(w) /\ l \in k..Len(w)
  OBVIOUS
<1>. HIDE DEF m
<1>2. SubSeq(w, m, k) \o SubSeq(w, k + 1, l) = SubSeq(w, m, l)
  BY <1>1, ConcatAdjacentSubSeq
<1>. QED
  BY <1>2 DEF m

LEMMA Rest ==
  ASSUME NEW w \in Seq(Bytes), NEW n \in 0..Len(w)
  PROVE  /\ SubSeq(w, n + 1, Len(w)) \in Seq(Bytes)
         /\ Len(SubSeq(w, n + 1, Len(w))) = Len(w) - n
         /\ \A k \in 1..(Len(w) - n) : SubSeq(w, n + 1, Len(w))[k] = w[n + k]
<1>. DEFINE m == n + 1
<1>1. m \in 1..(Len(w) + 1) /\ Len(w) \in (m - 1)..Len(w) /\ Len(w) - m + 1 = Len(w) - n
  OBVIOUS
<1>2. \A k \in 1..(Len(w) - n) : m + k - 1 = n + k
  OBVIOUS
<1>. HIDE DEF m
<1>3. /\ SubSeq(w, m, Len(w)) \in Seq(Bytes) /\ Len(SubSeq(w, m, Len(w))) = Len(w) - m + 1
      /\ \A k \in 1..(Len(w) - m + 1) : SubSeq(w, m, Len(w))[k] = w[m + k - 1]
  BY <1>1, Slice
<1>4. /\ SubSeq(w, m, Len(w)) \in Seq(Bytes) /\ Len(SubSeq(w, m, Len(w))) = Len(w) - n
      /\ \A k \in 1..(Len(w) - n) : SubSeq(w, m, Len(w))[k] = w[n + k]
  BY <1>1, <1>2, <1>3
<1>. QED
  BY <1>4 DEF m

\* Bounding a line part by part bounds the line.
LEMMA ClipExtends ==
  ASSUME NEW l \in Seq(Bytes), NEW p \in Seq(Bytes)
  PROVE  AppendBounded(Clip(l), p) = Clip(l \o p)
<1>1. Len(l) \in Nat /\ Len(p) \in Nat /\ MaxLine \in Nat \ {0}
  BY LineAssumption
<1>2. l \o p \in Seq(Bytes) /\ Len(l \o p) = Len(l) + Len(p)
  BY ConcatProperties
<1>3. CASE Len(l) + Len(p) <= MaxLine
  <2>1. Clip(l) = l /\ Clip(l \o p) = l \o p
    <3>1. Len(l) <= MaxLine /\ Len(l \o p) <= MaxLine
      BY <1>1, <1>2, <1>3
    <3>. QED
      BY <1>2, <3>1, ClipFits
  <2>. QED
    BY <1>1, <1>3, <2>1 DEF AppendBounded
<1>4. CASE Len(l) <= MaxLine /\ Len(l) + Len(p) > MaxLine
  <2>. DEFINE room == MaxLine - Len(l)
  <2>1. Clip(l) = l /\ Clip(l \o p) = SubSeq(l \o p, 1, MaxLine)
    BY <1>1, <1>2, <1>4, ClipFits
  <2>2. AppendBounded(Clip(l), p) = l \o SubSeq(p, 1, room)
    BY <1>1, <1>4, <2>1 DEF AppendBounded
  <2>3. room \in 0..Len(p)
    BY <1>1, <1>4
  <2>4. /\ SubSeq(p, 1, room) \in Seq(Bytes) /\ Len(SubSeq(p, 1, room)) = room
        /\ \A i \in 1..room : SubSeq(p, 1, room)[i] = p[i]
    <3>1. \A i \in 1..room : p[i] \in Bytes
      BY <2>3
    <3>. QED
      BY <1>1, <2>3, <3>1, SubSeqProperties
  <2>5. /\ SubSeq(l \o p, 1, MaxLine) \in Seq(Bytes)
        /\ Len(SubSeq(l \o p, 1, MaxLine)) = MaxLine
        /\ \A i \in 1..MaxLine : SubSeq(l \o p, 1, MaxLine)[i] = (l \o p)[i]
    BY <1>1, <1>2, <1>4, Slice
  <2>6. /\ l \o SubSeq(p, 1, room) \in Seq(Bytes)
        /\ Len(l \o SubSeq(p, 1, room)) = MaxLine
    BY <1>1, <2>3, <2>4, ConcatProperties
  <2>7. ASSUME NEW i \in 1..MaxLine
        PROVE  (l \o SubSeq(p, 1, room))[i] = SubSeq(l \o p, 1, MaxLine)[i]
    <3>1. CASE i <= Len(l)
      BY <1>1, <2>3, <2>4, <2>5, <3>1, ConcatProperties
    <3>2. CASE i > Len(l)
      <4>1. (l \o SubSeq(p, 1, room))[i] = SubSeq(p, 1, room)[i - Len(l)]
        BY <1>1, <2>3, <2>4, <3>2, ConcatProperties
      <4>2. (l \o p)[i] = p[i - Len(l)]
        BY <1>1, <1>4, <3>2, ConcatProperties
      <4>. QED
        <5>1. i - Len(l) \in 1..room
          BY <1>1, <1>4, <3>2
        <5>2. SubSeq(p, 1, room)[i - Len(l)] = p[i - Len(l)]
          BY <2>4, <5>1
        <5>3. SubSeq(l \o p, 1, MaxLine)[i] = (l \o p)[i]
          BY <2>5
        <5>. QED
          BY <4>1, <4>2, <5>2, <5>3
    <3>3. i <= Len(l) \/ i > Len(l)
      BY <1>1
    <3>. QED
      BY <3>1, <3>2, <3>3, Zenon
  <2>8. l \o SubSeq(p, 1, room) = SubSeq(l \o p, 1, MaxLine)
    BY <2>5, <2>6, <2>7, SeqEqual
  <2>. QED
    BY <2>1, <2>2, <2>8
<1>5. CASE Len(l) > MaxLine
  <2>1. /\ Clip(l) = SubSeq(l, 1, MaxLine) /\ Len(Clip(l)) = MaxLine /\ Clip(l) \in Seq(Bytes)
        /\ Clip(l \o p) = SubSeq(l \o p, 1, MaxLine)
    <3>1. Len(l) > MaxLine /\ Len(l \o p) > MaxLine
      BY <1>1, <1>2, <1>5
    <3>. QED
      BY <1>2, <3>1, ClipFits
  <2>2. SubSeq(l \o p, 1, MaxLine) = SubSeq(l, 1, MaxLine)
    BY <1>1, <1>5, SubSeqOfConcat1
  <2>3. AppendBounded(Clip(l), p) = Clip(l)
    <3>1. CASE Len(p) > 0
      <4>1. AppendBounded(Clip(l), p) = Clip(l) \o SubSeq(p, 1, 0)
        BY <1>1, <2>1, <3>1 DEF AppendBounded
      <4>2. SubSeq(p, 1, 0) = <<>>
        BY SubSeqEmpty
      <4>. QED
        BY <2>1, <4>1, <4>2, ConcatEmptySeq
    <3>2. CASE Len(p) = 0
      <4>1. p = <<>>
        BY <3>2
      <4>2. AppendBounded(Clip(l), p) = Clip(l) \o p
        BY <1>1, <2>1, <3>2 DEF AppendBounded
      <4>. QED
        BY <2>1, <4>1, <4>2, ConcatEmptySeq
    <3>. QED
      BY <1>1, <3>1, <3>2
  <2>. QED
    BY <2>1, <2>2, <2>3
<1>. QED
  BY <1>1, <1>3, <1>4, <1>5

-----------------------------------------------------------------------------
(* The lines of a stream.                                                  *)

\* The line that ends before place k begins after place j.
Opens(b, j, k) ==
  /\ j \in 0..(k - 1)
  /\ j = 0 \/ j \in Newlines(b)
  /\ \A i \in Newlines(b) : i < k => i <= j

LEMMA OpensLine ==
  ASSUME NEW b \in Seq(Bytes), NEW k \in 1..(Len(b) + 1), NEW j, Opens(b, j, k)
  PROVE  LineEndingAt(b, k) = SubSeq(b, j + 1, k - 1)
<1>. DEFINE T == {0} \cup {i \in Newlines(b) : i < k}
<1>1. T \in SUBSET Nat /\ j \in T /\ \A i \in T : i <= j
  BY DEF Opens, Newlines
<1>2. Max(T) = j
  BY <1>1, MaxIs
<1>. QED
  BY <1>2, Zenon DEF LineEndingAt

\* More output leaves the lines that have ended as they are.
LEMMA OpensSame ==
  ASSUME NEW b \in Seq(Bytes), NEW f \in Seq(Bytes), NEW k \in 1..(Len(b) + 1), NEW j,
         Opens(b, j, k)
  PROVE  Opens(b \o f, j, k) /\ SubSeq(b \o f, j + 1, k - 1) = SubSeq(b, j + 1, k - 1)
<1>1. Len(b) \in Nat /\ Len(f) \in Nat /\ Len(b \o f) = Len(b) + Len(f) /\ j \in Nat /\ k \in Nat
  BY ConcatProperties DEF Opens
<1>2. \A i \in 1..Len(b) : (b \o f)[i] = b[i]
  BY <1>1, ConcatProperties
<1>3. \A i \in 1..Len(b) : i \in Newlines(b) <=> i \in Newlines(b \o f)
  BY <1>1, <1>2 DEF Newlines
<1>4. j # 0 => j \in 1..Len(b)
  BY DEF Opens, Newlines
<1>5. \A i \in Newlines(b \o f) : i < k => i \in 1..Len(b)
  BY <1>1 DEF Newlines
<1>6. Opens(b \o f, j, k)
  BY <1>3, <1>4, <1>5 DEF Opens
<1>7. CASE j + 1 > k - 1
  BY <1>1, <1>6, <1>7, SubSeqEmpty
<1>8. CASE j + 1 <= k - 1
  <2>1. j + 1 \in 1..Len(b) /\ k - 1 \in 1..Len(b)
    BY <1>1, <1>8
  <2>. QED
    BY <1>6, <2>1, SubSeqOfConcat1
<1>. QED
  BY <1>1, <1>7, <1>8

\* A part of a frame without a newline in it belongs to the line that has begun.
LEMMA PartGrows ==
  ASSUME NEW W \in Seq(Bytes), NEW C \in Seq(Bytes), NEW D \in Nat, Len(W) = D + Len(C),
         \A k \in 1..Len(C) : C[k] = W[D + k],
         NEW j, Opens(W, j, D + 1), NEW n \in 0..Len(C), \A k \in Newlines(C) : k > n
  PROVE  /\ Opens(W, j, D + n + 1)
         /\ AppendBounded(Clip(SubSeq(W, j + 1, D)), SubSeq(C, 1, n))
              = Clip(SubSeq(W, j + 1, D + n))
<1>1. Len(W) \in Nat /\ Len(C) \in Nat /\ n \in Nat /\ n <= Len(C)
  OBVIOUS
<1>3. j \in Nat /\ j <= D
  BY DEF Opens
<1>4. Opens(W, j, D + n + 1)
  <2>1. ASSUME NEW i \in Newlines(W), i < D + n + 1, i > D PROVE FALSE
    <3>0. i \in Nat /\ i <= Len(W) /\ W[i] = NL
      BY <1>1 DEF Newlines
    <3>1. i - D \in 1..Len(C) /\ D + (i - D) = i
      BY <1>1, <2>1, <3>0
    <3>2. i - D \in Newlines(C)
      BY <3>0, <3>1 DEF Newlines
    <3>3. i - D > n
      BY <3>2
    <3>. QED
      BY <1>1, <2>1, <3>0, <3>3
  <2>2. \A i \in Newlines(W) : i \in Nat
    BY DEF Newlines
  <2>3. \A i \in Newlines(W) : i < D + n + 1 => i < D + 1
    BY <1>1, <2>1, <2>2
  <2>4. j \in 0..(D + n + 1 - 1)
    BY <1>1, <1>3
  <2>. QED
    BY <2>3, <2>4 DEF Opens
<1>5. SubSeq(C, 1, n) = SubSeq(W, D + 1, D + n)
  <2>1. /\ SubSeq(C, 1, n) \in Seq(Bytes) /\ Len(SubSeq(C, 1, n)) = n
        /\ \A i \in 1..n : SubSeq(C, 1, n)[i] = C[i]
    <3>1. 1 \in 1..(Len(C) + 1) /\ n \in (1 - 1)..Len(C) /\ n - 1 + 1 = n
      BY <1>1
    <3>2. /\ SubSeq(C, 1, n) \in Seq(Bytes) /\ Len(SubSeq(C, 1, n)) = n - 1 + 1
          /\ \A i \in 1..(n - 1 + 1) : SubSeq(C, 1, n)[i] = C[1 + i - 1]
      BY <3>1, Slice
    <3>3. \A i \in 1..n : 1 + i - 1 = i
      OBVIOUS
    <3>. QED
      BY <3>1, <3>2, <3>3
  <2>2. /\ SubSeq(W, D + 1, D + n) \in Seq(Bytes) /\ Len(SubSeq(W, D + 1, D + n)) = n
        /\ \A i \in 1..n : SubSeq(W, D + 1, D + n)[i] = W[D + i]
    <3>1. D + 1 \in 1..(Len(W) + 1) /\ D + n \in (D + 1 - 1)..Len(W)
      BY <1>1
    <3>2. /\ SubSeq(W, D + 1, D + n) \in Seq(Bytes)
          /\ Len(SubSeq(W, D + 1, D + n)) = D + n - (D + 1) + 1
          /\ \A i \in 1..(D + n - (D + 1) + 1) : SubSeq(W, D + 1, D + n)[i] = W[D + 1 + i - 1]
      BY <3>1, Slice
    <3>3. D + n - (D + 1) + 1 = n /\ \A i \in 1..n : D + 1 + i - 1 = D + i
      BY <1>1
    <3>. QED
      BY <3>2, <3>3
  <2>3. \A i \in 1..n : C[i] = W[D + i]
    BY <1>1
  <2>4. \A i \in 1..n : SubSeq(C, 1, n)[i] = SubSeq(W, D + 1, D + n)[i]
    BY <2>1, <2>2, <2>3
  <2>. QED
    BY <2>1, <2>2, <2>4, SeqEqual
<1>6. SubSeq(W, j + 1, D) \o SubSeq(W, D + 1, D + n) = SubSeq(W, j + 1, D + n)
  <2>1. D + n \in Nat /\ D <= D + n /\ D + n <= Len(W)
    BY <1>1
  <2>. QED
    BY <1>3, <2>1, Adjacent
<1>7. SubSeq(W, j + 1, D) \in Seq(Bytes) /\ SubSeq(W, D + 1, D + n) \in Seq(Bytes)
  <2>1. j + 1 \in 1..(Len(W) + 1) /\ D \in (j + 1 - 1)..Len(W)
    BY <1>1, <1>3
  <2>2. D + 1 \in 1..(Len(W) + 1) /\ D + n \in (D + 1 - 1)..Len(W)
    BY <1>1
  <2>. QED
    BY <2>1, <2>2, Slice
<1>8. AppendBounded(Clip(SubSeq(W, j + 1, D)), SubSeq(C, 1, n)) = Clip(SubSeq(W, j + 1, D + n))
  BY <1>5, <1>6, <1>7, ClipExtends
<1>. QED
  BY <1>4, <1>8

Done(s) == Len(written[s]) - Len(chunk[s])

\* Where the lines have ended that the lineWriter has seen the whole of.
EndsOf(s) == {k \in Newlines(written[s]) : k <= Done(s)}

Nth(s, k) == PlaceIn(EndsOf(s), k)

Whole(s) == Len(lines[s]) - (IF s \in partial THEN 1 ELSE 0)

Given(b) == TrimCR(Clip(b))

LineValues == {TrimCR(b) : b \in Seq(Bytes)}

OutputType ==
  /\ wire \in [Streams -> Seq(Bytes)] /\ chunk \in [Streams -> Seq(Bytes)]
  /\ buf \in [Streams -> Seq(Bytes)] /\ written \in [Streams -> Seq(Bytes)]
  /\ lines \in [Streams -> Seq(LineValues)]
  /\ pump \in {"copy", "done"}
  /\ pump = "copy" => partial = {}
  /\ pump = "done" => \A s \in Streams : chunk[s] = <<>>

\* The frame at hand is the end of what was written.
ChunkInv(s) ==
  /\ Len(chunk[s]) <= Len(written[s])
  /\ \A k \in 1..Len(chunk[s]) : chunk[s][k] = written[s][Done(s) + k]

WholeInv(s) ==
  /\ Whole(s) = Cardinality(EndsOf(s))
  /\ \A k \in EndsOf(s) : \E j :
       /\ Opens(written[s], j, k)
       /\ lines[s][Nth(s, k)] = Given(SubSeq(written[s], j + 1, k - 1))

\* The buffer holds the line that has begun.
BegunInv(s) ==
  pump = "copy" =>
    \E j : /\ Opens(written[s], j, Done(s) + 1)
           /\ buf[s] = Clip(SubSeq(written[s], j + 1, Done(s)))

FlushInv(s) ==
  pump = "done" =>
    \E j : /\ Opens(written[s], j, Len(written[s]) + 1)
           /\ s \in partial <=> SubSeq(written[s], j + 1, Len(written[s])) # <<>>
           /\ s \in partial => lines[s][Whole(s) + 1]
                                 = Given(SubSeq(written[s], j + 1, Len(written[s])))

StreamInv(s) == ChunkInv(s) /\ WholeInv(s) /\ BegunInv(s) /\ FlushInv(s)

OutputInv == OutputType /\ \A s \in Streams : StreamInv(s)

LEMMA NthRange ==
  ASSUME OutputType, NEW s \in Streams
  PROVE  /\ IsFiniteSet(EndsOf(s)) /\ Cardinality(EndsOf(s)) \in Nat
         /\ \A k \in EndsOf(s) : Nth(s, k) \in 1..Cardinality(EndsOf(s))
<1>1. Len(written[s]) \in Nat
  BY DEF OutputType
<1>2. IsFiniteSet(1..Len(written[s]))
  BY <1>1, FS_Interval
<1>3. EndsOf(s) \in SUBSET (1..Len(written[s]))
  BY DEF EndsOf, Newlines
<1>4. IsFiniteSet(EndsOf(s)) /\ Cardinality(EndsOf(s)) \in Nat
  BY <1>2, <1>3, FS_Subset, FS_CardinalityType
<1>5. ASSUME NEW k \in EndsOf(s) PROVE Nth(s, k) \in 1..Cardinality(EndsOf(s))
  <2>1. EndsOf(s) \in SUBSET Nat
    BY <1>1, <1>3
  <2>. QED
    BY <1>4, <2>1, PlaceType DEF Nth
<1>. QED
  BY <1>4, <1>5

\* What the invariant says of the lines.
LEMMA InvMeansLines ==
  OutputInv => LinesAsWritten
<1>. SUFFICES ASSUME OutputInv, NEW s \in Streams
              PROVE  /\ Whole(s) = Cardinality(EndsOf(s))
                     /\ \A k \in EndsOf(s) :
                          lines[s][Nth(s, k)] = Bridged(LineEndingAt(written[s], k))
                     /\ pump = "done" =>
                          /\ s \in partial <=> Remainder(written[s]) # <<>>
                          /\ s \in partial =>
                               lines[s][Whole(s) + 1] = Bridged(Remainder(written[s]))
  BY DEF LinesAsWritten, Whole, EndsOf, Done, Nth
<1>1. written[s] \in Seq(Bytes) /\ Len(written[s]) \in Nat
  BY DEF OutputInv, OutputType
<1>2. ASSUME NEW k \in EndsOf(s)
      PROVE  lines[s][Nth(s, k)] = Bridged(LineEndingAt(written[s], k))
  <2>1. PICK j : /\ Opens(written[s], j, k)
                 /\ lines[s][Nth(s, k)] = Given(SubSeq(written[s], j + 1, k - 1))
    BY <1>2 DEF OutputInv, StreamInv, WholeInv
  <2>2. k \in 1..(Len(written[s]) + 1)
    BY <1>1 DEF EndsOf, Newlines
  <2>3. LineEndingAt(written[s], k) = SubSeq(written[s], j + 1, k - 1)
    BY <1>1, <2>1, <2>2, OpensLine
  <2>. QED
    BY <2>1, <2>3, Zenon DEF Bridged, Given, Clip
<1>3. ASSUME pump = "done"
      PROVE  /\ s \in partial <=> Remainder(written[s]) # <<>>
             /\ s \in partial => lines[s][Whole(s) + 1] = Bridged(Remainder(written[s]))
  <2>1. PICK j : /\ Opens(written[s], j, Len(written[s]) + 1)
                 /\ s \in partial <=> SubSeq(written[s], j + 1, Len(written[s])) # <<>>
                 /\ s \in partial => lines[s][Whole(s) + 1]
                                       = Given(SubSeq(written[s], j + 1, Len(written[s])))
    BY <1>3 DEF OutputInv, StreamInv, FlushInv
  <2>2. LineEndingAt(written[s], Len(written[s]) + 1)
          = SubSeq(written[s], j + 1, Len(written[s]) + 1 - 1)
    BY <1>1, <2>1, OpensLine
  <2>3. Len(written[s]) + 1 - 1 = Len(written[s])
    BY <1>1
  <2>4. Remainder(written[s]) = SubSeq(written[s], j + 1, Len(written[s]))
    BY <2>2, <2>3, Zenon DEF Remainder
  <2>. QED
    BY <2>1, <2>4, Zenon DEF Bridged, Given, Clip
<1>. QED
  BY <1>2, <1>3 DEF OutputInv, StreamInv, WholeInv

\* A stream that nothing happens to keeps its invariant.
LEMMA StreamSame ==
  ASSUME NEW s \in Streams, StreamInv(s), written'[s] = written[s], chunk'[s] = chunk[s],
         buf'[s] = buf[s], lines'[s] = lines[s], pump' = pump, partial' = partial
  PROVE  StreamInv(s)'
<1>1. Done(s)' = Done(s) /\ EndsOf(s)' = EndsOf(s) /\ Whole(s)' = Whole(s)
  BY DEF Done, EndsOf, Whole
<1>2. \A k : Nth(s, k)' = Nth(s, k)
  BY <1>1 DEF Nth
<1>. QED
  BY <1>1, <1>2 DEF StreamInv, ChunkInv, WholeInv, BegunInv, FlushInv

-----------------------------------------------------------------------------
(* The steps of the pump.                                                  *)

\* A frame comes to a lineWriter that has no other.
LEMMA FrameKeeps ==
  ASSUME OutputInv, NEW s \in Streams, NEW n \in Cuts, Frame(s, n)
  PROVE  OutputInv'
<1>. DEFINE f == SubSeq(wire[s], 1, n)
<1>1. /\ wire[s] \in Seq(Bytes) /\ written[s] \in Seq(Bytes) /\ chunk[s] = <<>>
      /\ pump = "copy" /\ pump' = "copy" /\ n \in Nat \ {0} /\ n <= Len(wire[s])
      /\ Len(wire[s]) \in Nat /\ Len(written[s]) \in Nat
  BY LineAssumption DEF OutputInv, OutputType, Frame, Idle
<1>2. f \in Seq(Bytes) /\ Len(f) = n
  BY <1>1, Slice
<1>3. SubSeq(wire[s], n + 1, Len(wire[s])) \in Seq(Bytes)
  BY <1>1, Slice
<1>4. /\ chunk' = [chunk EXCEPT ![s] = f] /\ written' = [written EXCEPT ![s] = @ \o f]
      /\ wire' = [wire EXCEPT ![s] = SubSeq(@, n + 1, Len(@))]
      /\ buf' = buf /\ lines' = lines /\ partial' = partial
  BY DEF Frame
<1>5. /\ written[s] \o f \in Seq(Bytes) /\ Len(written[s] \o f) = Len(written[s]) + n
      /\ \A k \in 1..n : (written[s] \o f)[Len(written[s]) + k] = f[k]
      /\ \A k \in 1..Len(written[s]) : (written[s] \o f)[k] = written[s][k]
  <2>. HIDE DEF f
  <2>. QED
    BY <1>1, <1>2, Joined
<1>. HIDE DEF f
<1>6. OutputType'
  BY <1>1, <1>2, <1>3, <1>4, <1>5 DEF OutputInv, OutputType
<1>7. chunk'[s] = f /\ written'[s] = written[s] \o f /\ buf'[s] = buf[s] /\ lines'[s] = lines[s]
  BY <1>4 DEF OutputInv, OutputType
<1>8. Done(s) = Len(written[s]) /\ Done(s)' = Len(written[s])
  BY <1>1, <1>2, <1>5, <1>7 DEF Done
<1>9. EndsOf(s)' = EndsOf(s)
  <2>1. \A k \in Nat : k \in 1..Len(written[s]) <=>
                        k \in 1..(Len(written[s]) + n) /\ k <= Len(written[s])
    BY <1>1
  <2>2. EndsOf(s)' = {k \in 1..(Len(written[s]) + n) :
                        (written[s] \o f)[k] = NL /\ k <= Len(written[s])}
    BY <1>5, <1>7, <1>8 DEF EndsOf, Newlines
  <2>3. EndsOf(s) = {k \in 1..Len(written[s]) : written[s][k] = NL /\ k <= Len(written[s])}
    BY <1>8 DEF EndsOf, Newlines
  <2>. QED
    BY <1>1, <1>5, <2>1, <2>2, <2>3
<1>10. Whole(s)' = Whole(s) /\ \A k : Nth(s, k)' = Nth(s, k)
  BY <1>4, <1>7, <1>9 DEF Whole, Nth
<1>11. ChunkInv(s)'
  <2>1. Len(f) <= Len(written[s] \o f)
    BY <1>1, <1>2, <1>5
  <2>. QED
    BY <1>2, <1>5, <1>7, <1>8, <2>1 DEF ChunkInv
<1>12. WholeInv(s)'
  <2>1. ASSUME NEW k \in EndsOf(s)
        PROVE  \E j : /\ Opens(written[s] \o f, j, k)
                      /\ lines[s][Nth(s, k)] = Given(SubSeq(written[s] \o f, j + 1, k - 1))
    <3>1. PICK j : /\ Opens(written[s], j, k)
                   /\ lines[s][Nth(s, k)] = Given(SubSeq(written[s], j + 1, k - 1))
      BY <2>1 DEF OutputInv, StreamInv, WholeInv
    <3>2. k \in 1..(Len(written[s]) + 1)
      BY <1>1 DEF EndsOf, Newlines
    <3>. QED
      BY <1>1, <1>2, <3>1, <3>2, OpensSame
  <2>2. Whole(s) = Cardinality(EndsOf(s))
    BY DEF OutputInv, StreamInv, WholeInv
  <2>. QED
    BY <1>7, <1>9, <1>10, <2>1, <2>2 DEF WholeInv
<1>13. BegunInv(s)'
  <2>1. PICK j : /\ Opens(written[s], j, Len(written[s]) + 1)
                 /\ buf[s] = Clip(SubSeq(written[s], j + 1, Len(written[s])))
    BY <1>1, <1>8 DEF OutputInv, StreamInv, BegunInv
  <2>2. PICK K \in 1..(Len(written[s]) + 1) : K = Len(written[s]) + 1
    BY <1>1
  <2>3. written[s] \in Seq(Bytes) /\ f \in Seq(Bytes) /\ Opens(written[s], j, K)
    BY <1>1, <1>2, <2>1, <2>2
  <2>4. /\ Opens(written[s] \o f, j, K)
        /\ SubSeq(written[s] \o f, j + 1, K - 1) = SubSeq(written[s], j + 1, K - 1)
    BY <2>3, OpensSame, Zenon
  <2>5. K - 1 = Len(written[s])
    BY <1>1, <2>2
  <2>6. buf'[s] = Clip(SubSeq(written'[s], j + 1, Done(s)')) /\ Opens(written'[s], j, Done(s)' + 1)
    BY <1>7, <1>8, <2>1, <2>2, <2>4, <2>5
  <2>. QED
    BY <2>6, Zenon DEF BegunInv
<1>14. FlushInv(s)'
  BY <1>1 DEF FlushInv
<1>15. ASSUME NEW t \in Streams, t # s PROVE StreamInv(t)'
  BY <1>1, <1>4, <1>15, StreamSame DEF OutputInv, OutputType
<1>. QED
  BY <1>6, <1>11, <1>12, <1>13, <1>14, <1>15 DEF OutputInv, StreamInv


LEMMA StreamBasics ==
  ASSUME OutputInv, NEW s \in Streams
  PROVE  /\ written[s] \in Seq(Bytes) /\ Len(written[s]) \in Nat
         /\ chunk[s] \in Seq(Bytes) /\ Len(chunk[s]) \in Nat
         /\ Done(s) \in Nat /\ Len(written[s]) = Done(s) + Len(chunk[s])
         /\ \A k \in 1..Len(chunk[s]) : chunk[s][k] = written[s][Done(s) + k]
<1>1. /\ written[s] \in Seq(Bytes) /\ Len(written[s]) \in Nat
      /\ chunk[s] \in Seq(Bytes) /\ Len(chunk[s]) \in Nat /\ Len(chunk[s]) <= Len(written[s])
      /\ \A k \in 1..Len(chunk[s]) : chunk[s][k] = written[s][Done(s) + k]
  BY DEF OutputInv, OutputType, StreamInv, ChunkInv
<1>2. Done(s) \in Nat /\ Len(written[s]) = Done(s) + Len(chunk[s])
  BY <1>1 DEF Done
<1>. QED
  BY <1>1, <1>2

\* The rest of a frame has no newline: no line ends with it.
LEMMA WriteRestKeeps ==
  ASSUME OutputInv, NEW s \in Streams, WriteRest(s)
  PROVE  OutputInv'
<1>. DEFINE W == written[s]
<1>. DEFINE C == chunk[s]
<1>. DEFINE D == Done(s)
<1>1. /\ W \in Seq(Bytes) /\ Len(W) \in Nat /\ C \in Seq(Bytes) /\ Len(C) \in Nat
      /\ D \in Nat /\ Len(W) = D + Len(C) /\ \A k \in 1..Len(C) : C[k] = W[D + k]
  BY StreamBasics
<1>2. pump = "copy"
  BY DEF OutputInv, OutputType, WriteRest
<1>3. PICK j : Opens(W, j, D + 1) /\ buf[s] = Clip(SubSeq(W, j + 1, D))
  BY <1>2 DEF OutputInv, StreamInv, BegunInv
<1>4. /\ chunk' = [chunk EXCEPT ![s] = <<>>] /\ buf' = [buf EXCEPT ![s] = AppendBounded(@, C)]
      /\ wire' = wire /\ lines' = lines /\ pump' = pump /\ written' = written
      /\ partial' = partial /\ Newlines(C) = {}
  BY DEF WriteRest
<1>5. /\ chunk'[s] = <<>> /\ buf'[s] = AppendBounded(buf[s], C) /\ lines'[s] = lines[s]
      /\ written'[s] = W
  BY <1>4 DEF OutputInv, OutputType
<1>6. Done(s)' = Len(W)
  BY <1>1, <1>5 DEF Done
<1>. HIDE DEF W, C, D
<1>7. Opens(W, j, Len(W) + 1) /\ AppendBounded(buf[s], C) = Clip(SubSeq(W, j + 1, Len(W)))
  <2>1. Len(C) \in 0..Len(C)
    BY <1>1
  <2>2. \A n \in 0..Len(C) :
          /\ Opens(W, j, D + n + 1)
          /\ AppendBounded(Clip(SubSeq(W, j + 1, D)), SubSeq(C, 1, n))
               = Clip(SubSeq(W, j + 1, D + n))
    BY <1>1, <1>3, <1>4, PartGrows
  <2>3. SubSeq(C, 1, Len(C)) = C
    BY <1>1, SubSeqFull
  <2>. QED
    BY <1>1, <1>3, <2>1, <2>2, <2>3, Zenon
<1>8. AppendBounded(buf[s], C) \in Seq(Bytes)
  <2>1. j + 1 \in 1..(Len(W) + 1) /\ Len(W) \in (j + 1 - 1)..Len(W)
    BY <1>1, <1>7 DEF Opens
  <2>2. SubSeq(W, j + 1, Len(W)) \in Seq(Bytes)
    BY <1>1, <2>1, Slice
  <2>. QED
    BY <1>7, <2>2, ClipFits
<1>9. OutputType'
  BY <1>2, <1>4, <1>8 DEF OutputInv, OutputType
<1>10. EndsOf(s)' = EndsOf(s)
  <2>1. ASSUME NEW k \in Newlines(W) PROVE k <= D
    <3>1. k \in Nat /\ k <= Len(W) /\ W[k] = NL
      BY <1>1, <2>1 DEF Newlines
    <3>2. SUFFICES ASSUME k > D PROVE FALSE
      BY <1>1, <3>1
    <3>3. k - D \in 1..Len(C) /\ D + (k - D) = k
      BY <1>1, <3>1, <3>2
    <3>4. k - D \in Newlines(C)
      BY <1>1, <3>1, <3>3 DEF Newlines
    <3>. QED
      BY <1>4, <3>4
  <2>2. \A k \in Newlines(W) : k <= Len(W)
    BY <1>1 DEF Newlines
  <2>. QED
    BY <1>5, <1>6, <2>1, <2>2 DEF EndsOf, W, D
<1>11. Whole(s)' = Whole(s) /\ \A k : Nth(s, k)' = Nth(s, k)
  BY <1>4, <1>5, <1>10 DEF Whole, Nth
<1>12. WholeInv(s)'
  BY <1>5, <1>10, <1>11 DEF OutputInv, StreamInv, WholeInv, W
<1>13. BegunInv(s)'
  BY <1>5, <1>6, <1>7 DEF BegunInv
<1>14. ChunkInv(s)' /\ FlushInv(s)'
  BY <1>1, <1>2, <1>4, <1>5 DEF ChunkInv, FlushInv
<1>15. ASSUME NEW t \in Streams, t # s PROVE StreamInv(t)'
  BY <1>4, <1>15, StreamSame DEF OutputInv, OutputType
<1>. QED
  BY <1>9, <1>12, <1>13, <1>14, <1>15 DEF OutputInv, StreamInv

\* A newline ends the line that has begun, and the next one begins empty.
LEMMA WriteLineKeeps ==
  ASSUME OutputInv, NEW s \in Streams, WriteLine(s)
  PROVE  OutputInv'
<1>. DEFINE W == written[s]
<1>. DEFINE C == chunk[s]
<1>. DEFINE D == Done(s)
<1>1. /\ W \in Seq(Bytes) /\ Len(W) \in Nat /\ C \in Seq(Bytes) /\ Len(C) \in Nat
      /\ D \in Nat /\ Len(W) = D + Len(C) /\ \A k \in 1..Len(C) : C[k] = W[D + k]
  BY StreamBasics
<1>2. PICK idx \in Newlines(C) :
        /\ \A k \in Newlines(C) : idx <= k
        /\ FlushLine(s, AppendBounded(buf[s], SubSeq(C, 1, idx - 1)))
        /\ chunk' = [chunk EXCEPT ![s] = SubSeq(@, idx + 1, Len(@))]
  BY DEF WriteLine
<1>. DEFINE rest == SubSeq(C, idx + 1, Len(C))
<1>. DEFINE line == AppendBounded(buf[s], SubSeq(C, 1, idx - 1))
<1>3. idx \in 1..Len(C) /\ C[idx] = NL /\ idx - 1 \in 0..Len(C)
  BY <1>1 DEF Newlines
<1>4. pump = "copy" /\ partial = {}
  BY <1>3, <1>1 DEF OutputInv, OutputType
<1>5. /\ chunk' = [chunk EXCEPT ![s] = rest] /\ buf' = [buf EXCEPT ![s] = <<>>]
      /\ lines' = [lines EXCEPT ![s] = Append(@, TrimCR(line))]
      /\ wire' = wire /\ pump' = pump /\ written' = written /\ partial' = partial
  BY <1>2 DEF WriteLine, FlushLine
<1>6. /\ chunk'[s] = rest /\ buf'[s] = <<>> /\ lines'[s] = Append(lines[s], TrimCR(line))
      /\ written'[s] = W
  BY <1>5 DEF OutputInv, OutputType
<1>7. /\ rest \in Seq(Bytes) /\ Len(rest) = Len(C) - idx
      /\ \A k \in 1..(Len(C) - idx) : rest[k] = C[idx + k]
  BY <1>1, <1>3, Rest
<1>8. PICK m \in Nat : m = D + idx
  BY <1>1, <1>3
<1>9. Done(s)' = m /\ m <= Len(W) /\ m >= 1 /\ m > D /\ W[m] = NL
  <2>1. Done(s)' = Len(W) - Len(rest)
    BY <1>6 DEF Done
  <2>2. Len(W) - (Len(C) - idx) = m
    BY <1>1, <1>3, <1>8
  <2>3. C[idx] = W[D + idx]
    BY <1>1, <1>3
  <2>4. Done(s)' = m
    BY <1>7, <2>1, <2>2, Zenon
  <2>5. W[m] = NL
    BY <1>3, <1>8, <2>3, Zenon
  <2>6. m <= Len(W) /\ m >= 1 /\ m > D
    BY <1>1, <1>3, <1>8
  <2>. QED
    BY <2>4, <2>5, <2>6
<1>10. PICK j : Opens(W, j, D + 1) /\ buf[s] = Clip(SubSeq(W, j + 1, D))
  BY <1>4 DEF OutputInv, StreamInv, BegunInv
<1>. HIDE DEF W, C, D, rest
<1>11. Opens(W, j, m) /\ line = Clip(SubSeq(W, j + 1, m - 1))
  <2>1. \A k \in Newlines(C) : k > idx - 1
    BY <1>2, <1>3 DEF Newlines
  <2>2. PICK n \in 0..Len(C) : n = idx - 1
    BY <1>3
  <2>3. \A k \in Newlines(C) : k > n
    BY <2>1, <2>2
  <2>4. /\ Opens(W, j, D + n + 1)
        /\ AppendBounded(Clip(SubSeq(W, j + 1, D)), SubSeq(C, 1, n))
             = Clip(SubSeq(W, j + 1, D + n))
    BY <1>1, <1>10, <2>3, PartGrows
  <2>5. D + n + 1 = m /\ D + n = m - 1
    BY <1>1, <1>3, <1>8, <2>2
  <2>. QED
    BY <1>10, <2>2, <2>4, <2>5
<1>12. SubSeq(W, j + 1, m - 1) \in Seq(Bytes)
  <2>1. j + 1 \in 1..(Len(W) + 1) /\ m - 1 \in (j + 1 - 1)..Len(W)
    BY <1>1, <1>9, <1>11 DEF Opens
  <2>. QED
    BY <1>1, <2>1, Slice
<1>13. line \in Seq(Bytes)
  BY <1>11, <1>12, ClipFits
<1>. HIDE DEF line
<1>14. OutputType'
  <2>1. TrimCR(line) \in LineValues
    BY <1>13 DEF LineValues
  <2>. QED
    BY <1>4, <1>5, <1>7, <2>1 DEF OutputInv, OutputType
<1>15. EndsOf(s)' = EndsOf(s) \cup {m} /\ \A k \in EndsOf(s) : k \in Nat /\ k < m
  <2>1. ASSUME NEW k \in Newlines(W), k > D, k <= m PROVE k = m
    <3>1. k \in Nat /\ k <= Len(W) /\ W[k] = NL
      BY <1>1, <2>1 DEF Newlines
    <3>2. k - D \in 1..Len(C) /\ D + (k - D) = k
      BY <1>1, <2>1, <3>1
    <3>3. k - D \in Newlines(C)
      BY <1>1, <3>1, <3>2 DEF Newlines
    <3>4. idx <= k - D
      BY <1>2, <3>3
    <3>. QED
      BY <1>1, <1>3, <1>8, <2>1, <3>1, <3>4
  <2>2. m \in Newlines(W) /\ \A k \in Newlines(W) : k \in Nat
    BY <1>1, <1>9 DEF Newlines
  <2>3. EndsOf(s)' = {k \in Newlines(W) : k <= m} /\ EndsOf(s) = {k \in Newlines(W) : k <= D}
    BY <1>6, <1>9 DEF EndsOf, W, D
  <2>. QED
    <3>1. ASSUME NEW k \in Newlines(W) PROVE k <= m <=> k <= D \/ k = m
      BY <1>1, <1>9, <2>1, <2>2
    <3>2. {k \in Newlines(W) : k <= m} = {k \in Newlines(W) : k <= D} \cup {m}
      BY <1>9, <2>2, <3>1
    <3>3. \A k \in EndsOf(s) : k \in Nat /\ k < m
      <4>1. \A k \in EndsOf(s) : k \in Nat /\ k <= D
        BY <2>2, <2>3
      <4>. QED
        BY <1>1, <1>9, <4>1
    <3>. QED
      BY <2>3, <3>2, <3>3
<1>16. /\ IsFiniteSet(EndsOf(s)) /\ Cardinality(EndsOf(s)) \in Nat
       /\ \A k \in EndsOf(s) : Nth(s, k) \in 1..Cardinality(EndsOf(s))
  BY NthRange DEF OutputInv
<1>17. Cardinality(EndsOf(s) \cup {m}) = Cardinality(EndsOf(s)) + 1
  <2>1. m \notin EndsOf(s)
    BY <1>15
  <2>. QED
    BY <1>16, <2>1, FS_AddElement
<1>18. /\ lines[s] \in Seq(LineValues) /\ Len(lines[s]) = Cardinality(EndsOf(s))
       /\ Len(lines'[s]) = Len(lines[s]) + 1
       /\ \A i \in 1..Len(lines[s]) : lines'[s][i] = lines[s][i]
       /\ lines'[s][Len(lines[s]) + 1] = TrimCR(line)
  <2>1. lines[s] \in Seq(LineValues) /\ Len(lines[s]) \in Nat
    BY DEF OutputInv, OutputType
  <2>2. Len(lines[s]) = Cardinality(EndsOf(s))
    BY <1>4, <2>1 DEF OutputInv, StreamInv, WholeInv, Whole
  <2>. QED
    BY <1>6, <2>1, <2>2
<1>19. EndsOf(s) \in SUBSET Nat /\ \A k \in EndsOf(s) : k < m
  BY <1>15
<1>20. /\ Nth(s, m)' = Cardinality(EndsOf(s)) + 1
       /\ \A k \in EndsOf(s) : Nth(s, k)' = Nth(s, k)
  <2>1. /\ PlaceIn(EndsOf(s) \cup {m}, m) = Cardinality(EndsOf(s)) + 1
        /\ \A k \in EndsOf(s) : PlaceIn(EndsOf(s) \cup {m}, k) = PlaceIn(EndsOf(s), k)
    BY <1>8, <1>16, <1>19, PlaceAppends
  <2>2. \A k : Nth(s, k)' = PlaceIn(EndsOf(s) \cup {m}, k)
    <3>1. \A k : Nth(s, k)' = PlaceIn(EndsOf(s)', k)
      BY DEF Nth, PlaceIn
    <3>. QED
      BY <1>15, <3>1, Zenon
  <2>. QED
    BY <2>1, <2>2 DEF Nth
<1>21. WholeInv(s)'
  <2>1. Whole(s)' = Cardinality(EndsOf(s)')
    <3>1. Whole(s)' = Len(lines'[s]) - (IF s \in partial' THEN 1 ELSE 0)
      BY DEF Whole
    <3>2. s \notin partial'
      BY <1>4, <1>5
    <3>3. Whole(s)' = Len(lines'[s])
      BY <1>16, <1>18, <3>1, <3>2
    <3>. QED
      BY <1>15, <1>17, <1>18, <3>3
  <2>2. ASSUME NEW k \in EndsOf(s)
        PROVE  \E i : /\ Opens(W, i, k)
                      /\ lines'[s][Nth(s, k)'] = Given(SubSeq(W, i + 1, k - 1))
    <3>1. PICK i : Opens(W, i, k) /\ lines[s][Nth(s, k)] = Given(SubSeq(W, i + 1, k - 1))
      BY <2>2 DEF OutputInv, StreamInv, WholeInv, W
    <3>2. lines'[s][Nth(s, k)'] = lines[s][Nth(s, k)]
      BY <1>16, <1>18, <1>20, <2>2
    <3>. QED
      BY <3>1, <3>2
  <2>3. Opens(W, j, m) /\ lines'[s][Nth(s, m)'] = Given(SubSeq(W, j + 1, m - 1))
    BY <1>11, <1>18, <1>20 DEF Given
  <2>4. \A k \in EndsOf(s)' : \E i :
          /\ Opens(W, i, k)
          /\ lines'[s][Nth(s, k)'] = Given(SubSeq(W, i + 1, k - 1))
    BY <1>15, <2>2, <2>3, Zenon
  <2>. QED
    BY <1>6, <2>1, <2>4, Zenon DEF WholeInv
<1>22. BegunInv(s)'
  <2>1. Opens(W, m, m + 1)
    BY <1>1, <1>9 DEF Opens, Newlines
  <2>2. SubSeq(W, m + 1, m) = <<>>
    BY SubSeqEmpty
  <2>3. Clip(<<>>) = <<>>
    BY ClipFits, EmptySeq
  <2>. QED
    BY <1>6, <1>9, <2>1, <2>2, <2>3 DEF BegunInv
<1>23. ChunkInv(s)'
  <2>1. ASSUME NEW k \in 1..(Len(C) - idx) PROVE rest[k] = W[m + k]
    <3>1. idx + k \in 1..Len(C) /\ D + (idx + k) = m + k
      BY <1>1, <1>3, <1>8
    <3>. QED
      BY <1>1, <1>7, <3>1
  <2>2. Len(rest) <= Len(W)
    BY <1>1, <1>3, <1>7
  <2>. QED
    BY <1>6, <1>7, <1>9, <2>1, <2>2 DEF ChunkInv
<1>24. FlushInv(s)'
  BY <1>4, <1>5 DEF FlushInv
<1>25. ASSUME NEW t \in Streams, t # s PROVE StreamInv(t)'
  BY <1>5, <1>25, StreamSame DEF OutputInv, OutputType
<1>. QED
  BY <1>14, <1>21, <1>22, <1>23, <1>24, <1>25 DEF OutputInv, StreamInv

\* The connection ends between two frames; what has begun is given out as it is.
LEMMA StreamEndsKeeps ==
  ASSUME OutputInv, StreamEnds
  PROVE  OutputInv'
<1>1. /\ pump = "copy" /\ pump' = "done" /\ partial = {} /\ chunk' = chunk /\ wire' = wire
      /\ written' = written /\ buf' = [s \in Streams |-> <<>>]
      /\ partial' = {s \in Streams : buf[s] # <<>>}
      /\ \A s \in Streams : chunk[s] = <<>>
      /\ lines' = [s \in Streams |->
                     IF s \in partial' THEN Append(lines[s], TrimCR(buf[s])) ELSE lines[s]]
  BY DEF OutputInv, OutputType, StreamEnds, Idle
<1>2. OutputType'
  <2>1. \A s \in Streams : TrimCR(buf[s]) \in LineValues
    BY DEF OutputInv, OutputType, LineValues
  <2>2. lines' \in [Streams -> Seq(LineValues)]
    BY <1>1, <2>1 DEF OutputInv, OutputType
  <2>3. <<>> \in Seq(Bytes)
    BY EmptySeq
  <2>. QED
    BY <1>1, <2>2, <2>3 DEF OutputInv, OutputType
<1>3. ASSUME NEW s \in Streams PROVE StreamInv(s)'
  <2>. DEFINE W == written[s]
  <2>1. W \in Seq(Bytes) /\ Len(W) \in Nat /\ chunk[s] = <<>> /\ Len(chunk[s]) = 0
    BY <1>1, StreamBasics
  <2>2. Done(s) = Len(W) /\ Done(s)' = Len(W) /\ EndsOf(s)' = EndsOf(s)
    BY <1>1, <2>1 DEF Done, EndsOf
  <2>3. \A k : Nth(s, k)' = Nth(s, k)
    BY <2>2 DEF Nth
  <2>4. lines[s] \in Seq(LineValues) /\ Len(lines[s]) \in Nat
        /\ lines'[s] = IF s \in partial' THEN Append(lines[s], TrimCR(buf[s])) ELSE lines[s]
    BY <1>1 DEF OutputInv, OutputType
  <2>5. Whole(s) = Len(lines[s]) /\ Whole(s)' = Len(lines[s])
    <3>1. Whole(s) = Len(lines[s])
      BY <1>1, <2>4 DEF Whole
    <3>2. CASE s \in partial'
      <4>1. Len(lines'[s]) = Len(lines[s]) + 1
        BY <2>4, <3>2
      <4>2. Whole(s)' = Len(lines'[s]) - 1
        BY <3>2 DEF Whole
      <4>. QED
        BY <2>4, <3>1, <4>1, <4>2
    <3>3. CASE s \notin partial'
      <4>1. Whole(s)' = Len(lines'[s]) - 0
        BY <3>3 DEF Whole
      <4>. QED
        BY <2>4, <3>1, <3>3, <4>1
    <3>. QED
      BY <3>2, <3>3
  <2>6. /\ \A k \in 1..Len(lines[s]) : lines'[s][k] = lines[s][k]
        /\ s \in partial' => lines'[s][Len(lines[s]) + 1] = TrimCR(buf[s])
    BY <2>4
  <2>7. PICK j : Opens(W, j, Len(W) + 1) /\ buf[s] = Clip(SubSeq(W, j + 1, Len(W)))
    BY <1>1, <2>2 DEF OutputInv, StreamInv, BegunInv
  <2>8. SubSeq(W, j + 1, Len(W)) \in Seq(Bytes)
    <3>1. j \in 0..Len(W)
      BY <2>1, <2>7 DEF Opens
    <3>. QED
      BY <2>1, <3>1, Rest
  <2>9. s \in partial' <=> SubSeq(W, j + 1, Len(W)) # <<>>
    BY <1>1, <2>7, <2>8, ClipFits
  <2>10. FlushInv(s)'
    <3>1. written'[s] = W
      BY <1>1
    <3>2. s \in partial' => lines'[s][Whole(s)' + 1] = Given(SubSeq(W, j + 1, Len(W)))
      BY <2>5, <2>6, <2>7 DEF Given
    <3>. QED
      BY <2>7, <2>9, <3>1, <3>2, Zenon DEF FlushInv
  <2>11. ChunkInv(s)' /\ BegunInv(s)'
    BY <1>1, <2>1 DEF ChunkInv, BegunInv
  <2>12. WholeInv(s)'
    <3>1. Len(lines[s]) = Cardinality(EndsOf(s))
      BY <2>5 DEF OutputInv, StreamInv, WholeInv
    <3>2. \A k \in EndsOf(s) : lines'[s][Nth(s, k)] = lines[s][Nth(s, k)]
      BY <2>6, <3>1, NthRange DEF OutputInv
    <3>. QED
      BY <1>1, <2>2, <2>3, <2>5, <3>1, <3>2 DEF OutputInv, StreamInv, WholeInv
  <2>. QED
    BY <2>10, <2>11, <2>12 DEF StreamInv
<1>. QED
  BY <1>2, <1>3 DEF OutputInv

-----------------------------------------------------------------------------
(* The steps of the worker.                                                *)

\* What the worker writes only lengthens what is on the wire.
LEMMA WorkerKeeps ==
  ASSUME OutputInv, wire' \in [Streams -> Seq(Bytes)], UNCHANGED pumpVars
  PROVE  OutputInv'
<1>1. OutputType'
  BY DEF OutputInv, OutputType, pumpVars
<1>2. \A s \in Streams : StreamInv(s)'
  BY StreamSame DEF OutputInv, pumpVars
<1>. QED
  BY <1>1, <1>2 DEF OutputInv

LEMMA EmitKeeps ==
  ASSUME OutputInv, NEW e \in Events, Emit(e)
  PROVE  OutputInv'
<1>1. EventLine(e) \in Seq(Bytes)
  <2>1. EventSize[e] \in Nat /\ e \in Bytes /\ NL \in Bytes
    BY EventAssumption, BytesAssumption
  <2>2. [k \in 1..EventSize[e] |-> e] \in Seq(Bytes)
    BY <2>1
  <2>3. <<NL>> \in Seq(Bytes)
    BY <2>1
  <2>. QED
    BY <2>2, <2>3, ConcatProperties DEF EventLine, EventText
<1>2. wire["out"] \o EventLine(e) \in Seq(Bytes)
  BY <1>1, ConcatProperties DEF OutputInv, OutputType, Streams
<1>3. wire' \in [Streams -> Seq(Bytes)]
  BY <1>2 DEF Emit, OutputInv, OutputType, Streams
<1>. QED
  BY <1>3, WorkerKeeps DEF Emit

LEMMA StderrKeeps ==
  ASSUME OutputInv, NEW x \in StderrTexts, WriteStderr(x)
  PROVE  OutputInv'
<1>1. wire["err"] \o x \in Seq(Bytes)
  BY BytesAssumption, ConcatProperties DEF OutputInv, OutputType, Streams
<1>2. wire' \in [Streams -> Seq(Bytes)]
  BY <1>1 DEF WriteStderr, OutputInv, OutputType, Streams
<1>. QED
  BY <1>2, WorkerKeeps DEF WriteStderr

LEMMA ChatStepOutput ==
  ASSUME ChatStep
  PROVE  UNCHANGED outputVars \/ \E e \in Events : Emit(e)
<1>. USE DEF Events
<1>1. CASE LoadResume
  BY <1>1 DEF LoadResume, OpenResume, ScanTurn, ScanFails, ScanEnds
<1>2. CASE StartEpoch \/ UserSpeaks
  BY <1>2 DEF StartEpoch, UserSpeaks
<1>3. CASE Send \/ Resend \/ ReturnRejection \/ ReturnError \/ DropReplay
  BY <1>3 DEF Send, Resend, ReturnRejection, ReturnError, DropReplay
<1>4. CASE Reply \/ ToolCall \/ GiveUp
  BY <1>4 DEF Reply, ToolCall, GiveUp
<1>. QED
  BY <1>1, <1>2, <1>3, <1>4 DEF ChatStep

LEMMA OutputInvariant == Spec => []OutputInv
<1>1. Init => OutputInv
  <2>. SUFFICES ASSUME Init PROVE OutputInv
    OBVIOUS
  <2>1. OutputType
    BY EmptySeq DEF Init, NewOutput, OutputType
  <2>2. ASSUME NEW s \in Streams PROVE StreamInv(s)
    <3>1. /\ written[s] = <<>> /\ chunk[s] = <<>> /\ lines[s] = <<>> /\ buf[s] = <<>>
          /\ pump = "copy" /\ partial = {}
      BY <2>2 DEF Init, NewOutput
    <3>2. Done(s) = 0
      BY <3>1 DEF Done
    <3>3. Newlines(written[s]) = {} /\ EndsOf(s) = {}
      BY <3>1 DEF Newlines, EndsOf
    <3>4. Whole(s) = 0
      BY <3>1 DEF Whole
    <3>5. WholeInv(s)
      BY <3>3, <3>4, FS_EmptySet DEF WholeInv
    <3>6. Opens(written[s], 0, 0 + 1)
      BY <3>3 DEF Opens
    <3>7. Clip(SubSeq(written[s], 0 + 1, 0)) = <<>>
      <4>1. SubSeq(written[s], 0 + 1, 0) = <<>>
        BY <3>1
      <4>2. Clip(<<>>) = <<>>
        BY ClipFits, EmptySeq
      <4>. QED
        BY <4>1, <4>2, Zenon
    <3>8. BegunInv(s)
      BY <3>1, <3>2, <3>6, <3>7, Zenon DEF BegunInv
    <3>9. ChunkInv(s) /\ FlushInv(s)
      BY <3>1 DEF ChunkInv, FlushInv
    <3>. QED
      BY <3>5, <3>8, <3>9 DEF StreamInv
  <2>. QED
    BY <2>1, <2>2 DEF OutputInv
<1>2. OutputInv /\ [Next]_vars => OutputInv'
  <2>. SUFFICES ASSUME OutputInv, [Next]_vars PROVE OutputInv'
    OBVIOUS
  <2>1. CASE UNCHANGED outputVars
    BY <2>1, WorkerKeeps DEF outputVars, pumpVars, OutputInv, OutputType
  <2>2. CASE ChatStep
    BY <2>1, <2>2, ChatStepOutput, EmitKeeps
  <2>3. CASE \E x \in StderrTexts : WriteStderr(x)
    BY <2>3, StderrKeeps
  <2>4. CASE PumpStep
    BY <2>4, FrameKeeps, WriteLineKeeps, WriteRestKeeps DEF PumpStep
  <2>5. CASE StreamEnds
    BY <2>5, StreamEndsKeeps
  <2>6. CASE UNCHANGED vars
    BY <2>1, <2>6 DEF vars
  <2>. QED
    BY <2>2, <2>3, <2>4, <2>5, <2>6 DEF Next
<1>. QED
  BY <1>1, <1>2, PTL DEF Spec

(***************************************************************************)
(* However the output is cut into frames, whatever the bound of a line and *)
(* whatever the worker writes, the log bridge gets each stream's lines as  *)
(* they were written.                                                      *)
(***************************************************************************)
THEOREM LinesAsWrittenCorrect == Spec => []LinesAsWritten
BY OutputInvariant, InvMeansLines, PTL

-----------------------------------------------------------------------------
(* The lines of stdout are those of the events.                            *)

\* All that has been written to stdout.
Stdout == written["out"] \o wire["out"]

\* The newlines in b are those of the shown events of es, in their order.
Transcribes(b, es) ==
  LET shown == {k \in 1..Len(es) : es[k] # "board"}
  IN /\ Cardinality(Newlines(b)) = Cardinality(shown)
     /\ \A m \in Newlines(b), k \in shown :
          PlaceIn(Newlines(b), m) = PlaceIn(shown, k) =>
            \E j : Opens(b, j, m) /\ SubSeq(b, j + 1, m - 1) = EventText(es[k])
     /\ Len(b) = 0 \/ Len(b) \in Newlines(b)

TranscriptInv == emitted \in Seq(Events) /\ Transcribes(Stdout, emitted)

LEMMA Regrouped ==
  ASSUME NEW a \in Seq(Bytes), NEW b \in Seq(Bytes), NEW c \in Seq(Bytes)
  PROVE  (a \o b) \o c = a \o (b \o c)
BY ConcatAssociative

LEMMA FiniteNewlines ==
  ASSUME NEW b \in Seq(Bytes)
  PROVE  Newlines(b) \in SUBSET Nat /\ IsFiniteSet(Newlines(b))
<1>1. Newlines(b) \in SUBSET (1..Len(b)) /\ Len(b) \in Nat
  BY DEF Newlines
<1>2. IsFiniteSet(1..Len(b))
  BY <1>1, FS_Interval
<1>3. IsFiniteSet(Newlines(b))
  BY <1>1, <1>2, FS_Subset
<1>. QED
  BY <1>1, <1>3

LEMMA FiniteShown ==
  ASSUME NEW es \in Seq(Events)
  PROVE  /\ {k \in 1..Len(es) : es[k] # "board"} \in SUBSET Nat
         /\ IsFiniteSet({k \in 1..Len(es) : es[k] # "board"})
<1>. DEFINE T == {k \in 1..Len(es) : es[k] # "board"}
<1>1. T \in SUBSET (1..Len(es)) /\ Len(es) \in Nat
  OBVIOUS
<1>. HIDE DEF T
<1>2. IsFiniteSet(1..Len(es))
  BY <1>1, FS_Interval
<1>3. IsFiniteSet(T)
  BY <1>1, <1>2, FS_Subset
<1>4. T \in SUBSET Nat /\ IsFiniteSet(T)
  BY <1>1, <1>3
<1>. QED
  BY <1>4 DEF T

LEMMA EventLineIs ==
  ASSUME NEW e \in Events
  PROVE  /\ EventText(e) \in Seq(Bytes) /\ Len(EventText(e)) = EventSize[e]
         /\ EventLine(e) \in Seq(Bytes) /\ Len(EventLine(e)) = EventSize[e] + 1
         /\ \A i \in 1..EventSize[e] : EventLine(e)[i] = EventText(e)[i] /\ EventLine(e)[i] # NL
         /\ EventLine(e)[EventSize[e] + 1] = NL /\ EventSize[e] \in Nat
<1>1. EventSize[e] \in Nat /\ e \in Bytes /\ NL \in Bytes /\ e # NL
  BY EventAssumption, BytesAssumption
<1>2. /\ EventText(e) \in Seq(Bytes) /\ Len(EventText(e)) = EventSize[e]
      /\ \A i \in 1..EventSize[e] : EventText(e)[i] = e
  BY <1>1 DEF EventText
<1>3. <<NL>> \in Seq(Bytes) /\ Len(<<NL>>) = 1 /\ <<NL>>[1] = NL
  BY <1>1
<1>4. /\ EventLine(e) \in Seq(Bytes) /\ Len(EventLine(e)) = Len(EventText(e)) + Len(<<NL>>)
      /\ \A i \in 1..Len(EventText(e)) : EventLine(e)[i] = EventText(e)[i]
      /\ \A i \in 1..Len(<<NL>>) : EventLine(e)[Len(EventText(e)) + i] = <<NL>>[i]
  <2>. DEFINE t == EventText(e)
  <2>. DEFINE l == <<NL>>
  <2>1. t \in Seq(Bytes) /\ l \in Seq(Bytes)
    BY <1>2, <1>3
  <2>. HIDE DEF t, l
  <2>2. /\ t \o l \in Seq(Bytes) /\ Len(t \o l) = Len(t) + Len(l)
        /\ \A i \in 1..Len(t) : (t \o l)[i] = t[i]
        /\ \A i \in 1..Len(l) : (t \o l)[Len(t) + i] = l[i]
    BY <2>1, Joined
  <2>. QED
    BY <2>2, Zenon DEF t, l, EventLine
<1>5. 1 \in 1..Len(<<NL>>)
  BY <1>3
<1>6. EventLine(e)[Len(EventText(e)) + 1] = NL
  BY <1>3, <1>4, <1>5, Zenon
<1>7. Len(EventLine(e)) = EventSize[e] + 1 /\ EventLine(e)[EventSize[e] + 1] = NL
  BY <1>2, <1>3, <1>4, <1>6, Zenon
<1>. QED
  BY <1>1, <1>2, <1>4, <1>7

\* An event that is shown adds its line to the end.
LEMMA ShownEventTranscribes ==
  ASSUME NEW b \in Seq(Bytes), NEW es \in Seq(Events), NEW e \in Events, e # "board",
         Transcribes(b, es)
  PROVE  Transcribes(b \o EventLine(e), Append(es, e))
<1>. DEFINE line == EventLine(e)
<1>. DEFINE c == b \o line
<1>. DEFINE n == EventSize[e]
<1>. DEFINE last == Len(b) + n + 1
<1>. DEFINE fs == Append(es, e)
<1>. DEFINE old == {k \in 1..Len(es) : es[k] # "board"}
<1>. DEFINE new == {k \in 1..Len(fs) : fs[k] # "board"}
<1>1. /\ line \in Seq(Bytes) /\ Len(line) = n + 1 /\ n \in Nat /\ line[n + 1] = NL
      /\ \A i \in 1..n : line[i] = EventText(e)[i] /\ line[i] # NL
      /\ EventText(e) \in Seq(Bytes) /\ Len(EventText(e)) = n
  BY EventLineIs
<1>. HIDE DEF line, n
<1>2. /\ c \in Seq(Bytes) /\ Len(c) = last /\ Len(b) \in Nat /\ last \in Nat
      /\ \A k \in 1..Len(b) : c[k] = b[k]
      /\ \A k \in 1..Len(line) : c[Len(b) + k] = line[k]
  BY <1>1, Joined
<1>3. Len(es) \in Nat /\ Len(fs) = Len(es) + 1 /\ fs[Len(es) + 1] = e
      /\ \A k \in 1..Len(es) : fs[k] = es[k]
  BY AppendProperties
<1>. HIDE DEF c, fs
<1>4. Newlines(c) = Newlines(b) \cup {last} /\ \A k \in Newlines(b) : k \in 1..Len(b) /\ k < last
  <2>1. ASSUME NEW k \in Nat, k > Len(b), k < last PROVE c[k] # NL
    <3>1. k - Len(b) \in 1..n /\ k - Len(b) \in 1..Len(line) /\ Len(b) + (k - Len(b)) = k
      BY <1>1, <1>2, <2>1
    <3>. QED
      BY <1>1, <1>2, <3>1
  <2>2. c[last] = NL
    <3>1. n + 1 \in 1..Len(line) /\ last = Len(b) + (n + 1)
      BY <1>1, <1>2
    <3>. QED
      BY <1>1, <1>2, <3>1
  <2>3. \A k \in Newlines(b) : k \in 1..Len(b) /\ k < last /\ k \in Newlines(c)
    BY <1>1, <1>2 DEF Newlines
  <2>4. last \in Newlines(c)
    BY <1>1, <1>2, <2>2 DEF Newlines
  <2>5. ASSUME NEW k \in Newlines(c) PROVE k \in Newlines(b) \cup {last}
    <3>1. k \in Nat /\ k >= 1 /\ k <= last /\ c[k] = NL
      BY <1>2 DEF Newlines
    <3>2. k <= Len(b) \/ k = last
      BY <1>2, <2>1, <3>1
    <3>. QED
      BY <1>2, <3>1, <3>2 DEF Newlines
  <2>. QED
    BY <2>3, <2>4, <2>5
<1>5. new = old \cup {Len(es) + 1} /\ \A k \in old : k \in 1..Len(es) /\ k < Len(es) + 1
  BY <1>3
<1>6. /\ Newlines(b) \in SUBSET Nat /\ IsFiniteSet(Newlines(b))
      /\ old \in SUBSET Nat /\ IsFiniteSet(old)
      /\ Cardinality(Newlines(b)) = Cardinality(old)
  BY FiniteNewlines, FiniteShown DEF Transcribes
<1>. HIDE DEF old, new, last
<1>7. /\ Cardinality(Newlines(c)) = Cardinality(Newlines(b)) + 1
      /\ PlaceIn(Newlines(c), last) = Cardinality(Newlines(b)) + 1
      /\ \A m \in Newlines(b) : PlaceIn(Newlines(c), m) = PlaceIn(Newlines(b), m)
                                /\ PlaceIn(Newlines(b), m) \in 1..Cardinality(Newlines(b))
  <2>1. \A m \in Newlines(b) : PlaceIn(Newlines(b), m) \in 1..Cardinality(Newlines(b))
    BY <1>6, PlaceType
  <2>2. \A m \in Newlines(b) : m < last
    BY <1>4
  <2>3. last \in Nat
    BY <1>2
  <2>4. /\ Cardinality(Newlines(b) \cup {last}) = Cardinality(Newlines(b)) + 1
        /\ PlaceIn(Newlines(b) \cup {last}, last) = Cardinality(Newlines(b)) + 1
        /\ \A m \in Newlines(b) :
             PlaceIn(Newlines(b) \cup {last}, m) = PlaceIn(Newlines(b), m)
    BY <1>6, <2>2, <2>3, PlaceAppends
  <2>. QED
    BY <1>4, <2>1, <2>4, Zenon
<1>8. /\ Cardinality(new) = Cardinality(old) + 1
      /\ PlaceIn(new, Len(es) + 1) = Cardinality(old) + 1
      /\ \A k \in old : PlaceIn(new, k) = PlaceIn(old, k)
                        /\ PlaceIn(old, k) \in 1..Cardinality(old)
  <2>. DEFINE o == Len(es) + 1
  <2>1. \A k \in old : PlaceIn(old, k) \in 1..Cardinality(old)
    BY <1>6, PlaceType
  <2>2. o \in Nat /\ \A k \in old : k < o
    BY <1>3, <1>5
  <2>. HIDE DEF o
  <2>3. /\ Cardinality(old \cup {o}) = Cardinality(old) + 1
        /\ PlaceIn(old \cup {o}, o) = Cardinality(old) + 1
        /\ \A k \in old : PlaceIn(old \cup {o}, k) = PlaceIn(old, k)
    BY <1>6, <2>2, PlaceAppends
  <2>. QED
    BY <1>5, <2>1, <2>3, Zenon DEF o
<1>9. Cardinality(old) \in Nat
  BY <1>6, FS_CardinalityType
<1>10. ASSUME NEW m \in Newlines(c), NEW k \in new, PlaceIn(Newlines(c), m) = PlaceIn(new, k)
       PROVE  \E j : Opens(c, j, m) /\ SubSeq(c, j + 1, m - 1) = EventText(fs[k])
  <2>1. CASE m \in Newlines(b) /\ k \in old
    <3>1. PICK j : Opens(b, j, m) /\ SubSeq(b, j + 1, m - 1) = EventText(es[k])
      BY <1>7, <1>8, <1>10, <2>1 DEF Transcribes, old
    <3>2. m \in 1..(Len(b) + 1)
      BY <1>2, <1>4, <2>1
    <3>3. Opens(c, j, m) /\ SubSeq(c, j + 1, m - 1) = SubSeq(b, j + 1, m - 1)
      <4>. DEFINE f == line
      <4>1. f \in Seq(Bytes) /\ Opens(b, j, m)
        BY <1>1, <3>1
      <4>. HIDE DEF f
      <4>2. Opens(b \o f, j, m) /\ SubSeq(b \o f, j + 1, m - 1) = SubSeq(b, j + 1, m - 1)
        BY <3>2, <4>1, OpensSame
      <4>. QED
        BY <4>2 DEF f, c
    <3>. QED
      BY <1>3, <1>5, <2>1, <3>1, <3>3
  <2>2. CASE m = last /\ k = Len(es) + 1
    <3>. DEFINE o == Len(b)
    <3>1. Opens(c, o, last)
      <4>1. o \in 0..(last - 1) /\ \A i \in Newlines(c) : i < last => i <= o
        BY <1>1, <1>2, <1>4 DEF last
      <4>2. o = 0 \/ o \in Newlines(c)
        BY <1>4 DEF Transcribes
      <4>. QED
        BY <4>1, <4>2 DEF Opens
    <3>2. SubSeq(c, o + 1, last - 1) = EventText(e)
      <4>1. o + 1 \in 1..(Len(c) + 1) /\ last - 1 \in (o + 1 - 1)..Len(c)
            /\ last - 1 - (o + 1) + 1 = n
        BY <1>1, <1>2 DEF last
      <4>2. /\ SubSeq(c, o + 1, last - 1) \in Seq(Bytes)
            /\ Len(SubSeq(c, o + 1, last - 1)) = n
            /\ \A i \in 1..n : SubSeq(c, o + 1, last - 1)[i] = c[o + 1 + i - 1]
        BY <1>2, <4>1, Slice
      <4>3. ASSUME NEW i \in 1..n PROVE c[o + 1 + i - 1] = EventText(e)[i]
        <5>1. i \in 1..Len(line) /\ o + 1 + i - 1 = Len(b) + i
          BY <1>1, <1>2
        <5>. QED
          BY <1>1, <1>2, <5>1
      <4>. QED
        BY <1>1, <4>2, <4>3, SeqEqual
    <3>. QED
      BY <1>3, <2>2, <3>1, <3>2
  <2>3. CASE m = last /\ k \in old
    BY <1>6, <1>7, <1>8, <1>9, <1>10, <2>3
  <2>4. CASE m \in Newlines(b) /\ k = Len(es) + 1
    BY <1>6, <1>7, <1>8, <1>9, <1>10, <2>4
  <2>. QED
    BY <1>4, <1>5, <2>1, <2>2, <2>3, <2>4
<1>11. Len(c) \in Newlines(c)
  BY <1>2, <1>4
<1>. QED
  BY <1>6, <1>7, <1>8, <1>10, <1>11 DEF Transcribes, new, c, fs, line

\* The event of a board tool's call adds nothing.
LEMMA BoardEventTranscribes ==
  ASSUME NEW b \in Seq(Bytes), NEW es \in Seq(Events), Transcribes(b, es)
  PROVE  Transcribes(b, Append(es, "board"))
<1>. DEFINE fs == Append(es, "board")
<1>. DEFINE old == {k \in 1..Len(es) : es[k] # "board"}
<1>. DEFINE new == {k \in 1..Len(fs) : fs[k] # "board"}
<1>1. Len(es) \in Nat /\ Len(fs) = Len(es) + 1 /\ fs[Len(es) + 1] = "board"
      /\ \A k \in 1..Len(es) : fs[k] = es[k]
  BY AppendProperties DEF Events
<1>. HIDE DEF fs
<1>2. new = old
  BY <1>1
<1>3. \A k \in old : fs[k] = es[k]
  BY <1>1
<1>. QED
  BY <1>2, <1>3 DEF Transcribes, fs

LEMMA StreamParts ==
  ASSUME OutputInv
  PROVE  /\ wire["out"] \in Seq(Bytes) /\ written["out"] \in Seq(Bytes)
         /\ Stdout \in Seq(Bytes) /\ Len(Stdout) = Len(written["out"]) + Len(wire["out"])
         /\ "out" \in Streams
<1>1. wire["out"] \in Seq(Bytes) /\ written["out"] \in Seq(Bytes) /\ "out" \in Streams
  BY DEF OutputInv, OutputType, Streams
<1>. QED
  BY <1>1, Joined DEF Stdout

LEMMA EmitTranscribes ==
  ASSUME OutputInv, TranscriptInv, NEW e \in Events, Emit(e)
  PROVE  TranscriptInv'
<1>1. /\ emitted' = Append(emitted, e) /\ written' = written
      /\ wire'["out"] = IF e = "board" THEN wire["out"] ELSE wire["out"] \o EventLine(e)
  BY DEF Emit, IsFiltered, pumpVars, OutputInv, OutputType, Streams
<1>2. emitted' \in Seq(Events)
  BY <1>1 DEF TranscriptInv
<1>3. CASE e = "board"
  <2>1. Stdout' = Stdout
    BY <1>1, <1>3 DEF Stdout
  <2>. QED
    BY <1>1, <1>2, <1>3, <2>1, StreamParts, BoardEventTranscribes DEF TranscriptInv
<1>4. CASE e # "board"
  <2>1. Stdout' = Stdout \o EventLine(e)
    <3>1. /\ written["out"] \in Seq(Bytes) /\ wire["out"] \in Seq(Bytes)
          /\ EventLine(e) \in Seq(Bytes)
      BY StreamParts, EventLineIs
    <3>2. (written["out"] \o wire["out"]) \o EventLine(e)
            = written["out"] \o (wire["out"] \o EventLine(e))
      BY <3>1, Regrouped
    <3>. QED
      BY <1>1, <1>4, <3>2, Zenon DEF Stdout
  <2>. QED
    BY <1>1, <1>2, <1>4, <2>1, StreamParts, ShownEventTranscribes DEF TranscriptInv
<1>. QED
  BY <1>3, <1>4

LEMMA FrameTranscribes ==
  ASSUME OutputInv, TranscriptInv, NEW s \in Streams, NEW n \in Cuts, Frame(s, n)
  PROVE  TranscriptInv'
<1>1. CASE s = "out"
  <2>. DEFINE w == wire["out"]
  <2>. DEFINE f == SubSeq(w, 1, n)
  <2>. DEFINE r == SubSeq(w, n + 1, Len(w))
  <2>1. /\ w \in Seq(Bytes) /\ written["out"] \in Seq(Bytes) /\ n \in Nat /\ n <= Len(w)
        /\ n # 0 /\ Len(w) \in Nat
    BY <1>1, StreamParts, LineAssumption DEF Frame
  <2>2. written'["out"] = written["out"] \o f /\ wire'["out"] = r
    BY <1>1 DEF Frame, OutputInv, OutputType
  <2>. HIDE DEF w
  <2>3. f \in Seq(Bytes) /\ r \in Seq(Bytes)
    BY <2>1, Slice, Rest
  <2>4. f \o r = w
    <3>1. 1 \in 1..(Len(w) + 1) /\ n \in (1 - 1)..Len(w) /\ Len(w) \in n..Len(w)
      BY <2>1
    <3>2. SubSeq(w, 1, n) \o SubSeq(w, n + 1, Len(w)) = SubSeq(w, 1, Len(w))
      BY <2>1, <3>1, ConcatAdjacentSubSeq
    <3>. QED
      BY <2>1, <3>2, SubSeqFull
  <2>. HIDE DEF f, r
  <2>5. Stdout' = Stdout
    <3>1. (written["out"] \o f) \o r = written["out"] \o (f \o r)
      BY <2>1, <2>3, Regrouped
    <3>. QED
      BY <2>2, <2>4, <3>1, Zenon DEF Stdout, w
  <2>. QED
    BY <2>5 DEF TranscriptInv, Frame
<1>2. CASE s # "out"
  <2>1. written'["out"] = written["out"] /\ wire'["out"] = wire["out"]
    BY <1>2 DEF Frame, OutputInv, OutputType, Streams
  <2>. QED
    BY <2>1 DEF TranscriptInv, Stdout, Frame
<1>. QED
  BY <1>1, <1>2

LEMMA OtherTranscribes ==
  ASSUME TranscriptInv, emitted' = emitted, written' = written, wire'["out"] = wire["out"]
  PROVE  TranscriptInv'
BY DEF TranscriptInv, Stdout

\* What the two invariants say of the transcript.
LEMMA InvMeansTranscript ==
  OutputInv /\ TranscriptInv => TranscriptInOrder
<1>. SUFFICES ASSUME OutputInv, TranscriptInv PROVE TranscriptInOrder
  OBVIOUS
<1>. DEFINE W == written["out"]
<1>. DEFINE E == EndsOf("out")
<1>. DEFINE N == Newlines(Stdout)
<1>1. /\ W \in Seq(Bytes) /\ Len(W) \in Nat /\ wire["out"] \in Seq(Bytes) /\ "out" \in Streams
      /\ Stdout \in Seq(Bytes) /\ Len(Stdout) = Len(W) + Len(wire["out"])
      /\ Len(wire["out"]) \in Nat /\ \A k \in 1..Len(W) : Stdout[k] = W[k]
      /\ Done("out") \in Nat /\ Done("out") <= Len(W)
      /\ Len(W) = Done("out") + Len(chunk["out"])
  <2>1. "out" \in Streams
    BY DEF Streams
  <2>2. \A k \in 1..Len(W) : Stdout[k] = W[k]
    BY StreamParts, Joined DEF Stdout
  <2>3. Done("out") <= Len(W)
    BY <2>1, StreamBasics
  <2>4. Len(wire["out"]) \in Nat
    BY StreamParts
  <2>. QED
    BY <2>1, <2>2, <2>3, <2>4, StreamParts, StreamBasics
<1>2. /\ N \in SUBSET Nat /\ IsFiniteSet(N) /\ Shown \in SUBSET Nat /\ IsFiniteSet(Shown)
      /\ Cardinality(N) = Cardinality(Shown)
  BY <1>1, FiniteNewlines, FiniteShown DEF TranscriptInv, Transcribes, Shown
<1>3. E = {k \in N : k <= Done("out")}
  BY <1>1 DEF EndsOf, Newlines
<1>4. /\ E \in SUBSET N /\ E \in SUBSET Nat /\ IsFiniteSet(E)
      /\ Cardinality(E) <= Cardinality(N) /\ Cardinality(E) \in Nat /\ Cardinality(N) \in Nat
  BY <1>2, <1>3, FS_Subset, FS_CardinalityType
<1>5. /\ Whole("out") = Cardinality(E)
      /\ \A k \in E : \E j : /\ Opens(W, j, k)
                             /\ lines["out"][Nth("out", k)] = Given(SubSeq(W, j + 1, k - 1))
  BY <1>1 DEF OutputInv, StreamInv, WholeInv
<1>. HIDE DEF W, E, N
<1>6. Len(lines["out"]) \in Nat
  BY <1>1 DEF OutputInv, OutputType
<1>7. Len(lines["out"]) <= Cardinality(Shown)
  <2>1. CASE "out" \in partial
    <3>1. pump = "done"
      BY <2>1 DEF OutputInv, OutputType
    <3>2. PICK j : Opens(W, j, Len(W) + 1) /\ SubSeq(W, j + 1, Len(W)) # <<>>
      BY <1>1, <2>1, <3>1 DEF OutputInv, StreamInv, FlushInv, W
    <3>3. Len(W) # 0 /\ Len(W) \notin Newlines(W)
      <4>1. j \in 0..Len(W) /\ \A i \in Newlines(W) : i < Len(W) + 1 => i <= j
        BY <1>1, <3>2 DEF Opens
      <4>2. j # Len(W)
        BY <1>1, <3>2, SubSeqEmpty
      <4>3. Len(W) \in Newlines(W) => Len(W) <= j
        BY <1>1, <4>1
      <4>. QED
        BY <1>1, <4>1, <4>2, <4>3
    <3>4. Len(Stdout) \in N
      BY <1>1, <3>3 DEF TranscriptInv, Transcribes, N
    <3>5. Len(Stdout) \notin E
      <4>1. CASE Len(Stdout) = Len(W)
        BY <1>1, <3>3, <4>1 DEF E, EndsOf, W
      <4>2. CASE Len(Stdout) # Len(W)
        BY <1>1, <1>3, <4>2
      <4>. QED
        BY <4>1, <4>2
    <3>6. Cardinality(E) # Cardinality(N)
      BY <1>2, <1>4, <3>4, <3>5, FS_Subset
    <3>7. Whole("out") = Len(lines["out"]) - 1
      BY <2>1 DEF Whole
    <3>. QED
      BY <1>2, <1>4, <1>5, <1>6, <3>6, <3>7
  <2>2. CASE "out" \notin partial
    <3>1. Whole("out") = Len(lines["out"]) - 0
      BY <2>2 DEF Whole
    <3>. QED
      BY <1>2, <1>4, <1>5, <1>6, <3>1
  <2>. QED
    BY <2>1, <2>2
<1>8. ASSUME NEW k \in Shown, PlaceIn(Shown, k) <= Whole("out")
      PROVE  lines["out"][PlaceIn(Shown, k)] = Bridged(EventText(emitted[k]))
  <2>1. PlaceIn(Shown, k) \in 1..Cardinality(E)
    BY <1>2, <1>4, <1>5, <1>8, PlaceType
  <2>2. PICK m \in E : PlaceIn(E, m) = PlaceIn(Shown, k)
    BY <1>4, <2>1, PlaceTaken
  <2>3. PlaceIn(N, m) = PlaceIn(Shown, k) /\ m \in N
    <3>1. m \in N /\ m <= Done("out")
      BY <1>3
    <3>2. PlaceIn({j \in N : j <= Done("out")}, m) = PlaceIn(N, m)
      BY <1>1, <1>2, <3>1, PlaceInPart
    <3>. QED
      BY <1>3, <2>2, <3>1, <3>2
  <2>4. PICK i : Opens(Stdout, i, m) /\ SubSeq(Stdout, i + 1, m - 1) = EventText(emitted[k])
    BY <2>3 DEF TranscriptInv, Transcribes, N, Shown
  <2>5. PICK j : /\ Opens(W, j, m)
                 /\ lines["out"][Nth("out", m)] = Given(SubSeq(W, j + 1, m - 1))
    BY <1>5
  <2>6. m \in 1..(Len(W) + 1) /\ m \in 1..(Len(Stdout) + 1)
    BY <1>1 DEF E, EndsOf, Newlines, W
  <2>7. Opens(Stdout, j, m) /\ SubSeq(Stdout, j + 1, m - 1) = SubSeq(W, j + 1, m - 1)
    BY <1>1, <2>5, <2>6, OpensSame DEF Stdout, W
  <2>8. SubSeq(Stdout, i + 1, m - 1) = SubSeq(Stdout, j + 1, m - 1)
    <3>1. LineEndingAt(Stdout, m) = SubSeq(Stdout, i + 1, m - 1)
      BY <1>1, <2>4, <2>6, OpensLine
    <3>2. LineEndingAt(Stdout, m) = SubSeq(Stdout, j + 1, m - 1)
      BY <1>1, <2>6, <2>7, OpensLine
    <3>. QED
      BY <3>1, <3>2
  <2>9. lines["out"][PlaceIn(Shown, k)] = Given(EventText(emitted[k]))
    BY <2>2, <2>4, <2>5, <2>7, <2>8 DEF Nth, E
  <2>. QED
    BY <2>9, Zenon DEF Given, Clip, Bridged
<1>9. ASSUME Idle, wire["out"] = <<>> PROVE Whole("out") = Cardinality(Shown)
  <2>1. chunk["out"] = <<>> /\ Len(chunk["out"]) = 0 /\ Len(wire["out"]) = 0
    BY <1>1, <1>9 DEF Idle
  <2>2. Done("out") = Len(Stdout)
    BY <1>1, <2>1
  <2>3. \A n \in N : n <= Len(Stdout)
    BY <1>1 DEF N, Newlines
  <2>4. E = N
    BY <1>3, <2>2, <2>3
  <2>. QED
    BY <1>2, <1>5, <2>4
<1>. QED
  BY <1>7, <1>8, <1>9 DEF TranscriptInOrder, Whole

(***************************************************************************)
(* However the output is cut into frames, the log bridge gets of stdout    *)
(* the worker's events, in order, none twice or missing, and no call of a  *)
(* board tool.                                                             *)
(***************************************************************************)
THEOREM TranscriptInOrderCorrect == Spec => []TranscriptInOrder
<1>1. Init => TranscriptInv
  <2>. SUFFICES ASSUME Init PROVE TranscriptInv
    OBVIOUS
  <2>1. emitted = <<>> /\ Stdout = <<>> \o <<>>
    BY DEF Init, NewOutput, Stdout, Streams
  <2>2. Len(Stdout) = 0 /\ Newlines(Stdout) = {}
    BY <2>1 DEF Newlines
  <2>3. {k \in 1..Len(emitted) : emitted[k] # "board"} = {}
    BY <2>1
  <2>4. Cardinality({k \in 1..Len(emitted) : emitted[k] # "board"}) = Cardinality(Newlines(Stdout))
    BY <2>2, <2>3
  <2>. QED
    BY <2>1, <2>2, <2>4 DEF TranscriptInv, Transcribes
<1>2. TranscriptInv /\ OutputInv /\ [Next]_vars => TranscriptInv'
  <2>. SUFFICES ASSUME TranscriptInv, OutputInv, [Next]_vars PROVE TranscriptInv'
    OBVIOUS
  <2>1. CASE UNCHANGED outputVars
    BY <2>1, OtherTranscribes DEF outputVars
  <2>2. CASE ChatStep
    BY <2>1, <2>2, ChatStepOutput, EmitTranscribes
  <2>3. ASSUME NEW t \in StderrTexts, WriteStderr(t) PROVE TranscriptInv'
    <3>1. wire'["out"] = wire["out"]
      BY <2>3 DEF WriteStderr, OutputInv, OutputType, Streams
    <3>. QED
      BY <2>3, <3>1, OtherTranscribes DEF WriteStderr, pumpVars
  <2>4. CASE PumpStep
    <3>1. ASSUME NEW s \in Streams, WriteLine(s) \/ WriteRest(s) PROVE TranscriptInv'
      BY <3>1, OtherTranscribes DEF WriteLine, WriteRest
    <3>. QED
      BY <2>4, <3>1, FrameTranscribes DEF PumpStep
  <2>5. CASE StreamEnds
    BY <2>5, OtherTranscribes DEF StreamEnds
  <2>6. CASE UNCHANGED vars
    BY <2>1, <2>6 DEF vars
  <2>. QED
    BY <2>2, <2>3, <2>4, <2>5, <2>6 DEF Next
<1>. QED
  BY <1>1, <1>2, OutputInvariant, InvMeansTranscript, PTL DEF Spec

=============================================================================
