---------------------------- MODULE LedgerProofs ----------------------------
(***************************************************************************)
(* Theorems about LedgerStore: for any number of events, events to a       *)
(* segment and appends, and any faults in any order, the record is sound,  *)
(* its verdict is true and what was acknowledged stays recorded.           *)
(*                                                                         *)
(* The argument is about what can be lost.  The lines say a log of events; *)
(* a vector m stands for what a loss leaves of it, the first m[s] events   *)
(* of each segment s.  Verified(G, m) is verify_chain of that.  Of any log *)
(* the code can write, what verifies is complete up to its last segment    *)
(* and numbered by position (Ordered), and if it holds the recorded head   *)
(* it holds everything acknowledged (Covers): so no loss is mistaken for   *)
(* the whole, now or after more losses.  The chain in memory either is the *)
(* log, event by event (Tight), or ends where nothing that verifies does   *)
(* (Loose).  These are true after any fault (HardInv); AckInv, TermInv,    *)
(* WeighInv, FileInv and FalseInv add what is true as long as the faults   *)
(* each of them names have not struck.                                     *)
(***************************************************************************)
EXTENDS LedgerStore, FiniteSetTheorems, NaturalsInduction, SequenceTheorems, WellFoundedInduction, TLAPS

-----------------------------------------------------------------------------
(* Induction over a set of numbers. *)

\* A set of numbers that is not empty has a least one.
LEMMA LeastOf ==
    ASSUME NEW S, S \subseteq Nat, S # {}
    PROVE  \E m \in S : \A j \in S : m <= j
<1> DEFINE Less == {ss \in Nat \X Nat : ss[1] < ss[2]}
<1>1. IsWellFoundedOn(Less, Nat)
    <2>1. Less = OpToRel(<, Nat)
        BY DEF OpToRel
    <2> QED BY <2>1, NatLessThanWellFounded
<1>2. PICK m \in S : \A j \in S : ~(<<j, m>> \in Less)
    <2> HIDE DEF Less
    <2> QED BY <1>1, WFMin
<1>3. \A j \in S : m <= j
    <2> TAKE j \in S
    <2>1. <<j, m>> \notin Less /\ j \in Nat /\ m \in Nat
        BY <1>2
    <2> QED BY <2>1
<1> QED BY <1>3

\* What holds at 0 and goes from each number to the next holds up to n.
LEMMA UpTo ==
    ASSUME NEW n \in Nat, NEW S, 0 \in S, \A k \in 0..(n - 1) : k \in S => k + 1 \in S
    PROVE  \A k \in 0..n : k \in S
<1> DEFINE Bad == {k \in 0..n : k \notin S}
<1> SUFFICES ASSUME Bad # {} PROVE FALSE
    OBVIOUS
<1>1. Bad \subseteq Nat
    OBVIOUS
<1>2. PICK m \in Bad : \A j \in Bad : m <= j
    <2> HIDE DEF Bad
    <2> QED BY <1>1, LeastOf
<1>3. m \in 0..n /\ m \notin S /\ m # 0
    OBVIOUS
<1>4. m - 1 \in 0..(n - 1) /\ m - 1 \in 0..n /\ ~(m <= m - 1)
    BY <1>3
<1>5. m - 1 \in S
    BY <1>2, <1>4
<1>6. (m - 1) + 1 \in S
    BY <1>4, <1>5
<1> QED BY <1>3, <1>6

-----------------------------------------------------------------------------
(* What FlattenSeq returns. *)

\* FlattenSeq is the last of the sequences that put one part after another.
LEMMA FlattenIs ==
    ASSUME NEW T, NEW n \in Nat \ {0}, NEW seqs \in [1..n -> Seq(T)]
    PROVE  \E p \in [0..n -> Seq(T)] :
             /\ p[0] = <<>>
             /\ \A k \in 1..n : p[k] = p[k - 1] \o seqs[k]
             /\ FlattenSeq(seqs) = p[n]
<1> DEFINE Joins(f, m) == f = [i \in 1..m |-> IF i = 1 THEN seqs[i] ELSE f[i - 1] \o seqs[i]]
           Joinable(m) == \E f : Joins(f, m)
           Good == {m \in 0..n : Joinable(m)}
<1>1. 0 \in Good
    <2>1. Joins([i \in 1..0 |-> <<>>], 0)
        OBVIOUS
    <2>2. Joinable(0)
        BY <2>1
    <2> HIDE DEF Joinable
    <2> QED BY <2>2
<1>2. ASSUME NEW k \in 0..(n - 1), k \in Good PROVE k + 1 \in Good
    <2>1. PICK g : Joins(g, k)
        BY <1>2
    <2> DEFINE m == k + 1
               h == [i \in 1..m |-> IF i < m THEN g[i]
                                    ELSE IF k = 0 THEN seqs[m] ELSE g[k] \o seqs[m]]
    <2>2. \A i \in 1..m : h[i] = IF i = 1 THEN seqs[i] ELSE h[i - 1] \o seqs[i]
        <3> TAKE i \in 1..m
        <3>1. CASE i = m
            <4>1. i # 1 => i - 1 \in 1..m /\ i - 1 < m /\ i - 1 = k /\ k # 0
                BY <3>1
            <4>2. i # 1 => h[i - 1] = g[k]
                BY <4>1
            <4>3. i = 1 => k = 0
                BY <3>1
            <4> QED BY <3>1, <4>1, <4>2, <4>3
        <3>2. CASE i # m
            <4>1. i \in 1..k /\ h[i] = g[i]
                BY <3>2
            <4>2. g[i] = IF i = 1 THEN seqs[i] ELSE g[i - 1] \o seqs[i]
                BY <2>1, <4>1
            <4>3. i # 1 => h[i - 1] = g[i - 1]
                BY <4>1
            <4> QED BY <4>1, <4>2, <4>3
        <3> QED BY <3>1, <3>2
    <2>3. Joins(h, m)
        <3>1. h = [i \in 1..m |-> h[i]]
            OBVIOUS
        <3> HIDE DEF h
        <3> QED BY <2>2, <3>1
    <2>4. Joinable(m)
        <3> HIDE DEF h, m, Joins
        <3> QED BY <2>3
    <2> HIDE DEF Joinable
    <2> QED BY <2>4
<1>3. Joinable(n)
    <2>1. n \in Good
        <3>1. n \in Nat /\ n \in 0..n
            OBVIOUS
        <3> HIDE DEF Good
        <3>2. \A k \in 0..n : k \in Good
            BY <1>1, <1>2, <3>1, UpTo
        <3> QED BY <3>1, <3>2
    <2> QED BY <2>1
<1> DEFINE f == CHOOSE f : Joins(f, n)
<1>4. Joins(f, n)
    BY <1>3
<1>5. FlattenSeq(seqs) = f[n]
    <2>1. Len(seqs) = n
        OBVIOUS
    <2> QED BY <2>1 DEF FlattenSeq
<1>14. \A i \in 1..n : f[i] = IF i = 1 THEN seqs[i] ELSE f[i - 1] \o seqs[i]
    <2> HIDE DEF f
    <2> QED BY <1>4
<1> DEFINE p == [k \in 0..n |-> IF k = 0 THEN <<>> ELSE f[k]]
<1> HIDE DEF f
<1>6. p[0] = <<>>
    OBVIOUS
<1>7. p[1] = seqs[1] /\ \A k \in 2..n : p[k] = p[k - 1] \o seqs[k]
    <2>1. p[1] = seqs[1]
        BY <1>14
    <2>2. ASSUME NEW k \in 2..n PROVE p[k] = p[k - 1] \o seqs[k]
        <3>1. k \in 1..n /\ k - 1 \in 0..n /\ k # 1 /\ k # 0 /\ k - 1 # 0
            OBVIOUS
        <3>2. p[k] = f[k] /\ p[k - 1] = f[k - 1]
            BY <3>1
        <3> QED BY <1>14, <3>1, <3>2
    <2> QED BY <2>1, <2>2
<1>8. FlattenSeq(seqs) = p[n]
    BY <1>5
<1>9. p = [k \in 0..n |-> p[k]]
    OBVIOUS
<1> HIDE DEF p
<1>10. \A k \in 1..n : p[k - 1] \in Seq(T) => p[k] = p[k - 1] \o seqs[k]
    <2> TAKE k \in 1..n
    <2>1. CASE k = 1
        <3>1. seqs[1] \in Seq(T)
            OBVIOUS
        <3>2. <<>> \o seqs[1] = seqs[1]
            BY <3>1, ConcatEmptySeq
        <3>3. k - 1 = 0
            BY <2>1
        <3> QED BY <1>6, <1>7, <2>1, <3>2, <3>3
    <2>2. CASE k # 1
        <3>1. k \in 2..n
            BY <2>2
        <3> QED BY <1>7, <3>1
    <2> QED BY <2>1, <2>2
<1>11. \A k \in 0..n : p[k] \in Seq(T)
    <2> DEFINE Typed == {k \in 0..n : p[k] \in Seq(T)}
    <2>1. 0 \in Typed
        <3>1. <<>> \in Seq(T) /\ 0 \in 0..n
            OBVIOUS
        <3> QED BY <1>6, <3>1
    <2>2. ASSUME NEW k \in 0..(n - 1), k \in Typed PROVE k + 1 \in Typed
        <3>1. k + 1 \in 1..n /\ (k + 1) - 1 = k
            OBVIOUS
        <3>2. p[k + 1] = p[k] \o seqs[k + 1]
            BY <1>10, <2>2, <3>1
        <3>3. p[k + 1] \in Seq(T)
            BY <2>2, <3>1, <3>2, ConcatProperties
        <3> QED BY <3>1, <3>3
    <2>3. \A k \in 0..n : k \in Typed
        <3>1. n \in Nat
            OBVIOUS
        <3> HIDE DEF Typed
        <3> QED BY <2>1, <2>2, <3>1, UpTo
    <2> QED BY <2>3
<1>12. p \in [0..n -> Seq(T)]
    BY <1>9, <1>11
<1>13. \A k \in 1..n : p[k] = p[k - 1] \o seqs[k]
    BY <1>10, <1>11
<1> QED BY <1>6, <1>8, <1>12, <1>13

-----------------------------------------------------------------------------
(* Segments. *)

\* What dividing returns.
LEMMA Division ==
    ASSUME NEW a \in Nat, NEW b \in Nat \ {0}
    PROVE  /\ a \div b \in Nat
           /\ b * (a \div b) <= a
           /\ a < b * (a \div b) + b
OBVIOUS

\* A quotient is at most another if the divisor times it is.
LEMMA Quotients ==
    ASSUME NEW a \in Nat, NEW b \in Nat \ {0}, NEW c \in Nat
    PROVE  b * c <= a <=> c <= a \div b
<1> DEFINE d == a \div b
<1>1. d \in Nat /\ b * d <= a /\ a < b * d + b
    BY Division
<1> HIDE DEF d
<1>2. ASSUME c <= d PROVE b * c <= a
    <2>1. PICK e \in Nat : d = c + e
        BY <1>1, <1>2
    <2>2. b * d = b * c + b * e /\ b * e \in Nat /\ b * c \in Nat
        BY <2>1
    <2> QED BY <1>1, <2>2
<1>3. ASSUME ~(c <= d) PROVE ~(b * c <= a)
    <2>1. PICK e \in Nat : c = d + 1 + e
        <3>1. c - d - 1 \in Nat
            BY <1>1, <1>3
        <3> QED BY <1>1, <3>1
    <2>2. b * c = b * d + b + b * e /\ b * e \in Nat /\ b * d \in Nat
        BY <1>1, <2>1
    <2>3. b * c \in Nat
        OBVIOUS
    <2> QED BY <1>1, <2>2, <2>3
<1> QED BY <1>2, <1>3 DEF d

N == MaxAppends \div SegmentEvents + 1

\* Segments are numbered from 0, and every event the bound allows has one (segment_path).
LEMMA SegmentsAre ==
    /\ N \in Nat \ {0} /\ Segments = 0..(N - 1)
    /\ Cardinality(Segments) = N
    /\ \A n \in 0..MaxAppends : SegmentOf(n) \in Segments
<1>1. SegmentEvents \in Nat \ {0} /\ MaxAppends \in Nat
    BY BoundsAssumption
<1>2. MaxAppends \div SegmentEvents \in Nat
    BY <1>1, Division
<1>3. N \in Nat \ {0} /\ Segments = 0..(N - 1)
    BY <1>2 DEF N, Segments
<1>4. Cardinality(Segments) = N
    BY <1>3, FS_Interval
<1>5. ASSUME NEW n \in 0..MaxAppends PROVE SegmentOf(n) \in Segments
    <2> DEFINE d == n \div SegmentEvents
    <2>1. d \in Nat /\ SegmentEvents * d <= n
        BY <1>1, Division
    <2>2. SegmentEvents * d <= MaxAppends
        <3> DEFINE x == SegmentEvents * d
        <3>1. x \in Nat
            BY <1>1, <2>1
        <3> HIDE DEF x, d
        <3>2. x <= n
            BY <2>1 DEF x
        <3> QED BY <1>1, <3>1, <3>2 DEF x
    <2>3. d <= MaxAppends \div SegmentEvents
        <3> HIDE DEF d
        <3> QED BY <1>1, <2>1, <2>2, Quotients
    <2> QED BY <1>2, <2>1, <2>3 DEF Segments, SegmentOf
<1> QED BY <1>3, <1>4, <1>5

\* The segment of a number, by its bounds.
LEMMA SegmentBounds ==
    ASSUME NEW n \in Nat, NEW s \in Nat
    PROVE  SegmentOf(n) \in Nat /\ (SegmentEvents * s <= n <=> s <= SegmentOf(n))
BY BoundsAssumption, Division, Quotients DEF SegmentOf

\* A later event is in no earlier segment.
LEMMA SegmentsGrow ==
    ASSUME NEW a \in Nat, NEW b \in Nat, a <= b
    PROVE  SegmentOf(a) <= SegmentOf(b)
<1> DEFINE s == SegmentOf(a)
           x == SegmentEvents * s
<1>1. s \in Nat /\ x <= a /\ x \in Nat
    BY BoundsAssumption, SegmentBounds
<1>2. x <= b
    <2> HIDE DEF x
    <2> QED BY <1>1
<1> HIDE DEF s
<1> QED BY <1>1, <1>2, SegmentBounds DEF s

-----------------------------------------------------------------------------
(* The lines before each segment. *)

Weighs(L, w) ==
    /\ w \in [0..N -> Nat]
    /\ w[0] = 0
    /\ \A s \in Segments : w[s + 1] = w[s] + Len(L[s])

\* Segments of lines, or of what they say.
IsLog(L) == DOMAIN L = Segments /\ \A s \in Segments : Len(L[s]) \in Nat

\* No fewer lines are before a later segment.
LEMMA WeightsGrow ==
    ASSUME NEW L, IsLog(L), NEW w, Weighs(L, w), NEW a \in 0..N, NEW b \in 0..N, a <= b
    PROVE  w[a] <= w[b]
<1> DEFINE S == {k \in 0..(N - a) : w[a] <= w[a + k]}
<1>1. N \in Nat /\ N - a \in Nat /\ a \in Nat /\ w[a] \in Nat /\ Segments = 0..(N - 1)
    BY SegmentsAre DEF Weighs
<1>2. 0 \in S
    BY <1>1
<1>3. ASSUME NEW k \in 0..((N - a) - 1), k \in S PROVE k + 1 \in S
    <2>1. a + k \in Segments /\ a + k \in 0..N /\ (a + k) + 1 = a + (k + 1) /\ k + 1 \in 0..(N - a)
        BY <1>1
    <2>2. w[a + (k + 1)] = w[a + k] + Len(L[a + k]) /\ Len(L[a + k]) \in Nat /\ w[a + k] \in Nat
        BY <2>1 DEF Weighs, IsLog
    <2>3. w[a] <= w[a + (k + 1)]
        BY <1>1, <1>3, <2>2
    <2> QED BY <2>1, <2>3
<1>4. \A k \in 0..(N - a) : k \in S
    <2> HIDE DEF S
    <2> QED BY <1>1, <1>2, <1>3, UpTo
<1>5. b - a \in 0..(N - a) /\ a + (b - a) = b
    BY <1>1
<1>6. b - a \in S
    BY <1>4, <1>5
<1> QED BY <1>5, <1>6

\* How many lines are before a segment has one answer.
LEMMA OneWeight ==
    ASSUME NEW L, IsLog(L), NEW w, NEW v, Weighs(L, w), Weighs(L, v)
    PROVE  w = v
<1> DEFINE S == {k \in 0..N : w[k] = v[k]}
<1>1. N \in Nat /\ Segments = 0..(N - 1)
    BY SegmentsAre
<1>2. 0 \in S
    BY <1>1 DEF Weighs
<1>3. ASSUME NEW k \in 0..(N - 1), k \in S PROVE k + 1 \in S
    BY <1>1, <1>3 DEF Weighs
<1>4. \A k \in 0..N : k \in S
    <2> HIDE DEF S
    <2> QED BY <1>1, <1>2, <1>3, UpTo
<1>5. w = [k \in 0..N |-> w[k]] /\ v = [k \in 0..N |-> v[k]]
    BY DEF Weighs
<1>6. \A k \in 0..N : w[k] = v[k]
    BY <1>4
<1>7. [k \in 0..N |-> w[k]] = [k \in 0..N |-> v[k]]
    <2> HIDE DEF S
    <2> QED BY <1>6
<1> QED BY <1>5, <1>7

\* Every line has its number, and every number is a line's.
LEMMA EveryPlace ==
    ASSUME NEW L, IsLog(L), NEW w, Weighs(L, w), NEW n \in 1..w[N]
    PROVE  \E s \in Segments : \E i \in 1..Len(L[s]) : n = w[s] + i
<1>1. N \in Nat /\ Segments = 0..(N - 1) /\ w[N] \in Nat
    BY SegmentsAre DEF Weighs
<1> DEFINE S == {k \in 0..N : n <= w[k]}
<1>2. S \subseteq Nat /\ N \in S
    BY <1>1
<1>3. PICK k \in S : \A j \in S : k <= j
    <2> HIDE DEF S
    <2> QED BY <1>2, LeastOf
<1>4. k \in 0..N /\ n <= w[k] /\ k # 0
    BY <1>1, <1>3 DEF Weighs
<1>5. k - 1 \in 0..N /\ k - 1 \in Segments /\ (k - 1) + 1 = k
    BY <1>1, <1>4
<1>6. ~(n <= w[k - 1])
    BY <1>3, <1>5
<1>7. w[k] = w[k - 1] + Len(L[k - 1]) /\ w[k - 1] \in Nat /\ Len(L[k - 1]) \in Nat
    BY <1>5 DEF Weighs, IsLog
<1>8. n - w[k - 1] \in 1..Len(L[k - 1]) /\ n = w[k - 1] + (n - w[k - 1])
    BY <1>1, <1>4, <1>6, <1>7
<1> QED BY <1>5, <1>8

\* ... and one line's only.
LEMMA OnePlace ==
    ASSUME NEW L, IsLog(L), NEW w, Weighs(L, w),
           NEW r \in Segments, NEW j \in 1..Len(L[r]),
           NEW s \in Segments, NEW i \in 1..Len(L[s])
    PROVE  /\ w[r] + j <= w[s] + i <=> r < s \/ (r = s /\ j <= i)
           /\ w[s] + i \in 1..w[N] /\ w[s] \in Nat
<1>1. N \in Nat /\ Segments = 0..(N - 1)
    BY SegmentsAre
<1>2. /\ w[r] \in Nat /\ w[s] \in Nat /\ w[N] \in Nat
      /\ w[r + 1] = w[r] + Len(L[r]) /\ w[s + 1] = w[s] + Len(L[s])
      /\ Len(L[r]) \in Nat /\ Len(L[s]) \in Nat /\ r \in 0..N /\ s \in 0..N
      /\ r + 1 \in 0..N /\ s + 1 \in 0..N /\ N \in 0..N
    BY <1>1 DEF Weighs, IsLog
<1>3. r < s => w[r + 1] <= w[s]
    BY <1>1, <1>2, WeightsGrow
<1>4. s < r => w[s + 1] <= w[r]
    BY <1>1, <1>2, WeightsGrow
<1>5. w[s + 1] <= w[N]
    BY <1>1, <1>2, WeightsGrow
<1> DEFINE a == w[r]
           b == w[s]
           x == Len(L[r])
           y == Len(L[s])
           z == w[N]
<1>6. /\ a \in Nat /\ b \in Nat /\ x \in Nat /\ y \in Nat /\ z \in Nat
      /\ r < s => a + x <= b
      /\ s < r => b + y <= a
      /\ r = s => a = b
      /\ b + y <= z
      /\ i \in 1..y /\ j \in 1..x
      /\ r \in Nat /\ s \in Nat
    BY <1>1, <1>2, <1>3, <1>4, <1>5
<1> HIDE DEF a, b, x, y, z
<1>7. b + i \in 1..z
    BY <1>6
<1>8. a + j <= b + i <=> r < s \/ (r = s /\ j <= i)
    <2>1. CASE r < s
        BY <1>6, <2>1
    <2>2. CASE s < r
        BY <1>6, <2>2
    <2>3. CASE r = s
        BY <1>6, <2>3
    <2> QED BY <1>6, <2>1, <2>2, <2>3
<1> QED BY <1>6, <1>7, <1>8 DEF a, b, z

\* Two logs whose segments differ by no line but e of segment t.
LEMMA WeightsDiffer ==
    ASSUME NEW L, IsLog(L), NEW v, Weighs(L, v), NEW M, IsLog(M), NEW w, Weighs(M, w),
           NEW t \in Segments, NEW e \in Int,
           \A s \in Segments : Len(M[s]) <= Len(L[s]) + (IF s = t THEN e ELSE 0)
    PROVE  \A k \in 0..N : w[k] <= v[k] + (IF k > t THEN e ELSE 0)
<1> DEFINE S == {k \in 0..N : w[k] <= v[k] + (IF k > t THEN e ELSE 0)}
<1>1. N \in Nat /\ Segments = 0..(N - 1)
    BY SegmentsAre
<1>2. 0 \in S
    BY <1>1 DEF Weighs
<1>3. ASSUME NEW k \in 0..(N - 1), k \in S PROVE k + 1 \in S
    <2> DEFINE a == w[k]
               b == v[k]
               x == Len(M[k])
               y == Len(L[k])
    <2>1. /\ a \in Nat /\ b \in Nat /\ x \in Nat /\ y \in Nat /\ k \in 0..N /\ k + 1 \in 0..N
          /\ k \in Segments /\ t \in Nat /\ k \in Nat
        BY <1>1 DEF Weighs, IsLog
    <2>2. w[k + 1] = a + x /\ v[k + 1] = b + y
        BY <2>1 DEF Weighs
    <2>3. x <= y + (IF k = t THEN e ELSE 0) /\ a <= b + (IF k > t THEN e ELSE 0)
        BY <1>3, <2>1
    <2> HIDE DEF a, b, x, y
    <2>4. a + x <= b + y + (IF k + 1 > t THEN e ELSE 0)
        <3>1. CASE k = t
            <4>1. x <= y + e /\ a <= b /\ k + 1 > t
                BY <2>1, <2>3, <3>1
            <4> QED BY <2>1, <4>1
        <3>2. CASE k > t
            <4>1. x <= y /\ a <= b + e /\ k + 1 > t
                BY <2>1, <2>3, <3>2
            <4> QED BY <2>1, <4>1
        <3>3. CASE k < t
            <4>1. x <= y /\ a <= b /\ ~(k + 1 > t)
                BY <2>1, <2>3, <3>3
            <4> QED BY <2>1, <4>1
        <3> QED BY <2>1, <3>1, <3>2, <3>3
    <2> QED BY <2>1, <2>2, <2>4
<1>4. \A k \in 0..N : k \in S
    <2> HIDE DEF S
    <2> QED BY <1>1, <1>2, <1>3, UpTo
<1> QED BY <1>4

\* Two logs with the same lengths below k.
LEMMA WeightsAgree ==
    ASSUME NEW L, IsLog(L), NEW v, Weighs(L, v), NEW M, IsLog(M), NEW w, Weighs(M, w),
           NEW n \in 0..N, \A s \in Segments : s < n => Len(M[s]) = Len(L[s])
    PROVE  w[n] = v[n]
<1> DEFINE S == {k \in 0..n : w[k] = v[k]}
<1>1. N \in Nat /\ Segments = 0..(N - 1) /\ n \in Nat
    BY SegmentsAre
<1>2. 0 \in S
    BY <1>1 DEF Weighs
<1>3. ASSUME NEW k \in 0..(n - 1), k \in S PROVE k + 1 \in S
    BY <1>1, <1>3 DEF Weighs
<1>4. \A k \in 0..n : k \in S
    <2> HIDE DEF S
    <2> QED BY <1>1, <1>2, <1>3, UpTo
<1> QED BY <1>1, <1>4

\* The log ends where its last lines are.
LEMMA WeightsEnd ==
    ASSUME NEW L, IsLog(L), NEW w, Weighs(L, w), NEW n \in 0..N,
           \A s \in Segments : s >= n => Len(L[s]) = 0
    PROVE  w[N] = w[n]
<1> DEFINE S == {k \in 0..(N - n) : w[n + k] = w[n]}
<1>1. N \in Nat /\ Segments = 0..(N - 1) /\ n \in Nat /\ N - n \in Nat /\ w[n] \in Nat
    BY SegmentsAre DEF Weighs
<1>2. 0 \in S
    BY <1>1
<1>3. ASSUME NEW k \in 0..((N - n) - 1), k \in S PROVE k + 1 \in S
    <2>1. n + k \in Segments /\ n + k >= n /\ (n + k) + 1 = n + (k + 1) /\ k + 1 \in 0..(N - n)
        BY <1>1
    <2>2. w[n + (k + 1)] = w[n + k] + Len(L[n + k]) /\ Len(L[n + k]) = 0
        BY <2>1 DEF Weighs
    <2> QED BY <1>1, <1>3, <2>1, <2>2
<1>4. \A k \in 0..(N - n) : k \in S
    <2> HIDE DEF S
    <2> QED BY <1>1, <1>2, <1>3, UpTo
<1>5. N - n \in 0..(N - n) /\ n + (N - n) = N
    BY <1>1
<1>6. N - n \in S
    BY <1>4, <1>5
<1> QED BY <1>5, <1>6

-----------------------------------------------------------------------------
(* The sequence a log is. *)

Before(L) == CHOOSE w : Weighs(L, w)
Flat(G) == FlattenSeq([k \in 1..N |-> G[k - 1]])

\* The log read through: a line is found after the lines of the segments before its own.
LEMMA FlatIs ==
    ASSUME NEW T, NEW G \in [Segments -> Seq(T)]
    PROVE  /\ IsLog(G)
           /\ Weighs(G, Before(G))
           /\ Flat(G) \in Seq(T)
           /\ Len(Flat(G)) = Before(G)[N]
           /\ \A s \in Segments : \A i \in 1..Len(G[s]) : Flat(G)[Before(G)[s] + i] = G[s][i]
<1> DEFINE seqs == [k \in 1..N |-> G[k - 1]]
<1>1. N \in Nat \ {0} /\ Segments = 0..(N - 1)
    BY SegmentsAre
<1>2. seqs \in [1..N -> Seq(T)] /\ \A s \in Segments : s + 1 \in 1..N /\ seqs[s + 1] = G[s]
    BY <1>1
<1>3. IsLog(G)
    BY DEF IsLog
<1>4. PICK p \in [0..N -> Seq(T)] :
         /\ p[0] = <<>>
         /\ \A k \in 1..N : p[k] = p[k - 1] \o seqs[k]
         /\ FlattenSeq(seqs) = p[N]
    <2>1. N \in Nat \ {0} /\ seqs \in [1..N -> Seq(T)]
        BY <1>1, <1>2
    <2> HIDE DEF seqs
    <2>2. \E p \in [0..N -> Seq(T)] :
             /\ p[0] = <<>>
             /\ \A k \in 1..N : p[k] = p[k - 1] \o seqs[k]
             /\ FlattenSeq(seqs) = p[N]
        BY <2>1, FlattenIs, Zenon
    <2> QED BY <2>2
<1>5. \A s \in Segments : /\ s + 1 \in 0..N /\ s \in 0..N /\ p[s] \in Seq(T) /\ G[s] \in Seq(T)
                          /\ p[s + 1] = p[s] \o G[s]
    <2> TAKE s \in Segments
    <2>1. s + 1 \in 0..N /\ s \in 0..N /\ s + 1 \in 1..N /\ (s + 1) - 1 = s /\ seqs[s + 1] = G[s]
        BY <1>1, <1>2
    <2>2. p[s + 1] = p[(s + 1) - 1] \o seqs[s + 1]
        BY <1>4, <2>1
    <2> QED BY <1>4, <2>1, <2>2
<1> HIDE DEF seqs
<1> DEFINE w == [k \in 0..N |-> Len(p[k])]
<1>6. Weighs(G, w)
    <2>1. w \in [0..N -> Nat] /\ w[0] = 0
        BY <1>1, <1>4, LenProperties
    <2>2. ASSUME NEW s \in Segments PROVE w[s + 1] = w[s] + Len(G[s])
        <3>1. Len(p[s + 1]) = Len(p[s]) + Len(G[s])
            <4>1. p[s] \in Seq(T) /\ G[s] \in Seq(T) /\ p[s + 1] = p[s] \o G[s]
                BY <1>5
            <4> QED BY <4>1, ConcatProperties
        <3> QED BY <1>5, <3>1
    <2> HIDE DEF w
    <2> QED BY <2>1, <2>2 DEF Weighs
<1>7. Weighs(G, Before(G))
    BY <1>6 DEF Before
<1>8. Before(G) = w
    <2> HIDE DEF w
    <2> QED BY <1>3, <1>6, <1>7, OneWeight
<1>9. Flat(G) = p[N] /\ p[N] \in Seq(T) /\ w[N] = Len(p[N])
    BY <1>1, <1>4 DEF Flat, seqs
<1>10. ASSUME NEW s \in Segments, NEW i \in 1..Len(G[s])
       PROVE  p[N][w[s] + i] = G[s][i]
    <2> DEFINE n == w[s] + i
               S == {k \in 0..(N - (s + 1)) : p[(s + 1) + k][n] = G[s][i]}
    <2>1. /\ s + 1 \in 0..N /\ N - (s + 1) \in Nat /\ s + 1 \in Nat /\ w[s] = Len(p[s]) /\ w[s] \in Nat
          /\ n \in 1..w[s + 1] /\ w[s + 1] = Len(p[s]) + Len(G[s])
        <3>1. w[s + 1] = w[s] + Len(G[s]) /\ Len(G[s]) \in Nat /\ w[s] \in Nat
            BY <1>3, <1>5, <1>6 DEF Weighs, IsLog
        <3>2. w[s] = Len(p[s])
            BY <1>5
        <3> HIDE DEF w
        <3>3. n \in 1..w[s + 1]
            BY <3>1
        <3> QED BY <1>1, <3>1, <3>2, <3>3
    <2> HIDE DEF w
    <2>2. 0 \in S
        <3>1. p[s + 1][n] = G[s][n - Len(p[s])]
            <4>1. n \in 1..(Len(p[s]) + Len(G[s])) /\ ~(n <= Len(p[s]))
                BY <2>1
            <4> HIDE DEF n
            <4> QED BY <1>5, <4>1, ConcatProperties
        <3>2. n - Len(p[s]) = i
            BY <2>1
        <3> HIDE DEF n
        <3>3. p[(s + 1) + 0][n] = G[s][i]
            <4>1. (s + 1) + 0 = s + 1
                BY <2>1
            <4> QED BY <3>1, <3>2, <4>1
        <3> QED BY <2>1, <3>3
    <2>3. ASSUME NEW k \in 0..((N - (s + 1)) - 1), k \in S PROVE k + 1 \in S
        <3> DEFINE z == (s + 1) + k
        <3>1. /\ z \in Segments /\ (s + 1) + (k + 1) = z + 1 /\ k + 1 \in 0..(N - (s + 1))
              /\ s + 1 <= z /\ z \in 0..N /\ s + 1 \in 0..N
            BY <1>1, <2>1
        <3>2. w[s + 1] <= w[z]
            BY <1>3, <1>6, <3>1, WeightsGrow
        <3>3. w[z] = Len(p[z]) /\ w[z] \in Nat /\ Len(G[z]) \in Nat /\ w[s + 1] \in Nat
            BY <1>3, <1>5, <1>6, <3>1 DEF w, Weighs, IsLog
        <3>4. n \in 1..(Len(p[z]) + Len(G[z])) /\ n <= Len(p[z])
            <4>1. n \in 1..w[s + 1] 
                BY <2>1
            <4> DEFINE a == w[s + 1]
                       b == Len(p[z])
                       c == Len(G[z])
            <4>2. a \in Nat /\ b \in Nat /\ c \in Nat /\ a <= b /\ n \in 1..a
                BY <3>2, <3>3, <4>1
            <4> HIDE DEF n, z, a, b, c
            <4>3. n \in 1..(b + c) /\ n <= b
                BY <4>2
            <4> QED BY <4>3 DEF b, c
        <3>5. p[z + 1][n] = p[z][n]
            <4> HIDE DEF n, z
            <4> QED BY <1>5, <3>1, <3>4, ConcatProperties
        <3>6. p[z][n] = G[s][i]
            BY <2>3
        <3>7. p[(s + 1) + (k + 1)][n] = G[s][i]
            <4> HIDE DEF n, z
            <4> QED BY <3>1, <3>5, <3>6
        <3> HIDE DEF n
        <3> QED BY <3>1, <3>7
    <2>4. \A k \in 0..(N - (s + 1)) : k \in S
        <3> HIDE DEF S
        <3> QED BY <2>1, <2>2, <2>3, UpTo
    <2>5. N - (s + 1) \in 0..(N - (s + 1)) /\ (s + 1) + (N - (s + 1)) = N
        BY <1>1, <2>1
    <2>6. N - (s + 1) \in S
        BY <2>4, <2>5
    <2> QED BY <2>5, <2>6
<1> HIDE DEF w
<1> QED BY <1>3, <1>7, <1>8, <1>9, <1>10

\* The sequence is that of its places: what is right at each, is right.
LEMMA FlatAt ==
    ASSUME NEW T, NEW G \in [Segments -> Seq(T)], NEW n \in 1..Len(Flat(G))
    PROVE  \E s \in Segments : \E i \in 1..Len(G[s]) :
              n = Before(G)[s] + i /\ Flat(G)[n] = G[s][i]
<1>1. IsLog(G) /\ Weighs(G, Before(G)) /\ Len(Flat(G)) = Before(G)[N]
    BY FlatIs
<1>2. PICK s \in Segments : \E i \in 1..Len(G[s]) : n = Before(G)[s] + i
    BY <1>1, EveryPlace
<1>3. PICK i \in 1..Len(G[s]) : n = Before(G)[s] + i
    BY <1>2
<1>4. Flat(G)[Before(G)[s] + i] = G[s][i]
    BY FlatIs
<1> QED BY <1>3, <1>4

-----------------------------------------------------------------------------
(* What a loss leaves of a log of events: the first m[s] of each segment s.*)
(* It verifies when each event that is left names the one before it.       *)

Vector == [Segments -> Nat]
Log == [Segments -> Seq(Event \cup {Junk})]
Full(G) == [s \in Segments |-> Len(G[s])]

Within(G, m) ==
    \A s \in Segments : m[s] <= Len(G[s]) /\ \A i \in 1..m[s] : G[s][i] # Junk

\* <<s, i>> is the first place of what is left, or the one next to <<r, j>>.
First(m, s, i) == i = 1 /\ \A q \in Segments : q < s => m[q] = 0
Prior(m, s, i, r, j) ==
    \/ r = s /\ i > 1 /\ j = i - 1
    \/ /\ r < s /\ i = 1 /\ m[r] > 0 /\ j = m[r]
       /\ \A q \in Segments : r < q /\ q < s => m[q] = 0

Linked(G, m, s, i) ==
    \/ First(m, s, i) /\ G[s][i].prev = Genesis
    \/ \E r \in Segments : \E j \in 1..m[r] :
          Prior(m, s, i, r, j) /\ G[s][i].prev = G[r][j].hash
Numbered(G, m, s, i) ==
    \/ First(m, s, i) /\ G[s][i].seq = 0
    \/ \E r \in Segments : \E j \in 1..m[r] :
          Prior(m, s, i, r, j) /\ G[s][i].seq = G[r][j].seq + 1

Verified(G, m) ==
    /\ m \in Vector
    /\ Within(G, m)
    /\ \A s \in Segments : \A i \in 1..m[s] : Linked(G, m, s, i)
Positional(G, m) == \A s \in Segments : \A i \in 1..m[s] : Numbered(G, m, s, i)
FullBelow(G, m) ==
    \A s \in Segments : m[s] > 0 => \A r \in Segments : r < s => m[r] = Len(G[r])
Holds(G, m, h) == \E s \in Segments : \E i \in 1..m[s] : G[s][i].hash = h
Ends(m, s) == m[s] > 0 /\ \A q \in Segments : s < q => m[q] = 0

\* What verifies has no gap, and its events are at the places they name.
Ordered(G) == \A m \in Vector : Verified(G, m) => FullBelow(G, m) /\ Positional(G, m)

\* What verifies ends in segment t or before.
Reaches(G, t) ==
    \A m \in Vector : Verified(G, m) => \A q \in Segments : t < q => m[q] = 0

\* An event names one place.
Distinct(G) ==
    \A s, r \in Segments : \A i \in 1..Len(G[s]) : \A j \in 1..Len(G[r]) :
        G[s][i] # Junk /\ G[r][j] # Junk /\ G[s][i].hash = G[r][j].hash
            => s = r /\ i = j

\* The log is the chain K, event by event ...
Tight(G, K) ==
    /\ Verifies(K)
    /\ Verified(G, Full(G))
    /\ \A n \in 1..Len(K) : \E s \in Segments : \E i \in 1..Len(G[s]) : G[s][i] = K[n]
    /\ IF K = <<>> THEN \A s \in Segments : Len(G[s]) = 0
       ELSE \E s \in Segments : Ends(Full(G), s) /\ G[s][Len(G[s])] = K[Len(K)]

\* ... or it is not, and then nothing that verifies and has all of segment t
\* ends where K does.
Loose(G, K, t) ==
    \A m \in Vector :
        Verified(G, m) /\ m[t] = Len(G[t]) /\ (\A q \in Segments : t < q => m[q] = 0)
            => IF K = <<>> THEN \E s \in Segments : m[s] > 0
               ELSE \A s \in Segments : Ends(m, s) => G[s][m[s]].hash # K[Len(K)].hash

-----------------------------------------------------------------------------
(* Losing. *)

\* H is G but for lines lost or ruined, and new ruined ones in segment t.
Pruned(G, H, t) ==
    \A s \in Segments :
        /\ s # t => Len(H[s]) <= Len(G[s])
        /\ \A i \in 1..Len(H[s]) : H[s][i] = Junk \/ (i <= Len(G[s]) /\ H[s][i] = G[s][i])

\* What is left of both, as the same lines, verifies of the one as of the other.
LEMMA SameVerifies ==
    ASSUME NEW G \in Log, NEW H, NEW m, Verified(H, m),
           \A s \in Segments : \A i \in 1..m[s] : i \in 1..Len(G[s]) /\ H[s][i] = G[s][i]
    PROVE  /\ m \in Vector /\ Verified(G, m)
           /\ \A h : Holds(H, m, h) <=> Holds(G, m, h)
           /\ Positional(G, m) => Positional(H, m)
<1>1. m \in Vector /\ Within(H, m)
    BY DEF Verified
<1>2. ASSUME NEW s \in Segments, NEW i \in 1..m[s]
      PROVE  i \in 1..Len(G[s]) /\ H[s][i] = G[s][i] /\ G[s][i] # Junk
    BY <1>1 DEF Within
<1>3. Within(G, m)
    <2> SUFFICES ASSUME NEW s \in Segments PROVE m[s] <= Len(G[s])
        BY <1>2 DEF Within
    <2>1. m[s] \in Nat /\ Len(G[s]) \in Nat
        BY <1>1 DEF Vector, Log
    <2>2. CASE m[s] = 0
        BY <2>1, <2>2
    <2>3. CASE m[s] # 0
        <3>1. m[s] \in 1..m[s]
            BY <2>1, <2>3
        <3>2. m[s] \in 1..Len(G[s])
            BY <1>2, <3>1
        <3> QED BY <3>2
    <2> QED BY <2>2, <2>3
<1>4. ASSUME NEW s \in Segments, NEW i \in 1..m[s] PROVE Linked(G, m, s, i)
    <2>1. Linked(H, m, s, i)
        BY DEF Verified
    <2>2. CASE First(m, s, i) /\ H[s][i].prev = Genesis
        BY <1>2, <2>2 DEF Linked
    <2>3. ASSUME NEW r \in Segments, NEW j \in 1..m[r],
                 Prior(m, s, i, r, j), H[s][i].prev = H[r][j].hash
          PROVE  Linked(G, m, s, i)
        <3>1. G[s][i].prev = G[r][j].hash
            BY <1>2, <2>3
        <3> QED BY <2>3, <3>1 DEF Linked
    <2> QED BY <2>1, <2>2, <2>3 DEF Linked
<1>5. \A h : Holds(H, m, h) <=> Holds(G, m, h)
    BY <1>2 DEF Holds
<1>6. ASSUME Positional(G, m), NEW s \in Segments, NEW i \in 1..m[s] PROVE Numbered(H, m, s, i)
    <2>1. Numbered(G, m, s, i)
        BY <1>6 DEF Positional
    <2>2. CASE First(m, s, i) /\ G[s][i].seq = 0
        BY <1>2, <2>2 DEF Numbered
    <2>3. ASSUME NEW r \in Segments, NEW j \in 1..m[r],
                 Prior(m, s, i, r, j), G[s][i].seq = G[r][j].seq + 1
          PROVE  Numbered(H, m, s, i)
        <3>1. H[s][i].seq = H[r][j].seq + 1
            BY <1>2, <2>3
        <3> QED BY <2>3, <3>1 DEF Numbered
    <2> QED BY <2>1, <2>2, <2>3 DEF Numbered
<1> QED BY <1>1, <1>3, <1>4, <1>5, <1>6 DEF Verified, Positional

\* What verifies after a loss verified before it, with the same events at the same places.
LEMMA PrunedVerifies ==
    ASSUME NEW G \in Log, NEW H \in Log, NEW t, Pruned(G, H, t), NEW m, Verified(H, m)
    PROVE  /\ m \in Vector /\ Verified(G, m)
           /\ \A h : Holds(H, m, h) <=> Holds(G, m, h)
           /\ Positional(G, m) => Positional(H, m)
<1>1. ASSUME NEW s \in Segments, NEW i \in 1..m[s]
      PROVE  i \in 1..Len(G[s]) /\ H[s][i] = G[s][i]
    <2>1. m[s] \in Nat /\ m[s] <= Len(H[s]) /\ H[s][i] # Junk /\ Len(H[s]) \in Nat /\ Len(G[s]) \in Nat
        BY DEF Verified, Within, Vector, Log
    <2>2. i \in 1..Len(H[s])
        BY <2>1
    <2>3. i <= Len(G[s]) /\ H[s][i] = G[s][i]
        BY <2>1, <2>2 DEF Pruned
    <2> QED BY <2>1, <2>2, <2>3
<1> QED BY <1>1, SameVerifies

\* What is left of an ordered log is ordered.
LEMMA PrunedOrdered ==
    ASSUME NEW G \in Log, NEW H \in Log, NEW t \in Segments, Pruned(G, H, t), Ordered(G),
           Reaches(G, t) \/ Len(H[t]) <= Len(G[t])
    PROVE  Ordered(H) /\ \A q \in Segments : Reaches(G, q) => Reaches(H, q)
<1>1. ASSUME NEW m \in Vector, Verified(H, m) PROVE FullBelow(H, m)
    <2> SUFFICES ASSUME NEW s \in Segments, m[s] > 0, NEW r \in Segments, r < s
                 PROVE  m[r] = Len(H[r])
        BY DEF FullBelow
    <2>1. Verified(G, m)
        BY <1>1, PrunedVerifies
    <2>2. m[r] = Len(G[r]) /\ m[r] <= Len(H[r])
        BY <1>1, <2>1 DEF Ordered, FullBelow, Verified, Within
    <2>3. Len(H[r]) <= Len(G[r])
        <3>1. CASE r = t
            <4>1. ~Reaches(G, t)
                <5>1. m[s] # 0
                    BY DEF Vector
                <5> QED BY <2>1, <3>1, <5>1 DEF Reaches
            <4> QED BY <3>1, <4>1
        <3> QED BY <3>1 DEF Pruned
    <2>4. Len(H[r]) \in Nat /\ Len(G[r]) \in Nat
        BY DEF Log
    <2> QED BY <2>2, <2>3, <2>4
<1>2. ASSUME NEW m \in Vector, Verified(H, m) PROVE Positional(H, m)
    BY <1>2, PrunedVerifies DEF Ordered
<1>3. ASSUME NEW q \in Segments, Reaches(G, q) PROVE Reaches(H, q)
    BY <1>3, PrunedVerifies DEF Reaches
<1> QED BY <1>1, <1>2, <1>3 DEF Ordered

\* What has the last event of the log has all of it.
LEMMA LastIsWhole ==
    ASSUME NEW G \in Log, Distinct(G), NEW m \in Vector, Verified(G, m), FullBelow(G, m),
           NEW z \in Segments, Ends(Full(G), z), G[z][Len(G[z])] # Junk,
           Holds(G, m, G[z][Len(G[z])].hash)
    PROVE  m = Full(G)
<1>1. \A q \in Segments : /\ m[q] \in Nat /\ Len(G[q]) \in Nat /\ m[q] <= Len(G[q])
                           /\ Full(G)[q] = Len(G[q])
    BY DEF Vector, Log, Full, Verified, Within
<1>2. PICK s \in Segments : \E i \in 1..m[s] : G[s][i].hash = G[z][Len(G[z])].hash
    BY DEF Holds
<1>3. PICK i \in 1..m[s] : G[s][i].hash = G[z][Len(G[z])].hash
    BY <1>2
<1>4. i \in 1..Len(G[s]) /\ G[s][i] # Junk /\ Len(G[z]) \in 1..Len(G[z])
    <2>1. i \in 1..Len(G[s]) /\ Len(G[z]) \in 1..Len(G[z])
        BY <1>1 DEF Ends
    <2> QED BY <2>1 DEF Verified, Within
<1>5. s = z /\ i = Len(G[z])
    BY <1>3, <1>4 DEF Distinct
<1>6. ASSUME NEW q \in Segments PROVE m[q] = Full(G)[q]
    <2>1. Segments \subseteq Nat
        BY SegmentsAre
    <2>2. CASE q < z
        <3>1. m[z] > 0
            BY <1>1, <1>4, <1>5
        <3> QED BY <1>1, <2>2, <3>1 DEF FullBelow
    <2>3. CASE q = z
        BY <1>1, <1>5, <2>3
    <2>4. CASE z < q
        <3>1. Len(G[q]) = 0
            BY <1>1, <2>4 DEF Ends
        <3> QED BY <1>1, <3>1
    <2> QED BY <2>1, <2>2, <2>3, <2>4
<1>7. m = [q \in Segments |-> m[q]] /\ Full(G) = [q \in Segments |-> Full(G)[q]]
    BY DEF Vector, Full
<1> QED BY <1>6, <1>7

-----------------------------------------------------------------------------
(* Reading a log from its first line to its last.                          *)

\* With no gap, a place is first, or next to another, as its number says.
LEMMA PlaceNumbers ==
    ASSUME NEW G, IsLog(G), NEW w, Weighs(G, w), NEW m \in Vector, FullBelow(G, m),
           \A s \in Segments : m[s] <= Len(G[s]),
           NEW s \in Segments, NEW i \in 1..m[s]
    PROVE  /\ First(m, s, i) <=> w[s] + i = 1
           /\ \A r \in Segments : \A j \in 1..m[r] :
                 Prior(m, s, i, r, j) <=> w[s] + i = (w[r] + j) + 1
           /\ w[s] + i # 1 => \E r \in Segments : \E j \in 1..m[r] : Prior(m, s, i, r, j)
<1>1. N \in Nat /\ Segments = 0..(N - 1)
    BY SegmentsAre
<1>2. \A q \in Segments : m[q] \in Nat /\ Len(G[q]) \in Nat /\ w[q] \in Nat /\ m[q] <= Len(G[q])
                          /\ \A j \in 1..m[q] : j \in 1..Len(G[q])
    <2> TAKE q \in Segments
    <2>1. m[q] \in Nat /\ Len(G[q]) \in Nat /\ m[q] <= Len(G[q])
        BY DEF Vector, IsLog
    <2>2. w[q] \in Nat
        BY <1>1 DEF Weighs
    <2> QED BY <2>1, <2>2
<1>3. /\ i \in 1..Len(G[s]) /\ m[s] > 0
      /\ \A q \in Segments : q < s => m[q] = Len(G[q])
    BY <1>2 DEF FullBelow
\* The order of places is that of their numbers.
<1> DEFINE At(q, j) == w[q] + j
<1>4. \A q, r \in Segments : \A j \in 1..Len(G[q]) : \A k \in 1..Len(G[r]) :
         At(r, k) <= At(q, j) <=> r < q \/ (r = q /\ k <= j)
    BY OnePlace
<1>5. \A q \in Segments : \A j \in 1..Len(G[q]) : At(q, j) \in 1..w[N] /\ At(q, j) \in Nat
    BY <1>2, OnePlace
<1>6. At(s, i) > 1 => \E r \in Segments : \E j \in 1..Len(G[r]) : At(s, i) = At(r, j) + 1
    <2> SUFFICES ASSUME At(s, i) > 1 PROVE \E r \in Segments : \E j \in 1..Len(G[r]) : At(s, i) = At(r, j) + 1
        OBVIOUS
    <2> DEFINE n == At(s, i) - 1
    <2>1. n \in 1..w[N] /\ At(s, i) = n + 1
        <3>1. At(s, i) \in 1..w[N] /\ w[N] \in Nat
            BY <1>1, <1>3, <1>5 DEF Weighs
        <3> HIDE DEF At
        <3> QED BY <3>1
    <2> HIDE DEF n
    <2>2. PICK r \in Segments : \E j \in 1..Len(G[r]) : n = w[r] + j
        BY <2>1, EveryPlace
    <2> QED BY <2>1, <2>2
<1>7. w[s] + i = At(s, i) /\ \A r \in Segments : \A j \in 1..m[r] : w[r] + j = At(r, j)
    OBVIOUS
<1> HIDE DEF At
\* The place whose number is one less is the one next to it.
<1>8. ASSUME NEW r \in Segments, NEW j \in 1..Len(G[r]), At(s, i) = At(r, j) + 1
      PROVE  j \in 1..m[r] /\ Prior(m, s, i, r, j)
    <2>1. At(r, j) <= At(s, i) /\ ~(At(s, i) <= At(r, j)) /\ At(r, j) \in Nat
        BY <1>3, <1>5, <1>8
    <2>2. r < s \/ (r = s /\ j <= i)
        BY <1>3, <1>4, <2>1
    <2>3. \A q \in Segments : \A k \in 1..Len(G[q]) :
             At(q, k) <= At(r, j) \/ At(s, i) <= At(q, k)
        <3> TAKE q \in Segments
        <3> TAKE k \in 1..Len(G[q])
        <3>1. At(q, k) \in Nat
            BY <1>5
        <3> QED BY <1>8, <2>1, <3>1
    <2>4. CASE r = s
        <3>1. j <= i /\ j # i
            BY <2>1, <2>2, <2>4, <1>1
        <3>2. j < i /\ j \in 1..m[r] /\ i \in Nat /\ j \in Nat
            BY <1>2, <2>4, <3>1
        <3>3. j = i - 1
            <4> SUFFICES ASSUME j # i - 1 PROVE FALSE
                OBVIOUS
            <4>1. j + 1 \in 1..Len(G[s]) /\ ~(j + 1 <= j) /\ ~(i <= j + 1)
                BY <1>3, <1>2, <2>4, <3>2
            <4>2. ~(At(s, i) <= At(s, j + 1)) /\ ~(At(s, j + 1) <= At(r, j))
                <5>1. ~(s < s)
                    BY <1>1
                <5> QED BY <1>3, <1>4, <2>4, <4>1, <5>1
            <4> QED BY <2>3, <4>1, <4>2
        <3> QED BY <2>4, <3>2, <3>3 DEF Prior
    <2>5. CASE r < s
        <3>1. m[r] = Len(G[r]) /\ m[r] > 0 /\ j \in 1..m[r]
            BY <1>2, <1>3, <2>5
        <3>2. i = 1
            <4> SUFFICES ASSUME i # 1 PROVE FALSE
                OBVIOUS
            <4>1. i - 1 \in 1..Len(G[s]) /\ ~(i <= i - 1) /\ ~(s < r) /\ s # r
                BY <1>1, <1>2, <1>3, <2>5
            <4>2. ~(At(s, i - 1) <= At(r, j))
                BY <1>4, <4>1
            <4>3. ~(At(s, i) <= At(s, i - 1))
                <5>1. ~(s < s)
                    BY <1>1
                <5> QED BY <1>3, <1>4, <4>1, <5>1
            <4> QED BY <2>3, <4>1, <4>2, <4>3
        <3>3. j = m[r]
            <4> SUFFICES ASSUME j # m[r] PROVE FALSE
                OBVIOUS
            <4>1. j + 1 \in 1..Len(G[r]) /\ ~(j + 1 <= j) /\ ~(s < r) /\ s # r
                BY <1>1, <1>2, <2>5, <3>1
            <4>2. ~(At(r, j + 1) <= At(r, j))
                <5>1. ~(r < r)
                    BY <1>1
                <5> QED BY <1>4, <4>1, <5>1
            <4>3. ~(At(s, i) <= At(r, j + 1))
                BY <1>3, <1>4, <4>1
            <4> QED BY <2>3, <4>1, <4>2, <4>3
        <3>4. ASSUME NEW q \in Segments, r < q, q < s PROVE m[q] = 0
            <4> SUFFICES ASSUME m[q] # 0 PROVE FALSE
                OBVIOUS
            <4>1. 1 \in 1..Len(G[q]) /\ ~(q < r) /\ q # r /\ ~(s < q) /\ s # q
                BY <1>1, <1>2, <3>4
            <4> QED BY <1>3, <1>4, <2>3, <4>1
        <3> QED BY <2>5, <3>1, <3>2, <3>3, <3>4 DEF Prior
    <2> QED BY <2>2, <2>4, <2>5
\* A place next to it has the number one less.
<1>9. ASSUME NEW r \in Segments, NEW j \in 1..m[r], Prior(m, s, i, r, j)
      PROVE  At(s, i) = At(r, j) + 1
    <2>1. j \in 1..Len(G[r]) /\ j \in Nat /\ i \in Nat /\ r \in Nat /\ s \in Nat
        BY <1>1, <1>2, <1>3
    <2>2. r < s \/ (r = s /\ j < i)
        BY <1>9, <2>1 DEF Prior
    <2>3. ~(At(s, i) <= At(r, j)) /\ At(s, i) \in Nat /\ At(r, j) \in Nat /\ At(r, j) > 0
        <3>1. ~(s < r \/ (s = r /\ i <= j))
            BY <2>1, <2>2
        <3>2. At(r, j) \in 1..w[N]
            BY <1>5, <2>1
        <3> QED BY <1>3, <1>4, <1>5, <2>1, <3>1, <3>2
    <2>4. At(s, i) > 1
        BY <2>3
    <2>5. PICK a \in Segments : \E k \in 1..Len(G[a]) : At(s, i) = At(a, k) + 1
        BY <1>6, <2>4
    <2>6. PICK k \in 1..Len(G[a]) : At(s, i) = At(a, k) + 1
        BY <2>5
    <2>7. Prior(m, s, i, a, k) /\ k \in 1..m[a]
        BY <1>8, <2>6
    <2>8. a = r /\ k = j
        <3>1. CASE r = s
            <4>1. i > 1 /\ j = i - 1
                BY <1>9, <2>1, <3>1 DEF Prior
            <4> QED BY <2>1, <2>7, <3>1, <4>1 DEF Prior
        <3>2. CASE r < s
            <4>1. i = 1 /\ j = m[r] /\ m[r] > 0 /\ \A q \in Segments : r < q /\ q < s => m[q] = 0
                BY <1>9, <2>1, <3>2 DEF Prior
            <4>2. a < s /\ k = m[a] /\ m[a] > 0 /\ \A q \in Segments : a < q /\ q < s => m[q] = 0
                BY <2>7, <4>1 DEF Prior
            <4>3. ~(r < a) /\ ~(a < r) /\ a \in Nat
                BY <1>1, <3>2, <4>1, <4>2, <1>2
            <4> QED BY <2>1, <4>1, <4>2, <4>3
        <3> QED BY <2>2, <3>1, <3>2
    <2> QED BY <2>6, <2>8
<1>10. First(m, s, i) => At(s, i) = 1
    <2> SUFFICES ASSUME First(m, s, i), At(s, i) # 1 PROVE FALSE
        OBVIOUS
    <2>1. At(s, i) > 1
        <3>1. At(s, i) \in 1..w[N]
            BY <1>3, <1>5
        <3> QED BY <3>1
    <2>2. PICK r \in Segments : \E j \in 1..Len(G[r]) : At(s, i) = At(r, j) + 1
        BY <1>6, <2>1
    <2>3. PICK j \in 1..Len(G[r]) : At(s, i) = At(r, j) + 1
        BY <2>2
    <2>4. j \in 1..m[r] /\ Prior(m, s, i, r, j)
        BY <1>8, <2>3
    <2> QED BY <1>1, <1>2, <2>4 DEF First, Prior
<1>11. At(s, i) = 1 => First(m, s, i)
    <2> SUFFICES ASSUME At(s, i) = 1 PROVE First(m, s, i)
        OBVIOUS
    <2>1. \A q \in Segments : \A k \in 1..Len(G[q]) : At(s, i) <= At(q, k)
        <3> TAKE q \in Segments
        <3> TAKE k \in 1..Len(G[q])
        <3>1. At(q, k) \in 1..w[N]
            BY <1>5
        <3> QED BY <3>1
    <2>2. i = 1
        <3>1. 1 \in 1..Len(G[s])
            BY <1>2, <1>3
        <3>2. i <= 1
            BY <1>1, <1>3, <1>4, <2>1, <3>1
        <3> QED BY <3>2
    <2>3. ASSUME NEW q \in Segments, q < s, m[q] # 0 PROVE FALSE
        <3>1. 1 \in 1..Len(G[q]) /\ ~(s < q) /\ s # q
            BY <1>1, <1>2, <2>3
        <3> QED BY <1>3, <1>4, <2>1, <3>1
    <2> QED BY <2>2, <2>3 DEF First
<1>12. At(s, i) # 1 => \E r \in Segments : \E j \in 1..m[r] : Prior(m, s, i, r, j)
    <2> SUFFICES ASSUME At(s, i) # 1 PROVE \E r \in Segments : \E j \in 1..m[r] : Prior(m, s, i, r, j)
        OBVIOUS
    <2>1. At(s, i) > 1
        <3>1. At(s, i) \in 1..w[N]
            BY <1>3, <1>5
        <3> QED BY <3>1
    <2> QED BY <1>6, <1>8, <2>1
<1>13. \A r \in Segments : \A j \in 1..m[r] : Prior(m, s, i, r, j) <=> At(s, i) = At(r, j) + 1
    BY <1>2, <1>8, <1>9
<1> QED BY <1>7, <1>10, <1>11, <1>12, <1>13

\* The events of what verifies count from 0.
LEMMA PositionalCounts ==
    ASSUME NEW G, IsLog(G), NEW w, Weighs(G, w), NEW m \in Vector,
           FullBelow(G, m), Positional(G, m), \A s \in Segments : m[s] <= Len(G[s])
    PROVE  \A s \in Segments : \A i \in 1..m[s] : G[s][i].seq = (w[s] + i) - 1
<1> DEFINE S == {n \in 0..w[N] : \A s \in Segments : \A i \in 1..m[s] :
                    w[s] + i = n => G[s][i].seq = n - 1}
<1>1. N \in Nat /\ Segments = 0..(N - 1) /\ w[N] \in Nat
    BY SegmentsAre DEF Weighs
<1>2. \A s \in Segments : \A i \in 1..m[s] : w[s] + i \in 1..w[N] /\ w[s] \in Nat /\ i \in 1..Len(G[s])
    <2> TAKE s \in Segments
    <2> TAKE i \in 1..m[s]
    <2>1. i \in 1..Len(G[s])
        BY DEF Vector, IsLog
    <2> QED BY <2>1, OnePlace
<1>3. 0 \in S
    <2> SUFFICES ASSUME NEW s \in Segments, NEW i \in 1..m[s], w[s] + i = 0 PROVE FALSE
        BY <1>1
    <2>1. w[s] + i \in 1..w[N]
        BY <1>2
    <2> QED BY <2>1
<1>4. ASSUME NEW k \in 0..(w[N] - 1), k \in S PROVE k + 1 \in S
    <2> SUFFICES ASSUME NEW s \in Segments, NEW i \in 1..m[s], w[s] + i = k + 1
                 PROVE  G[s][i].seq = (k + 1) - 1
        BY <1>1
    <2>1. Numbered(G, m, s, i)
        BY DEF Positional
    <2>2. CASE First(m, s, i) /\ G[s][i].seq = 0
        <3>1. k + 1 = 1
            BY <2>2, PlaceNumbers
        <3> QED BY <2>2, <3>1
    <2>3. ASSUME NEW r \in Segments, NEW j \in 1..m[r], Prior(m, s, i, r, j),
                 G[s][i].seq = G[r][j].seq + 1
          PROVE  G[s][i].seq = (k + 1) - 1
        <3>1. w[s] + i = (w[r] + j) + 1
            BY <2>3, PlaceNumbers
        <3>2. w[r] + j \in Nat
            BY <1>2
        <3>3. w[r] + j = k
            <4> DEFINE x == w[r] + j
            <4>1. k + 1 = x + 1 /\ x \in Nat
                BY <3>1, <3>2
            <4> HIDE DEF x
            <4>2. x = k
                BY <4>1
            <4> QED BY <4>2 DEF x
        <3>4. G[r][j].seq = k - 1
            BY <1>4, <3>3
        <3> QED BY <2>3, <3>4
    <2> QED BY <2>1, <2>2, <2>3 DEF Numbered
<1>5. \A n \in 0..w[N] : n \in S
    <2> HIDE DEF S
    <2> QED BY <1>1, <1>3, <1>4, UpTo
<1> SUFFICES ASSUME NEW s \in Segments, NEW i \in 1..m[s] PROVE G[s][i].seq = (w[s] + i) - 1
    OBVIOUS
<1>6. w[s] + i \in 0..w[N]
    BY <1>1, <1>2
<1> QED BY <1>5, <1>6

\* The chain verifies when the whole log does.
LEMMA WholeVerifies ==
    ASSUME NEW G \in [Segments -> Seq(Event)]
    PROVE  Verifies(Flat(G)) <=> Verified(G, Full(G))
<1> DEFINE K == Flat(G)
           w == Before(G)
           m == Full(G)
<1>1. /\ IsLog(G) /\ Weighs(G, w) /\ K \in Seq(Event) /\ Len(K) = w[N]
      /\ \A s \in Segments : \A i \in 1..Len(G[s]) : K[w[s] + i] = G[s][i]
    BY FlatIs
<1>2. m \in Vector /\ FullBelow(G, m) /\ \A s \in Segments : m[s] = Len(G[s]) /\ m[s] <= Len(G[s])
    <2>1. \A s \in Segments : Len(G[s]) \in Nat
        OBVIOUS
    <2> QED BY <2>1 DEF Full, Vector, FullBelow
<1>3. Within(G, m)
    BY <1>2, ValuesAssumption DEF Within
<1>4. \A s \in Segments : \A i \in 1..m[s] : w[s] + i \in 1..Len(K) /\ w[s] \in Nat
    BY <1>1, <1>2, OnePlace
<1>5. Len(K) \in Nat
    BY <1>1
<1> HIDE DEF K, w, m
<1>places. ASSUME NEW s \in Segments, NEW i \in 1..m[s]
           PROVE  /\ First(m, s, i) <=> w[s] + i = 1
                  /\ \A r \in Segments : \A j \in 1..m[r] :
                        Prior(m, s, i, r, j) <=> w[s] + i = (w[r] + j) + 1
                  /\ w[s] + i # 1 => \E r \in Segments : \E j \in 1..m[r] : Prior(m, s, i, r, j)
    <2>1. IsLog(G) /\ Weighs(G, w)
        BY <1>1
    <2>2. m \in Vector /\ FullBelow(G, m) /\ \A q \in Segments : m[q] <= Len(G[q])
        BY <1>2
    <2> QED BY <2>1, <2>2, PlaceNumbers
<1>6. ASSUME Verifies(K), NEW s \in Segments, NEW i \in 1..m[s] PROVE Linked(G, m, s, i)
    <2> DEFINE n == w[s] + i
    <2>1. n \in 1..Len(K) /\ K[n] = G[s][i]
        BY <1>1, <1>2, <1>4
    <2>2. K[n].prev = IF n = 1 THEN Genesis ELSE K[n - 1].hash
        BY <1>6, <2>1 DEF Verifies
    <2>3. CASE n = 1
        <3>1. First(m, s, i)
            BY <1>places, <2>3
        <3> QED BY <2>1, <2>2, <2>3, <3>1 DEF Linked
    <2>4. CASE n # 1
        <3>1. PICK r \in Segments : \E j \in 1..m[r] : Prior(m, s, i, r, j)
            BY <1>places, <2>4
        <3>2. PICK j \in 1..m[r] : Prior(m, s, i, r, j)
            BY <3>1
        <3>3. n = (w[r] + j) + 1
            BY <1>places, <3>2
        <3>4. w[r] + j \in 1..Len(K) /\ K[w[r] + j] = G[r][j]
            BY <1>1, <1>2, <1>4
        <3> HIDE DEF n
        <3>5. n - 1 = w[r] + j
            <4> DEFINE x == w[r] + j
            <4>1. n = x + 1 /\ x \in Nat
                BY <1>5, <3>3, <3>4
            <4> HIDE DEF x
            <4>2. n - 1 = x
                BY <4>1
            <4> QED BY <4>2 DEF x
        <3>6. G[s][i].prev = G[r][j].hash
            BY <2>1, <2>2, <2>4, <3>4, <3>5
        <3> QED BY <3>2, <3>6 DEF Linked
    <2> QED BY <2>3, <2>4
<1>7. ASSUME Verified(G, m), NEW n \in 1..Len(K)
      PROVE  K[n].prev = IF n = 1 THEN Genesis ELSE K[n - 1].hash
    <2>1. PICK s \in Segments : \E i \in 1..Len(G[s]) : n = w[s] + i /\ K[n] = G[s][i]
        BY FlatAt DEF K, w
    <2>2. PICK i \in 1..Len(G[s]) : n = w[s] + i /\ K[n] = G[s][i]
        BY <2>1
    <2>3. i \in 1..m[s]
        BY <1>2
    <2>4. Linked(G, m, s, i)
        BY <1>7, <2>3 DEF Verified
    <2>5. CASE First(m, s, i) /\ G[s][i].prev = Genesis
        <3>1. n = 1
            BY <1>places, <2>2, <2>3, <2>5
        <3> QED BY <2>2, <2>5, <3>1
    <2>6. ASSUME NEW r \in Segments, NEW j \in 1..m[r], Prior(m, s, i, r, j),
                 G[s][i].prev = G[r][j].hash
          PROVE  K[n].prev = IF n = 1 THEN Genesis ELSE K[n - 1].hash
        <3>1. w[s] + i = (w[r] + j) + 1
            BY <1>places, <2>3, <2>6
        <3>2. w[r] + j \in 1..Len(K) /\ K[w[r] + j] = G[r][j]
            BY <1>1, <1>2, <1>4
        <3>3. n # 1 /\ n - 1 = w[r] + j
            <4> DEFINE x == w[r] + j
            <4>1. n = x + 1 /\ x \in 1..Len(K)
                BY <2>2, <3>1, <3>2
            <4> HIDE DEF x
            <4>2. n # 1 /\ n - 1 = x
                BY <1>5, <4>1
            <4> QED BY <4>2 DEF x
        <3> QED BY <2>2, <2>6, <3>2, <3>3
    <2> QED BY <2>4, <2>5, <2>6 DEF Linked
<1> QED BY <1>2, <1>3, <1>6, <1>7 DEF Verified, Verifies, K, m

\* What open reads is then the chain, event by event ...
LEMMA ReadTight ==
    ASSUME NEW G \in [Segments -> Seq(Event)]
    PROVE  /\ Flat(G) # <<>> => \E s \in Segments : /\ Ends(Full(G), s)
                                                    /\ G[s][Len(G[s])] = Flat(G)[Len(Flat(G))]
           /\ Verifies(Flat(G)) => Tight(G, Flat(G))
<1> DEFINE K == Flat(G)
           w == Before(G)
<1>1. /\ IsLog(G) /\ Weighs(G, w) /\ K \in Seq(Event) /\ Len(K) = w[N] /\ Len(K) \in Nat
      /\ \A s \in Segments : \A i \in 1..Len(G[s]) : K[w[s] + i] = G[s][i]
    <2>1. /\ IsLog(G) /\ Weighs(G, w) /\ K \in Seq(Event) /\ Len(K) = w[N]
          /\ \A s \in Segments : \A i \in 1..Len(G[s]) : K[w[s] + i] = G[s][i]
        BY FlatIs
    <2>2. Len(K) \in Nat
        <3> HIDE DEF K
        <3> QED BY <2>1, LenProperties
    <2> QED BY <2>1, <2>2
<1>2. \A s \in Segments : Len(G[s]) \in Nat /\ Full(G)[s] = Len(G[s]) /\ s \in Nat
    BY SegmentsAre DEF Full
<1> HIDE DEF K, w
<1>3. ASSUME K # <<>>
      PROVE  \E s \in Segments : Ends(Full(G), s) /\ G[s][Len(G[s])] = K[Len(K)]
    <2>1. Len(K) \in 1..Len(K)
        BY <1>1, <1>3
    <2>2. PICK s \in Segments : \E i \in 1..Len(G[s]) : Len(K) = w[s] + i /\ K[Len(K)] = G[s][i]
        BY <2>1, FlatAt DEF K, w
    <2>3. PICK i \in 1..Len(G[s]) : Len(K) = w[s] + i /\ K[Len(K)] = G[s][i]
        BY <2>2
    <2>4. \A q \in Segments : \A j \in 1..Len(G[q]) : q < s \/ (q = s /\ j <= i)
        <3> TAKE q \in Segments
        <3> TAKE j \in 1..Len(G[q])
        <3>1. w[q] + j \in 1..w[N]
            BY <1>1, OnePlace
        <3>2. w[q] + j <= w[s] + i
            <4> DEFINE x == w[q] + j
                       y == w[s] + i
            <4>1. x \in 1..y
                BY <1>1, <2>3, <3>1
            <4> HIDE DEF x, y
            <4>2. x <= y
                BY <4>1
            <4> QED BY <4>2 DEF x, y
        <3> QED BY <1>1, <3>2, OnePlace
    <2>5. i = Len(G[s])
        <3>1. Len(G[s]) \in 1..Len(G[s])
            BY <1>2
        <3>2. Len(G[s]) <= i
            BY <1>2, <2>4, <3>1
        <3> QED BY <1>2, <3>2
    <2>6. ASSUME NEW q \in Segments, s < q PROVE Len(G[q]) = 0
        <3> SUFFICES ASSUME Len(G[q]) # 0 PROVE FALSE
            OBVIOUS
        <3>1. 1 \in 1..Len(G[q])
            BY <1>2
        <3> QED BY <1>2, <2>4, <2>6, <3>1
    <2>7. Full(G)[s] > 0 /\ \A q \in Segments : s < q => Full(G)[q] = 0
        BY <1>2, <2>3, <2>5, <2>6
    <2>8. Ends(Full(G), s)
        BY <2>7 DEF Ends
    <2> QED BY <2>3, <2>5, <2>8
<1>4. ASSUME K = <<>>, NEW s \in Segments PROVE Len(G[s]) = 0
    <2> SUFFICES ASSUME Len(G[s]) # 0 PROVE FALSE
        OBVIOUS
    <2>1. 1 \in 1..Len(G[s])
        BY <1>2
    <2>2. w[s] + 1 \in 1..w[N]
        BY <1>1, <2>1, OnePlace
    <2>3. w[N] = 0
        BY <1>1, <1>4
    <2> QED BY <2>2, <2>3
<1>5. \A n \in 1..Len(K) : \E s \in Segments : \E i \in 1..Len(G[s]) : G[s][i] = K[n]
    BY FlatAt DEF K
<1>6. Verifies(K) => Verified(G, Full(G))
    BY WholeVerifies DEF K
<1> QED BY <1>3, <1>4, <1>5, <1>6 DEF Tight, K

\* ... and if it does not verify, nothing that does ends where it ends.
LEMMA ReadLoose ==
    ASSUME NEW G \in [Segments -> Seq(Event)], Ordered(G), Distinct(G),
           ~Verifies(Flat(G)), NEW t \in Segments
    PROVE  Loose(G, Flat(G), t)
<1> DEFINE K == Flat(G)
<1>1. ~Verified(G, Full(G))
    BY WholeVerifies
<1>2. K # <<>>
    <2> SUFFICES ASSUME K = <<>> PROVE Verifies(K)
        OBVIOUS
    <2>1. Len(K) = 0
        OBVIOUS
    <2> HIDE DEF K
    <2> QED BY <2>1 DEF Verifies
<1>3. PICK z \in Segments : Ends(Full(G), z) /\ G[z][Len(G[z])] = K[Len(K)]
    BY <1>2, ReadTight
<1> HIDE DEF K
<1>4. ASSUME NEW m \in Vector, Verified(G, m), NEW s \in Segments, Ends(m, s),
             G[s][m[s]].hash = K[Len(K)].hash
      PROVE  FALSE
    <2>1. m[s] \in 1..m[s]
        BY <1>4 DEF Vector, Ends
    <2>2. Holds(G, m, G[z][Len(G[z])].hash)
        BY <1>3, <1>4, <2>1 DEF Holds
    <2>3. G \in Log /\ G[z][Len(G[z])] # Junk /\ FullBelow(G, m)
        <3>1. Len(G[z]) \in 1..Len(G[z])
            BY <1>3 DEF Ends, Full
        <3> QED BY <1>4, <3>1, ValuesAssumption DEF Log, Ordered
    <2>4. m = Full(G)
        BY <1>3, <1>4, <2>2, <2>3, LastIsWhole
    <2> QED BY <1>1, <1>4, <2>4
<1> QED BY <1>2, <1>4 DEF Loose, K

\* What verifies ends where the next event goes, or before.
LEMMA ReadReaches ==
    ASSUME NEW G \in [Segments -> Seq(Event)], Ordered(G),
           \A s \in Segments : \A i \in 1..Len(G[s]) : SegmentOf(G[s][i].seq) = s
    PROVE  Reaches(G, SegmentOf(Len(Flat(G))))
<1> DEFINE K == Flat(G)
           w == Before(G)
<1>1. /\ IsLog(G) /\ Weighs(G, w) /\ K \in Seq(Event) /\ Len(K) = w[N] /\ Len(K) \in Nat
      /\ \A s \in Segments : \A i \in 1..Len(G[s]) : K[w[s] + i] = G[s][i]
    <2>1. /\ IsLog(G) /\ Weighs(G, w) /\ K \in Seq(Event) /\ Len(K) = w[N]
          /\ \A s \in Segments : \A i \in 1..Len(G[s]) : K[w[s] + i] = G[s][i]
        BY FlatIs
    <2>2. Len(K) \in Nat
        <3> HIDE DEF K
        <3> QED BY <2>1, LenProperties
    <2> QED BY <2>1, <2>2
<1> HIDE DEF K, w
<1>2. ASSUME NEW m \in Vector, Verified(G, m), NEW q \in Segments, m[q] # 0
      PROVE  ~(SegmentOf(Len(K)) < q)
    <2>1. /\ FullBelow(G, m) /\ Positional(G, m)
          /\ \A s \in Segments : m[s] <= Len(G[s]) /\ m[s] \in Nat /\ Len(G[s]) \in Nat
        BY <1>2 DEF Ordered, Verified, Within, Vector
    <2>2. 1 \in 1..m[q] /\ 1 \in 1..Len(G[q])
        BY <1>2, <2>1
    <2>3. G[q][1].seq = (w[q] + 1) - 1
        BY <1>1, <2>1, <2>2, PositionalCounts
    <2>4. w[q] \in Nat /\ w[q] + 1 \in 1..w[N]
        BY <1>1, <2>2, OnePlace
    <2>5. w[q] <= Len(K) /\ G[q][1].seq = w[q]
        BY <1>1, <2>3, <2>4
    <2>6. SegmentOf(w[q]) = q /\ SegmentOf(w[q]) <= SegmentOf(Len(K))
        BY <1>1, <2>2, <2>4, <2>5, SegmentsGrow
    <2>7. SegmentOf(Len(K)) \in Nat /\ q \in Nat
        <3>1. q \in Nat
            BY SegmentsAre
        <3> QED BY <1>1, <3>1, SegmentBounds
    <2> QED BY <2>6, <2>7
<1> QED BY <1>2 DEF Reaches, K

-----------------------------------------------------------------------------
(* Writing the next event.                                                 *)

\* Below a segment that has lines in both, what is left is the same.
LEMMA OffLast ==
    ASSUME NEW m, NEW k, NEW t \in Segments, NEW s \in Segments, s <= t, NEW i \in Nat,
           \A q \in Segments : q < t => m[q] = k[q]
    PROVE  /\ First(m, s, i) <=> First(k, s, i)
           /\ \A r \in Segments : \A j \in Nat : Prior(m, s, i, r, j) <=> Prior(k, s, i, r, j)
           /\ \A r \in Segments : \A j \in Nat : Prior(m, s, i, r, j) => r = s \/ r < t
<1>1. Segments \subseteq Nat
    BY SegmentsAre
<1>2. \A q \in Segments : q < s => q < t
    BY <1>1
<1> QED BY <1>1, <1>2 DEF First, Prior

\* e is the event that extends the chain K, newer than any of the log.
Extends(G, K, e) ==
    /\ K \in Seq(Event) /\ e \in Event
    /\ e.seq = Len(K)
    /\ e.prev = IF K = <<>> THEN Genesis ELSE K[Len(K)].hash
    /\ e.prev < e.hash
    /\ \A s \in Segments : \A i \in 1..Len(G[s]) : G[s][i] # Junk =>
         /\ G[s][i].prev < G[s][i].hash /\ G[s][i].hash < e.hash
         /\ K # <<>> /\ G[s][i].hash = K[Len(K)].hash => G[s][i] = K[Len(K)]
    /\ Verifies(K) /\ K # <<>> => K[Len(K)].seq = Len(K) - 1

With(G, t, e) == [G EXCEPT ![t] = Append(@, e)]

\* A line added to the end of one segment.
LEMMA WithIs ==
    ASSUME NEW G \in Log, NEW t \in Segments, NEW e \in Event \cup {Junk}
    PROVE  /\ With(G, t, e) \in Log
           /\ Len(With(G, t, e)[t]) = Len(G[t]) + 1
           /\ With(G, t, e)[t][Len(G[t]) + 1] = e
           /\ \A s \in Segments : s # t => With(G, t, e)[s] = G[s]
           /\ \A s \in Segments : \A i \in 1..Len(G[s]) :
                 i \in 1..Len(With(G, t, e)[s]) /\ With(G, t, e)[s][i] = G[s][i]
           /\ \A s \in Segments : Len(G[s]) \in Nat
<1> DEFINE H == With(G, t, e)
<1>1. G \in [Segments -> Seq(Event \cup {Junk})] /\ H = [G EXCEPT ![t] = Append(G[t], e)]
    BY DEF Log, With
<1>2. \A s \in Segments : s # t => H[s] = G[s]
    BY <1>1
<1>3. H[t] = Append(G[t], e) /\ G[t] \in Seq(Event \cup {Junk})
    BY <1>1
<1>4. H[t] \in Seq(Event \cup {Junk}) /\ Len(H[t]) = Len(G[t]) + 1 /\ H[t][Len(G[t]) + 1] = e
      /\ \A i \in 1..Len(G[t]) : H[t][i] = G[t][i]
    BY <1>3, AppendProperties
<1>5. H \in Log
    BY <1>1, <1>2, <1>4 DEF Log
<1>6. \A s \in Segments : Len(G[s]) \in Nat
    BY <1>1
<1> HIDE DEF H
<1>7. \A s \in Segments : \A i \in 1..Len(G[s]) : i \in 1..Len(H[s]) /\ H[s][i] = G[s][i]
    BY <1>2, <1>4, <1>6
<1> QED BY <1>2, <1>4, <1>5, <1>6, <1>7 DEF H

\* What verifies after the write, verified before, or is the whole log and
\* this was the chain.
LEMMA WithVerifies ==
    ASSUME NEW G \in Log, Ordered(G), Distinct(G), NEW K, NEW e, Extends(G, K, e),
           NEW t \in Segments, Tight(G, K) \/ Loose(G, K, t),
           NEW m, Verified(With(G, t, e), m)
    PROVE  \/ Verified(G, m) /\ m[t] <= Len(G[t])
           \/ /\ Tight(G, K)
              /\ m[t] = Len(G[t]) + 1
              /\ m = Full(With(G, t, e))
              /\ \A q \in Segments : t < q => m[q] = 0
<1> DEFINE H == With(G, t, e)
<1>1. /\ H \in Log
      /\ Len(H[t]) = Len(G[t]) + 1 /\ H[t][Len(G[t]) + 1] = e
      /\ \A s \in Segments : s # t => H[s] = G[s]
      /\ \A s \in Segments : \A i \in 1..Len(G[s]) : i \in 1..Len(H[s]) /\ H[s][i] = G[s][i]
      /\ \A s \in Segments : Len(G[s]) \in Nat
    <2>1. e \in Event \cup {Junk}
        BY DEF Extends
    <2> QED BY <2>1, WithIs
<1>2. m \in Vector /\ Verified(H, m)
    BY DEF Verified
<1> HIDE DEF H
<1>3. /\ \A s \in Segments : m[s] \in Nat /\ m[s] <= Len(H[s])
      /\ \A s \in Segments : \A i \in 1..m[s] : i \in 1..Len(H[s]) /\ H[s][i] # Junk
    <2> SUFFICES ASSUME NEW s \in Segments
                 PROVE  /\ m[s] \in Nat /\ m[s] <= Len(H[s])
                        /\ \A i \in 1..m[s] : i \in 1..Len(H[s]) /\ H[s][i] # Junk
        OBVIOUS
    <2>1. m[s] \in Nat /\ m[s] <= Len(H[s]) /\ Len(H[s]) \in Nat
        BY <1>1, <1>2 DEF Vector, Verified, Within, Log
    <2> QED BY <1>2, <2>1 DEF Verified, Within
<1>4. Segments \subseteq Nat
    BY SegmentsAre
<1>5. CASE m[t] <= Len(G[t])
    <2>1. \A s \in Segments : \A i \in 1..m[s] : i \in 1..Len(G[s]) /\ H[s][i] = G[s][i]
        <3> SUFFICES ASSUME NEW s \in Segments, NEW i \in 1..m[s]
                     PROVE  i \in 1..Len(G[s])
            BY <1>1
        <3> QED BY <1>1, <1>3, <1>5
    <2>2. Verified(G, m)
        BY <1>2, <2>1, SameVerifies
    <2> QED BY <1>5, <2>2
<1>6. CASE ~(m[t] <= Len(G[t]))
    <2> DEFINE n == Len(G[t])
    <2>1. m[t] = n + 1 /\ n \in Nat /\ n + 1 \in 1..m[t]
        BY <1>1, <1>3, <1>6
    <2>2. \A q \in Segments : t < q => m[q] = 0
        <3> DEFINE Q == {q \in Segments : t < q /\ m[q] # 0}
        <3> SUFFICES ASSUME Q # {} PROVE FALSE
            OBVIOUS
        <3>1. Q \subseteq Nat
            BY <1>4
        <3>2. PICK q \in Q : \A r \in Q : q <= r
            <4> HIDE DEF Q
            <4> QED BY <3>1, LeastOf
        <3>3. q \in Segments /\ t < q /\ m[q] # 0 /\ q # t /\ 1 \in 1..m[q]
            BY <1>3, <1>4
        <3>4. H[q][1] = G[q][1] /\ G[q][1] # Junk /\ 1 \in 1..Len(G[q])
            BY <1>1, <1>3, <3>3
        <3>5. Linked(H, m, q, 1)
            BY <1>2, <3>3 DEF Verified
        <3>6. ~First(m, q, 1)
            BY <2>1, <3>3 DEF First
        <3>7. PICK r \in Segments : \E j \in 1..m[r] : Prior(m, q, 1, r, j) /\ H[q][1].prev = H[r][j].hash
            BY <3>5, <3>6 DEF Linked
        <3>8. PICK j \in 1..m[r] : Prior(m, q, 1, r, j) /\ H[q][1].prev = H[r][j].hash
            BY <3>7
        <3>9. r < q /\ j = m[r] /\ m[r] > 0 /\ \A p \in Segments : r < p /\ p < q => m[p] = 0
            BY <3>8 DEF Prior
        <3>10. ~(t < r) /\ ~(r < t)
            <4>1. t < r => r \in Q /\ ~(q <= r)
                BY <1>3, <1>4, <3>3, <3>9
            <4>2. r < t => m[t] = 0
                BY <3>3, <3>9
            <4> QED BY <2>1, <3>2, <4>1, <4>2
        <3>11. r = t
            BY <1>4, <3>10
        <3>12. H[q][1].prev = e.hash
            BY <1>1, <2>1, <3>8, <3>9, <3>11
        <3>13. G[q][1].prev < G[q][1].hash /\ G[q][1].hash < e.hash
            BY <3>4 DEF Extends
        <3>14. e.hash \in Nat /\ G[q][1].hash \in Nat
            <4>1. G[q][1] \in Event
                BY <3>4 DEF Log
            <4> QED BY <4>1 DEF Event, Hashes, Extends
        <3>15. G[q][1].prev = e.hash
            BY <3>4, <3>12
        <3> QED BY <3>13, <3>14, <3>15
    <2> DEFINE k == [m EXCEPT ![t] = n]
    <2>3. /\ k \in Vector /\ k[t] = n
          /\ \A q \in Segments : q # t => k[q] = m[q]
          /\ \A q \in Segments : t < q => k[q] = 0
        BY <1>2, <1>4, <2>1, <2>2 DEF Vector
    <2> HIDE DEF k
    <2>4. \A s \in Segments : /\ k[s] \in Nat /\ k[s] <= Len(G[s]) /\ k[s] <= m[s]
                              /\ \A i \in 1..k[s] : /\ i \in 1..m[s] /\ i \in 1..Len(G[s])
                                                    /\ H[s][i] = G[s][i] /\ G[s][i] # Junk
        <3> SUFFICES ASSUME NEW s \in Segments
                     PROVE  /\ k[s] \in Nat /\ k[s] <= Len(G[s]) /\ k[s] <= m[s]
                            /\ \A i \in 1..k[s] : /\ i \in 1..m[s] /\ i \in 1..Len(G[s])
                                                  /\ H[s][i] = G[s][i] /\ G[s][i] # Junk
            OBVIOUS
        <3>1. k[s] \in Nat /\ k[s] <= Len(G[s]) /\ k[s] <= m[s]
            BY <1>1, <1>3, <2>1, <2>3
        <3>2. ASSUME NEW i \in 1..k[s] PROVE i \in 1..m[s] /\ i \in 1..Len(G[s])
            BY <1>1, <1>3, <3>1
        <3> QED BY <1>1, <1>3, <3>1, <3>2
    <2>5. Verified(G, k)
        <3>1. ASSUME NEW s \in Segments, NEW i \in 1..k[s] PROVE Linked(G, k, s, i)
            <4>1. Linked(H, m, s, i) /\ i \in Nat /\ i \in 1..m[s]
                BY <1>2, <2>4 DEF Verified
            <4>2. s <= t
                BY <1>4, <2>3, <3>1
            <4>3. \A q \in Segments : q < t => m[q] = k[q]
                BY <1>4, <2>3
            <4>4. CASE First(m, s, i) /\ H[s][i].prev = Genesis
                <5>1. First(k, s, i)
                    BY <4>1, <4>2, <4>3, <4>4, OffLast
                <5> QED BY <2>4, <4>4, <5>1 DEF Linked
            <4>5. ASSUME NEW r \in Segments, NEW j \in 1..m[r],
                         Prior(m, s, i, r, j), H[s][i].prev = H[r][j].hash
                  PROVE  Linked(G, k, s, i)
                <5>1. Prior(k, s, i, r, j) /\ (r = s \/ r < t) /\ j \in Nat
                    BY <1>3, <4>1, <4>2, <4>3, <4>5, OffLast
                <5>2. j \in 1..k[r]
                    <6>1. CASE r = s
                        <7>1. j = i - 1 \/ r < s
                            BY <4>5 DEF Prior
                        <7> QED BY <1>4, <2>4, <3>1, <5>1, <6>1, <7>1
                    <6>2. CASE r < t
                        BY <1>4, <2>3, <4>5, <6>2
                    <6> QED BY <5>1, <6>1, <6>2
                <5>3. G[s][i].prev = G[r][j].hash
                    BY <2>4, <3>1, <4>5, <5>2
                <5> QED BY <5>1, <5>2, <5>3 DEF Linked
            <4> QED BY <4>1, <4>4, <4>5 DEF Linked
        <3> QED BY <2>3, <2>4, <3>1 DEF Verified, Within
    <2>6. \A s \in Segments : \A i \in 1..k[s] : G[s][i] \in Event /\ G[s][i].hash # Genesis
        <3> SUFFICES ASSUME NEW s \in Segments, NEW i \in 1..k[s]
                     PROVE  G[s][i] \in Event /\ G[s][i].hash # Genesis
            OBVIOUS
        <3>1. i \in 1..Len(G[s]) /\ G[s][i] # Junk
            BY <2>4
        <3>2. G[s][i] \in Event
            BY <3>1 DEF Log
        <3> QED BY <3>2 DEF Event, Hashes, Genesis
    <2>7. K # <<>> => K[Len(K)].hash # Genesis
        <3> SUFFICES ASSUME K # <<>> PROVE K[Len(K)].hash # Genesis
            OBVIOUS
        <3>1. K[Len(K)] \in Event
            BY DEF Extends
        <3> QED BY <3>1 DEF Event, Hashes, Genesis
    <2>8. Linked(H, m, t, n + 1)
        BY <1>2, <2>1 DEF Verified
    \* The new event says which event it is attached to.
    <2>10. ASSUME NEW r \in Segments, NEW j \in 1..m[r],
                  Prior(m, t, n + 1, r, j), H[t][n + 1].prev = H[r][j].hash
           PROVE  Tight(G, K) /\ \A q \in Segments : k[q] = Len(G[q])
        <3>1. Ends(k, r) /\ j = k[r] /\ j \in 1..k[r]
            <4>1. j \in Nat /\ n + 1 \in Nat
                BY <1>3, <2>1
            <4>2. CASE r = t
                <5>1. j = n /\ n > 0
                    BY <1>4, <2>1, <2>10, <4>1, <4>2 DEF Prior
                <5> QED BY <2>3, <4>1, <4>2, <5>1 DEF Ends
            <4>3. CASE r # t
                <5>1. r < t /\ n = 0 /\ j = m[r] /\ m[r] > 0 /\ \A q \in Segments : r < q /\ q < t => m[q] = 0
                    BY <2>1, <2>10, <4>1, <4>3 DEF Prior
                <5>2. k[r] = m[r] /\ \A q \in Segments : r < q => k[q] = 0
                    BY <1>4, <2>3, <4>3, <5>1
                <5> QED BY <2>10, <5>1, <5>2 DEF Ends
            <4> QED BY <4>2, <4>3
        <3>2. e.prev = G[r][k[r]].hash /\ e.prev # Genesis
            BY <1>1, <2>4, <2>6, <2>10, <3>1
        <3>3. K # <<>> /\ e.prev = K[Len(K)].hash
            BY <3>2 DEF Extends
        <3>4. ~Loose(G, K, t)
            BY <2>3, <2>5, <3>1, <3>2, <3>3 DEF Loose
        <3>5. Tight(G, K)
            BY <3>4
        <3>6. PICK z \in Segments : Ends(Full(G), z) /\ G[z][Len(G[z])] = K[Len(K)]
            BY <3>3, <3>5 DEF Tight
        <3>7. G[z][Len(G[z])] # Junk
            <4>1. Len(G[z]) \in 1..Len(G[z])
                BY <1>1, <3>6 DEF Ends, Full
            <4>2. Within(G, Full(G)) /\ Full(G)[z] = Len(G[z])
                BY <3>5 DEF Tight, Verified, Full
            <4> QED BY <4>1, <4>2 DEF Within
        <3>8. Holds(G, k, G[z][Len(G[z])].hash)
            BY <3>1, <3>2, <3>3, <3>6 DEF Holds
        <3>9. k = Full(G)
            BY <2>3, <2>5, <3>6, <3>7, <3>8, LastIsWhole DEF Ordered
        <3> QED BY <3>5, <3>9 DEF Full
    <2>11. Tight(G, K) /\ \A q \in Segments : k[q] = Len(G[q])
        <3>1. CASE First(m, t, n + 1) /\ H[t][n + 1].prev = Genesis
            <4>1. n = 0 /\ \A q \in Segments : k[q] = 0
                <5>1. n = 0 /\ \A q \in Segments : q < t => m[q] = 0
                    BY <2>1, <3>1 DEF First
                <5> QED BY <1>4, <2>3, <5>1
            <4>2. K = <<>>
                BY <1>1, <2>7, <3>1 DEF Extends
            <4>3. ~Loose(G, K, t)
                BY <2>3, <2>5, <4>1, <4>2 DEF Loose
            <4>4. Tight(G, K) /\ \A s \in Segments : Len(G[s]) = 0
                BY <4>2, <4>3 DEF Tight
            <4> QED BY <4>1, <4>4
        <3> QED BY <2>8, <2>10, <3>1 DEF Linked
    <2>12. m = Full(H)
        <3>1. \A q \in Segments : m[q] = Len(H[q])
            BY <1>1, <2>1, <2>3, <2>11
        <3>2. m = [q \in Segments |-> m[q]]
            BY <1>2 DEF Vector
        <3> QED BY <3>1, <3>2 DEF Full
    <2> QED BY <2>1, <2>2, <2>11, <2>12 DEF H
<1> QED BY <1>5, <1>6

\* The chain with one more event verifies if it did.
LEMMA ChainExtends ==
    ASSUME NEW K \in Seq(Event), NEW e \in Event,
           e.prev = IF K = <<>> THEN Genesis ELSE K[Len(K)].hash
    PROVE  /\ Verifies(Append(K, e)) <=> Verifies(K)
           /\ Len(Append(K, e)) = Len(K) + 1
           /\ Append(K, e)[Len(K) + 1] = e
           /\ \A n \in 1..Len(K) : Append(K, e)[n] = K[n]
           /\ Len(K) \in Nat
           /\ Append(K, e) # <<>>
           /\ Append(K, e) \in Seq(Event)
<1> DEFINE C == Append(K, e)
<1>1. /\ Len(C) = Len(K) + 1 /\ C[Len(K) + 1] = e /\ Len(K) \in Nat
      /\ \A n \in 1..Len(K) : C[n] = K[n]
      /\ C \in Seq(Event)
    BY AppendProperties
<1>2. K = <<>> <=> Len(K) = 0
    BY EmptySeq
<1> HIDE DEF C
<1>3. ASSUME Verifies(K), NEW n \in 1..Len(C)
      PROVE  C[n].prev = IF n = 1 THEN Genesis ELSE C[n - 1].hash
    <2>1. CASE n = Len(K) + 1
        <3>1. CASE K = <<>>
            BY <1>1, <1>2, <2>1, <3>1
        <3>2. CASE K # <<>>
            <4>1. n # 1 /\ n - 1 = Len(K) /\ Len(K) \in 1..Len(K)
                BY <1>1, <1>2, <2>1, <3>2
            <4>2. C[n - 1] = K[Len(K)] /\ C[n] = e
                BY <1>1, <2>1, <4>1
            <4> QED BY <3>2, <4>1, <4>2
        <3> QED BY <3>1, <3>2
    <2>2. CASE n # Len(K) + 1
        <3>1. n \in 1..Len(K) /\ C[n] = K[n]
            BY <1>1, <2>2
        <3>2. n # 1 => n - 1 \in 1..Len(K)
            BY <1>1, <3>1
        <3>3. n # 1 => C[n - 1] = K[n - 1]
            BY <1>1, <3>2
        <3> QED BY <1>3, <3>1, <3>3 DEF Verifies
    <2> QED BY <2>1, <2>2
<1>4. ASSUME Verifies(C), NEW n \in 1..Len(K)
      PROVE  K[n].prev = IF n = 1 THEN Genesis ELSE K[n - 1].hash
    <2>1. n \in 1..Len(C) /\ C[n] = K[n]
        BY <1>1
    <2>2. n # 1 => n - 1 \in 1..Len(K)
        BY <1>1
    <2>3. n # 1 => C[n - 1] = K[n - 1]
        BY <1>1, <2>2
    <2> QED BY <1>4, <2>1, <2>3 DEF Verifies
<1>5. C # <<>>
    BY <1>1
<1> QED BY <1>1, <1>3, <1>4, <1>5 DEF Verifies, C

\* The log of the chain, with the event, is the log of the longer chain.
LEMMA WithTight ==
    ASSUME NEW G \in Log, NEW K, NEW e, Extends(G, K, e),
           NEW t \in Segments, Reaches(G, t), Tight(G, K)
    PROVE  /\ Tight(With(G, t, e), Append(K, e))
           /\ Ordered(G) => Positional(With(G, t, e), Full(With(G, t, e)))
<1> DEFINE H == With(G, t, e)
           C == Append(K, e)
           k == Full(G)
           m == Full(H)
           n == Len(G[t])
<1>1. /\ H \in Log
      /\ Len(H[t]) = n + 1 /\ H[t][n + 1] = e
      /\ \A s \in Segments : s # t => H[s] = G[s]
      /\ \A s \in Segments : \A i \in 1..Len(G[s]) : i \in 1..Len(H[s]) /\ H[s][i] = G[s][i]
      /\ \A s \in Segments : Len(G[s]) \in Nat
    <2>1. e \in Event \cup {Junk}
        BY DEF Extends
    <2> QED BY <2>1, WithIs
<1>2. /\ Verifies(C) <=> Verifies(K)
      /\ Len(C) = Len(K) + 1 /\ C[Len(K) + 1] = e /\ Len(K) \in Nat
      /\ \A i \in 1..Len(K) : C[i] = K[i]
      /\ C # <<>>
    BY ChainExtends DEF Extends
<1>3. Segments \subseteq Nat
    BY SegmentsAre
<1> HIDE DEF H, C
<1>4. /\ \A s \in Segments : k[s] = Len(G[s]) /\ m[s] = Len(H[s]) /\ m[s] \in Nat
      /\ k \in Vector /\ m \in Vector
    <2>1. \A s \in Segments : Len(H[s]) \in Nat
        BY <1>1
    <2> QED BY <1>1, <2>1 DEF Full, Vector
<1> HIDE DEF k, m
<1>5. Verified(G, k) /\ Verifies(K)
    BY DEF Tight, k
<1>6. \A q \in Segments : t < q => k[q] = 0 /\ m[q] = 0
    <2> SUFFICES ASSUME NEW q \in Segments, t < q PROVE k[q] = 0 /\ m[q] = 0
        OBVIOUS
    <2>1. k[q] = 0
        BY <1>4, <1>5 DEF Reaches
    <2>2. q # t
        BY <1>3
    <2> QED BY <1>1, <1>4, <2>1, <2>2
<1>7. \A s \in Segments : \A i \in 1..m[s] : (s = t /\ i = n + 1) \/ i \in 1..k[s]
    <2> SUFFICES ASSUME NEW s \in Segments, NEW i \in 1..m[s], ~(s = t /\ i = n + 1)
                 PROVE  i \in 1..k[s]
        OBVIOUS
    <2>1. CASE s = t
        BY <1>1, <1>4, <2>1
    <2>2. CASE s # t
        BY <1>1, <1>4, <2>2
    <2> QED BY <2>1, <2>2
<1>8. \A s \in Segments : \A i \in 1..k[s] :
         /\ i \in 1..m[s] /\ i \in Nat /\ s <= t /\ H[s][i] = G[s][i] /\ G[s][i] # Junk
    <2> SUFFICES ASSUME NEW s \in Segments, NEW i \in 1..k[s]
                 PROVE  i \in 1..m[s] /\ i \in Nat /\ s <= t /\ H[s][i] = G[s][i] /\ G[s][i] # Junk
        OBVIOUS
    <2>1. s <= t
        BY <1>3, <1>6
    <2> QED BY <1>1, <1>4, <1>5, <2>1 DEF Verified, Within
<1>9. \A q \in Segments : q < t => k[q] = m[q]
    BY <1>1, <1>3, <1>4
<1>10. ASSUME NEW s \in Segments, NEW i \in 1..k[s]
       PROVE  /\ First(k, s, i) => First(m, s, i)
              /\ \A r \in Segments : \A j \in 1..k[r] :
                    Prior(k, s, i, r, j) => Prior(m, s, i, r, j) /\ j \in 1..m[r]
    <2>1. i \in Nat /\ s <= t /\ \A r \in Segments : \A j \in 1..k[r] : j \in Nat /\ j \in 1..m[r]
        BY <1>8
    <2> QED BY <1>9, <2>1, OffLast
\* The place of the new event, on an empty log and after the last event.
<1>11. ASSUME K = <<>> PROVE First(m, t, n + 1)
    <2>1. \A s \in Segments : Len(G[s]) = 0
        BY <1>11 DEF Tight
    <2>2. \A q \in Segments : q < t => m[q] = 0
        BY <1>4, <1>9, <2>1
    <2> QED BY <2>1, <2>2 DEF First
<1>12. ASSUME K # <<>>
       PROVE  \E z \in Segments : /\ k[z] \in 1..k[z] /\ k[z] \in 1..m[z]
                                  /\ Prior(m, t, n + 1, z, k[z]) /\ G[z][k[z]] = K[Len(K)]
    <2>1. PICK z \in Segments : Ends(k, z) /\ G[z][Len(G[z])] = K[Len(K)]
        BY <1>12 DEF Tight, k
    <2>2. k[z] \in 1..k[z] /\ k[z] \in 1..m[z] /\ z <= t /\ k[z] = Len(G[z])
        BY <1>1, <1>4, <1>8, <2>1 DEF Ends
    <2>3. Prior(m, t, n + 1, z, k[z])
        <3>1. CASE z = t
            <4>1. k[z] = n /\ n > 0 /\ n \in Nat
                BY <1>1, <2>1, <2>2, <3>1 DEF Ends
            <4>2. n + 1 > 1 /\ k[z] = (n + 1) - 1
                BY <4>1
            <4> QED BY <3>1, <4>2 DEF Prior
        <3>2. CASE z # t
            <4>1. z < t
                BY <1>3, <2>2, <3>2
            <4>2. n = 0 /\ \A q \in Segments : z < q /\ q < t => m[q] = 0
                BY <1>4, <1>9, <2>1, <4>1 DEF Ends
            <4>3. m[z] = k[z] /\ m[z] > 0
                BY <1>4, <1>9, <2>1, <4>1 DEF Ends
            <4> QED BY <4>1, <4>2, <4>3 DEF Prior
        <3> QED BY <3>1, <3>2
    <2> QED BY <2>1, <2>2, <2>3
<1>13. ASSUME NEW s \in Segments, NEW i \in 1..m[s] PROVE Linked(H, m, s, i)
    <2>1. CASE i \in 1..k[s]
        <3>1. Linked(G, k, s, i)
            BY <1>5, <2>1 DEF Verified
        <3>2. CASE First(k, s, i) /\ G[s][i].prev = Genesis
            BY <1>8, <1>10, <2>1, <3>2 DEF Linked
        <3>3. ASSUME NEW r \in Segments, NEW j \in 1..k[r],
                     Prior(k, s, i, r, j), G[s][i].prev = G[r][j].hash
              PROVE  Linked(H, m, s, i)
            <4>1. Prior(m, s, i, r, j) /\ j \in 1..m[r]
                BY <1>10, <2>1, <3>3
            <4>2. H[s][i].prev = H[r][j].hash
                BY <1>8, <2>1, <3>3
            <4> QED BY <4>1, <4>2 DEF Linked
        <3> QED BY <3>1, <3>2, <3>3 DEF Linked
    <2>2. CASE s = t /\ i = n + 1
        <3>1. CASE K = <<>>
            BY <1>1, <1>11, <2>2, <3>1 DEF Linked, Extends
        <3>2. CASE K # <<>>
            <4>1. PICK z \in Segments : /\ k[z] \in 1..k[z] /\ k[z] \in 1..m[z]
                                        /\ Prior(m, t, n + 1, z, k[z]) /\ G[z][k[z]] = K[Len(K)]
                BY <1>12, <3>2
            <4>2. H[s][i].prev = H[z][k[z]].hash
                BY <1>1, <1>8, <2>2, <3>2, <4>1 DEF Extends
            <4> QED BY <2>2, <4>1, <4>2 DEF Linked
        <3> QED BY <3>1, <3>2
    <2> QED BY <1>7, <2>1, <2>2
<1>14. Verified(H, m)
    <2>1. ASSUME NEW s \in Segments, NEW i \in 1..m[s] PROVE H[s][i] # Junk
        <3>1. e # Junk
            BY ValuesAssumption DEF Extends
        <3>2. CASE i \in 1..k[s]
            BY <1>8, <3>2
        <3>3. CASE s = t /\ i = n + 1
            BY <1>1, <3>1, <3>3
        <3> QED BY <1>7, <3>2, <3>3
    <2>2. \A s \in Segments : m[s] <= Len(H[s])
        BY <1>4
    <2> QED BY <1>4, <1>13, <2>1, <2>2 DEF Verified, Within
<1>15. \A i \in 1..Len(C) : \E s \in Segments : \E j \in 1..Len(H[s]) : H[s][j] = C[i]
    <2> SUFFICES ASSUME NEW i \in 1..Len(C)
                 PROVE  \E s \in Segments : \E j \in 1..Len(H[s]) : H[s][j] = C[i]
        OBVIOUS
    <2>1. CASE i = Len(K) + 1
        <3>1. n + 1 \in 1..Len(H[t])
            BY <1>1
        <3> QED BY <1>1, <1>2, <2>1, <3>1
    <2>2. CASE i # Len(K) + 1
        <3>1. i \in 1..Len(K)
            BY <1>2, <2>2
        <3>2. PICK s \in Segments : \E j \in 1..Len(G[s]) : G[s][j] = K[i]
            BY <3>1 DEF Tight
        <3>3. PICK j \in 1..Len(G[s]) : G[s][j] = K[i]
            BY <3>2
        <3>4. j \in 1..Len(H[s]) /\ H[s][j] = G[s][j]
            BY <1>1
        <3>5. C[i] = K[i]
            BY <1>2, <3>1
        <3> QED BY <3>3, <3>4, <3>5
    <2> QED BY <2>1, <2>2
<1>16. Ends(m, t) /\ H[t][Len(H[t])] = C[Len(C)]
    BY <1>1, <1>2, <1>4, <1>6 DEF Ends
<1>17. ASSUME Ordered(G), NEW s \in Segments, NEW i \in 1..m[s] PROVE Numbered(H, m, s, i)
    <2>1. CASE i \in 1..k[s]
        <3>1. Numbered(G, k, s, i)
            BY <1>4, <1>5, <1>17, <2>1 DEF Ordered, Positional
        <3>2. CASE First(k, s, i) /\ G[s][i].seq = 0
            BY <1>8, <1>10, <2>1, <3>2 DEF Numbered
        <3>3. ASSUME NEW r \in Segments, NEW j \in 1..k[r],
                     Prior(k, s, i, r, j), G[s][i].seq = G[r][j].seq + 1
              PROVE  Numbered(H, m, s, i)
            <4>1. Prior(m, s, i, r, j) /\ j \in 1..m[r]
                BY <1>10, <2>1, <3>3
            <4>2. H[s][i].seq = H[r][j].seq + 1
                BY <1>8, <2>1, <3>3
            <4> QED BY <4>1, <4>2 DEF Numbered
        <3> QED BY <3>1, <3>2, <3>3 DEF Numbered
    <2>2. CASE s = t /\ i = n + 1
        <3>1. CASE K = <<>>
            <4>1. e.seq = 0
                BY <3>1 DEF Extends
            <4> QED BY <1>1, <1>11, <2>2, <3>1, <4>1 DEF Numbered
        <3>2. CASE K # <<>>
            <4>1. PICK z \in Segments : /\ k[z] \in 1..k[z] /\ k[z] \in 1..m[z]
                                        /\ Prior(m, t, n + 1, z, k[z]) /\ G[z][k[z]] = K[Len(K)]
                BY <1>12, <3>2
            <4>2. e.seq = K[Len(K)].seq + 1
                BY <1>2, <1>5, <3>2 DEF Extends
            <4>3. H[s][i].seq = H[z][k[z]].seq + 1
                BY <1>1, <1>8, <2>2, <4>1, <4>2
            <4> QED BY <2>2, <4>1, <4>3 DEF Numbered
        <3> QED BY <3>1, <3>2
    <2> QED BY <1>7, <2>1, <2>2
<1>18. Tight(H, C)
    BY <1>2, <1>5, <1>14, <1>15, <1>16 DEF Tight, m
<1> QED BY <1>17, <1>18 DEF Positional, H, C, m

\* What the write of an event does to the log, whatever the log was.
LEMMA WithOrdered ==
    ASSUME NEW G \in Log, Ordered(G), Distinct(G), NEW K, NEW e, Extends(G, K, e),
           NEW t \in Segments, Reaches(G, t), Tight(G, K) \/ Loose(G, K, t)
    PROVE  /\ Ordered(With(G, t, e)) /\ Reaches(With(G, t, e), t)
           /\ Loose(With(G, t, e), K, t)
           /\ \/ Tight(With(G, t, e), Append(K, e))
              \/ \A m \in Vector : Verified(With(G, t, e), m) => ~Holds(With(G, t, e), m, e.hash)
           /\ \A m \in Vector : Verified(With(G, t, e), m) =>
                 \E k \in Vector :
                    /\ Verified(G, k)
                    /\ \A h : Holds(G, k, h) => Holds(With(G, t, e), m, h)
                    /\ \A h : Holds(With(G, t, e), m, h) => h = e.hash \/ Holds(G, k, h)
<1> DEFINE H == With(G, t, e)
           n == Len(G[t])
<1>1. /\ H \in Log
      /\ Len(H[t]) = n + 1 /\ H[t][n + 1] = e
      /\ \A s \in Segments : s # t => H[s] = G[s]
      /\ \A s \in Segments : \A i \in 1..Len(G[s]) : i \in 1..Len(H[s]) /\ H[s][i] = G[s][i]
      /\ \A s \in Segments : Len(G[s]) \in Nat
    <2>1. e \in Event \cup {Junk}
        BY DEF Extends
    <2> QED BY <2>1, WithIs
<1>2. Segments \subseteq Nat
    BY SegmentsAre
<1>3. \A s \in Segments : \A i \in 1..Len(G[s]) : G[s][i] # Junk => G[s][i].hash # e.hash
    <2> SUFFICES ASSUME NEW s \in Segments, NEW i \in 1..Len(G[s]), G[s][i] # Junk
                 PROVE  G[s][i].hash # e.hash
        OBVIOUS
    <2>1. G[s][i] \in Event
        BY DEF Log
    <2>2. G[s][i].hash < e.hash /\ G[s][i].hash \in Nat /\ e.hash \in Nat
        BY <2>1 DEF Extends, Event, Hashes
    <2> QED BY <2>2
<1>4. K # <<>> => e.hash # K[Len(K)].hash
    <2> SUFFICES ASSUME K # <<>> PROVE e.hash # K[Len(K)].hash
        OBVIOUS
    <2>1. e.prev = K[Len(K)].hash /\ e.prev < e.hash
        BY DEF Extends
    <2>2. e.hash \in Nat
        BY DEF Extends, Event, Hashes
    <2> QED BY <2>1, <2>2
\* The two ways to verify.
<1>5. ASSUME NEW m \in Vector, Verified(H, m)
      PROVE  \/ Verified(G, m) /\ m[t] <= n
             \/ /\ Tight(G, K) /\ m[t] = n + 1 /\ m = Full(H)
                /\ \A q \in Segments : t < q => m[q] = 0
    <2>1. Verified(With(G, t, e), m)
        BY <1>5
    <2> HIDE DEF H
    <2>2. m = Full(With(G, t, e)) <=> m = Full(H)
        BY DEF H
    <2> QED BY <2>1, <2>2, WithVerifies
<1>6. Tight(G, K) => Tight(H, Append(K, e)) /\ Positional(H, Full(H))
    BY WithTight
<1> HIDE DEF H
<1>7. ASSUME NEW m \in Vector, Verified(G, m)
      PROVE  /\ \A s \in Segments : /\ m[s] \in Nat /\ m[s] <= Len(G[s])
                                    /\ \A i \in 1..m[s] : i \in 1..Len(G[s]) /\ G[s][i] # Junk /\ H[s][i] = G[s][i]
             /\ FullBelow(G, m) /\ Positional(G, m)
             /\ \A q \in Segments : t < q => m[q] = 0
    <2>1. FullBelow(G, m) /\ Positional(G, m) /\ \A q \in Segments : t < q => m[q] = 0
        BY <1>7 DEF Ordered, Reaches
    <2>2. \A s \in Segments : m[s] \in Nat /\ m[s] <= Len(G[s])
        BY <1>7 DEF Verified, Within, Vector
    <2>3. \A s \in Segments : \A i \in 1..m[s] : i \in 1..Len(G[s])
        BY <1>1, <2>2
    <2>4. \A s \in Segments : \A i \in 1..m[s] : G[s][i] # Junk
        BY <1>7 DEF Verified, Within
    <2> QED BY <1>1, <2>1, <2>2, <2>3, <2>4
<1>8. ASSUME NEW m \in Vector, Verified(H, m) PROVE FullBelow(H, m)
    <2> SUFFICES ASSUME NEW s \in Segments, m[s] > 0, NEW r \in Segments, r < s
                 PROVE  m[r] = Len(H[r])
        BY DEF FullBelow
    <2>1. CASE Verified(G, m)
        <3>1. m[r] = Len(G[r]) /\ (t < s => m[s] = 0)
            BY <1>7, <2>1 DEF FullBelow
        <3>2. r # t
            BY <3>1
        <3> QED BY <1>1, <3>1, <3>2
    <2>2. CASE m = Full(H)
        BY <2>2 DEF Full
    <2> QED BY <1>5, <1>8, <2>1, <2>2
<1>9. ASSUME NEW m \in Vector, Verified(H, m) PROVE Positional(H, m)
    <2>1. CASE Verified(G, m)
        BY <1>7, <1>9, <2>1, SameVerifies
    <2>2. CASE ~Verified(G, m)
        BY <1>5, <1>6, <1>9, <2>2
    <2> QED BY <2>1, <2>2
<1>10. ASSUME NEW m \in Vector, Verified(H, m), NEW q \in Segments, t < q PROVE m[q] = 0
    BY <1>5, <1>7, <1>10
<1>11. ASSUME NEW m \in Vector, Verified(H, m), m[t] = Len(H[t]),
              \A q \in Segments : t < q => m[q] = 0
       PROVE  IF K = <<>> THEN \E s \in Segments : m[s] > 0
              ELSE \A s \in Segments : Ends(m, s) => H[s][m[s]].hash # K[Len(K)].hash
    <2>1. m[t] = n + 1 /\ m[t] > 0
        BY <1>1, <1>11
    <2>2. ASSUME NEW s \in Segments, Ends(m, s) PROVE s = t
        <3>1. ~(s < t) /\ ~(t < s)
            BY <1>11, <2>1, <2>2 DEF Ends
        <3> QED BY <1>2, <3>1
    <2> QED BY <1>1, <1>4, <2>1, <2>2
<1>12. ASSUME NEW m \in Vector, Verified(G, m) PROVE ~Holds(G, m, e.hash)
    BY <1>3, <1>7, <1>12 DEF Holds
<1>13. ASSUME ~Tight(G, K), NEW m \in Vector, Verified(H, m) PROVE ~Holds(H, m, e.hash)
    <2>1. Verified(G, m)
        BY <1>5, <1>13
    <2>2. Holds(H, m, e.hash) <=> Holds(G, m, e.hash)
        BY <1>7, <1>13, <2>1, SameVerifies
    <2> QED BY <1>12, <2>1, <2>2
<1>14. ASSUME NEW m \in Vector, Verified(H, m)
       PROVE  \E k \in Vector : /\ Verified(G, k)
                                /\ \A h : Holds(G, k, h) => Holds(H, m, h)
                                /\ \A h : Holds(H, m, h) => h = e.hash \/ Holds(G, k, h)
    <2>1. CASE Verified(G, m)
        <3>1. \A h : Holds(H, m, h) <=> Holds(G, m, h)
            BY <1>7, <1>14, <2>1, SameVerifies
        <3> QED BY <2>1, <3>1
    <2>2. CASE ~Verified(G, m)
        <3>1. Tight(G, K) /\ m[t] = n + 1 /\ m = Full(H)
            BY <1>5, <1>14, <2>2
        <3> DEFINE k == Full(G)
        <3>2. /\ Verified(G, k) /\ k \in Vector
              /\ \A s \in Segments : k[s] = Len(G[s]) /\ m[s] = Len(H[s])
            BY <3>1 DEF Tight, Verified, Full
        <3> HIDE DEF k
        <3>3. \A s \in Segments : \A i \in 1..k[s] : i \in 1..m[s] /\ H[s][i] = G[s][i]
            BY <1>1, <3>2
        <3>4. \A s \in Segments : \A i \in 1..m[s] : (s = t /\ i = n + 1) \/ i \in 1..k[s]
            <4> SUFFICES ASSUME NEW s \in Segments, NEW i \in 1..m[s], ~(s = t /\ i = n + 1)
                         PROVE  i \in 1..k[s]
                OBVIOUS
            <4>1. CASE s = t
                BY <1>1, <3>2, <4>1
            <4>2. CASE s # t
                BY <1>1, <3>2, <4>2
            <4> QED BY <4>1, <4>2
        <3>5. \A h : Holds(G, k, h) => Holds(H, m, h)
            BY <3>3 DEF Holds
        <3>6. ASSUME NEW h, Holds(H, m, h) PROVE h = e.hash \/ Holds(G, k, h)
            <4>1. PICK s \in Segments : \E i \in 1..m[s] : H[s][i].hash = h
                BY <3>6 DEF Holds
            <4>2. PICK i \in 1..m[s] : H[s][i].hash = h
                BY <4>1
            <4>3. CASE s = t /\ i = n + 1
                BY <1>1, <4>2, <4>3
            <4>4. CASE i \in 1..k[s]
                BY <3>3, <4>2, <4>4 DEF Holds
            <4> QED BY <3>4, <4>3, <4>4
        <3> QED BY <3>2, <3>5, <3>6
    <2> QED BY <2>1, <2>2
<1>15. Ordered(H) /\ Reaches(H, t) /\ Loose(H, K, t)
    BY <1>8, <1>9, <1>10, <1>11 DEF Ordered, Reaches, Loose
<1>16. Tight(H, Append(K, e)) \/ \A m \in Vector : Verified(H, m) => ~Holds(H, m, e.hash)
    BY <1>6, <1>13
<1> QED BY <1>14, <1>15, <1>16 DEF H

-----------------------------------------------------------------------------
(* What the lines of a segment say.                                        *)

\* A sequence is all but its last element, and then its last.
LEMMA FrontLast ==
    ASSUME NEW T, NEW s \in Seq(T), s # <<>>
    PROVE  /\ Front(s) \in Seq(T) /\ Len(Front(s)) = Len(s) - 1
           /\ \A i \in 1..(Len(s) - 1) : Front(s)[i] = s[i]
           /\ Len(s) \in 1..Len(s) /\ Last(s) = s[Len(s)] /\ Last(s) \in T
           /\ s = Append(Front(s), Last(s))
<1>1. Len(s) \in Nat /\ Len(s) # 0 /\ Len(s) \in 1..Len(s)
    BY EmptySeq, LenProperties
<1>2. /\ Front(s) \in Seq(T) /\ Len(Front(s)) = Len(s) - 1
      /\ \A i \in 1..(Len(s) - 1) : Front(s)[i] = s[i]
    BY <1>1 DEF Front
<1>3. Last(s) = s[Len(s)] /\ Last(s) \in T
    BY <1>1, ElementOfSeq DEF Last
<1> DEFINE c == Append(Front(s), Last(s))
<1>4. c \in Seq(T) /\ Len(c) = Len(s) /\ \A i \in 1..Len(s) : c[i] = s[i]
    <2>1. c \in Seq(T) /\ Len(c) = (Len(s) - 1) + 1 /\ c[(Len(s) - 1) + 1] = Last(s)
          /\ \A i \in 1..(Len(s) - 1) : c[i] = Front(s)[i]
        BY <1>2, <1>3, AppendProperties
    <2> HIDE DEF c
    <2>2. ASSUME NEW i \in 1..Len(s) PROVE c[i] = s[i]
        <3>1. CASE i = Len(s)
            BY <1>1, <1>3, <2>1, <3>1
        <3>2. CASE i # Len(s)
            <4>1. i \in 1..(Len(s) - 1)
                BY <1>1, <3>2
            <4> QED BY <1>2, <2>1, <4>1
        <3> QED BY <3>1, <3>2
    <2> QED BY <1>1, <2>1, <2>2
<1>5. s = c
    <2> HIDE DEF c
    <2> QED BY <1>4, SeqEqual
<1> QED BY <1>1, <1>2, <1>3, <1>5

\* Front and Last take apart what Append puts together.
LEMMA FrontAppend ==
    ASSUME NEW T, NEW s \in Seq(T), NEW x \in T
    PROVE  Front(Append(s, x)) = s /\ Last(Append(s, x)) = x /\ Append(s, x) # <<>>
<1> DEFINE c == Append(s, x)
<1>1. c \in Seq(T) /\ Len(c) = Len(s) + 1 /\ c[Len(s) + 1] = x /\ Len(s) \in Nat
      /\ \A i \in 1..Len(s) : c[i] = s[i]
    BY AppendProperties
<1> HIDE DEF c
<1>2. c # <<>>
    BY <1>1
<1>3. /\ Front(c) \in Seq(T) /\ Len(Front(c)) = Len(s)
      /\ \A i \in 1..Len(s) : Front(c)[i] = s[i]
      /\ Last(c) = x
    BY <1>1, <1>2, FrontLast
<1>4. Front(c) = s
    BY <1>3, SeqEqual
<1> QED BY <1>2, <1>3, <1>4 DEF c

LogLines == [Segments -> Seq(Line)]
Said(L) == [s \in Segments |-> [i \in 1..Len(L[s]) |-> L[s][i].text]]

\* What the lines say, line by line.
LEMMA SaidIs ==
    ASSUME NEW L \in LogLines
    PROVE  /\ Said(L) \in Log
           /\ IsLog(L)
           /\ \A s \in Segments : /\ Len(Said(L)[s]) = Len(L[s])
                                  /\ Len(L[s]) \in Nat
                                  /\ \A i \in 1..Len(L[s]) : Said(L)[s][i] = L[s][i].text /\ L[s][i] \in Line
<1>1. \A s \in Segments : L[s] \in Seq(Line) /\ Len(L[s]) \in Nat
                          /\ \A i \in 1..Len(L[s]) : L[s][i] \in Line /\ L[s][i].text \in Event \cup {Junk}
    <2> TAKE s \in Segments
    <2>1. L[s] \in Seq(Line) /\ Len(L[s]) \in Nat
        BY DEF LogLines
    <2>2. \A x \in Line : x.text \in Event \cup {Junk}
        BY DEF Line
    <2>3. \A i \in 1..Len(L[s]) : L[s][i] \in Line
        BY <2>1, ElementOfSeq
    <2> QED BY <2>1, <2>2, <2>3
<1>2. \A s \in Segments : Said(L)[s] = [i \in 1..Len(L[s]) |-> L[s][i].text]
    BY DEF Said
<1>3. \A s \in Segments : /\ Said(L)[s] \in Seq(Event \cup {Junk}) /\ Len(Said(L)[s]) = Len(L[s])
                          /\ \A i \in 1..Len(L[s]) : Said(L)[s][i] = L[s][i].text
    <2> TAKE s \in Segments
    <2> DEFINE g == [i \in 1..Len(L[s]) |-> L[s][i].text]
    <2>1. Len(L[s]) \in Nat /\ \A i \in 1..Len(L[s]) : L[s][i].text \in Event \cup {Junk}
        BY <1>1
    <2>2. g \in Seq(Event \cup {Junk}) /\ Len(g) = Len(L[s])
        BY <2>1, IsASeq, LenProperties
    <2>3. \A i \in 1..Len(L[s]) : g[i] = L[s][i].text
        OBVIOUS
    <2> HIDE DEF g
    <2> QED BY <1>2, <2>2, <2>3 DEF g
<1>4. Said(L) \in Log
    BY <1>3 DEF Said, Log
<1> QED BY <1>1, <1>3, <1>4 DEF IsLog, LogLines

\* The bytes of a line, on a line of their own and on one that has none.
LEMMA WriteIs ==
    ASSUME NEW ls \in Seq(Line), NEW line \in Line
    PROVE  /\ Write(ls, line) \in Seq(Line)
           /\ Terminated(ls) =>
                /\ Len(Write(ls, line)) = Len(ls) + 1
                /\ Write(ls, line)[Len(ls) + 1] = line
                /\ \A i \in 1..Len(ls) : Write(ls, line)[i] = ls[i]
           /\ ~Terminated(ls) =>
                /\ Len(Write(ls, line)) = Len(ls) /\ Len(ls) \in 1..Len(ls)
                /\ Write(ls, line)[Len(ls)] = [text |-> Junk, nl |-> line.nl]
                /\ \A i \in 1..(Len(ls) - 1) : Write(ls, line)[i] = ls[i]
                /\ ~ls[Len(ls)].nl
<1>1. CASE Terminated(ls)
    <2>1. Write(ls, line) = Append(ls, line)
        BY <1>1 DEF Write
    <2> QED BY <1>1, <2>1, AppendProperties
<1>2. CASE ~Terminated(ls)
    <2> DEFINE junk == [text |-> Junk, nl |-> line.nl]
               f == Front(ls)
    <2>1. Write(ls, line) = Append(f, junk) /\ ls # <<>>
        BY <1>2 DEF Write, Terminated
    <2>2. junk \in Line
        BY DEF Line
    <2>3. f \in Seq(Line) /\ Len(f) = Len(ls) - 1 /\ Len(ls) \in 1..Len(ls) /\ Len(ls) \in Nat
          /\ Last(ls) = ls[Len(ls)] /\ \A i \in 1..(Len(ls) - 1) : f[i] = ls[i]
        <3>1. ls \in Seq(Line) /\ ls # <<>>
            BY <2>1
        <3>2. Len(ls) \in Nat
            BY <3>1
        <3> QED BY <3>1, <3>2, FrontLast
    <2> HIDE DEF junk, f
    <2>4. /\ Append(f, junk) \in Seq(Line) /\ Len(Append(f, junk)) = Len(f) + 1
          /\ Append(f, junk)[Len(f) + 1] = junk
          /\ \A i \in 1..Len(f) : Append(f, junk)[i] = f[i]
        BY <2>2, <2>3, AppendProperties
    <2>5. Len(f) + 1 = Len(ls)
        BY <2>3
    <2>6. ~ls[Len(ls)].nl
        BY <1>2, <2>1, <2>3 DEF Terminated
    <2> QED BY <1>2, <2>1, <2>3, <2>4, <2>5, <2>6 DEF junk
<1> QED BY <1>1, <1>2

\* What a write adds to the log: the event, or nothing but junk.
Put(L, t, line) == [L EXCEPT ![t] = Write(@, line)]

\* What write_line leaves: a new line, or, after an incomplete one, a line spoilt by
\* what was run on to it.
LEMMA PutIs ==
    ASSUME NEW L \in LogLines, NEW t \in Segments, NEW line \in Line
    PROVE  /\ Put(L, t, line) \in LogLines
           /\ Put(L, t, line)[t] = Write(L[t], line) /\ L[t] \in Seq(Line)
           /\ \A s \in Segments : s # t => Put(L, t, line)[s] = L[s]
           /\ Len(Put(L, t, line)[t]) <= Len(L[t]) + 1
           /\ \/ Said(Put(L, t, line)) = With(Said(L), t, line.text)
              \/ Pruned(Said(L), Said(Put(L, t, line)), t)
           /\ line.text = Junk => Pruned(Said(L), Said(Put(L, t, line)), t)
           /\ Terminated(L[t]) => Said(Put(L, t, line)) = With(Said(L), t, line.text)
           /\ ~Terminated(L[t]) \/ line.text = Junk =>
                /\ Pruned(Said(L), Said(Put(L, t, line)), t)
                /\ Len(Said(Put(L, t, line))[t]) \in Nat \ {0}
                /\ Said(Put(L, t, line))[t][Len(Said(Put(L, t, line))[t])] = Junk
<1> DEFINE M == Put(L, t, line)
           G == Said(L)
           H == Said(M)
<1>1. L \in [Segments -> Seq(Line)] /\ L[t] \in Seq(Line) /\ Len(L[t]) \in Nat
    BY DEF LogLines
<1>2. Write(L[t], line) \in Seq(Line)
    BY <1>1, WriteIs
<1>3. M \in LogLines /\ M[t] = Write(L[t], line) /\ \A s \in Segments : s # t => M[s] = L[s]
    BY <1>1, <1>2 DEF Put, LogLines
<1> HIDE DEF M
<1>9. /\ Terminated(L[t]) =>
           /\ Len(M[t]) = Len(L[t]) + 1
           /\ M[t][Len(L[t]) + 1] = line
           /\ \A i \in 1..Len(L[t]) : M[t][i] = L[t][i]
      /\ ~Terminated(L[t]) =>
           /\ Len(M[t]) = Len(L[t]) /\ Len(L[t]) \in 1..Len(L[t])
           /\ M[t][Len(L[t])] = [text |-> Junk, nl |-> line.nl]
           /\ \A i \in 1..(Len(L[t]) - 1) : M[t][i] = L[t][i]
    <2> DEFINE W == Write(L[t], line)
    <2>1. /\ Terminated(L[t]) =>
               /\ Len(W) = Len(L[t]) + 1
               /\ W[Len(L[t]) + 1] = line
               /\ \A i \in 1..Len(L[t]) : W[i] = L[t][i]
          /\ ~Terminated(L[t]) =>
               /\ Len(W) = Len(L[t]) /\ Len(L[t]) \in 1..Len(L[t])
               /\ W[Len(L[t])] = [text |-> Junk, nl |-> line.nl]
               /\ \A i \in 1..(Len(L[t]) - 1) : W[i] = L[t][i]
        BY <1>1, WriteIs
    <2>2. M[t] = W
        BY <1>3
    <2> HIDE DEF W
    <2> QED BY <2>1, <2>2
<1>4. Len(M[t]) <= Len(L[t]) + 1
    BY <1>1, <1>9
<1>5. /\ G \in Log /\ H \in Log
      /\ \A s \in Segments : /\ Len(G[s]) = Len(L[s]) /\ Len(H[s]) = Len(M[s])
                             /\ \A i \in 1..Len(L[s]) : G[s][i] = L[s][i].text
                             /\ \A i \in 1..Len(M[s]) : H[s][i] = M[s][i].text
    BY <1>3, SaidIs
<1>6. \A s \in Segments : s # t => H[s] = G[s]
    BY <1>3 DEF Said
<1> HIDE DEF G, H
<1>7. CASE Terminated(L[t])
    <2>1. /\ Len(M[t]) = Len(L[t]) + 1 /\ M[t][Len(L[t]) + 1] = line
          /\ \A i \in 1..Len(L[t]) : M[t][i] = L[t][i]
        BY <1>7, <1>9
    <2>2. /\ Len(H[t]) = Len(G[t]) + 1 /\ H[t][Len(G[t]) + 1] = line.text
          /\ \A i \in 1..Len(G[t]) : H[t][i] = G[t][i]
        <3>1. Len(G[t]) = Len(L[t]) /\ Len(H[t]) = Len(L[t]) + 1 /\ Len(M[t]) = Len(L[t]) + 1
            BY <1>5, <2>1
        <3>2. Len(L[t]) + 1 \in 1..Len(M[t]) /\ \A i \in 1..Len(L[t]) : i \in 1..Len(M[t])
            BY <1>1, <3>1
        <3>3. H[t][Len(L[t]) + 1] = M[t][Len(L[t]) + 1].text
            BY <1>5, <3>2
        <3>4. \A i \in 1..Len(L[t]) : H[t][i] = M[t][i].text /\ G[t][i] = L[t][i].text
            BY <1>5, <3>2
        <3> QED BY <2>1, <3>1, <3>3, <3>4
    <2>3. line.text \in Event \cup {Junk}
        BY DEF Line
    <2>4. H = With(G, t, line.text)
        <3> DEFINE W == With(G, t, line.text)
        <3>1. /\ W \in Log /\ Len(W[t]) = Len(G[t]) + 1 /\ W[t][Len(G[t]) + 1] = line.text
              /\ \A s \in Segments : s # t => W[s] = G[s]
              /\ \A i \in 1..Len(G[t]) : W[t][i] = G[t][i]
              /\ Len(G[t]) \in Nat
            BY <1>5, <2>3, WithIs
        <3> HIDE DEF W
        <3>2. \A i \in 1..(Len(G[t]) + 1) : W[t][i] = H[t][i]
            <4> SUFFICES ASSUME NEW i \in 1..(Len(G[t]) + 1) PROVE W[t][i] = H[t][i]
                OBVIOUS
            <4>1. i = Len(G[t]) + 1 \/ i \in 1..Len(G[t])
                BY <3>1
            <4> QED BY <2>2, <3>1, <4>1
        <3>3. W[t] = H[t]
            <4>1. W[t] \in Seq(Event \cup {Junk}) /\ H[t] \in Seq(Event \cup {Junk})
                BY <1>5, <3>1 DEF Log
            <4>2. Len(W[t]) = Len(H[t]) /\ \A i \in 1..Len(W[t]) : W[t][i] = H[t][i]
                BY <2>2, <3>1, <3>2
            <4> QED BY <4>1, <4>2, SeqEqual
        <3>4. \A s \in Segments : W[s] = H[s]
            BY <1>6, <3>1, <3>3
        <3>5. W = H
            BY <1>5, <3>1, <3>4 DEF Log
        <3> QED BY <3>5 DEF W
    <2>5. line.text = Junk => Pruned(G, H, t)
        <3> SUFFICES ASSUME line.text = Junk, NEW s \in Segments
                     PROVE  /\ s # t => Len(H[s]) <= Len(G[s])
                            /\ \A i \in 1..Len(H[s]) : H[s][i] = Junk \/ (i <= Len(G[s]) /\ H[s][i] = G[s][i])
            BY DEF Pruned
        <3>1. Len(G[s]) \in Nat
            BY <1>5 DEF Log
        <3>2. CASE s = t
            <4> SUFFICES ASSUME NEW i \in 1..Len(H[t])
                         PROVE  H[t][i] = Junk \/ (i <= Len(G[t]) /\ H[t][i] = G[t][i])
                BY <3>2
            <4>1. i = Len(G[t]) + 1 \/ i \in 1..Len(G[t])
                BY <2>2, <3>1, <3>2
            <4> QED BY <2>2, <3>1, <3>2, <4>1
        <3>3. CASE s # t
            BY <1>6, <3>1, <3>3
        <3> QED BY <3>2, <3>3
    <2>6. line.text = Junk => Len(H[t]) \in Nat \ {0} /\ H[t][Len(H[t])] = Junk
        BY <1>1, <1>5, <2>2
    <2> QED BY <1>1, <1>3, <1>4, <1>7, <2>4, <2>5, <2>6 DEF M, G, H
<1>8. CASE ~Terminated(L[t])
    <2>1. /\ Len(M[t]) = Len(L[t]) /\ M[t][Len(L[t])].text = Junk
          /\ \A i \in 1..(Len(L[t]) - 1) : M[t][i] = L[t][i]
        BY <1>8, <1>9
    <2>2. Pruned(G, H, t)
        <3> SUFFICES ASSUME NEW s \in Segments
                     PROVE  /\ s # t => Len(H[s]) <= Len(G[s])
                            /\ \A i \in 1..Len(H[s]) : H[s][i] = Junk \/ (i <= Len(G[s]) /\ H[s][i] = G[s][i])
            BY DEF Pruned
        <3>1. Len(G[s]) \in Nat /\ Len(G[s]) = Len(L[s])
            BY <1>5 DEF Log
        <3>2. CASE s = t
            <4> SUFFICES ASSUME NEW i \in 1..Len(H[t])
                         PROVE  H[t][i] = Junk \/ (i <= Len(G[t]) /\ H[t][i] = G[t][i])
                BY <3>2
            <4>1. i \in 1..Len(L[t]) /\ i \in 1..Len(M[t]) /\ (i = Len(L[t]) \/ i \in 1..(Len(L[t]) - 1))
                BY <1>5, <2>1, <3>1, <3>2
            <4>2. H[t][i] = M[t][i].text /\ G[t][i] = L[t][i].text /\ i <= Len(G[t])
                BY <1>5, <3>1, <3>2, <4>1
            <4> QED BY <2>1, <4>1, <4>2
        <3>3. CASE s # t
            BY <1>6, <3>1, <3>3
        <3> QED BY <3>2, <3>3
    <2>3. Len(H[t]) \in Nat \ {0} /\ H[t][Len(H[t])] = Junk
        BY <1>1, <1>5, <1>8, <1>9
    <2> QED BY <1>1, <1>3, <1>4, <1>8, <2>2, <2>3 DEF M, G, H
<1> QED BY <1>7, <1>8

\* Fewer lines, and one line more.
LEMMA FewerLines ==
    ASSUME NEW L \in LogLines, NEW M \in LogLines, \A s \in Segments : Len(M[s]) <= Len(L[s])
    PROVE  \A k \in 0..N : Before(M)[k] <= Before(L)[k] /\ Before(M)[k] \in Nat /\ Before(L)[k] \in Nat
<1>1. /\ IsLog(L) /\ Weighs(L, Before(L)) /\ IsLog(M) /\ Weighs(M, Before(M))
    BY FlatIs DEF LogLines
<1>2. 0 \in Segments /\ 0 \in Int
    BY SegmentsAre
<1>3. \A s \in Segments : Len(M[s]) <= Len(L[s]) + (IF s = 0 THEN 0 ELSE 0)
    BY DEF LogLines
<1>4. \A k \in 0..N : Before(M)[k] <= Before(L)[k] + (IF k > 0 THEN 0 ELSE 0)
    BY <1>1, <1>2, <1>3, WeightsDiffer
<1>5. \A k \in 0..N : Before(M)[k] \in Nat /\ Before(L)[k] \in Nat
    BY <1>1 DEF Weighs
<1> QED BY <1>4, <1>5

\* A write makes the log longer by at most one line, and moves no earlier segment.
LEMMA OneMoreLine ==
    ASSUME NEW L \in LogLines, NEW M \in LogLines, NEW t \in Segments,
           Len(M[t]) <= Len(L[t]) + 1, \A s \in Segments : s # t => M[s] = L[s]
    PROVE  /\ Before(M)[N] <= Before(L)[N] + 1 /\ Before(M)[N] \in Nat /\ Before(L)[N] \in Nat
           /\ Before(M)[t] = Before(L)[t]
<1>1. /\ IsLog(L) /\ Weighs(L, Before(L)) /\ IsLog(M) /\ Weighs(M, Before(M))
    BY FlatIs DEF LogLines
<1>2. Segments = 0..(N - 1) /\ N \in Nat /\ N \in 0..N /\ N > t /\ 1 \in Int /\ t \in 0..N
    BY SegmentsAre
<1>3. \A s \in Segments : Len(M[s]) <= Len(L[s]) + (IF s = t THEN 1 ELSE 0)
    BY DEF LogLines
<1>4. \A k \in 0..N : Before(M)[k] <= Before(L)[k] + (IF k > t THEN 1 ELSE 0)
    BY <1>1, <1>2, <1>3, WeightsDiffer
<1>5. Before(M)[N] \in Nat /\ Before(L)[N] \in Nat
    BY <1>1, <1>2 DEF Weighs
<1>6. Before(M)[t] = Before(L)[t]
    <2>1. \A s \in Segments : s < t => Len(M[s]) = Len(L[s])
        BY <1>2
    <2> QED BY <1>1, <1>2, <2>1, WeightsAgree
<1> QED BY <1>2, <1>4, <1>5, <1>6

-----------------------------------------------------------------------------
(* What open reads.                                                        *)

\* The segment open calls the last is in the folder, and none there is after it.
LEMMA MaxIs ==
    ASSUME NEW S, S \subseteq Segments, S # {}
    PROVE  Max(S) \in S /\ \A q \in S : q <= Max(S)
<1> DEFINE D == {n \in Nat : \A q \in S : q <= n}
<1>1. Segments = 0..(N - 1) /\ N \in Nat
    BY SegmentsAre
<1>2. D \subseteq Nat /\ N \in D
    BY <1>1
<1>3. PICK m \in D : \A j \in D : m <= j
    <2> HIDE DEF D
    <2> QED BY <1>2, LeastOf
<1>4. m \in S
    <2> SUFFICES ASSUME m \notin S PROVE FALSE
        OBVIOUS
    <2>1. PICK q \in S : TRUE
        OBVIOUS
    <2>2. m # 0
        BY <1>1, <1>3, <2>1
    <2>3. m - 1 \in D
        BY <1>1, <1>3, <2>2
    <2> QED BY <1>3, <2>3
<1>5. \E x \in S : \A y \in S : x >= y
    BY <1>1, <1>3, <1>4
<1>6. Max(S) \in S /\ \A y \in S : Max(S) >= y
    <2> DEFINE P(x) == \A y \in S : x >= y
    <2>1. \E x \in S : P(x)
        BY <1>5
    <2>2. Max(S) = CHOOSE x \in S : P(x)
        BY DEF Max
    <2> HIDE DEF P
    <2>3. Max(S) \in S /\ P(Max(S))
        BY <2>1, <2>2
    <2> QED BY <2>3 DEF P
<1> QED BY <1>1, <1>6

KeptLines == [s \in Segments |-> IF s \in files THEN Kept(s) ELSE <<>>]

\* What open keeps is the file, less a torn line at the end of the last segment; and
\* the chain it rebuilds is that, read through.
LEMMA KeptIs ==
    ASSUME TypeOK
    PROVE  /\ KeptLines \in LogLines
           /\ \A s \in Segments : Len(KeptLines[s]) <= Len(lines[s])
           /\ \A s \in Segments : \A i \in 1..Len(KeptLines[s]) :
                 i \in 1..Len(lines[s]) /\ KeptLines[s][i] = lines[s][i]
           /\ \A s \in Segments : \A i \in 1..Len(lines[s]) :
                 i \in 1..Len(KeptLines[s])
                 \/ (i = Len(lines[s]) /\ ~lines[s][i].nl /\ lines[s][i].text = Junk
                        /\ s \in files /\ \A q \in files : q <= s)
           /\ \A s \in Segments : ~(s \in files /\ TornTail(s)) => KeptLines[s] = lines[s]
           /\ Replayed = Flat(Said(KeptLines))
           /\ Openable <=> \A s \in Segments : \A i \in 1..Len(KeptLines[s]) : KeptLines[s][i].text # Junk
           /\ Openable => Said(KeptLines) \in [Segments -> Seq(Event)]
<1>1. \A s \in Segments : lines[s] \in Seq(Line) /\ Len(lines[s]) \in Nat /\ (s \notin files => lines[s] = <<>>)
    BY DEF TypeOK
<1>2. ASSUME NEW s \in Segments, s \in files, TornTail(s)
      PROVE  /\ KeptLines[s] = Front(lines[s]) /\ lines[s] # <<>>
             /\ ~lines[s][Len(lines[s])].nl /\ lines[s][Len(lines[s])].text = Junk
             /\ \A q \in files : q <= s
    <2>1. KeptLines[s] = Front(lines[s]) /\ lines[s] # <<>>
        BY <1>2 DEF KeptLines, Kept, TornTail, Terminated
    <2>2. Last(lines[s]) = lines[s][Len(lines[s])]
        BY <1>1, <2>1, FrontLast
    <2>3. ~Last(lines[s]).nl /\ Last(lines[s]).text = Junk
        BY <1>2 DEF TornTail, Terminated
    <2>4. \A q \in files : q <= s
        <3>1. files \subseteq Segments /\ files # {} /\ s = Max(files)
            BY <1>2 DEF TypeOK, TornTail
        <3> QED BY <3>1, MaxIs
    <2> QED BY <2>1, <2>2, <2>3, <2>4
<1>3. ASSUME NEW s \in Segments, ~(s \in files /\ TornTail(s)) PROVE KeptLines[s] = lines[s]
    BY <1>1, <1>3 DEF KeptLines, Kept
<1>4. ASSUME NEW s \in Segments
      PROVE  /\ KeptLines[s] \in Seq(Line) /\ Len(KeptLines[s]) <= Len(lines[s])
             /\ \A i \in 1..Len(KeptLines[s]) : i \in 1..Len(lines[s]) /\ KeptLines[s][i] = lines[s][i]
             /\ \A i \in 1..Len(lines[s]) :
                  i \in 1..Len(KeptLines[s])
                  \/ (i = Len(lines[s]) /\ ~lines[s][i].nl /\ lines[s][i].text = Junk
                        /\ s \in files /\ \A q \in files : q <= s)
    <2>1. CASE s \in files /\ TornTail(s)
        <3>1. /\ Front(lines[s]) \in Seq(Line) /\ Len(Front(lines[s])) = Len(lines[s]) - 1
              /\ \A i \in 1..(Len(lines[s]) - 1) : Front(lines[s])[i] = lines[s][i]
              /\ Len(lines[s]) \in 1..Len(lines[s])
            BY <1>1, <1>2, <2>1, FrontLast
        <3>2. KeptLines[s] \in Seq(Line) /\ Len(KeptLines[s]) = Len(lines[s]) - 1
              /\ \A i \in 1..(Len(lines[s]) - 1) : KeptLines[s][i] = lines[s][i]
            BY <1>2, <2>1, <3>1
        <3>3. \A i \in 1..Len(KeptLines[s]) : i \in 1..Len(lines[s]) /\ KeptLines[s][i] = lines[s][i]
            BY <1>1, <3>1, <3>2
        <3>4. \A i \in 1..Len(lines[s]) : i \in 1..Len(KeptLines[s]) \/ i = Len(lines[s])
            BY <1>1, <3>1, <3>2
        <3> QED BY <1>1, <1>2, <2>1, <3>2, <3>3, <3>4
    <2>2. CASE ~(s \in files /\ TornTail(s))
        BY <1>1, <1>3, <2>2
    <2> QED BY <2>1, <2>2
<1>5. KeptLines \in LogLines
    BY <1>4 DEF KeptLines, LogLines
<1>6. Replayed = Flat(Said(KeptLines))
    <2> DEFINE G == Said(KeptLines)
               c == [k \in 1..N |-> G[k - 1]]
               d == [k \in 1..Cardinality(Segments) |->
                       IF k - 1 \in files
                       THEN [i \in 1..Len(Kept(k - 1)) |-> Kept(k - 1)[i].text]
                       ELSE <<>>]
    <2>1. Segments = 0..(N - 1) /\ Cardinality(Segments) = N /\ N \in Nat
        BY SegmentsAre
    <2>2. ASSUME NEW k \in 1..N PROVE c[k] = d[k]
        <3>1. k - 1 \in Segments
            BY <2>1
        <3>2. G[k - 1] = [i \in 1..Len(KeptLines[k - 1]) |-> KeptLines[k - 1][i].text]
            BY <3>1 DEF Said
        <3>3. CASE k - 1 \in files
            <4>1. KeptLines[k - 1] = Kept(k - 1)
                BY <3>1, <3>3 DEF KeptLines
            <4> QED BY <2>1, <3>2, <3>3, <4>1
        <3>4. CASE k - 1 \notin files
            <4>1. KeptLines[k - 1] = <<>>
                BY <3>1, <3>4 DEF KeptLines
            <4>2. G[k - 1] = <<>>
                <5>1. Len(G[k - 1]) = 0 /\ G[k - 1] \in Seq(Event \cup {Junk})
                    BY <1>5, <3>1, <4>1, SaidIs DEF Log
                <5> HIDE DEF G
                <5> QED BY <5>1, EmptySeq
            <4> HIDE DEF G
            <4> QED BY <2>1, <3>4, <4>2
        <3> QED BY <3>3, <3>4
    <2>3. c = d
        <3> HIDE DEF G
        <3>1. c = [k \in 1..N |-> c[k]] /\ d = [k \in 1..N |-> d[k]]
            BY <2>1
        <3> HIDE DEF c, d
        <3> QED BY <2>2, <3>1
    <2> QED BY <2>3 DEF Flat, Replayed
<1>7. Openable <=> \A s \in Segments : \A i \in 1..Len(KeptLines[s]) : KeptLines[s][i].text # Junk
    <2>1. \A s \in files : s \in Segments /\ KeptLines[s] = Kept(s)
        BY DEF TypeOK, KeptLines
    <2>2. \A s \in Segments : s \notin files => Len(KeptLines[s]) = 0
        BY DEF KeptLines
    <2> QED BY <2>1, <2>2 DEF Openable
<1>8. ASSUME Openable PROVE Said(KeptLines) \in [Segments -> Seq(Event)]
    <2> DEFINE G == Said(KeptLines)
    <2>1. /\ G \in Log /\ \A s \in Segments : Len(G[s]) = Len(KeptLines[s])
          /\ \A s \in Segments : \A i \in 1..Len(KeptLines[s]) : G[s][i] = KeptLines[s][i].text
        BY <1>5, SaidIs
    <2> HIDE DEF G
    <2>2. \A s \in Segments : \A i \in 1..Len(G[s]) : G[s][i] # Junk
        BY <1>7, <1>8, <2>1
    <2>3. ASSUME NEW s \in Segments PROVE G[s] \in Seq(Event)
        <3>1. G[s] \in Seq(Event \cup {Junk}) /\ G[s] = [i \in 1..Len(G[s]) |-> G[s][i]] /\ Len(G[s]) \in Nat
            BY <2>1 DEF Log
        <3>2. \A i \in 1..Len(G[s]) : G[s][i] \in Event
            BY <2>2, <3>1, ElementOfSeq
        <3>3. [i \in 1..Len(G[s]) |-> G[s][i]] \in Seq(Event)
            BY <3>1, <3>2, IsASeq
        <3> QED BY <3>1, <3>3
    <2> QED BY <2>1, <2>3 DEF Log, G
<1> QED BY <1>3, <1>4, <1>5, <1>6, <1>7, <1>8

-----------------------------------------------------------------------------
(* Types, and the counts that bound them.                                  *)

\* The chain without the event an append has under way.
Base == IF step = "idle" THEN chain ELSE Front(chain)
Place == SegmentOf(Len(Base))

\* A stopped process has nothing in memory; no more lines and events than
\* appends; the event under way extends the chain before it.
Counted ==
    /\ ~up => chain = <<>> /\ step = "idle" /\ verdict = "unrecorded"
    /\ Len(chain) <= attempts
    /\ Before(lines)[N] + (IF step = "write" THEN 1 ELSE 0) <= attempts
    /\ step # "idle" =>
         /\ chain # <<>>
         /\ Newest.seq = Len(Base) /\ Newest.hash = attempts
         /\ Newest.prev = IF Base = <<>> THEN Genesis ELSE Base[Len(Base)].hash

TypeInv == TypeOK /\ Counted

\* The lines that can be written for the event under way.
Partial == [text |-> Junk, nl |-> FALSE]
Writable == {Partial, FullLine, Unended}

\* Where an append stands: its event is the last of the chain, and goes into Place.
LEMMA UnderWay ==
    ASSUME TypeInv
    PROVE  /\ Base \in Seq(Event) /\ Len(Base) \in Nat /\ Len(Base) <= Len(chain)
           /\ attempts \in Nat /\ Len(chain) \in Nat /\ Before(lines)[N] \in Nat
           /\ lines \in LogLines
           /\ Place \in Segments
           /\ step # "idle" =>
                /\ up /\ chain = Append(Base, Newest) /\ Newest \in Event /\ Base = Front(chain)
                /\ Newest = chain[Len(chain)] /\ Len(chain) = Len(Base) + 1
                /\ Target = Place /\ Target \in Segments
                /\ attempts \in Hashes
                /\ \A line \in Writable : /\ line \in Line /\ (line.text = Newest \/ line.text = Junk)
                                          /\ line.text = Newest \/ line = Partial
                /\ FullLine.text = Newest /\ FullLine.nl /\ FullLine \in Line
<1>1. chain \in Seq(Event) /\ attempts \in Nat /\ attempts <= MaxAppends /\ MaxAppends \in Nat /\ lines \in LogLines
    BY BoundsAssumption DEF TypeInv, TypeOK, LogLines
<1>2. Before(lines)[N] \in Nat
    <2>1. Weighs(lines, Before(lines)) /\ N \in 0..N
        <3>1. N \in 0..N
            BY SegmentsAre
        <3>2. Weighs(lines, Before(lines))
            BY <1>1, FlatIs DEF LogLines
        <3> QED BY <3>1, <3>2
    <2> QED BY <2>1 DEF Weighs
<1>3. CASE step = "idle"
    <2>1. Base = chain /\ Len(chain) \in Nat
        BY <1>1, <1>3 DEF Base
    <2>2. Len(chain) \in 0..MaxAppends
        BY <1>1, <2>1 DEF TypeInv, Counted
    <2>3. Place \in Segments
        BY <2>1, <2>2, SegmentsAre DEF Place
    <2> QED BY <1>1, <1>2, <1>3, <2>1, <2>3
<1>4. CASE step # "idle"
    <2>1. chain # <<>> /\ Base = Front(chain) /\ up
        BY <1>4 DEF TypeInv, Counted, Base, TypeOK
    <2>2. /\ Base \in Seq(Event) /\ Len(Base) = Len(chain) - 1 /\ Len(chain) \in 1..Len(chain)
          /\ Newest = chain[Len(chain)] /\ Newest \in Event /\ chain = Append(Base, Newest)
        BY <1>1, <2>1, FrontLast DEF Newest
    <2>3. Len(chain) = Len(Base) + 1 /\ Len(Base) \in Nat /\ Len(Base) <= Len(chain)
        BY <1>1, <2>2
    <2>4. Len(Base) \in 0..MaxAppends
        BY <1>1, <2>3 DEF TypeInv, Counted
    <2>5. Place \in Segments /\ Target = Place
        BY <1>4, <2>4, SegmentsAre DEF Place, Target, TypeInv, Counted
    <2>6. attempts \in Hashes
        BY <1>1, <2>2, <1>4 DEF TypeInv, Counted, Event
    <2>7. /\ FullLine \in Line /\ FullLine.text = Newest /\ FullLine.nl
          /\ Unended \in Line /\ Unended.text = Newest
          /\ Partial \in Line /\ Partial.text = Junk
        BY <2>2 DEF FullLine, Unended, Partial, Line
    <2>8. \A line \in Writable : /\ line \in Line /\ (line.text = Newest \/ line.text = Junk)
                                 /\ line.text = Newest \/ line = Partial
        BY <2>7 DEF Writable
    <2>9. Len(chain) \in Nat
        BY <1>1
    <2>10. /\ up /\ chain = Append(Base, Newest) /\ Newest \in Event /\ Base = Front(chain)
           /\ Newest = chain[Len(chain)] /\ Len(chain) = Len(Base) + 1
           /\ Target = Place /\ Target \in Segments
           /\ attempts \in Hashes
           /\ FullLine.text = Newest /\ FullLine.nl /\ FullLine \in Line
        BY <2>1, <2>2, <2>3, <2>5, <2>6, <2>7
    <2> QED BY <1>1, <1>2, <2>2, <2>3, <2>5, <2>8, <2>9, <2>10, Zenon
<1> QED BY <1>3, <1>4

\* The event a new append makes.
LEMMA NextEventIs ==
    ASSUME TypeInv, step = "idle", attempts < MaxAppends
    PROVE  /\ NextEvent \in Event /\ NextEvent.hash = attempts + 1 /\ NextEvent.seq = Len(chain)
           /\ NextEvent.prev = IF chain = <<>> THEN Genesis ELSE chain[Len(chain)].hash
<1>1. chain \in Seq(Event) /\ attempts \in Nat /\ Len(chain) <= attempts /\ MaxAppends \in Nat /\ Len(chain) \in Nat
    BY BoundsAssumption DEF TypeInv, TypeOK, Counted
<1>2. chain # <<>> => Last(chain) = chain[Len(chain)] /\ Last(chain) \in Event
    BY <1>1, FrontLast
<1>3. attempts + 1 \in Hashes /\ Len(chain) \in 0..MaxAppends
    BY <1>1 DEF Hashes
<1>4. chain # <<>> => chain[Len(chain)].hash \in Hashes
    BY <1>2 DEF Event
<1> DEFINE p == IF chain = <<>> THEN Genesis ELSE Last(chain).hash
<1>5. p \in {Genesis} \cup Hashes
    BY <1>2, <1>4
<1>6. NextEvent = [seq |-> Len(chain), prev |-> p, hash |-> attempts + 1]
    BY DEF NextEvent
<1>7. p = IF chain = <<>> THEN Genesis ELSE chain[Len(chain)].hash
    BY <1>2
<1> HIDE DEF p
<1> QED BY <1>3, <1>5, <1>6, <1>7 DEF Event

\* What the write of a line does to the disk's types and counts.
LEMMA PutTypes ==
    ASSUME TypeInv, step = "write", NEW line \in Writable, NEW M, M = Put(lines, Target, line)
    PROVE  /\ M \in LogLines
           /\ \A s \in Segments \ (files \cup {Target}) : M[s] = <<>>
           /\ Before(M)[N] <= attempts /\ Before(M)[N] \in Nat
           /\ files \cup {Target} \subseteq Segments
<1>1. lines \in LogLines /\ Target \in Segments /\ line \in Line /\ attempts \in Nat
    BY UnderWay
<1>2. /\ M \in LogLines /\ Len(M[Target]) <= Len(lines[Target]) + 1
      /\ \A s \in Segments : s # Target => M[s] = lines[s]
    BY <1>1, PutIs
<1>3. Before(M)[N] <= Before(lines)[N] + 1 /\ Before(M)[N] \in Nat /\ Before(lines)[N] \in Nat
    BY <1>1, <1>2, OneMoreLine
<1>4. Before(lines)[N] + 1 <= attempts
    BY DEF TypeInv, Counted
<1>5. \A s \in Segments \ (files \cup {Target}) : M[s] = <<>>
    BY <1>2 DEF TypeInv, TypeOK
<1>6. Before(M)[N] <= attempts
    <2> DEFINE a == Before(M)[N]
               b == Before(lines)[N]
    <2>1. a \in Nat /\ b \in Nat /\ a <= b + 1 /\ b + 1 <= attempts
        BY <1>3, <1>4
    <2> HIDE DEF a, b
    <2>2. a <= attempts
        BY <1>1, <2>1
    <2> QED BY <2>2 DEF a
<1> QED BY <1>1, <1>2, <1>3, <1>5, <1>6 DEF TypeInv, TypeOK

\* What the loss of lines does.
LEMMA LossTypes ==
    ASSUME TypeInv, NEW M \in LogLines, \A s \in Segments : Len(M[s]) <= Len(lines[s])
    PROVE  Before(M)[N] <= attempts /\ Before(M)[N] \in Nat
<1>1. lines \in LogLines /\ attempts \in Nat /\ N \in 0..N
    BY UnderWay, SegmentsAre
<1> DEFINE a == Before(M)[N]
           b == Before(lines)[N]
<1>2. a <= b /\ a \in Nat /\ b \in Nat
    BY <1>1, FewerLines
<1>3. b + (IF step = "write" THEN 1 ELSE 0) <= attempts
    BY DEF TypeInv, Counted
<1> HIDE DEF a, b
<1>4. a <= attempts
    BY <1>1, <1>2, <1>3
<1> QED BY <1>2, <1>4 DEF a

\* A log has as many lines as it says things.
LEMMA SaidWeighs ==
    ASSUME NEW L \in LogLines
    PROVE  Before(Said(L)) = Before(L)
<1>1. /\ IsLog(L) /\ Weighs(L, Before(L))
      /\ Said(L) \in Log /\ \A s \in Segments : Len(Said(L)[s]) = Len(L[s])
    BY SaidIs, FlatIs DEF LogLines
<1>2. IsLog(Said(L)) /\ Weighs(Said(L), Before(Said(L)))
    BY <1>1, FlatIs DEF Log
<1>3. Weighs(L, Before(Said(L)))
    BY <1>1, <1>2 DEF Weighs
<1> QED BY <1>1, <1>3, OneWeight

\* A store is created with nothing in it.
LEMMA TypeInvInit == Init => TypeInv
<1> SUFFICES ASSUME Init PROVE TypeInv
    OBVIOUS
<1>1. TypeOK
    <2>1. 0 \in 0..MaxAppends /\ {} \subseteq Faults
        BY BoundsAssumption
    <2>2. <<>> \in Seq(Line) /\ <<>> \in Seq(Event)
        OBVIOUS
    <2>3. lines \in [Segments -> Seq(Line)] /\ chain \in Seq(Event)
        BY <2>2 DEF Init
    <2>4. \A s \in Segments \ files : lines[s] = <<>>
        BY DEF Init
    <2> QED BY <2>1, <2>3, <2>4 DEF Init, TypeOK
<1>2. Before(lines)[N] = 0
    <2>1. /\ lines \in LogLines /\ \A s \in Segments : Len(lines[s]) = 0
        BY DEF Init, LogLines
    <2>2. IsLog(lines) /\ Weighs(lines, Before(lines)) /\ 0 \in 0..N
        <3>1. 0 \in 0..N
            BY SegmentsAre
        <3> QED BY <2>1, <3>1, FlatIs DEF LogLines
    <2>3. Before(lines)[N] = Before(lines)[0]
        <3>1. \A s \in Segments : s >= 0 => Len(lines[s]) = 0
            BY <2>1
        <3> QED BY <2>2, <3>1, WeightsEnd
    <2> QED BY <2>2, <2>3 DEF Weighs
<1> QED BY <1>1, <1>2 DEF TypeInv, Counted, Init

\* Open.
LEMMA TypesOpen == TypeInv /\ Open => TypeInv'
<1> SUFFICES ASSUME TypeInv, Open PROVE TypeInv'
    OBVIOUS
<1>1. /\ lines' = KeptLines /\ chain' = Flat(Said(KeptLines)) /\ up' /\ step' = "idle" /\ step = "idle"
      /\ UNCHANGED <<files, synced, head, step, attempts, acked, suffered>> /\ Openable
      /\ verdict' = HeadVerdict(Replayed)
    <2>1. Replayed = Flat(Said(KeptLines))
        BY KeptIs DEF TypeInv
    <2> QED BY <2>1 DEF Open, KeptLines, TypeInv, Counted
<1>2. /\ KeptLines \in LogLines
      /\ \A s \in Segments : Len(KeptLines[s]) <= Len(lines[s])
      /\ Said(KeptLines) \in [Segments -> Seq(Event)]
    BY <1>1, KeptIs DEF TypeInv
<1>3. \A s \in Segments \ files : KeptLines[s] = <<>>
    BY DEF KeptLines
<1>4. Before(KeptLines)[N] <= attempts
    BY <1>2, LossTypes
<1>5. chain' \in Seq(Event) /\ Len(chain') = Before(KeptLines)[N]
    <2>1. Flat(Said(KeptLines)) \in Seq(Event) /\ Len(Flat(Said(KeptLines))) = Before(Said(KeptLines))[N]
        BY <1>2, FlatIs
    <2> QED BY <1>1, <1>2, <2>1, SaidWeighs
<1>6. TypeOK'
    <2>1. verdict' \in {"unrecorded", "intact", "diverged"}
        BY <1>1 DEF HeadVerdict
    <2> QED BY <1>1, <1>2, <1>3, <1>5, <2>1 DEF TypeInv, TypeOK, LogLines
<1>7. Counted'
    BY <1>1, <1>4, <1>5, UnderWay DEF Counted
<1> QED BY <1>6, <1>7 DEF TypeInv

\* Ledger::append numbers its event by the length of the chain.
LEMMA TypesBeginAppend == TypeInv /\ BeginAppend => TypeInv'
<1> SUFFICES ASSUME TypeInv, BeginAppend PROVE TypeInv'
    OBVIOUS
<1>1. /\ chain' = Append(chain, NextEvent) /\ attempts' = attempts + 1 /\ step' = "write" /\ step = "idle" /\ up
      /\ attempts < MaxAppends
      /\ UNCHANGED <<files, synced, lines, head, up, verdict, acked, suffered>>
    BY DEF BeginAppend, disk
<1>2. /\ NextEvent \in Event /\ NextEvent.hash = attempts + 1 /\ NextEvent.seq = Len(chain)
      /\ NextEvent.prev = IF chain = <<>> THEN Genesis ELSE chain[Len(chain)].hash
    BY <1>1, NextEventIs
<1>3. chain \in Seq(Event) /\ Len(chain) \in Nat /\ attempts \in Nat /\ MaxAppends \in Nat
      /\ Before(lines)[N] \in Nat
    BY UnderWay, BoundsAssumption DEF TypeInv, TypeOK
<1>4. chain' \in Seq(Event) /\ Len(chain') = Len(chain) + 1
    BY <1>1, <1>2, <1>3, AppendProperties
<1>5. Base' = chain /\ Newest' = NextEvent /\ chain' # <<>>
    BY <1>1, <1>2, <1>3, FrontAppend DEF Base, Newest
<1>6. TypeOK'
    BY <1>1, <1>3, <1>4 DEF TypeInv, TypeOK
<1>7. Before(lines')[N] + 1 <= attempts'
    <2> DEFINE b == Before(lines)[N]
    <2>1. b <= attempts /\ b \in Nat
        BY <1>1, <1>3 DEF TypeInv, Counted
    <2> HIDE DEF b
    <2>2. b + 1 <= attempts + 1
        BY <1>3, <2>1
    <2> QED BY <1>1, <2>2 DEF b
<1>8. Len(chain') <= attempts'
    <2>1. Len(chain) <= attempts
        BY DEF TypeInv, Counted
    <2> QED BY <1>1, <1>3, <1>4, <2>1
<1>9. Counted'
    BY <1>1, <1>2, <1>5, <1>7, <1>8 DEF Counted
<1> QED BY <1>6, <1>9 DEF TypeInv

\* The process goes on, or takes the event back; the disk is as it was but for
\* empty files.
LEMMA TypesKeep ==
    ASSUME TypeInv, step # "idle", lines' = lines, files \subseteq files', files' \subseteq Segments,
           synced' \subseteq files',
           UNCHANGED <<up, verdict, attempts>>, head' \in {NoHead} \cup LedgerHead,
           acked' \subseteq Event, suffered' \subseteq Faults,
           \/ chain' = chain /\ step' \in {"idle", "syncdir", "head"}
           \/ chain' = RolledBack /\ step' = "idle"
    PROVE  TypeInv'
<1>1. /\ Base \in Seq(Event) /\ Len(Base) \in Nat /\ Len(Base) <= Len(chain) /\ Base = Front(chain)
      /\ attempts \in Nat /\ Len(chain) \in Nat /\ Before(lines)[N] \in Nat /\ up
    BY UnderWay
<1>2. chain' \in Seq(Event) /\ Len(chain') <= attempts
    <2>1. Len(chain) <= attempts /\ chain \in Seq(Event)
        BY DEF TypeInv, Counted, TypeOK
    <2> QED BY <1>1, <2>1 DEF RolledBack
<1>3. TypeOK'
    BY <1>2 DEF TypeInv, TypeOK
<1>4. Before(lines')[N] + 0 <= attempts'
    <2> DEFINE b == Before(lines)[N]
    <2>1. b + (IF step = "write" THEN 1 ELSE 0) <= attempts /\ b \in Nat
        BY <1>1 DEF TypeInv, Counted
    <2> HIDE DEF b
    <2>2. b + 0 <= attempts
        BY <1>1, <2>1
    <2> QED BY <2>2 DEF b
<1>5. step' # "idle" => chain' = chain /\ Base' = Base /\ Newest' = Newest
    BY <1>1 DEF Base, Newest
<1>6. Counted'
    BY <1>1, <1>2, <1>4, <1>5 DEF TypeInv, Counted
<1> QED BY <1>3, <1>6 DEF TypeInv

\* ... or a line is written ...
LEMMA TypesPut ==
    ASSUME TypeInv, step = "write", NEW line \in Writable, lines' = Put(lines, Target, line),
           files' = files \cup {Target},
           UNCHANGED <<synced, head, attempts, acked>>, suffered' \subseteq Faults,
           \/ chain' = chain /\ step' \in {"syncdir", "head"} /\ UNCHANGED <<up, verdict>>
           \/ chain' = RolledBack /\ step' = "idle" /\ UNCHANGED <<up, verdict>>
           \/ Down
    PROVE  TypeInv'
<1>1. /\ Base \in Seq(Event) /\ Len(Base) \in Nat /\ Len(Base) <= Len(chain) /\ Base = Front(chain)
      /\ attempts \in Nat /\ Len(chain) \in Nat /\ up
    BY UnderWay
<1>2. /\ lines' \in LogLines
      /\ \A s \in Segments \ files' : lines'[s] = <<>>
      /\ Before(lines')[N] <= attempts /\ Before(lines')[N] \in Nat
      /\ files' \subseteq Segments
    BY PutTypes
<1>3. chain' \in Seq(Event) /\ Len(chain') <= attempts
    <2>1. Len(chain) <= attempts /\ chain \in Seq(Event)
        BY DEF TypeInv, Counted, TypeOK
    <2>2. <<>> \in Seq(Event) /\ Len(<<>>) = 0
        OBVIOUS
    <2>3. CASE chain' = chain
        BY <2>1, <2>3
    <2>4. CASE chain' = RolledBack
        BY <1>1, <2>1, <2>4 DEF RolledBack
    <2>5. CASE chain' = <<>>
        BY <1>1, <2>2, <2>5
    <2> QED BY <2>3, <2>4, <2>5 DEF Down
<1>4. TypeOK'
    <2>1. up' \in BOOLEAN /\ verdict' \in {"unrecorded", "intact", "diverged"}
          /\ step' \in {"idle", "write", "syncdir", "head"}
        BY DEF TypeInv, TypeOK, Down
    <2>2. synced' \subseteq files'
        BY DEF TypeInv, TypeOK
    <2> QED BY <1>2, <1>3, <2>1, <2>2 DEF TypeInv, TypeOK, LogLines
<1>5. step' # "write" /\ (~up' => chain' = <<>> /\ step' = "idle" /\ verdict' = "unrecorded")
    BY <1>1 DEF Down
<1>6. step' # "idle" => chain' = chain /\ Base' = Base /\ Newest' = Newest
    BY <1>1 DEF Base, Newest, Down
<1>7. Before(lines')[N] + (IF step' = "write" THEN 1 ELSE 0) <= attempts'
    <2> DEFINE b == Before(lines')[N]
    <2>1. b <= attempts /\ b \in Nat /\ attempts' = attempts
        BY <1>2
    <2> HIDE DEF b
    <2>2. b + (IF step' = "write" THEN 1 ELSE 0) <= attempts
        BY <1>5, <2>1
    <2> QED BY <2>1, <2>2 DEF b
<1>8. Counted'
    BY <1>3, <1>5, <1>6, <1>7 DEF TypeInv, Counted
<1> QED BY <1>4, <1>8 DEF TypeInv

\* ... or lines are lost, and the process with them or not there.
LEMMA TypesLose ==
    ASSUME TypeInv, lines' \in LogLines, \A s \in Segments : Len(lines'[s]) <= Len(lines[s]),
           files' \subseteq Segments, \A s \in Segments \ files' : lines'[s] = <<>>,
           synced' \subseteq files', UNCHANGED <<head, attempts, acked>>, suffered' \subseteq Faults,
           Down \/ (~up /\ UNCHANGED process)
    PROVE  TypeInv'
<1>1. /\ up' = FALSE /\ chain' = <<>> /\ step' = "idle" /\ verdict' = "unrecorded"
    BY DEF Down, process, TypeInv, Counted, TypeOK
<1>2. Before(lines')[N] <= attempts /\ Before(lines')[N] \in Nat /\ attempts \in Nat
    BY LossTypes, UnderWay
<1>3. TypeOK'
    <2>1. <<>> \in Seq(Event)
        OBVIOUS
    <2>2. chain' \in Seq(Event) /\ up' \in BOOLEAN /\ step' \in {"idle", "write", "syncdir", "head"}
          /\ verdict' \in {"unrecorded", "intact", "diverged"}
        BY <1>1, <2>1
    <2>3. lines' \in [Segments -> Seq(Line)]
        BY DEF LogLines
    <2> QED BY <2>2, <2>3 DEF TypeInv, TypeOK
<1>4. Counted'
    <2> DEFINE b == Before(lines')[N]
    <2>1. b <= attempts /\ b \in Nat /\ attempts' = attempts /\ attempts \in Nat
        BY <1>2
    <2> HIDE DEF b
    <2>2. b + 0 <= attempts' /\ Len(chain') <= attempts'
        <3>1. Len(chain') = 0
            BY <1>1
        <3> QED BY <2>1, <3>1
    <2> QED BY <1>1, <2>2 DEF b, Counted
<1> QED BY <1>3, <1>4 DEF TypeInv

-----------------------------------------------------------------------------
(* What the steps do to the lines.                                         *)

\* A line is written for the event under way.
Wrote(line) ==
    /\ step = "write" /\ line \in Writable
    /\ lines' = Put(lines, Target, line)
    /\ files' = files \cup {Target}
    /\ UNCHANGED <<synced, head, attempts, acked>>

\* The last lines of some segments are lost, and with them some segments, or
\* an empty one is left; the process ends, or there is none.
Lost ==
    /\ lines' \in LogLines
    /\ \A s \in Segments : /\ Len(lines'[s]) <= Len(lines[s])
                           /\ \A i \in 1..Len(lines'[s]) : lines'[s][i] = lines[s][i]
    /\ files' \subseteq files \cup (IF step = "write" THEN {Target} ELSE {})
    /\ \A s \in Segments \ files' : lines'[s] = <<>>
    /\ synced' \subseteq files'
    /\ UNCHANGED <<head, attempts, acked>>
    /\ Down \/ (~up /\ UNCHANGED process)

\* A crash loses no line, and may leave the one being written whole or in part.
LEMMA CrashIs ==
    ASSUME TypeInv, Crash
    PROVE  /\ up /\ Down
           /\ \/ Lost /\ lines' = lines /\ files \subseteq files' /\ suffered' = suffered
              \/ \E line \in Writable : /\ Wrote(line)
                                        /\ IF line = Unended THEN Suffer("newline") ELSE suffered' = suffered
<1>1. /\ up /\ Down /\ Interrupted /\ UNCHANGED <<synced, head, attempts, acked>>
    BY DEF Crash
<1>2. /\ lines \in LogLines /\ files \subseteq Segments /\ synced \subseteq files
      /\ \A s \in Segments \ files : lines[s] = <<>>
      /\ \A s \in Segments : Len(lines[s]) \in Nat
    BY DEF TypeInv, TypeOK, LogLines
<1>3. ASSUME UNCHANGED <<lines, suffered>>, files' = files \/ (step = "write" /\ files' = files \cup {Target})
      PROVE  Lost /\ lines' = lines /\ files \subseteq files' /\ suffered' = suffered
    <2>1. \A s \in Segments : Len(lines'[s]) <= Len(lines[s])
        BY <1>2, <1>3
    <2> QED BY <1>1, <1>2, <1>3, <2>1 DEF Lost
<1>4. step = "write" => Partial # Unended /\ FullLine # Unended
    <2> SUFFICES ASSUME step = "write" PROVE Partial # Unended /\ FullLine # Unended
        OBVIOUS
    <2>1. Newest \in Event
        BY UnderWay
    <2>2. Newest # Junk
        BY <2>1, ValuesAssumption
    <2>3. Unended.text = Newest /\ ~Unended.nl /\ FullLine.nl /\ Partial.text = Junk
        BY DEF Unended, FullLine, Partial
    <2> QED BY <2>2, <2>3
<1>5. ASSUME NEW line \in {Partial, FullLine}, step = "write", files' = files \cup {Target},
             lines' = [lines EXCEPT ![Target] = Write(@, line)], UNCHANGED suffered
      PROVE  Wrote(line) /\ line # Unended /\ line \in Writable
    BY <1>1, <1>4, <1>5 DEF Wrote, Put, Writable
<1>6. ASSUME step = "write", files' = files \cup {Target},
             lines' = [lines EXCEPT ![Target] = Write(@, Unended)], Suffer("newline")
      PROVE  Wrote(Unended) /\ Unended \in Writable
    BY <1>1, <1>6 DEF Wrote, Put, Writable
<1>7. \/ UNCHANGED <<lines, suffered>> /\ (files' = files \/ (step = "write" /\ files' = files \cup {Target}))
      \/ \E line \in {Partial, FullLine} :
            /\ step = "write" /\ files' = files \cup {Target}
            /\ lines' = [lines EXCEPT ![Target] = Write(@, line)] /\ UNCHANGED suffered
      \/ /\ step = "write" /\ files' = files \cup {Target}
         /\ lines' = [lines EXCEPT ![Target] = Write(@, Unended)] /\ Suffer("newline")
    BY <1>1 DEF Interrupted, Landed, Partial
<1> QED BY <1>1, <1>3, <1>5, <1>6, <1>7

\* A power cut loses whole segments.
LEMMA PowerCutIs ==
    ASSUME TypeInv, PowerCut
    PROVE  Lost /\ up /\ Down /\ Suffer("power")
<1>1. /\ up /\ Down /\ Suffer("power") /\ UNCHANGED <<head, attempts, acked>>
    BY DEF PowerCut
<1>2. /\ lines \in LogLines /\ \A s \in Segments : Len(lines[s]) \in Nat /\ lines[s] \in Seq(Line)
    BY DEF TypeInv, TypeOK, LogLines
<1>3. PICK kept \in SUBSET files :
          /\ synced \subseteq kept /\ files' = kept /\ synced' = kept
          /\ lines' = [s \in Segments |-> IF s \in kept THEN lines[s] ELSE <<>>]
    BY DEF PowerCut
<1>4. \A s \in Segments : lines'[s] = IF s \in kept THEN lines[s] ELSE <<>>
    BY <1>3
<1>5. lines' \in LogLines
    <2>1. <<>> \in Seq(Line)
        OBVIOUS
    <2> QED BY <1>2, <1>3, <2>1 DEF LogLines
<1>6. \A s \in Segments : /\ Len(lines'[s]) <= Len(lines[s])
                          /\ \A i \in 1..Len(lines'[s]) : lines'[s][i] = lines[s][i]
    BY <1>2, <1>4
<1> QED BY <1>1, <1>3, <1>4, <1>5, <1>6 DEF Lost

\* Cutting the record's end loses one line, or an empty last segment.
LEMMA CutTailIs ==
    ASSUME TypeInv, CutTail
    PROVE  /\ Lost /\ ~up /\ UNCHANGED process /\ Suffer("cut")
           /\ files # {} /\ Max(files) \in Segments /\ Max(files) \in files
           /\ \A s \in Segments : s # Max(files) => lines'[s] = lines[s]
           /\ IF lines[Max(files)] = <<>> THEN lines' = lines /\ files' = files \ {Max(files)}
              ELSE lines'[Max(files)] = Front(lines[Max(files)]) /\ files' = files
<1> DEFINE s == Max(files)
<1>1. /\ ~up /\ files # {} /\ Suffer("cut") /\ UNCHANGED <<head, process, attempts, acked>>
      /\ IF lines[s] = <<>> THEN files' = files \ {s} /\ lines' = lines
         ELSE lines' = [lines EXCEPT ![s] = Front(@)] /\ files' = files
      /\ synced' = synced \cap files'
    BY DEF CutTail
<1>2. /\ lines \in [Segments -> Seq(Line)] /\ files \subseteq Segments
      /\ \A q \in Segments : Len(lines[q]) \in Nat /\ lines[q] \in Seq(Line)
      /\ \A q \in Segments \ files : lines[q] = <<>>
    BY DEF TypeInv, TypeOK
<1>3. s \in files /\ s \in Segments
    BY <1>1, <1>2, MaxIs
<1> HIDE DEF s
<1>4. \A q \in Segments : q # s => lines'[q] = lines[q]
    BY <1>1, <1>2
<1>5. lines[s] # <<>> =>
         /\ lines'[s] = Front(lines[s]) /\ Front(lines[s]) \in Seq(Line)
         /\ Len(Front(lines[s])) = Len(lines[s]) - 1
         /\ \A i \in 1..(Len(lines[s]) - 1) : Front(lines[s])[i] = lines[s][i]
    <2>1. lines[s] \in Seq(Line) /\ (lines[s] # <<>> => lines'[s] = Front(lines[s]))
        BY <1>1, <1>2, <1>3
    <2> QED BY <2>1, FrontLast
<1>6. lines' \in LogLines
    BY <1>1, <1>2, <1>3, <1>5 DEF LogLines
<1>7. ASSUME NEW q \in Segments
      PROVE  /\ Len(lines'[q]) <= Len(lines[q])
             /\ \A i \in 1..Len(lines'[q]) : lines'[q][i] = lines[q][i]
    <2>1. CASE q = s /\ lines[s] # <<>>
        BY <1>2, <1>5, <2>1
    <2>2. CASE ~(q = s /\ lines[s] # <<>>)
        BY <1>1, <1>2, <1>4, <2>2
    <2> QED BY <2>1, <2>2
<1>8. files' \subseteq files /\ synced' \subseteq files' /\ \A q \in Segments \ files' : lines'[q] = <<>>
    <2>1. \A q \in Segments \ files' : q = s \/ q \notin files
        BY <1>1
    <2> QED BY <1>1, <1>2, <1>3, <1>4, <2>1
<1> QED BY <1>1, <1>3, <1>4, <1>5, <1>6, <1>7, <1>8 DEF Lost, s

\* Every step keeps the types and the counts.
LEMMA TypeInvStep == TypeInv /\ [Next]_vars => TypeInv'
<1> SUFFICES ASSUME TypeInv, [Next]_vars PROVE TypeInv'
    OBVIOUS
<1>1. /\ files \subseteq Segments /\ synced \subseteq files /\ suffered \subseteq Faults
      /\ head \in {NoHead} \cup LedgerHead /\ acked \subseteq Event
      /\ \A s \in Segments \ files : lines[s] = <<>>
    BY DEF TypeInv, TypeOK
<1>2. step # "idle" => Newest \in Event /\ Target \in Segments
    BY UnderWay
<1>3. ASSUME NEW fault, Suffer(fault) PROVE suffered' \subseteq Faults
    BY <1>1, <1>3 DEF Suffer
<1>4. CASE Open
    BY <1>4, TypesOpen
<1>5. CASE BeginAppend
    BY <1>5, TypesBeginAppend
<1>6. CASE WriteLine
    <2>1. /\ step = "write" /\ FullLine \in Writable /\ lines' = Put(lines, Target, FullLine)
          /\ files' = files \cup {Target} /\ chain' = chain /\ step' \in {"syncdir", "head"}
          /\ UNCHANGED <<synced, head, attempts, acked, up, verdict, suffered>>
        BY <1>6 DEF WriteLine, Writable, Put
    <2> QED BY <1>1, <2>1, TypesPut
<1>7. CASE SyncDir
    <2>1. /\ step = "syncdir" /\ step' = "head" /\ synced' = files
          /\ UNCHANGED <<files, lines, head, up, chain, verdict, attempts, acked, suffered>>
        BY <1>7 DEF SyncDir
    <2> QED BY <1>1, <2>1, TypesKeep
<1>8. CASE RecordHead
    <2>1. /\ step = "head" /\ step' = "idle" /\ acked' = acked \cup {Newest}
          /\ head' = IF verdict = "diverged" THEN head ELSE [seq |-> Newest.seq, hash |-> Newest.hash]
          /\ UNCHANGED <<files, synced, lines, up, chain, verdict, attempts, suffered>>
        BY <1>8 DEF RecordHead
    <2>2. [seq |-> Newest.seq, hash |-> Newest.hash] \in LedgerHead
        BY <1>2, <2>1 DEF Event, LedgerHead
    <2> QED BY <1>1, <1>2, <2>1, <2>2, TypesKeep
<1>9. CASE WriteFails
    <2>1. /\ step = "write" /\ step' = "idle" /\ chain' = RolledBack
          /\ files' = files \/ files' = files \cup {Target}
          /\ UNCHANGED <<synced, lines, head, up, verdict, attempts, acked, suffered>>
        BY <1>9 DEF WriteFails, RollBack
    <2> QED BY <1>1, <1>2, <2>1, TypesKeep
<1>10. CASE WriteAndSetLenFail
    <2>1. /\ step = "write" /\ step' = "idle" /\ chain' = RolledBack /\ Suffer("setlen")
          /\ files' = files \cup {Target}
          /\ UNCHANGED <<synced, head, up, verdict, attempts, acked>>
        BY <1>10 DEF WriteAndSetLenFail, RollBack
    <2>2. PICK line \in Landed \cup {Unended} : lines' = [lines EXCEPT ![Target] = Write(@, line)]
        BY <1>10 DEF WriteAndSetLenFail
    <2>3. line \in Writable /\ lines' = Put(lines, Target, line)
        BY <2>2 DEF Landed, Writable, Partial, Put
    <2> QED BY <1>1, <1>3, <2>1, <2>3, TypesPut
<1>11. CASE SyncDirFails
    <2>1. /\ step = "syncdir" /\ step' = "idle" /\ chain' = RolledBack /\ Suffer("syncdir")
          /\ UNCHANGED <<files, synced, lines, head, up, verdict, attempts, acked>>
        BY <1>11 DEF SyncDirFails, RollBack, disk
    <2> QED BY <1>1, <1>3, <2>1, TypesKeep
<1>12. CASE RecordHeadFails
    <2>1. /\ step = "head" /\ step' = "idle"
          /\ UNCHANGED <<files, synced, lines, head, up, chain, verdict, attempts, acked, suffered>>
        BY <1>12 DEF RecordHeadFails, disk
    <2> QED BY <1>1, <2>1, TypesKeep
<1>13. CASE Crash
    <2>1. CASE Lost /\ suffered' = suffered
        <3>1. files' \subseteq Segments
            BY <1>1, <1>2, <2>1 DEF Lost
        <3> QED BY <1>1, <2>1, <3>1, TypesLose DEF Lost
    <2>2. ASSUME NEW line \in Writable, Wrote(line), IF line = Unended THEN Suffer("newline") ELSE suffered' = suffered
          PROVE  TypeInv'
        <3>1. suffered' \subseteq Faults
            BY <1>1, <1>3, <2>2
        <3>2. Down
            BY <1>13, CrashIs
        <3> QED BY <2>2, <3>1, <3>2, TypesPut DEF Wrote
    <2> QED BY <1>13, <2>1, <2>2, CrashIs
<1>14. CASE PowerCut
    <2>1. Lost /\ suffered' \subseteq Faults /\ up
        BY <1>3, <1>14, PowerCutIs
    <2>2. files' \subseteq Segments
        BY <1>1, <1>2, <2>1 DEF Lost
    <2> QED BY <2>1, <2>2, TypesLose DEF Lost
<1>15. CASE CutTail
    <2>1. Lost /\ suffered' \subseteq Faults
        BY <1>3, <1>15, CutTailIs
    <2>2. files' \subseteq Segments
        BY <1>1, <1>2, <2>1 DEF Lost
    <2> QED BY <2>1, <2>2, TypesLose DEF Lost
<1>16. CASE UNCHANGED vars
    BY <1>16 DEF vars, disk, process, TypeInv, TypeOK, Counted, Base, Newest
<1> QED BY <1>4, <1>5, <1>6, <1>7, <1>8, <1>9, <1>10, <1>11, <1>12, <1>13, <1>14, <1>15, <1>16 DEF Next

-----------------------------------------------------------------------------
(* The events there are: on the lines, in memory, acknowledged.            *)

Told == Said(lines)

Around == {x \in Event : \/ \E s \in Segments : \E i \in 1..Len(Told[s]) : Told[s][i] = x
                         \/ \E n \in 1..Len(chain) : chain[n] = x
                         \/ x \in acked}

\* Events are in the segments their numbers say.
Sorted(G) == \A s \in Segments : \A i \in 1..Len(G[s]) : G[s][i] # Junk => SegmentOf(G[s][i].seq) = s

\* A hash names one event, and it is at one place; the head says its number.
EventInv ==
    /\ \A x \in Around : x.prev < x.hash /\ x.hash <= attempts
    /\ \A x, y \in Around : x.hash = y.hash => x = y
    /\ head # NoHead => head.hash <= attempts /\ \A x \in Around : x.hash = head.hash => x.seq = head.seq
    /\ Sorted(Told) /\ Distinct(Told)
    /\ step = "write" =>
         /\ \A s \in Segments : \A i \in 1..Len(Told[s]) : Told[s][i] # Newest
         /\ head # NoHead => head.hash < attempts

\* What is left after a loss is where it was.
LEMMA PrunedPlaces ==
    ASSUME NEW G \in Log, NEW H \in Log, NEW t, Pruned(G, H, t)
    PROVE  /\ \A s \in Segments : \A i \in 1..Len(H[s]) :
                H[s][i] # Junk => i \in 1..Len(G[s]) /\ H[s][i] = G[s][i]
           /\ Distinct(G) => Distinct(H)
           /\ Sorted(G) => Sorted(H)
<1>1. ASSUME NEW s \in Segments, NEW i \in 1..Len(H[s]), H[s][i] # Junk
      PROVE  i \in 1..Len(G[s]) /\ H[s][i] = G[s][i]
    <2>1. Len(H[s]) \in Nat /\ Len(G[s]) \in Nat
        BY DEF Log
    <2> QED BY <1>1, <2>1 DEF Pruned
<1>2. ASSUME Distinct(G), NEW s \in Segments, NEW r \in Segments,
             NEW i \in 1..Len(H[s]), NEW j \in 1..Len(H[r]),
             H[s][i] # Junk, H[r][j] # Junk, H[s][i].hash = H[r][j].hash
      PROVE  s = r /\ i = j
    <2>1. /\ i \in 1..Len(G[s]) /\ G[s][i] = H[s][i]
          /\ j \in 1..Len(G[r]) /\ G[r][j] = H[r][j]
        BY <1>1, <1>2
    <2> QED BY <1>2, <2>1 DEF Distinct
<1>3. Distinct(G) => Distinct(H)
    BY <1>2 DEF Distinct
<1>4. Sorted(G) => Sorted(H)
    BY <1>1 DEF Sorted
<1> QED BY <1>1, <1>3, <1>4

\* A line added leaves the others where they were.
LEMMA WithPlaces ==
    ASSUME NEW G \in Log, NEW t \in Segments, NEW e \in Event, SegmentOf(e.seq) = t,
           \A s \in Segments : \A i \in 1..Len(G[s]) : G[s][i] # Junk => G[s][i].hash # e.hash
    PROVE  /\ \A s \in Segments : \A i \in 1..Len(With(G, t, e)[s]) :
                \/ i \in 1..Len(G[s]) /\ With(G, t, e)[s][i] = G[s][i]
                \/ s = t /\ i = Len(G[t]) + 1 /\ With(G, t, e)[s][i] = e
           /\ Distinct(G) => Distinct(With(G, t, e))
           /\ Sorted(G) => Sorted(With(G, t, e))
<1> DEFINE H == With(G, t, e)
           n == Len(G[t])
<1>1. /\ H \in Log /\ Len(H[t]) = n + 1 /\ H[t][n + 1] = e
      /\ \A s \in Segments : s # t => H[s] = G[s]
      /\ \A s \in Segments : \A i \in 1..Len(G[s]) : i \in 1..Len(H[s]) /\ H[s][i] = G[s][i]
      /\ \A s \in Segments : Len(G[s]) \in Nat
    BY WithIs
<1> HIDE DEF H
<1>2. ASSUME NEW s \in Segments, NEW i \in 1..Len(H[s])
      PROVE  \/ i \in 1..Len(G[s]) /\ H[s][i] = G[s][i]
             \/ s = t /\ i = n + 1 /\ H[s][i] = e
    <2>1. CASE s = t
        <3>1. i = n + 1 \/ i \in 1..n
            BY <1>1, <2>1
        <3> QED BY <1>1, <2>1, <3>1
    <2>2. CASE s # t
        BY <1>1, <2>2
    <2> QED BY <2>1, <2>2
<1>3. ASSUME Distinct(G), NEW s \in Segments, NEW r \in Segments,
             NEW i \in 1..Len(H[s]), NEW j \in 1..Len(H[r]),
             H[s][i] # Junk, H[r][j] # Junk, H[s][i].hash = H[r][j].hash
      PROVE  s = r /\ i = j
    <2>1. CASE i \in 1..Len(G[s]) /\ H[s][i] = G[s][i] /\ j \in 1..Len(G[r]) /\ H[r][j] = G[r][j]
        BY <1>3, <2>1 DEF Distinct
    <2>2. (i \in 1..Len(G[s]) /\ H[s][i] = G[s][i]) \/ (s = t /\ i = n + 1 /\ H[s][i] = e)
        BY <1>2
    <2>3. (j \in 1..Len(G[r]) /\ H[r][j] = G[r][j]) \/ (r = t /\ j = n + 1 /\ H[r][j] = e)
        BY <1>2
    <2> QED BY <1>3, <2>1, <2>2, <2>3
<1>4. Sorted(G) => Sorted(H)
    BY <1>2 DEF Sorted
<1>5. Distinct(G) => Distinct(H)
    BY <1>3 DEF Distinct
<1> QED BY <1>2, <1>4, <1>5 DEF H

\* The log after lines are lost, and after one is written.
LEMMA ShorterPruned ==
    ASSUME NEW L \in LogLines, NEW M \in LogLines, NEW t,
           \A s \in Segments : /\ Len(M[s]) <= Len(L[s])
                               /\ \A i \in 1..Len(M[s]) : M[s][i] = L[s][i]
    PROVE  Pruned(Said(L), Said(M), t) /\ \A s \in Segments : Len(Said(M)[s]) <= Len(Said(L)[s])
<1> DEFINE G == Said(L)
           H == Said(M)
<1>1. /\ G \in Log /\ H \in Log
      /\ \A s \in Segments : /\ Len(G[s]) = Len(L[s]) /\ Len(H[s]) = Len(M[s])
                             /\ Len(L[s]) \in Nat /\ Len(M[s]) \in Nat
                             /\ \A i \in 1..Len(L[s]) : G[s][i] = L[s][i].text
                             /\ \A i \in 1..Len(M[s]) : H[s][i] = M[s][i].text
    BY SaidIs
<1> HIDE DEF G, H
<1>2. ASSUME NEW s \in Segments, NEW i \in 1..Len(H[s])
      PROVE  i <= Len(G[s]) /\ H[s][i] = G[s][i]
    <2>1. i \in 1..Len(M[s]) /\ i \in 1..Len(L[s])
        BY <1>1
    <2> QED BY <1>1, <2>1
<1>3. \A s \in Segments : Len(H[s]) <= Len(G[s])
    BY <1>1
<1> QED BY <1>2, <1>3 DEF Pruned, G, H

\* The event under way is newer than all there is.
LEMMA NewestIsNew ==
    ASSUME TypeInv, EventInv, step = "write"
    PROVE  /\ Newest \in Around /\ Newest \in Event /\ Newest.hash = attempts
           /\ SegmentOf(Newest.seq) = Target
           /\ \A s \in Segments : \A i \in 1..Len(Told[s]) : Told[s][i] # Junk =>
                Told[s][i] \in Around /\ Told[s][i].hash < Newest.hash
<1>1. /\ Newest \in Event /\ Newest = chain[Len(chain)] /\ Len(chain) = Len(Base) + 1 /\ Len(Base) \in Nat
      /\ lines \in LogLines
    BY UnderWay
<1>2. Len(chain) \in 1..Len(chain)
    BY <1>1
<1>3. Newest \in Around
    BY <1>1, <1>2 DEF Around
<1>4. Newest.hash = attempts
    BY DEF TypeInv, Counted
<1>5. ASSUME NEW s \in Segments, NEW i \in 1..Len(Told[s]), Told[s][i] # Junk
      PROVE  Told[s][i] \in Around /\ Told[s][i].hash < Newest.hash
    <2>1. Told \in Log
        BY <1>1, SaidIs DEF Told
    <2>2. Told[s][i] \in Event
        BY <1>5, <2>1 DEF Log
    <2>3. Told[s][i] \in Around
        BY <2>2 DEF Around
    <2>4. Told[s][i].hash <= attempts /\ Told[s][i].hash # Newest.hash
        BY <1>3, <2>3 DEF EventInv
    <2>5. Told[s][i].hash \in Nat /\ Newest.hash \in Nat
        BY <1>1, <2>2 DEF Event, Hashes
    <2> QED BY <1>4, <2>3, <2>4, <2>5
<1> QED BY <1>1, <1>3, <1>4, <1>5 DEF Target

\* What a write makes of the log.
LEMMA WroteTold ==
    ASSUME TypeInv, EventInv, NEW line \in Writable, Wrote(line)
    PROVE  /\ Told \in Log /\ Told' \in Log /\ Target \in Segments /\ lines' \in LogLines
           /\ \/ line.text = Newest /\ Told' = With(Told, Target, Newest)
              \/ Pruned(Told, Told', Target)
           /\ Sorted(Told') /\ Distinct(Told')
           /\ \A s \in Segments : \A i \in 1..Len(Told'[s]) :
                Told'[s][i] # Junk => Told'[s][i] \in Around
<1>1. /\ lines \in LogLines /\ Target \in Segments /\ line \in Line /\ Newest \in Event
      /\ line.text = Newest \/ line.text = Junk
    BY UnderWay DEF Wrote
<1>2. /\ lines' \in LogLines
      /\ \/ Said(lines') = With(Said(lines), Target, line.text)
         \/ Pruned(Said(lines), Said(lines'), Target)
      /\ line.text = Junk => Pruned(Said(lines), Said(lines'), Target)
    BY <1>1, PutIs DEF Wrote
<1>3. Told \in Log /\ Told' \in Log /\ Told' = Said(lines') /\ Told = Said(lines)
    BY <1>1, <1>2, SaidIs DEF Told
<1>4. /\ Newest \in Around /\ SegmentOf(Newest.seq) = Target
      /\ \A s \in Segments : \A i \in 1..Len(Told[s]) : Told[s][i] # Junk =>
           Told[s][i] \in Around /\ Told[s][i].hash < Newest.hash
    BY NewestIsNew DEF Wrote
<1>5. Sorted(Told) /\ Distinct(Told)
    BY DEF EventInv
<1>6. CASE Pruned(Told, Told', Target)
    <2>1. /\ Sorted(Told') /\ Distinct(Told')
          /\ \A s \in Segments : \A i \in 1..Len(Told'[s]) :
                Told'[s][i] # Junk => i \in 1..Len(Told[s]) /\ Told'[s][i] = Told[s][i]
        BY <1>3, <1>5, <1>6, PrunedPlaces
    <2> QED BY <1>1, <1>2, <1>3, <1>4, <1>6, <2>1
<1>7. CASE line.text = Newest /\ Told' = With(Told, Target, Newest)
    <2>1. \A s \in Segments : \A i \in 1..Len(Told[s]) : Told[s][i] # Junk => Told[s][i].hash # Newest.hash
        <3> SUFFICES ASSUME NEW s \in Segments, NEW i \in 1..Len(Told[s]), Told[s][i] # Junk,
                            Told[s][i].hash = Newest.hash
                     PROVE  FALSE
            OBVIOUS
        <3>1. Told[s][i].hash < Newest.hash
            BY <1>4
        <3>2. Newest.hash \in Nat
            BY <1>1 DEF Event, Hashes
        <3> QED BY <3>1, <3>2
    <2>2. /\ Sorted(Told') /\ Distinct(Told')
          /\ \A s \in Segments : \A i \in 1..Len(Told'[s]) :
                \/ i \in 1..Len(Told[s]) /\ Told'[s][i] = Told[s][i]
                \/ s = Target /\ i = Len(Told[Target]) + 1 /\ Told'[s][i] = Newest
        BY <1>1, <1>3, <1>4, <1>5, <1>7, <2>1, WithPlaces
    <2> QED BY <1>1, <1>2, <1>3, <1>4, <1>7, <2>2
<1> QED BY <1>1, <1>2, <1>3, <1>6, <1>7

\* Nothing new is around after a step that only moves, keeps or loses events.
LEMMA EventsStay ==
    ASSUME TypeInv, EventInv, TypeInv',
           \A s \in Segments : \A i \in 1..Len(Told'[s]) : Told'[s][i] # Junk => Told'[s][i] \in Around,
           \A n \in 1..Len(chain') : chain'[n] \in Around,
           acked' \subseteq Around \cup acked, attempts' = attempts,
           \/ head' = head
           \/ \E x \in Around : head' = [seq |-> x.seq, hash |-> x.hash],
           Sorted(Told'), Distinct(Told'), step' # "write"
    PROVE  EventInv'
<1>1. Around' \subseteq Around
    <2> SUFFICES ASSUME NEW x \in Around' PROVE x \in Around
        OBVIOUS
    <2>1. x \in Event /\ x # Junk
        BY ValuesAssumption DEF Around
    <2>2. CASE \E s \in Segments : \E i \in 1..Len(Told'[s]) : Told'[s][i] = x
        BY <2>1, <2>2
    <2>3. CASE \E n \in 1..Len(chain') : chain'[n] = x
        BY <2>3
    <2>4. CASE x \in acked'
        BY <2>1, <2>4 DEF Around
    <2> QED BY <2>2, <2>3, <2>4 DEF Around
<1>2. head' # NoHead => head'.hash <= attempts /\ \A x \in Around : x.hash = head'.hash => x.seq = head'.seq
    <2>1. CASE head' = head
        BY <2>1 DEF EventInv
    <2>2. ASSUME NEW y \in Around, head' = [seq |-> y.seq, hash |-> y.hash]
          PROVE  head'.hash <= attempts /\ \A x \in Around : x.hash = head'.hash => x.seq = head'.seq
        <3>1. head'.hash = y.hash /\ head'.seq = y.seq
            BY <2>2
        <3> QED BY <3>1 DEF EventInv
    <2> QED BY <2>1, <2>2
<1> QED BY <1>1, <1>2 DEF EventInv

\* There are no events in a new store.
LEMMA EventInvInit == Init => EventInv
<1> SUFFICES ASSUME Init PROVE EventInv
    OBVIOUS
<1>1. \A s \in Segments : Len(lines[s]) = 0 /\ lines \in LogLines
    BY DEF Init, LogLines
<1>2. \A s \in Segments : Len(Told[s]) = 0
    BY <1>1, SaidIs DEF Told
<1>3. Around = {}
    BY <1>2 DEF Init, Around
<1>4. Sorted(Told) /\ Distinct(Told)
    BY <1>2 DEF Sorted, Distinct
<1> QED BY <1>3, <1>4 DEF Init, EventInv

\* What is there to begin with.
LEMMA AroundIs ==
    ASSUME TypeInv
    PROVE  /\ Told \in Log
           /\ \A s \in Segments : \A i \in 1..Len(Told[s]) : Told[s][i] # Junk => Told[s][i] \in Around
           /\ \A n \in 1..Len(chain) : chain[n] \in Around
           /\ \A n \in 1..Len(Base) : Base[n] \in Around /\ Base[n] = chain[n] /\ n \in 1..Len(chain)
           /\ acked \subseteq Around
           /\ \A x \in Around : x \in Event /\ x.hash \in Nat /\ x.hash > 0 /\ x # Junk
<1>1. lines \in LogLines /\ chain \in Seq(Event) /\ acked \subseteq Event
    BY UnderWay DEF TypeInv, TypeOK
<1>2. Told \in Log
    BY <1>1, SaidIs DEF Told
<1>3. \A s \in Segments : \A i \in 1..Len(Told[s]) : Told[s][i] # Junk => Told[s][i] \in Around
    BY <1>2 DEF Log, Around
<1>4. \A n \in 1..Len(chain) : chain[n] \in Around
    <2> SUFFICES ASSUME NEW n \in 1..Len(chain) PROVE chain[n] \in Around
        OBVIOUS
    <2>1. chain[n] \in Event
        BY <1>1, ElementOfSeq
    <2> QED BY <2>1 DEF Around
<1>5. \A n \in 1..Len(Base) : Base[n] = chain[n] /\ n \in 1..Len(chain)
    <2>1. CASE step = "idle"
        BY <2>1 DEF Base
    <2>2. CASE step # "idle"
        <3>1. /\ Base = Front(chain) /\ chain # <<>> /\ Len(Base) = Len(chain) - 1
              /\ \A n \in 1..(Len(chain) - 1) : Front(chain)[n] = chain[n]
              /\ Len(chain) \in Nat
            <4>1. Base = Front(chain) /\ chain # <<>>
                BY <2>2 DEF Base, TypeInv, Counted
            <4> QED BY <1>1, <4>1, FrontLast
        <3> QED BY <3>1
    <2> QED BY <2>1, <2>2
<1>6. acked \subseteq Around
    BY <1>1 DEF Around
<1>7. \A x \in Around : x \in Event /\ x.hash \in Nat /\ x.hash > 0 /\ x # Junk
    BY ValuesAssumption DEF Around, Event, Hashes
<1> QED BY <1>2, <1>3, <1>4, <1>5, <1>6, <1>7

\* The event an append begins has a hash no other event has.
LEMMA EventsBeginAppend == TypeInv /\ EventInv /\ TypeInv' /\ BeginAppend => EventInv'
<1> SUFFICES ASSUME TypeInv, EventInv, TypeInv', BeginAppend PROVE EventInv'
    OBVIOUS
<1>1. /\ chain' = Append(chain, NextEvent) /\ attempts' = attempts + 1 /\ step' = "write" /\ step = "idle"
      /\ attempts < MaxAppends
      /\ UNCHANGED <<files, synced, lines, head, up, verdict, acked, suffered>>
    BY DEF BeginAppend, disk
<1>2. /\ NextEvent \in Event /\ NextEvent.hash = attempts + 1 /\ NextEvent.seq = Len(chain)
      /\ NextEvent.prev = IF chain = <<>> THEN Genesis ELSE chain[Len(chain)].hash
    BY <1>1, NextEventIs
<1>3. chain \in Seq(Event) /\ Len(chain) \in Nat /\ attempts \in Nat
    BY UnderWay DEF TypeInv, TypeOK
<1>4. /\ \A n \in 1..Len(chain') : chain'[n] = NextEvent \/ (n \in 1..Len(chain) /\ chain'[n] = chain[n])
      /\ Newest' = NextEvent
    <2>1. Len(chain') = Len(chain) + 1 /\ chain'[Len(chain) + 1] = NextEvent
          /\ \A n \in 1..Len(chain) : chain'[n] = chain[n]
        BY <1>1, <1>2, <1>3, AppendProperties
    <2>2. Newest' = NextEvent
        BY <1>1, <1>2, <1>3, FrontAppend DEF Newest
    <2> QED BY <1>3, <2>1, <2>2
<1>5. Told' = Told
    BY <1>1 DEF Told
<1>6. \A x \in Around' : x = NextEvent \/ x \in Around
    BY <1>1, <1>4, <1>5 DEF Around
<1>7. \A x \in Around : x.hash <= attempts /\ x.hash \in Nat /\ x.hash # NextEvent.hash
    <2> SUFFICES ASSUME NEW x \in Around PROVE x.hash <= attempts /\ x.hash \in Nat /\ x.hash # NextEvent.hash
        OBVIOUS
    <2>1. x.hash <= attempts /\ x.hash \in Nat
        BY AroundIs DEF EventInv
    <2> QED BY <1>2, <1>3, <2>1
<1>8. NextEvent.prev < NextEvent.hash
    <2>1. CASE chain = <<>>
        BY <1>2, <1>3, <2>1 DEF Genesis
    <2>2. CASE chain # <<>>
        <3>1. chain[Len(chain)] \in Around
            <4>1. Len(chain) \in 1..Len(chain)
                BY <1>3, <2>2, FrontLast
            <4> QED BY <4>1, AroundIs
        <3>2. NextEvent.prev <= attempts /\ NextEvent.prev \in Nat
            BY <1>2, <1>7, <2>2, <3>1
        <3> QED BY <1>2, <1>3, <3>2
    <2> QED BY <2>1, <2>2
<1>9. head # NoHead => head.hash <= attempts /\ head.hash \in Nat /\ head.hash < attempts + 1
                       /\ head.hash # NextEvent.hash
    <2> SUFFICES ASSUME head # NoHead PROVE head.hash <= attempts /\ head.hash \in Nat
        BY <1>2, <1>3
    <2>1. head \in LedgerHead
        BY DEF TypeInv, TypeOK
    <2> QED BY <2>1 DEF EventInv, LedgerHead, Hashes
<1>10. \A x \in Around' : x.prev < x.hash /\ x.hash <= attempts'
    <2> SUFFICES ASSUME NEW x \in Around' PROVE x.prev < x.hash /\ x.hash <= attempts'
        OBVIOUS
    <2>1. CASE x = NextEvent
        BY <1>1, <1>2, <1>3, <1>8, <2>1
    <2>2. CASE x \in Around
        BY <1>1, <1>3, <1>7, <2>2 DEF EventInv
    <2> QED BY <1>6, <2>1, <2>2
<1>11. \A x, y \in Around' : x.hash = y.hash => x = y
    BY <1>6, <1>7 DEF EventInv
<1>12. head' # NoHead => /\ head'.hash <= attempts' /\ head'.hash < attempts'
                         /\ \A x \in Around' : x.hash = head'.hash => x.seq = head'.seq
    <2> SUFFICES ASSUME head # NoHead
                 PROVE  /\ head.hash <= attempts + 1 /\ head.hash < attempts + 1
                        /\ \A x \in Around' : x.hash = head.hash => x.seq = head.seq
        BY <1>1
    <2>1. \A x \in Around' : x.hash = head.hash => x.seq = head.seq
        BY <1>6, <1>9 DEF EventInv
    <2> QED BY <1>3, <1>9, <2>1
<1>13. \A s \in Segments : \A i \in 1..Len(Told'[s]) : Told'[s][i] # Newest'
    <2> SUFFICES ASSUME NEW s \in Segments, NEW i \in 1..Len(Told[s]), Told[s][i] = NextEvent PROVE FALSE
        BY <1>4, <1>5
    <2>1. NextEvent # Junk
        BY <1>2, ValuesAssumption
    <2>2. Told[s][i] \in Around
        BY <2>1, AroundIs
    <2> QED BY <1>7, <2>2
<1> QED BY <1>5, <1>10, <1>11, <1>12, <1>13 DEF EventInv

\* Steps that only lose lines make no event.
LEMMA EventsLost ==
    ASSUME TypeInv, EventInv, TypeInv', lines' \in LogLines,
           \A s \in Segments : /\ Len(lines'[s]) <= Len(lines[s])
                               /\ \A i \in 1..Len(lines'[s]) : lines'[s][i] = lines[s][i],
           \A n \in 1..Len(chain') : chain'[n] \in Around,
           UNCHANGED <<head, attempts, acked>>, step' # "write"
    PROVE  EventInv'
<1>1. lines \in LogLines
    BY UnderWay
<1>2. Pruned(Told, Told', 0) /\ Told' \in Log /\ Told \in Log
    <2>1. Pruned(Said(lines), Said(lines'), 0)
        BY <1>1, ShorterPruned
    <2>2. Said(lines') \in Log /\ Said(lines) \in Log
        BY <1>1, SaidIs
    <2> QED BY <2>1, <2>2 DEF Told
<1>3. /\ Sorted(Told') /\ Distinct(Told')
      /\ \A s \in Segments : \A i \in 1..Len(Told'[s]) :
            Told'[s][i] # Junk => i \in 1..Len(Told[s]) /\ Told'[s][i] = Told[s][i]
    BY <1>2, PrunedPlaces DEF EventInv
<1>4. \A s \in Segments : \A i \in 1..Len(Told'[s]) : Told'[s][i] # Junk => Told'[s][i] \in Around
    BY <1>3, AroundIs
<1> QED BY <1>3, <1>4, EventsStay

\* A write puts the event under way on a line, or spoils one.
LEMMA EventsWrote ==
    ASSUME TypeInv, EventInv, TypeInv', NEW line \in Writable, Wrote(line),
           \A n \in 1..Len(chain') : chain'[n] \in Around, step' # "write"
    PROVE  EventInv'
<1>1. /\ Sorted(Told') /\ Distinct(Told')
      /\ \A s \in Segments : \A i \in 1..Len(Told'[s]) : Told'[s][i] # Junk => Told'[s][i] \in Around
    BY WroteTold
<1>2. UNCHANGED <<head, attempts, acked>>
    BY DEF Wrote
<1> QED BY <1>1, <1>2, EventsStay

\* The process goes on with the event or without it, or ends.
LEMMA ChainKeeps ==
    ASSUME TypeInv, chain' = chain \/ (chain' = RolledBack /\ step # "idle") \/ chain' = <<>>
    PROVE  \A n \in 1..Len(chain') : chain'[n] \in Around
<1>1. CASE chain' = chain
    BY <1>1, AroundIs
<1>2. CASE chain' = RolledBack /\ step # "idle"
    <2>1. chain' = Base
        BY <1>2 DEF RolledBack, Base
    <2> QED BY <2>1, AroundIs
<1>3. CASE chain' = <<>>
    <2>1. Len(chain') = 0
        BY <1>3
    <2> QED BY <2>1
<1> QED BY <1>1, <1>2, <1>3

\* Every step keeps what is known of the events there are.
LEMMA EventInvStep == TypeInv /\ EventInv /\ TypeInv' /\ [Next]_vars => EventInv'
<1> SUFFICES ASSUME TypeInv, EventInv, TypeInv', [Next]_vars PROVE EventInv'
    OBVIOUS
<1>1. \A s \in Segments : /\ Len(lines[s]) <= Len(lines[s])
                          /\ \A i \in 1..Len(lines[s]) : lines[s][i] = lines[s][i]
    BY UnderWay DEF LogLines
<1>2. lines \in LogLines
    BY UnderWay
\* Steps that leave the lines, the counts and what is acknowledged alone.
<1>3. ASSUME lines' = lines, UNCHANGED <<head, attempts, acked>>, step' # "write",
             chain' = chain \/ (chain' = RolledBack /\ step # "idle") \/ chain' = <<>>
      PROVE  EventInv'
    BY <1>1, <1>2, <1>3, ChainKeeps, EventsLost
<1>4. CASE Open
    <2>1. /\ KeptLines \in LogLines
          /\ \A s \in Segments : Len(KeptLines[s]) <= Len(lines[s])
          /\ \A s \in Segments : \A i \in 1..Len(KeptLines[s]) :
                i \in 1..Len(lines[s]) /\ KeptLines[s][i] = lines[s][i]
          /\ Replayed = Flat(Said(KeptLines))
          /\ Openable => Said(KeptLines) \in [Segments -> Seq(Event)]
        BY KeptIs DEF TypeInv
    <2>2. lines' = KeptLines /\ chain' = Flat(Said(KeptLines)) /\ Openable /\ step' = step /\ step = "idle"
          /\ UNCHANGED <<head, attempts, acked>>
        BY <1>4, <2>1 DEF Open, KeptLines, TypeInv, Counted
    <2>3. ASSUME NEW n \in 1..Len(chain') PROVE chain'[n] \in Around
        <3> DEFINE G == Said(KeptLines)
        <3>1. PICK s \in Segments : \E i \in 1..Len(G[s]) : Flat(G)[n] = G[s][i]
            <4>1. G \in [Segments -> Seq(Event)] /\ n \in 1..Len(Flat(G))
                BY <2>1, <2>2
            <4> HIDE DEF G
            <4> QED BY <4>1, FlatAt
        <3>2. PICK i \in 1..Len(G[s]) : Flat(G)[n] = G[s][i]
            BY <3>1
        <3>3. i \in 1..Len(KeptLines[s]) /\ G[s][i] = KeptLines[s][i].text
            BY <2>1, SaidIs
        <3>4. i \in 1..Len(Told[s]) /\ Told[s][i] = G[s][i]
            BY <1>2, <2>1, <3>3, SaidIs DEF Told
        <3>5. G[s][i] # Junk
            <4>1. G[s][i] \in Event
                <5>1. G \in [Segments -> Seq(Event)]
                    BY <2>1, <2>2
                <5> HIDE DEF G
                <5> QED BY <5>1
            <4> QED BY <4>1, ValuesAssumption
        <3>6. Told[s][i] \in Around
            BY <3>4, <3>5, AroundIs
        <3>7. chain'[n] = Told[s][i]
            BY <2>2, <3>2, <3>4
        <3> QED BY <3>6, <3>7
    <2> QED BY <2>1, <2>2, <2>3, EventsLost
<1>5. CASE BeginAppend
    BY <1>5, EventsBeginAppend
<1>6. CASE WriteLine
    <2>1. FullLine \in Writable /\ Wrote(FullLine) /\ chain' = chain /\ step' # "write"
        BY <1>6 DEF WriteLine, Wrote, Writable, Put
    <2> QED BY <2>1, ChainKeeps, EventsWrote
<1>7. CASE SyncDir
    BY <1>3, <1>7 DEF SyncDir
<1>8. CASE RecordHead
    <2>1. /\ step = "head" /\ step' = "idle" /\ acked' = acked \cup {Newest}
          /\ head' = IF verdict = "diverged" THEN head ELSE [seq |-> Newest.seq, hash |-> Newest.hash]
          /\ lines' = lines /\ chain' = chain /\ attempts' = attempts
        BY <1>8 DEF RecordHead
    <2>2. Newest \in Around
        <3>1. Newest = chain[Len(chain)] /\ Len(chain) = Len(Base) + 1 /\ Len(Base) \in Nat
            BY <2>1, UnderWay
        <3>2. Len(chain) \in 1..Len(chain)
            BY <3>1
        <3> QED BY <3>1, <3>2, AroundIs
    <2>3. Told' = Told /\ \A n \in 1..Len(chain') : chain'[n] \in Around
        BY <2>1, AroundIs DEF Told
    <2>4. \A s \in Segments : \A i \in 1..Len(Told'[s]) : Told'[s][i] # Junk => Told'[s][i] \in Around
        BY <2>3, AroundIs
    <2> QED BY <2>1, <2>2, <2>3, <2>4, EventsStay DEF EventInv
<1>9. CASE WriteFails
    BY <1>3, <1>9 DEF WriteFails, RollBack
<1>10. CASE WriteAndSetLenFail
    <2>1. PICK line \in Landed \cup {Unended} : lines' = [lines EXCEPT ![Target] = Write(@, line)]
        BY <1>10 DEF WriteAndSetLenFail
    <2>2. line \in Writable /\ Wrote(line) /\ chain' = RolledBack /\ step' = "idle" /\ step = "write"
        BY <1>10, <2>1 DEF WriteAndSetLenFail, RollBack, Landed, Writable, Partial, Put, Wrote
    <2> QED BY <2>2, ChainKeeps, EventsWrote
<1>11. CASE SyncDirFails
    BY <1>3, <1>11 DEF SyncDirFails, RollBack, disk
<1>12. CASE RecordHeadFails
    BY <1>3, <1>12 DEF RecordHeadFails, disk
<1>13. CASE Crash
    <2>1. chain' = <<>> /\ step' = "idle"
        BY <1>13, CrashIs DEF Down
    <2>2. CASE Lost /\ lines' = lines
        BY <1>3, <2>1, <2>2 DEF Lost
    <2>3. ASSUME NEW line \in Writable, Wrote(line) PROVE EventInv'
        BY <2>1, <2>3, ChainKeeps, EventsWrote
    <2> QED BY <1>13, <2>2, <2>3, CrashIs
<1>14. ASSUME Lost PROVE EventInv'
    <2>1. chain' = <<>> /\ step' = "idle"
        BY <1>14 DEF Lost, Down, process, TypeInv, TypeOK, Counted
    <2> QED BY <1>14, <2>1, ChainKeeps, EventsLost DEF Lost
<1>15. CASE PowerCut
    BY <1>14, <1>15, PowerCutIs
<1>16. CASE CutTail
    BY <1>14, <1>16, CutTailIs
<1>17. CASE UNCHANGED vars
    BY <1>17 DEF vars, disk, process, EventInv, Around, Told, Newest
<1> QED BY <1>4, <1>5, <1>6, <1>7, <1>8, <1>9, <1>10, <1>11, <1>12, <1>13, <1>15, <1>16, <1>17 DEF Next

-----------------------------------------------------------------------------
(* What every fault leaves true: the log, the head, and the chain in memory. *)

\* Nothing that verifies holds the event h.
Nowhere(G, h) == \A m \in Vector : Verified(G, m) => ~Holds(G, m, h)

\* What verifies and holds the recorded head holds all that was acknowledged.
Covers(G) ==
    head # NoHead =>
        \A m \in Vector : Verified(G, m) /\ Holds(G, m, head.hash) =>
            \A a \in acked : Holds(G, m, a.hash)
HeadFirst == head = NoHead => acked = {}

\* The chain is the log, or can never come to verify as part of it.
InMemory ==
    /\ step \in {"idle", "write"} => Tight(Told, Base) \/ Loose(Told, Base, Place)
    /\ step \in {"syncdir", "head"} =>
         /\ Tight(Told, chain) \/ Nowhere(Told, Newest.hash)
         /\ Loose(Told, Base, Place)
Diverges == verdict = "diverged" => head # NoHead /\ Nowhere(Told, head.hash)
Keeps == verdict # "diverged" /\ Verifies(Base) => acked \subseteq ToSet(Base)
ChainPos == Verifies(Base) => \A n \in 1..Len(Base) : Base[n].seq = n - 1

Still == Ordered(Told) /\ Covers(Told) /\ HeadFirst
Live == Reaches(Told, Place) /\ InMemory /\ Diverges /\ Keeps /\ ChainPos
HardInv == Still /\ (up => Live)

\* What the loss or the ruin of lines keeps of a log.
LEMMA PrunedHolds ==
    ASSUME NEW G \in Log, NEW H \in Log, NEW t \in Segments, Pruned(G, H, t), Ordered(G),
           Reaches(G, t) \/ Len(H[t]) <= Len(G[t])
    PROVE  /\ Ordered(H)
           /\ \A q \in Segments : Reaches(G, q) => Reaches(H, q)
           /\ Covers(G) => Covers(H)
           /\ \A h : Nowhere(G, h) => Nowhere(H, h)
<1>1. Ordered(H) /\ \A q \in Segments : Reaches(G, q) => Reaches(H, q)
    BY PrunedOrdered
<1>2. ASSUME NEW m \in Vector, Verified(H, m)
      PROVE  Verified(G, m) /\ \A h : Holds(H, m, h) <=> Holds(G, m, h)
    BY <1>2, PrunedVerifies
<1>3. Covers(G) => Covers(H)
    BY <1>2 DEF Covers
<1>4. \A h : Nowhere(G, h) => Nowhere(H, h)
    BY <1>2 DEF Nowhere
<1> QED BY <1>1, <1>3, <1>4

\* What a write puts on the lines: the event, or bytes that ruin its segment.
LEMMA WroteOrRuined ==
    ASSUME TypeInv, EventInv, NEW line \in Writable, Wrote(line)
    PROVE  \/ line.text = Newest /\ Told' = With(Told, Target, Newest)
           \/ /\ Pruned(Told, Told', Target)
              /\ Len(Told'[Target]) \in Nat \ {0}
              /\ Told'[Target][Len(Told'[Target])] = Junk
<1>1. /\ lines \in LogLines /\ Target \in Segments /\ line \in Line
      /\ line.text = Newest \/ line.text = Junk
    BY UnderWay DEF Wrote
<1> DEFINE M == Put(lines, Target, line)
<1>2. /\ Terminated(lines[Target]) => Said(M) = With(Said(lines), Target, line.text)
      /\ ~Terminated(lines[Target]) \/ line.text = Junk =>
            /\ Pruned(Said(lines), Said(M), Target)
            /\ Len(Said(M)[Target]) \in Nat \ {0}
            /\ Said(M)[Target][Len(Said(M)[Target])] = Junk
    BY <1>1, PutIs
<1>3. Told = Said(lines) /\ Told' = Said(M)
    BY DEF Told, Wrote
<1> HIDE DEF M
<1> QED BY <1>1, <1>2, <1>3

\* The event under way extends the chain the process holds.
LEMMA NewestExtends ==
    ASSUME TypeInv, EventInv, step = "write", ChainPos
    PROVE  Extends(Told, Base, Newest)
<1>1. /\ Base \in Seq(Event) /\ Len(Base) \in Nat /\ Newest \in Event /\ lines \in LogLines
    BY UnderWay
<1>2. /\ Newest.seq = Len(Base) /\ Newest.hash = attempts
      /\ Newest.prev = IF Base = <<>> THEN Genesis ELSE Base[Len(Base)].hash
    BY DEF TypeInv, Counted
<1>3. Newest \in Around /\ Newest.prev < Newest.hash
    BY NewestIsNew DEF EventInv
<1>4. Base # <<>> => Len(Base) \in 1..Len(Base)
    BY <1>1, FrontLast
<1>5. Base # <<>> => Base[Len(Base)] \in Around
    BY <1>4, AroundIs
<1>6. ASSUME NEW s \in Segments, NEW i \in 1..Len(Told[s]), Told[s][i] # Junk
      PROVE  /\ Told[s][i].prev < Told[s][i].hash /\ Told[s][i].hash < Newest.hash
             /\ Base # <<>> /\ Told[s][i].hash = Base[Len(Base)].hash => Told[s][i] = Base[Len(Base)]
    <2>1. Told[s][i] \in Around /\ Told[s][i].hash < Newest.hash
        BY <1>6, NewestIsNew
    <2> QED BY <1>5, <2>1 DEF EventInv
<1>7. Verifies(Base) /\ Base # <<>> => Base[Len(Base)].seq = Len(Base) - 1
    BY <1>4 DEF ChainPos
<1> QED BY <1>1, <1>2, <1>3, <1>6, <1>7 DEF Extends

\* What a write makes of the log and of what it holds.
LEMMA HardWrote ==
    ASSUME TypeInv, EventInv, HardInv, NEW line \in Writable, Wrote(line)
    PROVE  /\ Still'
           /\ Reaches(Told', Target)
           /\ Loose(Told', Base, Target)
           /\ Tight(Told', chain) \/ Nowhere(Told', Newest.hash)
           /\ head # NoHead /\ Nowhere(Told, head.hash) => Nowhere(Told', head.hash)
<1> DEFINE G == Told
           H == Told'
           t == Target
<1>1. /\ G \in Log /\ H \in Log /\ t \in Segments /\ up /\ step = "write" /\ t = Place
      /\ Newest \in Event /\ chain = Append(Base, Newest)
      /\ UNCHANGED <<head, attempts, acked>>
    BY UnderWay, WroteTold DEF Wrote
<1>2. /\ Ordered(G) /\ Covers(G) /\ HeadFirst /\ Distinct(G)
      /\ Reaches(G, t) /\ (Tight(G, Base) \/ Loose(G, Base, t)) /\ ChainPos
    BY <1>1 DEF HardInv, Still, Live, InMemory, EventInv
<1>3. \/ line.text = Newest /\ H = With(G, t, Newest)
      \/ /\ Pruned(G, H, t)
         /\ Len(H[t]) \in Nat \ {0}
         /\ H[t][Len(H[t])] = Junk
    BY WroteOrRuined
<1>4. \A s \in Segments : \A i \in 1..Len(G[s]) : G[s][i] # Junk =>
           G[s][i] \in Around /\ G[s][i].hash < Newest.hash
    BY <1>1, NewestIsNew
<1>5. SUFFICES /\ Ordered(H) /\ Covers(H) /\ Reaches(H, t) /\ Loose(H, Base, t)
               /\ Tight(H, chain) \/ Nowhere(H, Newest.hash)
               /\ head # NoHead /\ Nowhere(G, head.hash) => Nowhere(H, head.hash)
    BY <1>1, <1>2, <1>5 DEF Still, HeadFirst, Covers
<1>6. Newest.hash \in Nat
    BY <1>1 DEF Event, Hashes
<1> HIDE DEF G, H, t
<1>7. CASE /\ Pruned(G, H, t)
           /\ Len(H[t]) \in Nat \ {0}
           /\ H[t][Len(H[t])] = Junk
    <2>1. /\ Ordered(H) /\ Reaches(H, t) /\ Covers(H)
          /\ \A h : Nowhere(G, h) => Nowhere(H, h)
        BY <1>1, <1>2, <1>7, PrunedHolds
    <2>2. Loose(H, Base, t)
        <3> SUFFICES ASSUME NEW m \in Vector, Verified(H, m), m[t] = Len(H[t]) PROVE FALSE
            BY DEF Loose
        <3>1. Len(H[t]) \in 1..m[t]
            BY <1>7
        <3> QED BY <1>1, <1>7, <3>1 DEF Verified, Within
    <2>3. Nowhere(H, Newest.hash)
        <3>1. Nowhere(G, Newest.hash)
            <4> SUFFICES ASSUME NEW m \in Vector, Verified(G, m),
                                NEW s \in Segments, NEW i \in 1..m[s], G[s][i].hash = Newest.hash
                         PROVE  FALSE
                BY DEF Nowhere, Holds
            <4>1. m[s] <= Len(G[s]) /\ G[s][i] # Junk
                BY DEF Verified, Within
            <4>2. i \in 1..Len(G[s])
                <5>1. m[s] \in Nat /\ Len(G[s]) \in Nat
                    BY <1>1 DEF Vector, Log
                <5> QED BY <4>1, <5>1
            <4> QED BY <1>4, <1>6, <4>1, <4>2
        <3> QED BY <2>1, <3>1
    <2> QED BY <2>1, <2>2, <2>3
<1>8. CASE H = With(G, t, Newest)
    <2>1. Extends(G, Base, Newest)
        BY <1>1, <1>2, NewestExtends DEF G
    <2>2. /\ Ordered(H) /\ Reaches(H, t)
          /\ Loose(H, Base, t)
          /\ \/ Tight(H, Append(Base, Newest))
             \/ \A m \in Vector : Verified(H, m) => ~Holds(H, m, Newest.hash)
          /\ \A m \in Vector : Verified(H, m) =>
                 \E k \in Vector :
                    /\ Verified(G, k)
                    /\ \A h : Holds(G, k, h) => Holds(H, m, h)
                    /\ \A h : Holds(H, m, h) => h = Newest.hash \/ Holds(G, k, h)
        BY <1>1, <1>2, <1>8, <2>1, WithOrdered
    <2>3. head # NoHead => head.hash # Newest.hash
        <3> SUFFICES ASSUME head # NoHead PROVE head.hash # Newest.hash
            OBVIOUS
        <3>1. head.hash < attempts /\ Newest.hash = attempts
            BY <1>1, NewestIsNew DEF EventInv
        <3> QED BY <1>6, <3>1
    <2>4. Covers(H)
        <3> SUFFICES ASSUME head # NoHead, NEW m \in Vector, Verified(H, m), Holds(H, m, head.hash),
                            NEW a \in acked
                     PROVE  Holds(H, m, a.hash)
            BY DEF Covers
        <3>1. PICK k \in Vector : /\ Verified(G, k)
                                  /\ \A h : Holds(G, k, h) => Holds(H, m, h)
                                  /\ \A h : Holds(H, m, h) => h = Newest.hash \/ Holds(G, k, h)
            BY <2>2
        <3>2. Holds(G, k, head.hash)
            BY <2>3, <3>1
        <3>3. Holds(G, k, a.hash)
            BY <1>2, <3>1, <3>2 DEF Covers
        <3> QED BY <3>1, <3>3
    <2>5. ASSUME head # NoHead, Nowhere(G, head.hash) PROVE Nowhere(H, head.hash)
        <3> SUFFICES ASSUME NEW m \in Vector, Verified(H, m), Holds(H, m, head.hash) PROVE FALSE
            BY DEF Nowhere
        <3>1. PICK k \in Vector : /\ Verified(G, k)
                                  /\ \A h : Holds(H, m, h) => h = Newest.hash \/ Holds(G, k, h)
            BY <2>2
        <3> QED BY <2>3, <2>5, <3>1 DEF Nowhere
    <2> QED BY <1>1, <2>2, <2>4, <2>5 DEF Nowhere
<1> QED BY <1>3, <1>7, <1>8

\* What lost lines leave true.
LEMMA HardLost ==
    ASSUME TypeInv, EventInv, HardInv, lines' \in LogLines,
           \A s \in Segments : /\ Len(lines'[s]) <= Len(lines[s])
                               /\ \A i \in 1..Len(lines'[s]) : lines'[s][i] = lines[s][i],
           UNCHANGED <<head, acked>>
    PROVE  Still'
<1>1. lines \in LogLines
    BY UnderWay
<1>2. 0 \in Segments
    BY SegmentsAre
<1>3. /\ Pruned(Told, Told', 0) /\ Told' \in Log /\ Told \in Log
      /\ Len(Told'[0]) <= Len(Told[0])
    <2>1. Pruned(Said(lines), Said(lines'), 0) /\ \A s \in Segments : Len(Said(lines')[s]) <= Len(Said(lines)[s])
        BY <1>1, ShorterPruned
    <2>2. Said(lines') \in Log /\ Said(lines) \in Log
        BY <1>1, SaidIs
    <2> QED BY <1>2, <2>1, <2>2 DEF Told
<1> DEFINE H == Told'
<1> HIDE DEF H
<1>4. Ordered(H) /\ (Covers(Told) => Covers(H))
    BY <1>2, <1>3, PrunedHolds DEF HardInv, Still, H
<1> QED BY <1>4 DEF HardInv, Still, HeadFirst, Covers, H

\* What open makes of the record.
LEMMA OpenIs ==
    ASSUME TypeInv, Open
    PROVE  /\ lines' = KeptLines /\ KeptLines \in LogLines
           /\ \A s \in Segments : /\ Len(lines'[s]) <= Len(lines[s])
                                  /\ \A i \in 1..Len(lines'[s]) : lines'[s][i] = lines[s][i]
           /\ Told' \in [Segments -> Seq(Event)]
           /\ Base' = chain' /\ chain' = Flat(Told') /\ Place' = SegmentOf(Len(chain'))
           /\ up' /\ step = "idle" /\ step' = "idle" /\ verdict' = HeadVerdict(chain')
           /\ UNCHANGED <<files, synced, head, attempts, acked, suffered>>
<1>1. /\ lines' = KeptLines /\ chain' = Replayed /\ step' = step /\ step = "idle" /\ Openable
      /\ verdict' = HeadVerdict(chain') /\ up'
      /\ UNCHANGED <<files, synced, head, attempts, acked, suffered>>
    BY DEF Open, KeptLines, TypeInv, Counted
<1>2. /\ KeptLines \in LogLines
      /\ \A s \in Segments : Len(KeptLines[s]) <= Len(lines[s])
      /\ \A s \in Segments : \A i \in 1..Len(KeptLines[s]) : KeptLines[s][i] = lines[s][i]
      /\ Replayed = Flat(Said(KeptLines)) /\ Said(KeptLines) \in [Segments -> Seq(Event)]
    BY <1>1, KeptIs DEF TypeInv
<1>3. Told' = Said(KeptLines)
    BY <1>1 DEF Told
<1>4. Base' = chain' /\ Place' = SegmentOf(Len(chain'))
    BY <1>1 DEF Base, Place
<1> QED BY <1>1, <1>2, <1>3, <1>4

\* An event that verifies in what was read is in the chain, at its number.
LEMMA ReadPlaces ==
    ASSUME NEW G \in [Segments -> Seq(Event)], Ordered(G), NEW m \in Vector, Verified(G, m),
           NEW s \in Segments, NEW i \in 1..m[s]
    PROVE  /\ G[s][i] \in Event /\ G[s][i].seq + 1 \in 1..Len(Flat(G))
           /\ Flat(G)[G[s][i].seq + 1] = G[s][i] /\ i \in 1..Len(G[s])
<1> DEFINE w == Before(G)
<1>1. /\ IsLog(G) /\ Weighs(G, w) /\ Len(Flat(G)) = w[N]
      /\ \A q \in Segments : \A j \in 1..Len(G[q]) : Flat(G)[w[q] + j] = G[q][j]
    BY FlatIs
<1> HIDE DEF w
<1>2. FullBelow(G, m) /\ Positional(G, m) /\ \A q \in Segments : m[q] <= Len(G[q])
    BY DEF Ordered, Verified, Within
<1>3. G[s][i].seq = (w[s] + i) - 1
    BY <1>1, <1>2, PositionalCounts
<1>4. i \in 1..Len(G[s])
    <2>1. m[s] \in Nat /\ Len(G[s]) \in Nat /\ m[s] <= Len(G[s])
        BY <1>2 DEF Vector
    <2> QED BY <2>1
<1>5. w[s] + i \in 1..w[N] /\ w[s] \in Nat
    BY <1>1, <1>4, OnePlace
<1>6. G[s][i] \in Event
    BY <1>4, ElementOfSeq
<1> DEFINE x == w[s] + i
<1>7. G[s][i].seq + 1 = x
    <2>1. G[s][i].seq = x - 1 /\ x \in Nat
        BY <1>3, <1>5
    <2> HIDE DEF x
    <2> QED BY <2>1
<1> QED BY <1>1, <1>4, <1>5, <1>6, <1>7

\* open reads a chain whose relation to the log is the one the head is judged by.
LEMMA HardOpen == TypeInv /\ EventInv /\ HardInv /\ TypeInv' /\ EventInv' /\ Open => HardInv'
<1> SUFFICES ASSUME TypeInv, EventInv, HardInv, TypeInv', EventInv', Open PROVE HardInv'
    OBVIOUS
<1> DEFINE G == Told'
           K == Flat(G)
<1>1. /\ lines' \in LogLines
      /\ \A s \in Segments : /\ Len(lines'[s]) <= Len(lines[s])
                             /\ \A i \in 1..Len(lines'[s]) : lines'[s][i] = lines[s][i]
      /\ G \in [Segments -> Seq(Event)]
      /\ Base' = K /\ chain' = K /\ Place' = SegmentOf(Len(K))
      /\ up' /\ step' = "idle" /\ verdict' = HeadVerdict(K)
      /\ UNCHANGED <<head, acked>>
    BY OpenIs
<1>2. Still'
    BY <1>1, HardLost
<1>3. Ordered(G) /\ Covers(G) /\ HeadFirst'
    BY <1>1, <1>2 DEF Still, Covers
<1>4. /\ Sorted(G) /\ Distinct(G)
      /\ \A s \in Segments : \A i \in 1..Len(G[s]) : G[s][i] # Junk => G[s][i] \in Around'
      /\ acked \subseteq Around'
      /\ \A x, y \in Around' : x.hash = y.hash => x = y
      /\ head # NoHead => \A x \in Around' : x.hash = head.hash => x.seq = head.seq
    <2>1. \A s \in Segments : \A i \in 1..Len(G[s]) : G[s][i] # Junk => G[s][i] \in Around'
        <3> SUFFICES ASSUME NEW s \in Segments, NEW i \in 1..Len(G[s]) PROVE G[s][i] \in Around'
            OBVIOUS
        <3>1. G[s][i] \in Event
            BY <1>1, ElementOfSeq
        <3> QED BY <3>1 DEF Around
    <2>2. acked \subseteq Around'
        BY <1>1 DEF Around, TypeInv, TypeOK
    <2> QED BY <1>1, <2>1, <2>2 DEF EventInv
<1> HIDE DEF G, K
<1>5. Covers(G)
    BY <1>3
<1>6. ASSUME NEW m \in Vector, Verified(G, m), NEW s \in Segments, NEW i \in 1..m[s]
      PROVE  /\ G[s][i] \in Event /\ G[s][i].seq + 1 \in 1..Len(K)
             /\ K[G[s][i].seq + 1] = G[s][i] /\ i \in 1..Len(G[s])
             /\ G[s][i] \in Around'
    <2>1. /\ G[s][i] \in Event /\ G[s][i].seq + 1 \in 1..Len(K)
          /\ K[G[s][i].seq + 1] = G[s][i] /\ i \in 1..Len(G[s])
        BY <1>1, <1>3, <1>6, ReadPlaces DEF K
    <2> QED BY <1>4, <2>1, ValuesAssumption
<1>7. Verifies(K) => Verified(G, Full(G)) /\ Full(G) \in Vector
    BY <1>1, WholeVerifies DEF K, Verified
<1>8. ASSUME NEW n \in 1..Len(K)
      PROVE  \E s \in Segments : \E i \in 1..Full(G)[s] : K[n] = G[s][i]
    <2>1. PICK s \in Segments : \E i \in 1..Len(G[s]) : K[n] = G[s][i]
        BY <1>1, <1>8, FlatAt DEF K
    <2> QED BY <2>1 DEF Full
<1>9. K \in Seq(Event) /\ Len(K) \in Nat
    BY <1>1, FlatIs DEF K
<1>10. Reaches(G, SegmentOf(Len(K)))
    <2>1. \A s \in Segments : \A i \in 1..Len(G[s]) : SegmentOf(G[s][i].seq) = s
        <3> SUFFICES ASSUME NEW s \in Segments, NEW i \in 1..Len(G[s]) PROVE SegmentOf(G[s][i].seq) = s
            OBVIOUS
        <3>1. G[s][i] \in Event
            BY <1>1, ElementOfSeq
        <3> QED BY <1>4, <3>1, ValuesAssumption DEF Sorted
    <2> QED BY <1>1, <1>3, <2>1, ReadReaches DEF K
<1>11. Tight(G, K) \/ Loose(G, K, SegmentOf(Len(K)))
    <2>1. SegmentOf(Len(K)) \in Segments
        <3>1. Len(chain') <= attempts'
            BY DEF TypeInv, Counted
        <3>2. attempts' \in 0..MaxAppends
            BY DEF TypeInv, TypeOK
        <3>3. Len(K) \in 0..MaxAppends
            BY <1>1, <1>9, <3>1, <3>2, BoundsAssumption
        <3> QED BY <3>3, SegmentsAre
    <2> QED BY <1>1, <1>3, <1>4, <2>1, ReadTight, ReadLoose DEF K
<1>12. ASSUME verdict' = "diverged" PROVE head # NoHead /\ Nowhere(G, head.hash)
    <2>1. head # NoHead
        BY <1>1, <1>12 DEF HeadVerdict
    <2>2. ~(head.seq < Len(K) /\ K[head.seq + 1].seq = head.seq /\ K[head.seq + 1].hash = head.hash)
        BY <1>1, <1>12, <2>1 DEF HeadVerdict
    <2>3. ASSUME NEW m \in Vector, Verified(G, m), NEW s \in Segments, NEW i \in 1..m[s],
                 G[s][i].hash = head.hash
          PROVE  FALSE
        <3>1. /\ G[s][i] \in Event /\ G[s][i].seq + 1 \in 1..Len(K)
              /\ K[G[s][i].seq + 1] = G[s][i]
              /\ G[s][i] \in Around'
            BY <1>6, <2>3
        <3>2. G[s][i].seq = head.seq
            BY <1>4, <2>1, <2>3, <3>1
        <3>3. head.seq \in Nat /\ head.seq + 1 \in 1..Len(K) /\ K[head.seq + 1] = G[s][i]
            BY <3>1, <3>2 DEF Event
        <3> QED BY <1>9, <2>2, <2>3, <3>2, <3>3
    <2> QED BY <2>1, <2>3 DEF Nowhere, Holds
<1>13. ASSUME verdict' # "diverged", Verifies(K) PROVE acked \subseteq ToSet(K)
    <2>1. CASE head = NoHead
        BY <1>1, <1>3, <2>1 DEF HeadFirst
    <2>2. CASE head # NoHead
        <3>1. head.seq < Len(K) /\ K[head.seq + 1].hash = head.hash
            BY <1>1, <1>13, <2>2 DEF HeadVerdict
        <3>2. head.seq \in Nat
            BY <2>2 DEF TypeInv, TypeOK, LedgerHead
        <3>3. head.seq + 1 \in 1..Len(K)
            BY <1>9, <3>1, <3>2
        <3>4. Holds(G, Full(G), head.hash)
            BY <1>8, <3>1, <3>3 DEF Holds
        <3> SUFFICES ASSUME NEW a \in acked PROVE a \in ToSet(K)
            OBVIOUS
        <3>5. Holds(G, Full(G), a.hash)
            BY <1>5, <1>7, <1>13, <2>2, <3>4 DEF Covers
        <3>6. PICK s \in Segments : \E i \in 1..Full(G)[s] : G[s][i].hash = a.hash
            BY <3>5 DEF Holds
        <3>7. PICK i \in 1..Full(G)[s] : G[s][i].hash = a.hash
            BY <3>6
        <3>8. /\ G[s][i] \in Event /\ G[s][i].seq + 1 \in 1..Len(K)
              /\ K[G[s][i].seq + 1] = G[s][i] /\ G[s][i] \in Around'
            BY <1>6, <1>7, <1>13
        <3>9. a = G[s][i]
            BY <1>4, <3>7, <3>8
        <3> QED BY <3>8, <3>9 DEF ToSet
    <2> QED BY <2>1, <2>2
<1>14. ASSUME Verifies(K), NEW n \in 1..Len(K) PROVE K[n].seq = n - 1
    <2>1. PICK s \in Segments : \E i \in 1..Full(G)[s] : K[n] = G[s][i]
        BY <1>8
    <2>2. PICK i \in 1..Full(G)[s] : K[n] = G[s][i]
        BY <2>1
    <2> DEFINE w == Before(G)
    <2>3. /\ IsLog(G) /\ Weighs(G, w)
          /\ Full(G) \in Vector /\ FullBelow(G, Full(G)) /\ Positional(G, Full(G))
          /\ \A q \in Segments : Full(G)[q] <= Len(G[q])
        BY <1>1, <1>3, <1>7, <1>14, FlatIs DEF Ordered, Verified, Within
    <2>4. PICK r \in Segments : \E j \in 1..Len(G[r]) : n = w[r] + j /\ K[n] = G[r][j]
        BY <1>1, FlatAt DEF K
    <2>5. PICK j \in 1..Len(G[r]) : n = w[r] + j /\ K[n] = G[r][j]
        BY <2>4
    <2> HIDE DEF w
    <2>6. j \in 1..Full(G)[r]
        BY DEF Full
    <2>7. G[r][j].seq = (w[r] + j) - 1
        BY <2>3, <2>6, PositionalCounts
    <2> QED BY <2>5, <2>7
<1>15. InMemory' /\ Reaches(G, Place')
    BY <1>1, <1>10, <1>11 DEF InMemory, G
<1>16. Diverges' /\ Keeps' /\ ChainPos'
    BY <1>1, <1>12, <1>13, <1>14 DEF Diverges, Keeps, ChainPos, G
<1> QED BY <1>2, <1>15, <1>16 DEF HardInv, Live, G

\* The event a settled append leaves at the end of the chain.
LEMMA Settled ==
    ASSUME TypeInv, EventInv, HardInv, step = "head"
    PROVE  /\ chain \in Seq(Event) /\ Len(chain) \in Nat /\ Len(Base) \in Nat
           /\ Verifies(chain) <=> Verifies(Base)
           /\ Newest \in ToSet(chain) /\ ToSet(Base) \subseteq ToSet(chain)
           /\ Verifies(chain) => \A n \in 1..Len(chain) : chain[n].seq = n - 1
           /\ Reaches(Told, SegmentOf(Len(chain)))
           /\ Tight(Told, chain) \/ Loose(Told, chain, SegmentOf(Len(chain)))
<1>1. /\ Base \in Seq(Event) /\ Len(Base) \in Nat /\ Newest \in Event
      /\ up /\ chain = Append(Base, Newest) /\ Newest = chain[Len(chain)] /\ Len(chain) = Len(Base) + 1
      /\ Place \in Segments
    BY UnderWay
<1>2. /\ Newest.seq = Len(Base)
      /\ Newest.prev = IF Base = <<>> THEN Genesis ELSE Base[Len(Base)].hash
    BY DEF TypeInv, Counted
<1>3. /\ Verifies(Append(Base, Newest)) <=> Verifies(Base)
      /\ \A n \in 1..Len(Base) : Append(Base, Newest)[n] = Base[n]
      /\ Append(Base, Newest) # <<>>
      /\ Append(Base, Newest) \in Seq(Event)
    BY <1>1, <1>2, ChainExtends
<1>4. /\ Reaches(Told, Place) /\ ChainPos
      /\ Tight(Told, chain) \/ Nowhere(Told, Newest.hash)
    BY <1>1 DEF HardInv, Live, InMemory
<1>5. Newest \in ToSet(chain)
    <2>1. Len(chain) \in 1..Len(chain)
        BY <1>1
    <2> QED BY <1>1, <2>1 DEF ToSet
<1>6. ToSet(Base) \subseteq ToSet(chain)
    <2> SUFFICES ASSUME NEW n \in 1..Len(Base) PROVE Base[n] \in ToSet(chain)
        BY DEF ToSet
    <2>1. n \in 1..Len(chain) /\ chain[n] = Base[n]
        BY <1>1, <1>3
    <2> QED BY <2>1 DEF ToSet
<1>7. ASSUME Verifies(chain), NEW n \in 1..Len(chain) PROVE chain[n].seq = n - 1
    <2>1. n = Len(chain) \/ n \in 1..Len(Base)
        BY <1>1
    <2>2. CASE n = Len(chain)
        BY <1>1, <1>2, <2>2
    <2>3. CASE n \in 1..Len(Base)
        BY <1>1, <1>3, <1>4, <1>7, <2>3 DEF ChainPos
    <2> QED BY <2>1, <2>2, <2>3
<1>8. Reaches(Told, SegmentOf(Len(chain)))
    <2>1. SegmentOf(Len(Base)) <= SegmentOf(Len(chain))
        BY <1>1, SegmentsGrow
    <2>2. SegmentOf(Len(Base)) \in Nat /\ SegmentOf(Len(chain)) \in Nat
        <3>1. 0 \in Nat
            OBVIOUS
        <3> QED BY <1>1, <3>1, SegmentBounds
    <2> SUFFICES ASSUME NEW m \in Vector, Verified(Told, m), NEW q \in Segments, SegmentOf(Len(chain)) < q
                 PROVE  m[q] = 0
        BY DEF Reaches
    <2>3. q \in Nat
        BY SegmentsAre
    <2>4. Place < q
        BY <2>1, <2>2, <2>3 DEF Place
    <2> QED BY <1>4, <2>4 DEF Reaches
<1>9. ASSUME Nowhere(Told, Newest.hash) PROVE Loose(Told, chain, SegmentOf(Len(chain)))
    <2> SUFFICES ASSUME NEW m \in Vector, Verified(Told, m),
                        NEW s \in Segments, Ends(m, s), Told[s][m[s]].hash = Newest.hash
                 PROVE  FALSE
        BY <1>1, <1>3 DEF Loose
    <2>1. m[s] \in 1..m[s]
        BY DEF Vector, Ends
    <2> QED BY <1>9, <2>1 DEF Nowhere, Holds
<1> QED BY <1>1, <1>3, <1>4, <1>5, <1>6, <1>7, <1>8, <1>9

\* An event recorded or left unrecorded at the end of an append.
LEMMA HardSettled ==
    ASSUME TypeInv, EventInv, HardInv, step = "head", step' = "idle",
           lines' = lines, UNCHANGED <<up, chain, verdict>>,
           \/ UNCHANGED <<head, acked>>
           \/ /\ head' = IF verdict = "diverged" THEN head ELSE [seq |-> Newest.seq, hash |-> Newest.hash]
              /\ acked' = acked \cup {Newest}
    PROVE  HardInv'
<1>1. /\ Base' = chain /\ Place' = SegmentOf(Len(chain)) /\ Told' = Told
    BY DEF Base, Place, Told
<1>2. /\ chain \in Seq(Event)
      /\ Verifies(chain) <=> Verifies(Base)
      /\ Newest \in ToSet(chain) /\ ToSet(Base) \subseteq ToSet(chain)
      /\ Verifies(chain) => \A n \in 1..Len(chain) : chain[n].seq = n - 1
      /\ Reaches(Told, SegmentOf(Len(chain)))
      /\ Tight(Told, chain) \/ Loose(Told, chain, SegmentOf(Len(chain)))
    BY Settled
<1>3. /\ up /\ Ordered(Told) /\ Covers(Told) /\ HeadFirst /\ Diverges /\ Keeps /\ InMemory
    <2>1. up
        BY UnderWay
    <2> QED BY <2>1 DEF HardInv, Still, Live
<1>4. Reaches(Told, Place') /\ InMemory' /\ ChainPos'
    BY <1>1, <1>2 DEF InMemory, ChainPos
<1>5. CASE UNCHANGED <<head, acked>>
    <2>1. Diverges'
        BY <1>1, <1>3, <1>5 DEF Diverges
    <2>2. Keeps'
        BY <1>1, <1>2, <1>3, <1>5 DEF Keeps
    <2>3. Still'
        BY <1>1, <1>3, <1>5 DEF Still, Covers, HeadFirst
    <2> QED BY <1>1, <1>4, <2>1, <2>2, <2>3 DEF HardInv, Live
<1>6. CASE /\ head' = IF verdict = "diverged" THEN head ELSE [seq |-> Newest.seq, hash |-> Newest.hash]
           /\ acked' = acked \cup {Newest}
    <2>1. Keeps'
        BY <1>1, <1>2, <1>3, <1>6 DEF Keeps
    <2>2. CASE verdict = "diverged"
        <3>1. Diverges'
            BY <1>1, <1>3, <1>6, <2>2 DEF Diverges
        <3>2. Ordered(Told)' /\ Covers(Told)' /\ HeadFirst'
            BY <1>1, <1>3, <1>6, <2>2 DEF Covers, HeadFirst, Diverges, Nowhere
        <3> QED BY <1>1, <1>4, <2>1, <3>1, <3>2 DEF HardInv, Live, Still
    <2>3. CASE verdict # "diverged"
        <3>1. Diverges'
            BY <2>3 DEF Diverges
        <3>2. head' = [seq |-> Newest.seq, hash |-> Newest.hash] /\ head'.hash = Newest.hash
            BY <1>6, <2>3
        <3>3. head' # NoHead
            <4>1. head' \in LedgerHead
                <5>1. Newest \in Event
                    BY UnderWay
                <5> QED BY <3>2, <5>1 DEF LedgerHead, Event
            <4> QED BY <4>1, ValuesAssumption
        <3>4. ASSUME NEW m \in Vector, Verified(Told, m), Holds(Told, m, Newest.hash), NEW a \in acked'
              PROVE  Holds(Told, m, a.hash)
            <4>1. Tight(Told, chain)
                BY <1>3, <3>4 DEF InMemory, Nowhere
            <4>2. Verifies(chain)
                BY <4>1 DEF Tight
            <4>3. a \in ToSet(chain)
                BY <1>2, <1>3, <1>6, <2>3, <4>2 DEF Keeps
            <4>4. /\ Told \in Log /\ chain # <<>> /\ Newest = chain[Len(chain)] /\ Newest \in Event
                <5>1. lines \in LogLines /\ Newest = chain[Len(chain)] /\ Newest \in Event
                    BY UnderWay
                <5>2. chain # <<>>
                    BY DEF TypeInv, Counted
                <5> QED BY <5>1, <5>2, AroundIs
            <4>5. PICK z \in Segments : Ends(Full(Told), z) /\ Told[z][Len(Told[z])] = Newest
                BY <4>1, <4>4 DEF Tight
            <4>6. m = Full(Told)
                <5>1. Distinct(Told) /\ FullBelow(Told, m)
                    BY <1>3, <3>4 DEF EventInv, Ordered
                <5>2. Told[z][Len(Told[z])] # Junk
                    BY <4>4, <4>5, ValuesAssumption
                <5> QED BY <3>4, <4>4, <4>5, <5>1, <5>2, LastIsWhole
            <4>7. PICK n \in 1..Len(chain) : chain[n] = a
                BY <4>3 DEF ToSet
            <4>8. PICK s \in Segments : \E i \in 1..Len(Told[s]) : Told[s][i] = a
                BY <4>1, <4>7 DEF Tight
            <4> QED BY <4>6, <4>8 DEF Holds, Full
        <3>5. Ordered(Told)' /\ Covers(Told)' /\ HeadFirst'
            BY <1>1, <1>3, <3>2, <3>3, <3>4 DEF Covers, HeadFirst
        <3> QED BY <1>1, <1>4, <2>1, <3>1, <3>5 DEF HardInv, Live, Still
    <2> QED BY <2>2, <2>3
<1> QED BY <1>5, <1>6

\* Steps that leave the log, the head, and the chain but for the event under way.
LEMMA HardKeeps ==
    ASSUME TypeInv, EventInv, HardInv, lines' = lines, UNCHANGED <<head, acked>>,
           \/ ~up'
           \/ /\ UNCHANGED <<up, verdict>> /\ Base' = Base
              /\ \/ step' = step /\ chain' = chain
                 \/ step' \in {"idle", "write"} /\ step # "head"
                 \/ step' = "head" /\ step = "syncdir" /\ chain' = chain
    PROVE  HardInv'
<1>1. Told' = Told
    BY DEF Told
<1>2. Still'
    BY <1>1 DEF HardInv, Still, Covers, HeadFirst
<1>3. CASE ~up'
    BY <1>2, <1>3 DEF HardInv
<1>4. CASE /\ UNCHANGED <<up, verdict>> /\ Base' = Base
           /\ \/ step' = step /\ chain' = chain
              \/ step' \in {"idle", "write"} /\ step # "head"
              \/ step' = "head" /\ step = "syncdir" /\ chain' = chain
    <2> SUFFICES ASSUME up PROVE Live'
        BY <1>2, <1>4 DEF HardInv
    <2>1. Live
        BY DEF HardInv
    <2>2. Place' = Place
        BY <1>4 DEF Place
    <2>3. Diverges' /\ Keeps' /\ ChainPos' /\ Reaches(Told, Place)
        BY <1>1, <1>4, <2>1 DEF Live, Diverges, Keeps, ChainPos
    <2>4. InMemory'
        <3>1. CASE step' \in {"idle", "write"} /\ step # "head"
            <4>1. step \in {"idle", "write", "syncdir"}
                BY <3>1 DEF TypeInv, TypeOK
            <4> QED BY <1>1, <1>4, <2>1, <2>2, <3>1, <4>1 DEF Live, InMemory
        <3>2. CASE step' = step /\ chain' = chain
            BY <1>1, <1>4, <2>1, <2>2, <3>2 DEF Live, InMemory, Newest
        <3>3. CASE step' = "head" /\ step = "syncdir" /\ chain' = chain
            BY <1>1, <1>4, <2>1, <2>2, <3>3 DEF Live, InMemory, Newest
        <3> QED BY <1>4, <3>1, <3>2, <3>3
    <2> QED BY <1>1, <2>2, <2>3, <2>4 DEF Live
<1> QED BY <1>3, <1>4

\* Every step, faults included, keeps what is true after any fault.
LEMMA HardInvStep == TypeInv /\ EventInv /\ HardInv /\ TypeInv' /\ EventInv' /\ [Next]_vars => HardInv'
<1> SUFFICES ASSUME TypeInv, EventInv, HardInv, TypeInv', EventInv', [Next]_vars PROVE HardInv'
    OBVIOUS
<1>1. CASE Open
    BY <1>1, HardOpen
<1>2. CASE BeginAppend
    <2>1. /\ step = "idle" /\ step' = "write" /\ chain' = Append(chain, NextEvent) /\ lines' = lines
          /\ UNCHANGED <<head, acked, up, verdict>> /\ attempts < MaxAppends
        BY <1>2 DEF BeginAppend, disk
    <2>2. Base' = Base
        <3>1. NextEvent \in Event /\ chain \in Seq(Event)
            BY <2>1, NextEventIs DEF TypeInv, TypeOK
        <3>2. Front(Append(chain, NextEvent)) = chain
            BY <3>1, FrontAppend
        <3> QED BY <2>1, <3>2 DEF Base
    <2> QED BY <2>1, <2>2, HardKeeps
<1>3. CASE WriteLine
    <2>1. FullLine \in Writable /\ Wrote(FullLine) /\ UNCHANGED <<chain, up, verdict>>
          /\ step = "write" /\ step' \in {"syncdir", "head"}
        BY <1>3 DEF WriteLine, Wrote, Writable, Put
    <2>2. Base' = Base /\ Place' = Place /\ Newest' = Newest /\ Target = Place
        BY <2>1, UnderWay DEF Base, Place, Newest
    <2>3. /\ Still'
          /\ Reaches(Told', Place)
          /\ Loose(Told', Base, Place)
          /\ Tight(Told', chain) \/ Nowhere(Told', Newest.hash)
          /\ head # NoHead /\ Nowhere(Told, head.hash) => Nowhere(Told', head.hash)
        BY <2>1, <2>2, HardWrote
    <2>4. /\ up => Diverges /\ Keeps /\ ChainPos
          /\ UNCHANGED <<head, acked>>
        BY <2>1 DEF HardInv, Live, Wrote
    <2>5. up => Diverges' /\ Keeps' /\ ChainPos' /\ InMemory'
        BY <2>1, <2>2, <2>3, <2>4 DEF Diverges, Keeps, ChainPos, InMemory
    <2> QED BY <2>1, <2>2, <2>3, <2>5 DEF HardInv, Live
<1>4. CASE SyncDir
    <2>1. UNCHANGED <<up, verdict, chain>> /\ Base' = Base
        BY <1>4 DEF SyncDir, Base
    <2> QED BY <1>4, <2>1, HardKeeps DEF SyncDir
<1>5. CASE RecordHead
    BY <1>5, HardSettled DEF RecordHead
<1>6. CASE WriteFails
    <2>1. UNCHANGED <<up, verdict>> /\ Base' = Base
        BY <1>6 DEF WriteFails, RollBack, RolledBack, Base
    <2> QED BY <1>6, <2>1, HardKeeps DEF WriteFails, RollBack
<1>7. CASE WriteAndSetLenFail
    <2>1. PICK line \in Landed \cup {Unended} : lines' = [lines EXCEPT ![Target] = Write(@, line)]
        BY <1>7 DEF WriteAndSetLenFail
    <2>2. line \in Writable /\ Wrote(line) /\ chain' = RolledBack /\ step' = "idle" /\ step = "write"
          /\ UNCHANGED <<up, verdict>>
        BY <1>7, <2>1 DEF WriteAndSetLenFail, RollBack, Landed, Writable, Partial, Put, Wrote
    <2>3. Base' = Base /\ Place' = Place /\ Target = Place
        <3>1. Base' = Base
            BY <2>2 DEF Base, RolledBack
        <3> QED BY <2>2, <3>1, UnderWay DEF Place
    <2>4. /\ Still'
          /\ Reaches(Told', Place)
          /\ Loose(Told', Base, Place)
          /\ head # NoHead /\ Nowhere(Told, head.hash) => Nowhere(Told', head.hash)
        BY <2>2, <2>3, HardWrote
    <2>5. /\ up => Diverges /\ Keeps /\ ChainPos
          /\ UNCHANGED <<head, acked>>
        BY <2>2 DEF HardInv, Live, Wrote
    <2>6. up => Diverges' /\ Keeps' /\ ChainPos' /\ InMemory'
        BY <2>2, <2>3, <2>4, <2>5 DEF Diverges, Keeps, ChainPos, InMemory
    <2> QED BY <2>2, <2>3, <2>4, <2>6 DEF HardInv, Live
<1>8. CASE SyncDirFails
    <2>1. UNCHANGED <<up, verdict>> /\ Base' = Base
        BY <1>8 DEF SyncDirFails, RollBack, RolledBack, Base
    <2> QED BY <1>8, <2>1, HardKeeps DEF SyncDirFails, RollBack, disk
<1>9. CASE RecordHeadFails
    BY <1>9, HardSettled DEF RecordHeadFails, disk
<1>10. CASE Crash
    <2>1. ~up'
        BY <1>10, CrashIs DEF Down
    <2>2. CASE Lost /\ lines' = lines
        BY <2>1, <2>2, HardKeeps DEF Lost
    <2>3. ASSUME NEW line \in Writable, Wrote(line) PROVE HardInv'
        <3>1. Still'
            BY <2>3, HardWrote
        <3> QED BY <2>1, <3>1 DEF HardInv
    <2> QED BY <1>10, <2>2, <2>3, CrashIs
<1>11. ASSUME Lost PROVE HardInv'
    <2>1. ~up'
        BY <1>11 DEF Lost, Down, process
    <2>2. Still'
        BY <1>11, HardLost DEF Lost
    <2> QED BY <2>1, <2>2 DEF HardInv
<1>12. CASE PowerCut
    BY <1>11, <1>12, PowerCutIs
<1>13. CASE CutTail
    BY <1>11, <1>13, CutTailIs
<1>14. CASE UNCHANGED vars
    <2>1. Base' = Base
        BY <1>14 DEF vars, process, Base
    <2> QED BY <1>14, <2>1, HardKeeps DEF vars, disk, process
<1> QED BY <1>1, <1>2, <1>3, <1>4, <1>5, <1>6, <1>7, <1>8, <1>9, <1>10, <1>12, <1>13, <1>14 DEF Next

\* A new store has no head and no event.
LEMMA HardInvInit == Init => HardInv
<1> SUFFICES ASSUME Init PROVE HardInv
    OBVIOUS
<1>1. \A s \in Segments : Len(lines[s]) = 0 /\ lines \in LogLines
    BY DEF Init, LogLines
<1>2. Told \in Log /\ \A s \in Segments : Len(Told[s]) = 0
    <2>1. 0 \in Segments
        BY SegmentsAre
    <2> QED BY <1>1, <2>1, SaidIs DEF Told
<1>3. ASSUME NEW m \in Vector, Verified(Told, m), NEW s \in Segments PROVE m[s] = 0
    <2>1. m[s] \in Nat /\ m[s] <= 0
        BY <1>2, <1>3 DEF Vector, Verified, Within
    <2> QED BY <2>1
<1>4. Ordered(Told)
    <2> SUFFICES ASSUME NEW m \in Vector, Verified(Told, m) PROVE FullBelow(Told, m) /\ Positional(Told, m)
        BY DEF Ordered
    <2>1. \A s \in Segments : m[s] = 0
        BY <1>3
    <2> QED BY <2>1 DEF FullBelow, Positional
<1>5. Still
    BY <1>4 DEF Init, Still, Covers, HeadFirst
<1> QED BY <1>5 DEF Init, HardInv

-----------------------------------------------------------------------------
(* What is lost only to some of the faults: the events that were written.    *)

\* A whole line of the record says x.
OnFile(L, x) == \E s \in Segments : \E i \in 1..Len(L[s]) : L[s][i].text = x /\ L[s][i].nl

\* There is a line that no repair takes away, and open refuses the record.
Ruined(L) ==
    \E s \in Segments : \E i \in 1..Len(L[s]) :
        L[s][i].text = Junk /\ (L[s][i].nl \/ i < Len(L[s]))

\* What a write changes, line by line.
LEMMA PutLines ==
    ASSUME NEW L \in LogLines, NEW t \in Segments, NEW line \in Line
    PROVE  /\ \A s \in Segments : \A i \in 1..Len(L[s]) :
                /\ i \in 1..Len(Put(L, t, line)[s])
                /\ L[s][i].nl \/ i < Len(L[s]) => Put(L, t, line)[s][i] = L[s][i]
                /\ i < Len(L[s]) => i < Len(Put(L, t, line)[s])
           /\ \A s \in Segments : \A i \in 1..Len(Put(L, t, line)[s]) :
                \/ i \in 1..Len(L[s]) /\ Put(L, t, line)[s][i] = L[s][i]
                   /\ (s = t => i < Len(Put(L, t, line)[t]))
                \/ /\ s = t /\ i = Len(Put(L, t, line)[t])
                   /\ Put(L, t, line)[s][i] = IF Terminated(L[t]) THEN line ELSE [text |-> Junk, nl |-> line.nl]
           /\ Len(Put(L, t, line)[t]) \in 1..Len(Put(L, t, line)[t])
           /\ Terminated(L[t]) => Len(Put(L, t, line)[t]) = Len(L[t]) + 1
           /\ ~Terminated(L[t]) => /\ Len(Put(L, t, line)[t]) = Len(L[t])
                                   /\ Len(L[t]) \in 1..Len(L[t]) /\ ~L[t][Len(L[t])].nl
<1> DEFINE M == Put(L, t, line)
<1>1. /\ M \in LogLines /\ M[t] = Write(L[t], line) /\ L[t] \in Seq(Line)
      /\ \A s \in Segments : s # t => M[s] = L[s]
    BY PutIs
<1> HIDE DEF M
<1>2. /\ Terminated(L[t]) =>
            /\ Len(M[t]) = Len(L[t]) + 1
            /\ M[t][Len(L[t]) + 1] = line
            /\ \A i \in 1..Len(L[t]) : M[t][i] = L[t][i]
      /\ ~Terminated(L[t]) =>
            /\ Len(M[t]) = Len(L[t]) /\ Len(L[t]) \in 1..Len(L[t])
            /\ M[t][Len(L[t])] = [text |-> Junk, nl |-> line.nl]
            /\ \A i \in 1..(Len(L[t]) - 1) : M[t][i] = L[t][i]
            /\ ~L[t][Len(L[t])].nl
    <2> DEFINE W == Write(L[t], line)
    <2>1. /\ Terminated(L[t]) =>
                /\ Len(W) = Len(L[t]) + 1
                /\ W[Len(L[t]) + 1] = line
                /\ \A i \in 1..Len(L[t]) : W[i] = L[t][i]
          /\ ~Terminated(L[t]) =>
                /\ Len(W) = Len(L[t]) /\ Len(L[t]) \in 1..Len(L[t])
                /\ W[Len(L[t])] = [text |-> Junk, nl |-> line.nl]
                /\ \A i \in 1..(Len(L[t]) - 1) : W[i] = L[t][i]
                /\ ~L[t][Len(L[t])].nl
        BY <1>1, WriteIs
    <2>2. M[t] = W
        BY <1>1
    <2> HIDE DEF W
    <2> QED BY <2>1, <2>2
<1>3. Len(L[t]) \in Nat
    BY <1>1
<1>4. ASSUME NEW s \in Segments, NEW i \in 1..Len(L[s])
      PROVE  /\ i \in 1..Len(M[s])
             /\ L[s][i].nl \/ i < Len(L[s]) => M[s][i] = L[s][i]
             /\ i < Len(L[s]) => i < Len(M[s])
    <2>1. CASE s # t
        BY <1>1, <2>1
    <2>2. CASE s = t /\ Terminated(L[t])
        BY <1>2, <1>3, <2>2
    <2>3. CASE s = t /\ ~Terminated(L[t])
        <3>1. i \in 1..(Len(L[t]) - 1) \/ i = Len(L[t])
            BY <1>3, <2>3
        <3> QED BY <1>2, <1>3, <2>3, <3>1
    <2> QED BY <2>1, <2>2, <2>3
<1>5. ASSUME NEW s \in Segments, NEW i \in 1..Len(M[s])
      PROVE  \/ i \in 1..Len(L[s]) /\ M[s][i] = L[s][i] /\ (s = t => i < Len(M[t]))
             \/ /\ s = t /\ i = Len(M[t])
                /\ M[s][i] = IF Terminated(L[t]) THEN line ELSE [text |-> Junk, nl |-> line.nl]
    <2>1. CASE s # t
        BY <1>1, <2>1
    <2>2. CASE s = t /\ Terminated(L[t])
        <3>1. i = Len(L[t]) + 1 \/ i \in 1..Len(L[t])
            BY <1>2, <1>3, <2>2
        <3> QED BY <1>2, <1>3, <2>2, <3>1
    <2>3. CASE s = t /\ ~Terminated(L[t])
        <3>1. i \in 1..(Len(L[t]) - 1) \/ i = Len(L[t])
            BY <1>2, <1>3, <2>3
        <3> QED BY <1>2, <1>3, <2>3, <3>1
    <2> QED BY <2>1, <2>2, <2>3
<1>6. Len(M[t]) \in 1..Len(M[t])
    BY <1>2, <1>3
<1> QED BY <1>2, <1>4, <1>5, <1>6 DEF M

\* What was written stays written, and a ruined record stays ruined.
LEMMA PutKeeps ==
    ASSUME NEW L \in LogLines, NEW t \in Segments, NEW line \in Line
    PROVE  /\ \A x : OnFile(L, x) => OnFile(Put(L, t, line), x)
           /\ Ruined(L) => Ruined(Put(L, t, line))
           /\ line.nl => OnFile(Put(L, t, line), line.text) \/ Ruined(Put(L, t, line))
           /\ line.nl /\ ~Terminated(L[t]) => Ruined(Put(L, t, line))
<1> DEFINE M == Put(L, t, line)
<1>1. /\ \A s \in Segments : \A i \in 1..Len(L[s]) :
            /\ i \in 1..Len(M[s])
            /\ L[s][i].nl \/ i < Len(L[s]) => M[s][i] = L[s][i]
            /\ i < Len(L[s]) => i < Len(M[s])
      /\ Len(M[t]) \in 1..Len(M[t])
    BY PutLines
<1>2. M[t][Len(M[t])] = IF Terminated(L[t]) THEN line ELSE [text |-> Junk, nl |-> line.nl]
    <2>1. \A i \in 1..Len(M[t]) :
                \/ i \in 1..Len(L[t]) /\ M[t][i] = L[t][i] /\ i < Len(M[t])
                \/ M[t][i] = IF Terminated(L[t]) THEN line ELSE [text |-> Junk, nl |-> line.nl]
        BY PutLines
    <2>2. Len(M[t]) \in 1..Len(M[t]) /\ ~(Len(M[t]) < Len(M[t]))
        BY <1>1
    <2> HIDE DEF M
    <2> QED BY <2>1, <2>2
<1> HIDE DEF M
<1>3. \A x : OnFile(L, x) => OnFile(M, x)
    BY <1>1 DEF OnFile
<1>4. Ruined(L) => Ruined(M)
    BY <1>1 DEF Ruined
<1>5. line.nl => OnFile(M, line.text) \/ Ruined(M)
    BY <1>1, <1>2 DEF OnFile, Ruined
<1>6. line.nl /\ ~Terminated(L[t]) => Ruined(M)
    BY <1>1, <1>2 DEF Ruined
<1> QED BY <1>3, <1>4, <1>5, <1>6 DEF M

\* Faults that struck stay on record.
LEMMA Suffering ==
    ASSUME [Next]_vars, NEW F
    PROVE  Spared(F)' => Spared(F)
<1>1. suffered \subseteq suffered'
    BY DEF Next, Open, BeginAppend, WriteLine, SyncDir, RecordHead, WriteFails, WriteAndSetLenFail,
           SyncDirFails, RecordHeadFails, Crash, PowerCut, CutTail, Interrupted, Suffer, vars
<1> QED BY <1>1 DEF Spared

Recorded ==
    /\ \A a \in acked : OnFile(lines, a)
    /\ step \in {"syncdir", "head"} => OnFile(lines, Newest)
    /\ head # NoHead => \E e \in Event : OnFile(lines, e) /\ e.seq = head.seq /\ e.hash = head.hash

AckInv ==
    Spared({"cut", "power"}) =>
        /\ up => acked \subseteq ToSet(Base)
        /\ Ruined(lines) \/ Recorded

\* A ruined record does not open.
LEMMA RuinRefused ==
    ASSUME TypeInv
    PROVE  Openable => ~Ruined(lines)
<1> SUFFICES ASSUME Openable, NEW s \in Segments, NEW i \in 1..Len(lines[s]),
                    lines[s][i].text = Junk, lines[s][i].nl \/ i < Len(lines[s])
             PROVE  FALSE
    BY DEF Ruined
<1>1. i \in 1..Len(KeptLines[s]) \/ (i = Len(lines[s]) /\ ~lines[s][i].nl)
    BY KeptIs DEF TypeInv
<1>2. i \in 1..Len(KeptLines[s])
    <2>1. Len(lines[s]) \in Nat /\ ~(Len(lines[s]) < Len(lines[s]))
        BY UnderWay, SaidIs
    <2> QED BY <1>1, <2>1
<1>3. KeptLines[s][i] = lines[s][i] /\ KeptLines[s][i].text # Junk
    BY <1>2, KeptIs DEF TypeInv
<1> QED BY <1>3

\* What a step that writes or leaves the lines keeps.
LEMMA AckKeeps ==
    ASSUME TypeInv, AckInv, Spared({"cut", "power"}),
           \/ lines' = lines
           \/ \E line \in Writable : Wrote(line),
           UNCHANGED <<head, acked>>, Base' = Base \/ ~up', up' => up,
           step' \in {"syncdir", "head"} =>
                \/ step \in {"syncdir", "head"} /\ Newest' = Newest
                \/ OnFile(lines', Newest') \/ Ruined(lines')
    PROVE  AckInv'
<1>1. /\ \A x : OnFile(lines, x) => OnFile(lines', x)
      /\ Ruined(lines) => Ruined(lines')
    <2>1. CASE lines' = lines
        BY <2>1
    <2>2. ASSUME NEW line \in Writable, Wrote(line)
          PROVE  /\ \A x : OnFile(lines, x) => OnFile(lines', x)
                 /\ Ruined(lines) => Ruined(lines')
        <3>1. lines \in LogLines /\ Target \in Segments /\ line \in Line /\ lines' = Put(lines, Target, line)
            BY <2>2, UnderWay DEF Wrote
        <3> QED BY <3>1, PutKeeps
    <2> QED BY <2>1, <2>2
<1>2. up' => (acked \subseteq ToSet(Base))'
    BY DEF AckInv
<1>3. Ruined(lines') \/ Recorded'
    <2>1. CASE Ruined(lines)
        BY <1>1, <2>1
    <2>2. CASE Recorded
        BY <1>1, <2>2 DEF Recorded
    <2> QED BY <2>1, <2>2 DEF AckInv
<1> QED BY <1>2, <1>3 DEF AckInv

\* open reads every acknowledged event that is still on a line of its own.
LEMMA AckOpen == TypeInv /\ EventInv /\ HardInv /\ AckInv /\ Spared({"cut", "power"}) /\ TypeInv' /\ Open => AckInv'
<1> SUFFICES ASSUME TypeInv, AckInv, Spared({"cut", "power"}), Open PROVE AckInv'
    OBVIOUS
<1>1. /\ lines' = KeptLines /\ KeptLines \in LogLines
      /\ Told' \in [Segments -> Seq(Event)]
      /\ Base' = chain' /\ chain' = Flat(Told')
      /\ step' = "idle"
      /\ UNCHANGED <<head, acked>>
    BY OpenIs
<1>2. Recorded
    <2>1. Openable
        BY DEF Open
    <2> QED BY <2>1, RuinRefused DEF AckInv
<1>3. \A x : OnFile(lines, x) => OnFile(lines', x)
    <2> SUFFICES ASSUME NEW x, OnFile(lines, x) PROVE OnFile(KeptLines, x)
        BY <1>1
    <2> PICK s \in Segments : \E i \in 1..Len(lines[s]) : lines[s][i].text = x /\ lines[s][i].nl
        BY DEF OnFile
    <2> PICK i \in 1..Len(lines[s]) : lines[s][i].text = x /\ lines[s][i].nl
        OBVIOUS
    <2>1. i \in 1..Len(KeptLines[s])
        BY KeptIs DEF TypeInv
    <2>2. KeptLines[s][i] = lines[s][i]
        BY <2>1, KeptIs DEF TypeInv
    <2> QED BY <2>1, <2>2 DEF OnFile
<1>4. Recorded'
    BY <1>1, <1>2, <1>3 DEF Recorded
<1>5. acked \subseteq ToSet(chain')
    <2> SUFFICES ASSUME NEW a \in acked PROVE a \in ToSet(chain')
        OBVIOUS
    <2> DEFINE G == Told'
    <2>1. OnFile(KeptLines, a)
        BY <1>1, <1>2, <1>3 DEF Recorded
    <2>2. PICK s \in Segments : \E i \in 1..Len(KeptLines[s]) : KeptLines[s][i].text = a
        BY <2>1 DEF OnFile
    <2>3. PICK i \in 1..Len(KeptLines[s]) : KeptLines[s][i].text = a
        BY <2>2
    <2>4. i \in 1..Len(G[s]) /\ G[s][i] = a
        BY <1>1, <2>3, SaidIs DEF Told
    <2> HIDE DEF G
    <2>5. /\ IsLog(G) /\ Weighs(G, Before(G)) /\ Len(Flat(G)) = Before(G)[N]
          /\ Flat(G)[Before(G)[s] + i] = G[s][i]
        <3>1. G \in [Segments -> Seq(Event)]
            BY <1>1 DEF G
        <3> QED BY <2>4, <3>1, FlatIs
    <2> DEFINE w == Before(G)
               n == w[s] + i
    <2>6. n \in 1..w[N]
        <3> HIDE DEF w
        <3> QED BY <2>4, <2>5, OnePlace DEF w
    <2> HIDE DEF w, n
    <2>7. chain'[n] = a /\ n \in 1..Len(chain')
        BY <1>1, <2>4, <2>5, <2>6 DEF G, w, n
    <2> QED BY <2>7 DEF ToSet
<1> QED BY <1>1, <1>4, <1>5 DEF AckInv

\* No step but a cut or a power cut loses an acknowledged event.
LEMMA AckInvStep ==
    TypeInv /\ EventInv /\ HardInv /\ AckInv /\ TypeInv' /\ EventInv' /\ [Next]_vars => AckInv'
<1> SUFFICES ASSUME TypeInv, EventInv, HardInv, AckInv, TypeInv', EventInv', [Next]_vars, Spared({"cut", "power"})'
             PROVE  AckInv'
    BY DEF AckInv
<1>0. Spared({"cut", "power"})
    BY Suffering
<1>1. CASE Open
    BY <1>0, <1>1, AckOpen
<1>2. CASE BeginAppend
    <2>1. /\ step = "idle" /\ step' = "write" /\ chain' = Append(chain, NextEvent) /\ lines' = lines
          /\ UNCHANGED <<head, acked, up>> /\ attempts < MaxAppends
        BY <1>2 DEF BeginAppend, disk
    <2>2. Base' = Base
        <3>1. NextEvent \in Event /\ chain \in Seq(Event)
            BY <2>1, NextEventIs DEF TypeInv, TypeOK
        <3>2. Front(Append(chain, NextEvent)) = chain
            BY <3>1, FrontAppend
        <3> QED BY <2>1, <3>2 DEF Base
    <2> QED BY <1>0, <2>1, <2>2, AckKeeps
<1>3. CASE WriteLine
    <2>1. FullLine \in Writable /\ Wrote(FullLine) /\ UNCHANGED <<chain, up, head, acked>>
          /\ step = "write" /\ step' \in {"syncdir", "head"}
        BY <1>3 DEF WriteLine, Wrote, Writable, Put
    <2>2. Base' = Base /\ Newest' = Newest
        BY <2>1 DEF Base, Newest
    <2>3. OnFile(lines', Newest) \/ Ruined(lines')
        <3>1. /\ lines \in LogLines /\ Target \in Segments /\ FullLine \in Line
              /\ FullLine.nl /\ FullLine.text = Newest /\ lines' = Put(lines, Target, FullLine)
            BY <2>1, UnderWay DEF Wrote
        <3> QED BY <3>1, PutKeeps
    <2> QED BY <1>0, <2>1, <2>2, <2>3, AckKeeps
<1>4. CASE SyncDir
    <2>1. UNCHANGED <<up, chain>> /\ Base' = Base /\ Newest' = Newest
        BY <1>4 DEF SyncDir, Base, Newest
    <2> QED BY <1>0, <1>4, <2>1, AckKeeps DEF SyncDir
<1>5. CASE RecordHead
    <2>1. /\ step = "head" /\ step' = "idle" /\ acked' = acked \cup {Newest}
          /\ head' = IF verdict = "diverged" THEN head ELSE [seq |-> Newest.seq, hash |-> Newest.hash]
          /\ lines' = lines /\ chain' = chain /\ up' = up
        BY <1>5 DEF RecordHead
    <2>2. Newest \in ToSet(chain) /\ ToSet(Base) \subseteq ToSet(chain)
        BY <2>1, Settled
    <2>3. Base' = chain
        BY <2>1 DEF Base
    <2>4. up' => (acked \subseteq ToSet(Base))'
        BY <1>0, <2>1, <2>2, <2>3 DEF AckInv
    <2>5. CASE Recorded
        <3>1. OnFile(lines, Newest) /\ Newest \in Event
            BY <2>1, <2>5, UnderWay DEF Recorded
        <3>2. \A a \in acked' : OnFile(lines, a)
            BY <2>1, <2>5, <3>1 DEF Recorded
        <3>3. head' # NoHead => \E e \in Event : OnFile(lines, e) /\ e.seq = head'.seq /\ e.hash = head'.hash
            <4>1. CASE verdict = "diverged"
                BY <2>1, <2>5, <4>1 DEF Recorded
            <4>2. CASE verdict # "diverged"
                BY <2>1, <3>1, <4>2
            <4> QED BY <4>1, <4>2
        <3>4. Recorded'
            BY <2>1, <3>2, <3>3 DEF Recorded
        <3> QED BY <2>4, <3>4 DEF AckInv
    <2>6. CASE Ruined(lines)
        BY <2>1, <2>4, <2>6 DEF AckInv
    <2> QED BY <1>0, <2>5, <2>6 DEF AckInv
<1>6. CASE WriteFails
    <2>1. UNCHANGED up /\ Base' = Base /\ step' = "idle"
        BY <1>6 DEF WriteFails, RollBack, RolledBack, Base
    <2> QED BY <1>0, <1>6, <2>1, AckKeeps DEF WriteFails
<1>7. CASE WriteAndSetLenFail
    <2>1. PICK line \in Landed \cup {Unended} : lines' = [lines EXCEPT ![Target] = Write(@, line)]
        BY <1>7 DEF WriteAndSetLenFail
    <2>2. line \in Writable /\ Wrote(line) /\ chain' = RolledBack /\ step' = "idle" /\ step = "write"
          /\ UNCHANGED up
        BY <1>7, <2>1 DEF WriteAndSetLenFail, RollBack, Landed, Writable, Partial, Put, Wrote
    <2>3. Base' = Base
        BY <2>2 DEF Base, RolledBack
    <2> QED BY <1>0, <2>2, <2>3, AckKeeps DEF Wrote
<1>8. CASE SyncDirFails
    <2>1. UNCHANGED up /\ Base' = Base /\ step' = "idle"
        BY <1>8 DEF SyncDirFails, RollBack, RolledBack, Base
    <2> QED BY <1>0, <1>8, <2>1, AckKeeps DEF SyncDirFails, disk
<1>9. CASE RecordHeadFails
    <2>1. /\ step = "head" /\ step' = "idle" /\ UNCHANGED <<lines, head, chain, acked, up>>
        BY <1>9 DEF RecordHeadFails, disk
    <2>2. Base' = chain /\ ToSet(Base) \subseteq ToSet(chain)
        BY <2>1, Settled DEF Base
    <2>3. up' => (acked \subseteq ToSet(Base))'
        BY <1>0, <2>1, <2>2 DEF AckInv
    <2>4. Recorded => Recorded'
        BY <2>1 DEF Recorded
    <2> QED BY <1>0, <2>1, <2>3, <2>4 DEF AckInv
<1>10. CASE Crash
    <2>1. ~up' /\ step' = "idle"
        BY <1>10, CrashIs DEF Down
    <2>2. CASE Lost /\ lines' = lines
        BY <1>0, <2>1, <2>2, AckKeeps DEF Lost
    <2>3. ASSUME NEW line \in Writable, Wrote(line) PROVE AckInv'
        BY <1>0, <2>1, <2>3, AckKeeps DEF Wrote
    <2> QED BY <1>10, <2>2, <2>3, CrashIs
<1>11. CASE PowerCut
    <2>1. "power" \in suffered'
        BY <1>11 DEF PowerCut, Suffer
    <2> QED BY <2>1 DEF Spared
<1>12. CASE CutTail
    <2>1. "cut" \in suffered'
        BY <1>12 DEF CutTail, Suffer
    <2> QED BY <2>1 DEF Spared
<1>13. CASE UNCHANGED vars
    <2>1. Base' = Base /\ Newest' = Newest
        BY <1>13 DEF vars, process, Base, Newest
    <2> QED BY <1>0, <1>13, <2>1, AckKeeps DEF vars, disk, process
<1> QED BY <1>1, <1>2, <1>3, <1>4, <1>5, <1>6, <1>7, <1>8, <1>9, <1>10, <1>11, <1>12, <1>13 DEF Next

\* Nothing is acknowledged in a new store.
LEMMA AckInvInit == Init => AckInv
<1> SUFFICES ASSUME Init PROVE AckInv
    OBVIOUS
<1> QED BY DEF Init, AckInv, Recorded

-----------------------------------------------------------------------------
(* Lines left in pieces, and segments begun before their time.               *)

\* Every line is an event and ends; or all but a last one, torn in both ways.
Complete(L) == \A s \in Segments : \A i \in 1..Len(L[s]) : L[s][i].nl /\ L[s][i].text # Junk
AtMostTorn(L) ==
    \A s \in Segments : \A i \in 1..Len(L[s]) :
        \/ L[s][i].nl /\ L[s][i].text # Junk
        \/ i = Len(L[s]) /\ ~L[s][i].nl /\ L[s][i].text = Junk

TermInv == Spared({"newline", "setlen"}) => AtMostTorn(lines) /\ (up => Complete(lines))

\* Complete lines let the next one start on its own.
LEMMA CompleteEnds ==
    ASSUME NEW L \in LogLines, Complete(L), NEW s \in Segments
    PROVE  Terminated(L[s])
<1>1. L[s] \in Seq(Line)
    BY DEF LogLines
<1>2. CASE L[s] # <<>>
    <2>1. Len(L[s]) \in 1..Len(L[s]) /\ Last(L[s]) = L[s][Len(L[s])]
        BY <1>1, <1>2, FrontLast
    <2> QED BY <2>1 DEF Complete, Terminated
<1> QED BY <1>2 DEF Terminated

\* The lines after a write, one by one.
LEMMA WroteLines ==
    ASSUME TypeInv, NEW line \in Writable, Wrote(line)
    PROVE  /\ lines \in LogLines /\ lines' \in LogLines /\ Target \in Segments
           /\ \A s \in Segments : s # Target => lines'[s] = lines[s]
           /\ \A s \in Segments : \A i \in 1..Len(lines'[s]) :
                \/ i \in 1..Len(lines[s]) /\ lines'[s][i] = lines[s][i]
                   /\ (s = Target => i < Len(lines'[Target]))
                \/ /\ s = Target /\ i = Len(lines'[Target])
                   /\ lines'[s][i] = IF Terminated(lines[Target]) THEN line
                                     ELSE [text |-> Junk, nl |-> line.nl]
           /\ Len(lines[Target]) \in Nat
           /\ Terminated(lines[Target]) => Len(lines'[Target]) = Len(lines[Target]) + 1
           /\ ~Terminated(lines[Target]) =>
                /\ Len(lines'[Target]) = Len(lines[Target])
                /\ Len(lines[Target]) \in 1..Len(lines[Target]) /\ ~lines[Target][Len(lines[Target])].nl
<1>1. lines \in LogLines /\ Target \in Segments /\ line \in Line /\ lines' = Put(lines, Target, line)
    BY UnderWay DEF Wrote
<1> DEFINE M == Put(lines, Target, line)
<1>2. M \in LogLines /\ \A s \in Segments : s # Target => M[s] = lines[s]
    BY <1>1, PutIs
<1>3. /\ \A s \in Segments : \A i \in 1..Len(M[s]) :
            \/ i \in 1..Len(lines[s]) /\ M[s][i] = lines[s][i]
               /\ (s = Target => i < Len(M[Target]))
            \/ /\ s = Target /\ i = Len(M[Target])
               /\ M[s][i] = IF Terminated(lines[Target]) THEN line ELSE [text |-> Junk, nl |-> line.nl]
      /\ Terminated(lines[Target]) => Len(M[Target]) = Len(lines[Target]) + 1
      /\ ~Terminated(lines[Target]) =>
            /\ Len(M[Target]) = Len(lines[Target])
            /\ Len(lines[Target]) \in 1..Len(lines[Target]) /\ ~lines[Target][Len(lines[Target])].nl
    BY <1>1, PutLines
<1>4. Len(lines[Target]) \in Nat
    BY <1>1 DEF LogLines
<1>5. lines' = M
    BY <1>1
<1> HIDE DEF M
<1> QED BY <1>1, <1>2, <1>3, <1>4, <1>5

\* A write onto complete lines.
LEMMA CompletePut ==
    ASSUME TypeInv, Complete(lines), NEW line \in {Partial, FullLine}, Wrote(line)
    PROVE  AtMostTorn(lines') /\ (line = FullLine => Complete(lines'))
<1>1. /\ lines \in LogLines /\ Target \in Segments /\ line \in Line /\ lines' = Put(lines, Target, line)
      /\ Newest \in Event
    BY UnderWay DEF Wrote
<1>2. Terminated(lines[Target])
    BY <1>1, CompleteEnds
<1>3. \A s \in Segments : \A i \in 1..Len(lines'[s]) :
            \/ i \in 1..Len(lines[s]) /\ lines'[s][i] = lines[s][i]
            \/ s = Target /\ i = Len(lines'[Target]) /\ lines'[s][i] = line
    <2>1. line \in Writable
        BY DEF Wrote
    <2> QED BY <1>2, <2>1, WroteLines
<1>4. (line.text = Junk /\ ~line.nl) \/ (line.text # Junk /\ line.nl)
    BY <1>1, ValuesAssumption DEF Partial, FullLine
<1>5. line = FullLine => line.nl /\ line.text # Junk
    BY <1>1, ValuesAssumption DEF FullLine
<1> QED BY <1>3, <1>4, <1>5 DEF Complete, AtMostTorn

\* Losing lines tears none.
LEMMA TornLost ==
    ASSUME TypeInv, AtMostTorn(lines), lines' \in LogLines,
           \A s \in Segments : /\ Len(lines'[s]) <= Len(lines[s])
                               /\ \A i \in 1..Len(lines'[s]) : lines'[s][i] = lines[s][i]
    PROVE  AtMostTorn(lines')
<1> SUFFICES ASSUME NEW s \in Segments, NEW i \in 1..Len(lines'[s])
             PROVE  \/ lines'[s][i].nl /\ lines'[s][i].text # Junk
                    \/ i = Len(lines'[s]) /\ ~lines'[s][i].nl /\ lines'[s][i].text = Junk
    BY DEF AtMostTorn
<1>1. Len(lines[s]) \in Nat /\ Len(lines'[s]) \in Nat
    BY UnderWay DEF LogLines
<1>2. i \in 1..Len(lines[s]) /\ (i = Len(lines[s]) => i = Len(lines'[s])) /\ lines'[s][i] = lines[s][i]
    BY <1>1
<1> QED BY <1>2 DEF AtMostTorn

\* Unless a newline is lost, no step leaves more than one line incomplete.
LEMMA TermInvStep == TypeInv /\ TermInv /\ [Next]_vars => TermInv'
<1> SUFFICES ASSUME TypeInv, TermInv, [Next]_vars, Spared({"newline", "setlen"})'
             PROVE  AtMostTorn(lines') /\ (up' => Complete(lines'))
    BY DEF TermInv
<1>0. AtMostTorn(lines) /\ (up => Complete(lines))
    BY Suffering DEF TermInv
<1>1. CASE Open
    <2>1. /\ lines' = KeptLines
          /\ \A s \in Segments : \A i \in 1..Len(KeptLines[s]) :
                i \in 1..Len(lines[s]) /\ KeptLines[s][i] = lines[s][i] /\ KeptLines[s][i].text # Junk
        BY <1>1, OpenIs, KeptIs DEF TypeInv, Open
    <2>2. Complete(lines')
        BY <1>0, <2>1 DEF Complete, AtMostTorn
    <2> QED BY <2>2 DEF Complete, AtMostTorn
<1>2. ASSUME lines' = lines, up' => up PROVE AtMostTorn(lines') /\ (up' => Complete(lines'))
    BY <1>0, <1>2
<1>3. CASE BeginAppend
    BY <1>2, <1>3 DEF BeginAppend, disk
<1>4. CASE WriteLine
    <2>1. Wrote(FullLine) /\ up
        BY <1>4, UnderWay DEF WriteLine, Wrote, Writable, Put
    <2> QED BY <1>0, <2>1, CompletePut
<1>5. CASE SyncDir
    BY <1>2, <1>5 DEF SyncDir
<1>6. CASE RecordHead
    BY <1>2, <1>6 DEF RecordHead
<1>7. CASE WriteFails
    BY <1>2, <1>7 DEF WriteFails
<1>8. CASE WriteAndSetLenFail
    <2>1. "setlen" \in suffered'
        BY <1>8 DEF WriteAndSetLenFail, Suffer
    <2> QED BY <2>1 DEF Spared
<1>9. CASE SyncDirFails
    BY <1>2, <1>9 DEF SyncDirFails, disk
<1>10. CASE RecordHeadFails
    BY <1>2, <1>10 DEF RecordHeadFails, disk
<1>11. ASSUME Lost, ~up' PROVE AtMostTorn(lines') /\ (up' => Complete(lines'))
    BY <1>0, <1>11, TornLost DEF Lost
<1>12. CASE Crash
    <2>1. up /\ ~up'
        BY <1>12, CrashIs DEF Down
    <2>2. ASSUME NEW line \in Writable, Wrote(line),
                 IF line = Unended THEN Suffer("newline") ELSE suffered' = suffered
          PROVE  AtMostTorn(lines')
        <3>1. line # Unended
            <4>1. Suffer("newline") => "newline" \in suffered'
                BY DEF Suffer
            <4> QED BY <2>2, <4>1 DEF Spared
        <3>2. line \in {Partial, FullLine}
            BY <3>1 DEF Writable
        <3> QED BY <1>0, <2>1, <2>2, <3>2, CompletePut
    <2> QED BY <1>11, <1>12, <2>1, <2>2, CrashIs
<1>13. CASE PowerCut
    <2>1. Lost /\ ~up'
        BY <1>13, PowerCutIs DEF Down
    <2> QED BY <1>11, <2>1
<1>14. CASE CutTail
    <2>1. Lost /\ ~up'
        BY <1>14, CutTailIs DEF process
    <2> QED BY <1>11, <2>1
<1>15. CASE UNCHANGED vars
    BY <1>2, <1>15 DEF vars, disk, process
<1> QED BY <1>1, <1>3, <1>4, <1>5, <1>6, <1>7, <1>8, <1>9, <1>10, <1>12, <1>13, <1>14, <1>15 DEF Next

\* A new store has no lines.
LEMMA TermInvInit == Init => TermInv
<1> SUFFICES ASSUME Init PROVE TermInv
    OBVIOUS
<1>1. \A s \in Segments : Len(lines[s]) = 0
    BY DEF Init
<1> QED BY <1>1 DEF TermInv, AtMostTorn, Complete

\* The chain the record has to have, once the line under way is in.
Now == IF step \in {"idle", "write"} THEN Base ELSE chain

\* A segment exists when those before it are full, and memory is not ahead of
\* the record; what is torn is in the newest segment.
Dated == \A s \in files : SegmentEvents * s <= Before(lines)[s]
Abreast == (\A q \in files : q <= Place) /\ Len(Now) <= Before(lines)[N]
TornLast ==
    \A s \in Segments : \A i \in 1..Len(lines[s]) :
        lines[s][i].text = Junk => s \in files /\ \A q \in files : q <= s

WeighInv == Spared({"newline", "setlen", "power"}) => Dated /\ (up => Abreast) /\ TornLast

\* Weights up to n depend on the segments below n.
LEMMA BeforeSame ==
    ASSUME NEW L \in LogLines, NEW M \in LogLines, NEW n \in 0..N,
           \A s \in Segments : s < n => Len(M[s]) = Len(L[s])
    PROVE  Before(M)[n] = Before(L)[n] /\ Before(L)[n] \in Nat
<1>1. /\ IsLog(L) /\ Weighs(L, Before(L)) /\ IsLog(M) /\ Weighs(M, Before(M))
    BY FlatIs DEF LogLines
<1>2. Before(M)[n] = Before(L)[n]
    BY <1>1, WeightsAgree
<1> QED BY <1>1, <1>2 DEF Weighs

\* No lines after the newest segment.
LEMMA BeforeEnd ==
    ASSUME NEW L \in LogLines, NEW t \in Segments, \A s \in Segments : s >= t => Len(L[s]) = 0
    PROVE  Before(L)[N] = Before(L)[t] /\ Before(L)[t] \in Nat
<1>1. /\ IsLog(L) /\ Weighs(L, Before(L))
    BY FlatIs DEF LogLines
<1>2. t \in 0..N
    BY SegmentsAre
<1>3. Before(L)[N] = Before(L)[t]
    BY <1>1, <1>2, WeightsEnd
<1> QED BY <1>1, <1>2, <1>3 DEF Weighs

\* The segment of the line under way is the newest, and those before are full.
LEMMA TargetDated ==
    ASSUME TypeInv, step = "write", Dated, Abreast
    PROVE  /\ Target \in Segments /\ SegmentEvents * Target <= Before(lines)[Target]
           /\ \A q \in files \cup {Target} : q <= Target
<1>1. /\ Target \in Segments /\ Target = Place /\ lines \in LogLines /\ Len(Base) \in Nat
    BY UnderWay
<1>2. Target \in Nat
    BY <1>1, SegmentsAre
<1>3. \A q \in files \cup {Target} : q <= Target
    BY <1>1, <1>2 DEF Abreast
<1>4. CASE Target \in files
    BY <1>1, <1>3, <1>4 DEF Dated
<1>5. CASE Target \notin files
    <2>1. ASSUME NEW s \in Segments, s >= Target PROVE Len(lines[s]) = 0
        <3>1. s \notin files
            <4>1. s \in Nat
                BY SegmentsAre
            <4> QED BY <1>2, <1>3, <1>5, <2>1, <4>1
        <3> QED BY <3>1 DEF TypeInv, TypeOK
    <2>2. Before(lines)[N] = Before(lines)[Target] /\ Before(lines)[Target] \in Nat
        BY <1>1, <2>1, BeforeEnd
    <2>3. Len(Base) <= Before(lines)[N]
        BY DEF Abreast, Now
    <2>4. SegmentEvents * Target <= Len(Base)
        BY <1>1, <1>2, SegmentBounds DEF Place
    <2> DEFINE x == SegmentEvents * Target
    <2>5. x \in Nat
        BY <1>2, BoundsAssumption
    <2>6. x <= Len(Base)
        BY <2>4
    <2> HIDE DEF x
    <2>7. x <= Before(lines)[Target]
        BY <1>1, <2>2, <2>3, <2>5, <2>6
    <2> QED BY <1>1, <1>3, <2>7 DEF x
<1> QED BY <1>4, <1>5

\* What a write onto a complete segment weighs.
LEMMA WeighPut ==
    ASSUME TypeInv, Complete(lines), NEW line \in Writable, Wrote(line)
    PROVE  /\ \A s \in Segments : s <= Target => Before(lines')[s] = Before(lines)[s]
           /\ Before(lines)[N] + 1 <= Before(lines')[N]
           /\ Before(lines)[N] \in Nat /\ Before(lines')[N] \in Nat
<1>1. /\ lines \in LogLines /\ Target \in Segments /\ line \in Line /\ lines' = Put(lines, Target, line)
    BY UnderWay DEF Wrote
<1>2. Terminated(lines[Target])
    BY <1>1, CompleteEnds
<1> DEFINE M == lines'
<1>3. /\ M \in LogLines /\ Len(M[Target]) = Len(lines[Target]) + 1
      /\ \A s \in Segments : s # Target => M[s] = lines[s]
    BY <1>1, <1>2, WroteLines
<1> HIDE DEF M
<1>4. Segments = 0..(N - 1) /\ N \in Nat
    BY SegmentsAre
<1>5. ASSUME NEW s \in Segments, s <= Target PROVE Before(M)[s] = Before(lines)[s]
    <2>1. s \in 0..N /\ \A q \in Segments : q < s => q # Target
        BY <1>1, <1>4, <1>5
    <2>2. \A q \in Segments : q < s => Len(M[q]) = Len(lines[q])
        BY <1>3, <2>1
    <2> QED BY <1>1, <1>3, <2>1, <2>2, BeforeSame
<1>6. /\ IsLog(lines) /\ Weighs(lines, Before(lines)) /\ IsLog(M) /\ Weighs(M, Before(M))
    BY <1>1, <1>3, FlatIs DEF LogLines
<1>7. \A s \in Segments : Len(lines[s]) <= Len(M[s]) + (IF s = Target THEN -1 ELSE 0)
    BY <1>1, <1>3 DEF LogLines
<1>8. -1 \in Int /\ N \in 0..N /\ N > Target
    BY <1>1, <1>4
<1>9. \A k \in 0..N : Before(lines)[k] <= Before(M)[k] + (IF k > Target THEN -1 ELSE 0)
    BY <1>1, <1>6, <1>7, <1>8, WeightsDiffer
<1>10. Before(lines)[N] \in Nat /\ Before(M)[N] \in Nat
    BY <1>6, <1>8 DEF Weighs
<1>11. Before(lines)[N] <= Before(M)[N] + -1
    BY <1>8, <1>9
<1>12. Before(lines)[N] + 1 <= Before(M)[N]
    BY <1>10, <1>11
<1> QED BY <1>1, <1>5, <1>10, <1>12 DEF M

\* A line put onto a complete record.
LEMMA WeighWrote ==
    ASSUME TypeInv, Complete(lines), Dated, Abreast, NEW line \in Writable, Wrote(line)
    PROVE  /\ Dated' /\ TornLast'
           /\ Base' = Base /\ Len(Now') \in Nat /\ Len(Now') <= Len(Base) + 1 => Abreast'
<1>1. /\ Target \in Segments /\ files' = files \cup {Target} /\ Target = Place /\ Len(Base) \in Nat
      /\ lines \in LogLines /\ line \in Line /\ lines' = Put(lines, Target, line) /\ step = "write"
    BY UnderWay DEF Wrote
<1>2. /\ SegmentEvents * Target <= Before(lines)[Target]
      /\ \A q \in files' : q <= Target
    BY <1>1, TargetDated
<1>3. /\ \A s \in Segments : s <= Target => Before(lines')[s] = Before(lines)[s]
      /\ Before(lines)[N] + 1 <= Before(lines')[N]
      /\ Before(lines)[N] \in Nat /\ Before(lines')[N] \in Nat
    BY WeighPut
<1>4. Dated'
    <2> SUFFICES ASSUME NEW s \in files' PROVE SegmentEvents * s <= Before(lines')[s]
        BY DEF Dated
    <2>1. s \in Segments /\ s <= Target
        BY <1>1, <1>2 DEF TypeInv, TypeOK
    <2>2. Before(lines')[s] = Before(lines)[s]
        BY <1>3, <2>1
    <2>3. CASE s = Target
        BY <1>2, <2>2, <2>3
    <2>4. CASE s # Target
        BY <1>1, <2>2, <2>4 DEF Dated
    <2> QED BY <2>3, <2>4
<1>5. TornLast'
    <2> SUFFICES ASSUME NEW s \in Segments, NEW i \in 1..Len(lines'[s]), lines'[s][i].text = Junk
                 PROVE  s = Target
        BY <1>1, <1>2 DEF TornLast
    <2>1. \/ i \in 1..Len(lines[s]) /\ lines'[s][i] = lines[s][i]
          \/ s = Target
        BY WroteLines
    <2> QED BY <2>1 DEF Complete
<1>6. ASSUME Base' = Base, Len(Now') \in Nat, Len(Now') <= Len(Base) + 1 PROVE Abreast'
    <2>1. Place' = Place
        BY <1>6 DEF Place
    <2>2. Len(Base) <= Before(lines)[N]
        BY <1>1 DEF Abreast, Now
    <2>3. Len(Now') <= Before(lines')[N]
        BY <1>1, <1>3, <1>6, <2>2
    <2> QED BY <1>1, <1>2, <2>1, <2>3 DEF Abreast
<1> QED BY <1>4, <1>5, <1>6

\* The lines stay, and at most the segment of the line under way is created.
LEMMA WeighKeeps ==
    ASSUME TypeInv, Dated, TornLast, up => Abreast, lines' = lines,
           \/ files' = files
           \/ files' = files \cup {Target} /\ step = "write" /\ Complete(lines),
           up' => /\ up /\ SegmentOf(Len(Base')) \in Nat /\ Len(Base) <= Len(Base')
                  /\ Len(Base') \in Nat /\ Len(Now') <= Len(Now)
                  /\ Len(Now) \in Nat /\ Len(Now') \in Nat
    PROVE  Dated' /\ TornLast' /\ (up' => Abreast')
<1>1. /\ Before(lines)[N] \in Nat /\ Place \in Segments /\ Len(Base) \in Nat
      /\ lines \in LogLines
    BY UnderWay
<1>2. step = "write" => up
    BY UnderWay
<1>3. step = "write" => /\ Target \in Segments /\ SegmentEvents * Target <= Before(lines)[Target]
                        /\ \A q \in files \cup {Target} : q <= Target
                        /\ Target = Place
    BY <1>2, TargetDated, UnderWay
<1>4. Dated'
    BY <1>3 DEF Dated
<1>5. TornLast'
    <2>1. CASE files' = files
        BY <2>1 DEF TornLast
    <2>2. CASE Complete(lines)
        BY <2>2 DEF TornLast, Complete
    <2> QED BY <2>1, <2>2
<1>6. ASSUME up' PROVE Abreast'
    <2>1. \A q \in files' : q <= Place
        BY <1>3, <1>6 DEF Abreast
    <2>2. Place <= Place'
        <3> DEFINE b == Len(Base')
        <3>1. b \in Nat /\ Len(Base) <= b /\ Place' = SegmentOf(b)
            BY <1>6 DEF Place
        <3> HIDE DEF b
        <3> QED BY <1>1, <3>1, SegmentsGrow DEF Place
    <2>3. files' \subseteq Segments /\ Segments \subseteq Nat /\ Place \in Nat /\ Place' \in Nat
        <3>1. files' \subseteq Segments
            BY <1>3 DEF TypeInv, TypeOK
        <3>2. Segments \subseteq Nat
            BY SegmentsAre
        <3>3. Place' \in Nat
            BY <1>6 DEF Place
        <3> QED BY <1>1, <3>1, <3>2, <3>3
    <2>4. \A q \in files' : q <= Place'
        BY <2>1, <2>2, <2>3
    <2>5. Len(Now') <= Before(lines')[N]
        BY <1>1, <1>6 DEF Abreast
    <2> QED BY <2>4, <2>5 DEF Abreast
<1> QED BY <1>4, <1>5, <1>6

\* Lines are lost from the newest segment, or it is, being empty.
LEMMA WeighCut ==
    ASSUME TypeInv, Dated, TornLast, CutTail
    PROVE  Dated' /\ TornLast'
<1>1. /\ Lost /\ Max(files) \in Segments /\ Max(files) \in files
      /\ \A s \in Segments : s # Max(files) => lines'[s] = lines[s]
      /\ files' \subseteq files
      /\ lines \in LogLines /\ lines' \in LogLines
    BY CutTailIs, UnderWay DEF Lost
<1>2. \A q \in files : q <= Max(files)
    BY <1>1, MaxIs DEF TypeInv, TypeOK
<1>3. Dated'
    <2> SUFFICES ASSUME NEW s \in files' PROVE SegmentEvents * s <= Before(lines')[s]
        BY DEF Dated
    <2>1. s \in files /\ s \in Segments /\ s <= Max(files)
        BY <1>1, <1>2 DEF TypeInv, TypeOK
    <2>2. s \in 0..N /\ Segments \subseteq Nat
        BY <2>1, SegmentsAre
    <2>3. \A q \in Segments : q < s => q # Max(files)
        BY <1>1, <2>1, <2>2
    <2>4. Before(lines')[s] = Before(lines)[s]
        BY <1>1, <2>2, <2>3, BeforeSame
    <2> QED BY <2>1, <2>4 DEF Dated
<1>4. TornLast'
    <2> SUFFICES ASSUME NEW s \in Segments, NEW i \in 1..Len(lines'[s]), lines'[s][i].text = Junk
                 PROVE  s \in files' /\ \A q \in files' : q <= s
        BY DEF TornLast
    <2>1. i \in 1..Len(lines[s]) /\ lines[s][i] = lines'[s][i]
        <3>1. Len(lines[s]) \in Nat /\ Len(lines'[s]) \in Nat
            BY <1>1 DEF LogLines
        <3> QED BY <1>1, <3>1 DEF Lost
    <2>2. s \in files /\ \A q \in files : q <= s
        BY <2>1 DEF TornLast
    <2>3. s \in files'
        <3> SUFFICES ASSUME s \notin files' PROVE FALSE
            OBVIOUS
        <3>1. lines'[s] = <<>>
            BY <1>1 DEF Lost
        <3> QED BY <3>1
    <2> QED BY <1>1, <2>2, <2>3
<1> QED BY <1>3, <1>4

\* open drops the torn line from the last segment, where the next event goes.
LEMMA WeighOpen ==
    ASSUME TypeInv, Dated, TornLast, Open, TypeInv'
    PROVE  Dated' /\ TornLast' /\ Abreast'
<1>1. /\ lines' = KeptLines /\ KeptLines \in LogLines /\ files' = files
      /\ Told' \in [Segments -> Seq(Event)]
      /\ Base' = chain' /\ chain' = Flat(Told') /\ Place' = SegmentOf(Len(chain'))
      /\ step' = "idle"
    BY OpenIs
<1>2. /\ lines \in LogLines
      /\ \A s \in Segments : ~(s \in files /\ TornTail(s)) => KeptLines[s] = lines[s]
      /\ \A s \in Segments : \A i \in 1..Len(KeptLines[s]) : KeptLines[s][i].text # Junk
    BY UnderWay, KeptIs DEF TypeInv, Open
<1>3. Len(chain') = Before(lines')[N] /\ Len(chain') \in Nat
    <2> DEFINE G == Told'
    <2>1. Len(Flat(G)) = Before(G)[N] /\ Flat(G) \in Seq(Event)
        <3>1. G \in [Segments -> Seq(Event)]
            BY <1>1
        <3> HIDE DEF G
        <3> QED BY <3>1, FlatIs
    <2>2. G = Said(KeptLines)
        BY <1>1 DEF Told
    <2>3. Before(G) = Before(KeptLines)
        BY <1>1, <2>2, SaidWeighs
    <2>4. chain' = Flat(G)
        BY <1>1
    <2> HIDE DEF G
    <2> QED BY <1>1, <2>1, <2>3, <2>4
<1>4. ASSUME NEW s \in files
      PROVE  SegmentEvents * s <= Before(lines')[s] /\ s \in Segments /\ s \in Nat
             /\ Before(lines')[s] \in Nat
    <2>1. s \in Segments /\ \A q \in Segments : q < s => ~(q \in files /\ TornTail(q))
        <3>1. files \subseteq Segments /\ files # {}
            BY <1>4 DEF TypeInv, TypeOK
        <3>2. s <= Max(files) /\ Max(files) \in files
            BY <1>4, <3>1, MaxIs
        <3>3. Segments \subseteq Nat
            BY SegmentsAre
        <3>4. \A q \in Segments : q < s => q # Max(files)
            BY <1>4, <3>1, <3>2, <3>3
        <3> QED BY <1>4, <3>1, <3>4 DEF TornTail
    <2>2. s \in 0..N /\ s \in Nat
        BY <2>1, SegmentsAre
    <2>3. Before(KeptLines)[s] = Before(lines)[s] /\ Before(lines)[s] \in Nat
        BY <1>1, <1>2, <2>1, <2>2, BeforeSame
    <2> QED BY <1>1, <1>4, <2>1, <2>2, <2>3 DEF Dated
<1>5. ASSUME NEW q \in files PROVE q <= Place'
    <2>1. q \in 0..N /\ N \in 0..N /\ q <= N
        BY <1>4, <1>5, SegmentsAre
    <2>2. Before(lines')[q] <= Before(lines')[N] /\ Before(lines')[N] \in Nat
        <3>1. IsLog(KeptLines) /\ Weighs(KeptLines, Before(KeptLines))
            BY <1>1, FlatIs DEF LogLines
        <3>2. Before(KeptLines)[q] <= Before(KeptLines)[N]
            BY <2>1, <3>1, WeightsGrow
        <3> QED BY <1>1, <1>3, <3>2
    <2> DEFINE x == SegmentEvents * q
    <2>3. x \in Nat
        BY <1>4, <1>5, BoundsAssumption
    <2>4. x <= Before(lines')[q]
        BY <1>4, <1>5
    <2> HIDE DEF x
    <2>5. x <= Before(lines')[N]
        BY <1>4, <1>5, <2>2, <2>3, <2>4
    <2> DEFINE b == Len(chain')
    <2>6. b \in Nat /\ x <= b /\ Place' = SegmentOf(b)
        BY <1>1, <1>3, <2>5
    <2> HIDE DEF b
    <2> QED BY <1>4, <1>5, <2>6, SegmentBounds DEF x
<1>6. Now' = chain'
    BY <1>1 DEF Now
<1>7. Abreast'
    BY <1>1, <1>3, <1>5, <1>6 DEF Abreast
<1>8. Dated'
    BY <1>1, <1>4 DEF Dated
<1>9. TornLast'
    BY <1>1, <1>2 DEF TornLast
<1> QED BY <1>7, <1>8, <1>9

\* The chain in memory, with and without the line under way.
LEMMA NowIs ==
    ASSUME TypeInv
    PROVE  /\ Len(Now) \in Nat /\ Len(Base) \in Nat /\ Len(chain) \in Nat /\ Len(Base) <= Len(chain)
           /\ SegmentOf(Len(Base)) \in Nat /\ SegmentOf(Len(chain)) \in Nat
           /\ step \in {"idle", "write"} => Now = Base
           /\ step \in {"syncdir", "head"} => Now = chain
           /\ step = "idle" => Now = chain
           /\ step # "idle" => Len(chain) = Len(Base) + 1
<1>1. /\ Len(Base) \in Nat /\ Len(chain) \in Nat /\ Len(Base) <= Len(chain)
      /\ step # "idle" => Len(chain) = Len(Base) + 1
    BY UnderWay
<1>2. SegmentOf(Len(Base)) \in Nat /\ SegmentOf(Len(chain)) \in Nat
    <2>1. 0 \in Nat
        OBVIOUS
    <2>2. \A n \in Nat : SegmentOf(n) \in Nat
        BY <2>1, SegmentBounds
    <2> QED BY <1>1, <2>2
<1> QED BY <1>1, <1>2 DEF Now, Base

\* The chain a step leaves is the one there was, with or without the new event.
LEMMA BaseKeeps ==
    ASSUME TypeInv, [Next]_vars, ~Open, up'
    PROVE  /\ up
           /\ Base' = Base \/ (step = "head" /\ step' = "idle" /\ Base' = chain)
<1>1. CASE BeginAppend
    <2>1. /\ step = "idle" /\ step' = "write" /\ chain' = Append(chain, NextEvent)
          /\ attempts < MaxAppends /\ up
        BY <1>1 DEF BeginAppend
    <2>2. NextEvent \in Event /\ chain \in Seq(Event)
        BY <2>1, NextEventIs DEF TypeInv, TypeOK
    <2>3. Front(Append(chain, NextEvent)) = chain
        BY <2>2, FrontAppend
    <2> QED BY <2>1, <2>3 DEF Base
<1>2. CASE WriteLine \/ SyncDir
    <2>1. step # "idle" /\ step' # "idle" /\ chain' = chain /\ up' = up
        BY <1>2 DEF WriteLine, SyncDir
    <2> QED BY <2>1 DEF Base
<1>3. CASE RecordHead \/ RecordHeadFails
    BY <1>3 DEF RecordHead, RecordHeadFails, Base
<1>4. CASE WriteFails \/ WriteAndSetLenFail \/ SyncDirFails
    BY <1>4 DEF WriteFails, WriteAndSetLenFail, SyncDirFails, RollBack, RolledBack, Base
<1>5. CASE Crash \/ PowerCut
    BY <1>5 DEF Crash, PowerCut, Down
<1>6. CASE CutTail
    BY <1>6 DEF CutTail, process
<1>7. CASE UNCHANGED vars
    BY <1>7 DEF vars, process, Base
<1> QED BY <1>1, <1>2, <1>3, <1>4, <1>5, <1>6, <1>7 DEF Next

\* No step begins a segment before the ones below it are full.
LEMMA WeighInvStep == TypeInv /\ TermInv /\ WeighInv /\ TypeInv' /\ [Next]_vars => WeighInv'
<1> SUFFICES ASSUME TypeInv, TermInv, WeighInv, TypeInv', [Next]_vars,
                    Spared({"newline", "setlen", "power"})'
             PROVE  Dated' /\ TornLast' /\ (up' => Abreast')
    BY DEF WeighInv
<1>0. /\ Dated /\ TornLast /\ (up => Abreast) /\ (up => Complete(lines))
    <2>1. Spared({"newline", "setlen", "power"})
        BY Suffering
    <2>2. Spared({"newline", "setlen"})
        BY <2>1 DEF Spared
    <2> QED BY <2>1, <2>2 DEF WeighInv, TermInv
<1> DEFINE Goal == Dated' /\ TornLast' /\ (up' => Abreast')
<1>1. ASSUME lines' = lines,
             \/ files' = files
             \/ files' = files \cup {Target} /\ step = "write",
             up' => /\ up
                    /\ \/ Base' = Base /\ (Now' = Base \/ Now' = Now)
                       \/ Base' = chain /\ Now' = chain /\ step = "head"
      PROVE  Goal
    <2>1. /\ Len(Now) \in Nat /\ Len(Base) \in Nat /\ Len(chain) \in Nat /\ Len(Base) <= Len(chain)
          /\ SegmentOf(Len(Base)) \in Nat /\ SegmentOf(Len(chain)) \in Nat
          /\ step = "head" => Now = chain
          /\ Len(Base) <= Len(Now)
        <3>1. Now = Base \/ Now = chain
            BY DEF Now
        <3> QED BY <3>1, NowIs
    <2>2. step = "write" => Complete(lines)
        BY <1>0, UnderWay
    <2>3. ASSUME up'
          PROVE  /\ up /\ SegmentOf(Len(Base')) \in Nat /\ Len(Base) <= Len(Base')
                 /\ Len(Base') \in Nat /\ Len(Now') <= Len(Now)
                 /\ Len(Now) \in Nat /\ Len(Now') \in Nat
        <3>1. CASE Base' = Base /\ Now' = Base
            BY <1>1, <2>1, <2>3, <3>1
        <3>2. CASE Base' = Base /\ Now' = Now
            BY <1>1, <2>1, <2>3, <3>2
        <3>3. CASE Base' = chain /\ Now' = chain /\ step = "head"
            BY <1>1, <2>1, <2>3, <3>3
        <3> QED BY <1>1, <2>3, <3>1, <3>2, <3>3
    <2> QED BY <1>0, <1>1, <2>2, <2>3, WeighKeeps
<1>2. CASE Open
    BY <1>0, <1>2, WeighOpen
<1>3. CASE BeginAppend
    <2>1. /\ step = "idle" /\ step' = "write" /\ UNCHANGED <<lines, files>> /\ up /\ ~Open
        BY <1>3 DEF BeginAppend, disk, Open
    <2>2. up' => Base' = Base /\ Now' = Base
        BY <2>1, BaseKeeps DEF Now
    <2> QED BY <1>1, <2>1, <2>2
<1>4. CASE WriteLine
    <2>1. /\ Wrote(FullLine) /\ FullLine \in Writable /\ up /\ step = "write" /\ step' \in {"syncdir", "head"}
          /\ chain' = chain
        BY <1>4, UnderWay DEF WriteLine, Wrote, Writable, Put
    <2>2. Base' = Base /\ Now' = chain
        BY <2>1 DEF Base, Now
    <2>3. Len(Now') \in Nat /\ Len(Now') <= Len(Base) + 1
        BY <2>1, <2>2, NowIs
    <2> QED BY <1>0, <2>1, <2>2, <2>3, WeighWrote
<1>5. CASE SyncDir
    <2>1. UNCHANGED <<up, chain, lines, files>> /\ step = "syncdir" /\ step' = "head"
        BY <1>5 DEF SyncDir
    <2>2. Base' = Base /\ Now' = Now
        BY <2>1 DEF Base, Now
    <2> QED BY <1>1, <2>1, <2>2
<1>6. CASE RecordHead \/ RecordHeadFails
    <2>1. UNCHANGED <<up, chain, lines, files>> /\ step = "head" /\ step' = "idle"
        BY <1>6 DEF RecordHead, RecordHeadFails, disk
    <2>2. Base' = chain /\ Now' = chain
        BY <2>1 DEF Base, Now
    <2> QED BY <1>1, <2>1, <2>2
<1>7. CASE WriteFails \/ SyncDirFails
    <2>1. /\ UNCHANGED <<up, lines>> /\ step # "idle" /\ step' = "idle" /\ chain' = RolledBack
          /\ files' = files \/ (files' = files \cup {Target} /\ step = "write")
        BY <1>7 DEF WriteFails, SyncDirFails, RollBack, disk
    <2>2. Base' = Base /\ Now' = Base
        BY <2>1 DEF Base, Now, RolledBack
    <2> QED BY <1>1, <2>1, <2>2
<1>8. CASE WriteAndSetLenFail
    <2>1. "setlen" \in suffered'
        BY <1>8 DEF WriteAndSetLenFail, Suffer
    <2> QED BY <2>1 DEF Spared
<1>9. CASE Crash
    <2>1. ~up' /\ up
        BY <1>9, CrashIs DEF Down
    <2>2. CASE UNCHANGED <<files, lines>>
        BY <1>1, <2>1, <2>2
    <2>3. CASE step = "write" /\ files' = files \cup {Target} /\ UNCHANGED lines
        BY <1>1, <2>1, <2>3
    <2>4. ASSUME NEW line \in Writable, Wrote(line) PROVE Goal
        BY <1>0, <2>1, <2>4, WeighWrote
    <2>5. \/ UNCHANGED <<files, lines>>
          \/ step = "write" /\ files' = files \cup {Target} /\ UNCHANGED lines
          \/ \E line \in Writable : Wrote(line)
        BY <1>9 DEF Crash, Interrupted, Wrote, Put, Writable, Landed, Partial
    <2> QED BY <2>2, <2>3, <2>4, <2>5
<1>10. CASE PowerCut
    <2>1. "power" \in suffered'
        BY <1>10 DEF PowerCut, Suffer
    <2> QED BY <2>1 DEF Spared
<1>11. CASE CutTail
    <2>1. ~up'
        BY <1>11 DEF CutTail, process
    <2> QED BY <1>0, <1>11, <2>1, WeighCut
<1>12. CASE UNCHANGED vars
    <2>1. UNCHANGED <<up, chain, lines, files, step>>
        BY <1>12 DEF vars, disk, process
    <2>2. Base' = Base /\ Now' = Now
        BY <2>1 DEF Base, Now
    <2> QED BY <1>1, <2>1, <2>2
<1> QED BY <1>2, <1>3, <1>4, <1>5, <1>6, <1>7, <1>8, <1>9, <1>10, <1>11, <1>12 DEF Next

\* A new store has no segments.
LEMMA WeighInvInit == Init => WeighInv
<1> SUFFICES ASSUME Init PROVE WeighInv
    OBVIOUS
<1>1. \A s \in Segments : Len(lines[s]) = 0
    BY DEF Init
<1> QED BY <1>1 DEF Init, WeighInv, Dated, TornLast

-----------------------------------------------------------------------------
(* Memory and file.                                                        *)

\* A line at the end of the log is the last of the chain.
LEMMA FlatWith ==
    ASSUME NEW G \in Log, NEW t \in Segments, NEW e \in Event \cup {Junk},
           \A s \in Segments : s > t => Len(G[s]) = 0
    PROVE  Flat(With(G, t, e)) = Append(Flat(G), e)
<1> DEFINE H == With(G, t, e)
           v == Before(G)
           w == Before(H)
           T == Event \cup {Junk}
           n == Len(G[t])
<1>1. /\ H \in Log /\ Len(H[t]) = n + 1 /\ H[t][n + 1] = e
      /\ \A s \in Segments : s # t => H[s] = G[s]
      /\ \A s \in Segments : \A i \in 1..Len(G[s]) : i \in 1..Len(H[s]) /\ H[s][i] = G[s][i]
      /\ \A s \in Segments : Len(G[s]) \in Nat
    BY WithIs
<1>2. G \in [Segments -> Seq(T)]
    BY DEF Log
<1> HIDE DEF H, T
<1>3. H \in [Segments -> Seq(T)]
    BY <1>1 DEF Log, T
<1>4. /\ IsLog(G) /\ Weighs(G, v) /\ Flat(G) \in Seq(T) /\ Len(Flat(G)) = v[N]
      /\ \A s \in Segments : \A i \in 1..Len(G[s]) : Flat(G)[v[s] + i] = G[s][i]
    BY <1>2, FlatIs
<1>5. /\ IsLog(H) /\ Weighs(H, w) /\ Flat(H) \in Seq(T) /\ Len(Flat(H)) = w[N]
      /\ \A s \in Segments : \A i \in 1..Len(H[s]) : Flat(H)[w[s] + i] = H[s][i]
    BY <1>3, FlatIs
<1> HIDE DEF v, w
<1>6. /\ Segments = 0..(N - 1) /\ N \in Nat /\ t \in 0..N /\ t + 1 \in 0..N /\ N \in 0..N
      /\ Segments \subseteq 0..N
    BY SegmentsAre
<1>7. ASSUME NEW s \in Segments, s <= t PROVE w[s] = v[s] /\ v[s] \in Nat
    <2>1. s \in 0..N /\ \A q \in Segments : q < s => q # t
        BY <1>6, <1>7
    <2>2. \A q \in Segments : q < s => Len(H[q]) = Len(G[q])
        BY <1>1, <2>1
    <2>3. w[s] = v[s]
        BY <1>4, <1>5, <2>1, <2>2, WeightsAgree
    <2> QED BY <1>4, <2>1, <2>3 DEF Weighs
<1>8. v[t + 1] = v[t] + n /\ w[t + 1] = w[t] + (n + 1) /\ n \in Nat
    BY <1>1, <1>4, <1>5 DEF Weighs
<1>9. v[N] = v[t + 1] /\ w[N] = w[t + 1]
    <2>1. \A s \in Segments : s >= t + 1 => s > t /\ s # t
        BY <1>6
    <2>2. \A s \in Segments : s >= t + 1 => Len(G[s]) = 0 /\ Len(H[s]) = 0
        BY <1>1, <2>1
    <2> QED BY <1>4, <1>5, <1>6, <2>2, WeightsEnd
<1>10. v[t] \in Nat /\ w[t] = v[t]
    <2>1. t <= t
        BY <1>6
    <2> QED BY <1>7, <2>1
<1>11. v[N] = v[t] + n /\ w[N] = v[N] + 1 /\ v[N] \in Nat
    BY <1>8, <1>9, <1>10
<1>12. e \in T
    BY DEF T
<1> DEFINE K == Append(Flat(G), e)
<1>13. /\ K \in Seq(T) /\ Len(K) = v[N] + 1 /\ K[v[N] + 1] = e
       /\ \A i \in 1..v[N] : K[i] = Flat(G)[i]
    BY <1>4, <1>12, AppendProperties
<1> HIDE DEF K
<1>14. ASSUME NEW i \in 1..w[N] PROVE Flat(H)[i] = K[i]
    <2>1. PICK s \in Segments : \E j \in 1..Len(H[s]) : i = w[s] + j
        BY <1>5, EveryPlace
    <2>2. PICK j \in 1..Len(H[s]) : i = w[s] + j
        BY <2>1
    <2>3. Flat(H)[i] = H[s][j]
        BY <1>5, <2>2
    <2>4. s <= t
        <3>1. s > t \/ s <= t
            BY <1>6
        <3>2. ~(s > t)
            <4> SUFFICES ASSUME s > t PROVE FALSE
                OBVIOUS
            <4>1. s # t
                BY <1>6
            <4>2. Len(H[s]) = 0
                BY <1>1, <4>1
            <4> QED BY <4>2
        <3> QED BY <3>1, <3>2
    <2>5. w[s] = v[s] /\ v[s] \in Nat
        BY <1>7, <2>4
    <2>6. CASE j \in 1..Len(G[s])
        <3>1. H[s][j] = G[s][j] /\ Flat(G)[v[s] + j] = G[s][j]
            BY <1>1, <1>4, <2>6
        <3>2. v[s] + j \in 1..v[N]
            BY <1>4, <2>6, OnePlace
        <3>3. i = v[s] + j
            BY <2>2, <2>5
        <3> QED BY <1>13, <2>3, <3>1, <3>2, <3>3
    <2>7. CASE ~(j \in 1..Len(G[s]))
        <3>1. s = t /\ j = n + 1
            <4>1. s = t
                BY <1>1, <2>7
            <4>2. j = n + 1
                BY <1>1, <1>8, <2>7, <4>1
            <4> QED BY <4>1, <4>2
        <3>2. i = v[N] + 1
            BY <1>8, <1>10, <1>11, <2>2, <3>1
        <3> QED BY <1>1, <1>13, <2>3, <3>1, <3>2
    <2> QED BY <2>6, <2>7
<1>15. Flat(H) = K
    <2>1. Len(Flat(H)) = w[N] /\ Len(K) = w[N]
        BY <1>5, <1>11, <1>13
    <2> QED BY <1>5, <1>13, <1>14, <2>1, SeqEqual
<1> QED BY <1>15 DEF H, K

FileInv == up /\ Spared({"newline", "setlen", "syncdir", "power"}) => Now = Flat(Told)

\* Every step that changes the file changes the chain with it, or rolls it back.
LEMMA FileInvStep == TypeInv /\ TermInv /\ WeighInv /\ FileInv /\ [Next]_vars => FileInv'
<1> SUFFICES ASSUME TypeInv, TermInv, WeighInv, FileInv, [Next]_vars, up',
                    Spared({"newline", "setlen", "syncdir", "power"})'
             PROVE  Now' = Flat(Told')
    BY DEF FileInv
<1>0. up => Complete(lines) /\ Abreast /\ Now = Flat(Told)
    <2>1. Spared({"newline", "setlen", "syncdir", "power"})
        BY Suffering
    <2>2. Spared({"newline", "setlen"}) /\ Spared({"newline", "setlen", "power"})
        BY <2>1 DEF Spared
    <2> QED BY <2>1, <2>2 DEF WeighInv, TermInv, FileInv
<1>1. CASE Open
    BY <1>1, OpenIs DEF Now
<1>2. ASSUME lines' = lines, up, Now' = Now PROVE Now' = Flat(Told')
    BY <1>0, <1>2 DEF Told
<1>3. CASE BeginAppend
    <2>1. up /\ lines' = lines /\ step = "idle" /\ step' = "write" /\ ~Open
        BY <1>3 DEF BeginAppend, disk, Open
    <2> QED BY <1>2, <2>1, BaseKeeps DEF Now
<1>4. CASE WriteLine
    <2>1. /\ Wrote(FullLine) /\ FullLine \in Writable /\ up /\ step = "write" /\ step' \in {"syncdir", "head"}
          /\ chain' = chain
        BY <1>4, UnderWay DEF WriteLine, Wrote, Writable, Put
    <2>2. /\ lines \in LogLines /\ Target \in Segments /\ Target = Place /\ FullLine \in Line
          /\ FullLine.text = Newest /\ Newest \in Event /\ chain = Append(Base, Newest)
        BY <2>1, UnderWay
    <2>3. Told' = With(Told, Target, Newest)
        <3>1. Terminated(lines[Target])
            BY <1>0, <2>1, <2>2, CompleteEnds
        <3>2. Said(Put(lines, Target, FullLine)) = With(Said(lines), Target, FullLine.text)
            BY <2>2, <3>1, PutIs
        <3> QED BY <2>1, <2>2, <3>2 DEF Told, Wrote
    <2>4. Told \in Log
        BY AroundIs
    <2>5. ASSUME NEW s \in Segments, s > Target PROVE Len(Told[s]) = 0
        <3>1. s \in Nat /\ Target \in Nat
            BY <2>2, SegmentsAre
        <3>2. s \notin files
            <4>1. s \in files => s <= Target
                BY <1>0, <2>1, <2>2 DEF Abreast
            <4> QED BY <2>5, <3>1, <4>1
        <3>3. Len(lines[s]) = 0
            BY <3>2 DEF TypeInv, TypeOK
        <3> QED BY <2>2, <3>3, SaidIs DEF Told
    <2>6. Flat(With(Told, Target, Newest)) = Append(Flat(Told), Newest)
        BY <2>2, <2>4, <2>5, FlatWith
    <2>7. Base = Flat(Told)
        BY <1>0, <2>1 DEF Now
    <2>8. Now' = chain
        BY <2>1 DEF Now
    <2> QED BY <2>2, <2>3, <2>6, <2>7, <2>8
<1>5. CASE SyncDir
    <2>1. UNCHANGED <<up, chain, lines>> /\ step = "syncdir" /\ step' = "head"
        BY <1>5 DEF SyncDir
    <2> QED BY <1>2, <2>1 DEF Now
<1>6. CASE RecordHead \/ RecordHeadFails
    <2>1. UNCHANGED <<up, chain, lines>> /\ step = "head" /\ step' = "idle"
        BY <1>6 DEF RecordHead, RecordHeadFails, disk
    <2> QED BY <1>2, <2>1 DEF Now, Base
<1>7. CASE WriteFails
    <2>1. UNCHANGED <<up, lines>> /\ step = "write" /\ step' = "idle" /\ chain' = RolledBack
        BY <1>7 DEF WriteFails, RollBack
    <2> QED BY <1>2, <2>1 DEF Now, Base, RolledBack
<1>8. CASE WriteAndSetLenFail
    <2>1. "setlen" \in suffered'
        BY <1>8 DEF WriteAndSetLenFail, Suffer
    <2> QED BY <2>1 DEF Spared
<1>9. CASE SyncDirFails
    <2>1. "syncdir" \in suffered'
        BY <1>9 DEF SyncDirFails, Suffer
    <2> QED BY <2>1 DEF Spared
<1>10. CASE Crash \/ PowerCut \/ CutTail
    BY <1>10 DEF Crash, PowerCut, CutTail, Down, process
<1>11. CASE UNCHANGED vars
    BY <1>2, <1>11 DEF vars, disk, process, Now, Base
<1> QED BY <1>1, <1>3, <1>4, <1>5, <1>6, <1>7, <1>8, <1>9, <1>10, <1>11 DEF Next

\* Between appends, an undamaged record replays to the chain in memory.
LEMMA WholeKept ==
    ASSUME TypeInv, Complete(lines)
    PROVE  Openable /\ Replayed = Flat(Told)
<1>1. /\ lines \in LogLines /\ KeptLines \in LogLines
      /\ \A s \in Segments : ~(s \in files /\ TornTail(s)) => KeptLines[s] = lines[s]
      /\ Replayed = Flat(Said(KeptLines))
      /\ Openable <=> \A s \in Segments : \A i \in 1..Len(KeptLines[s]) : KeptLines[s][i].text # Junk
    BY UnderWay, KeptIs DEF TypeInv
<1>2. \A s \in Segments : Terminated(lines[s])
    BY <1>1, CompleteEnds
<1>3. \A s \in Segments : KeptLines[s] = lines[s]
    BY <1>1, <1>2 DEF TornTail
<1>4. KeptLines = lines
    BY <1>1, <1>3 DEF LogLines
<1>5. Openable
    BY <1>1, <1>3 DEF Complete
<1> QED BY <1>1, <1>4, <1>5 DEF Told

-----------------------------------------------------------------------------
(* No false alarm.                                                         *)

\* All verifies but for a torn last line.
Whole(G) ==
    \E m \in Vector :
        /\ Verified(G, m)
        /\ \A s \in Segments : \/ m[s] = Len(G[s])
                               \/ m[s] = Len(G[s]) - 1 /\ G[s][Len(G[s])] = Junk

FalseInv ==
    Spared({"cut", "power", "syncdir", "setlen"}) =>
        /\ up => /\ Verifies(Base) /\ verdict # "diverged"
                 /\ Ruined(lines) \/ Tight(Told, Now)
        /\ ~up => Ruined(lines) \/ Whole(Told)

\* A log that is the chain, event by event, verifies from end to end.
LEMMA TightIsWhole ==
    ASSUME NEW G \in Log, NEW K, Tight(G, K)
    PROVE  Whole(G) /\ Full(G) \in Vector /\ Verified(G, Full(G))
<1>1. Full(G) \in Vector /\ Verified(G, Full(G))
    BY DEF Tight, Verified
<1>2. \A s \in Segments : Full(G)[s] = Len(G[s])
    BY DEF Full
<1> QED BY <1>1, <1>2 DEF Whole

\* What verifies does so without its last event.
LEMMA ShorterVerifies ==
    ASSUME NEW G \in Log, NEW m \in Vector, Verified(G, m), NEW t \in Segments, m[t] > 0,
           \A q \in Segments : t < q => m[q] = 0,
           NEW k \in Vector, k[t] = m[t] - 1, \A s \in Segments : s # t => k[s] = m[s]
    PROVE  Verified(G, k)
<1>1. \A s \in Segments : m[s] \in Nat /\ k[s] \in Nat /\ k[s] <= m[s] /\ s \in Nat
    BY SegmentsAre DEF Vector
<1>2. Within(G, k)
    <2> SUFFICES ASSUME NEW s \in Segments
                 PROVE  k[s] <= Len(G[s]) /\ \A i \in 1..k[s] : G[s][i] # Junk
        BY DEF Within
    <2>1. m[s] <= Len(G[s]) /\ \A i \in 1..m[s] : G[s][i] # Junk
        BY DEF Verified, Within
    <2>2. Len(G[s]) \in Nat
        BY DEF Log
    <2> QED BY <1>1, <2>1, <2>2
<1>3. ASSUME NEW s \in Segments, NEW i \in 1..k[s] PROVE Linked(G, k, s, i)
    <2>1. i \in 1..m[s] /\ Linked(G, m, s, i)
        BY <1>1 DEF Verified
    <2>2. s <= t
        <3> SUFFICES ASSUME t < s PROVE FALSE
            BY <1>1
        <3>1. m[s] = 0
            BY <1>1
        <3> QED BY <2>1, <3>1
    <2>3. \A q \in Segments : q < t => k[q] = m[q]
        BY <1>1
    <2>4. /\ First(m, s, i) <=> First(k, s, i)
          /\ \A r \in Segments : \A j \in Nat : Prior(m, s, i, r, j) <=> Prior(k, s, i, r, j)
          /\ \A r \in Segments : \A j \in Nat : Prior(m, s, i, r, j) => r = s \/ r < t
        BY <2>1, <2>2, <2>3, OffLast
    <2>5. CASE First(m, s, i) /\ G[s][i].prev = Genesis
        BY <2>4, <2>5 DEF Linked
    <2>6. ASSUME NEW r \in Segments, NEW j \in 1..m[r], Prior(m, s, i, r, j), G[s][i].prev = G[r][j].hash
          PROVE  Linked(G, k, s, i)
        <3>1. j \in 1..k[r]
            <4>1. CASE r = s
                <5>1. j = i - 1 \/ r < s
                    BY <2>6 DEF Prior
                <5> QED BY <1>1, <2>1, <4>1, <5>1
            <4>2. CASE r # s
                <5>1. r < t
                    BY <2>4, <2>6, <4>2
                <5>2. r # t
                    BY <1>1, <5>1
                <5> QED BY <5>2
            <4> QED BY <4>1, <4>2
        <3>2. Prior(k, s, i, r, j)
            BY <2>4, <2>6
        <3> QED BY <2>6, <3>1, <3>2 DEF Linked
    <2> QED BY <2>1, <2>5, <2>6 DEF Linked
<1> QED BY <1>2, <1>3 DEF Verified

\* A write onto a record that is the chain.
LEMMA FalseWrote ==
    ASSUME TypeInv, EventInv, HardInv, NEW line \in Writable, Wrote(line),
           Ruined(lines) \/ Tight(Told, Base)
    PROVE  /\ Ruined(lines') \/ Whole(Told')
           /\ line.nl => Ruined(lines') \/ Tight(Told', chain)
<1> DEFINE G == Told
           H == Told'
           t == Target
           m == Full(G)
<1>1. /\ G \in Log /\ H \in Log /\ t \in Segments /\ up /\ step = "write" /\ t = Place
      /\ Newest \in Event /\ chain = Append(Base, Newest)
      /\ line \in Line /\ lines' = Put(lines, Target, line) /\ lines \in LogLines /\ lines' \in LogLines
      /\ line.text = Newest \/ line = Partial
    BY UnderWay, WroteTold DEF Wrote
<1>2. /\ Ruined(lines) => Ruined(lines')
      /\ line.nl /\ ~Terminated(lines[t]) => Ruined(lines')
    <2>1. /\ Ruined(lines) => Ruined(Put(lines, Target, line))
          /\ line.nl /\ ~Terminated(lines[Target]) => Ruined(Put(lines, Target, line))
        BY <1>1, PutKeeps
    <2> QED BY <1>1, <2>1
<1>3. CASE Ruined(lines)
    BY <1>2, <1>3
<1>4. CASE Tight(G, Base)
    <2>1. /\ m \in Vector /\ Verified(G, m)
          /\ \A s \in Segments : m[s] = Len(G[s]) /\ Len(G[s]) \in Nat
        <3>1. m \in Vector /\ Verified(G, m)
            <4> HIDE DEF G
            <4> QED BY <1>1, <1>4, TightIsWhole
        <3>2. \A s \in Segments : m[s] = Len(G[s])
            BY DEF Full
        <3>3. \A s \in Segments : Len(G[s]) \in Nat
            <4> HIDE DEF G
            <4> QED BY <1>1 DEF Log
        <3> QED BY <3>1, <3>2, <3>3
    <2>2. Reaches(G, t) /\ ChainPos
        BY <1>1 DEF HardInv, Live
    <2>3. \A q \in Segments : t < q => m[q] = 0
        BY <2>1, <2>2 DEF Reaches
    <2>4. /\ \A s \in Segments : s # t => lines'[s] = lines[s]
          /\ \A s \in Segments : \A i \in 1..Len(lines'[s]) :
                \/ i \in 1..Len(lines[s]) /\ lines'[s][i] = lines[s][i] /\ (s = t => i < Len(lines'[t]))
                \/ /\ s = t /\ i = Len(lines'[t])
                   /\ lines'[s][i] = IF Terminated(lines[t]) THEN line ELSE [text |-> Junk, nl |-> line.nl]
          /\ Terminated(lines[t]) => Len(lines'[t]) = Len(lines[t]) + 1
          /\ ~Terminated(lines[t]) => Len(lines'[t]) = Len(lines[t]) /\ Len(lines[t]) \in 1..Len(lines[t])
        BY WroteLines
    <2>5. \A s \in Segments : /\ Len(G[s]) = Len(lines[s]) /\ Len(H[s]) = Len(lines'[s])
                              /\ Len(lines[s]) \in Nat /\ Len(lines'[s]) \in Nat
                              /\ \A i \in 1..Len(lines[s]) : G[s][i] = lines[s][i].text
                              /\ \A i \in 1..Len(lines'[s]) : H[s][i] = lines'[s][i].text
        BY <1>1, SaidIs DEF Told
    <2>6. CASE Terminated(lines[t]) /\ line.text = Newest
        <3>1. H = With(G, t, Newest)
            <4>1. Said(Put(lines, Target, line)) = With(Said(lines), Target, line.text)
                BY <1>1, <2>6, PutIs
            <4> QED BY <1>1, <2>6, <4>1 DEF Told
        <3>2. Extends(G, Base, Newest)
            BY <1>1, <2>2, NewestExtends
        <3> HIDE DEF G, H, t, m
        <3>3. Tight(H, Append(Base, Newest))
            BY <1>1, <1>4, <2>2, <3>1, <3>2, WithTight
        <3> QED BY <1>1, <3>3, TightIsWhole DEF H
    <2> HIDE DEF G, H, t, m
    <2>7. CASE Terminated(lines[t]) /\ line = Partial
        <3>1. \A s \in Segments : \A i \in 1..m[s] : i \in 1..Len(H[s]) /\ G[s][i] = H[s][i]
            <4> SUFFICES ASSUME NEW s \in Segments, NEW i \in 1..m[s]
                         PROVE  i \in 1..Len(H[s]) /\ G[s][i] = H[s][i]
                OBVIOUS
            <4>1. i \in 1..Len(lines[s]) /\ Len(lines[s]) <= Len(lines'[s])
                BY <2>1, <2>4, <2>5, <2>7
            <4>2. i \in 1..Len(lines'[s]) /\ (s = t => i # Len(lines'[t]))
                BY <2>4, <2>5, <2>7, <4>1
            <4>3. lines'[s][i] = lines[s][i]
                BY <2>4, <4>2
            <4> QED BY <2>5, <4>1, <4>2, <4>3
        <3>2. Verified(H, m)
            BY <1>1, <2>1, <3>1, SameVerifies
        <3>3. \A s \in Segments : s # t => m[s] = Len(H[s])
            BY <2>1, <2>4, <2>5
        <3>4. m[t] = Len(H[t]) - 1 /\ H[t][Len(H[t])] = Junk
            <4>1. Len(H[t]) = m[t] + 1 /\ m[t] \in Nat /\ Len(H[t]) = Len(lines'[t]) /\ Len(H[t]) = Len(lines[t]) + 1
                BY <1>1, <2>1, <2>4, <2>5, <2>7
            <4>2. Len(lines'[t]) \in 1..Len(lines'[t]) /\ ~(Len(lines'[t]) \in 1..Len(lines[t]))
                BY <4>1
            <4>3. lines'[t][Len(lines'[t])] = Partial
                BY <1>1, <2>4, <2>7, <4>2
            <4>4. H[t][Len(H[t])] = Partial.text
                <5>1. H[t][Len(lines'[t])] = lines'[t][Len(lines'[t])].text
                    BY <1>1, <2>5, <4>2
                <5> QED BY <4>1, <4>3, <5>1
            <4> QED BY <4>1, <4>4 DEF Partial
        <3>5. Whole(H)
            BY <2>1, <3>2, <3>3, <3>4 DEF Whole
        <3> QED BY <2>7, <3>5 DEF H, Partial
    <2>8. CASE ~Terminated(lines[t])
        <3> DEFINE k == [s \in Segments |-> IF s = t THEN m[t] - 1 ELSE m[s]]
        <3>1. m[t] > 0 /\ m[t] = Len(lines'[t]) /\ m[t] \in Nat
            BY <1>1, <2>1, <2>4, <2>5, <2>8
        <3>2. k \in Vector /\ k[t] = m[t] - 1 /\ \A s \in Segments : s # t => k[s] = m[s]
            BY <1>1, <2>1, <3>1 DEF Vector
        <3> HIDE DEF k
        <3>3. Verified(G, k)
            BY <1>1, <2>1, <2>3, <3>1, <3>2, ShorterVerifies
        <3>4. \A s \in Segments : \A i \in 1..k[s] : i \in 1..Len(H[s]) /\ G[s][i] = H[s][i]
            <4> SUFFICES ASSUME NEW s \in Segments, NEW i \in 1..k[s]
                         PROVE  i \in 1..Len(H[s]) /\ G[s][i] = H[s][i]
                OBVIOUS
            <4>1. /\ i \in 1..Len(lines[s]) /\ Len(lines[s]) = Len(lines'[s])
                  /\ s = t => i # Len(lines'[t])
                <5>1. CASE s = t
                    BY <1>1, <2>1, <2>4, <2>5, <2>8, <3>1, <3>2, <5>1
                <5>2. CASE s # t
                    BY <1>1, <2>1, <2>4, <2>5, <3>2, <5>2
                <5> QED BY <5>1, <5>2
            <4>2. lines'[s][i] = lines[s][i]
                BY <2>4, <4>1
            <4> QED BY <2>5, <4>1, <4>2
        <3>5. Verified(H, k)
            BY <1>1, <3>2, <3>3, <3>4, SameVerifies
        <3>6. \A s \in Segments : s # t => k[s] = Len(H[s])
            BY <2>1, <2>4, <2>5, <3>2
        <3>7. k[t] = Len(H[t]) - 1 /\ H[t][Len(H[t])] = Junk
            <4>1. Len(H[t]) = Len(lines'[t]) /\ Len(lines'[t]) \in 1..Len(lines'[t])
                BY <1>1, <2>5, <3>1
            <4>2. lines'[t][Len(lines'[t])].text = Junk
                BY <1>1, <2>4, <2>8, <4>1
            <4> QED BY <1>1, <2>5, <3>1, <3>2, <4>1, <4>2
        <3>8. Whole(H)
            BY <3>2, <3>5, <3>6, <3>7 DEF Whole
        <3> QED BY <1>2, <2>8, <3>8 DEF H
    <2> QED BY <1>1, <2>6, <2>7, <2>8 DEF t
<1> QED BY <1>3, <1>4 DEF G

\* open of a log that is whole finds its head, and so no reason to accuse.
LEMMA FalseOpen ==
    ASSUME TypeInv, EventInv, HardInv, AckInv, Spared({"cut", "power"}), HardInv', Open, Whole(Told)
    PROVE  /\ Verifies(chain') /\ verdict' # "diverged"
           /\ Tight(Told', chain') /\ Base' = chain' /\ Now' = chain'
<1> DEFINE G == Told
           H == Told'
           L == lines
           M == lines'
<1>1. /\ M = KeptLines /\ M \in LogLines /\ L \in LogLines
      /\ H \in [Segments -> Seq(Event)]
      /\ Base' = chain' /\ chain' = Flat(H) /\ step' = "idle" /\ verdict' = HeadVerdict(chain')
    BY OpenIs, UnderWay
<1>2. Openable /\ ~Ruined(lines)
    BY RuinRefused DEF Open
<1>3. /\ \A s \in Segments : \A i \in 1..Len(M[s]) :
            i \in 1..Len(L[s]) /\ M[s][i] = L[s][i] /\ M[s][i].text # Junk
      /\ \A s \in Segments : \A i \in 1..Len(L[s]) :
            i \in 1..Len(M[s]) \/ (i = Len(L[s]) /\ ~L[s][i].nl /\ L[s][i].text = Junk)
    BY <1>1, <1>2, KeptIs DEF TypeInv
<1>4. /\ G \in Log /\ H \in Log
      /\ \A s \in Segments : /\ Len(G[s]) = Len(L[s]) /\ Len(H[s]) = Len(M[s])
                             /\ Len(L[s]) \in Nat /\ Len(M[s]) \in Nat
                             /\ \A i \in 1..Len(L[s]) : G[s][i] = L[s][i].text
                             /\ \A i \in 1..Len(M[s]) : H[s][i] = M[s][i].text
    <2>1. G = Said(L) /\ H = Said(M)
        BY DEF Told
    <2> HIDE DEF G, H
    <2> QED BY <1>1, <2>1, SaidIs
<1>5. Ordered(H)
    BY DEF HardInv, Still
<1>6. Recorded
    BY <1>2 DEF AckInv
<1> HIDE DEF G, H, L, M
<1>7. PICK m \in Vector :
        /\ Verified(G, m)
        /\ \A s \in Segments : m[s] = Len(G[s]) \/ (m[s] = Len(G[s]) - 1 /\ G[s][Len(G[s])] = Junk)
    BY DEF Whole, G
<1>8. ASSUME NEW s \in Segments PROVE m[s] = Len(H[s])
    <2>1. m[s] \in Nat /\ m[s] <= Len(G[s]) /\ \A i \in 1..m[s] : G[s][i] # Junk
        BY <1>7 DEF Vector, Verified, Within
    <2>2. \A i \in 1..m[s] : i \in 1..Len(L[s]) /\ L[s][i].text # Junk
        BY <1>4, <2>1
    <2>3. \A i \in 1..m[s] : i \in 1..Len(M[s])
        BY <1>3, <2>2
    <2>4. m[s] <= Len(M[s])
        <3>1. CASE m[s] = 0
            BY <1>4, <3>1
        <3>2. CASE m[s] # 0
            <4>1. m[s] \in 1..m[s]
                BY <2>1, <3>2
            <4>2. m[s] \in 1..Len(M[s])
                BY <2>3, <4>1
            <4> QED BY <1>4, <4>2
        <3> QED BY <3>1, <3>2
    <2>5. Len(M[s]) <= m[s]
        <3> SUFFICES ASSUME Len(M[s]) > m[s] PROVE FALSE
            BY <1>4, <2>1
        <3>1. Len(M[s]) \in 1..Len(M[s])
            BY <1>4, <2>1
        <3>2. Len(M[s]) \in 1..Len(L[s]) /\ L[s][Len(M[s])].text # Junk
            BY <1>3, <3>1
        <3>3. m[s] = Len(L[s]) - 1 /\ Len(M[s]) = Len(L[s]) /\ G[s][Len(G[s])] = Junk
            BY <1>4, <1>7, <2>1, <3>2
        <3>4. G[s][Len(G[s])] = L[s][Len(L[s])].text
            BY <1>4, <3>2, <3>3
        <3> QED BY <3>2, <3>3, <3>4
    <2> QED BY <1>4, <2>1, <2>4, <2>5
<1>9. m = Full(H)
    BY <1>8 DEF Full, Vector
<1>10. Verified(H, m)
    <2>1. \A s \in Segments : \A i \in 1..m[s] : i \in 1..Len(H[s]) /\ G[s][i] = H[s][i]
        <3> SUFFICES ASSUME NEW s \in Segments, NEW i \in 1..m[s]
                     PROVE  i \in 1..Len(H[s]) /\ G[s][i] = H[s][i]
            OBVIOUS
        <3>1. i \in 1..Len(M[s]) /\ i \in 1..Len(H[s])
            BY <1>4, <1>8
        <3>2. i \in 1..Len(L[s]) /\ M[s][i] = L[s][i]
            BY <1>3, <3>1
        <3> QED BY <1>4, <3>1, <3>2
    <2> QED BY <1>4, <1>7, <2>1, SameVerifies
<1> DEFINE K == Flat(H)
<1>11. Verifies(K) /\ Tight(H, K)
    BY <1>1, <1>9, <1>10, WholeVerifies, ReadTight
<1>12. HeadVerdict(K) # "diverged"
    <2>1. CASE head = NoHead
        BY <2>1 DEF HeadVerdict
    <2>2. CASE head # NoHead
        <3>1. PICK e \in Event : OnFile(lines, e) /\ e.seq = head.seq /\ e.hash = head.hash
            BY <1>6, <2>2 DEF Recorded
        <3>2. PICK s \in Segments : \E i \in 1..Len(L[s]) : L[s][i].text = e /\ L[s][i].nl
            BY <3>1 DEF OnFile, L
        <3>3. PICK i \in 1..Len(L[s]) : L[s][i].text = e /\ L[s][i].nl
            BY <3>2
        <3>4. i \in 1..Len(M[s]) /\ M[s][i] = L[s][i]
            BY <1>3, <3>3
        <3>5. i \in 1..m[s] /\ H[s][i] = e
            BY <1>4, <1>8, <3>3, <3>4
        <3>6. e.seq + 1 \in 1..Len(K) /\ K[e.seq + 1] = e
            BY <1>1, <1>5, <1>7, <1>10, <3>5, ReadPlaces
        <3>7. e.seq \in Nat /\ Len(K) \in Nat
            <4>1. K \in Seq(Event)
                BY <1>1, FlatIs
            <4> QED BY <4>1 DEF Event
        <3> HIDE DEF K
        <3>8. head.seq < Len(K) /\ K[head.seq + 1].seq = head.seq /\ K[head.seq + 1].hash = head.hash
            BY <3>1, <3>6, <3>7
        <3> QED BY <2>2, <3>8 DEF HeadVerdict
    <2> QED BY <2>1, <2>2
<1>13. Now' = chain'
    BY <1>1 DEF Now
<1> QED BY <1>1, <1>11, <1>12, <1>13 DEF H

\* No step but the four faults excepted leaves a log that fails its head.
LEMMA FalseInvStep ==
    TypeInv /\ EventInv /\ HardInv /\ AckInv /\ FalseInv /\ HardInv' /\ [Next]_vars => FalseInv'
<1> SUFFICES ASSUME TypeInv, EventInv, HardInv, AckInv, FalseInv, HardInv', [Next]_vars,
                    Spared({"cut", "power", "syncdir", "setlen"})'
             PROVE  /\ up' => /\ Verifies(Base') /\ verdict' # "diverged"
                              /\ Ruined(lines') \/ Tight(Told', Now')
                    /\ ~up' => Ruined(lines') \/ Whole(Told')
    BY DEF FalseInv
<1>0. /\ Spared({"cut", "power"})
      /\ up => Verifies(Base) /\ verdict # "diverged" /\ (Ruined(lines) \/ Tight(Told, Now))
      /\ Ruined(lines) \/ Whole(Told)
      /\ Told \in Log
    <2>1. Spared({"cut", "power", "syncdir", "setlen"})
        BY Suffering
    <2>2. Spared({"cut", "power"})
        BY <2>1 DEF Spared
    <2>3. Told \in Log
        BY AroundIs
    <2> QED BY <2>1, <2>2, <2>3, TightIsWhole DEF FalseInv
<1> DEFINE Goal == /\ up' => /\ Verifies(Base') /\ verdict' # "diverged"
                             /\ Ruined(lines') \/ Tight(Told', Now')
                   /\ ~up' => Ruined(lines') \/ Whole(Told')
<1>1. CASE Open
    <2>1. ~up /\ Whole(Told) /\ up'
        BY <1>0, <1>1, RuinRefused DEF Open
    <2> QED BY <1>0, <1>1, <2>1, FalseOpen
<1>2. ASSUME lines' = lines,
             \/ ~up'
             \/ up /\ Verifies(Base') /\ verdict' = verdict /\ Now' = Now
      PROVE  Goal
    BY <1>0, <1>2 DEF Told
<1>3. CASE BeginAppend
    <2>1. up /\ lines' = lines /\ step = "idle" /\ step' = "write" /\ ~Open /\ verdict' = verdict /\ up'
        BY <1>3 DEF BeginAppend, disk, Open
    <2>2. Base' = Base /\ Now' = Now
        BY <2>1, BaseKeeps DEF Now
    <2> QED BY <1>0, <1>2, <2>1, <2>2
<1>4. CASE WriteLine
    <2>1. /\ Wrote(FullLine) /\ FullLine \in Writable /\ up /\ step = "write" /\ step' \in {"syncdir", "head"}
          /\ chain' = chain /\ FullLine.nl /\ UNCHANGED <<up, verdict>>
        BY <1>4, UnderWay DEF WriteLine, Wrote, Writable, Put
    <2>2. Base' = Base /\ Now' = chain /\ Now = Base
        BY <2>1 DEF Base, Now
    <2>3. Ruined(lines') \/ Tight(Told', chain)
        BY <1>0, <2>1, <2>2, FalseWrote
    <2> QED BY <1>0, <2>1, <2>2, <2>3
<1>5. CASE SyncDir
    <2>1. UNCHANGED <<up, chain, lines, verdict>> /\ step = "syncdir" /\ step' = "head" /\ up
        BY <1>5, UnderWay DEF SyncDir
    <2>2. Base' = Base /\ Now' = Now
        BY <2>1 DEF Base, Now
    <2> QED BY <1>0, <1>2, <2>1, <2>2
<1>6. CASE RecordHead \/ RecordHeadFails
    <2>1. UNCHANGED <<up, chain, lines, verdict>> /\ step = "head" /\ step' = "idle" /\ up
        BY <1>6, UnderWay DEF RecordHead, RecordHeadFails, disk
    <2>2. Base' = chain /\ Now' = Now
        BY <2>1 DEF Base, Now
    <2>3. Verifies(chain)
        BY <1>0, <2>1, Settled
    <2> QED BY <1>0, <1>2, <2>1, <2>2, <2>3
<1>7. CASE WriteFails
    <2>1. UNCHANGED <<up, lines, verdict>> /\ step = "write" /\ step' = "idle" /\ chain' = RolledBack /\ up
        BY <1>7, UnderWay DEF WriteFails, RollBack
    <2>2. Base' = Base /\ Now' = Now
        BY <2>1 DEF Base, Now, RolledBack
    <2> QED BY <1>0, <1>2, <2>1, <2>2
<1>8. CASE WriteAndSetLenFail
    <2>1. "setlen" \in suffered'
        BY <1>8 DEF WriteAndSetLenFail, Suffer
    <2> QED BY <2>1 DEF Spared
<1>9. CASE SyncDirFails
    <2>1. "syncdir" \in suffered'
        BY <1>9 DEF SyncDirFails, Suffer
    <2> QED BY <2>1 DEF Spared
<1>10. CASE Crash
    <2>1. ~up' /\ up
        BY <1>10, CrashIs DEF Down
    <2>2. CASE Lost /\ lines' = lines
        BY <1>2, <2>1, <2>2
    <2>3. ASSUME NEW line \in Writable, Wrote(line) PROVE Goal
        <3>1. Now = Base
            BY <2>3 DEF Wrote, Now
        <3> QED BY <1>0, <2>1, <2>3, <3>1, FalseWrote
    <2> QED BY <1>10, <2>2, <2>3, CrashIs
<1>11. CASE PowerCut
    <2>1. "power" \in suffered'
        BY <1>11 DEF PowerCut, Suffer
    <2> QED BY <2>1 DEF Spared
<1>12. CASE CutTail
    <2>1. "cut" \in suffered'
        BY <1>12 DEF CutTail, Suffer
    <2> QED BY <2>1 DEF Spared
<1>13. CASE UNCHANGED vars
    <2>1. UNCHANGED <<up, chain, lines, verdict, step>>
        BY <1>13 DEF vars, disk, process
    <2>2. Base' = Base /\ Now' = Now
        BY <2>1 DEF Base, Now
    <2> QED BY <1>0, <1>2, <2>1, <2>2
<1> QED BY <1>1, <1>3, <1>4, <1>5, <1>6, <1>7, <1>8, <1>9, <1>10, <1>11, <1>12, <1>13 DEF Next

\* A new store has nothing to verify.
LEMMA FalseInvInit == Init => FalseInv
<1> SUFFICES ASSUME Init PROVE FalseInv
    OBVIOUS
<1>1. \A s \in Segments : Len(lines[s]) = 0 /\ lines \in LogLines
    BY DEF Init, LogLines
<1>2. Told \in Log /\ \A s \in Segments : Len(Told[s]) = 0
    <2>1. 0 \in Segments
        BY SegmentsAre
    <2> QED BY <1>1, <2>1, SaidIs DEF Told
<1> DEFINE m == [s \in Segments |-> 0]
<1>3. m \in Vector /\ \A s \in Segments : m[s] = 0
    BY DEF Vector
<1> HIDE DEF m
<1>4. Verified(Told, m)
    BY <1>2, <1>3 DEF Verified, Within
<1>5. Whole(Told)
    BY <1>2, <1>3, <1>4 DEF Whole
<1> QED BY <1>5 DEF Init, FalseInv

-----------------------------------------------------------------------------
(* The theorems.                                                           *)

\* The chain with the event under way on it.
LEMMA LongerChain ==
    ASSUME TypeInv, step # "idle"
    PROVE  /\ ToSet(Base) \subseteq ToSet(chain)
           /\ Verifies(chain) <=> Verifies(Base)
           /\ \A n \in 1..Len(chain) : (n \in 1..Len(Base) /\ chain[n] = Base[n])
                                     \/ (n = Len(Base) + 1 /\ chain[n].seq = n - 1)
<1>1. /\ Base \in Seq(Event) /\ Len(Base) \in Nat /\ Newest \in Event
      /\ chain = Append(Base, Newest) /\ Newest = chain[Len(chain)] /\ Len(chain) = Len(Base) + 1
    BY UnderWay
<1>2. /\ Newest.seq = Len(Base)
      /\ Newest.prev = IF Base = <<>> THEN Genesis ELSE Base[Len(Base)].hash
    BY DEF TypeInv, Counted
<1>3. /\ Verifies(Append(Base, Newest)) <=> Verifies(Base)
      /\ \A n \in 1..Len(Base) : Append(Base, Newest)[n] = Base[n]
    BY <1>1, <1>2, ChainExtends
<1>4. ToSet(Base) \subseteq ToSet(chain)
    <2> SUFFICES ASSUME NEW n \in 1..Len(Base) PROVE Base[n] \in ToSet(chain)
        BY DEF ToSet
    <2>1. n \in 1..Len(chain) /\ chain[n] = Base[n]
        BY <1>1, <1>3
    <2> QED BY <2>1 DEF ToSet
<1>5. \A n \in 1..Len(chain) : (n \in 1..Len(Base) /\ chain[n] = Base[n])
                               \/ (n = Len(Base) + 1 /\ chain[n].seq = n - 1)
    BY <1>1, <1>2, <1>3
<1> QED BY <1>1, <1>3, <1>4, <1>5

\* The inductive invariant.
LedgerInv ==
    /\ TypeInv /\ EventInv /\ HardInv
    /\ AckInv /\ TermInv /\ WeighInv /\ FileInv /\ FalseInv

\* The invariant stands in every state: its parts are kept one after another, each
\* from those before it.
THEOREM LedgerInvariant == Spec => []LedgerInv
<1>1. Init => LedgerInv
    <2>1. Init => FileInv
        BY DEF Init, FileInv
    <2> QED BY <2>1, TypeInvInit, EventInvInit, HardInvInit, AckInvInit, TermInvInit, WeighInvInit, FalseInvInit
            DEF LedgerInv
<1>2. LedgerInv /\ [Next]_vars => LedgerInv'
    <2> SUFFICES ASSUME LedgerInv, [Next]_vars PROVE LedgerInv'
        OBVIOUS
    <2>1. TypeInv' /\ EventInv'
        BY TypeInvStep, EventInvStep DEF LedgerInv
    <2>2. HardInv'
        BY <2>1, HardInvStep DEF LedgerInv
    <2>3. AckInv' /\ TermInv'
        BY <2>1, AckInvStep, TermInvStep DEF LedgerInv
    <2>4. WeighInv' /\ FileInv'
        BY <2>1, WeighInvStep, FileInvStep DEF LedgerInv
    <2>5. FalseInv'
        BY <2>2, FalseInvStep DEF LedgerInv
    <2> QED BY <2>1, <2>2, <2>3, <2>4, <2>5 DEF LedgerInv
<1> QED BY <1>1, <1>2, PTL DEF Spec

\* However often the process dies or a write fails, the record opens, memory is
\* what it replays to, and the next append lands on a line of its own, at the place
\* its number says (LedgerFs::open, write_line, roll_back).
THEOREM RecordSound == Spec => []RecordIsSound
<1>1. LedgerInv => RecordIsSound
    <2> SUFFICES ASSUME LedgerInv PROVE RecordIsSound
        OBVIOUS
    <2> USE DEF LedgerInv
    <2>1. lines \in LogLines
        BY UnderWay
    <2>2. AlwaysOpenable
        <3> SUFFICES ASSUME ~up, Spared({"newline", "setlen", "power"}) PROVE Openable
            BY DEF AlwaysOpenable
        <3>1. Spared({"newline", "setlen"})
            BY DEF Spared
        <3>2. AtMostTorn(lines) /\ TornLast
            BY <3>1 DEF TermInv, WeighInv
        <3> SUFFICES ASSUME NEW s \in Segments, NEW i \in 1..Len(KeptLines[s]), KeptLines[s][i].text = Junk
                     PROVE  FALSE
            BY KeptIs DEF TypeInv
        <3>3. i \in 1..Len(lines[s]) /\ KeptLines[s][i] = lines[s][i]
            BY KeptIs DEF TypeInv
        <3>4. i = Len(lines[s]) /\ ~lines[s][i].nl /\ s \in files /\ \A q \in files : q <= s
            BY <3>2, <3>3 DEF AtMostTorn, TornLast
        <3>5. lines[s] \in Seq(Line) /\ lines[s] # <<>>
            <4>1. lines[s] \in Seq(Line)
                BY <2>1 DEF LogLines
            <4> QED BY <3>3, <4>1
        <3>6. Last(lines[s]) = lines[s][i] /\ ~Terminated(lines[s])
            BY <3>4, <3>5 DEF Last, Terminated
        <3>7. s = Max(files)
            <4>1. Max(files) \in files /\ \A q \in files : q <= Max(files)
                BY <3>4, MaxIs DEF TypeInv, TypeOK
            <4>2. files \subseteq Nat
                BY SegmentsAre DEF TypeInv, TypeOK
            <4> DEFINE x == Max(files)
            <4>3. x \in Nat /\ s \in Nat /\ x <= s /\ s <= x
                BY <3>4, <4>1, <4>2
            <4> HIDE DEF x
            <4>4. s = x
                BY <4>3
            <4> QED BY <4>4 DEF x
        <3>8. KeptLines[s] = Front(lines[s])
            BY <3>3, <3>4, <3>6, <3>7 DEF KeptLines, Kept, TornTail
        <3>9. Len(KeptLines[s]) = Len(lines[s]) - 1 /\ Len(lines[s]) \in Nat
            BY <3>5, <3>8, FrontLast
        <3> QED BY <3>4, <3>9
    <2>3. ChainIsFile
        <3> SUFFICES ASSUME up, step = "idle", Spared({"newline", "setlen", "syncdir", "power"})
                     PROVE  Openable /\ chain = Replayed
            BY DEF ChainIsFile
        <3>1. Spared({"newline", "setlen"})
            BY DEF Spared
        <3>2. Complete(lines) /\ Now = Flat(Told)
            BY <3>1 DEF TermInv, FileInv
        <3> QED BY <3>2, WholeKept DEF Now, Base
    <2>4. AppendsOnCompleteLine
        <3> SUFFICES ASSUME up, Spared({"newline", "setlen"}), NEW s \in files PROVE Terminated(lines[s])
            BY DEF AppendsOnCompleteLine
        <3>1. Complete(lines) /\ s \in Segments
            BY DEF TermInv, TypeInv, TypeOK
        <3> QED BY <2>1, <3>1, CompleteEnds
    <2>5. VerifiedChainIsPositional
        <3> SUFFICES ASSUME up, Verifies(chain), NEW n \in 1..Len(chain) PROVE chain[n].seq = n - 1
            BY DEF VerifiedChainIsPositional
        <3>1. ChainPos
            BY DEF HardInv, Live
        <3>2. CASE step = "idle"
            BY <3>1, <3>2 DEF ChainPos, Base
        <3>3. CASE step # "idle"
            BY <3>1, <3>3, LongerChain DEF ChainPos
        <3> QED BY <3>2, <3>3
    <2> QED BY <2>2, <2>3, <2>4, <2>5 DEF RecordIsSound, TypeInv
<1> QED BY <1>1, LedgerInvariant, PTL

\* boot accuses nobody of a crash, and never calls a record intact that lost an
\* acknowledged event, however it was lost and whatever was appended since
\* (head_verdict, RealKernel::ledger_holds).
THEOREM VerdictTrue == Spec => []VerdictIsTrue
<1>1. LedgerInv => VerdictIsTrue
    <2> SUFFICES ASSUME LedgerInv PROVE VerdictIsTrue
        OBVIOUS
    <2> USE DEF LedgerInv
    <2>1. NoFalseAlarm
        <3> SUFFICES ASSUME up, step = "idle", Spared({"cut", "power", "syncdir", "setlen"}) PROVE LedgerHolds
            BY DEF NoFalseAlarm
        <3> QED BY DEF FalseInv, LedgerHolds, Base
    <2>2. LossIsReported
        <3> SUFFICES ASSUME up, LedgerHolds PROVE acked \subseteq ToSet(chain)
            BY DEF LossIsReported
        <3>1. Keeps /\ verdict # "diverged" /\ Verifies(chain)
            BY DEF HardInv, Live, LedgerHolds
        <3>2. CASE step = "idle"
            BY <3>1, <3>2 DEF Keeps, Base
        <3>3. CASE step # "idle"
            BY <3>1, <3>3, LongerChain DEF Keeps
        <3> QED BY <3>2, <3>3
    <2> QED BY <2>1, <2>2 DEF VerdictIsTrue
<1> QED BY <1>1, LedgerInvariant, PTL

\* An event whose append returned Ok is in the record of every later process, if
\* nobody cuts the record and no power cut takes a segment (Store::append_event).
THEOREM AckedStays == Spec => []AckedIsRecorded
<1>1. LedgerInv => AckedIsRecorded
    <2> SUFFICES ASSUME LedgerInv, up, Spared({"cut", "power"}) PROVE acked \subseteq ToSet(chain)
        BY DEF AckedIsRecorded
    <2> USE DEF LedgerInv
    <2>1. acked \subseteq ToSet(Base)
        BY DEF AckInv
    <2>2. CASE step = "idle"
        BY <2>1, <2>2 DEF Base
    <2>3. CASE step # "idle"
        BY <2>1, <2>3, LongerChain
    <2> QED BY <2>2, <2>3
<1> QED BY <1>1, LedgerInvariant, PTL
=============================================================================
