--------------------------- MODULE IndexSetProofs ---------------------------
(***************************************************************************)
(* What the operations of IndexSet do, for every set of natural numbers    *)
(* and every index: each turns well-formed ranges into well-formed ranges, *)
(* of the indexes it promises.                                             *)
(***************************************************************************)
EXTENDS IndexSets, FiniteSetTheorems, SequenceTheorems, WellFoundedInduction, TLAPS

Range2 == Nat \X Nat
Sets == {R \in Seq(Range2) : WellFormed(R)}

-----------------------------------------------------------------------------
(* Ranges                                                                  *)

LEMMA LeastNatural ==
    ASSUME NEW T \in SUBSET Nat, T # {}
    PROVE  \E m \in T : \A k \in T : m <= k
<1> DEFINE R == OpToRel(<, Nat)
<1>1. \A x, y \in Nat : x < y => <<x, y>> \in R
  BY DEF OpToRel
<1>2. IsWellFoundedOn(R, Nat)
  BY NatLessThanWellFounded
<1> HIDE DEF R
<1>3. PICK m \in T : \A k \in T : ~ (<<k, m>> \in R)
  BY <1>2, WFMin
<1>4. ASSUME NEW k \in T PROVE m <= k
  <2>1. k \in Nat /\ m \in Nat
    OBVIOUS
  <2>2. ~ (k < m)
    BY <2>1, <1>1, <1>3
  <2> QED BY <2>1, <2>2
<1> QED BY <1>4

LEMMA CardinalityOfFirst ==
    ASSUME NEW n \in Nat
    PROVE  IsFiniteSet(1..n) /\ Cardinality(1..n) = n
<1>1. IsFiniteSet(1..n) /\ Cardinality(1..n) = IF 1 > n THEN 0 ELSE n - 1 + 1
  BY FS_Interval
<1> QED BY <1>1

\* The parts of a range are natural numbers.
LEMMA RangeParts ==
    ASSUME NEW R \in Seq(Range2)
    PROVE  /\ Len(R) \in Nat /\ DOMAIN R = 1..Len(R)
           /\ \A p \in 1..Len(R) : R[p] \in Range2 /\ R[p][1] \in Nat /\ R[p][2] \in Nat /\ R[p] = <<R[p][1], R[p][2]>>
BY DEF Range2

LEMMA SetFacts ==
    ASSUME NEW R \in Sets
    PROVE  /\ R \in Seq(Range2) /\ Len(R) \in Nat /\ DOMAIN R = 1..Len(R)
           /\ \A p \in 1..Len(R) : R[p] \in Range2 /\ R[p][1] \in Nat /\ R[p][2] \in Nat /\ R[p][1] < R[p][2]
           /\ \A p \in 2..Len(R) : R[p - 1][2] < R[p][1]
BY RangeParts DEF Sets, WellFormed

\* Of two ranges the first one ends before the other begins.
LEMMA RangesInOrder ==
    ASSUME NEW R \in Sets, NEW p \in 1..Len(R), NEW q \in 1..Len(R), p < q
    PROVE  R[p][2] < R[q][1]
<1> DEFINE Bad == {h \in Nat : h \in (p + 1)..Len(R) /\ ~ (R[p][2] < R[h][1])}
<1>1. ASSUME Bad # {} PROVE FALSE
  <2>1. PICK h \in Bad : \A g \in Bad : h <= g
    BY <1>1, LeastNatural
  <2>2. h \in 2..Len(R) /\ h - 1 \in 1..Len(R) /\ h - 1 \notin Bad /\ p \in Nat
    BY <2>1, SetFacts
  <2>3. R[h - 1][2] < R[h][1] /\ R[h - 1][1] < R[h - 1][2] /\ R[h][1] \in Nat /\ R[h - 1][1] \in Nat /\ R[h - 1][2] \in Nat
         /\ R[p][2] \in Nat
    BY <2>2, SetFacts
  <2>4. CASE h - 1 = p
    BY <2>3, <2>4, <2>1
  <2>5. CASE h - 1 # p
    <3>1. R[p][2] < R[h - 1][1]
      BY <2>1, <2>2, <2>5
    <3> QED BY <3>1, <2>3, <2>1, SMTT(40)
  <2> QED BY <2>4, <2>5
<1>2. q \in (p + 1)..Len(R) /\ q \in Nat
  BY SetFacts
<1> QED BY <1>1, <1>2

\* Membership in terms of the ranges
LEMMA InIndexes ==
    ASSUME NEW R \in Seq(Range2), NEW x
    PROVE  x \in Indexes(R) <=> x \in Nat /\ \E p \in 1..Len(R) : R[p][1] <= x /\ x < R[p][2]
<1>1. \A p \in 1..Len(R) : R[p][1] \in Nat /\ R[p][2] \in Nat
  BY RangeParts
<1>2. x \in Indexes(R) <=> \E p \in 1..Len(R) : x \in R[p][1]..(R[p][2] - 1)
  BY DEF Indexes
<1>3. \A p \in 1..Len(R) : x \in R[p][1]..(R[p][2] - 1) <=> (x \in Nat /\ R[p][1] <= x /\ x < R[p][2])
  BY <1>1
<1> QED BY <1>2, <1>3

LEMMA IndexesFinite ==
    ASSUME NEW R \in Sets
    PROVE  Indexes(R) \in SUBSET Nat /\ IsFiniteSet(Indexes(R)) /\ Cardinality(Indexes(R)) \in Nat
<1>1. Indexes(R) \in SUBSET Nat
  BY InIndexes, SetFacts
<1>2. CASE Len(R) = 0
  <2>1. \A x : x \notin Indexes(R)
    BY <1>2, InIndexes, SetFacts
  <2>2. Indexes(R) = {}
    BY <2>1
  <2> QED BY <2>2, FS_EmptySet
<1>3. CASE Len(R) # 0
  <2> DEFINE n == Len(R)
             top == R[n][2]
  <2>1. n \in Nat /\ n \in 1..Len(R) /\ top \in Nat /\ \A p \in 1..n : R[p][2] \in Nat /\ R[p][1] \in Nat
    BY <1>3, SetFacts
  <2>2. ASSUME NEW p \in 1..n PROVE R[p][2] <= top
    <3>1. CASE p = n
      BY <3>1, <2>1
    <3>2. CASE p # n
      <4>1. R[p][2] < R[n][1] /\ R[n][1] < R[n][2]
        BY <3>2, <2>1, RangesInOrder, SetFacts
      <4> QED BY <4>1, <2>1
    <3> QED BY <3>1, <3>2
  <2>3. \A x \in Indexes(R) : x <= top
    <3>1. TAKE x \in Indexes(R)
    <3>2. x \in Nat
      BY <1>1
    <3>3. PICK p \in 1..n : x < R[p][2]
      BY InIndexes, SetFacts
    <3> QED BY <3>2, <3>3, <2>1, <2>2
  <2> QED BY <2>1, <2>3, <1>1, FS_BoundedSetOfNaturals, FS_CardinalityType
<1> QED BY <1>2, <1>3, SetFacts

\* find gives the position of the first range that ends after the index.
LEMMA FindFacts ==
    ASSUME NEW R \in Sets, NEW i \in Nat
    PROVE  /\ Find(R, i) \in 1..(Len(R) + 1)
           /\ \A q \in 1..Len(R) : q < Find(R, i) => R[q][2] <= i
           /\ \A q \in 1..Len(R) : Find(R, i) <= q => i < R[q][2]
           /\ \A q \in 1..Len(R) : Find(R, i) < q => i < R[q][1]
<1> DEFINE n == Len(R)
           T == {q \in 1..(n + 1) : q = n + 1 \/ i < R[q][2]}
<1>1. n \in Nat /\ \A q \in 1..n : R[q][1] \in Nat /\ R[q][2] \in Nat /\ R[q][1] < R[q][2]
  BY SetFacts
<1>2. T \in SUBSET Nat /\ n + 1 \in T
  BY <1>1
<1>3. PICK m \in T : \A q \in T : m <= q
  BY <1>2, LeastNatural
<1>4. ASSUME NEW q \in 1..n, q < m PROVE R[q][2] <= i
  BY <1>1, <1>3, <1>4
<1>5. ASSUME NEW q \in 1..n, m < q PROVE i < R[q][1]
  <2>1. m \in 1..n /\ i < R[m][2]
    BY <1>3, <1>5, <1>1
  <2>2. R[m][2] < R[q][1]
    BY <2>1, <1>5, RangesInOrder
  <2> QED BY <2>1, <2>2, <1>1
<1>6. ASSUME NEW q \in 1..n, m <= q PROVE i < R[q][2]
  <2>1. CASE m = q
    BY <2>1, <1>3, <1>1
  <2>2. CASE m # q
    <3>1. m < q /\ m \in Nat
      BY <2>2, <1>6, <1>3, <1>1
    <3>2. i < R[q][1]
      BY <3>1, <1>5
    <3> QED BY <3>2, <1>1
  <2> QED BY <2>1, <2>2
<1>7. {q \in 1..n : R[q][2] <= i} = 1..(m - 1)
  <2>1. ASSUME NEW q \in 1..n, R[q][2] <= i PROVE q \in 1..(m - 1)
    BY <2>1, <1>6, <1>1, <1>3
  <2>2. ASSUME NEW q \in 1..(m - 1) PROVE q \in 1..n /\ R[q][2] <= i
    BY <1>4, <1>3, <1>1
  <2> QED BY <2>1, <2>2
<1>8. Cardinality(1..(m - 1)) = m - 1 /\ m \in Nat
  <2>1. m \in Nat /\ m - 1 \in Nat
    BY <1>3, <1>1
  <2> QED BY <2>1, CardinalityOfFirst
<1>9. Find(R, i) = m
  <2> DEFINE before == {q \in 1..n : R[q][2] <= i}
  <2>1. Find(R, i) = 1 + Cardinality(before)
    BY DEF Find
  <2>2. Cardinality(before) = m - 1
    BY <1>7, <1>8
  <2> HIDE DEF before
  <2> QED BY <2>1, <2>2, <1>8
<1> QED BY <1>3, <1>4, <1>5, <1>6, <1>9

\* contains
THEOREM HasIsMember ==
    ASSUME NEW R \in Sets, NEW i \in Nat
    PROVE  Has(R, i) = (i \in Indexes(R))
<1> DEFINE p == Find(R, i)
<1>1. p \in 1..(Len(R) + 1) /\ Len(R) \in Nat /\ \A q \in 1..Len(R) : R[q][1] \in Nat /\ R[q][2] \in Nat
  BY FindFacts, SetFacts
<1>2. \A q \in 1..Len(R) : /\ q < p => R[q][2] <= i
                           /\ p <= q => i < R[q][2]
                           /\ p < q => i < R[q][1]
  BY FindFacts
<1>3. i \in Indexes(R) <=> \E q \in 1..Len(R) : R[q][1] <= i /\ i < R[q][2]
  BY InIndexes, SetFacts
<1> HIDE DEF p
<1>4. (\E q \in 1..Len(R) : R[q][1] <= i /\ i < R[q][2]) <=> p <= Len(R) /\ R[p][1] <= i
  <2>1. ASSUME NEW q \in 1..Len(R), R[q][1] <= i, i < R[q][2] PROVE q = p
    BY <2>1, <1>1, <1>2
  <2>2. ASSUME p <= Len(R), R[p][1] <= i PROVE p \in 1..Len(R) /\ i < R[p][2]
    BY <2>2, <1>1, <1>2
  <2> QED BY <2>1, <2>2, <1>1
<1> QED BY <1>3, <1>4 DEF Has, p

-----------------------------------------------------------------------------
(* Sequences                                                               *)

\* t is s with e inserted at position p, or with the element at position p taken out.
IsInserted(S, s, p, e, t) ==
    /\ t \in Seq(S) /\ Len(t) = Len(s) + 1
    /\ \A q \in 1..(Len(s) + 1) : t[q] = IF q < p THEN s[q] ELSE IF q = p THEN e ELSE s[q - 1]
IsRemoved(S, s, p, t) ==
    /\ t \in Seq(S) /\ Len(t) = Len(s) - 1
    /\ \A q \in 1..(Len(s) - 1) : t[q] = IF q < p THEN s[q] ELSE s[q + 1]

LEMMA RemovalIs ==
    ASSUME NEW S, NEW s \in Seq(S), NEW p \in 1..Len(s)
    PROVE  IsRemoved(S, s, p, RemoveAt(s, p))
<1> DEFINE a == SubSeq(s, 1, p - 1)
           b == SubSeq(s, p + 1, Len(s))
<1>1. Len(s) \in Nat /\ \A q \in 1..Len(s) : s[q] \in S
  BY ElementOfSeq
<1>2. a \in Seq(S) /\ Len(a) = p - 1 /\ \A q \in 1..(p - 1) : a[q] = s[q]
  <2>1. 1 \in Int /\ p - 1 \in Int /\ \A q \in 1..(p - 1) : s[q] \in S
    BY <1>1
  <2> QED BY <2>1, SubSeqProperties
<1>3. b \in Seq(S) /\ Len(b) = Len(s) - p /\ \A q \in 1..(Len(s) - p) : b[q] = s[q + p]
  <2>1. p + 1 \in Int /\ Len(s) \in Int /\ \A q \in (p + 1)..Len(s) : s[q] \in S
    BY <1>1
  <2> QED BY <2>1, SubSeqProperties
<1> HIDE DEF a, b
<1>4. /\ a \o b \in Seq(S) /\ Len(a \o b) = Len(a) + Len(b)
      /\ \A q \in 1..(Len(a) + Len(b)) : (a \o b)[q] = IF q <= Len(a) THEN a[q] ELSE b[q - Len(a)]
  BY <1>2, <1>3, ConcatProperties
<1>5. RemoveAt(s, p) = a \o b
  BY DEF RemoveAt, a, b
<1>6. ASSUME NEW q \in 1..(Len(s) - 1) PROVE (a \o b)[q] = IF q < p THEN s[q] ELSE s[q + 1]
  <2>1. CASE q < p
    BY <2>1, <1>1, <1>2, <1>3, <1>4
  <2>2. CASE ~ (q < p)
    <3> DEFINE h == q - (p - 1)
    <3>1. (a \o b)[q] = b[h] /\ h \in 1..(Len(s) - p) /\ h + p = q + 1
      BY <2>2, <1>1, <1>2, <1>3, <1>4
    <3>2. b[h] = s[h + p]
      BY <3>1, <1>3
    <3> HIDE DEF h
    <3> QED BY <3>1, <3>2, <2>2
  <2> QED BY <2>1, <2>2
<1> DEFINE t == a \o b
<1>7. IsRemoved(S, s, p, t)
  <2>1. t \in Seq(S) /\ Len(t) = Len(s) - 1
    BY <1>1, <1>2, <1>3, <1>4
  <2>2. \A q \in 1..(Len(s) - 1) : t[q] = IF q < p THEN s[q] ELSE s[q + 1]
    BY <1>6
  <2> HIDE DEF t
  <2> QED BY <2>1, <2>2 DEF IsRemoved
<1> QED BY <1>5, <1>7

LEMMA InsertionIs ==
    ASSUME NEW S, NEW s \in Seq(S), NEW p \in 1..(Len(s) + 1), NEW e \in S
    PROVE  IsInserted(S, s, p, e, InsertAt(s, p, e))
<1> DEFINE a == SubSeq(s, 1, p - 1)
           b == SubSeq(s, p, Len(s))
           c == a \o <<e>>
<1>1. Len(s) \in Nat /\ \A q \in 1..Len(s) : s[q] \in S
  BY ElementOfSeq
<1>2. a \in Seq(S) /\ Len(a) = p - 1 /\ \A q \in 1..(p - 1) : a[q] = s[q]
  <2>1. 1 \in Int /\ p - 1 \in Int /\ \A q \in 1..(p - 1) : s[q] \in S
    BY <1>1
  <2> QED BY <2>1, SubSeqProperties
<1>3. b \in Seq(S) /\ Len(b) = Len(s) - p + 1 /\ \A q \in 1..(Len(s) - p + 1) : b[q] = s[q + p - 1]
  <2>1. p \in Int /\ Len(s) \in Int /\ \A q \in p..Len(s) : s[q] \in S
    BY <1>1
  <2> QED BY <2>1, <1>1, SubSeqProperties
<1>4. c \in Seq(S) /\ Len(c) = p /\ \A q \in 1..p : c[q] = IF q < p THEN s[q] ELSE e
  <2> HIDE DEF a
  <2>1. <<e>> \in Seq(S) /\ Len(<<e>>) = 1 /\ <<e>>[1] = e
    OBVIOUS
  <2>2. /\ c \in Seq(S) /\ Len(c) = Len(a) + 1
        /\ \A q \in 1..(Len(a) + 1) : c[q] = IF q <= Len(a) THEN a[q] ELSE <<e>>[q - Len(a)]
    BY <1>2, <2>1, ConcatProperties
  <2> QED BY <2>1, <2>2, <1>1, <1>2
<1>5. InsertAt(s, p, e) = c \o b
  BY DEF InsertAt
<1> HIDE DEF a, b, c
<1>6. /\ c \o b \in Seq(S) /\ Len(c \o b) = Len(c) + Len(b)
      /\ \A q \in 1..(Len(c) + Len(b)) : (c \o b)[q] = IF q <= Len(c) THEN c[q] ELSE b[q - Len(c)]
  BY <1>3, <1>4, ConcatProperties
<1>7. ASSUME NEW q \in 1..(Len(s) + 1)
      PROVE  (c \o b)[q] = IF q < p THEN s[q] ELSE IF q = p THEN e ELSE s[q - 1]
  <2>1. CASE q <= p
    BY <2>1, <1>1, <1>3, <1>4, <1>6
  <2>2. CASE ~ (q <= p)
    <3>1. (c \o b)[q] = b[q - p] /\ q - p \in 1..(Len(s) - p + 1)
      BY <2>2, <1>1, <1>3, <1>4, <1>6
    <3> QED BY <3>1, <2>2, <1>1, <1>3
  <2> QED BY <2>1, <2>2
<1> DEFINE t == c \o b
<1>8. IsInserted(S, s, p, e, t)
  <2>1. t \in Seq(S) /\ Len(t) = Len(s) + 1
    BY <1>1, <1>3, <1>4, <1>6
  <2>2. \A q \in 1..(Len(s) + 1) : t[q] = IF q < p THEN s[q] ELSE IF q = p THEN e ELSE s[q - 1]
    BY <1>7
  <2> HIDE DEF t
  <2> QED BY <2>1, <2>2 DEF IsInserted
<1> QED BY <1>5, <1>8

LEMMA InsertAtFacts ==
    ASSUME NEW S, NEW s \in Seq(S), NEW p \in 1..(Len(s) + 1), NEW e \in S
    PROVE  InsertAt(s, p, e) \in Seq(S) /\ Len(InsertAt(s, p, e)) = Len(s) + 1
BY InsertionIs DEF IsInserted

LEMMA RemoveAtFacts ==
    ASSUME NEW S, NEW s \in Seq(S), NEW p \in 1..Len(s)
    PROVE  RemoveAt(s, p) \in Seq(S) /\ Len(RemoveAt(s, p)) = Len(s) - 1
BY RemovalIs DEF IsRemoved

\* A range changed in place
LowTo(R, p, n) == [R EXCEPT ![p][1] = n]
HighTo(R, p, n) == [R EXCEPT ![p][2] = n]

LEMMA LowToFacts ==
    ASSUME NEW R \in Seq(Range2), NEW p \in 1..Len(R), NEW n \in Nat
    PROVE  /\ LowTo(R, p, n) \in Seq(Range2) /\ Len(LowTo(R, p, n)) = Len(R)
           /\ \A q \in 1..Len(R) : LowTo(R, p, n)[q] = IF q = p THEN <<n, R[p][2]>> ELSE R[q]
<1>1. R[p] \in Range2 /\ Len(R) \in Nat /\ DOMAIN R = 1..Len(R) /\ \A q \in 1..Len(R) : R[q] \in Range2
  BY RangeParts
<1> DEFINE lo == <<n, R[p][2]>>
<1>2. lo \in Range2 /\ [R[p] EXCEPT ![1] = n] = lo
  BY <1>1 DEF Range2
<1>3. LowTo(R, p, n) = [R EXCEPT ![p] = lo]
  BY <1>2 DEF LowTo
<1> HIDE DEF lo
<1>4. /\ [R EXCEPT ![p] = lo] \in Seq(Range2) /\ Len([R EXCEPT ![p] = lo]) = Len(R)
      /\ \A q \in 1..Len(R) : [R EXCEPT ![p] = lo][q] = IF q = p THEN lo ELSE R[q]
  BY <1>1, <1>2, ExceptSeq
<1> QED BY <1>3, <1>4 DEF lo

LEMMA HighToFacts ==
    ASSUME NEW R \in Seq(Range2), NEW p \in 1..Len(R), NEW n \in Nat
    PROVE  /\ HighTo(R, p, n) \in Seq(Range2) /\ Len(HighTo(R, p, n)) = Len(R)
           /\ \A q \in 1..Len(R) : HighTo(R, p, n)[q] = IF q = p THEN <<R[p][1], n>> ELSE R[q]
<1>1. R[p] \in Range2 /\ Len(R) \in Nat /\ DOMAIN R = 1..Len(R) /\ \A q \in 1..Len(R) : R[q] \in Range2
  BY RangeParts
<1> DEFINE hi == <<R[p][1], n>>
<1>2. hi \in Range2 /\ [R[p] EXCEPT ![2] = n] = hi
  BY <1>1 DEF Range2
<1>3. HighTo(R, p, n) = [R EXCEPT ![p] = hi]
  BY <1>2 DEF HighTo
<1> HIDE DEF hi
<1>4. /\ [R EXCEPT ![p] = hi] \in Seq(Range2) /\ Len([R EXCEPT ![p] = hi]) = Len(R)
      /\ \A q \in 1..Len(R) : [R EXCEPT ![p] = hi][q] = IF q = p THEN hi ELSE R[q]
  BY <1>1, <1>2, ExceptSeq
<1> QED BY <1>3, <1>4 DEF hi

LEMMA LongerFacts ==
    ASSUME NEW R \in Seq(Range2), NEW p \in 1..Len(R), NEW n \in Int, R[p][2] + n \in Nat
    PROVE  /\ Longer(R, p, n) \in Seq(Range2) /\ Len(Longer(R, p, n)) = Len(R)
           /\ \A q \in 1..Len(R) : Longer(R, p, n)[q] = IF q = p THEN <<R[p][1], R[p][2] + n>> ELSE R[q]
<1>1. Longer(R, p, n) = HighTo(R, p, R[p][2] + n)
  <2>1. p \in DOMAIN R /\ R[p] \in Range2
    BY RangeParts
  <2> QED BY <2>1 DEF Longer, HighTo, Range2
<1> QED BY <1>1, HighToFacts

LEMMA ShiftFromFacts ==
    ASSUME NEW R \in Seq(Range2), NEW p \in Int, NEW n \in Int,
           \A q \in 1..Len(R) : p <= q => R[q][1] + n \in Nat /\ R[q][2] + n \in Nat
    PROVE  /\ ShiftFrom(R, p, n) \in Seq(Range2) /\ Len(ShiftFrom(R, p, n)) = Len(R)
           /\ \A q \in 1..Len(R) : ShiftFrom(R, p, n)[q] = IF q < p THEN R[q] ELSE <<R[q][1] + n, R[q][2] + n>>
<1>1. Len(R) \in Nat /\ \A q \in 1..Len(R) : R[q] \in Range2
  BY RangeParts
<1>2. ASSUME NEW q \in 1..Len(R)
      PROVE  (IF q < p THEN R[q] ELSE <<R[q][1] + n, R[q][2] + n>>) \in Range2
  <2>1. CASE q < p
    BY <2>1, <1>1
  <2>2. CASE ~ (q < p)
    BY <2>2, <1>1 DEF Range2
  <2> QED BY <2>1, <2>2
<1>3. ShiftFrom(R, p, n) \in [1..Len(R) -> Range2]
  BY <1>2 DEF ShiftFrom
<1>4. ShiftFrom(R, p, n) \in Seq(Range2) /\ Len(ShiftFrom(R, p, n)) = Len(R)
  BY <1>1, <1>3, SeqDef, LenProperties
<1> QED BY <1>4 DEF ShiftFrom

-----------------------------------------------------------------------------
(* Adding an index                                                         *)

\* x lies in a range of R.
In(R, x) == \E p \in 1..Len(R) : R[p][1] <= x /\ x < R[p][2]

\* Ranges that are apart, of the indexes that have a property
LEMMA SetOf ==
    ASSUME NEW T \in Seq(Range2), NEW U \in SUBSET Nat,
           \A q \in 1..Len(T) : T[q][1] < T[q][2],
           \A q \in 2..Len(T) : T[q - 1][2] < T[q][1],
           \A x \in Nat : In(T, x) <=> x \in U
    PROVE  T \in Sets /\ Indexes(T) = U
<1>1. T \in Sets
  BY DEF Sets, WellFormed
<1>2. \A x : x \in Indexes(T) <=> x \in Nat /\ In(T, x)
  BY InIndexes DEF In
<1> QED BY <1>1, <1>2

LEMMA InOf ==
    ASSUME NEW R \in Sets, NEW x \in Nat
    PROVE  In(R, x) <=> x \in Indexes(R)
BY InIndexes, SetFacts DEF In

\* p is where find would look for i.
Place(R, p, i) ==
    /\ p \in 1..(Len(R) + 1)
    /\ \A q \in 1..Len(R) : q < p => R[q][2] <= i
    /\ \A q \in 1..Len(R) : p <= q => i < R[q][2]

LEMMA DoAddFacts ==
    ASSUME NEW R \in Sets, NEW i \in Nat, NEW p, Place(R, p, i)
    PROVE  DoAdd(R, p, i) \in Sets /\ Indexes(DoAdd(R, p, i)) = Indexes(R) \cup {i}
<1> DEFINE n == Len(R)
           T == DoAdd(R, p, i)
           U == Indexes(R) \cup {i}
           before == p > 1 /\ R[p - 1][2] = i
           after == p <= n /\ R[p][1] = i + 1
<1>1. /\ R \in Seq(Range2) /\ n \in Nat
      /\ \A q \in 1..n : R[q] \in Range2 /\ R[q][1] \in Nat /\ R[q][2] \in Nat /\ R[q][1] < R[q][2]
      /\ \A q, h \in 1..n : q < h => R[q][2] < R[h][1]
  BY SetFacts, RangesInOrder
<1>2. p \in 1..(n + 1) /\ \A q \in 1..n : (q < p => R[q][2] <= i) /\ (p <= q => i < R[q][2])
  BY DEF Place
<1>3. U \in SUBSET Nat /\ \A x \in Nat : x \in U <=> In(R, x) \/ x = i
  BY InOf, IndexesFinite
<1> HIDE DEF U
<1>4. CASE p <= n /\ R[p][1] <= i
  <2>1. T = R /\ p \in 1..n
    <3>2. p \in 1..n
      BY <1>4, <1>1, <1>2
    <3>3. ~ before
      <4>1. SUFFICES ASSUME before PROVE FALSE
        OBVIOUS
      <4>2. p - 1 \in 1..n /\ p - 1 < p
        BY <3>2, <4>1, <1>1
      <4>3. R[p - 1][2] < R[p][1]
        BY <4>2, <3>2, <1>1
      <4> QED BY <4>1, <4>2, <4>3, <3>2, <1>1, <1>4
    <3>4. ~ after
      BY <1>4, <1>1, <3>2
    <3>1. T = R
      BY <1>4, <3>3, <3>4 DEF DoAdd
    <3> QED BY <3>1, <3>2
  <2>2. In(R, i)
    BY <2>1, <1>2, <1>4 DEF In
  <2>3. i \in Indexes(R)
    BY <2>2, InOf
  <2> QED BY <2>1, <2>3 DEF U
<1>5. CASE ~ (p <= n /\ R[p][1] <= i) /\ before /\ after
  <2> DEFINE H == HighTo(R, p - 1, R[p][2])
  <2>1. p - 1 \in 1..n /\ p \in 1..n /\ R[p][2] \in Nat
    BY <1>5, <1>1, <1>2
  <2>2. H \in Seq(Range2) /\ Len(H) = n /\ \A q \in 1..n : H[q] = IF q = p - 1 THEN <<R[p - 1][1], R[p][2]>> ELSE R[q]
    BY <2>1, <1>1, HighToFacts
  <2>3. T = RemoveAt(H, p)
    BY <1>5 DEF DoAdd, HighTo
  <2> HIDE DEF H, T
  <2>4. T \in Seq(Range2) /\ Len(T) = n - 1 /\ \A q \in 1..(n - 1) : T[q] = IF q < p THEN H[q] ELSE H[q + 1]
    <3>1. H \in Seq(Range2) /\ p \in 1..Len(H)
      BY <2>1, <2>2
    <3>2. IsRemoved(Range2, H, p, T)
      BY <3>1, <2>3, RemovalIs
    <3>3. Len(H) = n
      BY <2>2
    <3> QED BY <3>2, <3>3 DEF IsRemoved
  <2>5. \A q \in 1..(n - 1) : /\ q < p - 1 => T[q] = R[q]
                              /\ q = p - 1 => T[q] = <<R[p - 1][1], R[p][2]>>
                              /\ q >= p => T[q] = R[q + 1]
    BY <2>1, <2>2, <2>4, <1>1
  <2>6. ASSUME NEW q \in 1..Len(T) PROVE T[q][1] < T[q][2]
    <3>1. q \in 1..(n - 1) /\ q \in 1..n /\ q + 1 \in 1..n
      BY <2>4, <1>1
    <3>2. CASE q < p - 1
      BY <3>1, <3>2, <2>5, <1>1
    <3>3. CASE q = p - 1
      <4>1. T[q] = <<R[p - 1][1], R[p][2]>>
        BY <3>1, <3>3, <2>5
      <4>2. R[p - 1][1] < R[p - 1][2] /\ R[p - 1][2] < R[p][1] /\ R[p][1] < R[p][2]
        <5>1. p - 1 < p
          BY <2>1
        <5> QED BY <5>1, <2>1, <1>1
      <4> QED BY <4>1, <4>2, <2>1, <1>1, SMTT(40)
    <3>4. CASE q >= p
      BY <3>1, <3>4, <2>5, <1>1
    <3> QED BY <3>1, <3>2, <3>3, <3>4, <2>1, <1>1
  <2>7. ASSUME NEW q \in 2..Len(T) PROVE T[q - 1][2] < T[q][1]
    <3>1. q \in 1..(n - 1) /\ q - 1 \in 1..(n - 1)
      BY <2>4, <1>1
    <3>2. CASE q < p - 1
      BY <3>1, <3>2, <2>5, <2>1, <1>1, SMTT(40)
    <3>3. CASE q = p - 1
      BY <3>1, <3>3, <2>5, <2>1, <1>1
    <3>4. CASE q = p
      BY <3>1, <3>4, <2>5, <2>1, <1>1, SMTT(40)
    <3>5. CASE q > p
      BY <3>1, <3>5, <2>5, <2>1, <1>1, SMTT(40)
    <3> QED BY <3>2, <3>3, <3>4, <3>5, <3>1, <2>1, <1>1
  <2>8. ASSUME NEW x \in Nat PROVE In(T, x) <=> In(R, x) \/ x = i
    <3>1. ASSUME NEW q \in 1..n, R[q][1] <= x, x < R[q][2] PROVE In(T, x)
      <4>1. CASE q < p - 1
        <5>1. q \in 1..Len(T) /\ T[q] = R[q]
          BY <4>1, <2>1, <2>4, <2>5, <1>1
        <5> QED BY <5>1, <3>1 DEF In
      <4>2. CASE q = p - 1 \/ q = p
        <5>1. p - 1 \in 1..Len(T) /\ T[p - 1][1] = R[p - 1][1] /\ T[p - 1][2] = R[p][2]
          BY <2>1, <2>4, <2>5, <1>1
        <5>2. R[p - 1][1] <= x /\ x < R[p][2]
          BY <4>2, <3>1, <1>5, <1>1, <2>1, SMTT(40)
        <5> QED BY <5>1, <5>2 DEF In
      <4>3. CASE q > p
        <5> DEFINE h == q - 1
        <5>2. h \in 1..(n - 1) /\ h >= p /\ h + 1 = q
          BY <4>3, <2>1, <1>1
        <5> HIDE DEF h
        <5>3. h \in 1..Len(T) /\ T[h] = R[q]
          BY <5>2, <2>4, <2>5
        <5>1. q - 1 \in 1..Len(T) /\ T[q - 1] = R[q]
          BY <5>3 DEF h
        <5> QED BY <5>1, <3>1 DEF In
      <4> QED BY <4>1, <4>2, <4>3, <2>1, <1>1
    <3>2. ASSUME x = i PROVE In(T, x)
      <4>1. p - 1 \in 1..Len(T) /\ T[p - 1][1] = R[p - 1][1] /\ T[p - 1][2] = R[p][2]
        BY <2>1, <2>4, <2>5, <1>1
      <4>2. R[p - 1][1] <= x /\ x < R[p][2]
        BY <3>2, <1>5, <1>1, <2>1
      <4> QED BY <4>1, <4>2 DEF In
    <3>3. ASSUME NEW q \in 1..Len(T), T[q][1] <= x, x < T[q][2] PROVE In(R, x) \/ x = i
      <4>1. CASE q < p - 1
        BY <4>1, <3>3, <2>1, <2>4, <2>5, <1>1 DEF In
      <4>2. CASE q = p - 1
        <5>1. R[p - 1][1] <= x /\ x < R[p][2]
          BY <4>2, <3>3, <2>1, <2>4, <2>5, <1>1
        <5>2. x < R[p - 1][2] \/ x = i \/ R[p][1] <= x
          BY <1>5, <1>1, <2>1
        <5> QED BY <5>1, <5>2, <2>1 DEF In
      <4>3. CASE q >= p
        <5>1. q + 1 \in 1..n /\ T[q] = R[q + 1]
          <6>1. q \in 1..(n - 1) /\ q + 1 \in 1..n
            BY <2>4, <1>1
          <6> QED BY <6>1, <4>3, <2>5
        <5> QED BY <5>1, <3>3 DEF In
      <4> QED BY <4>1, <4>2, <4>3, <2>1, <2>4, <1>1
    <3> QED BY <3>1, <3>2, <3>3 DEF In
  <2> QED BY <2>4, <2>6, <2>7, <2>8, <1>3, SetOf DEF T, U
<1>6. CASE ~ (p <= n /\ R[p][1] <= i) /\ before /\ ~ after
  <2>1. p - 1 \in 1..n /\ R[p - 1][2] + 1 \in Nat /\ R[p - 1][2] = i
    BY <1>6, <1>1, <1>2
  <2>2. T = Longer(R, p - 1, 1)
    BY <1>6 DEF DoAdd
  <2> HIDE DEF T
  <2>3. T \in Seq(Range2) /\ Len(T) = n /\ \A q \in 1..n : T[q] = IF q = p - 1 THEN <<R[p - 1][1], i + 1>> ELSE R[q]
    <3>1. p - 1 \in 1..Len(R) /\ 1 \in Int /\ R[p - 1][2] + 1 \in Nat
      BY <2>1
    <3>2. /\ T \in Seq(Range2) /\ Len(T) = Len(R)
          /\ \A q \in 1..Len(R) : T[q] = IF q = p - 1 THEN <<R[p - 1][1], R[p - 1][2] + 1>> ELSE R[q]
      BY <3>1, <2>2, <1>1, LongerFacts
    <3> QED BY <3>2, <2>1
  <2>4. ASSUME NEW q \in 1..Len(T) PROVE T[q][1] < T[q][2]
    <3>1. q \in 1..n /\ R[q][1] \in Nat /\ R[q][2] \in Nat /\ R[q][1] < R[q][2]
      BY <2>3, <1>1
    <3>2. CASE q = p - 1
      <4>1. T[q][1] = R[q][1] /\ T[q][2] = i + 1
        BY <3>1, <3>2, <2>3
      <4>2. R[q][2] = i /\ i \in Nat
        BY <3>2, <2>1, <1>1
      <4> QED BY <4>1, <4>2, <3>1
    <3>3. CASE q # p - 1
      BY <3>1, <3>3, <2>3
    <3> QED BY <3>2, <3>3
  <2>5. ASSUME NEW q \in 2..Len(T) PROVE T[q - 1][2] < T[q][1]
    <3>1. q \in 1..n /\ q - 1 \in 1..n
      BY <2>3, <1>1
    <3>2. CASE q - 1 = p - 1
      BY <3>1, <3>2, <2>1, <2>3, <1>1, <1>2, <1>6
    <3>3. CASE q - 1 # p - 1
      BY <3>1, <3>3, <2>1, <2>3, <1>1, SMTT(40)
    <3> QED BY <3>2, <3>3
  <2>6. ASSUME NEW x \in Nat PROVE In(T, x) <=> In(R, x) \/ x = i
    <3>1. \A q \in 1..n : q # p - 1 => T[q] = R[q]
      BY <2>3
    <3>2. T[p - 1][1] = R[p - 1][1] /\ T[p - 1][2] = i + 1
      BY <2>1, <2>3
    <3>3. R[p - 1][1] <= i
      BY <2>1, <1>1
    <3>4. ASSUME NEW q \in 1..n, R[q][1] <= x, x < R[q][2] PROVE \E h \in 1..n : T[h][1] <= x /\ x < T[h][2]
      <4>1. CASE q = p - 1
        BY <4>1, <3>4, <3>2, <2>1
      <4>2. CASE q # p - 1
        BY <4>2, <3>4, <3>1
      <4> QED BY <4>1, <4>2
    <3>5. ASSUME x = i PROVE \E h \in 1..n : T[h][1] <= x /\ x < T[h][2]
      BY <3>5, <3>2, <3>3, <2>1
    <3>6. ASSUME NEW q \in 1..n, T[q][1] <= x, x < T[q][2] PROVE x = i \/ \E h \in 1..n : R[h][1] <= x /\ x < R[h][2]
      <4>1. CASE q = p - 1
        <5>1. R[p - 1][1] <= x /\ (x < R[p - 1][2] \/ x = i)
          BY <4>1, <3>6, <3>2, <2>1
        <5> QED BY <5>1, <2>1
      <4>2. CASE q # p - 1
        BY <4>2, <3>6, <3>1
      <4> QED BY <4>1, <4>2
    <3> QED BY <3>4, <3>5, <3>6, <2>3 DEF In
  <2> QED BY <2>3, <2>4, <2>5, <2>6, <1>3, SetOf DEF T, U
<1>7. CASE ~ (p <= n /\ R[p][1] <= i) /\ ~ before /\ after
  <2>1. p \in 1..n /\ R[p][1] = i + 1
    BY <1>7, <1>1, <1>2
  <2>2. T = LowTo(R, p, i)
    BY <1>7 DEF DoAdd, LowTo
  <2> HIDE DEF T
  <2>3. T \in Seq(Range2) /\ Len(T) = n /\ \A q \in 1..n : T[q] = IF q = p THEN <<i, R[p][2]>> ELSE R[q]
    BY <2>1, <2>2, <1>1, LowToFacts
  <2>4. \A q \in 1..Len(T) : T[q][1] < T[q][2]
    BY <2>1, <2>3, <1>1
  <2>5. ASSUME NEW q \in 2..Len(T) PROVE T[q - 1][2] < T[q][1]
    <3>1. q \in 1..n /\ q - 1 \in 1..n
      BY <2>3, <1>1
    <3>2. CASE q = p
      BY <3>1, <3>2, <2>1, <2>3, <1>1, <1>2, <1>7
    <3>3. CASE q # p
      BY <3>1, <3>3, <2>1, <2>3, <1>1
    <3> QED BY <3>2, <3>3
  <2>6. ASSUME NEW x \in Nat PROVE In(T, x) <=> In(R, x) \/ x = i
    <3>1. \A q \in 1..n : q # p => T[q] = R[q]
      BY <2>3
    <3>2. T[p][1] = i /\ T[p][2] = R[p][2]
      BY <2>1, <2>3
    <3>4. ASSUME NEW q \in 1..n, R[q][1] <= x, x < R[q][2] PROVE \E h \in 1..n : T[h][1] <= x /\ x < T[h][2]
      <4>1. CASE q = p
        <5>1. i <= x
          BY <4>1, <3>4, <2>1
        <5> QED BY <5>1, <4>1, <3>4, <3>2, <2>1
      <4>2. CASE q # p
        BY <4>2, <3>4, <3>1
      <4> QED BY <4>1, <4>2
    <3>5. ASSUME x = i PROVE \E h \in 1..n : T[h][1] <= x /\ x < T[h][2]
      <4>1. x < R[p][2]
        BY <3>5, <1>1, <1>2, <2>1
      <4> QED BY <4>1, <3>5, <3>2, <2>1
    <3>6. ASSUME NEW q \in 1..n, T[q][1] <= x, x < T[q][2] PROVE x = i \/ \E h \in 1..n : R[h][1] <= x /\ x < R[h][2]
      <4>1. CASE q = p
        <5>1. x < R[p][2] /\ (R[p][1] <= x \/ x = i)
          BY <4>1, <3>6, <3>2, <2>1
        <5> QED BY <5>1, <2>1
      <4>2. CASE q # p
        BY <4>2, <3>6, <3>1
      <4> QED BY <4>1, <4>2
    <3> QED BY <3>4, <3>5, <3>6, <2>3 DEF In
  <2> QED BY <2>3, <2>4, <2>5, <2>6, <1>3, SetOf DEF T, U
<1>8. CASE ~ (p <= n /\ R[p][1] <= i) /\ ~ before /\ ~ after
  <2> DEFINE e == <<i, i + 1>>
  <2>1. e \in Range2 /\ e[1] = i /\ e[2] = i + 1
    BY DEF Range2
  <2>2. T = InsertAt(R, p, e)
    BY <1>8 DEF DoAdd
  <2> HIDE DEF T, e
  <2>3. /\ T \in Seq(Range2) /\ Len(T) = n + 1
        /\ \A q \in 1..(n + 1) : T[q] = IF q < p THEN R[q] ELSE IF q = p THEN e ELSE R[q - 1]
    <3>1. p \in 1..(Len(R) + 1) /\ R \in Seq(Range2) /\ e \in Range2
      BY <2>1, <1>1, <1>2
    <3>2. IsInserted(Range2, R, p, e, T)
      BY <3>1, <2>2, InsertionIs
    <3>3. Len(R) = n
      BY <1>1
    <3> QED BY <3>2, <3>3 DEF IsInserted
  <2>4. ASSUME NEW q \in 1..Len(T) PROVE T[q][1] < T[q][2]
    <3>1. CASE q < p
      BY <3>1, <2>3, <1>1, <1>2
    <3>2. CASE q = p
      BY <3>2, <2>1, <2>3, <1>1, <1>2
    <3>3. CASE q > p
      <4>1. q - 1 \in 1..n /\ T[q] = R[q - 1]
        BY <3>3, <2>3, <1>1, <1>2
      <4> QED BY <4>1, <1>1
    <3> QED BY <3>1, <3>2, <3>3, <1>1, <1>2, <2>3
  <2>5. ASSUME NEW q \in 2..Len(T) PROVE T[q - 1][2] < T[q][1]
    <3>1. q \in 1..(n + 1) /\ q - 1 \in 1..n
      BY <2>3, <1>1
    <3>2. CASE q < p
      <4>1. q \in 1..n /\ T[q] = R[q] /\ T[q - 1] = R[q - 1]
        BY <3>1, <3>2, <2>3, <1>1, <1>2
      <4> QED BY <4>1, <3>1, <1>1
    <3>3. CASE q = p
      <4>1. T[q] = e /\ T[q - 1] = R[q - 1] /\ R[q - 1][2] <= i /\ R[q - 1][2] # i /\ R[q - 1][2] \in Nat
        BY <3>1, <3>3, <2>3, <1>1, <1>2, <1>8
      <4> QED BY <4>1, <2>1
    <3>4. CASE q = p + 1
      <4>1. T[q] = R[p] /\ T[q - 1] = e /\ p \in 1..n
        BY <3>1, <3>4, <2>3, <1>1, <1>2
      <4>2. R[p][1] > i /\ R[p][1] # i + 1 /\ R[p][1] \in Nat
        BY <4>1, <1>1, <1>8
      <4> QED BY <4>1, <4>2, <2>1
    <3>5. CASE q > p + 1
      <4> DEFINE h == q - 1
      <4>1. h - 1 \in 1..n /\ h \in 1..n /\ h > p /\ h \in 1..(n + 1)
        BY <3>1, <3>5, <1>1, <1>2
      <4>2. T[q] = R[h] /\ T[h] = R[h - 1]
        <5>1. T[q] = R[q - 1]
          BY <3>1, <3>5, <1>2, <2>3
        <5> HIDE DEF h
        <5>2. T[h] = R[h - 1]
          BY <4>1, <1>2, <2>3
        <5> QED BY <5>1, <5>2 DEF h
      <4>3. R[h - 1][2] < R[h][1]
        <5>1. h - 1 < h
          BY <4>1
        <5> QED BY <4>1, <5>1, <1>1
      <4> QED BY <4>2, <4>3
    <3> QED BY <3>1, <3>2, <3>3, <3>4, <3>5, <1>1, <1>2
  <2>6. ASSUME NEW x \in Nat PROVE In(T, x) <=> In(R, x) \/ x = i
    <3>1. ASSUME NEW q \in 1..n, R[q][1] <= x, x < R[q][2] PROVE In(T, x)
      <4>1. CASE q < p
        <5>1. q \in 1..Len(T) /\ T[q] = R[q]
          BY <4>1, <2>3, <1>1, <1>2
        <5> QED BY <5>1, <3>1 DEF In
      <4>2. CASE q >= p
        <5>1. q + 1 \in 1..Len(T) /\ T[q + 1] = R[(q + 1) - 1] /\ (q + 1) - 1 = q
          BY <4>2, <2>3, <1>1, <1>2
        <5> QED BY <5>1, <3>1 DEF In
      <4> QED BY <4>1, <4>2, <1>1, <1>2
    <3>2. ASSUME x = i PROVE In(T, x)
      <4>1. p \in 1..Len(T) /\ T[p] = e
        BY <2>3, <1>1, <1>2
      <4> QED BY <4>1, <2>1, <3>2 DEF In
    <3>3. ASSUME NEW q \in 1..Len(T), T[q][1] <= x, x < T[q][2] PROVE In(R, x) \/ x = i
      <4>1. CASE q < p
        <5>1. q \in 1..n /\ T[q] = R[q]
          BY <4>1, <2>3, <1>1, <1>2
        <5> QED BY <5>1, <3>3 DEF In
      <4>2. CASE q = p
        <5>1. T[q] = e
          BY <4>2, <2>3
        <5> QED BY <5>1, <3>3, <2>1
      <4>3. CASE q > p
        <5>1. q - 1 \in 1..n /\ T[q] = R[q - 1]
          BY <4>3, <2>3, <1>1, <1>2
        <5> QED BY <5>1, <3>3 DEF In
      <4> QED BY <4>1, <4>2, <4>3, <2>3, <1>1, <1>2
    <3> QED BY <3>1, <3>2, <3>3 DEF In
  <2> QED BY <2>3, <2>4, <2>5, <2>6, <1>3, SetOf DEF T, U
<1> QED BY <1>4, <1>5, <1>6, <1>7, <1>8

LEMMA FindIsPlace ==
    ASSUME NEW R \in Sets, NEW i \in Nat
    PROVE  Place(R, Find(R, i), i)
BY FindFacts DEF Place

\* add
THEOREM AddAdds ==
    ASSUME NEW R \in Sets, NEW i \in Nat
    PROVE  Add(R, i) \in Sets /\ Indexes(Add(R, i)) = Indexes(R) \cup {i}
BY FindIsPlace, DoAddFacts DEF Add

-----------------------------------------------------------------------------
(* Folds of additions                                                      *)

\* The operators of the folds, with a value that stays the same in each
AddOp(c, R, i) == Add(R, i)
AddFold == INSTANCE FoldTheorems WITH op <- AddOp

LEMMA AddsFacts ==
    ASSUME NEW R \in Sets, NEW n \in Nat, NEW s, DOMAIN s = 1..n, \A k \in 1..n : s[k] \in Nat
    PROVE  /\ FoldLeft(Add, R, s) \in Sets
           /\ Indexes(FoldLeft(Add, R, s)) = Indexes(R) \cup {s[k] : k \in 1..n}
<1> DEFINE Inv == [k \in 0..n |-> {T \in Sets : Indexes(T) = Indexes(R) \cup {s[h] : h \in 1..k}}]
           fold == FoldLeft(Add, R, s)
<1>1. R \in Inv[0]
  OBVIOUS
<1>2. ASSUME NEW k \in 1..n, NEW T \in Inv[k - 1] PROVE AddOp(0, T, s[k]) \in Inv[k]
  <2>1. k \in 0..n /\ k - 1 \in 0..n /\ 1..k = (1..(k - 1)) \cup {k}
    OBVIOUS
  <2>2. T \in Sets /\ Indexes(T) = Indexes(R) \cup {s[h] : h \in 1..(k - 1)}
    BY <2>1
  <2>3. Add(T, s[k]) \in Sets /\ Indexes(Add(T, s[k])) = Indexes(T) \cup {s[k]}
    BY <2>2, AddAdds
  <2>4. {s[h] : h \in 1..k} = {s[h] : h \in 1..(k - 1)} \cup {s[k]}
    BY <2>1
  <2> QED BY <2>1, <2>2, <2>3, <2>4 DEF AddOp
<1> HIDE DEF Inv
<1>3. AddFold!Fold(0, R, s) \in Inv[n]
  BY <1>1, <1>2, AddFold!FoldInvariant
<1>4. AddFold!Fold(0, R, s) = fold
  BY DEF AddOp, AddFold!Fold, FoldLeft, MapThenFoldSet, Max, AddFold!Greatest
<1>5. fold \in Inv[n]
  BY <1>3, <1>4
<1> QED BY <1>5 DEF Inv

-----------------------------------------------------------------------------
(* Inserting and erasing at an index                                       *)

\* The ranges from p on, which begin at i or after it, are moved by n.
LEMMA ShiftedRanges ==
    ASSUME NEW R \in Sets, NEW i \in Nat, NEW p, Place(R, p, i), NEW n \in Int,
           p <= Len(R) => i <= R[p][1] /\ R[p][1] + n >= 0,
           p \in 2..Len(R) => R[p - 1][2] < R[p][1] + n
    PROVE  /\ ShiftFrom(R, p, n) \in Sets /\ Len(ShiftFrom(R, p, n)) = Len(R)
           /\ \A q \in 1..Len(R) : ShiftFrom(R, p, n)[q] = IF q < p THEN R[q] ELSE <<R[q][1] + n, R[q][2] + n>>
           /\ \A x \in Nat : x \in Indexes(ShiftFrom(R, p, n)) <=>
                 (x \in Indexes(R) /\ x < i) \/ (x - n \in Indexes(R) /\ x - n >= i)
<1> DEFINE m == Len(R)
           T == ShiftFrom(R, p, n)
<1>1. /\ R \in Seq(Range2) /\ m \in Nat
      /\ \A q \in 1..m : R[q] \in Range2 /\ R[q][1] \in Nat /\ R[q][2] \in Nat /\ R[q][1] < R[q][2]
      /\ \A q, h \in 1..m : q < h => R[q][2] < R[h][1]
  BY SetFacts, RangesInOrder
<1>2. p \in 1..(m + 1) /\ \A q \in 1..m : (q < p => R[q][2] <= i) /\ (p <= q => i < R[q][2])
  BY DEF Place
<1>3. ASSUME NEW q \in 1..m, p <= q
      PROVE  i <= R[q][1] /\ R[q][1] + n \in Nat /\ R[q][2] + n \in Nat
  <2>1. p \in 1..m
    BY <1>3, <1>1, <1>2
  <2>2. R[p][1] <= R[q][1]
    <3>1. CASE p = q
      BY <3>1, <1>1, <2>1
    <3>2. CASE p # q
      BY <3>2, <2>1, <1>1, <1>3, SMTT(40)
    <3> QED BY <3>1, <3>2
  <2> QED BY <2>1, <2>2, <1>1, SMTT(40)
<1>4. /\ T \in Seq(Range2) /\ Len(T) = m
      /\ \A q \in 1..m : T[q] = IF q < p THEN R[q] ELSE <<R[q][1] + n, R[q][2] + n>>
  <2>1. p \in Int
    BY <1>1, <1>2
  <2> QED BY <2>1, <1>1, <1>3, ShiftFromFacts
<1> HIDE DEF T
<1>9. ASSUME NEW q \in 1..m
      PROVE  (q < p => T[q] = R[q]) /\ (~ (q < p) => T[q][1] = R[q][1] + n /\ T[q][2] = R[q][2] + n)
  <2>1. T[q] = IF q < p THEN R[q] ELSE <<R[q][1] + n, R[q][2] + n>>
    BY <1>4
  <2> QED BY <2>1
<1>5. ASSUME NEW q \in 1..m PROVE T[q][1] < T[q][2]
  <2>1. CASE q < p
    BY <2>1, <1>1, <1>9
  <2>2. CASE ~ (q < p)
    BY <2>2, <1>1, <1>9
  <2> QED BY <2>1, <2>2
<1>6. ASSUME NEW q \in 2..m PROVE T[q - 1][2] < T[q][1]
  <2>1. q \in 1..m /\ q - 1 \in 1..m /\ R[q - 1][2] < R[q][1]
    BY <1>1
  <2>2. CASE q < p
    BY <2>1, <2>2, <1>2, <1>4, <1>9
  <2>3. CASE q = p
    BY <2>1, <2>3, <1>2, <1>9, <1>1
  <2>4. CASE q > p
    <3>1. ~ (q < p) /\ ~ (q - 1 < p)
      BY <2>4, <1>1, <1>2
    <3> QED BY <2>1, <3>1, <1>1, <1>9
  <2> QED BY <2>2, <2>3, <2>4, <1>1, <1>2
<1>7. T \in Sets
  BY <1>4, <1>5, <1>6 DEF Sets, WellFormed
<1>8. ASSUME NEW x \in Nat
      PROVE  In(T, x) <=> (x \in Indexes(R) /\ x < i) \/ (x - n \in Indexes(R) /\ x - n >= i)
  <2>1. ASSUME NEW q \in 1..m, T[q][1] <= x, x < T[q][2]
        PROVE  (x \in Indexes(R) /\ x < i) \/ (x - n \in Indexes(R) /\ x - n >= i)
    <3>1. CASE q < p
      <4>1. R[q][1] <= x /\ x < R[q][2] /\ x < i
        BY <3>1, <2>1, <1>1, <1>2, <1>4, <1>9
      <4>2. In(R, x)
        BY <4>1 DEF In
      <4> QED BY <4>1, <4>2, InOf
    <3>2. CASE ~ (q < p)
      <4>1. p <= q
        BY <3>2, <1>1, <1>2
      <4>2. i <= R[q][1]
        BY <4>1, <1>3
      <4> DEFINE y == x - n
      <4>3. T[q][1] = R[q][1] + n /\ T[q][2] = R[q][2] + n
        BY <3>2, <1>9
      <4>4. y \in Nat /\ R[q][1] <= y /\ y < R[q][2] /\ y >= i
        BY <4>2, <4>3, <2>1, <1>1
      <4>5. In(R, y)
        BY <4>4 DEF In
      <4> QED BY <4>4, <4>5, InOf
    <3> QED BY <3>1, <3>2
  <2>2. ASSUME x \in Indexes(R), x < i PROVE In(T, x)
    <3>1. PICK q \in 1..m : R[q][1] <= x /\ x < R[q][2]
      BY <2>2, InOf DEF In
    <3>2. q < p
      <4>1. ASSUME p <= q PROVE FALSE
        BY <4>1, <3>1, <2>2, <1>1, <1>3
      <4> QED BY <4>1, <1>2, <1>1
    <3>3. T[q] = R[q]
      BY <3>2, <1>9
    <3> QED BY <3>1, <3>3, <1>4 DEF In
  <2>3. ASSUME x - n \in Indexes(R), x - n >= i PROVE In(T, x)
    <3> DEFINE y == x - n
    <3>0. y \in Nat
      BY <2>3, IndexesFinite
    <3>1. PICK q \in 1..m : R[q][1] <= y /\ y < R[q][2]
      BY <2>3, <3>0, InOf DEF In
    <3>2. ~ (q < p)
      <4>1. ASSUME q < p PROVE FALSE
        BY <4>1, <3>0, <3>1, <2>3, <1>1, <1>2
      <4> QED BY <4>1
    <3>3. T[q][1] = R[q][1] + n /\ T[q][2] = R[q][2] + n
      BY <3>2, <1>9
    <3>4. T[q][1] <= x /\ x < T[q][2]
      BY <3>0, <3>1, <3>3, <1>1
    <3> QED BY <3>4, <1>4 DEF In
  <2> QED BY <2>1, <2>2, <2>3, <1>4 DEF In
<1> QED BY <1>4, <1>7, <1>8, InOf DEF T

\* The facts of a set and of a place in it that the proofs below use
LEMMA PlaceFacts ==
    ASSUME NEW R \in Sets, NEW i \in Nat, NEW p, Place(R, p, i)
    PROVE  /\ R \in Seq(Range2) /\ Len(R) \in Nat /\ p \in 1..(Len(R) + 1)
           /\ \A q \in 1..Len(R) : R[q] \in Range2 /\ R[q][1] \in Nat /\ R[q][2] \in Nat /\ R[q][1] < R[q][2]
           /\ \A q, h \in 1..Len(R) : q < h => R[q][2] < R[h][1]
           /\ \A q \in 1..Len(R) : q < p => R[q][2] <= i /\ R[q][1] < i
           /\ \A q \in 1..Len(R) : p <= q => i < R[q][2]
           /\ \A q \in 1..Len(R) : p < q => i < R[q][1]
<1>1. /\ R \in Seq(Range2) /\ Len(R) \in Nat
      /\ \A q \in 1..Len(R) : R[q] \in Range2 /\ R[q][1] \in Nat /\ R[q][2] \in Nat /\ R[q][1] < R[q][2]
      /\ \A q, h \in 1..Len(R) : q < h => R[q][2] < R[h][1]
  BY SetFacts, RangesInOrder
<1>2. p \in 1..(Len(R) + 1) /\ \A q \in 1..Len(R) : (q < p => R[q][2] <= i) /\ (p <= q => i < R[q][2])
  BY DEF Place
<1>3. ASSUME NEW q \in 1..Len(R), q < p PROVE R[q][2] <= i /\ R[q][1] < i
  BY <1>1, <1>2, <1>3
<1>4. ASSUME NEW q \in 1..Len(R), p < q PROVE i < R[q][1]
  <2>1. p \in 1..Len(R)
    BY <1>1, <1>2, <1>4
  <2>2. R[p][2] < R[q][1] /\ i < R[p][2]
    BY <2>1, <1>1, <1>2, <1>4
  <2> QED BY <2>1, <2>2, <1>1
<1> QED BY <1>1, <1>2, <1>3, <1>4

\* shift_for_insert_at
LEMMA ShiftForInsertAtFacts ==
    ASSUME NEW R \in Sets, NEW i \in Nat, NEW n \in Nat \ {0}
    PROVE  /\ ShiftForInsertAt(R, i, n) \in Sets
           /\ \A x \in Nat : x \in Indexes(ShiftForInsertAt(R, i, n)) <=>
                 (x \in Indexes(R) /\ x < i) \/ (x - n \in Indexes(R) /\ x - n >= i)
<1> DEFINE p == Find(R, i)
           m == Len(R)
           M == ShiftFrom(R, p, n)
           T == ShiftForInsertAt(R, i, n)
           low == <<R[p][1], i>>
           high == <<i + n, R[p][2] + n>>
           C == [M EXCEPT ![p] = low]
<1>1. Place(R, p, i)
  BY FindIsPlace
<1> HIDE DEF p
<1>2. /\ R \in Seq(Range2) /\ m \in Nat /\ p \in 1..(m + 1)
      /\ \A q \in 1..m : R[q] \in Range2 /\ R[q][1] \in Nat /\ R[q][2] \in Nat /\ R[q][1] < R[q][2]
      /\ \A q, h \in 1..m : q < h => R[q][2] < R[h][1]
      /\ \A q \in 1..m : q < p => R[q][2] <= i /\ R[q][1] < i
      /\ \A q \in 1..m : p <= q => i < R[q][2]
      /\ \A q \in 1..m : p < q => i < R[q][1]
  BY <1>1, PlaceFacts
<1>3. CASE ~ (p <= m /\ R[p][1] < i)
  <2>1. T = M
    BY <1>3 DEF ShiftForInsertAt, p
  <2>2. p <= m => i <= R[p][1] /\ R[p][1] + n >= 0
    BY <1>3, <1>2
  <2>3. ASSUME p \in 2..m PROVE R[p - 1][2] < R[p][1] + n
    <3>1. p \in 1..m /\ p - 1 \in 1..m /\ p - 1 < p
      BY <2>3, <1>2
    <3> QED BY <3>1, <1>2
  <2>4. /\ M \in Sets
        /\ \A x \in Nat : x \in Indexes(M) <=> (x \in Indexes(R) /\ x < i) \/ (x - n \in Indexes(R) /\ x - n >= i)
    BY <2>2, <2>3, <1>1, ShiftedRanges
  <2> QED BY <2>1, <2>4
<1>4. CASE p <= m /\ R[p][1] < i
  <2>1. p \in 1..m /\ R[p][1] \in Nat /\ R[p][2] \in Nat /\ R[p][1] < i /\ i < R[p][2]
    BY <1>2, <1>4
  <2>2. T = InsertAt(C, p + 1, high)
    BY <1>4 DEF ShiftForInsertAt, p
  <2>3. low \in Range2 /\ high \in Range2 /\ low[1] = R[p][1] /\ low[2] = i /\ high[1] = i + n /\ high[2] = R[p][2] + n
    BY <2>1 DEF Range2
  <2> HIDE DEF low, high
  <2>4. /\ M \in Seq(Range2) /\ Len(M) = m
        /\ \A q \in 1..m : M[q] = IF q < p THEN R[q] ELSE <<R[q][1] + n, R[q][2] + n>>
    <3>1. p \in Int /\ n \in Int /\ \A q \in 1..m : p <= q => R[q][1] + n \in Nat /\ R[q][2] + n \in Nat
      BY <1>2
    <3>2. R \in Seq(Range2)
      BY <1>2
    <3> QED BY <3>1, <3>2, ShiftFromFacts
  <2> HIDE DEF M
  <2>5. C \in Seq(Range2) /\ Len(C) = m /\ \A q \in 1..m : C[q] = IF q = p THEN low ELSE M[q]
    BY <2>1, <2>3, <2>4, ExceptSeq
  <2> HIDE DEF C, T
  <2>6. /\ T \in Seq(Range2) /\ Len(T) = m + 1
        /\ \A q \in 1..(m + 1) : T[q] = IF q < p + 1 THEN C[q] ELSE IF q = p + 1 THEN high ELSE C[q - 1]
    <3>1. p + 1 \in 1..(Len(C) + 1) /\ C \in Seq(Range2) /\ high \in Range2
      BY <2>1, <2>3, <2>5, <1>2
    <3>2. /\ T \in Seq(Range2) /\ Len(T) = Len(C) + 1
          /\ \A q \in 1..(Len(C) + 1) : T[q] = IF q < p + 1 THEN C[q] ELSE IF q = p + 1 THEN high ELSE C[q - 1]
      <4> DEFINE k == p + 1
      <4>1. k \in 1..(Len(C) + 1) /\ T = InsertAt(C, k, high)
        BY <3>1, <2>2
      <4> HIDE DEF k
      <4>2. /\ T \in Seq(Range2) /\ Len(T) = Len(C) + 1
            /\ \A q \in 1..(Len(C) + 1) : T[q] = IF q < k THEN C[q] ELSE IF q = k THEN high ELSE C[q - 1]
        <5>1. C \in Seq(Range2) /\ k \in 1..(Len(C) + 1) /\ high \in Range2
          BY <4>1, <3>1
        <5>2. IsInserted(Range2, C, k, high, T)
          BY <5>1, <4>1, InsertionIs
        <5> QED BY <5>2 DEF IsInserted
      <4> QED BY <4>2 DEF k
    <3>3. Len(C) = m
      BY <2>5
    <3> QED BY <3>2, <3>3
  <2>7. ASSUME NEW q \in 1..m, q < p PROVE q \in 1..(m + 1) /\ T[q] = R[q]
    <3>1. M[q] = R[q]
      BY <2>4, <2>7
    <3>2. C[q] = M[q] /\ q < p + 1 /\ q \in 1..(m + 1)
      BY <2>5, <2>7, <2>1, <1>2
    <3> QED BY <3>1, <3>2, <2>6
  <2>8. p \in 1..(m + 1) /\ T[p] = low /\ p + 1 \in 1..(m + 1) /\ T[p + 1] = high
    <3>1. C[p] = low /\ p < p + 1 /\ p \in 1..(m + 1) /\ p + 1 \in 1..(m + 1) /\ ~ (p + 1 < p + 1)
      BY <2>1, <2>5, <1>2
    <3> QED BY <3>1, <2>6
  <2>9. ASSUME NEW q \in 1..m, p < q
        PROVE  q + 1 \in 1..(m + 1) /\ T[q + 1][1] = R[q][1] + n /\ T[q + 1][2] = R[q][2] + n
    <3> DEFINE h == q + 1
    <3>1. h \in 1..(m + 1) /\ ~ (h < p + 1) /\ h # p + 1 /\ h - 1 = q /\ ~ (q < p) /\ q # p
      BY <2>1, <2>9, <1>2
    <3>2. M[q] = <<R[q][1] + n, R[q][2] + n>> /\ C[q] = M[q]
      BY <2>4, <2>5, <3>1
    <3> HIDE DEF h
    <3>3. T[h] = C[q]
      BY <3>1, <2>6
    <3> QED BY <3>1, <3>2, <3>3 DEF h
  <2>10. ASSUME NEW q \in 1..Len(T)
         PROVE  \/ q \in 1..m /\ q < p
                \/ q = p
                \/ q = p + 1
                \/ \E h \in 1..m : p < h /\ q = h + 1
    <3>1. q > p + 1 => q - 1 \in 1..m /\ p < q - 1 /\ q = (q - 1) + 1
      BY <2>6, <2>1, <1>2
    <3>2. q < p => q \in 1..m
      BY <2>6, <2>1, <1>2
    <3> QED BY <3>1, <3>2, <2>6, <2>1, <1>2
  <2>11. ASSUME NEW q \in 1..Len(T) PROVE T[q][1] < T[q][2]
    <3>1. CASE q \in 1..m /\ q < p
      BY <3>1, <2>7, <1>2
    <3>2. CASE q = p
      BY <3>2, <2>8, <2>3, <2>1
    <3>3. CASE q = p + 1
      BY <3>3, <2>8, <2>3, <2>1
    <3>4. CASE \E h \in 1..m : p < h /\ q = h + 1
      <4>1. PICK h \in 1..m : p < h /\ q = h + 1
        BY <3>4
      <4>2. T[q][1] = R[h][1] + n /\ T[q][2] = R[h][2] + n
        BY <4>1, <2>9
      <4>3. R[h][1] \in Nat /\ R[h][2] \in Nat /\ R[h][1] < R[h][2]
        BY <4>1, <1>2
      <4> QED BY <4>2, <4>3
    <3> QED BY <3>1, <3>2, <3>3, <3>4, <2>10
  <2>12. ASSUME NEW q \in 2..Len(T) PROVE T[q - 1][2] < T[q][1]
    <3>0. q \in 1..Len(T)
      BY <2>6, <1>2
    <3>1. CASE q \in 1..m /\ q < p
      <4>1. q - 1 \in 1..m /\ q - 1 < p /\ q - 1 < q
        BY <3>1, <1>2, <2>6
      <4>2. T[q] = R[q] /\ T[q - 1] = R[q - 1] /\ R[q - 1][2] < R[q][1]
        BY <4>1, <3>1, <2>7, <1>2
      <4> QED BY <4>2
    <3>2. CASE q = p
      <4>1. q - 1 \in 1..m /\ q - 1 < p
        BY <3>2, <1>2, <2>1, <2>6
      <4>2. T[q - 1] = R[q - 1] /\ R[q - 1][2] < R[p][1]
        BY <4>1, <2>7, <1>2, <2>1
      <4> QED BY <4>2, <3>2, <2>8, <2>3
    <3>3. CASE q = p + 1
      <4>1. q - 1 = p
        BY <3>3, <1>2
      <4> QED BY <4>1, <3>3, <2>8, <2>3
    <3>4. CASE \E h \in 1..m : p < h /\ q = h + 1
      <4>1. PICK h \in 1..m : p < h /\ q = h + 1
        BY <3>4
      <4>2. T[q][1] = R[h][1] + n /\ q - 1 = h
        BY <4>1, <2>9, <1>2
      <4>3. CASE h = p + 1
        <5>1. T[q - 1][2] = R[p][2] + n /\ R[p][2] < R[h][1]
          BY <4>1, <4>2, <4>3, <2>1, <2>3, <2>8, <1>2
        <5> QED BY <5>1, <4>2, <4>1, <2>1, <1>2
      <4>4. CASE h # p + 1
        <5> DEFINE g == h - 1
        <5>1. g \in 1..m /\ p < g /\ g + 1 = h /\ g < h
          BY <4>1, <4>4, <2>1, <1>2
        <5> HIDE DEF g
        <5>2. T[h][2] = R[g][2] + n /\ R[g][2] < R[h][1]
          BY <5>1, <2>9, <1>2
        <5> QED BY <5>1, <5>2, <4>2, <4>1, <1>2
      <4> QED BY <4>3, <4>4
    <3> QED BY <3>0, <3>1, <3>2, <3>3, <3>4, <2>10
  <2>13. T \in Sets
    BY <2>6, <2>11, <2>12 DEF Sets, WellFormed
  <2>14. ASSUME NEW x \in Nat
         PROVE  In(T, x) <=> (x \in Indexes(R) /\ x < i) \/ (x - n \in Indexes(R) /\ x - n >= i)
    <3> DEFINE y == x - n
    <3>1. ASSUME NEW q \in 1..Len(T), T[q][1] <= x, x < T[q][2]
          PROVE  (In(R, x) /\ x < i) \/ (y \in Nat /\ In(R, y) /\ y >= i)
      <4>1. CASE q \in 1..m /\ q < p
        <5>1. T[q] = R[q] /\ R[q][2] <= i /\ R[q][2] \in Nat
          BY <4>1, <2>7, <1>2
        <5> QED BY <5>1, <4>1, <3>1 DEF In
      <4>2. CASE q = p
        <5>1. R[p][1] <= x /\ x < i /\ x < R[p][2]
          BY <4>2, <3>1, <2>1, <2>8, <2>3
        <5> QED BY <5>1, <2>1 DEF In
      <4>3. CASE q = p + 1
        <5>1. i <= y /\ y \in Nat /\ R[p][1] <= y /\ y < R[p][2]
          BY <4>3, <3>1, <2>1, <2>8, <2>3
        <5> QED BY <5>1, <2>1 DEF In
      <4>4. CASE \E h \in 1..m : p < h /\ q = h + 1
        <5>1. PICK h \in 1..m : p < h /\ q = h + 1
          BY <4>4
        <5>2. T[q][1] = R[h][1] + n /\ T[q][2] = R[h][2] + n /\ i < R[h][1] /\ R[h][1] \in Nat /\ R[h][2] \in Nat
          BY <5>1, <2>9, <1>2
        <5>3. i <= y /\ y \in Nat /\ R[h][1] <= y /\ y < R[h][2]
          BY <5>2, <3>1, SMTT(40)
        <5> QED BY <5>3 DEF In
      <4> QED BY <4>1, <4>2, <4>3, <4>4, <2>10
    <3>2. ASSUME NEW q \in 1..m, R[q][1] <= x, x < R[q][2], x < i PROVE In(T, x)
      <4>1. q <= p
        BY <3>2, <1>2
      <4>2. CASE q < p
        BY <4>2, <3>2, <2>6, <2>7 DEF In
      <4>3. CASE q = p
        BY <4>3, <3>2, <2>6, <2>8, <2>3 DEF In
      <4> QED BY <4>1, <4>2, <4>3, <1>2
    <3>3. ASSUME NEW q \in 1..m, y \in Nat, R[q][1] <= y, y < R[q][2], y >= i PROVE In(T, x)
      <4>1. q >= p
        BY <3>3, <1>2
      <4>2. CASE q = p
        <5>1. T[p + 1][1] <= x /\ x < T[p + 1][2]
          BY <4>2, <3>3, <2>1, <2>8, <2>3
        <5> QED BY <5>1, <2>6, <2>8 DEF In
      <4>3. CASE q > p
        <5>1. q + 1 \in 1..(m + 1) /\ T[q + 1][1] = R[q][1] + n /\ T[q + 1][2] = R[q][2] + n /\ R[q][1] \in Nat /\ R[q][2] \in Nat
          BY <4>3, <2>9, <1>2
        <5>2. T[q + 1][1] <= x /\ x < T[q + 1][2]
          BY <5>1, <3>3
        <5> QED BY <5>1, <5>2, <2>6 DEF In
      <4> QED BY <4>1, <4>2, <4>3, <1>2
    <3>4. y \in Indexes(R) => y \in Nat
      BY IndexesFinite
    <3>5. y \in Nat => (y \in Indexes(R) <=> In(R, y))
      BY InOf
    <3>6. x \in Indexes(R) <=> In(R, x)
      BY InOf
    <3> HIDE DEF y
    <3>7. In(T, x) <=> (x \in Indexes(R) /\ x < i) \/ (y \in Indexes(R) /\ y >= i)
      BY <3>1, <3>2, <3>3, <3>4, <3>5, <3>6 DEF In
    <3> QED BY <3>7 DEF y
  <2> QED BY <2>13, <2>14, InOf DEF T
<1> QED BY <1>3, <1>4

\* insert_at(index, count)
LEMMA InsertAtIndexFacts ==
    ASSUME NEW R \in Sets, NEW i \in Nat, NEW n \in Nat
    PROVE  /\ InsertAtIndex(R, i, n) \in Sets
           /\ \A x \in Nat : x \in Indexes(InsertAtIndex(R, i, n)) <=>
                 \/ x \in Indexes(R) /\ x < i
                 \/ x - n \in Indexes(R) /\ x - n >= i
                 \/ i <= x /\ x < i + n
<1> DEFINE p == Find(R, i)
           m == Len(R)
           T == InsertAtIndex(R, i, n)
<1>1. Place(R, p, i)
  BY FindIsPlace
<1> HIDE DEF p
<1>2. /\ R \in Seq(Range2) /\ m \in Nat /\ p \in 1..(m + 1)
      /\ \A q \in 1..m : R[q] \in Range2 /\ R[q][1] \in Nat /\ R[q][2] \in Nat /\ R[q][1] < R[q][2]
      /\ \A q, h \in 1..m : q < h => R[q][2] < R[h][1]
      /\ \A q \in 1..m : q < p => R[q][2] <= i /\ R[q][1] < i
      /\ \A q \in 1..m : p <= q => i < R[q][2]
      /\ \A q \in 1..m : p < q => i < R[q][1]
  BY <1>1, PlaceFacts
<1>3. CASE ~ (p <= m /\ R[p][1] <= i)
  <2> DEFINE M == ShiftFrom(R, p, n)
             s == [k \in 1..n |-> i + k - 1]
  <2>1. T = FoldLeft(Add, M, s)
    BY <1>3 DEF InsertAtIndex, p
  <2>2. p <= m => i <= R[p][1] /\ R[p][1] + n >= 0
    BY <1>3, <1>2
  <2>3. ASSUME p \in 2..m PROVE R[p - 1][2] < R[p][1] + n
    <3>1. p \in 1..m /\ p - 1 \in 1..m /\ p - 1 < p
      BY <2>3, <1>2
    <3> QED BY <3>1, <1>2
  <2>4. /\ M \in Sets
        /\ \A x \in Nat : x \in Indexes(M) <=> (x \in Indexes(R) /\ x < i) \/ (x - n \in Indexes(R) /\ x - n >= i)
    BY <2>2, <2>3, <1>1, ShiftedRanges
  <2>5. DOMAIN s = 1..n /\ \A k \in 1..n : s[k] = i + k - 1 /\ s[k] \in Nat
    OBVIOUS
  <2> HIDE DEF M, s, T
  <2>6. FoldLeft(Add, M, s) \in Sets /\ Indexes(FoldLeft(Add, M, s)) = Indexes(M) \cup {s[k] : k \in 1..n}
    BY <2>4, <2>5, AddsFacts
  <2>7. ASSUME NEW x \in Nat PROVE x \in {s[k] : k \in 1..n} <=> (i <= x /\ x < i + n)
    <3>1. ASSUME i <= x, x < i + n PROVE x \in {s[k] : k \in 1..n}
      <4> DEFINE k == x - i + 1
      <4>1. k \in 1..n /\ i + k - 1 = x
        BY <3>1
      <4> QED BY <4>1, <2>5
    <3>2. ASSUME NEW k \in 1..n, x = s[k] PROVE i <= x /\ x < i + n
      BY <3>2, <2>5
    <3> QED BY <3>1, <3>2
  <2>8. T \in Sets /\ Indexes(T) = Indexes(M) \cup {s[k] : k \in 1..n}
    BY <2>1, <2>6
  <2>9. \A x \in Nat : x \in Indexes(T) <=> x \in Indexes(M) \/ (i <= x /\ x < i + n)
    BY <2>7, <2>8
  <2> QED BY <2>4, <2>8, <2>9 DEF T
<1>4. CASE p <= m /\ R[p][1] <= i
  <2> DEFINE p1 == p + 1
             M == ShiftFrom(R, p1, n)
  <2>1. p \in 1..m /\ R[p][1] \in Nat /\ R[p][2] \in Nat /\ R[p][1] <= i /\ i < R[p][2] /\ p1 \in Int
    BY <1>2, <1>4
  <2>2. T = Longer(M, p, n)
    BY <1>4 DEF InsertAtIndex, p
  <2>3. /\ M \in Seq(Range2) /\ Len(M) = m
        /\ \A q \in 1..m : M[q] = IF q < p1 THEN R[q] ELSE <<R[q][1] + n, R[q][2] + n>>
    <3> HIDE DEF p1
    <3>1. n \in Int /\ \A q \in 1..m : p1 <= q => R[q][1] + n \in Nat /\ R[q][2] + n \in Nat
      BY <1>2
    <3>2. R \in Seq(Range2) /\ p1 \in Int
      BY <1>2, <2>1
    <3> QED BY <3>1, <3>2, ShiftFromFacts
  <2> HIDE DEF M, T
  <2>4. M[p] = R[p]
    <3>1. p < p1
      BY <2>1
    <3> QED BY <3>1, <2>1, <2>3
  <2>5. /\ T \in Seq(Range2) /\ Len(T) = m
        /\ \A q \in 1..m : T[q] = IF q = p THEN <<R[p][1], R[p][2] + n>> ELSE M[q]
    <3>1. M \in Seq(Range2) /\ p \in 1..Len(M) /\ n \in Int /\ M[p][2] + n \in Nat
      BY <2>1, <2>3, <2>4
    <3>2. /\ Longer(M, p, n) \in Seq(Range2) /\ Len(Longer(M, p, n)) = Len(M)
          /\ \A q \in 1..Len(M) : Longer(M, p, n)[q] = IF q = p THEN <<M[p][1], M[p][2] + n>> ELSE M[q]
      BY <3>1, LongerFacts
    <3> QED BY <3>2, <2>2, <2>3, <2>4
  <2>6. ASSUME NEW q \in 1..m, q < p PROVE T[q] = R[q]
    <3>1. q < p1 /\ q # p
      BY <2>6, <2>1
    <3> QED BY <3>1, <2>3, <2>5
  <2>7. T[p][1] = R[p][1] /\ T[p][2] = R[p][2] + n
    BY <2>1, <2>5
  <2>8. ASSUME NEW q \in 1..m, p < q PROVE T[q][1] = R[q][1] + n /\ T[q][2] = R[q][2] + n
    <3>1. ~ (q < p1) /\ q # p
      BY <2>8, <2>1
    <3>2. T[q] = <<R[q][1] + n, R[q][2] + n>>
      BY <3>1, <2>3, <2>5
    <3> QED BY <3>2
  <2>9. ASSUME NEW q \in 1..m PROVE T[q][1] < T[q][2]
    <3>1. CASE q < p
      BY <3>1, <2>6, <1>2
    <3>2. CASE q = p
      BY <3>2, <2>7, <2>1
    <3>3. CASE p < q
      BY <3>3, <2>8, <1>2, SMTT(40)
    <3> QED BY <3>1, <3>2, <3>3, <1>2
  <2>10. ASSUME NEW q \in 2..m PROVE T[q - 1][2] < T[q][1]
    <3>1. q \in 1..m /\ q - 1 \in 1..m /\ q - 1 < q /\ R[q - 1][2] < R[q][1]
          /\ R[q - 1][2] \in Nat /\ R[q][1] \in Nat
      <4>1. q \in 1..m /\ q - 1 \in 1..m /\ q - 1 < q
        BY <1>2
      <4> QED BY <4>1, <1>2
    <3>2. CASE q < p
      <4>1. q - 1 < p
        BY <3>1, <3>2, <2>1
      <4> QED BY <3>1, <3>2, <4>1, <2>6
    <3>3. CASE q = p
      BY <3>1, <3>3, <2>6, <2>7
    <3>4. CASE q - 1 = p
      <4>1. T[q][1] = R[q][1] + n /\ T[q - 1][2] = R[q - 1][2] + n
        BY <3>1, <3>4, <2>7, <2>8
      <4> QED BY <4>1, <3>1
    <3>5. CASE q - 1 > p
      <4>1. T[q][1] = R[q][1] + n /\ T[q - 1][2] = R[q - 1][2] + n
        <5>1. p < q /\ p < q - 1
          BY <3>1, <3>5, <2>1
        <5> QED BY <3>1, <5>1, <2>8
      <4> QED BY <4>1, <3>1
    <3> QED BY <3>1, <3>2, <3>3, <3>4, <3>5, <2>1
  <2>11. T \in Sets
    BY <2>5, <2>9, <2>10 DEF Sets, WellFormed
  <2>12. ASSUME NEW x \in Nat
         PROVE  In(T, x) <=> \/ x \in Indexes(R) /\ x < i
                             \/ x - n \in Indexes(R) /\ x - n >= i
                             \/ i <= x /\ x < i + n
    <3> DEFINE y == x - n
    <3>1. ASSUME NEW q \in 1..m, T[q][1] <= x, x < T[q][2]
          PROVE  (In(R, x) /\ x < i) \/ (y \in Nat /\ In(R, y) /\ y >= i) \/ (i <= x /\ x < i + n)
      <4>1. CASE q < p
        <5>1. T[q] = R[q] /\ R[q][2] <= i /\ R[q][2] \in Nat
          BY <4>1, <2>6, <1>2
        <5> QED BY <5>1, <4>1, <3>1 DEF In
      <4>2. CASE q = p
        <5>1. x < i \/ (i <= x /\ x < i + n) \/ (y \in Nat /\ i <= y)
          OBVIOUS
        <5>2. CASE x < i
          <6>1. R[p][1] <= x /\ x < R[p][2]
            BY <5>2, <4>2, <3>1, <2>7, <2>1
          <6> QED BY <6>1, <5>2, <2>1 DEF In
        <5>3. CASE y \in Nat /\ i <= y
          <6>1. R[p][1] <= y /\ y < R[p][2]
            BY <5>3, <4>2, <3>1, <2>7, <2>1
          <6> QED BY <6>1, <5>3, <2>1 DEF In
        <5> QED BY <5>1, <5>2, <5>3
      <4>3. CASE p < q
        <5>2. T[q][1] = R[q][1] + n /\ T[q][2] = R[q][2] + n /\ i < R[q][1] /\ R[q][1] \in Nat /\ R[q][2] \in Nat
          BY <4>3, <2>8, <1>2
        <5>3. i <= y /\ y \in Nat /\ R[q][1] <= y /\ y < R[q][2]
          BY <5>2, <3>1
        <5> QED BY <5>3 DEF In
      <4> QED BY <4>1, <4>2, <4>3, <2>1
    <3>2. ASSUME NEW q \in 1..m, R[q][1] <= x, x < R[q][2], x < i PROVE In(T, x)
      <4>1. q <= p
        BY <3>2, <1>2
      <4>2. CASE q < p
        BY <4>2, <3>2, <2>5, <2>6 DEF In
      <4>3. CASE q = p
        <5>1. T[p][1] <= x /\ x < T[p][2]
          BY <4>3, <3>2, <2>1, <2>7
        <5> QED BY <5>1, <2>1, <2>5 DEF In
      <4> QED BY <4>1, <4>2, <4>3, <1>2
    <3>3. ASSUME NEW q \in 1..m, y \in Nat, R[q][1] <= y, y < R[q][2], y >= i PROVE In(T, x)
      <4>1. q >= p
        BY <3>3, <1>2
      <4>2. CASE q = p
        <5>1. T[p][1] <= x /\ x < T[p][2]
          BY <4>2, <3>3, <2>1, <2>7
        <5> QED BY <5>1, <2>1, <2>5 DEF In
      <4>3. CASE q > p
        <5>1. T[q][1] = R[q][1] + n /\ T[q][2] = R[q][2] + n /\ R[q][1] \in Nat /\ R[q][2] \in Nat
          BY <4>3, <2>8, <1>2
        <5>2. T[q][1] <= x /\ x < T[q][2]
          BY <5>1, <3>3
        <5> QED BY <5>2, <2>5 DEF In
      <4> QED BY <4>1, <4>2, <4>3, <1>2
    <3>4. ASSUME i <= x, x < i + n PROVE In(T, x)
      <4>1. T[p][1] <= x /\ x < T[p][2]
        BY <3>4, <2>1, <2>7
      <4> QED BY <4>1, <2>1, <2>5 DEF In
    <3>5. y \in Indexes(R) => y \in Nat
      BY IndexesFinite
    <3>6. y \in Nat => (y \in Indexes(R) <=> In(R, y))
      BY InOf
    <3>7. x \in Indexes(R) <=> In(R, x)
      BY InOf
    <3> HIDE DEF y
    <3>8. In(T, x) <=> \/ x \in Indexes(R) /\ x < i
                       \/ y \in Indexes(R) /\ y >= i
                       \/ i <= x /\ x < i + n
      BY <3>1, <3>2, <3>3, <3>4, <3>5, <3>6, <3>7, <2>5 DEF In
    <3> QED BY <3>8 DEF y
  <2> QED BY <2>11, <2>12, InOf DEF T
<1> QED BY <1>3, <1>4

\* One range fewer, and the ranges from p on moved back by one: how the indexes that are
\* left relate to those of R.
LEMMA ErasedRanges ==
    ASSUME NEW R \in Seq(Range2), NEW p \in 1..Len(R), p \in 1..Len(R),
           \A q \in 1..Len(R) : p < q => R[q][1] - 1 \in Nat /\ R[q][2] - 1 \in Nat
    PROVE  LET T == ShiftFrom(RemoveAt(R, p), p, -1) IN
           /\ T \in Seq(Range2) /\ Len(T) = Len(R) - 1
           /\ \A q \in 1..Len(R) : q < p => T[q] = R[q]
           /\ \A q \in 1..Len(R) : p < q => T[q - 1][1] = R[q][1] - 1 /\ T[q - 1][2] = R[q][2] - 1
<1> DEFINE m == Len(R)
           C == RemoveAt(R, p)
           T == ShiftFrom(C, p, -1)
<1>1. m \in Nat /\ p \in 1..m /\ m - 1 \in Nat
  BY RangeParts
<1>2. C \in Seq(Range2) /\ Len(C) = m - 1 /\ \A q \in 1..(m - 1) : C[q] = IF q < p THEN R[q] ELSE R[q + 1]
  <2>1. IsRemoved(Range2, R, p, C)
    BY RemovalIs
  <2> HIDE DEF C
  <2> QED BY <2>1 DEF IsRemoved
<1> HIDE DEF C
<1>3. ASSUME NEW q \in 1..Len(C), p <= q PROVE C[q] = R[q + 1] /\ C[q][1] + (-1) \in Nat /\ C[q][2] + (-1) \in Nat
  <2> DEFINE h == q + 1
  <2>1. h \in 1..m /\ p < h /\ ~ (q < p) /\ q \in 1..(m - 1)
    BY <1>1, <1>2, <1>3
  <2>2. C[q] = R[h]
    BY <2>1, <1>2
  <2> HIDE DEF h
  <2>3. R[h][1] - 1 \in Nat /\ R[h][2] - 1 \in Nat /\ R[h][1] \in Nat /\ R[h][2] \in Nat
    BY <2>1, RangeParts
  <2>4. C[q][1] + (-1) \in Nat /\ C[q][2] + (-1) \in Nat
    BY <2>2, <2>3
  <2> QED BY <2>2, <2>4 DEF h
<1>4. /\ T \in Seq(Range2) /\ Len(T) = Len(C)
      /\ \A q \in 1..Len(C) : T[q] = IF q < p THEN C[q] ELSE <<C[q][1] + (-1), C[q][2] + (-1)>>
  <2>1. p \in Int /\ -1 \in Int /\ C \in Seq(Range2)
    BY <1>1, <1>2
  <2> QED BY <2>1, <1>3, ShiftFromFacts
<1> HIDE DEF T
<1>5. ASSUME NEW q \in 1..m, q < p PROVE T[q] = R[q]
  <2>1. q \in 1..(m - 1)
    BY <1>1, <1>5
  <2> QED BY <2>1, <1>5, <1>2, <1>4
<1>6. ASSUME NEW q \in 1..m, p < q PROVE T[q - 1][1] = R[q][1] - 1 /\ T[q - 1][2] = R[q][2] - 1
  <2> DEFINE h == q - 1
  <2>1. h \in 1..Len(C) /\ ~ (h < p) /\ p <= h /\ h + 1 = q
    BY <1>1, <1>2, <1>6
  <2> HIDE DEF h
  <2>2. C[h] = R[q]
    BY <2>1, <1>3
  <2>3. T[h] = <<C[h][1] + (-1), C[h][2] + (-1)>>
    BY <2>1, <1>4
  <2>4. R[q][1] \in Nat /\ R[q][2] \in Nat
    BY RangeParts
  <2> QED BY <2>2, <2>3, <2>4 DEF h
<1>7. T \in Seq(Range2) /\ Len(T) = m - 1
  BY <1>2, <1>4
<1> QED BY <1>5, <1>6, <1>7 DEF T, C

\* erase_at
LEMMA EraseAtFacts ==
    ASSUME NEW R \in Sets, NEW i \in Nat
    PROVE  /\ EraseAt(R, i) \in Sets
           /\ \A x \in Nat : x \in Indexes(EraseAt(R, i)) <=>
                 (x \in Indexes(R) /\ x < i) \/ (x + 1 \in Indexes(R) /\ x + 1 > i)
<1> DEFINE p == Find(R, i)
           m == Len(R)
           T == EraseAt(R, i)
<1>1. Place(R, p, i)
  BY FindIsPlace
<1> HIDE DEF p
<1>2. /\ R \in Seq(Range2) /\ m \in Nat /\ p \in 1..(m + 1)
      /\ \A q \in 1..m : R[q] \in Range2 /\ R[q][1] \in Nat /\ R[q][2] \in Nat /\ R[q][1] < R[q][2]
      /\ \A q, h \in 1..m : q < h => R[q][2] < R[h][1]
      /\ \A q \in 1..m : q < p => R[q][2] <= i /\ R[q][1] < i
      /\ \A q \in 1..m : p <= q => i < R[q][2]
      /\ \A q \in 1..m : p < q => i < R[q][1]
  BY <1>1, PlaceFacts
<1>a. \A x \in Nat : /\ x \in Indexes(R) <=> \E q \in 1..m : R[q][1] <= x /\ x < R[q][2]
                     /\ x + 1 \in Indexes(R) <=> \E q \in 1..m : R[q][1] <= x + 1 /\ x + 1 < R[q][2]
  <2>1. ASSUME NEW x \in Nat PROVE x \in Indexes(R) <=> \E q \in 1..m : R[q][1] <= x /\ x < R[q][2]
    BY SetFacts, InIndexes
  <2> QED BY <2>1
\* What the ranges of the result have to satisfy in each case
<1>b. ASSUME NEW U \in Seq(Range2), T = U, \A q \in 1..Len(U) : U[q][1] < U[q][2],
             \A q \in 2..Len(U) : U[q - 1][2] < U[q][1],
             \A x \in Nat : (\E q \in 1..Len(U) : U[q][1] <= x /\ x < U[q][2]) <=>
                 \/ (\E q \in 1..m : R[q][1] <= x /\ x < R[q][2]) /\ x < i
                 \/ (\E q \in 1..m : R[q][1] <= x + 1 /\ x + 1 < R[q][2]) /\ x + 1 > i
      PROVE  /\ T \in Sets
             /\ \A x \in Nat : x \in Indexes(T) <=> (x \in Indexes(R) /\ x < i) \/ (x + 1 \in Indexes(R) /\ x + 1 > i)
  <2>1. U \in Sets
    BY <1>b DEF Sets, WellFormed
  <2>2. \A x \in Nat : x \in Indexes(U) <=> \E q \in 1..Len(U) : U[q][1] <= x /\ x < U[q][2]
    BY InIndexes
  <2> HIDE DEF T, m
  <2> QED BY <2>1, <2>2, <1>a, <1>b
<1>3. CASE p > m
  <2>1. T = R
    BY <1>3, <1>2 DEF EraseAt, p
  <2>2. \A q \in 1..m : R[q][2] <= i
    BY <1>2, <1>3
  <2>3. \A q \in 1..m : R[q][1] < R[q][2]
    BY <1>2
  <2>4. \A q \in 2..m : R[q - 1][2] < R[q][1]
    BY SetFacts
  <2>5. ASSUME NEW x \in Nat
        PROVE  (\E q \in 1..m : R[q][1] <= x /\ x < R[q][2]) <=>
                 \/ (\E q \in 1..m : R[q][1] <= x /\ x < R[q][2]) /\ x < i
                 \/ (\E q \in 1..m : R[q][1] <= x + 1 /\ x + 1 < R[q][2]) /\ x + 1 > i
    <3>1. ASSUME NEW q \in 1..m, x < R[q][2] PROVE x < i
      BY <3>1, <2>2, <1>2
    <3>2. ASSUME NEW q \in 1..m, x + 1 < R[q][2] PROVE ~ (x + 1 > i)
      BY <3>2, <2>2, <1>2
    <3> QED BY <3>1, <3>2
  <2> QED BY <2>1, <2>3, <2>4, <2>5, <1>b, <1>2
<1>4. CASE p <= m /\ R[p][1] <= i /\ R[p][1] + 1 = R[p][2]
  <2> DEFINE U == ShiftFrom(RemoveAt(R, p), p, -1)
  <2>1. p \in 1..m /\ R[p][1] = i /\ R[p][2] = i + 1
    BY <1>2, <1>4
  <2>2. T = U
    BY <1>4, <2>1 DEF EraseAt, DoErase, p
  <2>3. /\ U \in Seq(Range2) /\ Len(U) = m - 1
        /\ \A q \in 1..m : q < p => U[q] = R[q]
        /\ \A q \in 1..m : p < q => U[q - 1][1] = R[q][1] - 1 /\ U[q - 1][2] = R[q][2] - 1
    <3>1. \A q \in 1..m : p < q => R[q][1] - 1 \in Nat /\ R[q][2] - 1 \in Nat
      BY <1>2
    <3>2. R \in Seq(Range2)
      BY <1>2
    <3> QED BY <3>1, <3>2, <2>1, ErasedRanges
  <2> HIDE DEF U
  <2>4. ASSUME NEW q \in 1..Len(U)
        PROVE  \/ q \in 1..m /\ q < p /\ U[q] = R[q]
               \/ \E h \in 1..m : p < h /\ h = q + 1 /\ U[q][1] = R[h][1] - 1 /\ U[q][2] = R[h][2] - 1
    <3>1. CASE q < p
      BY <3>1, <2>1, <2>3, <1>2
    <3>2. CASE ~ (q < p)
      <4> DEFINE h == q + 1
      <4>1. h \in 1..m /\ p < h /\ h - 1 = q
        BY <3>2, <2>1, <2>3, <1>2
      <4> HIDE DEF h
      <4>2. U[q][1] = R[h][1] - 1 /\ U[q][2] = R[h][2] - 1
        BY <4>1, <2>3
      <4>3. h = q + 1
        BY DEF h
      <4> QED BY <4>1, <4>2, <4>3
    <3> QED BY <3>1, <3>2
  <2>5. ASSUME NEW q \in 1..Len(U) PROVE U[q][1] < U[q][2]
    <3>1. \A h \in 1..m : R[h][1] \in Nat /\ R[h][2] \in Nat /\ R[h][1] < R[h][2]
      BY <1>2
    <3>2. CASE q \in 1..m /\ q < p /\ U[q] = R[q]
      BY <3>1, <3>2
    <3>3. ASSUME NEW h \in 1..m, U[q][1] = R[h][1] - 1, U[q][2] = R[h][2] - 1 PROVE U[q][1] < U[q][2]
      BY <3>1, <3>3
    <3> QED BY <3>2, <3>3, <2>4
  <2>6. ASSUME NEW q \in 2..Len(U) PROVE U[q - 1][2] < U[q][1]
    <3> DEFINE g == q - 1
    <3>1. q \in 1..Len(U) /\ g \in 1..Len(U) /\ g + 1 = q /\ g \in 1..m /\ q \in 1..m /\ q + 1 \in 1..m
      BY <2>3, <1>2
    <3> HIDE DEF g
    <3>2. U[g][2] < U[q][1]
      <4>1. CASE q < p
        <5>1. U[q] = R[q] /\ U[g] = R[g] /\ g < q
          BY <4>1, <3>1, <2>1, <2>3, SMTT(40)
        <5> QED BY <5>1, <3>1, <1>2
      <4>2. CASE q = p
        <5>1. U[g] = R[g] /\ g < q + 1 /\ g < p
          BY <4>2, <3>1, <2>1, <2>3
        <5>2. p < q + 1 /\ U[(q + 1) - 1][1] = R[q + 1][1] - 1 /\ (q + 1) - 1 = q
          BY <4>2, <3>1, <2>1, <2>3
        <5>3. R[g][2] < R[p][1] /\ R[p][2] < R[q + 1][1]
          BY <5>1, <5>2, <3>1, <2>1, <1>2
        <5> QED BY <5>1, <5>2, <5>3, <2>1, <3>1, <1>2, SMTT(40)
      <4>3. CASE q > p
        <5>1. p < q + 1 /\ U[(q + 1) - 1][1] = R[q + 1][1] - 1 /\ (q + 1) - 1 = q
          BY <4>3, <3>1, <2>1, <2>3
        <5>2. p < q /\ U[q - 1][2] = R[q][2] - 1 /\ q - 1 = g
          BY <4>3, <3>1, <2>1, <2>3
        <5>3. R[q][2] < R[q + 1][1]
          BY <3>1, <1>2
        <5> QED BY <5>1, <5>2, <5>3, <3>1, <1>2, SMTT(40)
      <4> QED BY <4>1, <4>2, <4>3, <3>1, <2>1
    <3> QED BY <3>2 DEF g
  <2>7. ASSUME NEW x \in Nat
        PROVE  (\E q \in 1..Len(U) : U[q][1] <= x /\ x < U[q][2]) <=>
                 \/ (\E q \in 1..m : R[q][1] <= x /\ x < R[q][2]) /\ x < i
                 \/ (\E q \in 1..m : R[q][1] <= x + 1 /\ x + 1 < R[q][2]) /\ x + 1 > i
    <3>1. ASSUME NEW q \in 1..Len(U), U[q][1] <= x, x < U[q][2]
          PROVE  \/ (\E h \in 1..m : R[h][1] <= x /\ x < R[h][2]) /\ x < i
                 \/ (\E h \in 1..m : R[h][1] <= x + 1 /\ x + 1 < R[h][2]) /\ x + 1 > i
      <4>1. CASE q \in 1..m /\ q < p /\ U[q] = R[q]
        <5>1. R[q][2] <= i /\ R[q][2] \in Nat
          BY <4>1, <1>2
        <5> QED BY <5>1, <4>1, <3>1
      <4>2. ASSUME NEW h \in 1..m, p < h, U[q][1] = R[h][1] - 1, U[q][2] = R[h][2] - 1
            PROVE  (\E g \in 1..m : R[g][1] <= x + 1 /\ x + 1 < R[g][2]) /\ x + 1 > i
        <5>1. R[h][1] <= x + 1 /\ x + 1 < R[h][2] /\ i < R[h][1] /\ R[h][1] \in Nat
          BY <4>2, <3>1, <1>2, SMTT(40)
        <5> QED BY <5>1
      <4> QED BY <4>1, <4>2, <2>4
    <3>2. ASSUME NEW q \in 1..m, R[q][1] <= x, x < R[q][2], x < i
          PROVE  \E h \in 1..Len(U) : U[h][1] <= x /\ x < U[h][2]
      <4>1. q < p
        BY <3>2, <2>1, <1>2
      <4>2. q \in 1..Len(U) /\ U[q] = R[q]
        BY <4>1, <2>1, <2>3, <1>2
      <4> QED BY <4>2, <3>2
    <3>3. ASSUME NEW q \in 1..m, R[q][1] <= x + 1, x + 1 < R[q][2], x + 1 > i
          PROVE  \E h \in 1..Len(U) : U[h][1] <= x /\ x < U[h][2]
      <4>1. p < q
        <5>1. q # p
          BY <3>3, <2>1
        <5>2. ~ (q < p)
          BY <3>3, <1>2
        <5> QED BY <5>1, <5>2, <2>1
      <4>2. q - 1 \in 1..Len(U) /\ U[q - 1][1] = R[q][1] - 1 /\ U[q - 1][2] = R[q][2] - 1
        BY <4>1, <2>1, <2>3, <1>2
      <4>3. U[q - 1][1] <= x /\ x < U[q - 1][2]
        BY <4>2, <3>3, <1>2
      <4> QED BY <4>2, <4>3
    <3> QED BY <3>1, <3>2, <3>3
  <2> QED BY <2>2, <2>3, <2>5, <2>6, <2>7, <1>b
<1>5. CASE p <= m /\ R[p][1] <= i /\ R[p][1] + 1 # R[p][2]
  <2> DEFINE p1 == p + 1
             C == Longer(R, p, -1)
             U == ShiftFrom(C, p1, -1)
  <2>1. /\ p \in 1..m /\ R[p][1] <= i /\ i < R[p][2] /\ R[p][1] \in Nat /\ R[p][2] \in Nat /\ R[p][1] < R[p][2] - 1
        /\ p1 \in Int
    BY <1>2, <1>5
  <2>2. T = U
    BY <1>5, <2>1 DEF EraseAt, DoErase, p
  <2>3. C \in Seq(Range2) /\ Len(C) = m /\ \A q \in 1..m : C[q] = IF q = p THEN <<R[p][1], R[p][2] + (-1)>> ELSE R[q]
    <3>1. R \in Seq(Range2) /\ p \in 1..Len(R) /\ -1 \in Int /\ R[p][2] + (-1) \in Nat
      BY <2>1, <1>2
    <3> QED BY <3>1, LongerFacts
  <2> HIDE DEF C
  <2>4. /\ U \in Seq(Range2) /\ Len(U) = m
        /\ \A q \in 1..m : U[q] = IF q < p1 THEN C[q] ELSE <<C[q][1] + (-1), C[q][2] + (-1)>>
    <3>1. ASSUME NEW q \in 1..m, p1 <= q PROVE C[q][1] + (-1) \in Nat /\ C[q][2] + (-1) \in Nat
      <4>1. q # p /\ p < q
        BY <2>1, <3>1
      <4>2. C[q] = R[q] /\ i < R[q][1] /\ R[q][1] \in Nat /\ R[q][2] \in Nat /\ R[q][1] < R[q][2]
        BY <4>1, <2>3, <1>2
      <4> QED BY <4>2
    <3> HIDE DEF p1
    <3>2. p1 \in Int /\ -1 \in Int /\ C \in Seq(Range2) /\ Len(C) = m
      BY <2>1, <2>3
    <3> QED BY <3>1, <3>2, ShiftFromFacts
  <2> HIDE DEF U
  <2>5. \A q \in 1..m : q < p => U[q] = R[q]
    <3>1. TAKE q \in 1..m
    <3>2. HAVE q < p
    <3>3. q < p1 /\ q # p
      BY <3>2, <2>1
    <3> QED BY <3>3, <2>3, <2>4
  <2>6. U[p][1] = R[p][1] /\ U[p][2] = R[p][2] - 1
    <3>1. p < p1
      BY <2>1
    <3>2. U[p] = <<R[p][1], R[p][2] + (-1)>>
      BY <3>1, <2>1, <2>3, <2>4
    <3> QED BY <3>2, <2>1
  <2>7. \A q \in 1..m : p < q => U[q][1] = R[q][1] - 1 /\ U[q][2] = R[q][2] - 1
    <3>1. TAKE q \in 1..m
    <3>2. HAVE p < q
    <3>3. ~ (q < p1) /\ q # p
      BY <3>2, <2>1
    <3>4. U[q] = <<R[q][1] + (-1), R[q][2] + (-1)>>
      BY <3>3, <2>3, <2>4
    <3> QED BY <3>4, <1>2
  <2>8. ASSUME NEW q \in 1..Len(U) PROVE U[q][1] < U[q][2]
    <3>0. q \in 1..m
      BY <2>4
    <3>1. CASE q < p
      BY <3>0, <3>1, <2>5, <1>2
    <3>2. CASE q = p
      BY <3>2, <2>6, <2>1
    <3>3. CASE p < q
      <4>1. U[q][1] = R[q][1] - 1 /\ U[q][2] = R[q][2] - 1
        BY <3>0, <3>3, <2>7
      <4>2. R[q][1] \in Nat /\ R[q][2] \in Nat /\ R[q][1] < R[q][2]
        BY <3>0, <1>2
      <4> QED BY <4>1, <4>2
    <3> QED BY <3>0, <3>1, <3>2, <3>3, <2>1
  <2>9. ASSUME NEW q \in 2..Len(U) PROVE U[q - 1][2] < U[q][1]
    <3> DEFINE g == q - 1
    <3>1. q \in 1..m /\ g \in 1..m /\ g + 1 = q /\ g < q
      BY <2>4, <1>2
    <3> HIDE DEF g
    <3>2. R[g][2] < R[q][1] /\ R[g][2] \in Nat /\ R[q][1] \in Nat
      BY <3>1, <1>2
    <3>3. U[g][2] < U[q][1]
      <4>1. CASE q < p
        <5>1. g < p
          BY <4>1, <3>1, <2>1
        <5> QED BY <4>1, <5>1, <3>1, <3>2, <2>5
      <4>2. CASE q = p
        <5>1. g < p
          BY <4>2, <3>1, <2>1
        <5> QED BY <4>2, <5>1, <3>1, <3>2, <2>5, <2>6
      <4>3. CASE g = p
        <5>1. p < q
          BY <4>3, <3>1
        <5>2. U[q][1] = R[q][1] - 1 /\ U[g][2] = R[g][2] - 1
          BY <4>3, <5>1, <3>1, <2>6, <2>7
        <5> QED BY <5>2, <3>2
      <4>4. CASE p < g
        <5>1. p < q
          BY <4>4, <3>1, <2>1
        <5>2. U[q][1] = R[q][1] - 1 /\ U[g][2] = R[g][2] - 1
          BY <4>4, <5>1, <3>1, <2>7
        <5> QED BY <5>2, <3>2
      <4> QED BY <4>1, <4>2, <4>3, <4>4, <3>1, <2>1
    <3> QED BY <3>3 DEF g
  <2>10. ASSUME NEW x \in Nat
         PROVE  (\E q \in 1..Len(U) : U[q][1] <= x /\ x < U[q][2]) <=>
                 \/ (\E q \in 1..m : R[q][1] <= x /\ x < R[q][2]) /\ x < i
                 \/ (\E q \in 1..m : R[q][1] <= x + 1 /\ x + 1 < R[q][2]) /\ x + 1 > i
    <3>1. ASSUME NEW q \in 1..m, U[q][1] <= x, x < U[q][2]
          PROVE  \/ (\E h \in 1..m : R[h][1] <= x /\ x < R[h][2]) /\ x < i
                 \/ (\E h \in 1..m : R[h][1] <= x + 1 /\ x + 1 < R[h][2]) /\ x + 1 > i
      <4>1. CASE q < p
        <5>1. U[q] = R[q] /\ R[q][2] <= i /\ R[q][2] \in Nat
          BY <4>1, <2>5, <1>2
        <5>2. x < i
          BY <5>1, <3>1
        <5> QED BY <5>1, <5>2, <3>1
      <4>2. CASE q = p
        <5>1. R[p][1] <= x /\ x < R[p][2] - 1
          BY <4>2, <3>1, <2>6
        <5>2. CASE x < i
          <6>1. x < R[p][2]
            BY <5>1, <2>1
          <6> QED BY <5>1, <5>2, <6>1, <2>1
        <5>3. CASE ~ (x < i)
          <6>1. R[p][1] <= x + 1 /\ x + 1 < R[p][2] /\ x + 1 > i
            BY <5>1, <5>3, <2>1
          <6> QED BY <6>1, <2>1
        <5> QED BY <5>2, <5>3
      <4>3. CASE p < q
        <5>1. U[q][1] = R[q][1] - 1 /\ U[q][2] = R[q][2] - 1 /\ i < R[q][1] /\ R[q][1] \in Nat /\ R[q][2] \in Nat
          BY <4>3, <2>7, <1>2
        <5>2. R[q][1] <= x + 1 /\ x + 1 < R[q][2] /\ x + 1 > i
          BY <5>1, <3>1
        <5> QED BY <5>2
      <4> QED BY <4>1, <4>2, <4>3, <2>1
    <3>2. ASSUME NEW q \in 1..m, R[q][1] <= x, x < R[q][2], x < i
          PROVE  \E h \in 1..m : U[h][1] <= x /\ x < U[h][2]
      <4>1. q <= p
        BY <3>2, <2>1, <1>2
      <4>2. CASE q < p
        BY <4>2, <3>2, <2>5
      <4>3. CASE q = p
        <5>1. U[p][1] <= x /\ x < U[p][2]
          BY <4>3, <3>2, <2>1, <2>6
        <5> QED BY <5>1, <2>1
      <4> QED BY <4>1, <4>2, <4>3, <2>1
    <3>3. ASSUME NEW q \in 1..m, R[q][1] <= x + 1, x + 1 < R[q][2], x + 1 > i
          PROVE  \E h \in 1..m : U[h][1] <= x /\ x < U[h][2]
      <4>1. q >= p
        BY <3>3, <2>1, <1>2
      <4>2. CASE q = p
        <5>1. U[p][1] <= x /\ x < U[p][2]
          BY <4>2, <3>3, <2>1, <2>6
        <5> QED BY <5>1, <2>1
      <4>3. CASE p < q
        <5>1. U[q][1] <= x /\ x < U[q][2]
          BY <4>3, <3>3, <2>7, <1>2
        <5> QED BY <5>1
      <4> QED BY <4>1, <4>2, <4>3, <2>1
    <3> QED BY <3>1, <3>2, <3>3, <2>4
  <2> QED BY <2>2, <2>4, <2>8, <2>9, <2>10, <1>b
<1>6. CASE p <= m /\ R[p][1] > i /\ ~ (p > 1 /\ R[p - 1][2] + 1 = R[p][1])
  <2>1. T = ShiftFrom(R, p, -1)
    BY <1>6, <1>2 DEF EraseAt, DoErase, p
  <2>2. p \in 1..m /\ R[p][1] \in Nat /\ i <= R[p][1] /\ R[p][1] + (-1) >= 0 /\ -1 \in Int
    BY <1>6, <1>2
  <2>3. ASSUME p \in 2..m PROVE R[p - 1][2] < R[p][1] + (-1)
    <3>1. p - 1 \in 1..m /\ p - 1 < p /\ p > 1
      BY <2>2, <2>3
    <3>2. R[p - 1][2] \in Nat /\ R[p - 1][2] < R[p][1] /\ R[p - 1][2] + 1 # R[p][1]
      BY <3>1, <2>2, <1>2, <1>6
    <3> QED BY <3>2, <2>2
  <2> DEFINE U == ShiftFrom(R, p, -1)
             n == -1
  <2>4. /\ U \in Sets
        /\ \A x \in Nat : x \in Indexes(U) <=> (x \in Indexes(R) /\ x < i) \/ (x - n \in Indexes(R) /\ x - n >= i)
    <3>1. U = ShiftFrom(R, p, n) /\ n \in Int /\ (p <= Len(R) => i <= R[p][1] /\ R[p][1] + n >= 0)
          /\ (p \in 2..Len(R) => R[p - 1][2] < R[p][1] + n)
      BY <2>2, <2>3
    <3> HIDE DEF n, U
    <3> QED BY <3>1, <1>1, ShiftedRanges
  <2>5. i \notin Indexes(R)
    <3>1. ASSUME NEW q \in 1..m, R[q][1] <= i, i < R[q][2] PROVE FALSE
      <4>1. ~ (q < p)
        BY <3>1, <1>2
      <4>2. q = p
        BY <3>1, <4>1, <2>2, <1>2
      <4> QED BY <4>2, <3>1, <1>6, <1>2
    <3> QED BY <3>1, <1>a
  <2>6. \A x \in Nat : x - n = x + 1
    OBVIOUS
  <2> HIDE DEF U
  <2>7. ASSUME NEW x \in Nat
        PROVE  x \in Indexes(U) <=> (x \in Indexes(R) /\ x < i) \/ (x + 1 \in Indexes(R) /\ x + 1 > i)
    <3>1. x \in Indexes(U) <=> (x \in Indexes(R) /\ x < i) \/ (x + 1 \in Indexes(R) /\ x + 1 >= i)
      BY <2>4, <2>6
    <3>2. x + 1 >= i <=> x + 1 > i \/ x + 1 = i
      OBVIOUS
    <3> QED BY <3>1, <3>2, <2>5
  <2>8. T = U
    BY <2>1 DEF U
  <2> QED BY <2>4, <2>7, <2>8
<1>7. CASE p <= m /\ R[p][1] > i /\ p > 1 /\ R[p - 1][2] + 1 = R[p][1]
  <2> DEFINE h == p - 1
             k == R[p][2] - R[p][1]
             C == Longer(R, h, k)
             U == ShiftFrom(RemoveAt(C, p), p, -1)
  <2>1. /\ p \in 1..m /\ R[p][1] \in Nat /\ R[p][2] \in Nat /\ R[p][1] > i /\ R[p][1] < R[p][2]
        /\ h \in 1..m /\ h < p /\ R[h][1] \in Nat /\ R[h][2] \in Nat /\ R[h][1] < R[h][2] /\ R[h][2] + 1 = R[p][1]
        /\ k \in Int /\ R[h][2] + k = R[p][2] - 1 /\ h + 1 = p
    <3>1. /\ p \in 1..m /\ R[p][1] \in Nat /\ R[p][2] \in Nat /\ R[p][1] > i /\ R[p][1] < R[p][2]
          /\ h \in 1..m /\ h < p /\ h + 1 = p
      BY <1>7, <1>2
    <3>2. R[h][2] + 1 = R[p][1]
      BY <1>7
    <3> HIDE DEF h
    <3>3. R[h][1] \in Nat /\ R[h][2] \in Nat /\ R[h][1] < R[h][2]
      BY <3>1, <1>2
    <3> QED BY <3>1, <3>2, <3>3
  <2>2. T = U
    BY <1>7, <2>1 DEF EraseAt, DoErase, p
  <2> HIDE DEF h, k
  <2>3. C \in Seq(Range2) /\ Len(C) = m /\ \A q \in 1..m : C[q] = IF q = h THEN <<R[h][1], R[h][2] + k>> ELSE R[q]
    <3>1. R \in Seq(Range2) /\ h \in 1..Len(R) /\ k \in Int /\ R[h][2] + k \in Nat
      BY <2>1, <1>2, SMTT(40)
    <3> QED BY <3>1, LongerFacts
  <2> HIDE DEF C
  <2>4. /\ U \in Seq(Range2) /\ Len(U) = m - 1
        /\ \A q \in 1..m : q < p => U[q] = C[q]
        /\ \A q \in 1..m : p < q => U[q - 1][1] = C[q][1] - 1 /\ U[q - 1][2] = C[q][2] - 1
    <3>1. ASSUME NEW q \in 1..m, p < q PROVE C[q][1] - 1 \in Nat /\ C[q][2] - 1 \in Nat
      <4>1. q # h
        BY <3>1, <2>1
      <4> QED BY <4>1, <2>3, <3>1, <1>2
    <3>2. C \in Seq(Range2) /\ p \in 1..Len(C) /\ Len(C) = m
      BY <2>1, <2>3
    <3> QED BY <3>1, <3>2, ErasedRanges, SMTT(40)
  <2> HIDE DEF U
  <2>5. \A q \in 1..m : q < h => U[q] = R[q]
    BY <2>1, <2>3, <2>4
  <2>6. U[h][1] = R[h][1] /\ U[h][2] = R[p][2] - 1
    BY <2>1, <2>3, <2>4
  <2>7. \A q \in 1..m : p < q => U[q - 1][1] = R[q][1] - 1 /\ U[q - 1][2] = R[q][2] - 1
    <3>1. TAKE q \in 1..m
    <3>2. HAVE p < q
    <3>3. q # h
      BY <3>2, <2>1
    <3>4. C[q] = R[q]
      BY <3>3, <2>3
    <3> QED BY <3>2, <3>4, <2>4
  <2>8. ASSUME NEW q \in 1..Len(U)
        PROVE  \/ q \in 1..m /\ q < h /\ U[q] = R[q]
               \/ q = h
               \/ \E g \in 1..m : p < g /\ g = q + 1 /\ U[q][1] = R[g][1] - 1 /\ U[q][2] = R[g][2] - 1
    <3>1. CASE q < h
      BY <3>1, <2>1, <2>4, <2>5, <1>2, SMTT(40)
    <3>2. CASE q > h
      <4> DEFINE g == q + 1
      <4>1. g \in 1..m /\ p < g /\ g - 1 = q
        BY <3>2, <2>1, <2>4, <1>2
      <4> HIDE DEF g
      <4>2. U[q][1] = R[g][1] - 1 /\ U[q][2] = R[g][2] - 1
        BY <4>1, <2>7
      <4>3. g = q + 1
        BY DEF g
      <4> QED BY <4>1, <4>2, <4>3
    <3> QED BY <3>1, <3>2, <2>1
  <2>9. ASSUME NEW q \in 1..Len(U) PROVE U[q][1] < U[q][2]
    <3>1. \A g \in 1..m : R[g][1] \in Nat /\ R[g][2] \in Nat /\ R[g][1] < R[g][2]
      BY <1>2
    <3>2. CASE q \in 1..m /\ q < h /\ U[q] = R[q]
      BY <3>1, <3>2
    <3>3. CASE q = h
      BY <3>3, <2>1, <2>6, SMTT(40)
    <3>4. ASSUME NEW g \in 1..m, U[q][1] = R[g][1] - 1, U[q][2] = R[g][2] - 1 PROVE U[q][1] < U[q][2]
      BY <3>1, <3>4
    <3> QED BY <3>2, <3>3, <3>4, <2>8
  <2>10. ASSUME NEW q \in 2..Len(U) PROVE U[q - 1][2] < U[q][1]
    <3> DEFINE g == q - 1
               f == q + 1
    <3>1. q \in 1..Len(U) /\ g \in 1..Len(U) /\ g + 1 = q /\ g \in 1..m /\ q \in 1..m /\ f \in 1..m /\ f - 1 = q /\ q < f
      BY <2>4, <1>2
    <3> HIDE DEF g, f
    <3>2. U[g][2] < U[q][1]
      <4>1. CASE q < h
        <5>1. g < q /\ g < h
          BY <4>1, <3>1, <2>1, SMTT(40)
        <5>2. U[q] = R[q] /\ U[g] = R[g]
          BY <4>1, <5>1, <3>1, <2>5
        <5> QED BY <5>1, <5>2, <3>1, <1>2
      <4>2. CASE q = h
        <5>1. U[g] = R[g] /\ g < q
          BY <4>2, <3>1, <2>1, <2>5
        <5>2. R[g][2] < R[h][1]
          BY <5>1, <4>2, <3>1, <2>1, <1>2
        <5> QED BY <5>1, <5>2, <4>2, <2>6
      <4>3. CASE g = h
        <5>1. p < f /\ q = p
          BY <4>3, <3>1, <2>1
        <5>2. U[q][1] = R[f][1] - 1
          BY <5>1, <3>1, <2>7
        <5>3. R[p][2] < R[f][1] /\ R[f][1] \in Nat
          BY <5>1, <3>1, <2>1, <1>2
        <5> QED BY <4>3, <5>2, <5>3, <2>1, <2>6, SMTT(40)
      <4>4. CASE g > h
        <5>1. p < q /\ p < f /\ q - 1 = g
          BY <4>4, <3>1, <2>1, SMTT(40)
        <5>2. U[q][1] = R[f][1] - 1 /\ U[g][2] = R[q][2] - 1
          BY <5>1, <3>1, <2>7
        <5>3. R[q][2] < R[f][1] /\ R[q][2] \in Nat /\ R[f][1] \in Nat
          BY <3>1, <1>2
        <5> QED BY <5>2, <5>3
      <4> QED BY <4>1, <4>2, <4>3, <4>4, <3>1, <2>1, SMTT(40)
    <3> QED BY <3>2 DEF g
  <2>11. ASSUME NEW x \in Nat
         PROVE  (\E q \in 1..Len(U) : U[q][1] <= x /\ x < U[q][2]) <=>
                 \/ (\E q \in 1..m : R[q][1] <= x /\ x < R[q][2]) /\ x < i
                 \/ (\E q \in 1..m : R[q][1] <= x + 1 /\ x + 1 < R[q][2]) /\ x + 1 > i
    <3>0. R[h][2] <= i /\ R[h][1] < i
      BY <2>1, <1>2
    <3>1. ASSUME NEW q \in 1..Len(U), U[q][1] <= x, x < U[q][2]
          PROVE  \/ (\E g \in 1..m : R[g][1] <= x /\ x < R[g][2]) /\ x < i
                 \/ (\E g \in 1..m : R[g][1] <= x + 1 /\ x + 1 < R[g][2]) /\ x + 1 > i
      <4>1. CASE q \in 1..m /\ q < h /\ U[q] = R[q]
        <5>1. R[q][2] <= i /\ R[q][2] \in Nat
          BY <4>1, <2>1, <1>2
        <5> QED BY <5>1, <4>1, <3>1
      <4>2. CASE q = h
        <5>1. R[h][1] <= x /\ x < R[p][2] - 1
          BY <4>2, <3>1, <2>6
        <5>2. CASE x < R[h][2]
          <6>1. x < i
            BY <5>2, <3>0, <2>1
          <6> QED BY <5>1, <5>2, <6>1, <2>1
        <5>3. CASE ~ (x < R[h][2])
          <6>1. R[h][2] <= x
            BY <5>3, <2>1
          <6>2. R[p][1] <= x + 1
            BY <6>1, <2>1
          <6>3. x + 1 < R[p][2] /\ x + 1 > i
            BY <6>2, <5>1, <2>1, SMTT(40)
          <6> QED BY <6>2, <6>3, <2>1
        <5> QED BY <5>2, <5>3
      <4>3. ASSUME NEW g \in 1..m, p < g, U[q][1] = R[g][1] - 1, U[q][2] = R[g][2] - 1
            PROVE  (\E f \in 1..m : R[f][1] <= x + 1 /\ x + 1 < R[f][2]) /\ x + 1 > i
        <5>1. R[g][1] <= x + 1 /\ x + 1 < R[g][2] /\ i < R[g][1] /\ R[g][1] \in Nat
          BY <4>3, <3>1, <1>2, SMTT(40)
        <5> QED BY <5>1
      <4> QED BY <4>1, <4>2, <4>3, <2>8
    <3>2. ASSUME NEW q \in 1..m, R[q][1] <= x, x < R[q][2], x < i
          PROVE  \E g \in 1..Len(U) : U[g][1] <= x /\ x < U[g][2]
      <4>1. q < p
        <5>1. ~ (p < q)
          BY <3>2, <1>2
        <5>2. q # p
          BY <3>2, <2>1
        <5> QED BY <5>1, <5>2, <2>1
      <4>2. q \in 1..Len(U) /\ h \in 1..Len(U) /\ q <= h
        BY <4>1, <2>1, <2>4, <1>2
      <4>3. CASE q < h
        BY <4>2, <4>3, <3>2, <2>5
      <4>4. CASE q = h
        <5>1. U[h][1] <= x /\ x < U[h][2]
          BY <4>4, <3>2, <2>1, <2>6
        <5> QED BY <5>1, <4>2
      <4> QED BY <4>2, <4>3, <4>4, <2>1
    <3>3. ASSUME NEW q \in 1..m, R[q][1] <= x + 1, x + 1 < R[q][2], x + 1 > i
          PROVE  \E g \in 1..Len(U) : U[g][1] <= x /\ x < U[g][2]
      <4>1. ~ (q < p)
        BY <3>3, <1>2
      <4>2. CASE q = p
        <5>1. U[h][1] <= x /\ x < U[h][2]
          BY <4>2, <3>3, <2>1, <2>6, SMTT(40)
        <5>2. h \in 1..Len(U)
          BY <2>1, <2>4, <1>2
        <5> QED BY <5>1, <5>2
      <4>3. CASE p < q
        <5>2. q - 1 \in 1..Len(U) /\ U[q - 1][1] = R[q][1] - 1 /\ U[q - 1][2] = R[q][2] - 1
          BY <4>3, <2>1, <2>4, <2>7, <1>2
        <5>3. U[q - 1][1] <= x /\ x < U[q - 1][2]
          BY <5>2, <3>3, <1>2
        <5> QED BY <5>2, <5>3
      <4> QED BY <4>1, <4>2, <4>3, <2>1
    <3> QED BY <3>1, <3>2, <3>3
  <2> QED BY <2>2, <2>4, <2>9, <2>10, <2>11, <1>b
<1>8. \/ p > m
      \/ p <= m /\ R[p][1] <= i /\ R[p][1] + 1 = R[p][2]
      \/ p <= m /\ R[p][1] <= i /\ R[p][1] + 1 # R[p][2]
      \/ p <= m /\ R[p][1] > i /\ ~ (p > 1 /\ R[p - 1][2] + 1 = R[p][1])
      \/ p <= m /\ R[p][1] > i /\ p > 1 /\ R[p - 1][2] + 1 = R[p][1]
  <2>1. p <= m => R[p][1] <= i \/ R[p][1] > i
    BY <1>2
  <2>2. p <= m \/ p > m
    BY <1>2
  <2> QED BY <2>1, <2>2
<1> QED BY <1>3, <1>4, <1>5, <1>6, <1>7, <1>8

-----------------------------------------------------------------------------
(* Counting indexes                                                        *)

\* The indexes of the ranges from a to b
Part(R, a, b) == Indexes(SubSeq(R, a, b))

LEMMA SubsetCounts ==
    ASSUME NEW T, IsFiniteSet(T), NEW S \in SUBSET T
    PROVE  IsFiniteSet(S) /\ Cardinality(S) \in Nat /\ Cardinality(T) \in Nat /\ Cardinality(S) <= Cardinality(T)
BY FS_Subset, FS_CardinalityType

LEMMA DisjointCounts ==
    ASSUME NEW S, NEW T, IsFiniteSet(S), IsFiniteSet(T), S \cap T = {}
    PROVE  IsFiniteSet(S \cup T) /\ Cardinality(S \cup T) = Cardinality(S) + Cardinality(T)
<1>1. Cardinality(S \cap T) = 0
  BY FS_EmptySet
<1> QED BY <1>1, FS_Union, FS_CardinalityType

LEMMA PartFacts ==
    ASSUME NEW R \in Sets, NEW a \in 1..(Len(R) + 1), NEW b \in (a - 1)..Len(R)
    PROVE  /\ SubSeq(R, a, b) \in Sets /\ Len(SubSeq(R, a, b)) = b - a + 1
           /\ \A q \in 1..(b - a + 1) : SubSeq(R, a, b)[q] = R[a + q - 1]
           /\ \A x : x \in Part(R, a, b) <=> x \in Nat /\ \E q \in a..b : R[q][1] <= x /\ x < R[q][2]
           /\ Part(R, a, b) \in SUBSET Indexes(R) /\ IsFiniteSet(Part(R, a, b)) /\ Cardinality(Part(R, a, b)) \in Nat
<1> DEFINE s == SubSeq(R, a, b)
<1>1. /\ R \in Seq(Range2) /\ Len(R) \in Nat /\ a \in Int /\ b \in Int /\ a \in Nat
      /\ \A q \in 1..Len(R) : R[q] \in Range2 /\ R[q][1] \in Nat /\ R[q][2] \in Nat /\ R[q][1] < R[q][2]
      /\ \A q, h \in 1..Len(R) : q < h => R[q][2] < R[h][1]
  <2>1. R \in Seq(Range2) /\ Len(R) \in Nat
    BY SetFacts
  <2>2. a \in Int /\ b \in Int /\ a \in Nat
    BY <2>1
  <2> QED BY <2>1, <2>2, SetFacts, RangesInOrder
<1>2. s \in Seq(Range2) /\ Len(s) = b - a + 1 /\ \A q \in 1..(b - a + 1) : s[q] = R[a + q - 1]
  <2>1. \A q \in a..b : R[q] \in Range2
    BY <1>1
  <2>2. /\ s \in Seq(Range2) /\ Len(s) = (IF a <= b THEN b - a + 1 ELSE 0)
        /\ \A q \in 1..(b - a + 1) : s[q] = R[a + q - 1]
    BY <2>1, <1>1, SubSeqProperties
  <2>3. (IF a <= b THEN b - a + 1 ELSE 0) = b - a + 1
    BY <1>1
  <2> QED BY <2>2, <2>3
<1> HIDE DEF s
<1>3. ASSUME NEW q \in 1..(b - a + 1) PROVE a + q - 1 \in 1..Len(R)
  BY <1>1
<1>4. \A q \in 1..Len(s) : s[q][1] < s[q][2]
  BY <1>1, <1>2, <1>3
<1>5. ASSUME NEW q \in 2..Len(s) PROVE s[q - 1][2] < s[q][1]
  <2> DEFINE g == q - 1
             f == a + q - 1
             e == a + g - 1
  <2>1. q \in 1..(b - a + 1) /\ g \in 1..(b - a + 1) /\ e < f
    BY <1>1, <1>2
  <2>2. s[q] = R[f] /\ s[g] = R[e] /\ e \in 1..Len(R) /\ f \in 1..Len(R)
    BY <2>1, <1>2, <1>3
  <2> HIDE DEF e, f, g
  <2>3. s[g][2] < s[q][1]
    BY <2>1, <2>2, <1>1
  <2> QED BY <2>3 DEF g
<1>6. s \in Sets
  BY <1>2, <1>4, <1>5 DEF Sets, WellFormed
<1>7. ASSUME NEW x PROVE x \in Indexes(s) <=> x \in Nat /\ \E q \in a..b : R[q][1] <= x /\ x < R[q][2]
  <2>1. x \in Indexes(s) <=> x \in Nat /\ \E q \in 1..Len(s) : s[q][1] <= x /\ x < s[q][2]
    BY <1>2, InIndexes
  <2>2. ASSUME NEW q \in 1..Len(s) PROVE a + q - 1 \in a..b /\ s[q] = R[a + q - 1]
    BY <1>1, <1>2
  <2>3. ASSUME NEW q \in a..b PROVE \E h \in 1..Len(s) : s[h] = R[q]
    <3> DEFINE h == q - a + 1
    <3>1. h \in 1..(b - a + 1) /\ a + h - 1 = q
      BY <1>1
    <3> HIDE DEF h
    <3>2. h \in 1..Len(s) /\ s[h] = R[q]
      BY <3>1, <1>2
    <3> QED BY <3>2
  <2>4. ASSUME NEW q \in 1..Len(s), s[q][1] <= x, x < s[q][2] PROVE \E h \in a..b : R[h][1] <= x /\ x < R[h][2]
    BY <2>2, <2>4
  <2>5. ASSUME NEW q \in a..b, R[q][1] <= x, x < R[q][2] PROVE \E h \in 1..Len(s) : s[h][1] <= x /\ x < s[h][2]
    <3>1. PICK h \in 1..Len(s) : s[h] = R[q]
      BY <2>3
    <3> QED BY <3>1, <2>5
  <2> QED BY <2>1, <2>4, <2>5
<1>8. Indexes(s) \in SUBSET Indexes(R)
  <2>1. \A q \in a..b : q \in 1..Len(R)
    BY <1>1
  <2>2. \A x : x \in Indexes(R) <=> x \in Nat /\ \E q \in 1..Len(R) : R[q][1] <= x /\ x < R[q][2]
    BY <1>1, InIndexes
  <2> QED BY <2>1, <2>2, <1>7
<1>9. IsFiniteSet(Indexes(s)) /\ Cardinality(Indexes(s)) \in Nat
  BY <1>6, IndexesFinite
<1> QED BY <1>2, <1>6, <1>7, <1>8, <1>9 DEF s, Part

\* One range more
LEMMA PartGrows ==
    ASSUME NEW R \in Sets, NEW a \in 1..(Len(R) + 1), NEW b \in (a - 1)..(Len(R) - 1)
    PROVE  Cardinality(Part(R, a, b + 1)) = Cardinality(Part(R, a, b)) + R[b + 1][2] - R[b + 1][1]
<1> DEFINE c == b + 1
           U == R[c][1]..(R[c][2] - 1)
           A == Part(R, a, b)
           B == Part(R, a, c)
<1>1. /\ Len(R) \in Nat /\ a \in Int /\ b \in Int /\ c \in 1..Len(R) /\ c \in (a - 1)..Len(R) /\ b \in (a - 1)..Len(R)
      /\ b < c /\ \A q \in a..c : q \in a..b \/ q = c
  BY SetFacts
<1>2. /\ \A q \in 1..Len(R) : R[q][1] \in Nat /\ R[q][2] \in Nat /\ R[q][1] < R[q][2]
      /\ \A q, h \in 1..Len(R) : q < h => R[q][2] < R[h][1]
  BY SetFacts, RangesInOrder
<1>3. \A x : x \in A <=> x \in Nat /\ \E q \in a..b : R[q][1] <= x /\ x < R[q][2]
  BY <1>1, PartFacts
<1>4. \A x : x \in B <=> x \in Nat /\ \E q \in a..c : R[q][1] <= x /\ x < R[q][2]
  <2> HIDE DEF c
  <2> QED BY <1>1, PartFacts
<1>5. IsFiniteSet(A) /\ Cardinality(A) \in Nat
  BY <1>1, PartFacts
<1>6. IsFiniteSet(U) /\ Cardinality(U) = R[c][2] - R[c][1]
  <2>1. R[c][1] \in Nat /\ R[c][2] \in Nat /\ R[c][1] < R[c][2]
    BY <1>1, <1>2
  <2> DEFINE lo == R[c][1]
             hi == R[c][2] - 1
  <2>2. lo \in Int /\ hi \in Int /\ lo <= hi /\ hi - lo + 1 = R[c][2] - R[c][1]
    BY <2>1, SMTT(40)
  <2>3. U = lo..hi
    OBVIOUS
  <2> HIDE DEF lo, hi, U
  <2>4. IsFiniteSet(lo..hi) /\ Cardinality(lo..hi) = IF lo > hi THEN 0 ELSE hi - lo + 1
    BY <2>2, FS_Interval
  <2> QED BY <2>2, <2>3, <2>4
<1>7. \A x : x \in U <=> x \in Nat /\ R[c][1] <= x /\ x < R[c][2]
  <2>1. R[c][1] \in Nat /\ R[c][2] \in Nat
    BY <1>1, <1>2
  <2> QED BY <2>1, SMTT(40)
<1> HIDE DEF A, B, U
<1>8. B = A \cup U
  <2>1. \A q \in a..b : q \in a..c
    BY <1>1
  <2>2. c \in a..c
    BY <1>1
  <2> HIDE DEF c
  <2>3. ASSUME NEW x \in B PROVE x \in A \cup U
    <3>1. PICK q \in a..c : R[q][1] <= x /\ x < R[q][2]
      BY <1>4
    <3>2. CASE q \in a..b
      BY <3>1, <3>2, <1>3, <1>4
    <3>3. CASE q = c
      BY <3>1, <3>3, <1>4, <1>7
    <3> QED BY <3>2, <3>3, <1>1
  <2>4. ASSUME NEW x \in A \cup U PROVE x \in B
    BY <2>1, <2>2, <1>3, <1>4, <1>7
  <2> QED BY <2>3, <2>4
<1>9. A \cap U = {}
  <2>1. ASSUME NEW x \in A, x \in U PROVE FALSE
    <3>1. PICK q \in a..b : R[q][1] <= x /\ x < R[q][2]
      BY <1>3
    <3>2. q \in 1..Len(R) /\ q < c
      BY <1>1
    <3> HIDE DEF c
    <3>3. R[q][2] < R[c][1] /\ R[q][2] \in Nat /\ R[c][1] \in Nat
      BY <3>2, <1>1, <1>2
    <3>4. x \in Nat /\ R[c][1] <= x
      BY <2>1, <1>7
    <3> QED BY <3>1, <3>3, <3>4
  <2> QED BY <2>1
<1>10. Cardinality(B) = Cardinality(A) + Cardinality(U)
  BY <1>5, <1>6, <1>8, <1>9, DisjointCounts
<1>11. R[c][1] \in Nat /\ R[c][2] \in Nat
  BY <1>1, <1>2
<1> QED BY <1>5, <1>6, <1>10, <1>11 DEF A, B

\* The indexes below one that ranges lie before and after
LEMMA PartBelow ==
    ASSUME NEW R \in Sets, NEW i \in Nat, NEW p \in 1..(Len(R) + 1),
           \A q \in 1..Len(R) : q < p => R[q][2] <= i,
           p <= Len(R) => i <= R[p][1]
    PROVE  Part(R, 1, p - 1) = {x \in Indexes(R) : x < i}
<1> DEFINE b == p - 1
<1>1. Len(R) \in Nat /\ 1 \in 1..(Len(R) + 1) /\ b \in (1 - 1)..Len(R) /\ \A q \in Int : q \in 1..b <=> 1 <= q /\ q < p
  BY SetFacts
<1>2. /\ \A q \in 1..Len(R) : R[q][1] \in Nat /\ R[q][2] \in Nat /\ R[q][1] < R[q][2]
      /\ \A q, h \in 1..Len(R) : q < h => R[q][2] < R[h][1]
  BY SetFacts, RangesInOrder
<1> HIDE DEF b
<1>3. \A x : x \in Part(R, 1, b) <=> x \in Nat /\ \E q \in 1..b : R[q][1] <= x /\ x < R[q][2]
  BY <1>1, PartFacts
<1>4. \A x : x \in Indexes(R) <=> x \in Nat /\ \E q \in 1..Len(R) : R[q][1] <= x /\ x < R[q][2]
  BY SetFacts, InIndexes
<1>5. \A q \in 1..b : q \in 1..Len(R) /\ q < p
  BY <1>1
<1>6. ASSUME NEW x \in Part(R, 1, b) PROVE x \in Indexes(R) /\ x < i
  <2>1. PICK q \in 1..b : R[q][1] <= x /\ x < R[q][2]
    BY <1>3
  <2>2. R[q][2] <= i /\ R[q][2] \in Nat /\ x \in Nat
    BY <1>2, <1>3, <1>5
  <2> QED BY <2>1, <2>2, <1>4, <1>5
<1>7. ASSUME NEW x \in Indexes(R), x < i PROVE x \in Part(R, 1, b)
  <2>1. PICK q \in 1..Len(R) : R[q][1] <= x /\ x < R[q][2]
    BY <1>4
  <2>2. x \in Nat
    BY <1>4
  <2>3. q < p
    <3>1. SUFFICES ASSUME ~ (q < p) PROVE FALSE
      OBVIOUS
    <3>2. p \in 1..Len(R) /\ p <= q
      BY <3>1, <1>1
    <3>3. R[p][1] <= R[q][1]
      <4>1. CASE p = q
        BY <4>1, <3>2, <1>2
      <4>2. CASE p < q
        <5>1. R[p][1] < R[p][2] /\ R[p][2] < R[q][1] /\ R[p][1] \in Nat /\ R[p][2] \in Nat /\ R[q][1] \in Nat
          BY <3>2, <4>2, <1>2
        <5> QED BY <5>1
      <4> QED BY <4>1, <4>2, <3>2
    <3>4. R[p][1] \in Nat /\ R[q][1] \in Nat /\ i <= R[p][1]
      BY <3>2, <1>2
    <3> QED BY <3>3, <3>4, <2>1, <2>2, <1>7
  <2>4. q \in 1..b
    BY <2>3, <1>1
  <2> QED BY <2>1, <2>2, <2>4, <1>3
<1>8. Part(R, 1, b) = {x \in Indexes(R) : x < i}
  BY <1>6, <1>7
<1> QED BY <1>8 DEF b

-----------------------------------------------------------------------------
(* Shifting an index by a set                                              *)

Below(S, i) == {x \in S : x < i}

LEMMA BelowFacts ==
    ASSUME NEW S \in SUBSET Nat, NEW i \in Nat
    PROVE  /\ IsFiniteSet(Below(S, i)) /\ Cardinality(Below(S, i)) \in Nat /\ Cardinality(Below(S, i)) <= i
<1> DEFINE top == i - 1
<1>1. top \in Int /\ IsFiniteSet(0..top) /\ Cardinality(0..top) = i
  <2>1. top \in Int
    OBVIOUS
  <2> HIDE DEF top
  <2>2. IsFiniteSet(0..top) /\ Cardinality(0..top) = IF 0 > top THEN 0 ELSE top - 0 + 1
    BY <2>1, FS_Interval
  <2>3. top = i - 1
    BY DEF top
  <2> QED BY <2>1, <2>2, <2>3
<1>2. Below(S, i) \in SUBSET (0..top)
  <2>1. ASSUME NEW x \in S, x < i PROVE x \in 0..top
    BY <2>1
  <2> QED BY <2>1 DEF Below
<1> HIDE DEF top
<1> QED BY <1>1, <1>2, SubsetCounts

\* The index without a set before it
LEMMA CountIsBelow ==
    ASSUME NEW R \in Sets, NEW i \in Nat
    PROVE  Count(R, 0, i) = Cardinality(Below(Indexes(R), i)) /\ Unshift(R, i) = i - Cardinality(Below(Indexes(R), i))
           /\ Unshift(R, i) \in Nat
<1>1. {x \in Indexes(R) : 0 <= x /\ x < i} = Below(Indexes(R), i)
  <2>1. \A x \in Indexes(R) : 0 <= x
    BY IndexesFinite
  <2> QED BY <2>1 DEF Below
<1>2. Count(R, 0, i) = Cardinality(Below(Indexes(R), i))
  BY <1>1 DEF Count
<1>3. Cardinality(Below(Indexes(R), i)) \in Nat /\ Cardinality(Below(Indexes(R), i)) <= i
  BY BelowFacts, IndexesFinite
<1> QED BY <1>2, <1>3 DEF Unshift

\* The indexes up to j that are not in a set
LEMMA OutsideCounts ==
    ASSUME NEW S \in SUBSET Nat, NEW j \in Nat
    PROVE  /\ IsFiniteSet({k \in 0..(j - 1) : k \notin S})
           /\ Cardinality({k \in 0..(j - 1) : k \notin S}) = j - Cardinality(Below(S, j))
<1> DEFINE top == j - 1
           out == {k \in 0..top : k \notin S}
<1>1. top \in Int /\ IsFiniteSet(0..top) /\ Cardinality(0..top) = j
  <2>1. top \in Int
    OBVIOUS
  <2> HIDE DEF top
  <2>2. IsFiniteSet(0..top) /\ Cardinality(0..top) = IF 0 > top THEN 0 ELSE top - 0 + 1
    BY <2>1, FS_Interval
  <2>3. top = j - 1
    BY DEF top
  <2> QED BY <2>1, <2>2, <2>3
<1>2. out \cup Below(S, j) = 0..top /\ out \cap Below(S, j) = {}
  <2>1. \A x \in S : x < j <=> x \in 0..top
    OBVIOUS
  <2> HIDE DEF top
  <2> QED BY <2>1 DEF Below
<1>3. IsFiniteSet(out) /\ Cardinality(out) \in Nat
  <2>1. out \in SUBSET (0..top)
    OBVIOUS
  <2> HIDE DEF top, out
  <2> QED BY <2>1, <1>1, SubsetCounts
<1> HIDE DEF out, top
<1>4. IsFiniteSet(Below(S, j)) /\ Cardinality(Below(S, j)) \in Nat
  BY BelowFacts
<1>5. j = Cardinality(out) + Cardinality(Below(S, j))
  BY <1>1, <1>2, <1>3, <1>4, DisjointCounts
<1>6. IsFiniteSet(out) /\ Cardinality(out) = j - Cardinality(Below(S, j))
  BY <1>3, <1>4, <1>5
<1> QED BY <1>6 DEF out, top

\* An index outside of the set with the right number of members below it is the shifted one.
LEMMA ShiftedByIs ==
    ASSUME NEW S \in SUBSET Nat, IsFiniteSet(S), NEW i \in Nat, NEW j \in Nat, j \notin S,
           j = i + Cardinality(Below(S, j))
    PROVE  ShiftedBy(S, i) = j
<1> DEFINE Out(h) == {k \in 0..(h - 1) : k \notin S}
           Good(h) == h \notin S /\ Cardinality(Out(h)) = i
<1>1. j \in 0..(i + Cardinality(S)) /\ Cardinality(S) \in Nat
  <2>1. Below(S, j) \in SUBSET S
    BY DEF Below
  <2>2. Cardinality(Below(S, j)) <= Cardinality(S) /\ Cardinality(S) \in Nat /\ Cardinality(Below(S, j)) \in Nat
    BY <2>1, SubsetCounts
  <2> QED BY <2>2
<1>2. Good(j)
  <2>1. Cardinality(Out(j)) = j - Cardinality(Below(S, j)) /\ Cardinality(Below(S, j)) \in Nat
    BY OutsideCounts, BelowFacts
  <2> HIDE DEF Out
  <2> QED BY <2>1
<1>3. ASSUME NEW h \in Nat, NEW g \in Nat, Good(h), Good(g), h < g PROVE FALSE
  <2>1. h \notin Out(h) /\ h \in Out(g) /\ Out(h) \in SUBSET Out(g)
    BY <1>3
  <2>2. IsFiniteSet(Out(g)) /\ IsFiniteSet(Out(h))
    BY OutsideCounts
  <2>3. Cardinality(Out(h)) = Cardinality(Out(g))
    BY <1>3
  <2> HIDE DEF Out
  <2>4. Out(h) = Out(g)
    BY <2>1, <2>2, <2>3, FS_Subset
  <2> QED BY <2>1, <2>4
<1>4. ASSUME NEW h \in 0..(i + Cardinality(S)), Good(h) PROVE h = j
  <2>1. h \in Nat
    BY <1>1
  <2> HIDE DEF Good
  <2> QED BY <2>1, <1>2, <1>3, <1>4
<1>5. ShiftedBy(S, i) = CHOOSE h \in 0..(i + Cardinality(S)) : Good(h)
  BY DEF ShiftedBy
<1> HIDE DEF Good
<1> QED BY <1>1, <1>2, <1>4, <1>5

LEMMA MinIs ==
    ASSUME NEW T \in SUBSET Int, NEW m \in T, \A k \in T : m <= k
    PROVE  Min(T) = m
<1>1. \A x \in T : (\A k \in T : x <= k) => x = m
  <2>1. TAKE x \in T
  <2>2. HAVE \A k \in T : x <= k
  <2>3. x <= m /\ m <= x /\ x \in Int /\ m \in Int
    BY <2>2
  <2> QED BY <2>3
<1> QED BY <1>1 DEF Min

\* Where the walk over the ranges stops
LEMMA ShiftPastFacts ==
    ASSUME NEW R \in Sets, NEW p \in 1..(Len(R) + 1), NEW i \in Int
    PROVE  LET w == ShiftPast(R, p, i) IN
           /\ w = <<w[1], w[2]>> /\ w[1] \in p..(Len(R) + 1) /\ w[2] \in Int /\ i <= w[2]
           /\ w[2] = i + Cardinality(Part(R, p, w[1] - 1))
           /\ \A h \in p..Len(R) : h < w[1] => R[h][2] <= w[2]
           /\ w[1] <= Len(R) => w[2] < R[w[1]][1]
<1> DEFINE shifted(q) == i + Cardinality(Part(R, p, q - 1))
           T == {h \in p..(Len(R) + 1) : h > Len(R) \/ R[h][1] > shifted(h)}
           w == ShiftPast(R, p, i)
<1>1. Len(R) \in Nat /\ p \in Int /\ \A q \in 1..Len(R) : R[q][1] \in Nat /\ R[q][2] \in Nat /\ R[q][1] < R[q][2]
  BY SetFacts
<1>2. ASSUME NEW h \in p..(Len(R) + 1) PROVE Cardinality(Part(R, p, h - 1)) \in Nat /\ IsFiniteSet(Part(R, p, h - 1))
  <2> DEFINE b == h - 1
  <2>1. b \in (p - 1)..Len(R)
    BY <1>1
  <2> HIDE DEF b
  <2>2. Cardinality(Part(R, p, b)) \in Nat /\ IsFiniteSet(Part(R, p, b))
    BY <2>1, PartFacts
  <2> QED BY <2>2 DEF b
<1>3. T \in SUBSET Nat /\ Len(R) + 1 \in T
  BY <1>1
<1>4. PICK q \in T : \A h \in T : q <= h
  <2> HIDE DEF T
  <2> QED BY <1>3, LeastNatural
<1>5. Min(T) = q
  <2> HIDE DEF T
  <2>1. T \in SUBSET Int
    BY <1>3
  <2> QED BY <2>1, <1>4, MinIs
<1>6. w = <<q, shifted(q)>>
  <2>1. w = <<Min(T), shifted(Min(T))>>
    BY DEF ShiftPast, Part
  <2> HIDE DEF T, w
  <2> QED BY <2>1, <1>5
<1>7. q \in p..(Len(R) + 1) /\ q \in Nat /\ (q > Len(R) \/ R[q][1] > shifted(q))
  BY <1>3, <1>4
<1>8. ASSUME NEW h \in p..Len(R), h < q PROVE R[h][2] <= shifted(q)
  <2>1. h \in p..(Len(R) + 1) /\ h \in 1..Len(R) /\ h \in Nat
    BY <1>1
  <2>2. h \notin T
    <3> HIDE DEF T
    <3>1. ~ (q <= h)
      BY <2>1, <1>7, <1>8
    <3> QED BY <3>1, <1>4
  <2>3. R[h][1] <= shifted(h)
    <3>1. ~ (R[h][1] > shifted(h))
      BY <2>1, <2>2
    <3>2. shifted(h) \in Int /\ R[h][1] \in Int
      BY <2>1, <1>1, <1>2, SMTT(40)
    <3> HIDE DEF shifted
    <3> QED BY <3>1, <3>2
  <2> DEFINE b == h - 1
             c == q - 1
             A == Part(R, p, b)
             B == Part(R, p, h)
             C == Part(R, p, c)
  <2>4. b \in (p - 1)..(Len(R) - 1) /\ b + 1 = h /\ h \in (p - 1)..Len(R) /\ c \in (p - 1)..Len(R) /\ h <= c
    BY <1>1, <1>7, <1>8
  <2>5. Cardinality(B) = Cardinality(A) + R[h][2] - R[h][1]
    <3> HIDE DEF b
    <3>1. Cardinality(Part(R, p, b + 1)) = Cardinality(Part(R, p, b)) + R[b + 1][2] - R[b + 1][1]
      BY <2>4, PartGrows
    <3> QED BY <3>1, <2>4
  <2>6. B \in SUBSET C
    <3> HIDE DEF c
    <3>1. \A x : x \in C <=> x \in Nat /\ \E g \in p..c : R[g][1] <= x /\ x < R[g][2]
      BY <2>4, PartFacts
    <3>2. \A x : x \in B <=> x \in Nat /\ \E g \in p..h : R[g][1] <= x /\ x < R[g][2]
      BY <2>4, PartFacts
    <3>3. \A g \in p..h : g \in p..c
      BY <2>4, <1>1
    <3> HIDE DEF B, C
    <3> QED BY <3>1, <3>2, <3>3
  <2>7. Cardinality(A) \in Nat /\ IsFiniteSet(C) /\ Cardinality(C) \in Nat
    BY <2>1, <1>2, <1>7
  <2>8. Cardinality(B) <= Cardinality(C) /\ Cardinality(B) \in Nat
    <3> HIDE DEF B, C
    <3> QED BY <2>6, <2>7, SubsetCounts
  <2>9. R[h][1] <= i + Cardinality(A)
    BY <2>3
  <2>10. shifted(q) = i + Cardinality(C)
    OBVIOUS
  <2>11. R[h][1] \in Nat /\ R[h][2] \in Nat
    BY <2>1, <1>1
  <2> HIDE DEF A, B, C, shifted, b, c
  <2> QED BY <2>5, <2>7, <2>8, <2>9, <2>10, <2>11, SMTT(40)
<1>9. shifted(q) \in Int /\ i <= shifted(q)
  <2>1. Cardinality(Part(R, p, q - 1)) \in Nat
    BY <1>2, <1>7
  <2> QED BY <2>1
<1>10. w[1] = q /\ w[2] = shifted(q) /\ w = <<w[1], w[2]>>
  BY <1>6
<1>11. w[2] = i + Cardinality(Part(R, p, w[1] - 1))
  BY <1>10
<1>12. q <= Len(R) => shifted(q) < R[q][1]
  <2>1. ASSUME q <= Len(R) PROVE shifted(q) < R[q][1]
    <3>1. R[q][1] > shifted(q) /\ R[q][1] \in Nat
      BY <2>1, <1>1, <1>7
    <3> HIDE DEF shifted
    <3> QED BY <3>1, <1>9
  <2> QED BY <2>1
<1> HIDE DEF w, shifted
<1>13. /\ w = <<w[1], w[2]>> /\ w[1] \in p..(Len(R) + 1) /\ w[2] \in Int /\ i <= w[2]
       /\ w[2] = i + Cardinality(Part(R, p, w[1] - 1))
       /\ \A h \in p..Len(R) : h < w[1] => R[h][2] <= w[2]
       /\ w[1] <= Len(R) => w[2] < R[w[1]][1]
  BY <1>7, <1>8, <1>9, <1>10, <1>11, <1>12
<1> QED BY <1>13 DEF w

\* Where a walk from the first range stops is the shifted index, and where it belongs.
LEMMA ShiftFacts ==
    ASSUME NEW R \in Sets, NEW i \in Nat
    PROVE  LET w == ShiftPast(R, 1, i) IN
           /\ w[2] \in Nat /\ w[2] = ShiftedBy(Indexes(R), i) /\ Place(R, w[1], w[2]) /\ w[2] \notin Indexes(R)
           /\ i <= w[2]
<1> DEFINE w == ShiftPast(R, 1, i)
           q == w[1]
           j == w[2]
           S == Indexes(R)
           A == Part(R, 1, q - 1)
<1>1. /\ Len(R) \in Nat /\ 1 \in 1..(Len(R) + 1)
      /\ \A h \in 1..Len(R) : R[h][1] \in Nat /\ R[h][2] \in Nat /\ R[h][1] < R[h][2]
      /\ \A h, g \in 1..Len(R) : h < g => R[h][2] < R[g][1]
  BY SetFacts, RangesInOrder
<1>2. /\ q \in 1..(Len(R) + 1) /\ j \in Int /\ i <= j /\ j = i + Cardinality(A)
      /\ \A h \in 1..Len(R) : h < q => R[h][2] <= j
      /\ q <= Len(R) => j < R[q][1]
  <2> DEFINE one == 1
             v == ShiftPast(R, one, i)
  <2>1. one \in 1..(Len(R) + 1) /\ i \in Int
    BY <1>1
  <2> HIDE DEF one
  <2>2. /\ v[1] \in one..(Len(R) + 1) /\ v[2] \in Int /\ i <= v[2]
        /\ v[2] = i + Cardinality(Part(R, one, v[1] - 1))
        /\ \A h \in one..Len(R) : h < v[1] => R[h][2] <= v[2]
        /\ v[1] <= Len(R) => v[2] < R[v[1]][1]
    BY <2>1, ShiftPastFacts
  <2>3. v = w
    BY DEF one
  <2> HIDE DEF v, w
  <2> QED BY <2>2, <2>3 DEF one
<1> HIDE DEF w
<1>3. j \in Nat
  BY <1>2
<1>4. ASSUME NEW h \in 1..Len(R), q <= h PROVE j < R[h][1] /\ j < R[h][2]
  <2>1. q \in 1..Len(R) /\ j < R[q][1]
    BY <1>1, <1>2, <1>4
  <2>2. CASE q = h
    BY <2>1, <2>2, <1>1, <1>3
  <2>3. CASE q # h
    <3>1. R[q][2] < R[h][1] /\ R[q][1] < R[q][2] /\ R[h][1] < R[h][2]
      BY <2>1, <2>3, <1>1, <1>4
    <3>2. R[q][1] \in Nat /\ R[q][2] \in Nat /\ R[h][1] \in Nat /\ R[h][2] \in Nat
      BY <2>1, <1>1
    <3> QED BY <2>1, <3>1, <3>2, <1>3, SMTT(40)
  <2> QED BY <2>2, <2>3
<1>5. Place(R, q, j)
  BY <1>2, <1>4 DEF Place
<1>6. j \notin S
  <2>1. ASSUME NEW h \in 1..Len(R), R[h][1] <= j, j < R[h][2] PROVE FALSE
    <3>1. CASE h < q
      BY <3>1, <2>1, <1>1, <1>2, <1>3
    <3>2. CASE q <= h
      BY <3>2, <2>1, <1>1, <1>4, <1>3
    <3> QED BY <3>1, <3>2, <1>1, <1>2
  <2> QED BY <2>1, SetFacts, InIndexes
<1>7. A = Below(S, j)
  <2>1. q <= Len(R) => j <= R[q][1]
    <3>1. ASSUME q <= Len(R) PROVE j <= R[q][1]
      BY <3>1, <1>2, <1>3, <1>1, <1>4
    <3> QED BY <3>1
  <2> HIDE DEF q, j
  <2> QED BY <2>1, <1>2, <1>3, PartBelow DEF Below
<1>8. S \in SUBSET Nat /\ IsFiniteSet(S)
  BY IndexesFinite
<1> HIDE DEF q, j, S, A
<1>9. ShiftedBy(S, i) = j
  BY <1>2, <1>3, <1>6, <1>7, <1>8, ShiftedByIs
<1>10. j \in Nat /\ j = ShiftedBy(S, i) /\ Place(R, q, j) /\ j \notin S /\ i <= j
  BY <1>2, <1>3, <1>5, <1>6, <1>9
<1> QED BY <1>10 DEF q, j, S, w

\* shift
THEOREM ShiftShifts ==
    ASSUME NEW R \in Sets, NEW i \in Nat
    PROVE  Shift(R, i) = ShiftedBy(Indexes(R), i) /\ Shift(R, i) \in Nat /\ Shift(R, i) \notin Indexes(R)
<1> DEFINE w == ShiftPast(R, 1, i)
<1>1. w[2] \in Nat /\ w[2] = ShiftedBy(Indexes(R), i) /\ w[2] \notin Indexes(R)
  BY ShiftFacts
<1>2. Shift(R, i) = w[2]
  BY DEF Shift
<1> QED BY <1>1, <1>2

\* add_shifted
THEOREM AddShiftedAdds ==
    ASSUME NEW R \in Sets, NEW i \in Nat
    PROVE  /\ AddShifted(R, i).set \in Sets /\ AddShifted(R, i).at = ShiftedBy(Indexes(R), i)
           /\ AddShifted(R, i).at \in Nat
           /\ Indexes(AddShifted(R, i).set) = Indexes(R) \cup {ShiftedBy(Indexes(R), i)}
<1> DEFINE w == ShiftPast(R, 1, i)
           q == w[1]
           j == w[2]
<1>1. j \in Nat /\ j = ShiftedBy(Indexes(R), i) /\ Place(R, q, j)
  BY ShiftFacts
<1>2. AddShifted(R, i) = [set |-> DoAdd(R, q, j), at |-> j]
  BY DEF AddShifted
<1> HIDE DEF q, j
<1>3. DoAdd(R, q, j) \in Sets /\ Indexes(DoAdd(R, q, j)) = Indexes(R) \cup {j}
  BY <1>1, DoAddFacts
<1> QED BY <1>1, <1>2, <1>3

\* erase_or_unshift
THEOREM EraseOrUnshiftUnshifts ==
    ASSUME NEW R \in Sets, NEW i \in Nat
    PROVE  /\ EraseOrUnshift(R, i).set = EraseAt(R, i)
           /\ EraseOrUnshift(R, i).at = IF i \in Indexes(R) THEN NPosIndex ELSE i - Cardinality(Below(Indexes(R), i))
           /\ i \notin Indexes(R) => EraseOrUnshift(R, i).at \in Nat
<1> DEFINE p == Find(R, i)
           A == Indexes(SubSeq(R, 1, p - 1))
           B == Below(Indexes(R), i)
<1>1. EraseOrUnshift(R, i) = [set |-> EraseAt(R, i), at |-> IF Has(R, i) THEN NPosIndex ELSE i - Cardinality(A)]
  BY DEF EraseOrUnshift
<1>2. Has(R, i) <=> i \in Indexes(R)
  BY HasIsMember
<1>3. ASSUME i \notin Indexes(R) PROVE A = B
  <2>1. /\ p \in 1..(Len(R) + 1) /\ Len(R) \in Nat
        /\ \A q \in 1..Len(R) : q < p => R[q][2] <= i
    BY FindFacts, SetFacts
  <2>2. p <= Len(R) => i <= R[p][1]
    <3>1. ASSUME p <= Len(R) PROVE i <= R[p][1]
      <4>1. ~ (R[p][1] <= i)
        BY <1>2, <1>3, <3>1 DEF Has
      <4>2. p \in 1..Len(R)
        BY <2>1, <3>1
      <4> HIDE DEF p
      <4>3. R[p][1] \in Nat
        BY <4>2, SetFacts
      <4> QED BY <4>1, <4>3
    <3> QED BY <3>1
  <2> HIDE DEF p
  <2>3. Part(R, 1, p - 1) = {x \in Indexes(R) : x < i}
    BY <2>1, <2>2, PartBelow
  <2> QED BY <2>3 DEF Part, Below
<1>4. Cardinality(B) \in Nat /\ Cardinality(B) <= i
  BY BelowFacts, IndexesFinite
<1> HIDE DEF A, B
<1>5. i \notin Indexes(R) => i - Cardinality(A) = i - Cardinality(B) /\ i - Cardinality(B) \in Nat
  BY <1>3, <1>4
<1> DEFINE e == EraseOrUnshift(R, i)
<1>6. e.set = EraseAt(R, i) /\ e.at = IF i \in Indexes(R) THEN NPosIndex ELSE i - Cardinality(A)
  <2>1. e.set = EraseAt(R, i) /\ e.at = IF Has(R, i) THEN NPosIndex ELSE i - Cardinality(A)
    BY <1>1
  <2> HIDE DEF e
  <2>2. CASE i \in Indexes(R)
    BY <2>1, <2>2, <1>2
  <2>3. CASE i \notin Indexes(R)
    BY <2>1, <2>3, <1>2
  <2> QED BY <2>2, <2>3
<1> HIDE DEF e
<1>7. e.at = IF i \in Indexes(R) THEN NPosIndex ELSE i - Cardinality(B)
  BY <1>5, <1>6
<1>8. i \notin Indexes(R) => e.at \in Nat
  BY <1>5, <1>7
<1> QED BY <1>6, <1>7, <1>8 DEF e, B

-----------------------------------------------------------------------------
(* Removing a range of indexes                                             *)

\* No index from from to to - 1 is left.
Stopped(R, from, to) == \A h \in 1..Len(R) : R[h][2] <= from \/ R[h][1] >= to

\* At most c ranges end after from.
AtMost(R, from, c) == \A h \in 1..Len(R) : h + c <= Len(R) => R[h][2] <= from

\* What one turn leaves to do: y is its result.
Turned(R, from, to, y) ==
    /\ y.set \in Sets /\ y.from \in Nat /\ from <= y.from /\ y.from < to
    /\ \A x \in Nat : x \in Indexes(y.set) => x \in Indexes(R)
    /\ \A x \in Indexes(R) : x \notin Indexes(y.set) => from <= x /\ x < to
    /\ \A x \in Indexes(y.set) : ~ (from <= x /\ x < y.from)
    /\ \A c \in Nat : AtMost(R, from, c) => Stopped(y.set, y.from, to) \/ AtMost(y.set, y.from, c - 1)

\* A turn of the loop of do_remove that has a range to work on
LEMMA RemoveTurn ==
    ASSUME NEW R \in Sets, NEW from \in Nat, NEW to \in Nat, from < to,
           Find(R, from) <= Len(R), R[Find(R, from)][1] < to
    PROVE  Turned(R, from, to, RemoveStep([set |-> R, from |-> from], to))
<1> DEFINE p == Find(R, from)
           m == Len(R)
           first == R[p][1]
           second == R[p][2]
           begin == IF first > from THEN first ELSE from
           y == RemoveStep([set |-> R, from |-> from], to)
           T == y.set
<1>1. Place(R, p, from)
  BY FindIsPlace
<1>2. p <= m /\ first < to
  OBVIOUS
<1>y. y = [from |-> begin,
           set |-> CASE first < begin /\ second > to -> InsertAt([R EXCEPT ![p][2] = begin], p + 1, <<to, second>>)
                     [] begin = first /\ to >= second -> RemoveAt(R, p)
                     [] begin = first /\ to < second -> [R EXCEPT ![p][1] = to]
                     [] OTHER -> [R EXCEPT ![p][2] = begin]]
  <2>1. ~ (p > Len(R) \/ first >= to)
    <3>1. p \in 1..m /\ first \in Nat
      BY <1>1, <1>2, PlaceFacts
    <3> QED BY <3>1, <1>2
  <2> QED BY <2>1 DEF RemoveStep
<1> HIDE DEF p
<1>3. /\ R \in Seq(Range2) /\ m \in Nat /\ p \in 1..m
      /\ \A q \in 1..m : R[q] \in Range2 /\ R[q][1] \in Nat /\ R[q][2] \in Nat /\ R[q][1] < R[q][2]
      /\ \A q, h \in 1..m : q < h => R[q][2] < R[h][1]
      /\ \A q \in 1..m : q < p => R[q][2] <= from /\ R[q][1] < from
      /\ \A q \in 1..m : p <= q => from < R[q][2]
      /\ \A q \in 1..m : p < q => from < R[q][1]
  BY <1>1, <1>2, PlaceFacts
<1>4. /\ first \in Nat /\ second \in Nat /\ first < second /\ begin \in Nat /\ from <= begin /\ first <= begin
      /\ begin < to /\ begin < second /\ from < second /\ (begin = first \/ begin = from)
  BY <1>2, <1>3
<1>5. \A x : x \in Indexes(R) <=> x \in Nat /\ \E q \in 1..m : R[q][1] <= x /\ x < R[q][2]
  BY SetFacts, InIndexes
<1>6. y.from = begin
  BY <1>y
<1>7. \A q \in 1..m : p < q => second < R[q][1]
  BY <1>3
<1>8. \A q \in 1..m : q < p => R[q][2] < first
  BY <1>3
<1> SUFFICES Turned(R, from, to, y)
  OBVIOUS
<1> HIDE DEF y, T, first, second, begin
\* What the ranges of the result have to satisfy in each case
<1>b. ASSUME NEW U \in Seq(Range2), T = U, \A q \in 1..Len(U) : U[q][1] < U[q][2],
             \A q \in 2..Len(U) : U[q - 1][2] < U[q][1],
             \A x \in Nat : (\E q \in 1..Len(U) : U[q][1] <= x /\ x < U[q][2]) <=>
                 (\E q \in 1..m : R[q][1] <= x /\ x < R[q][2] /\ ~ (q = p /\ begin <= x /\ x < to)),
             \A c \in Nat : AtMost(R, from, c) => Stopped(U, begin, to) \/ AtMost(U, begin, c - 1)
      PROVE  Turned(R, from, to, y)
  <2>1. U \in Sets
    BY <1>b DEF Sets, WellFormed
  <2>2. \A x : x \in Indexes(U) <=> x \in Nat /\ \E q \in 1..Len(U) : U[q][1] <= x /\ x < U[q][2]
    BY InIndexes
  <2>3. y.set = U
    BY <1>b DEF T
  <2>4. \A x : x \in Indexes(U) <=>
           x \in Nat /\ \E q \in 1..m : R[q][1] <= x /\ x < R[q][2] /\ ~ (q = p /\ begin <= x /\ x < to)
    BY <2>2, <1>b
  <2>5. \A x \in Nat : x \in Indexes(U) => x \in Indexes(R)
    BY <2>4, <1>5
  <2>6. ASSUME NEW x \in Indexes(R), x \notin Indexes(U) PROVE from <= x /\ x < to
    <3>1. x \in Nat /\ begin <= x /\ x < to
      BY <2>4, <2>6, <1>5
    <3> QED BY <3>1, <1>4
  <2>7. ASSUME NEW x \in Indexes(U), from <= x, x < begin PROVE FALSE
    <3>1. x \in Nat
      BY <2>4
    <3>2. PICK q \in 1..m : R[q][1] <= x /\ x < R[q][2]
      BY <2>4
    <3>3. begin = first /\ x < first
      BY <3>1, <2>7, <1>4
    <3>4. CASE q < p
      <4>1. R[q][2] <= from /\ R[q][2] \in Nat
        BY <3>4, <1>3
      <4> QED BY <4>1, <3>1, <3>2, <2>7
    <3>5. CASE q = p
      BY <3>1, <3>2, <3>3, <3>5, <1>4 DEF first
    <3>6. CASE p < q
      <4>1. second < R[q][1] /\ R[q][1] \in Nat
        BY <3>6, <1>3, <1>7
      <4> QED BY <4>1, <3>1, <3>2, <3>3, <1>4
    <3> QED BY <3>4, <3>5, <3>6, <1>3
  <2>8. \A c \in Nat : AtMost(R, from, c) => Stopped(U, begin, to) \/ AtMost(U, begin, c - 1)
    BY <1>b
  <2>9. from <= begin /\ begin < to /\ begin \in Nat
    BY <1>4
  <2> QED BY <2>1, <2>3, <2>5, <2>6, <2>7, <2>8, <2>9, <1>6 DEF Turned
<1>9. CASE first < begin /\ second > to
  <2> DEFINE H == HighTo(R, p, begin)
             e == <<to, second>>
             k == p + 1
             U == InsertAt(H, k, e)
  <2>1. T = U
    <3>1. T = InsertAt([R EXCEPT ![p][2] = begin], p + 1, <<to, second>>)
      BY <1>y, <1>9, <1>4 DEF T
    <3> QED BY <3>1 DEF HighTo
  <2>2. e \in Range2 /\ e[1] = to /\ e[2] = second
    BY <1>4 DEF Range2
  <2>3. H \in Seq(Range2) /\ Len(H) = m /\ \A q \in 1..m : H[q] = IF q = p THEN <<R[p][1], begin>> ELSE R[q]
    BY <1>3, <1>4, HighToFacts
  <2> HIDE DEF H, e
  <2>4. k \in 1..(Len(H) + 1) /\ k = p + 1 /\ k \in Nat
    BY <1>3, <2>3
  <2> HIDE DEF k
  <2>5. /\ U \in Seq(Range2) /\ Len(U) = Len(H) + 1
        /\ \A q \in 1..(Len(H) + 1) : U[q] = IF q < k THEN H[q] ELSE IF q = k THEN e ELSE H[q - 1]
    <3>1. H \in Seq(Range2) /\ k \in 1..(Len(H) + 1) /\ e \in Range2
      BY <2>2, <2>3, <2>4
    <3>2. IsInserted(Range2, H, k, e, U)
      BY <3>1, InsertionIs
    <3> HIDE DEF U
    <3> QED BY <3>2 DEF IsInserted
  <2> HIDE DEF U
  <2>6. \A q \in 1..m : q < p => q \in 1..Len(U) /\ U[q] = R[q]
    <3>1. TAKE q \in 1..m
    <3>2. HAVE q < p
    <3>3. q < k /\ q # p /\ q \in 1..(m + 1)
      BY <3>2, <2>4, <1>3
    <3> QED BY <3>3, <2>3, <2>5
  <2>7. p \in 1..Len(U) /\ U[p][1] = first /\ U[p][2] = begin
    <3>1. p < k /\ p \in 1..(m + 1)
      BY <2>4, <1>3
    <3> QED BY <3>1, <2>3, <2>5, <1>3 DEF first
  <2>8. k \in 1..Len(U) /\ U[k][1] = to /\ U[k][2] = second
    <3>1. ~ (k < k)
      BY <2>4
    <3>2. U[k] = e
      BY <3>1, <2>4, <2>5
    <3> QED BY <3>2, <2>2, <2>4, <2>5
  <2>9. \A q \in 1..m : p < q => q + 1 \in 1..Len(U) /\ U[q + 1] = R[q]
    <3>1. TAKE q \in 1..m
    <3>2. HAVE p < q
    <3> DEFINE f == q + 1
    <3>3. f \in 1..(m + 1) /\ ~ (f < k) /\ f # k /\ f - 1 = q /\ q # p
      BY <3>2, <2>4, <1>3
    <3> HIDE DEF f
    <3>4. U[f] = H[q] /\ H[q] = R[q]
      BY <3>3, <2>3, <2>5
    <3> QED BY <3>3, <3>4, <2>3, <2>5 DEF f
  <2>10. ASSUME NEW q \in 1..Len(U)
         PROVE  \/ q \in 1..m /\ q < p
                \/ q = p \/ q = k
                \/ \E h \in 1..m : p < h /\ q = h + 1
    <3>1. q > p + 1 => q - 1 \in 1..m /\ p < q - 1 /\ q = (q - 1) + 1
      BY <2>3, <2>5, <1>3
    <3>2. q < p => q \in 1..m
      BY <2>3, <2>5, <1>3
    <3> QED BY <3>1, <3>2, <2>3, <2>4, <2>5, <1>3
  <2>11. ASSUME NEW q \in 1..Len(U) PROVE U[q][1] < U[q][2]
    <3>1. CASE q \in 1..m /\ q < p
      BY <3>1, <2>6, <1>3
    <3>2. CASE q = p
      BY <3>2, <2>7, <1>9
    <3>3. CASE q = k
      BY <3>3, <2>8, <1>9, <1>4
    <3>4. ASSUME NEW h \in 1..m, p < h, q = h + 1 PROVE U[q][1] < U[q][2]
      BY <3>4, <2>9, <1>3
    <3> QED BY <3>1, <3>2, <3>3, <3>4, <2>10
  <2>12. ASSUME NEW q \in 2..Len(U) PROVE U[q - 1][2] < U[q][1]
    <3> DEFINE g == q - 1
    <3>0. q \in 1..Len(U) /\ g \in 1..Len(U) /\ g + 1 = q /\ q \in Nat /\ g \in Nat
      BY <2>3, <2>5, <1>3
    <3> HIDE DEF g
    <3>5. U[g][2] < U[q][1]
      <4>1. CASE q \in 1..m /\ q < p
        <5>1. g \in 1..m /\ g < p /\ g < q
          BY <4>1, <3>0, <1>3
        <5> QED BY <4>1, <5>1, <2>6, <1>3
      <4>2. CASE q = p
        <5>1. g \in 1..m /\ g < p
          BY <4>2, <3>0, <1>3
        <5> QED BY <4>2, <5>1, <2>6, <2>7, <1>8
      <4>3. CASE q = k
        <5>1. g = p
          BY <4>3, <3>0, <2>4, <1>3
        <5> QED BY <4>3, <5>1, <2>7, <2>8, <1>4
      <4>4. ASSUME NEW h \in 1..m, p < h, q = h + 1 PROVE U[g][2] < U[q][1]
        <5>1. g = h /\ U[q] = R[h] /\ second < R[h][1]
          BY <4>4, <3>0, <2>9, <1>7
        <5>2. CASE h = p + 1
          BY <5>1, <5>2, <2>4, <2>8
        <5>3. CASE h # p + 1
          <6> DEFINE f == h - 1
          <6>1. f \in 1..m /\ p < f /\ f + 1 = h /\ f < h
            BY <5>3, <4>4, <1>3
          <6> HIDE DEF f
          <6>2. U[g] = R[f]
            BY <6>1, <5>1, <2>9
          <6> QED BY <6>1, <6>2, <5>1, <1>3
        <5> QED BY <5>2, <5>3
      <4> QED BY <4>1, <4>2, <4>3, <4>4, <3>0, <2>10
    <3> QED BY <3>5 DEF g
  <2>13. ASSUME NEW x \in Nat
         PROVE  (\E q \in 1..Len(U) : U[q][1] <= x /\ x < U[q][2]) <=>
                   (\E q \in 1..m : R[q][1] <= x /\ x < R[q][2] /\ ~ (q = p /\ begin <= x /\ x < to))
    <3>1. ASSUME NEW q \in 1..Len(U), U[q][1] <= x, x < U[q][2]
          PROVE  \E h \in 1..m : R[h][1] <= x /\ x < R[h][2] /\ ~ (h = p /\ begin <= x /\ x < to)
      <4>1. CASE q \in 1..m /\ q < p
        <5>1. U[q] = R[q] /\ q # p
          BY <4>1, <2>6, <1>3
        <5> QED BY <5>1, <4>1, <3>1
      <4>2. CASE q = p \/ q = k
        <5>1. first <= x /\ x < second /\ ~ (begin <= x /\ x < to)
          BY <4>2, <3>1, <2>7, <2>8, <1>4, <1>9
        <5> QED BY <5>1, <1>3 DEF first, second
      <4>3. ASSUME NEW h \in 1..m, p < h, q = h + 1 PROVE R[h][1] <= x /\ x < R[h][2] /\ h # p
        BY <4>3, <3>1, <2>9, <1>3
      <4> QED BY <4>1, <4>2, <4>3, <2>10
    <3>2. ASSUME NEW q \in 1..m, R[q][1] <= x, x < R[q][2], ~ (q = p /\ begin <= x /\ x < to)
          PROVE  \E h \in 1..Len(U) : U[h][1] <= x /\ x < U[h][2]
      <4>1. CASE q < p
        BY <4>1, <3>2, <2>6
      <4>2. CASE q = p
        <5>1. first <= x /\ x < second /\ (x < begin \/ to <= x)
          BY <4>2, <3>2, <1>4 DEF first, second
        <5>2. CASE x < begin
          BY <5>1, <5>2, <2>7
        <5>3. CASE to <= x
          BY <5>1, <5>3, <2>8
        <5> QED BY <5>1, <5>2, <5>3
      <4>3. CASE p < q
        BY <4>3, <3>2, <2>9
      <4> QED BY <4>1, <4>2, <4>3, <1>3
    <3> QED BY <3>1, <3>2
  <2>14. Stopped(U, begin, to)
    <3>1. ASSUME NEW q \in 1..Len(U) PROVE U[q][2] <= begin \/ U[q][1] >= to
      <4>1. CASE q \in 1..m /\ q < p
        <5>1. U[q] = R[q] /\ R[q][2] <= from /\ R[q][2] \in Nat
          BY <4>1, <2>6, <1>3
        <5> QED BY <5>1, <1>4
      <4>2. CASE q = p \/ q = k
        BY <4>2, <2>7, <2>8, <1>4
      <4>3. ASSUME NEW h \in 1..m, p < h, q = h + 1 PROVE U[q][1] >= to
        <5>1. U[q] = R[h] /\ second < R[h][1] /\ R[h][1] \in Nat
          BY <4>3, <2>9, <1>7, <1>3
        <5> QED BY <5>1, <1>9, <1>4
      <4> QED BY <4>1, <4>2, <4>3, <2>10
    <3> QED BY <3>1 DEF Stopped
  <2>15. \A c \in Nat : AtMost(R, from, c) => Stopped(U, begin, to) \/ AtMost(U, begin, c - 1)
    BY <2>14
  <2>16. U \in Seq(Range2)
    BY <2>5
  <2> QED BY <2>1, <2>11, <2>12, <2>13, <2>15, <2>16, <1>b
<1>10. CASE begin = first /\ to < second
  <2> DEFINE U == LowTo(R, p, to)
  <2>1. T = U
    <3>1. T = [R EXCEPT ![p][1] = to]
      BY <1>y, <1>10, <1>4 DEF T
    <3> QED BY <3>1 DEF LowTo
  <2>2. U \in Seq(Range2) /\ Len(U) = m /\ \A q \in 1..m : U[q] = IF q = p THEN <<to, R[p][2]>> ELSE R[q]
    BY <1>3, LowToFacts
  <2> HIDE DEF U
  <2>3. (\A q \in 1..m : q # p => U[q] = R[q]) /\ U[p][1] = to /\ U[p][2] = second
    BY <2>2, <1>3 DEF second
  <2>4. ASSUME NEW q \in 1..Len(U) PROVE U[q][1] < U[q][2]
    <3>1. CASE q = p
      BY <3>1, <2>3, <1>10
    <3>2. CASE q # p
      BY <3>2, <2>2, <2>3, <1>3
    <3> QED BY <3>1, <3>2
  <2>5. ASSUME NEW q \in 2..Len(U) PROVE U[q - 1][2] < U[q][1]
    <3> DEFINE g == q - 1
    <3>1. q \in 1..m /\ g \in 1..m /\ g < q
      BY <1>3, <2>2
    <3> HIDE DEF g
    <3>2. R[g][2] < R[q][1]
      BY <3>1, <1>3
    <3>3. U[g][2] < U[q][1]
      <4>1. CASE q = p
        <5>1. g # p /\ R[g][2] < first /\ R[g][2] \in Nat
          BY <4>1, <3>1, <1>3, <1>8
        <5> QED BY <4>1, <5>1, <3>1, <2>3, <1>4, <1>10
      <4>2. CASE g = p
        <5>1. q # p /\ second < R[q][1]
          BY <4>2, <3>1, <1>3, <1>7
        <5> QED BY <4>2, <5>1, <3>1, <2>3
      <4>3. CASE q # p /\ g # p
        BY <4>3, <3>1, <3>2, <2>3
      <4> QED BY <4>1, <4>2, <4>3
    <3> QED BY <3>3 DEF g
  <2>6. ASSUME NEW x \in Nat
        PROVE  (\E q \in 1..Len(U) : U[q][1] <= x /\ x < U[q][2]) <=>
                   (\E q \in 1..m : R[q][1] <= x /\ x < R[q][2] /\ ~ (q = p /\ begin <= x /\ x < to))
    <3>1. ASSUME NEW q \in 1..m, U[q][1] <= x, x < U[q][2]
          PROVE  R[q][1] <= x /\ x < R[q][2] /\ ~ (q = p /\ begin <= x /\ x < to)
      <4>1. CASE q = p
        BY <4>1, <3>1, <2>3, <1>4, <1>10 DEF first, second
      <4>2. CASE q # p
        BY <4>2, <3>1, <2>3
      <4> QED BY <4>1, <4>2
    <3>2. ASSUME NEW q \in 1..m, R[q][1] <= x, x < R[q][2], ~ (q = p /\ begin <= x /\ x < to)
          PROVE  U[q][1] <= x /\ x < U[q][2]
      <4>1. CASE q = p
        <5>1. first <= x /\ x < second /\ ~ (begin <= x /\ x < to)
          BY <4>1, <3>2 DEF first, second
        <5> QED BY <4>1, <5>1, <2>3, <1>4, <1>10
      <4>2. CASE q # p
        BY <4>2, <3>2, <2>3
      <4> QED BY <4>1, <4>2
    <3> QED BY <3>1, <3>2, <2>2
  <2>7. Stopped(U, begin, to)
    <3>1. ASSUME NEW q \in 1..m PROVE U[q][2] <= begin \/ U[q][1] >= to
      <4>1. CASE q < p
        <5>1. U[q] = R[q] /\ R[q][2] <= from /\ R[q][2] \in Nat
          BY <4>1, <2>3, <1>3
        <5> QED BY <5>1, <1>4
      <4>2. CASE q = p
        BY <4>2, <2>3, <1>4
      <4>3. CASE p < q
        <5>1. U[q] = R[q] /\ second < R[q][1] /\ R[q][1] \in Nat
          BY <4>3, <2>3, <1>7, <1>3
        <5> QED BY <5>1, <1>10, <1>4
      <4> QED BY <4>1, <4>2, <4>3, <1>3
    <3> QED BY <3>1, <2>2 DEF Stopped
  <2>8. \A c \in Nat : AtMost(R, from, c) => Stopped(U, begin, to) \/ AtMost(U, begin, c - 1)
    BY <2>7
  <2>9. U \in Seq(Range2)
    BY <2>2
  <2> QED BY <2>1, <2>4, <2>5, <2>6, <2>8, <2>9, <1>b
<1>11. CASE begin = first /\ to >= second
  <2> DEFINE U == RemoveAt(R, p)
  <2>1. T = U
    BY <1>y, <1>11, <1>4 DEF T
  <2>2. U \in Seq(Range2) /\ Len(U) = m - 1 /\ \A q \in 1..(m - 1) : U[q] = IF q < p THEN R[q] ELSE R[q + 1]
    <3>1. IsRemoved(Range2, R, p, U)
      BY <1>3, RemovalIs
    <3>2. Len(R) = m
      BY <1>3
    <3> HIDE DEF U
    <3> QED BY <3>1, <3>2 DEF IsRemoved
  <2> HIDE DEF U
  <2>3. \A q \in 1..m : q < p => q \in 1..Len(U) /\ U[q] = R[q]
    BY <2>2, <1>3
  <2>4. \A q \in 1..m : p < q => q - 1 \in 1..Len(U) /\ U[q - 1] = R[q]
    <3>1. TAKE q \in 1..m
    <3>2. HAVE p < q
    <3> DEFINE f == q - 1
    <3>3. f \in 1..(m - 1) /\ ~ (f < p) /\ f + 1 = q
      BY <3>2, <1>3
    <3> HIDE DEF f
    <3>4. U[f] = R[q]
      BY <3>3, <2>2
    <3> QED BY <3>3, <3>4, <2>2 DEF f
  <2>5. ASSUME NEW q \in 1..Len(U)
        PROVE  \/ q \in 1..m /\ q < p
               \/ q >= p /\ q + 1 \in 1..m /\ p < q + 1 /\ U[q] = R[q + 1]
    <3>1. q \in 1..(m - 1) /\ q \in 1..m /\ q + 1 \in 1..m
      BY <2>2, <1>3
    <3>2. q < p \/ (q >= p /\ p < q + 1 /\ ~ (q < p))
      BY <3>1, <1>3
    <3> QED BY <3>1, <3>2, <2>2
  <2>6. ASSUME NEW q \in 1..Len(U) PROVE U[q][1] < U[q][2]
    <3>1. CASE q \in 1..m /\ q < p
      BY <3>1, <2>3, <1>3
    <3>2. CASE q + 1 \in 1..m /\ p < q + 1 /\ U[q] = R[q + 1]
      BY <3>2, <1>3
    <3> QED BY <3>1, <3>2, <2>5
  <2>7. ASSUME NEW q \in 2..Len(U) PROVE U[q - 1][2] < U[q][1]
    <3> DEFINE g == q - 1
               f == q + 1
    <3>1. q \in 1..Len(U) /\ g \in 1..Len(U) /\ g + 1 = q /\ g \in Nat /\ f \in Nat /\ f = q + 1
      BY <2>2, <1>3
    <3> HIDE DEF g, f
    <3>2. U[g][2] < U[q][1]
      <4>1. CASE q \in 1..m /\ q < p
        <5>1. g \in 1..m /\ g < p /\ g < q
          BY <4>1, <3>1, <1>3
        <5> QED BY <4>1, <5>1, <2>3, <1>3
      <4>2. CASE q >= p /\ f \in 1..m /\ p < f /\ U[q] = R[f]
        <5>1. CASE g < p
          <6>1. g \in 1..m /\ U[g] = R[g] /\ g < f
            BY <5>1, <3>1, <2>2, <2>3, <1>3
          <6> QED BY <6>1, <4>2, <1>3
        <5>2. CASE ~ (g < p)
          <6>1. U[g] = R[q] /\ q \in 1..m /\ q < f
            BY <5>2, <3>1, <2>2, <1>3
          <6> QED BY <6>1, <4>2, <1>3
        <5> QED BY <5>1, <5>2
      <4> QED BY <4>1, <4>2, <3>1, <2>5
    <3> QED BY <3>2 DEF g
  <2>8. ASSUME NEW x \in Nat
        PROVE  (\E q \in 1..Len(U) : U[q][1] <= x /\ x < U[q][2]) <=>
                   (\E q \in 1..m : R[q][1] <= x /\ x < R[q][2] /\ ~ (q = p /\ begin <= x /\ x < to))
    <3>1. ASSUME NEW q \in 1..Len(U), U[q][1] <= x, x < U[q][2]
          PROVE  \E h \in 1..m : R[h][1] <= x /\ x < R[h][2] /\ h # p
      <4>1. CASE q \in 1..m /\ q < p
        <5>1. U[q] = R[q] /\ q # p
          BY <4>1, <2>3, <1>3
        <5> QED BY <5>1, <4>1, <3>1
      <4>2. CASE q + 1 \in 1..m /\ p < q + 1 /\ U[q] = R[q + 1]
        <5>1. q + 1 # p
          BY <4>2, <1>3
        <5> QED BY <5>1, <4>2, <3>1
      <4> QED BY <4>1, <4>2, <2>5
    <3>2. ASSUME NEW q \in 1..m, R[q][1] <= x, x < R[q][2], ~ (q = p /\ begin <= x /\ x < to)
          PROVE  \E h \in 1..Len(U) : U[h][1] <= x /\ x < U[h][2]
      <4>1. CASE q < p
        BY <4>1, <3>2, <2>3
      <4>2. CASE q = p
        BY <4>2, <3>2, <1>4, <1>11 DEF first, second
      <4>3. CASE p < q
        BY <4>3, <3>2, <2>4
      <4> QED BY <4>1, <4>2, <4>3, <1>3
    <3> QED BY <3>1, <3>2
  <2>9. ASSUME NEW c \in Nat, AtMost(R, from, c) PROVE AtMost(U, begin, c - 1)
    <3>1. ASSUME NEW h \in 1..Len(U), h + (c - 1) <= Len(U) PROVE U[h][2] <= begin
      <4>1. h \in 1..m /\ h + c <= m
        BY <3>1, <2>2, <1>3
      <4>2. R[h][2] <= from
        BY <4>1, <2>9 DEF AtMost
      <4>3. h < p
        <5>1. p <= h => from < R[h][2] /\ R[h][2] \in Nat
          BY <4>1, <1>3
        <5> QED BY <4>1, <4>2, <5>1, <1>3
      <4>4. U[h] = R[h] /\ R[h][2] \in Nat
        BY <4>1, <4>3, <2>3, <1>3
      <4> QED BY <4>2, <4>4, <1>4
    <3> QED BY <3>1 DEF AtMost
  <2>10. \A c \in Nat : AtMost(R, from, c) => Stopped(U, begin, to) \/ AtMost(U, begin, c - 1)
    BY <2>9
  <2>11. U \in Seq(Range2)
    BY <2>2
  <2> QED BY <2>1, <2>6, <2>7, <2>8, <2>10, <2>11, <1>b
<1>12. CASE first < begin /\ second <= to
  <2> DEFINE U == HighTo(R, p, begin)
  <2>1. T = U
    <3>1. ~ (begin = first) /\ ~ (second > to)
      BY <1>12, <1>4
    <3>2. T = [R EXCEPT ![p][2] = begin]
      BY <1>y, <3>1 DEF T
    <3> QED BY <3>2 DEF HighTo
  <2>2. U \in Seq(Range2) /\ Len(U) = m /\ \A q \in 1..m : U[q] = IF q = p THEN <<R[p][1], begin>> ELSE R[q]
    BY <1>3, <1>4, HighToFacts
  <2> HIDE DEF U
  <2>3. (\A q \in 1..m : q # p => U[q] = R[q]) /\ U[p][1] = first /\ U[p][2] = begin
    BY <2>2, <1>3 DEF first
  <2>4. ASSUME NEW q \in 1..Len(U) PROVE U[q][1] < U[q][2]
    <3>1. CASE q = p
      BY <3>1, <2>3, <1>12
    <3>2. CASE q # p
      BY <3>2, <2>2, <2>3, <1>3
    <3> QED BY <3>1, <3>2
  <2>5. ASSUME NEW q \in 2..Len(U) PROVE U[q - 1][2] < U[q][1]
    <3> DEFINE g == q - 1
    <3>1. q \in 1..m /\ g \in 1..m /\ g < q
      BY <1>3, <2>2
    <3> HIDE DEF g
    <3>2. R[g][2] < R[q][1]
      BY <3>1, <1>3
    <3>3. U[g][2] < U[q][1]
      <4>1. CASE q = p
        <5>1. g # p /\ R[g][2] < first
          BY <4>1, <3>1, <1>3, <1>8
        <5> QED BY <4>1, <5>1, <3>1, <2>3
      <4>2. CASE g = p
        <5>1. q # p /\ second < R[q][1] /\ R[q][1] \in Nat
          BY <4>2, <3>1, <1>3, <1>7
        <5> QED BY <4>2, <5>1, <3>1, <2>3, <1>4
      <4>3. CASE q # p /\ g # p
        BY <4>3, <3>1, <3>2, <2>3
      <4> QED BY <4>1, <4>2, <4>3
    <3> QED BY <3>3 DEF g
  <2>6. ASSUME NEW x \in Nat
        PROVE  (\E q \in 1..Len(U) : U[q][1] <= x /\ x < U[q][2]) <=>
                   (\E q \in 1..m : R[q][1] <= x /\ x < R[q][2] /\ ~ (q = p /\ begin <= x /\ x < to))
    <3>1. ASSUME NEW q \in 1..m, U[q][1] <= x, x < U[q][2]
          PROVE  R[q][1] <= x /\ x < R[q][2] /\ ~ (q = p /\ begin <= x /\ x < to)
      <4>1. CASE q = p
        BY <4>1, <3>1, <2>3, <1>4, <1>12 DEF first, second
      <4>2. CASE q # p
        BY <4>2, <3>1, <2>3
      <4> QED BY <4>1, <4>2
    <3>2. ASSUME NEW q \in 1..m, R[q][1] <= x, x < R[q][2], ~ (q = p /\ begin <= x /\ x < to)
          PROVE  U[q][1] <= x /\ x < U[q][2]
      <4>1. CASE q = p
        <5>1. first <= x /\ x < second /\ ~ (begin <= x /\ x < to)
          BY <4>1, <3>2 DEF first, second
        <5> QED BY <4>1, <5>1, <2>3, <1>4, <1>12
      <4>2. CASE q # p
        BY <4>2, <3>2, <2>3
      <4> QED BY <4>1, <4>2
    <3> QED BY <3>1, <3>2, <2>2
  <2>7. ASSUME NEW c \in Nat, AtMost(R, from, c) PROVE AtMost(U, begin, c - 1)
    <3>1. ASSUME NEW h \in 1..m, h + (c - 1) <= m PROVE U[h][2] <= begin
      <4>1. CASE h < p
        <5>1. U[h] = R[h] /\ R[h][2] <= from /\ R[h][2] \in Nat
          BY <4>1, <2>3, <1>3
        <5> QED BY <5>1, <1>4
      <4>2. CASE h = p
        BY <4>2, <2>3, <1>4
      <4>3. CASE p < h
        <5> DEFINE g == h - 1
        <5>1. g \in 1..m /\ g + c <= m /\ p <= g
          BY <4>3, <3>1, <1>3
        <5> HIDE DEF g
        <5>2. R[g][2] <= from
          BY <5>1, <2>7 DEF AtMost
        <5>3. from < R[g][2] /\ R[g][2] \in Nat
          BY <5>1, <1>3
        <5> QED BY <5>2, <5>3
      <4> QED BY <4>1, <4>2, <4>3, <1>3
    <3> QED BY <3>1, <2>2 DEF AtMost
  <2>8. \A c \in Nat : AtMost(R, from, c) => Stopped(U, begin, to) \/ AtMost(U, begin, c - 1)
    BY <2>7
  <2>9. U \in Seq(Range2)
    BY <2>2
  <2> QED BY <2>1, <2>4, <2>5, <2>6, <2>8, <2>9, <1>b
<1>13. \/ first < begin /\ second > to
       \/ begin = first /\ to < second
       \/ begin = first /\ to >= second
       \/ first < begin /\ second <= to
  BY <1>4
<1> QED BY <1>9, <1>10, <1>11, <1>12, <1>13

\* What do_remove has reached when at most c of its turns are left: x holds no index of
\* the ones passed, and lost none but those asked for.
Removing(R, from, to, c) ==
    {x \in [set : Sets, from : from..(to - 1)] :
        /\ \A j \in Nat : j \in Indexes(x.set) => j \in Indexes(R)
        /\ \A j \in Indexes(R) : j \notin Indexes(x.set) => from <= j /\ j < to
        /\ \A j \in Indexes(x.set) : ~ (from <= j /\ j < x.from)
        /\ Stopped(x.set, x.from, to) \/ AtMost(x.set, x.from, c)}

LEMMA RemoveLoop ==
    ASSUME NEW R \in Sets, NEW from \in Nat, NEW to \in Nat, from < to, NEW c \in Nat,
           NEW x \in Removing(R, from, to, c)
    PROVE  RemoveStep(x, to) \in Removing(R, from, to, c - 1)
<1> DEFINE U == x.set
           f == x.from
           y == RemoveStep([set |-> U, from |-> f], to)
<1>1. /\ x = [set |-> U, from |-> f] /\ U \in Sets /\ f \in Nat /\ from <= f /\ f < to
      /\ \A j \in Nat : j \in Indexes(U) => j \in Indexes(R)
      /\ \A j \in Indexes(R) : j \notin Indexes(U) => from <= j /\ j < to
      /\ \A j \in Indexes(U) : ~ (from <= j /\ j < f)
      /\ Stopped(U, f, to) \/ AtMost(U, f, c)
  <2>1. x \in [set : Sets, from : from..(to - 1)]
    BY DEF Removing
  <2>2. x = [set |-> U, from |-> f] /\ U \in Sets /\ f \in from..(to - 1)
    BY <2>1
  <2> QED BY <2>2 DEF Removing
<1> HIDE DEF U, f
<1>2. Place(U, Find(U, f), f)
  BY <1>1, FindIsPlace
<1> DEFINE p == Find(U, f)
           m == Len(U)
<1>3. /\ m \in Nat /\ p \in 1..(m + 1)
      /\ \A q \in 1..m : U[q][1] \in Nat /\ U[q][2] \in Nat /\ U[q][1] < U[q][2]
      /\ \A q, h \in 1..m : q < h => U[q][2] < U[h][1]
      /\ \A q \in 1..m : q < p => U[q][2] <= f
      /\ \A q \in 1..m : p <= q => f < U[q][2]
  BY <1>1, <1>2, PlaceFacts
<1>4. CASE p > m \/ U[p][1] >= to
  <2>1. RemoveStep(x, to) = x
    <3>1. RemoveStep([set |-> U, from |-> f], to) = [set |-> U, from |-> f]
      BY <1>4 DEF RemoveStep
    <3> QED BY <3>1, <1>1
  <2>2. Stopped(U, f, to)
    <3>1. ASSUME NEW q \in 1..m PROVE U[q][2] <= f \/ U[q][1] >= to
      <4> HIDE DEF p
      <4>1. CASE q < p
        BY <4>1, <1>3
      <4>2. CASE p <= q
        <5>1. p \in 1..m /\ U[p][1] >= to
          BY <4>2, <1>3, <1>4
        <5>2. p = q \/ (p < q /\ U[p][2] < U[q][1] /\ U[p][1] < U[p][2])
          BY <4>2, <5>1, <1>3
        <5> QED BY <5>1, <5>2, <1>3
      <4> QED BY <4>1, <4>2, <1>3
    <3> QED BY <3>1 DEF Stopped
  <2>3. x \in [set : Sets, from : from..(to - 1)] /\ x.set = U /\ x.from = f
    BY DEF Removing, U, f
  <2> QED BY <2>1, <2>2, <2>3, <1>1 DEF Removing
<1>5. CASE p <= m /\ U[p][1] < to
  <2>1. Turned(U, f, to, y)
    BY <1>1, <1>5, RemoveTurn
  <2>2. y = RemoveStep(x, to)
    BY <1>1
  <2>3. AtMost(U, f, c)
    <3>1. ~ Stopped(U, f, to)
      <4> HIDE DEF p
      <4>1. p \in 1..m /\ f < U[p][2] /\ U[p][1] < to /\ U[p][1] \in Nat /\ U[p][2] \in Nat
        BY <1>3, <1>5
      <4>2. ~ (U[p][2] <= f \/ U[p][1] >= to) /\ p \in 1..Len(U)
        <5> DEFINE a == U[p][1]
                   b == U[p][2]
        <5>1. f \in Nat /\ a \in Nat /\ b \in Nat /\ f < b /\ a < to
          BY <1>1, <4>1
        <5> HIDE DEF a, b
        <5>2. ~ (b <= f) /\ ~ (a >= to)
          BY <5>1
        <5> QED BY <5>2, <4>1 DEF a, b
      <4> QED BY <4>2 DEF Stopped
    <3> QED BY <3>1, <1>1
  <2>y. y = [set |-> y.set, from |-> y.from]
    BY <1>3, <1>5 DEF RemoveStep
  <2> HIDE DEF y
  <2>4. /\ y.set \in Sets /\ y.from \in Nat /\ f <= y.from /\ y.from < to
        /\ \A j \in Nat : j \in Indexes(y.set) => j \in Indexes(U)
        /\ \A j \in Indexes(U) : j \notin Indexes(y.set) => f <= j /\ j < to
        /\ \A j \in Indexes(y.set) : ~ (f <= j /\ j < y.from)
        /\ Stopped(y.set, y.from, to) \/ AtMost(y.set, y.from, c - 1)
    BY <2>1, <2>3 DEF Turned
  <2>5. Indexes(y.set) \in SUBSET Nat /\ Indexes(R) \in SUBSET Nat
    BY <2>4, IndexesFinite
  <2>6. y \in [set : Sets, from : from..(to - 1)]
    <3>1. y.from \in from..(to - 1)
      BY <2>4, <1>1
    <3> QED BY <2>y, <2>4, <3>1
  <2>7. \A j \in Nat : j \in Indexes(y.set) => j \in Indexes(R)
    BY <2>4, <1>1
  <2>8. ASSUME NEW j \in Indexes(R), j \notin Indexes(y.set) PROVE from <= j /\ j < to
    BY <2>4, <2>5, <2>8, <1>1
  <2>9. ASSUME NEW j \in Indexes(y.set), from <= j, j < y.from PROVE FALSE
    BY <2>4, <2>5, <2>9, <1>1
  <2> QED BY <2>2, <2>4, <2>6, <2>7, <2>8, <2>9 DEF Removing
<1> QED BY <1>3, <1>4, <1>5

RemoveOp(c, x, e) == RemoveStep(x, c)
RemoveFold == INSTANCE FoldTheorems WITH op <- RemoveOp

\* do_remove of the indexes from..to - 1: a turn for each range is enough.
THEOREM RemoveRangeRemoves ==
    ASSUME NEW R \in Sets, NEW from \in Nat, NEW to \in Nat, from < to
    PROVE  /\ RemoveRange(R, from, to) \in Sets
           /\ Indexes(RemoveRange(R, from, to)) = {j \in Indexes(R) : j < from \/ to <= j}
<1> DEFINE n == Len(R)
           s == [p \in 1..n |-> p]
           base == [set |-> R, from |-> from]
           Inv == [k \in 0..n |-> Removing(R, from, to, n - k)]
<1>1. /\ R \in Seq(Range2) /\ n \in Nat
      /\ \A q \in 1..n : R[q][1] \in Nat /\ R[q][2] \in Nat /\ R[q][1] < R[q][2]
  BY SetFacts
<1>i. Indexes(R) \in SUBSET Nat
  BY IndexesFinite
<1>2. base \in Inv[0]
  <2>1. base \in [set : Sets, from : from..(to - 1)] /\ base.set = R /\ base.from = from
    BY <1>1
  <2>2. AtMost(R, from, n)
    BY <1>1 DEF AtMost
  <2>3. \A j \in Indexes(R) : ~ (from <= j /\ j < from)
    BY <1>i
  <2>4. base \in Removing(R, from, to, n)
    BY <2>1, <2>2, <2>3 DEF Removing
  <2> QED BY <2>4, <1>1
<1>3. ASSUME NEW k \in 1..n, NEW x \in Inv[k - 1] PROVE RemoveOp(to, x, s[k]) \in Inv[k]
  <2> DEFINE c == n - (k - 1)
  <2>1. k \in 0..n /\ k - 1 \in 0..n /\ c \in Nat /\ c - 1 = n - k
    BY <1>1
  <2>2. x \in Removing(R, from, to, c)
    BY <2>1
  <2> HIDE DEF c
  <2>3. RemoveStep(x, to) \in Removing(R, from, to, c - 1)
    BY <2>1, <2>2, RemoveLoop
  <2> QED BY <2>1, <2>3 DEF RemoveOp
<1> HIDE DEF Inv, base
<1>4. DOMAIN s = 1..n
  OBVIOUS
<1> HIDE DEF s
<1>5. RemoveFold!Fold(to, base, s) \in Inv[n]
  BY <1>1, <1>2, <1>3, <1>4, RemoveFold!FoldInvariant
<1> DEFINE z == RemoveFold!Fold(to, base, s)
<1>6. RemoveRange(R, from, to) = z.set
  BY DEF RemoveRange, RemoveOp, RemoveFold!Fold, FoldLeft, MapThenFoldSet, Max, RemoveFold!Greatest, base, s
<1> HIDE DEF z
<1>7. z \in Removing(R, from, to, 0)
  BY <1>5, <1>1 DEF Inv, z
<1> DEFINE U == z.set
           f == z.from
<1>8. /\ U \in Sets /\ f \in Nat /\ from <= f /\ f < to
      /\ \A j \in Nat : j \in Indexes(U) => j \in Indexes(R)
      /\ \A j \in Indexes(R) : j \notin Indexes(U) => from <= j /\ j < to
      /\ \A j \in Indexes(U) : ~ (from <= j /\ j < f)
      /\ Stopped(U, f, to) \/ AtMost(U, f, 0)
  <2>1. z \in [set : Sets, from : from..(to - 1)]
    BY <1>7 DEF Removing
  <2> QED BY <2>1, <1>7 DEF Removing
<1> HIDE DEF U, f
<1>9. /\ U \in Seq(Range2) /\ Len(U) \in Nat
      /\ \A q \in 1..Len(U) : U[q][1] \in Nat /\ U[q][2] \in Nat /\ U[q][1] < U[q][2]
  BY <1>8, SetFacts
<1>10. \A h \in 1..Len(U) : U[h][2] <= f \/ U[h][1] >= to
  BY <1>8, <1>9 DEF Stopped, AtMost
<1>11. Indexes(U) \in SUBSET Nat
  BY <1>8, IndexesFinite
<1>12. ASSUME NEW j \in Indexes(U), from <= j, j < to PROVE FALSE
  <2>1. j \in Nat /\ \E q \in 1..Len(U) : U[q][1] <= j /\ j < U[q][2]
    BY <1>9, InIndexes
  <2>2. PICK q \in 1..Len(U) : U[q][1] <= j /\ j < U[q][2]
    BY <2>1
  <2>3. f <= j
    BY <2>1, <1>8, <1>12
  <2> DEFINE a == U[q][1]
             b == U[q][2]
  <2>4. b <= f \/ a >= to
    BY <1>10
  <2>5. f \in Nat /\ a \in Nat /\ b \in Nat /\ a <= j /\ j < b /\ j \in Nat
    BY <1>8, <1>9, <2>1, <2>2
  <2> HIDE DEF a, b
  <2> QED BY <2>3, <2>4, <2>5, <1>12
<1>13. \A j \in Nat : j \in Indexes(U) <=> j \in Indexes(R) /\ (j < from \/ to <= j)
  <2>1. TAKE j \in Nat
  <2>2. ASSUME j \in Indexes(U) PROVE j \in Indexes(R) /\ (j < from \/ to <= j)
    BY <2>2, <1>8, <1>12
  <2>3. ASSUME j \in Indexes(R), j < from \/ to <= j PROVE j \in Indexes(U)
    BY <2>3, <1>8
  <2> QED BY <2>2, <2>3
<1>14. Indexes(U) = {j \in Indexes(R) : j < from \/ to <= j}
  BY <1>13, <1>11, <1>i
<1> QED BY <1>6, <1>8, <1>14 DEF U

-----------------------------------------------------------------------------
(* What every operation on one set of ranges promises                      *)

\* The indexes that insert_at and shift_for_insert_at leave
LEMMA InsertedIs ==
    ASSUME NEW S \in SUBSET Nat, NEW i \in Nat, NEW n \in Nat, NEW whole \in BOOLEAN, NEW x \in Nat
    PROVE  x \in InsertedIn(S, i, n, whole) <=>
               \/ x \in S /\ x < i
               \/ x - n \in S /\ x - n >= i
               \/ whole /\ i <= x /\ x < i + n
<1>1. x \in {j + n : j \in After(S, i)} <=> x - n \in S /\ x - n >= i
  <2>1. ASSUME NEW j \in After(S, i), x = j + n PROVE x - n \in S /\ x - n >= i
    <3>1. j \in S /\ j \in Nat /\ j >= i
      BY DEF After
    <3>2. x - n = j
      BY <2>1, <3>1
    <3> QED BY <3>1, <3>2
  <2>2. ASSUME x - n \in S, x - n >= i PROVE \E j \in After(S, i) : x = j + n
    <3> DEFINE j == x - n
    <3>1. j \in After(S, i) /\ x = j + n
      BY <2>2 DEF After
    <3> QED BY <3>1
  <2> QED BY <2>1, <2>2
<1>2. x \in (IF whole THEN i..(i + n - 1) ELSE {}) <=> whole /\ i <= x /\ x < i + n
  OBVIOUS
<1>3. x \in {j \in S : j < i} <=> x \in S /\ x < i
  OBVIOUS
<1> QED BY <1>1, <1>2, <1>3 DEF InsertedIn

LEMMA ErasedIs ==
    ASSUME NEW S \in SUBSET Nat, NEW i \in Nat, NEW x \in Nat
    PROVE  x \in ErasedIn(S, i) <=> (x \in S /\ x < i) \/ (x + 1 \in S /\ x + 1 > i)
<1>1. x \in {j - 1 : j \in After(S, i + 1)} <=> x + 1 \in S /\ x + 1 > i
  <2>1. ASSUME NEW j \in After(S, i + 1), x = j - 1 PROVE x + 1 \in S /\ x + 1 > i
    <3>1. j \in S /\ j \in Nat /\ j >= i + 1
      BY DEF After
    <3>2. x + 1 = j
      BY <2>1, <3>1
    <3> QED BY <3>1, <3>2
  <2>2. ASSUME x + 1 \in S, x + 1 > i PROVE \E j \in After(S, i + 1) : x = j - 1
    <3> DEFINE j == x + 1
    <3>1. j \in After(S, i + 1) /\ x = j - 1
      BY <2>2 DEF After
    <3> QED BY <3>1
  <2> QED BY <2>1, <2>2
<1> QED BY <1>1 DEF ErasedIn

LEMMA InsertedInNat ==
    ASSUME NEW S \in SUBSET Nat, NEW i \in Nat, NEW n \in Nat, NEW whole \in BOOLEAN
    PROVE  InsertedIn(S, i, n, whole) \in SUBSET Nat /\ ErasedIn(S, i) \in SUBSET Nat
<1>1. \A j \in After(S, i) : j + n \in Nat
  BY DEF After
<1>2. \A j \in After(S, i + 1) : j - 1 \in Nat
  BY DEF After
<1>3. (IF whole THEN i..(i + n - 1) ELSE {}) \in SUBSET Nat
  OBVIOUS
<1> QED BY <1>1, <1>2, <1>3 DEF InsertedIn, ErasedIn

\* shift_for_insert_at(index, count)
THEOREM ShiftForInsertAtShifts ==
    ASSUME NEW R \in Sets, NEW i \in Nat, NEW n \in Nat \ {0}
    PROVE  /\ ShiftForInsertAt(R, i, n) \in Sets
           /\ Indexes(ShiftForInsertAt(R, i, n)) = InsertedIn(Indexes(R), i, n, FALSE)
<1> DEFINE T == ShiftForInsertAt(R, i, n)
           S == Indexes(R)
<1>1. T \in Sets /\ \A x \in Nat : x \in Indexes(T) <=> (x \in S /\ x < i) \/ (x - n \in S /\ x - n >= i)
  BY ShiftForInsertAtFacts
<1>2. Indexes(T) \in SUBSET Nat /\ S \in SUBSET Nat
  BY <1>1, IndexesFinite
<1> HIDE DEF T, S
<1>3. InsertedIn(S, i, n, FALSE) \in SUBSET Nat
  BY <1>2, InsertedInNat
<1>4. \A x \in Nat : x \in InsertedIn(S, i, n, FALSE) <=> (x \in S /\ x < i) \/ (x - n \in S /\ x - n >= i)
  BY <1>2, InsertedIs
<1>5. \A x \in Nat : x \in Indexes(T) <=> x \in InsertedIn(S, i, n, FALSE)
  BY <1>1, <1>4
<1>6. Indexes(T) = InsertedIn(S, i, n, FALSE)
  BY <1>2, <1>3, <1>5
<1> QED BY <1>1, <1>6 DEF T, S

\* insert_at(index, count)
THEOREM InsertAtIndexInserts ==
    ASSUME NEW R \in Sets, NEW i \in Nat, NEW n \in Nat
    PROVE  /\ InsertAtIndex(R, i, n) \in Sets
           /\ Indexes(InsertAtIndex(R, i, n)) = InsertedIn(Indexes(R), i, n, TRUE)
<1> DEFINE T == InsertAtIndex(R, i, n)
           S == Indexes(R)
<1>1. T \in Sets /\ \A x \in Nat : x \in Indexes(T) <=>
          (x \in S /\ x < i) \/ (x - n \in S /\ x - n >= i) \/ (i <= x /\ x < i + n)
  BY InsertAtIndexFacts
<1>2. Indexes(T) \in SUBSET Nat /\ S \in SUBSET Nat
  BY <1>1, IndexesFinite
<1> HIDE DEF T, S
<1>3. InsertedIn(S, i, n, TRUE) \in SUBSET Nat
  BY <1>2, InsertedInNat
<1>4. \A x \in Nat : x \in InsertedIn(S, i, n, TRUE) <=>
          (x \in S /\ x < i) \/ (x - n \in S /\ x - n >= i) \/ (i <= x /\ x < i + n)
  BY <1>2, InsertedIs
<1>5. \A x \in Nat : x \in Indexes(T) <=> x \in InsertedIn(S, i, n, TRUE)
  BY <1>1, <1>4
<1>6. Indexes(T) = InsertedIn(S, i, n, TRUE)
  BY <1>2, <1>3, <1>5
<1> QED BY <1>1, <1>6 DEF T, S

\* erase_at(index)
THEOREM EraseAtErases ==
    ASSUME NEW R \in Sets, NEW i \in Nat
    PROVE  EraseAt(R, i) \in Sets /\ Indexes(EraseAt(R, i)) = ErasedIn(Indexes(R), i)
<1> DEFINE T == EraseAt(R, i)
           S == Indexes(R)
<1>1. T \in Sets /\ \A x \in Nat : x \in Indexes(T) <=> (x \in S /\ x < i) \/ (x + 1 \in S /\ x + 1 > i)
  BY EraseAtFacts
<1>2. Indexes(T) \in SUBSET Nat /\ S \in SUBSET Nat
  BY <1>1, IndexesFinite
<1> HIDE DEF T, S
<1>3. ErasedIn(S, i) \in SUBSET Nat
  BY <1>2, InsertedInNat
<1>4. \A x \in Nat : x \in ErasedIn(S, i) <=> (x \in S /\ x < i) \/ (x + 1 \in S /\ x + 1 > i)
  BY <1>2, ErasedIs
<1>5. \A x \in Nat : x \in Indexes(T) <=> x \in ErasedIn(S, i)
  BY <1>1, <1>4
<1>6. Indexes(T) = ErasedIn(S, i)
  BY <1>2, <1>3, <1>5
<1> QED BY <1>1, <1>6 DEF T, S

\* Whatever the ranges and the index, each operation on one set does to the indexes what
\* it promises, and leaves ranges that are ordered and apart.
THEOREM OperationsAgreeAlways ==
    ASSUME NEW R \in Sets, NEW i \in Nat
    PROVE  OperationsAgree(R, i)
<1> DEFINE S == Indexes(R)
<1>1. \A T \in Sets : WellFormed(T)
  BY DEF Sets
<1>2. S \in SUBSET Nat
  BY IndexesFinite
<1>3. WellFormed(Add(R, i)) /\ Indexes(Add(R, i)) = S \cup {i}
  BY <1>1, AddAdds
<1>4. Has(R, i) = (i \in S)
  BY HasIsMember
<1>5. WellFormed(InsertAtIndex(R, i, 2)) /\ Indexes(InsertAtIndex(R, i, 2)) = InsertedIn(S, i, 2, TRUE)
  <2>1. 2 \in Nat
    OBVIOUS
  <2> QED BY <2>1, <1>1, InsertAtIndexInserts
<1>6. WellFormed(ShiftForInsertAt(R, i, 2)) /\ Indexes(ShiftForInsertAt(R, i, 2)) = InsertedIn(S, i, 2, FALSE)
  <2>1. 2 \in Nat \ {0}
    OBVIOUS
  <2> QED BY <2>1, <1>1, ShiftForInsertAtShifts
<1>7. WellFormed(EraseAt(R, i)) /\ Indexes(EraseAt(R, i)) = ErasedIn(S, i)
  BY <1>1, EraseAtErases
<1>8. EraseOrUnshift(R, i).at = IF i \in S THEN NPosIndex ELSE i - Cardinality({j \in S : j < i})
  BY EraseOrUnshiftUnshifts DEF Below
<1>9. WellFormed(RemoveRange(R, i, i + 2)) /\ Indexes(RemoveRange(R, i, i + 2)) = S \ {i, i + 1}
  <2> DEFINE to == i + 2
  <2>1. to \in Nat /\ i < to
    OBVIOUS
  <2>2. {j \in S : j < i \/ to <= j} = S \ {i, i + 1}
    BY <1>2
  <2> HIDE DEF to
  <2>3. RemoveRange(R, i, to) \in Sets /\ Indexes(RemoveRange(R, i, to)) = {j \in S : j < i \/ to <= j}
    BY <2>1, RemoveRangeRemoves
  <2> QED BY <2>2, <2>3, <1>1 DEF to
<1>10. Shift(R, i) = ShiftedBy(S, i)
  BY ShiftShifts
<1>11. /\ WellFormed(AddShifted(R, i).set) /\ Indexes(AddShifted(R, i).set) = S \cup {ShiftedBy(S, i)}
       /\ AddShifted(R, i).at = ShiftedBy(S, i)
  BY <1>1, AddShiftedAdds
<1> HIDE DEF S
<1> QED BY <1>3, <1>4, <1>5, <1>6, <1>7, <1>8, <1>9, <1>10, <1>11, Zenon DEF OperationsAgree, S

-----------------------------------------------------------------------------
(* The members of a set in an order                                        *)

\* How many members of S come before x in the order L
Rank(S, L, x) == Cardinality({y \in S : <<y, x>> \in L})

OrderOn(S, L) ==
    /\ \A x \in S : <<x, x>> \notin L
    /\ \A x, y \in S : x # y => <<x, y>> \in L \/ <<y, x>> \in L
    /\ \A x, y, z \in S : <<x, y>> \in L /\ <<y, z>> \in L => <<x, z>> \in L

LEMMA RankGrows ==
    ASSUME NEW S, IsFiniteSet(S), NEW L, OrderOn(S, L), NEW x \in S, NEW z \in S, <<x, z>> \in L
    PROVE  Rank(S, L, x) < Rank(S, L, z)
<1> DEFINE before(u) == {y \in S : <<y, u>> \in L}
<1>1. before(x) \cup {x} \in SUBSET before(z) /\ x \notin before(x)
  BY DEF OrderOn
<1>2. IsFiniteSet(before(x)) /\ IsFiniteSet(before(z))
  BY FS_Subset
<1> DEFINE A == before(x)
           B == before(z)
<1> HIDE DEF before
<1>3. Cardinality(A \cup {x}) = Cardinality(A) + 1
  BY <1>1, <1>2, FS_AddElement
<1>4. Cardinality(A \cup {x}) <= Cardinality(B)
  BY <1>1, <1>2, FS_Subset
<1>5. Cardinality(A) \in Nat /\ Cardinality(B) \in Nat
  BY <1>2, FS_CardinalityType
<1> HIDE DEF A, B
<1>6. Cardinality(A) < Cardinality(B)
  BY <1>3, <1>4, <1>5
<1> QED BY <1>6 DEF A, B, before, Rank

\* In an order each rank below the number of members is taken by one of them.
LEMMA RanksAreTaken ==
    ASSUME NEW S, IsFiniteSet(S), NEW L, OrderOn(S, L)
    PROVE  /\ Cardinality(S) \in Nat
           /\ \A x \in S : Rank(S, L, x) \in 0..(Cardinality(S) - 1)
           /\ \A k \in 1..Cardinality(S) : \E x \in S : Rank(S, L, x) = k - 1
<1> DEFINE n == Cardinality(S)
<1>1. n \in Nat
  BY FS_CardinalityType
<1>2. ASSUME NEW x \in S PROVE Rank(S, L, x) \in 0..(n - 1)
  <2> DEFINE A == {y \in S : <<y, x>> \in L}
  <2>1. A \in SUBSET (S \ {x})
    BY DEF OrderOn
  <2>2. IsFiniteSet(S \ {x}) /\ Cardinality(S \ {x}) = n - 1
    BY FS_RemoveElement
  <2>3. Cardinality(A) <= n - 1 /\ IsFiniteSet(A)
    BY <2>1, <2>2, FS_Subset, ZenonT(40)
  <2>4. Cardinality(A) \in Nat
    BY <2>3, FS_CardinalityType
  <2> HIDE DEF n
  <2> QED BY <1>1, <2>3, <2>4 DEF Rank
<1> DEFINE f == [x \in S |-> Rank(S, L, x)]
           T == 0..(n - 1)
<1>3. f \in Injection(S, T)
  <2>1. f \in [S -> T]
    BY <1>2
  <2>2. ASSUME NEW x \in S, NEW z \in S, x # z PROVE f[x] # f[z]
    <3>1. Rank(S, L, x) < Rank(S, L, z) \/ Rank(S, L, z) < Rank(S, L, x)
      BY <2>2, RankGrows DEF OrderOn
    <3>2. Rank(S, L, x) \in T /\ Rank(S, L, z) \in T
      BY <1>2
    <3> QED BY <1>1, <3>1, <3>2
  <2> QED BY <2>1, <2>2 DEF Injection, IsInjective
<1>4. IsFiniteSet(T) /\ Cardinality(T) = n
  <2>1. 0 \in Int /\ n - 1 \in Int
    BY <1>1
  <2>2. IsFiniteSet(T) /\ Cardinality(T) = IF 0 > n - 1 THEN 0 ELSE n - 1 - 0 + 1
    BY <2>1, FS_Interval
  <2> QED BY <1>1, <2>2
<1>5. f \in Surjection(S, T)
  BY <1>3, <1>4, FS_Injection
<1>6. \A t \in T : \E x \in S : f[x] = t
  BY <1>5 DEF Surjection
<1>7. ASSUME NEW k \in 1..n PROVE \E x \in S : Rank(S, L, x) = k - 1
  <2>1. k - 1 \in T
    BY <1>1
  <2> QED BY <2>1, <1>6
<1> QED BY <1>1, <1>2, <1>7

\* Strictly increasing sequences of indexes, and the set of a sequence's entries
Increasing == {s \in Seq(Nat) : \A h, k \in 1..Len(s) : h < k => s[h] < s[k]}
Entries(s) == {s[k] : k \in 1..Len(s)}

LEMMA InOrderFacts ==
    ASSUME NEW S \in SUBSET Nat, IsFiniteSet(S)
    PROVE  /\ InOrder(S) \in Increasing /\ Entries(InOrder(S)) = S
           /\ Len(InOrder(S)) = Cardinality(S) /\ Cardinality(S) \in Nat
<1> DEFINE n == Cardinality(S)
           L == {u \in S \X S : u[1] < u[2]}
           a == InOrder(S)
           at(k, x) == Cardinality({y \in S : y < x}) = k - 1
<1>1. OrderOn(S, L)
  <2>1. \A x, y \in S : <<x, y>> \in L <=> x < y
    OBVIOUS
  <2> HIDE DEF L
  <2> QED BY <2>1 DEF OrderOn
<1>2. ASSUME NEW x \in S PROVE Cardinality({y \in S : y < x}) = Rank(S, L, x)
  <2>1. {y \in S : y < x} = {y \in S : <<y, x>> \in L}
    OBVIOUS
  <2> QED BY <2>1 DEF Rank
<1>3. /\ n \in Nat /\ \A x \in S : Rank(S, L, x) \in 0..(n - 1)
      /\ \A k \in 1..n : \E x \in S : Rank(S, L, x) = k - 1
  BY <1>1, RanksAreTaken
<1>4. \A x, y \in S : x < y => Rank(S, L, x) < Rank(S, L, y)
  BY <1>1, RankGrows
<1> HIDE DEF L
<1>5. a = [k \in 1..n |-> CHOOSE x \in S : at(k, x)]
  BY DEF InOrder, InOrderBy
<1>6. ASSUME NEW k \in 1..n PROVE a[k] \in S /\ Rank(S, L, a[k]) = k - 1
  <2>1. \E x \in S : at(k, x)
    <3>1. PICK x \in S : Rank(S, L, x) = k - 1
      BY <1>3
    <3> QED BY <3>1, <1>2
  <2>2. a[k] = CHOOSE x \in S : at(k, x)
    BY <1>5
  <2>3. a[k] \in S /\ at(k, a[k])
    BY <2>1, <2>2
  <2> QED BY <2>3, <1>2
<1>7. a \in Seq(Nat) /\ Len(a) = n
  <2>1. DOMAIN a = 1..n /\ a = [k \in 1..n |-> a[k]]
    BY <1>5
  <2>2. a \in [1..n -> Nat]
    BY <1>6, <2>1
  <2> HIDE DEF a, n
  <2> QED BY <1>3, <2>2
<1> HIDE DEF a
<1>8. ASSUME NEW h \in 1..n, NEW k \in 1..n, h < k PROVE a[h] < a[k]
  <2>1. Rank(S, L, a[h]) < Rank(S, L, a[k])
    BY <1>3, <1>6, <1>8
  <2>2. a[h] \in Nat /\ a[k] \in Nat /\ a[h] \in S /\ a[k] \in S
    BY <1>6
  <2>3. a[k] < a[h] => Rank(S, L, a[k]) < Rank(S, L, a[h])
    BY <1>4, <2>2
  <2>4. Rank(S, L, a[h]) \in Int /\ Rank(S, L, a[k]) \in Int
    BY <1>3, <2>2
  <2> QED BY <2>1, <2>2, <2>3, <2>4
<1>9. ASSUME NEW x \in S PROVE \E k \in 1..n : a[k] = x
  <2> DEFINE k == Rank(S, L, x) + 1
  <2>1. k \in 1..n /\ Rank(S, L, x) = k - 1
    BY <1>3
  <2>2. a[k] \in S /\ Rank(S, L, a[k]) = k - 1
    BY <2>1, <1>6
  <2> HIDE DEF k
  <2>3. ~ (a[k] < x) /\ ~ (x < a[k])
    <3> DEFINE b == a[k]
    <3>1. b \in S /\ Rank(S, L, b) = Rank(S, L, x) /\ Rank(S, L, x) \in Int
      BY <2>1, <2>2, <1>3
    <3> HIDE DEF b
    <3>2. ~ (b < x) /\ ~ (x < b)
      BY <3>1, <1>4
    <3> QED BY <3>2 DEF b
  <2>4. a[k] \in Nat /\ x \in Nat
    BY <2>2
  <2> QED BY <2>1, <2>3, <2>4
<1>10. Entries(a) = S
  BY <1>6, <1>7, <1>9 DEF Entries
<1> QED BY <1>3, <1>7, <1>8, <1>10 DEF a, Increasing

-----------------------------------------------------------------------------
(* Building a set from indexes in order                                    *)

\* ChunkedRangeVectorBuilder::push_back of an index after all of the set
LEMMA PushBackFacts ==
    ASSUME NEW R \in Sets, NEW i \in Nat, \A x \in Indexes(R) : x < i
    PROVE  PushBack(R, i) \in Sets /\ Indexes(PushBack(R, i)) = Indexes(R) \cup {i}
<1> DEFINE n == Len(R)
           U == Indexes(R) \cup {i}
<1>1. /\ R \in Seq(Range2) /\ n \in Nat
      /\ \A q \in 1..n : R[q] \in Range2 /\ R[q][1] \in Nat /\ R[q][2] \in Nat /\ R[q][1] < R[q][2]
      /\ \A q \in 2..n : R[q - 1][2] < R[q][1]
      /\ R # <<>> <=> n > 0
  BY SetFacts
<1>2. U \in SUBSET Nat /\ \A x \in Nat : In(R, x) <=> x \in Indexes(R)
  BY IndexesFinite, InOf
<1>3. ASSUME NEW q \in 1..n PROVE R[q][2] <= i
  <2> DEFINE x == R[q][2] - 1
  <2>1. x \in Nat /\ R[q][1] <= x /\ x < R[q][2]
    BY <1>1
  <2>2. x \in Indexes(R)
    BY <2>1, <1>2 DEF In
  <2>3. x < i
    BY <2>2
  <2> QED BY <2>3, <1>1
<1>4. CASE n > 0 /\ R[n][2] = i
  <2> DEFINE T == Longer(R, n, 1)
  <2>1. n \in 1..n /\ R[n][2] + 1 \in Nat
    BY <1>1, <1>4
  <2>2. T \in Seq(Range2) /\ Len(T) = n
        /\ \A q \in 1..n : T[q] = IF q = n THEN <<R[n][1], R[n][2] + 1>> ELSE R[q]
    BY <1>1, <2>1, LongerFacts
  <2>3. PushBack(R, i) = T
    BY <1>1, <1>4 DEF PushBack, Last
  <2> HIDE DEF T
  <2>4. T[n][1] = R[n][1] /\ T[n][2] = i + 1 /\ \A q \in 1..n : q # n => T[q] = R[q]
    BY <1>4, <2>1, <2>2
  <2>5. \A q \in 1..Len(T) : T[q][1] < T[q][2]
    BY <1>1, <1>4, <2>1, <2>2, <2>4
  <2>6. ASSUME NEW q \in 2..Len(T) PROVE T[q - 1][2] < T[q][1]
    <3>1. q \in 2..n /\ q - 1 \in 1..n /\ q - 1 # n
      BY <2>2, <1>1
    <3> QED BY <3>1, <1>1, <2>4, SMTT(40)
  <2>7. ASSUME NEW x \in Nat PROVE In(T, x) <=> x \in U
    <3>1. ASSUME In(T, x) PROVE x \in U
      <4>1. PICK q \in 1..n : T[q][1] <= x /\ x < T[q][2]
        BY <3>1, <2>2 DEF In
      <4>2. CASE q # n
        BY <4>1, <4>2, <2>4, <1>2 DEF In
      <4>3. CASE q = n
        <5>1. R[n][1] <= x /\ (x < R[n][2] \/ x = i)
          BY <4>1, <4>3, <2>4, <1>4
        <5> QED BY <5>1, <2>1, <1>2 DEF In
      <4> QED BY <4>2, <4>3
    <3>2. ASSUME x \in U PROVE In(T, x)
      <4>1. CASE x = i
        <5>1. R[n][1] <= i
          BY <1>1, <1>4, <2>1
        <5> QED BY <5>1, <4>1, <2>1, <2>2, <2>4 DEF In
      <4>2. CASE x # i
        <5>1. PICK q \in 1..n : R[q][1] <= x /\ x < R[q][2]
          BY <3>2, <4>2, <1>2 DEF In
        <5>2. T[q][1] <= x /\ x < T[q][2]
          <6>1. CASE q # n
            BY <6>1, <5>1, <2>4
          <6>2. CASE q = n
            BY <6>2, <5>1, <2>4, <1>4
          <6> QED BY <6>1, <6>2
        <5> QED BY <5>2, <2>2 DEF In
      <4> QED BY <4>1, <4>2
    <3> QED BY <3>1, <3>2
  <2> HIDE DEF U
  <2>8. T \in Sets /\ Indexes(T) = U
    BY <2>2, <2>5, <2>6, <2>7, <1>2, SetOf
  <2> QED BY <2>3, <2>8 DEF U
<1>5. CASE ~ (n > 0 /\ R[n][2] = i)
  <2> DEFINE T == Append(R, <<i, i + 1>>)
  <2>1. <<i, i + 1>> \in Range2
    BY DEF Range2
  <2>2. /\ T \in Seq(Range2) /\ Len(T) = n + 1 /\ T[n + 1] = <<i, i + 1>>
        /\ \A q \in 1..n : T[q] = R[q]
    BY <1>1, <2>1
  <2>3. PushBack(R, i) = T
    BY <1>1, <1>5 DEF PushBack, Last
  <2> HIDE DEF T
  <2>4. T[n + 1][1] = i /\ T[n + 1][2] = i + 1 /\ n + 1 \in 1..Len(T)
    BY <1>1, <2>2
  <2>5. ASSUME NEW q \in 1..Len(T) PROVE T[q][1] < T[q][2]
    <3>1. q \in 1..n \/ q = n + 1
      BY <1>1, <2>2
    <3> QED BY <3>1, <1>1, <2>2, <2>4
  <2>6. ASSUME NEW q \in 2..Len(T) PROVE T[q - 1][2] < T[q][1]
    <3>1. q \in 2..n \/ q = n + 1
      BY <1>1, <2>2
    <3>2. CASE q \in 2..n
      BY <3>2, <1>1, <2>2
    <3>3. CASE q = n + 1
      <4>1. n \in 1..n /\ q - 1 = n /\ R[n][2] # i
        BY <3>3, <1>1, <1>5
      <4>2. R[n][2] <= i /\ R[n][2] \in Nat /\ T[n] = R[n]
        BY <4>1, <1>1, <1>3, <2>2
      <4> QED BY <4>1, <4>2, <2>4, <3>3
    <3> QED BY <3>1, <3>2, <3>3
  <2>7. ASSUME NEW x \in Nat PROVE In(T, x) <=> x \in U
    <3>1. ASSUME In(T, x) PROVE x \in U
      <4>1. PICK q \in 1..Len(T) : T[q][1] <= x /\ x < T[q][2]
        BY <3>1 DEF In
      <4>2. CASE q \in 1..n
        BY <4>1, <4>2, <2>2, <1>2 DEF In
      <4>3. CASE q = n + 1
        BY <4>1, <4>3, <2>4
      <4>4. q \in 1..n \/ q = n + 1
        BY <1>1, <2>2
      <4> QED BY <4>2, <4>3, <4>4
    <3>2. ASSUME x \in U PROVE In(T, x)
      <4>1. CASE x = i
        BY <4>1, <2>4 DEF In
      <4>2. CASE x # i
        <5>1. PICK q \in 1..n : R[q][1] <= x /\ x < R[q][2]
          BY <3>2, <4>2, <1>2 DEF In
        <5>2. q \in 1..Len(T) /\ T[q] = R[q]
          BY <1>1, <2>2
        <5> QED BY <5>1, <5>2 DEF In
      <4> QED BY <4>1, <4>2
    <3> QED BY <3>1, <3>2
  <2> HIDE DEF U
  <2>8. T \in Sets /\ Indexes(T) = U
    BY <2>2, <2>5, <2>6, <2>7, <1>2, SetOf
  <2> QED BY <2>3, <2>8 DEF U
<1> QED BY <1>4, <1>5

PushOp(c, R, i) == PushBack(R, i)
PushFold == INSTANCE FoldTheorems WITH op <- PushOp

\* A builder that is handed indexes in order, all after what it holds
LEMMA PushedFacts ==
    ASSUME NEW R \in Sets, NEW s \in Increasing,
           \A x \in Indexes(R) : \A k \in 1..Len(s) : x < s[k]
    PROVE  /\ FoldLeft(PushBack, R, s) \in Sets
           /\ Indexes(FoldLeft(PushBack, R, s)) = Indexes(R) \cup Entries(s)
<1> DEFINE n == Len(s)
           Inv == [k \in 0..n |-> {T \in Sets : Indexes(T) = Indexes(R) \cup {s[h] : h \in 1..k}}]
           fold == FoldLeft(PushBack, R, s)
<1>0. /\ n \in Nat /\ DOMAIN s = 1..n /\ \A k \in 1..n : s[k] \in Nat
      /\ \A h, k \in 1..n : h < k => s[h] < s[k]
  BY DEF Increasing
<1>1. R \in Inv[0]
  BY <1>0
<1>2. ASSUME NEW k \in 1..n, NEW T \in Inv[k - 1] PROVE PushOp(0, T, s[k]) \in Inv[k]
  <2>1. k \in 0..n /\ k - 1 \in 0..n /\ 1..k = (1..(k - 1)) \cup {k} /\ s[k] \in Nat
    BY <1>0
  <2>2. T \in Sets /\ Indexes(T) = Indexes(R) \cup {s[h] : h \in 1..(k - 1)}
    BY <2>1
  <2>3. ASSUME NEW x \in Indexes(T) PROVE x < s[k]
    <3>1. CASE x \in Indexes(R)
      BY <3>1, <1>0
    <3>2. CASE x \notin Indexes(R)
      <4>1. PICK h \in 1..(k - 1) : x = s[h]
        BY <2>2, <3>2
      <4>2. h \in 1..n /\ h < k
        BY <1>0
      <4> QED BY <4>1, <4>2, <1>0
    <3> QED BY <3>1, <3>2
  <2>4. PushBack(T, s[k]) \in Sets /\ Indexes(PushBack(T, s[k])) = Indexes(T) \cup {s[k]}
    BY <2>1, <2>2, <2>3, PushBackFacts
  <2>5. {s[h] : h \in 1..k} = {s[h] : h \in 1..(k - 1)} \cup {s[k]}
    BY <2>1
  <2> QED BY <2>1, <2>2, <2>4, <2>5 DEF PushOp
<1> HIDE DEF Inv
<1>3. PushFold!Fold(0, R, s) \in Inv[n]
  BY <1>0, <1>1, <1>2, PushFold!FoldInvariant
<1>4. PushFold!Fold(0, R, s) = fold
  BY DEF PushOp, PushFold!Fold, FoldLeft, MapThenFoldSet, Max, PushFold!Greatest
<1>5. fold \in Inv[n]
  BY <1>3, <1>4
<1> QED BY <1>0, <1>5 DEF Inv, Entries

LEMMA EmptySet == <<>> \in Sets /\ Indexes(<<>>) = {}
<1> DEFINE E == <<>>
<1>1. E \in Seq(Range2) /\ Len(E) = 0
  OBVIOUS
<1> HIDE DEF E
<1>2. E \in Sets
  BY <1>1 DEF Sets, WellFormed
<1>3. 1..Len(E) = {}
  BY <1>1
<1>4. Indexes(E) = UNION {E[p][1]..(E[p][2] - 1) : p \in {}}
  BY <1>3 DEF Indexes
<1> QED BY <1>2, <1>4 DEF E

LEMMA BuiltFacts ==
    ASSUME NEW s \in Increasing
    PROVE  Built(s) \in Sets /\ Indexes(Built(s)) = Entries(s)
<1> DEFINE E == <<>>
<1>1. E \in Sets /\ Indexes(E) = {}
  BY EmptySet
<1> HIDE DEF E
<1>2. FoldLeft(PushBack, E, s) \in Sets /\ Indexes(FoldLeft(PushBack, E, s)) = Indexes(E) \cup Entries(s)
  BY <1>1, PushedFacts
<1> QED BY <1>1, <1>2 DEF E, Built

\* A set of ranges of any finite set of indexes
LEMMA BuiltOf ==
    ASSUME NEW S \in SUBSET Nat, IsFiniteSet(S)
    PROVE  Built(InOrder(S)) \in Sets /\ Indexes(Built(InOrder(S))) = S
BY InOrderFacts, BuiltFacts

\* The indexes of a set in order
LEMMA AsIndexesFacts ==
    ASSUME NEW R \in Sets
    PROVE  /\ AsIndexes(R) \in Increasing /\ Entries(AsIndexes(R)) = Indexes(R)
           /\ Len(AsIndexes(R)) = Cardinality(Indexes(R))
BY IndexesFinite, InOrderFacts DEF AsIndexes

-----------------------------------------------------------------------------
(* Adding and removing a set                                               *)

\* add of a set
THEOREM AddAllAdds ==
    ASSUME NEW R \in Sets, NEW P \in Sets
    PROVE  AddAll(R, P) \in Sets /\ Indexes(AddAll(R, P)) = Indexes(R) \cup Indexes(P)
<1> DEFINE s == AsIndexes(P)
           n == Len(s)
<1>1. s \in Increasing /\ Entries(s) = Indexes(P)
  BY AsIndexesFacts
<1>2. n \in Nat /\ DOMAIN s = 1..n /\ \A k \in 1..n : s[k] \in Nat
  BY <1>1 DEF Increasing
<1> HIDE DEF s
<1>3. FoldLeft(Add, R, s) \in Sets /\ Indexes(FoldLeft(Add, R, s)) = Indexes(R) \cup Entries(s)
  BY <1>2, AddsFacts DEF Entries
<1> QED BY <1>1, <1>3 DEF AddAll, s

RemoveSetOp(c, T, r) == RemoveRange(T, r[1], r[2])
RemoveSetFold == INSTANCE FoldTheorems WITH op <- RemoveSetOp

\* remove of a set
THEOREM RemoveSetRemoves ==
    ASSUME NEW R \in Sets, NEW P \in Sets
    PROVE  RemoveSet(R, P) \in Sets /\ Indexes(RemoveSet(R, P)) = Indexes(R) \ Indexes(P)
<1> DEFINE n == Len(P)
           Gone(j, k) == \E q \in 1..k : P[q][1] <= j /\ j < P[q][2]
           Inv == [k \in 0..n |-> {T \in Sets : Indexes(T) = {j \in Indexes(R) : ~ Gone(j, k)}}]
           fold == FoldLeft(LAMBDA T, r : RemoveRange(T, r[1], r[2]), R, P)
<1>0. /\ P \in Seq(Range2) /\ n \in Nat /\ DOMAIN P = 1..n
      /\ \A q \in 1..n : P[q][1] \in Nat /\ P[q][2] \in Nat /\ P[q][1] < P[q][2]
  BY SetFacts
<1>1. R \in Inv[0]
  BY <1>0
<1>2. ASSUME NEW k \in 1..n, NEW T \in Inv[k - 1] PROVE RemoveSetOp(0, T, P[k]) \in Inv[k]
  <2> DEFINE from == P[k][1]
             to == P[k][2]
             V == RemoveRange(T, from, to)
  <2>1. k \in 0..n /\ k - 1 \in 0..n /\ 1..k = (1..(k - 1)) \cup {k} /\ from \in Nat /\ to \in Nat /\ from < to
    BY <1>0
  <2>2. T \in Sets /\ Indexes(T) = {j \in Indexes(R) : ~ Gone(j, k - 1)}
    BY <2>1
  <2>3. \A j : Gone(j, k) <=> Gone(j, k - 1) \/ (from <= j /\ j < to)
    BY <2>1
  <2>g. V = RemoveSetOp(0, T, P[k])
    BY DEF RemoveSetOp
  <2> HIDE DEF from, to
  <2>4. RemoveRange(T, from, to) \in Sets
        /\ Indexes(RemoveRange(T, from, to)) = {j \in Indexes(T) : j < from \/ to <= j}
    BY <2>1, <2>2, RemoveRangeRemoves
  <2> HIDE DEF V, Gone
  <2>5. Indexes(R) \in SUBSET Nat
    BY IndexesFinite
  <2>6. {j \in Indexes(T) : j < from \/ to <= j} = {j \in Indexes(R) : ~ Gone(j, k)}
    BY <2>1, <2>2, <2>3, <2>5
  <2>7. V \in Sets /\ Indexes(V) = {j \in Indexes(R) : ~ Gone(j, k)}
    BY <2>4, <2>6 DEF V
  <2> QED BY <2>1, <2>7, <2>g
<1> HIDE DEF Inv
<1>3. RemoveSetFold!Fold(0, R, P) \in Inv[n]
  BY <1>0, <1>1, <1>2, RemoveSetFold!FoldInvariant
<1>4. RemoveSetFold!Fold(0, R, P) = fold
  BY DEF RemoveSetOp, RemoveSetFold!Fold, FoldLeft, MapThenFoldSet, Max, RemoveSetFold!Greatest
<1>5. fold \in Inv[n] /\ fold = RemoveSet(R, P)
  BY <1>3, <1>4 DEF RemoveSet
<1> HIDE DEF fold
<1>6. fold \in Sets /\ Indexes(fold) = {j \in Indexes(R) : ~ Gone(j, n)}
  BY <1>0, <1>5 DEF Inv
<1>7. \A j \in Nat : Gone(j, n) <=> j \in Indexes(P)
  BY <1>0, InIndexes
<1>8. Indexes(R) \in SUBSET Nat
  BY IndexesFinite
<1> QED BY <1>5, <1>6, <1>7, <1>8

-----------------------------------------------------------------------------
(* Increasing sequences                                                    *)

LEMMA IncreasingFacts ==
    ASSUME NEW s \in Increasing
    PROVE  /\ s \in Seq(Nat) /\ Len(s) \in Nat /\ DOMAIN s = 1..Len(s) /\ \A k \in 1..Len(s) : s[k] \in Nat
           /\ \A h, k \in 1..Len(s) : h < k => s[h] < s[k]
           /\ Entries(s) \in SUBSET Nat
BY SMTT(40) DEF Increasing, Entries

LEMMA NoneIncreasing == <<>> \in Increasing /\ Entries(<<>>) = {}
<1> DEFINE E == <<>>
<1>1. E \in Seq(Nat) /\ 1..Len(E) = {}
  OBVIOUS
<1> HIDE DEF E
<1>2. E \in Increasing
  BY <1>1 DEF Increasing
<1>3. Entries(E) = {}
  BY <1>1 DEF Entries
<1> QED BY <1>2, <1>3 DEF E

LEMMA ConcatIncreasing ==
    ASSUME NEW s \in Increasing, NEW t \in Increasing, \A x \in Entries(s) : \A y \in Entries(t) : x < y
    PROVE  s \o t \in Increasing /\ Entries(s \o t) = Entries(s) \cup Entries(t)
<1> DEFINE a == Len(s)
           b == Len(t)
           u == s \o t
<1>1. /\ s \in Seq(Nat) /\ a \in Nat /\ \A k \in 1..a : s[k] \in Nat
      /\ t \in Seq(Nat) /\ b \in Nat /\ \A k \in 1..b : t[k] \in Nat
  BY IncreasingFacts
<1>2. \A h, k \in 1..a : h < k => s[h] < s[k]
  BY IncreasingFacts
<1>3. \A h, k \in 1..b : h < k => t[h] < t[k]
  BY IncreasingFacts
<1>4. \A h \in 1..a : \A k \in 1..b : s[h] < t[k]
  BY DEF Entries
<1>5. u \in Seq(Nat) /\ Len(u) = a + b
  BY <1>1
<1>6. \A k \in 1..a : u[k] = s[k]
  BY <1>1
<1>7. ASSUME NEW k \in 1..(a + b), a < k PROVE k - a \in 1..b /\ u[k] = t[k - a]
  BY <1>1, <1>7
<1>8. \A k \in 1..b : a + k \in 1..(a + b) /\ u[a + k] = t[k]
  BY <1>1
<1> HIDE DEF u, a, b
<1>9. ASSUME NEW h \in 1..(a + b), NEW k \in 1..(a + b), h < k PROVE u[h] < u[k]
  <2>1. CASE k <= a
    <3>1. h \in 1..a /\ k \in 1..a
      BY <1>1, <1>9, <2>1
    <3> QED BY <3>1, <1>2, <1>6, <1>9
  <2>2. CASE h <= a /\ a < k
    <3>1. h \in 1..a
      BY <1>1, <2>2
    <3> QED BY <3>1, <1>4, <1>6, <1>7, <2>2
  <2>3. CASE a < h
    <3>1. a < k /\ h - a < k - a
      BY <1>1, <1>9, <2>3
    <3>2. h - a \in 1..b /\ u[h] = t[h - a] /\ k - a \in 1..b /\ u[k] = t[k - a]
      BY <1>7, <2>3, <3>1
    <3> QED BY <3>1, <3>2, <1>3
  <2> QED BY <1>1, <2>1, <2>2, <2>3
<1>10. u \in Increasing
  BY <1>5, <1>9 DEF Increasing
<1>11. Entries(u) = Entries(s) \cup Entries(t)
  <2>1. ASSUME NEW x \in Entries(u) PROVE x \in Entries(s) \cup Entries(t)
    <3>1. PICK k \in 1..(a + b) : x = u[k]
      BY <1>5 DEF Entries
    <3>2. CASE k <= a
      <4>1. k \in 1..a
        BY <1>1, <3>2
      <4> QED BY <4>1, <3>1, <1>6 DEF Entries, a
    <3>3. CASE a < k
      BY <3>1, <3>3, <1>7 DEF Entries, b
    <3> QED BY <1>1, <3>2, <3>3
  <2>2. ASSUME NEW x \in Entries(s) PROVE x \in Entries(u)
    <3>1. PICK k \in 1..a : x = s[k]
      BY DEF Entries, a
    <3>2. k \in 1..(a + b)
      BY <1>1
    <3> QED BY <3>1, <3>2, <1>5, <1>6 DEF Entries
  <2>3. ASSUME NEW x \in Entries(t) PROVE x \in Entries(u)
    <3>1. PICK k \in 1..b : x = t[k]
      BY DEF Entries, b
    <3> QED BY <3>1, <1>5, <1>8 DEF Entries
  <2> QED BY <2>1, <2>2, <2>3
<1> QED BY <1>10, <1>11 DEF u

LEMMA OneIncreasing ==
    ASSUME NEW e \in Nat
    PROVE  <<e>> \in Increasing /\ Entries(<<e>>) = {e}
<1> DEFINE s == <<e>>
<1>1. s \in Seq(Nat) /\ Len(s) = 1 /\ s[1] = e
  OBVIOUS
<1> HIDE DEF s
<1>2. s \in Increasing
  <2>1. \A h, k \in 1..Len(s) : ~ (h < k)
    BY <1>1
  <2> QED BY <1>1, <2>1 DEF Increasing
<1>3. Entries(s) = {e}
  BY <1>1 DEF Entries
<1> QED BY <1>2, <1>3 DEF s

LEMMA AppendIncreasing ==
    ASSUME NEW s \in Increasing, NEW e \in Nat, \A x \in Entries(s) : x < e
    PROVE  Append(s, e) \in Increasing /\ Entries(Append(s, e)) = Entries(s) \cup {e}
<1> DEFINE t == <<e>>
<1>1. t \in Increasing /\ Entries(t) = {e}
  BY OneIncreasing
<1>2. Append(s, e) = s \o t
  BY IncreasingFacts
<1> HIDE DEF t
<1>3. s \o t \in Increasing /\ Entries(s \o t) = Entries(s) \cup Entries(t)
  BY <1>1, ConcatIncreasing
<1> QED BY <1>1, <1>2, <1>3

LEMMA PartIncreasing ==
    ASSUME NEW s \in Increasing, NEW lo \in Nat, NEW hi \in Nat, lo <= hi, hi <= Len(s)
    PROVE  /\ SubSeq(s, lo + 1, hi) \in Increasing
           /\ Entries(SubSeq(s, lo + 1, hi)) = {s[h] : h \in (lo + 1)..hi}
<1> DEFINE u == SubSeq(s, lo + 1, hi)
           n == hi - lo
<1>1. /\ s \in Seq(Nat) /\ Len(s) \in Nat /\ n \in Nat /\ \A k \in 1..Len(s) : s[k] \in Nat
      /\ \A h, k \in 1..Len(s) : h < k => s[h] < s[k]
  BY IncreasingFacts
<1>2. u \in Seq(Nat) /\ Len(u) = n /\ \A k \in 1..n : u[k] = s[lo + k]
  BY <1>1
<1> HIDE DEF u
<1>3. \A k \in 1..n : lo + k \in 1..Len(s) /\ lo + k \in (lo + 1)..hi
  BY <1>1
<1>4. ASSUME NEW h \in 1..n, NEW k \in 1..n, h < k PROVE u[h] < u[k]
  BY <1>1, <1>2, <1>3, <1>4
<1>5. ASSUME NEW h \in (lo + 1)..hi PROVE h - lo \in 1..n /\ u[h - lo] = s[h]
  BY <1>1, <1>2
<1>6. Entries(u) = {s[h] : h \in (lo + 1)..hi}
  <2>1. ASSUME NEW x \in Entries(u) PROVE x \in {s[h] : h \in (lo + 1)..hi}
    <3>1. PICK k \in 1..n : x = u[k]
      BY <1>2 DEF Entries
    <3> QED BY <3>1, <1>2, <1>3
  <2>2. ASSUME NEW x \in {s[h] : h \in (lo + 1)..hi} PROVE x \in Entries(u)
    <3>1. PICK h \in (lo + 1)..hi : x = s[h]
      OBVIOUS
    <3>2. h - lo \in 1..Len(u) /\ u[h - lo] = x
      BY <3>1, <1>2, <1>5
    <3> QED BY <3>2 DEF Entries
  <2> QED BY <2>1, <2>2
<1> QED BY <1>2, <1>4, <1>6 DEF u, Increasing

\* How many entries of a sequence come before x
LEMMA EntriesBelow ==
    ASSUME NEW b \in Increasing, NEW n \in 0..Len(b), NEW x \in Nat,
           n > 0 => b[n] < x, n < Len(b) => x <= b[n + 1]
    PROVE  /\ Below(Entries(b), x) = {b[h] : h \in 1..n} /\ Cardinality(Below(Entries(b), x)) = n
           /\ x \in Entries(b) <=> n < Len(b) /\ x = b[n + 1]
<1> DEFINE m == Len(b)
           S == {b[h] : h \in 1..n}
<1>1. /\ b \in Seq(Nat) /\ m \in Nat /\ \A k \in 1..m : b[k] \in Nat
      /\ \A h, k \in 1..m : h < k => b[h] < b[k]
  BY IncreasingFacts
<1>2. n \in Nat /\ n <= m
  BY <1>1
<1>3. ASSUME NEW h \in 1..m, h <= n PROVE b[h] < x
  <2>1. n \in 1..m /\ b[n] < x /\ b[n] \in Nat /\ b[h] \in Nat
    BY <1>1, <1>2, <1>3
  <2>2. h = n \/ b[h] < b[n]
    BY <1>1, <1>2, <1>3, <2>1
  <2> QED BY <2>1, <2>2
<1>4. ASSUME NEW h \in 1..m, n < h PROVE x <= b[h] /\ (h # n + 1 => x < b[h])
  <2>1. n + 1 \in 1..m /\ x <= b[n + 1] /\ b[n + 1] \in Nat /\ b[h] \in Nat
    BY <1>1, <1>2, <1>4
  <2>2. h = n + 1 \/ b[n + 1] < b[h]
    BY <1>1, <1>2, <1>4, <2>1
  <2> QED BY <2>1, <2>2
<1>5. Below(Entries(b), x) = S
  <2>1. ASSUME NEW y \in Below(Entries(b), x) PROVE y \in S
    <3>1. PICK h \in 1..m : y = b[h] /\ y < x
      BY DEF Below, Entries
    <3>2. ~ (n < h)
      BY <3>1, <1>1, <1>4
    <3>3. h \in 1..n
      BY <3>2, <1>2
    <3> QED BY <3>1, <3>3
  <2>2. ASSUME NEW y \in S PROVE y \in Below(Entries(b), x)
    <3>1. PICK h \in 1..n : y = b[h]
      OBVIOUS
    <3>2. h \in 1..m /\ h <= n
      BY <1>2
    <3> QED BY <3>1, <3>2, <1>3 DEF Below, Entries
  <2> QED BY <2>1, <2>2
<1>6. Cardinality(S) = n
  <2> DEFINE f == [h \in 1..n |-> b[h]]
  <2>1. f \in [1..n -> S] /\ \A t \in S : \E h \in 1..n : f[h] = t
    OBVIOUS
  <2>2. ASSUME NEW h \in 1..n, NEW k \in 1..n, f[h] = f[k] PROVE h = k
    <3>1. h \in 1..m /\ k \in 1..m /\ b[h] = b[k]
      BY <1>2, <2>2
    <3>2. ~ (h < k) /\ ~ (k < h)
      BY <3>1, <1>1
    <3> QED BY <3>2
  <2>3. f \in Bijection(1..n, S)
    BY <2>1, <2>2 DEF Bijection, Injection, Surjection, IsInjective
  <2>4. ExistsBijection(1..n, S)
    BY <2>3 DEF ExistsBijection
  <2> QED BY <1>2, <2>4, FS_CountingElements
<1>7. x \in Entries(b) <=> n < m /\ x = b[n + 1]
  <2>1. ASSUME x \in Entries(b) PROVE n < m /\ x = b[n + 1]
    <3>1. PICK h \in 1..m : x = b[h]
      BY <2>1 DEF Entries
    <3>2. ~ (h <= n)
      BY <3>1, <1>3
    <3>3. h = n + 1
      BY <3>1, <3>2, <1>1, <1>2, <1>4
    <3> QED BY <3>1, <3>3, <1>1, <1>2
  <2>2. ASSUME n < m, x = b[n + 1] PROVE x \in Entries(b)
    <3>1. n + 1 \in 1..m
      BY <1>1, <1>2, <2>2
    <3> QED BY <3>1, <2>2 DEF Entries
  <2> QED BY <2>1, <2>2
<1> QED BY <1>5, <1>6, <1>7

\* The least member of a set of natural numbers
LEMMA MinOf ==
    ASSUME NEW T \in SUBSET Nat, T # {}
    PROVE  Min(T) \in T /\ \A k \in T : Min(T) <= k
<1>1. PICK m \in T : \A k \in T : m <= k
  BY LeastNatural
<1>2. T \in SUBSET Int
  OBVIOUS
<1>3. Min(T) = m
  BY <1>1, <1>2, MinIs
<1> QED BY <1>1, <1>3

\* What is said of an index by those before it that are not in S grows.
LEMMA UnshiftGrows ==
    ASSUME NEW S \in SUBSET Nat, NEW i \in Nat, NEW j \in Nat, i < j, i \notin S
    PROVE  i - Cardinality(Below(S, i)) < j - Cardinality(Below(S, j))
<1> DEFINE A == {k \in 0..(i - 1) : k \notin S}
           B == {k \in 0..(j - 1) : k \notin S}
<1>1. IsFiniteSet(A) /\ Cardinality(A) = i - Cardinality(Below(S, i))
  BY OutsideCounts
<1>2. IsFiniteSet(B) /\ Cardinality(B) = j - Cardinality(Below(S, j))
  BY OutsideCounts
<1>3. A \cup {i} \in SUBSET B /\ i \notin A
  OBVIOUS
<1> HIDE DEF A, B
<1>4. Cardinality(A \cup {i}) = Cardinality(A) + 1
  BY <1>1, <1>3, FS_AddElement
<1>5. Cardinality(A \cup {i}) <= Cardinality(B) /\ Cardinality(A) \in Nat /\ Cardinality(B) \in Nat
  BY <1>1, <1>2, <1>3, FS_Subset, FS_CardinalityType
<1>6. Cardinality(A) < Cardinality(B)
  BY <1>4, <1>5
<1> QED BY <1>1, <1>2, <1>6

LEMMA EntriesFinite ==
    ASSUME NEW s \in Increasing
    PROVE  IsFiniteSet(Entries(s))
<1> DEFINE n == Len(s)
           f == [k \in 1..n |-> s[k]]
<1>1. n \in Nat
  BY IncreasingFacts
<1>2. f \in Surjection(1..n, Entries(s))
  BY DEF Surjection, Entries
<1>3. IsFiniteSet(1..n)
  BY <1>1, CardinalityOfFirst
<1> HIDE DEF f, n
<1> QED BY <1>2, <1>3, FS_Surjection

-----------------------------------------------------------------------------
(* Inserting a set                                                         *)

\* An index before the first k of a sequence are passed
Passed(a, k) == IF k = 0 THEN -1 ELSE a[k]

\* The loop of insert_at and shift_for_insert_at after k of the existing indexes: it has
\* passed the positions before the place of the k-th, and handed on what lies before it.
Merging(a, b, keep, k) ==
    {x \in [n : 0..Len(b), out : Increasing] :
        /\ x.n > 0 => b[x.n] < Passed(a, k) + x.n
        /\ x.n < Len(b) => Passed(a, k) + x.n < b[x.n + 1]
        /\ \A y \in Entries(x.out) : y <= Passed(a, k) + x.n
        /\ Entries(x.out) = {ShiftedBy(Entries(b), a[h]) : h \in 1..k}
                            \cup (IF keep THEN {b[h] : h \in 1..x.n} ELSE {})}

LEMMA MergeTurn ==
    ASSUME NEW a \in Increasing, NEW b \in Increasing, NEW keep \in BOOLEAN, NEW k \in 1..Len(a),
           NEW x \in Merging(a, b, keep, k - 1)
    PROVE  MergeStep(b, keep, x, a[k]) \in Merging(a, b, keep, k)
<1> DEFINE m == Len(b)
           e == a[k]
           c == Passed(a, k - 1)
           T == {h \in x.n..m : h = m \/ e + h < b[h + 1]}
           n == Min(T)
           S == Entries(b)
<1>1. /\ m \in Nat /\ \A h \in 1..m : b[h] \in Nat
      /\ \A h, g \in 1..m : h < g => b[h] < b[g]
      /\ S \in SUBSET Nat /\ IsFiniteSet(S)
  BY IncreasingFacts, EntriesFinite
<1>2. e \in Nat /\ c \in Int /\ c < e
  <2>1. /\ Len(a) \in Nat /\ k \in 1..Len(a) /\ \A h \in 1..Len(a) : a[h] \in Nat
        /\ \A h, g \in 1..Len(a) : h < g => a[h] < a[g]
    BY IncreasingFacts
  <2>2. CASE k = 1
    BY <2>1, <2>2 DEF Passed
  <2>3. CASE k # 1
    <3>1. k - 1 \in 1..Len(a) /\ k - 1 < k /\ k - 1 # 0
      BY <2>1, <2>3
    <3> QED BY <3>1, <2>1 DEF Passed
  <2> QED BY <2>2, <2>3
<1> DEFINE n0 == x.n
           out == x.out
<1>3. /\ n0 \in 0..m /\ out \in Increasing
      /\ n0 > 0 => b[n0] < c + n0
      /\ n0 < m => c + n0 < b[n0 + 1]
      /\ \A y \in Entries(out) : y <= c + n0
      /\ Entries(out) = {ShiftedBy(S, a[h]) : h \in 1..(k - 1)} \cup (IF keep THEN {b[h] : h \in 1..n0} ELSE {})
  BY DEF Merging
<1>4. n \in n0..m /\ (n = m \/ e + n < b[n + 1]) /\ \A h \in n0..m : h < n => b[h + 1] <= e + h
  <2>1. T \in SUBSET Nat /\ m \in T
    BY <1>1, <1>3
  <2>2. n \in T /\ \A h \in T : n <= h
    BY <2>1, MinOf
  <2>3. n \in Nat
    BY <2>1, <2>2
  <2>4. ASSUME NEW h \in n0..m, h < n PROVE b[h + 1] <= e + h
    <3>1. h \notin T /\ h \in Nat
      BY <2>2, <2>3, <2>4, <1>3
    <3>2. h + 1 \in 1..m
      BY <2>2, <2>3, <2>4, <3>1, <1>1
    <3>3. b[h + 1] \in Nat /\ ~ (e + h < b[h + 1])
      BY <3>1, <3>2, <1>1
    <3> QED BY <3>1, <3>3, <1>2
  <2> HIDE DEF n
  <2> QED BY <2>2, <2>4
<1> DEFINE mid == IF keep THEN SubSeq(b, n0 + 1, n) ELSE <<>>
           y == MergeStep(b, keep, x, a[k])
<1>5. y = [n |-> n, out |-> Append(out \o mid, e + n)]
  BY DEF MergeStep
<1> HIDE DEF n, T, m, y, c, n0, out
<1>6. n \in Nat /\ n0 \in Nat /\ n0 <= n /\ n <= m /\ e + n \in Nat
  BY <1>1, <1>2, <1>3, <1>4
<1>7. n > 0 => b[n] < e + n
  <2>1. CASE n = n0
    BY <2>1, <1>1, <1>2, <1>3, <1>6
  <2>2. CASE n # n0
    <3>1. n0 < n /\ m \in Nat
      BY <2>2, <1>1, <1>6
    <3>2. n - 1 \in n0..m /\ n - 1 < n /\ n - 1 + 1 = n /\ n \in 1..m
      BY <3>1, <1>6
    <3>3. b[n] <= e + (n - 1) /\ b[n] \in Nat
      BY <3>2, <1>1, <1>4
    <3> QED BY <3>3, <1>2, <1>6
  <2> QED BY <2>1, <2>2
<1>8. n < m => e + n < b[n + 1]
  BY <1>4
<1>9. ShiftedBy(S, e) = e + n
  <2> DEFINE j == e + n
  <2>1. n \in 0..Len(b) /\ j \in Nat /\ (n > 0 => b[n] < j) /\ (n < Len(b) => j <= b[n + 1] /\ j # b[n + 1])
    <3>1. n < m => b[n + 1] \in Nat
      BY <1>1, <1>6
    <3> QED BY <3>1, <1>6, <1>7, <1>8 DEF m
  <2> HIDE DEF j, S
  <2>2. Cardinality(Below(Entries(b), j)) = n /\ ~ (j \in Entries(b))
    BY <2>1, EntriesBelow
  <2>3. j \notin S /\ j = e + Cardinality(Below(S, j))
    BY <2>2 DEF S, j
  <2>4. ShiftedBy(S, e) = j
    BY <2>1, <2>3, <1>1, <1>2, ShiftedByIs
  <2> QED BY <2>4 DEF j
<1>10. /\ mid \in Increasing
       /\ Entries(mid) = IF keep THEN {b[h] : h \in (n0 + 1)..n} ELSE {}
  <2>1. CASE keep
    <3>1. SubSeq(b, n0 + 1, n) \in Increasing /\ Entries(SubSeq(b, n0 + 1, n)) = {b[h] : h \in (n0 + 1)..n}
      BY <1>6, PartIncreasing DEF m
    <3> QED BY <2>1, <3>1
  <2>2. CASE ~ keep
    BY <2>2, NoneIncreasing
  <2> QED BY <2>1, <2>2
<1> HIDE DEF mid
<1>11. ASSUME NEW z \in Entries(mid) PROVE c + n0 < z /\ z < e + n /\ z \in Nat
  <2>1. PICK h \in (n0 + 1)..n : z = b[h]
    BY <1>10
  <2>2. h \in 1..m /\ n0 + 1 \in 1..m /\ n \in 1..m
    BY <1>1, <1>6
  <2>3. b[n0 + 1] <= b[h] /\ b[h] <= b[n]
    <3>1. h = n0 + 1 \/ n0 + 1 < h
      BY <1>6
    <3>2. h = n \/ h < n
      BY <1>6
    <3> QED BY <3>1, <3>2, <2>2, <1>1
  <2>4. b[n0 + 1] \in Nat /\ b[h] \in Nat /\ b[n] \in Nat /\ n0 < m /\ n > 0
    BY <2>2, <1>1, <1>6
  <2> QED BY <2>1, <2>3, <2>4, <1>2, <1>3, <1>6, <1>7, SMTT(40)
<1>12. \A z \in Entries(out) : z \in Nat /\ z <= c + n0
  BY <1>3, IncreasingFacts
<1>13. out \o mid \in Increasing /\ Entries(out \o mid) = Entries(out) \cup Entries(mid)
  <2>1. ASSUME NEW z \in Entries(out), NEW w \in Entries(mid) PROVE z < w
    BY <1>2, <1>6, <1>11, <1>12
  <2> QED BY <2>1, <1>3, <1>10, ConcatIncreasing
<1> DEFINE s == out \o mid
           d == e + n
<1>14. \A z \in Entries(s) : z < d
  <2>1. ASSUME NEW z \in Entries(s) PROVE z < d
    <3>1. CASE z \in Entries(out)
      BY <3>1, <1>2, <1>6, <1>12
    <3>2. CASE z \in Entries(mid)
      BY <3>2, <1>11
    <3> QED BY <3>1, <3>2, <1>13
  <2> QED BY <2>1
<1>15. Append(s, d) \in Increasing /\ Entries(Append(s, d)) = Entries(s) \cup {d}
  <2>1. s \in Increasing /\ d \in Nat
    BY <1>13, <1>6
  <2> HIDE DEF s, d
  <2> QED BY <2>1, <1>14, AppendIncreasing
<1>16. y.n = n /\ y.out = Append(s, d) /\ y \in [n : 0..m, out : Increasing]
  BY <1>5, <1>6, <1>15
<1>17. Passed(a, k) = e
  <2>1. k # 0
    OBVIOUS
  <2> QED BY <2>1 DEF Passed
<1>18. \A z \in Entries(y.out) : z <= e + n
  <2>1. ASSUME NEW z \in Entries(y.out) PROVE z <= d
    <3>1. z \in Entries(s) \/ z = d
      BY <1>15, <1>16
    <3>2. z \in Nat /\ d \in Nat
      BY <1>6, <1>15, <1>16, IncreasingFacts
    <3> QED BY <3>1, <3>2, <1>14
  <2> QED BY <2>1
<1>19. Entries(y.out) = {ShiftedBy(S, a[h]) : h \in 1..k} \cup (IF keep THEN {b[h] : h \in 1..n} ELSE {})
  <2>1. Entries(y.out) = Entries(out) \cup Entries(mid) \cup {d}
    BY <1>13, <1>15, <1>16
  <2>2. 1..k = (1..(k - 1)) \cup {k}
    <3>1. k \in Nat /\ k > 0
      BY IncreasingFacts
    <3> QED BY <3>1
  <2>3. {ShiftedBy(S, a[h]) : h \in 1..k} = {ShiftedBy(S, a[h]) : h \in 1..(k - 1)} \cup {d}
    BY <2>2, <1>9
  <2>4. 1..n = (1..n0) \cup ((n0 + 1)..n)
    BY <1>6
  <2>5. {b[h] : h \in 1..n} = {b[h] : h \in 1..n0} \cup {b[h] : h \in (n0 + 1)..n}
    BY <2>4
  <2> HIDE DEF d, S
  <2>6. CASE keep
    BY <2>1, <2>3, <2>5, <2>6, <1>3, <1>10
  <2>7. CASE ~ keep
    BY <2>1, <2>3, <2>7, <1>3, <1>10
  <2> QED BY <2>6, <2>7
<1>20. y \in Merging(a, b, keep, k)
  <2>1. y \in [n : 0..Len(b), out : Increasing]
    BY <1>16 DEF m
  <2>2. /\ y.n > 0 => b[y.n] < Passed(a, k) + y.n
        /\ y.n < Len(b) => Passed(a, k) + y.n < b[y.n + 1]
        /\ \A z \in Entries(y.out) : z <= Passed(a, k) + y.n
    BY <1>7, <1>8, <1>16, <1>17, <1>18 DEF m
  <2>3. Entries(y.out) = {ShiftedBy(Entries(b), a[h]) : h \in 1..k}
                         \cup (IF keep THEN {b[h] : h \in 1..y.n} ELSE {})
    BY <1>16, <1>19
  <2> QED BY <2>1, <2>2, <2>3 DEF Merging
<1> QED BY <1>20 DEF y

\* c: the positions, and whether they are handed on
MergeOp(c, x, e) == MergeStep(c[1], c[2], x, e)
MergeFold == INSTANCE FoldTheorems WITH op <- MergeOp

\* What the loop hands to the builder: the existing indexes, moved, and the positions.
LEMMA MergeShiftedFacts ==
    ASSUME NEW a \in Increasing, NEW b \in Increasing, NEW keep \in BOOLEAN
    PROVE  /\ MergeShifted(a, b, keep) \in Increasing
           /\ Entries(MergeShifted(a, b, keep)) = {ShiftedBy(Entries(b), i) : i \in Entries(a)}
                                                  \cup (IF keep THEN Entries(b) ELSE {})
<1> DEFINE n == Len(a)
           m == Len(b)
           c == <<b, keep>>
           base == [n |-> 0, out |-> <<>>]
           Inv == [k \in 0..n |-> Merging(a, b, keep, k)]
           x == FoldLeft(LAMBDA y, index : MergeStep(b, keep, y, index), base, a)
<1>0. /\ n \in Nat /\ DOMAIN a = 1..n /\ \A k \in 1..n : a[k] \in Nat
      /\ m \in Nat /\ \A k \in 1..m : b[k] \in Nat
      /\ \A h, k \in 1..m : h < k => b[h] < b[k]
  BY IncreasingFacts
<1>1. base \in Inv[0]
  <2> DEFINE E == <<>>
  <2>1. E \in Increasing /\ Entries(E) = {}
    BY NoneIncreasing
  <2> HIDE DEF E
  <2>2. base = [n |-> 0, out |-> E]
    BY DEF E
  <2> DEFINE y == [n |-> 0, out |-> E]
  <2>3. y \in [n : 0..Len(b), out : Increasing] /\ y.n = 0 /\ y.out = E
    BY <2>1, <1>0
  <2> HIDE DEF y
  <2>4. {ShiftedBy(Entries(b), a[h]) : h \in 1..0} = {} /\ {b[h] : h \in 1..0} = {}
    OBVIOUS
  <2>5. 0 < Len(b) => -1 < b[1]
    BY <1>0
  <2>6. Passed(a, 0) = -1
    BY DEF Passed
  <2>7. /\ y.n > 0 => b[y.n] < Passed(a, 0) + y.n
        /\ y.n < Len(b) => Passed(a, 0) + y.n < b[y.n + 1]
        /\ \A z \in Entries(y.out) : z <= Passed(a, 0) + y.n
    BY <2>1, <2>3, <2>5, <2>6
  <2>8. Entries(y.out) = {ShiftedBy(Entries(b), a[h]) : h \in 1..0}
                         \cup (IF keep THEN {b[h] : h \in 1..y.n} ELSE {})
    BY <2>1, <2>3, <2>4
  <2>9. y \in Merging(a, b, keep, 0)
    BY <2>3, <2>7, <2>8 DEF Merging
  <2> QED BY <2>2, <2>9, <1>0 DEF y
<1>2. ASSUME NEW k \in 1..n, NEW y \in Inv[k - 1] PROVE MergeOp(c, y, a[k]) \in Inv[k]
  <2>1. k \in 0..n /\ k - 1 \in 0..n
    BY <1>0
  <2>2. y \in Merging(a, b, keep, k - 1)
    BY <2>1
  <2>3. MergeStep(b, keep, y, a[k]) \in Merging(a, b, keep, k)
    BY <2>2, MergeTurn
  <2> QED BY <2>1, <2>3 DEF MergeOp
<1> HIDE DEF Inv, base
<1>3. MergeFold!Fold(c, base, a) \in Inv[n]
  BY <1>0, <1>1, <1>2, MergeFold!FoldInvariant
<1>4. MergeFold!Fold(c, base, a) = x
  BY DEF MergeOp, MergeFold!Fold, FoldLeft, MapThenFoldSet,
         Max, MergeFold!Greatest
<1>5. x \in Merging(a, b, keep, n)
  <2>1. n \in 0..n
    BY <1>0
  <2> HIDE DEF x
  <2> QED BY <2>1, <1>3, <1>4 DEF Inv
<1> DEFINE k0 == x.n
           out == x.out
           mid == IF keep THEN SubSeq(b, k0 + 1, m) ELSE <<>>
<1>6. MergeShifted(a, b, keep) = out \o mid
  BY DEF MergeShifted, base
<1> HIDE DEF x
<1>7. /\ k0 \in 0..m /\ out \in Increasing
      /\ k0 < m => Passed(a, n) + k0 < b[k0 + 1]
      /\ \A y \in Entries(out) : y <= Passed(a, n) + k0
      /\ Entries(out) = {ShiftedBy(Entries(b), a[h]) : h \in 1..n} \cup (IF keep THEN {b[h] : h \in 1..k0} ELSE {})
  BY <1>5 DEF Merging
<1> HIDE DEF k0, out
<1>8. /\ mid \in Increasing
      /\ Entries(mid) = IF keep THEN {b[h] : h \in (k0 + 1)..m} ELSE {}
  <2>1. CASE keep
    <3>1. k0 \in Nat /\ m \in Nat /\ k0 <= m /\ m <= Len(b)
      BY <1>0, <1>7
    <3> HIDE DEF m
    <3>2. SubSeq(b, k0 + 1, m) \in Increasing /\ Entries(SubSeq(b, k0 + 1, m)) = {b[h] : h \in (k0 + 1)..m}
      BY <3>1, PartIncreasing
    <3> QED BY <2>1, <3>2
  <2>2. CASE ~ keep
    BY <2>2, NoneIncreasing
  <2> QED BY <2>1, <2>2
<1> HIDE DEF mid
<1>9. ASSUME NEW y \in Entries(out), NEW z \in Entries(mid) PROVE y < z
  <2>1. PICK h \in (k0 + 1)..m : z = b[h]
    BY <1>8
  <2>2. h \in 1..m /\ k0 + 1 \in 1..m /\ k0 < m /\ (h = k0 + 1 \/ k0 + 1 < h)
    BY <1>0, <1>7
  <2>3. b[k0 + 1] <= z /\ b[k0 + 1] \in Nat /\ z \in Nat
    BY <2>1, <2>2, <1>0
  <2>4. Passed(a, n) \in Int /\ y <= Passed(a, n) + k0 /\ Passed(a, n) + k0 < b[k0 + 1] /\ y \in Nat
    <3>1. Passed(a, n) \in Int
      BY <1>0 DEF Passed
    <3> QED BY <3>1, <2>2, <1>7, IncreasingFacts
  <2> QED BY <2>3, <2>4, <1>7
<1>10. out \o mid \in Increasing /\ Entries(out \o mid) = Entries(out) \cup Entries(mid)
  BY <1>7, <1>8, <1>9, ConcatIncreasing
<1>11. {ShiftedBy(Entries(b), a[h]) : h \in 1..n} = {ShiftedBy(Entries(b), i) : i \in Entries(a)}
  BY DEF Entries
<1>12. {b[h] : h \in 1..k0} \cup {b[h] : h \in (k0 + 1)..m} = Entries(b)
  <2>1. 1..m = (1..k0) \cup ((k0 + 1)..m)
    BY <1>0, <1>7
  <2> QED BY <2>1 DEF Entries
<1>13. Entries(out \o mid) = {ShiftedBy(Entries(b), i) : i \in Entries(a)} \cup (IF keep THEN Entries(b) ELSE {})
  <2>1. CASE keep
    <3>1. Entries(out) = {ShiftedBy(Entries(b), a[h]) : h \in 1..n} \cup {b[h] : h \in 1..k0}
      BY <2>1, <1>7
    <3>2. Entries(mid) = {b[h] : h \in (k0 + 1)..m}
      BY <2>1, <1>8
    <3> QED BY <2>1, <3>1, <3>2, <1>10, <1>11, <1>12
  <2>2. CASE ~ keep
    <3>1. Entries(out) = {ShiftedBy(Entries(b), a[h]) : h \in 1..n}
      BY <2>2, <1>7
    <3>2. Entries(mid) = {}
      BY <2>2, <1>8
    <3> QED BY <2>2, <3>1, <3>2, <1>10, <1>11
  <2> QED BY <2>1, <2>2
<1> QED BY <1>6, <1>10, <1>13

LEMMA ShiftedByNone ==
    ASSUME NEW i \in Nat
    PROVE  ShiftedBy({}, i) = i
<1> DEFINE N == {}
<1>1. N \in SUBSET Nat /\ IsFiniteSet(N) /\ i \notin N /\ Below(N, i) = {}
  BY FS_EmptySet DEF Below
<1>2. Cardinality(Below(N, i)) = 0
  BY <1>1, FS_EmptySet
<1> HIDE DEF N
<1>3. i = i + Cardinality(Below(N, i))
  BY <1>2
<1>4. ShiftedBy(N, i) = i
  BY <1>1, <1>3, ShiftedByIs
<1> QED BY <1>4 DEF N

\* The indexes after which nothing is inserted stay where they are.
LEMMA ShiftedByLater ==
    ASSUME NEW S \in SUBSET Nat, IsFiniteSet(S), NEW i \in Nat, \A x \in S : i < x
    PROVE  ShiftedBy(S, i) = i
<1>1. i \notin S /\ Below(S, i) = {}
  <2>1. \A x \in S : x \in Nat /\ ~ (x < i) /\ x # i
    OBVIOUS
  <2> QED BY <2>1 DEF Below
<1>2. Cardinality(Below(S, i)) = 0
  BY <1>1, FS_EmptySet
<1>3. i = i + Cardinality(Below(S, i))
  BY <1>2
<1> QED BY <1>1, <1>3, ShiftedByIs

\* insert_at of a set
THEOREM InsertAtSetInserts ==
    ASSUME NEW R \in Sets, NEW P \in Sets
    PROVE  /\ InsertAtSet(R, P) \in Sets
           /\ Indexes(InsertAtSet(R, P)) = Indexes(P) \cup {ShiftedBy(Indexes(P), i) : i \in Indexes(R)}
<1> DEFINE S == Indexes(R)
           T == Indexes(P)
<1>1. S \in SUBSET Nat /\ T \in SUBSET Nat
  BY IndexesFinite
<1>2. CASE P = <<>>
  <2>1. T = {}
    BY <1>2, EmptySet
  <2>2. {ShiftedBy(T, i) : i \in S} = S
    BY <2>1, <1>1, ShiftedByNone
  <2>3. InsertAtSet(R, P) = R
    BY <1>2 DEF InsertAtSet
  <2> QED BY <2>1, <2>2, <2>3
<1>3. CASE P # <<>> /\ R = <<>>
  <2>1. S = {}
    BY <1>3, EmptySet
  <2>2. {ShiftedBy(T, i) : i \in S} = {}
    BY <2>1
  <2>3. InsertAtSet(R, P) = P
    BY <1>3 DEF InsertAtSet
  <2> QED BY <2>1, <2>2, <2>3
<1>4. CASE P # <<>> /\ R # <<>>
  <2> DEFINE a == AsIndexes(R)
             b == AsIndexes(P)
  <2>1. a \in Increasing /\ Entries(a) = S /\ b \in Increasing /\ Entries(b) = T
    BY AsIndexesFacts
  <2>2. InsertAtSet(R, P) = Built(MergeShifted(a, b, TRUE))
    BY <1>4 DEF InsertAtSet
  <2> HIDE DEF a, b, S, T
  <2>3. MergeShifted(a, b, TRUE) \in Increasing
        /\ Entries(MergeShifted(a, b, TRUE)) = {ShiftedBy(T, i) : i \in S} \cup T
    <3> DEFINE keep == TRUE
    <3>1. keep \in BOOLEAN /\ keep = TRUE
      OBVIOUS
    <3> HIDE DEF keep
    <3>2. /\ MergeShifted(a, b, keep) \in Increasing
          /\ Entries(MergeShifted(a, b, keep)) = {ShiftedBy(Entries(b), i) : i \in Entries(a)}
                                                 \cup (IF keep THEN Entries(b) ELSE {})
      BY <2>1, <3>1, MergeShiftedFacts
    <3> QED BY <2>1, <3>1, <3>2
  <2>4. Built(MergeShifted(a, b, TRUE)) \in Sets
        /\ Indexes(Built(MergeShifted(a, b, TRUE))) = {ShiftedBy(T, i) : i \in S} \cup T
    BY <2>3, BuiltFacts
  <2> QED BY <2>2, <2>4 DEF S, T
<1> QED BY <1>2, <1>3, <1>4

\* shift_for_insert_at of a set: with nothing to insert before the last index it does nothing.
THEOREM ShiftForInsertAtSetShifts ==
    ASSUME NEW R \in Sets, NEW P \in Sets
    PROVE  /\ ShiftForInsertAtSet(R, P) \in Sets
           /\ Indexes(ShiftForInsertAtSet(R, P)) = {ShiftedBy(Indexes(P), i) : i \in Indexes(R)}
<1> DEFINE S == Indexes(R)
           T == Indexes(P)
           n == Len(R)
<1>1. S \in SUBSET Nat /\ T \in SUBSET Nat /\ IsFiniteSet(T)
  BY IndexesFinite
<1>2. CASE R = <<>>
  <2>1. S = {} /\ ShiftForInsertAtSet(R, P) = R
    BY <1>2, EmptySet DEF ShiftForInsertAtSet
  <2>2. {ShiftedBy(T, i) : i \in S} = {}
    BY <2>1
  <2> QED BY <2>1, <2>2
<1>3. CASE P = <<>>
  <2>1. T = {} /\ ShiftForInsertAtSet(R, P) = R
    BY <1>3, EmptySet DEF ShiftForInsertAtSet
  <2>2. {ShiftedBy(T, i) : i \in S} = S
    BY <2>1, <1>1, ShiftedByNone
  <2> QED BY <2>1, <2>2
<1>4. CASE P # <<>> /\ R # <<>> /\ P[1][1] >= R[n][2]
  <2>1. ShiftForInsertAtSet(R, P) = R
    BY <1>4 DEF ShiftForInsertAtSet, Last
  <2>2. /\ n \in Nat /\ n > 0 /\ Len(P) \in Nat /\ Len(P) > 0
        /\ \A q \in 1..n : R[q][1] \in Nat /\ R[q][2] \in Nat /\ R[q][1] < R[q][2]
        /\ \A q \in 1..Len(P) : P[q][1] \in Nat /\ P[q][2] \in Nat /\ P[q][1] < P[q][2]
    BY <1>4, SetFacts
  <2>3. ASSUME NEW i \in S PROVE i < R[n][2]
    <3>1. i \in Nat /\ In(R, i)
      BY <1>1, InOf
    <3>2. PICK q \in 1..n : R[q][1] <= i /\ i < R[q][2]
      BY <3>1 DEF In
    <3>3. n \in 1..n /\ (q = n \/ q < n)
      BY <2>2
    <3>4. q < n => R[q][2] < R[n][1]
      BY <3>3, RangesInOrder
    <3> QED BY <3>1, <3>2, <3>3, <3>4, <2>2
  <2>4. ASSUME NEW x \in T PROVE P[1][1] <= x
    <3>1. x \in Nat /\ In(P, x)
      BY <1>1, InOf
    <3>2. PICK q \in 1..Len(P) : P[q][1] <= x /\ x < P[q][2]
      BY <3>1 DEF In
    <3>3. 1 \in 1..Len(P) /\ (q = 1 \/ 1 < q)
      BY <2>2
    <3>4. 1 < q => P[1][2] < P[q][1]
      BY <3>3, RangesInOrder
    <3> QED BY <3>1, <3>2, <3>3, <3>4, <2>2
  <2>5. ASSUME NEW i \in S PROVE ShiftedBy(T, i) = i
    <3>1. i \in Nat /\ i < R[n][2] /\ n \in 1..n /\ 1 \in 1..Len(P)
      BY <2>2, <2>3, <1>1
    <3>2. ASSUME NEW x \in T PROVE i < x
      <4>1. P[1][1] <= x /\ x \in Nat /\ P[1][1] \in Nat /\ R[n][2] \in Nat
        BY <2>2, <2>4, <3>1, <1>1
      <4> QED BY <4>1, <3>1, <1>4
    <3> HIDE DEF T
    <3> QED BY <3>1, <3>2, <1>1, ShiftedByLater
  <2>6. {ShiftedBy(T, i) : i \in S} = S
    BY <2>5
  <2> QED BY <2>1, <2>6
<1>5. CASE P # <<>> /\ R # <<>> /\ ~ (P[1][1] >= R[n][2])
  <2> DEFINE a == AsIndexes(R)
             b == AsIndexes(P)
  <2>1. a \in Increasing /\ Entries(a) = S /\ b \in Increasing /\ Entries(b) = T
    BY AsIndexesFacts
  <2>2. ShiftForInsertAtSet(R, P) = Built(MergeShifted(a, b, FALSE))
    BY <1>5 DEF ShiftForInsertAtSet, Last
  <2> HIDE DEF a, b, S, T
  <2>3. MergeShifted(a, b, FALSE) \in Increasing
        /\ Entries(MergeShifted(a, b, FALSE)) = {ShiftedBy(T, i) : i \in S}
    <3> DEFINE keep == FALSE
    <3>1. keep \in BOOLEAN /\ keep = FALSE
      OBVIOUS
    <3> HIDE DEF keep
    <3>2. /\ MergeShifted(a, b, keep) \in Increasing
          /\ Entries(MergeShifted(a, b, keep)) = {ShiftedBy(Entries(b), i) : i \in Entries(a)}
                                                 \cup (IF keep THEN Entries(b) ELSE {})
      BY <2>1, <3>1, MergeShiftedFacts
    <3> QED BY <2>1, <3>1, <3>2
  <2>4. Built(MergeShifted(a, b, FALSE)) \in Sets
        /\ Indexes(Built(MergeShifted(a, b, FALSE))) = {ShiftedBy(T, i) : i \in S}
    BY <2>3, BuiltFacts
  <2> QED BY <2>2, <2>4 DEF S, T
<1> QED BY <1>2, <1>3, <1>4, <1>5

-----------------------------------------------------------------------------
(* Erasing a set                                                           *)

\* Where an index ends up once all of T was erased
Unshifted(T, i) == i - Cardinality(Below(T, i))

LEMMA UnshiftedFacts ==
    ASSUME NEW T \in SUBSET Nat, NEW i \in Nat
    PROVE  Unshifted(T, i) \in Nat
<1> DEFINE A == {k \in 0..(i - 1) : k \notin T}
<1>1. IsFiniteSet(A) /\ Cardinality(A) = i - Cardinality(Below(T, i))
  BY OutsideCounts
<1> HIDE DEF A
<1>2. Cardinality(A) \in Nat
  BY <1>1, FS_CardinalityType
<1> QED BY <1>1, <1>2 DEF Unshifted

\* The loop of erase_at after k of the existing indexes: it has passed the positions up to
\* the k-th, and handed on those of the indexes that are not among the positions.
Erasing(a, b, k) ==
    {x \in [n : 0..Len(b), out : Increasing] :
        /\ x.n > 0 => b[x.n] <= Passed(a, k)
        /\ x.n < Len(b) => Passed(a, k) < b[x.n + 1]
        /\ Entries(x.out) = {Unshifted(Entries(b), a[h]) : h \in {g \in 1..k : a[g] \notin Entries(b)}}}

LEMMA EraseTurn ==
    ASSUME NEW a \in Increasing, NEW b \in Increasing, NEW k \in 1..Len(a), NEW x \in Erasing(a, b, k - 1)
    PROVE  EraseStep(b, x, a[k]) \in Erasing(a, b, k)
<1> DEFINE m == Len(b)
           e == a[k]
           c == Passed(a, k - 1)
           M == {h \in x.n..m : h = m \/ e <= b[h + 1]}
           n == Min(M)
           T == Entries(b)
           K(j) == {g \in 1..j : a[g] \notin T}
<1>1. /\ m \in Nat /\ \A h \in 1..m : b[h] \in Nat
      /\ \A h, g \in 1..m : h < g => b[h] < b[g]
      /\ T \in SUBSET Nat
  BY IncreasingFacts
<1>a. /\ Len(a) \in Nat /\ k \in Nat /\ k > 0 /\ \A h \in 1..Len(a) : a[h] \in Nat
      /\ \A h, g \in 1..Len(a) : h < g => a[h] < a[g]
  BY IncreasingFacts
<1>2. e \in Nat /\ c \in Int /\ c < e
  <2>1. CASE k = 1
    BY <1>a, <2>1 DEF Passed
  <2>2. CASE k # 1
    <3>1. k - 1 \in 1..Len(a) /\ k - 1 < k /\ k - 1 # 0
      BY <1>a, <2>2
    <3> QED BY <3>1, <1>a DEF Passed
  <2> QED BY <2>1, <2>2
<1> DEFINE n0 == x.n
           out == x.out
<1>3. /\ n0 \in 0..m /\ out \in Increasing /\ x = [n |-> n0, out |-> out]
      /\ n0 > 0 => b[n0] <= c
      /\ n0 < m => c < b[n0 + 1]
      /\ Entries(out) = {Unshifted(T, a[h]) : h \in K(k - 1)}
  BY DEF Erasing
<1>4. n \in n0..m /\ (n = m \/ e <= b[n + 1]) /\ \A h \in n0..m : h < n => b[h + 1] < e
  <2>1. M \in SUBSET Nat /\ m \in M
    BY <1>1, <1>3
  <2>2. n \in M /\ \A h \in M : n <= h
    BY <2>1, MinOf
  <2>3. n \in Nat
    BY <2>1, <2>2
  <2>4. ASSUME NEW h \in n0..m, h < n PROVE b[h + 1] < e
    <3>1. h \notin M /\ h \in Nat
      <4>1. h \in Nat
        BY <1>3
      <4> HIDE DEF n, M
      <4> QED BY <4>1, <2>2, <2>3, <2>4
    <3>2. h + 1 \in 1..m
      BY <2>2, <2>3, <2>4, <3>1, <1>1
    <3>3. b[h + 1] \in Nat /\ ~ (e <= b[h + 1])
      BY <3>1, <3>2, <1>1
    <3> QED BY <3>3, <1>2
  <2> HIDE DEF n
  <2> QED BY <2>2, <2>4
<1> DEFINE y == EraseStep(b, x, a[k])
<1>5. y = IF n < m /\ e = b[n + 1] THEN [n |-> n + 1, out |-> out] ELSE [n |-> n, out |-> Append(out, e - n)]
  <2> DEFINE j == n + 1
  <2> HIDE DEF j
  <2>1. x \in [n : 0..Len(b), out : Increasing]
    BY DEF Erasing
  <2>2. [x EXCEPT !.n = j] = [n |-> j, out |-> out]
    BY <2>1
  <2> QED BY <2>2 DEF EraseStep, j
<1>6. n0 \in Nat /\ n \in Nat /\ n0 <= n /\ n <= m
  BY <1>1, <1>3, <1>4
<1> HIDE DEF n, M, m, y, c, n0, out
<1>7. n > 0 => b[n] < e
  <2>1. CASE n = n0
    <3>1. n > 0 => n \in 1..m
      BY <1>1, <1>6
    <3> QED BY <3>1, <2>1, <1>1, <1>2, <1>3
  <2>2. CASE n # n0
    <3>1. n0 < n /\ n \in Nat /\ m \in Nat
      BY <2>2, <1>1, <1>6
    <3>2. n - 1 \in n0..m /\ n - 1 < n /\ n - 1 + 1 = n
      BY <3>1, <1>6
    <3> QED BY <3>2, <1>4
  <2> QED BY <2>1, <2>2
<1>8. Cardinality(Below(T, e)) = n /\ (e \in T <=> n < m /\ e = b[n + 1])
  BY <1>2, <1>4, <1>6, <1>7, <1>1, EntriesBelow DEF m
<1>9. Passed(a, k) = e
  BY <1>a DEF Passed
<1>10. K(k) = K(k - 1) \cup (IF e \in T THEN {} ELSE {k})
  <2>1. 1..k = (1..(k - 1)) \cup {k}
    BY <1>a
  <2> QED BY <2>1
<1> HIDE DEF K
<1>11. CASE e \in T
  <2>1. n < m /\ e = b[n + 1] /\ y = [n |-> n + 1, out |-> out]
    BY <1>5, <1>8, <1>11
  <2>2. n + 1 \in 0..m /\ n + 1 \in 1..m
    BY <2>1, <1>1, <1>6
  <2>3. y.n = n + 1 /\ y.out = out /\ y \in [n : 0..Len(b), out : Increasing]
    BY <2>1, <2>2, <1>3 DEF m
  <2>4. y.n > 0 => b[y.n] <= Passed(a, k)
    BY <2>1, <2>3, <1>2, <1>9
  <2>5. y.n < Len(b) => Passed(a, k) < b[y.n + 1]
    <3>1. n + 1 < m => n + 1 + 1 \in 1..m
      BY <1>1, <1>6
    <3>2. n + 1 < m => b[n + 1] < b[n + 1 + 1]
      BY <3>1, <2>2, <1>1, <1>6
    <3> QED BY <3>2, <2>1, <2>3, <1>9 DEF m
  <2>6. Entries(y.out) = {Unshifted(T, a[h]) : h \in K(k)}
    BY <2>3, <1>3, <1>10, <1>11
  <2>7. Entries(y.out) = {Unshifted(Entries(b), a[h]) : h \in {g \in 1..k : a[g] \notin Entries(b)}}
    BY <2>6 DEF K, T
  <2>8. y \in Erasing(a, b, k)
    BY <2>3, <2>4, <2>5, <2>7 DEF Erasing
  <2> QED BY <2>8 DEF y
<1>12. CASE e \notin T
  <2> DEFINE d == e - n
  <2>1. y = [n |-> n, out |-> Append(out, d)]
    BY <1>5, <1>8, <1>12
  <2>2. d = Unshifted(T, e) /\ d \in Nat
    <3>1. d = Unshifted(T, e)
      BY <1>8 DEF Unshifted
    <3>2. Unshifted(T, e) \in Nat
      BY <1>1, <1>2, UnshiftedFacts
    <3> QED BY <3>1, <3>2
  <2> HIDE DEF d
  <2>3. ASSUME NEW z \in Entries(out) PROVE z < d
    <3>1. PICK h \in K(k - 1) : z = Unshifted(T, a[h])
      BY <1>3
    <3>2. h \in 1..(k - 1) /\ a[h] \notin T
      BY DEF K
    <3>3. h \in 1..Len(a) /\ h < k
      BY <3>2, <1>a
    <3> DEFINE f == a[h]
    <3>4. f \in Nat /\ f < e
      BY <3>3, <1>a
    <3> HIDE DEF f, e
    <3>5. f - Cardinality(Below(T, f)) < e - Cardinality(Below(T, e))
      <4>1. f \notin T
        BY <3>2 DEF f
      <4> HIDE DEF T
      <4> QED BY <4>1, <3>4, <1>1, <1>2, UnshiftGrows
    <3> QED BY <3>1, <3>5, <2>2 DEF Unshifted, f
  <2>4. Append(out, d) \in Increasing /\ Entries(Append(out, d)) = Entries(out) \cup {d}
    BY <2>2, <2>3, <1>3, AppendIncreasing
  <2>5. y.n = n /\ y.out = Append(out, d) /\ y \in [n : 0..Len(b), out : Increasing]
    <3>1. n \in 0..m
      BY <1>1, <1>6
    <3> QED BY <3>1, <2>1, <2>4 DEF m
  <2>6. y.n > 0 => b[y.n] <= Passed(a, k)
    <3>1. n > 0 => n \in 1..m
      BY <1>1, <1>6
    <3> QED BY <3>1, <2>5, <1>1, <1>2, <1>7, <1>9
  <2>7. y.n < Len(b) => Passed(a, k) < b[y.n + 1]
    <3>1. n < m => n + 1 \in 1..m /\ e # b[n + 1] /\ e <= b[n + 1]
      BY <1>1, <1>4, <1>6, <1>8, <1>12
    <3>2. n < m => e < b[n + 1]
      BY <3>1, <1>1, <1>2
    <3> QED BY <3>2, <2>5, <1>9 DEF m
  <2>8. Entries(y.out) = {Unshifted(T, a[h]) : h \in K(k)}
    <3>1. K(k) = K(k - 1) \cup {k}
      BY <1>10, <1>12
    <3>2. {Unshifted(T, a[h]) : h \in K(k)} = {Unshifted(T, a[h]) : h \in K(k - 1)} \cup {Unshifted(T, e)}
      BY <3>1
    <3> QED BY <3>2, <2>2, <2>4, <2>5, <1>3
  <2>9. Entries(y.out) = {Unshifted(Entries(b), a[h]) : h \in {g \in 1..k : a[g] \notin Entries(b)}}
    BY <2>8 DEF K, T
  <2>10. y \in Erasing(a, b, k)
    BY <2>5, <2>6, <2>7, <2>9 DEF Erasing
  <2> QED BY <2>10 DEF y
<1> QED BY <1>11, <1>12

EraseOp(c, x, e) == EraseStep(c, x, e)
EraseFold == INSTANCE FoldTheorems WITH op <- EraseOp

\* What the loop hands to the builder: the existing indexes that stay, moved.
LEMMA EraseIndexesFacts ==
    ASSUME NEW a \in Increasing, NEW b \in Increasing
    PROVE  /\ EraseIndexes(a, b) \in Increasing
           /\ Entries(EraseIndexes(a, b)) = {Unshifted(Entries(b), i) : i \in Entries(a) \ Entries(b)}
<1> DEFINE n == Len(a)
           base == [n |-> 0, out |-> <<>>]
           Inv == [k \in 0..n |-> Erasing(a, b, k)]
           x == FoldLeft(LAMBDA y, index : EraseStep(b, y, index), base, a)
           T == Entries(b)
<1>0. /\ n \in Nat /\ DOMAIN a = 1..n /\ Len(b) \in Nat /\ \A k \in 1..Len(b) : b[k] \in Nat
  BY IncreasingFacts
<1>1. base \in Inv[0]
  <2> DEFINE E == <<>>
  <2>1. E \in Increasing /\ Entries(E) = {}
    BY NoneIncreasing
  <2> HIDE DEF E
  <2> DEFINE y == [n |-> 0, out |-> E]
  <2>2. base = y
    BY DEF E
  <2>3. y \in [n : 0..Len(b), out : Increasing] /\ y.n = 0 /\ y.out = E
    BY <2>1, <1>0
  <2> HIDE DEF y, base
  <2>4. {g \in 1..0 : a[g] \notin Entries(b)} = {}
    OBVIOUS
  <2>5. {Unshifted(Entries(b), a[h]) : h \in {g \in 1..0 : a[g] \notin Entries(b)}} = {}
    BY <2>4
  <2>6. 0 < Len(b) => -1 < b[1]
    BY <1>0
  <2>7. Passed(a, 0) = -1
    BY DEF Passed
  <2>8. /\ y.n > 0 => b[y.n] <= Passed(a, 0)
        /\ y.n < Len(b) => Passed(a, 0) < b[y.n + 1]
        /\ Entries(y.out) = {Unshifted(Entries(b), a[h]) : h \in {g \in 1..0 : a[g] \notin Entries(b)}}
    BY <2>1, <2>3, <2>5, <2>6, <2>7
  <2>9. y \in Erasing(a, b, 0)
    BY <2>3, <2>8 DEF Erasing
  <2> QED BY <2>2, <2>9, <1>0
<1>2. ASSUME NEW k \in 1..n, NEW y \in Inv[k - 1] PROVE EraseOp(b, y, a[k]) \in Inv[k]
  <2>1. k \in 0..n /\ k - 1 \in 0..n
    BY <1>0
  <2>2. y \in Erasing(a, b, k - 1)
    BY <2>1
  <2>3. EraseStep(b, y, a[k]) \in Erasing(a, b, k)
    BY <2>2, EraseTurn
  <2> QED BY <2>1, <2>3 DEF EraseOp
<1> HIDE DEF Inv, base
<1>3. EraseFold!Fold(b, base, a) \in Inv[n]
  BY <1>0, <1>1, <1>2, EraseFold!FoldInvariant
<1>4. EraseFold!Fold(b, base, a) = x
  BY DEF EraseOp, EraseFold!Fold, FoldLeft, MapThenFoldSet,
         Max, EraseFold!Greatest
<1>5. EraseIndexes(a, b) = x.out
  BY DEF EraseIndexes, base
<1>6. x \in Erasing(a, b, n)
  <2>1. n \in 0..n
    BY <1>0
  <2> HIDE DEF x
  <2> QED BY <2>1, <1>3, <1>4 DEF Inv
<1> HIDE DEF x
<1>7. x.out \in Increasing /\ Entries(x.out) = {Unshifted(T, a[h]) : h \in {g \in 1..n : a[g] \notin T}}
  BY <1>6 DEF Erasing
<1>8. {Unshifted(T, a[h]) : h \in {g \in 1..n : a[g] \notin T}} = {Unshifted(T, i) : i \in Entries(a) \ T}
  <2> HIDE DEF T
  <2>1. Entries(a) \ T = {a[h] : h \in {g \in 1..n : a[g] \notin T}}
    BY DEF Entries
  <2> QED BY <2>1
<1> QED BY <1>5, <1>7, <1>8

\* erase_at of a set
THEOREM EraseAtSetErases ==
    ASSUME NEW R \in Sets, NEW P \in Sets
    PROVE  /\ EraseAtSet(R, P) \in Sets
           /\ Indexes(EraseAtSet(R, P)) = {Unshifted(Indexes(P), i) : i \in Indexes(R) \ Indexes(P)}
<1> DEFINE S == Indexes(R)
           T == Indexes(P)
<1>1. S \in SUBSET Nat /\ T \in SUBSET Nat
  BY IndexesFinite
<1>2. CASE R = <<>>
  <2>1. S = {} /\ EraseAtSet(R, P) = R
    BY <1>2, EmptySet DEF EraseAtSet
  <2>2. {Unshifted(T, i) : i \in S \ T} = {}
    BY <2>1
  <2> QED BY <2>1, <2>2
<1>3. CASE P = <<>>
  <2>1. T = {} /\ EraseAtSet(R, P) = R
    BY <1>3, EmptySet DEF EraseAtSet
  <2>2. ASSUME NEW i \in S PROVE Unshifted(T, i) = i
    <3>1. Below(T, i) = {} /\ i \in Nat
      BY <2>1, <1>1 DEF Below
    <3>2. Cardinality(Below(T, i)) = 0
      BY <3>1, FS_EmptySet
    <3> QED BY <3>1, <3>2 DEF Unshifted
  <2>3. {Unshifted(T, i) : i \in S \ T} = S
    BY <2>1, <2>2
  <2> QED BY <2>1, <2>3
<1>4. CASE P # <<>> /\ R # <<>>
  <2> DEFINE a == AsIndexes(R)
             b == AsIndexes(P)
  <2>1. a \in Increasing /\ Entries(a) = S /\ b \in Increasing /\ Entries(b) = T
    BY AsIndexesFacts
  <2>2. EraseAtSet(R, P) = Built(EraseIndexes(a, b))
    BY <1>4 DEF EraseAtSet
  <2> HIDE DEF a, b, S, T
  <2>3. /\ EraseIndexes(a, b) \in Increasing
        /\ Entries(EraseIndexes(a, b)) = {Unshifted(Entries(b), i) : i \in Entries(a) \ Entries(b)}
    BY <2>1, EraseIndexesFacts
  <2>4. Built(EraseIndexes(a, b)) \in Sets /\ Indexes(Built(EraseIndexes(a, b))) = Entries(EraseIndexes(a, b))
    BY <2>3, BuiltFacts
  <2> QED BY <2>1, <2>2, <2>3, <2>4 DEF S, T
<1> QED BY <1>2, <1>3, <1>4

-----------------------------------------------------------------------------
(* Adding a set, shifted by two others                                     *)

\* The ranges up to b are those up to a - 1 and then those from a on.
LEMMA PartSplit ==
    ASSUME NEW R \in Sets, NEW a \in 1..(Len(R) + 1), NEW b \in (a - 1)..Len(R)
    PROVE  /\ Part(R, 1, b) = Part(R, 1, a - 1) \cup Part(R, a, b)
           /\ Cardinality(Part(R, 1, b)) = Cardinality(Part(R, 1, a - 1)) + Cardinality(Part(R, a, b))
           /\ Part(R, 1, b) \in SUBSET Indexes(R) /\ Cardinality(Part(R, 1, b)) \in Nat
           /\ Part(R, a, b) \in SUBSET Indexes(R) /\ Cardinality(Part(R, a, b)) \in Nat
           /\ Cardinality(Part(R, 1, a - 1)) \in Nat
<1> DEFINE c == a - 1
           o == 1
           A == Part(R, o, c)
           B == Part(R, a, b)
           W == Part(R, o, b)
<1>0. Len(R) \in Nat /\ a \in Int /\ b \in Int /\ 1 <= a /\ a <= Len(R) + 1 /\ a - 1 <= b /\ b <= Len(R)
  BY SetFacts
<1>1. /\ o \in 1..(Len(R) + 1) /\ c \in (o - 1)..Len(R) /\ b \in (o - 1)..Len(R)
      /\ \A q \in o..b : q \in o..c \/ q \in a..b
      /\ \A q \in o..c : q \in o..b /\ q \in 1..Len(R) /\ q < a /\ q \in Int
      /\ \A h \in a..b : h \in o..b /\ h \in 1..Len(R) /\ a <= h /\ h \in Int
  BY <1>0
<1>2. /\ \A q \in 1..Len(R) : R[q][1] \in Nat /\ R[q][2] \in Nat /\ R[q][1] < R[q][2]
      /\ \A q, h \in 1..Len(R) : q < h => R[q][2] < R[h][1]
  BY SetFacts, RangesInOrder
<1> HIDE DEF o, c
<1>3. /\ \A x : x \in A <=> x \in Nat /\ \E q \in o..c : R[q][1] <= x /\ x < R[q][2]
      /\ IsFiniteSet(A) /\ Cardinality(A) \in Nat
  BY <1>1, PartFacts
<1>4. /\ \A x : x \in W <=> x \in Nat /\ \E q \in o..b : R[q][1] <= x /\ x < R[q][2]
      /\ W \in SUBSET Indexes(R) /\ Cardinality(W) \in Nat
  BY <1>1, PartFacts
<1>5. /\ \A x : x \in B <=> x \in Nat /\ \E q \in a..b : R[q][1] <= x /\ x < R[q][2]
      /\ IsFiniteSet(B) /\ B \in SUBSET Indexes(R) /\ Cardinality(B) \in Nat
  BY PartFacts
<1> HIDE DEF A, B, W
<1>6. W = A \cup B
  <2>1. ASSUME NEW x \in W PROVE x \in A \cup B
    <3>1. PICK q \in o..b : R[q][1] <= x /\ x < R[q][2]
      BY <1>4
    <3>2. q \in o..c \/ q \in a..b
      BY <1>1
    <3> QED BY <3>1, <3>2, <1>3, <1>4, <1>5
  <2>2. ASSUME NEW x \in A PROVE x \in W
    <3>1. PICK q \in o..c : R[q][1] <= x /\ x < R[q][2]
      BY <1>3
    <3> QED BY <3>1, <1>1, <1>3, <1>4
  <2>3. ASSUME NEW x \in B PROVE x \in W
    <3>1. PICK q \in a..b : R[q][1] <= x /\ x < R[q][2]
      BY <1>5
    <3> QED BY <3>1, <1>1, <1>4, <1>5
  <2> QED BY <2>1, <2>2, <2>3
<1>7. A \cap B = {}
  <2>1. ASSUME NEW x \in A, x \in B PROVE FALSE
    <3>1. PICK q \in o..c : R[q][1] <= x /\ x < R[q][2]
      BY <1>3
    <3>2. PICK h \in a..b : R[h][1] <= x /\ x < R[h][2]
      BY <2>1, <1>5
    <3>3. q < h /\ q \in 1..Len(R) /\ h \in 1..Len(R)
      BY <1>0, <1>1
    <3>4. x \in Nat
      BY <1>3
    <3> DEFINE s == R[q][2]
               f == R[h][1]
    <3>5. s \in Nat /\ f \in Nat /\ x < s /\ f <= x /\ s < f
      BY <3>1, <3>2, <3>3, <1>2
    <3> HIDE DEF s, f
    <3> QED BY <3>4, <3>5
  <2> QED BY <2>1
<1>8. Cardinality(W) = Cardinality(A) + Cardinality(B)
  BY <1>3, <1>5, <1>6, <1>7, DisjointCounts
<1> QED BY <1>3, <1>4, <1>5, <1>6, <1>8 DEF A, B, W, o, c

\* The ranges that begin at or before an index are the first ones.
LEMMA BegunFacts ==
    ASSUME NEW R \in Sets, NEW e \in Nat
    PROVE  LET N == Cardinality({q \in 1..Len(R) : R[q][1] <= e}) IN
           /\ N \in 0..Len(R)
           /\ \A q \in 1..Len(R) : q <= N <=> R[q][1] <= e
<1> DEFINE n == Len(R)
           M == {q \in 1..(n + 1) : q = n + 1 \/ e < R[q][1]}
           D == {q \in 1..n : R[q][1] <= e}
<1>1. /\ n \in Nat /\ \A q \in 1..n : R[q][1] \in Nat /\ R[q][2] \in Nat /\ R[q][1] < R[q][2]
      /\ \A q, h \in 1..n : q < h => R[q][2] < R[h][1]
  BY SetFacts, RangesInOrder
<1>2. n + 1 \in M /\ M \in SUBSET Nat
  BY <1>1
<1>3. PICK p \in M : \A k \in M : p <= k
  <2> HIDE DEF M
  <2> QED BY <1>2, LeastNatural
<1>4. p \in 1..(n + 1) /\ p - 1 \in Nat
  BY <1>1
<1>5. ASSUME NEW q \in 1..n PROVE q < p <=> R[q][1] <= e
  <2>1. ASSUME q < p PROVE R[q][1] <= e
    <3>1. q \notin M
      <4> HIDE DEF M
      <4> QED BY <2>1, <1>3, <1>4
    <3>2. q \in 1..(n + 1) /\ ~ (e < R[q][1])
      BY <3>1, <1>1
    <3> QED BY <3>2, <1>1
  <2>2. ASSUME p <= q PROVE e < R[q][1]
    <3>1. p \in 1..n /\ e < R[p][1]
      BY <2>2, <1>1, <1>3, <1>4
    <3>2. CASE p = q
      BY <3>1, <3>2
    <3>3. CASE p # q
      <4> DEFINE f == R[p][1]
                 s == R[p][2]
                 g == R[q][1]
      <4>1. p < q
        BY <2>2, <3>3, <1>4
      <4>2. f \in Nat /\ s \in Nat /\ g \in Nat /\ f < s /\ s < g /\ e < f
        BY <4>1, <3>1, <1>1
      <4> HIDE DEF f, s, g
      <4>3. e < g
        BY <4>2
      <4> QED BY <4>3 DEF g
    <3> QED BY <3>2, <3>3
  <2>3. R[q][1] \in Nat
    BY <1>1
  <2> QED BY <2>1, <2>2, <2>3, <1>4
<1>6. D = 1..(p - 1)
  <2>1. ASSUME NEW q \in D PROVE q \in 1..(p - 1)
    BY <1>1, <1>4, <1>5
  <2>2. ASSUME NEW q \in 1..(p - 1) PROVE q \in D
    BY <1>1, <1>4, <1>5
  <2> QED BY <2>1, <2>2
<1> DEFINE c == p - 1
<1> HIDE DEF D, M
<1>7. Cardinality(1..c) = c
  <2>1. c \in Nat
    BY <1>4
  <2> HIDE DEF c
  <2> QED BY <2>1, CardinalityOfFirst
<1>8. Cardinality(D) = c
  BY <1>6, <1>7
<1>9. c \in 0..n /\ \A q \in 1..n : q <= c <=> R[q][1] <= e
  BY <1>1, <1>4, <1>5
<1> QED BY <1>8, <1>9 DEF D

\* How many ranges of a set begin at or before an index
Begun(R, e) == Cardinality({q \in 1..Len(R) : R[q][1] <= e})

\* The ranges that were not passed before, and begin at or before e
LEMMA PassedRanges ==
    ASSUME NEW by \in Sets, NEW q0 \in 1..(Len(by) + 1), NEW e \in Nat, NEW c \in Int, c < e,
           \A h \in 1..Len(by) : h < q0 <=> by[h][1] <= c
    PROVE  LET N == Begun(by, e)
               s == SubSeq(by, q0, N)
           IN /\ N \in (q0 - 1)..Len(by) /\ Len(s) = N - q0 + 1
              /\ Cardinality(Part(by, 1, q0 - 1)) + Cardinality(Indexes(s)) = Cardinality(Part(by, 1, N))
              /\ s = <<>> <=> N = q0 - 1
              /\ s # <<>> => Last(s)[2] = by[N][2]
<1> DEFINE n == Len(by)
           N == Begun(by, e)
           s == SubSeq(by, q0, N)
<1>1. n \in Nat /\ \A h \in 1..n : by[h][1] \in Nat
  BY SetFacts
<1>2. N \in 0..n /\ \A h \in 1..n : h <= N <=> by[h][1] <= e
  BY BegunFacts DEF Begun
<1> HIDE DEF N
<1>3. q0 - 1 <= N
  <2>1. CASE q0 = 1
    BY <2>1, <1>2
  <2>2. CASE q0 # 1
    <3> DEFINE h == q0 - 1
    <3>1. h \in 1..n /\ h < q0
      BY <2>2, <1>1
    <3>2. by[h][1] <= c /\ by[h][1] \in Nat
      BY <3>1, <1>1
    <3>3. by[h][1] <= e
      BY <3>2
    <3> QED BY <3>1, <3>3, <1>2
  <2> QED BY <2>1, <2>2
<1>4. N \in (q0 - 1)..Len(by)
  BY <1>1, <1>2, <1>3
<1>5. /\ s \in Sets /\ Len(s) = N - q0 + 1
      /\ \A q \in 1..(N - q0 + 1) : s[q] = by[q0 + q - 1]
  BY <1>4, PartFacts
<1>6. Cardinality(Part(by, 1, q0 - 1)) + Cardinality(Indexes(s)) = Cardinality(Part(by, 1, N))
  BY <1>4, PartSplit DEF Part
<1>7. N \in Int /\ q0 \in Int
  BY <1>1, <1>2
<1> HIDE DEF s
<1>8. s = <<>> <=> N = q0 - 1
  <2>1. s \in Seq(Range2)
    BY <1>5, SetFacts
  <2>2. s = <<>> <=> Len(s) = 0
    BY <2>1
  <2> QED BY <2>2, <1>5, <1>7
<1>9. ASSUME s # <<>> PROVE Last(s)[2] = by[N][2]
  <2>1. Len(s) \in 1..(N - q0 + 1)
    BY <1>4, <1>5, <1>7, <1>8, <1>9
  <2>2. s[Len(s)] = by[q0 + Len(s) - 1] /\ q0 + Len(s) - 1 = N
    BY <2>1, <1>5, <1>7
  <2> QED BY <2>2 DEF Last
<1> QED BY <1>4, <1>5, <1>6, <1>8, <1>9 DEF N, s

\* An index of the set is in the last range that begins at or before it; another one comes
\* after all of these.
LEMMA BegunMember ==
    ASSUME NEW by \in Sets, NEW e \in Nat
    PROVE  LET N == Begun(by, e) IN
           /\ e \in Indexes(by) <=> N > 0 /\ e < by[N][2]
           /\ e \notin Indexes(by) => Cardinality(Part(by, 1, N)) = Cardinality(Below(Indexes(by), e))
<1> DEFINE n == Len(by)
           N == Begun(by, e)
<1>1. /\ n \in Nat /\ \A q \in 1..n : by[q][1] \in Nat /\ by[q][2] \in Nat /\ by[q][1] < by[q][2]
      /\ \A q, h \in 1..n : q < h => by[q][2] < by[h][1]
  BY SetFacts, RangesInOrder
<1>2. N \in 0..n /\ \A h \in 1..n : h <= N <=> by[h][1] <= e
  BY BegunFacts DEF Begun
<1> HIDE DEF N
<1>3. ASSUME NEW h \in 1..n, h < N PROVE by[h][2] <= e
  <2>1. N \in 1..n /\ by[N][1] <= e
    BY <1>1, <1>2, <1>3
  <2>2. by[h][2] < by[N][1] /\ by[h][2] \in Nat /\ by[N][1] \in Nat
    BY <2>1, <1>1, <1>3
  <2> QED BY <2>1, <2>2
<1>4. e \in Indexes(by) <=> N > 0 /\ e < by[N][2]
  <2>1. ASSUME e \in Indexes(by) PROVE N > 0 /\ e < by[N][2]
    <3>1. In(by, e)
      BY <2>1, InOf
    <3>2. PICK h \in 1..n : by[h][1] <= e /\ e < by[h][2]
      BY <3>1 DEF In
    <3>3. h <= N /\ ~ (h < N)
      <4>1. by[h][2] \in Nat
        BY <1>1
      <4> QED BY <4>1, <3>2, <1>2, <1>3
    <3>4. h = N
      BY <3>3, <1>2
    <3> QED BY <3>2, <3>4
  <2>2. ASSUME N > 0, e < by[N][2] PROVE e \in Indexes(by)
    <3>1. N \in 1..n /\ by[N][1] <= e
      BY <2>2, <1>2
    <3>2. In(by, e)
      BY <2>2, <3>1 DEF In
    <3> QED BY <3>2, InOf
  <2> QED BY <2>1, <2>2
<1>5. ASSUME e \notin Indexes(by) PROVE Cardinality(Part(by, 1, N)) = Cardinality(Below(Indexes(by), e))
  <2> DEFINE p == N + 1
  <2>1. p \in 1..(Len(by) + 1) /\ p - 1 = N
    BY <1>1, <1>2
  <2>2. ASSUME NEW q \in 1..Len(by), q < p PROVE by[q][2] <= e
    <3>1. q < N \/ q = N
      BY <2>2, <1>2
    <3>2. CASE q = N
      <4>1. ~ (e < by[N][2]) /\ by[N][2] \in Nat
        BY <3>2, <1>1, <1>2, <1>4, <1>5
      <4> QED BY <4>1, <3>2
    <3> QED BY <3>1, <3>2, <1>3
  <2>3. p <= Len(by) => e <= by[p][1]
    <3>1. p <= Len(by) => p \in 1..n /\ ~ (p <= N)
      BY <2>1, <1>2
    <3>2. p <= Len(by) => by[p][1] \in Nat /\ ~ (by[p][1] <= e)
      BY <3>1, <1>1, <1>2
    <3> QED BY <3>2
  <2> HIDE DEF p
  <2>4. Part(by, 1, p - 1) = {x \in Indexes(by) : x < e}
    BY <2>1, <2>2, <2>3, PartBelow
  <2> QED BY <2>1, <2>4 DEF Below
<1> QED BY <1>4, <1>5 DEF N

\* The positions of the indexes, up to the k-th, that are not in a set
Outside(v, B, k) == {h \in 1..k : v[h] \notin B}

\* The loop of add_shifted_by after k of the values: the ranges of shifted_by that begin at or
\* before the k-th are passed; the ranges of the set up to where the last value that counts
\* went are handed on, and so are the values that count.
Adding(R, by, v, k) ==
    {x \in [p : 1..(Len(R) + 1), q : 1..(Len(by) + 1), oldShift : Nat, newShift : Nat, skip : Nat, out : Sets] :
        /\ x.oldShift = Cardinality(Part(R, 1, x.p - 1))
        /\ x.newShift = Cardinality(Part(by, 1, x.q - 1))
        /\ x.q > 1 => x.skip = by[x.q - 1][2]
        /\ x.q = 1 => x.skip = 0
        /\ \A h \in 1..Len(by) : h < x.q <=> by[h][1] <= Passed(v, k)
        /\ \E u \in {-1} \cup {Unshifted(Indexes(by), v[h]) : h \in Outside(v, Indexes(by), k)} :
              /\ \A h \in 1..Len(R) : h < x.p => R[h][2] <= u + x.oldShift
              /\ x.p <= Len(R) => u + x.oldShift < R[x.p][1]
              /\ \A y \in Indexes(x.out) : y <= u + x.oldShift
        /\ Indexes(x.out) = Part(R, 1, x.p - 1)
              \cup {ShiftedBy(Indexes(R), Unshifted(Indexes(by), v[h])) : h \in Outside(v, Indexes(by), k)}}

\* Where a value goes, from the range p of the set on: the range reached and the index
NextShift(R, p, u, w, x) ==
    /\ x[1] \in p..(Len(R) + 1) /\ x[2] \in Nat /\ w < x[2] /\ x[2] \notin Indexes(R)
    /\ x[2] = u + Cardinality(Part(R, 1, x[1] - 1)) /\ x[2] = ShiftedBy(Indexes(R), u)
    /\ \A h \in 1..Len(R) : h < x[1] => R[h][2] <= x[2]
    /\ x[1] <= Len(R) => x[2] < R[x[1]][1]

LEMMA NextShifted ==
    ASSUME NEW R \in Sets, NEW p \in 1..(Len(R) + 1), NEW u \in Nat, NEW w \in Int,
           w < u + Cardinality(Part(R, 1, p - 1)),
           \A h \in 1..Len(R) : h < p => R[h][2] <= w
    PROVE  NextShift(R, p, u, w, ShiftPast(R, p, u + Cardinality(Part(R, 1, p - 1))))
<1> DEFINE d == Cardinality(Part(R, 1, p - 1))
           i == u + d
           z == ShiftPast(R, p, i)
           r == z[1]
           j == z[2]
           A == Part(R, 1, r - 1)
           S == Indexes(R)
<1>1. /\ Len(R) \in Nat
      /\ \A h \in 1..Len(R) : R[h][1] \in Nat /\ R[h][2] \in Nat /\ R[h][1] < R[h][2]
      /\ \A h, g \in 1..Len(R) : h < g => R[h][2] < R[g][1]
  BY SetFacts, RangesInOrder
<1>2. p - 1 \in (p - 1)..Len(R) /\ d \in Nat
  <2>1. p \in Int /\ p - 1 \in (p - 1)..Len(R)
    BY <1>1
  <2> QED BY <2>1, PartSplit
<1>3. i \in Nat /\ w < i
  BY <1>2
<1>4. /\ r \in p..(Len(R) + 1) /\ j \in Int /\ i <= j /\ j = i + Cardinality(Part(R, p, r - 1))
      /\ \A h \in p..Len(R) : h < r => R[h][2] <= j
      /\ r <= Len(R) => j < R[r][1]
  <2> HIDE DEF i
  <2>1. i \in Int
    BY <1>3
  <2> QED BY <2>1, ShiftPastFacts
<1> HIDE DEF z, r, j
<1>5. j \in Nat /\ w < j
  BY <1>3, <1>4
<1>6. j = u + Cardinality(A)
  <2> DEFINE b == r - 1
  <2>1. b \in (p - 1)..Len(R)
    BY <1>1, <1>4
  <2> HIDE DEF b
  <2>2. Cardinality(Part(R, 1, b)) = Cardinality(Part(R, 1, p - 1)) + Cardinality(Part(R, p, b))
        /\ Cardinality(Part(R, p, b)) \in Nat
    BY <2>1, PartSplit
  <2> DEFINE f == Cardinality(Part(R, p, b))
             g == Cardinality(Part(R, 1, b))
  <2>3. j = i + f /\ g = d + f /\ f \in Nat
    BY <2>2, <1>4 DEF b
  <2> HIDE DEF f, g, d
  <2>4. j = u + g
    BY <2>3, <1>2
  <2> QED BY <2>4 DEF g, b
<1>7. ASSUME NEW h \in 1..Len(R), h < r PROVE R[h][2] <= j
  <2>1. CASE h < p
    <3> DEFINE f == R[h][2]
    <3>1. f <= w /\ f \in Nat /\ w < j /\ j \in Nat
      BY <2>1, <1>1, <1>5
    <3> HIDE DEF f
    <3>2. f <= j
      BY <3>1
    <3> QED BY <3>2 DEF f
  <2>2. CASE ~ (h < p)
    <3>1. h \in p..Len(R)
      BY <2>2, <1>1
    <3> QED BY <3>1, <1>4, <1>7
  <2> QED BY <2>1, <2>2
<1>8. ASSUME NEW h \in 1..Len(R), r <= h PROVE j < R[h][1]
  <2>1. r \in 1..Len(R) /\ j < R[r][1] /\ R[r][1] \in Nat
    BY <1>1, <1>4, <1>8
  <2>2. CASE r = h
    BY <2>1, <2>2
  <2>3. CASE r # h
    <3>1. r < h
      BY <2>1, <2>3, <1>8, <1>1
    <3> DEFINE a == R[r][1]
               b == R[r][2]
               c == R[h][1]
    <3>2. a \in Nat /\ b \in Nat /\ c \in Nat /\ a < b /\ b < c /\ j < a
      BY <3>1, <2>1, <1>1
    <3> HIDE DEF a, b, c
    <3>3. j < c
      BY <3>2, <1>5
    <3> QED BY <3>3 DEF c
  <2> QED BY <2>2, <2>3
<1>9. j \notin S
  <2>1. ASSUME j \in S PROVE FALSE
    <3>1. In(R, j)
      BY <2>1, <1>5, InOf
    <3>2. PICK h \in 1..Len(R) : R[h][1] <= j /\ j < R[h][2]
      BY <3>1 DEF In
    <3>3. R[h][1] \in Nat /\ R[h][2] \in Nat /\ h \in Int /\ r \in Int
      BY <1>1, <1>4
    <3>4. CASE h < r
      BY <3>2, <3>3, <3>4, <1>5, <1>7
    <3>5. CASE r <= h
      BY <3>2, <3>3, <3>5, <1>5, <1>8
    <3> QED BY <3>3, <3>4, <3>5
  <2> QED BY <2>1
<1>10. A = Below(S, j)
  <2>1. r \in 1..(Len(R) + 1)
    BY <1>1, <1>4
  <2>2. r <= Len(R) => j <= R[r][1]
    <3>1. r <= Len(R) => r \in 1..Len(R)
      BY <2>1
    <3> DEFINE f == R[r][1]
    <3>2. r <= Len(R) => f \in Nat /\ j < f
      BY <3>1, <1>1, <1>4
    <3> HIDE DEF f
    <3>3. r <= Len(R) => j <= f
      BY <3>2, <1>5
    <3> QED BY <3>3 DEF f
  <2>3. A = {x \in Indexes(R) : x < j}
    BY <2>1, <2>2, <1>5, <1>7, PartBelow
  <2> QED BY <2>3 DEF Below
<1>11. S \in SUBSET Nat /\ IsFiniteSet(S)
  BY IndexesFinite
<1>12. j = ShiftedBy(S, u)
  <2> HIDE DEF S
  <2>1. j = u + Cardinality(Below(S, j))
    BY <1>6, <1>10
  <2> QED BY <2>1, <1>5, <1>9, <1>11, ShiftedByIs
<1>13. NextShift(R, p, u, w, z)
  <2>1. /\ z[1] \in p..(Len(R) + 1) /\ z[2] \in Nat /\ w < z[2] /\ z[2] \notin S
        /\ z[2] = u + Cardinality(A) /\ z[2] = ShiftedBy(S, u)
        /\ \A h \in 1..Len(R) : h < z[1] => R[h][2] <= z[2]
        /\ z[1] <= Len(R) => z[2] < R[z[1]][1]
    BY <1>4, <1>5, <1>6, <1>7, <1>9, <1>12 DEF r, j
  <2> QED BY <2>1 DEF NextShift, A, S, r
<1> QED BY <1>13 DEF z, i, d

\* The builder is handed the ranges of the set from p up to r, in order.
LEMMA RowsHandedOn ==
    ASSUME NEW R \in Sets, NEW p \in 1..(Len(R) + 1), NEW b \in (p - 1)..Len(R), NEW out \in Sets, NEW w \in Int,
           \A y \in Indexes(out) : y <= w, p <= Len(R) => w < R[p][1]
    PROVE  LET rows == AsIndexes(SubSeq(R, p, b))
               T == FoldLeft(PushBack, out, rows)
           IN /\ T \in Sets /\ Indexes(T) = Indexes(out) \cup Part(R, p, b)
              /\ Len(rows) = Cardinality(Part(R, p, b))
<1> DEFINE s == SubSeq(R, p, b)
           rows == AsIndexes(s)
           A == Part(R, p, b)
<1>1. /\ Len(R) \in Nat
      /\ \A h \in 1..Len(R) : R[h][1] \in Nat /\ R[h][2] \in Nat /\ R[h][1] < R[h][2]
      /\ \A h, g \in 1..Len(R) : h < g => R[h][2] < R[g][1]
  BY SetFacts, RangesInOrder
<1>2. s \in Sets /\ \A x : x \in A <=> x \in Nat /\ \E q \in p..b : R[q][1] <= x /\ x < R[q][2]
  BY PartFacts
<1>3. A = Indexes(s)
  BY DEF Part
<1> HIDE DEF s, A
<1>4. rows \in Increasing /\ Entries(rows) = A /\ Len(rows) = Cardinality(A)
  BY <1>2, <1>3, AsIndexesFacts
<1>5. ASSUME NEW z \in A PROVE w < z
  <2>1. z \in Nat /\ \E q \in p..b : R[q][1] <= z /\ z < R[q][2]
    BY <1>2
  <2>2. PICK q \in p..b : R[q][1] <= z
    BY <2>1
  <2>3. p \in 1..Len(R) /\ q \in 1..Len(R) /\ p <= q /\ p <= Len(R)
    BY <1>1
  <2> DEFINE f == R[p][1]
             g == R[q][1]
             l == R[p][2]
  <2>4. f \in Nat /\ g \in Nat /\ l \in Nat /\ w < f /\ g <= z
    BY <2>2, <2>3, <1>1
  <2>5. p = q \/ (f < l /\ l < g)
    <3>1. p = q \/ p < q
      BY <2>3, <1>1
    <3>2. p < q => f < l /\ l < g
      BY <2>3, <1>1
    <3> QED BY <3>1, <3>2
  <2>6. p = q => f = g
    OBVIOUS
  <2> HIDE DEF f, g, l
  <2>7. f <= g
    BY <2>4, <2>5, <2>6
  <2> QED BY <2>1, <2>4, <2>7
<1>6. ASSUME NEW x \in Indexes(out), NEW k \in 1..Len(rows) PROVE x < rows[k]
  <2>1. rows[k] \in A
    BY <1>4 DEF Entries
  <2>2. x <= w /\ x \in Nat /\ rows[k] \in Nat /\ w < rows[k]
    BY <2>1, <1>2, <1>5, IndexesFinite
  <2> QED BY <2>2
<1> HIDE DEF rows
<1>7. FoldLeft(PushBack, out, rows) \in Sets
      /\ Indexes(FoldLeft(PushBack, out, rows)) = Indexes(out) \cup Entries(rows)
  BY <1>4, <1>6, PushedFacts
<1> QED BY <1>4, <1>7 DEF rows, s, A

LEMMA AddTurn ==
    ASSUME NEW R \in Sets, NEW by \in Sets, NEW v \in Increasing, NEW k \in 1..Len(v),
           NEW x \in Adding(R, by, v, k - 1)
    PROVE  AddShiftedValue(R, by, x, v[k]) \in Adding(R, by, v, k)
<1> DEFINE e == v[k]
           c == Passed(v, k - 1)
           S == Indexes(R)
           B == Indexes(by)
           p == x.p
           q == x.q
           oldShift == x.oldShift
           out == x.out
           N == Begun(by, e)
           passedBy == SubSeq(by, q, N)
           shift == x.newShift + Cardinality(Indexes(passedBy))
           skip == IF passedBy = <<>> THEN x.skip ELSE Last(passedBy)[2]
           K(j) == Outside(v, B, j)
           y == AddShiftedValue(R, by, x, v[k])
<1>1. /\ Len(v) \in Nat /\ k \in Nat /\ k > 0 /\ \A h \in 1..Len(v) : v[h] \in Nat
      /\ \A h, g \in 1..Len(v) : h < g => v[h] < v[g]
      /\ B \in SUBSET Nat /\ Len(R) \in Nat /\ Len(by) \in Nat
  <2>1. /\ Len(v) \in Nat /\ \A h \in 1..Len(v) : v[h] \in Nat
        /\ \A h, g \in 1..Len(v) : h < g => v[h] < v[g]
    BY IncreasingFacts
  <2>2. B \in SUBSET Nat
    BY IndexesFinite
  <2>3. Len(R) \in Nat /\ Len(by) \in Nat
    BY SetFacts
  <2>4. k \in Nat /\ k > 0
    BY <2>1
  <2> HIDE DEF B
  <2> QED BY <2>1, <2>2, <2>3, <2>4
<1>2. e \in Nat /\ c \in Int /\ c < e /\ Passed(v, k) = e
  <2>1. CASE k = 1
    BY <1>1, <2>1 DEF Passed
  <2>2. CASE k # 1
    <3>1. k - 1 \in 1..Len(v) /\ k - 1 < k /\ k - 1 # 0
      BY <1>1, <2>2
    <3> QED BY <3>1, <1>1 DEF Passed
  <2> QED BY <2>1, <2>2
<1>3. /\ p \in 1..(Len(R) + 1) /\ q \in 1..(Len(by) + 1) /\ oldShift \in Nat /\ x.newShift \in Nat
      /\ x.skip \in Nat /\ out \in Sets
      /\ x = [p |-> p, q |-> q, oldShift |-> oldShift, newShift |-> x.newShift, skip |-> x.skip, out |-> out]
  BY DEF Adding
<1>4. /\ oldShift = Cardinality(Part(R, 1, p - 1))
      /\ x.newShift = Cardinality(Part(by, 1, q - 1))
      /\ q > 1 => x.skip = by[q - 1][2]
      /\ q = 1 => x.skip = 0
      /\ \A h \in 1..Len(by) : h < q <=> by[h][1] <= c
      /\ Indexes(out) = Part(R, 1, p - 1) \cup {ShiftedBy(S, Unshifted(B, v[h])) : h \in K(k - 1)}
  BY DEF Adding
<1>5. PICK ul \in {-1} \cup {Unshifted(B, v[h]) : h \in K(k - 1)} :
          /\ \A h \in 1..Len(R) : h < p => R[h][2] <= ul + oldShift
          /\ p <= Len(R) => ul + oldShift < R[p][1]
          /\ \A z \in Indexes(out) : z <= ul + oldShift
  BY DEF Adding
<1> HIDE DEF N
<1>6. /\ N \in (q - 1)..Len(by) /\ Len(passedBy) = N - q + 1
      /\ Cardinality(Part(by, 1, q - 1)) + Cardinality(Indexes(passedBy)) = Cardinality(Part(by, 1, N))
      /\ passedBy = <<>> <=> N = q - 1
      /\ passedBy # <<>> => Last(passedBy)[2] = by[N][2]
  <2> HIDE DEF q, e, c
  <2> QED BY <1>2, <1>3, <1>4, PassedRanges, ZenonT(40) DEF N
<1>7. \A h \in 1..Len(by) : h <= N <=> by[h][1] <= e
  <2> HIDE DEF e
  <2> QED BY <1>2, BegunFacts DEF N, Begun
<1>8. N \in 0..Len(by) /\ N + 1 \in 1..(Len(by) + 1) /\ q + Len(passedBy) = N + 1
  <2> DEFINE l == Len(passedBy)
  <2>1. q \in Int /\ 1 <= q /\ N \in Int /\ q - 1 <= N /\ N <= Len(by) /\ Len(by) \in Nat
    BY <1>1, <1>3, <1>6
  <2>2. l = N - q + 1
    BY <1>6
  <2> HIDE DEF l, q
  <2>3. N \in 0..Len(by) /\ N + 1 \in 1..(Len(by) + 1) /\ q + l = N + 1
    BY <2>1, <2>2
  <2> QED BY <2>3 DEF l
<1>9. shift = Cardinality(Part(by, 1, N))
  BY <1>4, <1>6
<1>10. (N = 0 => skip = 0) /\ (N > 0 => skip = by[N][2])
  <2>1. CASE passedBy = <<>>
    <3>1. N = q - 1 /\ skip = x.skip /\ q \in Int
      BY <2>1, <1>3, <1>6
    <3>2. (N = 0 => q = 1) /\ (N > 0 => q > 1)
      BY <3>1
    <3> QED BY <3>1, <3>2, <1>4
  <2>2. CASE passedBy # <<>>
    <3>1. N # q - 1 /\ skip = by[N][2] /\ q \in Int /\ q >= 1 /\ N >= q - 1 /\ N \in Int
      BY <2>2, <1>1, <1>3, <1>6, <1>8
    <3>2. N > 0
      BY <3>1
    <3> QED BY <3>1, <3>2
  <2> QED BY <2>1, <2>2
<1>11. skip \in Nat /\ shift \in Nat
  <2>1. N > 0 => by[N][2] \in Nat
    BY <1>8, SetFacts
  <2>2. skip \in Nat
    BY <2>1, <1>8, <1>10
  <2>3. N \in (1 - 1)..Len(by) /\ 1 \in 1..(Len(by) + 1)
    BY <1>1, <1>8
  <2>4. Cardinality(Part(by, 1, N)) \in Nat
    BY <2>3, PartFacts
  <2> QED BY <2>2, <2>4, <1>9
<1>12. e \in B <=> e < skip
  <2>1. e \in B <=> N > 0 /\ e < by[N][2]
    <3> HIDE DEF e
    <3> QED BY <1>2, BegunMember DEF N
  <2>2. N = 0 \/ N > 0
    BY <1>8
  <2>3. ~ (e < 0)
    BY <1>2
  <2> QED BY <2>1, <2>2, <2>3, <1>10
<1>13. \A h \in 1..Len(by) : h < N + 1 <=> by[h][1] <= Passed(v, k)
  <2>1. \A h \in 1..Len(by) : h < N + 1 <=> h <= N
    BY <1>8
  <2> QED BY <2>1, <1>2, <1>7
<1>14. K(k) = K(k - 1) \cup (IF e \in B THEN {} ELSE {k})
  <2>1. 1..k = (1..(k - 1)) \cup {k}
    BY <1>1
  <2> QED BY <2>1 DEF Outside
<1> DEFINE new == [p |-> p, q |-> N + 1, oldShift |-> oldShift, newShift |-> shift, skip |-> skip, out |-> out]
           old == ShiftPast(R, p, e - shift + oldShift)
           rows == AsIndexes(SubSeq(R, p, old[1] - 1))
           at == e - shift + oldShift + Len(rows)
           added == [p |-> old[1], q |-> N + 1, oldShift |-> oldShift + Len(rows), newShift |-> shift, skip |-> skip,
                     out |-> PushBack(FoldLeft(PushBack, out, rows), at)]
<1>15. y = IF e < skip THEN new ELSE added
  <2> DEFINE l == Len(passedBy)
             by1 == [x EXCEPT !.q = @ + l, !.newShift = shift, !.skip = skip]
  <2>1. by1 = new
    <3> DEFINE ns == x.newShift
               sk == x.skip
               q1 == N + 1
    <3>1. x = [p |-> p, q |-> q, oldShift |-> oldShift, newShift |-> ns, skip |-> sk, out |-> out]
      BY <1>3
    <3>2. q + l = q1
      BY <1>8
    <3> HIDE DEF shift, skip, l, p, q, oldShift, out, ns, sk, q1
    <3>3. by1 = [p |-> p, q |-> q + l, oldShift |-> oldShift, newShift |-> shift, skip |-> skip, out |-> out]
      <4> DEFINE a == [x EXCEPT !.q = x.q + l]
                 b == [a EXCEPT !.newShift = shift]
                 r == [b EXCEPT !.skip = skip]
                 qq == q + l
      <4>1. by1 = r
        OBVIOUS
      <4>2. x.q + l = qq
        BY <3>1
      <4> HIDE DEF qq
      <4>3. a = [p |-> p, q |-> qq, oldShift |-> oldShift, newShift |-> ns, skip |-> sk, out |-> out]
        BY <3>1, <4>2
      <4> HIDE DEF a
      <4>4. b = [p |-> p, q |-> qq, oldShift |-> oldShift, newShift |-> shift, skip |-> sk, out |-> out]
        BY <4>3
      <4> HIDE DEF b
      <4>5. r = [p |-> p, q |-> qq, oldShift |-> oldShift, newShift |-> shift, skip |-> skip, out |-> out]
        BY <4>4
      <4> HIDE DEF by1, r
      <4> QED BY <4>1, <4>5 DEF qq
    <3> QED BY <3>2, <3>3 DEF q1
  <2> DEFINE pushed(T) == PushBack(FoldLeft(PushBack, T, rows), at)
             z == [by1 EXCEPT !.p = old[1], !.oldShift = @ + Len(rows), !.out = pushed(@)]
  <2>2. y = IF e < skip THEN by1 ELSE z
    BY DEF AddShiftedValue, N, Begun
  <2>3. z = added
    <3> DEFINE w == pushed(out)
               n == Len(rows)
               p2 == old[1]
               q1 == N + 1
    <3>1. by1 = [p |-> p, q |-> q1, oldShift |-> oldShift, newShift |-> shift, skip |-> skip, out |-> out]
      BY <2>1
    <3> HIDE DEF by1
    <3>2. by1.out = out
      BY <3>1
    <3>3. z = [by1 EXCEPT !.p = p2, !.oldShift = @ + n, !.out = pushed(by1.out)]
      BY <3>1
    <3>4. [by1 EXCEPT !.p = p2, !.oldShift = @ + n, !.out = w] = added
      <4> HIDE DEF w, n, p2, q1, shift, skip, oldShift, p, out
      <4>1. [by1 EXCEPT !.p = p2, !.oldShift = @ + n, !.out = w]
            = [p |-> p2, q |-> q1, oldShift |-> oldShift + n, newShift |-> shift, skip |-> skip, out |-> w]
        <5> DEFINE a == [by1 EXCEPT !.p = p2]
                   b == [a EXCEPT !.oldShift = a.oldShift + n]
                   r == [b EXCEPT !.out = w]
                   s == [by1 EXCEPT !.p = p2, !.oldShift = @ + n, !.out = w]
                   o == oldShift + n
        <5>1. s = r
          OBVIOUS
        <5>2. a = [p |-> p2, q |-> q1, oldShift |-> oldShift, newShift |-> shift, skip |-> skip, out |-> out]
          BY <3>1
        <5> HIDE DEF a
        <5>3. a.oldShift + n = o
          BY <5>2
        <5> HIDE DEF o
        <5>4. b = [p |-> p2, q |-> q1, oldShift |-> o, newShift |-> shift, skip |-> skip, out |-> out]
          BY <5>2, <5>3
        <5> HIDE DEF b
        <5>5. r = [p |-> p2, q |-> q1, oldShift |-> o, newShift |-> shift, skip |-> skip, out |-> w]
          BY <5>4
        <5> HIDE DEF r, s
        <5>6. s = [p |-> p2, q |-> q1, oldShift |-> o, newShift |-> shift, skip |-> skip, out |-> w]
          BY <5>1, <5>5
        <5> QED BY <5>6 DEF s, o
      <4> QED BY <4>1 DEF w, n, p2, q1
    <3> HIDE DEF pushed
    <3> QED BY <3>2, <3>3, <3>4
  <2> HIDE DEF by1, y, new, added, skip, z
  <2> QED BY <2>1, <2>2, <2>3
<1> DEFINE ToAdd(j) == {ShiftedBy(S, Unshifted(B, v[h])) : h \in K(j)}
<1>16. shift = Cardinality(Part(by, 1, (N + 1) - 1)) /\ (N + 1 > 1 => skip = by[(N + 1) - 1][2])
       /\ (N + 1 = 1 => skip = 0)
  <2>1. (N + 1) - 1 = N /\ (N + 1 > 1 => N > 0) /\ (N + 1 = 1 => N = 0)
    BY <1>8
  <2> HIDE DEF skip, shift
  <2> QED BY <2>1, <1>9, <1>10
<1>17. CASE e \in B
  <2>1. y = new /\ K(k) = K(k - 1)
    BY <1>12, <1>14, <1>15, <1>17
  <2>2. /\ new.p = p /\ new.q = N + 1 /\ new.oldShift = oldShift /\ new.newShift = shift /\ new.skip = skip
        /\ new.out = out
        /\ new \in [p : 1..(Len(R) + 1), q : 1..(Len(by) + 1), oldShift : Nat, newShift : Nat, skip : Nat, out : Sets]
    <3> HIDE DEF p, oldShift, shift, skip, out
    <3> QED BY <1>3, <1>8, <1>11
  <2> HIDE DEF new, y, p, oldShift, shift, skip, out, K
  <2>3. ul \in {-1} \cup {Unshifted(B, v[h]) : h \in K(k)}
    BY <2>1
  <2>4. /\ \A h \in 1..Len(R) : h < new.p => R[h][2] <= ul + new.oldShift
        /\ new.p <= Len(R) => ul + new.oldShift < R[new.p][1]
        /\ \A z \in Indexes(new.out) : z <= ul + new.oldShift
    BY <2>2, <1>5
  <2>5. /\ new.oldShift = Cardinality(Part(R, 1, new.p - 1))
        /\ new.newShift = Cardinality(Part(by, 1, new.q - 1))
        /\ new.q > 1 => new.skip = by[new.q - 1][2]
        /\ new.q = 1 => new.skip = 0
        /\ \A h \in 1..Len(by) : h < new.q <=> by[h][1] <= Passed(v, k)
    BY <2>2, <1>4, <1>13, <1>16
  <2>6. Indexes(new.out) = Part(R, 1, new.p - 1) \cup ToAdd(k)
    BY <2>1, <2>2, <1>4
  <2>7. new \in Adding(R, by, v, k)
    BY <2>2, <2>3, <2>4, <2>5, <2>6 DEF Adding, K
  <2> QED BY <2>1, <2>7 DEF y
<1>18. CASE e \notin B
  <2> DEFINE u == e - shift
             w == ul + oldShift
             r == old[1]
             j == old[2]
             rows0 == FoldLeft(PushBack, out, rows)
  <2>1. y = added /\ K(k) = K(k - 1) \cup {k}
    BY <1>12, <1>14, <1>15, <1>18
  <2>2. u = Unshifted(B, e) /\ u \in Nat
    <3>1. shift = Cardinality(Below(B, e))
      <4> HIDE DEF e
      <4>1. Cardinality(Part(by, 1, N)) = Cardinality(Below(B, e))
        BY <1>2, <1>18, BegunMember DEF N
      <4> QED BY <4>1, <1>9
    <3>2. u = Unshifted(B, e)
      BY <3>1 DEF Unshifted
    <3>3. Unshifted(B, e) \in Nat
      <4> HIDE DEF e, B
      <4> QED BY <1>1, <1>2, UnshiftedFacts
    <3> QED BY <3>2, <3>3
  <2>3. ul \in Int /\ ul < u
    <3>1. CASE ul = -1
      <4> HIDE DEF u
      <4> QED BY <3>1, <2>2
    <3>2. CASE ul # -1
      <4>1. PICK h \in K(k - 1) : ul = Unshifted(B, v[h])
        BY <3>2, <1>5
      <4>2. h \in 1..(k - 1) /\ v[h] \notin B
        BY DEF Outside
      <4>3. h \in 1..Len(v) /\ h < k
        BY <4>2, <1>1
      <4> DEFINE f == v[h]
      <4>4. f \in Nat /\ f < e /\ f \notin B
        BY <4>2, <4>3, <1>1
      <4> HIDE DEF f, e, B, u
      <4>5. f - Cardinality(Below(B, f)) < e - Cardinality(Below(B, e))
        BY <4>4, <1>1, <1>2, UnshiftGrows
      <4>6. Unshifted(B, f) \in Nat
        BY <4>4, <1>1, UnshiftedFacts
      <4> QED BY <4>1, <4>5, <4>6, <2>2 DEF Unshifted, f
    <3> QED BY <3>1, <3>2
  <2>4. w \in Int /\ w < u + oldShift /\ u + oldShift = e - shift + oldShift
    <3> HIDE DEF oldShift, shift, e
    <3>1. oldShift \in Nat
      BY <1>3
    <3>2. u \in Int /\ u = e - shift
      BY <2>2
    <3> HIDE DEF u
    <3> QED BY <2>3, <3>1, <3>2
  <2>5. old = ShiftPast(R, p, u + Cardinality(Part(R, 1, p - 1)))
    BY <1>4, <2>4
  <2> HIDE DEF old, u, w, p, oldShift, out
  <2>6. /\ r \in p..(Len(R) + 1) /\ j \in Nat /\ w < j
        /\ j = u + Cardinality(Part(R, 1, r - 1)) /\ j = ShiftedBy(S, u)
        /\ \A h \in 1..Len(R) : h < r => R[h][2] <= j
        /\ r <= Len(R) => j < R[r][1]
    <3>1. \A h \in 1..Len(R) : h < p => R[h][2] <= w
      BY <1>5 DEF w
    <3>2. w < u + Cardinality(Part(R, 1, p - 1))
      BY <2>4, <1>4
    <3>3. p \in 1..(Len(R) + 1) /\ u \in Nat /\ w \in Int
      BY <1>3, <2>2, <2>4
    <3>4. NextShift(R, p, u, w, ShiftPast(R, p, u + Cardinality(Part(R, 1, p - 1))))
      BY <3>1, <3>2, <3>3, NextShifted
    <3>5. NextShift(R, p, u, w, old)
      BY <3>4, <2>5
    <3> QED BY <3>5 DEF NextShift
  <2> HIDE DEF r, j
  <2> DEFINE b == r - 1
             A == Part(R, p, b)
  <2>7. b \in (p - 1)..Len(R) /\ r \in 1..(Len(R) + 1)
    BY <2>6, <1>1, <1>3
  <2>8. /\ Part(R, 1, b) = Part(R, 1, p - 1) \cup A
        /\ Cardinality(Part(R, 1, b)) = oldShift + Cardinality(A)
        /\ Cardinality(A) \in Nat /\ A \in SUBSET Indexes(R) /\ Cardinality(Part(R, 1, b)) \in Nat
    <3> HIDE DEF b
    <3> QED BY <2>7, <1>3, <1>4, PartSplit
  <2>9. rows0 \in Sets /\ Indexes(rows0) = Indexes(out) \cup A /\ Len(rows) = Cardinality(A)
    <3>1. /\ \A z \in Indexes(out) : z <= w
          /\ p <= Len(R) => w < R[p][1]
      BY <1>5 DEF w
    <3> HIDE DEF b
    <3>2. /\ FoldLeft(PushBack, out, AsIndexes(SubSeq(R, p, b))) \in Sets
          /\ Indexes(FoldLeft(PushBack, out, AsIndexes(SubSeq(R, p, b)))) = Indexes(out) \cup A
          /\ Len(AsIndexes(SubSeq(R, p, b))) = Cardinality(A)
      BY <3>1, <1>3, <2>4, <2>7, RowsHandedOn
    <3> QED BY <3>2 DEF b, r
  <2> HIDE DEF rows, rows0, A
  <2>10. at = j /\ oldShift + Len(rows) = Cardinality(Part(R, 1, b))
    <3> DEFINE l == Len(rows)
               f == Cardinality(A)
               g == Cardinality(Part(R, 1, b))
    <3>1. l = f /\ g = oldShift + f /\ f \in Nat /\ j = u + g /\ u \in Nat /\ oldShift \in Nat
      BY <2>2, <2>6, <2>8, <2>9, <1>3
    <3>2. at = e - shift + oldShift + l /\ u + oldShift = e - shift + oldShift
      BY <2>4
    <3> HIDE DEF l, f, g, at, e, shift
    <3>3. e \in Nat /\ shift \in Nat
      BY <1>2, <1>11
    <3>4. at = j /\ oldShift + l = g
      BY <3>1, <3>2, <3>3
    <3> QED BY <3>4 DEF l, g
  <2>11. ASSUME NEW z \in Indexes(rows0) PROVE z < j
    <3>1. CASE z \in Indexes(out)
      <4>1. z <= w /\ z \in Nat
        BY <3>1, <1>3, <1>5, IndexesFinite DEF w
      <4> QED BY <4>1, <2>4, <2>6
    <3>2. CASE z \in A
      <4>1. PICK h \in p..b : R[h][1] <= z /\ z < R[h][2]
        BY <3>2, <1>3, <2>7, PartFacts DEF A
      <4>2. h \in 1..Len(R) /\ h < r
        <5>1. p \in Int /\ 1 <= p /\ r \in Int /\ r <= Len(R) + 1 /\ Len(R) \in Nat
          BY <2>7, <1>1, <1>3
        <5>2. h \in Int /\ p <= h /\ h <= r - 1
          BY <5>1
        <5> QED BY <5>1, <5>2
      <4> DEFINE f == R[h][2]
      <4>3. f <= j /\ f \in Nat
        BY <4>2, <2>6, SetFacts
      <4>4. z \in Nat
        BY <3>2, <2>8, IndexesFinite
      <4>5. z < f
        BY <4>1
      <4> HIDE DEF f
      <4> QED BY <4>3, <4>4, <4>5, <2>6
    <3> QED BY <3>1, <3>2, <2>9
  <2> DEFINE last == PushBack(rows0, j)
  <2>12. last \in Sets /\ Indexes(last) = Indexes(rows0) \cup {j}
    BY <2>6, <2>9, <2>11, PushBackFacts
  <2> HIDE DEF last
  <2>13. /\ y.p = r /\ y.q = N + 1 /\ y.oldShift = Cardinality(Part(R, 1, b)) /\ y.newShift = shift /\ y.skip = skip
         /\ y.out = last
         /\ y \in [p : 1..(Len(R) + 1), q : 1..(Len(by) + 1), oldShift : Nat, newShift : Nat, skip : Nat, out : Sets]
    <3> DEFINE g == Cardinality(Part(R, 1, b))
    <3>1. y = [p |-> r, q |-> N + 1, oldShift |-> g, newShift |-> shift, skip |-> skip, out |-> last]
      BY <2>1, <2>10 DEF r, last, rows0
    <3>2. g \in Nat
      BY <2>8
    <3> HIDE DEF g, y, shift, skip
    <3>3. /\ y.p = r /\ y.q = N + 1 /\ y.oldShift = g /\ y.newShift = shift /\ y.skip = skip /\ y.out = last
          /\ y \in [p : 1..(Len(R) + 1), q : 1..(Len(by) + 1), oldShift : Nat, newShift : Nat, skip : Nat, out : Sets]
      BY <3>1, <3>2, <1>8, <1>11, <2>7, <2>12
    <3> QED BY <3>3 DEF g
  <2> HIDE DEF y, added, new, K, shift, skip
  <2>14. u \in {-1} \cup {Unshifted(B, v[h]) : h \in K(k)}
    BY <2>1, <2>2
  <2>15. u + y.oldShift = j
    BY <2>6, <2>13 DEF b
  <2>16. /\ \A h \in 1..Len(R) : h < y.p => R[h][2] <= u + y.oldShift
         /\ y.p <= Len(R) => u + y.oldShift < R[y.p][1]
         /\ \A z \in Indexes(y.out) : z <= u + y.oldShift
    <3>1. ASSUME NEW z \in Indexes(last) PROVE z <= j
      <4>1. z = j \/ z < j
        BY <2>11, <2>12
      <4>2. z \in Nat /\ j \in Nat
        BY <2>6, <2>12, IndexesFinite
      <4> QED BY <4>1, <4>2
    <3> QED BY <3>1, <2>6, <2>13, <2>15
  <2>17. /\ y.oldShift = Cardinality(Part(R, 1, y.p - 1))
         /\ y.newShift = Cardinality(Part(by, 1, y.q - 1))
         /\ y.q > 1 => y.skip = by[y.q - 1][2]
         /\ y.q = 1 => y.skip = 0
         /\ \A h \in 1..Len(by) : h < y.q <=> by[h][1] <= Passed(v, k)
    BY <2>13, <1>13, <1>16
  <2>18. Indexes(y.out) = Part(R, 1, y.p - 1) \cup ToAdd(k)
    <3>1. ToAdd(k) = ToAdd(k - 1) \cup {j}
      BY <2>1, <2>2, <2>6
    <3>2. Indexes(y.out) = Indexes(out) \cup A \cup {j}
      BY <2>9, <2>12, <2>13
    <3>3. Indexes(out) = Part(R, 1, p - 1) \cup ToAdd(k - 1)
      BY <1>4
    <3> HIDE DEF ToAdd
    <3> QED BY <3>1, <3>2, <3>3, <2>8, <2>13 DEF b
  <2>19. y \in Adding(R, by, v, k)
    BY <2>13, <2>14, <2>16, <2>17, <2>18 DEF Adding, K
  <2> QED BY <2>19 DEF y
<1> QED BY <1>17, <1>18

\* c: the set and shifted_by
AddShiftedOp(c, x, e) == AddShiftedValue(c[1], c[2], x, e)
AddShiftedFold == INSTANCE FoldTheorems WITH op <- AddShiftedOp

\* add_shifted_by: the values that are not in shifted_by, moved back by it and then on by the
\* set, are added.
THEOREM AddShiftedByAdds ==
    ASSUME NEW R \in Sets, NEW by \in Sets, NEW P \in Sets
    PROVE  /\ AddShiftedBy(R, by, P) \in Sets
           /\ Indexes(AddShiftedBy(R, by, P)) = Indexes(R)
                  \cup {ShiftedBy(Indexes(R), Unshifted(Indexes(by), i)) : i \in Indexes(P) \ Indexes(by)}
<1> DEFINE v == AsIndexes(P)
           n == Len(v)
           S == Indexes(R)
           B == Indexes(by)
           c == <<R, by>>
           start == [p |-> 1, q |-> 1, oldShift |-> 0, newShift |-> 0, skip |-> 0, out |-> <<>>]
           Inv == [k \in 0..n |-> Adding(R, by, v, k)]
           x == FoldLeft(LAMBDA b, index : AddShiftedValue(R, by, b, index), start, v)
           ToAdd == {ShiftedBy(S, Unshifted(B, i)) : i \in Indexes(P) \ B}
<1>1. CASE P = <<>>
  <2>1. Indexes(P) = {} /\ AddShiftedBy(R, by, P) = R
    BY <1>1, EmptySet DEF AddShiftedBy
  <2>2. ToAdd = {}
    BY <2>1
  <2> QED BY <2>1, <2>2
<1>2. CASE P # <<>>
  <2>1. v \in Increasing /\ Entries(v) = Indexes(P)
    BY AsIndexesFacts
  <2> HIDE DEF v
  <2>2. n \in Nat /\ DOMAIN v = 1..n /\ Len(R) \in Nat /\ Len(by) \in Nat
    BY <2>1, IncreasingFacts, SetFacts
  <2>3. /\ \A h \in 1..Len(R) : R[h][1] \in Nat
        /\ \A h \in 1..Len(by) : by[h][1] \in Nat
    BY SetFacts
  <2>4. Cardinality(Part(R, 1, 0)) = 0 /\ Cardinality(Part(by, 1, 0)) = 0 /\ Part(R, 1, 0) = {}
    <3>1. ASSUME NEW Q \in Sets PROVE Part(Q, 1, 0) = {}
      <4> DEFINE z == 0
      <4>1. z \in (1 - 1)..Len(Q) /\ 1 \in 1..(Len(Q) + 1) /\ 1..z = {}
        BY SetFacts
      <4> HIDE DEF z
      <4>2. \A y : y \in Part(Q, 1, z) <=> y \in Nat /\ \E q \in 1..z : Q[q][1] <= y /\ y < Q[q][2]
        BY <4>1, PartFacts
      <4>3. Part(Q, 1, z) = {}
        BY <4>1, <4>2
      <4> QED BY <4>3 DEF z
    <3> QED BY <3>1, FS_EmptySet
  <2>5. start \in Inv[0]
    <3> DEFINE E == <<>>
               s == [p |-> 1, q |-> 1, oldShift |-> 0, newShift |-> 0, skip |-> 0, out |-> E]
    <3>1. E \in Sets /\ Indexes(E) = {}
      BY EmptySet
    <3>2. start = s
      OBVIOUS
    <3> HIDE DEF E, start
    <3>3. /\ s.p = 1 /\ s.q = 1 /\ s.oldShift = 0 /\ s.newShift = 0 /\ s.skip = 0 /\ s.out = E
          /\ s \in [p : 1..(Len(R) + 1), q : 1..(Len(by) + 1), oldShift : Nat, newShift : Nat, skip : Nat, out : Sets]
      BY <3>1, <2>2
    <3> HIDE DEF s
    <3>4. Passed(v, 0) = -1
      BY DEF Passed
    <3>5. Outside(v, B, 0) = {}
      BY DEF Outside
    <3>6. /\ s.oldShift = Cardinality(Part(R, 1, s.p - 1))
          /\ s.newShift = Cardinality(Part(by, 1, s.q - 1))
          /\ s.q > 1 => s.skip = by[s.q - 1][2]
          /\ s.q = 1 => s.skip = 0
      BY <3>3, <2>4
    <3>7. \A h \in 1..Len(by) : h < s.q <=> by[h][1] <= Passed(v, 0)
      <4>1. ASSUME NEW h \in 1..Len(by) PROVE ~ (h < 1) /\ ~ (by[h][1] <= -1)
        BY <2>2, <2>3
      <4> QED BY <4>1, <3>3, <3>4
    <3>8. \E u \in {-1} \cup {Unshifted(B, v[h]) : h \in Outside(v, B, 0)} :
              /\ \A h \in 1..Len(R) : h < s.p => R[h][2] <= u + s.oldShift
              /\ s.p <= Len(R) => u + s.oldShift < R[s.p][1]
              /\ \A y \in Indexes(s.out) : y <= u + s.oldShift
      <4> DEFINE u == -1
      <4>1. u + s.oldShift = -1
        BY <3>3
      <4>2. 1 <= Len(R) => -1 < R[1][1]
        BY <2>2, <2>3
      <4>3. \A h \in 1..Len(R) : ~ (h < 1)
        BY <2>2
      <4>4. u \in {-1} \cup {Unshifted(B, v[h]) : h \in Outside(v, B, 0)}
        OBVIOUS
      <4> HIDE DEF u
      <4> QED BY <4>1, <4>2, <4>3, <4>4, <3>1, <3>3
    <3>9. Indexes(s.out) = Part(R, 1, s.p - 1) \cup {ShiftedBy(S, Unshifted(B, v[h])) : h \in Outside(v, B, 0)}
      <4>1. {ShiftedBy(S, Unshifted(B, v[h])) : h \in Outside(v, B, 0)} = {}
        BY <3>5
      <4> QED BY <4>1, <3>1, <3>3, <2>4
    <3>10. s \in Adding(R, by, v, 0)
      BY <3>3, <3>6, <3>7, <3>8, <3>9 DEF Adding
    <3> QED BY <3>2, <3>10, <2>2
  <2>6. ASSUME NEW k \in 1..n, NEW y \in Inv[k - 1] PROVE AddShiftedOp(c, y, v[k]) \in Inv[k]
    <3>1. k \in 0..n /\ k - 1 \in 0..n
      BY <2>2
    <3>2. y \in Adding(R, by, v, k - 1)
      BY <3>1
    <3>3. AddShiftedValue(R, by, y, v[k]) \in Adding(R, by, v, k)
      BY <2>1, <3>2, AddTurn
    <3> QED BY <3>1, <3>3 DEF AddShiftedOp
  <2> HIDE DEF Inv, start
  <2>7. AddShiftedFold!Fold(c, start, v) \in Inv[n]
    BY <2>2, <2>5, <2>6, AddShiftedFold!FoldInvariant
  <2>8. AddShiftedFold!Fold(c, start, v) = x
    BY DEF AddShiftedOp, AddShiftedFold!Fold, FoldLeft, MapThenFoldSet, Max, AddShiftedFold!Greatest
  <2>9. x \in Adding(R, by, v, n)
    <3>1. n \in 0..n
      BY <2>2
    <3> HIDE DEF x
    <3> QED BY <3>1, <2>7, <2>8 DEF Inv
  <2> DEFINE p == x.p
             out == x.out
             b == Len(R)
  <2>10. AddShiftedBy(R, by, P) = FoldLeft(PushBack, out, AsIndexes(SubSeq(R, p, b)))
    BY <1>2 DEF AddShiftedBy, start, v
  <2> HIDE DEF x
  <2>11. /\ p \in 1..(Len(R) + 1) /\ out \in Sets /\ x.oldShift \in Nat
         /\ Indexes(out) = Part(R, 1, p - 1) \cup {ShiftedBy(S, Unshifted(B, v[h])) : h \in Outside(v, B, n)}
    BY <2>9 DEF Adding
  <2>12. PICK u \in {-1} \cup {Unshifted(B, v[h]) : h \in Outside(v, B, n)} :
             /\ p <= Len(R) => u + x.oldShift < R[p][1]
             /\ \A y \in Indexes(out) : y <= u + x.oldShift
    BY <2>9 DEF Adding
  <2> DEFINE w == u + x.oldShift
  <2>13. w \in Int
    <3>1. u \in Int
      <4>1. CASE u = -1
        BY <4>1
      <4>2. CASE u # -1
        <5>1. PICK h \in Outside(v, B, n) : u = Unshifted(B, v[h])
          BY <4>2, <2>12
        <5>2. v[h] \in Nat /\ B \in SUBSET Nat
          BY <2>1, IncreasingFacts, IndexesFinite DEF Outside
        <5> HIDE DEF B
        <5> QED BY <5>1, <5>2, UnshiftedFacts
      <4> QED BY <4>1, <4>2
    <3> QED BY <3>1, <2>11
  <2>14. b \in (p - 1)..Len(R)
    BY <2>2, <2>11
  <2> HIDE DEF w, p, out
  <2>15. /\ FoldLeft(PushBack, out, AsIndexes(SubSeq(R, p, b))) \in Sets
         /\ Indexes(FoldLeft(PushBack, out, AsIndexes(SubSeq(R, p, b)))) = Indexes(out) \cup Part(R, p, b)
    <3>1. /\ \A y \in Indexes(out) : y <= w
          /\ p <= Len(R) => w < R[p][1]
      BY <2>12 DEF w, p, out
    <3> HIDE DEF b
    <3> QED BY <3>1, <2>11, <2>13, <2>14, RowsHandedOn
  <2>16. Part(R, 1, p - 1) \cup Part(R, p, b) = S
    <3>1. Part(R, 1, b) = Part(R, 1, p - 1) \cup Part(R, p, b)
      <4> HIDE DEF b
      <4> QED BY <2>11, <2>14, PartSplit
    <3>2. SubSeq(R, 1, b) = R
      BY SetFacts
    <3> QED BY <3>1, <3>2 DEF Part
  <2>17. {ShiftedBy(S, Unshifted(B, v[h])) : h \in Outside(v, B, n)} = ToAdd
    <3> HIDE DEF S, B
    <3>1. Indexes(P) \ B = {v[h] : h \in Outside(v, B, n)}
      BY <2>1 DEF Outside, Entries
    <3> QED BY <3>1
  <2> HIDE DEF ToAdd
  <2>18. Indexes(out) \cup Part(R, p, b) = S \cup ToAdd
    BY <2>11, <2>16, <2>17
  <2> QED BY <2>10, <2>15, <2>18 DEF ToAdd
<1> QED BY <1>1, <1>2

\* Every operation on two sets does to their indexes what it promises, for all of the sets.
THEOREM SetOperationsAgreeAlways ==
    ASSUME NEW R \in Sets, NEW P \in Sets
    PROVE  SetOperationsAgree(R, P)
<1> DEFINE S == Indexes(R)
           T == Indexes(P)
           to(U, V) == WellFormed(U) /\ Indexes(U) = V
<1>1. \A U \in Sets : WellFormed(U)
  BY DEF Sets
<1>2. to(AddAll(R, P), S \cup T)
  BY <1>1, AddAllAdds
<1>3. to(InsertAtSet(R, P), T \cup {ShiftedBy(T, i) : i \in S})
  BY <1>1, InsertAtSetInserts
<1>4. to(ShiftForInsertAtSet(R, P), {ShiftedBy(T, i) : i \in S})
  BY <1>1, ShiftForInsertAtSetShifts
<1>5. to(EraseAtSet(R, P), {i - Cardinality({j \in T : j < i}) : i \in S \ T})
  BY <1>1, EraseAtSetErases DEF Unshifted, Below
<1>6. to(RemoveSet(R, P), S \ T)
  BY <1>1, RemoveSetRemoves
<1>7. \A by \in {R, P} : to(AddShiftedBy(R, by, P),
          S \cup {ShiftedBy(S, i - Cardinality({j \in Indexes(by) : j < i})) : i \in T \ Indexes(by)})
  <2>1. ASSUME NEW by \in {R, P}
        PROVE  to(AddShiftedBy(R, by, P),
                  S \cup {ShiftedBy(S, i - Cardinality({j \in Indexes(by) : j < i})) : i \in T \ Indexes(by)})
    <3>1. /\ AddShiftedBy(R, by, P) \in Sets
          /\ Indexes(AddShiftedBy(R, by, P)) = Indexes(R)
                 \cup {ShiftedBy(Indexes(R), Unshifted(Indexes(by), i)) : i \in Indexes(P) \ Indexes(by)}
      BY AddShiftedByAdds
    <3> QED BY <1>1, <3>1 DEF Unshifted, Below
  <2> QED BY <2>1
<1> QED BY <1>2, <1>3, <1>4, <1>5, <1>6, <1>7 DEF SetOperationsAgree

=============================================================================
