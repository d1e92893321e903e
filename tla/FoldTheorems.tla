---------------------------- MODULE FoldTheorems ----------------------------
(***************************************************************************)
(* What a fold over a sequence returns, by its steps: the loops of the     *)
(* code are modelled as folds.  The operator of the fold is a parameter,   *)
(* with a value c that stays the same in all its steps; a module that has  *)
(* a fold to reason about instantiates this one with its own operator.     *)
(***************************************************************************)
EXTENDS Integers, Sequences, WellFoundedInduction, TLAPS

CONSTANT op(_, _, _)

\* A set of natural numbers that is not empty has a least member.
LEMMA LeastNatural ==
    ASSUME NEW T \in SUBSET Nat, T # {}
    PROVE  \E m \in T : \A k \in T : m <= k
<1> DEFINE R == OpToRel(<, Nat)
<1>1. \A x, y \in Nat : x < y => <<x, y>> \in R
  BY DEF OpToRel
<1>2. IsWellFoundedOn(R, Nat)
  BY NatLessThanWellFounded
<1> HIDE DEF R
<1>3. PICK m \in T : \A k \in T : ~ (<<k, m>> \in R)
  BY <1>2, WFMin
<1>4. ASSUME NEW k \in T PROVE m <= k
  <2>1. k \in Nat /\ m \in Nat
    OBVIOUS
  <2>2. ~ (k < m)
    BY <2>1, <1>1, <1>3
  <2> QED BY <2>1, <2>2
<1> QED BY <1>4

\* Max of the community modules, which an instance would have all of
Greatest(t) == CHOOSE x \in t : \A y \in t : x >= y

\* The greatest member of a set of positions
LEMMA MaxOfPositions ==
    ASSUME NEW n \in Nat, NEW t \in SUBSET (1..n), t # {}
    PROVE  Greatest(t) \in t /\ \A y \in t : Greatest(t) >= y
<1> DEFINE U == {m \in Nat : \A y \in t : y <= m}
<1>1. U \in SUBSET Nat /\ n \in U
  OBVIOUS
<1>2. PICK m \in U : \A k \in U : m <= k
  BY <1>1, LeastNatural
<1>3. m \in t
  <2>1. SUFFICES ASSUME m \notin t PROVE FALSE
    OBVIOUS
  <2>2. \A y \in t : y <= m - 1
    BY <2>1
  <2>3. m # 0
    <3>1. PICK y \in t : TRUE
      OBVIOUS
    <3>2. y \in 1..n /\ y <= m - 1
      BY <2>2
    <3> QED BY <3>2
  <2>4. m - 1 \in U
    BY <2>2, <2>3
  <2> QED BY <2>4, <1>2
<1> QED BY <1>3 DEF Greatest

\* The fold of a sequence, as FoldLeft
Fold(c, base, s) ==
    LET iter[t \in SUBSET DOMAIN s] ==
            IF t = {} THEN base ELSE LET i == Greatest(t) IN op(c, iter[t \ {i}], s[i])
    IN iter[DOMAIN s]

\* g is the function that a fold is defined by.
FoldsBy(g, c, base, s, n) ==
    g = [t \in SUBSET (1..n) |-> IF t = {} THEN base ELSE op(c, g[t \ {Greatest(t)}], s[Greatest(t)])]

\* There is such a function.
LEMMA FoldFunctionExists ==
    ASSUME NEW c, NEW base, NEW s, NEW n \in Nat
    PROVE  \E g : FoldsBy(g, c, base, s, n)
<1> DEFINE Defines(g, k) == FoldsBy(g, c, base, s, k)
           Bad == {k \in Nat : ~ \E g : Defines(g, k)}
<1>1. SUFFICES ASSUME Bad # {} PROVE FALSE
  OBVIOUS
<1>2. PICK k \in Bad : \A h \in Bad : k <= h
  <2> HIDE DEF Defines
  <2> QED BY <1>1, LeastNatural
<1>3. k # 0
  <2>1. ASSUME k = 0 PROVE FALSE
    <3> DEFINE g == [t \in SUBSET (1..k) |-> base]
    <3>1. \A t \in SUBSET (1..k) : t = {}
      BY <2>1
    <3>2. Defines(g, k)
      BY <3>1 DEF FoldsBy
    <3> QED BY <3>2
  <2> QED BY <2>1
<1>4. PICK f : Defines(f, k - 1)
  <2>1. k \in Nat /\ k - 1 \in Nat
    BY <1>3
  <2>2. k - 1 \notin Bad
    <3> HIDE DEF Bad
    <3> QED BY <1>2, <2>1
  <2> QED BY <2>1, <2>2
<1> DEFINE g == [t \in SUBSET (1..k) |-> IF t = {} THEN base ELSE op(c, f[t \ {Greatest(t)}], s[Greatest(t)])]
<1>5. ASSUME NEW t \in SUBSET (1..k), t # {}
      PROVE  t \ {Greatest(t)} \in SUBSET (1..(k - 1))
  <2>1. k \in Nat
    OBVIOUS
  <2>2. Greatest(t) \in t /\ \A y \in t : Greatest(t) >= y
    BY <2>1, <1>5, MaxOfPositions
  <2>3. ASSUME NEW y \in t \ {Greatest(t)} PROVE y \in 1..(k - 1)
    <3>1. y \in 1..k /\ Greatest(t) \in 1..k /\ Greatest(t) >= y /\ y # Greatest(t)
      BY <2>2
    <3> QED BY <2>1, <3>1
  <2> QED BY <2>3
<1>6. ASSUME NEW u \in SUBSET (1..(k - 1)) PROVE g[u] = f[u]
  <2>1. u \in SUBSET (1..k)
    OBVIOUS
  <2>2. f[u] = IF u = {} THEN base ELSE op(c, f[u \ {Greatest(u)}], s[Greatest(u)])
    BY <1>4 DEF FoldsBy
  <2> QED BY <2>1, <2>2
<1>7. \A t \in SUBSET (1..k) : t # {} => g[t \ {Greatest(t)}] = f[t \ {Greatest(t)}]
  BY <1>5, <1>6
<1>8. Defines(g, k)
  <2> DEFINE r == [t \in SUBSET (1..k) |-> IF t = {} THEN base ELSE op(c, g[t \ {Greatest(t)}], s[Greatest(t)])]
  <2>1. \A t \in SUBSET (1..k) : g[t] = r[t]
    BY <1>7
  <2>2. g = r
    BY <2>1
  <2> QED BY <2>2 DEF FoldsBy
<1> QED BY <1>8

\* A fold stays in a family of sets, one for each number of its steps, if every step does.
LEMMA FoldInvariant ==
    ASSUME NEW c, NEW base, NEW s, NEW n \in Nat, DOMAIN s = 1..n,
           NEW Inv, base \in Inv[0],
           \A k \in 1..n : \A x \in Inv[k - 1] : op(c, x, s[k]) \in Inv[k]
    PROVE  Fold(c, base, s) \in Inv[n]
<1> DEFINE iter == CHOOSE g : FoldsBy(g, c, base, s, n)
<1> DEFINE fold == Fold(c, base, s)
<1>1. fold = iter[1..n]
  BY DEF Fold, FoldsBy
<1> HIDE DEF fold
<1>2. FoldsBy(iter, c, base, s, n)
  BY FoldFunctionExists
<1> HIDE DEF iter
<1> DEFINE Bad == {k \in Nat : k <= n /\ iter[1..k] \notin Inv[k]}
<1>3. ASSUME Bad # {} PROVE FALSE
  <2>1. PICK k \in Bad : \A h \in Bad : k <= h
    BY <1>3, LeastNatural
  <2>2. CASE k = 0
    <3>1. 1..k = {} /\ {} \in SUBSET (1..n)
      BY <2>2
    <3>2. iter[{}] = base
      BY <3>1, <1>2 DEF FoldsBy
    <3> QED BY <3>1, <3>2, <2>2
  <2>3. CASE k # 0
    <3>1. k - 1 \in Nat /\ k - 1 \notin Bad /\ k \in 1..n
      BY <2>1, <2>3
    <3>2. iter[1..(k - 1)] \in Inv[k - 1]
      BY <3>1
    <3>3. 1..k \in SUBSET (1..n) /\ 1..k # {}
      <4>1. k \in 1..k /\ \A y \in 1..k : y \in 1..n
        BY <3>1
      <4> QED BY <4>1
    <3>4. Greatest(1..k) = k
      <4> DEFINE t == 1..k
      <4>1. t \in SUBSET (1..n) /\ t # {} /\ k \in t /\ \A y \in t : y <= k /\ y \in Int
        BY <3>1, <3>3
      <4> HIDE DEF t
      <4>2. Greatest(t) \in t /\ \A y \in t : Greatest(t) >= y
        BY <4>1, MaxOfPositions
      <4> QED BY <4>1, <4>2 DEF t
    <3>5. (1..k) \ {k} = 1..(k - 1)
      BY <3>1
    <3>6. iter[1..k] = op(c, iter[1..(k - 1)], s[k])
      BY <1>2, <3>3, <3>4, <3>5 DEF FoldsBy
    <3> QED BY <3>1, <3>2, <3>6
  <2> QED BY <2>2, <2>3
<1>4. n \notin Bad
  BY <1>3
<1>5. fold \in Inv[n]
  BY <1>4, <1>1
<1> QED BY <1>5 DEF fold

\* A fold stays in a set if every step does.
THEOREM FoldStays ==
    ASSUME NEW c, NEW S, NEW s \in Seq(S), NEW T, NEW base \in T,
           \A x \in T : \A e \in S : op(c, x, e) \in T
    PROVE  Fold(c, base, s) \in T
<1> DEFINE n == Len(s)
           Inv == [k \in 0..n |-> T]
<1>1. n \in Nat /\ DOMAIN s = 1..n /\ \A k \in 1..n : s[k] \in S
  OBVIOUS
<1>2. base \in Inv[0] /\ Inv[n] = T /\ \A k \in 1..n : Inv[k - 1] = T /\ Inv[k] = T
  BY <1>1
<1>3. \A k \in 1..n : \A x \in Inv[k - 1] : op(c, x, s[k]) \in Inv[k]
  BY <1>1, <1>2
<1> HIDE DEF n, Inv
<1>4. Fold(c, base, s) \in Inv[n]
  BY <1>1, <1>2, <1>3, FoldInvariant
<1> QED BY <1>2, <1>4

-----------------------------------------------------------------------------
(* Functions defined by recursion: h[r] by op(c, h, r), for r in Q         *)

\* The function a recursion defines, and what its body may ask of it: the value at
\* smaller arguments
Recursion(h, c, Q) == h = [r \in Q |-> op(c, h, r)]
AsksBelow(c, Q, size) ==
    \A r \in Q : \A f, g : (\A q \in Q : size[q] < size[r] => f[q] = g[q]) => op(c, f, r) = op(c, g, r)

\* A solution at the smaller arguments
SolvesBelow(h, c, Q, size, n) == \A r \in Q : size[r] < n => h[r] = op(c, h, r)

\* Two partial solutions agree where both are solutions.
LEMMA SolutionsAgree ==
    ASSUME NEW c, NEW Q, NEW size \in [Q -> Nat], AsksBelow(c, Q, size),
           NEW f, NEW n \in Nat, SolvesBelow(f, c, Q, size, n),
           NEW g, NEW m \in Nat, SolvesBelow(g, c, Q, size, m),
           NEW r \in Q, size[r] < n, size[r] < m
    PROVE  f[r] = g[r]
<1> DEFINE Bad == {k \in Nat : \E q \in Q : size[q] = k /\ k < n /\ k < m /\ f[q] # g[q]}
<1>1. ASSUME Bad # {} PROVE FALSE
  <2>1. PICK k \in Bad : \A h \in Bad : k <= h
    BY <1>1, LeastNatural
  <2>2. PICK q \in Q : size[q] = k /\ k < n /\ k < m /\ f[q] # g[q]
    BY <2>1
  <2>3. ASSUME NEW u \in Q, size[u] < size[q] PROVE f[u] = g[u]
    <3>1. size[u] \in Nat /\ size[u] < k /\ k \in Nat /\ size[u] < n /\ size[u] < m
      BY <2>2, <2>3
    <3>2. size[u] \notin Bad
      BY <3>1, <2>1
    <3> QED BY <3>1, <3>2
  <2>4. op(c, f, q) = op(c, g, q)
    BY <2>3 DEF AsksBelow
  <2>5. f[q] = op(c, f, q) /\ g[q] = op(c, g, q)
    BY <2>2 DEF SolvesBelow
  <2> QED BY <2>2, <2>4, <2>5
<1>2. size[r] \in Nat /\ size[r] \notin Bad
  BY <1>1
<1> QED BY <1>2

LEMMA SolutionsExist ==
    ASSUME NEW c, NEW Q, NEW size \in [Q -> Nat], AsksBelow(c, Q, size),
           NEW n \in Nat
    PROVE  \E f : SolvesBelow(f, c, Q, size, n)
<1> DEFINE Bad == {k \in Nat : ~ \E f : SolvesBelow(f, c, Q, size, k)}
<1>1. ASSUME Bad # {} PROVE FALSE
  <2>1. PICK k \in Bad : \A h \in Bad : k <= h
    BY <1>1, LeastNatural
  <2>2. k # 0
    <3>1. ASSUME k = 0 PROVE SolvesBelow(<<>>, c, Q, size, k)
      BY <3>1 DEF SolvesBelow
    <3> QED BY <3>1, <2>1
  <2>3. k - 1 \in Nat /\ k - 1 \notin Bad /\ k \in Nat
    BY <2>1, <2>2
  <2>4. PICK f : SolvesBelow(f, c, Q, size, k - 1)
    BY <2>3
  <2> DEFINE g == [r \in Q |-> op(c, f, r)]
  <2>5. ASSUME NEW r \in Q, size[r] < k PROVE g[r] = op(c, g, r)
    <3>1. ASSUME NEW q \in Q, size[q] < size[r] PROVE f[q] = g[q]
      <4>1. size[q] \in Nat /\ size[r] \in Nat /\ size[q] < k - 1
        BY <3>1, <2>5, <2>3
      <4>2. f[q] = op(c, f, q)
        BY <4>1, <2>4 DEF SolvesBelow
      <4> QED BY <4>2
    <3> HIDE DEF g
    <3>2. op(c, f, r) = op(c, g, r)
      BY <3>1 DEF AsksBelow
    <3>3. g[r] = op(c, f, r)
      BY DEF g
    <3> QED BY <3>2, <3>3
  <2> HIDE DEF g
  <2>6. SolvesBelow(g, c, Q, size, k)
    BY <2>5 DEF SolvesBelow
  <2> QED BY <2>1, <2>6
<1>2. n \notin Bad
  BY <1>1
<1> QED BY <1>2

\* A recursion whose arguments get smaller defines a function.
LEMMA RecursionDefines ==
    ASSUME NEW c, NEW Q, NEW size \in [Q -> Nat], AsksBelow(c, Q, size)
    PROVE  \E h : Recursion(h, c, Q)
<1> DEFINE F(n) == CHOOSE f : SolvesBelow(f, c, Q, size, n)
           h == [r \in Q |-> F(size[r] + 1)[r]]
<1>1. \A n \in Nat : SolvesBelow(F(n), c, Q, size, n)
  BY SolutionsExist
<1> HIDE DEF F
<1>2. ASSUME NEW r \in Q PROVE h[r] = op(c, h, r)
  <2> DEFINE n == size[r] + 1
             f == F(n)
  <2>1. n \in Nat /\ size[r] < n /\ size[r] \in Nat
    OBVIOUS
  <2>2. SolvesBelow(f, c, Q, size, n) /\ h[r] = f[r]
    BY <2>1, <1>1
  <2>3. ASSUME NEW q \in Q, size[q] < size[r] PROVE f[q] = h[q]
    <3> DEFINE m == size[q] + 1
               g == F(m)
    <3>1. m \in Nat /\ size[q] < m /\ size[q] < n
      BY <2>1, <2>3
    <3>2. SolvesBelow(g, c, Q, size, m) /\ h[q] = g[q]
      BY <3>1, <1>1
    <3> HIDE DEF h, f, g, n, m
    <3>3. f[q] = g[q]
      BY <3>1, <3>2, <2>1, <2>2, SolutionsAgree
    <3> QED BY <3>2, <3>3
  <2> HIDE DEF h, f, n
  <2>4. op(c, f, r) = op(c, h, r)
    BY <2>3 DEF AsksBelow
  <2>5. f[r] = op(c, f, r)
    BY <2>1, <2>2 DEF SolvesBelow
  <2> QED BY <2>2, <2>4, <2>5
<1>3. h = [r \in Q |-> op(c, h, r)]
  <2> DEFINE g == [r \in Q |-> op(c, h, r)]
  <2>1. h = [r \in Q |-> h[r]] /\ \A r \in Q : h[r] = g[r]
    BY <1>2
  <2> HIDE DEF h, g
  <2>2. h = [r \in Q |-> g[r]]
    BY <2>1
  <2>3. g = [r \in Q |-> g[r]]
    BY DEF g
  <2> QED BY <2>2, <2>3 DEF g
<1> QED BY <1>3 DEF Recursion

=============================================================================
