-------------------------------- MODULE NetProofs --------------------------------
(***************************************************************************)
(* The comparator networks of OPrimitive.h for every length: the recursions  *)
(* of oddEvenMergeSort, oddEvenMerge, bitonicSort and bitonicMerge end, and   *)
(* compare only places of the piece they were called for.                    *)
(*                                                                         *)
(* A recursive function is the solution of an equation; that there is one is *)
(* itself a fact to prove.  Every induction here is by a smallest            *)
(* counterexample (LeastNat).                                               *)
(***************************************************************************)
EXTENDS SortNet, FiniteSetTheorems, TLAPS

\* A set of naturals has a least element, as no finite set is strictly above
\* another one without end.
LEMMA LeastNat ==
  ASSUME NEW T \in SUBSET Nat, T # {}
  PROVE  \E x \in T : \A y \in T : x <= y
<1> DEFINE Below(n) == 1 .. n
           Family == {Below(n) : n \in T}
<1>1. IsWellFoundedOn(StrictSubsetOrdering(Nat), FiniteSubsetsOf(Nat))
  BY FS_StrictSubsetOrderingWellFounded
<1>2. Family \subseteq FiniteSubsetsOf(Nat) /\ Family # {}
  <2>1. \A n \in T : Below(n) \subseteq Nat /\ IsFiniteSet(Below(n))
    BY FS_Interval
  <2>2. \A n \in T : Below(n) \in FiniteSubsetsOf(Nat)
    <3> HIDE DEF Below
    <3> QED BY <2>1 DEF FiniteSubsetsOf
  <2> HIDE DEF Below
  <2> QED BY <2>2
<1>3. \E B \in Family : \A C \in Family : <<C, B>> \notin StrictSubsetOrdering(Nat)
  <2> HIDE DEF Family
  <2> QED
    BY <1>1, <1>2, WFMin
<1>4. PICK x \in T : \A y \in T : <<Below(y), Below(x)>> \notin StrictSubsetOrdering(Nat)
  BY <1>3
<1>5. ASSUME NEW y \in T, y < x PROVE FALSE
  <2>1. Below(y) \subseteq Below(x) /\ Below(x) \subseteq Nat /\ x \in Below(x) /\ x \notin Below(y)
    BY <1>5
  <2>2. <<Below(y), Below(x)>> \in StrictSubsetOrdering(Nat)
    BY <2>1, Zenon DEF StrictSubsetOrdering
  <2> QED
    BY <1>4, <2>2
<1> QED
  BY <1>5

\* A set of naturals with a bound has a greatest element.
LEMMA GreatestNat ==
  ASSUME NEW T \in SUBSET Nat, T # {}, NEW b \in Nat, \A x \in T : x <= b
  PROVE  \E x \in T : \A y \in T : y <= x
<1> DEFINE U == {b - x : x \in T}
<1>1. U \in SUBSET Nat /\ U # {}
  <2>1. ASSUME NEW x \in T PROVE b - x \in Nat
    <3>1. x \in Nat /\ x <= b
      OBVIOUS
    <3> QED
      BY <3>1
  <2> QED
    BY <2>1
<1>2. PICK u \in U : \A v \in U : u <= v
  <2> HIDE DEF U
  <2> QED
    BY <1>1, LeastNat
<1>3. PICK x \in T : u = b - x
  OBVIOUS
<1>4. ASSUME NEW y \in T PROVE y <= x
  <2>1. b - y \in U
    OBVIOUS
  <2>2. u <= b - y
    BY <1>2, <2>1
  <2> QED
    BY <1>3, <2>2
<1> QED
  BY <1>4

\* Induction over the naturals, on a set of them.
LEMMA AllNat ==
  ASSUME NEW T \in SUBSET Nat, 0 \in T, \A n \in T : n + 1 \in T
  PROVE  T = Nat
<1> SUFFICES ASSUME Nat \ T # {} PROVE FALSE
  OBVIOUS
<1>1. PICK x \in Nat \ T : \A y \in Nat \ T : x <= y
  BY LeastNat
<1>2. x # 0 /\ x - 1 \in Nat
  BY <1>1
<1>3. x - 1 \in T
  BY <1>1, <1>2
<1>4. (x - 1) + 1 = x
  BY <1>1
<1> QED
  BY <1>1, <1>3, <1>4

\* A recursion, as the function D from a function to its right-hand side: the
\* value at x needs other values only where the measure mu is below mu[x].
Recursion(S, T, mu, D) ==
  /\ mu \in [S -> Nat] /\ D \in [[S -> T] -> [S -> T]]
  /\ \A g, h \in [S -> T] : \A x \in S :
       (\A y \in S : mu[y] < mu[x] => g[y] = h[y]) => D[g][x] = D[h][x]

Solution(S, T, D, f) == f \in [S -> T] /\ f = D[f]

\* A function defined by such a recursion exists.
LEMMA RecursionExists ==
  ASSUME NEW S, NEW T, T # {}, NEW mu, NEW D, Recursion(S, T, mu, D)
  PROVE  \E f : Solution(S, T, D, f)
<1> USE DEF Recursion, Solution
<1> DEFINE F    == [S -> T]
           G(n) == {g \in F : \A x \in S : mu[x] < n => g[x] = D[g][x]}
<1>1. \A g \in F : D[g] \in F
  OBVIOUS
<1>2. \A n \in Nat : G(n) # {}
  <2> DEFINE W == {n \in Nat : G(n) # {}}
  <2>1. 0 \in W
    <3>1. F # {}
      <4>1. PICK t \in T : TRUE
        OBVIOUS
      <4>2. [x \in S |-> t] \in F
        OBVIOUS
      <4> QED
        BY <4>2
    <3>2. G(0) = F
      OBVIOUS
    <3> HIDE DEF F, G
    <3> QED
      BY <3>1, <3>2
  <2>2. ASSUME NEW n \in W PROVE n + 1 \in W
    <3>1. PICK g \in F : \A x \in S : mu[x] < n => g[x] = D[g][x]
      OBVIOUS
    <3>2. ASSUME NEW x \in S, mu[x] < n + 1 PROVE D[g][x] = D[D[g]][x]
      <4>1. \A y \in S : mu[y] < mu[x] => g[y] = D[g][y]
        BY <3>1, <3>2
      <4> QED
        BY <1>1, <4>1
    <3>3. D[g] \in G(n + 1)
      BY <1>1, <3>2
    <3> HIDE DEF G
    <3> QED
      BY <3>3
  <2> HIDE DEF W
  <2>3. W \in SUBSET Nat
    BY DEF W
  <2>4. W = Nat
    BY <2>1, <2>2, <2>3, AllNat
  <2> QED
    BY <2>4 DEF W
<1>3. ASSUME NEW n \in Nat, NEW g \in G(n), NEW h \in G(n), NEW x \in S, mu[x] < n PROVE g[x] = h[x]
  <2> DEFINE Bad == {k \in Nat : \E y \in S : mu[y] = k /\ k < n /\ g[y] # h[y]}
  <2> SUFFICES ASSUME Bad # {} PROVE FALSE
    BY <1>3
  <2>1. PICK k \in Bad : \A l \in Bad : k <= l
    <3> HIDE DEF Bad
    <3>1. Bad \in SUBSET Nat
      BY DEF Bad
    <3> QED
      BY <3>1, LeastNat
  <2>2. PICK y \in S : mu[y] = k /\ k < n /\ g[y] # h[y]
    BY <2>1
  <2>3. \A z \in S : mu[z] < mu[y] => g[z] = h[z]
    BY <2>1, <2>2
  <2>4. g \in F /\ h \in F /\ g[y] = D[g][y] /\ h[y] = D[h][y]
    BY <2>2
  <2> QED
    BY <2>2, <2>3, <2>4
<1> DEFINE f == [x \in S |-> (CHOOSE g \in G(mu[x] + 1) : TRUE)[x]]
<1>4. ASSUME NEW x \in S PROVE \E g \in G(mu[x] + 1) : f[x] = g[x]
  <2>1. G(mu[x] + 1) # {}
    BY <1>2
  <2> HIDE DEF G
  <2> QED
    BY <2>1
<1> HIDE DEF f
<1>5. f \in F
  <2>1. \A x \in S : f[x] \in T
    BY <1>4
  <2> QED
    BY <2>1 DEF f
<1>6. ASSUME NEW x \in S PROVE f[x] = D[f][x]
  <2>1. PICK g \in G(mu[x] + 1) : f[x] = g[x]
    BY <1>4
  <2>2. ASSUME NEW y \in S, mu[y] < mu[x] PROVE f[y] = g[y]
    <3>1. PICK h \in G(mu[y] + 1) : f[y] = h[y]
      BY <1>4
    <3>2. g \in G(mu[y] + 1)
      BY <2>2
    <3>3. mu[y] < mu[y] + 1 /\ mu[y] + 1 \in Nat
      OBVIOUS
    <3> HIDE DEF G
    <3> QED
      BY <1>3, <3>1, <3>2, <3>3
  <2>3. g \in F /\ g[x] = D[g][x]
    OBVIOUS
  <2> QED
    BY <1>5, <2>1, <2>2, <2>3
<1>7. f = D[f]
  <2>1. D[f] \in F
    BY <1>5
  <2> QED
    BY <1>5, <1>6, <2>1
<1> QED
  BY <1>5, <1>7
--------------------------------------------------------------------------------
(* Powers of two, as the loops of the code compute them.                      *)

LEMMA DoubledIs == Doubled = [e \in Nat |-> IF e = 0 THEN 1 ELSE 2 * Doubled[e - 1]]
<1> DEFINE mu == [e \in Nat |-> e]
           D  == [g \in [Nat -> Nat] |-> [e \in Nat |-> IF e = 0 THEN 1 ELSE 2 * g[e - 1]]]
<1>1. mu \in [Nat -> Nat] /\ Nat # {}
  OBVIOUS
<1>2. ASSUME NEW g \in [Nat -> Nat] PROVE [e \in Nat |-> IF e = 0 THEN 1 ELSE 2 * g[e - 1]] \in [Nat -> Nat]
  <2>1. ASSUME NEW e \in Nat PROVE (IF e = 0 THEN 1 ELSE 2 * g[e - 1]) \in Nat
    <3>1. e # 0 => e - 1 \in Nat
      OBVIOUS
    <3>2. e # 0 => g[e - 1] \in Nat
      BY <3>1
    <3> QED
      BY <3>2
  <2> QED
    BY <2>1
<1>3. D \in [[Nat -> Nat] -> [Nat -> Nat]]
  BY <1>2
<1>4. ASSUME NEW g \in [Nat -> Nat], NEW h \in [Nat -> Nat], NEW e \in Nat,
             \A y \in Nat : mu[y] < mu[e] => g[y] = h[y]
      PROVE  D[g][e] = D[h][e]
  <2>1. e # 0 => e - 1 \in Nat /\ e - 1 < e
    OBVIOUS
  <2>2. e # 0 => g[e - 1] = h[e - 1]
    BY <1>4, <2>1
  <2> QED
    BY <2>2
<1> HIDE DEF mu, D
<1>r. Recursion(Nat, Nat, mu, D)
  BY <1>1, <1>3, <1>4 DEF Recursion
<1>5. PICK f : Solution(Nat, Nat, D, f)
  BY <1>1, <1>r, RecursionExists
<1>6. f = [e \in Nat |-> IF e = 0 THEN 1 ELSE 2 * f[e - 1]]
  BY <1>5 DEF D, Solution
<1> QED
  BY <1>6, Zenon DEF Doubled

LEMMA DoubledFacts ==
  /\ Doubled[0] = 1
  /\ \A e \in Nat : Doubled[e] \in Nat /\ Doubled[e + 1] = 2 * Doubled[e] /\ e < Doubled[e]
<1>1. Doubled[0] = 1
  BY DoubledIs
<1>2. \A e \in Nat : Doubled[e + 1] = 2 * Doubled[e]
  <2> TAKE e \in Nat
  <2>1. e + 1 \in Nat /\ e + 1 # 0 /\ (e + 1) - 1 = e
    OBVIOUS
  <2> QED
    BY <2>1, DoubledIs
<1> DEFINE T == {e \in Nat : Doubled[e] \in Nat /\ e < Doubled[e]}
<1>3. 0 \in T
  BY <1>1
<1>4. ASSUME NEW e \in T PROVE e + 1 \in T
  BY <1>2
<1> HIDE DEF T
<1>5. T \in SUBSET Nat
  BY DEF T
<1>6. T = Nat
  BY <1>3, <1>4, <1>5, AllNat
<1> QED
  BY <1>1, <1>2, <1>6 DEF T

\* There is a power of two from n / 2 to n, n excluded.
LEMMA HalfPower ==
  ASSUME NEW n \in Nat, n > 1
  PROVE  /\ greatestPowerOfTwoLessThan(n) \in 1 .. n - 1
         /\ n <= 2 * greatestPowerOfTwoLessThan(n)
         /\ \E e \in Nat : greatestPowerOfTwoLessThan(n) = Doubled[e]
<1> DEFINE T == {e \in Nat : n <= Doubled[e]}
<1>1. PICK x \in T : \A y \in T : x <= y
  <2>1. n \in T
    BY DoubledFacts
  <2> HIDE DEF T
  <2>2. T \in SUBSET Nat
    BY DEF T
  <2> QED
    BY <2>1, <2>2, LeastNat
<1>2. x # 0 /\ x - 1 \in Nat /\ x - 1 \notin T /\ (x - 1) + 1 = x
  BY <1>1, DoubledFacts
<1>3. Doubled[x - 1] < n /\ n <= 2 * Doubled[x - 1]
  BY <1>1, <1>2, DoubledFacts
<1>4. x - 1 \in 0 .. n
  BY <1>2, <1>3, DoubledFacts
<1> DEFINE P == {Doubled[e] : e \in 0 .. n}
           m == CHOOSE k \in P : k < n /\ n <= 2 * k
<1>5. \E k \in P : k < n /\ n <= 2 * k
  BY <1>3, <1>4
<1>6. m \in P /\ m < n /\ n <= 2 * m
  <2> HIDE DEF P
  <2> QED
    BY <1>5
<1>7. m = greatestPowerOfTwoLessThan(n)
  BY DEF greatestPowerOfTwoLessThan
<1>8. m \in Nat /\ m > 0 /\ \E e \in Nat : m = Doubled[e]
  <2>1. PICK e \in 0 .. n : m = Doubled[e]
    BY <1>6
  <2> HIDE DEF m
  <2> QED
    BY <2>1, DoubledFacts
<1> HIDE DEF m
<1> QED
  BY <1>6, <1>7, <1>8

\* The length to which an array of n elements is filled up.
LEMMA PowerIs ==
  ASSUME NEW n \in Nat \ {0}
  PROVE  \E e \in Nat : PowerAbove(n) = Doubled[e] /\ n <= Doubled[e]
<1> DEFINE T == {e \in Nat : n <= Doubled[e]}
<1>1. PICK x \in T : \A y \in T : x <= y
  <2>1. n \in T
    BY DoubledFacts
  <2> HIDE DEF T
  <2>2. T \in SUBSET Nat
    BY DEF T
  <2> QED
    BY <2>1, <2>2, LeastNat
<1>2. n <= Doubled[x] /\ Doubled[x] < 2 * n
  <2>1. CASE x = 0
    BY <2>1, DoubledFacts
  <2>2. CASE x # 0
    <3>1. x - 1 \in Nat /\ x - 1 \notin T /\ (x - 1) + 1 = x
      BY <1>1, <2>2
    <3> QED
      BY <1>1, <3>1, DoubledFacts
  <2> QED
    BY <2>1, <2>2
<1>3. x \in 0 .. n
  <2>1. n \in T
    BY DoubledFacts
  <2> QED
    BY <1>1, <2>1
<1> DEFINE P == {Doubled[e] : e \in 0 .. n}
           m == CHOOSE k \in P : n <= k /\ k < 2 * n
<1>4. \E k \in P : n <= k /\ k < 2 * n
  BY <1>2, <1>3
<1>5. m \in P /\ n <= m
  <2> HIDE DEF P
  <2> QED
    BY <1>4
<1>6. m = PowerAbove(n)
  BY DEF PowerAbove
<1>7. PICK e \in 0 .. n : m = Doubled[e]
  BY <1>5
<1> HIDE DEF m
<1> QED
  BY <1>5, <1>6, <1>7
--------------------------------------------------------------------------------
(* The networks.                                                              *)

\* A compare of two places of the piece of length n from lo on, the lower first.
Within(lo, n) == {c \in Nat \X Nat \X BOOLEAN : lo <= c[1] /\ c[1] < c[2] /\ c[2] < lo + n}

Nets == Seq(Nat \X Nat \X BOOLEAN)

LEMMA NetsAppend ==
  ASSUME NEW A, NEW s \in Seq(A), NEW t \in Seq(A)
  PROVE  s \o t \in Seq(A)
OBVIOUS

LEMMA NetsLarger ==
  ASSUME NEW A, NEW B, A \subseteq B, NEW s \in Seq(A)
  PROVE  s \in Seq(B)
<1>1. /\ Len(s) \in Nat /\ DOMAIN s = 1 .. Len(s) /\ \A k \in 1 .. Len(s) : s[k] \in A
      /\ s = [k \in 1 .. Len(s) |-> s[k]]
  OBVIOUS
<1>2. \A k \in 1 .. Len(s) : s[k] \in B
  BY <1>1
<1> QED
  BY <1>1, <1>2

LEMMA HalfCompareIn ==
  ASSUME NEW lo \in Nat, NEW count \in Nat, NEW m \in Nat, m > 0, NEW dir \in BOOLEAN, NEW n \in Nat, count + m <= n
  PROVE  HalfCompare(lo, count, m, dir) \in Seq(Within(lo, n)) /\ HalfCompare(lo, count, m, dir) \in Nets
<1>1. ASSUME NEW k \in 1 .. count PROVE <<lo + k - 1, lo + k - 1 + m, dir>> \in Within(lo, n)
  BY DEF Within
<1>2. Within(lo, n) \subseteq Nat \X Nat \X BOOLEAN
  BY DEF Within
<1> DEFINE A == Within(lo, n)
<1>3. [k \in 1 .. count |-> <<lo + k - 1, lo + k - 1 + m, dir>>] \in Seq(A)
  <2> DEFINE e(k) == <<lo + k - 1, lo + k - 1 + m, dir>>
  <2>1. \A k \in 1 .. count : e(k) \in A
    BY <1>1
  <2> HIDE DEF A, e
  <2>2. [k \in 1 .. count |-> e(k)] \in Seq(A)
    BY <2>1
  <2> QED
    BY <2>2 DEF e
<1>4. HalfCompare(lo, count, m, dir) \in Seq(A)
  BY <1>3 DEF HalfCompare
<1> QED
  BY <1>2, <1>4, NetsLarger DEF Nets

\* The length of a piece, by which the recursions decrease.
PieceLength == [piece \in Pieces |-> piece[2]]

LEMMA PieceParts ==
  /\ \A lo, n \in Nat, dir \in BOOLEAN :
       <<lo, n, dir>> \in Pieces /\ PieceLength[<<lo, n, dir>>] = n
  /\ PieceLength \in [Pieces -> Nat]
  /\ \A piece \in Pieces :
       /\ piece = <<piece[1], piece[2], piece[3]>> /\ PieceLength[piece] = piece[2]
       /\ piece[1] \in Nat /\ piece[2] \in Nat /\ piece[3] \in BOOLEAN
BY DEF Pieces, PieceLength

LEMMA NetRecursion ==
  ASSUME NEW S, NEW mu, NEW D, Recursion(S, Nets, mu, D)
  PROVE  \E f : Solution(S, Nets, D, f)
<1>1. Nets # {}
  BY <<>> \in Nets DEF Nets
<1> QED
  BY <1>1, RecursionExists

LEMMA Negation == \A b \in BOOLEAN : (~b) \in BOOLEAN
<1> TAKE b \in BOOLEAN
<1>1. CASE b = TRUE
  <2>1. (~b) = FALSE
    BY <1>1, Zenon
  <2> QED
    BY <2>1, Zenon
<1>2. CASE b = FALSE
  <2>1. (~b) = TRUE
    BY <1>2, Zenon
  <2> QED
    BY <2>1, Zenon
<1> QED
  BY <1>1, <1>2, Zenon

\* The compares of a part are compares of the whole.
LEMMA WithinLarger ==
  ASSUME NEW lo \in Nat, NEW n \in Nat, NEW a \in Nat, NEW k \in Nat, lo <= a, a + k <= lo + n,
         NEW s \in Seq(Within(a, k))
  PROVE  s \in Seq(Within(lo, n))
<1>1. Within(a, k) \subseteq Within(lo, n)
  BY DEF Within
<1> QED
  BY <1>1, NetsLarger

LEMMA WithinNets ==
  ASSUME NEW lo, NEW n, NEW s \in Seq(Within(lo, n))
  PROVE  s \in Nets
<1>1. Within(lo, n) \subseteq Nat \X Nat \X BOOLEAN
  BY DEF Within
<1> QED
  BY <1>1, NetsLarger DEF Nets

LEMMA bitonicMergeIs ==
  ASSUME NEW lo \in Nat, NEW n \in Nat, NEW dir \in BOOLEAN
  PROVE  /\ n <= 1 => bitonicMerge[<<lo, n, dir>>] = <<>>
         /\ n > 1 => LET m == greatestPowerOfTwoLessThan(n)
                     IN bitonicMerge[<<lo, n, dir>>] =
                          HalfCompare(lo, n - m, m, dir) \o bitonicMerge[<<lo, m, dir>>]
                            \o bitonicMerge[<<lo + m, n - m, dir>>]
<1> DEFINE Body(g, p) ==
             LET m == greatestPowerOfTwoLessThan(p[2])
             IN IF p[2] > 1
                THEN HalfCompare(p[1], p[2] - m, m, p[3]) \o g[<<p[1], m, p[3]>>]
                  \o g[<<p[1] + m, p[2] - m, p[3]>>]
                ELSE <<>>
           D == [g \in [Pieces -> Nets] |-> [p \in Pieces |-> Body(g, p)]]
<1>1. ASSUME NEW p \in Pieces, p[2] > 1, NEW m, m = greatestPowerOfTwoLessThan(p[2])
      PROVE  /\ <<p[1], m, p[3]>> \in Pieces /\ PieceLength[<<p[1], m, p[3]>>] < PieceLength[p]
             /\ <<p[1] + m, p[2] - m, p[3]>> \in Pieces /\ PieceLength[<<p[1] + m, p[2] - m, p[3]>>] < PieceLength[p]
             /\ HalfCompare(p[1], p[2] - m, m, p[3]) \in Nets
  <2>1. p[1] \in Nat /\ p[2] \in Nat /\ p[3] \in BOOLEAN /\ PieceLength[p] = p[2]
    BY PieceParts
  <2>2. m \in 1 .. p[2] - 1 /\ p[2] - m \in Nat /\ p[1] + m \in Nat
    BY <1>1, <2>1, HalfPower
  <2>3. HalfCompare(p[1], p[2] - m, m, p[3]) \in Nets
    <3>1. m \in Nat /\ m > 0 /\ (p[2] - m) + m <= p[2]
      BY <2>1, <2>2
    <3> QED
      BY <2>1, <2>2, <3>1, HalfCompareIn
  <2> QED
    BY <2>1, <2>2, <2>3, PieceParts
<1>2. ASSUME NEW g \in [Pieces -> Nets], NEW p \in Pieces PROVE Body(g, p) \in Nets
  <2>1. CASE p[2] > 1
    <3>1. PICK m : m = greatestPowerOfTwoLessThan(p[2])
      OBVIOUS
    <3>2. g[<<p[1], m, p[3]>>] \in Nets /\ g[<<p[1] + m, p[2] - m, p[3]>>] \in Nets
      BY <1>1, <2>1, <3>1
    <3>3. HalfCompare(p[1], p[2] - m, m, p[3]) \o g[<<p[1], m, p[3]>>]
            \o g[<<p[1] + m, p[2] - m, p[3]>>] \in Nets
      BY <1>1, <2>1, <3>1, <3>2, NetsAppend DEF Nets
    <3> QED
      BY <2>1, <3>1, <3>3
  <2>2. CASE ~(p[2] > 1)
    BY <2>2 DEF Nets
  <2> QED
    BY <2>1, <2>2
<1>3. ASSUME NEW g \in [Pieces -> Nets], NEW h \in [Pieces -> Nets], NEW p \in Pieces,
             \A q \in Pieces : PieceLength[q] < PieceLength[p] => g[q] = h[q]
      PROVE  Body(g, p) = Body(h, p)
  <2>1. CASE p[2] > 1
    <3>1. PICK m : m = greatestPowerOfTwoLessThan(p[2])
      OBVIOUS
    <3>2. g[<<p[1], m, p[3]>>] = h[<<p[1], m, p[3]>>] /\ g[<<p[1] + m, p[2] - m, p[3]>>] = h[<<p[1] + m, p[2] - m, p[3]>>]
      BY <1>1, <1>3, <2>1, <3>1
    <3> QED
      BY <2>1, <3>1, <3>2
  <2>2. CASE ~(p[2] > 1)
    BY <2>2
  <2> QED
    BY <2>1, <2>2
<1> HIDE DEF Body
<1>4. D \in [[Pieces -> Nets] -> [Pieces -> Nets]]
  BY <1>2
<1>5. PICK f : Solution(Pieces, Nets, D, f)
  <2>1. \A g \in [Pieces -> Nets] : \A p \in Pieces : D[g][p] = Body(g, p)
    OBVIOUS
  <2> HIDE DEF D
  <2>2. ASSUME NEW g \in [Pieces -> Nets], NEW h \in [Pieces -> Nets], NEW p \in Pieces,
               \A q \in Pieces : PieceLength[q] < PieceLength[p] => g[q] = h[q]
        PROVE  D[g][p] = D[h][p]
    BY <1>3, <2>1, <2>2
  <2>3. PieceLength \in [Pieces -> Nat]
    BY PieceParts
  <2>4. Recursion(Pieces, Nets, PieceLength, D)
    BY <1>4, <2>2, <2>3 DEF Recursion
  <2> QED
    BY <2>4, NetRecursion
<1>7. f = [p \in Pieces |-> Body(f, p)]
  BY <1>5 DEF Solution
<1>8. bitonicMerge = [p \in Pieces |-> Body(bitonicMerge, p)]
  BY <1>7, Zenon DEF bitonicMerge, Body
<1>9. bitonicMerge[<<lo, n, dir>>] = Body(bitonicMerge, <<lo, n, dir>>)
  BY <1>8, PieceParts
<1>10. CASE n > 1
  <2>1. ~(n <= 1)
    BY <1>10
  <2> QED
    BY <1>9, <1>10, <2>1 DEF Body
<1>11. CASE n <= 1
  <2>1. ~(n > 1)
    BY <1>11
  <2> QED
    BY <1>9, <1>11, <2>1 DEF Body
<1> QED
  BY <1>10, <1>11

LEMMA bitonicMergeIn ==
  ASSUME NEW lo \in Nat, NEW n \in Nat, NEW dir \in BOOLEAN
  PROVE  bitonicMerge[<<lo, n, dir>>] \in Seq(Within(lo, n))
<1> DEFINE Good(k) == \A a \in Nat, d \in BOOLEAN : bitonicMerge[<<a, k, d>>] \in Seq(Within(a, k))
           Bad == {k \in Nat : ~Good(k)}
<1> SUFFICES ASSUME Bad # {} PROVE FALSE
  OBVIOUS
<1>1. PICK k \in Bad : \A l \in Bad : k <= l
  <2> HIDE DEF Bad
  <2>1. Bad \in SUBSET Nat
    BY DEF Bad
  <2> QED
    BY <2>1, LeastNat
<1>2. ASSUME NEW a \in Nat, NEW d \in BOOLEAN PROVE bitonicMerge[<<a, k, d>>] \in Seq(Within(a, k))
  <2>1. CASE k <= 1
    <3>1. bitonicMerge[<<a, k, d>>] = <<>>
      BY <2>1, bitonicMergeIs
    <3> QED
      BY <3>1
  <2>2. CASE k > 1
    <3>1. PICK m : m = greatestPowerOfTwoLessThan(k)
      OBVIOUS
    <3>2. m \in Nat /\ m > 0 /\ m < k /\ k - m \in Nat /\ k - m < k /\ (k - m) + m <= k /\ a + m \in Nat
      <4>1. k \in Nat
        OBVIOUS
      <4> HIDE DEF Bad
      <4> QED
        BY <2>2, <3>1, <4>1, HalfPower
    <3>3. bitonicMerge[<<a, m, d>>] \in Seq(Within(a, k))
      <4>1. Good(m)
        BY <1>1, <3>2
      <4>2. bitonicMerge[<<a, m, d>>] \in Seq(Within(a, m))
        BY <3>2, <4>1
      <4> QED
        BY <3>2, <4>2, WithinLarger
    <3>4. bitonicMerge[<<a + m, k - m, d>>] \in Seq(Within(a, k))
      <4>1. Good(k - m)
        BY <1>1, <3>2
      <4>2. bitonicMerge[<<a + m, k - m, d>>] \in Seq(Within(a + m, k - m))
        BY <3>2, <4>1
      <4> QED
        BY <3>2, <4>2, WithinLarger
    <3>5. HalfCompare(a, k - m, m, d) \in Seq(Within(a, k))
      BY <3>2, HalfCompareIn
    <3>6. bitonicMerge[<<a, k, d>>] = HalfCompare(a, k - m, m, d) \o bitonicMerge[<<a, m, d>>] \o bitonicMerge[<<a + m, k - m, d>>]
      BY <2>2, <3>1, bitonicMergeIs
    <3> QED
      BY <3>3, <3>4, <3>5, <3>6, NetsAppend
  <2> QED
    BY <2>1, <2>2
<1> QED
  BY <1>1, <1>2

LEMMA bitonicSortIs ==
  ASSUME NEW lo \in Nat, NEW n \in Nat, NEW dir \in BOOLEAN
  PROVE  /\ n <= 1 => bitonicSort[<<lo, n, dir>>] = <<>>
         /\ n > 1 => LET m == n \div 2
                     IN bitonicSort[<<lo, n, dir>>] =
                          bitonicSort[<<lo, m, ~dir>>] \o bitonicSort[<<lo + m, n - m, dir>>]
                            \o bitonicMerge[<<lo, n, dir>>]
<1> DEFINE Body(g, p) ==
             LET m == p[2] \div 2
             IN IF p[2] > 1
                THEN g[<<p[1], m, ~p[3]>>] \o g[<<p[1] + m, p[2] - m, p[3]>>]
                  \o bitonicMerge[<<p[1], p[2], p[3]>>]
                ELSE <<>>
           D == [g \in [Pieces -> Nets] |-> [p \in Pieces |-> Body(g, p)]]
<1>1. ASSUME NEW p \in Pieces, p[2] > 1, NEW m, m = p[2] \div 2
      PROVE  /\ <<p[1], m, ~p[3]>> \in Pieces /\ PieceLength[<<p[1], m, ~p[3]>>] < PieceLength[p]
             /\ <<p[1] + m, p[2] - m, p[3]>> \in Pieces /\ PieceLength[<<p[1] + m, p[2] - m, p[3]>>] < PieceLength[p]
             /\ bitonicMerge[<<p[1], p[2], p[3]>>] \in Nets
  <2>1. p[1] \in Nat /\ p[2] \in Nat /\ p[3] \in BOOLEAN /\ PieceLength[p] = p[2]
    BY PieceParts
  <2>b. (~p[3]) \in BOOLEAN
    BY <2>1, Negation
  <2>2. m \in 1 .. p[2] - 1 /\ p[2] - m \in Nat /\ p[1] + m \in Nat
    BY <1>1, <2>1
  <2>3. bitonicMerge[<<p[1], p[2], p[3]>>] \in Nets
    BY <2>1, bitonicMergeIn, WithinNets
  <2>4. ASSUME NEW d \in BOOLEAN
        PROVE  <<p[1], m, d>> \in Pieces /\ PieceLength[<<p[1], m, d>>] = m
    BY <2>1, <2>2, PieceParts
  <2>5. <<p[1], m, ~p[3]>> \in Pieces /\ PieceLength[<<p[1], m, ~p[3]>>] = m
    BY <2>b, <2>4, Zenon
  <2>6. m < PieceLength[p]
    BY <2>1, <2>2
  <2>7. <<p[1] + m, p[2] - m, p[3]>> \in Pieces /\ PieceLength[<<p[1] + m, p[2] - m, p[3]>>] < PieceLength[p]
    BY <2>1, <2>2, PieceParts
  <2> QED
    BY <2>3, <2>5, <2>6, <2>7, Zenon
<1>2. ASSUME NEW g \in [Pieces -> Nets], NEW p \in Pieces PROVE Body(g, p) \in Nets
  <2>1. CASE p[2] > 1
    <3>1. PICK m : m = p[2] \div 2
      OBVIOUS
    <3>2. g[<<p[1], m, ~p[3]>>] \in Nets /\ g[<<p[1] + m, p[2] - m, p[3]>>] \in Nets
      BY <1>1, <2>1, <3>1
    <3>3. g[<<p[1], m, ~p[3]>>] \o g[<<p[1] + m, p[2] - m, p[3]>>]
            \o bitonicMerge[<<p[1], p[2], p[3]>>] \in Nets
      BY <1>1, <2>1, <3>1, <3>2, NetsAppend DEF Nets
    <3> QED
      BY <2>1, <3>1, <3>3
  <2>2. CASE ~(p[2] > 1)
    BY <2>2 DEF Nets
  <2> QED
    BY <2>1, <2>2
<1>3. ASSUME NEW g \in [Pieces -> Nets], NEW h \in [Pieces -> Nets], NEW p \in Pieces,
             \A q \in Pieces : PieceLength[q] < PieceLength[p] => g[q] = h[q]
      PROVE  Body(g, p) = Body(h, p)
  <2>1. CASE p[2] > 1
    <3>1. PICK m : m = p[2] \div 2
      OBVIOUS
    <3>2. g[<<p[1], m, ~p[3]>>] = h[<<p[1], m, ~p[3]>>] /\ g[<<p[1] + m, p[2] - m, p[3]>>] = h[<<p[1] + m, p[2] - m, p[3]>>]
      BY <1>1, <1>3, <2>1, <3>1
    <3> QED
      BY <2>1, <3>1, <3>2
  <2>2. CASE ~(p[2] > 1)
    BY <2>2
  <2> QED
    BY <2>1, <2>2
<1> HIDE DEF Body
<1>4. D \in [[Pieces -> Nets] -> [Pieces -> Nets]]
  BY <1>2
<1>5. PICK f : Solution(Pieces, Nets, D, f)
  <2>1. \A g \in [Pieces -> Nets] : \A p \in Pieces : D[g][p] = Body(g, p)
    OBVIOUS
  <2> HIDE DEF D
  <2>2. ASSUME NEW g \in [Pieces -> Nets], NEW h \in [Pieces -> Nets], NEW p \in Pieces,
               \A q \in Pieces : PieceLength[q] < PieceLength[p] => g[q] = h[q]
        PROVE  D[g][p] = D[h][p]
    BY <1>3, <2>1, <2>2
  <2>3. PieceLength \in [Pieces -> Nat]
    BY PieceParts
  <2>4. Recursion(Pieces, Nets, PieceLength, D)
    BY <1>4, <2>2, <2>3 DEF Recursion
  <2> QED
    BY <2>4, NetRecursion
<1>7. f = [p \in Pieces |-> Body(f, p)]
  BY <1>5 DEF Solution
<1>8. bitonicSort = [p \in Pieces |-> Body(bitonicSort, p)]
  BY <1>7, Zenon DEF bitonicSort, Body
<1>9. bitonicSort[<<lo, n, dir>>] = Body(bitonicSort, <<lo, n, dir>>)
  BY <1>8, PieceParts
<1>10. CASE n > 1
  <2>1. ~(n <= 1)
    BY <1>10
  <2> QED
    BY <1>9, <1>10, <2>1 DEF Body
<1>11. CASE n <= 1
  <2>1. ~(n > 1)
    BY <1>11
  <2> QED
    BY <1>9, <1>11, <2>1 DEF Body
<1> QED
  BY <1>10, <1>11

LEMMA bitonicSortIn ==
  ASSUME NEW lo \in Nat, NEW n \in Nat, NEW dir \in BOOLEAN
  PROVE  bitonicSort[<<lo, n, dir>>] \in Seq(Within(lo, n))
<1> DEFINE Good(k) == \A a \in Nat, d \in BOOLEAN : bitonicSort[<<a, k, d>>] \in Seq(Within(a, k))
           Bad == {k \in Nat : ~Good(k)}
<1> SUFFICES ASSUME Bad # {} PROVE FALSE
  OBVIOUS
<1>1. PICK k \in Bad : \A l \in Bad : k <= l
  <2> HIDE DEF Bad
  <2>1. Bad \in SUBSET Nat
    BY DEF Bad
  <2> QED
    BY <2>1, LeastNat
<1>2. ASSUME NEW a \in Nat, NEW d \in BOOLEAN PROVE bitonicSort[<<a, k, d>>] \in Seq(Within(a, k))
  <2>1. CASE k <= 1
    <3>1. bitonicSort[<<a, k, d>>] = <<>>
      BY <2>1, bitonicSortIs
    <3> QED
      BY <3>1
  <2>2. CASE k > 1
    <3>1. PICK m : m = k \div 2
      OBVIOUS
    <3>2. m \in Nat /\ m > 0 /\ m < k /\ k - m \in Nat /\ k - m < k /\ (k - m) + m <= k /\ a + m \in Nat
      <4>1. k \in Nat
        OBVIOUS
      <4> HIDE DEF Bad
      <4> QED
        BY <2>2, <3>1, <4>1
    <3>3. bitonicSort[<<a, m, ~d>>] \in Seq(Within(a, k))
      <4>1. Good(m)
        BY <1>1, <3>2
      <4>2. bitonicSort[<<a, m, ~d>>] \in Seq(Within(a, m))
        BY <3>2, <4>1
      <4> QED
        BY <3>2, <4>2, WithinLarger
    <3>4. bitonicSort[<<a + m, k - m, d>>] \in Seq(Within(a, k))
      <4>1. Good(k - m)
        BY <1>1, <3>2
      <4>2. bitonicSort[<<a + m, k - m, d>>] \in Seq(Within(a + m, k - m))
        BY <3>2, <4>1
      <4> QED
        BY <3>2, <4>2, WithinLarger
    <3>5. bitonicMerge[<<a, k, d>>] \in Seq(Within(a, k))
      BY bitonicMergeIn
    <3>6. bitonicSort[<<a, k, d>>] = bitonicSort[<<a, m, ~d>>] \o bitonicSort[<<a + m, k - m, d>>] \o bitonicMerge[<<a, k, d>>]
      BY <2>2, <3>1, bitonicSortIs
    <3> QED
      BY <3>3, <3>4, <3>5, <3>6, NetsAppend
  <2> QED
    BY <2>1, <2>2
<1> QED
  BY <1>1, <1>2

LEMMA paddedMergeIs ==
  ASSUME NEW lo \in Nat, NEW n \in Nat, NEW dir \in BOOLEAN
  PROVE  /\ n <= 1 => paddedMerge[<<lo, n, dir>>] = <<>>
         /\ n > 1 => LET m == n \div 2
                     IN paddedMerge[<<lo, n, dir>>] =
                          HalfCompare(lo, m, m, dir) \o paddedMerge[<<lo, m, dir>>]
                            \o paddedMerge[<<lo + m, m, dir>>]
<1> DEFINE Body(g, p) ==
             LET m == p[2] \div 2
             IN IF p[2] > 1
                THEN HalfCompare(p[1], m, m, p[3]) \o g[<<p[1], m, p[3]>>]
                  \o g[<<p[1] + m, m, p[3]>>]
                ELSE <<>>
           D == [g \in [Pieces -> Nets] |-> [p \in Pieces |-> Body(g, p)]]
<1>1. ASSUME NEW p \in Pieces, p[2] > 1, NEW m, m = p[2] \div 2
      PROVE  /\ <<p[1], m, p[3]>> \in Pieces /\ PieceLength[<<p[1], m, p[3]>>] < PieceLength[p]
             /\ <<p[1] + m, m, p[3]>> \in Pieces /\ PieceLength[<<p[1] + m, m, p[3]>>] < PieceLength[p]
             /\ HalfCompare(p[1], m, m, p[3]) \in Nets
  <2>1. p[1] \in Nat /\ p[2] \in Nat /\ p[3] \in BOOLEAN /\ PieceLength[p] = p[2]
    BY PieceParts
  <2>2. m \in 1 .. p[2] - 1 /\ m + m <= p[2] /\ p[1] + m \in Nat /\ m \in Nat
    BY <1>1, <2>1
  <2>3. HalfCompare(p[1], m, m, p[3]) \in Nets
    <3>1. m > 0
      BY <2>2
    <3> QED
      BY <2>1, <2>2, <3>1, HalfCompareIn
  <2> QED
    BY <2>1, <2>2, <2>3, PieceParts
<1>2. ASSUME NEW g \in [Pieces -> Nets], NEW p \in Pieces PROVE Body(g, p) \in Nets
  <2>1. CASE p[2] > 1
    <3>1. PICK m : m = p[2] \div 2
      OBVIOUS
    <3>2. g[<<p[1], m, p[3]>>] \in Nets /\ g[<<p[1] + m, m, p[3]>>] \in Nets
      BY <1>1, <2>1, <3>1
    <3>3. HalfCompare(p[1], m, m, p[3]) \o g[<<p[1], m, p[3]>>]
            \o g[<<p[1] + m, m, p[3]>>] \in Nets
      BY <1>1, <2>1, <3>1, <3>2, NetsAppend DEF Nets
    <3> QED
      BY <2>1, <3>1, <3>3
  <2>2. CASE ~(p[2] > 1)
    BY <2>2 DEF Nets
  <2> QED
    BY <2>1, <2>2
<1>3. ASSUME NEW g \in [Pieces -> Nets], NEW h \in [Pieces -> Nets], NEW p \in Pieces,
             \A q \in Pieces : PieceLength[q] < PieceLength[p] => g[q] = h[q]
      PROVE  Body(g, p) = Body(h, p)
  <2>1. CASE p[2] > 1
    <3>1. PICK m : m = p[2] \div 2
      OBVIOUS
    <3>2. g[<<p[1], m, p[3]>>] = h[<<p[1], m, p[3]>>] /\ g[<<p[1] + m, m, p[3]>>] = h[<<p[1] + m, m, p[3]>>]
      BY <1>1, <1>3, <2>1, <3>1
    <3> QED
      BY <2>1, <3>1, <3>2
  <2>2. CASE ~(p[2] > 1)
    BY <2>2
  <2> QED
    BY <2>1, <2>2
<1> HIDE DEF Body
<1>4. D \in [[Pieces -> Nets] -> [Pieces -> Nets]]
  BY <1>2
<1>5. PICK f : Solution(Pieces, Nets, D, f)
  <2>1. \A g \in [Pieces -> Nets] : \A p \in Pieces : D[g][p] = Body(g, p)
    OBVIOUS
  <2> HIDE DEF D
  <2>2. ASSUME NEW g \in [Pieces -> Nets], NEW h \in [Pieces -> Nets], NEW p \in Pieces,
               \A q \in Pieces : PieceLength[q] < PieceLength[p] => g[q] = h[q]
        PROVE  D[g][p] = D[h][p]
    BY <1>3, <2>1, <2>2
  <2>3. PieceLength \in [Pieces -> Nat]
    BY PieceParts
  <2>4. Recursion(Pieces, Nets, PieceLength, D)
    BY <1>4, <2>2, <2>3 DEF Recursion
  <2> QED
    BY <2>4, NetRecursion
<1>7. f = [p \in Pieces |-> Body(f, p)]
  BY <1>5 DEF Solution
<1>8. paddedMerge = [p \in Pieces |-> Body(paddedMerge, p)]
  BY <1>7, Zenon DEF paddedMerge, Body
<1>9. paddedMerge[<<lo, n, dir>>] = Body(paddedMerge, <<lo, n, dir>>)
  BY <1>8, PieceParts
<1>10. CASE n > 1
  <2>1. ~(n <= 1)
    BY <1>10
  <2> QED
    BY <1>9, <1>10, <2>1 DEF Body
<1>11. CASE n <= 1
  <2>1. ~(n > 1)
    BY <1>11
  <2> QED
    BY <1>9, <1>11, <2>1 DEF Body
<1> QED
  BY <1>10, <1>11

LEMMA paddedMergeIn ==
  ASSUME NEW lo \in Nat, NEW n \in Nat, NEW dir \in BOOLEAN
  PROVE  paddedMerge[<<lo, n, dir>>] \in Seq(Within(lo, n))
<1> DEFINE Good(k) == \A a \in Nat, d \in BOOLEAN : paddedMerge[<<a, k, d>>] \in Seq(Within(a, k))
           Bad == {k \in Nat : ~Good(k)}
<1> SUFFICES ASSUME Bad # {} PROVE FALSE
  OBVIOUS
<1>1. PICK k \in Bad : \A l \in Bad : k <= l
  <2> HIDE DEF Bad
  <2>1. Bad \in SUBSET Nat
    BY DEF Bad
  <2> QED
    BY <2>1, LeastNat
<1>2. ASSUME NEW a \in Nat, NEW d \in BOOLEAN PROVE paddedMerge[<<a, k, d>>] \in Seq(Within(a, k))
  <2>1. CASE k <= 1
    <3>1. paddedMerge[<<a, k, d>>] = <<>>
      BY <2>1, paddedMergeIs
    <3> QED
      BY <3>1
  <2>2. CASE k > 1
    <3>1. PICK m : m = k \div 2
      OBVIOUS
    <3>2. m \in Nat /\ m > 0 /\ m < k /\ m + m <= k /\ a + m \in Nat
      <4>1. k \in Nat
        OBVIOUS
      <4> HIDE DEF Bad
      <4> QED
        BY <2>2, <3>1, <4>1
    <3>3. paddedMerge[<<a, m, d>>] \in Seq(Within(a, k))
      <4>1. Good(m)
        BY <1>1, <3>2
      <4>2. paddedMerge[<<a, m, d>>] \in Seq(Within(a, m))
        BY <3>2, <4>1
      <4> QED
        BY <3>2, <4>2, WithinLarger
    <3>4. paddedMerge[<<a + m, m, d>>] \in Seq(Within(a, k))
      <4>1. Good(m)
        BY <1>1, <3>2
      <4>2. paddedMerge[<<a + m, m, d>>] \in Seq(Within(a + m, m))
        BY <3>2, <4>1
      <4> QED
        BY <3>2, <4>2, WithinLarger
    <3>5. HalfCompare(a, m, m, d) \in Seq(Within(a, k))
      BY <3>2, HalfCompareIn
    <3>6. paddedMerge[<<a, k, d>>] = HalfCompare(a, m, m, d) \o paddedMerge[<<a, m, d>>] \o paddedMerge[<<a + m, m, d>>]
      BY <2>2, <3>1, paddedMergeIs
    <3> QED
      BY <3>3, <3>4, <3>5, <3>6, NetsAppend
  <2> QED
    BY <2>1, <2>2
<1> QED
  BY <1>1, <1>2

LEMMA paddedSortIs ==
  ASSUME NEW lo \in Nat, NEW n \in Nat, NEW dir \in BOOLEAN
  PROVE  /\ n <= 1 => paddedSort[<<lo, n, dir>>] = <<>>
         /\ n > 1 => LET m == n \div 2
                     IN paddedSort[<<lo, n, dir>>] =
                          paddedSort[<<lo, m, TRUE>>] \o paddedSort[<<lo + m, m, FALSE>>]
                            \o paddedMerge[<<lo, n, dir>>]
<1> DEFINE Body(g, p) ==
             LET m == p[2] \div 2
             IN IF p[2] > 1
                THEN g[<<p[1], m, TRUE>>] \o g[<<p[1] + m, m, FALSE>>]
                  \o paddedMerge[<<p[1], p[2], p[3]>>]
                ELSE <<>>
           D == [g \in [Pieces -> Nets] |-> [p \in Pieces |-> Body(g, p)]]
<1>1. ASSUME NEW p \in Pieces, p[2] > 1, NEW m, m = p[2] \div 2
      PROVE  /\ <<p[1], m, TRUE>> \in Pieces /\ PieceLength[<<p[1], m, TRUE>>] < PieceLength[p]
             /\ <<p[1] + m, m, FALSE>> \in Pieces /\ PieceLength[<<p[1] + m, m, FALSE>>] < PieceLength[p]
             /\ paddedMerge[<<p[1], p[2], p[3]>>] \in Nets
  <2>1. p[1] \in Nat /\ p[2] \in Nat /\ p[3] \in BOOLEAN /\ PieceLength[p] = p[2]
    BY PieceParts
  <2>2. m \in 1 .. p[2] - 1 /\ m + m <= p[2] /\ p[1] + m \in Nat /\ m \in Nat
    BY <1>1, <2>1
  <2>3. paddedMerge[<<p[1], p[2], p[3]>>] \in Nets
    BY <2>1, paddedMergeIn, WithinNets
  <2>4. ASSUME NEW d \in BOOLEAN
        PROVE  /\ <<p[1], m, d>> \in Pieces /\ PieceLength[<<p[1], m, d>>] = m
               /\ <<p[1] + m, m, d>> \in Pieces /\ PieceLength[<<p[1] + m, m, d>>] = m
    BY <2>1, <2>2, PieceParts
  <2>5. TRUE \in BOOLEAN /\ FALSE \in BOOLEAN
    BY Zenon
  <2>6. /\ <<p[1], m, TRUE>> \in Pieces /\ PieceLength[<<p[1], m, TRUE>>] = m
        /\ <<p[1] + m, m, FALSE>> \in Pieces /\ PieceLength[<<p[1] + m, m, FALSE>>] = m
    BY <2>4, <2>5, Zenon
  <2>7. m < PieceLength[p]
    BY <2>1, <2>2
  <2> QED
    BY <2>3, <2>6, <2>7, Zenon
<1>2. ASSUME NEW g \in [Pieces -> Nets], NEW p \in Pieces PROVE Body(g, p) \in Nets
  <2>1. CASE p[2] > 1
    <3>1. PICK m : m = p[2] \div 2
      OBVIOUS
    <3>2. g[<<p[1], m, TRUE>>] \in Nets /\ g[<<p[1] + m, m, FALSE>>] \in Nets
      BY <1>1, <2>1, <3>1
    <3>3. g[<<p[1], m, TRUE>>] \o g[<<p[1] + m, m, FALSE>>]
            \o paddedMerge[<<p[1], p[2], p[3]>>] \in Nets
      BY <1>1, <2>1, <3>1, <3>2, NetsAppend DEF Nets
    <3> QED
      BY <2>1, <3>1, <3>3
  <2>2. CASE ~(p[2] > 1)
    BY <2>2 DEF Nets
  <2> QED
    BY <2>1, <2>2
<1>3. ASSUME NEW g \in [Pieces -> Nets], NEW h \in [Pieces -> Nets], NEW p \in Pieces,
             \A q \in Pieces : PieceLength[q] < PieceLength[p] => g[q] = h[q]
      PROVE  Body(g, p) = Body(h, p)
  <2>1. CASE p[2] > 1
    <3>1. PICK m : m = p[2] \div 2
      OBVIOUS
    <3>2. g[<<p[1], m, TRUE>>] = h[<<p[1], m, TRUE>>] /\ g[<<p[1] + m, m, FALSE>>] = h[<<p[1] + m, m, FALSE>>]
      BY <1>1, <1>3, <2>1, <3>1
    <3> QED
      BY <2>1, <3>1, <3>2
  <2>2. CASE ~(p[2] > 1)
    BY <2>2
  <2> QED
    BY <2>1, <2>2
<1> HIDE DEF Body
<1>4. D \in [[Pieces -> Nets] -> [Pieces -> Nets]]
  BY <1>2
<1>5. PICK f : Solution(Pieces, Nets, D, f)
  <2>1. \A g \in [Pieces -> Nets] : \A p \in Pieces : D[g][p] = Body(g, p)
    OBVIOUS
  <2> HIDE DEF D
  <2>2. ASSUME NEW g \in [Pieces -> Nets], NEW h \in [Pieces -> Nets], NEW p \in Pieces,
               \A q \in Pieces : PieceLength[q] < PieceLength[p] => g[q] = h[q]
        PROVE  D[g][p] = D[h][p]
    BY <1>3, <2>1, <2>2
  <2>3. PieceLength \in [Pieces -> Nat]
    BY PieceParts
  <2>4. Recursion(Pieces, Nets, PieceLength, D)
    BY <1>4, <2>2, <2>3 DEF Recursion
  <2> QED
    BY <2>4, NetRecursion
<1>7. f = [p \in Pieces |-> Body(f, p)]
  BY <1>5 DEF Solution
<1>8. paddedSort = [p \in Pieces |-> Body(paddedSort, p)]
  BY <1>7, Zenon DEF paddedSort, Body
<1>9. paddedSort[<<lo, n, dir>>] = Body(paddedSort, <<lo, n, dir>>)
  BY <1>8, PieceParts
<1>10. CASE n > 1
  <2>1. ~(n <= 1)
    BY <1>10
  <2> QED
    BY <1>9, <1>10, <2>1 DEF Body
<1>11. CASE n <= 1
  <2>1. ~(n > 1)
    BY <1>11
  <2> QED
    BY <1>9, <1>11, <2>1 DEF Body
<1> QED
  BY <1>10, <1>11

LEMMA paddedSortIn ==
  ASSUME NEW lo \in Nat, NEW n \in Nat, NEW dir \in BOOLEAN
  PROVE  paddedSort[<<lo, n, dir>>] \in Seq(Within(lo, n))
<1> DEFINE Good(k) == \A a \in Nat, d \in BOOLEAN : paddedSort[<<a, k, d>>] \in Seq(Within(a, k))
           Bad == {k \in Nat : ~Good(k)}
<1> SUFFICES ASSUME Bad # {} PROVE FALSE
  OBVIOUS
<1>1. PICK k \in Bad : \A l \in Bad : k <= l
  <2> HIDE DEF Bad
  <2>1. Bad \in SUBSET Nat
    BY DEF Bad
  <2> QED
    BY <2>1, LeastNat
<1>2. ASSUME NEW a \in Nat, NEW d \in BOOLEAN PROVE paddedSort[<<a, k, d>>] \in Seq(Within(a, k))
  <2>1. CASE k <= 1
    <3>1. paddedSort[<<a, k, d>>] = <<>>
      BY <2>1, paddedSortIs
    <3> QED
      BY <3>1
  <2>2. CASE k > 1
    <3>1. PICK m : m = k \div 2
      OBVIOUS
    <3>2. m \in Nat /\ m > 0 /\ m < k /\ m + m <= k /\ a + m \in Nat
      <4>1. k \in Nat
        OBVIOUS
      <4> HIDE DEF Bad
      <4> QED
        BY <2>2, <3>1, <4>1
    <3>3. paddedSort[<<a, m, TRUE>>] \in Seq(Within(a, k))
      <4>1. Good(m)
        BY <1>1, <3>2
      <4>2. paddedSort[<<a, m, TRUE>>] \in Seq(Within(a, m))
        BY <3>2, <4>1
      <4> QED
        BY <3>2, <4>2, WithinLarger
    <3>4. paddedSort[<<a + m, m, FALSE>>] \in Seq(Within(a, k))
      <4>1. Good(m)
        BY <1>1, <3>2
      <4>2. paddedSort[<<a + m, m, FALSE>>] \in Seq(Within(a + m, m))
        BY <3>2, <4>1
      <4> QED
        BY <3>2, <4>2, WithinLarger
    <3>5. paddedMerge[<<a, k, d>>] \in Seq(Within(a, k))
      BY paddedMergeIn
    <3>6. paddedSort[<<a, k, d>>] = paddedSort[<<a, m, TRUE>>] \o paddedSort[<<a + m, m, FALSE>>] \o paddedMerge[<<a, k, d>>]
      BY <2>2, <3>1, paddedSortIs
    <3> QED
      BY <3>3, <3>4, <3>5, <3>6, NetsAppend
  <2> QED
    BY <2>1, <2>2
<1> QED
  BY <1>1, <1>2

\* The distance still to go, by which oddEvenMerge decreases.
StrideLeft == [p \in Strided |-> IF p[3] < p[2] THEN p[2] - p[3] ELSE 0]

\* The last loop of oddEvenMerge: `for (i = lo + r; i + r < lo + n; i += m)`.
OddLoop(lo, n, r) ==
  [k \in 1 .. (n - 1) \div (2 * r) |->
     <<lo + r + (k - 1) * (2 * r), lo + r + (k - 1) * (2 * r) + r, TRUE>>]

LEMMA Quotient ==
  ASSUME NEW n \in Nat, NEW m \in Nat \ {0}
  PROVE  n \div m \in Nat /\ \A k \in Nat : k <= n \div m => k * m <= n
OBVIOUS

LEMMA ProductUp == \A a, b, m \in Nat : a * m \in Nat /\ (a <= b => a * m <= b * m)
OBVIOUS

\* Each of its compares lies below the end of the piece.
LEMMA OddLoopIn ==
  ASSUME NEW lo \in Nat, NEW n \in Nat \ {0}, NEW r \in Nat \ {0}
  PROVE  /\ OddLoop(lo, n, r) \in Nets
         /\ \A q \in Nat : n = q * (2 * r) => OddLoop(lo, n, r) \in Seq(Within(lo, n - r + 1))
<1> DEFINE m == 2 * r
           count == (n - 1) \div m
           e(k) == <<lo + r + (k - 1) * m, lo + r + (k - 1) * m + r, TRUE>>
<1>1. m \in Nat \ {0} /\ n - 1 \in Nat
  OBVIOUS
<1>2. count \in Nat /\ \A k \in Nat : k <= count => k * m <= n - 1
  <2> HIDE DEF m
  <2> QED
    BY <1>1, Quotient
<1>3. ASSUME NEW k \in 1 .. count
      PROVE  (k - 1) * m \in Nat /\ (k - 1) * m + m = k * m
  <2>1. k - 1 \in Nat /\ (k - 1) + 1 = k
    BY <1>2
  <2>2. (k - 1) * m \in Nat
    BY <1>1, <2>1, ProductUp
  <2> HIDE DEF m
  <2> QED
    BY <1>1, <2>1, <2>2
<1>t. TRUE \in BOOLEAN
  BY Zenon
<1>4. ASSUME NEW k \in 1 .. count PROVE e(k) \in Nat \X Nat \X BOOLEAN
  <2>1. lo + r + (k - 1) * m \in Nat /\ lo + r + (k - 1) * m + r \in Nat
    BY <1>3
  <2> QED
    BY <1>t, <2>1, Zenon
<1>5. [k \in 1 .. count |-> e(k)] \in Nets
  <2> HIDE DEF e, count
  <2> QED
    BY <1>2, <1>4 DEF Nets
<1>6. ASSUME NEW q \in Nat, n = q * m PROVE [k \in 1 .. count |-> e(k)] \in Seq(Within(lo, n - r + 1))
  <2>1. ASSUME NEW k \in 1 .. count PROVE e(k) \in Within(lo, n - r + 1)
    <3>1. k \in Nat /\ k * m <= n - 1 /\ k * m \in Nat
      BY <1>1, <1>2, ProductUp
    <3>2. q - 1 \in Nat /\ k <= q - 1
      <4>1. ~(q <= k)
        <5>1. q <= k => q * m <= k * m
          BY <1>1, <3>1, ProductUp
        <5> HIDE DEF m
        <5> QED
          BY <1>6, <3>1, <5>1
      <4> QED
        BY <3>1, <4>1
    <3>3. (q - 1) * m + m = q * m
      <4> HIDE DEF m
      <4> QED
        BY <1>1, <3>2
    <3>4. k * m <= (q - 1) * m
      BY <1>1, <3>1, <3>2, ProductUp
    <3>5. PICK x : x = (k - 1) * m
      OBVIOUS
    <3>6. x \in Nat /\ x + m <= n - m
      <4>1. (q - 1) * m \in Nat
        BY <1>1, <3>2, ProductUp
      <4> HIDE DEF m
      <4> QED
        BY <1>1, <1>3, <1>6, <3>1, <3>3, <3>4, <3>5, <4>1
    <3>7. lo + r + x + r < lo + (n - r + 1) /\ lo <= lo + r + x /\ lo + r + x < lo + r + x + r
      BY <3>6
    <3>8. e(k)[1] = lo + r + x /\ e(k)[2] = lo + r + x + r
      BY <3>5
    <3>9. PICK c : c = e(k)
      OBVIOUS
    <3>10. c \in Nat \X Nat \X BOOLEAN
      BY <1>4, <3>9, Zenon
    <3> HIDE DEF e
    <3> QED
      BY <3>7, <3>8, <3>9, <3>10 DEF Within
  <2> HIDE DEF e, count
  <2> QED
    BY <1>2, <2>1
<1>7. OddLoop(lo, n, r) = [k \in 1 .. count |-> e(k)]
  BY DEF OddLoop
<1> QED
  BY <1>5, <1>6, <1>7

LEMMA oddEvenMergeIs ==
  \A lo, n \in Nat, r \in Nat \ {0} :
       oddEvenMerge[<<lo, n, r>>] =
         IF 2 * r < n
         THEN oddEvenMerge[<<lo, n, 2 * r>>] \o oddEvenMerge[<<lo + r, n, 2 * r>>] \o OddLoop(lo, n, r)
         ELSE << <<lo, lo + r, TRUE>> >>
<1> DEFINE Body(g, p) ==
             IF 2 * p[3] < p[2]
             THEN g[<<p[1], p[2], 2 * p[3]>>] \o g[<<p[1] + p[3], p[2], 2 * p[3]>>]
                    \o OddLoop(p[1], p[2], p[3])
             ELSE << <<p[1], p[1] + p[3], TRUE>> >>
           D == [g \in [Strided -> Nets] |-> [p \in Strided |-> Body(g, p)]]
<1>1. ASSUME NEW p \in Strided PROVE p[1] \in Nat /\ p[2] \in Nat /\ p[3] \in Nat \ {0} /\ p = <<p[1], p[2], p[3]>>
  BY DEF Strided
<1>s. StrideLeft \in [Strided -> Nat]
  <2>1. \A p \in Strided : (IF p[3] < p[2] THEN p[2] - p[3] ELSE 0) \in Nat
    BY <1>1
  <2> QED
    BY <2>1 DEF StrideLeft
<1>2. ASSUME NEW p \in Strided, 2 * p[3] < p[2]
      PROVE  /\ <<p[1], p[2], 2 * p[3]>> \in Strided /\ StrideLeft[<<p[1], p[2], 2 * p[3]>>] < StrideLeft[p]
             /\ <<p[1] + p[3], p[2], 2 * p[3]>> \in Strided
             /\ StrideLeft[<<p[1] + p[3], p[2], 2 * p[3]>>] < StrideLeft[p]
  <2>1. ASSUME NEW a \in Nat
        PROVE  <<a, p[2], 2 * p[3]>> \in Strided /\ StrideLeft[<<a, p[2], 2 * p[3]>>] < StrideLeft[p]
    <3>1. <<a, p[2], 2 * p[3]>> \in Strided
      BY <1>1 DEF Strided
    <3>2. StrideLeft[<<a, p[2], 2 * p[3]>>] = p[2] - 2 * p[3]
      BY <1>2, <3>1 DEF StrideLeft
    <3>3. p[3] < p[2]
      BY <1>1, <1>2
    <3>4. StrideLeft[p] = p[2] - p[3]
      BY <3>3 DEF StrideLeft
    <3> QED
      BY <1>1, <1>2, <3>1, <3>2, <3>4
  <2>2. p[1] + p[3] \in Nat
    BY <1>1
  <2> QED
    BY <1>1, <2>1, <2>2
<1>3. ASSUME NEW g \in [Strided -> Nets], NEW p \in Strided PROVE Body(g, p) \in Nets
  <2>1. CASE 2 * p[3] < p[2]
    <3>1. g[<<p[1], p[2], 2 * p[3]>>] \in Nets /\ g[<<p[1] + p[3], p[2], 2 * p[3]>>] \in Nets
      BY <1>2, <2>1
    <3>2. OddLoop(p[1], p[2], p[3]) \in Nets
      <4>1. p[2] \in Nat \ {0}
        BY <1>1, <2>1
      <4> QED
        BY <1>1, <4>1, OddLoopIn
    <3>3. g[<<p[1], p[2], 2 * p[3]>>] \o g[<<p[1] + p[3], p[2], 2 * p[3]>>] \o OddLoop(p[1], p[2], p[3]) \in Nets
      BY <3>1, <3>2, NetsAppend DEF Nets
    <3> QED
      BY <2>1, <3>3
  <2>2. CASE ~(2 * p[3] < p[2])
    <3>1. TRUE \in BOOLEAN
      BY Zenon
    <3>2. p[1] + p[3] \in Nat
      BY <1>1
    <3>3. <<p[1], p[1] + p[3], TRUE>> \in Nat \X Nat \X BOOLEAN
      BY <1>1, <3>1, <3>2, Zenon
    <3>4. PICK c : c = <<p[1], p[1] + p[3], TRUE>>
      OBVIOUS
    <3>5. <<c>> \in Nets
      BY <3>3, <3>4 DEF Nets
    <3> QED
      BY <2>2, <3>4, <3>5
  <2> QED
    BY <2>1, <2>2
<1>4. ASSUME NEW g \in [Strided -> Nets], NEW h \in [Strided -> Nets], NEW p \in Strided,
             \A q \in Strided : StrideLeft[q] < StrideLeft[p] => g[q] = h[q]
      PROVE  Body(g, p) = Body(h, p)
  <2>1. CASE 2 * p[3] < p[2]
    <3>1. /\ g[<<p[1], p[2], 2 * p[3]>>] = h[<<p[1], p[2], 2 * p[3]>>]
          /\ g[<<p[1] + p[3], p[2], 2 * p[3]>>] = h[<<p[1] + p[3], p[2], 2 * p[3]>>]
      BY <1>2, <1>4, <2>1
    <3> QED
      BY <2>1, <3>1
  <2>2. CASE ~(2 * p[3] < p[2])
    BY <2>2
  <2> QED
    BY <2>1, <2>2
<1> HIDE DEF Body
<1>5. D \in [[Strided -> Nets] -> [Strided -> Nets]]
  BY <1>3
<1>6. PICK f : Solution(Strided, Nets, D, f)
  <2>1. \A g \in [Strided -> Nets] : \A p \in Strided : D[g][p] = Body(g, p)
    OBVIOUS
  <2> HIDE DEF D
  <2>2. ASSUME NEW g \in [Strided -> Nets], NEW h \in [Strided -> Nets], NEW p \in Strided,
               \A q \in Strided : StrideLeft[q] < StrideLeft[p] => g[q] = h[q]
        PROVE  D[g][p] = D[h][p]
    BY <1>4, <2>1, <2>2
  <2>3. Recursion(Strided, Nets, StrideLeft, D)
    BY <1>5, <1>s, <2>2 DEF Recursion
  <2> QED
    BY <2>3, NetRecursion
<1>7. f = [p \in Strided |-> Body(f, p)] /\ f \in [Strided -> Nets]
  BY <1>6 DEF Solution
<1> DEFINE Solved(g) == g = [p \in Strided |-> Body(g, p)]
<1>8. oddEvenMerge = CHOOSE g : Solved(g)
  BY Zenon DEF oddEvenMerge, Body, OddLoop
<1>9. Solved(oddEvenMerge)
  <2>1. \E g : Solved(g)
    BY <1>7
  <2> HIDE DEF Solved
  <2> QED
    BY <1>8, <2>1
<1>10. ASSUME NEW lo \in Nat, NEW n \in Nat, NEW r \in Nat \ {0}
       PROVE  oddEvenMerge[<<lo, n, r>>] = Body(oddEvenMerge, <<lo, n, r>>)
  <2>1. <<lo, n, r>> \in Strided
    BY DEF Strided
  <2> QED
    BY <1>9, <2>1
<1> QED
  BY <1>10 DEF Body

LEMMA oddEvenMergeNets ==
  ASSUME NEW lo \in Nat, NEW n \in Nat, NEW r \in Nat \ {0}
  PROVE  oddEvenMerge[<<lo, n, r>>] \in Nets
<1> DEFINE Left(s) == IF s < n THEN n - s ELSE 0
           Bad == {k \in Nat : \E a \in Nat, s \in Nat \ {0} : k = Left(s) /\ oddEvenMerge[<<a, n, s>>] \notin Nets}
<1>1. ASSUME Bad # {} PROVE FALSE
  <2>1. PICK k \in Bad : \A l \in Bad : k <= l
    <3> HIDE DEF Bad
    <3>1. Bad \in SUBSET Nat
      BY DEF Bad
    <3> QED
      BY <1>1, <3>1, LeastNat
  <2>2. PICK a \in Nat, s \in Nat \ {0} : k = Left(s) /\ oddEvenMerge[<<a, n, s>>] \notin Nets
    BY <2>1
  <2>3. CASE 2 * s < n
    <3>1. Left(2 * s) \in Nat /\ Left(2 * s) < k
      BY <2>2, <2>3
    <3>2. 2 * s \in Nat \ {0} /\ a + s \in Nat
      OBVIOUS
    <3>3. Left(2 * s) \notin Bad
      <4>1. ASSUME NEW l \in Nat, l < k PROVE l \notin Bad
        <5> HIDE DEF Bad, Left
        <5>1. k \in Nat
          BY DEF Bad
        <5> QED
          BY <2>1, <4>1, <5>1
      <4> HIDE DEF Bad, Left
      <4> QED
        BY <3>1, <4>1
    <3>4. oddEvenMerge[<<a, n, 2 * s>>] \in Nets /\ oddEvenMerge[<<a + s, n, 2 * s>>] \in Nets
      BY <3>1, <3>2, <3>3
    <3>5. OddLoop(a, n, s) \in Nets
      <4>1. n \in Nat \ {0}
        BY <2>3
      <4> QED
        BY <4>1, OddLoopIn
    <3>6. oddEvenMerge[<<a, n, s>>] = oddEvenMerge[<<a, n, 2 * s>>] \o oddEvenMerge[<<a + s, n, 2 * s>>] \o OddLoop(a, n, s)
      BY <2>3, oddEvenMergeIs
    <3> QED
      BY <2>2, <3>4, <3>5, <3>6, NetsAppend DEF Nets
  <2>4. CASE ~(2 * s < n)
    <3>1. TRUE \in BOOLEAN
      BY Zenon
    <3>2. a + s \in Nat
      OBVIOUS
    <3>3. <<a, a + s, TRUE>> \in Nat \X Nat \X BOOLEAN
      BY <3>1, <3>2, Zenon
    <3>4. PICK c : c = <<a, a + s, TRUE>>
      OBVIOUS
    <3>5. <<c>> \in Nets
      BY <3>3, <3>4 DEF Nets
    <3>6. oddEvenMerge[<<a, n, s>>] = <<c>>
      BY <2>4, <3>4, oddEvenMergeIs
    <3> QED
      BY <2>2, <3>5, <3>6
  <2> QED
    BY <2>3, <2>4
<1>2. Left(r) \in Nat
  OBVIOUS
<1> HIDE DEF Left
<1> QED
  BY <1>1, <1>2

\* The places r apart, of which there are a power of two, are merged in place.
LEMMA oddEvenMergeIn ==
  ASSUME NEW lo \in Nat, NEW r \in Nat \ {0}, NEW j \in Nat
  PROVE  LET n == r * (2 * Doubled[j])
         IN oddEvenMerge[<<lo, n, r>>] \in Seq(Within(lo, n - r + 1)) /\ n \in Nat /\ n > r
<1> DEFINE size(i, s) == s * (2 * Doubled[i])
           T == {i \in Nat : \A a \in Nat, s \in Nat \ {0} :
                   /\ size(i, s) \in Nat /\ size(i, s) > s
                   /\ oddEvenMerge[<<a, size(i, s), s>>] \in Seq(Within(a, size(i, s) - s + 1))}
<1>1. 0 \in T
  <2> SUFFICES ASSUME NEW a \in Nat, NEW s \in Nat \ {0}
               PROVE  /\ size(0, s) \in Nat /\ size(0, s) > s
                      /\ oddEvenMerge[<<a, size(0, s), s>>] \in Seq(Within(a, size(0, s) - s + 1))
    OBVIOUS
  <2>1. size(0, s) = 2 * s
    BY DoubledFacts
  <2>2. TRUE \in BOOLEAN
    BY Zenon
  <2>3. a + s \in Nat
    OBVIOUS
  <2>4. <<a, a + s, TRUE>> \in Nat \X Nat \X BOOLEAN
    BY <2>2, <2>3, Zenon
  <2>5. PICK c : c = <<a, a + s, TRUE>>
    OBVIOUS
  <2>6. c[1] = a /\ c[2] = a + s
    BY <2>5
  <2>7. c \in Within(a, 2 * s - s + 1)
    BY <2>4, <2>5, <2>6 DEF Within
  <2>8. oddEvenMerge[<<a, 2 * s, s>>] = <<c>>
    <3>1. 2 * s \in Nat /\ ~(2 * s < 2 * s)
      OBVIOUS
    <3> QED
      BY <2>5, <3>1, oddEvenMergeIs
  <2>9. <<c>> \in Seq(Within(a, 2 * s - s + 1))
    BY <2>7
  <2>10. 2 * s \in Nat /\ 2 * s > s
    OBVIOUS
  <2> HIDE DEF size
  <2> QED
    BY <2>1, <2>8, <2>9, <2>10, Zenon
<1>2. ASSUME NEW i \in T PROVE i + 1 \in T
  <2> SUFFICES ASSUME NEW a \in Nat, NEW s \in Nat \ {0}
               PROVE  /\ size(i + 1, s) \in Nat /\ size(i + 1, s) > s
                      /\ oddEvenMerge[<<a, size(i + 1, s), s>>] \in Seq(Within(a, size(i + 1, s) - s + 1))
    OBVIOUS
  <2>1. PICK n : n = size(i + 1, s)
    OBVIOUS
  <2>3. 2 * s \in Nat \ {0} /\ a + s \in Nat /\ i \in Nat /\ 2 * Doubled[i] \in Nat
    <3>1. i \in Nat
      OBVIOUS
    <3> HIDE DEF T
    <3> QED
      BY <3>1, DoubledFacts
  <2>2. n = size(i, 2 * s) /\ n = (2 * Doubled[i]) * (2 * s)
    <3>1. i \in Nat
      OBVIOUS
    <3>2. PICK d : d = Doubled[i]
      OBVIOUS
    <3>3. d \in Nat /\ Doubled[i + 1] = 2 * d
      BY <3>1, <3>2, DoubledFacts
    <3> HIDE DEF T
    <3>4. s * (2 * (2 * d)) = (2 * s) * (2 * d) /\ (2 * s) * (2 * d) = (2 * d) * (2 * s)
      BY <3>3
    <3> QED
      BY <2>1, <3>2, <3>3, <3>4
  <2>4. n \in Nat /\ n > 2 * s
    BY <2>2, <2>3
  <2>5. /\ oddEvenMerge[<<a, n, 2 * s>>] \in Seq(Within(a, n - 2 * s + 1))
        /\ oddEvenMerge[<<a + s, n, 2 * s>>] \in Seq(Within(a + s, n - 2 * s + 1))
    BY <2>2, <2>3
  <2> HIDE DEF T, size
  <2>6. /\ oddEvenMerge[<<a, n, 2 * s>>] \in Seq(Within(a, n - s + 1))
        /\ oddEvenMerge[<<a + s, n, 2 * s>>] \in Seq(Within(a, n - s + 1))
    <3>1. n - 2 * s + 1 \in Nat /\ n - s + 1 \in Nat
      BY <2>4
    <3>2. a + (n - 2 * s + 1) <= a + (n - s + 1) /\ a + s + (n - 2 * s + 1) <= a + (n - s + 1)
      BY <2>4
    <3>3. a <= a + s /\ a <= a
      OBVIOUS
    <3>4. oddEvenMerge[<<a, n, 2 * s>>] \in Seq(Within(a, n - s + 1))
      BY <2>5, <3>1, <3>2, <3>3, WithinLarger
    <3>5. oddEvenMerge[<<a + s, n, 2 * s>>] \in Seq(Within(a, n - s + 1))
      BY <2>3, <2>5, <3>1, <3>2, <3>3, WithinLarger
    <3> QED
      BY <3>4, <3>5
  <2>7. OddLoop(a, n, s) \in Seq(Within(a, n - s + 1))
    <3>1. n \in Nat \ {0}
      BY <2>4
    <3> QED
      BY <2>2, <2>3, <3>1, OddLoopIn
  <2>8. oddEvenMerge[<<a, n, s>>] = oddEvenMerge[<<a, n, 2 * s>>] \o oddEvenMerge[<<a + s, n, 2 * s>>] \o OddLoop(a, n, s)
    BY <2>4, oddEvenMergeIs
  <2>9. oddEvenMerge[<<a, n, s>>] \in Seq(Within(a, n - s + 1))
    BY <2>6, <2>7, <2>8, NetsAppend
  <2>10. n > s
    BY <2>4
  <2> QED
    BY <2>1, <2>4, <2>9, <2>10
<1>3. T = Nat
  <2> HIDE DEF T
  <2>1. T \in SUBSET Nat
    BY DEF T
  <2> QED
    BY <1>1, <1>2, <2>1, AllNat
<1>4. j \in T
  BY <1>3
<1> QED
  BY <1>4

\* What oddEvenMergeSort is called for, and how it decreases.
Halves == Nat \X Nat
HalfLength == [p \in Halves |-> p[2]]

LEMMA oddEvenMergeSortIs ==
  \A lo, n \in Nat :
    LET m == n \div 2
    IN oddEvenMergeSort[<<lo, n>>] =
         IF n > 1
         THEN oddEvenMergeSort[<<lo, m>>] \o oddEvenMergeSort[<<lo + m, m>>] \o oddEvenMerge[<<lo, n, 1>>]
         ELSE <<>>
<1> DEFINE Body(g, p) ==
             LET m == p[2] \div 2
             IN IF p[2] > 1
                THEN g[<<p[1], m>>] \o g[<<p[1] + m, m>>] \o oddEvenMerge[<<p[1], p[2], 1>>]
                ELSE <<>>
           D == [g \in [Halves -> Nets] |-> [p \in Halves |-> Body(g, p)]]
<1>1. \A p \in Halves : p[1] \in Nat /\ p[2] \in Nat /\ p = <<p[1], p[2]>> /\ HalfLength[p] = p[2]
  BY DEF Halves, HalfLength
<1>s. HalfLength \in [Halves -> Nat]
  BY <1>1 DEF HalfLength
<1>2. ASSUME NEW p \in Halves, p[2] > 1, NEW m, m = p[2] \div 2
      PROVE  /\ <<p[1], m>> \in Halves /\ HalfLength[<<p[1], m>>] < HalfLength[p]
             /\ <<p[1] + m, m>> \in Halves /\ HalfLength[<<p[1] + m, m>>] < HalfLength[p]
  <2>1. p[1] \in Nat /\ m \in Nat /\ m < p[2] /\ p[1] + m \in Nat
    BY <1>1, <1>2
  <2>2. <<p[1], m>> \in Halves /\ <<p[1] + m, m>> \in Halves
    BY <2>1 DEF Halves
  <2> QED
    BY <1>1, <2>1, <2>2
<1>3. ASSUME NEW g \in [Halves -> Nets], NEW p \in Halves PROVE Body(g, p) \in Nets
  <2>1. CASE p[2] > 1
    <3>1. PICK m : m = p[2] \div 2
      OBVIOUS
    <3>2. g[<<p[1], m>>] \in Nets /\ g[<<p[1] + m, m>>] \in Nets
      BY <1>2, <2>1, <3>1
    <3>3. oddEvenMerge[<<p[1], p[2], 1>>] \in Nets
      BY <1>1, oddEvenMergeNets
    <3>4. g[<<p[1], m>>] \o g[<<p[1] + m, m>>] \o oddEvenMerge[<<p[1], p[2], 1>>] \in Nets
      BY <3>2, <3>3, NetsAppend DEF Nets
    <3> QED
      BY <2>1, <3>1, <3>4
  <2>2. CASE ~(p[2] > 1)
    BY <2>2 DEF Nets
  <2> QED
    BY <2>1, <2>2
<1>4. ASSUME NEW g \in [Halves -> Nets], NEW h \in [Halves -> Nets], NEW p \in Halves,
             \A q \in Halves : HalfLength[q] < HalfLength[p] => g[q] = h[q]
      PROVE  Body(g, p) = Body(h, p)
  <2>1. CASE p[2] > 1
    <3>1. PICK m : m = p[2] \div 2
      OBVIOUS
    <3>2. g[<<p[1], m>>] = h[<<p[1], m>>] /\ g[<<p[1] + m, m>>] = h[<<p[1] + m, m>>]
      BY <1>2, <1>4, <2>1, <3>1
    <3> QED
      BY <2>1, <3>1, <3>2
  <2>2. CASE ~(p[2] > 1)
    BY <2>2
  <2> QED
    BY <2>1, <2>2
<1> HIDE DEF Body
<1>5. D \in [[Halves -> Nets] -> [Halves -> Nets]]
  BY <1>3
<1>6. PICK f : Solution(Halves, Nets, D, f)
  <2>1. \A g \in [Halves -> Nets] : \A p \in Halves : D[g][p] = Body(g, p)
    OBVIOUS
  <2> HIDE DEF D
  <2>2. ASSUME NEW g \in [Halves -> Nets], NEW h \in [Halves -> Nets], NEW p \in Halves,
               \A q \in Halves : HalfLength[q] < HalfLength[p] => g[q] = h[q]
        PROVE  D[g][p] = D[h][p]
    BY <1>4, <2>1, <2>2
  <2>3. Recursion(Halves, Nets, HalfLength, D)
    BY <1>5, <1>s, <2>2 DEF Recursion
  <2> QED
    BY <2>3, NetRecursion
<1>7. f = [p \in Halves |-> Body(f, p)]
  BY <1>6 DEF Solution
<1>8. oddEvenMergeSort = [p \in Halves |-> Body(oddEvenMergeSort, p)]
  BY <1>7, Zenon DEF oddEvenMergeSort, Body, Halves
<1>9. ASSUME NEW lo \in Nat, NEW n \in Nat
      PROVE  oddEvenMergeSort[<<lo, n>>] = Body(oddEvenMergeSort, <<lo, n>>)
  <2>1. <<lo, n>> \in Halves
    BY DEF Halves
  <2> QED
    BY <1>8, <2>1
<1> QED
  BY <1>9 DEF Body

LEMMA oddEvenMergeSortIn ==
  ASSUME NEW lo \in Nat, NEW j \in Nat
  PROVE  oddEvenMergeSort[<<lo, Doubled[j]>>] \in Seq(Within(lo, Doubled[j]))
<1> DEFINE T == {i \in Nat : \A a \in Nat : oddEvenMergeSort[<<a, Doubled[i]>>] \in Seq(Within(a, Doubled[i]))}
<1>1. 0 \in T
  <2>1. ASSUME NEW a \in Nat PROVE oddEvenMergeSort[<<a, Doubled[0]>>] \in Seq(Within(a, Doubled[0]))
    <3>1. Doubled[0] \in Nat /\ ~(Doubled[0] > 1)
      BY DoubledFacts
    <3>2. oddEvenMergeSort[<<a, Doubled[0]>>] = <<>>
      BY <3>1, oddEvenMergeSortIs
    <3> QED
      BY <3>2
  <2> QED
    BY <2>1
<1>2. ASSUME NEW i \in T PROVE i + 1 \in T
  <2> SUFFICES ASSUME NEW a \in Nat
               PROVE  oddEvenMergeSort[<<a, Doubled[i + 1]>>] \in Seq(Within(a, Doubled[i + 1]))
    OBVIOUS
  <2>1. PICK m : m = Doubled[i]
    OBVIOUS
  <2>2. PICK n : n = Doubled[i + 1]
    OBVIOUS
  <2>3. i \in Nat /\ m \in Nat /\ n \in Nat /\ n = 2 * m /\ m > 0 /\ n > 1 /\ n \div 2 = m /\ a + m \in Nat
    <3>1. i \in Nat
      OBVIOUS
    <3> HIDE DEF T
    <3>2. m \in Nat /\ n = 2 * m /\ m > 0
      BY <2>1, <2>2, <3>1, DoubledFacts
    <3> QED
      BY <3>1, <3>2
  <2>4. oddEvenMergeSort[<<a, m>>] \in Seq(Within(a, m)) /\ oddEvenMergeSort[<<a + m, m>>] \in Seq(Within(a + m, m))
    BY <2>1, <2>3
  <2> HIDE DEF T
  <2>5. oddEvenMergeSort[<<a, m>>] \in Seq(Within(a, n)) /\ oddEvenMergeSort[<<a + m, m>>] \in Seq(Within(a, n))
    <3>1. a <= a /\ a <= a + m /\ a + m <= a + n /\ a + m + m <= a + n
      BY <2>3
    <3> QED
      BY <2>3, <2>4, <3>1, WithinLarger
  <2>6. oddEvenMerge[<<a, n, 1>>] \in Seq(Within(a, n))
    <3>1. 1 * (2 * Doubled[i]) = n
      BY <2>1, <2>3
    <3>2. n - 1 + 1 = n
      BY <2>3
    <3> QED
      BY <2>3, <3>1, <3>2, oddEvenMergeIn
  <2>7. oddEvenMergeSort[<<a, n>>] = oddEvenMergeSort[<<a, m>>] \o oddEvenMergeSort[<<a + m, m>>] \o oddEvenMerge[<<a, n, 1>>]
    BY <2>3, oddEvenMergeSortIs
  <2> QED
    BY <2>2, <2>5, <2>6, <2>7, NetsAppend
<1>3. T = Nat
  <2> HIDE DEF T
  <2>1. T \in SUBSET Nat
    BY DEF T
  <2> QED
    BY <1>1, <1>2, <2>1, AllNat
<1>4. j \in T
  BY <1>3
<1> QED
  BY <1>4
--------------------------------------------------------------------------------
(* Images and ranges of functions.                                           *)

\* What a function onto a set reaches is no larger than what it starts from.
LEMMA ImageSize ==
  ASSUME NEW S, IsFiniteSet(S), NEW T, NEW f \in [S -> T], \A t \in T : \E s \in S : f[s] = t
  PROVE  IsFiniteSet(T) /\ Cardinality(T) <= Cardinality(S)
<1>1. f \in Surjection(S, T)
  BY DEF Surjection
<1> QED
  BY <1>1, FS_Surjection

\* A function that keeps things apart needs as much room as it has arguments, and
\* where that is all the room there is, it reaches everything.
LEMMA OneToOne ==
  ASSUME NEW S, NEW T, IsFiniteSet(T), NEW f \in [S -> T], \A a, b \in S : f[a] = f[b] => a = b
  PROVE  /\ IsFiniteSet(S) /\ Cardinality(S) <= Cardinality(T)
         /\ Cardinality(S) = Cardinality(T) => \A t \in T : \E s \in S : f[s] = t
<1>1. f \in Injection(S, T)
  BY DEF Injection, IsInjective
<1>2. IsFiniteSet(S) /\ Cardinality(S) <= Cardinality(T)
  BY <1>1, FS_Injection
<1>3. Cardinality(S) = Cardinality(T) => f \in Surjection(S, T)
  BY <1>1, FS_Injection
<1> QED
  BY <1>2, <1>3 DEF Surjection
--------------------------------------------------------------------------------
(* What a network does, for one threshold: Z are the places of what is not     *)
(* below the threshold.                                                       *)

Move(Z, k, l) == IF k \in Z /\ l \notin Z THEN (Z \ {k}) \cup {l} ELSE Z
Step(Z, c)    == IF c[3] THEN Move(Z, c[1], c[2]) ELSE Move(Z, c[2], c[1])

RunOf(net, Z) ==
  LET run[k \in 0 .. Len(net)] == IF k = 0 THEN Z ELSE Step(run[k - 1], net[k])
  IN run
After(net, Z) == RunOf(net, Z)[Len(net)]

LEMMA NetFacts ==
  ASSUME NEW net \in Nets
  PROVE  /\ Len(net) \in Nat
         /\ \A k \in 1 .. Len(net) : net[k][1] \in Nat /\ net[k][2] \in Nat /\ net[k][3] \in BOOLEAN
<1> DEFINE C == Nat \X Nat \X BOOLEAN
<1>1. net \in Seq(C)
  BY DEF Nets
<1>2. \A c \in C : c[1] \in Nat /\ c[2] \in Nat /\ c[3] \in BOOLEAN
  OBVIOUS
<1>3. Len(net) \in Nat /\ \A k \in 1 .. Len(net) : net[k] \in C
  <2> HIDE DEF C
  <2> QED
    BY <1>1
<1> QED
  BY <1>2, <1>3

LEMMA StepIn ==
  ASSUME NEW Z \in SUBSET Nat, NEW c, c[1] \in Nat, c[2] \in Nat
  PROVE  Step(Z, c) \in SUBSET Nat
BY DEF Step, Move

LEMMA RunIs ==
  ASSUME NEW net \in Nets, NEW Z \in SUBSET Nat
  PROVE  /\ RunOf(net, Z)[0] = Z
         /\ \A k \in 1 .. Len(net) : RunOf(net, Z)[k] = Step(RunOf(net, Z)[k - 1], net[k])
         /\ \A k \in 0 .. Len(net) : RunOf(net, Z)[k] \in SUBSET Nat
         /\ After(net, Z) \in SUBSET Nat
<1> DEFINE N == 0 .. Len(net)
           T == SUBSET Nat
           mu == [k \in N |-> k]
           D  == [g \in [N -> T] |-> [k \in N |-> IF k = 0 THEN Z ELSE Step(g[k - 1], net[k])]]
<1>1. Len(net) \in Nat /\ \A k \in N : k # 0 => k - 1 \in N /\ k - 1 < k /\ k \in 1 .. Len(net)
  BY NetFacts
<1>2. \A k \in N : \A Y \in T : k # 0 => Step(Y, net[k]) \in T
  BY <1>1, NetFacts, StepIn
<1>3. ASSUME NEW g \in [N -> T]
      PROVE  [k \in N |-> IF k = 0 THEN Z ELSE Step(g[k - 1], net[k])] \in [N -> T]
  <2>1. ASSUME NEW k \in N PROVE (IF k = 0 THEN Z ELSE Step(g[k - 1], net[k])) \in T
    <3> HIDE DEF N, T
    <3>1. k # 0 => Step(g[k - 1], net[k]) \in T
      BY <1>1, <1>2
    <3> QED
      BY <3>1 DEF T
  <2> HIDE DEF N, T
  <2> QED
    BY <2>1
<1>4. Recursion(N, T, mu, D)
  <2>1. mu \in [N -> Nat]
    BY <1>1
  <2>2. D \in [[N -> T] -> [N -> T]]
    <3> HIDE DEF N, T
    <3> QED
      BY <1>3
  <2>3. ASSUME NEW g \in [N -> T], NEW h \in [N -> T], NEW n \in N,
               \A m \in N : mu[m] < mu[n] => g[m] = h[m]
        PROVE  D[g][n] = D[h][n]
    <3> HIDE DEF N, T
    <3>1. n # 0 => g[n - 1] = h[n - 1]
      BY <1>1, <2>3
    <3> QED
      BY <3>1
  <2> HIDE DEF mu, D, N, T
  <2> QED
    BY <2>1, <2>2, <2>3 DEF Recursion
<1>5. PICK f : Solution(N, T, D, f)
  <2> HIDE DEF mu, D, N
  <2>1. T # {}
    OBVIOUS
  <2> QED
    BY <1>4, <2>1, RecursionExists
<1>6. f \in [N -> T] /\ f = [k \in N |-> IF k = 0 THEN Z ELSE Step(f[k - 1], net[k])]
  <2> HIDE DEF N, T
  <2> QED
    BY <1>5 DEF Solution
<1>7. RunOf(net, Z) = [k \in N |-> IF k = 0 THEN Z ELSE Step(RunOf(net, Z)[k - 1], net[k])]
  BY <1>6, Zenon DEF RunOf
<1>8. 0 \in N /\ Len(net) \in N /\ \A k \in 1 .. Len(net) : k \in N /\ k # 0
  BY <1>1
<1>9. /\ RunOf(net, Z)[0] = Z
      /\ \A k \in 1 .. Len(net) : RunOf(net, Z)[k] = Step(RunOf(net, Z)[k - 1], net[k])
  <2> HIDE DEF N
  <2> QED
    BY <1>7, <1>8
<1> DEFINE G == {k \in Nat : k \in N => RunOf(net, Z)[k] \in T}
<1>10. G = Nat
  <2>1. 0 \in G
    BY <1>9
  <2>2. ASSUME NEW k \in G PROVE k + 1 \in G
    <3> SUFFICES ASSUME k + 1 \in N PROVE RunOf(net, Z)[k + 1] \in T
      OBVIOUS
    <3>1. k \in Nat /\ k \in N /\ k + 1 \in 1 .. Len(net) /\ (k + 1) - 1 = k
      BY <1>1
    <3>2. RunOf(net, Z)[k] \in T
      BY <3>1
    <3>3. RunOf(net, Z)[k + 1] = Step(RunOf(net, Z)[k], net[k + 1])
      BY <1>9, <3>1
    <3> HIDE DEF N, T
    <3> QED
      BY <1>2, <3>2, <3>3
  <2>3. G \in SUBSET Nat
    OBVIOUS
  <2> HIDE DEF G
  <2> QED
    BY <2>1, <2>2, <2>3, AllNat
<1>11. \A k \in N : RunOf(net, Z)[k] \in T
  <2>1. \A k \in N : k \in Nat
    BY <1>1
  <2> HIDE DEF N, T
  <2> QED
    BY <1>10, <2>1
<1>12. After(net, Z) \in T
  <2> HIDE DEF N, T
  <2> QED
    BY <1>8, <1>11 DEF After
<1> QED
  BY <1>9, <1>11, <1>12

\* An induction that ends at n.
LEMMA UpTo ==
  ASSUME NEW n \in Nat, NEW T, 0 \in T, \A k \in Nat : k \in T /\ k < n => k + 1 \in T
  PROVE  0 .. n \subseteq T
<1> DEFINE U == {k \in Nat : k <= n => k \in T}
<1>1. 0 \in U /\ U \in SUBSET Nat
  OBVIOUS
<1>2. ASSUME NEW k \in U PROVE k + 1 \in U
  <2>1. k \in Nat /\ (k + 1 <= n => k < n /\ k <= n)
    OBVIOUS
  <2> QED
    BY <2>1
<1>3. U = Nat
  <2> HIDE DEF U
  <2> QED
    BY <1>1, <1>2, AllNat
<1>4. \A k \in 0 .. n : k \in Nat /\ k <= n
  OBVIOUS
<1> QED
  BY <1>3, <1>4

\* The compares of a network are all of places in A.
Touches(net, A) == \A k \in 1 .. Len(net) : net[k][1] \in A /\ net[k][2] \in A

Piece(lo, n) == lo .. lo + n - 1

LEMMA WithinTouches ==
  ASSUME NEW lo \in Nat, NEW n \in Nat, NEW net \in Seq(Within(lo, n))
  PROVE  net \in Nets /\ Touches(net, Piece(lo, n)) /\ Piece(lo, n) \in SUBSET Nat
<1>1. net \in Nets
  BY WithinNets
<1>2. \A c \in Within(lo, n) : c[1] \in Piece(lo, n) /\ c[2] \in Piece(lo, n)
  BY DEF Within, Piece
<1>3. \A k \in 1 .. Len(net) : net[k] \in Within(lo, n)
  <2> DEFINE W == Within(lo, n)
  <2> HIDE DEF W
  <2>1. net \in Seq(W)
    BY DEF W
  <2>2. \A k \in 1 .. Len(net) : net[k] \in W
    BY <2>1
  <2> QED
    BY <2>2 DEF W
<1>4. Touches(net, Piece(lo, n))
  BY <1>2, <1>3 DEF Touches
<1> QED
  BY <1>1, <1>4 DEF Piece

\* A network changes nothing elsewhere, and nothing at all where all is alike.
LEMMA AfterOutside ==
  ASSUME NEW net \in Nets, NEW Z \in SUBSET Nat, NEW A, Touches(net, A)
  PROVE  /\ \A x \in Nat \ A : x \in After(net, Z) <=> x \in Z
         /\ A \subseteq Z \/ A \cap Z = {} => After(net, Z) = Z
<1>1. Len(net) \in Nat
  BY NetFacts
<1> DEFINE T == {k \in 0 .. Len(net) : /\ \A x \in Nat \ A : x \in RunOf(net, Z)[k] <=> x \in Z
                                       /\ A \subseteq Z \/ A \cap Z = {} => RunOf(net, Z)[k] = Z}
<1>2. 0 \in T
  BY <1>1, RunIs
<1>3. ASSUME NEW k \in Nat, k \in T, k < Len(net) PROVE k + 1 \in T
  <2>1. k + 1 \in 1 .. Len(net) /\ (k + 1) - 1 = k /\ k + 1 \in 0 .. Len(net)
    BY <1>1, <1>3
  <2>2. RunOf(net, Z)[k + 1] = Step(RunOf(net, Z)[k], net[k + 1])
    BY <2>1, RunIs
  <2>3. net[k + 1][1] \in A /\ net[k + 1][2] \in A
    BY <2>1 DEF Touches
  <2>4. PICK Y : Y = RunOf(net, Z)[k]
    OBVIOUS
  <2>5. PICK c : c = net[k + 1]
    OBVIOUS
  <2>6. \A x \in Nat \ A : x \in Step(Y, c) <=> x \in Y
    BY <2>3, <2>5 DEF Step, Move
  <2>7. A \subseteq Z \/ A \cap Z = {} => Step(Z, c) = Z
    BY <2>3, <2>5 DEF Step, Move
  <2> QED
    BY <1>3, <2>1, <2>2, <2>4, <2>5, <2>6, <2>7
<1>4. Len(net) \in T
  <2> HIDE DEF T
  <2>1. 0 .. Len(net) \subseteq T
    BY <1>1, <1>2, <1>3, UpTo
  <2> QED
    BY <1>1, <2>1
<1> QED
  BY <1>4 DEF After

LEMMA AfterEmpty == \A Z \in SUBSET Nat : After(<<>>, Z) = Z
<1>1. <<>> \in Nets /\ Len(<<>>) = 0
  BY DEF Nets
<1> QED
  BY <1>1, RunIs DEF After

LEMMA AfterAppend ==
  ASSUME NEW s \in Nets, NEW t \in Nets, NEW Z \in SUBSET Nat
  PROVE  After(s \o t, Z) = After(t, After(s, Z))
<1> DEFINE u == s \o t
           Y == After(s, Z)
<1>1. u \in Nets
  BY NetsAppend DEF Nets
<1>2. /\ Len(s) \in Nat /\ Len(t) \in Nat /\ Len(u) = Len(s) + Len(t)
      /\ \A k \in 1 .. Len(s) : u[k] = s[k]
      /\ \A k \in 1 .. Len(t) : u[Len(s) + k] = t[k]
  <2> DEFINE C == Nat \X Nat \X BOOLEAN
  <2>1. s \in Seq(C) /\ t \in Seq(C)
    BY DEF Nets
  <2> HIDE DEF C
  <2> QED
    BY <2>1
<1>3. Y \in SUBSET Nat
  BY RunIs
<1> HIDE DEF u, Y
<1> DEFINE T == {k \in 0 .. Len(s) : RunOf(u, Z)[k] = RunOf(s, Z)[k]}
<1>4. Len(s) \in T
  <2>1. 0 \in T
    BY <1>1, <1>2, RunIs
  <2>2. ASSUME NEW k \in Nat, k \in T, k < Len(s) PROVE k + 1 \in T
    <3>1. k + 1 \in 1 .. Len(s) /\ k + 1 \in 1 .. Len(u) /\ (k + 1) - 1 = k /\ k + 1 \in 0 .. Len(s)
      BY <1>2, <2>2
    <3>2. RunOf(u, Z)[k + 1] = Step(RunOf(u, Z)[k], u[k + 1]) /\ RunOf(s, Z)[k + 1] = Step(RunOf(s, Z)[k], s[k + 1])
      BY <1>1, <3>1, RunIs
    <3> QED
      BY <1>2, <2>2, <3>1, <3>2
  <2> HIDE DEF T
  <2>3. 0 .. Len(s) \subseteq T
    BY <1>2, <2>1, <2>2, UpTo
  <2> QED
    BY <1>2, <2>3
<1>5. RunOf(u, Z)[Len(s)] = Y
  BY <1>4 DEF After, Y
<1> DEFINE V == {k \in 0 .. Len(t) : RunOf(u, Z)[Len(s) + k] = RunOf(t, Y)[k]}
<1>6. Len(t) \in V
  <2>1. 0 \in V
    <3>1. Len(s) + 0 = Len(s) /\ RunOf(t, Y)[0] = Y
      BY <1>2, <1>3, RunIs
    <3> QED
      BY <1>2, <1>5, <3>1
  <2>2. ASSUME NEW k \in Nat, k \in V, k < Len(t) PROVE k + 1 \in V
    <3>1. /\ k + 1 \in 1 .. Len(t) /\ Len(s) + (k + 1) \in 1 .. Len(u) /\ (k + 1) - 1 = k
          /\ (Len(s) + (k + 1)) - 1 = Len(s) + k /\ k + 1 \in 0 .. Len(t)
      BY <1>2, <2>2
    <3>p. PICK q : q = Len(s) + (k + 1)
      OBVIOUS
    <3>q. q \in 1 .. Len(u) /\ q - 1 = Len(s) + k
      BY <3>1, <3>p
    <3>a. \A i \in 1 .. Len(u) : RunOf(u, Z)[i] = Step(RunOf(u, Z)[i - 1], u[i])
      BY <1>1, RunIs
    <3>b. \A i \in 1 .. Len(t) : RunOf(t, Y)[i] = Step(RunOf(t, Y)[i - 1], t[i])
      BY <1>3, RunIs
    <3>c. RunOf(u, Z)[q] = Step(RunOf(u, Z)[Len(s) + k], u[q])
      BY <3>a, <3>q
    <3>d. RunOf(t, Y)[k + 1] = Step(RunOf(t, Y)[k], t[k + 1])
      BY <3>b, <3>1
    <3>2. /\ RunOf(u, Z)[Len(s) + (k + 1)] = Step(RunOf(u, Z)[Len(s) + k], u[Len(s) + (k + 1)])
          /\ RunOf(t, Y)[k + 1] = Step(RunOf(t, Y)[k], t[k + 1])
      BY <3>c, <3>d, <3>p
    <3> QED
      BY <1>2, <2>2, <3>1, <3>2
  <2> HIDE DEF V
  <2>3. 0 .. Len(t) \subseteq V
    BY <1>2, <2>1, <2>2, UpTo
  <2> QED
    BY <1>2, <2>3
<1> QED
  BY <1>2, <1>6 DEF After, u, Y

(* Bitonic merge.                                                             *)

\* The places read so that the order of dir is ascending.
Up(Z, dir) == IF dir THEN Z ELSE Nat \ Z

LEMMA UpFacts ==
  ASSUME NEW Z \in SUBSET Nat, NEW dir \in BOOLEAN
  PROVE  /\ Up(Z, dir) \in SUBSET Nat
         /\ \A c : c[1] \in Nat /\ c[2] \in Nat /\ c[3] = dir /\ c[1] # c[2]
                     => Up(Step(Z, c), dir) = Move(Up(Z, dir), c[1], c[2])
<1>1. CASE dir = TRUE
  <2>1. \A Y : Up(Y, dir) = Y
    BY <1>1 DEF Up
  <2> QED
    BY <1>1, <2>1 DEF Step
<1>2. CASE dir = FALSE
  <2>1. \A Y : Up(Y, dir) = Nat \ Y
    BY <1>2 DEF Up
  <2>2. ASSUME NEW a \in Nat, NEW b \in Nat, a # b PROVE Nat \ Move(Z, b, a) = Move(Nat \ Z, a, b)
    BY <2>2 DEF Move
  <2> QED
    BY <1>2, <2>1, <2>2 DEF Step
<1> QED
  BY <1>1, <1>2

\* The loop of bitonicMerge.
LEMMA HalfCompareDoes ==
  ASSUME NEW lo \in Nat, NEW count \in Nat, NEW m \in Nat, m > 0, count <= m, NEW dir \in BOOLEAN, NEW Z \in SUBSET Nat
  PROVE  LET W == Up(Z, dir)
             V == Up(After(HalfCompare(lo, count, m, dir), Z), dir)
         IN /\ \A k \in 0 .. count - 1 : /\ lo + k \in V <=> lo + k \in W /\ lo + m + k \in W
                                         /\ lo + m + k \in V <=> lo + k \in W \/ lo + m + k \in W
            /\ \A k \in count .. m - 1 : lo + k \in V <=> lo + k \in W
<1> DEFINE net == HalfCompare(lo, count, m, dir)
           W   == Up(Z, dir)
           R(j) == Up(RunOf(net, Z)[j], dir)
           T   == {j \in 0 .. count : \A k \in 0 .. m - 1 :
                     IF k < j THEN /\ lo + k \in R(j) <=> lo + k \in W /\ lo + m + k \in W
                                   /\ lo + m + k \in R(j) <=> lo + k \in W \/ lo + m + k \in W
                     ELSE /\ lo + k \in R(j) <=> lo + k \in W
                          /\ lo + m + k \in R(j) <=> lo + m + k \in W}
<1>1. /\ net \in Nets /\ Len(net) = count
      /\ \A k \in 1 .. count : net[k] = <<lo + k - 1, lo + k - 1 + m, dir>>
  <2>1. HalfCompare(lo, count, m, dir) \in Nets
    <3>1. count + m \in Nat /\ count + m <= count + m
      OBVIOUS
    <3> QED
      BY <3>1, HalfCompareIn
  <2> QED
    BY <2>1 DEF HalfCompare
<1> HIDE DEF net, W
<1>2. 0 \in T
  <2>1. R(0) = W
    BY <1>1, RunIs DEF W
  <2> QED
    BY <2>1
<1>3. ASSUME NEW j \in Nat, j \in T, j < count PROVE j + 1 \in T
  <2>1. PICK Y : Y = RunOf(net, Z)[j]
    OBVIOUS
  <2>2. j + 1 \in 1 .. count /\ (j + 1) - 1 = j /\ j \in 0 .. count /\ j + 1 \in 0 .. count
    BY <1>3
  <2>3. Y \in SUBSET Nat
    BY <1>1, <2>1, <2>2, RunIs
  <2>4. RunOf(net, Z)[j + 1] = Step(Y, net[j + 1])
    <3>1. \A k \in 1 .. Len(net) : RunOf(net, Z)[k] = Step(RunOf(net, Z)[k - 1], net[k])
      BY <1>1, RunIs
    <3>2. j + 1 \in 1 .. Len(net)
      BY <1>1, <2>2
    <3> QED
      BY <2>1, <2>2, <3>1, <3>2
  <2>5. PICK c : c = net[j + 1]
    OBVIOUS
  <2>6. c[1] = lo + j /\ c[2] = lo + m + j /\ c[3] = dir
    <3>1. c = <<lo + (j + 1) - 1, lo + (j + 1) - 1 + m, dir>>
      BY <1>1, <2>2, <2>5
    <3>2. lo + (j + 1) - 1 = lo + j /\ lo + (j + 1) - 1 + m = lo + m + j
      OBVIOUS
    <3> QED
      BY <3>1, <3>2
  <2>7. PICK X : X = R(j)
    OBVIOUS
  <2>8. R(j + 1) = Move(X, lo + j, lo + m + j)
    <3>1. Up(Step(Y, c), dir) = Move(Up(Y, dir), c[1], c[2])
      BY <2>3, <2>6, UpFacts
    <3> QED
      BY <2>1, <2>4, <2>5, <2>6, <2>7, <3>1
  <2>9. PICK X2 : X2 = R(j + 1)
    OBVIOUS
  <2>10. ASSUME NEW k \in 0 .. m - 1
         PROVE  IF k < j + 1 THEN /\ lo + k \in X2 <=> lo + k \in W /\ lo + m + k \in W
                                  /\ lo + m + k \in X2 <=> lo + k \in W \/ lo + m + k \in W
                ELSE /\ lo + k \in X2 <=> lo + k \in W
                     /\ lo + m + k \in X2 <=> lo + m + k \in W
    <3>1. IF k < j THEN /\ lo + k \in X <=> lo + k \in W /\ lo + m + k \in W
                        /\ lo + m + k \in X <=> lo + k \in W \/ lo + m + k \in W
          ELSE /\ lo + k \in X <=> lo + k \in W
               /\ lo + m + k \in X <=> lo + m + k \in W
      BY <1>3, <2>7
    <3>2. CASE k = j
      BY <2>8, <2>9, <3>1, <3>2 DEF Move
    <3>3. CASE k # j
      <4>1. lo + k # lo + j /\ lo + k # lo + m + j /\ lo + m + k # lo + j /\ lo + m + k # lo + m + j
        BY <1>3, <3>3
      <4>2. (lo + k \in X2 <=> lo + k \in X) /\ (lo + m + k \in X2 <=> lo + m + k \in X)
        BY <2>8, <2>9, <4>1 DEF Move
      <4>3. k < j + 1 <=> k < j
        BY <3>3
      <4> QED
        BY <3>1, <4>2, <4>3
    <3> QED
      BY <3>2, <3>3
  <2> QED
    BY <2>2, <2>9, <2>10
<1>4. count \in T
  <2> HIDE DEF T
  <2>1. 0 .. count \subseteq T
    BY <1>2, <1>3, UpTo
  <2> QED
    BY <2>1
<1>5. R(count) = Up(After(net, Z), dir)
  BY <1>1 DEF After
<1>6. PICK V : V = R(count)
  OBVIOUS
<1>7. \A k \in 0 .. m - 1 :
        IF k < count THEN /\ lo + k \in V <=> lo + k \in W /\ lo + m + k \in W
                          /\ lo + m + k \in V <=> lo + k \in W \/ lo + m + k \in W
        ELSE /\ lo + k \in V <=> lo + k \in W
             /\ lo + m + k \in V <=> lo + m + k \in W
  BY <1>4, <1>6
<1>8. /\ \A k \in 0 .. count - 1 : k \in 0 .. m - 1 /\ k < count
      /\ \A k \in count .. m - 1 : k \in 0 .. m - 1 /\ ~(k < count)
  OBVIOUS
<1> QED
  BY <1>5, <1>6, <1>7, <1>8 DEF net, W

\* Descending and then ascending, and the reverse, in zeros and ones; sorted.
Valley(W, lo, n) ==
  \E a, b \in 0 .. n : a <= b /\ \A k \in 0 .. n - 1 : lo + k \in W <=> k < a \/ b <= k
Hill(W, lo, n) ==
  \E a, b \in 0 .. n : a <= b /\ \A k \in 0 .. n - 1 : lo + k \in W <=> a <= k /\ k < b
SortedOn(W, lo, n) ==
  \E p \in 0 .. n : \A k \in 0 .. n - 1 : lo + k \in W <=> p <= k
Bitonic(W, lo, n) == Valley(W, lo, n) \/ Hill(W, lo, n)

None(W, lo, n) == \A k \in 0 .. n - 1 : lo + k \notin W
All(W, lo, n)  == \A k \in 0 .. n - 1 : lo + k \in W

\* Every place of the lower part against the one m further: V after, W before.
Compared(W, V, lo, n, m) ==
  /\ \A k \in 0 .. n - m - 1 : /\ lo + k \in V <=> lo + k \in W /\ lo + m + k \in W
                               /\ lo + m + k \in V <=> lo + k \in W \/ lo + m + k \in W
  /\ \A k \in n - m .. m - 1 : lo + k \in V <=> lo + k \in W

\* A sequence that is all ones, or all zeros, is bitonic.
LEMMA AllValley ==
  ASSUME NEW V, NEW lo \in Nat, NEW n \in Nat
  PROVE  /\ All(V, lo, n) => Valley(V, lo, n)
         /\ None(V, lo, n) => Hill(V, lo, n) /\ Valley(V, lo, n)
<1>1. 0 \in 0 .. n /\ n \in 0 .. n /\ 0 <= n /\ 0 <= 0 /\ \A k \in 0 .. n - 1 : ~(k < 0) /\ 0 <= k /\ ~(n <= k)
  OBVIOUS
<1>2. All(V, lo, n) => \A k \in 0 .. n - 1 : lo + k \in V <=> k < 0 \/ 0 <= k
  BY <1>1 DEF All
<1>3. None(V, lo, n) => \A k \in 0 .. n - 1 : lo + k \in V <=> 0 <= k /\ k < 0
  BY <1>1 DEF None
<1>4. None(V, lo, n) => \A k \in 0 .. n - 1 : lo + k \in V <=> k < 0 \/ n <= k
  BY <1>1 DEF None
<1> QED
  BY <1>1, <1>2, <1>3, <1>4 DEF Valley, Hill

\* The first comparison of a merge leaves two bitonic parts, and either nothing
\* in the lower one or nothing missing in the upper one.
LEMMA CleanValley ==
  ASSUME NEW W, NEW V, NEW lo \in Nat, NEW n \in Nat, NEW m \in Nat, m < n, n <= 2 * m,
         Valley(W, lo, n), Compared(W, V, lo, n, m)
  PROVE  /\ Bitonic(V, lo, m) /\ Valley(V, lo + m, n - m)
         /\ None(V, lo, m) \/ All(V, lo + m, n - m)
<1>1. PICK a \in 0 .. n, b \in 0 .. n : a <= b /\ \A k \in 0 .. n - 1 : lo + k \in W <=> k < a \/ b <= k
  BY DEF Valley
<1> DEFINE c == n - m
<1>c. c \in Nat /\ c <= m /\ c > 0 /\ n = m + c /\ lo + m \in Nat
  OBVIOUS
<1> HIDE DEF c
<1>2. \A k \in 0 .. m - 1 : lo + k \in W <=> k < a \/ b <= k
  BY <1>1
<1>3. \A k \in 0 .. c - 1 : lo + m + k \in W <=> m + k < a \/ b <= m + k
  <2>1. ASSUME NEW k \in 0 .. c - 1 PROVE lo + m + k \in W <=> m + k < a \/ b <= m + k
    <3>1. PICK l : l = m + k
      OBVIOUS
    <3>2. l \in 0 .. n - 1 /\ lo + l = lo + m + k
      BY <1>c, <3>1
    <3>3. lo + l \in W <=> l < a \/ b <= l
      BY <1>1, <3>2
    <3> QED
      BY <3>1, <3>2, <3>3
  <2> QED
    BY <2>1
<1>4. /\ \A k \in 0 .. c - 1 : /\ lo + k \in V <=> lo + k \in W /\ lo + m + k \in W
                               /\ lo + m + k \in V <=> lo + k \in W \/ lo + m + k \in W
      /\ \A k \in c .. m - 1 : lo + k \in V <=> lo + k \in W
  BY DEF Compared, c
<1>5. ASSUME NEW k \in 0 .. m - 1 PROVE k \in 0 .. c - 1 \/ k \in c .. m - 1
  BY <1>c
<1>6. CASE b <= m
  <2>1. All(V, lo + m, c)
    <3>1. ASSUME NEW k \in 0 .. c - 1 PROVE lo + m + k \in V
      <4>1. b <= m + k
        BY <1>6
      <4> QED
        BY <1>3, <1>4, <4>1
    <3> QED
      BY <3>1 DEF All
  <2>2. Valley(V, lo, m)
    <3>1. \A k \in 0 .. m - 1 : lo + k \in V <=> lo + k \in W
      <4>1. \A k \in 0 .. c - 1 : b <= m + k
        BY <1>6
      <4> QED
        BY <1>3, <1>4, <1>5, <4>1
    <3>2. a \in 0 .. m /\ b \in 0 .. m
      BY <1>1, <1>6
    <3> QED
      BY <1>1, <1>2, <3>1, <3>2 DEF Valley
  <2> QED
    BY <2>1, <2>2, <1>c, AllValley DEF Bitonic, c
<1>7. CASE m <= a
  <2>0. PICK p, q : p = a - m /\ q = b - m
    OBVIOUS
  <2>1. p \in 0 .. m /\ q \in 0 .. m /\ p <= q /\ q <= c
    BY <1>1, <1>7, <1>c, <2>0
  <2>2. \A k \in 0 .. m - 1 : lo + k \in W
    BY <1>2, <1>7
  <2>3. All(V, lo + m, c)
    <3>1. \A k \in 0 .. c - 1 : k \in 0 .. m - 1
      BY <1>c
    <3> QED
      BY <1>4, <2>2, <3>1 DEF All
  <2>4. ASSUME NEW k \in 0 .. m - 1 PROVE lo + k \in V <=> k < p \/ q <= k
    <3>1. CASE k \in 0 .. c - 1
      <4>1. lo + k \in V <=> m + k < a \/ b <= m + k
        BY <1>3, <1>4, <2>2, <3>1
      <4>2. (m + k < a <=> k < p) /\ (b <= m + k <=> q <= k)
        BY <2>0, <2>1
      <4> QED
        BY <4>1, <4>2
    <3>2. CASE k \in c .. m - 1
      <4>1. lo + k \in V
        BY <1>4, <2>2, <3>2
      <4>2. q <= k
        BY <2>1, <3>2, <1>c
      <4> QED
        BY <4>1, <4>2
    <3> QED
      BY <1>5, <3>1, <3>2
  <2>5. Valley(V, lo, m)
    BY <2>1, <2>4 DEF Valley
  <2> QED
    BY <2>3, <2>5, <1>c, AllValley DEF Bitonic, c
<1>8. CASE a < m /\ m < b
  <2>0. PICK q : q = b - m
    OBVIOUS
  <2>1. q \in 0 .. c /\ q > 0 /\ a \in Nat
    BY <1>1, <1>8, <1>c, <2>0
  <2>2. \A k \in 0 .. m - 1 : lo + k \in W <=> k < a
    BY <1>2, <1>8
  <2>3. \A k \in 0 .. c - 1 : lo + m + k \in W <=> q <= k
    <3>1. \A k \in 0 .. c - 1 : (b <= m + k <=> q <= k) /\ ~(m + k < a)
      BY <1>8, <2>0, <2>1
    <3> QED
      BY <1>3, <3>1
  <2>4. ASSUME NEW k \in 0 .. m - 1 PROVE lo + k \in V <=> q <= k /\ k < a
    <3>1. CASE k \in 0 .. c - 1
      BY <1>4, <2>2, <2>3, <3>1
    <3>2. CASE k \in c .. m - 1
      <4>1. q <= k
        BY <2>1, <3>2, <1>c
      <4> QED
        BY <1>4, <2>2, <3>2, <4>1
    <3> QED
      BY <1>5, <3>1, <3>2
  <2>5. ASSUME NEW k \in 0 .. c - 1 PROVE lo + m + k \in V <=> k < a \/ q <= k
    <3>1. k \in 0 .. m - 1
      BY <1>c
    <3> QED
      BY <1>4, <2>2, <2>3, <3>1
  <2>6. CASE a <= q
    <3>1. None(V, lo, m)
      BY <2>4, <2>6, <2>1 DEF None
    <3>2. Valley(V, lo + m, c)
      <4>1. a \in 0 .. c
        BY <2>1, <2>6, <1>c
      <4> QED
        BY <2>1, <2>5, <2>6, <4>1 DEF Valley
    <3> QED
      BY <3>1, <3>2, AllValley DEF Bitonic, c
  <2>7. CASE q < a
    <3>1. All(V, lo + m, c)
      BY <2>5, <2>7, <2>1 DEF All
    <3>2. Hill(V, lo, m)
      <4>1. q \in 0 .. m /\ a \in 0 .. m /\ q <= a
        BY <2>1, <2>7, <1>8, <1>c
      <4> QED
        BY <2>4, <4>1 DEF Hill
    <3> QED
      BY <3>1, <3>2, <1>c, AllValley DEF Bitonic, c
  <2> QED
    BY <2>1, <2>6, <2>7
<1> QED
  BY <1>1, <1>6, <1>7, <1>8

LEMMA CleanHill ==
  ASSUME NEW W, NEW V, NEW lo \in Nat, NEW m \in Nat \ {0}, Hill(W, lo, 2 * m), Compared(W, V, lo, 2 * m, m)
  PROVE  /\ Bitonic(V, lo, m) /\ Bitonic(V, lo + m, m)
         /\ None(V, lo, m) \/ All(V, lo + m, m)
<1>1. PICK a \in 0 .. 2 * m, b \in 0 .. 2 * m :
        a <= b /\ \A k \in 0 .. 2 * m - 1 : lo + k \in W <=> a <= k /\ k < b
  BY DEF Hill
<1>c. lo + m \in Nat
  OBVIOUS
<1>2. \A k \in 0 .. m - 1 : lo + k \in W <=> a <= k /\ k < b
  BY <1>1
<1>3. \A k \in 0 .. m - 1 : lo + m + k \in W <=> a <= m + k /\ m + k < b
  <2>1. ASSUME NEW k \in 0 .. m - 1 PROVE lo + m + k \in W <=> a <= m + k /\ m + k < b
    <3>1. PICK l : l = m + k
      OBVIOUS
    <3>2. l \in 0 .. 2 * m - 1 /\ lo + l = lo + m + k
      BY <3>1
    <3>3. lo + l \in W <=> a <= l /\ l < b
      BY <1>1, <3>2
    <3> QED
      BY <3>1, <3>2, <3>3
  <2> QED
    BY <2>1
<1>4. \A k \in 0 .. m - 1 : /\ lo + k \in V <=> lo + k \in W /\ lo + m + k \in W
                            /\ lo + m + k \in V <=> lo + k \in W \/ lo + m + k \in W
  <2>1. 2 * m - m - 1 = m - 1
    OBVIOUS
  <2> QED
    BY <2>1 DEF Compared
<1>6. CASE b <= m
  <2>1. \A k \in 0 .. m - 1 : lo + m + k \notin W
    BY <1>3, <1>6
  <2>2. None(V, lo, m)
    BY <1>4, <2>1 DEF None
  <2>3. a \in 0 .. m /\ b \in 0 .. m
    BY <1>1, <1>6
  <2>4. Hill(V, lo + m, m)
    BY <1>1, <1>2, <1>4, <2>1, <2>3 DEF Hill
  <2> QED
    BY <2>2, <2>4, AllValley DEF Bitonic
<1>7. CASE m <= a
  <2>1. \A k \in 0 .. m - 1 : lo + k \notin W
    BY <1>2, <1>7
  <2>2. None(V, lo, m)
    BY <1>4, <2>1 DEF None
  <2>3. PICK p, q : p = a - m /\ q = b - m
    OBVIOUS
  <2>4. p \in 0 .. m /\ q \in 0 .. m /\ p <= q
    BY <1>1, <1>7, <2>3
  <2>5. \A k \in 0 .. m - 1 : (a <= m + k <=> p <= k) /\ (m + k < b <=> k < q)
    BY <2>3, <2>4
  <2>6. Hill(V, lo + m, m)
    BY <1>3, <1>4, <2>1, <2>4, <2>5 DEF Hill
  <2> QED
    BY <2>2, <2>6, AllValley DEF Bitonic
<1>8. CASE a < m /\ m < b
  <2>1. PICK q : q = b - m
    OBVIOUS
  <2>2. q \in 0 .. m /\ a \in 0 .. m
    BY <1>1, <1>8, <2>1
  <2>3. \A k \in 0 .. m - 1 : (lo + k \in W <=> a <= k) /\ (lo + m + k \in W <=> k < q)
    <3>1. \A k \in 0 .. m - 1 : k < b /\ a <= m + k /\ (m + k < b <=> k < q)
      BY <1>8, <2>1, <2>2
    <3> QED
      BY <1>2, <1>3, <3>1
  <2>4. \A k \in 0 .. m - 1 : (lo + k \in V <=> a <= k /\ k < q) /\ (lo + m + k \in V <=> k < q \/ a <= k)
    BY <1>4, <2>3
  <2>5. CASE q <= a
    <3>1. None(V, lo, m)
      BY <2>2, <2>4, <2>5 DEF None
    <3>2. Valley(V, lo + m, m)
      BY <2>2, <2>4, <2>5 DEF Valley
    <3> QED
      BY <3>1, <3>2, AllValley DEF Bitonic
  <2>6. CASE a < q
    <3>1. All(V, lo + m, m)
      BY <2>2, <2>4, <2>6 DEF All
    <3>2. Hill(V, lo, m)
      BY <2>2, <2>4, <2>6 DEF Hill
    <3> QED
      BY <3>1, <3>2, <1>c, AllValley DEF Bitonic
  <2> QED
    BY <2>2, <2>5, <2>6
<1> QED
  BY <1>1, <1>6, <1>7, <1>8

\* What is outside of the piece a network works on stays, in either order.
LEMMA UpOutside ==
  ASSUME NEW net \in Nets, NEW Z \in SUBSET Nat, NEW lo \in Nat, NEW n \in Nat, Touches(net, Piece(lo, n)),
         NEW dir \in BOOLEAN
  PROVE  LET W == Up(Z, dir)
             V == Up(After(net, Z), dir)
         IN /\ \A x \in Nat : x < lo \/ lo + n <= x => (x \in V <=> x \in W)
            /\ None(W, lo, n) \/ All(W, lo, n) => V = W
<1> DEFINE A == Piece(lo, n)
<1>1. /\ \A x \in Nat \ A : x \in After(net, Z) <=> x \in Z
      /\ A \subseteq Z \/ A \cap Z = {} => After(net, Z) = Z
  <2> HIDE DEF A
  <2> QED
    BY AfterOutside DEF A
<1>2. \A x \in Nat : x < lo \/ lo + n <= x => x \in Nat \ A
  BY DEF Piece
<1>3. \A x \in Nat : x < lo \/ lo + n <= x => (x \in After(net, Z) <=> x \in Z)
  <2> HIDE DEF A
  <2> QED
    BY <1>1, <1>2
<1>4. \A x \in Nat : x < lo \/ lo + n <= x => (x \in Up(After(net, Z), dir) <=> x \in Up(Z, dir))
  BY <1>3 DEF Up
<1>5. ASSUME None(Up(Z, dir), lo, n) \/ All(Up(Z, dir), lo, n) PROVE A \subseteq Z \/ A \cap Z = {}
  <2>1. \A x \in A : x \in Nat /\ x - lo \in 0 .. n - 1 /\ lo + (x - lo) = x
    BY DEF Piece
  <2>2. (\A x \in A : x \in Up(Z, dir)) \/ (\A x \in A : x \notin Up(Z, dir))
    <3>1. CASE All(Up(Z, dir), lo, n)
      <4>1. \A k \in 0 .. n - 1 : lo + k \in Up(Z, dir)
        BY <3>1 DEF All
      <4>2. ASSUME NEW x \in A PROVE x \in Up(Z, dir)
        <5>1. PICK k : k = x - lo
          OBVIOUS
        <5>2. k \in 0 .. n - 1 /\ lo + k = x
          BY <2>1, <5>1
        <5>3. lo + k \in Up(Z, dir)
          BY <4>1, <5>2
        <5> QED
          BY <5>2, <5>3
      <4> QED
        BY <4>2
    <3>2. CASE None(Up(Z, dir), lo, n)
      <4>1. \A k \in 0 .. n - 1 : lo + k \notin Up(Z, dir)
        BY <3>2 DEF None
      <4>2. ASSUME NEW x \in A PROVE x \notin Up(Z, dir)
        <5>1. PICK k : k = x - lo
          OBVIOUS
        <5>2. k \in 0 .. n - 1 /\ lo + k = x
          BY <2>1, <5>1
        <5>3. lo + k \notin Up(Z, dir)
          BY <4>1, <5>2
        <5> QED
          BY <5>2, <5>3
      <4> QED
        BY <4>2
    <3> QED
      BY <1>5, <3>1, <3>2
  <2> HIDE DEF A
  <2>3. \A x \in A : x \in Nat
    BY <2>1
  <2> QED
    BY <2>2, <2>3 DEF Up
<1>6. None(Up(Z, dir), lo, n) \/ All(Up(Z, dir), lo, n) => Up(After(net, Z), dir) = Up(Z, dir)
  <2> HIDE DEF A
  <2> QED
    BY <1>1, <1>5
<1> QED
  BY <1>4, <1>6

\* A piece that two sets agree on is in one order if it is in the other.
LEMMA SameShape ==
  ASSUME NEW V, NEW W, NEW lo \in Nat, NEW n \in Nat, \A k \in 0 .. n - 1 : lo + k \in V <=> lo + k \in W
  PROVE  /\ Valley(W, lo, n) => Valley(V, lo, n)
         /\ Hill(W, lo, n) => Hill(V, lo, n)
         /\ SortedOn(W, lo, n) => SortedOn(V, lo, n)
         /\ All(W, lo, n) => All(V, lo, n)
         /\ None(W, lo, n) => None(V, lo, n)
<1>1. Valley(W, lo, n) => Valley(V, lo, n)
  BY DEF Valley
<1>2. Hill(W, lo, n) => Hill(V, lo, n)
  BY DEF Hill
<1>3. SortedOn(W, lo, n) => SortedOn(V, lo, n)
  BY DEF SortedOn
<1>4. (All(W, lo, n) => All(V, lo, n)) /\ (None(W, lo, n) => None(V, lo, n))
  BY DEF All, None
<1> QED
  BY <1>1, <1>2, <1>3, <1>4

\* The two merges after the first comparison, the lower part m long, the upper c.
LEMMA TwoMerges ==
  ASSUME NEW lo \in Nat, NEW m \in Nat, NEW c \in Nat, NEW dir \in BOOLEAN, NEW Y \in SUBSET Nat,
         NEW s \in Nets, NEW t \in Nets, Touches(s, Piece(lo, m)), Touches(t, Piece(lo + m, c)),
         SortedOn(Up(After(s, Y), dir), lo, m), SortedOn(Up(After(t, After(s, Y)), dir), lo + m, c),
         None(Up(Y, dir), lo, m) \/ All(Up(Y, dir), lo + m, c)
  PROVE  SortedOn(Up(After(t, After(s, Y)), dir), lo, m + c)
<1>1. PICK V, W, X : V = Up(Y, dir) /\ W = Up(After(s, Y), dir) /\ X = Up(After(t, After(s, Y)), dir)
  OBVIOUS
<1>2. /\ \A x \in Nat : x < lo \/ lo + m <= x => (x \in W <=> x \in V)
      /\ None(V, lo, m) => W = V
  BY <1>1, UpOutside
<1>3. /\ \A x \in Nat : x < lo + m \/ lo + m + c <= x => (x \in X <=> x \in W)
      /\ All(W, lo + m, c) => X = W
  <2>1. After(s, Y) \in SUBSET Nat /\ lo + m \in Nat
    BY RunIs
  <2> QED
    BY <1>1, <2>1, UpOutside
<1>4. PICK p \in 0 .. m : \A k \in 0 .. m - 1 : lo + k \in W <=> p <= k
  BY <1>1 DEF SortedOn
<1>5. PICK q \in 0 .. c : \A k \in 0 .. c - 1 : lo + m + k \in X <=> q <= k
  BY <1>1 DEF SortedOn
<1>6. \A k \in 0 .. m - 1 : lo + k \in X <=> p <= k
  <2>1. \A k \in 0 .. m - 1 : lo + k \in Nat /\ lo + k < lo + m
    OBVIOUS
  <2> QED
    BY <1>3, <1>4, <2>1
<1>7. ASSUME NEW k \in 0 .. m + c - 1, ~(k < m)
      PROVE  lo + k \in X <=> q <= k - m
  <2>1. PICK l : l = k - m
    OBVIOUS
  <2>2. l \in 0 .. c - 1 /\ lo + m + l = lo + k
    BY <1>7, <2>1
  <2>3. lo + m + l \in X <=> q <= l
    BY <1>5, <2>2
  <2> QED
    BY <2>1, <2>2, <2>3
<1>8. CASE None(V, lo, m)
  <2>1. \A k \in 0 .. m - 1 : lo + k \notin X
    BY <1>2, <1>4, <1>6, <1>8 DEF None
  <2>2. ASSUME NEW k \in 0 .. m + c - 1 PROVE lo + k \in X <=> m + q <= k
    <3>1. CASE k < m
      BY <2>1, <3>1
    <3>2. CASE ~(k < m)
      BY <1>7, <3>2
    <3> QED
      BY <3>1, <3>2
  <2>3. m + q \in 0 .. m + c
    OBVIOUS
  <2> QED
    BY <1>1, <2>2, <2>3 DEF SortedOn
<1>9. CASE All(V, lo + m, c)
  <2>1. All(W, lo + m, c)
    <3>1. \A k \in 0 .. c - 1 : lo + m + k \in Nat /\ lo + m <= lo + m + k
      OBVIOUS
    <3> QED
      BY <1>2, <1>9, <3>1 DEF All
  <2>2. \A k \in 0 .. c - 1 : lo + m + k \in X
    BY <1>3, <2>1 DEF All
  <2>3. c > 0 => q = 0
    <3>1. c > 0 => 0 \in 0 .. c - 1
      OBVIOUS
    <3> QED
      BY <1>5, <2>2, <3>1
  <2>4. ASSUME NEW k \in 0 .. m + c - 1 PROVE lo + k \in X <=> p <= k
    <3>1. CASE k < m
      BY <1>6, <3>1
    <3>2. CASE ~(k < m)
      <4>1. c > 0 /\ q <= k - m
        BY <2>3, <3>2
      <4> QED
        BY <1>7, <3>2, <4>1
    <3> QED
      BY <3>1, <3>2
  <2>5. p \in 0 .. m + c
    OBVIOUS
  <2> QED
    BY <1>1, <2>4, <2>5 DEF SortedOn
<1> QED
  BY <1>1, <1>8, <1>9

LEMMA HalfComparePart ==
  ASSUME NEW lo \in Nat, NEW n \in Nat, NEW m \in Nat, m < n, n <= 2 * m, NEW dir \in BOOLEAN, NEW Z \in SUBSET Nat
  PROVE  Compared(Up(Z, dir), Up(After(HalfCompare(lo, n - m, m, dir), Z), dir), lo, n, m)
<1>1. n - m \in Nat /\ n - m <= m /\ m > 0
  OBVIOUS
<1>2. PICK c : c = n - m
  OBVIOUS
<1>3. PICK W, V : W = Up(Z, dir) /\ V = Up(After(HalfCompare(lo, c, m, dir), Z), dir)
  OBVIOUS
<1>4. /\ \A k \in 0 .. c - 1 : /\ lo + k \in V <=> lo + k \in W /\ lo + m + k \in W
                               /\ lo + m + k \in V <=> lo + k \in W \/ lo + m + k \in W
      /\ \A k \in c .. m - 1 : lo + k \in V <=> lo + k \in W
  BY <1>1, <1>2, <1>3, HalfCompareDoes
<1> QED
  BY <1>2, <1>3, <1>4 DEF Compared

\* What a merge of length n is for: a valley, and where n is halved also a hill.
MergedBy(net, lo, n, dir, hills) ==
  \A Y \in SUBSET Nat :
    Valley(Up(Y, dir), lo, n) \/ (hills /\ Hill(Up(Y, dir), lo, n))
      => SortedOn(Up(After(net, Y), dir), lo, n)

\* A merge that compares the halves and then merges each of them sorts.
LEMMA MergePart ==
  ASSUME NEW lo \in Nat, NEW n \in Nat, NEW m \in Nat, m < n, n <= 2 * m, NEW dir \in BOOLEAN, NEW hills \in BOOLEAN,
         NEW s \in Seq(Within(lo, m)), NEW t \in Seq(Within(lo + m, n - m)), hills => n = 2 * m,
         MergedBy(s, lo, m, dir, TRUE), MergedBy(t, lo + m, n - m, dir, hills)
  PROVE  MergedBy(HalfCompare(lo, n - m, m, dir) \o s \o t, lo, n, dir, hills)
<1> DEFINE h == HalfCompare(lo, n - m, m, dir)
<1>1. /\ h \in Nets /\ s \in Nets /\ t \in Nets
      /\ Touches(s, Piece(lo, m)) /\ Touches(t, Piece(lo + m, n - m))
  <2>1. h \in Nets
    <3>1. n - m \in Nat /\ m > 0 /\ (n - m) + m <= n
      OBVIOUS
    <3> QED
      BY <3>1, HalfCompareIn
  <2>2. s \in Nets /\ Touches(s, Piece(lo, m))
    BY WithinTouches
  <2>3. t \in Nets /\ Touches(t, Piece(lo + m, n - m))
    <3>1. lo + m \in Nat /\ n - m \in Nat
      OBVIOUS
    <3> QED
      BY <3>1, WithinTouches
  <2> QED
    BY <2>1, <2>2, <2>3
<1> SUFFICES ASSUME NEW Z \in SUBSET Nat, Valley(Up(Z, dir), lo, n) \/ (hills /\ Hill(Up(Z, dir), lo, n))
             PROVE  SortedOn(Up(After(h \o s \o t, Z), dir), lo, n)
  BY DEF MergedBy
<1>2. PICK Y : Y = After(h, Z)
  OBVIOUS
<1>3. Y \in SUBSET Nat
  BY <1>1, <1>2, RunIs
<1>4. After(h \o s \o t, Z) = After(t, After(s, Y))
  <2>1. h \o s \in Nets
    BY <1>1, NetsAppend DEF Nets
  <2> HIDE DEF h
  <2>2. After((h \o s) \o t, Z) = After(t, After(h \o s, Z))
    BY <1>1, <2>1, AfterAppend
  <2>3. After(h \o s, Z) = After(s, Y)
    BY <1>1, <1>2, AfterAppend
  <2> QED
    BY <2>2, <2>3
<1>5. PICK c : c = n - m
  OBVIOUS
<1>6. c \in Nat /\ m + c = n /\ lo + m \in Nat
  BY <1>5
<1>7. Compared(Up(Z, dir), Up(Y, dir), lo, n, m)
  BY <1>2, HalfComparePart
<1>8. /\ Bitonic(Up(Y, dir), lo, m)
      /\ Valley(Up(Y, dir), lo + m, c) \/ (hills /\ Hill(Up(Y, dir), lo + m, c))
      /\ None(Up(Y, dir), lo, m) \/ All(Up(Y, dir), lo + m, c)
  <2>1. CASE Valley(Up(Z, dir), lo, n)
    BY <1>5, <1>7, <2>1, CleanValley
  <2>2. CASE hills /\ Hill(Up(Z, dir), lo, n)
    <3>1. n = 2 * m /\ m \in Nat \ {0} /\ c = m
      BY <1>5, <2>2
    <3>2. Hill(Up(Z, dir), lo, 2 * m) /\ Compared(Up(Z, dir), Up(Y, dir), lo, 2 * m, m)
      BY <1>7, <2>2, <3>1
    <3> QED
      BY <2>2, <3>1, <3>2, CleanHill DEF Bitonic
  <2> QED
    BY <2>1, <2>2
<1>9. SortedOn(Up(After(s, Y), dir), lo, m)
  BY <1>3, <1>8 DEF MergedBy, Bitonic
<1>10. SortedOn(Up(After(t, After(s, Y)), dir), lo + m, c)
  <2>1. PICK V, W : V = Up(Y, dir) /\ W = Up(After(s, Y), dir)
    OBVIOUS
  <2>2. \A x \in Nat : x < lo \/ lo + m <= x => (x \in W <=> x \in V)
    BY <1>1, <1>3, <2>1, UpOutside
  <2>3. \A k \in 0 .. c - 1 : lo + m + k \in Nat /\ lo + m <= lo + m + k
    OBVIOUS
  <2>4. \A k \in 0 .. c - 1 : lo + m + k \in W <=> lo + m + k \in V
    BY <2>2, <2>3
  <2>5. (Valley(V, lo + m, c) => Valley(W, lo + m, c)) /\ (Hill(V, lo + m, c) => Hill(W, lo + m, c))
    BY <1>6, <2>4, SameShape
  <2>6. After(s, Y) \in SUBSET Nat
    BY <1>1, <1>3, RunIs
  <2> QED
    BY <1>5, <1>8, <2>1, <2>5, <2>6 DEF MergedBy
<1>11. SortedOn(Up(After(t, After(s, Y)), dir), lo, m + c)
  BY <1>1, <1>3, <1>5, <1>6, <1>8, <1>9, <1>10, TwoMerges
<1> QED
  BY <1>4, <1>6, <1>11

\* One element, or none, is in order.
LEMMA OneSorted ==
  ASSUME NEW lo \in Nat, NEW n \in Nat, n <= 1, NEW W
  PROVE  SortedOn(W, lo, n)
<1>1. CASE n = 0
  BY <1>1 DEF SortedOn
<1>2. CASE n = 1 /\ lo \in W
  <2>1. \A k \in 0 .. n - 1 : lo + k = lo /\ 0 <= k
    BY <1>2
  <2>2. 0 \in 0 .. n
    OBVIOUS
  <2> QED
    BY <1>2, <2>1, <2>2 DEF SortedOn
<1>3. CASE n = 1 /\ lo \notin W
  <2>1. \A k \in 0 .. n - 1 : lo + k = lo /\ ~(1 <= k)
    BY <1>3
  <2>2. 1 \in 0 .. n
    BY <1>3
  <2> QED
    BY <1>3, <2>1, <2>2 DEF SortedOn
<1> QED
  BY <1>1, <1>2, <1>3

\* A power of two is halved by greatestPowerOfTwoLessThan and by the division alike.
LEMMA PowerHalves ==
  ASSUME NEW e \in Nat
  PROVE  LET n == Doubled[e + 1]  m == Doubled[e]
         IN /\ n \in Nat /\ m \in Nat /\ n > 1 /\ n = 2 * m /\ m > 0 /\ n \div 2 = m /\ n - m = m
            /\ greatestPowerOfTwoLessThan(n) = m
<1>1. PICK n, m : n = Doubled[e + 1] /\ m = Doubled[e]
  OBVIOUS
<1>2. n \in Nat /\ m \in Nat /\ n = 2 * m /\ m > 0
  BY <1>1, DoubledFacts
<1>3. PICK g : g = greatestPowerOfTwoLessThan(n)
  OBVIOUS
<1> DEFINE P == {Doubled[i] : i \in 0 .. n}
<1>4. \E k \in P : k < n /\ n <= 2 * k
  <2>1. e \in 0 .. n
    BY <1>1, <1>2, DoubledFacts
  <2>2. m \in P
    BY <1>1, <2>1
  <2> HIDE DEF P
  <2> QED
    BY <1>2, <2>2
<1>5. g \in P /\ g < n /\ n <= 2 * g
  <2>1. g = CHOOSE k \in P : k < n /\ n <= 2 * k
    BY <1>3 DEF greatestPowerOfTwoLessThan
  <2> HIDE DEF P
  <2> QED
    BY <1>4, <2>1
<1>6. PICK i \in Nat : g = Doubled[i]
  BY <1>5
<1>7. \A x \in Nat : \A y \in Nat : x <= y => Doubled[x] <= Doubled[y]
  <2> SUFFICES ASSUME NEW x \in Nat PROVE \A y \in Nat : x <= y => Doubled[x] <= Doubled[y]
    OBVIOUS
  <2> DEFINE T == {y \in Nat : x <= y => Doubled[x] <= Doubled[y]}
  <2>1. 0 \in T
    <3>1. 0 \in Nat /\ (x <= 0 => x = 0)
      OBVIOUS
    <3>2. x = 0 => Doubled[x] <= Doubled[0]
      BY DoubledFacts
    <3> QED
      BY <3>1, <3>2
  <2>2. ASSUME NEW y \in T PROVE y + 1 \in T
    <3>1. y \in Nat /\ y + 1 \in Nat /\ (x <= y + 1 => x <= y \/ x = y + 1)
      OBVIOUS
    <3>2. Doubled[y + 1] = 2 * Doubled[y] /\ Doubled[y] \in Nat /\ Doubled[x] \in Nat
      BY <3>1, DoubledFacts
    <3>3. x <= y => Doubled[x] <= Doubled[y]
      OBVIOUS
    <3>4. x <= y => Doubled[x] <= Doubled[y + 1]
      BY <3>2, <3>3
    <3>5. x = y + 1 => Doubled[x] <= Doubled[y + 1]
      BY <3>1, DoubledFacts
    <3> QED
      BY <3>1, <3>4, <3>5
  <2>3. T \in SUBSET Nat
    OBVIOUS
  <2>4. T = Nat
    <3> HIDE DEF T
    <3> QED
      BY <2>1, <2>2, <2>3, AllNat
  <2> QED
    BY <2>4
<1>8. i = e
  <2>1. CASE i < e
    <3>1. i + 1 \in Nat /\ i + 1 <= e
      BY <2>1
    <3>2. Doubled[i + 1] <= m /\ Doubled[i + 1] = 2 * g
      BY <1>1, <1>6, <1>7, <3>1, DoubledFacts
    <3>3. g \in Nat
      BY <1>6, DoubledFacts
    <3> QED
      BY <1>2, <1>5, <3>2, <3>3
  <2>2. CASE i > e
    <3>1. e + 1 \in Nat /\ e + 1 <= i
      BY <2>2
    <3>2. n <= g
      BY <1>1, <1>6, <1>7, <3>1
    <3>3. g \in Nat
      BY <1>6, DoubledFacts
    <3> QED
      BY <1>2, <1>5, <3>2, <3>3
  <2> QED
    BY <2>1, <2>2
<1>9. n > 1 /\ n \div 2 = m /\ n - m = m
  BY <1>2
<1>10. g = m
  BY <1>1, <1>6, <1>8
<1> QED
  BY <1>1, <1>2, <1>3, <1>9, <1>10

\* Twice a power of two, and the merges of such pieces.
LEMMA paddedMergeSorts ==
  ASSUME NEW e \in Nat, NEW lo \in Nat, NEW dir \in BOOLEAN
  PROVE  MergedBy(paddedMerge[<<lo, Doubled[e], dir>>], lo, Doubled[e], dir, TRUE)
<1> DEFINE T == {i \in Nat : \A a \in Nat, d \in BOOLEAN :
                   MergedBy(paddedMerge[<<a, Doubled[i], d>>], a, Doubled[i], d, TRUE)}
<1>1. 0 \in T
  <2>1. ASSUME NEW a \in Nat, NEW d \in BOOLEAN
        PROVE  MergedBy(paddedMerge[<<a, Doubled[0], d>>], a, Doubled[0], d, TRUE)
    <3>1. Doubled[0] \in Nat /\ Doubled[0] <= 1
      BY DoubledFacts
    <3> QED
      BY <2>1, <3>1, OneSorted DEF MergedBy
  <2> QED
    BY <2>1
<1>2. ASSUME NEW i \in T PROVE i + 1 \in T
  <2>1. ASSUME NEW a \in Nat, NEW d \in BOOLEAN
        PROVE  MergedBy(paddedMerge[<<a, Doubled[i + 1], d>>], a, Doubled[i + 1], d, TRUE)
    <3>1. PICK n, m : n = Doubled[i + 1] /\ m = Doubled[i]
      OBVIOUS
    <3>2. i \in Nat /\ n \in Nat /\ m \in Nat /\ n > 1 /\ n = 2 * m /\ m > 0 /\ n \div 2 = m /\ n - m = m
      <4>1. i \in Nat
        OBVIOUS
      <4> HIDE DEF T
      <4> QED
        BY <3>1, <4>1, PowerHalves
    <3>3. PICK s, t : s = paddedMerge[<<a, m, d>>] /\ t = paddedMerge[<<a + m, m, d>>]
      OBVIOUS
    <3>4. a + m \in Nat /\ m < n /\ n <= 2 * m
      BY <3>2
    <3>5. MergedBy(s, a, m, d, TRUE) /\ MergedBy(t, a + m, n - m, d, TRUE)
      BY <3>1, <3>2, <3>3, <3>4
    <3>6. s \in Seq(Within(a, m)) /\ t \in Seq(Within(a + m, n - m))
      BY <3>2, <3>3, <3>4, paddedMergeIn
    <3> HIDE DEF T
    <3>7. paddedMerge[<<a, n, d>>] = HalfCompare(a, n - m, m, d) \o s \o t
      <4>1. n \in Nat /\ n > 1 /\ n \div 2 = m /\ n - m = m
        BY <3>2
      <4>2. paddedMerge[<<a, n, d>>] =
              HalfCompare(a, n \div 2, n \div 2, d) \o paddedMerge[<<a, n \div 2, d>>] \o paddedMerge[<<a + (n \div 2), n \div 2, d>>]
        BY <4>1, paddedMergeIs
      <4> QED
        BY <3>3, <4>1, <4>2, Zenon
    <3>8. TRUE \in BOOLEAN
      BY Zenon
    <3>9. MergedBy(HalfCompare(a, n - m, m, d) \o s \o t, a, n, d, TRUE)
      BY <3>2, <3>4, <3>5, <3>6, <3>8, MergePart
    <3> QED
      BY <3>1, <3>7, <3>9
  <2>2. i + 1 \in Nat
    OBVIOUS
  <2> QED
    BY <2>1, <2>2
<1>3. T = Nat
  <2> HIDE DEF T
  <2>1. T \in SUBSET Nat
    BY DEF T
  <2> QED
    BY <1>1, <1>2, <2>1, AllNat
<1> QED
  BY <1>3

\* For a power of two the two merges compare the same.
LEMMA MergesAlike ==
  ASSUME NEW e \in Nat, NEW lo \in Nat, NEW dir \in BOOLEAN
  PROVE  bitonicMerge[<<lo, Doubled[e], dir>>] = paddedMerge[<<lo, Doubled[e], dir>>]
<1> DEFINE T == {i \in Nat : \A a \in Nat, d \in BOOLEAN :
                   bitonicMerge[<<a, Doubled[i], d>>] = paddedMerge[<<a, Doubled[i], d>>]}
<1>1. 0 \in T
  <2>1. ASSUME NEW a \in Nat, NEW d \in BOOLEAN
        PROVE  bitonicMerge[<<a, Doubled[0], d>>] = paddedMerge[<<a, Doubled[0], d>>]
    <3>1. Doubled[0] \in Nat /\ Doubled[0] <= 1
      BY DoubledFacts
    <3>2. bitonicMerge[<<a, Doubled[0], d>>] = <<>> /\ paddedMerge[<<a, Doubled[0], d>>] = <<>>
      <4> HIDE DEF T
      <4> QED
        BY <2>1, <3>1, bitonicMergeIs, paddedMergeIs
    <3> QED
      BY <3>2
  <2> QED
    BY <2>1
<1>2. ASSUME NEW i \in T PROVE i + 1 \in T
  <2>1. ASSUME NEW a \in Nat, NEW d \in BOOLEAN
        PROVE  bitonicMerge[<<a, Doubled[i + 1], d>>] = paddedMerge[<<a, Doubled[i + 1], d>>]
    <3>1. PICK n, m : n = Doubled[i + 1] /\ m = Doubled[i]
      OBVIOUS
    <3>2. /\ i \in Nat /\ n \in Nat /\ m \in Nat /\ n > 1 /\ n = 2 * m /\ m > 0 /\ n \div 2 = m /\ n - m = m
          /\ greatestPowerOfTwoLessThan(n) = m
      <4>1. i \in Nat
        OBVIOUS
      <4> HIDE DEF T
      <4> QED
        BY <3>1, <4>1, PowerHalves
    <3>m. m \in Nat
      BY <3>2
    <3>3. a + m \in Nat
      BY <3>m
    <3>4. /\ bitonicMerge[<<a, m, d>>] = paddedMerge[<<a, m, d>>]
          /\ bitonicMerge[<<a + m, m, d>>] = paddedMerge[<<a + m, m, d>>]
      BY <3>1, <3>2, <3>3
    <3> HIDE DEF T
    <3>5. bitonicMerge[<<a, n, d>>] = HalfCompare(a, m, m, d) \o bitonicMerge[<<a, m, d>>] \o bitonicMerge[<<a + m, m, d>>]
      <4>1. n \in Nat /\ n > 1 /\ greatestPowerOfTwoLessThan(n) = m /\ n - m = m
        BY <3>2
      <4>2. bitonicMerge[<<a, n, d>>] =
              HalfCompare(a, n - m, m, d) \o bitonicMerge[<<a, m, d>>] \o bitonicMerge[<<a + m, n - m, d>>]
        BY <4>1, bitonicMergeIs
      <4> QED
        BY <4>1, <4>2
    <3>6. paddedMerge[<<a, n, d>>] = HalfCompare(a, m, m, d) \o paddedMerge[<<a, m, d>>] \o paddedMerge[<<a + m, m, d>>]
      <4>1. n \in Nat /\ n > 1 /\ n \div 2 = m
        BY <3>2
      <4>2. paddedMerge[<<a, n, d>>] =
              HalfCompare(a, n \div 2, n \div 2, d) \o paddedMerge[<<a, n \div 2, d>>] \o paddedMerge[<<a + (n \div 2), n \div 2, d>>]
        BY <4>1, paddedMergeIs
      <4> QED
        BY <4>1, <4>2
    <3> QED
      BY <3>1, <3>4, <3>5, <3>6
  <2>2. i + 1 \in Nat
    OBVIOUS
  <2> QED
    BY <2>1, <2>2
<1>3. T = Nat
  <2> HIDE DEF T
  <2>1. T \in SUBSET Nat
    BY DEF T
  <2> QED
    BY <1>1, <1>2, <2>1, AllNat
<1> QED
  BY <1>3

\* bitonicMerge sorts a valley of any length.
LEMMA bitonicMergeSorts ==
  ASSUME NEW lo \in Nat, NEW n \in Nat, NEW dir \in BOOLEAN
  PROVE  MergedBy(bitonicMerge[<<lo, n, dir>>], lo, n, dir, FALSE)
<1> DEFINE Good(k) == \A a \in Nat, d \in BOOLEAN : MergedBy(bitonicMerge[<<a, k, d>>], a, k, d, FALSE)
           Bad == {k \in Nat : ~Good(k)}
<1> SUFFICES ASSUME Bad # {} PROVE FALSE
  OBVIOUS
<1>1. PICK k \in Bad : \A l \in Bad : k <= l
  <2> HIDE DEF Bad
  <2>1. Bad \in SUBSET Nat
    BY DEF Bad
  <2> QED
    BY <2>1, LeastNat
<1>2. k \in Nat /\ ~Good(k)
  OBVIOUS
<1>3. \A l \in Nat : l < k => Good(l)
  <2> HIDE DEF Good
  <2>1. \A l \in Nat : l < k => l \notin Bad
    <3> HIDE DEF Bad
    <3> QED
      BY <1>1, <1>2
  <2> QED
    BY <2>1
<1>4. PICK a \in Nat, d \in BOOLEAN : ~MergedBy(bitonicMerge[<<a, k, d>>], a, k, d, FALSE)
  BY <1>2
<1>5. CASE k <= 1
  BY <1>2, <1>4, <1>5, OneSorted DEF MergedBy
<1>6. CASE k > 1
  <2>1. PICK m : m = greatestPowerOfTwoLessThan(k)
    OBVIOUS
  <2>2. m \in Nat /\ m < k /\ k <= 2 * m /\ k - m \in Nat /\ k - m < k /\ a + m \in Nat
    BY <1>2, <1>6, <2>1, HalfPower
  <2>3. PICK s, t : s = bitonicMerge[<<a, m, d>>] /\ t = bitonicMerge[<<a + m, k - m, d>>]
    OBVIOUS
  <2>4. s \in Seq(Within(a, m)) /\ t \in Seq(Within(a + m, k - m))
    BY <2>2, <2>3, bitonicMergeIn
  <2>5. MergedBy(s, a, m, d, TRUE)
    <3>1. PICK e \in Nat : m = Doubled[e]
      BY <1>2, <1>6, <2>1, HalfPower
    <3>2. s = paddedMerge[<<a, m, d>>]
      BY <2>3, <3>1, MergesAlike
    <3> QED
      BY <3>1, <3>2, paddedMergeSorts
  <2>6. MergedBy(t, a + m, k - m, d, FALSE)
    BY <1>3, <2>2, <2>3
  <2>7. bitonicMerge[<<a, k, d>>] = HalfCompare(a, k - m, m, d) \o s \o t
    BY <1>2, <1>6, <2>1, <2>3, bitonicMergeIs
  <2>8. FALSE \in BOOLEAN
    BY Zenon
  <2> HIDE DEF Good, Bad
  <2>9. MergedBy(HalfCompare(a, k - m, m, d) \o s \o t, a, k, d, FALSE)
    BY <1>2, <2>2, <2>4, <2>5, <2>6, <2>8, MergePart
  <2> QED
    BY <1>4, <2>7, <2>9
<1> QED
  BY <1>2, <1>5, <1>6

\* What the other direction finds sorted descends.
LEMMA UpNot ==
  ASSUME NEW Y \in SUBSET Nat, NEW x \in Nat
  PROVE  /\ x \in Up(Y, TRUE) <=> x \notin Up(Y, FALSE)
         /\ \A d \in BOOLEAN : x \in Up(Y, ~d) <=> x \notin Up(Y, d)
<1>1. Up(Y, TRUE) = Y /\ Up(Y, FALSE) = Nat \ Y
  BY Zenon DEF Up
<1>2. x \in Up(Y, TRUE) <=> x \notin Up(Y, FALSE)
  BY <1>1
<1>3. ASSUME NEW d \in BOOLEAN PROVE x \in Up(Y, ~d) <=> x \notin Up(Y, d)
  <2>1. CASE d = TRUE
    <3>1. Up(Y, ~d) = Nat \ Y /\ Up(Y, d) = Y
      BY <2>1, Zenon DEF Up
    <3> QED
      BY <3>1
  <2>2. CASE d = FALSE
    <3>1. Up(Y, ~d) = Y /\ Up(Y, d) = Nat \ Y
      BY <2>2, Zenon DEF Up
    <3> QED
      BY <3>1
  <2> QED
    BY <2>1, <2>2
<1> QED
  BY <1>2, <1>3

SortedBy(net, lo, n, dir) ==
  \A Y \in SUBSET Nat : SortedOn(Up(After(net, Y), dir), lo, n)

\* Two halves sorted in opposite directions and then merged; the lower half in
\* the direction down of `up`, whose places are those that `down` does not hold.
SortedParts(s, t, u, lo, m, c, dir, d1, d2, hills) ==
  /\ lo \in Nat /\ m \in Nat /\ c \in Nat
  /\ dir \in BOOLEAN /\ d1 \in BOOLEAN /\ d2 \in BOOLEAN /\ hills \in BOOLEAN
  /\ d1 # d2 /\ (d2 # dir => hills)
  /\ s \in Seq(Within(lo, m)) /\ t \in Seq(Within(lo + m, c)) /\ u \in Nets
  /\ SortedBy(s, lo, m, d1) /\ SortedBy(t, lo + m, c, d2) /\ MergedBy(u, lo, m + c, dir, hills)

LEMMA SortPart ==
  ASSUME NEW s, NEW t, NEW u, NEW lo, NEW m, NEW c, NEW dir, NEW d1, NEW d2, NEW hills,
         SortedParts(s, t, u, lo, m, c, dir, d1, d2, hills)
  PROVE  SortedBy(s \o t \o u, lo, m + c, dir)
<1> USE DEF SortedParts
<1> lo \in Nat /\ m \in Nat /\ c \in Nat /\ dir \in BOOLEAN /\ d1 \in BOOLEAN /\ d2 \in BOOLEAN /\ hills \in BOOLEAN
  OBVIOUS
<1> s \in Seq(Within(lo, m)) /\ t \in Seq(Within(lo + m, c)) /\ u \in Nets
  OBVIOUS
<1>s. SortedBy(s, lo, m, d1) /\ SortedBy(t, lo + m, c, d2) /\ MergedBy(u, lo, m + c, dir, hills)
  OBVIOUS
<1>d. d1 # d2 /\ (d2 # dir => hills)
  OBVIOUS
<1> HIDE DEF SortedParts
<1>1. lo + m \in Nat /\ m + c \in Nat
  OBVIOUS
<1>2. s \in Nets /\ t \in Nets /\ Touches(s, Piece(lo, m)) /\ Touches(t, Piece(lo + m, c))
  BY <1>1, WithinTouches
<1> SUFFICES ASSUME NEW Z \in SUBSET Nat PROVE SortedOn(Up(After(s \o t \o u, Z), dir), lo, m + c)
  BY DEF SortedBy
<1>3. PICK Y, X : Y = After(s, Z) /\ X = After(t, Y)
  OBVIOUS
<1>4. Y \in SUBSET Nat /\ X \in SUBSET Nat
  BY <1>2, <1>3, RunIs
<1>5. After(s \o t \o u, Z) = After(u, X)
  <2>1. s \o t \in Nets
    BY <1>2, NetsAppend DEF Nets
  <2>2. After((s \o t) \o u, Z) = After(u, After(s \o t, Z))
    BY <2>1, AfterAppend
  <2> QED
    BY <1>2, <1>3, <2>2, AfterAppend
<1>6. PICK p \in 0 .. m : \A k \in 0 .. m - 1 : lo + k \in Up(Y, d1) <=> p <= k
  BY <1>s, <1>3 DEF SortedBy, SortedOn
<1>7. PICK q \in 0 .. c : \A k \in 0 .. c - 1 : lo + m + k \in Up(X, d2) <=> q <= k
  BY <1>s, <1>3, <1>4 DEF SortedBy, SortedOn
<1>8. \A x \in Nat : x < lo + m \/ lo + m + c <= x => (x \in Up(X, d2) <=> x \in Up(Y, d2))
  BY <1>1, <1>2, <1>3, <1>4, UpOutside
<1>9. \A x \in Nat : x \in Up(Y, d1) <=> x \notin Up(Y, d2)
  <2>1. d1 = (~d2)
    BY <1>d
  <2> QED
    BY <1>4, <2>1, UpNot
<1>10. \A k \in 0 .. m + c - 1 : lo + k \in Up(X, d2) <=> k < p \/ m + q <= k
  <2> TAKE k \in 0 .. m + c - 1
  <2>1. CASE k < m
    <3>1. lo + k \in Nat /\ lo + k < lo + m /\ k \in 0 .. m - 1
      BY <2>1
    <3>2. (lo + k \in Up(X, d2)) <=> ~(lo + k \in Up(Y, d1))
      BY <1>8, <1>9, <3>1
    <3>3. (lo + k \in Up(Y, d1)) <=> p <= k
      BY <1>6, <3>1
    <3> QED
      BY <2>1, <3>2, <3>3
  <2>2. CASE ~(k < m)
    <3>1. PICK l : l = k - m
      OBVIOUS
    <3>2. l \in 0 .. c - 1 /\ lo + m + l = lo + k /\ (q <= l <=> m + q <= k) /\ ~(k < p)
      BY <2>2, <3>1
    <3>3. (lo + m + l \in Up(X, d2)) <=> q <= l
      BY <1>7, <3>2
    <3> QED
      BY <3>2, <3>3
  <2> QED
    BY <2>1, <2>2
<1>11. p \in 0 .. m + c /\ m + q \in 0 .. m + c /\ p <= m + q
  OBVIOUS
<1>12. CASE d2 = dir
  <2>1. Valley(Up(X, dir), lo, m + c)
    <3>1. PICK V, n, b : V = Up(X, d2) /\ n = m + c /\ b = m + q
      OBVIOUS
    <3>2. p \in 0 .. n /\ b \in 0 .. n /\ p <= b
      BY <1>11, <3>1
    <3>a. \A k \in 0 .. m + c - 1 : lo + k \in V <=> k < p \/ m + q <= k
      BY <1>10, <3>1, Zenon
    <3>3. \A k \in 0 .. n - 1 : lo + k \in V <=> k < p \/ b <= k
      <4> TAKE k \in 0 .. n - 1
      <4>1. k \in 0 .. m + c - 1 /\ (m + q <= k <=> b <= k)
        BY <3>1
      <4> QED
        BY <3>a, <4>1
    <3>4. Valley(V, lo, n)
      BY <3>2, <3>3 DEF Valley
    <3> QED
      BY <1>12, <3>1, <3>4, Zenon
  <2> QED
    BY <1>s, <1>4, <1>5, <2>1 DEF MergedBy
<1>13. CASE d2 # dir /\ hills
  <2>1. \A x \in Nat : x \in Up(X, dir) <=> x \notin Up(X, d2)
    <3>1. dir = (~d2)
      BY <1>13
    <3> QED
      BY <1>4, <3>1, UpNot
  <2>2. \A k \in 0 .. m + c - 1 : lo + k \in Up(X, dir) <=> p <= k /\ k < m + q
    <3>1. \A k \in 0 .. m + c - 1 : lo + k \in Nat /\ (~(k < p) <=> p <= k) /\ (~(m + q <= k) <=> k < m + q)
      OBVIOUS
    <3> QED
      BY <1>10, <2>1, <3>1
  <2>3. Hill(Up(X, dir), lo, m + c)
    <3>1. PICK V, n, b : V = Up(X, dir) /\ n = m + c /\ b = m + q
      OBVIOUS
    <3>2. p \in 0 .. n /\ b \in 0 .. n /\ p <= b
      BY <1>11, <3>1
    <3>3. \A k \in 0 .. n - 1 : lo + k \in V <=> p <= k /\ k < b
      BY <2>2, <3>1
    <3>4. Hill(V, lo, n)
      BY <3>2, <3>3 DEF Hill
    <3> QED
      BY <3>1, <3>4
  <2> QED
    BY <1>s, <1>4, <1>5, <1>13, <2>3 DEF MergedBy
<1> QED
  BY <1>d, <1>12, <1>13

\* bitonicSort sorts pieces of any length.
LEMMA bitonicSortSorts ==
  ASSUME NEW lo \in Nat, NEW n \in Nat, NEW dir \in BOOLEAN
  PROVE  SortedBy(bitonicSort[<<lo, n, dir>>], lo, n, dir)
<1> DEFINE Good(k) == \A a \in Nat, d \in BOOLEAN : SortedBy(bitonicSort[<<a, k, d>>], a, k, d)
           Bad == {k \in Nat : ~Good(k)}
<1> SUFFICES ASSUME Bad # {} PROVE FALSE
  OBVIOUS
<1>1. PICK k \in Bad : \A l \in Bad : k <= l
  <2> HIDE DEF Bad
  <2>1. Bad \in SUBSET Nat
    BY DEF Bad
  <2> QED
    BY <2>1, LeastNat
<1>2. k \in Nat /\ ~Good(k)
  OBVIOUS
<1>3. \A l \in Nat : l < k => Good(l)
  <2> HIDE DEF Good
  <2>1. \A l \in Nat : l < k => l \notin Bad
    <3> HIDE DEF Bad
    <3> QED
      BY <1>1, <1>2
  <2> QED
    BY <2>1
<1>4. PICK a \in Nat, d \in BOOLEAN : ~SortedBy(bitonicSort[<<a, k, d>>], a, k, d)
  BY <1>2
<1>5. CASE k <= 1
  BY <1>2, <1>4, <1>5, OneSorted DEF SortedBy
<1>6. CASE k > 1
  <2>1. PICK m, c, f : m = k \div 2 /\ c = k - m /\ f = (~d)
    OBVIOUS
  <2>2. m \in Nat /\ m < k /\ c \in Nat /\ c < k /\ a + m \in Nat /\ m + c = k
    BY <1>2, <1>6, <2>1
  <2>3. f \in BOOLEAN /\ f # d
    BY <2>1
  <2>4. PICK s, t, u : /\ s = bitonicSort[<<a, m, f>>] /\ t = bitonicSort[<<a + m, c, d>>]
                       /\ u = bitonicMerge[<<a, k, d>>]
    OBVIOUS
  <2>5. s \in Seq(Within(a, m)) /\ t \in Seq(Within(a + m, c))
    BY <2>2, <2>3, <2>4, bitonicSortIn
  <2>6. u \in Nets
    <3>1. u \in Seq(Within(a, k))
      BY <1>2, <2>4, bitonicMergeIn
    <3> QED
      BY <3>1, WithinNets
  <2>7. SortedBy(s, a, m, f)
    BY <1>3, <2>2, <2>3, <2>4
  <2>8. SortedBy(t, a + m, c, d)
    BY <1>3, <2>2, <2>4
  <2> HIDE DEF Good, Bad
  <2>9. MergedBy(u, a, m + c, d, FALSE)
    BY <1>2, <2>2, <2>4, bitonicMergeSorts
  <2>10. bitonicSort[<<a, k, d>>] = s \o t \o u
    <3>1. bitonicSort[<<a, k, d>>] =
            bitonicSort[<<a, k \div 2, ~d>>] \o bitonicSort[<<a + (k \div 2), k - (k \div 2), d>>]
              \o bitonicMerge[<<a, k, d>>]
      BY <1>2, <1>6, bitonicSortIs
    <3> QED
      BY <2>1, <2>4, <3>1, Zenon
  <2>11. FALSE \in BOOLEAN
    BY Zenon
  <2>12. SortedBy(s \o t \o u, a, m + c, d)
    <3>1. PICK h : h = FALSE
      OBVIOUS
    <3>2. h \in BOOLEAN /\ MergedBy(u, a, m + c, d, h)
      BY <2>9, <2>11, <3>1
    <3>3. m \in Nat /\ c \in Nat /\ a \in Nat /\ d \in BOOLEAN /\ (d = d \/ h)
      BY <2>2
    <3>4. SortedParts(s, t, u, a, m, c, d, f, d, h)
      BY <2>3, <2>5, <2>6, <2>7, <2>8, <3>2, <3>3 DEF SortedParts
    <3> QED
      BY <3>4, SortPart
  <2> QED
    BY <1>4, <2>2, <2>10, <2>12
<1> QED
  BY <1>2, <1>5, <1>6

\* paddedSort sorts pieces whose length is a power of two.
LEMMA paddedSortSorts ==
  ASSUME NEW e \in Nat, NEW lo \in Nat, NEW dir \in BOOLEAN
  PROVE  SortedBy(paddedSort[<<lo, Doubled[e], dir>>], lo, Doubled[e], dir)
<1> DEFINE T == {i \in Nat : \A a \in Nat, d \in BOOLEAN :
                   SortedBy(paddedSort[<<a, Doubled[i], d>>], a, Doubled[i], d)}
<1>1. 0 \in T
  <2>1. ASSUME NEW a \in Nat, NEW d \in BOOLEAN
        PROVE  SortedBy(paddedSort[<<a, Doubled[0], d>>], a, Doubled[0], d)
    <3>1. Doubled[0] \in Nat /\ Doubled[0] <= 1
      BY DoubledFacts
    <3> QED
      BY <2>1, <3>1, OneSorted DEF SortedBy
  <2> QED
    BY <2>1
<1>2. ASSUME NEW i \in T PROVE i + 1 \in T
  <2>1. ASSUME NEW a \in Nat, NEW d \in BOOLEAN
        PROVE  SortedBy(paddedSort[<<a, Doubled[i + 1], d>>], a, Doubled[i + 1], d)
    <3>1. PICK n, m : n = Doubled[i + 1] /\ m = Doubled[i]
      OBVIOUS
    <3>2. i \in Nat /\ n \in Nat /\ m \in Nat /\ n > 1 /\ n = 2 * m /\ n \div 2 = m
      <4>1. i \in Nat
        OBVIOUS
      <4> HIDE DEF T
      <4> QED
        BY <3>1, <4>1, PowerHalves
    <3>3. PICK s, t, u : s = paddedSort[<<a, m, TRUE>>] /\ t = paddedSort[<<a + m, m, FALSE>>] /\ u = paddedMerge[<<a, n, d>>]
      OBVIOUS
    <3>4. a + m \in Nat /\ m + m = n
      BY <3>2
    <3>5. TRUE \in BOOLEAN /\ FALSE \in BOOLEAN /\ TRUE # FALSE
      BY Zenon
    <3>6. SortedBy(s, a, m, TRUE) /\ SortedBy(t, a + m, m, FALSE)
      BY <3>1, <3>3, <3>4, <3>5
    <3> HIDE DEF T
    <3>7. s \in Seq(Within(a, m)) /\ t \in Seq(Within(a + m, m))
      BY <3>2, <3>3, <3>4, <3>5, paddedSortIn
    <3>8. u \in Nets
      <4>1. u \in Seq(Within(a, n))
        BY <3>2, <3>3, paddedMergeIn
      <4> QED
        BY <4>1, WithinNets
    <3>9. MergedBy(u, a, m + m, d, TRUE)
      <4>1. i + 1 \in Nat
        BY <3>2
      <4>2. MergedBy(u, a, n, d, TRUE)
        BY <3>1, <3>3, <4>1, paddedMergeSorts
      <4> QED
        BY <3>4, <4>2
    <3>10. paddedSort[<<a, n, d>>] = s \o t \o u
      <4>1. paddedSort[<<a, n, d>>] =
              paddedSort[<<a, n \div 2, TRUE>>] \o paddedSort[<<a + (n \div 2), n \div 2, FALSE>>] \o paddedMerge[<<a, n, d>>]
        BY <3>2, paddedSortIs
      <4> QED
        BY <3>2, <3>3, <4>1, Zenon
    <3>11. SortedBy(s \o t \o u, a, m + m, d)
      <4>1. m \in Nat
        BY <3>2
      <4>2. PICK x, y : x = TRUE /\ y = FALSE
        OBVIOUS
      <4>3. /\ x \in BOOLEAN /\ y \in BOOLEAN /\ SortedBy(s, a, m, x) /\ SortedBy(t, a + m, m, y)
            /\ MergedBy(u, a, m + m, d, x)
        BY <3>5, <3>6, <3>9, <4>2
      <4>4. x # y /\ (y # d => x)
        BY <4>2
      <4>5. SortedParts(s, t, u, a, m, m, d, x, y, x)
        BY <3>4, <3>7, <3>8, <4>1, <4>3, <4>4 DEF SortedParts
      <4> QED
        BY <4>5, SortPart
    <3> QED
      BY <3>1, <3>4, <3>10, <3>11
  <2>2. i + 1 \in Nat
    OBVIOUS
  <2> QED
    BY <2>1, <2>2
<1>3. T = Nat
  <2> HIDE DEF T
  <2>1. T \in SUBSET Nat
    BY DEF T
  <2> QED
    BY <1>1, <1>2, <2>1, AllNat
<1> QED
  BY <1>3

(* Odd-even merge.                                                            *)

\* Compares of which no two have a place in common.
Disjoint(net) ==
  /\ \A k \in 1 .. Len(net) : net[k][3] = TRUE /\ net[k][1] # net[k][2]
  /\ \A k, l \in 1 .. Len(net) : k # l => {net[k][1], net[k][2]} \cap {net[l][1], net[l][2]} = {}

LEMMA DisjointCompares ==
  ASSUME NEW net \in Nets, Disjoint(net), NEW Z \in SUBSET Nat
  PROVE  LET V == After(net, Z)
         IN /\ \A k \in 1 .. Len(net) : /\ net[k][1] \in V <=> net[k][1] \in Z /\ net[k][2] \in Z
                                        /\ net[k][2] \in V <=> net[k][1] \in Z \/ net[k][2] \in Z
            /\ \A x \in Nat : (\A k \in 1 .. Len(net) : x # net[k][1] /\ x # net[k][2]) => (x \in V <=> x \in Z)
<1> DEFINE A == {net[k][1] : k \in 1 .. Len(net)} \cup {net[k][2] : k \in 1 .. Len(net)}
           R(j) == RunOf(net, Z)[j]
           T == {j \in 0 .. Len(net) : \A k \in 1 .. Len(net) :
                   IF k <= j THEN /\ net[k][1] \in R(j) <=> net[k][1] \in Z /\ net[k][2] \in Z
                                  /\ net[k][2] \in R(j) <=> net[k][1] \in Z \/ net[k][2] \in Z
                   ELSE (net[k][1] \in R(j) <=> net[k][1] \in Z) /\ (net[k][2] \in R(j) <=> net[k][2] \in Z)}
<1>1. Len(net) \in Nat /\ \A k \in 1 .. Len(net) : net[k][1] \in Nat /\ net[k][2] \in Nat
  BY NetFacts
<1>2. \A x \in Nat : (\A k \in 1 .. Len(net) : x # net[k][1] /\ x # net[k][2]) => (x \in After(net, Z) <=> x \in Z)
  <2>1. Touches(net, A)
    BY DEF Touches
  <2>2. \A x \in Nat \ A : x \in After(net, Z) <=> x \in Z
    <3> HIDE DEF A
    <3> QED
      BY <2>1, AfterOutside
  <2> QED
    BY <2>2
<1> HIDE DEF A
<1>3. 0 \in T
  <2>1. R(0) = Z
    BY RunIs
  <2>2. \A k \in 1 .. Len(net) : ~(k <= 0)
    OBVIOUS
  <2>3. 0 \in 0 .. Len(net)
    BY <1>1
  <2> HIDE DEF R
  <2> QED
    BY <2>1, <2>2, <2>3
<1>4. ASSUME NEW j \in Nat, j \in T, j < Len(net) PROVE j + 1 \in T
  <2>1. PICK Y, X, c, i : Y = R(j) /\ X = R(j + 1) /\ i = j + 1 /\ c = net[i]
    OBVIOUS
  <2>2. i \in 1 .. Len(net) /\ i - 1 = j /\ i \in 0 .. Len(net)
    BY <1>1, <1>4, <2>1
  <2>3. X = Step(Y, c)
    <3>1. \A k \in 1 .. Len(net) : RunOf(net, Z)[k] = Step(RunOf(net, Z)[k - 1], net[k])
      BY RunIs
    <3> QED
      BY <2>1, <2>2, <3>1
  <2>4. c[3] = TRUE /\ c[1] # c[2]
    BY <2>1, <2>2 DEF Disjoint
  <2>5. X = Move(Y, c[1], c[2])
    BY <2>3, <2>4 DEF Step
  <2>6. ASSUME NEW k \in 1 .. Len(net)
        PROVE  IF k <= i THEN /\ net[k][1] \in X <=> net[k][1] \in Z /\ net[k][2] \in Z
                              /\ net[k][2] \in X <=> net[k][1] \in Z \/ net[k][2] \in Z
               ELSE (net[k][1] \in X <=> net[k][1] \in Z) /\ (net[k][2] \in X <=> net[k][2] \in Z)
    <3>1. IF k <= j THEN /\ net[k][1] \in Y <=> net[k][1] \in Z /\ net[k][2] \in Z
                         /\ net[k][2] \in Y <=> net[k][1] \in Z \/ net[k][2] \in Z
          ELSE (net[k][1] \in Y <=> net[k][1] \in Z) /\ (net[k][2] \in Y <=> net[k][2] \in Z)
      BY <1>4, <2>1
    <3>2. CASE k = i
      <4>1. ~(k <= j) /\ k <= i /\ net[k] = c
        BY <2>1, <2>2, <3>2
      <4>2. (c[1] \in Y <=> c[1] \in Z) /\ (c[2] \in Y <=> c[2] \in Z)
        BY <3>1, <4>1
      <4>3. (c[1] \in X <=> c[1] \in Z /\ c[2] \in Z) /\ (c[2] \in X <=> c[1] \in Z \/ c[2] \in Z)
        BY <2>4, <2>5, <4>2 DEF Move
      <4> QED
        BY <4>1, <4>3
    <3>3. CASE k # i
      <4>1. {net[k][1], net[k][2]} \cap {c[1], c[2]} = {}
        BY <2>1, <2>2, <3>3 DEF Disjoint
      <4>2. net[k][1] # c[1] /\ net[k][1] # c[2] /\ net[k][2] # c[1] /\ net[k][2] # c[2]
        BY <4>1
      <4>3. (net[k][1] \in X <=> net[k][1] \in Y) /\ (net[k][2] \in X <=> net[k][2] \in Y)
        BY <2>5, <4>2 DEF Move
      <4>4. k <= i <=> k <= j
        BY <2>1, <2>2, <3>3
      <4> QED
        BY <3>1, <4>3, <4>4
    <3> QED
      BY <3>2, <3>3
  <2> HIDE DEF R
  <2>7. i \in T
    <3>1. R(i) = X
      BY <2>1
    <3> QED
      BY <2>2, <2>6, <3>1
  <2> QED
    BY <2>1, <2>7
<1>5. Len(net) \in T
  <2> HIDE DEF T
  <2>1. 0 .. Len(net) \subseteq T
    BY <1>1, <1>3, <1>4, UpTo
  <2> QED
    BY <1>1, <2>1
<1>6. \A k \in 1 .. Len(net) : /\ net[k][1] \in After(net, Z) <=> net[k][1] \in Z /\ net[k][2] \in Z
                               /\ net[k][2] \in After(net, Z) <=> net[k][1] \in Z \/ net[k][2] \in Z
  <2>1. R(Len(net)) = After(net, Z)
    BY DEF After
  <2>2. \A k \in 1 .. Len(net) : k <= Len(net)
    BY <1>1
  <2> HIDE DEF R
  <2> QED
    BY <1>5, <2>1, <2>2
<1> QED
  BY <1>2, <1>6

\* The places an odd-even merge of stride r works on.
Place(lo, r, k) == lo + r * k

LEMMA PlaceFacts ==
  ASSUME NEW lo \in Nat, NEW r \in Nat \ {0}
  PROVE  /\ \A k \in Nat : Place(lo, r, k) \in Nat
         /\ \A k, l \in Nat : Place(lo, r, k) = Place(lo, r, l) => k = l
         /\ \A k \in Nat : /\ Place(lo, 2 * r, k) = Place(lo, r, 2 * k)
                           /\ Place(lo + r, 2 * r, k) = Place(lo, r, 2 * k + 1)
         /\ Place(lo, r, 0) = lo /\ Place(lo, r, 1) = lo + r
<1>1. \A k \in Nat : Place(lo, r, k) \in Nat
  BY DEF Place
<1>2. ASSUME NEW k \in Nat, NEW l \in Nat, k < l PROVE r * k < r * l
  <2>1. PICK d \in Nat : l = k + 1 + d
    BY <1>2
  <2>2. r * l = r * k + r + r * d
    BY <2>1
  <2>3. r * d \in Nat /\ r * k \in Nat
    OBVIOUS
  <2> QED
    BY <2>2, <2>3
<1>3. \A k, l \in Nat : Place(lo, r, k) = Place(lo, r, l) => k = l
  <2> TAKE k, l \in Nat
  <2>1. r * k \in Nat /\ r * l \in Nat
    OBVIOUS
  <2>2. lo + r * k = lo + r * l => r * k = r * l
    BY <2>1
  <2>3. k < l \/ l < k \/ k = l
    OBVIOUS
  <2>4. k < l => r * k < r * l
    BY <1>2
  <2>5. l < k => r * l < r * k
    BY <1>2
  <2> QED
    BY <2>1, <2>2, <2>3, <2>4, <2>5 DEF Place
<1>4. ASSUME NEW k \in Nat
      PROVE  Place(lo, 2 * r, k) = Place(lo, r, 2 * k) /\ Place(lo + r, 2 * r, k) = Place(lo, r, 2 * k + 1)
  <2>1. (2 * r) * k = r * (2 * k) /\ r * (2 * k + 1) = r * (2 * k) + r
    OBVIOUS
  <2>2. r * (2 * k) \in Nat
    OBVIOUS
  <2> QED
    BY <2>1, <2>2 DEF Place
<1>5. Place(lo, r, 0) = lo /\ Place(lo, r, 1) = lo + r
  BY DEF Place
<1> QED
  BY <1>1, <1>3, <1>4, <1>5

\* The compares of the last loop, with 2 * h places.
Pairs(net, lo, r, h) ==
  /\ net \in Nets /\ Len(net) = h - 1
  /\ \A k \in 1 .. h - 1 :
       net[k][1] = Place(lo, r, 2 * k - 1) /\ net[k][2] = Place(lo, r, 2 * k) /\ net[k][3] = TRUE

LEMMA OddLoopIs ==
  ASSUME NEW lo \in Nat, NEW r \in Nat \ {0}, NEW h \in Nat \ {0}, NEW n, n = r * (2 * h)
  PROVE  Pairs(OddLoop(lo, n, r), lo, r, h)
<1> DEFINE m == 2 * r
<1>1. m \in Nat \ {0} /\ n = h * m
  OBVIOUS
<1>2. n \in Nat \ {0}
  <2>1. h - 1 \in Nat
    OBVIOUS
  <2>2. h * m = (h - 1) * m + m /\ (h - 1) * m \in Nat
    <3> HIDE DEF m
    <3> QED
      BY <1>1, <2>1
  <2> HIDE DEF m
  <2> QED
    BY <1>1, <2>2
<1>3. (n - 1) \div m = h - 1
  <2>1. n - 1 = (h - 1) * m + (m - 1)
    <3> HIDE DEF m
    <3> QED
      BY <1>1
  <2>2. m - 1 \in 0 .. m - 1 /\ h - 1 \in Nat
    BY <1>1
  <2>3. \A q \in Nat, d \in 0 .. m - 1 : (q * m + d) \div m = q
    <3> HIDE DEF m
    <3> QED
      BY <1>1
  <2> HIDE DEF m
  <2> QED
    BY <2>1, <2>2, <2>3
<1>4. OddLoop(lo, n, r) \in Nets
  BY <1>2, OddLoopIn
<1>5. OddLoop(lo, n, r) = [k \in 1 .. h - 1 |-> <<lo + r + (k - 1) * m, lo + r + (k - 1) * m + r, TRUE>>]
  <2> HIDE DEF m
  <2> QED
    BY <1>3 DEF OddLoop, m
<1>6. ASSUME NEW k \in 1 .. h - 1
      PROVE  lo + r + (k - 1) * m = Place(lo, r, 2 * k - 1) /\ lo + r + (k - 1) * m + r = Place(lo, r, 2 * k)
  <2>1. k - 1 \in Nat
    OBVIOUS
  <2>2. (k - 1) * m = r * (2 * (k - 1))
    BY <2>1
  <2>3. 2 * k - 1 = 2 * (k - 1) + 1 /\ 2 * k = 2 * (k - 1) + 2
    OBVIOUS
  <2>4. PICK x : x = 2 * (k - 1)
    OBVIOUS
  <2>5. x \in Nat /\ r * (x + 1) = r * x + r /\ r * (x + 2) = r * x + 2 * r /\ r * x \in Nat
    BY <2>1, <2>4
  <2> QED
    BY <2>2, <2>3, <2>4, <2>5 DEF Place
<1>7. h - 1 \in Nat
  OBVIOUS
<1>8. Len(OddLoop(lo, n, r)) = h - 1
  <2> DEFINE e(k) == <<lo + r + (k - 1) * m, lo + r + (k - 1) * m + r, TRUE>>
  <2>1. OddLoop(lo, n, r) = [k \in 1 .. h - 1 |-> e(k)]
    BY <1>5
  <2>2. OddLoop(lo, n, r) \in Nets /\ DOMAIN OddLoop(lo, n, r) = 1 .. h - 1
    BY <1>4, <2>1
  <2> HIDE DEF e
  <2>3. OddLoop(lo, n, r) \in Seq(Nat \X Nat \X BOOLEAN)
    BY <2>2 DEF Nets
  <2> QED
    BY <1>7, <2>1
<1>9. \A k \in 1 .. h - 1 : OddLoop(lo, n, r)[k] = <<Place(lo, r, 2 * k - 1), Place(lo, r, 2 * k), TRUE>>
  BY <1>5, <1>6
<1>10. \A k \in 1 .. h - 1 : /\ OddLoop(lo, n, r)[k][1] = Place(lo, r, 2 * k - 1)
                             /\ OddLoop(lo, n, r)[k][2] = Place(lo, r, 2 * k)
                             /\ OddLoop(lo, n, r)[k][3] = TRUE
  <2> TAKE k \in 1 .. h - 1
  <2>1. PICK x, y, c : x = Place(lo, r, 2 * k - 1) /\ y = Place(lo, r, 2 * k) /\ c = <<x, y, TRUE>>
    OBVIOUS
  <2>2. c[1] = x /\ c[2] = y /\ c[3] = TRUE
    BY <2>1
  <2>3. OddLoop(lo, n, r)[k] = c
    BY <1>9, <2>1
  <2> QED
    BY <2>1, <2>2, <2>3
<1> QED
  BY <1>4, <1>8, <1>10 DEF Pairs

\* With p zeros in the lower half of h places each and q in the upper, the merge
\* leaves p + q at the front.
MergesAt(net, lo, r, h) ==
  \A Y \in SUBSET Nat : \A p, q \in 0 .. h :
    (\A k \in 0 .. h - 1 : /\ Place(lo, r, k) \in Y <=> p <= k
                           /\ Place(lo, r, h + k) \in Y <=> q <= k)
      => \A k \in 0 .. 2 * h - 1 : Place(lo, r, k) \in After(net, Y) <=> p + q <= k
KeepsOthers(net, lo, r, n) ==
  \A Y \in SUBSET Nat : \A x \in Nat :
    (\A k \in 0 .. n - 1 : x # Place(lo, r, k)) => (x \in After(net, Y) <=> x \in Y)

\* The zeros at the even and at the odd places of the two halves.
LEMMA HalvedZeros ==
  ASSUME NEW h \in Nat, NEW p \in 0 .. 2 * h, NEW q \in 0 .. 2 * h
  PROVE  LET E == (p + 1) \div 2 + (q + 1) \div 2
             O == p \div 2 + q \div 2
         IN /\ (p + 1) \div 2 \in 0 .. h /\ (q + 1) \div 2 \in 0 .. h /\ p \div 2 \in 0 .. h /\ q \div 2 \in 0 .. h
            /\ E + O = p + q /\ O <= E /\ E <= O + 2
            /\ O <= 2 * h - 1 <=> p + q <= 4 * h - 1
            /\ \A k \in Nat : /\ p <= 2 * k <=> (p + 1) \div 2 <= k
                              /\ q <= 2 * k <=> (q + 1) \div 2 <= k
                              /\ p <= 2 * k + 1 <=> p \div 2 <= k
                              /\ q <= 2 * k + 1 <=> q \div 2 <= k
<1>1. PICK a \in Nat, b \in {0, 1} : p = 2 * a + b
  <2>1. p = 2 * (p \div 2) + (p % 2) /\ p \div 2 \in Nat /\ p % 2 \in {0, 1}
    OBVIOUS
  <2> QED
    BY <2>1
<1>2. PICK c \in Nat, d \in {0, 1} : q = 2 * c + d
  <2>1. q = 2 * (q \div 2) + (q % 2) /\ q \div 2 \in Nat /\ q % 2 \in {0, 1}
    OBVIOUS
  <2> QED
    BY <2>1
<1>3. p \div 2 = a /\ (p + 1) \div 2 = a + b /\ q \div 2 = c /\ (q + 1) \div 2 = c + d
  BY <1>1, <1>2
<1>4. a \in 0 .. h /\ c \in 0 .. h /\ a + b \in 0 .. h /\ c + d \in 0 .. h
  BY <1>1, <1>2
<1>5. /\ (a + b) + (c + d) + (a + c) = p + q
      /\ a + c <= (a + b) + (c + d) /\ (a + b) + (c + d) <= a + c + 2
  BY <1>1, <1>2
<1>6. a + c <= 2 * h - 1 <=> p + q <= 4 * h - 1
  BY <1>1, <1>2, <1>4
<1>7. \A k \in Nat : /\ p <= 2 * k <=> a + b <= k
                     /\ q <= 2 * k <=> c + d <= k
                     /\ p <= 2 * k + 1 <=> a <= k
                     /\ q <= 2 * k + 1 <=> c <= k
  BY <1>1, <1>2
<1> QED
  BY <1>3, <1>4, <1>5, <1>6, <1>7

LEMMA oneMerge ==
  ASSUME NEW a \in Nat, NEW s \in Nat \ {0}
  PROVE  LET net == << <<a, a + s, TRUE>> >>
         IN MergesAt(net, a, s, 1) /\ KeepsOthers(net, a, s, 2)
<1> DEFINE net == << <<a, a + s, TRUE>> >>
<1>1. /\ Len(net) = 1 /\ net[1][1] = a /\ net[1][2] = a + s /\ net[1][3] = TRUE
      /\ a # a + s /\ 1 \in 1 .. Len(net) /\ \A k \in 1 .. Len(net) : k = 1
  OBVIOUS
<1>2. net \in Nets
  <2>1. TRUE \in BOOLEAN /\ a + s \in Nat
    OBVIOUS
  <2>2. <<a, a + s, TRUE>> \in Nat \X Nat \X BOOLEAN
    BY <2>1, Zenon
  <2>3. PICK c : c = <<a, a + s, TRUE>>
    OBVIOUS
  <2>4. <<c>> \in Nets
    BY <2>2, <2>3 DEF Nets
  <2> QED
    BY <2>3, <2>4
<1> HIDE DEF net
<1>3. Disjoint(net)
  BY <1>1 DEF Disjoint
<1>4. Place(a, s, 0) = a /\ Place(a, s, 1) = a + s
  BY PlaceFacts
<1>5. ASSUME NEW Y \in SUBSET Nat
      PROVE  /\ a \in After(net, Y) <=> a \in Y /\ a + s \in Y
             /\ a + s \in After(net, Y) <=> a \in Y \/ a + s \in Y
             /\ \A x \in Nat : x # a /\ x # a + s => (x \in After(net, Y) <=> x \in Y)
  <2>1. PICK V : V = After(net, Y)
    OBVIOUS
  <2>2. /\ \A k \in 1 .. Len(net) : /\ net[k][1] \in V <=> net[k][1] \in Y /\ net[k][2] \in Y
                                    /\ net[k][2] \in V <=> net[k][1] \in Y \/ net[k][2] \in Y
        /\ \A x \in Nat : (\A k \in 1 .. Len(net) : x # net[k][1] /\ x # net[k][2]) => (x \in V <=> x \in Y)
    BY <1>2, <1>3, <2>1, DisjointCompares
  <2> QED
    BY <1>1, <2>1, <2>2
<1>6. MergesAt(net, a, s, 1)
  <2> SUFFICES ASSUME NEW Y \in SUBSET Nat, NEW p \in 0 .. 1, NEW q \in 0 .. 1,
                      \A k \in 0 .. 1 - 1 : /\ Place(a, s, k) \in Y <=> p <= k
                                            /\ Place(a, s, 1 + k) \in Y <=> q <= k,
                      NEW k \in 0 .. 2 * 1 - 1
               PROVE  Place(a, s, k) \in After(net, Y) <=> p + q <= k
    BY DEF MergesAt
  <2>1. 0 \in 0 .. 1 - 1 /\ 1 + 0 = 1
    OBVIOUS
  <2>2. (a \in Y <=> p <= 0) /\ (a + s \in Y <=> q <= 0)
    BY <1>4, <2>1
  <2>3. k = 0 \/ k = 1
    OBVIOUS
  <2>4. (p <= 0 /\ q <= 0 <=> p + q <= 0) /\ (p <= 0 \/ q <= 0 <=> p + q <= 1)
    OBVIOUS
  <2> QED
    BY <1>4, <1>5, <2>2, <2>3, <2>4
<1>7. KeepsOthers(net, a, s, 2)
  <2> SUFFICES ASSUME NEW Y \in SUBSET Nat, NEW x \in Nat, \A k \in 0 .. 2 - 1 : x # Place(a, s, k)
               PROVE  x \in After(net, Y) <=> x \in Y
    BY DEF KeepsOthers
  <2>1. 0 \in 0 .. 2 - 1 /\ 1 \in 0 .. 2 - 1
    OBVIOUS
  <2> QED
    BY <1>4, <1>5, <2>1
<1> QED
  BY <1>6, <1>7 DEF net

\* The last loop, on 2 * h places: pairs from the second place on.
LEMMA OddLoopDoes ==
  ASSUME NEW a \in Nat, NEW s \in Nat \ {0}, NEW h \in Nat \ {0}, NEW n, n = s * (2 * h), NEW Y \in SUBSET Nat
  PROVE  LET V == After(OddLoop(a, n, s), Y)
         IN /\ \A i \in 0 .. h - 2 :
                 /\ Place(a, s, 2 * i + 1) \in V <=> Place(a, s, 2 * i + 1) \in Y /\ Place(a, s, 2 * i + 2) \in Y
                 /\ Place(a, s, 2 * i + 2) \in V <=> Place(a, s, 2 * i + 1) \in Y \/ Place(a, s, 2 * i + 2) \in Y
            /\ \A x \in Nat : (\A k \in 1 .. 2 * h - 2 : x # Place(a, s, k)) => (x \in V <=> x \in Y)
<1>1. PICK net : net = OddLoop(a, n, s)
  OBVIOUS
<1>2. /\ net \in Nets /\ Len(net) = h - 1
      /\ \A k \in 1 .. h - 1 :
           net[k][1] = Place(a, s, 2 * k - 1) /\ net[k][2] = Place(a, s, 2 * k) /\ net[k][3] = TRUE
  <2>1. Pairs(OddLoop(a, n, s), a, s, h)
    BY OddLoopIs
  <2> QED
    BY <1>1, <2>1 DEF Pairs
<1>3. \A k \in 1 .. h - 1 : net[k][1] = Place(a, s, 2 * k - 1) /\ net[k][2] = Place(a, s, 2 * k) /\ net[k][3] = TRUE
  BY <1>2
<1>4. \A k, l \in Nat : Place(a, s, k) = Place(a, s, l) => k = l
  BY PlaceFacts
<1>5. Disjoint(net)
  <2>1. ASSUME NEW k \in 1 .. h - 1 PROVE net[k][3] = TRUE /\ net[k][1] # net[k][2]
    <3>1. 2 * k - 1 \in Nat /\ 2 * k \in Nat /\ 2 * k - 1 # 2 * k
      OBVIOUS
    <3> QED
      BY <1>3, <1>4, <3>1
  <2>2. ASSUME NEW k \in 1 .. h - 1, NEW l \in 1 .. h - 1, k # l
        PROVE  {net[k][1], net[k][2]} \cap {net[l][1], net[l][2]} = {}
    <3>1. /\ 2 * k - 1 \in Nat /\ 2 * k \in Nat /\ 2 * l - 1 \in Nat /\ 2 * l \in Nat
          /\ 2 * k - 1 # 2 * l - 1 /\ 2 * k - 1 # 2 * l /\ 2 * k # 2 * l - 1 /\ 2 * k # 2 * l
      BY <2>2
    <3>2. /\ Place(a, s, 2 * k - 1) # Place(a, s, 2 * l - 1) /\ Place(a, s, 2 * k - 1) # Place(a, s, 2 * l)
          /\ Place(a, s, 2 * k) # Place(a, s, 2 * l - 1) /\ Place(a, s, 2 * k) # Place(a, s, 2 * l)
      BY <1>4, <3>1
    <3>3. /\ net[k][1] # net[l][1] /\ net[k][1] # net[l][2] /\ net[k][2] # net[l][1] /\ net[k][2] # net[l][2]
      BY <1>3, <3>2
    <3> QED
      BY <3>3
  <2> QED
    BY <1>2, <2>1, <2>2 DEF Disjoint
<1>6. PICK V : V = After(net, Y)
  OBVIOUS
<1>7. /\ \A k \in 1 .. Len(net) : /\ net[k][1] \in V <=> net[k][1] \in Y /\ net[k][2] \in Y
                                  /\ net[k][2] \in V <=> net[k][1] \in Y \/ net[k][2] \in Y
      /\ \A x \in Nat : (\A k \in 1 .. Len(net) : x # net[k][1] /\ x # net[k][2]) => (x \in V <=> x \in Y)
  BY <1>2, <1>5, <1>6, DisjointCompares
<1>8. ASSUME NEW i \in 0 .. h - 2
      PROVE  /\ Place(a, s, 2 * i + 1) \in V <=> Place(a, s, 2 * i + 1) \in Y /\ Place(a, s, 2 * i + 2) \in Y
             /\ Place(a, s, 2 * i + 2) \in V <=> Place(a, s, 2 * i + 1) \in Y \/ Place(a, s, 2 * i + 2) \in Y
  <2>1. PICK k : k = i + 1
    OBVIOUS
  <2>2. k \in 1 .. h - 1 /\ 2 * k - 1 = 2 * i + 1 /\ 2 * k = 2 * i + 2
    BY <2>1
  <2>3. net[k][1] = Place(a, s, 2 * i + 1) /\ net[k][2] = Place(a, s, 2 * i + 2)
    BY <1>3, <2>2
  <2> QED
    BY <1>2, <1>7, <2>2, <2>3
<1>9. ASSUME NEW x \in Nat, \A k \in 1 .. 2 * h - 2 : x # Place(a, s, k) PROVE x \in V <=> x \in Y
  <2>1. ASSUME NEW k \in 1 .. h - 1 PROVE x # net[k][1] /\ x # net[k][2]
    <3>1. 2 * k - 1 \in 1 .. 2 * h - 2 /\ 2 * k \in 1 .. 2 * h - 2
      OBVIOUS
    <3> QED
      BY <1>3, <1>9, <3>1
  <2> QED
    BY <1>2, <1>7, <2>1
<1> QED
  BY <1>1, <1>6, <1>8, <1>9

\* The even places, the odd places, and the last loop.
LEMMA mergeStep ==
  ASSUME NEW a \in Nat, NEW s \in Nat \ {0}, NEW h \in Nat \ {0}, NEW n, n = s * (2 * (2 * h)),
         NEW e \in Nets, MergesAt(e, a, 2 * s, h), KeepsOthers(e, a, 2 * s, 2 * h),
         NEW o \in Nets, MergesAt(o, a + s, 2 * s, h), KeepsOthers(o, a + s, 2 * s, 2 * h)
  PROVE  LET net == e \o o \o OddLoop(a, n, s)
         IN MergesAt(net, a, s, 2 * h) /\ KeepsOthers(net, a, s, 2 * (2 * h))
<1> DEFINE P(k) == Place(a, s, k)
           l == OddLoop(a, n, s)
           net == e \o o \o l
<1>1. /\ \A k \in Nat : P(k) \in Nat
      /\ \A j, k \in Nat : P(j) = P(k) => j = k
      /\ \A k \in Nat : Place(a, 2 * s, k) = P(2 * k) /\ Place(a + s, 2 * s, k) = P(2 * k + 1)
  BY PlaceFacts
<1>h. 2 * h \in Nat \ {0}
  OBVIOUS
<1>2. l \in Nets
  <2>1. Pairs(l, a, s, 2 * h)
    BY <1>h, OddLoopIs
  <2> QED
    BY <2>1 DEF Pairs
<1> HIDE DEF P, l
<1>3. ASSUME NEW Y \in SUBSET Nat
      PROVE  /\ After(e, Y) \in SUBSET Nat /\ After(o, After(e, Y)) \in SUBSET Nat
             /\ After(net, Y) = After(l, After(o, After(e, Y)))
  <2>1. e \o o \in Nets
    BY NetsAppend DEF Nets
  <2>2. After((e \o o) \o l, Y) = After(l, After(e \o o, Y))
    BY <1>2, <2>1, AfterAppend
  <2>3. After(e \o o, Y) = After(o, After(e, Y))
    BY AfterAppend
  <2>4. After(e, Y) \in SUBSET Nat
    BY RunIs
  <2>5. After(o, After(e, Y)) \in SUBSET Nat
    BY <2>4, RunIs
  <2> QED
    BY <2>2, <2>3, <2>4, <2>5
<1>4. ASSUME NEW Y \in SUBSET Nat, NEW x \in Nat, \A k \in 0 .. 2 * h - 1 : x # P(2 * k)
      PROVE  x \in After(e, Y) <=> x \in Y
  <2>1. \A k \in 0 .. 2 * h - 1 : x # Place(a, 2 * s, k)
    BY <1>1, <1>4
  <2> QED
    BY <2>1 DEF KeepsOthers
<1>5. ASSUME NEW Y \in SUBSET Nat, NEW x \in Nat, \A k \in 0 .. 2 * h - 1 : x # P(2 * k + 1)
      PROVE  x \in After(o, Y) <=> x \in Y
  <2>1. \A k \in 0 .. 2 * h - 1 : x # Place(a + s, 2 * s, k)
    BY <1>1, <1>5
  <2> QED
    BY <2>1 DEF KeepsOthers
<1>6. ASSUME NEW Y \in SUBSET Nat
      PROVE  /\ \A i \in 0 .. 2 * h - 2 :
                  /\ P(2 * i + 1) \in After(l, Y) <=> P(2 * i + 1) \in Y /\ P(2 * i + 2) \in Y
                  /\ P(2 * i + 2) \in After(l, Y) <=> P(2 * i + 1) \in Y \/ P(2 * i + 2) \in Y
             /\ \A x \in Nat : (\A k \in 1 .. 4 * h - 2 : x # P(k)) => (x \in After(l, Y) <=> x \in Y)
  <2>1. PICK g : g = 2 * h
    OBVIOUS
  <2>2. g \in Nat \ {0} /\ 2 * g - 2 = 4 * h - 2 /\ n = s * (2 * g)
    BY <2>1
  <2>3. /\ \A i \in 0 .. g - 2 :
             /\ P(2 * i + 1) \in After(l, Y) <=> P(2 * i + 1) \in Y /\ P(2 * i + 2) \in Y
             /\ P(2 * i + 2) \in After(l, Y) <=> P(2 * i + 1) \in Y \/ P(2 * i + 2) \in Y
        /\ \A x \in Nat : (\A k \in 1 .. 2 * g - 2 : x # P(k)) => (x \in After(l, Y) <=> x \in Y)
    BY <2>2, OddLoopDoes DEF P, l
  <2> QED
    BY <2>1, <2>2, <2>3
<1>7. KeepsOthers(net, a, s, 2 * (2 * h))
  <2> SUFFICES ASSUME NEW Y \in SUBSET Nat, NEW x \in Nat, \A k \in 0 .. 2 * (2 * h) - 1 : x # P(k)
               PROVE  x \in After(net, Y) <=> x \in Y
    BY DEF KeepsOthers, P
  <2>1. /\ \A k \in 0 .. 2 * h - 1 : 2 * k \in 0 .. 2 * (2 * h) - 1 /\ 2 * k + 1 \in 0 .. 2 * (2 * h) - 1
        /\ \A k \in 1 .. 4 * h - 2 : k \in 0 .. 2 * (2 * h) - 1
    OBVIOUS
  <2>2. x \in After(e, Y) <=> x \in Y
    BY <1>4, <2>1
  <2>3. x \in After(o, After(e, Y)) <=> x \in After(e, Y)
    BY <1>3, <1>5, <2>1
  <2>4. x \in After(l, After(o, After(e, Y))) <=> x \in After(o, After(e, Y))
    BY <1>3, <1>6, <2>1
  <2> QED
    BY <1>3, <2>2, <2>3, <2>4
<1>8. MergesAt(net, a, s, 2 * h)
  <2> SUFFICES ASSUME NEW Y \in SUBSET Nat, NEW p \in 0 .. 2 * h, NEW q \in 0 .. 2 * h,
                      \A k \in 0 .. 2 * h - 1 : (P(k) \in Y <=> p <= k) /\ (P(2 * h + k) \in Y <=> q <= k),
                      NEW k \in 0 .. 2 * (2 * h) - 1
               PROVE  P(k) \in After(net, Y) <=> p + q <= k
    BY DEF MergesAt, P
  <2>1. PICK Y1, Y2, Y3 : Y1 = After(e, Y) /\ Y2 = After(o, Y1) /\ Y3 = After(l, Y2)
    OBVIOUS
  <2>2. Y1 \in SUBSET Nat /\ Y2 \in SUBSET Nat /\ After(net, Y) = Y3
    BY <1>3, <2>1
  <2>3. PICK p1, q1, p2, q2 : p1 = (p + 1) \div 2 /\ q1 = (q + 1) \div 2 /\ p2 = p \div 2 /\ q2 = q \div 2
    OBVIOUS
  <2>4. PICK E, O : E = p1 + q1 /\ O = p2 + q2
    OBVIOUS
  <2>5. /\ p1 \in 0 .. h /\ q1 \in 0 .. h /\ p2 \in 0 .. h /\ q2 \in 0 .. h
        /\ E + O = p + q /\ O <= E /\ E <= O + 2
        /\ O <= 2 * h - 1 <=> p + q <= 4 * h - 1
        /\ \A i \in Nat : /\ p <= 2 * i <=> p1 <= i
                          /\ q <= 2 * i <=> q1 <= i
                          /\ p <= 2 * i + 1 <=> p2 <= i
                          /\ q <= 2 * i + 1 <=> q2 <= i
    BY <2>3, <2>4, HalvedZeros
  \* The even places.
  <2>6. \A i \in 0 .. 2 * h - 1 : P(2 * i) \in Y1 <=> E <= i
    <3>1. ASSUME NEW i \in 0 .. h - 1
          PROVE  (Place(a, 2 * s, i) \in Y <=> p1 <= i) /\ (Place(a, 2 * s, h + i) \in Y <=> q1 <= i)
      <4>1. 2 * i \in 0 .. 2 * h - 1 /\ 2 * (h + i) = 2 * h + 2 * i /\ i \in Nat /\ h + i \in Nat
        OBVIOUS
      <4>2. (P(2 * i) \in Y <=> p <= 2 * i) /\ (P(2 * h + 2 * i) \in Y <=> q <= 2 * i)
        BY <4>1
      <4>3. Place(a, 2 * s, i) = P(2 * i) /\ Place(a, 2 * s, h + i) = P(2 * h + 2 * i)
        BY <1>1, <4>1
      <4> QED
        BY <2>5, <4>1, <4>2, <4>3
    <3>2. \A i \in 0 .. 2 * h - 1 : Place(a, 2 * s, i) \in Y1 <=> p1 + q1 <= i
      BY <2>1, <2>5, <3>1 DEF MergesAt
    <3>3. \A i \in 0 .. 2 * h - 1 : Place(a, 2 * s, i) = P(2 * i)
      BY <1>1
    <3> QED
      BY <2>4, <3>2, <3>3
  <2>7. \A i \in Nat : P(2 * i + 1) \in Y1 <=> P(2 * i + 1) \in Y
    <3> SUFFICES ASSUME NEW i \in Nat PROVE P(2 * i + 1) \in Y1 <=> P(2 * i + 1) \in Y
      OBVIOUS
    <3>1. 2 * i + 1 \in Nat /\ \A j \in 0 .. 2 * h - 1 : 2 * j \in Nat /\ 2 * i + 1 # 2 * j
      OBVIOUS
    <3>2. P(2 * i + 1) \in Nat /\ \A j \in 0 .. 2 * h - 1 : P(2 * i + 1) # P(2 * j)
      BY <1>1, <3>1
    <3> QED
      BY <1>4, <2>1, <3>2
  \* The odd places.
  <2>8. \A i \in 0 .. 2 * h - 1 : P(2 * i + 1) \in Y2 <=> O <= i
    <3>1. ASSUME NEW i \in 0 .. h - 1
          PROVE  (Place(a + s, 2 * s, i) \in Y1 <=> p2 <= i) /\ (Place(a + s, 2 * s, h + i) \in Y1 <=> q2 <= i)
      <4>1. 2 * i + 1 \in 0 .. 2 * h - 1 /\ 2 * (h + i) + 1 = 2 * h + (2 * i + 1) /\ i \in Nat /\ h + i \in Nat
        OBVIOUS
      <4>2. (P(2 * i + 1) \in Y <=> p <= 2 * i + 1) /\ (P(2 * h + (2 * i + 1)) \in Y <=> q <= 2 * i + 1)
        BY <4>1
      <4>3. Place(a + s, 2 * s, i) = P(2 * i + 1) /\ Place(a + s, 2 * s, h + i) = P(2 * h + (2 * i + 1))
        BY <1>1, <4>1
      <4>4. (P(2 * i + 1) \in Y1 <=> P(2 * i + 1) \in Y) /\ (P(2 * (h + i) + 1) \in Y1 <=> P(2 * (h + i) + 1) \in Y)
        BY <2>7, <4>1
      <4> QED
        BY <2>5, <4>1, <4>2, <4>3, <4>4
    <3>2. \A i \in 0 .. 2 * h - 1 : Place(a + s, 2 * s, i) \in Y2 <=> p2 + q2 <= i
      BY <2>1, <2>2, <2>5, <3>1 DEF MergesAt
    <3>3. \A i \in 0 .. 2 * h - 1 : Place(a + s, 2 * s, i) = P(2 * i + 1)
      BY <1>1
    <3> QED
      BY <2>4, <3>2, <3>3
  <2>9. \A i \in 0 .. 2 * h - 1 : P(2 * i) \in Y2 <=> E <= i
    <3> SUFFICES ASSUME NEW i \in 0 .. 2 * h - 1 PROVE P(2 * i) \in Y2 <=> E <= i
      OBVIOUS
    <3>1. 2 * i \in Nat /\ \A j \in 0 .. 2 * h - 1 : 2 * j + 1 \in Nat /\ 2 * i # 2 * j + 1
      OBVIOUS
    <3>2. P(2 * i) \in Nat /\ \A j \in 0 .. 2 * h - 1 : P(2 * i) # P(2 * j + 1)
      BY <1>1, <3>1
    <3>3. P(2 * i) \in Y2 <=> P(2 * i) \in Y1
      BY <1>5, <2>1, <2>2, <3>2
    <3> QED
      BY <2>6, <3>3
  \* The last loop.
  <2>10. E \in Nat /\ O \in Nat
    BY <2>4, <2>5
  <2>11. CASE k = 0 \/ k = 4 * h - 1
    <3>1. k \in Nat /\ \A j \in 1 .. 4 * h - 2 : j \in Nat /\ k # j
      BY <2>11
    <3>2. P(k) \in Nat /\ \A j \in 1 .. 4 * h - 2 : P(k) # P(j)
      BY <1>1, <3>1
    <3>3. P(k) \in Y3 <=> P(k) \in Y2
      BY <1>6, <2>1, <2>2, <3>2
    <3>4. CASE k = 0
      <4>1. 0 \in 0 .. 2 * h - 1 /\ 2 * 0 = 0
        OBVIOUS
      <4>2. P(0) \in Y2 <=> E <= 0
        BY <2>9, <4>1
      <4>3. E <= 0 <=> p + q <= 0
        BY <2>5, <2>10
      <4> QED
        BY <2>2, <3>3, <3>4, <4>2, <4>3
    <3>5. CASE k = 4 * h - 1
      <4>1. 2 * h - 1 \in 0 .. 2 * h - 1 /\ 2 * (2 * h - 1) + 1 = k
        BY <3>5
      <4>2. P(k) \in Y2 <=> O <= 2 * h - 1
        BY <2>8, <4>1
      <4> QED
        BY <2>2, <2>5, <3>3, <3>5, <4>2
    <3> QED
      BY <2>11, <3>4, <3>5
  <2>12. ASSUME NEW i \in 0 .. 2 * h - 2
         PROVE  /\ P(2 * i + 1) \in Y3 <=> p + q <= 2 * i + 1
                /\ P(2 * i + 2) \in Y3 <=> p + q <= 2 * i + 2
    <3>1. i \in 0 .. 2 * h - 1 /\ i + 1 \in 0 .. 2 * h - 1 /\ 2 * (i + 1) = 2 * i + 2
      OBVIOUS
    <3>2. (P(2 * i + 1) \in Y2 <=> O <= i) /\ (P(2 * i + 2) \in Y2 <=> E <= i + 1)
      BY <2>8, <2>9, <3>1
    <3>3. /\ P(2 * i + 1) \in Y3 <=> P(2 * i + 1) \in Y2 /\ P(2 * i + 2) \in Y2
          /\ P(2 * i + 2) \in Y3 <=> P(2 * i + 1) \in Y2 \/ P(2 * i + 2) \in Y2
      BY <1>6, <2>1, <2>2
    <3>4. /\ O <= i /\ E <= i + 1 <=> E + O <= 2 * i + 1
          /\ O <= i \/ E <= i + 1 <=> E + O <= 2 * i + 2
      BY <2>5, <2>10
    <3> QED
      BY <2>5, <3>2, <3>3, <3>4
  <2>13. CASE k # 0 /\ k # 4 * h - 1
    <3>1. \E i \in 0 .. 2 * h - 2 : k = 2 * i + 1 \/ k = 2 * i + 2
      <4>1. PICK i : i = (k - 1) \div 2
        OBVIOUS
      <4>2. i \in 0 .. 2 * h - 2 /\ (k = 2 * i + 1 \/ k = 2 * i + 2)
        BY <2>13, <4>1
      <4> QED
        BY <4>2
    <3> QED
      BY <2>2, <2>12, <3>1
  <2> QED
    BY <2>11, <2>13
<1> QED
  BY <1>7, <1>8 DEF l, net

\* oddEvenMerge merges two sorted halves, a power of two of places each, in place.
LEMMA oddEvenMergeMerges ==
  ASSUME NEW j \in Nat, NEW lo \in Nat, NEW r \in Nat \ {0}, NEW n, n = r * (2 * Doubled[j])
  PROVE  /\ MergesAt(oddEvenMerge[<<lo, n, r>>], lo, r, Doubled[j])
         /\ KeepsOthers(oddEvenMerge[<<lo, n, r>>], lo, r, 2 * Doubled[j])
<1> DEFINE size(i, s) == s * (2 * Doubled[i])
           Merged(i, a, s) == /\ MergesAt(oddEvenMerge[<<a, size(i, s), s>>], a, s, Doubled[i])
                              /\ KeepsOthers(oddEvenMerge[<<a, size(i, s), s>>], a, s, 2 * Doubled[i])
           T == {i \in Nat : \A a \in Nat, s \in Nat \ {0} : Merged(i, a, s)}
<1>1. 0 \in T
  <2>1. ASSUME NEW a \in Nat, NEW s \in Nat \ {0} PROVE Merged(0, a, s)
    <3>1. Doubled[0] = 1 /\ size(0, s) = 2 * s /\ 2 * 1 = 2
      BY DoubledFacts
    <3>2. oddEvenMerge[<<a, 2 * s, s>>] = << <<a, a + s, TRUE>> >>
      <4>1. 2 * s \in Nat /\ ~(2 * s < 2 * s)
        OBVIOUS
      <4> QED
        BY <4>1, oddEvenMergeIs
    <3> HIDE DEF size
    <3> QED
      BY <3>1, <3>2, oneMerge
  <2> HIDE DEF Merged
  <2> QED
    BY <2>1
<1>2. ASSUME NEW i \in T PROVE i + 1 \in T
  <2>1. ASSUME NEW a \in Nat, NEW s \in Nat \ {0} PROVE Merged(i + 1, a, s)
    <3>1. PICK m, h : m = size(i + 1, s) /\ h = Doubled[i]
      OBVIOUS
    <3>2. i \in Nat
      OBVIOUS
    <3>3. 2 * s \in Nat \ {0} /\ a + s \in Nat
      OBVIOUS
    <3>4. Merged(i, a, 2 * s) /\ Merged(i, a + s, 2 * s)
      <4> HIDE DEF Merged
      <4> QED
        BY <3>3
    <3> HIDE DEF T
    <3>5. Doubled[i + 1] = 2 * h /\ h \in Nat \ {0}
      BY <3>1, <3>2, DoubledFacts
    <3>6. m = s * (2 * (2 * h)) /\ size(i, 2 * s) = (2 * s) * (2 * h)
      BY <3>1, <3>5
    <3>7. size(i, 2 * s) = m
      BY <3>5, <3>6
    <3>8. m \in Nat /\ 2 * s < m
      <4>1. m = (2 * s) * (2 * h) /\ (2 * s) * (2 * h) = 2 * ((2 * s) * h)
        BY <3>5, <3>6
      <4>2. (2 * s) * h \in Nat /\ 2 * s <= (2 * s) * h
        <5>1. h - 1 \in Nat /\ (2 * s) * h = (2 * s) * (h - 1) + 2 * s
          BY <3>5
        <5>2. (2 * s) * (h - 1) \in Nat
          BY <5>1
        <5> QED
          BY <5>1, <5>2
      <4> QED
        BY <4>1, <4>2
    <3>9. PICK e, o, l : /\ e = oddEvenMerge[<<a, m, 2 * s>>] /\ o = oddEvenMerge[<<a + s, m, 2 * s>>]
                         /\ l = OddLoop(a, m, s)
      OBVIOUS
    <3>10. /\ MergesAt(e, a, 2 * s, h) /\ KeepsOthers(e, a, 2 * s, 2 * h)
           /\ MergesAt(o, a + s, 2 * s, h) /\ KeepsOthers(o, a + s, 2 * s, 2 * h)
      BY <3>1, <3>4, <3>7, <3>9, Zenon
    <3>11. e \in Nets /\ o \in Nets
      BY <3>3, <3>8, <3>9, oddEvenMergeNets
    <3>12. oddEvenMerge[<<a, m, s>>] = e \o o \o l
      BY <3>8, <3>9, oddEvenMergeIs
    <3>13. MergesAt(e \o o \o l, a, s, 2 * h) /\ KeepsOthers(e \o o \o l, a, s, 2 * (2 * h))
      BY <3>5, <3>6, <3>9, <3>10, <3>11, mergeStep, Zenon
    <3> HIDE DEF size
    <3> QED
      BY <3>1, <3>5, <3>12, <3>13
  <2> HIDE DEF Merged
  <2> QED
    BY <2>1
<1>3. T = Nat
  <2> HIDE DEF T
  <2>1. T \in SUBSET Nat
    BY DEF T
  <2> QED
    BY <1>1, <1>2, <2>1, AllNat
<1>4. Merged(j, lo, r)
  <2> HIDE DEF Merged
  <2> QED
    BY <1>3
<1> QED
  BY <1>4

\* A merge of the whole piece, from two sorted halves.
MergedEven(net, lo, h) ==
  \A Y \in SUBSET Nat : SortedOn(Y, lo, h) /\ SortedOn(Y, lo + h, h) => SortedOn(After(net, Y), lo, 2 * h)

LEMMA MergesWhole ==
  ASSUME NEW lo \in Nat, NEW h \in Nat, NEW net, MergesAt(net, lo, 1, h)
  PROVE  MergedEven(net, lo, h)
<1> SUFFICES ASSUME NEW Y \in SUBSET Nat, SortedOn(Y, lo, h), SortedOn(Y, lo + h, h)
             PROVE  SortedOn(After(net, Y), lo, 2 * h)
  BY DEF MergedEven
<1>1. PICK p \in 0 .. h : \A k \in 0 .. h - 1 : lo + k \in Y <=> p <= k
  BY DEF SortedOn
<1>2. PICK q \in 0 .. h : \A k \in 0 .. h - 1 : lo + h + k \in Y <=> q <= k
  BY DEF SortedOn
<1>3. \A k \in Nat : Place(lo, 1, k) = lo + k
  BY DEF Place
<1>4. \A k \in 0 .. h - 1 : (Place(lo, 1, k) \in Y <=> p <= k) /\ (Place(lo, 1, h + k) \in Y <=> q <= k)
  <2> TAKE k \in 0 .. h - 1
  <2>1. k \in Nat /\ h + k \in Nat /\ lo + (h + k) = lo + h + k
    OBVIOUS
  <2>2. Place(lo, 1, k) = lo + k /\ Place(lo, 1, h + k) = lo + h + k
    BY <1>3, <2>1
  <2> QED
    BY <1>1, <1>2, <2>2
<1>5. \A k \in 0 .. 2 * h - 1 : Place(lo, 1, k) \in After(net, Y) <=> p + q <= k
  BY <1>4 DEF MergesAt
<1>6. \A k \in 0 .. 2 * h - 1 : lo + k \in After(net, Y) <=> p + q <= k
  <2>1. \A k \in 0 .. 2 * h - 1 : Place(lo, 1, k) = lo + k
    BY <1>3
  <2> QED
    BY <1>5, <2>1
<1>7. p + q \in 0 .. 2 * h
  OBVIOUS
<1> QED
  BY <1>6, <1>7 DEF SortedOn

LEMMA oddEvenMergeWhole ==
  ASSUME NEW j \in Nat, NEW lo \in Nat
  PROVE  MergedEven(oddEvenMerge[<<lo, Doubled[j + 1], 1>>], lo, Doubled[j])
<1>1. PICK h, n : h = Doubled[j] /\ n = Doubled[j + 1]
  OBVIOUS
<1>2. h \in Nat /\ n = 1 * (2 * h)
  BY <1>1, DoubledFacts
<1>3. MergesAt(oddEvenMerge[<<lo, n, 1>>], lo, 1, h)
  <2>1. 1 \in Nat \ {0}
    OBVIOUS
  <2> QED
    BY <1>1, <1>2, <2>1, oddEvenMergeMerges, Zenon
<1> QED
  BY <1>1, <1>2, <1>3, MergesWhole

\* oddEvenMergeSort sorts pieces whose length is a power of two.
LEMMA oddEvenMergeSortSorts ==
  ASSUME NEW j \in Nat, NEW lo \in Nat
  PROVE  SortedBy(oddEvenMergeSort[<<lo, Doubled[j]>>], lo, Doubled[j], TRUE)
<1> DEFINE T == {i \in Nat : \A a \in Nat : SortedBy(oddEvenMergeSort[<<a, Doubled[i]>>], a, Doubled[i], TRUE)}
<1>u. \A Y : Up(Y, TRUE) = Y
  BY DEF Up
<1>1. 0 \in T
  <2>1. ASSUME NEW a \in Nat PROVE SortedBy(oddEvenMergeSort[<<a, Doubled[0]>>], a, Doubled[0], TRUE)
    <3>1. Doubled[0] \in Nat /\ Doubled[0] <= 1
      BY DoubledFacts
    <3> QED
      BY <2>1, <3>1, OneSorted DEF SortedBy
  <2> QED
    BY <2>1
<1>2. ASSUME NEW i \in T PROVE i + 1 \in T
  <2>1. ASSUME NEW a \in Nat
        PROVE  SortedBy(oddEvenMergeSort[<<a, Doubled[i + 1]>>], a, Doubled[i + 1], TRUE)
    <3>1. PICK n, m : n = Doubled[i + 1] /\ m = Doubled[i]
      OBVIOUS
    <3>2. i \in Nat /\ n \in Nat /\ m \in Nat /\ n > 1 /\ n = 2 * m /\ n \div 2 = m
      <4>1. i \in Nat
        OBVIOUS
      <4> HIDE DEF T
      <4> QED
        BY <3>1, <4>1, PowerHalves
    <3>3. PICK s, t, u : /\ s = oddEvenMergeSort[<<a, m>>] /\ t = oddEvenMergeSort[<<a + m, m>>]
                         /\ u = oddEvenMerge[<<a, n, 1>>]
      OBVIOUS
    <3>4. a + m \in Nat
      BY <3>2
    <3>5. SortedBy(s, a, m, TRUE) /\ SortedBy(t, a + m, m, TRUE)
      BY <3>1, <3>3, <3>4
    <3> HIDE DEF T
    <3>6. /\ s \in Nets /\ t \in Nets /\ u \in Nets
          /\ Touches(s, Piece(a, m)) /\ Touches(t, Piece(a + m, m))
      <4>1. s \in Seq(Within(a, m)) /\ t \in Seq(Within(a + m, m))
        BY <3>1, <3>2, <3>3, <3>4, oddEvenMergeSortIn
      <4>2. u \in Nets
        BY <3>2, <3>3, oddEvenMergeNets
      <4> QED
        BY <3>2, <3>4, <4>1, <4>2, WithinTouches
    <3>7. MergedEven(u, a, m)
      BY <3>1, <3>2, <3>3, oddEvenMergeWhole
    <3>8. oddEvenMergeSort[<<a, n>>] = s \o t \o u
      <4>1. oddEvenMergeSort[<<a, n>>] =
              oddEvenMergeSort[<<a, n \div 2>>] \o oddEvenMergeSort[<<a + (n \div 2), n \div 2>>] \o oddEvenMerge[<<a, n, 1>>]
        BY <3>2, oddEvenMergeSortIs
      <4> QED
        BY <3>2, <3>3, <4>1, Zenon
    <3>9. ASSUME NEW Z \in SUBSET Nat PROVE SortedOn(After(s \o t \o u, Z), a, n)
      <4>1. PICK Y, X : Y = After(s, Z) /\ X = After(t, Y)
        OBVIOUS
      <4>2. Y \in SUBSET Nat /\ X \in SUBSET Nat
        BY <3>6, <4>1, RunIs
      <4>3. After(s \o t \o u, Z) = After(u, X)
        <5>1. s \o t \in Nets
          BY <3>6, NetsAppend DEF Nets
        <5>2. After((s \o t) \o u, Z) = After(u, After(s \o t, Z))
          BY <3>6, <5>1, AfterAppend
        <5> QED
          BY <3>6, <4>1, <5>2, AfterAppend
      <4>4. SortedOn(Y, a, m) /\ SortedOn(X, a + m, m)
        BY <1>u, <3>5, <4>1, <4>2 DEF SortedBy
      <4>5. \A x \in Nat : x < a + m => (x \in X <=> x \in Y)
        <5>1. TRUE \in BOOLEAN
          OBVIOUS
        <5>2. \A x \in Nat : x < a + m \/ a + m + m <= x => (x \in Up(X, TRUE) <=> x \in Up(Y, TRUE))
          BY <3>2, <3>4, <3>6, <4>1, <4>2, <5>1, UpOutside
        <5>3. Up(X, TRUE) = X /\ Up(Y, TRUE) = Y
          BY <1>u
        <5> QED
          BY <5>2, <5>3, Zenon
      <4>6. \A k \in 0 .. m - 1 : a + k \in X <=> a + k \in Y
        <5>1. \A k \in 0 .. m - 1 : a + k \in Nat /\ a + k < a + m
          BY <3>2
        <5> QED
          BY <4>5, <5>1
      <4>7. SortedOn(X, a, m)
        BY <3>2, <4>4, <4>6, SameShape
      <4> QED
        BY <3>2, <3>7, <4>2, <4>3, <4>4, <4>7 DEF MergedEven
    <3> QED
      BY <1>u, <3>1, <3>8, <3>9 DEF SortedBy
  <2>2. i + 1 \in Nat
    OBVIOUS
  <2> QED
    BY <2>1, <2>2
<1>3. T = Nat
  <2> HIDE DEF T
  <2>1. T \in SUBSET Nat
    BY DEF T
  <2> QED
    BY <1>1, <1>2, <2>1, AllNat
<1> QED
  BY <1>3
--------------------------------------------------------------------------------
(* What Applied makes of an array of records *)


Exchange(d, c, field, up) ==
  OSwap(d, c[1], c[2], c[3] = (IF up THEN d[c[1]][field] > d[c[2]][field] ELSE d[c[1]][field] < d[c[2]][field]))

AppliedRun(net, L, field, up) ==
  LET after[k \in 0 .. Len(net)] == IF k = 0 THEN L ELSE Exchange(after[k - 1], net[k], field, up)
  IN after

\* Downwards is upwards with the opposite keys.
Key(v, up) == IF up THEN v ELSE 0 - v

\* The places of what is not below the threshold.
Reaching(L, S, field, up, t) == {k \in S : Key(L[k][field], up) >= t}

\* E is a rearrangement of L.
Shuffles(L, E, S) ==
  \E q \in [S -> S] : (\A k \in S : E[k] = L[q[k]]) /\ (\A k, l \in S : q[k] = q[l] => k = l)

\* The network works on the array.
Works(net, S) ==
  /\ S \in SUBSET Nat /\ net \in Nets /\ Touches(net, S)
  /\ \A k \in 1 .. Len(net) : net[k][1] # net[k][2]
Keyed(T, field) == \A x \in T : x[field] \in Int

\* It is applied to elements of T, by a field that holds a number.
Sorts(net, L, S, T, field, up) ==
  Works(net, S) /\ T # {} /\ L \in [S -> T] /\ Keyed(T, field) /\ up \in BOOLEAN

\* What a compare makes of L, if a and b are the keys of its two places.
Swapped(L, E, c) == E[c[1]] = L[c[2]] /\ E[c[2]] = L[c[1]]
Kept(L, E, c)    == E[c[1]] = L[c[1]] /\ E[c[2]] = L[c[2]]
Exchanged(L, E, S, c, a, b) ==
  /\ a \in Int /\ b \in Int
  /\ \A k \in S \ {c[1], c[2]} : E[k] = L[k]
  /\ c[3] /\ a > b => Swapped(L, E, c)
  /\ c[3] /\ a <= b => Kept(L, E, c)
  /\ ~c[3] /\ a > b => Kept(L, E, c)
  /\ ~c[3] /\ a <= b => Swapped(L, E, c)

LEMMA ExchangeIs ==
  ASSUME NEW S, NEW T, NEW L \in [S -> T], NEW c, c[1] \in S, c[2] \in S, c[1] # c[2], c[3] \in BOOLEAN,
         NEW field, Keyed(T, field), NEW up \in BOOLEAN
  PROVE  /\ Exchange(L, c, field, up) \in [S -> T]
         /\ Exchanged(L, Exchange(L, c, field, up), S, c, Key(L[c[1]][field], up), Key(L[c[2]][field], up))
<1>1. PICK x, y, v, w, d : x = c[1] /\ y = c[2] /\ v = L[x][field] /\ w = L[y][field] /\ d = c[3]
  OBVIOUS
<1>2. x \in S /\ y \in S /\ x # y /\ v \in Int /\ w \in Int /\ d \in BOOLEAN
  BY <1>1 DEF Keyed
<1>3. PICK a, b : a = Key(v, up) /\ b = Key(w, up)
  OBVIOUS
<1>4. a \in Int /\ b \in Int /\ (a > b <=> IF up THEN v > w ELSE v < w)
  BY <1>2, <1>3 DEF Key
<1>5. PICK g : g = (IF up THEN v > w ELSE v < w)
  OBVIOUS
<1>6. PICK E : E = Exchange(L, c, field, up)
  OBVIOUS
<1>7. E = OSwap(L, x, y, d = g)
  BY <1>1, <1>5, <1>6, Zenon DEF Exchange
<1>8. g = TRUE \/ g = FALSE
  BY <1>2, <1>5
<1>9. (g = TRUE => a > b) /\ (g = FALSE => a <= b)
  <2>1. g = TRUE => IF up THEN v > w ELSE v < w
    BY <1>5, Zenon
  <2>2. g = FALSE => ~(IF up THEN v > w ELSE v < w)
    BY <1>5, Zenon
  <2>3. a <= b <=> ~(a > b)
    BY <1>4
  <2> HIDE <1>5
  <2> QED
    BY <1>4, <2>1, <2>2, <2>3
<1>10. E \in [S -> T] /\ \A k \in S \ {x, y} : E[k] = L[k]
  <2>1. CASE d = g
    BY <2>1, <1>2, <1>7 DEF OSwap
  <2>2. CASE d # g
    BY <2>2, <1>2, <1>7 DEF OSwap
  <2> QED
    BY <2>1, <2>2
<1>11. d = g => E[x] = L[y] /\ E[y] = L[x]
  BY <1>2, <1>7 DEF OSwap
<1>12. d # g => E[x] = L[x] /\ E[y] = L[y]
  BY <1>2, <1>7 DEF OSwap
<1>13. /\ d /\ a > b => E[x] = L[y] /\ E[y] = L[x]
       /\ d /\ a <= b => E[x] = L[x] /\ E[y] = L[y]
       /\ ~d /\ a > b => E[x] = L[x] /\ E[y] = L[y]
       /\ ~d /\ a <= b => E[x] = L[y] /\ E[y] = L[x]
  <2>1. CASE g = TRUE
    <3>1. a > b /\ ~(a <= b)
      BY <1>4, <1>9, <2>1
    <3> QED
      BY <1>2, <1>11, <1>12, <2>1, <3>1
  <2>2. CASE g = FALSE
    <3>1. a <= b /\ ~(a > b)
      BY <1>4, <1>9, <2>2
    <3> QED
      BY <1>2, <1>11, <1>12, <2>2, <3>1
  <2> QED
    BY <1>8, <2>1, <2>2
<1> QED
  BY <1>1, <1>3, <1>4, <1>6, <1>10, <1>13 DEF Exchanged, Swapped, Kept

LEMMA ExchangeShuffles ==
  ASSUME NEW S, NEW T, NEW L \in [S -> T], NEW c, c[1] \in S, c[2] \in S, c[1] # c[2], c[3] \in BOOLEAN,
         NEW field, Keyed(T, field), NEW up \in BOOLEAN
  PROVE  Shuffles(L, Exchange(L, c, field, up), S)
<1>1. PICK x, y, E : x = c[1] /\ y = c[2] /\ E = Exchange(L, c, field, up)
  OBVIOUS
<1>e. Exchanged(L, E, S, c, Key(L[c[1]][field], up), Key(L[c[2]][field], up))
  BY <1>1, ExchangeIs
<1>2. x \in S /\ y \in S /\ x # y /\ \A k \in S \ {x, y} : E[k] = L[k]
  BY <1>1, <1>e DEF Exchanged
<1>3. (E[x] = L[y] /\ E[y] = L[x]) \/ (E[x] = L[x] /\ E[y] = L[y])
  BY <1>1, <1>e DEF Exchanged, Swapped, Kept
<1>4. CASE E[x] = L[y] /\ E[y] = L[x]
  <2> DEFINE q == [k \in S |-> IF k = x THEN y ELSE IF k = y THEN x ELSE k]
  <2>1. q \in [S -> S]
    BY <1>2
  <2>2. \A k \in S : E[k] = L[q[k]]
    BY <1>2, <1>4
  <2>3. \A k, l \in S : q[k] = q[l] => k = l
    BY <1>2
  <2> HIDE DEF q
  <2> QED
    BY <1>1, <2>1, <2>2, <2>3 DEF Shuffles
<1>5. CASE E[x] = L[x] /\ E[y] = L[y]
  <2> DEFINE q == [k \in S |-> k]
  <2>1. q \in [S -> S] /\ (\A k \in S : E[k] = L[q[k]]) /\ (\A k, l \in S : q[k] = q[l] => k = l)
    BY <1>2, <1>5
  <2> HIDE DEF q
  <2> QED
    BY <1>1, <2>1 DEF Shuffles
<1> QED
  BY <1>3, <1>4, <1>5

\* One compare, seen by one threshold.
LEMMA ExchangeMoves ==
  ASSUME NEW S, NEW T, NEW L \in [S -> T], NEW c, c[1] \in S, c[2] \in S, c[1] # c[2], c[3] \in BOOLEAN,
         NEW field, Keyed(T, field), NEW up \in BOOLEAN, NEW t \in Int
  PROVE  Reaching(Exchange(L, c, field, up), S, field, up, t) = Step(Reaching(L, S, field, up, t), c)
<1>1. PICK x, y, a, b, E : /\ x = c[1] /\ y = c[2] /\ E = Exchange(L, c, field, up)
                           /\ a = Key(L[x][field], up) /\ b = Key(L[y][field], up)
  OBVIOUS
<1>2. /\ x \in S /\ y \in S /\ x # y /\ a \in Int /\ b \in Int
      /\ \A k \in S \ {x, y} : E[k] = L[k]
      /\ Exchanged(L, E, S, c, a, b)
  <2>1. Exchanged(L, E, S, c, a, b)
    BY <1>1, ExchangeIs
  <2> QED
    BY <1>1, <2>1 DEF Exchanged
<1>3. PICK Z, Y : Z = Reaching(L, S, field, up, t) /\ Y = Reaching(E, S, field, up, t)
  OBVIOUS
<1>4. PICK u, v : u = Key(E[x][field], up) /\ v = Key(E[y][field], up)
  OBVIOUS
<1>5. /\ Z \subseteq S /\ Y \subseteq S
      /\ x \in Z <=> a >= t
      /\ y \in Z <=> b >= t
      /\ x \in Y <=> u >= t
      /\ y \in Y <=> v >= t
      /\ \A k \in S \ {x, y} : k \in Y <=> k \in Z
  BY <1>1, <1>2, <1>3, <1>4 DEF Reaching
<1>6. /\ Swapped(L, E, c) => u = b /\ v = a
      /\ Kept(L, E, c) => u = a /\ v = b
  BY <1>1, <1>4 DEF Swapped, Kept
<1>7. CASE c[3] = TRUE
  <2>1. (a > b => u = b /\ v = a) /\ (~(a > b) => u = a /\ v = b)
    BY <1>2, <1>6, <1>7 DEF Exchanged
  <2>2. Step(Z, c) = Move(Z, x, y)
    BY <1>1, <1>7 DEF Step
  <2>3. \A k \in S : k \in Y <=> k \in Move(Z, x, y)
    <3> TAKE k \in S
    <3>1. CASE k = x
      BY <1>2, <1>5, <2>1, <3>1 DEF Move
    <3>2. CASE k = y
      BY <1>2, <1>5, <2>1, <3>2 DEF Move
    <3>3. CASE k # x /\ k # y
      BY <1>5, <3>3 DEF Move
    <3> QED
      BY <3>1, <3>2, <3>3
  <2>4. Move(Z, x, y) \subseteq S
    BY <1>2, <1>5 DEF Move
  <2>5. Y = Move(Z, x, y)
    BY <1>5, <2>3, <2>4
  <2> QED
    BY <1>1, <1>3, <2>2, <2>5
<1>8. CASE c[3] = FALSE
  <2>1. (a > b => u = a /\ v = b) /\ (~(a > b) => u = b /\ v = a)
    BY <1>2, <1>6, <1>8 DEF Exchanged
  <2>2. Step(Z, c) = Move(Z, y, x)
    BY <1>1, <1>8 DEF Step
  <2>3. \A k \in S : k \in Y <=> k \in Move(Z, y, x)
    <3> TAKE k \in S
    <3>1. CASE k = x
      BY <1>2, <1>5, <2>1, <3>1 DEF Move
    <3>2. CASE k = y
      BY <1>2, <1>5, <2>1, <3>2 DEF Move
    <3>3. CASE k # x /\ k # y
      BY <1>5, <3>3 DEF Move
    <3> QED
      BY <3>1, <3>2, <3>3
  <2>4. Move(Z, y, x) \subseteq S
    BY <1>2, <1>5 DEF Move
  <2>5. Y = Move(Z, y, x)
    BY <1>5, <2>3, <2>4
  <2> QED
    BY <1>1, <1>3, <2>2, <2>5
<1> QED
  BY <1>7, <1>8

LEMMA WorksFacts ==
  ASSUME NEW S, NEW net, Works(net, S)
  PROVE  /\ Len(net) \in Nat
         /\ \A k \in 1 .. Len(net) : /\ net[k][1] \in S /\ net[k][2] \in S /\ net[k][1] # net[k][2]
                                     /\ net[k][3] \in BOOLEAN
<1>1. net \in Nets /\ Touches(net, S)
  BY DEF Works
<1>2. /\ Len(net) \in Nat
      /\ \A k \in 1 .. Len(net) : net[k][3] \in BOOLEAN
  BY <1>1, NetFacts
<1> QED
  BY <1>1, <1>2 DEF Works, Touches

LEMMA AppliedIs ==
  ASSUME NEW S, NEW T, NEW net, NEW L, NEW field, NEW up, Sorts(net, L, S, T, field, up)
  PROVE  \E R : /\ R[0] = L
                /\ \A k \in 1 .. Len(net) : R[k] = Exchange(R[k - 1], net[k], field, up)
                /\ \A k \in 0 .. Len(net) : R[k] \in [S -> T]
                /\ Applied(net, L, field, up) = R[Len(net)]
<1> Works(net, S) /\ T # {} /\ L \in [S -> T] /\ Keyed(T, field) /\ up \in BOOLEAN
  BY DEF Sorts
<1> DEFINE N == 0 .. Len(net)
           A == [S -> T]
           mu == [k \in N |-> k]
           D  == [g \in [N -> A] |-> [k \in N |-> IF k = 0 THEN L ELSE Exchange(g[k - 1], net[k], field, up)]]
           R  == AppliedRun(net, L, field, up)
<1>1. Len(net) \in Nat /\ \A k \in N : k # 0 => k - 1 \in N /\ k - 1 < k /\ k \in 1 .. Len(net)
  BY WorksFacts
<1>2. ASSUME NEW k \in N, NEW Y \in A, k # 0 PROVE Exchange(Y, net[k], field, up) \in A
  <2>1. PICK c : c = net[k]
    OBVIOUS
  <2>2. c[1] \in S /\ c[2] \in S /\ c[1] # c[2] /\ c[3] \in BOOLEAN
    BY <1>1, <1>2, <2>1, WorksFacts
  <2>3. Exchange(Y, c, field, up) \in A
    BY <2>2, ExchangeIs
  <2> QED
    BY <2>1, <2>3
<1>3. ASSUME NEW g \in [N -> A]
      PROVE  [k \in N |-> IF k = 0 THEN L ELSE Exchange(g[k - 1], net[k], field, up)] \in [N -> A]
  <2>1. ASSUME NEW k \in N PROVE (IF k = 0 THEN L ELSE Exchange(g[k - 1], net[k], field, up)) \in A
    <3>a. L \in A
      OBVIOUS
    <3> HIDE DEF N, A
    <3>1. k # 0 => g[k - 1] \in A
      BY <1>1
    <3>2. k # 0 => Exchange(g[k - 1], net[k], field, up) \in A
      BY <1>2, <3>1
    <3> QED
      BY <3>2, <3>a
  <2> HIDE DEF N, A
  <2> QED
    BY <2>1
<1>4. Recursion(N, A, mu, D)
  <2>1. mu \in [N -> Nat]
    BY <1>1
  <2>2. D \in [[N -> A] -> [N -> A]]
    <3> HIDE DEF N, A
    <3> QED
      BY <1>3
  <2>3. ASSUME NEW g \in [N -> A], NEW h \in [N -> A], NEW n \in N,
               \A m \in N : mu[m] < mu[n] => g[m] = h[m]
        PROVE  D[g][n] = D[h][n]
    <3> HIDE DEF N, A
    <3>1. n # 0 => g[n - 1] = h[n - 1]
      BY <1>1, <2>3
    <3> QED
      BY <3>1
  <2> HIDE DEF mu, D, N, A
  <2> QED
    BY <2>1, <2>2, <2>3 DEF Recursion
<1>5. PICK f : Solution(N, A, D, f)
  <2>1. A # {}
    OBVIOUS
  <2> HIDE DEF mu, D, N, A
  <2> QED
    BY <1>4, <2>1, RecursionExists
<1>6. f \in [N -> A] /\ f = [k \in N |-> IF k = 0 THEN L ELSE Exchange(f[k - 1], net[k], field, up)]
  <2> HIDE DEF N, A
  <2> QED
    BY <1>5 DEF Solution
<1>7. R = [k \in N |-> IF k = 0 THEN L ELSE Exchange(R[k - 1], net[k], field, up)]
  BY <1>6, Zenon DEF AppliedRun
<1>8. 0 \in N /\ Len(net) \in N /\ \A k \in 1 .. Len(net) : k \in N /\ k # 0
  BY <1>1
<1>9. R[0] = L /\ \A k \in 1 .. Len(net) : R[k] = Exchange(R[k - 1], net[k], field, up)
  <2> HIDE DEF N, R
  <2> QED
    BY <1>7, <1>8
<1> DEFINE G == {k \in Nat : k \in N => R[k] \in A}
<1>10. G = Nat
  <2> HIDE DEF R
  <2>1. 0 \in G
    BY <1>9
  <2>2. ASSUME NEW k \in G PROVE k + 1 \in G
    <3> SUFFICES ASSUME k + 1 \in N PROVE R[k + 1] \in A
      OBVIOUS
    <3>1. k \in Nat /\ k \in N /\ k + 1 \in 1 .. Len(net) /\ (k + 1) - 1 = k /\ k + 1 # 0
      BY <1>1
    <3>2. R[k] \in A
      BY <3>1
    <3>3. R[k + 1] = Exchange(R[k], net[k + 1], field, up)
      BY <1>9, <3>1
    <3> HIDE DEF N, A
    <3> QED
      BY <1>2, <3>1, <3>2, <3>3
  <2>3. G \in SUBSET Nat
    OBVIOUS
  <2> HIDE DEF G
  <2> QED
    BY <2>1, <2>2, <2>3, AllNat
<1>11. \A k \in N : R[k] \in A
  <2>1. \A k \in N : k \in Nat
    BY <1>1
  <2> HIDE DEF N, A, R
  <2> QED
    BY <1>10, <2>1
<1>12. Applied(net, L, field, up) = R[Len(net)]
  BY DEF Applied, AppliedRun, Exchange
<1> HIDE DEF R, N, A
<1> QED
  BY <1>9, <1>11, <1>12 DEF N, A

LEMMA ShufflesThen ==
  ASSUME NEW S, NEW L, NEW M, NEW E, Shuffles(L, M, S), Shuffles(M, E, S)
  PROVE  Shuffles(L, E, S)
<1>1. PICK p \in [S -> S] : (\A k \in S : M[k] = L[p[k]]) /\ (\A k, l \in S : p[k] = p[l] => k = l)
  BY DEF Shuffles
<1>2. PICK q \in [S -> S] : (\A k \in S : E[k] = M[q[k]]) /\ (\A k, l \in S : q[k] = q[l] => k = l)
  BY DEF Shuffles
<1>3. PICK r : r = [k \in S |-> p[q[k]]]
  OBVIOUS
<1>4. r \in [S -> S] /\ (\A k \in S : E[k] = L[r[k]]) /\ (\A k, l \in S : r[k] = r[l] => k = l)
  BY <1>1, <1>2, <1>3
<1> QED
  BY <1>4 DEF Shuffles

LEMMA ShufflesSame == \A S, L : Shuffles(L, L, S)
<1> TAKE S, L
<1>1. PICK q : q = [k \in S |-> k]
  OBVIOUS
<1>2. q \in [S -> S] /\ (\A k \in S : L[k] = L[q[k]]) /\ (\A k, l \in S : q[k] = q[l] => k = l)
  BY <1>1
<1> QED
  BY <1>2 DEF Shuffles

\* A sort or merge rearranges the array.
LEMMA AppliedShuffles ==
  ASSUME NEW S, NEW T, NEW net, NEW L, NEW field, NEW up, Sorts(net, L, S, T, field, up)
  PROVE  Applied(net, L, field, up) \in [S -> T] /\ Shuffles(L, Applied(net, L, field, up), S)
<1> Works(net, S) /\ T # {} /\ L \in [S -> T] /\ Keyed(T, field) /\ up \in BOOLEAN
  BY DEF Sorts
<1>1. PICK n : n = Len(net)
  OBVIOUS
<1>2. PICK R : /\ R[0] = L /\ \A k \in 1 .. n : R[k] = Exchange(R[k - 1], net[k], field, up)
               /\ \A k \in 0 .. n : R[k] \in [S -> T]
               /\ Applied(net, L, field, up) = R[n]
  BY <1>1, AppliedIs
<1>3. n \in Nat
  BY <1>1, WorksFacts
<1> DEFINE G == {k \in Nat : Shuffles(L, R[k], S)}
<1>4. 0 \in G
  BY <1>2, ShufflesSame
<1>5. ASSUME NEW k \in Nat, k \in G, k < n PROVE k + 1 \in G
  <2>1. PICK c, M : c = net[k + 1] /\ M = R[k]
    OBVIOUS
  <2>2. k \in 0 .. n /\ k + 1 \in 1 .. n /\ (k + 1) - 1 = k
    BY <1>3, <1>5
  <2>3. c[1] \in S /\ c[2] \in S /\ c[1] # c[2] /\ c[3] \in BOOLEAN
    BY <1>1, <2>1, <2>2, WorksFacts
  <2>4. M \in [S -> T] /\ Shuffles(L, M, S)
    BY <1>2, <1>5, <2>1, <2>2
  <2>5. Shuffles(M, Exchange(M, c, field, up), S)
    BY <2>3, <2>4, ExchangeShuffles
  <2>6. R[k + 1] = Exchange(M, c, field, up)
    BY <1>2, <2>1, <2>2
  <2> QED
    BY <2>4, <2>5, <2>6, ShufflesThen
<1>6. n \in G
  <2> HIDE DEF G
  <2>1. 0 .. n \subseteq G
    BY <1>3, <1>4, <1>5, UpTo
  <2> QED
    BY <1>3, <2>1
<1> QED
  BY <1>2, <1>3, <1>6

\* What a threshold sees of the array is what the network makes of it.
LEMMA AppliedReaching ==
  ASSUME NEW S, NEW T, NEW net, NEW L, NEW field, NEW up, Sorts(net, L, S, T, field, up), NEW t \in Int
  PROVE  Reaching(Applied(net, L, field, up), S, field, up, t) = After(net, Reaching(L, S, field, up, t))
<1> Works(net, S) /\ T # {} /\ L \in [S -> T] /\ Keyed(T, field) /\ up \in BOOLEAN
  BY DEF Sorts
<1>1. PICK n, Z : n = Len(net) /\ Z = Reaching(L, S, field, up, t)
  OBVIOUS
<1>r. PICK R : /\ R[0] = L
               /\ \A k \in 1 .. Len(net) : R[k] = Exchange(R[k - 1], net[k], field, up)
               /\ \A k \in 0 .. Len(net) : R[k] \in [S -> T]
               /\ Applied(net, L, field, up) = R[Len(net)]
  BY AppliedIs
<1>2. /\ R[0] = L /\ \A k \in 1 .. n : R[k] = Exchange(R[k - 1], net[k], field, up)
      /\ \A k \in 0 .. n : R[k] \in [S -> T]
      /\ Applied(net, L, field, up) = R[n]
  BY <1>1, <1>r
<1>3. n \in Nat /\ net \in Nets /\ Z \in SUBSET Nat
  BY <1>1, WorksFacts DEF Works, Reaching
<1>4. PICK Q : Q = RunOf(net, Z)
  OBVIOUS
<1>5. Q[0] = Z /\ \A k \in 1 .. n : Q[k] = Step(Q[k - 1], net[k])
  BY <1>1, <1>3, <1>4, RunIs
<1> DEFINE G == {k \in Nat : Reaching(R[k], S, field, up, t) = Q[k]}
<1>6. 0 \in G
  BY <1>1, <1>2, <1>5
<1>7. ASSUME NEW k \in Nat, k \in G, k < n PROVE k + 1 \in G
  <2>1. PICK c, M : c = net[k + 1] /\ M = R[k]
    OBVIOUS
  <2>2. k \in 0 .. n /\ k + 1 \in 1 .. n /\ (k + 1) - 1 = k
    BY <1>3, <1>7
  <2>3. c[1] \in S /\ c[2] \in S /\ c[1] # c[2] /\ c[3] \in BOOLEAN
    BY <1>1, <2>1, <2>2, WorksFacts
  <2>4. M \in [S -> T] /\ Reaching(M, S, field, up, t) = Q[k]
    BY <1>2, <1>7, <2>1, <2>2
  <2>5. Reaching(Exchange(M, c, field, up), S, field, up, t) = Step(Reaching(M, S, field, up, t), c)
    BY <2>3, <2>4, ExchangeMoves
  <2>6. R[k + 1] = Exchange(M, c, field, up) /\ Q[k + 1] = Step(Q[k], c)
    BY <1>2, <1>5, <2>1, <2>2
  <2> QED
    BY <2>4, <2>5, <2>6
<1>8. n \in G
  <2> HIDE DEF G
  <2>1. 0 .. n \subseteq G
    BY <1>3, <1>6, <1>7, UpTo
  <2> QED
    BY <1>3, <2>1
<1> QED
  BY <1>1, <1>2, <1>3, <1>4, <1>8 DEF After

\* A part of the array that every threshold sees sorted is in order.
InOrder(E, lo, n, field, up) ==
  \A k \in 0 .. n - 2 : Key(E[lo + k][field], up) <= Key(E[lo + (k + 1)][field], up)

LEMMA ReachingInOrder ==
  ASSUME NEW S, NEW T, NEW E \in [S -> T], NEW field, Keyed(T, field), NEW up \in BOOLEAN,
         NEW lo \in Nat, NEW n \in Nat, \A k \in 0 .. n - 1 : lo + k \in S,
         \A t \in Int : SortedOn(Reaching(E, S, field, up, t), lo, n)
  PROVE  InOrder(E, lo, n, field, up)
<1> SUFFICES ASSUME NEW k \in 0 .. n - 2
             PROVE  Key(E[lo + k][field], up) <= Key(E[lo + (k + 1)][field], up)
  BY DEF InOrder
<1>1. k \in 0 .. n - 1 /\ k + 1 \in 0 .. n - 1
  OBVIOUS
<1>2. PICK t, u : t = Key(E[lo + k][field], up) /\ u = Key(E[lo + (k + 1)][field], up)
  OBVIOUS
<1>3. t \in Int /\ u \in Int
  <2>1. lo + k \in S /\ lo + (k + 1) \in S
    BY <1>1
  <2>2. E[lo + k][field] \in Int /\ E[lo + (k + 1)][field] \in Int
    BY <2>1 DEF Keyed
  <2> QED
    BY <1>2, <2>2 DEF Key
<1>4. PICK Z : Z = Reaching(E, S, field, up, t)
  OBVIOUS
<1>5. SortedOn(Z, lo, n)
  BY <1>3, <1>4
<1>6. PICK p \in 0 .. n : \A q \in 0 .. n - 1 : lo + q \in Z <=> p <= q
  BY <1>5 DEF SortedOn
<1>7. lo + k \in Z
  <2>1. lo + k \in S
    BY <1>1
  <2> QED
    BY <1>2, <1>3, <1>4, <2>1 DEF Reaching
<1>8. p <= k + 1
  BY <1>1, <1>6, <1>7
<1>9. lo + (k + 1) \in Z
  BY <1>1, <1>6, <1>8
<1> QED
  BY <1>2, <1>4, <1>9 DEF Reaching

\* Rising keys are sorted for every threshold.
LEMMA RisingSorted ==
  ASSUME NEW lo \in Nat, NEW n \in Nat, NEW keys, \A k \in 0 .. n - 1 : keys[lo + k] \in Int, NEW t \in Int,
         NEW W, \A k \in 0 .. n - 1 : lo + k \in W <=> keys[lo + k] >= t,
         \A k \in 0 .. n - 2 : keys[lo + k] <= keys[lo + (k + 1)]
  PROVE  SortedOn(W, lo, n)
<1> DEFINE T == {k \in 0 .. n : k = n \/ lo + k \in W}
<1>1. PICK p \in T : \A k \in T : p <= k
  <2>1. n \in T /\ T \in SUBSET Nat
    OBVIOUS
  <2> HIDE DEF T
  <2> QED
    BY <2>1, LeastNat
<1>2. \A k \in 0 .. n - 1 : k < p => lo + k \notin W
  BY <1>1
<1>3. 0 .. n \subseteq {k \in Nat : p <= k /\ k < n => lo + k \in W}
  <2> DEFINE U == {k \in Nat : p <= k /\ k < n => lo + k \in W}
  <2>1. 0 \in U
    BY <1>1
  <2>2. ASSUME NEW k \in Nat, k \in U, k < n PROVE k + 1 \in U
    <3> SUFFICES ASSUME p <= k + 1, k + 1 < n PROVE lo + (k + 1) \in W
      OBVIOUS
    <3>1. CASE p = k + 1
      BY <1>1, <3>1
    <3>2. CASE p <= k
      <4>1. lo + k \in W /\ k \in 0 .. n - 1 /\ k + 1 \in 0 .. n - 1 /\ k \in 0 .. n - 2
        BY <2>2, <3>2
      <4>2. PICK x, y : x = keys[lo + k] /\ y = keys[lo + (k + 1)]
        OBVIOUS
      <4>3. x \in Int /\ y \in Int /\ x <= y /\ x >= t
        BY <4>1, <4>2
      <4>4. y >= t
        BY <4>3
      <4> QED
        BY <4>1, <4>2, <4>4
    <3>3. p \in Nat
      BY <1>1
    <3> QED
      BY <3>1, <3>2, <3>3
  <2> HIDE DEF U
  <2>3. 0 .. n \subseteq U
    BY <2>1, <2>2, UpTo
  <2> QED
    BY <2>3 DEF U
<1>4. \A k \in 0 .. n - 1 : lo + k \in W <=> p <= k
  <2>1. \A k \in 0 .. n - 1 : k \in 0 .. n /\ k < n /\ (p <= k \/ k < p)
    BY <1>1
  <2> QED
    BY <1>2, <1>3, <2>1
<1>5. p \in 0 .. n
  BY <1>1
<1> HIDE DEF T
<1> QED
  BY <1>4, <1>5 DEF SortedOn

LEMMA InOrderReaching ==
  ASSUME NEW S, NEW T, NEW E \in [S -> T], NEW field, Keyed(T, field), NEW up \in BOOLEAN,
         NEW lo \in Nat, NEW n \in Nat, \A k \in 0 .. n - 1 : lo + k \in S,
         InOrder(E, lo, n, field, up), NEW t \in Int
  PROVE  SortedOn(Reaching(E, S, field, up, t), lo, n)
<1>1. PICK keys : keys = [i \in S |-> Key(E[i][field], up)]
  OBVIOUS
<1>2. \A k \in 0 .. n - 1 : keys[lo + k] = Key(E[lo + k][field], up)
  BY <1>1
<1>3. \A k \in 0 .. n - 1 : keys[lo + k] \in Int
  <2> TAKE k \in 0 .. n - 1
  <2>1. E[lo + k][field] \in Int
    BY DEF Keyed
  <2> QED
    BY <1>2, <2>1 DEF Key
<1>4. PICK W : W = Reaching(E, S, field, up, t)
  OBVIOUS
<1>5. \A k \in 0 .. n - 1 : lo + k \in W <=> keys[lo + k] >= t
  BY <1>2, <1>4 DEF Reaching
<1>6. \A k \in 0 .. n - 2 : keys[lo + k] <= keys[lo + (k + 1)]
  <2> TAKE k \in 0 .. n - 2
  <2>1. k \in 0 .. n - 1 /\ k + 1 \in 0 .. n - 1
    OBVIOUS
  <2> QED
    BY <1>2, <2>1 DEF InOrder
<1>7. SortedOn(W, lo, n)
  BY <1>3, <1>5, <1>6, RisingSorted
<1> QED
  BY <1>4, <1>7

\* A network on a piece of the array works on the array.
LEMMA WithinWorks ==
  ASSUME NEW S \in SUBSET Nat, NEW lo \in Nat, NEW n \in Nat, Piece(lo, n) \subseteq S,
         NEW net \in Seq(Within(lo, n))
  PROVE  Works(net, S)
<1>1. net \in Nets /\ Touches(net, Piece(lo, n))
  BY WithinTouches
<1>2. \A k \in 1 .. Len(net) : net[k] \in Within(lo, n)
  <2> DEFINE W == Within(lo, n)
  <2> HIDE DEF W
  <2>1. net \in Seq(W)
    BY DEF W
  <2>2. \A k \in 1 .. Len(net) : net[k] \in W
    BY <2>1
  <2> QED
    BY <2>2 DEF W
<1>3. \A c \in Within(lo, n) : c[1] \in Nat /\ c[2] \in Nat /\ c[1] < c[2]
  BY DEF Within
<1>4. \A k \in 1 .. Len(net) : net[k][1] # net[k][2]
  BY <1>2, <1>3
<1>5. Touches(net, S)
  BY <1>1 DEF Touches
<1> QED
  BY <1>1, <1>4, <1>5 DEF Works

\* The sort that a caller chooses by the length: odd-even merge for a power of
\* two, bitonic otherwise.
Sorter(lo, n) == IF testPo2(n) THEN oddEvenMergeSort[<<lo, n>>] ELSE bitonicSort[<<lo, n, TRUE>>]

LEMMA SorterSorts ==
  ASSUME NEW lo \in Nat, NEW n \in Nat \ {0}
  PROVE  Sorter(lo, n) \in Seq(Within(lo, n)) /\ SortedBy(Sorter(lo, n), lo, n, TRUE)
<1>t. TRUE \in BOOLEAN
  OBVIOUS
<1>1. CASE testPo2(n)
  <2>1. PICK e \in Nat : n = Doubled[e]
    BY <1>1, PowerIs DEF testPo2
  <2>2. Sorter(lo, n) = oddEvenMergeSort[<<lo, Doubled[e]>>]
    BY <1>1, <2>1 DEF Sorter
  <2> QED
    BY <2>1, <2>2, oddEvenMergeSortIn, oddEvenMergeSortSorts
<1>2. CASE ~testPo2(n)
  <2>1. Sorter(lo, n) = bitonicSort[<<lo, n, TRUE>>] /\ n \in Nat
    BY <1>2 DEF Sorter
  <2> QED
    BY <1>t, <2>1, bitonicSortIn, bitonicSortSorts
<1> QED
  BY <1>1, <1>2

\* It leaves its piece of the array in order.
LEMMA SortedArray ==
  ASSUME NEW net, NEW L, NEW S, NEW T, NEW field, NEW up, Sorts(net, L, S, T, field, up),
         NEW lo \in Nat, NEW n \in Nat, Piece(lo, n) \subseteq S, SortedBy(net, lo, n, TRUE)
  PROVE  InOrder(Applied(net, L, field, up), lo, n, field, up)
<1>1. PICK E : E = Applied(net, L, field, up)
  OBVIOUS
<1>2. E \in [S -> T]
  BY <1>1, AppliedShuffles
<1>3. ASSUME NEW t \in Int PROVE SortedOn(Reaching(E, S, field, up, t), lo, n)
  <2>1. PICK Z : Z = Reaching(L, S, field, up, t)
    OBVIOUS
  <2>2. Z \in SUBSET Nat
    BY <2>1 DEF Reaching, Sorts, Works
  <2>3. Reaching(E, S, field, up, t) = After(net, Z)
    BY <1>1, <2>1, AppliedReaching
  <2>4. SortedOn(Up(After(net, Z), TRUE), lo, n)
    BY <2>2 DEF SortedBy
  <2> QED
    BY <2>3, <2>4 DEF Up
<1>4. Keyed(T, field) /\ up \in BOOLEAN /\ \A k \in 0 .. n - 1 : lo + k \in S
  BY DEF Sorts, Piece
<1>5. InOrder(E, lo, n, field, up)
  BY <1>2, <1>3, <1>4, ReachingInOrder
<1> QED
  BY <1>1, <1>5

\* An odd-even merge of two parts in order leaves the whole in order.
LEMMA MergedArray ==
  ASSUME NEW L, NEW S, NEW T, NEW field, NEW up, NEW lo \in Nat, NEW h \in Nat, testPo2(2 * h), h # 0,
         Sorts(oddEvenMerge[<<lo, 2 * h, 1>>], L, S, T, field, up), Piece(lo, 2 * h) \subseteq S,
         InOrder(L, lo, h, field, up), InOrder(L, lo + h, h, field, up)
  PROVE  InOrder(Applied(oddEvenMerge[<<lo, 2 * h, 1>>], L, field, up), lo, 2 * h, field, up)
<1>1. PICK net, E, n : net = oddEvenMerge[<<lo, 2 * h, 1>>] /\ E = Applied(net, L, field, up) /\ n = 2 * h
  OBVIOUS
<1>2. n \in Nat \ {0} /\ Sorts(net, L, S, T, field, up)
  BY <1>1
<1>3. PICK e \in Nat : n = Doubled[e]
  BY <1>1, <1>2, PowerIs DEF testPo2
<1>4. e # 0
  <2> SUFFICES ASSUME e = 0 PROVE FALSE
    OBVIOUS
  <2> QED
    BY <1>1, <1>3, DoubledFacts
<1>5. PICK j \in Nat : e = j + 1
  <2>1. e - 1 \in Nat /\ e = (e - 1) + 1
    BY <1>4
  <2> QED
    BY <2>1
<1>6. h = Doubled[j]
  <2>1. Doubled[j + 1] = 2 * Doubled[j] /\ Doubled[j] \in Nat
    BY DoubledFacts
  <2> QED
    BY <1>1, <1>3, <1>5, <2>1
<1>7. MergedEven(net, lo, h)
  BY <1>1, <1>3, <1>5, <1>6, oddEvenMergeWhole
<1>8. E \in [S -> T]
  BY <1>1, <1>2, AppliedShuffles
<1>9. /\ L \in [S -> T] /\ Keyed(T, field) /\ up \in BOOLEAN /\ S \in SUBSET Nat
      /\ \A k \in 0 .. n - 1 : lo + k \in S
  BY <1>1, <1>2 DEF Sorts, Works, Piece
<1>10. (\A k \in 0 .. h - 1 : lo + k \in S) /\ (\A k \in 0 .. h - 1 : (lo + h) + k \in S) /\ lo + h \in Nat
  <2>1. \A k \in 0 .. h - 1 : k \in 0 .. n - 1 /\ h + k \in 0 .. n - 1 /\ (lo + h) + k = lo + (h + k)
    BY <1>1
  <2> QED
    BY <1>9, <2>1
<1>11. ASSUME NEW t \in Int PROVE SortedOn(Reaching(E, S, field, up, t), lo, n)
  <2>1. PICK Z : Z = Reaching(L, S, field, up, t)
    OBVIOUS
  <2>2. Z \in SUBSET Nat
    BY <1>9, <2>1 DEF Reaching
  <2>3. Reaching(E, S, field, up, t) = After(net, Z)
    BY <1>1, <1>2, <2>1, AppliedReaching
  <2>4. SortedOn(Z, lo, h)
    BY <1>9, <1>10, <2>1, InOrderReaching
  <2>5. SortedOn(Z, lo + h, h)
    BY <1>9, <1>10, <2>1, InOrderReaching
  <2>6. SortedOn(After(net, Z), lo, 2 * h)
    BY <1>7, <2>2, <2>4, <2>5 DEF MergedEven
  <2> QED
    BY <1>1, <2>3, <2>6
<1>12. InOrder(E, lo, n, field, up)
  BY <1>2, <1>8, <1>9, <1>11, ReachingInOrder
<1> QED
  BY <1>1, <1>12

\* In order from neighbour to neighbour is in order throughout.
LEMMA OrderedPairs ==
  ASSUME NEW E, NEW lo \in Nat, NEW n \in Nat, NEW field, NEW up,
         \A k \in 0 .. n - 1 : Key(E[lo + k][field], up) \in Int,
         InOrder(E, lo, n, field, up), NEW x \in 0 .. n - 1, NEW y \in x .. n - 1
  PROVE  Key(E[lo + x][field], up) <= Key(E[lo + y][field], up)
<1>1. PICK f : f = [k \in 0 .. n - 1 |-> Key(E[lo + k][field], up)]
  OBVIOUS
<1>2. \A k \in 0 .. n - 1 : f[k] \in Int /\ f[k] = Key(E[lo + k][field], up)
  BY <1>1
<1>3. \A k \in 0 .. n - 2 : f[k] <= f[k + 1]
  <2> TAKE k \in 0 .. n - 2
  <2>1. k \in 0 .. n - 1 /\ k + 1 \in 0 .. n - 1
    OBVIOUS
  <2> QED
    BY <1>2, <2>1 DEF InOrder
<1> DEFINE G == {d \in Nat : x + d <= n - 1 => f[x] <= f[x + d]}
<1>4. 0 \in G
  BY <1>2
<1>5. ASSUME NEW d \in G PROVE d + 1 \in G
  <2> SUFFICES ASSUME x + (d + 1) <= n - 1 PROVE f[x] <= f[x + (d + 1)]
    OBVIOUS
  <2>1. d \in Nat /\ x + d <= n - 1 /\ x + d \in 0 .. n - 2 /\ x + (d + 1) = (x + d) + 1
    OBVIOUS
  <2>2. f[x] <= f[x + d] /\ f[x + d] <= f[(x + d) + 1]
    BY <1>3, <2>1
  <2>3. x + d \in 0 .. n - 1 /\ (x + d) + 1 \in 0 .. n - 1
    BY <2>1
  <2>4. f[x] \in Int /\ f[x + d] \in Int /\ f[(x + d) + 1] \in Int
    BY <1>2, <2>3
  <2> QED
    BY <2>1, <2>2, <2>4
<1>6. G = Nat
  <2>1. G \in SUBSET Nat
    OBVIOUS
  <2> HIDE DEF G
  <2> QED
    BY <1>4, <1>5, <2>1, AllNat
<1>7. y - x \in G /\ x + (y - x) = y /\ y \in 0 .. n - 1
  <2>1. y - x \in Nat /\ x + (y - x) = y /\ y \in 0 .. n - 1
    OBVIOUS
  <2> HIDE DEF G
  <2> QED
    BY <1>6, <2>1
<1>8. f[x] <= f[y]
  BY <1>7
<1> QED
  BY <1>2, <1>7, <1>8

\* A rearrangement of a finite array can be undone, and has every value as often.
LEMMA ShufflesBack ==
  ASSUME NEW S, IsFiniteSet(S), NEW L, NEW E, Shuffles(L, E, S)
  PROVE  Shuffles(E, L, S)
<1>1. PICK q \in [S -> S] : (\A k \in S : E[k] = L[q[k]]) /\ (\A k, l \in S : q[k] = q[l] => k = l)
  BY DEF Shuffles
<1>2. \A k \in S : \E l \in S : q[l] = k
  BY <1>1, OneToOne
<1>3. PICK r : r = [k \in S |-> CHOOSE l \in S : q[l] = k]
  OBVIOUS
<1>4. \A k \in S : r[k] \in S /\ q[r[k]] = k
  BY <1>2, <1>3
<1>5. r \in [S -> S]
  BY <1>3, <1>4
<1>6. \A k \in S : L[k] = E[r[k]]
  BY <1>1, <1>4
<1>7. \A k, l \in S : r[k] = r[l] => k = l
  BY <1>4
<1> QED
  BY <1>5, <1>6, <1>7 DEF Shuffles

LEMMA ShufflesSome ==
  ASSUME NEW S, IsFiniteSet(S), NEW L, NEW E, Shuffles(L, E, S), NEW v
  PROVE  Cardinality({k \in S : E[k] = v}) <= Cardinality({k \in S : L[k] = v})
<1>1. PICK q \in [S -> S] : (\A k \in S : E[k] = L[q[k]]) /\ (\A k, l \in S : q[k] = q[l] => k = l)
  BY DEF Shuffles
<1>2. PICK A, B : A = {k \in S : E[k] = v} /\ B = {k \in S : L[k] = v}
  OBVIOUS
<1>3. IsFiniteSet(B)
  <2>1. B \subseteq S
    BY <1>2
  <2> QED
    BY <2>1, FS_Subset
<1>4. PICK f : f = [k \in A |-> q[k]]
  OBVIOUS
<1>5. f \in [A -> B] /\ \A a, b \in A : f[a] = f[b] => a = b
  BY <1>1, <1>2, <1>4
<1>6. Cardinality(A) <= Cardinality(B)
  BY <1>3, <1>5, OneToOne
<1> QED
  BY <1>2, <1>6

\* How often a value is in the array.
Copies(L, S, v) == Cardinality({k \in S : L[k] = v})

LEMMA ShufflesCount ==
  ASSUME NEW S, IsFiniteSet(S), NEW L, NEW E, Shuffles(L, E, S), NEW v
  PROVE  Copies(E, S, v) = Copies(L, S, v)
<1>1. PICK A, B : A = {k \in S : E[k] = v} /\ B = {k \in S : L[k] = v}
  OBVIOUS
<1>2. Cardinality(A) <= Cardinality(B)
  BY <1>1, ShufflesSome
<1>3. Cardinality(B) <= Cardinality(A)
  <2>1. Shuffles(E, L, S)
    BY ShufflesBack
  <2> QED
    BY <1>1, <2>1, ShufflesSome
<1>4. Cardinality(A) \in Nat /\ Cardinality(B) \in Nat
  <2>1. A \subseteq S /\ B \subseteq S
    BY <1>1
  <2> QED
    BY <2>1, FS_Subset, FS_CardinalityType
<1>5. Copies(E, S, v) = Cardinality(A) /\ Copies(L, S, v) = Cardinality(B)
  BY <1>1 DEF Copies
<1> QED
  BY <1>2, <1>3, <1>4, <1>5
--------------------------------------------------------------------------------
(* Loops of n turns.                                                         *)

\* What a loop of n turns has made of `base` after each of them, when turn k
\* makes F[<<y, k>>] of y.
Turns(n, base, F, f) == f = [k \in 0 .. n |-> IF k = 0 THEN base ELSE F[<<f[k - 1], k>>]]

\* A loop of n turns, each of which makes an A of an A.
LEMMA LoopExists ==
  ASSUME NEW n \in Nat, NEW A, NEW base \in A, NEW F \in [A \X (1 .. n) -> A]
  PROVE  \E f \in [0 .. n -> A] : Turns(n, base, F, f)
<1> DEFINE N  == 0 .. n
           mu == [k \in N |-> k]
           D  == [g \in [N -> A] |-> [k \in N |-> IF k = 0 THEN base ELSE F[<<g[k - 1], k>>]]]
<1>1. \A k \in N : k # 0 => k - 1 \in N /\ k - 1 < k /\ k \in 1 .. n
  OBVIOUS
<1>2. ASSUME NEW g \in [N -> A]
      PROVE  [k \in N |-> IF k = 0 THEN base ELSE F[<<g[k - 1], k>>]] \in [N -> A]
  <2>1. \A k \in N : (IF k = 0 THEN base ELSE F[<<g[k - 1], k>>]) \in A
    <3> SUFFICES ASSUME NEW k \in N PROVE (IF k = 0 THEN base ELSE F[<<g[k - 1], k>>]) \in A
      OBVIOUS
    <3>1. CASE k = 0
      BY <3>1
    <3>2. CASE k # 0
      <4>1. g[k - 1] \in A /\ k \in 1 .. n
        BY <1>1, <3>2
      <4>2. F[<<g[k - 1], k>>] \in A
        BY <4>1
      <4> QED
        BY <3>2, <4>2
    <3> QED
      BY <3>1, <3>2
  <2> HIDE DEF N
  <2> QED
    BY <2>1
<1>3. Recursion(N, A, mu, D)
  <2>1. mu \in [N -> Nat]
    OBVIOUS
  <2>2. D \in [[N -> A] -> [N -> A]]
    <3> HIDE DEF N
    <3> QED
      BY <1>2
  <2>3. ASSUME NEW g \in [N -> A], NEW h \in [N -> A], NEW k \in N,
               \A m \in N : mu[m] < mu[k] => g[m] = h[m]
        PROVE  D[g][k] = D[h][k]
    <3> HIDE DEF N
    <3>1. k # 0 => g[k - 1] = h[k - 1]
      BY <1>1, <2>3
    <3> QED
      BY <3>1
  <2> HIDE DEF mu, D, N
  <2> QED
    BY <2>1, <2>2, <2>3 DEF Recursion
<1>4. PICK f : Solution(N, A, D, f)
  <2>1. A # {}
    OBVIOUS
  <2> HIDE DEF mu, D, N
  <2> QED
    BY <1>3, <2>1, RecursionExists
<1>5. f \in [N -> A] /\ f = [k \in N |-> IF k = 0 THEN base ELSE F[<<f[k - 1], k>>]]
  <2> HIDE DEF N
  <2> QED
    BY <1>4 DEF Solution
<1> QED
  BY <1>5 DEF Turns

\* What holds before a loop and after every turn of it holds at its end.
LEMMA LoopKeeps ==
  ASSUME NEW n \in Nat, NEW T, 0 \in T, \A k \in 1 .. n : k - 1 \in T => k \in T
  PROVE  0 .. n \subseteq T
<1> DEFINE G == {k \in Nat : k <= n => k \in T}
<1>1. G \in SUBSET Nat /\ 0 \in G
  OBVIOUS
<1>2. ASSUME NEW k \in G PROVE k + 1 \in G
  <2> SUFFICES ASSUME k + 1 <= n PROVE k + 1 \in T
    OBVIOUS
  <2>1. k \in Nat /\ k \in T /\ k + 1 \in 1 .. n /\ (k + 1) - 1 = k
    OBVIOUS
  <2> QED
    BY <2>1
<1>3. G = Nat
  <2> HIDE DEF G
  <2> QED
    BY <1>1, <1>2, AllNat
<1> QED
  BY <1>3
================================================================================
