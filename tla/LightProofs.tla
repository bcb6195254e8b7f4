------------------------------- MODULE LightProofs -------------------------------
(***************************************************************************)
(* The update of the light part, for every light part and every heavy part. *)
(* What the counters should become is the maximum of a set of numbers; it is *)
(* kept by the blocks of the working array through every sort, which moves   *)
(* them, and every turn of a scan, which folds two blocks into one.          *)
(***************************************************************************)
EXTENDS LightUpdate, NetProofs

(* Powers of two.                                                            *)

LEMMA DoubledRises ==
  ASSUME NEW a \in Nat, NEW b \in Nat, a < b
  PROVE  2 * Doubled[a] <= Doubled[b]
<1> DEFINE T == {k \in Nat : 2 * Doubled[a] <= Doubled[a + 1 + k]}
<1>1. 0 \in T
  <2>1. a + 1 + 0 = a + 1
    OBVIOUS
  <2> QED
    BY <2>1, DoubledFacts
<1>2. ASSUME NEW k \in Nat, k \in T PROVE k + 1 \in T
  <2>1. PICK c \in Nat : c = a + 1 + k
    OBVIOUS
  <2>2. a + 1 + (k + 1) = c + 1
    BY <2>1
  <2>3. 2 * Doubled[a] <= Doubled[c]
    BY <1>2, <2>1
  <2>4. Doubled[c] \in Nat /\ Doubled[c + 1] = 2 * Doubled[c] /\ Doubled[a] \in Nat
    BY DoubledFacts
  <2>5. 2 * Doubled[a] <= Doubled[c + 1]
    BY <2>3, <2>4
  <2> QED
    BY <2>2, <2>5
<1>3. T = Nat
  <2>1. T \in SUBSET Nat
    OBVIOUS
  <2> HIDE DEF T
  <2>2. \A n \in T : n + 1 \in T
    BY <1>2, <2>1
  <2> QED
    BY <1>1, <2>1, <2>2, AllNat
<1>4. b - a - 1 \in Nat /\ a + 1 + (b - a - 1) = b
  OBVIOUS
<1>5. b - a - 1 \in T
  BY <1>3, <1>4
<1> QED
  BY <1>4, <1>5

\* A power of two is its own, and so is its double.
LEMMA PowerItself ==
  ASSUME NEW e \in Nat
  PROVE  testPo2(Doubled[e])
<1>1. PICK n \in Nat : n = Doubled[e]
  BY DoubledFacts
<1>2. n \in Nat \ {0} /\ e \in 0 .. n
  BY <1>1, DoubledFacts
<1> DEFINE P == {Doubled[f] : f \in 0 .. n}
           m == CHOOSE k \in P : n <= k /\ k < 2 * n
<1>3. \E k \in P : n <= k /\ k < 2 * n
  BY <1>1, <1>2
<1>4. m \in P /\ n <= m /\ m < 2 * n
  <2> HIDE DEF P
  <2> QED
    BY <1>3
<1>5. m = PowerAbove(n)
  BY DEF PowerAbove
<1>6. PICK f \in 0 .. n : m = Doubled[f]
  BY <1>4
<1> HIDE DEF m
<1>7. ~ (e < f)
  <2> SUFFICES ASSUME e < f PROVE FALSE
    OBVIOUS
  <2>1. 2 * Doubled[e] <= Doubled[f]
    BY DoubledRises
  <2> QED
    BY <1>1, <1>4, <1>6, <2>1, DoubledFacts
<1>8. ~ (f < e)
  <2> SUFFICES ASSUME f < e PROVE FALSE
    OBVIOUS
  <2>1. 2 * Doubled[f] <= Doubled[e]
    BY DoubledRises
  <2>2. Doubled[f] \in Nat /\ f < Doubled[f]
    BY DoubledFacts
  <2> QED
    BY <1>1, <1>4, <1>6, <2>1, <2>2
<1>9. m = n
  BY <1>1, <1>6, <1>7, <1>8
<1> QED
  BY <1>1, <1>5, <1>9 DEF testPo2

LEMMA PowerTwice ==
  ASSUME NEW n \in Nat \ {0}, testPo2(n)
  PROVE  testPo2(2 * n)
<1>1. PICK e \in Nat : n = Doubled[e]
  BY PowerIs DEF testPo2
<1>2. 2 * n = Doubled[e + 1] /\ e + 1 \in Nat
  BY <1>1, DoubledFacts
<1> QED
  BY <1>2, PowerItself
--------------------------------------------------------------------------------
(* What a sort or merge of a piece does to the array.                        *)

\* The rearrangement of L into E moves nothing outside A.
ShufflesIn(L, E, S, A) ==
  \E q \in [S -> S] : /\ \A k \in S : E[k] = L[q[k]]
                      /\ \A k, l \in S : q[k] = q[l] => k = l
                      /\ \A k \in S \ A : q[k] = k

LEMMA ExchangeShufflesIn ==
  ASSUME NEW S, NEW T, NEW L \in [S -> T], NEW c, c[1] \in S, c[2] \in S, c[1] # c[2], c[3] \in BOOLEAN,
         NEW field, Keyed(T, field), NEW up \in BOOLEAN, NEW A, c[1] \in A, c[2] \in A
  PROVE  ShufflesIn(L, Exchange(L, c, field, up), S, A)
<1>1. PICK x, y, E : x = c[1] /\ y = c[2] /\ E = Exchange(L, c, field, up)
  OBVIOUS
<1>e. Exchanged(L, E, S, c, Key(L[c[1]][field], up), Key(L[c[2]][field], up))
  BY <1>1, ExchangeIs
<1>2. x \in S /\ y \in S /\ x # y /\ x \in A /\ y \in A /\ \A k \in S \ {x, y} : E[k] = L[k]
  BY <1>1, <1>e DEF Exchanged
<1>3. (E[x] = L[y] /\ E[y] = L[x]) \/ (E[x] = L[x] /\ E[y] = L[y])
  BY <1>1, <1>e DEF Exchanged, Swapped, Kept
<1>4. CASE E[x] = L[y] /\ E[y] = L[x]
  <2> DEFINE q == [k \in S |-> IF k = x THEN y ELSE IF k = y THEN x ELSE k]
  <2>1. q \in [S -> S]
    BY <1>2
  <2>2. \A k \in S : E[k] = L[q[k]]
    BY <1>2, <1>4
  <2>3. (\A k, l \in S : q[k] = q[l] => k = l) /\ \A k \in S \ A : q[k] = k
    BY <1>2
  <2> HIDE DEF q
  <2> QED
    BY <1>1, <2>1, <2>2, <2>3 DEF ShufflesIn
<1>5. CASE E[x] = L[x] /\ E[y] = L[y]
  <2> DEFINE q == [k \in S |-> k]
  <2>1. /\ q \in [S -> S] /\ \A k \in S : E[k] = L[q[k]]
        /\ (\A k, l \in S : q[k] = q[l] => k = l) /\ \A k \in S \ A : q[k] = k
    BY <1>2, <1>5
  <2> HIDE DEF q
  <2> QED
    BY <1>1, <2>1 DEF ShufflesIn
<1> QED
  BY <1>3, <1>4, <1>5

LEMMA ShufflesInThen ==
  ASSUME NEW S, NEW A, NEW L, NEW M, NEW E, ShufflesIn(L, M, S, A), ShufflesIn(M, E, S, A)
  PROVE  ShufflesIn(L, E, S, A)
<1>1. PICK p \in [S -> S] : /\ \A k \in S : M[k] = L[p[k]]
                            /\ \A k, l \in S : p[k] = p[l] => k = l
                            /\ \A k \in S \ A : p[k] = k
  BY DEF ShufflesIn
<1>2. PICK q \in [S -> S] : /\ \A k \in S : E[k] = M[q[k]]
                            /\ \A k, l \in S : q[k] = q[l] => k = l
                            /\ \A k \in S \ A : q[k] = k
  BY DEF ShufflesIn
<1>3. PICK r : r = [k \in S |-> p[q[k]]]
  OBVIOUS
<1>4. /\ r \in [S -> S] /\ \A k \in S : E[k] = L[r[k]]
      /\ (\A k, l \in S : r[k] = r[l] => k = l) /\ \A k \in S \ A : r[k] = k
  BY <1>1, <1>2, <1>3
<1> QED
  BY <1>4 DEF ShufflesIn

LEMMA ShufflesInSame == \A S, A, L : ShufflesIn(L, L, S, A)
<1> TAKE S, A, L
<1>1. PICK q : q = [k \in S |-> k]
  OBVIOUS
<1>2. /\ q \in [S -> S] /\ \A k \in S : L[k] = L[q[k]]
      /\ (\A k, l \in S : q[k] = q[l] => k = l) /\ \A k \in S \ A : q[k] = k
  BY <1>1
<1> QED
  BY <1>2 DEF ShufflesIn

\* A sort of a piece rearranges the piece.
LEMMA AppliedShufflesIn ==
  ASSUME NEW S, NEW T, NEW net, NEW L, NEW field, NEW up, Sorts(net, L, S, T, field, up),
         NEW A, Touches(net, A)
  PROVE  Applied(net, L, field, up) \in [S -> T] /\ ShufflesIn(L, Applied(net, L, field, up), S, A)
<1> Works(net, S) /\ T # {} /\ L \in [S -> T] /\ Keyed(T, field) /\ up \in BOOLEAN
  BY DEF Sorts
<1>1. PICK n : n = Len(net)
  OBVIOUS
<1>2. PICK R : /\ R[0] = L /\ \A k \in 1 .. n : R[k] = Exchange(R[k - 1], net[k], field, up)
               /\ \A k \in 0 .. n : R[k] \in [S -> T]
               /\ Applied(net, L, field, up) = R[n]
  BY <1>1, AppliedIs
<1>3. n \in Nat
  BY <1>1, WorksFacts
<1> DEFINE G == {k \in Nat : ShufflesIn(L, R[k], S, A)}
<1>4. 0 \in G
  BY <1>2, ShufflesInSame
<1>5. ASSUME NEW k \in Nat, k \in G, k < n PROVE k + 1 \in G
  <2>1. PICK c, M : c = net[k + 1] /\ M = R[k]
    OBVIOUS
  <2>2. k \in 0 .. n /\ k + 1 \in 1 .. n /\ (k + 1) - 1 = k
    BY <1>3, <1>5
  <2>3. c[1] \in S /\ c[2] \in S /\ c[1] # c[2] /\ c[3] \in BOOLEAN
    BY <1>1, <2>1, <2>2, WorksFacts
  <2>4. c[1] \in A /\ c[2] \in A
    BY <1>1, <2>1, <2>2 DEF Touches
  <2>5. M \in [S -> T] /\ ShufflesIn(L, M, S, A)
    BY <1>2, <1>5, <2>1, <2>2
  <2>6. ShufflesIn(M, Exchange(M, c, field, up), S, A)
    BY <2>3, <2>4, <2>5, ExchangeShufflesIn
  <2>7. R[k + 1] = Exchange(M, c, field, up)
    BY <1>2, <2>1, <2>2
  <2> QED
    BY <2>5, <2>6, <2>7, ShufflesInThen
<1>6. n \in G
  <2> HIDE DEF G
  <2>1. 0 .. n \subseteq G
    BY <1>3, <1>4, <1>5, UpTo
  <2> QED
    BY <1>3, <2>1
<1> QED
  BY <1>2, <1>3, <1>6
--------------------------------------------------------------------------------
(* Blocks.  N is the number of blocks of the light part, R that of the       *)
(* counters of a block.                                                      *)

Ids(N) == (0 .. N - 1) \cup {DUMMY_FLOW}
BlocksOf(N, R) == [id : Ids(N), data : [0 .. R - 1 -> 0 .. MaxCount]]

Among(E) == {E[k] : k \in DOMAIN E}

\* v is the largest number that the blocks b have in record r.
Top(B, b, r, v) ==
  /\ \E x \in B : x.id = b /\ x.data[r] = v
  /\ \A x \in B : x.id = b => x.data[r] <= v

\* The blocks B hold what W wants of every counter.
Merges(B, N, R, W) == \A b \in 0 .. N - 1, r \in 0 .. R - 1 : Top(B, b, r, W[b * R + r])

\* No two blocks of the places S have the same number.
Once(E, S) == \A k, l \in S : E[k].id = E[l].id /\ E[k].id # DUMMY_FLOW => k = l

\* From m on there are dummies alone.
EndsAt(E, m) == \A k \in DOMAIN E : m <= k => E[k].id = DUMMY_FLOW

\* The n blocks from lo on are in the order of their numbers.
Rising(E, lo, n) == \A j, k \in 0 .. n - 1 : j <= k => E[lo + j].id <= E[lo + k].id

LEMMA IdFacts ==
  ASSUME NEW N \in Numbers, N < DUMMY_FLOW
  PROVE  /\ Ids(N) \in SUBSET Nat /\ DUMMY_FLOW \in Ids(N) /\ DUMMY_FLOW \in Nat
         /\ \A b \in Ids(N) : b <= DUMMY_FLOW /\ (b # DUMMY_FLOW <=> b < N) /\ (b # DUMMY_FLOW <=> b \in 0 .. N - 1)
BY ValueAssumption DEF Ids, Numbers

\* A rearrangement leaves the same blocks, and as often.
LEMMA SortKeeps ==
  ASSUME NEW S, IsFiniteSet(S), NEW T, NEW L \in [S -> T], NEW E \in [S -> T], NEW A \in SUBSET S,
         ShufflesIn(L, E, S, A)
  PROVE  /\ Among(E) = Among(L)
         /\ \A k \in S \ A : E[k] = L[k]
         /\ Once(L, A) => Once(E, A)
<1>1. PICK q \in [S -> S] : /\ \A k \in S : E[k] = L[q[k]]
                            /\ \A k, l \in S : q[k] = q[l] => k = l
                            /\ \A k \in S \ A : q[k] = k
  BY DEF ShufflesIn
<1>2. Shuffles(L, E, S)
  BY <1>1 DEF Shuffles
<1>3. Shuffles(E, L, S)
  BY <1>2, ShufflesBack
<1>4. PICK p \in [S -> S] : \A k \in S : L[k] = E[p[k]]
  BY <1>3 DEF Shuffles
<1>5. Among(E) = Among(L)
  BY <1>1, <1>4 DEF Among
<1>6. \A k \in S \ A : E[k] = L[k]
  BY <1>1
<1>7. \A k \in A : q[k] \in A
  <2> SUFFICES ASSUME NEW k \in A, q[k] \notin A PROVE FALSE
    OBVIOUS
  <2>1. q[k] \in S \ A
    BY <1>1
  <2>2. q[q[k]] = q[k]
    BY <1>1, <2>1
  <2>3. q[k] = k
    BY <1>1, <2>1, <2>2
  <2> QED
    BY <2>3
<1>8. Once(L, A) => Once(E, A)
  BY <1>1, <1>7 DEF Once
<1> QED
  BY <1>5, <1>6, <1>8

\* E is piece lo, n of L in order, whose live blocks are in its first m places.
LiveShuffled(N, S, L, E, lo, n, m) ==
  /\ N \in Numbers /\ N < DUMMY_FLOW /\ lo \in Nat /\ n \in Nat /\ m \in Nat
  /\ Piece(lo, n) \subseteq S /\ \A k \in S : E[k].id \in Ids(N)
  /\ ShufflesIn(L, E, S, Piece(lo, n))
  /\ \A k \in m .. n - 1 : L[lo + k].id = DUMMY_FLOW
  /\ Rising(E, lo, n)

\* Its live blocks are so then too.
LEMMA LiveFirst ==
  ASSUME NEW N, NEW S, NEW L, NEW E, NEW lo, NEW n, NEW m, LiveShuffled(N, S, L, E, lo, n, m)
  PROVE  \A k \in m .. n - 1 : E[lo + k].id = DUMMY_FLOW
<1> /\ N \in Numbers /\ N < DUMMY_FLOW /\ lo \in Nat /\ n \in Nat /\ m \in Nat
    /\ Piece(lo, n) \subseteq S /\ \A k \in S : E[k].id \in Ids(N)
    /\ ShufflesIn(L, E, S, Piece(lo, n))
    /\ \A k \in m .. n - 1 : L[lo + k].id = DUMMY_FLOW
    /\ Rising(E, lo, n)
  BY DEF LiveShuffled
<1> SUFFICES ASSUME NEW k \in m .. n - 1, E[lo + k].id # DUMMY_FLOW PROVE FALSE
  OBVIOUS
<1>1. PICK q \in [S -> S] : /\ \A j \in S : E[j] = L[q[j]]
                            /\ \A j, l \in S : q[j] = q[l] => j = l
                            /\ \A j \in S \ Piece(lo, n) : q[j] = j
  BY DEF ShufflesIn
<1>2. \A j \in 0 .. k : lo + j \in S /\ lo + j \in Piece(lo, n) /\ j \in 0 .. n - 1
  BY DEF Piece
<1>3. ASSUME NEW j \in 0 .. k PROVE E[lo + j].id # DUMMY_FLOW
  <2>1. E[lo + j].id <= E[lo + k].id
    BY <1>2 DEF Rising
  <2>2. E[lo + j].id \in Ids(N) /\ E[lo + k].id \in Ids(N)
    BY <1>2
  <2> QED
    BY <2>1, <2>2, IdFacts
<1>p. ASSUME NEW j \in 0 .. k PROVE q[lo + j] \in Piece(lo, n)
  <2> SUFFICES ASSUME q[lo + j] \notin Piece(lo, n) PROVE FALSE
    OBVIOUS
  <2>1. q[q[lo + j]] = q[lo + j] /\ q[lo + j] \in S /\ lo + j \in S
    BY <1>1, <1>2
  <2>2. q[lo + j] = lo + j
    BY <1>1, <2>1
  <2> QED
    BY <1>2, <2>2
<1>4. ASSUME NEW j \in 0 .. k PROVE q[lo + j] - lo \in 0 .. m - 1
  <2>1. q[lo + j] \in Piece(lo, n)
    BY <1>p
  <2>2. PICK i1 \in 0 .. n - 1 : q[lo + j] = lo + i1
    <3>1. q[lo + j] - lo \in 0 .. n - 1 /\ q[lo + j] = lo + (q[lo + j] - lo)
      BY <2>1 DEF Piece
    <3> QED
      BY <3>1
  <2>3. L[lo + i1].id # DUMMY_FLOW
    BY <1>1, <1>2, <1>3, <2>2
  <2>4. ~ (i1 >= m)
    BY <2>3
  <2> QED
    BY <2>2, <2>4
<1>5. PICK f : f = [j \in 0 .. k |-> q[lo + j] - lo]
  OBVIOUS
<1>6. f \in [0 .. k -> 0 .. m - 1]
  BY <1>4, <1>5
<1>7. \A a, b \in 0 .. k : f[a] = f[b] => a = b
  <2> SUFFICES ASSUME NEW a \in 0 .. k, NEW b \in 0 .. k, f[a] = f[b] PROVE a = b
    OBVIOUS
  <2>1. q[lo + a] - lo = q[lo + b] - lo
    BY <1>5
  <2>2. q[lo + a] = q[lo + b]
    <3>1. q[lo + a] \in Nat /\ q[lo + b] \in Nat
      <4>1. q[lo + a] \in Piece(lo, n) /\ q[lo + b] \in Piece(lo, n)
        BY <1>p
      <4>2. \A x \in Piece(lo, n) : x \in Nat
        BY DEF Piece
      <4> QED
        BY <4>1, <4>2
    <3> QED
      BY <2>1, <3>1
  <2>3. lo + a = lo + b
    BY <1>1, <1>2, <2>2
  <2> QED
    BY <2>3
<1>8. IsFiniteSet(0 .. m - 1) /\ Cardinality(0 .. m - 1) = m /\ Cardinality(0 .. k) = k + 1
  <2>1. PICK z, l \in Int : z = 0 /\ l = m - 1
    OBVIOUS
  <2>2. IsFiniteSet(z .. l) /\ Cardinality(z .. l) = IF z > l THEN 0 ELSE l - z + 1
    BY <2>1, FS_Interval
  <2>3. k \in Int /\ z \in Int
    BY <2>1
  <2>4. Cardinality(z .. k) = IF z > k THEN 0 ELSE k - z + 1
    BY <2>3, FS_Interval
  <2> QED
    BY <2>1, <2>2, <2>4
<1>9. Cardinality(0 .. k) <= Cardinality(0 .. m - 1)
  <2>1. PICK A, B : A = 0 .. k /\ B = 0 .. m - 1
    OBVIOUS
  <2>2. f \in [A -> B] /\ IsFiniteSet(B) /\ \A a, b \in A : f[a] = f[b] => a = b
    BY <1>6, <1>7, <1>8, <2>1
  <2>3. Cardinality(A) <= Cardinality(B)
    BY <2>2, OneToOne
  <2> QED
    BY <2>1, <2>3
<1> QED
  BY <1>8, <1>9

\* Different live numbers in order are at least as large as their places.
LEMMA AtLeastPlace ==
  ASSUME NEW N \in Numbers, N < DUMMY_FLOW, NEW E, NEW lo \in Nat, NEW n \in Nat,
         \A k \in 0 .. n - 1 : E[lo + k].id \in Ids(N), Rising(E, lo, n), Once(E, Piece(lo, n)), NEW k \in 0 .. n - 1
  PROVE  E[lo + k].id = DUMMY_FLOW \/ k <= E[lo + k].id
<1>1. PICK f : f = [j \in 0 .. n - 1 |-> E[lo + j].id]
  OBVIOUS
<1>2. \A j \in 0 .. n - 1 : f[j] = E[lo + j].id /\ f[j] \in Ids(N)
  BY <1>1
<1>3. \A j, l \in 0 .. n - 1 : (j <= l => f[j] <= f[l]) /\ (f[j] = f[l] /\ f[j] # DUMMY_FLOW => j = l)
  <2> TAKE j, l \in 0 .. n - 1
  <2>1. lo + j \in Piece(lo, n) /\ lo + l \in Piece(lo, n)
    BY DEF Piece
  <2>2. f[j] = f[l] /\ f[j] # DUMMY_FLOW => lo + j = lo + l
    BY <1>2, <2>1 DEF Once
  <2>3. j <= l => f[j] <= f[l]
    BY <1>2 DEF Rising
  <2> QED
    BY <2>2, <2>3
<1> DEFINE T == {j \in 0 .. n - 1 : f[j] = DUMMY_FLOW \/ j <= f[j]}
<1>4. 0 \in T
  BY <1>2, IdFacts
<1>5. ASSUME NEW j \in 1 .. n - 1, j - 1 \in T PROVE j \in T
  <2>1. f[j - 1] <= f[j] /\ f[j - 1] \in Ids(N) /\ f[j] \in Ids(N) /\ j \in 0 .. n - 1
    BY <1>2, <1>3
  <2>2. CASE f[j] = DUMMY_FLOW
    BY <2>1, <2>2
  <2>3. CASE f[j] # DUMMY_FLOW
    <3>1. f[j - 1] # DUMMY_FLOW
      BY <2>1, <2>3, IdFacts
    <3>2. f[j - 1] # f[j]
      BY <1>3, <2>3
    <3>3. j - 1 <= f[j - 1]
      BY <1>5, <3>1
    <3> QED
      BY <2>1, <3>2, <3>3, IdFacts
  <2> QED
    BY <2>2, <2>3
<1>6. 0 .. n - 1 \subseteq T
  <2>1. n - 1 \in Nat
    OBVIOUS
  <2> HIDE DEF T
  <2> QED
    BY <1>4, <1>5, <2>1, LoopKeeps
<1> QED
  BY <1>2, <1>6
--------------------------------------------------------------------------------
(* A scan of the n blocks from lo on.                                        *)

\* At position p: the blocks from p on are in order, those before p that are
\* not dummies are below block p and no two of them alike, and a block t that
\* is still held has the number of block p.
Scanning(E, lo, n, p, c, t) ==
  /\ p \in 0 .. n - 1 /\ c \in BOOLEAN
  /\ \A j, k \in p .. n - 1 : j <= k => E[lo + j].id <= E[lo + k].id
  /\ \A k \in 0 .. p - 1 : E[lo + k].id = DUMMY_FLOW \/ E[lo + k].id < E[lo + p].id
  /\ \A j, k \in 0 .. p - 1 : E[lo + j].id = E[lo + k].id /\ E[lo + j].id # DUMMY_FLOW => j = k
  /\ ~c => t.id = E[lo + p].id

\* The block that a run has left to the next one.
Held(c, t) == IF c THEN {} ELSE {t}

\* y is block x, with t folded into it unless x begins a run.
Folded(x, t, c, y, R) ==
  /\ y.id = x.id
  /\ c => y = x
  /\ ~c => \A r \in 0 .. R - 1 : /\ x.data[r] <= y.data[r] /\ t.data[r] <= y.data[r]
                                 /\ y.data[r] = x.data[r] \/ y.data[r] = t.data[r]

\* A turn puts y, or a dummy if the run goes on, in the place of block `at`.
Turned(E, S, at, y, ends, F) ==
  /\ at \in S
  /\ F = [E EXCEPT ![at] = IF ends THEN y ELSE [y EXCEPT !.id = DUMMY_FLOW]]

LEMMA TurnedIs ==
  ASSUME NEW N \in Numbers, NEW R, NEW S, NEW E \in [S -> BlocksOf(N, R)], NEW at, NEW y \in BlocksOf(N, R),
         NEW ends \in BOOLEAN, NEW F, Turned(E, S, at, y, ends, F)
  PROVE  /\ F \in [S -> BlocksOf(N, R)] /\ at \in S
         /\ \A k \in S : k # at => F[k] = E[k]
         /\ ends => F[at] = y
         /\ ~ends => F[at].id = DUMMY_FLOW
<1> DEFINE out == IF ends THEN y ELSE [y EXCEPT !.id = DUMMY_FLOW]
<1>1. out \in BlocksOf(N, R) /\ (ends => out = y) /\ (~ends => out.id = DUMMY_FLOW)
  BY DEF BlocksOf, Ids
<1>2. at \in S /\ F = [E EXCEPT ![at] = out]
  BY DEF Turned
<1> HIDE DEF out
<1> QED
  BY <1>1, <1>2

LEMMA TurnScans ==
  ASSUME NEW N \in Numbers, N < DUMMY_FLOW, NEW R, NEW S, NEW E \in [S -> BlocksOf(N, R)],
         NEW lo \in Nat, NEW n \in Nat, Piece(lo, n) \subseteq S, NEW p \in 0 .. n - 2, NEW c, NEW t,
         Scanning(E, lo, n, p, c, t), NEW y \in BlocksOf(N, R), y.id = E[lo + p].id,
         NEW ends \in BOOLEAN, ends <=> E[lo + (p + 1)].id > y.id,
         NEW F, Turned(E, S, lo + p, y, ends, F)
  PROVE  Scanning(F, lo, n, p + 1, ends, y)
<1>1. /\ \A k \in S : k # lo + p => F[k] = E[k]
      /\ ends => F[lo + p] = y
      /\ ~ends => F[lo + p].id = DUMMY_FLOW
  BY TurnedIs
<1>2. PICK f : f = [k \in 0 .. n - 1 |-> E[lo + k].id]
  OBVIOUS
<1>3. PICK g : g = [k \in 0 .. n - 1 |-> F[lo + k].id]
  OBVIOUS
<1>4. \A k \in 0 .. n - 1 : lo + k \in S /\ f[k] = E[lo + k].id /\ g[k] = F[lo + k].id
  BY <1>2, <1>3 DEF Piece
<1>5. \A k \in 0 .. n - 1 : f[k] \in Nat /\ f[k] <= DUMMY_FLOW
  <2> TAKE k \in 0 .. n - 1
  <2>1. E[lo + k] \in BlocksOf(N, R)
    BY <1>4
  <2>2. E[lo + k].id \in Ids(N)
    BY <2>1 DEF BlocksOf
  <2> QED
    BY <1>4, <2>2, IdFacts
<1>6. p \in 0 .. n - 1 /\ p + 1 \in 0 .. n - 1
  OBVIOUS
<1>7. \A k \in 0 .. n - 1 : k # p => g[k] = f[k]
  BY <1>1, <1>4
<1>8. /\ ends <=> f[p + 1] > f[p]
      /\ ends => g[p] = f[p]
      /\ ~ends => g[p] = DUMMY_FLOW
      /\ y.id = f[p]
  BY <1>1, <1>4, <1>6
<1>9. /\ \A j, k \in p .. n - 1 : j <= k => f[j] <= f[k]
      /\ \A k \in 0 .. p - 1 : f[k] = DUMMY_FLOW \/ f[k] < f[p]
      /\ \A j, k \in 0 .. p - 1 : f[j] = f[k] /\ f[j] # DUMMY_FLOW => j = k
  <2>1. /\ \A j, k \in p .. n - 1 : j <= k => E[lo + j].id <= E[lo + k].id
        /\ \A k \in 0 .. p - 1 : E[lo + k].id = DUMMY_FLOW \/ E[lo + k].id < E[lo + p].id
        /\ \A j, k \in 0 .. p - 1 : E[lo + j].id = E[lo + k].id /\ E[lo + j].id # DUMMY_FLOW => j = k
    BY DEF Scanning
  <2>2. (\A k \in p .. n - 1 : k \in 0 .. n - 1) /\ (\A k \in 0 .. p - 1 : k \in 0 .. n - 1)
    OBVIOUS
  <2> QED
    BY <1>4, <1>6, <2>1, <2>2
<1>10. \A j, k \in p + 1 .. n - 1 : j <= k => g[j] <= g[k]
  BY <1>7, <1>9
<1>11. f[p] <= f[p + 1] /\ g[p + 1] = f[p + 1]
  BY <1>6, <1>7, <1>9
<1>12. \A k \in 0 .. p : g[k] = DUMMY_FLOW \/ g[k] < g[p + 1]
  <2> TAKE k \in 0 .. p
  <2>1. CASE k = p
    BY <2>1, <1>5, <1>6, <1>8, <1>11
  <2>2. CASE k # p
    <3>1. k \in 0 .. p - 1 /\ k \in 0 .. n - 1 /\ g[k] = f[k]
      BY <2>2, <1>7
    <3>2. f[k] = DUMMY_FLOW \/ f[k] < f[p]
      BY <3>1, <1>9
    <3> QED
      BY <1>5, <1>6, <1>11, <3>1, <3>2
  <2> QED
    BY <2>1, <2>2
<1>13. \A j, k \in 0 .. p : g[j] = g[k] /\ g[j] # DUMMY_FLOW => j = k
  <2>1. ASSUME NEW k \in 0 .. p - 1 PROVE g[k] = f[k] /\ (g[k] # DUMMY_FLOW => g[k] # g[p])
    <3>1. k \in 0 .. n - 1 /\ g[k] = f[k] /\ f[k] \in Nat /\ f[p] \in Nat
      BY <1>5, <1>6, <1>7
    <3>2. f[k] = DUMMY_FLOW \/ f[k] < f[p]
      BY <1>9
    <3> QED
      BY <1>8, <3>1, <3>2
  <2>2. \A k \in 0 .. p : k = p \/ k \in 0 .. p - 1
    OBVIOUS
  <2> QED
    BY <1>9, <2>1, <2>2
<1>14. ~ends => y.id = g[p + 1]
  BY <1>5, <1>6, <1>8, <1>11
<1>15. (p + 1) - 1 = p /\ (\A k \in 0 .. p : k \in 0 .. n - 1) /\ (\A k \in p + 1 .. n - 1 : k \in 0 .. n - 1)
  OBVIOUS
<1> QED
  BY <1>4, <1>6, <1>10, <1>12, <1>13, <1>14, <1>15 DEF Scanning

\* The last turn leaves different numbers behind.
LEMMA TurnLast ==
  ASSUME NEW N \in Numbers, N < DUMMY_FLOW, NEW R, NEW S, NEW E \in [S -> BlocksOf(N, R)],
         NEW lo \in Nat, NEW n \in Nat, Piece(lo, n) \subseteq S, NEW p, p = n - 1, NEW c, NEW t,
         Scanning(E, lo, n, p, c, t), NEW y \in BlocksOf(N, R), y.id = E[lo + p].id,
         NEW F, Turned(E, S, lo + p, y, TRUE, F)
  PROVE  Once(F, Piece(lo, n))
<1>1. F[lo + p] = y /\ \A k \in S : k # lo + p => F[k] = E[k]
  <2>1. PICK e \in BOOLEAN : e = TRUE
    OBVIOUS
  <2>2. Turned(E, S, lo + p, y, e, F)
    BY <2>1
  <2>3. PICK at : at = lo + p
    OBVIOUS
  <2>4. /\ \A k \in S : k # at => F[k] = E[k]
        /\ e => F[at] = y
    BY <2>2, <2>3, TurnedIs
  <2> QED
    BY <2>1, <2>3, <2>4, Zenon
<1>2. p \in 0 .. n - 1
  BY DEF Scanning
<1>3. \A k \in 0 .. n - 1 : lo + k \in S
  BY DEF Piece
<1>4. \A k \in 0 .. n - 1 : F[lo + k].id = E[lo + k].id /\ E[lo + k].id \in Nat
  <2> TAKE k \in 0 .. n - 1
  <2>1. E[lo + k] \in BlocksOf(N, R)
    BY <1>3
  <2>2. E[lo + k].id \in Ids(N)
    BY <2>1 DEF BlocksOf
  <2> QED
    BY <1>1, <1>3, <2>2, IdFacts
<1>5. \A j, k \in 0 .. n - 1 : F[lo + j].id = F[lo + k].id /\ F[lo + j].id # DUMMY_FLOW => j = k
  <2> SUFFICES ASSUME NEW j \in 0 .. n - 1, NEW k \in 0 .. n - 1, E[lo + j].id = E[lo + k].id, E[lo + j].id # DUMMY_FLOW
               PROVE  j = k
    BY <1>4
  <2>1. \A l \in 0 .. n - 1 : l = p \/ l \in 0 .. p - 1
    OBVIOUS
  <2>2. \A l \in 0 .. p - 1 : E[lo + l].id = DUMMY_FLOW \/ E[lo + l].id < E[lo + p].id
    BY DEF Scanning
  <2>3. \A l, m \in 0 .. p - 1 : E[lo + l].id = E[lo + m].id /\ E[lo + l].id # DUMMY_FLOW => l = m
    BY DEF Scanning
  <2>4. CASE j = p
    BY <1>2, <1>4, <2>1, <2>2, <2>4
  <2>5. CASE k = p
    BY <1>2, <1>4, <2>1, <2>2, <2>5
  <2>6. CASE j \in 0 .. p - 1 /\ k \in 0 .. p - 1
    BY <2>3, <2>6
  <2> QED
    BY <2>1, <2>4, <2>5, <2>6
<1>6. \A k \in Piece(lo, n) : k - lo \in 0 .. n - 1 /\ k = lo + (k - lo)
  BY DEF Piece
<1>7. ASSUME NEW k \in Piece(lo, n), NEW l \in Piece(lo, n), F[k].id = F[l].id, F[k].id # DUMMY_FLOW
      PROVE  k = l
  <2>1. PICK a \in 0 .. n - 1 : k = lo + a
    BY <1>6
  <2>2. PICK b \in 0 .. n - 1 : l = lo + b
    BY <1>6
  <2>3. a = b
    BY <1>5, <1>7, <2>1, <2>2
  <2> QED
    BY <2>1, <2>2, <2>3
<1> QED
  BY <1>7 DEF Once

\* A turn keeps what the blocks hold, that of the held one counted.
LEMMA TurnMerges ==
  ASSUME NEW N \in Numbers, N < DUMMY_FLOW, NEW R, NEW W, NEW S, NEW E \in [S -> BlocksOf(N, R)], NEW at, NEW c \in BOOLEAN,
         NEW t, ~c => t.id = E[at].id, NEW y \in BlocksOf(N, R), NEW ends \in BOOLEAN, NEW F,
         Folded(E[at], t, c, y, R), \A r \in 0 .. R - 1 : t.data[r] \in Nat,
         Turned(E, S, at, y, ends, F),
         Merges(Among(E) \cup Held(c, t), N, R, W)
  PROVE  Merges(Among(F) \cup Held(ends, y), N, R, W)
<1>1. /\ F \in [S -> BlocksOf(N, R)] /\ at \in S
      /\ \A k \in S : k # at => F[k] = E[k]
      /\ ends => F[at] = y
      /\ ~ends => F[at].id = DUMMY_FLOW
  BY TurnedIs
<1>2. PICK A, B : A = Among(E) \cup Held(c, t) /\ B = Among(F) \cup Held(ends, y)
  OBVIOUS
<1>3. \A k \in S : k # at => E[k] \in A /\ E[k] \in B
  BY <1>1, <1>2 DEF Among
<1>4. E[at] \in A /\ (~c => t \in A) /\ y \in B
  BY <1>1, <1>2 DEF Among, Held
<1>5. \A x \in A : (\E k \in S : k # at /\ x = E[k]) \/ x = E[at] \/ (~c /\ x = t)
  BY <1>2 DEF Among, Held
<1>6. \A x \in B : (\E k \in S : k # at /\ x = E[k]) \/ x = y \/ x.id = DUMMY_FLOW
  BY <1>1, <1>2 DEF Among, Held
<1> SUFFICES ASSUME NEW b \in 0 .. N - 1, NEW r \in 0 .. R - 1 PROVE Top(B, b, r, W[b * R + r])
  BY <1>2 DEF Merges
<1>7. PICK v : v = W[b * R + r]
  OBVIOUS
<1>8. Top(A, b, r, v)
  BY <1>2, <1>7 DEF Merges
<1>9. b # DUMMY_FLOW
  BY IdFacts DEF Numbers
<1>10. y.data[r] \in Nat /\ E[at].data[r] \in Nat /\ t.data[r] \in Nat
  <2>1. \A x \in BlocksOf(N, R) : x.data[r] \in Nat
    <3>1. MaxCount \in Nat
      BY ValueAssumption
    <3>2. \A x \in BlocksOf(N, R) : x.data[r] \in 0 .. MaxCount
      BY DEF BlocksOf
    <3> QED
      BY <3>1, <3>2
  <2> QED
    BY <1>1, <2>1
<1>11. \A x \in A : x.id = b => x.data[r] <= v
  BY <1>8 DEF Top
<1>12. y.id = b => y.data[r] <= v
  <2> SUFFICES ASSUME y.id = b PROVE y.data[r] <= v
    OBVIOUS
  <2>1. E[at].id = b /\ (~c => t.id = b)
    BY DEF Folded
  <2>2. y.data[r] = E[at].data[r] \/ (~c /\ y.data[r] = t.data[r])
    BY DEF Folded
  <2> QED
    BY <1>4, <1>11, <2>1, <2>2
<1>13. \A x \in B : x.id = b => x.data[r] <= v
  BY <1>3, <1>6, <1>9, <1>11, <1>12
<1>14. PICK x \in A : x.id = b /\ x.data[r] = v
  BY <1>8 DEF Top
<1>15. \E z \in B : z.id = b /\ z.data[r] = v
  <2>1. CASE \E k \in S : k # at /\ x = E[k]
    BY <1>3, <1>14, <2>1
  <2>2. CASE x = E[at] \/ (~c /\ x = t)
    <3>1. y.id = b
      BY <1>14, <2>2 DEF Folded
    <3>2. v <= y.data[r]
      BY <1>10, <1>14, <2>2 DEF Folded
    <3>3. v \in Nat
      BY <1>10, <1>14, <2>2
    <3>4. y.data[r] = v
      BY <1>10, <1>12, <3>1, <3>2, <3>3
    <3> QED
      BY <1>4, <3>1, <3>4
  <2> QED
    BY <1>5, <2>1, <2>2
<1> QED
  BY <1>7, <1>13, <1>15 DEF Top
--------------------------------------------------------------------------------
(* Counters and blocks: counter b * R + r is record r of block b.            *)

LEMMA BlockOf ==
  ASSUME NEW N \in Numbers, NEW R \in Numbers, NEW c \in 0 .. N * R - 1
  PROVE  c \div R \in 0 .. N - 1 /\ c % R \in 0 .. R - 1 /\ (c \div R) * R + (c % R) = c
<1>1. N \in Nat /\ R \in Nat /\ R > 0 /\ N * R \in Nat /\ c \in Nat /\ c < N * R
  BY DEF Numbers
<1>2. PICK q, s : q = c \div R /\ s = c % R
  OBVIOUS
<1>3. q \in Nat /\ s \in 0 .. R - 1 /\ c = q * R + s
  <2>1. q \in Int /\ s \in 0 .. R - 1 /\ c = R * q + s
    BY <1>1, <1>2
  <2>2. q >= 0
    BY <1>1, <1>2
  <2> QED
    BY <1>1, <2>1, <2>2
<1>4. q < N
  <2> SUFFICES ASSUME N <= q PROVE FALSE
    BY <1>1, <1>3
  <2>1. N * R <= q * R /\ q * R \in Nat
    BY <1>1, <1>3, ProductUp
  <2> QED
    BY <1>1, <1>3, <2>1
<1> QED
  BY <1>1, <1>2, <1>3, <1>4

LEMMA CounterOf ==
  ASSUME NEW N \in Numbers, NEW R \in Numbers, NEW b \in 0 .. N - 1, NEW r \in 0 .. R - 1
  PROVE  b * R + r \in 0 .. N * R - 1 /\ (b * R + r) \div R = b /\ (b * R + r) % R = r
<1>1. N \in Nat /\ R \in Nat /\ R > 0 /\ N * R \in Nat /\ b \in Nat /\ r \in Nat /\ b * R \in Nat
  BY ProductUp DEF Numbers
<1>2. PICK c : c = b * R + r
  OBVIOUS
<1>3. c \in 0 .. N * R - 1
  <2>1. b + 1 \in Nat /\ b + 1 <= N
    BY <1>1
  <2>2. (b + 1) * R <= N * R /\ (b + 1) * R \in Nat
    BY <1>1, <2>1, ProductUp
  <2>3. (b + 1) * R = b * R + R
    BY <1>1
  <2> QED
    BY <1>1, <1>2, <2>2, <2>3
<1>4. PICK q, s : q = c \div R /\ s = c % R
  OBVIOUS
<1>5. q \in 0 .. N - 1 /\ s \in 0 .. R - 1 /\ q * R + s = c
  BY <1>3, <1>4, BlockOf
<1>6. q \in Nat /\ s \in Nat /\ q * R \in Nat
  BY <1>1, <1>5, ProductUp
<1>7. ~ (q < b)
  <2> SUFFICES ASSUME q < b PROVE FALSE
    OBVIOUS
  <2>1. (q + 1) * R <= b * R /\ (q + 1) * R = q * R + R
    BY <1>1, <1>6, ProductUp
  <2> QED
    BY <1>1, <1>2, <1>5, <1>6, <2>1
<1>8. ~ (b < q)
  <2> SUFFICES ASSUME b < q PROVE FALSE
    OBVIOUS
  <2>1. (b + 1) * R <= q * R /\ (b + 1) * R = b * R + R
    BY <1>1, <1>6, ProductUp
  <2> QED
    BY <1>1, <1>2, <1>5, <1>6, <2>1
<1>9. q = b /\ s = r
  <2>1. q = b
    BY <1>1, <1>6, <1>7, <1>8
  <2> QED
    BY <1>1, <1>2, <1>5, <1>6, <2>1
<1> QED
  BY <1>2, <1>3, <1>4, <1>9
--------------------------------------------------------------------------------
(* The call, and what its counters should become.                            *)

Args ==
  /\ call \in Calls
  /\ light \in [Counters -> 0 .. MaxCount]
  /\ pHeavy \in [0 .. numHeavy - 1 -> [cid : Counters, size : Nat]]

LEMMA MaxIs ==
  ASSUME NEW T \in SUBSET Nat, T # {}, NEW m \in Nat, \A x \in T : x <= m
  PROVE  Max(T) \in T /\ \A x \in T : x <= Max(T)
<1>1. PICK g \in T : \A x \in T : x <= g
  BY GreatestNat
<1>2. \E v \in T : \A x \in T : v >= x
  BY <1>1
<1> DEFINE v == CHOOSE v \in T : \A x \in T : v >= x
<1>3. v \in T /\ \A x \in T : v >= x
  BY <1>2
<1>4. v = Max(T)
  BY DEF Max
<1> HIDE DEF v
<1> QED
  BY <1>3, <1>4

LEMMA LargerIs ==
  ASSUME NEW a \in Nat, NEW b \in Nat
  PROVE  /\ Max({a, b}) \in Nat /\ a <= Max({a, b}) /\ b <= Max({a, b})
         /\ Max({a, b}) = a \/ Max({a, b}) = b
<1>1. PICK T : T = {a, b}
  OBVIOUS
<1>2. PICK m \in Nat : \A x \in T : x <= m
  <2>1. a + b \in Nat /\ a <= a + b /\ b <= a + b
    OBVIOUS
  <2> QED
    BY <1>1, <2>1
<1>3. T \in SUBSET Nat /\ T # {}
  BY <1>1
<1>4. Max(T) \in T /\ \A x \in T : x <= Max(T)
  BY <1>2, <1>3, MaxIs
<1> QED
  BY <1>1, <1>4

LEMMA CallFacts ==
  ASSUME call \in Calls
  PROVE  /\ numEBlock \in Numbers /\ numEBlock < DUMMY_FLOW /\ nRecord \in Numbers /\ numHeavy \in Numbers
         /\ call.version \in Versions /\ isBEx \in BOOLEAN
         /\ num2Block \in Nat /\ numEBlock <= num2Block /\ numHeavy <= num2Block
         /\ length \in Numbers /\ numEBlock + numHeavy <= length
         /\ isBEx => length = numEBlock + num2Block
<1>1. /\ numEBlock \in Numbers /\ nRecord \in Numbers /\ numHeavy \in Numbers
      /\ call.version \in Versions /\ numEBlock < DUMMY_FLOW
  <2>1. call \in [version : Versions, numEBlock : Numbers, nRecord : Numbers, numHeavy : Numbers]
    BY CallAssumption
  <2>2. call.numEBlock < DUMMY_FLOW
    BY ValueAssumption
  <2> QED
    BY <2>1, <2>2 DEF numEBlock, nRecord, numHeavy
<1>2. PICK a, h \in Nat : a = numEBlock /\ h = numHeavy /\ a > 0 /\ h > 0
  BY <1>1 DEF Numbers
<1>3. num2Block \in Nat /\ a <= num2Block /\ h <= num2Block
  BY <1>2, LargerIs DEF num2Block
<1>4. isBEx => length = numEBlock + num2Block
  BY DEF length
<1>5. length \in Numbers /\ a + h <= length
  <2>1. CASE isBEx
    BY <1>2, <1>3, <1>4, <2>1 DEF Numbers
  <2>2. CASE ~isBEx
    <3>1. PICK s \in Nat \ {0} : s = a + h
      BY <1>2
    <3>2. PICK e \in Nat : PowerAbove(s) = Doubled[e] /\ s <= Doubled[e]
      BY PowerIs
    <3>3. length = Doubled[e]
      BY <1>2, <2>2, <3>1, <3>2 DEF length
    <3>4. Doubled[e] \in Nat /\ e < Doubled[e]
      BY DoubledFacts
    <3> QED
      BY <3>1, <3>2, <3>3, <3>4 DEF Numbers
  <2> QED
    BY <2>1, <2>2
<1> QED
  BY <1>1, <1>2, <1>3, <1>4, <1>5 DEF isBEx

LEMMA CapIs ==
  ASSUME NEW s \in Nat
  PROVE  Cap(s) \in 0 .. MaxCount
BY ValueAssumption DEF Cap

\* v is the largest of counter c and the first m sizes for it.
Most(c, m, v) ==
  /\ v \in 0 .. MaxCount /\ light[c] <= v
  /\ \A h \in 0 .. m - 1 : pHeavy[h].cid = c => Cap(pHeavy[h].size) <= v
  /\ v = light[c] \/ \E h \in 0 .. m - 1 : pHeavy[h].cid = c /\ v = Cap(pHeavy[h].size)

LEMMA WantedMost ==
  ASSUME Args, NEW c \in Counters
  PROVE  Most(c, numHeavy, Wanted(c))
<1> DEFINE H == {h \in DOMAIN pHeavy : pHeavy[h].cid = c}
           T == {light[c]} \cup {Cap(pHeavy[k].size) : k \in H}
<1>1. MaxCount \in Nat
  BY ValueAssumption
<1>2. light[c] \in 0 .. MaxCount /\ DOMAIN pHeavy = 0 .. numHeavy - 1
  BY DEF Args
<1>3. ASSUME NEW h \in 0 .. numHeavy - 1 PROVE Cap(pHeavy[h].size) \in 0 .. MaxCount
  <2>1. pHeavy[h].size \in Nat
    BY DEF Args
  <2> QED
    BY <2>1, CapIs
<1>4. T \in SUBSET (0 .. MaxCount) /\ T # {}
  BY <1>2, <1>3
<1>5. Max(T) \in T /\ \A x \in T : x <= Max(T)
  <2>1. T \in SUBSET Nat /\ \A x \in T : x <= MaxCount
    BY <1>1, <1>4
  <2> HIDE DEF T
  <2> QED
    BY <1>1, <1>4, <2>1, MaxIs
<1>6. Wanted(c) = Max(T)
  BY DEF Wanted
<1>7. PICK v : v = Max(T)
  OBVIOUS
<1>8. v \in 0 .. MaxCount /\ v \in T /\ \A x \in T : x <= v
  BY <1>4, <1>5, <1>7
<1>9. light[c] <= v /\ \A h \in 0 .. numHeavy - 1 : pHeavy[h].cid = c => Cap(pHeavy[h].size) <= v
  BY <1>2, <1>8
<1>10. v = light[c] \/ \E h \in 0 .. numHeavy - 1 : pHeavy[h].cid = c /\ v = Cap(pHeavy[h].size)
  BY <1>2, <1>8
<1> HIDE DEF T
<1> QED
  BY <1>6, <1>7, <1>8, <1>9, <1>10 DEF Most

LEMMA MostOne ==
  ASSUME NEW c, NEW m, NEW v, NEW w, Most(c, m, v), Most(c, m, w)
  PROVE  v = w
<1>1. v \in Nat /\ w \in Nat
  BY ValueAssumption DEF Most
<1>2. v <= w /\ w <= v
  BY DEF Most
<1> QED
  BY <1>1, <1>2

WantedOf == [c \in Counters |-> Wanted(c)]

\* The blocks of the light part come first.
LightFirst(E, N) == \A k \in 0 .. N - 1 : E[k].id = k

\* Fill puts the light blocks, the heavy ones and dummies into the array.
Filled(D, junk) ==
  D = [k \in 0 .. length - 1 |->
         CASE k < numEBlock -> LightBlock(k)
           [] numEBlock <= k /\ k < numEBlock + numHeavy -> HeavyBlock(pHeavy[k - numEBlock])
           [] OTHER -> [NoBlock EXCEPT !.data = [r \in Records |-> junk]]]

LEMMA FilledIs ==
  ASSUME Args, NEW junk \in 0 .. MaxCount, NEW D, Filled(D, junk)
  PROVE  /\ D \in [0 .. length - 1 -> BlocksOf(numEBlock, nRecord)]
         /\ LightFirst(D, numEBlock) /\ EndsAt(D, numEBlock + numHeavy)
         /\ Merges(Among(D), numEBlock, nRecord, WantedOf)
<1>1. PICK N, R, h, M : N = numEBlock /\ R = nRecord /\ h = numHeavy /\ M = length
  OBVIOUS
<1>2. /\ N \in Numbers /\ R \in Numbers /\ h \in Numbers /\ N < DUMMY_FLOW /\ M \in Nat /\ N + h <= M
      /\ N \in Nat /\ N > 0 /\ h \in Nat /\ MaxCount \in Nat /\ DUMMY_FLOW \in Nat
  BY <1>1, CallFacts, ValueAssumption DEF Args, Numbers
<1>3. Counters = 0 .. N * R - 1 /\ Records = 0 .. R - 1
  BY <1>1 DEF Counters, Records
<1>4. \A k \in 0 .. N - 1 : D[k] = LightBlock(k)
  BY <1>1, <1>2 DEF Filled
<1>5. \A g \in 0 .. h - 1 : N + g \in 0 .. M - 1 /\ D[N + g] = HeavyBlock(pHeavy[g])
  <2> TAKE g \in 0 .. h - 1
  <2>1. PICK k \in 0 .. M - 1 : k = N + g
    BY <1>2
  <2>2. ~ (k < N) /\ N <= k /\ k < N + h /\ k - N = g
    BY <1>2, <2>1
  <2>3. D[k] = HeavyBlock(pHeavy[k - N])
    BY <1>1, <2>2 DEF Filled
  <2> QED
    BY <2>1, <2>2, <2>3
<1>6. \A k \in 0 .. M - 1 : N + h <= k => D[k] = [NoBlock EXCEPT !.data = [r \in Records |-> junk]]
  BY <1>1, <1>2 DEF Filled
<1>7. \A k \in 0 .. M - 1 : N + h <= k => /\ D[k].id = DUMMY_FLOW
                                         /\ D[k] = [id |-> DUMMY_FLOW, data |-> [r \in 0 .. R - 1 |-> junk]]
  BY <1>3, <1>6 DEF NoBlock
<1>8. ASSUME NEW k \in 0 .. N - 1
      PROVE  /\ D[k].id = k /\ D[k] \in BlocksOf(N, R)
             /\ \A r \in 0 .. R - 1 : D[k].data[r] = light[k * R + r]
  <2>1. \A r \in 0 .. R - 1 : k * R + r \in Counters
    BY <1>2, <1>3, CounterOf
  <2>2. \A r \in 0 .. R - 1 : light[k * R + r] \in 0 .. MaxCount
    BY <2>1 DEF Args
  <2>3. D[k] = [id |-> k, data |-> [r \in 0 .. R - 1 |-> light[k * R + r]]]
    BY <1>1, <1>3, <1>4 DEF LightBlock
  <2>4. [r \in 0 .. R - 1 |-> light[k * R + r]] \in [0 .. R - 1 -> 0 .. MaxCount]
    BY <2>2
  <2> QED
    BY <2>3, <2>4 DEF BlocksOf, Ids
<1>9. ASSUME NEW g \in 0 .. h - 1
      PROVE  /\ D[N + g].id = pHeavy[g].cid \div R /\ D[N + g] \in BlocksOf(N, R)
             /\ pHeavy[g].cid \in 0 .. N * R - 1
             /\ \A r \in 0 .. R - 1 :
                  D[N + g].data[r] = IF r = pHeavy[g].cid % R THEN Cap(pHeavy[g].size) ELSE 0
  <2>1. pHeavy[g].cid \in 0 .. N * R - 1 /\ pHeavy[g].size \in Nat
    BY <1>1, <1>3 DEF Args
  <2>2. PICK id, s : id = pHeavy[g].cid \div R /\ s = Cap(pHeavy[g].size)
    OBVIOUS
  <2>3. id \in 0 .. N - 1 /\ s \in 0 .. MaxCount
    <3>1. PICK a : a = pHeavy[g].cid
      OBVIOUS
    <3>2. a \in 0 .. N * R - 1
      BY <2>1, <3>1
    <3>3. a \div R \in 0 .. N - 1
      BY <1>2, <3>2, BlockOf
    <3> QED
      BY <2>1, <2>2, <3>1, <3>3, CapIs
  <2>4. D[N + g] = [id |-> id, data |-> [r \in 0 .. R - 1 |-> IF r = pHeavy[g].cid % R THEN s ELSE 0]]
    BY <1>1, <1>3, <1>5, <2>2 DEF HeavyBlock
  <2>5. [r \in 0 .. R - 1 |-> IF r = pHeavy[g].cid % R THEN s ELSE 0] \in [0 .. R - 1 -> 0 .. MaxCount]
    BY <1>2, <2>3
  <2> QED
    BY <2>1, <2>2, <2>3, <2>4, <2>5 DEF BlocksOf, Ids
<1>10. \A k \in 0 .. M - 1 : k \in 0 .. N - 1 \/ (\E g \in 0 .. h - 1 : k = N + g) \/ N + h <= k
  <2> SUFFICES ASSUME NEW k \in 0 .. M - 1, N <= k, k < N + h PROVE \E g \in 0 .. h - 1 : k = N + g
    BY <1>2
  <2>1. k - N \in 0 .. h - 1 /\ k = N + (k - N)
    BY <1>2
  <2> QED
    BY <2>1
<1>11. D \in [0 .. M - 1 -> BlocksOf(N, R)]
  <2>1. DOMAIN D = 0 .. M - 1 /\ D = [k \in 0 .. M - 1 |-> D[k]]
    BY <1>1 DEF Filled
  <2>2. ASSUME NEW k \in 0 .. M - 1, N + h <= k PROVE D[k] \in BlocksOf(N, R)
    BY <1>7, <2>2 DEF BlocksOf, Ids
  <2> QED
    BY <1>8, <1>9, <1>10, <2>1, <2>2
<1>12. LightFirst(D, N) /\ EndsAt(D, N + h)
  BY <1>7, <1>8, <1>11 DEF LightFirst, EndsAt
<1>13. \A x \in Among(D) : \E k \in 0 .. M - 1 : x = D[k]
  BY <1>11 DEF Among
<1>14. \A k \in 0 .. M - 1 : D[k] \in Among(D)
  BY <1>11 DEF Among
<1>15. ASSUME NEW b \in 0 .. N - 1, NEW r \in 0 .. R - 1 PROVE Top(Among(D), b, r, WantedOf[b * R + r])
  <2>1. PICK c : c = b * R + r
    OBVIOUS
  <2>2. c \in 0 .. N * R - 1 /\ c \div R = b /\ c % R = r
    BY <1>2, <2>1, CounterOf
  <2>3. PICK v : v = Wanted(c)
    OBVIOUS
  <2>4. WantedOf[c] = v /\ Most(c, h, v)
    BY <1>1, <1>3, <2>2, <2>3, WantedMost DEF WantedOf
  <2>5. v \in Nat /\ b # DUMMY_FLOW
    BY <1>2, <2>4 DEF Most
  <2>6. ASSUME NEW x \in Among(D), x.id = b PROVE x.data[r] <= v
    <3>1. PICK k \in 0 .. M - 1 : x = D[k]
      BY <1>13
    <3>2. CASE k \in 0 .. N - 1
      <4>1. k = b
        BY <1>8, <2>6, <3>1, <3>2
      <4> QED
        BY <1>8, <2>1, <2>4, <3>1, <4>1 DEF Most
    <3>3. CASE \E g \in 0 .. h - 1 : k = N + g
      <4>1. PICK g \in 0 .. h - 1 : k = N + g
        BY <3>3
      <4>2. PICK a : a = pHeavy[g].cid
        OBVIOUS
      <4>3. a \in 0 .. N * R - 1 /\ a \div R = b
        BY <1>9, <2>6, <3>1, <4>1, <4>2
      <4>4. CASE r = a % R
        <5>1. (a \div R) * R + (a % R) = a
          BY <1>2, <4>3, BlockOf
        <5>2. a = c
          BY <2>1, <4>3, <4>4, <5>1
        <5> QED
          BY <1>9, <2>4, <3>1, <4>1, <4>2, <4>4, <5>2 DEF Most
      <4>5. CASE r # a % R
        BY <1>9, <2>5, <3>1, <4>1, <4>2, <4>5
      <4> QED
        BY <4>4, <4>5
    <3>4. CASE N + h <= k
      BY <1>7, <2>5, <2>6, <3>1, <3>4
    <3> QED
      BY <1>10, <3>2, <3>3, <3>4
  <2>7. \E x \in Among(D) : x.id = b /\ x.data[r] = v
    <3>1. CASE v = light[c]
      <4>1. b \in 0 .. M - 1
        BY <1>2
      <4> QED
        BY <1>8, <1>14, <2>1, <3>1, <4>1
    <3>2. CASE \E g \in 0 .. h - 1 : pHeavy[g].cid = c /\ v = Cap(pHeavy[g].size)
      <4>1. PICK g \in 0 .. h - 1 : pHeavy[g].cid = c /\ v = Cap(pHeavy[g].size)
        BY <3>2
      <4>2. D[N + g].id = b /\ D[N + g].data[r] = v
        BY <1>9, <2>2, <4>1
      <4>3. N + g \in 0 .. M - 1
        BY <1>5
      <4> QED
        BY <1>14, <4>2, <4>3
    <3> QED
      BY <2>4, <3>1, <3>2 DEF Most
  <2> QED
    BY <2>1, <2>4, <2>6, <2>7 DEF Top
<1> QED
  BY <1>1, <1>11, <1>12, <1>15 DEF Merges

\* Absorb folds what is held into the block.
LEMMA AbsorbFolds ==
  ASSUME NEW N \in Numbers, N < DUMMY_FLOW, NEW R, R = nRecord, NEW x \in BlocksOf(N, R), tmpB \in BlocksOf(N, R),
         ~cond => tmpB.id = x.id, NEW y, y = Absorb(x)
  PROVE  y \in BlocksOf(N, R) /\ y.id = x.id /\ Folded(x, tmpB, cond, y, R)
<1>1. /\ x.id \in Ids(N) /\ tmpB.id \in Ids(N)
      /\ x = [id |-> x.id, data |-> x.data]
      /\ x.data \in [0 .. R - 1 -> 0 .. MaxCount] /\ tmpB.data \in [0 .. R - 1 -> 0 .. MaxCount]
  BY DEF BlocksOf
<1>2. CASE cond
  BY <1>2 DEF Absorb, Folded
<1>3. CASE ~cond
  <2>1. PICK id, d : /\ id = IF call.version = "OUpdateCUSketch" THEN x.id ELSE Max({x.id, tmpB.id})
                     /\ d = [r \in 0 .. R - 1 |-> Max({x.data[r], tmpB.data[r]})]
    OBVIOUS
  <2>2. id = x.id
    <3>1. x.id \in Nat /\ tmpB.id = x.id
      BY <1>1, <1>3, IdFacts
    <3>2. Max({x.id, tmpB.id}) = x.id
      BY <3>1, LargerIs
    <3> QED
      BY <2>1, <3>2
  <2>3. ASSUME NEW r \in 0 .. R - 1
        PROVE  /\ d[r] \in 0 .. MaxCount /\ x.data[r] <= d[r] /\ tmpB.data[r] <= d[r]
               /\ d[r] = x.data[r] \/ d[r] = tmpB.data[r]
    <3>1. PICK a, b : a = x.data[r] /\ b = tmpB.data[r]
      OBVIOUS
    <3>2. a \in 0 .. MaxCount /\ b \in 0 .. MaxCount /\ a \in Nat /\ b \in Nat
      <4>1. a \in 0 .. MaxCount /\ b \in 0 .. MaxCount
        BY <1>1, <3>1
      <4>2. MaxCount \in Nat
        BY ValueAssumption
      <4> QED
        BY <4>1, <4>2
    <3>3. a <= Max({a, b}) /\ b <= Max({a, b}) /\ (Max({a, b}) = a \/ Max({a, b}) = b)
      BY <3>2, LargerIs
    <3>4. d[r] = Max({a, b})
      BY <2>1, <3>1
    <3> QED
      BY <3>1, <3>2, <3>3, <3>4
  <2>4. y = [id |-> id, data |-> d]
    BY <1>3, <2>1 DEF Absorb, Records
  <2>5. d \in [0 .. R - 1 -> 0 .. MaxCount]
    BY <2>1, <2>3
  <2>6. y.id = x.id /\ y.data = d /\ y \in BlocksOf(N, R)
    BY <1>1, <2>2, <2>4, <2>5 DEF BlocksOf
  <2> QED
    BY <1>3, <2>3, <2>6 DEF Folded
<1> QED
  BY <1>2, <1>3
--------------------------------------------------------------------------------
(* The stages of an oblivious update, one after the other.  M is the length  *)
(* of the array D, h the number of heavy blocks, W what is wanted.           *)

Holds(N, R, M, W, D, H) == D \in [0 .. M - 1 -> BlocksOf(N, R)] /\ Merges(Among(D) \cup H, N, R, W)

AtSortHeavy(N, R, M, h, W, D) ==
  Holds(N, R, M, W, D, {}) /\ LightFirst(D, N) /\ EndsAt(D, N + h)

AtScanHeavy(N, R, M, h, W, D, p, c, t) ==
  /\ t \in BlocksOf(N, R) /\ Holds(N, R, M, W, D, Held(c, t))
  /\ LightFirst(D, N) /\ EndsAt(D, N + h) /\ Scanning(D, N, h, p, c, t)

AtSortAgain(N, R, M, W, D) ==
  Holds(N, R, M, W, D, {}) /\ LightFirst(D, N) /\ Once(D, Piece(N, M - N))

AtMergeBEx(N, R, M, W, D) ==
  Holds(N, R, M, W, D, {}) /\ LightFirst(D, N) /\ Rising(D, N, M - N) /\ EndsAt(D, 2 * N)

AtSortLong(N, R, M, h, W, D) == Holds(N, R, M, W, D, {}) /\ EndsAt(D, N + h)

AtScan(N, R, M, n, W, D, p, c, t) ==
  /\ t \in BlocksOf(N, R) /\ Holds(N, R, M, W, D, Held(c, t))
  /\ EndsAt(D, n) /\ Scanning(D, 0, n, p, c, t)

AtSort(N, R, M, n, W, D) == Holds(N, R, M, W, D, {}) /\ EndsAt(D, n) /\ Once(D, 0 .. M - 1)

AtWrite(N, R, M, W, D) == Holds(N, R, M, W, D, {}) /\ LightFirst(D, N) /\ Once(D, 0 .. M - 1)

\* The numbers of a call.
Numbered(N, R, M, h) ==
  N \in Numbers /\ N < DUMMY_FLOW /\ R \in Numbers /\ M \in Numbers /\ h \in Numbers /\ N + h <= M

LEMMA NumberedFacts ==
  ASSUME NEW N, NEW R, NEW M, NEW h, Numbered(N, R, M, h)
  PROVE  /\ N \in Nat /\ N > 0 /\ R \in Nat /\ R > 0 /\ M \in Nat /\ M > 0 /\ h \in Nat /\ h > 0 /\ N + h <= M
         /\ N < DUMMY_FLOW /\ DUMMY_FLOW \in Nat /\ N \in Numbers
         /\ IsFiniteSet(0 .. M - 1) /\ (0 .. M - 1) \in SUBSET Nat
<1>1. /\ N \in Nat /\ N > 0 /\ R \in Nat /\ R > 0 /\ M \in Nat /\ M > 0 /\ h \in Nat /\ h > 0 /\ N + h <= M
      /\ N < DUMMY_FLOW /\ DUMMY_FLOW \in Nat /\ N \in Numbers
  BY ValueAssumption DEF Numbered, Numbers
<1>2. IsFiniteSet(0 .. M - 1)
  <2>1. 0 \in Int /\ M - 1 \in Int
    BY <1>1
  <2> QED
    BY <2>1, FS_Interval
<1> QED
  BY <1>1, <1>2

\* E is a rearrangement of the n blocks of L from lo on.
Rearranged(N, R, M, lo, n, L, E) ==
  /\ E \in [0 .. M - 1 -> BlocksOf(N, R)] /\ Among(E) = Among(L)
  /\ ShufflesIn(L, E, 0 .. M - 1, Piece(lo, n))
  /\ \A k \in (0 .. M - 1) \ Piece(lo, n) : E[k] = L[k]
  /\ Once(L, Piece(lo, n)) => Once(E, Piece(lo, n))
  /\ Once(L, 0 .. M - 1) => Once(E, 0 .. M - 1)

\* What a network on a piece makes of the blocks.
LEMMA SortPiece ==
  ASSUME NEW N, NEW R, NEW M, NEW h, Numbered(N, R, M, h), NEW L \in [0 .. M - 1 -> BlocksOf(N, R)],
         NEW lo \in Nat, NEW n \in Nat, Piece(lo, n) \subseteq 0 .. M - 1, NEW net \in Seq(Within(lo, n)),
         NEW E, E = Applied(net, L, "id", TRUE)
  PROVE  /\ Sorts(net, L, 0 .. M - 1, BlocksOf(N, R), "id", TRUE)
         /\ Rearranged(N, R, M, lo, n, L, E)
<1>1. PICK S, T : S = 0 .. M - 1 /\ T = BlocksOf(N, R)
  OBVIOUS
<1>2. S \in SUBSET Nat /\ IsFiniteSet(S) /\ 0 \in S /\ L \in [S -> T] /\ Piece(lo, n) \subseteq S
  BY <1>1, NumberedFacts
<1>3. Works(net, S)
  BY <1>2, WithinWorks
<1>4. \A x \in T : x.id \in Int
  <2>1. \A x \in T : x.id \in Ids(N)
    BY <1>1 DEF BlocksOf
  <2>2. Ids(N) \in SUBSET Nat
    BY IdFacts, NumberedFacts
  <2> QED
    BY <2>1, <2>2
<1>5. Keyed(T, "id") /\ T # {}
  <2>1. Keyed(T, "id")
    BY <1>4 DEF Keyed
  <2>2. L[0] \in T
    BY <1>2
  <2> QED
    BY <2>1, <2>2
<1>6. PICK field, up : field = "id" /\ up = TRUE
  OBVIOUS
<1>7. Sorts(net, L, S, T, field, up) /\ Touches(net, Piece(lo, n))
  <2>1. Touches(net, Piece(lo, n))
    BY WithinTouches
  <2> QED
    BY <1>2, <1>3, <1>5, <1>6, <2>1 DEF Sorts
<1>8. E \in [S -> T] /\ ShufflesIn(L, E, S, Piece(lo, n))
  <2>1. E = Applied(net, L, field, up)
    BY <1>6
  <2>2. PICK A : A = Piece(lo, n)
    OBVIOUS
  <2>3. Applied(net, L, field, up) \in [S -> T] /\ ShufflesIn(L, Applied(net, L, field, up), S, A)
    BY <1>7, <2>2, AppliedShufflesIn
  <2> QED
    BY <2>1, <2>2, <2>3
<1>9. /\ Among(E) = Among(L)
      /\ \A k \in S \ Piece(lo, n) : E[k] = L[k]
      /\ Once(L, Piece(lo, n)) => Once(E, Piece(lo, n))
  <2>1. PICK A \in SUBSET S : A = Piece(lo, n)
    BY <1>2
  <2>2. ShufflesIn(L, E, S, A)
    BY <1>8, <2>1
  <2>3. /\ Among(E) = Among(L)
        /\ \A k \in S \ A : E[k] = L[k]
        /\ Once(L, A) => Once(E, A)
    BY <1>2, <1>8, <2>2, SortKeeps
  <2> QED
    BY <2>1, <2>3
<1>10. Once(L, S) => Once(E, S)
  <2>1. PICK A \in SUBSET S : A = S
    OBVIOUS
  <2>2. ShufflesIn(L, E, S, A)
    BY <1>8, <2>1 DEF ShufflesIn
  <2>3. /\ Among(E) = Among(L)
        /\ \A k \in S \ A : E[k] = L[k]
        /\ Once(L, A) => Once(E, A)
    BY <1>2, <1>8, <2>2, SortKeeps
  <2> QED
    BY <2>1, <2>3
<1> QED
  BY <1>1, <1>6, <1>7, <1>8, <1>9, <1>10 DEF Rearranged

\* In order, as NetProofs states it, is rising.
LEMMA OrderRises ==
  ASSUME NEW N, NEW R, NEW M, NEW h, Numbered(N, R, M, h), NEW E \in [0 .. M - 1 -> BlocksOf(N, R)],
         NEW lo \in Nat, NEW n \in Nat, Piece(lo, n) \subseteq 0 .. M - 1
  PROVE  InOrder(E, lo, n, "id", TRUE) <=> Rising(E, lo, n)
<1>1. \A v : Key(v, TRUE) = v
  BY DEF Key
<1>2. \A k \in 0 .. n - 1 : lo + k \in 0 .. M - 1
  BY DEF Piece
<1>3. \A k \in 0 .. n - 1 : E[lo + k].id \in Int
  <2> TAKE k \in 0 .. n - 1
  <2>1. E[lo + k] \in BlocksOf(N, R)
    BY <1>2
  <2>2. E[lo + k].id \in Ids(N)
    BY <2>1 DEF BlocksOf
  <2> QED
    BY <2>2, IdFacts, NumberedFacts
<1>4. ASSUME InOrder(E, lo, n, "id", TRUE) PROVE Rising(E, lo, n)
  <2>1. PICK field, up : field = "id" /\ up = TRUE
    OBVIOUS
  <2>2. InOrder(E, lo, n, field, up) /\ \A k \in 0 .. n - 1 : Key(E[lo + k][field], up) \in Int
    BY <1>1, <1>3, <1>4, <2>1
  <2>3. ASSUME NEW j \in 0 .. n - 1, NEW k \in 0 .. n - 1, j <= k PROVE E[lo + j].id <= E[lo + k].id
    <3>1. k \in j .. n - 1
      BY <2>3
    <3>2. Key(E[lo + j][field], up) <= Key(E[lo + k][field], up)
      BY <2>2, <3>1, OrderedPairs
    <3>3. E[lo + j][field] <= E[lo + k][field]
      BY <2>1, <3>2 DEF Key
    <3> QED
      BY <2>1, <3>3
  <2> QED
    BY <2>3 DEF Rising
<1>5. ASSUME Rising(E, lo, n) PROVE InOrder(E, lo, n, "id", TRUE)
  <2> SUFFICES ASSUME NEW k \in 0 .. n - 2 PROVE E[lo + k].id <= E[lo + (k + 1)].id
    BY <1>1 DEF InOrder
  <2>1. k \in 0 .. n - 1 /\ k + 1 \in 0 .. n - 1 /\ k <= k + 1
    OBVIOUS
  <2> QED
    BY <1>5, <2>1 DEF Rising
<1> QED
  BY <1>4, <1>5

\* A network that sorts leaves the piece rising.
LEMMA SortRises ==
  ASSUME NEW N, NEW R, NEW M, NEW h, Numbered(N, R, M, h), NEW L \in [0 .. M - 1 -> BlocksOf(N, R)],
         NEW lo \in Nat, NEW n \in Nat, Piece(lo, n) \subseteq 0 .. M - 1, NEW net \in Seq(Within(lo, n)),
         SortedBy(net, lo, n, TRUE), NEW E, E = Applied(net, L, "id", TRUE)
  PROVE  Rising(E, lo, n)
<1>1. Sorts(net, L, 0 .. M - 1, BlocksOf(N, R), "id", TRUE) /\ E \in [0 .. M - 1 -> BlocksOf(N, R)]
  BY SortPiece DEF Rearranged
<1>2. PICK field, up, S, T : field = "id" /\ up = TRUE /\ S = 0 .. M - 1 /\ T = BlocksOf(N, R)
  OBVIOUS
<1>3. Sorts(net, L, S, T, field, up) /\ Piece(lo, n) \subseteq S
  BY <1>1, <1>2
<1>4. InOrder(Applied(net, L, field, up), lo, n, field, up)
  BY <1>3, SortedArray
<1>5. InOrder(E, lo, n, "id", TRUE)
  BY <1>2, <1>4
<1> QED
  BY <1>1, <1>5, OrderRises

LEMMA HeldNone == \A t : Held(TRUE, t) = {}
BY DEF Held

LEMMA ScanStarts ==
  ASSUME NEW E, NEW lo, NEW n \in Nat, n > 0, NEW t, Rising(E, lo, n)
  PROVE  Scanning(E, lo, n, 0, TRUE, t)
<1>1. PICK p, c : p = 0 /\ c = TRUE
  OBVIOUS
<1>2. p \in 0 .. n - 1 /\ c \in BOOLEAN
  BY <1>1
<1>3. \A j, k \in p .. n - 1 : j <= k => E[lo + j].id <= E[lo + k].id
  BY <1>1 DEF Rising
<1>4. \A k : k \notin 0 .. p - 1
  BY <1>1
<1>5. Scanning(E, lo, n, p, c, t)
  BY <1>1, <1>2, <1>3, <1>4 DEF Scanning
<1> QED
  BY <1>1, <1>5

\* After the first sort of the heavy blocks the scan of them may begin.
LEMMA HeavySorted ==
  ASSUME NEW N, NEW R, NEW M, NEW h, Numbered(N, R, M, h), NEW W, NEW D, AtSortHeavy(N, R, M, h, W, D),
         NEW net \in Seq(Within(N, M - N)), SortedBy(net, N, M - N, TRUE),
         NEW E, E = Applied(net, D, "id", TRUE), NEW t \in BlocksOf(N, R)
  PROVE  AtScanHeavy(N, R, M, h, W, E, 0, TRUE, t)
<1>1. /\ D \in [0 .. M - 1 -> BlocksOf(N, R)] /\ Merges(Among(D) \cup {}, N, R, W)
      /\ LightFirst(D, N) /\ EndsAt(D, N + h)
  BY DEF AtSortHeavy, Holds
<1>2. PICK n : n = M - N
  OBVIOUS
<1>3. n \in Nat /\ h <= n /\ N \in Nat /\ h \in Nat /\ h > 0 /\ M \in Nat /\ M = N + n /\ N > 0 /\ N \in Numbers /\ N < DUMMY_FLOW
  BY <1>2, NumberedFacts
<1>4. Piece(N, n) \subseteq 0 .. M - 1 /\ net \in Seq(Within(N, n)) /\ SortedBy(net, N, n, TRUE)
  <2>1. Piece(N, n) \subseteq 0 .. M - 1
    BY <1>3 DEF Piece
  <2> QED
    BY <1>2, <2>1, Zenon
<1>5. /\ E \in [0 .. M - 1 -> BlocksOf(N, R)] /\ Among(E) = Among(D)
      /\ ShufflesIn(D, E, 0 .. M - 1, Piece(N, n))
      /\ \A k \in (0 .. M - 1) \ Piece(N, n) : E[k] = D[k]
  <2>1. Rearranged(N, R, M, N, n, D, E)
    BY <1>1, <1>3, <1>4, SortPiece
  <2> QED
    BY <2>1 DEF Rearranged
<1>6. Rising(E, N, n)
  BY <1>1, <1>3, <1>4, SortRises
<1>7. Holds(N, R, M, W, E, Held(TRUE, t))
  BY <1>1, <1>5, HeldNone DEF Holds
<1>8. LightFirst(E, N)
  <2>1. \A k \in 0 .. N - 1 : k \in (0 .. M - 1) \ Piece(N, n)
    BY <1>3 DEF Piece
  <2> QED
    BY <1>1, <1>5, <2>1 DEF LightFirst
<1>9. \A k \in h .. n - 1 : E[N + k].id = DUMMY_FLOW
  <2>1. PICK S : S = 0 .. M - 1
    OBVIOUS
  <2>2. \A k \in S : E[k].id \in Ids(N)
    BY <1>5, <2>1 DEF BlocksOf
  <2>3. \A k \in h .. n - 1 : D[N + k].id = DUMMY_FLOW
    <3> TAKE k \in h .. n - 1
    <3>1. N + k \in 0 .. M - 1 /\ N + h <= N + k
      BY <1>3
    <3> QED
      BY <1>1, <3>1 DEF EndsAt
  <2>4. Piece(N, n) \subseteq S /\ ShufflesIn(D, E, S, Piece(N, n))
    BY <1>4, <1>5, <2>1, Zenon
  <2>5. LiveShuffled(N, S, D, E, N, n, h)
    BY <1>3, <1>6, <2>2, <2>3, <2>4 DEF LiveShuffled
  <2> QED
    BY <2>5, LiveFirst
<1>10. EndsAt(E, N + h)
  <2> SUFFICES ASSUME NEW j \in 0 .. M - 1, N + h <= j PROVE E[j].id = DUMMY_FLOW
    BY <1>5 DEF EndsAt
  <2>1. j - N \in h .. n - 1 /\ j = N + (j - N)
    BY <1>3
  <2> QED
    BY <1>9, <2>1
<1>11. Scanning(E, N, h, 0, TRUE, t)
  <2>1. 0 \in 0 .. h - 1 /\ \A k \in 0 .. h - 1 : k \in 0 .. n - 1
    BY <1>3
  <2>2. Rising(E, N, h)
    BY <1>6, <2>1 DEF Rising
  <2> QED
    BY <1>3, <2>2, ScanStarts
<1> QED
  BY <1>7, <1>8, <1>10, <1>11 DEF AtScanHeavy

\* After the second sort what lies behind as many heavy blocks as there are light
\* ones is dummies: the live ones have different numbers.
LEMMA HeavySortedAgain ==
  ASSUME NEW N, NEW R, NEW M, NEW h, Numbered(N, R, M, h), NEW W, NEW D, AtSortAgain(N, R, M, W, D),
         NEW net \in Seq(Within(N, M - N)), SortedBy(net, N, M - N, TRUE),
         NEW E, E = Applied(net, D, "id", TRUE)
  PROVE  AtMergeBEx(N, R, M, W, E)
<1>1. PICK n : n = M - N
  OBVIOUS
<1>2. /\ D \in [0 .. M - 1 -> BlocksOf(N, R)] /\ Merges(Among(D) \cup {}, N, R, W)
      /\ LightFirst(D, N) /\ Once(D, Piece(N, n))
  BY <1>1 DEF AtSortAgain, Holds
<1>3. n \in Nat /\ N \in Nat /\ M \in Nat /\ M = N + n /\ N \in Numbers /\ N < DUMMY_FLOW
  BY <1>1, NumberedFacts
<1>4. Piece(N, n) \subseteq 0 .. M - 1 /\ net \in Seq(Within(N, n)) /\ SortedBy(net, N, n, TRUE)
  <2>1. Piece(N, n) \subseteq 0 .. M - 1
    BY <1>3 DEF Piece
  <2> QED
    BY <1>1, <2>1, Zenon
<1>5. /\ E \in [0 .. M - 1 -> BlocksOf(N, R)] /\ Among(E) = Among(D)
      /\ ShufflesIn(D, E, 0 .. M - 1, Piece(N, n))
      /\ \A k \in (0 .. M - 1) \ Piece(N, n) : E[k] = D[k]
      /\ Once(D, Piece(N, n)) => Once(E, Piece(N, n))
  <2>1. Rearranged(N, R, M, N, n, D, E)
    BY <1>2, <1>3, <1>4, SortPiece
  <2> QED
    BY <2>1 DEF Rearranged
<1>6. Rising(E, N, n)
  BY <1>2, <1>3, <1>4, SortRises
<1>7. Holds(N, R, M, W, E, {})
  BY <1>2, <1>5 DEF Holds
<1>8. LightFirst(E, N)
  <2>1. \A k \in 0 .. N - 1 : k \in (0 .. M - 1) \ Piece(N, n)
    BY <1>3 DEF Piece
  <2> QED
    BY <1>2, <1>5, <2>1 DEF LightFirst
<1>9. Once(E, Piece(N, n))
  BY <1>2, <1>5
<1>10. \A k \in 0 .. n - 1 : E[N + k].id \in Ids(N)
  <2> TAKE k \in 0 .. n - 1
  <2>1. N + k \in 0 .. M - 1
    BY <1>3
  <2> QED
    BY <1>5, <2>1 DEF BlocksOf
<1>11. EndsAt(E, 2 * N)
  <2> SUFFICES ASSUME NEW j \in 0 .. M - 1, 2 * N <= j, E[j].id # DUMMY_FLOW PROVE FALSE
    BY <1>5 DEF EndsAt
  <2>1. PICK k \in 0 .. n - 1 : j = N + k /\ N <= k
    <3>1. j - N \in 0 .. n - 1 /\ j = N + (j - N) /\ N <= j - N
      BY <1>3
    <3> QED
      BY <3>1
  <2>2. E[N + k].id = DUMMY_FLOW \/ k <= E[N + k].id
    BY <1>3, <1>6, <1>9, <1>10, AtLeastPlace
  <2>3. PICK b : b = E[N + k].id
    OBVIOUS
  <2>4. b \in Ids(N) /\ b # DUMMY_FLOW
    BY <1>10, <2>1, <2>3
  <2>5. b \in Nat /\ b < N
    BY <1>3, <2>4, IdFacts
  <2>6. k <= b
    BY <2>2, <2>3, <2>4, Zenon
  <2> QED
    BY <1>3, <2>1, <2>5, <2>6
<1> QED
  BY <1>1, <1>6, <1>7, <1>8, <1>11 DEF AtMergeBEx

\* The merge of BEx leaves all blocks in order, where the number of the light
\* blocks is a power of two.
LEMMA MergeLeads ==
  ASSUME NEW N, NEW R, NEW M, NEW h, Numbered(N, R, M, h), 2 * N <= M, testPo2(N), NEW W, NEW D, AtMergeBEx(N, R, M, W, D),
         NEW E, E = Applied(oddEvenMerge[<<0, 2 * N, 1>>], D, "id", TRUE), NEW t \in BlocksOf(N, R)
  PROVE  AtScan(N, R, M, 2 * N, W, E, 0, TRUE, t)
<1>1. PICK net, lo, n : net = oddEvenMerge[<<0, 2 * N, 1>>] /\ lo = 0 /\ n = 2 * N
  OBVIOUS
<1>2. /\ D \in [0 .. M - 1 -> BlocksOf(N, R)] /\ Merges(Among(D) \cup {}, N, R, W)
      /\ LightFirst(D, N) /\ Rising(D, N, M - N) /\ EndsAt(D, 2 * N)
  BY DEF AtMergeBEx, Holds
<1>3. N \in Nat /\ N # 0 /\ N > 0 /\ N \in Nat \ {0} /\ M \in Nat /\ n \in Nat /\ lo \in Nat /\ n <= M
  BY <1>1, NumberedFacts
<1>4. PICK e \in Nat : N = Doubled[e]
  BY <1>3, PowerIs DEF testPo2
<1>5. net \in Seq(Within(lo, n))
  <2>1. PICK r \in Nat \ {0} : r = 1
    OBVIOUS
  <2>2. LET k == r * (2 * Doubled[e])
        IN oddEvenMerge[<<lo, k, r>>] \in Seq(Within(lo, k - r + 1)) /\ k \in Nat /\ k > r
    BY <1>3, oddEvenMergeIn
  <2>3. r * (2 * Doubled[e]) = n /\ n - r + 1 = n
    BY <1>1, <1>3, <1>4, <2>1
  <2> QED
    BY <1>1, <2>1, <2>2, <2>3
<1>6. Piece(lo, n) \subseteq 0 .. M - 1
  BY <1>1, <1>3 DEF Piece
<1>7. E = Applied(net, D, "id", TRUE)
  BY <1>1
<1>8. /\ Sorts(net, D, 0 .. M - 1, BlocksOf(N, R), "id", TRUE)
      /\ E \in [0 .. M - 1 -> BlocksOf(N, R)] /\ Among(E) = Among(D)
      /\ \A k \in (0 .. M - 1) \ Piece(lo, n) : E[k] = D[k]
  <2>1. /\ Sorts(net, D, 0 .. M - 1, BlocksOf(N, R), "id", TRUE)
        /\ Rearranged(N, R, M, lo, n, D, E)
    BY <1>2, <1>3, <1>5, <1>6, <1>7, SortPiece
  <2> QED
    BY <2>1 DEF Rearranged
<1>9. InOrder(D, lo, N, "id", TRUE) /\ InOrder(D, lo + N, N, "id", TRUE)
  <2>1. PICK a \in Nat : a = lo + N
    BY <1>3
  <2>2. Piece(lo, N) \subseteq 0 .. M - 1 /\ Piece(a, N) \subseteq 0 .. M - 1
    BY <1>1, <1>3, <2>1 DEF Piece
  <2>3. Rising(D, lo, N)
    <3>1. \A k \in 0 .. N - 1 : lo + k = k
      BY <1>1
    <3> QED
      BY <1>2, <3>1 DEF Rising, LightFirst
  <2>4. Rising(D, a, N)
    <3>1. a = N /\ \A k \in 0 .. N - 1 : k \in 0 .. (M - N) - 1
      BY <1>1, <1>3, <2>1
    <3> QED
      BY <1>2, <3>1 DEF Rising
  <2>5. InOrder(D, lo, N, "id", TRUE)
    BY <1>2, <1>3, <2>2, <2>3, OrderRises
  <2>6. InOrder(D, a, N, "id", TRUE)
    BY <1>2, <1>3, <2>2, <2>4, OrderRises
  <2> QED
    BY <2>1, <2>5, <2>6
<1>10. InOrder(E, lo, n, "id", TRUE)
  <2>1. PICK field, up, S, T : field = "id" /\ up = TRUE /\ S = 0 .. M - 1 /\ T = BlocksOf(N, R)
    OBVIOUS
  <2>2. testPo2(2 * N)
    BY <1>3, PowerTwice
  <2>3. Sorts(oddEvenMerge[<<lo, 2 * N, 1>>], D, S, T, field, up) /\ Piece(lo, 2 * N) \subseteq S
    BY <1>1, <1>6, <1>8, <2>1
  <2>4. InOrder(D, lo, N, field, up) /\ InOrder(D, lo + N, N, field, up)
    BY <1>9, <2>1
  <2>5. InOrder(Applied(oddEvenMerge[<<lo, 2 * N, 1>>], D, field, up), lo, 2 * N, field, up)
    BY <1>3, <2>2, <2>3, <2>4, MergedArray
  <2> QED
    BY <1>1, <2>1, <2>5
<1>11. Rising(E, lo, n)
  BY <1>3, <1>6, <1>8, <1>10, OrderRises
<1>12. Holds(N, R, M, W, E, Held(TRUE, t))
  BY <1>2, <1>8, HeldNone DEF Holds
<1>13. EndsAt(E, n)
  <2>1. \A k \in 0 .. M - 1 : n <= k => k \notin Piece(lo, n)
    BY <1>1, <1>3 DEF Piece
  <2> QED
    BY <1>1, <1>2, <1>8, <2>1 DEF EndsAt
<1>14. Scanning(E, lo, n, 0, TRUE, t)
  <2>1. n > 0
    BY <1>1, <1>3
  <2> QED
    BY <1>3, <1>11, <2>1, ScanStarts
<1> QED
  BY <1>1, <1>12, <1>13, <1>14 DEF AtScan

\* The other versions sort the whole array instead.
LEMMA SortLongLeads ==
  ASSUME NEW N, NEW R, NEW M, NEW h, Numbered(N, R, M, h), NEW W, NEW D, AtSortLong(N, R, M, h, W, D),
         NEW net \in Seq(Within(0, M)), SortedBy(net, 0, M, TRUE),
         NEW E, E = Applied(net, D, "id", TRUE), NEW t \in BlocksOf(N, R)
  PROVE  AtScan(N, R, M, N + h, W, E, 0, TRUE, t)
<1>1. PICK lo, m : lo = 0 /\ m = N + h
  OBVIOUS
<1>2. D \in [0 .. M - 1 -> BlocksOf(N, R)] /\ Merges(Among(D) \cup {}, N, R, W) /\ EndsAt(D, m)
  BY <1>1 DEF AtSortLong, Holds
<1>3. lo \in Nat /\ m \in Nat /\ M \in Nat /\ m <= M /\ N \in Numbers /\ N < DUMMY_FLOW /\ m > 0
  BY <1>1, NumberedFacts
<1>4. Piece(lo, M) \subseteq 0 .. M - 1 /\ net \in Seq(Within(lo, M)) /\ SortedBy(net, lo, M, TRUE)
  <2>1. Piece(lo, M) \subseteq 0 .. M - 1
    BY <1>1, <1>3 DEF Piece
  <2> QED
    BY <1>1, <2>1, Zenon
<1>5. /\ E \in [0 .. M - 1 -> BlocksOf(N, R)] /\ Among(E) = Among(D)
      /\ ShufflesIn(D, E, 0 .. M - 1, Piece(lo, M))
  <2>1. Rearranged(N, R, M, lo, M, D, E)
    BY <1>2, <1>3, <1>4, SortPiece
  <2> QED
    BY <2>1 DEF Rearranged
<1>6. Rising(E, lo, M)
  BY <1>2, <1>3, <1>4, SortRises
<1>7. \A k \in m .. M - 1 : E[lo + k].id = DUMMY_FLOW
  <2>1. PICK S : S = 0 .. M - 1
    OBVIOUS
  <2>2. \A k \in S : E[k].id \in Ids(N)
    BY <1>5, <2>1 DEF BlocksOf
  <2>3. \A k \in m .. M - 1 : D[lo + k].id = DUMMY_FLOW
    <3> TAKE k \in m .. M - 1
    <3>1. lo + k \in 0 .. M - 1 /\ m <= lo + k
      BY <1>1, <1>3
    <3> QED
      BY <1>2, <3>1 DEF EndsAt
  <2>4. Piece(lo, M) \subseteq S /\ ShufflesIn(D, E, S, Piece(lo, M))
    BY <1>4, <1>5, <2>1, Zenon
  <2>5. LiveShuffled(N, S, D, E, lo, M, m)
    BY <1>3, <1>6, <2>2, <2>3, <2>4 DEF LiveShuffled
  <2> QED
    BY <2>5, LiveFirst
<1>8. EndsAt(E, m)
  <2> SUFFICES ASSUME NEW j \in 0 .. M - 1, m <= j PROVE E[j].id = DUMMY_FLOW
    BY <1>5 DEF EndsAt
  <2>1. j \in m .. M - 1 /\ j = lo + j
    BY <1>1, <1>3
  <2> QED
    BY <1>7, <2>1
<1>9. Holds(N, R, M, W, E, Held(TRUE, t))
  BY <1>2, <1>5, HeldNone DEF Holds
<1>10. Scanning(E, lo, m, 0, TRUE, t)
  <2>1. 0 \in 0 .. m - 1 /\ \A k \in 0 .. m - 1 : k \in 0 .. M - 1
    BY <1>3
  <2>2. Rising(E, lo, m)
    BY <1>6, <2>1 DEF Rising
  <2> QED
    BY <1>3, <2>2, ScanStarts
<1> QED
  BY <1>1, <1>8, <1>9, <1>10 DEF AtScan

\* A turn of a scan of the n blocks from lo on.
TurnOf(N, R, M, W, D, lo, n, p, c, t, y, ends, F) ==
  /\ lo \in Nat /\ n \in Nat /\ Piece(lo, n) \subseteq 0 .. M - 1
  /\ t \in BlocksOf(N, R) /\ Holds(N, R, M, W, D, Held(c, t)) /\ Scanning(D, lo, n, p, c, t)
  /\ y \in BlocksOf(N, R) /\ Folded(D[lo + p], t, c, y, R) /\ ends \in BOOLEAN
  /\ Turned(D, 0 .. M - 1, lo + p, y, ends, F)

LEMMA TurnHolds ==
  ASSUME NEW N, NEW R, NEW M, NEW h, Numbered(N, R, M, h), NEW W, NEW D, NEW lo, NEW n, NEW p, NEW c, NEW t,
         NEW y, NEW ends, NEW F, TurnOf(N, R, M, W, D, lo, n, p, c, t, y, ends, F)
  PROVE  /\ Holds(N, R, M, W, F, Held(ends, y)) /\ F \in [0 .. M - 1 -> BlocksOf(N, R)]
         /\ \A k \in 0 .. M - 1 : k # lo + p => F[k] = D[k]
         /\ p \in 0 .. n - 1 /\ D \in [0 .. M - 1 -> BlocksOf(N, R)]
<1>1. PICK S, at : S = 0 .. M - 1 /\ at = lo + p
  OBVIOUS
<1>2. /\ D \in [S -> BlocksOf(N, R)] /\ Merges(Among(D) \cup Held(c, t), N, R, W)
      /\ Scanning(D, lo, n, p, c, t) /\ t \in BlocksOf(N, R) /\ y \in BlocksOf(N, R) /\ ends \in BOOLEAN
      /\ Folded(D[at], t, c, y, R) /\ Turned(D, S, at, y, ends, F)
  BY <1>1 DEF TurnOf, Holds
<1>3. N \in Numbers /\ N < DUMMY_FLOW
  BY NumberedFacts
<1>4. p \in 0 .. n - 1 /\ c \in BOOLEAN /\ (~c => t.id = D[at].id)
  BY <1>1, <1>2 DEF Scanning
<1>5. F \in [S -> BlocksOf(N, R)] /\ \A k \in S : k # at => F[k] = D[k]
  BY <1>2, <1>3, TurnedIs
<1>6. \A r \in 0 .. R - 1 : t.data[r] \in Nat
  <2>1. MaxCount \in Nat
    BY ValueAssumption
  <2>2. t.data \in [0 .. R - 1 -> 0 .. MaxCount]
    BY <1>2 DEF BlocksOf
  <2>3. \A r \in 0 .. R - 1 : t.data[r] \in 0 .. MaxCount
    BY <2>2
  <2> QED
    BY <2>1, <2>3
<1>7. Merges(Among(F) \cup Held(ends, y), N, R, W)
  BY <1>2, <1>3, <1>4, <1>6, TurnMerges
<1> QED
  BY <1>1, <1>2, <1>4, <1>5, <1>7 DEF Holds

LEMMA TurnGoesOn ==
  ASSUME NEW N, NEW R, NEW M, NEW h, Numbered(N, R, M, h), NEW W, NEW D, NEW lo, NEW n, NEW p, NEW c, NEW t,
         NEW y, NEW ends, NEW F, TurnOf(N, R, M, W, D, lo, n, p, c, t, y, ends, F),
         p < n - 1, ends <=> D[lo + (p + 1)].id > y.id
  PROVE  Scanning(F, lo, n, p + 1, ends, y)
<1>1. PICK S : S = 0 .. M - 1
  OBVIOUS
<1>2. /\ D \in [S -> BlocksOf(N, R)] /\ Scanning(D, lo, n, p, c, t) /\ y \in BlocksOf(N, R) /\ ends \in BOOLEAN
      /\ y.id = D[lo + p].id /\ Turned(D, S, lo + p, y, ends, F)
      /\ lo \in Nat /\ n \in Nat /\ Piece(lo, n) \subseteq S
  BY <1>1 DEF TurnOf, Holds, Folded
<1>3. N \in Numbers /\ N < DUMMY_FLOW
  BY NumberedFacts
<1>4. p \in 0 .. n - 2
  <2>1. p \in 0 .. n - 1
    BY <1>2 DEF Scanning
  <2> QED
    BY <1>2, <2>1
<1> QED
  BY <1>2, <1>3, <1>4, TurnScans

LEMMA TurnEnds ==
  ASSUME NEW N, NEW R, NEW M, NEW h, Numbered(N, R, M, h), NEW W, NEW D, NEW lo, NEW n, NEW p, NEW c, NEW t,
         NEW y, NEW F, TurnOf(N, R, M, W, D, lo, n, p, c, t, y, TRUE, F), p = n - 1
  PROVE  Once(F, Piece(lo, n))
<1>1. PICK S : S = 0 .. M - 1
  OBVIOUS
<1>2. /\ D \in [S -> BlocksOf(N, R)] /\ Scanning(D, lo, n, p, c, t) /\ y \in BlocksOf(N, R)
      /\ y.id = D[lo + p].id /\ Turned(D, S, lo + p, y, TRUE, F)
      /\ lo \in Nat /\ n \in Nat /\ Piece(lo, n) \subseteq S
  BY <1>1 DEF TurnOf, Holds, Folded
<1>3. N \in Numbers /\ N < DUMMY_FLOW
  BY NumberedFacts
<1> QED
  BY <1>2, <1>3, TurnLast

\* The scan of the heavy blocks, from turn to turn and at its end.
LEMMA HeavyTurn ==
  ASSUME NEW N, NEW R, NEW M, NEW h, Numbered(N, R, M, h), NEW W, NEW D, NEW p, NEW c, NEW t,
         AtScanHeavy(N, R, M, h, W, D, p, c, t),
         NEW y, NEW ends, NEW F, TurnOf(N, R, M, W, D, N, h, p, c, t, y, ends, F)
  PROVE  /\ LightFirst(F, N) /\ EndsAt(F, N + h)
         /\ p < h - 1 /\ (ends <=> D[N + (p + 1)].id > y.id) => AtScanHeavy(N, R, M, h, W, F, p + 1, ends, y)
         /\ p = h - 1 /\ ends = TRUE => AtSortAgain(N, R, M, W, F)
<1>1. /\ Holds(N, R, M, W, F, Held(ends, y)) /\ F \in [0 .. M - 1 -> BlocksOf(N, R)]
      /\ \A k \in 0 .. M - 1 : k # N + p => F[k] = D[k]
      /\ p \in 0 .. h - 1 /\ D \in [0 .. M - 1 -> BlocksOf(N, R)]
  BY TurnHolds
<1>2. N \in Nat /\ h \in Nat /\ M \in Nat /\ N + h <= M
  BY NumberedFacts
<1>3. LightFirst(D, N) /\ EndsAt(D, N + h)
  BY DEF AtScanHeavy
<1>4. LightFirst(F, N)
  <2>1. \A k \in 0 .. N - 1 : k \in 0 .. M - 1 /\ k # N + p
    BY <1>1, <1>2
  <2> QED
    BY <1>1, <1>3, <2>1 DEF LightFirst
<1>5. \A k \in 0 .. M - 1 : N + h <= k => F[k].id = DUMMY_FLOW
  <2>1. \A k \in 0 .. M - 1 : N + h <= k => k # N + p
    BY <1>1, <1>2
  <2> QED
    BY <1>1, <1>3, <2>1 DEF EndsAt
<1>6. EndsAt(F, N + h)
  BY <1>1, <1>5 DEF EndsAt
<1>7. y \in BlocksOf(N, R)
  BY DEF TurnOf
<1>8. ASSUME p < h - 1, ends <=> D[N + (p + 1)].id > y.id PROVE AtScanHeavy(N, R, M, h, W, F, p + 1, ends, y)
  <2>1. Scanning(F, N, h, p + 1, ends, y)
    BY <1>8, TurnGoesOn
  <2> QED
    BY <1>1, <1>4, <1>6, <1>7, <2>1 DEF AtScanHeavy
<1>9. ASSUME p = h - 1, ends = TRUE PROVE AtSortAgain(N, R, M, W, F)
  <2>1. TurnOf(N, R, M, W, D, N, h, p, c, t, y, TRUE, F)
    BY <1>9
  <2>2. Once(F, Piece(N, h))
    BY <1>9, <2>1, TurnEnds
  <2>3. Holds(N, R, M, W, F, {})
    BY <1>1, <1>9, HeldNone
  <2>4. \A k \in Piece(N, M - N) : k \in Piece(N, h) \/ F[k].id = DUMMY_FLOW
    <3>1. \A k \in Piece(N, M - N) : k \in 0 .. M - 1 /\ (k \in Piece(N, h) \/ N + h <= k)
      BY <1>2 DEF Piece
    <3> QED
      BY <1>5, <3>1
  <2>5. Once(F, Piece(N, M - N))
    BY <2>2, <2>4 DEF Once
  <2> QED
    BY <1>4, <2>3, <2>5 DEF AtSortAgain
<1> QED
  BY <1>4, <1>6, <1>8, <1>9

\* The scan of all blocks.
LEMMA LongTurn ==
  ASSUME NEW N, NEW R, NEW M, NEW h, Numbered(N, R, M, h), NEW W, NEW D, NEW n \in Nat, n <= M, NEW p, NEW c, NEW t,
         AtScan(N, R, M, n, W, D, p, c, t),
         NEW y, NEW ends, NEW F, TurnOf(N, R, M, W, D, 0, n, p, c, t, y, ends, F)
  PROVE  /\ p < n - 1 /\ (ends <=> D[0 + (p + 1)].id > y.id) => AtScan(N, R, M, n, W, F, p + 1, ends, y)
         /\ p = n - 1 /\ ends = TRUE => AtSort(N, R, M, n, W, F)
<1>1. PICK lo : lo = 0
  OBVIOUS
<1>2. TurnOf(N, R, M, W, D, lo, n, p, c, t, y, ends, F)
  BY <1>1
<1>3. /\ Holds(N, R, M, W, F, Held(ends, y)) /\ F \in [0 .. M - 1 -> BlocksOf(N, R)]
      /\ \A k \in 0 .. M - 1 : k # lo + p => F[k] = D[k]
      /\ p \in 0 .. n - 1 /\ D \in [0 .. M - 1 -> BlocksOf(N, R)]
  BY <1>2, TurnHolds
<1>4. M \in Nat
  BY NumberedFacts
<1>5. EndsAt(D, n)
  BY DEF AtScan
<1>6. \A k \in 0 .. M - 1 : n <= k => F[k].id = DUMMY_FLOW
  <2>1. \A k \in 0 .. M - 1 : n <= k => k # lo + p
    BY <1>1, <1>3, <1>4
  <2> QED
    BY <1>3, <1>5, <2>1 DEF EndsAt
<1>7. EndsAt(F, n)
  BY <1>3, <1>6 DEF EndsAt
<1>8. y \in BlocksOf(N, R)
  BY DEF TurnOf
<1>9. ASSUME p < n - 1, ends <=> D[0 + (p + 1)].id > y.id PROVE AtScan(N, R, M, n, W, F, p + 1, ends, y)
  <2>1. ends <=> D[lo + (p + 1)].id > y.id
    BY <1>1, <1>9, Zenon
  <2>2. Scanning(F, lo, n, p + 1, ends, y)
    BY <1>2, <1>9, <2>1, TurnGoesOn
  <2> QED
    BY <1>1, <1>3, <1>7, <1>8, <2>2 DEF AtScan
<1>10. ASSUME p = n - 1, ends = TRUE PROVE AtSort(N, R, M, n, W, F)
  <2>1. TurnOf(N, R, M, W, D, lo, n, p, c, t, y, TRUE, F)
    BY <1>2, <1>10
  <2>2. Once(F, Piece(lo, n))
    BY <1>10, <2>1, TurnEnds
  <2>3. Holds(N, R, M, W, F, {})
    BY <1>3, <1>10, HeldNone
  <2>4. \A k \in 0 .. M - 1 : k \in Piece(lo, n) \/ F[k].id = DUMMY_FLOW
    <3>1. \A k \in 0 .. M - 1 : k \in Piece(lo, n) \/ n <= k
      BY <1>1, <1>4 DEF Piece
    <3> QED
      BY <1>6, <3>1
  <2>5. Once(F, 0 .. M - 1)
    BY <2>2, <2>4 DEF Once
  <2> QED
    BY <1>7, <2>3, <2>5 DEF AtSort
<1> QED
  BY <1>9, <1>10

\* Numbers that are all there, once each, stand at their places when they are
\* in order.
LEMMA AllInPlace ==
  ASSUME NEW N \in Numbers, N < DUMMY_FLOW, NEW E, NEW n \in Nat,
         \A k \in 0 .. n - 1 : E[k].id \in Ids(N), Rising(E, 0, n), Once(E, Piece(0, n)),
         \A b \in 0 .. N - 1 : \E k \in 0 .. n - 1 : E[k].id = b
  PROVE  LightFirst(E, N)
<1>1. PICK lo \in Nat : lo = 0
  OBVIOUS
<1>2. \A k \in 0 .. n - 1 : lo + k = k
  BY <1>1
<1>3. Rising(E, lo, n) /\ Once(E, Piece(lo, n)) /\ \A k \in 0 .. n - 1 : E[lo + k].id \in Ids(N)
  BY <1>1, <1>2
<1>4. N \in Nat /\ N > 0
  BY DEF Numbers
<1>5. ASSUME NEW b \in 0 .. N - 1, NEW k \in 0 .. n - 1, E[k].id = b PROVE k <= b
  <2>1. E[lo + k].id = DUMMY_FLOW \/ k <= E[lo + k].id
    BY <1>3, AtLeastPlace
  <2>2. b # DUMMY_FLOW
    BY IdFacts, <1>4
  <2> QED
    BY <1>2, <1>5, <2>1, <2>2
<1> DEFINE T == {b \in 0 .. N - 1 : \A j \in 0 .. b : E[j].id = j}
<1>6. 0 \in T
  <2>1. PICK z \in 0 .. N - 1 : z = 0
    BY <1>4
  <2>2. PICK k \in 0 .. n - 1 : E[k].id = z
    OBVIOUS
  <2>3. k = z
    BY <1>5, <2>1, <2>2
  <2>4. \A j \in 0 .. z : j = z
    BY <2>1
  <2> QED
    BY <2>1, <2>2, <2>3, <2>4
<1>7. ASSUME NEW b \in 1 .. N - 1, b - 1 \in T PROVE b \in T
  <2>1. b \in 0 .. N - 1 /\ \A j \in 0 .. b - 1 : E[j].id = j
    BY <1>4, <1>7
  <2>2. PICK k \in 0 .. n - 1 : E[k].id = b
    BY <2>1
  <2>3. k <= b
    BY <1>5, <2>1, <2>2
  <2>4. ~ (k < b)
    <3> SUFFICES ASSUME k < b PROVE FALSE
      OBVIOUS
    <3>1. k \in 0 .. b - 1
      OBVIOUS
    <3> QED
      BY <2>1, <2>2, <3>1
  <2>5. k = b
    BY <2>3, <2>4
  <2>6. \A j \in 0 .. b : j = b \/ j \in 0 .. b - 1
    OBVIOUS
  <2> QED
    BY <2>1, <2>2, <2>5, <2>6
<1>8. 0 .. N - 1 \subseteq T
  <2>1. N - 1 \in Nat
    BY <1>4
  <2> HIDE DEF T
  <2> QED
    BY <1>6, <1>7, <2>1, LoopKeeps
<1> QED
  BY <1>8 DEF LightFirst

\* The last sort puts the light blocks first.
LEMMA SortLeads ==
  ASSUME NEW N, NEW R, NEW M, NEW h, Numbered(N, R, M, h), NEW W, NEW n, NEW D, AtSort(N, R, M, n, W, D),
         NEW s \in Nat, n <= s, s <= M, n \in Nat, NEW net \in Seq(Within(0, s)), SortedBy(net, 0, s, TRUE),
         NEW E, E = Applied(net, D, "id", TRUE)
  PROVE  AtWrite(N, R, M, W, E)
<1>1. PICK lo \in Nat : lo = 0
  OBVIOUS
<1>2. /\ D \in [0 .. M - 1 -> BlocksOf(N, R)] /\ Merges(Among(D) \cup {}, N, R, W)
      /\ EndsAt(D, n) /\ Once(D, 0 .. M - 1)
  BY DEF AtSort, Holds
<1>3. M \in Nat /\ N \in Numbers /\ N < DUMMY_FLOW /\ N \in Nat /\ R \in Nat /\ R > 0
  BY NumberedFacts
<1>4. Piece(lo, s) \subseteq 0 .. M - 1 /\ net \in Seq(Within(lo, s)) /\ SortedBy(net, lo, s, TRUE)
  <2>1. Piece(lo, s) \subseteq 0 .. M - 1
    BY <1>1, <1>3 DEF Piece
  <2> QED
    BY <1>1, <2>1, Zenon
<1>5. /\ E \in [0 .. M - 1 -> BlocksOf(N, R)] /\ Among(E) = Among(D)
      /\ \A k \in (0 .. M - 1) \ Piece(lo, s) : E[k] = D[k]
      /\ Once(E, 0 .. M - 1)
  <2>1. Rearranged(N, R, M, lo, s, D, E)
    BY <1>2, <1>4, SortPiece
  <2> QED
    BY <1>2, <2>1 DEF Rearranged
<1>6. Rising(E, lo, s)
  BY <1>2, <1>4, SortRises
<1>7. Holds(N, R, M, W, E, {})
  BY <1>2, <1>5 DEF Holds
<1>8. Once(E, Piece(lo, s))
  BY <1>4, <1>5 DEF Once
<1>9. \A k \in 0 .. s - 1 : E[k].id \in Ids(N)
  <2> TAKE k \in 0 .. s - 1
  <2>1. k \in 0 .. M - 1
    BY <1>3
  <2> QED
    BY <1>5, <2>1 DEF BlocksOf
<1>10. ASSUME NEW b \in 0 .. N - 1 PROVE \E k \in 0 .. s - 1 : E[k].id = b
  <2>1. PICK r \in 0 .. R - 1 : r = 0
    BY <1>3
  <2>2. PICK B : B = Among(E) \cup {}
    OBVIOUS
  <2>3. Top(B, b, r, W[b * R + r])
    BY <1>7, <2>2 DEF Holds, Merges
  <2>4. PICK x \in B : x.id = b
    BY <2>3 DEF Top
  <2>5. PICK k \in 0 .. M - 1 : x = E[k]
    BY <1>5, <2>2 DEF Among
  <2>6. b # DUMMY_FLOW
    BY <1>3, IdFacts
  <2>7. k \in 0 .. s - 1
    <3> SUFFICES ASSUME k \notin 0 .. s - 1 PROVE FALSE
      OBVIOUS
    <3>1. n <= k /\ k \notin Piece(lo, s)
      BY <1>1, <1>3 DEF Piece
    <3>2. E[k] = D[k] /\ D[k].id = DUMMY_FLOW
      BY <1>2, <1>5, <3>1 DEF EndsAt
    <3> QED
      BY <2>4, <2>5, <2>6, <3>2
  <2> QED
    BY <2>4, <2>5, <2>7
<1>11. LightFirst(E, N)
  <2>1. Rising(E, 0, s) /\ Once(E, Piece(0, s))
    BY <1>1, <1>6, <1>8
  <2> QED
    BY <1>3, <1>9, <1>10, <2>1, AllInPlace
<1> QED
  BY <1>5, <1>7, <1>11 DEF AtWrite

\* Then the light blocks hold what was wanted.
LEMMA WriteLeads ==
  ASSUME NEW N, NEW R, NEW M, NEW h, Numbered(N, R, M, h), NEW W, NEW D, AtWrite(N, R, M, W, D),
         NEW b \in 0 .. N - 1, NEW r \in 0 .. R - 1
  PROVE  D[b].data[r] = W[b * R + r]
<1>1. /\ D \in [0 .. M - 1 -> BlocksOf(N, R)] /\ Merges(Among(D) \cup {}, N, R, W)
      /\ LightFirst(D, N) /\ Once(D, 0 .. M - 1)
  BY DEF AtWrite, Holds
<1>2. M \in Nat /\ N \in Numbers /\ N < DUMMY_FLOW /\ N \in Nat /\ N <= M
  BY NumberedFacts
<1>3. PICK B : B = Among(D) \cup {}
  OBVIOUS
<1>4. Top(B, b, r, W[b * R + r])
  BY <1>1, <1>3 DEF Merges
<1>5. PICK x \in B : x.id = b /\ x.data[r] = W[b * R + r]
  BY <1>4 DEF Top
<1>6. PICK k \in 0 .. M - 1 : x = D[k]
  BY <1>1, <1>3, <1>5 DEF Among
<1>7. b \in 0 .. M - 1 /\ b # DUMMY_FLOW /\ D[b].id = b
  BY <1>1, <1>2, IdFacts DEF LightFirst
<1>8. k = b
  BY <1>1, <1>5, <1>6, <1>7 DEF Once
<1> QED
  BY <1>5, <1>6, <1>8
--------------------------------------------------------------------------------
(* The invariant.                                                            *)

\* What BEx relies on: its merge is one of two halves of a power of two.
Ready == isBEx => testPo2(numEBlock)

\* How many blocks the scan of all blocks goes through.
ScanCount == IF isBEx THEN 2 * numEBlock ELSE numEBlock + numHeavy

Stages ==
  {"fill", "sort heavy", "scan heavy", "sort heavy again", "merge", "scan", "sort", "write", "done"}

LightInv ==
  /\ Args /\ pc \in Stages
  /\ pc \in {"sort heavy", "scan heavy", "sort heavy again"} => isBEx
  /\ pc = "fill" => /\ i \in 0 .. numHeavy - 1 /\ pLight \in [Counters -> 0 .. MaxCount]
                    /\ \A c \in Counters : Most(c, i, pLight[c])
  /\ pc \in {"sort heavy", "sort heavy again", "merge"} => tmpB \in BlocksOf(numEBlock, nRecord)
  /\ pc = "sort heavy" => AtSortHeavy(numEBlock, nRecord, length, numHeavy, WantedOf, dump)
  /\ pc = "scan heavy" => AtScanHeavy(numEBlock, nRecord, length, numHeavy, WantedOf, dump, i, cond, tmpB)
  /\ pc = "sort heavy again" => AtSortAgain(numEBlock, nRecord, length, WantedOf, dump)
  /\ pc = "merge" /\ isBEx => AtMergeBEx(numEBlock, nRecord, length, WantedOf, dump)
  /\ pc = "merge" /\ ~isBEx => AtSortLong(numEBlock, nRecord, length, numHeavy, WantedOf, dump)
  /\ pc = "scan" /\ Ready => AtScan(numEBlock, nRecord, length, ScanCount, WantedOf, dump, i, cond, tmpB)
  /\ pc = "sort" /\ Ready => AtSort(numEBlock, nRecord, length, ScanCount, WantedOf, dump)
  /\ pc = "write" /\ Ready => AtWrite(numEBlock, nRecord, length, WantedOf, dump)
  /\ pc = "done" /\ Ready => \A c \in Counters : pLight[c] = Wanted(c)

LEMMA SameCall ==
  ASSUME UNCHANGED args
  PROVE  /\ call' = call /\ numEBlock' = numEBlock /\ nRecord' = nRecord /\ numHeavy' = numHeavy /\ isBEx' = isBEx
         /\ length' = length /\ Counters' = Counters /\ ScanCount' = ScanCount /\ Ready' = Ready
         /\ Args' = Args /\ WantedOf' = WantedOf
         /\ \A c \in Counters : Wanted(c)' = Wanted(c)
         /\ \A c, m, v : Most(c, m, v)' = Most(c, m, v)
<1>1. call' = call /\ light' = light /\ pHeavy' = pHeavy
  BY DEF args
<1>2. numEBlock' = numEBlock /\ nRecord' = nRecord /\ numHeavy' = numHeavy /\ isBEx' = isBEx
  BY <1>1 DEF numEBlock, nRecord, numHeavy, isBEx
<1>3. num2Block' = num2Block /\ Counters' = Counters
  BY <1>2 DEF num2Block, Counters
<1>4. length' = length /\ ScanCount' = ScanCount /\ Ready' = Ready
  BY <1>2, <1>3 DEF length, ScanCount, Ready
<1>5. Args' = Args
  BY <1>1, <1>2, <1>3 DEF Args
<1>6. ASSUME NEW c \in Counters PROVE Wanted(c)' = Wanted(c)
  <2>1. {h \in DOMAIN pHeavy : pHeavy[h].cid = c}' = {h \in DOMAIN pHeavy : pHeavy[h].cid = c}
    BY <1>1
  <2> DEFINE H == {h \in DOMAIN pHeavy : pHeavy[h].cid = c}
  <2>2. {Cap(pHeavy[k].size) : k \in H}' = {Cap(pHeavy[k].size) : k \in H}
    BY <1>1, <2>1
  <2>3. {light[c]}' = {light[c]}
    BY <1>1
  <2> QED
    BY <2>2, <2>3 DEF Wanted
<1>7. WantedOf' = WantedOf
  BY <1>3, <1>6 DEF WantedOf
<1>8. \A c, m, v : Most(c, m, v)' = Most(c, m, v)
  BY <1>1 DEF Most
<1> QED
  BY <1>1, <1>2, <1>3, <1>4, <1>5, <1>6, <1>7, <1>8

LEMMA CallNumbered ==
  ASSUME Args
  PROVE  /\ Numbered(numEBlock, nRecord, length, numHeavy)
         /\ isBEx \in BOOLEAN /\ num2Block \in Nat
         /\ isBEx => length = numEBlock + num2Block /\ length - numEBlock = num2Block /\ 2 * numEBlock <= length
         /\ ScanCount \in Nat /\ ScanCount <= length
<1>1. /\ numEBlock \in Numbers /\ numEBlock < DUMMY_FLOW /\ nRecord \in Numbers /\ numHeavy \in Numbers
      /\ isBEx \in BOOLEAN
      /\ num2Block \in Nat /\ numEBlock <= num2Block /\ numHeavy <= num2Block
      /\ length \in Numbers /\ numEBlock + numHeavy <= length
      /\ isBEx => length = numEBlock + num2Block
  BY CallFacts DEF Args
<1>2. PICK N, h, M, n : N = numEBlock /\ h = numHeavy /\ M = length /\ n = num2Block
  OBVIOUS
<1>3. N \in Nat /\ h \in Nat /\ M \in Nat /\ n \in Nat /\ N + h <= M /\ N <= n
  BY <1>1, <1>2 DEF Numbers
<1>4. isBEx => M = N + n /\ M - N = n /\ 2 * N <= M
  BY <1>1, <1>2, <1>3
<1>5. ScanCount \in Nat /\ ScanCount <= M
  BY <1>2, <1>3, <1>4 DEF ScanCount
<1> QED
  BY <1>1, <1>2, <1>4, <1>5 DEF Numbered

\* The networks that sort, whichever way they are chosen.
LEMMA NetworkSorts ==
  ASSUME NEW lo \in Nat, NEW n \in Nat \ {0}
  PROVE  SortNetwork(lo, n) \in Seq(Within(lo, n)) /\ SortedBy(SortNetwork(lo, n), lo, n, TRUE)
<1>1. PICK up \in BOOLEAN : up = TRUE
  OBVIOUS
<1>2. CASE isBEx /\ testPo2(n)
  <2>1. Sorter(lo, n) \in Seq(Within(lo, n)) /\ SortedBy(Sorter(lo, n), lo, n, TRUE)
    BY SorterSorts
  <2>2. SortNetwork(lo, n) = Sorter(lo, n)
    BY <1>2 DEF SortNetwork, Sorter
  <2> QED
    BY <2>1, <2>2
<1>3. CASE ~(isBEx /\ testPo2(n))
  <2>1. SortNetwork(lo, n) = bitonicSort[<<lo, n, up>>]
    BY <1>1, <1>3 DEF SortNetwork
  <2>2. bitonicSort[<<lo, n, up>>] \in Seq(Within(lo, n))
    BY bitonicSortIn
  <2>3. SortedBy(bitonicSort[<<lo, n, up>>], lo, n, up)
    BY bitonicSortSorts
  <2> QED
    BY <1>1, <2>1, <2>2, <2>3
<1> QED
  BY <1>2, <1>3

LEMMA LightInit ==
  ASSUME Init
  PROVE  LightInv
<1>1. /\ call \in Calls /\ light \in [Counters -> LightValues]
      /\ pHeavy \in [0 .. numHeavy - 1 -> [cid : Counters, size : Sizes]]
      /\ pLight = light /\ i = 0 /\ pc = "fill"
  BY DEF Init
<1>2. LightValues \subseteq 0 .. MaxCount /\ Sizes \subseteq Nat
  BY ValueAssumption
<1>3. light \in [Counters -> 0 .. MaxCount]
  BY <1>1, <1>2
<1>4. pHeavy \in [0 .. numHeavy - 1 -> [cid : Counters, size : Nat]]
  BY <1>1, <1>2
<1>5. Args
  BY <1>1, <1>3, <1>4 DEF Args
<1>6. i \in 0 .. numHeavy - 1
  <2>1. numHeavy \in Nat /\ numHeavy > 0
    BY <1>1, CallFacts DEF Numbers
  <2> QED
    BY <1>1, <2>1
<1>7. ASSUME NEW c \in Counters PROVE Most(c, i, pLight[c])
  <2>1. light[c] \in 0 .. MaxCount /\ MaxCount \in Nat
    BY <1>3, ValueAssumption
  <2>2. light[c] \in Nat
    BY <2>1
  <2>3. \A h : h \notin 0 .. i - 1
    BY <1>1
  <2>4. pLight[c] = light[c] /\ light[c] <= light[c]
    BY <1>1, <2>2
  <2> QED
    BY <2>1, <2>3, <2>4 DEF Most
<1> QED
  BY <1>1, <1>3, <1>5, <1>6, <1>7 DEF LightInv, Stages

LEMMA FillKeeps ==
  ASSUME LightInv, Fill
  PROVE  LightInv'
<1>1. Args /\ UNCHANGED args
  BY DEF LightInv, Fill
<1>2. /\ numEBlock' = numEBlock /\ nRecord' = nRecord /\ numHeavy' = numHeavy /\ isBEx' = isBEx
      /\ length' = length /\ Args' /\ WantedOf' = WantedOf
  BY <1>1, SameCall
<1>3. PICK junk \in {0, MaxCount} :
        /\ Filled(dump', junk)
        /\ tmpB' = [NoBlock EXCEPT !.data = [r \in Records |-> junk]]
  BY DEF Fill, Filled
<1>4. junk \in 0 .. MaxCount
  BY ValueAssumption
<1>5. PICK N, R, M, h, W, D, t :
        N = numEBlock /\ R = nRecord /\ M = length /\ h = numHeavy /\ W = WantedOf /\ D = dump' /\ t = tmpB'
  OBVIOUS
<1>6. D \in [0 .. M - 1 -> BlocksOf(N, R)] /\ LightFirst(D, N) /\ EndsAt(D, N + h) /\ Merges(Among(D), N, R, W)
  <2>1. Filled(D, junk)
    BY <1>3, <1>5
  <2>2. /\ D \in [0 .. length - 1 -> BlocksOf(numEBlock, nRecord)]
        /\ LightFirst(D, numEBlock) /\ EndsAt(D, numEBlock + numHeavy)
        /\ Merges(Among(D), numEBlock, nRecord, WantedOf)
    BY <1>1, <1>4, <2>1, FilledIs
  <2> QED
    BY <1>5, <2>2
<1>7. Holds(N, R, M, W, D, {})
  <2>1. Among(D) \cup {} = Among(D)
    OBVIOUS
  <2> QED
    BY <1>6, <2>1 DEF Holds
<1>8. t \in BlocksOf(N, R)
  <2>1. t = [id |-> DUMMY_FLOW, data |-> [r \in 0 .. R - 1 |-> junk]]
    BY <1>3, <1>5 DEF NoBlock, Records
  <2> QED
    BY <1>4, <2>1 DEF BlocksOf, Ids
<1>9. AtSortHeavy(N, R, M, h, W, D) /\ AtSortLong(N, R, M, h, W, D)
  BY <1>6, <1>7 DEF AtSortHeavy, AtSortLong
<1>10. pc' = (IF isBEx THEN "sort heavy" ELSE "merge")
  BY DEF Fill
<1>11. CASE isBEx
  BY <1>2, <1>5, <1>8, <1>9, <1>10, <1>11 DEF LightInv, Stages
<1>12. CASE ~isBEx
  BY <1>2, <1>5, <1>8, <1>9, <1>10, <1>12 DEF LightInv, Stages
<1> QED
  BY <1>11, <1>12

LEMMA SortHeavyKeeps ==
  ASSUME LightInv, SortHeavy
  PROVE  LightInv'
<1>1. Args /\ UNCHANGED args /\ isBEx /\ pc \in {"sort heavy", "sort heavy again"}
  BY DEF LightInv, SortHeavy
<1>2. /\ numEBlock' = numEBlock /\ nRecord' = nRecord /\ numHeavy' = numHeavy /\ isBEx' = isBEx
      /\ length' = length /\ Args' /\ WantedOf' = WantedOf
  BY <1>1, SameCall
<1>3. PICK N, R, M, h, W, D, E, t, n :
        /\ N = numEBlock /\ R = nRecord /\ M = length /\ h = numHeavy /\ W = WantedOf
        /\ D = dump /\ E = dump' /\ t = tmpB /\ n = num2Block
  OBVIOUS
<1>4. Numbered(N, R, M, h) /\ n \in Nat /\ M - N = n
  BY <1>1, <1>3, CallNumbered
<1>5. PICK net : net = SortNetwork(N, n)
  OBVIOUS
<1>6. E = Applied(net, D, "id", TRUE)
  BY <1>3, <1>5 DEF SortHeavy, Run
<1>7. net \in Seq(Within(N, M - N)) /\ SortedBy(net, N, M - N, TRUE)
  <2>1. N \in Nat /\ n \in Nat \ {0}
    BY <1>4, NumberedFacts
  <2>2. net \in Seq(Within(N, n)) /\ SortedBy(net, N, n, TRUE)
    BY <1>5, <2>1, NetworkSorts
  <2> QED
    BY <1>4, <2>2
<1>8. t \in BlocksOf(N, R)
  BY <1>1, <1>3 DEF LightInv
<1>9. CASE pc = "sort heavy"
  <2>1. AtSortHeavy(N, R, M, h, W, D)
    BY <1>3, <1>9 DEF LightInv
  <2>2. AtScanHeavy(N, R, M, h, W, E, 0, TRUE, t)
    BY <1>4, <1>6, <1>7, <1>8, <2>1, HeavySorted
  <2>3. pc' = "scan heavy" /\ i' = 0 /\ cond' = TRUE /\ tmpB' = tmpB
    BY <1>9 DEF SortHeavy, StartScan
  <2>4. AtScanHeavy(numEBlock', nRecord', length', numHeavy', WantedOf', dump', i', cond', tmpB')
    BY <1>2, <1>3, <2>2, <2>3
  <2> QED
    BY <1>1, <1>2, <2>3, <2>4 DEF LightInv, Stages
<1>10. CASE pc = "sort heavy again"
  <2>1. AtSortAgain(N, R, M, W, D)
    BY <1>3, <1>10 DEF LightInv
  <2>2. AtMergeBEx(N, R, M, W, E)
    BY <1>4, <1>6, <1>7, <2>1, HeavySortedAgain
  <2>3. pc' = "merge" /\ tmpB' = tmpB
    BY <1>10 DEF SortHeavy, scan
  <2>4. AtMergeBEx(numEBlock', nRecord', length', WantedOf', dump') /\ tmpB' \in BlocksOf(numEBlock', nRecord')
    BY <1>2, <1>3, <1>8, <2>2, <2>3
  <2> QED
    BY <1>1, <1>2, <2>3, <2>4 DEF LightInv, Stages
<1> QED
  BY <1>1, <1>9, <1>10

LEMMA MergeKeeps ==
  ASSUME LightInv, Merge
  PROVE  LightInv'
<1>1. Args /\ UNCHANGED args /\ pc = "merge" /\ pc' = "scan" /\ i' = 0 /\ cond' = TRUE /\ tmpB' = tmpB
  BY DEF LightInv, Merge, StartScan
<1>2. /\ numEBlock' = numEBlock /\ nRecord' = nRecord /\ numHeavy' = numHeavy /\ isBEx' = isBEx
      /\ length' = length /\ Args' /\ WantedOf' = WantedOf /\ ScanCount' = ScanCount /\ Ready' = Ready
  BY <1>1, SameCall
<1>3. PICK N, R, M, h, W, D, E, t :
        /\ N = numEBlock /\ R = nRecord /\ M = length /\ h = numHeavy /\ W = WantedOf
        /\ D = dump /\ E = dump' /\ t = tmpB
  OBVIOUS
<1>4. Numbered(N, R, M, h) /\ (isBEx => 2 * N <= M) /\ isBEx \in BOOLEAN
  BY <1>1, <1>3, CallNumbered
<1>5. t \in BlocksOf(N, R)
  BY <1>1, <1>3 DEF LightInv
<1>6. ASSUME Ready PROVE AtScan(N, R, M, ScanCount, W, E, 0, TRUE, t)
  <2>1. CASE isBEx
    <3>1. testPo2(N) /\ ScanCount = 2 * N
      BY <1>3, <1>6, <2>1 DEF Ready, ScanCount
    <3>2. E = Applied(oddEvenMerge[<<0, 2 * N, 1>>], D, "id", TRUE)
      BY <1>3, <2>1, <3>1 DEF Merge, Run
    <3>3. AtMergeBEx(N, R, M, W, D)
      BY <1>1, <1>3, <2>1 DEF LightInv
    <3>4. AtScan(N, R, M, 2 * N, W, E, 0, TRUE, t)
      BY <1>4, <1>5, <2>1, <3>1, <3>2, <3>3, MergeLeads
    <3> QED
      BY <3>1, <3>4
  <2>2. CASE ~isBEx
    <3>1. PICK lo, net : lo = 0 /\ net = SortNetwork(lo, M)
      OBVIOUS
    <3>2. E = Applied(net, D, "id", TRUE)
      BY <1>3, <2>2, <3>1 DEF Merge, Run
    <3>3. net \in Seq(Within(0, M)) /\ SortedBy(net, 0, M, TRUE)
      <4>1. lo \in Nat /\ M \in Nat \ {0}
        BY <1>4, <3>1, NumberedFacts
      <4>2. net \in Seq(Within(lo, M)) /\ SortedBy(net, lo, M, TRUE)
        BY <3>1, <4>1, NetworkSorts
      <4> QED
        BY <3>1, <4>2
    <3>4. AtSortLong(N, R, M, h, W, D)
      BY <1>1, <1>3, <2>2 DEF LightInv
    <3>5. AtScan(N, R, M, N + h, W, E, 0, TRUE, t)
      BY <1>4, <1>5, <3>2, <3>3, <3>4, SortLongLeads
    <3> QED
      BY <1>3, <2>2, <3>5 DEF ScanCount
  <2> QED
    BY <2>1, <2>2
<1>7. Ready' => AtScan(numEBlock', nRecord', length', ScanCount', WantedOf', dump', i', cond', tmpB')
  BY <1>1, <1>2, <1>3, <1>6
<1> QED
  BY <1>1, <1>2, <1>7 DEF LightInv, Stages

\* The block that a scan makes of the one it is at.
LEMMA ScanBlocks ==
  ASSUME Args, NEW lo \in Nat, NEW n \in Nat, Piece(lo, n) \subseteq 0 .. length - 1,
         tmpB \in BlocksOf(numEBlock, nRecord),
         Holds(numEBlock, nRecord, length, WantedOf, dump, Held(cond, tmpB)), Scanning(dump, lo, n, i, cond, tmpB),
         NEW y, y = Absorb(dump[lo + i])
  PROVE  /\ lo + i \in 0 .. length - 1 /\ y \in BlocksOf(numEBlock, nRecord)
         /\ Folded(dump[lo + i], tmpB, cond, y, nRecord)
         /\ y.id \in Nat /\ \A k \in 0 .. length - 1 : dump[k].id \in Nat
<1>1. PICK N, R, M : N = numEBlock /\ R = nRecord /\ M = length
  OBVIOUS
<1>2. N \in Numbers /\ N < DUMMY_FLOW
  <2>1. Numbered(numEBlock, nRecord, length, numHeavy)
    BY CallNumbered
  <2> QED
    BY <1>1, <2>1 DEF Numbered
<1>3. dump \in [0 .. M - 1 -> BlocksOf(N, R)]
  BY <1>1 DEF Holds
<1>4. PICK at : at = lo + i
  OBVIOUS
<1>5. at \in 0 .. M - 1
  <2>1. i \in 0 .. n - 1
    BY DEF Scanning
  <2>2. at \in Piece(lo, n)
    BY <1>4, <2>1 DEF Piece
  <2> QED
    BY <1>1, <2>2
<1>6. PICK x \in BlocksOf(N, R) : x = dump[at]
  BY <1>3, <1>5
<1>7. ~cond => tmpB.id = x.id
  BY <1>4, <1>6 DEF Scanning
<1>8. y \in BlocksOf(N, R) /\ y.id = x.id /\ Folded(x, tmpB, cond, y, R)
  <2>1. R = nRecord /\ tmpB \in BlocksOf(N, R) /\ y = Absorb(x)
    BY <1>1, <1>4, <1>6
  <2> QED
    BY <1>2, <1>7, <2>1, AbsorbFolds
<1>9. \A z \in BlocksOf(N, R) : z.id \in Nat
  <2>1. Ids(N) \in SUBSET Nat
    BY <1>2, IdFacts
  <2> QED
    BY <2>1 DEF BlocksOf
<1>10. \A k \in 0 .. M - 1 : dump[k].id \in Nat
  BY <1>3, <1>9
<1> QED
  BY <1>1, <1>4, <1>5, <1>6, <1>8, <1>9, <1>10

\* What it does to that one.
LEMMA ScanTurns ==
  ASSUME Args, NEW lo \in Nat, NEW n \in Nat, Piece(lo, n) \subseteq 0 .. length - 1,
         tmpB \in BlocksOf(numEBlock, nRecord),
         Holds(numEBlock, nRecord, length, WantedOf, dump, Held(cond, tmpB)), Scanning(dump, lo, n, i, cond, tmpB),
         NEW y, y = Absorb(dump[lo + i]), NEW ends \in BOOLEAN, NEW F,
         Turned(dump, 0 .. length - 1, lo + i, y, ends, F)
  PROVE  TurnOf(numEBlock, nRecord, length, WantedOf, dump, lo, n, i, cond, tmpB, y, ends, F)
<1>1. /\ lo + i \in 0 .. length - 1 /\ y \in BlocksOf(numEBlock, nRecord)
      /\ Folded(dump[lo + i], tmpB, cond, y, nRecord)
  BY ScanBlocks
<1> QED
  BY <1>1 DEF TurnOf

LEMMA ScanKeeps ==
  ASSUME LightInv, Scan
  PROVE  LightInv'
<1>1. /\ Args /\ UNCHANGED args /\ pc \in {"scan heavy", "scan"} /\ pc' = pc /\ i' = i + 1 /\ i < Count - 1
      /\ (pc = "scan heavy" => isBEx)
  BY DEF LightInv, Scan
<1>2. /\ numEBlock' = numEBlock /\ nRecord' = nRecord /\ numHeavy' = numHeavy /\ isBEx' = isBEx
      /\ length' = length /\ Args' /\ WantedOf' = WantedOf /\ ScanCount' = ScanCount /\ Ready' = Ready
  BY <1>1, SameCall
<1>3. PICK N, R, M, h, W, D, F, c, p, t, y :
        /\ N = numEBlock /\ R = nRecord /\ M = length /\ h = numHeavy /\ W = WantedOf
        /\ D = dump /\ F = dump' /\ c = cond /\ p = i /\ t = tmpB /\ y = Absorb(D[First + i])
  OBVIOUS
<1>4. PICK e, a, b : e = cond' /\ a = D[First + i + 1].id /\ b = y.id
  OBVIOUS
<1>5. /\ tmpB' = y /\ e = (a > b)
      /\ F = [D EXCEPT ![First + i] = IF a > b THEN y ELSE [y EXCEPT !.id = DUMMY_FLOW]]
  BY <1>3, <1>4 DEF Scan
<1>6. ASSUME a \in Nat, b \in Nat
      PROVE  /\ e \in BOOLEAN /\ (e <=> a > b)
             /\ F = [D EXCEPT ![First + i] = IF e THEN y ELSE [y EXCEPT !.id = DUMMY_FLOW]]
  <2>1. e = (a > b)
    BY <1>5
  <2>2. a \in Nat /\ b \in Nat
    BY <1>6
  <2>3. (a > b) \in BOOLEAN
    BY <2>2
  <2>4. e \in BOOLEAN
    BY <2>1, <2>3, Zenon
  <2>5. e \in BOOLEAN /\ (e <=> a > b)
    BY <2>1, <2>2, <2>4
  <2>6. CASE e
    <3>1. F = [D EXCEPT ![First + i] = y]
      BY <1>5, <2>5, <2>6
    <3> QED
      BY <2>5, <2>6, <3>1
  <2>7. CASE ~e
    <3>1. F = [D EXCEPT ![First + i] = [y EXCEPT !.id = DUMMY_FLOW]]
      BY <1>5, <2>5, <2>7
    <3> QED
      BY <2>5, <2>7, <3>1
  <2> QED
    BY <2>6, <2>7
<1>7. Numbered(N, R, M, h) /\ ScanCount \in Nat /\ ScanCount <= M
  BY <1>1, <1>3, CallNumbered
<1>8. N \in Nat /\ h \in Nat /\ M \in Nat /\ N + h <= M
  BY <1>7, NumberedFacts
<1>9. CASE pc = "scan heavy"
  <2>1. First = N /\ Count = h
    BY <1>3, <1>9 DEF First, Count
  <2>2. AtScanHeavy(N, R, M, h, W, D, p, c, t)
    BY <1>3, <1>9 DEF LightInv
  <2>3. Piece(N, h) \subseteq 0 .. M - 1
    BY <1>8 DEF Piece
  <2>4. /\ t \in BlocksOf(N, R) /\ Holds(N, R, M, W, D, Held(c, t)) /\ Scanning(D, N, h, p, c, t)
        /\ y = Absorb(D[N + p])
    BY <1>3, <2>1, <2>2 DEF AtScanHeavy
  <2>5. e \in BOOLEAN /\ (e <=> D[N + (p + 1)].id > y.id) /\ TurnOf(N, R, M, W, D, N, h, p, c, t, y, e, F) /\ p < h - 1
    <3>1. p \in Nat /\ p < h - 1
      <4>1. p \in 0 .. h - 1
        BY <2>4 DEF Scanning
      <4>2. p < h - 1
        BY <1>1, <1>3, <2>1
      <4> QED
        BY <1>8, <4>1, <4>2
    <3>2. N + p + 1 = N + (p + 1) /\ N + (p + 1) \in 0 .. M - 1
      BY <1>8, <3>1
    <3>3. y \in BlocksOf(N, R) /\ y.id \in Nat /\ \A k \in 0 .. M - 1 : D[k].id \in Nat
      BY <1>1, <1>3, <1>8, <2>3, <2>4, ScanBlocks
    <3>4. a \in Nat /\ b \in Nat
      BY <1>3, <1>4, <2>1, <3>2, <3>3
    <3>5. e \in BOOLEAN /\ (e <=> a > b) /\ F = [D EXCEPT ![N + p] = IF e THEN y ELSE [y EXCEPT !.id = DUMMY_FLOW]]
      BY <1>6, <1>3, <2>1, <3>4
    <3>6. TurnOf(N, R, M, W, D, N, h, p, c, t, y, e, F)
      <4>1. e \in BOOLEAN
        BY <3>5
      <4>2. PICK S, at : S = 0 .. M - 1 /\ at = N + p
        OBVIOUS
      <4>3. at \in S
        BY <1>8, <3>1, <4>2
      <4>4. F = [D EXCEPT ![at] = IF e THEN y ELSE [y EXCEPT !.id = DUMMY_FLOW]]
        BY <3>5, <4>2
      <4>5. Turned(D, S, at, y, e, F)
        BY <4>3, <4>4 DEF Turned
      <4> QED
        BY <1>1, <1>3, <1>8, <2>3, <2>4, <4>1, <4>2, <4>5, ScanTurns
    <3> QED
      BY <1>3, <1>4, <2>1, <3>1, <3>2, <3>5, <3>6
  <2>6. AtScanHeavy(N, R, M, h, W, F, p + 1, e, y)
    BY <1>7, <2>2, <2>5, HeavyTurn
  <2>7. AtScanHeavy(numEBlock', nRecord', length', numHeavy', WantedOf', dump', i', cond', tmpB')
    BY <1>1, <1>2, <1>3, <1>4, <1>5, <2>6
  <2> QED
    BY <1>1, <1>2, <1>9, <2>7 DEF LightInv, Stages
<1>10. CASE pc = "scan"
  <2>1. First = 0 /\ Count = ScanCount
    BY <1>10 DEF First, Count, ScanCount
  <2>2. ASSUME Ready PROVE AtScan(N, R, M, ScanCount, W, F, p + 1, e, y)
    <3>1. PICK lo, n \in Nat : lo = 0 /\ n = ScanCount
      BY <1>7
    <3>2. AtScan(N, R, M, n, W, D, p, c, t)
      BY <1>3, <1>10, <2>2, <3>1 DEF LightInv
    <3>3. Piece(lo, n) \subseteq 0 .. M - 1 /\ n <= M
      BY <1>7, <1>8, <3>1 DEF Piece
    <3>4. /\ t \in BlocksOf(N, R) /\ Holds(N, R, M, W, D, Held(c, t)) /\ Scanning(D, lo, n, p, c, t)
          /\ y = Absorb(D[lo + p])
      BY <1>3, <2>1, <3>1, <3>2 DEF AtScan
    <3>5. e \in BOOLEAN /\ (e <=> D[0 + (p + 1)].id > y.id) /\ TurnOf(N, R, M, W, D, lo, n, p, c, t, y, e, F) /\ p < n - 1
      <4>1. p \in Nat /\ p < n - 1
        <5>1. p \in 0 .. n - 1
          BY <3>4 DEF Scanning
        <5>2. p < n - 1
          BY <1>1, <1>3, <2>1, <3>1
        <5> QED
          BY <3>1, <5>1, <5>2
      <4>2. 0 + p + 1 = 0 + (p + 1) /\ 0 + (p + 1) \in 0 .. M - 1
        BY <1>8, <3>3, <4>1
      <4>3. y \in BlocksOf(N, R) /\ y.id \in Nat /\ \A k \in 0 .. M - 1 : D[k].id \in Nat
        BY <1>1, <1>3, <3>1, <3>3, <3>4, ScanBlocks
      <4>4. a \in Nat /\ b \in Nat
        BY <1>3, <1>4, <2>1, <4>2, <4>3
      <4>5. e \in BOOLEAN /\ (e <=> a > b) /\ F = [D EXCEPT ![lo + p] = IF e THEN y ELSE [y EXCEPT !.id = DUMMY_FLOW]]
        BY <1>6, <1>3, <2>1, <3>1, <4>4
      <4>6. TurnOf(N, R, M, W, D, lo, n, p, c, t, y, e, F)
        <5>1. e \in BOOLEAN
          BY <4>5
        <5>2. PICK S, at : S = 0 .. M - 1 /\ at = lo + p
          OBVIOUS
        <5>3. at \in S
          BY <1>7, <1>8, <3>1, <4>1, <5>2
        <5>4. F = [D EXCEPT ![at] = IF e THEN y ELSE [y EXCEPT !.id = DUMMY_FLOW]]
          BY <4>5, <5>2
        <5>5. Turned(D, S, at, y, e, F)
          BY <5>3, <5>4 DEF Turned
        <5> QED
          BY <1>1, <1>3, <3>1, <3>3, <3>4, <5>1, <5>2, <5>5, ScanTurns
      <4> QED
        BY <1>3, <1>4, <2>1, <4>1, <4>2, <4>5, <4>6
    <3>6. TurnOf(N, R, M, W, D, 0, n, p, c, t, y, e, F)
      BY <3>1, <3>5
    <3>7. AtScan(N, R, M, n, W, F, p + 1, e, y)
      BY <1>7, <3>2, <3>3, <3>5, <3>6, LongTurn
    <3> QED
      BY <3>1, <3>7
  <2>3. Ready' => AtScan(numEBlock', nRecord', length', ScanCount', WantedOf', dump', i', cond', tmpB')
    BY <1>1, <1>2, <1>3, <1>4, <1>5, <2>2
  <2> QED
    BY <1>1, <1>2, <1>10, <2>3 DEF LightInv, Stages
<1> QED
  BY <1>1, <1>9, <1>10

LEMMA ScanLastKeeps ==
  ASSUME LightInv, ScanLast
  PROVE  LightInv'
<1>1. /\ Args /\ UNCHANGED args /\ pc \in {"scan heavy", "scan"} /\ pc' = AfterScan /\ i = Count - 1
      /\ (pc = "scan heavy" => isBEx)
  BY DEF LightInv, ScanLast
<1>2. /\ numEBlock' = numEBlock /\ nRecord' = nRecord /\ numHeavy' = numHeavy /\ isBEx' = isBEx
      /\ length' = length /\ Args' /\ WantedOf' = WantedOf /\ ScanCount' = ScanCount /\ Ready' = Ready
  BY <1>1, SameCall
<1>3. PICK N, R, M, h, W, D, F, c, p, t, y, ends :
        /\ N = numEBlock /\ R = nRecord /\ M = length /\ h = numHeavy /\ W = WantedOf
        /\ D = dump /\ F = dump' /\ c = cond /\ p = i /\ t = tmpB /\ y = Absorb(D[First + i]) /\ ends = TRUE
  OBVIOUS
<1>4. tmpB' = y /\ F = [D EXCEPT ![First + i] = IF ends THEN y ELSE [y EXCEPT !.id = DUMMY_FLOW]]
  BY <1>3 DEF ScanLast
<1>5. ends \in BOOLEAN
  BY <1>3
<1>6. Numbered(N, R, M, h) /\ ScanCount \in Nat /\ ScanCount <= M
  BY <1>1, <1>3, CallNumbered
<1>7. N \in Nat /\ h \in Nat /\ M \in Nat /\ N + h <= M
  BY <1>6, NumberedFacts
<1>8. CASE pc = "scan heavy"
  <2>1. First = N /\ Count = h /\ pc' = "sort heavy again"
    BY <1>1, <1>3, <1>8 DEF First, Count, AfterScan
  <2>2. AtScanHeavy(N, R, M, h, W, D, p, c, t)
    BY <1>3, <1>8 DEF LightInv
  <2>3. Piece(N, h) \subseteq 0 .. M - 1
    BY <1>7 DEF Piece
  <2>4. TurnOf(N, R, M, W, D, N, h, p, c, t, y, ends, F)
    <3>1. /\ t \in BlocksOf(N, R) /\ Holds(N, R, M, W, D, Held(c, t)) /\ Scanning(D, N, h, p, c, t)
      BY <2>2 DEF AtScanHeavy
    <3>2. y = Absorb(D[N + p])
      BY <1>3, <2>1
    <3>3. PICK S, at : S = 0 .. M - 1 /\ at = N + p
      OBVIOUS
    <3>4. at \in S
      BY <1>7, <3>1, <3>3 DEF Scanning
    <3>5. F = [D EXCEPT ![at] = IF ends THEN y ELSE [y EXCEPT !.id = DUMMY_FLOW]]
      BY <1>3, <1>4, <2>1, <3>3
    <3>6. Turned(D, S, at, y, ends, F)
      BY <3>4, <3>5 DEF Turned
    <3> QED
      BY <1>1, <1>3, <1>5, <1>7, <2>3, <3>1, <3>2, <3>3, <3>6, ScanTurns
  <2>5. p = h - 1 /\ ends = TRUE
    BY <1>1, <1>3, <2>1
  <2>6. AtSortAgain(N, R, M, W, F)
    BY <1>6, <2>2, <2>4, <2>5, HeavyTurn
  <2>7. AtSortAgain(numEBlock', nRecord', length', WantedOf', dump') /\ tmpB' \in BlocksOf(numEBlock', nRecord')
    <3>1. y \in BlocksOf(N, R)
      BY <2>4 DEF TurnOf
    <3> QED
      BY <1>2, <1>3, <1>4, <2>6, <3>1
  <2> QED
    BY <1>1, <1>2, <1>8, <2>1, <2>7 DEF LightInv, Stages
<1>9. CASE pc = "scan"
  <2>1. First = 0 /\ Count = ScanCount /\ pc' = "sort"
    BY <1>1, <1>9 DEF First, Count, ScanCount, AfterScan
  <2>2. ASSUME Ready PROVE AtSort(N, R, M, ScanCount, W, F)
    <3>1. PICK lo, n \in Nat : lo = 0 /\ n = ScanCount
      BY <1>6
    <3>2. AtScan(N, R, M, n, W, D, p, c, t)
      BY <1>3, <1>9, <2>2, <3>1 DEF LightInv
    <3>3. Piece(lo, n) \subseteq 0 .. M - 1 /\ n <= M
      BY <1>6, <1>7, <3>1 DEF Piece
    <3>4. TurnOf(N, R, M, W, D, lo, n, p, c, t, y, ends, F)
      <4>1. /\ t \in BlocksOf(N, R) /\ Holds(N, R, M, W, D, Held(c, t)) /\ Scanning(D, lo, n, p, c, t)
        BY <3>1, <3>2 DEF AtScan
      <4>2. y = Absorb(D[lo + p])
        BY <1>3, <2>1, <3>1
      <4>3. PICK S, at : S = 0 .. M - 1 /\ at = lo + p
        OBVIOUS
      <4>4. at \in S
        BY <1>7, <3>1, <3>3, <4>1, <4>3 DEF Scanning
      <4>5. F = [D EXCEPT ![at] = IF ends THEN y ELSE [y EXCEPT !.id = DUMMY_FLOW]]
        BY <1>3, <1>4, <2>1, <3>1, <4>3
      <4>6. Turned(D, S, at, y, ends, F)
        BY <4>4, <4>5 DEF Turned
      <4> QED
        BY <1>1, <1>3, <1>5, <3>1, <3>3, <4>1, <4>2, <4>3, <4>6, ScanTurns
    <3>5. p = n - 1 /\ ends = TRUE
      BY <1>1, <1>3, <2>1, <3>1
    <3>6. TurnOf(N, R, M, W, D, 0, n, p, c, t, y, ends, F)
      BY <3>1, <3>4
    <3>7. AtSort(N, R, M, n, W, F)
      BY <1>6, <3>2, <3>3, <3>5, <3>6, LongTurn
    <3> QED
      BY <3>1, <3>7
  <2>3. Ready' => AtSort(numEBlock', nRecord', length', ScanCount', WantedOf', dump')
    BY <1>1, <1>2, <1>3, <2>2
  <2> QED
    BY <1>1, <1>2, <1>9, <2>1, <2>3 DEF LightInv, Stages
<1> QED
  BY <1>1, <1>8, <1>9

LEMMA SortAllKeeps ==
  ASSUME LightInv, SortAll
  PROVE  LightInv'
<1>1. Args /\ UNCHANGED args /\ pc = "sort" /\ pc' = "write"
  BY DEF LightInv, SortAll
<1>2. /\ numEBlock' = numEBlock /\ nRecord' = nRecord /\ numHeavy' = numHeavy /\ isBEx' = isBEx
      /\ length' = length /\ Args' /\ WantedOf' = WantedOf /\ ScanCount' = ScanCount /\ Ready' = Ready
  BY <1>1, SameCall
<1>3. PICK N, R, M, h, W, D, E, n :
        /\ N = numEBlock /\ R = nRecord /\ M = length /\ h = numHeavy /\ W = WantedOf
        /\ D = dump /\ E = dump' /\ n = ScanCount
  OBVIOUS
<1>4. Numbered(N, R, M, h) /\ n \in Nat /\ n <= M
  BY <1>1, <1>3, CallNumbered
<1>5. N \in Nat /\ N > 0 /\ M \in Nat /\ M > 0 /\ h \in Nat
  BY <1>4, NumberedFacts
<1>6. PICK lo \in Nat : lo = 0
  OBVIOUS
<1>7. ASSUME Ready PROVE AtWrite(N, R, M, W, E)
  <2>1. AtSort(N, R, M, n, W, D)
    BY <1>1, <1>3, <1>7 DEF LightInv
  <2>2. PICK s, net : /\ s \in Nat \ {0} /\ n <= s /\ s <= M
                      /\ net \in Seq(Within(lo, s)) /\ SortedBy(net, lo, s, TRUE)
                      /\ E = Applied(net, D, "id", TRUE)
    <3>1. CASE isBEx
      <4>1. PICK s \in Nat \ {0} : s = 2 * N
        BY <1>5
      <4>2. testPo2(N) /\ testPo2(s)
        BY <1>3, <1>5, <1>7, <3>1, <4>1, PowerTwice DEF Ready
      <4>3. E = Applied(oddEvenMergeSort[<<lo, s>>], D, "id", TRUE)
        BY <1>3, <1>6, <3>1, <4>1, <4>2 DEF SortAll, Run
      <4>4. E = Applied(Sorter(lo, s), D, "id", TRUE)
        BY <4>2, <4>3 DEF Sorter
      <4>5. Sorter(lo, s) \in Seq(Within(lo, s)) /\ SortedBy(Sorter(lo, s), lo, s, TRUE)
        BY <4>1, SorterSorts
      <4>6. n = s
        BY <1>3, <3>1, <4>1 DEF ScanCount
      <4>7. n <= s /\ s <= M /\ s \in Nat
        BY <1>4, <4>1, <4>6
      <4> QED
        BY <4>1, <4>4, <4>5, <4>7
    <3>2. CASE ~isBEx
      <4>1. PICK s \in Nat \ {0} : s = M
        BY <1>5
      <4>2. E = Applied(SortNetwork(lo, s), D, "id", TRUE)
        BY <1>3, <1>6, <3>2, <4>1 DEF SortAll, Run
      <4>3. SortNetwork(lo, s) \in Seq(Within(lo, s)) /\ SortedBy(SortNetwork(lo, s), lo, s, TRUE)
        BY <4>1, NetworkSorts
      <4>4. n <= s /\ s <= M /\ s \in Nat
        BY <1>4, <1>5, <4>1
      <4> QED
        BY <4>1, <4>2, <4>3, <4>4
    <3> QED
      BY <3>1, <3>2
  <2>3. net \in Seq(Within(0, s)) /\ SortedBy(net, 0, s, TRUE)
    BY <1>6, <2>2
  <2> QED
    BY <1>4, <2>1, <2>2, <2>3, SortLeads
<1>8. Ready' => AtWrite(numEBlock', nRecord', length', WantedOf', dump')
  BY <1>2, <1>3, <1>7
<1> QED
  BY <1>1, <1>2, <1>8 DEF LightInv, Stages

LEMMA WriteBackKeeps ==
  ASSUME LightInv, WriteBack
  PROVE  LightInv'
<1>1. Args /\ UNCHANGED args /\ pc = "write" /\ pc' = "done"
  BY DEF LightInv, WriteBack
<1>2. /\ Args' /\ Ready' = Ready /\ Counters' = Counters /\ \A c \in Counters : Wanted(c)' = Wanted(c)
  BY <1>1, SameCall
<1>3. PICK N, R, M, h, W, D, E :
        /\ N = numEBlock /\ R = nRecord /\ M = length /\ h = numHeavy /\ W = WantedOf
        /\ D = dump /\ E = pLight'
  OBVIOUS
<1>4. Numbered(N, R, M, h) /\ N \in Numbers /\ R \in Numbers
  <2>1. Numbered(N, R, M, h)
    BY <1>1, <1>3, CallNumbered
  <2> QED
    BY <2>1 DEF Numbered
<1>5. ASSUME Ready, NEW c \in Counters PROVE E[c] = Wanted(c)
  <2>1. AtWrite(N, R, M, W, D)
    BY <1>1, <1>3, <1>5 DEF LightInv
  <2>2. c \in 0 .. N * R - 1
    BY <1>3 DEF Counters
  <2>3. PICK b, r : b = c \div R /\ r = c % R
    OBVIOUS
  <2>4. b \in 0 .. N - 1 /\ r \in 0 .. R - 1 /\ b * R + r = c
    BY <1>4, <2>2, <2>3, BlockOf
  <2>5. D[b].data[r] = W[b * R + r]
    BY <1>4, <2>1, <2>4, WriteLeads
  <2>6. E[c] = D[b].data[r]
    BY <1>3, <2>3 DEF WriteBack
  <2> QED
    BY <1>3, <2>4, <2>5, <2>6 DEF WantedOf
<1>6. Ready' => \A c \in Counters' : pLight'[c] = Wanted(c)'
  BY <1>2, <1>3, <1>5
<1> QED
  BY <1>1, <1>2, <1>6 DEF LightInv, Stages

\* One item more is in the counters.
LEMMA MostNext ==
  ASSUME Args, NEW j \in 0 .. numHeavy - 1, NEW L \in [Counters -> 0 .. MaxCount],
         \A c \in Counters : Most(c, j, L[c]), NEW E,
         E = [L EXCEPT ![pHeavy[j].cid] = Max({Cap(pHeavy[j].size), L[pHeavy[j].cid]})]
  PROVE  E \in [Counters -> 0 .. MaxCount] /\ \A c \in Counters : Most(c, j + 1, E[c])
<1>1. PICK idx, s : idx = pHeavy[j].cid /\ s = Cap(pHeavy[j].size)
  OBVIOUS
<1>2. idx \in Counters /\ s \in 0 .. MaxCount
  <2>1. pHeavy[j].cid \in Counters /\ pHeavy[j].size \in Nat
    BY DEF Args
  <2> QED
    BY <1>1, <2>1, CapIs
<1>3. MaxCount \in Nat
  BY ValueAssumption
<1>4. PICK v, w : v = L[idx] /\ w = Max({s, v})
  OBVIOUS
<1>5. v \in 0 .. MaxCount /\ w \in 0 .. MaxCount /\ v <= w /\ s <= w /\ (w = s \/ w = v)
  <2>1. v \in 0 .. MaxCount
    BY <1>2, <1>4
  <2>2. v \in Nat /\ s \in Nat
    BY <1>2, <1>3, <2>1
  <2>3. s <= Max({s, v}) /\ v <= Max({s, v}) /\ (Max({s, v}) = s \/ Max({s, v}) = v)
    BY <2>2, LargerIs
  <2> QED
    BY <1>2, <1>4, <2>1, <2>3
<1>6. E = [L EXCEPT ![idx] = w]
  BY <1>1, <1>4
<1>7. E \in [Counters -> 0 .. MaxCount]
  BY <1>2, <1>5, <1>6
<1>8. j \in Nat /\ \A g \in 0 .. (j + 1) - 1 : g \in 0 .. j - 1 \/ g = j
  <2>1. numHeavy \in Nat
    BY CallFacts DEF Args, Numbers
  <2> QED
    BY <2>1
<1>9. ASSUME NEW c \in Counters PROVE Most(c, j + 1, E[c])
  <2>1. /\ L[c] \in 0 .. MaxCount /\ light[c] <= L[c]
        /\ \A g \in 0 .. j - 1 : pHeavy[g].cid = c => Cap(pHeavy[g].size) <= L[c]
        /\ L[c] = light[c] \/ \E g \in 0 .. j - 1 : pHeavy[g].cid = c /\ L[c] = Cap(pHeavy[g].size)
    BY DEF Most
  <2>2. \A g \in 0 .. j - 1 : g \in 0 .. (j + 1) - 1
    BY <1>8
  <2>3. j \in 0 .. (j + 1) - 1
    BY <1>8
  <2>4. CASE c = idx
    <3>1. E[c] = w /\ L[c] = v
      BY <1>2, <1>4, <1>6, <2>4
    <3>2. light[c] \in Nat /\ v \in Nat /\ w \in Nat
      <4>1. light[c] \in 0 .. MaxCount
        BY DEF Args
      <4> QED
        BY <1>3, <1>5, <4>1
    <3>3. light[c] <= w
      BY <1>5, <2>1, <3>1, <3>2
    <3>4. ASSUME NEW g \in 0 .. (j + 1) - 1, pHeavy[g].cid = c PROVE Cap(pHeavy[g].size) <= w
      <4>1. CASE g = j
        BY <1>1, <1>5, <4>1
      <4>2. CASE g \in 0 .. j - 1
        <5>1. PICK u : u = Cap(pHeavy[g].size)
          OBVIOUS
        <5>2. u \in Nat
          <6>1. g \in 0 .. numHeavy - 1
            <7>1. numHeavy \in Nat
              BY CallFacts DEF Args, Numbers
            <7> QED
              BY <4>2, <7>1
          <6>2. pHeavy[g].size \in Nat
            BY <6>1 DEF Args
          <6>3. u \in 0 .. MaxCount
            BY <5>1, <6>2, CapIs
          <6> QED
            BY <1>3, <6>3
        <5>3. u <= v
          BY <2>1, <3>1, <3>4, <4>2, <5>1
        <5> QED
          BY <1>5, <3>2, <5>1, <5>2, <5>3
      <4> QED
        BY <1>8, <4>1, <4>2
    <3>5. w = light[c] \/ \E g \in 0 .. (j + 1) - 1 : pHeavy[g].cid = c /\ w = Cap(pHeavy[g].size)
      <4>1. CASE w = s
        BY <1>1, <2>3, <2>4, <4>1
      <4>2. CASE w = v
        BY <2>1, <2>2, <3>1, <4>2
      <4> QED
        BY <1>5, <4>1, <4>2
    <3> QED
      BY <1>5, <3>1, <3>3, <3>4, <3>5 DEF Most
  <2>5. CASE c # idx
    <3>1. E[c] = L[c]
      BY <1>6, <2>5
    <3>2. \A g \in 0 .. (j + 1) - 1 : pHeavy[g].cid = c => g \in 0 .. j - 1
      BY <1>1, <1>8, <2>5
    <3> QED
      BY <2>1, <2>2, <3>1, <3>2 DEF Most
  <2> QED
    BY <2>4, <2>5
<1> QED
  BY <1>7, <1>9

\* What one item does to a light part.
Updated(L, j) == [L EXCEPT ![pHeavy[j].cid] = Max({Cap(pHeavy[j].size), L[pHeavy[j].cid]})]

LEMMA ItemKeeps ==
  ASSUME LightInv, pc = "fill", i < numHeavy, UNCHANGED args, i' = i + 1, pLight' = Updated(pLight, i),
         pc' = IF i' = numHeavy THEN "done" ELSE pc
  PROVE  LightInv'
<1>1. /\ Args /\ i \in 0 .. numHeavy - 1 /\ pLight \in [Counters -> 0 .. MaxCount]
      /\ \A c \in Counters : Most(c, i, pLight[c])
  BY DEF LightInv
<1>2. /\ numHeavy' = numHeavy /\ Counters' = Counters /\ Args' /\ Ready' = Ready
      /\ \A c \in Counters : Wanted(c)' = Wanted(c)
      /\ \A c, m, v : Most(c, m, v)' = Most(c, m, v)
  BY <1>1, SameCall
<1>3. PICK j, E, L, h : j = i /\ E = pLight' /\ L = pLight /\ h = numHeavy
  OBVIOUS
<1>4. h \in Nat
  BY <1>1, <1>3, CallFacts DEF Args, Numbers
<1>5. E \in [Counters -> 0 .. MaxCount] /\ \A c \in Counters : Most(c, j + 1, E[c])
  <2>1. E = [L EXCEPT ![pHeavy[j].cid] = Max({Cap(pHeavy[j].size), L[pHeavy[j].cid]})]
    BY <1>3 DEF Updated
  <2> QED
    BY <1>1, <1>3, <2>1, MostNext
<1>6. CASE j + 1 = h
  <2>1. pc' = "done"
    BY <1>3, <1>6
  <2>2. \A c \in Counters : E[c] = Wanted(c)
    <3> TAKE c \in Counters
    <3>1. PICK m, v, w : m = h /\ v = E[c] /\ w = Wanted(c)
      OBVIOUS
    <3>2. Most(c, m, v)
      BY <1>5, <1>6, <3>1
    <3>3. Most(c, m, w)
      BY <1>1, <1>3, <3>1, WantedMost
    <3> QED
      BY <3>1, <3>2, <3>3, MostOne
  <2>3. \A c \in Counters' : pLight'[c] = Wanted(c)'
    BY <1>2, <1>3, <2>2
  <2> QED
    BY <1>2, <2>1, <2>3 DEF LightInv, Stages
<1>7. CASE j + 1 # h
  <2>1. pc' = "fill"
    BY <1>3, <1>7
  <2>2. i' \in 0 .. numHeavy' - 1
    BY <1>1, <1>2, <1>3, <1>4, <1>7
  <2>3. (pLight \in [Counters -> 0 .. MaxCount] /\ \A c \in Counters : Most(c, i, pLight[c]))'
    <3>1. light' = light /\ pHeavy' = pHeavy /\ i' = j + 1 /\ pLight' = E
      BY <1>3 DEF args
    <3>2. \A c \in Counters : Most(c, j + 1, E[c])
      BY <1>5
    <3>3. (\A c \in Counters : Most(c, i, pLight[c]))'
      BY <1>2, <3>1, <3>2 DEF Most
    <3> QED
      BY <1>2, <1>5, <3>1, <3>3
  <2> QED
    BY <1>2, <2>1, <2>2, <2>3 DEF LightInv, Stages
<1> QED
  BY <1>6, <1>7

LEMMA UpdateItemKeeps ==
  ASSUME LightInv, UpdateItem
  PROVE  LightInv'
<1>1. pLight' = Updated(pLight, i)
  BY DEF UpdateItem, Updated
<1> QED
  BY <1>1, ItemKeeps DEF UpdateItem

\* UpdateCUSketch_Scan writes the counters before idx, idx itself, and those
\* behind it: the light part is changed from idx on.
Passed(pL, idx, size, n) ==
  LET after[c \in 0 .. n] ==
        IF c = 0 THEN pL
        ELSE LET p == after[c - 1]
             IN [p EXCEPT ![idx] = IF c - 1 = idx THEN Max({size, p[c - 1]}) ELSE @]
  IN after

Put(L, c, v) == [L EXCEPT ![c] = v]

LEMMA PassedIs ==
  ASSUME NEW n \in Nat, NEW pL \in [0 .. n - 1 -> 0 .. MaxCount], NEW idx \in 0 .. n - 1,
         NEW size \in 0 .. MaxCount, NEW w, w = Max({size, pL[idx]})
  PROVE  Passed(pL, idx, size, n)[n] = Put(pL, idx, w)
<1>1. PICK A : A = [0 .. n - 1 -> 0 .. MaxCount]
  OBVIOUS
<1>2. PICK F : F = [q \in A \X (1 .. n) |->
                      [q[1] EXCEPT ![idx] = IF q[2] - 1 = idx THEN Max({size, q[1][q[2] - 1]}) ELSE @]]
  OBVIOUS
<1>3. ASSUME NEW y \in A, NEW k \in 1 .. n
      PROVE  [y EXCEPT ![idx] = IF k - 1 = idx THEN Max({size, y[k - 1]}) ELSE @] \in A
  <2>1. \A v \in 0 .. MaxCount : [y EXCEPT ![idx] = v] \in A
    BY <1>1, <1>3
  <2>2. PICK a : a = y[idx]
    OBVIOUS
  <2>3. a \in 0 .. MaxCount
    BY <1>1, <1>3, <2>2
  <2>4. Max({size, a}) \in 0 .. MaxCount
    <3>1. MaxCount \in Nat
      BY ValueAssumption
    <3>2. a \in Nat /\ size \in Nat
      BY <2>3, <3>1
    <3>3. Max({size, a}) = size \/ Max({size, a}) = a
      BY <3>2, LargerIs
    <3> QED
      BY <2>3, <3>3
  <2>5. CASE k - 1 = idx
    BY <2>1, <2>2, <2>4, <2>5
  <2>6. CASE k - 1 # idx
    BY <2>1, <2>2, <2>3, <2>6
  <2> QED
    BY <2>5, <2>6
<1>4. F \in [A \X (1 .. n) -> A]
  BY <1>2, <1>3
<1>5. PICK f \in [0 .. n -> A] : f = [k \in 0 .. n |-> IF k = 0 THEN pL ELSE F[<<f[k - 1], k>>]]
  <2>1. n \in Nat /\ pL \in A /\ F \in [A \X (1 .. n) -> A]
    BY <1>1, <1>4
  <2>2. \E f \in [0 .. n -> A] : Turns(n, pL, F, f)
    BY <2>1, LoopExists
  <2> QED
    BY <2>2 DEF Turns
<1>6. \A k \in 0 .. n : k # 0 =>
        F[<<f[k - 1], k>>] = LET p == f[k - 1]
                             IN [p EXCEPT ![idx] = IF k - 1 = idx THEN Max({size, p[k - 1]}) ELSE @]
  <2> SUFFICES ASSUME NEW k \in 0 .. n, k # 0
               PROVE  F[<<f[k - 1], k>>] = LET p == f[k - 1]
                                           IN [p EXCEPT ![idx] = IF k - 1 = idx THEN Max({size, p[k - 1]}) ELSE @]
    OBVIOUS
  <2>1. k - 1 \in 0 .. n /\ k \in 1 .. n
    OBVIOUS
  <2>2. PICK y \in A : y = f[k - 1]
    BY <2>1
  <2>3. F[<<y, k>>] = [y EXCEPT ![idx] = IF k - 1 = idx THEN Max({size, y[k - 1]}) ELSE @]
    BY <1>2, <2>1
  <2> QED
    BY <2>2, <2>3
<1>7. f = [k \in 0 .. n |-> IF k = 0 THEN pL
                            ELSE LET p == f[k - 1]
                                 IN [p EXCEPT ![idx] = IF k - 1 = idx THEN Max({size, p[k - 1]}) ELSE @]]
  BY <1>5, <1>6
<1>8. PICK g : g = Passed(pL, idx, size, n)
  OBVIOUS
<1>9. g = [k \in 0 .. n |-> IF k = 0 THEN pL
                            ELSE LET p == g[k - 1]
                                 IN [p EXCEPT ![idx] = IF k - 1 = idx THEN Max({size, p[k - 1]}) ELSE @]]
  BY <1>7, <1>8, Zenon DEF Passed
<1>10. PICK E : E = [pL EXCEPT ![idx] = w] /\ E = Put(pL, idx, w)
  BY DEF Put
<1> DEFINE T == {k \in 0 .. n : g[k] = IF idx < k THEN E ELSE pL}
<1>11. 0 \in T
  <2>1. g[0] = pL /\ 0 \in 0 .. n /\ ~ (idx < 0)
    BY <1>9
  <2> QED
    BY <2>1
<1>12. ASSUME NEW k \in 1 .. n, k - 1 \in T PROVE k \in T
  <2>1. PICK j : j = k - 1
    OBVIOUS
  <2>2. k \in 0 .. n /\ k # 0 /\ j \in Nat
    BY <2>1
  <2>3. PICK p : p = g[j]
    OBVIOUS
  <2>4. p = IF idx < j THEN E ELSE pL
    BY <1>12, <2>1, <2>3
  <2>5. g[k] = [p EXCEPT ![idx] = IF j = idx THEN Max({size, p[j]}) ELSE @]
    BY <1>9, <2>1, <2>2, <2>3
  <2>6. CASE j = idx
    <3>1. p = pL /\ idx < k
      BY <2>1, <2>2, <2>4, <2>6
    <3>2. g[k] = [p EXCEPT ![idx] = Max({size, p[idx]})]
      BY <2>5, <2>6
    <3>3. g[k] = E
      BY <1>10, <3>1, <3>2
    <3> QED
      BY <2>2, <3>1, <3>3
  <2>7. CASE j # idx
    <3>1. g[k] = [p EXCEPT ![idx] = p[idx]]
      BY <2>5, <2>7
    <3>2. g[k] = p
      BY <1>10, <2>4, <3>1
    <3>3. idx < k <=> idx < j
      BY <2>1, <2>2, <2>7
    <3> QED
      BY <2>2, <2>4, <3>2, <3>3
  <2> QED
    BY <2>6, <2>7
<1>13. n \in T
  <2> HIDE DEF T
  <2>1. 0 .. n \subseteq T
    BY <1>11, <1>12, LoopKeeps
  <2> QED
    BY <2>1
<1>14. g[n] = E
  <2>1. idx < n
    OBVIOUS
  <2> QED
    BY <1>13, <2>1
<1>15. E = Put(pL, idx, w)
  BY <1>10
<1> QED
  BY <1>8, <1>14, <1>15

LEMMA UpdateByScanKeeps ==
  ASSUME LightInv, UpdateByScan
  PROVE  LightInv'
<1>1. PICK idx, size, n, pL : /\ idx = pHeavy[i].cid /\ size = Cap(pHeavy[i].size)
                              /\ n = numEBlock * nRecord /\ pL = pLight
  OBVIOUS
<1>2. /\ Args /\ i \in 0 .. numHeavy - 1 /\ pL \in [Counters -> 0 .. MaxCount]
  BY <1>1 DEF LightInv, UpdateByScan
<1>3. n \in Nat /\ Counters = 0 .. n - 1
  <2>1. numEBlock \in Nat /\ nRecord \in Nat
    BY <1>2, CallFacts DEF Args, Numbers
  <2>2. n \in Nat
    BY <1>1, <2>1, ProductUp
  <2> QED
    BY <1>1, <2>2 DEF Counters
<1>4. idx \in 0 .. n - 1 /\ size \in 0 .. MaxCount
  <2>1. pHeavy[i].cid \in Counters /\ pHeavy[i].size \in Nat
    BY <1>2 DEF Args
  <2> QED
    BY <1>1, <1>3, <2>1, CapIs
<1>5. pLight' = Passed(pL, idx, size, n)[n]
  BY <1>1 DEF UpdateByScan, Passed
<1>6. PICK w : w = Max({size, pL[idx]})
  OBVIOUS
<1>7. Passed(pL, idx, size, n)[n] = Put(pL, idx, w)
  <2>1. pL \in [0 .. n - 1 -> 0 .. MaxCount]
    BY <1>2, <1>3
  <2> QED
    BY <1>3, <1>4, <1>6, <2>1, PassedIs
<1>8. pLight' = Updated(pLight, i)
  BY <1>1, <1>5, <1>6, <1>7 DEF Updated, Put
<1> QED
  BY <1>8, ItemKeeps DEF UpdateByScan

LEMMA SameKeeps ==
  ASSUME LightInv, UNCHANGED vars
  PROVE  LightInv'
<1>1. /\ UNCHANGED args /\ pLight' = pLight /\ dump' = dump /\ tmpB' = tmpB /\ cond' = cond /\ i' = i /\ pc' = pc
  BY DEF vars, scan
<1>2. call' = call /\ light' = light /\ pHeavy' = pHeavy
  BY <1>1 DEF args
<1>3. /\ numEBlock' = numEBlock /\ nRecord' = nRecord /\ numHeavy' = numHeavy /\ isBEx' = isBEx
      /\ length' = length /\ Counters' = Counters /\ Args' = Args /\ WantedOf' = WantedOf
      /\ ScanCount' = ScanCount /\ Ready' = Ready /\ \A c \in Counters : Wanted(c)' = Wanted(c)
  BY <1>1, SameCall
<1>4. (\A c \in Counters : Most(c, i, pLight[c]))' = (\A c \in Counters : Most(c, i, pLight[c]))
  BY <1>1, <1>2, <1>3 DEF Most
<1>5. (\A c \in Counters : pLight[c] = Wanted(c))' = (\A c \in Counters : pLight[c] = Wanted(c))
  BY <1>1, <1>3
<1> QED
  BY <1>1, <1>3, <1>4, <1>5 DEF LightInv

\* What the steps of an update keep, of every version, with every light part,
\* every list of heavy items and whatever the uninitialised memory holds: the
\* arguments do not change, a plain update has put the items up to i into the
\* counters, and an oblivious one is at a stage of its own: the blocks of the
\* array and the one that is held have, for each counter, its wanted value as
\* their maximum, and they are in order where the next step relies on it.
THEOREM LightInvariant == Spec => []LightInv
<1>1. Init => LightInv
  BY LightInit
<1>2. LightInv /\ [Next]_vars => LightInv'
  <2> SUFFICES ASSUME LightInv, [Next]_vars PROVE LightInv'
    OBVIOUS
  <2>1. CASE Fill
    BY <2>1, FillKeeps
  <2>2. CASE SortHeavy
    BY <2>2, SortHeavyKeeps
  <2>3. CASE Merge
    BY <2>3, MergeKeeps
  <2>4. CASE Scan
    BY <2>4, ScanKeeps
  <2>5. CASE ScanLast
    BY <2>5, ScanLastKeeps
  <2>6. CASE SortAll
    BY <2>6, SortAllKeeps
  <2>7. CASE WriteBack
    BY <2>7, WriteBackKeeps
  <2>8. CASE UpdateItem
    BY <2>8, UpdateItemKeeps
  <2>9. CASE UpdateByScan
    BY <2>9, UpdateByScanKeeps
  <2>10. CASE UNCHANGED vars
    BY <2>10, SameKeeps
  <2> QED
    BY <2>1, <2>2, <2>3, <2>4, <2>5, <2>6, <2>7, <2>8, <2>9, <2>10 DEF Next
<1> QED
  BY <1>1, <1>2, PTL DEF Spec

\* OUpdateCUSketch_BEx may drop the blocks behind the first 2*numEBlock before
\* its merge, whatever the number of heavy items: all that is there are dummies.
THEOREM NothingBehindMergeHolds == Spec => []NothingBehindMerge
<1>1. LightInv => NothingBehindMerge
  <2> SUFFICES ASSUME LightInv, pc = "merge", isBEx, NEW k \in 2 * numEBlock .. length - 1
               PROVE  dump[k].id = DUMMY_FLOW
    BY DEF NothingBehindMerge
  <2>1. PICK N, M : N = numEBlock /\ M = length
    OBVIOUS
  <2>2. N \in Nat /\ M \in Nat
    <3>1. Numbered(numEBlock, nRecord, length, numHeavy)
      BY CallNumbered DEF LightInv
    <3> QED
      BY <2>1, <3>1 DEF Numbered, Numbers
  <2>3. dump \in [0 .. M - 1 -> BlocksOf(N, nRecord)] /\ EndsAt(dump, 2 * N)
    BY <2>1 DEF LightInv, AtMergeBEx, Holds
  <2>4. k \in 0 .. M - 1 /\ 2 * N <= k
    BY <2>1, <2>2
  <2> QED
    BY <2>3, <2>4 DEF EndsAt
<1> QED
  BY <1>1, LightInvariant, PTL

\* What the callers of OUpdateCUSketch_BEx must see to: the light part has a
\* power of two of blocks.  The 7680 blocks of the default configuration are none
\* (run light_default); every other version takes any number.
MergesPowers == \A c \in Calls : c.version = "OUpdateCUSketch_BEx" => testPo2(c.numEBlock)

\* Then every version leaves in every counter the maximum of its value and of
\* the sizes, up to 255, of the heavy items that hash to it: through two sorts,
\* the merge and the two scans of BEx, and whatever the uninitialised memory holds.
THEOREM LightUpdatedHolds ==
  ASSUME MergesPowers
  PROVE  Spec => []LightUpdated
<1>1. LightInv => LightUpdated
  <2> SUFFICES ASSUME LightInv, pc = "done" PROVE \A c \in Counters : pLight[c] = Wanted(c)
    BY DEF LightUpdated
  <2>1. Ready
    BY DEF Ready, isBEx, numEBlock, MergesPowers, LightInv, Args
  <2> QED
    BY <2>1 DEF LightInv
<1> QED
  BY <1>1, LightInvariant, PTL

\* And when the scan over all blocks is over, each light block is there once
\* and holds what was wanted of all its counters: no run of the sorted array was
\* cut in two, and none was folded into its neighbour.
THEOREM OnePerBlockHolds ==
  ASSUME MergesPowers
  PROVE  Spec => []OnePerBlock
<1>1. LightInv => OnePerBlock
  <2> SUFFICES ASSUME LightInv, pc = "sort", NEW b \in 0 .. numEBlock - 1
               PROVE  /\ \E k \in 0 .. Count - 1 : dump[k].id = b
                      /\ \A k \in 0 .. Count - 1 : dump[k].id = b =>
                           /\ \A l \in 0 .. Count - 1 : dump[l].id = b => l = k
                           /\ \A r \in Records : dump[k].data[r] = Wanted(b * nRecord + r)
    BY DEF OnePerBlock
  <2>1. Ready
    BY DEF Ready, isBEx, numEBlock, MergesPowers, LightInv, Args
  <2>2. PICK N, R, M, h, n, W, D : /\ N = numEBlock /\ R = nRecord /\ M = length /\ h = numHeavy
                                   /\ n = Count /\ W = WantedOf /\ D = dump
    OBVIOUS
  <2>3. n = ScanCount
    BY <2>2 DEF Count, ScanCount
  <2>4. Numbered(N, R, M, h) /\ n \in Nat /\ n <= M
    BY <2>2, <2>3, CallNumbered DEF LightInv
  <2>5. N \in Numbers /\ R \in Numbers /\ N < DUMMY_FLOW /\ N \in Nat /\ R \in Nat /\ R > 0 /\ M \in Nat
    BY <2>4, NumberedFacts DEF Numbered
  <2>6. /\ D \in [0 .. M - 1 -> BlocksOf(N, R)] /\ Merges(Among(D) \cup {}, N, R, W)
        /\ EndsAt(D, n) /\ Once(D, 0 .. M - 1)
    BY <2>1, <2>2, <2>3 DEF LightInv, AtSort, Holds
  <2>7. b \in 0 .. N - 1 /\ b # DUMMY_FLOW
    BY <2>2, <2>5, IdFacts
  <2>8. PICK B : B = Among(D) \cup {}
    OBVIOUS
  <2>9. \A k \in 0 .. n - 1 : k \in 0 .. M - 1
    BY <2>4, <2>5
  <2>10. ASSUME NEW k \in 0 .. n - 1, NEW l \in 0 .. n - 1, D[k].id = b, D[l].id = b PROVE l = k
    BY <2>6, <2>7, <2>9, <2>10 DEF Once
  <2>11. ASSUME NEW r \in 0 .. R - 1
         PROVE  \E k \in 0 .. n - 1 : D[k].id = b /\ D[k].data[r] = W[b * R + r]
    <3>1. Top(B, b, r, W[b * R + r])
      BY <2>6, <2>7, <2>8, <2>11 DEF Merges
    <3>2. PICK x \in B : x.id = b /\ x.data[r] = W[b * R + r]
      BY <3>1 DEF Top
    <3>3. PICK k \in 0 .. M - 1 : x = D[k]
      BY <2>6, <2>8, <3>2 DEF Among
    <3>4. k \in 0 .. n - 1
      <4> SUFFICES ASSUME n <= k PROVE FALSE
        BY <2>4, <2>5
      <4>1. D[k].id = DUMMY_FLOW
        BY <2>6 DEF EndsAt
      <4> QED
        BY <2>7, <3>2, <3>3, <4>1
    <3> QED
      BY <3>2, <3>3, <3>4
  <2>12. \E k \in 0 .. n - 1 : D[k].id = b
    <3>1. PICK r \in 0 .. R - 1 : r = 0
      BY <2>5
    <3> QED
      BY <2>11
  <2>13. ASSUME NEW k \in 0 .. n - 1, D[k].id = b, NEW r \in Records
         PROVE  D[k].data[r] = Wanted(b * nRecord + r)
    <3>1. r \in 0 .. R - 1
      BY <2>2 DEF Records
    <3>2. PICK j \in 0 .. n - 1 : D[j].id = b /\ D[j].data[r] = W[b * R + r]
      BY <2>11, <3>1
    <3>3. j = k
      BY <2>10, <2>13, <3>2
    <3>4. PICK c : c = b * R + r
      OBVIOUS
    <3>5. c \in Counters
      <4>1. c \in 0 .. N * R - 1
        BY <2>5, <2>7, <3>1, <3>4, CounterOf
      <4> QED
        BY <2>2, <4>1 DEF Counters
    <3>6. W[c] = Wanted(c)
      BY <2>2, <3>5 DEF WantedOf
    <3> QED
      BY <2>2, <3>2, <3>3, <3>4, <3>6
  <2> QED
    BY <2>2, <2>10, <2>12, <2>13
<1> QED
  BY <1>1, LightInvariant, PTL
================================================================================
