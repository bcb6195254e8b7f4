-------------------------------- MODULE SortNet --------------------------------
(***************************************************************************)
(* The comparator networks of OPrimitive.h, as sequences of the calls       *)
(* compare(i, j, dir) they make.  They depend on the length alone.          *)
(*                                                                         *)
(* oddEvenMergeSort and oddEvenMerge are those of OddEvenMergeSorter, whose *)
(* compare has no direction; bitonicSort and bitonicMerge are those of      *)
(* BitonicSorter; paddedSort and paddedMerge are those of the two copies    *)
(* BitonicSorter_CDist and BitonicSorter_8, which fill the array up to a    *)
(* power of two.                                                            *)
(***************************************************************************)
EXTENDS Integers, Sequences

\* A piece of the array: where it starts, its length, and the
\* direction, or for oddEvenMerge the distance of the elements to be compared.
Pieces  == Nat \X Nat \X BOOLEAN
Strided == Nat \X Nat \X (Nat \ {0})

oddEvenMerge[piece \in Strided] ==
  LET lo == piece[1]  n == piece[2]  r == piece[3]
      m == 2 * r
      at(k) == lo + r + (k - 1) * m
  IN IF m < n
     THEN oddEvenMerge[<<lo, n, m>>] \o oddEvenMerge[<<lo + r, n, m>>]
            \o [k \in 1 .. (n - 1) \div m |-> <<at(k), at(k) + r, TRUE>>]
     ELSE << <<lo, lo + r, TRUE>> >>

oddEvenMergeSort[piece \in Nat \X Nat] ==
  LET lo == piece[1]  n == piece[2]
      m == n \div 2
  IN IF n > 1
     THEN oddEvenMergeSort[<<lo, m>>] \o oddEvenMergeSort[<<lo + m, m>>] \o oddEvenMerge[<<lo, n, 1>>]
     ELSE <<>>

\* k after e turns of the loop `while (k < n) k = k << 1`, from 1.
Doubled[e \in Nat] == IF e = 0 THEN 1 ELSE 2 * Doubled[e - 1]

\* Mutant: half of n, as for a power of two.
HalfOf(n) == n \div 2

\* For n >= 2.
greatestPowerOfTwoLessThan(n) ==
  CHOOSE k \in {Doubled[e] : e \in 0 .. n} : k < n /\ n <= 2 * k

\* Mutant: the loop of bitonicMerge runs to lo+n-m inclusive.
HalfCompareOver(lo, count, distance, dir) ==
  [k \in 1 .. count + 1 |-> <<lo + k - 1, lo + k - 1 + distance, dir>>]

\* The loop of bitonicMerge.
HalfCompare(lo, count, distance, dir) ==
  [k \in 1 .. count |-> <<lo + k - 1, lo + k - 1 + distance, dir>>]

bitonicMerge[piece \in Pieces] ==
  LET lo == piece[1]  n == piece[2]  dir == piece[3]
      m == greatestPowerOfTwoLessThan(n)
  IN IF n > 1
     THEN HalfCompare(lo, n - m, m, dir) \o bitonicMerge[<<lo, m, dir>>] \o bitonicMerge[<<lo + m, n - m, dir>>]
     ELSE <<>>

bitonicSort[piece \in Pieces] ==
  LET lo == piece[1]  n == piece[2]  dir == piece[3]
      m == n \div 2
  IN IF n > 1
     THEN bitonicSort[<<lo, m, ~dir>>] \o bitonicSort[<<lo + m, n - m, dir>>] \o bitonicMerge[<<lo, n, dir>>]
     ELSE <<>>

paddedMerge[piece \in Pieces] ==
  LET lo == piece[1]  n == piece[2]  dir == piece[3]
      m == n \div 2
  IN IF n > 1
     THEN HalfCompare(lo, m, m, dir) \o paddedMerge[<<lo, m, dir>>] \o paddedMerge[<<lo + m, m, dir>>]
     ELSE <<>>

paddedSort[piece \in Pieces] ==
  LET lo == piece[1]  n == piece[2]  dir == piece[3]
      m == n \div 2
  IN IF n > 1
     THEN paddedSort[<<lo, m, TRUE>>] \o paddedSort[<<lo + m, m, FALSE>>] \o paddedMerge[<<lo, n, dir>>]
     ELSE <<>>

\* The smallest power of two that is not below n.
PowerAbove(n) == CHOOSE k \in {Doubled[e] : e \in 0 .. n} : n <= k /\ k < 2 * n

testPo2(n) == n = PowerAbove(n)

\* Mutant: tmp is taken after the first element has been written.
OSwapLate(List, i, j, cond) ==
  LET first == [List EXCEPT ![i] = IF cond THEN List[j] ELSE List[i]]
  IN [first EXCEPT ![j] = IF cond THEN first[i] ELSE List[j]]

\* OSwap4, OSwap8, OSwapEx: the oblivious exchange, through tmp.
OSwap(List, i, j, cond) ==
  LET tmp == IF cond THEN List[i] ELSE List[j]
  IN [List EXCEPT ![i] = IF cond THEN List[j] ELSE List[i], ![j] = tmp]

\* A whole call of sort or merge: the compares of its network, one after the
\* other, by a field of the elements, of which the larger ones go up or down.
Applied(net, List, field, up) ==
  LET greater(a, b) == IF up THEN a[field] > b[field] ELSE a[field] < b[field]
      after[k \in 0 .. Len(net)] ==
        IF k = 0 THEN List
        ELSE LET d == after[k - 1]  c == net[k]
             IN OSwap(d, c[1], c[2], c[3] = greater(d[c[1]], d[c[2]]))
  IN after[Len(net)]
================================================================================
