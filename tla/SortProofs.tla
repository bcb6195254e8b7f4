------------------------------- MODULE SortProofs -------------------------------
(***************************************************************************)
(* The sorters stay in their array, rearrange it and leave it in order, for  *)
(* every length and every choice of keys.                                  *)
(*                                                                         *)
(* Order is proved one threshold at a time: a compare of two keys moves the  *)
(* keys that are not below the threshold as if there were only two keys, so  *)
(* that the whole array is sorted when every threshold finds it sorted.     *)
(***************************************************************************)
EXTENDS Sorting, NetProofs
--------------------------------------------------------------------------------
(* The calls of sort and merge.                                               *)

\* Index(j) consists of numbers: 0 .. Length(j) - 1.
LEMMA LengthIs ==
  ASSUME NEW j \in Jobs
  PROVE  /\ j.num \in Nat \ {0} /\ Length(j) \in Nat /\ j.num <= Length(j)
         /\ \E e \in Nat : PowerAbove(j.num) = Doubled[e]
<1>1. j.num \in Nat \ {0}
  BY JobAssumption
<1>2. PICK e \in Nat : PowerAbove(j.num) = Doubled[e] /\ j.num <= Doubled[e]
  BY <1>1, PowerIs
<1>3. Doubled[e] \in Nat
  BY DoubledFacts
<1> QED
  BY <1>1, <1>2, <1>3 DEF Length

LEMMA IndexNat == \A j \in Jobs : Index(j) \subseteq Nat /\ 0 .. j.num - 1 \subseteq Nat
  BY LengthIs DEF Index

\* Compares within a piece at the start of the array are compares of the array.
LEMMA WithinIndex ==
  ASSUME NEW j \in Jobs, NEW net \in Seq(Within(0, Length(j)))
  PROVE  /\ net \in Seq(Index(j) \X Index(j) \X BOOLEAN)
         /\ \A k \in DOMAIN net : net[k][1] < net[k][2]
<1> DEFINE W == Within(0, Length(j))
<1>1. Length(j) \in Nat
  BY LengthIs
<1>2. W \subseteq Index(j) \X Index(j) \X BOOLEAN
  <2>1. ASSUME NEW c \in W PROVE c \in Index(j) \X Index(j) \X BOOLEAN
    <3>1. c \in Nat \X Nat \X BOOLEAN /\ 0 <= c[1] /\ c[1] < c[2] /\ c[2] < Length(j)
      BY <1>1 DEF Within
    <3>2. c = <<c[1], c[2], c[3]>> /\ c[1] \in Nat /\ c[2] \in Nat /\ c[3] \in BOOLEAN
      BY <3>1
    <3>3. c[1] \in Index(j) /\ c[2] \in Index(j)
      BY <1>1, <3>1, <3>2 DEF Index
    <3> HIDE DEF W
    <3> QED
      BY <3>2, <3>3
  <2> QED
    BY <2>1
<1>3. \A c \in W : c[1] < c[2]
  BY DEF Within
<1>4. \A k \in DOMAIN net : net[k] \in W
  <2> HIDE DEF W
  <2>1. net \in Seq(W)
    BY DEF W
  <2> QED
    BY <2>1
<1>5. net \in Seq(Index(j) \X Index(j) \X BOOLEAN)
  <2> HIDE DEF W
  <2>1. net \in Seq(W)
    BY DEF W
  <2> QED
    BY <1>2, <2>1, NetsLarger
<1> QED
  BY <1>3, <1>4, <1>5

LEMMA SortIn ==
  ASSUME NEW j \in Jobs, j.num >= 2, Accepts(j), j.op = "sort"
  PROVE  Sort(j) \in Seq(Within(0, Length(j)))
<1>1. PICK e \in Nat : PowerAbove(j.num) = Doubled[e]
  BY LengthIs
<1>2. j.num \in Nat /\ Length(j) \in Nat
  BY LengthIs
<1>t. TRUE \in BOOLEAN
  BY Zenon
<1>3. CASE j.sorter = "OddEvenMergeSorter"
  <2>1. Sort(j) = oddEvenMergeSort[<<0, j.num>>] /\ Length(j) = j.num
    BY <1>3 DEF Sort, Length
  <2>2. j.num = Doubled[e]
    BY <1>1, <1>3 DEF Accepts, testPo2
  <2> QED
    BY <2>1, <2>2, oddEvenMergeSortIn
<1>4. CASE j.sorter = "BitonicSorter"
  <2>1. Sort(j) = bitonicSort[<<0, j.num, TRUE>>] /\ Length(j) = j.num
    BY <1>4 DEF Sort, Length
  <2>2. bitonicSort[<<0, j.num, TRUE>>] \in Seq(Within(0, j.num))
    BY <1>2, <1>t, bitonicSortIn
  <2> QED
    BY <2>1, <2>2
<1>5. CASE j.sorter = "BitonicSorter_CDist"
  <2>1. Sort(j) = paddedSort[<<0, PowerAbove(j.num), TRUE>>] /\ Length(j) = PowerAbove(j.num)
    BY <1>5 DEF Sort, Length
  <2>2. paddedSort[<<0, Length(j), TRUE>>] \in Seq(Within(0, Length(j)))
    BY <1>2, <1>t, paddedSortIn
  <2> QED
    BY <2>1, <2>2
<1> QED
  BY <1>3, <1>4, <1>5, JobAssumption DEF Sorters

LEMMA MergeIn ==
  ASSUME NEW j \in Jobs, j.num >= 2, Accepts(j), j.op = "merge"
  PROVE  Merge(j) \in Seq(Within(0, Length(j)))
<1>1. PICK e \in Nat : PowerAbove(j.num) = Doubled[e]
  BY LengthIs
<1>2. j.num \in Nat /\ Length(j) \in Nat
  BY LengthIs
<1>t. TRUE \in BOOLEAN
  BY Zenon
<1>3. CASE j.sorter = "OddEvenMergeSorter"
  <2>1. Merge(j) = oddEvenMerge[<<0, j.num, 1>>] /\ Length(j) = j.num
    BY <1>3 DEF Merge, Length
  <2>2. j.num = Doubled[e]
    BY <1>1, <1>3 DEF Accepts, testPo2
  <2>3. e # 0
    BY <1>2, <2>2, DoubledFacts
  <2>4. e - 1 \in Nat /\ (e - 1) + 1 = e
    BY <2>3
  <2>5. j.num = 1 * (2 * Doubled[e - 1]) /\ j.num - 1 + 1 = j.num
    BY <1>2, <2>2, <2>4, DoubledFacts
  <2>6. oddEvenMerge[<<0, j.num, 1>>] \in Seq(Within(0, j.num - 1 + 1))
    BY <2>4, <2>5, oddEvenMergeIn
  <2> QED
    BY <2>1, <2>5, <2>6
<1>4. CASE j.sorter = "BitonicSorter"
  <2>1. Merge(j) = bitonicMerge[<<0, j.num, TRUE>>] /\ Length(j) = j.num
    BY <1>4 DEF Merge, Length
  <2>2. bitonicMerge[<<0, j.num, TRUE>>] \in Seq(Within(0, j.num))
    BY <1>2, <1>t, bitonicMergeIn
  <2> QED
    BY <2>1, <2>2
<1> QED
  BY <1>3, <1>4, JobAssumption DEF Sorters

\* Every network stays in the array it is run on, for every length.
LEMMA AllInArray == ASSUME NEW j \in Jobs PROVE InArray(j)
<1>1. Network[j] = IF j.num < 2 \/ ~Accepts(j) THEN <<>> ELSE IF j.op = "sort" THEN Sort(j) ELSE Merge(j)
  BY DEF Network
<1>2. j.num \in Nat /\ j.op \in {"sort", "merge"}
  BY JobAssumption
<1>3. CASE j.num < 2 \/ ~Accepts(j)
  BY <1>1, <1>3 DEF InArray
<1>4. CASE j.num >= 2 /\ Accepts(j)
  <2>1. Network[j] \in Seq(Within(0, Length(j)))
    BY <1>1, <1>2, <1>4, SortIn, MergeIn
  <2> QED
    BY <2>1, WithinIndex DEF InArray
<1> QED
  BY <1>2, <1>3, <1>4

\* The inductive invariant: types, and the array is a rearrangement.
Inv == TypeOK /\ Rearranged

\* The array starts as the input, whose elements differ by their origin.
LEMMA InitInv == Init => Inv
<1> SUFFICES ASSUME Init PROVE Inv
  OBVIOUS
<1> job \in Jobs
  BY DEF Init
<1>1. PICK keys \in [0 .. job.num - 1 -> Keys] : input = Padded(job, keys)
  BY DEF Init
<1>2. input \in [Index(job) -> Element(job)]
  <2>1. ASSUME NEW k \in Index(job)
        PROVE  [key |-> IF k < job.num THEN keys[k] ELSE PadKey, origin |-> k] \in Element(job)
    <3>1. k < job.num => k \in 0 .. job.num - 1
      BY IndexNat, LengthIs
    <3> QED
      BY <3>1, <1>1 DEF Element
  <2> QED
    BY <2>1, <1>1 DEF Padded
<1>3. \A k \in Index(job) : input[k].origin = k
  BY <1>1 DEF Padded
<1>4. Len(Network[job]) \in Nat
  BY AllInArray DEF InArray
<1>5. TypeOK
  BY <1>2, <1>4 DEF Init, TypeOK
<1>6. Rearranged
  BY <1>3 DEF Init, Rearranged
<1> QED
  BY <1>5, <1>6 DEF Inv

\* Each compare exchanges two elements or none.
LEMMA CompareInv == ASSUME Inv, Compare PROVE Inv'
<1> DEFINE c == Network[job][step + 1]
           cond == c[3] = (List[c[1]].key > List[c[2]].key)
<1> job \in Jobs /\ List \in [Index(job) -> Element(job)] /\ step \in Nat
  BY DEF Inv, TypeOK
<1>1. /\ Len(Network[job]) \in Nat /\ step + 1 \in DOMAIN Network[job]
      /\ c \in Index(job) \X Index(job) \X BOOLEAN /\ c[1] < c[2]
  <2> DEFINE S == Index(job) \X Index(job) \X BOOLEAN
  <2>1. Network[job] \in Seq(S)
    BY AllInArray DEF InArray
  <2>2. \A k \in DOMAIN Network[job] : Network[job][k][1] < Network[job][k][2]
    BY AllInArray DEF InArray
  <2>3. step < Len(Network[job])
    BY DEF Compare
  <2> HIDE DEF S
  <2>4. /\ Len(Network[job]) \in Nat /\ DOMAIN Network[job] = 1 .. Len(Network[job])
        /\ \A k \in DOMAIN Network[job] : Network[job][k] \in S
    BY <2>1
  <2>5. step + 1 \in DOMAIN Network[job]
    BY <2>3, <2>4
  <2> QED
    BY <2>2, <2>4, <2>5 DEF S
<1>2. c[1] \in Index(job) /\ c[2] \in Index(job) /\ c[1] # c[2]
  BY <1>1, IndexNat
<1>3. List' = OSwap(List, c[1], c[2], cond) /\ step' = step + 1 /\ UNCHANGED <<job, input>>
  BY DEF Compare
<1> HIDE DEF c
<1>4. /\ List' \in [Index(job) -> Element(job)]
      /\ cond => List'[c[1]] = List[c[2]] /\ List'[c[2]] = List[c[1]]
      /\ ~cond => List'[c[1]] = List[c[1]] /\ List'[c[2]] = List[c[2]]
      /\ \A k \in Index(job) \ {c[1], c[2]} : List'[k] = List[k]
  <2> HIDE DEF cond
  <2>1. List \in [Index(job) -> Element(job)]
    OBVIOUS
  <2>2. CASE cond
    BY <2>1, <2>2, <1>2, <1>3 DEF OSwap
  <2>3. CASE ~cond
    BY <2>1, <2>3, <1>2, <1>3 DEF OSwap
  <2> QED
    BY <2>2, <2>3
<1>5. TypeOK'
  <2>1. step < Len(Network[job])
    BY DEF Compare
  <2> QED
    BY <1>1, <1>3, <1>4, <2>1 DEF Inv, TypeOK
<1>6. Rearranged'
  <2> HIDE DEF cond
  <2>1. ASSUME NEW k \in Index(job) PROVE \E l \in Index(job) : List'[k] = List[l]
    BY <1>2, <1>4
  <2>2. ASSUME NEW k \in Index(job), NEW l \in Index(job), k # l PROVE List'[k] # List'[l]
    <3>1. \A m, n \in Index(job) : m # n => List[m] # List[n]
      BY DEF Inv, Rearranged
    <3> QED
      BY <3>1, <2>2, <1>2, <1>4
  <2>3. \A k \in Index(job) : \E l \in Index(job) : List[k] = input[l]
    BY DEF Inv, Rearranged
  <2>4. \A k \in Index(job) : \E l \in Index(job) : List'[k] = input[l]
    BY <2>1, <2>3
  <2>5. Index(job') = Index(job) /\ input' = input
    BY <1>3
  <2> QED
    BY <2>2, <2>4, <2>5 DEF Rearranged
<1> QED
  BY <1>5, <1>6 DEF Inv

LEMMA InvAlways == Spec => []Inv
<1>1. Init => Inv
  BY InitInv
<1>2. Inv /\ [Next]_vars => Inv'
  <2> SUFFICES ASSUME Inv, [Next]_vars PROVE Inv'
    OBVIOUS
  <2>1. CASE Compare
    BY <2>1, CompareInv
  <2>2. CASE UNCHANGED vars
    BY <2>2 DEF vars, Inv, TypeOK, Rearranged
  <2> QED
    BY <2>1, <2>2 DEF Next
<1> QED
  BY <1>1, <1>2, PTL DEF Spec

\* A sorter keeps the elements of its array, each in one copy, whole, at every
\* step, for every length and every choice of keys: OSwap and the sorters'
\* compare never duplicate, lose or tear an element.
THEOREM SortRearranges == Spec => []Rearranged
<1>1. Inv => Rearranged
  BY DEF Inv
<1> QED
  BY <1>1, InvAlways, PTL

\* The recursions of oddEvenMergeSort, oddEvenMerge, bitonicSort, bitonicMerge
\* and of the padded copies, whatever the length they are called for, compare
\* only places of the array, the lower one first: no compare reads or writes
\* outside of it.
THEOREM SortComparesInArray == Spec => []ComparesInArray
<1>1. Inv => ComparesInArray
  BY AllInArray DEF Inv, TypeOK, ComparesInArray
<1> QED
  BY <1>1, InvAlways, PTL
--------------------------------------------------------------------------------
(* A call of sort or merge leaves the array in order.                         *)

\* The places whose key is not below t.
Above(j, A, t) == {k \in Index(j) : A[k].key >= t}

\* Ascending keys are sorted for every threshold, descending ones the reverse.
LEMMA AscendsSorted ==
  ASSUME NEW lo \in Nat, NEW n \in Nat, NEW keys, \A k \in lo .. lo + n - 1 : keys[k] \in Int, NEW t \in Int,
         NEW W, \A k \in 0 .. n - 1 : lo + k \in W <=> keys[lo + k] >= t,
         Ascends(keys, lo, lo + n - 1)
  PROVE  SortedOn(W, lo, n)
<1> DEFINE T == {k \in 0 .. n : k = n \/ lo + k \in W}
<1>1. PICK p \in T : \A k \in T : p <= k
  <2>1. n \in T /\ T \in SUBSET Nat
    OBVIOUS
  <2> HIDE DEF T
  <2> QED
    BY <2>1, LeastNat
<1>2. \A k \in 0 .. n - 1 : k < p => lo + k \notin W
  BY <1>1
<1>3. 0 .. n \subseteq {k \in Nat : p <= k /\ k < n => lo + k \in W}
  <2> DEFINE U == {k \in Nat : p <= k /\ k < n => lo + k \in W}
  <2>1. 0 \in U
    BY <1>1
  <2>2. ASSUME NEW k \in Nat, k \in U, k < n PROVE k + 1 \in U
    <3> SUFFICES ASSUME p <= k + 1, k + 1 < n PROVE lo + (k + 1) \in W
      OBVIOUS
    <3>1. CASE p = k + 1
      BY <1>1, <3>1
    <3>2. CASE p <= k
      <4>1. lo + k \in W /\ k \in 0 .. n - 1 /\ k + 1 \in 0 .. n - 1
        BY <2>2, <3>2
      <4>2. keys[lo + k] >= t
        BY <4>1
      <4>3. PICK i : i = lo + k
        OBVIOUS
      <4>4. i \in lo .. lo + n - 1 - 1 /\ i \in lo .. lo + n - 1 /\ i + 1 \in lo .. lo + n - 1
        BY <4>1, <4>3
      <4>5. keys[i] <= keys[i + 1] /\ keys[i] \in Int /\ keys[i + 1] \in Int
        BY <4>4 DEF Ascends
      <4>6. keys[i + 1] >= t
        BY <4>2, <4>3, <4>5
      <4>7. i + 1 = lo + (k + 1)
        BY <4>3
      <4> QED
        BY <4>1, <4>6, <4>7
    <3>3. p \in Nat
      BY <1>1
    <3> QED
      BY <3>1, <3>2, <3>3
  <2> HIDE DEF U
  <2>3. 0 .. n \subseteq U
    BY <2>1, <2>2, UpTo
  <2> QED
    BY <2>3 DEF U
<1>4. \A k \in 0 .. n - 1 : lo + k \in W <=> p <= k
  <2>1. \A k \in 0 .. n - 1 : k \in 0 .. n /\ k < n /\ (p <= k \/ k < p)
    BY <1>1
  <2> QED
    BY <1>2, <1>3, <2>1
<1>5. p \in 0 .. n
  BY <1>1
<1> HIDE DEF T
<1> QED
  BY <1>4, <1>5 DEF SortedOn

FallsOn(W, lo, n) == \E p \in 0 .. n : \A k \in 0 .. n - 1 : lo + k \in W <=> k < p

LEMMA DescendsSorted ==
  ASSUME NEW lo \in Nat, NEW n \in Nat, NEW keys, \A k \in lo .. lo + n - 1 : keys[k] \in Int, NEW t \in Int,
         NEW W, \A k \in 0 .. n - 1 : lo + k \in W <=> keys[lo + k] >= t,
         Descends(keys, lo, lo + n - 1)
  PROVE  FallsOn(W, lo, n)
<1> DEFINE neg == [k \in lo .. lo + n - 1 |-> 0 - keys[k]]
           V   == {lo + k : k \in {l \in 0 .. n - 1 : lo + l \notin W}}
<1>1. \A k \in lo .. lo + n - 1 : neg[k] \in Int /\ neg[k] = 0 - keys[k]
  OBVIOUS
<1>2. \A k \in 0 .. n - 1 : lo + k \in V <=> lo + k \notin W
  <2> TAKE k \in 0 .. n - 1
  <2>1. ASSUME lo + k \in V PROVE lo + k \notin W
    <3>1. PICK l \in 0 .. n - 1 : lo + l \notin W /\ lo + k = lo + l
      BY <2>1
    <3> QED
      BY <3>1
  <2> QED
    BY <2>1
<1> HIDE DEF V
<1>3. \A k \in 0 .. n - 1 : lo + k \in V <=> neg[lo + k] >= 1 - t
  <2> TAKE k \in 0 .. n - 1
  <2>1. PICK i : i = lo + k
    OBVIOUS
  <2>2. i \in lo .. lo + n - 1
    BY <2>1
  <2>3. keys[i] \in Int /\ neg[i] = 0 - keys[i]
    BY <1>1, <2>2
  <2>4. (i \in W <=> keys[i] >= t) /\ (i \in V <=> i \notin W)
    BY <1>2, <2>1
  <2>5. ~(keys[i] >= t) <=> 0 - keys[i] >= 1 - t
    BY <2>3
  <2> HIDE DEF neg
  <2> QED
    BY <2>1, <2>3, <2>4, <2>5
<1>4. Ascends(neg, lo, lo + n - 1)
  <2>1. ASSUME NEW k \in lo .. lo + n - 1 - 1 PROVE neg[k] <= neg[k + 1]
    <3>1. k \in lo .. lo + n - 1 /\ k + 1 \in lo .. lo + n - 1
      OBVIOUS
    <3>2. keys[k] >= keys[k + 1] /\ keys[k] \in Int /\ keys[k + 1] \in Int
      BY <3>1 DEF Descends
    <3> QED
      BY <3>1, <3>2
  <2> HIDE DEF neg
  <2> QED
    BY <2>1 DEF Ascends
<1> HIDE DEF neg
<1>5. SortedOn(V, lo, n)
  <2>1. 1 - t \in Int
    OBVIOUS
  <2>2. \A k \in lo .. lo + n - 1 : neg[k] \in Int
    BY <1>1
  <2> QED
    BY <1>3, <1>4, <2>1, <2>2, AscendsSorted
<1>6. PICK p \in 0 .. n : \A k \in 0 .. n - 1 : lo + k \in V <=> p <= k
  BY <1>5 DEF SortedOn
<1>7. \A k \in 0 .. n - 1 : lo + k \in W <=> k < p
  <2>1. \A k \in 0 .. n - 1 : p <= k <=> ~(k < p)
    OBVIOUS
  <2> QED
    BY <1>2, <1>6, <2>1
<1> QED
  BY <1>7 DEF FallsOn

LEMMA NetworkNets == ASSUME NEW j \in Jobs PROVE Network[j] \in Nets
<1>1. Network[j] = IF j.num < 2 \/ ~Accepts(j) THEN <<>> ELSE IF j.op = "sort" THEN Sort(j) ELSE Merge(j)
  BY DEF Network
<1>2. j.num \in Nat /\ j.op \in {"sort", "merge"}
  BY JobAssumption
<1>3. CASE j.num < 2 \/ ~Accepts(j)
  BY <1>1, <1>3 DEF Nets
<1>4. CASE j.num >= 2 /\ Accepts(j)
  <2>1. Network[j] \in Seq(Within(0, Length(j)))
    BY <1>1, <1>2, <1>4, SortIn, MergeIn
  <2> QED
    BY <2>1, WithinNets
<1> QED
  BY <1>2, <1>3, <1>4

\* What merge is given, as one threshold sees it.
LEMMA GivenShapes ==
  ASSUME NEW j \in Jobs, j.op = "merge", NEW keys \in [0 .. j.num - 1 -> Keys], Given(j, keys), NEW t \in Int,
         NEW m, m = j.num \div 2, NEW Z, Z = Above(j, Padded(j, keys), t)
  PROVE  /\ j.num = Length(j) /\ m \in Nat
         /\ j.sorter = "OddEvenMergeSorter" => SortedOn(Z, 0, m) /\ SortedOn(Z, m, j.num - m)
         /\ j.sorter # "OddEvenMergeSorter" => Valley(Z, 0, j.num)
<1>1. PICK n : n = j.num
  OBVIOUS
<1>2. n \in Nat \ {0} /\ Length(j) = n /\ m \in Nat /\ m <= n /\ n - m \in Nat /\ Index(j) = 0 .. n - 1
  <2>1. j.sorter # "BitonicSorter_CDist"
    BY JobAssumption
  <2>2. Length(j) = n /\ n \in Nat \ {0}
    BY <1>1, <2>1, LengthIs DEF Length
  <2> QED
    BY <1>1, <2>2 DEF Index
<1>3. \A k \in 0 .. n - 1 : keys[k] \in Int
  BY <1>1, KeyAssumption
<1>4. \A k \in 0 .. n - 1 : k \in Z <=> keys[k] >= t
  <2> TAKE k \in 0 .. n - 1
  <2>1. k \in Index(j) /\ k < j.num
    BY <1>1, <1>2
  <2>2. Padded(j, keys)[k].key = keys[k]
    BY <2>1 DEF Padded
  <2> QED
    BY <2>1, <2>2 DEF Above
<1>5. SortedOn(Z, m, n - m)
  <2>1. Ascends(keys, m, m + (n - m) - 1)
    <3>1. m + (n - m) - 1 = n - 1
      BY <1>2
    <3> QED
      BY <1>1, <3>1 DEF Given
  <2>2. \A k \in m .. m + (n - m) - 1 : keys[k] \in Int
    BY <1>2, <1>3
  <2>3. \A k \in 0 .. n - m - 1 : m + k \in Z <=> keys[m + k] >= t
    <3> TAKE k \in 0 .. n - m - 1
    <3>1. PICK i : i = m + k
      OBVIOUS
    <3>2. i \in 0 .. n - 1
      BY <1>2, <3>1
    <3> QED
      BY <1>4, <3>1, <3>2
  <2>4. PICK c : c = n - m
    OBVIOUS
  <2>5. c \in Nat
    BY <1>2, <2>4
  <2> QED
    BY <1>2, <2>1, <2>2, <2>3, <2>4, <2>5, AscendsSorted
<1>6. \A k \in 0 .. 0 + m - 1 : keys[k] \in Int
  BY <1>2, <1>3
<1>7. \A k \in 0 .. m - 1 : 0 + k \in Z <=> keys[0 + k] >= t
  <2>1. \A k \in 0 .. m - 1 : 0 + k = k /\ k \in 0 .. n - 1
    BY <1>2
  <2> QED
    BY <1>4, <2>1
<1>8. 0 + m - 1 = m - 1
  BY <1>2
<1>9. CASE j.sorter = "OddEvenMergeSorter"
  <2>1. Ascends(keys, 0, 0 + m - 1)
    BY <1>8, <1>9 DEF Given
  <2>2. SortedOn(Z, 0, m)
    BY <1>2, <1>6, <1>7, <2>1, AscendsSorted
  <2> QED
    BY <1>1, <1>2, <1>5, <1>9, <2>2
<1>10. CASE j.sorter # "OddEvenMergeSorter"
  <2>1. Descends(keys, 0, 0 + m - 1)
    BY <1>8, <1>10 DEF Given
  <2>a. FallsOn(Z, 0, m)
    BY <1>2, <1>6, <1>7, <2>1, DescendsSorted
  <2>2. PICK p \in 0 .. m : \A k \in 0 .. m - 1 : 0 + k \in Z <=> k < p
    BY <2>a DEF FallsOn
  <2>3. PICK q \in 0 .. n - m : \A k \in 0 .. n - m - 1 : m + k \in Z <=> q <= k
    BY <1>5 DEF SortedOn
  <2>4. ASSUME NEW k \in 0 .. n - 1 PROVE 0 + k \in Z <=> k < p \/ m + q <= k
    <3>1. CASE k < m
      BY <1>2, <2>2, <3>1
    <3>2. CASE ~(k < m)
      <4>1. PICK l : l = k - m
        OBVIOUS
      <4>2. l \in 0 .. n - m - 1 /\ m + l = k /\ 0 + k = k /\ (q <= l <=> m + q <= k) /\ ~(k < p)
        BY <1>2, <3>2, <4>1
      <4>3. m + l \in Z <=> q <= l
        BY <2>3, <4>2
      <4> QED
        BY <4>2, <4>3
    <3> QED
      BY <3>1, <3>2
  <2>5. PICK b : b = m + q
    OBVIOUS
  <2>6. p \in 0 .. n /\ b \in 0 .. n /\ p <= b
    BY <1>2, <2>5
  <2>7. Valley(Z, 0, n)
    BY <2>4, <2>5, <2>6 DEF Valley
  <2> QED
    BY <1>1, <1>2, <1>10, <2>7
<1> QED
  BY <1>9, <1>10

\* Each network sorts what it is given, for every threshold.
LEMMA NetworkSorts ==
  ASSUME NEW j \in Jobs, j.num >= 2, Accepts(j), NEW keys \in [0 .. j.num - 1 -> Keys], Given(j, keys), NEW t \in Int
  PROVE  SortedOn(After(Network[j], Above(j, Padded(j, keys), t)), 0, Length(j))
<1>1. PICK Z : Z = Above(j, Padded(j, keys), t)
  OBVIOUS
<1>2. Z \in SUBSET Nat
  BY <1>1, IndexNat DEF Above
<1>3. j.num \in Nat /\ j.op \in {"sort", "merge"} /\ j.sorter \in Sorters /\ Length(j) \in Nat
  BY JobAssumption, LengthIs
<1>4. Network[j] = IF j.op = "sort" THEN Sort(j) ELSE Merge(j)
  BY <1>3 DEF Network
<1>5. PICK e \in Nat : PowerAbove(j.num) = Doubled[e]
  BY LengthIs
<1>u. \A Y : Up(Y, TRUE) = Y
  BY DEF Up
<1>t. TRUE \in BOOLEAN
  OBVIOUS
<1>6. CASE j.op = "sort"
  <2>1. \E net : net = Network[j] /\ SortedBy(net, 0, Length(j), TRUE)
    <3>1. CASE j.sorter = "OddEvenMergeSorter"
      <4>1. Network[j] = oddEvenMergeSort[<<0, j.num>>] /\ Length(j) = j.num
        BY <1>4, <1>6, <3>1 DEF Sort, Length
      <4>2. j.num = Doubled[e]
        BY <1>5, <3>1 DEF Accepts, testPo2
      <4> QED
        BY <4>1, <4>2, oddEvenMergeSortSorts
    <3>2. CASE j.sorter = "BitonicSorter"
      <4>1. Network[j] = bitonicSort[<<0, j.num, TRUE>>] /\ Length(j) = j.num
        BY <1>4, <1>6, <3>2 DEF Sort, Length
      <4>2. SortedBy(bitonicSort[<<0, j.num, TRUE>>], 0, j.num, TRUE)
        BY <1>3, <1>t, bitonicSortSorts
      <4> QED
        BY <4>1, <4>2
    <3>3. CASE j.sorter = "BitonicSorter_CDist"
      <4>1. Network[j] = paddedSort[<<0, PowerAbove(j.num), TRUE>>] /\ Length(j) = PowerAbove(j.num)
        BY <1>4, <1>6, <3>3 DEF Sort, Length
      <4>2. SortedBy(paddedSort[<<0, Doubled[e], TRUE>>], 0, Doubled[e], TRUE)
        BY <1>t, paddedSortSorts
      <4> QED
        BY <1>5, <4>1, <4>2
    <3> QED
      BY <1>3, <3>1, <3>2, <3>3 DEF Sorters
  <2>2. SortedOn(Up(After(Network[j], Z), TRUE), 0, Length(j))
    BY <1>2, <2>1 DEF SortedBy
  <2> QED
    BY <1>1, <1>u, <2>2
<1>7. CASE j.op = "merge"
  <2>1. PICK m : m = j.num \div 2
    OBVIOUS
  <2>2. /\ j.num = Length(j) /\ m \in Nat
        /\ j.sorter = "OddEvenMergeSorter" => SortedOn(Z, 0, m) /\ SortedOn(Z, m, j.num - m)
        /\ j.sorter # "OddEvenMergeSorter" => Valley(Z, 0, j.num)
    BY <1>1, <1>7, <2>1, GivenShapes
  <2>3. CASE j.sorter = "OddEvenMergeSorter"
    <3>1. Network[j] = oddEvenMerge[<<0, j.num, 1>>]
      BY <1>4, <1>7, <2>3 DEF Merge
    <3>2. j.num = Doubled[e]
      BY <1>5, <2>3 DEF Accepts, testPo2
    <3>3. e - 1 \in Nat /\ (e - 1) + 1 = e
      BY <1>3, <3>2, DoubledFacts
    <3>4. PICK i : i = e - 1
      OBVIOUS
    <3>5. i \in Nat /\ Doubled[i + 1] = j.num
      BY <3>2, <3>3, <3>4
    <3>6. Doubled[i] = m /\ 2 * m = j.num /\ j.num - m = m
      BY <2>1, <3>5, PowerHalves
    <3>7. MergedEven(oddEvenMerge[<<0, j.num, 1>>], 0, m)
      BY <3>5, <3>6, oddEvenMergeWhole
    <3>8. SortedOn(Z, 0, m) /\ SortedOn(Z, 0 + m, m)
      BY <2>2, <2>3, <3>6
    <3> QED
      BY <1>1, <1>2, <2>2, <3>1, <3>6, <3>7, <3>8 DEF MergedEven
  <2>4. CASE j.sorter = "BitonicSorter"
    <3>1. Network[j] = bitonicMerge[<<0, j.num, TRUE>>]
      BY <1>4, <1>7, <2>4 DEF Merge
    <3>2. MergedBy(bitonicMerge[<<0, j.num, TRUE>>], 0, j.num, TRUE, FALSE)
      BY <1>3, <1>t, bitonicMergeSorts
    <3>3. Valley(Up(Z, TRUE), 0, j.num)
      BY <1>u, <2>2, <2>4
    <3>4. SortedOn(Up(After(Network[j], Z), TRUE), 0, j.num)
      BY <1>2, <3>1, <3>2, <3>3 DEF MergedBy
    <3> QED
      BY <1>1, <1>u, <2>2, <3>4
  <2>5. j.sorter # "BitonicSorter_CDist"
    BY <1>7, JobAssumption
  <2> QED
    BY <1>3, <2>3, <2>4, <2>5 DEF Sorters
<1> QED
  BY <1>3, <1>6, <1>7

\* The input is as Init gives it, and for every threshold the array is what the
\* compares done so far make of it.
InputGiven == \E keys \in [0 .. job.num - 1 -> Keys] : Given(job, keys) /\ input = Padded(job, keys)
Follows    == \A t \in Int : Above(job, List, t) = RunOf(Network[job], Above(job, input, t))[step]
OrderInv   == Inv /\ InputGiven /\ Follows

\* One compare, seen by one threshold.
LEMMA CompareMoves ==
  ASSUME Inv, Compare, NEW t \in Int
  PROVE  /\ step + 1 \in 1 .. Len(Network[job]) /\ Above(job, List, t) \in SUBSET Nat
         /\ Above(job, List', t) = Step(Above(job, List, t), Network[job][step + 1])
<1> DEFINE c == Network[job][step + 1]
           cond == c[3] = (List[c[1]].key > List[c[2]].key)
<1> job \in Jobs /\ List \in [Index(job) -> Element(job)] /\ step \in Nat
  BY DEF Inv, TypeOK
<1>1. /\ step + 1 \in 1 .. Len(Network[job])
      /\ c[1] \in Index(job) /\ c[2] \in Index(job) /\ c[3] \in BOOLEAN /\ c[1] < c[2]
  <2> DEFINE S == Index(job) \X Index(job) \X BOOLEAN
  <2>1. Network[job] \in Seq(S) /\ \A k \in DOMAIN Network[job] : Network[job][k][1] < Network[job][k][2]
    BY AllInArray DEF InArray
  <2>2. step < Len(Network[job])
    BY DEF Compare
  <2> HIDE DEF S
  <2>3. /\ Len(Network[job]) \in Nat /\ DOMAIN Network[job] = 1 .. Len(Network[job])
        /\ \A k \in DOMAIN Network[job] : Network[job][k] \in S
    BY <2>1
  <2>4. step + 1 \in 1 .. Len(Network[job]) /\ step + 1 \in DOMAIN Network[job]
    BY <2>2, <2>3
  <2>5. c \in Index(job) \X Index(job) \X BOOLEAN
    BY <2>3, <2>4 DEF S
  <2> QED
    BY <2>1, <2>4, <2>5
<1>2. c[1] # c[2]
  BY <1>1, IndexNat
<1>3. List' = OSwap(List, c[1], c[2], cond)
  BY DEF Compare
<1>k. \A k \in Index(job) : List[k].key \in Int
  BY KeyAssumption DEF Element
<1> HIDE DEF c
<1>4. /\ cond => List'[c[1]] = List[c[2]] /\ List'[c[2]] = List[c[1]]
      /\ ~cond => List'[c[1]] = List[c[1]] /\ List'[c[2]] = List[c[2]]
      /\ \A k \in Index(job) \ {c[1], c[2]} : List'[k] = List[k]
  <2> HIDE DEF cond
  <2>1. CASE cond
    BY <2>1, <1>1, <1>2, <1>3 DEF OSwap
  <2>2. CASE ~cond
    BY <2>2, <1>1, <1>2, <1>3 DEF OSwap
  <2> QED
    BY <2>1, <2>2
<1>5. PICK x, y, a, b : x = c[1] /\ y = c[2] /\ a = List[x].key /\ b = List[y].key
  OBVIOUS
<1>6. a \in Int /\ b \in Int /\ x \in Index(job) /\ y \in Index(job) /\ x # y
  BY <1>1, <1>2, <1>5, <1>k
<1>7. PICK Z, Y : Z = Above(job, List, t) /\ Y = Above(job, List', t)
  OBVIOUS
<1>8. Z \in SUBSET Nat /\ Z \subseteq Index(job) /\ Y \subseteq Index(job)
  BY <1>7, IndexNat DEF Above
<1>9. /\ x \in Z <=> a >= t
      /\ y \in Z <=> b >= t
      /\ \A k \in Index(job) \ {x, y} : k \in Y <=> k \in Z
      /\ cond => (x \in Y <=> b >= t) /\ (y \in Y <=> a >= t)
      /\ ~cond => (x \in Y <=> a >= t) /\ (y \in Y <=> b >= t)
  <2>1. (x \in Z <=> a >= t) /\ (y \in Z <=> b >= t)
    BY <1>5, <1>6, <1>7 DEF Above
  <2>2. \A k \in Index(job) \ {x, y} : k \in Y <=> k \in Z
    BY <1>4, <1>5, <1>7 DEF Above
  <2>3. cond => (x \in Y <=> b >= t) /\ (y \in Y <=> a >= t)
    <3> HIDE DEF cond
    <3> QED
      BY <1>4, <1>5, <1>6, <1>7 DEF Above
  <2>4. ~cond => (x \in Y <=> a >= t) /\ (y \in Y <=> b >= t)
    <3> HIDE DEF cond
    <3> QED
      BY <1>4, <1>5, <1>6, <1>7 DEF Above
  <2> QED
    BY <2>1, <2>2, <2>3, <2>4
<1>10. CASE c[3] = TRUE
  <2>1. cond <=> a > b
    BY <1>5, <1>10
  <2>2. Step(Z, c) = Move(Z, x, y)
    BY <1>5, <1>10 DEF Step
  <2> HIDE DEF cond
  <2>3. \A k \in Index(job) : k \in Y <=> k \in Move(Z, x, y)
    <3> TAKE k \in Index(job)
    <3>1. CASE k = x
      BY <1>6, <1>9, <2>1, <3>1 DEF Move
    <3>2. CASE k = y
      BY <1>6, <1>9, <2>1, <3>2 DEF Move
    <3>3. CASE k # x /\ k # y
      BY <1>9, <3>3 DEF Move
    <3> QED
      BY <3>1, <3>2, <3>3
  <2>4. Move(Z, x, y) \subseteq Index(job)
    BY <1>6, <1>8 DEF Move
  <2>5. Y = Move(Z, x, y)
    BY <1>8, <2>3, <2>4
  <2> QED
    BY <1>1, <1>7, <1>8, <2>2, <2>5 DEF c
<1>11. CASE c[3] = FALSE
  <2>1. cond <=> a <= b
    <3>1. cond <=> FALSE = (a > b)
      BY <1>5, <1>11, Zenon
    <3> HIDE DEF cond
    <3> QED
      BY <1>6, <3>1
  <2>2. Step(Z, c) = Move(Z, y, x)
    BY <1>5, <1>11 DEF Step
  <2> HIDE DEF cond
  <2>3. \A k \in Index(job) : k \in Y <=> k \in Move(Z, y, x)
    <3> TAKE k \in Index(job)
    <3>1. CASE k = x
      BY <1>6, <1>9, <2>1, <3>1 DEF Move
    <3>2. CASE k = y
      BY <1>6, <1>9, <2>1, <3>2 DEF Move
    <3>3. CASE k # x /\ k # y
      BY <1>9, <3>3 DEF Move
    <3> QED
      BY <3>1, <3>2, <3>3
  <2>4. Move(Z, y, x) \subseteq Index(job)
    BY <1>6, <1>8 DEF Move
  <2>5. Y = Move(Z, y, x)
    BY <1>8, <2>3, <2>4
  <2> QED
    BY <1>1, <1>7, <1>8, <2>2, <2>5 DEF c
<1> QED
  BY <1>1, <1>10, <1>11

LEMMA OrderInit == Init => OrderInv
<1> SUFFICES ASSUME Init PROVE OrderInv
  OBVIOUS
<1> job \in Jobs
  BY DEF Init
<1>1. Inv
  BY InitInv
<1>2. InputGiven
  BY DEF Init, InputGiven
<1>3. ASSUME NEW t \in Int PROVE Above(job, List, t) = RunOf(Network[job], Above(job, input, t))[step]
  <2>1. Above(job, input, t) \in SUBSET Nat
    BY IndexNat DEF Above
  <2>2. RunOf(Network[job], Above(job, input, t))[0] = Above(job, input, t)
    BY <2>1, NetworkNets, RunIs
  <2>3. List = input /\ step = 0
    BY DEF Init
  <2> QED
    BY <2>2, <2>3
<1> QED
  BY <1>1, <1>2, <1>3 DEF OrderInv, Follows

LEMMA OrderNext == OrderInv /\ [Next]_vars => OrderInv'
<1> SUFFICES ASSUME OrderInv, [Next]_vars PROVE OrderInv'
  OBVIOUS
<1> USE DEF OrderInv
<1>1. CASE Compare
  <2>1. Inv'
    BY <1>1, CompareInv
  <2>2. job \in Jobs /\ job' = job /\ input' = input /\ step' = step + 1 /\ step \in Nat
    BY <1>1 DEF Compare, Inv, TypeOK
  <2>3. InputGiven'
    BY <2>2 DEF InputGiven
  <2>4. ASSUME NEW t \in Int PROVE Above(job, List', t) = RunOf(Network[job], Above(job, input, t))[step + 1]
    <3>1. PICK W, Z, i : W = Above(job, input, t) /\ Z = Above(job, List, t) /\ i = step + 1
      OBVIOUS
    <3>2. W \in SUBSET Nat
      BY <2>2, <3>1, IndexNat DEF Above
    <3>3. i \in 1 .. Len(Network[job]) /\ i - 1 = step /\ Above(job, List', t) = Step(Z, Network[job][i])
      BY <1>1, <2>2, <3>1, CompareMoves
    <3>4. \A k \in 1 .. Len(Network[job]) : RunOf(Network[job], W)[k] = Step(RunOf(Network[job], W)[k - 1], Network[job][k])
      BY <2>2, <3>2, NetworkNets, RunIs
    <3>5. Z = RunOf(Network[job], W)[step]
      BY <3>1 DEF Follows
    <3> QED
      BY <3>1, <3>3, <3>4, <3>5
  <2>5. Follows'
    BY <2>2, <2>4 DEF Follows
  <2> QED
    BY <2>1, <2>3, <2>5
<1>2. CASE UNCHANGED vars
  <2>1. Inv'
    BY <1>2 DEF vars, Inv, TypeOK, Rearranged
  <2>2. InputGiven'
    BY <1>2 DEF vars, InputGiven
  <2>3. Follows'
    BY <1>2 DEF vars, Follows
  <2> QED
    BY <2>1, <2>2, <2>3
<1> QED
  BY <1>1, <1>2 DEF Next

LEMMA OrderAlways == Spec => []OrderInv
<1>1. Init => OrderInv
  BY OrderInit
<1>2. OrderInv /\ [Next]_vars => OrderInv'
  BY OrderNext
<1> QED
  BY <1>1, <1>2, PTL DEF Spec

\* When the last compare is done every threshold sees a sorted array.
LEMMA SeenSorted ==
  ASSUME OrderInv, Done, Accepts(job), job.num >= 2, NEW t \in Int
  PROVE  SortedOn(Above(job, List, t), 0, Length(job))
<1>1. job \in Jobs
  BY DEF OrderInv, Inv, TypeOK
<1>2. PICK keys \in [0 .. job.num - 1 -> Keys] : Given(job, keys) /\ input = Padded(job, keys)
  BY DEF OrderInv, InputGiven
<1>3. SortedOn(After(Network[job], Above(job, Padded(job, keys), t)), 0, Length(job))
  BY <1>1, <1>2, NetworkSorts
<1>4. Above(job, List, t) = RunOf(Network[job], Above(job, input, t))[Len(Network[job])]
  BY DEF OrderInv, Follows, Done
<1> QED
  BY <1>2, <1>3, <1>4 DEF After

\* So no two neighbours are in the wrong order: the threshold is the lower one's key.
LEMMA NeighboursSorted ==
  ASSUME OrderInv, Done, Accepts(job), job.num >= 2, NEW k \in 0 .. Length(job) - 2
  PROVE  List[k].key <= List[k + 1].key
<1>1. job \in Jobs /\ List \in [Index(job) -> Element(job)]
  BY DEF OrderInv, Inv, TypeOK
<1>2. Length(job) \in Nat
  BY <1>1, LengthIs
<1>3. k \in Index(job) /\ k + 1 \in Index(job)
  BY <1>2 DEF Index
<1>4. List[k].key \in Int /\ List[k + 1].key \in Int
  BY <1>1, <1>3, KeyAssumption DEF Element
<1>5. PICK t \in Int : t = List[k].key
  BY <1>4
<1>6. PICK p \in 0 .. Length(job) : \A q \in 0 .. Length(job) - 1 : 0 + q \in Above(job, List, t) <=> p <= q
  BY SeenSorted DEF SortedOn
<1>7. k \in Above(job, List, t)
  BY <1>3, <1>4, <1>5 DEF Above
<1>8. 0 + k = k /\ 0 + (k + 1) = k + 1 /\ k \in 0 .. Length(job) - 1 /\ k + 1 \in 0 .. Length(job) - 1
  BY <1>2
<1>9. p <= k /\ p <= k + 1
  BY <1>2, <1>6, <1>7, <1>8
<1>10. k + 1 \in Above(job, List, t)
  BY <1>6, <1>8, <1>9
<1> QED
  BY <1>5, <1>10 DEF Above

\* The padding stays behind: from a place with padding on there is only
\* padding, and there is no more of it than the array was filled up with.
LEMMA PaddingBehind ==
  ASSUME OrderInv, Done, Accepts(job), job.num >= 2, NEW k \in 0 .. job.num - 1
  PROVE  List[k].origin < job.num
<1> DEFINE n == job.num
           L == Length(job)
<1>1. job \in Jobs /\ List \in [Index(job) -> Element(job)] /\ Rearranged
  BY DEF OrderInv, Inv, TypeOK
<1>2. L \in Nat /\ n \in Nat \ {0} /\ n <= L /\ Index(job) = 0 .. L - 1
  BY <1>1, LengthIs DEF Index
<1>3. PICK keys \in [0 .. n - 1 -> Keys] : input = Padded(job, keys)
  BY DEF OrderInv, InputGiven
<1>4. \A l \in 0 .. L - 1 : input[l].origin = l /\ input[l].key = IF l < n THEN keys[l] ELSE PadKey
  BY <1>2, <1>3 DEF Padded
<1> HIDE DEF n, L
<1>5. ASSUME NEW i \in 0 .. L - 1
      PROVE  /\ List[i].origin \in 0 .. L - 1 /\ List[i] = input[List[i].origin]
             /\ List[i].key \in Int /\ (List[i].key >= PadKey <=> List[i].origin >= n)
  <2>1. PICK l \in 0 .. L - 1 : List[i] = input[l]
    BY <1>1, <1>2 DEF Rearranged
  <2>2. input[l].origin = l /\ input[l].key = IF l < n THEN keys[l] ELSE PadKey
    BY <1>4
  <2>3. l < n => keys[l] \in Int /\ keys[l] < PadKey
    <3> SUFFICES ASSUME l < n PROVE keys[l] \in Int /\ keys[l] < PadKey
      OBVIOUS
    <3>1. l \in 0 .. n - 1
      BY <1>2
    <3>2. keys[l] \in Keys
      BY <1>3, <3>1
    <3> QED
      BY <3>2, KeyAssumption
  <2>4. PadKey \in Int
    BY KeyAssumption
  <2> QED
    BY <1>2, <2>1, <2>2, <2>3, <2>4
<1> SUFFICES ASSUME List[k].origin >= n PROVE FALSE
  <2>1. k \in 0 .. L - 1
    BY <1>2 DEF n
  <2>2. List[k].origin \in 0 .. L - 1
    BY <1>5, <2>1
  <2> QED
    BY <1>2, <2>2 DEF n
<1>6. k \in 0 .. L - 1 /\ k < n
  BY <1>2 DEF n
<1>7. PICK p \in 0 .. L : \A q \in 0 .. L - 1 : 0 + q \in Above(job, List, PadKey) <=> p <= q
  BY SeenSorted, KeyAssumption DEF SortedOn, L
<1>8. \A q \in 0 .. L - 1 : q \in Above(job, List, PadKey) <=> p <= q
  BY <1>7
<1>9. \A q \in 0 .. L - 1 : q \in Above(job, List, PadKey) <=> List[q].origin >= n
  BY <1>2, <1>5 DEF Above
<1>10. p <= k
  BY <1>6, <1>8, <1>9
<1>11. \A q \in k .. L - 1 : List[q].origin \in n .. L - 1
  <2> TAKE q \in k .. L - 1
  <2>1. q \in 0 .. L - 1 /\ p <= q
    BY <1>6, <1>7, <1>10
  <2>2. List[q].origin \in 0 .. L - 1 /\ List[q].origin >= n
    BY <1>5, <1>8, <1>9, <2>1
  <2> QED
    BY <1>2, <2>2
<1>12. PICK f : f = [q \in k .. L - 1 |-> List[q].origin]
  OBVIOUS
<1>13. f \in [k .. L - 1 -> n .. L - 1]
  BY <1>11, <1>12
<1>14. \A a, b \in k .. L - 1 : f[a] = f[b] => a = b
  <2> SUFFICES ASSUME NEW a \in k .. L - 1, NEW b \in k .. L - 1, f[a] = f[b], a # b PROVE FALSE
    OBVIOUS
  <2>1. a \in 0 .. L - 1 /\ b \in 0 .. L - 1
    BY <1>6
  <2>2. List[a].origin = List[b].origin
    BY <1>12
  <2>3. List[a] = List[b]
    BY <1>5, <2>1, <2>2
  <2> QED
    BY <1>1, <1>2, <2>1, <2>3 DEF Rearranged
<1>15. IsFiniteSet(n .. L - 1) /\ Cardinality(n .. L - 1) = L - n /\ Cardinality(k .. L - 1) = L - k
  <2>1. n \in Int /\ k \in Int /\ L - 1 \in Int
    BY <1>2, <1>6
  <2>2. /\ IsFiniteSet(n .. L - 1)
        /\ Cardinality(n .. L - 1) = IF n > L - 1 THEN 0 ELSE (L - 1) - n + 1
    BY <2>1, FS_Interval
  <2>3. Cardinality(k .. L - 1) = IF k > L - 1 THEN 0 ELSE (L - 1) - k + 1
    BY <2>1, FS_Interval
  <2> QED
    BY <1>2, <1>6, <2>2, <2>3
<1>16. Cardinality(k .. L - 1) <= Cardinality(n .. L - 1)
  BY <1>13, <1>14, <1>15, OneToOne
<1> QED
  BY <1>2, <1>6, <1>15, <1>16

LEMMA OrderSorted == OrderInv => SortedAtEnd
<1> SUFFICES ASSUME OrderInv, Done, Accepts(job)
             PROVE  /\ \A k \in 0 .. job.num - 2 : List[k].key <= List[k + 1].key
                    /\ \A k \in 0 .. job.num - 1 : List[k].origin < job.num
  BY DEF SortedAtEnd
<1>1. job \in Jobs /\ List \in [Index(job) -> Element(job)]
  BY DEF OrderInv, Inv, TypeOK
<1>2. Length(job) \in Nat /\ job.num \in Nat \ {0} /\ job.num <= Length(job)
  BY <1>1, LengthIs
<1>3. CASE job.num >= 2
  <2>1. ASSUME NEW k \in 0 .. job.num - 2 PROVE List[k].key <= List[k + 1].key
    <3>1. k \in 0 .. Length(job) - 2
      BY <1>2
    <3> QED
      BY <1>3, <3>1, NeighboursSorted
  <2>2. ASSUME NEW k \in 0 .. job.num - 1 PROVE List[k].origin < job.num
    BY <1>3, PaddingBehind
  <2> QED
    BY <2>1, <2>2
<1>4. CASE job.num = 1
  <2>1. PowerAbove(1) = 1
    <3>1. Doubled[0] = 1 /\ \A e \in 0 .. 1 : Doubled[e] \in Nat
      BY DoubledFacts
    <3>2. PICK T : T = {Doubled[e] : e \in 0 .. 1}
      OBVIOUS
    <3>3. 1 \in T /\ T \subseteq Nat
      BY <3>1, <3>2
    <3>4. PowerAbove(1) = CHOOSE k \in T : 1 <= k /\ k < 2 * 1
      BY <3>2 DEF PowerAbove
    <3>5. PowerAbove(1) \in T /\ 1 <= PowerAbove(1) /\ PowerAbove(1) < 2 * 1
      BY <3>3, <3>4
    <3>6. PICK x : x = PowerAbove(1)
      OBVIOUS
    <3>7. x \in T /\ 1 <= x /\ x < 2 * 1
      BY <3>5, <3>6, Zenon
    <3>8. x \in Nat
      BY <3>3, <3>7
    <3>9. x = 1
      BY <3>7, <3>8
    <3> QED
      BY <3>6, <3>9
  <2>2. Length(job) = 1
    BY <1>4, <2>1 DEF Length
  <2>3. 0 \in Index(job) /\ Index(job) = {0}
    BY <2>2 DEF Index
  <2>4. List[0].origin \in Index(job)
    BY <1>1, <2>3 DEF Element
  <2>5. List[0].origin = 0
    BY <2>3, <2>4
  <2> QED
    BY <1>4, <2>5
<1> QED
  BY <1>2, <1>3, <1>4

\* A sorter that accepts the length returns the array in order, for every
\* length, every set of keys and every input: sort of OddEvenMergeSorter for
\* powers of two, of BitonicSorter for any length, of BitonicSorter_CDist and
\* BitonicSorter_8 with their padding, whose filling never reaches the places
\* copied back; and merge of the first two for the two runs that their callers
\* hand them (OPrimitive.h, compare, merge, sort).
THEOREM SortSorts == Spec => []SortedAtEnd
<1>1. OrderInv => SortedAtEnd
  BY OrderSorted
<1> QED
  BY <1>1, OrderAlways, PTL
====
