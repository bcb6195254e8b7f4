----------------------------- MODULE CountDistProofs -----------------------------
(***************************************************************************)
(* The flow size distribution, for every length and every list.  The scan of *)
(* the ordered functions leaves to the sort the sizes of the list with the    *)
(* numbers of their occurrences; and the plain functions, which take a list   *)
(* in any order, end with the same numbers.                                  *)
(***************************************************************************)
EXTENDS CountDist, NetProofs

\* The variables while the scan runs and after it.
Shape ==
  /\ version \in Versions /\ length \in Nat \ {0} /\ OrdArry \in [Places -> Sizes]
  /\ countDist \in [Places -> [size : Nat, count : Nat]]
  /\ curCount \in Nat /\ cond \in BOOLEAN /\ i \in Places

\* The order of the list, which the call relies on.
Ordered == \A k, l \in Places : k < l => OrdArry[k] = OrdArry[l] \/ Passes(OrdArry[k], OrdArry[l])

\* Entry k counts the run that ends, or passes, at k: the items before k that
\* are equal to it, back to one that differs.
RunAt(k) ==
  LET c == countDist[k].count
  IN /\ c \in 1 .. k + 1
     /\ \A l \in k - c + 1 .. k : OrdArry[l] = OrdArry[k]
     /\ k >= c => OrdArry[k - c] # OrdArry[k]
     /\ countDist[k].size = IF EndsRun(k) THEN OrdArry[k] ELSE MAX_SIZE

\* The locals of the scan: those of the run of the item before i.
Locals ==
  IF i = 0 THEN cond
  ELSE curCount = countDist[i - 1].count /\ cond = Passes(OrdArry[i - 1], OrdArry[i])

\* The inductive invariant.
ScanInv ==
  /\ pc \in {"scan", "sort", "plain", "done"}
  /\ pc = "scan" => Shape /\ Ordered /\ Locals /\ \A k \in Places : k < i => RunAt(k)
  /\ pc = "sort" => Shape /\ Ordered /\ \A k \in Places : RunAt(k)

\* Passing is a strict order of the sizes.
LEMMA PassesStrict ==
  ASSUME NEW a \in Sizes, NEW b \in Sizes
  PROVE  /\ Passes(a, b) => a # b
         /\ \A c \in Sizes : Passes(a, b) /\ Passes(b, c) => Passes(a, c)
  BY SizeAssumption DEF Passes

LEMMA InitScan == Init => ScanInv
<1> SUFFICES ASSUME Init, pc = "scan" PROVE Shape /\ Ordered /\ Locals /\ \A k \in Places : k < i => RunAt(k)
  BY DEF Init, ScanInv
<1> USE SizeAssumption, PlainAssumption
<1>0. version \in Versions
  BY DEF Init
<1>1. length \in Nat \ {0} /\ 0 \in Places
  <2>1. length \in Lengths \cup PlainLengths
    BY DEF Init
  <2>2. length \in Nat \ {0}
    BY <2>1
  <2> QED
    BY <2>2 DEF Places
<1>2. Shape
  BY <1>0, <1>1 DEF Init, Shape, Unwritten
<1>3. Ordered
  BY <1>0 DEF Init, Ordered
<1>4. Locals /\ \A k \in Places : ~(k < i)
  BY DEF Init, Locals, Places
<1> QED
  BY <1>2, <1>3, <1>4

\* The entry a step writes at i is that of its run, if the size is written
\* exactly at the end of the run.
LEMMA EntryRight ==
  ASSUME ScanInv, pc = "scan", NEW s,
         s = IF EndsRun(i) THEN OrdArry[i] ELSE MAX_SIZE,
         countDist' = [countDist EXCEPT ![i] = [size |-> s, count |-> Counted]],
         UNCHANGED <<version, length, OrdArry>>
  PROVE  /\ countDist' \in [Places -> [size : Nat, count : Nat]]
         /\ countDist'[i].count = Counted /\ Counted \in Nat
         /\ \A k \in Places : k <= i => RunAt(k)'
<1> USE SizeAssumption
<1>1. Shape /\ Ordered /\ Locals /\ \A k \in Places : k < i => RunAt(k)
  BY DEF ScanInv
<1>2. i \in Places /\ i \in Nat /\ length \in Nat /\ i < length
  BY <1>1 DEF Shape, Places
<1>3. s \in Nat /\ Counted \in Nat
  BY <1>1 DEF Shape, Counted
<1>4. /\ countDist' \in [Places -> [size : Nat, count : Nat]]
      /\ countDist'[i] = [size |-> s, count |-> Counted]
      /\ \A k \in Places \ {i} : countDist'[k] = countDist[k]
  BY <1>1, <1>3 DEF Shape
<1>5. \A k \in Places : EndsRun(k)' <=> EndsRun(k)
  BY DEF EndsRun
<1>6. ASSUME NEW k \in Places, k < i PROVE RunAt(k)'
  <2>1. RunAt(k) /\ countDist'[k] = countDist[k]
    BY <1>1, <1>4, <1>6, <1>2
  <2> QED
    BY <2>1, <1>5 DEF RunAt
<1>7. /\ Counted \in 1 .. i + 1
      /\ \A l \in i - Counted + 1 .. i : OrdArry[l] = OrdArry[i]
      /\ i >= Counted => OrdArry[i - Counted] # OrdArry[i]
  <2>1. CASE i = 0
    BY <2>1, <1>1 DEF Locals, Counted
  <2>2. CASE i # 0 /\ cond
    <3>1. i - 1 \in Places /\ OrdArry[i - 1] \in Sizes /\ OrdArry[i] \in Sizes
      BY <2>2, <1>1, <1>2 DEF Shape, Places
    <3>2. OrdArry[i - 1] # OrdArry[i]
      BY <2>2, <3>1, <1>1, PassesStrict DEF Locals
    <3> QED
      BY <2>2, <3>2, <1>2 DEF Counted
  <2>3. CASE i # 0 /\ ~cond
    <3> DEFINE c == countDist[i - 1].count
    <3>1. i - 1 \in Places /\ i - 1 < i
      BY <2>3, <1>2 DEF Places
    <3>2. OrdArry[i - 1] = OrdArry[i]
      BY <2>3, <3>1, <1>1, <1>2 DEF Locals, Ordered
    <3>3. Counted = c + 1
      BY <2>3, <1>1 DEF Locals, Counted
    <3>4. /\ c \in 1 .. i
          /\ \A l \in i - c .. i - 1 : OrdArry[l] = OrdArry[i - 1]
          /\ i - 1 >= c => OrdArry[i - 1 - c] # OrdArry[i - 1]
      <4>1. RunAt(i - 1)
        BY <3>1, <1>1
      <4> QED
        BY <4>1, <1>2 DEF RunAt
    <3> HIDE DEF c
    <3> QED
      BY <3>2, <3>3, <3>4, <1>2
  <2> QED
    BY <2>1, <2>2, <2>3
<1>8. ASSUME NEW k \in Places, k = i PROVE RunAt(k)'
  <2>1. countDist'[i].count = Counted /\ countDist'[i].size = s
    BY <1>4
  <2> QED
    BY <2>1, <1>2, <1>5, <1>7, <1>8 DEF RunAt
<1> QED
  BY <1>2, <1>3, <1>4, <1>6, <1>8 DEF Places

LEMMA ScanStep == ASSUME ScanInv, Scan PROVE ScanInv'
<1> USE SizeAssumption
<1> DEFINE s == IF Passes(OrdArry[i], OrdArry[i + 1]) THEN OrdArry[i] ELSE MAX_SIZE
<1>1. Shape /\ Ordered /\ pc = "scan" /\ i < length - 1
  BY DEF ScanInv, Scan
<1>2. i + 1 \in Places /\ i \in Places /\ i \in Nat /\ i + 1 # 0 /\ length \in Nat
  BY <1>1 DEF Shape, Places
<1>3. OrdArry[i] \in Sizes /\ OrdArry[i + 1] \in Sizes
  BY <1>1, <1>2 DEF Shape
<1>4. Passes(OrdArry[i], OrdArry[i + 1]) <=> EndsRun(i)
  <2>1. i < i + 1 /\ (EndsRun(i) <=> OrdArry[i + 1] # OrdArry[i])
    BY <1>1, <1>2 DEF EndsRun
  <2>2. OrdArry[i] = OrdArry[i + 1] \/ Passes(OrdArry[i], OrdArry[i + 1])
    BY <1>1, <1>2, <2>1 DEF Ordered
  <2>3. Passes(OrdArry[i], OrdArry[i + 1]) => OrdArry[i] # OrdArry[i + 1]
    BY <1>3, PassesStrict
  <2> QED
    BY <2>1, <2>2, <2>3
<1>5. s = IF EndsRun(i) THEN OrdArry[i] ELSE MAX_SIZE
  BY <1>4
<1>6. /\ countDist' = [countDist EXCEPT ![i] = [size |-> s, count |-> Counted]]
      /\ UNCHANGED <<version, length, OrdArry>> /\ pc' = pc
      /\ i' = i + 1 /\ curCount' = Counted /\ cond' = Passes(OrdArry[i], OrdArry[i + 1])
  BY DEF Scan, args
<1> HIDE DEF s
<1>7. /\ countDist' \in [Places -> [size : Nat, count : Nat]]
      /\ countDist'[i].count = Counted /\ Counted \in Nat
      /\ \A k \in Places : k <= i => RunAt(k)'
  BY <1>1, <1>5, <1>6, EntryRight
<1>8. cond' \in BOOLEAN
  <2>1. Passes(OrdArry[i], OrdArry[i + 1]) \in BOOLEAN
    <3>1. CASE version = "OItemCountDist_DESC"
      BY <3>1, <1>3 DEF Passes
    <3>2. CASE version # "OItemCountDist_DESC"
      BY <3>2, <1>3 DEF Passes
    <3> QED
      BY <3>1, <3>2
  <2> QED
    BY <2>1, <1>6
<1>9. Shape' /\ Ordered'
  BY <1>1, <1>2, <1>6, <1>7, <1>8 DEF Shape, Ordered, Places, Passes
<1>10. Locals'
  BY <1>2, <1>6, <1>7 DEF Locals, Passes
<1>11. \A k \in Places' : k < i' => RunAt(k)'
  BY <1>2, <1>6, <1>7 DEF Places
<1> QED
  BY <1>1, <1>6, <1>9, <1>10, <1>11 DEF ScanInv

LEMMA ScanLastStep == ASSUME ScanInv, ScanLast PROVE ScanInv'
<1> USE SizeAssumption
<1>1. Shape /\ Ordered /\ pc = "scan" /\ i = length - 1
  BY DEF ScanInv, ScanLast
<1>2. EndsRun(i)
  BY <1>1 DEF EndsRun
<1>3. /\ countDist' = [countDist EXCEPT ![i] = [size |-> OrdArry[i], count |-> Counted]]
      /\ UNCHANGED <<version, length, OrdArry, curCount, cond, i>> /\ pc' = "sort"
  BY DEF ScanLast, args
<1>4. /\ countDist' \in [Places -> [size : Nat, count : Nat]]
      /\ \A k \in Places : k <= i => RunAt(k)'
  BY <1>1, <1>2, <1>3, EntryRight
<1>5. \A k \in Places' : RunAt(k)'
  BY <1>1, <1>3, <1>4 DEF Places, Shape
<1>6. Shape' /\ Ordered'
  BY <1>1, <1>3, <1>4 DEF Shape, Ordered, Places, Passes
<1> QED
  BY <1>3, <1>5, <1>6 DEF ScanInv

LEMMA NextScan == ScanInv /\ [Next]_vars => ScanInv'
<1> SUFFICES ASSUME ScanInv, [Next]_vars PROVE ScanInv'
  OBVIOUS
<1>1. CASE Scan
  BY <1>1, ScanStep
<1>2. CASE ScanLast
  BY <1>2, ScanLastStep
<1>3. CASE Sort
  BY <1>3 DEF Sort, ScanInv
<1>5. CASE CountInMap
  BY <1>5 DEF CountInMap, ScanInv
<1>6. CASE CountItem
  <2>1. pc = "plain" /\ pc' \in {"plain", "done"}
    BY <1>6 DEF CountItem
  <2> QED
    BY <2>1 DEF ScanInv
<1>4. CASE UNCHANGED vars
  BY <1>4 DEF vars, args, ScanInv, Shape, Ordered, Locals, RunAt, EndsRun, Places, Passes
<1> QED
  BY <1>1, <1>2, <1>3, <1>4, <1>5, <1>6 DEF Next

\* In an ordered list a run that begins behind a different item holds all
\* occurrences of its size before its end, and so at its end all of them.
LEMMA RunIsAll ==
  ASSUME Shape, Ordered, NEW k \in Places, RunAt(k), EndsRun(k)
  PROVE  Cardinality(Occurrences(OrdArry[k])) = countDist[k].count
<1> USE SizeAssumption
<1> DEFINE c == countDist[k].count
<1>1. /\ length \in Nat /\ k \in Nat /\ k < length /\ c \in 1 .. k + 1
      /\ \A l \in k - c + 1 .. k : OrdArry[l] = OrdArry[k]
      /\ k >= c => OrdArry[k - c] # OrdArry[k]
  BY DEF Shape, Places, RunAt
<1> HIDE DEF c
<1>2. \A l \in Places : OrdArry[l] \in Sizes
  BY DEF Shape
<1>3. ASSUME NEW l \in Places, OrdArry[l] = OrdArry[k], l > k PROVE FALSE
  <2>1. k + 1 \in Places /\ OrdArry[k + 1] # OrdArry[k]
    BY <1>1, <1>3 DEF EndsRun, Places
  <2>2. Passes(OrdArry[k], OrdArry[k + 1])
    BY <2>1, <1>1 DEF Ordered
  <2>3. OrdArry[k + 1] = OrdArry[l] \/ Passes(OrdArry[k + 1], OrdArry[l])
    BY <2>1, <1>1, <1>3 DEF Ordered, Places
  <2> QED
    BY <2>1, <2>2, <2>3, <1>2, <1>3, PassesStrict
<1>4. ASSUME NEW l \in Places, OrdArry[l] = OrdArry[k], l < k - c + 1 PROVE FALSE
  <2>1. k - c \in Places /\ OrdArry[k - c] # OrdArry[k]
    BY <1>1, <1>4 DEF Places
  <2>2. Passes(OrdArry[k - c], OrdArry[k])
    BY <2>1, <1>1 DEF Ordered
  <2>3. OrdArry[l] = OrdArry[k - c] \/ Passes(OrdArry[l], OrdArry[k - c])
    BY <2>1, <1>1, <1>4 DEF Ordered, Places
  <2> QED
    BY <2>1, <2>2, <2>3, <1>2, <1>4, PassesStrict
<1>5. Occurrences(OrdArry[k]) = k - c + 1 .. k
  <2>1. ASSUME NEW l \in Occurrences(OrdArry[k]) PROVE l \in k - c + 1 .. k
    BY <2>1, <1>1, <1>3, <1>4 DEF Occurrences, Places
  <2>2. ASSUME NEW l \in k - c + 1 .. k PROVE l \in Occurrences(OrdArry[k])
    BY <2>2, <1>1 DEF Occurrences, Places
  <2> QED
    BY <2>1, <2>2
<1>6. Cardinality(k - c + 1 .. k) = c
  BY <1>1, FS_Interval
<1> QED
  BY <1>5, <1>6 DEF c

\* After the scan of OItemCountDist_DESC, OItemCountDist_ASC or OCountDist over
\* an ordered list of any length and sizes, the entries that carry a size are
\* those at the ends of runs, and carry the number of its occurrences.
THEOREM ScanExactHolds == Spec => []ScanExact
<1>1. Init => ScanInv
  BY InitScan
<1>2. ScanInv /\ [Next]_vars => ScanInv'
  BY NextScan
<1>3. ScanInv => ScanExact
  <2> SUFFICES ASSUME ScanInv, pc = "sort", NEW k \in Places
               PROVE  IF EndsRun(k)
                      THEN countDist[k] = [size |-> OrdArry[k], count |-> Cardinality(Occurrences(OrdArry[k]))]
                      ELSE countDist[k].size = MAX_SIZE
    BY DEF ScanExact
  <2>1. Shape /\ Ordered /\ RunAt(k)
    BY DEF ScanInv
  <2>2. CASE EndsRun(k)
    <3>1. countDist[k].count = Cardinality(Occurrences(OrdArry[k])) /\ countDist[k].size = OrdArry[k]
      BY <2>1, <2>2, RunIsAll DEF RunAt
    <3>2. countDist[k] \in [size : Nat, count : Nat]
      BY <2>1 DEF Shape
    <3> QED
      BY <2>2, <3>1, <3>2
  <2>3. CASE ~EndsRun(k)
    BY <2>1, <2>3 DEF RunAt
  <2> QED
    BY <2>2, <2>3
<1> QED
  BY <1>1, <1>2, <1>3, PTL DEF Spec
--------------------------------------------------------------------------------
(* The plain functions.                                                      *)

NO_MAP == "TestHeavyCountDist_NO_MAP"
NO_ORD == "TestHeavyCountDist_NO_ORD"

\* The items in the order in which they are counted, and those before step n.
ItemAt(k) == IF version = NO_ORD THEN Ascending(k) ELSE OrdArry[k]
Seen(n, s) == {k \in Places : k < n /\ ItemAt(k) = s}
EntriesOf(s) == {k \in 0 .. numSize - 1 : countDist[k].size = s}

\* The variables while a plain function runs and after it.
PlainShape ==
  /\ version \in PlainVersions /\ length \in Nat \ {0} /\ OrdArry \in [Places -> Sizes]
  /\ countDist \in [Places -> [size : Nat, count : Nat]]

\* After n items of the list, s has its right entries: none before its first item;
\* then a first entry with the number of its items, and others, of one item each,
\* in TestHeavyCountDist_NO only.
Right(s, n) ==
  /\ Seen(n, s) = {} => EntriesOf(s) = {}
  /\ Seen(n, s) # {} =>
       \E k \in EntriesOf(s) :
         /\ countDist[k].count = Cardinality(Seen(n, s))
         /\ \A l \in EntriesOf(s) \ {k} :
              l > k /\ countDist[l].count = 1 /\ version = "TestHeavyCountDist_NO"

\* So it is for every size, or every size of 16 bits; and in TestHeavyCountDist_NO_ORD
\* the last entry is that of the last item counted.
ByItem(n) ==
  /\ n \in 0 .. length /\ numSize \in 0 .. n
  /\ \A s \in SizesHere : (version = NO_ORD => s < HALFWORD) => Right(s, n)
  /\ version = NO_ORD /\ n > 0 => numSize > 0 /\ countDist[numSize - 1].size = ItemAt(n - 1)

\* The entries that come from the map: entry k is that of the size of rank k.
ByMap ==
  /\ numSize = Cardinality(SizesHere)
  /\ \A k \in 0 .. numSize - 1 :
        /\ k \in Places /\ countDist[k].size \in SizesHere
        /\ Cardinality({y \in SizesHere : y < countDist[k].size}) = k
        /\ countDist[k].count = Cardinality(Occurrences(countDist[k].size))

\* The inductive invariant.
PlainInv ==
  version \in PlainVersions =>
    /\ pc \in {"plain", "done"} /\ PlainShape
    /\ version # NO_MAP => (pc = "plain" => i < length /\ ByItem(i)) /\ (pc = "done" => ByItem(length))
    /\ version = NO_MAP /\ pc = "done" => ByMap

--------------------------------------------------------------------------------
(* Ranks among the sizes of the list.                                        *)

\* The places of what is less than s, and of what is not more.
Below(s)  == {l \in Places : OrdArry[l] < s}
AtMost(s) == {l \in Places : OrdArry[l] <= s}

\* The list has finitely many places and sizes, and no more sizes than places.
LEMMA Finite ==
  ASSUME PlainShape
  PROVE  /\ IsFiniteSet(Places) /\ Cardinality(Places) = length
         /\ SizesHere \subseteq Nat /\ \A s \in SizesHere : s <= MAX_SIZE
         /\ IsFiniteSet(SizesHere) /\ Cardinality(SizesHere) \in Nat /\ Cardinality(SizesHere) <= length
<1>1. IsFiniteSet(Places) /\ Cardinality(Places) = length
  <2>1. length - 1 \in Int /\ 0 \in Int /\ length \in Nat \ {0}
    BY DEF PlainShape
  <2> QED
    BY <2>1, FS_Interval DEF Places
<1>2. SizesHere \subseteq Nat /\ \A s \in SizesHere : s <= MAX_SIZE
  <2>1. ASSUME NEW l \in Places PROVE OrdArry[l] \in Nat /\ OrdArry[l] <= MAX_SIZE
    <3>1. OrdArry[l] \in Sizes
      BY DEF PlainShape
    <3>2. OrdArry[l] \in Nat /\ OrdArry[l] < MAX_SIZE /\ MAX_SIZE \in Nat
      BY <3>1, SizeAssumption
    <3> QED
      BY <3>2
  <2> QED
    BY <2>1 DEF SizesHere
<1>3. OrdArry \in [Places -> SizesHere] /\ \A s \in SizesHere : \E k \in Places : OrdArry[k] = s
  BY DEF PlainShape, SizesHere
<1>4. IsFiniteSet(SizesHere) /\ Cardinality(SizesHere) <= Cardinality(Places)
  BY <1>1, <1>3, ImageSize
<1>5. Cardinality(SizesHere) \in Nat
  BY <1>4, FS_CardinalityType
<1> QED
  BY <1>1, <1>2, <1>4, <1>5

\* The places of a size in a sorted copy are those behind what is below it.
LEMMA Ranks ==
  ASSUME PlainShape, NEW s \in SizesHere
  PROVE  /\ Cardinality(Below(s)) \in Nat /\ Cardinality(AtMost(s)) \in Nat
         /\ Cardinality(Occurrences(s)) \in Nat \ {0} /\ IsFiniteSet(Occurrences(s))
         /\ Cardinality(AtMost(s)) = Cardinality(Below(s)) + Cardinality(Occurrences(s))
         /\ Cardinality(AtMost(s)) <= length
         /\ \A t \in SizesHere : s < t => Cardinality(AtMost(s)) <= Cardinality(Below(t))
<1>1. /\ IsFiniteSet(Places) /\ Cardinality(Places) = length /\ s \in Nat
      /\ \A l \in Places : OrdArry[l] \in Nat
  BY Finite DEF PlainShape, SizesHere
<1>2. ASSUME NEW T \in SUBSET Places PROVE IsFiniteSet(T) /\ Cardinality(T) \in Nat /\ Cardinality(T) <= length
  BY <1>1, FS_Subset, FS_CardinalityType
<1>3. Below(s) \in SUBSET Places /\ AtMost(s) \in SUBSET Places /\ Occurrences(s) \in SUBSET Places
  BY DEF Below, AtMost, Occurrences
<1>4. AtMost(s) = Below(s) \cup Occurrences(s) /\ Below(s) \cap Occurrences(s) = {}
  BY <1>1 DEF Below, AtMost, Occurrences
<1>5. Cardinality(AtMost(s)) = Cardinality(Below(s)) + Cardinality(Occurrences(s)) - Cardinality({})
  BY <1>2, <1>3, <1>4, FS_Union
<1>6. Cardinality({}) = 0 /\ Cardinality(Occurrences(s)) # 0
  <2>1. Occurrences(s) # {}
    BY DEF SizesHere, Occurrences
  <2> QED
    BY <1>2, <1>3, <2>1, FS_EmptySet
<1>7. ASSUME NEW t \in SizesHere, s < t PROVE Cardinality(AtMost(s)) <= Cardinality(Below(t))
  <2>1. t \in Nat
    BY Finite
  <2>2. AtMost(s) \in SUBSET Below(t)
    BY <1>1, <1>7, <2>1 DEF AtMost, Below
  <2>3. IsFiniteSet(Below(t))
    <3>1. Below(t) \in SUBSET Places
      BY DEF Below
    <3> QED
      BY <1>2, <3>1
  <2> QED
    BY <2>2, <2>3, FS_Subset
<1> QED
  BY <1>2, <1>3, <1>5, <1>6, <1>7

\* Place k of the sorted copy holds s.
Holds(k, s) == Cardinality(Below(s)) <= k /\ Cardinality(AtMost(s)) > k

\* The sizes at the places of the sorted copy go up.
LEMMA HoldsOne ==
  ASSUME PlainShape, NEW k \in Places, NEW l \in Places, NEW s \in SizesHere, NEW t \in SizesHere,
         Holds(k, s), Holds(l, t), k <= l
  PROVE  s <= t
<1>1. s \in Nat /\ t \in Nat /\ k \in Nat /\ l \in Nat
  BY Finite DEF Places, PlainShape
<1> SUFFICES ASSUME t < s PROVE FALSE
  BY <1>1
<1>2. Cardinality(AtMost(t)) <= Cardinality(Below(s))
  BY Ranks
<1>3. Cardinality(AtMost(t)) \in Nat /\ Cardinality(Below(s)) \in Nat
  BY Ranks
<1> QED
  BY <1>1, <1>2, <1>3 DEF Holds

\* Each place of the sorted copy has a size.
LEMMA HoldsSome ==
  ASSUME PlainShape, NEW k \in Places
  PROVE  \E s \in SizesHere : Holds(k, s)
<1>1. /\ SizesHere \subseteq Nat /\ MAX_SIZE \in Nat /\ \A s \in SizesHere : s <= MAX_SIZE
      /\ SizesHere # {} /\ k \in Nat /\ length \in Nat /\ k < length
  <2>1. /\ SizesHere \subseteq Nat /\ MAX_SIZE \in Nat
        /\ \A s \in SizesHere : s <= MAX_SIZE
    BY Finite, SizeAssumption
  <2>2. SizesHere # {}
    BY DEF SizesHere
  <2>3. k \in Nat /\ length \in Nat /\ k < length
    BY DEF PlainShape, Places
  <2> QED
    BY <2>1, <2>2, <2>3
<1> DEFINE Above == {s \in SizesHere : Cardinality(AtMost(s)) > k}
<1>2. Above # {}
  <2>1. PICK m \in SizesHere : \A s \in SizesHere : s <= m
    BY <1>1, GreatestNat
  <2>2. AtMost(m) = Places
    BY <2>1 DEF AtMost, SizesHere
  <2>3. Cardinality(AtMost(m)) > k
    BY <1>1, <2>2, Finite
  <2> QED
    BY <2>3
<1>3. PICK s \in Above : \A t \in Above : s <= t
  <2>1. Above \in SUBSET Nat
    BY <1>1
  <2> HIDE DEF Above
  <2> QED
    BY <1>2, <2>1, LeastNat
<1>4. s \in SizesHere /\ Cardinality(AtMost(s)) > k /\ s \in Nat
  BY <1>1
<1>5. Cardinality(Below(s)) <= k
  <2> DEFINE Smaller == {OrdArry[l] : l \in Below(s)}
  <2>1. CASE Below(s) = {}
    BY <1>1, <2>1, FS_EmptySet
  <2>2. CASE Below(s) # {}
    <3>1. Smaller \subseteq SizesHere /\ Smaller # {}
      BY <2>2 DEF Below, SizesHere
    <3>2. PICK t \in Smaller : \A u \in Smaller : u <= t
      <4>1. Smaller \in SUBSET Nat /\ \A u \in Smaller : u <= MAX_SIZE
        BY <1>1, <3>1
      <4> HIDE DEF Smaller
      <4> QED
        BY <1>1, <3>1, <4>1, GreatestNat
    <3>3. t \in SizesHere /\ t < s /\ t \in Nat
      BY <1>1, <3>1, <3>2 DEF Below
    <3>4. AtMost(t) = Below(s)
      <4>1. ASSUME NEW l \in Below(s) PROVE l \in AtMost(t)
        <5>1. OrdArry[l] \in Smaller /\ l \in Places
          BY DEF Below
        <5> HIDE DEF Smaller
        <5> QED
          BY <3>2, <5>1 DEF AtMost
      <4>2. ASSUME NEW l \in AtMost(t) PROVE l \in Below(s)
        <5>1. l \in Places /\ OrdArry[l] <= t /\ OrdArry[l] \in Nat
          BY <1>1 DEF AtMost, SizesHere
        <5> HIDE DEF Smaller
        <5> QED
          BY <1>4, <3>3, <5>1 DEF Below
      <4> QED
        BY <4>1, <4>2
    <3>5. t \notin Above
      <4> HIDE DEF Above, Smaller
      <4> QED
        BY <1>3, <1>4, <3>3
    <3>6. Cardinality(AtMost(t)) \in Nat
      BY <3>3, Ranks
    <3> HIDE DEF Smaller
    <3> QED
      BY <1>1, <3>3, <3>4, <3>5, <3>6
  <2> QED
    BY <2>1, <2>2
<1> QED
  BY <1>4, <1>5 DEF Holds

\* What std::sort makes: an ascending copy that holds each size as often as the list.
LEMMA AscendingIs ==
  ASSUME PlainShape
  PROVE  /\ \A k \in Places : Ascending(k) \in SizesHere /\ Holds(k, Ascending(k))
         /\ \A k, l \in Places : k <= l => Ascending(k) <= Ascending(l)
         /\ \A s \in SizesHere :
              Cardinality({k \in Places : Ascending(k) = s}) = Cardinality(Occurrences(s))
<1>1. ASSUME NEW k \in Places PROVE Ascending(k) \in SizesHere /\ Holds(k, Ascending(k))
  <2>1. Ascending(k) = CHOOSE s \in SizesHere : Holds(k, s)
    BY DEF Ascending, Holds, Below, AtMost
  <2> QED
    BY <2>1, HoldsSome
<1>2. ASSUME NEW k \in Places, NEW l \in Places, k <= l PROVE Ascending(k) <= Ascending(l)
  BY <1>1, <1>2, HoldsOne
<1>3. ASSUME NEW s \in SizesHere
      PROVE  Cardinality({k \in Places : Ascending(k) = s}) = Cardinality(Occurrences(s))
  <2>1. PICK a : a = Cardinality(Below(s))
    OBVIOUS
  <2>2. PICK b : b = Cardinality(AtMost(s))
    OBVIOUS
  <2>3. a \in Nat /\ b \in Nat /\ b = a + Cardinality(Occurrences(s)) /\ b <= length /\ a < b
        /\ Cardinality(Occurrences(s)) \in Nat
    BY <2>1, <2>2, Ranks
  <2>4. ASSUME NEW k \in Places PROVE Ascending(k) = s <=> Holds(k, s)
    <3>1. ASSUME Holds(k, s) PROVE Ascending(k) = s
      <4>1. k <= k
        BY DEF Places, PlainShape
      <4>2. Ascending(k) <= s /\ s <= Ascending(k)
        BY <1>1, <3>1, <4>1, HoldsOne
      <4>3. Ascending(k) \in Nat /\ s \in Nat
        BY <1>1, Finite
      <4> QED
        BY <4>2, <4>3
    <3> QED
      BY <1>1, <3>1
  <2>5. {k \in Places : Ascending(k) = s} = a .. b - 1
    <3>1. \A k \in Places : Holds(k, s) <=> k \in a .. b - 1
      BY <2>1, <2>2, <2>3 DEF Holds, Places, PlainShape
    <3>2. a .. b - 1 \subseteq Places
      BY <2>3 DEF Places, PlainShape
    <3> QED
      BY <2>4, <3>1, <3>2
  <2>6. Cardinality(a .. b - 1) = b - a
    BY <2>3, FS_Interval
  <2>7. Cardinality({k \in Places : Ascending(k) = s}) = b - a
    BY <2>5, <2>6
  <2> QED
    BY <2>3, <2>7
<1> QED
  BY <1>1, <1>2, <1>3

--------------------------------------------------------------------------------
(* One item.                                                                 *)

\* The items counted are those of the list, each as often as it occurs there.
LEMMA Items ==
  ASSUME PlainShape
  PROVE  /\ \A k \in Places : ItemAt(k) \in SizesHere /\ ItemAt(k) \in Nat
         /\ version = NO_ORD => \A k, l \in Places : k <= l => ItemAt(k) <= ItemAt(l)
         /\ \A s \in SizesHere : Cardinality({k \in Places : ItemAt(k) = s}) = Cardinality(Occurrences(s))
<1>1. ASSUME NEW k \in Places PROVE ItemAt(k) \in SizesHere
  <2>1. CASE version = NO_ORD
    BY <2>1, AscendingIs DEF ItemAt
  <2>2. CASE version # NO_ORD
    BY <2>2 DEF ItemAt, SizesHere
  <2> QED
    BY <2>1, <2>2
<1>2. version = NO_ORD => \A k, l \in Places : k <= l => ItemAt(k) <= ItemAt(l)
  BY AscendingIs DEF ItemAt
<1>3. ASSUME NEW s \in SizesHere
      PROVE  Cardinality({k \in Places : ItemAt(k) = s}) = Cardinality(Occurrences(s))
  <2>1. CASE version = NO_ORD
    <3>1. {k \in Places : ItemAt(k) = s} = {k \in Places : Ascending(k) = s}
      BY <2>1 DEF ItemAt
    <3>2. Cardinality({k \in Places : Ascending(k) = s}) = Cardinality(Occurrences(s))
      BY AscendingIs
    <3> QED
      BY <3>1, <3>2
  <2>2. CASE version # NO_ORD
    <3>1. {k \in Places : ItemAt(k) = s} = Occurrences(s)
      BY <2>2 DEF ItemAt, Occurrences
    <3> QED
      BY <3>1
  <2> QED
    BY <2>1, <2>2
<1> QED
  BY <1>1, <1>2, <1>3, Finite

\* Step n counts item n.
LEMMA SeenNext ==
  ASSUME PlainShape, NEW n \in Places, NEW s
  PROVE  /\ IsFiniteSet(Seen(n, s)) /\ Cardinality(Seen(n, s)) \in Nat
         /\ ItemAt(n) # s => Seen(n + 1, s) = Seen(n, s)
         /\ ItemAt(n) = s => Seen(n + 1, s) # {} /\ Cardinality(Seen(n + 1, s)) = Cardinality(Seen(n, s)) + 1
<1>1. n \in Nat /\ n < length /\ \A k \in Places : k \in Nat
  BY DEF PlainShape, Places
<1>2. IsFiniteSet(Seen(n, s)) /\ Cardinality(Seen(n, s)) \in Nat
  <2>1. Seen(n, s) \in SUBSET Places
    BY DEF Seen
  <2>2. IsFiniteSet(Seen(n, s))
    BY <2>1, Finite, FS_Subset
  <2> QED
    BY <2>2, FS_CardinalityType
<1>3. ASSUME ItemAt(n) # s PROVE Seen(n + 1, s) = Seen(n, s)
  <2>1. ASSUME NEW k \in Places, ItemAt(k) = s PROVE k < n + 1 <=> k < n
    <3>1. k # n
      BY <1>3, <2>1
    <3> QED
      BY <1>1, <3>1
  <2> QED
    BY <2>1 DEF Seen
<1>4. ASSUME ItemAt(n) = s PROVE Seen(n + 1, s) = Seen(n, s) \cup {n} /\ n \notin Seen(n, s)
  <2>1. n \notin Seen(n, s)
    BY <1>1 DEF Seen
  <2>2. \A k \in Places : k < n + 1 <=> k < n \/ k = n
    BY <1>1
  <2>3. Seen(n + 1, s) = Seen(n, s) \cup {n}
    BY <1>4, <2>2 DEF Seen
  <2> QED
    BY <2>1, <2>3
<1>5. ASSUME ItemAt(n) = s PROVE Cardinality(Seen(n + 1, s)) = Cardinality(Seen(n, s)) + 1
  <2>1. Cardinality(Seen(n, s) \cup {n}) = Cardinality(Seen(n, s)) + 1
    BY <1>2, <1>4, <1>5, FS_AddElement
  <2> QED
    BY <1>4, <1>5, <2>1
<1> QED
  BY <1>2, <1>3, <1>4, <1>5

\* What the search finds has the size that it looks for; and it finds all of that
\* size, unless 16 bits do not hold it.
LEMMA Found ==
  ASSUME PlainShape, NEW n \in Places, ByItem(n)
  PROVE  /\ Entries(ItemAt(n)) \subseteq EntriesOf(ItemAt(n))
         /\ (version = NO_ORD => ItemAt(n) < HALFWORD) => Entries(ItemAt(n)) = EntriesOf(ItemAt(n))
<1>0. PICK s : s = ItemAt(n)
  OBVIOUS
<1>1. /\ n \in Nat /\ length \in Nat /\ n < length /\ HALFWORD \in Nat \ {0}
      /\ numSize \in 0 .. n /\ s \in SizesHere /\ s \in Nat
  BY <1>0, Items, PlainAssumption DEF PlainShape, Places, ByItem
<1>2. CASE version # NO_ORD
  BY <1>0, <1>2 DEF Entries, EntriesOf, NO_ORD
<1>3. CASE version = NO_ORD /\ numSize = 0
  <2>1. Entries(s) = {} /\ EntriesOf(s) = {}
    BY <1>3 DEF Entries, EntriesOf, NO_ORD, Places
  <2> QED
    BY <1>0, <2>1
<1>4. CASE version = NO_ORD /\ numSize # 0
  <2>1. n > 0 /\ n - 1 \in Places /\ numSize - 1 \in Places
    BY <1>1, <1>4 DEF Places
  <2>2. PICK L : L = ItemAt(n - 1)
    OBVIOUS
  <2>3. countDist[numSize - 1].size = L
    BY <1>4, <2>1, <2>2 DEF ByItem
  <2>4. L \in Nat /\ L <= s
    <3>1. n - 1 <= n
      BY <1>1
    <3> QED
      BY <1>0, <1>4, <2>1, <2>2, <3>1, Items
  <2>5. L % HALFWORD < HALFWORD /\ (L < HALFWORD => L % HALFWORD = L)
    BY <1>1, <2>4
  <2>6. Entries(s) = {k \in {numSize - 1} : L % HALFWORD = s}
    BY <1>4, <2>1, <2>3 DEF Entries, NO_ORD
  <2>7. CASE s >= HALFWORD
    <3>1. Entries(s) = {}
      BY <1>1, <2>5, <2>6, <2>7
    <3> QED
      BY <1>0, <1>1, <1>4, <2>7, <3>1
  <2>8. CASE s < HALFWORD
    <3>1. L % HALFWORD = L
      BY <1>1, <2>4, <2>5, <2>8
    <3>2. Right(s, n)
      BY <1>1, <2>8 DEF ByItem
    <3>3. CASE L = s
      <4>1. numSize - 1 \in EntriesOf(s)
        BY <1>1, <1>4, <2>3, <3>3 DEF EntriesOf
      <4>2. Seen(n, s) # {}
        BY <1>1, <2>1, <2>2, <3>3 DEF Seen
      <4>3. PICK k \in EntriesOf(s) : \A l \in EntriesOf(s) \ {k} : version = "TestHeavyCountDist_NO"
        BY <3>2, <4>2 DEF Right
      <4>4. EntriesOf(s) = {numSize - 1}
        BY <1>4, <4>1, <4>3 DEF NO_ORD
      <4> QED
        BY <1>0, <2>6, <3>1, <3>3, <4>4
    <3>4. CASE L # s
      <4>1. Entries(s) = {}
        BY <2>6, <3>1, <3>4
      <4>2. Seen(n, s) = {}
        <5>1. ASSUME NEW k \in Places, k < n, ItemAt(k) = s PROVE FALSE
          <6>1. k <= n - 1
            BY <1>1, <5>1 DEF Places
          <6>2. s <= L
            BY <1>4, <2>1, <2>2, <5>1, <6>1, Items
          <6> QED
            BY <1>1, <2>4, <3>4, <6>2
        <5> QED
          BY <5>1 DEF Seen
      <4>3. EntriesOf(s) = {}
        BY <3>2, <4>2 DEF Right
      <4> QED
        BY <1>0, <4>1, <4>3
    <3> QED
      BY <3>3, <3>4
  <2> QED
    BY <1>1, <2>7, <2>8
<1> QED
  BY <1>2, <1>3, <1>4

First(E) == {k \in E : \A l \in E : k <= l}

\* What a step does to the entries of each size.
LEMMA EntriesNext ==
  ASSUME PlainShape, NEW n \in Places, n = i, ByItem(n), CountItem, NEW s, s = ItemAt(n)
  PROVE  /\ UNCHANGED args /\ numSize' = (IF Appends(s) THEN numSize + 1 ELSE numSize) /\ numSize \in Places
         /\ countDist' \in [Places -> [size : Nat, count : Nat]]
         /\ \A k \in 0 .. numSize - 1 :
              /\ k \in Places /\ countDist'[k].size = countDist[k].size
              /\ countDist'[k].count = IF k \in First(Entries(s)) THEN countDist[k].count + 1 ELSE countDist[k].count
         /\ Appends(s) => countDist'[numSize].size = s /\ countDist'[numSize].count = 1
         /\ \A t : EntriesOf(t)' = IF Appends(s) /\ t = s THEN EntriesOf(t) \cup {numSize} ELSE EntriesOf(t)
<1>1. /\ n \in Nat /\ length \in Nat /\ n < length /\ numSize \in 0 .. n /\ s \in Nat
      /\ numSize \in Places /\ \A k \in 0 .. numSize - 1 : k \in Places
  BY Items DEF PlainShape, Places, ByItem
<1>2. /\ s = Counting /\ UNCHANGED args /\ numSize' = IF Appends(s) THEN numSize + 1 ELSE numSize
      /\ countDist' =
           [k \in Places |->
              IF k \in First(Entries(s)) THEN [countDist[k] EXCEPT !.count = @ + 1]
              ELSE IF Appends(s) /\ k = numSize THEN [size |-> s, count |-> 1]
              ELSE countDist[k]]
  BY DEF CountItem, Counting, ItemAt, First, NO_ORD, args
<1>3. First(Entries(s)) \subseteq 0 .. numSize - 1
  BY Found DEF First, EntriesOf
<1>4. \A k \in Places : countDist[k] \in [size : Nat, count : Nat]
  BY DEF PlainShape
<1>5. ASSUME NEW k \in Places
      PROVE  /\ k \in First(Entries(s)) => countDist'[k] = [countDist[k] EXCEPT !.count = @ + 1]
             /\ k \notin First(Entries(s)) /\ Appends(s) /\ k = numSize => countDist'[k] = [size |-> s, count |-> 1]
             /\ k \notin First(Entries(s)) /\ ~(Appends(s) /\ k = numSize) => countDist'[k] = countDist[k]
  BY <1>2
<1>6. ASSUME NEW k \in Places PROVE countDist'[k] \in [size : Nat, count : Nat]
  <2>1. countDist[k] \in [size : Nat, count : Nat]
    BY <1>4
  <2>2. CASE k \in First(Entries(s))
    <3>1. countDist'[k] = [countDist[k] EXCEPT !.count = @ + 1]
      BY <1>5, <2>2
    <3>2. PICK c : c = countDist[k]
      OBVIOUS
    <3>3. c \in [size : Nat, count : Nat] /\ countDist'[k] = [c EXCEPT !.count = @ + 1]
      BY <2>1, <3>1, <3>2
    <3>4. countDist'[k] = [c EXCEPT !.count = c.count + 1] /\ c.count + 1 \in Nat
      BY <3>3
    <3> QED
      BY <3>3, <3>4
  <2>3. CASE k \notin First(Entries(s)) /\ Appends(s) /\ k = numSize
    <3>1. countDist'[k] = [size |-> s, count |-> 1]
      BY <1>5, <2>3
    <3> QED
      BY <1>1, <3>1
  <2>4. CASE k \notin First(Entries(s)) /\ ~(Appends(s) /\ k = numSize)
    BY <1>5, <2>1, <2>4
  <2> QED
    BY <2>2, <2>3, <2>4
<1>7. countDist' \in [Places -> [size : Nat, count : Nat]]
  BY <1>2, <1>6
<1>8. ASSUME NEW k \in 0 .. numSize - 1
      PROVE  /\ countDist'[k].size = countDist[k].size
             /\ countDist'[k].count = IF k \in First(Entries(s)) THEN countDist[k].count + 1 ELSE countDist[k].count
  <2>1. k \in Places /\ k # numSize
    BY <1>1
  <2>2. countDist[k] \in [size : Nat, count : Nat]
    BY <1>4, <2>1
  <2> QED
    BY <1>5, <2>1, <2>2
<1>9. Appends(s) => countDist'[numSize].size = s /\ countDist'[numSize].count = 1
  <2>1. numSize \notin First(Entries(s))
    BY <1>1, <1>3
  <2>2. Appends(s) => countDist'[numSize] = [size |-> s, count |-> 1]
    BY <1>1, <1>5, <2>1
  <2> QED
    BY <2>2
<1>10. ASSUME NEW t
       PROVE  EntriesOf(t)' = IF Appends(s) /\ t = s THEN EntriesOf(t) \cup {numSize} ELSE EntriesOf(t)
  <2>1. EntriesOf(t)' = {k \in 0 .. numSize' - 1 : countDist'[k].size = t}
    BY DEF EntriesOf
  <2>2. CASE ~Appends(s)
    <3>1. numSize' = numSize
      BY <1>2, <2>2
    <3> QED
      BY <1>8, <2>1, <2>2, <3>1 DEF EntriesOf
  <2>3. CASE Appends(s)
    <3>1. numSize' = numSize + 1
      BY <1>2, <2>3
    <3>2. 0 .. numSize' - 1 = (0 .. numSize - 1) \cup {numSize}
      BY <1>1, <3>1
    <3>3. countDist'[numSize].size = s
      BY <1>9, <2>3
    <3> QED
      BY <1>8, <2>1, <2>3, <3>2, <3>3 DEF EntriesOf
  <2> QED
    BY <2>2, <2>3
<1> QED
  BY <1>1, <1>2, <1>7, <1>8, <1>9, <1>10

\* A step leaves every size with its right entries.
LEMMA RightNext ==
  ASSUME PlainShape, NEW n \in Places, n = i, ByItem(n), CountItem, version # NO_MAP,
         NEW t \in SizesHere, version = NO_ORD => t < HALFWORD
  PROVE  Right(t, n + 1)'
<1>0. PICK s : s = ItemAt(n)
  OBVIOUS
<1>1. /\ UNCHANGED args /\ numSize' = (IF Appends(s) THEN numSize + 1 ELSE numSize) /\ numSize \in Places
      /\ \A k \in 0 .. numSize - 1 :
           /\ k \in Places /\ countDist'[k].size = countDist[k].size
           /\ countDist'[k].count = IF k \in First(Entries(s)) THEN countDist[k].count + 1 ELSE countDist[k].count
      /\ Appends(s) => countDist'[numSize].size = s /\ countDist'[numSize].count = 1
      /\ EntriesOf(t)' = IF Appends(s) /\ t = s THEN EntriesOf(t) \cup {numSize} ELSE EntriesOf(t)
  BY <1>0, EntriesNext
<1>2. Seen(n + 1, t)' = Seen(n + 1, t)
  <2>1. \A k : Ascending(k)' = Ascending(k)
    BY <1>1 DEF args, Ascending, SizesHere, Places
  <2> QED
    BY <1>1, <2>1 DEF args, Seen, ItemAt, Places
<1>3. PICK S : S = Seen(n + 1, t)
  OBVIOUS
<1>4. PICK F : F = EntriesOf(t)'
  OBVIOUS
<1>5. SUFFICES /\ S = {} => F = {}
               /\ S # {} => \E k \in F : /\ countDist'[k].count = Cardinality(S)
                                         /\ \A l \in F \ {k} : l > k /\ countDist'[l].count = 1
                                                               /\ version = "TestHeavyCountDist_NO"
  BY <1>1, <1>2, <1>3, <1>4 DEF Right, args
<1>6. Right(t, n)
  BY DEF ByItem
<1>7. Entries(s) \subseteq EntriesOf(s) /\ ((version = NO_ORD => s < HALFWORD) => Entries(s) = EntriesOf(s))
  BY <1>0, Found
<1>8. n \in Nat /\ length \in Nat /\ numSize \in 0 .. n /\ EntriesOf(t) \subseteq 0 .. numSize - 1
  BY DEF PlainShape, Places, ByItem, EntriesOf
<1>9. \A k \in EntriesOf(t) : countDist[k] \in [size : Nat, count : Nat]
  BY <1>1, <1>8 DEF PlainShape
<1>10. CASE t # s
  <2>1. S = Seen(n, t) /\ F = EntriesOf(t)
    BY <1>0, <1>1, <1>3, <1>4, <1>10, SeenNext
  <2>2. ASSUME NEW k \in EntriesOf(t) PROVE countDist'[k].count = countDist[k].count
    <3>1. k \notin First(Entries(s))
      BY <1>7, <1>10 DEF First, EntriesOf
    <3> QED
      BY <1>1, <1>8, <3>1
  <2> QED
    BY <1>6, <2>1, <2>2 DEF Right
<1>11. CASE t = s
  <2>1. S # {} /\ Cardinality(S) = Cardinality(Seen(n, s)) + 1 /\ Cardinality(Seen(n, s)) \in Nat
    BY <1>0, <1>3, <1>11, SeenNext
  <2>2. PICK E : E = EntriesOf(s)
    OBVIOUS
  <2>3. Entries(s) = E
    BY <1>7, <1>11, <2>2
  <2>4. CASE Seen(n, s) = {}
    <3>1. E = {} /\ Cardinality(Seen(n, s)) = 0
      BY <1>6, <1>11, <2>2, <2>4, FS_EmptySet DEF Right
    <3>2. Appends(s)
      BY <2>3, <3>1 DEF Appends
    <3>3. F = {numSize} /\ countDist'[numSize].count = 1
      BY <1>1, <1>4, <1>11, <2>2, <3>1, <3>2
    <3> QED
      BY <2>1, <3>1, <3>3
  <2>5. CASE Seen(n, s) # {}
    <3>1. PICK k \in E : /\ countDist[k].count = Cardinality(Seen(n, s))
                         /\ \A l \in E \ {k} : l > k /\ countDist[l].count = 1 /\ version = "TestHeavyCountDist_NO"
      BY <1>6, <1>11, <2>2, <2>5 DEF Right
    <3>2. E \subseteq 0 .. numSize - 1
      BY <1>8, <1>11, <2>2
    <3>3. First(E) = {k}
      <4>1. \A l \in E : l \in Int
        BY <3>2
      <4>2. \A l \in E : k <= l
        BY <3>1, <4>1
      <4>3. \A l \in E \ {k} : ~(l <= k)
        BY <3>1, <4>1
      <4> QED
        BY <4>2, <4>3 DEF First
    <3>4. countDist'[k].count = Cardinality(S)
      BY <1>1, <2>1, <2>3, <3>1, <3>2, <3>3
    <3>5. \A l \in E \ {k} : countDist'[l].count = 1
      BY <1>1, <2>3, <3>1, <3>2, <3>3
    <3>6. CASE ~Appends(s)
      <4>1. F = E
        BY <1>1, <1>4, <1>11, <2>2, <3>6
      <4> QED
        BY <2>1, <3>1, <3>4, <3>5, <4>1
    <3>7. CASE Appends(s)
      <4>1. F = E \cup {numSize} /\ countDist'[numSize].count = 1
        BY <1>1, <1>4, <1>11, <2>2, <3>7
      <4>2. version = "TestHeavyCountDist_NO"
        BY <2>3, <3>1, <3>7 DEF Appends
      <4>3. numSize > k
        BY <1>8, <3>2
      <4> QED
        BY <2>1, <3>1, <3>4, <3>5, <4>1, <4>2, <4>3
    <3> QED
      BY <3>6, <3>7
  <2> QED
    BY <2>4, <2>5
<1> QED
  BY <1>10, <1>11

\* One step of the three functions that go through the list.
LEMMA ItemStep ==
  ASSUME PlainShape, NEW n \in Places, n = i, ByItem(n), CountItem, version # NO_MAP
  PROVE  PlainShape' /\ ByItem(n + 1)'
<1>0. PICK s : s = ItemAt(n)
  OBVIOUS
<1>1. /\ UNCHANGED args /\ numSize' = (IF Appends(s) THEN numSize + 1 ELSE numSize) /\ numSize \in Places
      /\ countDist' \in [Places -> [size : Nat, count : Nat]]
      /\ \A k \in 0 .. numSize - 1 : k \in Places /\ countDist'[k].size = countDist[k].size
      /\ Appends(s) => countDist'[numSize].size = s
  BY <1>0, EntriesNext
<1>2. n \in Nat /\ length \in Nat /\ n < length /\ numSize \in 0 .. n
  BY DEF PlainShape, Places, ByItem
<1>3. PlainShape'
  BY <1>1 DEF PlainShape, Places, args
<1>4. SizesHere' = SizesHere
  BY <1>1 DEF SizesHere, Places, args
<1>5. ASSUME NEW t \in SizesHere', version' = NO_ORD => t < HALFWORD PROVE Right(t, n + 1)'
  BY <1>1, <1>4, <1>5, RightNext DEF args
<1>6. n + 1 \in 0 .. length' /\ numSize' \in 0 .. n + 1
  BY <1>1, <1>2 DEF args
<1>7. ASSUME version' = NO_ORD PROVE numSize' > 0 /\ countDist'[numSize' - 1].size = ItemAt(n)'
  <2>1. ItemAt(n)' = s
    <3>1. Ascending(n)' = Ascending(n)
      BY <1>1 DEF args, Ascending, SizesHere, Places
    <3> QED
      BY <1>0, <1>1, <3>1 DEF args, ItemAt
  <2>2. CASE Appends(s)
    <3>1. numSize' = numSize + 1 /\ numSize' - 1 = numSize
      BY <1>1, <1>2, <2>2
    <3> QED
      BY <1>1, <1>2, <2>1, <2>2, <3>1
  <2>3. CASE ~Appends(s)
    <3>1. numSize' = numSize
      BY <1>1, <2>3
    <3>2. PICK k \in Entries(s) : TRUE
      BY <2>3 DEF Appends
    <3>3. k = numSize - 1
      BY <1>1, <1>7 DEF Entries, NO_ORD, args
    <3>4. k \in EntriesOf(s)
      BY <1>0, Found
    <3>5. countDist[k].size = s /\ k \in 0 .. numSize - 1
      BY <3>4 DEF EntriesOf
    <3> QED
      BY <1>1, <1>2, <2>1, <3>1, <3>3, <3>5
  <2> QED
    BY <2>2, <2>3
<1>8. (n + 1) - 1 = n
  BY <1>2
<1> QED
  BY <1>3, <1>5, <1>6, <1>7, <1>8 DEF ByItem

--------------------------------------------------------------------------------
(* The map.                                                                  *)

Smaller(s) == {y \in SizesHere : y < s}

\* The places of the sizes in ascending order.
LEMMA RankOfSize ==
  ASSUME PlainShape
  PROVE  /\ \A s \in SizesHere : Cardinality(Smaller(s)) \in 0 .. Cardinality(SizesHere) - 1
         /\ \A k \in 0 .. Cardinality(SizesHere) - 1 : \E s \in SizesHere : Cardinality(Smaller(s)) = k
         /\ \A s, t \in SizesHere : Cardinality(Smaller(s)) = Cardinality(Smaller(t)) => s = t
<1>1. PICK N : N = Cardinality(SizesHere)
  OBVIOUS
<1>2. IsFiniteSet(SizesHere) /\ N \in Nat /\ SizesHere \subseteq Nat
  BY <1>1, Finite
<1>3. ASSUME NEW s \in SizesHere
      PROVE  IsFiniteSet(Smaller(s)) /\ Cardinality(Smaller(s)) \in 0 .. N - 1
  <2>1. Smaller(s) \in SUBSET SizesHere /\ Smaller(s) # SizesHere
    <3>1. s \notin Smaller(s)
      BY <1>2 DEF Smaller
    <3> QED
      BY <3>1 DEF Smaller
  <2>2. IsFiniteSet(Smaller(s)) /\ Cardinality(Smaller(s)) <= N /\ Cardinality(Smaller(s)) # N
    BY <1>1, <1>2, <2>1, FS_Subset
  <2>3. Cardinality(Smaller(s)) \in Nat
    BY <2>2, FS_CardinalityType
  <2> QED
    BY <1>2, <2>2, <2>3
<1>4. ASSUME NEW s \in SizesHere, NEW t \in SizesHere, s < t
      PROVE  Cardinality(Smaller(s)) < Cardinality(Smaller(t))
  <2>1. s \in Nat /\ t \in Nat /\ \A y \in SizesHere : y \in Nat
    BY <1>2
  <2>2. Smaller(s) \in SUBSET Smaller(t)
    <3>1. \A y \in SizesHere : y < s => y < t
      BY <1>4, <2>1
    <3> QED
      BY <3>1 DEF Smaller
  <2>3. s \in Smaller(t) /\ s \notin Smaller(s)
    BY <1>4, <2>1 DEF Smaller
  <2>4. IsFiniteSet(Smaller(t)) /\ Cardinality(Smaller(t)) \in Nat /\ Cardinality(Smaller(s)) \in Nat
    BY <1>3
  <2>5. Cardinality(Smaller(s)) <= Cardinality(Smaller(t)) /\ Cardinality(Smaller(s)) # Cardinality(Smaller(t))
    BY <2>2, <2>3, <2>4, FS_Subset
  <2> QED
    BY <2>4, <2>5
<1>5. ASSUME NEW s \in SizesHere, NEW t \in SizesHere, Cardinality(Smaller(s)) = Cardinality(Smaller(t))
      PROVE  s = t
  <2>1. s \in Nat /\ t \in Nat /\ Cardinality(Smaller(s)) \in Nat
    BY <1>2, <1>3
  <2>2. ~(s < t) /\ ~(t < s)
    BY <1>4, <1>5, <2>1
  <2> QED
    BY <2>1, <2>2
<1>6. \A k \in 0 .. N - 1 : \E s \in SizesHere : Cardinality(Smaller(s)) = k
  <2>1. PICK f : f = [s \in SizesHere |-> Cardinality(Smaller(s))]
    OBVIOUS
  <2>2. f \in [SizesHere -> 0 .. N - 1] /\ \A s, t \in SizesHere : f[s] = f[t] => s = t
    BY <1>3, <1>5, <2>1
  <2>3. IsFiniteSet(0 .. N - 1) /\ Cardinality(0 .. N - 1) = N
    <3>1. 0 \in Int /\ N - 1 \in Int
      BY <1>2
    <3> QED
      BY <1>2, <3>1, FS_Interval
  <2>4. PICK R : R = 0 .. N - 1
    OBVIOUS
  <2>5. IsFiniteSet(R) /\ Cardinality(SizesHere) = Cardinality(R) /\ f \in [SizesHere -> R]
    BY <1>1, <2>2, <2>3, <2>4
  <2>6. \A k \in R : \E s \in SizesHere : f[s] = k
    BY <2>2, <2>5, OneToOne
  <2> QED
    BY <2>1, <2>4, <2>6
<1> QED
  BY <1>1, <1>3, <1>5, <1>6

\* The one step of TestHeavyCountDist_NO_MAP.
LEMMA MapStep ==
  ASSUME PlainShape, CountInMap
  PROVE  PlainShape' /\ ByMap'
<1>1. PICK N : N = Cardinality(SizesHere)
  OBVIOUS
<1> DEFINE At(k) == CHOOSE x \in SizesHere : Cardinality(Smaller(x)) = k
<1>2. N \in Nat /\ N <= length /\ length \in Nat /\ SizesHere \subseteq Nat
  BY <1>1, Finite DEF PlainShape
<1>3. UNCHANGED args /\ numSize' = N
  BY <1>1 DEF CountInMap, args
<1>4. ASSUME NEW k \in 0 .. N - 1 PROVE At(k) \in SizesHere /\ Cardinality(Smaller(At(k))) = k
  BY <1>1, RankOfSize
<1>5. countDist' = [k \in Places |-> IF k >= N THEN countDist[k]
                                     ELSE [size |-> At(k), count |-> Cardinality(Occurrences(At(k)))]]
  BY <1>3 DEF CountInMap, Smaller
<1> HIDE DEF At
<1>6. ASSUME NEW s \in SizesHere PROVE Cardinality(Occurrences(s)) \in Nat /\ s \in Nat
  BY <1>2, Ranks
<1>7. ASSUME NEW k \in 0 .. N - 1
      PROVE  k \in Places /\ countDist'[k] = [size |-> At(k), count |-> Cardinality(Occurrences(At(k)))]
  <2>1. k \in Places /\ ~(k >= N)
    BY <1>2 DEF Places
  <2> QED
    BY <1>5, <2>1
<1>8. ASSUME NEW k \in Places PROVE countDist'[k] \in [size : Nat, count : Nat]
  <2>1. CASE k >= N
    BY <1>5, <2>1 DEF PlainShape
  <2>2. CASE ~(k >= N)
    <3>1. k \in 0 .. N - 1
      BY <1>2, <2>2 DEF Places
    <3>2. PICK s : s = At(k)
      OBVIOUS
    <3>3. countDist'[k] = [size |-> s, count |-> Cardinality(Occurrences(s))] /\ s \in SizesHere
      BY <1>4, <1>7, <3>1, <3>2
    <3>4. Cardinality(Occurrences(s)) \in Nat /\ s \in Nat
      BY <1>6, <3>3
    <3> QED
      BY <3>3, <3>4
  <2> QED
    BY <2>1, <2>2
<1>9. PlainShape'
  <2>1. countDist' \in [Places -> [size : Nat, count : Nat]]
    BY <1>5, <1>8
  <2> QED
    BY <1>3, <2>1 DEF PlainShape, Places, args
<1>10. SizesHere' = SizesHere /\ Places' = Places /\ \A s : Occurrences(s)' = Occurrences(s)
  BY <1>3 DEF SizesHere, Places, Occurrences, args
<1>11. numSize' = Cardinality(SizesHere)'
  BY <1>1, <1>3, <1>10
<1>12. ASSUME NEW k \in 0 .. numSize' - 1
       PROVE  /\ k \in Places /\ countDist'[k].size \in SizesHere
              /\ Cardinality({y \in SizesHere : y < countDist'[k].size}) = k
              /\ countDist'[k].count = Cardinality(Occurrences(countDist'[k].size))
  <2>1. k \in 0 .. N - 1
    BY <1>3
  <2>0. PICK s : s = At(k)
    OBVIOUS
  <2>2. countDist'[k] = [size |-> s, count |-> Cardinality(Occurrences(s))] /\ k \in Places
    BY <1>7, <2>0, <2>1
  <2>3. s \in SizesHere /\ Cardinality(Smaller(s)) = k
    BY <1>4, <2>0, <2>1
  <2> QED
    BY <2>2, <2>3 DEF Smaller
<1> QED
  BY <1>9, <1>10, <1>11, <1>12 DEF ByMap

--------------------------------------------------------------------------------

LEMMA InitPlain == Init => PlainInv
<1> SUFFICES ASSUME Init, version \in PlainVersions PROVE PlainInv
  BY DEF PlainInv
<1>1. version \notin Versions /\ length \in Nat \ {0}
  BY VersionAssumption, PlainAssumption, SizeAssumption DEF Init
<1>2. /\ pc = "plain" /\ i = 0 /\ numSize = 0 /\ OrdArry \in [Places -> Sizes]
      /\ countDist = [k \in Places |-> Unwritten]
  BY <1>1 DEF Init
<1>3. PlainShape
  BY <1>1, <1>2 DEF PlainShape, Unwritten
<1>4. ASSUME NEW s PROVE Right(s, 0)
  <2>1. Seen(0, s) = {} /\ EntriesOf(s) = {}
    BY <1>1, <1>2 DEF Seen, EntriesOf, Places
  <2> QED
    BY <2>1 DEF Right
<1>5. ByItem(0)
  BY <1>1, <1>2, <1>4 DEF ByItem
<1> QED
  BY <1>1, <1>2, <1>3, <1>5 DEF PlainInv

LEMMA NextPlain == PlainInv /\ [Next]_vars => PlainInv'
<1> SUFFICES ASSUME PlainInv, [Next]_vars, version' \in PlainVersions PROVE PlainInv'
  BY DEF PlainInv
<1>0. version' = version
  BY DEF Next, vars, args, Scan, ScanLast, Sort, CountInMap, CountItem
<1>1. /\ pc \in {"plain", "done"} /\ PlainShape
      /\ version # NO_MAP => (pc = "plain" => i < length /\ ByItem(i)) /\ (pc = "done" => ByItem(length))
      /\ version = NO_MAP /\ pc = "done" => ByMap
  BY <1>0 DEF PlainInv
<1>2. CASE Scan \/ ScanLast \/ Sort
  BY <1>1, <1>2 DEF Scan, ScanLast, Sort
<1>3. CASE CountInMap
  <2>1. PlainShape' /\ ByMap'
    BY <1>1, <1>3, MapStep
  <2>2. pc' = "done" /\ version' = NO_MAP
    BY <1>0, <1>3 DEF CountInMap, NO_MAP
  <2> QED
    BY <2>1, <2>2 DEF PlainInv
<1>4. CASE CountItem
  <2>1. pc = "plain" /\ version # NO_MAP /\ length' = length
    BY <1>4 DEF CountItem, NO_MAP, args
  <2>2. PICK n : n = i
    OBVIOUS
  <2>3. n < length /\ ByItem(n)
    BY <1>1, <2>1, <2>2
  <2>4. n \in Places /\ n \in Nat
    BY <1>1, <2>3 DEF ByItem, Places, PlainShape
  <2>5. PlainShape' /\ ByItem(n + 1)'
    BY <1>1, <1>4, <2>1, <2>2, <2>3, <2>4, ItemStep
  <2>6. CASE n + 1 = length
    <3>1. pc' = "done"
      BY <1>4, <2>2, <2>6 DEF CountItem
    <3>2. ByItem(length)'
      BY <2>1, <2>5, <2>6 DEF ByItem
    <3> QED
      BY <1>0, <2>1, <2>5, <3>1, <3>2 DEF PlainInv
  <2>7. CASE n + 1 # length
    <3>1. pc' = "plain" /\ i' = n + 1
      BY <1>4, <2>1, <2>2, <2>7 DEF CountItem
    <3>2. i' < length'
      BY <1>1, <2>1, <2>3, <2>4, <2>7, <3>1 DEF PlainShape
    <3>3. ByItem(i)'
      BY <2>5, <3>1 DEF ByItem
    <3> QED
      BY <1>0, <2>1, <2>5, <3>1, <3>2, <3>3 DEF PlainInv
  <2> QED
    BY <2>6, <2>7
<1>5. CASE UNCHANGED vars
  <2>1. UNCHANGED <<version, length, OrdArry, countDist, i, numSize, pc>>
    BY <1>5 DEF vars, args
  <2>2. /\ Places' = Places /\ SizesHere' = SizesHere /\ \A s : Occurrences(s)' = Occurrences(s)
        /\ \A k : Ascending(k)' = Ascending(k)
    BY <2>1 DEF Places, SizesHere, Occurrences, Ascending
  <2>3. \A k : ItemAt(k)' = ItemAt(k)
    BY <2>1, <2>2 DEF ItemAt
  <2>4. /\ \A n, s : Seen(n, s)' = Seen(n, s)
        /\ \A s : EntriesOf(s)' = EntriesOf(s)
    BY <2>1, <2>2, <2>3 DEF Seen, EntriesOf
  <2>5. \A n, s : Right(s, n) => Right(s, n)'
    BY <2>1, <2>4 DEF Right
  <2>6. \A n : ByItem(n) => ByItem(n)'
    BY <2>1, <2>2, <2>3, <2>5 DEF ByItem
  <2>7. ByItem(i) => ByItem(i)'
    <3>1. PICK n : n = i
      OBVIOUS
    <3>2. ByItem(n) => ByItem(n)'
      BY <2>6
    <3> QED
      BY <2>1, <3>1, <3>2 DEF ByItem
  <2>8. ByItem(length) => ByItem(length)'
    <3>1. PICK n : n = length
      OBVIOUS
    <3>2. ByItem(n) => ByItem(n)'
      BY <2>6
    <3> QED
      BY <2>1, <3>1, <3>2 DEF ByItem
  <2>9. ByMap => ByMap'
    BY <2>1, <2>2 DEF ByMap
  <2>10. PlainShape'
    BY <1>1, <2>1, <2>2 DEF PlainShape
  <2> QED
    BY <1>1, <2>1, <2>7, <2>8, <2>9, <2>10 DEF PlainInv
<1> QED
  BY <1>2, <1>3, <1>4, <1>5 DEF Next

\* What the invariant says once the whole list is counted.
LEMMA ByItemExact ==
  ASSUME PlainShape, ByItem(length), NEW s \in SizesHere, ~(version = NO_ORD /\ s >= HALFWORD)
  PROVE  /\ \E k \in EntriesOf(s) : /\ countDist[k].count = Cardinality(Occurrences(s))
                                    /\ \A l \in EntriesOf(s) \ {k} : l > k /\ countDist[l].count = 1
         /\ version # "TestHeavyCountDist_NO" => Cardinality(EntriesOf(s)) = 1
<1>1. s \in Nat /\ HALFWORD \in Nat
  BY Finite, PlainAssumption
<1>2. Right(s, length)
  BY <1>1 DEF ByItem
<1>3. Cardinality(Seen(length, s)) = Cardinality(Occurrences(s)) /\ Seen(length, s) # {}
  <2>1. \A k \in Places : k < length
    BY DEF Places, PlainShape
  <2>2. Seen(length, s) = {k \in Places : ItemAt(k) = s}
    BY <2>1 DEF Seen
  <2>3. Cardinality(Seen(length, s)) = Cardinality(Occurrences(s))
    BY <2>2, Items
  <2>4. Cardinality(Occurrences(s)) # 0 /\ Cardinality({}) = 0
    BY Ranks, FS_EmptySet
  <2> QED
    BY <2>3, <2>4
<1>4. PICK k \in EntriesOf(s) :
        /\ countDist[k].count = Cardinality(Occurrences(s))
        /\ \A l \in EntriesOf(s) \ {k} : l > k /\ countDist[l].count = 1 /\ version = "TestHeavyCountDist_NO"
  BY <1>2, <1>3 DEF Right
<1>5. ASSUME version # "TestHeavyCountDist_NO" PROVE Cardinality(EntriesOf(s)) = 1
  <2>1. EntriesOf(s) = {k}
    BY <1>4, <1>5
  <2>2. Cardinality({k}) = 1
    BY FS_Singleton
  <2> QED
    BY <2>1, <2>2
<1> QED
  BY <1>4, <1>5

\* And what it says of the entries from the map.
LEMMA ByMapExact ==
  ASSUME PlainShape, ByMap, NEW s \in SizesHere
  PROVE  /\ \E k \in EntriesOf(s) : /\ countDist[k].count = Cardinality(Occurrences(s))
                                    /\ \A l \in EntriesOf(s) \ {k} : l > k /\ countDist[l].count = 1
         /\ Cardinality(EntriesOf(s)) = 1
<1>1. PICK k : k = Cardinality(Smaller(s))
  OBVIOUS
<1>2. k \in 0 .. numSize - 1
  BY <1>1, RankOfSize DEF ByMap
<1>3. ASSUME NEW l \in 0 .. numSize - 1
      PROVE  /\ countDist[l].size \in SizesHere /\ Cardinality(Smaller(countDist[l].size)) = l
             /\ countDist[l].count = Cardinality(Occurrences(countDist[l].size))
  BY DEF ByMap, Smaller
<1>4. countDist[k].size = s
  <2>1. PICK x : x = countDist[k].size
    OBVIOUS
  <2>2. x \in SizesHere /\ Cardinality(Smaller(x)) = Cardinality(Smaller(s))
    BY <1>1, <1>2, <1>3, <2>1
  <2> QED
    BY <2>1, <2>2, RankOfSize
<1>5. EntriesOf(s) = {k}
  BY <1>1, <1>2, <1>3, <1>4 DEF EntriesOf
<1>6. countDist[k].count = Cardinality(Occurrences(s)) /\ Cardinality({k}) = 1
  BY <1>2, <1>3, <1>4, FS_Singleton
<1> QED
  BY <1>5, <1>6

\* Each of the four plain TestHeavyCountDist functions, over a list of any length
\* and in any order, leaves for every size of the list a first entry with the
\* number of its occurrences, and no other entry of that size, except for
\* TestHeavyCountDist_NO, whose other entries count one item each; only the sizes
\* that the uint16_t of TestHeavyCountDist_NO_ORD does not hold are exempt.
THEOREM PlainExactHolds == Spec => []PlainExact
<1>1. PlainInv => PlainExact
  <2> SUFFICES ASSUME PlainInv, pc = "done", version \in PlainVersions, NEW s \in SizesHere,
                      ~(version = NO_ORD /\ s >= HALFWORD)
               PROVE  /\ \E k \in EntriesOf(s) : /\ countDist[k].count = Cardinality(Occurrences(s))
                                                 /\ \A l \in EntriesOf(s) \ {k} : l > k /\ countDist[l].count = 1
                      /\ version # "TestHeavyCountDist_NO" => Cardinality(EntriesOf(s)) = 1
    BY DEF PlainExact, EntriesOf, NO_ORD
  <2>1. CASE version = NO_MAP
    BY <2>1, ByMapExact DEF PlainInv
  <2>2. CASE version # NO_MAP
    BY <2>2, ByItemExact DEF PlainInv
  <2> QED
    BY <2>1, <2>2
<1> QED
  BY <1>1, InitPlain, NextPlain, PTL DEF Spec
--------------------------------------------------------------------------------
(* The sort of the ordered functions.                                        *)

\* What the scan has left, as the sort finds it.
Counts == [size : Nat, count : Nat]

\* An entry that carries a size.
Carries(d, k) == d[k].size # MAX_SIZE

\* The entry of size s.
EntryOf(s) == [size |-> s, count |-> Cardinality(Occurrences(s))]

\* Two ends of runs have different sizes.
LEMMA EndsDiffer ==
  ASSUME Shape, Ordered, NEW x \in Places, NEW y \in Places, EndsRun(x), EndsRun(y), OrdArry[x] = OrdArry[y]
  PROVE  x = y
<1>1. ASSUME NEW a \in Places, NEW b \in Places, a < b, EndsRun(a), OrdArry[a] = OrdArry[b] PROVE FALSE
  <2>0. length \in Nat /\ a \in Nat /\ b \in Nat /\ b < length /\ a + 1 \in Places
    BY <1>1 DEF Shape, Places
  <2>1. OrdArry[a] \in Sizes /\ OrdArry[a + 1] \in Sizes /\ OrdArry[b] \in Sizes
    BY <2>0 DEF Shape
  <2>2. OrdArry[a + 1] # OrdArry[a] /\ a < a + 1
    BY <1>1, <2>0 DEF EndsRun
  <2>3. Passes(OrdArry[a], OrdArry[a + 1])
    BY <2>0, <2>2 DEF Ordered
  <2>4. OrdArry[a + 1] = OrdArry[b] \/ Passes(OrdArry[a + 1], OrdArry[b])
    <3>1. CASE a + 1 = b
      BY <3>1
    <3>2. CASE a + 1 # b
      <4>1. a + 1 < b
        BY <3>2, <1>1, <2>0
      <4> QED
        BY <4>1, <2>0 DEF Ordered
    <3> QED
      BY <3>1, <3>2
  <2>5. Passes(OrdArry[a], OrdArry[b])
    BY <2>1, <2>3, <2>4, PassesStrict
  <2> QED
    BY <1>1, <2>1, <2>5, PassesStrict
<1>2. x \in Nat /\ y \in Nat
  BY DEF Shape, Places
<1> QED
  BY <1>1, <1>2

\* Every size of the list has the end of a run.
LEMMA EndOf ==
  ASSUME Shape, Ordered, NEW k \in Places
  PROVE  \E l \in Places : EndsRun(l) /\ OrdArry[l] = OrdArry[k]
<1>0. length \in Nat /\ length - 1 \in Nat /\ \A l \in Places : l \in Nat /\ l <= length - 1
  BY DEF Shape, Places
<1>1. PICK T : T = {l \in Places : OrdArry[l] = OrdArry[k]}
  OBVIOUS
<1>2. T \in SUBSET Nat /\ T # {} /\ \A l \in T : l <= length - 1
  BY <1>0, <1>1
<1>3. PICK x \in T : \A y \in T : y <= x
  BY <1>0, <1>2, GreatestNat
<1>4. x \in Places /\ OrdArry[x] = OrdArry[k] /\ x \in Nat
  BY <1>0, <1>1
<1>5. EndsRun(x)
  <2> SUFFICES ASSUME ~EndsRun(x) PROVE FALSE
    OBVIOUS
  <2>1. x # length - 1 /\ OrdArry[x + 1] = OrdArry[x]
    BY DEF EndsRun
  <2>2. x + 1 \in Places
    BY <1>0, <1>4, <2>1 DEF Places
  <2>3. x + 1 \in T
    BY <1>1, <1>4, <2>1, <2>2
  <2> QED
    BY <1>3, <1>4, <2>3
<1> QED
  BY <1>4, <1>5

\* What the sort is given: entries that carry a size at the ends of runs only.
LEMMA ScannedEntries ==
  ASSUME ScanInv, pc = "sort"
  PROVE  /\ Shape /\ Ordered
         /\ \A k \in Places : Carries(countDist, k) <=> EndsRun(k)
         /\ \A k \in Places : EndsRun(k) => countDist[k] = EntryOf(OrdArry[k])
<1>1. Shape /\ Ordered /\ \A k \in Places : RunAt(k)
  BY DEF ScanInv
<1>2. ASSUME NEW k \in Places PROVE Carries(countDist, k) <=> EndsRun(k)
  <2>1. RunAt(k) /\ OrdArry[k] \in Sizes
    BY <1>1 DEF Shape
  <2>2. OrdArry[k] # MAX_SIZE
    BY <2>1, SizeAssumption
  <2> QED
    BY <2>1, <2>2 DEF RunAt, Carries
<1>3. ASSUME NEW k \in Places, EndsRun(k) PROVE countDist[k] = EntryOf(OrdArry[k])
  <2>1. RunAt(k) /\ countDist[k] \in [size : Nat, count : Nat]
    BY <1>1 DEF Shape
  <2>2. countDist[k].count = Cardinality(Occurrences(OrdArry[k])) /\ countDist[k].size = OrdArry[k]
    BY <1>1, <1>3, <2>1, RunIsAll DEF RunAt
  <2> QED
    BY <2>1, <2>2 DEF EntryOf
<1> QED
  BY <1>1, <1>2, <1>3

\* The sort is given records with numbers, and works within the list.
LEMMA SortWorks ==
  ASSUME Shape
  PROVE  /\ Sorts(SortNetwork, countDist, Places, Counts, "size", TRUE)
         /\ SortedBy(SortNetwork, 0, length, TRUE) /\ Piece(0, length) \subseteq Places
<1>1. length \in Nat \ {0} /\ length \in Nat /\ Places \in SUBSET Nat
  BY DEF Shape, Places
<1>2. Piece(0, length) \subseteq Places
  BY <1>1 DEF Piece, Places
<1>3. SortNetwork \in Seq(Within(0, length)) /\ SortedBy(SortNetwork, 0, length, TRUE)
  <2>1. CASE version = "OItemCountDist_DESC" /\ testPo2(length)
    <3>1. SortNetwork = Sorter(0, length)
      BY <2>1 DEF SortNetwork, Sorter
    <3> QED
      BY <3>1, <1>1, SorterSorts
  <2>2. CASE ~(version = "OItemCountDist_DESC" /\ testPo2(length))
    <3>1. SortNetwork = bitonicSort[<<0, length, TRUE>>]
      BY <2>2 DEF SortNetwork
    <3>2. TRUE \in BOOLEAN /\ 0 \in Nat
      OBVIOUS
    <3> QED
      BY <3>1, <3>2, <1>1, bitonicSortIn, bitonicSortSorts
  <2> QED
    BY <2>1, <2>2
<1>4. Works(SortNetwork, Places)
  BY <1>1, <1>2, <1>3, WithinWorks
<1>5. Counts # {} /\ Keyed(Counts, "size") /\ countDist \in [Places -> Counts]
  <2>1. [size |-> 0, count |-> 0] \in Counts
    BY DEF Counts
  <2>2. \A x \in Counts : x.size \in Int
    BY DEF Counts
  <2> QED
    BY <2>1, <2>2 DEF Keyed, Counts, Shape
<1> QED
  BY <1>2, <1>3, <1>4, <1>5 DEF Sorts

LEMMA SortStep ==
  ASSUME ScanInv, Sort
  PROVE  DistExact'
<1>1. pc = "sort" /\ UNCHANGED args /\ countDist' = Applied(SortNetwork, countDist, "size", TRUE)
  BY DEF Sort
<1>2. PICK E, L : E = countDist' /\ L = countDist
  OBVIOUS
<1>3. /\ Shape /\ Ordered
      /\ \A k \in Places : Carries(L, k) <=> EndsRun(k)
      /\ \A k \in Places : EndsRun(k) => L[k] = EntryOf(OrdArry[k])
  BY <1>1, <1>2, ScannedEntries
<1>4. Sorts(SortNetwork, L, Places, Counts, "size", TRUE) /\ SortedBy(SortNetwork, 0, length, TRUE)
      /\ Piece(0, length) \subseteq Places
  BY <1>2, <1>3, SortWorks
<1>5. E \in [Places -> Counts] /\ Shuffles(L, E, Places)
  BY <1>1, <1>2, <1>4, AppliedShuffles
<1>6. length \in Nat /\ IsFiniteSet(Places)
  BY <1>3, FS_Interval DEF Shape, Places
<1>7. InOrder(E, 0, length, "size", TRUE)
  <2>1. 0 \in Nat
    OBVIOUS
  <2> QED
    BY <1>1, <1>2, <1>4, <1>6, <2>1, SortedArray
<1>8. PICK q \in [Places -> Places] : /\ \A k \in Places : E[k] = L[q[k]]
                                      /\ \A k, l \in Places : q[k] = q[l] => k = l
  BY <1>5 DEF Shuffles
<1>9. \A k \in Places : Carries(E, k) => EndsRun(q[k]) /\ E[k] = EntryOf(OrdArry[q[k]])
  BY <1>3, <1>8 DEF Carries
<1>10. ASSUME NEW k \in 0 .. length - 2
       PROVE  E[k].size < E[k + 1].size \/ E[k + 1].size = MAX_SIZE
  <2>1. k \in Places /\ k + 1 \in Places /\ 0 + k = k /\ 0 + (k + 1) = k + 1 /\ k # k + 1
    BY <1>6 DEF Places
  <2>2. E[k].size <= E[k + 1].size /\ E[k].size \in Nat /\ E[k + 1].size \in Nat
    <3>1. Key(E[k]["size"], TRUE) <= Key(E[k + 1]["size"], TRUE)
      BY <1>7, <2>1 DEF InOrder
    <3>2. E[k] \in Counts /\ E[k + 1] \in Counts
      BY <1>5, <2>1
    <3> QED
      BY <3>1, <3>2 DEF Key, Counts
  <2> SUFFICES ASSUME E[k].size = E[k + 1].size, Carries(E, k + 1) PROVE FALSE
    BY <2>2 DEF Carries
  <2>3. Carries(E, k)
    BY DEF Carries
  <2>4. /\ EndsRun(q[k]) /\ EndsRun(q[k + 1])
        /\ E[k] = EntryOf(OrdArry[q[k]]) /\ E[k + 1] = EntryOf(OrdArry[q[k + 1]])
    BY <1>9, <2>1, <2>3
  <2>5. OrdArry[q[k]] = OrdArry[q[k + 1]]
    BY <2>4 DEF EntryOf
  <2>6. q[k] = q[k + 1]
    BY <1>3, <1>8, <2>1, <2>4, <2>5, EndsDiffer
  <2> QED
    BY <1>8, <2>1, <2>6
<1>11. \A k \in Places : Carries(E, k) => \E m \in Places : E[k] = EntryOf(OrdArry[m])
  BY <1>8, <1>9
<1>12. ASSUME NEW m \in Places
       PROVE  \E k \in Places : Carries(E, k) /\ E[k] = EntryOf(OrdArry[m])
  <2>1. PICK l \in Places : EndsRun(l) /\ OrdArry[l] = OrdArry[m]
    BY <1>3, EndOf
  <2>2. Shuffles(E, L, Places)
    BY <1>5, <1>6, ShufflesBack
  <2>3. PICK k \in Places : L[l] = E[k]
    BY <2>2 DEF Shuffles
  <2>4. Carries(L, l) /\ L[l] = EntryOf(OrdArry[m])
    BY <1>3, <2>1
  <2> QED
    BY <2>3, <2>4 DEF Carries
<1>13. {E[k] : k \in {l \in Places : E[l].size # MAX_SIZE}} = {EntryOf(s) : s \in {OrdArry[k] : k \in Places}}
  <2>1. {E[k] : k \in {l \in Places : Carries(E, l)}} = {EntryOf(s) : s \in {OrdArry[k] : k \in Places}}
    BY <1>11, <1>12
  <2> QED
    BY <2>1 DEF Carries
<1>14. UNCHANGED <<version, length, OrdArry>>
  BY <1>1 DEF args
<1>15. /\ \A k \in 0 .. length' - 2 : countDist'[k].size < countDist'[k + 1].size \/ countDist'[k + 1].size = MAX_SIZE
       /\ {countDist'[k] : k \in {l \in Places' : countDist'[l].size # MAX_SIZE}}
            = {EntryOf(s)' : s \in {OrdArry'[k] : k \in Places'}}
  <2>1. Places' = Places /\ \A s : EntryOf(s)' = EntryOf(s)
    BY <1>14 DEF Places, EntryOf, Occurrences
  <2>2. \A k \in 0 .. length' - 2 : countDist'[k].size < countDist'[k + 1].size \/ countDist'[k + 1].size = MAX_SIZE
    BY <1>2, <1>10, <1>14
  <2>3. {countDist'[k] : k \in {l \in Places' : countDist'[l].size # MAX_SIZE}}
          = {EntryOf(s)' : s \in {OrdArry'[k] : k \in Places'}}
    <3>1. {EntryOf(s)' : s \in {OrdArry'[k] : k \in Places'}} = {EntryOf(s) : s \in {OrdArry[k] : k \in Places}}
      BY <1>14, <2>1
    <3> QED
      BY <1>2, <1>13, <2>1, <3>1
  <2> QED
    BY <2>2, <2>3
<1> QED
  BY <1>15 DEF DistExact, EntryOf, Occurrences, Places

\* The two halves of DistExact.
DistSorted ==
  \A k \in 0 .. length - 2 :
    countDist[k].size < countDist[k + 1].size \/ countDist[k + 1].size = MAX_SIZE
DistComplete ==
  {countDist[k] : k \in {l \in Places : countDist[l].size # MAX_SIZE}}
    = {[size |-> s, count |-> Cardinality(Occurrences(s))] : s \in {OrdArry[k] : k \in Places}}

\* The ordered functions never come to the steps of the plain ones.
OrderedCall == pc = "plain" => version \notin Versions

DistInv == ScanInv /\ OrderedCall /\ DistExact

\* When OItemCountDist_DESC, OItemCountDist_ASC or OCountDist returns, for an
\* ordered list of any length and any sizes, the entries that carry a size come
\* first and strictly ascend, and they are the sizes of the list with the numbers
\* of their occurrences: whichever of the two networks the length has chosen.
THEOREM DistExactHolds == Spec => []DistExact
<1>1. Init => DistInv
  <2> SUFFICES ASSUME Init PROVE DistInv
    OBVIOUS
  <2>1. ScanInv
    BY InitScan
  <2>2. pc # "done" /\ (pc = "plain" => version \notin Versions)
    BY DEF Init
  <2> QED
    BY <2>1, <2>2 DEF DistInv, OrderedCall, DistExact
<1>2. DistInv /\ [Next]_vars => DistInv'
  <2> SUFFICES ASSUME DistInv, [Next]_vars PROVE DistInv'
    OBVIOUS
  <2>0. ScanInv' /\ ScanInv /\ OrderedCall /\ DistExact
    BY NextScan DEF DistInv
  <2>1. CASE Scan \/ ScanLast
    BY <2>0, <2>1 DEF Scan, ScanLast, DistInv, OrderedCall, DistExact
  <2>3. CASE Sort
    <3>1. DistExact' /\ pc' = "done"
      BY <2>0, <2>3, SortStep DEF Sort
    <3> QED
      BY <2>0, <3>1 DEF DistInv, OrderedCall
  <2>4. CASE CountInMap \/ CountItem
    <3>1. pc = "plain" /\ UNCHANGED version
      BY <2>4 DEF CountInMap, CountItem, args
    <3>2. version' \notin Versions
      BY <2>0, <3>1 DEF OrderedCall
    <3> QED
      BY <2>0, <3>2 DEF DistInv, OrderedCall, DistExact
  <2>6. CASE UNCHANGED vars
    <3>1. UNCHANGED <<version, length, OrdArry, countDist, pc>>
      BY <2>6 DEF vars, args
    <3>2. DistExact'
      <4>1. Places' = Places /\ \A s : Occurrences(s)' = Occurrences(s)
        BY <3>1 DEF Places, Occurrences
      <4>2. ASSUME DistSorted PROVE DistSorted'
        BY <3>1, <4>2 DEF DistSorted
      <4>3. ASSUME DistComplete PROVE DistComplete'
        <5>1. {countDist'[k] : k \in {l \in Places' : countDist'[l].size # MAX_SIZE}}
                = {countDist[k] : k \in {l \in Places : countDist[l].size # MAX_SIZE}}
          BY <3>1, <4>1
        <5>2. {[size |-> s, count |-> Cardinality(Occurrences(s)')] : s \in {OrdArry'[k] : k \in Places'}}
                = {[size |-> s, count |-> Cardinality(Occurrences(s))] : s \in {OrdArry[k] : k \in Places}}
          BY <3>1, <4>1
        <5> QED
          BY <4>3, <5>1, <5>2 DEF DistComplete
      <4> QED
        BY <2>0, <3>1, <4>2, <4>3 DEF DistExact, DistSorted, DistComplete
    <3> QED
      BY <2>0, <3>1, <3>2 DEF DistInv, OrderedCall
  <2> QED
    BY <2>1, <2>3, <2>4, <2>6 DEF Next
<1>3. DistInv => DistExact
  BY DEF DistInv
<1> QED
  BY <1>1, <1>2, <1>3, PTL DEF Spec
================================================================================
