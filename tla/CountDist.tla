------------------------------- MODULE CountDist -------------------------------
(***************************************************************************)
(* The distribution of the sizes in an ordered list, as                     *)
(* OItemCountDist_DESC, OItemCountDist_ASC and OCountDist count it: a scan   *)
(* that writes at each place how often the size has occurred in its run so  *)
(* far, and a size only at the end of a run (MAX_SIZE elsewhere), and a     *)
(* sort that brings the written sizes to the front; and as the plain          *)
(* TestHeavyCountDist functions of Enclave.cpp count it, which go through a    *)
(* list in any order and look each size up among the entries so far.           *)
(***************************************************************************)
EXTENDS SortNet, FiniteSets

CONSTANTS
  Versions,   \* the functions called
  Lengths,    \* the lengths of the list
  PlainVersions, PlainLengths,  \* and the same of the plain functions
  HALFWORD,   \* 2^16, the sizes that the uint16_t curSize of one of them holds
  Sizes,      \* the sizes in it
  MAX_SIZE    \* no size: what an entry inside a run gets

ASSUME VersionAssumption ==
  Versions \subseteq {"OItemCountDist_DESC", "OItemCountDist_ASC", "OCountDist"}
ASSUME PlainAssumption ==
  /\ PlainVersions \subseteq {"TestHeavyCountDist_NO_MAP", "TestHeavyCountDist_NO_ORD",
                              "TestHeavyCountDist_NO", "TestHeavyCountDist"}
  /\ PlainLengths \subseteq Nat \ {0} /\ HALFWORD \in Nat \ {0}
ASSUME SizeAssumption ==
  Lengths \subseteq Nat \ {0} /\ Sizes \subseteq Nat /\ MAX_SIZE \in Nat /\ \A s \in Sizes : s < MAX_SIZE

VARIABLES
  version, length, OrdArry,   \* the call and its arguments
  countDist,                  \* the result
  curCount, cond, i,          \* the locals of the scan
  numSize,                    \* the entries of a plain function
  pc

args == <<version, length, OrdArry>>
vars == <<args, countDist, curCount, cond, i, numSize, pc>>

Places == 0 .. length - 1

\* The list goes up or down, and passes from one size to the next.
Passes(a, b) == IF version = "OItemCountDist_DESC" THEN b < a ELSE b > a

\* An entry before the call writes it; no entry is read before that.
Unwritten == [size |-> 0, count |-> 0]

Init ==
  /\ \/ version \in Versions /\ length \in Lengths
     \/ version \in PlainVersions /\ length \in PlainLengths
  /\ OrdArry \in [Places -> Sizes]
  /\ version \in Versions =>
       \A k, l \in Places : k < l => OrdArry[k] = OrdArry[l] \/ Passes(OrdArry[k], OrdArry[l])
  /\ countDist = [k \in Places |-> Unwritten]
  /\ curCount = 0 /\ cond = TRUE /\ i = 0 /\ numSize = 0
  /\ pc = IF version \in Versions THEN "scan" ELSE "plain"

\* The number of items of the run up to place i.
Counted == IF cond THEN 1 ELSE curCount + 1

\* Mutant: the size is written where a run begins.
ScanStarts ==
  /\ pc = "scan" /\ i < length - 1
  /\ curCount' = Counted
  /\ cond' = Passes(OrdArry[i], OrdArry[i + 1])
  /\ countDist' = [countDist EXCEPT ![i] =
       [size |-> IF cond THEN OrdArry[i] ELSE MAX_SIZE, count |-> Counted]]
  /\ i' = i + 1
  /\ UNCHANGED <<args, numSize, pc>>

Scan ==
  /\ pc = "scan" /\ i < length - 1
  /\ curCount' = Counted
  /\ cond' = Passes(OrdArry[i], OrdArry[i + 1])
  /\ countDist' = [countDist EXCEPT ![i] =
       [size |-> IF Passes(OrdArry[i], OrdArry[i + 1]) THEN OrdArry[i] ELSE MAX_SIZE, count |-> Counted]]
  /\ i' = i + 1
  /\ UNCHANGED <<args, numSize, pc>>

\* Mutant: the last count is 1.
ScanLastAlone ==
  /\ pc = "scan" /\ i = length - 1
  /\ countDist' = [countDist EXCEPT ![i] = [size |-> OrdArry[i], count |-> 1]]
  /\ pc' = "sort"
  /\ UNCHANGED <<args, curCount, cond, i, numSize>>

ScanLast ==
  /\ pc = "scan" /\ i = length - 1
  /\ countDist' = [countDist EXCEPT ![i] = [size |-> OrdArry[i], count |-> Counted]]
  /\ pc' = "sort"
  /\ UNCHANGED <<args, curCount, cond, i, numSize>>

SortNetwork ==
  IF version = "OItemCountDist_DESC" /\ testPo2(length)
  THEN oddEvenMergeSort[<<0, length>>] ELSE bitonicSort[<<0, length, TRUE>>]

Sort ==
  /\ pc = "sort"
  /\ countDist' = Applied(SortNetwork, countDist, "size", TRUE)
  /\ pc' = "done"
  /\ UNCHANGED <<args, curCount, cond, i, numSize>>

--------------------------------------------------------------------------------
(* The plain functions *)

Occurrences(s) == {k \in Places : OrdArry[k] = s}
SizesHere      == {OrdArry[k] : k \in Places}

\* The k-th smallest item, as std::sort places it.
Ascending(k) ==
  CHOOSE s \in SizesHere : /\ Cardinality({l \in Places : OrdArry[l] < s}) <= k
                           /\ Cardinality({l \in Places : OrdArry[l] <= s}) > k

\* TestHeavyCountDist_NO_MAP counts in a map and sorts what is in it.
CountInMap ==
  /\ pc = "plain" /\ version = "TestHeavyCountDist_NO_MAP"
  /\ numSize' = Cardinality(SizesHere)
  /\ countDist' =
       [k \in Places |->
          IF k >= numSize' THEN countDist[k]
          ELSE LET s == CHOOSE x \in SizesHere : Cardinality({y \in SizesHere : y < x}) = k
               IN [size |-> s, count |-> Cardinality(Occurrences(s))]]
  /\ pc' = "done"
  /\ UNCHANGED <<args, curCount, cond, i>>

\* The item that step i counts: TestHeavyCountDist_NO_ORD has sorted a copy.
Counting == IF version = "TestHeavyCountDist_NO_ORD" THEN Ascending(i) ELSE OrdArry[i]

\* The entry that counts it already.  TestHeavyCountDist_NO_ORD looks at the last
\* one only, through a variable of 16 bits.
Entries(s) ==
  IF version = "TestHeavyCountDist_NO_ORD"
  THEN {k \in {numSize - 1} \cap Places : countDist[k].size % HALFWORD = s}
  ELSE {k \in 0 .. numSize - 1 : countDist[k].size = s}

\* TestHeavyCountDist_NO adds an entry also for a size that it has found.
Appends(s) == Entries(s) = {} \/ version = "TestHeavyCountDist_NO"

\* Mutant: a new entry has counted nothing.
CountItemShort ==
  /\ pc = "plain" /\ version # "TestHeavyCountDist_NO_MAP"
  /\ LET s     == Counting
         first == {k \in Entries(s) : \A l \in Entries(s) : k <= l}
     IN /\ countDist' =
             [k \in Places |->
                IF k \in first THEN [countDist[k] EXCEPT !.count = @ + 1]
                ELSE IF Appends(s) /\ k = numSize THEN [size |-> s, count |-> 0]
                ELSE countDist[k]]
        /\ numSize' = IF Appends(s) THEN numSize + 1 ELSE numSize
  /\ IF i + 1 = length THEN pc' = "done" /\ i' = i ELSE pc' = pc /\ i' = i + 1
  /\ UNCHANGED <<args, curCount, cond>>

\* One item: the first entry of its size counts it, or a new entry does.
CountItem ==
  /\ pc = "plain" /\ version # "TestHeavyCountDist_NO_MAP"
  /\ LET s     == Counting
         first == {k \in Entries(s) : \A l \in Entries(s) : k <= l}
     IN /\ countDist' =
             [k \in Places |->
                IF k \in first THEN [countDist[k] EXCEPT !.count = @ + 1]
                ELSE IF Appends(s) /\ k = numSize THEN [size |-> s, count |-> 1]
                ELSE countDist[k]]
        /\ numSize' = IF Appends(s) THEN numSize + 1 ELSE numSize
  /\ IF i + 1 = length THEN pc' = "done" /\ i' = i ELSE pc' = pc /\ i' = i + 1
  /\ UNCHANGED <<args, curCount, cond>>

Next == Scan \/ ScanLast \/ Sort \/ CountInMap \/ CountItem
Spec == Init /\ [][Next]_vars
--------------------------------------------------------------------------------
\* Place k is the last of its size.
EndsRun(k) == k = length - 1 \/ OrdArry[k + 1] # OrdArry[k]

\* What the scan leaves to the sort: a size is written at the end of its run
\* only, with the number of its occurrences in the whole list, whichever way the
\* list is ordered and also when the list ends inside a run.
ScanExact ==
  pc = "sort" =>
    \A k \in Places :
      IF EndsRun(k)
      THEN countDist[k] = [size |-> OrdArry[k], count |-> Cardinality(Occurrences(OrdArry[k]))]
      ELSE countDist[k].size = MAX_SIZE

\* "the countDist is ascending ordered by size": at the end each size of the list
\* has one entry, with its number of occurrences; these entries come first, in
\* ascending order, and all others are marked MAX_SIZE.
DistExact ==
  pc = "done" /\ version \in Versions =>
    /\ \A k \in 0 .. length - 2 :
         countDist[k].size < countDist[k + 1].size \/ countDist[k + 1].size = MAX_SIZE
    /\ {countDist[k] : k \in {l \in Places : countDist[l].size # MAX_SIZE}}
         = {[size |-> s, count |-> Cardinality(Occurrences(s))] : s \in {OrdArry[k] : k \in Places}}

\* The plain functions agree with them: every size of the list has an entry with
\* the number of its occurrences, which is the first of its size; the others of
\* its size, which TestHeavyCountDist_NO alone leaves, count one item.  The
\* exception are sizes of more than 16 bits in TestHeavyCountDist_NO_ORD.
PlainExact ==
  pc = "done" /\ version \in PlainVersions =>
    \A s \in SizesHere :
      LET of == {k \in 0 .. numSize - 1 : countDist[k].size = s} IN
        \/ version = "TestHeavyCountDist_NO_ORD" /\ s >= HALFWORD
        \/ /\ \E k \in of : /\ countDist[k].count = Cardinality(Occurrences(s))
                            /\ \A l \in of \ {k} : l > k /\ countDist[l].count = 1
           /\ version # "TestHeavyCountDist_NO" => Cardinality(of) = 1
================================================================================
