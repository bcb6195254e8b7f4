-------------------------------- MODULE Sorting --------------------------------
(***************************************************************************)
(* One call of sort or merge of a sorter of OPrimitive.h: each step is one   *)
(* compare.  An element is a key and the place where it stood at the start, *)
(* as the payload that has to travel with the key.  Keys are compared as    *)
(* `greater` does it; a descending sorter passes the opposite order.        *)
(***************************************************************************)
EXTENDS SortNet

CONSTANTS
  Keys,      \* the keys of the elements
  PadKey,    \* the key of the padding, above every other
  Jobs       \* the calls: sorter, operation and number of elements

Sorters == {"OddEvenMergeSorter", "BitonicSorter", "BitonicSorter_CDist"}

ASSUME KeyAssumption == Keys \subseteq Int /\ PadKey \in Int /\ \A k \in Keys : k < PadKey
ASSUME JobAssumption ==
  /\ Jobs \subseteq [sorter : Sorters, op : {"sort", "merge"}, num : Nat \ {0}]
  /\ \A j \in Jobs : j.sorter = "BitonicSorter_CDist" => j.op = "sort"

VARIABLES
  job,      \* the call
  input,    \* the array it was given
  List,     \* the array it works on
  step      \* the compares done

vars == <<job, input, List, step>>

\* An odd-even sorter prints a message and leaves another length alone.
Accepts(j) == j.sorter = "OddEvenMergeSorter" => testPo2(j.num)

\* The compares of a call of sort and of a call of merge.
Sort(j) ==
  CASE j.sorter = "OddEvenMergeSorter"  -> oddEvenMergeSort[<<0, j.num>>]
    [] j.sorter = "BitonicSorter"       -> bitonicSort[<<0, j.num, TRUE>>]
    [] j.sorter = "BitonicSorter_CDist" -> paddedSort[<<0, PowerAbove(j.num), TRUE>>]

Merge(j) ==
  CASE j.sorter = "OddEvenMergeSorter" -> oddEvenMerge[<<0, j.num, 1>>]
    [] j.sorter = "BitonicSorter"      -> bitonicMerge[<<0, j.num, TRUE>>]

Network ==
  [j \in Jobs |-> IF j.num < 2 \/ ~Accepts(j) THEN <<>>
                  ELSE IF j.op = "sort" THEN Sort(j) ELSE Merge(j)]

\* BitonicSorter_CDist works on a copy with padding.
Length(j)    == IF j.sorter = "BitonicSorter_CDist" THEN PowerAbove(j.num) ELSE j.num
Index(j)     == 0 .. Length(j) - 1
Element(j)   == [key : Keys \cup {PadKey}, origin : Index(j)]

Padded(j, keys) ==
  [k \in Index(j) |-> [key |-> IF k < j.num THEN keys[k] ELSE PadKey, origin |-> k]]

Ascends(keys, from, to)  == \A k \in from .. to - 1 : keys[k] <= keys[k + 1]
Descends(keys, from, to) == \A k \in from .. to - 1 : keys[k] >= keys[k + 1]

\* What merge is given: an odd-even merge two ascending halves, a bitonic
\* merge a descending and an ascending one.
Given(j, keys) ==
  j.op = "merge" =>
    LET m == j.num \div 2
    IN /\ Ascends(keys, m, j.num - 1)
       /\ IF j.sorter = "OddEvenMergeSorter" THEN Ascends(keys, 0, m - 1) ELSE Descends(keys, 0, m - 1)

Init ==
  /\ job \in Jobs
  /\ \E keys \in [0 .. job.num - 1 -> Keys] : Given(job, keys) /\ input = Padded(job, keys)
  /\ List = input
  /\ step = 0

Compare ==
  /\ step < Len(Network[job])
  /\ LET c    == Network[job][step + 1]
         cond == c[3] = (List[c[1]].key > List[c[2]].key)
     IN List' = OSwap(List, c[1], c[2], cond)
  /\ step' = step + 1
  /\ UNCHANGED <<job, input>>

Next == Compare
Spec == Init /\ [][Next]_vars

Done == step = Len(Network[job])
--------------------------------------------------------------------------------
\* The array keeps its shape.
TypeOK ==
  /\ job \in Jobs
  /\ input \in [Index(job) -> Element(job)] /\ List \in [Index(job) -> Element(job)]
  /\ step \in 0 .. Len(Network[job])

\* Every compare is of two places of the array, the lower one first: the
\* recursions of oddEvenMerge, bitonicSort and bitonicMerge, whose lengths are
\* halved in three different ways, never leave the array (List[i], List[j]).
InArray(j) ==
  /\ Network[j] \in Seq(Index(j) \X Index(j) \X BOOLEAN)
  /\ \A k \in DOMAIN Network[j] : Network[j][k][1] < Network[j][k][2]

ComparesInArray == InArray(job)

\* At every step of sort and merge the array is a rearrangement of the input:
\* OSwap, which reads and writes through tmp, neither duplicates nor loses an
\* element, nor parts a key from its payload.
Rearranged ==
  /\ \A k \in Index(job) : \E l \in Index(job) : List[k] = input[l]
  /\ \A k, l \in Index(job) : k # l => List[k] # List[l]

\* A sorter that accepts the length returns the elements in order: for every
\* length (bitonic), every power of two (odd-even), with padding (CDist), and
\* merge for what Given describes.  Over keys 0 and 1 this decides all keys.
SortedAtEnd ==
  Done /\ Accepts(job) =>
    /\ \A k \in 0 .. job.num - 2 : List[k].key <= List[k + 1].key
    /\ \A k \in 0 .. job.num - 1 : List[k].origin < job.num
================================================================================
