--------------------------------- MODULE Epoch ---------------------------------
(***************************************************************************)
(* OPrepareData (FOSketch.h): an epoch begins with a message that holds the  *)
(* sketches of two switches; their light parts are merged by maximum, their  *)
(* heavy parts by size, then OHeavyChange looks for changes, the lower heavy  *)
(* items go into the light part, the distributions are counted, and           *)
(* OBuildSTable builds the table of the upper ones.  OResponseHeavyHitter     *)
(* and OResponseHeavyChange answer requests from what is there.               *)
(*                                                                         *)
(* HeavyChange and StashTable bring the steps of the two long functions; the  *)
(* update of the light part (LightUpdate) and the count of the heavy part     *)
(* (CountDist) are one step here, with the result those modules establish,    *)
(* and with any result where they establish none.                            *)
(***************************************************************************)
EXTENDS HeavyChange, StashTable, FiniteSetsExt

CONSTANTS
  CUSKETCH_MEM,   \* counters of the light part
  numEBlock,      \* and the blocks that its update cuts it into, 7680 by default
  CounterMax,     \* 255
  CusHashes,      \* the hash functions that a random cusHash may give
  Messages,       \* the sketches that may arrive, as a pair
  TopK,           \* the requests: how many heavy hitters, and the size from
  Thresholds,     \* which a change counts (gamma * Cardinality / 100)
  Epochs          \* bound: the epochs that begin

Counter == 0 .. CUSKETCH_MEM - 1
Light   == [Counter -> 0 .. CounterMax]

\* What a switch reports: flows, or empty items.
Reported == {item \in Item : item.flowID # DUMMY_FLOW}
Sketches == [light : Light, heavy : [Upper -> Reported]]

ASSUME EpochAssumption ==
  /\ CUSKETCH_MEM \in Nat \ {0} /\ numEBlock \in Nat \ {0} /\ CounterMax \in Nat
  /\ CusHashes \subseteq [Flow -> Counter] /\ CusHashes # {} /\ BtHashes # {} /\ StHashes # {}
  /\ Messages \subseteq Sketches \X Sketches /\ Messages # {}
  /\ TopK \subseteq Nat /\ Epochs \in Nat

VARIABLES
  message,              \* the two sketches of this epoch
  merged,               \* the lists after the merge
  pDataCUSketch,        \* the merged light part
  cusHash,
  CountHeavy,           \* the heavy part of the last epoch, then a distribution
  CountLight,
  HHCountDistinct,
  response,             \* what the last request returned
  epoch

NoResponse == [kind |-> "none", items |-> <<>>]

counts == <<CountLight, HHCountDistinct>>
own    == <<message, merged, pDataCUSketch, cusHash, CountHeavy, counts, response, epoch>>
change == <<btHash, todo, table, HeavyChangeList, numHeavyChange>>
stashT == <<stHash, builder, unplaced, stTable, stashed, lost, found>>
vars   == <<pc, HeavyHitterList, own, change, stashT>>

NoItem == [flowID |-> 0, size |-> 0]

Init ==
  /\ pc = "idle"
  /\ HeavyHitterList = [k \in Both |-> NoItem]
  /\ InitChange /\ InitStash /\ stHash = CHOOSE h \in StHashes : TRUE
  /\ message = CHOOSE m \in Messages : TRUE
  /\ merged = HeavyHitterList
  /\ pDataCUSketch = [c \in Counter |-> 0]
  /\ cusHash = CHOOSE h \in CusHashes : TRUE
  /\ CountHeavy = [k \in Upper |-> NoItem]
  /\ CountLight = [v \in 0 .. CounterMax |-> 0] /\ HHCountDistinct = 0
  /\ response = NoResponse
  /\ epoch = 0

Larger(a, b) == IF a > b THEN a ELSE b

SavePrevious == CountHeavy' = [k \in Upper |-> HeavyHitterList[k]]

\* A payload that is empty, has another length, or fails the check of its tag,
\* or a malloc that fails: the old list has been saved, nothing else is done, and
\* the caller goes on with what it had.
ReceiveFails ==
  /\ pc \in {"idle", "ready"}
  /\ SavePrevious
  /\ response' = NoResponse
  /\ UNCHANGED <<pc, HeavyHitterList, message, merged, pDataCUSketch, cusHash, counts, epoch, change, stashT>>

\* The light parts merged, the heavy parts copied.
Receive ==
  /\ pc \in {"idle", "ready"} /\ epoch < Epochs
  /\ SavePrevious
  /\ message' \in Messages
  /\ btHash' \in BtHashes /\ stHash' \in StHashes /\ cusHash' \in CusHashes
  /\ pDataCUSketch' = [c \in Counter |-> Larger(message'[1].light[c], message'[2].light[c])]
  /\ HeavyHitterList' =
       [k \in Both |-> IF k \in Upper THEN message'[1].heavy[k] ELSE message'[2].heavy[k - NUM_HEAVY]]
  /\ epoch' = epoch + 1 /\ response' = NoResponse /\ found' = NoAnswer
  /\ pc' = "merge"
  /\ UNCHANGED <<merged, counts, todo, table, HeavyChangeList, numHeavyChange,
                 builder, unplaced, stTable, stashed, lost>>

\* Before a bitonic merge the first list is reversed, with an index that is one
\* too high: the first exchange is with the first item of the second list.
ReverseFirst(L) ==
  [k \in Both |-> IF {k, NUM_HEAVY - k} \cap 0 .. NUM_HEAVY \div 2 - 1 # {} THEN L[NUM_HEAVY - k] ELSE L[k]]

MergedDESC(L) ==
  LET n == 2 * NUM_HEAVY
  IN IF testPo2(n) THEN Applied(oddEvenMerge[<<0, n, 1>>], L, "size", FALSE)
                   ELSE Applied(bitonicMerge[<<0, n, TRUE>>], ReverseFirst(L), "size", FALSE)

\* Mutant: the lists stay one behind the other.
MergeHeavyNot ==
  /\ pc = "merge"
  /\ merged' = HeavyHitterList
  /\ pc' = "change"
  /\ UNCHANGED <<HeavyHitterList, message, pDataCUSketch, cusHash, CountHeavy, counts, response, epoch, change, stashT>>

MergeHeavy ==
  /\ pc = "merge"
  /\ HeavyHitterList' = MergedDESC(HeavyHitterList)
  /\ merged' = HeavyHitterList'
  /\ pc' = "change"
  /\ UNCHANGED <<message, pDataCUSketch, cusHash, CountHeavy, counts, response, epoch, change, stashT>>

\* The counter of a flow; an empty item has one too, but its size is 0.
Raises(k, c) ==
  /\ HeavyHitterList[k].flowID \in Flow /\ cusHash[HeavyHitterList[k].flowID] = c

Cap(size) == IF size > CounterMax THEN CounterMax ELSE size

\* Mutant: the upper items go into the light part.
UpdateLightUpper ==
  /\ pc = "light"
  /\ pDataCUSketch' =
       [c \in Counter |->
          Max({pDataCUSketch[c]} \cup {Cap(HeavyHitterList[k].size) : k \in {j \in Upper : Raises(j, c)}})]
  /\ pc' = "count"
  /\ UNCHANGED <<HeavyHitterList, message, merged, cusHash, CountHeavy, counts, response, epoch, change, stashT>>

\* OUpdateCUSketch_BEx finds all maxima when a power of two of blocks goes into its
\* merge (theorem LightUpdatedHolds).  The 7680 blocks of the default are not one,
\* and counters come out wrong (run light_default).
ExactUpdate == testPo2(numEBlock)

\* The lower list goes into the light part: exactly, or with any result.
UpdateLight ==
  /\ pc = "light"
  /\ IF ExactUpdate
     THEN pDataCUSketch' =
            [c \in Counter |->
               Max({pDataCUSketch[c]} \cup {Cap(HeavyHitterList[k].size) : k \in {j \in Both \ Upper : Raises(j, c)}})]
     ELSE pDataCUSketch' \in Light
  /\ pc' = "count"
  /\ UNCHANGED <<HeavyHitterList, message, merged, cusHash, CountHeavy, counts, response, epoch, change, stashT>>

\* OItemCountDist_DESC (DistExact in CountDist): entry k is the k-th smallest
\* size with its number; what lies behind the last size is only counts.
SizesUpper   == {HeavyHitterList[k].size : k \in Upper}
Distribution ==
  [k \in Upper |->
     IF k < Cardinality(SizesUpper)
     THEN LET s == CHOOSE x \in SizesUpper : Cardinality({y \in SizesUpper : y < x}) = k
          IN [size |-> s, count |-> Cardinality({j \in Upper : HeavyHitterList[j].size = s})]
     ELSE Raw]

IsFlow(item) == item.flowID # 0 /\ item.flowID # DUMMY_FLOW

\* Cardinality, the sum of HHCountDistinct and of a logarithm of CountLight[0],
\* is left to Thresholds.
CountAll ==
  /\ pc = "count"
  /\ CountLight' = [v \in 0 .. CounterMax |-> Cardinality({c \in Counter : pDataCUSketch[c] = v})]
  /\ CountHeavy' = Distribution
  /\ HHCountDistinct' = Cardinality({k \in Upper : IsFlow(HeavyHitterList[k])})
  /\ pc' = "build"
  /\ UNCHANGED <<HeavyHitterList, message, merged, pDataCUSketch, cusHash, response, epoch, change, stashT>>

\* One answer is kept, the last.
Respond(kind, items) ==
  /\ pc \in {"idle", "ready"} /\ epoch > 0
  /\ response' = [kind |-> kind, items |-> items]
  /\ found' = NoAnswer
  /\ UNCHANGED <<pc, HeavyHitterList, message, merged, pDataCUSketch, cusHash, CountHeavy, counts, epoch,
                 change, stHash, builder, unplaced, stTable, stashed, lost>>

\* Mutant: the request is not limited.
OResponseHeavyHitterAll(topK) ==
  /\ topK <= 2 * NUM_HEAVY
  /\ Respond("hitters", [k \in 1 .. topK |-> HeavyHitterList[k - 1]])

OResponseHeavyHitter(topK) ==
  LET n == IF topK > NUM_HEAVY THEN NUM_HEAVY ELSE topK
  IN Respond("hitters", [k \in 1 .. n |-> HeavyHitterList[k - 1]])

\* Of a list that holds no items, every prefix may be the answer.
OResponseHeavyChange(threshold) ==
  \E n \in 0 .. NUM_HEAVY :
    /\ \A k \in Upper :
         HeavyChangeList[k] # Raw => IF k < n THEN HeavyChangeList[k].size >= threshold
                                     ELSE k = n => HeavyChangeList[k].size < threshold
    /\ Respond("changes", [k \in 1 .. n |-> HeavyChangeList[k - 1]])

Next ==
  \/ ReceiveFails \/ Receive \/ MergeHeavy
  \/ NextChange /\ UNCHANGED <<own, stashT>>
  \/ UpdateLight \/ CountAll
  \/ /\ NextStash
     /\ response' = NoResponse
     /\ UNCHANGED <<message, merged, pDataCUSketch, cusHash, CountHeavy, counts, epoch, change>>
  \/ \E k \in TopK : OResponseHeavyHitter(k)
  \/ \E t \in Thresholds : OResponseHeavyChange(t)

Spec == Init /\ [][Next]_vars
--------------------------------------------------------------------------------
\* What arrived, in the two places of a list.
Arrived(k) == IF k \in Upper THEN message[1].heavy[k] ELSE message[2].heavy[k - NUM_HEAVY]

\* The merge of two lists that descend descends, and neither loses an item nor
\* parts a size from its flow: which item is among the upper ones is decided by
\* a network that was made for two halves in the same order.
ListMerged ==
  pc = "change" =>
    /\ Descending(merged, 2 * NUM_HEAVY)
    /\ \A item \in {Arrived(k) : k \in Both} \cup {merged[k] : k \in Both} :
         Cardinality({k \in Both : merged[k] = item}) = Cardinality({k \in Both : Arrived(k) = item})

\* Nothing of the two sketches is forgotten where the light part has a power of two
\* of blocks: when the table is built, every flow that a switch has reported is an
\* upper heavy hitter with its size, or it went with its size into the update of the
\* light part and the counter it hashes to is at least that large; and no counter
\* is below what either switch had counted.  With another number of blocks, such as
\* the default 7680, only the first half holds: no flow is lost between the lists.
NothingForgotten ==
  pc \in {"count", "build", "place", "ready"} =>
    /\ \A k \in Both : LET item == Arrived(k) IN
         \/ item.flowID = 0
         \/ \E j \in Upper : merged[j] = item
         \/ /\ \E j \in Both \ Upper : merged[j] = item
            /\ ExactUpdate => pDataCUSketch[cusHash[item.flowID]] >= Cap(item.size)
    /\ ExactUpdate => \A c \in Counter, n \in {1, 2} : pDataCUSketch[c] >= message[n].light[c]

\* A response is taken from the current lists, and never has more than one list
\* has: the first sizes of the merge, though the flows have been numbered anew; and
\* of the changes, unless there are none, which numHeavyChange says, items in
\* descending order, of which only changes have a size, and nothing that is left
\* out is larger than what is answered.
ResponseSound ==
  LET r == response.items IN
    /\ Len(r) <= NUM_HEAVY
    /\ response.kind = "hitters" => \A k \in 1 .. Len(r) : r[k].size = merged[k - 1].size
    /\ response.kind = "changes" /\ numHeavyChange > 0 =>
         /\ \A k, l \in 1 .. Len(r) : r[k] \in Item /\ (k <= l => r[k].size >= r[l].size)
         /\ \A k \in 1 .. Len(r), j \in Len(r) .. 2 * NUM_HEAVY - 1 : r[k].size >= HeavyChangeList[j].size
         /\ \A k \in 1 .. Len(r) : r[k].size > 0 => \E j \in 0 .. numHeavyChange - 1 : HeavyChangeList[j] = r[k]
================================================================================
