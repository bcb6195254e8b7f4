------------------------------ MODULE HeavyChange ------------------------------
(***************************************************************************)
(* OHeavyChange (FOSketch.h): which flows have changed between two lists of  *)
(* heavy hitters.  Both lists are shuffled and put into a hash table of       *)
(* small buckets, the lower list first; a bucket that overflows goes on in   *)
(* one of maxnumBucket larger ones, whose number is written over its first    *)
(* byte.  ODelta then subtracts, bucket by bucket, and everything is          *)
(* collected in HeavyChangeList and sorted.                                   *)
(*                                                                         *)
(* A step puts one item into the table.  HeavyChangeList holds the shuffled  *)
(* pairs of index and item meanwhile (it is the same memory), and goes on     *)
(* holding them when the function gives up.                                  *)
(***************************************************************************)
EXTENDS HeavyList, FiniteSets, SortNet

CONSTANTS
  numBucket,        \* BT_BUCKET_NUM
  BT_BUCKET_SIZE,   \* items in a bucket
  maxnumBucket,     \* BT_BUCKET_MAX_NUM, the larger buckets
  maxsizeBucket,    \* BT_BUCKET_MAX_SIZE, the items in one of them
  STRIDE,           \* the literal 32, where the copy of a bucket goes
  BtHashes          \* the hash functions that a random btHash may give

Bucket == 0 .. numBucket - 1
Slot   == 0 .. BT_BUCKET_SIZE - 1
TmpPos == 0 .. maxsizeBucket * maxnumBucket - 1

ASSUME TableAssumption ==
  /\ numBucket \in Nat \ {0} /\ BT_BUCKET_SIZE \in Nat \ {0}
  /\ maxnumBucket \in 0 .. 256 /\ maxsizeBucket \in Nat /\ STRIDE \in Nat
  /\ BT_BUCKET_SIZE < maxsizeBucket
  /\ BtHashes \subseteq [Flow -> Bucket]

VARIABLES
  btHash,           \* the bucket of every flow
  todo,             \* the items of the shuffled list not yet in the table
  BucketTable,
  idcList,          \* items in each bucket: ind1 of the lower list, ind2 of both
  loca,             \* the first byte of each bucket
  tmpBucketTable, tmpCount,
  HeavyChangeList, numHeavyChange

table      == <<BucketTable, idcList, loca, tmpBucketTable, tmpCount>>
changeVars == <<pc, HeavyHitterList, btHash, todo, table, HeavyChangeList, numHeavyChange>>

EmptyTable(buckets, idc, bytes, tmpBuckets, count) ==
  /\ buckets = [b \in Bucket |-> [s \in Slot |-> Raw]]
  /\ idc = [b \in Bucket |-> [ind1 |-> 0, ind2 |-> 0]]
  /\ bytes = [b \in Bucket |-> 0]
  /\ tmpBuckets = [k \in TmpPos |-> Raw]
  /\ count = 0

\* A value for btHash when nobody reads it.
Forgotten == CHOOSE h \in BtHashes : TRUE

NoChanges == [k \in Both |-> Raw]

InitChange ==
  /\ EmptyTable(BucketTable, idcList, loca, tmpBucketTable, tmpCount)
  /\ btHash = Forgotten
  /\ todo = {}
  /\ HeavyChangeList = NoChanges /\ numHeavyChange = 0

\* The bucket of a flow, or a random one for an empty item.
BucketsOf(item) == IF item.flowID = 0 THEN Bucket ELSE {btHash[item.flowID]}

\* Item i of the list, in bucket b.
NextPrevious(i, b) == i \in todo /\ b \in BucketsOf(HeavyHitterList[NUM_HEAVY + i])
NextCurrent(i, b) == i \in todo /\ b \in BucketsOf(HeavyHitterList[i])

ShufflePrevious ==
  /\ pc = "change"
  /\ HeavyChangeList' = NoChanges /\ numHeavyChange' = 0
  /\ todo' = Upper
  /\ pc' = "previous"
  /\ UNCHANGED <<HeavyHitterList, btHash, table>>

InsertPrevious ==
  /\ pc = "previous"
  /\ \E i \in Upper, b \in Bucket :
       /\ NextPrevious(i, b)
       /\ idcList[b].ind1 < BT_BUCKET_SIZE
       /\ BucketTable' = [BucketTable EXCEPT ![b][idcList[b].ind1] = HeavyHitterList[NUM_HEAVY + i]]
       /\ idcList' = [idcList EXCEPT ![b].ind1 = @ + 1]
       /\ todo' = todo \ {i}
  /\ UNCHANGED <<pc, HeavyHitterList, btHash, loca, tmpBucketTable, tmpCount, HeavyChangeList, numHeavyChange>>

\* The pointers to the table and the counts end with the call, whether their memory
\* has been freed or not; btHash, which nobody reads before the next epoch has drawn
\* it anew, is forgotten.
ForgetTable ==
  /\ EmptyTable(BucketTable', idcList', loca', tmpBucketTable', tmpCount')
  /\ todo' = {}
  /\ btHash' = Forgotten

\* The function returns 0, and frees neither idcList nor the table: the next call
\* has memory of its own, and what becomes of these blocks is in Driver (LeftBy).
GiveUp ==
  /\ ForgetTable
  /\ numHeavyChange' = 0 /\ pc' = "light"
  /\ UNCHANGED <<HeavyHitterList, HeavyChangeList>>

PreviousFull ==
  /\ pc = "previous"
  /\ \E i \in Upper, b \in Bucket : NextPrevious(i, b) /\ idcList[b].ind1 >= BT_BUCKET_SIZE
  /\ GiveUp

ShuffleCurrent ==
  /\ pc = "previous" /\ todo = {}
  /\ idcList' = [b \in Bucket |-> [ind1 |-> idcList[b].ind1, ind2 |-> idcList[b].ind1]]
  /\ todo' = Upper
  /\ pc' = "current"
  /\ UNCHANGED <<HeavyHitterList, btHash, BucketTable, loca, tmpBucketTable, tmpCount,
                 HeavyChangeList, numHeavyChange>>

\* The item has been put into bucket b.
Counted(i, b) ==
  /\ idcList' = [idcList EXCEPT ![b].ind2 = @ + 1]
  /\ todo' = todo \ {i}
  /\ UNCHANGED <<pc, HeavyHitterList, btHash, HeavyChangeList, numHeavyChange>>

InsertCurrent ==
  /\ pc = "current"
  /\ \E i \in Upper, b \in Bucket :
       /\ NextCurrent(i, b)
       /\ idcList[b].ind2 < BT_BUCKET_SIZE
       /\ BucketTable' = [BucketTable EXCEPT ![b][idcList[b].ind2] = HeavyHitterList[i]]
       /\ Counted(i, b)
  /\ UNCHANGED <<loca, tmpBucketTable, tmpCount>>

\* The items of bucket b, copied to the position `to`.
Copied(b, to, k) == IF k \in to .. to + BT_BUCKET_SIZE - 1 THEN BucketTable[b][k - to] ELSE tmpBucketTable[k]

\* Mutant: the number is not counted up, so that the next bucket gets it again.
SpillBucketShared ==
  /\ pc = "current"
  /\ \E i \in Upper, b \in Bucket :
       /\ NextCurrent(i, b)
       /\ idcList[b].ind2 = BT_BUCKET_SIZE /\ tmpCount < maxnumBucket
       /\ tmpBucketTable' = [[k \in TmpPos |-> Copied(b, tmpCount * STRIDE, k)]
                               EXCEPT ![tmpCount * maxsizeBucket + idcList[b].ind2] = HeavyHitterList[i]]
       /\ loca' = [loca EXCEPT ![b] = tmpCount % 256]
       /\ Counted(i, b)
  /\ UNCHANGED <<BucketTable, tmpCount>>

\* loca is a byte of the bucket, which has been copied before.
SpillBucket ==
  /\ pc = "current"
  /\ \E i \in Upper, b \in Bucket :
       /\ NextCurrent(i, b)
       /\ idcList[b].ind2 = BT_BUCKET_SIZE /\ tmpCount < maxnumBucket
       /\ tmpBucketTable' = [[k \in TmpPos |-> Copied(b, tmpCount * STRIDE, k)]
                               EXCEPT ![tmpCount * maxsizeBucket + idcList[b].ind2] = HeavyHitterList[i]]
       /\ loca' = [loca EXCEPT ![b] = tmpCount % 256]
       /\ tmpCount' = tmpCount + 1
       /\ Counted(i, b)
  /\ UNCHANGED BucketTable

NoTmpBucket ==
  /\ pc = "current" /\ tmpCount >= maxnumBucket
  /\ \E i \in Upper, b \in Bucket : NextCurrent(i, b) /\ idcList[b].ind2 = BT_BUCKET_SIZE
  /\ GiveUp

InsertTmp ==
  /\ pc = "current"
  /\ \E i \in Upper, b \in Bucket :
       /\ NextCurrent(i, b)
       /\ BT_BUCKET_SIZE < idcList[b].ind2 /\ idcList[b].ind2 < maxsizeBucket
       /\ tmpBucketTable' = [tmpBucketTable EXCEPT
                               ![loca[b] * maxsizeBucket + idcList[b].ind2] = HeavyHitterList[i]]
       /\ Counted(i, b)
  /\ UNCHANGED <<BucketTable, loca, tmpCount>>

TmpBucketFull ==
  /\ pc = "current"
  /\ \E i \in Upper, b \in Bucket : NextCurrent(i, b) /\ idcList[b].ind2 >= maxsizeBucket
  /\ GiveUp
--------------------------------------------------------------------------------
\* Entry k of bucket b, wherever the bucket is.
Spilled(b)  == idcList[b].ind2 > BT_BUCKET_SIZE
Entry(b, k) == IF Spilled(b) THEN tmpBucketTable[loca[b] * maxsizeBucket + k] ELSE BucketTable[b][k]

Previous(b) == [k \in 1 .. idcList[b].ind1 |-> Entry(b, k - 1)]
Current(b)  == [k \in 1 .. idcList[b].ind2 - idcList[b].ind1 |-> Entry(b, idcList[b].ind1 + k - 1)]

dummy == [flowID |-> DUMMY_FLOW, size |-> 0]

\* Mutant: an item that has not changed stays.
SubtractKeeping(x, y) ==
  IF x.flowID # y.flowID THEN x
  ELSE [x EXCEPT !.size = IF x.size > y.size THEN x.size - y.size ELSE x.size]

\* An item of the first list after it has met one of the second.
Subtract(x, y) ==
  IF x.flowID # y.flowID THEN x
  ELSE IF x.size = y.size THEN dummy
  ELSE [x EXCEPT !.size = IF x.size > y.size THEN x.size - y.size ELSE y.size - x.size]

\* ODelta works on both lists in place: each item of the second meets the first
\* list as the items before it have left it.
ODelta(L1, L2) ==
  LET after[n \in 0 .. Len(L2)] ==
        IF n = 0 THEN L1 ELSE [j \in DOMAIN L1 |-> Subtract(after[n - 1][j], L2[n])]
      Match(n) == \E j \in DOMAIN L1 : after[n - 1][j].flowID = L2[n].flowID
  IN after[Len(L2)] \o [n \in DOMAIN L2 |-> IF Match(n) THEN dummy ELSE L2[n]]

\* What the loop over the buckets has collected at its end.
Collected ==
  LET upTo[b \in 0 .. numBucket] ==
        IF b = 0 THEN <<>> ELSE upTo[b - 1] \o ODelta(Previous(b - 1), Current(b - 1))
  IN upTo[numBucket]

\* A sort of n items, the larger first.
SortedDESC(L, n) ==
  Applied(IF testPo2(n) THEN oddEvenMergeSort[<<0, n>>] ELSE bitonicSort[<<0, n, TRUE>>], L, "size", FALSE)

\* The check of acount against 2*numHeavy never fails (ChangesExact).  Here both
\* blocks are freed.
Collect ==
  /\ pc = "current" /\ todo = {} /\ Len(Collected) = 2 * NUM_HEAVY
  /\ HeavyChangeList' = SortedDESC([k \in Both |-> Collected[k + 1]], 2 * NUM_HEAVY)
  /\ numHeavyChange' = Cardinality({k \in Both : HeavyChangeList'[k].size > 0})
  /\ ForgetTable
  /\ pc' = "light"
  /\ UNCHANGED HeavyHitterList

NextChange ==
  \/ ShufflePrevious \/ InsertPrevious \/ PreviousFull
  \/ ShuffleCurrent \/ InsertCurrent \/ SpillBucket \/ NoTmpBucket \/ InsertTmp \/ TmpBucketFull
  \/ Collect

\* The function alone, on any two lists.
ChangeInit ==
  /\ pc = "change" /\ HeavyHitterList \in [Both -> Item] /\ btHash \in BtHashes /\ todo = {}
  /\ EmptyTable(BucketTable, idcList, loca, tmpBucketTable, tmpCount)
  /\ HeavyChangeList = NoChanges /\ numHeavyChange = 0

ChangeSpec == ChangeInit /\ [][NextChange]_changeVars
--------------------------------------------------------------------------------
\* What is in the table, while it is built.
InTable(b) == IF pc = "previous" THEN idcList[b].ind1 ELSE idcList[b].ind2
Building   == pc \in {"previous", "current"}

TableTypeOK ==
  /\ btHash \in [Flow -> Bucket] /\ todo \subseteq Upper
  /\ BucketTable \in [Bucket -> [Slot -> Item \cup {Raw}]]
  /\ tmpBucketTable \in [TmpPos -> Item \cup {Raw}]
  /\ idcList \in [Bucket -> [ind1 : 0 .. BT_BUCKET_SIZE, ind2 : 0 .. maxsizeBucket]]
  /\ loca \in [Bucket -> 0 .. 255] /\ tmpCount \in 0 .. maxnumBucket

\* Two items of one flow meet in one bucket, whichever bucket that is kept in:
\* every entry that ODelta will compare is an item, of a flow that hashes to
\* its bucket.  When two buckets have overflowed, a wrong offset into
\* tmpBucketTable, or a number that both share, puts an item of one of them
\* among those of the other, or a cell that was never written.
SameBucket ==
  Building => \A b \in Bucket : \A k \in 0 .. InTable(b) - 1 :
    Entry(b, k) \in Item /\ b \in BucketsOf(Entry(b, k))

--------------------------------------------------------------------------------
\* What the plain version computes: the changes as a map from flows to sizes,
\* where a flow that is twice in a list has its last size.
get_stat_map(from) ==
  [f \in {HeavyHitterList[from + k].flowID : k \in Upper} |->
     LET last == CHOOSE k \in Upper :
                   /\ HeavyHitterList[from + k].flowID = f
                   /\ \A l \in Upper : HeavyHitterList[from + l].flowID = f => l <= k
     IN HeavyHitterList[from + last].size]

TestHeavyChange_NO_MAP ==
  LET prev == get_stat_map(NUM_HEAVY)
      cur  == get_stat_map(0)
      At(map, f) == IF f \in DOMAIN map THEN map[f] ELSE 0
      Differ(f)  == IF At(prev, f) > At(cur, f) THEN At(prev, f) - At(cur, f) ELSE At(cur, f) - At(prev, f)
  IN {[flowID |-> f, size |-> Differ(f)] : f \in {g \in DOMAIN prev \cup DOMAIN cur : Differ(g) > 0}}

\* Empty items aside, a flow is at most once in each list.
FlowsDiffer ==
  \A from \in {0, NUM_HEAVY} : \A k, l \in Upper :
    HeavyHitterList[from + k].flowID = HeavyHitterList[from + l].flowID
      => k = l \/ HeavyHitterList[from + k].flowID = 0

\* The function works for every bucket that does not overflow too far: it either
\* gives up, and returns 0 with a list of no items, or returns the changes of
\* the plain version, the largest first, with their number, and nothing else of
\* a size.  What it collects from the buckets has the length of both lists.
ChangesExact ==
  /\ pc = "current" /\ todo = {} => Len(Collected) = 2 * NUM_HEAVY
  /\ pc = "light" =>
      \/ numHeavyChange = 0 /\ \A k \in Both : HeavyChangeList[k] = Raw
      \/ /\ Descending(HeavyChangeList, 2 * NUM_HEAVY)
         /\ FlowsDiffer =>
              /\ {HeavyChangeList[k] : k \in 0 .. numHeavyChange - 1} = TestHeavyChange_NO_MAP
              /\ numHeavyChange = Cardinality(TestHeavyChange_NO_MAP)
              /\ \A k \in numHeavyChange .. 2 * NUM_HEAVY - 1 : HeavyChangeList[k].size = 0
================================================================================
