------------------------------ MODULE StashTable ------------------------------
(***************************************************************************)
(* The hash table of heavy flows that the second PORAM serves, and the       *)
(* lookup of a flow in it: OBuildSTable (FOSketch.h), BuildSTable_NO and      *)
(* OTestShuffle (Enclave.cpp), and OAccessFID of a sketch of type 'T'.        *)
(* A bucket has room for ST_BUCKET_SIZE items, further ones go to a stash;    *)
(* when that is full too, the build stops where it is.                        *)
(*                                                                         *)
(* A step puts one item into the table.  The table is memory from malloc:     *)
(* what is not written may hold anything.  Of the PORAM underneath, this      *)
(* module uses what SketchStore promises: a block is the copy, or it is lost  *)
(* for good and reads as zeroes.                                             *)
(***************************************************************************)
EXTENDS HeavyList, FiniteSets

CONSTANTS
  ST_BUCKET_NUM, ST_BUCKET_SIZE, ST_STASH_NUM,
  StHashes,     \* the hash functions that a random stHash may give
  Builders      \* the functions the caller uses to build the table

STBucket == 0 .. ST_BUCKET_NUM - 1
TablePos == 0 .. ST_BUCKET_NUM * ST_BUCKET_SIZE - 1
StashPos == 0 .. ST_STASH_NUM - 1

ASSUME StashAssumption ==
  /\ ST_BUCKET_NUM \in Nat \ {0} /\ ST_BUCKET_SIZE \in Nat \ {0} /\ ST_STASH_NUM \in Nat
  /\ StHashes \subseteq [Flow -> STBucket]
  /\ 1 .. NUM_HEAVY \subseteq Flow
  /\ Builders \subseteq {"OBuildSTable", "BuildSTable_NO"}

VARIABLES
  stHash,            \* the bucket of every flow
  builder,           \* the function that builds, or has built, the table
  unplaced,          \* the items of the shuffled list not yet in the table
  stCount,           \* idcList: the items in each bucket
  pDataStashTable, pStashHeavy,
  countStash,        \* what OAccessFID takes for the length of the stash
  countStash_no,     \* and the local count of BuildSTable_NO
  stashed,           \* the result of the build
  lost,              \* the blocks of the PORAM that are lost
  found              \* what the last OAccessFID returned

stTable   == <<stCount, pDataStashTable, pStashHeavy, countStash, countStash_no>>
stashVars == <<pc, HeavyHitterList, stHash, builder, unplaced, stTable, stashed, lost, found>>

NoAnswer == [flowID |-> 0, size |-> 0]

InitStash ==
  /\ builder = "none" /\ unplaced = {}
  /\ stCount = [b \in STBucket |-> 0]
  /\ pDataStashTable = [k \in TablePos |-> Raw]
  /\ pStashHeavy = [k \in StashPos |-> Raw]
  /\ countStash = 0 /\ countStash_no = 0
  /\ stashed = FALSE /\ lost = {} /\ found = NoAnswer

\* The memory is new, and of the counts OBuildSTable alone sets the global one.
NewTable(f) ==
  /\ builder' = f
  /\ unplaced' = Upper
  /\ stCount' = [b \in STBucket |-> 0]
  /\ pDataStashTable' = [k \in TablePos |-> Raw]
  /\ pStashHeavy' = [k \in StashPos |-> Raw]
  /\ countStash' = IF f = "OBuildSTable" THEN 0 ELSE countStash
  /\ countStash_no' = 0
  /\ stashed' = FALSE /\ lost' = {} /\ found' = NoAnswer
  /\ UNCHANGED stHash

\* Every flow of the upper list is given a new identifier.
Renumbered(first) ==
  HeavyHitterList' = [k \in Both |-> IF k \in Upper THEN [HeavyHitterList[k] EXCEPT !.flowID = k + first]
                                                    ELSE HeavyHitterList[k]]

StartBuild ==
  /\ pc = "build"
  /\ \/ "OBuildSTable" \in Builders /\ NewTable("OBuildSTable") /\ Renumbered(1)
     \/ "BuildSTable_NO" \in Builders /\ NewTable("BuildSTable_NO") /\ UNCHANGED HeavyHitterList
  /\ pc' = "place"

\* The next item of the list, and its bucket: OBuildSTable has shuffled the
\* list, BuildSTable_NO goes through it in order.
Turn(i) ==
  i \in unplaced /\ (builder = "BuildSTable_NO" => \A j \in unplaced : i <= j)
STBucketsOf(item) == IF item.flowID = 0 THEN STBucket ELSE {stHash[item.flowID]}
Goes(i, b)  == Turn(i) /\ b \in STBucketsOf(HeavyHitterList[i])

Stashed == IF builder = "OBuildSTable" THEN countStash ELSE countStash_no

PlaceItem ==
  /\ pc = "place"
  /\ \E i \in Upper, b \in STBucket :
       /\ Goes(i, b)
       /\ stCount[b] < ST_BUCKET_SIZE
       /\ pDataStashTable' = [pDataStashTable EXCEPT ![ST_BUCKET_SIZE * b + stCount[b]] = HeavyHitterList[i]]
       /\ stCount' = [stCount EXCEPT ![b] = @ + 1]
       /\ unplaced' = unplaced \ {i}
  /\ UNCHANGED <<pc, HeavyHitterList, stHash, builder, pStashHeavy, countStash, countStash_no,
                 stashed, lost, found>>

\* Mutant: the slot is not counted.
StashItemUncounted ==
  /\ pc = "place"
  /\ \E i \in Upper, b \in STBucket :
       /\ Goes(i, b)
       /\ stCount[b] >= ST_BUCKET_SIZE /\ Stashed < ST_STASH_NUM
       /\ pStashHeavy' = [pStashHeavy EXCEPT ![Stashed] = HeavyHitterList[i]]
       /\ unplaced' = unplaced \ {i}
  /\ UNCHANGED <<pc, HeavyHitterList, stHash, builder, stCount, pDataStashTable, countStash, countStash_no,
                 stashed, lost, found>>

StashItem ==
  /\ pc = "place"
  /\ \E i \in Upper, b \in STBucket :
       /\ Goes(i, b)
       /\ stCount[b] >= ST_BUCKET_SIZE /\ Stashed < ST_STASH_NUM
       /\ pStashHeavy' = [pStashHeavy EXCEPT ![Stashed] = HeavyHitterList[i]]
       /\ unplaced' = unplaced \ {i}
  /\ IF builder = "OBuildSTable"
     THEN countStash' = countStash + 1 /\ UNCHANGED countStash_no
     ELSE countStash_no' = countStash_no + 1 /\ UNCHANGED countStash
  /\ UNCHANGED <<pc, HeavyHitterList, stHash, builder, stCount, pDataStashTable, stashed, lost, found>>

\* The build stops; nobody looks at its result, and the table is used as it is.
StashFull ==
  /\ pc = "place"
  /\ \E i \in Upper, b \in STBucket :
       Goes(i, b) /\ stCount[b] >= ST_BUCKET_SIZE /\ Stashed >= ST_STASH_NUM
  /\ pc' = "ready"
  /\ UNCHANGED <<HeavyHitterList, stHash, builder, unplaced, stTable, stashed, lost, found>>

EndBuild ==
  /\ pc = "place" /\ unplaced = {}
  /\ stashed' = TRUE
  /\ pc' = "ready"
  /\ UNCHANGED <<HeavyHitterList, stHash, builder, unplaced, stTable, lost, found>>
--------------------------------------------------------------------------------
(* OAccessFID: the block of the flow's bucket, then the stash.               *)

\* The PORAM has found no room for a block.
LoseBlock ==
  /\ pc = "ready"
  /\ \E b \in STBucket \ lost : lost' = lost \cup {b}
  /\ found' = NoAnswer
  /\ UNCHANGED <<pc, HeavyHitterList, stHash, builder, unplaced, stTable, stashed>>

\* A flow may match what was in the memory of a slot that was never written.
Matches(cell, f) == IF cell = Raw THEN BOOLEAN ELSE {cell.flowID = f}

BlockSlots(f) == {ST_BUCKET_SIZE * stHash[f] + k : k \in 0 .. ST_BUCKET_SIZE - 1}

\* The size read from a cell: whatever is there in one never written.
Read(cell) == IF cell = Raw THEN 0 .. MaxSize ELSE {cell.size}

\* What scanning the cells K of an array may leave in size, starting from a
\* value in S: the last cell that matches decides.
Scanned(A, K, f, S) ==
  {s \in 0 .. MaxSize :
     \/ s \in S /\ \A k \in K : FALSE \in Matches(A[k], f)
     \/ \E k \in K : /\ TRUE \in Matches(A[k], f) /\ s \in Read(A[k])
                     /\ \A l \in K : l > k => FALSE \in Matches(A[l], f)}

\* Mutant: the stash is not looked at.
OAccessFIDTableOnly(f) ==
  /\ pc = "ready"
  /\ LET inBlock == IF stHash[f] \in lost THEN {0} ELSE Scanned(pDataStashTable, BlockSlots(f), f, {0})
     IN \E s \in inBlock : found' = [flowID |-> f, size |-> s]
  /\ UNCHANGED <<pc, HeavyHitterList, stHash, builder, unplaced, stTable, stashed, lost>>

OAccessFID(f) ==
  /\ pc = "ready"
  /\ LET inBlock == IF stHash[f] \in lost THEN {0} ELSE Scanned(pDataStashTable, BlockSlots(f), f, {0})
     IN \E s \in Scanned(pStashHeavy, 0 .. countStash - 1, f, inBlock) : found' = [flowID |-> f, size |-> s]
  /\ UNCHANGED <<pc, HeavyHitterList, stHash, builder, unplaced, stTable, stashed, lost>>

\* OTestShuffle, which shuffles as OBuildSTable does and builds no table; the
\* lookups of the epoch are over.
OTestShuffle ==
  /\ pc = "ready" /\ "BuildSTable_NO" \in Builders
  /\ Renumbered(0)
  /\ countStash' = 0 /\ found' = NoAnswer
  /\ pc' = "idle"
  /\ UNCHANGED <<stHash, builder, unplaced, stCount, pDataStashTable, pStashHeavy, countStash_no, stashed, lost>>

NextStash ==
  \/ StartBuild \/ PlaceItem \/ StashItem \/ StashFull \/ EndBuild
  \/ LoseBlock \/ (\E f \in Flow : OAccessFID(f)) \/ OTestShuffle

\* The table alone, for any list of heavy hitters.
StashSpec ==
  /\ pc = "build" /\ HeavyHitterList \in [Both -> Item] /\ stHash \in StHashes /\ InitStash
  /\ [][NextStash]_stashVars
--------------------------------------------------------------------------------
Built == builder = "OBuildSTable" /\ pc \in {"place", "ready"}

\* The counts stay within buckets and stash, so that no item is written outside
\* the table of its bucket.
StashTypeOK ==
  /\ stHash \in [Flow -> STBucket] /\ unplaced \subseteq Upper
  /\ stCount \in [STBucket -> 0 .. ST_BUCKET_SIZE]
  /\ countStash \in 0 .. ST_STASH_NUM /\ countStash_no \in 0 .. ST_STASH_NUM
  /\ pDataStashTable \in [TablePos -> Item \cup {Raw}] /\ pStashHeavy \in [StashPos -> Item \cup {Raw}]
  /\ lost \subseteq STBucket

\* Item i is in the bucket of its flow, or in the stash.
InBucket(i, b) == \E k \in 0 .. stCount[b] - 1 : pDataStashTable[ST_BUCKET_SIZE * b + k] = HeavyHitterList[i]
InStash(i)     == \E k \in 0 .. countStash - 1 : pStashHeavy[k] = HeavyHitterList[i]

\* Every flow that OBuildSTable has placed can be found: it is in the bucket that
\* a lookup will read, or in the part of the stash that a lookup scans, also
\* when the build has stopped in the middle.
PlacedIsThere ==
  Built => \A i \in Upper \ unplaced : InBucket(i, stHash[HeavyHitterList[i].flowID]) \/ InStash(i)

\* A lookup returns the size of its flow when the flow is in the stash, whatever
\* the scan of the block has left in size and even if the block is lost.  A flow that
\* is not in the stash reads as 0 when its block is lost; when its block is full, it
\* reads as its size in the block, or as 0 if it is not there either.  Nothing is
\* said of a block with a slot that was never written, where anything may match.
LookupExact ==
  Built /\ found # NoAnswer =>
    LET f         == found.flowID
        b         == stHash[f]
        its       == {i \in Upper \ unplaced : HeavyHitterList[i].flowID = f}
        SizeOf(I) == {HeavyHitterList[i].size : i \in I}
        inStash   == {i \in its : InStash(i)}
    IN /\ inStash # {} => found.size \in SizeOf(inStash)
       /\ inStash = {} /\ b \in lost => found.size = 0
       /\ inStash = {} /\ b \notin lost /\ stCount[b] = ST_BUCKET_SIZE =>
            found.size \in IF its = {} THEN {0} ELSE SizeOf(its)
================================================================================
