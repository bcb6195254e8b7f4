------------------------------ MODULE LightUpdate ------------------------------
(***************************************************************************)
(* The update of the light part of the sketch by the lower half of the      *)
(* heavy part, in the five versions of the code: OUpdateCUSketch works on   *)
(* single counters, OUpdateCUSketch_B and OUpdateCUSketch_BEx on blocks of   *)
(* nRecord counters, UpdateCUSketch_NO is the plain loop, and                *)
(* UpdateCUSketch_Scan goes through all counters for every item.            *)
(*                                                                         *)
(* The oblivious versions put a block for every block of the light part and *)
(* one for every heavy item into the array dump, sort it by block number,   *)
(* and fold each run of equal numbers into its last block.  A sort or merge *)
(* is one step here (its network is applied compare by compare); a scan has *)
(* one step per block.  The hash of a flow is any counter.                  *)
(***************************************************************************)
EXTENDS SortNet, FiniteSetsExt

CONSTANTS
  Calls,        \* the calls: version, numEBlock, nRecord, numHeavy
  LightValues,  \* the counters of a light part
  Sizes,        \* the sizes of heavy items
  MaxCount,     \* 255, the largest value of a counter
  DUMMY_FLOW    \* the block number of a dummy block

Oblivious == {"OUpdateCUSketch", "OUpdateCUSketch_B", "OUpdateCUSketch_BEx"}
Versions == Oblivious \cup {"UpdateCUSketch_NO", "UpdateCUSketch_Scan"}
Numbers  == Nat \ {0}

ASSUME CallAssumption ==
  /\ Calls \subseteq [version : Versions, numEBlock : Numbers, nRecord : Numbers, numHeavy : Numbers]
  /\ \A c \in Calls : c.version = "OUpdateCUSketch" => c.nRecord = 1
ASSUME ValueAssumption ==
  /\ MaxCount \in Nat /\ LightValues \subseteq 0 .. MaxCount /\ Sizes \subseteq Nat
  /\ DUMMY_FLOW \in Nat /\ \A c \in Calls : c.numEBlock < DUMMY_FLOW

VARIABLES
  call, light, pHeavy,   \* the call and its arguments
  pLight,                \* the light part
  dump,                  \* the working array of blocks
  tmpB, cond, i,         \* the state of a scan: what was seen of a run, its start, the position
  pc

args == <<call, light, pHeavy>>
scan == <<tmpB, cond, i>>
vars == <<args, pLight, dump, scan, pc>>

numEBlock == call.numEBlock
nRecord   == call.nRecord
numHeavy  == call.numHeavy
isBEx     == call.version = "OUpdateCUSketch_BEx"
num2Block == Max({numEBlock, numHeavy})
length    == IF isBEx THEN numEBlock + num2Block ELSE PowerAbove(numEBlock + numHeavy)
Counters  == 0 .. numEBlock * nRecord - 1
Records   == 0 .. nRecord - 1

\* An empty array.
NoDump == [k \in {} |-> 0]
NoBlock == [id |-> DUMMY_FLOW, data |-> [r \in Records |-> 0]]

Init ==
  /\ call \in Calls
  /\ light \in [Counters -> LightValues]
  /\ pHeavy \in [0 .. numHeavy - 1 -> [cid : Counters, size : Sizes]]
  /\ pLight = light
  /\ dump = NoDump /\ tmpB = NoBlock /\ cond = TRUE /\ i = 0
  /\ pc = "fill"

Cap(size) == IF size > MaxCount THEN MaxCount ELSE size

LightBlock(k) == [id |-> k, data |-> [r \in Records |-> light[k * nRecord + r]]]

HeavyBlock(h) ==
  [id   |-> h.cid \div nRecord,
   data |-> [r \in Records |-> IF r = h.cid % nRecord THEN Cap(h.size) ELSE 0]]

\* The data of the dummy blocks, and tmpB, are uninitialised memory.
Fill ==
  /\ pc = "fill" /\ call.version \in Oblivious
  /\ \E junk \in {0, MaxCount} :
       LET JunkBlock == [NoBlock EXCEPT !.data = [r \in Records |-> junk]]
       IN /\ dump' = [k \in 0 .. length - 1 |->
                        CASE k < numEBlock -> LightBlock(k)
                          [] numEBlock <= k /\ k < numEBlock + numHeavy -> HeavyBlock(pHeavy[k - numEBlock])
                          [] OTHER -> JunkBlock]
          /\ tmpB' = JunkBlock
  /\ pc' = IF isBEx THEN "sort heavy" ELSE "merge"
  /\ UNCHANGED <<args, pLight, cond, i>>

Run(net) == dump' = Applied(net, dump, "id", TRUE)

SortNetwork(lo, n) ==
  IF isBEx /\ testPo2(n) THEN oddEvenMergeSort[<<lo, n>>] ELSE bitonicSort[<<lo, n, TRUE>>]

\* Mutant: the second scan starts in the state the first one ended in.
StartScanStale == i' = 0 /\ UNCHANGED <<tmpB, cond>>

StartScan == i' = 0 /\ cond' = TRUE /\ UNCHANGED tmpB

\* BEx alone: the heavy blocks, before and after they have been scanned.
SortHeavy ==
  /\ pc \in {"sort heavy", "sort heavy again"}
  /\ Run(SortNetwork(numEBlock, num2Block))
  /\ IF pc = "sort heavy" THEN pc' = "scan heavy" /\ StartScan
                          ELSE pc' = "merge" /\ UNCHANGED scan
  /\ UNCHANGED <<args, pLight>>

\* BEx merges the light blocks and as many of the heavy ones; the others sort.
Merge ==
  /\ pc = "merge"
  /\ Run(IF ~isBEx THEN SortNetwork(0, length)
         ELSE IF testPo2(numEBlock) THEN oddEvenMerge[<<0, 2 * numEBlock, 1>>]
         ELSE bitonicMerge[<<0, 2 * numEBlock, TRUE>>])
  /\ pc' = "scan" /\ StartScan
  /\ UNCHANGED <<args, pLight>>

\* OMaxSetMemCL takes the maximum of every byte of the block, so that of the
\* bytes of the block number too (numbers here are of one byte, or dummy);
\* OUpdateCUSketch that of the size.
Absorb(block) ==
  LET larger == [id   |-> IF call.version = "OUpdateCUSketch" THEN block.id ELSE Max({block.id, tmpB.id}),
                 data |-> [r \in Records |-> Max({block.data[r], tmpB.data[r]})]]
  IN IF cond THEN block ELSE larger

\* The blocks that are scanned, from First on.
First == IF pc = "scan heavy" THEN numEBlock ELSE 0
Count ==
  IF pc = "scan heavy" THEN numHeavy ELSE IF isBEx THEN 2 * numEBlock ELSE numEBlock + numHeavy

AfterScan == IF pc = "scan heavy" THEN "sort heavy again" ELSE "sort"

\* Mutant: a block keeps its number when the next one belongs to the same run.
ScanKeepingIds ==
  /\ pc \in {"scan heavy", "scan"} /\ i < Count - 1
  /\ LET block == Absorb(dump[First + i])
     IN /\ tmpB' = block
        /\ cond' = (dump[First + i + 1].id > block.id)
        /\ dump' = [dump EXCEPT ![First + i] = block]
  /\ i' = i + 1
  /\ UNCHANGED <<args, pLight, pc>>

Scan ==
  /\ pc \in {"scan heavy", "scan"} /\ i < Count - 1
  /\ LET block == Absorb(dump[First + i])
         ends  == dump[First + i + 1].id > block.id
     IN /\ tmpB' = block /\ cond' = ends
        /\ dump' = [dump EXCEPT ![First + i] = IF ends THEN block ELSE [block EXCEPT !.id = DUMMY_FLOW]]
  /\ i' = i + 1
  /\ UNCHANGED <<args, pLight, pc>>

ScanLast ==
  /\ pc \in {"scan heavy", "scan"} /\ i = Count - 1
  /\ LET block == Absorb(dump[First + i])
     IN tmpB' = block /\ dump' = [dump EXCEPT ![First + i] = block]
  /\ pc' = AfterScan
  /\ UNCHANGED <<args, pLight, cond, i>>

SortAll ==
  /\ pc = "sort"
  /\ Run(IF isBEx THEN IF testPo2(numEBlock) THEN oddEvenMergeSort[<<0, 2 * numEBlock>>]
                                             ELSE bitonicSort[<<0, 2 * numEBlock, TRUE>>]
         ELSE SortNetwork(0, length))
  /\ pc' = "write"
  /\ UNCHANGED <<args, pLight, scan>>

WriteBack ==
  /\ pc = "write"
  /\ pLight' = [c \in Counters |-> dump[c \div nRecord].data[c % nRecord]]
  /\ pc' = "done"
  /\ UNCHANGED <<args, dump, scan>>

\* UpdateCUSketch_NO, one heavy item.
UpdateItem ==
  /\ pc = "fill" /\ call.version = "UpdateCUSketch_NO" /\ i < numHeavy
  /\ LET idx == pHeavy[i].cid
     IN pLight' = [pLight EXCEPT ![idx] = Max({Cap(pHeavy[i].size), pLight[idx]})]
  /\ i' = i + 1
  /\ pc' = IF i' = numHeavy THEN "done" ELSE pc
  /\ UNCHANGED <<args, dump, tmpB, cond>>

\* UpdateCUSketch_Scan, one heavy item: at every counter the maximum is taken, and
\* it is written to the counter of the item when the scan is there.
UpdateByScan ==
  /\ pc = "fill" /\ call.version = "UpdateCUSketch_Scan" /\ i < numHeavy
  /\ LET idx  == pHeavy[i].cid
         size == Cap(pHeavy[i].size)
         after[c \in 0 .. numEBlock * nRecord] ==
           IF c = 0 THEN pLight
           ELSE LET p == after[c - 1]
                IN [p EXCEPT ![idx] = IF c - 1 = idx THEN Max({size, p[c - 1]}) ELSE @]
     IN pLight' = after[numEBlock * nRecord]
  /\ i' = i + 1
  /\ pc' = IF i' = numHeavy THEN "done" ELSE pc
  /\ UNCHANGED <<args, dump, tmpB, cond>>

Next ==
  \/ Fill \/ SortHeavy \/ Merge \/ Scan \/ ScanLast \/ SortAll \/ WriteBack
  \/ UpdateItem \/ UpdateByScan

Spec == Init /\ [][Next]_vars
--------------------------------------------------------------------------------
\* What a counter should become: the maximum of its value and the sizes, up to
\* 255, of the heavy items whose flow hashes to it.
Wanted(c) ==
  Max({light[c]} \cup {Cap(pHeavy[k].size) : k \in {h \in DOMAIN pHeavy : pHeavy[h].cid = c}})

\* "Merge the lower part of the Heavy-hitters to the light part": at the end
\* every counter is that maximum, through two sorts, a merge and two scans,
\* whatever is in the uninitialised memory, and the versions agree.
LightUpdated == pc = "done" => \A c \in Counters : pLight[c] = Wanted(c)

\* BEx merges only the first 2*numEBlock blocks although it may have filled
\* more (16384 heavy items against 7680 light blocks): what lies behind them
\* has been folded into a block in front of them.
NothingBehindMerge ==
  pc = "merge" /\ isBEx => \A k \in 2 * numEBlock .. length - 1 : dump[k].id = DUMMY_FLOW

\* When the scan is over, each light block is there once, and holds what was
\* wanted of all its counters; the others of its run have become dummies.
OnePerBlock ==
  pc = "sort" =>
    \A b \in 0 .. numEBlock - 1 :
      /\ \E k \in 0 .. Count - 1 : dump[k].id = b
      /\ \A k \in 0 .. Count - 1 : dump[k].id = b =>
           /\ \A l \in 0 .. Count - 1 : dump[l].id = b => l = k
           /\ \A r \in Records : dump[k].data[r] = Wanted(b * nRecord + r)
================================================================================
