------------------------------ MODULE EpochProofs ------------------------------
(***************************************************************************)
(* OHeavyChange, OBuildSTable and the epoch as a whole, for every number of  *)
(* items, buckets and counters, every message and every hash function.       *)
(*                                                                         *)
(* First the two hash tables: in that of OHeavyChange the items of a bucket  *)
(* hash to it, and what is collected from it is what the plain version       *)
(* computes with maps; in that of heavy flows every flow that was placed is  *)
(* where a lookup looks, and a lookup returns the size of its flow.          *)
(* Then the same when epochs follow one another and requests come between    *)
(* them; the merge of the two lists, which loses nothing and descends; the   *)
(* light part, which forgets no flow; and the responses.                     *)
(***************************************************************************)
EXTENDS Epoch, NetProofs
--------------------------------------------------------------------------------
(* The table of OHeavyChange: it keeps its shape, and what ODelta compares in *)
(* a bucket are items that hash to it.                                        *)

\* Bucket b goes on in the larger bucket that loca names.
Home(b) == loca[b] < tmpCount

\* Two buckets never go on in the same one.
Apart == \A b, c \in Bucket : Spilled(b) /\ Spilled(c) /\ loca[b] = loca[c] => b = c

\* The inductive invariant: the table is empty before the first insertion, and
\* the buckets that have overflowed have one larger bucket each.
TableInv ==
  /\ HeavyHitterList \in [Both -> Item]
  /\ TableTypeOK
  /\ pc \in {"change", "previous", "current", "light"}
  /\ pc \in {"change", "previous"} => \A b \in Bucket : idcList[b].ind2 = 0
  /\ pc = "change" => \A b \in Bucket : idcList[b].ind1 = 0
  /\ pc = "current" => \A b \in Bucket : idcList[b].ind1 <= idcList[b].ind2
  /\ \A b \in Bucket : Spilled(b) => Home(b)
  /\ Apart
  /\ SameBucket

\* Entries of different larger buckets are different cells.
LEMMA TmpDiffer ==
  ASSUME NEW x \in Nat, NEW y \in Nat, NEW k \in 0 .. maxsizeBucket - 1, NEW l \in 0 .. maxsizeBucket - 1,
         x # y \/ k # l
  PROVE  x * maxsizeBucket + k # y * maxsizeBucket + l
<1> DEFINE M == maxsizeBucket
<1>1. M \in Nat \ {0} /\ k \in 0 .. M - 1 /\ l \in 0 .. M - 1
  BY TableAssumption
<1>2. SUFFICES x * M + k # y * M + l
  OBVIOUS
<1> HIDE DEF M
<1>3. ASSUME NEW u \in Nat, NEW v \in Nat, u < v PROVE u * M + M <= v * M
  <2>1. PICK d \in Nat : v = u + 1 + d
    BY <1>3
  <2>2. v * M = u * M + M + d * M /\ d * M \in Nat
    BY <2>1, <1>1
  <2> QED
    BY <2>2, <1>1
<1>4. x * M \in Nat /\ y * M \in Nat
  BY <1>1
<1> QED
  BY <1>1, <1>3, <1>4

\* An entry of a larger bucket is a cell of tmpBucketTable.
LEMMA TmpInTable ==
  ASSUME NEW x \in 0 .. maxnumBucket - 1, NEW k \in 0 .. maxsizeBucket - 1
  PROVE  x * maxsizeBucket + k \in TmpPos
<1> DEFINE M == maxsizeBucket
           N == maxnumBucket
<1>1. M \in Nat /\ N \in Nat /\ x \in 0 .. N - 1 /\ k \in 0 .. M - 1
  BY TableAssumption
<1> HIDE DEF M, N
<1>2. PICK d \in Nat : N = x + 1 + d
  BY <1>1
<1>3. M * N = x * M + M + M * d /\ M * d \in Nat /\ x * M \in Nat
  BY <1>1, <1>2
<1>4. x * M + k \in 0 .. M * N - 1
  BY <1>1, <1>3
<1> QED
  BY <1>4 DEF TmpPos, M, N

LEMMA ListItems ==
  ASSUME TableInv, NEW i \in Upper
  PROVE  HeavyHitterList[i] \in Item /\ HeavyHitterList[NUM_HEAVY + i] \in Item
BY HeavyAssumption DEF TableInv, Both, Upper

\* An empty table, as a call begins and ends.
LEMMA EmptyInv ==
  ASSUME HeavyHitterList \in [Both -> Item], todo \subseteq Upper, btHash \in BtHashes,
         EmptyTable(BucketTable, idcList, loca, tmpBucketTable, tmpCount), pc \in {"change", "light"}
  PROVE  TableInv
<1> USE TableAssumption
<1>1. /\ BucketTable = [b \in Bucket |-> [s \in Slot |-> Raw]]
      /\ idcList = [b \in Bucket |-> [ind1 |-> 0, ind2 |-> 0]]
      /\ loca = [b \in Bucket |-> 0] /\ tmpBucketTable = [k \in TmpPos |-> Raw] /\ tmpCount = 0
  BY DEF EmptyTable
<1>2. TableTypeOK
  BY <1>1 DEF TableTypeOK
<1>3. \A b \in Bucket : ~Spilled(b)
  BY <1>1 DEF Spilled
<1> QED
  BY <1>1, <1>2, <1>3 DEF TableInv, Apart, SameBucket, Building

LEMMA EndInv ==
  ASSUME TableInv, ForgetTable, HeavyHitterList' = HeavyHitterList, pc' = "light", BtHashes # {}
  PROVE  TableInv'
<1> USE TableAssumption
<1>1. /\ BucketTable' = [b \in Bucket |-> [s \in Slot |-> Raw]]
      /\ idcList' = [b \in Bucket |-> [ind1 |-> 0, ind2 |-> 0]]
      /\ loca' = [b \in Bucket |-> 0] /\ tmpBucketTable' = [k \in TmpPos |-> Raw] /\ tmpCount' = 0
  BY DEF ForgetTable, EmptyTable
<1>2. todo' = {} /\ btHash' \in BtHashes
  BY DEF ForgetTable, Forgotten
<1>3. TableTypeOK'
  BY <1>1, <1>2 DEF TableTypeOK
<1>4. \A b \in Bucket : ~Spilled(b)'
  BY <1>1 DEF Spilled
<1> QED
  BY <1>1, <1>3, <1>4 DEF TableInv, Apart, SameBucket, Building

LEMMA ShufflePreviousStep == ASSUME TableInv, ShufflePrevious PROVE TableInv'
<1>1. /\ pc = "change" /\ pc' = "previous" /\ todo' = Upper
      /\ UNCHANGED <<HeavyHitterList, btHash, BucketTable, idcList, loca, tmpBucketTable, tmpCount>>
  BY DEF ShufflePrevious, table
<1>2. TableTypeOK'
  BY <1>1 DEF TableInv, TableTypeOK
<1>3. SameBucket'
  BY <1>1 DEF TableInv, SameBucket, Building, InTable
<1> QED
  BY <1>1, <1>2, <1>3 DEF TableInv, Spilled, Home, Apart

LEMMA ShuffleCurrentStep == ASSUME TableInv, ShuffleCurrent PROVE TableInv'
<1> USE TableAssumption
<1>1. /\ pc = "previous" /\ pc' = "current" /\ todo' = Upper
      /\ idcList' = [b \in Bucket |-> [ind1 |-> idcList[b].ind1, ind2 |-> idcList[b].ind1]]
      /\ UNCHANGED <<HeavyHitterList, btHash, BucketTable, loca, tmpBucketTable, tmpCount>>
  BY DEF ShuffleCurrent, table
<1>2. \A b \in Bucket : idcList[b].ind1 \in 0 .. BT_BUCKET_SIZE
  BY DEF TableInv, TableTypeOK
<1>3. idcList' \in [Bucket -> [ind1 : 0 .. BT_BUCKET_SIZE, ind2 : 0 .. maxsizeBucket]]
  BY <1>1, <1>2
<1>4. TableTypeOK'
  BY <1>1, <1>3 DEF TableInv, TableTypeOK
<1>5. \A b \in Bucket : ~Spilled(b) /\ ~Spilled(b)' /\ idcList'[b].ind2 = idcList[b].ind1
  BY <1>1, <1>2 DEF TableInv, Spilled
<1>6. \A b \in Bucket, k \in Int : Entry(b, k)' = Entry(b, k)
  BY <1>1, <1>5 DEF Entry
<1>7. SameBucket'
  <2> SUFFICES ASSUME NEW b \in Bucket, NEW k \in 0 .. InTable(b)' - 1
               PROVE  (Entry(b, k) \in Item /\ b \in BucketsOf(Entry(b, k)))'
    BY DEF SameBucket
  <2>1. k \in 0 .. InTable(b) - 1
    BY <1>1, <1>5 DEF InTable
  <2>2. Entry(b, k) \in Item /\ b \in BucketsOf(Entry(b, k))
    BY <1>1, <2>1 DEF TableInv, SameBucket, Building
  <2> QED
    BY <1>1, <1>6, <2>2 DEF BucketsOf
<1> QED
  BY <1>1, <1>2, <1>4, <1>5, <1>7 DEF TableInv, Apart

\* Item `from` of the lists has become the last entry of bucket b, all other entries
\* are as they were, and the entries of the lower list still come before the others.
AddedEntry(from, b) ==
  /\ \E n \in Nat : /\ n = InTable(b) /\ Entry(b, n)' = HeavyHitterList[from]
                    /\ from \in Upper <=> n >= idcList'[b].ind1
  /\ \A c \in Bucket : \A k \in 0 .. InTable(c) - 1 :
       Entry(c, k)' = Entry(c, k) /\ (k >= idcList'[c].ind1 <=> k >= idcList[c].ind1)
  /\ \A c \in Bucket : InTable(c)' = IF c = b THEN InTable(c) + 1 ELSE InTable(c)

PreviousAdded == \E i \in Upper, b \in Bucket : i \in todo /\ todo' = todo \ {i} /\ AddedEntry(NUM_HEAVY + i, b)
CurrentAdded  == \E i \in Upper, b \in Bucket : i \in todo /\ todo' = todo \ {i} /\ AddedEntry(i, b)

LEMMA InsertPreviousStep == ASSUME TableInv, InsertPrevious PROVE TableInv' /\ PreviousAdded
<1> USE TableAssumption
<1>1. PICK i \in Upper, b \in Bucket :
        /\ NextPrevious(i, b)
        /\ idcList[b].ind1 < BT_BUCKET_SIZE
        /\ BucketTable' = [BucketTable EXCEPT ![b][idcList[b].ind1] = HeavyHitterList[NUM_HEAVY + i]]
        /\ idcList' = [idcList EXCEPT ![b].ind1 = @ + 1]
        /\ todo' = todo \ {i}
  BY DEF InsertPrevious
<1>2. /\ pc = "previous" /\ pc' = "previous"
      /\ UNCHANGED <<HeavyHitterList, btHash, loca, tmpBucketTable, tmpCount>>
  BY DEF InsertPrevious
<1> DEFINE item == HeavyHitterList[NUM_HEAVY + i]
           n == idcList[b].ind1
<1>3. item \in Item /\ b \in BucketsOf(item)
  BY <1>1, ListItems DEF NextPrevious
<1>4. n \in Slot /\ idcList[b] \in [ind1 : 0 .. BT_BUCKET_SIZE, ind2 : 0 .. maxsizeBucket]
  BY <1>1 DEF TableInv, TableTypeOK, Slot
<1>5. BucketTable' \in [Bucket -> [Slot -> Item \cup {Raw}]]
  BY <1>1, <1>3, <1>4 DEF TableInv, TableTypeOK
<1>6. /\ idcList' \in [Bucket -> [ind1 : 0 .. BT_BUCKET_SIZE, ind2 : 0 .. maxsizeBucket]]
      /\ idcList'[b].ind1 = n + 1
      /\ \A c \in Bucket : idcList'[c].ind2 = 0 /\ (c # b => idcList'[c].ind1 = idcList[c].ind1)
  <2>1. /\ idcList \in [Bucket -> [ind1 : 0 .. BT_BUCKET_SIZE, ind2 : 0 .. maxsizeBucket]]
        /\ \A c \in Bucket : idcList[c].ind2 = 0
    BY <1>2 DEF TableInv, TableTypeOK
  <2>2. idcList' = [idcList EXCEPT ![b] = [idcList[b] EXCEPT !.ind1 = n + 1]]
    BY <1>1, <2>1
  <2>3. [idcList[b] EXCEPT !.ind1 = n + 1] = [ind1 |-> n + 1, ind2 |-> 0]
    BY <1>4, <2>1
  <2>4. n + 1 \in 0 .. BT_BUCKET_SIZE
    BY <1>4 DEF Slot
  <2>5. idcList'[b] = [ind1 |-> n + 1, ind2 |-> 0] /\ \A c \in Bucket \ {b} : idcList'[c] = idcList[c]
    BY <2>1, <2>2, <2>3
  <2>6. DOMAIN idcList' = Bucket /\ idcList' = [c \in Bucket |-> idcList'[c]]
    BY <2>1, <2>2
  <2>7. \A c \in Bucket : idcList'[c] \in [ind1 : 0 .. BT_BUCKET_SIZE, ind2 : 0 .. maxsizeBucket]
    BY <2>1, <2>4, <2>5
  <2> QED
    BY <2>1, <2>5, <2>6, <2>7
<1>7. TableTypeOK'
  BY <1>1, <1>2, <1>5, <1>6 DEF TableInv, TableTypeOK
<1>8. \A c \in Bucket : ~Spilled(c) /\ ~Spilled(c)'
  BY <1>2, <1>6 DEF TableInv, Spilled
<1>9. SameBucket'
  <2> SUFFICES ASSUME NEW c \in Bucket, NEW k \in 0 .. InTable(c)' - 1
               PROVE  (Entry(c, k) \in Item /\ c \in BucketsOf(Entry(c, k)))'
    BY DEF SameBucket
  <2>1. Entry(c, k)' = BucketTable'[c][k] /\ Entry(c, k) = BucketTable[c][k]
    BY <1>8 DEF Entry
  <2>2. k \in 0 .. idcList'[c].ind1 - 1 /\ k \in Slot
    BY <1>2, <1>6 DEF InTable, Slot
  <2>3. CASE c = b /\ k = n
    <3>1. BucketTable'[c][k] = item
      BY <1>1, <1>4, <2>3 DEF TableInv, TableTypeOK
    <3> QED
      BY <1>2, <1>3, <2>1, <2>3, <3>1 DEF BucketsOf
  <2>4. CASE ~(c = b /\ k = n)
    <3>1. BucketTable'[c][k] = BucketTable[c][k]
      BY <1>1, <1>4, <2>2, <2>4 DEF TableInv, TableTypeOK
    <3>2. k \in 0 .. InTable(c) - 1
      BY <1>2, <1>4, <1>6, <2>2, <2>4 DEF InTable, Slot
    <3>3. Entry(c, k) \in Item /\ c \in BucketsOf(Entry(c, k))
      BY <1>2, <3>2 DEF TableInv, SameBucket, Building
    <3> QED
      BY <1>2, <2>1, <3>1, <3>3 DEF BucketsOf
  <2> QED
    BY <2>3, <2>4
<1>10. AddedEntry(NUM_HEAVY + i, b)
  <2>1. /\ \A c \in Bucket : InTable(c) = idcList[c].ind1 /\ InTable(c)' = idcList'[c].ind1
        /\ \A c \in Bucket : idcList[c].ind1 \in Nat
    BY <1>2 DEF InTable, TableInv, TableTypeOK
  <2>0. PICK m \in Nat : m = n
    BY <1>4 DEF Slot
  <2>2. m = InTable(b) /\ NUM_HEAVY + i \notin Upper /\ ~(m >= idcList'[b].ind1)
    BY <1>4, <1>6, <2>0, <2>1, HeavyAssumption DEF Slot, Upper
  <2>3. Entry(b, m)' = HeavyHitterList[NUM_HEAVY + i]
    <3>1. BucketTable'[b][n] = item
      BY <1>1, <1>4 DEF TableInv, TableTypeOK
    <3>2. Entry(b, m)' = BucketTable'[b][m]
      BY <1>8 DEF Entry
    <3> QED
      BY <2>0, <3>1, <3>2
  <2>4. ASSUME NEW c \in Bucket, NEW k \in 0 .. InTable(c) - 1
        PROVE  Entry(c, k)' = Entry(c, k) /\ (k >= idcList'[c].ind1 <=> k >= idcList[c].ind1)
    <3>1. k \in Slot /\ ~(c = b /\ k = n) /\ ~(k >= idcList'[c].ind1) /\ ~(k >= idcList[c].ind1)
      BY <1>6, <2>1 DEF TableInv, TableTypeOK, Slot
    <3>2. BucketTable'[c][k] = BucketTable[c][k]
      BY <1>1, <1>4, <3>1 DEF TableInv, TableTypeOK
    <3> QED
      BY <1>8, <3>1, <3>2 DEF Entry
  <2>5. \A c \in Bucket : InTable(c)' = IF c = b THEN InTable(c) + 1 ELSE InTable(c)
    BY <1>6, <2>1
  <2> QED
    BY <2>2, <2>3, <2>4, <2>5 DEF AddedEntry
<1>11. PreviousAdded
  BY <1>1, <1>10 DEF PreviousAdded, NextPrevious
<1> QED
  BY <1>2, <1>6, <1>7, <1>8, <1>9, <1>11 DEF TableInv, Apart

\* What the three insertions of the upper list have in common: one more item in
\* bucket b, which is its last entry, and all other entries of all buckets as
\* they were.
LEMMA InsertedInv ==
  ASSUME TableInv, pc = "current", pc' = "current",
         UNCHANGED <<HeavyHitterList, btHash>>, todo' \subseteq todo,
         NEW i \in Upper, NEW b \in Bucket, NextCurrent(i, b),
         idcList' = [idcList EXCEPT ![b].ind2 = @ + 1], idcList[b].ind2 < maxsizeBucket,
         BucketTable' \in [Bucket -> [Slot -> Item \cup {Raw}]],
         tmpBucketTable' \in [TmpPos -> Item \cup {Raw}],
         loca' \in [Bucket -> 0 .. 255], tmpCount' \in 0 .. maxnumBucket,
         \A c \in Bucket : Spilled(c)' => Home(c)', Apart',
         NEW n \in Nat, n = idcList[b].ind2, Entry(b, n)' = HeavyHitterList[i],
         \A c \in Bucket : \A k \in 0 .. idcList[c].ind2 - 1 : Entry(c, k)' = Entry(c, k),
         todo' = todo \ {i}
  PROVE  TableInv' /\ CurrentAdded
<1> USE TableAssumption
<1>1. idcList[b] \in [ind1 : 0 .. BT_BUCKET_SIZE, ind2 : 0 .. maxsizeBucket]
  BY DEF TableInv, TableTypeOK
<1>2. /\ idcList' \in [Bucket -> [ind1 : 0 .. BT_BUCKET_SIZE, ind2 : 0 .. maxsizeBucket]]
      /\ idcList'[b].ind2 = idcList[b].ind2 + 1
      /\ \A c \in Bucket : idcList'[c].ind1 = idcList[c].ind1 /\ (c # b => idcList'[c].ind2 = idcList[c].ind2)
  BY <1>1 DEF TableInv, TableTypeOK
<1>3. TableTypeOK'
  BY <1>2 DEF TableInv, TableTypeOK
<1>4. SameBucket'
  <2> SUFFICES ASSUME NEW c \in Bucket, NEW k \in 0 .. InTable(c)' - 1
               PROVE  (Entry(c, k) \in Item /\ c \in BucketsOf(Entry(c, k)))'
    BY DEF SameBucket
  <2>1. k \in 0 .. idcList'[c].ind2 - 1
    BY DEF InTable
  <2>2. CASE c = b /\ k = n
    <3>1. HeavyHitterList[i] \in Item /\ b \in BucketsOf(HeavyHitterList[i])
      BY ListItems DEF NextCurrent
    <3>2. Entry(c, k)' = HeavyHitterList[i]
      BY <2>2
    <3> QED
      BY <2>2, <3>1, <3>2 DEF BucketsOf
  <2>3. CASE ~(c = b /\ k = n)
    <3>1. k \in 0 .. idcList[c].ind2 - 1
      <4>1. CASE c = b
        BY <1>2, <2>1, <2>3, <4>1
      <4>2. CASE c # b
        BY <1>2, <2>1, <4>2
      <4> QED
        BY <4>1, <4>2
    <3>2. Entry(c, k) \in Item /\ c \in BucketsOf(Entry(c, k))
      BY <3>1 DEF TableInv, SameBucket, Building, InTable
    <3> QED
      BY <3>1, <3>2 DEF BucketsOf
  <2> QED
    BY <2>2, <2>3
<1>5. \A c \in Bucket : idcList'[c].ind1 <= idcList'[c].ind2
  BY <1>1, <1>2 DEF TableInv
<1>6. AddedEntry(i, b)
  <2>1. \A c \in Bucket : InTable(c) = idcList[c].ind2 /\ InTable(c)' = idcList'[c].ind2
    BY DEF InTable
  <2>2. n = InTable(b) /\ n >= idcList'[b].ind1
    BY <1>1, <1>2, <2>1 DEF TableInv
  <2>3. \A c \in Bucket : \A k \in 0 .. InTable(c) - 1 :
          Entry(c, k)' = Entry(c, k) /\ (k >= idcList'[c].ind1 <=> k >= idcList[c].ind1)
    BY <1>2, <2>1
  <2>4. \A c \in Bucket : InTable(c)' = IF c = b THEN InTable(c) + 1 ELSE InTable(c)
    BY <1>2, <2>1
  <2> QED
    BY <2>2, <2>3, <2>4 DEF AddedEntry
<1>7. CurrentAdded
  BY <1>6 DEF CurrentAdded, NextCurrent
<1> QED
  BY <1>3, <1>4, <1>5, <1>7 DEF TableInv

\* The counts of one insertion, and what they say about the entries.
LEMMA CountedFacts ==
  ASSUME TableInv, pc = "current", NEW i \in Upper, NEW b \in Bucket, Counted(i, b)
  PROVE  /\ pc' = "current" /\ UNCHANGED <<HeavyHitterList, btHash>> /\ todo' \subseteq todo /\ todo' = todo \ {i}
         /\ idcList' = [idcList EXCEPT ![b].ind2 = @ + 1]
         /\ idcList[b].ind2 \in 0 .. maxsizeBucket
         /\ idcList'[b].ind2 = idcList[b].ind2 + 1
         /\ \A c \in Bucket \ {b} : Spilled(c)' <=> Spilled(c)
         /\ \A c \in Bucket : idcList[c].ind2 \in 0 .. maxsizeBucket
<1>1. /\ idcList' = [idcList EXCEPT ![b].ind2 = @ + 1] /\ todo' = todo \ {i}
      /\ UNCHANGED <<pc, HeavyHitterList, btHash>>
  BY DEF Counted
<1>2. idcList \in [Bucket -> [ind1 : 0 .. BT_BUCKET_SIZE, ind2 : 0 .. maxsizeBucket]]
  BY DEF TableInv, TableTypeOK
<1>3. idcList'[b].ind2 = idcList[b].ind2 + 1 /\ \A c \in Bucket \ {b} : idcList'[c].ind2 = idcList[c].ind2
  BY <1>1, <1>2
<1> QED
  BY <1>1, <1>2, <1>3 DEF Spilled

LEMMA InsertCurrentStep == ASSUME TableInv, InsertCurrent PROVE TableInv' /\ CurrentAdded
<1> USE TableAssumption
<1>1. PICK i \in Upper, b \in Bucket :
        /\ NextCurrent(i, b)
        /\ idcList[b].ind2 < BT_BUCKET_SIZE
        /\ BucketTable' = [BucketTable EXCEPT ![b][idcList[b].ind2] = HeavyHitterList[i]]
        /\ Counted(i, b)
  BY DEF InsertCurrent
<1>2. pc = "current" /\ UNCHANGED <<loca, tmpBucketTable, tmpCount>>
  BY DEF InsertCurrent
<1>3. /\ pc' = "current" /\ UNCHANGED <<HeavyHitterList, btHash>> /\ todo' \subseteq todo /\ todo' = todo \ {i}
      /\ idcList' = [idcList EXCEPT ![b].ind2 = @ + 1]
      /\ idcList[b].ind2 \in 0 .. maxsizeBucket
      /\ idcList'[b].ind2 = idcList[b].ind2 + 1
      /\ \A c \in Bucket \ {b} : Spilled(c)' <=> Spilled(c)
      /\ \A c \in Bucket : idcList[c].ind2 \in 0 .. maxsizeBucket
  BY <1>1, <1>2, CountedFacts
<1>4. PICK n \in Slot : n = idcList[b].ind2 /\ HeavyHitterList[i] \in Item /\ n < maxsizeBucket
  BY <1>1, <1>3, ListItems DEF Slot
<1>5. ~Spilled(b) /\ ~Spilled(b)'
  BY <1>1, <1>3 DEF Spilled
<1>6. BucketTable \in [Bucket -> [Slot -> Item \cup {Raw}]]
  BY DEF TableInv, TableTypeOK
<1>7. BucketTable' \in [Bucket -> [Slot -> Item \cup {Raw}]]
  BY <1>1, <1>4, <1>6
<1>8. Entry(b, n)' = HeavyHitterList[i]
  BY <1>1, <1>4, <1>5, <1>6 DEF Entry
<1>9. ASSUME NEW c \in Bucket, NEW k \in 0 .. idcList[c].ind2 - 1 PROVE Entry(c, k)' = Entry(c, k)
  <2>1. CASE Spilled(c)
    BY <1>2, <1>3, <1>5, <2>1 DEF Entry
  <2>2. CASE ~Spilled(c)
    <3>1. k \in Slot
      BY <1>3, <2>2 DEF Spilled, Slot
    <3>2. BucketTable'[c][k] = BucketTable[c][k]
      BY <1>1, <1>4, <1>6, <3>1
    <3> QED
      BY <1>3, <1>5, <2>2, <3>2 DEF Entry
  <2> QED
    BY <2>1, <2>2
<1>10. (\A c \in Bucket : Spilled(c)' => Home(c)') /\ Apart'
  BY <1>2, <1>3, <1>5 DEF TableInv, Home, Apart
<1>11. /\ tmpBucketTable' \in [TmpPos -> Item \cup {Raw}]
       /\ loca' \in [Bucket -> 0 .. 255] /\ tmpCount' \in 0 .. maxnumBucket
  BY <1>2 DEF TableInv, TableTypeOK
<1>12. n \in Nat
  BY DEF Slot
<1> QED
  BY <1>1, <1>2, <1>3, <1>4, <1>7, <1>8, <1>9, <1>10, <1>11, <1>12, InsertedInv

LEMMA InsertTmpStep == ASSUME TableInv, InsertTmp PROVE TableInv' /\ CurrentAdded
<1> USE TableAssumption
<1>1. PICK i \in Upper, b \in Bucket :
        /\ NextCurrent(i, b)
        /\ BT_BUCKET_SIZE < idcList[b].ind2 /\ idcList[b].ind2 < maxsizeBucket
        /\ tmpBucketTable' = [tmpBucketTable EXCEPT
                                ![loca[b] * maxsizeBucket + idcList[b].ind2] = HeavyHitterList[i]]
        /\ Counted(i, b)
  BY DEF InsertTmp
<1>2. pc = "current" /\ UNCHANGED <<BucketTable, loca, tmpCount>>
  BY DEF InsertTmp
<1>3. /\ pc' = "current" /\ UNCHANGED <<HeavyHitterList, btHash>> /\ todo' \subseteq todo /\ todo' = todo \ {i}
      /\ idcList' = [idcList EXCEPT ![b].ind2 = @ + 1]
      /\ idcList[b].ind2 \in 0 .. maxsizeBucket
      /\ idcList'[b].ind2 = idcList[b].ind2 + 1
      /\ \A c \in Bucket \ {b} : Spilled(c)' <=> Spilled(c)
      /\ \A c \in Bucket : idcList[c].ind2 \in 0 .. maxsizeBucket
  BY <1>1, <1>2, CountedFacts
<1>4. PICK n \in 0 .. maxsizeBucket - 1 : n = idcList[b].ind2 /\ HeavyHitterList[i] \in Item
  BY <1>1, <1>3, ListItems
<1>5. Spilled(b) /\ Spilled(b)'
  BY <1>1, <1>3 DEF Spilled
<1>6. /\ tmpBucketTable \in [TmpPos -> Item \cup {Raw}]
      /\ loca \in [Bucket -> 0 .. 255] /\ tmpCount \in 0 .. maxnumBucket
  BY DEF TableInv, TableTypeOK
<1>7. tmpBucketTable' \in [TmpPos -> Item \cup {Raw}]
  <2>1. PICK v, k : v = HeavyHitterList[i] /\ k = loca[b] * maxsizeBucket + idcList[b].ind2
    OBVIOUS
  <2>2. tmpBucketTable' = [tmpBucketTable EXCEPT ![k] = v] /\ v \in Item
    BY <1>1, <1>4, <2>1
  <2> QED
    BY <1>6, <2>2
<1>8. \A c \in Bucket : Spilled(c) => loca[c] \in 0 .. maxnumBucket - 1
  <2>1. ASSUME NEW c \in Bucket, Spilled(c) PROVE loca[c] < tmpCount
    BY <1>2, <2>1 DEF TableInv, Home
  <2>2. maxnumBucket \in Nat /\ \A c \in Bucket : loca[c] \in Nat
    BY <1>6, TableAssumption
  <2> QED
    BY <1>6, <2>1, <2>2
<1>9. Entry(b, n)' = HeavyHitterList[i]
  <2>1. loca[b] * maxsizeBucket + n \in TmpPos
    BY <1>4, <1>5, <1>8, TmpInTable
  <2> QED
    BY <1>1, <1>2, <1>4, <1>5, <1>6, <2>1 DEF Entry
<1>10. ASSUME NEW c \in Bucket, NEW k \in 0 .. idcList[c].ind2 - 1 PROVE Entry(c, k)' = Entry(c, k)
  <2>1. CASE Spilled(c)
    <3>1. k \in 0 .. maxsizeBucket - 1 /\ (c = b => k # n)
      BY <1>3, <1>4
    <3>2. loca[c] # loca[b] \/ k # n
      BY <1>5, <2>1, <3>1 DEF TableInv, Apart
    <3>3. loca[c] \in Nat /\ loca[b] \in Nat
      BY <1>5, <1>8, <2>1
    <3>4. loca[c] * maxsizeBucket + k # loca[b] * maxsizeBucket + n
      BY <1>4, <3>1, <3>2, <3>3, TmpDiffer
    <3>5. loca[c] * maxsizeBucket + k \in TmpPos
      BY <1>8, <2>1, <3>1, TmpInTable
    <3>6. tmpBucketTable'[loca[c] * maxsizeBucket + k] = tmpBucketTable[loca[c] * maxsizeBucket + k]
      BY <1>1, <1>4, <1>6, <3>4, <3>5
    <3>7. Spilled(c)'
      BY <1>3, <1>5, <2>1
    <3> QED
      BY <1>2, <2>1, <3>6, <3>7 DEF Entry
  <2>2. CASE ~Spilled(c)
    BY <1>2, <1>3, <1>5, <2>2 DEF Entry
  <2> QED
    BY <2>1, <2>2
<1>11. (\A c \in Bucket : Spilled(c)' => Home(c)') /\ Apart'
  BY <1>2, <1>3, <1>5 DEF TableInv, Home, Apart
<1>12. /\ BucketTable' \in [Bucket -> [Slot -> Item \cup {Raw}]]
       /\ loca' \in [Bucket -> 0 .. 255] /\ tmpCount' \in 0 .. maxnumBucket
  BY <1>2, <1>6 DEF TableInv, TableTypeOK
<1> QED
  <2>1. n \in Nat /\ idcList[b].ind2 < maxsizeBucket
    BY <1>4
  <2> QED
    BY <1>1, <1>2, <1>3, <1>4, <1>7, <1>9, <1>10, <1>11, <1>12, <2>1, InsertedInv

LEMMA SpillStep == ASSUME TableInv, SpillBucket, STRIDE = maxsizeBucket PROVE TableInv' /\ CurrentAdded
<1> USE TableAssumption
<1>1. PICK i \in Upper, b \in Bucket :
        /\ NextCurrent(i, b)
        /\ idcList[b].ind2 = BT_BUCKET_SIZE /\ tmpCount < maxnumBucket
        /\ tmpBucketTable' = [[k \in TmpPos |-> Copied(b, tmpCount * STRIDE, k)]
                                EXCEPT ![tmpCount * maxsizeBucket + idcList[b].ind2] = HeavyHitterList[i]]
        /\ loca' = [loca EXCEPT ![b] = tmpCount % 256]
        /\ tmpCount' = tmpCount + 1
        /\ Counted(i, b)
  BY DEF SpillBucket
<1>2. pc = "current" /\ UNCHANGED BucketTable
  BY DEF SpillBucket
<1>3. /\ pc' = "current" /\ UNCHANGED <<HeavyHitterList, btHash>> /\ todo' \subseteq todo /\ todo' = todo \ {i}
      /\ idcList' = [idcList EXCEPT ![b].ind2 = @ + 1]
      /\ idcList[b].ind2 \in 0 .. maxsizeBucket
      /\ idcList'[b].ind2 = idcList[b].ind2 + 1
      /\ \A c \in Bucket \ {b} : Spilled(c)' <=> Spilled(c)
      /\ \A c \in Bucket : idcList[c].ind2 \in 0 .. maxsizeBucket
  BY <1>1, <1>2, CountedFacts
<1> DEFINE base == tmpCount * maxsizeBucket
<1>4. PICK n \in 0 .. maxsizeBucket - 1 :
        n = idcList[b].ind2 /\ HeavyHitterList[i] \in Item /\ n = BT_BUCKET_SIZE
  BY <1>1, <1>3, ListItems
<1>5. ~Spilled(b) /\ Spilled(b)'
  BY <1>1, <1>3 DEF Spilled
<1>6. /\ tmpBucketTable \in [TmpPos -> Item \cup {Raw}]
      /\ loca \in [Bucket -> 0 .. 255] /\ tmpCount \in 0 .. maxnumBucket
      /\ BucketTable \in [Bucket -> [Slot -> Item \cup {Raw}]]
  BY DEF TableInv, TableTypeOK
<1>7. /\ tmpCount \in 0 .. maxnumBucket - 1 /\ tmpCount % 256 = tmpCount /\ tmpCount \in 0 .. 255
  <2>1. tmpCount \in 0 .. maxnumBucket - 1 /\ tmpCount \in 0 .. 255
    <3>1. tmpCount < maxnumBucket
      BY <1>1
    <3> QED
      BY <1>6, <3>1
  <2>2. \A x \in 0 .. 255 : x % 256 = x
    OBVIOUS
  <2> QED
    BY <2>1, <2>2
<1>8. /\ loca' \in [Bucket -> 0 .. 255] /\ loca'[b] = tmpCount /\ tmpCount' \in 0 .. maxnumBucket
      /\ \A c \in Bucket \ {b} : loca'[c] = loca[c]
  BY <1>1, <1>6, <1>7
<1>9. base \in Nat
  BY <1>7
<1>10. \A k \in 0 .. maxsizeBucket - 1 : base + k \in TmpPos
  BY <1>7, TmpInTable
<1>11. tmpBucketTable' \in [TmpPos -> Item \cup {Raw}]
  <2>1. ASSUME NEW k \in TmpPos PROVE Copied(b, base, k) \in Item \cup {Raw}
    <3>1. CASE k \in base .. base + BT_BUCKET_SIZE - 1
      <4>1. k - base \in Slot
        BY <1>9, <3>1 DEF Slot
      <4> QED
        BY <1>6, <3>1, <4>1 DEF Copied
    <3>2. CASE k \notin base .. base + BT_BUCKET_SIZE - 1
      BY <1>6, <3>2 DEF Copied
    <3> QED
      BY <3>1, <3>2
  <2>2. [k \in TmpPos |-> Copied(b, base, k)] \in [TmpPos -> Item \cup {Raw}]
    BY <2>1
  <2> QED
    BY <1>1, <1>4, <2>2
<1>12. /\ tmpBucketTable'[base + n] = HeavyHitterList[i]
       /\ \A k \in TmpPos \ {base + n} : tmpBucketTable'[k] = Copied(b, base, k)
  <2>1. base + n \in TmpPos
    BY <1>4, <1>10
  <2>2. tmpBucketTable' = [[k \in TmpPos |-> Copied(b, base, k)] EXCEPT ![base + n] = HeavyHitterList[i]]
    BY <1>1, <1>4
  <2> HIDE DEF base
  <2> QED
    BY <2>1, <2>2
<1> HIDE DEF base
<1>13. Entry(b, n)' = HeavyHitterList[i]
  BY <1>5, <1>8, <1>12 DEF Entry, base
<1>14. ASSUME NEW c \in Bucket, NEW k \in 0 .. idcList[c].ind2 - 1 PROVE Entry(c, k)' = Entry(c, k)
  <2>1. CASE c = b
    <3>1. k \in 0 .. BT_BUCKET_SIZE - 1 /\ k \in 0 .. maxsizeBucket - 1
      <4>1. k \in 0 .. BT_BUCKET_SIZE - 1
        BY <1>4, <2>1
      <4> QED
        BY <4>1
    <3>2. base + k \in TmpPos \ {base + n}
      BY <1>4, <1>9, <1>10, <3>1
    <3>3. base + k \in base .. base + BT_BUCKET_SIZE - 1 /\ (base + k) - base = k
      BY <1>9, <3>1
    <3>4. tmpBucketTable'[base + k] = BucketTable[b][k]
      BY <1>12, <3>2, <3>3 DEF Copied
    <3> QED
      BY <1>5, <1>8, <2>1, <3>4 DEF Entry, base
  <2>2. CASE c # b /\ Spilled(c)
    <3>1. loca[c] \in 0 .. maxnumBucket - 1 /\ loca[c] < tmpCount /\ k \in 0 .. maxsizeBucket - 1
      <4>1. loca[c] < tmpCount
        BY <2>2 DEF TableInv, Home
      <4>2. loca[c] \in 0 .. 255 /\ idcList[c].ind2 \in 0 .. maxsizeBucket
        BY <1>3, <1>6
      <4>3. k \in 0 .. maxsizeBucket - 1
        BY <4>2
      <4>4. loca[c] \in 0 .. maxnumBucket - 1
        BY <1>7, <4>1, <4>2
      <4> QED
        BY <4>1, <4>3, <4>4
    <3> DEFINE at == loca[c] * maxsizeBucket + k
    <3>2. at \in TmpPos
      BY <3>1, TmpInTable
    <3>3. \A l \in 0 .. maxsizeBucket - 1 : at # base + l
      BY <1>7, <3>1, TmpDiffer DEF base
    <3> HIDE DEF at
    <3>4. at \in Nat /\ at # base + n
      BY <1>4, <3>2, <3>3 DEF TmpPos
    <3>5. at \notin base .. base + BT_BUCKET_SIZE - 1
      <4>1. ASSUME at \in base .. base + BT_BUCKET_SIZE - 1 PROVE FALSE
        <5>1. at - base \in 0 .. maxsizeBucket - 1 /\ at = base + (at - base)
          BY <1>9, <3>4, <4>1
        <5> QED
          BY <3>3, <5>1
      <4> QED
        BY <4>1
    <3>6. tmpBucketTable'[at] = tmpBucketTable[at]
      BY <1>12, <3>2, <3>4, <3>5 DEF Copied
    <3>7. Spilled(c)' /\ loca'[c] = loca[c]
      BY <1>3, <1>8, <2>2
    <3> QED
      BY <2>2, <3>6, <3>7 DEF Entry, at
  <2>3. CASE c # b /\ ~Spilled(c)
    BY <1>2, <1>3, <2>3 DEF Entry
  <2> QED
    BY <2>1, <2>2, <2>3
<1>15. \A c \in Bucket : Spilled(c)' => Home(c)'
  <2>1. loca'[b] < tmpCount'
    BY <1>1, <1>7, <1>8
  <2>2. ASSUME NEW c \in Bucket \ {b}, Spilled(c)' PROVE loca'[c] < tmpCount'
    <3>1. loca[c] < tmpCount /\ loca[c] \in 0 .. 255
      BY <1>3, <1>6, <2>2 DEF TableInv, Home
    <3> QED
      BY <1>1, <1>7, <1>8, <3>1
  <2> QED
    BY <2>1, <2>2 DEF Home
<1>16. Apart'
  <2>1. \A c \in Bucket \ {b} : Spilled(c)' => loca'[c] # loca'[b]
    <3>1. \A c \in Bucket \ {b} : Spilled(c)' => loca[c] < tmpCount /\ loca[c] \in 0 .. 255
      BY <1>3, <1>6 DEF TableInv, Home
    <3> QED
      BY <1>7, <1>8, <3>1
  <2>2. \A c, d \in Bucket \ {b} : Spilled(c)' /\ Spilled(d)' /\ loca'[c] = loca'[d] => c = d
    BY <1>3, <1>8 DEF TableInv, Apart
  <2> QED
    BY <2>1, <2>2 DEF Apart
<1> QED
  <2>1. n \in Nat /\ idcList[b].ind2 < maxsizeBucket
    BY <1>4
  <2>2. BucketTable' \in [Bucket -> [Slot -> Item \cup {Raw}]]
    BY <1>2, <1>6
  <2>3. NextCurrent(i, b)
    BY <1>1
  <2>4. loca' \in [Bucket -> 0 .. 255] /\ tmpCount' \in 0 .. maxnumBucket
    BY <1>8
  <2> QED
    BY <1>2, <1>3, <1>4, <1>11, <1>13, <1>14, <1>15, <1>16, <2>1, <2>2, <2>3, <2>4, InsertedInv

LEMMA NextTableInv ==
  ASSUME STRIDE = maxsizeBucket, BtHashes # {} PROVE TableInv /\ [NextChange]_changeVars => TableInv'
<1> SUFFICES ASSUME TableInv, [NextChange]_changeVars PROVE TableInv'
  OBVIOUS
<1>1. CASE ShufflePrevious
  BY <1>1, ShufflePreviousStep
<1>2. CASE InsertPrevious
  BY <1>2, InsertPreviousStep
<1>3. CASE PreviousFull \/ NoTmpBucket \/ TmpBucketFull
  BY <1>3, EndInv DEF PreviousFull, NoTmpBucket, TmpBucketFull, GiveUp
<1>4. CASE ShuffleCurrent
  BY <1>4, ShuffleCurrentStep
<1>5. CASE InsertCurrent
  BY <1>5, InsertCurrentStep
<1>6. CASE SpillBucket
  BY <1>6, SpillStep
<1>7. CASE InsertTmp
  BY <1>7, InsertTmpStep
<1>8. CASE Collect
  BY <1>8, EndInv DEF Collect
<1>9. CASE UNCHANGED changeVars
  <2>1. UNCHANGED <<pc, HeavyHitterList, btHash, todo, BucketTable, idcList, loca, tmpBucketTable, tmpCount>>
    BY <1>9 DEF changeVars, table
  <2>2. TableTypeOK'
    BY <2>1 DEF TableInv, TableTypeOK
  <2>3. SameBucket'
    BY <2>1 DEF TableInv, SameBucket, Building, InTable, Entry, Spilled, BucketsOf
  <2> QED
    BY <2>1, <2>2, <2>3 DEF TableInv, Spilled, Home, Apart
<1> QED
  BY <1>1, <1>2, <1>3, <1>4, <1>5, <1>6, <1>7, <1>8, <1>9 DEF NextChange

\* Whatever the lists, the hash function and the order of the insertions, the
\* counts of the table stay within its buckets, and every entry that ODelta will
\* compare is an item of a flow that hashes to that bucket.  It is assumed that
\* the literal 32 of the copy is the size of a larger bucket.
THEOREM SameBucketHolds ==
  ASSUME STRIDE = maxsizeBucket PROVE ChangeSpec => [](TableTypeOK /\ SameBucket)
<1> DEFINE Hashes == BtHashes # {}
<1>1. ChangeInit => TableInv /\ Hashes
  BY EmptyInv DEF ChangeInit
<1>2. Hashes /\ TableInv /\ [NextChange]_changeVars => TableInv'
  BY NextTableInv
<1>3. TableInv => TableTypeOK /\ SameBucket
  BY DEF TableInv
<1>4. Hashes => Hashes'
  OBVIOUS
<1> HIDE DEF Hashes
<1> QED
  BY <1>1, <1>2, <1>3, <1>4, PTL DEF ChangeSpec
--------------------------------------------------------------------------------
(* ODelta.                                                                   *)

\* A list of items.
Items(L) == L \in Seq(Item)

\* What ODelta has made of the first list after n items of the second.
Deltas(L1, L2) ==
  LET after[n \in 0 .. Len(L2)] ==
        IF n = 0 THEN L1 ELSE [j \in DOMAIN L1 |-> Subtract(after[n - 1][j], L2[n])]
  IN after

LEMMA SubtractIs ==
  ASSUME NEW x \in Item, NEW y \in Item
  PROVE  /\ Subtract(x, y) \in Item
         /\ Subtract(x, y).flowID \in {x.flowID, DUMMY_FLOW}
         /\ x.flowID # y.flowID => Subtract(x, y) = x
         /\ x.size = 0 /\ (y.size = 0 \/ x.flowID # y.flowID) => Subtract(x, y).size = 0
<1> USE HeavyAssumption
<1>1. CASE x.flowID # y.flowID
  BY <1>1 DEF Subtract
<1>2. CASE x.flowID = y.flowID /\ x.size = y.size
  BY <1>2 DEF Subtract, dummy, Item
<1>3. CASE x.flowID = y.flowID /\ x.size # y.size
  <2>1. PICK d : d = IF x.size > y.size THEN x.size - y.size ELSE y.size - x.size
    OBVIOUS
  <2>2. d \in 0 .. MaxSize
    BY <2>1 DEF Item
  <2>3. Subtract(x, y) = [x EXCEPT !.size = d]
    BY <1>3, <2>1 DEF Subtract
  <2>4. Subtract(x, y) = [flowID |-> x.flowID, size |-> d]
    BY <2>3 DEF Item
  <2> QED
    BY <1>3, <2>2, <2>4 DEF Item
<1> QED
  BY <1>1, <1>2, <1>3

\* D[n] is the first list after n items of the second.
Working(D, L1, L2) ==
  /\ D[0] = L1
  /\ \A n \in 1 .. Len(L2), j \in 1 .. Len(L1) : D[n][j] = Subtract(D[n - 1][j], L2[n])
  /\ \A n \in 0 .. Len(L2) : D[n] \in [1 .. Len(L1) -> Item]

LEMMA DeltasAre ==
  ASSUME NEW L1, NEW L2, Items(L1), Items(L2)
  PROVE  Working(Deltas(L1, L2), L1, L2)
<1> DEFINE J == DOMAIN L1
           A == [J -> Item]
           N == Len(L2)
<1> USE DEF Items
<1>1. N \in Nat /\ L1 \in A /\ \A n \in 1 .. N : L2[n] \in Item
  OBVIOUS
<1>2. PICK F : F = [p \in A \X (1 .. N) |-> [j \in J |-> Subtract(p[1][j], L2[p[2]])]]
  OBVIOUS
<1>3. ASSUME NEW y \in A, NEW k \in 1 .. N PROVE [j \in J |-> Subtract(y[j], L2[k])] \in A
  <2> HIDE DEF J, N
  <2>1. \A j \in J : Subtract(y[j], L2[k]) \in Item
    BY <1>1, SubtractIs
  <2> QED
    BY <2>1
<1> HIDE DEF J, A, N
<1>4. F \in [A \X (1 .. N) -> A]
  BY <1>2, <1>3
<1>5. PICK f \in [0 .. N -> A] : f = [k \in 0 .. N |-> IF k = 0 THEN L1 ELSE F[<<f[k - 1], k>>]]
  <2>1. N \in Nat /\ L1 \in A /\ F \in [A \X (1 .. N) -> A]
    BY <1>1, <1>4
  <2>2. \E f \in [0 .. N -> A] : Turns(N, L1, F, f)
    BY <2>1, LoopExists
  <2> QED
    BY <2>2 DEF Turns
<1>6. \A k \in 0 .. N : k # 0 => F[<<f[k - 1], k>>] = [j \in J |-> Subtract(f[k - 1][j], L2[k])]
  <2> SUFFICES ASSUME NEW k \in 0 .. N, k # 0
               PROVE  F[<<f[k - 1], k>>] = [j \in J |-> Subtract(f[k - 1][j], L2[k])]
    OBVIOUS
  <2>1. k - 1 \in 0 .. N /\ k \in 1 .. N
    BY <1>1
  <2>2. f[k - 1] \in A
    BY <2>1
  <2> QED
    BY <1>2, <2>1, <2>2
<1>7. f = [k \in 0 .. N |-> IF k = 0 THEN L1 ELSE [j \in J |-> Subtract(f[k - 1][j], L2[k])]]
  BY <1>5, <1>6
<1>8. PICK D : D = Deltas(L1, L2)
  OBVIOUS
<1>9. D = [k \in 0 .. N |-> IF k = 0 THEN L1 ELSE [j \in J |-> Subtract(D[k - 1][j], L2[k])]]
  BY <1>7, <1>8, Zenon DEF Deltas, N, J
<1>10. D[0] = L1 /\ \A n \in 1 .. N : D[n] = [j \in J |-> Subtract(D[n - 1][j], L2[n])]
  <2>1. 0 \in 0 .. N /\ \A n \in 1 .. N : n \in 0 .. N /\ n # 0
    BY <1>1
  <2>2. D[0] = L1
    BY <1>9, <2>1
  <2>3. ASSUME NEW n \in 1 .. N PROVE D[n] = [j \in J |-> Subtract(D[n - 1][j], L2[n])]
    <3>1. n \in 0 .. N /\ n # 0
      BY <2>1
    <3> QED
      BY <1>9, <3>1
  <2> QED
    BY <2>2, <2>3
<1>11. 0 .. N \subseteq {k \in 0 .. N : D[k] \in A}
  <2>1. 0 \in {k \in 0 .. N : D[k] \in A}
    BY <1>1, <1>10
  <2>2. ASSUME NEW k \in 1 .. N, k - 1 \in {m \in 0 .. N : D[m] \in A} PROVE k \in {m \in 0 .. N : D[m] \in A}
    <3>1. k \in 0 .. N /\ D[k - 1] \in A
      BY <1>1, <2>2
    <3>2. D[k] = [j \in J |-> Subtract(D[k - 1][j], L2[k])]
      BY <1>10
    <3>3. \A y \in A : [j \in J |-> Subtract(y[j], L2[k])] \in A
      BY <1>3
    <3> QED
      BY <3>1, <3>2, <3>3
  <2> QED
    BY <1>1, <2>1, <2>2, LoopKeeps
<1>12. \A n \in 0 .. N : D[n] \in A
  BY <1>11
<1>13. \A n \in 1 .. N, j \in J : D[n][j] = Subtract(D[n - 1][j], L2[n])
  BY <1>10
<1>14. J = 1 .. Len(L1)
  BY DEF J
<1> QED
  BY <1>8, <1>10, <1>12, <1>13, <1>14 DEF A, N, Working
--------------------------------------------------------------------------------
(* What the loop over the buckets collects.                                  *)

\* Entry k of list b, for every list of g before the n-th.
Spots(n, g) == {p \in (0 .. n - 1) \X Nat : p[2] \in 1 .. Len(g[p[1]])}

\* w says which spot of g each entry of L comes from: every spot is one entry.
Origins(w, L, S, g) ==
  /\ w \in [1 .. Len(L) -> S]
  /\ \A k, l \in 1 .. Len(L) : w[k] = w[l] => k = l
  /\ \A p \in S : \E k \in 1 .. Len(L) : w[k] = p
  /\ \A k \in 1 .. Len(L) : L[k] = g[w[k][1]][w[k][2]]

JoinsUpTo(L, n, g) == L \in Seq(Item) /\ \E w : Origins(w, L, Spots(n, g), g)

\* One list more.
LEMMA JoinOne ==
  ASSUME NEW n \in Nat, NEW g, NEW L, JoinsUpTo(L, n, g), g[n] \in Seq(Item)
  PROVE  JoinsUpTo(L \o g[n], n + 1, g)
<1>1. PICK w : Origins(w, L, Spots(n, g), g)
  BY DEF JoinsUpTo
<1>2. PICK a, c, G, E : a = Len(L) /\ c = Len(g[n]) /\ G = g[n] /\ E = L \o g[n]
  OBVIOUS
<1>3. /\ a \in Nat /\ c \in Nat /\ E \in Seq(Item) /\ Len(E) = a + c
      /\ \A k \in 1 .. a : E[k] = L[k]
      /\ \A k \in 1 .. c : E[a + k] = G[k]
  BY <1>2 DEF JoinsUpTo
<1>4. PICK v : v = [k \in 1 .. a + c |-> IF k <= a THEN w[k] ELSE <<n, k - a>>]
  OBVIOUS
<1>5. PICK S, T : S = Spots(n, g) /\ T = Spots(n + 1, g)
  OBVIOUS
<1>6. \A p \in S : p \in T /\ p[1] # n
  BY <1>5 DEF Spots
<1>7. \A k \in 1 .. c : <<n, k>> \in T
  BY <1>2, <1>5 DEF Spots
<1>8. ASSUME NEW p \in T, p[1] # n PROVE p \in S
  <2>1. p \in (0 .. (n + 1) - 1) \X Nat /\ p[2] \in 1 .. Len(g[p[1]])
    BY <1>5 DEF Spots
  <2>2. p[1] \in 0 .. n - 1 /\ p[2] \in Nat /\ p = <<p[1], p[2]>>
    BY <1>8, <2>1
  <2> QED
    BY <1>5, <2>1, <2>2 DEF Spots
<1>9. ASSUME NEW p \in T, p[1] = n PROVE \E k \in 1 .. c : p = <<n, k>>
  <2>1. p \in (0 .. (n + 1) - 1) \X Nat /\ p[2] \in 1 .. Len(g[p[1]])
    BY <1>5 DEF Spots
  <2> QED
    BY <1>2, <1>9, <2>1
<1>10. /\ w \in [1 .. a -> S]
       /\ \A k, l \in 1 .. a : w[k] = w[l] => k = l
       /\ \A p \in S : \E k \in 1 .. a : w[k] = p
       /\ \A k \in 1 .. a : L[k] = g[w[k][1]][w[k][2]]
  BY <1>1, <1>2, <1>5 DEF Origins
<1>11. /\ \A k \in 1 .. a : k \in 1 .. a + c /\ v[k] = w[k]
       /\ \A k \in 1 .. c : a + k \in 1 .. a + c /\ v[a + k] = <<n, k>>
       /\ \A k \in 1 .. a + c : k \in 1 .. a \/ \E l \in 1 .. c : k = a + l
  <2>1. \A k \in 1 .. a : k \in 1 .. a + c /\ v[k] = w[k]
    BY <1>3, <1>4
  <2>2. \A k \in 1 .. c : a + k \in 1 .. a + c /\ ~(a + k <= a) /\ (a + k) - a = k
    BY <1>3
  <2>3. \A k \in 1 .. a + c : k \in 1 .. a \/ (k - a \in 1 .. c /\ k = a + (k - a))
    BY <1>3
  <2> QED
    BY <1>4, <2>1, <2>2, <2>3
<1>12. v \in [1 .. a + c -> T]
  <2>1. \A k \in 1 .. a : v[k] \in T
    BY <1>6, <1>10, <1>11
  <2>2. \A k \in 1 .. c : v[a + k] \in T
    BY <1>7, <1>11
  <2>3. \A k \in 1 .. a + c : v[k] \in T
    BY <1>11, <2>1, <2>2
  <2> QED
    BY <1>4, <2>3
<1>13. ASSUME NEW k \in 1 .. a + c, NEW l \in 1 .. a + c, v[k] = v[l] PROVE k = l
  <2>1. CASE k \in 1 .. a /\ l \in 1 .. a
    BY <1>10, <1>11, <1>13, <2>1
  <2>2. CASE k \in 1 .. a /\ l \notin 1 .. a
    <3>1. PICK m \in 1 .. c : v[l] = <<n, m>>
      BY <1>11, <2>2
    <3>2. w[k] \in S /\ w[k] = <<n, m>>
      BY <1>10, <1>11, <1>13, <2>2, <3>1
    <3> QED
      BY <1>6, <3>2
  <2>3. CASE k \notin 1 .. a /\ l \in 1 .. a
    <3>1. PICK m \in 1 .. c : v[k] = <<n, m>>
      BY <1>11, <2>3
    <3>2. w[l] \in S /\ w[l] = <<n, m>>
      BY <1>10, <1>11, <1>13, <2>3, <3>1
    <3> QED
      BY <1>6, <3>2
  <2>4. CASE k \notin 1 .. a /\ l \notin 1 .. a
    <3>1. PICK m1 \in 1 .. c, m2 \in 1 .. c : k = a + m1 /\ l = a + m2
      BY <1>11, <2>4
    <3>2. <<n, m1>> = <<n, m2>>
      BY <1>11, <1>13, <3>1
    <3> QED
      BY <3>1, <3>2
  <2> QED
    BY <2>1, <2>2, <2>3, <2>4
<1>14. ASSUME NEW p \in T PROVE \E k \in 1 .. a + c : v[k] = p
  <2>1. CASE p[1] # n
    <3>1. PICK k \in 1 .. a : w[k] = p
      BY <1>8, <1>10, <2>1
    <3> QED
      BY <1>11, <3>1
  <2>2. CASE p[1] = n
    <3>1. PICK k \in 1 .. c : p = <<n, k>>
      BY <1>9, <2>2
    <3> QED
      BY <1>11, <3>1
  <2> QED
    BY <2>1, <2>2
<1>15. ASSUME NEW k \in 1 .. a + c PROVE E[k] = g[v[k][1]][v[k][2]]
  <2>1. CASE k \in 1 .. a
    BY <1>3, <1>10, <1>11, <2>1
  <2>2. CASE k \notin 1 .. a
    <3>1. PICK l \in 1 .. c : k = a + l
      BY <1>11, <2>2
    <3>2. E[k] = G[l] /\ v[k] = <<n, l>>
      BY <1>3, <1>11, <3>1
    <3> QED
      BY <1>2, <3>2
  <2> QED
    BY <2>1, <2>2
<1>16. Origins(v, E, T, g)
  BY <1>3, <1>12, <1>13, <1>14, <1>15 DEF Origins
<1> QED
  BY <1>2, <1>3, <1>5, <1>16 DEF JoinsUpTo

\* What the loop has collected after each bucket.
Collections ==
  LET upTo[b \in 0 .. numBucket] ==
        IF b = 0 THEN <<>> ELSE upTo[b - 1] \o ODelta(Previous(b - 1), Current(b - 1))
  IN upTo

\* The changes of every bucket.
BucketDeltas == [b \in Bucket |-> ODelta(Previous(b), Current(b))]

LEMMA CollectedJoins ==
  ASSUME BucketDeltas \in [Bucket -> Seq(Item)]
  PROVE  JoinsUpTo(Collected, numBucket, BucketDeltas)
<1>1. PICK N, A, g : N = numBucket /\ A = Seq(Item) /\ g = BucketDeltas
  OBVIOUS
<1>2. N \in Nat \ {0} /\ N \in Nat /\ Bucket = 0 .. N - 1
  BY <1>1, TableAssumption DEF Bucket
<1>3. \A k \in 1 .. N : k - 1 \in Bucket /\ g[k - 1] \in A
                        /\ g[k - 1] = ODelta(Previous(k - 1), Current(k - 1))
  <2>1. \A k \in 1 .. N : k - 1 \in Bucket
    BY <1>2
  <2> QED
    BY <1>1, <2>1 DEF BucketDeltas
<1>4. PICK F : F = [p \in A \X (1 .. N) |-> p[1] \o g[p[2] - 1]]
  OBVIOUS
<1>5. ASSUME NEW y \in A, NEW k \in 1 .. N PROVE y \o g[k - 1] \in A
  BY <1>1, <1>3
<1>6. F \in [A \X (1 .. N) -> A]
  BY <1>4, <1>5
<1>7. <<>> \in A
  BY <1>1
<1>8. PICK f \in [0 .. N -> A] : Turns(N, <<>>, F, f)
  BY <1>2, <1>6, <1>7, LoopExists
<1>9. f = [k \in 0 .. N |-> IF k = 0 THEN <<>> ELSE F[<<f[k - 1], k>>]]
  BY <1>8 DEF Turns
<1>10. \A k \in 0 .. N : k # 0 => F[<<f[k - 1], k>>] = f[k - 1] \o ODelta(Previous(k - 1), Current(k - 1))
  <2> SUFFICES ASSUME NEW k \in 0 .. N, k # 0
               PROVE  F[<<f[k - 1], k>>] = f[k - 1] \o ODelta(Previous(k - 1), Current(k - 1))
    OBVIOUS
  <2>1. k - 1 \in 0 .. N /\ k \in 1 .. N
    BY <1>2
  <2>2. f[k - 1] \in A
    BY <2>1
  <2>3. F[<<f[k - 1], k>>] = f[k - 1] \o g[k - 1]
    BY <1>4, <2>1, <2>2
  <2>4. g[k - 1] = ODelta(Previous(k - 1), Current(k - 1))
    BY <1>3, <2>1
  <2> QED
    BY <2>3, <2>4
<1>11. f = [k \in 0 .. N |-> IF k = 0 THEN <<>> ELSE f[k - 1] \o ODelta(Previous(k - 1), Current(k - 1))]
  BY <1>9, <1>10
<1>12. PICK U : U = Collections
  OBVIOUS
<1>13. U = [k \in 0 .. N |-> IF k = 0 THEN <<>> ELSE U[k - 1] \o ODelta(Previous(k - 1), Current(k - 1))]
  BY <1>1, <1>11, <1>12, Zenon DEF Collections
<1>14. U[0] = <<>> /\ \A k \in 1 .. N : U[k] = U[k - 1] \o g[k - 1]
  <2>1. 0 \in 0 .. N /\ \A k \in 1 .. N : k \in 0 .. N /\ k # 0
    BY <1>2
  <2>2. U[0] = <<>>
    BY <1>13, <2>1
  <2>3. ASSUME NEW k \in 1 .. N PROVE U[k] = U[k - 1] \o g[k - 1]
    <3>1. k \in 0 .. N /\ k # 0
      BY <2>1
    <3>2. U[k] = U[k - 1] \o ODelta(Previous(k - 1), Current(k - 1))
      BY <1>13, <3>1
    <3> QED
      BY <1>3, <3>2
  <2> QED
    BY <2>2, <2>3
<1> DEFINE T == {k \in 0 .. N : JoinsUpTo(U[k], k, g)}
<1>15. 0 \in T
  <2>1. Spots(0, g) = {}
    BY DEF Spots
  <2>2. PICK w : w = [k \in {} |-> k]
    OBVIOUS
  <2>3. U[0] \in Seq(Item) /\ Len(U[0]) = 0 /\ 1 .. 0 = {}
    BY <1>14
  <2>4. Origins(w, U[0], {}, g)
    BY <2>2, <2>3 DEF Origins
  <2>5. JoinsUpTo(U[0], 0, g)
    BY <2>1, <2>3, <2>4 DEF JoinsUpTo
  <2> QED
    BY <1>2, <2>5
<1>16. ASSUME NEW k \in 1 .. N, k - 1 \in T PROVE k \in T
  <2>1. PICK m \in Nat : m = k - 1 /\ k = m + 1
    BY <1>2
  <2>2. JoinsUpTo(U[m], m, g) /\ g[m] \in Seq(Item)
    BY <1>1, <1>3, <1>16, <2>1
  <2>3. JoinsUpTo(U[m] \o g[m], m + 1, g)
    BY <2>2, JoinOne
  <2>4. U[k] = U[m] \o g[m]
    BY <1>14, <2>1
  <2>5. k \in 0 .. N
    BY <1>2
  <2> QED
    BY <2>1, <2>3, <2>4, <2>5
<1>17. 0 .. N \subseteq T
  <2> HIDE DEF T
  <2> QED
    BY <1>2, <1>15, <1>16, LoopKeeps
<1>18. N \in T
  BY <1>2, <1>17
<1>19. Collected = U[N]
  BY <1>1, <1>12, Zenon DEF Collected, Collections
<1> QED
  BY <1>1, <1>18, <1>19
--------------------------------------------------------------------------------
(* What ODelta makes of every item of a bucket.                               *)

NoDummies(L) == \A n \in 1 .. Len(L) : L[n].flowID # DUMMY_FLOW

\* v is what becomes of item x of the first list: nothing, if no item of the second
\* has its flow; the difference, if one has; and an empty item has no size.
Reduced(v, x, L2) ==
  /\ (\A n \in 1 .. Len(L2) : L2[n].flowID # x.flowID) => v = x
  /\ \A n \in 1 .. Len(L2) :
       L2[n].flowID = x.flowID /\ (\A m \in 1 .. Len(L2) \ {n} : L2[m].flowID # x.flowID) => v = Subtract(x, L2[n])
  /\ x.flowID = 0 /\ x.size = 0 /\ (\A n \in 1 .. Len(L2) : L2[n].flowID = 0 => L2[n].size = 0) => v.size = 0

\* And v what becomes of item n of the second: it is struck out, if the first list
\* had its flow.
Struck(v, L1, L2, n) ==
  /\ v \in {dummy, L2[n]}
  /\ (\A j \in 1 .. Len(L1) : L1[j].flowID # L2[n].flowID) => v = L2[n]
  /\ (\E j \in 1 .. Len(L1) : L1[j].flowID = L2[n].flowID) /\ (\A m \in 1 .. n - 1 : L2[m].flowID # L2[n].flowID)
       => v = dummy

DeltaOf(E, L1, L2) ==
  /\ E \in Seq(Item) /\ Len(E) = Len(L1) + Len(L2)
  /\ NoDummies(L2) =>
       /\ \A j \in 1 .. Len(L1) : Reduced(E[j], L1[j], L2)
       /\ \A n \in 1 .. Len(L2) : Struck(E[Len(L1) + n], L1, L2, n)

LEMMA Untouched ==
  ASSUME NEW L1, NEW L2, Items(L1), Items(L2), NEW D, Working(D, L1, L2), NEW j \in 1 .. Len(L1),
         NEW n \in 0 .. Len(L2), \A m \in 1 .. n : L2[m].flowID # L1[j].flowID
  PROVE  D[n][j] = L1[j]
<1> DEFINE T == {m \in 0 .. n : D[m][j] = L1[j]}
<1>1. n \in Nat /\ \A m \in 1 .. n : L2[m] \in Item /\ m \in 1 .. Len(L2)
  BY DEF Items
<1>2. 0 \in T
  BY <1>1 DEF Working
<1>3. ASSUME NEW m \in 1 .. n, m - 1 \in T PROVE m \in T
  <2>1. D[m - 1][j] = L1[j] /\ L1[j] \in Item /\ L2[m] \in Item
    BY <1>1, <1>3 DEF Items
  <2>2. D[m][j] = Subtract(L1[j], L2[m])
    BY <1>1, <2>1 DEF Working
  <2>3. Subtract(L1[j], L2[m]) = L1[j]
    BY <2>1, SubtractIs
  <2>4. m \in 0 .. n
    BY <1>1
  <2> QED
    BY <2>2, <2>3, <2>4
<1>4. 0 .. n \subseteq T
  <2> HIDE DEF T
  <2> QED
    BY <1>1, <1>2, <1>3, LoopKeeps
<1> QED
  BY <1>1, <1>4

\* An item keeps its flow, or is struck out.
LEMMA FlowKept ==
  ASSUME NEW L1, NEW L2, Items(L1), Items(L2), NEW D, Working(D, L1, L2), NEW j \in 1 .. Len(L1),
         NEW n \in 0 .. Len(L2)
  PROVE  D[n][j].flowID \in {L1[j].flowID, DUMMY_FLOW}
<1> DEFINE T == {m \in 0 .. n : D[m][j].flowID \in {L1[j].flowID, DUMMY_FLOW}}
<1>1. n \in Nat /\ \A m \in 1 .. n : L2[m] \in Item /\ m \in 1 .. Len(L2)
  BY DEF Items
<1>2. 0 \in T
  BY <1>1 DEF Working
<1>3. ASSUME NEW m \in 1 .. n, m - 1 \in T PROVE m \in T
  <2>1. m - 1 \in 0 .. Len(L2) /\ m \in 0 .. n
    BY <1>1
  <2>2. D[m - 1][j] \in Item /\ L2[m] \in Item
    BY <1>1, <2>1 DEF Working
  <2>3. D[m][j] = Subtract(D[m - 1][j], L2[m])
    BY <1>1 DEF Working
  <2>4. Subtract(D[m - 1][j], L2[m]).flowID \in {D[m - 1][j].flowID, DUMMY_FLOW}
    BY <2>2, SubtractIs
  <2> QED
    BY <1>3, <2>1, <2>3, <2>4
<1>4. 0 .. n \subseteq T
  <2> HIDE DEF T
  <2> QED
    BY <1>1, <1>2, <1>3, LoopKeeps
<1> QED
  BY <1>1, <1>4

\* An item meets the one item of its flow.
LEMMA MetOnce ==
  ASSUME NEW L1, NEW L2, Items(L1), Items(L2), NoDummies(L2), NEW D, Working(D, L1, L2),
         NEW j \in 1 .. Len(L1), NEW n \in 1 .. Len(L2), L2[n].flowID = L1[j].flowID,
         \A m \in 1 .. Len(L2) \ {n} : L2[m].flowID # L1[j].flowID
  PROVE  D[Len(L2)][j] = Subtract(L1[j], L2[n])
<1>1. PICK N, x, y, v : N = Len(L2) /\ x = L1[j] /\ y = L2[n] /\ v = Subtract(x, y)
  OBVIOUS
<1>2. N \in Nat /\ n \in 1 .. N /\ x \in Item /\ y \in Item
  BY <1>1 DEF Items
<1>3. v \in Item /\ v.flowID \in {x.flowID, DUMMY_FLOW}
  BY <1>1, <1>2, SubtractIs
<1> DEFINE T == {m \in 0 .. N : m >= n => D[m][j] = v}
<1>4. 0 \in T
  BY <1>2
<1>5. ASSUME NEW m \in 1 .. N, m - 1 \in T PROVE m \in T
  <2>1. CASE m < n
    BY <1>2, <2>1
  <2>2. CASE m = n
    <3>1. PICK k \in 0 .. Len(L2) : k = m - 1
      BY <1>1, <1>2
    <3>2. \A l \in 1 .. k : l \in 1 .. Len(L2) \ {n}
      BY <1>1, <1>2, <2>2, <3>1
    <3>3. D[k][j] = L1[j]
      BY <3>2, Untouched
    <3>4. D[m][j] = Subtract(D[m - 1][j], L2[m])
      BY <1>1 DEF Working
    <3>5. D[m][j] = v
      BY <1>1, <2>2, <3>1, <3>3, <3>4
    <3> QED
      BY <1>2, <3>5
  <2>3. CASE m > n
    <3>1. D[m - 1][j] = v
      BY <1>2, <1>5, <2>3
    <3>2. D[m][j] = Subtract(v, L2[m]) /\ L2[m] \in Item
      BY <1>1, <3>1 DEF Working, Items
    <3>3. L2[m].flowID # x.flowID /\ L2[m].flowID # DUMMY_FLOW
      BY <1>1, <1>2, <2>3 DEF NoDummies
    <3>4. Subtract(v, L2[m]) = v
      BY <1>3, <3>2, <3>3, SubtractIs
    <3> QED
      BY <1>2, <3>2, <3>4
  <2> QED
    BY <1>2, <2>1, <2>2, <2>3
<1>6. 0 .. N \subseteq T
  <2> HIDE DEF T
  <2> QED
    BY <1>2, <1>4, <1>5, LoopKeeps
<1> QED
  BY <1>1, <1>2, <1>6

\* An empty item gains no size.
LEMMA StaysEmpty ==
  ASSUME NEW L1, NEW L2, Items(L1), Items(L2), NoDummies(L2), NEW D, Working(D, L1, L2),
         NEW j \in 1 .. Len(L1), L1[j].flowID = 0, L1[j].size = 0,
         \A n \in 1 .. Len(L2) : L2[n].flowID = 0 => L2[n].size = 0
  PROVE  D[Len(L2)][j].size = 0
<1>1. PICK N : N = Len(L2)
  OBVIOUS
<1> DEFINE T == {m \in 0 .. N : D[m][j].size = 0}
<1>2. N \in Nat
  BY <1>1 DEF Items
<1>3. 0 \in T
  BY <1>2 DEF Working
<1>4. ASSUME NEW m \in 1 .. N, m - 1 \in T PROVE m \in T
  <2>1. PICK k \in 0 .. Len(L2) : k = m - 1
    BY <1>1, <1>2
  <2>2. PICK x, y : x = D[k][j] /\ y = L2[m]
    OBVIOUS
  <2>3. x \in Item /\ y \in Item /\ D[m][j] = Subtract(x, y)
    <3>1. D[k] \in [1 .. Len(L1) -> Item]
      BY DEF Working
    <3>2. x \in Item /\ y \in Item
      BY <1>1, <2>2, <3>1 DEF Items
    <3>3. D[m][j] = Subtract(D[m - 1][j], L2[m])
      BY <1>1 DEF Working
    <3> QED
      BY <2>1, <2>2, <3>2, <3>3
  <2>4. x.flowID \in {0, DUMMY_FLOW} /\ x.size = 0
    BY <1>4, <2>1, <2>2, FlowKept
  <2>5. y.size = 0 \/ x.flowID # y.flowID
    BY <1>1, <2>2, <2>4 DEF NoDummies
  <2>6. Subtract(x, y).size = 0
    BY <2>3, <2>4, <2>5, SubtractIs
  <2>7. m \in 0 .. N
    BY <1>2
  <2> QED
    BY <2>3, <2>6, <2>7
<1>5. 0 .. N \subseteq T
  <2> HIDE DEF T
  <2> QED
    BY <1>2, <1>3, <1>4, LoopKeeps
<1> QED
  BY <1>1, <1>2, <1>5

LEMMA TwoParts ==
  ASSUME NEW P \in Seq(Item), NEW Q \in Seq(Item)
  PROVE  /\ P \o Q \in Seq(Item) /\ Len(P \o Q) = Len(P) + Len(Q)
         /\ \A j \in 1 .. Len(P) : (P \o Q)[j] = P[j]
         /\ \A n \in 1 .. Len(Q) : (P \o Q)[Len(P) + n] = Q[n]
OBVIOUS

LEMMA ODeltaIs ==
  ASSUME NEW L1, NEW L2, Items(L1), Items(L2)
  PROVE  DeltaOf(ODelta(L1, L2), L1, L2)
<1>1. PICK D, a, N : D = Deltas(L1, L2) /\ a = Len(L1) /\ N = Len(L2)
  OBVIOUS
<1>2. /\ a \in Nat /\ N \in Nat /\ DOMAIN L1 = 1 .. a /\ DOMAIN L2 = 1 .. N
      /\ L1 \in [1 .. a -> Item] /\ L2 \in [1 .. N -> Item]
  BY <1>1 DEF Items
<1>3. Working(D, L1, L2)
  BY <1>1, DeltasAre
<1>4. PICK P, Q, E : /\ P = D[N]
                     /\ Q = [n \in DOMAIN L2 |-> IF \E j \in DOMAIN L1 : D[n - 1][j].flowID = L2[n].flowID
                                                 THEN dummy ELSE L2[n]]
                     /\ E = P \o Q
  OBVIOUS
<1>5. ODelta(L1, L2) = E
  BY <1>1, <1>4, Zenon DEF ODelta, Deltas
<1>6. P \in [1 .. a -> Item]
  <2>1. N \in 0 .. Len(L2)
    BY <1>1, <1>2
  <2> QED
    BY <1>1, <1>3, <1>4, <2>1 DEF Working
<1>7. dummy \in Item
  BY HeavyAssumption DEF dummy, Item
<1>8. Q \in [1 .. N -> Item]
  BY <1>2, <1>4, <1>7
<1>9. P \in Seq(Item) /\ Q \in Seq(Item) /\ Len(P) = a /\ Len(Q) = N
  BY <1>2, <1>6, <1>8
<1>10. /\ E \in Seq(Item) /\ Len(E) = a + N
       /\ \A j \in 1 .. a : E[j] = P[j]
       /\ \A n \in 1 .. N : E[a + n] = Q[n]
  <2>1. E = P \o Q
    BY <1>4
  <2>2. /\ P \o Q \in Seq(Item) /\ Len(P \o Q) = Len(P) + Len(Q)
        /\ \A j \in 1 .. Len(P) : (P \o Q)[j] = P[j]
        /\ \A n \in 1 .. Len(Q) : (P \o Q)[Len(P) + n] = Q[n]
    BY <1>9, TwoParts
  <2> QED
    BY <1>9, <2>1, <2>2, Zenon
<1>11. ASSUME NoDummies(L2), NEW j \in 1 .. Len(L1) PROVE Reduced(E[j], L1[j], L2)
  <2>1. E[j] = D[Len(L2)][j] /\ Len(L2) \in 0 .. Len(L2)
    BY <1>1, <1>2, <1>4, <1>10
  <2>2. (\A n \in 1 .. Len(L2) : L2[n].flowID # L1[j].flowID) => E[j] = L1[j]
    BY <1>3, <2>1, Untouched
  <2>3. ASSUME NEW n \in 1 .. Len(L2), L2[n].flowID = L1[j].flowID,
               \A m \in 1 .. Len(L2) \ {n} : L2[m].flowID # L1[j].flowID
        PROVE  E[j] = Subtract(L1[j], L2[n])
    BY <1>3, <1>11, <2>1, <2>3, MetOnce
  <2>4. ASSUME L1[j].flowID = 0, L1[j].size = 0, \A n \in 1 .. Len(L2) : L2[n].flowID = 0 => L2[n].size = 0
        PROVE  E[j].size = 0
    BY <1>3, <1>11, <2>1, <2>4, StaysEmpty
  <2> QED
    BY <2>2, <2>3, <2>4 DEF Reduced
<1>12. ASSUME NoDummies(L2), NEW n \in 1 .. Len(L2) PROVE Struck(E[Len(L1) + n], L1, L2, n)
  <2>1. PICK m \in 0 .. Len(L2) : m = n - 1
    BY <1>1, <1>2
  <2>2. PICK v : v = E[Len(L1) + n]
    OBVIOUS
  <2>3. v = IF \E j \in 1 .. a : D[m][j].flowID = L2[n].flowID THEN dummy ELSE L2[n]
    <3>1. v = Q[n] /\ n \in 1 .. N
      BY <1>1, <1>10, <2>2
    <3>2. Q[n] = IF \E j \in 1 .. a : D[n - 1][j].flowID = L2[n].flowID THEN dummy ELSE L2[n]
      BY <1>2, <1>4, <3>1
    <3> QED
      BY <2>1, <3>1, <3>2
  <2>4. ASSUME \A j \in 1 .. Len(L1) : L1[j].flowID # L2[n].flowID PROVE v = L2[n]
    <3>1. L2[n].flowID # DUMMY_FLOW
      BY <1>12 DEF NoDummies
    <3>2. \A j \in 1 .. Len(L1) : D[m][j].flowID \in {L1[j].flowID, DUMMY_FLOW}
      BY <1>3, FlowKept
    <3>3. \A j \in 1 .. a : D[m][j].flowID # L2[n].flowID
      BY <1>1, <2>4, <3>1, <3>2
    <3> QED
      BY <2>3, <3>3
  <2>5. ASSUME NEW j \in 1 .. Len(L1), L1[j].flowID = L2[n].flowID,
               \A k \in 1 .. n - 1 : L2[k].flowID # L2[n].flowID
        PROVE  v = dummy
    <3>1. \A k \in 1 .. m : L2[k].flowID # L1[j].flowID
      BY <2>1, <2>5
    <3>2. D[m][j] = L1[j]
      BY <1>3, <3>1, Untouched
    <3> QED
      BY <1>1, <2>3, <2>5, <3>2
  <2>6. v \in {dummy, L2[n]}
    BY <2>3
  <2> QED
    BY <2>2, <2>4, <2>5, <2>6 DEF Struck
<1> QED
  BY <1>1, <1>5, <1>10, <1>11, <1>12 DEF DeltaOf
--------------------------------------------------------------------------------
(* Where the items of the lists are in the table.                            *)

\* The items that are in the table, and the entries of the table.
Listed == {x \in Both : IF x \in Upper THEN pc = "current" /\ x \notin todo
                                       ELSE pc = "current" \/ x - NUM_HEAVY \notin todo}
Filled == {p \in Bucket \X Nat : p[2] < InTable(p[1])}

\* One function onto another set, one to one.
Matching(f, S, T) ==
  f \in [S -> T] /\ (\A x, y \in S : f[x] = f[y] => x = y) /\ \A p \in T : \E x \in S : f[x] = p

Holds(at, x) ==
  /\ Entry(at[x][1], at[x][2]) = HeavyHitterList[x]
  /\ x \in Upper <=> at[x][2] >= idcList[at[x][1]].ind1

\* Each of them is one entry, and of each list the part of a bucket that is its own.
Places(at) == Matching(at, Listed, Filled) /\ \A x \in Listed : Holds(at, x)
Placed     == \E at : Places(at)

LEMMA OneMore ==
  ASSUME NEW S, NEW T, NEW f, Matching(f, S, T), NEW x, NEW p, x \notin S, p \notin T,
         NEW g, g = [y \in S \cup {x} |-> IF y = x THEN p ELSE f[y]]
  PROVE  Matching(g, S \cup {x}, T \cup {p})
<1>1. g[x] = p /\ \A y \in S : g[y] = f[y] /\ g[y] \in T
  BY DEF Matching
<1>2. g \in [S \cup {x} -> T \cup {p}]
  BY DEF Matching
<1>3. \A y, z \in S \cup {x} : g[y] = g[z] => y = z
  BY <1>1 DEF Matching
<1>4. \A q \in T \cup {p} : \E y \in S \cup {x} : g[y] = q
  BY <1>1 DEF Matching
<1> QED
  BY <1>2, <1>3, <1>4 DEF Matching

LEMMA PlacedNone == ASSUME TableInv, ShufflePrevious PROVE Placed'
<1>1. /\ pc' = "previous" /\ todo' = Upper /\ \A b \in Bucket : idcList'[b].ind1 = 0
  BY DEF ShufflePrevious, TableInv, table
<1>2. Listed' = {}
  <2>1. \A x \in Both : x \notin Upper => x - NUM_HEAVY \in Upper
    BY HeavyAssumption DEF Both, Upper
  <2> QED
    BY <1>1, <2>1 DEF Listed
<1>3. Filled' = {}
  BY <1>1 DEF Filled, InTable
<1>4. PICK at : at = [x \in {} |-> x]
  OBVIOUS
<1>5. Matching(at, {}, {})
  BY <1>4 DEF Matching
<1>6. Places(at)'
  BY <1>2, <1>3, <1>5 DEF Places
<1> QED
  BY <1>6 DEF Placed

LEMMA PlacedLower == ASSUME TableInv, Placed, ShuffleCurrent PROVE Placed'
<1>1. /\ pc = "previous" /\ todo = {} /\ pc' = "current" /\ todo' = Upper
      /\ idcList' = [b \in Bucket |-> [ind1 |-> idcList[b].ind1, ind2 |-> idcList[b].ind1]]
      /\ UNCHANGED <<HeavyHitterList, BucketTable, loca, tmpBucketTable>>
  BY DEF ShuffleCurrent
<1>2. Listed' = Listed /\ \A x \in Listed : x \notin Upper
  BY <1>1 DEF Listed
<1>3. \A b \in Bucket : /\ InTable(b)' = InTable(b) /\ InTable(b) = idcList[b].ind1
                        /\ idcList'[b].ind1 = idcList[b].ind1 /\ idcList'[b].ind2 = idcList[b].ind1
                        /\ idcList[b].ind1 \in 0 .. BT_BUCKET_SIZE
  BY <1>1 DEF InTable, TableInv, TableTypeOK
<1>4. Filled' = Filled
  BY <1>3 DEF Filled
<1>5. \A b \in Bucket : ~Spilled(b) /\ ~Spilled(b)'
  <2>1. \A b \in Bucket : idcList[b].ind2 = 0
    BY <1>1 DEF TableInv
  <2>2. \A b \in Bucket : ~Spilled(b)
    BY <2>1, TableAssumption DEF Spilled
  <2>3. \A b \in Bucket : ~(idcList'[b].ind2 > BT_BUCKET_SIZE)
    BY <1>3, TableAssumption
  <2> QED
    BY <2>2, <2>3 DEF Spilled
<1>6. \A b \in Bucket, k \in Nat : Entry(b, k)' = Entry(b, k)
  BY <1>1, <1>5 DEF Entry
<1>7. PICK at : Places(at)
  BY DEF Placed
<1>8. ASSUME NEW x \in Listed PROVE Holds(at, x)'
  <2>1. at[x] \in Filled /\ Holds(at, x)
    BY <1>7 DEF Places, Matching
  <2>2. at[x][1] \in Bucket /\ at[x][2] \in Nat
    BY <2>1 DEF Filled
  <2> QED
    BY <1>1, <1>3, <1>6, <2>1, <2>2 DEF Holds
<1>9. Places(at)'
  BY <1>2, <1>4, <1>7, <1>8 DEF Places
<1> QED
  BY <1>9 DEF Placed

LEMMA PlacedOne ==
  ASSUME TableInv, Placed, NEW from \in Both, from \notin Listed, Listed' = Listed \cup {from},
         NEW b \in Bucket, AddedEntry(from, b), HeavyHitterList' = HeavyHitterList,
         \A c \in Bucket : InTable(c) \in Nat
  PROVE  Placed'
<1>1. PICK n \in Nat : /\ n = InTable(b) /\ Entry(b, n)' = HeavyHitterList[from]
                       /\ from \in Upper <=> n >= idcList'[b].ind1
  BY Zenon DEF AddedEntry
<1>2. PICK at : Places(at)
  BY DEF Placed
<1>3. PICK S, T, p : S = Listed /\ T = Filled /\ p = <<b, n>>
  OBVIOUS
<1>4. PICK g : g = [y \in S \cup {from} |-> IF y = from THEN p ELSE at[y]]
  OBVIOUS
<1>5. p \notin T /\ from \notin S
  BY <1>1, <1>3 DEF Filled
<1>6. Filled' = T \cup {p}
  <2>1. \A q \in Bucket \X Nat : q[2] < InTable(q[1])' <=> q[2] < InTable(q[1]) \/ q = p
    <3> SUFFICES ASSUME NEW c \in Bucket, NEW k \in Nat
                 PROVE  k < InTable(c)' <=> k < InTable(c) \/ <<c, k>> = p
      OBVIOUS
    <3>1. InTable(c)' = IF c = b THEN InTable(c) + 1 ELSE InTable(c)
      BY DEF AddedEntry
    <3>2. InTable(c) \in Nat
      OBVIOUS
    <3>3. CASE c = b
      BY <1>1, <1>3, <3>1, <3>2, <3>3
    <3>4. CASE c # b
      BY <1>3, <3>1, <3>4
    <3> QED
      BY <3>3, <3>4
  <2>2. p \in Bucket \X Nat
    BY <1>1, <1>3
  <2> QED
    BY <1>3, <2>1, <2>2 DEF Filled
<1>7. Matching(at, S, T)
  BY <1>2, <1>3 DEF Places
<1>8. Matching(g, S \cup {from}, T \cup {p})
  BY <1>4, <1>5, <1>7, OneMore
<1>9. ASSUME NEW x \in S PROVE Holds(g, x)'
  <2>1. PICK c, k : c = at[x][1] /\ k = at[x][2]
    OBVIOUS
  <2>2. at[x] \in T
    BY <1>7 DEF Matching
  <2>3. c \in Bucket /\ k \in Nat /\ k < InTable(c)
    BY <1>3, <2>1, <2>2 DEF Filled
  <2>4. k \in 0 .. InTable(c) - 1
    BY <2>3
  <2>5. Entry(c, k)' = Entry(c, k) /\ (k >= idcList'[c].ind1 <=> k >= idcList[c].ind1)
    BY <2>3, <2>4 DEF AddedEntry
  <2>6. Entry(c, k) = HeavyHitterList[x] /\ (x \in Upper <=> k >= idcList[c].ind1)
    BY <1>2, <1>3, <2>1 DEF Places, Holds
  <2>7. g[x] = at[x]
    BY <1>4, <1>5
  <2> QED
    BY <2>1, <2>5, <2>6, <2>7 DEF Holds
<1>10. Holds(g, from)'
  <2>1. g[from][1] = b /\ g[from][2] = n
    BY <1>3, <1>4
  <2> QED
    BY <1>1, <2>1 DEF Holds
<1>11. Listed' = S \cup {from}
  BY <1>3
<1>12. Places(g)'
  BY <1>6, <1>8, <1>9, <1>10, <1>11 DEF Places
<1> QED
  BY <1>12 DEF Placed

LEMMA PlacedPrevious ==
  ASSUME TableInv, Placed, pc = "previous", pc' = "previous", HeavyHitterList' = HeavyHitterList, PreviousAdded
  PROVE  Placed'
<1>1. PICK i \in Upper, b \in Bucket : i \in todo /\ todo' = todo \ {i} /\ AddedEntry(NUM_HEAVY + i, b)
  BY DEF PreviousAdded
<1>2. PICK from : from = NUM_HEAVY + i
  OBVIOUS
<1>3. from \in Both /\ from \notin Upper /\ from - NUM_HEAVY = i
  BY <1>2, HeavyAssumption DEF Both, Upper
<1>4. from \notin Listed
  BY <1>1, <1>3 DEF Listed
<1>5. Listed' = Listed \cup {from}
  <2>1. \A x \in Both : x \notin Upper /\ x - NUM_HEAVY = i => x = from
    BY <1>2, HeavyAssumption DEF Both, Upper
  <2> QED
    BY <1>1, <1>3, <2>1 DEF Listed
<1>6. \A c \in Bucket : InTable(c) \in Nat
  BY TableAssumption DEF InTable, TableInv, TableTypeOK
<1> QED
  BY <1>1, <1>2, <1>3, <1>4, <1>5, <1>6, PlacedOne

LEMMA PlacedCurrent ==
  ASSUME TableInv, Placed, pc = "current", pc' = "current", HeavyHitterList' = HeavyHitterList, CurrentAdded
  PROVE  Placed'
<1>1. PICK i \in Upper, b \in Bucket : i \in todo /\ todo' = todo \ {i} /\ AddedEntry(i, b)
  BY DEF CurrentAdded
<1>2. i \in Both
  BY HeavyAssumption DEF Both, Upper
<1>3. i \notin Listed
  BY <1>1 DEF Listed
<1>4. Listed' = Listed \cup {i}
  BY <1>1, <1>2 DEF Listed
<1>5. \A c \in Bucket : InTable(c) \in Nat
  BY TableAssumption DEF InTable, TableInv, TableTypeOK
<1> QED
  BY <1>1, <1>2, <1>3, <1>4, <1>5, PlacedOne

\* While the table is built, every item that was put into it is in it once, and
\* HeavyChangeList holds no items.
PlacedInv == Building => Placed /\ HeavyChangeList = NoChanges

LEMMA NextPlaced ==
  ASSUME STRIDE = maxsizeBucket, TableInv, PlacedInv, [NextChange]_changeVars PROVE PlacedInv'
<1>1. CASE ShufflePrevious
  BY <1>1, PlacedNone DEF ShufflePrevious, PlacedInv, NoChanges
<1>2. CASE InsertPrevious
  <2>1. /\ pc = "previous" /\ pc' = "previous" /\ HeavyHitterList' = HeavyHitterList
        /\ HeavyChangeList' = HeavyChangeList
    BY <1>2 DEF InsertPrevious
  <2>2. PreviousAdded
    BY <1>2, InsertPreviousStep
  <2> QED
    BY <2>1, <2>2, PlacedPrevious DEF PlacedInv, Building, NoChanges
<1>3. CASE PreviousFull \/ NoTmpBucket \/ TmpBucketFull
  BY <1>3 DEF PreviousFull, NoTmpBucket, TmpBucketFull, GiveUp, PlacedInv, Building
<1>4. CASE ShuffleCurrent
  <2>1. pc = "previous" /\ pc' = "current" /\ HeavyChangeList' = HeavyChangeList
    BY <1>4 DEF ShuffleCurrent
  <2> QED
    BY <1>4, <2>1, PlacedLower DEF PlacedInv, Building, NoChanges
<1>5. CASE InsertCurrent \/ SpillBucket \/ InsertTmp
  <2>1. /\ pc = "current" /\ pc' = "current" /\ HeavyHitterList' = HeavyHitterList
        /\ HeavyChangeList' = HeavyChangeList
    BY <1>5 DEF InsertCurrent, SpillBucket, InsertTmp, Counted
  <2>2. CurrentAdded
    BY <1>5, InsertCurrentStep, SpillStep, InsertTmpStep
  <2> QED
    BY <2>1, <2>2, PlacedCurrent DEF PlacedInv, Building, NoChanges
<1>6. CASE Collect
  BY <1>6 DEF Collect, PlacedInv, Building
<1>7. CASE UNCHANGED changeVars
  <2>1. UNCHANGED <<pc, HeavyHitterList, todo, BucketTable, idcList, loca, tmpBucketTable, HeavyChangeList>>
    BY <1>7 DEF changeVars, table
  <2>2. Listed' = Listed /\ Filled' = Filled
    BY <2>1 DEF Listed, Filled, InTable
  <2>3. \A at, x : Holds(at, x)' <=> Holds(at, x)
    BY <2>1 DEF Holds, Entry, Spilled
  <2>4. Placed => Placed'
    BY <2>2, <2>3 DEF Placed, Places
  <2> QED
    BY <2>1, <2>4 DEF PlacedInv, Building, NoChanges
<1> QED
  BY <1>1, <1>2, <1>3, <1>4, <1>5, <1>6, <1>7 DEF NextChange

LEMMA MatchingBack ==
  ASSUME NEW S, NEW T, NEW f, Matching(f, S, T)
  PROVE  \E g : Matching(g, T, S) /\ \A p \in T : f[g[p]] = p
<1>1. PICK g : g = [p \in T |-> CHOOSE x \in S : f[x] = p]
  OBVIOUS
<1>2. \A p \in T : g[p] \in S /\ f[g[p]] = p
  BY <1>1 DEF Matching
<1>3. g \in [T -> S]
  BY <1>1, <1>2
<1>4. \A p, r \in T : g[p] = g[r] => p = r
  BY <1>2
<1>5. ASSUME NEW x \in S PROVE \E p \in T : g[p] = x
  <2>1. f[x] \in T /\ f[g[f[x]]] = f[x]
    BY <1>2 DEF Matching
  <2>2. g[f[x]] = x
    BY <1>2, <2>1 DEF Matching
  <2> QED
    BY <2>1, <2>2
<1> QED
  BY <1>2, <1>3, <1>4, <1>5 DEF Matching

LEMMA MatchingThen ==
  ASSUME NEW S, NEW T, NEW U, NEW f, NEW g, Matching(f, S, T), Matching(g, T, U),
         NEW h, h = [x \in S |-> g[f[x]]]
  PROVE  Matching(h, S, U)
<1>1. \A x \in S : f[x] \in T /\ h[x] = g[f[x]]
  BY DEF Matching
<1>2. h \in [S -> U]
  BY <1>1 DEF Matching
<1>3. \A x, y \in S : h[x] = h[y] => x = y
  BY <1>1 DEF Matching
<1>4. ASSUME NEW u \in U PROVE \E x \in S : h[x] = u
  <2>1. PICK p \in T : g[p] = u
    BY DEF Matching
  <2>2. PICK x \in S : f[x] = p
    BY DEF Matching
  <2> QED
    BY <1>1, <2>1, <2>2
<1> QED
  BY <1>2, <1>3, <1>4 DEF Matching

LEMMA MatchingSize ==
  ASSUME NEW S, NEW T, NEW f, Matching(f, S, T), IsFiniteSet(S)
  PROVE  IsFiniteSet(T) /\ Cardinality(T) = Cardinality(S)
<1>1. f \in Injection(S, T) /\ f \in Surjection(S, T)
  BY DEF Matching, Injection, Surjection, IsInjective
<1> QED
  BY <1>1, FS_Bijection DEF ExistsBijection, Bijection
--------------------------------------------------------------------------------
(* What is collected, and from where.                                        *)

LEMMA BucketLists ==
  ASSUME TableInv, pc = "current", NEW b \in Bucket
  PROVE  /\ Items(Previous(b)) /\ Items(Current(b))
         /\ Len(Previous(b)) = idcList[b].ind1 /\ Len(Current(b)) = idcList[b].ind2 - idcList[b].ind1
         /\ idcList[b].ind1 \in Nat /\ idcList[b].ind2 \in Nat /\ idcList[b].ind1 <= idcList[b].ind2
         /\ \A j \in 1 .. Len(Previous(b)) : Previous(b)[j] = Entry(b, j - 1)
         /\ \A n \in 1 .. Len(Current(b)) : Current(b)[n] = Entry(b, idcList[b].ind1 + n - 1)
<1>1. PICK s, t : s = idcList[b].ind1 /\ t = idcList[b].ind2
  OBVIOUS
<1>2. s \in Nat /\ t \in Nat /\ s <= t
  BY <1>1, TableAssumption DEF TableInv, TableTypeOK
<1>3. \A k \in 0 .. t - 1 : Entry(b, k) \in Item
  BY <1>1 DEF TableInv, SameBucket, Building, InTable
<1>4. PICK P, C : P = [k \in 1 .. s |-> Entry(b, k - 1)] /\ C = [k \in 1 .. t - s |-> Entry(b, s + k - 1)]
  OBVIOUS
<1>5. P \in [1 .. s -> Item] /\ C \in [1 .. t - s -> Item]
  <2>1. \A k \in 1 .. s : k - 1 \in 0 .. t - 1
    BY <1>2
  <2>2. \A k \in 1 .. t - s : s + k - 1 \in 0 .. t - 1
    BY <1>2
  <2> QED
    BY <1>3, <1>4, <2>1, <2>2
<1>6. t - s \in Nat
  BY <1>2
<1>7. P \in Seq(Item) /\ Len(P) = s /\ C \in Seq(Item) /\ Len(C) = t - s
  BY <1>2, <1>5, <1>6
<1>8. Previous(b) = P /\ Current(b) = C
  BY <1>1, <1>4 DEF Previous, Current
<1> QED
  BY <1>1, <1>2, <1>4, <1>7, <1>8 DEF Items

LEMMA BucketDeltasAre ==
  ASSUME TableInv, pc = "current"
  PROVE  /\ BucketDeltas \in [Bucket -> Seq(Item)]
         /\ \A b \in Bucket : /\ Len(BucketDeltas[b]) = idcList[b].ind2
                              /\ DeltaOf(BucketDeltas[b], Previous(b), Current(b))
<1>1. ASSUME NEW b \in Bucket
      PROVE  /\ ODelta(Previous(b), Current(b)) \in Seq(Item)
             /\ Len(ODelta(Previous(b), Current(b))) = idcList[b].ind2
             /\ DeltaOf(ODelta(Previous(b), Current(b)), Previous(b), Current(b))
  <2>1. PICK E : E = ODelta(Previous(b), Current(b))
    OBVIOUS
  <2>2. DeltaOf(E, Previous(b), Current(b))
    BY <2>1, BucketLists, ODeltaIs
  <2>3. Len(E) = idcList[b].ind1 + (idcList[b].ind2 - idcList[b].ind1) /\ E \in Seq(Item)
    BY <2>2, BucketLists DEF DeltaOf
  <2>4. Len(E) = idcList[b].ind2
    BY <2>3, BucketLists
  <2> QED
    BY <2>1, <2>2, <2>3, <2>4
<1>2. \A b \in Bucket : BucketDeltas[b] = ODelta(Previous(b), Current(b))
  BY DEF BucketDeltas
<1>3. BucketDeltas \in [Bucket -> Seq(Item)]
  BY <1>1 DEF BucketDeltas
<1> QED
  BY <1>1, <1>2, <1>3

\* Item o[m] of the lists has become entry m of the collection.
Comes(o, at) ==
  /\ Matching(o, 1 .. Len(Collected), Both)
  /\ \A m \in 1 .. Len(Collected) : Collected[m] = BucketDeltas[at[o[m]][1]][at[o[m]][2] + 1]

LEMMA CollectedFrom ==
  ASSUME TableInv, NEW at, Places(at), pc = "current", todo = {}
  PROVE  Collected \in Seq(Item) /\ Len(Collected) = 2 * NUM_HEAVY /\ \E o : Comes(o, at)
<1>1. Listed = Both
  BY DEF Listed
<1>2. PICK g, C, N : g = BucketDeltas /\ C = Collected /\ N = Len(Collected)
  OBVIOUS
<1>3. JoinsUpTo(C, numBucket, g)
  BY <1>2, BucketDeltasAre, CollectedJoins
<1>4. PICK w : Origins(w, C, Spots(numBucket, g), g)
  BY <1>3 DEF JoinsUpTo
<1>5. C \in Seq(Item) /\ N \in Nat
  BY <1>2, <1>3 DEF JoinsUpTo
<1>6. PICK S, F : S = Spots(numBucket, g) /\ F = Filled
  OBVIOUS
<1>7. Matching(w, 1 .. N, S)
  BY <1>2, <1>4, <1>6 DEF Origins, Matching
<1>8. \A b \in Bucket : Len(g[b]) = InTable(b) /\ InTable(b) \in Nat
  BY <1>2, BucketDeltasAre, BucketLists DEF InTable
<1>9. PICK s : s = [p \in S |-> <<p[1], p[2] - 1>>]
  OBVIOUS
<1>10. \A p \in S : p = <<p[1], p[2]>> /\ p[1] \in Bucket /\ p[2] \in Nat \ {0} /\ p[2] <= InTable(p[1])
  <2> SUFFICES ASSUME NEW p \in S
               PROVE  p = <<p[1], p[2]>> /\ p[1] \in Bucket /\ p[2] \in Nat \ {0} /\ p[2] <= InTable(p[1])
    OBVIOUS
  <2>1. p \in Bucket \X Nat /\ p[2] \in 1 .. Len(g[p[1]])
    BY <1>6 DEF Spots, Bucket
  <2>2. p = <<p[1], p[2]>> /\ p[1] \in Bucket /\ p[2] \in Nat
    BY <2>1
  <2>3. Len(g[p[1]]) = InTable(p[1]) /\ InTable(p[1]) \in Nat
    BY <1>8, <2>2
  <2> QED
    BY <2>1, <2>2, <2>3
<1>11. ASSUME NEW b \in Bucket, NEW k \in Nat, k < InTable(b) PROVE <<b, k + 1>> \in S
  <2>1. k + 1 \in 1 .. Len(g[b]) /\ k + 1 \in Nat
    BY <1>8, <1>11
  <2>2. <<b, k + 1>> \in (0 .. numBucket - 1) \X Nat
    BY <2>1 DEF Bucket
  <2> QED
    BY <1>6, <2>1, <2>2 DEF Spots
<1>12. Matching(s, S, F)
  <2>1. ASSUME NEW p \in S PROVE s[p] \in F /\ s[p][1] = p[1] /\ s[p][2] = p[2] - 1
    <3>1. s[p] = <<p[1], p[2] - 1>>
      BY <1>9
    <3>2. p[1] \in Bucket /\ p[2] \in Nat \ {0} /\ p[2] <= InTable(p[1]) /\ InTable(p[1]) \in Nat
      BY <1>8, <1>10
    <3>3. p[2] - 1 \in Nat /\ p[2] - 1 < InTable(p[1])
      BY <3>2
    <3> QED
      BY <1>6, <3>1, <3>2, <3>3 DEF Filled
  <2>2. s \in [S -> F]
    BY <1>9, <2>1
  <2>3. ASSUME NEW p \in S, NEW r \in S, s[p] = s[r] PROVE p = r
    <3>1. p[1] = r[1] /\ p[2] - 1 = r[2] - 1
      BY <2>1, <2>3
    <3>2. p[2] = r[2]
      BY <1>10, <3>1
    <3> QED
      BY <1>10, <3>1, <3>2
  <2>4. ASSUME NEW r \in F PROVE \E p \in S : s[p] = r
    <3>1. r \in Bucket \X Nat /\ r[2] < InTable(r[1])
      BY <1>6 DEF Filled
    <3>2. PICK b \in Bucket, k \in Nat : r = <<b, k>> /\ k < InTable(b)
      BY <3>1
    <3>3. <<b, k + 1>> \in S
      BY <1>11, <3>2
    <3>4. s[<<b, k + 1>>] = <<b, (k + 1) - 1>>
      BY <1>9, <3>3
    <3>5. (k + 1) - 1 = k
      OBVIOUS
    <3> QED
      BY <3>2, <3>3, <3>4, <3>5
  <2> QED
    BY <2>2, <2>3, <2>4 DEF Matching
<1>13. Matching(at, Both, F)
  BY <1>1, <1>6 DEF Places
<1>14. PICK ta : Matching(ta, F, Both) /\ \A p \in F : at[ta[p]] = p
  BY <1>13, MatchingBack
<1>15. PICK h : h = [m \in 1 .. N |-> s[w[m]]]
  OBVIOUS
<1>16. Matching(h, 1 .. N, F)
  BY <1>7, <1>12, <1>15, MatchingThen
<1>17. PICK o : o = [m \in 1 .. N |-> ta[h[m]]]
  OBVIOUS
<1>18. Matching(o, 1 .. N, Both)
  BY <1>14, <1>16, <1>17, MatchingThen
<1>19. ASSUME NEW m \in 1 .. N PROVE C[m] = g[at[o[m]][1]][at[o[m]][2] + 1]
  <2>1. w[m] \in S /\ C[m] = g[w[m][1]][w[m][2]]
    BY <1>2, <1>4, <1>6 DEF Origins
  <2>2. h[m] = <<w[m][1], w[m][2] - 1>> /\ h[m] \in F
    BY <1>9, <1>15, <1>16, <2>1 DEF Matching
  <2>3. at[o[m]] = h[m]
    BY <1>14, <1>17, <2>2
  <2>4. w[m][2] \in Nat
    BY <1>10, <2>1
  <2>5. (w[m][2] - 1) + 1 = w[m][2]
    BY <2>4
  <2> QED
    BY <2>1, <2>2, <2>3, <2>5
<1>20. N = 2 * NUM_HEAVY
  <2>1. IsFiniteSet(1 .. N) /\ Cardinality(1 .. N) = N
    BY <1>5, FS_Interval
  <2>2. Cardinality(Both) = N
    BY <1>18, <2>1, MatchingSize
  <2>3. Cardinality(Both) = 2 * NUM_HEAVY
    BY HeavyAssumption, FS_Interval DEF Both
  <2> QED
    BY <2>2, <2>3
<1>21. Comes(o, at)
  BY <1>2, <1>18, <1>19 DEF Comes
<1> QED
  BY <1>2, <1>5, <1>20, <1>21
--------------------------------------------------------------------------------
(* What becomes of each item of the lists.                                   *)

\* The lists hold flows and empty items.
Genuine(L) == \A x \in Both : L[x].flowID # DUMMY_FLOW /\ (L[x].flowID = 0 => L[x].size = 0)

\* An item of the other list has the same flow.
Partner(x, y) ==
  ~(x \in Upper <=> y \in Upper) /\ HeavyHitterList[x].flowID = HeavyHitterList[y].flowID

\* v has become of item x: nothing, unless both lists have its flow; then the lower
\* item holds the difference and the upper one is struck out.
Becomes(v, x) ==
  IF HeavyHitterList[x].flowID = 0 THEN v.size = 0
  ELSE /\ (\A y \in Both : ~Partner(x, y)) => v = HeavyHitterList[x]
       /\ \A y \in Both : Partner(x, y) =>
            v = IF x \in Upper THEN dummy ELSE Subtract(HeavyHitterList[x], HeavyHitterList[y])

LEMMA FlowOnce ==
  ASSUME FlowsDiffer, NEW x \in Both, NEW y \in Both, x \in Upper <=> y \in Upper,
         HeavyHitterList[x].flowID = HeavyHitterList[y].flowID, HeavyHitterList[x].flowID # 0
  PROVE  x = y
<1> USE HeavyAssumption
<1>1. CASE x \in Upper
  <2>1. 0 + x = x /\ 0 + y = y /\ 0 \in {0, NUM_HEAVY}
    BY <1>1 DEF Both
  <2> QED
    BY <1>1, <2>1 DEF FlowsDiffer
<1>2. CASE x \notin Upper
  <2>1. PICK k \in Upper, l \in Upper : x = NUM_HEAVY + k /\ y = NUM_HEAVY + l
    <3>1. x - NUM_HEAVY \in Upper /\ y - NUM_HEAVY \in Upper
          /\ x = NUM_HEAVY + (x - NUM_HEAVY) /\ y = NUM_HEAVY + (y - NUM_HEAVY)
      BY <1>2 DEF Both, Upper
    <3> QED
      BY <3>1
  <2>2. NUM_HEAVY + k = NUM_HEAVY + l => k = l
    BY DEF Upper
  <2> QED
    BY <2>1 DEF FlowsDiffer
<1> QED
  BY <1>1, <1>2

\* Two items of one flow are in one bucket.
LEMMA FlowTogether ==
  ASSUME TableInv, pc = "current", todo = {}, NEW at, Places(at), NEW x \in Both, NEW y \in Both,
         HeavyHitterList[x].flowID = HeavyHitterList[y].flowID, HeavyHitterList[x].flowID # 0
  PROVE  at[x][1] = at[y][1]
<1>1. Listed = Both
  BY DEF Listed
<1>2. ASSUME NEW z \in Both PROVE at[z][1] \in BucketsOf(HeavyHitterList[z])
  <2>1. at[z] \in Filled /\ Holds(at, z)
    BY <1>1 DEF Places, Matching
  <2>2. PICK b \in Bucket, k \in Nat : b = at[z][1] /\ k = at[z][2] /\ k < InTable(b)
    BY <2>1 DEF Filled
  <2>3. InTable(b) \in Nat
    BY TableAssumption DEF InTable, TableInv, TableTypeOK
  <2>4. k \in 0 .. InTable(b) - 1
    BY <2>2, <2>3
  <2>5. b \in BucketsOf(Entry(b, k))
    BY <2>4 DEF TableInv, SameBucket, Building
  <2> QED
    BY <2>1, <2>2, <2>5 DEF Holds
<1>3. BucketsOf(HeavyHitterList[x]) = {btHash[HeavyHitterList[x].flowID]}
      /\ BucketsOf(HeavyHitterList[y]) = {btHash[HeavyHitterList[x].flowID]}
  BY DEF BucketsOf
<1> QED
  BY <1>2, <1>3

\* Entry j of the lower items of bucket b, or n of the upper ones, is item y.
LowerAt(at, y, b, j) == y \notin Upper /\ at[y] = <<b, j - 1>> /\ Previous(b)[j] = HeavyHitterList[y]
UpperAt(at, y, b, n) ==
  y \in Upper /\ at[y] = <<b, idcList[b].ind1 + n - 1>> /\ Current(b)[n] = HeavyHitterList[y]

\* The items of the lists among those of a bucket.
LEMMA AmongLower ==
  ASSUME TableInv, pc = "current", todo = {}, NEW at, Places(at), NEW b \in Bucket,
         NEW j \in 1 .. Len(Previous(b))
  PROVE  \E y \in Both : LowerAt(at, y, b, j)
<1>1. Listed = Both /\ InTable(b) = idcList[b].ind2
  BY DEF Listed, InTable
<1>2. /\ j - 1 \in Nat /\ j - 1 < idcList[b].ind1 /\ idcList[b].ind1 <= idcList[b].ind2
      /\ idcList[b].ind1 \in Nat /\ idcList[b].ind2 \in Nat /\ Previous(b)[j] = Entry(b, j - 1)
  BY BucketLists
<1>3. <<b, j - 1>> \in Filled
  BY <1>1, <1>2 DEF Filled
<1>4. PICK y \in Both : at[y] = <<b, j - 1>>
  BY <1>1, <1>3 DEF Places, Matching
<1>5. Entry(b, j - 1) = HeavyHitterList[y] /\ (y \in Upper <=> j - 1 >= idcList[b].ind1)
  BY <1>1, <1>4 DEF Places, Holds
<1>6. y \notin Upper
  BY <1>2, <1>5
<1> QED
  BY <1>2, <1>4, <1>5, <1>6 DEF LowerAt

LEMMA AmongUpper ==
  ASSUME TableInv, pc = "current", todo = {}, NEW at, Places(at), NEW b \in Bucket,
         NEW n \in 1 .. Len(Current(b))
  PROVE  \E y \in Both : UpperAt(at, y, b, n)
<1>1. Listed = Both /\ InTable(b) = idcList[b].ind2
  BY DEF Listed, InTable
<1>2. PICK k : k = idcList[b].ind1 + n - 1
  OBVIOUS
<1>3. /\ k \in Nat /\ k >= idcList[b].ind1 /\ k < idcList[b].ind2 /\ Current(b)[n] = Entry(b, k)
  <2>1. /\ idcList[b].ind1 \in Nat /\ idcList[b].ind2 \in Nat
        /\ n \in 1 .. idcList[b].ind2 - idcList[b].ind1
        /\ Current(b)[n] = Entry(b, idcList[b].ind1 + n - 1)
    BY BucketLists
  <2> QED
    BY <1>2, <2>1
<1>4. <<b, k>> \in Filled
  BY <1>1, <1>3 DEF Filled
<1>5. PICK y \in Both : at[y] = <<b, k>>
  BY <1>1, <1>4 DEF Places, Matching
<1>6. Entry(b, k) = HeavyHitterList[y] /\ (y \in Upper <=> k >= idcList[b].ind1)
  BY <1>1, <1>5 DEF Places, Holds
<1> QED
  BY <1>2, <1>3, <1>5, <1>6 DEF UpperAt

\* And the place of an item among those of its bucket.
LEMMA LowerPlace ==
  ASSUME TableInv, pc = "current", todo = {}, NEW at, Places(at), NEW x \in Both, x \notin Upper,
         NEW b, b = at[x][1]
  PROVE  /\ b \in Bucket
         /\ \E j \in 1 .. Len(Previous(b)) : at[x] = <<b, j - 1>> /\ Previous(b)[j] = HeavyHitterList[x]
<1>1. Listed = Both
  BY DEF Listed
<1>2. at[x] \in Filled /\ Holds(at, x)
  BY <1>1 DEF Places, Matching
<1>3. PICK k : k = at[x][2]
  OBVIOUS
<1>4. b \in Bucket /\ k \in Nat /\ at[x] = <<b, k>>
  BY <1>2, <1>3 DEF Filled
<1>5. Entry(b, k) = HeavyHitterList[x] /\ ~(k >= idcList[b].ind1)
  BY <1>2, <1>3 DEF Holds
<1>6. k + 1 \in 1 .. Len(Previous(b)) /\ (k + 1) - 1 = k
  <2>1. Len(Previous(b)) = idcList[b].ind1 /\ idcList[b].ind1 \in Nat
    BY <1>4, BucketLists
  <2> QED
    BY <1>4, <1>5, <2>1
<1>7. Previous(b)[k + 1] = Entry(b, (k + 1) - 1)
  BY <1>4, <1>6, BucketLists
<1> QED
  BY <1>4, <1>5, <1>6, <1>7

LEMMA UpperPlace ==
  ASSUME TableInv, pc = "current", todo = {}, NEW at, Places(at), NEW x \in Both, x \in Upper,
         NEW b, b = at[x][1]
  PROVE  /\ b \in Bucket
         /\ \E n \in 1 .. Len(Current(b)) : /\ at[x] = <<b, idcList[b].ind1 + n - 1>>
                                            /\ Current(b)[n] = HeavyHitterList[x]
<1>1. Listed = Both
  BY DEF Listed
<1>2. at[x] \in Filled /\ Holds(at, x)
  BY <1>1 DEF Places, Matching
<1>3. PICK k : k = at[x][2]
  OBVIOUS
<1>4. b \in Bucket /\ k \in Nat /\ at[x] = <<b, k>> /\ k < idcList[b].ind2
  BY <1>2, <1>3 DEF Filled, InTable
<1>5. Entry(b, k) = HeavyHitterList[x] /\ k >= idcList[b].ind1
  BY <1>2, <1>3 DEF Holds
<1>6. PICK n : n = k - idcList[b].ind1 + 1
  OBVIOUS
<1>7. n \in 1 .. Len(Current(b)) /\ idcList[b].ind1 + n - 1 = k
  <2>1. /\ Len(Current(b)) = idcList[b].ind2 - idcList[b].ind1
        /\ idcList[b].ind1 \in Nat /\ idcList[b].ind2 \in Nat
    BY <1>4, BucketLists
  <2>2. PICK s, t : s = idcList[b].ind1 /\ t = idcList[b].ind2
    OBVIOUS
  <2>3. s \in Nat /\ t \in Nat /\ k \in Nat /\ k >= s /\ k < t /\ n = k - s + 1
    BY <1>4, <1>5, <1>6, <2>1, <2>2
  <2>4. n \in 1 .. t - s /\ s + n - 1 = k
    BY <2>3
  <2> QED
    BY <2>1, <2>2, <2>4
<1>8. Current(b)[n] = Entry(b, k)
  BY <1>4, <1>7, BucketLists
<1> QED
  BY <1>4, <1>5, <1>7, <1>8

LEMMA LowerBecomes ==
  ASSUME TableInv, pc = "current", todo = {}, NEW at, Places(at), FlowsDiffer, Genuine(HeavyHitterList),
         NEW x \in Both, x \notin Upper
  PROVE  Becomes(BucketDeltas[at[x][1]][at[x][2] + 1], x)
<1>1. PICK b : b = at[x][1]
  OBVIOUS
<1>2. /\ b \in Bucket
      /\ \E j \in 1 .. Len(Previous(b)) : at[x] = <<b, j - 1>> /\ Previous(b)[j] = HeavyHitterList[x]
  BY <1>1, LowerPlace
<1>3. PICK j \in 1 .. Len(Previous(b)) : at[x] = <<b, j - 1>> /\ Previous(b)[j] = HeavyHitterList[x]
  BY <1>2
<1>4. PICK L1, L2, E, v, h : /\ L1 = Previous(b) /\ L2 = Current(b) /\ E = BucketDeltas[b]
                             /\ v = E[j] /\ h = HeavyHitterList[x]
  OBVIOUS
<1>5. j \in Nat /\ at[x][2] + 1 = j
  <2>1. Len(Previous(b)) \in Nat
    BY <1>2, BucketLists
  <2> QED
    BY <1>3, <2>1
<1>6. DeltaOf(E, L1, L2)
  BY <1>2, <1>4, BucketDeltasAre
<1>7. ASSUME NEW n \in 1 .. Len(L2)
      PROVE  \E y \in Both : y \in Upper /\ at[y] = <<b, idcList[b].ind1 + n - 1>> /\ L2[n] = HeavyHitterList[y]
  <2>1. n \in 1 .. Len(Current(b))
    BY <1>4, <1>7
  <2>2. \E y \in Both : UpperAt(at, y, b, n)
    BY <1>2, <2>1, AmongUpper
  <2> QED
    BY <1>4, <2>2, Zenon DEF UpperAt
<1>8. NoDummies(L2)
  BY <1>7 DEF NoDummies, Genuine
<1>9. Reduced(v, h, L2)
  BY <1>3, <1>4, <1>6, <1>8 DEF DeltaOf
<1>10. CASE h.flowID = 0
  <2>1. h.size = 0 /\ \A n \in 1 .. Len(L2) : L2[n].flowID = 0 => L2[n].size = 0
    BY <1>4, <1>7, <1>10 DEF Genuine
  <2>2. v.size = 0
    BY <1>9, <1>10, <2>1 DEF Reduced
  <2> QED
    BY <1>1, <1>4, <1>5, <1>10, <2>2 DEF Becomes
<1>11. CASE h.flowID # 0
  <2>1. ASSUME \A y \in Both : ~Partner(x, y) PROVE v = h
    <3>1. \A n \in 1 .. Len(L2) : L2[n].flowID # h.flowID
      BY <1>4, <1>7, <2>1 DEF Partner
    <3> QED
      BY <1>9, <3>1 DEF Reduced
  <2>2. ASSUME NEW y \in Both, Partner(x, y) PROVE v = Subtract(h, HeavyHitterList[y])
    <3>1. y \in Upper /\ HeavyHitterList[y].flowID = h.flowID
      BY <1>4, <2>2 DEF Partner
    <3>2. at[y][1] = b
      BY <1>1, <1>4, <1>11, <3>1, FlowTogether
    <3>3. PICK n \in 1 .. Len(L2) : at[y] = <<b, idcList[b].ind1 + n - 1>> /\ L2[n] = HeavyHitterList[y]
      <4>1. \E n \in 1 .. Len(Current(b)) : /\ at[y] = <<b, idcList[b].ind1 + n - 1>>
                                            /\ Current(b)[n] = HeavyHitterList[y]
        BY <3>1, <3>2, UpperPlace
      <4> QED
        BY <1>4, <4>1
    <3>4. ASSUME NEW m \in 1 .. Len(L2) \ {n} PROVE L2[m].flowID # h.flowID
      <4>1. PICK z \in Both : z \in Upper /\ at[z] = <<b, idcList[b].ind1 + m - 1>> /\ L2[m] = HeavyHitterList[z]
        BY <1>7
      <4>2. SUFFICES ASSUME L2[m].flowID = h.flowID PROVE FALSE
        OBVIOUS
      <4>3. z = y
        BY <1>11, <3>1, <4>1, <4>2, FlowOnce
      <4>4. idcList[b].ind1 + m - 1 = idcList[b].ind1 + n - 1
        BY <3>3, <4>1, <4>3
      <4>5. idcList[b].ind1 \in Nat /\ Len(L2) \in Nat
        BY <1>2, <1>4, BucketLists
      <4>6. m = n
        BY <4>4, <4>5
      <4> QED
        BY <4>6
    <3>5. v = Subtract(h, L2[n])
      BY <1>9, <3>1, <3>3, <3>4 DEF Reduced
    <3> QED
      BY <3>3, <3>5
  <2> QED
    BY <1>1, <1>4, <1>5, <1>11, <2>1, <2>2 DEF Becomes
<1> QED
  BY <1>10, <1>11

LEMMA UpperBecomes ==
  ASSUME TableInv, pc = "current", todo = {}, NEW at, Places(at), FlowsDiffer, Genuine(HeavyHitterList),
         NEW x \in Both, x \in Upper
  PROVE  Becomes(BucketDeltas[at[x][1]][at[x][2] + 1], x)
<1>1. PICK b : b = at[x][1]
  OBVIOUS
<1>2. /\ b \in Bucket
      /\ \E n \in 1 .. Len(Current(b)) : /\ at[x] = <<b, idcList[b].ind1 + n - 1>>
                                         /\ Current(b)[n] = HeavyHitterList[x]
  BY <1>1, UpperPlace
<1>3. PICK n \in 1 .. Len(Current(b)) : /\ at[x] = <<b, idcList[b].ind1 + n - 1>>
                                        /\ Current(b)[n] = HeavyHitterList[x]
  BY <1>2
<1>4. PICK L1, L2, E, s, v, h : /\ L1 = Previous(b) /\ L2 = Current(b) /\ E = BucketDeltas[b]
                                /\ s = idcList[b].ind1 /\ v = E[s + n] /\ h = HeavyHitterList[x]
  OBVIOUS
<1>5. s \in Nat /\ Len(L1) = s /\ Len(L2) \in Nat
  BY <1>2, <1>4, BucketLists
<1>6. n \in Nat /\ at[x][2] + 1 = s + n
  BY <1>3, <1>4, <1>5
<1>7. DeltaOf(E, L1, L2)
  BY <1>2, <1>4, BucketDeltasAre
<1>8. ASSUME NEW m \in 1 .. Len(L2)
      PROVE  \E y \in Both : y \in Upper /\ at[y] = <<b, s + m - 1>> /\ L2[m] = HeavyHitterList[y]
  <2>1. m \in 1 .. Len(Current(b))
    BY <1>4, <1>8
  <2>2. \E y \in Both : UpperAt(at, y, b, m)
    BY <1>2, <2>1, AmongUpper
  <2> QED
    BY <1>4, <2>2, Zenon DEF UpperAt
<1>9. NoDummies(L2)
  BY <1>8 DEF NoDummies, Genuine
<1>10. Struck(v, L1, L2, n) /\ L2[n] = h
  BY <1>3, <1>4, <1>5, <1>7, <1>9 DEF DeltaOf
<1>11. CASE h.flowID = 0
  <2>1. h.size = 0 /\ dummy.size = 0
    BY <1>4, <1>11 DEF Genuine, dummy
  <2>2. v.size = 0
    BY <1>10, <2>1 DEF Struck
  <2> QED
    BY <1>1, <1>4, <1>6, <1>11, <2>2 DEF Becomes
<1>12. CASE h.flowID # 0
  <2>1. ASSUME \A y \in Both : ~Partner(x, y) PROVE v = h
    <3>1. \A j \in 1 .. Len(L1) : \E y \in Both :
            y \notin Upper /\ at[y] = <<b, j - 1>> /\ L1[j] = HeavyHitterList[y]
      <4> SUFFICES ASSUME NEW j \in 1 .. Len(L1)
                   PROVE  \E y \in Both : y \notin Upper /\ at[y] = <<b, j - 1>> /\ L1[j] = HeavyHitterList[y]
        OBVIOUS
      <4>1. j \in 1 .. Len(Previous(b))
        BY <1>4
      <4>2. \E y \in Both : LowerAt(at, y, b, j)
        BY <1>2, <4>1, AmongLower
      <4> QED
        BY <1>4, <4>2, Zenon DEF LowerAt
    <3>2. \A j \in 1 .. Len(L1) : L1[j].flowID # L2[n].flowID
      BY <1>4, <1>10, <2>1, <3>1 DEF Partner
    <3> QED
      BY <1>10, <3>2 DEF Struck
  <2>2. ASSUME NEW y \in Both, Partner(x, y) PROVE v = dummy
    <3>1. y \notin Upper /\ HeavyHitterList[y].flowID = h.flowID
      BY <1>4, <2>2 DEF Partner
    <3>2. at[y][1] = b
      BY <1>1, <1>4, <1>12, <3>1, FlowTogether
    <3>3. \E j \in 1 .. Len(L1) : L1[j].flowID = L2[n].flowID
      <4>1. \E j \in 1 .. Len(Previous(b)) : at[y] = <<b, j - 1>> /\ Previous(b)[j] = HeavyHitterList[y]
        BY <3>1, <3>2, LowerPlace
      <4> QED
        BY <1>4, <1>10, <3>1, <4>1
    <3>4. ASSUME NEW m \in 1 .. n - 1 PROVE L2[m].flowID # L2[n].flowID
      <4>1. m \in 1 .. Len(L2) /\ m # n /\ m \in Nat
        BY <1>4, <1>5
      <4>2. PICK z \in Both : z \in Upper /\ at[z] = <<b, s + m - 1>> /\ L2[m] = HeavyHitterList[z]
        BY <1>8, <4>1
      <4>3. SUFFICES ASSUME L2[m].flowID = L2[n].flowID PROVE FALSE
        OBVIOUS
      <4>4. z = x
        BY <1>4, <1>10, <1>12, <4>2, <4>3, FlowOnce
      <4>5. s + m - 1 = s + n - 1
        BY <1>3, <1>4, <4>2, <4>4
      <4> QED
        BY <1>5, <1>6, <4>1, <4>5
    <3> QED
      BY <1>10, <3>3, <3>4 DEF Struck
  <2> QED
    BY <1>1, <1>4, <1>6, <1>12, <2>1, <2>2 DEF Becomes
<1> QED
  BY <1>11, <1>12
--------------------------------------------------------------------------------
(* The list of changes.                                                      *)

\* The two sorts that a function chooses between.
LEMMA SortedDESCIs ==
  ASSUME NEW L \in [Both -> Item]
  PROVE  /\ SortedDESC(L, 2 * NUM_HEAVY) \in [Both -> Item]
         /\ Shuffles(L, SortedDESC(L, 2 * NUM_HEAVY), Both)
         /\ Descending(SortedDESC(L, 2 * NUM_HEAVY), 2 * NUM_HEAVY)
<1> USE HeavyAssumption
<1>1. PICK n, z, net, E : /\ n = 2 * NUM_HEAVY /\ z = 0 /\ net = Sorter(z, n)
                          /\ E = Applied(net, L, "size", FALSE)
  OBVIOUS
<1>2. n \in Nat \ {0} /\ z \in Nat /\ Both = 0 .. n - 1 /\ Both \in SUBSET Nat
  BY <1>1 DEF Both
<1>3. Piece(z, n) \subseteq Both
  BY <1>1, <1>2 DEF Piece
<1>4. net \in Seq(Within(z, n)) /\ SortedBy(net, z, n, TRUE)
  BY <1>1, <1>2, SorterSorts
<1>5. Works(net, Both)
  BY <1>2, <1>3, <1>4, WithinWorks
<1>6. Item # {} /\ Keyed(Item, "size") /\ FALSE \in BOOLEAN
  <2>1. [flowID |-> 0, size |-> 0] \in Item
    BY DEF Item
  <2>2. \A x \in Item : x["size"] \in Int
    BY DEF Item
  <2> QED
    BY <2>1, <2>2 DEF Keyed
<1>7. Sorts(net, L, Both, Item, "size", FALSE)
  BY <1>5, <1>6 DEF Sorts
<1>8. E \in [Both -> Item] /\ Shuffles(L, E, Both)
  BY <1>1, <1>7, AppliedShuffles
<1>9. InOrder(Applied(net, L, "size", FALSE), z, n, "size", FALSE)
  BY <1>2, <1>3, <1>4, <1>7, SortedArray
<1>10. Descending(E, n)
  <2>1. \A k \in 0 .. n - 2 : k \in Both /\ k + 1 \in Both /\ z + k = k /\ z + (k + 1) = k + 1
    BY <1>1, <1>2
  <2>2. \A k \in 0 .. n - 2 : E[k].size \in Int /\ E[k + 1].size \in Int
    BY <1>8, <2>1 DEF Item
  <2>3. \A k \in 0 .. n - 2 : Key(E[k]["size"], FALSE) <= Key(E[k + 1]["size"], FALSE)
    BY <1>1, <1>9, <2>1 DEF InOrder
  <2> QED
    BY <2>2, <2>3 DEF Descending, Key
<1>11. SortedDESC(L, n) = E
  BY <1>1 DEF SortedDESC, Sorter
<1> QED
  BY <1>1, <1>8, <1>10, <1>11

\* Item q[k] of the lists has become change k.
Becoming(q, L) == Matching(q, Both, Both) /\ \A k \in Both : Becomes(L[k], q[k])

LEMMA CollectIs ==
  ASSUME TableInv, Placed, Collect
  PROVE  /\ HeavyChangeList' \in [Both -> Item] /\ Descending(HeavyChangeList', 2 * NUM_HEAVY)
         /\ FlowsDiffer /\ Genuine(HeavyHitterList) => \E q : Becoming(q, HeavyChangeList')
<1> USE HeavyAssumption
<1>1. /\ pc = "current" /\ todo = {}
      /\ HeavyChangeList' = SortedDESC([k \in Both |-> Collected[k + 1]], 2 * NUM_HEAVY)
  BY DEF Collect
<1>2. PICK at : Places(at)
  BY DEF Placed
<1>3. Collected \in Seq(Item) /\ Len(Collected) = 2 * NUM_HEAVY /\ \E o : Comes(o, at)
  BY <1>1, <1>2, CollectedFrom
<1>4. PICK o : Comes(o, at)
  BY <1>3
<1>5. PICK C, L, E, N : /\ C = Collected /\ L = [k \in Both |-> Collected[k + 1]] /\ E = HeavyChangeList'
                        /\ N = 2 * NUM_HEAVY
  OBVIOUS
<1>6. N \in Nat /\ Both = 0 .. N - 1 /\ \A k \in Both : k + 1 \in 1 .. N
  BY <1>5 DEF Both
<1>7. L \in [Both -> Item]
  BY <1>3, <1>5, <1>6
<1>8. E \in [Both -> Item] /\ Shuffles(L, E, Both) /\ Descending(E, 2 * NUM_HEAVY)
  BY <1>1, <1>5, <1>7, SortedDESCIs
<1>9. ASSUME FlowsDiffer, Genuine(HeavyHitterList) PROVE \E q : Becoming(q, E)
  <2>1. PICK p \in [Both -> Both] : /\ \A k \in Both : E[k] = L[p[k]]
                                    /\ \A k, l \in Both : p[k] = p[l] => k = l
    BY <1>8 DEF Shuffles
  <2>2. IsFiniteSet(Both)
    BY <1>6, FS_Interval
  <2>3. Matching(p, Both, Both)
    <3>1. \A x \in Both : \E k \in Both : p[k] = x
      BY <2>1, <2>2, OneToOne
    <3> QED
      BY <2>1, <3>1 DEF Matching
  <2>4. PICK s : s = [k \in Both |-> k + 1]
    OBVIOUS
  <2>5. Matching(s, Both, 1 .. N)
    <3>1. s \in [Both -> 1 .. N]
      BY <1>6, <2>4
    <3>2. \A k, l \in Both : s[k] = s[l] => k = l
      BY <1>6, <2>4
    <3>3. ASSUME NEW m \in 1 .. N PROVE \E k \in Both : s[k] = m
      <4>1. m - 1 \in Both /\ (m - 1) + 1 = m
        BY <1>6
      <4> QED
        BY <2>4, <4>1
    <3> QED
      BY <3>1, <3>2, <3>3 DEF Matching
  <2>6. Matching(o, 1 .. N, Both)
    BY <1>3, <1>4, <1>5 DEF Comes
  <2>7. PICK r : r = [k \in Both |-> s[p[k]]]
    OBVIOUS
  <2>8. Matching(r, Both, 1 .. N)
    BY <2>3, <2>5, <2>7, MatchingThen
  <2>9. PICK q : q = [k \in Both |-> o[r[k]]]
    OBVIOUS
  <2>10. Matching(q, Both, Both)
    BY <2>6, <2>8, <2>9, MatchingThen
  <2>11. ASSUME NEW k \in Both PROVE Becomes(E[k], q[k])
    <3>1. r[k] \in 1 .. N /\ r[k] = p[k] + 1 /\ p[k] \in Both /\ q[k] = o[r[k]] /\ q[k] \in Both
      <4>1. p[k] \in Both /\ r[k] = s[p[k]] /\ q[k] = o[r[k]]
        BY <2>1, <2>7, <2>9
      <4>2. s[p[k]] = p[k] + 1
        BY <2>4, <4>1
      <4>3. r[k] \in 1 .. N /\ q[k] \in Both
        BY <2>8, <2>10 DEF Matching
      <4> QED
        BY <4>1, <4>2, <4>3
    <3>2. E[k] = C[r[k]]
      BY <1>5, <2>1, <3>1
    <3>3. C[r[k]] = BucketDeltas[at[q[k]][1]][at[q[k]][2] + 1]
      BY <1>3, <1>4, <1>5, <3>1 DEF Comes
    <3>4. Becomes(BucketDeltas[at[q[k]][1]][at[q[k]][2] + 1], q[k])
      <4>1. CASE q[k] \in Upper
        BY <1>1, <1>2, <1>9, <3>1, <4>1, UpperBecomes
      <4>2. CASE q[k] \notin Upper
        BY <1>1, <1>2, <1>9, <3>1, <4>2, LowerBecomes
      <4> QED
        BY <4>1, <4>2
    <3> QED
      BY <3>2, <3>3, <3>4
  <2> QED
    BY <2>10, <2>11 DEF Becoming
<1> QED
  BY <1>5, <1>8, <1>9

\* In a list that descends, the sizes above 0 come first.
LEMMA PositivesFirst ==
  ASSUME NEW L \in [Both -> Item], Descending(L, 2 * NUM_HEAVY),
         NEW n, n = Cardinality({k \in Both : L[k].size > 0})
  PROVE  n \in 0 .. 2 * NUM_HEAVY /\ {k \in Both : L[k].size > 0} = 0 .. n - 1
<1> USE HeavyAssumption
<1>1. PICK N, P : N = 2 * NUM_HEAVY /\ P = {k \in Both : L[k].size > 0}
  OBVIOUS
<1>2. N \in Nat /\ Both = 0 .. N - 1 /\ Both \in SUBSET Nat
  BY <1>1 DEF Both
<1>3. \A k \in Both : L[k].size \in Nat
  BY DEF Item
<1>4. ASSUME NEW k \in Both, NEW l \in Both, k <= l, l \in P PROVE k \in P
  <2> DEFINE T == {j \in 0 .. l : l - j \in P}
  <2>1. l \in Nat /\ k \in Nat
    BY <1>2
  <2>2. 0 \in T
    BY <1>4, <2>1
  <2>3. ASSUME NEW j \in 1 .. l, j - 1 \in T PROVE j \in T
    <3>1. PICK i : i = l - j
      OBVIOUS
    <3>2. i \in 0 .. N - 2 /\ i \in Both /\ i + 1 \in Both /\ l - (j - 1) = i + 1
      BY <1>2, <2>1, <3>1
    <3>3. i + 1 \in P
      BY <2>3, <3>2
    <3>4. L[i].size >= L[i + 1].size /\ L[i].size \in Nat /\ L[i + 1].size \in Nat /\ L[i + 1].size > 0
      BY <1>1, <1>3, <3>2, <3>3 DEF Descending
    <3>5. i \in P
      BY <1>1, <3>2, <3>4
    <3>6. j \in 0 .. l
      BY <2>1
    <3> QED
      BY <3>1, <3>5, <3>6
  <2>4. 0 .. l \subseteq T
    <3> HIDE DEF T
    <3> QED
      BY <2>1, <2>2, <2>3, LoopKeeps
  <2>5. l - k \in 0 .. l /\ l - (l - k) = k
    BY <1>4, <2>1
  <2> QED
    BY <2>4, <2>5
<1>5. PICK G : G = {j \in 0 .. N : 0 .. j - 1 \subseteq P}
  OBVIOUS
<1>6. \E a \in G : \A j \in G : j <= a
  <2>1. 0 \in G
    BY <1>2, <1>5
  <2>2. G \in SUBSET Nat /\ \A j \in G : j <= N
    BY <1>2, <1>5
  <2> QED
    BY <1>2, <2>1, <2>2, GreatestNat
<1>7. PICK a \in G : \A j \in G : j <= a
  BY <1>6
<1>8. a \in 0 .. N /\ 0 .. a - 1 \subseteq P
  BY <1>5
<1>9. P \subseteq 0 .. a - 1
  <2> SUFFICES ASSUME NEW l \in P, l \notin 0 .. a - 1 PROVE FALSE
    OBVIOUS
  <2>1. l \in Both /\ l \in Nat /\ l >= a /\ l <= N - 1
    BY <1>1, <1>2, <1>8
  <2>2. 0 .. l \subseteq P
    BY <1>2, <1>4, <2>1
  <2>3. l + 1 \in 0 .. N /\ (l + 1) - 1 = l
    BY <1>2, <2>1
  <2>4. l + 1 \in G
    BY <1>5, <2>2, <2>3
  <2> QED
    BY <1>7, <1>8, <2>1, <2>4
<1>10. P = 0 .. a - 1
  BY <1>8, <1>9
<1>11. Cardinality(0 .. a - 1) = a
  BY <1>8, FS_Interval
<1> QED
  BY <1>1, <1>8, <1>10, <1>11
--------------------------------------------------------------------------------
(* What the plain version computes, and that it is the same.                 *)

At(map, f)    == IF f \in DOMAIN map THEN map[f] ELSE 0
SizeBefore(f) == At(get_stat_map(NUM_HEAVY), f)
SizeAfter(f)  == At(get_stat_map(0), f)
DifferOf(f)   == IF SizeBefore(f) > SizeAfter(f) THEN SizeBefore(f) - SizeAfter(f) ELSE SizeAfter(f) - SizeBefore(f)
ChangeOf(f)   == [flowID |-> f, size |-> DifferOf(f)]
InLists       == {HeavyHitterList[x].flowID : x \in Both}

LEMMA MapAt ==
  ASSUME HeavyHitterList \in [Both -> Item], FlowsDiffer, Genuine(HeavyHitterList),
         NEW from \in {0, NUM_HEAVY}, NEW k \in Upper, NEW f, f = HeavyHitterList[from + k].flowID
  PROVE  At(get_stat_map(from), f) = HeavyHitterList[from + k].size
<1> USE HeavyAssumption
<1>1. PICK K : K = {l \in Upper : HeavyHitterList[from + l].flowID = f}
  OBVIOUS
<1>2. K \in SUBSET Nat /\ k \in K /\ \A l \in K : l <= NUM_HEAVY
  BY <1>1 DEF Upper
<1>3. \E a \in K : \A l \in K : l <= a
  BY <1>2, GreatestNat
<1>4. \E a \in Upper : /\ HeavyHitterList[from + a].flowID = f
                       /\ \A l \in Upper : HeavyHitterList[from + l].flowID = f => l <= a
  BY <1>1, <1>3
<1>5. PICK a : a = CHOOSE b \in Upper :
                     /\ HeavyHitterList[from + b].flowID = f
                     /\ \A l \in Upper : HeavyHitterList[from + l].flowID = f => l <= b
  OBVIOUS
<1>6. a \in Upper /\ HeavyHitterList[from + a].flowID = f
  BY <1>4, <1>5
<1>7. HeavyHitterList[from + a].size = HeavyHitterList[from + k].size
  <2>1. CASE f = 0
    <3>1. from + a \in Both /\ from + k \in Both
      BY <1>6 DEF Upper, Both
    <3> QED
      BY <1>6, <2>1, <3>1 DEF Genuine
  <2>2. CASE f # 0
    <3>1. a = k
      BY <1>6, <2>2 DEF FlowsDiffer
    <3> QED
      BY <3>1
  <2> QED
    BY <2>1, <2>2
<1>8. f \in {HeavyHitterList[from + l].flowID : l \in Upper}
  OBVIOUS
<1>9. get_stat_map(from)[f] = HeavyHitterList[from + a].size /\ f \in DOMAIN get_stat_map(from)
  BY <1>5, <1>8 DEF get_stat_map
<1> QED
  BY <1>7, <1>9 DEF At

LEMMA MapNot ==
  ASSUME NEW from, NEW f, \A k \in Upper : HeavyHitterList[from + k].flowID # f
  PROVE  At(get_stat_map(from), f) = 0
BY DEF get_stat_map, At

\* In the words of the lists.
LEMMA SizesOf ==
  ASSUME HeavyHitterList \in [Both -> Item], FlowsDiffer, Genuine(HeavyHitterList), NEW f
  PROVE  /\ \A y \in Both : HeavyHitterList[y].flowID = f =>
              IF y \in Upper THEN SizeAfter(f) = HeavyHitterList[y].size ELSE SizeBefore(f) = HeavyHitterList[y].size
         /\ (\A y \in Both : HeavyHitterList[y].flowID = f => y \in Upper) => SizeBefore(f) = 0
         /\ (\A y \in Both : HeavyHitterList[y].flowID = f => y \notin Upper) => SizeAfter(f) = 0
<1> USE HeavyAssumption
<1>1. ASSUME NEW y \in Both, HeavyHitterList[y].flowID = f, y \in Upper
      PROVE  SizeAfter(f) = HeavyHitterList[y].size
  <2>1. PICK z : z = 0
    OBVIOUS
  <2>2. z + y = y /\ z \in {0, NUM_HEAVY}
    BY <1>1, <2>1 DEF Upper
  <2>3. f = HeavyHitterList[z + y].flowID
    BY <1>1, <2>2
  <2>4. At(get_stat_map(z), f) = HeavyHitterList[z + y].size
    BY <1>1, <2>2, <2>3, MapAt
  <2> QED
    BY <2>1, <2>2, <2>4 DEF SizeAfter
<1>2. ASSUME NEW y \in Both, HeavyHitterList[y].flowID = f, y \notin Upper
      PROVE  SizeBefore(f) = HeavyHitterList[y].size
  <2>1. PICK k \in Upper : y = NUM_HEAVY + k
    <3>1. y - NUM_HEAVY \in Upper /\ y = NUM_HEAVY + (y - NUM_HEAVY)
      BY <1>2 DEF Both, Upper
    <3> QED
      BY <3>1
  <2>2. NUM_HEAVY \in {0, NUM_HEAVY} /\ f = HeavyHitterList[NUM_HEAVY + k].flowID
    BY <1>2, <2>1
  <2>3. At(get_stat_map(NUM_HEAVY), f) = HeavyHitterList[NUM_HEAVY + k].size
    BY <2>2, MapAt
  <2> QED
    BY <2>1, <2>3 DEF SizeBefore
<1>3. ASSUME \A y \in Both : HeavyHitterList[y].flowID = f => y \in Upper PROVE SizeBefore(f) = 0
  <2>1. \A k \in Upper : NUM_HEAVY + k \in Both /\ NUM_HEAVY + k \notin Upper
    BY DEF Both, Upper
  <2>2. \A k \in Upper : HeavyHitterList[NUM_HEAVY + k].flowID # f
    BY <1>3, <2>1
  <2> QED
    BY <2>2, MapNot DEF SizeBefore
<1>4. ASSUME \A y \in Both : HeavyHitterList[y].flowID = f => y \notin Upper PROVE SizeAfter(f) = 0
  <2>1. \A k \in Upper : k \in Both /\ 0 + k = k
    BY DEF Both, Upper
  <2>2. \A k \in Upper : HeavyHitterList[0 + k].flowID # f
    BY <1>4, <2>1
  <2> QED
    BY <2>2, MapNot DEF SizeAfter
<1> QED
  BY <1>1, <1>2, <1>3, <1>4

\* An item that can become a change: of the two of one flow it is the lower one.
Effective(x) == HeavyHitterList[x].flowID # 0 /\ ~(x \in Upper /\ \E y \in Both : Partner(x, y))

LEMMA EffectiveOnce ==
  ASSUME FlowsDiffer, NEW x \in Both, NEW y \in Both, Effective(x), Effective(y),
         HeavyHitterList[x].flowID = HeavyHitterList[y].flowID
  PROVE  x = y
<1>1. CASE x \in Upper <=> y \in Upper
  BY <1>1, FlowOnce DEF Effective
<1>2. CASE ~(x \in Upper <=> y \in Upper)
  BY <1>2 DEF Effective, Partner
<1> QED
  BY <1>1, <1>2

LEMMA EffectiveSome ==
  ASSUME NEW f \in InLists, f # 0
  PROVE  \E x \in Both : Effective(x) /\ HeavyHitterList[x].flowID = f
<1>1. CASE \E x \in Both : x \notin Upper /\ HeavyHitterList[x].flowID = f
  BY <1>1 DEF Effective
<1>2. CASE \A x \in Both : HeavyHitterList[x].flowID = f => x \in Upper
  <2>1. PICK x \in Both : HeavyHitterList[x].flowID = f
    BY DEF InLists
  <2> QED
    BY <1>2, <2>1 DEF Effective, Partner
<1> QED
  BY <1>1, <1>2

LEMMA BecomesChange ==
  ASSUME HeavyHitterList \in [Both -> Item], FlowsDiffer, Genuine(HeavyHitterList),
         NEW x \in Both, NEW v, Becomes(v, x), NEW f, f = HeavyHitterList[x].flowID
  PROVE  /\ ~Effective(x) => v.size = 0
         /\ Effective(x) => DifferOf(f) \in Nat /\ IF DifferOf(f) = 0 THEN v.size = 0 ELSE v = ChangeOf(f)
<1>1. dummy.size = 0
  BY DEF dummy
<1>2. ASSUME ~Effective(x) PROVE v.size = 0
  BY <1>1, <1>2 DEF Effective, Becomes
<1>3. ASSUME Effective(x)
      PROVE  DifferOf(f) \in Nat /\ IF DifferOf(f) = 0 THEN v.size = 0 ELSE v = ChangeOf(f)
  <2>1. PICK h : h = HeavyHitterList[x]
    OBVIOUS
  <2>2. h \in Item /\ h = [flowID |-> f, size |-> h.size] /\ h.size \in Nat /\ f # 0
    BY <1>3, <2>1 DEF Item, Effective
  <2>3. CASE \A y \in Both : ~Partner(x, y)
    <3>1. v = h
      BY <1>3, <2>1, <2>3 DEF Becomes, Effective
    <3>2. \A y \in Both : HeavyHitterList[y].flowID = f => (y \in Upper <=> x \in Upper)
      BY <2>3 DEF Partner
    <3>3. IF x \in Upper THEN SizeBefore(f) = 0 /\ SizeAfter(f) = h.size ELSE SizeBefore(f) = h.size /\ SizeAfter(f) = 0
      BY <2>1, <3>2, SizesOf
    <3>4. DifferOf(f) = h.size
      BY <2>2, <3>3 DEF DifferOf
    <3> QED
      BY <2>2, <3>1, <3>4 DEF ChangeOf
  <2>4. ASSUME NEW y \in Both, Partner(x, y)
        PROVE  DifferOf(f) \in Nat /\ IF DifferOf(f) = 0 THEN v.size = 0 ELSE v = ChangeOf(f)
    <3>1. x \notin Upper /\ y \in Upper
      BY <1>3, <2>4 DEF Effective, Partner
    <3>2. PICK g : g = HeavyHitterList[y]
      OBVIOUS
    <3>3. g \in Item /\ g.flowID = f /\ g.size \in Nat
      BY <2>4, <3>2 DEF Item, Partner
    <3>4. v = Subtract(h, g)
      BY <1>3, <2>1, <2>4, <3>1, <3>2 DEF Becomes, Effective
    <3>5. SizeBefore(f) = h.size /\ SizeAfter(f) = g.size
      BY <2>1, <3>1, <3>2, <3>3, SizesOf
    <3>6. CASE h.size = g.size
      <4>1. v = dummy /\ DifferOf(f) = 0
        BY <2>2, <3>3, <3>4, <3>5, <3>6 DEF Subtract, DifferOf
      <4> QED
        BY <1>1, <4>1
    <3>7. CASE h.size # g.size
      <4>1. PICK d : d = IF h.size > g.size THEN h.size - g.size ELSE g.size - h.size
        OBVIOUS
      <4>2. d = DifferOf(f) /\ d \in Nat /\ d # 0
        BY <2>2, <3>3, <3>5, <3>7, <4>1 DEF DifferOf
      <4>3. v = [h EXCEPT !.size = d]
        BY <2>2, <3>3, <3>4, <3>7, <4>1 DEF Subtract
      <4>4. v = [flowID |-> f, size |-> d]
        BY <2>2, <4>3
      <4> QED
        BY <4>2, <4>4 DEF ChangeOf
    <3> QED
      BY <3>6, <3>7
  <2> QED
    BY <2>3, <2>4
<1> QED
  BY <1>2, <1>3

LEMMA TestIs ==
  ASSUME HeavyHitterList \in [Both -> Item], FlowsDiffer, Genuine(HeavyHitterList)
  PROVE  TestHeavyChange_NO_MAP = {ChangeOf(f) : f \in {g \in InLists : g # 0 /\ DifferOf(g) > 0}}
<1> USE HeavyAssumption
<1>1. PICK D : D = DOMAIN get_stat_map(NUM_HEAVY) \cup DOMAIN get_stat_map(0)
  OBVIOUS
<1>2. D = InLists
  <2>1. D = {HeavyHitterList[NUM_HEAVY + k].flowID : k \in Upper} \cup {HeavyHitterList[0 + k].flowID : k \in Upper}
    BY <1>1 DEF get_stat_map
  <2>2. \A k \in Upper : NUM_HEAVY + k \in Both /\ 0 + k \in Both
    BY DEF Upper, Both
  <2>3. D \subseteq InLists
    BY <2>1, <2>2 DEF InLists
  <2>4. ASSUME NEW x \in Both PROVE HeavyHitterList[x].flowID \in D
    <3>1. CASE x \in Upper
      <4>1. 0 + x = x
        BY DEF Both
      <4> QED
        BY <2>1, <3>1, <4>1
    <3>2. CASE x \notin Upper
      <4>1. x - NUM_HEAVY \in Upper /\ NUM_HEAVY + (x - NUM_HEAVY) = x
        BY <3>2 DEF Both, Upper
      <4> QED
        BY <2>1, <4>1
    <3> QED
      BY <3>1, <3>2
  <2> QED
    BY <2>3, <2>4 DEF InLists
<1>3. TestHeavyChange_NO_MAP = {ChangeOf(f) : f \in {g \in D : DifferOf(g) > 0}}
  BY <1>1, Zenon DEF TestHeavyChange_NO_MAP, ChangeOf, DifferOf, SizeBefore, SizeAfter, At
<1>4. DifferOf(0) = 0
  <2>1. PICK z : z = 0
    OBVIOUS
  <2>2. \A y \in Both : HeavyHitterList[y].flowID = z => HeavyHitterList[y].size = 0
    BY <2>1 DEF Genuine
  <2>3. SizeBefore(z) = 0 /\ SizeAfter(z) = 0
    BY <2>2, SizesOf
  <2> QED
    BY <2>1, <2>3 DEF DifferOf
<1>5. {g \in D : DifferOf(g) > 0} = {g \in InLists : g # 0 /\ DifferOf(g) > 0}
  BY <1>2, <1>4
<1> QED
  BY <1>3, <1>5

LEMMA ChangesAre ==
  ASSUME HeavyHitterList \in [Both -> Item], FlowsDiffer, Genuine(HeavyHitterList),
         NEW L \in [Both -> Item], Descending(L, 2 * NUM_HEAVY), NEW q, Becoming(q, L),
         NEW n, n = Cardinality({k \in Both : L[k].size > 0})
  PROVE  /\ {L[k] : k \in 0 .. n - 1} = TestHeavyChange_NO_MAP
         /\ n = Cardinality(TestHeavyChange_NO_MAP)
         /\ \A k \in n .. 2 * NUM_HEAVY - 1 : L[k].size = 0
<1> USE HeavyAssumption
<1>1. PICK P, T : P = {k \in Both : L[k].size > 0} /\ T = TestHeavyChange_NO_MAP
  OBVIOUS
<1>2. n \in 0 .. 2 * NUM_HEAVY /\ P = 0 .. n - 1
  BY <1>1, PositivesFirst
<1>3. T = {ChangeOf(f) : f \in {g \in InLists : g # 0 /\ DifferOf(g) > 0}}
  BY <1>1, TestIs
<1>4. Matching(q, Both, Both) /\ \A k \in Both : q[k] \in Both /\ Becomes(L[k], q[k])
  BY DEF Becoming, Matching
<1>5. ASSUME NEW k \in P, NEW f, f = HeavyHitterList[q[k]].flowID
      PROVE  Effective(q[k]) /\ L[k] = ChangeOf(f) /\ f \in InLists /\ f # 0 /\ DifferOf(f) > 0
  <2>1. k \in Both /\ L[k].size > 0 /\ q[k] \in Both /\ Becomes(L[k], q[k])
    BY <1>1, <1>4
  <2>2. PICK x, v : x = q[k] /\ v = L[k]
    OBVIOUS
  <2>3. /\ ~Effective(x) => v.size = 0
        /\ Effective(x) => DifferOf(f) \in Nat /\ IF DifferOf(f) = 0 THEN v.size = 0 ELSE v = ChangeOf(f)
    BY <1>5, <2>1, <2>2, BecomesChange
  <2>4. v.size # 0
    BY <2>1, <2>2
  <2>5. Effective(x) /\ DifferOf(f) \in Nat /\ DifferOf(f) # 0 /\ v = ChangeOf(f)
    BY <2>3, <2>4
  <2>6. f \in InLists /\ f # 0
    BY <1>5, <2>1, <2>2, <2>5 DEF InLists, Effective
  <2> QED
    BY <2>2, <2>5, <2>6
<1>6. PICK c : c = [k \in P |-> L[k]]
  OBVIOUS
<1>7. c \in [P -> T]
  <2>1. \A k \in P : L[k] \in T
    BY <1>3, <1>5
  <2> QED
    BY <1>6, <2>1
<1>8. ASSUME NEW k \in P, NEW l \in P, c[k] = c[l] PROVE k = l
  <2>1. PICK f, g : f = HeavyHitterList[q[k]].flowID /\ g = HeavyHitterList[q[l]].flowID
    OBVIOUS
  <2>2. Effective(q[k]) /\ Effective(q[l]) /\ ChangeOf(f) = ChangeOf(g)
    BY <1>5, <1>6, <1>8, <2>1
  <2>3. f = g
    BY <2>2 DEF ChangeOf
  <2>4. k \in Both /\ l \in Both /\ q[k] \in Both /\ q[l] \in Both
    BY <1>1, <1>4
  <2>5. q[k] = q[l]
    BY <2>1, <2>2, <2>3, <2>4, EffectiveOnce
  <2> QED
    BY <1>4, <2>4, <2>5 DEF Matching
<1>9. ASSUME NEW e \in T PROVE \E k \in P : c[k] = e
  <2>1. PICK f \in InLists : f # 0 /\ DifferOf(f) > 0 /\ e = ChangeOf(f)
    BY <1>3
  <2>2. PICK x \in Both : Effective(x) /\ HeavyHitterList[x].flowID = f
    BY <2>1, EffectiveSome
  <2>3. PICK k \in Both : q[k] = x
    BY <1>4 DEF Matching
  <2>4. PICK v : v = L[k]
    OBVIOUS
  <2>5. Becomes(v, x)
    BY <1>4, <2>3, <2>4
  <2>6. DifferOf(f) \in Nat /\ IF DifferOf(f) = 0 THEN v.size = 0 ELSE v = ChangeOf(f)
    BY <2>2, <2>5, BecomesChange
  <2>7. v = e /\ e.size > 0
    BY <2>1, <2>6 DEF ChangeOf
  <2>8. k \in P
    BY <1>1, <2>4, <2>7
  <2> QED
    BY <1>6, <2>4, <2>7, <2>8
<1>10. Matching(c, P, T)
  BY <1>7, <1>8, <1>9 DEF Matching
<1>11. IsFiniteSet(P) /\ Cardinality(P) = n
  BY <1>2, FS_Interval
<1>12. Cardinality(T) = n
  BY <1>10, <1>11, MatchingSize
<1>13. {L[k] : k \in P} = T
  BY <1>6, <1>7, <1>9
<1>14. ASSUME NEW k \in n .. 2 * NUM_HEAVY - 1 PROVE L[k].size = 0
  <2>1. k \in Both /\ k \notin 0 .. n - 1
    BY <1>2 DEF Both
  <2>2. L[k].size \in Nat
    BY <2>1 DEF Item
  <2> QED
    BY <1>1, <1>2, <2>1, <2>2
<1> QED
  BY <1>1, <1>2, <1>12, <1>13, <1>14
--------------------------------------------------------------------------------
(* The table of heavy flows: the build never writes outside it and the stash.  *)

\* The flows get the identifiers 1 .. NUM_HEAVY before OBuildSTable hashes them.
Numbered == Built => \A i \in Upper : HeavyHitterList[i].flowID = i + 1

\* The inductive invariant.
StashInv ==
  /\ HeavyHitterList \in [Both -> Item]
  /\ StashTypeOK
  /\ Numbered
  /\ PlacedIsThere

\* Places of different buckets, or different places of one, are different cells.
LEMMA CellsDiffer ==
  ASSUME NEW b \in STBucket, NEW c \in STBucket,
         NEW k \in 0 .. ST_BUCKET_SIZE - 1, NEW l \in 0 .. ST_BUCKET_SIZE - 1,
         ST_BUCKET_SIZE * b + k = ST_BUCKET_SIZE * c + l
  PROVE  b = c /\ k = l
<1> USE StashAssumption
<1> DEFINE S == ST_BUCKET_SIZE
<1>1. S \in Nat \ {0} /\ b \in Nat /\ c \in Nat /\ k \in 0 .. S - 1 /\ l \in 0 .. S - 1
  BY DEF STBucket
<1>2. S * b + k = S * c + l
  OBVIOUS
<1> HIDE DEF S
<1>3. ASSUME NEW x \in Nat, NEW y \in Nat, x < y PROVE S * x + S <= S * y
  <2>1. PICK d \in Nat : y = x + 1 + d
    BY <1>3
  <2>2. S * y = S * x + S + S * d /\ S * d \in Nat
    BY <2>1, <1>1
  <2> QED
    BY <2>2, <1>1
<1>4. S * b \in Nat /\ S * c \in Nat
  BY <1>1
<1>5. ~(b < c) /\ ~(c < b)
  BY <1>1, <1>2, <1>3, <1>4
<1> QED
  BY <1>1, <1>2, <1>4, <1>5

\* A place of a bucket is a cell of the table.
LEMMA CellInTable ==
  ASSUME NEW b \in STBucket, NEW k \in 0 .. ST_BUCKET_SIZE - 1
  PROVE  ST_BUCKET_SIZE * b + k \in TablePos
<1> USE StashAssumption
<1> DEFINE S == ST_BUCKET_SIZE
           N == ST_BUCKET_NUM
<1>1. S \in Nat \ {0} /\ N \in Nat \ {0} /\ b \in 0 .. N - 1 /\ k \in 0 .. S - 1
  BY DEF STBucket
<1> HIDE DEF S, N
<1>2. PICK d \in Nat : N = b + 1 + d
  BY <1>1
<1>3. N * S = S * b + S + S * d /\ S * d \in Nat /\ S * b \in Nat /\ N * S \in Nat
  BY <1>1, <1>2
<1>4. S * b + k \in 0 .. N * S - 1
  BY <1>1, <1>3
<1> QED
  BY <1>4 DEF TablePos, S, N

LEMMA ItemOfList ==
  ASSUME HeavyHitterList \in [Both -> Item], NEW i \in Upper
  PROVE  HeavyHitterList[i] \in Item
BY HeavyAssumption DEF Both, Upper

LEMMA StartStep == ASSUME StashInv, StartBuild PROVE StashInv'
<1> USE HeavyAssumption, StashAssumption
<1>1. /\ unplaced' = Upper /\ stCount' = [b \in STBucket |-> 0]
      /\ pDataStashTable' = [k \in TablePos |-> Raw] /\ pStashHeavy' = [k \in StashPos |-> Raw]
      /\ countStash' \in {0, countStash} /\ countStash_no' = 0
      /\ lost' = {} /\ stHash' = stHash /\ pc' = "place"
  BY DEF StartBuild, NewTable
<1>2. \/ builder' = "OBuildSTable" /\ Renumbered(1)
      \/ builder' = "BuildSTable_NO" /\ HeavyHitterList' = HeavyHitterList
  BY DEF StartBuild, NewTable
<1>3. ASSUME Renumbered(1)
      PROVE HeavyHitterList' \in [Both -> Item] /\ \A i \in Upper : HeavyHitterList'[i].flowID = i + 1
  <2>1. HeavyHitterList' = [k \in Both |-> IF k \in Upper THEN [HeavyHitterList[k] EXCEPT !.flowID = k + 1]
                                                          ELSE HeavyHitterList[k]]
    BY <1>3 DEF Renumbered
  <2>2. HeavyHitterList \in [Both -> Item]
    BY DEF StashInv
  <2>3. \A k \in Upper : k \in Both /\ k + 1 \in Flow
    BY DEF Upper, Both
  <2>4. ASSUME NEW k \in Upper
        PROVE [HeavyHitterList[k] EXCEPT !.flowID = k + 1] \in Item
              /\ [HeavyHitterList[k] EXCEPT !.flowID = k + 1].flowID = k + 1
    <3>1. HeavyHitterList[k] \in [flowID : Flow \cup {0, DUMMY_FLOW}, size : 0 .. MaxSize]
      BY <2>2, <2>3 DEF Item
    <3> QED
      BY <3>1, <2>3 DEF Item
  <2> QED
    BY <2>1, <2>2, <2>3, <2>4
<1>4. HeavyHitterList' \in [Both -> Item]
  BY <1>2, <1>3 DEF StashInv
<1>5. StashTypeOK'
  BY <1>1 DEF StashInv, StashTypeOK
<1>6. Numbered'
  BY <1>2, <1>3 DEF Numbered, Built
<1>7. PlacedIsThere'
  BY <1>1 DEF PlacedIsThere
<1> QED
  BY <1>4, <1>5, <1>6, <1>7 DEF StashInv

LEMMA PlaceStep == ASSUME StashInv, PlaceItem PROVE StashInv'
<1> USE StashAssumption
<1>1. PICK i \in Upper, b \in STBucket :
        /\ Goes(i, b)
        /\ stCount[b] < ST_BUCKET_SIZE
        /\ pDataStashTable' = [pDataStashTable EXCEPT ![ST_BUCKET_SIZE * b + stCount[b]] = HeavyHitterList[i]]
        /\ stCount' = [stCount EXCEPT ![b] = @ + 1]
        /\ unplaced' = unplaced \ {i}
  BY DEF PlaceItem
<1>2. /\ pc' = pc /\ pc = "place" /\ HeavyHitterList' = HeavyHitterList /\ stHash' = stHash
      /\ builder' = builder /\ pStashHeavy' = pStashHeavy /\ countStash' = countStash
      /\ countStash_no' = countStash_no /\ lost' = lost
  BY DEF PlaceItem
<1>3. HeavyHitterList[i] \in Item
  BY ItemOfList DEF StashInv
<1>4. stCount[b] \in 0 .. ST_BUCKET_SIZE - 1
  BY <1>1 DEF StashInv, StashTypeOK
<1>5. ST_BUCKET_SIZE * b + stCount[b] \in TablePos
  BY <1>4, CellInTable
<1>6. StashTypeOK'
  <2>1. pDataStashTable' \in [TablePos -> Item \cup {Raw}]
    BY <1>1, <1>3 DEF StashInv, StashTypeOK
  <2>2. stCount' \in [STBucket -> 0 .. ST_BUCKET_SIZE]
    BY <1>1, <1>4 DEF StashInv, StashTypeOK
  <2> QED
    BY <1>1, <1>2, <2>1, <2>2 DEF StashInv, StashTypeOK
<1>7. Numbered'
  BY <1>2 DEF StashInv, Numbered, Built
<1>8. PlacedIsThere'
  <2> SUFFICES ASSUME Built', NEW j \in Upper \ unplaced'
               PROVE  (InBucket(j, stHash[HeavyHitterList[j].flowID]) \/ InStash(j))'
    BY DEF PlacedIsThere
  <2>1. Built
    BY <1>2 DEF Built
  <2>2. InStash(j)' <=> InStash(j)
    BY <1>2 DEF InStash
  <2>3. CASE j = i
    <3>1. b = stHash[HeavyHitterList[i].flowID]
      <4>1. HeavyHitterList[i].flowID = i + 1 /\ i + 1 # 0
        BY <2>1 DEF StashInv, Numbered, Upper
      <4> QED
        BY <1>1, <4>1 DEF Goes, STBucketsOf
    <3>2. /\ stCount[b] \in 0 .. stCount'[b] - 1
          /\ pDataStashTable'[ST_BUCKET_SIZE * b + stCount[b]] = HeavyHitterList[i]
      BY <1>1, <1>4, <1>5 DEF StashInv, StashTypeOK
    <3> QED
      BY <1>2, <2>3, <3>1, <3>2 DEF InBucket
  <2>4. CASE j # i
    <3>1. InBucket(j, stHash[HeavyHitterList[j].flowID]) \/ InStash(j)
      BY <1>1, <2>1, <2>4 DEF StashInv, PlacedIsThere
    <3> DEFINE c == stHash[HeavyHitterList[j].flowID]
    <3>2. c \in STBucket
      <4>1. HeavyHitterList[j].flowID = j + 1
        BY <2>1 DEF StashInv, Numbered
      <4>2. j + 1 \in Flow
        BY HeavyAssumption DEF Upper
      <4> QED
        BY <4>1, <4>2 DEF StashInv, StashTypeOK
    <3>4. c' = c
      BY <1>2
    <3> HIDE DEF c
    <3>3. ASSUME InBucket(j, c) PROVE InBucket(j, c)'
      <4>1. PICK k \in 0 .. stCount[c] - 1 : pDataStashTable[ST_BUCKET_SIZE * c + k] = HeavyHitterList[j]
        BY <3>3 DEF InBucket
      <4>2. k \in 0 .. ST_BUCKET_SIZE - 1 /\ k \in 0 .. stCount'[c] - 1 /\ (c = b => k # stCount[b])
        BY <1>1, <3>2, <1>4 DEF StashInv, StashTypeOK
      <4>3. ST_BUCKET_SIZE * c + k # ST_BUCKET_SIZE * b + stCount[b]
        BY <1>4, <3>2, <4>2, CellsDiffer
      <4>4. ST_BUCKET_SIZE * c + k \in TablePos
        BY <3>2, <4>2, CellInTable
      <4>5. pDataStashTable'[ST_BUCKET_SIZE * c + k] = HeavyHitterList[j]
        BY <1>1, <4>1, <4>3, <4>4 DEF StashInv, StashTypeOK
      <4> QED
        BY <1>2, <3>4, <4>2, <4>5 DEF InBucket
    <3> QED
      BY <2>2, <3>1, <3>3, <3>4 DEF c, InBucket
  <2> QED
    BY <2>3, <2>4
<1> QED
  BY <1>2, <1>6, <1>7, <1>8 DEF StashInv

LEMMA StashStep == ASSUME StashInv, StashItem PROVE StashInv'
<1> USE StashAssumption
<1>1. PICK i \in Upper, b \in STBucket :
        /\ Goes(i, b)
        /\ Stashed < ST_STASH_NUM
        /\ pStashHeavy' = [pStashHeavy EXCEPT ![Stashed] = HeavyHitterList[i]]
        /\ unplaced' = unplaced \ {i}
  BY DEF StashItem
<1>2. /\ pc' = pc /\ HeavyHitterList' = HeavyHitterList /\ stHash' = stHash /\ builder' = builder
      /\ stCount' = stCount /\ pDataStashTable' = pDataStashTable /\ lost' = lost
      /\ IF builder = "OBuildSTable"
         THEN countStash' = countStash + 1 /\ countStash_no' = countStash_no
         ELSE countStash_no' = countStash_no + 1 /\ countStash' = countStash
  BY DEF StashItem
<1>3. HeavyHitterList[i] \in Item
  BY ItemOfList DEF StashInv
<1>4. Stashed \in StashPos
  BY <1>1 DEF StashInv, StashTypeOK, Stashed, StashPos
<1>5. StashTypeOK'
  <2>1. pStashHeavy' \in [StashPos -> Item \cup {Raw}]
    BY <1>1, <1>3 DEF StashInv, StashTypeOK
  <2>2. countStash' \in 0 .. ST_STASH_NUM /\ countStash_no' \in 0 .. ST_STASH_NUM
    BY <1>1, <1>2 DEF StashInv, StashTypeOK, Stashed
  <2> QED
    BY <1>1, <1>2, <2>1, <2>2 DEF StashInv, StashTypeOK
<1>6. Numbered'
  BY <1>2 DEF StashInv, Numbered, Built
<1>7. PlacedIsThere'
  <2> SUFFICES ASSUME Built', NEW j \in Upper \ unplaced'
               PROVE  (InBucket(j, stHash[HeavyHitterList[j].flowID]) \/ InStash(j))'
    BY DEF PlacedIsThere
  <2>1. Built /\ builder = "OBuildSTable"
    BY <1>2 DEF Built
  <2>2. Stashed = countStash /\ countStash' = countStash + 1 /\ countStash \in Nat
    BY <1>2, <2>1 DEF Stashed, StashInv, StashTypeOK
  <2>3. CASE j = i
    <3>1. countStash \in 0 .. countStash' - 1 /\ pStashHeavy'[countStash] = HeavyHitterList[i]
      BY <1>1, <1>4, <2>2 DEF StashInv, StashTypeOK
    <3> QED
      BY <1>2, <2>3, <3>1 DEF InStash
  <2>4. CASE j # i
    <3>1. InBucket(j, stHash[HeavyHitterList[j].flowID]) \/ InStash(j)
      BY <1>1, <2>1, <2>4 DEF StashInv, PlacedIsThere
    <3>2. CASE InBucket(j, stHash[HeavyHitterList[j].flowID])
      BY <1>2, <3>2 DEF InBucket
    <3>3. CASE InStash(j)
      <4>1. PICK k \in 0 .. countStash - 1 : pStashHeavy[k] = HeavyHitterList[j]
        BY <3>3 DEF InStash
      <4>2. k # Stashed /\ k \in 0 .. countStash' - 1 /\ k \in StashPos
        BY <1>4, <2>2 DEF StashPos
      <4>3. pStashHeavy'[k] = HeavyHitterList[j]
        BY <1>1, <4>1, <4>2 DEF StashInv, StashTypeOK
      <4> QED
        BY <1>2, <4>2, <4>3 DEF InStash
    <3> QED
      BY <3>1, <3>2, <3>3
  <2> QED
    BY <2>3, <2>4
<1> QED
  BY <1>2, <1>5, <1>6, <1>7 DEF StashInv

LEMMA ShuffleStep == ASSUME StashInv, OTestShuffle PROVE StashInv'
<1> USE HeavyAssumption, StashAssumption
<1>1. /\ Renumbered(0) /\ countStash' = 0 /\ pc' = "idle"
      /\ UNCHANGED <<stHash, builder, unplaced, stCount, pDataStashTable, pStashHeavy, countStash_no, lost>>
  BY DEF OTestShuffle
<1>2. HeavyHitterList' \in [Both -> Item]
  <2>1. HeavyHitterList' = [k \in Both |-> IF k \in Upper THEN [HeavyHitterList[k] EXCEPT !.flowID = k + 0]
                                                          ELSE HeavyHitterList[k]]
    BY <1>1 DEF Renumbered
  <2>2. HeavyHitterList \in [Both -> Item]
    BY DEF StashInv
  <2>3. \A k \in Upper : k \in Both /\ k + 0 \in Flow \cup {0}
    BY DEF Upper, Both
  <2>4. ASSUME NEW k \in Upper PROVE [HeavyHitterList[k] EXCEPT !.flowID = k + 0] \in Item
    <3>1. HeavyHitterList[k] \in [flowID : Flow \cup {0, DUMMY_FLOW}, size : 0 .. MaxSize]
      BY <2>2, <2>3 DEF Item
    <3> QED
      BY <3>1, <2>3 DEF Item
  <2> QED
    BY <2>1, <2>2, <2>3, <2>4
<1>3. StashTypeOK'
  BY <1>1 DEF StashInv, StashTypeOK
<1>4. ~Built'
  BY <1>1 DEF Built
<1> QED
  BY <1>2, <1>3, <1>4 DEF StashInv, Numbered, PlacedIsThere

\* The steps that change neither the list nor the table.
LEMMA OtherSteps ==
  ASSUME StashInv, HeavyHitterList' = HeavyHitterList, builder' = builder, stHash' = stHash,
         unplaced' = unplaced, stTable' = stTable, lost' \in SUBSET STBucket,
         pc' \in {pc, "ready"}, pc \in {"place", "ready"} \/ pc' = pc
  PROVE  StashInv'
<1>1. Built' => Built
  BY DEF Built
<1>2. StashTypeOK'
  BY DEF StashInv, StashTypeOK, stTable
<1> QED
  BY <1>1, <1>2 DEF StashInv, Numbered, PlacedIsThere, InBucket, InStash, stTable

LEMMA InitStashInv ==
  ASSUME pc = "build", HeavyHitterList \in [Both -> Item], stHash \in StHashes, InitStash
  PROVE  StashInv
<1> USE StashAssumption
<1>1. StashTypeOK
  BY DEF InitStash, StashTypeOK
<1> QED
  BY <1>1 DEF InitStash, StashInv, Numbered, PlacedIsThere, Built

LEMMA NextStashInv == StashInv /\ [NextStash]_stashVars => StashInv'
<1> SUFFICES ASSUME StashInv, [NextStash]_stashVars PROVE StashInv'
  OBVIOUS
<1>0. lost \in SUBSET STBucket
  BY DEF StashInv, StashTypeOK
<1>1. CASE StartBuild
  BY <1>1, StartStep
<1>2. CASE PlaceItem
  BY <1>2, PlaceStep
<1>3. CASE StashItem
  BY <1>3, StashStep
<1>4. CASE StashFull
  BY <1>0, <1>4, OtherSteps DEF StashFull
<1>5. CASE EndBuild
  BY <1>0, <1>5, OtherSteps DEF EndBuild
<1>6. CASE LoseBlock
  BY <1>0, <1>6, OtherSteps DEF LoseBlock
<1>7. CASE \E f \in Flow : OAccessFID(f)
  BY <1>0, <1>7, OtherSteps DEF OAccessFID
<1>8. CASE OTestShuffle
  BY <1>8, ShuffleStep
<1>9. CASE UNCHANGED stashVars
  BY <1>0, <1>9, OtherSteps DEF stashVars
<1> QED
  BY <1>1, <1>2, <1>3, <1>4, <1>5, <1>6, <1>7, <1>8, <1>9 DEF NextStash

LEMMA StashInvHolds == StashSpec => []StashInv
<1>1. pc = "build" /\ HeavyHitterList \in [Both -> Item] /\ stHash \in StHashes /\ InitStash => StashInv
  BY InitStashInv
<1> QED
  BY <1>1, NextStashInv, PTL DEF StashSpec

\* No build, complete or stopped by a full stash, and no later one over a new
\* table, counts past a bucket or the stash, or writes outside them.
THEOREM StashTypeOKHolds == StashSpec => []StashTypeOK
<1>1. StashInv => StashTypeOK
  BY DEF StashInv
<1> QED
  BY <1>1, StashInvHolds, PTL

\* Every flow that OBuildSTable has placed so far is in the bucket that OAccessFID
\* reads for it, or in the counted part of the stash.
THEOREM PlacedIsThereHolds == StashSpec => []PlacedIsThere
<1>1. StashInv => PlacedIsThere
  BY DEF StashInv
<1> QED
  BY <1>1, StashInvHolds, PTL
--------------------------------------------------------------------------------
(* What a lookup returns.  A cell that is counted holds an item that has been  *)
(* placed, so that a match there is a match of that item; the cells behind the *)
(* count hold anything, and the stash is scanned no further than its count.    *)

\* The counted cells of the table, and of the stash, hold placed items.
TableFromList ==
  \A b \in STBucket : \A k \in 0 .. stCount[b] - 1 :
    \E i \in Upper \ unplaced : pDataStashTable[ST_BUCKET_SIZE * b + k] = HeavyHitterList[i]
StashFromList ==
  \A k \in 0 .. countStash - 1 : \E i \in Upper \ unplaced : pStashHeavy[k] = HeavyHitterList[i]
FromList == Built => TableFromList /\ StashFromList

\* Nothing has been looked up in a table that is still being built.
NothingAsked == pc = "place" => found = NoAnswer

LookupInv ==
  /\ StashInv
  /\ FromList
  /\ NothingAsked
  /\ LookupExact

LEMMA StartFromList == ASSUME LookupInv, StartBuild PROVE LookupInv'
<1>1. StashInv'
  BY StartStep DEF LookupInv
<1>2. /\ stCount' = [b \in STBucket |-> 0] /\ found' = NoAnswer /\ pc' = "place"
      /\ builder' = "OBuildSTable" => countStash' = 0
  BY DEF StartBuild, NewTable
<1>3. FromList'
  BY <1>2 DEF FromList, Built, TableFromList, StashFromList
<1> QED
  BY <1>1, <1>2, <1>3 DEF LookupInv, NothingAsked, LookupExact

LEMMA PlaceFromList == ASSUME LookupInv, PlaceItem PROVE LookupInv'
<1> USE StashAssumption
<1>0. StashInv /\ StashInv'
  BY PlaceStep DEF LookupInv
<1>1. PICK i \in Upper, b \in STBucket :
        /\ Goes(i, b)
        /\ stCount[b] < ST_BUCKET_SIZE
        /\ pDataStashTable' = [pDataStashTable EXCEPT ![ST_BUCKET_SIZE * b + stCount[b]] = HeavyHitterList[i]]
        /\ stCount' = [stCount EXCEPT ![b] = @ + 1]
        /\ unplaced' = unplaced \ {i}
  BY DEF PlaceItem
<1>2. /\ pc' = pc /\ pc = "place" /\ HeavyHitterList' = HeavyHitterList /\ found' = found
      /\ builder' = builder /\ pStashHeavy' = pStashHeavy /\ countStash' = countStash
  BY DEF PlaceItem
<1>3. stCount[b] \in 0 .. ST_BUCKET_SIZE - 1 /\ stCount \in [STBucket -> 0 .. ST_BUCKET_SIZE]
      /\ pDataStashTable \in [TablePos -> Item \cup {Raw}]
  BY <1>0, <1>1 DEF StashInv, StashTypeOK
<1>4. Built' => TableFromList'
  <2> SUFFICES ASSUME Built', NEW c \in STBucket, NEW k \in 0 .. stCount'[c] - 1
               PROVE  \E j \in Upper \ unplaced' :
                        pDataStashTable'[ST_BUCKET_SIZE * c + k] = HeavyHitterList'[j]
    BY DEF TableFromList
  <2>1. TableFromList
    BY <1>2 DEF LookupInv, FromList, Built
  <2>2. i \in Upper \ unplaced' /\ Upper \ unplaced \subseteq Upper \ unplaced'
    BY <1>1
  <2>3. ST_BUCKET_SIZE * b + stCount[b] \in TablePos
    BY <1>3, CellInTable
  <2>4. CASE c = b /\ k = stCount[b]
    BY <1>1, <1>2, <1>3, <2>2, <2>3, <2>4
  <2>5. CASE ~(c = b /\ k = stCount[b])
    <3>1. k \in 0 .. stCount[c] - 1 /\ k \in 0 .. ST_BUCKET_SIZE - 1
      BY <1>1, <1>3, <2>5
    <3>2. ST_BUCKET_SIZE * c + k # ST_BUCKET_SIZE * b + stCount[b]
      BY <1>3, <2>5, <3>1, CellsDiffer
    <3>3. ST_BUCKET_SIZE * c + k \in TablePos
      BY <3>1, CellInTable
    <3>4. pDataStashTable'[ST_BUCKET_SIZE * c + k] = pDataStashTable[ST_BUCKET_SIZE * c + k]
      BY <1>1, <1>3, <3>2, <3>3
    <3> QED
      BY <1>2, <2>1, <2>2, <3>1, <3>4 DEF TableFromList
  <2> QED
    BY <2>4, <2>5
<1>5. Built' => StashFromList'
  BY <1>1, <1>2 DEF LookupInv, FromList, Built, StashFromList
<1> QED
  BY <1>0, <1>2, <1>4, <1>5 DEF LookupInv, FromList, NothingAsked, LookupExact

LEMMA StashedFromList == ASSUME LookupInv, StashItem PROVE LookupInv'
<1> USE StashAssumption
<1>0. StashInv /\ StashInv'
  BY StashStep DEF LookupInv
<1>1. PICK i \in Upper :
        /\ Stashed < ST_STASH_NUM
        /\ pStashHeavy' = [pStashHeavy EXCEPT ![Stashed] = HeavyHitterList[i]]
        /\ unplaced' = unplaced \ {i}
  BY DEF StashItem
<1>2. /\ pc' = pc /\ pc = "place" /\ HeavyHitterList' = HeavyHitterList /\ found' = found
      /\ builder' = builder /\ stCount' = stCount /\ pDataStashTable' = pDataStashTable
      /\ builder = "OBuildSTable" => countStash' = countStash + 1
  BY DEF StashItem
<1>3. Built' => TableFromList'
  BY <1>1, <1>2 DEF LookupInv, FromList, Built, TableFromList
<1>4. Built' => StashFromList'
  <2> SUFFICES ASSUME Built', NEW k \in 0 .. countStash' - 1
               PROVE  \E j \in Upper \ unplaced' : pStashHeavy'[k] = HeavyHitterList'[j]
    BY DEF StashFromList
  <2>1. StashFromList /\ builder = "OBuildSTable"
    BY <1>2 DEF LookupInv, FromList, Built
  <2>2. /\ Stashed = countStash /\ countStash \in 0 .. ST_STASH_NUM - 1
        /\ pStashHeavy \in [StashPos -> Item \cup {Raw}]
    BY <1>0, <1>1, <2>1 DEF Stashed, StashInv, StashTypeOK
  <2>3. CASE k = countStash
    BY <1>1, <1>2, <2>2, <2>3 DEF StashPos
  <2>4. CASE k # countStash
    <3>1. k \in 0 .. countStash - 1 /\ pStashHeavy'[k] = pStashHeavy[k]
      BY <1>1, <1>2, <2>1, <2>2, <2>4 DEF StashPos
    <3> QED
      BY <1>1, <1>2, <2>1, <3>1 DEF StashFromList
  <2> QED
    BY <2>3, <2>4
<1> QED
  BY <1>0, <1>2, <1>3, <1>4 DEF LookupInv, FromList, NothingAsked, LookupExact

\* A cell that holds an item matches the flow of that item, and no other.
LEMMA ItemMatches ==
  ASSUME HeavyHitterList \in [Both -> Item], NEW i \in Upper, NEW f
  PROVE  /\ TRUE \in Matches(HeavyHitterList[i], f) => HeavyHitterList[i].flowID = f
         /\ HeavyHitterList[i].flowID = f => FALSE \notin Matches(HeavyHitterList[i], f)
         /\ Read(HeavyHitterList[i]) = {HeavyHitterList[i].size}
<1>1. HeavyHitterList[i] # Raw
  BY ItemOfList, RawAssumption
<1>2. Matches(HeavyHitterList[i], f) = {HeavyHitterList[i].flowID = f}
  BY <1>1 DEF Matches
<1>3. TRUE \in Matches(HeavyHitterList[i], f) => HeavyHitterList[i].flowID = f
  BY <1>2, Zenon
<1>4. HeavyHitterList[i].flowID = f => FALSE \notin Matches(HeavyHitterList[i], f)
  BY <1>2, Zenon
<1> QED
  BY <1>1, <1>3, <1>4 DEF Read

LEMMA FindsExact == ASSUME LookupInv, NEW f \in Flow, OAccessFID(f) PROVE LookupExact'
<1> USE StashAssumption
<1> DEFINE b       == stHash[f]
           its     == {i \in Upper \ unplaced : HeavyHitterList[i].flowID = f}
           inStash == {i \in its : InStash(i)}
           Cell(k) == ST_BUCKET_SIZE * b + k
           inBlock == IF b \in lost THEN {0} ELSE Scanned(pDataStashTable, BlockSlots(f), f, {0})
<1>1. PICK s \in Scanned(pStashHeavy, 0 .. countStash - 1, f, inBlock) : found' = [flowID |-> f, size |-> s]
  BY DEF OAccessFID
<1>2. UNCHANGED <<pc, HeavyHitterList, stHash, builder, unplaced, stTable, lost>>
  BY DEF OAccessFID
<1>3. UNCHANGED <<stCount, pDataStashTable, pStashHeavy, countStash>>
  BY <1>2 DEF stTable
<1>4. found'.flowID = f /\ found'.size = s
  BY <1>1
<1> SUFFICES ASSUME Built
             PROVE  /\ inStash # {} => \E i \in inStash : s = HeavyHitterList[i].size
                    /\ inStash = {} /\ b \in lost => s = 0
                    /\ inStash = {} /\ b \notin lost /\ stCount[b] = ST_BUCKET_SIZE =>
                         IF its = {} THEN s = 0 ELSE \E i \in its : s = HeavyHitterList[i].size
  BY <1>2, <1>3, <1>4 DEF LookupExact, Built, InStash
<1>5. /\ HeavyHitterList \in [Both -> Item] /\ TableFromList /\ StashFromList
      /\ \A i \in Upper \ unplaced : InBucket(i, stHash[HeavyHitterList[i].flowID]) \/ InStash(i)
      /\ b \in STBucket /\ stCount[b] \in 0 .. ST_BUCKET_SIZE
  BY DEF LookupInv, FromList, StashInv, StashTypeOK, PlacedIsThere
<1>6. CASE \E k \in 0 .. countStash - 1 : TRUE \in Matches(pStashHeavy[k], f) /\ s \in Read(pStashHeavy[k])
  <2>1. PICK k \in 0 .. countStash - 1 : TRUE \in Matches(pStashHeavy[k], f) /\ s \in Read(pStashHeavy[k])
    BY <1>6
  <2>2. PICK i \in Upper \ unplaced : pStashHeavy[k] = HeavyHitterList[i]
    BY <1>5 DEF StashFromList
  <2>3. HeavyHitterList[i].flowID = f /\ s = HeavyHitterList[i].size
    BY <1>5, <2>1, <2>2, ItemMatches
  <2>4. i \in inStash
    BY <2>2, <2>3 DEF InStash
  <2> QED
    BY <2>3, <2>4
<1>7. CASE s \in inBlock /\ \A k \in 0 .. countStash - 1 : FALSE \in Matches(pStashHeavy[k], f)
  <2>1. \A i \in its : ~InStash(i)
    <3> SUFFICES ASSUME NEW i \in its, InStash(i) PROVE FALSE
      OBVIOUS
    <3>1. PICK k \in 0 .. countStash - 1 : pStashHeavy[k] = HeavyHitterList[i]
      BY DEF InStash
    <3>2. HeavyHitterList[i].flowID = f /\ i \in Upper
      OBVIOUS
    <3>3. FALSE \notin Matches(pStashHeavy[k], f)
      BY <1>5, <3>1, <3>2, ItemMatches
    <3> QED
      BY <1>7, <3>3
  <2>a. inStash = {}
    BY <2>1
  <2>2. CASE b \in lost
    BY <1>7, <2>a, <2>2
  <2>3. CASE b \notin lost
    <3>1. s \in Scanned(pDataStashTable, BlockSlots(f), f, {0})
      BY <1>7, <2>3
    <3>2. CASE s = 0 /\ \A c \in BlockSlots(f) : FALSE \in Matches(pDataStashTable[c], f)
      <4> SUFFICES ASSUME NEW i \in its PROVE FALSE
        BY <2>a, <2>3, <3>2
      <4>1. HeavyHitterList[i].flowID = f /\ i \in Upper \ unplaced
        OBVIOUS
      <4>2. InBucket(i, b)
        BY <1>5, <2>1, <4>1
      <4>3. PICK k \in 0 .. stCount[b] - 1 : pDataStashTable[Cell(k)] = HeavyHitterList[i]
        BY <4>2 DEF InBucket
      <4>4. Cell(k) \in BlockSlots(f)
        BY <1>5, <4>3 DEF BlockSlots
      <4>5. FALSE \notin Matches(pDataStashTable[Cell(k)], f)
        BY <1>5, <4>1, <4>3, ItemMatches
      <4> QED
        BY <3>2, <4>4, <4>5
    <3>3. CASE \E c \in BlockSlots(f) : TRUE \in Matches(pDataStashTable[c], f) /\ s \in Read(pDataStashTable[c])
      <4>1. PICK k \in 0 .. ST_BUCKET_SIZE - 1 :
              TRUE \in Matches(pDataStashTable[Cell(k)], f) /\ s \in Read(pDataStashTable[Cell(k)])
        BY <3>3 DEF BlockSlots
      <4>2. CASE k \in 0 .. stCount[b] - 1
        <5>1. PICK i \in Upper \ unplaced : pDataStashTable[Cell(k)] = HeavyHitterList[i]
          BY <1>5, <4>2 DEF TableFromList
        <5>2. HeavyHitterList[i].flowID = f /\ s = HeavyHitterList[i].size
          BY <1>5, <4>1, <5>1, ItemMatches
        <5> QED
          BY <2>a, <2>3, <5>1, <5>2
      <4>3. CASE k \notin 0 .. stCount[b] - 1
        <5>1. stCount[b] < ST_BUCKET_SIZE
          BY <1>5, <4>3
        <5> QED
          BY <2>a, <2>3, <5>1
      <4> QED
        BY <4>2, <4>3
    <3> QED
      BY <3>1, <3>2, <3>3 DEF Scanned
  <2> QED
    BY <2>2, <2>3
<1> QED
  BY <1>1, <1>6, <1>7 DEF Scanned

\* The steps that change neither the list nor the table, and forget the answer or
\* give one.
LEMMA OtherLookups ==
  ASSUME LookupInv, HeavyHitterList' = HeavyHitterList, builder' = builder, stHash' = stHash,
         unplaced' = unplaced, stTable' = stTable, lost' \in SUBSET STBucket,
         pc' \in {pc, "ready"}, pc \in {"place", "ready"} \/ pc' = pc,
         LookupExact', NothingAsked'
  PROVE  LookupInv'
<1>1. StashInv'
  BY OtherSteps DEF LookupInv
<1>2. Built' => Built
  BY DEF Built
<1>3. FromList'
  BY <1>2 DEF LookupInv, FromList, TableFromList, StashFromList, stTable
<1> QED
  BY <1>1, <1>3 DEF LookupInv

LEMMA NextLookupInv == LookupInv /\ [NextStash]_stashVars => LookupInv'
<1> SUFFICES ASSUME LookupInv, [NextStash]_stashVars PROVE LookupInv'
  OBVIOUS
<1>0. lost \in SUBSET STBucket
  BY DEF LookupInv, StashInv, StashTypeOK
<1>1. CASE StartBuild
  BY <1>1, StartFromList
<1>2. CASE PlaceItem
  BY <1>2, PlaceFromList
<1>3. CASE StashItem
  BY <1>3, StashedFromList
<1>4. CASE StashFull
  <2>1. found' = NoAnswer /\ pc' = "ready"
    BY <1>4 DEF StashFull, LookupInv, NothingAsked
  <2>2. LookupExact' /\ NothingAsked'
    BY <2>1 DEF LookupExact, NothingAsked
  <2> QED
    BY <1>0, <1>4, <2>2, OtherLookups DEF StashFull
<1>5. CASE EndBuild
  <2>1. found' = NoAnswer /\ pc' = "ready"
    BY <1>5 DEF EndBuild, LookupInv, NothingAsked
  <2>2. LookupExact' /\ NothingAsked'
    BY <2>1 DEF LookupExact, NothingAsked
  <2> QED
    BY <1>0, <1>5, <2>2, OtherLookups DEF EndBuild
<1>6. CASE LoseBlock
  <2>1. found' = NoAnswer
    BY <1>6 DEF LoseBlock
  <2>2. LookupExact' /\ NothingAsked'
    BY <2>1 DEF LookupExact, NothingAsked
  <2> QED
    BY <1>0, <1>6, <2>2, OtherLookups DEF LoseBlock
<1>7. CASE \E f \in Flow : OAccessFID(f)
  <2>1. PICK f \in Flow : OAccessFID(f)
    BY <1>7
  <2>2. LookupExact' /\ NothingAsked'
    BY <2>1, FindsExact DEF NothingAsked, OAccessFID
  <2> QED
    BY <1>0, <2>1, <2>2, OtherLookups DEF OAccessFID
<1>8. CASE OTestShuffle
  <2>1. StashInv' /\ pc' = "idle"
    BY <1>8, ShuffleStep DEF LookupInv, OTestShuffle
  <2> QED
    BY <2>1 DEF LookupInv, FromList, NothingAsked, LookupExact, Built
<1>9. CASE UNCHANGED stashVars
  <2>1. LookupExact' /\ NothingAsked'
    BY <1>9 DEF LookupInv, LookupExact, NothingAsked, stashVars, Built, stTable, InStash
  <2> QED
    BY <1>0, <1>9, <2>1, OtherLookups DEF stashVars
<1> QED
  BY <1>1, <1>2, <1>3, <1>4, <1>5, <1>6, <1>7, <1>8, <1>9 DEF NextStash

LEMMA LookupInvHolds == StashSpec => []LookupInv
<1>1. pc = "build" /\ HeavyHitterList \in [Both -> Item] /\ stHash \in StHashes /\ InitStash => LookupInv
  BY InitStashInv DEF InitStash, LookupInv, FromList, Built, NothingAsked, LookupExact
<1> QED
  BY <1>1, NextLookupInv, PTL DEF StashSpec

\* OAccessFID on a table that OBuildSTable has built returns the size of its flow
\* when the flow is in the stash, even if its block is lost: the stash is scanned
\* after the block, whatever that has left.  Another flow reads as 0 when its block
\* is lost, and when its block is full as its size there, or as 0 if it is not
\* there; of a block with slots that were never written nothing is known.  So for
\* every table, hash function and list, in every order of losses and lookups.
THEOREM LookupExactHolds == StashSpec => []LookupExact
<1>1. LookupInv => LookupExact
  BY DEF LookupInv
<1> QED
  BY <1>1, LookupInvHolds, PTL
--------------------------------------------------------------------------------
(* The merge of the two lists.                                               *)

LEMMA ListShape ==
  /\ Both \in SUBSET Nat /\ Both = Piece(0, 2 * NUM_HEAVY) /\ IsFiniteSet(Both)
  /\ Upper \subseteq Both /\ 2 * NUM_HEAVY \in Nat \ {0} /\ NUM_HEAVY \in Nat \ {0}
  /\ Item # {} /\ Keyed(Item, "size")
<1> USE HeavyAssumption
<1>1. Both \in SUBSET Nat /\ Both = 0 .. 2 * NUM_HEAVY - 1 /\ 2 * NUM_HEAVY \in Nat \ {0}
  BY DEF Both
<1>2. IsFiniteSet(Both)
  BY <1>1, FS_Interval
<1>3. Upper \subseteq Both
  BY DEF Upper, Both
<1>4. [flowID |-> 0, size |-> 0] \in Item
  BY DEF Item
<1>5. \A x \in Item : x["size"] \in Int
  BY DEF Item
<1> QED
  BY <1>1, <1>2, <1>3, <1>4, <1>5 DEF Piece, Keyed

\* The reversal before a bitonic merge exchanges disjoint pairs.
LEMMA ReverseShuffles ==
  ASSUME NEW L \in [Both -> Item]
  PROVE  ReverseFirst(L) \in [Both -> Item] /\ Shuffles(L, ReverseFirst(L), Both)
<1> USE HeavyAssumption
<1> DEFINE Moves(k) == {k, NUM_HEAVY - k} \cap 0 .. NUM_HEAVY \div 2 - 1 # {}
<1>1. PICK q : q = [k \in Both |-> IF Moves(k) THEN NUM_HEAVY - k ELSE k]
  OBVIOUS
<1>2. \A k \in Both : Moves(k) => NUM_HEAVY - k \in Both /\ Moves(NUM_HEAVY - k) /\ k \in Int
  BY DEF Both
<1>3. \A k \in Both : k \in Int /\ NUM_HEAVY - (NUM_HEAVY - k) = k
  BY DEF Both
<1> HIDE DEF Moves
<1>4. q \in [Both -> Both]
  BY <1>1, <1>2
<1>5. \A k \in Both : q[q[k]] = k
  BY <1>1, <1>2, <1>3
<1>6. ReverseFirst(L) = [k \in Both |-> L[q[k]]]
  BY <1>1 DEF ReverseFirst, Moves
<1>7. \A k, l \in Both : q[k] = q[l] => k = l
  BY <1>5
<1>8. \A k \in Both : ReverseFirst(L)[k] = L[q[k]]
  BY <1>6
<1>9. ReverseFirst(L) \in [Both -> Item]
  BY <1>4, <1>6
<1> QED
  BY <1>4, <1>7, <1>8, <1>9 DEF Shuffles

\* The networks of the merge work within the two lists.
LEMMA MergeWorks ==
  /\ testPo2(2 * NUM_HEAVY) => Works(oddEvenMerge[<<0, 2 * NUM_HEAVY, 1>>], Both)
  /\ Works(bitonicMerge[<<0, 2 * NUM_HEAVY, TRUE>>], Both)
<1>1. PICK n : n = 2 * NUM_HEAVY
  OBVIOUS
<1>2. n \in Nat \ {0} /\ n \in Nat /\ 0 \in Nat /\ Both \in SUBSET Nat /\ Piece(0, n) \subseteq Both
  BY <1>1, ListShape
<1>3. ASSUME testPo2(n) PROVE Works(oddEvenMerge[<<0, n, 1>>], Both)
  <2>1. PICK e \in Nat : n = Doubled[e]
    BY <1>2, <1>3, PowerIs DEF testPo2
  <2>2. e # 0
    <3> SUFFICES ASSUME e = 0 PROVE FALSE
      OBVIOUS
    <3>1. n = 1
      BY <2>1, DoubledFacts
    <3> QED
      BY <1>1, <3>1, HeavyAssumption
  <2>3. e - 1 \in Nat /\ e = (e - 1) + 1
    BY <2>2
  <2>4. PICK j \in Nat : e = j + 1
    BY <2>3
  <2>5. Doubled[j + 1] = 2 * Doubled[j] /\ Doubled[j] \in Nat
    BY DoubledFacts
  <2>6. n = 1 * (2 * Doubled[j]) /\ n - 1 + 1 = n
    BY <1>2, <2>1, <2>4, <2>5
  <2>7. 1 \in Nat \ {0}
    OBVIOUS
  <2>8. oddEvenMerge[<<0, n, 1>>] \in Seq(Within(0, n - 1 + 1))
    BY <1>2, <2>6, <2>7, oddEvenMergeIn
  <2> QED
    BY <1>2, <2>6, <2>8, WithinWorks
<1>4. bitonicMerge[<<0, n, TRUE>>] \in Seq(Within(0, n))
  <2>1. TRUE \in BOOLEAN
    OBVIOUS
  <2> QED
    BY <1>2, <2>1, bitonicMergeIn
<1>5. Works(bitonicMerge[<<0, n, TRUE>>], Both)
  BY <1>2, <1>4, WithinWorks
<1> QED
  BY <1>1, <1>3, <1>5

\* The merge keeps the items of the two lists, whichever network it takes.
LEMMA MergeShuffles ==
  ASSUME NEW L \in [Both -> Item]
  PROVE  MergedDESC(L) \in [Both -> Item] /\ Shuffles(L, MergedDESC(L), Both)
<1> DEFINE n == 2 * NUM_HEAVY
<1>1. Item # {} /\ Keyed(Item, "size") /\ FALSE \in BOOLEAN
  BY ListShape
<1>2. CASE testPo2(n)
  <2>1. PICK net : net = oddEvenMerge[<<0, n, 1>>]
    OBVIOUS
  <2>2. Sorts(net, L, Both, Item, "size", FALSE)
    BY <1>1, <1>2, <2>1, MergeWorks DEF Sorts
  <2>3. PICK E : E = Applied(net, L, "size", FALSE)
    OBVIOUS
  <2>4. E \in [Both -> Item] /\ Shuffles(L, E, Both)
    BY <2>2, <2>3, AppliedShuffles
  <2>5. MergedDESC(L) = E
    BY <1>2, <2>1, <2>3 DEF MergedDESC
  <2> QED
    BY <2>4, <2>5
<1>3. CASE ~testPo2(n)
  <2>1. PICK net, R : net = bitonicMerge[<<0, n, TRUE>>] /\ R = ReverseFirst(L)
    OBVIOUS
  <2>2. R \in [Both -> Item] /\ Shuffles(L, R, Both)
    BY <2>1, ReverseShuffles
  <2>3. Sorts(net, R, Both, Item, "size", FALSE)
    BY <1>1, <2>1, <2>2, MergeWorks DEF Sorts
  <2>4. PICK E : E = Applied(net, R, "size", FALSE)
    OBVIOUS
  <2>5. E \in [Both -> Item] /\ Shuffles(R, E, Both)
    BY <2>3, <2>4, AppliedShuffles
  <2>6. MergedDESC(L) = E
    BY <1>3, <2>1, <2>4 DEF MergedDESC
  <2> QED
    BY <2>2, <2>5, <2>6, ShufflesThen
<1> QED
  BY <1>2, <1>3
--------------------------------------------------------------------------------
(* The two tables, from epoch to epoch.                                      *)

\* A step that leaves the table of heavy flows alone and after which nobody asks
\* for it, whatever it makes of the list.
LEMMA AwayLookups ==
  ASSUME LookupInv, HeavyHitterList' \in [Both -> Item], stHash' \in [Flow -> STBucket],
         unplaced' = unplaced, stTable' = stTable, lost' = lost, pc' \notin {"place", "ready"}
  PROVE  LookupInv'
<1>1. ~Built' /\ NothingAsked'
  BY DEF Built, NothingAsked
<1>2. StashTypeOK'
  BY DEF LookupInv, StashInv, StashTypeOK, stTable
<1>3. Numbered' /\ PlacedIsThere' /\ FromList' /\ LookupExact'
  BY <1>1 DEF Numbered, PlacedIsThere, FromList, LookupExact
<1> QED
  BY <1>1, <1>2, <1>3 DEF LookupInv, StashInv

LEMMA InitLookups == Init => LookupInv
<1> USE StashAssumption, EpochAssumption
<1> SUFFICES ASSUME Init PROVE LookupInv
  OBVIOUS
<1>1. HeavyHitterList \in [Both -> Item]
  BY HeavyAssumption DEF Init, NoItem, Item
<1>2. stHash \in StHashes /\ InitStash /\ pc = "idle"
  BY DEF Init
<1>3. StashTypeOK
  BY <1>2 DEF InitStash, StashTypeOK
<1>4. ~Built /\ NothingAsked
  BY <1>2 DEF Built, NothingAsked
<1>5. Numbered /\ PlacedIsThere /\ FromList /\ LookupExact
  BY <1>4 DEF Numbered, PlacedIsThere, FromList, LookupExact
<1> QED
  BY <1>1, <1>3, <1>4, <1>5 DEF LookupInv, StashInv

LEMMA MessageParts ==
  ASSUME NEW m \in Messages
  PROVE  /\ m[1].light \in Light /\ m[2].light \in Light
         /\ m[1].heavy \in [Upper -> Reported] /\ m[2].heavy \in [Upper -> Reported]
  BY EpochAssumption DEF Sketches

LEMMA ArrivedItem ==
  ASSUME NEW m \in Messages, NEW k \in Both
  PROVE  (IF k \in Upper THEN m[1].heavy[k] ELSE m[2].heavy[k - NUM_HEAVY]) \in Reported
<1>1. k \notin Upper => k - NUM_HEAVY \in Upper
  BY HeavyAssumption DEF Both, Upper
<1> QED
  BY <1>1, MessageParts

\* NextChange keeps what is not its own.
LEMMA ChangeFrame ==
  ASSUME NextChange
  PROVE  /\ UNCHANGED HeavyHitterList /\ pc \in {"change", "previous", "current"}
         /\ pc' \in {"previous", "current", "light"}
         /\ \/ pc' \in {"previous", "current"} /\ btHash' = btHash /\ (pc = "change" => pc' = "previous")
            \/ pc' = "light" /\ ForgetTable /\ pc \in {"previous", "current"}
  BY DEF NextChange, ShufflePrevious, InsertPrevious, PreviousFull, ShuffleCurrent, InsertCurrent,
         SpillBucket, NoTmpBucket, InsertTmp, TmpBucketFull, Collect, GiveUp, Counted

\* The list keeps its type and the table of heavy flows its invariant.
LEMMA NextLookups == LookupInv /\ [Next]_vars => LookupInv'
<1> SUFFICES ASSUME LookupInv, [Next]_vars PROVE LookupInv'
  OBVIOUS
<1>0. HeavyHitterList \in [Both -> Item] /\ stHash \in [Flow -> STBucket] /\ lost \in SUBSET STBucket
  BY DEF LookupInv, StashInv, StashTypeOK
<1>1. CASE ReceiveFails \/ UNCHANGED vars
  <2>1. UNCHANGED stashVars
    BY <1>1 DEF ReceiveFails, vars, stashVars, stashT
  <2> QED
    BY <2>1, NextLookupInv
<1>2. CASE Receive
  <2>1. /\ message' \in Messages /\ stHash' \in StHashes /\ pc' = "merge"
        /\ HeavyHitterList' = [k \in Both |-> IF k \in Upper THEN message'[1].heavy[k]
                                                            ELSE message'[2].heavy[k - NUM_HEAVY]]
        /\ unplaced' = unplaced /\ stTable' = stTable /\ lost' = lost
    BY <1>2 DEF Receive
  <2>2. \A k \in Both : HeavyHitterList'[k] \in Item
    BY <2>1, ArrivedItem DEF Reported
  <2>3. HeavyHitterList' \in [Both -> Item]
    BY <2>1, <2>2
  <2>4. stHash' \in [Flow -> STBucket]
    BY <2>1, StashAssumption
  <2> QED
    BY <2>1, <2>3, <2>4, AwayLookups
<1>3. CASE MergeHeavy
  <2>1. HeavyHitterList' = MergedDESC(HeavyHitterList) /\ pc' = "change" /\ UNCHANGED stashT
    BY <1>3 DEF MergeHeavy
  <2>2. HeavyHitterList' \in [Both -> Item]
    BY <1>0, <2>1, MergeShuffles
  <2> QED
    BY <1>0, <2>1, <2>2, AwayLookups DEF stashT
<1>4. CASE NextChange /\ UNCHANGED <<own, stashT>>
  <2>1. UNCHANGED HeavyHitterList /\ pc' \in {"previous", "current", "light"} /\ UNCHANGED stashT
    BY <1>4, ChangeFrame
  <2> QED
    BY <1>0, <2>1, AwayLookups DEF stashT
<1>5. CASE UpdateLight \/ CountAll
  <2>1. UNCHANGED HeavyHitterList /\ pc' \in {"count", "build"} /\ UNCHANGED stashT
    BY <1>5 DEF UpdateLight, CountAll
  <2> QED
    BY <1>0, <2>1, AwayLookups DEF stashT
<1>6. CASE NextStash
  BY <1>6, NextLookupInv
<1>7. ASSUME NEW kind, NEW items, Respond(kind, items) PROVE LookupInv'
  <2>1. /\ found' = NoAnswer /\ pc' = pc
        /\ UNCHANGED <<HeavyHitterList, stHash, builder, unplaced, stTable, lost>>
    BY <1>7 DEF Respond
  <2>2. LookupExact' /\ NothingAsked'
    BY <2>1 DEF LookupExact, NothingAsked
  <2>3. lost' \in SUBSET STBucket
    BY <1>0, <2>1
  <2> QED
    BY <2>1, <2>2, <2>3, OtherLookups
<1>8. CASE \E k \in TopK : OResponseHeavyHitter(k)
  BY <1>7, <1>8 DEF OResponseHeavyHitter
<1>9. CASE \E t \in Thresholds : OResponseHeavyChange(t)
  BY <1>7, <1>9 DEF OResponseHeavyChange
<1> QED
  BY <1>1, <1>2, <1>3, <1>4, <1>5, <1>6, <1>8, <1>9 DEF Next

\* The table of OHeavyChange is empty outside the function.
TableState ==
  /\ pc \in {"previous", "current"} => TableInv
  /\ pc \notin {"previous", "current"} =>
       EmptyTable(BucketTable, idcList, loca, tmpBucketTable, tmpCount) /\ todo = {}
  /\ btHash \in BtHashes

LEMMA InitTable == Init => TableState
  BY EpochAssumption DEF Init, InitChange, TableState, Forgotten

\* A step outside the function.
LEMMA AwayTable ==
  ASSUME TableState, pc \notin {"previous", "current"}, pc' \notin {"previous", "current"},
         UNCHANGED <<todo, table>>, btHash' \in BtHashes
  PROVE  TableState'
  BY DEF TableState, table, EmptyTable

LEMMA NextTable ==
  ASSUME STRIDE = maxsizeBucket
  PROVE  LookupInv /\ TableState /\ [Next]_vars => TableState'
<1> SUFFICES ASSUME LookupInv, TableState, [Next]_vars PROVE TableState'
  OBVIOUS
<1> USE EpochAssumption
<1>0. HeavyHitterList \in [Both -> Item] /\ btHash \in BtHashes
  BY DEF LookupInv, StashInv, TableState
<1>1. CASE Receive
  <2>1. pc \in {"idle", "ready"} /\ pc' = "merge" /\ btHash' \in BtHashes /\ UNCHANGED <<todo, table>>
    BY <1>1 DEF Receive
  <2> QED
    BY <2>1, AwayTable
<1>2. CASE NextChange
  <2>1. TableInv
    <3>1. CASE pc = "change"
      <4>1. EmptyTable(BucketTable, idcList, loca, tmpBucketTable, tmpCount) /\ todo \subseteq Upper
        BY <3>1 DEF TableState
      <4> QED
        BY <1>0, <3>1, <4>1, EmptyInv
    <3>2. CASE pc \in {"previous", "current"}
      BY <3>2 DEF TableState
    <3> QED
      BY <1>2, <3>1, <3>2, ChangeFrame
  <2>2. TableInv'
    BY <1>2, <2>1, NextTableInv
  <2>3. CASE pc' \in {"previous", "current"}
    <3>1. btHash' = btHash
      BY <1>2, <2>3, ChangeFrame
    <3> QED
      BY <1>0, <2>2, <2>3, <3>1 DEF TableState
  <2>4. CASE pc' = "light"
    <3>1. ForgetTable
      BY <1>2, <2>4, ChangeFrame
    <3>2. btHash' \in BtHashes
      BY <3>1 DEF ForgetTable, Forgotten
    <3> QED
      BY <2>4, <3>1, <3>2 DEF TableState, ForgetTable
  <2> QED
    BY <1>2, <2>3, <2>4, ChangeFrame
<1>3. CASE ReceiveFails \/ MergeHeavy \/ UpdateLight \/ CountAll
  <2>1. UNCHANGED <<btHash, todo, table>> /\ pc \notin {"previous", "current"} /\ pc' \notin {"previous", "current"}
    BY <1>3 DEF ReceiveFails, MergeHeavy, UpdateLight, CountAll, change
  <2> QED
    BY <1>0, <2>1, AwayTable
<1>4. CASE NextStash /\ UNCHANGED change
  <2>1. pc \in {"build", "place", "ready"} /\ pc' \in {"place", "ready", "idle"}
    BY <1>4 DEF NextStash, StartBuild, PlaceItem, StashItem, StashFull, EndBuild, LoseBlock, OAccessFID, OTestShuffle
  <2> QED
    BY <1>0, <1>4, <2>1, AwayTable DEF change
<1>5. ASSUME NEW kind, NEW items, Respond(kind, items) PROVE TableState'
  <2>1. pc \in {"idle", "ready"} /\ pc' = pc /\ UNCHANGED change
    BY <1>5 DEF Respond
  <2> QED
    BY <1>0, <2>1, AwayTable DEF change
<1>6. CASE \E k \in TopK : OResponseHeavyHitter(k)
  BY <1>5, <1>6 DEF OResponseHeavyHitter
<1>7. CASE \E t \in Thresholds : OResponseHeavyChange(t)
  BY <1>5, <1>7 DEF OResponseHeavyChange
<1>8. CASE UNCHANGED vars
  <2>1. UNCHANGED changeVars
    BY <1>8 DEF vars, change, changeVars
  <2>2. TableInv => TableInv'
    BY <2>1, NextTableInv
  <2> QED
    BY <2>1, <2>2 DEF TableState, changeVars, table
<1> QED
  BY <1>1, <1>2, <1>3, <1>4, <1>6, <1>7, <1>8 DEF Next

EpochInv == LookupInv /\ TableState

LEMMA LookupsAlways == Spec => []LookupInv
  BY InitLookups, NextLookups, PTL DEF Spec

\* In every epoch, whatever came before it, OBuildSTable has put the flows that it
\* has placed so far where OAccessFID will look for them.
THEOREM EpochPlacedIsThere == Spec => []PlacedIsThere
<1>1. LookupInv => PlacedIsThere
  BY DEF LookupInv, StashInv
<1> QED
  BY <1>1, LookupsAlways, PTL

\* In every epoch OAccessFID returns the size that the current table holds for its
\* flow (or 0 for a lost block, or anything where a block has slots that were never
\* written), and no answer of an earlier epoch is taken for one of this.
THEOREM EpochLookupExact == Spec => []LookupExact
<1>1. LookupInv => LookupExact
  BY DEF LookupInv
<1> QED
  BY <1>1, LookupsAlways, PTL

\* In every epoch what ODelta compares in a bucket are items that hash to it: the
\* table is empty again when the next call begins, however the last one ended.
THEOREM EpochSameBucket ==
  ASSUME STRIDE = maxsizeBucket PROVE Spec => []SameBucket
<1>1. Init => EpochInv
  BY InitLookups, InitTable DEF EpochInv
<1>2. EpochInv /\ [Next]_vars => EpochInv'
  BY NextLookups, NextTable DEF EpochInv
<1>3. EpochInv => SameBucket
  <2> SUFFICES ASSUME EpochInv PROVE SameBucket
    OBVIOUS
  <2>1. CASE pc \in {"previous", "current"}
    BY <2>1 DEF EpochInv, TableState, TableInv
  <2>2. CASE pc \notin {"previous", "current"}
    BY <2>2 DEF SameBucket, Building
  <2> QED
    BY <2>1, <2>2
<1> QED
  BY <1>1, <1>2, <1>3, PTL DEF Spec
--------------------------------------------------------------------------------
(* What arrived, and what the merge makes of it.                             *)

Incoming == [k \in Both |-> Arrived(k)]

MergeState ==
  /\ message \in Messages /\ merged \in [Both -> Item]
  /\ pc = "merge" => HeavyHitterList = Incoming
  /\ pc \in {"change", "previous", "current", "light", "count", "build"} => merged = HeavyHitterList
  /\ pc \notin {"idle", "merge"} => Shuffles(Incoming, merged, Both)

LEMMA InitMerge == Init => MergeState
<1> SUFFICES ASSUME Init PROVE MergeState
  OBVIOUS
<1>1. NoItem \in Item
  BY HeavyAssumption DEF NoItem, Item
<1> QED
  BY <1>1, EpochAssumption DEF Init, MergeState

\* The steps that change neither the message nor the merged lists, nor the list
\* before the table of heavy flows is built.
LEMMA AwayMerge ==
  ASSUME MergeState, UNCHANGED <<message, merged>>, pc' # "merge" \/ pc' = pc,
         pc' # "idle" => pc \notin {"idle", "merge"} \/ pc' = pc,
         UNCHANGED HeavyHitterList \/ pc' \in {"place", "ready", "idle"},
         pc' \in {"change", "previous", "current", "light", "count", "build"}
           => pc \in {"change", "previous", "current", "light", "count", "build"}
  PROVE  MergeState'
<1>1. Incoming' = Incoming
  BY DEF Incoming, Arrived
<1> QED
  BY <1>1 DEF MergeState

\* What the steps other than those of the arrival and the merge leave alone.
LEMMA MergeFrame ==
  ASSUME [Next]_vars
  PROVE  \/ Receive
         \/ MergeHeavy
         \/ /\ UNCHANGED <<message, merged>>
            /\ pc' = pc \/ (pc \notin {"idle", "merge"} /\ pc' # "merge")
            /\ UNCHANGED HeavyHitterList \/ pc' \in {"place", "ready", "idle"}
            /\ pc' \in {"change", "previous", "current", "light", "count", "build"}
                 => pc \in {"change", "previous", "current", "light", "count", "build"}
<1>1. CASE ReceiveFails \/ UNCHANGED vars
  BY <1>1 DEF ReceiveFails, vars, own
<1>2. CASE NextChange /\ UNCHANGED <<own, stashT>>
  BY <1>2, ChangeFrame DEF own
<1>3. CASE UpdateLight \/ CountAll
  BY <1>3 DEF UpdateLight, CountAll
<1>4. CASE NextStash /\ UNCHANGED <<message, merged>>
  BY <1>4 DEF NextStash, StartBuild, PlaceItem, StashItem, StashFull, EndBuild, LoseBlock, OAccessFID, OTestShuffle
<1>5. ASSUME NEW kind, NEW items, Respond(kind, items)
      PROVE UNCHANGED <<message, merged, HeavyHitterList, pc>>
  BY <1>5 DEF Respond
<1>6. CASE (\E k \in TopK : OResponseHeavyHitter(k)) \/ (\E t \in Thresholds : OResponseHeavyChange(t))
  <2>1. UNCHANGED <<message, merged, HeavyHitterList, pc>>
    BY <1>5, <1>6 DEF OResponseHeavyHitter, OResponseHeavyChange
  <2> QED
    BY <2>1
<1> QED
  BY <1>1, <1>2, <1>3, <1>4, <1>6 DEF Next

LEMMA NextMerge == LookupInv /\ MergeState /\ [Next]_vars => MergeState'
<1> SUFFICES ASSUME LookupInv, MergeState, [Next]_vars PROVE MergeState'
  OBVIOUS
<1>0. HeavyHitterList \in [Both -> Item]
  BY DEF LookupInv, StashInv
<1>1. CASE Receive
  <2>1. /\ message' \in Messages /\ pc' = "merge" /\ merged' = merged
        /\ HeavyHitterList' = [k \in Both |-> IF k \in Upper THEN message'[1].heavy[k]
                                                            ELSE message'[2].heavy[k - NUM_HEAVY]]
    BY <1>1 DEF Receive
  <2>2. HeavyHitterList' = Incoming'
    BY <2>1 DEF Incoming, Arrived
  <2> QED
    BY <2>1, <2>2 DEF MergeState
<1>2. CASE MergeHeavy
  <2>1. /\ pc = "merge" /\ pc' = "change" /\ message' = message
        /\ HeavyHitterList' = MergedDESC(HeavyHitterList) /\ merged' = HeavyHitterList'
    BY <1>2 DEF MergeHeavy
  <2>2. Incoming' = Incoming /\ HeavyHitterList = Incoming
    BY <2>1 DEF Incoming, Arrived, MergeState
  <2>3. merged' \in [Both -> Item] /\ Shuffles(Incoming, merged', Both)
    BY <1>0, <2>1, <2>2, MergeShuffles
  <2> QED
    BY <2>1, <2>2, <2>3 DEF MergeState
<1>3. CASE ~Receive /\ ~MergeHeavy
  BY <1>3, MergeFrame, AwayMerge
<1> QED
  BY <1>1, <1>2, <1>3

\* The lists of every message descend: readSketchFile sorts what it sends.
MessagesDescend ==
  \A m \in Messages : Descending(m[1].heavy, NUM_HEAVY) /\ Descending(m[2].heavy, NUM_HEAVY)

LEMMA MergeStep ==
  ASSUME LookupInv, MergeState, MergeHeavy, testPo2(2 * NUM_HEAVY), MessagesDescend
  PROVE  ListMerged'
<1> USE HeavyAssumption
<1>1. PICK L, E, n, net : /\ L = HeavyHitterList /\ E = merged' /\ n = 2 * NUM_HEAVY
                          /\ net = oddEvenMerge[<<0, n, 1>>]
  OBVIOUS
<1>2. L \in [Both -> Item] /\ L = Incoming /\ message' = message /\ message \in Messages /\ E = MergedDESC(L)
  BY <1>1 DEF LookupInv, StashInv, MergeState, MergeHeavy
<1>3. Sorts(net, L, Both, Item, "size", FALSE)
  <2>1. FALSE \in BOOLEAN
    OBVIOUS
  <2> QED
    BY <1>1, <1>2, <2>1, ListShape, MergeWorks DEF Sorts
<1>4. E = Applied(net, L, "size", FALSE)
  BY <1>1, <1>2 DEF MergedDESC
<1>5. E \in [Both -> Item] /\ Shuffles(L, E, Both)
  BY <1>3, <1>4, AppliedShuffles
<1>6. \A k \in Upper : L[k] = message[1].heavy[k] /\ L[NUM_HEAVY + k] = message[2].heavy[k]
  <2> SUFFICES ASSUME NEW k \in Upper
               PROVE  L[k] = message[1].heavy[k] /\ L[NUM_HEAVY + k] = message[2].heavy[k]
    OBVIOUS
  <2>1. k \in Both /\ NUM_HEAVY + k \in Both /\ NUM_HEAVY + k \notin Upper /\ (NUM_HEAVY + k) - NUM_HEAVY = k
    BY DEF Upper, Both
  <2> QED
    BY <1>2, <2>1 DEF Incoming, Arrived
<1>7. /\ \A k \in Upper : message[1].heavy[k].size \in Int /\ message[2].heavy[k].size \in Int
      /\ \A k \in 0 .. NUM_HEAVY - 2 : /\ message[1].heavy[k].size >= message[1].heavy[k + 1].size
                                       /\ message[2].heavy[k].size >= message[2].heavy[k + 1].size
  <2>1. \A item \in Reported : item.size \in Int
    BY DEF Reported, Item
  <2> QED
    BY <1>2, <2>1, MessageParts DEF MessagesDescend, Descending
<1>8. PICK z, h : z = 0 /\ h = NUM_HEAVY
  OBVIOUS
<1>9. InOrder(E, z, n, "size", FALSE)
  <2>1. \A k \in 0 .. h - 2 : /\ k \in Upper /\ k + 1 \in Upper /\ z + k = k /\ z + (k + 1) = k + 1
                              /\ (z + h) + k = NUM_HEAVY + k /\ (z + h) + (k + 1) = NUM_HEAVY + (k + 1)
    BY <1>8 DEF Upper
  <2>2. \A k \in 0 .. h - 2 :
          /\ Key(L[z + k]["size"], FALSE) <= Key(L[z + (k + 1)]["size"], FALSE)
          /\ Key(L[(z + h) + k]["size"], FALSE) <= Key(L[(z + h) + (k + 1)]["size"], FALSE)
    BY <1>6, <1>7, <1>8, <2>1 DEF Key
  <2>3. InOrder(L, z, h, "size", FALSE) /\ InOrder(L, z + h, h, "size", FALSE)
    BY <2>2 DEF InOrder
  <2>4. z \in Nat /\ h \in Nat /\ h # 0 /\ testPo2(2 * h) /\ Piece(z, 2 * h) \subseteq Both /\ n = 2 * h
    BY <1>1, <1>8, ListShape
  <2>5. net = oddEvenMerge[<<z, 2 * h, 1>>]
    BY <1>1, <1>8
  <2>6. InOrder(Applied(oddEvenMerge[<<z, 2 * h, 1>>], L, "size", FALSE), z, 2 * h, "size", FALSE)
    BY <1>3, <2>3, <2>4, <2>5, MergedArray
  <2> QED
    BY <1>4, <2>4, <2>5, <2>6
<1>10. Descending(E, n)
  <2>1. \A k \in 0 .. n - 2 : k \in Both /\ k + 1 \in Both /\ 0 + k = k /\ 0 + (k + 1) = k + 1
    BY <1>1 DEF Both
  <2>2. \A k \in 0 .. n - 2 : E[k].size \in Int /\ E[k + 1].size \in Int
    BY <1>5, <2>1 DEF Item
  <2>3. \A k \in 0 .. n - 2 : Key(E[k]["size"], FALSE) <= Key(E[k + 1]["size"], FALSE)
    BY <1>8, <1>9, <2>1 DEF InOrder
  <2> QED
    BY <2>2, <2>3 DEF Descending, Key
<1>11. ASSUME NEW item
       PROVE  Cardinality({k \in Both : E[k] = item}) = Cardinality({k \in Both : Arrived(k)' = item})
  <2>1. \A k \in Both : Arrived(k)' = L[k]
    BY <1>2 DEF Incoming, Arrived
  <2>2. {k \in Both : Arrived(k)' = item} = {k \in Both : L[k] = item}
    BY <2>1
  <2>3. Cardinality({k \in Both : E[k] = item}) = Cardinality({k \in Both : L[k] = item})
    <3>1. IsFiniteSet(Both) /\ Shuffles(L, E, Both)
      BY <1>5, ListShape
    <3>2. Copies(E, Both, item) = Copies(L, Both, item)
      BY <3>1, ShufflesCount
    <3> QED
      BY <3>2 DEF Copies
  <2> QED
    BY <2>2, <2>3
<1> QED
  BY <1>1, <1>10, <1>11 DEF ListMerged

MergeInv == LookupInv /\ MergeState

LEMMA MergeAlways == Spec => []MergeInv
<1>1. Init => MergeInv
  BY InitLookups, InitMerge DEF MergeInv
<1>2. MergeInv /\ [Next]_vars => MergeInv'
  BY NextLookups, NextMerge DEF MergeInv
<1> QED
  BY <1>1, <1>2, PTL DEF Spec

\* When OHeavyChange begins, the two lists of the epoch are one list of descending
\* sizes with exactly the items that arrived, each as often: for every power of two
\* as the length, as long as the switches send lists that descend.  (For another
\* length the code reverses the first list with an index that is one too high.)
THEOREM ListMergedHolds ==
  ASSUME testPo2(2 * NUM_HEAVY), MessagesDescend
  PROVE  Spec => []ListMerged
<1>1. Init => ListMerged
  BY DEF Init, ListMerged
<1>2. MergeInv /\ ListMerged /\ [Next]_vars => ListMerged'
  <2> SUFFICES ASSUME MergeInv, ListMerged, [Next]_vars PROVE ListMerged'
    OBVIOUS
  <2>1. CASE MergeHeavy
    BY <2>1, MergeStep DEF MergeInv
  <2>2. CASE ~MergeHeavy
    <3> SUFFICES ASSUME pc' = "change" PROVE ListMerged'
      BY DEF ListMerged
    <3>1. UNCHANGED vars
      <4>1. ~Receive /\ ~ReceiveFails /\ ~UpdateLight /\ ~CountAll
        BY DEF Receive, ReceiveFails, UpdateLight, CountAll
      <4>2. ~NextStash
        BY DEF NextStash, StartBuild, PlaceItem, StashItem, StashFull, EndBuild, LoseBlock, OAccessFID, OTestShuffle
      <4>3. ~NextChange
        BY ChangeFrame
      <4>4. ASSUME NEW kind, NEW items, Respond(kind, items) PROVE FALSE
        BY <4>4 DEF Respond
      <4>5. ~(\E k \in TopK : OResponseHeavyHitter(k)) /\ ~(\E t \in Thresholds : OResponseHeavyChange(t))
        BY <4>4 DEF OResponseHeavyHitter, OResponseHeavyChange
      <4> QED
        BY <2>2, <4>1, <4>2, <4>3, <4>5 DEF Next
    <3>2. UNCHANGED <<pc, merged, message>>
      BY <3>1 DEF vars, own
    <3>3. \A k : Arrived(k)' = Arrived(k)
      BY <3>2 DEF Arrived
    <3>4. pc = "change" /\ Descending(merged, 2 * NUM_HEAVY)
      BY <3>2 DEF ListMerged
    <3>5. ASSUME NEW item \in {Arrived(k)' : k \in Both} \cup {merged'[k] : k \in Both}
          PROVE  Cardinality({k \in Both : merged'[k] = item}) = Cardinality({k \in Both : Arrived(k)' = item})
      <4>1. item \in {Arrived(k) : k \in Both} \cup {merged[k] : k \in Both}
        BY <3>2, <3>3, <3>5
      <4>2. Cardinality({k \in Both : merged[k] = item}) = Cardinality({k \in Both : Arrived(k) = item})
        BY <3>4, <4>1 DEF ListMerged
      <4>3. {k \in Both : merged'[k] = item} = {k \in Both : merged[k] = item}
        BY <3>2
      <4>4. {k \in Both : Arrived(k)' = item} = {k \in Both : Arrived(k) = item}
        BY <3>3
      <4> QED
        BY <4>2, <4>3, <4>4
    <3>6. Descending(merged, 2 * NUM_HEAVY)'
      BY <3>2, <3>4 DEF Descending
    <3> QED
      BY <3>5, <3>6 DEF ListMerged
  <2> QED
    BY <2>1, <2>2
<1> QED
  BY <1>1, <1>2, MergeAlways, PTL DEF Spec
--------------------------------------------------------------------------------
(* What arrived is remembered.                                               *)

\* Item k is an upper heavy hitter, or went into the light part, where its counter
\* is as large if the update is exact.
Remembered(k) ==
  LET item == Arrived(k)
  IN \/ item.flowID = 0
     \/ \E j \in Upper : merged[j] = item
     \/ /\ \E j \in Both \ Upper : merged[j] = item
        /\ ExactUpdate => pDataCUSketch[cusHash[item.flowID]] >= Cap(item.size)

\* No counter is below that of a switch.
NotBelow == \A c \in Counter, n \in {1, 2} : pDataCUSketch[c] >= message[n].light[c]

LightState ==
  /\ pDataCUSketch \in Light /\ cusHash \in CusHashes
  /\ pc # "idle" /\ ExactUpdate => NotBelow
  /\ pc \in {"count", "build", "place", "ready"} => \A k \in Both : Remembered(k)

LEMMA InitLight == Init => LightState
<1> SUFFICES ASSUME Init PROVE LightState
  OBVIOUS
<1>1. 0 \in 0 .. CounterMax
  BY EpochAssumption
<1> QED
  BY <1>1, EpochAssumption DEF Init, LightState, Light

\* The larger of two counters, and the largest of some.
LEMMA LargerIs ==
  ASSUME NEW a \in 0 .. CounterMax, NEW b \in 0 .. CounterMax
  PROVE  Larger(a, b) \in 0 .. CounterMax /\ Larger(a, b) >= a /\ Larger(a, b) >= b
  BY EpochAssumption DEF Larger

LEMMA MaxIs ==
  ASSUME NEW V \in SUBSET (0 .. CounterMax), V # {}
  PROVE  Max(V) \in 0 .. CounterMax /\ \A v \in V : Max(V) >= v
<1>1. CounterMax \in Nat /\ V \in SUBSET Nat /\ \A v \in V : v <= CounterMax
  BY EpochAssumption
<1>2. PICK x \in V : \A y \in V : y <= x
  BY <1>1, GreatestNat
<1>3. \E m \in V : \A y \in V : m >= y
  BY <1>1, <1>2
<1> QED
  BY <1>3 DEF Max

LEMMA CapIs ==
  ASSUME NEW item \in Item
  PROVE  Cap(item.size) \in 0 .. CounterMax
  BY EpochAssumption, HeavyAssumption DEF Cap, Item

LEMMA ReceiveLight ==
  ASSUME Receive
  PROVE  LightState'
<1>1. /\ message' \in Messages /\ cusHash' \in CusHashes /\ pc' = "merge"
      /\ pDataCUSketch' = [c \in Counter |-> Larger(message'[1].light[c], message'[2].light[c])]
  BY DEF Receive
<1>2. message'[1].light \in Light /\ message'[2].light \in Light
  BY <1>1, MessageParts
<1>3. \A c \in Counter : /\ pDataCUSketch'[c] \in 0 .. CounterMax
                         /\ pDataCUSketch'[c] >= message'[1].light[c]
                         /\ pDataCUSketch'[c] >= message'[2].light[c]
  BY <1>1, <1>2, LargerIs DEF Light
<1>4. pDataCUSketch' \in Light
  BY <1>1, <1>3 DEF Light
<1>5. NotBelow'
  BY <1>3 DEF NotBelow
<1> QED
  BY <1>1, <1>4, <1>5 DEF LightState

\* The update of the light part takes in the lower list.
LEMMA UpdateStep ==
  ASSUME LookupInv, MergeState, LightState, UpdateLight
  PROVE  LightState'
<1>1. /\ pc = "light" /\ pc' = "count"
      /\ UNCHANGED <<HeavyHitterList, message, merged, cusHash>>
  BY DEF UpdateLight
<1>2. PICK V : V = [c \in Counter |->
                      {pDataCUSketch[c]} \cup {Cap(HeavyHitterList[k].size) : k \in {j \in Both \ Upper : Raises(j, c)}}]
  OBVIOUS
<1>e. ExactUpdate' = ExactUpdate
  BY DEF ExactUpdate
<1>3. ExactUpdate => pDataCUSketch' = [c \in Counter |-> Max(V[c])]
  <2>1. \A c \in Counter : V[c] = {pDataCUSketch[c]}
                              \cup {Cap(HeavyHitterList[k].size) : k \in {j \in Both \ Upper : Raises(j, c)}}
    BY <1>2
  <2>2. ExactUpdate =>
        pDataCUSketch' =
          [c \in Counter |->
             Max({pDataCUSketch[c]} \cup {Cap(HeavyHitterList[k].size) : k \in {j \in Both \ Upper : Raises(j, c)}})]
    BY DEF UpdateLight
  <2> QED
    BY <2>1, <2>2
<1>4. HeavyHitterList \in [Both -> Item] /\ merged = HeavyHitterList /\ pDataCUSketch \in Light
      /\ message \in Messages /\ cusHash \in CusHashes /\ (ExactUpdate => NotBelow) /\ Shuffles(Incoming, merged, Both)
  BY <1>1 DEF LookupInv, StashInv, MergeState, LightState
<1>5. ASSUME NEW c \in Counter
      PROVE  /\ V[c] \in SUBSET (0 .. CounterMax) /\ pDataCUSketch[c] \in V[c]
             /\ \A k \in Both \ Upper : Raises(k, c) => Cap(HeavyHitterList[k].size) \in V[c]
  <2>1. \A k \in Both : Cap(HeavyHitterList[k].size) \in 0 .. CounterMax
    BY <1>4, CapIs
  <2>2. pDataCUSketch[c] \in 0 .. CounterMax
    BY <1>4 DEF Light
  <2> QED
    BY <1>2, <2>1, <2>2
<1>6. ExactUpdate => \A c \in Counter : /\ pDataCUSketch'[c] \in 0 .. CounterMax
                                        /\ \A v \in V[c] : pDataCUSketch'[c] >= v
  BY <1>3, <1>5, MaxIs
<1>7. pDataCUSketch' \in Light
  <2>1. CASE ExactUpdate
    BY <1>3, <1>6, <2>1 DEF Light
  <2>2. CASE ~ExactUpdate
    BY <2>2 DEF UpdateLight
  <2> QED
    BY <2>1, <2>2
<1>8. ExactUpdate => NotBelow'
  <2> SUFFICES ASSUME ExactUpdate, NEW c \in Counter, NEW n \in {1, 2}
               PROVE  pDataCUSketch'[c] >= message[n].light[c]
    BY <1>1 DEF NotBelow
  <2>1. pDataCUSketch'[c] >= pDataCUSketch[c] /\ pDataCUSketch[c] >= message[n].light[c]
    BY <1>4, <1>5, <1>6 DEF NotBelow
  <2>2. message[n].light \in Light
    BY <1>4, MessageParts
  <2>3. message[n].light[c] \in 0 .. CounterMax /\ pDataCUSketch[c] \in 0 .. CounterMax
    BY <1>4, <2>2 DEF Light
  <2>4. pDataCUSketch'[c] \in 0 .. CounterMax
    BY <1>6
  <2> QED
    BY <2>1, <2>3, <2>4
<1>9. ASSUME NEW k \in Both PROVE Remembered(k)'
  <2>1. PICK item : item = Arrived(k)
    OBVIOUS
  <2>2. item \in Reported /\ item \in Item
    BY <1>4, <2>1, ArrivedItem DEF Arrived, Reported
  <2>3. PICK j \in Both : merged[j] = item
    <3>1. Shuffles(merged, Incoming, Both)
      BY <1>4, ListShape, ShufflesBack
    <3> QED
      BY <2>1, <3>1 DEF Shuffles, Incoming
  <2>4. CASE j \in Upper \/ item.flowID = 0
    <3>1. Arrived(k)' = item /\ merged' = merged
      BY <1>1, <2>1 DEF Arrived
    <3>2. item.flowID = 0 \/ \E l \in Upper : merged'[l] = item
      BY <2>3, <2>4, <3>1
    <3> QED
      BY <3>1, <3>2 DEF Remembered
  <2>5. CASE j \notin Upper /\ item.flowID # 0
    <3>1. item.flowID \in Flow
      BY <2>2, <2>5 DEF Reported, Item
    <3>2. PICK c : c = cusHash[item.flowID]
      OBVIOUS
    <3>3. c \in Counter
      BY <1>4, <3>1, <3>2, EpochAssumption
    <3>4. Raises(j, c) /\ Cap(HeavyHitterList[j].size) = Cap(item.size)
      BY <1>4, <2>3, <3>1, <3>2 DEF Raises
    <3>5. ExactUpdate => pDataCUSketch'[c] >= Cap(item.size)
      BY <1>5, <1>6, <2>3, <2>5, <3>3, <3>4
    <3>6. Arrived(k)' = item /\ cusHash' = cusHash /\ Cap(item.size)' = Cap(item.size)
      BY <1>1, <2>1 DEF Arrived
    <3>7. j \in Both \ Upper /\ merged'[j] = item
      BY <1>1, <2>3, <2>5
    <3> QED
      BY <1>e, <3>2, <3>5, <3>6, <3>7 DEF Remembered
  <2> QED
    BY <2>4, <2>5
<1> QED
  BY <1>e, <1>1, <1>4, <1>7, <1>8, <1>9 DEF LightState

\* Other steps leave the light part alone.
LEMMA AwayLight ==
  ASSUME LightState, UNCHANGED <<message, merged, pDataCUSketch, cusHash>>,
         pc' # "idle" => pc # "idle" \/ pc' = pc,
         pc' \in {"count", "build", "place", "ready"} => pc \in {"count", "build", "place", "ready"}
  PROVE  LightState'
<1>1. NotBelow => NotBelow'
  BY DEF NotBelow
<1>e. ExactUpdate' = ExactUpdate
  BY DEF ExactUpdate
<1>2. ASSUME NEW k \in Both, Remembered(k) PROVE Remembered(k)'
  <2>1. PICK item : item = Arrived(k)
    OBVIOUS
  <2>2. Arrived(k)' = item /\ Cap(item.size)' = Cap(item.size)
    BY <2>1 DEF Arrived, Cap
  <2>3. \/ item.flowID = 0
        \/ \E j \in Upper : merged'[j] = item
        \/ /\ \E j \in Both \ Upper : merged'[j] = item
           /\ ExactUpdate => pDataCUSketch'[cusHash'[item.flowID]] >= Cap(item.size)
    BY <1>2, <2>1 DEF Remembered
  <2> QED
    BY <1>e, <2>2, <2>3 DEF Remembered
<1>3. pc' # "idle" => pc # "idle"
  OBVIOUS
<1> QED
  BY <1>e, <1>1, <1>2, <1>3 DEF LightState

LEMMA MergeLight ==
  ASSUME LightState, MergeHeavy
  PROVE  LightState'
<1>1. pc = "merge" /\ pc' = "change" /\ UNCHANGED <<message, pDataCUSketch, cusHash>>
  BY DEF MergeHeavy
<1>2. NotBelow => NotBelow'
  BY <1>1 DEF NotBelow
<1>e. ExactUpdate' = ExactUpdate
  BY DEF ExactUpdate
<1> QED
  BY <1>e, <1>1, <1>2 DEF LightState

LEMMA NextLight == MergeInv /\ LightState /\ [Next]_vars => LightState'
<1> SUFFICES ASSUME MergeInv, LightState, [Next]_vars PROVE LightState'
  OBVIOUS
<1>1. CASE ReceiveFails \/ UNCHANGED vars
  <2>1. UNCHANGED <<message, merged, pDataCUSketch, cusHash, pc>>
    BY <1>1 DEF ReceiveFails, vars, own
  <2> QED
    BY <2>1, AwayLight
<1>2. CASE NextChange /\ UNCHANGED <<own, stashT>>
  <2>1. UNCHANGED <<message, merged, pDataCUSketch, cusHash>> /\ pc # "idle"
        /\ pc' \in {"previous", "current", "light"}
    BY <1>2, ChangeFrame DEF own
  <2> QED
    BY <2>1, AwayLight
<1>3. CASE CountAll
  <2>1. UNCHANGED <<message, merged, pDataCUSketch, cusHash>> /\ pc = "count"
    BY <1>3 DEF CountAll
  <2> QED
    BY <2>1, AwayLight
<1>4. CASE NextStash /\ UNCHANGED <<message, merged, pDataCUSketch, cusHash>>
  <2>1. pc \in {"build", "place", "ready"}
    BY <1>4 DEF NextStash, StartBuild, PlaceItem, StashItem, StashFull, EndBuild, LoseBlock, OAccessFID, OTestShuffle
  <2> QED
    BY <1>4, <2>1, AwayLight
<1>5. ASSUME NEW kind, NEW items, Respond(kind, items) PROVE LightState'
  <2>1. UNCHANGED <<message, merged, pDataCUSketch, cusHash, pc>>
    BY <1>5 DEF Respond
  <2> QED
    BY <2>1, AwayLight
<1>6. CASE (\E k \in TopK : OResponseHeavyHitter(k)) \/ (\E t \in Thresholds : OResponseHeavyChange(t))
  BY <1>5, <1>6 DEF OResponseHeavyHitter, OResponseHeavyChange
<1> QED
  BY <1>1, <1>2, <1>3, <1>4, <1>6, ReceiveLight, UpdateStep, MergeLight DEF Next, MergeInv

\* Once the light part has been updated, every flow that a switch has reported is
\* an upper heavy hitter, with the size that arrived, or it went into the update of
\* the light part with that size.  Where that update has a power of two of blocks,
\* its counter is then at least that large (or 255), and no counter is below that
\* of either switch; for other numbers, such as the default 7680, nothing is said of
\* the counters.  So for every message and hash function, also for the lengths for
\* which the merge does not sort.
THEOREM NothingForgottenHolds == Spec => []NothingForgotten
<1>1. Init => LightState
  BY InitLight
<1>2. MergeInv /\ LightState /\ [Next]_vars => LightState'
  BY NextLight
<1>3. LightState => NothingForgotten
  BY DEF LightState, NothingForgotten, NotBelow, Remembered
<1> QED
  BY <1>1, <1>2, <1>3, MergeAlways, PTL DEF Spec
--------------------------------------------------------------------------------
(* The list of changes.                                                      *)

\* The empty items of a message have no size, as in sketch.data0 and sketch.data1,
\* where the unused entries of the heavy part are zero.
EmptyItems ==
  \A m \in Messages : \A k \in Upper :
    /\ m[1].heavy[k].flowID = 0 => m[1].heavy[k].size = 0
    /\ m[2].heavy[k].flowID = 0 => m[2].heavy[k].size = 0

\* What ChangesExact says of the list that Collect leaves.
ChangesKnown ==
  pc = "light" =>
    \/ numHeavyChange = 0 /\ \A k \in Both : HeavyChangeList[k] = Raw
    \/ /\ Descending(HeavyChangeList, 2 * NUM_HEAVY)
       /\ FlowsDiffer =>
            /\ {HeavyChangeList[k] : k \in 0 .. numHeavyChange - 1} = TestHeavyChange_NO_MAP
            /\ numHeavyChange = Cardinality(TestHeavyChange_NO_MAP)
            /\ \A k \in numHeavyChange .. 2 * NUM_HEAVY - 1 : HeavyChangeList[k].size = 0

LEMMA TableAt ==
  ASSUME LookupInv, TableState, NextChange
  PROVE  TableInv
<1>1. CASE pc = "change"
  <2>1. EmptyTable(BucketTable, idcList, loca, tmpBucketTable, tmpCount) /\ todo \subseteq Upper
    BY <1>1 DEF TableState
  <2>2. HeavyHitterList \in [Both -> Item] /\ btHash \in BtHashes
    BY DEF LookupInv, StashInv, TableState
  <2> QED
    BY <1>1, <2>1, <2>2, EmptyInv
<1>2. CASE pc \in {"previous", "current"}
  BY <1>2 DEF TableState
<1> QED
  BY <1>1, <1>2, ChangeFrame

\* What arrived has neither a dummy nor an empty item with a size, and the merge
\* adds none.
LEMMA GenuineAt ==
  ASSUME MergeState, EmptyItems, pc \in {"change", "previous", "current", "light"}
  PROVE  Genuine(HeavyHitterList)
<1>1. /\ message \in Messages /\ merged = HeavyHitterList
      /\ Shuffles(Incoming, merged, Both)
  BY DEF MergeState
<1>2. ASSUME NEW k \in Both
      PROVE  Arrived(k).flowID # DUMMY_FLOW /\ (Arrived(k).flowID = 0 => Arrived(k).size = 0)
  <2>1. Arrived(k) \in Reported
    BY <1>1, ArrivedItem DEF Arrived
  <2>2. k \notin Upper => k - NUM_HEAVY \in Upper
    BY HeavyAssumption DEF Both, Upper
  <2>3. Arrived(k).flowID = 0 => Arrived(k).size = 0
    BY <1>1, <2>2 DEF Arrived, EmptyItems
  <2> QED
    BY <2>1, <2>3 DEF Reported
<1>3. \A x \in Both : \E k \in Both : HeavyHitterList[x] = Arrived(k)
  BY <1>1 DEF Shuffles, Incoming
<1> QED
  BY <1>2, <1>3 DEF Genuine

\* Collect leaves the changes of the plain version.
LEMMA CollectKnown ==
  ASSUME LookupInv, TableState, MergeState, PlacedInv, EmptyItems, Collect
  PROVE  ChangesKnown'
<1>1. /\ pc = "current" /\ pc' = "light" /\ HeavyHitterList' = HeavyHitterList
      /\ numHeavyChange' = Cardinality({k \in Both : HeavyChangeList'[k].size > 0})
  BY DEF Collect
<1>2. TableInv
  BY TableAt DEF NextChange
<1>3. Placed /\ Genuine(HeavyHitterList) /\ HeavyHitterList \in [Both -> Item]
  BY <1>1, GenuineAt DEF PlacedInv, Building, LookupInv, StashInv
<1>4. PICK L, n : L = HeavyChangeList' /\ n = numHeavyChange'
  OBVIOUS
<1>5. /\ L \in [Both -> Item] /\ Descending(L, 2 * NUM_HEAVY) /\ n = Cardinality({k \in Both : L[k].size > 0})
      /\ FlowsDiffer => \E q : Becoming(q, L)
  BY <1>1, <1>2, <1>3, <1>4, CollectIs
<1>6. ASSUME FlowsDiffer
      PROVE  /\ {L[k] : k \in 0 .. n - 1} = TestHeavyChange_NO_MAP
             /\ n = Cardinality(TestHeavyChange_NO_MAP)
             /\ \A k \in n .. 2 * NUM_HEAVY - 1 : L[k].size = 0
  <2>1. PICK q : Becoming(q, L)
    BY <1>5, <1>6
  <2> QED
    BY <1>3, <1>5, <1>6, <2>1, ChangesAre
<1>7. FlowsDiffer' => FlowsDiffer
  BY <1>1 DEF FlowsDiffer
<1>8. TestHeavyChange_NO_MAP' = TestHeavyChange_NO_MAP
  BY <1>1 DEF TestHeavyChange_NO_MAP, get_stat_map
<1> QED
  BY <1>4, <1>5, <1>6, <1>7, <1>8 DEF ChangesKnown

LEMMA NextKnown ==
  ASSUME LookupInv, TableState, MergeState, PlacedInv, EmptyItems, NextChange
  PROVE  ChangesKnown'
<1>1. CASE Collect
  BY <1>1, CollectKnown
<1>2. CASE ~Collect
  <2>1. pc' = "light" => /\ pc \in {"previous", "current"}
                         /\ numHeavyChange' = 0 /\ HeavyChangeList' = HeavyChangeList
    BY <1>2 DEF NextChange, ShufflePrevious, InsertPrevious, PreviousFull, ShuffleCurrent, InsertCurrent,
                SpillBucket, NoTmpBucket, InsertTmp, TmpBucketFull, GiveUp, Counted
  <2>2. pc' = "light" => numHeavyChange' = 0 /\ \A k \in Both : HeavyChangeList'[k] = Raw
    BY <2>1 DEF PlacedInv, Building, NoChanges
  <2> QED
    BY <2>2 DEF ChangesKnown
<1> QED
  BY <1>1, <1>2

\* Only the steps of OHeavyChange lead to where they end.
LEMMA KnownFrame ==
  ASSUME [Next]_vars
  PROVE  NextChange \/ pc' \notin {"previous", "current", "light"} \/ UNCHANGED vars
<1>1. ASSUME NEW kind, NEW items, Respond(kind, items) PROVE pc' \notin {"previous", "current", "light"}
  BY <1>1 DEF Respond
<1>2. CASE (\E k \in TopK : OResponseHeavyHitter(k)) \/ (\E t \in Thresholds : OResponseHeavyChange(t))
  BY <1>1, <1>2 DEF OResponseHeavyHitter, OResponseHeavyChange
<1>3. CASE NextStash
  BY <1>3 DEF NextStash, StartBuild, PlaceItem, StashItem, StashFull, EndBuild, LoseBlock, OAccessFID, OTestShuffle
<1>4. CASE ReceiveFails \/ Receive \/ MergeHeavy \/ UpdateLight \/ CountAll
  BY <1>4 DEF ReceiveFails, Receive, MergeHeavy, UpdateLight, CountAll
<1> QED
  BY <1>2, <1>3, <1>4 DEF Next

LEMMA UnchangedPlaced ==
  ASSUME PlacedInv, TableState, UNCHANGED vars, STRIDE = maxsizeBucket
  PROVE  PlacedInv'
<1>1. UNCHANGED changeVars
  BY DEF vars, change, changeVars
<1>2. CASE pc \in {"previous", "current"}
  <2>1. TableInv
    BY <1>2 DEF TableState
  <2> QED
    BY <1>1, <2>1, NextPlaced
<1>3. CASE pc \notin {"previous", "current"}
  BY <1>1, <1>3 DEF PlacedInv, Building, changeVars
<1> QED
  BY <1>2, <1>3

LEMMA UnchangedKnown ==
  ASSUME ChangesKnown, UNCHANGED vars
  PROVE  ChangesKnown'
<1>1. /\ pc' = pc /\ HeavyHitterList' = HeavyHitterList
      /\ HeavyChangeList' = HeavyChangeList /\ numHeavyChange' = numHeavyChange
  BY DEF vars, change
<1>2. FlowsDiffer' => FlowsDiffer
  BY <1>1 DEF FlowsDiffer
<1>3. TestHeavyChange_NO_MAP' = TestHeavyChange_NO_MAP
  BY <1>1 DEF TestHeavyChange_NO_MAP, get_stat_map
<1> QED
  BY <1>1, <1>2, <1>3 DEF ChangesKnown

LEMMA ChangesAlways ==
  ASSUME STRIDE = maxsizeBucket, EmptyItems
  PROVE  Spec => [](MergeInv /\ TableState /\ PlacedInv /\ ChangesKnown)
<1>1. Init => MergeInv /\ TableState /\ PlacedInv /\ ChangesKnown
  <2>1. Init => PlacedInv /\ ChangesKnown
    BY DEF Init, PlacedInv, Building, ChangesKnown
  <2> QED
    BY <2>1, InitLookups, InitMerge, InitTable DEF MergeInv
<1>2. MergeInv /\ TableState /\ PlacedInv /\ ChangesKnown /\ [Next]_vars
        => MergeInv' /\ TableState' /\ PlacedInv' /\ ChangesKnown'
  <2> SUFFICES ASSUME MergeInv, TableState, PlacedInv, ChangesKnown, [Next]_vars
               PROVE  MergeInv' /\ TableState' /\ PlacedInv' /\ ChangesKnown'
    OBVIOUS
  <2>1. MergeInv' /\ TableState'
    BY NextLookups, NextMerge, NextTable DEF MergeInv
  <2>2. CASE NextChange
    <3>1. TableInv
      BY <2>2, TableAt DEF MergeInv
    <3> QED
      BY <2>1, <2>2, <3>1, NextPlaced, NextKnown DEF MergeInv
  <2>3. CASE pc' \notin {"previous", "current", "light"}
    BY <2>1, <2>3 DEF PlacedInv, Building, ChangesKnown
  <2>4. CASE UNCHANGED vars
    BY <2>1, <2>4, UnchangedPlaced, UnchangedKnown
  <2> QED
    BY <2>2, <2>3, <2>4, KnownFrame
<1> QED
  BY <1>1, <1>2, PTL DEF Spec

\* In every epoch OHeavyChange either gives up, and then says so, or returns what
\* TestHeavyChange_NO_MAP computes with maps: exactly the flows whose size differs
\* between the two lists, each once and with the difference, the largest first; and
\* what ODelta leaves of the buckets has exactly the length of both lists, so the
\* check of acount never fails.  So for every number and size of the buckets, as
\* long as the literal 32 is the size of the larger ones, every hash function and
\* every way in which buckets overflow.
THEOREM ChangesExactHolds ==
  ASSUME STRIDE = maxsizeBucket, EmptyItems
  PROVE  Spec => []ChangesExact
<1>1. TableState /\ PlacedInv /\ ChangesKnown => ChangesExact
  <2> SUFFICES ASSUME TableState, PlacedInv, ChangesKnown PROVE ChangesExact
    OBVIOUS
  <2>1. ASSUME pc = "current", todo = {} PROVE Len(Collected) = 2 * NUM_HEAVY
    <3>1. TableInv
      BY <2>1 DEF TableState
    <3>2. PICK at : Places(at)
      BY <2>1 DEF PlacedInv, Building, Placed
    <3> QED
      BY <2>1, <3>1, <3>2, CollectedFrom
  <2> QED
    BY <2>1 DEF ChangesExact, ChangesKnown
<1> QED
  BY <1>1, ChangesAlways, PTL
--------------------------------------------------------------------------------
(* Responses.                                                                *)

\* The list has the sizes of the merge: building the table of heavy flows gives
\* its items other identifiers, but neither moves them nor changes their sizes.
SizesKept == pc # "merge" => \A k \in Both : HeavyHitterList[k].size = merged[k].size

\* What numHeavyChange says of HeavyChangeList, in this epoch or after it.
ChangesCounted ==
  numHeavyChange > 0 =>
    /\ HeavyChangeList \in [Both -> Item] /\ Descending(HeavyChangeList, 2 * NUM_HEAVY)
    /\ numHeavyChange = Cardinality({k \in Both : HeavyChangeList[k].size > 0})

\* An answer is from what is there now: nobody asks while an epoch is prepared.
Answered == (pc \notin {"idle", "ready"} => response = NoResponse) /\ ResponseSound

LEMMA NoneSound ==
  ASSUME response' = NoResponse
  PROVE  Answered'
<1>1. response'.items = <<>> /\ response'.kind = "none" /\ Len(<<>>) = 0
  BY DEF NoResponse
<1> QED
  BY <1>1, HeavyAssumption DEF Answered, ResponseSound

LEMMA RenumberedSizes ==
  ASSUME NEW first \in {0, 1}, HeavyHitterList \in [Both -> Item], Renumbered(first)
  PROVE  \A k \in Both : HeavyHitterList'[k].size = HeavyHitterList[k].size
<1>1. \A k \in Both : HeavyHitterList'[k] = IF k \in Upper THEN [HeavyHitterList[k] EXCEPT !.flowID = k + first]
                                            ELSE HeavyHitterList[k]
  BY DEF Renumbered
<1>2. \A x \in Item : \A f : [x EXCEPT !.flowID = f].size = x.size
  BY DEF Item
<1>3. ASSUME NEW k \in Both PROVE HeavyHitterList'[k].size = HeavyHitterList[k].size
  <2>1. PICK x : x = HeavyHitterList[k]
    OBVIOUS
  <2>2. x \in Item
    BY <2>1
  <2>3. HeavyHitterList'[k] = IF k \in Upper THEN [x EXCEPT !.flowID = k + first] ELSE x
    BY <1>1, <2>1
  <2>4. [x EXCEPT !.flowID = k + first].size = x.size
    BY <1>2, <2>2
  <2> QED
    BY <2>1, <2>3, <2>4
<1> QED
  BY <1>3

LEMMA StashSizes ==
  ASSUME NextStash, HeavyHitterList \in [Both -> Item]
  PROVE  /\ \A k \in Both : HeavyHitterList'[k].size = HeavyHitterList[k].size
         /\ pc \in {"build", "place", "ready"}
<1>1. Renumbered(0) \/ Renumbered(1) \/ UNCHANGED HeavyHitterList
  BY DEF NextStash, StartBuild, PlaceItem, StashItem, StashFull, EndBuild, LoseBlock, OAccessFID, OTestShuffle
<1>2. pc \in {"build", "place", "ready"}
  BY DEF NextStash, StartBuild, PlaceItem, StashItem, StashFull, EndBuild, LoseBlock, OAccessFID, OTestShuffle
<1>3. 0 \in {0, 1} /\ 1 \in {0, 1}
  OBVIOUS
<1>4. CASE Renumbered(0)
  BY <1>2, <1>3, <1>4, RenumberedSizes
<1>5. CASE Renumbered(1)
  BY <1>2, <1>3, <1>5, RenumberedSizes
<1>6. CASE UNCHANGED HeavyHitterList
  BY <1>2, <1>6
<1> QED
  BY <1>1, <1>4, <1>5, <1>6

LEMMA NextSizes == LookupInv /\ SizesKept /\ [Next]_vars => SizesKept'
<1> SUFFICES ASSUME LookupInv, SizesKept, [Next]_vars PROVE SizesKept'
  OBVIOUS
<1>1. CASE Receive
  BY <1>1 DEF Receive, SizesKept
<1>2. CASE MergeHeavy
  BY <1>2 DEF MergeHeavy, SizesKept
<1>3. CASE NextStash /\ UNCHANGED merged
  <2>1. HeavyHitterList \in [Both -> Item]
    BY DEF LookupInv, StashInv
  <2> QED
    BY <1>3, <2>1, StashSizes DEF SizesKept
<1>4. CASE ReceiveFails \/ UpdateLight \/ CountAll \/ UNCHANGED vars
  <2>1. UNCHANGED <<HeavyHitterList, merged>> /\ (pc' = pc \/ pc # "merge")
    BY <1>4 DEF ReceiveFails, UpdateLight, CountAll, vars, own
  <2> QED
    BY <2>1 DEF SizesKept
<1>5. CASE NextChange /\ UNCHANGED own
  <2>1. UNCHANGED <<HeavyHitterList, merged>> /\ pc # "merge"
    BY <1>5, ChangeFrame DEF own
  <2> QED
    BY <2>1 DEF SizesKept
<1>6. ASSUME NEW kind, NEW items, Respond(kind, items) PROVE SizesKept'
  BY <1>6 DEF Respond, SizesKept
<1>7. CASE (\E k \in TopK : OResponseHeavyHitter(k)) \/ (\E t \in Thresholds : OResponseHeavyChange(t))
  BY <1>6, <1>7 DEF OResponseHeavyHitter, OResponseHeavyChange
<1> QED
  BY <1>1, <1>2, <1>3, <1>4, <1>5, <1>7 DEF Next

LEMMA NextCounted ==
  ASSUME LookupInv, TableState, PlacedInv, ChangesCounted, [Next]_vars
  PROVE  ChangesCounted'
<1>1. CASE Collect
  <2>1. TableInv /\ Placed
    BY <1>1, TableAt DEF NextChange, PlacedInv, Building, Collect
  <2>2. HeavyChangeList' \in [Both -> Item] /\ Descending(HeavyChangeList', 2 * NUM_HEAVY)
    BY <1>1, <2>1, CollectIs
  <2>3. numHeavyChange' = Cardinality({k \in Both : HeavyChangeList'[k].size > 0})
    BY <1>1 DEF Collect
  <2> QED
    BY <2>2, <2>3 DEF ChangesCounted
<1>2. ASSUME UNCHANGED <<HeavyChangeList, numHeavyChange>> PROVE ChangesCounted'
  BY <1>2 DEF ChangesCounted
<1>3. CASE NextChange /\ ~Collect
  <2>1. numHeavyChange' = 0 \/ UNCHANGED <<HeavyChangeList, numHeavyChange>>
    BY <1>3 DEF NextChange, ShufflePrevious, InsertPrevious, PreviousFull, ShuffleCurrent, InsertCurrent,
                SpillBucket, NoTmpBucket, InsertTmp, TmpBucketFull, GiveUp, Counted
  <2>2. CASE numHeavyChange' = 0
    <3>1. ~(numHeavyChange' > 0)
      BY <2>2
    <3> QED
      BY <3>1 DEF ChangesCounted
  <2> QED
    BY <1>2, <2>1, <2>2
<1>4. CASE Receive \/ ReceiveFails \/ MergeHeavy \/ UpdateLight \/ CountAll \/ UNCHANGED vars
  <2>1. UNCHANGED <<HeavyChangeList, numHeavyChange>>
    BY <1>4 DEF Receive, ReceiveFails, MergeHeavy, UpdateLight, CountAll, vars, change
  <2> QED
    BY <1>2, <2>1
<1>5. CASE UNCHANGED change
  BY <1>2, <1>5 DEF change
<1>6. ASSUME NEW kind, NEW items, Respond(kind, items) PROVE UNCHANGED change
  BY <1>6 DEF Respond
<1>7. CASE (\E k \in TopK : OResponseHeavyHitter(k)) \/ (\E t \in Thresholds : OResponseHeavyChange(t))
  BY <1>5, <1>6, <1>7 DEF OResponseHeavyHitter, OResponseHeavyChange
<1> QED
  BY <1>1, <1>3, <1>4, <1>5, <1>7 DEF Next

\* In a list that descends, every later item is no larger.
LEMMA DescendsFar ==
  ASSUME NEW L \in [Both -> Item], Descending(L, 2 * NUM_HEAVY), NEW k \in Both, NEW l \in Both, k <= l
  PROVE  L[k].size >= L[l].size
<1>1. PICK N : N = 2 * NUM_HEAVY
  OBVIOUS
<1>2. N \in Nat /\ Both = 0 .. N - 1
  BY <1>1, HeavyAssumption DEF Both
<1>3. \A j \in Both : L[j].size \in Nat
  BY HeavyAssumption DEF Item
<1>4. PICK d : d = l - k
  OBVIOUS
<1>5. d \in Nat /\ k \in Nat /\ k + d = l /\ l \in 0 .. N - 1
  BY <1>2, <1>4
<1> DEFINE T == {i \in 0 .. d : L[k].size >= L[k + i].size}
<1>6. 0 \in T
  <2>1. 0 \in 0 .. d /\ k + 0 = k
    BY <1>5
  <2> QED
    BY <1>3, <2>1
<1>7. ASSUME NEW i \in 1 .. d, i - 1 \in T PROVE i \in T
  <2>1. PICK j : j = k + (i - 1)
    OBVIOUS
  <2>2. j \in 0 .. N - 2 /\ j \in Both /\ j + 1 \in Both /\ k + i = j + 1 /\ i \in 0 .. d
    BY <1>2, <1>5, <2>1
  <2>3. L[j].size >= L[j + 1].size /\ L[k].size >= L[j].size
    BY <1>1, <1>7, <2>1, <2>2 DEF Descending
  <2>4. L[k].size >= L[j + 1].size
    BY <1>3, <2>2, <2>3
  <2> QED
    BY <2>2, <2>4
<1>8. 0 .. d \subseteq T
  <2> HIDE DEF T
  <2> QED
    BY <1>5, <1>6, <1>7, LoopKeeps
<1>9. d \in 0 .. d
  BY <1>5
<1> QED
  BY <1>5, <1>8, <1>9

\* A prefix of a list, as a response.
LEMMA PrefixIs ==
  ASSUME NEW L, NEW n \in 0 .. NUM_HEAVY, NEW r, r = [k \in 1 .. n |-> L[k - 1]]
  PROVE  /\ Len(r) = n
         /\ \A k \in 1 .. n : r[k] = L[k - 1] /\ k - 1 \in Both /\ k - 1 <= n - 1
<1>1. n \in Nat /\ NUM_HEAVY \in Nat
  BY HeavyAssumption
<1>2. Len(r) = n
  BY <1>1
<1>3. \A k \in 1 .. n : k - 1 \in Both /\ k - 1 <= n - 1
  BY <1>1 DEF Both
<1> QED
  BY <1>2, <1>3

LEMMA HittersSound ==
  ASSUME LookupInv, SizesKept, NEW topK \in TopK, OResponseHeavyHitter(topK)
  PROVE  Answered'
<1>1. PICK n \in 0 .. NUM_HEAVY : n = IF topK > NUM_HEAVY THEN NUM_HEAVY ELSE topK
  BY EpochAssumption, HeavyAssumption
<1>3. PICK r : r = [k \in 1 .. n |-> HeavyHitterList[k - 1]]
  OBVIOUS
<1>4. Respond("hitters", r)
  BY <1>1, <1>3 DEF OResponseHeavyHitter
<1>5. /\ response' = [kind |-> "hitters", items |-> r] /\ merged' = merged
      /\ pc \in {"idle", "ready"} /\ pc' = pc
  BY <1>4 DEF Respond
<1>6. response'.items = r /\ response'.kind = "hitters"
  BY <1>5
<1>7. Len(r) = n /\ \A k \in 1 .. n : r[k] = HeavyHitterList[k - 1] /\ k - 1 \in Both
  <2>1. PICK L : L = HeavyHitterList
    OBVIOUS
  <2>2. r = [k \in 1 .. n |-> L[k - 1]]
    BY <1>3, <2>1
  <2>3. Len(r) = n
    BY <2>2, HeavyAssumption
  <2>4. \A k \in 1 .. n : r[k] = L[k - 1] /\ k - 1 \in Both
    BY <2>2, HeavyAssumption DEF Both
  <2> QED
    BY <2>1, <2>3, <2>4
<1>8. \A k \in 1 .. n : r[k].size = merged[k - 1].size
  BY <1>5, <1>7 DEF SizesKept
<1>9. n <= NUM_HEAVY
  BY HeavyAssumption
<1> QED
  BY <1>5, <1>6, <1>7, <1>8, <1>9 DEF Answered, ResponseSound

LEMMA ChangesSound ==
  ASSUME ChangesCounted, NEW threshold, OResponseHeavyChange(threshold)
  PROVE  Answered'
<1>1. PICK n \in 0 .. NUM_HEAVY : Respond("changes", [k \in 1 .. n |-> HeavyChangeList[k - 1]])
  BY DEF OResponseHeavyChange
<1>2. PICK r, L, c : r = [k \in 1 .. n |-> HeavyChangeList[k - 1]] /\ L = HeavyChangeList /\ c = numHeavyChange
  OBVIOUS
<1>3. /\ response' = [kind |-> "changes", items |-> r] /\ HeavyChangeList' = L /\ numHeavyChange' = c
      /\ pc \in {"idle", "ready"} /\ pc' = pc
  BY <1>1, <1>2 DEF Respond, change
<1>4. response'.items = r /\ response'.kind = "changes"
  BY <1>3
<1>5. Len(r) = n /\ \A k \in 1 .. n : r[k] = L[k - 1] /\ k - 1 \in Both /\ k - 1 <= n - 1
  <2>1. r = [k \in 1 .. n |-> L[k - 1]]
    BY <1>2
  <2> QED
    BY <2>1, PrefixIs
<1>6. ASSUME c > 0, NEW k \in 1 .. n
      PROVE  /\ r[k] \in Item
             /\ \A l \in 1 .. n : k <= l => r[k].size >= r[l].size
             /\ \A j \in n .. 2 * NUM_HEAVY - 1 : r[k].size >= L[j].size
             /\ r[k].size > 0 => \E j \in 0 .. c - 1 : L[j] = r[k]
  <2>1. /\ L \in [Both -> Item] /\ Descending(L, 2 * NUM_HEAVY)
        /\ c = Cardinality({i \in Both : L[i].size > 0})
    BY <1>2, <1>6 DEF ChangesCounted
  <2>2. PICK i : i = k - 1
    OBVIOUS
  <2>3. i \in Both /\ i <= n - 1 /\ n \in Nat /\ r[k] = L[i]
    BY <1>5, <2>2, HeavyAssumption
  <2>4. ASSUME NEW j \in Both, i <= j PROVE L[i].size >= L[j].size
    BY <2>1, <2>3, <2>4, DescendsFar
  <2>a. ASSUME NEW l \in 1 .. n, k <= l PROVE r[k].size >= r[l].size
    <3>1. PICK j : j = l - 1
      OBVIOUS
    <3>2. j \in Both /\ i <= j /\ r[l] = L[j]
      BY <1>5, <2>2, <2>a, <3>1
    <3> QED
      BY <2>3, <2>4, <3>2
  <2>b. ASSUME NEW j \in n .. 2 * NUM_HEAVY - 1 PROVE r[k].size >= L[j].size
    <3>1. j \in Both /\ i <= j
      BY <2>3, HeavyAssumption DEF Both
    <3> QED
      BY <2>3, <2>4, <3>1
  <2>5. {j \in Both : L[j].size > 0} = 0 .. c - 1
    BY <2>1, PositivesFirst
  <2>6. L[i].size > 0 => i \in 0 .. c - 1
    BY <2>3, <2>5
  <2> QED
    BY <2>1, <2>3, <2>a, <2>b, <2>6
<1>7. n <= NUM_HEAVY
  BY HeavyAssumption
<1> QED
  BY <1>3, <1>4, <1>5, <1>6, <1>7 DEF Answered, ResponseSound

LEMMA NextAnswered ==
  ASSUME LookupInv, SizesKept, ChangesCounted, Answered, [Next]_vars
  PROVE  Answered'
<1>1. CASE ReceiveFails \/ Receive \/ (NextStash /\ response' = NoResponse)
  BY <1>1, NoneSound DEF ReceiveFails, Receive
<1>2. CASE MergeHeavy \/ UpdateLight \/ CountAll
  <2>1. response' = NoResponse
    BY <1>2 DEF MergeHeavy, UpdateLight, CountAll, Answered
  <2> QED
    BY <2>1, NoneSound
<1>3. CASE NextChange /\ UNCHANGED own
  <2>1. response' = NoResponse
    BY <1>3, ChangeFrame DEF own, Answered
  <2> QED
    BY <2>1, NoneSound
<1>4. CASE \E k \in TopK : OResponseHeavyHitter(k)
  BY <1>4, HittersSound
<1>5. CASE \E t \in Thresholds : OResponseHeavyChange(t)
  BY <1>5, ChangesSound
<1>6. CASE UNCHANGED vars
  BY <1>6 DEF vars, own, change, Answered, ResponseSound
<1> QED
  BY <1>1, <1>2, <1>3, <1>4, <1>5, <1>6 DEF Next

ResponseInv == LookupInv /\ TableState /\ PlacedInv /\ SizesKept /\ ChangesCounted /\ Answered

LEMMA InitResponse == Init => ResponseInv
<1> SUFFICES ASSUME Init PROVE ResponseInv
  OBVIOUS
<1>1. LookupInv /\ TableState
  BY InitLookups, InitTable
<1>2. PlacedInv /\ SizesKept /\ ChangesCounted
  BY DEF Init, InitChange, PlacedInv, Building, SizesKept, ChangesCounted
<1>3. response = NoResponse
  BY DEF Init
<1>4. response.items = <<>> /\ response.kind = "none" /\ Len(<<>>) = 0
  BY <1>3 DEF NoResponse
<1>5. Answered
  BY <1>3, <1>4, HeavyAssumption DEF Answered, ResponseSound
<1> QED
  BY <1>1, <1>2, <1>5 DEF ResponseInv

\* Every answer is from the current lists: of the heavy hitters, the first sizes of
\* the merge, though OBuildSTable has renumbered their flows meanwhile; of the
\* changes, if numHeavyChange says that there are any, items in descending order,
\* with a size only those that numHeavyChange counts, and nothing left out that is
\* larger; never more than one list has.  So for every request, between any two
\* epochs.
THEOREM ResponseSoundHolds ==
  ASSUME STRIDE = maxsizeBucket
  PROVE  Spec => []ResponseSound
<1>1. ResponseInv /\ [Next]_vars => ResponseInv'
  <2> SUFFICES ASSUME ResponseInv, [Next]_vars PROVE ResponseInv'
    OBVIOUS
  <2>1. LookupInv' /\ TableState' /\ SizesKept' /\ ChangesCounted' /\ Answered'
    BY NextLookups, NextTable, NextSizes, NextCounted, NextAnswered DEF ResponseInv
  <2>2. PlacedInv'
    <3>1. CASE NextChange
      BY <3>1, TableAt, NextPlaced DEF ResponseInv
    <3>2. CASE pc' \notin {"previous", "current", "light"}
      BY <3>2 DEF PlacedInv, Building
    <3>3. CASE UNCHANGED vars
      BY <3>3, UnchangedPlaced DEF ResponseInv
    <3> QED
      BY <3>1, <3>2, <3>3, KnownFrame
  <2> QED
    BY <2>1, <2>2 DEF ResponseInv
<1>2. ResponseInv => ResponseSound
  BY DEF ResponseInv, Answered
<1> QED
  BY <1>1, <1>2, InitResponse, PTL DEF Spec
================================================================================
