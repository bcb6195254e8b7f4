--------------------------------- MODULE Poram ---------------------------------
(***************************************************************************)
(* One PORAM instance of class FOSketch (FOSketch/Enclave/FOSketch.h): a    *)
(* Path-ORAM tree of buckets, a stash that grows and shrinks, and a         *)
(* position map.  Init_OCU fills the tree from the plain sketch, one tree   *)
(* level per set bit of nBlock; OAccess and access serve one block by       *)
(* reading a root-to-leaf path into the stash, giving the block a new       *)
(* leaf, and writing the path back; OAccess_S and OAccess_F do the same     *)
(* with other growths, more asserts and no compression.                    *)
(*                                                                         *)
(* The program is sequential; an action is one iteration of one of its      *)
(* loops, so that the growth of the stash in the middle of a path, and the  *)
(* assertions between the loops, are visible.                              *)
(***************************************************************************)
EXTENDS Integers, FiniteSets, Functions

CONSTANTS
  nBlock,                 \* blocks of the sketch
  level,                  \* height of the tree
  sizeBucket,             \* SIZE_BUCKET
  MAX_STASH_NUM,          \* slots allocated for the stash
  DEFAULT_STASH_LENGTH,   \* slots in use after Init_OCU and after a compression
  PACE_STASH,             \* OWriteToStash grows the stash by this
  STASH_STEP,             \* the literal 8: every other growth, and every undo
  needComStash,           \* OAccess ends with OCompressStash
  assertsOn,              \* the debug build; otherwise assert(a) is empty
  Modes,                  \* the functions the caller uses
  Requested,              \* the blocks the caller asks for
  Draws,                  \* the leaves rand() % nLeaf yields
  AddedBound,             \* bound: no access starts when this many were added
  DUMMY_FLAG              \* an empty slot

ASSUME TreeAssumption ==
  /\ nBlock \in Nat \ {0}
  /\ level \in Nat
  /\ 2^level <= nBlock /\ nBlock < 2^(level + 1)      \* level == floor(log2(nBlock))
  /\ sizeBucket \in Nat \ {0}

\* The facts about powers of two that the proofs use.
ASSUME PowerAssumption ==
  /\ 2^0 = 1
  /\ \A l \in 0..level : 2^l \in Nat \ {0} /\ 2^(l + 1) = 2 * 2^l

ASSUME StashAssumption ==
  /\ MAX_STASH_NUM \in Nat /\ DEFAULT_STASH_LENGTH \in Nat
  /\ PACE_STASH \in Nat /\ STASH_STEP \in Nat
  /\ 0 < DEFAULT_STASH_LENGTH
  /\ 0 < PACE_STASH /\ PACE_STASH <= STASH_STEP
  /\ DEFAULT_STASH_LENGTH + STASH_STEP <= MAX_STASH_NUM

\* The four ways to access a block. compressStash is a public method of the class
\* that nothing in the program calls; as a mode it may be called between two.
Accesses == {"OAccess", "OAccess_S", "OAccess_F", "access"}

ASSUME ModeAssumption ==
  /\ needComStash \in BOOLEAN /\ assertsOn \in BOOLEAN
  /\ Modes \subseteq Accesses \cup {"compressStash"}
  /\ Requested \subseteq 0 .. nBlock - 1
  /\ Draws \subseteq 0 .. 2^level - 1
  /\ AddedBound \in Nat

Bid      == 0 .. nBlock - 1
nLeaf    == 2^level
Leaf     == 0 .. nLeaf - 1
Level    == 0 .. level
Slot     == 0 .. sizeBucket - 1
StashPos == 0 .. MAX_STASH_NUM - 1

Block == [id : Bid, pos : Leaf, data : {"copied", "zeroed"}]

ASSUME DummyAssumption == DUMMY_FLAG \notin Block

Cell == Block \cup {DUMMY_FLAG}

\* The bucket of tree level l on the path to leaf p, named by the level and
\* the leading bits of the leaf: p >> (level - l).
NodeOn(p, l) == <<l, p \div 2^(level - l)>>
Node         == {NodeOn(p, l) : p \in Leaf, l \in Level}

EmptyBucket == [s \in Slot |-> DUMMY_FLAG]
NoAnswer    == [bid |-> -1, data |-> "none"]

VARIABLES
  pc,            \* the function, and the loop of it, that runs
  OblivSK,       \* the tree
  stash, length_st,
  pos_map,
  Path,          \* the local copy of a path
  mode, bid, leaf,        \* arguments of the access that runs
  lvl, slot,     \* i and j of the loop that runs
  pos_st,        \* writeToStash: where the search for an empty slot resumes
  flag_start,    \* Init_OCU: first block not yet placed
  nFailed,       \* Init_OCU: blocks that found their bucket full
  global_added,  \* zero blocks added on a miss
  overflowed,    \* "Block is not write to stash" has been printed
  dropped,       \* blocks of a path that writeToStash or OWriteToStash left out
  answer         \* what the last access returned

store == <<OblivSK, stash, length_st, pos_map, Path>>
call  == <<mode, bid, leaf>>
count == <<nFailed, global_added, overflowed, dropped>>
vars  == <<pc, store, call, lvl, slot, pos_st, flag_start, count, answer>>

Init == /\ pc = "init"
        /\ OblivSK = [n \in Node |-> EmptyBucket]
        /\ stash = [k \in StashPos |-> DUMMY_FLAG]
        /\ length_st = DEFAULT_STASH_LENGTH
        /\ pos_map = [b \in Bid |-> 0]
        /\ Path = [l \in Level |-> EmptyBucket]
        /\ mode = "OAccess" /\ bid = 0 /\ leaf = 0
        /\ lvl = level /\ slot = 0 /\ pos_st = 0
        /\ flag_start = 0
        /\ nFailed = 0 /\ global_added = 0
        /\ overflowed = FALSE /\ dropped = 0
        /\ answer = NoAnswer

--------------------------------------------------------------------------------
(* Init_OCU: the loop over the levels of the tree, from the leaves up.      *)

BitSet(l) == (nBlock \div 2^l) % 2 = 1
Chunk(l)  == {b \in Bid : flag_start <= b /\ b < flag_start + 2^l}

\* bs.sort: some order of the chunk by leaf.  The network is not stable, so
\* blocks of one leaf come in any order.
SortedByLeaf(S, p) ==
  {ord \in Bijection(S, 1 .. Cardinality(S)) :
     \A b, c \in S : p[b] < p[c] => ord[b] < ord[c]}

\* The variable count of the loop: how many of the chunk go to the same
\* bucket before b.
Before(b, S, p, ord) ==
  Cardinality({c \in S : NodeOn(p[c], lvl) = NodeOn(p[b], lvl) /\ ord[c] < ord[b]})

Goes(b, n, s, S, p, ord) == NodeOn(p[b], lvl) = n /\ Before(b, S, p, ord) = s

FillLevel(S, p, ord) ==
  [n \in Node |-> [s \in Slot |->
    IF \E b \in S : Goes(b, n, s, S, p, ord)
    THEN LET b == CHOOSE b \in S : Goes(b, n, s, S, p, ord)
         IN  [id |-> b, pos |-> p[b], data |-> "copied"]
    ELSE OblivSK[n][s]]]

Unplaced(S, p, ord) == {b \in S : Before(b, S, p, ord) >= sizeBucket}

\* Mutant: the loop does not stop at the root.
NextLevelEndless == lvl' = lvl - 1 /\ UNCHANGED pc

NextLevel == \/ /\ lvl > 0
                /\ lvl' = lvl - 1
                /\ UNCHANGED pc
             \/ /\ lvl = 0
                /\ pc' = "idle"
                /\ UNCHANGED lvl

\* Blocks take fresh leaves and go to their bucket of this level; those that
\* find it full are counted and forgotten.
InitLevel ==
  /\ pc = "init"
  /\ BitSet(lvl)
  /\ LET S == Chunk(lvl) IN
       \E p \in [S -> Draws] : \E ord \in SortedByLeaf(S, p) :
         /\ OblivSK' = FillLevel(S, p, ord)
         /\ pos_map' = [b \in Bid |-> IF b \in S THEN p[b] ELSE pos_map[b]]
         /\ nFailed' = nFailed + Cardinality(Unplaced(S, p, ord))
  /\ flag_start' = flag_start + 2^lvl
  /\ NextLevel
  /\ UNCHANGED <<stash, length_st, Path, call, slot, pos_st,
                 global_added, overflowed, dropped, answer>>

SkipLevel ==
  /\ pc = "init"
  /\ ~BitSet(lvl)
  /\ NextLevel
  /\ UNCHANGED <<store, call, slot, pos_st, flag_start, count, answer>>

--------------------------------------------------------------------------------
(* The start of an access: look up the leaf, readPath.                      *)

ReadPath(m, b) ==
  /\ pc = "idle"
  /\ global_added < AddedBound
  /\ mode' = m /\ bid' = b /\ leaf' = pos_map[b]
  /\ Path' = [l \in Level |-> OblivSK[NodeOn(pos_map[b], l)]]
  /\ lvl' = 0 /\ slot' = 0 /\ pos_st' = 0
  /\ answer' = NoAnswer
  /\ pc' = "write"
  /\ UNCHANGED <<OblivSK, stash, length_st, pos_map, flag_start, count>>

--------------------------------------------------------------------------------
(* OWriteToStash, its variants and writeToStash: every block of the path    *)
(* moves to the stash.  One step per cell of the path, and one per growth.  *)

InUse == 0 .. length_st - 1

\* The first cell in use from k0 on that satisfies P.
IsFirst(k, k0, P(_)) == /\ k \in InUse /\ k0 <= k /\ P(k)
                        /\ \A m \in InUse : k0 <= m /\ m < k => ~P(m)

Empty(k) == stash[k] = DUMMY_FLAG

Moving == pc = "write" /\ Path[lvl][slot] # DUMMY_FLAG

\* Mutant: sizeBucket * level cells, not sizeBucket * (level + 1).
NextCellShort ==
  IF slot < sizeBucket - 1
  THEN slot' = slot + 1 /\ UNCHANGED <<pc, lvl>>
  ELSE /\ slot' = 0 /\ lvl' = lvl + 1
       /\ pc' = IF lvl < level - 1 THEN pc ELSE "read"

NextCell ==
  \/ /\ slot < sizeBucket - 1
     /\ slot' = slot + 1
     /\ UNCHANGED <<pc, lvl>>
  \/ /\ slot = sizeBucket - 1 /\ lvl < level
     /\ slot' = 0 /\ lvl' = lvl + 1
     /\ UNCHANGED pc
  \/ /\ slot = sizeBucket - 1 /\ lvl = level
     /\ slot' = 0 /\ pc' = "read"
     /\ UNCHANGED lvl

SkipEmpty ==
  /\ pc = "write"
  /\ Path[lvl][slot] = DUMMY_FLAG
  /\ NextCell
  /\ UNCHANGED <<store, call, pos_st, flag_start, count, answer>>

OPlace ==
  /\ Moving
  /\ \E k \in InUse : /\ IsFirst(k, 0, Empty)
                      /\ stash' = [stash EXCEPT ![k] = Path[lvl][slot]]
  /\ NextCell
  /\ UNCHANGED <<OblivSK, length_st, pos_map, Path, call, pos_st, flag_start, count, answer>>

\* Mutant: the search starts over in the same, full, stash.
OGrowLost(pace) ==
  /\ Moving
  /\ \A k \in InUse : ~Empty(k)
  /\ pace > 0
  /\ UNCHANGED vars

\* Mutant: the length is not compared with MAX_STASH_NUM.
OGrowUnchecked(pace) ==
  /\ Moving
  /\ \A k \in InUse : ~Empty(k)
  /\ length_st' = length_st + pace
  /\ UNCHANGED <<pc, OblivSK, stash, pos_map, Path, call, lvl, slot, pos_st,
                 flag_start, count, answer>>

OGrow(pace) ==
  /\ Moving
  /\ \A k \in InUse : ~Empty(k)
  /\ length_st + pace <= MAX_STASH_NUM
  /\ length_st' = length_st + pace
  /\ UNCHANGED <<pc, OblivSK, stash, pos_map, Path, call, lvl, slot, pos_st,
                 flag_start, count, answer>>

\* The stash has grown by pace and is cut back by 8.
OOverflow(pace) ==
  /\ Moving
  /\ \A k \in InUse : ~Empty(k)
  /\ length_st + pace > MAX_STASH_NUM
  /\ length_st' = length_st + pace - STASH_STEP
  /\ overflowed' = TRUE /\ dropped' = dropped + 1
  /\ NextCell
  /\ UNCHANGED <<OblivSK, stash, pos_map, Path, call, pos_st, flag_start,
                 nFailed, global_added, answer>>

OWrite(pace) == SkipEmpty \/ OPlace \/ OGrow(pace) \/ OOverflow(pace)

\* _S, which touches every cell, and _F, which does not hide its branches,
\* grow by what they undo.
OWriteToStash   == OWrite(PACE_STASH)
OWriteToStash_S == OWrite(STASH_STEP)
OWriteToStash_F == OWrite(STASH_STEP)

\* writeToStash resumes its search where the previous block of the path went.
Place ==
  /\ Moving
  /\ \E k \in InUse : /\ IsFirst(k, pos_st, Empty)
                      /\ stash' = [stash EXCEPT ![k] = Path[lvl][slot]]
                      /\ pos_st' = k + 1
  /\ NextCell
  /\ UNCHANGED <<OblivSK, length_st, pos_map, Path, call, flag_start, count, answer>>

Grow ==
  /\ Moving
  /\ pos_st < length_st
  /\ \A k \in pos_st .. length_st - 1 : ~Empty(k)
  /\ length_st + STASH_STEP <= MAX_STASH_NUM
  /\ length_st' = length_st + STASH_STEP
  /\ pos_st' = length_st
  /\ UNCHANGED <<pc, OblivSK, stash, pos_map, Path, call, lvl, slot,
                 flag_start, count, answer>>

Overflow ==
  /\ Moving
  /\ pos_st < length_st
  /\ \A k \in pos_st .. length_st - 1 : ~Empty(k)
  /\ length_st + STASH_STEP > MAX_STASH_NUM
  /\ pos_st' = length_st - 1
  /\ overflowed' = TRUE /\ dropped' = dropped + 1
  /\ NextCell
  /\ UNCHANGED <<store, call, flag_start, nFailed, global_added, answer>>

\* The search has already passed the last cell in use: the while loop is not
\* entered and the block goes nowhere, without a message.
Drop ==
  /\ Moving
  /\ pos_st >= length_st
  /\ dropped' = dropped + 1
  /\ NextCell
  /\ UNCHANGED <<store, call, pos_st, flag_start, nFailed, global_added, overflowed, answer>>

writeToStash == SkipEmpty \/ Place \/ Grow \/ Overflow \/ Drop

--------------------------------------------------------------------------------
(* OReadFromStash, its variants and readFromStash: a new leaf, then the     *)
(* block, or a block of zeroes in the first empty cell.                     *)

\* In a debug build, an assert fails and the enclave aborts.
Abort == /\ pc' = "aborted"
         /\ UNCHANGED <<store, call, lvl, slot, pos_st, flag_start, count, answer>>

Holds(k)   == stash[k] # DUMMY_FLAG /\ stash[k].id = bid
HoldsPos(k) == stash[k].pos = pos_map[stash[k].id]

\* assert(!(found&&cond)), and the comparison with pre_pos.
FoundOnce  == \A k, m \in InUse : Holds(k) /\ Holds(m) => k = m
FoundAtPos == \A k \in InUse : IsFirst(k, 0, Holds) => HoldsPos(k)

\* Mutant: the block in the stash keeps its old leaf.
ReadHitStale(check, p) ==
  /\ pc = "read" /\ (assertsOn => check)
  /\ pos_map' = [pos_map EXCEPT ![bid] = p]
  /\ \E k \in InUse : /\ IsFirst(k, 0, Holds)
                      /\ answer' = [bid |-> bid, data |-> stash[k].data]
  /\ pc' = "clear"
  /\ UNCHANGED <<OblivSK, stash, length_st, Path, call, lvl, slot, pos_st, flag_start, count>>

ReadHit(check, p) ==
  /\ pc = "read" /\ (assertsOn => check)
  /\ pos_map' = [pos_map EXCEPT ![bid] = p]
  /\ \E k \in InUse :
       /\ IsFirst(k, 0, Holds)
       /\ stash' = [stash EXCEPT ![k].pos = p]
       /\ answer' = [bid |-> bid, data |-> stash[k].data]
  /\ pc' = "clear"
  /\ UNCHANGED <<OblivSK, length_st, Path, call, lvl, slot, pos_st, flag_start, count>>

ReadMiss(p) ==
  /\ pc = "read"
  /\ \A k \in InUse : ~Holds(k)
  /\ pos_map' = [pos_map EXCEPT ![bid] = p]
  /\ pc' = "add"
  /\ UNCHANGED <<OblivSK, stash, length_st, Path, call, lvl, slot, pos_st,
                 flag_start, count, answer>>

ReadAbort(check) == pc = "read" /\ assertsOn /\ ~check /\ Abort

AddZero ==
  /\ pc = "add"
  /\ \E k \in InUse :
       /\ IsFirst(k, 0, Empty)
       /\ stash' = [stash EXCEPT ![k] =
                      [id |-> bid, pos |-> pos_map[bid], data |-> "zeroed"]]
  /\ global_added' = global_added + 1
  /\ answer' = [bid |-> bid, data |-> "zeroed"]
  /\ pc' = "clear"
  /\ UNCHANGED <<OblivSK, length_st, pos_map, Path, call, lvl, slot, pos_st,
                 flag_start, nFailed, overflowed, dropped>>

AddGrow ==
  /\ pc = "add"
  /\ \A k \in InUse : ~Empty(k)
  /\ length_st + STASH_STEP <= MAX_STASH_NUM
  /\ length_st' = length_st + STASH_STEP
  /\ UNCHANGED <<pc, OblivSK, stash, pos_map, Path, call, lvl, slot, pos_st,
                 flag_start, count, answer>>

\* The access fails: printf("x%dx", bid), and the caller reads nothing.
AddFail ==
  /\ pc = "add"
  /\ \A k \in InUse : ~Empty(k)
  /\ length_st + STASH_STEP > MAX_STASH_NUM
  /\ overflowed' = TRUE
  /\ answer' = [bid |-> bid, data |-> "none"]
  /\ pc' = "clear"
  /\ UNCHANGED <<store, call, lvl, slot, pos_st, flag_start, nFailed, global_added, dropped>>

\* The functions differ in what they assert.
ReadBlock(check) == \/ \E p \in Draws : ReadHit(check, p) \/ ReadMiss(p)
                    \/ ReadAbort(check)
                    \/ AddZero \/ AddGrow \/ AddFail

readFromStash    == ReadBlock(FoundAtPos)
OReadFromStash   == ReadBlock(FoundOnce)
OReadFromStash_S == ReadBlock(FoundOnce /\ FoundAtPos)
OReadFromStash_F == ReadBlock(FoundOnce /\ FoundAtPos)

--------------------------------------------------------------------------------
(* ORebuildStash, its variants and rebuildStash: the path is filled from    *)
(* the stash, from the leaf up, each cell with the first block that may     *)
(* live there.                                                              *)

ClearPath ==
  /\ pc = "clear"
  /\ Path' = [l \in Level |-> EmptyBucket]
  /\ lvl' = level /\ slot' = 0
  /\ pc' = "rebuild"
  /\ UNCHANGED <<OblivSK, stash, length_st, pos_map, call, pos_st, flag_start, count, answer>>

Fits(k) == /\ ~Empty(k)
           /\ NodeOn(pos_map[stash[k].id], lvl) = NodeOn(leaf, lvl)

\* rebuildStash checks the blocks it passes, the others every block in use.
AllAtPos    == \A k \in InUse : ~Empty(k) => HoldsPos(k)
PassedAtPos == \A k \in InUse :
  ~Empty(k) /\ (\A m \in InUse : IsFirst(m, 0, Fits) => k <= m) => HoldsPos(k)

\* Mutant: the bucket of the root is not filled.
PrevCellShort(then) ==
  IF slot < sizeBucket - 1
  THEN slot' = slot + 1 /\ UNCHANGED <<pc, lvl>>
  ELSE /\ slot' = 0 /\ lvl' = lvl - 1
       /\ pc' = IF lvl > 1 THEN pc ELSE then

PrevCell(then) ==
  \/ /\ slot < sizeBucket - 1
     /\ slot' = slot + 1
     /\ UNCHANGED <<pc, lvl>>
  \/ /\ slot = sizeBucket - 1 /\ lvl > 0
     /\ slot' = 0 /\ lvl' = lvl - 1
     /\ UNCHANGED pc
  \/ /\ slot = sizeBucket - 1 /\ lvl = 0
     /\ slot' = 0 /\ pc' = then
     /\ UNCHANGED lvl

\* Mutant: the cell of the stash is not emptied.
RebuildCopy(check, then) ==
  /\ pc = "rebuild" /\ (assertsOn => check)
  /\ \/ \E k \in InUse : /\ IsFirst(k, 0, Fits)
                         /\ Path' = [Path EXCEPT ![lvl][slot] = stash[k]]
     \/ (\A k \in InUse : ~Fits(k)) /\ UNCHANGED Path
  /\ PrevCell(then)
  /\ UNCHANGED <<OblivSK, stash, length_st, pos_map, call, pos_st, flag_start, count, answer>>

RebuildCell(check, then) ==
  /\ pc = "rebuild" /\ (assertsOn => check)
  /\ \/ \E k \in InUse :
          /\ IsFirst(k, 0, Fits)
          /\ Path' = [Path EXCEPT ![lvl][slot] = stash[k]]
          /\ stash' = [stash EXCEPT ![k] = DUMMY_FLAG]
     \/ /\ \A k \in InUse : ~Fits(k)
        /\ UNCHANGED <<Path, stash>>
  /\ PrevCell(then)
  /\ UNCHANGED <<OblivSK, length_st, pos_map, call, pos_st, flag_start, count, answer>>

RebuildAbort(check) == pc = "rebuild" /\ assertsOn /\ ~check /\ Abort

Rebuild(check, then) == RebuildCell(check, then) \/ RebuildAbort(check)

rebuildStash    == Rebuild(PassedAtPos, "push")
ORebuildStash   == Rebuild(AllAtPos, IF needComStash THEN "compress" ELSE "push")
ORebuildStash_S == Rebuild(AllAtPos, "push")
ORebuildStash_F == Rebuild(AllAtPos, "push")

--------------------------------------------------------------------------------
(* OCompressStash and compressStash: the blocks move to the front of the    *)
(* cells in use, and as many cells stay in use as there are blocks.         *)

Filled == {k \in InUse : ~Empty(k)}

\* ord gives each cell that holds a block its new place.
Compact(ord) ==
  /\ stash' = [k \in StashPos |->
       IF k \in InUse
       THEN IF \E m \in Filled : ord[m] = k
            THEN stash[CHOOSE m \in Filled : ord[m] = k] ELSE DUMMY_FLAG
       ELSE stash[k]]
  /\ length_st' = IF Cardinality(Filled) < DEFAULT_STASH_LENGTH
                  THEN DEFAULT_STASH_LENGTH ELSE Cardinality(Filled)

Order == Bijection(Filled, 0 .. Cardinality(Filled) - 1)

\* Sorted by block; empty cells are greatest.
SortedById == {ord \in Order : \A k, m \in Filled :
                 stash[k].id < stash[m].id => ord[k] < ord[m]}

InPlace == {ord \in Order : \A k, m \in Filled : k < m => ord[k] < ord[m]}

\* Mutant: the length goes back to the default, however many blocks remain.
CompressToDefault ==
  /\ pc = "compress"
  /\ length_st' = DEFAULT_STASH_LENGTH
  /\ pc' = "push"
  /\ UNCHANGED <<OblivSK, stash, pos_map, Path, call, lvl, slot, pos_st, flag_start, count, answer>>

OCompressStash ==
  /\ pc = "compress"
  /\ \E ord \in SortedById : Compact(ord)
  /\ pc' = "push"
  /\ UNCHANGED <<OblivSK, pos_map, Path, call, lvl, slot, pos_st, flag_start, count, answer>>

\* No caller in the program.
compressStash ==
  /\ pc = "idle"
  /\ \E ord \in InPlace : Compact(ord)
  /\ UNCHANGED <<pc, OblivSK, pos_map, Path, call, lvl, slot, pos_st, flag_start, count, answer>>

\* The arguments and locals of the access end with it.
PushPath ==
  /\ pc = "push"
  /\ OblivSK' = [n \in Node |-> IF n = NodeOn(leaf, n[1]) THEN Path[n[1]] ELSE OblivSK[n]]
  /\ Path' = [l \in Level |-> EmptyBucket]
  /\ mode' = "OAccess" /\ bid' = 0 /\ leaf' = 0 /\ pos_st' = 0
  /\ pc' = "idle"
  /\ UNCHANGED <<stash, length_st, pos_map, lvl, slot, flag_start, count, answer>>

--------------------------------------------------------------------------------
OAccess   == mode = "OAccess"   /\ (OWriteToStash   \/ OReadFromStash   \/ ORebuildStash)
OAccess_S == mode = "OAccess_S" /\ (OWriteToStash_S \/ OReadFromStash_S \/ ORebuildStash_S)
OAccess_F == mode = "OAccess_F" /\ (OWriteToStash_F \/ OReadFromStash_F \/ ORebuildStash_F)
access    == mode = "access"    /\ (writeToStash    \/ readFromStash    \/ rebuildStash)

Step == \/ InitLevel \/ SkipLevel
        \/ OAccess \/ OAccess_S \/ OAccess_F \/ access
        \/ ClearPath \/ OCompressStash \/ PushPath

Next == \/ Step
        \/ \E m \in Modes \cap Accesses, b \in Requested : ReadPath(m, b)
        \/ "compressStash" \in Modes /\ compressStash

Spec == Init /\ [][Next]_vars

\* The code runs on: a loop that can take a step takes it.
FairSpec == Spec /\ WF_vars(Step)
================================================================================
