------------------------------ MODULE PoramProofs ------------------------------
(***************************************************************************)
(* Proofs about one PORAM instance, for every size of the tree, the buckets *)
(* and the stash.                                                          *)
(***************************************************************************)
EXTENDS PoramProperties, FiniteSetTheorems, TLAPS

--------------------------------------------------------------------------------
(* The tree and its paths.                                                  *)

LEMMA LeafZero == nLeaf \in Nat /\ 0 \in Leaf /\ level \in Level
BY TreeAssumption, PowerAssumption DEF nLeaf, Leaf, Level

LEMMA BidZero == 0 \in Bid /\ 0 \in Slot
BY TreeAssumption DEF Bid, Slot

LEMMA DrawsAreLeaves == Draws \subseteq Leaf
BY ModeAssumption DEF Leaf, nLeaf

LEMMA NodeOnNode ==
  ASSUME NEW p \in Leaf, NEW l \in Level
  PROVE  NodeOn(p, l) \in Node /\ NodeOn(p, l)[1] = l
BY DEF Node, NodeOn

LEMMA NodeLevel ==
  ASSUME NEW n \in Node
  PROVE  n[1] \in Level
BY DEF Node, NodeOn

LEMMA EmptyBucketType == EmptyBucket \in [Slot -> Cell]
BY DEF EmptyBucket, Cell

LEMMA ChunkFinite ==
  ASSUME NEW l \in Level
  PROVE  IsFiniteSet(Chunk(l)) /\ Chunk(l) \subseteq Bid
<1>1. Chunk(l) \subseteq Bid
  BY DEF Chunk
<1>2. IsFiniteSet(Bid)
  BY TreeAssumption, FS_Interval DEF Bid
<1> QED
  BY <1>1, <1>2, FS_Subset

--------------------------------------------------------------------------------
(* The four accesses are made of the same steps; they differ in how far     *)
(* they grow the stash, in what they assert and in what follows the rebuild.*)

Growths == {PACE_STASH, STASH_STEP}

WriteStep == (\E pace \in Growths : OWrite(pace)) \/ writeToStash

ReadStep == \/ \E p \in Draws : ReadHit(TRUE, p) \/ ReadMiss(p)
            \/ AddZero \/ AddGrow \/ AddFail

RebuildStep == \E then \in {"compress", "push"} : RebuildCell(TRUE, then)

AbortStep == /\ Abort
             /\ \/ pc = "read" /\ ~(FoundOnce /\ FoundAtPos)
                \/ pc = "rebuild" /\ ~AllAtPos

LEMMA ReadCases ==
  ASSUME readFromStash \/ OReadFromStash \/ OReadFromStash_S \/ OReadFromStash_F
  PROVE  ReadStep \/ AbortStep
<1>1. ASSUME NEW p \in Draws,
             \/ ReadHit(FoundAtPos, p) \/ ReadHit(FoundOnce, p)
             \/ ReadHit(FoundOnce /\ FoundAtPos, p)
      PROVE  ReadHit(TRUE, p)
  BY <1>1 DEF ReadHit
<1>2. \/ ReadBlock(FoundAtPos) \/ ReadBlock(FoundOnce)
      \/ ReadBlock(FoundOnce /\ FoundAtPos)
  BY DEF readFromStash, OReadFromStash, OReadFromStash_S, OReadFromStash_F
<1>3. \/ \E p \in Draws : \/ ReadHit(FoundAtPos, p) \/ ReadHit(FoundOnce, p)
                          \/ ReadHit(FoundOnce /\ FoundAtPos, p)
                          \/ ReadMiss(p)
      \/ ReadAbort(FoundAtPos) \/ ReadAbort(FoundOnce) \/ ReadAbort(FoundOnce /\ FoundAtPos)
      \/ AddZero \/ AddGrow \/ AddFail
  BY <1>2 DEF ReadBlock
<1>4. CASE \/ ReadAbort(FoundAtPos) \/ ReadAbort(FoundOnce)
           \/ ReadAbort(FoundOnce /\ FoundAtPos)
  BY <1>4 DEF ReadAbort, AbortStep
<1> QED
  BY <1>1, <1>3, <1>4 DEF ReadStep

LEMMA RebuildCases ==
  ASSUME rebuildStash \/ ORebuildStash \/ ORebuildStash_S \/ ORebuildStash_F
  PROVE  RebuildStep \/ AbortStep
<1>1. ASSUME NEW then \in {"compress", "push"},
             RebuildCell(PassedAtPos, then) \/ RebuildCell(AllAtPos, then)
      PROVE  RebuildCell(TRUE, then)
  BY <1>1 DEF RebuildCell
<1>2. AllAtPos => PassedAtPos
  BY DEF AllAtPos, PassedAtPos
<1>3. \/ Rebuild(PassedAtPos, "push") \/ Rebuild(AllAtPos, "push")
      \/ Rebuild(AllAtPos, "compress")
  BY DEF rebuildStash, ORebuildStash, ORebuildStash_S, ORebuildStash_F
<1>4. \/ \E then \in {"compress", "push"} :
           RebuildCell(PassedAtPos, then) \/ RebuildCell(AllAtPos, then)
      \/ RebuildAbort(PassedAtPos) \/ RebuildAbort(AllAtPos)
  BY <1>3 DEF Rebuild
<1>5. CASE RebuildAbort(PassedAtPos) \/ RebuildAbort(AllAtPos)
  BY <1>2, <1>5 DEF RebuildAbort, AbortStep
<1> QED
  BY <1>1, <1>4, <1>5 DEF RebuildStep

LEMMA AccessCases ==
  ASSUME OAccess \/ OAccess_S \/ OAccess_F \/ access
  PROVE  WriteStep \/ ReadStep \/ RebuildStep \/ AbortStep
<1>1. CASE OWriteToStash \/ OWriteToStash_S \/ OWriteToStash_F \/ writeToStash
  BY <1>1 DEF OWriteToStash, OWriteToStash_S, OWriteToStash_F, WriteStep, Growths
<1> QED
  BY <1>1, ReadCases, RebuildCases DEF OAccess, OAccess_S, OAccess_F, access

--------------------------------------------------------------------------------
(* Typing, and the bounds of the stash.                                     *)

Shape == TypeOK /\ StashInBounds

LEMMA ShapeInit == Init => Shape
<1> SUFFICES ASSUME Init PROVE Shape
  OBVIOUS
<1>1. /\ OblivSK \in [Node -> [Slot -> Cell]]
      /\ Path \in [Level -> [Slot -> Cell]]
      /\ stash \in [StashPos -> Cell]
  BY EmptyBucketType DEF Init, Cell
<1>2. pos_map \in [Bid -> Leaf] /\ leaf \in Leaf /\ bid \in Bid /\ lvl \in Level /\ slot \in Slot
  BY LeafZero, BidZero DEF Init
<1>3. answer \in [bid : Bid \cup {-1}, data : {"copied", "zeroed", "none"}]
  BY DEF Init, NoAnswer
<1>4. length_st \in Nat /\ StashInBounds
  BY StashAssumption DEF Init, StashInBounds
<1> QED
  BY <1>1, <1>2, <1>3, <1>4 DEF Init, Shape, TypeOK, Accesses

LEMMA NextCellShape ==
  ASSUME TypeOK, NextCell, pc = "write"
  PROVE  lvl' \in Level /\ slot' \in Slot /\ pc' \in {"write", "read"}
BY TreeAssumption DEF TypeOK, NextCell, Level, Slot

LEMMA PrevCellShape ==
  ASSUME TypeOK, NEW then \in {"compress", "push"}, PrevCell(then), pc = "rebuild"
  PROVE  lvl' \in Level /\ slot' \in Slot /\ pc' \in {"rebuild", "compress", "push"}
BY TreeAssumption DEF TypeOK, PrevCell, Level, Slot

LEMMA NextLevelShape ==
  ASSUME TypeOK, NextLevel, pc = "init"
  PROVE  lvl' \in Level /\ pc' \in {"init", "idle"}
BY TreeAssumption DEF TypeOK, NextLevel, Level

LEMMA PrefixGrows ==
  ASSUME NEW n \in Nat, NEW m \in Nat, n <= m
  PROVE  0 .. n - 1 \subseteq 0 .. m - 1
OBVIOUS

LEMMA PrefixOfStash ==
  ASSUME NEW n \in Nat, n <= MAX_STASH_NUM
  PROVE  0 .. n - 1 \subseteq StashPos
BY StashAssumption DEF StashPos

LEMMA InUseStash ==
  ASSUME Shape
  PROVE  InUse \subseteq StashPos
BY StashAssumption DEF Shape, TypeOK, StashInBounds, InUse, StashPos

LEMMA FillLevelCell ==
  ASSUME NEW S, NEW p, NEW ord, NEW n \in Node, NEW s \in Slot
  PROVE  \/ \E b \in S : /\ Goes(b, n, s, S, p, ord)
                         /\ FillLevel(S, p, ord)[n][s] = [id |-> b, pos |-> p[b], data |-> "copied"]
         \/ FillLevel(S, p, ord)[n][s] = OblivSK[n][s]
<1> DEFINE P(b) == Goes(b, n, s, S, p, ord)
<1>1. CASE \E b \in S : P(b)
  <2>1. (CHOOSE b \in S : P(b)) \in S /\ P(CHOOSE b \in S : P(b))
    BY <1>1
  <2> QED
    BY <1>1, <2>1 DEF FillLevel
<1>2. CASE ~\E b \in S : P(b)
  BY <1>2 DEF FillLevel
<1> QED
  BY <1>1, <1>2

LEMMA InitLevelShape ==
  ASSUME Shape, InitLevel
  PROVE  Shape'
<1> USE DEF Shape
<1> DEFINE S == Chunk(lvl)
<1>1. IsFiniteSet(S) /\ S \subseteq Bid
  BY ChunkFinite DEF TypeOK
<1>2. PICK p \in [S -> Draws] : \E o \in SortedByLeaf(S, p) :
        /\ OblivSK' = FillLevel(S, p, o)
        /\ pos_map' = [b \in Bid |-> IF b \in S THEN p[b] ELSE pos_map[b]]
        /\ nFailed' = nFailed + Cardinality(Unplaced(S, p, o))
  BY DEF InitLevel
<1>3. PICK ord \in SortedByLeaf(S, p) :
        /\ OblivSK' = FillLevel(S, p, ord)
        /\ nFailed' = nFailed + Cardinality(Unplaced(S, p, ord))
  BY <1>2
<1> HIDE DEF S
<1>p. p \in [S -> Leaf]
  BY DrawsAreLeaves
<1>4. OblivSK' \in [Node -> [Slot -> Cell]]
  <2>1. ASSUME NEW n \in Node, NEW s \in Slot
        PROVE  FillLevel(S, p, ord)[n][s] \in Cell
    <3>1. CASE FillLevel(S, p, ord)[n][s] = OblivSK[n][s]
      BY <3>1, <2>1 DEF TypeOK
    <3>2. CASE \E b \in S : FillLevel(S, p, ord)[n][s] = [id |-> b, pos |-> p[b], data |-> "copied"]
      <4>1. PICK b \in S : FillLevel(S, p, ord)[n][s] = [id |-> b, pos |-> p[b], data |-> "copied"]
        BY <3>2
      <4>2. b \in Bid /\ p[b] \in Leaf
        BY <1>1, <1>p
      <4> QED
        BY <4>1, <4>2 DEF Cell, Block
    <3> QED
      BY <3>1, <3>2, <2>1, FillLevelCell
  <2>2. FillLevel(S, p, ord) \in [Node -> [Slot -> Cell]]
    BY <2>1 DEF FillLevel
  <2> QED
    BY <1>3, <2>2
<1>5. pos_map' \in [Bid -> Leaf]
  BY <1>2, <1>p DEF TypeOK
<1>6. nFailed' \in Nat
  <2>1. Unplaced(S, p, ord) \in SUBSET S
    BY DEF Unplaced
  <2>2. Cardinality(Unplaced(S, p, ord)) \in Nat
    BY <1>1, <2>1, FS_Subset, FS_CardinalityType
  <2> QED
    BY <1>3, <2>2 DEF TypeOK
<1>7. flag_start' \in Nat
  <2>1. flag_start' = flag_start + 2^lvl /\ 2^lvl \in Nat
    BY PowerAssumption DEF InitLevel, TypeOK, Level
  <2> QED
    BY <2>1 DEF TypeOK
<1>8. lvl' \in Level /\ pc' \in {"init", "idle"}
  BY NextLevelShape DEF InitLevel
<1> QED
  BY <1>4, <1>5, <1>6, <1>7, <1>8 DEF InitLevel, TypeOK, StashInBounds, call

LEMMA WriteShape ==
  ASSUME Shape, WriteStep
  PROVE  Shape'
<1> USE NextCellShape DEF Shape, Moving, store, call, count
<1>0. InUse \subseteq StashPos /\ length_st \in Nat
  BY InUseStash DEF TypeOK
<1>1. CASE SkipEmpty
  BY <1>1 DEF SkipEmpty, TypeOK, StashInBounds
<1>2. ASSUME NEW pace \in Growths, OWrite(pace)
      PROVE  Shape'
  <2>0. pace \in Nat /\ 0 < pace /\ pace <= STASH_STEP
    BY StashAssumption DEF Growths
  <2>1. CASE OPlace
    <3>1. Path[lvl][slot] \in Cell
      BY DEF TypeOK
    <3>2. stash' \in [StashPos -> Cell]
      BY <2>1, <3>1 DEF OPlace, TypeOK
    <3> QED
      BY <2>1, <3>2 DEF OPlace, TypeOK, StashInBounds
  <2>2. CASE OGrow(pace)
    BY <2>0, <2>2, StashAssumption DEF OGrow, TypeOK, StashInBounds
  <2>3. CASE OOverflow(pace)
    <3>1. length_st' \in Nat /\ StashInBounds'
      BY <2>0, <2>3, StashAssumption DEF OOverflow, TypeOK, StashInBounds
    <3> QED
      BY <2>3, <3>1 DEF OOverflow, TypeOK
  <2> QED
    BY <1>1, <1>2, <2>1, <2>2, <2>3 DEF OWrite
<1>5. CASE Place
  <2>1. Path[lvl][slot] \in Cell
    BY DEF TypeOK
  <2>2. stash' \in [StashPos -> Cell] /\ pos_st' \in Nat
    BY <1>5, <1>0, <2>1 DEF Place, TypeOK, InUse, IsFirst
  <2> QED
    BY <1>5, <2>2 DEF Place, TypeOK, StashInBounds
<1>6. CASE Grow
  BY <1>6, StashAssumption DEF Grow, TypeOK, StashInBounds
<1>7. CASE Overflow
  BY <1>7 DEF Overflow, TypeOK, StashInBounds
<1>8. CASE Drop
  BY <1>8 DEF Drop, TypeOK, StashInBounds
<1> QED
  BY <1>1, <1>2, <1>5, <1>6, <1>7, <1>8 DEF WriteStep, writeToStash

LEMMA ReadShape ==
  ASSUME Shape, ReadStep
  PROVE  Shape'
<1> USE DEF Shape, store, call, count
<1>0. InUse \subseteq StashPos /\ bid \in Bid /\ pos_map \in [Bid -> Leaf]
  BY InUseStash DEF TypeOK
<1>1. ASSUME NEW p \in Draws, ReadHit(TRUE, p)
      PROVE  Shape'
  <2>1. p \in Leaf /\ pos_map' \in [Bid -> Leaf]
    BY <1>0, <1>1, DrawsAreLeaves DEF ReadHit
  <2>2. PICK k \in InUse : /\ stash[k] # DUMMY_FLAG
                           /\ stash' = [stash EXCEPT ![k].pos = p]
                           /\ answer' = [bid |-> bid, data |-> stash[k].data]
    BY <1>1 DEF ReadHit, IsFirst, Holds
  <2>3. k \in StashPos /\ stash[k] \in Block
    BY <1>0, <2>2 DEF TypeOK, Cell
  <2>4. [stash[k] EXCEPT !.pos = p] \in Cell
    BY <2>1, <2>3 DEF Cell, Block
  <2>5. stash' \in [StashPos -> Cell]
    BY <2>2, <2>3, <2>4 DEF TypeOK
  <2>6. answer' \in [bid : Bid \cup {-1}, data : {"copied", "zeroed", "none"}]
    BY <1>0, <2>2, <2>3 DEF Block
  <2> QED
    BY <1>1, <2>1, <2>5, <2>6 DEF ReadHit, TypeOK, StashInBounds
<1>2. ASSUME NEW p \in Draws, ReadMiss(p)
      PROVE  Shape'
  <2>1. pos_map' \in [Bid -> Leaf]
    BY <1>0, <1>2, DrawsAreLeaves DEF ReadMiss
  <2> QED
    BY <1>2, <2>1 DEF ReadMiss, TypeOK, StashInBounds
<1>3. CASE AddZero
  <2>1. [id |-> bid, pos |-> pos_map[bid], data |-> "zeroed"] \in Cell
    BY <1>0 DEF Cell, Block
  <2>2. stash' \in [StashPos -> Cell]
    BY <1>3, <2>1 DEF AddZero, TypeOK
  <2>3. answer' \in [bid : Bid \cup {-1}, data : {"copied", "zeroed", "none"}]
    BY <1>0, <1>3 DEF AddZero
  <2> QED
    BY <1>3, <2>2, <2>3 DEF AddZero, TypeOK, StashInBounds
<1>4. CASE AddGrow
  BY <1>4, StashAssumption DEF AddGrow, TypeOK, StashInBounds
<1>5. CASE AddFail
  <2>1. answer' \in [bid : Bid \cup {-1}, data : {"copied", "zeroed", "none"}]
    BY <1>0, <1>5 DEF AddFail
  <2> QED
    BY <1>5, <2>1 DEF AddFail, TypeOK, StashInBounds
<1> QED
  BY <1>1, <1>2, <1>3, <1>4, <1>5 DEF ReadStep

LEMMA ReadPathShape ==
  ASSUME Shape, NEW m \in Modes \cap Accesses, NEW b \in Requested, ReadPath(m, b)
  PROVE  Shape'
<1> USE DEF Shape
<1>1. b \in Bid /\ m \in Accesses /\ pos_map[b] \in Leaf
  BY ModeAssumption DEF Bid, TypeOK
<1>2. Path' \in [Level -> [Slot -> Cell]]
  BY <1>1, NodeOnNode DEF ReadPath, TypeOK
<1>3. answer' \in [bid : Bid \cup {-1}, data : {"copied", "zeroed", "none"}]
  BY DEF ReadPath, NoAnswer
<1>4. lvl' \in Level /\ slot' \in Slot
  BY BidZero, TreeAssumption DEF ReadPath, Level
<1> QED
  BY <1>1, <1>2, <1>3, <1>4 DEF ReadPath, TypeOK, StashInBounds, count

LEMMA RebuildShape ==
  ASSUME Shape, NEW then \in {"compress", "push"}, RebuildCell(TRUE, then)
  PROVE  Shape'
<1> USE DEF Shape
<1>1. lvl' \in Level /\ slot' \in Slot /\ pc' \in {"rebuild", "compress", "push"}
  BY PrevCellShape DEF RebuildCell
<1>2. Path' \in [Level -> [Slot -> Cell]] /\ stash' \in [StashPos -> Cell]
  <2>1. ASSUME NEW k \in InUse,
               Path' = [Path EXCEPT ![lvl][slot] = stash[k]],
               stash' = [stash EXCEPT ![k] = DUMMY_FLAG]
        PROVE  Path' \in [Level -> [Slot -> Cell]] /\ stash' \in [StashPos -> Cell]
    <3>1. stash[k] \in Cell /\ DUMMY_FLAG \in Cell
      BY InUseStash DEF TypeOK, Cell
    <3> QED
      BY <2>1, <3>1 DEF TypeOK
  <2> QED
    BY <2>1 DEF RebuildCell, TypeOK
<1> QED
  BY <1>1, <1>2 DEF RebuildCell, TypeOK, StashInBounds, call, count

LEMMA FilledCount ==
  ASSUME Shape
  PROVE  /\ IsFiniteSet(Filled) /\ Cardinality(Filled) \in Nat
         /\ Cardinality(Filled) <= length_st
         /\ Filled \subseteq InUse /\ InUse \subseteq StashPos
<1>1. IsFiniteSet(InUse) /\ Cardinality(InUse) = length_st
  BY FS_Interval DEF InUse, Shape, TypeOK
<1>2. Filled \in SUBSET InUse
  BY DEF Filled
<1> QED
  BY <1>1, <1>2, FS_Subset, FS_CardinalityType, InUseStash

LEMMA CompactShape ==
  ASSUME Shape, NEW ord \in Order, Compact(ord)
  PROVE  /\ stash' \in [StashPos -> Cell]
         /\ length_st' \in Nat /\ StashInBounds'
<1>1. stash' = [k \in StashPos |->
                  IF k \in InUse
                  THEN IF \E m \in Filled : ord[m] = k
                       THEN stash[CHOOSE m \in Filled : ord[m] = k] ELSE DUMMY_FLAG
                  ELSE stash[k]]
  BY DEF Compact
<1>2. stash' \in [StashPos -> Cell]
  <2> SUFFICES ASSUME NEW k \in StashPos PROVE stash'[k] \in Cell
    BY <1>1
  <2>1. CASE k \in InUse /\ \E m \in Filled : ord[m] = k
    <3>1. (CHOOSE m \in Filled : ord[m] = k) \in Filled
      BY <2>1
    <3> QED
      BY <1>1, <2>1, <3>1, FilledCount DEF Shape, TypeOK
  <2>2. CASE ~(k \in InUse /\ \E m \in Filled : ord[m] = k)
    BY <1>1, <2>2 DEF Shape, TypeOK, Cell
  <2> QED
    BY <2>1, <2>2
<1>3. length_st' \in Nat /\ StashInBounds'
  BY FilledCount, StashAssumption DEF Compact, Shape, TypeOK, StashInBounds
<1> QED
  BY <1>2, <1>3

LEMMA CompressShape ==
  ASSUME Shape, OCompressStash \/ compressStash
  PROVE  Shape'
<1>1. PICK ord \in Order : Compact(ord)
  BY DEF OCompressStash, compressStash, SortedById, InPlace
<1>2. /\ stash' \in [StashPos -> Cell]
      /\ length_st' \in Nat /\ StashInBounds'
  BY <1>1, CompactShape
<1> QED
  BY <1>2 DEF OCompressStash, compressStash, Shape, TypeOK, call, count

LEMMA PushPathShape ==
  ASSUME Shape, PushPath
  PROVE  Shape'
<1> USE DEF Shape
<1>1. OblivSK' \in [Node -> [Slot -> Cell]]
  BY NodeLevel DEF PushPath, TypeOK
<1>2. Path' \in [Level -> [Slot -> Cell]]
  BY EmptyBucketType DEF PushPath
<1> QED
  BY <1>1, <1>2, LeafZero, BidZero DEF PushPath, TypeOK, StashInBounds, Accesses, count

LEMMA ShapeStep == Shape /\ [Next]_vars => Shape'
<1> SUFFICES ASSUME Shape, [Next]_vars PROVE Shape'
  OBVIOUS
<1> USE DEF Shape, store, call, count
<1>1. CASE SkipLevel
  BY <1>1, NextLevelShape DEF SkipLevel, TypeOK, StashInBounds
<1>2. CASE ClearPath
  BY <1>2, EmptyBucketType, LeafZero, BidZero DEF ClearPath, TypeOK, StashInBounds
<1>3. CASE Abort
  BY <1>3 DEF Abort, TypeOK, StashInBounds
<1>4. CASE UNCHANGED vars
  BY <1>4 DEF vars, TypeOK, StashInBounds
<1> QED
  BY <1>1, <1>2, <1>3, <1>4, InitLevelShape, WriteShape, ReadShape, ReadPathShape,
     RebuildShape, CompressShape, PushPathShape, AccessCases
     DEF Next, Step, RebuildStep, AbortStep

\* Every variable of a PORAM instance keeps its shape, whatever the sizes.
THEOREM TypeCorrect == Spec => []TypeOK
<1>1. Init => Shape
  BY ShapeInit
<1>2. Shape /\ [Next]_vars => Shape'
  BY ShapeStep
<1>3. Shape => TypeOK
  BY DEF Shape
<1> QED
  BY <1>1, <1>2, <1>3, PTL DEF Spec

\* No growth, undo or compression takes the stash out of its allocation.
THEOREM StashStaysInBounds == Spec => []StashInBounds
<1>1. Init => Shape
  BY ShapeInit
<1>2. Shape /\ [Next]_vars => Shape'
  BY ShapeStep
<1>3. Shape => StashInBounds
  BY DEF Shape
<1> QED
  BY <1>1, <1>2, <1>3, PTL DEF Spec

--------------------------------------------------------------------------------
(* Until a block is refused by the stash, every block is where the position *)
(* map says, at most once.  One lemma per action.                           *)

LEMMA SafeInit == Init => Safe
<1> SUFFICES ASSUME Init PROVE Safe
  OBVIOUS
<1>1. \A n \in Node, s \in Slot : OblivSK[n][s] = DUMMY_FLAG
  BY DEF Init, EmptyBucket
<1>2. \A k \in StashPos : stash[k] = DUMMY_FLAG
  BY DEF Init
<1>3. InUse \subseteq StashPos
  BY ShapeInit, InUseStash
<1>4. \A l \in Level, s \in Slot : ~PathHolds(l, s)
  BY DEF Init, PathHolds, PathLive
<1>5. \A n \in Node, s \in Slot : ~TreeHolds(n, s)
  BY <1>1 DEF TreeHolds
<1>6. \A k \in InUse : ~StashHolds(k)
  BY <1>2, <1>3 DEF StashHolds
<1>7. Placed
  BY <1>4, <1>5, <1>6 DEF Placed, TreePlacement, StashPlacement, PathPlacement
<1>8. Single
  BY <1>4, <1>5, <1>6 DEF Single, OneInTree, OneInStash, OneInPath,
                          TreeNotStash, TreeNotPath, StashNotPath
<1> QED
  BY <1>1, <1>2, <1>7, <1>8 DEF Init, Safe, StrandedFree, Empty, InitClean, LeafKept, MissedAbsent

\* A write step frees no cell of the path but the one it is at.
LEMMA WriteFrame ==
  ASSUME TypeOK, pc = "write", NextCell, UNCHANGED <<OblivSK, Path, leaf>>
  PROVE  /\ \A n \in Node, s \in Slot : TreeHolds(n, s)' <=> TreeHolds(n, s)
         /\ \A l \in Level, s \in Slot :
              PathHolds(l, s)' => PathHolds(l, s) /\ (l # lvl \/ s # slot)
<1>1. pc' \in {"write", "read"}
  BY DEF NextCell
<1>2. Busy /\ Busy'
  BY <1>1 DEF Busy
<1>3. \A l \in Level, s \in Slot :
        PathLive(l, s)' => PathLive(l, s) /\ (l # lvl \/ s # slot)
  BY TreeAssumption DEF NextCell, PathLive, Pending, TypeOK, Level, Slot
<1> QED
  BY <1>2, <1>3 DEF TreeHolds, PathHolds, OnPath

LEMMA SkipSafe ==
  ASSUME Shape, Safe, SkipEmpty \/ Drop
  PROVE  Safe'
<1>1. /\ TypeOK /\ pc = "write" /\ NextCell
      /\ UNCHANGED <<OblivSK, Path, leaf, bid, stash, length_st, pos_map, mode>>
      /\ pc' \in {"write", "read"}
  BY DEF Shape, SkipEmpty, Drop, Moving, NextCell, store, call
<1>2. /\ \A n \in Node, s \in Slot : TreeHolds(n, s)' <=> TreeHolds(n, s)
      /\ \A l \in Level, s \in Slot : PathHolds(l, s)' => PathHolds(l, s)
      /\ InUse' = InUse
      /\ \A k \in InUse : StashHolds(k)' <=> StashHolds(k)
  BY <1>1, WriteFrame DEF InUse, StashHolds
<1>3. Placed'
  BY <1>1, <1>2 DEF Safe, Placed, TreePlacement, StashPlacement, PathPlacement, HoldsPos
<1>4. Single'
  BY <1>1, <1>2 DEF Safe, Single, OneInTree, OneInStash, OneInPath,
                    TreeNotStash, TreeNotPath, StashNotPath
<1> QED
  BY <1>1, <1>3, <1>4 DEF Safe, StrandedFree, Empty, InitClean, LeafKept, MissedAbsent

\* A block goes from the cell at hand to an empty cell of the stash.
LEMMA PlaceSafe ==
  ASSUME Shape, Safe, OPlace \/ Place
  PROVE  Safe'
<1>1. /\ TypeOK /\ pc = "write" /\ NextCell
      /\ Path[lvl][slot] # DUMMY_FLAG
      /\ UNCHANGED <<OblivSK, Path, leaf, bid, length_st, pos_map, mode>>
      /\ pc' \in {"write", "read"}
  BY DEF Shape, OPlace, Place, Moving, NextCell, store, call
<1>2. PICK k \in InUse : /\ stash[k] = DUMMY_FLAG
                         /\ stash' = [stash EXCEPT ![k] = Path[lvl][slot]]
  BY DEF OPlace, Place, IsFirst, Empty
<1>3. k \in StashPos /\ lvl \in Level /\ slot \in Slot
  BY InUseStash DEF Shape, TypeOK
<1>4. /\ stash'[k] = Path[lvl][slot]
      /\ \A m \in StashPos : m # k => stash'[m] = stash[m]
  BY <1>1, <1>2, <1>3 DEF TypeOK
<1>5. /\ \A n \in Node, s \in Slot : TreeHolds(n, s)' <=> TreeHolds(n, s)
      /\ \A l \in Level, s \in Slot :
           PathHolds(l, s)' => PathHolds(l, s) /\ (l # lvl \/ s # slot)
      /\ InUse' = InUse /\ InUse \subseteq StashPos
      /\ \A m \in InUse : m # k => (StashHolds(m)' <=> StashHolds(m))
  BY <1>1, <1>4, WriteFrame, InUseStash DEF InUse, StashHolds
<1>6. PathHolds(lvl, slot)
  BY <1>1, <1>3 DEF PathHolds, PathLive, Pending, TypeOK, Level, Slot
<1>7. Placed'
  <2>1. HoldsPos(k)'
    BY <1>1, <1>3, <1>4, <1>6 DEF Safe, Placed, PathPlacement, HoldsPos
  <2>2. StashPlacement'
    BY <1>1, <1>4, <1>5, <2>1 DEF Safe, Placed, StashPlacement, HoldsPos
  <2> QED
    BY <1>1, <1>5, <2>2 DEF Safe, Placed, TreePlacement, PathPlacement
<1>8. Single'
  <2>1. OneInTree' /\ OneInPath' /\ TreeNotPath'
    BY <1>1, <1>5 DEF Safe, Single, OneInTree, OneInPath, TreeNotPath
  <2>2. OneInStash'
    BY <1>3, <1>4, <1>5, <1>6 DEF Safe, Single, OneInStash, StashNotPath
  <2>3. TreeNotStash'
    BY <1>1, <1>3, <1>4, <1>5, <1>6 DEF Safe, Single, TreeNotStash, TreeNotPath
  <2>4. StashNotPath'
    BY <1>1, <1>3, <1>4, <1>5, <1>6 DEF Safe, Single, StashNotPath, OneInPath
  <2> QED
    BY <2>1, <2>2, <2>3, <2>4 DEF Single
<1>9. StrandedFree'
  BY <1>1, <1>2, <1>3, <1>4 DEF Safe, StrandedFree, Empty, InUse, StashPos, TypeOK
<1> QED
  BY <1>1, <1>7, <1>8, <1>9 DEF Safe, InitClean, LeafKept, MissedAbsent

\* The stash grows over empty cells.
LEMMA GrowSafe ==
  ASSUME Shape, Shape', Safe,
         (\E pace \in Growths : OGrow(pace)) \/ Grow \/ AddGrow
  PROVE  Safe'
<1>1. /\ UNCHANGED <<pc, OblivSK, Path, leaf, bid, lvl, slot, stash, pos_map, mode>>
      /\ length_st < length_st' /\ pc # "init"
  BY StashAssumption DEF Growths, Shape, TypeOK, OGrow, Grow, AddGrow, Moving, call
<1>2. /\ \A n \in Node, s \in Slot : TreeHolds(n, s)' <=> TreeHolds(n, s)
      /\ \A l \in Level, s \in Slot : PathHolds(l, s)' <=> PathHolds(l, s)
  BY <1>1 DEF TreeHolds, PathHolds, PathLive, Pending, Busy, OnPath
<1>3. \A k \in InUse' : StashHolds(k)' => k \in InUse /\ StashHolds(k)
  <2>1. InUse' \subseteq StashPos
    <3>1. length_st' \in Nat /\ length_st' <= MAX_STASH_NUM
      BY DEF Shape, TypeOK, StashInBounds
    <3>2. InUse' = 0 .. length_st' - 1
      BY DEF InUse
    <3> QED
      BY <3>1, <3>2, PrefixOfStash
  <2>2. \A k \in StashPos : StashHolds(k)' => StashHolds(k)
    BY <1>1 DEF StashHolds
  <2>3. \A k \in StashPos : StashHolds(k) => k \in InUse
    BY DEF Safe, StrandedFree, Empty, StashHolds, InUse, StashPos, Shape, TypeOK
  <2> QED
    BY <2>1, <2>2, <2>3
<1>4. Placed'
  BY <1>1, <1>2, <1>3 DEF Safe, Placed, TreePlacement, StashPlacement, PathPlacement, HoldsPos
<1>5. Single'
  BY <1>1, <1>2, <1>3 DEF Safe, Single, OneInTree, OneInStash, OneInPath,
                          TreeNotStash, TreeNotPath, StashNotPath
<1>6. StrandedFree'
  BY <1>1 DEF Safe, StrandedFree, Empty, StashPos, Shape, TypeOK
<1>7. MissedAbsent'
  BY <1>1, <1>2, <1>3 DEF Safe, MissedAbsent
<1> QED
  BY <1>1, <1>4, <1>5, <1>6, <1>7 DEF Safe, InitClean, LeafKept

\* The path leaves the tree for Path.
LEMMA ReadPathSafe ==
  ASSUME Shape, Safe, NEW m \in Modes \cap Accesses, NEW b \in Requested, ReadPath(m, b)
  PROVE  Safe'
<1>1. /\ pc = "idle" /\ pc' = "write" /\ lvl' = 0 /\ slot' = 0
      /\ bid' = b /\ leaf' = pos_map[b] /\ leaf' \in Leaf
      /\ UNCHANGED <<OblivSK, stash, length_st, pos_map>>
      /\ Path' = [l \in Level |-> OblivSK[NodeOn(leaf', l)]]
  BY ModeAssumption DEF ReadPath, Shape, TypeOK, Bid
<1>2. \A l \in Level : NodeOn(leaf', l) \in Node /\ NodeOn(leaf', l)[1] = l
  BY <1>1, NodeOnNode
<1>3. \A n \in Node, s \in Slot :
        TreeHolds(n, s)' => TreeHolds(n, s) /\ n # NodeOn(leaf', n[1])
  BY <1>1 DEF TreeHolds, Busy, OnPath
<1>4. \A l \in Level, s \in Slot :
        PathHolds(l, s)' => /\ Path'[l][s] = OblivSK[NodeOn(leaf', l)][s]
                            /\ TreeHolds(NodeOn(leaf', l), s)
  BY <1>1, <1>2 DEF TreeHolds, PathHolds, Busy
<1>5. /\ InUse' = InUse
      /\ \A k \in InUse : StashHolds(k)' <=> StashHolds(k)
  BY <1>1 DEF InUse, StashHolds
<1>6. Placed'
  <2>1. PathPlacement'
    BY <1>1, <1>2, <1>4 DEF Safe, Placed, PathPlacement, TreePlacement
  <2> QED
    BY <1>1, <1>3, <1>5, <2>1 DEF Safe, Placed, TreePlacement, StashPlacement, HoldsPos
<1>7. Single'
  <2>1. OneInTree' /\ OneInStash' /\ TreeNotStash'
    BY <1>1, <1>3, <1>5 DEF Safe, Single, OneInTree, OneInStash, TreeNotStash
  <2>2. OneInPath'
    BY <1>1, <1>2, <1>4 DEF Safe, Single, OneInTree, OneInPath
  <2>3. TreeNotPath'
    BY <1>1, <1>2, <1>3, <1>4 DEF Safe, Single, OneInTree, TreeNotPath
  <2>4. StashNotPath'
    BY <1>1, <1>2, <1>4, <1>5 DEF Safe, Single, TreeNotStash, StashNotPath
  <2> QED
    BY <2>1, <2>2, <2>3, <2>4 DEF Single
<1> QED
  BY <1>1, <1>6, <1>7 DEF Safe, StrandedFree, Empty, InitClean, LeafKept, MissedAbsent

\* A chunk enters its level of the tree.
LEMMA InitLevelSafe ==
  ASSUME Shape, Safe, InitLevel
  PROVE  Safe'
<1> DEFINE S == Chunk(lvl)
<1>1. /\ pc = "init" /\ pc' \in {"init", "idle"}
      /\ flag_start' = flag_start + 2^lvl
      /\ UNCHANGED <<stash, length_st, Path, bid, leaf>>
  BY DEF InitLevel, NextLevel, call
<1>2. PICK p \in [S -> Draws] : \E o \in SortedByLeaf(S, p) :
        /\ OblivSK' = FillLevel(S, p, o)
        /\ pos_map' = [b \in Bid |-> IF b \in S THEN p[b] ELSE pos_map[b]]
  BY DEF InitLevel
<1>3. PICK ord \in SortedByLeaf(S, p) : OblivSK' = FillLevel(S, p, ord)
  BY <1>2
<1>4. 2^lvl \in Nat \ {0} /\ flag_start \in Nat
  BY PowerAssumption DEF Shape, TypeOK, Level
<1>5. \A b \in S : b \in Bid /\ flag_start <= b /\ b < flag_start'
  BY <1>1 DEF Chunk
<1>6. \A k \in StashPos : Empty(k) /\ ~StashHolds(k)
  BY <1>1 DEF Safe, InitClean, Empty, StashHolds
<1>7. InUse' = InUse /\ InUse \subseteq StashPos
  BY <1>1, InUseStash DEF InUse
<1>8. \A k \in InUse' : ~StashHolds(k)'
  BY <1>1, <1>6, <1>7 DEF StashHolds
<1>9. \A l \in Level, s \in Slot : ~PathHolds(l, s)'
  BY <1>1 DEF PathHolds, PathLive
<1>10. \A n \in Node, s \in Slot : TreeHolds(n, s) <=> OblivSK[n][s] # DUMMY_FLAG
  BY <1>1 DEF TreeHolds, Busy
<1>11. \A n \in Node, s \in Slot : TreeHolds(n, s)' => OblivSK'[n][s] # DUMMY_FLAG
  BY DEF TreeHolds
<1>12. \A n \in Node, s \in Slot :
         \/ \E b \in S : /\ Goes(b, n, s, S, p, ord)
                         /\ OblivSK'[n][s] = [id |-> b, pos |-> p[b], data |-> "copied"]
         \/ OblivSK'[n][s] = OblivSK[n][s]
  BY <1>3, FillLevelCell
<1>13. ASSUME NEW n \in Node, NEW s \in Slot, OblivSK[n][s] # DUMMY_FLAG
       PROVE  /\ OblivSK[n][s].id < flag_start /\ OblivSK[n][s].id \in Bid
              /\ OblivSK[n][s].id \notin S
              /\ TreeHolds(n, s)
  <2>1. OblivSK[n][s].id < flag_start
    BY <1>1, <1>13 DEF Safe, InitClean
  <2>2. OblivSK[n][s] \in Block
    BY <1>13 DEF Shape, TypeOK, Cell
  <2>3. OblivSK[n][s].id \in Bid
    BY <2>2 DEF Block
  <2>4. OblivSK[n][s].id \notin S
    BY <1>4, <2>1, <2>3 DEF Chunk, Bid
  <2> QED
    BY <1>10, <1>13, <2>1, <2>3, <2>4
<1>14. \A b \in S : pos_map'[b] = p[b]
  BY <1>2, <1>5
<1>15. \A b \in Bid : b \notin S => pos_map'[b] = pos_map[b]
  BY <1>2
<1> HIDE DEF S
<1>16. TreePlacement'
  <2> SUFFICES ASSUME NEW n \in Node, NEW s \in Slot, OblivSK'[n][s] # DUMMY_FLAG
               PROVE  /\ OblivSK'[n][s].pos = pos_map'[OblivSK'[n][s].id]
                      /\ n = NodeOn(OblivSK'[n][s].pos, n[1])
    BY <1>11 DEF TreePlacement
  <2>1. CASE OblivSK'[n][s] = OblivSK[n][s]
    BY <2>1, <1>13, <1>15 DEF Safe, Placed, TreePlacement
  <2>2. ASSUME NEW b \in S, Goes(b, n, s, S, p, ord),
               OblivSK'[n][s] = [id |-> b, pos |-> p[b], data |-> "copied"]
        PROVE  /\ OblivSK'[n][s].pos = pos_map'[OblivSK'[n][s].id]
               /\ n = NodeOn(OblivSK'[n][s].pos, n[1])
    <3>1. n = NodeOn(p[b], lvl)
      BY <2>2 DEF Goes
    <3>2. n[1] = lvl
      BY <3>1 DEF NodeOn
    <3> QED
      BY <2>2, <3>1, <3>2, <1>14
  <2> QED
    BY <2>1, <2>2, <1>12
<1>o. ASSUME NEW n \in Node, NEW s \in Slot, OblivSK'[n][s] # DUMMY_FLAG
      PROVE  IF OblivSK'[n][s].id \in S
             THEN Goes(OblivSK'[n][s].id, n, s, S, p, ord)
             ELSE OblivSK'[n][s] = OblivSK[n][s]
  <2>1. CASE OblivSK'[n][s] = OblivSK[n][s]
    <3>1. OblivSK[n][s].id \notin S
      BY <2>1, <1>o, <1>13
    <3> QED
      BY <2>1, <3>1
  <2>2. ASSUME NEW b \in S, Goes(b, n, s, S, p, ord),
               OblivSK'[n][s] = [id |-> b, pos |-> p[b], data |-> "copied"]
        PROVE  OblivSK'[n][s].id \in S /\ Goes(OblivSK'[n][s].id, n, s, S, p, ord)
    <3>1. OblivSK'[n][s].id = b
      BY <2>2
    <3> QED
      BY <3>1, <2>2
  <2> QED
    BY <2>1, <2>2, <1>12
<1>17. OneInTree'
  <2> SUFFICES ASSUME NEW n \in Node, NEW m \in Node, NEW s \in Slot, NEW t \in Slot,
                      OblivSK'[n][s] # DUMMY_FLAG, OblivSK'[m][t] # DUMMY_FLAG,
                      OblivSK'[n][s].id = OblivSK'[m][t].id
               PROVE  n = m /\ s = t
    BY <1>11 DEF OneInTree
  <2>1. CASE OblivSK'[n][s].id \in S
    <3>1. Goes(OblivSK'[n][s].id, n, s, S, p, ord) /\ Goes(OblivSK'[m][t].id, m, t, S, p, ord)
      BY <2>1, <1>o
    <3> QED
      BY <3>1 DEF Goes
  <2>2. CASE OblivSK'[n][s].id \notin S
    <3>1. OblivSK'[n][s] = OblivSK[n][s] /\ OblivSK'[m][t] = OblivSK[m][t]
      BY <2>2, <1>o
    <3> QED
      BY <3>1, <1>13 DEF Safe, Single, OneInTree
  <2> QED
    BY <2>1, <2>2
<1>18. InitClean'
  <2>1. \A n \in Node, s \in Slot :
          OblivSK'[n][s] # DUMMY_FLAG => OblivSK'[n][s].id < flag_start'
    <3> SUFFICES ASSUME NEW n \in Node, NEW s \in Slot, OblivSK'[n][s] # DUMMY_FLAG
                 PROVE  OblivSK'[n][s].id < flag_start'
      OBVIOUS
    <3>1. CASE OblivSK'[n][s] = OblivSK[n][s]
      BY <3>1, <1>13, <1>1, <1>4 DEF Bid
    <3>2. CASE \E b \in S : OblivSK'[n][s] = [id |-> b, pos |-> p[b], data |-> "copied"]
      BY <3>2, <1>5
    <3> QED
      BY <3>1, <3>2, <1>12
  <2> QED
    BY <2>1, <1>1, <1>6 DEF InitClean, Empty
<1>19. Placed' /\ Single'
  BY <1>8, <1>9, <1>16, <1>17 DEF Placed, Single, StashPlacement, PathPlacement, OneInStash,
                                  OneInPath, TreeNotStash, TreeNotPath, StashNotPath
<1> QED
  BY <1>1, <1>6, <1>18, <1>19 DEF Safe, StrandedFree, Empty, LeafKept, MissedAbsent

LEMMA SkipLevelSafe ==
  ASSUME Shape, Safe, SkipLevel
  PROVE  Safe'
<1>1. /\ pc = "init" /\ pc' \in {"init", "idle"}
      /\ UNCHANGED <<OblivSK, Path, stash, length_st, pos_map, flag_start>>
  BY DEF SkipLevel, NextLevel, store
<1>2. /\ \A n \in Node, s \in Slot : TreeHolds(n, s)' <=> TreeHolds(n, s)
      /\ \A l \in Level, s \in Slot : ~PathHolds(l, s)'
      /\ InUse' = InUse
      /\ \A k \in InUse : StashHolds(k)' <=> StashHolds(k)
  BY <1>1 DEF TreeHolds, PathHolds, PathLive, Busy, InUse, StashHolds
<1>3. Placed'
  BY <1>1, <1>2 DEF Safe, Placed, TreePlacement, StashPlacement, PathPlacement, HoldsPos
<1>4. Single'
  BY <1>1, <1>2 DEF Safe, Single, OneInTree, OneInStash, OneInPath,
                    TreeNotStash, TreeNotPath, StashNotPath
<1> QED
  BY <1>1, <1>3, <1>4 DEF Safe, StrandedFree, Empty, InitClean, LeafKept, MissedAbsent

\* Between the write and the rebuild the path is neither in the tree nor in
\* Path: every block of it is in the stash.
LEMMA ReadFrame ==
  ASSUME pc \in {"read", "add", "clear"}, pc' \in {"read", "add", "clear"},
         UNCHANGED <<OblivSK, leaf>>
  PROVE  /\ \A n \in Node, s \in Slot : TreeHolds(n, s)' <=> TreeHolds(n, s)
         /\ \A l \in Level, s \in Slot : ~PathHolds(l, s)'
BY DEF TreeHolds, PathHolds, PathLive, Busy, OnPath

\* With the requested block not yet moved, no live bucket holds it.
LEMMA RequestedNotInTree ==
  ASSUME Shape, Safe, pc \in {"write", "read"}, NEW n \in Node, NEW s \in Slot, TreeHolds(n, s)
  PROVE  OblivSK[n][s].id # bid
<1> SUFFICES ASSUME OblivSK[n][s].id = bid PROVE FALSE
  OBVIOUS
<1>1. n = NodeOn(leaf, n[1])
  BY DEF Safe, Placed, TreePlacement, LeafKept
<1> QED
  BY <1>1 DEF TreeHolds, Busy, OnPath

LEMMA ReadHitSafe ==
  ASSUME Shape, Safe, NEW p \in Draws, ReadHit(TRUE, p)
  PROVE  Safe'
<1>1. /\ pc = "read" /\ pc' = "clear" /\ bid \in Bid
      /\ UNCHANGED <<OblivSK, Path, leaf, bid, length_st>>
      /\ pos_map' = [pos_map EXCEPT ![bid] = p]
      /\ pos_map \in [Bid -> Leaf]
  BY DEF ReadHit, call, Shape, TypeOK
<1>2. PICK k \in InUse : /\ stash[k] # DUMMY_FLAG /\ stash[k].id = bid
                         /\ stash' = [stash EXCEPT ![k].pos = p]
  BY DEF ReadHit, IsFirst, Holds
<1>3. k \in StashPos /\ stash[k] \in Block
  BY <1>2, InUseStash DEF Shape, TypeOK, Cell
<1>4. /\ stash'[k].id = bid /\ stash'[k].pos = p /\ stash'[k] \in Block
      /\ \A m \in StashPos : m # k => stash'[m] = stash[m]
  BY <1>2, <1>3, DrawsAreLeaves DEF Shape, TypeOK, Block
<1>5. /\ InUse' = InUse /\ InUse \subseteq StashPos
      /\ \A m \in InUse : /\ StashHolds(m)' <=> StashHolds(m)
                          /\ StashHolds(m) => stash'[m].id = stash[m].id
  BY <1>1, <1>2, <1>4, DummyAssumption, InUseStash DEF InUse, StashHolds
<1>6. /\ \A n \in Node, s \in Slot : TreeHolds(n, s)' <=> TreeHolds(n, s)
      /\ \A l \in Level, s \in Slot : ~PathHolds(l, s)'
  BY <1>1, ReadFrame
<1>7. \A b \in Bid : b # bid => pos_map'[b] = pos_map[b]
  BY <1>1
<1>8. pos_map'[bid] = p
  BY <1>1
<1>9. TreePlacement'
  <2> SUFFICES ASSUME NEW n \in Node, NEW s \in Slot, TreeHolds(n, s)
               PROVE  /\ OblivSK[n][s].pos = pos_map'[OblivSK[n][s].id]
                      /\ n = NodeOn(OblivSK[n][s].pos, n[1])
    BY <1>1, <1>6 DEF TreePlacement
  <2>1. OblivSK[n][s].id # bid /\ OblivSK[n][s].id \in Bid
    BY <1>1, RequestedNotInTree DEF TreeHolds, Shape, TypeOK, Cell, Block
  <2> QED
    BY <2>1, <1>7 DEF Safe, Placed, TreePlacement
<1>10. StashPlacement'
  <2> SUFFICES ASSUME NEW m \in InUse, StashHolds(m) PROVE HoldsPos(m)'
    BY <1>5 DEF StashPlacement
  <2>1. CASE m = k
    BY <2>1, <1>4, <1>8 DEF HoldsPos
  <2>2. CASE m # k
    <3>1. stash[m].id # bid /\ stash[m].id \in Bid
      BY <2>2, <1>2, <1>5 DEF Safe, Single, OneInStash, StashHolds, Shape, TypeOK, Cell, Block
    <3> QED
      BY <2>2, <3>1, <1>4, <1>5, <1>7 DEF Safe, Placed, StashPlacement, HoldsPos
  <2> QED
    BY <2>1, <2>2
<1>11. Placed'
  BY <1>6, <1>9, <1>10 DEF Placed, PathPlacement
<1>12. Single'
  BY <1>1, <1>5, <1>6 DEF Safe, Single, OneInTree, OneInStash, OneInPath,
                          TreeNotStash, TreeNotPath, StashNotPath
<1>13. StrandedFree'
  BY <1>1, <1>2, <1>4 DEF Safe, StrandedFree, Empty, InUse, StashPos, Shape, TypeOK
<1> QED
  BY <1>1, <1>11, <1>12, <1>13 DEF Safe, InitClean, LeafKept, MissedAbsent

LEMMA ReadMissSafe ==
  ASSUME Shape, Safe, NEW p \in Draws, ReadMiss(p)
  PROVE  Safe'
<1>1. /\ pc = "read" /\ pc' = "add" /\ bid \in Bid
      /\ UNCHANGED <<OblivSK, Path, leaf, bid, stash, length_st>>
      /\ \A k \in InUse : StashHolds(k) => stash[k].id # bid
      /\ \A b \in Bid : b # bid => pos_map'[b] = pos_map[b]
  BY DEF ReadMiss, call, Shape, TypeOK, Holds, StashHolds
<1>2. /\ InUse' = InUse /\ InUse \subseteq StashPos
      /\ \A m \in InUse : StashHolds(m)' <=> StashHolds(m)
  BY <1>1, InUseStash DEF InUse, StashHolds
<1>3. /\ \A n \in Node, s \in Slot : TreeHolds(n, s)' <=> TreeHolds(n, s)
      /\ \A l \in Level, s \in Slot : ~PathHolds(l, s)'
  BY <1>1, ReadFrame
<1>4. \A n \in Node, s \in Slot : TreeHolds(n, s) => OblivSK[n][s].id \in Bid \ {bid}
  BY <1>1, RequestedNotInTree DEF TreeHolds, Shape, TypeOK, Cell, Block
<1>5. \A k \in InUse : StashHolds(k) => stash[k].id \in Bid \ {bid}
  BY <1>1, <1>2 DEF StashHolds, Shape, TypeOK, Cell, Block
<1>6. Placed'
  <2>1. TreePlacement'
    BY <1>1, <1>3, <1>4 DEF Safe, Placed, TreePlacement
  <2>2. StashPlacement'
    BY <1>1, <1>2, <1>5 DEF Safe, Placed, StashPlacement, HoldsPos
  <2> QED
    BY <2>1, <2>2, <1>3 DEF Placed, PathPlacement
<1>7. Single'
  BY <1>1, <1>2, <1>3 DEF Safe, Single, OneInTree, OneInStash, OneInPath,
                          TreeNotStash, TreeNotPath, StashNotPath
<1>8. MissedAbsent'
  BY <1>1, <1>2, <1>3, <1>4 DEF MissedAbsent
<1> QED
  BY <1>1, <1>6, <1>7, <1>8 DEF Safe, StrandedFree, Empty, InitClean, LeafKept

LEMMA AddZeroSafe ==
  ASSUME Shape, Safe, AddZero
  PROVE  Safe'
<1>1. /\ pc = "add" /\ pc' = "clear" /\ bid \in Bid /\ pos_map[bid] \in Leaf
      /\ UNCHANGED <<OblivSK, Path, leaf, bid, length_st, pos_map>>
  BY DEF AddZero, call, Shape, TypeOK
<1>2. PICK k \in InUse :
        stash' = [stash EXCEPT ![k] = [id |-> bid, pos |-> pos_map[bid], data |-> "zeroed"]]
  BY DEF AddZero
<1>3. k \in StashPos
  BY InUseStash
<1>4. /\ stash'[k].id = bid /\ stash'[k].pos = pos_map[bid] /\ stash'[k] \in Block
      /\ \A m \in StashPos : m # k => stash'[m] = stash[m]
  BY <1>1, <1>2, <1>3 DEF Shape, TypeOK, Block
<1>5. /\ InUse' = InUse /\ InUse \subseteq StashPos
      /\ \A m \in InUse : m # k => (StashHolds(m)' <=> StashHolds(m)) /\ stash'[m] = stash[m]
  BY <1>1, <1>4, InUseStash DEF InUse, StashHolds
<1>6. /\ \A n \in Node, s \in Slot : TreeHolds(n, s)' <=> TreeHolds(n, s)
      /\ \A l \in Level, s \in Slot : ~PathHolds(l, s)'
  BY <1>1, ReadFrame
<1>7. /\ \A n \in Node, s \in Slot : TreeHolds(n, s) => OblivSK[n][s].id # bid
      /\ \A m \in InUse : StashHolds(m) => stash[m].id # bid
  BY <1>1 DEF Safe, MissedAbsent
<1>8. Placed'
  <2>1. StashPlacement'
    BY <1>1, <1>4, <1>5 DEF Safe, Placed, StashPlacement, HoldsPos
  <2> QED
    BY <2>1, <1>1, <1>6 DEF Safe, Placed, TreePlacement, PathPlacement
<1>9. Single'
  <2>1. OneInTree' /\ OneInPath' /\ TreeNotPath' /\ StashNotPath'
    BY <1>1, <1>6 DEF Safe, Single, OneInTree, OneInPath, TreeNotPath, StashNotPath
  <2>2. OneInStash'
    BY <1>4, <1>5, <1>7 DEF Safe, Single, OneInStash
  <2>3. TreeNotStash'
    BY <1>1, <1>4, <1>5, <1>6, <1>7 DEF Safe, Single, TreeNotStash
  <2> QED
    BY <2>1, <2>2, <2>3 DEF Single
<1>10. StrandedFree'
  BY <1>1, <1>4, <1>2, <1>3 DEF Safe, StrandedFree, Empty, InUse, StashPos, Shape, TypeOK
<1> QED
  BY <1>1, <1>8, <1>9, <1>10 DEF Safe, InitClean, LeafKept, MissedAbsent

LEMMA ClearPathSafe ==
  ASSUME Shape, Safe, ClearPath
  PROVE  Safe'
<1>1. /\ pc = "clear" /\ pc' = "rebuild"
      /\ UNCHANGED <<OblivSK, stash, length_st, pos_map, leaf, bid>>
      /\ Path' = [l \in Level |-> EmptyBucket]
  BY DEF ClearPath, call
<1>2. /\ \A n \in Node, s \in Slot : TreeHolds(n, s)' <=> TreeHolds(n, s)
      /\ \A l \in Level, s \in Slot : ~PathHolds(l, s)'
      /\ InUse' = InUse
      /\ \A k \in InUse : StashHolds(k)' <=> StashHolds(k)
  BY <1>1 DEF TreeHolds, PathHolds, EmptyBucket, Busy, OnPath, InUse, StashHolds
<1>3. Placed'
  BY <1>1, <1>2 DEF Safe, Placed, TreePlacement, StashPlacement, PathPlacement, HoldsPos
<1>4. Single'
  BY <1>1, <1>2 DEF Safe, Single, OneInTree, OneInStash, OneInPath,
                    TreeNotStash, TreeNotPath, StashNotPath
<1> QED
  BY <1>1, <1>3, <1>4 DEF Safe, StrandedFree, Empty, InitClean, LeafKept, MissedAbsent

\* A block goes from the stash to the cell at hand, where the path allows it.
LEMMA RebuildSafe ==
  ASSUME Shape, Safe, NEW then \in {"compress", "push"}, RebuildCell(TRUE, then)
  PROVE  Safe'
<1>1. /\ TypeOK /\ pc = "rebuild" /\ pc' \in {"rebuild", "compress", "push"}
      /\ UNCHANGED <<OblivSK, leaf, bid, length_st, pos_map>>
      /\ lvl \in Level /\ slot \in Slot
  BY PrevCellShape DEF RebuildCell, Shape, call, TypeOK
<1>2. /\ \A n \in Node, s \in Slot : TreeHolds(n, s)' <=> TreeHolds(n, s)
      /\ \A l \in Level, s \in Slot : PathHolds(l, s) <=> Path[l][s] # DUMMY_FLAG
      /\ \A l \in Level, s \in Slot : PathHolds(l, s)' <=> Path'[l][s] # DUMMY_FLAG
      /\ InUse' = InUse /\ InUse \subseteq StashPos
  BY <1>1, InUseStash DEF TreeHolds, PathHolds, PathLive, Busy, OnPath, InUse
<1>3. ASSUME UNCHANGED <<Path, stash>>
      PROVE  Safe'
  <2>1. /\ \A l \in Level, s \in Slot : PathHolds(l, s)' <=> PathHolds(l, s)
        /\ \A k \in InUse : StashHolds(k)' <=> StashHolds(k)
    BY <1>2, <1>3 DEF StashHolds
  <2>2. Placed'
    BY <1>1, <1>2, <1>3, <2>1 DEF Safe, Placed, TreePlacement, StashPlacement,
                                  PathPlacement, HoldsPos
  <2>3. Single'
    BY <1>1, <1>2, <1>3, <2>1 DEF Safe, Single, OneInTree, OneInStash, OneInPath,
                                  TreeNotStash, TreeNotPath, StashNotPath
  <2> QED
    BY <1>1, <1>3, <2>2, <2>3 DEF Safe, StrandedFree, Empty, InitClean, LeafKept, MissedAbsent
<1>4. ASSUME NEW k \in InUse, IsFirst(k, 0, Fits),
             Path' = [Path EXCEPT ![lvl][slot] = stash[k]],
             stash' = [stash EXCEPT ![k] = DUMMY_FLAG]
      PROVE  Safe'
  <2>1. /\ k \in StashPos /\ StashHolds(k)
        /\ NodeOn(pos_map[stash[k].id], lvl) = NodeOn(leaf, lvl)
    BY <1>2, <1>4 DEF IsFirst, Fits, Empty, StashHolds
  <2>2. stash[k].pos = pos_map[stash[k].id]
    BY <2>1, <1>4 DEF Safe, Placed, StashPlacement, HoldsPos
  <2>3. /\ Path'[lvl][slot] = stash[k]
        /\ \A l \in Level, s \in Slot : l # lvl \/ s # slot => Path'[l][s] = Path[l][s]
    BY <1>1, <1>4 DEF TypeOK
  <2>4. /\ stash'[k] = DUMMY_FLAG
        /\ \A m \in StashPos : m # k => stash'[m] = stash[m]
    BY <1>1, <1>4, <2>1 DEF TypeOK
  <2>5. \A m \in InUse : StashHolds(m)' => m # k /\ StashHolds(m) /\ stash'[m] = stash[m]
    BY <1>2, <2>4 DEF StashHolds
  <2>6. \A l \in Level, s \in Slot : PathHolds(l, s)' =>
          \/ l = lvl /\ s = slot
          \/ PathHolds(l, s) /\ Path'[l][s] = Path[l][s]
    BY <1>2, <2>3
  <2>7. Placed'
    <3>1. StashPlacement'
      BY <1>1, <1>2, <2>5 DEF Safe, Placed, StashPlacement, HoldsPos
    <3>2. PathPlacement'
      BY <1>1, <2>1, <2>2, <2>3, <2>6 DEF Safe, Placed, PathPlacement
    <3> QED
      BY <1>1, <1>2, <3>1, <3>2 DEF Safe, Placed, TreePlacement
  <2>8. Single'
    <3>1. OneInTree'
      BY <1>1, <1>2 DEF Safe, Single, OneInTree
    <3>2. OneInStash' /\ TreeNotStash'
      BY <1>1, <1>2, <2>5 DEF Safe, Single, OneInStash, TreeNotStash
    <3>3. OneInPath'
      BY <1>4, <2>1, <2>3, <2>6 DEF Safe, Single, OneInPath, StashNotPath
    <3>4. TreeNotPath'
      BY <1>1, <1>2, <1>4, <2>1, <2>3, <2>6 DEF Safe, Single, TreeNotPath, TreeNotStash
    <3>5. StashNotPath'
      BY <1>2, <1>4, <2>1, <2>3, <2>5, <2>6 DEF Safe, Single, StashNotPath, OneInStash
    <3> QED
      BY <3>1, <3>2, <3>3, <3>4, <3>5 DEF Single
  <2>9. StrandedFree'
    BY <1>1, <2>1, <2>4 DEF Safe, StrandedFree, Empty
  <2> QED
    BY <1>1, <2>7, <2>8, <2>9 DEF Safe, InitClean, LeafKept, MissedAbsent
<1> QED
  BY <1>3, <1>4 DEF RebuildCell

\* Sorting moves the blocks to the front, and the length keeps them all.
LEMMA CompressSafe ==
  ASSUME Shape, Safe, OCompressStash \/ compressStash
  PROVE  Safe'
<1> DEFINE S == Filled
<1>1. /\ \/ pc = "compress" /\ pc' = "push"
         \/ pc = "idle" /\ pc' = "idle"
      /\ length_st \in Nat
      /\ UNCHANGED <<OblivSK, Path, leaf, bid, pos_map, lvl, slot>>
      /\ InUse = 0 .. length_st - 1
      /\ InUse \subseteq StashPos
  BY InUseStash DEF OCompressStash, compressStash, call, Shape, TypeOK, InUse
<1>2. PICK ord \in Order :
        /\ stash' = [k \in StashPos |->
                      IF k \in InUse
                      THEN IF \E m \in S : ord[m] = k
                           THEN stash[CHOOSE m \in S : ord[m] = k] ELSE DUMMY_FLAG
                      ELSE stash[k]]
        /\ length_st' = IF Cardinality(S) < DEFAULT_STASH_LENGTH
                        THEN DEFAULT_STASH_LENGTH ELSE Cardinality(S)
  BY DEF OCompressStash, compressStash, SortedById, InPlace, Compact
<1>3. length_st' = IF Cardinality(S) < DEFAULT_STASH_LENGTH
                   THEN DEFAULT_STASH_LENGTH ELSE Cardinality(S)
  BY <1>2
<1>4. /\ IsFiniteSet(S) /\ Cardinality(S) \in Nat
      /\ Cardinality(S) <= length_st
  BY FilledCount
<1>5. ord \in [S -> 0 .. Cardinality(S) - 1]
  BY DEF Order, Bijection, Injection
<1>6. \A m \in S : m \in InUse /\ StashHolds(m)
  BY DEF Filled, Empty, StashHolds
<1> HIDE DEF S
<1>7. DEFAULT_STASH_LENGTH <= length_st /\ DEFAULT_STASH_LENGTH \in Nat
  BY StashAssumption DEF Shape, StashInBounds
<1>8. length_st' \in Nat /\ length_st' <= length_st /\ Cardinality(S) <= length_st'
  BY <1>1, <1>3, <1>4, <1>7
<1>9. InUse' \subseteq InUse
  <2>1. InUse' = 0 .. length_st' - 1
    BY DEF InUse
  <2> QED
    BY <1>1, <1>8, <2>1, PrefixGrows
<1>10. \A k \in InUse : stash'[k] # DUMMY_FLAG =>
         \E m \in S : ord[m] = k /\ stash'[k] = stash[m]
  <2> SUFFICES ASSUME NEW k \in InUse, stash'[k] # DUMMY_FLAG
               PROVE  \E m \in S : ord[m] = k /\ stash'[k] = stash[m]
    OBVIOUS
  <2>1. \E m \in S : ord[m] = k
    BY <1>1, <1>2
  <2>2. (CHOOSE m \in S : ord[m] = k) \in S /\ ord[CHOOSE m \in S : ord[m] = k] = k
    BY <2>1
  <2> QED
    BY <1>1, <1>2, <2>1, <2>2
<1>11. \A k \in InUse' : StashHolds(k)' =>
         \E m \in InUse : /\ StashHolds(m) /\ m \in S
                         /\ ord[m] = k /\ stash'[k] = stash[m]
  BY <1>6, <1>9, <1>10 DEF StashHolds
<1>12. /\ \A n \in Node, s \in Slot : TreeHolds(n, s)' <=> TreeHolds(n, s)
       /\ \A l \in Level, s \in Slot : PathHolds(l, s)' <=> PathHolds(l, s)
  BY <1>1 DEF TreeHolds, PathHolds, PathLive, Busy, OnPath
<1>13. Placed'
  <2>1. StashPlacement'
    BY <1>1, <1>11 DEF Safe, Placed, StashPlacement, HoldsPos
  <2> QED
    BY <2>1, <1>1, <1>12 DEF Safe, Placed, TreePlacement, PathPlacement
<1>14. Single'
  <2>1. OneInTree' /\ OneInPath' /\ TreeNotPath'
    BY <1>1, <1>12 DEF Safe, Single, OneInTree, OneInPath, TreeNotPath
  <2>2. OneInStash'
    BY <1>11 DEF Safe, Single, OneInStash
  <2>3. TreeNotStash'
    BY <1>1, <1>11, <1>12 DEF Safe, Single, TreeNotStash
  <2>4. StashNotPath'
    BY <1>1, <1>11, <1>12 DEF Safe, Single, StashNotPath
  <2> QED
    BY <2>1, <2>2, <2>3, <2>4 DEF Single
<1>15. StrandedFree'
  <2> SUFFICES ASSUME NEW k \in StashPos, length_st' <= k PROVE stash'[k] = DUMMY_FLAG
    BY DEF StrandedFree, Empty
  <2>1. CASE k \in InUse
    <3>1. ASSUME NEW m \in S PROVE ord[m] # k
      BY <1>4, <1>5, <1>8 DEF StashPos
    <3> QED
      BY <2>1, <3>1, <1>10
  <2>2. CASE k \notin InUse
    <3>1. length_st <= k
      BY <2>2, <1>1 DEF StashPos
    <3> QED
      BY <2>2, <3>1, <1>2 DEF Safe, StrandedFree, Empty
  <2> QED
    BY <2>1, <2>2
<1> QED
  BY <1>1, <1>13, <1>14, <1>15 DEF Safe, InitClean, LeafKept, MissedAbsent

\* Path goes back to the tree.
LEMMA PushPathSafe ==
  ASSUME Shape, Safe, PushPath
  PROVE  Safe'
<1>1. /\ pc = "push" /\ pc' = "idle"
      /\ UNCHANGED <<stash, length_st, pos_map>>
      /\ OblivSK' = [n \in Node |-> IF n = NodeOn(leaf, n[1]) THEN Path[n[1]] ELSE OblivSK[n]]
  BY DEF PushPath
<1>2. \A n \in Node, s \in Slot : TreeHolds(n, s)' =>
        \/ /\ n = NodeOn(leaf, n[1]) /\ n[1] \in Level
           /\ PathHolds(n[1], s) /\ OblivSK'[n][s] = Path[n[1]][s]
        \/ TreeHolds(n, s) /\ OblivSK'[n][s] = OblivSK[n][s]
  BY <1>1, NodeLevel DEF TreeHolds, PathHolds, PathLive, OnPath
<1>3. \A l \in Level, s \in Slot : ~PathHolds(l, s)'
  BY <1>1 DEF PathHolds, PathLive
<1>4. /\ InUse' = InUse
      /\ \A k \in InUse : StashHolds(k)' <=> StashHolds(k)
  BY <1>1 DEF InUse, StashHolds
<1>5. Placed'
  <2>1. TreePlacement'
    BY <1>1, <1>2 DEF Safe, Placed, TreePlacement, PathPlacement
  <2> QED
    BY <2>1, <1>1, <1>3, <1>4 DEF Safe, Placed, StashPlacement, PathPlacement, HoldsPos
<1>6. Single'
  <2>1. OneInTree'
    BY <1>2 DEF Safe, Single, OneInTree, OneInPath, TreeNotPath
  <2>2. TreeNotStash'
    BY <1>1, <1>2, <1>4 DEF Safe, Single, TreeNotStash, StashNotPath
  <2> QED
    BY <2>1, <2>2, <1>1, <1>3, <1>4 DEF Safe, Single, OneInStash, OneInPath,
                                        TreeNotPath, StashNotPath
<1> QED
  BY <1>1, <1>5, <1>6 DEF Safe, StrandedFree, Empty, InitClean, LeafKept, MissedAbsent

\* No assert fails where every block is placed and single.
LEMMA NoAbortSafe ==
  ASSUME Shape, Safe
  PROVE  ~AbortStep
<1>1. FoundOnce /\ FoundAtPos
  BY DEF Safe, Placed, Single, OneInStash, StashPlacement, FoundOnce, FoundAtPos,
         Holds, StashHolds, IsFirst
<1>2. AllAtPos
  BY DEF Safe, Placed, StashPlacement, AllAtPos, StashHolds, Empty
<1> QED
  BY <1>1, <1>2 DEF AbortStep

LEMMA OverflowStays == [Next]_vars /\ ~overflowed' => ~overflowed
<1> USE DEF vars, store, count
<1>1. ASSUME WriteStep PROVE ~overflowed' => ~overflowed
  BY <1>1 DEF WriteStep, OWrite, writeToStash, SkipEmpty, OPlace, OGrow, OOverflow,
              Place, Grow, Overflow, Drop
<1>2. ASSUME ReadStep PROVE ~overflowed' => ~overflowed
  BY <1>2 DEF ReadStep, ReadHit, ReadMiss, AddZero, AddGrow, AddFail
<1>3. ASSUME RebuildStep \/ AbortStep PROVE UNCHANGED overflowed
  BY <1>3 DEF RebuildStep, RebuildCell, AbortStep, Abort
<1> QED
  BY <1>1, <1>2, <1>3, AccessCases DEF Next, Step, InitLevel, SkipLevel, ReadPath, ClearPath,
     OCompressStash, compressStash, PushPath

LEMMA SafeStep == Shape /\ SafeUntilFull /\ [Next]_vars => SafeUntilFull'
<1> SUFFICES ASSUME Shape, SafeUntilFull, [Next]_vars, ~overflowed' PROVE Safe'
  BY DEF SafeUntilFull
<1>1. Shape' /\ Safe
  BY ShapeStep, OverflowStays DEF SafeUntilFull
<1>2. ~Overflow /\ ~AddFail /\ \A pace \in Growths : ~OOverflow(pace)
  BY DEF OOverflow, Overflow, AddFail
<1>3. CASE WriteStep
  BY <1>1, <1>2, <1>3, SkipSafe, PlaceSafe, GrowSafe DEF WriteStep, OWrite, writeToStash
<1>4. CASE ReadStep
  BY <1>1, <1>2, <1>4, ReadHitSafe, ReadMissSafe, AddZeroSafe, GrowSafe DEF ReadStep
<1>5. CASE UNCHANGED vars
  <2>1. UNCHANGED <<pc, OblivSK, stash, length_st, pos_map, Path, mode, bid, leaf, lvl, slot, flag_start>>
    BY <1>5 DEF vars, store, call
  <2> QED
    BY <2>1, <1>1 DEF Safe, Placed, TreePlacement, StashPlacement, PathPlacement, HoldsPos,
       Single, OneInTree, OneInStash, OneInPath, TreeNotStash, TreeNotPath, StashNotPath,
       StrandedFree, Empty, InitClean, LeafKept, MissedAbsent, TreeHolds, StashHolds,
       PathHolds, PathLive, Pending, Busy, OnPath, InUse
<1> QED
  BY <1>1, <1>3, <1>4, <1>5, AccessCases, InitLevelSafe, SkipLevelSafe, ReadPathSafe,
     ClearPathSafe, RebuildSafe, CompressSafe, PushPathSafe, NoAbortSafe
     DEF Next, Step, RebuildStep

\* The invariant the rest follows from.
THEOREM SafeUntilFullHolds == Spec => []SafeUntilFull
<1>1. Init => Shape /\ SafeUntilFull
  BY ShapeInit, SafeInit DEF SafeUntilFull
<1>2. Shape /\ SafeUntilFull /\ [Next]_vars => (Shape /\ SafeUntilFull)'
  BY ShapeStep, SafeStep
<1> QED
  BY <1>1, <1>2, PTL DEF Spec

\* Every block is on the path the position map gives it, as long as the stash
\* refused none.
THEOREM PlacementHolds == Spec => []Placement
<1>1. SafeUntilFull => Placement
  BY DEF SafeUntilFull, Safe, Placement
<1> QED
  BY <1>1, SafeUntilFullHolds, PTL

\* No block has two live copies, as long as the stash refused none.
THEOREM AtMostOneCopyHolds == Spec => []AtMostOneCopy
<1>1. SafeUntilFull => AtMostOneCopy
  BY DEF SafeUntilFull, Safe, AtMostOneCopy
<1> QED
  BY <1>1, SafeUntilFullHolds, PTL

\* No assert of OAccess or access fails, as long as the stash refused no block.
THEOREM NoAbortHolds == Spec => []NoAbort
<1>1. SafeUntilFull => NoAbort
  BY DEF SafeUntilFull, Safe, NoAbort
<1> QED
  BY <1>1, SafeUntilFullHolds, PTL

\* No block is left behind the end of the stash, as long as it refused none.
THEOREM NothingStrandedHolds == Spec => []NothingStranded
<1>1. SafeUntilFull => NothingStranded
  BY DEF SafeUntilFull, Safe, NothingStranded
<1> QED
  BY <1>1, SafeUntilFullHolds, PTL

--------------------------------------------------------------------------------
(* The rebuild fills a cell unless no block of the stash fits it, and no     *)
(* block comes to the stash meanwhile; overflows do not matter here.        *)

HasRoom(k, l) == ~Empty(k) /\ NodeOn(pos_map[stash[k].id], l) = NodeOn(leaf, l)

FilledSoFar ==
  pc = "rebuild" =>
    \A k \in InUse, l \in Level : HasRoom(k, l) =>
      \A s \in Slot : l > lvl \/ (l = lvl /\ s < slot) => Path[l][s] # DUMMY_FLAG

EvictInv == Shape /\ FilledSoFar /\ Evicted

LEMMA EvictRebuild ==
  ASSUME EvictInv, NEW then \in {"compress", "push"}, RebuildCell(TRUE, then)
  PROVE  FilledSoFar' /\ Evicted'
<1>1. /\ TypeOK /\ pc = "rebuild"
      /\ UNCHANGED <<leaf, length_st, pos_map>>
      /\ lvl \in Level /\ slot \in Slot
  BY DEF EvictInv, Shape, TypeOK, RebuildCell, call
<1>2. InUse' = InUse /\ InUse \subseteq StashPos
  BY <1>1, InUseStash DEF EvictInv, InUse
<1>3. ASSUME NEW k \in InUse, NEW l \in Level, HasRoom(k, l)', NEW s \in Slot,
             l > lvl \/ (l = lvl /\ s <= slot)
      PROVE  Path'[l][s] # DUMMY_FLAG
  <2>1. ASSUME NEW m \in InUse, IsFirst(m, 0, Fits),
               Path' = [Path EXCEPT ![lvl][slot] = stash[m]],
               stash' = [stash EXCEPT ![m] = DUMMY_FLAG]
        PROVE  Path'[l][s] # DUMMY_FLAG
    <3>1. stash[m] # DUMMY_FLAG /\ m \in StashPos
      BY <1>2, <2>1 DEF IsFirst, Fits, Empty
    <3>2. k # m /\ stash'[k] = stash[k]
      BY <1>1, <1>2, <1>3, <2>1, <3>1 DEF HasRoom, Empty, TypeOK
    <3>3. HasRoom(k, l)
      BY <1>1, <1>3, <3>2 DEF HasRoom, Empty
    <3>4. CASE l = lvl /\ s = slot
      BY <1>1, <2>1, <3>1, <3>4 DEF TypeOK
    <3>5. CASE ~(l = lvl /\ s = slot)
      <4>1. Path'[l][s] = Path[l][s]
        BY <1>1, <2>1, <3>5 DEF TypeOK
      <4>2. l > lvl \/ (l = lvl /\ s < slot)
        BY <1>1, <1>3, <3>5 DEF Slot
      <4> QED
        BY <1>1, <3>3, <4>1, <4>2 DEF EvictInv, FilledSoFar
    <3> QED
      BY <3>4, <3>5
  <2>2. ASSUME \A m \in InUse : ~Fits(m), UNCHANGED <<Path, stash>>
        PROVE  Path'[l][s] # DUMMY_FLAG
    <3>1. HasRoom(k, l)
      BY <1>1, <1>3, <2>2 DEF HasRoom, Empty
    <3>2. l # lvl
      BY <2>2, <3>1 DEF HasRoom, Fits
    <3> QED
      BY <1>1, <1>3, <2>2, <3>1, <3>2 DEF EvictInv, FilledSoFar
  <2> QED
    BY <2>1, <2>2 DEF RebuildCell
<1>4. CASE slot < sizeBucket - 1 /\ slot' = slot + 1 /\ UNCHANGED <<pc, lvl>>
  <2>1. FilledSoFar'
    BY <1>1, <1>2, <1>3, <1>4 DEF FilledSoFar, Slot, HasRoom
  <2> QED
    BY <1>1, <1>4, <2>1 DEF Evicted
<1>5. CASE slot = sizeBucket - 1 /\ lvl > 0 /\ slot' = 0 /\ lvl' = lvl - 1 /\ UNCHANGED pc
  <2>1. \A s \in Slot : s <= slot /\ ~(s < slot')
    BY <1>5, TreeAssumption DEF Slot
  <2>2. \A l \in Level : l > lvl' => l > lvl \/ l = lvl
    BY <1>1, <1>5, TreeAssumption DEF Level
  <2>3. FilledSoFar'
    BY <1>1, <1>2, <1>3, <2>1, <2>2 DEF FilledSoFar, HasRoom
  <2> QED
    BY <1>1, <1>5, <2>3 DEF Evicted
<1>6. CASE slot = sizeBucket - 1 /\ lvl = 0 /\ pc' = then
  <2>1. \A s \in Slot : s <= slot
    BY <1>6, TreeAssumption DEF Slot
  <2>2. \A l \in Level : l > lvl \/ l = lvl
    BY <1>1, <1>6, TreeAssumption DEF Level
  <2>3. Evicted'
    BY <1>1, <1>2, <1>3, <2>1, <2>2 DEF Evicted, HasRoom
  <2> QED
    BY <1>6, <2>3 DEF FilledSoFar
<1> QED
  BY <1>4, <1>5, <1>6 DEF RebuildCell, PrevCell

\* A compression moves blocks within the stash.
LEMMA EvictCompress ==
  ASSUME EvictInv, OCompressStash \/ compressStash
  PROVE  FilledSoFar' /\ Evicted'
<1>1. CASE pc' \notin {"rebuild", "compress", "push"}
  BY <1>1 DEF FilledSoFar, Evicted
<1>2. CASE pc' \in {"rebuild", "compress", "push"}
  <2>1. /\ pc = "compress" /\ pc' = "push" /\ UNCHANGED <<Path, leaf, pos_map>>
        /\ OCompressStash /\ Shape
    BY <1>2 DEF OCompressStash, compressStash, call, EvictInv
  <2>2. PICK ord \in Order : Compact(ord)
    BY <2>1 DEF OCompressStash, SortedById
  <2>3. /\ length_st \in Nat /\ length_st' \in Nat /\ length_st' <= length_st
    BY <2>1, <2>2, FilledCount, StashAssumption DEF Compact, Shape, TypeOK, StashInBounds
  <2>4. InUse' \subseteq InUse /\ InUse \subseteq StashPos
    BY <2>1, <2>3, PrefixGrows, InUseStash DEF InUse
  <2>5. ASSUME NEW k \in InUse', stash'[k] # DUMMY_FLAG
        PROVE  \E m \in InUse : ~Empty(m) /\ stash'[k] = stash[m]
    <3>1. k \in InUse /\ k \in StashPos
      BY <2>4
    <3>2. \E m \in Filled : ord[m] = k
      BY <2>2, <2>5, <3>1 DEF Compact
    <3>3. (CHOOSE m \in Filled : ord[m] = k) \in Filled
      BY <3>2
    <3>4. stash'[k] = stash[CHOOSE m \in Filled : ord[m] = k]
      BY <2>2, <3>1, <3>2 DEF Compact
    <3> QED
      BY <3>3, <3>4 DEF Filled
  <2> QED
    BY <2>1, <2>5 DEF EvictInv, Evicted, FilledSoFar, Empty
<1> QED
  BY <1>1, <1>2

LEMMA EvictStep == EvictInv /\ [Next]_vars => EvictInv'
<1> SUFFICES ASSUME EvictInv, [Next]_vars PROVE EvictInv'
  OBVIOUS
<1>1. Shape'
  BY ShapeStep DEF EvictInv
<1>2. CASE InitLevel \/ SkipLevel \/ PushPath \/ WriteStep \/ ReadStep \/ AbortStep
  <2>1. pc' \notin {"rebuild", "compress", "push"}
    BY <1>2 DEF InitLevel, SkipLevel, NextLevel, PushPath, WriteStep, OWrite, writeToStash,
       SkipEmpty, OPlace, OGrow, OOverflow, Place, Grow, Overflow, Drop, Moving, NextCell,
       ReadStep, ReadHit, ReadMiss, AddZero, AddGrow, AddFail, AbortStep, Abort
  <2> QED
    BY <1>1, <2>1 DEF EvictInv, FilledSoFar, Evicted
<1>3. ASSUME NEW m \in Modes \cap Accesses, NEW b \in Requested, ReadPath(m, b)
      PROVE  EvictInv'
  BY <1>1, <1>3 DEF ReadPath, EvictInv, FilledSoFar, Evicted
<1>4. CASE ClearPath
  <2>1. pc' = "rebuild" /\ lvl' = level /\ slot' = 0
    BY <1>4 DEF ClearPath
  <2>2. \A l \in Level, s \in Slot : ~(l > lvl') /\ ~(s < slot')
    BY <2>1, TreeAssumption DEF Level, Slot
  <2> QED
    BY <1>1, <2>1, <2>2 DEF EvictInv, FilledSoFar, Evicted
<1>5. CASE UNCHANGED vars
  BY <1>1, <1>5 DEF vars, store, call, EvictInv, FilledSoFar, Evicted, HasRoom, Empty, InUse
<1> QED
  BY <1>1, <1>2, <1>3, <1>4, <1>5, AccessCases, EvictRebuild, EvictCompress
     DEF EvictInv, Next, Step, RebuildStep

\* The rebuild leaves no block in the stash that the path has room for, in all
\* four accesses, whatever the stash has refused before.
THEOREM EvictedHolds == Spec => []Evicted
<1>1. Init => EvictInv
  BY ShapeInit DEF Init, EvictInv, FilledSoFar, Evicted
<1>2. EvictInv /\ [Next]_vars => EvictInv'
  BY EvictStep
<1>3. EvictInv => Evicted
  BY DEF EvictInv
<1> QED
  BY <1>1, <1>2, <1>3, PTL DEF Spec

--------------------------------------------------------------------------------
(* Which blocks the instance holds, and with what counters: the store that  *)
(* the accesses see, without regard to where on its way a block is.         *)

Data == {"copied", "zeroed"}

InTree(b, d) ==
  \E n \in Node, s \in Slot :
    TreeHolds(n, s) /\ OblivSK[n][s].id = b /\ OblivSK[n][s].data = d

InStash(b, d) ==
  \E k \in InUse : StashHolds(k) /\ stash[k].id = b /\ stash[k].data = d

InPath(b, d) ==
  \E l \in Level, s \in Slot :
    PathHolds(l, s) /\ Path[l][s].id = b /\ Path[l][s].data = d

Held(b, d) == InTree(b, d) \/ InStash(b, d) \/ InPath(b, d)

\* What a step does to the blocks held.
Kept     == \A b \in Bid, d \in Data : Held(b, d)' <=> Held(b, d)
Fewer    == \A b \in Bid, d \in Data : Held(b, d)' => Held(b, d)
Loses(x) == \A b \in Bid, d \in Data : Held(b, d)' <=> Held(b, d) /\ b # x

LEMMA NextCellPath ==
  ASSUME TypeOK, pc = "write", NextCell, NEW l \in Level, NEW s \in Slot
  PROVE  PathLive(l, s)' <=> PathLive(l, s) /\ (l # lvl \/ s # slot)
BY TreeAssumption DEF NextCell, PathLive, Pending, TypeOK, Level, Slot

\* The step to the next cell takes the cell at hand, and no other, off the path.
LEMMA NextCellHolds ==
  ASSUME TypeOK, pc = "write", NextCell, UNCHANGED <<OblivSK, Path, leaf>>
  PROVE  /\ \A n \in Node, s \in Slot : TreeHolds(n, s)' <=> TreeHolds(n, s)
         /\ \A l \in Level, s \in Slot :
              PathHolds(l, s)' <=> PathHolds(l, s) /\ (l # lvl \/ s # slot)
         /\ \A b, d : InTree(b, d)' <=> InTree(b, d)
         /\ \A b, d : InPath(b, d)' <=>
              \E l \in Level, s \in Slot :
                /\ PathHolds(l, s) /\ (l # lvl \/ s # slot)
                /\ Path[l][s].id = b /\ Path[l][s].data = d
<1>1. pc' \in {"write", "read"}
  BY DEF NextCell
<1>2. Busy /\ Busy'
  BY <1>1 DEF Busy
<1>3. \A n \in Node, s \in Slot : TreeHolds(n, s)' <=> TreeHolds(n, s)
  BY <1>2 DEF TreeHolds, OnPath
<1>4. \A l \in Level, s \in Slot :
        PathHolds(l, s)' <=> PathHolds(l, s) /\ (l # lvl \/ s # slot)
  BY NextCellPath DEF PathHolds
<1>5. \A b, d : InTree(b, d)' <=> InTree(b, d)
  BY <1>3 DEF InTree
<1>6. \A b, d : InPath(b, d)' <=>
        \E l \in Level, s \in Slot :
          /\ PathHolds(l, s) /\ (l # lvl \/ s # slot)
          /\ Path[l][s].id = b /\ Path[l][s].data = d
  BY <1>4 DEF InPath
<1> QED
  BY <1>3, <1>4, <1>5, <1>6

\* The block at hand is nowhere but in the cell at hand.
LEMMA AtHand ==
  ASSUME Shape, Safe, Moving
  PROVE  /\ Path[lvl][slot] \in Block /\ PathHolds(lvl, slot)
         /\ \A d : ~InTree(Path[lvl][slot].id, d) /\ ~InStash(Path[lvl][slot].id, d)
         /\ \A l \in Level, s \in Slot :
              PathHolds(l, s) /\ Path[l][s].id = Path[lvl][slot].id => l = lvl /\ s = slot
<1>1. lvl \in Level /\ slot \in Slot /\ Path[lvl][slot] \in Block
  BY DEF Shape, TypeOK, Moving, Cell
<1>2. PathHolds(lvl, slot)
  BY <1>1 DEF Moving, PathHolds, PathLive, Pending, Shape, TypeOK, Level, Slot
<1>3. \A d : ~InTree(Path[lvl][slot].id, d)
  BY <1>1, <1>2 DEF InTree, Safe, Single, TreeNotPath
<1>4. \A d : ~InStash(Path[lvl][slot].id, d)
  BY <1>1, <1>2 DEF InStash, Safe, Single, StashNotPath
<1>5. \A l \in Level, s \in Slot :
        PathHolds(l, s) /\ Path[l][s].id = Path[lvl][slot].id => l = lvl /\ s = slot
  BY <1>1, <1>2 DEF Safe, Single, OneInPath
<1> QED
  BY <1>1, <1>2, <1>3, <1>4, <1>5

LEMMA SkipKept ==
  ASSUME Shape, SkipEmpty
  PROVE  Kept
<1>1. /\ TypeOK /\ pc = "write" /\ NextCell /\ Path[lvl][slot] = DUMMY_FLAG
      /\ UNCHANGED <<OblivSK, Path, leaf, stash, length_st>>
  BY DEF Shape, SkipEmpty, store, call
<1>2. /\ \A b, d : InTree(b, d)' <=> InTree(b, d)
      /\ \A b, d : InPath(b, d)' <=>
           \E l \in Level, s \in Slot :
             /\ PathHolds(l, s) /\ (l # lvl \/ s # slot)
             /\ Path[l][s].id = b /\ Path[l][s].data = d
  BY <1>1, NextCellHolds
<1>3. \A b, d : InPath(b, d)' <=> InPath(b, d)
  BY <1>1, <1>2 DEF InPath, PathHolds
<1>4. \A b, d : InStash(b, d)' <=> InStash(b, d)
  BY <1>1 DEF InStash, StashHolds, InUse
<1> QED
  BY <1>2, <1>3, <1>4 DEF Kept, Held

LEMMA PlaceKept ==
  ASSUME Shape, OPlace \/ Place
  PROVE  Kept
<1>1. /\ TypeOK /\ pc = "write" /\ NextCell /\ Path[lvl][slot] # DUMMY_FLAG
      /\ UNCHANGED <<OblivSK, Path, leaf, length_st>>
      /\ lvl \in Level /\ slot \in Slot
  BY DEF Shape, OPlace, Place, Moving, store, call, TypeOK
<1>2. PICK k \in InUse : /\ stash[k] = DUMMY_FLAG
                         /\ stash' = [stash EXCEPT ![k] = Path[lvl][slot]]
  BY DEF OPlace, Place, IsFirst, Empty
<1>3. PICK c : c = Path[lvl][slot]
  OBVIOUS
<1>4. /\ stash'[k] = c
      /\ \A m \in InUse : m # k => stash'[m] = stash[m]
      /\ InUse' = InUse
  BY <1>1, <1>2, <1>3, InUseStash DEF TypeOK, InUse
<1>5. PathHolds(lvl, slot)
  BY <1>1 DEF PathHolds, PathLive, Pending, TypeOK, Level, Slot
<1>6. /\ \A b, d : InTree(b, d)' <=> InTree(b, d)
      /\ \A b, d : InPath(b, d)' <=>
           \E l \in Level, s \in Slot :
             /\ PathHolds(l, s) /\ (l # lvl \/ s # slot)
             /\ Path[l][s].id = b /\ Path[l][s].data = d
  BY <1>1, NextCellHolds
<1>7. \A b, d : InPath(b, d) <=> InPath(b, d)' \/ (c.id = b /\ c.data = d)
  BY <1>1, <1>3, <1>5, <1>6 DEF InPath
<1>8. \A b, d : InStash(b, d)' <=> InStash(b, d) \/ (c.id = b /\ c.data = d)
  BY <1>1, <1>2, <1>3, <1>4 DEF InStash, StashHolds
<1> QED
  BY <1>6, <1>7, <1>8 DEF Kept, Held

\* The stash grows over empty cells.
LEMMA GrowKept ==
  ASSUME Shape, Shape', Safe,
         (\E pace \in Growths : OGrow(pace)) \/ Grow \/ AddGrow
  PROVE  Kept
<1>1. /\ UNCHANGED <<pc, OblivSK, Path, leaf, lvl, slot, stash>>
      /\ length_st <= length_st'
  BY StashAssumption DEF Growths, Shape, TypeOK, OGrow, Grow, AddGrow, Moving, call
<1>2. \A b, d : (InTree(b, d)' <=> InTree(b, d)) /\ (InPath(b, d)' <=> InPath(b, d))
  BY <1>1 DEF InTree, InPath, TreeHolds, PathHolds, PathLive, Pending, Busy, OnPath
<1>3. length_st \in Nat /\ length_st' \in Nat /\ length_st' <= MAX_STASH_NUM
  BY DEF Shape, TypeOK, StashInBounds
<1>4. InUse = 0 .. length_st - 1 /\ InUse' = 0 .. length_st' - 1
  BY DEF InUse
<1>5. InUse \subseteq InUse' /\ InUse' \subseteq StashPos
  BY <1>1, <1>3, <1>4, PrefixGrows, PrefixOfStash
<1>6. \A k \in StashPos : StashHolds(k) => k \in InUse
  BY <1>3, <1>4 DEF Safe, StrandedFree, Empty, StashHolds, StashPos
<1>7. \A k : StashHolds(k)' <=> StashHolds(k)
  BY <1>1 DEF StashHolds
<1>8. \A b, d : InStash(b, d)' <=> InStash(b, d)
  BY <1>1, <1>5, <1>6, <1>7 DEF InStash
<1> QED
  BY <1>2, <1>8 DEF Kept, Held

\* writeToStash drops the block at hand.
LEMMA DropLoses ==
  ASSUME Shape, Safe, Drop
  PROVE  \E x \in Bid : Loses(x) /\ \E d \in Data : Held(x, d)
<1>1. /\ TypeOK /\ pc = "write" /\ NextCell /\ Moving
      /\ UNCHANGED <<OblivSK, Path, leaf, stash, length_st>>
      /\ lvl \in Level /\ slot \in Slot
  BY DEF Shape, Drop, Moving, store, call, TypeOK
<1>2. PICK x : x = Path[lvl][slot].id
  OBVIOUS
<1>3. PICK e : e = Path[lvl][slot].data
  OBVIOUS
<1>4. x \in Bid /\ e \in Data /\ PathHolds(lvl, slot)
  BY <1>1, <1>2, <1>3, AtHand DEF Block, Data
<1>5. Held(x, e)
  BY <1>1, <1>2, <1>3, <1>4 DEF Held, InPath
<1>6. /\ \A b, d : InTree(b, d)' <=> InTree(b, d)
      /\ \A b, d : InPath(b, d)' <=>
           \E l \in Level, s \in Slot :
             /\ PathHolds(l, s) /\ (l # lvl \/ s # slot)
             /\ Path[l][s].id = b /\ Path[l][s].data = d
  BY <1>1, NextCellHolds
<1>7. \A b, d : InStash(b, d)' <=> InStash(b, d)
  BY <1>1 DEF InStash, StashHolds, InUse
<1>8. /\ \A d : ~InTree(x, d) /\ ~InStash(x, d)
      /\ \A l \in Level, s \in Slot :
           PathHolds(l, s) /\ Path[l][s].id = x => l = lvl /\ s = slot
  BY <1>1, <1>2, AtHand
<1>9. \A b, d : InPath(b, d)' <=> InPath(b, d) /\ b # x
  <2>1. \A l \in Level, s \in Slot :
          PathHolds(l, s) => (Path[l][s].id = x <=> l = lvl /\ s = slot)
    BY <1>2, <1>8
  <2> QED
    BY <1>6, <2>1 DEF InPath
<1>10. Loses(x)
  BY <1>6, <1>7, <1>8, <1>9 DEF Loses, Held
<1> QED
  BY <1>4, <1>5, <1>10

LEMMA PrefixShrinks ==
  ASSUME NEW n \in Nat, NEW m \in Int, m <= n
  PROVE  0 .. m - 1 \subseteq 0 .. n - 1
OBVIOUS

\* A stash that is cut back, and a block left out, only lose blocks.
LEMMA OverflowFewer ==
  ASSUME Shape, (\E pace \in Growths : OOverflow(pace)) \/ Overflow
  PROVE  Fewer
<1>1. /\ TypeOK /\ pc = "write" /\ NextCell
      /\ UNCHANGED <<OblivSK, Path, leaf, stash>>
      /\ length_st' \in Int /\ length_st' <= length_st /\ length_st \in Nat
  BY StashAssumption DEF Shape, OOverflow, Overflow, Moving, store, call, TypeOK, Growths
<1>2. /\ \A b, d : InTree(b, d)' <=> InTree(b, d)
      /\ \A b, d : InPath(b, d)' <=>
           \E l \in Level, s \in Slot :
             /\ PathHolds(l, s) /\ (l # lvl \/ s # slot)
             /\ Path[l][s].id = b /\ Path[l][s].data = d
  BY <1>1, NextCellHolds
<1>3. InUse' \subseteq InUse
  BY <1>1, PrefixShrinks DEF InUse
<1>4. \A b, d : InStash(b, d)' => InStash(b, d)
  BY <1>1, <1>3 DEF InStash, StashHolds
<1>5. \A b, d : InPath(b, d)' => InPath(b, d)
  BY <1>2 DEF InPath
<1> QED
  BY <1>2, <1>4, <1>5 DEF Fewer, Held

\* The blocks of the path leave the tree for Path.
LEMMA ReadPathKept ==
  ASSUME Shape, NEW m \in Modes \cap Accesses, NEW a \in Requested, ReadPath(m, a)
  PROVE  Kept
<1>1. /\ pc = "idle" /\ pc' = "write" /\ lvl' = 0 /\ slot' = 0
      /\ leaf' = pos_map[a] /\ leaf' \in Leaf
      /\ UNCHANGED <<OblivSK, stash, length_st>>
      /\ Path' = [l \in Level |-> OblivSK[NodeOn(leaf', l)]]
  BY ModeAssumption DEF ReadPath, Shape, TypeOK, Bid
<1>2. \A l \in Level : NodeOn(leaf', l) \in Node /\ NodeOn(leaf', l)[1] = l
  BY <1>1, NodeOnNode
<1>3. \A n \in Node, s \in Slot :
        /\ TreeHolds(n, s) <=> OblivSK[n][s] # DUMMY_FLAG
        /\ TreeHolds(n, s)' <=> TreeHolds(n, s) /\ n # NodeOn(leaf', n[1])
  BY <1>1 DEF TreeHolds, Busy, OnPath
<1>4. \A l \in Level, s \in Slot : ~PathHolds(l, s)
  BY <1>1 DEF PathHolds, PathLive
<1>5. \A l \in Level, s \in Slot :
        /\ Path'[l][s] = OblivSK[NodeOn(leaf', l)][s]
        /\ PathHolds(l, s)' <=> TreeHolds(NodeOn(leaf', l), s)
  <2>1. \A l \in Level, s \in Slot : PathLive(l, s)'
    BY <1>1, TreeAssumption DEF PathLive, Pending, Level, Slot
  <2>2. \A l \in Level, s \in Slot : Path'[l][s] = OblivSK[NodeOn(leaf', l)][s]
    BY <1>1
  <2> QED
    BY <1>1, <1>2, <1>3, <2>1, <2>2 DEF PathHolds
<1>6. \A b, d : InStash(b, d)' <=> InStash(b, d)
  BY <1>1 DEF InStash, StashHolds, InUse
<1>7. \A b, d : InTree(b, d) <=> InTree(b, d)' \/ InPath(b, d)'
  <2> SUFFICES ASSUME NEW b, NEW d PROVE InTree(b, d) <=> InTree(b, d)' \/ InPath(b, d)'
    OBVIOUS
  <2>1. InTree(b, d)' => InTree(b, d)
    BY <1>1, <1>3 DEF InTree
  <2>2. InPath(b, d)' => InTree(b, d)
    BY <1>2, <1>5 DEF InTree, InPath
  <2>3. ASSUME NEW n \in Node, NEW s \in Slot, TreeHolds(n, s),
               OblivSK[n][s].id = b, OblivSK[n][s].data = d
        PROVE  InTree(b, d)' \/ InPath(b, d)'
    <3>1. CASE n = NodeOn(leaf', n[1])
      <4>1. n[1] \in Level /\ PathHolds(n[1], s)' /\ Path'[n[1]][s] = OblivSK[n][s]
        BY <2>3, <3>1, <1>5, NodeLevel
      <4> QED
        BY <4>1, <2>3 DEF InPath
    <3>2. CASE n # NodeOn(leaf', n[1])
      BY <1>1, <1>3, <2>3, <3>2 DEF InTree
    <3> QED
      BY <3>1, <3>2
  <2> QED
    BY <2>1, <2>2, <2>3 DEF InTree
<1>8. \A b, d : ~InPath(b, d)
  BY <1>4 DEF InPath
<1> QED
  BY <1>6, <1>7, <1>8 DEF Kept, Held

\* Between the write and the rebuild, the blocks are where they were in the
\* tree, and none is in Path.
LEMMA ReadHolds ==
  ASSUME pc \in {"read", "add", "clear"}, pc' \in {"read", "add", "clear"},
         UNCHANGED <<OblivSK, leaf>>
  PROVE  \A b, d : /\ InTree(b, d)' <=> InTree(b, d)
                   /\ ~InPath(b, d) /\ ~InPath(b, d)'
BY DEF InTree, InPath, TreeHolds, PathHolds, PathLive, Busy, OnPath

LEMMA ReadHitKept ==
  ASSUME Shape, NEW p \in Draws, ReadHit(TRUE, p)
  PROVE  /\ Kept
         /\ \E d \in Data : Held(bid, d) /\ answer' = [bid |-> bid, data |-> d]
<1>1. /\ pc = "read" /\ pc' = "clear" /\ UNCHANGED <<OblivSK, leaf, length_st>>
  BY DEF ReadHit, call
<1>2. PICK k \in InUse : /\ stash[k] # DUMMY_FLAG /\ stash[k].id = bid
                         /\ stash' = [stash EXCEPT ![k].pos = p]
                         /\ answer' = [bid |-> bid, data |-> stash[k].data]
  BY DEF ReadHit, IsFirst, Holds
<1>3. k \in StashPos /\ stash[k] \in Block
  BY <1>2, InUseStash DEF Shape, TypeOK, Cell
<1>4. /\ stash'[k].id = stash[k].id /\ stash'[k].data = stash[k].data /\ stash'[k] \in Block
      /\ \A m \in StashPos : m # k => stash'[m] = stash[m]
  BY <1>2, <1>3, DrawsAreLeaves DEF Shape, TypeOK, Block
<1>5. InUse' = InUse /\ InUse \subseteq StashPos
  BY <1>1, InUseStash DEF InUse
<1>6. \A b, d : InStash(b, d)' <=> InStash(b, d)
  BY <1>2, <1>4, <1>5, DummyAssumption DEF InStash, StashHolds
<1>7. Kept
  BY <1>1, <1>6, ReadHolds DEF Kept, Held
<1>8. stash[k].data \in Data /\ Held(bid, stash[k].data)
  BY <1>2, <1>3 DEF Data, Block, Held, InStash, StashHolds
<1> QED
  BY <1>2, <1>7, <1>8

LEMMA ReadMissKept ==
  ASSUME \/ \E p \in Draws : ReadMiss(p)
         \/ AddFail
  PROVE  Kept
<1>1. /\ pc \in {"read", "add"} /\ pc' \in {"add", "clear"}
      /\ UNCHANGED <<OblivSK, leaf, stash, length_st>>
  BY DEF ReadMiss, AddFail, store, call
<1>2. \A b, d : InStash(b, d)' <=> InStash(b, d)
  BY <1>1 DEF InStash, StashHolds, InUse
<1> QED
  BY <1>1, <1>2, ReadHolds DEF Kept, Held

\* After a miss the requested block is nowhere.
LEMMA MissedNowhere ==
  ASSUME Safe, pc = "add", NEW d
  PROVE  ~Held(bid, d)
BY DEF Safe, MissedAbsent, Held, InTree, InStash, InPath, PathHolds, PathLive

LEMMA AddZeroAdds ==
  ASSUME Shape, AddZero
  PROVE  \A b \in Bid, d \in Data : Held(b, d)' <=> Held(b, d) \/ (b = bid /\ d = "zeroed")
<1>1. /\ pc = "add" /\ pc' = "clear" /\ UNCHANGED <<OblivSK, leaf, length_st>>
      /\ bid \in Bid /\ pos_map[bid] \in Leaf
  BY DEF AddZero, call, Shape, TypeOK
<1>2. PICK c : c = [id |-> bid, pos |-> pos_map[bid], data |-> "zeroed"]
  OBVIOUS
<1>3. PICK k \in InUse : stash[k] = DUMMY_FLAG /\ stash' = [stash EXCEPT ![k] = c]
  BY <1>2 DEF AddZero, IsFirst, Empty
<1>4. c \in Block /\ c.id = bid /\ c.data = "zeroed"
  BY <1>1, <1>2 DEF Block
<1>5. /\ stash'[k] = c /\ InUse' = InUse
      /\ \A m \in InUse : m # k => stash'[m] = stash[m]
  BY <1>1, <1>3, InUseStash DEF Shape, TypeOK, InUse
<1>6. \A b, d : InStash(b, d)' <=> InStash(b, d) \/ (b = bid /\ d = "zeroed")
  BY <1>3, <1>4, <1>5, DummyAssumption DEF InStash, StashHolds
<1> QED
  BY <1>1, <1>6, ReadHolds DEF Held

LEMMA ClearKept ==
  ASSUME ClearPath
  PROVE  Kept
<1>1. /\ pc = "clear" /\ pc' = "rebuild"
      /\ UNCHANGED <<OblivSK, stash, length_st, leaf>>
      /\ Path' = [l \in Level |-> EmptyBucket]
  BY DEF ClearPath, call
<1>2. \A b, d : InStash(b, d)' <=> InStash(b, d)
  BY <1>1 DEF InStash, StashHolds, InUse
<1>3. \A b, d : InTree(b, d)' <=> InTree(b, d)
  BY <1>1 DEF InTree, TreeHolds, Busy, OnPath
<1>4. \A b, d : ~InPath(b, d) /\ ~InPath(b, d)'
  BY <1>1 DEF InPath, PathHolds, PathLive, EmptyBucket
<1> QED
  BY <1>2, <1>3, <1>4 DEF Kept, Held

\* The cells of the path that the rebuild has still to fill are empty.
PathAhead ==
  pc = "rebuild" => \A l \in Level, s \in Slot :
    l < lvl \/ (l = lvl /\ s >= slot) => Path[l][s] = DUMMY_FLAG

LEMMA AheadRebuild ==
  ASSUME Shape, PathAhead, NEW then \in {"compress", "push"}, RebuildCell(TRUE, then)
  PROVE  PathAhead'
<1>1. /\ TypeOK /\ pc = "rebuild" /\ PrevCell(then)
      /\ lvl \in Level /\ slot \in Slot
  BY DEF RebuildCell, Shape, TypeOK
<1>2. \A l \in Level, s \in Slot : l # lvl \/ s # slot => Path'[l][s] = Path[l][s]
  <2>1. ASSUME NEW k \in InUse, Path' = [Path EXCEPT ![lvl][slot] = stash[k]]
        PROVE  \A l \in Level, s \in Slot : l # lvl \/ s # slot => Path'[l][s] = Path[l][s]
    BY <1>1, <2>1 DEF TypeOK
  <2> QED
    BY <2>1 DEF RebuildCell
<1> SUFFICES ASSUME pc' = "rebuild", NEW l \in Level, NEW s \in Slot,
                    l < lvl' \/ (l = lvl' /\ s >= slot')
             PROVE  Path'[l][s] = DUMMY_FLAG
  BY DEF PathAhead
<1>3. (l < lvl \/ (l = lvl /\ s >= slot)) /\ (l # lvl \/ s # slot)
  BY <1>1, TreeAssumption DEF PrevCell, Level, Slot
<1> QED
  BY <1>1, <1>2, <1>3 DEF PathAhead

LEMMA AheadStep == Shape /\ PathAhead /\ [Next]_vars => PathAhead'
<1> SUFFICES ASSUME Shape, PathAhead, [Next]_vars PROVE PathAhead'
  OBVIOUS
<1>1. CASE InitLevel \/ SkipLevel
  BY <1>1 DEF InitLevel, SkipLevel, NextLevel, PathAhead
<1>2. CASE WriteStep
  BY <1>2 DEF WriteStep, OWrite, writeToStash, SkipEmpty, OPlace, OGrow, OOverflow,
     Place, Grow, Overflow, Drop, Moving, NextCell, PathAhead
<1>3. CASE ReadStep \/ AbortStep
  BY <1>3 DEF ReadStep, ReadHit, ReadMiss, AddZero, AddGrow, AddFail, AbortStep, Abort, PathAhead
<1>4. CASE ClearPath
  BY <1>4 DEF ClearPath, EmptyBucket, PathAhead
<1>5. CASE OCompressStash \/ compressStash \/ PushPath
  BY <1>5 DEF OCompressStash, compressStash, PushPath, PathAhead
<1>6. ASSUME NEW m \in Modes \cap Accesses, NEW b \in Requested, ReadPath(m, b)
      PROVE  PathAhead'
  BY <1>6 DEF ReadPath, PathAhead
<1>7. CASE UNCHANGED vars
  BY <1>7 DEF vars, store, PathAhead
<1> QED
  BY <1>1, <1>2, <1>3, <1>4, <1>5, <1>6, <1>7, AccessCases, AheadRebuild
     DEF Next, Step, RebuildStep

\* A block goes from the stash to the cell at hand, which is empty.
LEMMA RebuildKept ==
  ASSUME Shape, PathAhead, NEW then \in {"compress", "push"}, RebuildCell(TRUE, then)
  PROVE  Kept
<1>1. /\ TypeOK /\ pc = "rebuild" /\ pc' \in {"rebuild", "compress", "push"}
      /\ UNCHANGED <<OblivSK, leaf, length_st>>
      /\ lvl \in Level /\ slot \in Slot
  BY PrevCellShape DEF RebuildCell, Shape, call, TypeOK
<1>2. /\ \A l \in Level, s \in Slot : PathHolds(l, s) <=> Path[l][s] # DUMMY_FLAG
      /\ \A l \in Level, s \in Slot : PathHolds(l, s)' <=> Path'[l][s] # DUMMY_FLAG
      /\ InUse' = InUse /\ InUse \subseteq StashPos
  BY <1>1, InUseStash DEF PathHolds, PathLive, InUse
<1>3. \A b, d : InTree(b, d)' <=> InTree(b, d)
  BY <1>1 DEF InTree, TreeHolds, Busy, OnPath
<1>4. ASSUME UNCHANGED <<Path, stash>>
      PROVE  Kept
  <2>1. \A b, d : (InPath(b, d)' <=> InPath(b, d)) /\ (InStash(b, d)' <=> InStash(b, d))
    BY <1>2, <1>4 DEF InPath, InStash, StashHolds
  <2> QED
    BY <1>3, <2>1 DEF Kept, Held
<1>5. ASSUME NEW k \in InUse, IsFirst(k, 0, Fits),
             Path' = [Path EXCEPT ![lvl][slot] = stash[k]],
             stash' = [stash EXCEPT ![k] = DUMMY_FLAG]
      PROVE  Kept
  <2>1. k \in StashPos /\ stash[k] # DUMMY_FLAG
    BY <1>2, <1>5 DEF IsFirst, Fits, Empty
  <2>2. PICK c : c = stash[k]
    OBVIOUS
  <2>3. /\ Path'[lvl][slot] = c
        /\ \A l \in Level, s \in Slot : l # lvl \/ s # slot => Path'[l][s] = Path[l][s]
    BY <1>1, <1>5, <2>2 DEF TypeOK
  <2>4. /\ stash'[k] = DUMMY_FLAG
        /\ \A m \in InUse : m # k => stash'[m] = stash[m]
    BY <1>1, <1>2, <1>5, <2>1 DEF TypeOK
  <2>5. Path[lvl][slot] = DUMMY_FLAG
    BY <1>1 DEF PathAhead, Level, Slot
  <2>6. \A b, d : InPath(b, d)' <=> InPath(b, d) \/ (c.id = b /\ c.data = d)
    BY <1>1, <1>2, <2>1, <2>2, <2>3, <2>5 DEF InPath
  <2>7. \A b, d : InStash(b, d) <=> InStash(b, d)' \/ (c.id = b /\ c.data = d)
    BY <1>2, <2>1, <2>2, <2>4 DEF InStash, StashHolds
  <2> QED
    BY <1>3, <2>6, <2>7 DEF Kept, Held
<1> QED
  BY <1>4, <1>5 DEF RebuildCell

\* Sorting moves the blocks of the stash to its front and keeps them all in use.
LEMMA CompressKept ==
  ASSUME Shape, OCompressStash \/ compressStash
  PROVE  Kept
<1> DEFINE S == Filled
<1>1. /\ \/ pc = "compress" /\ pc' = "push"
         \/ pc = "idle" /\ pc' = "idle"
      /\ length_st \in Nat
      /\ UNCHANGED <<OblivSK, Path, leaf, lvl, slot>>
      /\ InUse = 0 .. length_st - 1
      /\ InUse \subseteq StashPos
  BY InUseStash DEF OCompressStash, compressStash, call, Shape, TypeOK, InUse
<1>2. PICK ord \in Order :
        /\ stash' = [k \in StashPos |->
                      IF k \in InUse
                      THEN IF \E m \in S : ord[m] = k
                           THEN stash[CHOOSE m \in S : ord[m] = k] ELSE DUMMY_FLAG
                      ELSE stash[k]]
        /\ length_st' = IF Cardinality(S) < DEFAULT_STASH_LENGTH
                        THEN DEFAULT_STASH_LENGTH ELSE Cardinality(S)
  BY DEF OCompressStash, compressStash, SortedById, InPlace, Compact
<1>3. length_st' = IF Cardinality(S) < DEFAULT_STASH_LENGTH
                   THEN DEFAULT_STASH_LENGTH ELSE Cardinality(S)
  BY <1>2
<1>4. Cardinality(S) \in Nat /\ Cardinality(S) <= length_st
  BY FilledCount
<1>5. /\ ord \in [S -> 0 .. Cardinality(S) - 1]
      /\ \A m, k \in S : ord[m] = ord[k] => m = k
  BY DEF Order, Bijection, Injection, IsInjective
<1>6. \A m : m \in S <=> m \in InUse /\ StashHolds(m)
  BY DEF Filled, Empty, StashHolds
<1> HIDE DEF S
<1>7. DEFAULT_STASH_LENGTH <= length_st /\ DEFAULT_STASH_LENGTH \in Nat
  BY StashAssumption DEF Shape, StashInBounds
<1>8. length_st' \in Nat /\ length_st' <= length_st /\ Cardinality(S) <= length_st'
  BY <1>1, <1>3, <1>4, <1>7
<1>9. InUse' = 0 .. length_st' - 1
  BY DEF InUse
<1>10. InUse' \subseteq InUse
  BY <1>1, <1>8, <1>9, PrefixGrows
<1>11. ASSUME NEW m \in S
       PROVE  ord[m] \in InUse' /\ stash'[ord[m]] = stash[m]
  <2>1. PICK k : k = ord[m]
    OBVIOUS
  <2>2. k \in 0 .. Cardinality(S) - 1
    BY <1>5, <2>1
  <2>3. 0 .. Cardinality(S) - 1 \subseteq 0 .. length_st' - 1
    BY <1>4, <1>8, PrefixGrows
  <2>4. k \in InUse'
    BY <1>9, <2>2, <2>3
  <2>5. k \in InUse /\ k \in StashPos
    BY <1>1, <1>10, <2>4
  <2>6. (CHOOSE q \in S : ord[q] = k) \in S /\ ord[CHOOSE q \in S : ord[q] = k] = k
    BY <2>1
  <2>7. (CHOOSE q \in S : ord[q] = k) = m
    BY <1>5, <2>1, <2>6
  <2> QED
    BY <1>2, <2>1, <2>4, <2>5, <2>7
<1>12. ASSUME NEW k \in InUse, stash'[k] # DUMMY_FLAG
       PROVE  \E m \in S : stash'[k] = stash[m]
  <2>1. \E m \in S : ord[m] = k
    BY <1>1, <1>2, <1>12
  <2>2. (CHOOSE m \in S : ord[m] = k) \in S
    BY <2>1
  <2> QED
    BY <1>1, <1>2, <2>1, <2>2
<1>13. \A b, d : InStash(b, d)' <=> InStash(b, d)
  <2> SUFFICES ASSUME NEW b, NEW d PROVE InStash(b, d)' <=> InStash(b, d)
    OBVIOUS
  <2>1. ASSUME InStash(b, d) PROVE InStash(b, d)'
    <3>1. PICK m \in S : StashHolds(m) /\ stash[m].id = b /\ stash[m].data = d
      BY <1>6, <2>1 DEF InStash
    <3> QED
      BY <1>11, <3>1 DEF InStash, StashHolds
  <2>2. ASSUME NEW k \in InUse', stash'[k] # DUMMY_FLAG, stash'[k].id = b, stash'[k].data = d
        PROVE  InStash(b, d)
    <3>1. PICK m \in S : stash'[k] = stash[m]
      BY <1>10, <1>12, <2>2
    <3> QED
      BY <1>6, <2>2, <3>1 DEF InStash
  <2> QED
    BY <2>1, <2>2 DEF InStash, StashHolds
<1>14. \A b, d : (InTree(b, d)' <=> InTree(b, d)) /\ (InPath(b, d)' <=> InPath(b, d))
  BY <1>1 DEF InTree, InPath, TreeHolds, PathHolds, PathLive, Busy, OnPath
<1> QED
  BY <1>13, <1>14 DEF Kept, Held

\* Path goes back to the tree.
LEMMA PushKept ==
  ASSUME Shape, PushPath
  PROVE  Kept
<1>1. /\ pc = "push" /\ pc' = "idle" /\ leaf \in Leaf
      /\ UNCHANGED <<stash, length_st>>
      /\ OblivSK' = [n \in Node |-> IF n = NodeOn(leaf, n[1]) THEN Path[n[1]] ELSE OblivSK[n]]
  BY DEF PushPath, Shape, TypeOK
<1>2. \A n \in Node, s \in Slot :
        /\ TreeHolds(n, s) <=> OblivSK[n][s] # DUMMY_FLAG /\ n # NodeOn(leaf, n[1])
        /\ TreeHolds(n, s)' <=> OblivSK'[n][s] # DUMMY_FLAG
        /\ n # NodeOn(leaf, n[1]) => OblivSK'[n][s] = OblivSK[n][s]
        /\ n = NodeOn(leaf, n[1]) => OblivSK'[n][s] = Path[n[1]][s]
  BY <1>1 DEF TreeHolds, OnPath, Busy
<1>3. \A l \in Level, s \in Slot : PathHolds(l, s) <=> Path[l][s] # DUMMY_FLAG
  BY <1>1 DEF PathHolds, PathLive
<1>4. \A l \in Level, s \in Slot : ~PathHolds(l, s)'
  BY <1>1 DEF PathHolds, PathLive
<1>5. \A b, d : InStash(b, d)' <=> InStash(b, d)
  BY <1>1 DEF InStash, StashHolds, InUse
<1>6. \A b, d : InTree(b, d)' <=> InTree(b, d) \/ InPath(b, d)
  <2> SUFFICES ASSUME NEW b, NEW d PROVE InTree(b, d)' <=> InTree(b, d) \/ InPath(b, d)
    OBVIOUS
  <2>1. InTree(b, d)' => InTree(b, d) \/ InPath(b, d)
    BY <1>2, <1>3, NodeLevel DEF InTree, InPath
  <2>2. InTree(b, d) => InTree(b, d)'
    BY <1>2 DEF InTree
  <2>3. ASSUME NEW l \in Level, NEW s \in Slot, PathHolds(l, s),
               Path[l][s].id = b, Path[l][s].data = d
        PROVE  InTree(b, d)'
    <3>1. NodeOn(leaf, l) \in Node /\ NodeOn(leaf, l)[1] = l
      BY <1>1, NodeOnNode
    <3> QED
      BY <1>2, <1>3, <2>3, <3>1 DEF InTree
  <2> QED
    BY <2>1, <2>2, <2>3 DEF InPath
<1>7. \A b, d : ~InPath(b, d)'
  BY <1>4 DEF InPath
<1> QED
  BY <1>5, <1>6, <1>7 DEF Kept, Held

LEMMA StutterKept ==
  ASSUME UNCHANGED vars \/ SkipLevel
  PROVE  Kept
<1>1. /\ UNCHANGED <<OblivSK, stash, length_st, Path, leaf, slot>>
      /\ \/ UNCHANGED <<pc, lvl>>
         \/ pc = "init" /\ pc' \in {"init", "idle"}
  BY DEF vars, store, call, SkipLevel, NextLevel
<1> QED
  BY <1>1 DEF Kept, Held, InTree, InStash, InPath, TreeHolds, StashHolds, PathHolds, PathLive,
              Pending, Busy, OnPath, InUse

--------------------------------------------------------------------------------
(* Init_OCU: the blocks of a chunk that find room are held, and no other.   *)

\* The blocks of one bucket are told apart by how many go there before them.
LEMMA BeforeLess ==
  ASSUME NEW S, IsFiniteSet(S), NEW p, NEW ord \in [S -> Nat], NEW b \in S, NEW c \in S,
         NodeOn(p[b], lvl) = NodeOn(p[c], lvl), ord[b] < ord[c]
  PROVE  Before(b, S, p, ord) # Before(c, S, p, ord)
<1> DEFINE B == {x \in S : NodeOn(p[x], lvl) = NodeOn(p[b], lvl) /\ ord[x] < ord[b]}
           C == {x \in S : NodeOn(p[x], lvl) = NodeOn(p[c], lvl) /\ ord[x] < ord[c]}
<1>1. B \in SUBSET C /\ b \in C /\ b \notin B /\ C \in SUBSET S
  OBVIOUS
<1>2. IsFiniteSet(C)
  BY <1>1, FS_Subset
<1> HIDE DEF B, C
<1>3. Cardinality(B) # Cardinality(C)
  BY <1>1, <1>2, FS_Subset
<1>4. Before(b, S, p, ord) = Cardinality(B) /\ Before(c, S, p, ord) = Cardinality(C)
  BY DEF Before, B, C
<1> QED
  BY <1>3, <1>4

LEMMA BeforeSingle ==
  ASSUME NEW S, IsFiniteSet(S), NEW p, NEW ord \in SortedByLeaf(S, p), NEW b \in S, NEW c \in S,
         NodeOn(p[b], lvl) = NodeOn(p[c], lvl), Before(b, S, p, ord) = Before(c, S, p, ord)
  PROVE  b = c
<1>1. ord \in [S -> 1 .. Cardinality(S)] /\ \A x, y \in S : ord[x] = ord[y] => x = y
  BY DEF SortedByLeaf, Bijection, Injection, IsInjective
<1>2. Cardinality(S) \in Nat
  BY FS_CardinalityType
<1>3. ord \in [S -> Nat]
  BY <1>1, <1>2
<1>4. ~(ord[b] < ord[c]) /\ ~(ord[c] < ord[b])
  BY <1>3, BeforeLess
<1> QED
  BY <1>1, <1>3, <1>4

LEMMA BeforeNat ==
  ASSUME NEW S, IsFiniteSet(S), NEW p, NEW ord, NEW b \in S
  PROVE  Before(b, S, p, ord) \in Nat
<1> DEFINE B == {x \in S : NodeOn(p[x], lvl) = NodeOn(p[b], lvl) /\ ord[x] < ord[b]}
<1>1. B \in SUBSET S
  OBVIOUS
<1> QED
  BY <1>1, FS_Subset, FS_CardinalityType DEF Before

\* A block with room in its bucket gets there, and nothing else is disturbed.
LEMMA FillLevelPlaces ==
  ASSUME NEW S, IsFiniteSet(S), NEW p \in [S -> Leaf], NEW ord \in SortedByLeaf(S, p),
         lvl \in Level, NEW b \in S, b \notin Unplaced(S, p, ord)
  PROVE  \E n \in Node, s \in Slot :
           FillLevel(S, p, ord)[n][s] = [id |-> b, pos |-> p[b], data |-> "copied"]
<1>1. PICK n : n = NodeOn(p[b], lvl)
  OBVIOUS
<1>2. PICK s : s = Before(b, S, p, ord)
  OBVIOUS
<1>3. n \in Node
  BY <1>1, NodeOnNode
<1>4. s \in Slot
  <2>1. s \in Nat /\ ~(s >= sizeBucket)
    BY <1>2, BeforeNat DEF Unplaced
  <2> QED
    BY <2>1, TreeAssumption DEF Slot
<1> DEFINE P(x) == Goes(x, n, s, S, p, ord)
<1>5. P(b)
  BY <1>1, <1>2 DEF Goes
<1>6. \A x \in S : P(x) => x = b
  BY <1>1, <1>2, BeforeSingle DEF Goes
<1> HIDE DEF P
<1>7. (CHOOSE x \in S : P(x)) = b
  BY <1>5, <1>6
<1>8. FillLevel(S, p, ord)[n][s] =
        IF \E x \in S : P(x)
        THEN LET x == CHOOSE x \in S : P(x) IN [id |-> x, pos |-> p[x], data |-> "copied"]
        ELSE OblivSK[n][s]
  BY <1>3, <1>4 DEF FillLevel, P
<1> QED
  BY <1>3, <1>4, <1>5, <1>7, <1>8

\* The levels of the tree still to be filled are empty.
LevelsEmpty ==
  pc = "init" => \A n \in Node, s \in Slot : n[1] <= lvl => OblivSK[n][s] = DUMMY_FLAG

LEMMA FillLevelKeeps ==
  ASSUME NEW S, NEW p, NEW ord, NEW n \in Node, NEW s \in Slot, n[1] # lvl
  PROVE  FillLevel(S, p, ord)[n][s] = OblivSK[n][s]
<1>1. \A b : ~Goes(b, n, s, S, p, ord)
  BY DEF Goes, NodeOn
<1> QED
  BY <1>1 DEF FillLevel

\* What Init_OCU does at one level: the chunk is held, but for the blocks it counts.
LEMMA InitLevelHolds ==
  ASSUME Shape, Safe, LevelsEmpty, InitLevel
  PROVE  \E U \in SUBSET Chunk(lvl) :
           /\ nFailed' = nFailed + Cardinality(U)
           /\ \A b \in Bid, d \in Data :
                Held(b, d)' <=> Held(b, d) \/ (d = "copied" /\ b \in Chunk(lvl) \ U)
<1>1. PICK S : S = Chunk(lvl)
  OBVIOUS
<1>2. /\ pc = "init" /\ pc' \in {"init", "idle"} /\ lvl \in Level
      /\ UNCHANGED <<stash, length_st, Path, leaf>>
      /\ IsFiniteSet(S) /\ S \subseteq Bid
  BY <1>1, ChunkFinite DEF InitLevel, NextLevel, call, Shape, TypeOK
<1>3. PICK p \in [S -> Draws] : \E o \in SortedByLeaf(S, p) :
        /\ OblivSK' = FillLevel(S, p, o)
        /\ nFailed' = nFailed + Cardinality(Unplaced(S, p, o))
  BY <1>1 DEF InitLevel
<1>4. PICK ord \in SortedByLeaf(S, p) :
        /\ OblivSK' = FillLevel(S, p, ord)
        /\ nFailed' = nFailed + Cardinality(Unplaced(S, p, ord))
  BY <1>3
<1>5. PICK U : U = Unplaced(S, p, ord)
  OBVIOUS
<1>6. p \in [S -> Leaf]
  BY DrawsAreLeaves
<1>7. \A n \in Node, s \in Slot :
        /\ TreeHolds(n, s) <=> OblivSK[n][s] # DUMMY_FLAG
        /\ TreeHolds(n, s)' <=> OblivSK'[n][s] # DUMMY_FLAG
  BY <1>2 DEF TreeHolds, Busy
<1>8. \A b, d : ~InStash(b, d) /\ ~InStash(b, d)' /\ ~InPath(b, d) /\ ~InPath(b, d)'
  BY <1>2, InUseStash DEF InStash, InPath, StashHolds, PathHolds, PathLive, InUse,
                          Safe, InitClean, Empty
<1>9. ASSUME NEW b \in Bid, NEW d, InTree(b, d)
      PROVE  InTree(b, d)'
  <2>1. PICK n \in Node, s \in Slot : /\ OblivSK[n][s] # DUMMY_FLAG
                                      /\ OblivSK[n][s].id = b /\ OblivSK[n][s].data = d
    BY <1>7, <1>9 DEF InTree
  <2>2. n[1] # lvl
    BY <1>2, <2>1 DEF LevelsEmpty, Level
  <2>3. OblivSK'[n][s] = OblivSK[n][s]
    BY <1>4, <2>2, FillLevelKeeps
  <2> QED
    BY <1>7, <2>1, <2>3 DEF InTree
<1>10. ASSUME NEW b \in S, b \notin U
       PROVE  InTree(b, "copied")'
  <2>1. PICK n \in Node, s \in Slot : OblivSK'[n][s] = [id |-> b, pos |-> p[b], data |-> "copied"]
    BY <1>2, <1>4, <1>5, <1>6, <1>10, FillLevelPlaces
  <2>2. OblivSK'[n][s] \in Block
    BY <1>2, <1>6, <2>1 DEF Block
  <2>3. OblivSK'[n][s] # DUMMY_FLAG
    BY <2>2, DummyAssumption
  <2> QED
    BY <1>7, <2>1, <2>3 DEF InTree
<1>11. ASSUME NEW b \in Bid, NEW d, InTree(b, d)'
       PROVE  InTree(b, d) \/ (d = "copied" /\ b \in S /\ b \notin U)
  <2>1. PICK n \in Node, s \in Slot : /\ OblivSK'[n][s] # DUMMY_FLAG
                                      /\ OblivSK'[n][s].id = b /\ OblivSK'[n][s].data = d
    BY <1>7, <1>11 DEF InTree
  <2>2. CASE OblivSK'[n][s] = OblivSK[n][s]
    BY <1>7, <2>1, <2>2 DEF InTree
  <2>3. ASSUME NEW c \in S, Goes(c, n, s, S, p, ord),
               OblivSK'[n][s] = [id |-> c, pos |-> p[c], data |-> "copied"]
        PROVE  d = "copied" /\ b \in S /\ b \notin U
    <3>1. Before(c, S, p, ord) = s /\ ~(s >= sizeBucket)
      BY <2>3, TreeAssumption DEF Goes, Slot
    <3>2. c \notin U
      BY <1>5, <3>1 DEF Unplaced
    <3> QED
      BY <2>1, <2>3, <3>2
  <2>4. \/ \E c \in S : /\ Goes(c, n, s, S, p, ord)
                         /\ OblivSK'[n][s] = [id |-> c, pos |-> p[c], data |-> "copied"]
        \/ OblivSK'[n][s] = OblivSK[n][s]
    BY <1>4, FillLevelCell
  <2> QED
    BY <2>2, <2>3, <2>4
<1>12. \A b \in Bid, d \in Data :
         Held(b, d)' <=> Held(b, d) \/ (d = "copied" /\ b \in S \ U)
  BY <1>8, <1>9, <1>10, <1>11 DEF Held
<1>13. U \in SUBSET S
  BY <1>5 DEF Unplaced
<1> QED
  BY <1>1, <1>4, <1>5, <1>12, <1>13

LEMMA LevelsStep == Shape /\ LevelsEmpty /\ [Next]_vars => LevelsEmpty'
<1> SUFFICES ASSUME Shape, LevelsEmpty, [Next]_vars PROVE LevelsEmpty'
  OBVIOUS
<1>1. CASE InitLevel
  <2> SUFFICES ASSUME pc' = "init", NEW n \in Node, NEW s \in Slot, n[1] <= lvl'
               PROVE  OblivSK'[n][s] = DUMMY_FLAG
    BY DEF LevelsEmpty
  <2>1. pc = "init" /\ lvl' = lvl - 1 /\ lvl \in Level
    BY <1>1 DEF InitLevel, NextLevel, Shape, TypeOK
  <2>2. n[1] # lvl /\ n[1] <= lvl
    BY <2>1, NodeLevel, TreeAssumption DEF Level
  <2>3. \E S, p, ord : OblivSK' = FillLevel(S, p, ord)
    BY <1>1 DEF InitLevel
  <2>4. OblivSK'[n][s] = OblivSK[n][s]
    BY <2>2, <2>3, FillLevelKeeps
  <2> QED
    BY <2>1, <2>2, <2>4 DEF LevelsEmpty
<1>2. CASE SkipLevel
  <2> SUFFICES ASSUME pc' = "init", NEW n \in Node, NEW s \in Slot, n[1] <= lvl'
               PROVE  OblivSK[n][s] = DUMMY_FLAG
    BY <1>2 DEF LevelsEmpty, SkipLevel, store
  <2>1. pc = "init" /\ lvl' = lvl - 1 /\ lvl \in Level
    BY <1>2 DEF SkipLevel, NextLevel, Shape, TypeOK
  <2>2. n[1] <= lvl
    BY <2>1, NodeLevel, TreeAssumption DEF Level
  <2> QED
    BY <2>1, <2>2 DEF LevelsEmpty
<1>3. CASE UNCHANGED vars
  BY <1>3 DEF vars, store, LevelsEmpty
<1>4. CASE ~(InitLevel \/ SkipLevel \/ UNCHANGED vars)
  <2>1. pc' # "init"
    <3>1. ASSUME NEW m \in Modes \cap Accesses, NEW b \in Requested, ReadPath(m, b)
          PROVE  pc' # "init"
      BY <3>1 DEF ReadPath
    <3>2. WriteStep => pc' # "init"
      BY DEF WriteStep, OWrite, writeToStash, SkipEmpty, OPlace, OGrow, OOverflow,
             Place, Grow, Overflow, Drop, Moving, NextCell
    <3>3. ReadStep \/ AbortStep => pc' # "init"
      BY DEF ReadStep, ReadHit, ReadMiss, AddZero, AddGrow, AddFail, AbortStep, Abort
    <3>4. RebuildStep => pc' # "init"
      BY DEF RebuildStep, RebuildCell, PrevCell
    <3> QED
      BY <1>4, <3>1, <3>2, <3>3, <3>4, AccessCases
         DEF Next, Step, ClearPath, OCompressStash, compressStash, PushPath
  <2> QED
    BY <2>1 DEF LevelsEmpty
<1> QED
  BY <1>1, <1>2, <1>3, <1>4

--------------------------------------------------------------------------------
(* Every block that is nowhere is accounted for.                            *)

\* Init_OCU has taken the leading bits of nBlock; at the end, all of it.
FlagSoFar ==
  IF pc = "init"
  THEN \E m \in Nat : /\ flag_start = m * 2^(lvl + 1)
                      /\ flag_start <= nBlock /\ nBlock < flag_start + 2^(lvl + 1)
  ELSE flag_start = nBlock

Missing == {b \in Bid : b < flag_start /\ Absent(b)}

Conserved == Cardinality(Missing) + global_added = nFailed + dropped

ConservedUntilFull == ~overflowed => Conserved

\* The bit of a level, in the binary writing of nBlock.
LEMMA BitStep ==
  ASSUME NEW N \in Nat, NEW q \in Nat \ {0}, NEW m \in Nat,
         m * (2 * q) <= N, N < m * (2 * q) + 2 * q
  PROVE  IF (N \div q) % 2 = 1
         THEN m * (2 * q) + q <= N
         ELSE N < m * (2 * q) + q
<1>1. PICK k : k = N \div q
  OBVIOUS
<1>2. k \in Int /\ k * q <= N /\ N < k * q + q
  BY <1>1
<1>3. CASE k = 2 * m
  <2>1. k % 2 = 0
    BY <1>3
  <2> QED
    BY <1>1, <1>2, <1>3, <2>1
<1>4. CASE k = 2 * m + 1
  <2>1. k % 2 = 1
    BY <1>4
  <2> QED
    BY <1>1, <1>2, <1>4, <2>1
<1>5. k = 2 * m \/ k = 2 * m + 1
  <2>1. ASSUME k < 2 * m PROVE FALSE
    <3>1. (k + 1) * q <= (2 * m) * q
      BY <1>2, <2>1
    <3> QED
      BY <1>2, <3>1
  <2>2. ASSUME k > 2 * m + 1 PROVE FALSE
    <3>1. (2 * m + 2) * q <= k * q
      BY <1>2, <2>2
    <3> QED
      BY <1>2, <3>1
  <2> QED
    BY <1>2, <2>1, <2>2
<1> QED
  BY <1>3, <1>4, <1>5

LEMMA NothingBetween ==
  ASSUME NEW a \in Nat, NEW b \in Nat, a <= b, b < a + 1
  PROVE  a = b
OBVIOUS

LEMMA FlagInit == Init => FlagSoFar
<1> SUFFICES ASSUME Init PROVE FlagSoFar
  OBVIOUS
<1>1. pc = "init" /\ lvl = level /\ flag_start = 0 /\ 0 \in Nat
  BY DEF Init
<1>2. level \in 0 .. level /\ 2^(level + 1) \in Nat
  BY TreeAssumption, PowerAssumption
<1>3. flag_start = 0 * 2^(lvl + 1)
  BY <1>1, <1>2
<1>4. flag_start <= nBlock /\ nBlock < flag_start + 2^(lvl + 1)
  BY <1>1, <1>2, TreeAssumption
<1> QED
  BY <1>1, <1>3, <1>4 DEF FlagSoFar

LEMMA FlagStep == Shape /\ FlagSoFar /\ [Next]_vars => FlagSoFar'
<1> SUFFICES ASSUME Shape, FlagSoFar, [Next]_vars PROVE FlagSoFar'
  OBVIOUS
<1>1. ASSUME InitLevel \/ SkipLevel
      PROVE  FlagSoFar'
  <2>1. /\ pc = "init" /\ NextLevel /\ lvl \in 0 .. level /\ flag_start \in Nat
        /\ flag_start' = IF BitSet(lvl) THEN flag_start + 2^lvl ELSE flag_start
    BY <1>1 DEF InitLevel, SkipLevel, Shape, TypeOK, Level
  <2>2. PICK q : q = 2^lvl
    OBVIOUS
  <2>3. q \in Nat \ {0} /\ 2^(lvl + 1) = 2 * q /\ nBlock \in Nat
    BY <2>1, <2>2, PowerAssumption, TreeAssumption
  <2>4. PICK m \in Nat : /\ flag_start = m * (2 * q)
                         /\ flag_start <= nBlock /\ nBlock < flag_start + 2 * q
    BY <2>1, <2>3 DEF FlagSoFar
  <2>5. BitSet(lvl) <=> (nBlock \div q) % 2 = 1
    BY <2>2 DEF BitSet
  <2>6. IF BitSet(lvl) THEN flag_start + q <= nBlock ELSE nBlock < flag_start + q
    BY <2>3, <2>4, <2>5, BitStep
  <2>7. flag_start' <= nBlock /\ nBlock < flag_start' + q /\ flag_start' \in Nat
    BY <2>1, <2>2, <2>3, <2>4, <2>6
  <2>8. \E w \in Nat : flag_start' = w * q
    <3>1. CASE BitSet(lvl)
      <4>1. flag_start' = (2 * m + 1) * q /\ 2 * m + 1 \in Nat
        BY <2>1, <2>2, <2>3, <2>4, <3>1
      <4> QED
        BY <4>1
    <3>2. CASE ~BitSet(lvl)
      <4>1. flag_start' = (2 * m) * q /\ 2 * m \in Nat
        BY <2>1, <2>3, <2>4, <3>2
      <4> QED
        BY <4>1
    <3> QED
      BY <3>1, <3>2
  <2>9. CASE lvl > 0 /\ lvl' = lvl - 1 /\ UNCHANGED pc
    <3>1. lvl' + 1 = lvl
      BY <2>1, <2>9
    <3>2. 2^(lvl' + 1) = q
      BY <2>2, <3>1
    <3> QED
      BY <2>1, <2>7, <2>8, <2>9, <3>2 DEF FlagSoFar
  <2>10. CASE lvl = 0 /\ pc' = "idle"
    <3>1. q = 1
      BY <2>2, <2>10, PowerAssumption
    <3>2. flag_start' <= nBlock /\ nBlock < flag_start' + 1
      BY <2>7, <3>1
    <3>3. flag_start' \in Nat /\ nBlock \in Nat
      BY <2>3, <2>7
    <3>4. flag_start' = nBlock
      BY <3>2, <3>3, NothingBetween
    <3> QED
      BY <2>10, <3>4 DEF FlagSoFar
  <2> QED
    BY <2>1, <2>9, <2>10 DEF NextLevel
<1>2. CASE UNCHANGED vars
  BY <1>2 DEF vars, FlagSoFar
<1>3. ASSUME ~(InitLevel \/ SkipLevel \/ UNCHANGED vars)
      PROVE  FlagSoFar'
  <2>1. pc # "init" /\ pc' # "init" /\ UNCHANGED flag_start
    <3>1. ASSUME NEW m \in Modes \cap Accesses, NEW b \in Requested, ReadPath(m, b)
          PROVE  pc # "init" /\ pc' # "init" /\ UNCHANGED flag_start
      BY <3>1 DEF ReadPath
    <3>2. WriteStep => pc # "init" /\ pc' # "init" /\ UNCHANGED flag_start
      BY DEF WriteStep, OWrite, writeToStash, SkipEmpty, OPlace, OGrow, OOverflow,
             Place, Grow, Overflow, Drop, Moving, NextCell
    <3>3. ReadStep \/ AbortStep => pc # "init" /\ pc' # "init" /\ UNCHANGED flag_start
      BY DEF ReadStep, ReadHit, ReadMiss, AddZero, AddGrow, AddFail, AbortStep, Abort
    <3>4. RebuildStep => pc # "init" /\ pc' # "init" /\ UNCHANGED flag_start
      BY DEF RebuildStep, RebuildCell, PrevCell
    <3> QED
      BY <1>3, <3>1, <3>2, <3>3, <3>4, AccessCases
         DEF Next, Step, ClearPath, OCompressStash, compressStash, PushPath
  <2> QED
    BY <2>1 DEF FlagSoFar
<1> QED
  BY <1>1, <1>2, <1>3

LEMMA AbsentHeld ==
  Shape => \A b : Absent(b) <=> \A d \in Data : ~Held(b, d)
<1> SUFFICES ASSUME Shape, NEW b PROVE Absent(b) <=> \A d \in Data : ~Held(b, d)
  OBVIOUS
<1>1. InSomeBucket(b) <=> \E d \in Data : InTree(b, d)
  <2>1. \A n \in Node, s \in Slot : TreeHolds(n, s) => OblivSK[n][s].data \in Data
    BY DEF TreeHolds, Shape, TypeOK, Cell, Block, Data
  <2> QED
    BY <2>1 DEF InSomeBucket, InTree
<1>2. InSomeCell(b) <=> \E d \in Data : InStash(b, d)
  <2>1. \A k \in InUse : StashHolds(k) => stash[k].data \in Data
    BY InUseStash DEF StashHolds, Shape, TypeOK, Cell, Block, Data
  <2> QED
    BY <2>1 DEF InSomeCell, InStash
<1>3. InSomePathCell(b) <=> \E d \in Data : InPath(b, d)
  <2>1. \A l \in Level, s \in Slot : PathHolds(l, s) => Path[l][s].data \in Data
    BY DEF PathHolds, Shape, TypeOK, Cell, Block, Data
  <2> QED
    BY <2>1 DEF InSomePathCell, InPath
<1> QED
  BY <1>1, <1>2, <1>3 DEF Absent, Held

LEMMA AbsentHeldNext ==
  Shape' => (\A b : Absent(b) <=> \A d \in Data : ~Held(b, d))'
BY AbsentHeld, PTL

LEMMA MissingFinite == IsFiniteSet(Missing) /\ Missing \subseteq Bid
<1>1. IsFiniteSet(Bid) /\ Missing \in SUBSET Bid
  BY TreeAssumption, FS_Interval DEF Bid, Missing
<1> QED
  BY <1>1, FS_Subset

LEMMA KeptConserved ==
  ASSUME Shape, Shape', Conserved, Kept,
         UNCHANGED <<flag_start, nFailed, global_added, dropped>>
  PROVE  Conserved'
<1>1. \A b \in Bid : Absent(b)' <=> Absent(b)
  BY AbsentHeld, AbsentHeldNext DEF Kept
<1>2. Missing' = Missing
  BY <1>1 DEF Missing
<1> QED
  BY <1>2 DEF Conserved

LEMMA DropConserved ==
  ASSUME Shape, Shape', Safe, FlagSoFar, Conserved, Drop
  PROVE  Conserved'
<1>1. PICK x \in Bid : Loses(x) /\ \E d \in Data : Held(x, d)
  BY DropLoses
<1>2. /\ flag_start = nBlock /\ dropped' = dropped + 1
      /\ UNCHANGED <<flag_start, nFailed, global_added>>
  BY DEF Drop, Moving, FlagSoFar
<1>3. /\ ~Absent(x) /\ Absent(x)'
      /\ \A b \in Bid : b # x => (Absent(b)' <=> Absent(b))
  BY <1>1, AbsentHeld, AbsentHeldNext DEF Loses
<1>4. x < flag_start
  BY <1>2, TreeAssumption DEF Bid
<1>5. Missing' = Missing \cup {x} /\ x \notin Missing
  BY <1>2, <1>3, <1>4 DEF Missing
<1>6. Cardinality(Missing') = Cardinality(Missing) + 1
  BY <1>5, MissingFinite, FS_AddElement
<1>7. Cardinality(Missing) \in Nat
  BY MissingFinite, FS_CardinalityType
<1>8. nFailed \in Nat /\ dropped \in Nat /\ global_added \in Nat
  BY DEF Shape, TypeOK
<1> QED
  BY <1>2, <1>6, <1>7, <1>8 DEF Conserved

LEMMA AddZeroConserved ==
  ASSUME Shape, Shape', Safe, FlagSoFar, Conserved, AddZero
  PROVE  Conserved'
<1>1. /\ pc = "add" /\ bid \in Bid /\ global_added' = global_added + 1
      /\ UNCHANGED <<flag_start, nFailed, dropped>>
  BY DEF AddZero, Shape, TypeOK
<1>2. flag_start = nBlock
  BY <1>1 DEF FlagSoFar
<1>3. PICK x \in Bid : x = bid
  BY <1>1
<1>4. \A b \in Bid, d \in Data : Held(b, d)' <=> Held(b, d) \/ (b = x /\ d = "zeroed")
  BY <1>3, AddZeroAdds
<1>5. \A d \in Data : ~Held(x, d)
  BY <1>1, <1>3, MissedNowhere
<1>6. Absent(x) /\ ~Absent(x)' /\ \A b \in Bid : b # x => (Absent(b)' <=> Absent(b))
  BY <1>4, <1>5, AbsentHeld, AbsentHeldNext DEF Data
<1>7. x < flag_start
  BY <1>2, TreeAssumption DEF Bid
<1>8. Missing' = Missing \ {x} /\ x \in Missing
  BY <1>1, <1>6, <1>7 DEF Missing
<1>9. Cardinality(Missing') = Cardinality(Missing) - 1
  BY <1>8, MissingFinite, FS_RemoveElement
<1>10. Cardinality(Missing) \in Nat
  BY MissingFinite, FS_CardinalityType
<1>11. nFailed \in Nat /\ dropped \in Nat /\ global_added \in Nat
  BY DEF Shape, TypeOK
<1> QED
  BY <1>1, <1>9, <1>10, <1>11 DEF Conserved

LEMMA ChunkAbsent ==
  ASSUME Shape, Safe, InitLevel, NEW b \in Chunk(lvl)
  PROVE  Absent(b)
<1>1. pc = "init" /\ pc # "write"
  BY DEF InitLevel
<1>2. b \in Int /\ flag_start \in Int /\ ~(b < flag_start)
  BY DEF Chunk, Bid, Shape, TypeOK
<1>3. \A n \in Node, s \in Slot : OblivSK[n][s] # DUMMY_FLAG => OblivSK[n][s].id < flag_start
  BY <1>1 DEF Safe, InitClean
<1>4. ~InSomeBucket(b)
  BY <1>2, <1>3 DEF InSomeBucket, TreeHolds
<1>5. ~InSomeCell(b)
  BY <1>1, InUseStash DEF InSomeCell, Safe, InitClean, Empty, StashHolds
<1>6. ~InSomePathCell(b)
  BY <1>1 DEF InSomePathCell, PathHolds, PathLive
<1> QED
  BY <1>4, <1>5, <1>6 DEF Absent

LEMMA InitLevelConserved ==
  ASSUME Shape, Shape', Safe, LevelsEmpty, Conserved, InitLevel
  PROVE  Conserved'
<1>1. PICK S : S = Chunk(lvl)
  OBVIOUS
<1>2. PICK U \in SUBSET S :
        /\ nFailed' = nFailed + Cardinality(U)
        /\ \A b \in Bid, d \in Data :
             Held(b, d)' <=> Held(b, d) \/ (d = "copied" /\ b \in S \ U)
  BY <1>1, InitLevelHolds
<1>3. /\ flag_start' = flag_start + 2^lvl /\ 2^lvl \in Nat \ {0} /\ flag_start \in Nat
      /\ UNCHANGED <<global_added, dropped>>
  BY PowerAssumption DEF InitLevel, Shape, TypeOK, Level
<1>4. /\ S \subseteq Bid /\ IsFiniteSet(S)
      /\ \A b \in Bid : b \in S <=> flag_start <= b /\ b < flag_start'
  BY <1>1, <1>3, ChunkFinite DEF Chunk, Shape, TypeOK
<1>5. \A b \in Bid : b < flag_start' <=> b < flag_start \/ b \in S
  BY <1>3, <1>4 DEF Bid
<1>6. \A b \in S : ~(b < flag_start)
  BY <1>3, <1>4 DEF Bid
<1>7. \A b \in S : Absent(b)
  BY <1>1, ChunkAbsent
<1>8. \A b \in Bid : /\ b \in S => (Absent(b)' <=> b \in U)
                     /\ b \notin S => (Absent(b)' <=> Absent(b))
  BY <1>2, <1>4, <1>7, AbsentHeld, AbsentHeldNext DEF Data
<1>9. Missing' = Missing \cup U /\ Missing \cap U = {}
  BY <1>2, <1>4, <1>5, <1>6, <1>8 DEF Missing
<1>10. IsFiniteSet(U) /\ IsFiniteSet(Missing)
  BY <1>4, FS_Subset, MissingFinite
<1>11. Cardinality(Missing') = Cardinality(Missing) + Cardinality(U)
  <2>1. Cardinality(Missing \cap U) = 0
    BY <1>9, FS_EmptySet
  <2>2. Cardinality(Missing \cup U) =
          Cardinality(Missing) + Cardinality(U) - Cardinality(Missing \cap U)
    BY <1>10, FS_Union
  <2>3. Cardinality(Missing) \in Nat /\ Cardinality(U) \in Nat
    BY <1>10, FS_CardinalityType
  <2> QED
    BY <1>9, <2>1, <2>2, <2>3
<1>12. Cardinality(Missing) \in Nat /\ Cardinality(U) \in Nat
  BY <1>10, FS_CardinalityType
<1>13. nFailed \in Nat /\ dropped \in Nat /\ global_added \in Nat
  BY DEF Shape, TypeOK
<1>14. nFailed' = nFailed + Cardinality(U) /\ UNCHANGED <<global_added, dropped>>
  BY <1>2, <1>3
<1> QED
  BY <1>11, <1>12, <1>13, <1>14 DEF Conserved

StoreInv == /\ Shape /\ SafeUntilFull
            /\ PathAhead /\ LevelsEmpty /\ FlagSoFar

\* Until the stash refuses a block, a step that is none of these moves blocks
\* without losing, changing or adding any.
LEMMA QuietStep ==
  ASSUME Shape, Shape', Safe, PathAhead, [Next]_vars, ~overflowed',
         ~InitLevel, ~Drop, ~AddZero
  PROVE  Kept /\ UNCHANGED <<flag_start, nFailed, global_added, dropped>>
<1> USE DEF count
<1>1. ~Overflow /\ ~AddFail /\ \A pace \in Growths : ~OOverflow(pace)
  BY DEF OOverflow, Overflow, AddFail
<1>2. CASE WriteStep
  <2>1. \/ SkipEmpty \/ OPlace \/ Place
        \/ (\E pace \in Growths : OGrow(pace)) \/ Grow
    BY <1>1, <1>2 DEF WriteStep, OWrite, writeToStash
  <2>2. UNCHANGED <<flag_start, nFailed, global_added, dropped>>
    BY <2>1 DEF SkipEmpty, OPlace, Place, OGrow, Grow
  <2> QED
    BY <2>1, <2>2, SkipKept, PlaceKept, GrowKept
<1>3. CASE ReadStep
  <2>1. \/ \E p \in Draws : ReadHit(TRUE, p) \/ ReadMiss(p)
        \/ AddGrow
    BY <1>1, <1>3 DEF ReadStep
  <2>2. UNCHANGED <<flag_start, nFailed, global_added, dropped>>
    BY <2>1 DEF ReadHit, ReadMiss, AddGrow
  <2> QED
    BY <2>1, <2>2, ReadHitKept, ReadMissKept, GrowKept
<1>4. CASE RebuildStep
  <2>1. PICK then \in {"compress", "push"} : RebuildCell(TRUE, then)
    BY <1>4 DEF RebuildStep
  <2>2. Kept
    BY <2>1, RebuildKept
  <2> QED
    BY <2>1, <2>2 DEF RebuildCell
<1>5. CASE SkipLevel \/ UNCHANGED vars
  BY <1>5, StutterKept DEF SkipLevel, vars
<1>6. CASE ClearPath \/ OCompressStash \/ compressStash \/ PushPath
  BY <1>6, ClearKept, CompressKept, PushKept DEF ClearPath, OCompressStash, compressStash, PushPath
<1>7. ASSUME NEW m \in Modes \cap Accesses, NEW b \in Requested, ReadPath(m, b)
      PROVE  Kept /\ UNCHANGED <<flag_start, nFailed, global_added, dropped>>
  <2>1. Kept
    BY <1>7, ReadPathKept
  <2> QED
    BY <1>7, <2>1 DEF ReadPath
<1> QED
  BY <1>2, <1>3, <1>4, <1>5, <1>6, <1>7, AccessCases, NoAbortSafe DEF Next, Step

LEMMA ConservedStep ==
  StoreInv /\ ConservedUntilFull /\ [Next]_vars => ConservedUntilFull'
<1> SUFFICES ASSUME StoreInv, ConservedUntilFull, [Next]_vars, ~overflowed'
             PROVE  Conserved'
  BY DEF ConservedUntilFull
<1>1. /\ Shape /\ Shape' /\ Safe /\ Conserved
      /\ PathAhead /\ LevelsEmpty /\ FlagSoFar
  BY ShapeStep, OverflowStays DEF StoreInv, SafeUntilFull, ConservedUntilFull
<1>2. CASE InitLevel \/ Drop \/ AddZero
  BY <1>1, <1>2, InitLevelConserved, DropConserved, AddZeroConserved
<1>3. CASE ~(InitLevel \/ Drop \/ AddZero)
  BY <1>1, <1>3, QuietStep, KeptConserved
<1> QED
  BY <1>2, <1>3

LEMMA StoreInit == Init => StoreInv /\ ConservedUntilFull
<1> SUFFICES ASSUME Init PROVE StoreInv /\ ConservedUntilFull
  OBVIOUS
<1>1. Shape /\ SafeUntilFull /\ FlagSoFar
  BY ShapeInit, SafeInit, FlagInit DEF SafeUntilFull
<1>2. PathAhead /\ LevelsEmpty
  BY DEF Init, PathAhead, LevelsEmpty, EmptyBucket
<1>3. Missing = {}
  BY DEF Missing, Init, Bid
<1>4. Conserved
  BY <1>3, FS_EmptySet DEF Conserved, Init
<1> QED
  BY <1>1, <1>2, <1>4 DEF StoreInv, ConservedUntilFull

LEMMA StoreStep == StoreInv /\ [Next]_vars => StoreInv'
BY ShapeStep, SafeStep, AheadStep, LevelsStep, FlagStep DEF StoreInv

\* Blocks are conserved: until the stash refuses one, the blocks that are nowhere
\* are those Init_OCU counted in nFailed (FOSketch.h:2163), less those that an
\* access added as zeroes since, plus those writeToStash left out.
THEOREM ConservationHolds == Spec => []Conservation
<1>1. StoreInv /\ ConservedUntilFull /\ [Next]_vars => (StoreInv /\ ConservedUntilFull)'
  BY StoreStep, ConservedStep
<1>2. StoreInv /\ ConservedUntilFull => Conservation
  <2> SUFFICES ASSUME StoreInv, ConservedUntilFull, ~overflowed, pc # "init"
               PROVE  Cardinality({b \in Bid : Absent(b)}) + global_added = nFailed + dropped
    BY DEF Conservation
  <2>1. flag_start = nBlock
    BY DEF StoreInv, FlagSoFar
  <2>2. Missing = {b \in Bid : Absent(b)}
    BY <2>1, TreeAssumption DEF Missing, Bid
  <2> QED
    BY <2>2 DEF ConservedUntilFull, Conserved
<1> QED
  BY StoreInit, <1>1, <1>2, PTL DEF Spec

--------------------------------------------------------------------------------
(* The store that the accesses see, and the steps of it.                    *)

\* What StoreView says of a block: nothing, or the counters of a live copy.
Shows(b) == \/ StoreView[b] = "missing" /\ \A d \in Data : ~Held(b, d)
            \/ \E d \in Data : StoreView[b] = d /\ Held(b, d)

LEMMA CopiesHeld ==
  ASSUME Shape, NEW b
  PROVE  /\ \A c \in Copies(b) : c.data \in Data /\ Held(b, c.data)
         /\ \A d : Held(b, d) => Copies(b) # {}
<1>1. ASSUME NEW n \in Node, NEW s \in Slot, TreeHolds(n, s)
      PROVE  OblivSK[n][s].data \in Data
  BY <1>1 DEF TreeHolds, Shape, TypeOK, Cell, Block, Data
<1>2. ASSUME NEW k \in InUse, StashHolds(k)
      PROVE  stash[k].data \in Data
  BY <1>2, InUseStash DEF StashHolds, Shape, TypeOK, Cell, Block, Data
<1>3. ASSUME NEW l \in Level, NEW s \in Slot, PathHolds(l, s)
      PROVE  Path[l][s].data \in Data
  BY <1>3 DEF PathHolds, Shape, TypeOK, Cell, Block, Data
<1> DEFINE T == {OblivSK[a[1]][a[2]] : a \in {a \in Node \X Slot :
                   TreeHolds(a[1], a[2]) /\ OblivSK[a[1]][a[2]].id = b}}
           K == {stash[k] : k \in {k \in InUse : StashHolds(k) /\ stash[k].id = b}}
           P == {Path[a[1]][a[2]] : a \in {a \in Level \X Slot :
                   PathHolds(a[1], a[2]) /\ Path[a[1]][a[2]].id = b}}
<1>4. \A c : /\ c \in T <=> \E n \in Node, s \in Slot :
                              TreeHolds(n, s) /\ OblivSK[n][s].id = b /\ c = OblivSK[n][s]
             /\ c \in K <=> \E k \in InUse : StashHolds(k) /\ stash[k].id = b /\ c = stash[k]
             /\ c \in P <=> \E l \in Level, s \in Slot :
                              PathHolds(l, s) /\ Path[l][s].id = b /\ c = Path[l][s]
  <2> SUFFICES ASSUME NEW c
      PROVE  /\ c \in T <=> \E n \in Node, s \in Slot :
                              TreeHolds(n, s) /\ OblivSK[n][s].id = b /\ c = OblivSK[n][s]
             /\ c \in K <=> \E k \in InUse : StashHolds(k) /\ stash[k].id = b /\ c = stash[k]
             /\ c \in P <=> \E l \in Level, s \in Slot :
                              PathHolds(l, s) /\ Path[l][s].id = b /\ c = Path[l][s]
    OBVIOUS
  <2>1. ASSUME NEW n \in Node, NEW s \in Slot,
               TreeHolds(n, s), OblivSK[n][s].id = b, c = OblivSK[n][s]
        PROVE  c \in T
    <3>1. <<n, s>> \in Node \X Slot /\ <<n, s>>[1] = n /\ <<n, s>>[2] = s
      OBVIOUS
    <3> QED
      BY <2>1, <3>1
  <2>2. ASSUME NEW l \in Level, NEW s \in Slot,
               PathHolds(l, s), Path[l][s].id = b, c = Path[l][s]
        PROVE  c \in P
    <3>1. <<l, s>> \in Level \X Slot /\ <<l, s>>[1] = l /\ <<l, s>>[2] = s
      OBVIOUS
    <3> QED
      BY <2>2, <3>1
  <2>3. c \in T => \E n \in Node, s \in Slot :
                     TreeHolds(n, s) /\ OblivSK[n][s].id = b /\ c = OblivSK[n][s]
    OBVIOUS
  <2>4. c \in P => \E l \in Level, s \in Slot :
                     PathHolds(l, s) /\ Path[l][s].id = b /\ c = Path[l][s]
    OBVIOUS
  <2>5. c \in K <=> \E k \in InUse : StashHolds(k) /\ stash[k].id = b /\ c = stash[k]
    OBVIOUS
  <2> QED
    BY <2>1, <2>2, <2>3, <2>4, <2>5
<1>c. Copies(b) = T \cup K \cup P
  BY DEF Copies
<1> HIDE DEF T, K, P
<1>5. \A c \in Copies(b) : c.data \in Data /\ Held(b, c.data)
  BY <1>1, <1>2, <1>3, <1>4, <1>c DEF Held, InTree, InStash, InPath
<1>6. \A d : Held(b, d) => \E c : c \in Copies(b)
  BY <1>4, <1>c DEF Held, InTree, InStash, InPath
<1> QED
  BY <1>5, <1>6

LEMMA StoreIs == Shape => \A b \in Bid : Shows(b)
<1> SUFFICES ASSUME Shape, NEW b \in Bid PROVE Shows(b)
  OBVIOUS
<1>1. StoreView[b] = IF Copies(b) = {} THEN "missing"
                     ELSE (CHOOSE c \in Copies(b) : TRUE).data
  BY DEF StoreView
<1>2. CASE Copies(b) = {}
  BY <1>1, <1>2, CopiesHeld DEF Shows
<1>3. CASE Copies(b) # {}
  <2>1. PICK c : c = (CHOOSE x \in Copies(b) : TRUE)
    OBVIOUS
  <2>2. c \in Copies(b)
    BY <1>3, <2>1
  <2>3. StoreView[b] = c.data
    BY <1>1, <1>3, <2>1
  <2> QED
    BY <2>2, <2>3, CopiesHeld DEF Shows
<1> QED
  BY <1>2, <1>3

LEMMA StoreIsNext == Shape' => (\A b \in Bid : Shows(b))'
BY StoreIs, PTL

\* A block with one live copy has one data.
LEMMA HeldOnce ==
  ASSUME Single, NEW b, NEW d, NEW e, Held(b, d), Held(b, e)
  PROVE  d = e
<1>1. /\ InTree(b, d) /\ InTree(b, e) => d = e
      /\ InStash(b, d) /\ InStash(b, e) => d = e
      /\ InPath(b, d) /\ InPath(b, e) => d = e
  BY DEF Single, OneInTree, OneInStash, OneInPath, InTree, InStash, InPath
<1>2. /\ ~(InTree(b, d) /\ InStash(b, e)) /\ ~(InTree(b, e) /\ InStash(b, d))
      /\ ~(InTree(b, d) /\ InPath(b, e)) /\ ~(InTree(b, e) /\ InPath(b, d))
      /\ ~(InStash(b, d) /\ InPath(b, e)) /\ ~(InStash(b, e) /\ InPath(b, d))
  BY DEF Single, TreeNotStash, TreeNotPath, StashNotPath, InTree, InStash, InPath
<1> QED
  BY <1>1, <1>2 DEF Held

LEMMA StoreSingle ==
  ASSUME Shape, Single, NEW b \in Bid, NEW d \in Data, Held(b, d)
  PROVE  StoreView[b] = d
BY StoreIs, HeldOnce DEF Shows

LEMMA ViewFun == /\ StoreView = [b \in Bid |-> StoreView[b]]
                 /\ StoreView' = [b \in Bid |-> StoreView'[b]]
BY DEF StoreView

\* As long as blocks are single, a step that keeps them all keeps the store,
\* and one that loses some only forgets.
LEMMA ViewFewer ==
  ASSUME Shape, Shape', Single, Fewer, NEW b \in Bid
  PROVE  StoreView'[b] = StoreView[b] \/ (StoreView'[b] = "missing" /\ StoreView[b] # "missing")
<1>1. Shows(b) /\ Shows(b)'
  BY StoreIs, StoreIsNext
<1>2. CASE \E d \in Data : StoreView'[b] = d /\ Held(b, d)'
  BY <1>2, StoreSingle DEF Fewer
<1>3. CASE StoreView'[b] = "missing"
  BY <1>3
<1> QED
  BY <1>1, <1>2, <1>3 DEF Shows

LEMMA ViewKept ==
  ASSUME Shape, Shape', Single, Kept
  PROVE  StoreView' = StoreView
<1>1. ASSUME NEW b \in Bid PROVE StoreView'[b] = StoreView[b]
  <2>1. Shows(b) /\ Shows(b)'
    BY StoreIs, StoreIsNext
  <2>2. CASE \E d \in Data : StoreView'[b] = d /\ Held(b, d)'
    BY <2>2, StoreSingle DEF Kept
  <2>3. CASE StoreView'[b] = "missing" /\ \A d \in Data : ~Held(b, d)'
    BY <2>1, <2>3 DEF Kept, Shows
  <2> QED
    BY <2>1, <2>2, <2>3 DEF Shows
<1> QED
  BY <1>1, ViewFun

\* An access has answered nothing before it reaches the block.
AnswerFresh == pc \in {"write", "read", "add"} => answer = NoAnswer

LEMMA AnswerStep == AnswerFresh /\ [Next]_vars => AnswerFresh'
<1> SUFFICES ASSUME AnswerFresh, [Next]_vars PROVE AnswerFresh'
  OBVIOUS
<1>1. CASE InitLevel \/ SkipLevel
  BY <1>1 DEF InitLevel, SkipLevel, NextLevel, AnswerFresh
<1>2. CASE WriteStep
  <2>1. pc = "write" /\ UNCHANGED answer
    BY <1>2 DEF WriteStep, OWrite, writeToStash, SkipEmpty, OPlace, OGrow, OOverflow,
       Place, Grow, Overflow, Drop, Moving
  <2> QED
    BY <2>1 DEF AnswerFresh
<1>3. CASE ReadStep \/ AbortStep
  BY <1>3 DEF ReadStep, ReadHit, ReadMiss, AddZero, AddGrow, AddFail, AbortStep, Abort, AnswerFresh
<1>4. CASE RebuildStep
  BY <1>4 DEF RebuildStep, RebuildCell, PrevCell, AnswerFresh
<1>5. CASE ClearPath \/ OCompressStash \/ compressStash \/ PushPath
  BY <1>5 DEF ClearPath, OCompressStash, compressStash, PushPath, AnswerFresh
<1>6. ASSUME NEW m \in Modes \cap Accesses, NEW b \in Requested, ReadPath(m, b)
      PROVE  AnswerFresh'
  BY <1>6 DEF ReadPath, AnswerFresh
<1>7. CASE UNCHANGED vars
  BY <1>7 DEF vars, AnswerFresh
<1> QED
  BY <1>1, <1>2, <1>3, <1>4, <1>5, <1>6, <1>7, AccessCases DEF Next, Step

LEMMA FillStep ==
  ASSUME Shape, Shape', Safe, LevelsEmpty, InitLevel
  PROVE  \E S \in SUBSET Bid, done \in BOOLEAN : PORAM!Fill(S, done)
<1>1. PICK C : C = Chunk(lvl)
  OBVIOUS
<1>2. PICK U \in SUBSET C :
        \A b \in Bid, d \in Data :
          Held(b, d)' <=> Held(b, d) \/ (d = "copied" /\ b \in C \ U)
  BY <1>1, InitLevelHolds
<1>3. /\ pc = "init" /\ UNCHANGED answer /\ C \ U \in SUBSET Bid
  BY <1>1 DEF InitLevel, Chunk
<1>4. ASSUME NEW b \in Bid
      PROVE  StoreView'[b] = IF b \in C \ U THEN "copied" ELSE StoreView[b]
  <2>1. Shows(b) /\ Shows(b)'
    BY StoreIs, StoreIsNext
  <2>2. CASE b \in C \ U
    <3>1. Absent(b)
      BY <1>1, <2>2, ChunkAbsent
    <3>2. \A d \in Data : ~Held(b, d)
      BY <3>1, AbsentHeld
    <3>3. "copied" \in Data
      BY DEF Data
    <3> QED
      BY <1>2, <2>1, <2>2, <3>2, <3>3 DEF Shows
  <2>3. CASE b \notin C \ U
    <3>1. \A d \in Data : Held(b, d)' <=> Held(b, d)
      BY <1>2, <2>3
    <3>2. CASE \E d \in Data : StoreView'[b] = d /\ Held(b, d)'
      BY <2>3, <3>1, <3>2, StoreSingle DEF Safe
    <3>3. CASE StoreView'[b] = "missing" /\ \A d \in Data : ~Held(b, d)'
      BY <2>1, <2>3, <3>1, <3>3 DEF Shows
    <3> QED
      BY <2>1, <3>2, <3>3 DEF Shows
  <2> QED
    BY <2>2, <2>3
<1>5. StoreView' = [b \in Bid |-> IF b \in C \ U THEN "copied" ELSE StoreView[b]]
  BY <1>4, ViewFun
<1>6. (pc' # "init") \in BOOLEAN /\ ~(pc # "init")
  BY <1>3
<1>7. PORAM!Fill(C \ U, pc' # "init")
  BY <1>3, <1>5, <1>6 DEF PORAM!Fill
<1> QED
  BY <1>3, <1>6, <1>7

LEMMA SkipFills ==
  ASSUME Shape, Shape', Safe, SkipLevel
  PROVE  \E S \in SUBSET Bid, done \in BOOLEAN : PORAM!Fill(S, done)
<1>1. StoreView' = StoreView
  BY ViewKept, StutterKept DEF Safe
<1>2. pc = "init" /\ UNCHANGED answer
  BY DEF SkipLevel
<1>3. StoreView' = [b \in Bid |-> IF b \in {} THEN "copied" ELSE StoreView[b]]
  BY <1>1, ViewFun
<1>4. (pc' # "init") \in BOOLEAN /\ ~(pc # "init")
  BY <1>2
<1>5. PORAM!Fill({}, pc' # "init")
  BY <1>2, <1>3, <1>4 DEF PORAM!Fill
<1> QED
  BY <1>4, <1>5

LEMMA HitAccess ==
  ASSUME Shape, Shape', Safe, AnswerFresh, NEW p \in Draws, ReadHit(TRUE, p)
  PROVE  PORAM!Access(bid)
<1>1. StoreView' = StoreView
  BY ViewKept, ReadHitKept DEF Safe
<1>2. PICK d \in Data : Held(bid, d) /\ answer' = [bid |-> bid, data |-> d]
  BY ReadHitKept
<1>3. bid \in Bid /\ answer = NoAnswer /\ pc # "init" /\ pc' # "init"
  BY DEF ReadHit, AnswerFresh, Shape, TypeOK
<1>4. StoreView[bid] = d /\ d # "missing"
  BY <1>2, <1>3, StoreSingle DEF Safe, Data
<1>5. StoreView' = [StoreView EXCEPT ![bid] = IF @ = "missing" THEN "zeroed" ELSE @]
  BY <1>1, <1>3, <1>4, ViewFun
<1>6. answer' = [bid |-> bid, data |-> StoreView'[bid]]
  BY <1>1, <1>2, <1>4
<1> QED
  BY <1>3, <1>5, <1>6 DEF PORAM!Access, PORAM!NoAnswer, NoAnswer

LEMMA ZeroAccess ==
  ASSUME Shape, Shape', Safe, AnswerFresh, AddZero
  PROVE  PORAM!Access(bid)
<1>1. /\ pc = "add" /\ bid \in Bid /\ answer = NoAnswer /\ pc' # "init"
      /\ answer' = [bid |-> bid, data |-> "zeroed"]
  BY DEF AddZero, AnswerFresh, Shape, TypeOK
<1>2. \A d \in Data : ~Held(bid, d)
  BY <1>1, MissedNowhere
<1>3. \A b \in Bid, d \in Data : Held(b, d)' <=> Held(b, d) \/ (b = bid /\ d = "zeroed")
  BY AddZeroAdds
<1>4. \A b \in Bid : Shows(b) /\ Shows(b)'
  BY StoreIs, StoreIsNext
<1>5. "zeroed" \in Data
  BY DEF Data
<1>6. StoreView[bid] = "missing" /\ StoreView'[bid] = "zeroed"
  BY <1>1, <1>2, <1>3, <1>4, <1>5 DEF Shows
<1>7. ASSUME NEW b \in Bid, b # bid
      PROVE  StoreView'[b] = StoreView[b]
  <2>1. \A d \in Data : Held(b, d)' <=> Held(b, d)
    BY <1>3, <1>7
  <2>2. CASE \E d \in Data : StoreView'[b] = d /\ Held(b, d)'
    BY <2>1, <2>2, StoreSingle DEF Safe
  <2>3. CASE StoreView'[b] = "missing" /\ \A d \in Data : ~Held(b, d)'
    BY <1>4, <2>1, <2>3 DEF Shows
  <2> QED
    BY <1>4, <2>2, <2>3 DEF Shows
<1>8. StoreView' = [StoreView EXCEPT ![bid] = IF @ = "missing" THEN "zeroed" ELSE @]
  BY <1>6, <1>7, ViewFun
<1> QED
  BY <1>1, <1>6, <1>8 DEF PORAM!Access, PORAM!NoAnswer, NoAnswer

LEMMA FailRefuses ==
  ASSUME Shape, Shape', Safe, AnswerFresh, AddFail
  PROVE  PORAM!Refuse(bid)
<1>1. StoreView' = StoreView
  BY ViewKept, ReadMissKept DEF Safe
<1>2. /\ pc = "add" /\ bid \in Bid /\ answer = NoAnswer /\ pc' # "init"
      /\ answer' = [bid |-> bid, data |-> "none"]
  BY DEF AddFail, AnswerFresh, Shape, TypeOK
<1>3. \A d \in Data : ~Held(bid, d)
  BY <1>2, MissedNowhere
<1>4. StoreView[bid] = "missing"
  BY <1>2, <1>3, StoreIs DEF Shows
<1> QED
  BY <1>1, <1>2, <1>4 DEF PORAM!Refuse, PORAM!NoAnswer, NoAnswer

LEMMA FewerForgets ==
  ASSUME Shape, Shape', Safe, Fewer, pc # "init", pc' # "init", UNCHANGED answer
  PROVE  \E S \in SUBSET Bid : PORAM!Forget(S)
<1> DEFINE S == {b \in Bid : StoreView'[b] = "missing" /\ StoreView[b] # "missing"}
<1>1. \A b \in Bid : StoreView'[b] = IF b \in S THEN "missing" ELSE StoreView[b]
  BY ViewFewer DEF Safe
<1>2. StoreView' = [b \in Bid |-> IF b \in S THEN "missing" ELSE StoreView[b]]
  BY <1>1, ViewFun
<1>3. PORAM!Forget(S)
  BY <1>2 DEF PORAM!Forget
<1> QED
  BY <1>3

LEMMA PathCalls ==
  ASSUME Shape, Shape', Safe, NEW m \in Modes \cap Accesses, NEW b \in Requested, ReadPath(m, b)
  PROVE  PORAM!Call
<1>1. StoreView' = StoreView
  BY ViewKept, ReadPathKept DEF Safe
<1> QED
  BY <1>1 DEF ReadPath, PORAM!Call, PORAM!NoAnswer, NoAnswer

LossyInv == Shape /\ SafeUntilFull /\ PathAhead /\ LevelsEmpty /\ AnswerFresh

\* The steps of the instance are those of the store; only a block left out or
\* refused needs one that forgets.
StoreOutcome == \/ PORAM!Serve
                \/ UNCHANGED PORAM!vars
                \/ (Drop \/ overflowed') /\ PORAM!LossyStep

LEMMA StoreNext ==
  ASSUME LossyInv, [Next]_vars, ~overflowed
  PROVE  StoreOutcome
<1>1. /\ Shape /\ Shape' /\ Safe /\ PathAhead /\ LevelsEmpty /\ AnswerFresh
  BY ShapeStep DEF LossyInv, SafeUntilFull
<1>2. CASE InitLevel
  BY <1>1, <1>2, FillStep DEF StoreOutcome, PORAM!Serve
<1>3. CASE SkipLevel
  BY <1>1, <1>3, SkipFills DEF StoreOutcome, PORAM!Serve
<1>4. CASE AddZero
  BY <1>1, <1>4, ZeroAccess DEF StoreOutcome, PORAM!Serve, Shape, TypeOK
<1>5. CASE AddFail
  BY <1>1, <1>5, FailRefuses DEF AddFail, StoreOutcome, PORAM!LossyStep, Shape, TypeOK
<1>6. ASSUME NEW p \in Draws, ReadHit(TRUE, p)
      PROVE  StoreOutcome
  BY <1>1, <1>6, HitAccess DEF StoreOutcome, PORAM!Serve, Shape, TypeOK
<1>7. CASE Drop \/ Overflow \/ \E pace \in Growths : OOverflow(pace)
  <2>1. Fewer
    BY <1>1, <1>7, DropLoses, OverflowFewer DEF Fewer, Loses
  <2>2. pc # "init" /\ pc' # "init" /\ UNCHANGED answer
    BY <1>7 DEF Drop, Overflow, OOverflow, Moving, NextCell
  <2>3. Drop \/ overflowed'
    BY <1>7 DEF Overflow, OOverflow
  <2> QED
    BY <1>1, <2>1, <2>2, <2>3, FewerForgets DEF StoreOutcome, PORAM!LossyStep
<1>8. ASSUME NEW m \in Modes \cap Accesses, NEW b \in Requested, ReadPath(m, b)
      PROVE  StoreOutcome
  BY <1>1, <1>8, PathCalls DEF StoreOutcome, PORAM!Serve
<1>9. ASSUME Kept, (pc # "init" /\ pc' # "init") \/ UNCHANGED pc, UNCHANGED answer
      PROVE  UNCHANGED PORAM!vars
  BY <1>1, <1>9, ViewKept DEF PORAM!vars, Safe
<1>10. CASE \/ SkipEmpty \/ OPlace \/ Place
            \/ (\E pace \in Growths : OGrow(pace)) \/ Grow \/ AddGrow
  <2>1. Kept
    BY <1>1, <1>10, SkipKept, PlaceKept, GrowKept
  <2>2. pc # "init" /\ pc' # "init" /\ UNCHANGED answer
    BY <1>10 DEF SkipEmpty, OPlace, Place, OGrow, Grow, AddGrow, Moving, NextCell
  <2> QED
    BY <1>9, <2>1, <2>2 DEF StoreOutcome
<1>11. CASE \E p \in Draws : ReadMiss(p)
  <2>1. Kept /\ pc # "init" /\ pc' # "init" /\ UNCHANGED answer
    BY <1>11, ReadMissKept DEF ReadMiss
  <2> QED
    BY <1>9, <2>1 DEF StoreOutcome
<1>12. CASE RebuildStep
  <2>1. PICK then \in {"compress", "push"} : RebuildCell(TRUE, then)
    BY <1>12 DEF RebuildStep
  <2>2. Kept /\ pc # "init" /\ pc' # "init" /\ UNCHANGED answer
    BY <1>1, <2>1, RebuildKept DEF RebuildCell, PrevCell
  <2> QED
    BY <1>9, <2>2 DEF StoreOutcome
<1>13. CASE ClearPath \/ OCompressStash \/ compressStash \/ PushPath
  <2>1. Kept
    BY <1>1, <1>13, ClearKept, CompressKept, PushKept
  <2>2. pc # "init" /\ pc' # "init" /\ UNCHANGED answer
    BY <1>13 DEF ClearPath, OCompressStash, compressStash, PushPath
  <2> QED
    BY <1>9, <2>1, <2>2 DEF StoreOutcome
<1>14. CASE UNCHANGED vars
  BY <1>9, <1>14, StutterKept DEF vars, StoreOutcome
<1>15. WriteStep => \/ SkipEmpty \/ OPlace \/ Place
                    \/ (\E pace \in Growths : OGrow(pace)) \/ Grow
                    \/ Drop \/ Overflow \/ \E pace \in Growths : OOverflow(pace)
  BY DEF WriteStep, OWrite, writeToStash
<1>16. WriteStep => StoreOutcome
  BY <1>7, <1>10, <1>15 DEF StoreOutcome
<1>17. ReadStep => StoreOutcome
  BY <1>4, <1>5, <1>6, <1>10, <1>11 DEF ReadStep, StoreOutcome
<1>18. ~AbortStep
  BY <1>1, NoAbortSafe
<1> QED
  BY <1>2, <1>3, <1>8, <1>12, <1>13, <1>14, <1>16, <1>17, <1>18, AccessCases DEF Next, Step, StoreOutcome

LEMMA LossyInit == Init => LossyInv /\ PORAM!Init
<1> SUFFICES ASSUME Init PROVE LossyInv /\ PORAM!Init
  OBVIOUS
<1>1. LossyInv
  BY StoreInit DEF StoreInv, LossyInv, AnswerFresh, Init
<1>2. ASSUME NEW b \in Bid PROVE StoreView[b] = "missing"
  <2>1. \A d : ~Held(b, d)
    <3>1. \A n \in Node, s \in Slot : OblivSK[n][s] = DUMMY_FLAG
      BY DEF Init, EmptyBucket
    <3>2. \A l \in Level, s \in Slot : ~PathHolds(l, s)
      BY DEF Init, PathHolds, PathLive
    <3>3. \A k \in InUse : ~StashHolds(k)
      BY <1>1, InUseStash DEF LossyInv, Init, StashHolds
    <3> QED
      BY <3>1, <3>2, <3>3 DEF Held, InTree, InStash, InPath, TreeHolds
  <2>2. Shows(b)
    BY <1>1, StoreIs DEF LossyInv
  <2> QED
    BY <2>1, <2>2 DEF Shows
<1>3. StoreView = [b \in Bid |-> "missing"]
  BY <1>2, ViewFun
<1> QED
  BY <1>1, <1>3 DEF Init, PORAM!Init, PORAM!NoAnswer, NoAnswer

LEMMA LossyStepInv == LossyInv /\ [Next]_vars => LossyInv'
BY ShapeStep, SafeStep, AheadStep, LevelsStep, AnswerStep DEF LossyInv

\* As long as the stash has refused no block, every step of OAccess, OAccess_S,
\* OAccess_F and access is a step of a store of blocks that may forget a block at
\* any time (writeToStash drops one without a word), or a stutter: they answer the
\* block Init_OCU copied, or zeroes for one forgotten before, and one forgotten
\* never comes back. Nothing is promised from the first refusal on.
THEOREM PoramIsLossyStore == Spec => LossyUntilFull
<1>1. LossyInv /\ [Next]_vars => [~overflowed => PORAM!LossyStep]_(PORAM!vars)
  BY StoreNext DEF StoreOutcome, PORAM!LossyStep
<1> QED
  BY LossyInit, LossyStepInv, <1>1, PTL DEF Spec, LossyUntilFull

--------------------------------------------------------------------------------
(* Without access, and as long as the stash has room, nothing is forgotten. *)

NoAccessMode == mode # "access"

LEMMA ModeStep ==
  ASSUME "access" \notin Modes
  PROVE  NoAccessMode /\ [Next]_vars => NoAccessMode'
<1> SUFFICES ASSUME NoAccessMode, [Next]_vars PROVE NoAccessMode'
  OBVIOUS
<1>1. ASSUME NEW m \in Modes \cap Accesses, NEW b \in Requested, ReadPath(m, b)
      PROVE  NoAccessMode'
  BY <1>1 DEF ReadPath, NoAccessMode
<1>2. WriteStep => UNCHANGED mode
  BY DEF WriteStep, OWrite, writeToStash, SkipEmpty, OPlace, OGrow, OOverflow,
         Place, Grow, Overflow, Drop, call
<1>3. ReadStep \/ RebuildStep \/ AbortStep => UNCHANGED mode
  BY DEF ReadStep, ReadHit, ReadMiss, AddZero, AddGrow, AddFail, RebuildStep, RebuildCell,
         AbortStep, Abort, call
<1>4. PushPath => mode' = "OAccess"
  BY DEF PushPath
<1>5. InitLevel \/ SkipLevel \/ ClearPath \/ OCompressStash \/ compressStash \/ UNCHANGED vars
        => UNCHANGED mode
  BY DEF InitLevel, SkipLevel, ClearPath, OCompressStash, compressStash, vars, call
<1> QED
  BY <1>1, <1>2, <1>3, <1>4, <1>5, AccessCases DEF Next, Step, NoAccessMode

LEMMA NoneDropped ==
  ASSUME TypeOK, NoAccessMode, [Next]_vars, ~overflowed'
  PROVE  ~Drop
<1>1. ASSUME SkipEmpty \/ OPlace \/ \E pace \in Growths : OGrow(pace)
      PROVE  UNCHANGED dropped
  BY <1>1 DEF SkipEmpty, OPlace, OGrow, count
<1>2. OAccess \/ OAccess_S \/ OAccess_F => UNCHANGED dropped
  <2>1. \A pace : ~OOverflow(pace)
    BY DEF OOverflow
  <2>2. OWriteToStash \/ OWriteToStash_S \/ OWriteToStash_F => UNCHANGED dropped
    BY <1>1, <2>1 DEF OWriteToStash, OWriteToStash_S, OWriteToStash_F, OWrite, Growths
  <2>3. ReadStep \/ RebuildStep \/ AbortStep => UNCHANGED dropped
    BY DEF ReadStep, ReadHit, ReadMiss, AddZero, AddGrow, AddFail, RebuildStep, RebuildCell,
           AbortStep, Abort, count
  <2> QED
    BY <2>2, <2>3, ReadCases, RebuildCases DEF OAccess, OAccess_S, OAccess_F
<1>3. ~access
  BY DEF access, NoAccessMode
<1>4. ASSUME NEW m \in Modes \cap Accesses, NEW b \in Requested, ReadPath(m, b)
      PROVE  UNCHANGED dropped
  BY <1>4 DEF ReadPath, count
<1>5. ASSUME \/ InitLevel \/ SkipLevel \/ ClearPath \/ OCompressStash \/ compressStash
             \/ PushPath \/ UNCHANGED vars
      PROVE  UNCHANGED dropped
  BY <1>5 DEF InitLevel, SkipLevel, ClearPath, OCompressStash, compressStash, PushPath, vars, count
<1>6. UNCHANGED dropped
  BY <1>2, <1>3, <1>4, <1>5 DEF Next, Step
<1> QED
  BY <1>6 DEF Drop, TypeOK

\* "As long as the stash has room, OAccess is a lookup in the store": a caller
\* that never uses access, and whose stash refuses no block, is answered by a
\* store that never loses a block, compressed between two accesses or not.
THEOREM PoramServesStore ==
  ASSUME "access" \notin Modes
  PROVE  Spec /\ []~overflowed => ServesStore
<1>1. Init => NoAccessMode
  BY DEF Init, NoAccessMode
<1>2. LossyInv /\ NoAccessMode /\ [Next]_vars => NoAccessMode'
  BY ModeStep
<1>3. LossyInv /\ NoAccessMode /\ [Next]_vars /\ ~overflowed /\ ~overflowed'
        => [PORAM!Serve]_(PORAM!vars)
  BY StoreNext, NoneDropped DEF StoreOutcome, LossyInv, Shape
<1> QED
  BY LossyInit, LossyStepInv, <1>1, <1>2, <1>3, PTL DEF Spec, ServesStore, PORAM!Spec
================================================================================
