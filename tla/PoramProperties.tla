---------------------------- MODULE PoramProperties ----------------------------
(***************************************************************************)
(* What must hold of a PORAM instance.  While an access runs, the buckets   *)
(* of its path are stale in the tree: their blocks are the ones still to be *)
(* moved out of Path, or in the stash, or already moved back into Path.     *)
(***************************************************************************)
EXTENDS Poram

Busy == pc \in {"write", "read", "add", "clear", "rebuild", "compress", "push"}

OnPath(n)     == n = NodeOn(leaf, n[1])
Pending(l, s) == l > lvl \/ (l = lvl /\ s >= slot)
PathLive(l, s) == \/ pc = "write" /\ Pending(l, s)
                  \/ pc \in {"rebuild", "compress", "push"}

TreeHolds(n, s) == OblivSK[n][s] # DUMMY_FLAG /\ ~(Busy /\ OnPath(n))
StashHolds(k)   == stash[k] # DUMMY_FLAG
PathHolds(l, s) == Path[l][s] # DUMMY_FLAG /\ PathLive(l, s)

InSomeBucket(b)   == \E n \in Node, s \in Slot : TreeHolds(n, s) /\ OblivSK[n][s].id = b
InSomeCell(b)     == \E k \in InUse : StashHolds(k) /\ stash[k].id = b
InSomePathCell(b) == \E l \in Level, s \in Slot : PathHolds(l, s) /\ Path[l][s].id = b

Absent(b) == ~InSomeBucket(b) /\ ~InSomeCell(b) /\ ~InSomePathCell(b)

--------------------------------------------------------------------------------
\* Every variable keeps its shape.
TypeOK ==
  /\ pc \in {"init", "idle", "write", "read", "add", "clear", "rebuild",
             "compress", "push", "aborted"}
  /\ OblivSK \in [Node -> [Slot -> Cell]]
  /\ stash \in [StashPos -> Cell]
  /\ length_st \in Nat
  /\ pos_map \in [Bid -> Leaf]
  /\ Path \in [Level -> [Slot -> Cell]]
  /\ mode \in Accesses
  /\ bid \in Bid
  /\ leaf \in Leaf
  /\ lvl \in Level
  /\ slot \in Slot
  /\ pos_st \in Nat
  /\ flag_start \in Nat
  /\ nFailed \in Nat /\ global_added \in Nat /\ dropped \in Nat
  /\ overflowed \in BOOLEAN
  /\ answer \in [bid : Bid \cup {-1}, data : {"copied", "zeroed", "none"}]

\* The loops over the stash stay inside its allocation, whatever the order of
\* growths (by 5 or by 8), undos (by 8) and compressions.
StashInBounds == /\ DEFAULT_STASH_LENGTH <= length_st
                 /\ length_st <= MAX_STASH_NUM

\* A block lies on the path to the leaf that the position map gives it, and
\* carries that leaf: the next access to it will find it, and the asserts of
\* ORebuildStash and readFromStash on the position hold.
TreePlacement ==
  \A n \in Node, s \in Slot : TreeHolds(n, s) =>
    LET c == OblivSK[n][s] IN c.pos = pos_map[c.id] /\ n = NodeOn(c.pos, n[1])

StashPlacement ==
  \A k \in InUse : StashHolds(k) => HoldsPos(k)

PathPlacement ==
  \A l \in Level, s \in Slot : PathHolds(l, s) =>
    LET c == Path[l][s] IN c.pos = pos_map[c.id] /\ NodeOn(c.pos, l) = NodeOn(leaf, l)

Placed == TreePlacement /\ StashPlacement /\ PathPlacement

Placement == ~overflowed => Placed

\* A block has at most one live copy, wherever it is on its way: the assert of
\* OReadFromStash, and that an access never reads an outdated copy.
OneInTree  == \A n, m \in Node, s, t \in Slot :
  TreeHolds(n, s) /\ TreeHolds(m, t) /\ OblivSK[n][s].id = OblivSK[m][t].id => n = m /\ s = t

OneInStash == \A k, m \in InUse :
  StashHolds(k) /\ StashHolds(m) /\ stash[k].id = stash[m].id => k = m

OneInPath  == \A l, m \in Level, s, t \in Slot :
  PathHolds(l, s) /\ PathHolds(m, t) /\ Path[l][s].id = Path[m][t].id => l = m /\ s = t

TreeNotStash == \A n \in Node, s \in Slot, k \in InUse :
  TreeHolds(n, s) /\ StashHolds(k) => OblivSK[n][s].id # stash[k].id

TreeNotPath == \A n \in Node, l \in Level, s, t \in Slot :
  TreeHolds(n, s) /\ PathHolds(l, t) => OblivSK[n][s].id # Path[l][t].id

StashNotPath == \A k \in InUse, l \in Level, t \in Slot :
  StashHolds(k) /\ PathHolds(l, t) => stash[k].id # Path[l][t].id

Single == /\ OneInTree /\ OneInStash /\ OneInPath
          /\ TreeNotStash /\ TreeNotPath /\ StashNotPath

AtMostOneCopy == ~overflowed => Single

\* No block is left behind the end of the stash in use, where no loop looks.
StrandedFree == \A k \in StashPos : length_st <= k => Empty(k)

NothingStranded == ~overflowed => StrandedFree

\* No assert of an access fails as long as no block was refused by the stash.
NoAbort == ~overflowed => pc # "aborted"

\* What makes the above inductive.  While Init_OCU runs, the stash is empty and
\* the tree holds only blocks of the chunks already placed; until it gets its
\* new leaf, the requested block still has the leaf of the path that was read;
\* after a miss it is nowhere.
InitClean ==
  pc = "init" => /\ \A k \in StashPos : Empty(k)
                 /\ \A n \in Node, s \in Slot :
                      OblivSK[n][s] # DUMMY_FLAG => OblivSK[n][s].id < flag_start

LeafKept == pc \in {"write", "read"} => leaf = pos_map[bid]

MissedAbsent ==
  pc = "add" =>
    /\ \A n \in Node, s \in Slot : TreeHolds(n, s) => OblivSK[n][s].id # bid
    /\ \A k \in InUse : StashHolds(k) => stash[k].id # bid

Safe == /\ Placed /\ Single /\ StrandedFree
        /\ InitClean /\ LeafKept /\ MissedAbsent
        /\ pc # "aborted"

SafeUntilFull == ~overflowed => Safe

\* The blocks that are nowhere are those Init_OCU found no room for, less those
\* that were added as zeroes since, plus those writeToStash dropped.
Conservation ==
  ~overflowed /\ pc # "init" =>
    Cardinality({b \in Bid : Absent(b)}) + global_added = nFailed + dropped

\* The rebuild leaves no block in the stash for which the path has room.
Evicted == pc \in {"compress", "push"} =>
             \A k \in InUse, l \in Level :
               ~Empty(k) /\ NodeOn(pos_map[stash[k].id], l) = NodeOn(leaf, l)
                 => \A s \in Slot : Path[l][s] # DUMMY_FLAG

\* The comment above access, FOSketch.h:1806: of (- x) and (...+y...), the
\* blocks that found no room and the blocks added, "x should not smaller
\* than y".
AddedWithinFailed == global_added <= nFailed

\* OReadFromStash, FOSketch.h:1439: assert(!(found&&cond)).
OReadAssertHolds == pc = "read" /\ mode = "OAccess" => FoundOnce

--------------------------------------------------------------------------------
(* The store that the accesses see.                                         *)

Copies(b) ==
  {OblivSK[a[1]][a[2]] : a \in {a \in Node \X Slot :
     TreeHolds(a[1], a[2]) /\ OblivSK[a[1]][a[2]].id = b}}
  \cup {stash[k] : k \in {k \in InUse : StashHolds(k) /\ stash[k].id = b}}
  \cup {Path[a[1]][a[2]] : a \in {a \in Level \X Slot :
     PathHolds(a[1], a[2]) /\ Path[a[1]][a[2]].id = b}}

StoreView == [b \in Bid |->
  IF Copies(b) = {} THEN "missing" ELSE (CHOOSE c \in Copies(b) : TRUE).data]

PORAM == INSTANCE SketchStore WITH store <- StoreView, filled <- pc # "init"

\* As long as the stash has room, OAccess is a lookup in the store: it returns
\* the block copied at the start, and never loses one.
ServesStore == PORAM!Spec

\* Until a block is refused, every access, of any kind and debug or not, is a
\* lookup in a store that may forget blocks: a lost block, which the next access
\* finds as zeroes, is the only way an answer can be wrong.
LossyUntilFull == PORAM!Init /\ [][~overflowed => PORAM!LossyStep]_(PORAM!vars)

--------------------------------------------------------------------------------
\* Every access ends: the scans that lengthen the stash they scan do too.
AccessEnds == pc = "write" ~> pc \in {"idle", "aborted"}

\* "if access enough times, they muse be equal!" (FOSketch.h:1806)
EveryBlockAccessed == \A b \in Requested : SF_vars(ReadPath("OAccess", b))

AddedCatchesUp == EveryBlockAccessed => <>[](global_added = nFailed)
================================================================================
