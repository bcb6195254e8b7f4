# FO-Sketch: specifications and proofs

FO-Sketch keeps a network-measurement sketch inside an SGX enclave and answers
queries from it without showing, by its memory accesses, which flow was asked
for. This directory holds TLA+ specifications of the parts of it whose
correctness is hard to see from the code or from a test, the TLC
configurations that check them on small instances, and TLAPS proofs of their
safety properties for all instances. Paths are relative to the root of
the repository; `FOSketch.h` is `src/FOSketch/Enclave/FOSketch.h`.

## 1. The system

| part | source | state | operations |
|---|---|---|---|
| PORAM (`class FOSketch`) | `FOSketch.h` 961-2200 | tree of buckets `OblivSK`, `stash` and its length `length_st`, `pos_map` | `Init_OCU`, `OAccess`, `access`, `OAccessFID`, burst drivers, `free_OCU` |
| message queue | `Common/Queue.c`, `Common/Spinlock.h` | doubly linked list, `nMsg`, lock byte | `push_back`, `push_front`, `pop_back`, `pop_front` |
| sorting networks | `OPrimitive.h` 485-920 | the array being sorted | `sort` and `merge` of `OddEvenMergeSorter` and `BitonicSorter` |
| oblivious primitives | `OPrimitive.h` 24-480 | none | `OMove`, `OMoveEx`, `OGet`, `OAdd256`, `OMaxSet...` |
| light part update | `FOSketch.h` 434-745 | `pDataCUSketch`, working array | `OUpdateCUSketch`, `_B`, `_BEx` |
| heavy change | `FOSketch.h` 145-310, `OPrimitive.h` 924-961 | bucket table, overflow buckets, `HeavyChangeList` | `OHeavyChange`, `ODelta` |
| flow size distribution | `OPrimitive.h` 963-1029, `Enclave.cpp` 60-180 | `CountLight`, `CountHeavy` | `OItemCountDist_*`, `OCountDist` |
| stash table | `FOSketch.h` 91-143, `Enclave.cpp` 334-364 | `pDataStashTable`, `pStashHeavy`, `countStash` | `OBuildSTable`, `BuildSTable_NO` |
| epoch and responses | `FOSketch.h` 749-954 | all of the above, `HeavyHitterList`, hash seeds | `OPrepareData`, `OResponseHeavyHitter`, `OResponseHeavyChange` |
| test driver of the enclave | `Enclave.cpp` 394-718 | the two global sketches, `noMoreTest` | the phases of `ecall_fos_test` |
| messages | `Common/Message.c`, `Common/CommonUtil.c` | IV of the context, payload | `pack_message`, `unpack_message`, `incr_ctr` |
| application | `App/App.cpp` | options, sketch file | `main`, `FOS_test_ecall` |

**How they interact.** The application reads two sketches from files, packs
them into one message, and calls `ecall_fos_test` once per phase. Phase 0 runs
`OPrepareData`: decrypt, merge the light parts, sort the heavy parts together,
compute heavy changes, push the lower half of the heavy part into the light
part, count the distributions, build the stash table. Phase 2 builds two PORAM
instances, one from the light part and one from the stash table; both take
over and free the buffer they are built from. Phase 4 looks flows up: the
stash-table instance also scans `pStashHeavy`. Phase 6 frees the instances.
All of this is sequential. The message queue is the concurrent part; it is
compiled into both sides, for the message passing that `Enclave.cpp` 19-21 has
commented out.

**What makes each part correct, and what is hard about it.**

* PORAM: an access finds the block that the sketch had at that place. This
  rests on an agreement of position map, tree, stash and local path that holds
  only between certain statements; on a stash whose length changes in the
  middle of the loops that scan it (by 5 in one function, by 8 in the others);
  and on what happens to a block that finds no room. None of it shows in a test
  until a block that went astray is asked for again.
* Queue: the list stays a list, each message is in one place, every path out
  of an operation returns the lock, and the one unlocked look (`pop_back`) does
  no harm.
* Networks: they sort, for every length their callers use, and `merge` gets the
  kind of input it needs. The recursions halve, or split at a power of two, with
  directions chosen by the caller; a mistake for one odd length shows on few
  inputs.
* Light part update: every counter becomes the maximum of itself and of the
  flows that hash to it.
* Heavy change: every flow of either epoch is in the result with the absolute
  difference; the two-level bucket table drops none.
* Stash table: every heavy flow that was placed is in the table or in the stash,
  where a lookup will read it, also when the construction stops half-way.
* Epoch: what the two switches reported is an upper heavy hitter, or a counter
  that is large enough; no answer is built from memory that holds no items.
* Driver: the enclave touches only memory that is there, each buffer is freed
  once, accesses read the data of this round's epoch, and the program ends
  although nobody looks at the status of an ecall.
* Messages: each message has a vector of its own.

`PROJECT.json` lists the hazards, one by one, at their lines.

## 2. The modules

### `Poram`: one PORAM instance

The code is sequential; an action is one iteration of one of its loops, so that
the state *between* the iterations, where the stash grows, is part of the model.
The four accesses `OAccess`, `OAccess_S`, `OAccess_F` and `access` are three calls
each, and each of these functions has the name it has in the code.

| model | code |
|---|---|
| `OblivSK`, `stash`, `length_st`, `pos_map`, `Path` | the fields and locals of these names |
| `InitLevel`, `SkipLevel` | the loop over the levels in `Init_OCU`: as many blocks as the level has buckets take random leaves, are sorted by leaf and go to their bucket; those that find it full are counted in `nFailed` and forgotten |
| `ReadPath` | the start of every access: `pos_map`, `readPath` |
| `OWriteToStash`, `_S`, `_F` | `SkipEmpty`, `OPlace`, `OGrow`, `OOverflow`: first empty cell, growth, refusal. The first grows by `PACE_STASH` and undoes 8, the others grow by 8 |
| `writeToStash` | `SkipEmpty`, `Place`, `Grow`, `Overflow`, `Drop`: the search resumes at `pos_st` |
| `readFromStash`, `OReadFromStash`, `_S`, `_F` | `ReadHit`, `ReadMiss`, `AddZero`, `AddGrow`, `AddFail`; they differ in what they assert (`FoundOnce`, `FoundAtPos`) |
| `rebuildStash`, `ORebuildStash`, `_S`, `_F` | `RebuildCell`: leaf to root, cell by cell; they assert the positions of all blocks in use or of those they pass, and only `ORebuildStash` compresses |
| `OCompressStash` | called by `ORebuildStash` when `needComStash` |
| `compressStash` | a public method that nothing in the program calls; modelled as a call between two accesses |
| `PushPath` | `pushPath` and the return |
| `ReadAbort`, `RebuildAbort` | a failing `assert` |

What is abstracted: a block's counters are one of *copied* (from the sketch) or
*zeroed* (added on a miss); a bucket is named by its level and the leading bits
of the leaf instead of its offset; sorting is "some order by the key", because
the networks are not stable; the random leaf is any element of `Draws`. The
oblivious reads that scan everything and keep one value are the one read.
`nFailed`, `dropped` and `overflowed` count what the code prints. `dropped` is
an observation of the model: the code does not count the blocks that
`writeToStash` and `OWriteToStash` leave out.

`assertsOn` distinguishes the two builds that `FOSketch.h` 12-14 speaks of: the
committed one, in which `assert` is empty, and the debug one, in which a
failing assert aborts the enclave.

`SketchStore` is the abstract specification: a read-only array of blocks, some
missing from the start, where an access to a missing block makes it a zero
block. `LossyStep` also allows it to forget a block. `PoramProperties` maps the
one to the other: the content of a block is that of its live copy, which is in
the tree (outside the path being served), in the used part of the stash, or in
the live part of the local path.

### `Queue`: the message queue

Any number of threads; each call is cut where another thread can observe it:
the writes before the lock, the exchange that takes it, the change of the
links, the change of `nMsg`, the release, and the clearing of the popped message
*after* the release. `lock` is the byte that `spin_lock` exchanges; a thread
that finds it taken spins and has no step. `held` is the callers' contract: a
message is pushed by the thread that owns it, and popped into the ownership of
the thread that pops. Where `pop_back` would read through a NULL pointer, the
model lets the process die (`Crash`).

`MessageDeque` is the abstract specification, a double-ended queue with atomic
operations: a call is pending (`call`) until its operation happens at the end of the
queue that its name says, "back" being the bottom, with the message a push was given
(`new_msg`), and a pop answers NULL only when the queue is empty. `QueueProperties`
states the refinement, with the change of the links as the instant at which an
operation happens; a crash ends all pending calls (`Die`).

### `SortNet` and `Sorting`: the networks

`SortNet` gives the networks as sequences of the calls `compare(i, j, dir)` they
make, by recursive functions that follow the recursions of `OPrimitive.h`:
`oddEvenMergeSort`, `oddEvenMerge`; `bitonicSort`, `bitonicMerge` (whose loop is
`HalfCompare`); `paddedSort`, `paddedMerge` for `BitonicSorter_CDist`. `OSwap` is
the exchange through `tmp`. `Sorting` is one call of `sort` or `merge`; its action
`Compare` is one compare. `Accepts` is the early return of the odd-even sorter;
`Padded` the copy into a longer array filled with the largest key. An element is
a key and the place it came from, so that a lost, doubled or torn element can be
told from a permutation. Powers of two come from the function `Doubled`, because the
provers know nothing of `^`.

`BitonicSorter_CDist` has no caller in the code that is compiled in; it is
modelled because it is the variant that pads.

### `LightUpdate`: the light part update

| model | code |
|---|---|
| `light`, `pHeavy` | the arguments; a flow is the counter it hashes to (`cid`), any of them |
| `dump`, `tmpB`, `cond`, `i` | the locals of these names |
| `Fill` | the loops that fill `dump`, with light blocks, heavy blocks, dummies |
| `SortHeavy`, `Merge`, `SortAll` | the calls of `sort` and `merge`, as the folds of their networks |
| `Scan`, `ScanLast` | one iteration of a scan, `OMaxSetMemCL` included; the call behind the loop |
| `WriteBack` | the copy into `pLight` |
| `UpdateItem` | one iteration of `UpdateCUSketch_NO` |
| `UpdateByScan` | `UpdateCUSketch_Scan`, the plain version that goes through all counters for every item |

The five versions differ in what they fill, sort and scan; `call` says which one
runs. `OUpdateCUSketch_B` and `OUpdateCUSketch_BEx` differ in that the latter
folds the heavy blocks first and then merges instead of sorting everything.
Memory that the code leaves uninitialised (the data of dummy blocks, `tmpB`) is
`0` or `255`, chosen at `Fill`. The light part is a multiple of the block (60
counters by default, 1 or 2 here). Block numbers are of one byte here, so that the
byte-wise maximum which `OMaxSetMemCL` takes of them too is their maximum. `cond`
is one byte, as declared; that the assembly tests four bytes is a hazard listed
in `PROJECT.json` that no module covers.

### `CountDist`: the flow size distribution

`OItemCountDist_DESC`, `OItemCountDist_ASC` and `OCountDist` differ in the order
of their list (`Passes`) and in the network they sort with (`SortNetwork`).
`Scan` is one iteration of their loop, `ScanLast` the statements behind it,
`Sort` the call of the sorter. The plain functions of `Enclave.cpp` fill the same
array: `CountInMap` is `TestHeavyCountDist_NO_MAP`; `CountItem` is one item of
`TestHeavyCountDist`, `_NO` and `_NO_ORD`, with the break in `_NO` that leaves only
the inner loop, and the `uint16_t` in which `_NO_ORD` keeps the size of the run
(`HALFWORD` scales its width).

### `HeavyChange`: which flows have changed

`HeavyList` holds what this module and the next two share: the two lists of
`NUM_HEAVY` items, one behind the other, and `pc`, the function that runs. An
action puts one item into the bucket table: the lower list first (`InsertPrevious`),
then the upper one, which may overflow into a larger bucket (`SpillBucket`, then
`InsertTmp`). The random shuffles are a choice of the next item; `btHash` is any
function of `BtHashes`. `loca` is the byte that `SpillBucket` writes over the first
byte of the bucket, the copy goes to `tmpCount * STRIDE` and later items to `loca *
maxsizeBucket`, as in the code. `PreviousFull`, `NoTmpBucket` and `TmpBucketFull`
are the three ways to give up; `HeavyChangeList` then holds the shuffled pairs
(`Raw`) that it has held since the beginning. However the call ends, its table is out of
reach (`ForgetTable`); that a call which gives up does not free it is in `Driver`. `Collect` applies `ODelta` to every
bucket and sorts by the network. `TestHeavyChange_NO_MAP` is the plain version of
`Enclave.cpp`, used as the reference.

### `StashTable`: the table of heavy flows

`PlaceItem`, `StashItem`, `StashFull` and `EndBuild` are the iterations of
`OBuildSTable` and `BuildSTable_NO`, told apart by `builder`; the former shuffles and
renumbers the flows, the latter counts its stash in a local variable
(`countStash_no`) that `OAccessFID` does not see. `pDataStashTable` and `pStashHeavy`
come from `malloc`: a slot that was never written is `Raw`, and a lookup may match
it with any size. `OAccessFID` reads the block of the flow's bucket, which may have
been lost by the PORAM underneath (`LoseBlock`: this is the promise of
`SketchStore!LossyStep`, in place of a whole `Poram`), and then the stash.

### `Epoch`: `OPrepareData` and the responses

`Epoch` extends `HeavyChange` and `StashTable` and runs them in the order of
`OPrepareData`: `ReceiveFails` (all of its early returns) or `Receive`, `MergeHeavy`
(through the networks, for both kinds of length), the steps of `HeavyChange`,
`UpdateLight`, `CountAll`, the steps of `StashTable`. The update of the light part
and the distributions are one step each. The distributions have the result that
`DistExact` establishes in its own module. The update has the one `LightUpdated`
establishes if the number of light blocks, `numEBlock`, is a power of two
(`ExactUpdate`); for other numbers, as the default 7680 is, run `light_default` shows
that counters come out wrong, and `UpdateLight` leaves any counters. The response to a request for heavy
changes compares with a float computed from `Cardinality`; any threshold of
`Thresholds` stands for it. After a failure to receive, the old epoch goes on being
served, as in the code.

### `Message` and `Driver`: the program around the sketches

`Message` has `incr_ctr` byte by byte, `pack_message` and `unpack_message`; AES-GCM is
a box that opens under the same key and vector. `Driver` is `main`, `FOS_test_ecall`
and the seven phases of `ecall_fos_test`. `OPrepareData` adds to the heap what its
two builds leave there when they give up (`LeftBy`): the list of pairs of `OBuildSTable`
(`FOSketch.h` 128), and `idcList` and the bucket table of `OHeavyChange` (174 and 176, not
freed on the returns at 187, 226 and 238). What it keeps of the enclave is the life
of its memory: `heap` are the live blocks, by what they are and the round that
allocated them, `ptr` the global pointers, `sketch` the two objects, with the block
each holds and the round of the data in it. Each phase is an action, or several where
it may fail: `PrepareFails` and `OPrepareData`, `Generate` and `GenerateFails` (one
of the trees has too many levels, `initFails`), `GenerateCrashes` (nothing to copy),
`BurstAccess`, `ShortInfo`, `FreeSketches`; to use or free a block that is not there
is `Crash`. `CallFails` is an ecall that returns an error without having run, whose
status nobody reads; `faulty` and `starved` remember in which rounds ecalls and the
`malloc` of phase 0 have failed.

## 3. What TLC checks

`DEFAULT_STASH_LENGTH = 5`, `PACE_STASH = 5`, growth 8 and `MAX_STASH_NUM = 105`
are scaled to 1, 1, 2 and 3 or 6: the pace stays smaller than the undo, which is
what the interesting cases depend on, and the stash is small enough to overflow.
Trees have two levels with three blocks or three levels with four: the
smallest in which two leaves have different paths, and in which a bucket lies
strictly between root and leaf. With three blocks `Init_OCU` fills two levels
(3 = 11 in binary), with four only the leaves; buckets of one cell make it
drop blocks, buckets of two fill partially. `AddedBound` stops the caller after
so many blocks added as zeroes; only where blocks can be lost again is this a
real bound, because otherwise no more can be added than `Init_OCU` dropped.
Those runs have `CHECK_DEADLOCK FALSE`, as does `poram_overflow`, where
an assert may also end the program.

| run | instance | shows |
|---|---|---|
| `poram_oaccess` | 3 blocks, buckets of 1, stash 6; `OAccess` with compression, `OAccess_S`, `OAccess_F` and `compressStash` in any mixture; asserts on; `FairSpec` | `Placement`, `AtMostOneCopy`; `Conservation`: blocks missing + added = failed in `Init_OCU` + dropped; the accesses implement `SketchStore!Spec`; `AccessEnds`; `AddedCatchesUp`: the comment's "if access enough times, they must be equal" |
| `poram_overflow` | 4 blocks, 3 levels, buckets of 2, stash 3; `OAccess`, `OAccess_F` and `access` in any mixture; debug build; `AddedBound` 1 | `StashInBounds` and `Evicted` also after overflows; before the first, `SafeUntilFull`, the inductive invariant of section 4 (which contains that no assert has failed), `Conservation` with the blocks `writeToStash` drops, and `LossyUntilFull`: a lost block is the only way an answer can be wrong |
| `queue_one_consumer` | 3 threads, 3 messages; one thread pops; `FairSpec` | `MutualExclusion`, `OnePlace`, `CountExact`, `NoNullDeref`, refinement of `MessageDeque`, each operation at its end; `SomeoneEnters`: nobody keeps the lock |
| `queue_all` | 3 threads, 2 messages, every thread uses every operation | `WellLinked`, refinement, all up to a crash; may stop (`CHECK_DEADLOCK FALSE`) |
| `sorting` | every sorter, lengths up to 8, keys 0 and 1 | `ComparesInArray`, `Rearranged`, `SortedAtEnd` |
| `light_update` | eleven calls of the five versions, 1 to 4 light blocks, 2 to 4 heavy items, collisions, sizes above the largest counter; BEx with 1, 2 and 4 light blocks | `LightUpdated`, and at the steps between: `NothingBehindMerge`, `OnePerBlock` |
| `count_dist` | every ordered list of 1 to 8 items of 4 sizes, three versions; every list of up to 5 items in any order, four plain versions, sizes from 3 on too large for a half word | `ScanExact`, `DistExact`, `PlainExact` |
| `epoch` | 4 heavy items in each list, 6 flows, 5 messages; 4 buckets of 1, two overflow buckets of 3; stash table of 2 buckets of 2, stash 1; 4 counters in 4 blocks, a power of two; hash functions that spread and that collide; both builders | `SameBucket`, `ChangesExact`, `PlacedIsThere`, `LookupExact`, `ListMerged`, `NothingForgotten`, `ResponseSound` |
| `driver` | 4 pairs of options, all combinations of sketches that cannot be built, up to 2 rounds with failing ecalls or mallocs; bytes of 2 values, vectors of 2 bytes | `LeaksNamed`, `ServesThisRound`, `FreshVector`, `CrashExplained`, `AppEnds` |

The violation runs `poram_assert`, `poram_comment` and `light_default` check one
property each; see below.

By the zero-one principle a comparator network that sorts all arrays of zeroes
and ones sorts all arrays, so two keys are enough for `SortedAtEnd`; lengths up to
8 contain every way in which the recursions split (even and odd, a power of two
and a rest); section 4 has all lengths. The calls of a sequential function end:
`sorting`, `light_update`
and `count_dist` have `CHECK_DEADLOCK FALSE`; so have `driver`, because a program
ends, and `epoch`, because `Epochs` bounds the epochs that begin.

Three threads are the fewest in which two can disturb a third's unlocked look
and each other; three messages the fewest with an inner list element.

In `epoch`, eight items in four buckets with two overflow buckets overflow in each of the
ways the code tells apart: the lower list alone; the upper list into the first
overflow bucket and into the second, whose number and offset are not 0, with further
items for both until they are full; into none, because both are taken; and into one
that is full. Two buckets that share a number, or a copy at an offset other than
`tmpCount * maxsizeBucket`, are then seen: with a `STRIDE` of 2, `SameBucket` is
violated. Three overflowing buckets are needed for the last overflow bucket to be
missing, which with eight items means buckets of one; `ODelta` then compares with at most
one earlier item, and what it does with more is in the proof of `ChangesExact` (section 4)
alone. `STRIDE` is `maxsizeBucket`, as the literal 32 is by default. The messages have
flows in both lists and in one, up and down, equal sizes, empty entries and an empty
sketch, and flows that both switches report among the larger sizes, so that the merged
upper list has them twice. One epoch is enough for every
property, none of which compares two epochs; that the state an epoch starts from
may be that of an earlier one is left to `Driver`, where it matters.

In `driver`, the options contain the default, sizes beyond both limits and sizes that
are exchanged, so that there are one to four rounds. Two faulty rounds are the
fewest in which a failure meets what an earlier one has left. `InitFailures` is a
parameter, because no tree has 16 levels with the default constants. An initial
vector is any vector, so that the counter carries, and wraps.

**Fairness.** `Poram!FairSpec` says that a loop that can take a step takes it;
nothing is assumed of the caller except where `AddedCatchesUp` assumes it in
its own statement, as the comment does ("if access enough times"):
every requested block is asked for again and again. `Queue!FairSpec` says that
each thread is scheduled (weak fairness of the step it is at). Strong fairness
of `Acquire` is *not* assumed: `xchg` on a busy lock may lose for ever, so that
an individual call need not end. What is checked is that somebody gets in.
`Driver!Spec` says that the program runs on: an ecall returns or fails, which is what
its only thread does as long as the process lives (that each loop inside an ecall
ends is `AccessEnds`, and otherwise the bounds of `for` loops).

### Disagreements found

* `poram_assert`. A full stash that may not grow is cut by 8 after it was
  extended by `PACE_STASH = 5` (`FOSketch.h` 1292 and 1299). It ends shorter
  than it began: the blocks behind the new end are no longer scanned, and when
  the stash grows over them again, a block may be in it twice, against
  `assert(!(found&&cond))` at 1439. In the committed build the assert is empty
  and the first copy found is used. `OReadFromStash`, `OWriteToStash_S` and `_F` add
  8 and undo 8, which is right.
* `poram_comment`. The comment at 1806 says that the blocks added (`y`) are
  never more than the blocks `Init_OCU` failed to place (`x`). For `OAccess`
  this is so (it follows from `Conservation` in `poram_oaccess`). For `access` it is
  not: `writeToStash` does not enter its loop once `pos_st` has reached `length_st`
  (1239), so the remaining blocks of the path are dropped without a message, and
  are added as zeroes when they are next asked for.
* `light_default`. With a number of light blocks that is no power of two,
  `OUpdateCUSketch_BEx` gives two *ascending* halves to the bitonic `merge`
  (`FOSketch.h` 644), which needs one of them descending. The loop at 557 runs
  downwards as if to reverse the light blocks, but writes each to its own place.
  The blocks are then not in order when they are scanned, and `pLight` gets
  values of other counters or misses a maximum. The run has 3 light
  blocks and 4 heavy items. The default sizes are of this kind: 460800 counters
  in blocks of 60 are 7680 blocks. `OUpdateCUSketch_B` and the versions on single
  counters, which sort instead of merging, are right for every number
  (`light_update`). `Epoch` assumes the right result only for a power of two.

Behaviour with no statement in the repository to contradict, which the models
contain and the properties are worded around:

* `pop_back` with several consumers reads through NULL when the list is emptied
  between its look at `bottom` (`Queue.c` 90) and the lock. `queue_all` reaches the
  crash. With one consumer it cannot happen, which is checked and proved.
* A slot of `pDataStashTable` that was never written may match a lookup
  (`LookupExact` promises nothing of a block with such a slot, unless the flow is in the
  stash, which is scanned after the block and decides). Flows are numbered 1, 2, 3 ... anew in every epoch, so
  that what an earlier table left in the memory is likely to match.
* `HeavyChangeList` keeps the shuffled pairs of both lists when `OHeavyChange` gives
  up; a `numHeavyChange` of 0, which also means "no change", is the only sign, and
  `OResponseHeavyChange` does not look at it (`ResponseSound` speaks of the answers
  with a positive one).
* `OBuildSTable`'s result is ignored and its list of pairs is not freed when it stops
  half-way; `BuildSTable_NO` leaves a stash that `OAccessFID` does not see.
* The heavy hitters of the last epoch, saved in `CountHeavy`, are overwritten with
  the distribution before anything reads them: the changes are those between the
  two switches. A flow that both report counts twice in `HHCountDistinct`.
* Before a bitonic merge of the heavy lists (a number that is no power of two, which the
  default is not), the list is reversed with an index that is one too high
  (`ReverseFirst`). This is modelled but evaluated by no run, and `ListMerged` is proved for
  powers of two alone.
* `TestHeavyCountDist_NO` leaves entries behind that nobody should read, and
  `TestHeavyCountDist_NO_ORD` is wrong for sizes beyond 16 bits; `PlainExact` says
  exactly this.
* After a phase 0 that failed, phase 2 copies from a NULL pointer and the enclave ends
  (`CrashExplained` admits it in that round only). If moreover the ecall of phase 2
  of the round before was lost, its buffers are still there and the sketches are
  silently built from the old epoch: `ServesThisRound` therefore holds only as long as no
  ecall has failed. When an init fails, an object of `new` is freed with `free`; the
  objects are never deleted. When `OHeavyChange` gives up, its `idcList` and bucket table
  are not freed either. `LeaksNamed` says that no other kind of block is lost unless a
  call has failed or a sketch could not be built.

`tlc -config poram_oaccess.cfg MCPoram`, and so on; `MCPoram`, `MCQueue`, `MCSorting`,
`MCLightUpdate`, `MCCountDist`, `MCEpoch` and `MCDriver` are the root modules.
`poram_overflow` takes about two minutes, `epoch` half a minute, the others less. Each
property has been seen to fail on a mutant of the code; these are the definitions
commented "Mutant", paired with properties in `PROJECT.json`.

## 4. What is proved

`tlapm` checks the theorems of the eight modules below for *every* value of the
constants that the assumptions admit. All invariants and action properties of the
passing runs are among them, and the three refinements; `PROJECT.json` lists which
theorem states which property. Type invariants are proved here and are not among
the properties of the runs.

An induction theorem takes an operator as its parameter, which no installed prover
can instantiate. Where a proof goes by induction over a number it takes the least
counterexample instead (`LeastNat`, or `AllNat`, `UpTo`, `LoopKeeps` on a *set* of
numbers); and since a recursive function `f[n] == ...` is known to satisfy its equation
only if some function does, that too is proved (`RecursionExists` for a recursion on
a measure, `LoopExists` for a loop).

### `PoramProofs`: one PORAM instance, all four accesses in any mixture

* `TypeCorrect`, `StashStaysInBounds`: unconditional, also after overflows.
* `SafeUntilFullHolds`, and from it `PlacementHolds`, `AtMostOneCopyHolds`,
  `NothingStrandedHolds`, `NoAbortHolds`: as long as no block has been refused
  (`~overflowed`), live blocks are on the path of their leaf and carry it, have
  one copy, are in the scanned part of the stash, and no assert has failed.
* `EvictedHolds`: after the rebuild no block is left in the stash for which the path
  has room; unconditional. The invariant (`FilledSoFar`) says of every block
  still in the stash that the cells already visited of the levels it could live in
  are taken.
* `ConservationHolds`: blocks missing + added = failed in `Init_OCU` + dropped.
* `PoramIsLossyStore`: until the first refusal, every step is one of the `SketchStore` that
  may forget blocks at any time, which is what `access` does where `writeToStash` drops
  the rest of a path (section 3); a block forgotten reads as zeroes from its next access
  on. Nothing is said of the time after a refusal, in particular not that a caller is
  told.
* `PoramServesStore`: as long as no block is refused, and if the caller does not use
  `access` (`"access" \notin Modes`), the steps are those of the store that never
  forgets. Whether a block is ever refused is a matter of probability with real trees,
  which have many more blocks than the stash has cells.

The argument. `Shape` (types and bounds) is inductive by itself. `Placement` and
`AtMostOneCopy` are not: what is live depends on where the access stands. The
inductive invariant `Safe` adds to them: while `Init_OCU` runs, the stash is
empty and the tree has only blocks of the chunks already placed (`InitClean`);
until the requested block gets its new leaf, the path read is that of its leaf
in the position map (`LeafKept`); after a miss, the block is nowhere
(`MissedAbsent`); behind the end of the stash there is nothing
(`StrandedFree`), which is what makes a growth harmless. The condition
`~overflowed` is needed: section 3 shows a behaviour that violates the rest
once a block has been refused.

For `Conservation` and the refinements each action is described by what it does to
`Held(b, d)`, "block `b` is live somewhere with the data `d`": it keeps it (`Kept`), gives it
one block more, or takes one away (`Loses`). What is moved from one structure to
another must not be overwritten where it arrives: the cells of the path still to be
filled are empty (`PathAhead`), and so are the levels still to be filled by `Init_OCU`
(`LevelsEmpty`), which has taken as many blocks as the leading bits of `nBlock` say
(`FlagSoFar`). The count then changes by the cardinality of one set with one element
more or less, and the view of the abstract store is a function of `Held`.

Assumptions: the height of the tree is the logarithm of the number of blocks
(`TreeAssumption`, as `Init_OCU` computes it); powers of two are positive
numbers and double (`PowerAssumption`: a fact of arithmetic, which the provers do not
know of `^`, and which TLC evaluates in every run); the pace is at most the undo, and
the stash has room for one growth beyond the default length (`StashAssumption`;
without it the cut by 8 could fall below zero); the caller asks for blocks
that exist and leaves are leaves (`ModeAssumption`).

### `QueueProofs`: any threads, any finite set of messages, any use of the operations

* `QueueTypeCorrect`: also that no call reads a local before it assigned it.
* `QueueMutualExclusion`; its inductive companion is that a crash takes all
  threads at once.
* `OneConsumerNoNullDeref`: if at most one thread pops, `pop_back` never reads
  NULL. Inductive invariant `StillThere`: between the unlocked look and the
  read the list is non-empty, because the only thread that could empty it is the
  one that is looking.
* `QueueWellLinked`, `QueueOnePlace`, `QueueCountExact`, `QueueRefinesDeque`: the list is
  one chain in both directions, each message is in it once or owned by one thread, the
  counter is its length, and every step is one of the abstract deque or a stutter: a
  call is pending from its start to its change of the links (`PendingAfter`). The
  invariant (`ListInv`) is that *some* sequence of messages is the list (`IsList`), contains
  what no thread holds (`Placed`), and is as long as `nMsg` says, one off while a thread
  is between the links and the count (`Counted`). There is only one such sequence, so
  that it is the `Items` of the refinement. `FiniteMessages` is needed because a chain
  without repetition is shorter than the number of messages.

### `NetProofs`, `SortProofs`: the networks, for every length

* `SortComparesInArray`: every compare is of two different places of the piece that
  was asked for, by induction over the four recursions.
* `SortRearranges`: at every step the array is a rearrangement of the input; elements
  differ by their origin.
* `SortSorts`: every sorter returns the array in order. Order is proved one threshold at
  a time: replace each key by whether it reaches `t`, and a compare of keys becomes a
  compare of two truth values (`Follows`), so the array is sorted if for every threshold
  the places that reach it are the last ones. For `bitonicMerge` the piece must be a
  `Valley` or a `Hill`; after `HalfCompare` one half is clean and the other again one of
  them (`CleanValley`), which works at every length because the comparisons are made at
  the distance of the largest power of two *below* the length. `oddEvenMerge` merges the
  even and the odd places and then at most one pair of neighbours is out of order, because
  the two have at most two more elements above the threshold than each other. `paddedSort`
  sorts an array that is longer; its padding is the largest key and stays behind
  the places copied back.

`NetProofs` also holds what the other modules need: that a network applied to an array
gives a rearrangement (`Shuffles`), in order if it sorts, and touches nothing outside its
piece; and the lemmas about loops.

### `CountDistProofs`: every length and every list

* `ScanExactHolds`: what the scan leaves to the sort are the sizes with the
  numbers of their occurrences in the whole list. The inductive invariant says of
  each entry written that its count goes back exactly to where the run of equal
  sizes begins (`RunAt`), and of the locals that they are those of the run of
  the item before (`Locals`). That the order is a strict one (`PassesStrict`) then
  makes a run contain all occurrences of its size (`RunIsAll`).
* `DistExactHolds`: what the sort returns has each size once, ascending and in front; from
  the former and from what the networks do.
* `PlainExactHolds`: the plain functions of `Enclave.cpp`, on lists in any order. In the
  entries written so far each size seen has a first entry, with the number of its
  occurrences so far (`ByItem`); the map version enters size by size, in ascending order
  (`ByMap`).

### `LightProofs`: every light part, every list of heavy items

* `LightUpdatedHolds`: every version leaves in every counter the maximum of its value and of
  the sizes, up to 255, of the items that hash to it; `OnePerBlockHolds`: after the scan
  every light block is there once, with what was wanted. Both under
  `MergesPowers`: `OUpdateCUSketch_BEx` is called with a power of two of light blocks.
  Run `light_default` shows that it is needed; no other version needs it.
* `NothingBehindMergeHolds`: what BEx leaves out of its merge are dummies; unconditional.

The invariant (`LightInv`, by `LightInvariant`) has a part for each stage. Throughout, the *set* of blocks,
together with the one that the scan holds back, has for every counter the wanted value
as its maximum (`Merges`, with `Top` for one counter). A sort keeps it because it
rearranges; a turn of a scan, because the block it empties has been folded into the one it
holds, and that one into the next of the same run. What a stage adds is order: the
blocks from the position on ascend and the live ones before it are below them (`Scanning`),
no live number occurs twice (`Once`), what lies behind a place are dummies (`EndsAt`),
and the light blocks stand at their own places (`LightFirst`). BEx needs them all: its
second sort puts live heavy blocks first, there are at most as many as light blocks since
they are now different, so that the merge leaves none out; and the last sort puts every
light block back at its own place, because all numbers are there and no live one twice
(`AllInPlace`).

### `EpochProofs`: `HeavyChange`, `StashTable`, and epochs of both

About `HeavyChange`, on any two lists, hash function and sizes, with the hypothesis
`STRIDE = maxsizeBucket`, which is what the literal 32 means in the source:

* `SameBucketHolds`, `EpochSameBucket`: every entry that `ODelta` will compare is an item of
  a flow that hashes to its bucket. The invariant (`TableInv`) adds that the buckets that
  have overflowed have different numbers (`Apart`), all below `tmpCount` (`Home`), so that
  the parts of `tmpBucketTable` they use are disjoint and a new one is free.
* `ChangesExactHolds`: what `OHeavyChange` returns, when it does not give up, are the changes
  of `TestHeavyChange_NO_MAP`, largest first. `PlacedInv`: there is a one-to-one map
  from the items put in so far to the filled entries (`Places`), so that nothing is lost
  or doubled in a spill. What `ODelta` leaves of an entry is its item less the items of the
  same flow in the other list (`DeltasAre`); the concatenation of the buckets has one entry
  for each item (`Becoming`), and the sort rearranges. Second hypothesis `EmptyItems`: the
  empty entries of a message have size 0, as in the sketch files.

About `StashTable`, for any list, hash function and sizes:

* `StashTypeOKHolds`: the counts stay within buckets and stash.
* `PlacedIsThereHolds`, `EpochPlacedIsThere`: every item that `OBuildSTable` has placed is
  where a lookup will look, also when the build stops half-way and while blocks are
  lost. `StashInv` adds the types, because that two buckets do not overlap in
  `pDataStashTable` is arithmetic on their counts, and that the flows have been
  renumbered (`Numbered`), so that none is hashed as an empty item.
* `LookupExactHolds`, `EpochLookupExact`: a flow in the stash has its size, even if its block
  is lost; another reads as 0 if its block is lost, and if the block is full, as its
  size in it or as 0. Blocks with a slot that was never written are exempt. `LookupInv` adds that every
  entry of table and stash is an item of the list (`FromList`).

About `Epoch`:

* `ListMergedHolds`: the merge leaves one descending list with exactly the items that
  arrived; hypotheses `MessagesDescend` (the application sorts the heavy part) and
  `testPo2(2 * NUM_HEAVY)`, the default: for other lengths the list is reversed with an
  index that is one too high, section 3. That nothing is lost (`MergeState`) needs
  neither.
* `NothingForgottenHolds`: every reported flow is in the merged list, upper or lower, for any
  number of light blocks. If that number is a power of two, a flow of the lower list has
  a counter that is large enough, and no counter has become smaller (`LightState`); with
  the default number this is false of the program.
* `ResponseSoundHolds`: answers are from the lists of the epoch, those about changes in
  descending order, if there are changes; building the table of heavy
  flows does not change sizes (`SizesKept`), `numHeavyChange` counts the changes that
  have one (`ChangesCounted`), and no answer is from before (`Answered`).

### `DriverProofs`: any number of rounds, faults and sketches that cannot be built

`DriverTypeCorrect`, `DriverCrashExplained`, `DriverLeaksNamed`, `DriverServesThisRound`. The
invariant follows the memory of a round from phase to phase: what phase 0 must have
left if nothing failed (`Prepared`), what phase 2 has built from it (`Built`), and for every live
block that it is named by a pointer or a sketch, or still due to be freed, or one of
the leaks (`Accounted`).

`DriverFreshVector`: `incr_ctr` adds one to the vector as a number, modulo all vectors, for
any number of bytes: by induction over the bytes the carry has gone through
(`VectorKept`).

### Only model-checked

The liveness properties `AccessEnds`, `AddedCatchesUp`, `SomeoneEnters` and `AppEnds`, with
the fairness of section 3: TLAPS cannot reason about `ENABLED`, by which fairness is
defined. And the three properties of the violation runs, which do not hold.

## 5. What is left

1. Several epochs in one run, with lost light blocks as well as heavy ones, and the
   light part served through its own PORAM.
2. A refinement of the step `UpdateLight` of `Epoch` by a whole `LightUpdate`, and of
   `CountAll` by `CountDist`: today the steps carry the results that `LightUpdatedHolds` and
   `DistExactHolds` establish, and nothing but their statements connects them.
3. The probability of `overflowed` is outside of what these tools can say.

Not modelled:

* `ORebuildStash_CL`, `TestHeavyChange` and the `TestHeavyHitter` variants, which nothing
  calls, or only tests that are commented out; the rest of what the phases have
  commented out, `ecall_bare`, and `free_message`.
* SpookyHash (vendored), AES-GCM (OpenSSL) and SGX itself; hash functions are any
  functions of a set, a cipher opens under its key and vector.
* Option parsing, file contents, printing and timing in the application.
* The failure of a `malloc` other than that of phase 0: the others are not checked in the
  code.
* `Cardinality`, a float computed from the number of empty counters; when there are
  none, its logarithm is that of 0. It enters as a threshold of any value.
* The obliviousness of the memory accesses, which is a property of pairs of runs and
  of an instruction stream that these models abstract from.
