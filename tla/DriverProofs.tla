------------------------------ MODULE DriverProofs -----------------------------
(***************************************************************************)
(* Theorems about the program around the sketches, for any sizes of blocks,  *)
(* any sketches that cannot be built and any rounds in which ecalls and        *)
(* mallocs fail.  The invariant follows the memory of a round from phase to    *)
(* phase; each part of it has a lemma, with one step per action.              *)
(***************************************************************************)
EXTENDS Driver, NetProofs

\* What a block may be, and which pointer may hold it.
KindOf == [pDataForCUSketch |-> "light", pDataCUSketch |-> "light", pDataStashTable |-> "table",
           pDataForStashHeavy |-> "stashHeavy", pOCUSketch |-> "objectC", pOSTable |-> "objectT"]

Kinds  == {"light", "table", "stashHeavy", "dataC", "dataT"} \cup Leaked
Blocks == [kind : Kinds, round : Int]

TypeOK ==
  /\ app \in {"start", "packed", "created", "keyed", "test", "tested", "ended"}
  /\ enclave \in {"none", "up", "crashed", "gone"}
  /\ sizeBlockH \in Int /\ sizeBlockL \in Int /\ i \in Int /\ j \in 0 .. 6
  /\ noMoreTest \in {0, 10}
  /\ initFails \subseteq Sketches
  /\ heap \subseteq Blocks
  /\ ptr \in [Pointers -> Blocks \cup {NULL}]
  /\ \A p \in Pointers : ptr[p].kind \in {KindOf[p], "NULL"}
  /\ sketch \in [Sketches -> [sketchType : {"C", "T", "X"}, data : Blocks \cup {NULL}, from : Int]]
  /\ sketch["C"].data.kind \in {"dataC", "NULL"} /\ sketch["T"].data.kind \in {"dataT", "NULL"}
  /\ stashUsed \in BOOLEAN
  /\ served \in [Sketches -> Int]

\* The key of the message reaches the enclave unless ecall_init fails.
KeyKnown ==
  /\ ctx \in [key : {"zero", "key"}, IV : {[k \in Bytes |-> 0]}]
  /\ app \in {"packed", "created", "keyed", "test"} =>
       /\ global_ctx.key = "key"
       /\ msgSketch = Packed("sketches", [key |-> "key", IV |-> iv0])
  /\ app \in {"keyed", "test"} /\ 0 \notin faulty => ctx.key = "key"

\* The loops.
LoopsInRange ==
  /\ app = "test" => sizeBlockL <= i /\ i <= sizeBlockH
  /\ app \in {"start", "packed", "created", "keyed"} => heap = {} /\ enclave # "crashed"
  /\ app \in {"start", "packed", "created", "keyed"} => ptr = [p \in Pointers |-> NULL]
  /\ noMoreTest # 0 => initFails # {}
  /\ app # "ended" => enclave # "gone"

Bad == faulty \cup starved

\* What a round without a failed call has in memory: after phase 0 the data of
\* this round, after phase 2 both sketches built from it.
Prepared ==
  /\ ptr["pDataForCUSketch"] = Block("light") /\ ptr["pDataCUSketch"] = Block("light")
  /\ ptr["pDataStashTable"] = Block("table")
  /\ ptr["pDataForStashHeavy"] = Block("stashHeavy")
  /\ {Block("light"), Block("table"), Block("stashHeavy")} \subseteq heap

Built ==
  /\ ptr["pOCUSketch"] = Block("objectC") /\ ptr["pOSTable"] = Block("objectT")
  /\ sketch["C"].data = Block("dataC") /\ sketch["T"].data = Block("dataT")
  /\ ptr["pDataForStashHeavy"] = Block("stashHeavy")
  /\ {Block("objectC"), Block("objectT"), Block("dataC"), Block("dataT"), Block("stashHeavy")}
       \subseteq heap

RoundUnderWay ==
  app = "test" /\ enclave = "up" /\ {0, round} \cap Bad = {} =>
    /\ j \in {1, 2} => noMoreTest = 0 /\ Prepared
    /\ j \in 3 .. 6 /\ noMoreTest = 0 => initFails = {} /\ Built

\* The enclave is ended only where a call has failed.
CrashedOnce == enclave = "crashed" => Bad # {}

\* Everything that is allocated is named as lost, or due to be freed in the
\* round under way, or held when the enclave ended.
Named(b) ==
  \/ b.kind \in Leaked
  \/ b.round \in Bad
  \/ initFails # {} /\ b.kind \in {"dataC", "dataT", "table", "stashHeavy"}

Due(b) ==
  /\ app = "test" /\ enclave = "up" /\ b.round = round
  /\ \/ j \in {1, 2} /\ noMoreTest = 0 /\ b.kind = "light" /\ b = ptr["pDataForCUSketch"]
     \/ j \in {1, 2} /\ noMoreTest = 0 /\ b.kind = "table" /\ b = ptr["pDataStashTable"]
     \/ /\ j \in 1 .. 6 /\ b.kind = "stashHeavy" /\ b = ptr["pDataForStashHeavy"]
        /\ noMoreTest = 0 /\ (j > 2 => sketch["T"].sketchType = "T")
     \/ /\ j \in 3 .. 6 /\ b.kind = "dataC" /\ b = sketch["C"].data
        /\ noMoreTest = 0 /\ ptr["pOCUSketch"] # NULL
     \/ /\ j \in 3 .. 6 /\ b.kind = "dataT" /\ b = sketch["T"].data
        /\ noMoreTest = 0 /\ ptr["pOSTable"] # NULL

Accounted ==
  \A b \in heap :
    Named(b) \/ Due(b) \/ (enclave \in {"crashed", "gone"} /\ b \in Reachable)

\* Both sketches come from one epoch, and as long as no ecall fails from this
\* round's: what Init_OCU has copied is no longer there to be copied again.
SameEpoch ==
  /\ initFails = {} => /\ ptr["pDataCUSketch"].round = ptr["pDataStashTable"].round
                       /\ sketch["C"].from = sketch["T"].from
  /\ initFails # {} => sketch["T"].data = NULL
  /\ served["C"] = served["T"]

Source == [C |-> "pDataCUSketch", T |-> "pDataStashTable"]

FreshEpoch ==
  app = "test" /\ enclave = "up" /\ faulty = {} =>
    /\ j \in {0, 3, 4, 5, 6} => \A s \in Sketches : Builds(s) => ~Live(ptr[Source[s]])
    /\ j \in {1, 2} =>
         /\ noMoreTest = 0
         /\ \A s \in Sketches : Builds(s) /\ Live(ptr[Source[s]]) => ptr[Source[s]].round = round
    /\ j \in 3 .. 6 /\ noMoreTest = 0 => initFails = {} /\ sketch["C"].from = round
    /\ j \in {5, 6} /\ noMoreTest = 0 => served["C"] = round

--------------------------------------------------------------------------------
\* The steps of main outside the loops of FOS_test_ecall.
Outside ==
  \/ ReadFails \/ ReadAndPack \/ InitializeFails \/ initialize_enclave
  \/ (\E ok \in BOOLEAN : ecall_init(ok)) \/ StartTest \/ sgx_destroy_enclave

\* A phase leads to the next one of the round, the last to the next round or
\* out of the loops.
LEMMA AdvanceStep ==
  ASSUME TypeOK, LoopsInRange, app = "test", Advance
  PROVE  /\ UNCHANGED <<sizeBlockH, sizeBlockL, global_ctx, msgSketch, initFails, iv0>>
         /\ i' \in Int /\ j' \in 0 .. 6 /\ app' \in {"test", "tested"}
         /\ j < 6 => /\ j' = j + 1 /\ app' = "test" /\ round' = round
                     /\ \A k : Block(k)' = Block(k)
         /\ j = 6 => j' = 0
         /\ app' = "test" => sizeBlockL' <= i' /\ i' <= sizeBlockH'
         /\ round >= 1 /\ round' >= 1
<1>1. /\ UNCHANGED <<sizeBlockH, sizeBlockL, global_ctx, msgSketch, initFails, iv0>>
      /\ i \in Int /\ j \in 0 .. 6 /\ sizeBlockL \in Int /\ sizeBlockH \in Int
      /\ sizeBlockL <= i /\ i <= sizeBlockH
      /\ j' = IF j < 6 THEN j + 1 ELSE 0
      /\ i' = IF j < 6 THEN i ELSE i - 1
      /\ app' = IF j = 6 /\ i = sizeBlockL THEN "tested" ELSE "test"
  BY DEF Advance, TypeOK, LoopsInRange
<1>2. round = sizeBlockH - i + 1 /\ round' = sizeBlockH - i' + 1
  BY <1>1 DEF round
<1>3. CASE j < 6
  <2>1. j' = j + 1 /\ i' = i /\ app' = "test"
    BY <1>1, <1>3
  <2>2. round' = round
    BY <1>2, <2>1
  <2>3. \A k : Block(k)' = Block(k)
    BY <2>2 DEF Block
  <2> QED BY <1>1, <1>2, <1>3, <2>1, <2>2, <2>3
<1>4. CASE j = 6
  <2>1. j' = 0 /\ i' = i - 1 /\ (app' = "test" => i # sizeBlockL) /\ app' \in {"test", "tested"}
    BY <1>1, <1>4
  <2> QED BY <1>1, <1>2, <1>4, <2>1
<1> QED BY <1>1, <1>3, <1>4

LEMMA NullIs == NULL \notin Blocks /\ NULL.kind = "NULL" /\ NULL.round = 0
  BY DEF NULL, Blocks, Kinds, Leaked

LEMMA BlockIs ==
  ASSUME TypeOK,
         NEW k \in Kinds
  PROVE  Block(k) \in Blocks /\ Block(k).kind = k /\ Block(k).round = round
  BY DEF Block, Blocks, Kinds, Leaked, round, TypeOK

LEMMA TypeInit == Init => TypeOK
<1> SUFFICES ASSUME Init PROVE TypeOK
  OBVIOUS
<1>1. sizeBlockH \in Int /\ sizeBlockL \in Int
  <2>1. PICK o \in Options : sizeBlockH = o[1] /\ sizeBlockL = o[2]
    BY DEF Init
  <2>2. o[1] \in 0 .. 255 /\ o[2] \in 0 .. 255
    BY DriverAssumption
  <2> QED BY <2>1, <2>2
<1>2. /\ ptr \in [Pointers -> Blocks \cup {NULL}]
      /\ \A p \in Pointers : ptr[p].kind \in {KindOf[p], "NULL"}
  BY NullIs DEF Init
<1>3. Bare \in [sketchType : {"C", "T", "X"}, data : Blocks \cup {NULL}, from : Int] /\ Bare.data = NULL
  BY DEF Bare
<1>4. /\ sketch \in [Sketches -> [sketchType : {"C", "T", "X"}, data : Blocks \cup {NULL}, from : Int]]
      /\ sketch["C"].data.kind \in {"dataC", "NULL"} /\ sketch["T"].data.kind \in {"dataT", "NULL"}
  BY <1>3, NullIs DEF Init, Sketches
<1>5. initFails \subseteq Sketches
  BY DriverAssumption DEF Init
<1>6. served \in [Sketches -> Int]
  BY DEF Init
<1>7. /\ app = "start" /\ enclave = "none" /\ i = 0 /\ j = 0 /\ noMoreTest = 0 /\ heap = {}
      /\ stashUsed \in BOOLEAN
  BY DEF Init
<1>8. i \in Int /\ j \in 0 .. 6 /\ noMoreTest \in {0, 10} /\ heap \subseteq Blocks /\ stashUsed \in BOOLEAN
      /\ app \in {"start"} /\ enclave \in {"none"}
  <2>1. i \in Int /\ j \in 0 .. 6 /\ noMoreTest \in {0, 10} /\ app \in {"start"} /\ enclave \in {"none"}
    BY <1>7
  <2>2. heap \subseteq Blocks
    BY <1>7
  <2>3. stashUsed \in BOOLEAN
    BY <1>7
  <2> QED BY <2>1, <2>2, <2>3
<1> QED
  BY <1>1, <1>2, <1>4, <1>5, <1>6, <1>8 DEF TypeOK

LEMMA TypeStep == TypeOK /\ LoopsInRange /\ [Next]_vars => TypeOK'
<1> SUFFICES ASSUME TypeOK, LoopsInRange, [Next]_vars PROVE TypeOK'
  OBVIOUS
<1>1. CASE UNCHANGED vars
  BY <1>1 DEF vars, appVars, enclaveVars, memory, failures, TypeOK
<1>2. CASE Outside
  <2>1. CASE StartTest
    BY <2>1 DEF StartTest, enclaveVars, memory, failures, TypeOK
  <2>2. CASE ~StartTest
    BY <1>2, <2>2 DEF Outside, ReadFails, ReadAndPack, InitializeFails, initialize_enclave, ecall_init,
       sgx_destroy_enclave, enclaveVars, memory, failures, TypeOK
  <2> QED BY <2>1, <2>2
\* A step of the loops keeps the type of main's variables.
<1>a. ASSUME app = "test", Advance, enclave' \in {"up", "crashed"}, UNCHANGED <<noMoreTest, memory, served>>
      PROVE  TypeOK'
  BY <1>a, AdvanceStep DEF TypeOK, memory
<1>3. CASE CallCrashed \/ CallFails
  BY <1>3, <1>a DEF CallCrashed, CallFails, enclaveVars
<1>4. CASE \E k \in 0 .. 6 : Skip(k) \/ Pass(k)
  BY <1>4, <1>a DEF Skip, Pass, Phase, enclaveVars
<1>5. CASE GenerateCrashes \/ ShortInfo
  BY <1>5, <1>a DEF GenerateCrashes, ShortInfo, Phase, Crash, enclaveVars
<1>6. CASE PrepareFails
  BY <1>6, AdvanceStep DEF PrepareFails, Phase, memory, TypeOK
<1>7. CASE BurstAccess
  <2>1. CASE Usable
    BY <1>7, <2>1, AdvanceStep DEF BurstAccess, Phase, memory, TypeOK
  <2>2. CASE ~Usable
    BY <1>7, <1>a, <2>2 DEF BurstAccess, Phase, Crash, enclaveVars
  <2> QED BY <2>1, <2>2
\* A step of the loops that changes the memory.
<1>b. ASSUME app = "test", Advance, enclave' = enclave, noMoreTest' \in {0, 10}, served' = served,
             stashUsed' \in BOOLEAN, heap' \subseteq Blocks,
             ptr' \in [Pointers -> Blocks \cup {NULL}],
             \A p \in Pointers : ptr'[p].kind \in {KindOf[p], "NULL"},
             sketch' \in [Sketches -> [sketchType : {"C", "T", "X"}, data : Blocks \cup {NULL}, from : Int]],
             sketch'["C"].data.kind \in {"dataC", "NULL"}, sketch'["T"].data.kind \in {"dataT", "NULL"}
      PROVE  TypeOK'
  BY <1>b, AdvanceStep DEF TypeOK
<1>8. ASSUME NEW detected \in BOOLEAN, NEW built \in BOOLEAN, NEW spilled \in BOOLEAN,
             OPrepareData(detected, built, spilled)
      PROVE  TypeOK'
  <2>1. heap' \subseteq Blocks
    BY <1>8, BlockIs DEF OPrepareData, LeftBy, Kinds, Leaked, TypeOK
  <2>2. /\ ptr' \in [Pointers -> Blocks \cup {NULL}]
        /\ \A p \in Pointers : ptr'[p].kind \in {KindOf[p], "NULL"}
    BY <1>8, BlockIs DEF OPrepareData, TypeOK, Pointers, KindOf, Kinds
  <2> QED
    BY <1>8, <1>b, <2>1, <2>2 DEF OPrepareData, Phase, TypeOK
\* What Fresh makes of a sketch.
<1>c. ASSUME NEW s \in Sketches, NEW source \in Blocks \cup {NULL}
      PROVE  /\ Fresh(s, source) \in [sketchType : {"C", "T", "X"}, data : Blocks \cup {NULL}, from : Int]
             /\ Fresh(s, source).data.kind \in {Tree[s], "NULL"}
  BY BlockIs, NullIs DEF Fresh, Bare, Tree, Sketches, Blocks, Kinds
<1>d. NewBlocks \subseteq Blocks
  BY BlockIs DEF NewBlocks, Object, Tree, Sketches, Kinds, Leaked
<1>e. Bare \in [sketchType : {"C", "T", "X"}, data : Blocks \cup {NULL}, from : Int] /\ Bare.data = NULL
  BY DEF Bare
<1>9. CASE Generate
  <2>1. heap' \subseteq Blocks
    BY <1>9, <1>d DEF Generate, TypeOK
  <2>2. /\ ptr' \in [Pointers -> Blocks \cup {NULL}]
        /\ \A p \in Pointers : ptr'[p].kind \in {KindOf[p], "NULL"}
    BY <1>9, BlockIs, NullIs DEF Generate, TypeOK, Pointers, KindOf, Kinds, Leaked
  <2>3. /\ sketch' \in [Sketches -> [sketchType : {"C", "T", "X"}, data : Blocks \cup {NULL}, from : Int]]
        /\ sketch'["C"].data.kind \in {"dataC", "NULL"} /\ sketch'["T"].data.kind \in {"dataT", "NULL"}
    BY <1>9, <1>c DEF Generate, TypeOK, Sketches, Tree, Pointers
  <2> QED
    BY <1>9, <1>b, <2>1, <2>2, <2>3 DEF Generate, Phase, TypeOK
<1>10. CASE GenerateFails
  <2>1. heap' \subseteq Blocks
    BY <1>10, <1>d DEF GenerateFails, TypeOK
  <2>2. /\ ptr' \in [Pointers -> Blocks \cup {NULL}]
        /\ \A p \in Pointers : ptr'[p].kind \in {KindOf[p], "NULL"}
    BY <1>10, BlockIs, NullIs DEF GenerateFails, TypeOK, Pointers, KindOf, Kinds, Leaked
  <2>3. /\ sketch' \in [Sketches -> [sketchType : {"C", "T", "X"}, data : Blocks \cup {NULL}, from : Int]]
        /\ sketch'["C"].data.kind \in {"dataC", "NULL"} /\ sketch'["T"].data.kind \in {"dataT", "NULL"}
    BY <1>10, <1>c, <1>e, NullIs DEF GenerateFails, TypeOK, Sketches, Tree, Pointers
  <2> QED
    BY <1>10, <1>b, <2>1, <2>2, <2>3 DEF GenerateFails, Phase, TypeOK
<1>11. CASE FreeSketches
  <2>1. CASE Live(ptr["pOCUSketch"]) /\ Live(ptr["pOSTable"]) /\ Freed \subseteq heap \cup {NULL}
    <3>1. heap' \subseteq Blocks
      BY <1>11, <2>1 DEF FreeSketches, TypeOK
    <3>2. /\ ptr' \in [Pointers -> Blocks \cup {NULL}]
          /\ \A p \in Pointers : ptr'[p].kind \in {KindOf[p], "NULL"}
      BY <1>11, <2>1, NullIs DEF FreeSketches, TypeOK, Pointers, KindOf
    <3>3. /\ sketch' \in [Sketches -> [sketchType : {"C", "T", "X"}, data : Blocks \cup {NULL}, from : Int]]
          /\ sketch'["C"].data.kind \in {"dataC", "NULL"} /\ sketch'["T"].data.kind \in {"dataT", "NULL"}
      BY <1>11, <2>1, <1>e, NullIs DEF FreeSketches, Sketches
    <3> QED
      BY <1>11, <1>b, <2>1, <3>1, <3>2, <3>3 DEF FreeSketches, Phase, TypeOK
  <2>2. CASE ~(Live(ptr["pOCUSketch"]) /\ Live(ptr["pOSTable"]) /\ Freed \subseteq heap \cup {NULL})
    BY <1>11, <1>a, <2>2 DEF FreeSketches, Phase, Crash, enclaveVars
  <2> QED BY <2>1, <2>2
<1> QED
  BY <1>1, <1>2, <1>3, <1>4, <1>5, <1>6, <1>7, <1>8, <1>9, <1>10, <1>11 DEF Next, Call, Outside

LEMMA LoopInit == Init => LoopsInRange /\ KeyKnown
  BY DEF Init, LoopsInRange, KeyKnown

LEMMA LoopStep == TypeOK /\ LoopsInRange /\ [Next]_vars => LoopsInRange'
<1> SUFFICES ASSUME TypeOK, LoopsInRange, [Next]_vars PROVE LoopsInRange'
  OBVIOUS
<1>1. CASE UNCHANGED vars
  BY <1>1 DEF vars, appVars, enclaveVars, memory, LoopsInRange
<1>2. CASE Outside
  <2>1. CASE StartTest
    <3>1. sizeBlockL' <= sizeBlockH' /\ i' = sizeBlockH' /\ sizeBlockL' \in Int /\ sizeBlockH' \in Int
      BY <2>1 DEF StartTest, TypeOK
    <3>2. sizeBlockL' <= i' /\ i' <= sizeBlockH'
      BY <3>1
    <3> QED BY <2>1, <3>2 DEF StartTest, enclaveVars, LoopsInRange
  <2>2. CASE ~StartTest
    BY <1>2, <2>2 DEF Outside, ReadFails, ReadAndPack, InitializeFails, initialize_enclave, ecall_init,
       sgx_destroy_enclave, enclaveVars, memory, LoopsInRange
  <2> QED BY <2>1, <2>2
<1>3. CASE ~Outside /\ ~UNCHANGED vars
  <2>1. /\ app = "test" /\ Advance /\ (noMoreTest' # 0 => noMoreTest' = noMoreTest \/ initFails # {})
        /\ enclave' \in {enclave, "crashed"}
    BY <1>3 DEF Outside, Next, Call, CallCrashed, CallFails, Skip, Pass, PrepareFails, OPrepareData,
       Generate, GenerateFails, GenerateCrashes, BurstAccess, ShortInfo, FreeSketches, Phase, Crash,
       enclaveVars
  <2> QED
    BY <2>1, AdvanceStep DEF LoopsInRange
<1> QED
  BY <1>1, <1>2, <1>3

LEMMA KeyStep == TypeOK /\ LoopsInRange /\ KeyKnown /\ [Next]_vars => KeyKnown'
<1> SUFFICES ASSUME TypeOK, LoopsInRange, KeyKnown, [Next]_vars PROVE KeyKnown'
  OBVIOUS
<1>1. CASE UNCHANGED vars
  BY <1>1 DEF vars, appVars, enclaveVars, failures, KeyKnown
<1>2. CASE ReadAndPack
  <2>1. PICK drawn : drawn = [key |-> "key", IV |-> iv0]
    OBVIOUS
  <2>2. PICK next : next = incr_ctr(iv0)
    OBVIOUS
  <2>3. global_ctx' = [drawn EXCEPT !.IV = next] /\ msgSketch' = Packed("sketches", drawn)
    BY <1>2, <2>1, <2>2 DEF ReadAndPack
  <2>4. global_ctx'.key = "key"
    BY <2>1, <2>3
  <2> QED BY <1>2, <2>1, <2>3, <2>4 DEF ReadAndPack, enclaveVars, failures, KeyKnown
<1>a. ASSUME NEW ok \in BOOLEAN, ecall_init(ok) PROVE KeyKnown'
  <2>1. CASE ok
    <3>1. ctx' = [ctx EXCEPT !.key = "key"] /\ global_ctx.key = "key"
      BY <1>a, <2>1 DEF ecall_init, KeyKnown
    <3>2. ctx'.key = "key" /\ ctx' \in [key : {"zero", "key"}, IV : {[k \in Bytes |-> 0]}]
      BY <3>1 DEF KeyKnown
    <3> QED BY <1>a, <2>1, <3>2 DEF ecall_init, failures, KeyKnown
  <2>2. CASE ~ok
    BY <1>a, <2>2 DEF ecall_init, failures, KeyKnown
  <2> QED BY <2>1, <2>2
<1>4. CASE Outside /\ ~ReadAndPack /\ ~\E ok \in BOOLEAN : ecall_init(ok)
  BY <1>4 DEF Outside, ReadFails, InitializeFails, initialize_enclave, StartTest,
     sgx_destroy_enclave, enclaveVars, failures, KeyKnown
<1>3. CASE ~Outside /\ ~UNCHANGED vars
  <2>1. app = "test" /\ Advance /\ ctx' = ctx /\ (faulty' = faulty \/ faulty' = faulty \cup {round})
    BY <1>3 DEF Outside, Next, Call, CallCrashed, CallFails, Skip, Pass, PrepareFails, OPrepareData,
       Generate, GenerateFails, GenerateCrashes, BurstAccess, ShortInfo, FreeSketches, Phase, Crash,
       enclaveVars, failures
  <2> QED
    BY <2>1, AdvanceStep DEF KeyKnown
<1> QED
  BY <1>1, <1>2, <1>a, <1>3, <1>4

\* What has failed stays failed, and is all that the names of the lost blocks
\* depend on.
LEMMA BadGrows ==
  ASSUME TypeOK, [Next]_vars
  PROVE  /\ Bad \subseteq Bad' /\ faulty \subseteq faulty' /\ initFails' = initFails
         /\ \A b : Named(b) => Named(b)'
<1>1. faulty \subseteq faulty' /\ starved \subseteq starved' /\ initFails' = initFails
  BY DEF Next, Call, ReadFails, ReadAndPack, InitializeFails, initialize_enclave, ecall_init, StartTest,
     sgx_destroy_enclave, CallCrashed, CallFails, Skip, Pass, PrepareFails, OPrepareData, Generate,
     GenerateFails, GenerateCrashes, BurstAccess, ShortInfo, FreeSketches, Phase, Crash, Advance,
     failures, vars
<1>2. Bad \subseteq Bad'
  BY <1>1 DEF Bad
<1> QED BY <1>1, <1>2 DEF Named

\* The message is the one that ReadAndPack has packed, and the enclave can open it.
LEMMA Opens ==
  ASSUME KeyKnown, app = "test", 0 \notin Bad
  PROVE  Unpacked(msgSketch, ctx) # Failed
<1>1. ctx.key = "key" /\ msgSketch = Packed("sketches", [key |-> "key", IV |-> iv0])
  BY DEF KeyKnown, Bad
<1> QED
  BY <1>1 DEF Packed, Unpacked, Failed, gcm_encrypt, gcm_decrypt

\* While nothing has failed in this round, nor at the start, a call finds the
\* memory it works on.
LEMMA Found ==
  ASSUME TypeOK, LoopsInRange, RoundUnderWay, app = "test", enclave = "up", noMoreTest = 0,
         {0, round} \cap Bad = {}
  PROVE  /\ j = 2 => \A s \in Sketches : Live(ptr[Source[s]])
         /\ j \in 3 .. 6 => Usable /\ Live(ptr["pOCUSketch"]) /\ Live(ptr["pOSTable"])
         /\ j = 6 => Freed \subseteq heap
<1>1. CASE j = 2
  BY <1>1 DEF RoundUnderWay, Prepared, Live, Source, Sketches
<1>2. CASE j \in 3 .. 6
  <2>1. Built
    BY <1>2 DEF RoundUnderWay
  <2>2. /\ Live(ptr["pOCUSketch"]) /\ Live(ptr["pOSTable"]) /\ Live(sketch["C"].data)
        /\ Live(sketch["T"].data) /\ Live(ptr["pDataForStashHeavy"])
    BY <2>1 DEF Built, Live
  <2>3. Usable
    BY <2>2 DEF Usable, Sketches
  <2>4. Freed \subseteq heap
    BY <2>2 DEF Freed, Live, Sketches
  <2> QED BY <1>2, <2>2, <2>3, <2>4
<1> QED BY <1>1, <1>2

LEMMA CrashStep ==
  ASSUME TypeOK, LoopsInRange, RoundUnderWay, [Next]_vars, enclave = "up", enclave' = "crashed"
  PROVE  {0, round} \cap Bad # {}
<1> SUFFICES ASSUME {0, round} \cap Bad = {} PROVE FALSE
  OBVIOUS
<1>1. GenerateCrashes \/ BurstAccess \/ ShortInfo \/ FreeSketches
  BY DEF Next, Call, ReadFails, ReadAndPack, InitializeFails, initialize_enclave, ecall_init, StartTest,
     sgx_destroy_enclave, CallCrashed, CallFails, Skip, Pass, PrepareFails, OPrepareData, Generate,
     GenerateFails, vars
<1>2. app = "test" /\ noMoreTest = 0 /\ j \in {2, 4, 5, 6}
  BY <1>1 DEF GenerateCrashes, BurstAccess, ShortInfo, FreeSketches, Phase
<1>3. CASE GenerateCrashes
  BY <1>2, <1>3, Found DEF GenerateCrashes, Phase, Source, Sketches
<1>4. CASE BurstAccess
  BY <1>2, <1>4, Found DEF BurstAccess, Phase
<1>5. CASE ShortInfo
  BY <1>2, <1>5, Found DEF ShortInfo, Phase
<1>6. CASE FreeSketches
  BY <1>2, <1>6, Found DEF FreeSketches, Phase
<1> QED
  BY <1>1, <1>3, <1>4, <1>5, <1>6

LEMMA CrashedStep ==
  ASSUME TypeOK, LoopsInRange, RoundUnderWay, CrashedOnce, [Next]_vars
  PROVE  CrashedOnce'
<1>1. CASE enclave' = "crashed" /\ enclave # "crashed"
  <2>1. enclave = "up"
    BY <1>1 DEF Next, Call, ReadFails, ReadAndPack, InitializeFails, initialize_enclave, ecall_init,
       StartTest, sgx_destroy_enclave, CallCrashed, CallFails, Skip, Pass, PrepareFails, OPrepareData,
       Generate, GenerateFails, GenerateCrashes, BurstAccess, ShortInfo, FreeSketches, Phase, vars
  <2>2. {0, round} \cap Bad # {}
    BY <1>1, <2>1, CrashStep
  <2> QED BY <2>2, BadGrows DEF CrashedOnce
<1> QED BY <1>1, BadGrows DEF CrashedOnce

LEMMA RoundStep ==
  ASSUME TypeOK, LoopsInRange, KeyKnown, RoundUnderWay, [Next]_vars
  PROVE  RoundUnderWay'
<1> SUFFICES ASSUME app' = "test", enclave' = "up", {0, round'} \cap Bad' = {}, j' \in 1 .. 6
             PROVE  /\ j' \in {1, 2} => noMoreTest' = 0 /\ Prepared'
                    /\ j' \in 3 .. 6 /\ noMoreTest' = 0 => initFails' = {} /\ Built'
  BY DEF RoundUnderWay
<1>1. CASE UNCHANGED vars
  <2>1. RoundUnderWay'
    BY <1>1 DEF vars, appVars, enclaveVars, memory, failures, RoundUnderWay, round, Bad, Prepared,
       Built, Block
  <2> QED BY <2>1 DEF RoundUnderWay
<1>2. CASE Outside
  BY <1>2 DEF Outside, ReadFails, ReadAndPack, InitializeFails, initialize_enclave, ecall_init, StartTest,
     sgx_destroy_enclave
<1>3. CASE ~Outside /\ ~UNCHANGED vars
  <2>1. app = "test" /\ Advance /\ enclave = "up"
    BY <1>3 DEF Outside, Next, Call, CallCrashed, CallFails, Skip, Pass, PrepareFails, OPrepareData,
       Generate, GenerateFails, GenerateCrashes, BurstAccess, ShortInfo, FreeSketches, Phase, Crash
  <2>2. j < 6 /\ j' = j + 1 /\ round' = round /\ (\A k : Block(k)' = Block(k)) /\ initFails' = initFails
    BY <2>1, AdvanceStep DEF TypeOK
  <2>3. 0 \notin Bad /\ round \notin Bad /\ round \notin Bad'
    BY <2>2, BadGrows
  <2>4. /\ j \in {1, 2} => noMoreTest = 0 /\ Prepared
        /\ j \in 3 .. 6 /\ noMoreTest = 0 => initFails = {} /\ Built
    BY <2>1, <2>3 DEF RoundUnderWay
  <2>5. Unpacked(msgSketch, ctx) # Failed
    BY <2>1, <2>3, Opens
  \* What stays of the memory.
  <2>a. ASSUME UNCHANGED memory PROVE (Prepared => Prepared') /\ (Built => Built')
    BY <2>a, <2>2 DEF memory, Prepared, Built
  <2>6. CASE CallCrashed \/ CallFails \/ GenerateCrashes \/ PrepareFails
    BY <2>1, <2>3, <2>5, <2>6 DEF CallCrashed, CallFails, GenerateCrashes, PrepareFails, Crash, Bad
  <2>7. CASE \E k \in 0 .. 6 : Skip(k)
    BY <2>2, <2>4, <2>7 DEF Skip, Phase, enclaveVars, TypeOK
  <2>8. CASE \E k \in 0 .. 6 : Pass(k)
    BY <2>2, <2>4, <2>8, <2>a DEF Pass, Phase, enclaveVars
  <2>9. ASSUME NEW detected \in BOOLEAN, NEW built \in BOOLEAN, NEW spilled \in BOOLEAN,
             OPrepareData(detected, built, spilled)
        PROVE  j' = 1 /\ noMoreTest' = 0 /\ Prepared'
    <3>1. j' = 1 /\ noMoreTest' = 0
      BY <2>2, <2>9 DEF OPrepareData, Phase
    <3>2. /\ ptr'["pDataForCUSketch"] = Block("light") /\ ptr'["pDataCUSketch"] = Block("light")
          /\ ptr'["pDataStashTable"] = Block("table") /\ ptr'["pDataForStashHeavy"] = Block("stashHeavy")
      BY <2>9 DEF OPrepareData, TypeOK, Pointers
    <3>3. {Block("light"), Block("table"), Block("stashHeavy")} \subseteq heap'
      BY <2>9 DEF OPrepareData
    <3> QED BY <2>2, <3>1, <3>2, <3>3 DEF Prepared
  <2>10. CASE Generate
    <3>1. j' = 3 /\ initFails = {} /\ Prepared
      BY <2>2, <2>4, <2>10 DEF Generate, Phase
    <3>2. /\ ptr'["pOCUSketch"] = Block("objectC") /\ ptr'["pOSTable"] = Block("objectT")
          /\ ptr'["pDataForStashHeavy"] = Block("stashHeavy")
      BY <2>10, <3>1 DEF Generate, TypeOK, Pointers, Prepared
    <3>3. sketch'["C"].data = Block("dataC") /\ sketch'["T"].data = Block("dataT")
      BY <2>10, <3>1 DEF Generate, Sketches, Fresh, Builds, Tree
    <3>4. {Block("objectC"), Block("objectT"), Block("dataC"), Block("dataT")} \subseteq heap'
      BY <2>10, <3>1 DEF Generate, NewBlocks, Sketches, Builds, Tree, Object
    <3>5. Block("stashHeavy") \in heap'
      <4>1. Block("stashHeavy") \notin {ptr["pDataForCUSketch"], ptr["pDataStashTable"]}
        BY <3>1 DEF Prepared, Block
      <4> QED BY <2>10, <3>1, <4>1 DEF Generate, Prepared
    <3> QED BY <2>2, <3>1, <3>2, <3>3, <3>4, <3>5 DEF Built
  <2>11. CASE GenerateFails
    BY <2>2, <2>11 DEF GenerateFails, Phase
  <2>12. CASE BurstAccess \/ ShortInfo
    BY <2>1, <2>2, <2>4, <2>12, <2>a DEF BurstAccess, ShortInfo, Phase, Crash, enclaveVars
  <2>13. CASE FreeSketches
    BY <2>2, <2>13 DEF FreeSketches, Phase
  <2> QED
    BY <1>3, <2>6, <2>7, <2>8, <2>9, <2>10, <2>11, <2>12, <2>13 DEF Outside, Next, Call
<1> QED BY <1>1, <1>2, <1>3

\* A block that is due to be freed is pointed to.
LEMMA DueReachable ==
  ASSUME TypeOK, NEW b, Due(b)
  PROVE  b \in Reachable /\ b.round = round
<1>1. NULL # Block("objectC")
  BY DEF NULL, Block
<1>2. b \in {ptr[p] : p \in Pointers} \/ (b = sketch["C"].data /\ ptr["pOCUSketch"] # NULL)
        \/ (b = sketch["T"].data /\ ptr["pOSTable"] # NULL)
  BY DEF Due, Pointers
<1>3. \A s \in {t \in Sketches : ptr[IF t = "C" THEN "pOCUSketch" ELSE "pOSTable"] # NULL} :
        sketch[s].data \in Reachable
  BY DEF Reachable
<1>4. /\ ptr["pOCUSketch"] # NULL => sketch["C"].data \in Reachable
      /\ ptr["pOSTable"] # NULL => sketch["T"].data \in Reachable
  BY <1>3 DEF Sketches
<1>5. {ptr[p] : p \in Pointers} \subseteq Reachable
  BY DEF Reachable
<1> QED BY <1>2, <1>4, <1>5 DEF Due

LEMMA AccountedStep ==
  ASSUME TypeOK, LoopsInRange, Accounted, [Next]_vars
  PROVE  Accounted'
<1> SUFFICES ASSUME NEW b \in heap'
             PROVE  Named(b)' \/ Due(b)' \/ (enclave' \in {"crashed", "gone"} /\ b \in Reachable')
  BY DEF Accounted
<1>0. Named(b) => Named(b)'
  BY BadGrows
<1>h. b \in heap => Named(b) \/ Due(b) \/ (enclave \in {"crashed", "gone"} /\ b \in Reachable)
  BY DEF Accounted
<1>r. ptr' = ptr /\ sketch' = sketch => Reachable' = Reachable
  BY DEF Reachable
<1>1. CASE UNCHANGED vars
  BY <1>0, <1>h, <1>r, <1>1 DEF vars, appVars, enclaveVars, memory, Due, round
<1>2. CASE Outside
  <2>1. CASE sgx_destroy_enclave
    <3>1. ~Due(b) /\ enclave' = "gone" /\ UNCHANGED memory
      BY <2>1 DEF sgx_destroy_enclave, Due, enclaveVars
    <3> QED BY <1>0, <1>h, <1>r, <3>1 DEF memory
  <2>2. CASE ~sgx_destroy_enclave
    BY <1>2, <2>2 DEF Outside, ReadFails, ReadAndPack, InitializeFails, initialize_enclave, ecall_init,
       StartTest, enclaveVars, memory, LoopsInRange
  <2> QED BY <2>1, <2>2
<1>3. CASE CallCrashed
  BY <1>0, <1>h, <1>r, <1>3 DEF CallCrashed, enclaveVars, memory, Due
<1>4. CASE CallFails
  <2>1. round \in Bad' /\ heap' = heap /\ enclave = "up"
    BY <1>4 DEF CallFails, Bad, enclaveVars, memory
  <2>2. Due(b) => Named(b)'
    BY <2>1, DueReachable DEF Named
  <2> QED BY <1>0, <1>h, <2>1, <2>2
\* The phases.
<1>5. CASE Call
  <2>1. app = "test" /\ enclave = "up" /\ Advance
    BY <1>5 DEF Call, Skip, Pass, PrepareFails, OPrepareData, Generate, GenerateFails, GenerateCrashes,
       BurstAccess, ShortInfo, FreeSketches, Phase
  <2>2. b \in heap => Named(b)' \/ Due(b)
    BY <1>0, <1>h, <2>1
  <2>3. j < 6 => /\ j' = j + 1 /\ app' = "test" /\ round' = round
                 /\ \A k : Block(k)' = Block(k)
    BY <2>1, AdvanceStep
  <2>4. CASE enclave' = "crashed" /\ UNCHANGED memory
    BY <1>r, <2>2, <2>4, DueReachable DEF memory
  <2>5. CASE \E k \in 0 .. 6 : Skip(k)
    <3>1. ~Due(b) /\ heap' = heap
      BY <2>5 DEF Skip, Due, enclaveVars, memory
    <3> QED BY <2>2, <3>1
  <2>6. CASE \E k \in 0 .. 6 : Pass(k)
    <3>1. j \in {1, 3} /\ j < 6 /\ enclave' = "up" /\ UNCHANGED memory /\ noMoreTest' = noMoreTest
      BY <2>1, <2>6 DEF Pass, Phase, enclaveVars
    <3>2. Due(b) => Due(b)'
      BY <2>3, <3>1 DEF Due, memory
    <3> QED BY <2>2, <3>1, <3>2 DEF memory
  <2>7. CASE PrepareFails
    BY <2>2, <2>7 DEF PrepareFails, Phase, memory, Due
  <2>8. ASSUME NEW detected \in BOOLEAN, NEW built \in BOOLEAN, NEW spilled \in BOOLEAN,
             OPrepareData(detected, built, spilled)
        PROVE  Named(b)' \/ Due(b)'
    <3>1. j = 0 /\ ~Due(b) /\ enclave' = "up" /\ noMoreTest' = 0
      BY <2>1, <2>8 DEF OPrepareData, Phase, Due
    <3>2. /\ ptr'["pDataForCUSketch"] = Block("light")
          /\ ptr'["pDataStashTable"] = Block("table") /\ ptr'["pDataForStashHeavy"] = Block("stashHeavy")
      BY <2>8 DEF OPrepareData, TypeOK, Pointers
    <3>3. b \in heap \/ b \in {Block("light"), Block("table"), Block("stashHeavy")} \/ b \in LeftBy(detected, built)
      BY <2>8 DEF OPrepareData
    <3>4. CASE b \in heap
      BY <2>2, <3>1, <3>4
    <3>5. CASE b \in LeftBy(detected, built)
      BY <3>5 DEF LeftBy, Leaked, Named, Block
    <3>6. CASE b \in {Block("light"), Block("table"), Block("stashHeavy")}
      <4>1. b.round = round' /\ j' = 1 /\ app' = "test"
        BY <2>3, <3>1, <3>6 DEF Block
      <4> QED BY <3>1, <3>2, <3>6, <4>1 DEF Due, Block
    <3> QED BY <3>3, <3>4, <3>5, <3>6
  <2>9. CASE Generate
    <3>1. /\ j = 2 /\ j' = 3 /\ app' = "test" /\ enclave' = "up" /\ noMoreTest' = 0 /\ initFails = {}
          /\ round' = round
      BY <2>1, <2>3, <2>9 DEF Generate, Phase
    <3>2. /\ ptr'["pOCUSketch"] = Block("objectC") /\ ptr'["pOSTable"] = Block("objectT")
          /\ ptr'["pDataForStashHeavy"] = ptr["pDataForStashHeavy"]
      BY <2>9 DEF Generate, TypeOK, Pointers
    <3>3. /\ sketch'["C"].data = Block("dataC") /\ sketch'["T"].data = Block("dataT")
          /\ sketch'["T"].sketchType = "T"
      BY <2>9, <3>1 DEF Generate, Sketches, Fresh, Builds, Tree
    <3>4. NULL # Block("objectC") /\ NULL # Block("objectT")
      BY DEF NULL, Block
    <3>5. b \in NewBlocks \/ (b \in heap /\ b \notin {ptr["pDataForCUSketch"], ptr["pDataStashTable"]})
      BY <2>9 DEF Generate
    <3>6. CASE b \in NewBlocks
      <4>1. b \in {Block("objectC"), Block("objectT"), Block("dataC"), Block("dataT")}
        BY <3>6 DEF NewBlocks, Object, Tree, Sketches
      <4>2. /\ b.round = round'
            /\ b.kind \in {"objectC", "objectT"} \/ b = Block("dataC") \/ b = Block("dataT")
        BY <3>1, <4>1 DEF Block
      <4>3. CASE b = Block("dataC")
        <5>1. b.kind = "dataC"
          BY <4>3 DEF Block
        <5> QED BY <3>1, <3>2, <3>3, <3>4, <4>2, <4>3, <5>1 DEF Due
      <4>4. CASE b = Block("dataT")
        <5>1. b.kind = "dataT"
          BY <4>4 DEF Block
        <5> QED BY <3>1, <3>2, <3>3, <3>4, <4>2, <4>4, <5>1 DEF Due
      <4> QED BY <4>2, <4>3, <4>4 DEF Named, Leaked
    <3>7. CASE b \in heap /\ b \notin {ptr["pDataForCUSketch"], ptr["pDataStashTable"]}
      <4>1. Due(b) => Due(b)'
        BY <3>1, <3>2, <3>3, <3>7 DEF Due
      <4> QED BY <2>2, <3>7, <4>1
    <3> QED BY <3>5, <3>6, <3>7
  <2>10. CASE GenerateFails
    <3>1. j = 2 /\ initFails # {} /\ initFails' = initFails
      BY <2>10 DEF GenerateFails, Phase, Advance
    <3>2. b.kind = "light" => b \in heap /\ b # ptr["pDataForCUSketch"]
      <4>1. b \in NewBlocks => b.kind # "light"
        BY DEF NewBlocks, Object, Tree, Sketches, Block
      <4> QED BY <2>10, <4>1 DEF GenerateFails
    <3>3. b.kind = "light" => Named(b)'
      BY <2>2, <3>1, <3>2 DEF Due
    <3>4. b \in heap \/ b \in NewBlocks
      BY <2>10 DEF GenerateFails
    <3>5. b.kind \in Kinds
      BY <3>4, BlockIs DEF TypeOK, Blocks, NewBlocks, Object, Tree, Sketches, Kinds, Leaked
    <3> QED BY <3>1, <3>3, <3>5 DEF Named, Kinds
  <2>11. CASE (BurstAccess \/ ShortInfo) /\ enclave' # "crashed"
    <3>1. j \in {4, 5} /\ j < 6 /\ enclave' = "up" /\ UNCHANGED memory /\ noMoreTest' = noMoreTest
      BY <2>1, <2>11 DEF BurstAccess, ShortInfo, Crash, Phase, enclaveVars
    <3>2. Due(b) => Due(b)'
      BY <2>3, <3>1 DEF Due, memory
    <3> QED BY <2>2, <3>1, <3>2 DEF memory
  <2>12. CASE FreeSketches /\ enclave' # "crashed"
    <3>1. j = 6 /\ b \in heap /\ b \notin Freed
      BY <2>12 DEF FreeSketches, Crash, Phase
    <3>2. ~Due(b)
      BY <3>1 DEF Due, Freed, Sketches
    <3> QED BY <2>2, <3>1, <3>2
  <2>13. (BurstAccess \/ ShortInfo \/ FreeSketches \/ GenerateCrashes) /\ enclave' = "crashed" =>
           UNCHANGED memory
    BY <2>1 DEF BurstAccess, ShortInfo, FreeSketches, GenerateCrashes, Crash, enclaveVars
  <2>14. GenerateCrashes => enclave' = "crashed"
    BY DEF GenerateCrashes, Crash
  <2> QED
    BY <1>5, <2>4, <2>5, <2>6, <2>7, <2>8, <2>9, <2>10, <2>11, <2>12, <2>13, <2>14 DEF Call
<1> QED
  BY <1>1, <1>2, <1>3, <1>4, <1>5 DEF Next, Outside

LEMMA SameStep ==
  ASSUME TypeOK, LoopsInRange, SameEpoch, [Next]_vars
  PROVE  SameEpoch'
<1>0. initFails' = initFails
  BY BadGrows
<1>1. CASE UNCHANGED <<memory, served>>
  BY <1>0, <1>1 DEF memory, SameEpoch
<1>2. CASE Outside \/ CallCrashed \/ CallFails
  BY <1>1, <1>2 DEF Outside, ReadFails, ReadAndPack, InitializeFails, initialize_enclave, ecall_init,
     StartTest, sgx_destroy_enclave, CallCrashed, CallFails, enclaveVars
<1>3. CASE (\E k \in 0 .. 6 : Skip(k) \/ Pass(k)) \/ PrepareFails \/ GenerateCrashes \/ ShortInfo
  BY <1>1, <1>3 DEF Skip, Pass, PrepareFails, GenerateCrashes, ShortInfo, Crash, enclaveVars
<1>4. ASSUME NEW detected \in BOOLEAN, NEW built \in BOOLEAN, NEW spilled \in BOOLEAN,
             OPrepareData(detected, built, spilled)
      PROVE  SameEpoch'
  <2>1. ptr'["pDataCUSketch"].round = round /\ ptr'["pDataStashTable"].round = round
    BY <1>4 DEF OPrepareData, TypeOK, Pointers, Block
  <2> QED BY <1>0, <1>4, <2>1 DEF OPrepareData, SameEpoch
<1>5. CASE Generate
  <2>1. initFails = {} /\ ptr'["pDataCUSketch"] = NULL /\ ptr'["pDataStashTable"] = NULL
    BY <1>5 DEF Generate, TypeOK, Pointers
  <2>2. sketch'["C"].from = ptr["pDataCUSketch"].round /\ sketch'["T"].from = ptr["pDataStashTable"].round
    BY <1>5, <2>1 DEF Generate, Sketches, Fresh, Builds
  <2> QED BY <1>0, <1>5, <2>1, <2>2 DEF Generate, SameEpoch
<1>6. CASE GenerateFails
  BY <1>0, <1>6 DEF GenerateFails, SameEpoch, Bare
<1>7. CASE BurstAccess
  <2>1. CASE Usable
    <3>1. sketch["T"].data # NULL
      BY <2>1, NullIs DEF Usable, Live, TypeOK, Sketches
    <3>2. sketch["C"].from = sketch["T"].from
      BY <3>1 DEF SameEpoch
    <3>3. served'["C"] = served'["T"] /\ UNCHANGED memory
      BY <1>7, <2>1, <3>2 DEF BurstAccess, Sketches
    <3> QED BY <1>0, <3>3 DEF SameEpoch, memory
  <2>2. CASE ~Usable
    BY <1>1, <1>7, <2>2 DEF BurstAccess, Crash, enclaveVars
  <2> QED BY <2>1, <2>2
<1>8. CASE FreeSketches
  <2>1. CASE sketch' = [s \in Sketches |-> Bare]
    <3>1. sketch'["C"] = Bare /\ sketch'["T"] = Bare
      BY <2>1 DEF Sketches
    <3>2. UNCHANGED served /\ ptr'["pDataCUSketch"] = ptr["pDataCUSketch"]
          /\ ptr'["pDataStashTable"] = ptr["pDataStashTable"]
      BY <1>8 DEF FreeSketches, Crash, enclaveVars, memory, TypeOK, Pointers
    <3> QED BY <1>0, <3>1, <3>2 DEF SameEpoch, Bare
  <2>2. CASE sketch' # [s \in Sketches |-> Bare]
    BY <1>1, <1>8, <2>2 DEF FreeSketches, Crash, enclaveVars
  <2> QED BY <2>1, <2>2
<1>9. CASE UNCHANGED vars
  BY <1>1, <1>9 DEF vars, enclaveVars
<1> QED
  BY <1>2, <1>3, <1>4, <1>5, <1>6, <1>7, <1>8, <1>9 DEF Next, Outside, Call

LEMMA FreshStep ==
  ASSUME TypeOK, LoopsInRange, FreshEpoch, [Next]_vars
  PROVE  FreshEpoch'
<1> DEFINE Apart(s) == Builds(s) => ~Live(ptr[Source[s]])
           OfRound(s) == Builds(s) /\ Live(ptr[Source[s]]) => ptr[Source[s]].round = round
<1> SUFFICES ASSUME app' = "test", enclave' = "up", faulty' = {}
             PROVE  /\ j' \in {0, 3, 4, 5, 6} => \A s \in Sketches : Apart(s)'
                    /\ j' \in {1, 2} => noMoreTest' = 0 /\ \A s \in Sketches : OfRound(s)'
                    /\ j' \in 3 .. 6 /\ noMoreTest' = 0 => initFails' = {} /\ sketch'["C"].from = round'
                    /\ j' \in {5, 6} /\ noMoreTest' = 0 => served'["C"] = round'
  BY DEF FreshEpoch
<1>0. initFails' = initFails /\ faulty = {}
  BY BadGrows
<1>s. \A s \in Sketches : Source[s] \in {"pDataCUSketch", "pDataStashTable"} /\ Source[s] \in Pointers
  BY DEF Source, Sketches, Pointers
<1>n. NULL \notin heap /\ NULL \notin heap'
  <2>1. TypeOK'
    BY TypeStep
  <2> QED BY <2>1, NullIs DEF TypeOK
<1>1. CASE UNCHANGED vars
  BY <1>0, <1>1 DEF vars, appVars, enclaveVars, memory, failures, FreshEpoch, Builds, Live, round
<1>2. CASE Outside
  <2>1. StartTest /\ j' = 0 /\ app = "keyed" /\ UNCHANGED memory
    BY <1>2 DEF Outside, ReadFails, ReadAndPack, InitializeFails, initialize_enclave, ecall_init,
       StartTest, sgx_destroy_enclave, enclaveVars
  <2>2. ptr = [p \in Pointers |-> NULL] /\ heap = {}
    BY <2>1 DEF LoopsInRange
  <2>3. \A s \in Sketches : Apart(s)'
    BY <2>1, <2>2 DEF memory, Live
  <2> QED BY <2>1, <2>3
<1>3. CASE ~Outside /\ ~UNCHANGED vars
  <2>1. app = "test" /\ Advance /\ enclave = "up"
    BY <1>3 DEF Outside, Next, Call, CallCrashed, CallFails, Skip, Pass, PrepareFails, OPrepareData,
       Generate, GenerateFails, GenerateCrashes, BurstAccess, ShortInfo, FreeSketches, Phase, Crash
  <2>2. /\ j < 6 => j' = j + 1 /\ round' = round
        /\ j = 6 => j' = 0
        /\ j \in 0 .. 6
    BY <2>1, AdvanceStep DEF TypeOK
  <2>3. /\ j \in {0, 3, 4, 5, 6} => \A s \in Sketches : Apart(s)
        /\ j \in {1, 2} => noMoreTest = 0 /\ \A s \in Sketches : OfRound(s)
        /\ j \in 3 .. 6 /\ noMoreTest = 0 => initFails = {} /\ sketch["C"].from = round
        /\ j \in {5, 6} /\ noMoreTest = 0 => served["C"] = round
    BY <1>0, <2>1 DEF FreshEpoch
  \* What stays of the memory.
  <2>a. ASSUME UNCHANGED memory
        PROVE  /\ \A s \in Sketches : Apart(s) => Apart(s)'
               /\ round' = round => \A s \in Sketches : OfRound(s) => OfRound(s)'
    BY <1>0, <2>a DEF memory, Live, Builds
  <2>b. \A s \in Sketches : Apart(s) => OfRound(s)
    OBVIOUS
  <2>4. CASE CallCrashed \/ CallFails \/ GenerateCrashes
    BY <1>0, <2>1, <2>4 DEF CallCrashed, CallFails, GenerateCrashes, Crash
  <2>5. CASE \E k \in 0 .. 6 : Skip(k)
    <3>1. j \in 3 .. 6 /\ noMoreTest' # 0 /\ UNCHANGED memory
      BY <2>2, <2>3, <2>5 DEF Skip, Phase, enclaveVars
    <3>2. \A s \in Sketches : Apart(s)'
      BY <2>3, <2>a, <3>1
    <3> QED BY <2>2, <3>1, <3>2
  <2>6. CASE \E k \in 0 .. 6 : Pass(k)
    <3>1. j \in {1, 3} /\ noMoreTest = 0 /\ noMoreTest' = 0 /\ UNCHANGED <<memory, served>>
      BY <2>6 DEF Pass, Phase, enclaveVars
    <3>2. j = 1 => \A s \in Sketches : OfRound(s)'
      BY <2>2, <2>3, <2>a, <3>1
    <3>3. j = 3 => \A s \in Sketches : Apart(s)'
      BY <2>3, <2>a, <3>1
    <3> QED BY <1>0, <2>2, <2>3, <3>1, <3>2, <3>3 DEF memory
  <2>7. CASE PrepareFails
    <3>1. j = 0 /\ noMoreTest' = 0 /\ UNCHANGED memory
      BY <2>7 DEF PrepareFails, Phase
    <3>2. \A s \in Sketches : OfRound(s)'
      BY <2>2, <2>3, <2>a, <2>b, <3>1
    <3> QED BY <2>2, <3>1, <3>2
  <2>8. ASSUME NEW detected \in BOOLEAN, NEW built \in BOOLEAN, NEW spilled \in BOOLEAN,
             OPrepareData(detected, built, spilled)
        PROVE  j' = 1 /\ noMoreTest' = 0 /\ \A s \in Sketches : OfRound(s)'
    <3>1. j = 0 /\ noMoreTest' = 0
      BY <2>8 DEF OPrepareData, Phase
    <3>2. ptr'["pDataCUSketch"].round = round /\ ptr'["pDataStashTable"].round = round
      BY <2>8 DEF OPrepareData, TypeOK, Pointers, Block
    <3> QED BY <1>s, <2>2, <3>1, <3>2
  <2>9. CASE Generate
    <3>1. j = 2 /\ j' = 3 /\ initFails = {} /\ round' = round
      BY <2>2, <2>9 DEF Generate, Phase
    <3>2. ptr'["pDataCUSketch"] = NULL /\ ptr'["pDataStashTable"] = NULL
      BY <2>9 DEF Generate, TypeOK, Pointers
    <3>3. \A s \in Sketches : Apart(s)'
      BY <1>n, <1>s, <3>2 DEF Live
    <3>4. sketch'["C"].from = ptr["pDataCUSketch"].round /\ Live(ptr["pDataCUSketch"])
      BY <2>9, <3>1 DEF Generate, Sketches, Fresh, Builds
    <3>5. ptr["pDataCUSketch"].round = round
      BY <2>3, <3>1, <3>4 DEF Builds, Sketches, Source
    <3> QED BY <1>0, <3>1, <3>3, <3>4, <3>5
  <2>10. CASE GenerateFails
    <3>1. j = 2 /\ j' = 3 /\ noMoreTest' = 10
      BY <2>2, <2>10 DEF GenerateFails, Phase
    <3>2. /\ Builds("C") => ptr'["pDataCUSketch"] = NULL
          /\ Builds("T") => ptr'["pDataStashTable"] = NULL
      BY <2>10 DEF GenerateFails, TypeOK, Pointers
    <3>3. \A s \in Sketches : Apart(s)'
      BY <1>0, <1>n, <3>2 DEF Live, Builds, Source, Sketches
    <3> QED BY <3>1, <3>3
  <2>11. CASE BurstAccess
    <3>1. j = 4 /\ noMoreTest = 0 /\ noMoreTest' = 0 /\ UNCHANGED memory /\ Usable
      BY <2>1, <2>11 DEF BurstAccess, Phase, Crash
    <3>2. served'["C"] = sketch["C"].from
      BY <2>11, <3>1 DEF BurstAccess, Sketches
    <3>3. \A s \in Sketches : Apart(s)'
      BY <2>3, <2>a, <3>1
    <3> QED BY <1>0, <2>2, <2>3, <3>1, <3>2, <3>3 DEF memory
  <2>12. CASE ShortInfo
    <3>1. j = 5 /\ noMoreTest = 0 /\ noMoreTest' = 0 /\ UNCHANGED <<memory, served>>
      BY <2>1, <2>12 DEF ShortInfo, Phase, Crash, enclaveVars
    <3>2. \A s \in Sketches : Apart(s)'
      BY <2>3, <2>a, <3>1
    <3> QED BY <1>0, <2>2, <2>3, <3>1, <3>2 DEF memory
  <2>13. CASE FreeSketches
    <3>1. j = 6 /\ heap' = heap \ Freed
      BY <2>1, <2>13 DEF FreeSketches, Phase, Crash
    <3>2. /\ ptr'["pDataCUSketch"] = ptr["pDataCUSketch"]
          /\ ptr'["pDataStashTable"] = ptr["pDataStashTable"]
      BY <2>13 DEF FreeSketches, Crash, enclaveVars, memory, TypeOK, Pointers
    <3>3. \A s \in Sketches : Apart(s)'
      BY <1>0, <1>s, <2>3, <3>1, <3>2 DEF Live, Builds
    <3> QED BY <2>2, <3>1, <3>3
  <2> QED
    BY <1>3, <2>2, <2>4, <2>5, <2>6, <2>7, <2>8, <2>9, <2>10, <2>11, <2>12, <2>13
       DEF Outside, Next, Call
<1> QED BY <1>1, <1>2, <1>3

--------------------------------------------------------------------------------
\* The memory, the message and the loops of the program stay well typed: a global
\* pointer of the enclave never holds a block of another kind than its own.
THEOREM DriverTypeCorrect == Spec => [](TypeOK /\ LoopsInRange)
<1>1. Init => TypeOK /\ LoopsInRange
  BY TypeInit, LoopInit
<1>2. TypeOK /\ LoopsInRange /\ [Next]_vars => (TypeOK /\ LoopsInRange)'
  BY TypeStep, LoopStep
<1> QED
  BY <1>1, <1>2, PTL DEF Spec

LEMMA KeyAlways == Spec => []KeyKnown
<1>1. Init => KeyKnown
  BY LoopInit
<1>2. TypeOK /\ LoopsInRange /\ KeyKnown /\ [Next]_vars => KeyKnown'
  BY KeyStep
<1> QED
  BY <1>1, <1>2, DriverTypeCorrect, PTL DEF Spec

LEMMA RoundAlways == Spec => [](RoundUnderWay /\ CrashedOnce)
<1>1. Init => RoundUnderWay /\ CrashedOnce
  BY DEF Init, RoundUnderWay, CrashedOnce
<1>2. /\ TypeOK /\ LoopsInRange /\ KeyKnown /\ RoundUnderWay /\ CrashedOnce /\ [Next]_vars
      => (RoundUnderWay /\ CrashedOnce)'
  BY RoundStep, CrashedStep
<1> QED
  BY <1>1, <1>2, DriverTypeCorrect, KeyAlways, PTL DEF Spec

\* The enclave ends early only in a round in which an ecall or a malloc has failed,
\* or when the key never came: whatever the sketches come to, phases 2 to 6 of
\* ecall_fos_test read, write and free only memory that the phases before left.
THEOREM DriverCrashExplained == Spec => CrashExplained
<1>1. TypeOK /\ LoopsInRange /\ RoundUnderWay /\ [Next]_vars
      => [enclave = "up" /\ enclave' = "crashed" => {0, round} \cap (faulty \cup starved) # {}]_vars
  BY CrashStep DEF Bad
<1> QED
  BY <1>1, DriverTypeCorrect, RoundAlways, PTL DEF Spec, CrashExplained

LEMMA AccountedAlways == Spec => []Accounted
<1>1. Init => Accounted
  BY DEF Init, Accounted
<1>2. TypeOK /\ LoopsInRange /\ Accounted /\ [Next]_vars => Accounted'
  BY AccountedStep
<1> QED
  BY <1>1, <1>2, DriverTypeCorrect, PTL DEF Spec

\* Of what OPrepareData, Init_OCU and phase 2 allocate, the program loses the two
\* objects of every round, the pairs of a build of the table that gave up, the
\* counts and the bucket table of a detection of changes that gave up, and other
\* blocks only where a call has failed or a sketch could not be built.
THEOREM DriverLeaksNamed == Spec => []LeaksNamed
<1>1. TypeOK /\ LoopsInRange /\ CrashedOnce /\ Accounted => LeaksNamed
  <2> SUFFICES ASSUME TypeOK, LoopsInRange, CrashedOnce, Accounted PROVE LeaksNamed
    OBVIOUS
  <2>1. ASSUME NEW b \in Lost PROVE Named(b)
    BY <2>1, DueReachable DEF Lost, Accounted
  <2>2. ASSUME app = "tested", ~Failing, NEW b \in heap
        PROVE  b.kind \in Leaked
    <3>1. enclave # "crashed" /\ enclave # "gone" /\ ~Due(b)
      BY <2>2 DEF CrashedOnce, Failing, Bad, LoopsInRange, Due
    <3>2. Named(b)
      BY <3>1, <2>2 DEF Accounted
    <3> QED BY <2>2, <3>2 DEF Named, Failing, Bad
  <2> QED BY <2>1, <2>2 DEF LeaksNamed, Named, Bad
<1> QED
  BY <1>1, DriverTypeCorrect, RoundAlways, AccountedAlways, PTL

LEMMA FreshAlways == Spec => [](SameEpoch /\ FreshEpoch)
<1>1. Init => SameEpoch /\ FreshEpoch
  BY DEF Init, SameEpoch, FreshEpoch, Bare, Pointers, Sketches
<1>2. TypeOK /\ LoopsInRange /\ SameEpoch /\ FreshEpoch /\ [Next]_vars => (SameEpoch /\ FreshEpoch)'
  BY SameStep, FreshStep
<1> QED
  BY <1>1, <1>2, DriverTypeCorrect, PTL DEF Spec

\* Both sketches answer from one epoch, and from this round's as long as no ecall
\* has failed: Init_OCU forgets the data it has copied, so that a preparation that
\* fails leaves nothing to build from: the enclave ends before it serves old data.
THEOREM DriverServesThisRound == Spec => []ServesThisRound
<1>1. SameEpoch /\ FreshEpoch => ServesThisRound
  BY DEF SameEpoch, FreshEpoch, ServesThisRound
<1> QED
  BY <1>1, FreshAlways, PTL
--------------------------------------------------------------------------------
(* The vectors.                                                              *)

LEMMA WeightIs ==
  /\ Weight[0] = 1
  /\ \A n \in Nat : Weight[n] \in Nat \ {0} /\ Weight[n + 1] = BYTE * Weight[n]
<1> DEFINE mu == [n \in Nat |-> n]
           D  == [g \in [Nat -> Nat] |-> [n \in Nat |-> IF n = 0 THEN 1 ELSE BYTE * g[n - 1]]]
<1>1. \A n \in Nat : n # 0 => n - 1 \in Nat /\ n - 1 < n
  OBVIOUS
<1>b. BYTE \in Nat \ {0, 1}
  BY CounterAssumption
<1>2. ASSUME NEW g \in [Nat -> Nat] PROVE [n \in Nat |-> IF n = 0 THEN 1 ELSE BYTE * g[n - 1]] \in [Nat -> Nat]
  <2>1. ASSUME NEW n \in Nat PROVE (IF n = 0 THEN 1 ELSE BYTE * g[n - 1]) \in Nat
    <3>1. n # 0 => g[n - 1] \in Nat
      BY <1>1
    <3> QED
      BY <3>1, <1>b
  <2> QED
    BY <2>1
<1>3. Recursion(Nat, Nat, mu, D)
  <2>1. mu \in [Nat -> Nat] /\ D \in [[Nat -> Nat] -> [Nat -> Nat]]
    BY <1>2
  <2>2. ASSUME NEW g \in [Nat -> Nat], NEW h \in [Nat -> Nat], NEW n \in Nat,
               \A m \in Nat : mu[m] < mu[n] => g[m] = h[m]
        PROVE  D[g][n] = D[h][n]
    <3>1. n # 0 => g[n - 1] = h[n - 1]
      BY <1>1, <2>2
    <3> QED
      BY <3>1
  <2> HIDE DEF mu, D
  <2> QED
    BY <2>1, <2>2 DEF Recursion
<1>4. PICK f : Solution(Nat, Nat, D, f)
  <2> HIDE DEF mu, D
  <2>1. Nat # {}
    OBVIOUS
  <2> QED
    BY <1>3, <2>1, RecursionExists
<1>5. f = [n \in Nat |-> IF n = 0 THEN 1 ELSE BYTE * f[n - 1]]
  BY <1>4 DEF Solution
<1>6. Weight = [n \in Nat |-> IF n = 0 THEN 1 ELSE BYTE * Weight[n - 1]]
  BY <1>5, Zenon DEF Weight
<1>7. Weight[0] = 1
  BY <1>6
<1>8. \A n \in Nat : Weight[n + 1] = BYTE * Weight[n]
  <2> TAKE n \in Nat
  <2>1. n + 1 \in Nat /\ n + 1 # 0 /\ (n + 1) - 1 = n
    OBVIOUS
  <2> QED
    BY <1>6, <2>1
<1> DEFINE T == {n \in Nat : Weight[n] \in Nat \ {0}}
<1>9. 0 \in T
  BY <1>7
<1>10. ASSUME NEW n \in T PROVE n + 1 \in T
  <2>1. n \in Nat /\ Weight[n] \in Nat \ {0} /\ n + 1 \in Nat
    OBVIOUS
  <2>2. BYTE * Weight[n] \in Nat \ {0}
    BY <1>b, <2>1
  <2> QED
    BY <1>8, <2>1, <2>2
<1>11. T = Nat
  <2> HIDE DEF T
  <2>1. T \in SUBSET Nat
    BY DEF T
  <2> QED
    BY <1>9, <1>10, <2>1, AllNat
<1> QED
  BY <1>7, <1>8, <1>11

LEMMA CtrPartsIs ==
  ASSUME NEW c \in IV
  PROVE  /\ CtrParts(c)[0] = 0
         /\ \A n \in Bytes : CtrParts(c)[n] = CtrParts(c)[n - 1] + c[n] * Weight[n - 1]
<1> DEFINE N == 0 .. GCM_IV_SIZE
           mu == [n \in N |-> n]
           D  == [g \in [N -> Nat] |-> [n \in N |-> IF n = 0 THEN 0 ELSE g[n - 1] + c[n] * Weight[n - 1]]]
<1>s. GCM_IV_SIZE \in Nat \ {0}
  BY CounterAssumption
<1>1. \A n \in N : n # 0 => n - 1 \in N /\ n - 1 < n /\ n \in Bytes /\ n - 1 \in Nat
  BY <1>s DEF Bytes
<1>c. \A n \in Bytes : c[n] \in Nat
  BY CounterAssumption DEF IV
<1>2. ASSUME NEW g \in [N -> Nat]
      PROVE  [n \in N |-> IF n = 0 THEN 0 ELSE g[n - 1] + c[n] * Weight[n - 1]] \in [N -> Nat]
  <2>1. ASSUME NEW n \in N PROVE (IF n = 0 THEN 0 ELSE g[n - 1] + c[n] * Weight[n - 1]) \in Nat
    <3>1. n # 0 => g[n - 1] \in Nat /\ c[n] \in Nat /\ Weight[n - 1] \in Nat
      <4> HIDE DEF N
      <4> QED
        BY <1>1, <1>c, WeightIs
    <3> QED
      BY <3>1
  <2> HIDE DEF N
  <2> QED
    BY <2>1
<1>3. Recursion(N, Nat, mu, D)
  <2>1. mu \in [N -> Nat]
    BY <1>s
  <2>2. D \in [[N -> Nat] -> [N -> Nat]]
    <3> HIDE DEF N
    <3> QED
      BY <1>2
  <2>3. ASSUME NEW g \in [N -> Nat], NEW h \in [N -> Nat], NEW n \in N,
               \A m \in N : mu[m] < mu[n] => g[m] = h[m]
        PROVE  D[g][n] = D[h][n]
    <3> HIDE DEF N
    <3>1. n # 0 => g[n - 1] = h[n - 1]
      BY <1>1, <2>3
    <3> QED
      BY <3>1
  <2> HIDE DEF mu, D, N
  <2> QED
    BY <2>1, <2>2, <2>3 DEF Recursion
<1>4. PICK f : Solution(N, Nat, D, f)
  <2> HIDE DEF mu, D, N
  <2>1. Nat # {}
    OBVIOUS
  <2> QED
    BY <1>3, <2>1, RecursionExists
<1>5. f = [n \in N |-> IF n = 0 THEN 0 ELSE f[n - 1] + c[n] * Weight[n - 1]]
  <2> HIDE DEF N
  <2> QED
    BY <1>4 DEF Solution
<1>6. CtrParts(c) = [n \in N |-> IF n = 0 THEN 0 ELSE CtrParts(c)[n - 1] + c[n] * Weight[n - 1]]
  BY <1>5, Zenon DEF CtrParts
<1>7. 0 \in N /\ \A n \in Bytes : n \in N /\ n # 0
  BY <1>s DEF Bytes
<1> HIDE DEF N
<1> QED
  BY <1>6, <1>7

LEMMA IncrIn == ASSUME NEW c \in IV PROVE incr_ctr(c) \in IV
<1>1. ASSUME NEW k \in Bytes
      PROVE  (IF \A m \in 1 .. k - 1 : c[m] = BYTE - 1 THEN (c[k] + 1) % BYTE ELSE c[k]) \in 0 .. BYTE - 1
  <2>1. c[k] \in 0 .. BYTE - 1
    BY DEF IV
  <2>2. (c[k] + 1) % BYTE \in 0 .. BYTE - 1
    BY CounterAssumption, <2>1
  <2> QED
    BY <2>1, <2>2
<1> QED
  BY <1>1 DEF incr_ctr, IV

\* What the first n bytes stand for before and after incr_ctr: it is one more, or
\* all of them were at their highest and are 0 now.
Counts(c, n) ==
  LET before == CtrParts(c)[n]  after == CtrParts(incr_ctr(c))[n]
  IN /\ before \in Nat /\ after \in Nat /\ after < Weight[n]
     /\ IF \A m \in 1 .. n : c[m] = BYTE - 1 THEN before = Weight[n] - 1 /\ after = 0 ELSE after = before + 1

LEMMA CountsByByte ==
  ASSUME NEW c \in IV, NEW n \in Nat, n + 1 \in Bytes, Counts(c, n)
  PROVE  Counts(c, n + 1)
<1> DEFINE top == BYTE - 1
<1>b. BYTE \in Nat /\ top \in Nat /\ top # 0 /\ BYTE = top + 1
  BY CounterAssumption
<1>1. PICK a : a = c[n + 1]
  OBVIOUS
<1>2. PICK d : d = incr_ctr(c)[n + 1]
  OBVIOUS
<1>3. PICK w : w = Weight[n]
  OBVIOUS
<1>4. PICK x : x = CtrParts(c)[n]
  OBVIOUS
<1>5. PICK y : y = CtrParts(incr_ctr(c))[n]
  OBVIOUS
<1>6. a \in 0 .. top
  BY <1>1, <1>b DEF IV
<1>7. w \in Nat \ {0} /\ Weight[n + 1] = BYTE * w
  BY <1>3, WeightIs
<1>8. \A m \in 1 .. n : m \in Bytes
  BY CounterAssumption DEF Bytes
<1>9. d = IF \A m \in 1 .. n : c[m] = top THEN (a + 1) % BYTE ELSE a
  <2>1. (n + 1) - 1 = n
    OBVIOUS
  <2> QED
    BY <1>1, <1>2, <2>1 DEF incr_ctr
<1>10. incr_ctr(c) \in IV
  BY IncrIn
<1>11. CtrParts(c)[n + 1] = x + a * w /\ CtrParts(incr_ctr(c))[n + 1] = y + d * w
  <2>1. (n + 1) - 1 = n
    OBVIOUS
  <2> QED
    BY <1>1, <1>2, <1>3, <1>4, <1>5, <1>10, <2>1, CtrPartsIs
<1>12. /\ x \in Nat /\ y \in Nat /\ y < w
       /\ IF \A m \in 1 .. n : c[m] = top THEN x = w - 1 /\ y = 0 ELSE y = x + 1
  BY <1>3, <1>4, <1>5 DEF Counts
<1>13. (\A m \in 1 .. n + 1 : c[m] = top) <=> (\A m \in 1 .. n : c[m] = top) /\ a = top
  <2>1. \A m \in 1 .. n + 1 : m \in 1 .. n \/ m = n + 1
    OBVIOUS
  <2>2. n + 1 \in 1 .. n + 1 /\ \A m \in 1 .. n : m \in 1 .. n + 1
    OBVIOUS
  <2> QED
    BY <1>1, <2>1, <2>2
<1>14. a * w \in Nat /\ top * w \in Nat /\ BYTE * w = top * w + w /\ (a + 1) * w = a * w + w
  BY <1>b, <1>6, <1>7
<1>15. a * w <= top * w
  BY <1>b, <1>6, <1>7, ProductUp
<1> DEFINE full == \A m \in 1 .. n : c[m] = top
<1> SUFFICES /\ x + a * w \in Nat /\ y + d * w \in Nat /\ y + d * w < BYTE * w
             /\ IF full /\ a = top THEN x + a * w = BYTE * w - 1 /\ y + d * w = 0
                ELSE y + d * w = x + a * w + 1
  BY <1>7, <1>11, <1>13 DEF Counts
<1>16. CASE full /\ a = top
  <2>1. d = 0
    BY <1>9, <1>16, <1>b
  <2>2. d * w = 0
    BY <2>1, <1>7
  <2> HIDE DEF top, full
  <2> QED
    BY <1>7, <1>12, <1>14, <1>16, <2>2 DEF full
<1>17. CASE full /\ a # top
  <2>1. a + 1 < BYTE /\ a + 1 \in Nat
    BY <1>6, <1>b, <1>17
  <2>2. d = a + 1
    BY <1>9, <1>17, <1>b, <2>1
  <2>3. d * w = a * w + w
    BY <1>14, <2>2
  <2>4. (a + 1) * w <= top * w
    BY <1>b, <1>6, <1>7, <2>1, ProductUp
  <2> HIDE DEF top, full
  <2> QED
    BY <1>7, <1>12, <1>14, <1>17, <2>3, <2>4 DEF full
<1>18. CASE ~full
  <2>1. d = a
    BY <1>9, <1>18
  <2> HIDE DEF top, full
  <2> QED
    BY <1>7, <1>12, <1>14, <1>15, <1>18, <2>1 DEF full
<1> QED
  BY <1>16, <1>17, <1>18

LEMMA CtrIncremented ==
  ASSUME NEW c \in IV
  PROVE  CtrValue(incr_ctr(c)) = (CtrValue(c) + 1) % Weight[GCM_IV_SIZE]
<1>s. GCM_IV_SIZE \in Nat \ {0}
  BY CounterAssumption
<1> DEFINE T == {n \in Nat : n <= GCM_IV_SIZE => Counts(c, n)}
<1>i. incr_ctr(c) \in IV
  BY IncrIn
<1>1. 0 \in T
  <2>1. CtrParts(c)[0] = 0 /\ CtrParts(incr_ctr(c))[0] = 0 /\ Weight[0] = 1
    BY <1>i, CtrPartsIs, WeightIs
  <2>2. \A m \in 1 .. 0 : c[m] = BYTE - 1
    OBVIOUS
  <2> QED
    BY <2>1, <2>2 DEF Counts
<1>2. ASSUME NEW n \in T PROVE n + 1 \in T
  <2>1. n \in Nat /\ (n <= GCM_IV_SIZE => Counts(c, n))
    OBVIOUS
  <2>2. n + 1 <= GCM_IV_SIZE => n + 1 \in Bytes /\ n <= GCM_IV_SIZE
    BY <1>s, <2>1 DEF Bytes
  <2>3. n + 1 <= GCM_IV_SIZE => Counts(c, n + 1)
    BY <2>1, <2>2, CountsByByte
  <2> QED
    BY <2>1, <2>3
<1>3. T = Nat
  <2> HIDE DEF T
  <2>1. T \in SUBSET Nat
    BY DEF T
  <2> QED
    BY <1>1, <1>2, <2>1, AllNat
<1>4. Counts(c, GCM_IV_SIZE)
  <2>1. GCM_IV_SIZE \in T
    BY <1>3, <1>s
  <2> QED
    BY <1>s, <2>1
<1>5. PICK x : x = CtrValue(c)
  OBVIOUS
<1>6. PICK y : y = CtrValue(incr_ctr(c))
  OBVIOUS
<1>7. PICK w : w = Weight[GCM_IV_SIZE]
  OBVIOUS
<1>8. w \in Nat \ {0} /\ x \in Nat /\ y \in Nat /\ y < w /\ ((x = w - 1 /\ y = 0) \/ y = x + 1)
  BY <1>4, <1>5, <1>6, <1>7, <1>s, WeightIs DEF Counts, CtrValue
<1>9. y = (x + 1) % w
  <2>1. CASE x = w - 1 /\ y = 0
    <3>1. x + 1 = w /\ w % w = 0
      BY <1>8, <2>1
    <3> QED
      BY <2>1, <3>1
  <2>2. CASE y = x + 1
    BY <1>8, <2>2
  <2> QED
    BY <1>8, <2>1, <2>2
<1> QED
  BY <1>5, <1>6, <1>7, <1>9

\* The vector of the context, from the moment it is drawn.
VectorKept ==
  /\ iv0 \in IV
  /\ global_ctx.key # "none" => global_ctx.IV = incr_ctr(iv0) /\ msgSketch.iv = iv0

LEMMA VectorStep == VectorKept /\ [Next]_vars => VectorKept'
<1> SUFFICES ASSUME VectorKept, [Next]_vars PROVE VectorKept'
  OBVIOUS
<1>1. CASE ReadAndPack
  <2>1. PICK drawn : drawn = [key |-> "key", IV |-> iv0]
    OBVIOUS
  <2>2. PICK next : next = incr_ctr(iv0)
    OBVIOUS
  <2>3. global_ctx' = [drawn EXCEPT !.IV = next] /\ msgSketch' = Packed("sketches", drawn) /\ iv0' = iv0
    BY <1>1, <2>1, <2>2 DEF ReadAndPack
  <2>4. global_ctx'.IV = next /\ msgSketch'.iv = iv0
    BY <2>1, <2>3 DEF Packed
  <2> QED
    BY <2>2, <2>3, <2>4 DEF VectorKept
<1>2. CASE ~ReadAndPack
  <2>1. UNCHANGED <<global_ctx, msgSketch, iv0>>
    BY <1>2 DEF Next, Call, ReadFails, InitializeFails, initialize_enclave, ecall_init, StartTest,
       sgx_destroy_enclave, CallCrashed, CallFails, Skip, Pass, PrepareFails, OPrepareData, Generate,
       GenerateFails, GenerateCrashes, BurstAccess, ShortInfo, FreeSketches, Phase, Advance, vars, appVars
  <2> QED
    BY <2>1 DEF VectorKept
<1> QED
  BY <1>1, <1>2

\* The message has the vector that alloc_gcm drew, and the context then has the
\* next one: incr_ctr counts, with its carry through all the bytes that are full,
\* and repeats a vector only after all of them (CommonUtil.c:7-13, Message.c:7-33),
\* for bytes and vectors of any size.
THEOREM DriverFreshVector == Spec => []FreshVector
<1>1. Init => VectorKept
  BY DEF Init, VectorKept
<1>2. VectorKept => FreshVector
  BY CtrIncremented DEF VectorKept, FreshVector
<1> QED
  BY <1>1, <1>2, VectorStep, PTL DEF Spec
================================================================================
