--------------------------------- MODULE Driver --------------------------------
(***************************************************************************)
(* The program around the sketches: main and FOS_test_ecall of App.cpp pack   *)
(* one message and call ecall_fos_test (Enclave.cpp) seven times for every    *)
(* block size, and the enclave prepares the epoch, builds two sketches from    *)
(* it, answers accesses and frees the sketches.                               *)
(*                                                                         *)
(* What is modelled of the enclave is the life of its memory: which blocks     *)
(* are allocated, what the global pointers and the two objects hold, and       *)
(* which of them a call reads, frees and overwrites.  To read or free what     *)
(* is not there ends the enclave.  An ecall may fail, and malloc may: main      *)
(* looks at the status of none of its ecalls.                                 *)
(***************************************************************************)
EXTENDS Message, FiniteSets

CONSTANTS
  Options,       \* what -H and -L may say
  InitFailures,  \* the sketches whose tree has too many levels
  MaxFaults      \* bound: rounds in which ecalls and mallocs fail

Sketches == {"C", "T"}

ASSUME DriverAssumption ==
  /\ Options \subseteq (0 .. 255) \X (0 .. 255)
  /\ InitFailures \subseteq SUBSET Sketches
  /\ MaxFaults \in Nat

VARIABLES
  app,            \* how far main is
  sizeBlockH, sizeBlockL,
  i, j,           \* the loops of FOS_test_ecall: block size and phase
  global_ctx,     \* the context of the application
  ctx,            \* and that of the enclave
  msgSketch,
  enclave,        \* "none", "up", "crashed" or "gone"
  noMoreTest,
  initFails,      \* the sketches that Init_OCU cannot build
  heap,           \* the live blocks of the enclave
  ptr,            \* the global pointers
  sketch,         \* the objects that pOCUSketch and pOSTable point to
  stashUsed,      \* countStash > 0: there are heavy flows in the stash
  served,         \* the rounds whose data the last accesses read
  faulty,         \* the rounds in which an ecall has failed (0: before them)
  starved,        \* the rounds in which the malloc of OPrepareData has failed
  iv0             \* the random vector that alloc_gcm has drawn

appVars     == <<app, sizeBlockH, sizeBlockL, i, j, global_ctx, msgSketch>>
memory      == <<heap, ptr, sketch, stashUsed>>
enclaveVars == <<ctx, noMoreTest, memory, served>>
failures    == <<faulty, starved>>
vars        == <<appVars, enclave, enclaveVars, initFails, failures, iv0>>

NULL == [kind |-> "NULL", round |-> 0]

round    == sizeBlockH - i + 1
Block(k) == [kind |-> k, round |-> round]

Pointers == {"pDataForCUSketch", "pDataCUSketch", "pDataStashTable", "pDataForStashHeavy",
             "pOCUSketch", "pOSTable"}

\* An object without its memory, as an init that failed and free_OCU leave it.
Bare == [sketchType |-> "X", data |-> NULL, from |-> 0]

MayFail == Cardinality(faulty) + Cardinality(starved) < MaxFaults

Init ==
  /\ app = "start" /\ enclave = "none"
  /\ \E o \in Options : sizeBlockH = o[1] /\ sizeBlockL = o[2]
  /\ i = 0 /\ j = 0
  /\ iv0 \in IV
  /\ global_ctx = [key |-> "none", IV |-> [k \in Bytes |-> 0]]
  /\ ctx = [key |-> "zero", IV |-> [k \in Bytes |-> 0]]
  /\ msgSketch = [iv |-> Nothing.iv, cipher |-> Nothing]
  /\ noMoreTest = 0
  /\ initFails \in InitFailures
  /\ heap = {} /\ ptr = [p \in Pointers |-> NULL]
  /\ sketch = [s \in Sketches |-> Bare]
  /\ stashUsed = FALSE
  /\ served = [s \in Sketches |-> 0]
  /\ faulty = {} /\ starved = {}
--------------------------------------------------------------------------------
(* The application *)

\* readSketchFile ends the program when a file is missing or short.
ReadFails ==
  /\ app = "start" /\ app' = "ended"
  /\ UNCHANGED <<sizeBlockH, sizeBlockL, i, j, global_ctx, msgSketch, enclave, enclaveVars, initFails, failures, iv0>>

\* alloc_gcm, then the one message of the program.
ReadAndPack ==
  /\ app = "start" /\ app' = "packed"
  /\ LET drawn == [key |-> "key", IV |-> iv0] IN
       /\ msgSketch' = Packed("sketches", drawn)
       /\ global_ctx' = [drawn EXCEPT !.IV = incr_ctr(@)]
  /\ UNCHANGED <<sizeBlockH, sizeBlockL, i, j, enclave, enclaveVars, initFails, failures, iv0>>

InitializeFails ==
  /\ app = "packed" /\ app' = "ended"
  /\ UNCHANGED <<sizeBlockH, sizeBlockL, i, j, global_ctx, msgSketch, enclave, enclaveVars, initFails, failures, iv0>>

initialize_enclave ==
  /\ app = "packed" /\ app' = "created"
  /\ enclave' = "up"
  /\ UNCHANGED <<sizeBlockH, sizeBlockL, i, j, global_ctx, msgSketch, enclaveVars, initFails, failures, iv0>>

\* ecall_init copies the key, or fails.
ecall_init(ok) ==
  /\ app = "created" /\ app' = "keyed"
  /\ ~ok => MayFail
  /\ ctx' = IF ok THEN [ctx EXCEPT !.key = global_ctx.key] ELSE ctx
  /\ faulty' = IF ok THEN faulty ELSE faulty \cup {0}
  /\ UNCHANGED <<sizeBlockH, sizeBlockL, i, j, global_ctx, msgSketch, enclave, noMoreTest, memory,
                 served, initFails, starved, iv0>>

\* FOS_test_ecall limits the sizes and then exchanges them.
StartTest ==
  /\ app = "keyed" /\ app' = "test"
  /\ LET h == IF sizeBlockH > 7 THEN 7 ELSE sizeBlockH
         l == IF sizeBlockL < 1 THEN 1 ELSE sizeBlockL
     IN /\ sizeBlockH' = IF h < l THEN l ELSE h
        /\ sizeBlockL' = IF h < l THEN h ELSE l
  /\ i' = sizeBlockH' /\ j' = 0
  /\ UNCHANGED <<global_ctx, msgSketch, enclave, enclaveVars, initFails, failures, iv0>>

\* Mutant: the phases begin again with the same block size.
AdvanceSameSize ==
  /\ j' = IF j < 6 THEN j + 1 ELSE 0
  /\ UNCHANGED <<app, i, sizeBlockH, sizeBlockL, global_ctx, msgSketch, initFails, iv0>>

\* The next phase, the next block size, the end of the loops.
Advance ==
  /\ j' = IF j < 6 THEN j + 1 ELSE 0
  /\ i' = IF j < 6 THEN i ELSE i - 1
  /\ app' = IF j = 6 /\ i = sizeBlockL THEN "tested" ELSE "test"
  /\ UNCHANGED <<sizeBlockH, sizeBlockL, global_ctx, msgSketch, initFails, iv0>>

\* Every call to a crashed enclave fails; the loops go on.
CallCrashed ==
  /\ app = "test" /\ enclave = "crashed"
  /\ Advance
  /\ UNCHANGED <<enclave, enclaveVars, failures>>

CallFails ==
  /\ app = "test" /\ enclave = "up"
  /\ MayFail
  /\ faulty' = faulty \cup {round}
  /\ Advance
  /\ UNCHANGED <<enclave, enclaveVars, starved>>

sgx_destroy_enclave ==
  /\ app = "tested" /\ app' = "ended"
  /\ enclave' = "gone"
  /\ UNCHANGED <<sizeBlockH, sizeBlockL, i, j, global_ctx, msgSketch, enclaveVars, initFails, failures, iv0>>
--------------------------------------------------------------------------------
(* The enclave: the phases of ecall_fos_test *)

Phase(k) == app = "test" /\ enclave = "up" /\ j = k /\ Advance

Live(p) == p \in heap

\* Memory that is not there has been read, written or freed.
Crash == enclave' = "crashed" /\ UNCHANGED <<enclaveVars, failures>>

\* After a sketch could not be built, the phases up to the next 0 do nothing.
Skip(k) == Phase(k) /\ k > 0 /\ noMoreTest > 0 /\ UNCHANGED <<enclave, enclaveVars, failures>>

\* Phases 1 and 3 hold tests that are commented out.
Pass(k) == Phase(k) /\ k \in {1, 3} /\ noMoreTest = 0 /\ UNCHANGED <<enclave, enclaveVars, failures>>

\* OPrepareData returns early, on a decryption or a malloc that fails; phase 0
\* does not look at what it returns.
PrepareFails ==
  /\ Phase(0)
  /\ \/ /\ Unpacked(msgSketch, ctx) = Failed
        /\ UNCHANGED starved
     \/ /\ MayFail
        /\ starved' = starved \cup {round}
  /\ noMoreTest' = 0
  /\ UNCHANGED <<enclave, ctx, memory, served, faulty>>

\* What OHeavyChange and OBuildSTable allocate for themselves and do not free when
\* they give up: every `return 0` of the one comes before its frees, and so does
\* the `return false` of the other, which finds the stash full.
LeftBy(detected, built) ==
  (IF detected THEN {} ELSE {Block("idcList"), Block("BucketTable")})
    \cup (IF built THEN {} ELSE {Block("pairs")})

\* OPrepareData to its end, whatever its two builds come to: what the pointers held
\* before is not freed.
OPrepareData(detected, built, spilled) ==
  /\ Phase(0)
  /\ Unpacked(msgSketch, ctx) # Failed
  /\ ~built => spilled
  /\ noMoreTest' = 0 /\ stashUsed' = spilled
  /\ heap' = heap \cup {Block("light"), Block("table"), Block("stashHeavy")}
                  \cup LeftBy(detected, built)
  /\ ptr' = [ptr EXCEPT !["pDataForCUSketch"] = Block("light"), !["pDataCUSketch"] = Block("light"),
                        !["pDataStashTable"] = Block("table"), !["pDataForStashHeavy"] = Block("stashHeavy")]
  /\ UNCHANGED <<enclave, ctx, sketch, served, failures>>

Object == [C |-> "objectC", T |-> "objectT"]
Tree   == [C |-> "dataC", T |-> "dataT"]

Builds(s) == s \notin initFails

\* A new object: its tree, filled from the source, or nothing.
Fresh(s, source) ==
  IF Builds(s) THEN [sketchType |-> s, data |-> Block(Tree[s]), from |-> source.round] ELSE Bare

\* What Init_OCU allocates for the sketches that it builds.
NewBlocks ==
  {Block(Object[s]) : s \in Sketches} \cup {Block(Tree[s]) : s \in {t \in Sketches : Builds(t)}}

\* Mutant: Init_OCU does not free the data it has copied.
GenerateKeeping ==
  /\ Phase(2) /\ noMoreTest = 0
  /\ (Builds("C") => Live(ptr["pDataCUSketch"])) /\ (Builds("T") => Live(ptr["pDataStashTable"]))
  /\ initFails = {}
  /\ sketch' = [s \in Sketches |-> Fresh(s, ptr[IF s = "C" THEN "pDataCUSketch" ELSE "pDataStashTable"])]
  /\ heap' = heap \cup NewBlocks
  /\ ptr' = [ptr EXCEPT !["pOCUSketch"] = Block("objectC"), !["pOSTable"] = Block("objectT")]
  /\ UNCHANGED <<enclave, ctx, noMoreTest, stashUsed, served, failures>>

\* Two new sketches.  Init_OCU copies its source and frees it.
Generate ==
  /\ Phase(2) /\ noMoreTest = 0
  /\ Builds("C") => Live(ptr["pDataCUSketch"])
  /\ Builds("T") => Live(ptr["pDataStashTable"])
  /\ initFails = {}
  /\ sketch' = [s \in Sketches |-> Fresh(s, ptr[IF s = "C" THEN "pDataCUSketch" ELSE "pDataStashTable"])]
  /\ heap' = (heap \ {ptr["pDataForCUSketch"], ptr["pDataStashTable"]}) \cup NewBlocks
  /\ ptr' = [ptr EXCEPT !["pDataForCUSketch"] = NULL, !["pDataCUSketch"] = NULL, !["pDataStashTable"] = NULL,
                        !["pOCUSketch"] = Block("objectC"), !["pOSTable"] = Block("objectT")]
  /\ UNCHANGED <<enclave, ctx, noMoreTest, stashUsed, served, failures>>

\* Mutant: the later phases are not stopped.
GenerateFailsUnnoticed ==
  /\ Phase(2) /\ noMoreTest = 0 /\ initFails # {}
  /\ Builds("C") => Live(ptr["pDataCUSketch"])
  /\ Builds("T") => Live(ptr["pDataStashTable"])
  /\ heap' = ((heap \cup NewBlocks) \ {Block("objectT"), ptr["pDataForCUSketch"]})
               \ (IF Builds("T") THEN {ptr["pDataStashTable"]} ELSE {})
  /\ sketch' = [C |-> Fresh("C", ptr["pDataCUSketch"]), T |-> Bare]
  /\ ptr' = [ptr EXCEPT !["pDataForCUSketch"] = NULL, !["pOCUSketch"] = Block("objectC"), !["pOSTable"] = NULL]
  /\ UNCHANGED <<enclave, ctx, noMoreTest, stashUsed, served, failures>>

\* One of them, or both, could not be built, and has left its source.  The driver
\* frees the light part and the object of the table, without its destructor.
GenerateFails ==
  /\ Phase(2) /\ noMoreTest = 0
  /\ Builds("C") => Live(ptr["pDataCUSketch"])
  /\ Builds("T") => Live(ptr["pDataStashTable"])
  /\ initFails # {}
  /\ sketch' = [C |-> Fresh("C", ptr["pDataCUSketch"]), T |-> Bare]
  /\ heap' = ((heap \cup NewBlocks) \ {Block("objectT"), ptr["pDataForCUSketch"]})
               \ (IF Builds("T") THEN {ptr["pDataStashTable"]} ELSE {})
  /\ ptr' = [ptr EXCEPT !["pDataForCUSketch"] = NULL,
                        !["pDataCUSketch"] = IF Builds("C") THEN NULL ELSE @,
                        !["pDataStashTable"] = IF Builds("T") THEN NULL ELSE @,
                        !["pOCUSketch"] = Block("objectC"), !["pOSTable"] = NULL]
  /\ noMoreTest' = 10
  /\ UNCHANGED <<enclave, ctx, stashUsed, served, failures>>

\* There is no source to copy: no preparation in this round.
GenerateCrashes ==
  /\ Phase(2) /\ noMoreTest = 0
  /\ \/ Builds("C") /\ ~Live(ptr["pDataCUSketch"])
     \/ Builds("T") /\ ~Live(ptr["pDataStashTable"])
  /\ Crash

\* The objects are there, and hold their trees.
Usable ==
  /\ Live(ptr["pOCUSketch"]) /\ Live(ptr["pOSTable"])
  /\ \A s \in Sketches : Live(sketch[s].data)
  /\ stashUsed => Live(ptr["pDataForStashHeavy"])

\* OBurstAccessFID of both: OAccessFID reads the trees, and the stash of heavy flows.
BurstAccess ==
  /\ Phase(4) /\ noMoreTest = 0
  /\ IF Usable
     THEN /\ served' = [s \in Sketches |-> sketch[s].from]
          /\ UNCHANGED <<enclave, ctx, noMoreTest, memory, failures>>
     ELSE Crash

ShortInfo ==
  /\ Phase(5) /\ noMoreTest = 0
  /\ IF Live(ptr["pOCUSketch"]) /\ Live(ptr["pOSTable"])
     THEN UNCHANGED <<enclave, enclaveVars, failures>>
     ELSE Crash

\* Mutant: the type is reset before it is looked at.
FreedWithoutStash == {sketch[s].data : s \in Sketches}

\* What free_OCU frees of both objects: the trees, and with a table the stash.
Freed ==
  {sketch[s].data : s \in Sketches}
    \cup (IF sketch["T"].sketchType = "T" THEN {ptr["pDataForStashHeavy"]} ELSE {})

\* free_OCU of both; the objects themselves are not deleted, only forgotten.
FreeSketches ==
  /\ Phase(6) /\ noMoreTest = 0
  /\ IF Live(ptr["pOCUSketch"]) /\ Live(ptr["pOSTable"]) /\ Freed \subseteq heap \cup {NULL}
     THEN /\ heap' = heap \ Freed
          /\ ptr' = [ptr EXCEPT !["pOCUSketch"] = NULL, !["pOSTable"] = NULL,
                                !["pDataForStashHeavy"] = IF @ \in Freed THEN NULL ELSE @]
          /\ sketch' = [s \in Sketches |-> Bare]
          /\ UNCHANGED <<enclave, ctx, noMoreTest, stashUsed, served, failures>>
     ELSE Crash

Call ==
  \/ \E k \in 0 .. 6 : Skip(k) \/ Pass(k)
  \/ PrepareFails \/ \E detected, built, spilled \in BOOLEAN : OPrepareData(detected, built, spilled)
  \/ Generate \/ GenerateFails \/ GenerateCrashes
  \/ BurstAccess \/ ShortInfo \/ FreeSketches

Next ==
  \/ ReadFails \/ ReadAndPack \/ InitializeFails \/ initialize_enclave
  \/ (\E ok \in BOOLEAN : ecall_init(ok)) \/ StartTest
  \/ Call \/ CallCrashed \/ CallFails
  \/ sgx_destroy_enclave

Spec == Init /\ [][Next]_vars /\ WF_vars(Next)
--------------------------------------------------------------------------------
(* Properties *)

Failing == faulty \cup starved # {} \/ initFails # {}

\* The enclave reads, writes and frees only memory that is there, also when the
\* sketches cannot be built: it ends early only in a round in which an ecall or a
\* malloc has failed, or when the key never came.
CrashExplained ==
  [][enclave = "up" /\ enclave' = "crashed" => {0, round} \cap (faulty \cup starved) # {}]_vars

\* A block that nothing points to any more.
Reachable ==
  {ptr[p] : p \in Pointers} \cup {sketch[s].data : s \in {t \in Sketches :
     ptr[IF t = "C" THEN "pOCUSketch" ELSE "pOSTable"] # NULL}}
Lost == heap \ Reachable

\* The kinds of block that a round may lose without any call having failed.
Leaked == {"objectC", "objectT", "pairs", "idcList", "BucketTable"}

\* What the program loses: the two objects of every round, which phase 6 forgets
\* without a delete, the list of pairs of a build of the heavy table that gave up,
\* and the counts and the bucket table of a detection of changes that gave up.
\* Every other block is lost only where a call has failed, or when a sketch could
\* not be built; the light part not even then.
LeaksNamed ==
  /\ \A b \in Lost :
       \/ b.kind \in Leaked
       \/ b.round \in faulty \cup starved
       \/ initFails # {} /\ b.kind \in {"dataC", "dataT", "table", "stashHeavy"}
  /\ app = "tested" /\ ~Failing => \A b \in heap : b.kind \in Leaked

\* Accesses read the data of one epoch in both sketches, and, as long as no ecall
\* has failed, the epoch of this round: a preparation that fails never lets the
\* sketches be built from the data of the round before.
ServesThisRound ==
  /\ served["C"] = served["T"]
  /\ app = "test" /\ j = 5 /\ enclave = "up" /\ noMoreTest = 0 /\ faulty = {} => served["C"] = round

\* The vector of the next message is another one: as a number, it is one higher,
\* and starts again only after all of them.
FreshVector ==
  app \notin {"start"} /\ global_ctx.key # "none" =>
    /\ CtrValue(global_ctx.IV) = (CtrValue(iv0) + 1) % Weight[GCM_IV_SIZE]
    /\ msgSketch.iv = iv0

\* The program ends, whatever its calls come to.
AppEnds == <>(app = "ended")
================================================================================
