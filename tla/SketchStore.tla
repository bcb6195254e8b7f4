------------------------------ MODULE SketchStore ------------------------------
(***************************************************************************)
(* What a PORAM instance promises to the sketch that sits on top of it: a   *)
(* read-only array of blocks.  Each block is copied from the plain sketch   *)
(* when the instance is built, or is missing because its bucket was full;   *)
(* an access returns the block, and an access to a missing block installs  *)
(* a block of zero counters and returns that.                              *)
(***************************************************************************)
EXTENDS Integers

CONSTANT Bid          \* block identifiers

VARIABLES store,      \* what an access to each block would find
          filled,     \* the instance is built, accesses may begin
          answer      \* what the last access returned

vars == <<store, filled, answer>>

Contents == {"copied", "zeroed", "missing"}
NoAnswer == [bid |-> -1, data |-> "none"]

Init == /\ store = [b \in Bid |-> "missing"]
        /\ filled = FALSE
        /\ answer = NoAnswer

\* Building the instance copies blocks in, some of them never.
Fill(S, done) == /\ ~filled
                 /\ store' = [b \in Bid |-> IF b \in S THEN "copied" ELSE store[b]]
                 /\ filled' = done
                 /\ UNCHANGED answer

\* The caller asks again; what it got before is no longer of interest.
Call == /\ filled
        /\ answer' = NoAnswer
        /\ UNCHANGED <<store, filled>>

Access(b) == /\ filled
             /\ answer = NoAnswer
             /\ store' = [store EXCEPT ![b] = IF @ = "missing" THEN "zeroed" ELSE @]
             /\ answer' = [bid |-> b, data |-> store'[b]]
             /\ UNCHANGED filled

\* Blocks are forgotten.  Only LossyStep allows it.
Forget(S) == /\ filled
             /\ \A b \in S : store[b] # "missing"
             /\ store' = [b \in Bid |-> IF b \in S THEN "missing" ELSE store[b]]
             /\ UNCHANGED <<filled, answer>>

\* No room for the block of zeroes.  Only LossyStep allows it.
Refuse(b) == /\ filled
             /\ answer = NoAnswer
             /\ store[b] = "missing"
             /\ answer' = [bid |-> b, data |-> "none"]
             /\ UNCHANGED <<store, filled>>

Serve == \/ Call
         \/ \E S \in SUBSET Bid, done \in BOOLEAN : Fill(S, done)
         \/ \E b \in Bid : Access(b)

Spec == Init /\ [][Serve]_vars

LossyStep == \/ Serve
             \/ \E S \in SUBSET Bid : Forget(S)
             \/ \E b \in Bid : Refuse(b)
================================================================================
