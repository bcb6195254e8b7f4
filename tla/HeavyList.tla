------------------------------- MODULE HeavyList -------------------------------
(***************************************************************************)
(* What the functions that work on the heavy part share: HeavyHitterList,   *)
(* two lists of NUM_HEAVY items one behind the other, and where the program  *)
(* stands.  The modules HeavyChange, StashTable and Epoch extend this one.   *)
(***************************************************************************)
EXTENDS Integers

CONSTANTS
  NUM_HEAVY,    \* the items of the heavy part of one sketch
  Flow,         \* flow identifiers; 0 is no flow
  MaxSize,      \* bound: the largest size of a flow
  DUMMY_FLOW,   \* the identifier of an item that ODelta has struck out
  Raw           \* memory that holds no item

ASSUME HeavyAssumption ==
  /\ NUM_HEAVY \in Nat \ {0} /\ MaxSize \in Nat
  /\ Flow \subseteq Nat \ {0} /\ DUMMY_FLOW \in Nat \ {0} /\ DUMMY_FLOW \notin Flow

Item  == [flowID : Flow \cup {0, DUMMY_FLOW}, size : 0 .. MaxSize]

ASSUME RawAssumption == Raw \notin Item

Upper == 0 .. NUM_HEAVY - 1
Both  == 0 .. 2 * NUM_HEAVY - 1

VARIABLES
  pc,               \* the function, and the loop of it, that runs
  HeavyHitterList   \* the upper and the lower list

Descending(L, n) == \A k \in 0 .. n - 2 : L[k].size >= L[k + 1].size
================================================================================
