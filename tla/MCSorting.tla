------------------------------- MODULE MCSorting -------------------------------
(***************************************************************************)
(* Every sorter, for the lengths up to eight.                              *)
(***************************************************************************)
EXTENDS Sorting

Calls(s, o, lengths) == {[sorter |-> s, op |-> o, num |-> n] : n \in lengths}

MCJobs ==
  UNION {Calls("OddEvenMergeSorter", "sort", {2, 4, 6, 8}), Calls("OddEvenMergeSorter", "merge", {4, 8}),
         Calls("BitonicSorter", "sort", 1 .. 8), Calls("BitonicSorter", "merge", {4, 6, 7, 8}),
         Calls("BitonicSorter_CDist", "sort", {3, 5, 7})}
================================================================================
