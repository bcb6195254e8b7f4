------------------------------ MODULE MCCountDist ------------------------------
(***************************************************************************)
(* Ordered lists of up to eight items of four sizes, and lists of up to five  *)
(* in any order for the plain functions.  Sizes from 3 on do not fit into a    *)
(* half word.                                                              *)
(***************************************************************************)
EXTENDS CountDist

MCVersions == {"OItemCountDist_DESC", "OItemCountDist_ASC", "OCountDist"}
MCLengths  == 1 .. 8

MCPlainVersions ==
  {"TestHeavyCountDist_NO_MAP", "TestHeavyCountDist_NO_ORD", "TestHeavyCountDist_NO", "TestHeavyCountDist"}
MCPlainLengths  == 1 .. 5
================================================================================
