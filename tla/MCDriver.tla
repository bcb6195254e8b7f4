-------------------------------- MODULE MCDriver -------------------------------
(* The program with sketches that can be built, and with one or both that cannot. *)
EXTENDS Driver

\* The default, sizes beyond both limits, and sizes that are exchanged.
MCOptions      == {<<3, 3>>, <<9, 5>>, <<0, 0>>, <<1, 3>>}
MCInitFailures == SUBSET Sketches
================================================================================
