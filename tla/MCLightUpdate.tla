----------------------------- MODULE MCLightUpdate -----------------------------
(***************************************************************************)
(* Calls of the five versions on small light parts.                        *)
(***************************************************************************)
EXTENDS LightUpdate

Version(v, e, r, h) == [version |-> v, numEBlock |-> e, nRecord |-> r, numHeavy |-> h]

\* BEx where the number of light blocks is a power of two: as many heavy items
\* as light blocks, more, fewer, and a number that is not a power of two.
MCCalls ==
  {Version("OUpdateCUSketch_BEx", 2, 1, 4), Version("OUpdateCUSketch_BEx", 4, 1, 2),
   Version("OUpdateCUSketch_BEx", 2, 2, 2), Version("OUpdateCUSketch_BEx", 2, 1, 3),
   Version("OUpdateCUSketch_BEx", 1, 2, 3),
   Version("OUpdateCUSketch_B", 2, 2, 3), Version("OUpdateCUSketch_B", 3, 1, 2),
   Version("OUpdateCUSketch", 3, 1, 3), Version("OUpdateCUSketch", 4, 1, 2),
   Version("UpdateCUSketch_NO", 3, 1, 3), Version("UpdateCUSketch_Scan", 3, 1, 2)}

\* As the defaults: neither a power of two, more heavy items than blocks, which
\* are a power of two.
MCDefaultCalls == {Version("OUpdateCUSketch_BEx", 3, 1, 4)}
================================================================================
