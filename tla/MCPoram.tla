-------------------------------- MODULE MCPoram --------------------------------
(***************************************************************************)
(* Small PORAM instances for TLC.                                          *)
(***************************************************************************)
EXTENDS PoramProperties

MCOAccessOnly == {"OAccess"}
MCAccessOnly  == {"access"}
MCOblivious   == {"OAccess", "OAccess_S", "OAccess_F", "compressStash"}
MCMixed       == {"OAccess", "OAccess_F", "access"}
================================================================================
