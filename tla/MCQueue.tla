-------------------------------- MODULE MCQueue --------------------------------
(* Instances of the message queue for TLC.                                  *)
EXTENDS QueueProperties

CONSTANT consumer

MCAllCalls == [t \in Threads |-> Pushes \cup Pops]
MCOneConsumer ==
  [t \in Threads |-> IF t = consumer THEN Pushes \cup Pops ELSE Pushes]
================================================================================
