-------------------------------- MODULE MCLinked --------------------------------
(* Instance of Linked for TLC: four nodes, enough for an inner node with       *)
(* neighbours on both sides, and for two lists of two nodes.                   *)
EXTENDS Linked
================================================================================
