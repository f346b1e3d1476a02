-------------------------------- MODULE MCTimed --------------------------------
(* Instances of Timed for TLC: two or three coroutines that sleep.            *)
EXTENDS Timed
================================================================================
