------------------------------ MODULE MCCallStack ------------------------------
(* Instances of CallStack for TLC.                                         *)
EXTENDS CallStack

CONSTANTS f0, f1, f2, f3, f4

FourFrames == {f0, f1, f2, f3}
FiveFrames == {f0, f1, f2, f3, f4}
================================================================================
