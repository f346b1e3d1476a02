------------------------------ MODULE MCSemaphore ------------------------------
(* Instances of Semaphore for TLC: tasks spread over two contexts.         *)
EXTENDS Semaphore, TLC

CONSTANTS t1, t2, t3, t4, A, B

ThreeTasks == {t1, t2, t3}
FourTasks == {t1, t2, t3, t4}
TwoContexts == {A, B}
CtxOfThree == (t1 :> A) @@ (t2 :> B) @@ (t3 :> B)
CtxOfFour == (t1 :> A) @@ (t2 :> A) @@ (t3 :> B) @@ (t4 :> B)
================================================================================
