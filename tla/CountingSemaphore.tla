--------------------------- MODULE CountingSemaphore ---------------------------
(***************************************************************************)
(* What cgo::Semaphore promises its users: a count of free permits, a set  *)
(* of tasks that own one and a set of tasks that asked for one.  No order  *)
(* among the waiting tasks is promised.                                    *)
(***************************************************************************)
EXTENDS Naturals

CONSTANTS Task, Permits

VARIABLES
  avail,    \* free permits
  owners,   \* tasks that own a permit
  waiting   \* tasks inside aquire()

avars == <<avail, owners, waiting>>

Init == avail = Permits /\ owners = {} /\ waiting = {}

Request(t) ==
  /\ t \notin waiting \cup owners
  /\ waiting' = waiting \cup {t}
  /\ UNCHANGED <<avail, owners>>

Grant(t) ==
  /\ t \in waiting
  /\ avail > 0
  /\ avail' = avail - 1
  /\ owners' = owners \cup {t}
  /\ waiting' = waiting \ {t}

\* release() by an owner, from its code or from a guard of its destroyed frame.
Give(t) ==
  /\ t \in owners
  /\ owners' = owners \ {t}
  /\ avail' = avail + 1
  /\ UNCHANGED waiting

\* release() by a callback: one more permit.
Add ==
  /\ avail' = avail + 1
  /\ UNCHANGED <<owners, waiting>>

\* The context of a waiting task is stopped.
Cancel(t) ==
  /\ t \in waiting
  /\ waiting' = waiting \ {t}
  /\ UNCHANGED <<avail, owners>>

Next ==
  \/ \E t \in Task : Request(t) \/ Grant(t) \/ Give(t) \/ Cancel(t)
  \/ Add

SafeSpec == Init /\ [][Next]_avars

\* While a permit is free and somebody waits, permits are granted.
Spec == SafeSpec /\ WF_avars(\E t \in Task : Grant(t))
================================================================================
