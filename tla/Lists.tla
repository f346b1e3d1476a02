---------------------------------- MODULE Lists ----------------------------------
(***************************************************************************)
(* The lists of the library as sequences: the wait list of a condition,    *)
(* the run queue and the pool of a worker, the messages linked in a        *)
(* channel.  Linked and Chains show that the intrusive lists are these.    *)
(***************************************************************************)
EXTENDS SequencesExt

\* A list holds a node at most once.
Distinct(q) == \A i, j \in DOMAIN q : q[i] = q[j] => i = j

\* BaseLinked::unlink_this of x, if it is linked in q.
Unlink(q, x) ==
  IF \E i \in DOMAIN q : q[i] = x
  THEN RemoveAt(q, CHOOSE i \in DOMAIN q : q[i] = x)
  ELSE q
================================================================================
