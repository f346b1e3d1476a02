---------------------------------- MODULE Chains ----------------------------------
(***************************************************************************)
(* What the intrusive lists promise: the nodes are divided into sequences, *)
(* a node that is in no list being a sequence of one.  Semaphore, Channel, *)
(* CallStack and Workers use these sequences for the wait lists, the       *)
(* linked messages, the call stack and the run queues.                     *)
(***************************************************************************)
EXTENDS Integers, SequencesExt

CONSTANTS Node, Null
VARIABLES chains, ret   \* the sequences; the node last taken out, or Null

Init == chains = {<<x>> : x \in Node} /\ ret = Null

Insert(a, x, offset) ==
  \E c \in chains : \E i \in DOMAIN c :
    /\ a # x /\ c[i] = a /\ <<x>> \in chains
    /\ chains' = (chains \ {c, <<x>>}) \cup {InsertAt(c, i + offset, x)}
    /\ UNCHANGED ret

\* The node behind or before a, or a itself, leaves its list, which closes up.
Take(a, offset) ==
  \E c \in chains : \E i \in DOMAIN c :
    /\ c[i] = a /\ Len(c) > 1 /\ i + offset \in DOMAIN c
    /\ chains' = (chains \ {c}) \cup {RemoveAt(c, i + offset), <<c[i + offset]>>}
    /\ ret' = c[i + offset]

TakeNone(a, offset) ==
  /\ \E c \in chains : \E i \in DOMAIN c : c[i] = a /\ (Len(c) = 1 \/ i + offset \notin DOMAIN c)
  /\ ret' = Null
  /\ UNCHANGED chains

Next ==
  \E a \in Node :
    \/ \E x \in Node : Insert(a, x, 0) \/ Insert(a, x, 1)
    \/ \E offset \in {-1, 0, 1} : Take(a, offset) \/ TakeNone(a, offset)

Spec == Init /\ [][Next]_<<chains, ret>>
================================================================================
