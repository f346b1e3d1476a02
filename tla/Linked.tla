---------------------------------- MODULE Linked ----------------------------------
(***************************************************************************)
(* BaseLinked: the pointers behind every list of the program.  Sentinels   *)
(* (_head, _tail) are nodes like the others.  Each operation is atomic:    *)
(* its list is locked by the caller.  A caller links only a node that is   *)
(* in no list (Workers!OnePlace, Semaphore!WaitListIsLive).                *)
(***************************************************************************)
EXTENDS Naturals, Sequences, FiniteSets

CONSTANTS Node, Null

ASSUME LinkedAssumption == Null \notin Node /\ IsFiniteSet(Node)

VARIABLES prev, next, ret   \* _prev, _next; what the last unlink returned

vars == <<prev, next, ret>>

TypeOK ==
  /\ prev \in [Node -> Node \cup {Null}]
  /\ next \in [Node -> Node \cup {Null}]
  /\ ret \in Node \cup {Null}

Init ==
  /\ prev = [a \in Node |-> Null]
  /\ next = [a \in Node |-> Null]
  /\ ret = Null

Unlinked(x) == prev[x] = Null /\ next[x] = Null

LinkBack(a, x) ==
  /\ a # x /\ Unlinked(x)
  /\ next' = [next EXCEPT ![a] = x, ![x] = next[a]]
  /\ prev' = [b \in Node |-> IF b = x THEN a ELSE IF b = next[a] THEN x ELSE prev[b]]
  /\ UNCHANGED ret

\* Mutant of LinkFront: the old neighbour keeps pointing past the new node.
LinkFrontHalf(a, x) ==
  /\ a # x /\ Unlinked(x)
  /\ prev' = [prev EXCEPT ![a] = x, ![x] = prev[a]]
  /\ next' = [next EXCEPT ![x] = a]
  /\ UNCHANGED ret

LinkFront(a, x) ==
  /\ a # x /\ Unlinked(x)
  /\ prev' = [prev EXCEPT ![a] = x, ![x] = prev[a]]
  /\ next' = [b \in Node |-> IF b = x THEN a ELSE IF b = prev[a] THEN x ELSE next[b]]
  /\ UNCHANGED ret

\* Mutant of UnlinkThis: the node that leaves keeps its own pointers.
UnlinkThisKept(x) ==
  /\ next' = [b \in Node |-> IF b = prev[x] THEN next[x] ELSE next[b]]
  /\ prev' = [b \in Node |-> IF b = next[x] THEN prev[x] ELSE prev[b]]
  /\ ret' = IF Unlinked(x) THEN Null ELSE x

UnlinkThis(x) ==
  /\ next' = [b \in Node |-> IF b = x THEN Null ELSE IF b = prev[x] THEN next[x] ELSE next[b]]
  /\ prev' = [b \in Node |-> IF b = x THEN Null ELSE IF b = next[x] THEN prev[x] ELSE prev[b]]
  /\ ret' = IF Unlinked(x) THEN Null ELSE x

UnlinkBack(a) ==
  LET x == next[a] IN
  /\ ret' = x
  /\ \/ x = Null /\ UNCHANGED <<prev, next>>
     \/ /\ x # Null
        /\ next' = [next EXCEPT ![a] = next[x], ![x] = Null]
        /\ prev' = [b \in Node |-> IF b = x THEN Null ELSE IF b = next[x] THEN a ELSE prev[b]]

UnlinkFront(a) ==
  LET x == prev[a] IN
  /\ ret' = x
  /\ \/ x = Null /\ UNCHANGED <<prev, next>>
     \/ /\ x # Null
        /\ prev' = [prev EXCEPT ![a] = prev[x], ![x] = Null]
        /\ next' = [b \in Node |-> IF b = x THEN Null ELSE IF b = prev[x] THEN a ELSE next[b]]

Next ==
  \E a \in Node :
    \/ \E x \in Node : LinkBack(a, x) \/ LinkFront(a, x)
    \/ UnlinkThis(a) \/ UnlinkBack(a) \/ UnlinkFront(a)

Spec == Init /\ [][Next]_vars
-----------------------------------------------------------------------------
(* Properties.                                                             *)

\* The two pointers between neighbours agree, so that a list reads the same from both
\* ends, whatever sequence of links and unlinks led to it.
Mutual ==
  /\ \A a \in Node : next[a] # Null => prev[next[a]] = a
  /\ \A a \in Node : prev[a] # Null => next[prev[a]] = a

\* s is a whole list, from the node without a _prev to the one without a _next.
IsChain(s) ==
  /\ prev[s[1]] = Null /\ next[s[Len(s)]] = Null
  /\ \A i \in 1..(Len(s) - 1) : next[s[i]] = s[i + 1]

\* Every operation on the pointers is the same operation on sequences: no node is lost
\* or duplicated, and no list becomes a ring.
Abstract == INSTANCE Chains WITH
  chains <- {s \in UNION {[1..n -> Node] : n \in 1..Cardinality(Node)} : IsChain(s)}
ImplementsChains == Abstract!Spec
================================================================================
