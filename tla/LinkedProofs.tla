------------------------------- MODULE LinkedProofs -------------------------------
(***************************************************************************)
(* Linked, proved for any finite set of nodes: the pointers keep their     *)
(* types and the two pointers between neighbours agree, and the operations *)
(* on the pointers implement those of Chains on sequences.  A node with no *)
(* list between its pointers is unlinked, and a link needs an unlinked     *)
(* node, so no third node points to it: that is what makes Mutual          *)
(* inductive.  The refinement needs one more invariant, that every node is *)
(* in some list (Covers): pointers that agree also allow a ring, and a     *)
(* ring is no list.                                                        *)
(***************************************************************************)
EXTENDS Linked, TLAPS, SequenceTheorems, FiniteSetTheorems, WellFoundedInduction

IInv == TypeOK /\ Mutual

\* No node is linked at first, and the pointers agree.
LEMMA InitHolds == Init => IInv
  BY DEF Init, IInv, TypeOK, Mutual

\* link_back keeps the pointers of neighbours in agreement.
LEMMA LinkBackKeeps ==
  ASSUME IInv, NEW a \in Node, NEW x \in Node, LinkBack(a, x)
  PROVE  IInv'
  <1>1. TypeOK'
    BY DEF IInv, TypeOK, LinkBack
  <1>2. ASSUME NEW b \in Node, next'[b] # Null
        PROVE  prev'[next'[b]] = b
    BY <1>2, LinkedAssumption DEF IInv, TypeOK, Mutual, LinkBack, Unlinked
  <1>3. ASSUME NEW b \in Node, prev'[b] # Null
        PROVE  next'[prev'[b]] = b
    BY <1>3, LinkedAssumption DEF IInv, TypeOK, Mutual, LinkBack, Unlinked
  <1> QED
    BY <1>1, <1>2, <1>3 DEF IInv, Mutual

\* link_front keeps the pointers of neighbours in agreement.
LEMMA LinkFrontKeeps ==
  ASSUME IInv, NEW a \in Node, NEW x \in Node, LinkFront(a, x)
  PROVE  IInv'
  <1>1. TypeOK'
    BY DEF IInv, TypeOK, LinkFront
  <1>2. ASSUME NEW b \in Node, next'[b] # Null
        PROVE  prev'[next'[b]] = b
    BY <1>2, LinkedAssumption DEF IInv, TypeOK, Mutual, LinkFront, Unlinked
  <1>3. ASSUME NEW b \in Node, prev'[b] # Null
        PROVE  next'[prev'[b]] = b
    BY <1>3, LinkedAssumption DEF IInv, TypeOK, Mutual, LinkFront, Unlinked
  <1> QED
    BY <1>1, <1>2, <1>3 DEF IInv, Mutual

\* unlink_this joins the neighbours of the node that leaves.
LEMMA UnlinkThisKeeps ==
  ASSUME IInv, NEW x \in Node, UnlinkThis(x)
  PROVE  IInv'
  <1>1. TypeOK'
    BY DEF IInv, TypeOK, UnlinkThis
  <1>2. ASSUME NEW b \in Node, next'[b] # Null
        PROVE  prev'[next'[b]] = b
    BY <1>2, LinkedAssumption DEF IInv, TypeOK, Mutual, UnlinkThis
  <1>3. ASSUME NEW b \in Node, prev'[b] # Null
        PROVE  next'[prev'[b]] = b
    BY <1>3, LinkedAssumption DEF IInv, TypeOK, Mutual, UnlinkThis
  <1> QED
    BY <1>1, <1>2, <1>3 DEF IInv, Mutual

\* unlink_back joins a with the node behind the one it takes.
LEMMA UnlinkBackKeeps ==
  ASSUME IInv, NEW a \in Node, UnlinkBack(a)
  PROVE  IInv'
  <1>1. TypeOK'
    BY DEF IInv, TypeOK, UnlinkBack
  <1>2. ASSUME NEW b \in Node, next'[b] # Null
        PROVE  prev'[next'[b]] = b
    BY <1>2, LinkedAssumption DEF IInv, TypeOK, Mutual, UnlinkBack
  <1>3. ASSUME NEW b \in Node, prev'[b] # Null
        PROVE  next'[prev'[b]] = b
    BY <1>3, LinkedAssumption DEF IInv, TypeOK, Mutual, UnlinkBack
  <1> QED
    BY <1>1, <1>2, <1>3 DEF IInv, Mutual

\* unlink_front joins a with the node before the one it takes.
LEMMA UnlinkFrontKeeps ==
  ASSUME IInv, NEW a \in Node, UnlinkFront(a)
  PROVE  IInv'
  <1>1. TypeOK'
    BY DEF IInv, TypeOK, UnlinkFront
  <1>2. ASSUME NEW b \in Node, next'[b] # Null
        PROVE  prev'[next'[b]] = b
    BY <1>2, LinkedAssumption DEF IInv, TypeOK, Mutual, UnlinkFront
  <1>3. ASSUME NEW b \in Node, prev'[b] # Null
        PROVE  next'[prev'[b]] = b
    BY <1>3, LinkedAssumption DEF IInv, TypeOK, Mutual, UnlinkFront
  <1> QED
    BY <1>1, <1>2, <1>3 DEF IInv, Mutual

\* However the lists of the program are linked and unlinked, every _next is matched by
\* a _prev and every _prev by a _next, and no pointer leaves the nodes.
THEOREM PointersAgree == Spec => [](TypeOK /\ Mutual)
  <1>1. IInv /\ [Next]_vars => IInv'
    <2> SUFFICES ASSUME IInv, [Next]_vars PROVE IInv'
      OBVIOUS
    <2>1. CASE Next
      BY <2>1, LinkBackKeeps, LinkFrontKeeps, UnlinkThisKeeps, UnlinkBackKeeps, UnlinkFrontKeeps
      DEF Next
    <2>2. CASE UNCHANGED vars
      BY <2>2 DEF vars, IInv, TypeOK, Mutual
    <2> QED
      BY <2>1, <2>2
  <1>2. IInv => TypeOK /\ Mutual
    BY DEF IInv
  <1> QED
    BY InitHolds, <1>1, <1>2, PTL DEF Spec

-----------------------------------------------------------------------------
(* The lists that the pointers form.                                       *)

\* Pointers pv and nx that agree, and a list they form.
Pointers(pv, nx) ==
  /\ pv \in [Node -> Node \cup {Null}]
  /\ nx \in [Node -> Node \cup {Null}]
  /\ \A a \in Node : nx[a] # Null => pv[nx[a]] = a
  /\ \A a \in Node : pv[a] # Null => nx[pv[a]] = a

Forms(pv, nx, s) ==
  /\ s \in Seq(Node) /\ s # <<>>
  /\ pv[s[1]] = Null /\ nx[s[Len(s)]] = Null
  /\ \A i \in 1..(Len(s) - 1) : nx[s[i]] = s[i + 1]

Covers(pv, nx) == \A a \in Node : \E s : Forms(pv, nx, s) /\ \E i \in DOMAIN s : s[i] = a

\* A set of naturals that is not empty has a least element.
LEMMA LeastOf ==
  ASSUME NEW T, T \subseteq Nat, T # {}
  PROVE  \E x \in T : \A y \in T : x <= y
  <1>1. PICK x \in T : \A y \in T : ~(<<y, x>> \in OpToRel(<, Nat))
    BY NatLessThanWellFounded, WFMin
  <1>2. ASSUME NEW y \in T PROVE x <= y
    <2>1. x \in Nat /\ y \in Nat
      BY <1>2
    <2>2. ASSUME y < x PROVE <<y, x>> \in OpToRel(<, Nat)
      BY <2>1, <2>2 DEF OpToRel
    <2>3. ~(y < x)
      BY <1>1, <2>2
    <2> QED
      BY <2>1, <2>3
  <1> QED
    BY <1>2

\* The neighbours of the node at a place of a list are what its pointers say.
LEMMA Neighbours ==
  ASSUME NEW pv, NEW nx, Pointers(pv, nx), NEW s, Forms(pv, nx, s), NEW i \in DOMAIN s
  PROVE  /\ DOMAIN s = 1..Len(s) /\ Len(s) \in Nat /\ Len(s) >= 1
         /\ s[i] \in Node
         /\ i = Len(s) => nx[s[i]] = Null
         /\ i # Len(s) => i + 1 \in DOMAIN s /\ nx[s[i]] = s[i + 1] /\ s[i + 1] \in Node
         /\ i = 1 => pv[s[i]] = Null
         /\ i # 1 => i - 1 \in DOMAIN s /\ pv[s[i]] = s[i - 1] /\ s[i - 1] \in Node
  <1>1. DOMAIN s = 1..Len(s) /\ Len(s) \in Nat /\ Len(s) # 0
    BY LenProperties, EmptySeq DEF Forms
  <1>2. \A k \in DOMAIN s : s[k] \in Node
    BY <1>1, ElementOfSeq DEF Forms
  <1>3. i \in 1..Len(s)
    BY <1>1
  <1>4. ASSUME i # Len(s)
        PROVE  i + 1 \in DOMAIN s /\ nx[s[i]] = s[i + 1]
    <2>1. i \in 1..(Len(s) - 1) /\ i + 1 \in 1..Len(s)
      BY <1>1, <1>3, <1>4
    <2> QED
      BY <2>1, <1>1 DEF Forms
  <1>5. ASSUME i # 1
        PROVE  i - 1 \in DOMAIN s /\ pv[s[i]] = s[i - 1]
    <2>1. i - 1 \in 1..(Len(s) - 1) /\ i - 1 \in 1..Len(s) /\ (i - 1) + 1 = i
      BY <1>1, <1>3, <1>5
    <2>2. nx[s[i - 1]] = s[i] /\ i - 1 \in DOMAIN s
      BY <2>1, <1>1 DEF Forms
    <2>3. s[i - 1] \in Node /\ s[i] \in Node
      BY <2>2, <1>2
    <2> QED
      BY <2>2, <2>3, LinkedAssumption DEF Pointers
  <1> QED
    BY <1>1, <1>2, <1>4, <1>5 DEF Forms

\* A node has the same place in every list it is in, and one place in each.
LEMMA SamePlace ==
  ASSUME NEW pv, NEW nx, Pointers(pv, nx),
         NEW s, Forms(pv, nx, s), NEW t, Forms(pv, nx, t),
         NEW i \in DOMAIN s, NEW j \in DOMAIN t, s[i] = t[j]
  PROVE  i = j
  <1> DEFINE T == {k \in DOMAIN s : \E l \in DOMAIN t : s[k] = t[l] /\ k # l}
  <1> SUFFICES ASSUME T # {} PROVE FALSE
    OBVIOUS
  <1>1. T \subseteq Nat /\ DOMAIN s \subseteq Nat /\ DOMAIN t \subseteq Nat
    BY Neighbours
  <1>2. PICK k \in T : \A m \in T : k <= m
    BY <1>1, LeastOf
  <1>3. PICK l \in DOMAIN t : s[k] = t[l] /\ k # l
    OBVIOUS
  <1>4. k \in DOMAIN s /\ k \in Nat /\ l \in Nat
    BY <1>1
  <1>5. /\ s[k] \in Node /\ t[l] \in Node
        /\ k = 1 => pv[s[k]] = Null
        /\ k # 1 => k - 1 \in DOMAIN s /\ pv[s[k]] = s[k - 1] /\ s[k - 1] \in Node
    BY <1>4, Neighbours
  <1>6. /\ l = 1 => pv[t[l]] = Null
        /\ l # 1 => l - 1 \in DOMAIN t /\ pv[t[l]] = t[l - 1] /\ t[l - 1] \in Node
    BY <1>3, Neighbours
  <1> HIDE DEF T
  <1>7. k - 1 \in DOMAIN s /\ l - 1 \in DOMAIN t /\ s[k - 1] = t[l - 1] /\ k - 1 # l - 1
    BY <1>3, <1>4, <1>5, <1>6, LinkedAssumption
  <1> USE DEF T
  <1>8. k - 1 \in T
    BY <1>7
  <1> QED
    BY <1>8, <1>2, <1>4

\* A list contains the part of any other behind a node of both, and before it.
LEMMA SamePart ==
  ASSUME NEW pv, NEW nx, Pointers(pv, nx),
         NEW s, Forms(pv, nx, s), NEW t, Forms(pv, nx, t),
         NEW i \in DOMAIN s, i \in DOMAIN t, s[i] = t[i]
  PROVE  \A k \in DOMAIN s : k \in DOMAIN t /\ s[k] = t[k]
  <1> DEFINE Bad(k) == ~(k \in DOMAIN t /\ s[k] = t[k])
             F == {k \in DOMAIN s : k > i /\ Bad(k)}
             B == {n \in Nat : n < i /\ Bad(i - n)}
  <1>1. DOMAIN s = 1..Len(s) /\ DOMAIN t = 1..Len(t) /\ Len(s) \in Nat /\ Len(t) \in Nat /\ i \in Nat /\ i >= 1
    BY Neighbours
  <1>2. F = {}
    <2> SUFFICES ASSUME F # {} PROVE FALSE
      OBVIOUS
    <2>1. PICK k \in F : \A m \in F : k <= m
      <3>1. F \subseteq Nat BY <1>1
      <3> QED BY <3>1, LeastOf
    <2>2. k \in Nat /\ k > i /\ k <= Len(s) /\ k - 1 \in DOMAIN s
      BY <1>1
    <2>3. ~Bad(k - 1)
      <3>1. CASE k - 1 = i BY <3>1
      <3>2. CASE k - 1 > i
        <4>1. k - 1 \notin F BY <2>1, <2>2
        <4> QED BY <4>1, <3>2, <2>2
      <3> QED BY <3>1, <3>2, <2>2, <1>1
    <2>4. nx[s[k - 1]] = s[k] /\ s[k] \in Node
      <3>1. k - 1 # Len(s) /\ (k - 1) + 1 = k BY <2>2, <1>1
      <3> QED BY <3>1, <2>2, Neighbours
    <2>5. k - 1 # Len(t)
      BY <2>3, <2>4, Neighbours, LinkedAssumption
    <2>6. k \in DOMAIN t /\ nx[t[k - 1]] = t[k]
      <3>1. (k - 1) + 1 = k BY <2>2
      <3> QED BY <3>1, <2>3, <2>5, Neighbours
    <2> QED BY <2>3, <2>4, <2>6
  <1>3. B = {}
    <2> SUFFICES ASSUME B # {} PROVE FALSE
      OBVIOUS
    <2>1. PICK n \in B : \A m \in B : n <= m
      <3>1. B \subseteq Nat OBVIOUS
      <3> QED BY <3>1, LeastOf
    <2>2. n \in Nat /\ n < i /\ Bad(i - n)
      OBVIOUS
    <2>3. n # 0
      <3>1. n = 0 => i - n = i BY <1>1
      <3> QED BY <3>1, <2>2
    <2>4. ~Bad(i - (n - 1))
      <3>1. n - 1 \notin B BY <2>1, <2>2, <2>3
      <3> QED BY <3>1, <2>2, <2>3, <1>1
    <2> DEFINE k == i - (n - 1)
    <2>5. k \in DOMAIN s /\ k \in DOMAIN t /\ k # 1 /\ k - 1 = i - n
      BY <2>2, <2>3, <2>4, <1>1
    <2>6. s[k] = t[k] BY <2>4
    <2> HIDE DEF k
    <2>7. k - 1 \in DOMAIN t /\ pv[s[k]] = s[k - 1] /\ pv[t[k]] = t[k - 1]
      BY <2>5, Neighbours
    <2> QED BY <2>2, <2>5, <2>6, <2>7
  <1>4. ASSUME NEW k \in DOMAIN s PROVE ~Bad(k)
    <2>1. CASE k > i BY <2>1, <1>2
    <2>2. CASE k = i BY <2>2
    <2>3. CASE k < i
      <3>1. i - k \in Nat /\ i - k < i /\ i - (i - k) = k BY <1>1, <2>3
      <3> QED BY <3>1, <1>3
    <2> QED BY <2>1, <2>2, <2>3, <1>1
  <1> QED BY <1>4

\* Two lists with a node in common are one.
LEMMA SameList ==
  ASSUME NEW pv, NEW nx, Pointers(pv, nx),
         NEW s, Forms(pv, nx, s), NEW t, Forms(pv, nx, t),
         NEW i \in DOMAIN s, NEW j \in DOMAIN t, s[i] = t[j]
  PROVE  s = t
  <1>1. i = j
    BY SamePlace
  <1>2. \A k \in DOMAIN s : k \in DOMAIN t /\ s[k] = t[k]
    BY <1>1, SamePart
  <1>3. \A k \in DOMAIN t : k \in DOMAIN s
    BY <1>1, SamePart
  <1>4. s \in Seq(Node) /\ t \in Seq(Node) /\ DOMAIN s = DOMAIN t
    BY <1>2, <1>3 DEF Forms
  <1>5. Len(s) = Len(t)
    BY <1>4, LenProperties
  <1> QED
    BY <1>2, <1>4, <1>5, SeqEqual

\* A list has no more nodes than there are.
LEMMA ListIsShort ==
  ASSUME NEW pv, NEW nx, Pointers(pv, nx), NEW s, Forms(pv, nx, s)
  PROVE  Len(s) \in 1..Cardinality(Node) /\ s \in [1..Len(s) -> Node]
  <1>1. DOMAIN s = 1..Len(s) /\ Len(s) \in Nat /\ Len(s) # 0
    BY LenProperties, EmptySeq DEF Forms
  <1>2. s \in [1..Len(s) -> Node]
    BY LenProperties DEF Forms
  <1>3. IsFiniteSet(1..Len(s)) /\ Cardinality(1..Len(s)) = Len(s)
    BY <1>1, FS_Interval
  <1>4. IsFiniteSet(Node) /\ Cardinality(Node) \in Nat
    BY LinkedAssumption, FS_CardinalityType
  <1>5. ~(Cardinality(Node) < Len(s))
    <2> SUFFICES ASSUME Cardinality(Node) < Len(s) PROVE FALSE
      OBVIOUS
    <2>1. PICK x \in 1..Len(s), y \in 1..Len(s) : x # y /\ s[x] = s[y]
      BY <1>2, <1>3, <1>4, FS_PigeonHole
    <2> QED
      BY <2>1, <1>1, SamePlace
  <1> QED
    BY <1>1, <1>2, <1>4, <1>5

ListSet(pv, nx) == {s \in Seq(Node) : Forms(pv, nx, s)}
In(a, s) == \E i \in DOMAIN s : s[i] = a

\* A step takes the lists R apart and makes the lists N of their nodes.
Replaces(pv, nx, pw, nw, R, N) ==
  /\ Pointers(pv, nx) /\ Covers(pv, nx) /\ Pointers(pw, nw)
  /\ R \subseteq ListSet(pv, nx) /\ N \subseteq ListSet(pw, nw)
  /\ \A b \in Node : (\E s \in R : In(b, s)) <=> (\E s \in N : In(b, s))
  /\ \A b \in Node : ~(\E s \in R : In(b, s)) => pw[b] = pv[b] /\ nw[b] = nx[b]

\* Where a step takes the lists R apart, makes the lists N of their nodes, and leaves
\* the pointers of all other nodes alone, the other lists are what they were.
LEMMA Rebuild ==
  ASSUME NEW pv, NEW nx, NEW pw, NEW nw, NEW R, NEW N, Replaces(pv, nx, pw, nw, R, N)
  PROVE  /\ ListSet(pw, nw) = (ListSet(pv, nx) \ R) \cup N
         /\ Covers(pw, nw)
  <1>0. /\ Pointers(pv, nx) /\ Covers(pv, nx) /\ Pointers(pw, nw)
        /\ R \subseteq ListSet(pv, nx) /\ N \subseteq ListSet(pw, nw)
        /\ \A b \in Node : (\E s \in R : In(b, s)) <=> (\E s \in N : In(b, s))
        /\ \A b \in Node : ~(\E s \in R : In(b, s)) => pw[b] = pv[b] /\ nw[b] = nx[b]
    BY DEF Replaces
  <1>1. ASSUME NEW c \in ListSet(pv, nx), c \notin R
        PROVE  c \in ListSet(pw, nw)
    <2>1. Forms(pv, nx, c) /\ c \in Seq(Node) /\ c # <<>>
      BY DEF ListSet, Forms
    <2>2. DOMAIN c = 1..Len(c) /\ Len(c) \in Nat /\ Len(c) # 0
      BY <2>1, LenProperties, EmptySeq
    <2>3. ASSUME NEW i \in DOMAIN c
          PROVE  c[i] \in Node /\ pw[c[i]] = pv[c[i]] /\ nw[c[i]] = nx[c[i]]
      <3>1. c[i] \in Node
        BY <2>1, <2>2, ElementOfSeq
      <3>2. ASSUME NEW s \in R, In(c[i], s) PROVE FALSE
        <4>1. Forms(pv, nx, s) BY <1>0 DEF ListSet
        <4>2. PICK j \in DOMAIN s : s[j] = c[i] BY <3>2 DEF In
        <4>3. s = c BY <1>0, <4>1, <4>2, <2>1, SameList
        <4> QED BY <4>3, <1>1
      <3> QED BY <1>0, <3>1, <3>2
    <2>4. 1 \in DOMAIN c /\ Len(c) \in DOMAIN c /\ \A i \in 1..(Len(c) - 1) : i \in DOMAIN c
      BY <2>2
    <2>5. Forms(pw, nw, c)
      BY <2>1, <2>3, <2>4 DEF Forms
    <2> QED BY <2>1, <2>5 DEF ListSet
  <1>2. ASSUME NEW b \in Node
        PROVE  \E c \in (ListSet(pv, nx) \ R) \cup N : In(b, c)
    <2>1. PICK c : Forms(pv, nx, c) /\ In(b, c)
      BY <1>0 DEF Covers, In
    <2>2. c \in ListSet(pv, nx)
      BY <2>1 DEF ListSet, Forms
    <2>3. CASE c \in R
      BY <1>0, <2>1, <2>3
    <2>4. CASE c \notin R
      BY <2>1, <2>2, <2>4
    <2> QED BY <2>3, <2>4
  <1>3. (ListSet(pv, nx) \ R) \cup N \subseteq ListSet(pw, nw)
    BY <1>0, <1>1
  <1>4. ASSUME NEW d \in ListSet(pw, nw)
        PROVE  d \in (ListSet(pv, nx) \ R) \cup N
    <2>1. Forms(pw, nw, d) /\ d \in Seq(Node) /\ d # <<>>
      BY DEF ListSet, Forms
    <2>2. 1 \in DOMAIN d /\ d[1] \in Node
      BY <2>1, LenProperties, EmptySeq, ElementOfSeq
    <2>3. PICK e \in (ListSet(pv, nx) \ R) \cup N : In(d[1], e)
      BY <2>2, <1>2
    <2>4. Forms(pw, nw, e)
      BY <1>3 DEF ListSet
    <2>5. PICK j \in DOMAIN e : e[j] = d[1]
      BY <2>3 DEF In
    <2>6. d = e
      BY <1>0, <2>1, <2>2, <2>4, <2>5, SameList
    <2> QED BY <2>6
  <1>5. Covers(pw, nw)
    <2> SUFFICES ASSUME NEW b \in Node
                 PROVE  \E s : Forms(pw, nw, s) /\ In(b, s)
      BY DEF Covers, In
    <2>1. PICK c \in (ListSet(pv, nx) \ R) \cup N : In(b, c)
      BY <1>2
    <2>2. Forms(pw, nw, c)
      BY <1>3 DEF ListSet
    <2> QED BY <2>1, <2>2
  <1> QED BY <1>3, <1>4, <1>5

\* c with x at place k, and c without place k: InsertAt and RemoveAt of Chains.
Inserted(c, k, x) == SubSeq(c, 1, k - 1) \o <<x>> \o SubSeq(c, k, Len(c))
Removed(c, k) == SubSeq(c, 1, k - 1) \o SubSeq(c, k + 1, Len(c))

\* The sequence with x before place k.
LEMMA InsertedFacts ==
  ASSUME NEW c \in Seq(Node), NEW x \in Node, NEW k \in 1..(Len(c) + 1)
  PROVE  /\ Inserted(c, k, x) \in Seq(Node)
         /\ Len(Inserted(c, k, x)) = Len(c) + 1
         /\ \A m \in 1..(Len(c) + 1) :
              /\ m < k => Inserted(c, k, x)[m] = c[m]
              /\ m = k => Inserted(c, k, x)[m] = x
              /\ m > k => Inserted(c, k, x)[m] = c[m - 1]
  <1> DEFINE u == SubSeq(c, 1, k - 1)
             v == SubSeq(c, k, Len(c))
             w == u \o <<x>>
  <1>1. Len(c) \in Nat /\ k \in Nat /\ k >= 1 /\ k <= Len(c) + 1
    BY LenProperties
  <1>2. u \in Seq(Node) /\ Len(u) = k - 1 /\ \A m \in 1..(k - 1) : u[m] = c[m]
    <2>1. \A m \in 1..(k - 1) : c[m] \in Node
      BY <1>1, ElementOfSeq
    <2>2. u = [m \in 1..(k - 1) |-> c[m]]
      BY <1>1
    <2>3. u \in Seq(Node) /\ Len(u) = k - 1
      BY <2>1, <2>2, <1>1
    <2> QED BY <2>2, <2>3
  <1>3. v \in Seq(Node) /\ Len(v) = Len(c) - k + 1 /\ \A m \in 1..(Len(c) - k + 1) : v[m] = c[m + k - 1]
    <2>1. \A m \in 1..(Len(c) - k + 1) : m + k - 1 \in 1..Len(c)
      BY <1>1
    <2>2. \A m \in 1..(Len(c) - k + 1) : c[m + k - 1] \in Node
      BY <2>1, ElementOfSeq
    <2>3. v \in Seq(Node) /\ Len(v) = Len(c) - k + 1
      BY <1>1, <2>2
    <2>4. \A m \in 1..(Len(c) - k + 1) : v[m] = c[m + k - 1]
      BY <1>1, <2>1
    <2> QED BY <2>3, <2>4
  <1>4. <<x>> \in Seq(Node) /\ Len(<<x>>) = 1 /\ <<x>>[1] = x
    OBVIOUS
  <1> HIDE DEF u, v
  <1>5. /\ w \in Seq(Node) /\ Len(w) = k
        /\ \A m \in 1..(k - 1) : w[m] = u[m]
        /\ w[k] = x
    <2>1. w \in Seq(Node) /\ Len(w) = Len(u) + 1
      BY <1>2, <1>4, ConcatProperties
    <2>2. \A m \in 1..Len(w) : w[m] = IF m <= Len(u) THEN u[m] ELSE <<x>>[m - Len(u)]
      BY <1>2, <1>4, ConcatProperties
    <2>3. Len(w) = k BY <2>1, <1>1, <1>2
    <2>4. k - Len(u) = 1 /\ ~(k <= Len(u)) /\ k \in 1..Len(w) BY <1>1, <1>2, <2>3
    <2>5. w[k] = x BY <2>2, <2>4, <1>4
    <2>6. \A m \in 1..(k - 1) : m \in 1..Len(w) /\ m <= Len(u) BY <1>1, <1>2, <2>3
    <2> QED BY <2>1, <2>2, <2>3, <2>5, <2>6
  <1> HIDE DEF w
  <1>6. Inserted(c, k, x) = w \o v
    BY DEF Inserted, u, v, w
  <1> DEFINE d == w \o v
  <1>7. /\ d \in Seq(Node) /\ Len(d) = Len(w) + Len(v)
        /\ \A m \in 1..Len(d) : d[m] = IF m <= Len(w) THEN w[m] ELSE v[m - Len(w)]
    BY <1>3, <1>5, ConcatProperties
  <1> HIDE DEF d
  <1>8. Len(d) = Len(c) + 1
    BY <1>1, <1>3, <1>5, <1>7
  <1>9. ASSUME NEW m \in 1..(Len(c) + 1)
        PROVE  (m < k => d[m] = c[m]) /\ (m = k => d[m] = x) /\ (m > k => d[m] = c[m - 1])
    <2>1. CASE m < k
      <3>1. m \in 1..(k - 1) /\ m \in 1..Len(d) /\ m <= Len(w) BY <2>1, <1>1, <1>5, <1>8
      <3> QED BY <3>1, <2>1, <1>1, <1>2, <1>5, <1>7
    <2>2. CASE m = k
      <3>1. m \in 1..Len(d) /\ m <= Len(w) BY <2>2, <1>1, <1>5, <1>8
      <3> QED BY <3>1, <2>2, <1>1, <1>5, <1>7
    <2>3. CASE m > k
      <3>1. m \in 1..Len(d) /\ ~(m <= Len(w)) /\ m - k \in 1..(Len(c) - k + 1) /\ (m - k) + k - 1 = m - 1
        BY <2>3, <1>1, <1>5, <1>8
      <3>2. d[m] = v[m - k] BY <3>1, <1>5, <1>7
      <3> QED BY <3>1, <3>2, <2>3, <1>1, <1>3
    <2> QED BY <2>1, <2>2, <2>3
  <1> QED BY <1>6, <1>7, <1>8, <1>9 DEF d

\* The sequence without place k.
LEMMA RemovedFacts ==
  ASSUME NEW c \in Seq(Node), NEW k \in 1..Len(c)
  PROVE  /\ Removed(c, k) \in Seq(Node)
         /\ Len(Removed(c, k)) = Len(c) - 1
         /\ \A m \in 1..(Len(c) - 1) :
              /\ m < k => Removed(c, k)[m] = c[m]
              /\ m >= k => Removed(c, k)[m] = c[m + 1]
  <1> DEFINE u == SubSeq(c, 1, k - 1)
             v == SubSeq(c, k + 1, Len(c))
             d == u \o v
  <1>1. Len(c) \in Nat /\ k \in Nat /\ k >= 1 /\ k <= Len(c)
    BY LenProperties
  <1>2. u \in Seq(Node) /\ Len(u) = k - 1 /\ \A m \in 1..(k - 1) : u[m] = c[m]
    <2>1. \A m \in 1..(k - 1) : c[m] \in Node
      BY <1>1, ElementOfSeq
    <2>2. u = [m \in 1..(k - 1) |-> c[m]]
      BY <1>1
    <2>3. u \in Seq(Node) /\ Len(u) = k - 1
      BY <2>1, <2>2, <1>1
    <2> QED BY <2>2, <2>3
  <1>3. v \in Seq(Node) /\ Len(v) = Len(c) - k /\ \A m \in 1..(Len(c) - k) : v[m] = c[m + k]
    <2>1. \A m \in 1..(Len(c) - k) : m + k \in 1..Len(c)
      BY <1>1
    <2>2. \A m \in 1..(Len(c) - k) : c[m + k] \in Node
      BY <2>1, ElementOfSeq
    <2>3. v \in Seq(Node) /\ Len(v) = Len(c) - k
      BY <1>1, <2>2
    <2>4. \A m \in 1..(Len(c) - k) : v[m] = c[m + k]
      BY <1>1, <2>1
    <2> QED BY <2>3, <2>4
  <1>6. Removed(c, k) = d
    BY DEF Removed
  <1> HIDE DEF u, v
  <1>7. /\ d \in Seq(Node) /\ Len(d) = Len(u) + Len(v)
        /\ \A m \in 1..Len(d) : d[m] = IF m <= Len(u) THEN u[m] ELSE v[m - Len(u)]
    <2>1. u \in Seq(Node) /\ v \in Seq(Node)
      BY <1>2, <1>3
    <2> QED
      BY <2>1, ConcatProperties
  <1> HIDE DEF d
  <1>8. Len(d) = Len(c) - 1
    BY <1>1, <1>2, <1>3, <1>7
  <1>9. ASSUME NEW m \in 1..(Len(c) - 1)
        PROVE  (m < k => d[m] = c[m]) /\ (m >= k => d[m] = c[m + 1])
    <2>1. CASE m < k
      <3>1. m \in 1..(k - 1) /\ m \in 1..Len(d) /\ m <= Len(u) BY <2>1, <1>1, <1>2, <1>8
      <3> QED BY <3>1, <2>1, <1>1, <1>2, <1>7
    <2>2. CASE m >= k
      <3>1. m \in 1..Len(d) /\ ~(m <= Len(u)) /\ m - Len(u) = m - k + 1 /\ m - k + 1 \in 1..(Len(c) - k) /\ (m - k + 1) + k = m + 1
        BY <2>2, <1>1, <1>2, <1>8
      <3>2. d[m] = v[m - k + 1] BY <3>1, <1>7
      <3> QED BY <3>1, <3>2, <2>2, <1>1, <1>3
    <2> QED BY <2>1, <2>2, <1>1
  <1> QED BY <1>6, <1>7, <1>8, <1>9

\* A node whose pointers are both Null is a list of its own.
LEMMA AloneForms ==
  ASSUME NEW pv, NEW nx, NEW x \in Node, pv[x] = Null, nx[x] = Null
  PROVE  Forms(pv, nx, <<x>>) /\ DOMAIN <<x>> = {1} /\ <<x>>[1] = x
  <1>1. <<x>> \in Seq(Node) /\ Len(<<x>>) = 1 /\ <<x>>[1] = x /\ <<x>> # <<>>
    OBVIOUS
  <1>2. DOMAIN <<x>> = {1}
    BY <1>1, LenProperties
  <1> QED
    BY <1>1, <1>2 DEF Forms

\* The pointers after x was linked between the places k - 1 and k of c.
LinksIn(pv, nx, pw, nw, c, k, x) ==
  /\ k \in 1..(Len(c) + 1)
  /\ \A m \in DOMAIN c : nw[c[m]] = IF m = k - 1 THEN x ELSE nx[c[m]]
  /\ \A m \in DOMAIN c : pw[c[m]] = IF m = k THEN x ELSE pv[c[m]]
  /\ nw[x] = IF k \in DOMAIN c THEN c[k] ELSE Null
  /\ pw[x] = IF k - 1 \in DOMAIN c THEN c[k - 1] ELSE Null
  /\ \A b \in Node : b # x /\ ~In(b, c) => pw[b] = pv[b] /\ nw[b] = nx[b]

\* The pointers after the node at place k of c was taken out.
TakesOut(pv, nx, pw, nw, c, k) ==
  /\ Len(c) > 1 /\ k \in DOMAIN c
  /\ \A m \in DOMAIN c :
       nw[c[m]] = IF m = k THEN Null ELSE IF m = k - 1 THEN nx[c[k]] ELSE nx[c[m]]
  /\ \A m \in DOMAIN c :
       pw[c[m]] = IF m = k THEN Null ELSE IF m = k + 1 THEN pv[c[k]] ELSE pv[c[m]]
  /\ \A b \in Node : ~In(b, c) => pw[b] = pv[b] /\ nw[b] = nx[b]

\* Linking x between the places k - 1 and k of c.
LEMMA InsertLinks ==
  ASSUME NEW pv, NEW nx, Pointers(pv, nx), Covers(pv, nx),
         NEW pw, NEW nw, Pointers(pw, nw),
         NEW c, Forms(pv, nx, c), NEW x \in Node, pv[x] = Null, nx[x] = Null, ~In(x, c),
         NEW k, LinksIn(pv, nx, pw, nw, c, k, x)
  PROVE  /\ ListSet(pw, nw) = (ListSet(pv, nx) \ {c, <<x>>}) \cup {Inserted(c, k, x)}
         /\ Covers(pw, nw)
  <1>0. /\ k \in 1..(Len(c) + 1)
        /\ \A m \in DOMAIN c : nw[c[m]] = IF m = k - 1 THEN x ELSE nx[c[m]]
        /\ \A m \in DOMAIN c : pw[c[m]] = IF m = k THEN x ELSE pv[c[m]]
        /\ nw[x] = IF k \in DOMAIN c THEN c[k] ELSE Null
        /\ pw[x] = IF k - 1 \in DOMAIN c THEN c[k - 1] ELSE Null
        /\ \A b \in Node : b # x /\ ~In(b, c) => pw[b] = pv[b] /\ nw[b] = nx[b]
    BY DEF LinksIn
  <1> DEFINE d == Inserted(c, k, x)
  <1>1. c \in Seq(Node) /\ DOMAIN c = 1..Len(c) /\ Len(c) \in Nat /\ Len(c) >= 1
    <2>1. c \in Seq(Node) /\ c # <<>> BY DEF Forms
    <2> QED BY <2>1, LenProperties, EmptySeq
  <1>2. /\ d \in Seq(Node) /\ Len(d) = Len(c) + 1
        /\ \A m \in 1..(Len(c) + 1) :
             (m < k => d[m] = c[m]) /\ (m = k => d[m] = x) /\ (m > k => d[m] = c[m - 1])
    <2>1. k \in 1..(Len(c) + 1)
      BY <1>0
    <2> QED
      BY <1>1, <2>1, InsertedFacts
  <1> USE <1>0
  <1> HIDE DEF d
  <1>3. DOMAIN d = 1..(Len(c) + 1) /\ k \in DOMAIN d /\ k \in Nat
    BY <1>1, <1>2, LenProperties
  <1>4. Forms(pv, nx, <<x>>) /\ DOMAIN <<x>> = {1} /\ <<x>>[1] = x
    BY AloneForms
  <1>5. Forms(pw, nw, d)
    <2>1. d # <<>>
      BY <1>1, <1>2, EmptySeq
    <2>2. pw[d[1]] = Null
      <3>1. CASE k = 1
        BY <3>1, <1>1, <1>2
      <3>2. CASE k > 1
        <4>1. d[1] = c[1] /\ 1 \in DOMAIN c /\ 1 # k BY <3>2, <1>1, <1>2
        <4> QED BY <4>1 DEF Forms
      <3> QED BY <3>1, <3>2
    <2>3. nw[d[Len(d)]] = Null
      <3>1. CASE k = Len(c) + 1
        BY <3>1, <1>1, <1>2
      <3>2. CASE k < Len(c) + 1
        <4>1. d[Len(d)] = c[Len(c)] /\ Len(c) \in DOMAIN c /\ Len(c) # k - 1
          <5>1. Len(d) \in 1..(Len(c) + 1) /\ Len(d) > k /\ Len(d) - 1 = Len(c) BY <3>2, <1>1, <1>2
          <5> QED BY <5>1, <3>2, <1>1, <1>2
        <4> QED BY <4>1 DEF Forms
      <3> QED BY <3>1, <3>2, <1>1
    <2>4. ASSUME NEW m \in 1..(Len(d) - 1) PROVE nw[d[m]] = d[m + 1]
      <3>0. m \in 1..Len(c) /\ m + 1 \in 1..(Len(c) + 1) /\ m \in 1..(Len(c) + 1) /\ m \in DOMAIN c
        BY <1>1, <1>2
      <3>1. CASE m = k - 1
        <4>1. d[m] = c[m] /\ d[m + 1] = x BY <3>0, <3>1, <1>2
        <4> QED BY <4>1, <3>0, <3>1
      <3>2. CASE m = k
        <4>1. d[m] = x /\ d[m + 1] = c[(m + 1) - 1] /\ (m + 1) - 1 = m BY <3>0, <3>2, <1>2
        <4> QED BY <4>1, <3>0, <3>2
      <3>3. CASE m < k - 1
        <4>1. d[m] = c[m] /\ d[m + 1] = c[m + 1] /\ m \in 1..(Len(c) - 1) BY <3>0, <3>3, <1>1, <1>2
        <4>2. nx[c[m]] = c[m + 1] BY <4>1 DEF Forms
        <4> QED BY <4>1, <4>2, <3>0, <3>3
      <3>4. CASE m > k
        <4>1. d[m] = c[m - 1] /\ d[m + 1] = c[(m + 1) - 1] /\ (m + 1) - 1 = m
          BY <3>0, <3>4, <1>2
        <4>2. m - 1 \in 1..(Len(c) - 1) /\ m - 1 # k - 1 /\ m - 1 \in DOMAIN c /\ (m - 1) + 1 = m
          BY <3>0, <3>4, <1>1
        <4>3. nx[c[m - 1]] = c[m] BY <4>2 DEF Forms
        <4> QED BY <4>1, <4>2, <4>3
      <3> QED BY <3>0, <3>1, <3>2, <3>3, <3>4
    <2> QED BY <1>2, <2>1, <2>2, <2>3, <2>4 DEF Forms
  <1>6. ASSUME NEW b \in Node
        PROVE  In(b, d) <=> (In(b, c) \/ b = x)
    <2>1. ASSUME In(b, d) PROVE In(b, c) \/ b = x
      <3>1. PICK m \in DOMAIN d : d[m] = b BY <2>1 DEF In
      <3>2. CASE m < k
        <4>1. m \in DOMAIN c /\ d[m] = c[m] BY <3>2, <1>1, <1>2, <1>3
        <4> QED BY <3>1, <4>1 DEF In
      <3>3. CASE m > k
        <4>1. m - 1 \in DOMAIN c /\ d[m] = c[m - 1] BY <3>3, <1>1, <1>2, <1>3
        <4> QED BY <3>1, <4>1 DEF In
      <3>4. CASE m = k
        BY <3>1, <3>4, <1>2, <1>3
      <3> QED BY <3>2, <3>3, <3>4, <1>1, <1>3
    <2>2. ASSUME In(b, c) PROVE In(b, d)
      <3>1. PICK m \in DOMAIN c : c[m] = b BY <2>2 DEF In
      <3>2. CASE m < k
        <4>1. m \in DOMAIN d /\ d[m] = c[m] BY <3>2, <1>1, <1>2, <1>3
        <4> QED BY <3>1, <4>1 DEF In
      <3>3. CASE m >= k
        <4>1. m + 1 \in DOMAIN d /\ m + 1 > k /\ (m + 1) - 1 = m BY <3>3, <1>1, <1>3
        <4>2. d[m + 1] = c[m] BY <4>1, <1>2, <1>3
        <4> QED BY <3>1, <4>1, <4>2 DEF In
      <3> QED BY <3>2, <3>3, <1>1, <1>3
    <2>3. In(x, d)
      BY <1>2, <1>3 DEF In
    <2> QED BY <2>1, <2>2, <2>3
  <1>7. \A b : In(b, <<x>>) <=> b = x
    BY <1>4 DEF In
  <1>8. {c, <<x>>} \in SUBSET ListSet(pv, nx) /\ {d} \in SUBSET ListSet(pw, nw)
    BY <1>4, <1>5 DEF ListSet, Forms
  <1>9. \A b \in Node : (\E s \in {c, <<x>>} : In(b, s)) <=> (\E s \in {d} : In(b, s))
    BY <1>6, <1>7
  <1>10. \A b \in Node : ~(\E s \in {c, <<x>>} : In(b, s)) => pw[b] = pv[b] /\ nw[b] = nx[b]
    BY <1>7
  <1>11. ListSet(pw, nw) = (ListSet(pv, nx) \ {c, <<x>>}) \cup {d} /\ Covers(pw, nw)
    <2>1. Replaces(pv, nx, pw, nw, {c, <<x>>}, {d})
      BY <1>8, <1>9, <1>10 DEF Replaces
    <2> QED
      BY <2>1, Rebuild
  <1> QED BY <1>11 DEF d

\* Taking the node at place k out of c.
LEMMA RemoveLinks ==
  ASSUME NEW pv, NEW nx, Pointers(pv, nx), Covers(pv, nx),
         NEW pw, NEW nw, Pointers(pw, nw),
         NEW c, Forms(pv, nx, c), NEW k, TakesOut(pv, nx, pw, nw, c, k)
  PROVE  /\ ListSet(pw, nw) = (ListSet(pv, nx) \ {c}) \cup {Removed(c, k), <<c[k]>>}
         /\ Covers(pw, nw)
  <1>00. /\ Len(c) > 1 /\ k \in DOMAIN c
         /\ \A m \in DOMAIN c :
              nw[c[m]] = IF m = k THEN Null ELSE IF m = k - 1 THEN nx[c[k]] ELSE nx[c[m]]
         /\ \A m \in DOMAIN c :
              pw[c[m]] = IF m = k THEN Null ELSE IF m = k + 1 THEN pv[c[k]] ELSE pv[c[m]]
         /\ \A b \in Node : ~In(b, c) => pw[b] = pv[b] /\ nw[b] = nx[b]
    BY DEF TakesOut
  <1> USE <1>00
  <1> DEFINE d == Removed(c, k)
             x == c[k]
  <1>1. /\ c \in Seq(Node) /\ DOMAIN c = 1..Len(c) /\ Len(c) \in Nat /\ Len(c) > 1
        /\ x \in Node
    <2>1. c \in Seq(Node) /\ c # <<>> BY DEF Forms
    <2> QED BY <2>1, LenProperties, EmptySeq, ElementOfSeq
  <1>2. /\ d \in Seq(Node) /\ Len(d) = Len(c) - 1
        /\ \A m \in 1..(Len(c) - 1) : (m < k => d[m] = c[m]) /\ (m >= k => d[m] = c[m + 1])
    <2>1. k \in 1..Len(c)
      BY <1>1
    <2> QED
      BY <1>1, <2>1, RemovedFacts
  <1>0. /\ (k = Len(c) => nx[x] = Null) /\ (k # Len(c) => nx[x] = c[k + 1])
        /\ (k = 1 => pv[x] = Null) /\ (k # 1 => pv[x] = c[k - 1])
    BY Neighbours
  <1> HIDE DEF d
  <1>3. DOMAIN d = 1..(Len(c) - 1) /\ k \in 1..Len(c) /\ k \in Nat
    BY <1>1, <1>2, LenProperties
  <1>4. Forms(pw, nw, <<x>>) /\ DOMAIN <<x>> = {1} /\ <<x>>[1] = x
    BY <1>1, AloneForms
  <1>5. Forms(pw, nw, d)
    <2>1. d # <<>>
      BY <1>1, <1>2, EmptySeq
    <2>2. pw[d[1]] = Null
      <3>1. CASE k = 1
        <4>1. d[1] = c[2] /\ 2 \in DOMAIN c /\ 2 = k + 1 /\ 2 # k BY <3>1, <1>1, <1>2
        <4> QED BY <4>1, <3>1, <1>0
      <3>2. CASE k > 1
        <4>1. d[1] = c[1] /\ 1 \in DOMAIN c /\ 1 # k /\ 1 # k + 1 BY <3>2, <1>1, <1>2, <1>3
        <4> QED BY <4>1 DEF Forms
      <3> QED BY <3>1, <3>2, <1>3
    <2>3. nw[d[Len(d)]] = Null
      <3>1. CASE k = Len(c)
        <4>1. d[Len(d)] = c[Len(d)] /\ Len(d) \in DOMAIN c /\ Len(d) # k /\ Len(d) = k - 1
          BY <3>1, <1>1, <1>2
        <4> QED BY <4>1, <3>1, <1>0
      <3>2. CASE k < Len(c)
        <4>1. d[Len(d)] = c[Len(c)] /\ Len(c) \in DOMAIN c /\ Len(c) # k - 1 /\ Len(c) # k
          <5>1. Len(d) \in 1..(Len(c) - 1) /\ Len(d) >= k /\ Len(d) + 1 = Len(c) BY <3>2, <1>1, <1>2, <1>3
          <5> QED BY <5>1, <3>2, <1>1, <1>2, <1>3
        <4> QED BY <4>1 DEF Forms
      <3> QED BY <3>1, <3>2, <1>1, <1>3
    <2>4. ASSUME NEW m \in 1..(Len(d) - 1) PROVE nw[d[m]] = d[m + 1]
      <3>0. /\ m \in 1..(Len(c) - 1) /\ m + 1 \in 1..(Len(c) - 1) /\ m \in DOMAIN c /\ m + 1 \in DOMAIN c
            /\ m + 2 \in DOMAIN c /\ (m + 1) + 1 = m + 2
        BY <1>1, <1>2
      <3>1. CASE m = k - 1
        <4>1. d[m] = c[m] /\ d[m + 1] = c[m + 2] /\ k + 1 = m + 2 /\ k # Len(c) /\ m # k
          BY <3>0, <3>1, <1>1, <1>2, <1>3
        <4> QED BY <4>1, <3>0, <3>1, <1>0
      <3>2. CASE m < k - 1
        <4>1. d[m] = c[m] /\ d[m + 1] = c[m + 1] BY <3>0, <3>2, <1>1, <1>2, <1>3
        <4>2. nx[c[m]] = c[m + 1] BY <3>0 DEF Forms
        <4>3. m # k /\ m # k - 1 BY <3>0, <3>2, <1>3
        <4> QED BY <4>1, <4>2, <4>3, <3>0
      <3>3. CASE m >= k
        <4>1. d[m] = c[m + 1] /\ d[m + 1] = c[m + 2]
          BY <3>0, <3>3, <1>2, <1>3
        <4>2. m + 1 # k /\ m + 1 # k - 1 /\ m + 1 \in 1..(Len(c) - 1)
          BY <3>0, <3>3, <1>1, <1>3
        <4>3. nx[c[m + 1]] = c[m + 2] BY <4>2, <3>0 DEF Forms
        <4> QED BY <4>1, <4>2, <4>3, <3>0
      <3> QED BY <3>0, <3>1, <3>2, <3>3, <1>3
    <2> QED BY <1>2, <2>1, <2>2, <2>3, <2>4 DEF Forms
  <1>6. ASSUME NEW b \in Node
        PROVE  In(b, c) <=> (In(b, d) \/ b = x)
    <2>1. ASSUME In(b, d) PROVE In(b, c)
      <3>1. PICK m \in DOMAIN d : d[m] = b BY <2>1 DEF In
      <3>2. CASE m < k
        <4>1. m \in DOMAIN c /\ d[m] = c[m] BY <3>2, <1>1, <1>2, <1>3
        <4> QED BY <3>1, <4>1 DEF In
      <3>3. CASE m >= k
        <4>1. m + 1 \in DOMAIN c /\ d[m] = c[m + 1] BY <3>3, <1>1, <1>2, <1>3
        <4> QED BY <3>1, <4>1 DEF In
      <3> QED BY <3>2, <3>3, <1>1, <1>3
    <2>2. ASSUME In(b, c), b # x PROVE In(b, d)
      <3>1. PICK m \in DOMAIN c : c[m] = b BY <2>2 DEF In
      <3>2. CASE m < k
        <4>1. m \in DOMAIN d /\ d[m] = c[m] BY <3>2, <1>1, <1>2, <1>3
        <4> QED BY <3>1, <4>1 DEF In
      <3>3. CASE m > k
        <4>1. m - 1 \in DOMAIN d /\ m - 1 >= k /\ (m - 1) + 1 = m BY <3>3, <1>1, <1>3
        <4>2. d[m - 1] = c[m] BY <4>1, <1>2, <1>3
        <4> QED BY <3>1, <4>1, <4>2 DEF In
      <3>4. m # k BY <3>1, <2>2
      <3> QED BY <3>2, <3>3, <3>4, <1>1, <1>3
    <2>3. In(x, c)
      BY DEF In
    <2> QED BY <2>1, <2>2, <2>3
  <1> HIDE DEF x
  <1>7. \A b : In(b, <<x>>) <=> b = x
    BY <1>4 DEF In
  <1>8. {c} \in SUBSET ListSet(pv, nx) /\ {d, <<x>>} \in SUBSET ListSet(pw, nw)
    BY <1>4, <1>5 DEF ListSet, Forms
  <1>9. \A b \in Node : (\E s \in {c} : In(b, s)) <=> (\E s \in {d, <<x>>} : In(b, s))
    BY <1>6, <1>7
  <1>10. \A b \in Node : ~(\E s \in {c} : In(b, s)) => pw[b] = pv[b] /\ nw[b] = nx[b]
    OBVIOUS
  <1>11. ListSet(pw, nw) = (ListSet(pv, nx) \ {c}) \cup {d, <<x>>} /\ Covers(pw, nw)
    <2>1. Replaces(pv, nx, pw, nw, {c}, {d, <<x>>})
      BY <1>8, <1>9, <1>10 DEF Replaces
    <2> QED
      BY <2>1, Rebuild
  <1> QED BY <1>11 DEF d, x

-----------------------------------------------------------------------------
(* What the operations do to the lists.                                    *)

\* The inductive invariant of the refinement: the pointers agree, and every node is in
\* a list that ends at both sides.
ListInv == IInv /\ Covers(prev, next)

\* The lists, as the refinement mapping gives them.
LEMMA ChainsAreLists ==
  ASSUME NEW pv, NEW nx, Pointers(pv, nx)
  PROVE  {s \in UNION {[1..n -> Node] : n \in 1..Cardinality(Node)} :
            /\ pv[s[1]] = Null /\ nx[s[Len(s)]] = Null
            /\ \A i \in 1..(Len(s) - 1) : nx[s[i]] = s[i + 1]}
         = ListSet(pv, nx)
  <1> DEFINE U == UNION {[1..n -> Node] : n \in 1..Cardinality(Node)}
             P(s) == /\ pv[s[1]] = Null /\ nx[s[Len(s)]] = Null
                     /\ \A i \in 1..(Len(s) - 1) : nx[s[i]] = s[i + 1]
  <1>1. ASSUME NEW s \in U, P(s) PROVE s \in ListSet(pv, nx)
    <2>1. PICK n \in 1..Cardinality(Node) : s \in [1..n -> Node]
      OBVIOUS
    <2>2. n \in Nat /\ n >= 1
      BY FS_CardinalityType, LinkedAssumption
    <2>3. s \in Seq(Node) /\ Len(s) = n
      BY <2>1, <2>2
    <2>4. s # <<>>
      BY <2>2, <2>3, EmptySeq
    <2> QED BY <2>3, <2>4, <1>1 DEF ListSet, Forms
  <1>2. ASSUME NEW s \in ListSet(pv, nx) PROVE s \in U /\ P(s)
    <2>1. Forms(pv, nx, s) BY DEF ListSet
    <2>2. s \in U BY <2>1, ListIsShort
    <2>3. P(s) BY <2>1 DEF Forms
    <2> QED BY <2>2, <2>3
  <1> HIDE DEF U
  <1>3. {s \in U : P(s)} = ListSet(pv, nx)
    BY <1>1, <1>2
  <1> QED BY <1>3 DEF U

\* a is at place i of c.
AtPlace(c, i, a) ==
  /\ i \in DOMAIN c /\ c[i] = a /\ Forms(prev, next, c) /\ c \in Seq(Node)
  /\ DOMAIN c = 1..Len(c) /\ Len(c) \in Nat /\ Len(c) >= 1
  /\ i = Len(c) <=> next[a] = Null
  /\ i # Len(c) => i + 1 \in DOMAIN c /\ next[a] = c[i + 1]
  /\ i = 1 <=> prev[a] = Null
  /\ i # 1 => i - 1 \in DOMAIN c /\ prev[a] = c[i - 1]
  /\ \A m \in DOMAIN c : c[m] \in Node /\ (c[m] = a <=> m = i)

\* Every node is in one list at one place.
LEMMA PlaceOf ==
  ASSUME ListInv, NEW a \in Node
  PROVE  /\ Pointers(prev, next)
         /\ \E c \in ListSet(prev, next) : \E i \in DOMAIN c : AtPlace(c, i, a)
  <1>1. Pointers(prev, next)
    BY DEF ListInv, IInv, TypeOK, Mutual, Pointers
  <1>2. PICK c : Forms(prev, next, c) /\ \E i \in DOMAIN c : c[i] = a
    BY DEF ListInv, Covers
  <1>3. PICK i \in DOMAIN c : c[i] = a
    BY <1>2
  <1>4. c \in Seq(Node) /\ c \in ListSet(prev, next)
    BY <1>2 DEF ListSet, Forms
  <1>5. /\ DOMAIN c = 1..Len(c) /\ Len(c) \in Nat /\ Len(c) >= 1
        /\ i = Len(c) => next[a] = Null
        /\ i # Len(c) => i + 1 \in DOMAIN c /\ next[a] = c[i + 1] /\ c[i + 1] \in Node
        /\ i = 1 => prev[a] = Null
        /\ i # 1 => i - 1 \in DOMAIN c /\ prev[a] = c[i - 1] /\ c[i - 1] \in Node
    BY <1>1, <1>2, <1>3, Neighbours
  <1>6. \A m \in DOMAIN c : c[m] \in Node
    BY <1>4, <1>5, ElementOfSeq
  <1>7. \A m \in DOMAIN c : c[m] = a <=> m = i
    BY <1>1, <1>2, <1>3, SamePlace
  <1> QED
    BY <1>1, <1>2, <1>3, <1>4, <1>5, <1>6, <1>7, LinkedAssumption DEF AtPlace

\* link_back inserts behind a.
LEMMA LinkBackInserts ==
  ASSUME ListInv, NEW a \in Node, NEW x \in Node, LinkBack(a, x)
  PROVE  /\ \E c \in ListSet(prev, next) : \E i \in DOMAIN c :
              /\ c[i] = a /\ <<x>> \in ListSet(prev, next)
              /\ ListSet(prev', next') =
                   (ListSet(prev, next) \ {c, <<x>>}) \cup {Inserted(c, i + 1, x)}
         /\ Covers(prev', next')
  <1>0. PICK c \in ListSet(prev, next) : \E i \in DOMAIN c : AtPlace(c, i, a)
    BY PlaceOf
  <1>00. PICK i \in DOMAIN c : AtPlace(c, i, a)
    BY <1>0
  <1>1. /\ Pointers(prev, next)
        /\ c[i] = a /\ Forms(prev, next, c) /\ c \in Seq(Node)
        /\ DOMAIN c = 1..Len(c) /\ Len(c) \in Nat /\ Len(c) >= 1
        /\ i = Len(c) <=> next[a] = Null
        /\ i # Len(c) => i + 1 \in DOMAIN c /\ next[a] = c[i + 1]
        /\ i = 1 <=> prev[a] = Null
        /\ i # 1 => i - 1 \in DOMAIN c /\ prev[a] = c[i - 1]
        /\ \A m \in DOMAIN c : c[m] \in Node /\ (c[m] = a <=> m = i)
    BY <1>00, PlaceOf DEF AtPlace
  <1>2. Pointers(prev', next')
    BY LinkBackKeeps DEF ListInv, IInv, TypeOK, Mutual, Pointers
  <1>3. a # x /\ prev[x] = Null /\ next[x] = Null
    BY DEF LinkBack, Unlinked
  <1>4. Forms(prev, next, <<x>>) /\ DOMAIN <<x>> = {1} /\ <<x>>[1] = x
    BY <1>3, AloneForms
  <1>5. ~In(x, c)
    <2> SUFFICES ASSUME NEW j \in DOMAIN c, c[j] = x PROVE FALSE
      BY DEF In
    <2>1. c = <<x>>
      BY <1>1, <1>4, SameList
    <2> QED BY <2>1, <1>1, <1>3, <1>4
  <1>6. \A m \in DOMAIN c : i # Len(c) => (c[m] = c[i + 1] <=> m = i + 1)
    BY <1>1, SamePlace
  <1>7. \A m \in DOMAIN c : c[m] # x
    BY <1>5 DEF In
  <1>8. \A b \in Node : next'[b] = IF b = x THEN next[a] ELSE IF b = a THEN x ELSE next[b]
    BY <1>3 DEF LinkBack, ListInv, IInv, TypeOK
  <1>9. \A b \in Node : prev'[b] = IF b = x THEN a ELSE IF b = next[a] THEN x ELSE prev[b]
    BY DEF LinkBack
  <1>10. i + 1 \in 1..(Len(c) + 1) /\ (i + 1) - 1 = i /\ i \in DOMAIN c /\ (i = Len(c) <=> i + 1 \notin DOMAIN c)
    BY <1>1
  <1>11. ASSUME NEW m \in DOMAIN c
         PROVE  /\ next'[c[m]] = IF m = (i + 1) - 1 THEN x ELSE next[c[m]]
                /\ prev'[c[m]] = IF m = i + 1 THEN x ELSE prev[c[m]]
    <2>1. c[m] \in Node /\ c[m] # x /\ (c[m] = a <=> m = i)
      BY <1>1, <1>7
    <2>2. CASE i = Len(c)
      <3>1. next[a] = Null /\ m # i + 1 BY <2>2, <1>1, <1>10
      <3> QED BY <2>1, <3>1, <1>8, <1>9, <1>10, LinkedAssumption
    <2>3. CASE i # Len(c)
      <3>1. c[m] = next[a] <=> m = i + 1 BY <2>3, <1>1, <1>6
      <3> QED BY <2>1, <3>1, <1>8, <1>9, <1>10
    <2> QED BY <2>2, <2>3
  <1>12. /\ next'[x] = IF i + 1 \in DOMAIN c THEN c[i + 1] ELSE Null
         /\ prev'[x] = IF (i + 1) - 1 \in DOMAIN c THEN c[(i + 1) - 1] ELSE Null
    BY <1>1, <1>8, <1>9, <1>10
  <1>13. ASSUME NEW b \in Node, b # x, ~In(b, c)
         PROVE  prev'[b] = prev[b] /\ next'[b] = next[b]
    <2>1. b # a BY <1>1, <1>13 DEF In
    <2>2. b # next[a]
      BY <1>1, <1>13, LinkedAssumption DEF In
    <2> QED BY <2>1, <2>2, <1>8, <1>9, <1>13
  <1>14. /\ ListSet(prev', next') = (ListSet(prev, next) \ {c, <<x>>}) \cup {Inserted(c, i + 1, x)}
         /\ Covers(prev', next')
    <2>1. LinksIn(prev, next, prev', next', c, i + 1, x)
      BY <1>10, <1>11, <1>12, <1>13 DEF LinksIn
    <2>2. Covers(prev, next)
      BY DEF ListInv
    <2> QED BY <1>1, <1>2, <1>3, <1>5, <2>1, <2>2, InsertLinks
  <1>15. <<x>> \in ListSet(prev, next)
    BY <1>4 DEF ListSet, Forms
  <1> QED BY <1>1, <1>14, <1>15

\* link_front inserts before a.
LEMMA LinkFrontInserts ==
  ASSUME ListInv, NEW a \in Node, NEW x \in Node, LinkFront(a, x)
  PROVE  /\ \E c \in ListSet(prev, next) : \E i \in DOMAIN c :
              /\ c[i] = a /\ <<x>> \in ListSet(prev, next)
              /\ ListSet(prev', next') =
                   (ListSet(prev, next) \ {c, <<x>>}) \cup {Inserted(c, i, x)}
         /\ Covers(prev', next')
  <1>0. PICK c \in ListSet(prev, next) : \E i \in DOMAIN c : AtPlace(c, i, a)
    BY PlaceOf
  <1>00. PICK i \in DOMAIN c : AtPlace(c, i, a)
    BY <1>0
  <1>1. /\ Pointers(prev, next)
        /\ c[i] = a /\ Forms(prev, next, c) /\ c \in Seq(Node)
        /\ DOMAIN c = 1..Len(c) /\ Len(c) \in Nat /\ Len(c) >= 1
        /\ i = Len(c) <=> next[a] = Null
        /\ i # Len(c) => i + 1 \in DOMAIN c /\ next[a] = c[i + 1]
        /\ i = 1 <=> prev[a] = Null
        /\ i # 1 => i - 1 \in DOMAIN c /\ prev[a] = c[i - 1]
        /\ \A m \in DOMAIN c : c[m] \in Node /\ (c[m] = a <=> m = i)
    BY <1>00, PlaceOf DEF AtPlace
  <1>2. Pointers(prev', next')
    BY LinkFrontKeeps DEF ListInv, IInv, TypeOK, Mutual, Pointers
  <1>3. a # x /\ prev[x] = Null /\ next[x] = Null
    BY DEF LinkFront, Unlinked
  <1>4. Forms(prev, next, <<x>>) /\ DOMAIN <<x>> = {1} /\ <<x>>[1] = x
    BY <1>3, AloneForms
  <1>5. ~In(x, c)
    <2> SUFFICES ASSUME NEW j \in DOMAIN c, c[j] = x PROVE FALSE
      BY DEF In
    <2>1. c = <<x>>
      BY <1>1, <1>4, SameList
    <2> QED BY <2>1, <1>1, <1>3, <1>4
  <1>6. \A m \in DOMAIN c : i # 1 => (c[m] = c[i - 1] <=> m = i - 1)
    BY <1>1, SamePlace
  <1>7. \A m \in DOMAIN c : c[m] # x
    BY <1>5 DEF In
  <1>8. \A b \in Node : prev'[b] = IF b = x THEN prev[a] ELSE IF b = a THEN x ELSE prev[b]
    BY <1>3 DEF LinkFront, ListInv, IInv, TypeOK
  <1>9. \A b \in Node : next'[b] = IF b = x THEN a ELSE IF b = prev[a] THEN x ELSE next[b]
    BY DEF LinkFront
  <1>10. i \in 1..(Len(c) + 1) /\ (i = 1 <=> i - 1 \notin DOMAIN c)
    BY <1>1
  <1>11. ASSUME NEW m \in DOMAIN c
         PROVE  /\ next'[c[m]] = IF m = i - 1 THEN x ELSE next[c[m]]
                /\ prev'[c[m]] = IF m = i THEN x ELSE prev[c[m]]
    <2>1. c[m] \in Node /\ c[m] # x /\ (c[m] = a <=> m = i)
      BY <1>1, <1>7
    <2>2. CASE i = 1
      <3>1. prev[a] = Null /\ m # i - 1 BY <2>2, <1>1, <1>10
      <3> QED BY <2>1, <3>1, <1>8, <1>9, <1>10, LinkedAssumption
    <2>3. CASE i # 1
      <3>1. c[m] = prev[a] <=> m = i - 1 BY <2>3, <1>1, <1>6
      <3> QED BY <2>1, <3>1, <1>8, <1>9, <1>10
    <2> QED BY <2>2, <2>3
  <1>12. /\ next'[x] = IF i \in DOMAIN c THEN c[i] ELSE Null
         /\ prev'[x] = IF i - 1 \in DOMAIN c THEN c[i - 1] ELSE Null
    BY <1>1, <1>8, <1>9, <1>10
  <1>13. ASSUME NEW b \in Node, b # x, ~In(b, c)
         PROVE  prev'[b] = prev[b] /\ next'[b] = next[b]
    <2>1. b # a BY <1>1, <1>13 DEF In
    <2>2. b # prev[a]
      BY <1>1, <1>13, LinkedAssumption DEF In
    <2> QED BY <2>1, <2>2, <1>8, <1>9, <1>13
  <1>14. /\ ListSet(prev', next') = (ListSet(prev, next) \ {c, <<x>>}) \cup {Inserted(c, i, x)}
         /\ Covers(prev', next')
    <2>1. LinksIn(prev, next, prev', next', c, i, x)
      BY <1>10, <1>11, <1>12, <1>13 DEF LinksIn
    <2>2. Covers(prev, next)
      BY DEF ListInv
    <2> QED BY <1>1, <1>2, <1>3, <1>5, <2>1, <2>2, InsertLinks
  <1>15. <<x>> \in ListSet(prev, next)
    BY <1>4 DEF ListSet, Forms
  <1> QED BY <1>1, <1>14, <1>15

\* The place of a node in a list is its only place in any list.
LEMMA OnlyPlace ==
  ASSUME Pointers(prev, next), NEW a, NEW y, NEW c, NEW i, AtPlace(c, i, a),
         NEW d, NEW j, AtPlace(d, j, y), NEW k \in DOMAIN c, c[k] = y
  PROVE  d = c /\ j = k
  BY SameList, SamePlace DEF AtPlace

\* What all three unlink operations do to the pointers when they take y out.
Closes(y) ==
  /\ next' = [b \in Node |-> IF b = y THEN Null ELSE IF b = prev[y] THEN next[y] ELSE next[b]]
  /\ prev' = [b \in Node |-> IF b = y THEN Null ELSE IF b = next[y] THEN prev[y] ELSE prev[b]]

\* The list closes up where a node leaves it.
LEMMA ClosesUp ==
  ASSUME ListInv, IInv', NEW y \in Node, ~Unlinked(y), Closes(y), NEW c, NEW k, AtPlace(c, k, y)
  PROVE  /\ Len(c) > 1
         /\ ListSet(prev', next') = (ListSet(prev, next) \ {c}) \cup {Removed(c, k), <<c[k]>>}
         /\ Covers(prev', next')
  <1>1. /\ k \in DOMAIN c /\ c[k] = y /\ Forms(prev, next, c) /\ c \in Seq(Node)
        /\ DOMAIN c = 1..Len(c) /\ Len(c) \in Nat /\ Len(c) >= 1
        /\ k = Len(c) <=> next[y] = Null
        /\ k # Len(c) => k + 1 \in DOMAIN c /\ next[y] = c[k + 1]
        /\ k = 1 <=> prev[y] = Null
        /\ k # 1 => k - 1 \in DOMAIN c /\ prev[y] = c[k - 1]
        /\ \A m \in DOMAIN c : c[m] \in Node /\ (c[m] = y <=> m = k)
    BY DEF AtPlace
  <1>2. Pointers(prev, next) /\ Pointers(prev', next') /\ Covers(prev, next)
    BY DEF ListInv, IInv, TypeOK, Mutual, Pointers
  <1>3. Len(c) > 1
    <2>1. k # 1 \/ k # Len(c)
      BY <1>1 DEF Unlinked
    <2> QED BY <2>1, <1>1
  <1>4. /\ \A m \in DOMAIN c : k # 1 => (c[m] = c[k - 1] <=> m = k - 1)
        /\ \A m \in DOMAIN c : k # Len(c) => (c[m] = c[k + 1] <=> m = k + 1)
    BY <1>1, <1>2, SamePlace
  <1>5. /\ \A b \in Node : next'[b] = IF b = y THEN Null ELSE IF b = prev[y] THEN next[y] ELSE next[b]
        /\ \A b \in Node : prev'[b] = IF b = y THEN Null ELSE IF b = next[y] THEN prev[y] ELSE prev[b]
    BY DEF Closes
  <1>6. ASSUME NEW m \in DOMAIN c
        PROVE  next'[c[m]] = IF m = k THEN Null ELSE IF m = k - 1 THEN next[c[k]] ELSE next[c[m]]
    <2>1. c[m] \in Node /\ (c[m] = y <=> m = k)
      BY <1>1
    <2>2. CASE k = 1
      <3>1. prev[y] = Null /\ m # k - 1 BY <2>2, <1>1
      <3> QED BY <2>1, <3>1, <1>5, LinkedAssumption
    <2>3. CASE k # 1
      <3>1. c[m] = prev[y] <=> m = k - 1 BY <2>3, <1>1, <1>4
      <3> QED BY <2>1, <3>1, <1>1, <1>5
    <2> QED BY <2>2, <2>3
  <1>7. ASSUME NEW m \in DOMAIN c
        PROVE  prev'[c[m]] = IF m = k THEN Null ELSE IF m = k + 1 THEN prev[c[k]] ELSE prev[c[m]]
    <2>1. c[m] \in Node /\ (c[m] = y <=> m = k)
      BY <1>1
    <2>2. CASE k = Len(c)
      <3>1. next[y] = Null /\ m # k + 1 BY <2>2, <1>1
      <3> QED BY <2>1, <3>1, <1>5, LinkedAssumption
    <2>3. CASE k # Len(c)
      <3>1. c[m] = next[y] <=> m = k + 1 BY <2>3, <1>1, <1>4
      <3> QED BY <2>1, <3>1, <1>1, <1>5
    <2> QED BY <2>2, <2>3
  <1>8. ASSUME NEW b \in Node, ~In(b, c)
        PROVE  prev'[b] = prev[b] /\ next'[b] = next[b]
    <2>1. b # y BY <1>1, <1>8 DEF In
    <2>2. b # next[y] BY <1>1, <1>8, LinkedAssumption DEF In
    <2>3. b # prev[y] BY <1>1, <1>8, LinkedAssumption DEF In
    <2> QED BY <2>1, <2>2, <2>3, <1>5
  <1>9. TakesOut(prev, next, prev', next', c, k)
    BY <1>1, <1>3, <1>6, <1>7, <1>8 DEF TakesOut
  <1> QED
    BY <1>1, <1>2, <1>3, <1>9, RemoveLinks

\* unlink_this takes a node out of its list, if it is in one.
LEMMA UnlinkThisTakes ==
  ASSUME ListInv, NEW a \in Node, UnlinkThis(a), ~Unlinked(a)
  PROVE  /\ \E c \in ListSet(prev, next) : \E i \in DOMAIN c :
              /\ c[i] = a /\ Len(c) > 1
              /\ ListSet(prev', next') = (ListSet(prev, next) \ {c}) \cup {Removed(c, i), <<c[i]>>}
              /\ ret' = c[i]
         /\ Covers(prev', next')
  <1>1. PICK c \in ListSet(prev, next) : \E i \in DOMAIN c : AtPlace(c, i, a)
    BY PlaceOf
  <1>2. PICK i \in DOMAIN c : AtPlace(c, i, a)
    BY <1>1
  <1>3. IInv' /\ Closes(a) /\ ret' = a
    BY UnlinkThisKeeps DEF ListInv, UnlinkThis, Closes
  <1>4. c[i] = a
    BY <1>2 DEF AtPlace
  <1>5. /\ Len(c) > 1
        /\ ListSet(prev', next') = (ListSet(prev, next) \ {c}) \cup {Removed(c, i), <<c[i]>>}
        /\ Covers(prev', next')
    BY <1>2, <1>3, ClosesUp
  <1> QED
    BY <1>3, <1>4, <1>5

\* unlink_back takes out the node behind a, if there is one.
LEMMA UnlinkBackTakes ==
  ASSUME ListInv, NEW a \in Node, UnlinkBack(a), next[a] # Null
  PROVE  /\ \E c \in ListSet(prev, next) : \E i \in DOMAIN c :
              /\ c[i] = a /\ Len(c) > 1 /\ i + 1 \in DOMAIN c
              /\ ListSet(prev', next') = (ListSet(prev, next) \ {c}) \cup {Removed(c, i + 1), <<c[i + 1]>>}
              /\ ret' = c[i + 1]
         /\ Covers(prev', next')
  <1>1. PICK c \in ListSet(prev, next) : \E i \in DOMAIN c : AtPlace(c, i, a)
    BY PlaceOf
  <1>2. PICK i \in DOMAIN c : AtPlace(c, i, a)
    BY <1>1
  <1> DEFINE y == next[a]
  <1>3. y \in Node /\ prev[y] = a /\ a # Null
    BY LinkedAssumption DEF ListInv, IInv, TypeOK, Mutual
  <1>4. ~Unlinked(y)
    BY <1>3 DEF Unlinked
  <1>5. IInv' /\ Closes(y) /\ ret' = y
    <2>1. IInv' /\ ret' = y
      BY UnlinkBackKeeps DEF ListInv, UnlinkBack
    <2>2. next' = [next EXCEPT ![a] = next[y], ![y] = Null]
      BY DEF UnlinkBack
    <2>3. prev' = [b \in Node |-> IF b = y THEN Null ELSE IF b = next[y] THEN a ELSE prev[b]]
      BY DEF UnlinkBack
    <2>4. next' = [b \in Node |-> IF b = y THEN Null ELSE IF b = prev[y] THEN next[y] ELSE next[b]]
      BY <1>3, <2>2 DEF ListInv, IInv, TypeOK
    <2> QED BY <1>3, <2>1, <2>3, <2>4 DEF Closes
  <1>6. c[i] = a /\ i + 1 \in DOMAIN c /\ c[i + 1] = y
    BY <1>2 DEF AtPlace
  <1>7. AtPlace(c, i + 1, y)
    <2>1. PICK d \in ListSet(prev, next) : \E j \in DOMAIN d : AtPlace(d, j, y)
      BY <1>3, PlaceOf
    <2>2. PICK j \in DOMAIN d : AtPlace(d, j, y)
      BY <2>1
    <2>3. d = c /\ j = i + 1
      BY <1>2, <1>3, <1>6, <2>2, OnlyPlace, PlaceOf
    <2> QED BY <2>2, <2>3
  <1> HIDE DEF y
  <1>8. /\ Len(c) > 1
        /\ ListSet(prev', next') = (ListSet(prev, next) \ {c}) \cup {Removed(c, i + 1), <<c[i + 1]>>}
        /\ Covers(prev', next')
    BY <1>3, <1>4, <1>5, <1>7, ClosesUp
  <1> QED
    BY <1>5, <1>6, <1>8

\* unlink_front takes out the node before a, if there is one.
LEMMA UnlinkFrontTakes ==
  ASSUME ListInv, NEW a \in Node, UnlinkFront(a), prev[a] # Null
  PROVE  /\ \E c \in ListSet(prev, next) : \E i \in DOMAIN c :
              /\ c[i] = a /\ Len(c) > 1 /\ i - 1 \in DOMAIN c
              /\ ListSet(prev', next') = (ListSet(prev, next) \ {c}) \cup {Removed(c, i - 1), <<c[i - 1]>>}
              /\ ret' = c[i - 1]
         /\ Covers(prev', next')
  <1>1. PICK c \in ListSet(prev, next) : \E i \in DOMAIN c : AtPlace(c, i, a)
    BY PlaceOf
  <1>2. PICK i \in DOMAIN c : AtPlace(c, i, a)
    BY <1>1
  <1> DEFINE y == prev[a]
  <1>3. y \in Node /\ next[y] = a /\ a # Null
    BY LinkedAssumption DEF ListInv, IInv, TypeOK, Mutual
  <1>4. ~Unlinked(y)
    BY <1>3 DEF Unlinked
  <1>5. IInv' /\ Closes(y) /\ ret' = y
    <2>1. IInv' /\ ret' = y
      BY UnlinkFrontKeeps DEF ListInv, UnlinkFront
    <2>2. prev' = [prev EXCEPT ![a] = prev[y], ![y] = Null]
      BY DEF UnlinkFront
    <2>3. next' = [b \in Node |-> IF b = y THEN Null ELSE IF b = prev[y] THEN a ELSE next[b]]
      BY DEF UnlinkFront
    <2>4. prev' = [b \in Node |-> IF b = y THEN Null ELSE IF b = next[y] THEN prev[y] ELSE prev[b]]
      BY <1>3, <2>2 DEF ListInv, IInv, TypeOK
    <2> QED BY <1>3, <2>1, <2>3, <2>4 DEF Closes
  <1>6. c[i] = a /\ i - 1 \in DOMAIN c /\ c[i - 1] = y
    BY <1>2 DEF AtPlace
  <1>7. AtPlace(c, i - 1, y)
    <2>1. PICK d \in ListSet(prev, next) : \E j \in DOMAIN d : AtPlace(d, j, y)
      BY <1>3, PlaceOf
    <2>2. PICK j \in DOMAIN d : AtPlace(d, j, y)
      BY <2>1
    <2>3. d = c /\ j = i - 1
      BY <1>2, <1>3, <1>6, <2>2, OnlyPlace, PlaceOf
    <2> QED BY <2>2, <2>3
  <1> HIDE DEF y
  <1>8. /\ Len(c) > 1
        /\ ListSet(prev', next') = (ListSet(prev, next) \ {c}) \cup {Removed(c, i - 1), <<c[i - 1]>>}
        /\ Covers(prev', next')
    BY <1>3, <1>4, <1>5, <1>7, ClosesUp
  <1> QED
    BY <1>5, <1>6, <1>8

\* An unlink that finds nothing to take out leaves the pointers as they are.
LEMMA NothingTaken ==
  ASSUME ListInv, NEW a \in Node,
         \/ UnlinkThis(a) /\ Unlinked(a)
         \/ UnlinkBack(a) /\ next[a] = Null
         \/ UnlinkFront(a) /\ prev[a] = Null
  PROVE  prev' = prev /\ next' = next /\ ret' = Null
  <1>1. CASE UnlinkThis(a) /\ Unlinked(a)
    <2>1. prev[a] = Null /\ next[a] = Null /\ prev \in [Node -> Node \cup {Null}] /\ next \in [Node -> Node \cup {Null}]
      BY <1>1 DEF Unlinked, ListInv, IInv, TypeOK
    <2>2. next' = [b \in Node |-> IF b = a THEN Null ELSE IF b = Null THEN Null ELSE next[b]]
      BY <1>1, <2>1 DEF UnlinkThis
    <2>3. prev' = [b \in Node |-> IF b = a THEN Null ELSE IF b = Null THEN Null ELSE prev[b]]
      BY <1>1, <2>1 DEF UnlinkThis
    <2>4. next' = next
      BY <2>1, <2>2, LinkedAssumption
    <2>5. prev' = prev
      BY <2>1, <2>3, LinkedAssumption
    <2> QED BY <1>1, <2>4, <2>5 DEF UnlinkThis
  <1>2. CASE UnlinkBack(a) /\ next[a] = Null
    BY <1>2 DEF UnlinkBack
  <1>3. CASE UnlinkFront(a) /\ prev[a] = Null
    BY <1>3 DEF UnlinkFront
  <1> QED BY <1>1, <1>2, <1>3

\* At first every node is a list of its own.
LEMMA FirstLists ==
  ASSUME Init
  PROVE  ListInv /\ ListSet(prev, next) = {<<x>> : x \in Node}
  <1>1. IInv
    BY InitHolds
  <1>2. \A x \in Node : prev[x] = Null /\ next[x] = Null
    BY DEF Init
  <1>3. ASSUME NEW x \in Node PROVE Forms(prev, next, <<x>>) /\ \E i \in DOMAIN <<x>> : <<x>>[i] = x
    <2>1. Forms(prev, next, <<x>>) /\ DOMAIN <<x>> = {1} /\ <<x>>[1] = x
      BY <1>2, AloneForms
    <2> QED BY <2>1
  <1>4. Covers(prev, next)
    BY <1>3 DEF Covers
  <1>5. ASSUME NEW s \in ListSet(prev, next) PROVE \E x \in Node : s = <<x>>
    <2>1. Forms(prev, next, s) /\ s \in Seq(Node) /\ s # <<>>
      BY DEF ListSet, Forms
    <2>2. 1 \in DOMAIN s /\ s[1] \in Node
      BY <2>1, LenProperties, EmptySeq, ElementOfSeq
    <2>3. Pointers(prev, next)
      BY <1>1 DEF IInv, TypeOK, Mutual, Pointers
    <2>4. Forms(prev, next, <<s[1]>>) /\ DOMAIN <<s[1]>> = {1} /\ <<s[1]>>[1] = s[1]
      BY <1>2, <2>2, AloneForms
    <2>5. s = <<s[1]>>
      <3> DEFINE t == <<s[1]>>
      <3>1. Forms(prev, next, t) /\ 1 \in DOMAIN t /\ t[1] = s[1] BY <2>4
      <3> HIDE DEF t
      <3>2. s = t BY <3>1, <2>1, <2>2, <2>3, SameList
      <3> QED BY <3>2 DEF t
    <2> QED BY <2>2, <2>5
  <1>6. ASSUME NEW x \in Node PROVE <<x>> \in ListSet(prev, next)
    BY <1>3 DEF ListSet, Forms
  <1> QED
    BY <1>1, <1>4, <1>5, <1>6 DEF ListInv

\* Every step keeps every node in a list.
LEMMA ListStep ==
  ASSUME ListInv, [Next]_vars
  PROVE  ListInv'
  <1>1. ASSUME NEW a \in Node, NEW x \in Node, LinkBack(a, x) PROVE ListInv'
    BY <1>1, LinkBackKeeps, LinkBackInserts DEF ListInv
  <1>2. ASSUME NEW a \in Node, NEW x \in Node, LinkFront(a, x) PROVE ListInv'
    BY <1>2, LinkFrontKeeps, LinkFrontInserts DEF ListInv
  <1>3. ASSUME NEW a \in Node, UnlinkThis(a) PROVE ListInv'
    <2>1. IInv' BY <1>3, UnlinkThisKeeps DEF ListInv
    <2>2. CASE Unlinked(a)
      <3>1. prev' = prev /\ next' = next BY <1>3, <2>2, NothingTaken
      <3> QED BY <2>1, <3>1 DEF ListInv
    <2>3. CASE ~Unlinked(a)
      BY <1>3, <2>1, <2>3, UnlinkThisTakes DEF ListInv
    <2> QED BY <2>2, <2>3
  <1>4. ASSUME NEW a \in Node, UnlinkBack(a) PROVE ListInv'
    <2>1. IInv' BY <1>4, UnlinkBackKeeps DEF ListInv
    <2>2. CASE next[a] = Null
      <3>1. prev' = prev /\ next' = next BY <1>4, <2>2, NothingTaken
      <3> QED BY <2>1, <3>1 DEF ListInv
    <2>3. CASE next[a] # Null
      BY <1>4, <2>1, <2>3, UnlinkBackTakes DEF ListInv
    <2> QED BY <2>2, <2>3
  <1>5. ASSUME NEW a \in Node, UnlinkFront(a) PROVE ListInv'
    <2>1. IInv' BY <1>5, UnlinkFrontKeeps DEF ListInv
    <2>2. CASE prev[a] = Null
      <3>1. prev' = prev /\ next' = next BY <1>5, <2>2, NothingTaken
      <3> QED BY <2>1, <3>1 DEF ListInv
    <2>3. CASE prev[a] # Null
      BY <1>5, <2>1, <2>3, UnlinkFrontTakes DEF ListInv
    <2> QED BY <2>2, <2>3
  <1>6. CASE UNCHANGED vars
    BY <1>6 DEF vars, ListInv, IInv, TypeOK, Mutual
  <1> QED
    BY <1>1, <1>2, <1>3, <1>4, <1>5, <1>6 DEF Next

\* The mapped variable, in this state and the next.
Mapped == {s \in UNION {[1..n -> Node] : n \in 1..Cardinality(Node)} : IsChain(s)}

\* It is the set of lists that the pointers form.
LEMMA MappedIs ==
  ASSUME IInv
  PROVE  Mapped = ListSet(prev, next)
  <1>1. Pointers(prev, next)
    BY DEF IInv, TypeOK, Mutual, Pointers
  <1> QED
    BY <1>1, ChainsAreLists DEF Mapped, IsChain

\* So it is after the step.
LEMMA MappedNext ==
  ASSUME IInv'
  PROVE  Mapped' = ListSet(prev', next')
  <1>1. Pointers(prev', next')
    BY DEF IInv, TypeOK, Mutual, Pointers
  <1> QED
    BY <1>1, ChainsAreLists DEF Mapped, IsChain

\* The places of a list are numbers.
LEMMA PlacesAreNumbers ==
  ASSUME NEW c \in ListSet(prev, next), NEW i \in DOMAIN c
  PROVE  i \in 1..Len(c) /\ i + 0 = i /\ Len(c) \in Nat
  <1>1. c \in Seq(Node)
    BY DEF ListSet
  <1>2. i \in 1..Len(c) /\ Len(c) \in Nat
    BY <1>1, LenProperties
  <1> QED BY <1>2

\* link_back and link_front are the insertions of the abstract lists.
LEMMA LinksRefine ==
  ASSUME ListInv, ListInv', NEW a \in Node, NEW x \in Node, LinkBack(a, x) \/ LinkFront(a, x)
  PROVE  Abstract!Insert(a, x, 1) \/ Abstract!Insert(a, x, 0)
  <1> DEFINE M == Mapped
             L == ListSet(prev, next)
             K == ListSet(prev', next')
  <1>1. M = L /\ M' = K
    BY MappedIs, MappedNext DEF ListInv
  <1>2. CASE LinkBack(a, x)
    <2>1. PICK c \in L : \E i \in DOMAIN c :
            /\ c[i] = a /\ <<x>> \in L
            /\ K = (L \ {c, <<x>>}) \cup {Inserted(c, i + 1, x)}
      BY <1>2, LinkBackInserts
    <2>2. a # x /\ ret' = ret BY <1>2 DEF LinkBack
    <2>3. \E i \in DOMAIN c : /\ a # x /\ c[i] = a /\ <<x>> \in M
                              /\ M' = (M \ {c, <<x>>}) \cup {Inserted(c, i + 1, x)}
                              /\ UNCHANGED ret
      BY <1>1, <2>1, <2>2
    <2>4. c \in M BY <1>1
    <2>5. Abstract!Insert(a, x, 1)
      BY <2>3, <2>4 DEF Abstract!Insert, Abstract!InsertAt, Inserted, Mapped
    <2> QED BY <2>5
  <1>3. CASE LinkFront(a, x)
    <2>1. PICK c \in L : \E i \in DOMAIN c :
            /\ c[i] = a /\ <<x>> \in L
            /\ K = (L \ {c, <<x>>}) \cup {Inserted(c, i, x)}
      BY <1>3, LinkFrontInserts
    <2>2. a # x /\ ret' = ret BY <1>3 DEF LinkFront
    <2>3. \E i \in DOMAIN c : /\ a # x /\ c[i] = a /\ <<x>> \in M
                              /\ M' = (M \ {c, <<x>>}) \cup {Inserted(c, i + 0, x)}
                              /\ UNCHANGED ret
      <3>1. PICK i \in DOMAIN c : /\ c[i] = a /\ <<x>> \in L
                                  /\ K = (L \ {c, <<x>>}) \cup {Inserted(c, i, x)}
        BY <2>1
      <3>2. i + 0 = i
        BY PlacesAreNumbers
      <3> QED
        BY <1>1, <2>2, <3>1, <3>2
    <2>4. c \in M BY <1>1
    <2>5. Abstract!Insert(a, x, 0)
      BY <2>3, <2>4 DEF Abstract!Insert, Abstract!InsertAt, Inserted, Mapped
    <2> QED BY <2>5
  <1> QED BY <1>2, <1>3

\* An unlink that finds a node takes it out of its list.
LEMMA TakesRefine ==
  ASSUME ListInv, ListInv', NEW a \in Node, NEW offset \in {-1, 0, 1},
         NEW c \in ListSet(prev, next), NEW i \in DOMAIN c, c[i] = a, Len(c) > 1, i + offset \in DOMAIN c,
         ListSet(prev', next') =
           (ListSet(prev, next) \ {c}) \cup {Removed(c, i + offset), <<c[i + offset]>>},
         ret' = c[i + offset]
  PROVE  Abstract!Take(a, offset)
  <1> DEFINE M == Mapped
  <1>1. M = ListSet(prev, next) /\ M' = ListSet(prev', next')
    BY MappedIs, MappedNext DEF ListInv
  <1>2. /\ c \in M /\ c[i] = a /\ Len(c) > 1 /\ i + offset \in DOMAIN c
        /\ M' = (M \ {c}) \cup {Removed(c, i + offset), <<c[i + offset]>>}
        /\ ret' = c[i + offset]
    BY <1>1
  <1> QED
    BY <1>2 DEF Abstract!Take, Abstract!RemoveAt, Removed, Mapped

\* An unlink that finds none leaves the lists as they are.
LEMMA NonesRefine ==
  ASSUME ListInv, ListInv', NEW a \in Node, NEW offset \in {-1, 0, 1},
         NEW c \in ListSet(prev, next), NEW i \in DOMAIN c, c[i] = a,
         Len(c) = 1 \/ i + offset \notin DOMAIN c,
         prev' = prev, next' = next, ret' = Null
  PROVE  Abstract!TakeNone(a, offset)
  <1> DEFINE M == Mapped
  <1>1. M = ListSet(prev, next) /\ M' = ListSet(prev', next')
    BY MappedIs, MappedNext DEF ListInv
  <1>2. /\ c \in M /\ c[i] = a /\ (Len(c) = 1 \/ i + offset \notin DOMAIN c)
        /\ M' = M /\ ret' = Null
    BY <1>1
  <1> QED
    BY <1>2 DEF Abstract!TakeNone, Mapped

\* The three unlink operations are those of the abstract lists.
LEMMA UnlinksRefine ==
  ASSUME ListInv, ListInv', NEW a \in Node,
         UnlinkThis(a) \/ UnlinkBack(a) \/ UnlinkFront(a)
  PROVE  \E offset \in {-1, 0, 1} : Abstract!Take(a, offset) \/ Abstract!TakeNone(a, offset)
  <1>1. PICK c \in ListSet(prev, next) : \E i \in DOMAIN c : AtPlace(c, i, a)
    BY PlaceOf
  <1>2. PICK i \in DOMAIN c : AtPlace(c, i, a)
    BY <1>1
  <1>3. /\ c[i] = a /\ i \in 1..Len(c) /\ Len(c) \in Nat /\ DOMAIN c = 1..Len(c)
        /\ i = Len(c) <=> next[a] = Null
        /\ i = 1 <=> prev[a] = Null
    BY <1>2 DEF AtPlace
  <1>4. CASE UnlinkThis(a)
    <2>1. CASE Unlinked(a)
      <3>1. prev' = prev /\ next' = next /\ ret' = Null
        BY <1>4, <2>1, NothingTaken
      <3>2. Len(c) = 1
        BY <1>3, <2>1 DEF Unlinked
      <3> QED BY <1>3, <3>1, <3>2, NonesRefine
    <2>2. CASE ~Unlinked(a)
      <3>1. PICK d \in ListSet(prev, next) : \E j \in DOMAIN d :
              /\ d[j] = a /\ Len(d) > 1
              /\ ListSet(prev', next') = (ListSet(prev, next) \ {d}) \cup {Removed(d, j), <<d[j]>>}
              /\ ret' = d[j]
        BY <1>4, <2>2, UnlinkThisTakes
      <3>2. PICK j \in DOMAIN d :
              /\ d[j] = a /\ Len(d) > 1
              /\ ListSet(prev', next') = (ListSet(prev, next) \ {d}) \cup {Removed(d, j), <<d[j]>>}
              /\ ret' = d[j]
        BY <3>1
      <3>3. j + 0 = j
        BY PlacesAreNumbers
      <3>4. /\ j + 0 \in DOMAIN d
            /\ ListSet(prev', next') = (ListSet(prev, next) \ {d}) \cup {Removed(d, j + 0), <<d[j + 0]>>}
            /\ ret' = d[j + 0]
        BY <3>2, <3>3
      <3>5. Abstract!Take(a, 0)
        BY <3>2, <3>4, TakesRefine
      <3> QED BY <3>5
    <2> QED BY <2>1, <2>2
  <1>5. CASE UnlinkBack(a)
    <2>1. CASE next[a] = Null
      <3>1. prev' = prev /\ next' = next /\ ret' = Null
        BY <1>5, <2>1, NothingTaken
      <3>2. i + 1 \notin DOMAIN c
        BY <1>3, <2>1
      <3>3. Abstract!TakeNone(a, 1)
        BY <1>3, <3>1, <3>2, NonesRefine
      <3> QED BY <3>3
    <2>2. CASE next[a] # Null
      <3>1. PICK d \in ListSet(prev, next) : \E j \in DOMAIN d :
              /\ d[j] = a /\ Len(d) > 1 /\ j + 1 \in DOMAIN d
              /\ ListSet(prev', next') = (ListSet(prev, next) \ {d}) \cup {Removed(d, j + 1), <<d[j + 1]>>}
              /\ ret' = d[j + 1]
        BY <1>5, <2>2, UnlinkBackTakes
      <3>2. Abstract!Take(a, 1)
        BY <3>1, TakesRefine
      <3> QED BY <3>2
    <2> QED BY <2>1, <2>2
  <1>6. CASE UnlinkFront(a)
    <2>1. CASE prev[a] = Null
      <3>1. prev' = prev /\ next' = next /\ ret' = Null
        BY <1>6, <2>1, NothingTaken
      <3>2. i + (-1) \notin DOMAIN c
        BY <1>3, <2>1
      <3>3. Abstract!TakeNone(a, -1)
        BY <1>3, <3>1, <3>2, NonesRefine
      <3> QED BY <3>3
    <2>2. CASE prev[a] # Null
      <3>1. PICK d \in ListSet(prev, next) : \E j \in DOMAIN d :
              /\ d[j] = a /\ Len(d) > 1 /\ j - 1 \in DOMAIN d
              /\ ListSet(prev', next') = (ListSet(prev, next) \ {d}) \cup {Removed(d, j - 1), <<d[j - 1]>>}
              /\ ret' = d[j - 1]
        BY <1>6, <2>2, UnlinkFrontTakes
      <3>2. PICK j \in DOMAIN d :
              /\ d[j] = a /\ Len(d) > 1 /\ j - 1 \in DOMAIN d
              /\ ListSet(prev', next') = (ListSet(prev, next) \ {d}) \cup {Removed(d, j - 1), <<d[j - 1]>>}
              /\ ret' = d[j - 1]
        BY <3>1
      <3>3. j + (-1) = j - 1
        BY PlacesAreNumbers
      <3>4. /\ j + (-1) \in DOMAIN d
            /\ ListSet(prev', next') = (ListSet(prev, next) \ {d}) \cup {Removed(d, j + (-1)), <<d[j + (-1)]>>}
            /\ ret' = d[j + (-1)]
        BY <3>2, <3>3
      <3>5. Abstract!Take(a, -1)
        BY <3>2, <3>4, TakesRefine
      <3> QED BY <3>5
    <2> QED BY <2>1, <2>2
  <1> QED BY <1>4, <1>5, <1>6

\* Any sequence of links and unlinks does to the pointers what the same operations do to
\* sequences of nodes: no node is lost or duplicated, no list becomes a ring, and an
\* unlink returns the node that its place in the sequence says.
THEOREM PointersAreLists == Spec => ImplementsChains
  <1>1. Init => Abstract!Init
    <2> SUFFICES ASSUME Init PROVE Abstract!Init
      OBVIOUS
    <2>1. Mapped = {<<x>> : x \in Node} /\ ret = Null
      BY FirstLists, MappedIs DEF ListInv, Init
    <2> QED BY <2>1 DEF Abstract!Init, Mapped
  <1>2. Init => ListInv
    BY FirstLists
  <1>3. ListInv /\ [Next]_vars => ListInv'
    BY ListStep
  <1>4. ListInv /\ ListInv' /\ [Next]_vars => [Abstract!Next]_<<Mapped, ret>>
    <2> SUFFICES ASSUME ListInv, ListInv', [Next]_vars PROVE [Abstract!Next]_<<Mapped, ret>>
      OBVIOUS
    <2>1. ASSUME NEW a \in Node, NEW x \in Node, LinkBack(a, x) \/ LinkFront(a, x)
          PROVE  Abstract!Next
      <3>1. Abstract!Insert(a, x, 1) \/ Abstract!Insert(a, x, 0)
        BY <2>1, LinksRefine
      <3> QED BY <3>1 DEF Abstract!Next
    <2>2. ASSUME NEW a \in Node, UnlinkThis(a) \/ UnlinkBack(a) \/ UnlinkFront(a)
          PROVE  Abstract!Next
      <3>1. \E offset \in {-1, 0, 1} : Abstract!Take(a, offset) \/ Abstract!TakeNone(a, offset)
        BY <2>2, UnlinksRefine
      <3> QED BY <3>1 DEF Abstract!Next
    <2>3. CASE UNCHANGED vars
      BY <2>3, MappedIs, MappedNext DEF vars, ListInv
    <2> QED
      BY <2>1, <2>2, <2>3 DEF Next
  <1> QED
    BY <1>1, <1>2, <1>3, <1>4, PTL DEF Spec, ImplementsChains, Abstract!Spec, Mapped
================================================================================
