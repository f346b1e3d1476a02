------------------------------- MODULE ListProofs -------------------------------
(***************************************************************************)
(* Lemmas about lists without repetition, which the wait lists, the run    *)
(* queues, the task pools and the linked messages are.                     *)
(***************************************************************************)
EXTENDS Lists, TLAPS, SequenceTheorems

\* unlink_back takes the first element and no other.
LEMMA TailFacts ==
  ASSUME NEW Elem, NEW q \in Seq(Elem), q # <<>>, Distinct(q)
  PROVE  /\ Head(q) \in Elem
         /\ Tail(q) \in Seq(Elem)
         /\ Distinct(Tail(q))
         /\ ToSet(Tail(q)) = ToSet(q) \ {Head(q)}
         /\ Head(q) \in ToSet(q)
<1>1. Tail(q) \in Seq(Elem) /\ Len(Tail(q)) = Len(q) - 1 /\ Len(q) \in Nat /\ Len(q) >= 1
  BY HeadTailProperties, LenProperties, EmptySeq
<1>2. \A i \in 1..(Len(q) - 1) : Tail(q)[i] = q[i + 1]
  BY HeadTailProperties
<1>3. Head(q) = q[1] /\ 1 \in DOMAIN q /\ DOMAIN q = 1..Len(q) /\ DOMAIN Tail(q) = 1..(Len(q) - 1)
  BY <1>1, HeadTailProperties, LenProperties
<1>4. Head(q) \in Elem /\ Head(q) \in ToSet(q)
  BY <1>3, ElementOfSeq, <1>1 DEF ToSet
<1>5. Distinct(Tail(q))
  <2> SUFFICES ASSUME NEW i \in 1..(Len(q) - 1), NEW j \in 1..(Len(q) - 1), Tail(q)[i] = Tail(q)[j]
               PROVE  i = j
    BY <1>3 DEF Distinct
  <2>1. i + 1 \in DOMAIN q /\ j + 1 \in DOMAIN q /\ q[i + 1] = q[j + 1]
    BY <1>1, <1>2, <1>3
  <2> QED BY <2>1, <1>1 DEF Distinct
<1>6. ToSet(Tail(q)) \subseteq ToSet(q) \ {Head(q)}
  <2> SUFFICES ASSUME NEW i \in 1..(Len(q) - 1)
               PROVE  Tail(q)[i] \in ToSet(q) /\ Tail(q)[i] # Head(q)
    BY <1>3 DEF ToSet
  <2>1. i + 1 \in DOMAIN q /\ i + 1 # 1 /\ Tail(q)[i] = q[i + 1]
    BY <1>1, <1>2, <1>3
  <2> QED BY <2>1, <1>3 DEF Distinct, ToSet
<1>7. ToSet(q) \ {Head(q)} \subseteq ToSet(Tail(q))
  <2> SUFFICES ASSUME NEW i \in 1..Len(q), q[i] # Head(q)
               PROVE  q[i] \in ToSet(Tail(q))
    BY <1>3 DEF ToSet
  <2>1. i - 1 \in 1..(Len(q) - 1) /\ Tail(q)[i - 1] = q[i]
    <3>1. i # 1 BY <1>3
    <3>2. i - 1 \in 1..(Len(q) - 1) BY <3>1, <1>1
    <3> QED BY <3>2, <1>2, <1>1
  <2> QED BY <2>1, <1>3 DEF ToSet
<1> QED BY <1>1, <1>4, <1>5, <1>6, <1>7

\* link_front on the tail appends an element.
LEMMA AppendFacts ==
  ASSUME NEW Elem, NEW q \in Seq(Elem), Distinct(q), NEW t \in Elem, t \notin ToSet(q)
  PROVE  /\ Append(q, t) \in Seq(Elem)
         /\ Distinct(Append(q, t))
         /\ ToSet(Append(q, t)) = ToSet(q) \cup {t}
<1>1. /\ Append(q, t) \in Seq(Elem)
      /\ Len(Append(q, t)) = Len(q) + 1
      /\ \A i \in 1..Len(q) : Append(q, t)[i] = q[i]
      /\ Append(q, t)[Len(q) + 1] = t
  BY AppendProperties
<1>2. DOMAIN q = 1..Len(q) /\ DOMAIN Append(q, t) = 1..(Len(q) + 1) /\ Len(q) \in Nat
  BY <1>1, LenProperties
<1>3. \A i \in 1..Len(q) : q[i] # t
  BY <1>2 DEF ToSet
<1>4. Distinct(Append(q, t))
  BY <1>1, <1>2, <1>3 DEF Distinct
<1>5. ToSet(Append(q, t)) = ToSet(q) \cup {t}
  BY <1>1, <1>2 DEF ToSet
<1> QED BY <1>1, <1>4, <1>5

\* unlink_this removes t and no other.
LEMMA UnlinkFacts ==
  ASSUME NEW Elem, NEW q \in Seq(Elem), Distinct(q), NEW t \in Elem
  PROVE  /\ Unlink(q, t) \in Seq(Elem)
         /\ Distinct(Unlink(q, t))
         /\ ToSet(Unlink(q, t)) = ToSet(q) \ {t}
<1>0. DOMAIN q = 1..Len(q) /\ Len(q) \in Nat
  BY LenProperties
<1>1. CASE ~ \E i \in DOMAIN q : q[i] = t
  BY <1>1 DEF Unlink, ToSet
<1>2. CASE \E i \in DOMAIN q : q[i] = t
  <2> DEFINE k == CHOOSE i \in DOMAIN q : q[i] = t
             r == Unlink(q, t)
  <2>1. k \in 1..Len(q) /\ q[k] = t
    BY <1>0, <1>2
  <2>2. r = SubSeq(q, 1, k - 1) \o SubSeq(q, k + 1, Len(q))
    BY <1>2 DEF Unlink, RemoveAt
  <2> HIDE DEF k
  <2> DEFINE a == SubSeq(q, 1, k - 1)
             b == SubSeq(q, k + 1, Len(q))
  <2>3. /\ a \in Seq(Elem)
        /\ Len(a) = k - 1
        /\ \A i \in 1..(k - 1) : a[i] = q[i]
    <3>1. \A i \in 1..(k - 1) : q[i] \in Elem
      BY <1>0, <2>1, ElementOfSeq
    <3>2. k - 1 \in Int /\ k \in Nat /\ k >= 1
      BY <1>0, <2>1
    <3> HIDE DEF k
    <3>3. /\ a \in Seq(Elem)
          /\ Len(a) = IF 1 <= k - 1 THEN (k - 1) - 1 + 1 ELSE 0
          /\ \A i \in 1..((k - 1) - 1 + 1) : a[i] = q[1 + i - 1]
      BY <3>1, <3>2, SubSeqProperties
    <3> QED BY <3>2, <3>3
  <2>4. /\ b \in Seq(Elem)
        /\ Len(b) = Len(q) - k
        /\ \A i \in 1..(Len(q) - k) : b[i] = q[k + i]
    <3>1. \A i \in (k + 1)..Len(q) : q[i] \in Elem
      BY <1>0, <2>1, ElementOfSeq
    <3>2. k + 1 \in Int /\ k \in Nat /\ k >= 1 /\ k <= Len(q)
      BY <1>0, <2>1
    <3>3. /\ b \in Seq(Elem)
          /\ Len(b) = IF k + 1 <= Len(q) THEN Len(q) - (k + 1) + 1 ELSE 0
          /\ \A i \in 1..(Len(q) - (k + 1) + 1) : b[i] = q[(k + 1) + i - 1]
      BY <1>0, <3>1, <3>2, SubSeqProperties
    <3>4. Len(q) - (k + 1) + 1 = Len(q) - k
      BY <1>0, <3>2
    <3> HIDE DEF b
    <3>5. Len(b) = Len(q) - k
      <4>1. Len(b) = IF k + 1 <= Len(q) THEN Len(q) - (k + 1) + 1 ELSE 0
        BY <3>3
      <4>2. CASE k + 1 <= Len(q)
        BY <3>4, <4>1, <4>2
      <4>3. CASE ~(k + 1 <= Len(q))
        <5>1. Len(b) = 0
          BY <4>1, <4>3
        <5>2. Len(q) \in Nat
          BY <1>0
        <5>3. k = Len(q)
          BY <3>2, <4>3, <5>2
        <5> QED BY <5>1, <5>2, <5>3
      <4> QED BY <4>2, <4>3
    <3>6. \A i \in 1..(Len(q) - k) : (k + 1) + i - 1 = k + i
      BY <1>0, <3>2
    <3> QED BY <3>3, <3>4, <3>5, <3>6
  <2>5. /\ r \in Seq(Elem)
        /\ DOMAIN r = 1..(Len(q) - 1)
        /\ \A i \in 1..(Len(q) - 1) : r[i] = IF i < k THEN q[i] ELSE q[i + 1]
    <3> HIDE DEF a, b
    <3>1. r = a \o b
      BY <2>2 DEF a, b
    <3>2. /\ a \o b \in Seq(Elem)
          /\ Len(a \o b) = Len(a) + Len(b)
          /\ \A i \in 1..(Len(a) + Len(b)) :
               (a \o b)[i] = IF i <= Len(a) THEN a[i] ELSE b[i - Len(a)]
      BY <2>3, <2>4, ConcatProperties
    <3>3. Len(a) + Len(b) = Len(q) - 1
      BY <1>0, <2>1, <2>3, <2>4
    <3>4. ASSUME NEW i \in 1..(Len(q) - 1)
          PROVE  r[i] = IF i < k THEN q[i] ELSE q[i + 1]
      <4>1. CASE i < k
        BY <1>0, <2>1, <2>3, <3>1, <3>2, <3>3, <4>1
      <4>2. CASE i >= k
        <5>1. r[i] = b[i - (k - 1)]
          BY <1>0, <2>1, <2>3, <3>1, <3>2, <3>3, <4>2
        <5>2. i - (k - 1) \in 1..(Len(q) - k) /\ k + (i - (k - 1)) = i + 1
          BY <1>0, <2>1, <4>2
        <5> QED BY <1>0, <2>1, <2>4, <5>1, <5>2, <4>2
      <4> QED BY <1>0, <2>1, <4>1, <4>2
    <3> QED BY <3>1, <3>2, <3>3, <3>4, LenProperties
  <2> HIDE DEF r
  <2>6. Distinct(r)
    <3> SUFFICES ASSUME NEW i \in 1..(Len(q) - 1), NEW j \in 1..(Len(q) - 1), r[i] = r[j]
                 PROVE  i = j
      BY <2>5 DEF Distinct
    <3> DEFINE f(n) == IF n < k THEN n ELSE n + 1
    <3>1. f(i) \in DOMAIN q /\ f(j) \in DOMAIN q /\ r[i] = q[f(i)] /\ r[j] = q[f(j)]
      BY <1>0, <2>1, <2>5
    <3>2. f(i) = f(j)
      BY <3>1 DEF Distinct
    <3> QED BY <1>0, <2>1, <3>2
  <2>7. ToSet(r) \subseteq ToSet(q) \ {t}
    <3> SUFFICES ASSUME NEW i \in 1..(Len(q) - 1)
                 PROVE  r[i] \in ToSet(q) /\ r[i] # t
      BY <2>5 DEF ToSet
    <3> DEFINE n == IF i < k THEN i ELSE i + 1
    <3>1. n \in DOMAIN q /\ k \in DOMAIN q /\ n # k /\ r[i] = q[n]
      BY <1>0, <2>1, <2>5
    <3> HIDE DEF n
    <3> QED BY <2>1, <3>1 DEF Distinct, ToSet
  <2>8. ToSet(q) \ {t} \subseteq ToSet(r)
    <3> SUFFICES ASSUME NEW i \in 1..Len(q), q[i] # t
                 PROVE  q[i] \in ToSet(r)
      BY <1>0 DEF ToSet
    <3>0. ToSet(r) = {r[j] : j \in 1..(Len(q) - 1)}
      BY <2>5 DEF ToSet
    <3>1. CASE i < k
      <4>1. i \in 1..(Len(q) - 1) /\ r[i] = q[i] BY <1>0, <2>1, <2>5, <3>1
      <4> QED BY <3>0, <4>1
    <3>2. CASE i > k
      <4>1. i - 1 \in 1..(Len(q) - 1) /\ r[i - 1] = q[i] BY <1>0, <2>1, <2>5, <3>2
      <4> QED BY <3>0, <4>1
    <3> QED BY <1>0, <2>1, <3>1, <3>2
  <2> QED BY <2>5, <2>6, <2>7, <2>8 DEF r
<1> QED BY <1>1, <1>2

-----------------------------------------------------------------------------
(* Ends of a list.                                                         *)

LEMMA SetFacts ==
  ASSUME NEW Elem, NEW q \in Seq(Elem)
  PROVE  /\ ToSet(q) \subseteq Elem
         /\ q # <<>> => Last(q) \in ToSet(q) /\ Head(q) \in ToSet(q)
         /\ q = <<>> => ToSet(q) = {}
         /\ q = <<>> <=> Len(q) = 0
         /\ Len(q) \in Nat
<1>1. Len(q) \in Nat /\ DOMAIN q = 1..Len(q) /\ (q = <<>> <=> Len(q) = 0)
  BY LenProperties, EmptySeq
<1>2. ToSet(q) \subseteq Elem
  BY <1>1, ElementOfSeq DEF ToSet
<1>3. q # <<>> => Last(q) = q[Len(q)] /\ Head(q) = q[1] /\ 1 \in DOMAIN q /\ Len(q) \in DOMAIN q
  BY <1>1, HeadTailProperties DEF Last
<1>4. q = <<>> => ToSet(q) = {}
  BY <1>1 DEF ToSet
<1> QED BY <1>1, <1>2, <1>3, <1>4 DEF ToSet

LEMMA LastFacts ==
  ASSUME NEW Elem, NEW q \in Seq(Elem), NEW x \in Elem
  PROVE  Append(q, x) # <<>> /\ Last(Append(q, x)) = x
<1>1. /\ Append(q, x) # <<>>
      /\ Len(Append(q, x)) = Len(q) + 1
      /\ Append(q, x)[Len(q) + 1] = x
  BY AppendProperties
<1> QED BY <1>1 DEF Last

-----------------------------------------------------------------------------
(* What went in is what came out followed by what is inside.               *)

\* The oldest value comes out.
LEMMA GetFacts ==
  ASSUME NEW Elem, NEW out \in Seq(Elem), NEW inside \in Seq(Elem), inside # <<>>
  PROVE  Append(out, Head(inside)) \o Tail(inside) = out \o inside
<1>1. Head(inside) \in Elem /\ Tail(inside) \in Seq(Elem) /\ <<Head(inside)>> \in Seq(Elem)
  BY HeadTailProperties
<1>2. Append(out, Head(inside)) = out \o <<Head(inside)>>
  BY <1>1, AppendIsConcat
<1>3. <<Head(inside)>> \o Tail(inside) = inside
  <2>1. /\ Len(Tail(inside)) = Len(inside) - 1
        /\ \A i \in 1..Len(Tail(inside)) : Tail(inside)[i] = inside[i + 1]
        /\ Head(inside) = inside[1]
        /\ Len(inside) \in Nat /\ Len(inside) >= 1
    BY HeadTailProperties, EmptySeq, LenProperties
  <2> DEFINE r == <<Head(inside)>> \o Tail(inside)
  <2>2. /\ r \in Seq(Elem)
        /\ Len(r) = 1 + Len(Tail(inside))
        /\ \A i \in 1..(1 + Len(Tail(inside))) :
             r[i] = IF i <= 1 THEN <<Head(inside)>>[i] ELSE Tail(inside)[i - 1]
    BY <1>1, ConcatProperties
  <2> HIDE DEF r
  <2>3. Len(r) = Len(inside)
    BY <2>1, <2>2
  <2>4. ASSUME NEW i \in 1..Len(r) PROVE r[i] = inside[i]
    <3>1. CASE i = 1
      BY <2>1, <2>2, <3>1
    <3>2. CASE i # 1
      <4>1. i - 1 \in 1..Len(Tail(inside)) /\ r[i] = Tail(inside)[i - 1]
        BY <2>1, <2>2, <2>3, <3>2
      <4> QED BY <2>1, <2>3, <4>1
    <3> QED BY <3>1, <3>2
  <2> QED BY <2>2, <2>3, <2>4, SeqEqual DEF r
<1> QED BY <1>1, <1>2, <1>3, ConcatAssociative

================================================================================
