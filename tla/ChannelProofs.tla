------------------------------ MODULE ChannelProofs ------------------------------
(***************************************************************************)
(* Channel, proved for any number of coroutines, channels, capacities and  *)
(* cases: the order and conservation of values, that a key is set once,    *)
(* that links lead to live frames only, that no match is missed, that who  *)
(* waits is linked, and that channels implement AtomicChannels.            *)
(***************************************************************************)
EXTENDS Channel, ListProofs

\* TypeOK in five parts: control, lists, keys and signals, results, values.
TypeC ==
  /\ lock \in [Chan -> Proc \cup {Free}]
  /\ pc \in [Proc -> PC]
  /\ op \in [Proc -> OpType]
  /\ calls \in [Proc -> 0..MaxCalls]
  /\ todo \in [Proc -> SUBSET (Nat \ {0})]
  /\ msgs \in [Proc -> Seq(Nat \ {0})]

TypeQ ==
  /\ senders \in [Chan -> Seq(Msg)]
  /\ recvers \in [Chan -> Seq(Msg)]

TypeM ==
  /\ key \in [Proc -> Nat]
  /\ signal \in [Proc -> Nat]
  /\ moved \in [Proc -> Seq(Nat)]

TypeR == result \in [Proc -> BOOLEAN]

TypeB ==
  /\ buffer \in [Chan -> Seq(Value)]
  /\ sent \in [Chan -> Seq(Value)]
  /\ recvd \in [Chan -> Seq(Value)]

\* p is inside BaseChannel::send_to or recv_from.
Inside(p) == pc[p] \in {"refill", "match"}

\* The messages of an operation are cases of it whose listeners have run.
ProcOK(p) ==
  /\ ~Multiplex(p) => Len(op[p].cases) <= 1
  /\ todo[p] \subseteq DOMAIN op[p].cases
  /\ Distinct(msgs[p])
  /\ ToSet(msgs[p]) \subseteq DOMAIN op[p].cases
  /\ ToSet(msgs[p]) \cap todo[p] = {}
  /\ pc[p] \in {"idle", "dead"} => msgs[p] = <<>>
  /\ Inside(p) => msgs[p] # <<>>
  /\ ~Multiplex(p) /\ pc[p] = "listen" => msgs[p] = <<>>
  /\ pc[p] \in {"check", "choose"} => Multiplex(p)

\* A channel's _mtx is held by exactly the process inside it.
LockInv ==
  \A c \in Chan : \A p \in Proc : lock[c] = p <=> Inside(p) /\ CurrentCase(p).chan = c

Control == TypeC /\ (\A p \in Proc : ProcOK(p)) /\ LockInv

\* The message m is of a case with direction d of channel c, and its operation has
\* neither dropped it nor is it just inside the channel with it.
Waits(m, d, c) ==
  /\ m[2] \in ToSet(msgs[m[1]])
  /\ op[m[1]].cases[m[2]] = [dir |-> d, chan |-> c]
  /\ op[m[1]].kind # "nowait"
  /\ Inside(m[1]) => m[2] # Last(msgs[m[1]])

ListInv ==
  \A c \in Chan :
    /\ Distinct(senders[c]) /\ \A m \in ToSet(senders[c]) : Waits(m, "send", c)
    /\ Distinct(recvers[c]) /\ \A m \in ToSet(recvers[c]) : Waits(m, "recv", c)

\* What was moved is what the key and the signal say.
MoveOK(p) ==
  IF Multiplex(p)
  THEN /\ moved[p] = IF key[p] \in {NoKey, DefaultKey(p)} THEN <<>> ELSE <<key[p]>>
       /\ signal[p] > 0 \/ pc[p] = "drop" => key[p] # NoKey
  ELSE /\ moved[p] \in {<<>>, <<1>>}
       /\ pc[p] \in {"listen", "match"} => moved[p] = <<>>
       /\ signal[p] > 0 \/ (pc[p] = "drop" /\ op[p].kind = "plain") => moved[p] = <<1>>
       /\ \A c \in Chan : \A m \in ToSet(senders[c]) \cup ToSet(recvers[c]) :
            m[1] = p => moved[p] = <<>>

MoveInv == \A p \in Proc : MoveOK(p)

\* Some message of the list q can still be transferred.
Live(q) == \E m \in ToSet(q) : ~Decided(m[1])

\* A linked message that can still be transferred has no counterpart in the buffer.
Settled(c) ==
  /\ Live(recvers[c]) => buffer[c] = <<>>
  /\ Live(senders[c]) => Len(buffer[c]) = Cap[c]

\* What p knows of the buffer and the lists of channel c while it is inside.
Knows(p, c) ==
  /\ pc[p] = "match" =>
       /\ Settled(c)
       /\ CurrentCase(p).dir = "recv" => buffer[c] = <<>> \/ Decided(p)
       /\ CurrentCase(p).dir = "send" => Len(buffer[c]) = Cap[c] \/ Decided(p)
  /\ pc[p] = "refill" /\ CurrentCase(p).dir = "send" =>
       /\ ~Live(senders[c])
       /\ Live(recvers[c]) => Len(buffer[c]) = 1
  /\ pc[p] = "refill" /\ CurrentCase(p).dir = "recv" =>
       /\ ~Live(recvers[c])
       /\ Len(buffer[c]) < Cap[c]
       /\ Live(senders[c]) => Len(buffer[c]) + 1 = Cap[c]

\* The buffer and the linked messages, between two operations of the channel and
\* within one.
ChanOK(c) ==
  /\ Len(buffer[c]) <= Cap[c]
  /\ ~(Live(senders[c]) /\ Live(recvers[c]))
  /\ lock[c] = Free => Settled(c)
  /\ \A p \in Proc : lock[c] = p => Knows(p, c)

BufferInv == \A c \in Chan : ChanOK(c)

IInv == Control /\ TypeQ /\ ListInv /\ TypeM /\ MoveInv /\ TypeB /\ BufferInv /\ FifoConserved

-----------------------------------------------------------------------------
(* Operations and messages.                                                *)

LEMMA TypeParts == TypeOK <=> TypeC /\ TypeQ /\ TypeM /\ TypeR /\ TypeB
  BY DEF TypeOK, TypeC, TypeQ, TypeM, TypeR, TypeB

LEMMA OpFacts ==
  ASSUME TypeC, NEW p \in Proc
  PROVE  /\ op[p].kind \in {"plain", "nowait", "select", "default"}
         /\ op[p].cases \in Seq(CaseType)
         /\ Len(op[p].cases) \in Nat
         /\ DOMAIN op[p].cases = 1..Len(op[p].cases)
         /\ \A i \in DOMAIN op[p].cases :
              /\ i \in Nat \ {0}
              /\ op[p].cases[i].dir \in {"send", "recv"}
              /\ op[p].cases[i].chan \in Chan
              /\ op[p].cases[i] = [dir |-> op[p].cases[i].dir, chan |-> op[p].cases[i].chan]
<1>1. op[p] \in OpType
  BY DEF TypeC
<1>2. op[p].kind \in {"plain", "nowait", "select", "default"} /\ op[p].cases \in Seq(CaseType)
  BY <1>1 DEF OpType
<1>3. Len(op[p].cases) \in Nat /\ DOMAIN op[p].cases = 1..Len(op[p].cases)
  BY <1>2, LenProperties
<1>4. ASSUME NEW i \in DOMAIN op[p].cases
      PROVE  /\ i \in Nat \ {0}
             /\ op[p].cases[i].dir \in {"send", "recv"}
             /\ op[p].cases[i].chan \in Chan
             /\ op[p].cases[i] = [dir |-> op[p].cases[i].dir, chan |-> op[p].cases[i].chan]
  <2>1. op[p].cases[i] \in CaseType
    BY <1>2, <1>3, ElementOfSeq
  <2>2. i \in Nat \ {0}
    BY <1>3
  <2> QED BY <2>1, <2>2 DEF CaseType
<1> QED BY <1>2, <1>3, <1>4

\* The message that is inside a channel is a case of its operation.
LEMMA InsideFacts ==
  ASSUME Control, NEW p \in Proc, Inside(p)
  PROVE  /\ Last(msgs[p]) \in DOMAIN op[p].cases
         /\ Last(msgs[p]) \in ToSet(msgs[p])
         /\ Current(p) \in Msg
         /\ CurrentCase(p).chan \in Chan
         /\ CurrentCase(p).dir \in {"send", "recv"}
         /\ lock[CurrentCase(p).chan] = p
         /\ CurrentCase(p) = [dir |-> CurrentCase(p).dir, chan |-> CurrentCase(p).chan]
<1>1. msgs[p] \in Seq(Nat \ {0}) /\ msgs[p] # <<>> /\ ToSet(msgs[p]) \subseteq DOMAIN op[p].cases
  BY DEF Control, TypeC, ProcOK
<1>2. Last(msgs[p]) \in ToSet(msgs[p])
  BY <1>1, SetFacts
<1>3. Last(msgs[p]) \in DOMAIN op[p].cases
  BY <1>1, <1>2
<1>4. /\ Last(msgs[p]) \in Nat \ {0}
      /\ CurrentCase(p).dir \in {"send", "recv"}
      /\ CurrentCase(p).chan \in Chan
      /\ CurrentCase(p) = [dir |-> CurrentCase(p).dir, chan |-> CurrentCase(p).chan]
  BY <1>3, OpFacts DEF CurrentCase, Control
<1>5. lock[CurrentCase(p).chan] = p
  BY <1>4 DEF Control, LockInv
<1> QED BY <1>2, <1>3, <1>4, <1>5 DEF Current, Msg

\* A linked message is a case of its operation, and linked in one list only.
LEMMA WaitsFacts ==
  ASSUME Control, NEW m \in Msg, NEW d, NEW c, Waits(m, d, c)
  PROVE  /\ m[1] \in Proc /\ m = <<m[1], m[2]>>
         /\ m[2] \in DOMAIN op[m[1]].cases
         /\ pc[m[1]] \notin {"idle", "dead"}
         /\ ~Multiplex(m[1]) => m[2] = 1 /\ pc[m[1]] \notin {"listen", "refill", "match"}
         /\ \A e, k : Waits(m, e, k) => e = d /\ k = c
<1>1. m[1] \in Proc /\ m = <<m[1], m[2]>> /\ m[2] \in Nat \ {0}
  BY DEF Msg
<1>2. /\ msgs[m[1]] \in Seq(Nat \ {0})
      /\ m[2] \in ToSet(msgs[m[1]])
      /\ m[2] \in DOMAIN op[m[1]].cases
  BY <1>1 DEF Control, TypeC, ProcOK, Waits
<1>3. msgs[m[1]] # <<>> /\ Last(msgs[m[1]]) \in ToSet(msgs[m[1]])
  BY <1>2, SetFacts
<1>4. pc[m[1]] \notin {"idle", "dead"}
  BY <1>1, <1>3 DEF Control, ProcOK
<1>5. ASSUME ~Multiplex(m[1])
      PROVE  m[2] = 1 /\ pc[m[1]] \notin {"listen", "refill", "match"}
  <2>1. \A i \in DOMAIN op[m[1]].cases : i = 1
    <3>1. Len(op[m[1]].cases) \in Nat /\ DOMAIN op[m[1]].cases = 1..Len(op[m[1]].cases)
      BY <1>1, OpFacts DEF Control
    <3>2. Len(op[m[1]].cases) <= 1
      BY <1>1, <1>5 DEF Control, ProcOK
    <3> QED BY <3>1, <3>2
  <2>2. m[2] = 1
    BY <1>2, <2>1
  <2>3. Last(msgs[m[1]]) = 1
    BY <1>1, <1>3, <2>1 DEF Control, ProcOK
  <2>4. pc[m[1]] # "listen"
    BY <1>1, <1>3, <1>5 DEF Control, ProcOK
  <2> QED BY <2>2, <2>3, <2>4 DEF Waits, Inside
<1>6. \A e, k : Waits(m, e, k) => e = d /\ k = c
  <2> SUFFICES ASSUME NEW e, NEW k, Waits(m, e, k) PROVE e = d /\ k = c
    OBVIOUS
  <2>1. [dir |-> d, chan |-> c] = [dir |-> e, chan |-> k]
    BY DEF Waits
  <2>2. [dir |-> d, chan |-> c].dir = [dir |-> e, chan |-> k].dir
    BY <2>1
  <2>3. [dir |-> d, chan |-> c].chan = [dir |-> e, chan |-> k].chan
    BY <2>1
  <2> QED BY <2>2, <2>3
<1> QED BY <1>1, <1>2, <1>4, <1>5, <1>6

-----------------------------------------------------------------------------
(* The control of one process.                                             *)

\* A step of p leaves the operations of the others alone.
Others(p) ==
  \A r \in Proc \ {p} :
    pc'[r] = pc[r] /\ op'[r] = op[r] /\ todo'[r] = todo[r] /\ msgs'[r] = msgs[r]

\* The linked messages stay as they are.
Keep == \A m \in Msg : \A d, c : Waits(m, d, c) => Waits(m, d, c)'

LEMMA OthersKeep ==
  ASSUME Control, NEW p \in Proc, Others(p), ProcOK(p)'
  PROVE  /\ \A r \in Proc : ProcOK(r)'
         /\ \A m \in Msg : \A d, c : m[1] # p /\ Waits(m, d, c) => Waits(m, d, c)'
<1>1. ASSUME NEW r \in Proc \ {p} PROVE ProcOK(r)'
  <2>1. ProcOK(r)
    BY DEF Control
  <2>2. pc'[r] = pc[r] /\ op'[r] = op[r] /\ todo'[r] = todo[r] /\ msgs'[r] = msgs[r]
    BY DEF Others
  <2> QED BY <2>1, <2>2 DEF ProcOK, Multiplex, Inside
<1>2. ASSUME NEW m \in Msg, NEW d, NEW c, m[1] # p, Waits(m, d, c) PROVE Waits(m, d, c)'
  <2>1. m[1] \in Proc \ {p}
    BY <1>2 DEF Msg
  <2>2. pc'[m[1]] = pc[m[1]] /\ op'[m[1]] = op[m[1]] /\ msgs'[m[1]] = msgs[m[1]]
    BY <2>1 DEF Others
  <2> QED BY <1>2, <2>2 DEF Waits, Inside
<1> QED BY <1>1, <1>2

\* The lock of a channel is taken.
LEMMA EnterControl ==
  ASSUME Control, NEW p \in Proc, NEW i \in todo[p], NEW dir, Enter(p, i, dir),
         NEW l \in {"refill", "match"}, pc' = [pc EXCEPT ![p] = l], UNCHANGED <<op, calls>>
  PROVE  /\ Control' /\ Keep
         /\ i \in DOMAIN op[p].cases
         /\ op[p].cases[i].chan \in Chan
         /\ pc'[p] = l
         /\ CurrentCase(p)' = op[p].cases[i]
         /\ lock[op[p].cases[i].chan] = Free
         /\ lock' = [lock EXCEPT ![op[p].cases[i].chan] = p]
         /\ op' = op
         /\ pc[p] = "listen"
<1> DEFINE c == op[p].cases[i].chan
<1>1. ProcOK(p) /\ TypeC /\ LockInv
  BY DEF Control
<1>2. i \in DOMAIN op[p].cases /\ c \in Chan /\ i \in Nat \ {0} /\ pc[p] = "listen" /\ i \notin ToSet(msgs[p])
  BY <1>1, OpFacts DEF ProcOK, Enter
<1>3. msgs[p] \in Seq(Nat \ {0}) /\ Distinct(msgs[p])
  BY <1>1 DEF TypeC, ProcOK
<1>4. msgs'[p] = Append(msgs[p], i) /\ todo'[p] = todo[p] \ {i} /\ pc'[p] = l /\ op' = op
  BY <1>1 DEF Enter, TypeC
<1>5. /\ msgs'[p] \in Seq(Nat \ {0})
      /\ Distinct(msgs'[p])
      /\ ToSet(msgs'[p]) = ToSet(msgs[p]) \cup {i}
  <2>1. /\ Append(msgs[p], i) \in Seq(Nat \ {0})
        /\ Distinct(Append(msgs[p], i))
        /\ ToSet(Append(msgs[p], i)) = ToSet(msgs[p]) \cup {i}
    BY <1>2, <1>3, AppendFacts
  <2> QED BY <1>4, <2>1
<1>6. msgs'[p] # <<>> /\ Last(msgs'[p]) = i
  BY <1>2, <1>3, <1>4, LastFacts
<1>7. TypeC'
  <2>1. msgs' \in [Proc -> Seq(Nat \ {0})]
    BY <1>1, <1>4, <1>5 DEF Enter, TypeC
  <2> QED BY <1>1, <1>2, <2>1 DEF Enter, TypeC, PC
<1>8. Others(p)
  BY <1>1 DEF Others, Enter, TypeC
<1>9. ProcOK(p)'
  <2>1. ToSet(msgs'[p]) \cap todo'[p] = {}
    BY <1>1, <1>4, <1>5 DEF ProcOK
  <2>2. ToSet(msgs'[p]) \subseteq DOMAIN op[p].cases /\ todo'[p] \subseteq DOMAIN op[p].cases
    BY <1>1, <1>2, <1>4, <1>5 DEF ProcOK
  <2> QED BY <1>1, <1>4, <1>5, <1>6, <2>1, <2>2 DEF ProcOK, Inside, Multiplex
<1>10. CurrentCase(p)' = op[p].cases[i]
  BY <1>4, <1>6 DEF CurrentCase
<1>11. LockInv'
  <2> SUFFICES ASSUME NEW k \in Chan, NEW r \in Proc
               PROVE  lock'[k] = r <=> (Inside(r) /\ CurrentCase(r).chan = k)'
    BY DEF LockInv
  <2>1. lock'[k] = IF k = c THEN p ELSE lock[k]
    BY <1>1, <1>2 DEF Enter, TypeC
  <2>2. CASE r = p
    <3>1. ~Inside(p) /\ Inside(p)'
      BY <1>2, <1>4 DEF Inside
    <3>2. lock[k] # p
      BY <1>1, <3>1 DEF LockInv
    <3> QED BY <2>1, <2>2, <3>1, <3>2, <1>10
  <2>3. CASE r # p
    <3>1. (Inside(r) /\ CurrentCase(r).chan = k)' <=> Inside(r) /\ CurrentCase(r).chan = k
      BY <1>8, <2>3 DEF Others, Inside, CurrentCase
    <3>2. lock[k] = r <=> Inside(r) /\ CurrentCase(r).chan = k
      BY <1>1 DEF LockInv
    <3>3. lock[c] # r
      BY ChannelAssumption DEF Enter
    <3> QED BY <2>1, <2>3, <3>1, <3>2, <3>3
  <2> QED BY <2>2, <2>3
<1>12. Keep
  <2> SUFFICES ASSUME NEW m \in Msg, NEW d, NEW k, Waits(m, d, k), m[1] = p
               PROVE  Waits(m, d, k)'
    BY <1>8, <1>9, OthersKeep DEF Keep
  <2>1. m[2] \in ToSet(msgs'[p]) /\ m[2] # i
    BY <1>2, <1>5 DEF Waits
  <2> QED BY <2>1, <1>4, <1>6 DEF Waits
<1>13. \A r \in Proc : ProcOK(r)'
  BY <1>8, <1>9, OthersKeep
<1> QED BY <1>2, <1>4, <1>7, <1>10, <1>11, <1>12, <1>13 DEF Control, Enter

\* The lock is released and p is not inside the channel any more.
LEMMA ReleaseLock ==
  ASSUME Control, NEW p \in Proc, Inside(p), Others(p), ~Inside(p)',
         lock' = [lock EXCEPT ![CurrentCase(p).chan] = Free]
  PROVE  LockInv'
<1> DEFINE c == CurrentCase(p).chan
<1>1. TypeC /\ LockInv /\ c \in Chan /\ lock[c] = p
  BY InsideFacts DEF Control
<1> HIDE DEF c
<1> SUFFICES ASSUME NEW k \in Chan, NEW r \in Proc
             PROVE  lock'[k] = r <=> (Inside(r) /\ CurrentCase(r).chan = k)'
  BY DEF LockInv
<1>2. lock'[k] = IF k = c THEN Free ELSE lock[k]
  BY <1>1 DEF TypeC, c
<1>3. Free # r
  BY ChannelAssumption
<1>4. CASE r = p
  <2>1. k # c => lock[k] # p
    BY <1>1 DEF LockInv, c
  <2> QED BY <1>2, <1>3, <1>4, <2>1
<1>5. CASE r # p
  <2>1. (Inside(r) /\ CurrentCase(r).chan = k)' <=> Inside(r) /\ CurrentCase(r).chan = k
    BY <1>5 DEF Others, Inside, CurrentCase
  <2>2. lock[k] = r <=> Inside(r) /\ CurrentCase(r).chan = k
    BY <1>1 DEF LockInv
  <2> QED BY <1>1, <1>2, <1>3, <1>5, <2>1, <2>2
<1> QED BY <1>4, <1>5

\* BaseChannel::send_to or recv_from returns.
LEMMA LeaveControl ==
  ASSUME Control, NEW p \in Proc, Inside(p), LeaveChannel(p, CurrentCase(p).chan),
         UNCHANGED <<op, calls, todo>>
  PROVE  /\ Control' /\ Keep
         /\ lock' = [lock EXCEPT ![CurrentCase(p).chan] = Free]
         /\ op' = op
         /\ pc' = [pc EXCEPT ![p] = pc'[p]]
         /\ pc'[p] = "drop" => op[p].kind = "nowait"
         /\ pc'[p] \in {"wait", "drop", "check"}
         /\ op[p].kind # "nowait" => msgs' = msgs
<1>1. ProcOK(p) /\ TypeC /\ LockInv /\ CurrentCase(p).chan \in Chan
  BY InsideFacts DEF Control
<1>2. op[p].kind \in {"plain", "nowait", "select", "default"}
  BY <1>1, OpFacts
<1>3. /\ pc'[p] = CASE op[p].kind = "plain" -> "wait"
                    [] op[p].kind = "nowait" -> "drop"
                    [] OTHER -> "check"
      /\ pc' = [pc EXCEPT ![p] = pc'[p]]
  BY <1>1 DEF LeaveChannel, TypeC
<1>4. /\ pc'[p] \in {"wait", "drop", "check"}
      /\ pc'[p] = "drop" => op[p].kind = "nowait"
      /\ pc'[p] = "check" => Multiplex(p)
  BY <1>2, <1>3 DEF Multiplex
<1>5. /\ msgs' \in [Proc -> Seq(Nat \ {0})]
      /\ \A r \in Proc \ {p} : msgs'[r] = msgs[r]
      /\ op[p].kind # "nowait" => msgs'[p] = msgs[p]
      /\ op[p].kind = "nowait" => msgs'[p] = <<>>
  <2>1. <<>> \in Seq(Nat \ {0})
    OBVIOUS
  <2>2. CASE op[p].kind = "nowait"
    <3>1. msgs' = [msgs EXCEPT ![p] = <<>>]
      BY <2>2 DEF LeaveChannel
    <3> QED BY <1>1, <2>1, <2>2, <3>1 DEF TypeC
  <2>3. CASE op[p].kind # "nowait"
    <3>1. msgs' = msgs
      BY <2>3 DEF LeaveChannel
    <3> QED BY <1>1, <2>3, <3>1 DEF TypeC
  <2> QED BY <2>2, <2>3
<1>6. TypeC'
  BY <1>1, <1>3, <1>4, <1>5 DEF TypeC, LeaveChannel, PC
<1>7. Others(p)
  BY <1>1, <1>3, <1>5 DEF Others, TypeC
<1>8. ProcOK(p)'
  <2>1. op'[p] = op[p] /\ todo'[p] = todo[p]
    OBVIOUS
  <2>2. CASE op[p].kind = "nowait"
    <3>1. msgs'[p] = <<>> /\ ToSet(msgs'[p]) = {} /\ Distinct(msgs'[p])
      BY <1>5, <2>2 DEF ToSet, Distinct
    <3> QED BY <1>1, <1>4, <2>1, <3>1 DEF ProcOK, Inside, Multiplex
  <2>3. CASE op[p].kind # "nowait"
    <3>1. msgs'[p] = msgs[p]
      BY <1>5, <2>3
    <3> QED BY <1>1, <1>4, <2>1, <3>1 DEF ProcOK, Inside, Multiplex
  <2> QED BY <2>2, <2>3
<1>9. LockInv'
  BY <1>4, <1>7, ReleaseLock DEF LeaveChannel, Inside
<1>10. Keep
  <2> SUFFICES ASSUME NEW m \in Msg, NEW d, NEW k, Waits(m, d, k), m[1] = p
               PROVE  Waits(m, d, k)'
    BY <1>7, <1>8, OthersKeep DEF Keep
  <2>1. msgs'[p] = msgs[p]
    BY <1>5 DEF Waits
  <2> QED BY <2>1, <1>4 DEF Waits, Inside
<1>11. \A r \in Proc : ProcOK(r)'
  BY <1>7, <1>8, OthersKeep
<1> QED BY <1>3, <1>4, <1>6, <1>9, <1>10, <1>11 DEF Control, LeaveChannel

\* The exception of BaseMsg::send_to.
LEMMA ThrowControl ==
  ASSUME Control, NEW p \in Proc, Inside(p), ThrowOut(p, CurrentCase(p).chan),
         UNCHANGED <<op, calls, todo>>
  PROVE  /\ Control' /\ Keep
         /\ lock' = [lock EXCEPT ![CurrentCase(p).chan] = Free]
         /\ op' = op
         /\ pc' = [pc EXCEPT ![p] = "unwind"]
<1>1. ProcOK(p) /\ TypeC /\ LockInv /\ CurrentCase(p).chan \in Chan
  BY InsideFacts DEF Control
<1>2. TypeC' /\ Others(p) /\ pc'[p] = "unwind"
  BY <1>1 DEF TypeC, ThrowOut, PC, Others
<1>3. ProcOK(p)'
  BY <1>1, <1>2 DEF ProcOK, ThrowOut, Inside, Multiplex
<1>4. LockInv'
  BY <1>2, ReleaseLock DEF ThrowOut, Inside
<1>5. Keep
  <2> SUFFICES ASSUME NEW m \in Msg, NEW d, NEW k, Waits(m, d, k), m[1] = p
               PROVE  Waits(m, d, k)'
    BY <1>2, <1>3, OthersKeep DEF Keep
  <2> QED BY <1>2 DEF Waits, Inside, ThrowOut
<1>6. \A r \in Proc : ProcOK(r)'
  BY <1>2, <1>3, OthersKeep
<1> QED BY <1>2, <1>4, <1>5, <1>6 DEF Control, ThrowOut

\* p is inside no channel, before and after.
LEMMA OutsideLock ==
  ASSUME Control, NEW p \in Proc, ~Inside(p), ~Inside(p)', Others(p), UNCHANGED lock
  PROVE  LockInv'
<1> SUFFICES ASSUME NEW k \in Chan, NEW r \in Proc
             PROVE  lock[k] = r <=> (Inside(r) /\ CurrentCase(r).chan = k)'
  BY DEF LockInv
<1>1. (Inside(r) /\ CurrentCase(r).chan = k)' <=> Inside(r) /\ CurrentCase(r).chan = k
  BY DEF Others, Inside, CurrentCase
<1> QED BY <1>1 DEF Control, LockInv

\* A step outside the channels that changes the place only.
LEMMA GotoControl ==
  ASSUME Control, NEW p \in Proc, ~Inside(p),
         NEW l \in {"listen", "wait", "choose", "drop", "unwind"},
         pc' = [pc EXCEPT ![p] = l],
         l \in {"listen", "choose"} => Multiplex(p),
         UNCHANGED <<lock, op, calls, todo, msgs>>
  PROVE  Control' /\ Keep
<1>1. ProcOK(p) /\ TypeC /\ LockInv
  BY DEF Control
<1>2. TypeC' /\ Others(p) /\ pc'[p] = l
  BY <1>1 DEF TypeC, PC, Others
<1>3. ProcOK(p)' /\ ~Inside(p)'
  BY <1>1, <1>2 DEF ProcOK, Inside, Multiplex
<1>4. LockInv'
  BY <1>2, <1>3, OutsideLock
<1>5. Keep
  <2> SUFFICES ASSUME NEW m \in Msg, NEW d, NEW k, Waits(m, d, k), m[1] = p
               PROVE  Waits(m, d, k)'
    BY <1>2, <1>3, OthersKeep DEF Keep
  <2> QED BY <1>3 DEF Waits
<1>6. \A r \in Proc : ProcOK(r)'
  BY <1>2, <1>3, OthersKeep
<1> QED BY <1>2, <1>4, <1>5, <1>6 DEF Control

\* A new operation: the process had no message linked.
LEMMA CallControl ==
  ASSUME Control, NEW p \in Proc, Call(p)
  PROVE  Control' /\ Keep /\ msgs' = msgs /\ pc'[p] = "listen" /\ Others(p)
<1>1. ProcOK(p) /\ TypeC /\ LockInv /\ pc[p] = "idle" /\ msgs' = msgs /\ lock' = lock
  BY DEF Control, Call, chanVars
<1>2. PICK o \in Ops[p] : op' = [op EXCEPT ![p] = o] /\ todo' = [todo EXCEPT ![p] = DOMAIN o.cases]
  BY DEF Call
<1>3. /\ o \in OpType
      /\ o.kind \in {"plain", "nowait"} => Len(o.cases) = 1
  BY ChannelAssumption
<1>4. op' \in [Proc -> OpType] /\ op'[p] = o /\ todo'[p] = DOMAIN o.cases
  BY <1>1, <1>2, <1>3 DEF TypeC
<1>5. o.cases \in Seq(CaseType) /\ o.kind \in {"plain", "nowait", "select", "default"}
  BY <1>3 DEF OpType
<1>6. DOMAIN o.cases \subseteq Nat \ {0}
  <2>1. DOMAIN o.cases = 1..Len(o.cases)
    BY <1>5, LenProperties
  <2> QED BY <2>1
<1>7. calls' \in [Proc -> 0..MaxCalls]
  <2>1. calls[p] + 1 \in 0..MaxCalls
    BY <1>1, ChannelAssumption DEF TypeC, Call
  <2> QED BY <1>1, <2>1 DEF TypeC, Call
<1>8. TypeC' /\ pc'[p] = "listen"
  <2>1. pc' = [pc EXCEPT ![p] = "listen"]
    BY DEF Call
  <2>2. todo' \in [Proc -> SUBSET (Nat \ {0})]
    BY <1>1, <1>2, <1>6 DEF TypeC
  <2> QED BY <1>1, <1>4, <1>7, <2>1, <2>2 DEF TypeC, PC
<1>9. Others(p)
  BY <1>1, <1>2 DEF Others, TypeC, Call
<1>10. msgs[p] = <<>> /\ ToSet(msgs[p]) = {}
  BY <1>1 DEF ProcOK, ToSet
<1>11. ProcOK(p)' /\ ~Inside(p) /\ ~Inside(p)'
  <2>1. ASSUME ~Multiplex(p)' PROVE Len(o.cases) <= 1
    <3>1. o.kind \in {"plain", "nowait"}
      BY <1>4, <1>5, <2>1 DEF Multiplex
    <3>2. Len(o.cases) = 1
      BY <1>3, <3>1
    <3> QED BY <3>2
  <2> QED BY <1>1, <1>4, <1>8, <1>10, <2>1 DEF ProcOK, Inside
<1>12. LockInv'
  BY <1>1, <1>9, <1>11, OutsideLock
<1>13. Keep
  <2> SUFFICES ASSUME NEW m \in Msg, NEW d, NEW k, Waits(m, d, k), m[1] = p
               PROVE  FALSE
    BY <1>9, <1>11, OthersKeep DEF Keep
  <2> QED BY <1>10 DEF Waits
<1>14. \A r \in Proc : ProcOK(r)'
  BY <1>9, <1>11, OthersKeep
<1> QED BY <1>1, <1>8, <1>9, <1>12, <1>13, <1>14 DEF Control

\* The operation returns, or its frame is gone.
LEMMA ReturnControl ==
  ASSUME Control, NEW p \in Proc, Return(p)
  PROVE  Control' /\ Keep
<1>1. ProcOK(p) /\ TypeC /\ LockInv /\ pc[p] \in {"drop", "unwind"} /\ msgs[p] = <<>>
  BY DEF Control, Return
<1>2. UNCHANGED <<lock, op, calls, msgs>>
  BY DEF Return, chanVars
<1>3. TypeC' /\ Others(p) /\ pc'[p] \in {"idle", "dead"} /\ todo'[p] = {}
  BY <1>1, <1>2 DEF Return, TypeC, PC, Others
<1>4. ToSet(msgs[p]) = {}
  BY <1>1 DEF ToSet
<1>5. ProcOK(p)' /\ ~Inside(p) /\ ~Inside(p)'
  BY <1>1, <1>2, <1>3 DEF ProcOK, Inside, Multiplex
<1>6. LockInv'
  BY <1>2, <1>3, <1>5, OutsideLock
<1>7. Keep
  <2> SUFFICES ASSUME NEW m \in Msg, NEW d, NEW k, Waits(m, d, k), m[1] = p
               PROVE  FALSE
    BY <1>3, <1>5, OthersKeep DEF Keep
  <2> QED BY <1>4 DEF Waits
<1>8. \A r \in Proc : ProcOK(r)'
  BY <1>3, <1>5, OthersKeep
<1> QED BY <1>3, <1>6, <1>7, <1>8 DEF Control

\* BaseMsg::drop takes the first message of the operation and keeps the others.
LEMMA DropControl ==
  ASSUME Control, NEW p \in Proc, Drop(p)
  PROVE  /\ Control'
         /\ Head(msgs[p]) \in DOMAIN op[p].cases
         /\ op[p].cases[Head(msgs[p])].chan \in Chan
         /\ \A m \in Msg : \A d, k :
              Waits(m, d, k) /\ m # <<p, Head(msgs[p])>> => Waits(m, d, k)'
<1> DEFINE i == Head(msgs[p])
<1>1. ProcOK(p) /\ TypeC /\ LockInv /\ pc[p] \in {"drop", "unwind"} /\ msgs[p] # <<>>
  BY DEF Control, Drop
<1>2. UNCHANGED <<lock, pc, op, calls, todo>> /\ msgs' = [msgs EXCEPT ![p] = Tail(@)]
  BY DEF Drop
<1>3. msgs[p] \in Seq(Nat \ {0}) /\ Distinct(msgs[p])
  BY <1>1 DEF TypeC, ProcOK
<1>4. /\ Tail(msgs[p]) \in Seq(Nat \ {0})
      /\ Distinct(Tail(msgs[p]))
      /\ ToSet(Tail(msgs[p])) = ToSet(msgs[p]) \ {i}
      /\ i \in ToSet(msgs[p])
  <2> HIDE DEF i
  <2> QED BY <1>1, <1>3, TailFacts DEF i
<1>5. msgs'[p] = Tail(msgs[p]) /\ TypeC' /\ Others(p)
  BY <1>1, <1>2, <1>4 DEF TypeC, Others
<1>6. i \in DOMAIN op[p].cases /\ op[p].cases[i].chan \in Chan
  BY <1>1, <1>4, OpFacts DEF ProcOK
<1> HIDE DEF i
<1>7. ToSet(msgs'[p]) = ToSet(msgs[p]) \ {i} /\ Distinct(msgs'[p])
  BY <1>4, <1>5
<1>8. ProcOK(p)' /\ ~Inside(p) /\ ~Inside(p)'
  <2>1. ToSet(msgs'[p]) \subseteq DOMAIN op[p].cases /\ ToSet(msgs'[p]) \cap todo[p] = {}
    BY <1>1, <1>7 DEF ProcOK
  <2> QED BY <1>1, <1>2, <1>7, <2>1 DEF ProcOK, Inside, Multiplex
<1>9. LockInv'
  BY <1>2, <1>5, <1>8, OutsideLock
<1>10. \A r \in Proc : ProcOK(r)'
  BY <1>5, <1>8, OthersKeep
<1>11. ASSUME NEW m \in Msg, NEW d, NEW k, Waits(m, d, k), m # <<p, i>>
       PROVE  Waits(m, d, k)'
  <2>1. CASE m[1] # p
    BY <1>5, <1>8, <1>11, <2>1, OthersKeep
  <2>2. CASE m[1] = p
    <3>1. m[2] # i
      BY <1>11, <2>2 DEF Msg
    <3>2. m[2] \in ToSet(msgs'[p])
      BY <1>7, <1>11, <2>2, <3>1 DEF Waits
    <3> QED BY <1>2, <1>8, <1>11, <2>2, <3>2 DEF Waits
  <2> QED BY <2>1, <2>2
<1> QED BY <1>5, <1>6, <1>9, <1>10, <1>11 DEF Control, i

-----------------------------------------------------------------------------
(* The lists of linked messages.                                           *)

ListsOK(q) == q \in [Chan -> Seq(Msg)] /\ \A k \in Chan : Distinct(q[k])

\* r is q without the message m of channel c.
Without(r, q, c, m) ==
  /\ ToSet(r[c]) = ToSet(q[c]) \ {m}
  /\ \A k \in Chan : k # c => r[k] = q[k]
  /\ \A k \in Chan : ToSet(r[k]) \subseteq ToSet(q[k])

LEMMA PopFacts ==
  ASSUME NEW q, ListsOK(q), NEW c \in Chan, q[c] # <<>>
  PROVE  /\ ListsOK([q EXCEPT ![c] = Tail(@)])
         /\ Head(q[c]) \in Msg
         /\ Head(q[c]) \in ToSet(q[c])
         /\ Without([q EXCEPT ![c] = Tail(@)], q, c, Head(q[c]))
<1>1. q[c] \in Seq(Msg) /\ Distinct(q[c])
  BY DEF ListsOK
<1>2. /\ Head(q[c]) \in Msg
      /\ Tail(q[c]) \in Seq(Msg)
      /\ Distinct(Tail(q[c]))
      /\ ToSet(Tail(q[c])) = ToSet(q[c]) \ {Head(q[c])}
      /\ Head(q[c]) \in ToSet(q[c])
  BY <1>1, TailFacts
<1> DEFINE r == [q EXCEPT ![c] = Tail(@)]
<1>3. r \in [Chan -> Seq(Msg)] /\ \A k \in Chan : r[k] = IF k = c THEN Tail(q[c]) ELSE q[k]
  BY <1>2 DEF ListsOK
<1> HIDE DEF r
<1>4. ListsOK(r)
  BY <1>2, <1>3 DEF ListsOK
<1>5. Without(r, q, c, Head(q[c]))
  <2> DEFINE h == Head(q[c])
  <2>1. ToSet(r[c]) = ToSet(q[c]) \ {h}
    BY <1>2, <1>3
  <2> HIDE DEF h
  <2> QED BY <1>3, <2>1 DEF Without, h
<1> QED BY <1>2, <1>4, <1>5 DEF r

LEMMA LinkFacts ==
  ASSUME NEW q, ListsOK(q), NEW c \in Chan, NEW m \in Msg, m \notin ToSet(q[c])
  PROVE  /\ ListsOK([q EXCEPT ![c] = Append(@, m)])
         /\ \A k \in Chan : ToSet([q EXCEPT ![c] = Append(@, m)][k]) =
              IF k = c THEN ToSet(q[k]) \cup {m} ELSE ToSet(q[k])
<1>1. q[c] \in Seq(Msg) /\ Distinct(q[c])
  BY DEF ListsOK
<1>2. /\ Append(q[c], m) \in Seq(Msg)
      /\ Distinct(Append(q[c], m))
      /\ ToSet(Append(q[c], m)) = ToSet(q[c]) \cup {m}
  BY <1>1, AppendFacts
<1> DEFINE r == [q EXCEPT ![c] = Append(@, m)]
<1>3. r \in [Chan -> Seq(Msg)] /\ \A k \in Chan : r[k] = IF k = c THEN Append(q[c], m) ELSE q[k]
  BY <1>2 DEF ListsOK
<1> HIDE DEF r
<1>4. ListsOK(r) /\ \A k \in Chan : ToSet(r[k]) =
        IF k = c THEN ToSet(q[k]) \cup {m} ELSE ToSet(q[k])
  BY <1>2, <1>3 DEF ListsOK
<1> QED BY <1>4 DEF r

LEMMA DropFacts ==
  ASSUME NEW q, ListsOK(q), NEW c \in Chan, NEW m \in Msg
  PROVE  /\ ListsOK([q EXCEPT ![c] = Unlink(@, m)])
         /\ Without([q EXCEPT ![c] = Unlink(@, m)], q, c, m)
<1>1. q[c] \in Seq(Msg) /\ Distinct(q[c])
  BY DEF ListsOK
<1>2. /\ Unlink(q[c], m) \in Seq(Msg)
      /\ Distinct(Unlink(q[c], m))
      /\ ToSet(Unlink(q[c], m)) = ToSet(q[c]) \ {m}
  BY <1>1, UnlinkFacts
<1> DEFINE r == [q EXCEPT ![c] = Unlink(@, m)]
<1>3. r \in [Chan -> Seq(Msg)] /\ \A k \in Chan : r[k] = IF k = c THEN Unlink(q[c], m) ELSE q[k]
  BY <1>2 DEF ListsOK
<1> HIDE DEF r
<1>4. ListsOK(r) /\ Without(r, q, c, m)
  BY <1>2, <1>3 DEF ListsOK, Without
<1> QED BY <1>4 DEF r

\* The lists do not grow.
Shrink ==
  \A k \in Chan :
    /\ ToSet(senders'[k]) \subseteq ToSet(senders[k])
    /\ ToSet(recvers'[k]) \subseteq ToSet(recvers[k])

LEMMA InList ==
  ASSUME TypeQ, ListInv
  PROVE  /\ ListsOK(senders) /\ ListsOK(recvers)
         /\ \A k \in Chan : /\ ToSet(senders[k]) \subseteq Msg
                            /\ ToSet(recvers[k]) \subseteq Msg
<1>1. ListsOK(senders) /\ ListsOK(recvers)
  BY DEF TypeQ, ListInv, ListsOK
<1>2. \A k \in Chan : ToSet(senders[k]) \subseteq Msg /\ ToSet(recvers[k]) \subseteq Msg
  BY SetFacts DEF TypeQ
<1> QED BY <1>1, <1>2

LEMMA ShrinkKeeps ==
  ASSUME TypeQ, ListInv, Keep, Shrink, ListsOK(senders'), ListsOK(recvers')
  PROVE  TypeQ' /\ ListInv'
<1>1. TypeQ'
  BY DEF ListsOK, TypeQ
<1>2. ASSUME NEW k \in Chan
      PROVE  /\ Distinct(senders'[k]) /\ \A m \in ToSet(senders'[k]) : Waits(m, "send", k)'
             /\ Distinct(recvers'[k]) /\ \A m \in ToSet(recvers'[k]) : Waits(m, "recv", k)'
  <2>1. Distinct(senders'[k]) /\ Distinct(recvers'[k])
    BY DEF ListsOK
  <2>2. ASSUME NEW m \in ToSet(senders'[k]) PROVE Waits(m, "send", k)'
    <3>1. m \in Msg /\ Waits(m, "send", k)
      BY InList DEF Shrink, ListInv
    <3> QED BY <3>1 DEF Keep
  <2>3. ASSUME NEW m \in ToSet(recvers'[k]) PROVE Waits(m, "recv", k)'
    <3>1. m \in Msg /\ Waits(m, "recv", k)
      BY InList DEF Shrink, ListInv
    <3> QED BY <3>1 DEF Keep
  <2> QED BY <2>1, <2>2, <2>3
<1> QED BY <1>1, <1>2 DEF ListInv

\* BaseLinked::unlink_back of the senders of channel c.
LEMMA SendersPop ==
  ASSUME TypeQ, ListInv, Keep, NEW c \in Chan, senders[c] # <<>>,
         senders' = [senders EXCEPT ![c] = Tail(@)], recvers' = recvers
  PROVE  /\ TypeQ' /\ ListInv' /\ Shrink
         /\ \A k \in Chan : k # c => senders'[k] = senders[k]
         /\ Head(senders[c]) \notin ToSet(senders'[c])
<1>1. ListsOK(senders) /\ ListsOK(recvers)
  BY InList
<1>2. ListsOK(senders') /\ Without(senders', senders, c, Head(senders[c]))
  <2>1. ListsOK([senders EXCEPT ![c] = Tail(@)]) /\ Without([senders EXCEPT ![c] = Tail(@)], senders, c, Head(senders[c]))
    BY <1>1, PopFacts
  <2> QED BY <2>1
<1>3. /\ Shrink
      /\ \A k \in Chan : k # c => senders'[k] = senders[k]
      /\ Head(senders[c]) \notin ToSet(senders'[c])
  BY <1>2, Zenon DEF Shrink, Without
<1> QED BY <1>1, <1>2, <1>3, ShrinkKeeps

LEMMA RecversPop ==
  ASSUME TypeQ, ListInv, Keep, NEW c \in Chan, recvers[c] # <<>>,
         recvers' = [recvers EXCEPT ![c] = Tail(@)], senders' = senders
  PROVE  /\ TypeQ' /\ ListInv' /\ Shrink
         /\ \A k \in Chan : k # c => recvers'[k] = recvers[k]
         /\ Head(recvers[c]) \notin ToSet(recvers'[c])
<1>1. ListsOK(senders) /\ ListsOK(recvers)
  BY InList
<1>2. ListsOK(recvers') /\ Without(recvers', recvers, c, Head(recvers[c]))
  <2>1. ListsOK([recvers EXCEPT ![c] = Tail(@)]) /\ Without([recvers EXCEPT ![c] = Tail(@)], recvers, c, Head(recvers[c]))
    BY <1>1, PopFacts
  <2> QED BY <2>1
<1>3. /\ Shrink
      /\ \A k \in Chan : k # c => recvers'[k] = recvers[k]
      /\ Head(recvers[c]) \notin ToSet(recvers'[c])
  BY <1>2, Zenon DEF Shrink, Without
<1> QED BY <1>1, <1>2, <1>3, ShrinkKeeps

LEMMA ListsSame ==
  ASSUME TypeQ, ListInv, Keep, senders' = senders, recvers' = recvers
  PROVE  TypeQ' /\ ListInv' /\ Shrink
  BY InList, ShrinkKeeps DEF Shrink

\* The first linked message.
LEMMA HeadFacts ==
  ASSUME TypeQ, ListInv, NEW c \in Chan
  PROVE  /\ senders[c] # <<>> =>
              /\ Head(senders[c]) \in Msg
              /\ Head(senders[c]) \in ToSet(senders[c])
              /\ Waits(Head(senders[c]), "send", c)
         /\ recvers[c] # <<>> =>
              /\ Head(recvers[c]) \in Msg
              /\ Head(recvers[c]) \in ToSet(recvers[c])
              /\ Waits(Head(recvers[c]), "recv", c)
  BY InList, PopFacts DEF ListInv

-----------------------------------------------------------------------------
(* Commits.                                                                *)

\* The message m was committed.
Taken(m) ==
  /\ key'[m[1]] = IF Multiplex(m[1]) THEN m[2] ELSE key[m[1]]
  /\ signal'[m[1]] = IF op[m[1]].kind # "nowait" THEN signal[m[1]] + 1 ELSE signal[m[1]]
  /\ moved'[m[1]] = Append(moved[m[1]], m[2])

\* Nothing of p's was.
Untaken(p) == key'[p] = key[p] /\ signal'[p] = signal[p] /\ moved'[p] = moved[p]

LEMMA CommitFacts ==
  ASSUME TypeC, TypeM, NEW ms \in SUBSET Msg, Commit(ms),
         \A m \in ms : m[2] \in DOMAIN op[m[1]].cases,
         \A m, n \in ms : m[1] = n[1] => m = n
  PROVE  /\ TypeM'
         /\ \A m \in ms : Taken(m)
         /\ \A p \in Proc : (\A m \in ms : m[1] # p) => Untaken(p)
<1> DEFINE of(p) == {i \in DOMAIN op[p].cases : <<p, i>> \in ms}
           pick(p) == CHOOSE i \in of(p) : TRUE
<1>1. /\ key' = [p \in Proc |-> IF Multiplex(p) /\ of(p) # {} THEN pick(p) ELSE key[p]]
      /\ signal' = [p \in Proc |-> IF op[p].kind # "nowait" /\ of(p) # {}
                                   THEN signal[p] + 1 ELSE signal[p]]
      /\ moved' = [p \in Proc |-> IF of(p) # {} THEN Append(moved[p], pick(p)) ELSE moved[p]]
  BY Zenon DEF Commit
<1>2. \A m \in ms : m[1] \in Proc /\ m = <<m[1], m[2]>> /\ m[2] \in Nat
  BY DEF Msg
<1>3. ASSUME NEW m \in ms PROVE of(m[1]) # {} /\ pick(m[1]) = m[2]
  <2>1. m[2] \in of(m[1])
    BY <1>2
  <2>2. ASSUME NEW i \in of(m[1]) PROVE i = m[2]
    <3>1. <<m[1], i>> \in ms
      OBVIOUS
    <3>2. <<m[1], i>>[1] = m[1]
      OBVIOUS
    <3>3. <<m[1], i>> = m
      BY <3>1, <3>2
    <3>4. <<m[1], i>>[2] = m[2]
      BY <3>3
    <3> QED BY <3>4
  <2> HIDE DEF of
  <2> QED BY <2>1, <2>2
<1>4. ASSUME NEW p \in Proc, \A m \in ms : m[1] # p PROVE of(p) = {}
  <2> SUFFICES ASSUME NEW i \in of(p) PROVE FALSE
    OBVIOUS
  <2>1. <<p, i>> \in ms /\ <<p, i>>[1] = p
    OBVIOUS
  <2> QED BY <1>4, <2>1
<1>5. \A p \in Proc : of(p) # {} => pick(p) \in Nat
  <2> SUFFICES ASSUME NEW p \in Proc, of(p) # {} PROVE pick(p) \in Nat
    OBVIOUS
  <2>1. PICK m \in ms : m[1] = p
    BY <1>4
  <2> QED BY <1>2, <1>3, <2>1
<1> HIDE DEF of, pick
<1>6. \A m \in ms : Taken(m)
  BY <1>1, <1>2, <1>3 DEF Taken
<1>7. \A p \in Proc : (\A m \in ms : m[1] # p) => Untaken(p)
  BY <1>1, <1>4 DEF Untaken
<1>8. TypeM'
  <2>1. key' \in [Proc -> Nat]
    BY <1>1, <1>5 DEF TypeM
  <2>2. signal' \in [Proc -> Nat]
    BY <1>1 DEF TypeM
  <2>3. moved' \in [Proc -> Seq(Nat)]
    <3>1. \A p \in Proc : of(p) # {} => Append(moved[p], pick(p)) \in Seq(Nat)
      <4> SUFFICES ASSUME NEW p \in Proc, of(p) # {} PROVE Append(moved[p], pick(p)) \in Seq(Nat)
        OBVIOUS
      <4>1. moved[p] \in Seq(Nat) /\ pick(p) \in Nat
        BY <1>5 DEF TypeM
      <4> QED BY <4>1, AppendProperties
    <3>2. \A p \in Proc : moved[p] \in Seq(Nat)
      BY DEF TypeM
    <3> DEFINE f(p) == IF of(p) # {} THEN Append(moved[p], pick(p)) ELSE moved[p]
    <3>3. \A p \in Proc : f(p) \in Seq(Nat)
      BY <3>1, <3>2, Zenon
    <3>4. moved' = [p \in Proc |-> f(p)]
      BY <1>1
    <3> HIDE DEF f
    <3> QED BY <3>3, <3>4
  <2> QED BY <2>1, <2>2, <2>3 DEF TypeM
<1> QED BY <1>6, <1>7, <1>8

\* A commit to a message that can be transferred makes its select decided for good.
LEMMA TakenMoves ==
  ASSUME TypeC, TypeM, NEW m \in Msg, MoveOK(m[1]), m[2] \in DOMAIN op[m[1]].cases,
         ~Decided(m[1]), Taken(m), op'[m[1]] = op[m[1]],
         ~Multiplex(m[1]) =>
           /\ m[2] = 1
           /\ moved[m[1]] = <<>>
           /\ pc'[m[1]] \notin {"listen", "match"}
           /\ \A c \in Chan : \A n \in ToSet(senders'[c]) \cup ToSet(recvers'[c]) : n[1] # m[1]
  PROVE  MoveOK(m[1])' /\ (Multiplex(m[1]) => key'[m[1]] # NoKey)
<1> DEFINE p == m[1]
           i == m[2]
<1>1. p \in Proc /\ i \in Nat \ {0} /\ i # DefaultKey(p)
  <2>1. p \in Proc /\ i \in Nat \ {0}
    BY DEF Msg
  <2>2. DOMAIN op[p].cases = 1..Len(op[p].cases) /\ Len(op[p].cases) \in Nat
    BY <2>1, OpFacts
  <2> QED BY <2>1, <2>2 DEF DefaultKey
<1>2. Append(<<>>, i) = <<i>>
  OBVIOUS
<1>3. Multiplex(p)' <=> Multiplex(p)
  BY DEF Multiplex
<1>4. DefaultKey(p)' = DefaultKey(p)
  BY DEF DefaultKey
<1> HIDE DEF p, i
<1>5. CASE Multiplex(p)
  <2>1. key[p] = NoKey /\ moved[p] = <<>>
    BY <1>5 DEF Decided, MoveOK, p
  <2>2. key'[p] = i /\ moved'[p] = <<i>>
    BY <1>2, <1>5, <2>1 DEF Taken, p, i
  <2>3. i # NoKey
    BY <1>1 DEF NoKey
  <2>4. MoveOK(p)'
    BY <1>1, <1>3, <1>4, <1>5, <2>2, <2>3 DEF MoveOK
  <2> QED BY <2>2, <2>3, <2>4 DEF p
<1>6. CASE ~Multiplex(p)
  <2>1. moved'[p] = <<1>> /\ pc'[p] \notin {"listen", "match"}
    BY <1>2, <1>6 DEF Taken, p, i
  <2>2. \A c \in Chan : \A n \in ToSet(senders'[c]) \cup ToSet(recvers'[c]) : n[1] # p
    BY <1>6 DEF p
  <2>3. MoveOK(p)'
    BY <1>3, <1>6, <2>1, <2>2 DEF MoveOK
  <2> QED BY <1>6, <2>3 DEF p
<1> QED BY <1>5, <1>6

\* A step that moves nothing of p's.
LEMMA UntakenMoves ==
  ASSUME NEW p \in Proc, MoveOK(p), Untaken(p), op'[p] = op[p],
         pc'[p] = "drop" => pc[p] = "drop" \/ op[p].kind = "nowait",
         ~Multiplex(p) =>
           /\ pc'[p] \in {"listen", "match"} => moved[p] = <<>>
           /\ \A c \in Chan : \A n \in ToSet(senders'[c]) \cup ToSet(recvers'[c]) :
                n[1] = p => moved[p] = <<>>
  PROVE  MoveOK(p)'
<1>1. (Multiplex(p)' <=> Multiplex(p)) /\ DefaultKey(p)' = DefaultKey(p)
  BY DEF Multiplex, DefaultKey
<1>2. CASE Multiplex(p)
  <2>1. pc'[p] = "drop" => pc[p] = "drop"
    BY <1>2 DEF Multiplex
  <2> QED BY <1>1, <1>2, <2>1 DEF MoveOK, Untaken
<1>3. CASE ~Multiplex(p)
  <2>1. pc'[p] = "drop" /\ op[p].kind = "plain" => pc[p] = "drop"
    OBVIOUS
  <2>2. /\ moved[p] \in {<<>>, <<1>>}
        /\ signal[p] > 0 \/ (pc[p] = "drop" /\ op[p].kind = "plain") => moved[p] = <<1>>
    BY <1>3 DEF MoveOK
  <2>3. /\ signal'[p] > 0 \/ (pc'[p] = "drop" /\ op'[p].kind = "plain") => moved'[p] = <<1>>
        /\ moved'[p] \in {<<>>, <<1>>}
        /\ pc'[p] \in {"listen", "match"} => moved'[p] = <<>>
    BY <1>3, <2>1, <2>2 DEF Untaken
  <2>4. \A c \in Chan : \A n \in ToSet(senders'[c]) \cup ToSet(recvers'[c]) :
          n[1] = p => moved'[p] = <<>>
    BY <1>3 DEF Untaken
  <2> QED BY <1>1, <1>3, <2>3, <2>4 DEF MoveOK
<1> QED BY <1>2, <1>3

-----------------------------------------------------------------------------
(* The buffer.                                                             *)

\* Who is decided stays decided until its operation returns.
Lasting == \A r \in Proc : pc[r] # "idle" /\ Decided(r) => Decided(r)'

LEMMA KeysLast ==
  ASSUME op' = op, \A r \in Proc : key[r] # NoKey => key'[r] # NoKey
  PROVE  Lasting
  BY DEF Lasting, Decided, Multiplex

\* No linked message comes back to life.
LEMMA LiveFacts ==
  ASSUME Control, TypeQ, ListInv, Lasting, NEW k \in Chan
  PROVE  /\ ToSet(senders'[k]) \subseteq ToSet(senders[k]) => (Live(senders[k])' => Live(senders[k]))
         /\ ToSet(recvers'[k]) \subseteq ToSet(recvers[k]) => (Live(recvers[k])' => Live(recvers[k]))
<1>1. ASSUME NEW m \in ToSet(senders[k]), ~Decided(m[1])' PROVE ~Decided(m[1])
  <2>1. m \in Msg /\ Waits(m, "send", k)
    BY InList DEF ListInv
  <2>2. m[1] \in Proc /\ pc[m[1]] # "idle"
    BY <2>1, WaitsFacts
  <2> QED BY <1>1, <2>2 DEF Lasting
<1>2. ASSUME NEW m \in ToSet(recvers[k]), ~Decided(m[1])' PROVE ~Decided(m[1])
  <2>1. m \in Msg /\ Waits(m, "recv", k)
    BY InList DEF ListInv
  <2>2. m[1] \in Proc /\ pc[m[1]] # "idle"
    BY <2>1, WaitsFacts
  <2> QED BY <1>2, <2>2 DEF Lasting
<1>3. ASSUME ToSet(senders'[k]) \subseteq ToSet(senders[k]), Live(senders[k])' PROVE Live(senders[k])
  <2>1. PICK m \in ToSet(senders'[k]) : ~Decided(m[1])'
    BY <1>3 DEF Live
  <2> QED BY <1>1, <1>3, <2>1 DEF Live
<1>4. ASSUME ToSet(recvers'[k]) \subseteq ToSet(recvers[k]), Live(recvers[k])' PROVE Live(recvers[k])
  <2>1. PICK m \in ToSet(recvers'[k]) : ~Decided(m[1])'
    BY <1>4 DEF Live
  <2> QED BY <1>2, <1>4, <2>1 DEF Live
<1> QED BY <1>3, <1>4

\* A channel whose buffer does not change, whose lists do not grow, and that nobody
\* enters or leaves.
LEMMA SameChan ==
  ASSUME Control, TypeQ, ListInv, Lasting, NEW k \in Chan, ChanOK(k),
         buffer'[k] = buffer[k], lock'[k] = lock[k],
         ToSet(senders'[k]) \subseteq ToSet(senders[k]),
         ToSet(recvers'[k]) \subseteq ToSet(recvers[k]),
         \A r \in Proc : lock[k] = r => pc'[r] = pc[r] /\ CurrentCase(r)' = CurrentCase(r)
  PROVE  ChanOK(k)'
<1>1. (Live(senders[k])' => Live(senders[k])) /\ (Live(recvers[k])' => Live(recvers[k]))
  BY LiveFacts
<1>2. Settled(k) => Settled(k)'
  BY <1>1 DEF Settled
<1>3. ASSUME NEW r \in Proc, lock[k] = r PROVE Knows(r, k)'
  <2>1. Knows(r, k) /\ pc'[r] = pc[r] /\ CurrentCase(r)' = CurrentCase(r)
    BY <1>3 DEF ChanOK
  <2>2. pc[r] # "idle"
    BY <1>3 DEF Control, LockInv, Inside
  <2>3. Decided(r) => Decided(r)'
    BY <2>2 DEF Lasting
  <2> QED BY <1>1, <1>2, <2>1, <2>3 DEF Knows
<1>4. /\ Len(buffer'[k]) <= Cap[k]
      /\ ~(Live(senders[k])' /\ Live(recvers[k])')
      /\ lock'[k] = Free => Settled(k)'
  BY <1>1, <1>2 DEF ChanOK
<1> QED BY <1>3, <1>4 DEF ChanOK

\* A step of p in channel c leaves the other channels alone.
LEMMA OtherChans ==
  ASSUME Control, TypeQ, ListInv, Lasting, NEW p \in Proc, NEW c \in Chan, BufferInv, Others(p),
         \A k \in Chan \ {c} : buffer'[k] = buffer[k] /\ lock'[k] = lock[k],
         \A k \in Chan \ {c} : senders'[k] = senders[k] /\ recvers'[k] = recvers[k],
         Inside(p) => CurrentCase(p).chan = c,
         ChanOK(c)'
  PROVE  BufferInv'
<1> SUFFICES ASSUME NEW k \in Chan, k # c PROVE ChanOK(k)'
  BY DEF BufferInv
<1>1. ASSUME NEW r \in Proc, lock[k] = r PROVE pc'[r] = pc[r] /\ CurrentCase(r)' = CurrentCase(r)
  <2>1. Inside(r) /\ CurrentCase(r).chan = k
    BY <1>1 DEF Control, LockInv
  <2>2. r # p
    BY <2>1
  <2> QED BY <2>2 DEF Others, CurrentCase
<1> QED BY <1>1, SameChan DEF BufferInv

\* A step of p outside the channels.
LEMMA NoChan ==
  ASSUME Control, TypeQ, ListInv, Lasting, NEW p \in Proc, BufferInv, Others(p), ~Inside(p), Shrink,
         UNCHANGED <<buffer, lock>>
  PROVE  BufferInv'
<1> SUFFICES ASSUME NEW k \in Chan PROVE ChanOK(k)'
  BY DEF BufferInv
<1>1. ASSUME NEW r \in Proc, lock[k] = r PROVE pc'[r] = pc[r] /\ CurrentCase(r)' = CurrentCase(r)
  <2>1. Inside(r)
    BY <1>1 DEF Control, LockInv
  <2>2. r # p
    BY <2>1
  <2> QED BY <2>2 DEF Others, CurrentCase
<1> QED BY <1>1, SameChan DEF BufferInv, Shrink

\* The channel p leaves.
LEMMA LeftChan ==
  ASSUME NEW c \in Chan, lock'[c] = Free, Len(buffer'[c]) <= Cap[c],
         Live(senders[c])' => Len(buffer'[c]) = Cap[c] /\ ~Live(recvers[c])',
         Live(recvers[c])' => buffer'[c] = <<>>
  PROVE  ChanOK(c)'
  BY ChannelAssumption DEF ChanOK, Settled

\* The channel p is in.
LEMMA HeldChan ==
  ASSUME NEW p \in Proc, NEW c \in Chan, lock'[c] = p, Len(buffer'[c]) <= Cap[c],
         ~(Live(senders[c])' /\ Live(recvers[c])'), Knows(p, c)'
  PROVE  ChanOK(c)'
  BY ChannelAssumption DEF ChanOK

\* The value of a message.
LEMMA ValueFacts ==
  ASSUME TypeC, NEW m \in Msg
  PROVE  ValueOf(m) \in Value
<1>1. m[1] \in Proc /\ calls[m[1]] \in 0..MaxCalls
  BY DEF TypeC, Msg
<1> QED BY <1>1, ChannelAssumption DEF Value, ValueOf

\* f with the value of one channel replaced.
LEMMA PutChan ==
  ASSUME NEW f \in [Chan -> Seq(Value)], NEW c \in Chan, NEW x \in Seq(Value)
  PROVE  /\ [f EXCEPT ![c] = x] \in [Chan -> Seq(Value)]
         /\ [f EXCEPT ![c] = x][c] = x
         /\ \A k \in Chan \ {c} : [f EXCEPT ![c] = x][k] = f[k]
  OBVIOUS

LEMMA ValuePut ==
  ASSUME NEW out \in Seq(Value), NEW inside \in Seq(Value), NEW v \in Value
  PROVE  Append(out \o inside, v) = out \o Append(inside, v)
<1>1. <<v>> \in Seq(Value)
  OBVIOUS
<1>2. Append(out \o inside, v) = (out \o inside) \o <<v>>
  BY ConcatProperties, AppendIsConcat
<1>3. Append(inside, v) = inside \o <<v>>
  BY AppendIsConcat
<1> QED BY <1>1, <1>2, <1>3, ConcatAssociative

LEMMA BufferPut ==
  ASSUME TypeB, FifoConserved, NEW c \in Chan, NEW v \in Value,
         buffer' = [buffer EXCEPT ![c] = Append(@, v)],
         sent' = [sent EXCEPT ![c] = Append(@, v)], recvd' = recvd
  PROVE  /\ TypeB' /\ FifoConserved'
         /\ Len(buffer'[c]) = Len(buffer[c]) + 1
         /\ \A k \in Chan \ {c} : buffer'[k] = buffer[k]
<1>1. buffer[c] \in Seq(Value) /\ sent[c] \in Seq(Value) /\ recvd[c] \in Seq(Value)
  BY DEF TypeB
<1>2. Append(buffer[c], v) \in Seq(Value) /\ Append(sent[c], v) \in Seq(Value)
  BY <1>1, AppendProperties
<1>3. /\ buffer' \in [Chan -> Seq(Value)] /\ buffer'[c] = Append(buffer[c], v)
      /\ \A k \in Chan \ {c} : buffer'[k] = buffer[k]
  BY <1>2, PutChan DEF TypeB
<1>4. /\ sent' \in [Chan -> Seq(Value)] /\ sent'[c] = Append(sent[c], v)
      /\ \A k \in Chan \ {c} : sent'[k] = sent[k]
  BY <1>2, PutChan DEF TypeB
<1>5. sent[c] = recvd[c] \o buffer[c]
  BY DEF FifoConserved
<1>6. sent'[c] = recvd'[c] \o buffer'[c]
  <2>1. Append(recvd[c] \o buffer[c], v) = recvd[c] \o Append(buffer[c], v)
    <3> DEFINE b == buffer[c]
               r == recvd[c]
    <3>1. b \in Seq(Value) /\ r \in Seq(Value)
      BY <1>1
    <3> HIDE DEF b, r
    <3> QED BY <3>1, ValuePut DEF b, r
  <2> QED BY <1>3, <1>4, <1>5, <2>1
<1>7. FifoConserved'
  <2> SUFFICES ASSUME NEW k \in Chan, k # c PROVE sent'[k] = recvd'[k] \o buffer'[k]
    BY <1>6 DEF FifoConserved
  <2> QED BY <1>3, <1>4 DEF FifoConserved
<1>8. Len(Append(buffer[c], v)) = Len(buffer[c]) + 1
  BY <1>1, AppendProperties
<1> QED BY <1>3, <1>4, <1>7, <1>8 DEF TypeB

LEMMA BufferGet ==
  ASSUME TypeB, FifoConserved, NEW c \in Chan, buffer[c] # <<>>,
         buffer' = [buffer EXCEPT ![c] = Tail(@)],
         recvd' = [recvd EXCEPT ![c] = Append(@, Head(buffer[c]))], sent' = sent
  PROVE  /\ TypeB' /\ FifoConserved'
         /\ Len(buffer[c]) = Len(buffer'[c]) + 1
         /\ buffer'[c] \in Seq(Value)
         /\ \A k \in Chan \ {c} : buffer'[k] = buffer[k]
<1>1. buffer[c] \in Seq(Value) /\ sent[c] \in Seq(Value) /\ recvd[c] \in Seq(Value)
  BY DEF TypeB
<1>2. Head(buffer[c]) \in Value /\ Tail(buffer[c]) \in Seq(Value) /\ Len(buffer[c]) = Len(Tail(buffer[c])) + 1
  <2>1. Head(buffer[c]) \in Value /\ Tail(buffer[c]) \in Seq(Value) /\ Len(Tail(buffer[c])) = Len(buffer[c]) - 1
    BY <1>1, HeadTailProperties
  <2>2. Len(buffer[c]) \in Nat
    BY <1>1, LenProperties
  <2> QED BY <2>1, <2>2
<1>3. Append(recvd[c], Head(buffer[c])) \in Seq(Value)
  BY <1>1, <1>2, AppendProperties
<1>4. /\ buffer' \in [Chan -> Seq(Value)] /\ buffer'[c] = Tail(buffer[c])
      /\ \A k \in Chan \ {c} : buffer'[k] = buffer[k]
  BY <1>2, PutChan DEF TypeB
<1>5. /\ recvd' \in [Chan -> Seq(Value)] /\ recvd'[c] = Append(recvd[c], Head(buffer[c]))
      /\ \A k \in Chan \ {c} : recvd'[k] = recvd[k]
  BY <1>3, PutChan DEF TypeB
<1>6. sent[c] = recvd[c] \o buffer[c]
  BY DEF FifoConserved
<1>7. sent'[c] = recvd'[c] \o buffer'[c]
  BY <1>1, <1>4, <1>5, <1>6, GetFacts
<1>8. FifoConserved'
  <2> SUFFICES ASSUME NEW k \in Chan, k # c PROVE sent'[k] = recvd'[k] \o buffer'[k]
    BY <1>7 DEF FifoConserved
  <2> QED BY <1>4, <1>5 DEF FifoConserved
<1> QED BY <1>2, <1>4, <1>5, <1>8 DEF TypeB

LEMMA BufferPass ==
  ASSUME TypeB, FifoConserved, NEW c \in Chan, NEW v \in Value, buffer[c] = <<>>,
         sent' = [sent EXCEPT ![c] = Append(@, v)],
         recvd' = [recvd EXCEPT ![c] = Append(@, v)], buffer' = buffer
  PROVE  TypeB' /\ FifoConserved'
<1>1. sent[c] \in Seq(Value) /\ recvd[c] \in Seq(Value)
  BY DEF TypeB
<1>2. Append(recvd[c], v) \in Seq(Value) /\ Append(sent[c], v) \in Seq(Value)
  BY <1>1, AppendProperties
<1>3. /\ sent' \in [Chan -> Seq(Value)] /\ sent'[c] = Append(sent[c], v)
      /\ \A k \in Chan \ {c} : sent'[k] = sent[k]
  BY <1>2, PutChan DEF TypeB
<1>4. /\ recvd' \in [Chan -> Seq(Value)] /\ recvd'[c] = Append(recvd[c], v)
      /\ \A k \in Chan \ {c} : recvd'[k] = recvd[k]
  BY <1>2, PutChan DEF TypeB
<1>5. sent[c] = recvd[c]
  <2>1. sent[c] = recvd[c] \o <<>>
    BY DEF FifoConserved
  <2> QED BY <1>1, <2>1, ConcatEmptySeq
<1>6. sent'[c] = recvd'[c] \o buffer'[c]
  <2>1. Append(recvd[c], v) \o <<>> = Append(recvd[c], v)
    BY <1>2, ConcatEmptySeq
  <2> QED BY <1>3, <1>4, <1>5, <2>1
<1>7. FifoConserved'
  <2> SUFFICES ASSUME NEW k \in Chan, k # c PROVE sent'[k] = recvd'[k] \o buffer'[k]
    BY <1>6 DEF FifoConserved
  <2> QED BY <1>3, <1>4 DEF FifoConserved
<1> QED BY <1>3, <1>4, <1>7 DEF TypeB

-----------------------------------------------------------------------------
(* What a step does to keys, signals and moves.                            *)

KeyKept == \A r \in Proc : key[r] # NoKey => key'[r] = key[r]

\* r does not begin to listen or to match, and does not finish, unless it is nowait.
Calm(r) ==
  \/ pc'[r] = pc[r]
  \/ pc'[r] \notin {"listen", "match", "drop"}
  \/ pc'[r] = "drop" /\ op[r].kind = "nowait"

\* A plain operation whose message m is committed had moved nothing, and is not found
\* any more.
Ready(m) ==
  ~Multiplex(m[1]) =>
    /\ m[2] = 1
    /\ moved[m[1]] = <<>>
    /\ pc'[m[1]] \notin {"listen", "match"}
    /\ \A c \in Chan : \A n \in ToSet(senders'[c]) \cup ToSet(recvers'[c]) : n[1] # m[1]

LEMMA CalmMoves ==
  ASSUME NEW r \in Proc, MoveOK(r), Untaken(r), op'[r] = op[r], Calm(r), Shrink
  PROVE  MoveOK(r)'
<1>1. pc'[r] = "drop" => pc[r] = "drop" \/ op[r].kind = "nowait"
  BY DEF Calm
<1>2. ASSUME ~Multiplex(r)
      PROVE  /\ pc'[r] \in {"listen", "match"} => moved[r] = <<>>
             /\ \A c \in Chan : \A n \in ToSet(senders'[c]) \cup ToSet(recvers'[c]) :
                  n[1] = r => moved[r] = <<>>
  <2>1. pc'[r] \in {"listen", "match"} => moved[r] = <<>>
    BY <1>2 DEF MoveOK, Calm
  <2>2. \A c \in Chan : \A n \in ToSet(senders[c]) \cup ToSet(recvers[c]) :
          n[1] = r => moved[r] = <<>>
    BY <1>2 DEF MoveOK
  <2> QED BY <2>1, <2>2 DEF Shrink
<1> QED BY <1>1, <1>2, UntakenMoves

\* The messages in ms are committed.
LEMMA MoveStep ==
  ASSUME TypeC, TypeM, MoveInv, op' = op, Shrink, NEW ms \in SUBSET Msg, Commit(ms),
         \A m, n \in ms : m[1] = n[1] => m = n,
         \A m \in ms : m[2] \in DOMAIN op[m[1]].cases /\ ~Decided(m[1]) /\ Ready(m),
         \A r \in Proc : (\A m \in ms : m[1] # r) => Calm(r)
  PROVE  TypeM' /\ MoveInv' /\ KeyKept
<1>1. /\ TypeM'
      /\ \A m \in ms : Taken(m)
      /\ \A p \in Proc : (\A m \in ms : m[1] # p) => Untaken(p)
  BY CommitFacts
<1>2. ASSUME NEW r \in Proc PROVE MoveOK(r)' /\ (key[r] # NoKey => key'[r] = key[r])
  <2>1. CASE \A m \in ms : m[1] # r
    <3>1. Untaken(r) /\ Calm(r) /\ MoveOK(r) /\ op'[r] = op[r]
      BY <1>1, <2>1 DEF MoveInv
    <3> QED BY <3>1, CalmMoves DEF Untaken
  <2>2. ASSUME NEW m \in ms, m[1] = r PROVE MoveOK(r)' /\ (key[r] # NoKey => key'[r] = key[r])
    <3>1. m \in Msg /\ Taken(m) /\ m[2] \in DOMAIN op[m[1]].cases /\ ~Decided(m[1]) /\ MoveOK(m[1])
      BY <1>1, <2>2 DEF MoveInv
    <3>2. Ready(m) /\ op'[m[1]] = op[m[1]]
      OBVIOUS
    <3>3. MoveOK(m[1])'
      BY <3>1, <3>2, TakenMoves DEF Ready
    <3>4. key[r] # NoKey => key'[r] = key[r]
      BY <2>2, <3>1 DEF Decided, Taken
    <3> QED BY <2>2, <3>3, <3>4
  <2> QED BY <2>1, <2>2
<1> QED BY <1>1, <1>2 DEF MoveInv, KeyKept

\* Nothing is committed.
LEMMA StillStep ==
  ASSUME TypeM, MoveInv, UNCHANGED <<op, key, signal, moved>>, Shrink, \A r \in Proc : Calm(r)
  PROVE  TypeM' /\ MoveInv' /\ KeyKept
<1>1. TypeM' /\ KeyKept
  BY DEF TypeM, KeyKept
<1>2. ASSUME NEW r \in Proc PROVE MoveOK(r)'
  <2>1. MoveOK(r) /\ Untaken(r) /\ op'[r] = op[r] /\ Calm(r)
    BY DEF MoveInv, Untaken
  <2> QED BY <2>1, CalmMoves
<1> QED BY <1>1, <1>2 DEF MoveInv

LEMMA KeptLasts ==
  ASSUME op' = op, KeyKept
  PROVE  Lasting
  BY KeysLast DEF KeyKept

\* A message that was linked and is no longer is ready.
LEMMA HeadReady ==
  ASSUME Control, TypeQ, ListInv, MoveInv, Shrink, NEW p \in Proc, Inside(p), NEW c \in Chan,
         NEW h \in Msg, NEW d, Waits(h, d, c),
         h \in ToSet(senders[c]) \cup ToSet(recvers[c]),
         h \notin ToSet(senders'[c]) \cup ToSet(recvers'[c]),
         \A r \in Proc \ {p} : pc'[r] = pc[r]
  PROVE  Ready(h) /\ h[2] \in DOMAIN op[h[1]].cases /\ h[1] \in Proc
<1>1. /\ h[1] \in Proc
      /\ h[2] \in DOMAIN op[h[1]].cases
      /\ ~Multiplex(h[1]) => h[2] = 1 /\ pc[h[1]] \notin {"listen", "refill", "match"}
      /\ \A e, k : Waits(h, e, k) => e = d /\ k = c
  BY WaitsFacts
<1>2. ASSUME ~Multiplex(h[1])
      PROVE  /\ h[2] = 1
             /\ moved[h[1]] = <<>>
             /\ pc'[h[1]] \notin {"listen", "match"}
  <2>1. h[1] # p
    BY <1>1, <1>2 DEF Inside
  <2>2. MoveOK(h[1])
    BY <1>1 DEF MoveInv
  <2>3. moved[h[1]] = <<>>
    BY <1>2, <2>2 DEF MoveOK
  <2> QED BY <1>1, <1>2, <2>1, <2>3
<1>3. ASSUME ~Multiplex(h[1]), NEW k \in Chan, NEW n \in ToSet(senders'[k]) \cup ToSet(recvers'[k]),
             n[1] = h[1]
      PROVE  FALSE
  <2>1. n \in ToSet(senders[k]) \cup ToSet(recvers[k])
    BY DEF Shrink
  <2>2. n \in Msg /\ \E e : Waits(n, e, k)
    BY <2>1, InList DEF ListInv
  <2>3. n[2] = 1 /\ n = <<n[1], n[2]>>
    BY <1>3, <2>2, WaitsFacts
  <2>4. n = h
    <3>1. h = <<h[1], h[2]>>
      BY DEF Msg
    <3> QED BY <1>2, <1>3, <2>3, <3>1
  <2>5. k = c
    BY <1>1, <2>2, <2>4
  <2> QED BY <2>4, <2>5
<1> QED BY <1>1, <1>2, <1>3 DEF Ready

-----------------------------------------------------------------------------
(* Entering a channel.                                                     *)

\* The listener's message exchanges its value with the buffer.
LEMMA EnterTakes ==
  ASSUME IInv, NEW p \in Proc, NEW i \in todo[p], NEW dir, Enter(p, i, dir), ~Decided(p),
         pc' = [pc EXCEPT ![p] = "refill"], Commit({<<p, i>>}),
         UNCHANGED <<op, calls, senders, recvers>>
  PROVE  Control' /\ TypeQ' /\ ListInv' /\ TypeM' /\ MoveInv' /\ KeyKept /\ Shrink
<1>1. Control' /\ Keep /\ i \in DOMAIN op[p].cases /\ pc[p] = "listen" /\ op' = op
  <2>1. Control
    BY DEF IInv
  <2> QED BY <2>1, EnterControl
<1>2. TypeQ' /\ ListInv' /\ Shrink
  BY <1>1, ListsSame DEF IInv
<1> DEFINE m == <<p, i>>
<1>3. m \in Msg /\ m[1] = p /\ m[2] = i
  BY <1>1, OpFacts DEF Msg, IInv, Control
<1>4. Ready(m)
  <2> SUFFICES ASSUME ~Multiplex(p)
               PROVE  /\ i = 1
                      /\ moved[p] = <<>>
                      /\ pc'[p] \notin {"listen", "match"}
                      /\ \A c \in Chan : \A n \in ToSet(senders'[c]) \cup ToSet(recvers'[c]) : n[1] # p
    BY <1>3 DEF Ready
  <2>1. i = 1
    <3>1. DOMAIN op[p].cases = 1..Len(op[p].cases) /\ Len(op[p].cases) \in Nat
      BY OpFacts DEF IInv, Control
    <3>2. Len(op[p].cases) <= 1
      BY DEF IInv, Control, ProcOK
    <3> QED BY <1>1, <3>1, <3>2
  <2>2. moved[p] = <<>>
    BY <1>1 DEF IInv, MoveInv, MoveOK
  <2>3. pc'[p] = "refill"
    BY DEF IInv, Control, TypeC
  <2>4. ASSUME NEW c \in Chan, NEW n \in ToSet(senders'[c]) \cup ToSet(recvers'[c]), n[1] = p
        PROVE  FALSE
    <3>1. n \in Msg /\ \E e : Waits(n, e, c)
      BY <1>2, InList DEF Shrink, ListInv, IInv
    <3> QED BY <1>1, <2>4, <3>1, WaitsFacts DEF IInv
  <2> QED BY <2>1, <2>2, <2>3, <2>4
<1> HIDE DEF m
<1>5. TypeC /\ TypeM /\ MoveInv /\ Commit({m}) /\ {m} \in SUBSET Msg
  BY <1>3 DEF IInv, Control, m
<1>6. \A r \in Proc : (\A n \in {m} : n[1] # r) => Calm(r)
  BY <1>3, <1>5 DEF Calm, TypeC
<1>7. \A n \in {m} : n[2] \in DOMAIN op[n[1]].cases /\ ~Decided(n[1]) /\ Ready(n)
  BY <1>1, <1>3, <1>4
<1>8. \A n, o \in {m} : n[1] = o[1] => n = o
  OBVIOUS
<1>9. TypeM' /\ MoveInv' /\ KeyKept
  BY <1>1, <1>2, <1>5, <1>6, <1>7, <1>8, MoveStep
<1> QED BY <1>1, <1>2, <1>9

\* It does not, and goes on to the linked messages.
LEMMA EnterPasses ==
  ASSUME IInv, NEW p \in Proc, NEW i \in todo[p], NEW dir, Enter(p, i, dir),
         pc' = [pc EXCEPT ![p] = "match"],
         UNCHANGED <<op, calls, senders, recvers, key, signal, moved>>
  PROVE  Control' /\ TypeQ' /\ ListInv' /\ TypeM' /\ MoveInv' /\ KeyKept /\ Shrink
<1>1. Control' /\ Keep /\ pc[p] = "listen" /\ op' = op
  <2>1. Control
    BY DEF IInv
  <2> QED BY <2>1, EnterControl
<1>2. TypeQ' /\ ListInv' /\ Shrink
  BY <1>1, ListsSame DEF IInv
<1>3. TypeM' /\ KeyKept
  BY DEF IInv, TypeM, KeyKept
<1>4. ASSUME NEW r \in Proc PROVE MoveOK(r)'
  <2>1. MoveOK(r) /\ Untaken(r) /\ op'[r] = op[r]
    BY DEF IInv, MoveInv, Untaken
  <2>2. CASE r # p
    <3>1. Calm(r)
      BY <2>2 DEF Calm, IInv, Control, TypeC
    <3> QED BY <1>2, <2>1, <3>1, CalmMoves
  <2>3. CASE r = p
    <3>1. pc'[r] = "match"
      BY <2>3 DEF IInv, Control, TypeC
    <3>2. ~Multiplex(r) => moved[r] = <<>>
      BY <1>1, <2>1, <2>3 DEF MoveOK
    <3> QED BY <2>1, <3>1, <3>2, UntakenMoves
  <2> QED BY <2>2, <2>3
<1> QED BY <1>1, <1>2, <1>3, <1>4 DEF MoveInv

\* p is now in channel c, which was settled.
Entered(p, c, l, dir) ==
  /\ Settled(c) /\ ~(Live(senders[c]) /\ Live(recvers[c]))
  /\ Len(buffer[c]) <= Cap[c] /\ lock'[c] = p
  /\ \A k \in Chan \ {c} : lock'[k] = lock[k]
  /\ pc'[p] = l /\ CurrentCase(p)'.dir = dir
  /\ Others(p) /\ ~Inside(p)

LEMMA EnterFacts ==
  ASSUME IInv, NEW p \in Proc, NEW i \in todo[p], NEW dir, Enter(p, i, dir),
         NEW l \in {"refill", "match"}, pc' = [pc EXCEPT ![p] = l], UNCHANGED <<op, calls>>,
         NEW c \in Chan, c = op[p].cases[i].chan
  PROVE  Entered(p, c, l, dir)
<1>0. Control
  BY DEF IInv
<1>1. /\ lock[c] = Free /\ lock' = [lock EXCEPT ![c] = p]
      /\ pc'[p] = l /\ CurrentCase(p)' = op[p].cases[i] /\ pc[p] = "listen"
  <2>1. CurrentCase(p)' = op[p].cases[i]
    BY <1>0, EnterControl
  <2>2. lock[c] = Free /\ lock' = [lock EXCEPT ![c] = p] /\ pc[p] = "listen"
    BY DEF Enter
  <2>3. pc'[p] = l
    BY <1>0 DEF Control, TypeC
  <2> QED BY <2>1, <2>2, <2>3
<1>2. ChanOK(c)
  BY <1>1 DEF IInv, BufferInv
<1>3. lock'[c] = p /\ \A k \in Chan \ {c} : lock'[k] = lock[k]
  BY <1>0, <1>1 DEF Control, TypeC
<1>4. Others(p)
  BY <1>0 DEF Others, Enter, Control, TypeC
<1>5. op[p].cases[i].dir = dir
  BY DEF Enter
<1> QED BY <1>1, <1>2, <1>3, <1>4, <1>5 DEF ChanOK, Inside, Entered

LEMMA BufferSendToStep ==
  ASSUME IInv, NEW p \in Proc, BufferSendTo(p)
  PROVE  IInv' /\ KeyKept
<1>1. PICK i \in todo[p] :
        /\ Enter(p, i, "recv")
        /\ LET c == op[p].cases[i].chan
           IN  \/ /\ buffer[c] # <<>> /\ ~Decided(p)
                  /\ buffer' = [buffer EXCEPT ![c] = Tail(@)]
                  /\ recvd' = [recvd EXCEPT ![c] = Append(@, Head(buffer[c]))]
                  /\ Commit({<<p, i>>})
                  /\ pc' = [pc EXCEPT ![p] = "refill"]
               \/ /\ buffer[c] = <<>> \/ Decided(p)
                  /\ pc' = [pc EXCEPT ![p] = "match"]
                  /\ UNCHANGED <<buffer, recvd, key, signal, moved>>
        /\ UNCHANGED <<senders, recvers, op, calls, sent>>
  BY Zenon DEF BufferSendTo
<1>a. PICK c \in Chan : c = op[p].cases[i].chan
  BY <1>1, OpFacts DEF IInv, Control, ProcOK
<1>b. Enter(p, i, "recv") /\ UNCHANGED <<op, calls>>
  BY <1>1
<1>2. op' = op /\ calls' = calls /\ senders' = senders /\ recvers' = recvers /\ sent' = sent
  BY <1>1
<1>3. CASE /\ buffer[c] # <<>> /\ ~Decided(p)
           /\ buffer' = [buffer EXCEPT ![c] = Tail(@)]
           /\ recvd' = [recvd EXCEPT ![c] = Append(@, Head(buffer[c]))]
           /\ Commit({<<p, i>>})
           /\ pc' = [pc EXCEPT ![p] = "refill"]
  <2>1. Control' /\ TypeQ' /\ ListInv' /\ TypeM' /\ MoveInv' /\ KeyKept /\ Shrink
    BY <1>b, <1>2, <1>3, EnterTakes
  <2>2. Entered(p, c, "refill", "recv")
    <3>1. pc' = [pc EXCEPT ![p] = "refill"]
      BY <1>3
    <3> QED BY <1>a, <1>b, <3>1, EnterFacts
  <2>3. Control /\ TypeQ /\ ListInv /\ BufferInv /\ TypeB /\ FifoConserved
    BY DEF IInv
  <2>4. /\ TypeB' /\ FifoConserved'
        /\ Len(buffer[c]) = Len(buffer'[c]) + 1
        /\ buffer'[c] \in Seq(Value)
        /\ \A k \in Chan \ {c} : buffer'[k] = buffer[k]
    BY <1>2, <1>3, <2>2, <2>3, BufferGet DEF Entered
  <2>5. Lasting
    BY <1>2, <2>1, KeptLasts
  <2>6. (Live(senders[c])' => Live(senders[c])) /\ (Live(recvers[c])' => Live(recvers[c]))
    BY <2>1, <2>2, <2>3, <2>5, LiveFacts DEF Entered, Shrink
  <2>7. Len(buffer'[c]) \in Nat /\ Cap[c] \in Nat
    BY <2>2, <2>4, LenProperties, ChannelAssumption DEF Entered
  <2>8. ~Live(recvers[c])' /\ Len(buffer'[c]) < Cap[c]
        /\ (Live(senders[c])' => Len(buffer'[c]) + 1 = Cap[c])
    BY <1>3, <2>2, <2>4, <2>6, <2>7 DEF Entered, Settled
  <2>9. Knows(p, c)'
    BY <2>2, <2>8 DEF Entered, Knows
  <2>10. ChanOK(c)'
    BY <2>2, <2>7, <2>8, <2>9, HeldChan DEF Entered
  <2>11. BufferInv'
    BY <1>2, <2>2, <2>3, <2>4, <2>5, <2>10, OtherChans DEF Entered
  <2> QED BY <2>1, <2>4, <2>11 DEF IInv
<1>4. CASE /\ buffer[c] = <<>> \/ Decided(p)
           /\ pc' = [pc EXCEPT ![p] = "match"]
           /\ UNCHANGED <<buffer, recvd, key, signal, moved>>
  <2>1. Control' /\ TypeQ' /\ ListInv' /\ TypeM' /\ MoveInv' /\ KeyKept /\ Shrink
    BY <1>b, <1>2, <1>4, EnterPasses
  <2>2. Entered(p, c, "match", "recv")
    <3>1. pc' = [pc EXCEPT ![p] = "match"]
      BY <1>4
    <3> QED BY <1>a, <1>b, <3>1, EnterFacts
  <2>3. Control /\ TypeQ /\ ListInv /\ BufferInv /\ TypeB /\ FifoConserved
    BY DEF IInv
  <2>4. TypeB' /\ FifoConserved' /\ buffer' = buffer
    BY <1>2, <1>4, <2>3 DEF TypeB, FifoConserved
  <2>5. Lasting
    BY <1>2, <2>1, KeptLasts
  <2>6. (Live(senders[c])' => Live(senders[c])) /\ (Live(recvers[c])' => Live(recvers[c]))
    BY <2>1, <2>2, <2>3, <2>5, LiveFacts DEF Entered, Shrink
  <2>7. Settled(c)'
    BY <2>2, <2>4, <2>6 DEF Entered, Settled
  <2>8. Decided(p) => Decided(p)'
    BY <1>2, <1>4 DEF Decided, Multiplex
  <2>9. Knows(p, c)'
    BY <1>4, <2>2, <2>4, <2>7, <2>8 DEF Entered, Knows
  <2>10. ChanOK(c)'
    BY <2>2, <2>4, <2>6, <2>9, HeldChan DEF Entered
  <2>11. BufferInv'
    BY <1>2, <2>2, <2>3, <2>4, <2>5, <2>10, OtherChans DEF Entered
  <2> QED BY <2>1, <2>4, <2>11 DEF IInv
<1> QED BY <1>1, <1>a, <1>3, <1>4

LEMMA BufferRecvFromStep ==
  ASSUME IInv, NEW p \in Proc, BufferRecvFrom(p)
  PROVE  IInv' /\ KeyKept
<1>1. PICK i \in todo[p] :
        /\ Enter(p, i, "send")
        /\ LET c == op[p].cases[i].chan
           IN  \/ /\ Len(buffer[c]) # Cap[c] /\ ~Decided(p)
                  /\ buffer' = [buffer EXCEPT ![c] = Append(@, ValueOf(<<p, i>>))]
                  /\ sent' = [sent EXCEPT ![c] = Append(@, ValueOf(<<p, i>>))]
                  /\ Commit({<<p, i>>})
                  /\ pc' = [pc EXCEPT ![p] = "refill"]
               \/ /\ Len(buffer[c]) = Cap[c] \/ Decided(p)
                  /\ pc' = [pc EXCEPT ![p] = "match"]
                  /\ UNCHANGED <<buffer, sent, key, signal, moved>>
        /\ UNCHANGED <<senders, recvers, op, calls, recvd>>
  BY Zenon DEF BufferRecvFrom
<1>a. PICK c \in Chan : c = op[p].cases[i].chan
  BY <1>1, OpFacts DEF IInv, Control, ProcOK
<1>b. Enter(p, i, "send") /\ UNCHANGED <<op, calls>>
  BY <1>1
<1>2. op' = op /\ calls' = calls /\ senders' = senders /\ recvers' = recvers /\ recvd' = recvd
  BY <1>1
<1>3. CASE /\ Len(buffer[c]) # Cap[c] /\ ~Decided(p)
           /\ buffer' = [buffer EXCEPT ![c] = Append(@, ValueOf(<<p, i>>))]
           /\ sent' = [sent EXCEPT ![c] = Append(@, ValueOf(<<p, i>>))]
           /\ Commit({<<p, i>>})
           /\ pc' = [pc EXCEPT ![p] = "refill"]
  <2>1. Control' /\ TypeQ' /\ ListInv' /\ TypeM' /\ MoveInv' /\ KeyKept /\ Shrink
    BY <1>b, <1>2, <1>3, EnterTakes
  <2>2. Entered(p, c, "refill", "send")
    <3>1. pc' = [pc EXCEPT ![p] = "refill"]
      BY <1>3
    <3> QED BY <1>a, <1>b, <3>1, EnterFacts
  <2>3. Control /\ TypeQ /\ ListInv /\ BufferInv /\ TypeB /\ FifoConserved
    BY DEF IInv
  <2>4. /\ TypeB' /\ FifoConserved'
        /\ Len(buffer'[c]) = Len(buffer[c]) + 1
        /\ \A k \in Chan \ {c} : buffer'[k] = buffer[k]
    <3>1. <<p, i>> \in Msg
      BY <1>1, OpFacts DEF IInv, Control, ProcOK, Msg
    <3>2. ValueOf(<<p, i>>) \in Value
      BY <2>3, <3>1, ValueFacts DEF Control
    <3> QED BY <1>2, <1>3, <2>3, <3>2, BufferPut
  <2>5. Lasting
    BY <1>2, <2>1, KeptLasts
  <2>6. (Live(senders[c])' => Live(senders[c])) /\ (Live(recvers[c])' => Live(recvers[c]))
    BY <2>1, <2>2, <2>3, <2>5, LiveFacts DEF Entered, Shrink
  <2>7. Len(buffer[c]) \in Nat /\ Cap[c] \in Nat /\ (buffer[c] = <<>> => Len(buffer[c]) = 0)
    <3>1. buffer[c] \in Seq(Value)
      BY <2>3 DEF TypeB
    <3> QED BY <3>1, LenProperties, EmptySeq, ChannelAssumption
  <2>8. ~Live(senders[c])' /\ Len(buffer'[c]) <= Cap[c]
        /\ (Live(recvers[c])' => Len(buffer'[c]) = 1)
    BY <1>3, <2>2, <2>4, <2>6, <2>7 DEF Entered, Settled
  <2>9. Knows(p, c)'
    BY <2>2, <2>8 DEF Entered, Knows
  <2>10. ChanOK(c)'
    BY <2>2, <2>7, <2>8, <2>9, HeldChan DEF Entered
  <2>11. BufferInv'
    BY <1>2, <2>2, <2>3, <2>4, <2>5, <2>10, OtherChans DEF Entered
  <2> QED BY <2>1, <2>4, <2>11 DEF IInv
<1>4. CASE /\ Len(buffer[c]) = Cap[c] \/ Decided(p)
           /\ pc' = [pc EXCEPT ![p] = "match"]
           /\ UNCHANGED <<buffer, sent, key, signal, moved>>
  <2>1. Control' /\ TypeQ' /\ ListInv' /\ TypeM' /\ MoveInv' /\ KeyKept /\ Shrink
    BY <1>b, <1>2, <1>4, EnterPasses
  <2>2. Entered(p, c, "match", "send")
    <3>1. pc' = [pc EXCEPT ![p] = "match"]
      BY <1>4
    <3> QED BY <1>a, <1>b, <3>1, EnterFacts
  <2>3. Control /\ TypeQ /\ ListInv /\ BufferInv /\ TypeB /\ FifoConserved
    BY DEF IInv
  <2>4. TypeB' /\ FifoConserved' /\ buffer' = buffer
    BY <1>2, <1>4, <2>3 DEF TypeB, FifoConserved
  <2>5. Lasting
    BY <1>2, <2>1, KeptLasts
  <2>6. (Live(senders[c])' => Live(senders[c])) /\ (Live(recvers[c])' => Live(recvers[c]))
    BY <2>1, <2>2, <2>3, <2>5, LiveFacts DEF Entered, Shrink
  <2>7. Settled(c)'
    BY <2>2, <2>4, <2>6 DEF Entered, Settled
  <2>8. Decided(p) => Decided(p)'
    BY <1>2, <1>4 DEF Decided, Multiplex
  <2>9. Knows(p, c)'
    BY <1>4, <2>2, <2>4, <2>7, <2>8 DEF Entered, Knows
  <2>10. ChanOK(c)'
    BY <2>2, <2>4, <2>6, <2>9, HeldChan DEF Entered
  <2>11. BufferInv'
    BY <1>2, <2>2, <2>3, <2>4, <2>5, <2>10, OtherChans DEF Entered
  <2> QED BY <2>1, <2>4, <2>11 DEF IInv
<1> QED BY <1>1, <1>a, <1>3, <1>4

-----------------------------------------------------------------------------
(* Inside a channel.                                                       *)

\* p has left channel c.
Left(p, c) ==
  /\ Control' /\ Keep /\ op' = op
  /\ lock'[c] = Free
  /\ \A k \in Chan \ {c} : lock'[k] = lock[k]
  /\ Others(p)
  /\ \A r \in Proc : Calm(r)

LEMMA LeaveFacts ==
  ASSUME IInv, NEW p \in Proc, Inside(p), NEW c \in Chan, c = CurrentCase(p).chan,
         LeaveChannel(p, c) \/ ThrowOut(p, c), UNCHANGED <<op, calls, todo>>
  PROVE  Left(p, c)
<1>1. Control /\ TypeC /\ op[p].kind \in {"plain", "nowait", "select", "default"}
  BY OpFacts DEF IInv, Control
<1>2. CASE LeaveChannel(p, c)
  <2>1. /\ Control' /\ Keep /\ op' = op /\ lock' = [lock EXCEPT ![c] = Free]
        /\ pc' = [pc EXCEPT ![p] = pc'[p]]
        /\ pc'[p] = "drop" => op[p].kind = "nowait"
        /\ pc'[p] \in {"wait", "drop", "check"}
    BY <1>1, <1>2, LeaveControl
  <2>2. \A r \in Proc \ {p} : pc'[r] = pc[r] /\ msgs'[r] = msgs[r]
    BY <1>1, <1>2, <2>1 DEF LeaveChannel, TypeC
  <2>3. Others(p) /\ \A r \in Proc : Calm(r)
    BY <2>1, <2>2 DEF Others, Calm
  <2>4. lock'[c] = Free /\ \A k \in Chan \ {c} : lock'[k] = lock[k]
    BY <1>1, <2>1 DEF TypeC
  <2> QED BY <2>1, <2>3, <2>4 DEF Left
<1>3. CASE ThrowOut(p, c)
  <2>1. /\ Control' /\ Keep /\ op' = op /\ lock' = [lock EXCEPT ![c] = Free]
        /\ pc' = [pc EXCEPT ![p] = "unwind"]
    BY <1>1, <1>3, ThrowControl
  <2>2. Others(p) /\ \A r \in Proc : Calm(r)
    BY <1>1, <1>3, <2>1 DEF ThrowOut, Others, Calm, TypeC
  <2>3. lock'[c] = Free /\ \A k \in Chan \ {c} : lock'[k] = lock[k]
    BY <1>1, <2>1 DEF TypeC
  <2> QED BY <2>1, <2>2, <2>3 DEF Left
<1> QED BY <1>2, <1>3

\* p stays in the channel and looks at the next linked message.
LEMMA StayFacts ==
  ASSUME IInv, NEW p \in Proc, UNCHANGED <<lock, pc, op, calls, todo, msgs>>
  PROVE  Control' /\ Keep /\ Others(p) /\ \A r \in Proc : Calm(r)
<1>1. Control'
  BY DEF IInv, Control, TypeC, ProcOK, LockInv, Multiplex, Inside, CurrentCase
<1> QED BY <1>1 DEF Keep, Waits, Inside, Others, Calm

\* What holds of the channel p is in.
LEMMA HeldFacts ==
  ASSUME IInv, NEW p \in Proc, Inside(p)
  PROVE  \E c \in Chan :
           /\ c = CurrentCase(p).chan
           /\ lock[c] = p /\ Knows(p, c) /\ ~(Live(senders[c]) /\ Live(recvers[c]))
           /\ buffer[c] \in Seq(Value)
           /\ Len(buffer[c]) \in Nat /\ Len(buffer[c]) <= Cap[c] /\ Cap[c] \in Nat
           /\ buffer[c] = <<>> <=> Len(buffer[c]) = 0
<1>1. PICK c \in Chan : c = CurrentCase(p).chan /\ lock[c] = p
  BY InsideFacts DEF IInv
<1>2. ChanOK(c)
  BY DEF IInv, BufferInv
<1>3. buffer[c] \in Seq(Value)
  BY DEF IInv, TypeB
<1>4. Len(buffer[c]) \in Nat /\ (buffer[c] = <<>> <=> Len(buffer[c]) = 0)
  BY <1>3, LenProperties, EmptySeq
<1>5. Cap[c] \in Nat
  BY ChannelAssumption
<1> QED BY <1>1, <1>2, <1>3, <1>4, <1>5 DEF ChanOK

\* An empty list has no live message.
LEMMA EmptyDead == \A q : q = <<>> => ~Live(q)
  BY DEF Live, ToSet

LEMMA RefillFromSendersStep ==
  ASSUME IInv, NEW p \in Proc, RefillFromSenders(p)
  PROVE  IInv' /\ KeyKept
<1>1. pc[p] = "refill" /\ CurrentCase(p).dir = "recv" /\ Inside(p)
  BY DEF RefillFromSenders, Inside
<1>2. PICK c \in Chan :
        /\ c = CurrentCase(p).chan
        /\ lock[c] = p /\ Knows(p, c) /\ ~(Live(senders[c]) /\ Live(recvers[c]))
        /\ buffer[c] \in Seq(Value)
        /\ Len(buffer[c]) \in Nat /\ Len(buffer[c]) <= Cap[c] /\ Cap[c] \in Nat
        /\ buffer[c] = <<>> <=> Len(buffer[c]) = 0
  BY <1>1, HeldFacts
<1>3. /\ ~Live(recvers[c]) /\ Len(buffer[c]) < Cap[c]
      /\ Live(senders[c]) => Len(buffer[c]) + 1 = Cap[c]
  BY <1>1, <1>2 DEF Knows
<1>4. UNCHANGED <<op, calls, todo>> /\ recvers' = recvers /\ recvd' = recvd /\ op' = op
  BY DEF RefillFromSenders
<1>5. Control /\ TypeC /\ TypeQ /\ ListInv /\ TypeM /\ MoveInv /\ BufferInv /\ TypeB /\ FifoConserved
  BY DEF IInv, Control
<1>6. CASE /\ senders[c] = <<>>
           /\ LeaveChannel(p, c)
           /\ UNCHANGED <<buffer, senders, key, signal, moved, sent>>
  <2>1. Left(p, c)
    BY <1>1, <1>2, <1>4, <1>6, LeaveFacts
  <2>2. TypeQ' /\ ListInv' /\ Shrink
    BY <1>4, <1>5, <1>6, <2>1, ListsSame DEF Left
  <2>3. TypeM' /\ MoveInv' /\ KeyKept
    BY <1>4, <1>5, <1>6, <2>1, <2>2, StillStep DEF Left
  <2>4. Lasting
    BY <1>4, <2>3, KeptLasts
  <2>5. ~Live(senders[c])' /\ ~Live(recvers[c])'
    BY <1>3, <1>5, <1>6, <2>2, <2>4, LiveFacts, EmptyDead DEF Shrink
  <2>6. ChanOK(c)'
    BY <1>2, <1>6, <2>1, <2>5, LeftChan DEF Left
  <2>7. BufferInv'
    BY <1>2, <1>4, <1>5, <1>6, <2>1, <2>4, <2>6, OtherChans DEF Left
  <2>8. TypeB' /\ FifoConserved'
    BY <1>4, <1>5, <1>6 DEF TypeB, FifoConserved
  <2> QED BY <2>1, <2>2, <2>3, <2>7, <2>8 DEF IInv, Left
<1>7. ASSUME senders[c] # <<>>, senders' = [senders EXCEPT ![c] = Tail(@)],
             Len(buffer[c]) # Cap[c], NEW h, h = Head(senders[c]), ~Decided(h[1]),
             buffer' = [buffer EXCEPT ![c] = Append(@, ValueOf(h))],
             sent' = [sent EXCEPT ![c] = Append(@, ValueOf(h))],
             Commit({h}), LeaveChannel(p, c)
      PROVE  IInv' /\ KeyKept
  <2>1. Left(p, c)
    BY <1>1, <1>2, <1>4, <1>7, LeaveFacts
  <2>2. h \in Msg /\ h \in ToSet(senders[c]) /\ Waits(h, "send", c)
    BY <1>5, <1>7, HeadFacts
  <2>3. /\ TypeQ' /\ ListInv' /\ Shrink
        /\ \A k \in Chan : k # c => senders'[k] = senders[k]
        /\ h \notin ToSet(senders'[c])
    BY <1>4, <1>5, <1>7, <2>1, SendersPop DEF Left
  <2>4. h \notin ToSet(recvers'[c])
    <3> SUFFICES ASSUME h \in ToSet(recvers[c]) PROVE FALSE
      BY <1>4
    <3>1. Waits(h, "recv", c)
      BY <1>5 DEF ListInv
    <3> QED BY <1>5, <2>2, <3>1, WaitsFacts
  <2>5. Ready(h) /\ h[2] \in DOMAIN op[h[1]].cases /\ h[1] \in Proc
    BY <1>1, <1>5, <2>1, <2>2, <2>3, <2>4, HeadReady DEF Left, Others
  <2>6. TypeM' /\ MoveInv' /\ KeyKept
    <3>1. {h} \in SUBSET Msg
      BY <2>2
    <3>2. \A m \in {h} : m[2] \in DOMAIN op[m[1]].cases /\ ~Decided(m[1]) /\ Ready(m)
      BY <1>7, <2>5
    <3>3. \A m, n \in {h} : m[1] = n[1] => m = n
      OBVIOUS
    <3>4. \A r \in Proc : (\A m \in {h} : m[1] # r) => Calm(r)
      BY <2>1 DEF Left
    <3> QED BY <1>4, <1>5, <1>7, <2>3, <3>1, <3>2, <3>3, <3>4, MoveStep
  <2>7. /\ TypeB' /\ FifoConserved'
        /\ Len(buffer'[c]) = Len(buffer[c]) + 1
        /\ \A k \in Chan \ {c} : buffer'[k] = buffer[k]
    <3>1. ValueOf(h) \in Value
      BY <1>5, <2>2, ValueFacts
    <3> QED BY <1>4, <1>5, <1>7, <3>1, BufferPut
  <2>8. Lasting
    BY <1>4, <2>6, KeptLasts
  <2>9. ~Live(recvers[c])' /\ Len(buffer'[c]) = Cap[c]
    <3>1. Live(senders[c])
      BY <1>7, <2>2 DEF Live
    <3>2. ~Live(recvers[c])'
      BY <1>3, <1>5, <2>3, <2>8, LiveFacts DEF Shrink
    <3> QED BY <1>3, <2>7, <3>1, <3>2
  <2>10. ChanOK(c)'
    BY <1>2, <2>1, <2>9, LeftChan DEF Left
  <2>11. BufferInv'
    BY <1>2, <1>4, <1>5, <2>1, <2>3, <2>7, <2>8, <2>10, OtherChans DEF Left
  <2> QED BY <2>1, <2>3, <2>6, <2>7, <2>11 DEF IInv, Left
<1>8. ASSUME senders[c] # <<>>, senders' = [senders EXCEPT ![c] = Tail(@)],
             UNCHANGED <<lock, buffer, pc, msgs, key, signal, moved, sent>>
      PROVE  IInv' /\ KeyKept
  <2>1. Control' /\ Keep /\ Others(p) /\ \A r \in Proc : Calm(r)
    BY <1>4, <1>8, StayFacts
  <2>2. /\ TypeQ' /\ ListInv' /\ Shrink
        /\ \A k \in Chan : k # c => senders'[k] = senders[k]
    BY <1>4, <1>5, <1>8, <2>1, SendersPop
  <2>3. TypeM' /\ MoveInv' /\ KeyKept
    BY <1>4, <1>5, <1>8, <2>1, <2>2, StillStep
  <2>4. Lasting
    BY <1>4, <2>3, KeptLasts
  <2>5. (Live(senders[c])' => Live(senders[c])) /\ ~Live(recvers[c])'
    BY <1>3, <1>5, <2>2, <2>4, LiveFacts DEF Shrink
  <2>6. Knows(p, c)'
    BY <1>1, <1>3, <1>4, <1>8, <2>5 DEF Knows, CurrentCase
  <2>7. ChanOK(c)'
    BY <1>2, <1>8, <2>5, <2>6, HeldChan
  <2>8. BufferInv'
    BY <1>2, <1>4, <1>5, <1>8, <2>1, <2>2, <2>4, <2>7, OtherChans
  <2>9. TypeB' /\ FifoConserved'
    BY <1>4, <1>5, <1>8 DEF TypeB, FifoConserved
  <2> QED BY <2>1, <2>2, <2>3, <2>8, <2>9 DEF IInv
<1> QED BY <1>2, <1>6, <1>7, <1>8 DEF RefillFromSenders

LEMMA RefillToRecversStep ==
  ASSUME IInv, NEW p \in Proc, RefillToRecvers(p)
  PROVE  IInv' /\ KeyKept
<1>1. pc[p] = "refill" /\ CurrentCase(p).dir = "send" /\ Inside(p)
  BY DEF RefillToRecvers, Inside
<1>2. PICK c \in Chan :
        /\ c = CurrentCase(p).chan
        /\ lock[c] = p /\ Knows(p, c) /\ ~(Live(recvers[c]) /\ Live(senders[c]))
        /\ buffer[c] \in Seq(Value)
        /\ Len(buffer[c]) \in Nat /\ Len(buffer[c]) <= Cap[c] /\ Cap[c] \in Nat
        /\ buffer[c] = <<>> <=> Len(buffer[c]) = 0
  BY <1>1, HeldFacts
<1>3. ~Live(senders[c]) /\ (Live(recvers[c]) => Len(buffer[c]) = 1)
  BY <1>1, <1>2 DEF Knows
<1>4. UNCHANGED <<op, calls, todo>> /\ senders' = senders /\ sent' = sent /\ op' = op
  BY DEF RefillToRecvers
<1>5. Control /\ TypeC /\ TypeQ /\ ListInv /\ TypeM /\ MoveInv /\ BufferInv /\ TypeB /\ FifoConserved
  BY DEF IInv, Control
<1>6. CASE /\ recvers[c] = <<>>
           /\ LeaveChannel(p, c)
           /\ UNCHANGED <<buffer, recvers, key, signal, moved, recvd>>
  <2>1. Left(p, c)
    BY <1>1, <1>2, <1>4, <1>6, LeaveFacts
  <2>2. TypeQ' /\ ListInv' /\ Shrink
    BY <1>4, <1>5, <1>6, <2>1, ListsSame DEF Left
  <2>3. TypeM' /\ MoveInv' /\ KeyKept
    BY <1>4, <1>5, <1>6, <2>1, <2>2, StillStep DEF Left
  <2>4. Lasting
    BY <1>4, <2>3, KeptLasts
  <2>5. ~Live(recvers[c])' /\ ~Live(senders[c])'
    BY <1>3, <1>5, <1>6, <2>2, <2>4, LiveFacts, EmptyDead DEF Shrink
  <2>6. ChanOK(c)'
    BY <1>2, <1>6, <2>1, <2>5, LeftChan DEF Left
  <2>7. BufferInv'
    BY <1>2, <1>4, <1>5, <1>6, <2>1, <2>4, <2>6, OtherChans DEF Left
  <2>8. TypeB' /\ FifoConserved'
    BY <1>4, <1>5, <1>6 DEF TypeB, FifoConserved
  <2> QED BY <2>1, <2>2, <2>3, <2>7, <2>8 DEF IInv, Left
<1>7. ASSUME recvers[c] # <<>>, recvers' = [recvers EXCEPT ![c] = Tail(@)],
             buffer[c] # <<>>, NEW h, h = Head(recvers[c]), ~Decided(h[1]),
             buffer' = [buffer EXCEPT ![c] = Tail(@)],
             recvd' = [recvd EXCEPT ![c] = Append(@, Head(buffer[c]))],
             Commit({h}), LeaveChannel(p, c)
      PROVE  IInv' /\ KeyKept
  <2>1. Left(p, c)
    BY <1>1, <1>2, <1>4, <1>7, LeaveFacts
  <2>2. h \in Msg /\ h \in ToSet(recvers[c]) /\ Waits(h, "recv", c)
    BY <1>5, <1>7, HeadFacts
  <2>3. /\ TypeQ' /\ ListInv' /\ Shrink
        /\ \A k \in Chan : k # c => recvers'[k] = recvers[k]
        /\ h \notin ToSet(recvers'[c])
    BY <1>4, <1>5, <1>7, <2>1, RecversPop DEF Left
  <2>4. h \notin ToSet(senders'[c])
    <3> SUFFICES ASSUME h \in ToSet(senders[c]) PROVE FALSE
      BY <1>4
    <3>1. Waits(h, "send", c)
      BY <1>5 DEF ListInv
    <3> QED BY <1>5, <2>2, <3>1, WaitsFacts
  <2>5. Ready(h) /\ h[2] \in DOMAIN op[h[1]].cases /\ h[1] \in Proc
    BY <1>1, <1>5, <2>1, <2>2, <2>3, <2>4, HeadReady DEF Left, Others
  <2>6. TypeM' /\ MoveInv' /\ KeyKept
    <3>1. {h} \in SUBSET Msg
      BY <2>2
    <3>2. \A m \in {h} : m[2] \in DOMAIN op[m[1]].cases /\ ~Decided(m[1]) /\ Ready(m)
      BY <1>7, <2>5
    <3>3. \A m, n \in {h} : m[1] = n[1] => m = n
      OBVIOUS
    <3>4. \A r \in Proc : (\A m \in {h} : m[1] # r) => Calm(r)
      BY <2>1 DEF Left
    <3> QED BY <1>4, <1>5, <1>7, <2>3, <3>1, <3>2, <3>3, <3>4, MoveStep
  <2>7. /\ TypeB' /\ FifoConserved'
        /\ Len(buffer[c]) = Len(buffer'[c]) + 1
        /\ buffer'[c] \in Seq(Value)
        /\ \A k \in Chan \ {c} : buffer'[k] = buffer[k]
    BY <1>4, <1>5, <1>7, BufferGet
  <2>8. Lasting
    BY <1>4, <2>6, KeptLasts
  <2>9. ~Live(senders[c])' /\ buffer'[c] = <<>> /\ Len(buffer'[c]) <= Cap[c]
    <3>1. Live(recvers[c])
      BY <1>7, <2>2 DEF Live
    <3>2. ~Live(senders[c])'
      BY <1>3, <1>5, <2>3, <2>8, LiveFacts DEF Shrink
    <3>3. Len(buffer'[c]) \in Nat /\ (buffer'[c] = <<>> <=> Len(buffer'[c]) = 0)
      BY <2>7, LenProperties, EmptySeq
    <3>4. Len(buffer'[c]) = 0
      BY <1>3, <2>7, <3>1, <3>3
    <3> QED BY <1>2, <3>2, <3>3, <3>4
  <2>10. ChanOK(c)'
    BY <1>2, <2>1, <2>9, LeftChan DEF Left
  <2>11. BufferInv'
    BY <1>2, <1>4, <1>5, <2>1, <2>3, <2>7, <2>8, <2>10, OtherChans DEF Left
  <2> QED BY <2>1, <2>3, <2>6, <2>7, <2>11 DEF IInv, Left
<1>8. ASSUME recvers[c] # <<>>, recvers' = [recvers EXCEPT ![c] = Tail(@)],
             UNCHANGED <<lock, buffer, pc, msgs, key, signal, moved, recvd>>
      PROVE  IInv' /\ KeyKept
  <2>1. Control' /\ Keep /\ Others(p) /\ \A r \in Proc : Calm(r)
    BY <1>4, <1>8, StayFacts
  <2>2. /\ TypeQ' /\ ListInv' /\ Shrink
        /\ \A k \in Chan : k # c => recvers'[k] = recvers[k]
    BY <1>4, <1>5, <1>8, <2>1, RecversPop
  <2>3. TypeM' /\ MoveInv' /\ KeyKept
    BY <1>4, <1>5, <1>8, <2>1, <2>2, StillStep
  <2>4. Lasting
    BY <1>4, <2>3, KeptLasts
  <2>5. (Live(recvers[c])' => Live(recvers[c])) /\ ~Live(senders[c])'
    BY <1>3, <1>5, <2>2, <2>4, LiveFacts DEF Shrink
  <2>6. Knows(p, c)'
    BY <1>1, <1>3, <1>4, <1>8, <2>5 DEF Knows, CurrentCase
  <2>7. ChanOK(c)'
    BY <1>2, <1>8, <2>5, <2>6, HeldChan
  <2>8. BufferInv'
    BY <1>2, <1>4, <1>5, <1>8, <2>1, <2>2, <2>4, <2>7, OtherChans
  <2>9. TypeB' /\ FifoConserved'
    BY <1>4, <1>5, <1>8 DEF TypeB, FifoConserved
  <2> QED BY <2>1, <2>2, <2>3, <2>8, <2>9 DEF IInv
<1> QED BY <1>2, <1>6, <1>7, <1>8 DEF RefillToRecvers

-----------------------------------------------------------------------------
(* Linking a message, and handing a value over.                            *)

\* The message m of p is linked in its channel: the list q becomes r.
LEMMA LinkMessage ==
  ASSUME NEW q, ListsOK(q), NEW c \in Chan, NEW m \in Msg, m \notin ToSet(q[c])
  PROVE  LET r == [q EXCEPT ![c] = Append(@, m)]
         IN  /\ ListsOK(r)
             /\ ToSet(r[c]) = ToSet(q[c]) \cup {m}
             /\ \A k \in Chan \ {c} : r[k] = q[k]
<1> DEFINE r == [q EXCEPT ![c] = Append(@, m)]
<1>1. ListsOK(r) /\ \A k \in Chan : ToSet(r[k]) =
        IF k = c THEN ToSet(q[k]) \cup {m} ELSE ToSet(q[k])
  BY LinkFacts
<1>2. q \in [Chan -> Seq(Msg)]
  BY DEF ListsOK
<1>3. \A k \in Chan \ {c} : r[k] = q[k]
  BY <1>2
<1> HIDE DEF r
<1>4. ToSet(r[c]) = ToSet(q[c]) \cup {m}
  BY <1>1
<1> QED BY <1>1, <1>3, <1>4 DEF r

\* The message that p has inside channel c is in neither list, and waits once p has left.
LEMMA CurrentWaits ==
  ASSUME IInv, NEW p \in Proc, Inside(p), NEW c \in Chan, c = CurrentCase(p).chan,
         LeaveChannel(p, c), op' = op, op[p].kind # "nowait", NEW m, m = Current(p)
  PROVE  /\ m \in Msg /\ m[1] = p
         /\ m \notin ToSet(senders[c]) \cup ToSet(recvers[c])
         /\ Waits(m, CurrentCase(p).dir, c)'
<1>1. /\ Last(msgs[p]) \in ToSet(msgs[p])
      /\ m \in Msg
      /\ CurrentCase(p) = [dir |-> CurrentCase(p).dir, chan |-> c]
  BY InsideFacts DEF IInv
<1>2. m[1] = p /\ m[2] = Last(msgs[p])
  BY DEF Current
<1>3. \A d : ~Waits(m, d, c)
  BY <1>2 DEF Waits
<1>4. msgs'[p] = msgs[p] /\ ~Inside(p)'
  <2>1. pc'[p] \in {"wait", "drop", "check"}
    BY DEF LeaveChannel, IInv, Control, TypeC
  <2> QED BY <2>1 DEF LeaveChannel, Inside
<1>5. CurrentCase(p)' = CurrentCase(p)
  BY <1>4 DEF CurrentCase
<1>6. op'[p].cases[m[2]] = [dir |-> CurrentCase(p).dir, chan |-> c]
  BY <1>1, <1>2 DEF CurrentCase
<1>7. Waits(m, CurrentCase(p).dir, c)'
  BY <1>1, <1>2, <1>4, <1>5, <1>6 DEF Waits
<1> QED BY <1>1, <1>2, <1>3, <1>7 DEF ListInv, IInv

LEMMA LinkMoves ==
  ASSUME TypeM, MoveInv, UNCHANGED <<op, key, signal, moved>>, NEW p \in Proc, pc[p] = "match",
         \A r \in Proc : Calm(r),
         \A k \in Chan : \A n \in ToSet(senders'[k]) \cup ToSet(recvers'[k]) :
           n \in ToSet(senders[k]) \cup ToSet(recvers[k]) \/ n[1] = p
  PROVE  TypeM' /\ MoveInv' /\ KeyKept
<1>1. TypeM' /\ KeyKept
  BY DEF TypeM, KeyKept
<1>2. ASSUME NEW r \in Proc PROVE MoveOK(r)'
  <2>1. MoveOK(r) /\ Untaken(r) /\ op'[r] = op[r] /\ Calm(r)
    BY DEF MoveInv, Untaken
  <2>2. pc'[r] = "drop" => pc[r] = "drop" \/ op[r].kind = "nowait"
    BY <2>1 DEF Calm
  <2>3. ASSUME ~Multiplex(r)
        PROVE  /\ pc'[r] \in {"listen", "match"} => moved[r] = <<>>
               /\ \A k \in Chan : \A n \in ToSet(senders'[k]) \cup ToSet(recvers'[k]) :
                    n[1] = r => moved[r] = <<>>
    <3>1. pc'[r] \in {"listen", "match"} => moved[r] = <<>>
      BY <2>1, <2>3 DEF MoveOK, Calm
    <3>2. \A k \in Chan : \A n \in ToSet(senders[k]) \cup ToSet(recvers[k]) :
            n[1] = r => moved[r] = <<>>
      BY <2>1, <2>3 DEF MoveOK
    <3>3. r = p => moved[r] = <<>>
      BY <2>1, <2>3 DEF MoveOK
    <3> QED BY <3>1, <3>2, <3>3
  <2> QED BY <2>1, <2>2, <2>3, UntakenMoves
<1> QED BY <1>1, <1>2 DEF MoveInv

\* p leaves the channel without a transfer and without a link.
LEMMA LeaveStep ==
  ASSUME IInv, NEW p \in Proc, pc[p] = "match", NEW c \in Chan, c = CurrentCase(p).chan,
         Settled(c), LeaveChannel(p, c) \/ ThrowOut(p, c),
         UNCHANGED <<op, calls, todo, buffer, senders, recvers, key, signal, moved, sent, recvd>>
  PROVE  IInv' /\ KeyKept
<1>1. Control /\ TypeQ /\ ListInv /\ TypeM /\ MoveInv /\ BufferInv /\ TypeB /\ FifoConserved /\ Inside(p)
  BY DEF IInv, Inside
<1>2. Left(p, c)
  BY <1>1, LeaveFacts
<1>3. TypeQ' /\ ListInv' /\ Shrink
  BY <1>1, <1>2, ListsSame DEF Left
<1>4. TypeM' /\ MoveInv' /\ KeyKept
  BY <1>1, <1>2, <1>3, StillStep DEF Left
<1>5. Lasting
  BY <1>4, KeptLasts
<1>6. (Live(senders[c])' => Live(senders[c])) /\ (Live(recvers[c])' => Live(recvers[c]))
  BY <1>1, <1>3, <1>5, LiveFacts DEF Shrink
<1>7. ChanOK(c)
  BY <1>1 DEF BufferInv
<1>8. ChanOK(c)'
  BY <1>2, <1>6, <1>7, LeftChan DEF Left, ChanOK, Settled
<1>9. BufferInv'
  BY <1>1, <1>2, <1>5, <1>8, OtherChans DEF Left
<1>10. TypeB' /\ FifoConserved'
  BY <1>1 DEF TypeB, FifoConserved
<1> QED BY <1>2, <1>3, <1>4, <1>9, <1>10 DEF IInv, Left

\* What the status of a transfer says.
LEMMA StatusFacts ==
  ASSUME NEW s, NEW d, TransferStatus(s, d) = "Ok"
  PROVE  ~Decided(s[1]) /\ ~Decided(d[1]) /\ (Multiplex(s[1]) /\ Multiplex(d[1]) => s[1] # d[1])
<1>1. CASE Multiplex(s[1]) /\ Multiplex(d[1])
  BY <1>1 DEF TransferStatus
<1>2. CASE ~(Multiplex(s[1]) /\ Multiplex(d[1]))
  BY <1>2 DEF TransferStatus
<1> QED BY <1>1, <1>2

\* The two messages of a hand-over belong to different processes.
LEMMA TwoProcesses ==
  ASSUME Control, NEW p \in Proc, Inside(p), NEW h \in Msg, NEW d, NEW c, Waits(h, d, c),
         Multiplex(h[1]) /\ Multiplex(p) => h[1] # p
  PROVE  h[1] # p
<1>1. ~Multiplex(h[1]) => pc[h[1]] \notin {"listen", "refill", "match"}
  BY WaitsFacts
<1> QED BY <1>1 DEF Inside

\* The current message of a process that is matching is ready, once the process leaves.
LEMMA CurrentReady ==
  ASSUME IInv, NEW p \in Proc, pc[p] = "match", NEW m, m = Current(p), Shrink,
         pc'[p] \notin {"listen", "match"}
  PROVE  Ready(m) /\ m \in Msg /\ m[1] = p /\ m[2] \in DOMAIN op[p].cases
<1>1. Inside(p) /\ Control
  BY DEF Inside, IInv
<1>2. m \in Msg /\ m[1] = p /\ m[2] \in DOMAIN op[p].cases
  BY <1>1, InsideFacts DEF Current
<1>3. ASSUME ~Multiplex(p)
      PROVE  /\ m[2] = 1
             /\ moved[p] = <<>>
             /\ \A c \in Chan : \A n \in ToSet(senders'[c]) \cup ToSet(recvers'[c]) : n[1] # p
  <2>1. m[2] = 1
    <3>1. DOMAIN op[p].cases = 1..Len(op[p].cases) /\ Len(op[p].cases) \in Nat
      BY OpFacts DEF IInv, Control
    <3>2. Len(op[p].cases) <= 1
      BY <1>3 DEF IInv, Control, ProcOK
    <3> QED BY <1>2, <3>1, <3>2
  <2>2. moved[p] = <<>>
    BY <1>3 DEF IInv, MoveInv, MoveOK
  <2>3. ASSUME NEW c \in Chan, NEW n \in ToSet(senders'[c]) \cup ToSet(recvers'[c]), n[1] = p
        PROVE  FALSE
    <3>1. n \in Msg /\ \E e : Waits(n, e, c)
      BY InList DEF Shrink, ListInv, IInv
    <3> QED BY <1>1, <1>3, <2>3, <3>1, WaitsFacts
  <2> QED BY <2>1, <2>2, <2>3
<1> QED BY <1>2, <1>3 DEF Ready

LEMMA MatchSenderStep ==
  ASSUME IInv, NEW p \in Proc, MatchSender(p)
  PROVE  IInv' /\ KeyKept
<1>1. pc[p] = "match" /\ CurrentCase(p).dir = "recv" /\ Inside(p)
  BY DEF MatchSender, Inside
<1>2. PICK c \in Chan :
        /\ c = CurrentCase(p).chan
        /\ lock[c] = p /\ Knows(p, c) /\ ~(Live(senders[c]) /\ Live(recvers[c]))
        /\ buffer[c] \in Seq(Value)
        /\ Len(buffer[c]) \in Nat /\ Len(buffer[c]) <= Cap[c] /\ Cap[c] \in Nat
        /\ buffer[c] = <<>> <=> Len(buffer[c]) = 0
  BY <1>1, HeldFacts
<1>3. Settled(c) /\ (buffer[c] = <<>> \/ Decided(p))
  BY <1>1, <1>2 DEF Knows
<1>4. UNCHANGED <<op, calls, todo>> /\ buffer' = buffer /\ op' = op
  BY DEF MatchSender
<1>5. Control /\ TypeC /\ TypeQ /\ ListInv /\ TypeM /\ MoveInv /\ BufferInv /\ TypeB /\ FifoConserved
  BY DEF IInv, Control
<1>6. ASSUME senders[c] = <<>>, LeaveChannel(p, c), op[p].kind # "nowait",
             NEW m, m = Current(p), recvers' = [recvers EXCEPT ![c] = Append(@, m)],
             UNCHANGED <<senders, key, signal, histVars>>
      PROVE  IInv' /\ KeyKept
  <2>1. Left(p, c)
    BY <1>1, <1>2, <1>4, <1>6, LeaveFacts
  <2>2. /\ m \in Msg /\ m[1] = p /\ m \notin ToSet(recvers[c])
        /\ Waits(m, CurrentCase(p).dir, c)' /\ CurrentCase(p)' = CurrentCase(p)
    <3>1. CurrentCase(p)' = CurrentCase(p)
      BY <1>4, <1>6 DEF LeaveChannel, CurrentCase
    <3> QED BY <1>1, <1>2, <1>4, <1>6, <3>1, CurrentWaits
  <2>3. ListsOK(senders) /\ ListsOK(recvers)
    BY <1>5, InList
  <2>4. /\ ListsOK(recvers')
        /\ ToSet(recvers'[c]) = ToSet(recvers[c]) \cup {m}
        /\ \A k \in Chan \ {c} : recvers'[k] = recvers[k]
    <3>1. LET r == [recvers EXCEPT ![c] = Append(@, m)]
          IN  /\ ListsOK(r)
              /\ ToSet(r[c]) = ToSet(recvers[c]) \cup {m}
              /\ \A k \in Chan \ {c} : r[k] = recvers[k]
      BY <2>2, <2>3, LinkMessage
    <3> QED BY <1>6, <3>1
  <2>5. senders' = senders /\ UNCHANGED <<op, key, signal, moved>> /\ sent' = sent /\ recvd' = recvd
    BY <1>4, <1>6 DEF histVars
  <2>6. TypeQ' /\ ListInv'
    <3>1. TypeQ'
      BY <2>3, <2>4, <2>5 DEF TypeQ, ListsOK
    <3>2. ASSUME NEW k \in Chan
          PROVE  /\ Distinct(senders'[k]) /\ \A n \in ToSet(senders'[k]) : Waits(n, "send", k)'
                 /\ Distinct(recvers'[k]) /\ \A n \in ToSet(recvers'[k]) : Waits(n, "recv", k)'
      <4>1. Distinct(senders'[k]) /\ Distinct(recvers'[k])
        BY <2>3, <2>4, <2>5 DEF ListsOK
      <4>2. \A n \in ToSet(senders[k]) \cup ToSet(recvers[k]) : n \in Msg
        BY <1>5, InList
      <4>3. \A n \in ToSet(senders'[k]) : Waits(n, "send", k)'
        BY <1>5, <2>1, <2>5, <4>2 DEF ListInv, Left, Keep
      <4>4. \A n \in ToSet(recvers[k]) : Waits(n, "recv", k)'
        BY <1>5, <2>1, <4>2 DEF ListInv, Left, Keep
      <4>5. Waits(m, "recv", c)'
        BY <1>1, <2>2
      <4>6. \A n \in ToSet(recvers'[k]) : Waits(n, "recv", k)'
        BY <2>4, <4>4, <4>5
      <4> QED BY <4>1, <4>3, <4>6
    <3> QED BY <3>1, <3>2 DEF ListInv
  <2>7. TypeM' /\ MoveInv' /\ KeyKept
    <3>1. \A k \in Chan : \A n \in ToSet(senders'[k]) \cup ToSet(recvers'[k]) :
            n \in ToSet(senders[k]) \cup ToSet(recvers[k]) \/ n[1] = p
      BY <2>2, <2>4, <2>5
    <3> QED BY <1>1, <1>5, <2>1, <2>5, <3>1, LinkMoves DEF Left
  <2>8. Lasting
    BY <1>4, <2>7, KeptLasts
  <2>9. ~Live(senders[c])'
    BY <1>6, <2>5 DEF Live, ToSet
  <2>10. Live(recvers[c])' => buffer'[c] = <<>>
    <3> SUFFICES ASSUME NEW n \in ToSet(recvers'[c]), ~Decided(n[1])' PROVE buffer[c] = <<>>
      BY <1>4 DEF Live
    <3>1. Decided(n[1])' <=> Decided(n[1])
      BY <2>5 DEF Decided, Multiplex
    <3>2. CASE n = m
      BY <1>3, <2>2, <3>1, <3>2
    <3>3. CASE n # m
      BY <1>3, <2>4, <3>1, <3>3 DEF Settled, Live
    <3> QED BY <3>2, <3>3
  <2>11. ChanOK(c)'
    BY <1>2, <1>4, <2>1, <2>9, <2>10, LeftChan DEF Left
  <2>12. BufferInv'
    BY <1>2, <1>4, <1>5, <2>1, <2>4, <2>5, <2>8, <2>11, OtherChans DEF Left
  <2>13. TypeB' /\ FifoConserved'
    BY <1>4, <1>5, <2>5 DEF TypeB, FifoConserved
  <2> QED BY <2>1, <2>6, <2>7, <2>12, <2>13 DEF IInv, Left
<1>7. ASSUME senders[c] # <<>>, NEW h, h = Head(senders[c]), NEW m, m = Current(p),
             TransferStatus(h, m) = "Ok", senders' = [senders EXCEPT ![c] = Tail(@)],
             Handover(h, m, c), LeaveChannel(p, c), recvers' = recvers
      PROVE  IInv' /\ KeyKept
  <2>1. Left(p, c)
    BY <1>1, <1>2, <1>4, <1>7, LeaveFacts
  <2>2. h \in Msg /\ h \in ToSet(senders[c]) /\ Waits(h, "send", c)
    BY <1>5, <1>7, HeadFacts
  <2>3. /\ TypeQ' /\ ListInv' /\ Shrink
        /\ \A k \in Chan : k # c => senders'[k] = senders[k]
        /\ h \notin ToSet(senders'[c])
    BY <1>5, <1>7, <2>1, SendersPop DEF Left
  <2>4. h \notin ToSet(recvers'[c])
    <3> SUFFICES ASSUME h \in ToSet(recvers[c]) PROVE FALSE
      BY <1>7
    <3>1. Waits(h, "recv", c)
      BY <1>5 DEF ListInv
    <3> QED BY <1>5, <2>2, <3>1, WaitsFacts
  <2>5. Ready(h) /\ h[2] \in DOMAIN op[h[1]].cases /\ h[1] \in Proc
    BY <1>1, <1>5, <2>1, <2>2, <2>3, <2>4, HeadReady DEF Left, Others
  <2>6. pc'[p] \notin {"listen", "match"}
    BY <1>7, <1>5 DEF LeaveChannel, TypeC
  <2>7. Ready(m) /\ m \in Msg /\ m[1] = p /\ m[2] \in DOMAIN op[p].cases
    BY <1>1, <1>7, <2>3, <2>6, CurrentReady
  <2>8. ~Decided(h[1]) /\ ~Decided(p) /\ h[1] # p
    BY <1>1, <1>5, <1>7, <2>2, <2>7, StatusFacts, TwoProcesses
  <2>9. TypeM' /\ MoveInv' /\ KeyKept
    <3>1. {h, m} \in SUBSET Msg /\ Commit({h, m})
      BY <1>7, <2>2, <2>7 DEF Handover
    <3>2. \A n \in {h, m} : n[2] \in DOMAIN op[n[1]].cases /\ ~Decided(n[1]) /\ Ready(n)
      BY <2>5, <2>7, <2>8
    <3>3. \A n, o \in {h, m} : n[1] = o[1] => n = o
      BY <2>7, <2>8
    <3>4. \A r \in Proc : (\A n \in {h, m} : n[1] # r) => Calm(r)
      BY <2>1 DEF Left
    <3> QED BY <1>4, <1>5, <2>3, <3>1, <3>2, <3>3, <3>4, MoveStep
  <2>10. TypeB' /\ FifoConserved'
    <3>1. ValueOf(h) \in Value
      BY <1>5, <2>2, ValueFacts
    <3>2. /\ sent' = [sent EXCEPT ![c] = Append(@, ValueOf(h))]
          /\ recvd' = [recvd EXCEPT ![c] = Append(@, ValueOf(h))]
      BY <1>7 DEF Handover
    <3>3. buffer[c] = <<>>
      BY <1>3, <2>8
    <3> QED BY <1>4, <1>5, <3>1, <3>2, <3>3, BufferPass
  <2>11. Lasting
    BY <1>4, <2>9, KeptLasts
  <2>12. (Live(senders[c])' => Live(senders[c])) /\ (Live(recvers[c])' => Live(recvers[c]))
    BY <1>5, <2>3, <2>11, LiveFacts DEF Shrink
  <2>13. ChanOK(c)'
    <3>1. /\ Live(senders[c])' => Len(buffer'[c]) = Cap[c] /\ ~Live(recvers[c])'
          /\ Live(recvers[c])' => buffer'[c] = <<>>
      BY <1>2, <1>3, <1>4, <2>12 DEF Settled
    <3> QED BY <1>2, <1>4, <2>1, <3>1, LeftChan DEF Left
  <2>14. BufferInv'
    BY <1>2, <1>4, <1>5, <1>7, <2>1, <2>3, <2>11, <2>13, OtherChans DEF Left
  <2> QED BY <2>1, <2>3, <2>9, <2>10, <2>14 DEF IInv, Left
<1>8. ASSUME senders[c] # <<>>, senders' = [senders EXCEPT ![c] = Tail(@)],
             UNCHANGED <<lock, recvers, pc, msgs, key, signal, histVars>>
      PROVE  IInv' /\ KeyKept
  <2>1. Control' /\ Keep /\ Others(p) /\ \A r \in Proc : Calm(r)
    BY <1>4, <1>8, StayFacts
  <2>2. /\ TypeQ' /\ ListInv' /\ Shrink
        /\ \A k \in Chan : k # c => senders'[k] = senders[k]
    BY <1>5, <1>8, <2>1, SendersPop
  <2>3. UNCHANGED <<op, key, signal, moved>> /\ sent' = sent /\ recvd' = recvd
    BY <1>4, <1>8 DEF histVars
  <2>4. TypeM' /\ MoveInv' /\ KeyKept
    BY <1>5, <2>1, <2>2, <2>3, StillStep
  <2>5. Lasting
    BY <1>4, <2>4, KeptLasts
  <2>6. (Live(senders[c])' => Live(senders[c])) /\ (Live(recvers[c])' => Live(recvers[c]))
    BY <1>5, <2>2, <2>5, LiveFacts DEF Shrink
  <2>7. Knows(p, c)'
    <3>1. Settled(c)'
      BY <1>3, <1>4, <2>6 DEF Settled
    <3>2. pc'[p] = "match" /\ CurrentCase(p)'.dir = "recv"
      BY <1>1, <1>4, <1>8 DEF CurrentCase
    <3>3. Decided(p) => Decided(p)'
      BY <2>3 DEF Decided, Multiplex
    <3> QED BY <1>3, <1>4, <3>1, <3>2, <3>3 DEF Knows
  <2>8. ChanOK(c)'
    BY <1>2, <1>4, <1>8, <2>6, <2>7, HeldChan
  <2>9. BufferInv'
    BY <1>2, <1>4, <1>5, <1>8, <2>1, <2>2, <2>5, <2>8, OtherChans
  <2>10. TypeB' /\ FifoConserved'
    BY <1>4, <1>5, <2>3 DEF TypeB, FifoConserved
  <2> QED BY <2>1, <2>2, <2>4, <2>9, <2>10 DEF IInv
<1>9. ASSUME LeaveChannel(p, c) \/ ThrowOut(p, c),
             UNCHANGED <<senders, recvers, key, signal, histVars>>
      PROVE  IInv' /\ KeyKept
  <2>1. UNCHANGED <<op, calls, todo, buffer, senders, recvers, key, signal, moved, sent, recvd>>
    BY <1>4, <1>9 DEF histVars
  <2> QED BY <1>1, <1>2, <1>3, <1>9, <2>1, LeaveStep
<1>10. CASE /\ senders[c] = <<>>
            /\ LeaveChannel(p, c)
            /\ recvers' = IF op[p].kind = "nowait" THEN recvers
                          ELSE [recvers EXCEPT ![c] = Append(@, Current(p))]
            /\ UNCHANGED <<senders, key, signal, histVars>>
  <2>1. CASE op[p].kind = "nowait"
    BY <1>9, <1>10, <2>1
  <2>2. CASE op[p].kind # "nowait"
    BY <1>6, <1>10, <2>2
  <2> QED BY <2>1, <2>2
<1> QED BY <1>2, <1>7, <1>8, <1>9, <1>10 DEF MatchSender

LEMMA MatchRecverStep ==
  ASSUME IInv, NEW p \in Proc, MatchRecver(p)
  PROVE  IInv' /\ KeyKept
<1>1. pc[p] = "match" /\ CurrentCase(p).dir = "send" /\ Inside(p)
  BY DEF MatchRecver, Inside
<1>2. PICK c \in Chan :
        /\ c = CurrentCase(p).chan
        /\ lock[c] = p /\ Knows(p, c) /\ ~(Live(recvers[c]) /\ Live(senders[c]))
        /\ buffer[c] \in Seq(Value)
        /\ Len(buffer[c]) \in Nat /\ Len(buffer[c]) <= Cap[c] /\ Cap[c] \in Nat
        /\ buffer[c] = <<>> <=> Len(buffer[c]) = 0
  BY <1>1, HeldFacts
<1>3. Settled(c) /\ (Len(buffer[c]) = Cap[c] \/ Decided(p))
  BY <1>1, <1>2 DEF Knows
<1>4. UNCHANGED <<op, calls, todo>> /\ buffer' = buffer /\ op' = op
  BY DEF MatchRecver
<1>5. Control /\ TypeC /\ TypeQ /\ ListInv /\ TypeM /\ MoveInv /\ BufferInv /\ TypeB /\ FifoConserved
  BY DEF IInv, Control
<1>6. ASSUME recvers[c] = <<>>, LeaveChannel(p, c), op[p].kind # "nowait",
             NEW m, m = Current(p), senders' = [senders EXCEPT ![c] = Append(@, m)],
             UNCHANGED <<recvers, key, signal, histVars>>
      PROVE  IInv' /\ KeyKept
  <2>1. Left(p, c)
    BY <1>1, <1>2, <1>4, <1>6, LeaveFacts
  <2>2. /\ m \in Msg /\ m[1] = p /\ m \notin ToSet(senders[c])
        /\ Waits(m, CurrentCase(p).dir, c)' /\ CurrentCase(p)' = CurrentCase(p)
    <3>1. CurrentCase(p)' = CurrentCase(p)
      BY <1>4, <1>6 DEF LeaveChannel, CurrentCase
    <3> QED BY <1>1, <1>2, <1>4, <1>6, <3>1, CurrentWaits
  <2>3. ListsOK(recvers) /\ ListsOK(senders)
    BY <1>5, InList
  <2>4. /\ ListsOK(senders')
        /\ ToSet(senders'[c]) = ToSet(senders[c]) \cup {m}
        /\ \A k \in Chan \ {c} : senders'[k] = senders[k]
    <3>1. LET r == [senders EXCEPT ![c] = Append(@, m)]
          IN  /\ ListsOK(r)
              /\ ToSet(r[c]) = ToSet(senders[c]) \cup {m}
              /\ \A k \in Chan \ {c} : r[k] = senders[k]
      BY <2>2, <2>3, LinkMessage
    <3> QED BY <1>6, <3>1
  <2>5. recvers' = recvers /\ UNCHANGED <<op, key, signal, moved>> /\ sent' = sent /\ recvd' = recvd
    BY <1>4, <1>6 DEF histVars
  <2>6. TypeQ' /\ ListInv'
    <3>1. TypeQ'
      BY <2>3, <2>4, <2>5 DEF TypeQ, ListsOK
    <3>2. ASSUME NEW k \in Chan
          PROVE  /\ Distinct(recvers'[k]) /\ \A n \in ToSet(recvers'[k]) : Waits(n, "recv", k)'
                 /\ Distinct(senders'[k]) /\ \A n \in ToSet(senders'[k]) : Waits(n, "send", k)'
      <4>1. Distinct(recvers'[k]) /\ Distinct(senders'[k])
        BY <2>3, <2>4, <2>5 DEF ListsOK
      <4>2. \A n \in ToSet(recvers[k]) \cup ToSet(senders[k]) : n \in Msg
        BY <1>5, InList
      <4>3. \A n \in ToSet(recvers'[k]) : Waits(n, "recv", k)'
        BY <1>5, <2>1, <2>5, <4>2 DEF ListInv, Left, Keep
      <4>4. \A n \in ToSet(senders[k]) : Waits(n, "send", k)'
        BY <1>5, <2>1, <4>2 DEF ListInv, Left, Keep
      <4>5. Waits(m, "send", c)'
        BY <1>1, <2>2
      <4>6. \A n \in ToSet(senders'[k]) : Waits(n, "send", k)'
        BY <2>4, <4>4, <4>5
      <4> QED BY <4>1, <4>3, <4>6
    <3> QED BY <3>1, <3>2 DEF ListInv
  <2>7. TypeM' /\ MoveInv' /\ KeyKept
    <3>1. \A k \in Chan : \A n \in ToSet(recvers'[k]) \cup ToSet(senders'[k]) :
            n \in ToSet(recvers[k]) \cup ToSet(senders[k]) \/ n[1] = p
      BY <2>2, <2>4, <2>5
    <3> QED BY <1>1, <1>5, <2>1, <2>5, <3>1, LinkMoves DEF Left
  <2>8. Lasting
    BY <1>4, <2>7, KeptLasts
  <2>9. ~Live(recvers[c])'
    BY <1>6, <2>5 DEF Live, ToSet
  <2>10. Live(senders[c])' => Len(buffer'[c]) = Cap[c]
    <3> SUFFICES ASSUME NEW n \in ToSet(senders'[c]), ~Decided(n[1])' PROVE Len(buffer[c]) = Cap[c]
      BY <1>4 DEF Live
    <3>1. Decided(n[1])' <=> Decided(n[1])
      BY <2>5 DEF Decided, Multiplex
    <3>2. CASE n = m
      BY <1>3, <2>2, <3>1, <3>2
    <3>3. CASE n # m
      BY <1>3, <2>4, <3>1, <3>3 DEF Settled, Live
    <3> QED BY <3>2, <3>3
  <2>11. ChanOK(c)'
    BY <1>2, <1>4, <2>1, <2>9, <2>10, LeftChan DEF Left
  <2>12. BufferInv'
    BY <1>2, <1>4, <1>5, <2>1, <2>4, <2>5, <2>8, <2>11, OtherChans DEF Left
  <2>13. TypeB' /\ FifoConserved'
    BY <1>4, <1>5, <2>5 DEF TypeB, FifoConserved
  <2> QED BY <2>1, <2>6, <2>7, <2>12, <2>13 DEF IInv, Left
<1>7. ASSUME recvers[c] # <<>>, NEW h, h = Head(recvers[c]), NEW m, m = Current(p),
             TransferStatus(m, h) = "Ok", recvers' = [recvers EXCEPT ![c] = Tail(@)],
             Handover(m, h, c), LeaveChannel(p, c), senders' = senders
      PROVE  IInv' /\ KeyKept
  <2>1. Left(p, c)
    BY <1>1, <1>2, <1>4, <1>7, LeaveFacts
  <2>2. h \in Msg /\ h \in ToSet(recvers[c]) /\ Waits(h, "recv", c)
    BY <1>5, <1>7, HeadFacts
  <2>3. /\ TypeQ' /\ ListInv' /\ Shrink
        /\ \A k \in Chan : k # c => recvers'[k] = recvers[k]
        /\ h \notin ToSet(recvers'[c])
    BY <1>5, <1>7, <2>1, RecversPop DEF Left
  <2>4. h \notin ToSet(senders'[c])
    <3> SUFFICES ASSUME h \in ToSet(senders[c]) PROVE FALSE
      BY <1>7
    <3>1. Waits(h, "send", c)
      BY <1>5 DEF ListInv
    <3> QED BY <1>5, <2>2, <3>1, WaitsFacts
  <2>5. Ready(h) /\ h[2] \in DOMAIN op[h[1]].cases /\ h[1] \in Proc
    BY <1>1, <1>5, <2>1, <2>2, <2>3, <2>4, HeadReady DEF Left, Others
  <2>6. pc'[p] \notin {"listen", "match"}
    BY <1>7, <1>5 DEF LeaveChannel, TypeC
  <2>7. Ready(m) /\ m \in Msg /\ m[1] = p /\ m[2] \in DOMAIN op[p].cases
    BY <1>1, <1>7, <2>3, <2>6, CurrentReady
  <2>8. ~Decided(h[1]) /\ ~Decided(p) /\ h[1] # p
    BY <1>1, <1>5, <1>7, <2>2, <2>7, StatusFacts, TwoProcesses
  <2>9. TypeM' /\ MoveInv' /\ KeyKept
    <3>1. {m, h} \in SUBSET Msg /\ Commit({m, h})
      BY <1>7, <2>2, <2>7 DEF Handover
    <3>2. \A n \in {m, h} : n[2] \in DOMAIN op[n[1]].cases /\ ~Decided(n[1]) /\ Ready(n)
      BY <2>5, <2>7, <2>8
    <3>3. \A n, o \in {m, h} : n[1] = o[1] => n = o
      BY <2>7, <2>8
    <3>4. \A r \in Proc : (\A n \in {m, h} : n[1] # r) => Calm(r)
      BY <2>1 DEF Left
    <3> QED BY <1>4, <1>5, <2>3, <3>1, <3>2, <3>3, <3>4, MoveStep
  <2>10. TypeB' /\ FifoConserved'
    <3>1. ValueOf(m) \in Value
      BY <1>5, <2>7, ValueFacts
    <3>2. /\ sent' = [sent EXCEPT ![c] = Append(@, ValueOf(m))]
          /\ recvd' = [recvd EXCEPT ![c] = Append(@, ValueOf(m))]
      BY <1>7 DEF Handover
    <3>3. buffer[c] = <<>>
      BY <1>3, <2>2, <2>8 DEF Settled, Live
    <3> QED BY <1>4, <1>5, <3>1, <3>2, <3>3, BufferPass
  <2>11. Lasting
    BY <1>4, <2>9, KeptLasts
  <2>12. (Live(recvers[c])' => Live(recvers[c])) /\ (Live(senders[c])' => Live(senders[c]))
    BY <1>5, <2>3, <2>11, LiveFacts DEF Shrink
  <2>13. ChanOK(c)'
    <3>1. /\ Live(senders[c])' => Len(buffer'[c]) = Cap[c] /\ ~Live(recvers[c])'
          /\ Live(recvers[c])' => buffer'[c] = <<>>
      BY <1>2, <1>3, <1>4, <2>12 DEF Settled
    <3> QED BY <1>2, <1>4, <2>1, <3>1, LeftChan DEF Left
  <2>14. BufferInv'
    BY <1>2, <1>4, <1>5, <1>7, <2>1, <2>3, <2>11, <2>13, OtherChans DEF Left
  <2> QED BY <2>1, <2>3, <2>9, <2>10, <2>14 DEF IInv, Left
<1>8. ASSUME recvers[c] # <<>>, recvers' = [recvers EXCEPT ![c] = Tail(@)],
             UNCHANGED <<lock, senders, pc, msgs, key, signal, histVars>>
      PROVE  IInv' /\ KeyKept
  <2>1. Control' /\ Keep /\ Others(p) /\ \A r \in Proc : Calm(r)
    BY <1>4, <1>8, StayFacts
  <2>2. /\ TypeQ' /\ ListInv' /\ Shrink
        /\ \A k \in Chan : k # c => recvers'[k] = recvers[k]
    BY <1>5, <1>8, <2>1, RecversPop
  <2>3. UNCHANGED <<op, key, signal, moved>> /\ sent' = sent /\ recvd' = recvd
    BY <1>4, <1>8 DEF histVars
  <2>4. TypeM' /\ MoveInv' /\ KeyKept
    BY <1>5, <2>1, <2>2, <2>3, StillStep
  <2>5. Lasting
    BY <1>4, <2>4, KeptLasts
  <2>6. (Live(recvers[c])' => Live(recvers[c])) /\ (Live(senders[c])' => Live(senders[c]))
    BY <1>5, <2>2, <2>5, LiveFacts DEF Shrink
  <2>7. Knows(p, c)'
    <3>1. Settled(c)'
      BY <1>3, <1>4, <2>6 DEF Settled
    <3>2. pc'[p] = "match" /\ CurrentCase(p)'.dir = "send"
      BY <1>1, <1>4, <1>8 DEF CurrentCase
    <3>3. Decided(p) => Decided(p)'
      BY <2>3 DEF Decided, Multiplex
    <3> QED BY <1>3, <1>4, <3>1, <3>2, <3>3 DEF Knows
  <2>8. ChanOK(c)'
    BY <1>2, <1>4, <1>8, <2>6, <2>7, HeldChan
  <2>9. BufferInv'
    BY <1>2, <1>4, <1>5, <1>8, <2>1, <2>2, <2>5, <2>8, OtherChans
  <2>10. TypeB' /\ FifoConserved'
    BY <1>4, <1>5, <2>3 DEF TypeB, FifoConserved
  <2> QED BY <2>1, <2>2, <2>4, <2>9, <2>10 DEF IInv
<1>9. ASSUME LeaveChannel(p, c) \/ ThrowOut(p, c),
             UNCHANGED <<recvers, senders, key, signal, histVars>>
      PROVE  IInv' /\ KeyKept
  <2>1. UNCHANGED <<op, calls, todo, buffer, recvers, senders, key, signal, moved, sent, recvd>>
    BY <1>4, <1>9 DEF histVars
  <2> QED BY <1>1, <1>2, <1>3, <1>9, <2>1, LeaveStep
<1>10. CASE /\ recvers[c] = <<>>
            /\ LeaveChannel(p, c)
            /\ senders' = IF op[p].kind = "nowait" THEN senders
                          ELSE [senders EXCEPT ![c] = Append(@, Current(p))]
            /\ UNCHANGED <<recvers, key, signal, histVars>>
  <2>1. CASE op[p].kind = "nowait"
    BY <1>9, <1>10, <2>1
  <2>2. CASE op[p].kind # "nowait"
    BY <1>6, <1>10, <2>2
  <2> QED BY <2>1, <2>2
<1> QED BY <1>2, <1>7, <1>8, <1>9, <1>10 DEF MatchRecver

-----------------------------------------------------------------------------
(* Outside the channels.                                                   *)

\* A step that leaves the channels as they are.
LEMMA OutsideStep ==
  ASSUME IInv, NEW p \in Proc, ~Inside(p), Control', Keep, Others(p), Lasting, TypeM', MoveInv',
         UNCHANGED <<chanVars, sent, recvd>>
  PROVE  IInv'
<1>1. Control /\ TypeQ /\ ListInv /\ BufferInv /\ TypeB /\ FifoConserved
  BY DEF IInv
<1>2. /\ lock' = lock /\ buffer' = buffer /\ senders' = senders /\ recvers' = recvers
      /\ sent' = sent /\ recvd' = recvd
  BY DEF chanVars
<1>3. TypeQ' /\ ListInv' /\ Shrink
  BY <1>1, <1>2, ListsSame
<1>4. BufferInv'
  BY <1>1, <1>2, <1>3, NoChan
<1>5. TypeB' /\ FifoConserved'
  BY <1>1, <1>2 DEF TypeB, FifoConserved
<1> QED BY <1>3, <1>4, <1>5 DEF IInv

\* The moves of the other processes.
LEMMA OthersMoves ==
  ASSUME IInv, NEW p \in Proc, Others(p), \A r \in Proc \ {p} : Untaken(r), Shrink, MoveOK(p)'
  PROVE  MoveInv'
<1> SUFFICES ASSUME NEW r \in Proc \ {p} PROVE MoveOK(r)'
  BY DEF MoveInv
<1>1. MoveOK(r) /\ Untaken(r) /\ op'[r] = op[r] /\ Calm(r)
  BY DEF IInv, MoveInv, Others, Calm
<1> QED BY <1>1, CalmMoves

LEMMA CallStep ==
  ASSUME IInv, NEW p \in Proc, Call(p)
  PROVE  IInv' /\ \A r \in Proc : key[r] # NoKey /\ calls'[r] = calls[r] => key'[r] = key[r]
<1>1. Control' /\ Keep /\ msgs' = msgs /\ pc'[p] = "listen" /\ Others(p)
  BY CallControl DEF IInv
<1>2. Control /\ TypeC /\ TypeM /\ TypeQ /\ ListInv /\ pc[p] = "idle" /\ ~Inside(p)
  BY DEF IInv, Control, Call, Inside
<1>3. /\ key' = [key EXCEPT ![p] = NoKey]
      /\ signal' = [signal EXCEPT ![p] = 0]
      /\ moved' = [moved EXCEPT ![p] = <<>>]
      /\ calls' = [calls EXCEPT ![p] = @ + 1]
      /\ UNCHANGED <<chanVars, sent, recvd>> /\ senders' = senders /\ recvers' = recvers
  BY DEF Call, chanVars
<1>4. TypeM' /\ key'[p] = NoKey /\ signal'[p] = 0 /\ moved'[p] = <<>>
  <2>1. <<>> \in Seq(Nat)
    OBVIOUS
  <2> QED BY <1>2, <1>3, <2>1 DEF TypeM, NoKey
<1>5. \A r \in Proc \ {p} : Untaken(r)
  BY <1>2, <1>3 DEF Untaken, TypeM
<1>6. MoveOK(p)'
  BY <1>1, <1>4 DEF MoveOK
<1>7. MoveInv'
  BY <1>1, <1>3, <1>5, <1>6, OthersMoves DEF Shrink
<1>8. Lasting
  BY <1>1, <1>2, <1>5 DEF Lasting, Decided, Multiplex, Others, Untaken
<1>9. IInv'
  BY <1>1, <1>2, <1>3, <1>4, <1>7, <1>8, OutsideStep
<1>10. ASSUME NEW r \in Proc, key[r] # NoKey, calls'[r] = calls[r] PROVE key'[r] = key[r]
  <2>1. calls[r] \in Nat
    BY <1>2, ChannelAssumption DEF TypeC
  <2>2. r # p
    BY <1>2, <1>3, <1>10, <2>1 DEF TypeC
  <2> QED BY <1>5, <2>2 DEF Untaken
<1> QED BY <1>9, <1>10

LEMMA CheckStep ==
  ASSUME IInv, NEW p \in Proc, Check(p)
  PROVE  IInv' /\ KeyKept
<1>1. Control /\ TypeC /\ TypeM /\ Multiplex(p) /\ ~Inside(p)
  BY DEF IInv, Control, ProcOK, Check, Inside
<1>2. PICK l \in {"listen", "wait", "choose"} : pc' = [pc EXCEPT ![p] = l]
  BY DEF Check
<1>3. /\ UNCHANGED <<lock, op, calls, todo, msgs>> /\ UNCHANGED <<chanVars, sent, recvd>>
      /\ UNCHANGED <<op, key, signal, moved>> /\ senders' = senders /\ recvers' = recvers
  BY DEF Check, chanVars, histVars
<1>4. Control' /\ Keep /\ Others(p) /\ pc'[p] = l
  <2>1. Control' /\ Keep
    BY <1>1, <1>2, <1>3, GotoControl
  <2> QED BY <1>1, <1>2, <1>3, <2>1 DEF Others, TypeC
<1>5. TypeM' /\ KeyKept /\ \A r \in Proc : Untaken(r)
  BY <1>1, <1>3 DEF TypeM, KeyKept, Untaken
<1>6. MoveOK(p)'
  BY <1>1, <1>3, <1>4, <1>5, UntakenMoves DEF IInv, MoveInv
<1>7. MoveInv'
  BY <1>3, <1>4, <1>5, <1>6, OthersMoves DEF Shrink
<1>8. Lasting
  BY <1>3, <1>5, KeptLasts
<1> QED BY <1>1, <1>3, <1>4, <1>5, <1>7, <1>8, OutsideStep

LEMMA SignalledStep ==
  ASSUME IInv, NEW p \in Proc, Signalled(p)
  PROVE  IInv' /\ KeyKept
<1>1. Control /\ TypeC /\ TypeM /\ ~Inside(p) /\ MoveOK(p) /\ signal[p] > 0
  BY DEF IInv, Control, Signalled, Inside, MoveInv
<1>2. pc' = [pc EXCEPT ![p] = "drop"] /\ signal' = [signal EXCEPT ![p] = @ - 1]
  BY DEF Signalled
<1>3. /\ UNCHANGED <<lock, op, calls, todo, msgs>> /\ UNCHANGED <<chanVars, sent, recvd>>
      /\ UNCHANGED <<op, key, moved>> /\ senders' = senders /\ recvers' = recvers
  BY DEF Signalled, chanVars, histVars
<1>4. Control' /\ Keep /\ Others(p) /\ pc'[p] = "drop"
  <2>1. Control' /\ Keep
    BY <1>1, <1>2, <1>3, GotoControl
  <2> QED BY <1>1, <1>2, <1>3, <2>1 DEF Others, TypeC
<1>5. TypeM' /\ KeyKept /\ \A r \in Proc \ {p} : Untaken(r)
  BY <1>1, <1>2, <1>3 DEF TypeM, KeyKept, Untaken
<1>6. MoveOK(p)'
  BY <1>1, <1>3, <1>4 DEF MoveOK, Multiplex, DefaultKey
<1>7. MoveInv'
  BY <1>3, <1>4, <1>5, <1>6, OthersMoves DEF Shrink
<1>8. Lasting
  BY <1>3, <1>5, KeptLasts
<1> QED BY <1>1, <1>3, <1>4, <1>5, <1>7, <1>8, OutsideStep

LEMMA ChooseStep ==
  ASSUME IInv, NEW p \in Proc, Choose(p)
  PROVE  IInv' /\ KeyKept
<1>1. Control /\ TypeC /\ TypeM /\ ~Inside(p) /\ MoveOK(p) /\ Multiplex(p)
  BY DEF IInv, Control, ProcOK, Choose, Inside, MoveInv
<1>2. /\ pc' = [pc EXCEPT ![p] = "drop"]
      /\ key' = [key EXCEPT ![p] = IF @ = NoKey THEN DefaultKey(p) ELSE @]
  BY DEF Choose
<1>3. /\ UNCHANGED <<lock, op, calls, todo, msgs>> /\ UNCHANGED <<chanVars, sent, recvd>>
      /\ UNCHANGED <<op, signal, moved>> /\ senders' = senders /\ recvers' = recvers
  BY DEF Choose, chanVars, histVars
<1>4. Control' /\ Keep /\ Others(p) /\ pc'[p] = "drop"
  <2>1. Control' /\ Keep
    BY <1>1, <1>2, <1>3, GotoControl
  <2> QED BY <1>1, <1>2, <1>3, <2>1 DEF Others, TypeC
<1>5. DefaultKey(p) \in Nat \ {0} /\ DefaultKey(p)' = DefaultKey(p) /\ Multiplex(p)'
  BY <1>1, <1>3, OpFacts DEF DefaultKey, Multiplex
<1>6. /\ TypeM' /\ KeyKept /\ \A r \in Proc \ {p} : Untaken(r)
      /\ key'[p] = IF key[p] = NoKey THEN DefaultKey(p) ELSE key[p]
  BY <1>1, <1>2, <1>3, <1>5 DEF TypeM, KeyKept, Untaken
<1>7. MoveOK(p)'
  BY <1>1, <1>3, <1>5, <1>6 DEF MoveOK, NoKey
<1>8. MoveInv'
  BY <1>3, <1>4, <1>6, <1>7, OthersMoves DEF Shrink
<1>9. Lasting
  BY <1>3, <1>6, KeptLasts
<1> QED BY <1>1, <1>3, <1>4, <1>6, <1>8, <1>9, OutsideStep

LEMMA KillStep ==
  ASSUME IInv, NEW p \in Proc, Kill(p)
  PROVE  IInv' /\ KeyKept
<1>1. Control /\ TypeC /\ TypeM /\ MoveInv /\ ~Inside(p)
  BY DEF IInv, Control, Kill, Inside
<1>2. pc' = [pc EXCEPT ![p] = "unwind"]
  BY DEF Kill
<1>3. /\ UNCHANGED <<lock, op, calls, todo, msgs>> /\ UNCHANGED <<chanVars, sent, recvd>>
      /\ UNCHANGED <<op, key, signal, moved>> /\ senders' = senders /\ recvers' = recvers
  BY DEF Kill, chanVars, histVars
<1>4. Control' /\ Keep
  BY <1>1, <1>2, <1>3, GotoControl
<1>5. Others(p) /\ (\A r \in Proc : Calm(r)) /\ Shrink
  BY <1>1, <1>2, <1>3 DEF Others, TypeC, Calm, Shrink
<1>6. TypeM' /\ MoveInv' /\ KeyKept
  BY <1>1, <1>3, <1>5, StillStep
<1>7. Lasting
  BY <1>3, <1>6, KeptLasts
<1> QED BY <1>1, <1>3, <1>4, <1>5, <1>6, <1>7, OutsideStep

LEMMA ReturnStep ==
  ASSUME IInv, NEW p \in Proc, Return(p)
  PROVE  IInv' /\ KeyKept
<1>1. Control /\ TypeC /\ TypeM /\ MoveInv /\ ~Inside(p)
  BY DEF IInv, Control, Return, Inside
<1>2. Control' /\ Keep
  BY <1>1, ReturnControl
<1>3. /\ UNCHANGED <<chanVars, sent, recvd>> /\ msgs' = msgs
      /\ UNCHANGED <<op, key, signal, moved>> /\ senders' = senders /\ recvers' = recvers
  BY DEF Return, chanVars, histVars
<1>4. Others(p) /\ (\A r \in Proc : Calm(r)) /\ Shrink
  <2>1. \A r \in Proc \ {p} : pc'[r] = pc[r] /\ todo'[r] = todo[r]
    BY <1>1 DEF Return, TypeC
  <2>2. pc'[p] \in {"idle", "dead"}
    BY <1>1 DEF Return, TypeC
  <2> QED BY <1>3, <2>1, <2>2 DEF Others, Calm, Shrink
<1>5. TypeM' /\ MoveInv' /\ KeyKept
  BY <1>1, <1>3, <1>4, StillStep
<1>6. Lasting
  BY <1>3, <1>5, KeptLasts
<1> QED BY <1>1, <1>2, <1>3, <1>4, <1>5, <1>6, OutsideStep

LEMMA DropStep ==
  ASSUME IInv, NEW p \in Proc, Drop(p)
  PROVE  IInv' /\ KeyKept
<1>1. Control /\ TypeC /\ TypeQ /\ ListInv /\ TypeM /\ MoveInv /\ BufferInv /\ TypeB /\ FifoConserved /\ ~Inside(p)
  BY DEF IInv, Control, Drop, Inside
<1>2. /\ Control'
      /\ Head(msgs[p]) \in DOMAIN op[p].cases
      /\ op[p].cases[Head(msgs[p])].chan \in Chan
      /\ \A n \in Msg : \A d, k :
           Waits(n, d, k) /\ n # <<p, Head(msgs[p])>> => Waits(n, d, k)'
  BY <1>1, DropControl
<1>3. PICK m : m = <<p, Head(msgs[p])>>
  OBVIOUS
<1>4. PICK c \in Chan : c = op[p].cases[Head(msgs[p])].chan
  BY <1>2
<1>5. m \in Msg /\ m[1] = p /\ m[2] = Head(msgs[p])
  BY <1>1, <1>2, <1>3, OpFacts DEF Msg
<1>6. /\ senders' = [senders EXCEPT ![c] = Unlink(@, m)]
      /\ recvers' = [recvers EXCEPT ![c] = Unlink(@, m)]
  BY <1>3, <1>4 DEF Drop
<1>7. UNCHANGED <<lock, buffer, pc, op, calls, todo, key, signal, moved, sent, recvd>>
  BY DEF Drop, histVars
<1>8. ListsOK(senders) /\ ListsOK(recvers)
  BY <1>1, InList
<1>9. ListsOK(senders') /\ Without(senders', senders, c, m)
  <2>1. ListsOK([senders EXCEPT ![c] = Unlink(@, m)])
        /\ Without([senders EXCEPT ![c] = Unlink(@, m)], senders, c, m)
    BY <1>5, <1>8, DropFacts
  <2> QED BY <1>6, <2>1
<1>10. ListsOK(recvers') /\ Without(recvers', recvers, c, m)
  <2>1. ListsOK([recvers EXCEPT ![c] = Unlink(@, m)])
        /\ Without([recvers EXCEPT ![c] = Unlink(@, m)], recvers, c, m)
    BY <1>5, <1>8, DropFacts
  <2> QED BY <1>6, <2>1
<1>11. Shrink
  BY <1>9, <1>10 DEF Without, Shrink
<1>12. TypeQ' /\ ListInv'
  <2>1. TypeQ'
    BY <1>9, <1>10 DEF TypeQ, ListsOK
  <2>2. ASSUME NEW k \in Chan, NEW d, Waits(m, d, k) PROVE k = c
    <3>1. op[p].cases[Head(msgs[p])] = [dir |-> d, chan |-> k]
      BY <1>5, <2>2 DEF Waits
    <3> QED BY <1>4, <3>1
  <2>3. ASSUME NEW k \in Chan
        PROVE  /\ Distinct(senders'[k]) /\ \A n \in ToSet(senders'[k]) : Waits(n, "send", k)'
               /\ Distinct(recvers'[k]) /\ \A n \in ToSet(recvers'[k]) : Waits(n, "recv", k)'
    <3>1. Distinct(senders'[k]) /\ Distinct(recvers'[k])
      BY <1>9, <1>10 DEF ListsOK
    <3>2. ASSUME NEW n \in ToSet(senders'[k]) PROVE Waits(n, "send", k)'
      <4>1. n \in Msg /\ Waits(n, "send", k)
        BY <1>1, <1>11, InList DEF Shrink, ListInv
      <4>2. n # m
        BY <1>9, <2>2, <4>1 DEF Without
      <4> QED BY <1>2, <1>3, <4>1, <4>2
    <3>3. ASSUME NEW n \in ToSet(recvers'[k]) PROVE Waits(n, "recv", k)'
      <4>1. n \in Msg /\ Waits(n, "recv", k)
        BY <1>1, <1>11, InList DEF Shrink, ListInv
      <4>2. n # m
        BY <1>10, <2>2, <4>1 DEF Without
      <4> QED BY <1>2, <1>3, <4>1, <4>2
    <3> QED BY <3>1, <3>2, <3>3
  <2> QED BY <2>1, <2>3 DEF ListInv
<1>13. Others(p) /\ \A r \in Proc : Calm(r)
  <2>1. \A r \in Proc \ {p} : msgs'[r] = msgs[r]
    BY <1>1 DEF Drop, TypeC
  <2> QED BY <1>7, <2>1 DEF Others, Calm
<1>14. TypeM' /\ MoveInv' /\ KeyKept
  BY <1>1, <1>7, <1>11, <1>13, StillStep
<1>15. Lasting
  BY <1>7, <1>14, KeptLasts
<1>16. BufferInv'
  BY <1>1, <1>7, <1>11, <1>13, <1>15, NoChan
<1>17. TypeB' /\ FifoConserved'
  BY <1>1, <1>7 DEF TypeB, FifoConserved
<1> QED BY <1>2, <1>12, <1>14, <1>16, <1>17 DEF IInv

-----------------------------------------------------------------------------
(* The theorems.                                                           *)

\* A step keeps the invariant and the keys.
KeysStay == \A r \in Proc : key[r] # NoKey /\ calls'[r] = calls[r] => key'[r] = key[r]

LEMMA InitHolds == Init => IInv
<1> SUFFICES ASSUME Init PROVE IInv
  OBVIOUS
<1>1. \A p \in Proc : /\ pc[p] = "idle" /\ op[p] = NoOp /\ todo[p] = {} /\ msgs[p] = <<>>
                      /\ key[p] = NoKey /\ signal[p] = 0 /\ moved[p] = <<>>
  BY DEF Init
<1>2. \A c \in Chan : /\ lock[c] = Free /\ buffer[c] = <<>> /\ senders[c] = <<>> /\ recvers[c] = <<>>
                      /\ sent[c] = <<>> /\ recvd[c] = <<>>
  BY DEF Init
<1>3. NoOp \in OpType /\ NoOp.cases = <<>> /\ NoOp.kind = "plain"
  <2>1. <<>> \in Seq(CaseType)
    OBVIOUS
  <2> QED BY <2>1 DEF NoOp, OpType
<1>4. ToSet(<<>>) = {} /\ Distinct(<<>>) /\ Len(<<>>) = 0 /\ DOMAIN <<>> = {}
  BY DEF ToSet, Distinct
<1>5. TypeC
  <2>1. <<>> \in Seq(Nat \ {0})
    OBVIOUS
  <2>2. 0 \in 0..MaxCalls
    BY ChannelAssumption
  <2> QED BY <1>3, <2>1, <2>2 DEF Init, TypeC, PC
<1>6. \A p \in Proc : ProcOK(p)
  BY <1>1, <1>3, <1>4 DEF ProcOK, Inside
<1>7. LockInv
  BY <1>1, <1>2, ChannelAssumption DEF LockInv, Inside
<1>8. TypeQ
  <2>1. <<>> \in Seq(Msg)
    OBVIOUS
  <2> QED BY <2>1 DEF Init, TypeQ
<1>9. ListInv
  BY <1>2, <1>4 DEF ListInv
<1>10. TypeM
  <2>1. <<>> \in Seq(Nat)
    OBVIOUS
  <2> QED BY <2>1 DEF Init, TypeM, NoKey
<1>11. MoveInv
  BY <1>1, <1>3 DEF MoveInv, MoveOK, Multiplex
<1>12. TypeB
  <2>1. <<>> \in Seq(Value)
    OBVIOUS
  <2> QED BY <2>1 DEF Init, TypeB
<1>13. BufferInv
  <2> SUFFICES ASSUME NEW c \in Chan PROVE ChanOK(c)
    BY DEF BufferInv
  <2>1. ~Live(senders[c]) /\ ~Live(recvers[c])
    BY <1>2, EmptyDead
  <2>2. Len(buffer[c]) <= Cap[c]
    BY <1>2, <1>4, ChannelAssumption
  <2>3. \A p \in Proc : lock[c] # p
    BY <1>2, ChannelAssumption
  <2> QED BY <2>1, <2>2, <2>3 DEF ChanOK, Settled
<1>14. FifoConserved
  <2>1. <<>> \o <<>> = <<>>
    OBVIOUS
  <2> QED BY <1>2, <2>1 DEF FifoConserved
<1> QED BY <1>5, <1>6, <1>7, <1>8, <1>9, <1>10, <1>11, <1>12, <1>13, <1>14 DEF IInv, Control

LEMMA StepHolds == IInv /\ [Next]_vars => IInv' /\ [KeysStay]_vars
<1> SUFFICES ASSUME IInv, [Next]_vars PROVE IInv' /\ [KeysStay]_vars
  OBVIOUS
<1>1. CASE UNCHANGED vars
  BY <1>1 DEF vars, IInv, Control, TypeC, ProcOK, LockInv, Multiplex, Inside, CurrentCase,
              TypeQ, ListInv, Waits, TypeM, MoveInv, MoveOK, DefaultKey, TypeB, BufferInv,
              ChanOK, Settled, Knows, Live, Decided, FifoConserved
<1>2. ASSUME NEW p \in Proc, Call(p) PROVE IInv' /\ KeysStay
  BY <1>2, CallStep DEF KeysStay
<1>3. ASSUME NEW p \in Proc, Step(p) \/ Kill(p) PROVE IInv' /\ KeyKept
  BY <1>3, BufferSendToStep, BufferRecvFromStep, RefillFromSendersStep, RefillToRecversStep,
     MatchSenderStep, MatchRecverStep, CheckStep, SignalledStep, ChooseStep, DropStep,
     ReturnStep, KillStep DEF Step
<1>4. KeyKept => KeysStay
  BY DEF KeyKept, KeysStay
<1> QED BY <1>1, <1>2, <1>3, <1>4 DEF Next

LEMMA Holds == Spec => []IInv
<1> QED BY InitHolds, StepHolds, PTL DEF Spec

\* First in, first out, nothing lost or duplicated, for every capacity and any mixture
\* of plain, nowait and select operations on the channel: _buffer_send_to,
\* _buffer_recv_from and BaseMsg::send_to never overtake a value that is buffered.
THEOREM ChannelIsFifo == Spec => []FifoConserved
<1>1. IInv => FifoConserved
  BY DEF IInv
<1> QED BY <1>1, Holds, PTL

\* While nobody holds a channel's _mtx, BaseChannel::send_to and recv_from have left no
\* sender and receiver linked that could be matched, and none that could use the buffer.
THEOREM NoMatchIsMissed == Spec => []NoMissedMatch
<1>1. IInv => NoMissedMatch
  <2> SUFFICES ASSUME IInv, NEW c \in Chan, lock[c] = Free
               PROVE  LET live(q) == {m \in ToSet(q) : ~Decided(m[1])}
                      IN  /\ live(senders[c]) # {} => Len(buffer[c]) = Cap[c] /\ live(recvers[c]) = {}
                          /\ live(recvers[c]) # {} => buffer[c] = <<>>
    BY DEF NoMissedMatch
  <2>1. ChanOK(c)
    BY DEF IInv, BufferInv
  <2>2. \A q : Live(q) <=> {m \in ToSet(q) : ~Decided(m[1])} # {}
    BY DEF Live
  <2>3. ~(Live(senders[c]) /\ Live(recvers[c])) /\ Settled(c)
    BY <2>1 DEF ChanOK
  <2> QED BY <2>2, <2>3 DEF Settled
<1> QED BY <1>1, Holds, PTL

\* Whatever is linked in a channel belongs to an operation that has not returned and
\* whose frame exists: BaseMsg::drop comes before the frame goes, also when the frame
\* is destroyed while it waits or is left by the exception of BaseMsg::send_to.
THEOREM LinksLeadToLiveFrames == Spec => []LinkedFramesLive
<1>1. IInv => LinkedFramesLive
  <2> SUFFICES ASSUME IInv, NEW m \in Linked
               PROVE  pc[m[1]] \notin {"idle", "dead"} /\ m[2] \in ToSet(msgs[m[1]])
    BY DEF LinkedFramesLive
  <2>1. PICK c \in Chan : m \in ToSet(senders[c]) \cup ToSet(recvers[c])
    BY DEF Linked
  <2>2. m \in Msg /\ \E d : Waits(m, d, c)
    BY <2>1, InList DEF IInv, ListInv
  <2> QED BY <2>2, WaitsFacts DEF IInv, Waits
<1> QED BY <1>1, Holds, PTL

\* Select::_key, once set by a commit on one channel or by the default case, is not
\* replaced by a commit on another channel while the operation lasts.
THEOREM KeyIsSetOnce == Spec => KeySetOnce
<1>1. Spec => [][KeysStay]_vars
  BY Holds, StepHolds, PTL DEF Spec
<1>2. KeysStay <=> \A p \in Proc : key[p] # NoKey /\ calls'[p] = calls[p] => key'[p] = key[p]
  BY DEF KeysStay
<1> QED BY <1>1, <1>2, PTL DEF KeySetOnce

-----------------------------------------------------------------------------
(* Who waits can be found, and what a step is for the abstract channels.   *)

\* The operation of p is under way and may still begin to wait.
Active(p) == pc[p] \in {"listen", "refill", "match", "check", "wait", "choose"}

\* Some process may receive from channel c in a select.
SelectRecv(c) ==
  \E q \in Proc : \E o \in Ops[q] :
    o.kind \in {"select", "default"} /\ [dir |-> "recv", chan |-> c] \in ToSet(o.cases)

\* A plain sender on such a channel: BaseMsg::send_to between a Simplex and a Multiplex
\* message says InvalidSrc whichever of the two is decided, so that the sender is left out.
Overlooked(p) ==
  /\ op[p].kind = "plain"
  /\ \E c \in Chan : [dir |-> "send", chan |-> c] \in ToSet(op[p].cases) /\ SelectRecv(c)

\* While an operation is under way, its signal counts its moves, and a select has a
\* default key only once it is finished.
PendOK(p) ==
  /\ op[p] \in Ops[p] \cup {NoOp}
  /\ Multiplex(p) /\ (Active(p) \/ pc[p] = "unwind") => key[p] # DefaultKey(p)
  /\ Active(p) /\ op[p].kind # "nowait" => signal[p] = IF moved[p] = <<>> THEN 0 ELSE 1
  /\ pc[p] = "refill" => moved[p] # <<>>
  /\ pc[p] = "choose" => op[p].kind = "default"
  /\ pc[p] = "wait" => op[p].kind # "nowait"

PendInv == \A p \in Proc : PendOK(p)

\* An operation under way that moved nothing has its messages linked, but for the one
\* it has inside a channel.
LinkOK(p) ==
  Active(p) /\ moved[p] = <<>> /\ ~Overlooked(p) =>
    \A i \in ToSet(msgs[p]) : (Inside(p) /\ i = Last(msgs[p])) \/ <<p, i>> \in Linked

LinkInv == \A p \in Proc : LinkOK(p)

\* The operation of p can still take a case.
CanTake(p) == pc[p] \notin {"idle", "dead", "drop"} /\ moved[p] = <<>>

\* The messages in ms are committed and nothing else is.
Commits(ms) ==
  /\ op' = op /\ calls' = calls
  /\ \A m \in ms : m \in Msg /\ m[2] \in DOMAIN op[m[1]].cases /\ CanTake(m[1]) /\ Taken(m)
  /\ \A r \in Proc : (\A m \in ms : m[1] # r) => Untaken(r)

\* m receives the oldest value that is buffered in c, ...
TakesBuffered(m, c) ==
  /\ Commits({m}) /\ op[m[1]].cases[m[2]] = [dir |-> "recv", chan |-> c]
  /\ buffer[c] # <<>>
  /\ buffer' = [buffer EXCEPT ![c] = Tail(@)]
  /\ recvd' = [recvd EXCEPT ![c] = Append(@, Head(buffer[c]))]

\* ... m's value is buffered in c, ...
PutsBuffered(m, c) ==
  /\ Commits({m}) /\ op[m[1]].cases[m[2]] = [dir |-> "send", chan |-> c]
  /\ Len(buffer[c]) < Cap[c]
  /\ buffer' = [buffer EXCEPT ![c] = Append(@, ValueOf(m))]
  /\ recvd' = recvd

\* ... or goes straight from s to d.
HandsOver(s, d, c) ==
  /\ Commits({s, d}) /\ s[1] # d[1]
  /\ op[s[1]].cases[s[2]] = [dir |-> "send", chan |-> c]
  /\ op[d[1]].cases[d[2]] = [dir |-> "recv", chan |-> c]
  /\ buffer[c] = <<>> /\ buffer' = buffer
  /\ recvd' = [recvd EXCEPT ![c] = Append(@, ValueOf(s))]

Transfers ==
  \E c \in Chan : \E m \in Msg :
    TakesBuffered(m, c) \/ PutsBuffered(m, c) \/ \E d \in Msg : HandsOver(m, d, c)

\* Or no value moves.
Silent == UNCHANGED <<buffer, recvd, op, calls, moved>>

\* How the operation of p may go on.
Onward(p) ==
  /\ Others(p)
  /\ pc[p] \notin {"idle", "dead"} /\ pc'[p] \notin {"idle", "dead"}
  /\ pc[p] = "drop" => pc'[p] = "drop"
  /\ Active(p)' => Active(p)
  /\ pc'[p] = "unwind" => Active(p) \/ pc[p] = "unwind"
  /\ pc'[p] = "drop" /\ pc[p] # "drop" => moved'[p] # <<>> \/ op[p].kind \in {"nowait", "default"}
  /\ pc'[p] = "refill" => pc[p] = "refill" \/ moved'[p] # <<>>
  /\ pc'[p] = "choose" => pc[p] = "choose" \/ op[p].kind = "default"
  /\ pc'[p] = "wait" => pc[p] = "wait" \/ op[p].kind # "nowait"

-----------------------------------------------------------------------------
(* Messages that can be taken.                                             *)

\* A linked message that is not decided belongs to an operation that has moved nothing
\* and has not finished.
LEMMA LinkedCanTake ==
  ASSUME IInv, NEW c \in Chan, NEW h \in ToSet(senders[c]) \cup ToSet(recvers[c]), ~Decided(h[1])
  PROVE  h \in Msg /\ h[1] \in Proc /\ h[2] \in DOMAIN op[h[1]].cases /\ CanTake(h[1])
<1>1. h \in Msg /\ \E d : Waits(h, d, c)
  BY InList DEF IInv, ListInv
<1>2. PICK d : Waits(h, d, c)
  BY <1>1
<1>3. h[1] \in Proc /\ h[2] \in DOMAIN op[h[1]].cases /\ pc[h[1]] \notin {"idle", "dead"}
  BY <1>1, <1>2, WaitsFacts DEF IInv
<1>4. op[h[1]].kind \in {"plain", "select", "default"}
  BY <1>2, <1>3, OpFacts DEF IInv, Control, Waits
<1>5. MoveOK(h[1])
  BY <1>3 DEF IInv, MoveInv
<1>6. CASE Multiplex(h[1])
  <2>1. key[h[1]] = NoKey
    BY <1>6 DEF Decided
  <2>2. moved[h[1]] = <<>> /\ pc[h[1]] # "drop"
    BY <1>5, <1>6, <2>1 DEF MoveOK
  <2> QED BY <1>1, <1>3, <2>2 DEF CanTake
<1>7. CASE ~Multiplex(h[1])
  <2>1. op[h[1]].kind = "plain" /\ moved[h[1]] = <<>>
    BY <1>4, <1>5, <1>7 DEF MoveOK, Multiplex
  <2>2. <<>> # <<1>>
    OBVIOUS
  <2>3. pc[h[1]] # "drop"
    BY <1>5, <1>7, <2>1, <2>2 DEF MoveOK
  <2> QED BY <1>1, <1>3, <2>1, <2>3 DEF CanTake
<1> QED BY <1>1, <1>3, <1>6, <1>7

\* So does the message of a listener that is not decided.
LEMMA ListenerCanTake ==
  ASSUME IInv, NEW p \in Proc, pc[p] \in {"listen", "match"}, ~Decided(p)
  PROVE  CanTake(p)
<1>1. MoveOK(p)
  BY DEF IInv, MoveInv
<1> QED BY <1>1 DEF MoveOK, CanTake, Decided

LEMMA CommitsOne ==
  ASSUME IInv, NEW m \in Msg, m[2] \in DOMAIN op[m[1]].cases, CanTake(m[1]), Commit({m}),
         op' = op, calls' = calls
  PROVE  Commits({m})
<1>1. TypeC /\ TypeM
  BY DEF IInv, Control
<1>2. {m} \in SUBSET Msg /\ Commit({m})
  OBVIOUS
<1>3. /\ \A n \in {m} : n[2] \in DOMAIN op[n[1]].cases
      /\ \A n, o \in {m} : n[1] = o[1] => n = o
  OBVIOUS
<1>4. /\ \A n \in {m} : Taken(n)
      /\ \A r \in Proc : (\A n \in {m} : n[1] # r) => Untaken(r)
  BY <1>1, <1>2, <1>3, CommitFacts
<1> QED BY <1>4 DEF Commits

LEMMA CommitsTwo ==
  ASSUME IInv, NEW s \in Msg, NEW d \in Msg, s[1] # d[1], Commit({s, d}), op' = op, calls' = calls,
         s[2] \in DOMAIN op[s[1]].cases, CanTake(s[1]),
         d[2] \in DOMAIN op[d[1]].cases, CanTake(d[1])
  PROVE  Commits({s, d})
<1>1. TypeC /\ TypeM
  BY DEF IInv, Control
<1>2. {s, d} \in SUBSET Msg
  OBVIOUS
<1>3. /\ \A n \in {s, d} : n[2] \in DOMAIN op[n[1]].cases
      /\ \A n, o \in {s, d} : n[1] = o[1] => n = o
  OBVIOUS
<1>4. /\ \A n \in {s, d} : Taken(n)
      /\ \A r \in Proc : (\A n \in {s, d} : n[1] # r) => Untaken(r)
  BY <1>1, <1>2, <1>3, CommitFacts
<1> QED BY <1>4 DEF Commits

\* What a commit does to the moves.
LEMMA TakenFacts ==
  ASSUME IInv, NEW ms, Commits(ms)
  PROVE  /\ \A m \in ms : moved'[m[1]] = <<m[2]>> /\ moved'[m[1]] # <<>>
         /\ \A r \in Proc : moved'[r] = <<>> => moved[r] = <<>> /\ Untaken(r)
<1>1. ASSUME NEW m \in ms PROVE moved'[m[1]] = <<m[2]>> /\ moved'[m[1]] # <<>>
  <2>1. moved'[m[1]] = Append(<<>>, m[2])
    BY DEF Commits, CanTake, Taken
  <2>2. Append(<<>>, m[2]) = <<m[2]>>
    OBVIOUS
  <2>3. <<m[2]>> # <<>>
    OBVIOUS
  <2> QED BY <2>1, <2>2, <2>3
<1>2. ASSUME NEW r \in Proc, moved'[r] = <<>> PROVE moved[r] = <<>> /\ Untaken(r)
  <2>1. \A m \in ms : m[1] # r
    BY <1>1, <1>2
  <2> QED BY <1>2, <2>1 DEF Commits, Untaken
<1> QED BY <1>1, <1>2

-----------------------------------------------------------------------------
(* Keys and signals while the operation is under way.                      *)

LEMMA PendTaken ==
  ASSUME IInv, PendInv, NEW m \in Msg, m[2] \in DOMAIN op[m[1]].cases, CanTake(m[1]), Taken(m),
         op' = op, moved'[m[1]] # <<>>, Active(m[1])' => Active(m[1]),
         pc'[m[1]] = "choose" => pc[m[1]] = "choose" \/ op[m[1]].kind = "default",
         pc'[m[1]] = "wait" => pc[m[1]] = "wait" \/ op[m[1]].kind # "nowait"
  PROVE  PendOK(m[1])'
<1>1. m[1] \in Proc
  BY DEF Msg
<1>2. PendOK(m[1]) /\ op'[m[1]] = op[m[1]] /\ moved[m[1]] = <<>>
  BY <1>1 DEF PendInv, CanTake
<1>3. (op[m[1]] \in Ops[m[1]] \cup {NoOp})'
  BY <1>2 DEF PendOK
<1>4. ASSUME Multiplex(m[1])' PROVE key'[m[1]] # DefaultKey(m[1])'
  <2>1. Multiplex(m[1]) /\ key'[m[1]] = m[2]
    BY <1>2, <1>4 DEF Multiplex, Taken
  <2>2. m[2] \in 1..Len(op[m[1]].cases) /\ Len(op[m[1]].cases) \in Nat
    BY <1>1, OpFacts DEF IInv, Control
  <2>3. m[2] # Len(op[m[1]].cases) + 1
    BY <2>2
  <2> QED BY <1>2, <2>1, <2>3 DEF DefaultKey
<1>5. ASSUME Active(m[1])', op'[m[1]].kind # "nowait" PROVE signal'[m[1]] = 1
  <2>1. signal[m[1]] = 0
    BY <1>2, <1>5 DEF PendOK
  <2>2. signal'[m[1]] = signal[m[1]] + 1
    BY <1>2, <1>5 DEF Taken
  <2> QED BY <2>1, <2>2
<1>6. /\ pc'[m[1]] = "choose" => op'[m[1]].kind = "default"
      /\ pc'[m[1]] = "wait" => op'[m[1]].kind # "nowait"
  BY <1>2 DEF PendOK
<1> QED BY <1>3, <1>4, <1>5, <1>6 DEF PendOK

LEMMA PendUntaken ==
  ASSUME NEW r \in Proc, PendOK(r), op'[r] = op[r], Untaken(r), Active(r)' => Active(r),
         pc'[r] = "unwind" => Active(r) \/ pc[r] = "unwind",
         pc'[r] = "refill" => pc[r] = "refill" \/ moved'[r] # <<>>,
         pc'[r] = "choose" => pc[r] = "choose" \/ op[r].kind = "default",
         pc'[r] = "wait" => pc[r] = "wait" \/ op[r].kind # "nowait"
  PROVE  PendOK(r)'
  BY DEF PendOK, Untaken, Multiplex, DefaultKey

LEMMA CommitsPend ==
  ASSUME IInv, PendInv, NEW p \in Proc, Onward(p), NEW ms, Commits(ms)
  PROVE  PendInv'
<1> SUFFICES ASSUME NEW r \in Proc PROVE PendOK(r)'
  BY DEF PendInv
<1>1. /\ Active(r)' => Active(r)
      /\ pc'[r] = "unwind" => Active(r) \/ pc[r] = "unwind"
      /\ pc'[r] = "refill" => pc[r] = "refill" \/ moved'[r] # <<>>
      /\ pc'[r] = "choose" => pc[r] = "choose" \/ op[r].kind = "default"
      /\ pc'[r] = "wait" => pc[r] = "wait" \/ op[r].kind # "nowait"
  BY DEF Onward, Others, Active
<1>2. CASE \E m \in ms : m[1] = r
  <2>1. PICK m \in ms : m[1] = r
    BY <1>2
  <2>2. /\ m \in Msg /\ m[2] \in DOMAIN op[m[1]].cases /\ CanTake(m[1]) /\ Taken(m)
        /\ op' = op /\ moved'[m[1]] # <<>>
    BY TakenFacts DEF Commits
  <2> QED BY <1>1, <2>1, <2>2, PendTaken
<1>3. CASE \A m \in ms : m[1] # r
  <2>1. Untaken(r) /\ op' = op
    BY <1>3 DEF Commits
  <2> QED BY <1>1, <2>1, PendUntaken DEF PendInv
<1> QED BY <1>2, <1>3

LEMMA CommitsNone ==
  ASSUME UNCHANGED <<op, calls, key, signal, moved>>
  PROVE  Commits({})
  BY DEF Commits, Untaken

-----------------------------------------------------------------------------
(* Links.                                                                  *)

\* It does not matter to p that a message of its operation is not linked any more.
Unneeded(p) == ~Active(p) \/ moved'[p] # <<>> \/ Overlooked(p)

\* Only m may have left the lists.
Loses(m) ==
  \A k \in Chan :
    /\ ToSet(senders[k]) \ {m} \subseteq ToSet(senders'[k])
    /\ ToSet(recvers[k]) \ {m} \subseteq ToSet(recvers'[k])

LEMMA LosesLinked ==
  ASSUME NEW m, Loses(m), NEW n \in Linked, n # m
  PROVE  n \in Linked'
<1>1. PICK k \in Chan : n \in ToSet(senders[k]) \cup ToSet(recvers[k])
  BY DEF Linked
<1>2. n \in ToSet(senders'[k]) \cup ToSet(recvers'[k])
  BY <1>1 DEF Loses
<1> QED BY <1>2 DEF Linked

LEMMA SameLinked ==
  ASSUME senders' = senders, recvers' = recvers
  PROVE  \A m : Loses(m)
  BY DEF Loses

LEMMA PopLoses ==
  ASSUME TypeQ, ListInv, NEW c \in Chan
  PROVE  /\ senders[c] # <<>> /\ senders' = [senders EXCEPT ![c] = Tail(@)] /\ recvers' = recvers
              => Loses(Head(senders[c]))
         /\ recvers[c] # <<>> /\ recvers' = [recvers EXCEPT ![c] = Tail(@)] /\ senders' = senders
              => Loses(Head(recvers[c]))
<1>1. ListsOK(senders) /\ ListsOK(recvers)
  BY InList
<1>2. ASSUME senders[c] # <<>>, senders' = [senders EXCEPT ![c] = Tail(@)], recvers' = recvers
      PROVE  Loses(Head(senders[c]))
  <2>1. Without([senders EXCEPT ![c] = Tail(@)], senders, c, Head(senders[c]))
    BY <1>1, <1>2, PopFacts
  <2>2. Without(senders', senders, c, Head(senders[c]))
    BY <1>2, <2>1
  <2> QED BY <1>2, <2>2 DEF Without, Loses
<1>3. ASSUME recvers[c] # <<>>, recvers' = [recvers EXCEPT ![c] = Tail(@)], senders' = senders
      PROVE  Loses(Head(recvers[c]))
  <2>1. Without([recvers EXCEPT ![c] = Tail(@)], recvers, c, Head(recvers[c]))
    BY <1>1, <1>3, PopFacts
  <2>2. Without(recvers', recvers, c, Head(recvers[c]))
    BY <1>3, <2>1
  <2> QED BY <1>3, <2>2 DEF Without, Loses
<1> QED BY <1>2, <1>3

\* The operation r goes on as it was.
LEMMA LinkStays ==
  ASSUME NEW r \in Proc, LinkOK(r), pc'[r] = pc[r], op'[r] = op[r], msgs'[r] = msgs[r],
         moved'[r] = <<>> => moved[r] = <<>>, NEW m, Loses(m), m[1] = r => Unneeded(r)
  PROVE  LinkOK(r)'
<1> SUFFICES ASSUME Active(r)', moved'[r] = <<>>, ~Overlooked(r)', NEW i \in ToSet(msgs'[r]),
                    ~(Inside(r) /\ i = Last(msgs[r]))'
             PROVE  <<r, i>> \in Linked'
  BY DEF LinkOK
<1>1. Active(r) /\ moved[r] = <<>> /\ ~Overlooked(r) /\ i \in ToSet(msgs[r])
      /\ ~(Inside(r) /\ i = Last(msgs[r]))
  BY DEF Active, Overlooked, Inside
<1>2. <<r, i>> \in Linked
  BY <1>1 DEF LinkOK
<1>3. <<r, i>> # m
  <2> SUFFICES ASSUME <<r, i>> = m PROVE FALSE
    OBVIOUS
  <2>1. m[1] = r
    OBVIOUS
  <2> QED BY <1>1, <2>1 DEF Unneeded
<1> QED BY <1>2, <1>3, LosesLinked

\* One step of p: the others stay, and one message may be lost.
LEMMA LinkStep ==
  ASSUME IInv, LinkInv, NEW p \in Proc, Others(p), NEW ms, Commits(ms), NEW m, Loses(m),
         m[1] \in Proc => Unneeded(m[1]), LinkOK(p)'
  PROVE  LinkInv'
<1> SUFFICES ASSUME NEW r \in Proc \ {p} PROVE LinkOK(r)'
  BY DEF LinkInv
<1>1. pc'[r] = pc[r] /\ op'[r] = op[r] /\ msgs'[r] = msgs[r]
  BY DEF Others
<1>2. moved'[r] = <<>> => moved[r] = <<>>
  BY TakenFacts
<1>3. m[1] = r => Unneeded(r)
  OBVIOUS
<1> QED BY <1>1, <1>2, <1>3, LinkStays DEF LinkInv

\* A decided select that is under way has moved a value.
LEMMA DecidedMoved ==
  ASSUME IInv, PendInv, NEW p \in Proc, Decided(p), Active(p)
  PROVE  moved[p] # <<>>
<1>1. MoveOK(p) /\ PendOK(p) /\ Multiplex(p) /\ key[p] # NoKey
  BY DEF IInv, MoveInv, PendInv, Decided
<1>2. key[p] # DefaultKey(p)
  BY <1>1 DEF PendOK
<1>3. moved[p] = <<key[p]>>
  BY <1>1, <1>2 DEF MoveOK
<1> QED BY <1>3

LEMMA DecidedUnneeded ==
  ASSUME IInv, PendInv, NEW p \in Proc, Decided(p), moved'[p] = moved[p]
  PROVE  Unneeded(p)
  BY DecidedMoved DEF Unneeded

\* An operation that moved something, or is not under way, needs no link.
LEMMA LinkIdle ==
  ASSUME NEW p \in Proc, ~Active(p)' \/ moved'[p] # <<>>
  PROVE  LinkOK(p)'
  BY DEF LinkOK

-----------------------------------------------------------------------------
(* The steps of a process that is performing an operation.                 *)

\* Either values move, and p is done with its own, or none does.
GoesOn(p) ==
  /\ Onward(p) /\ PendInv' /\ LinkInv'
  /\ (Transfers /\ moved'[p] # <<>>) \/ Silent

LEMMA SilentNone == Commits({}) /\ buffer' = buffer /\ recvd' = recvd /\ UNCHANGED moved => Silent
  BY DEF Silent, Commits

\* A listener begins: the new message is inside the channel, the earlier ones are linked.
LEMMA EnterLinks ==
  ASSUME IInv, PendInv, LinkInv, NEW p \in Proc, NEW i \in todo[p], NEW dir, Enter(p, i, dir),
         NEW l \in {"refill", "match"}, pc' = [pc EXCEPT ![p] = l],
         UNCHANGED <<op, calls, senders, recvers>>, NEW ms, Commits(ms),
         l = "refill" => moved'[p] # <<>>
  PROVE  Onward(p) /\ PendInv' /\ LinkInv'
<1>1. /\ Control' /\ pc'[p] = l /\ pc[p] = "listen" /\ op' = op
      /\ i \in DOMAIN op[p].cases /\ op[p].cases[i].chan \in Chan
  BY EnterControl DEF IInv
<1>2. Others(p)
  <2>1. PICK c \in Chan : c = op[p].cases[i].chan
    BY <1>1
  <2>2. Entered(p, c, l, dir)
    BY <2>1, EnterFacts
  <2> QED BY <2>2 DEF Entered
<1>3. Onward(p)
  BY <1>1, <1>2 DEF Onward, Active
<1>4. PendInv'
  BY <1>3, CommitsPend
<1>5. msgs'[p] = Append(msgs[p], i) /\ msgs[p] \in Seq(Nat \ {0}) /\ i \in Nat \ {0}
      /\ Distinct(msgs[p]) /\ i \notin ToSet(msgs[p])
  <2>1. i \in Nat \ {0}
    BY <1>1, OpFacts DEF IInv, Control
  <2> QED BY <2>1 DEF Enter, IInv, Control, TypeC, ProcOK
<1>6. ToSet(msgs'[p]) = ToSet(msgs[p]) \cup {i} /\ Last(msgs'[p]) = i
  <2>1. ToSet(Append(msgs[p], i)) = ToSet(msgs[p]) \cup {i}
    BY <1>5, AppendFacts
  <2>2. Last(Append(msgs[p], i)) = i
    BY <1>5, LastFacts
  <2> QED BY <1>5, <2>1, <2>2
<1>7. LinkOK(p)'
  <2> SUFFICES ASSUME Active(p)', moved'[p] = <<>>, ~Overlooked(p)', NEW j \in ToSet(msgs'[p]),
                      ~(Inside(p) /\ j = Last(msgs[p]))'
               PROVE  <<p, j>> \in Linked'
    BY DEF LinkOK
  <2>1. moved[p] = <<>> /\ ~Overlooked(p)
    BY <1>1, TakenFacts DEF Overlooked
  <2>2. j \in ToSet(msgs[p])
    BY <1>1, <1>6 DEF Inside
  <2>3. <<p, j>> \in Linked
    BY <1>1, <2>1, <2>2 DEF LinkInv, LinkOK, Active, Inside
  <2> QED BY <2>3 DEF Linked
<1>8. LinkInv'
  <2>1. Loses(<<Free, 0>>) /\ <<Free, 0>>[1] = Free
    BY SameLinked
  <2>2. <<Free, 0>>[1] \in Proc => Unneeded(<<Free, 0>>[1])
    BY <2>1, ChannelAssumption
  <2> QED BY <1>2, <1>7, <2>1, <2>2, LinkStep
<1> QED BY <1>3, <1>4, <1>8

LEMMA BufferSendToGoesOn ==
  ASSUME IInv, PendInv, LinkInv, NEW p \in Proc, BufferSendTo(p)
  PROVE  GoesOn(p)
<1>1. PICK i \in todo[p] :
        /\ Enter(p, i, "recv")
        /\ LET c == op[p].cases[i].chan
           IN  \/ /\ buffer[c] # <<>> /\ ~Decided(p)
                  /\ buffer' = [buffer EXCEPT ![c] = Tail(@)]
                  /\ recvd' = [recvd EXCEPT ![c] = Append(@, Head(buffer[c]))]
                  /\ Commit({<<p, i>>})
                  /\ pc' = [pc EXCEPT ![p] = "refill"]
               \/ /\ buffer[c] = <<>> \/ Decided(p)
                  /\ pc' = [pc EXCEPT ![p] = "match"]
                  /\ UNCHANGED <<buffer, recvd, key, signal, moved>>
        /\ UNCHANGED <<senders, recvers, op, calls, sent>>
  BY DEF BufferSendTo
<1>2. i \in DOMAIN op[p].cases /\ pc[p] = "listen" /\ op[p].cases[i].dir = "recv"
  BY <1>1 DEF Enter, IInv, Control, ProcOK
<1>3. PICK c \in Chan : c = op[p].cases[i].chan /\ op[p].cases[i] = [dir |-> "recv", chan |-> c]
  BY <1>2, OpFacts DEF IInv, Control
<1>4. PICK m : m = <<p, i>>
  OBVIOUS
<1>5. m \in Msg /\ m[1] = p /\ m[2] = i
  BY <1>2, <1>4, OpFacts DEF Msg, IInv, Control
<1>6. CASE /\ buffer[c] # <<>> /\ ~Decided(p)
           /\ buffer' = [buffer EXCEPT ![c] = Tail(@)]
           /\ recvd' = [recvd EXCEPT ![c] = Append(@, Head(buffer[c]))]
           /\ Commit({m})
           /\ pc' = [pc EXCEPT ![p] = "refill"]
  <2>1. CanTake(p)
    BY <1>2, <1>6, ListenerCanTake
  <2>2. Commits({m})
    BY <1>1, <1>2, <1>5, <1>6, <2>1, CommitsOne
  <2>3. moved'[p] # <<>>
    BY <1>5, <2>2, TakenFacts
  <2>4. TakesBuffered(m, c)
    BY <1>3, <1>5, <1>6, <2>2 DEF TakesBuffered
  <2>5. Transfers
    BY <1>5, <2>4 DEF Transfers
  <2>6. Onward(p) /\ PendInv' /\ LinkInv'
    BY <1>1, <1>6, <2>2, <2>3, EnterLinks
  <2> QED BY <2>3, <2>5, <2>6 DEF GoesOn
<1>7. CASE /\ pc' = [pc EXCEPT ![p] = "match"]
           /\ UNCHANGED <<buffer, recvd, key, signal, moved>>
  <2>1. Commits({})
    BY <1>1, <1>7, CommitsNone
  <2>2. Silent
    BY <1>7, <2>1, SilentNone
  <2>3. Onward(p) /\ PendInv' /\ LinkInv'
    BY <1>1, <1>7, <2>1, EnterLinks
  <2> QED BY <2>2, <2>3 DEF GoesOn
<1> QED BY <1>1, <1>3, <1>4, <1>6, <1>7

LEMMA BufferRecvFromGoesOn ==
  ASSUME IInv, PendInv, LinkInv, NEW p \in Proc, BufferRecvFrom(p)
  PROVE  GoesOn(p)
<1>1. PICK i \in todo[p] :
        /\ Enter(p, i, "send")
        /\ LET c == op[p].cases[i].chan
           IN  \/ /\ Len(buffer[c]) # Cap[c] /\ ~Decided(p)
                  /\ buffer' = [buffer EXCEPT ![c] = Append(@, ValueOf(<<p, i>>))]
                  /\ sent' = [sent EXCEPT ![c] = Append(@, ValueOf(<<p, i>>))]
                  /\ Commit({<<p, i>>})
                  /\ pc' = [pc EXCEPT ![p] = "refill"]
               \/ /\ Len(buffer[c]) = Cap[c] \/ Decided(p)
                  /\ pc' = [pc EXCEPT ![p] = "match"]
                  /\ UNCHANGED <<buffer, sent, key, signal, moved>>
        /\ UNCHANGED <<senders, recvers, op, calls, recvd>>
  BY DEF BufferRecvFrom
<1>2. i \in DOMAIN op[p].cases /\ pc[p] = "listen" /\ op[p].cases[i].dir = "send"
  BY <1>1 DEF Enter, IInv, Control, ProcOK
<1>3. PICK c \in Chan : c = op[p].cases[i].chan /\ op[p].cases[i] = [dir |-> "send", chan |-> c]
  BY <1>2, OpFacts DEF IInv, Control
<1>4. PICK m : m = <<p, i>>
  OBVIOUS
<1>5. m \in Msg /\ m[1] = p /\ m[2] = i
  BY <1>2, <1>4, OpFacts DEF Msg, IInv, Control
<1>6. CASE /\ Len(buffer[c]) # Cap[c] /\ ~Decided(p)
           /\ buffer' = [buffer EXCEPT ![c] = Append(@, ValueOf(m))]
           /\ Commit({m})
           /\ pc' = [pc EXCEPT ![p] = "refill"]
  <2>1. CanTake(p)
    BY <1>2, <1>6, ListenerCanTake
  <2>2. Commits({m})
    BY <1>1, <1>2, <1>5, <1>6, <2>1, CommitsOne
  <2>3. moved'[p] # <<>>
    BY <1>5, <2>2, TakenFacts
  <2>4. Len(buffer[c]) < Cap[c]
    <3>1. Len(buffer[c]) \in Nat /\ Cap[c] \in Nat /\ Len(buffer[c]) <= Cap[c]
      BY ChannelAssumption, LenProperties DEF IInv, TypeB, BufferInv, ChanOK
    <3> QED BY <1>6, <3>1
  <2>5. PutsBuffered(m, c)
    BY <1>1, <1>3, <1>5, <1>6, <2>2, <2>4 DEF PutsBuffered
  <2>6. Transfers
    BY <1>5, <2>5 DEF Transfers
  <2>7. Onward(p) /\ PendInv' /\ LinkInv'
    BY <1>1, <1>6, <2>2, <2>3, EnterLinks
  <2> QED BY <2>3, <2>6, <2>7 DEF GoesOn
<1>7. CASE /\ pc' = [pc EXCEPT ![p] = "match"]
           /\ UNCHANGED <<buffer, sent, key, signal, moved>>
  <2>1. Commits({})
    BY <1>1, <1>7, CommitsNone
  <2>2. Silent
    BY <1>1, <1>7, <2>1, SilentNone
  <2>3. Onward(p) /\ PendInv' /\ LinkInv'
    BY <1>1, <1>7, <2>1, EnterLinks
  <2> QED BY <2>2, <2>3 DEF GoesOn
<1> QED BY <1>1, <1>3, <1>4, <1>6, <1>7

\* Return from a channel, or the exception out of it.
LEMMA LeaveOnward ==
  ASSUME IInv, PendInv, NEW p \in Proc, Inside(p), NEW c \in Chan, c = CurrentCase(p).chan,
         LeaveChannel(p, c) \/ ThrowOut(p, c), UNCHANGED <<op, calls, todo>>,
         NEW ms, Commits(ms)
  PROVE  Onward(p) /\ PendInv'
<1>1. Others(p)
  BY LeaveFacts DEF Left
<1>2. /\ pc'[p] \in {"wait", "drop", "check", "unwind"}
      /\ pc'[p] = "drop" => op[p].kind = "nowait"
      /\ pc'[p] = "wait" => op[p].kind = "plain"
  BY OpFacts DEF IInv, Control, TypeC, LeaveChannel, ThrowOut
<1>3. Onward(p)
  BY <1>1, <1>2 DEF Onward, Active, Inside
<1> QED BY <1>3, CommitsPend

\* p remains where it is in the channel.
LEMMA StayOnward ==
  ASSUME IInv, PendInv, LinkInv, NEW p \in Proc, Inside(p),
         UNCHANGED <<pc, op, calls, todo, msgs, key, signal, moved>>,
         NEW h, h[1] \in Proc, Loses(h), Unneeded(h[1])
  PROVE  Onward(p) /\ PendInv' /\ LinkInv'
<1>1. Others(p) /\ pc'[p] = pc[p]
  BY DEF Others
<1>2. Onward(p)
  BY <1>1 DEF Onward, Active, Inside
<1>3. Commits({})
  BY CommitsNone
<1>4. PendInv'
  BY <1>2, <1>3, CommitsPend
<1>5. LinkOK(p)'
  BY LinkStays DEF LinkInv
<1>6. LinkInv'
  BY <1>1, <1>3, <1>5, LinkStep
<1> QED BY <1>2, <1>4, <1>6

LEMMA RefillFromSendersGoesOn ==
  ASSUME IInv, PendInv, LinkInv, NEW p \in Proc, RefillFromSenders(p)
  PROVE  GoesOn(p)
<1>1. pc[p] = "refill" /\ CurrentCase(p).dir = "recv" /\ Inside(p)
  BY DEF RefillFromSenders, Inside
<1>2. PICK c \in Chan :
        /\ c = CurrentCase(p).chan
        /\ lock[c] = p /\ Knows(p, c) /\ ~(Live(senders[c]) /\ Live(recvers[c]))
        /\ buffer[c] \in Seq(Value)
        /\ Len(buffer[c]) \in Nat /\ Len(buffer[c]) <= Cap[c] /\ Cap[c] \in Nat
        /\ buffer[c] = <<>> <=> Len(buffer[c]) = 0
  BY <1>1, HeldFacts
<1>3. Len(buffer[c]) < Cap[c] /\ moved[p] # <<>>
  BY <1>1, <1>2 DEF Knows, PendInv, PendOK
<1>4. UNCHANGED <<op, calls, todo>> /\ recvers' = recvers /\ recvd' = recvd /\ op' = op
  BY DEF RefillFromSenders
<1>5. TypeQ /\ ListInv
  BY DEF IInv
<1>6. CASE /\ senders[c] = <<>>
           /\ LeaveChannel(p, c)
           /\ UNCHANGED <<buffer, senders, key, signal, moved, sent>>
  <2>1. Commits({}) /\ Silent
    BY <1>4, <1>6, CommitsNone, SilentNone
  <2>2. Onward(p) /\ PendInv'
    BY <1>1, <1>2, <1>4, <1>6, <2>1, LeaveOnward
  <2>3. LinkOK(p)'
    BY <1>3, <1>6, LinkIdle
  <2>4. LinkInv'
    <3>1. Loses(<<p, 0>>) /\ <<p, 0>>[1] = p /\ Unneeded(p)
      BY <1>3, <1>4, <1>6, SameLinked DEF Unneeded
    <3> QED BY <2>1, <2>2, <2>3, <3>1, LinkStep DEF Onward
  <2> QED BY <2>1, <2>2, <2>4 DEF GoesOn
<1>7. ASSUME senders[c] # <<>>, senders' = [senders EXCEPT ![c] = Tail(@)],
             Len(buffer[c]) # Cap[c], NEW h, h = Head(senders[c]), ~Decided(h[1]),
             buffer' = [buffer EXCEPT ![c] = Append(@, ValueOf(h))],
             Commit({h}), LeaveChannel(p, c)
      PROVE  GoesOn(p)
  <2>1. h \in Msg /\ h \in ToSet(senders[c]) /\ Waits(h, "send", c) /\ Loses(h)
    BY <1>4, <1>5, <1>7, HeadFacts, PopLoses
  <2>2. h[1] \in Proc /\ h[2] \in DOMAIN op[h[1]].cases /\ CanTake(h[1])
    BY <1>7, <2>1, LinkedCanTake
  <2>3. Commits({h})
    BY <1>4, <1>7, <2>1, <2>2, CommitsOne
  <2>4. moved'[h[1]] # <<>> /\ moved'[p] # <<>>
    BY <1>3, <2>3, TakenFacts
  <2>5. Onward(p) /\ PendInv'
    BY <1>1, <1>2, <1>4, <1>7, <2>3, LeaveOnward
  <2>6. LinkInv'
    <3>1. LinkOK(p)' /\ Unneeded(h[1])
      BY <2>4, LinkIdle DEF Unneeded
    <3> QED BY <2>1, <2>3, <2>5, <3>1, LinkStep DEF Onward
  <2>7. PutsBuffered(h, c)
    BY <1>3, <1>4, <1>7, <2>1, <2>3 DEF PutsBuffered, Waits
  <2>8. Transfers
    BY <2>1, <2>7 DEF Transfers
  <2> QED BY <2>4, <2>5, <2>6, <2>8 DEF GoesOn
<1>8. ASSUME senders[c] # <<>>, senders' = [senders EXCEPT ![c] = Tail(@)],
             NEW h, h = Head(senders[c]), Len(buffer[c]) = Cap[c] \/ Decided(h[1]),
             UNCHANGED <<lock, buffer, pc, msgs, key, signal, moved, sent>>
      PROVE  GoesOn(p)
  <2>1. h \in Msg /\ Loses(h) /\ h[1] \in Proc
    BY <1>4, <1>5, <1>8, HeadFacts, PopLoses DEF Msg
  <2>2. Decided(h[1])
    BY <1>2, <1>3, <1>8
  <2>3. Unneeded(h[1])
    BY <1>8, <2>1, <2>2, DecidedUnneeded
  <2>4. Onward(p) /\ PendInv' /\ LinkInv'
    BY <1>1, <1>4, <1>8, <2>1, <2>3, StayOnward
  <2>5. Silent
    BY <1>4, <1>8 DEF Silent
  <2> QED BY <2>4, <2>5 DEF GoesOn
<1> QED BY <1>2, <1>6, <1>7, <1>8 DEF RefillFromSenders

LEMMA RefillToRecversGoesOn ==
  ASSUME IInv, PendInv, LinkInv, NEW p \in Proc, RefillToRecvers(p)
  PROVE  GoesOn(p)
<1>1. pc[p] = "refill" /\ CurrentCase(p).dir = "send" /\ Inside(p)
  BY DEF RefillToRecvers, Inside
<1>2. PICK c \in Chan :
        /\ c = CurrentCase(p).chan
        /\ lock[c] = p /\ Knows(p, c) /\ ~(Live(senders[c]) /\ Live(recvers[c]))
        /\ buffer[c] \in Seq(Value)
        /\ Len(buffer[c]) \in Nat /\ Len(buffer[c]) <= Cap[c] /\ Cap[c] \in Nat
        /\ buffer[c] = <<>> <=> Len(buffer[c]) = 0
  BY <1>1, HeldFacts
<1>3. (Live(recvers[c]) => Len(buffer[c]) = 1) /\ moved[p] # <<>>
  BY <1>1, <1>2 DEF Knows, PendInv, PendOK
<1>4. UNCHANGED <<op, calls, todo>> /\ senders' = senders /\ op' = op
  BY DEF RefillToRecvers
<1>5. TypeQ /\ ListInv
  BY DEF IInv
<1>6. CASE /\ recvers[c] = <<>>
           /\ LeaveChannel(p, c)
           /\ UNCHANGED <<buffer, recvers, key, signal, moved, recvd>>
  <2>1. Commits({}) /\ Silent
    BY <1>4, <1>6, CommitsNone, SilentNone
  <2>2. Onward(p) /\ PendInv'
    BY <1>1, <1>2, <1>4, <1>6, <2>1, LeaveOnward
  <2>3. LinkOK(p)'
    BY <1>3, <1>6, LinkIdle
  <2>4. LinkInv'
    <3>1. Loses(<<p, 0>>) /\ <<p, 0>>[1] = p /\ Unneeded(p)
      BY <1>3, <1>4, <1>6, SameLinked DEF Unneeded
    <3> QED BY <2>1, <2>2, <2>3, <3>1, LinkStep DEF Onward
  <2> QED BY <2>1, <2>2, <2>4 DEF GoesOn
<1>7. ASSUME recvers[c] # <<>>, recvers' = [recvers EXCEPT ![c] = Tail(@)],
             buffer[c] # <<>>, NEW h, h = Head(recvers[c]), ~Decided(h[1]),
             buffer' = [buffer EXCEPT ![c] = Tail(@)],
             recvd' = [recvd EXCEPT ![c] = Append(@, Head(buffer[c]))],
             Commit({h}), LeaveChannel(p, c)
      PROVE  GoesOn(p)
  <2>1. h \in Msg /\ h \in ToSet(recvers[c]) /\ Waits(h, "recv", c) /\ Loses(h)
    BY <1>4, <1>5, <1>7, HeadFacts, PopLoses
  <2>2. h[1] \in Proc /\ h[2] \in DOMAIN op[h[1]].cases /\ CanTake(h[1])
    BY <1>7, <2>1, LinkedCanTake
  <2>3. Commits({h})
    BY <1>4, <1>7, <2>1, <2>2, CommitsOne
  <2>4. moved'[h[1]] # <<>> /\ moved'[p] # <<>>
    BY <1>3, <2>3, TakenFacts
  <2>5. Onward(p) /\ PendInv'
    BY <1>1, <1>2, <1>4, <1>7, <2>3, LeaveOnward
  <2>6. LinkInv'
    <3>1. LinkOK(p)' /\ Unneeded(h[1])
      BY <2>4, LinkIdle DEF Unneeded
    <3> QED BY <2>1, <2>3, <2>5, <3>1, LinkStep DEF Onward
  <2>7. TakesBuffered(h, c)
    BY <1>7, <2>1, <2>3 DEF TakesBuffered, Waits
  <2>8. Transfers
    BY <2>1, <2>7 DEF Transfers
  <2> QED BY <2>4, <2>5, <2>6, <2>8 DEF GoesOn
<1>8. ASSUME recvers[c] # <<>>, recvers' = [recvers EXCEPT ![c] = Tail(@)],
             NEW h, h = Head(recvers[c]), buffer[c] = <<>> \/ Decided(h[1]),
             UNCHANGED <<lock, buffer, pc, msgs, key, signal, moved, recvd>>
      PROVE  GoesOn(p)
  <2>1. h \in Msg /\ h \in ToSet(recvers[c]) /\ Loses(h) /\ h[1] \in Proc
    BY <1>4, <1>5, <1>8, HeadFacts, PopLoses DEF Msg
  <2>2. Decided(h[1])
    <3>1. ~Decided(h[1]) => Live(recvers[c])
      BY <2>1 DEF Live
    <3>2. ASSUME Live(recvers[c]) PROVE buffer[c] # <<>>
      <4>1. Len(buffer[c]) = 1
        BY <1>3, <3>2
      <4>2. Len(buffer[c]) # 0
        BY <4>1
      <4> QED BY <1>2, <4>2
    <3> QED BY <1>8, <3>1, <3>2
  <2>3. Unneeded(h[1])
    BY <1>8, <2>1, <2>2, DecidedUnneeded
  <2>4. Onward(p) /\ PendInv' /\ LinkInv'
    BY <1>1, <1>4, <1>8, <2>1, <2>3, StayOnward
  <2>5. Silent
    BY <1>4, <1>8 DEF Silent
  <2> QED BY <2>4, <2>5 DEF GoesOn
<1> QED BY <1>2, <1>6, <1>7, <1>8 DEF RefillToRecvers

-----------------------------------------------------------------------------
(* The loop over the other side.                                           *)

\* What the other statuses of a transfer say: a decided receiver's message is dropped
\* only when it is decided, a sender's also when it is plain and the receiver is a
\* decided select.
LEMMA RefusedFacts ==
  ASSUME NEW s, NEW d
  PROVE  /\ TransferStatus(s, d) = "InvalidDst" => Decided(d[1])
         /\ TransferStatus(s, d) = "InvalidSrc" =>
              Decided(s[1]) \/ (Decided(d[1]) /\ ~Multiplex(s[1]))
<1>1. CASE Multiplex(s[1]) /\ Multiplex(d[1])
  BY <1>1 DEF TransferStatus
<1>2. CASE ~(Multiplex(s[1]) /\ Multiplex(d[1]))
  BY <1>2 DEF TransferStatus, Decided
<1> QED BY <1>1, <1>2

\* A plain sender to a channel from which the operation of q, a select, receives.
LEMMA MeetsSelect ==
  ASSUME IInv, PendInv, NEW p \in Proc, NEW q \in Proc, NEW c \in Chan, NEW i, NEW j,
         ~Multiplex(p), op[p].kind # "nowait", i \in DOMAIN op[p].cases,
         op[p].cases[i] = [dir |-> "send", chan |-> c],
         Multiplex(q), j \in DOMAIN op[q].cases, op[q].cases[j] = [dir |-> "recv", chan |-> c]
  PROVE  Overlooked(p)
<1>1. op[p].kind = "plain"
  BY OpFacts DEF IInv, Control, Multiplex
<1>2. [dir |-> "send", chan |-> c] \in ToSet(op[p].cases)
  BY DEF ToSet
<1>3. [dir |-> "recv", chan |-> c] \in ToSet(op[q].cases)
  BY DEF ToSet
<1>4. op[q] \in Ops[q]
  BY DEF PendInv, PendOK, Multiplex, NoOp
<1>5. SelectRecv(c)
  BY <1>3, <1>4 DEF SelectRecv, Multiplex
<1> QED BY <1>1, <1>2, <1>5 DEF Overlooked

\* m is linked as the last receiver or sender of channel c.
LinksIn(m, c) ==
  \/ senders' = senders /\ recvers' = [recvers EXCEPT ![c] = Append(@, m)]
  \/ recvers' = recvers /\ senders' = [senders EXCEPT ![c] = Append(@, m)]

LEMMA SendersGrow ==
  ASSUME ListsOK(senders), NEW c \in Chan, NEW m \in Msg, m \notin ToSet(senders[c])
  PROVE  senders' = [senders EXCEPT ![c] = Append(@, m)] =>
           m \in ToSet(senders'[c]) /\ \A k \in Chan : ToSet(senders[k]) \subseteq ToSet(senders'[k])
<1>1. LET r == [senders EXCEPT ![c] = Append(@, m)]
      IN  /\ ListsOK(r)
          /\ ToSet(r[c]) = ToSet(senders[c]) \cup {m}
          /\ \A k \in Chan \ {c} : r[k] = senders[k]
  BY LinkMessage
<1> HAVE senders' = [senders EXCEPT ![c] = Append(@, m)]
<1>2. ToSet(senders'[c]) = ToSet(senders[c]) \cup {m} /\ \A k \in Chan \ {c} : senders'[k] = senders[k]
  BY <1>1
<1> QED BY <1>2

LEMMA RecversGrow ==
  ASSUME ListsOK(recvers), NEW c \in Chan, NEW m \in Msg, m \notin ToSet(recvers[c])
  PROVE  recvers' = [recvers EXCEPT ![c] = Append(@, m)] =>
           m \in ToSet(recvers'[c]) /\ \A k \in Chan : ToSet(recvers[k]) \subseteq ToSet(recvers'[k])
<1>1. LET r == [recvers EXCEPT ![c] = Append(@, m)]
      IN  /\ ListsOK(r)
          /\ ToSet(r[c]) = ToSet(recvers[c]) \cup {m}
          /\ \A k \in Chan \ {c} : r[k] = recvers[k]
  BY LinkMessage
<1> HAVE recvers' = [recvers EXCEPT ![c] = Append(@, m)]
<1>2. ToSet(recvers'[c]) = ToSet(recvers[c]) \cup {m} /\ \A k \in Chan \ {c} : recvers'[k] = recvers[k]
  BY <1>1
<1> QED BY <1>2

LEMMA LinksLoses ==
  ASSUME ListsOK(senders), ListsOK(recvers), NEW c \in Chan, NEW m \in Msg,
         m \notin ToSet(senders[c]), m \notin ToSet(recvers[c]), LinksIn(m, c)
  PROVE  (\A n : Loses(n)) /\ m \in Linked'
<1>1. CASE senders' = senders /\ recvers' = [recvers EXCEPT ![c] = Append(@, m)]
  <2>1. m \in ToSet(recvers'[c]) /\ \A k \in Chan : ToSet(recvers[k]) \subseteq ToSet(recvers'[k])
    BY <1>1, RecversGrow
  <2>2. \A n : Loses(n)
    BY <1>1, <2>1 DEF Loses
  <2>3. m \in Linked'
    BY <2>1 DEF Linked
  <2> QED BY <2>2, <2>3
<1>2. CASE recvers' = recvers /\ senders' = [senders EXCEPT ![c] = Append(@, m)]
  <2>1. m \in ToSet(senders'[c]) /\ \A k \in Chan : ToSet(senders[k]) \subseteq ToSet(senders'[k])
    BY <1>2, SendersGrow
  <2>2. \A n : Loses(n)
    BY <1>2, <2>1 DEF Loses
  <2>3. m \in Linked'
    BY <2>1 DEF Linked
  <2> QED BY <2>2, <2>3
<1> QED BY <1>1, <1>2 DEF LinksIn

\* p links its message and leaves.
LEMMA LinksAndLeaves ==
  ASSUME IInv, PendInv, LinkInv, NEW p \in Proc, pc[p] = "match", NEW c \in Chan,
         c = CurrentCase(p).chan, LeaveChannel(p, c), op[p].kind # "nowait",
         UNCHANGED <<op, calls, todo, buffer, key, signal, moved, recvd>>,
         LinksIn(Current(p), c)
  PROVE  GoesOn(p)
<1>1. Inside(p) /\ op' = op
  BY DEF Inside
<1>2. Commits({}) /\ Silent
  BY CommitsNone DEF Silent
<1>3. Onward(p) /\ PendInv'
  BY <1>1, <1>2, LeaveOnward
<1>4. PICK m : m = Current(p)
  OBVIOUS
<1>5. m \in Msg /\ m[1] = p /\ m \notin ToSet(senders[c]) /\ m \notin ToSet(recvers[c])
  <2>1. m \in Msg /\ m[1] = p /\ m \notin ToSet(senders[c]) \cup ToSet(recvers[c])
    BY <1>1, <1>4, CurrentWaits
  <2> QED BY <2>1
<1>6. ListsOK(senders) /\ ListsOK(recvers)
  BY InList DEF IInv
<1>7. (\A n : Loses(n)) /\ m \in Linked'
  <2>1. LinksIn(m, c)
    BY <1>4
  <2> QED BY <1>5, <1>6, <2>1, LinksLoses
<1>8. msgs' = msgs
  BY DEF LeaveChannel
<1>9. LinkOK(p)'
  <2> SUFFICES ASSUME moved[p] = <<>>, ~Overlooked(p)', NEW i \in ToSet(msgs[p])
               PROVE  <<p, i>> \in Linked'
    BY <1>8 DEF LinkOK
  <2>1. CASE i = Last(msgs[p])
    BY <1>4, <1>7, <2>1 DEF Current
  <2>2. CASE i # Last(msgs[p])
    <3>1. <<p, i>> \in Linked
      BY <1>1, <2>2 DEF LinkInv, LinkOK, Active, Overlooked
    <3>2. <<p, i>> # <<p, 0>> => <<p, i>> \in Linked'
      BY <1>7, <3>1, LosesLinked
    <3>3. i # 0
      BY SetFacts DEF IInv, Control, TypeC
    <3> QED BY <3>2, <3>3
  <2> QED BY <2>1, <2>2
<1>10. LinkInv'
  <2>1. <<Free, 0>>[1] \notin Proc /\ Loses(<<Free, 0>>)
    BY <1>7, ChannelAssumption
  <2> QED BY <1>2, <1>3, <1>9, <2>1, LinkStep DEF Onward
<1> QED BY <1>2, <1>3, <1>10 DEF GoesOn

\* p leaves without a link: it is nowait, or moved a value, or is left out, or throws.
LEMMA JustLeaves ==
  ASSUME IInv, PendInv, LinkInv, NEW p \in Proc, pc[p] = "match", NEW c \in Chan,
         c = CurrentCase(p).chan, LeaveChannel(p, c) \/ ThrowOut(p, c),
         UNCHANGED <<op, calls, todo, buffer, senders, recvers, key, signal, moved, recvd>>,
         ThrowOut(p, c) \/ op[p].kind = "nowait" \/ Decided(p) \/ Overlooked(p)
  PROVE  GoesOn(p)
<1>1. Inside(p) /\ op' = op
  BY DEF Inside
<1>2. Commits({}) /\ Silent
  BY CommitsNone DEF Silent
<1>3. Onward(p) /\ PendInv'
  BY <1>1, <1>2, LeaveOnward
<1>4. LinkOK(p)'
  <2>1. CASE ThrowOut(p, c) \/ op[p].kind = "nowait"
    <3>1. pc'[p] \in {"unwind", "drop"}
      BY <2>1 DEF ThrowOut, LeaveChannel, IInv, Control, TypeC
    <3> QED BY <3>1, LinkIdle DEF Active
  <2>2. CASE Decided(p)
    <3>1. moved'[p] # <<>>
      BY <2>2, DecidedMoved DEF Active
    <3> QED BY <3>1, LinkIdle
  <2>3. CASE Overlooked(p)
    BY <2>3 DEF LinkOK, Overlooked
  <2> QED BY <2>1, <2>2, <2>3
<1>5. LinkInv'
  <2>1. <<Free, 0>>[1] \notin Proc /\ Loses(<<Free, 0>>)
    BY SameLinked, ChannelAssumption
  <2> QED BY <1>2, <1>3, <1>4, <2>1, LinkStep DEF Onward
<1> QED BY <1>2, <1>3, <1>5 DEF GoesOn

\* The value goes from one process to the other.
LEMMA Meets ==
  ASSUME IInv, PendInv, LinkInv, NEW p \in Proc, pc[p] = "match", NEW c \in Chan,
         c = CurrentCase(p).chan, LeaveChannel(p, c), NEW m, m = Current(p),
         NEW h \in ToSet(senders[c]) \cup ToSet(recvers[c]), Loses(h),
         ~Decided(p), ~Decided(h[1]), h[1] # p, NEW s, NEW d,
         <<s, d>> = <<h, m>> \/ <<s, d>> = <<m, h>>,
         op[s[1]].cases[s[2]] = [dir |-> "send", chan |-> c],
         op[d[1]].cases[d[2]] = [dir |-> "recv", chan |-> c],
         Handover(s, d, c), UNCHANGED <<op, calls, todo, buffer>>, buffer[c] = <<>>
  PROVE  GoesOn(p)
<1>1. Inside(p) /\ op' = op /\ calls' = calls
  BY DEF Inside
<1>2. h \in Msg /\ h[1] \in Proc /\ h[2] \in DOMAIN op[h[1]].cases /\ CanTake(h[1])
  BY LinkedCanTake
<1>3. m \in Msg /\ m[1] = p /\ m[2] \in DOMAIN op[p].cases /\ CanTake(p)
  BY <1>1, InsideFacts, ListenerCanTake DEF Current, IInv
<1>4. (s = h /\ d = m) \/ (s = m /\ d = h)
  OBVIOUS
<1>5. Commits({s, d}) /\ s[1] # d[1] /\ s \in Msg /\ d \in Msg
  <2>1. Commit({s, d})
    BY DEF Handover
  <2> QED BY <1>1, <1>2, <1>3, <1>4, <2>1, CommitsTwo
<1>6. moved'[p] # <<>> /\ moved'[h[1]] # <<>>
  <2>1. moved'[s[1]] # <<>> /\ moved'[d[1]] # <<>>
    BY <1>5, TakenFacts
  <2> QED BY <1>3, <1>4, <2>1
<1>7. Onward(p) /\ PendInv'
  BY <1>1, <1>5, LeaveOnward
<1>8. LinkInv'
  <2>1. LinkOK(p)' /\ Unneeded(h[1])
    BY <1>6, LinkIdle DEF Unneeded
  <2> QED BY <1>5, <1>7, <2>1, LinkStep DEF Onward
<1>9. HandsOver(s, d, c)
  BY <1>5 DEF HandsOver, Handover
<1>10. Transfers
  BY <1>5, <1>9 DEF Transfers
<1> QED BY <1>6, <1>7, <1>8, <1>10 DEF GoesOn

LEMMA MatchSenderGoesOn ==
  ASSUME IInv, PendInv, LinkInv, NEW p \in Proc, MatchSender(p)
  PROVE  GoesOn(p)
<1>1. pc[p] = "match" /\ CurrentCase(p).dir = "recv" /\ Inside(p)
  BY DEF MatchSender, Inside
<1>2. PICK c \in Chan :
        /\ c = CurrentCase(p).chan
        /\ lock[c] = p /\ Knows(p, c) /\ ~(Live(senders[c]) /\ Live(recvers[c]))
        /\ buffer[c] \in Seq(Value)
        /\ Len(buffer[c]) \in Nat /\ Len(buffer[c]) <= Cap[c] /\ Cap[c] \in Nat
        /\ buffer[c] = <<>> <=> Len(buffer[c]) = 0
  BY <1>1, HeldFacts
<1>3. buffer[c] = <<>> \/ Decided(p)
  BY <1>1, <1>2 DEF Knows
<1>4. UNCHANGED <<op, calls, todo>> /\ buffer' = buffer /\ op' = op
  BY DEF MatchSender
<1>5. TypeQ /\ ListInv /\ Control
  BY DEF IInv
<1>6. PICK m : m = Current(p)
  OBVIOUS
<1>7. /\ m \in Msg /\ m[1] = p /\ m[2] \in DOMAIN op[p].cases
      /\ op[p].cases[m[2]] = [dir |-> "recv", chan |-> c]
  BY <1>1, <1>2, <1>5, <1>6, InsideFacts DEF Current, CurrentCase
<1>8. CASE /\ senders[c] = <<>>
           /\ LeaveChannel(p, c)
           /\ recvers' = IF op[p].kind = "nowait" THEN recvers
                         ELSE [recvers EXCEPT ![c] = Append(@, m)]
           /\ UNCHANGED <<senders, key, signal, histVars>>
  <2>1. senders' = senders /\ UNCHANGED <<key, signal, moved, recvd>>
    BY <1>8 DEF histVars
  <2>2. CASE op[p].kind = "nowait"
    <3>1. recvers' = recvers
      BY <1>8, <2>2
    <3> QED BY <1>1, <1>2, <1>4, <1>8, <2>1, <2>2, <3>1, JustLeaves
  <2>3. CASE op[p].kind # "nowait"
    <3>1. LinksIn(Current(p), c)
      BY <1>6, <1>8, <2>1, <2>3 DEF LinksIn
    <3> QED BY <1>1, <1>2, <1>4, <1>8, <2>1, <2>3, <3>1, LinksAndLeaves
  <2> QED BY <2>2, <2>3
<1>9. ASSUME senders[c] # <<>>, NEW h, h = Head(senders[c]), TransferStatus(h, m) = "Ok",
             senders' = [senders EXCEPT ![c] = Tail(@)],
             Handover(h, m, c), LeaveChannel(p, c), recvers' = recvers
      PROVE  GoesOn(p)
  <2>1. h \in Msg /\ h \in ToSet(senders[c]) /\ Waits(h, "send", c) /\ Loses(h)
    BY <1>5, <1>9, HeadFacts, PopLoses
  <2>2. ~Decided(h[1]) /\ ~Decided(p) /\ h[1] # p
    BY <1>1, <1>5, <1>7, <1>9, <2>1, StatusFacts, TwoProcesses
  <2>3. /\ op[h[1]].cases[h[2]] = [dir |-> "send", chan |-> c]
        /\ op[m[1]].cases[m[2]] = [dir |-> "recv", chan |-> c]
    BY <1>7, <2>1 DEF Waits
  <2> QED BY <1>1, <1>2, <1>3, <1>4, <1>6, <1>9, <2>1, <2>2, <2>3, Meets
<1>10. ASSUME senders[c] # <<>>, NEW h, h = Head(senders[c]), TransferStatus(h, m) = "InvalidSrc",
              senders' = [senders EXCEPT ![c] = Tail(@)],
              UNCHANGED <<lock, recvers, pc, msgs, key, signal, histVars>>
       PROVE  GoesOn(p)
  <2>1. h \in Msg /\ h[1] \in Proc /\ Waits(h, "send", c) /\ Loses(h)
    BY <1>5, <1>10, HeadFacts, PopLoses DEF Msg
  <2>2. UNCHANGED <<pc, op, calls, todo, msgs, key, signal, moved, recvd>>
    BY <1>4, <1>10 DEF histVars
  <2>3. Unneeded(h[1])
    <3>1. CASE Decided(h[1])
      BY <2>1, <2>2, <3>1, DecidedUnneeded
    <3>2. CASE Decided(p) /\ ~Multiplex(h[1])
      <4>1. Multiplex(p)
        BY <3>2 DEF Decided
      <4>2. h[2] \in DOMAIN op[h[1]].cases
        BY <1>5, <2>1, WaitsFacts
      <4>3. op[h[1]].kind # "nowait" /\ op[h[1]].cases[h[2]] = [dir |-> "send", chan |-> c]
        BY <2>1 DEF Waits
      <4>4. Overlooked(h[1])
        BY <1>7, <2>1, <3>2, <4>1, <4>2, <4>3, MeetsSelect
      <4> QED BY <4>4 DEF Unneeded
    <3> QED BY <1>7, <1>10, <3>1, <3>2, RefusedFacts
  <2>4. Onward(p) /\ PendInv' /\ LinkInv'
    BY <1>1, <2>1, <2>2, <2>3, StayOnward
  <2>5. Silent
    BY <1>4, <2>2 DEF Silent
  <2> QED BY <2>4, <2>5 DEF GoesOn
<1>11. ASSUME senders[c] # <<>>, NEW h, TransferStatus(h, m) = "InvalidDst", LeaveChannel(p, c),
              UNCHANGED <<senders, recvers, key, signal, histVars>>
       PROVE  GoesOn(p)
  <2>1. Decided(p)
    BY <1>7, <1>11, RefusedFacts
  <2>2. UNCHANGED <<op, calls, todo, buffer, senders, recvers, key, signal, moved, recvd>>
    BY <1>4, <1>11 DEF histVars
  <2> QED BY <1>1, <1>2, <1>11, <2>1, <2>2, JustLeaves
<1>12. CASE ThrowOut(p, c) /\ UNCHANGED <<senders, recvers, key, signal, histVars>>
  <2>1. UNCHANGED <<op, calls, todo, buffer, senders, recvers, key, signal, moved, recvd>>
    BY <1>4, <1>12 DEF histVars
  <2> QED BY <1>1, <1>2, <1>12, <2>1, JustLeaves
<1> QED BY <1>2, <1>6, <1>8, <1>9, <1>10, <1>11, <1>12 DEF MatchSender

LEMMA MatchRecverGoesOn ==
  ASSUME IInv, PendInv, LinkInv, NEW p \in Proc, MatchRecver(p)
  PROVE  GoesOn(p)
<1>1. pc[p] = "match" /\ CurrentCase(p).dir = "send" /\ Inside(p)
  BY DEF MatchRecver, Inside
<1>2. PICK c \in Chan :
        /\ c = CurrentCase(p).chan
        /\ lock[c] = p /\ Knows(p, c) /\ ~(Live(senders[c]) /\ Live(recvers[c]))
        /\ buffer[c] \in Seq(Value)
        /\ Len(buffer[c]) \in Nat /\ Len(buffer[c]) <= Cap[c] /\ Cap[c] \in Nat
        /\ buffer[c] = <<>> <=> Len(buffer[c]) = 0
  BY <1>1, HeldFacts
<1>3. Settled(c)
  BY <1>1, <1>2 DEF Knows
<1>4. UNCHANGED <<op, calls, todo>> /\ buffer' = buffer /\ op' = op
  BY DEF MatchRecver
<1>5. TypeQ /\ ListInv /\ Control
  BY DEF IInv
<1>6. PICK m : m = Current(p)
  OBVIOUS
<1>7. /\ m \in Msg /\ m[1] = p /\ m[2] \in DOMAIN op[p].cases
      /\ op[p].cases[m[2]] = [dir |-> "send", chan |-> c]
  BY <1>1, <1>2, <1>5, <1>6, InsideFacts DEF Current, CurrentCase
<1>8. CASE /\ recvers[c] = <<>>
           /\ LeaveChannel(p, c)
           /\ senders' = IF op[p].kind = "nowait" THEN senders
                         ELSE [senders EXCEPT ![c] = Append(@, m)]
           /\ UNCHANGED <<recvers, key, signal, histVars>>
  <2>1. recvers' = recvers /\ UNCHANGED <<key, signal, moved, recvd>>
    BY <1>8 DEF histVars
  <2>2. CASE op[p].kind = "nowait"
    <3>1. senders' = senders
      BY <1>8, <2>2
    <3> QED BY <1>1, <1>2, <1>4, <1>8, <2>1, <2>2, <3>1, JustLeaves
  <2>3. CASE op[p].kind # "nowait"
    <3>1. LinksIn(Current(p), c)
      BY <1>6, <1>8, <2>1, <2>3 DEF LinksIn
    <3> QED BY <1>1, <1>2, <1>4, <1>8, <2>1, <2>3, <3>1, LinksAndLeaves
  <2> QED BY <2>2, <2>3
<1>9. ASSUME recvers[c] # <<>>, NEW h, h = Head(recvers[c]), TransferStatus(m, h) = "Ok",
             recvers' = [recvers EXCEPT ![c] = Tail(@)],
             Handover(m, h, c), LeaveChannel(p, c), senders' = senders
      PROVE  GoesOn(p)
  <2>1. h \in Msg /\ h \in ToSet(recvers[c]) /\ Waits(h, "recv", c) /\ Loses(h)
    BY <1>5, <1>9, HeadFacts, PopLoses
  <2>2. ~Decided(h[1]) /\ ~Decided(p) /\ h[1] # p
    BY <1>1, <1>5, <1>7, <1>9, <2>1, StatusFacts, TwoProcesses
  <2>3. /\ op[h[1]].cases[h[2]] = [dir |-> "recv", chan |-> c]
        /\ op[m[1]].cases[m[2]] = [dir |-> "send", chan |-> c]
    BY <1>7, <2>1 DEF Waits
  <2>4. buffer[c] = <<>>
    BY <1>3, <2>1, <2>2 DEF Settled, Live
  <2> QED BY <1>1, <1>2, <1>4, <1>6, <1>9, <2>1, <2>2, <2>3, <2>4, Meets
<1>10. ASSUME recvers[c] # <<>>, NEW h, h = Head(recvers[c]), TransferStatus(m, h) = "InvalidDst",
              recvers' = [recvers EXCEPT ![c] = Tail(@)],
              UNCHANGED <<lock, senders, pc, msgs, key, signal, histVars>>
       PROVE  GoesOn(p)
  <2>1. h \in Msg /\ h[1] \in Proc /\ Loses(h)
    BY <1>5, <1>10, HeadFacts, PopLoses DEF Msg
  <2>2. UNCHANGED <<pc, op, calls, todo, msgs, key, signal, moved, recvd>>
    BY <1>4, <1>10 DEF histVars
  <2>3. Unneeded(h[1])
    BY <1>10, <2>1, <2>2, DecidedUnneeded, RefusedFacts
  <2>4. Onward(p) /\ PendInv' /\ LinkInv'
    BY <1>1, <2>1, <2>2, <2>3, StayOnward
  <2>5. Silent
    BY <1>4, <2>2 DEF Silent
  <2> QED BY <2>4, <2>5 DEF GoesOn
<1>11. ASSUME recvers[c] # <<>>, NEW h, h = Head(recvers[c]), TransferStatus(m, h) = "InvalidSrc",
              LeaveChannel(p, c), UNCHANGED <<senders, recvers, key, signal, histVars>>
       PROVE  GoesOn(p)
  <2>1. h \in Msg /\ h[1] \in Proc /\ Waits(h, "recv", c)
    BY <1>5, <1>11, HeadFacts DEF Msg
  <2>2. UNCHANGED <<op, calls, todo, buffer, senders, recvers, key, signal, moved, recvd>>
    BY <1>4, <1>11 DEF histVars
  <2>3. op[p].kind = "nowait" \/ Decided(p) \/ Overlooked(p)
    <3> SUFFICES ASSUME Decided(h[1]), ~Multiplex(p), op[p].kind # "nowait" PROVE Overlooked(p)
      BY <1>7, <1>11, RefusedFacts
    <3>1. Multiplex(h[1])
      BY DEF Decided
    <3>2. h[2] \in DOMAIN op[h[1]].cases
      BY <1>5, <2>1, WaitsFacts
    <3>3. op[h[1]].cases[h[2]] = [dir |-> "recv", chan |-> c]
      BY <2>1 DEF Waits
    <3> QED BY <1>7, <2>1, <3>1, <3>2, <3>3, MeetsSelect
  <2> QED BY <1>1, <1>2, <1>11, <2>2, <2>3, JustLeaves
<1>12. CASE ThrowOut(p, c) /\ UNCHANGED <<senders, recvers, key, signal, histVars>>
  <2>1. UNCHANGED <<op, calls, todo, buffer, senders, recvers, key, signal, moved, recvd>>
    BY <1>4, <1>12 DEF histVars
  <2> QED BY <1>1, <1>2, <1>12, <2>1, JustLeaves
<1> QED BY <1>2, <1>6, <1>8, <1>9, <1>10, <1>11, <1>12 DEF MatchRecver

-----------------------------------------------------------------------------
(* Outside the channels.                                                   *)

\* A step of p outside the channels, p's own part aside.
LEMMA OutsideKeeps ==
  ASSUME IInv, PendInv, LinkInv, NEW p \in Proc, Others(p), \A r \in Proc \ {p} : Untaken(r),
         NEW m, m[1] = p, Loses(m), Unneeded(p) \/ \A n : Loses(n), PendOK(p)', LinkOK(p)'
  PROVE  PendInv' /\ LinkInv'
<1>1. ASSUME NEW r \in Proc \ {p} PROVE PendOK(r)' /\ LinkOK(r)'
  <2>1. pc'[r] = pc[r] /\ op'[r] = op[r] /\ msgs'[r] = msgs[r] /\ Untaken(r)
    BY DEF Others
  <2>2. PendOK(r)'
    BY <2>1, PendUntaken DEF PendInv, Active
  <2>3. LinkOK(r)'
    BY <2>1, LinkStays DEF LinkInv, Untaken
  <2> QED BY <2>2, <2>3
<1> QED BY <1>1 DEF PendInv, LinkInv

LEMMA CheckGoesOn ==
  ASSUME IInv, PendInv, LinkInv, NEW p \in Proc, Check(p)
  PROVE  GoesOn(p)
<1>1. /\ pc[p] = "check" /\ pc'[p] \in {"listen", "choose", "wait"}
      /\ pc'[p] = "choose" => op[p].kind = "default"
      /\ op[p].kind # "nowait"
      /\ \A r \in Proc \ {p} : pc'[r] = pc[r]
  BY DEF Check, IInv, Control, TypeC, ProcOK, Multiplex
<1>2. UNCHANGED <<buffer, senders, recvers, op, calls, todo, msgs, key, signal, moved, recvd>>
  BY DEF Check, chanVars, histVars
<1>3. Onward(p)
  BY <1>1, <1>2 DEF Onward, Active, Others
<1>4. Commits({}) /\ Silent
  BY <1>2, CommitsNone DEF Silent
<1>5. PendInv'
  BY <1>3, <1>4, CommitsPend
<1>6. LinkOK(p)'
  <2> SUFFICES ASSUME moved[p] = <<>>, ~Overlooked(p), NEW i \in ToSet(msgs[p])
               PROVE  <<p, i>> \in Linked
    BY <1>2 DEF LinkOK, Overlooked, Linked
  <2> QED BY <1>1 DEF LinkInv, LinkOK, Active, Inside
<1>7. LinkInv'
  <2>1. <<Free, 0>>[1] \notin Proc /\ Loses(<<Free, 0>>)
    BY <1>2, SameLinked, ChannelAssumption
  <2> QED BY <1>3, <1>4, <1>6, <2>1, LinkStep DEF Onward
<1> QED BY <1>3, <1>4, <1>5, <1>7 DEF GoesOn

\* p does not wait any more: it finishes, or its frame is destroyed.
LEMMA StopsGoesOn ==
  ASSUME IInv, PendInv, LinkInv, NEW p \in Proc, Active(p), NEW l \in {"drop", "unwind"},
         pc' = [pc EXCEPT ![p] = l],
         UNCHANGED <<buffer, senders, recvers, op, calls, todo, msgs, moved, recvd>>,
         \A r \in Proc \ {p} : Untaken(r), l = "unwind" => key' = key,
         l = "drop" => moved[p] # <<>> \/ op[p].kind = "default"
  PROVE  GoesOn(p)
<1>1. pc'[p] = l /\ \A r \in Proc \ {p} : pc'[r] = pc[r]
  BY DEF IInv, Control, TypeC
<1>2. Onward(p) /\ Silent
  BY <1>1 DEF Onward, Active, Others, Silent
<1>3. PendOK(p)' /\ LinkOK(p)'
  <2>1. LinkOK(p)'
    BY <1>1, LinkIdle DEF Active
  <2>2. PendOK(p)'
    BY <1>1 DEF PendInv, PendOK, Active, Multiplex, DefaultKey
  <2> QED BY <2>1, <2>2
<1>4. PendInv' /\ LinkInv'
  <2>1. <<p, 0>>[1] = p /\ \A n : Loses(n)
    BY SameLinked
  <2> QED BY <1>2, <1>3, <2>1, OutsideKeeps DEF Onward
<1> QED BY <1>2, <1>4 DEF GoesOn

LEMMA SignalledGoesOn ==
  ASSUME IInv, PendInv, LinkInv, NEW p \in Proc, Signalled(p)
  PROVE  GoesOn(p)
<1>1. pc[p] = "wait" /\ signal[p] > 0 /\ Active(p)
  BY DEF Signalled, Active
<1>2. /\ UNCHANGED <<buffer, senders, recvers, op, calls, todo, msgs, moved, recvd>>
      /\ pc' = [pc EXCEPT ![p] = "drop"]
  BY DEF Signalled, chanVars, histVars
<1>3. \A r \in Proc \ {p} : Untaken(r)
  BY DEF Signalled, histVars, Untaken, IInv, TypeM
<1>4. moved[p] # <<>>
  <2>1. MoveOK(p)
    BY DEF IInv, MoveInv
  <2>2. CASE Multiplex(p)
    <3>1. Decided(p)
      BY <1>1, <2>1, <2>2 DEF MoveOK, Decided
    <3> QED BY <1>1, <3>1, DecidedMoved
  <2>3. CASE ~Multiplex(p)
    <3>1. moved[p] = <<1>>
      BY <1>1, <2>1, <2>3 DEF MoveOK
    <3> QED BY <3>1
  <2> QED BY <2>2, <2>3
<1> QED BY <1>1, <1>2, <1>3, <1>4, StopsGoesOn

LEMMA ChooseGoesOn ==
  ASSUME IInv, PendInv, LinkInv, NEW p \in Proc, Choose(p)
  PROVE  GoesOn(p)
<1>1. pc[p] = "choose" /\ Active(p) /\ op[p].kind = "default"
  BY DEF Choose, Active, PendInv, PendOK
<1>2. /\ UNCHANGED <<buffer, senders, recvers, op, calls, todo, msgs, moved, recvd>>
      /\ pc' = [pc EXCEPT ![p] = "drop"]
  BY DEF Choose, chanVars, histVars
<1>3. \A r \in Proc \ {p} : Untaken(r)
  BY DEF Choose, histVars, Untaken, IInv, TypeM
<1> QED BY <1>1, <1>2, <1>3, StopsGoesOn

LEMMA KillGoesOn ==
  ASSUME IInv, PendInv, LinkInv, NEW p \in Proc, Kill(p)
  PROVE  GoesOn(p)
<1>1. pc[p] = "wait" /\ Active(p)
  BY DEF Kill, Active
<1>2. /\ UNCHANGED <<buffer, senders, recvers, op, calls, todo, msgs, moved, recvd, key, signal>>
      /\ pc' = [pc EXCEPT ![p] = "unwind"]
  BY DEF Kill, chanVars, histVars
<1>3. \A r \in Proc \ {p} : Untaken(r)
  BY <1>2 DEF Untaken
<1> QED BY <1>1, <1>2, <1>3, StopsGoesOn

LEMMA DropGoesOn ==
  ASSUME IInv, PendInv, LinkInv, NEW p \in Proc, Drop(p)
  PROVE  GoesOn(p)
<1>1. Control /\ TypeC /\ TypeQ /\ ListInv
  BY DEF IInv, Control
<1>2. /\ Head(msgs[p]) \in DOMAIN op[p].cases
      /\ op[p].cases[Head(msgs[p])].chan \in Chan
  BY <1>1, DropControl
<1>3. PICK m : m = <<p, Head(msgs[p])>>
  OBVIOUS
<1>4. PICK c \in Chan : c = op[p].cases[Head(msgs[p])].chan
  BY <1>2
<1>5. m \in Msg /\ m[1] = p
  BY <1>1, <1>2, <1>3, OpFacts DEF Msg
<1>6. Loses(m)
  <2>1. ListsOK(senders) /\ ListsOK(recvers)
    BY <1>1, InList
  <2>2. /\ Without([senders EXCEPT ![c] = Unlink(@, m)], senders, c, m)
        /\ Without([recvers EXCEPT ![c] = Unlink(@, m)], recvers, c, m)
    BY <1>5, <2>1, DropFacts
  <2>3. /\ senders' = [senders EXCEPT ![c] = Unlink(@, m)]
        /\ recvers' = [recvers EXCEPT ![c] = Unlink(@, m)]
    BY <1>3, <1>4 DEF Drop
  <2>4. Without(senders', senders, c, m) /\ Without(recvers', recvers, c, m)
    BY <2>2, <2>3
  <2> QED BY <2>4 DEF Without, Loses
<1>7. /\ UNCHANGED <<buffer, pc, op, calls, todo, key, signal, moved, recvd>>
      /\ pc[p] \in {"drop", "unwind"} /\ \A r \in Proc \ {p} : msgs'[r] = msgs[r]
  BY <1>1 DEF Drop, histVars, TypeC
<1>8. Onward(p)
  BY <1>7 DEF Onward, Others, Active
<1>9. Commits({}) /\ Silent
  BY <1>7, CommitsNone DEF Silent
<1>10. PendInv'
  BY <1>8, <1>9, CommitsPend
<1>11. LinkOK(p)' /\ Unneeded(p)
  BY <1>7, LinkIdle DEF Active, Unneeded
<1>12. LinkInv'
  BY <1>5, <1>6, <1>8, <1>9, <1>11, LinkStep DEF Onward
<1> QED BY <1>8, <1>9, <1>10, <1>12 DEF GoesOn

\* A new operation begins with nothing taken, no key and no permit.
LEMMA CallKeeps ==
  ASSUME IInv, PendInv, LinkInv, NEW p \in Proc, Call(p)
  PROVE  PendInv' /\ LinkInv'
<1>1. PICK o \in Ops[p] : op' = [op EXCEPT ![p] = o]
  BY DEF Call
<1>2. /\ pc'[p] = "listen" /\ key'[p] = NoKey /\ signal'[p] = 0 /\ moved'[p] = <<>> /\ op'[p] = o
      /\ msgs'[p] = <<>> /\ Others(p) /\ \A r \in Proc \ {p} : Untaken(r)
  <2>1. msgs' = msgs /\ pc'[p] = "listen" /\ Others(p)
    BY CallControl DEF IInv
  <2>2. msgs[p] = <<>>
    BY DEF Call, IInv, Control, ProcOK
  <2>3. /\ key'[p] = NoKey /\ signal'[p] = 0 /\ moved'[p] = <<>> /\ op'[p] = o
        /\ \A r \in Proc \ {p} : Untaken(r)
    BY <1>1 DEF Call, Untaken, IInv, Control, TypeC, TypeM
  <2> QED BY <2>1, <2>2, <2>3
<1>3. PendOK(p)'
  <2>1. o \in OpType
    BY ChannelAssumption
  <2>2. Len(o.cases) \in Nat
    BY <2>1, LenProperties DEF OpType
  <2>3. NoKey # Len(o.cases) + 1
    BY <2>2 DEF NoKey
  <2> QED BY <1>2, <2>3 DEF PendOK, DefaultKey
<1>4. LinkOK(p)'
  BY <1>2 DEF LinkOK, ToSet
<1>5. <<p, 0>>[1] = p /\ \A n : Loses(n)
  BY SameLinked DEF Call, chanVars
<1> QED BY <1>2, <1>3, <1>4, <1>5, OutsideKeeps

LEMMA ReturnKeeps ==
  ASSUME IInv, PendInv, LinkInv, NEW p \in Proc, Return(p)
  PROVE  PendInv' /\ LinkInv'
<1>1. UNCHANGED <<buffer, senders, recvers, op, calls, msgs, key, signal, moved, recvd>>
  BY DEF Return, chanVars, histVars
<1>2. /\ pc'[p] \in {"idle", "dead"}
      /\ \A r \in Proc \ {p} : pc'[r] = pc[r] /\ todo'[r] = todo[r]
  BY DEF Return, IInv, Control, TypeC
<1>3. Others(p) /\ \A r \in Proc : Untaken(r)
  BY <1>1, <1>2 DEF Others, Untaken
<1>4. PendOK(p)' /\ LinkOK(p)'
  <2>1. PendOK(p)'
    BY <1>1, <1>2 DEF PendInv, PendOK, Active
  <2>2. LinkOK(p)'
    BY <1>2, LinkIdle DEF Active
  <2> QED BY <2>1, <2>2
<1>5. <<p, 0>>[1] = p /\ \A n : Loses(n)
  BY <1>1, SameLinked
<1> QED BY <1>3, <1>4, <1>5, OutsideKeeps

LEMMA StepGoesOn ==
  ASSUME IInv, PendInv, LinkInv, NEW p \in Proc, Step(p) \/ Kill(p), ~Return(p)
  PROVE  GoesOn(p)
  BY BufferSendToGoesOn, BufferRecvFromGoesOn, RefillFromSendersGoesOn, RefillToRecversGoesOn,
     MatchSenderGoesOn, MatchRecverGoesOn, CheckGoesOn, SignalledGoesOn, ChooseGoesOn, DropGoesOn,
     KillGoesOn DEF Step

LEMMA PendLinkHolds == Spec => [](PendInv /\ LinkInv)
<1>1. Init => PendInv /\ LinkInv
  <2> SUFFICES ASSUME Init, NEW p \in Proc PROVE PendOK(p) /\ LinkOK(p)
    BY DEF PendInv, LinkInv
  <2>1. pc[p] = "idle" /\ op[p] = NoOp
    BY DEF Init
  <2> QED BY <2>1 DEF PendOK, LinkOK, Active
<1>2. IInv /\ PendInv /\ LinkInv /\ [Next]_vars => (PendInv /\ LinkInv)'
  <2> SUFFICES ASSUME IInv, PendInv, LinkInv, [Next]_vars PROVE PendInv' /\ LinkInv'
    OBVIOUS
  <2>1. CASE UNCHANGED vars
    BY <2>1 DEF vars, PendInv, PendOK, LinkInv, LinkOK, Active, Inside, Multiplex, DefaultKey,
                Overlooked, Linked
  <2>2. ASSUME NEW p \in Proc, Call(p) PROVE PendInv' /\ LinkInv'
    BY <2>2, CallKeeps
  <2>3. ASSUME NEW p \in Proc, Step(p) \/ Kill(p) PROVE PendInv' /\ LinkInv'
    <3>1. CASE Return(p)
      BY <3>1, ReturnKeeps
    <3>2. CASE ~Return(p)
      BY <2>3, <3>2, StepGoesOn DEF GoesOn
    <3> QED BY <3>1, <3>2
  <2> QED BY <2>1, <2>2, <2>3 DEF Next
<1> QED BY <1>1, <1>2, Holds, PTL DEF Spec

-----------------------------------------------------------------------------
(* What nowait() << returns.                                               *)

\* A nowait operation that has left the channel returns true if and only if its value
\* has moved.
AnswerOK(p) ==
  pc[p] = "drop" /\ op[p].kind = "nowait" => (result[p] <=> moved[p] # <<>>)

AnswerInv == TypeR /\ \A p \in Proc : AnswerOK(p)

\* The value of a message that is committed moves.
LEMMA CommitMoves ==
  ASSUME IInv, NEW p \in Proc, NEW ms, Commit(ms), NEW i \in DOMAIN op[p].cases, <<p, i>> \in ms
  PROVE  moved'[p] # <<>>
<1> DEFINE of == {j \in DOMAIN op[p].cases : <<p, j>> \in ms}
           k == CHOOSE j \in of : TRUE
<1>1. k \in DOMAIN op[p].cases
  BY DEF of
<1>2. k \in Nat
  BY <1>1, OpFacts DEF IInv, Control
<1>3. moved'[p] = Append(moved[p], k)
  BY DEF Commit
<1>4. moved[p] \in Seq(Nat)
  BY DEF IInv, TypeM
<1>5. ASSUME NEW q \in Seq(Nat), NEW j \in Nat PROVE Append(q, j) # <<>>
  <2>1. Append(q, j) \in Seq(Nat) /\ Len(Append(q, j)) = Len(q) + 1
    OBVIOUS
  <2>2. Len(q) \in Nat /\ Len(<<>>) = 0
    OBVIOUS
  <2> QED BY <2>1, <2>2
<1> HIDE DEF k, of
<1> QED BY <1>2, <1>3, <1>4, <1>5

\* Only p's result may change in a step of p, and only when p leaves a channel.
LEMMA AnswerFacts ==
  ASSUME TypeR, NEW p \in Proc, NEW ok \in BOOLEAN, Answer(p, ok)
  PROVE  /\ TypeR'
         /\ \A r \in Proc \ {p} : result'[r] = result[r]
         /\ pc'[p] = "drop" => result'[p] = ok
<1>1. CASE pc'[p] = "drop"
  BY <1>1 DEF Answer, TypeR
<1>2. CASE pc'[p] # "drop"
  BY <1>2 DEF Answer, TypeR
<1> QED BY <1>1, <1>2

LEMMA StepAnswers ==
  ASSUME TypeR, NEW p \in Proc, Step(p) \/ Kill(p)
  PROVE  TypeR' /\ \A r \in Proc \ {p} : result'[r] = result[r]
<1>1. result' = result \/ \E ok \in BOOLEAN : Answer(p, ok)
  BY DEF Step, BufferSendTo, BufferRecvFrom, RefillFromSenders, RefillToRecvers, MatchSender,
         MatchRecver, Check, Signalled, Choose, Drop, Return, Kill
<1>2. CASE result' = result
  BY <1>2 DEF TypeR
<1>3. CASE \E ok \in BOOLEAN : Answer(p, ok)
  BY <1>3, AnswerFacts
<1> QED BY <1>1, <1>2, <1>3

\* A step moves nothing of an operation that has finished, and takes nothing back.
LEMMA MovedStays ==
  ASSUME IInv, NEW p \in Proc, GoesOn(p), NEW r \in Proc
  PROVE  /\ op'[r] = op[r]
         /\ pc[r] = "drop" => moved'[r] = moved[r]
         /\ moved[r] # <<>> => moved'[r] # <<>>
<1>1. CASE Silent
  BY <1>1 DEF Silent
<1>2. CASE Transfers
  <2>1. PICK ms : Commits(ms)
    BY <1>2 DEF Transfers, TakesBuffered, PutsBuffered, HandsOver
  <2>2. op' = op /\ (moved[r] # <<>> => moved'[r] # <<>>)
    BY <2>1, TakenFacts DEF Commits
  <2>3. pc[r] = "drop" => Untaken(r)
    BY <2>1 DEF Commits, CanTake
  <2> QED BY <2>2, <2>3 DEF Untaken
<1> QED BY <1>1, <1>2 DEF GoesOn

\* BaseChannel::send_to and recv_from return Ok from the loops of _buffer_send_to and
\* _buffer_recv_from.
LEMMA RefillAnswers ==
  ASSUME IInv, PendInv, LinkInv, AnswerInv, NEW p \in Proc,
         RefillFromSenders(p) \/ RefillToRecvers(p)
  PROVE  AnswerOK(p)'
<1>1. pc[p] = "refill" /\ Answer(p, TRUE)
  BY DEF RefillFromSenders, RefillToRecvers
<1>2. moved[p] # <<>>
  BY <1>1 DEF PendInv, PendOK
<1>3. moved'[p] # <<>>
  BY <1>2, MovedStays, RefillFromSendersGoesOn, RefillToRecversGoesOn
<1>4. pc'[p] = "drop" => result'[p] = TRUE
  BY <1>1, AnswerFacts DEF AnswerInv
<1> QED BY <1>3, <1>4 DEF AnswerOK

\* From the loops over the linked messages they return Ok with a hand-over only.
LEMMA MatchAnswers ==
  ASSUME IInv, PendInv, LinkInv, AnswerInv, NEW p \in Proc, MatchSender(p) \/ MatchRecver(p)
  PROVE  AnswerOK(p)'
<1> SUFFICES ASSUME pc'[p] = "drop", op'[p].kind = "nowait"
             PROVE  result'[p] <=> moved'[p] # <<>>
  BY DEF AnswerOK
<1>1. pc[p] = "match" /\ op' = op /\ Inside(p) /\ Control
  BY DEF MatchSender, MatchRecver, Inside, IInv
<1>2. moved[p] = <<>>
  BY <1>1 DEF IInv, MoveInv, MoveOK, Multiplex
<1>3. Last(msgs[p]) \in DOMAIN op[p].cases
  BY <1>1, InsideFacts
<1>4. \/ Answer(p, TRUE) /\ \E ms : Commit(ms) /\ Current(p) \in ms
      \/ Answer(p, FALSE) /\ moved' = moved
  <2>1. PICK c : c = CurrentCase(p).chan
    OBVIOUS
  <2>2. CASE MatchSender(p)
    <3>1. CASE senders[c] # <<>> /\ TransferStatus(Head(senders[c]), Current(p)) = "Ok"
      BY <1>1, <2>1, <2>2, <3>1 DEF MatchSender, Handover
    <3>2. CASE ~(senders[c] # <<>> /\ TransferStatus(Head(senders[c]), Current(p)) = "Ok")
      BY <1>1, <2>1, <2>2, <3>2 DEF MatchSender, histVars
    <3> QED BY <3>1, <3>2
  <2>3. CASE MatchRecver(p)
    <3>1. CASE recvers[c] # <<>> /\ TransferStatus(Current(p), Head(recvers[c])) = "Ok"
      BY <1>1, <2>1, <2>3, <3>1 DEF MatchRecver, Handover
    <3>2. CASE ~(recvers[c] # <<>> /\ TransferStatus(Current(p), Head(recvers[c])) = "Ok")
      BY <1>1, <2>1, <2>3, <3>2 DEF MatchRecver, histVars
    <3> QED BY <3>1, <3>2
  <2> QED BY <2>2, <2>3
<1>5. CASE Answer(p, TRUE) /\ \E ms : Commit(ms) /\ Current(p) \in ms
  <2>1. moved'[p] # <<>>
    BY <1>3, <1>5, CommitMoves DEF Current
  <2>2. result'[p] = TRUE
    BY <1>5, AnswerFacts DEF AnswerInv
  <2> QED BY <2>1, <2>2
<1>6. CASE Answer(p, FALSE) /\ moved' = moved
  <2>1. result'[p] = FALSE
    BY <1>6, AnswerFacts DEF AnswerInv
  <2> QED BY <1>2, <1>6, <2>1
<1> QED BY <1>4, <1>5, <1>6

\* The other steps do not finish a nowait operation.
LEMMA OtherAnswers ==
  ASSUME IInv, PendInv, LinkInv, AnswerInv, NEW p \in Proc,
         \/ BufferSendTo(p) \/ BufferRecvFrom(p) \/ Check(p) \/ Signalled(p) \/ Choose(p)
         \/ Drop(p) \/ Return(p) \/ Kill(p)
  PROVE  AnswerOK(p)'
<1> SUFFICES ASSUME pc'[p] = "drop", op'[p].kind = "nowait"
             PROVE  result'[p] <=> moved'[p] # <<>>
  BY DEF AnswerOK
<1>1. TypeC /\ PendOK(p) /\ ProcOK(p) /\ AnswerOK(p)
  BY DEF IInv, Control, PendInv, AnswerInv
<1>2. CASE BufferSendTo(p) \/ BufferRecvFrom(p)
  BY <1>1, <1>2 DEF BufferSendTo, BufferRecvFrom, Enter, TypeC
<1>3. CASE Check(p) \/ Signalled(p) \/ Choose(p)
  <2>1. op' = op /\ pc[p] \in {"check", "wait", "choose"}
    BY <1>3 DEF Check, Signalled, Choose
  <2> QED BY <1>1, <2>1 DEF ProcOK, PendOK, Multiplex
<1>4. CASE Drop(p)
  BY <1>1, <1>4 DEF Drop, histVars, AnswerOK
<1>5. CASE Return(p) \/ Kill(p)
  BY <1>1, <1>5 DEF Return, Kill, TypeC
<1> QED BY <1>2, <1>3, <1>4, <1>5

LEMMA AnswerStep ==
  ASSUME IInv, PendInv, LinkInv, AnswerInv, [Next]_vars
  PROVE  AnswerInv'
<1>1. CASE UNCHANGED vars
  BY <1>1 DEF vars, AnswerInv, AnswerOK, TypeR
<1>2. ASSUME NEW p \in Proc, Call(p) PROVE AnswerInv'
  <2>1. TypeR' /\ \A r \in Proc \ {p} : result'[r] = result[r]
    BY <1>2 DEF Call, AnswerInv, TypeR
  <2>2. /\ pc'[p] = "listen"
        /\ \A r \in Proc \ {p} : pc'[r] = pc[r] /\ op'[r] = op[r] /\ moved'[r] = moved[r]
    BY <1>2 DEF Call, IInv, Control, TypeC, TypeM
  <2> QED BY <2>1, <2>2 DEF AnswerInv, AnswerOK
<1>3. ASSUME NEW p \in Proc, Step(p) \/ Kill(p) PROVE AnswerInv'
  <2>1. TypeR' /\ \A r \in Proc \ {p} : result'[r] = result[r]
    BY <1>3, StepAnswers DEF AnswerInv
  <2>2. AnswerOK(p)'
    BY <1>3, RefillAnswers, MatchAnswers, OtherAnswers DEF Step
  <2>3. ASSUME NEW r \in Proc \ {p} PROVE AnswerOK(r)'
    <3>1. pc'[r] = pc[r] /\ op'[r] = op[r] /\ (pc[r] = "drop" => moved'[r] = moved[r])
      <4>1. CASE Return(p)
        BY <4>1 DEF Return, histVars, IInv, Control, TypeC
      <4>2. CASE ~Return(p)
        <5>1. GoesOn(p)
          BY <1>3, <4>2, StepGoesOn
        <5> QED BY <5>1, MovedStays DEF GoesOn, Onward, Others
      <4> QED BY <4>1, <4>2
    <3> QED BY <2>1, <3>1 DEF AnswerInv, AnswerOK
  <2> QED BY <2>1, <2>2, <2>3 DEF AnswerInv
<1> QED BY <1>1, <1>2, <1>3 DEF Next

LEMMA AnswerHolds == Spec => []AnswerInv
<1>1. Init => AnswerInv
  BY DEF Init, AnswerInv, AnswerOK, TypeR
<1> QED BY <1>1, Holds, PendLinkHolds, AnswerStep, PTL DEF Spec

\* The variables of the channels, messages and selects keep their types: in particular
\* the moves of Commit and the links of BaseChannel stay within the operation's cases.
THEOREM ChannelTypes == Spec => []TypeOK
<1>1. IInv /\ AnswerInv => TypeOK
  BY TypeParts DEF IInv, Control, AnswerInv
<1> QED BY <1>1, Holds, AnswerHolds, PTL

\* An operation returns what it moved: Select::operator() the key of the one case whose
\* value was moved, or the default key when none was; a plain operation has moved its
\* value; and Nowait::operator<< returns true when it moved its value, false otherwise.
THEOREM OperationsReturnWhatMoved == Spec => []ReturnsWhatMoved
<1>1. IInv /\ AnswerInv => ReturnsWhatMoved
  <2> SUFFICES ASSUME IInv, AnswerInv, NEW p \in Proc, pc[p] = "drop"
               PROVE  CASE Multiplex(p) -> moved[p] = IF key[p] = DefaultKey(p) THEN <<>> ELSE <<key[p]>>
                        [] op[p].kind = "plain" -> moved[p] = <<1>>
                        [] OTHER -> moved[p] = IF result[p] THEN <<1>> ELSE <<>>
    BY DEF ReturnsWhatMoved
  <2>1. MoveOK(p) /\ AnswerOK(p)
    BY DEF IInv, MoveInv, AnswerInv
  <2>2. CASE Multiplex(p)
    <3>1. op[p].kind # "plain"
      BY <2>2 DEF Multiplex
    <3>2. moved[p] = IF key[p] = DefaultKey(p) THEN <<>> ELSE <<key[p]>>
      BY <2>1, <2>2 DEF MoveOK
    <3> QED BY <2>2, <3>1, <3>2
  <2>3. CASE ~Multiplex(p)
    <3>1. moved[p] \in {<<>>, <<1>>} /\ (op[p].kind = "plain" => moved[p] = <<1>>)
      BY <2>1, <2>3 DEF MoveOK
    <3>2. ASSUME op[p].kind # "plain"
          PROVE  moved[p] = IF result[p] THEN <<1>> ELSE <<>>
      <4>1. op[p].kind = "nowait"
        BY <2>3, <3>2, OpFacts DEF Multiplex, IInv, Control
      <4>2. result[p] <=> moved[p] # <<>>
        BY <2>1, <4>1 DEF AnswerOK
      <4>3. <<>> # <<1>>
        OBVIOUS
      <4> QED BY <3>1, <4>2, <4>3
    <3> QED BY <2>3, <3>1, <3>2
  <2> QED BY <2>2, <2>3
<1> QED BY <1>1, Holds, AnswerHolds, PTL

-----------------------------------------------------------------------------
(* Waiting.                                                                *)

\* Who waits without a signal has moved nothing.
LEMMA WaiterOK ==
  ASSUME PendInv, LinkInv, NEW p \in Proc, pc[p] = "wait", signal[p] = 0, ~Overlooked(p),
         NEW i \in ToSet(msgs[p])
  PROVE  <<p, i>> \in Linked
<1>1. Active(p) /\ ~Inside(p) /\ op[p].kind # "nowait"
  BY DEF Active, Inside, PendInv, PendOK
<1>2. moved[p] = <<>>
  BY <1>1 DEF PendInv, PendOK
<1> QED BY <1>1, <1>2 DEF LinkInv, LinkOK

\* An operation that waits for its signal has all its messages linked, so that the other
\* side of each of its cases finds it; a plain << is left out if it meets a select that
\* may receive from its channel.
THEOREM WaitersAreFound ==
  Spec => [](\A p \in Proc : pc[p] = "wait" /\ signal[p] = 0 /\ ~Overlooked(p) =>
               \A i \in ToSet(msgs[p]) : <<p, i>> \in Linked)
<1>1. PendInv /\ LinkInv =>
        \A p \in Proc : pc[p] = "wait" /\ signal[p] = 0 /\ ~Overlooked(p) =>
          \A i \in ToSet(msgs[p]) : <<p, i>> \in Linked
  BY WaiterOK
<1> QED BY <1>1, PendLinkHolds, PTL

\* No plain << on a channel from which a select may receive.
PlainMeetsPlain ==
  \A p \in Proc : \A o \in Ops[p] : \A c \in Chan :
    o.kind = "plain" /\ [dir |-> "send", chan |-> c] \in ToSet(o.cases) => ~SelectRecv(c)

\* Where no plain << meets a receiving select, whoever waits for a signal that has not
\* come is linked in every channel it listens to: no message is taken off a list by
\* BaseChannel::send_to or recv_from, nor left off it, unless its operation was committed.
THEOREM WaitersAreLinked ==
  ASSUME PlainMeetsPlain
  PROVE  Spec => []WaiterIsLinked
<1>1. PendInv /\ LinkInv => WaiterIsLinked
  <2> SUFFICES ASSUME PendInv, LinkInv, NEW p \in Proc, pc[p] = "wait", signal[p] = 0,
                      NEW i \in ToSet(msgs[p])
               PROVE  <<p, i>> \in Linked
    BY DEF WaiterIsLinked
  <2>1. op[p] \in Ops[p] \cup {NoOp}
    BY DEF PendInv, PendOK
  <2>2. ~Overlooked(p)
    <3>1. CASE op[p] \in Ops[p]
      BY <3>1 DEF Overlooked, PlainMeetsPlain
    <3>2. CASE op[p] = NoOp
      <4>1. ToSet(op[p].cases) = {}
        BY <3>2 DEF NoOp, ToSet
      <4> QED BY <4>1 DEF Overlooked
    <3> QED BY <2>1, <3>1, <3>2
  <2> QED BY <2>2, WaiterOK
<1> QED BY <1>1, PendLinkHolds, PTL

-----------------------------------------------------------------------------
(* The abstract channels.                                                  *)

LEMMA StageFacts ==
  ASSUME NEW r
  PROVE  /\ CanTake(r) => Stage(r) = "open"
         /\ pc[r] \notin {"idle", "dead"} /\ (pc[r] = "drop" \/ moved[r] # <<>>) => Stage(r) = "closed"
         /\ pc[r] \notin {"idle", "dead", "drop"} /\ moved[r] = <<>> => Stage(r) = "open"
         /\ pc[r] = "idle" => Stage(r) = "idle"
         /\ pc[r] = "dead" => Stage(r) = "gone"
  BY DEF Stage, CanTake

LEMMA StageNext ==
  ASSUME NEW r
  PROVE  /\ pc'[r] \notin {"idle", "dead"} /\ (pc'[r] = "drop" \/ moved'[r] # <<>>)
              => Stage(r)' = "closed"
         /\ pc'[r] \notin {"idle", "dead", "drop"} /\ moved'[r] = <<>> => Stage(r)' = "open"
         /\ pc'[r] = "idle" => Stage(r)' = "idle"
         /\ pc'[r] = "dead" => Stage(r)' = "gone"
         /\ pc'[r] = pc[r] /\ moved'[r] = moved[r] => Stage(r)' = Stage(r)
  BY DEF Stage

\* The stages after a transfer.
LEMMA TransferStages ==
  ASSUME IInv, NEW p \in Proc, Onward(p), moved'[p] # <<>>, NEW ms, Commits(ms), NEW r \in Proc
  PROVE  /\ (\E m \in ms : m[1] = r) => Stage(r) = "open" /\ Stage(r)' = "closed"
         /\ (\A m \in ms : m[1] # r) => Stage(r)' = Stage(r)
<1>1. ASSUME NEW m \in ms, m[1] = r PROVE Stage(r) = "open" /\ Stage(r)' = "closed"
  <2>1. CanTake(r) /\ moved'[r] # <<>>
    BY <1>1, TakenFacts DEF Commits
  <2>2. pc'[r] \notin {"idle", "dead"}
    BY <2>1 DEF Onward, Others, CanTake
  <2> QED BY <2>1, <2>2, StageFacts, StageNext
<1>2. ASSUME \A m \in ms : m[1] # r PROVE Stage(r)' = Stage(r)
  <2>1. moved'[r] = moved[r]
    BY <1>2 DEF Commits, Untaken
  <2>2. CASE r = p
    <3>1. pc[p] \notin {"idle", "dead"} /\ pc'[p] \notin {"idle", "dead"} /\ moved[p] # <<>>
      BY <2>1, <2>2 DEF Onward
    <3> QED BY <2>2, <3>1, StageFacts, StageNext
  <2>3. CASE r # p
    <3>1. pc'[r] = pc[r]
      BY <2>3 DEF Onward, Others
    <3> QED BY <2>1, <3>1, StageNext
  <2> QED BY <2>2, <2>3
<1> QED BY <1>1, <1>2

\* A function whose value at one or two places is replaced.
LEMMA StageOne ==
  ASSUME NEW q \in Proc, NEW x, Stage(q)' = x, \A r \in Proc \ {q} : Stage(r)' = Stage(r)
  PROVE  [r \in Proc |-> Stage(r)]' = [[r \in Proc |-> Stage(r)] EXCEPT ![q] = x]
  OBVIOUS

LEMMA StageTwo ==
  ASSUME NEW q \in Proc, NEW t \in Proc, q # t, NEW x, Stage(q)' = x, Stage(t)' = x,
         \A r \in Proc \ {q, t} : Stage(r)' = Stage(r)
  PROVE  [r \in Proc |-> Stage(r)]' = [[r \in Proc |-> Stage(r)] EXCEPT ![q] = x, ![t] = x]
  OBVIOUS

LEMMA MovedOne ==
  ASSUME TypeM, TypeM', NEW m \in Msg, Commits({m}), IInv
  PROVE  moved' = [moved EXCEPT ![m[1]] = <<m[2]>>]
<1>1. moved'[m[1]] = <<m[2]>>
  BY TakenFacts
<1>2. \A r \in Proc : r # m[1] => moved'[r] = moved[r]
  BY DEF Commits, Untaken
<1> QED BY <1>1, <1>2 DEF TypeM

LEMMA MovedTwo ==
  ASSUME TypeM, TypeM', NEW s \in Msg, NEW d \in Msg, s[1] # d[1], Commits({s, d}), IInv
  PROVE  moved' = [moved EXCEPT ![s[1]] = <<s[2]>>, ![d[1]] = <<d[2]>>]
<1>1. moved'[s[1]] = <<s[2]>> /\ moved'[d[1]] = <<d[2]>>
  BY TakenFacts
<1>2. \A r \in Proc : r # s[1] /\ r # d[1] => moved'[r] = moved[r]
  BY DEF Commits, Untaken
<1>3. s[1] \in Proc /\ d[1] \in Proc
  BY DEF Msg
<1> QED BY <1>1, <1>2, <1>3 DEF TypeM

LEMMA TakesBufferedRefines ==
  ASSUME IInv, TypeM', NEW p \in Proc, Onward(p), moved'[p] # <<>>, NEW m \in Msg, NEW c \in Chan,
         TakesBuffered(m, c)
  PROVE  Abs!Next
<1>1. Commits({m}) /\ m[1] \in Proc /\ m[2] \in DOMAIN op[m[1]].cases /\ op' = op /\ calls' = calls
  BY DEF TakesBuffered, Commits, Msg
<1>2. /\ Stage(m[1]) = "open" /\ Stage(m[1])' = "closed"
      /\ \A r \in Proc \ {m[1]} : Stage(r)' = Stage(r)
  BY <1>1, TransferStages
<1>3. [r \in Proc |-> Stage(r)]' = [[r \in Proc |-> Stage(r)] EXCEPT ![m[1]] = "closed"]
  BY <1>1, <1>2, StageOne
<1>4. moved' = [moved EXCEPT ![m[1]] = <<m[2]>>]
  BY <1>1, MovedOne DEF IInv
<1>5. Abs!Open(m[1], m[2], "recv", c)
  BY <1>1, <1>2 DEF TakesBuffered, Abs!Open
<1>6. Abs!Get(m[1], m[2], c)
  BY <1>1, <1>3, <1>4, <1>5 DEF TakesBuffered, Abs!Get, Abs!Take
<1>7. Abs!Transfer(m[1], c)
  BY <1>1, <1>6 DEF Abs!Transfer
<1> QED BY <1>1, <1>7 DEF Abs!Next

LEMMA PutsBufferedRefines ==
  ASSUME IInv, TypeM', NEW p \in Proc, Onward(p), moved'[p] # <<>>, NEW m \in Msg, NEW c \in Chan,
         PutsBuffered(m, c)
  PROVE  Abs!Next
<1>1. Commits({m}) /\ m[1] \in Proc /\ m[2] \in DOMAIN op[m[1]].cases /\ op' = op /\ calls' = calls
  BY DEF PutsBuffered, Commits, Msg
<1>2. /\ Stage(m[1]) = "open" /\ Stage(m[1])' = "closed"
      /\ \A r \in Proc \ {m[1]} : Stage(r)' = Stage(r)
  BY <1>1, TransferStages
<1>3. [r \in Proc |-> Stage(r)]' = [[r \in Proc |-> Stage(r)] EXCEPT ![m[1]] = "closed"]
  BY <1>1, <1>2, StageOne
<1>4. moved' = [moved EXCEPT ![m[1]] = <<m[2]>>]
  BY <1>1, MovedOne DEF IInv
<1>5. Abs!Open(m[1], m[2], "send", c)
  BY <1>1, <1>2 DEF PutsBuffered, Abs!Open
<1>6. Abs!Put(m[1], m[2], c)
  BY <1>1, <1>3, <1>4, <1>5 DEF PutsBuffered, Abs!Put, Abs!Take, ValueOf
<1>7. Abs!Transfer(m[1], c)
  BY <1>1, <1>6 DEF Abs!Transfer
<1> QED BY <1>1, <1>7 DEF Abs!Next

LEMMA HandsOverRefines ==
  ASSUME IInv, TypeM', NEW p \in Proc, Onward(p), moved'[p] # <<>>, NEW s \in Msg, NEW d \in Msg,
         NEW c \in Chan, HandsOver(s, d, c)
  PROVE  Abs!Next
<1>1. /\ Commits({s, d}) /\ s[1] # d[1] /\ op' = op /\ calls' = calls
      /\ s[1] \in Proc /\ s[2] \in DOMAIN op[s[1]].cases
      /\ d[1] \in Proc /\ d[2] \in DOMAIN op[d[1]].cases
  BY DEF HandsOver, Commits, Msg
<1>2. /\ Stage(s[1]) = "open" /\ Stage(s[1])' = "closed"
      /\ Stage(d[1]) = "open" /\ Stage(d[1])' = "closed"
      /\ \A r \in Proc \ {s[1], d[1]} : Stage(r)' = Stage(r)
  BY <1>1, TransferStages
<1>3. [r \in Proc |-> Stage(r)]' =
        [[r \in Proc |-> Stage(r)] EXCEPT ![s[1]] = "closed", ![d[1]] = "closed"]
  BY <1>1, <1>2, StageTwo
<1>4. moved' = [moved EXCEPT ![s[1]] = <<s[2]>>, ![d[1]] = <<d[2]>>]
  BY <1>1, MovedTwo DEF IInv
<1>5. Abs!Open(s[1], s[2], "send", c) /\ Abs!Open(d[1], d[2], "recv", c)
  BY <1>1, <1>2 DEF HandsOver, Abs!Open
<1>6. Abs!Meet(s[1], s[2], d[1], d[2], c)
  BY <1>1, <1>3, <1>4, <1>5 DEF HandsOver, Abs!Meet, ValueOf
<1>7. Abs!Transfer(s[1], c)
  BY <1>1, <1>6 DEF Abs!Transfer
<1> QED BY <1>1, <1>7 DEF Abs!Next

\* Without a transfer an operation stays open, or declines.
LEMMA SilentRefines ==
  ASSUME NEW p \in Proc, Onward(p), Silent
  PROVE  Abs!Next \/ UNCHANGED Abs!avars
<1>1. \A r \in Proc \ {p} : Stage(r)' = Stage(r)
  BY StageNext DEF Onward, Others, Silent
<1>2. pc[p] \notin {"idle", "dead"} /\ pc'[p] \notin {"idle", "dead"} /\ moved'[p] = moved[p]
  BY DEF Onward, Silent
<1>3. CASE pc'[p] = "drop" /\ pc[p] # "drop" /\ moved[p] = <<>>
  <2>1. Stage(p) = "open" /\ Stage(p)' = "closed" /\ op[p].kind \in {"nowait", "default"}
    BY <1>2, <1>3, StageFacts, StageNext DEF Onward
  <2>2. [r \in Proc |-> Stage(r)]' = [[r \in Proc |-> Stage(r)] EXCEPT ![p] = "closed"]
    BY <1>1, <2>1, StageOne
  <2>3. Abs!Decline(p)
    BY <2>1, <2>2 DEF Abs!Decline, Silent
  <2> QED BY <2>3 DEF Abs!Next
<1>4. CASE ~(pc'[p] = "drop" /\ pc[p] # "drop" /\ moved[p] = <<>>)
  <2>1. Stage(p)' = Stage(p)
    <3>1. pc[p] = "drop" => pc'[p] = "drop"
      BY DEF Onward
    <3> QED BY <1>2, <1>4, <3>1, StageFacts, StageNext
  <2>2. [r \in Proc |-> Stage(r)]' = [r \in Proc |-> Stage(r)]
    BY <1>1, <2>1
  <2> QED BY <2>2 DEF Abs!avars, Silent
<1> QED BY <1>3, <1>4

LEMMA CallRefines ==
  ASSUME IInv, NEW p \in Proc, Call(p)
  PROVE  Abs!Next
<1>1. Others(p) /\ pc'[p] = "listen" /\ pc[p] = "idle"
  BY CallControl DEF IInv, Call
<1>2. moved'[p] = <<>> /\ \A r \in Proc \ {p} : moved'[r] = moved[r]
  BY DEF Call, IInv, TypeM
<1>3. Stage(p) = "idle" /\ Stage(p)' = "open" /\ \A r \in Proc \ {p} : Stage(r)' = Stage(r)
  BY <1>1, <1>2, StageFacts, StageNext DEF Others
<1>4. [r \in Proc |-> Stage(r)]' = [[r \in Proc |-> Stage(r)] EXCEPT ![p] = "open"]
  BY <1>3, StageOne
<1>5. Abs!Begin(p)
  BY <1>3, <1>4 DEF Call, Abs!Begin, chanVars
<1> QED BY <1>5 DEF Abs!Next

LEMMA ReturnRefines ==
  ASSUME IInv, NEW p \in Proc, Return(p)
  PROVE  Abs!Next
<1>1. /\ UNCHANGED <<buffer, recvd, op, calls, moved>>
      /\ pc[p] \in {"drop", "unwind"} /\ pc'[p] = (IF pc[p] = "drop" THEN "idle" ELSE "dead")
      /\ \A r \in Proc \ {p} : pc'[r] = pc[r]
  BY DEF Return, chanVars, histVars, IInv, Control, TypeC
<1>2. \A r \in Proc \ {p} : Stage(r)' = Stage(r)
  BY <1>1, StageNext
<1>3. CASE pc[p] = "drop"
  <2>1. Stage(p) = "closed" /\ Stage(p)' = "idle"
    BY <1>1, <1>3, StageFacts, StageNext
  <2>2. [r \in Proc |-> Stage(r)]' = [[r \in Proc |-> Stage(r)] EXCEPT ![p] = "idle"]
    BY <1>2, <2>1, StageOne
  <2>3. Abs!Finish(p)
    BY <1>1, <2>1, <2>2 DEF Abs!Finish
  <2> QED BY <2>3 DEF Abs!Next
<1>4. CASE pc[p] = "unwind"
  <2>1. Stage(p) \in {"open", "closed"} /\ Stage(p)' = "gone"
    BY <1>1, <1>4, StageFacts, StageNext
  <2>2. [r \in Proc |-> Stage(r)]' = [[r \in Proc |-> Stage(r)] EXCEPT ![p] = "gone"]
    BY <1>2, <2>1, StageOne
  <2>3. Abs!Abandon(p)
    BY <1>1, <2>1, <2>2 DEF Abs!Abandon
  <2> QED BY <2>3 DEF Abs!Next
<1> QED BY <1>1, <1>3, <1>4

LEMMA NextRefines ==
  ASSUME IInv, PendInv, LinkInv, [Next]_vars
  PROVE  [Abs!Next]_(Abs!avars)
<1>1. CASE UNCHANGED vars
  BY <1>1 DEF vars, Abs!avars, Stage
<1>2. ASSUME NEW p \in Proc, Call(p) PROVE Abs!Next
  BY <1>2, CallRefines
<1>3. ASSUME NEW p \in Proc, Step(p) \/ Kill(p) PROVE Abs!Next \/ UNCHANGED Abs!avars
  <2>1. CASE Return(p)
    BY <2>1, ReturnRefines
  <2>2. CASE ~Return(p)
    <3>1. GoesOn(p)
      BY <1>3, <2>2, StepGoesOn
    <3>2. TypeM'
      BY <1>3, StepHolds DEF Next, IInv
    <3>3. CASE Silent
      BY <3>1, <3>3, SilentRefines DEF GoesOn
    <3>4. CASE Transfers /\ moved'[p] # <<>>
      BY <3>1, <3>2, <3>4, TakesBufferedRefines, PutsBufferedRefines, HandsOverRefines
         DEF GoesOn, Transfers
    <3> QED BY <3>1, <3>3, <3>4 DEF GoesOn
  <2> QED BY <2>1, <2>2
<1> QED BY <1>1, <1>2, <1>3 DEF Next

\* The channels and selects implement the atomic ones, for any number of coroutines,
\* channels, capacities and cases: each step of BaseChannel::send_to and recv_from, under
\* the channel's lock and the locks of one or two selects, takes one case of one operation,
\* with the buffer, or one case each of two, in the same step; an operation takes none
\* before it began, after it took one or declined, or after it is gone.
THEOREM ChannelsAreAtomic == Spec => ImplementsChannels
<1>1. Init => Abs!Init
  <2> SUFFICES ASSUME Init PROVE Abs!Init
    OBVIOUS
  <2>1. \A r \in Proc : Stage(r) = "idle"
    BY StageFacts DEF Init
  <2>2. [r \in Proc |-> Stage(r)] = [r \in Proc |-> "idle"]
    BY <2>1
  <2> QED BY <2>2 DEF Init, Abs!Init, NoOp
<1>2. IInv /\ PendInv /\ LinkInv /\ [Next]_vars => [Abs!Next]_(Abs!avars)
  BY NextRefines
<1> QED BY <1>1, <1>2, Holds, PendLinkHolds, PTL DEF Spec, ImplementsChannels, Abs!Spec
================================================================================
