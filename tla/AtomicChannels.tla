----------------------------- MODULE AtomicChannels -----------------------------
(***************************************************************************)
(* What channels and selects promise: an operation takes at most one of    *)
(* its cases, at one moment between its call and its return, and the value *)
(* moves at that moment: into the buffer, out of it, or straight from one  *)
(* open operation to another.  A channel is first in, first out; the order *)
(* in which waiting operations are served is not promised.                 *)
(***************************************************************************)
EXTENDS Naturals, Sequences

CONSTANTS Proc, Chan, Cap, Ops

VARIABLES
  buf,      \* the buffered values of each channel
  recvd,    \* the values received from it
  offer,    \* the operation of each process
  count,    \* how many it has begun
  taken,    \* the case it took, if any
  stage     \* idle, open, closed (no case can be taken any more), gone

avars == <<buf, recvd, offer, count, taken, stage>>

Init ==
  /\ buf = [c \in Chan |-> <<>>]
  /\ recvd = [c \in Chan |-> <<>>]
  /\ offer = [p \in Proc |-> [kind |-> "plain", cases |-> <<>>]]
  /\ count = [p \in Proc |-> 0]
  /\ taken = [p \in Proc |-> <<>>]
  /\ stage = [p \in Proc |-> "idle"]

Begin(p) ==
  /\ stage[p] = "idle"
  /\ \E o \in Ops[p] : offer' = [offer EXCEPT ![p] = o]
  /\ count' = [count EXCEPT ![p] = @ + 1]
  /\ taken' = [taken EXCEPT ![p] = <<>>]
  /\ stage' = [stage EXCEPT ![p] = "open"]
  /\ UNCHANGED <<buf, recvd>>

\* Case i of p can be taken: a send to c, or a receive from it.
Open(p, i, dir, c) ==
  stage[p] = "open" /\ i \in DOMAIN offer[p].cases /\ offer[p].cases[i] = [dir |-> dir, chan |-> c]

Take(p, i) ==
  /\ taken' = [taken EXCEPT ![p] = <<i>>]
  /\ stage' = [stage EXCEPT ![p] = "closed"]
  /\ UNCHANGED <<offer, count>>

Put(p, i, c) ==
  /\ Open(p, i, "send", c)
  /\ Len(buf[c]) < Cap[c]
  /\ buf' = [buf EXCEPT ![c] = Append(@, <<p, count[p]>>)]
  /\ Take(p, i)
  /\ UNCHANGED recvd

Get(q, j, c) ==
  /\ Open(q, j, "recv", c)
  /\ buf[c] # <<>>
  /\ buf' = [buf EXCEPT ![c] = Tail(@)]
  /\ recvd' = [recvd EXCEPT ![c] = Append(@, Head(buf[c]))]
  /\ Take(q, j)

\* p sends and q receives, at once.
Meet(p, i, q, j, c) ==
  /\ p # q
  /\ Open(p, i, "send", c) /\ Open(q, j, "recv", c)
  /\ buf[c] = <<>>
  /\ recvd' = [recvd EXCEPT ![c] = Append(@, <<p, count[p]>>)]
  /\ taken' = [taken EXCEPT ![p] = <<i>>, ![q] = <<j>>]
  /\ stage' = [stage EXCEPT ![p] = "closed", ![q] = "closed"]
  /\ UNCHANGED <<buf, offer, count>>

\* A nowait operation, or a select with a default case, takes none.
Decline(p) ==
  /\ stage[p] = "open" /\ offer[p].kind \in {"nowait", "default"}
  /\ stage' = [stage EXCEPT ![p] = "closed"]
  /\ UNCHANGED <<buf, recvd, offer, count, taken>>

Finish(p) ==
  /\ stage[p] = "closed"
  /\ stage' = [stage EXCEPT ![p] = "idle"]
  /\ UNCHANGED <<buf, recvd, offer, count, taken>>

\* The frame of the operation is destroyed, or left by an exception.
Abandon(p) ==
  /\ stage[p] \in {"open", "closed"}
  /\ stage' = [stage EXCEPT ![p] = "gone"]
  /\ UNCHANGED <<buf, recvd, offer, count, taken>>

Transfer(p, c) ==
  \E i \in DOMAIN offer[p].cases :
    \/ Put(p, i, c) \/ Get(p, i, c)
    \/ \E q \in Proc : \E j \in DOMAIN offer[q].cases : Meet(p, i, q, j, c)

Next ==
  \E p \in Proc :
    \/ Begin(p) \/ Decline(p) \/ Finish(p) \/ Abandon(p)
    \/ \E c \in Chan : Transfer(p, c)

Spec == Init /\ [][Next]_avars
================================================================================
