------------------------------- MODULE MCChannel -------------------------------
(* Instances of Channel for TLC.                                           *)
EXTENDS Channel

CONSTANTS p1, p2, p3, p4, a, b

Send(c) == [dir |-> "send", chan |-> c]
Recv(c) == [dir |-> "recv", chan |-> c]
Plain(case) == [kind |-> "plain", cases |-> <<case>>]
Nowait(case) == [kind |-> "nowait", cases |-> <<case>>]
Select(cases) == [kind |-> "select", cases |-> cases]
Default(cases) == [kind |-> "default", cases |-> cases]

FourProcs == {p1, p2, p3, p4}
ThreeProcs == {p1, p2, p3}
TwoChans == {a, b}
Unbuffered == [c \in Chan |-> 0]
OneBuffered == [c \in Chan |-> IF c = a THEN 0 ELSE 1]

\* The mixtures without plain senders, which can be matched in several ways: a sender
\* that waits or not, one that sends on b and receives on a or on b, a receiver.
MixedOps == [p \in Proc |->
  CASE p = p1 -> {Select(<<Send(a), Send(b)>>), Nowait(Send(a)), Default(<<Send(b), Send(a)>>)}
    [] p = p2 -> {Select(<<Recv(a), Send(b)>>), Select(<<Recv(b), Send(b)>>)}
    [] p = p3 -> {Select(<<Recv(a), Recv(b)>>), Plain(Recv(a))}]

\* Operations that must not wait, and plain ones to meet them: on b a plain sender and a
\* plain receiver.
NowaitOps == [p \in Proc |->
  CASE p = p1 -> {Nowait(Send(a)), Nowait(Send(b)), Plain(Send(b))}
    [] p = p2 -> {Plain(Recv(a)), Plain(Recv(b)), Default(<<Recv(a)>>)}
    [] p = p3 -> {Default(<<Send(a), Send(b)>>)}]

\* Plain senders, one for each channel, and receivers that select on both.
PlainToSelectOps == [p \in Proc |->
  CASE p = p1 -> {Plain(Send(a))}
    [] p = p2 -> {Plain(Send(b))}
    [] OTHER -> {Select(<<Recv(a), Recv(b)>>)}]
================================================================================
