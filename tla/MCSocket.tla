-------------------------------- MODULE MCSocket --------------------------------
(***************************************************************************)
(* Programs for Socket and TLC: fd1, fd2 are descriptors, A, B coroutines. *)
(***************************************************************************)
EXTENDS Socket, TLC

CONSTANTS fd1, fd2, A, B

Program(fd, calls, max) ==
  [fdOf |-> (A :> fd1) @@ (B :> fd), ops |-> (A :> calls[1]) @@ (B :> calls[2]), timed |-> {A, B},
   udp |-> {}, peer |-> {"data"}, maxOps |-> (A :> max[1]) @@ (B :> max[2]), maxArrive |-> 1]

\* A connects, receives, sends, closes (or listens by mistake) with timeouts, over and over.
Client ==
  [Program(fd2, <<{"connect", "listen", "recv", "send", "close"}, {}>>, <<3, 0>>)
     EXCEPT !.peer = {"data", "fin", "reset"}]

\* A accepts on fd1, B serves the connection that gets descriptor fd2; no timeouts.
Server ==
  [Program(fd2, <<{"listen", "accept"}, {"recv", "send", "close"}>>, <<3, 2>>)
     EXCEPT !.timed = {}, !.peer = {"data", "fin"}, !.maxArrive = 2]

\* A uses a UDP socket, with empty datagrams.
Datagram ==
  [Program(fd2, <<{"bind", "listen", "connect", "recv", "recvfrom", "send", "sendto"}, {}>>, <<3, 0>>)
     EXCEPT !.udp = {fd1}, !.peer = {"data", "empty"}, !.maxArrive = 2]

\* The same without timeouts, for one that waits.
Patient == [Datagram EXCEPT !.timed = {}, !.ops[A] = {"connect", "recv", "recvfrom", "send", "sendto"}]

\* A uses a connected UDP socket whose peer may not be there.
Lonely ==
  [Datagram EXCEPT !.peer = {"data", "empty", "icmp"}, !.ops[A] = {"connect", "recv", "send", "sendto"}]

\* A and B use one socket, and either closes it.
Shared == Program(fd1, <<{"connect", "recv", "close"}, {"send", "close"}>>, <<2, 1>>)

AllPrograms == {Client, Server, Datagram, Patient, Lonely, Shared}

\* A sends and receives on a connected UDP socket, without a timeout.
UnreachablePeer ==
  {[Program(fd2, <<{"connect", "send", "recv"}, {}>>, <<3, 0>>)
      EXCEPT !.timed = {}, !.udp = {fd1}, !.peer = {"data", "icmp"}]}
================================================================================
