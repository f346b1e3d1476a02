--------------------------------- MODULE Socket ---------------------------------
(***************************************************************************)
(* cgo::Socket: coroutines that call accept, connect, recv, send, recvfrom,*)
(* sendto and close, each a loop of a non-blocking system call and         *)
(* Socket::_wait_sock_event, which registers a one-shot callback with the  *)
(* handler, arms a timer when there is a timeout, and waits for whichever  *)
(* of the two is first to set the flag of the Signal they share.           *)
(*                                                                         *)
(* A wait is named by the ticket of its registration, and so is its        *)
(* Signal: the flag `timeout' (0 undecided, 1 event, -1 timer) and the     *)
(* permits of its semaphore.  The kernel's sockets are external: their     *)
(* receive queue, the room in their send buffer, a pending error, and what *)
(* the peer did.  Workers are not named: a context has enough of them for  *)
(* its coroutines, timers and events to interleave freely.                 *)
(*                                                                         *)
(* pc of a coroutine:  idle  between two operations                        *)
(*   call    before the system call of the loop                            *)
(*   mod     entered _wait_sock_event                                      *)
(*   timer   registered, about to create the timeout                       *)
(*   aquire  waiting for the Signal's semaphore                            *)
(*   status  connect() was woken, before getsockopt(SO_ERROR)              *)
(*   shut    close() removed the registration, before ::close              *)
(***************************************************************************)
EXTENDS EventHandler, Sequences

CONSTANTS
  Coroutine,
  Programs,    \* the programs to look at, see ProgramType
  SendSize,    \* units of data one send() has
  TxRoom       \* room in a kernel send buffer, in units

Operation == {"bind", "listen", "accept", "connect", "recv", "send", "recvfrom", "sendto", "close"}

NetworkEvent == {"data", "empty", "fin", "reset", "icmp"}

\* A program and its network: the socket each coroutine works on and the operations it
\* may call, who gives a timeout, which descriptors are UDP sockets, what the network
\* may do; and bounds on the operations and on what arrives.
ProgramType ==
  [fdOf : [Coroutine -> Fd], ops : [Coroutine -> SUBSET Operation], timed : SUBSET Coroutine,
   udp : SUBSET Fd, peer : SUBSET NetworkEvent, maxOps : [Coroutine -> Nat], maxArrive : Nat]

ASSUME SocketAssumption ==
  /\ Programs \subseteq ProgramType
  /\ SendSize \in Nat \ {0}
  /\ TxRoom \in Nat \ {0}

VARIABLES
  prog,      \* the program
  sock,      \* the kernel's sockets
  arrived,   \* messages and connections that arrived so far
  signal,    \* the Signals, by ticket: [timeout, vacant]
  timers,    \* the tickets whose timer is pending in the TimedContext
  pc, op,    \* where each coroutine is, and in which operation
  tid,       \* the ticket of its current wait
  left,      \* data.size() - i in send()
  res,       \* result of its last operation
  ops        \* operations it began

waitVars == <<signal, timers>>
coVars == <<pc, op, tid, left, res, ops>>
vars == <<prog, handlerVars, sock, arrived, waitVars, coVars>>

FdOf == prog.fdOf
Ops == prog.ops
Timed == prog.timed
Udp == prog.udp
Peer == prog.peer
MaxOps == prog.maxOps
MaxArrive == prog.maxArrive

SockState == {"free", "new", "listen", "connecting", "up", "fin", "reset"}
Result == {"none", "ok", "closed", "error", "timeout", "throw"}

TypeOK ==
  /\ HandlerTypeOK
  /\ prog \in Programs
  /\ sock \in [Fd -> [st : SockState, rx : Seq({"data", "empty"}), tx : 0..TxRoom, err : BOOLEAN]]
  /\ arrived \in 0..MaxArrive
  /\ \A t \in DOMAIN signal :
       /\ t \in 0..(gid - 1)
       /\ signal[t] \in [timeout : {-1, 0, 1}, vacant : Nat]
  /\ timers \subseteq DOMAIN signal
  /\ pc \in [Coroutine -> {"idle", "call", "mod", "timer", "aquire", "status", "shut"}]
  /\ op \in [Coroutine -> Operation]
  /\ \A c \in Coroutine : pc[c] \in {"timer", "aquire"} => tid[c] \in DOMAIN signal
  /\ left \in [Coroutine -> 0..SendSize]
  /\ res \in [Coroutine -> Result]
  /\ \A c \in Coroutine : ops[c] \in 0..MaxOps[c]

Closed == [st |-> "free", rx |-> <<>>, tx |-> TxRoom, err |-> FALSE]

Init ==
  /\ HandlerInit
  /\ prog \in Programs
  /\ sock = [f \in Fd |-> Closed]
  /\ arrived = 0
  /\ signal = << >>
  /\ timers = {}
  /\ pc = [c \in Coroutine |-> "idle"]
  /\ op = [c \in Coroutine |-> "close"]
  /\ tid = [c \in Coroutine |-> 0]
  /\ left = [c \in Coroutine |-> 0]
  /\ res = [c \in Coroutine |-> "none"]
  /\ ops = [c \in Coroutine |-> 0]

-----------------------------------------------------------------------------
(* The kernel and the network (external).                                  *)

\* What poll reports of a socket.  A TCP socket that is not connected hangs up; a
\* reset ends both directions; an ICMP error of a UDP socket is an error only.
Poll(f) ==
  LET s == sock[f]
      dead == s.st = "reset"
      unconnected == s.st = "new" /\ f \notin Udp
      has == [IN  |-> s.rx # <<>> \/ s.st = "fin" \/ dead,
              OUT |-> dead \/ unconnected \/ (s.tx > 0 /\ s.st \in {"new", "up", "fin"}),
              ERR |-> dead \/ unconnected \/ s.err]
  IN  IF s.st = "free" THEN {} ELSE {ev \in Event : has[ev]}

\* A datagram, a piece of a stream or a connection to accept arrives.
Arrive(f) ==
  /\ arrived < MaxArrive
  /\ arrived' = arrived + 1
  /\ \E m \in {"data", "empty"} \cap Peer :
       /\ \/ m = "data" /\ sock[f].st \in {"up", "listen"}
          \/ f \in Udp /\ sock[f].st \in {"new", "up"}
       /\ sock' = [sock EXCEPT ![f].rx = Append(@, m)]
  /\ UNCHANGED <<handlerVars, waitVars, coVars>>

\* The peer makes room in the send buffer, ends or resets the connection, answers
\* the connect, or is found to be unreachable by a datagram.
Network(f) ==
  /\ LET s == sock[f] IN
     \/ s.tx < TxRoom /\ sock' = [sock EXCEPT ![f].tx = TxRoom]
     \/ "fin" \in Peer /\ f \notin Udp /\ s.st = "up" /\ sock' = [sock EXCEPT ![f].st = "fin"]
     \/ "reset" \in Peer /\ f \notin Udp /\ s.st \in {"up", "fin"}
          /\ sock' = [sock EXCEPT ![f].st = "reset", ![f].err = TRUE]
     \/ s.st = "connecting" /\ sock' = [sock EXCEPT ![f].st = "up"]
     \/ s.st = "connecting" /\ sock' = [sock EXCEPT ![f].st = "reset", ![f].err = TRUE]
     \/ "icmp" \in Peer /\ f \in Udp /\ s.st = "up" /\ s.tx < TxRoom
          /\ sock' = [sock EXCEPT ![f].tx = TxRoom, ![f].err = TRUE]
  /\ UNCHANGED <<handlerVars, arrived, waitVars, coVars>>

\* What ::recv and ::recvfrom find.  A TCP socket yields what it received before
\* it reports the end or the reset, a UDP socket its error first.
RecvReply(f) ==
  LET s == sock[f] IN
  CASE s.st \in {"free", "listen"} \/ (s.st = "new" /\ f \notin Udp) -> "error"
    [] f \in Udp /\ s.err       -> "error"
    [] ~(f \in Udp /\ s.err) /\ s.st # "listen" /\ s.rx # <<>> -> Head(s.rx)
    [] s.rx = <<>> /\ s.st = "fin"   -> "eof"
    [] s.rx = <<>> /\ s.st = "reset" -> "reset"
    [] OTHER -> "again"

Received(s, n) ==
  CASE n \in {"data", "empty"} -> [s EXCEPT !.rx = Tail(@)]
    [] n \in {"error", "reset"} -> [s EXCEPT !.err = FALSE]
    [] OTHER -> s

\* What ::send and ::sendto find: EPIPE or ECONNRESET, another error, EAGAIN, room.
SendReply(f, o) ==
  LET s == sock[f] IN
  IF s.st \in {"new", "reset"} /\ f \notin Udp THEN "closed"
  ELSE IF s.st \in {"free", "listen"} \/ (f \in Udp /\ s.err) \/ (s.st = "new" /\ o = "send") THEN "error"
  ELSE IF s.st = "connecting" \/ s.tx = 0 THEN "again"
  ELSE "room"

-----------------------------------------------------------------------------
(* Operations.                                                             *)

\* _set_sock_opt: the socket is registered for errors with a callback that does
\* nothing.
SetSockOpt(f) == Add(f, {"ERR"}, Noop)

\* Socket::create.
Create(f) ==
  /\ sock[f].st = "free"
  /\ \E c \in Coroutine : FdOf[c] = f /\ pc[c] = "idle" /\ ops[c] < MaxOps[c]
  /\ sock' = [sock EXCEPT ![f] = [Closed EXCEPT !.st = "new"]]
  /\ SetSockOpt(f)
  /\ UNCHANGED <<arrived, waitVars, coVars>>

\* c calls operation o of its socket.
Begin(c, o) ==
  /\ pc[c] = "idle"
  /\ o \in Ops[c]
  /\ ops[c] < MaxOps[c]
  /\ sock[FdOf[c]].st # "free"
  /\ ops' = [ops EXCEPT ![c] = @ + 1]
  /\ pc' = [pc EXCEPT ![c] = "call"]
  /\ op' = [op EXCEPT ![c] = o]
  /\ left' = [left EXCEPT ![c] = IF o = "send" THEN SendSize ELSE 0]
  /\ UNCHANGED <<handlerVars, sock, arrived, waitVars, tid, res>>

\* co_return of result r, at any place.
Return(c, r) ==
  /\ pc' = [pc EXCEPT ![c] = "idle"]
  /\ res' = [res EXCEPT ![c] = r]

\* connect() or sendto() with an address that inet_pton does not take: they return
\* before their first system call.
InvalidAddress(c, o) ==
  /\ pc[c] = "idle"
  /\ o \in {"connect", "sendto"} \cap Ops[c]
  /\ ops[c] < MaxOps[c]
  /\ sock[FdOf[c]].st # "free"
  /\ ops' = [ops EXCEPT ![c] = @ + 1]
  /\ op' = [op EXCEPT ![c] = o]
  /\ Return(c, "error")
  /\ UNCHANGED <<handlerVars, sock, arrived, waitVars, tid, left>>

GoTo(c, l) == pc' = [pc EXCEPT ![c] = l] /\ UNCHANGED res

Calls(c, O) == pc[c] = "call" /\ op[c] \in O

\* Listen and accept are for TCP only, sendto and recvfrom for UDP only.
WrongProtocol(c) == (op[c] \in {"listen", "accept"}) = (FdOf[c] \in Udp)

Refuse(c) ==
  /\ Calls(c, {"listen", "accept", "sendto", "recvfrom"})
  /\ WrongProtocol(c)
  /\ Return(c, "error")
  /\ UNCHANGED <<handlerVars, sock, arrived, waitVars, op, tid, left, ops>>

\* bind(): the address is free and valid, or not.
Bind(c) ==
  /\ Calls(c, {"bind"})
  /\ \E r \in {"ok", "error"} : (sock[FdOf[c]].st # "new" => r = "error") /\ Return(c, r)
  /\ UNCHANGED <<handlerVars, sock, arrived, waitVars, op, tid, left, ops>>

\* listen().
Listen(c) ==
  LET f == FdOf[c] IN
  /\ Calls(c, {"listen"}) /\ ~WrongProtocol(c)
  /\ IF sock[f].st \in {"new", "listen"}
     THEN sock' = [sock EXCEPT ![f].st = "listen"] /\ Return(c, "ok")
     ELSE UNCHANGED sock /\ Return(c, "error")
  /\ UNCHANGED <<handlerVars, arrived, waitVars, op, tid, left, ops>>

\* An iteration of accept(): the new descriptor is registered like a created one.
Accept(c) ==
  LET f == FdOf[c] IN
  /\ Calls(c, {"accept"}) /\ ~WrongProtocol(c)
  /\ \/ /\ sock[f].st = "listen" /\ sock[f].rx # <<>>
        /\ \E n \in Fd \ Udp :
             /\ sock[n].st = "free"
             /\ sock' = [sock EXCEPT ![f].rx = Tail(@), ![n] = [Closed EXCEPT !.st = "up"]]
             /\ SetSockOpt(n)
        /\ Return(c, "ok")
     \/ /\ \/ sock[f].st # "listen"
           \/ sock[f].rx # <<>> /\ \A n \in Fd \ Udp : sock[n].st # "free"
        /\ Return(c, "error") /\ UNCHANGED <<handlerVars, sock>>
     \/ /\ sock[f].st = "listen" /\ sock[f].rx = <<>>
        /\ GoTo(c, "mod") /\ UNCHANGED <<handlerVars, sock>>
  /\ UNCHANGED <<arrived, waitVars, op, tid, left, ops>>

\* connect() up to its wait: success at once (always so for UDP), in progress, or
\* an error of the system call, which a fresh socket may get too (no route, no port).
\* A failed attempt is reported once more and then leaves the socket unconnected, so
\* that it may be tried again; a connection that was reset may, as POSIX leaves it open.
Connect(c) ==
  LET f == FdOf[c] IN
  /\ Calls(c, {"connect"})
  /\ \/ /\ sock[f].st = "new" \/ (f \in Udp /\ sock[f].st = "up")
        /\ sock' = [sock EXCEPT ![f].st = "up"]
        /\ Return(c, "ok")
     \/ /\ sock[f].st = "new" /\ f \notin Udp
        /\ sock' = [sock EXCEPT ![f].st = "connecting"]
        /\ GoTo(c, "mod")
     \/ Return(c, "error") /\ UNCHANGED sock
     \/ /\ sock[f].st = "reset"
        /\ sock' = [sock EXCEPT ![f] = [Closed EXCEPT !.st = "new"]]
        /\ Return(c, "error")
  /\ UNCHANGED <<handlerVars, arrived, waitVars, op, tid, left, ops>>

\* Mutant of ConnectStatus: SO_ERROR is not looked at.
ConnectStatusIgnored(c) ==
  /\ pc[c] = "status"
  /\ Return(c, IF sock[FdOf[c]].st = "free" THEN "error" ELSE "ok")
  /\ UNCHANGED <<handlerVars, sock, arrived, waitVars, op, tid, left, ops>>

\* The end of connect(): getsockopt(SO_ERROR) decides.  On success the coroutine
\* runs off its end, and its result is the one the promise was made with: success.
ConnectStatus(c) ==
  LET f == FdOf[c] IN
  /\ pc[c] = "status"
  /\ Return(c, IF sock[f].st = "free" \/ sock[f].err THEN "error" ELSE "ok")
  /\ sock' = [sock EXCEPT ![f].err = FALSE]
  /\ UNCHANGED <<handlerVars, arrived, waitVars, op, tid, left, ops>>

\* An iteration of recv().  An empty datagram is taken, and passed over.
Recv(c) ==
  LET n == RecvReply(FdOf[c]) IN
  /\ Calls(c, {"recv"})
  /\ sock' = [sock EXCEPT ![FdOf[c]] = Received(@, n)]
  /\ \/ n = "data" /\ Return(c, "ok")
     \/ n \in {"eof", "reset"} /\ Return(c, "closed")
     \/ n = "error" /\ Return(c, "error")
     \/ n \in {"empty", "again"} /\ GoTo(c, "mod")
  /\ UNCHANGED <<handlerVars, arrived, waitVars, op, tid, left, ops>>

\* An iteration of recvfrom().
RecvFrom(c) ==
  LET n == RecvReply(FdOf[c]) IN
  /\ Calls(c, {"recvfrom"}) /\ ~WrongProtocol(c)
  /\ sock' = [sock EXCEPT ![FdOf[c]] = Received(@, n)]
  /\ \/ n = "data" /\ Return(c, "ok")
     \/ n = "error" /\ Return(c, "error")
     \/ n \in {"empty", "again"} /\ GoTo(c, "mod")
  /\ UNCHANGED <<handlerVars, arrived, waitVars, op, tid, left, ops>>

\* An iteration of send(): TCP takes a part of what is left, UDP all of it.
Send(c) ==
  LET f == FdOf[c]
      n == SendReply(f, "send")
  IN
  /\ Calls(c, {"send"})
  /\ \/ /\ n = "room"
        /\ \E k \in 1..(IF f \in Udp THEN 1 ELSE left[c]) :
             /\ k <= sock[f].tx
             /\ sock' = [sock EXCEPT ![f].tx = @ - k]
             /\ left' = [left EXCEPT ![c] = IF f \in Udp THEN 0 ELSE @ - k]
        /\ IF left'[c] = 0 THEN Return(c, "ok") ELSE GoTo(c, "call")
     \/ /\ n # "room"
        /\ IF n = "again" THEN GoTo(c, "mod") ELSE Return(c, n)
        /\ sock' = [sock EXCEPT ![f].err = @ /\ n = "again"]
        /\ UNCHANGED left
  /\ UNCHANGED <<handlerVars, arrived, waitVars, op, tid, ops>>

\* An iteration of sendto(): one datagram.
SendTo(c) ==
  LET f == FdOf[c]
      n == SendReply(f, "sendto")
  IN
  /\ Calls(c, {"sendto"}) /\ ~WrongProtocol(c)
  /\ \/ /\ n = "room"
        /\ sock' = [sock EXCEPT ![f].tx = @ - 1]
        /\ Return(c, "ok")
     \/ /\ n # "room"
        /\ IF n = "again" THEN GoTo(c, "mod") ELSE Return(c, n)
        /\ sock' = [sock EXCEPT ![f].err = @ /\ n = "again"]
  /\ UNCHANGED <<handlerVars, arrived, waitVars, op, tid, left, ops>>

\* Socket::close: first the registration, then the descriptor.
CloseDel(c) ==
  /\ Calls(c, {"close"})
  /\ Del(FdOf[c])
  /\ GoTo(c, "shut")
  /\ UNCHANGED <<sock, arrived, waitVars, op, tid, left, ops>>

\* ::close, which also takes the descriptor off the interest list.
CloseFd(c) ==
  /\ pc[c] = "shut"
  /\ sock' = [sock EXCEPT ![FdOf[c]] = Closed]
  /\ epoll' = Without(epoll, {FdOf[c]})
  /\ Return(c, "ok")
  /\ UNCHANGED <<tid_calls, fd_tids, gid, batch, arrived, waitVars, op, tid, left, ops>>

-----------------------------------------------------------------------------
(* Socket::_wait_sock_event.                                               *)

Wants(c) == IF op[c] \in {"accept", "recv", "recvfrom"} THEN {"IN"} ELSE {"OUT"}

\* timeout.count() > 0; accept() gives none.
HasTimeout(c) == c \in Timed /\ op[c] # "accept"

\* Mutant of Register: the Signal of the wait before this one is used again.
RegisterReusesSignal(c) ==
  LET s == IF tid[c] \in DOMAIN signal THEN tid[c] ELSE gid IN
  /\ pc[c] = "mod"
  /\ Mod(FdOf[c], Wants(c), s)
  /\ signal' = With(signal, s, [timeout |-> 0, vacant |-> 0])
  /\ tid' = [tid EXCEPT ![c] = s]
  /\ IF ModThrows(FdOf[c]) THEN Return(c, "throw")
     ELSE GoTo(c, IF HasTimeout(c) THEN "timer" ELSE "aquire")
  /\ UNCHANGED <<sock, arrived, timers, op, left, ops>>

\* mod() with a callback that owns a fresh Signal; an exception leaves the coroutine.
Register(c) ==
  /\ pc[c] = "mod"
  /\ Mod(FdOf[c], Wants(c), gid)
  /\ signal' = With(signal, gid, [timeout |-> 0, vacant |-> 0])
  /\ tid' = [tid EXCEPT ![c] = gid]
  /\ IF ModThrows(FdOf[c]) THEN Return(c, "throw")
     ELSE GoTo(c, IF HasTimeout(c) THEN "timer" ELSE "aquire")
  /\ UNCHANGED <<sock, arrived, timers, op, left, ops>>

\* Mutant of CreateTimeout: no timer for a wait that has a timeout.
CreateTimeoutSkipped(c) ==
  /\ pc[c] = "timer"
  /\ GoTo(c, "aquire")
  /\ UNCHANGED <<handlerVars, sock, arrived, waitVars, op, tid, left, ops>>

CreateTimeout(c) ==
  /\ pc[c] = "timer"
  /\ timers' = timers \cup {tid[c]}
  /\ GoTo(c, "aquire")
  /\ UNCHANGED <<handlerVars, sock, arrived, signal, op, tid, left, ops>>

\* Mutant of Decide: the callbacks release the semaphore whoever was first.
DecideAlways(t, v) ==
  signal' = [signal EXCEPT ![t] = [timeout |-> v, vacant |-> @.vacant + 1]]

\* Both callbacks: compare_exchange of the flag, and the winner releases.
Decide(t, v) ==
  signal' = IF signal[t].timeout = 0
            THEN [signal EXCEPT ![t] = [timeout |-> v, vacant |-> @.vacant + 1]]
            ELSE signal

\* The timer is due and a worker calls it.
FireTimer(t) ==
  /\ t \in timers
  /\ timers' = timers \ {t}
  /\ Decide(t, -1)
  /\ UNCHANGED <<handlerVars, sock, arrived, coVars>>

\* The worker of the handler calls epoll_wait.
FetchEvents ==
  /\ Fetch([f \in Fd |-> Poll(f)])
  /\ UNCHANGED <<sock, arrived, waitVars, coVars>>

\* It handles one of the events it fetched.
HandleEvent(e) ==
  /\ Handled(e)
  /\ IF Activates(e) /\ tid_calls[e.tid].fn # Noop
     THEN Decide(tid_calls[e.tid].fn, 1)
     ELSE UNCHANGED signal
  /\ UNCHANGED <<sock, arrived, timers, coVars>>

\* aquire() returns, and so does _wait_sock_event: true for an event.  accept()
\* does not look at the result.
Aquired(c) ==
  LET t == tid[c] IN
  /\ pc[c] = "aquire"
  /\ signal[t].vacant > 0
  /\ signal' = [signal EXCEPT ![t].vacant = @ - 1]
  /\ IF signal[t].timeout = 1 \/ op[c] = "accept"
     THEN GoTo(c, IF op[c] = "connect" THEN "status" ELSE "call")
     ELSE Return(c, "timeout")
  /\ UNCHANGED <<handlerVars, sock, arrived, timers, op, tid, left, ops>>

-----------------------------------------------------------------------------
Step(c) ==
  \/ Refuse(c) \/ Bind(c) \/ Listen(c) \/ Accept(c) \/ Connect(c) \/ ConnectStatus(c)
  \/ Recv(c) \/ RecvFrom(c) \/ Send(c) \/ SendTo(c) \/ CloseDel(c) \/ CloseFd(c)
  \/ Register(c) \/ CreateTimeout(c) \/ Aquired(c)

\* What the library does without being asked: coroutines go on, timers fire, events
\* are fetched and handled.
GoOn(c) == Step(c) /\ UNCHANGED prog
Fire == (\E t \in timers : FireTimer(t)) /\ UNCHANGED prog
FetchAny == FetchEvents /\ UNCHANGED prog
HandleAny == (\E e \in batch : HandleEvent(e)) /\ UNCHANGED prog

Next ==
  \/ (\E f \in Fd : Create(f) \/ Arrive(f) \/ Network(f)) /\ UNCHANGED prog
  \/ (\E c \in Coroutine : \E o \in Operation : Begin(c, o) \/ InvalidAddress(c, o)) /\ UNCHANGED prog
  \/ \E c \in Coroutine : GoOn(c)
  \/ Fire \/ FetchAny \/ HandleAny

Spec == Init /\ [][Next]_vars

\* Workers execute runnable coroutines, call the timers that are due, and poll and
\* handle events, over and over.  Nothing is assumed of the network.
Fairness ==
  /\ \A c \in Coroutine : WF_vars(GoOn(c))
  /\ WF_vars(Fire) /\ WF_vars(FetchAny) /\ WF_vars(HandleAny)

FairSpec == Spec /\ Fairness

-----------------------------------------------------------------------------
(* Properties.                                                             *)

Waiting(c) == pc[c] \in {"timer", "aquire"}

\* No other coroutine uses the socket of c.
Alone(c) == \A d \in Coroutine \ {c} : FdOf[d] # FdOf[c]

Decision(c) == signal[tid[c]].timeout

\* Of the event and the timer of a wait only the first releases its semaphore, and
\* nothing is left in the semaphore of a wait that is over, however late the loser.
OneRelease ==
  /\ \A c \in Coroutine : Waiting(c) => signal[tid[c]].vacant = (IF Decision(c) = 0 THEN 0 ELSE 1)
  /\ \A t \in DOMAIN signal :
       (\A c \in Coroutine : Waiting(c) => tid[c] # t) => signal[t].vacant = 0

\* A wait ends with a timeout only by the timer created for it, never by one that
\* an earlier wait left pending.
TimedOutByOwnTimer ==
  \A c \in Coroutine : Waiting(c) /\ Decision(c) = -1 =>
    pc[c] = "aquire" /\ HasTimeout(c) /\ tid[c] \notin timers

\* An event that was fetched for an earlier wait never ends a later one: a coroutine
\* alone on its socket that is woken by an event finds the socket ready.
NoSpuriousWake ==
  \A c \in Coroutine :
    Alone(c) /\ Waiting(c) /\ Decision(c) = 1
      => Wants(c) \cap Poll(FdOf[c]) # {}

\* connect() reports success only of a socket that is connected, though it does
\* not call ::connect again when it is woken; where nobody else closes the socket
\* meanwhile, so that its descriptor stands for another one.
ConnectMeansConnected ==
  [][\A c \in Coroutine :
       Alone(c) /\ pc[c] # "idle" /\ op[c] = "connect" /\ pc'[c] = "idle" /\ res'[c] = "ok"
         => sock'[FdOf[c]].st \in {"up", "fin"}]_vars

\* An operation with a timeout returns, whatever the other coroutines of the socket, a
\* close() or the peer do, as long as only finitely many messages arrive (MaxArrive).
\* The timeout is one of each wait, not of the operation: recv() and recvfrom() of a UDP
\* socket begin it anew after every empty datagram, and an endless run of those, none of
\* them late, would keep them going.
TimedReturns ==
  \A c \in Coroutine : (c \in Timed /\ pc[c] # "idle") ~> (pc[c] = "idle")

\* A coroutine that is alone on its socket does not wait for ever for one that is ready,
\* with or without a timeout, as long as no error is reported to a UDP socket.
ReadyEndsWait ==
  \A c \in Coroutine :
    []<>~(Alone(c) /\ "icmp" \notin Peer /\ pc[c] = "aquire" /\ Wants(c) \cap Poll(FdOf[c]) # {})

\* _wait_sock_event returns when its event is active ("True if event activated"):
\* no coroutine waits for ever for a socket that is ready.
ActiveEventEndsWait ==
  \A c \in Coroutine : []<>~(pc[c] = "aquire" /\ Wants(c) \cap Poll(FdOf[c]) # {})
================================================================================
