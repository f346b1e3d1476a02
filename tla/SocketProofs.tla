------------------------------ MODULE SocketProofs ------------------------------
(***************************************************************************)
(* Socket, proved for any sockets, coroutines, programs and buffer sizes:  *)
(* of the event and the timer of a wait one releases its semaphore, once;  *)
(* a wait times out by its own timer; an event fetched for an earlier wait *)
(* does not end a later one; and connect() reports only what is connected. *)
(***************************************************************************)
EXTENDS Socket, TLAPS, SequenceTheorems

Ready(c) == Wants(c) \cap Poll(FdOf[c]) # {}

\* No two waits share a ticket, and a callback is that of its own ticket.
TicketInv ==
  /\ \A c, d \in Coroutine : Waiting(c) /\ Waiting(d) /\ tid[c] = tid[d] => c = d
  /\ \A t \in DOMAIN tid_calls :
       tid_calls[t].fn = Noop \/ (tid_calls[t].fn = t /\ t \in DOMAIN signal)

\* If ticket t is undecided, its coroutine is still there.
Attended(t) ==
  t \in DOMAIN signal /\ signal[t].timeout = 0 => \E c \in Coroutine : Waiting(c) /\ tid[c] = t

\* What can still decide a ticket: a timer, a registration of the kernel, an event
\* that was fetched.
AttendedInv ==
  /\ \A t \in timers : Attended(t)
  /\ \A f \in DOMAIN epoll : Attended(epoll[f].tid)
  /\ \A e \in batch : Attended(e.tid)

\* The timer of a wait comes after its registration.
TimerInv ==
  \A c \in Coroutine :
    /\ pc[c] = "timer" => HasTimeout(c)
    /\ Waiting(c) /\ tid[c] \in timers => pc[c] = "aquire" /\ HasTimeout(c)

\* What is registered and fetched for a wait is of its socket and its event.
EventInv ==
  \A c \in Coroutine : Waiting(c) =>
    /\ tid[c] \in DOMAIN tid_calls => tid_calls[tid[c]].on = Wants(c)
    /\ \A f \in DOMAIN epoll : epoll[f].tid = tid[c] => f = FdOf[c]
    /\ Alone(c) => \A e \in batch : e.tid = tid[c] /\ Wants(c) \cap e.ev # {} => Ready(c)

\* The socket of a coroutine that is alone on it stays open during an operation, and
\* the one it connects does not get lost.
Connecting(c) == op[c] = "connect" /\ pc[c] \in {"mod", "timer", "aquire", "status"}

SockOK(c) ==
  LET s == sock[FdOf[c]] IN
  /\ s.st # "free"
  /\ Connecting(c) => s.st \in {"connecting", "up", "fin"} \/ (s.st = "reset" /\ s.err)
  /\ pc[c] = "status" => op[c] = "connect" /\ s.st # "connecting"

SockInv == \A c \in Coroutine : Alone(c) /\ pc[c] # "idle" => SockOK(c)

-----------------------------------------------------------------------------
(* The operators on the handler's maps.                                    *)

LEMMA WithFacts ==
  ASSUME NEW f, NEW k, NEW v
  PROVE  /\ DOMAIN With(f, k, v) = DOMAIN f \cup {k}
         /\ With(f, k, v)[k] = v
         /\ \A x \in DOMAIN f \ {k} : With(f, k, v)[x] = f[x]
  BY DEF With

LEMMA WithoutFacts ==
  ASSUME NEW f, NEW S
  PROVE  /\ DOMAIN Without(f, S) = DOMAIN f \ S
         /\ \A x \in DOMAIN f \ S : Without(f, S)[x] = f[x]
  BY DEF Without, Restrict

-----------------------------------------------------------------------------
(* Types.                                                                  *)

SockRec == [st : SockState, rx : Seq({"data", "empty"}), tx : 0..TxRoom, err : BOOLEAN]

\* The parts of TypeOK: the kernel's sockets, the waits, the coroutines.
KernelTypes ==
  /\ prog \in Programs
  /\ sock \in [Fd -> SockRec]
  /\ arrived \in 0..MaxArrive

WaitTypes ==
  /\ \A t \in DOMAIN signal :
       /\ t \in 0..(gid - 1)
       /\ signal[t] \in [timeout : {-1, 0, 1}, vacant : Nat]
  /\ timers \subseteq DOMAIN signal
  /\ \A c \in Coroutine : pc[c] \in {"timer", "aquire"} => tid[c] \in DOMAIN signal

CoTypes ==
  /\ pc \in [Coroutine -> {"idle", "call", "mod", "timer", "aquire", "status", "shut"}]
  /\ op \in [Coroutine -> Operation]
  /\ left \in [Coroutine -> 0..SendSize]
  /\ res \in [Coroutine -> Result]
  /\ \A c \in Coroutine : ops[c] \in 0..MaxOps[c]
  /\ DOMAIN tid = Coroutine /\ DOMAIN ops = Coroutine

Types == HandlerTypeOK /\ KernelTypes /\ WaitTypes /\ CoTypes

IInv ==
  /\ Types /\ TicketInv /\ OneRelease /\ AttendedInv
  /\ TimerInv /\ TimedOutByOwnTimer
  /\ EventInv /\ NoSpuriousWake /\ SockInv

LEMMA TypesParts == Types => TypeOK
  BY DEF Types, KernelTypes, WaitTypes, CoTypes, TypeOK, SockRec

LEMMA ProgFacts ==
  ASSUME KernelTypes
  PROVE  /\ \A c \in Coroutine : FdOf[c] \in Fd /\ MaxOps[c] \in Nat /\ Ops[c] \subseteq Operation
         /\ MaxArrive \in Nat
  BY SocketAssumption DEF KernelTypes, ProgramType, FdOf, MaxOps, Ops, MaxArrive

\* What add and mod store.
LEMMA NewEntry ==
  ASSUME NEW g \in Nat, NEW f \in Fd, NEW on \in SUBSET Event, NEW fn \in Int
  PROVE  /\ [tid |-> g, on |-> on, armed |-> TRUE] \in [tid : 0..((g + 1) - 1), on : SUBSET Event, armed : BOOLEAN]
         /\ [fd |-> f, on |-> on, fn |-> fn] \in [fd : Fd, on : SUBSET Event, fn : Int]
  <1>1. g \in 0..((g + 1) - 1)
    OBVIOUS
  <1> QED
    BY <1>1

\* Handler::add, mod and del leave a ticket behind that was given out.
LEMMA AddTypes ==
  ASSUME HandlerTypeOK, NEW f \in Fd, NEW on \in SUBSET Event, NEW fn \in Int, Add(f, on, fn)
  PROVE  HandlerTypeOK' /\ gid' = gid + 1 /\ gid \in Nat
  <1>1. gid' = gid + 1 /\ gid' \in Nat /\ gid \in 0..(gid' - 1) /\ 0..(gid - 1) \subseteq 0..(gid' - 1) /\ gid \in Nat
    BY DEF HandlerTypeOK, Add
  <1>0. /\ [tid |-> gid, on |-> on, armed |-> TRUE] \in [tid : 0..(gid' - 1), on : SUBSET Event, armed : BOOLEAN]
        /\ [fd |-> f, on |-> on, fn |-> fn] \in [fd : Fd, on : SUBSET Event, fn : Int]
    BY <1>1, NewEntry
  <1>2. DOMAIN tid_calls' = DOMAIN tid_calls \cup {gid} /\ tid_calls'[gid] = [fd |-> f, on |-> on, fn |-> fn]
        /\ \A t \in DOMAIN tid_calls \ {gid} : tid_calls'[t] = tid_calls[t]
    BY DEF With, Add
  <1>3. DOMAIN fd_tids' = DOMAIN fd_tids \cup {f} /\ fd_tids'[f] = gid
        /\ \A x \in DOMAIN fd_tids \ {f} : fd_tids'[x] = fd_tids[x]
    BY DEF With, Add
  <1>4. DOMAIN epoll' = DOMAIN epoll \cup {f} /\ epoll'[f] = [tid |-> gid, on |-> on, armed |-> TRUE]
        /\ \A x \in DOMAIN epoll \ {f} : epoll'[x] = epoll[x]
    BY DEF With, Armed, Add
  <1>5. DOMAIN tid_calls' \subseteq 0..(gid' - 1)
        /\ \A t \in DOMAIN tid_calls' : tid_calls'[t] \in [fd : Fd, on : SUBSET Event, fn : Int]
    BY <1>0, <1>1, <1>2 DEF HandlerTypeOK
  <1>6. DOMAIN fd_tids' \subseteq Fd /\ \A x \in DOMAIN fd_tids' : fd_tids'[x] \in 0..(gid' - 1)
    BY <1>1, <1>3 DEF HandlerTypeOK
  <1>7. DOMAIN epoll' \subseteq Fd
        /\ \A x \in DOMAIN epoll' : epoll'[x] \in [tid : 0..(gid' - 1), on : SUBSET Event, armed : BOOLEAN]
    <2>1. ASSUME NEW x \in DOMAIN epoll' PROVE epoll'[x] \in [tid : 0..(gid' - 1), on : SUBSET Event, armed : BOOLEAN]
      <3>1. CASE x = f
        BY <1>0, <1>4, <3>1
      <3>2. CASE x # f
        <4>1. epoll'[x] = epoll[x] /\ epoll[x] \in [tid : 0..(gid - 1), on : SUBSET Event, armed : BOOLEAN]
          BY <1>4, <2>1, <3>2 DEF HandlerTypeOK
        <4> QED
          BY <1>1, <4>1
      <3> QED
        BY <3>1, <3>2
    <2> QED
      BY <1>4, <2>1 DEF HandlerTypeOK
  <1>8. \A e \in batch' : e.tid \in 0..(gid' - 1) /\ e.ev \in (SUBSET Event) \ {{}}
    BY <1>1 DEF HandlerTypeOK, Add
  <1> QED
    BY <1>1, <1>5, <1>6, <1>7, <1>8 DEF HandlerTypeOK

LEMMA ModTypes ==
  ASSUME HandlerTypeOK, NEW f \in Fd, NEW on \in SUBSET Event, NEW fn \in Int, Mod(f, on, fn)
  PROVE  HandlerTypeOK' /\ gid' = gid + 1 /\ gid \in Nat
  <1>1. gid' = gid + 1 /\ gid' \in Nat /\ gid \in 0..(gid' - 1) /\ 0..(gid - 1) \subseteq 0..(gid' - 1) /\ gid \in Nat
    BY DEF HandlerTypeOK, Mod
  <1>0. /\ [tid |-> gid, on |-> on, armed |-> TRUE] \in [tid : 0..(gid' - 1), on : SUBSET Event, armed : BOOLEAN]
        /\ [fd |-> f, on |-> on, fn |-> fn] \in [fd : Fd, on : SUBSET Event, fn : Int]
    BY <1>1, NewEntry
  <1>2. DOMAIN tid_calls' = (DOMAIN tid_calls \ {TidOf(f)}) \cup {gid} /\ tid_calls'[gid] = [fd |-> f, on |-> on, fn |-> fn]
        /\ \A t \in DOMAIN tid_calls \ {TidOf(f), gid} : tid_calls'[t] = tid_calls[t]
    <2> DEFINE g == Without(tid_calls, {TidOf(f)})
    <2>1. DOMAIN g = DOMAIN tid_calls \ {TidOf(f)} /\ \A t \in DOMAIN tid_calls \ {TidOf(f)} : g[t] = tid_calls[t]
      BY DEF Without, Restrict
    <2> HIDE DEF g
    <2>2. tid_calls' = With(g, gid, [fd |-> f, on |-> on, fn |-> fn])
      BY DEF g, Mod
    <2> QED
      BY <2>1, <2>2 DEF With
  <1>3. DOMAIN fd_tids' = DOMAIN fd_tids \cup {f} /\ fd_tids'[f] = gid
        /\ \A x \in DOMAIN fd_tids \ {f} : fd_tids'[x] = fd_tids[x]
    BY DEF With, Mod
  <1>5. DOMAIN tid_calls' \subseteq 0..(gid' - 1)
        /\ \A t \in DOMAIN tid_calls' : tid_calls'[t] \in [fd : Fd, on : SUBSET Event, fn : Int]
    <2>1. ASSUME NEW t \in DOMAIN tid_calls' PROVE tid_calls'[t] \in [fd : Fd, on : SUBSET Event, fn : Int]
      <3>1. CASE t = gid
        BY <1>0, <1>2, <3>1
      <3>2. CASE t # gid
        <4>1. t \in DOMAIN tid_calls \ {TidOf(f), gid}
          BY <1>2, <2>1, <3>2
        <4> QED
          BY <1>2, <4>1 DEF HandlerTypeOK
      <3> QED
        BY <3>1, <3>2
    <2>2. DOMAIN tid_calls' \subseteq 0..(gid' - 1)
      BY <1>1, <1>2 DEF HandlerTypeOK
    <2> QED
      BY <2>1, <2>2
  <1>6. DOMAIN fd_tids' \subseteq Fd /\ \A x \in DOMAIN fd_tids' : fd_tids'[x] \in 0..(gid' - 1)
    BY <1>1, <1>3 DEF HandlerTypeOK
  <1>7. DOMAIN epoll' \subseteq Fd
        /\ \A x \in DOMAIN epoll' : epoll'[x] \in [tid : 0..(gid' - 1), on : SUBSET Event, armed : BOOLEAN]
    <2>1. CASE epoll' = epoll
      BY <1>1, <2>1 DEF HandlerTypeOK
    <2>2. CASE epoll' = With(epoll, f, Armed(on))
      <3>1. DOMAIN epoll' = DOMAIN epoll \cup {f} /\ epoll'[f] = [tid |-> gid, on |-> on, armed |-> TRUE]
            /\ \A x \in DOMAIN epoll \ {f} : epoll'[x] = epoll[x]
        BY <2>2 DEF With, Armed
      <3>2. ASSUME NEW x \in DOMAIN epoll' PROVE epoll'[x] \in [tid : 0..(gid' - 1), on : SUBSET Event, armed : BOOLEAN]
        <4>1. CASE x = f
          BY <1>0, <3>1, <4>1
        <4>2. CASE x # f
          <5>1. epoll'[x] = epoll[x] /\ epoll[x] \in [tid : 0..(gid - 1), on : SUBSET Event, armed : BOOLEAN]
            BY <3>1, <3>2, <4>2 DEF HandlerTypeOK
          <5> QED
            BY <1>1, <5>1
        <4> QED
          BY <4>1, <4>2
      <3> QED
        BY <3>1, <3>2 DEF HandlerTypeOK
    <2> QED
      BY <2>1, <2>2 DEF Mod
  <1>8. \A e \in batch' : e.tid \in 0..(gid' - 1) /\ e.ev \in (SUBSET Event) \ {{}}
    BY <1>1 DEF HandlerTypeOK, Mod
  <1> QED
    BY <1>1, <1>5, <1>6, <1>7, <1>8 DEF HandlerTypeOK

LEMMA DelTypes ==
  ASSUME HandlerTypeOK, NEW f \in Fd, Del(f)
  PROVE  HandlerTypeOK'
  <1>1. DOMAIN tid_calls' \subseteq DOMAIN tid_calls /\ \A t \in DOMAIN tid_calls' : tid_calls'[t] = tid_calls[t]
    BY DEF Del, Without, Restrict
  <1>2. DOMAIN fd_tids' \subseteq DOMAIN fd_tids /\ \A t \in DOMAIN fd_tids' : fd_tids'[t] = fd_tids[t]
    BY DEF Del, Without, Restrict
  <1>3. DOMAIN epoll' \subseteq DOMAIN epoll /\ \A t \in DOMAIN epoll' : epoll'[t] = epoll[t]
    BY DEF Del, Without, Restrict
  <1>4. UNCHANGED <<gid, batch>>
    BY DEF Del
  <1> QED
    BY <1>1, <1>2, <1>3, <1>4 DEF HandlerTypeOK

\* The interest list without a descriptor.
LEMMA OffListTypes ==
  ASSUME HandlerTypeOK, NEW f, epoll' = Without(epoll, {f}), UNCHANGED <<tid_calls, fd_tids, gid, batch>>
  PROVE  HandlerTypeOK'
  <1>1. DOMAIN epoll' \subseteq DOMAIN epoll /\ \A t \in DOMAIN epoll' : epoll'[t] = epoll[t]
    BY DEF Without, Restrict
  <1> QED
    BY <1>1 DEF HandlerTypeOK

LEMMA HandledTypes ==
  ASSUME HandlerTypeOK, NEW e, Handled(e)
  PROVE  HandlerTypeOK'
  BY DEF HandlerTypeOK, Handled

\* epoll_wait: what is fetched is of a registered descriptor and was there.
LEMMA FetchFacts ==
  ASSUME HandlerTypeOK, NEW poll, \A f \in Fd : poll[f] \subseteq Event, Fetch(poll)
  PROVE  /\ HandlerTypeOK'
         /\ UNCHANGED <<tid_calls, fd_tids, gid>>
         /\ DOMAIN epoll' = DOMAIN epoll
         /\ \A f \in DOMAIN epoll : epoll'[f].tid = epoll[f].tid
         /\ \A e \in batch' : \E f \in DOMAIN epoll : e.tid = epoll[f].tid /\ e.ev \subseteq poll[f]
  <1> DEFINE pending == {f \in Fd : Reported(f, poll[f]) # {}}
  <1>1. PICK S \in SUBSET pending :
          /\ batch' = {[tid |-> epoll[f].tid, ev |-> Reported(f, poll[f])] : f \in S}
          /\ epoll' = [f \in DOMAIN epoll |-> [epoll[f] EXCEPT !.armed = @ /\ f \notin S]]
    BY DEF Fetch
  <1>2. UNCHANGED <<tid_calls, fd_tids, gid>>
    BY DEF Fetch
  <1>3. DOMAIN epoll' = DOMAIN epoll
    BY <1>1
  <1>4. ASSUME NEW f \in DOMAIN epoll
        PROVE  /\ epoll'[f].tid = epoll[f].tid
               /\ epoll'[f] \in [tid : 0..(gid - 1), on : SUBSET Event, armed : BOOLEAN]
    <2>1. PICK r \in [tid : 0..(gid - 1), on : SUBSET Event, armed : BOOLEAN] : r = epoll[f]
      BY DEF HandlerTypeOK
    <2>2. PICK b \in BOOLEAN : b = (r.armed /\ f \notin S)
      OBVIOUS
    <2>3. epoll'[f] = [r EXCEPT !.armed = b]
      BY <1>1, <2>1, <2>2
    <2> QED
      BY <2>1, <2>3
  <1>5. ASSUME NEW e \in batch'
        PROVE  /\ \E f \in DOMAIN epoll : e.tid = epoll[f].tid /\ e.ev \subseteq poll[f]
               /\ e.tid \in 0..(gid - 1) /\ e.ev \in (SUBSET Event) \ {{}}
    <2>1. PICK f \in S : e = [tid |-> epoll[f].tid, ev |-> Reported(f, poll[f])]
      BY <1>1
    <2>2. f \in Fd /\ Reported(f, poll[f]) # {}
      OBVIOUS
    <2>3. f \in DOMAIN epoll /\ Reported(f, poll[f]) \subseteq poll[f]
      BY <2>2 DEF Reported
    <2>4. epoll[f].tid \in 0..(gid - 1)
      BY <2>3 DEF HandlerTypeOK
    <2>5. poll[f] \subseteq Event
      BY <2>2
    <2>6. e.tid = epoll[f].tid /\ e.ev = Reported(f, poll[f])
      BY <2>1
    <2> QED
      BY <2>2, <2>3, <2>4, <2>5, <2>6
  <1>6. HandlerTypeOK'
    BY <1>2, <1>3, <1>4, <1>5 DEF HandlerTypeOK
  <1> QED
    BY <1>2, <1>3, <1>4, <1>5, <1>6

\* Records of sockets.
LEMMA ClosedType == Closed \in SockRec /\ \A z \in SockState : [Closed EXCEPT !.st = z] \in SockRec
  <1>1. <<>> \in Seq({"data", "empty"}) /\ TxRoom \in 0..TxRoom
    BY SocketAssumption
  <1>2. "free" \in SockState
    BY DEF SockState
  <1> QED
    BY <1>1, <1>2 DEF Closed, SockRec

LEMMA SockFields ==
  ASSUME NEW s \in SockRec
  PROVE  /\ s.st \in SockState /\ s.rx \in Seq({"data", "empty"}) /\ s.tx \in 0..TxRoom /\ s.err \in BOOLEAN
         /\ \A z \in SockState : [s EXCEPT !.st = z] \in SockRec
         /\ \A z \in Seq({"data", "empty"}) : [s EXCEPT !.rx = z] \in SockRec
         /\ \A z \in 0..TxRoom : [s EXCEPT !.tx = z] \in SockRec
         /\ \A z \in BOOLEAN : [s EXCEPT !.err = z] \in SockRec
  BY DEF SockRec

\* The queue of a socket, taken from and added to.
LEMMA QueueTypes ==
  ASSUME NEW q \in Seq({"data", "empty"})
  PROVE  /\ \A m \in {"data", "empty"} : Append(q, m) \in Seq({"data", "empty"}) /\ Append(q, m) # <<>>
         /\ q # <<>> => Tail(q) \in Seq({"data", "empty"}) /\ Head(q) \in {"data", "empty"}
  <1>1. ASSUME NEW m \in {"data", "empty"} PROVE Append(q, m) \in Seq({"data", "empty"}) /\ Append(q, m) # <<>>
    BY AppendProperties
  <1>2. q # <<>> => Tail(q) \in Seq({"data", "empty"}) /\ Head(q) \in {"data", "empty"}
    BY HeadTailProperties
  <1> QED
    BY <1>1, <1>2

-----------------------------------------------------------------------------
(* Steps that touch no wait.                                               *)

\* What add, del and ::close do to the handler: registrations go, and one that comes
\* has a new ticket and a callback that does nothing.
HandlerQuiet ==
  /\ HandlerTypeOK'
  /\ gid' \in {gid, gid + 1}
  /\ \A t \in DOMAIN tid_calls' :
       \/ t \in DOMAIN tid_calls /\ tid_calls'[t] = tid_calls[t]
       \/ t = gid /\ tid_calls'[t].fn = Noop
  /\ \A f \in DOMAIN epoll' :
       \/ f \in DOMAIN epoll /\ epoll'[f].tid = epoll[f].tid
       \/ epoll'[f].tid = gid
  /\ UNCHANGED batch

LEMMA UnchangedQuiet ==
  ASSUME HandlerTypeOK, UNCHANGED handlerVars
  PROVE  HandlerQuiet
  BY DEF HandlerTypeOK, handlerVars, HandlerQuiet

LEMMA SetSockOptQuiet ==
  ASSUME HandlerTypeOK, NEW f \in Fd, SetSockOpt(f)
  PROVE  HandlerQuiet
  <1>1. Add(f, {"ERR"}, Noop) /\ {"ERR"} \in SUBSET Event /\ Noop \in Int
    BY DEF SetSockOpt, Event, Noop
  <1>2. HandlerTypeOK' /\ gid' = gid + 1
    BY <1>1, AddTypes
  <1>3. \A t \in DOMAIN tid_calls' :
          (t \in DOMAIN tid_calls /\ tid_calls'[t] = tid_calls[t]) \/ (t = gid /\ tid_calls'[t].fn = Noop)
    BY <1>1 DEF Add, With
  <1>4. \A x \in DOMAIN epoll' :
          (x \in DOMAIN epoll /\ epoll'[x].tid = epoll[x].tid) \/ epoll'[x].tid = gid
    BY <1>1 DEF Add, With, Armed
  <1> QED
    BY <1>1, <1>2, <1>3, <1>4 DEF HandlerQuiet, Add

LEMMA DelQuiet ==
  ASSUME HandlerTypeOK, NEW f \in Fd, Del(f)
  PROVE  HandlerQuiet
  <1>1. HandlerTypeOK'
    BY DelTypes
  <1>2. \A t \in DOMAIN tid_calls' : t \in DOMAIN tid_calls /\ tid_calls'[t] = tid_calls[t]
    BY DEF Del, Without, Restrict
  <1>3. \A x \in DOMAIN epoll' : x \in DOMAIN epoll /\ epoll'[x] = epoll[x]
    BY DEF Del, Without, Restrict
  <1> QED
    BY <1>1, <1>2, <1>3 DEF HandlerQuiet, Del

LEMMA OffListQuiet ==
  ASSUME HandlerTypeOK, NEW f, epoll' = Without(epoll, {f}), UNCHANGED <<tid_calls, fd_tids, gid, batch>>
  PROVE  HandlerQuiet
  <1>1. HandlerTypeOK'
    BY OffListTypes
  <1>2. \A x \in DOMAIN epoll' : x \in DOMAIN epoll /\ epoll'[x] = epoll[x]
    BY DEF Without, Restrict
  <1> QED
    BY <1>1, <1>2 DEF HandlerQuiet

\* A step of coroutine c that begins and ends outside _wait_sock_event.  It changes
\* its own socket, and one that nobody had.
OwnStep(c) ==
  /\ pc[c] \in {"call", "status", "shut"}
  /\ pc' = [pc EXCEPT ![c] = pc'[c]] /\ pc'[c] \in {"idle", "call", "mod", "shut"}
  /\ left' \in [Coroutine -> 0..SendSize]
  /\ res' \in [Coroutine -> Result]
  /\ sock' \in [Fd -> SockRec]
  /\ \A g \in Fd : g = FdOf[c] \/ sock[g].st = "free" \/ sock'[g] = sock[g]
  /\ pc'[c] # "idle" =>
       /\ sock'[FdOf[c]].st \in {sock[FdOf[c]].st, "connecting"}
       /\ pc'[c] = "mod" /\ op[c] = "connect" => sock'[FdOf[c]].st = "connecting"
  /\ HandlerQuiet
  /\ UNCHANGED <<prog, arrived, waitVars, op, tid, ops>>

LEMMA Returned ==
  ASSUME Types, NEW c \in Coroutine, NEW r \in Result, Return(c, r)
  PROVE  /\ pc' = [pc EXCEPT ![c] = pc'[c]] /\ pc'[c] = "idle"
         /\ res' \in [Coroutine -> Result]
  BY DEF Types, CoTypes, Return

LEMMA Gone ==
  ASSUME Types, NEW c \in Coroutine, NEW l, GoTo(c, l)
  PROVE  /\ pc' = [pc EXCEPT ![c] = pc'[c]] /\ pc'[c] = l
         /\ res' \in [Coroutine -> Result]
  BY DEF Types, CoTypes, GoTo

\* An operation that returns, and leaves the sockets.
LEMMA PlainReturn ==
  ASSUME Types, NEW c \in Coroutine, pc[c] = "call", NEW r \in Result, Return(c, r),
         UNCHANGED <<prog, handlerVars, sock, arrived, waitVars, op, tid, left, ops>>
  PROVE  OwnStep(c)
  <1>1. pc' = [pc EXCEPT ![c] = pc'[c]] /\ pc'[c] = "idle" /\ res' \in [Coroutine -> Result]
    BY Returned
  <1>2. HandlerQuiet
    BY UnchangedQuiet DEF Types
  <1> QED
    BY <1>1, <1>2 DEF OwnStep, Types, CoTypes, KernelTypes

\* One that changes a field of its socket.
LEMMA OwnSocket ==
  ASSUME Types, NEW c \in Coroutine, NEW z \in SockRec, sock' = [sock EXCEPT ![FdOf[c]] = z]
  PROVE  /\ sock' \in [Fd -> SockRec]
         /\ sock'[FdOf[c]] = z
         /\ \A g \in Fd : g = FdOf[c] \/ sock'[g] = sock[g]
  <1>1. FdOf[c] \in Fd
    BY ProgFacts DEF Types
  <1> QED
    BY <1>1 DEF Types, KernelTypes

\* The socket of a coroutine.
LEMMA MySocket ==
  ASSUME Types, NEW c \in Coroutine
  PROVE  FdOf[c] \in Fd /\ sock[FdOf[c]] \in SockRec
  <1>1. FdOf[c] \in Fd
    BY ProgFacts DEF Types
  <1> QED
    BY <1>1 DEF Types, KernelTypes

LEMMA RefuseOwn ==
  ASSUME Types, NEW c \in Coroutine, Refuse(c), UNCHANGED prog
  PROVE  OwnStep(c)
  BY PlainReturn DEF Refuse, Calls, Result

LEMMA BindOwn ==
  ASSUME Types, NEW c \in Coroutine, Bind(c), UNCHANGED prog
  PROVE  OwnStep(c)
  <1>1. PICK r \in {"ok", "error"} : Return(c, r)
    BY DEF Bind
  <1> QED
    BY <1>1, PlainReturn DEF Bind, Calls, Result

LEMMA ListenOwn ==
  ASSUME Types, NEW c \in Coroutine, Listen(c), UNCHANGED prog
  PROVE  OwnStep(c)
  <1>1. PICK s \in SockRec : s = sock[FdOf[c]]
    BY MySocket
  <1>2. CASE sock' = [sock EXCEPT ![FdOf[c]].st = "listen"] /\ Return(c, "ok")
    <2>1. sock' = [sock EXCEPT ![FdOf[c]] = [s EXCEPT !.st = "listen"]]
      BY <1>1, <1>2
    <2>2. [s EXCEPT !.st = "listen"] \in SockRec
      BY SockFields DEF SockState
    <2>3. sock' \in [Fd -> SockRec] /\ \A g \in Fd : g = FdOf[c] \/ sock'[g] = sock[g]
      BY <2>1, <2>2, OwnSocket
    <2>4. pc' = [pc EXCEPT ![c] = pc'[c]] /\ pc'[c] = "idle" /\ res' \in [Coroutine -> Result]
      BY <1>2, Returned DEF Result
    <2>5. HandlerQuiet
      BY UnchangedQuiet DEF Types, Listen
    <2> QED
      BY <2>3, <2>4, <2>5 DEF OwnStep, Types, CoTypes, Listen, Calls
  <1>3. CASE UNCHANGED sock /\ Return(c, "error")
    BY <1>3, PlainReturn DEF Listen, Calls, Result
  <1> QED
    BY <1>2, <1>3 DEF Listen

LEMMA AcceptOwn ==
  ASSUME Types, NEW c \in Coroutine, Accept(c), UNCHANGED prog
  PROVE  OwnStep(c)
  <1>0. PICK f \in Fd : f = FdOf[c] /\ sock[f] \in SockRec
    BY MySocket
  <1>1. ASSUME sock[f].st = "listen", sock[f].rx # <<>>, NEW n \in Fd, sock[n].st = "free", SetSockOpt(n),
               sock' = [sock EXCEPT ![f].rx = Tail(@), ![n] = [Closed EXCEPT !.st = "up"]], Return(c, "ok")
        PROVE  OwnStep(c)
    <2>1. PICK q \in Seq({"data", "empty"}) : q = Tail(sock[f].rx)
      BY <1>0, <1>1, SockFields, QueueTypes
    <2>2. PICK y \in SockRec : y = [sock[f] EXCEPT !.rx = q]
      BY <1>0, SockFields
    <2>3. PICK z \in SockRec : z = [Closed EXCEPT !.st = "up"]
      BY ClosedType DEF SockState
    <2>4. sock' = [sock EXCEPT ![f] = y, ![n] = z]
      BY <1>1, <2>1, <2>2, <2>3
    <2>5. sock' \in [Fd -> SockRec] /\ \A g \in Fd : g = f \/ g = n \/ sock'[g] = sock[g]
      BY <2>4 DEF Types, KernelTypes
    <2>6. pc' = [pc EXCEPT ![c] = pc'[c]] /\ pc'[c] = "idle" /\ res' \in [Coroutine -> Result]
      BY <1>1, Returned DEF Result
    <2>7. HandlerQuiet
      BY <1>1, SetSockOptQuiet DEF Types
    <2> QED
      BY <1>0, <1>1, <2>5, <2>6, <2>7 DEF OwnStep, Types, CoTypes, Accept, Calls
  <1>2. CASE Return(c, "error") /\ UNCHANGED <<handlerVars, sock>>
    BY <1>2, PlainReturn DEF Accept, Calls, Result
  <1>3. CASE GoTo(c, "mod") /\ UNCHANGED <<handlerVars, sock>>
    <2>1. pc' = [pc EXCEPT ![c] = pc'[c]] /\ pc'[c] = "mod" /\ res' \in [Coroutine -> Result]
      BY <1>3, Gone
    <2>2. HandlerQuiet
      BY <1>3, UnchangedQuiet DEF Types
    <2> QED
      BY <1>3, <2>1, <2>2 DEF OwnStep, Types, CoTypes, KernelTypes, Accept, Calls
  <1> QED
    BY <1>0, <1>1, <1>2, <1>3 DEF Accept

LEMMA ConnectOwn ==
  ASSUME Types, NEW c \in Coroutine, Connect(c), UNCHANGED prog
  PROVE  OwnStep(c)
  <1>1. PICK s \in SockRec : s = sock[FdOf[c]]
    BY MySocket
  <1>2. HandlerQuiet
    BY UnchangedQuiet DEF Types, Connect
  <1>3. ASSUME NEW z \in {"up", "connecting"}, sock' = [sock EXCEPT ![FdOf[c]].st = z]
        PROVE  /\ sock' \in [Fd -> SockRec] /\ sock'[FdOf[c]].st = z
               /\ \A g \in Fd : g = FdOf[c] \/ sock'[g] = sock[g]
    <2>1. PICK y \in SockRec : y = [s EXCEPT !.st = z] /\ y.st = z
      <3>1. [s EXCEPT !.st = z] \in SockRec
        BY SockFields DEF SockState
      <3>2. [s EXCEPT !.st = z].st = z
        BY DEF SockRec
      <3> QED
        BY <3>1, <3>2
    <2>2. sock' = [sock EXCEPT ![FdOf[c]] = y]
      BY <1>1, <1>3, <2>1
    <2> QED
      BY <2>1, <2>2, OwnSocket
  <1>4. CASE sock' = [sock EXCEPT ![FdOf[c]].st = "up"] /\ Return(c, "ok")
    <2>1. pc' = [pc EXCEPT ![c] = pc'[c]] /\ pc'[c] = "idle" /\ res' \in [Coroutine -> Result]
      BY <1>4, Returned DEF Result
    <2> QED
      BY <1>2, <1>3, <1>4, <2>1 DEF OwnStep, Types, CoTypes, Connect, Calls
  <1>5. CASE sock' = [sock EXCEPT ![FdOf[c]].st = "connecting"] /\ GoTo(c, "mod")
    <2>1. pc' = [pc EXCEPT ![c] = pc'[c]] /\ pc'[c] = "mod" /\ res' \in [Coroutine -> Result]
      BY <1>5, Gone
    <2> QED
      BY <1>2, <1>3, <1>5, <2>1 DEF OwnStep, Types, CoTypes, Connect, Calls
  <1>6. CASE Return(c, "error") /\ UNCHANGED sock
    BY <1>6, PlainReturn DEF Connect, Calls, Result
  <1>7. CASE Return(c, "error") /\ sock' = [sock EXCEPT ![FdOf[c]] = [Closed EXCEPT !.st = "new"]]
    <2>1. PICK y \in SockRec : y = [Closed EXCEPT !.st = "new"]
      BY ClosedType DEF SockState
    <2>2. sock' \in [Fd -> SockRec] /\ \A g \in Fd : g = FdOf[c] \/ sock'[g] = sock[g]
      BY <1>7, <2>1, OwnSocket
    <2>3. pc' = [pc EXCEPT ![c] = pc'[c]] /\ pc'[c] = "idle" /\ res' \in [Coroutine -> Result]
      BY <1>7, Returned DEF Result
    <2> QED
      BY <1>2, <2>2, <2>3 DEF OwnStep, Types, CoTypes, Connect, Calls
  <1> QED
    BY <1>4, <1>5, <1>6, <1>7 DEF Connect

\* A step that leaves the handler and changes the socket, but not its state.
LEMMA SameState ==
  ASSUME Types, NEW c \in Coroutine, pc[c] \in {"call", "status"},
         NEW z \in SockRec, sock' = [sock EXCEPT ![FdOf[c]] = z], z.st = sock[FdOf[c]].st,
         \/ \E r \in Result : Return(c, r)
         \/ \E l \in {"call", "mod"} : op[c] # "connect" /\ GoTo(c, l),
         left' \in [Coroutine -> 0..SendSize],
         UNCHANGED <<prog, handlerVars, arrived, waitVars, op, tid, ops>>
  PROVE  OwnStep(c)
  <1>1. sock' \in [Fd -> SockRec] /\ sock'[FdOf[c]] = z /\ \A g \in Fd : g = FdOf[c] \/ sock'[g] = sock[g]
    BY OwnSocket
  <1>2. HandlerQuiet
    BY UnchangedQuiet DEF Types
  <1>3. /\ pc' = [pc EXCEPT ![c] = pc'[c]] /\ pc'[c] \in {"idle", "call", "mod"}
        /\ pc'[c] # "idle" => op[c] # "connect"
        /\ res' \in [Coroutine -> Result]
    BY Returned, Gone
  <1> QED
    BY <1>1, <1>2, <1>3 DEF OwnStep

LEMMA ConnectStatusOwn ==
  ASSUME Types, NEW c \in Coroutine, ConnectStatus(c), UNCHANGED prog
  PROVE  OwnStep(c)
  <1>1. PICK s \in SockRec : s = sock[FdOf[c]]
    BY MySocket
  <1>2. PICK z \in SockRec : z = [s EXCEPT !.err = FALSE]
    BY SockFields
  <1>3. sock' = [sock EXCEPT ![FdOf[c]] = z] /\ z.st = s.st
    BY <1>1, <1>2 DEF ConnectStatus, SockRec
  <1>4. \E r \in Result : Return(c, r)
    BY DEF ConnectStatus, Result
  <1>5. pc[c] = "status" /\ UNCHANGED <<handlerVars, arrived, waitVars, op, tid, left, ops>>
    BY DEF ConnectStatus
  <1>6. left' \in [Coroutine -> 0..SendSize]
    BY <1>5 DEF Types, CoTypes
  <1> QED
    BY <1>1, <1>3, <1>4, <1>5, <1>6, SameState

\* What recv and recvfrom make of their socket.
LEMMA ReceivedFacts ==
  ASSUME Types, NEW f \in Fd, NEW n, n = RecvReply(f)
  PROVE  Received(sock[f], n) \in SockRec /\ Received(sock[f], n).st = sock[f].st
  <1>1. PICK s \in SockRec : s = sock[f]
    BY DEF Types, KernelTypes
  <1>2. n \in {"data", "empty"} => s.rx # <<>>
    BY <1>1 DEF RecvReply
  <1>3. CASE n \in {"data", "empty"}
    <2>1. PICK q \in Seq({"data", "empty"}) : q = Tail(s.rx)
      BY <1>2, <1>3, SockFields, QueueTypes
    <2>2. Received(s, n) = [s EXCEPT !.rx = q]
      BY <1>3, <2>1 DEF Received
    <2>3. [s EXCEPT !.rx = q] \in SockRec /\ [s EXCEPT !.rx = q].st = s.st
      BY SockFields DEF SockRec
    <2> QED
      BY <1>1, <2>2, <2>3
  <1>4. CASE n \in {"error", "reset"}
    <2>1. Received(s, n) = [s EXCEPT !.err = FALSE]
      BY <1>4 DEF Received
    <2>2. [s EXCEPT !.err = FALSE] \in SockRec /\ [s EXCEPT !.err = FALSE].st = s.st
      BY SockFields DEF SockRec
    <2> QED
      BY <1>1, <2>1, <2>2
  <1>5. CASE n \notin {"data", "empty", "error", "reset"}
    <2>1. Received(s, n) = s
      BY <1>5 DEF Received
    <2> QED
      BY <1>1, <2>1
  <1> QED
    BY <1>3, <1>4, <1>5

LEMMA RecvOwn ==
  ASSUME Types, NEW c \in Coroutine, Recv(c) \/ RecvFrom(c), UNCHANGED prog
  PROVE  OwnStep(c)
  <1>1. PICK f \in Fd : f = FdOf[c]
    BY MySocket
  <1>2. PICK n : n = RecvReply(f)
    OBVIOUS
  <1>3. PICK z \in SockRec : z = Received(sock[f], n) /\ z.st = sock[f].st
    BY <1>2, ReceivedFacts
  <1>4. sock' = [sock EXCEPT ![f] = z]
    BY <1>1, <1>2, <1>3 DEF Recv, RecvFrom
  <1>5. pc[c] = "call" /\ op[c] # "connect"
    BY DEF Recv, RecvFrom, Calls
  <1>6. (\E r \in Result : Return(c, r)) \/ GoTo(c, "mod")
    BY DEF Recv, RecvFrom, Result
  <1>7. UNCHANGED <<handlerVars, arrived, waitVars, op, tid, left, ops>>
    BY DEF Recv, RecvFrom
  <1>8. left' \in [Coroutine -> 0..SendSize]
    BY <1>7 DEF Types, CoTypes
  <1> QED
    BY <1>1, <1>3, <1>4, <1>5, <1>6, <1>7, <1>8, SameState

LEMMA SendOwn ==
  ASSUME Types, NEW c \in Coroutine, Send(c) \/ SendTo(c), UNCHANGED prog
  PROVE  OwnStep(c)
  <1>1. PICK f \in Fd : f = FdOf[c]
    BY MySocket
  <1>2. PICK s \in SockRec : s = sock[f]
    BY <1>1, MySocket
  <1>3. pc[c] = "call" /\ op[c] # "connect"
    BY DEF Send, SendTo, Calls
  <1>4. UNCHANGED <<handlerVars, arrived, waitVars, op, tid, ops>>
    BY DEF Send, SendTo
  <1>5. ASSUME NEW k \in Nat, k <= s.tx, sock' = [sock EXCEPT ![f].tx = @ - k],
               (\E r \in Result : Return(c, r)) \/ GoTo(c, "call"), left' \in [Coroutine -> 0..SendSize]
        PROVE  OwnStep(c)
    <2>1. s.tx - k \in 0..TxRoom
      BY <1>5, SockFields, SocketAssumption
    <2>2. PICK z \in SockRec : z = [s EXCEPT !.tx = s.tx - k] /\ z.st = s.st
      <3>1. [s EXCEPT !.tx = s.tx - k] \in SockRec
        BY <2>1, SockFields
      <3>2. [s EXCEPT !.tx = s.tx - k].st = s.st
        BY DEF SockRec
      <3> QED
        BY <3>1, <3>2
    <2>3. sock' = [sock EXCEPT ![f] = z]
      BY <1>2, <1>5, <2>2
    <2> QED
      BY <1>1, <1>2, <1>3, <1>4, <1>5, <2>2, <2>3, SameState
  <1>6. ASSUME NEW b \in BOOLEAN, sock' = [sock EXCEPT ![f].err = @ /\ b],
               (\E r \in Result : Return(c, r)) \/ GoTo(c, "mod"), UNCHANGED left
        PROVE  OwnStep(c)
    <2>1. PICK z \in SockRec : z = [s EXCEPT !.err = (s.err /\ b)] /\ z.st = s.st
      <3>1. (s.err /\ b) \in BOOLEAN
        OBVIOUS
      <3>2. [s EXCEPT !.err = (s.err /\ b)] \in SockRec
        BY <3>1, SockFields
      <3>3. [s EXCEPT !.err = (s.err /\ b)].st = s.st
        BY DEF SockRec
      <3> QED
        BY <3>2, <3>3
    <2>2. sock' = [sock EXCEPT ![f] = z]
      BY <1>2, <1>6, <2>1
    <2>3. left' \in [Coroutine -> 0..SendSize]
      BY <1>6 DEF Types, CoTypes
    <2> QED
      BY <1>1, <1>2, <1>3, <1>4, <1>6, <2>1, <2>2, <2>3, SameState
  <1>7. CASE Send(c)
    <2>1. PICK n : n = SendReply(f, "send") /\ n \in {"closed", "error", "again", "room"}
      BY DEF SendReply
    <2>2. CASE n = "room"
      <3>1. PICK k \in 1..(IF f \in Udp THEN 1 ELSE left[c]) :
              /\ k <= sock[f].tx
              /\ sock' = [sock EXCEPT ![f].tx = @ - k]
              /\ left' = [left EXCEPT ![c] = IF f \in Udp THEN 0 ELSE @ - k]
        BY <1>1, <1>7, <2>1, <2>2 DEF Send
      <3>2. left[c] \in 0..SendSize
        BY DEF Types, CoTypes
      <3>3. k \in Nat /\ (IF f \in Udp THEN 0 ELSE left[c] - k) \in 0..SendSize
        BY <3>2, SocketAssumption
      <3>4. left' \in [Coroutine -> 0..SendSize]
        BY <3>1, <3>3 DEF Types, CoTypes
      <3>5. Return(c, "ok") \/ GoTo(c, "call")
        BY <1>1, <1>7, <2>1, <2>2 DEF Send
      <3> QED
        BY <1>2, <1>5, <3>1, <3>3, <3>4, <3>5 DEF Result
    <2>3. CASE n # "room"
      <3>1. PICK b \in BOOLEAN : b = (n = "again")
        OBVIOUS
      <3>2. (IF n = "again" THEN GoTo(c, "mod") ELSE Return(c, n)) /\ UNCHANGED left
            /\ sock' = [sock EXCEPT ![f].err = @ /\ n = "again"]
        BY <1>1, <1>7, <2>1, <2>3 DEF Send
      <3> QED
        BY <1>6, <2>1, <2>3, <3>1, <3>2 DEF Result
    <2> QED
      BY <2>2, <2>3
  <1>8. CASE SendTo(c)
    <2>1. PICK n : n = SendReply(f, "sendto") /\ n \in {"closed", "error", "again", "room"}
      BY DEF SendReply
    <2>2. CASE n = "room"
      <3>1. 1 <= s.tx
        <4>1. s.tx # 0
          BY <1>2, <2>1, <2>2 DEF SendReply
        <4> QED
          BY <4>1, SockFields, SocketAssumption
      <3>2. sock' = [sock EXCEPT ![f].tx = @ - 1] /\ Return(c, "ok")
        BY <1>1, <1>8, <2>1, <2>2 DEF SendTo
      <3>3. left' \in [Coroutine -> 0..SendSize]
        BY <1>8 DEF SendTo, Types, CoTypes
      <3> QED
        BY <1>5, <3>1, <3>2, <3>3 DEF Result
    <2>3. CASE n # "room"
      <3>1. PICK b \in BOOLEAN : b = (n = "again")
        OBVIOUS
      <3>2. (IF n = "again" THEN GoTo(c, "mod") ELSE Return(c, n)) /\ UNCHANGED left
            /\ sock' = [sock EXCEPT ![f].err = @ /\ n = "again"]
        BY <1>1, <1>8, <2>1, <2>3 DEF SendTo
      <3> QED
        BY <1>6, <2>1, <2>3, <3>1, <3>2 DEF Result
    <2> QED
      BY <2>2, <2>3
  <1> QED
    BY <1>7, <1>8

LEMMA CloseOwn ==
  ASSUME Types, NEW c \in Coroutine, CloseDel(c) \/ CloseFd(c), UNCHANGED prog
  PROVE  OwnStep(c)
  <1>1. PICK f \in Fd : f = FdOf[c]
    BY MySocket
  <1>2. CASE CloseDel(c)
    <2>1. HandlerQuiet
      BY <1>1, <1>2, DelQuiet DEF CloseDel, Types
    <2>2. pc' = [pc EXCEPT ![c] = pc'[c]] /\ pc'[c] = "shut" /\ res' \in [Coroutine -> Result]
      BY <1>2, Gone DEF CloseDel
    <2> QED
      BY <1>2, <2>1, <2>2 DEF CloseDel, OwnStep, Types, CoTypes, KernelTypes, Calls
  <1>3. CASE CloseFd(c)
    <2>1. HandlerQuiet
      BY <1>1, <1>3, OffListQuiet DEF CloseFd, Types
    <2>2. pc' = [pc EXCEPT ![c] = pc'[c]] /\ pc'[c] = "idle" /\ res' \in [Coroutine -> Result]
      BY <1>3, Returned DEF CloseFd, Result
    <2>3. sock' \in [Fd -> SockRec] /\ \A g \in Fd : g = FdOf[c] \/ sock'[g] = sock[g]
      BY <1>3, OwnSocket, ClosedType DEF CloseFd
    <2> QED
      BY <1>3, <2>1, <2>2, <2>3 DEF CloseFd, OwnStep, Types, CoTypes
  <1> QED
    BY <1>2, <1>3

\* What the network may do to a socket: an error is not taken back, data stays, room
\* in the send buffer stays, and a connection only goes on.
Evolves(s, z) ==
  /\ z \in SockRec
  /\ \/ z.st = s.st
     \/ s.st \in {"connecting", "up"} /\ z.st \in {"up", "fin"} /\ (s.st = "up" => z.st = "fin")
          /\ (s.st = "connecting" => z.st = "up")
     \/ s.st \in {"connecting", "up", "fin"} /\ z.st = "reset" /\ z.err
  /\ s.err => z.err
  /\ s.rx # <<>> => z.rx # <<>>
  /\ s.tx > 0 => z.tx > 0

LEMMA NetworkEvolves ==
  ASSUME Types, NEW f \in Fd, Arrive(f) \/ Network(f)
  PROVE  \E z \in SockRec : sock' = [sock EXCEPT ![f] = z] /\ Evolves(sock[f], z)
  <1>1. PICK s \in SockRec : s = sock[f]
    BY DEF Types, KernelTypes
  <1>2. s.tx \in Nat /\ TxRoom \in Nat /\ TxRoom > 0 /\ TxRoom \in 0..TxRoom
    BY SockFields, SocketAssumption
  <1>3. ASSUME NEW q \in Seq({"data", "empty"}), q # <<>>, sock' = [sock EXCEPT ![f].rx = q]
        PROVE  \E z \in SockRec : sock' = [sock EXCEPT ![f] = z] /\ Evolves(sock[f], z)
    <2>1. PICK z \in SockRec : z = [s EXCEPT !.rx = q]
      BY SockFields
    <2>2. z.st = s.st /\ z.rx = q /\ z.err = s.err /\ z.tx = s.tx
      BY <2>1 DEF SockRec
    <2>3. Evolves(s, z)
      BY <1>3, <2>2 DEF Evolves
    <2>4. sock' = [sock EXCEPT ![f] = z]
      BY <1>1, <1>3, <2>1
    <2> QED
      BY <1>1, <2>3, <2>4
  <1>4. ASSUME sock' = [sock EXCEPT ![f].tx = TxRoom]
        PROVE  \E z \in SockRec : sock' = [sock EXCEPT ![f] = z] /\ Evolves(sock[f], z)
    <2>1. PICK z \in SockRec : z = [s EXCEPT !.tx = TxRoom]
      BY <1>2, SockFields
    <2>2. z.st = s.st /\ z.rx = s.rx /\ z.err = s.err /\ z.tx = TxRoom
      BY <2>1 DEF SockRec
    <2>3. Evolves(s, z)
      BY <1>2, <2>2 DEF Evolves
    <2>4. sock' = [sock EXCEPT ![f] = z]
      BY <1>1, <1>4, <2>1
    <2> QED
      BY <1>1, <2>3, <2>4
  <1>5. ASSUME NEW x \in {"fin", "up"}, sock' = [sock EXCEPT ![f].st = x],
               (s.st = "up" /\ x = "fin") \/ (s.st = "connecting" /\ x = "up")
        PROVE  \E z \in SockRec : sock' = [sock EXCEPT ![f] = z] /\ Evolves(sock[f], z)
    <2>0. x \in SockState
      BY DEF SockState
    <2>1. PICK z \in SockRec : z = [s EXCEPT !.st = x]
      BY <2>0, SockFields
    <2>2. z.st = x /\ z.rx = s.rx /\ z.err = s.err /\ z.tx = s.tx
      BY <2>1 DEF SockRec
    <2>3. Evolves(s, z)
      BY <1>5, <2>2 DEF Evolves
    <2>4. sock' = [sock EXCEPT ![f] = z]
      BY <1>1, <1>5, <2>1
    <2> QED
      BY <1>1, <2>3, <2>4
  <1>6. ASSUME sock' = [sock EXCEPT ![f].st = "reset", ![f].err = TRUE], s.st \in {"connecting", "up", "fin"}
        PROVE  \E z \in SockRec : sock' = [sock EXCEPT ![f] = z] /\ Evolves(sock[f], z)
    <2>1. PICK y \in SockRec : y = [s EXCEPT !.st = "reset"]
      BY SockFields DEF SockState
    <2>2. PICK z \in SockRec : z = [y EXCEPT !.err = TRUE]
      BY SockFields
    <2>3. z.st = "reset" /\ z.rx = s.rx /\ z.err = TRUE /\ z.tx = s.tx
      BY <2>1, <2>2 DEF SockRec
    <2>4. Evolves(s, z)
      BY <1>6, <2>3 DEF Evolves
    <2>5. sock' = [sock EXCEPT ![f] = z]
      BY <1>1, <1>6, <2>1, <2>2 DEF Types, KernelTypes
    <2> QED
      BY <1>1, <2>4, <2>5
  <1>7. ASSUME sock' = [sock EXCEPT ![f].tx = TxRoom, ![f].err = TRUE]
        PROVE  \E z \in SockRec : sock' = [sock EXCEPT ![f] = z] /\ Evolves(sock[f], z)
    <2>1. PICK y \in SockRec : y = [s EXCEPT !.tx = TxRoom]
      BY <1>2, SockFields
    <2>2. PICK z \in SockRec : z = [y EXCEPT !.err = TRUE]
      BY SockFields
    <2>3. z.st = s.st /\ z.rx = s.rx /\ z.err = TRUE /\ z.tx = TxRoom
      BY <2>1, <2>2 DEF SockRec
    <2>4. Evolves(s, z)
      BY <1>2, <2>3 DEF Evolves
    <2>5. sock' = [sock EXCEPT ![f] = z]
      BY <1>1, <1>7, <2>1, <2>2 DEF Types, KernelTypes
    <2> QED
      BY <1>1, <2>4, <2>5
  <1>8. CASE Arrive(f)
    <2>1. PICK m \in {"data", "empty"} : sock' = [sock EXCEPT ![f].rx = Append(@, m)]
      BY <1>8 DEF Arrive
    <2>2. PICK q \in Seq({"data", "empty"}) : q = Append(s.rx, m) /\ q # <<>>
      BY SockFields, QueueTypes
    <2>3. sock' = [sock EXCEPT ![f].rx = q]
      BY <1>1, <2>1, <2>2
    <2> QED
      BY <1>3, <2>2, <2>3
  <1>9. CASE Network(f)
    BY <1>1, <1>4, <1>5, <1>6, <1>7, <1>9 DEF Network
  <1> QED
    BY <1>8, <1>9

\* The event that IN and OUT stand for.
LEMMA PollFacts ==
  ASSUME NEW f \in Fd
  PROVE  /\ Poll(f) \subseteq Event
         /\ "IN" \in Poll(f) <=>
              /\ sock[f].st # "free"
              /\ sock[f].rx # <<>> \/ sock[f].st \in {"fin", "reset"}
         /\ "OUT" \in Poll(f) <=>
              /\ sock[f].st # "free"
              /\ \/ sock[f].st = "reset"
                 \/ sock[f].st = "new" /\ f \notin Udp
                 \/ sock[f].tx > 0 /\ sock[f].st \in {"new", "up", "fin"}
  BY DEF Poll, Event

\* Steps that leave the waits: those of the network, of Socket::create and of an
\* operation outside _wait_sock_event.
Quiet ==
  /\ UNCHANGED <<prog, waitVars, tid>>
  /\ HandlerQuiet
  /\ \A d \in Coroutine :
       \/ pc'[d] = pc[d] /\ op'[d] = op[d]
       \/ ~Waiting(d) /\ pc'[d] \notin {"timer", "aquire"}

\* Tickets are numbered upwards.
LEMMA QuietWaitTypes ==
  ASSUME Types, Quiet
  PROVE  WaitTypes'
  <1>1. gid \in Nat /\ 0..(gid - 1) \subseteq 0..(gid' - 1)
    <2>1. gid \in Nat
      BY DEF Types, HandlerTypeOK
    <2>2. gid' = gid \/ gid' = gid + 1
      BY DEF Quiet, HandlerQuiet
    <2> QED
      BY <2>1, <2>2
  <1>2. UNCHANGED <<signal, timers, tid>>
    BY DEF Quiet, waitVars
  <1>3. \A c \in Coroutine : pc'[c] \in {"timer", "aquire"} => pc[c] \in {"timer", "aquire"}
    BY DEF Quiet
  <1> QED
    BY <1>1, <1>2, <1>3 DEF Types, WaitTypes

LEMMA OwnStepQuiet ==
  ASSUME Types, NEW c \in Coroutine, OwnStep(c)
  PROVE  Quiet /\ Types'
  <1>1. Quiet
    BY DEF OwnStep, Quiet, Types, CoTypes, Waiting
  <1>2. CoTypes'
    BY DEF OwnStep, Types, CoTypes, MaxOps
  <1>3. KernelTypes'
    BY DEF OwnStep, Types, KernelTypes, MaxArrive
  <1> QED
    BY <1>1, <1>2, <1>3, QuietWaitTypes DEF Types, Quiet, HandlerQuiet

LEMMA NetworkQuiet ==
  ASSUME Types, NEW f \in Fd, Arrive(f) \/ Network(f), UNCHANGED prog
  PROVE  Quiet /\ Types'
  <1>1. UNCHANGED <<handlerVars, waitVars, coVars>>
    BY DEF Arrive, Network
  <1>2. Quiet
    BY <1>1, UnchangedQuiet DEF Quiet, coVars, Types
  <1>3. CoTypes'
    BY <1>1 DEF Types, CoTypes, MaxOps, coVars
  <1>4. sock' \in [Fd -> SockRec]
    BY NetworkEvolves DEF Types, KernelTypes
  <1>5. arrived' \in 0..MaxArrive
    BY ProgFacts DEF Arrive, Network, Types, KernelTypes
  <1>6. KernelTypes'
    BY <1>4, <1>5 DEF Types, KernelTypes, MaxArrive
  <1> QED
    BY <1>2, <1>3, <1>6, QuietWaitTypes DEF Types, Quiet, HandlerQuiet

LEMMA CreateQuiet ==
  ASSUME Types, NEW f \in Fd, Create(f), UNCHANGED prog
  PROVE  /\ Quiet /\ Types'
         /\ sock[f].st = "free" /\ \A g \in Fd \ {f} : sock'[g] = sock[g]
  <1>1. UNCHANGED <<arrived, waitVars, coVars>> /\ HandlerQuiet
    BY SetSockOptQuiet DEF Create, Types
  <1>2. Quiet
    BY <1>1 DEF Quiet, coVars
  <1>3. CoTypes'
    BY <1>1 DEF Types, CoTypes, MaxOps, coVars
  <1>4. PICK z \in SockRec : z = [Closed EXCEPT !.st = "new"]
    BY ClosedType DEF SockState
  <1>5. sock' = [sock EXCEPT ![f] = z] /\ sock[f].st = "free"
    BY <1>4 DEF Create
  <1>6. sock' \in [Fd -> SockRec] /\ \A g \in Fd \ {f} : sock'[g] = sock[g]
    BY <1>5 DEF Types, KernelTypes
  <1>7. KernelTypes'
    BY <1>1, <1>6 DEF Types, KernelTypes, MaxArrive
  <1> QED
    BY <1>2, <1>3, <1>5, <1>6, <1>7, QuietWaitTypes DEF Types, Quiet, HandlerQuiet

LEMMA BeginQuiet ==
  ASSUME Types, NEW c \in Coroutine, NEW o \in Operation, Begin(c, o) \/ InvalidAddress(c, o), UNCHANGED prog
  PROVE  Quiet /\ Types'
  <1> USE DEF Begin, InvalidAddress, Return
  <1>1. HandlerQuiet
    BY UnchangedQuiet DEF Types
  <1>2. Quiet
    BY <1>1 DEF Quiet, Waiting, Types, CoTypes
  <1>3. KernelTypes'
    BY DEF Types, KernelTypes, MaxArrive
  <1>4. /\ pc' \in [Coroutine -> {"idle", "call", "mod", "timer", "aquire", "status", "shut"}]
        /\ op' \in [Coroutine -> Operation]
        /\ left' \in [Coroutine -> 0..SendSize]
        /\ res' \in [Coroutine -> Result]
    BY SocketAssumption DEF Types, CoTypes, Result
  <1>5. \A d \in Coroutine : ops'[d] \in 0..MaxOps[d]
    BY ProgFacts DEF Types, CoTypes
  <1>6. CoTypes'
    BY <1>4, <1>5 DEF Types, CoTypes, MaxOps
  <1> QED
    BY <1>2, <1>3, <1>6, QuietWaitTypes DEF Types, Quiet, HandlerQuiet

\* The waits do not notice.
LEMMA QuietKeeps ==
  ASSUME Types, TicketInv, OneRelease, AttendedInv, TimerInv, TimedOutByOwnTimer, Quiet
  PROVE  TicketInv' /\ OneRelease' /\ AttendedInv' /\ TimerInv' /\ TimedOutByOwnTimer'
  <1>1. UNCHANGED <<prog, signal, timers, tid, batch>>
    BY DEF Quiet, HandlerQuiet, waitVars
  <1>2. \A d \in Coroutine : /\ Waiting(d)' <=> Waiting(d)
                             /\ Waiting(d) => pc'[d] = pc[d] /\ op'[d] = op[d]
    BY DEF Quiet, Waiting
  <1>3. gid \notin DOMAIN signal
    BY DEF Types, WaitTypes, HandlerTypeOK
  <1>4. TicketInv'
    BY <1>1, <1>2 DEF TicketInv, Quiet, HandlerQuiet
  <1>5. OneRelease'
    BY <1>1, <1>2 DEF OneRelease, Decision
  <1>6. \A t : Attended(t) => Attended(t)'
    BY <1>1, <1>2 DEF Attended
  <1>7. AttendedInv'
    <2>1. \A t \in timers' : Attended(t)'
      BY <1>1, <1>6 DEF AttendedInv
    <2>2. \A e \in batch' : Attended(e.tid)'
      BY <1>1, <1>2 DEF AttendedInv, Attended
    <2>3. ASSUME NEW f \in DOMAIN epoll' PROVE Attended(epoll[f].tid)'
      <3>1. PICK t : t = epoll'[f].tid
        OBVIOUS
      <3>2. CASE t = gid
        BY <1>1, <1>3, <3>1, <3>2 DEF Attended
      <3>3. CASE f \in DOMAIN epoll /\ t = epoll[f].tid
        <4>1. Attended(t)
          BY <3>3 DEF AttendedInv
        <4>2. Attended(t)'
          BY <1>6, <4>1
        <4> QED
          BY <3>1, <4>2 DEF Attended
      <3> QED
        BY <3>1, <3>2, <3>3 DEF Quiet, HandlerQuiet
    <2> QED
      BY <2>1, <2>2, <2>3 DEF AttendedInv
  <1>8. TimerInv'
    BY <1>1, <1>2 DEF TimerInv, HasTimeout, Timed, Waiting
  <1>9. TimedOutByOwnTimer'
    BY <1>1, <1>2 DEF TimedOutByOwnTimer, HasTimeout, Timed, Decision
  <1> QED
    BY <1>4, <1>5, <1>7, <1>8, <1>9

-----------------------------------------------------------------------------
(* The socket of a coroutine that is alone on it.                          *)

\* Its socket only goes on while it waits: what it waits for, once there, stays.
LEMMA EvolvesKeeps ==
  ASSUME Types, NEW c \in Coroutine, Evolves(sock[FdOf[c]], sock'[FdOf[c]]),
         op'[c] = op[c], UNCHANGED prog
  PROVE  /\ Ready(c) => Ready(c)'
         /\ pc'[c] = pc[c] /\ SockOK(c) => SockOK(c)'
  <1>1. PICK f \in Fd : f = FdOf[c] /\ f = FdOf'[c] /\ Udp' = Udp /\ Wants(c)' = Wants(c) /\ FdOf' = FdOf
    BY MySocket DEF FdOf, Udp, Wants
  <1>2. Evolves(sock[f], sock'[f])
    BY <1>1
  <1>3. ("IN" \in Poll(f) => "IN" \in Poll(f)') /\ ("OUT" \in Poll(f) => "OUT" \in Poll(f)')
    <2>1. "IN" \in Poll(f)' <=>
            /\ sock'[f].st # "free"
            /\ sock'[f].rx # <<>> \/ sock'[f].st \in {"fin", "reset"}
      BY DEF Poll, Event
    <2>2. "OUT" \in Poll(f)' <=>
            /\ sock'[f].st # "free"
            /\ \/ sock'[f].st = "reset"
               \/ sock'[f].st = "new" /\ f \notin Udp
               \/ sock'[f].tx > 0 /\ sock'[f].st \in {"new", "up", "fin"}
      BY <1>1 DEF Poll, Event
    <2> QED
      BY <1>2, <2>1, <2>2, PollFacts DEF Evolves
  <1>4. Wants(c) \in {{"IN"}, {"OUT"}}
    BY DEF Wants
  <1>5. Ready(c) => Ready(c)'
    <2>1. Ready(c) => Wants(c) \cap Poll(f) # {}
      BY <1>1 DEF Ready
    <2>2. Wants(c) \cap Poll(f)' # {} => Ready(c)'
      BY <1>1 DEF Ready
    <2> QED
      BY <1>3, <1>4, <2>1, <2>2
  <1>6. pc'[c] = pc[c] /\ SockOK(c) => SockOK(c)'
    BY <1>1, <1>2 DEF SockOK, Connecting, Evolves
  <1> QED
    BY <1>5, <1>6

LEMMA EvolvesSame ==
  ASSUME Types, NEW f \in Fd, sock'[f] = sock[f]
  PROVE  Evolves(sock[f], sock'[f])
  BY DEF Types, KernelTypes, Evolves

\* For whom a quiet step is one of others.
LEMMA QuietOthers ==
  ASSUME Types, Quiet, NEW c \in Coroutine, Evolves(sock[FdOf[c]], sock'[FdOf[c]]),
         pc'[c] = pc[c], op'[c] = op[c], Alone(c) /\ pc[c] # "idle" => SockOK(c)
  PROVE  /\ Waiting(c) /\ Ready(c) => Ready(c)'
         /\ Alone(c)' /\ pc'[c] # "idle" => SockOK(c)'
  <1>1. UNCHANGED prog /\ (Alone(c)' <=> Alone(c))
    BY DEF Quiet, Alone, FdOf
  <1> QED
    BY <1>1, EvolvesKeeps

\* Registrations and events of a wait stay what they are.
LEMMA QuietEvents ==
  ASSUME Types, Quiet, EventInv, NoSpuriousWake,
         \A c \in Coroutine : Alone(c) /\ Waiting(c) /\ Ready(c) => Ready(c)'
  PROVE  EventInv' /\ NoSpuriousWake'
  <1>1. UNCHANGED <<prog, signal, timers, tid, batch>>
    BY DEF Quiet, HandlerQuiet, waitVars
  <1>2. ASSUME NEW c \in Coroutine, Waiting(c)'
        PROVE  /\ Waiting(c) /\ op'[c] = op[c] /\ Wants(c)' = Wants(c) /\ tid[c] # gid
               /\ (Alone(c)' <=> Alone(c)) /\ FdOf' = FdOf
    BY <1>1, <1>2 DEF Quiet, Waiting, Wants, Alone, FdOf, Types, WaitTypes, HandlerTypeOK
  <1>3. EventInv'
    <2> SUFFICES ASSUME NEW c \in Coroutine, Waiting(c)'
                 PROVE  /\ tid'[c] \in DOMAIN tid_calls' => tid_calls'[tid'[c]].on = Wants(c)'
                        /\ \A f \in DOMAIN epoll' : epoll'[f].tid = tid'[c] => f = FdOf'[c]
                        /\ Alone(c)' => \A e \in batch' : e.tid = tid'[c] /\ Wants(c)' \cap e.ev # {} => Ready(c)'
      BY DEF EventInv
    <2>1. Waiting(c) /\ Wants(c)' = Wants(c) /\ tid[c] # gid /\ (Alone(c)' <=> Alone(c)) /\ FdOf' = FdOf
      BY <1>2
    <2>2. tid'[c] \in DOMAIN tid_calls' => tid_calls'[tid'[c]].on = Wants(c)'
      BY <1>1, <2>1 DEF EventInv, Quiet, HandlerQuiet
    <2>3. \A f \in DOMAIN epoll' : epoll'[f].tid = tid'[c] => f = FdOf'[c]
      BY <1>1, <2>1 DEF EventInv, Quiet, HandlerQuiet
    <2>4. Alone(c) => \A e \in batch : e.tid = tid[c] /\ Wants(c) \cap e.ev # {} => Ready(c)'
      BY <2>1 DEF EventInv
    <2> QED
      BY <1>1, <2>1, <2>2, <2>3, <2>4
  <1>4. NoSpuriousWake'
    <2> SUFFICES ASSUME NEW c \in Coroutine, Alone(c)', Waiting(c)', Decision(c)' = 1
                 PROVE  Ready(c)'
      BY DEF NoSpuriousWake, Ready
    <2>1. Waiting(c) /\ Alone(c) /\ Decision(c) = 1
      BY <1>1, <1>2 DEF Decision
    <2>2. Ready(c)
      BY <2>1 DEF NoSpuriousWake, Ready
    <2> QED
      BY <2>1, <2>2
  <1> QED
    BY <1>3, <1>4

LEMMA QuietStep ==
  ASSUME IInv, Types', Quiet,
         \A c \in Coroutine : Alone(c) /\ Waiting(c) /\ Ready(c) => Ready(c)',
         SockInv'
  PROVE  IInv'
  BY QuietKeeps, QuietEvents DEF IInv

LEMMA OwnStepKeeps ==
  ASSUME IInv, NEW c \in Coroutine, OwnStep(c)
  PROVE  IInv'
  <1>1. Types /\ Quiet /\ Types' /\ SockInv
    BY OwnStepQuiet DEF IInv
  <1>2. UNCHANGED prog /\ FdOf' = FdOf
    BY DEF OwnStep, FdOf
  <1>3. ASSUME NEW d \in Coroutine, d # c
        PROVE  /\ Alone(d) /\ Waiting(d) /\ Ready(d) => Ready(d)'
               /\ Alone(d)' /\ pc'[d] # "idle" => SockOK(d)'
    <2>1. pc'[d] = pc[d] /\ op'[d] = op[d] /\ (Alone(d)' <=> Alone(d))
      BY <1>1, <1>2, <1>3 DEF OwnStep, Types, CoTypes, Alone
    <2>2. ASSUME Alone(d), pc[d] # "idle" PROVE Evolves(sock[FdOf[d]], sock'[FdOf[d]])
      <3>1. PICK g \in Fd : g = FdOf[d] /\ g # FdOf[c]
        BY <1>1, <1>3, <2>2, MySocket DEF Alone
      <3>2. sock[g].st # "free"
        BY <1>1, <2>2, <3>1 DEF SockInv, SockOK
      <3>3. sock'[g] = sock[g]
        BY <3>1, <3>2 DEF OwnStep
      <3> QED
        BY <1>1, <3>1, <3>3, EvolvesSame
    <2>3. Alone(d) /\ pc[d] # "idle" => SockOK(d)
      BY <1>1 DEF SockInv
    <2>4. Waiting(d) => pc[d] # "idle"
      BY DEF Waiting
    <2> QED
      BY <1>1, <1>2, <2>1, <2>2, <2>3, <2>4, EvolvesKeeps
  <1>4. ~Waiting(c)
    BY DEF OwnStep, Waiting
  <1>5. Alone(c)' /\ pc'[c] # "idle" => SockOK(c)'
    <2> SUFFICES ASSUME Alone(c)', pc'[c] # "idle" PROVE SockOK(c)'
      OBVIOUS
    <2>1. Alone(c) /\ pc[c] # "idle"
      BY <1>2 DEF Alone, OwnStep
    <2>2. SockOK(c)
      BY <1>1, <2>1 DEF SockInv
    <2> QED
      BY <1>2, <2>2 DEF OwnStep, SockOK, Connecting
  <1>6. SockInv'
    BY <1>3, <1>5 DEF SockInv
  <1> QED
    BY <1>1, <1>3, <1>4, <1>6, QuietStep

\* A step of nobody's operation.
LEMMA OutsideKeeps ==
  ASSUME IInv, Types', Quiet, UNCHANGED <<pc, op>>,
         \A c \in Coroutine : Alone(c) /\ pc[c] # "idle" => Evolves(sock[FdOf[c]], sock'[FdOf[c]])
  PROVE  IInv'
  <1>1. Types /\ SockInv
    BY DEF IInv
  <1>2. UNCHANGED prog
    BY DEF Quiet
  <1>3. ASSUME NEW d \in Coroutine
        PROVE  /\ Alone(d) /\ Waiting(d) /\ Ready(d) => Ready(d)'
               /\ Alone(d)' /\ pc'[d] # "idle" => SockOK(d)'
    <2>1. Alone(d)' <=> Alone(d)
      BY <1>2 DEF Alone, FdOf
    <2>2. Alone(d) /\ pc[d] # "idle" => SockOK(d)
      BY <1>1 DEF SockInv
    <2>3. Waiting(d) => pc[d] # "idle"
      BY DEF Waiting
    <2> QED
      BY <1>1, <1>2, <2>1, <2>2, <2>3, EvolvesKeeps
  <1>4. SockInv'
    BY <1>3 DEF SockInv
  <1> QED
    BY <1>3, <1>4, QuietStep

LEMMA NetworkKeeps ==
  ASSUME IInv, NEW f \in Fd, Arrive(f) \/ Network(f), UNCHANGED prog
  PROVE  IInv'
  <1>1. Types /\ Quiet /\ Types'
    BY NetworkQuiet DEF IInv
  <1>2. UNCHANGED <<pc, op>>
    BY DEF Arrive, Network, coVars
  <1>3. PICK z \in SockRec : sock' = [sock EXCEPT ![f] = z] /\ Evolves(sock[f], z)
    BY <1>1, NetworkEvolves
  <1>4. ASSUME NEW c \in Coroutine PROVE Evolves(sock[FdOf[c]], sock'[FdOf[c]])
    <2>1. PICK g \in Fd : g = FdOf[c]
      BY <1>1, MySocket
    <2>2. CASE g = f
      <3>1. sock'[f] = z
        BY <1>1, <1>3 DEF Types, KernelTypes
      <3> QED
        BY <1>3, <2>1, <2>2, <3>1
    <2>3. CASE g # f
      <3>1. sock'[g] = sock[g]
        BY <1>1, <1>3, <2>3 DEF Types, KernelTypes
      <3> QED
        BY <1>1, <2>1, <3>1, EvolvesSame
    <2> QED
      BY <2>2, <2>3
  <1> QED
    BY <1>1, <1>2, <1>4, OutsideKeeps

LEMMA CreateKeeps ==
  ASSUME IInv, NEW f \in Fd, Create(f), UNCHANGED prog
  PROVE  IInv'
  <1>1. Types /\ Quiet /\ Types' /\ SockInv
    BY CreateQuiet DEF IInv
  <1>2. sock[f].st = "free" /\ \A g \in Fd \ {f} : sock'[g] = sock[g]
    BY <1>1, CreateQuiet
  <1>3. UNCHANGED <<pc, op>>
    BY DEF Create, coVars
  <1>4. ASSUME NEW c \in Coroutine, Alone(c), pc[c] # "idle" PROVE Evolves(sock[FdOf[c]], sock'[FdOf[c]])
    <2>1. PICK g \in Fd : g = FdOf[c]
      BY <1>1, MySocket
    <2>2. g # f
      BY <1>1, <1>2, <1>4, <2>1 DEF SockInv, SockOK
    <2> QED
      BY <1>1, <1>2, <2>1, <2>2, EvolvesSame
  <1> QED
    BY <1>1, <1>3, <1>4, OutsideKeeps

LEMMA BeginKeeps ==
  ASSUME IInv, NEW c \in Coroutine, NEW o \in Operation, Begin(c, o) \/ InvalidAddress(c, o), UNCHANGED prog
  PROVE  IInv'
  <1>1. Types /\ Quiet /\ Types' /\ SockInv
    BY BeginQuiet DEF IInv
  <1>2. UNCHANGED <<prog, sock>> /\ FdOf' = FdOf
    BY DEF Begin, InvalidAddress, FdOf
  <1>3. ASSUME NEW d \in Coroutine, d # c
        PROVE  /\ Alone(d) /\ Waiting(d) /\ Ready(d) => Ready(d)'
               /\ Alone(d)' /\ pc'[d] # "idle" => SockOK(d)'
    <2>1. pc'[d] = pc[d] /\ op'[d] = op[d] /\ (Alone(d)' <=> Alone(d))
      BY <1>1, <1>2, <1>3 DEF Begin, InvalidAddress, Return, Types, CoTypes, Alone
    <2>2. Evolves(sock[FdOf[d]], sock'[FdOf[d]])
      BY <1>1, <1>2, MySocket, EvolvesSame
    <2>3. Alone(d) /\ pc[d] # "idle" => SockOK(d)
      BY <1>1 DEF SockInv
    <2> QED
      BY <1>1, <1>2, <2>1, <2>2, <2>3, EvolvesKeeps
  <1>4. ~Waiting(c) /\ (pc'[c] # "idle" => SockOK(c)')
    BY <1>1, <1>2 DEF Begin, InvalidAddress, Return, Waiting, SockOK, Connecting, Types, CoTypes
  <1>5. SockInv'
    BY <1>3, <1>4 DEF SockInv
  <1> QED
    BY <1>1, <1>3, <1>4, <1>5, QuietStep

-----------------------------------------------------------------------------
(* Socket::_wait_sock_event.                                               *)

LEMMA TicketNumbers ==
  ASSUME Types
  PROVE  /\ gid \in Nat /\ gid \notin DOMAIN signal /\ gid \notin timers /\ gid \notin DOMAIN tid_calls
         /\ \A c \in Coroutine : Waiting(c) => tid[c] \in DOMAIN signal /\ tid[c] # gid
         /\ \A f \in DOMAIN epoll : epoll[f].tid # gid
         /\ \A e \in batch : e.tid # gid
  <1>1. gid \in Nat /\ gid \notin 0..(gid - 1)
    BY DEF Types, HandlerTypeOK
  <1>2. gid \notin DOMAIN signal /\ timers \subseteq DOMAIN signal
    BY <1>1 DEF Types, WaitTypes
  <1>3. \A f \in DOMAIN epoll : epoll[f].tid \in 0..(gid - 1)
    BY DEF Types, HandlerTypeOK
  <1>4. DOMAIN tid_calls \subseteq 0..(gid - 1) /\ \A e \in batch : e.tid \in 0..(gid - 1)
    BY DEF Types, HandlerTypeOK
  <1>5. \A c \in Coroutine : Waiting(c) => tid[c] \in DOMAIN signal
    BY DEF Types, WaitTypes, Waiting
  <1> QED
    BY <1>1, <1>2, <1>3, <1>4, <1>5

\* What mod() and the new Signal change.
Registers(c) ==
  /\ pc[c] = "mod"
  /\ DOMAIN signal' = DOMAIN signal \cup {gid}
  /\ signal'[gid] = [timeout |-> 0, vacant |-> 0]
  /\ \A t \in DOMAIN signal \ {gid} : signal'[t] = signal[t]
  /\ tid'[c] = gid
  /\ pc'[c] \in {"idle", "timer", "aquire"}
  /\ pc'[c] = "timer" => HasTimeout(c)
  /\ \A d \in Coroutine \ {c} : pc'[d] = pc[d] /\ tid'[d] = tid[d]
  /\ \A x \in DOMAIN epoll' :
       \/ x \in DOMAIN epoll /\ epoll'[x] = epoll[x]
       \/ x = FdOf[c] /\ epoll'[x].tid = gid /\ pc'[c] # "idle"
  /\ \A t \in DOMAIN tid_calls' :
       \/ t \in DOMAIN tid_calls /\ tid_calls'[t] = tid_calls[t]
       \/ t = gid /\ tid_calls'[t].on = Wants(c) /\ tid_calls'[t].fn = gid
  /\ UNCHANGED <<prog, sock, timers, batch, op>>

LEMMA RegisterFacts ==
  ASSUME Types, NEW c \in Coroutine, Register(c), UNCHANGED prog
  PROVE  Registers(c) /\ Types'
  <1>0. FdOf[c] \in Fd /\ Wants(c) \in SUBSET Event /\ gid \in Nat /\ gid \in Int
    BY MySocket, TicketNumbers DEF Wants, Event
  <1>1. Mod(FdOf[c], Wants(c), gid)
    BY DEF Register
  <1>2. HandlerTypeOK' /\ gid' = gid + 1
    BY <1>0, <1>1, ModTypes DEF Types
  <1>3. /\ DOMAIN signal' = DOMAIN signal \cup {gid}
        /\ signal'[gid] = [timeout |-> 0, vacant |-> 0]
        /\ \A t \in DOMAIN signal \ {gid} : signal'[t] = signal[t]
    BY DEF Register, With
  <1>4. tid'[c] = gid /\ DOMAIN tid' = Coroutine /\ \A d \in Coroutine \ {c} : tid'[d] = tid[d]
    BY DEF Register, Types, CoTypes
  <1>5. /\ pc'[c] \in {"idle", "timer", "aquire"}
        /\ pc'[c] = "timer" => HasTimeout(c)
        /\ \A d \in Coroutine \ {c} : pc'[d] = pc[d]
        /\ ModThrows(FdOf[c]) <=> pc'[c] = "idle"
        /\ pc' \in [Coroutine -> {"idle", "call", "mod", "timer", "aquire", "status", "shut"}]
        /\ res' \in [Coroutine -> Result]
    <2>1. CASE ModThrows(FdOf[c])
      BY <2>1 DEF Register, Return, Types, CoTypes, Result
    <2>2. CASE ~ModThrows(FdOf[c]) /\ HasTimeout(c)
      BY <2>2 DEF Register, GoTo, Types, CoTypes
    <2>3. CASE ~ModThrows(FdOf[c]) /\ ~HasTimeout(c)
      BY <2>3 DEF Register, GoTo, Types, CoTypes
    <2> QED
      BY <2>1, <2>2, <2>3
  <1>6. \A x \in DOMAIN epoll' :
          \/ x \in DOMAIN epoll /\ epoll'[x] = epoll[x]
          \/ x = FdOf[c] /\ epoll'[x].tid = gid /\ pc'[c] # "idle"
    <2>1. CASE ModThrows(FdOf[c])
      BY <1>1, <2>1 DEF Mod
    <2>2. CASE ~ModThrows(FdOf[c])
      BY <1>1, <1>5, <2>2 DEF Mod, With, Armed
    <2> QED
      BY <2>1, <2>2
  <1>7. \A t \in DOMAIN tid_calls' :
          \/ t \in DOMAIN tid_calls /\ tid_calls'[t] = tid_calls[t]
          \/ t = gid /\ tid_calls'[t].on = Wants(c) /\ tid_calls'[t].fn = gid
    BY <1>1 DEF Mod, With, Without, Restrict
  <1>8. UNCHANGED <<prog, sock, timers, batch, op, arrived, left, ops>> /\ pc[c] = "mod"
    BY <1>1 DEF Register, Mod
  <1>9. Registers(c)
    BY <1>3, <1>4, <1>5, <1>6, <1>7, <1>8 DEF Registers
  <1>10. CoTypes' /\ KernelTypes'
    BY <1>4, <1>5, <1>8 DEF Types, CoTypes, KernelTypes, MaxOps, MaxArrive
  <1>11. WaitTypes'
    <2>1. 0..(gid - 1) \subseteq 0..(gid' - 1) /\ gid \in 0..(gid' - 1)
      BY <1>0, <1>2
    <2>2. [timeout |-> 0, vacant |-> 0] \in [timeout : {-1, 0, 1}, vacant : Nat]
      OBVIOUS
    <2>3. ASSUME NEW t \in DOMAIN signal'
          PROVE  t \in 0..(gid' - 1) /\ signal'[t] \in [timeout : {-1, 0, 1}, vacant : Nat]
      <3>1. CASE t = gid
        BY <1>3, <2>1, <2>2, <3>1
      <3>2. CASE t # gid
        <4>1. t \in DOMAIN signal /\ signal'[t] = signal[t]
          BY <1>3, <2>3, <3>2
        <4> QED
          BY <2>1, <4>1 DEF Types, WaitTypes
      <3> QED
        BY <3>1, <3>2
    <2>4. timers' \subseteq DOMAIN signal'
      BY <1>3, <1>8 DEF Types, WaitTypes
    <2>5. \A d \in Coroutine : pc'[d] \in {"timer", "aquire"} => tid'[d] \in DOMAIN signal'
      BY <1>3, <1>4, <1>5 DEF Types, WaitTypes
    <2> QED
      BY <2>3, <2>4, <2>5 DEF WaitTypes
  <1> QED
    BY <1>2, <1>9, <1>10, <1>11 DEF Types

LEMMA RegisterKeeps ==
  ASSUME IInv, NEW c \in Coroutine, Register(c), UNCHANGED prog
  PROVE  IInv'
  <1>1. Types /\ Registers(c) /\ Types'
    BY RegisterFacts DEF IInv
  <1>2. /\ gid \notin DOMAIN signal /\ gid \notin timers /\ gid \notin DOMAIN tid_calls
        /\ \A d \in Coroutine : Waiting(d) => tid[d] \in DOMAIN signal /\ tid[d] # gid
        /\ \A f \in DOMAIN epoll : epoll[f].tid # gid
        /\ \A e \in batch : e.tid # gid
    BY <1>1, TicketNumbers
  <1>3. ~Waiting(c) /\ (Waiting(c)' <=> pc'[c] # "idle")
    BY <1>1 DEF Registers, Waiting
  <1>4. ASSUME NEW d \in Coroutine \ {c}
        PROVE  /\ (Waiting(d)' <=> Waiting(d)) /\ pc'[d] = pc[d] /\ tid'[d] = tid[d] /\ op'[d] = op[d]
               /\ Waiting(d) => signal'[tid[d]] = signal[tid[d]]
    BY <1>1, <1>2 DEF Registers, Waiting
  <1>5. TicketInv'
    <2>1. \A d, x \in Coroutine : Waiting(d)' /\ Waiting(x)' /\ tid'[d] = tid'[x] => d = x
      BY <1>1, <1>2, <1>4 DEF IInv, TicketInv, Registers
    <2>2. \A t \in DOMAIN tid_calls' :
            tid_calls'[t].fn = Noop \/ (tid_calls'[t].fn = t /\ t \in DOMAIN signal')
      BY <1>1 DEF IInv, TicketInv, Registers
    <2> QED
      BY <2>1, <2>2 DEF TicketInv
  <1>6. OneRelease'
    <2>1. ASSUME NEW d \in Coroutine, Waiting(d)'
          PROVE  signal'[tid'[d]].vacant = IF signal'[tid'[d]].timeout = 0 THEN 0 ELSE 1
      <3>1. CASE d = c
        BY <1>1, <3>1 DEF Registers
      <3>2. CASE d # c
        BY <1>4, <2>1, <3>2 DEF IInv, OneRelease, Decision
      <3> QED
        BY <3>1, <3>2
    <2>2. ASSUME NEW t \in DOMAIN signal', \A d \in Coroutine : Waiting(d)' => tid'[d] # t
          PROVE  signal'[t].vacant = 0
      <3>1. CASE t = gid
        BY <1>1, <3>1 DEF Registers
      <3>2. CASE t # gid
        <4>1. t \in DOMAIN signal /\ signal'[t] = signal[t]
          BY <1>1, <2>2, <3>2 DEF Registers
        <4>2. \A d \in Coroutine : Waiting(d) => tid[d] # t
          BY <1>3, <1>4, <2>2
        <4> QED
          BY <4>1, <4>2 DEF IInv, OneRelease
      <3> QED
        BY <3>1, <3>2
    <2> QED
      BY <2>1, <2>2 DEF OneRelease, Decision
  <1>7. AttendedInv'
    <2>1. ASSUME NEW t, t # gid, Attended(t) PROVE Attended(t)'
      BY <1>1, <1>3, <1>4, <2>1 DEF Attended, Registers
    <2>3. \A t \in timers' : Attended(t)'
      BY <1>1, <1>2, <2>1 DEF IInv, AttendedInv, Registers
    <2>4. \A e \in batch' : Attended(e.tid)'
      <3>1. SUFFICES ASSUME NEW e \in batch' PROVE Attended(e.tid)'
        OBVIOUS
      <3>2. e.tid # gid /\ Attended(e.tid)
        BY <1>1, <1>2 DEF IInv, AttendedInv, Registers
      <3> QED
        BY <2>1, <3>2
    <2>5. ASSUME NEW x \in DOMAIN epoll' PROVE Attended(epoll[x].tid)'
      <3>1. PICK t : t = epoll'[x].tid
        OBVIOUS
      <3>2. Attended(t)'
        <4>1. CASE x \in DOMAIN epoll /\ epoll'[x] = epoll[x]
          BY <1>2, <2>1, <3>1, <4>1 DEF IInv, AttendedInv
        <4>2. CASE t = gid /\ pc'[c] # "idle"
          BY <1>1, <1>3, <4>2 DEF Attended, Registers
        <4> QED
          BY <1>1, <3>1, <4>1, <4>2 DEF Registers
      <3> QED
        BY <3>1, <3>2 DEF Attended
    <2> QED
      BY <2>3, <2>4, <2>5 DEF AttendedInv
  <1>8. TimerInv'
    BY <1>1, <1>2, <1>4 DEF IInv, TimerInv, Registers, HasTimeout, Timed
  <1>9. TimedOutByOwnTimer'
    <2> SUFFICES ASSUME NEW d \in Coroutine, Waiting(d)', Decision(d)' = -1
                 PROVE  pc'[d] = "aquire" /\ HasTimeout(d)' /\ tid'[d] \notin timers'
      BY DEF TimedOutByOwnTimer
    <2>1. d # c
      BY <1>1 DEF Registers, Decision
    <2>2. Waiting(d) /\ Decision(d) = -1
      BY <1>4, <2>1 DEF Decision
    <2> QED
      BY <1>1, <1>4, <2>1, <2>2 DEF IInv, TimedOutByOwnTimer, Registers, HasTimeout, Timed
  <1>10. ASSUME NEW d \in Coroutine
         PROVE  /\ Wants(d)' = Wants(d) /\ FdOf' = FdOf /\ (Alone(d)' <=> Alone(d))
                /\ Ready(d)' <=> Ready(d)
    BY <1>1 DEF Registers, Wants, FdOf, Alone, Ready, Poll, Udp
  <1>11. EventInv'
    <2> SUFFICES ASSUME NEW d \in Coroutine, Waiting(d)'
                 PROVE  /\ tid'[d] \in DOMAIN tid_calls' => tid_calls'[tid'[d]].on = Wants(d)'
                        /\ \A f \in DOMAIN epoll' : epoll'[f].tid = tid'[d] => f = FdOf'[d]
                        /\ Alone(d)' => \A e \in batch' : e.tid = tid'[d] /\ Wants(d)' \cap e.ev # {} => Ready(d)'
      BY DEF EventInv
    <2>1. CASE d = c
      BY <1>1, <1>2, <1>10, <2>1 DEF Registers
    <2>2. CASE d # c
      <3>1. Waiting(d) /\ tid'[d] = tid[d] /\ tid[d] # gid
        BY <1>2, <1>4, <2>2
      <3>2. tid'[d] \in DOMAIN tid_calls' => tid_calls'[tid'[d]].on = Wants(d)'
        BY <1>1, <1>10, <3>1 DEF IInv, EventInv, Registers
      <3>3. \A f \in DOMAIN epoll' : epoll'[f].tid = tid'[d] => f = FdOf'[d]
        BY <1>1, <1>10, <3>1 DEF IInv, EventInv, Registers
      <3>4. Alone(d)' => \A e \in batch' : e.tid = tid'[d] /\ Wants(d)' \cap e.ev # {} => Ready(d)'
        BY <1>1, <1>10, <3>1 DEF IInv, EventInv, Registers
      <3> QED
        BY <3>2, <3>3, <3>4
    <2> QED
      BY <2>1, <2>2
  <1>12. NoSpuriousWake'
    <2> SUFFICES ASSUME NEW d \in Coroutine, Alone(d)', Waiting(d)', Decision(d)' = 1
                 PROVE  Ready(d)'
      BY DEF NoSpuriousWake, Ready
    <2>1. d # c
      BY <1>1 DEF Registers, Decision
    <2>2. Waiting(d) /\ Decision(d) = 1 /\ Alone(d)
      BY <1>4, <1>10, <2>1 DEF Decision
    <2> QED
      BY <1>10, <2>2 DEF IInv, NoSpuriousWake, Ready
  <1>13. SockInv'
    <2> SUFFICES ASSUME NEW d \in Coroutine, Alone(d)', pc'[d] # "idle" PROVE SockOK(d)'
      BY DEF SockInv
    <2>1. Alone(d) /\ pc[d] # "idle"
      BY <1>1, <1>4, <1>10 DEF Registers
    <2>2. SockOK(d)
      BY <2>1 DEF IInv, SockInv
    <2>3. CASE d = c
      BY <1>1, <1>10, <2>2, <2>3 DEF Registers, SockOK, Connecting
    <2>4. CASE d # c
      BY <1>1, <1>4, <1>10, <2>2, <2>4 DEF Registers, SockOK, Connecting
    <2> QED
      BY <2>3, <2>4
  <1> QED
    BY <1>1, <1>5, <1>6, <1>7, <1>8, <1>9, <1>11, <1>12, <1>13 DEF IInv

\* Steps that leave the sockets and the program: what is ready stays so.
LEMMA SameSockets ==
  ASSUME UNCHANGED <<prog, sock, op>>, NEW d \in Coroutine
  PROVE  /\ Wants(d)' = Wants(d) /\ FdOf' = FdOf /\ (Alone(d)' <=> Alone(d))
         /\ Ready(d)' <=> Ready(d)
         /\ HasTimeout(d)' <=> HasTimeout(d)
         /\ pc'[d] = pc[d] /\ SockOK(d) => SockOK(d)'
  <1>1. Wants(d)' = Wants(d) /\ FdOf' = FdOf /\ Udp' = Udp /\ (Alone(d)' <=> Alone(d))
    BY DEF Wants, FdOf, Alone, Udp
  <1>2. Ready(d)' <=> Ready(d)
    BY <1>1 DEF Ready, Poll
  <1>3. HasTimeout(d)' <=> HasTimeout(d)
    BY DEF HasTimeout, Timed
  <1>4. pc'[d] = pc[d] /\ SockOK(d) => SockOK(d)'
    BY <1>1 DEF SockOK, Connecting
  <1> QED
    BY <1>1, <1>2, <1>3, <1>4

LEMMA CreateTimeoutKeeps ==
  ASSUME IInv, NEW c \in Coroutine, CreateTimeout(c), UNCHANGED prog
  PROVE  IInv'
  <1> DEFINE t == tid[c]
  <1>0. Types
    BY DEF IInv
  <1>1. /\ pc[c] = "timer" /\ pc'[c] = "aquire" /\ \A d \in Coroutine \ {c} : pc'[d] = pc[d]
        /\ timers' = timers \cup {t}
        /\ UNCHANGED <<prog, handlerVars, sock, arrived, signal, op, tid, left, ops, res>>
    BY <1>0 DEF CreateTimeout, GoTo, Types, CoTypes
  <1>2. UNCHANGED <<tid_calls, fd_tids, gid, epoll, batch>>
    BY <1>1 DEF handlerVars
  <1>3. Types'
    <2>1. HandlerTypeOK'
      BY <1>0, <1>2 DEF Types, HandlerTypeOK
    <2>2. KernelTypes'
      BY <1>0, <1>1 DEF Types, KernelTypes, MaxArrive
    <2>3. CoTypes'
      BY <1>0, <1>1 DEF Types, CoTypes, MaxOps, CreateTimeout, GoTo
    <2>4. WaitTypes'
      BY <1>0, <1>1, <1>2 DEF Types, WaitTypes
    <2> QED
      BY <2>1, <2>2, <2>3, <2>4 DEF Types
  <1>4. Waiting(c) /\ \A d \in Coroutine : Waiting(d)' <=> Waiting(d)
    BY <1>1 DEF Waiting
  <1>5. \A d \in Coroutine : /\ Wants(d)' = Wants(d) /\ FdOf' = FdOf /\ (Alone(d)' <=> Alone(d))
                             /\ Ready(d)' <=> Ready(d)
                             /\ HasTimeout(d)' <=> HasTimeout(d)
    BY <1>1, SameSockets
  <1>6. TicketInv' /\ OneRelease'
    BY <1>1, <1>2, <1>4 DEF IInv, TicketInv, OneRelease, Decision
  <1>7. AttendedInv'
    <2>1. \A x : Attended(x) => Attended(x)'
      BY <1>1, <1>4 DEF Attended
    <2>2. PICK x : x = t
      OBVIOUS
    <2>3. Attended(x)
      BY <1>4, <2>2 DEF Attended
    <2>4. \A y \in timers' : Attended(y)'
      BY <1>1, <2>1, <2>2, <2>3 DEF IInv, AttendedInv
    <2>5. (\A f \in DOMAIN epoll' : Attended(epoll[f].tid)') /\ (\A e \in batch' : Attended(e.tid)')
      BY <1>1, <1>2, <1>4 DEF IInv, AttendedInv, Attended
    <2> QED
      BY <2>4, <2>5 DEF AttendedInv
  <1>8. HasTimeout(c)
    BY <1>1 DEF IInv, TimerInv
  <1>9. \A d \in Coroutine \ {c} : Waiting(d) => tid[d] # t
    BY <1>4 DEF IInv, TicketInv
  <1>10. TimerInv'
    BY <1>1, <1>4, <1>5, <1>8, <1>9 DEF IInv, TimerInv
  <1>11. TimedOutByOwnTimer'
    BY <1>1, <1>4, <1>5, <1>9 DEF IInv, TimedOutByOwnTimer, Decision
  <1>12. EventInv'
    BY <1>1, <1>2, <1>4, <1>5 DEF IInv, EventInv
  <1>13. NoSpuriousWake'
    <2>1. \A d \in Coroutine : Alone(d)' /\ Waiting(d)' /\ Decision(d)' = 1 => Ready(d)'
      BY <1>1, <1>4, <1>5 DEF IInv, NoSpuriousWake, Ready, Decision
    <2> QED
      BY <2>1 DEF NoSpuriousWake, Ready
  <1>14. SockInv'
    BY <1>1, <1>5 DEF IInv, SockInv, SockOK, Connecting
  <1> QED
    BY <1>3, <1>6, <1>7, <1>10, <1>11, <1>12, <1>13, <1>14 DEF IInv

LEMMA AquiredKeeps ==
  ASSUME IInv, NEW c \in Coroutine, Aquired(c), UNCHANGED prog
  PROVE  IInv'
  <1>0. Types
    BY DEF IInv
  <1>1. PICK t \in DOMAIN signal : t = tid[c]
    BY <1>0 DEF Aquired, Types, WaitTypes
  <1>2. signal[t].vacant = 1 /\ signal[t].timeout \in {-1, 1}
    BY <1>0, <1>1 DEF Aquired, IInv, OneRelease, Decision, Waiting, Types, WaitTypes
  <1>3. /\ DOMAIN signal' = DOMAIN signal
        /\ signal'[t].vacant = 0 /\ \A x \in DOMAIN signal : signal'[x].timeout = signal[x].timeout
        /\ \A x \in DOMAIN signal \ {t} : signal'[x] = signal[x]
        /\ \A x \in DOMAIN signal : signal'[x] \in [timeout : {-1, 0, 1}, vacant : Nat]
    <2>1. PICK r \in [timeout : {-1, 0, 1}, vacant : Nat] : r = signal[t]
      BY <1>0, <1>1 DEF Types, WaitTypes
    <2>2. r.vacant - 1 = 0
      BY <1>2, <2>1
    <2>3. signal' = [signal EXCEPT ![t] = [r EXCEPT !.vacant = 0]]
      BY <1>1, <2>1, <2>2 DEF Aquired
    <2>4. [r EXCEPT !.vacant = 0] \in [timeout : {-1, 0, 1}, vacant : Nat]
          /\ [r EXCEPT !.vacant = 0].vacant = 0 /\ [r EXCEPT !.vacant = 0].timeout = r.timeout
      OBVIOUS
    <2> QED
      BY <1>0, <1>1, <2>1, <2>3, <2>4 DEF Types, WaitTypes
  <1>4. /\ pc[c] = "aquire" /\ pc'[c] \in {"call", "status", "idle"} /\ \A d \in Coroutine \ {c} : pc'[d] = pc[d]
        /\ pc' \in [Coroutine -> {"idle", "call", "mod", "timer", "aquire", "status", "shut"}]
        /\ res' \in [Coroutine -> Result]
        /\ pc'[c] = "status" => op[c] = "connect" /\ signal[t].timeout = 1
    <2>1. pc[c] = "aquire"
      BY DEF Aquired
    <2>2. CASE Return(c, "timeout")
      BY <1>0, <2>1, <2>2 DEF Return, Types, CoTypes, Result
    <2>3. CASE /\ signal[t].timeout = 1 \/ op[c] = "accept"
               /\ GoTo(c, IF op[c] = "connect" THEN "status" ELSE "call")
      BY <1>0, <2>1, <2>3 DEF GoTo, Types, CoTypes
    <2> QED
      BY <1>1, <2>2, <2>3 DEF Aquired
  <1>5. UNCHANGED <<prog, tid_calls, fd_tids, gid, epoll, batch, sock, arrived, timers, op, tid, left, ops>>
    BY DEF Aquired, handlerVars
  <1>6. Waiting(c) /\ ~Waiting(c)' /\ \A d \in Coroutine \ {c} : Waiting(d)' <=> Waiting(d)
    BY <1>4 DEF Waiting
  <1>7. \A d \in Coroutine \ {c} : Waiting(d) => tid[d] # t /\ tid[d] \in DOMAIN signal
    BY <1>0, <1>1, <1>6, TicketNumbers DEF IInv, TicketInv
  <1>8. \A d \in Coroutine : /\ Wants(d)' = Wants(d) /\ FdOf' = FdOf /\ (Alone(d)' <=> Alone(d))
                             /\ Ready(d)' <=> Ready(d)
                             /\ HasTimeout(d)' <=> HasTimeout(d)
                             /\ pc'[d] = pc[d] /\ SockOK(d) => SockOK(d)'
    BY <1>5, SameSockets
  <1>9. Types'
    <2>1. HandlerTypeOK'
      BY <1>0, <1>5 DEF Types, HandlerTypeOK
    <2>2. KernelTypes'
      BY <1>0, <1>5 DEF Types, KernelTypes, MaxArrive
    <2>3. CoTypes'
      BY <1>0, <1>4, <1>5 DEF Types, CoTypes, MaxOps
    <2>4. WaitTypes'
      BY <1>0, <1>3, <1>4, <1>5 DEF Types, WaitTypes
    <2> QED
      BY <2>1, <2>2, <2>3, <2>4 DEF Types
  <1>10. TicketInv'
    BY <1>3, <1>5, <1>6 DEF IInv, TicketInv
  <1>11. OneRelease'
    <2>1. ASSUME NEW d \in Coroutine, Waiting(d)'
          PROVE  signal'[tid'[d]].vacant = IF signal'[tid'[d]].timeout = 0 THEN 0 ELSE 1
      BY <1>3, <1>5, <1>6, <1>7, <2>1 DEF IInv, OneRelease, Decision
    <2>2. ASSUME NEW x \in DOMAIN signal', \A d \in Coroutine : Waiting(d)' => tid'[d] # x
          PROVE  signal'[x].vacant = 0
      <3>1. CASE x = t
        BY <1>3, <3>1
      <3>2. CASE x # t
        <4>1. \A d \in Coroutine : Waiting(d) => tid[d] # x
          BY <1>1, <1>5, <1>6, <2>2, <3>2
        <4> QED
          BY <1>3, <2>2, <3>2, <4>1 DEF IInv, OneRelease
      <3> QED
        BY <3>1, <3>2
    <2> QED
      BY <2>1, <2>2 DEF OneRelease, Decision
  <1>12. AttendedInv'
    <2>1. ASSUME NEW x, Attended(x) PROVE Attended(x)'
      <3>1. CASE x = t
        BY <1>2, <1>3, <3>1 DEF Attended
      <3>2. CASE x # t
        BY <1>1, <1>3, <1>5, <1>6, <2>1, <3>2 DEF Attended
      <3> QED
        BY <3>1, <3>2
    <2>2. \A y \in timers' : Attended(y)'
      BY <1>5, <2>1 DEF IInv, AttendedInv
    <2>3. ASSUME NEW f \in DOMAIN epoll' PROVE Attended(epoll[f].tid)'
      <3>1. PICK x : x = epoll[f].tid /\ x = epoll'[f].tid
        BY <1>5
      <3>2. Attended(x)'
        BY <1>5, <2>1, <3>1 DEF IInv, AttendedInv
      <3> QED
        BY <3>1, <3>2 DEF Attended
    <2>4. ASSUME NEW e \in batch' PROVE Attended(e.tid)'
      <3>1. PICK x : x = e.tid
        OBVIOUS
      <3>2. Attended(x)'
        BY <1>5, <2>1, <3>1 DEF IInv, AttendedInv
      <3> QED
        BY <3>1, <3>2
    <2> QED
      BY <2>2, <2>3, <2>4 DEF AttendedInv
  <1>13. TimerInv' /\ TimedOutByOwnTimer'
    <2>1. TimerInv'
      BY <1>4, <1>5, <1>6, <1>8 DEF IInv, TimerInv
    <2>2. \A d \in Coroutine : Waiting(d)' => Decision(d)' = Decision(d)
      BY <1>3, <1>5, <1>6, <1>7 DEF Decision
    <2>3. TimedOutByOwnTimer'
      BY <1>4, <1>5, <1>6, <1>8, <2>2 DEF IInv, TimedOutByOwnTimer
    <2> QED
      BY <2>1, <2>3
  <1>14. EventInv'
    BY <1>5, <1>6, <1>8 DEF IInv, EventInv
  <1>15. NoSpuriousWake'
    <2>1. \A d \in Coroutine : Alone(d)' /\ Waiting(d)' /\ Decision(d)' = 1 => Ready(d)'
      BY <1>3, <1>5, <1>6, <1>7, <1>8 DEF IInv, NoSpuriousWake, Ready, Decision
    <2> QED
      BY <2>1 DEF NoSpuriousWake, Ready
  <1>16. SockInv'
    <2> SUFFICES ASSUME NEW d \in Coroutine, Alone(d)', pc'[d] # "idle" PROVE SockOK(d)'
      BY DEF SockInv
    <2>1. CASE d # c
      BY <1>4, <1>8, <2>1 DEF IInv, SockInv
    <2>2. CASE d = c
      <3>1. SockOK(c) /\ Alone(c)
        BY <1>4, <1>8, <2>2 DEF IInv, SockInv
      <3>2. pc'[c] = "status" => op[c] = "connect" /\ sock[FdOf[c]].st # "connecting"
        <4> SUFFICES ASSUME pc'[c] = "status" PROVE op[c] = "connect" /\ sock[FdOf[c]].st # "connecting"
          OBVIOUS
        <4>1. op[c] = "connect" /\ Decision(c) = 1
          BY <1>1, <1>4 DEF Decision
        <4>2. Wants(c) \cap Poll(FdOf[c]) # {} /\ Wants(c) = {"OUT"}
          BY <1>6, <3>1, <4>1 DEF IInv, NoSpuriousWake, Wants
        <4>3. PICK f \in Fd : f = FdOf[c]
          BY <1>0, MySocket
        <4>4. "OUT" \in Poll(f)
          BY <4>2, <4>3
        <4>5. sock[f].st # "connecting"
          BY <4>4, PollFacts
        <4> QED
          BY <4>1, <4>3, <4>5
      <3> QED
        BY <1>4, <1>5, <1>8, <2>2, <3>1, <3>2 DEF SockOK, Connecting
    <2> QED
      BY <2>1, <2>2
  <1> QED
    BY <1>9, <1>10, <1>11, <1>12, <1>13, <1>14, <1>15, <1>16 DEF IInv

-----------------------------------------------------------------------------
(* The two callbacks.                                                      *)

\* The compare_exchange decides ticket t for v or finds it decided.
LEMMA DecideKeeps ==
  ASSUME IInv, NEW t \in DOMAIN signal, NEW v \in {-1, 1}, Attended(t), Decide(t, v),
         UNCHANGED <<prog, tid_calls, fd_tids, gid, epoll, sock, arrived, coVars>>,
         timers' \subseteq timers, batch' \subseteq batch,
         v = -1 => t \in timers /\ t \notin timers',
         v = 1 => \A c \in Coroutine : Alone(c) /\ Waiting(c) /\ tid[c] = t => Ready(c)
  PROVE  IInv'
  <1>0. Types /\ UNCHANGED <<pc, op, tid, left, res, ops>>
    BY DEF IInv, coVars
  <1>1. signal[t].timeout = 0 => signal[t].vacant = 0
    BY DEF Attended, IInv, OneRelease, Decision
  <1>2. /\ DOMAIN signal' = DOMAIN signal
        /\ \A x \in DOMAIN signal \ {t} : signal'[x] = signal[x]
        /\ signal[t].timeout = 0 => signal'[t] = [timeout |-> v, vacant |-> 1]
        /\ signal[t].timeout # 0 => signal'[t] = signal[t]
    BY <1>1 DEF Decide
  <1>3. \A x \in DOMAIN signal :
          /\ signal'[x].timeout = 0 => signal[x].timeout = 0
          /\ signal'[x] = signal[x] \/ (x = t /\ signal'[x] = [timeout |-> v, vacant |-> 1])
    BY <1>2
  <1>4. \A d \in Coroutine : (Waiting(d)' <=> Waiting(d)) /\ (Waiting(d) => tid[d] \in DOMAIN signal)
    BY <1>0, TicketNumbers DEF Waiting
  <1>5. \A d \in Coroutine : /\ Wants(d)' = Wants(d) /\ FdOf' = FdOf /\ (Alone(d)' <=> Alone(d))
                             /\ Ready(d)' <=> Ready(d)
                             /\ HasTimeout(d)' <=> HasTimeout(d)
                             /\ pc'[d] = pc[d] /\ SockOK(d) => SockOK(d)'
    BY <1>0, SameSockets
  <1>6. Types'
    <2>1. HandlerTypeOK'
      BY <1>0 DEF Types, HandlerTypeOK
    <2>2. KernelTypes'
      BY <1>0 DEF Types, KernelTypes, MaxArrive
    <2>3. CoTypes'
      BY <1>0 DEF Types, CoTypes, MaxOps
    <2>4. WaitTypes'
      <3>1. [timeout |-> v, vacant |-> 1] \in [timeout : {-1, 0, 1}, vacant : Nat]
        OBVIOUS
      <3>2. \A x \in DOMAIN signal' : x \in 0..(gid' - 1) /\ signal'[x] \in [timeout : {-1, 0, 1}, vacant : Nat]
        BY <1>0, <1>2, <1>3, <3>1 DEF Types, WaitTypes
      <3>3. timers' \subseteq DOMAIN signal' /\ \A d \in Coroutine : pc'[d] \in {"timer", "aquire"} => tid'[d] \in DOMAIN signal'
        BY <1>0, <1>2 DEF Types, WaitTypes
      <3> QED
        BY <3>2, <3>3 DEF WaitTypes
    <2> QED
      BY <2>1, <2>2, <2>3, <2>4 DEF Types
  <1>7. TicketInv'
    BY <1>0, <1>2, <1>4 DEF IInv, TicketInv
  <1>8. OneRelease'
    <2>1. ASSUME NEW d \in Coroutine, Waiting(d)'
          PROVE  signal'[tid'[d]].vacant = IF signal'[tid'[d]].timeout = 0 THEN 0 ELSE 1
      BY <1>0, <1>3, <1>4, <2>1 DEF IInv, OneRelease, Decision
    <2>2. ASSUME NEW x \in DOMAIN signal', \A d \in Coroutine : Waiting(d)' => tid'[d] # x
          PROVE  signal'[x].vacant = 0
      <3>1. \A d \in Coroutine : Waiting(d) => tid[d] # x
        BY <1>0, <1>4, <2>2
      <3>2. signal[x].vacant = 0 /\ x \in DOMAIN signal
        BY <1>2, <2>2, <3>1 DEF IInv, OneRelease
      <3>3. x = t => signal[t].timeout # 0
        BY <3>1 DEF Attended
      <3> QED
        BY <1>2, <3>2, <3>3
    <2> QED
      BY <2>1, <2>2 DEF OneRelease, Decision
  <1>9. AttendedInv'
    <2>1. ASSUME NEW x, Attended(x) PROVE Attended(x)'
      BY <1>0, <1>2, <1>3, <1>4, <2>1 DEF Attended
    <2>2. \A y \in timers' : Attended(y)'
      BY <2>1 DEF IInv, AttendedInv
    <2>3. ASSUME NEW f \in DOMAIN epoll' PROVE Attended(epoll[f].tid)'
      <3>1. PICK x : x = epoll[f].tid /\ x = epoll'[f].tid
        OBVIOUS
      <3>2. Attended(x)'
        BY <2>1, <3>1 DEF IInv, AttendedInv
      <3> QED
        BY <3>1, <3>2 DEF Attended
    <2>4. ASSUME NEW e \in batch' PROVE Attended(e.tid)'
      <3>1. PICK x : x = e.tid
        OBVIOUS
      <3>2. Attended(x)'
        BY <2>1, <3>1 DEF IInv, AttendedInv
      <3> QED
        BY <3>1, <3>2
    <2> QED
      BY <2>2, <2>3, <2>4 DEF AttendedInv
  <1>10. TimerInv'
    BY <1>0, <1>4, <1>5 DEF IInv, TimerInv
  <1>11. TimedOutByOwnTimer'
    <2> SUFFICES ASSUME NEW d \in Coroutine, Waiting(d)', Decision(d)' = -1
                 PROVE  pc'[d] = "aquire" /\ HasTimeout(d)' /\ tid'[d] \notin timers'
      BY DEF TimedOutByOwnTimer
    <2>1. CASE Decision(d) = -1
      BY <1>0, <1>4, <1>5, <2>1 DEF IInv, TimedOutByOwnTimer
    <2>2. CASE Decision(d) # -1
      <3>1. tid[d] = t /\ v = -1
        BY <1>0, <1>3, <1>4, <2>2 DEF Decision
      <3>2. pc[d] = "aquire" /\ HasTimeout(d)
        BY <1>4, <3>1 DEF IInv, TimerInv
      <3> QED
        BY <1>0, <1>5, <3>1, <3>2
    <2> QED
      BY <2>1, <2>2
  <1>12. EventInv'
    <2> SUFFICES ASSUME NEW d \in Coroutine, Waiting(d)'
                 PROVE  /\ tid'[d] \in DOMAIN tid_calls' => tid_calls'[tid'[d]].on = Wants(d)'
                        /\ \A f \in DOMAIN epoll' : epoll'[f].tid = tid'[d] => f = FdOf'[d]
                        /\ Alone(d)' => \A e \in batch' : e.tid = tid'[d] /\ Wants(d)' \cap e.ev # {} => Ready(d)'
      BY DEF EventInv
    <2> QED
      BY <1>0, <1>4, <1>5 DEF IInv, EventInv
  <1>13. NoSpuriousWake'
    <2> SUFFICES ASSUME NEW d \in Coroutine, Alone(d)', Waiting(d)', Decision(d)' = 1
                 PROVE  Ready(d)'
      BY DEF NoSpuriousWake, Ready
    <2>1. CASE Decision(d) = 1
      BY <1>4, <1>5, <2>1 DEF IInv, NoSpuriousWake, Ready
    <2>2. CASE Decision(d) # 1
      <3>1. tid[d] = t /\ v = 1
        BY <1>0, <1>3, <1>4, <2>2 DEF Decision
      <3> QED
        BY <1>4, <1>5, <3>1
    <2> QED
      BY <2>1, <2>2
  <1>14. SockInv'
    BY <1>0, <1>5 DEF IInv, SockInv
  <1> QED
    BY <1>6, <1>7, <1>8, <1>9, <1>10, <1>11, <1>12, <1>13, <1>14 DEF IInv

LEMMA FireTimerKeeps ==
  ASSUME IInv, NEW t, FireTimer(t), UNCHANGED prog
  PROVE  IInv'
  <1>1. t \in timers /\ timers' = timers \ {t} /\ Decide(t, -1)
        /\ UNCHANGED <<tid_calls, fd_tids, gid, epoll, batch, sock, arrived, coVars>>
    BY DEF FireTimer, handlerVars
  <1>2. t \in DOMAIN signal /\ Attended(t)
    BY <1>1 DEF IInv, Types, WaitTypes, AttendedInv
  <1> QED
    BY <1>1, <1>2, DecideKeeps

\* An iteration of handle(), with an event that calls a callback and one that does not.
LEMMA HandleEventKeeps ==
  ASSUME IInv, NEW e, HandleEvent(e), UNCHANGED prog
  PROVE  IInv'
  <1>1. e \in batch /\ batch' = batch \ {e}
        /\ UNCHANGED <<tid_calls, fd_tids, gid, epoll, sock, arrived, timers, coVars>>
    BY DEF HandleEvent, Handled
  <1>2. CASE Activates(e) /\ tid_calls[e.tid].fn # Noop
    <2>1. PICK t \in DOMAIN signal : t = e.tid /\ tid_calls[t].fn = t /\ t \in DOMAIN tid_calls
      BY <1>2 DEF Activates, IInv, TicketInv
    <2>2. Decide(t, 1) /\ Attended(t)
      BY <1>1, <1>2, <2>1 DEF HandleEvent, IInv, AttendedInv
    <2>3. ASSUME NEW c \in Coroutine, Alone(c), Waiting(c), tid[c] = t PROVE Ready(c)
      <3>1. Wants(c) = tid_calls[t].on
        BY <2>1, <2>3 DEF IInv, EventInv
      <3>2. Wants(c) \cap e.ev # {}
        BY <1>2, <2>1, <3>1 DEF Activates
      <3> QED
        BY <1>1, <2>1, <2>3, <3>2 DEF IInv, EventInv
    <2> QED
      BY <1>1, <2>2, <2>3, DecideKeeps
  <1>3. CASE UNCHANGED signal
    <2>0. Types /\ UNCHANGED <<pc, op, tid, left, res, ops>>
      BY <1>1 DEF IInv, coVars
    <2>1. \A d \in Coroutine : Waiting(d)' <=> Waiting(d)
      BY <2>0 DEF Waiting
    <2>2. \A d \in Coroutine : /\ Wants(d)' = Wants(d) /\ FdOf' = FdOf /\ (Alone(d)' <=> Alone(d))
                               /\ Ready(d)' <=> Ready(d)
                               /\ HasTimeout(d)' <=> HasTimeout(d)
                               /\ pc'[d] = pc[d] /\ SockOK(d) => SockOK(d)'
      BY <1>1, <2>0, SameSockets
    <2>3. Types'
      BY <1>1, <1>3, <2>0 DEF Types, HandlerTypeOK, KernelTypes, WaitTypes, CoTypes, MaxOps, MaxArrive
    <2>4. TicketInv' /\ OneRelease'
      BY <1>1, <1>3, <2>0, <2>1 DEF IInv, TicketInv, OneRelease, Decision
    <2>5. AttendedInv'
      BY <1>1, <1>3, <2>0, <2>1 DEF IInv, AttendedInv, Attended
    <2>6. TimerInv' /\ TimedOutByOwnTimer'
      BY <1>1, <1>3, <2>0, <2>1, <2>2 DEF IInv, TimerInv, TimedOutByOwnTimer, Decision
    <2>7. EventInv'
      BY <1>1, <2>0, <2>1, <2>2 DEF IInv, EventInv
    <2>8. NoSpuriousWake'
      <3>1. \A d \in Coroutine : Alone(d)' /\ Waiting(d)' /\ Decision(d)' = 1 => Ready(d)'
        BY <1>3, <2>0, <2>1, <2>2 DEF IInv, NoSpuriousWake, Ready, Decision
      <3> QED
        BY <3>1 DEF NoSpuriousWake, Ready
    <2>9. SockInv'
      BY <2>0, <2>2 DEF IInv, SockInv
    <2> QED
      BY <2>3, <2>4, <2>5, <2>6, <2>7, <2>8, <2>9 DEF IInv
  <1> QED
    BY <1>2, <1>3 DEF HandleEvent

\* What is fetched is ready at that moment.
LEMMA FetchKeeps ==
  ASSUME IInv, FetchEvents, UNCHANGED prog
  PROVE  IInv'
  <1> DEFINE poll == [f \in Fd |-> Poll(f)]
  <1>0. Types /\ UNCHANGED <<sock, arrived, signal, timers, pc, op, tid, left, res, ops>>
    BY DEF IInv, FetchEvents, waitVars, coVars
  <1>1. Fetch(poll) /\ \A f \in Fd : poll[f] \subseteq Event /\ poll[f] = Poll(f)
    BY PollFacts DEF FetchEvents
  <1>2. /\ HandlerTypeOK' /\ UNCHANGED <<tid_calls, fd_tids, gid>> /\ DOMAIN epoll' = DOMAIN epoll
        /\ \A f \in DOMAIN epoll : epoll'[f].tid = epoll[f].tid
        /\ \A e \in batch' : \E f \in DOMAIN epoll : e.tid = epoll[f].tid /\ e.ev \subseteq poll[f]
    <2> HIDE DEF poll
    <2> QED
      BY <1>0, <1>1, FetchFacts DEF Types
  <1>3. \A e \in batch' : \E f \in DOMAIN epoll : e.tid = epoll[f].tid /\ e.ev \subseteq Poll(f)
    BY <1>0, <1>1, <1>2 DEF Types, HandlerTypeOK
  <1>4. \A d \in Coroutine : Waiting(d)' <=> Waiting(d)
    BY <1>0 DEF Waiting
  <1>5. \A d \in Coroutine : /\ Wants(d)' = Wants(d) /\ FdOf' = FdOf /\ (Alone(d)' <=> Alone(d))
                             /\ Ready(d)' <=> Ready(d)
                             /\ HasTimeout(d)' <=> HasTimeout(d)
                             /\ pc'[d] = pc[d] /\ SockOK(d) => SockOK(d)'
    BY <1>0, SameSockets
  <1>6. Types'
    BY <1>0, <1>2 DEF Types, KernelTypes, WaitTypes, CoTypes, MaxOps, MaxArrive
  <1>7. TicketInv' /\ OneRelease'
    BY <1>0, <1>2, <1>4 DEF IInv, TicketInv, OneRelease, Decision
  <1>8. AttendedInv'
    <2>1. \A x : Attended(x) => Attended(x)'
      BY <1>0, <1>4 DEF Attended
    <2>2. \A y \in timers' : Attended(y)'
      BY <1>0, <2>1 DEF IInv, AttendedInv
    <2>3. ASSUME NEW f \in DOMAIN epoll' PROVE Attended(epoll[f].tid)'
      <3>1. PICK x : x = epoll[f].tid /\ x = epoll'[f].tid
        BY <1>2
      <3>2. Attended(x)'
        BY <1>2, <2>1, <3>1 DEF IInv, AttendedInv
      <3> QED
        BY <3>1, <3>2 DEF Attended
    <2>4. ASSUME NEW e \in batch' PROVE Attended(e.tid)'
      <3>1. PICK x : x = e.tid
        OBVIOUS
      <3>2. Attended(x)'
        BY <1>2, <2>1, <3>1 DEF IInv, AttendedInv
      <3> QED
        BY <3>1, <3>2
    <2> QED
      BY <2>2, <2>3, <2>4 DEF AttendedInv
  <1>9. TimerInv' /\ TimedOutByOwnTimer'
    BY <1>0, <1>4, <1>5 DEF IInv, TimerInv, TimedOutByOwnTimer, Decision
  <1>10. EventInv'
    <2> SUFFICES ASSUME NEW d \in Coroutine, Waiting(d)'
                 PROVE  /\ tid'[d] \in DOMAIN tid_calls' => tid_calls'[tid'[d]].on = Wants(d)'
                        /\ \A f \in DOMAIN epoll' : epoll'[f].tid = tid'[d] => f = FdOf'[d]
                        /\ Alone(d)' => \A e \in batch' : e.tid = tid'[d] /\ Wants(d)' \cap e.ev # {} => Ready(d)'
      BY DEF EventInv
    <2>1. ASSUME NEW e \in batch', e.tid = tid[d], Wants(d) \cap e.ev # {} PROVE Ready(d)
      <3>1. PICK f \in DOMAIN epoll : e.tid = epoll[f].tid /\ e.ev \subseteq Poll(f)
        BY <1>3
      <3>2. f = FdOf[d]
        BY <1>4, <2>1, <3>1 DEF IInv, EventInv
      <3> QED
        BY <2>1, <3>1, <3>2 DEF Ready
    <2> QED
      BY <1>0, <1>2, <1>4, <1>5, <2>1 DEF IInv, EventInv
  <1>11. NoSpuriousWake'
    <2>1. \A d \in Coroutine : Alone(d)' /\ Waiting(d)' /\ Decision(d)' = 1 => Ready(d)'
      BY <1>0, <1>4, <1>5 DEF IInv, NoSpuriousWake, Ready, Decision
    <2> QED
      BY <2>1 DEF NoSpuriousWake, Ready
  <1>12. SockInv'
    BY <1>0, <1>5 DEF IInv, SockInv
  <1> QED
    BY <1>6, <1>7, <1>8, <1>9, <1>10, <1>11, <1>12 DEF IInv

-----------------------------------------------------------------------------
(* The theorems.                                                           *)

LEMMA InitHolds == Init => IInv
  <1> SUFFICES ASSUME Init PROVE IInv
    OBVIOUS
  <1>1. /\ DOMAIN tid_calls = {} /\ DOMAIN fd_tids = {} /\ DOMAIN epoll = {} /\ DOMAIN signal = {}
        /\ batch = {} /\ timers = {} /\ gid = 0
    BY DEF Init, HandlerInit
  <1>2. \A c \in Coroutine : pc[c] = "idle" /\ ~Waiting(c)
    BY DEF Init, Waiting
  <1>3. HandlerTypeOK /\ WaitTypes
    BY <1>1, <1>2 DEF HandlerTypeOK, WaitTypes
  <1>4. KernelTypes
    <2>1. MaxArrive \in Nat
      BY SocketAssumption DEF Init, ProgramType, MaxArrive
    <2>2. sock \in [Fd -> SockRec]
      BY ClosedType DEF Init
    <2> QED
      BY <2>1, <2>2 DEF Init, KernelTypes
  <1>5. CoTypes
    <2>1. \A c \in Coroutine : MaxOps[c] \in Nat
      BY <1>4, ProgFacts
    <2>2. \A c \in Coroutine : ops[c] \in 0..MaxOps[c]
      BY <2>1 DEF Init
    <2> QED
      BY <2>2, SocketAssumption DEF Init, CoTypes, Operation, Result
  <1>6. TicketInv /\ OneRelease /\ AttendedInv
    BY <1>1, <1>2 DEF TicketInv, OneRelease, AttendedInv
  <1>7. TimerInv /\ TimedOutByOwnTimer /\ EventInv /\ NoSpuriousWake /\ SockInv
    BY <1>2 DEF TimerInv, TimedOutByOwnTimer, EventInv, NoSpuriousWake, SockInv
  <1> QED
    BY <1>3, <1>4, <1>5, <1>6, <1>7 DEF IInv, Types

LEMMA GoOnKeeps ==
  ASSUME IInv, NEW c \in Coroutine, GoOn(c)
  PROVE  IInv'
  <1>0. Types /\ UNCHANGED prog
    BY DEF IInv, GoOn
  <1>1. CASE Register(c) \/ CreateTimeout(c) \/ Aquired(c)
    BY <1>0, <1>1, RegisterKeeps, CreateTimeoutKeeps, AquiredKeeps
  <1>2. CASE Refuse(c) \/ Bind(c) \/ Listen(c) \/ Accept(c) \/ Connect(c) \/ ConnectStatus(c)
    BY <1>0, <1>2, OwnStepKeeps, RefuseOwn, BindOwn, ListenOwn, AcceptOwn, ConnectOwn, ConnectStatusOwn
  <1>3. CASE Recv(c) \/ RecvFrom(c) \/ Send(c) \/ SendTo(c) \/ CloseDel(c) \/ CloseFd(c)
    BY <1>0, <1>3, OwnStepKeeps, RecvOwn, SendOwn, CloseOwn
  <1> QED
    BY <1>1, <1>2, <1>3 DEF GoOn, Step

LEMMA StepHolds == IInv /\ [Next]_vars => IInv'
  <1> SUFFICES ASSUME IInv, [Next]_vars PROVE IInv'
    OBVIOUS
  <1>1. ASSUME NEW f \in Fd, Create(f) \/ Arrive(f) \/ Network(f), UNCHANGED prog PROVE IInv'
    BY <1>1, CreateKeeps, NetworkKeeps
  <1>2. ASSUME NEW c \in Coroutine, NEW o \in Operation, Begin(c, o) \/ InvalidAddress(c, o), UNCHANGED prog
        PROVE  IInv'
    BY <1>2, BeginKeeps
  <1>3. ASSUME NEW c \in Coroutine, GoOn(c) PROVE IInv'
    BY <1>3, GoOnKeeps
  <1>4. CASE Fire
    BY <1>4, FireTimerKeeps DEF Fire
  <1>5. CASE FetchAny
    BY <1>5, FetchKeeps DEF FetchAny
  <1>6. CASE HandleAny
    BY <1>6, HandleEventKeeps DEF HandleAny
  <1>7. CASE UNCHANGED vars
    <2>1. Types /\ UNCHANGED <<prog, handlerVars, sock, arrived, waitVars, tid, pc, op>>
      BY <1>7 DEF vars, coVars, IInv
    <2>2. Quiet
      BY <2>1, UnchangedQuiet DEF Types, Quiet
    <2>3. Types'
      <3>1. HandlerTypeOK' /\ WaitTypes'
        BY <2>1, <2>2, QuietWaitTypes DEF Quiet, HandlerQuiet
      <3>2. KernelTypes' /\ CoTypes'
        BY <1>7, <2>1 DEF vars, coVars, Types, KernelTypes, CoTypes, MaxOps, MaxArrive
      <3> QED
        BY <3>1, <3>2 DEF Types
    <2>4. \A c \in Coroutine : Evolves(sock[FdOf[c]], sock'[FdOf[c]])
      BY <2>1, MySocket, EvolvesSame
    <2> QED
      BY <2>1, <2>2, <2>3, <2>4, OutsideKeeps
  <1> QED
    BY <1>1, <1>2, <1>3, <1>4, <1>5, <1>6, <1>7 DEF Next

LEMMA Holds == Spec => []IInv
  BY InitHolds, StepHolds, PTL DEF Spec

\* The maps of the handler, the sockets and the locals of the operations keep their
\* types: a ticket in a map, an event or a timer is one that was given out, and send()
\* never counts more bytes than it has.
THEOREM SocketTypes == Spec => []TypeOK
  <1>1. IInv => TypeOK
    BY TypesParts DEF IInv
  <1> QED
    BY <1>1, Holds, PTL

\* Of the event callback and the timer callback of _wait_sock_event one releases the
\* semaphore, once, and a callback that comes when the wait is over releases nothing:
\* though the ticket of a registration stays in the kernel, in the fetched events and
\* in the TimedContext for any time, and others use or close the same socket.
THEOREM EachWaitReleasedOnce == Spec => []OneRelease
  <1>1. IInv => OneRelease
    BY DEF IInv
  <1> QED
    BY <1>1, Holds, PTL

\* A wait that ends with a timeout was ended by the timer that _wait_sock_event created
\* for it.
THEOREM TimeoutsAreOwn == Spec => []TimedOutByOwnTimer
  <1>1. IInv => TimedOutByOwnTimer
    BY DEF IInv
  <1> QED
    BY <1>1, Holds, PTL

\* A coroutine alone on its socket that an event wakes finds it ready: handle() looks the
\* ticket up under the lock, so that an event fetched for an earlier registration calls
\* nothing, and what was ready when it was fetched stays ready.
THEOREM WakesAreReal == Spec => []NoSpuriousWake
  <1>1. IInv => NoSpuriousWake
    BY DEF IInv
  <1> QED
    BY <1>1, Holds, PTL

\* Only close() reaches the ::close call.
Shutting == \A c \in Coroutine : pc[c] = "shut" => op[c] = "close"

LEMMA ShuttingKeeps ==
  ASSUME IInv, Shutting, [Next]_vars
  PROVE  Shutting'
  <1>0. Types
    BY DEF IInv
  <1> SUFFICES ASSUME NEW c \in Coroutine, pc'[c] = "shut" PROVE op'[c] = "close"
    BY DEF Shutting
  <1>1. ASSUME UNCHANGED <<pc, op>> PROVE op'[c] = "close"
    BY <1>1 DEF Shutting
  <1>2. ASSUME NEW d \in Coroutine, NEW o \in Operation, Begin(d, o) \/ InvalidAddress(d, o)
        PROVE  op'[c] = "close"
    BY <1>0, <1>2 DEF Begin, InvalidAddress, Return, Types, CoTypes, Shutting
  <1>3. ASSUME NEW d \in Coroutine, GoOn(d) PROVE op'[c] = "close"
    <2>0. op' = op
      BY <1>3 DEF GoOn, Step, Refuse, Bind, Listen, Accept, Connect, ConnectStatus, Recv, RecvFrom,
         Send, SendTo, CloseDel, CloseFd, Register, CreateTimeout, Aquired
    <2>1. CASE CloseDel(d)
      BY <1>0, <2>0, <2>1 DEF CloseDel, Calls, GoTo, Types, CoTypes, Shutting
    <2>2. CASE ~CloseDel(d)
      <3>1. pc'[c] = pc[c] \/ pc'[c] # "shut"
        <4>1. ASSUME NEW r, Return(d, r) PROVE pc'[c] = pc[c] \/ pc'[c] # "shut"
          BY <1>0, <4>1 DEF Return, Types, CoTypes
        <4>2. ASSUME NEW l, l # "shut", GoTo(d, l) PROVE pc'[c] = pc[c] \/ pc'[c] # "shut"
          BY <1>0, <4>2 DEF GoTo, Types, CoTypes
        <4>3. CASE pc' = pc
          BY <4>3
        <4> QED
          BY <1>3, <2>2, <4>1, <4>2, <4>3 DEF GoOn, Step, Refuse, Bind, Listen, Accept, Connect, ConnectStatus,
             Recv, RecvFrom, Send, SendTo, CloseFd, Register, CreateTimeout, Aquired
      <3> QED
        BY <2>0, <3>1 DEF Shutting
    <2> QED
      BY <2>1, <2>2
  <1> QED
    BY <1>1, <1>2, <1>3 DEF Next, Create, Arrive, Network, Fire, FireTimer, FetchAny, FetchEvents,
       HandleAny, HandleEvent, coVars, vars

LEMMA ShuttingHolds == Spec => []Shutting
  <1>1. Init => Shutting
    BY DEF Init, Shutting
  <1> QED
    BY <1>1, Holds, ShuttingKeeps, PTL DEF Spec

\* connect() returns success of a connected socket only, though it looks at SO_ERROR
\* once, after it was woken, and does not call ::connect again.
THEOREM ConnectIsTrue == Spec => ConnectMeansConnected
  <1> DEFINE A == \A c \in Coroutine :
       Alone(c) /\ pc[c] # "idle" /\ op[c] = "connect" /\ pc'[c] = "idle" /\ res'[c] = "ok"
         => sock'[FdOf[c]].st \in {"up", "fin"}
  <1>1. IInv /\ Shutting /\ [Next]_vars => [A]_vars
    <2> SUFFICES ASSUME IInv, Shutting, Next, NEW c \in Coroutine, Alone(c), pc[c] # "idle", op[c] = "connect",
                        pc'[c] = "idle", res'[c] = "ok"
                 PROVE  sock'[FdOf[c]].st \in {"up", "fin"}
      BY DEF vars
    <2>0. Types
      BY DEF IInv
    <2>1. PICK f \in Fd : f = FdOf[c] /\ sock[f] \in SockRec
      BY <2>0, MySocket
    <2>2. GoOn(c)
      <3>1. UNCHANGED pc => FALSE
        OBVIOUS
      <3>2. ASSUME NEW d \in Coroutine, NEW o \in Operation, Begin(d, o) \/ InvalidAddress(d, o) PROVE FALSE
        BY <2>0, <3>2 DEF Begin, InvalidAddress, Return, Types, CoTypes
      <3>3. ASSUME NEW d \in Coroutine, d # c, GoOn(d) PROVE FALSE
        <4>1. pc'[c] = pc[c]
          BY <2>0, <3>3 DEF GoOn, Step, Refuse, Bind, Listen, Accept, Connect, ConnectStatus, Recv, RecvFrom,
             Send, SendTo, CloseDel, CloseFd, Register, CreateTimeout, Aquired, Return, GoTo, Types, CoTypes
        <4> QED
          BY <4>1
      <3> QED
        BY <3>1, <3>2, <3>3 DEF Next, Create, Arrive, Network, Fire, FireTimer, FetchAny, FetchEvents,
           HandleAny, HandleEvent, coVars
    <2>3. CASE Connect(c)
      <3>1. res' = [res EXCEPT ![c] = "error"] => FALSE
        BY <2>0 DEF Types, CoTypes
      <3>2. GoTo(c, "mod") => FALSE
        BY <2>0 DEF GoTo, Types, CoTypes
      <3>3. sock' = [sock EXCEPT ![f].st = "up"]
        BY <2>1, <2>3, <3>1, <3>2 DEF Connect, Return
      <3>4. sock'[f].st = "up"
        BY <2>0, <2>1, <3>3 DEF Types, KernelTypes, SockRec
      <3> QED
        BY <2>1, <3>4
    <2>4. CASE ConnectStatus(c)
      <3>1. SockOK(c) /\ pc[c] = "status"
        BY <2>4 DEF IInv, SockInv, ConnectStatus
      <3>2. ~sock[f].err
        <4>1. ASSUME sock[f].err PROVE res'[c] = "error"
          BY <2>0, <2>1, <2>4, <4>1 DEF ConnectStatus, Return, Types, CoTypes
        <4> QED
          BY <4>1
      <3>3. sock[f].st \in {"up", "fin"}
        BY <2>1, <3>1, <3>2 DEF SockOK, Connecting
      <3>4. sock'[f].st = sock[f].st
        BY <2>0, <2>1, <2>4 DEF ConnectStatus, Types, KernelTypes, SockRec
      <3> QED
        BY <2>1, <3>3, <3>4
    <2>5. CASE Register(c) \/ CreateTimeout(c) \/ Aquired(c)
      <3>1. ASSUME NEW r \in {"throw", "timeout"}, Return(c, r) PROVE FALSE
        BY <2>0, <3>1 DEF Return, Types, CoTypes
      <3>2. ASSUME NEW l \in {"timer", "aquire", "status", "call"}, GoTo(c, l) PROVE FALSE
        BY <2>0, <3>2 DEF GoTo, Types, CoTypes
      <3> QED
        BY <2>5, <3>1, <3>2 DEF Register, CreateTimeout, Aquired
    <2>6. ~(Refuse(c) \/ Bind(c) \/ Listen(c) \/ Accept(c) \/ Recv(c) \/ RecvFrom(c) \/ Send(c) \/ SendTo(c) \/ CloseDel(c))
      BY DEF Refuse, Bind, Listen, Accept, Recv, RecvFrom, Send, SendTo, CloseDel, Calls
    <2>7. ~CloseFd(c)
      BY DEF CloseFd, Shutting
    <2> QED
      BY <2>2, <2>3, <2>4, <2>5, <2>6, <2>7 DEF GoOn, Step
  <1> QED
    BY <1>1, Holds, ShuttingHolds, PTL DEF Spec, ConnectMeansConnected
================================================================================
