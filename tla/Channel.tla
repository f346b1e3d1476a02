-------------------------------- MODULE Channel --------------------------------
(***************************************************************************)
(* cgo::Channel, cgo::Select and the messages that link them.  A process   *)
(* is a coroutine that performs one operation after another: a plain       *)
(* << or >>, a nowait() <<, a select, a select with a default case.  A     *)
(* message <<p, i>> is case i of the operation p is performing (a plain or *)
(* nowait operation has one case): a Multiplex message for a select, a     *)
(* Simplex one otherwise.                                                  *)
(*                                                                         *)
(* Granularity.  The channel's spinlock is a variable, held from the entry *)
(* of BaseChannel::send_to / recv_from to its return; within it, a step is *)
(* one attempt to transfer a value, the code's critical section of one     *)
(* Select::_mtx or of two.  The semaphore a blocked process waits for is   *)
(* its count of permits, as CountingSemaphore describes it.                *)
(*                                                                         *)
(* pc[p]:                                                                  *)
(*   idle    between two operations                                        *)
(*   listen  about to run the next listener (select) or call the channel   *)
(*   refill  in the channel, its own transfer with the buffer done         *)
(*   match   in the channel, trying the linked messages of the other side  *)
(*   check   back from a listener, about to look whether a case was taken  *)
(*   wait    waiting for the signal                                        *)
(*   choose  about to take the default case if no other was taken          *)
(*   drop    finished, dropping its messages                               *)
(*   unwind  dropping them because its frame is destroyed or it threw      *)
(*   dead    destroyed                                                     *)
(***************************************************************************)
EXTENDS Naturals, Lists

CONSTANTS
  Proc,      \* the coroutines
  Chan,      \* the channels
  Cap,       \* the capacity of each channel
  Ops,       \* the operations each process may perform
  Killable,  \* the processes whose context may be shut down
  MaxCalls,  \* bound: operations per process
  Free       \* a channel's spinlock is not held

CaseType == [dir : {"send", "recv"}, chan : Chan]
OpType == [kind : {"plain", "nowait", "select", "default"}, cases : Seq(CaseType)]

ASSUME ChannelAssumption ==
  /\ Cap \in [Chan -> Nat]
  /\ Ops \in [Proc -> SUBSET OpType]
  /\ \A p \in Proc : \A o \in Ops[p] :
       o.kind \in {"plain", "nowait"} => Len(o.cases) = 1
  /\ Killable \subseteq Proc
  /\ MaxCalls \in Nat
  /\ Free \notin Proc

VARIABLES
  lock,     \* holder of BaseChannel::_mtx
  buffer,   \* TypeChannel::_buffer
  senders,  \* BaseChannel::_sender_head .. _sender_tail
  recvers,  \* BaseChannel::_recver_head .. _recver_tail
  pc,
  op,       \* the operation of each process
  calls,    \* how many it has begun
  todo,     \* Select::_listeners that have not run
  msgs,     \* Select::_msgs, or the only message, in the order they were linked
  key,      \* Select::_key
  signal,   \* permits of the operation's semaphore
  result,   \* whether the last nowait() << returned true
  moved,    \* history: cases of the operation whose value was moved
  sent,     \* history: values that entered each channel
  recvd     \* history: values that left it

chanVars == <<lock, buffer, senders, recvers>>
histVars == <<moved, sent, recvd>>
vars == <<lock, buffer, senders, recvers, pc, op, calls, todo, msgs, key, signal,
          result, moved, sent, recvd>>

Msg == Proc \X (Nat \ {0})
Value == Proc \X Nat

NoKey == 0   \* InvalidSelectKey
NoOp == [kind |-> "plain", cases |-> <<>>]

PC == {"idle", "listen", "refill", "match", "check", "wait", "choose", "drop",
       "unwind", "dead"}

TypeOK ==
  /\ lock \in [Chan -> Proc \cup {Free}]
  /\ buffer \in [Chan -> Seq(Value)]
  /\ senders \in [Chan -> Seq(Msg)]
  /\ recvers \in [Chan -> Seq(Msg)]
  /\ pc \in [Proc -> PC]
  /\ op \in [Proc -> OpType]
  /\ calls \in [Proc -> 0..MaxCalls]
  /\ todo \in [Proc -> SUBSET (Nat \ {0})]
  /\ msgs \in [Proc -> Seq(Nat \ {0})]
  /\ key \in [Proc -> Nat]
  /\ signal \in [Proc -> Nat]
  /\ result \in [Proc -> BOOLEAN]
  /\ moved \in [Proc -> Seq(Nat)]
  /\ sent \in [Chan -> Seq(Value)]
  /\ recvd \in [Chan -> Seq(Value)]

Init ==
  /\ lock = [c \in Chan |-> Free]
  /\ buffer = [c \in Chan |-> <<>>]
  /\ senders = [c \in Chan |-> <<>>]
  /\ recvers = [c \in Chan |-> <<>>]
  /\ pc = [p \in Proc |-> "idle"]
  /\ op = [p \in Proc |-> NoOp]
  /\ calls = [p \in Proc |-> 0]
  /\ todo = [p \in Proc |-> {}]
  /\ msgs = [p \in Proc |-> <<>>]
  /\ key = [p \in Proc |-> NoKey]
  /\ signal = [p \in Proc |-> 0]
  /\ result = [p \in Proc |-> FALSE]
  /\ moved = [p \in Proc |-> <<>>]
  /\ sent = [c \in Chan |-> <<>>]
  /\ recvd = [c \in Chan |-> <<>>]

-----------------------------------------------------------------------------
(* Messages.                                                               *)

Multiplex(p) == op[p].kind \in {"select", "default"}
DefaultKey(p) == Len(op[p].cases) + 1

\* The message's select already has a key: it must not be transferred any more.
Decided(p) == Multiplex(p) /\ key[p] # NoKey

ValueOf(m) == <<m[1], calls[m[1]]>>

\* Simplex::commit and Multiplex::commit of the messages in ms, one per process.
Commit(ms) ==
  LET of(p) == {i \in DOMAIN op[p].cases : <<p, i>> \in ms}
  IN  /\ key' = [p \in Proc |-> IF Multiplex(p) /\ of(p) # {}
                                THEN CHOOSE i \in of(p) : TRUE ELSE key[p]]
      /\ signal' = [p \in Proc |-> IF op[p].kind # "nowait" /\ of(p) # {}
                                   THEN signal[p] + 1 ELSE signal[p]]
      /\ moved' = [p \in Proc |-> IF of(p) # {}
                                  THEN Append(moved[p], CHOOSE i \in of(p) : TRUE)
                                  ELSE moved[p]]

\* Mutant of TransferStatus: the receiving select's key is not tested.
TransferStatusUnchecked(s, d) ==
  IF Multiplex(s[1]) /\ Multiplex(d[1]) /\ s[1] = d[1] THEN "throw"
  ELSE IF Decided(s[1]) THEN "InvalidSrc" ELSE "Ok"

\* Mutant of TransferStatus: a decided receiver is reported as a decided sender.
TransferStatusSwapped(s, d) ==
  IF Multiplex(s[1]) /\ Multiplex(d[1]) /\ s[1] = d[1] THEN "throw"
  ELSE IF Decided(s[1]) \/ Decided(d[1]) THEN "InvalidSrc" ELSE "Ok"

\* BaseMsg::send_to: what comes of moving s's value to d.
TransferStatus(s, d) ==
  IF Multiplex(s[1]) /\ Multiplex(d[1]) THEN
    IF s[1] = d[1] THEN "throw"
    ELSE IF Decided(s[1]) THEN "InvalidSrc"
    ELSE IF Decided(d[1]) THEN "InvalidDst" ELSE "Ok"
  ELSE IF Decided(s[1]) \/ Decided(d[1]) THEN "InvalidSrc" ELSE "Ok"

-----------------------------------------------------------------------------
(* The channel.                                                            *)

Current(p) == <<p, Last(msgs[p])>>
CurrentCase(p) == op[p].cases[Last(msgs[p])]

\* Return from BaseChannel::send_to or recv_from, and from Nowait::operator<<.
LeaveChannel(p, c) ==
  /\ lock' = [lock EXCEPT ![c] = Free]
  /\ pc' = [pc EXCEPT ![p] = CASE op[p].kind = "plain" -> "wait"
                               [] op[p].kind = "nowait" -> "drop"
                               [] OTHER -> "check"]
  /\ msgs' = IF op[p].kind = "nowait" THEN [msgs EXCEPT ![p] = <<>>] ELSE msgs

\* What Nowait::operator<< makes of the channel's TransferStatus when it returns.
Answer(p, ok) ==
  result' = IF pc'[p] = "drop" THEN [result EXCEPT ![p] = ok] ELSE result

\* The exception of BaseMsg::send_to leaves the channel and the select.
ThrowOut(p, c) ==
  /\ lock' = [lock EXCEPT ![c] = Free]
  /\ pc' = [pc EXCEPT ![p] = "unwind"]
  /\ UNCHANGED msgs

\* The listener of case i, or the plain operation, takes the channel's lock.
Enter(p, i, dir) ==
  /\ pc[p] = "listen"
  /\ op[p].cases[i].dir = dir
  /\ lock[op[p].cases[i].chan] = Free
  /\ lock' = [lock EXCEPT ![op[p].cases[i].chan] = p]
  /\ todo' = [todo EXCEPT ![p] = @ \ {i}]
  /\ msgs' = [msgs EXCEPT ![p] = Append(@, i)]

\* Mutant of BufferSendTo: a receiver goes to the linked senders at once.
BufferSendToSkipped(p) ==
  \E i \in todo[p] :
    /\ Enter(p, i, "recv")
    /\ pc' = [pc EXCEPT ![p] = "match"]
    /\ UNCHANGED <<buffer, senders, recvers, op, calls, key, signal, result, histVars>>

\* BaseChannel::send_to up to and with _buffer_send_to.
BufferSendTo(p) ==
  \E i \in todo[p] :
    /\ Enter(p, i, "recv")
    /\ LET c == op[p].cases[i].chan
       IN  \/ /\ buffer[c] # <<>> /\ ~Decided(p)
              /\ buffer' = [buffer EXCEPT ![c] = Tail(@)]
              /\ recvd' = [recvd EXCEPT ![c] = Append(@, Head(buffer[c]))]
              /\ Commit({<<p, i>>})
              /\ pc' = [pc EXCEPT ![p] = "refill"]
           \/ /\ buffer[c] = <<>> \/ Decided(p)
              /\ pc' = [pc EXCEPT ![p] = "match"]
              /\ UNCHANGED <<buffer, recvd, key, signal, moved>>
    /\ UNCHANGED <<senders, recvers, op, calls, result, sent>>

\* BaseChannel::recv_from up to and with _buffer_recv_from.
BufferRecvFrom(p) ==
  \E i \in todo[p] :
    /\ Enter(p, i, "send")
    /\ LET c == op[p].cases[i].chan
       IN  \/ /\ Len(buffer[c]) # Cap[c] /\ ~Decided(p)
              /\ buffer' = [buffer EXCEPT ![c] = Append(@, ValueOf(<<p, i>>))]
              /\ sent' = [sent EXCEPT ![c] = Append(@, ValueOf(<<p, i>>))]
              /\ Commit({<<p, i>>})
              /\ pc' = [pc EXCEPT ![p] = "refill"]
           \/ /\ Len(buffer[c]) = Cap[c] \/ Decided(p)
              /\ pc' = [pc EXCEPT ![p] = "match"]
              /\ UNCHANGED <<buffer, sent, key, signal, moved>>
    /\ UNCHANGED <<senders, recvers, op, calls, result, recvd>>

\* Mutant of RefillFromSenders: no sender fills the free place.
RefillFromSendersNever(p) ==
  /\ pc[p] = "refill" /\ CurrentCase(p).dir = "recv"
  /\ LeaveChannel(p, CurrentCase(p).chan)
  /\ Answer(p, TRUE)
  /\ UNCHANGED <<buffer, senders, recvers, op, calls, todo, key, signal, histVars>>

\* The loop after _buffer_send_to: the first linked sender that still can
\* fills the place that became free.
RefillFromSenders(p) ==
  /\ pc[p] = "refill" /\ CurrentCase(p).dir = "recv"
  /\ LET c == CurrentCase(p).chan
         h == Head(senders[c])
     IN  \/ /\ senders[c] = <<>>
            /\ LeaveChannel(p, c)
            /\ UNCHANGED <<buffer, senders, key, signal, moved, sent>>
         \/ /\ senders[c] # <<>>
            /\ senders' = [senders EXCEPT ![c] = Tail(@)]
            /\ \/ /\ Len(buffer[c]) # Cap[c] /\ ~Decided(h[1])
                  /\ buffer' = [buffer EXCEPT ![c] = Append(@, ValueOf(h))]
                  /\ sent' = [sent EXCEPT ![c] = Append(@, ValueOf(h))]
                  /\ Commit({h})
                  /\ LeaveChannel(p, c)
               \/ /\ Len(buffer[c]) = Cap[c] \/ Decided(h[1])
                  /\ UNCHANGED <<lock, buffer, pc, msgs, key, signal, moved, sent>>
  /\ Answer(p, TRUE)
  /\ UNCHANGED <<recvers, op, calls, todo, recvd>>

\* The loop after _buffer_recv_from: hand the buffered value on.
RefillToRecvers(p) ==
  /\ pc[p] = "refill" /\ CurrentCase(p).dir = "send"
  /\ LET c == CurrentCase(p).chan
         h == Head(recvers[c])
     IN  \/ /\ recvers[c] = <<>>
            /\ LeaveChannel(p, c)
            /\ UNCHANGED <<buffer, recvers, key, signal, moved, recvd>>
         \/ /\ recvers[c] # <<>>
            /\ recvers' = [recvers EXCEPT ![c] = Tail(@)]
            /\ \/ /\ buffer[c] # <<>> /\ ~Decided(h[1])
                  /\ buffer' = [buffer EXCEPT ![c] = Tail(@)]
                  /\ recvd' = [recvd EXCEPT ![c] = Append(@, Head(buffer[c]))]
                  /\ Commit({h})
                  /\ LeaveChannel(p, c)
               \/ /\ buffer[c] = <<>> \/ Decided(h[1])
                  /\ UNCHANGED <<lock, buffer, pc, msgs, key, signal, moved, recvd>>
  /\ Answer(p, TRUE)
  /\ UNCHANGED <<senders, op, calls, todo, sent>>

\* The value goes from message s to message d through channel c.
Handover(s, d, c) ==
  /\ sent' = [sent EXCEPT ![c] = Append(@, ValueOf(s))]
  /\ recvd' = [recvd EXCEPT ![c] = Append(@, ValueOf(s))]
  /\ Commit({s, d})

\* BaseChannel::send_to: one round of the loop over the linked senders, or the
\* link of the message after the last round.
MatchSender(p) ==
  /\ pc[p] = "match" /\ CurrentCase(p).dir = "recv"
  /\ LET c == CurrentCase(p).chan
         h == Head(senders[c])
         status == TransferStatus(h, Current(p))
     IN  /\ \/ /\ senders[c] = <<>>
               /\ LeaveChannel(p, c)
               /\ recvers' = IF op[p].kind = "nowait" THEN recvers
                             ELSE [recvers EXCEPT ![c] = Append(@, Current(p))]
               /\ UNCHANGED <<senders, key, signal, histVars>>
            \/ /\ senders[c] # <<>> /\ status = "Ok"
               /\ senders' = [senders EXCEPT ![c] = Tail(@)]
               /\ Handover(h, Current(p), c)
               /\ LeaveChannel(p, c)
               /\ UNCHANGED recvers
            \/ /\ senders[c] # <<>> /\ status = "InvalidSrc"
               /\ senders' = [senders EXCEPT ![c] = Tail(@)]
               /\ UNCHANGED <<lock, recvers, pc, msgs, key, signal, histVars>>
            \/ /\ senders[c] # <<>> /\ status = "InvalidDst"
               /\ LeaveChannel(p, c)
               /\ UNCHANGED <<senders, recvers, key, signal, histVars>>
            \/ /\ senders[c] # <<>> /\ status = "throw"
               /\ ThrowOut(p, c)
               /\ UNCHANGED <<senders, recvers, key, signal, histVars>>
         /\ Answer(p, senders[c] # <<>> /\ status = "Ok")
  /\ UNCHANGED <<buffer, op, calls, todo>>

\* BaseChannel::recv_from, likewise.
MatchRecver(p) ==
  /\ pc[p] = "match" /\ CurrentCase(p).dir = "send"
  /\ LET c == CurrentCase(p).chan
         h == Head(recvers[c])
         status == TransferStatus(Current(p), h)
     IN  /\ \/ /\ recvers[c] = <<>>
               /\ LeaveChannel(p, c)
               /\ senders' = IF op[p].kind = "nowait" THEN senders
                             ELSE [senders EXCEPT ![c] = Append(@, Current(p))]
               /\ UNCHANGED <<recvers, key, signal, histVars>>
            \/ /\ recvers[c] # <<>> /\ status = "Ok"
               /\ recvers' = [recvers EXCEPT ![c] = Tail(@)]
               /\ Handover(Current(p), h, c)
               /\ LeaveChannel(p, c)
               /\ UNCHANGED senders
            \/ /\ recvers[c] # <<>> /\ status = "InvalidDst"
               /\ recvers' = [recvers EXCEPT ![c] = Tail(@)]
               /\ UNCHANGED <<lock, senders, pc, msgs, key, signal, histVars>>
            \/ /\ recvers[c] # <<>> /\ status = "InvalidSrc"
               /\ LeaveChannel(p, c)
               /\ UNCHANGED <<senders, recvers, key, signal, histVars>>
            \/ /\ recvers[c] # <<>> /\ status = "throw"
               /\ ThrowOut(p, c)
               /\ UNCHANGED <<senders, recvers, key, signal, histVars>>
         /\ Answer(p, recvers[c] # <<>> /\ status = "Ok")
  /\ UNCHANGED <<buffer, op, calls, todo>>

-----------------------------------------------------------------------------
(* The operations around it.                                               *)

\* A new Select, or the frame of a plain or nowait operation.
Call(p) ==
  /\ pc[p] = "idle"
  /\ calls[p] < MaxCalls
  /\ calls' = [calls EXCEPT ![p] = @ + 1]
  /\ \E o \in Ops[p] :
       /\ op' = [op EXCEPT ![p] = o]
       /\ todo' = [todo EXCEPT ![p] = DOMAIN o.cases]
  /\ key' = [key EXCEPT ![p] = NoKey]
  /\ signal' = [signal EXCEPT ![p] = 0]
  /\ result' = [result EXCEPT ![p] = FALSE]
  /\ moved' = [moved EXCEPT ![p] = <<>>]
  /\ pc' = [pc EXCEPT ![p] = "listen"]
  /\ UNCHANGED <<chanVars, msgs, sent, recvd>>

\* Mutant of Check: a select waits though it has a default case.
CheckWaits(p) ==
  /\ pc[p] = "check"
  /\ pc' = [pc EXCEPT ![p] = IF key[p] = NoKey /\ todo[p] # {} THEN "listen" ELSE "wait"]
  /\ UNCHANGED <<chanVars, op, calls, todo, msgs, key, signal, result, histVars>>

\* Select::operator() after a listener: leave the loop if a case was taken or
\* none is left.
Check(p) ==
  /\ pc[p] = "check"
  /\ pc' = [pc EXCEPT ![p] = IF key[p] = NoKey /\ todo[p] # {} THEN "listen"
                             ELSE IF op[p].kind = "default" THEN "choose" ELSE "wait"]
  /\ UNCHANGED <<chanVars, op, calls, todo, msgs, key, signal, result, histVars>>

\* The signal's aquire() returns.
Signalled(p) ==
  /\ pc[p] = "wait"
  /\ signal[p] > 0
  /\ signal' = [signal EXCEPT ![p] = @ - 1]
  /\ pc' = [pc EXCEPT ![p] = "drop"]
  /\ UNCHANGED <<chanVars, op, calls, todo, msgs, key, result, histVars>>

\* Mutant of Choose: the key is not tested again before the default case.
ChooseAlways(p) ==
  /\ pc[p] = "choose"
  /\ key' = [key EXCEPT ![p] = DefaultKey(p)]
  /\ pc' = [pc EXCEPT ![p] = "drop"]
  /\ UNCHANGED <<chanVars, op, calls, todo, msgs, signal, result, histVars>>

\* The default case, unless another was taken.
Choose(p) ==
  /\ pc[p] = "choose"
  /\ key' = [key EXCEPT ![p] = IF @ = NoKey THEN DefaultKey(p) ELSE @]
  /\ pc' = [pc EXCEPT ![p] = "drop"]
  /\ UNCHANGED <<chanVars, op, calls, todo, msgs, signal, result, histVars>>

\* Mutant of Kill: the destroyed frame's messages are not dropped.
KillLinked(p) ==
  /\ p \in Killable
  /\ pc[p] = "wait"
  /\ pc' = [pc EXCEPT ![p] = "dead"]
  /\ UNCHANGED <<chanVars, op, calls, todo, msgs, key, signal, result, histVars>>

\* The context of p is shut down while p is suspended: its frame is destroyed.
Kill(p) ==
  /\ p \in Killable
  /\ pc[p] = "wait"
  /\ pc' = [pc EXCEPT ![p] = "unwind"]
  /\ UNCHANGED <<chanVars, op, calls, todo, msgs, key, signal, result, histVars>>

\* BaseMsg::drop for the first of the operation's messages.
Drop(p) ==
  /\ pc[p] \in {"drop", "unwind"}
  /\ msgs[p] # <<>>
  /\ LET i == Head(msgs[p])
         c == op[p].cases[i].chan
     IN  /\ lock[c] = Free
         /\ senders' = [senders EXCEPT ![c] = Unlink(@, <<p, i>>)]
         /\ recvers' = [recvers EXCEPT ![c] = Unlink(@, <<p, i>>)]
  /\ msgs' = [msgs EXCEPT ![p] = Tail(@)]
  /\ UNCHANGED <<lock, buffer, pc, op, calls, todo, key, signal, result, histVars>>

\* All are dropped: the operation returns, or the frame is gone.
Return(p) ==
  /\ pc[p] \in {"drop", "unwind"}
  /\ msgs[p] = <<>>
  /\ pc' = [pc EXCEPT ![p] = IF @ = "drop" THEN "idle" ELSE "dead"]
  /\ todo' = [todo EXCEPT ![p] = {}]
  /\ UNCHANGED <<chanVars, op, calls, msgs, key, signal, result, histVars>>

-----------------------------------------------------------------------------
Step(p) ==
  \/ BufferSendTo(p) \/ BufferRecvFrom(p)
  \/ RefillFromSenders(p) \/ RefillToRecvers(p)
  \/ MatchSender(p) \/ MatchRecver(p)
  \/ Check(p) \/ Signalled(p) \/ Choose(p) \/ Drop(p) \/ Return(p)

Next == \E p \in Proc : Call(p) \/ Step(p) \/ Kill(p)

Spec == Init /\ [][Next]_vars

\* The workers keep running the coroutines, and the program performs all its calls.
FairSpec == Spec /\ \A p \in Proc : WF_vars(Call(p) \/ Step(p))

-----------------------------------------------------------------------------
(* Properties.                                                             *)

Linked == UNION {ToSet(senders[c]) \cup ToSet(recvers[c]) : c \in Chan}

\* First in, first out, nothing lost or duplicated: what entered a channel is
\* what left it followed by what it buffers, whether a value was handed from
\* sender to receiver or went through the buffer.
FifoConserved == \A c \in Chan : sent[c] = recvd[c] \o buffer[c]

\* An operation that returns moved what it says: a select with key k moved the
\* value of case k and no other, one with the default key moved none, a plain
\* operation moved its value, and nowait() << returns true when it did and false when
\* it did not; once, whatever raced with it on other channels.
ReturnsWhatMoved ==
  \A p \in Proc : pc[p] = "drop" =>
    CASE Multiplex(p) -> moved[p] = IF key[p] = DefaultKey(p) THEN <<>> ELSE <<key[p]>>
      [] op[p].kind = "plain" -> moved[p] = <<1>>
      [] OTHER -> moved[p] = IF result[p] THEN <<1>> ELSE <<>>

\* A key, once set, is not replaced while the select lasts: commits on two
\* channels, and the default case, exclude each other.
KeySetOnce ==
  [][\A p \in Proc : key[p] # NoKey /\ calls'[p] = calls[p] => key'[p] = key[p]]_vars

\* A linked message belongs to an operation that has not returned, so that no
\* other coroutine touches the message, select or semaphore of a frame that is gone.
LinkedFramesLive ==
  \A m \in Linked :
    /\ pc[m[1]] \notin {"idle", "dead"}
    /\ m[2] \in ToSet(msgs[m[1]])

\* No missed match: while nobody is in the channel, a sender that still can
\* transfer is linked only if the buffer is full and no such receiver is linked,
\* and a receiver only if the buffer is empty.
NoMissedMatch ==
  \A c \in Chan : lock[c] = Free =>
    LET live(q) == {m \in ToSet(q) : ~Decided(m[1])}
    IN  /\ live(senders[c]) # {} => Len(buffer[c]) = Cap[c] /\ live(recvers[c]) = {}
        /\ live(recvers[c]) # {} => buffer[c] = <<>>

\* Who waits can be found: an operation without a signal has all its messages linked.
WaiterIsLinked ==
  \A p \in Proc : pc[p] = "wait" /\ signal[p] = 0 =>
    \A i \in ToSet(msgs[p]) : <<p, i>> \in Linked

\* Where senders and receivers perform equally many operations, all of them return.
AllReturn == <>[](\A p \in Proc : pc[p] = "idle" /\ calls[p] = MaxCalls)

\* An operation whose value has moved returns, and one that must not wait (nowait,
\* or a select with a default case) returns in any case.
TransferReturns ==
  \A p \in Proc :
    (/\ pc[p] \notin {"idle", "dead"}
     /\ moved[p] # <<>> \/ op[p].kind \in {"nowait", "default"})
    ~> (pc[p] \in {"idle", "dead"})

-----------------------------------------------------------------------------
(* The channels implement the abstract ones.                               *)

\* Where the operation of p stands.  Its messages stay linked while its frame is being
\* destroyed, and a partner may still take one of them.
Stage(p) ==
  IF pc[p] = "idle" THEN "idle"
  ELSE IF pc[p] = "dead" THEN "gone"
  ELSE IF pc[p] = "drop" \/ moved[p] # <<>> THEN "closed" ELSE "open"

Abs == INSTANCE AtomicChannels WITH
  buf <- buffer, offer <- op, count <- calls, taken <- moved, stage <- [p \in Proc |-> Stage(p)]

\* Every step inside a channel, of one select or of two under their locks, is one
\* transfer or invisible: an operation takes one case, both sides of a hand-over take
\* theirs in the same step, and none takes any after it was given up or has returned.
ImplementsChannels == Abs!Spec

\* The operations of p and q are open, and p could send what q could receive.
Matchable(p, q) ==
  LET offers(r, dir) == {c \in Chan : [dir |-> dir, chan |-> c] \in ToSet(op[r].cases)}
  IN  Stage(p) = "open" /\ Stage(q) = "open" /\ offers(p, "send") \cap offers(q, "recv") # {}

\* Of two operations that could be matched one is served in the end, by the other or by
\* a third, or gives up (a nowait declines, a select takes its default case, a frame is
\* destroyed), however the listeners of two selects and the locks interleave.
MatchesAreMade == \A p, q \in Proc : p # q => (Matchable(p, q) ~> ~Matchable(p, q))
================================================================================
