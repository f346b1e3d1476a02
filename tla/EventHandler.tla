------------------------------ MODULE EventHandler ------------------------------
(***************************************************************************)
(* One EventContext::Handler and the epoll instance behind it.  A file     *)
(* descriptor always goes to the same handler (fd % n), and one worker     *)
(* fetches its events, so that handlers do not interact.                   *)
(*                                                                         *)
(* Every registration gets a fresh ticket (tid), which epoll gives back    *)
(* with the event: an event of an earlier registration is recognised by a  *)
(* ticket that has no callback any more.  add, mod and del hold _mtx       *)
(* throughout, system call included; handle() fetches without it and takes *)
(* it again for each event.                                                *)
(*                                                                         *)
(* Every registration of the library is EPOLLONESHOT | EPOLLET.  With      *)
(* EPOLLONESHOT an event disarms the registration, so that edges need no   *)
(* memory: an armed descriptor is reported when what it asks for is there. *)
(***************************************************************************)
EXTENDS Integers, FiniteSets, Functions

CONSTANTS
  Fd,           \* the file descriptors of this handler
  HandleBatch   \* handle_batch, the events one epoll_wait may return

ASSUME EventHandlerAssumption == HandleBatch \in Nat \ {0}

VARIABLES
  tid_calls,  \* _tid_calls: the callback of a ticket
  fd_tids,    \* _fd_tids: the ticket of a descriptor
  gid,        \* _gid, the next ticket
  epoll,      \* the kernel's interest list
  batch       \* ev_buffer: fetched and not yet handled

handlerVars == <<tid_calls, fd_tids, gid, epoll, batch>>

\* Event::IN, OUT and ERR; from_linux maps EPOLLERR and EPOLLHUP to ERR, and the
\* kernel reports both whether they were asked for or not.
Event == {"IN", "OUT", "ERR"}

\* A callback is the name of what it captured; Noop captures nothing.
Noop == -1

HandlerTypeOK ==
  /\ DOMAIN tid_calls \subseteq 0..(gid - 1)
  /\ \A t \in DOMAIN tid_calls : tid_calls[t] \in [fd : Fd, on : SUBSET Event, fn : Int]
  /\ DOMAIN fd_tids \subseteq Fd
  /\ \A f \in DOMAIN fd_tids : fd_tids[f] \in 0..(gid - 1)
  /\ gid \in Nat
  /\ DOMAIN epoll \subseteq Fd
  /\ \A f \in DOMAIN epoll :
       epoll[f] \in [tid : 0..(gid - 1), on : SUBSET Event, armed : BOOLEAN]
  /\ \A e \in batch : e.tid \in 0..(gid - 1) /\ e.ev \in (SUBSET Event) \ {{}}

HandlerInit ==
  /\ tid_calls = << >>
  /\ fd_tids = << >>
  /\ gid = 0
  /\ epoll = << >>
  /\ batch = {}

\* A map with v stored at k, and without the keys in S.
With(f, k, v) == [x \in DOMAIN f \cup {k} |-> IF x = k THEN v ELSE f[x]]
Without(f, S) == Restrict(f, DOMAIN f \ S)

\* _fd_tids[fd]: operator[] makes an entry 0 for a descriptor it does not know.
TidOf(f) == IF f \in DOMAIN fd_tids THEN fd_tids[f] ELSE 0

Armed(on) == [tid |-> gid, on |-> on, armed |-> TRUE]

\* Handler::add of a descriptor that epoll does not know yet.
Add(f, on, fn) ==
  /\ tid_calls' = With(tid_calls, gid, [fd |-> f, on |-> on, fn |-> fn])
  /\ fd_tids' = With(fd_tids, f, gid)
  /\ gid' = gid + 1
  /\ epoll' = With(epoll, f, Armed(on))
  /\ UNCHANGED batch

\* Mutant of Mod: the ticket of the earlier registration is used again.
ModReusesTid(f, on, fn) ==
  /\ tid_calls' = With(tid_calls, TidOf(f), [fd |-> f, on |-> on, fn |-> fn])
  /\ gid' = gid + 1
  /\ epoll' = IF f \in DOMAIN epoll THEN With(epoll, f, [Armed(on) EXCEPT !.tid = TidOf(f)]) ELSE epoll
  /\ UNCHANGED <<fd_tids, batch>>

\* Mutant of Mod: the old ticket is looked up after the new one was stored, and the
\* new callback is erased.
ModErasesNew(f, on, fn) ==
  /\ fd_tids' = With(fd_tids, f, gid)
  /\ gid' = gid + 1
  /\ epoll' = IF f \in DOMAIN epoll THEN With(epoll, f, Armed(on)) ELSE epoll
  /\ UNCHANGED <<tid_calls, batch>>

\* Handler::mod.  Without the descriptor epoll_ctl fails and mod throws, with the
\* maps already changed.
ModThrows(f) == f \notin DOMAIN epoll

Mod(f, on, fn) ==
  /\ tid_calls' = With(Without(tid_calls, {TidOf(f)}), gid, [fd |-> f, on |-> on, fn |-> fn])
  /\ fd_tids' = With(fd_tids, f, gid)
  /\ gid' = gid + 1
  /\ epoll' = IF ModThrows(f) THEN epoll ELSE With(epoll, f, Armed(on))
  /\ UNCHANGED batch

\* Handler::del.
Del(f) ==
  /\ tid_calls' = Without(tid_calls, {TidOf(f)})
  /\ fd_tids' = Without(fd_tids, {f})
  /\ epoll' = Without(epoll, {f})
  /\ UNCHANGED <<gid, batch>>

\* What epoll has to report of f when the events in ready are there.
Reported(f, ready) ==
  IF f \in DOMAIN epoll /\ epoll[f].armed
  THEN ready \cap (epoll[f].on \cup {"ERR"})
  ELSE {}

\* epoll_wait in handle(): up to HandleBatch of the descriptors with something to
\* report, each of which is disarmed.
Fetch(poll) ==
  /\ batch = {}
  /\ LET pending == {f \in Fd : Reported(f, poll[f]) # {}} IN
     \E S \in SUBSET pending :
       /\ S # {}
       /\ Cardinality(S) <= HandleBatch
       /\ S = pending \/ Cardinality(S) = HandleBatch
       /\ batch' = {[tid |-> epoll[f].tid, ev |-> Reported(f, poll[f])] : f \in S}
       /\ epoll' = [f \in DOMAIN epoll |-> [epoll[f] EXCEPT !.armed = @ /\ f \notin S]]
  /\ UNCHANGED <<tid_calls, fd_tids, gid>>

\* The tests of handle() before it calls the callback of event e.
Activates(e) ==
  /\ e.tid \in DOMAIN tid_calls
  /\ tid_calls[e.tid].on \cap e.ev # {}

\* The rest of an iteration of handle(); the callback itself is the caller's part.
Handled(e) ==
  /\ e \in batch
  /\ batch' = batch \ {e}
  /\ UNCHANGED <<tid_calls, fd_tids, gid, epoll>>
================================================================================
