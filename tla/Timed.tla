---------------------------------- MODULE Timed ----------------------------------
(***************************************************************************)
(* TimedContext: the timers of a context, one heap per worker, and the     *)
(* workers that call them between two epoll_waits.  Coroutines call        *)
(* cgo::sleep (cgo::timeout is the same timer with a channel for the       *)
(* semaphore).                                                             *)
(*                                                                         *)
(* Time.  Ticks are counted in now.  A worker's own steps take no time:    *)
(* time passes while every worker is in epoll_wait, for at most PollMax,   *)
(* or inside a coroutine that computes (busy).  Nobody's epoll_wait is cut *)
(* short by a new timer: push() calls emit(), which does nothing because   *)
(* no worker ever called BaseLazySignal::wait.                             *)
(***************************************************************************)
EXTENDS Naturals, FiniteSets

CONSTANTS
  N,          \* n_partition, the number of workers
  BatchSize,  \* the batch_size of run_timeout
  PollMax,    \* the 50 ms of Context::_run, in ticks
  Sleeper,    \* the coroutines that sleep
  Delay,      \* how long they may sleep, in ticks
  MaxBusy,    \* how many workers may be busy at a time
  MaxTimers,  \* bound: timers created
  MaxTime     \* bound: ticks

ASSUME TimedAssumption ==
  /\ N \in Nat \ {0}
  /\ BatchSize \in Nat \ {0}
  /\ PollMax \in Nat \ {0}
  /\ Delay \subseteq Nat
  /\ MaxBusy \in 0..(N - 1)
  /\ MaxTimers \in Nat
  /\ MaxTime \in Nat

Worker == 0..(N - 1)
Never == MaxTime + PollMax + 1   \* TimePoint::max()

VARIABLES
  now,      \* steady_clock
  tid,      \* _tid
  ex,       \* the deadline of each timer
  pq,       \* _pq_timer of each partition
  fired,    \* history: how often each timer was called
  pc,       \* of each worker: own, steal, next, poll, busy
  cnt, slot,\* its locals in run_timeout (slot is the i of the second loop)
  wake,     \* when its epoll_wait ends
  timer,    \* the timer each coroutine waits for, or MaxTimers
  signal    \* the timers whose semaphore was released

wVars == <<pc, cnt, slot, wake>>
vars == <<now, tid, ex, pq, fired, wVars, timer, signal>>

Timer == 0..(MaxTimers - 1)

TypeOK ==
  /\ now \in 0..MaxTime
  /\ tid \in 0..MaxTimers
  /\ ex \in [Timer -> Nat]
  /\ pq \in [Worker -> SUBSET Timer]
  /\ fired \in [Timer -> Nat]
  /\ pc \in [Worker -> {"own", "steal", "next", "poll", "busy"}]
  /\ cnt \in [Worker -> 0..BatchSize]
  /\ slot \in [Worker -> 0..N]
  /\ wake \in [Worker -> 0..(MaxTime + PollMax)]
  /\ timer \in [Sleeper -> 0..MaxTimers]
  /\ signal \in SUBSET Timer

Init ==
  /\ now = 0
  /\ tid = 0
  /\ ex = [t \in Timer |-> 0]
  /\ pq = [w \in Worker |-> {}]
  /\ fired = [t \in Timer |-> 0]
  /\ pc = [w \in Worker |-> "own"]
  /\ cnt = [w \in Worker |-> 0]
  /\ slot = [w \in Worker |-> 0]
  /\ wake = [w \in Worker |-> 0]
  /\ timer = [s \in Sleeper |-> MaxTimers]
  /\ signal = {}

-----------------------------------------------------------------------------
\* Scheduler::push: the heap is a set, its top the timers with the least deadline.
Push(p, t) == pq' = [pq EXCEPT ![p] = @ \cup {t}]

\* sleep() up to its aquire: create_timeout picks the next partition in turn.
Sleep(s, d) ==
  /\ timer[s] = MaxTimers
  /\ tid < MaxTimers
  /\ tid' = tid + 1
  /\ ex' = [ex EXCEPT ![tid] = now + d]
  /\ Push(tid % N, tid)
  /\ timer' = [timer EXCEPT ![s] = tid]
  /\ UNCHANGED <<now, fired, wVars, signal>>

\* aquire() returns, and sleep() with it.
Awake(s) ==
  /\ timer[s] \in signal
  /\ signal' = signal \ {timer[s]}
  /\ timer' = [timer EXCEPT ![s] = MaxTimers]
  /\ UNCHANGED <<now, tid, ex, pq, fired, wVars>>

\* Mutant of Due: the first timer of the heap, due or not.
DueAny(p) == {t \in pq[p] : \A u \in pq[p] : ex[t] <= ex[u]}

\* The timers Scheduler::pop may return of partition p: the first one, when due.
Due(p) == {t \in pq[p] : ex[t] <= now /\ \A u \in pq[p] : ex[t] <= ex[u]}

\* Mutant of Fire: the timer stays in the heap.
FireKept(w, p) ==
  \E t \in Due(p) :
    /\ fired' = [fired EXCEPT ![t] = @ + 1]
    /\ signal' = signal \cup {t}
    /\ cnt' = [cnt EXCEPT ![w] = @ + 1]
    /\ UNCHANGED pq

\* pop() and the callback.
Fire(w, p) ==
  \E t \in Due(p) :
    /\ pq' = [pq EXCEPT ![p] = @ \ {t}]
    /\ fired' = [fired EXCEPT ![t] = @ + 1]
    /\ signal' = signal \cup {t}
    /\ cnt' = [cnt EXCEPT ![w] = @ + 1]

\* The first loop of run_timeout.
RunOwn(w) ==
  /\ pc[w] = "own"
  /\ \/ cnt[w] < BatchSize /\ Fire(w, w) /\ UNCHANGED <<pc, slot>>
     \/ /\ cnt[w] = BatchSize \/ Due(w) = {}
        /\ pc' = [pc EXCEPT ![w] = IF cnt[w] = BatchSize THEN "next" ELSE "steal"]
        /\ UNCHANGED <<slot, pq, fired, signal, cnt>>
  /\ UNCHANGED <<now, tid, ex, wake, timer>>

\* Mutant of Steal: the timers of other partitions are left to their workers.
StealNothing(w) ==
  /\ pc[w] = "steal"
  /\ pc' = [pc EXCEPT ![w] = "next"]
  /\ UNCHANGED <<slot, pq, fired, signal, cnt, now, tid, ex, wake, timer>>

\* The second loop: one timer of each partition.
Steal(w) ==
  LET p == (w + slot[w]) % N
      more == slot[w] < N /\ cnt[w] < BatchSize
  IN
  /\ pc[w] = "steal"
  /\ \/ more /\ Fire(w, p) /\ slot' = [slot EXCEPT ![w] = @ + 1] /\ UNCHANGED pc
     \/ more /\ Due(p) = {} /\ slot' = [slot EXCEPT ![w] = @ + 1]
        /\ UNCHANGED <<pc, pq, fired, signal, cnt>>
     \/ ~more /\ pc' = [pc EXCEPT ![w] = "next"] /\ slot' = [slot EXCEPT ![w] = 0]
        /\ UNCHANGED <<pq, fired, signal, cnt>>
  /\ UNCHANGED <<now, tid, ex, wake, timer>>

\* next_schedule_time: of the worker's own partition only.
NextScheduleTime(w) ==
  IF pq[w] = {} THEN Never ELSE CHOOSE e \in {ex[t] : t \in pq[w]} : \A t \in pq[w] : e <= ex[t]

\* When the epoll_wait of worker w ends: at its next timer, or after PollMax.
PollTime(w) ==
  IF NextScheduleTime(w) < now + PollMax THEN NextScheduleTime(w) ELSE now + PollMax

\* The rest of the loop of _run.  A worker that did something, or has a timer that
\* is due, polls without waiting; so it does when run_scheduled did something.
EndOfRound(w) ==
  /\ pc[w] = "next"
  /\ \/ pc' = [pc EXCEPT ![w] = "own"] /\ UNCHANGED wake
     \/ /\ cnt[w] = 0 /\ now < NextScheduleTime(w)
        /\ pc' = [pc EXCEPT ![w] = "poll"]
        /\ wake' = [wake EXCEPT ![w] = PollTime(w)]
  /\ cnt' = [cnt EXCEPT ![w] = 0]
  /\ UNCHANGED <<now, tid, ex, pq, fired, slot, timer, signal>>

\* epoll_wait ends, in time or earlier for an event.
Wake(w) ==
  /\ pc[w] = "poll"
  /\ pc' = [pc EXCEPT ![w] = "own"]
  /\ wake' = [wake EXCEPT ![w] = 0]
  /\ UNCHANGED <<now, tid, ex, pq, fired, cnt, slot, timer, signal>>

\* run_scheduled executes a coroutine that computes for a while.
Compute(w) ==
  /\ \/ /\ pc[w] = "own" /\ cnt[w] = 0
        /\ Cardinality({v \in Worker : pc[v] = "busy"}) < MaxBusy
        /\ pc' = [pc EXCEPT ![w] = "busy"]
     \/ /\ pc[w] = "busy"
        /\ pc' = [pc EXCEPT ![w] = "own"]
  /\ UNCHANGED <<now, tid, ex, pq, fired, cnt, slot, wake, timer, signal>>

Tick ==
  /\ now < MaxTime
  /\ \A w \in Worker : pc[w] = "busy" \/ (pc[w] = "poll" /\ now < wake[w])
  /\ now' = now + 1
  /\ UNCHANGED <<tid, ex, pq, fired, wVars, timer, signal>>

Next ==
  \/ \E s \in Sleeper : (\E d \in Delay : Sleep(s, d)) \/ Awake(s)
  \/ \E w \in Worker : RunOwn(w) \/ Steal(w) \/ EndOfRound(w) \/ Wake(w) \/ Compute(w)
  \/ Tick

Spec == Init /\ [][Next]_vars
-----------------------------------------------------------------------------
(* Properties.                                                             *)

\* A timer is called once; one that was created and not called is in its heap, however
\* the workers take from each other's heaps in run_timeout.
CalledOnce ==
  \A t \in Timer :
    fired[t] = (IF t < tid /\ t \notin pq[t % N] THEN 1 ELSE 0)

\* sleep() never returns early: its coroutine stays until the deadline.
NotEarly ==
  [][\A s \in Sleeper : timer[s] # MaxTimers /\ timer'[s] = MaxTimers => ex[timer[s]] <= now]_vars

\* No timer is late by more than one epoll_wait, though a new timer wakes nobody and
\* the worker of its partition may be busy: the others take it over.
Punctual ==
  \A w \in Worker : \A t \in pq[w] : now <= ex[t] + PollMax
================================================================================
