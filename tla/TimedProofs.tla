------------------------------- MODULE TimedProofs -------------------------------
(***************************************************************************)
(* Timed, proved for any number of workers, sleepers and timers: a timer   *)
(* is called exactly once, whichever worker takes it from whichever heap,  *)
(* sleep() does not return before its deadline, and no timer is late by    *)
(* more than one epoll_wait.                                               *)
(***************************************************************************)
EXTENDS Timed, TLAPS, WellFoundedInduction, FiniteSetTheorems

\* The types that the argument needs.
TypeInv ==
  /\ now \in Nat
  /\ tid \in 0..MaxTimers
  /\ ex \in [Timer -> Nat]
  /\ pq \in [Worker -> SUBSET Timer]
  /\ fired \in [Timer -> Nat]
  /\ cnt \in [Worker -> Nat]
  /\ slot \in [Worker -> Nat]
  /\ timer \in [Sleeper -> 0..MaxTimers]
  /\ signal \in SUBSET Timer

\* A timer is in the heap of its number's worker or in none.
HeapInv == \A w \in Worker : \A t \in pq[w] : t < tid /\ t % N = w

\* A semaphore is released when the deadline is past.
SignalInv == \A t \in signal : t < tid /\ ex[t] <= now

IInv == TypeInv /\ HeapInv /\ CalledOnce /\ SignalInv

\* A remainder is the number of a worker.
LEMMA RemIsWorker == \A k \in Nat : k % N \in Worker
  BY TimedAssumption DEF Worker

LEMMA InitHolds == Init => IInv
  <1> SUFFICES ASSUME Init PROVE IInv
    OBVIOUS
  <1>1. TypeInv
    BY TimedAssumption DEF Init, TypeInv, Timer
  <1>2. HeapInv /\ SignalInv
    BY DEF Init, HeapInv, SignalInv
  <1>3. CalledOnce
    BY TimedAssumption DEF Init, CalledOnce, Timer
  <1> QED
    BY <1>1, <1>2, <1>3 DEF IInv

\* create_timeout puts a new number into one heap.
LEMMA SleepKeeps ==
  ASSUME IInv, NEW s \in Sleeper, NEW d \in Delay, Sleep(s, d)
  PROVE  IInv'
  <1> USE TimedAssumption
  <1>1. tid \in Timer /\ tid \in Nat /\ tid % N \in Worker /\ now + d \in Nat
    BY RemIsWorker DEF IInv, TypeInv, Timer, Sleep
  <1>2. TypeInv'
    <2>1. now' \in Nat /\ tid' \in 0..MaxTimers
      BY <1>1 DEF IInv, TypeInv, Sleep
    <2>2. ex' \in [Timer -> Nat] /\ fired' \in [Timer -> Nat] /\ signal' \in SUBSET Timer
      BY <1>1 DEF IInv, TypeInv, Sleep
    <2>3. pq' \in [Worker -> SUBSET Timer]
      BY <1>1 DEF IInv, TypeInv, Sleep, Push
    <2>4. cnt' \in [Worker -> Nat] /\ slot' \in [Worker -> Nat]
      BY DEF IInv, TypeInv, Sleep, wVars
    <2>5. timer' \in [Sleeper -> 0..MaxTimers]
      BY <1>1 DEF IInv, TypeInv, Sleep
    <2> QED
      BY <2>1, <2>2, <2>3, <2>4, <2>5 DEF TypeInv
  <1>3. HeapInv'
    <2> SUFFICES ASSUME NEW w \in Worker, NEW t \in pq'[w]
                 PROVE  t < tid' /\ t % N = w
      BY DEF HeapInv
    <2>1. CASE t \in pq[w]
      <3>1. t < tid /\ t % N = w /\ t \in Nat
        BY <2>1 DEF IInv, TypeInv, HeapInv, Timer
      <3> QED
        BY <1>1, <3>1 DEF Sleep
    <2>2. CASE t \notin pq[w]
      <3>1. t = tid /\ w = tid % N
        BY <1>1, <2>2 DEF IInv, TypeInv, Sleep, Push
      <3> QED
        BY <1>1, <3>1 DEF Sleep
    <2> QED
      BY <2>1, <2>2
  <1>4. CalledOnce'
    <2> SUFFICES ASSUME NEW t \in Timer
                 PROVE  fired'[t] = IF t < tid' /\ t \notin pq'[t % N] THEN 1 ELSE 0
      BY DEF CalledOnce
    <2>0. t \in Nat /\ t % N \in Worker
      BY RemIsWorker DEF Timer
    <2>1. CASE t = tid
      BY <1>1, <2>0, <2>1 DEF IInv, TypeInv, CalledOnce, Sleep, Push
    <2>2. CASE t # tid
      <3>1. t < tid' <=> t < tid
        BY <1>1, <2>0, <2>2 DEF Sleep
      <3>2. t \in pq'[t % N] <=> t \in pq[t % N]
        BY <1>1, <2>0, <2>2 DEF IInv, TypeInv, Sleep, Push
      <3> QED
        BY <3>1, <3>2 DEF IInv, CalledOnce, Sleep
    <2> QED
      BY <2>1, <2>2
  <1>5. SignalInv'
    BY <1>1 DEF IInv, TypeInv, SignalInv, Sleep, Timer
  <1> QED
    BY <1>2, <1>3, <1>4, <1>5 DEF IInv

\* Scheduler::pop and the callback, by any worker from any heap.
LEMMA FireKeeps ==
  ASSUME IInv, NEW w \in Worker, NEW p \in Worker, Fire(w, p),
         UNCHANGED <<now, tid, ex, timer>>, slot' \in [Worker -> Nat]
  PROVE  IInv'
  <1>1. PICK t \in Due(p) :
          /\ pq' = [pq EXCEPT ![p] = @ \ {t}]
          /\ fired' = [fired EXCEPT ![t] = @ + 1]
          /\ signal' = signal \cup {t}
          /\ cnt' = [cnt EXCEPT ![w] = @ + 1]
    BY DEF Fire
  <1>2. t \in pq[p] /\ t \in Timer /\ t < tid /\ t % N = p /\ ex[t] <= now
    BY DEF Due, IInv, TypeInv, HeapInv
  <1>3. TypeInv'
    BY <1>1, <1>2 DEF IInv, TypeInv
  <1>4. HeapInv'
    BY <1>1 DEF IInv, TypeInv, HeapInv
  <1>5. CalledOnce'
    <2> SUFFICES ASSUME NEW u \in Timer
                 PROVE  fired'[u] = IF u < tid /\ u \notin pq'[u % N] THEN 1 ELSE 0
      BY DEF CalledOnce
    <2>0. u % N \in Worker
      <3>1. u \in Nat
        BY DEF Timer
      <3> QED
        BY <3>1, RemIsWorker
    <2>1. CASE u = t
      <3>1. fired[t] = 0 /\ t \notin pq'[t % N]
        BY <1>1, <1>2 DEF IInv, TypeInv, CalledOnce
      <3> QED
        BY <1>1, <1>2, <2>1, <3>1 DEF IInv, TypeInv
    <2>2. CASE u # t
      <3>1. fired'[u] = fired[u] /\ (u \in pq'[u % N] <=> u \in pq[u % N])
        BY <1>1, <1>2, <2>0, <2>2 DEF IInv, TypeInv
      <3> QED
        BY <3>1 DEF IInv, CalledOnce
    <2> QED
      BY <2>1, <2>2
  <1>6. SignalInv'
    BY <1>1, <1>2 DEF IInv, SignalInv
  <1> QED
    BY <1>3, <1>4, <1>5, <1>6 DEF IInv

\* Steps that leave the timers alone.
LEMMA RestKeeps ==
  ASSUME IInv, UNCHANGED <<tid, ex, pq, fired>>,
         now' \in Nat, now <= now', signal' \subseteq signal,
         cnt' \in [Worker -> Nat], slot' \in [Worker -> Nat], timer' \in [Sleeper -> 0..MaxTimers]
  PROVE  IInv'
  <1>1. TypeInv' /\ HeapInv' /\ CalledOnce'
    BY DEF IInv, TypeInv, HeapInv, CalledOnce
  <1>2. SignalInv'
    BY DEF IInv, TypeInv, SignalInv
  <1> QED
    BY <1>1, <1>2 DEF IInv

LEMMA StepKeeps == IInv /\ [Next]_vars => IInv'
  <1> SUFFICES ASSUME IInv, [Next]_vars PROVE IInv'
    OBVIOUS
  <1> USE TimedAssumption
  <1>1. ASSUME NEW s \in Sleeper, NEW d \in Delay, Sleep(s, d) PROVE IInv'
    BY <1>1, SleepKeeps
  <1>2. ASSUME NEW s \in Sleeper, Awake(s) PROVE IInv'
    BY <1>2, RestKeeps DEF Awake, IInv, TypeInv, wVars
  <1>3. ASSUME NEW w \in Worker, RunOwn(w) PROVE IInv'
    <2>1. CASE Fire(w, w) /\ UNCHANGED <<pc, slot>>
      BY <1>3, <2>1, FireKeeps DEF RunOwn, IInv, TypeInv
    <2>2. CASE UNCHANGED <<slot, pq, fired, signal, cnt>>
      BY <1>3, <2>2, RestKeeps DEF RunOwn, IInv, TypeInv
    <2> QED
      BY <1>3, <2>1, <2>2 DEF RunOwn
  <1>4. ASSUME NEW w \in Worker, Steal(w) PROVE IInv'
    <2> DEFINE p == (w + slot[w]) % N
    <2>1. p \in Worker
      <3>1. w + slot[w] \in Nat
        BY DEF IInv, TypeInv, Worker
      <3> QED
        BY <3>1, RemIsWorker
    <2>2. slot' \in [Worker -> Nat]
      BY <1>4 DEF Steal, IInv, TypeInv
    <2>3. CASE Fire(w, p)
      BY <1>4, <2>1, <2>2, <2>3, FireKeeps DEF Steal
    <2>4. CASE UNCHANGED <<pq, fired, signal, cnt>>
      BY <1>4, <2>2, <2>4, RestKeeps DEF Steal, IInv, TypeInv
    <2> QED
      BY <1>4, <2>3, <2>4 DEF Steal
  <1>5. ASSUME NEW w \in Worker, EndOfRound(w) PROVE IInv'
    BY <1>5, RestKeeps DEF EndOfRound, IInv, TypeInv
  <1>6. ASSUME NEW w \in Worker, Wake(w) \/ Compute(w) PROVE IInv'
    BY <1>6, RestKeeps DEF Wake, Compute, IInv, TypeInv
  <1>7. CASE Tick
    BY <1>7, RestKeeps DEF Tick, IInv, TypeInv, wVars
  <1>8. CASE UNCHANGED vars
    BY <1>8, RestKeeps DEF vars, wVars, IInv, TypeInv
  <1> QED
    BY <1>1, <1>2, <1>3, <1>4, <1>5, <1>6, <1>7, <1>8 DEF Next

\* Every timer is called once and only once, however the workers of any number take
\* from each other's heaps; one that was not called is in its heap.
THEOREM EveryTimerCalledOnce == Spec => []CalledOnce
  <1>1. IInv => CalledOnce
    BY DEF IInv
  <1> QED
    BY InitHolds, StepKeeps, <1>1, PTL DEF Spec

\* sleep() never returns before its deadline.
THEOREM SleepIsNotEarly == Spec => NotEarly
  <1>1. IInv /\ [Next]_vars =>
          [\A s \in Sleeper : timer[s] # MaxTimers /\ timer'[s] = MaxTimers => ex[timer[s]] <= now]_vars
    <2> SUFFICES ASSUME IInv, Next, NEW s \in Sleeper, timer[s] # MaxTimers, timer'[s] = MaxTimers
                 PROVE  ex[timer[s]] <= now
      BY DEF vars
    <2>1. ASSUME NEW c \in Sleeper, NEW d \in Delay, Sleep(c, d) PROVE FALSE
      BY <2>1, TimedAssumption DEF Sleep, IInv, TypeInv
    <2>2. ASSUME NEW c \in Sleeper, Awake(c) PROVE ex[timer[s]] <= now
      <3>1. c = s
        BY <2>2 DEF Awake, IInv, TypeInv
      <3> QED
        BY <2>2, <3>1 DEF Awake, IInv, SignalInv
    <2>3. CASE UNCHANGED timer
      BY <2>3
    <2> QED
      BY <2>1, <2>2, <2>3
      DEF Next, RunOwn, Steal, EndOfRound, Wake, Compute, Tick
  <1> QED
    BY InitHolds, StepKeeps, <1>1, PTL DEF Spec, NotEarly
\* A set of naturals that is not empty has a least element.
LEMMA HasLeast ==
  ASSUME NEW T, T \subseteq Nat, T # {}
  PROVE  \E x \in T : \A y \in T : x <= y
  <1>1. PICK x \in T : \A y \in T : ~(<<y, x>> \in OpToRel(<, Nat))
    BY NatLessThanWellFounded, WFMin
  <1>2. ASSUME NEW y \in T PROVE x <= y
    <2>1. x \in Nat /\ y \in Nat
      BY <1>2
    <2>2. ASSUME y < x PROVE <<y, x>> \in OpToRel(<, Nat)
      BY <2>1, <2>2 DEF OpToRel
    <2>3. ~(y < x)
      BY <1>1, <2>2
    <2> QED
      BY <2>1, <2>3
  <1> QED
    BY <1>2

\* The end of an epoll_wait is a time, before Never with or without timers in the heap.
LEMMA PollTimeBounded ==
  ASSUME TypeOK, NEW w \in Worker
  PROVE  PollTime(w) \in 0..(MaxTime + PollMax)
  <1>1. now \in Nat /\ now <= MaxTime
    BY TimedAssumption DEF TypeOK
  <1>2. NextScheduleTime(w) \in Nat
    <2>1. CASE pq[w] = {}
      BY <2>1, TimedAssumption DEF NextScheduleTime, Never
    <2>2. CASE pq[w] # {}
      <3> DEFINE T == {ex[t] : t \in pq[w]}
      <3>1. T \subseteq Nat /\ T # {}
        BY <2>2 DEF TypeOK
      <3>2. \E e \in T : \A y \in T : e <= y
        <4> HIDE DEF T
        <4> QED
          BY <3>1, HasLeast
      <3>3. \E e \in T : \A t \in pq[w] : e <= ex[t]
        BY <3>2
      <3>4. (CHOOSE e \in T : \A t \in pq[w] : e <= ex[t]) \in T
        BY <3>3
      <3> QED
        BY <2>2, <3>1, <3>4 DEF NextScheduleTime
    <2> QED
      BY <2>1, <2>2
  <1> QED
    BY <1>1, <1>2, TimedAssumption DEF PollTime, Never

\* pop() takes the timer from a heap and counts it.
LEMMA FireTypes ==
  ASSUME TypeOK, NEW w \in Worker, NEW p \in Worker, Fire(w, p), cnt[w] < BatchSize
  PROVE  /\ pq' \in [Worker -> SUBSET Timer]
         /\ fired' \in [Timer -> Nat]
         /\ signal' \in SUBSET Timer
         /\ cnt' \in [Worker -> 0..BatchSize]
  <1>1. PICK t \in Due(p) :
          /\ pq' = [pq EXCEPT ![p] = @ \ {t}]
          /\ fired' = [fired EXCEPT ![t] = @ + 1]
          /\ signal' = signal \cup {t}
          /\ cnt' = [cnt EXCEPT ![w] = @ + 1]
    BY DEF Fire
  <1>2. t \in Timer
    BY DEF Due, TypeOK
  <1>3. cnt[w] + 1 \in 0..BatchSize
    BY TimedAssumption DEF TypeOK
  <1> QED
    BY <1>1, <1>2, <1>3 DEF TypeOK

LEMMA StepKeepsTypes == TypeOK /\ [Next]_vars => TypeOK'
  <1> SUFFICES ASSUME TypeOK, [Next]_vars PROVE TypeOK'
    OBVIOUS
  <1> USE TimedAssumption
  <1>1. ASSUME NEW s \in Sleeper, NEW d \in Delay, Sleep(s, d) PROVE TypeOK'
    <2>1. tid \in Timer /\ tid \in Nat /\ tid % N \in Worker /\ now + d \in Nat /\ tid + 1 \in 0..MaxTimers
      BY <1>1, RemIsWorker DEF TypeOK, Timer, Sleep
    <2>2. pq' \in [Worker -> SUBSET Timer] /\ ex' \in [Timer -> Nat] /\ timer' \in [Sleeper -> 0..MaxTimers]
      BY <1>1, <2>1 DEF TypeOK, Sleep, Push
    <2> QED
      BY <1>1, <2>1, <2>2 DEF TypeOK, Sleep, wVars
  <1>2. ASSUME NEW s \in Sleeper, Awake(s) PROVE TypeOK'
    BY <1>2 DEF Awake, TypeOK, wVars
  <1>3. ASSUME NEW w \in Worker, RunOwn(w) PROVE TypeOK'
    <2>1. CASE cnt[w] < BatchSize /\ Fire(w, w) /\ UNCHANGED <<pc, slot>>
      BY <1>3, <2>1, FireTypes DEF RunOwn, TypeOK
    <2>2. CASE UNCHANGED <<slot, pq, fired, signal, cnt>>
      BY <1>3, <2>2 DEF RunOwn, TypeOK
    <2> QED
      BY <1>3, <2>1, <2>2 DEF RunOwn
  <1>4. ASSUME NEW w \in Worker, Steal(w) PROVE TypeOK'
    <2> DEFINE p == (w + slot[w]) % N
    <2>1. p \in Worker
      <3>1. w + slot[w] \in Nat
        BY DEF TypeOK, Worker
      <3> QED
        BY <3>1, RemIsWorker
    <2>2. slot' \in [Worker -> 0..N] /\ pc' \in [Worker -> {"own", "steal", "next", "poll", "busy"}]
      <3>1. slot[w] < N => slot[w] + 1 \in 0..N
        BY DEF TypeOK
      <3> QED
        BY <1>4, <3>1 DEF Steal, TypeOK
    <2>3. CASE cnt[w] < BatchSize /\ Fire(w, p)
      BY <1>4, <2>1, <2>2, <2>3, FireTypes DEF Steal, TypeOK
    <2>4. CASE UNCHANGED <<pq, fired, signal, cnt>>
      BY <1>4, <2>2, <2>4 DEF Steal, TypeOK
    <2> QED
      BY <1>4, <2>3, <2>4 DEF Steal
  <1>5. ASSUME NEW w \in Worker, EndOfRound(w) PROVE TypeOK'
    <2>1. PollTime(w) \in 0..(MaxTime + PollMax)
      BY PollTimeBounded
    <2> QED
      BY <1>5, <2>1 DEF EndOfRound, TypeOK
  <1>6. ASSUME NEW w \in Worker, Wake(w) \/ Compute(w) PROVE TypeOK'
    BY <1>6 DEF Wake, Compute, TypeOK, Never
  <1>7. CASE Tick
    BY <1>7 DEF Tick, TypeOK, wVars
  <1>8. CASE UNCHANGED vars
    BY <1>8 DEF vars, wVars, TypeOK
  <1> QED
    BY <1>1, <1>2, <1>3, <1>4, <1>5, <1>6, <1>7, <1>8 DEF Next

\* The workers' locals stay in their ranges: run_timeout calls at most BatchSize timers
\* a round, and the time at which Context::_run ends an epoll_wait is never the
\* TimePoint::max() that next_schedule_time returns for an empty heap.
THEOREM TimedTypes == Spec => []TypeOK
  <1>1. Init => TypeOK
    BY TimedAssumption DEF Init, TypeOK, Timer, Worker, Never
  <1> QED
    BY <1>1, StepKeepsTypes, PTL DEF Spec

-----------------------------------------------------------------------------
(* Punctual.  The steps of a round take no time, so that what a worker saw  *)
(* in one of them is still so in the next, but for timers created since,    *)
(* which are not overdue.  A worker that goes to epoll_wait has called      *)
(* nothing, hence has found nothing due in any heap; and there is always    *)
(* one that is not busy, whose epoll_wait has to end.                       *)

Busy == {v \in Worker : pc[v] = "busy"}

\* No timer of heap p is overdue.
NoneOverdue(p) == \A t \in pq[p] : now <= ex[t]

\* What worker w has seen: in the second loop of run_timeout of the heaps before its
\* slot, at the end of a round of all heaps; and its epoll_wait ends before any timer
\* is late by more than PollMax.
RoundInv(w) ==
  /\ pc[w] # "steal" => slot[w] = 0
  /\ pc[w] = "steal" /\ cnt[w] = 0 => \A i \in 0..(slot[w] - 1) : NoneOverdue((w + i) % N)
  /\ pc[w] = "next" /\ cnt[w] = 0 => \A p \in Worker : NoneOverdue(p)
  /\ pc[w] = "poll" => /\ wake[w] <= now + PollMax
                       /\ \A p \in Worker : \A t \in pq[p] : wake[w] <= ex[t] + PollMax

BusyInv == Cardinality(Busy) <= MaxBusy

RoundsInv == \A w \in Worker : RoundInv(w)

PInv == TypeOK /\ BusyInv /\ RoundsInv /\ Punctual

\* A step in which no time passes and the only timers that come are not overdue.
NoLate ==
  /\ now' = now
  /\ \A p \in Worker : \A t \in pq'[p] : (t \in pq[p] /\ ex'[t] = ex[t]) \/ now <= ex'[t]

LEMMA NoneOverdueKept ==
  ASSUME TypeOK, TypeOK', NoLate, NEW p \in Worker, NoneOverdue(p)
  PROVE  NoneOverdue(p)'
  BY DEF NoLate, NoneOverdue

LEMMA PunctualKept ==
  ASSUME TypeOK, TypeOK', NoLate, Punctual
  PROVE  Punctual'
  <1> SUFFICES ASSUME NEW w \in Worker, NEW t \in pq'[w] PROVE now <= ex'[t] + PollMax
    BY DEF Punctual, NoLate
  <1>1. now \in Nat /\ ex'[t] \in Nat /\ PollMax \in Nat
    BY TimedAssumption DEF TypeOK
  <1>2. (t \in pq[w] /\ ex'[t] = ex[t]) \/ now <= ex'[t]
    BY DEF NoLate
  <1> QED
    BY <1>1, <1>2 DEF Punctual

\* A worker that does not move has seen what it has seen.
LEMMA RoundKept ==
  ASSUME TypeOK, TypeOK', NoLate, NEW w \in Worker, RoundInv(w),
         pc'[w] = pc[w], cnt'[w] = cnt[w], slot'[w] = slot[w], wake'[w] = wake[w]
  PROVE  RoundInv(w)'
  <1>1. pc'[w] # "steal" => slot'[w] = 0
    BY DEF RoundInv
  <1>2. ASSUME pc'[w] = "steal", cnt'[w] = 0, NEW i \in 0..(slot'[w] - 1)
        PROVE  NoneOverdue((w + i) % N)'
    <2>1. i \in 0..(slot[w] - 1) /\ w + i \in Nat
      BY <1>2 DEF Worker, TypeOK
    <2>2. PICK p \in Worker : p = (w + i) % N
      BY <2>1, RemIsWorker
    <2>3. NoneOverdue(p)
      BY <1>2, <2>1, <2>2 DEF RoundInv
    <2>4. NoneOverdue(p)'
      BY <2>3, NoneOverdueKept
    <2> QED
      BY <2>2, <2>4
  <1>3. ASSUME pc'[w] = "next", cnt'[w] = 0, NEW p \in Worker PROVE NoneOverdue(p)'
    BY <1>3, NoneOverdueKept DEF RoundInv
  <1>4. ASSUME pc'[w] = "poll"
        PROVE  /\ wake'[w] <= now' + PollMax
               /\ \A p \in Worker : \A t \in pq'[p] : wake'[w] <= ex'[t] + PollMax
    <2>1. now \in Nat /\ wake[w] \in Nat /\ PollMax \in Nat
      BY TimedAssumption DEF TypeOK
    <2>2. wake[w] <= now + PollMax
      BY <1>4 DEF RoundInv
    <2>3. ASSUME NEW p \in Worker, NEW t \in pq'[p] PROVE wake[w] <= ex'[t] + PollMax
      <3>1. ex'[t] \in Nat
        BY DEF TypeOK
      <3>2. (t \in pq[p] /\ ex'[t] = ex[t]) \/ now <= ex'[t]
        BY DEF NoLate
      <3> QED
        BY <1>4, <2>1, <2>2, <3>1, <3>2 DEF RoundInv
    <2> QED
      BY <2>2, <2>3 DEF NoLate
  <1> QED
    BY <1>1, <1>2, <1>3, <1>4 DEF RoundInv

\* pop() finds nothing due only in a heap where nothing is overdue.
LEMMA NothingDue ==
  ASSUME TypeOK, NEW p \in Worker, Due(p) = {}
  PROVE  NoneOverdue(p)
  <1> SUFFICES ASSUME NEW t \in pq[p], ~(now <= ex[t]) PROVE FALSE
    BY DEF NoneOverdue
  <1> DEFINE T == {ex[u] : u \in pq[p]}
  <1>1. T \subseteq Nat /\ ex[t] \in T
    BY DEF TypeOK
  <1>2. \E e \in T : \A y \in T : e <= y
    <2> HIDE DEF T
    <2> QED
      BY <1>1, HasLeast
  <1>3. PICK u \in pq[p] : \A v \in pq[p] : ex[u] <= ex[v]
    BY <1>2
  <1>4. ex[u] <= now
    <2>1. ex[u] \in Nat /\ ex[t] \in Nat /\ now \in Nat
      BY DEF TypeOK
    <2>2. ex[u] <= ex[t]
      BY <1>3
    <2> QED
      BY <2>1, <2>2
  <1>5. u \in Due(p)
    BY <1>3, <1>4 DEF Due
  <1> QED
    BY <1>5

\* The second loop visits every partition.
LEMMA SlotOf ==
  ASSUME NEW w \in Worker, NEW p \in Worker
  PROVE  \E i \in 0..(N - 1) : (w + i) % N = p
  <1>1. N \in Nat /\ N > 0 /\ w \in Nat /\ p \in Nat /\ w < N /\ p < N
    BY TimedAssumption DEF Worker
  <1>2. p % N = p /\ (p + N) % N = p
    BY <1>1
  <1>3. CASE w <= p
    <2>1. p - w \in 0..(N - 1) /\ w + (p - w) = p
      BY <1>1, <1>3
    <2> QED
      BY <1>2, <2>1
  <1>4. CASE p < w
    <2>1. PICK i \in 0..(N - 1) : i = (p + N) - w
      BY <1>1, <1>4
    <2>2. w + i = p + N
      BY <1>1, <2>1
    <2>3. (w + i) % N = p
      BY <1>2, <2>2
    <2> QED
      BY <2>3
  <1> QED
    BY <1>1, <1>3, <1>4

\* Taking a timer from a heap.
LEMMA FireIsNoLate ==
  ASSUME TypeOK, NEW w \in Worker, NEW p \in Worker, Fire(w, p), UNCHANGED <<now, ex>>
  PROVE  /\ NoLate
         /\ cnt' = [cnt EXCEPT ![w] = @ + 1]
  <1>1. PICK t \in Due(p) :
          /\ pq' = [pq EXCEPT ![p] = @ \ {t}]
          /\ cnt' = [cnt EXCEPT ![w] = @ + 1]
    BY DEF Fire
  <1>2. \A r \in Worker : pq'[r] \subseteq pq[r]
    BY <1>1 DEF TypeOK
  <1> QED
    BY <1>1, <1>2 DEF NoLate

\* A worker was busy or is not: the number of the busy ones.
LEMMA BusyCounts ==
  ASSUME TypeOK, NEW w \in Worker
  PROVE  /\ IsFiniteSet(Busy) /\ Cardinality(Busy) \in Nat
         /\ IsFiniteSet(Worker) /\ Cardinality(Worker) = N
         /\ Cardinality(Busy \cup {w}) <= Cardinality(Busy) + 1
         /\ Cardinality(Busy \ {w}) <= Cardinality(Busy)
  <1>1. IsFiniteSet(Worker) /\ Cardinality(Worker) = N
    <2>1. 0 \in Int /\ N - 1 \in Int /\ ~(0 > N - 1) /\ (N - 1) - 0 + 1 = N
      BY TimedAssumption
    <2> QED
      BY <2>1, FS_Interval DEF Worker
  <1>2. IsFiniteSet(Busy)
    BY <1>1, FS_Subset DEF Busy
  <1>3. Cardinality(Busy) \in Nat
    BY <1>2, FS_CardinalityType
  <1>4. Cardinality(Busy \cup {w}) <= Cardinality(Busy) + 1
    BY <1>2, <1>3, FS_AddElement
  <1>5. Cardinality(Busy \ {w}) <= Cardinality(Busy)
    BY <1>2, <1>3, FS_RemoveElement
  <1> QED
    BY <1>1, <1>2, <1>3, <1>4, <1>5

\* Steps that make nobody busy.
LEMMA BusyKept ==
  ASSUME TypeOK, BusyInv, Busy' \subseteq Busy
  PROVE  BusyInv'
  <1>0. 0 \in Worker
    BY TimedAssumption DEF Worker
  <1>1. IsFiniteSet(Busy) /\ Cardinality(Busy) \in Nat
    BY <1>0, BusyCounts
  <1>2. Cardinality(Busy') <= Cardinality(Busy) /\ Cardinality(Busy') \in Nat
    BY <1>1, FS_Subset, FS_CardinalityType
  <1> QED
    BY <1>1, <1>2, TimedAssumption DEF BusyInv

\* A step of worker w in which no time passes: only what w has seen is to be shown.
LEMMA WorkerStep ==
  ASSUME PInv, TypeOK', NoLate, NEW w \in Worker,
         \A v \in Worker \ {w} :
           pc'[v] = pc[v] /\ cnt'[v] = cnt[v] /\ slot'[v] = slot[v] /\ wake'[v] = wake[v],
         BusyInv', RoundInv(w)'
  PROVE  PInv'
  <1>1. ASSUME NEW v \in Worker PROVE RoundInv(v)'
    <2>1. CASE v = w
      BY <2>1
    <2>2. CASE v # w
      BY <2>2, RoundKept DEF PInv, RoundsInv
    <2> QED
      BY <2>1, <2>2
  <1>2. Punctual'
    BY PunctualKept DEF PInv
  <1> QED
    BY <1>1, <1>2 DEF PInv, RoundsInv

\* A worker that is not busy before and after.
LEMMA NotBusy ==
  ASSUME PInv, NEW w \in Worker, pc'[w] # "busy", \A v \in Worker \ {w} : pc'[v] = pc[v]
  PROVE  BusyInv'
  <1>1. Busy' \subseteq Busy
    BY DEF Busy
  <1> QED
    BY <1>1, BusyKept DEF PInv

\* Steps of the sleepers.
LEMMA SleepersStep ==
  ASSUME PInv, TypeOK', NoLate, UNCHANGED wVars
  PROVE  PInv'
  <1>1. PICK w \in Worker : w = 0
    BY TimedAssumption DEF Worker
  <1>2. RoundInv(w)'
    BY RoundKept DEF PInv, RoundsInv, wVars
  <1>3. Busy' = Busy
    BY DEF Busy, wVars
  <1>4. BusyInv'
    BY <1>3, BusyKept DEF PInv
  <1> QED
    BY <1>2, <1>4, WorkerStep DEF wVars

LEMMA RunOwnIsPunctual ==
  ASSUME PInv, TypeOK', NEW w \in Worker, RunOwn(w)
  PROVE  PInv'
  <1> USE DEF RunOwn
  <1>0. TypeOK
    BY DEF PInv
  <1>1. pc[w] = "own" /\ slot[w] = 0
    BY DEF PInv, RoundsInv, RoundInv
  <1>2. CASE Fire(w, w) /\ UNCHANGED <<pc, slot>>
    <2>1. NoLate /\ cnt' = [cnt EXCEPT ![w] = @ + 1]
      BY <1>0, <1>2, FireIsNoLate
    <2>2. RoundInv(w)'
      BY <1>1, <1>2 DEF RoundInv
    <2>3. BusyInv'
      BY <1>1, <1>2, NotBusy
    <2> QED
      BY <1>2, <2>1, <2>2, <2>3, WorkerStep
  <1>3. CASE /\ pc' = [pc EXCEPT ![w] = IF cnt[w] = BatchSize THEN "next" ELSE "steal"]
             /\ UNCHANGED <<slot, pq, fired, signal, cnt>>
    <2>1. NoLate
      BY <1>3 DEF NoLate
    <2>2. pc'[w] = (IF cnt[w] = BatchSize THEN "next" ELSE "steal") /\ slot'[w] = 0 /\ cnt'[w] = cnt[w]
      BY <1>0, <1>1, <1>3 DEF TypeOK
    <2>3. pc'[w] = "next" => cnt'[w] # 0
      BY <2>2, TimedAssumption
    <2>4. 0..(slot'[w] - 1) = {}
      BY <2>2
    <2>5. RoundInv(w)'
      BY <2>2, <2>3, <2>4 DEF RoundInv
    <2>6. BusyInv'
      BY <1>0, <1>3, <2>2, NotBusy DEF TypeOK
    <2> QED
      BY <1>0, <1>3, <2>1, <2>5, <2>6, WorkerStep DEF TypeOK
  <1> QED
    BY <1>2, <1>3

LEMMA StealIsPunctual ==
  ASSUME PInv, TypeOK', NEW w \in Worker, Steal(w)
  PROVE  PInv'
  <1> DEFINE more == slot[w] < N /\ cnt[w] < BatchSize
  <1>0. TypeOK /\ RoundInv(w) /\ pc[w] = "steal"
    BY DEF PInv, RoundsInv, Steal
  <1>1. slot[w] \in Nat /\ cnt[w] \in Nat /\ w + slot[w] \in Nat
    <2>1. w \in Nat
      BY DEF Worker
    <2>2. slot[w] \in Nat /\ cnt[w] \in Nat
      BY <1>0, TimedAssumption DEF TypeOK
    <2> QED
      BY <2>1, <2>2
  <1>2. PICK p \in Worker : p = (w + slot[w]) % N
    BY <1>1, RemIsWorker
  <1>3. CASE more /\ Fire(w, p) /\ slot' = [slot EXCEPT ![w] = @ + 1] /\ UNCHANGED pc
    <2>1. NoLate /\ cnt' = [cnt EXCEPT ![w] = @ + 1]
      BY <1>0, <1>3, FireIsNoLate DEF Steal
    <2>2. cnt'[w] # 0
      BY <1>0, <1>1, <2>1 DEF TypeOK
    <2>3. RoundInv(w)'
      BY <1>0, <1>3, <2>2 DEF RoundInv
    <2>4. BusyInv'
      BY <1>0, <1>3, NotBusy
    <2> QED
      BY <1>0, <1>3, <2>1, <2>3, <2>4, WorkerStep DEF Steal, TypeOK
  <1>4. CASE more /\ Due(p) = {} /\ slot' = [slot EXCEPT ![w] = @ + 1] /\ UNCHANGED <<pc, pq, fired, signal, cnt>>
    <2>1. NoLate
      BY <1>4 DEF NoLate, Steal
    <2>2. NoneOverdue(p)
      BY <1>0, <1>4, NothingDue
    <2>3. slot'[w] = slot[w] + 1
      BY <1>0, <1>4 DEF TypeOK
    <2>4. ASSUME cnt'[w] = 0, NEW i \in 0..(slot'[w] - 1) PROVE NoneOverdue((w + i) % N)'
      <3>1. i \in 0..(slot[w] - 1) \/ i = slot[w]
        BY <1>1, <2>3
      <3>2. w + i \in Nat
        BY DEF Worker
      <3>3. PICK r \in Worker : r = (w + i) % N
        BY <3>2, RemIsWorker
      <3>4. NoneOverdue(r)
        BY <1>0, <1>2, <1>4, <2>2, <2>4, <3>1, <3>3 DEF RoundInv
      <3>5. NoneOverdue(r)'
        BY <1>0, <2>1, <3>4, NoneOverdueKept
      <3> QED
        BY <3>3, <3>5
    <2>5. RoundInv(w)'
      BY <1>0, <1>4, <2>4 DEF RoundInv
    <2>6. BusyInv'
      BY <1>0, <1>4, NotBusy
    <2> QED
      BY <1>0, <1>4, <2>1, <2>5, <2>6, WorkerStep DEF Steal, TypeOK
  <1>5. CASE ~more /\ pc' = [pc EXCEPT ![w] = "next"] /\ slot' = [slot EXCEPT ![w] = 0]
             /\ UNCHANGED <<pq, fired, signal, cnt>>
    <2>1. NoLate
      BY <1>5 DEF NoLate, Steal
    <2>2. pc'[w] = "next" /\ slot'[w] = 0
      BY <1>0, <1>5 DEF TypeOK
    <2>3. ASSUME cnt'[w] = 0, NEW r \in Worker PROVE NoneOverdue(r)'
      <3>1. slot[w] = N
        BY <1>0, <1>5, <2>3, TimedAssumption DEF TypeOK
      <3>2. PICK i \in 0..(N - 1) : (w + i) % N = r
        BY SlotOf
      <3>3. NoneOverdue(r)
        BY <1>0, <1>5, <2>3, <3>1, <3>2 DEF RoundInv
      <3> QED
        BY <1>0, <2>1, <3>3, NoneOverdueKept
    <2>4. RoundInv(w)'
      BY <2>2, <2>3 DEF RoundInv
    <2>5. BusyInv'
      BY <1>0, <1>5, <2>2, NotBusy DEF TypeOK
    <2> QED
      BY <1>0, <1>5, <2>1, <2>4, <2>5, WorkerStep DEF Steal, TypeOK
  <1> QED
    BY <1>2, <1>3, <1>4, <1>5 DEF Steal

LEMMA EndOfRoundIsPunctual ==
  ASSUME PInv, TypeOK', NEW w \in Worker, EndOfRound(w)
  PROVE  PInv'
  <1> USE DEF EndOfRound
  <1>0. TypeOK /\ RoundInv(w) /\ pc[w] = "next"
    BY DEF PInv, RoundsInv
  <1>1. NoLate /\ slot'[w] = 0
    BY <1>0 DEF NoLate, RoundInv
  <1>2. CASE pc' = [pc EXCEPT ![w] = "own"] /\ UNCHANGED wake
    <2>1. pc'[w] = "own"
      BY <1>0, <1>2 DEF TypeOK
    <2>2. RoundInv(w)'
      BY <1>1, <2>1 DEF RoundInv
    <2>3. BusyInv'
      BY <1>0, <1>2, <2>1, NotBusy DEF TypeOK
    <2> QED
      BY <1>0, <1>1, <1>2, <2>2, <2>3, WorkerStep DEF TypeOK
  <1>3. CASE cnt[w] = 0 /\ pc' = [pc EXCEPT ![w] = "poll"] /\ wake' = [wake EXCEPT ![w] = PollTime(w)]
    <2>1. pc'[w] = "poll" /\ wake'[w] = PollTime(w)
      BY <1>0, <1>3 DEF TypeOK
    <2>2. now \in Nat /\ PollMax \in Nat /\ PollTime(w) \in Nat
      BY <1>0, PollTimeBounded, TimedAssumption DEF TypeOK, Never
    <2>3. PollTime(w) <= now + PollMax
      <3>1. CASE PollTime(w) = now + PollMax
        BY <2>2, <3>1
      <3>2. CASE PollTime(w) = NextScheduleTime(w) /\ NextScheduleTime(w) < now + PollMax
        BY <2>2, <3>2
      <3> QED
        BY <3>1, <3>2 DEF PollTime
    <2>4. ASSUME NEW p \in Worker, NEW t \in pq[p] PROVE PollTime(w) <= ex[t] + PollMax
      <3>1. now <= ex[t] /\ ex[t] \in Nat
        BY <1>0, <1>3 DEF RoundInv, NoneOverdue, TypeOK
      <3> QED
        BY <2>2, <2>3, <3>1
    <2>5. RoundInv(w)'
      BY <1>1, <2>1, <2>3, <2>4 DEF RoundInv
    <2>6. BusyInv'
      BY <1>0, <1>3, <2>1, NotBusy DEF TypeOK
    <2> QED
      BY <1>0, <1>1, <1>3, <2>5, <2>6, WorkerStep DEF TypeOK
  <1> QED
    BY <1>2, <1>3

LEMMA WakeIsPunctual ==
  ASSUME PInv, TypeOK', NEW w \in Worker, Wake(w)
  PROVE  PInv'
  <1> USE DEF Wake
  <1>0. TypeOK /\ RoundInv(w)
    BY DEF PInv, RoundsInv
  <1>1. NoLate /\ slot'[w] = 0 /\ pc'[w] = "own"
    BY <1>0 DEF NoLate, RoundInv, TypeOK
  <1>2. RoundInv(w)'
    BY <1>1 DEF RoundInv
  <1>3. BusyInv'
    BY <1>0, <1>1, NotBusy DEF TypeOK
  <1> QED
    BY <1>0, <1>1, <1>2, <1>3, WorkerStep DEF TypeOK

LEMMA ComputeIsPunctual ==
  ASSUME PInv, TypeOK', NEW w \in Worker, Compute(w)
  PROVE  PInv'
  <1> USE DEF Compute
  <1>0. TypeOK /\ RoundInv(w)
    BY DEF PInv, RoundsInv
  <1>1. NoLate /\ slot'[w] = 0 /\ pc'[w] \in {"own", "busy"}
    BY <1>0 DEF NoLate, RoundInv, TypeOK
  <1>2. RoundInv(w)'
    BY <1>1 DEF RoundInv
  <1>3. BusyInv'
    <2>1. CASE pc'[w] = "own"
      BY <1>0, <2>1, NotBusy DEF TypeOK
    <2>2. CASE Cardinality({v \in Worker : pc[v] = "busy"}) < MaxBusy /\ pc' = [pc EXCEPT ![w] = "busy"]
      <3>1. Busy' = Busy \cup {w}
        BY <1>0, <2>2 DEF Busy, TypeOK
      <3>2. Cardinality(Busy) < MaxBusy
        BY <2>2 DEF Busy
      <3>3. Cardinality(Busy \cup {w}) <= Cardinality(Busy) + 1 /\ IsFiniteSet(Busy) /\ Cardinality(Busy) \in Nat
        BY <1>0, BusyCounts
      <3>4. Cardinality(Busy \cup {w}) \in Nat
        BY <3>3, FS_AddElement, FS_CardinalityType
      <3>5. Cardinality(Busy \cup {w}) <= MaxBusy
        BY <3>2, <3>3, <3>4, TimedAssumption
      <3> QED
        BY <3>1, <3>5 DEF BusyInv
    <2> QED
      BY <1>0, <2>1, <2>2 DEF TypeOK
  <1> QED
    BY <1>0, <1>1, <1>2, <1>3, WorkerStep DEF TypeOK

\* Time passes only while a worker that is not busy is in an epoll_wait that has not ended.
LEMMA TickIsPunctual ==
  ASSUME PInv, TypeOK', Tick
  PROVE  PInv'
  <1> USE DEF Tick
  <1>0. TypeOK /\ UNCHANGED wVars
    BY DEF PInv
  <1>1. PICK w \in Worker : pc[w] # "busy"
    <2>0. PICK z \in Worker : z = 0
      BY TimedAssumption DEF Worker
    <2>1. IsFiniteSet(Worker) /\ Cardinality(Worker) = N
      BY <1>0, BusyCounts
    <2>2. Cardinality(Busy) # Cardinality(Worker)
      <3>1. Cardinality(Busy) \in Nat
        BY <1>0, BusyCounts
      <3> QED
        BY <2>1, <3>1, TimedAssumption DEF PInv, BusyInv
    <2>3. Busy # Worker
      BY <2>2
    <2> QED
      BY <2>3 DEF Busy
  <1>2. pc[w] = "poll" /\ now < wake[w]
    BY <1>1
  <1>3. now \in Nat /\ wake[w] \in Nat /\ now' = now + 1 /\ PollMax \in Nat
    BY <1>0, TimedAssumption DEF TypeOK, Never
  <1>4. Punctual'
    <2> SUFFICES ASSUME NEW v \in Worker, NEW t \in pq[v] PROVE now + 1 <= ex[t] + PollMax
      BY <1>3 DEF Punctual
    <2>1. wake[w] <= ex[t] + PollMax
      BY <1>2 DEF PInv, RoundsInv, RoundInv
    <2>2. ex[t] \in Nat
      BY <1>0 DEF TypeOK
    <2> QED
      BY <1>2, <1>3, <2>1, <2>2
  <1>5. ASSUME NEW v \in Worker PROVE RoundInv(v)'
    <2>1. RoundInv(v) /\ pc'[v] = pc[v] /\ slot'[v] = slot[v] /\ wake'[v] = wake[v]
      BY <1>0 DEF PInv, RoundsInv, wVars
    <2>2. pc[v] \in {"busy", "poll"}
      OBVIOUS
    <2>3. wake[v] <= now + PollMax => wake[v] <= now' + PollMax
      BY <1>0, <1>3, TimedAssumption DEF TypeOK, Never
    <2> QED
      BY <2>1, <2>2, <2>3 DEF RoundInv
  <1>6. Busy' = Busy
    BY <1>0 DEF Busy, wVars
  <1>7. BusyInv'
    BY <1>6 DEF PInv, BusyInv
  <1> QED
    BY <1>4, <1>5, <1>7 DEF PInv, RoundsInv

LEMMA StepIsPunctual == PInv /\ [Next]_vars => PInv'
  <1> SUFFICES ASSUME PInv, [Next]_vars PROVE PInv'
    OBVIOUS
  <1>0. TypeOK /\ TypeOK'
    BY StepKeepsTypes DEF PInv
  <1>1. ASSUME NEW s \in Sleeper, NEW d \in Delay, Sleep(s, d) PROVE PInv'
    <2>1. tid \in Timer /\ tid \in Nat /\ tid % N \in Worker
      BY <1>0, <1>1, RemIsWorker, TimedAssumption DEF TypeOK, Timer, Sleep
    <2>2. now <= now + d
      BY <1>0, TimedAssumption DEF TypeOK
    <2>3. ASSUME NEW p \in Worker, NEW t \in pq'[p]
          PROVE  (t \in pq[p] /\ ex'[t] = ex[t]) \/ now <= ex'[t]
      <3>1. CASE t = tid
        BY <1>0, <1>1, <2>1, <2>2, <3>1 DEF Sleep, TypeOK
      <3>2. CASE t # tid
        <4>1. t \in pq[p]
          BY <1>0, <1>1, <2>1, <2>3, <3>2 DEF Sleep, Push, TypeOK
        <4>2. ex'[t] = ex[t]
          BY <1>0, <1>1, <2>1, <3>2, <4>1 DEF Sleep, TypeOK
        <4> QED
          BY <4>1, <4>2
      <3> QED
        BY <3>1, <3>2
    <2>4. NoLate
      BY <1>1, <2>3 DEF NoLate, Sleep
    <2> QED
      BY <1>0, <1>1, <2>4, SleepersStep DEF Sleep
  <1>2. ASSUME NEW s \in Sleeper, Awake(s) PROVE PInv'
    <2>1. NoLate
      BY <1>2 DEF NoLate, Awake
    <2> QED
      BY <1>0, <1>2, <2>1, SleepersStep DEF Awake
  <1>3. ASSUME NEW w \in Worker, RunOwn(w) \/ Steal(w) PROVE PInv'
    BY <1>0, <1>3, RunOwnIsPunctual, StealIsPunctual
  <1>4. ASSUME NEW w \in Worker, EndOfRound(w) \/ Wake(w) \/ Compute(w) PROVE PInv'
    BY <1>0, <1>4, EndOfRoundIsPunctual, WakeIsPunctual, ComputeIsPunctual
  <1>5. CASE Tick
    BY <1>0, <1>5, TickIsPunctual
  <1>6. CASE UNCHANGED vars
    <2>1. NoLate
      BY <1>6 DEF NoLate, vars
    <2> QED
      BY <1>0, <1>6, <2>1, SleepersStep DEF vars
  <1> QED
    BY <1>1, <1>2, <1>3, <1>4, <1>5, <1>6 DEF Next

\* No timer is late by more than one epoll_wait (the 50 ms of Context::_run), for any
\* number of workers and timers, as long as one worker is not busy: run_timeout takes
\* the timers of the others, and a worker that found one due does not wait.
THEOREM TimersArePunctual == Spec => []Punctual
  <1>1. Init => PInv
    <2> SUFFICES ASSUME Init PROVE PInv
      OBVIOUS
    <2>1. TypeOK
      BY TimedAssumption DEF Init, TypeOK, Timer, Worker, Never
    <2>2. Punctual
      BY DEF Init, Punctual
    <2>3. RoundsInv
      BY DEF Init, RoundsInv, RoundInv
    <2>4. Busy = {}
      BY DEF Init, Busy
    <2>5. BusyInv
      BY <2>4, FS_EmptySet, TimedAssumption DEF BusyInv
    <2> QED
      BY <2>1, <2>2, <2>3, <2>5 DEF PInv
  <1>2. PInv => Punctual
    BY DEF PInv
  <1> QED
    BY <1>1, <1>2, StepIsPunctual, PTL DEF Spec
================================================================================
