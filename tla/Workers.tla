--------------------------------- MODULE Workers ---------------------------------
(***************************************************************************)
(* One Context: its workers, the pool and the run queue each of them has   *)
(* (SchedContext::Allocator and Scheduler), spawn from any thread, work    *)
(* stealing, the two barriers, final_schedule, shutdown and destruction.   *)
(*                                                                         *)
(* Tasks are numbered as create_scheduled does; task t belongs to the pool *)
(* and to the queue of worker t % N, whoever executes it.  What a          *)
(* coroutine does is a free choice: return, yield, suspend on a condition  *)
(* (any condition: Semaphore models those), or spawn.  A worker's timers   *)
(* and events are the step Poll here; modules Timed and Socket model them. *)
(*                                                                         *)
(* pc of a worker:  start  Context::_run before the first barrier          *)
(*   own     run_scheduled takes from its own queue                        *)
(*   steal   run_scheduled takes one task from each queue in turn          *)
(*   poll    run_timeout, run_handler, and the test of _finished           *)
(*   stop    at the second barrier                                         *)
(*   final   in final_schedule                                             *)
(*   exit    returned                                                      *)
(***************************************************************************)
EXTENDS Naturals, Lists

CONSTANTS
  N,          \* n_worker
  MaxTask,    \* bound: tasks spawned
  BatchSize,  \* the batch_size run_scheduled is called with
  Client,     \* the threads outside that spawn into the context
  NoTask      \* an empty Handler

Worker == 0..(N - 1)
Task == 0..(MaxTask - 1)
Thread == Client \cup Worker

ASSUME WorkersAssumption ==
  /\ N \in Nat \ {0}
  /\ MaxTask \in Nat
  /\ BatchSize \in Nat \ {0}
  /\ Client \cap Worker = {}
  /\ NoTask \notin Task

VARIABLES
  main,      \* the Context: new, up, closing, joined, noevent, gone
  pc,        \* where each worker is
  cnt,       \* its cnt in run_scheduled
  slot,      \* its i in the stealing loop, and its place in final_schedule
  run,       \* its _running_task
  q,         \* the run queue of each worker
  pool,      \* the _pool of each worker
  tid,       \* _tid
  creating,  \* the task a thread has created and not pushed yet
  st,        \* none; fresh, not executed yet; alive; done; dead, its frame was
             \* destroyed
  cond       \* the tasks whose waiting_cond is set

wVars == <<pc, cnt, slot>>
taskVars == <<q, pool, tid, creating, st, cond>>
vars == <<main, wVars, run, taskVars>>

Types ==
  /\ main \in {"new", "up", "closing", "joined", "noevent", "gone"}
  /\ pc \in [Worker -> {"start", "own", "steal", "poll", "stop", "final", "exit"}]
  /\ cnt \in [Worker -> 0..BatchSize]
  /\ slot \in [Worker -> Nat]
  /\ run \in [Worker -> Task \cup {NoTask}]
  /\ q \in [Worker -> Seq(Task)]
  /\ pool \in [Worker -> Seq(Task)]
  /\ tid \in 0..MaxTask
  /\ creating \in [Thread -> Task \cup {NoTask}]
  /\ st \in [Task -> {"none", "fresh", "alive", "done", "dead"}]
  /\ cond \in SUBSET Task

\* The stealing loop and final_schedule stay within the workers and the pool they walk,
\* whichever tasks are created and finished meanwhile.
InRange ==
  \A w \in Worker :
    /\ pc[w] = "own" => slot[w] = 0
    /\ pc[w] = "steal" => slot[w] <= N
    /\ pc[w] = "final" => slot[w] <= Len(pool[w])

TypeOK == Types /\ InRange

Init ==
  /\ main = "new"
  /\ pc = [w \in Worker |-> "start"]
  /\ cnt = [w \in Worker |-> 0]
  /\ slot = [w \in Worker |-> 0]
  /\ run = [w \in Worker |-> NoTask]
  /\ q = [w \in Worker |-> <<>>]
  /\ pool = [w \in Worker |-> <<>>]
  /\ tid = 0
  /\ creating = [x \in Thread |-> NoTask]
  /\ st = [t \in Task |-> "none"]
  /\ cond = {}

Home(t) == t % N

-----------------------------------------------------------------------------
(* The context.                                                            *)

\* Context::startup.
Startup ==
  /\ main = "new"
  /\ main' = "up"
  /\ UNCHANGED <<wVars, run, taskVars>>

\* Context::shutdown up to the joins.
Shutdown ==
  /\ main = "up"
  /\ main' = "closing"
  /\ UNCHANGED <<wVars, run, taskVars>>

\* shutdown returns: every worker is joined.
Join ==
  /\ main = "closing"
  /\ \A w \in Worker : pc[w] = "exit"
  /\ main' = "joined"
  /\ UNCHANGED <<wVars, run, taskVars>>

\* ~Context, when no thread uses the context any more: first the event and the timed
\* context are destroyed.
DestroyEventContext ==
  /\ main = "joined"
  /\ \A x \in Thread : creating[x] = NoTask
  /\ main' = "noevent"
  /\ UNCHANGED <<wVars, run, taskVars>>

\* Then ~SchedContext destroys the pools, with the frames that are left in them: those
\* that were in a run queue at the end.  Their guards find no event context any more.
DestroySchedContext ==
  /\ main = "noevent"
  /\ main' = "gone"
  /\ st' = [t \in Task |-> IF st[t] \in {"fresh", "alive"} THEN "dead" ELSE st[t]]
  /\ pool' = [w \in Worker |-> <<>>]
  /\ UNCHANGED <<wVars, run, q, tid, creating, cond>>

\* The first barrier of _run: every worker has registered its signal.
StartBarrier ==
  /\ main # "new"
  /\ \A w \in Worker : pc[w] = "start"
  /\ pc' = [w \in Worker |-> "poll"]
  /\ UNCHANGED <<main, cnt, slot, run, taskVars>>

\* Mutant of Poll: a worker that finds _finished set does not wait for the others.
PollThenFinal(w) ==
  /\ pc[w] = "poll"
  /\ pc' = [pc EXCEPT ![w] = IF main = "up" THEN "own" ELSE "final"]
  /\ cnt' = [cnt EXCEPT ![w] = 0]
  /\ slot' = [slot EXCEPT ![w] = 0]
  /\ UNCHANGED <<main, run, taskVars>>

\* Timers, events, and the test of _finished.
Poll(w) ==
  /\ pc[w] = "poll"
  /\ pc' = [pc EXCEPT ![w] = IF main = "up" THEN "own" ELSE "stop"]
  /\ cnt' = [cnt EXCEPT ![w] = 0]
  /\ slot' = [slot EXCEPT ![w] = 0]
  /\ UNCHANGED <<main, run, taskVars>>

\* The second barrier.
StopBarrier ==
  /\ \A w \in Worker : pc[w] = "stop"
  /\ pc' = [w \in Worker |-> "final"]
  /\ UNCHANGED <<main, cnt, slot, run, taskVars>>

-----------------------------------------------------------------------------
(* Tasks.                                                                  *)

\* Whether thread x is at a place where it may call spawn or notify.
CanCall(x) == creating[x] = NoTask /\ (x \in Worker => run[x] # NoTask)

\* create_scheduled up to Allocator::create: the next number, a task in its pool.
Create(x) ==
  /\ main \in {"up", "closing", "joined"}
  /\ tid < MaxTask
  /\ CanCall(x)
  /\ tid' = tid + 1
  /\ pool' = [pool EXCEPT ![Home(tid)] = Append(@, tid)]
  /\ creating' = [creating EXCEPT ![x] = tid]
  /\ st' = [st EXCEPT ![tid] = "fresh"]
  /\ UNCHANGED <<main, wVars, run, q, cond>>

\* Its Scheduler::push.
Push(x) ==
  LET t == creating[x] IN
  /\ t # NoTask
  /\ q' = [q EXCEPT ![Home(t)] = Append(@, t)]
  /\ creating' = [creating EXCEPT ![x] = NoTask]
  /\ UNCHANGED <<main, wVars, run, pool, tid, st, cond>>

\* The tasks that are linked in the condition they wait for.
Suspended ==
  {t \in cond : st[t] = "alive" /\ t \notin ToSet(q[Home(t)]) /\ \A w \in Worker : run[w] # t}

\* A condition is notified, by whichever thread or guard: _schedule_from_this pushes t.
Notify(t) ==
  /\ t \in Suspended
  /\ main # "gone"
  /\ q' = [q EXCEPT ![Home(t)] = Append(@, t)]
  /\ UNCHANGED <<main, wVars, run, pool, tid, creating, st, cond>>

\* The start of _execute: t is the running task and waits for nothing.
Execute(w, t) ==
  /\ run' = [run EXCEPT ![w] = t]
  /\ cond' = cond \ {t}
  /\ st' = [st EXCEPT ![t] = "alive"]
  /\ cnt' = [cnt EXCEPT ![w] = @ + 1]

\* Mutant of Pop: the newest task is taken first.
PopNewest(w, p) ==
  /\ q[p] # <<>>
  /\ q' = [q EXCEPT ![p] = Front(@)]
  /\ Execute(w, Last(q[p]))

\* Mutant of Pop: the task stays linked while it is executed.
PopLinked(w, p) ==
  /\ q[p] # <<>>
  /\ Execute(w, Head(q[p]))
  /\ UNCHANGED q

\* Scheduler::pop of worker w from queue p.
Pop(w, p) ==
  /\ q[p] # <<>>
  /\ q' = [q EXCEPT ![p] = Tail(@)]
  /\ Execute(w, Head(q[p]))

\* Mutant of RunOwn: the batch has no limit.
RunOwnUnlimited(w) ==
  /\ pc[w] = "own" /\ run[w] = NoTask
  /\ \/ Pop(w, w) /\ UNCHANGED pc
     \/ /\ q[w] = <<>>
        /\ pc' = [pc EXCEPT ![w] = "steal"]
        /\ UNCHANGED <<q, run, cond, st, cnt>>
  /\ UNCHANGED <<main, slot, pool, tid, creating>>

\* The first loop of run_scheduled.
RunOwn(w) ==
  /\ pc[w] = "own" /\ run[w] = NoTask
  /\ \/ cnt[w] < BatchSize /\ Pop(w, w) /\ UNCHANGED pc
     \/ /\ cnt[w] = BatchSize
        /\ pc' = [pc EXCEPT ![w] = "poll"]
        /\ UNCHANGED <<q, run, cond, st, cnt>>
     \/ /\ cnt[w] < BatchSize /\ q[w] = <<>>
        /\ pc' = [pc EXCEPT ![w] = "steal"]
        /\ UNCHANGED <<q, run, cond, st, cnt>>
  /\ UNCHANGED <<main, slot, pool, tid, creating>>

\* Mutant of Steal: the limit of the batch is not tested.
StealUnlimited(w) ==
  LET p == (w + slot[w]) % N IN
  /\ pc[w] = "steal" /\ run[w] = NoTask
  /\ \/ slot[w] < N /\ Pop(w, p)
        /\ slot' = [slot EXCEPT ![w] = @ + 1] /\ UNCHANGED pc
     \/ /\ slot[w] = N \/ q[p] = <<>>
        /\ pc' = [pc EXCEPT ![w] = "poll"]
        /\ UNCHANGED <<slot, q, run, cond, st, cnt>>
  /\ UNCHANGED <<main, pool, tid, creating>>

\* The second loop: one task of every queue, its own first.
Steal(w) ==
  LET p == (w + slot[w]) % N IN
  /\ pc[w] = "steal" /\ run[w] = NoTask
  /\ \/ slot[w] < N /\ cnt[w] < BatchSize /\ Pop(w, p)
        /\ slot' = [slot EXCEPT ![w] = @ + 1] /\ UNCHANGED pc
     \/ /\ slot[w] < N /\ cnt[w] < BatchSize /\ q[p] = <<>>
        /\ slot' = [slot EXCEPT ![w] = @ + 1]
        /\ UNCHANGED <<pc, q, run, cond, st, cnt>>
     \/ /\ slot[w] = N \/ cnt[w] = BatchSize
        /\ pc' = [pc EXCEPT ![w] = "poll"]
        /\ UNCHANGED <<slot, q, run, cond, st, cnt>>
  /\ UNCHANGED <<main, pool, tid, creating>>

\* The rest of _execute: the coroutine returned and Allocator::destroy frees it.
Done(w) ==
  LET t == run[w] IN
  /\ t # NoTask /\ creating[w] = NoTask
  /\ pool' = [pool EXCEPT ![Home(t)] = Unlink(@, t)]
  /\ st' = [st EXCEPT ![t] = "done"]
  /\ run' = [run EXCEPT ![w] = NoTask]
  /\ UNCHANGED <<main, wVars, q, tid, creating, cond>>

\* It yielded, and goes back to its queue.
Yield(w) ==
  LET t == run[w] IN
  /\ t # NoTask /\ creating[w] = NoTask
  /\ q' = [q EXCEPT ![Home(t)] = Append(@, t)]
  /\ run' = [run EXCEPT ![w] = NoTask]
  /\ UNCHANGED <<main, wVars, pool, tid, creating, st, cond>>

\* It waits for a condition, which links it.
Suspend(w) ==
  LET t == run[w] IN
  /\ t # NoTask /\ creating[w] = NoTask
  /\ cond' = cond \cup {t}
  /\ run' = [run EXCEPT ![w] = NoTask]
  /\ UNCHANGED <<main, wVars, q, pool, tid, creating, st>>

\* Mutant of FinalTask: a task that was notified is left in its queue.
FinalTaskNotified(w) ==
  /\ pc[w] = "final"
  /\ slot[w] < Len(pool[w])
  /\ LET t == pool[w][slot[w] + 1] IN
     IF t \in Suspended THEN st' = [st EXCEPT ![t] = "dead"] ELSE UNCHANGED st
  /\ slot' = [slot EXCEPT ![w] = @ + 1]
  /\ UNCHANGED <<main, pc, cnt, run, q, pool, tid, creating, cond>>

\* Mutant of FinalTask: the frame is destroyed, and the task not unlinked.
FinalTaskUnremoved(w) ==
  /\ pc[w] = "final"
  /\ slot[w] < Len(pool[w])
  /\ LET t == pool[w][slot[w] + 1] IN
     IF t \in cond THEN st' = [st EXCEPT ![t] = "dead"] ELSE UNCHANGED st
  /\ slot' = [slot EXCEPT ![w] = @ + 1]
  /\ UNCHANGED <<main, pc, cnt, run, q, pool, tid, creating, cond>>

\* An iteration of final_schedule: a task that waits, notified or not, is unlinked and
\* its frame destroyed.  _remove may pass the wake-up on to another task of the condition;
\* the guards of the frame notify as any thread does (Notify).
FinalTask(w) ==
  /\ pc[w] = "final"
  /\ slot[w] < Len(pool[w])
  /\ LET t == pool[w][slot[w] + 1] IN
     IF t \in cond
     THEN /\ \E next \in {NoTask} \cup (Suspended \ {t}) :
               q' = [p \in Worker |-> IF next # NoTask /\ p = Home(next)
                                      THEN Append(Unlink(q[p], t), next)
                                      ELSE Unlink(q[p], t)]
          /\ st' = [st EXCEPT ![t] = "dead"]
     ELSE UNCHANGED <<q, st>>
  /\ slot' = [slot EXCEPT ![w] = @ + 1]
  /\ UNCHANGED <<main, pc, cnt, run, pool, tid, creating, cond>>

\* The end of final_schedule and of _run.
Exit(w) ==
  /\ pc[w] = "final"
  /\ slot[w] >= Len(pool[w])
  /\ pc' = [pc EXCEPT ![w] = "exit"]
  /\ UNCHANGED <<main, cnt, slot, run, taskVars>>

-----------------------------------------------------------------------------
Leave(w) == Done(w) \/ Yield(w) \/ Suspend(w)

Next ==
  \/ Startup \/ Shutdown \/ Join \/ DestroyEventContext \/ DestroySchedContext
  \/ StartBarrier \/ StopBarrier
  \/ \E x \in Thread : Create(x) \/ Push(x)
  \/ \E t \in Task : Notify(t)
  \/ \E w \in Worker :
       Poll(w) \/ RunOwn(w) \/ Steal(w) \/ Leave(w) \/ FinalTask(w) \/ Exit(w)

Spec == Init /\ [][Next]_vars

\* Threads that run make progress; and, as the user's part, every coroutine that is
\* executed returns, yields or suspends in the end.  Nobody needs to notify.
Fairness ==
  /\ WF_vars(StartBarrier) /\ WF_vars(StopBarrier) /\ WF_vars(Join)
  /\ \A x \in Thread : WF_vars(Push(x))
  /\ \A w \in Worker :
       /\ WF_vars(Poll(w)) /\ WF_vars(RunOwn(w)) /\ WF_vars(Steal(w))
       /\ WF_vars(Leave(w)) /\ WF_vars(FinalTask(w) \/ Exit(w))

FairSpec == Spec /\ Fairness

-----------------------------------------------------------------------------
(* Properties.                                                             *)

Queued(t) == \E w \in Worker : t \in ToSet(q[w])

Running(t) == \E w \in Worker : run[w] = t

\* The places a task can be executed from.
Places(t) ==
  {<<"run", w>> : w \in {v \in Worker : run[v] = t}}
    \cup {<<"create", x>> : x \in {y \in Thread : creating[y] = t}}
    \cup UNION {{<<"queue", w, i>> : i \in {j \in DOMAIN q[w] : q[w][j] = t}} : w \in Worker}

\* No task is executed by two workers, or queued while it is executed, or queued
\* twice, though any worker may take it and any thread may notify it; and none that
\* is alive and does not wait is lost.
OnePlace ==
  \A t \in Task : st[t] \in {"fresh", "alive"} =>
    IF t \in Suspended THEN Places(t) = {} ELSE Cardinality(Places(t)) = 1

\* What a queue or a worker refers to is in its home pool, with its frame: a task
\* that was destroyed is not linked anywhere.
NoDangling ==
  main # "gone" =>
    \A t \in Task : Queued(t) \/ Running(t) =>
      st[t] \in {"fresh", "alive"} /\ t \in ToSet(pool[Home(t)])

\* While a worker destroys frames in final_schedule no worker executes a task.
QuietWhenFinal ==
  (\E w \in Worker : pc[w] \in {"final", "exit"}) => \A v \in Worker : run[v] = NoTask

\* When shutdown has returned no task is left that waits for a condition: the conditions
\* of other contexts keep no link into this one, and the guards of a coroutine that waited
\* have run while the event context was there.
NoWaiterLeft ==
  main \in {"joined", "noevent", "gone"} => \A t \in cond : st[t] # "alive"

\* A task in a run queue is executed, however many others yield and yield again,
\* unless the context is shut down.
QueuedIsExecuted ==
  \A t \in Task : Queued(t) ~> (Running(t) \/ main # "up")

\* shutdown() returns, whatever is queued, executed or waiting.
ShutdownReturns == (main = "closing") ~> (main = "joined")
================================================================================
