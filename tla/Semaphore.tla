------------------------------- MODULE Semaphore -------------------------------
(***************************************************************************)
(* One cgo::Semaphore (a cgo::Mutex is one with a single permit) and the   *)
(* SchedContext::Condition inside it, shared by coroutines (tasks) of      *)
(* several contexts, any of which may be shut down.                        *)
(*                                                                         *)
(* Granularity.  Everything aquire() and release() do happens under the    *)
(* semaphore's spinlock _mtx; Condition::_remove, run by a worker that     *)
(* finalises its context, takes only the condition's own spinlock.  So a   *)
(* step is one critical section of the condition, and a variable of the    *)
(* model says who holds _mtx between two of them.  Which worker executes   *)
(* a task is left out: a context has at least as many workers as tasks.    *)
(*                                                                         *)
(* A task's state in st:                                                   *)
(*   ready    in a run queue, not waiting (fresh, or after yield())        *)
(*   running  its code is being executed by a worker                       *)
(*   aquire   inside aquire(), holding _mtx, about to test _vacant         *)
(*   blocked  linked in the condition's _blocked list                      *)
(*   woken    notified: back in a run queue, waiting_cond still set        *)
(*   resume   executed again, about to take _mtx at the end of wait()      *)
(*   release  inside release(), holding _mtx, _vacant already incremented  *)
(*   parked   suspended on some other condition                            *)
(*   destroy  taken by final_schedule or the context's destructor, its     *)
(*            frame about to be destroyed                                  *)
(*   unwind   like release, called by a DeferGuard of the destroyed frame  *)
(*   done, dead   returned, destroyed                                      *)
(***************************************************************************)
EXTENDS Naturals, FiniteSets, Lists

CONSTANTS
  Task,       \* the coroutines that use the semaphore
  Context,    \* the contexts they run in
  CtxOf,      \* the context each task was spawned in
  Guarded,    \* the tasks that release through a DeferGuard
  Stoppable,  \* the contexts that may be shut down
  Permits,    \* the count the semaphore is constructed with
  MaxPost,    \* bound: releases by a timer or event callback (not a task)
  MaxBatch,   \* bound: tasks a stopping context's workers still execute
  NoCtx,      \* nullptr, for _scheduled_ctx
  NoOne,      \* _mtx is free
  Poster      \* _mtx is held by a callback

ASSUME SemaphoreAssumption ==
  /\ IsFiniteSet(Task)
  /\ CtxOf \in [Task -> Context]
  /\ Guarded \subseteq Task
  /\ Stoppable \subseteq Context
  /\ Permits \in Nat
  /\ MaxPost \in Nat
  /\ MaxBatch \in Nat
  /\ NoCtx \notin Context
  /\ NoOne \notin Task
  /\ Poster \notin Task
  /\ Poster # NoOne

VARIABLES
  vacant,         \* Semaphore::_vacant
  mtx,            \* holder of Semaphore::_mtx
  blocked,        \* Condition::_blocked_head .. _blocked_tail
  scheduled_ctx,  \* Condition::_scheduled_ctx
  st,             \* state of each task
  holds,          \* the tasks that own a permit
  posted,         \* number of releases by callbacks
  ctx,            \* open, stopping (_finished set), final (past the barrier), closed
  batch           \* executions left to the workers of a stopping context

semVars == <<vacant, mtx, blocked, scheduled_ctx>>
vars == <<vacant, mtx, blocked, scheduled_ctx, st, holds, posted, ctx, batch>>

TaskState == {"ready", "running", "aquire", "blocked", "woken", "resume", "release",
              "parked", "destroy", "unwind", "done", "dead"}

Executing == {"running", "aquire", "resume", "release"}

TypeOK ==
  /\ vacant \in Nat
  /\ mtx \in Task \cup {NoOne, Poster}
  /\ blocked \in Seq(Task)
  /\ scheduled_ctx \in Context \cup {NoCtx}
  /\ st \in [Task -> TaskState]
  /\ holds \in SUBSET Task
  /\ posted \in 0..MaxPost
  /\ ctx \in [Context -> {"open", "stopping", "final", "closed"}]
  /\ batch \in [Context -> 0..MaxBatch]

Init ==
  /\ vacant = Permits
  /\ mtx = NoOne
  /\ blocked = <<>>
  /\ scheduled_ctx = NoCtx
  /\ st = [t \in Task |-> "ready"]
  /\ holds = {}
  /\ posted = 0
  /\ ctx = [c \in Context |-> "open"]
  /\ batch = [c \in Context |-> 0]

-----------------------------------------------------------------------------
(* The condition.                                                          *)

\* Condition::_schedule_from_this: move the first of the waiters q, if any, to
\* its run queue; s is st after the caller's own changes.
ScheduleFromThis(q, s) ==
  \/ /\ q = <<>>
     /\ blocked' = q
     /\ st' = s
     /\ UNCHANGED scheduled_ctx
  \/ /\ q # <<>>
     /\ blocked' = Tail(q)
     /\ st' = [s EXCEPT ![Head(q)] = "woken"]
     /\ scheduled_ctx' = CtxOf[Head(q)]

\* SchedContext::_execute takes t from its run queue.  A parked task got there
\* because its other condition was notified.
Execute(t) ==
  /\ st[t] \in {"ready", "woken", "parked"}
  /\ \/ /\ ctx[CtxOf[t]] = "open"
        /\ UNCHANGED batch
     \/ /\ ctx[CtxOf[t]] = "stopping"
        /\ batch[CtxOf[t]] > 0
        /\ batch' = [batch EXCEPT ![CtxOf[t]] = @ - 1]
  /\ st' = [st EXCEPT ![t] = IF @ = "woken" THEN "resume" ELSE "running"]
  /\ UNCHANGED <<semVars, holds, posted, ctx>>

\* Mutant of Relock: the caller tests _vacant with "if" and not with "while", so
\* that a resumed task takes a permit untested.
RelockTakes(t) ==
  /\ st[t] = "resume"
  /\ mtx = NoOne
  /\ vacant' = vacant - 1
  /\ holds' = holds \cup {t}
  /\ scheduled_ctx' = NoCtx
  /\ st' = [st EXCEPT ![t] = "running"]
  /\ UNCHANGED <<mtx, blocked, posted, ctx, batch>>

\* The end of Condition::wait: take _mtx again and forget the scheduled context.
Relock(t) ==
  /\ st[t] = "resume"
  /\ mtx = NoOne
  /\ mtx' = t
  /\ scheduled_ctx' = NoCtx
  /\ st' = [st EXCEPT ![t] = "aquire"]
  /\ UNCHANGED <<vacant, blocked, holds, posted, ctx, batch>>

-----------------------------------------------------------------------------
(* The semaphore.                                                          *)

\* Semaphore::aquire up to the lock.
Aquire(t) ==
  /\ st[t] = "running"
  /\ t \notin holds
  /\ mtx = NoOne
  /\ mtx' = t
  /\ st' = [st EXCEPT ![t] = "aquire"]
  /\ UNCHANGED <<vacant, blocked, scheduled_ctx, holds, posted, ctx, batch>>

\* A permit is free: take it and leave the loop.
TakeVacant(t) ==
  /\ st[t] = "aquire"
  /\ vacant > 0
  /\ vacant' = vacant - 1
  /\ holds' = holds \cup {t}
  /\ mtx' = NoOne
  /\ st' = [st EXCEPT ![t] = "running"]
  /\ UNCHANGED <<blocked, scheduled_ctx, posted, ctx, batch>>

\* None is: Condition::wait suspends the task and _execute links it in _blocked
\* before it unlocks the condition and then _mtx.
Wait(t) ==
  /\ st[t] = "aquire"
  /\ vacant = 0
  /\ blocked' = Append(blocked, t)
  /\ mtx' = NoOne
  /\ st' = [st EXCEPT ![t] = "blocked"]
  /\ UNCHANGED <<vacant, scheduled_ctx, holds, posted, ctx, batch>>

\* Semaphore::release by the task that owns the permit, up to notify().
Release(t) ==
  /\ st[t] = "running"
  /\ t \in holds
  /\ mtx = NoOne
  /\ mtx' = t
  /\ vacant' = vacant + 1
  /\ holds' = holds \ {t}
  /\ st' = [st EXCEPT ![t] = "release"]
  /\ UNCHANGED <<blocked, scheduled_ctx, posted, ctx, batch>>

\* Condition::notify and the unlock at the end of release().
Notify(t) ==
  /\ st[t] = "release"
  /\ ScheduleFromThis(blocked, [st EXCEPT ![t] = "running"])
  /\ mtx' = NoOne
  /\ UNCHANGED <<vacant, holds, posted, ctx, batch>>

\* Semaphore::release by a timer, an event callback or a channel commit.
Post ==
  /\ posted < MaxPost
  /\ mtx = NoOne
  /\ mtx' = Poster
  /\ vacant' = vacant + 1
  /\ posted' = posted + 1
  /\ UNCHANGED <<blocked, scheduled_ctx, st, holds, ctx, batch>>

PostNotify ==
  /\ mtx = Poster
  /\ ScheduleFromThis(blocked, st)
  /\ mtx' = NoOne
  /\ UNCHANGED <<vacant, holds, posted, ctx, batch>>

-----------------------------------------------------------------------------
(* What the coroutine does between two calls, owning a permit or not.      *)

\* cgo::yield: _execute pushes the task back into its run queue.
Yield(t) ==
  /\ st[t] = "running"
  /\ st' = [st EXCEPT ![t] = "ready"]
  /\ UNCHANGED <<semVars, holds, posted, ctx, batch>>

\* It suspends on a condition of another semaphore.
Park(t) ==
  /\ st[t] = "running"
  /\ st' = [st EXCEPT ![t] = "parked"]
  /\ UNCHANGED <<semVars, holds, posted, ctx, batch>>

\* It returns; a DeferGuard would have released its permit before.
Return(t) ==
  /\ st[t] = "running"
  /\ t \in Guarded => t \notin holds
  /\ st' = [st EXCEPT ![t] = "done"]
  /\ UNCHANGED <<semVars, holds, posted, ctx, batch>>

Leave(t) == Yield(t) \/ Park(t) \/ Return(t)

-----------------------------------------------------------------------------
(* Shutdown of a context.                                                  *)

\* Context::shutdown sets _finished; each worker finishes its run_scheduled batch.
Shutdown(c) ==
  /\ c \in Stoppable
  /\ ctx[c] = "open"
  /\ ctx' = [ctx EXCEPT ![c] = "stopping"]
  /\ \E n \in 0..MaxBatch : batch' = [batch EXCEPT ![c] = n]
  /\ UNCHANGED <<semVars, st, holds, posted>>

\* The workers' barrier after the loop of Context::_run.
Barrier(c) ==
  /\ ctx[c] = "stopping"
  /\ \A t \in Task : CtxOf[t] = c => st[t] \notin Executing
  /\ ctx' = [ctx EXCEPT ![c] = "final"]
  /\ batch' = [batch EXCEPT ![c] = 0]
  /\ UNCHANGED <<semVars, st, holds, posted>>

\* Mutant of RemoveWaiter: the wake-up is not passed on.
RemoveWaiterSilently(t) ==
  /\ ctx[CtxOf[t]] = "final"
  /\ st[t] \in {"blocked", "woken"}
  /\ blocked' = Unlink(blocked, t)
  /\ st' = [st EXCEPT ![t] = "destroy"]
  /\ UNCHANGED <<vacant, mtx, scheduled_ctx, holds, posted, ctx, batch>>

\* Mutant of RemoveWaiter: the task stays linked.
RemoveWaiterLinked(t) ==
  /\ ctx[CtxOf[t]] = "final"
  /\ st[t] \in {"blocked", "woken"}
  /\ st' = [st EXCEPT ![t] = "destroy"]
  /\ UNCHANGED <<semVars, holds, posted, ctx, batch>>

\* Condition::_remove of a task that still waits: unlink it, and pass a wake-up
\* that may have been meant for it on to the next waiter.
RemoveWaiter(t) ==
  /\ ctx[CtxOf[t]] = "final"
  /\ st[t] \in {"blocked", "woken"}
  /\ LET q == Unlink(blocked, t)
         s == [st EXCEPT ![t] = "destroy"]
     IN  IF scheduled_ctx \in {NoCtx, CtxOf[t]}
         THEN ScheduleFromThis(q, s)
         ELSE blocked' = q /\ st' = s /\ UNCHANGED scheduled_ctx
  /\ UNCHANGED <<vacant, mtx, holds, posted, ctx, batch>>

\* The same for a task that waits for another condition.
RemoveParked(t) ==
  /\ ctx[CtxOf[t]] = "final"
  /\ st[t] = "parked"
  /\ st' = [st EXCEPT ![t] = "destroy"]
  /\ UNCHANGED <<semVars, holds, posted, ctx, batch>>

\* ~SchedContext destroys the pool, with the tasks final_schedule passed over.
DestroyPooled(t) ==
  /\ ctx[CtxOf[t]] = "closed"
  /\ st[t] = "ready"
  /\ st' = [st EXCEPT ![t] = "destroy"]
  /\ UNCHANGED <<semVars, holds, posted, ctx, batch>>

\* Mutant of Unwind: the guard calls release() though its task owns no permit.
UnwindUnowned(t) ==
  /\ st[t] = "destroy"
  /\ t \in Guarded
  /\ mtx = NoOne
  /\ mtx' = t
  /\ vacant' = vacant + 1
  /\ holds' = holds \ {t}
  /\ st' = [st EXCEPT ![t] = "unwind"]
  /\ UNCHANGED <<blocked, scheduled_ctx, posted, ctx, batch>>

\* FrameOperator::destroy runs the frame's destructors: a guard that owns a
\* permit calls release().
Unwind(t) ==
  /\ st[t] = "destroy"
  /\ t \in holds \cap Guarded
  /\ mtx = NoOne
  /\ mtx' = t
  /\ vacant' = vacant + 1
  /\ holds' = holds \ {t}
  /\ st' = [st EXCEPT ![t] = "unwind"]
  /\ UNCHANGED <<blocked, scheduled_ctx, posted, ctx, batch>>

UnwindNotify(t) ==
  /\ st[t] = "unwind"
  /\ ScheduleFromThis(blocked, [st EXCEPT ![t] = "dead"])
  /\ mtx' = NoOne
  /\ UNCHANGED <<vacant, holds, posted, ctx, batch>>

DestroyFrame(t) ==
  /\ st[t] = "destroy"
  /\ t \notin holds \cap Guarded
  /\ st' = [st EXCEPT ![t] = "dead"]
  /\ UNCHANGED <<semVars, holds, posted, ctx, batch>>

\* Mutant of Join: shutdown() waits for every task, not only for those that wait.
JoinAll(c) ==
  /\ ctx[c] = "final"
  /\ \A t \in Task : CtxOf[t] = c => st[t] \in {"done", "dead"}
  /\ ctx' = [ctx EXCEPT ![c] = "closed"]
  /\ UNCHANGED <<semVars, st, holds, posted, batch>>

\* shutdown() returns: every worker left final_schedule and is joined.
Join(c) ==
  /\ ctx[c] = "final"
  /\ \A t \in Task : CtxOf[t] = c => st[t] \in {"ready", "done", "dead"}
  /\ ctx' = [ctx EXCEPT ![c] = "closed"]
  /\ UNCHANGED <<semVars, st, holds, posted, batch>>

-----------------------------------------------------------------------------
Next ==
  \/ \E t \in Task :
       \/ Execute(t) \/ Relock(t) \/ Aquire(t) \/ TakeVacant(t) \/ Wait(t)
       \/ Release(t) \/ Notify(t) \/ Yield(t) \/ Park(t) \/ Return(t)
       \/ RemoveWaiter(t) \/ RemoveParked(t) \/ DestroyPooled(t)
       \/ Unwind(t) \/ UnwindNotify(t) \/ DestroyFrame(t)
  \/ Post
  \/ PostNotify
  \/ \E c \in Context : Shutdown(c) \/ Barrier(c) \/ Join(c)

Spec == Init /\ [][Next]_vars

\* Workers keep executing what is in their run queues and finish what they
\* began, a spinning worker gets the spinlock in the end, and (an obligation of
\* the program that uses the library) a coroutine suspends or returns in the end.
Fairness ==
  /\ \A t \in Task :
       /\ WF_vars(st[t] # "parked" /\ Execute(t))
       /\ WF_vars(TakeVacant(t) \/ Wait(t) \/ Notify(t))
       /\ WF_vars(RemoveWaiter(t) \/ RemoveParked(t))
       /\ WF_vars(UnwindNotify(t) \/ DestroyFrame(t))
       /\ SF_vars(Relock(t))
       /\ SF_vars(Unwind(t))
       /\ SF_vars(Leave(t))
  /\ WF_vars(PostNotify)
  /\ \A c \in Context : WF_vars(Barrier(c)) /\ WF_vars(Join(c))

FairSpec == Spec /\ Fairness

-----------------------------------------------------------------------------
(* Properties.                                                             *)

\* Permits are neither lost nor invented: by aquire and release of tasks in any
\* context, by callbacks, or by the guards of frames destroyed at shutdown.
PermitsConserved == vacant + Cardinality(holds) = Permits + posted

\* No lost wake-up: while tasks wait, every free permit has a task on its way
\* to take it, or a release() that has yet to notify one.
WakeupsCoverPermits ==
  blocked # <<>> =>
    vacant <= Cardinality({t \in Task :
                 st[t] \in {"woken", "resume", "aquire", "release", "unwind"}})
              + (IF mtx = Poster THEN 1 ELSE 0)

\* The wait list holds exactly the blocked tasks, each once, and never a task
\* whose context has been closed: a notify() would touch a destroyed frame.
WaitListIsLive ==
  /\ \A i, j \in DOMAIN blocked : blocked[i] = blocked[j] => i = j
  /\ \A t \in Task : st[t] = "blocked" <=> t \in ToSet(blocked)
  /\ \A t \in ToSet(blocked) : ctx[CtxOf[t]] # "closed"

\* shutdown() returns, whoever waits for the semaphore or owns a permit.
ShutdownReturns ==
  \A c \in Context : (ctx[c] = "stopping") ~> (ctx[c] = "closed")

-----------------------------------------------------------------------------
(* The semaphore implements the abstract one.                              *)

Waiting == {t \in Task : st[t] \in {"aquire", "blocked", "woken", "resume"}}

Abs == INSTANCE CountingSemaphore WITH avail <- vacant, owners <- holds, waiting <- Waiting

\* Every step of aquire, release, wait, notify and of a shutdown is a step of a
\* counting semaphore or invisible in it: no permit goes to a task that did not
\* ask, none is granted that is not free, none is released by who does not own it.
ImplementsSemaphore == Abs!SafeSpec

\* The semaphore also keeps granting permits as the abstract one promises.
GrantsPermits == Abs!Spec
================================================================================
