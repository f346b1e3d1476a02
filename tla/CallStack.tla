------------------------------- MODULE CallStack -------------------------------
(***************************************************************************)
(* The call stack of one task: the coroutine frames that await each other  *)
(* (BaseFrame, BasePromise, Coroutine), and FrameOperator, which resumes   *)
(* the innermost one and destroys them all when a context is finalised.    *)
(*                                                                         *)
(* What a coroutine body does is a free choice: await a new coroutine,     *)
(* suspend (yield, or wait for a condition), return, throw, or catch what  *)
(* its callee threw.  The call stack is sequential; what is hard is the    *)
(* order of returns, exceptions, catches and a destruction in the middle   *)
(* of a nested call.                                                       *)
(*                                                                         *)
(* pc: idle    nobody executes the task                                    *)
(*     loop    _call_stack_execute is about to resume the frame next       *)
(*     body    the code of the frame cur is running                        *)
(*     raise   it has an exception of its callee in flight                 *)
(*     after   the resume of cur has returned                              *)
(*     thrown  the exception of the entry left _call_stack_execute         *)
(*     destroy _call_stack_destroy walks the stack, next is at its turn    *)
(*     destroyed  it has come to its end                                   *)
(*     end     the task and its frames are gone                            *)
(***************************************************************************)
EXTENDS Naturals, SequencesExt

CONSTANTS
  Frame,     \* the coroutine frames; their number bounds the calls
  Entry,     \* the coroutine that was spawned
  NoFrame    \* nullptr

ASSUME CallStackAssumption ==
  /\ Entry \in Frame
  /\ NoFrame \notin Frame

VARIABLES
  stack,     \* the promises linked from the entry to _entry->_current
  pc,
  cur,       \* the local current of _call_stack_execute
  next,      \* the local next
  status,    \* of each frame: none (not created), start, run, await, suspend, done
  error,     \* the frames whose promise has an _error
  awaiting,  \* the frame of the coroutine object that each frame owns and awaits
  handler,   \* the frames whose coroutine object has them for its _handler
  freed,     \* history: how often handler.destroy() ran on each frame
  caught     \* history: whether a body has caught an exception

vars == <<stack, pc, cur, next, status, error, awaiting, handler, freed, caught>>

\* The types; and what the code dereferences is never nullptr: next before a
\* resume or a destroy, current around one.
TypeOK ==
  /\ stack \in Seq(Frame)
  /\ pc \in {"idle", "loop", "body", "raise", "after", "thrown", "destroy", "destroyed", "end"}
  /\ cur \in Frame \cup {NoFrame}
  /\ next \in Frame \cup {NoFrame}
  /\ status \in [Frame -> {"none", "start", "run", "await", "suspend", "done"}]
  /\ error \in SUBSET Frame
  /\ awaiting \in [Frame -> Frame \cup {NoFrame}]
  /\ handler \in SUBSET Frame
  /\ freed \in [Frame -> Nat]
  /\ caught \in BOOLEAN
  /\ pc \in {"loop", "destroy"} => next \in Frame
  /\ pc \in {"body", "raise", "after"} => cur \in Frame

\* _call_stack_create for a spawned coroutine.
Init ==
  /\ stack = <<Entry>>
  /\ pc = "idle"
  /\ cur = NoFrame
  /\ next = NoFrame
  /\ status = [f \in Frame |-> IF f = Entry THEN "start" ELSE "none"]
  /\ error = {}
  /\ awaiting = [f \in Frame |-> NoFrame]
  /\ handler = {Entry}
  /\ freed = [f \in Frame |-> 0]
  /\ caught = FALSE

-----------------------------------------------------------------------------
(* Frames.                                                                 *)

\* _entry->_current after _call_stack_pop of the stack s, nullptr if none is left.
Top(s) == IF s = <<>> THEN NoFrame ELSE Last(s)

\* f owns the coroutine object of g, which holds g's handle.
Owns(f, g) == awaiting[f] = g /\ g \in handler

\* The frames that go when f's handle is destroyed: f, the frame of the coroutine
\* object in it unless that has lost its handle, and so on; that is, the least set
\* of frames with f that is closed under ownership.
Owned(f) ==
  {g \in Frame : \A S \in SUBSET Frame :
     f \in S /\ (\A x \in S, y \in Frame : Owns(x, y) => y \in S) => g \in S}

\* handler.destroy() ran on the frames fs, and no object has their handles any more.
Free(fs) ==
  /\ freed' = [f \in Frame |-> IF f \in fs THEN freed[f] + 1 ELSE freed[f]]
  /\ handler' = handler \ fs

\* BaseFrame::_destroy of f's coroutine object.
DestroyObject(f) == Free(IF f \in handler THEN Owned(f) ELSE {})

-----------------------------------------------------------------------------
(* FrameOperator::resume.                                                  *)

\* SchedContext::_execute resumes a task whose entry is not done.
Resume ==
  /\ pc = "idle"
  /\ status[Entry] # "done"
  /\ next' = Top(stack)
  /\ pc' = "loop"
  /\ UNCHANGED <<stack, cur, status, error, awaiting, handler, freed, caught>>

\* current = next; current resumes.  If it awaited, await_resume throws or
\* delivers, and the awaited object dies at the end of the expression.
ResumeFrame ==
  /\ pc = "loop"
  /\ cur' = next
  /\ status' = [status EXCEPT ![next] = "run"]
  /\ \/ /\ awaiting[next] = NoFrame
        /\ pc' = "body"
        /\ UNCHANGED <<awaiting, handler, freed>>
     \/ /\ awaiting[next] # NoFrame
        /\ pc' = IF awaiting[next] \in error THEN "raise" ELSE "body"
        /\ awaiting' = [awaiting EXCEPT ![next] = NoFrame]
        /\ DestroyObject(awaiting[next])
  /\ UNCHANGED <<stack, next, error, caught>>

\* Mutant of AfterError: the test for a caller is missing.
AfterErrorUntested ==
  /\ pc = "after"
  /\ cur \in error
  /\ stack' = Front(stack)
  /\ next' = Top(stack')
  /\ error' = error \cup {next'}
  /\ pc' = IF next' = cur THEN "idle" ELSE "loop"
  /\ UNCHANGED <<cur, status, awaiting, handler, freed, caught>>

\* Mutant of AfterError: the entry's exception is not rethrown, the task is
\* dropped like a finished one.
AfterErrorSwallowed ==
  /\ pc = "after"
  /\ cur \in error
  /\ stack' = Front(stack)
  /\ next' = Top(stack')
  /\ error' = IF next' = NoFrame THEN error ELSE error \cup {next'}
  /\ pc' = CASE next' = NoFrame -> "destroyed"
             [] next' # NoFrame /\ next' = cur -> "idle"
             [] OTHER -> "loop"
  /\ UNCHANGED <<cur, status, awaiting, handler, freed, caught>>

\* The resume returned and current's promise has an error: pop, pass it to the
\* caller, or rethrow it if there is none.
AfterError ==
  /\ pc = "after"
  /\ cur \in error
  /\ stack' = Front(stack)
  /\ next' = Top(stack')
  /\ error' = IF next' = NoFrame THEN error ELSE error \cup {next'}
  /\ pc' = CASE next' = NoFrame -> "thrown"
             [] next' # NoFrame /\ next' = cur -> "idle"
             [] OTHER -> "loop"
  /\ UNCHANGED <<cur, status, awaiting, handler, freed, caught>>

\* Mutant of AfterDone: _call_stack_pop leaves _current at the callee.
AfterDoneUnpopped ==
  /\ pc = "after"
  /\ cur \notin error
  /\ status[cur] = "done"
  /\ next' = Top(Front(stack))
  /\ pc' = IF next' = NoFrame \/ next' = cur THEN "idle" ELSE "loop"
  /\ UNCHANGED <<stack, cur, status, error, awaiting, handler, freed, caught>>

\* current returned: pop, go on with the caller.
AfterDone ==
  /\ pc = "after"
  /\ cur \notin error
  /\ status[cur] = "done"
  /\ stack' = Front(stack)
  /\ next' = Top(stack')
  /\ pc' = IF next' = NoFrame \/ next' = cur THEN "idle" ELSE "loop"
  /\ UNCHANGED <<cur, status, error, awaiting, handler, freed, caught>>

\* It suspended, or pushed a callee.
AfterSuspend ==
  /\ pc = "after"
  /\ cur \notin error
  /\ status[cur] # "done"
  /\ next' = Top(stack)
  /\ pc' = IF next' = NoFrame \/ next' = cur THEN "idle" ELSE "loop"
  /\ UNCHANGED <<stack, cur, status, error, awaiting, handler, freed, caught>>

-----------------------------------------------------------------------------
(* The body of cur.                                                        *)

\* Mutant of Await: _call_stack_push leaves _current at the caller.
AwaitUnpushed(g) ==
  /\ pc = "body"
  /\ status[g] = "none"
  /\ status' = [status EXCEPT ![cur] = "await", ![g] = "start"]
  /\ awaiting' = [awaiting EXCEPT ![cur] = g]
  /\ handler' = handler \cup {g}
  /\ pc' = "after"
  /\ UNCHANGED <<stack, cur, next, error, freed, caught>>

\* co_await of a new coroutine g: await_suspend pushes g.
Await(g) ==
  /\ pc = "body"
  /\ status[g] = "none"
  /\ status' = [status EXCEPT ![cur] = "await", ![g] = "start"]
  /\ awaiting' = [awaiting EXCEPT ![cur] = g]
  /\ handler' = handler \cup {g}
  /\ stack' = Append(stack, g)
  /\ pc' = "after"
  /\ UNCHANGED <<cur, next, error, freed, caught>>

\* co_await std::suspend_always, from yield() or Condition::wait.
Suspend ==
  /\ pc = "body"
  /\ status' = [status EXCEPT ![cur] = "suspend"]
  /\ pc' = "after"
  /\ UNCHANGED <<stack, cur, next, error, awaiting, handler, freed, caught>>

\* co_return.
Return ==
  /\ pc = "body"
  /\ status' = [status EXCEPT ![cur] = "done"]
  /\ pc' = "after"
  /\ UNCHANGED <<stack, cur, next, error, awaiting, handler, freed, caught>>

\* An exception leaves the body: unhandled_exception, final_suspend.
Throw ==
  /\ pc \in {"body", "raise"}
  /\ status' = [status EXCEPT ![cur] = "done"]
  /\ error' = error \cup {cur}
  /\ pc' = "after"
  /\ UNCHANGED <<stack, cur, next, awaiting, handler, freed, caught>>

\* A catch clause around the co_await.
Catch ==
  /\ pc = "raise"
  /\ pc' = "body"
  /\ caught' = TRUE
  /\ UNCHANGED <<stack, cur, next, status, error, awaiting, handler, freed>>

-----------------------------------------------------------------------------
(* The end of the task.                                                    *)

\* FrameOperator::destroy of a suspended task, by final_schedule.
Destroy ==
  /\ pc = "idle"
  /\ status[Entry] # "done"
  /\ next' = Top(stack)
  /\ pc' = "destroy"
  /\ UNCHANGED <<stack, cur, status, error, awaiting, handler, freed, caught>>

\* Mutant of DestroyFrame: the walk goes from the entry to the innermost callee.
DestroyFrameFromEntry ==
  /\ pc = "destroy"
  /\ Free(Owned(next))
  /\ stack' = Tail(stack)
  /\ next' = IF stack' = <<>> THEN NoFrame ELSE Head(stack')
  /\ pc' = IF next' = NoFrame THEN "destroyed" ELSE "destroy"
  /\ UNCHANGED <<cur, status, error, awaiting, caught>>

\* Mutant of DestroyFrame: the handle stays with its owner.
DestroyFrameLeavesHandler ==
  /\ pc = "destroy"
  /\ freed' = [f \in Frame |-> IF f \in Owned(next) THEN freed[f] + 1 ELSE freed[f]]
  /\ handler' = handler \ (Owned(next) \ {next})
  /\ stack' = Front(stack)
  /\ next' = Top(stack')
  /\ pc' = IF next' = NoFrame THEN "destroyed" ELSE "destroy"
  /\ UNCHANGED <<cur, status, error, awaiting, caught>>

\* One round of its loop: take the handle from its owner, destroy it, go on with the
\* caller.
DestroyFrame ==
  /\ pc = "destroy"
  /\ Free(Owned(next))
  /\ stack' = Front(stack)
  /\ next' = Top(stack')
  /\ pc' = IF next' = NoFrame THEN "destroyed" ELSE "destroy"
  /\ UNCHANGED <<cur, status, error, awaiting, caught>>

\* Mutant of EraseTask: ~BaseFrame destroys nothing.
EraseTaskLeaks ==
  /\ pc \in {"idle", "thrown", "destroyed"}
  /\ stack' = <<>>
  /\ pc' = "end"
  /\ UNCHANGED <<cur, next, status, error, awaiting, handler, freed, caught>>

\* The task leaves its pool, and its coroutine object dies: when it has finished
\* (Allocator::destroy), or with the context, be it still runnable, destroyed, or one
\* whose exception left _execute.  The links of the promises go with their frames.
EraseTask ==
  /\ pc \in {"idle", "thrown", "destroyed"}
  /\ DestroyObject(Entry)
  /\ stack' = <<>>
  /\ pc' = "end"
  /\ UNCHANGED <<cur, next, status, error, awaiting, caught>>

-----------------------------------------------------------------------------
Next ==
  \/ Resume \/ ResumeFrame \/ AfterError \/ AfterDone \/ AfterSuspend
  \/ (\E g \in Frame : Await(g)) \/ Suspend \/ Return \/ Throw \/ Catch
  \/ Destroy \/ DestroyFrame \/ EraseTask

Spec == Init /\ [][Next]_vars

\* A worker that began to execute or destroy the task carries on.
FairSpec == Spec /\ WF_vars(ResumeFrame \/ AfterError \/ AfterDone \/ AfterSuspend
                            \/ DestroyFrame \/ Throw)

-----------------------------------------------------------------------------
(* Properties.                                                             *)

\* A frame is resumed from an await only when its callee returned or threw.
ResumedAfterCallee ==
  pc = "loop" /\ awaiting[next] # NoFrame => status[awaiting[next]] = "done"

\* co_await bar() waits until bar() has finished, in a task that caught no exception so
\* far, however many callees throw, suspend and are awaited in turn.
AwaitsFinish == ~caught => ResumedAfterCallee

\* co_await bar() waits until bar() has finished ("wait bar() finish and get returned
\* value"), also in a coroutine that caught an exception before.
AlwaysAwaitsFinish == ResumedAfterCallee

\* The stack is the chain of awaits from the entry to the innermost frame, so
\* that the frame resumed is the one everybody on the stack waits for.
StackIsAwaitChain ==
  pc \in {"idle", "loop", "body", "raise"} =>
    /\ stack # <<>> => stack[1] = Entry
    /\ \A i \in 1..(Len(stack) - 1) : awaiting[stack[i]] \in {stack[i + 1]}
    /\ pc \in {"body", "raise"} => stack # <<>> /\ cur = Last(stack)

\* However the task ends - by returning, by an exception that leaves it, destroyed by
\* final_schedule while it waits, or dropped with its context while it could run, in the
\* middle of any nesting of calls - each frame it created is destroyed exactly once.
FreedOnce ==
  \A f \in Frame :
    /\ freed[f] <= 1
    /\ pc = "end" => freed[f] = IF status[f] = "none" THEN 0 ELSE 1

Alive(f) == status[f] # "none" /\ freed[f] = 0

\* The object _onwer points to: the task's, or one in the frame of the caller.
OwnerAlive(f) == f = Entry \/ \E g \in Frame : awaiting[g] = f /\ Alive(g)

\* Nothing that was destroyed is read or written: not the promises whose links
\* _call_stack_pop, _call_stack_push and _call_stack_destroy follow, nor the entry's,
\* and neither the object nor the handle in it behind each _onwer->_handler.
NoUseAfterFree ==
  /\ pc # "end" => \A f \in ToSet(stack) : Alive(f)
  /\ pc \in {"idle", "loop", "body", "raise", "after"} => Alive(Entry) /\ Entry \in handler
  /\ pc \in {"loop", "destroy"} => Alive(next) /\ next \in handler /\ OwnerAlive(next)
  /\ pc = "after" => Alive(cur) /\ cur \in handler /\ OwnerAlive(cur)

\* An exception nobody catches leaves the task's execution.
ErrorSurfaces == (error # {} /\ pc # "end") ~> (pc = "thrown" \/ caught)
================================================================================
