---------------------------- MODULE SemaphoreProofs ----------------------------
(* Proofs about Semaphore, for any number of tasks, contexts and permits.  *)
EXTENDS Semaphore, ListProofs, FiniteSetTheorems

-----------------------------------------------------------------------------
(* The inductive invariant.                                                *)

\* _mtx is held by exactly the task that is inside a critical section of it.
LockInv == \A t \in Task : mtx = t <=> st[t] \in {"aquire", "release", "unwind"}

\* The wait list holds exactly the blocked tasks, each once.
ListInv ==
  /\ Distinct(blocked)
  /\ \A t \in Task : st[t] = "blocked" <=> t \in ToSet(blocked)

\* A task inside aquire() owns no permit.
HoldInv == \A t \in Task : st[t] \in {"aquire", "blocked", "woken", "resume"} => t \notin holds

\* No task executes past its context's barrier, none waits once it is closed.
CtxInv ==
  \A t \in Task :
    /\ st[t] \in Executing => ctx[CtxOf[t]] \in {"open", "stopping"}
    /\ st[t] \in {"blocked", "woken", "parked"} => ctx[CtxOf[t]] # "closed"

IInv == TypeOK /\ LockInv /\ ListInv /\ HoldInv /\ CtxInv /\ PermitsConserved

\* What _schedule_from_this does to the tasks and the wait list.
LEMMA ScheduleFacts ==
  ASSUME TypeOK, NEW q \in Seq(Task), Distinct(q), NEW s \in [Task -> TaskState],
         \A t \in Task : s[t] = "blocked" <=> t \in ToSet(q),
         ScheduleFromThis(q, s)
  PROVE  /\ blocked' \in Seq(Task)
         /\ st' \in [Task -> TaskState]
         /\ scheduled_ctx' \in Context \cup {NoCtx}
         /\ ListInv'
         /\ \A t \in Task : st'[t] = s[t] \/ (s[t] = "blocked" /\ st'[t] = "woken")
         /\ q # <<>> => \E u \in Task : st'[u] = "woken" /\ scheduled_ctx' = CtxOf[u]
                                        /\ scheduled_ctx' # NoCtx
         /\ q = <<>> => blocked' = <<>>
<1> USE SemaphoreAssumption
<1>1. CASE q = <<>>
  <2>1. blocked' = q /\ st' = s /\ scheduled_ctx' = scheduled_ctx
    BY <1>1 DEF ScheduleFromThis
  <2> QED BY <1>1, <2>1 DEF ListInv, TypeOK, Distinct
<1>2. CASE q # <<>>
  <2>1. blocked' = Tail(q) /\ st' = [s EXCEPT ![Head(q)] = "woken"]
        /\ scheduled_ctx' = CtxOf[Head(q)]
    BY <1>2 DEF ScheduleFromThis
  <2>2. /\ Head(q) \in Task
        /\ Tail(q) \in Seq(Task)
        /\ Distinct(Tail(q))
        /\ ToSet(Tail(q)) = ToSet(q) \ {Head(q)}
        /\ Head(q) \in ToSet(q)
    BY <1>2, TailFacts
  <2>3. st' \in [Task -> TaskState]
        /\ \A t \in Task : st'[t] = IF t = Head(q) THEN "woken" ELSE s[t]
    BY <2>1, <2>2 DEF TaskState
  <2>4. CtxOf[Head(q)] \in Context
    BY <2>2
  <2>5. Distinct(blocked')
    BY <2>1, <2>2
  <2>6. ASSUME NEW t \in Task PROVE st'[t] = "blocked" <=> t \in ToSet(blocked')
    BY <2>1, <2>2, <2>3
  <2>7. ListInv'
    BY <2>5, <2>6 DEF ListInv, Distinct, ToSet
  <2> QED BY <1>2, <2>1, <2>2, <2>3, <2>4, <2>7
<1> QED BY <1>1, <1>2

\* What _remove does: t is gone, and either the wake-up that may have been its own
\* was passed on, or the last wake-up went to another context.
LEMMA RemoveFacts ==
  ASSUME TypeOK, ListInv, NEW t \in Task, RemoveWaiter(t)
  PROVE  /\ blocked' \in Seq(Task)
         /\ st' \in [Task -> TaskState]
         /\ scheduled_ctx' \in Context \cup {NoCtx}
         /\ ListInv'
         /\ \A u \in Task : \/ u = t /\ st'[u] = "destroy"
                            \/ u # t /\ st'[u] = st[u]
                            \/ u # t /\ st[u] = "blocked" /\ st'[u] = "woken"
         /\ \/ blocked' = <<>>
            \/ \E u \in Task : st'[u] = "woken" /\ scheduled_ctx' = CtxOf[u]
                              /\ scheduled_ctx' # NoCtx
            \/ scheduled_ctx' = scheduled_ctx /\ scheduled_ctx \notin {NoCtx, CtxOf[t]}
         /\ blocked = <<>> => blocked' = <<>>
<1> USE SemaphoreAssumption DEF TypeOK, TaskState
<1> DEFINE q == Unlink(blocked, t)
           s == [st EXCEPT ![t] = "destroy"]
<1>1. q \in Seq(Task) /\ Distinct(q) /\ ToSet(q) = ToSet(blocked) \ {t}
  BY UnlinkFacts DEF ListInv
<1>2. /\ s \in [Task -> TaskState]
      /\ \A u \in Task : s[u] = "blocked" <=> u \in ToSet(q)
      /\ \A u \in Task : s[u] = IF u = t THEN "destroy" ELSE st[u]
  BY <1>1 DEF ListInv
<1>3. \/ ScheduleFromThis(q, s)
      \/ /\ blocked' = q /\ st' = s /\ scheduled_ctx' = scheduled_ctx
         /\ scheduled_ctx \notin {NoCtx, CtxOf[t]}
  BY DEF RemoveWaiter
<1>4. blocked = <<>> => q = <<>>
  BY DEF Unlink
<1> HIDE DEF q, s
<1>5. CASE ScheduleFromThis(q, s)
  <2>1. /\ blocked' \in Seq(Task)
        /\ st' \in [Task -> TaskState]
        /\ scheduled_ctx' \in Context \cup {NoCtx}
        /\ ListInv'
        /\ \A u \in Task : st'[u] = s[u] \/ (s[u] = "blocked" /\ st'[u] = "woken")
        /\ q # <<>> => \E u \in Task : st'[u] = "woken" /\ scheduled_ctx' = CtxOf[u]
                                       /\ scheduled_ctx' # NoCtx
        /\ q = <<>> => blocked' = <<>>
    BY <1>1, <1>2, <1>5, ScheduleFacts
  <2>2. \A u \in Task : \/ u = t /\ st'[u] = "destroy"
                        \/ u # t /\ st'[u] = st[u]
                        \/ u # t /\ st[u] = "blocked" /\ st'[u] = "woken"
    BY <1>2, <2>1
  <2> QED BY <1>4, <2>1, <2>2
<1>6. CASE /\ blocked' = q /\ st' = s /\ scheduled_ctx' = scheduled_ctx
           /\ scheduled_ctx \notin {NoCtx, CtxOf[t]}
  <2>1. ListInv'
    BY <1>1, <1>2, <1>6 DEF ListInv, Distinct, ToSet
  <2> QED BY <1>1, <1>2, <1>6, <1>4, <2>1
<1> QED BY <1>3, <1>5, <1>6

\* The number of owners follows the set of owners.
LEMMA OwnerCount ==
  ASSUME NEW H \in SUBSET Task, NEW t \in Task
  PROVE  /\ Cardinality(H) \in Nat
         /\ t \notin H => Cardinality(H \cup {t}) = Cardinality(H) + 1
         /\ t \in H => Cardinality(H \ {t}) = Cardinality(H) - 1
<1>1. IsFiniteSet(H)
  BY FS_Subset, SemaphoreAssumption
<1>2. Cardinality(H) \in Nat
  BY <1>1, FS_CardinalityType
<1>3. t \notin H => Cardinality(H \cup {t}) = Cardinality(H) + 1
  BY <1>1, FS_AddElement
<1>4. t \in H => Cardinality(H \ {t}) = Cardinality(H) - 1
  BY <1>1, FS_RemoveElement
<1> QED BY <1>2, <1>3, <1>4

\* The constructors of Semaphore and Condition establish the invariant.
LEMMA InitInv == Init => IInv
<1> SUFFICES ASSUME Init PROVE IInv
  OBVIOUS
<1> USE SemaphoreAssumption DEF Init
<1>1. TypeOK
  BY EmptySeq DEF TypeOK, TaskState
<1>2. LockInv /\ HoldInv /\ CtxInv
  BY DEF LockInv, HoldInv, CtxInv, Executing
<1>3. ListInv
  BY DEF ListInv, Distinct, ToSet
<1>4. PermitsConserved
  BY FS_EmptySet DEF PermitsConserved
<1> QED BY <1>1, <1>2, <1>3, <1>4 DEF IInv

\* Every operation on the semaphore, and every step of a shutdown, preserves it.
LEMMA NextInv == IInv /\ [Next]_vars => IInv'
<1> SUFFICES ASSUME IInv, [Next]_vars PROVE IInv'
  OBVIOUS
<1> USE SemaphoreAssumption DEF IInv, TypeOK, TaskState
<1>1. ASSUME NEW t \in Task, Execute(t) PROVE IInv'
  BY <1>1 DEF Execute, semVars, LockInv, ListInv, HoldInv, CtxInv, Executing, PermitsConserved, Distinct, ToSet
<1>2. ASSUME NEW t \in Task, Relock(t) PROVE IInv'
  BY <1>2 DEF Relock, semVars, LockInv, ListInv, HoldInv, CtxInv, Executing, PermitsConserved, Distinct, ToSet
<1>3. ASSUME NEW t \in Task, Aquire(t) PROVE IInv'
  BY <1>3 DEF Aquire, semVars, LockInv, ListInv, HoldInv, CtxInv, Executing, PermitsConserved, Distinct, ToSet
<1>4. ASSUME NEW t \in Task, TakeVacant(t) PROVE IInv'
  <2>1. TypeOK' /\ LockInv' /\ HoldInv' /\ CtxInv'
    BY <1>4 DEF TakeVacant, LockInv, HoldInv, CtxInv, Executing
  <2>2. ListInv'
    BY <1>4 DEF TakeVacant, ListInv, Distinct, ToSet
  <2>3. Cardinality(holds') = Cardinality(holds) + 1 /\ Cardinality(holds) \in Nat
    BY <1>4, OwnerCount DEF TakeVacant, HoldInv
  <2>4. PermitsConserved'
    BY <1>4, <2>3 DEF TakeVacant, PermitsConserved
  <2> QED BY <2>1, <2>2, <2>4
<1>5. ASSUME NEW t \in Task, Wait(t) PROVE IInv'
  <2>1. t \notin ToSet(blocked)
    BY <1>5 DEF Wait, ListInv
  <2>2. /\ blocked' \in Seq(Task)
        /\ Distinct(blocked')
        /\ ToSet(blocked') = ToSet(blocked) \cup {t}
    BY <1>5, <2>1, AppendFacts DEF Wait, ListInv
  <2>3. st' \in [Task -> TaskState] /\ \A u \in Task : st'[u] = IF u = t THEN "blocked" ELSE st[u]
    BY <1>5 DEF Wait
  <2>4. TypeOK' /\ LockInv' /\ HoldInv' /\ CtxInv'
    BY <1>5, <2>2, <2>3 DEF Wait, LockInv, HoldInv, CtxInv, Executing
  <2>5. \A u \in Task : st'[u] = "blocked" <=> u \in ToSet(blocked')
    BY <2>2, <2>3 DEF ListInv
  <2>6. ListInv'
    BY <2>2, <2>5 DEF ListInv, Distinct, ToSet
  <2>7. PermitsConserved'
    BY <1>5 DEF Wait, PermitsConserved
  <2> QED BY <2>4, <2>6, <2>7
<1>6. ASSUME NEW t \in Task, Release(t) PROVE IInv'
  <2>1. TypeOK' /\ LockInv' /\ HoldInv' /\ CtxInv'
    BY <1>6 DEF Release, LockInv, HoldInv, CtxInv, Executing
  <2>2. ListInv'
    BY <1>6 DEF Release, ListInv, Distinct, ToSet
  <2>3. Cardinality(holds') = Cardinality(holds) - 1 /\ Cardinality(holds) \in Nat
    BY <1>6, OwnerCount DEF Release, HoldInv
  <2>4. PermitsConserved'
    BY <1>6, <2>3 DEF Release, PermitsConserved
  <2> QED BY <2>1, <2>2, <2>4
<1>7. ASSUME NEW t \in Task, Notify(t) PROVE IInv'
  <2> DEFINE s == [st EXCEPT ![t] = "running"]
  <2>1. s \in [Task -> TaskState] /\ \A u \in Task : s[u] = "blocked" <=> u \in ToSet(blocked)
    BY <1>7 DEF Notify, ListInv
  <2>2. ScheduleFromThis(blocked, s) /\ Distinct(blocked)
    BY <1>7 DEF Notify, ListInv
  <2> HIDE DEF s
  <2>3. /\ blocked' \in Seq(Task)
        /\ st' \in [Task -> TaskState]
        /\ scheduled_ctx' \in Context \cup {NoCtx}
        /\ ListInv'
        /\ \A u \in Task : st'[u] = s[u] \/ (s[u] = "blocked" /\ st'[u] = "woken")
    BY <2>1, <2>2, ScheduleFacts
  <2>4. /\ st[t] = "release" /\ mtx' = NoOne
        /\ vacant' = vacant /\ holds' = holds /\ posted' = posted
        /\ ctx' = ctx /\ batch' = batch
    BY <1>7 DEF Notify
  <2>5. \A u \in Task : \/ u = t /\ st'[u] = "running"
                        \/ u # t /\ st'[u] = st[u]
                        \/ u # t /\ st[u] = "blocked" /\ st'[u] = "woken"
    BY <2>3, <2>4 DEF s
  <2>6. TypeOK'
    BY <2>3, <2>4
  <2>7. LockInv'
    BY <2>4, <2>5 DEF LockInv
  <2>8. HoldInv' /\ CtxInv'
    BY <2>4, <2>5 DEF HoldInv, CtxInv, Executing
  <2>9. PermitsConserved'
    BY <2>4 DEF PermitsConserved
  <2> QED BY <2>3, <2>6, <2>7, <2>8, <2>9
<1>8. ASSUME NEW t \in Task, Yield(t) PROVE IInv'
  BY <1>8 DEF Yield, semVars, LockInv, ListInv, HoldInv, CtxInv, Executing, PermitsConserved, Distinct, ToSet
<1>9. ASSUME NEW t \in Task, Park(t) PROVE IInv'
  BY <1>9 DEF Park, semVars, LockInv, ListInv, HoldInv, CtxInv, Executing, PermitsConserved, Distinct, ToSet
<1>10. ASSUME NEW t \in Task, Return(t) PROVE IInv'
  BY <1>10 DEF Return, semVars, LockInv, ListInv, HoldInv, CtxInv, Executing, PermitsConserved, Distinct, ToSet
<1>11. ASSUME NEW t \in Task, RemoveWaiter(t) PROVE IInv'
  <2>1. /\ st[t] \in {"blocked", "woken"} /\ mtx' = mtx
        /\ vacant' = vacant /\ holds' = holds /\ posted' = posted
        /\ ctx' = ctx /\ batch' = batch
    BY <1>11 DEF RemoveWaiter
  <2>2. \A u \in Task : \/ u = t /\ st'[u] = "destroy"
                        \/ u # t /\ st'[u] = st[u]
                        \/ u # t /\ st[u] = "blocked" /\ st'[u] = "woken"
    BY <1>11, RemoveFacts
  <2>3. TypeOK' /\ ListInv'
    BY <1>11, <2>1, RemoveFacts
  <2>4. LockInv'
    BY <2>1, <2>2 DEF LockInv
  <2>5. HoldInv' /\ CtxInv'
    BY <2>1, <2>2 DEF HoldInv, CtxInv, Executing
  <2>6. PermitsConserved'
    BY <2>1 DEF PermitsConserved
  <2> QED BY <2>3, <2>4, <2>5, <2>6
<1>12. ASSUME NEW t \in Task, RemoveParked(t) PROVE IInv'
  BY <1>12 DEF RemoveParked, semVars, LockInv, ListInv, HoldInv, CtxInv, Executing, PermitsConserved, Distinct, ToSet
<1>13. ASSUME NEW t \in Task, DestroyPooled(t) PROVE IInv'
  BY <1>13 DEF DestroyPooled, semVars, LockInv, ListInv, HoldInv, CtxInv, Executing, PermitsConserved, Distinct, ToSet
<1>14. ASSUME NEW t \in Task, Unwind(t) PROVE IInv'
  <2>1. TypeOK' /\ LockInv' /\ HoldInv' /\ CtxInv'
    BY <1>14 DEF Unwind, LockInv, HoldInv, CtxInv, Executing
  <2>2. ListInv'
    BY <1>14 DEF Unwind, ListInv, Distinct, ToSet
  <2>3. Cardinality(holds') = Cardinality(holds) - 1 /\ Cardinality(holds) \in Nat
    BY <1>14, OwnerCount DEF Unwind, HoldInv
  <2>4. PermitsConserved'
    BY <1>14, <2>3 DEF Unwind, PermitsConserved
  <2> QED BY <2>1, <2>2, <2>4
<1>15. ASSUME NEW t \in Task, UnwindNotify(t) PROVE IInv'
  <2> DEFINE s == [st EXCEPT ![t] = "dead"]
  <2>1. s \in [Task -> TaskState] /\ \A u \in Task : s[u] = "blocked" <=> u \in ToSet(blocked)
    BY <1>15 DEF UnwindNotify, ListInv
  <2>2. ScheduleFromThis(blocked, s) /\ Distinct(blocked)
    BY <1>15 DEF UnwindNotify, ListInv
  <2> HIDE DEF s
  <2>3. /\ blocked' \in Seq(Task)
        /\ st' \in [Task -> TaskState]
        /\ scheduled_ctx' \in Context \cup {NoCtx}
        /\ ListInv'
        /\ \A u \in Task : st'[u] = s[u] \/ (s[u] = "blocked" /\ st'[u] = "woken")
    BY <2>1, <2>2, ScheduleFacts
  <2>4. /\ st[t] = "unwind" /\ mtx' = NoOne
        /\ vacant' = vacant /\ holds' = holds /\ posted' = posted
        /\ ctx' = ctx /\ batch' = batch
    BY <1>15 DEF UnwindNotify
  <2>5. \A u \in Task : \/ u = t /\ st'[u] = "dead"
                        \/ u # t /\ st'[u] = st[u]
                        \/ u # t /\ st[u] = "blocked" /\ st'[u] = "woken"
    BY <2>3, <2>4 DEF s
  <2>6. TypeOK'
    BY <2>3, <2>4
  <2>7. LockInv'
    BY <2>4, <2>5 DEF LockInv
  <2>8. HoldInv' /\ CtxInv'
    BY <2>4, <2>5 DEF HoldInv, CtxInv, Executing
  <2>9. PermitsConserved'
    BY <2>4 DEF PermitsConserved
  <2> QED BY <2>3, <2>6, <2>7, <2>8, <2>9
<1>16. ASSUME NEW t \in Task, DestroyFrame(t) PROVE IInv'
  BY <1>16 DEF DestroyFrame, semVars, LockInv, ListInv, HoldInv, CtxInv, Executing, PermitsConserved, Distinct, ToSet
<1>17. ASSUME Post PROVE IInv'
  <2>1. TypeOK' /\ LockInv' /\ HoldInv' /\ CtxInv'
    BY <1>17 DEF Post, LockInv, HoldInv, CtxInv, Executing
  <2>2. ListInv'
    BY <1>17 DEF Post, ListInv, Distinct, ToSet
  <2>3. Cardinality(holds) \in Nat /\ holds' = holds
    BY <1>17, FS_Subset, FS_CardinalityType DEF Post
  <2>4. PermitsConserved'
    <3>1. vacant' = vacant + 1 /\ posted' = posted + 1 /\ posted \in Nat
      BY <1>17 DEF Post
    <3>2. vacant + Cardinality(holds) = Permits + posted
      BY DEF PermitsConserved
    <3>3. \A n \in Nat : vacant + n = Permits + posted => vacant + 1 + n = Permits + (posted + 1)
      BY <3>1
    <3>4. vacant + 1 + Cardinality(holds) = Permits + (posted + 1)
      BY <2>3, <3>2, <3>3
    <3> QED BY <2>3, <3>1, <3>4 DEF PermitsConserved
  <2> QED BY <2>1, <2>2, <2>4
<1>18. ASSUME PostNotify PROVE IInv'
  <2> DEFINE s == st
  <2>1. s \in [Task -> TaskState] /\ \A u \in Task : s[u] = "blocked" <=> u \in ToSet(blocked)
    BY <1>18 DEF PostNotify, ListInv
  <2>2. ScheduleFromThis(blocked, s) /\ Distinct(blocked)
    BY <1>18 DEF PostNotify, ListInv
  <2> HIDE DEF s
  <2>3. /\ blocked' \in Seq(Task)
        /\ st' \in [Task -> TaskState]
        /\ scheduled_ctx' \in Context \cup {NoCtx}
        /\ ListInv'
        /\ \A u \in Task : st'[u] = s[u] \/ (s[u] = "blocked" /\ st'[u] = "woken")
    BY <2>1, <2>2, ScheduleFacts
  <2>4. TypeOK' /\ LockInv' /\ HoldInv' /\ CtxInv'
    BY <1>18, <2>3 DEF s, PostNotify, LockInv, HoldInv, CtxInv, Executing
  <2>5. PermitsConserved'
    BY <1>18 DEF PostNotify, PermitsConserved
  <2> QED BY <2>3, <2>4, <2>5
<1>19. ASSUME NEW c \in Context, Shutdown(c) PROVE IInv'
  BY <1>19 DEF Shutdown, semVars, LockInv, ListInv, HoldInv, CtxInv, Executing, PermitsConserved, Distinct, ToSet
<1>20. ASSUME NEW c \in Context, Barrier(c) PROVE IInv'
  BY <1>20 DEF Barrier, semVars, LockInv, ListInv, HoldInv, CtxInv, Executing, PermitsConserved, Distinct, ToSet
<1>21. ASSUME NEW c \in Context, Join(c) PROVE IInv'
  <2>1. TypeOK' /\ LockInv' /\ HoldInv'
    BY <1>21 DEF Join, semVars, LockInv, HoldInv
  <2>2. ListInv' /\ PermitsConserved'
    BY <1>21 DEF Join, semVars, ListInv, Distinct, ToSet, PermitsConserved
  <2>3. ASSUME NEW t \in Task, CtxOf[t] = c
        PROVE  st'[t] \in {"ready", "done", "dead"}
    BY <1>21, <2>3 DEF Join, semVars
  <2>4. ASSUME NEW t \in Task, CtxOf[t] # c
        PROVE  ctx'[CtxOf[t]] = ctx[CtxOf[t]] /\ st'[t] = st[t]
    BY <1>21, <2>4 DEF Join, semVars
  <2>5. CtxInv'
    BY <2>3, <2>4 DEF CtxInv, Executing
  <2> QED BY <2>1, <2>2, <2>5
<1>22. ASSUME UNCHANGED vars PROVE IInv'
  BY <1>22 DEF vars, LockInv, ListInv, HoldInv, CtxInv, Executing, PermitsConserved, Distinct, ToSet
<1> QED
  BY <1>1, <1>2, <1>3, <1>4, <1>5, <1>6, <1>7, <1>8, <1>9, <1>10, <1>11, <1>12, <1>13, <1>14, <1>15, <1>16, <1>17, <1>18, <1>19, <1>20, <1>21, <1>22 DEF Next

-----------------------------------------------------------------------------
(* The theorems.                                                           *)

\* The inductive invariant of aquire, release, wait, notify and _remove holds in
\* every state, for any tasks, contexts and permits.
THEOREM Invariance == Spec => []IInv
<1>1. Init => IInv
  BY InitInv
<1>2. IInv /\ [Next]_vars => IInv'
  BY NextInv
<1> QED BY <1>1, <1>2, PTL DEF Spec

\* Every variable of the semaphore keeps its type: _vacant never wraps below 0.
THEOREM TypeCorrect == Spec => []TypeOK
<1>1. IInv => TypeOK
  BY DEF IInv
<1> QED BY <1>1, Invariance, PTL

\* Permits are conserved, whichever contexts are shut down and when.
THEOREM PermitsAreConserved == Spec => []PermitsConserved
<1>1. IInv => PermitsConserved
  BY DEF IInv
<1> QED BY <1>1, Invariance, PTL

\* The wait list never holds a task of a closed context, nor a task twice.
THEOREM WaitListStaysLive == Spec => []WaitListIsLive
<1>1. IInv => WaitListIsLive
  <2> SUFFICES ASSUME IInv PROVE WaitListIsLive
    OBVIOUS
  <2>1. blocked \in Seq(Task) /\ ToSet(blocked) \subseteq Task
    BY LenProperties, ElementOfSeq DEF IInv, TypeOK, ToSet
  <2> QED BY <2>1 DEF IInv, ListInv, CtxInv, WaitListIsLive, Distinct
<1> QED BY <1>1, Invariance, PTL

-----------------------------------------------------------------------------
(* Refinement.                                                             *)

\* A step of the semaphore that keeps its count, owners and waiting tasks.
LEMMA Invisible ==
  ASSUME vacant' = vacant, holds' = holds,
         \A u \in Task : u \in Waiting' <=> u \in Waiting
  PROVE  UNCHANGED Abs!avars
<1>1. Waiting' = Waiting
  BY DEF Waiting
<1> QED BY <1>1 DEF Abs!avars

\* notify() moves tasks from _blocked to a run queue: they still wait.
LEMMA ScheduleKeepsWaiting ==
  ASSUME IInv, NEW s \in [Task -> TaskState],
         \A u \in Task : s[u] = st[u] \/ {s[u], st[u]} \subseteq {"release", "running", "unwind", "dead"},
         ScheduleFromThis(blocked, s), vacant' = vacant, holds' = holds
  PROVE  UNCHANGED Abs!avars
<1>1. \A u \in Task : s[u] = "blocked" <=> u \in ToSet(blocked)
  BY DEF IInv, ListInv
<1>2. \A u \in Task : st'[u] = s[u] \/ (s[u] = "blocked" /\ st'[u] = "woken")
  BY <1>1, ScheduleFacts DEF IInv, TypeOK, ListInv
<1>3. \A u \in Task : u \in Waiting' <=> u \in Waiting
  BY <1>2 DEF Waiting
<1> QED BY <1>3, Invisible

\* Every step is a step of the counting semaphore or invisible in it.
LEMMA NextRefines == IInv /\ [Next]_vars => [Abs!Next]_(Abs!avars)
<1> SUFFICES ASSUME IInv, [Next]_vars PROVE [Abs!Next]_(Abs!avars)
  OBVIOUS
<1> USE SemaphoreAssumption
<1>0. st \in [Task -> TaskState]
  BY DEF IInv, TypeOK
<1>1. ASSUME NEW t \in Task, Execute(t) PROVE UNCHANGED Abs!avars
  BY <1>0, <1>1, Invisible DEF Execute, Waiting, semVars
<1>2. ASSUME NEW t \in Task, Relock(t) PROVE UNCHANGED Abs!avars
  BY <1>0, <1>2, Invisible DEF Relock, Waiting, semVars
<1>3. ASSUME NEW t \in Task, Wait(t) PROVE UNCHANGED Abs!avars
  BY <1>0, <1>3, Invisible DEF Wait, Waiting, semVars
<1>4. ASSUME NEW t \in Task, Yield(t) PROVE UNCHANGED Abs!avars
  BY <1>0, <1>4, Invisible DEF Yield, Waiting, semVars
<1>5. ASSUME NEW t \in Task, Park(t) PROVE UNCHANGED Abs!avars
  BY <1>0, <1>5, Invisible DEF Park, Waiting, semVars
<1>6. ASSUME NEW t \in Task, Return(t) PROVE UNCHANGED Abs!avars
  BY <1>0, <1>6, Invisible DEF Return, Waiting, semVars
<1>7. ASSUME NEW t \in Task, RemoveParked(t) PROVE UNCHANGED Abs!avars
  BY <1>0, <1>7, Invisible DEF RemoveParked, Waiting, semVars
<1>8. ASSUME NEW t \in Task, DestroyPooled(t) PROVE UNCHANGED Abs!avars
  BY <1>0, <1>8, Invisible DEF DestroyPooled, Waiting, semVars
<1>9. ASSUME NEW t \in Task, DestroyFrame(t) PROVE UNCHANGED Abs!avars
  BY <1>0, <1>9, Invisible DEF DestroyFrame, Waiting, semVars
<1>10. ASSUME NEW t \in Task, Notify(t) PROVE UNCHANGED Abs!avars
  <2> DEFINE s == [st EXCEPT ![t] = "running"]
  <2>1. /\ s \in [Task -> TaskState]
        /\ \A u \in Task : s[u] = st[u] \/ {s[u], st[u]} \subseteq {"release", "running", "unwind", "dead"}
    BY <1>0, <1>10 DEF Notify, TaskState
  <2>2. ScheduleFromThis(blocked, s) /\ vacant' = vacant /\ holds' = holds
    BY <1>10 DEF Notify
  <2> HIDE DEF s
  <2> QED BY <2>1, <2>2, ScheduleKeepsWaiting
<1>11. ASSUME NEW t \in Task, UnwindNotify(t) PROVE UNCHANGED Abs!avars
  <2> DEFINE s == [st EXCEPT ![t] = "dead"]
  <2>1. /\ s \in [Task -> TaskState]
        /\ \A u \in Task : s[u] = st[u] \/ {s[u], st[u]} \subseteq {"release", "running", "unwind", "dead"}
    BY <1>0, <1>11 DEF UnwindNotify, TaskState
  <2>2. ScheduleFromThis(blocked, s) /\ vacant' = vacant /\ holds' = holds
    BY <1>11 DEF UnwindNotify
  <2> HIDE DEF s
  <2> QED BY <2>1, <2>2, ScheduleKeepsWaiting
<1>12. ASSUME PostNotify PROVE UNCHANGED Abs!avars
  BY <1>0, <1>12, ScheduleKeepsWaiting DEF PostNotify
<1>13. ASSUME NEW c \in Context, Shutdown(c) PROVE UNCHANGED Abs!avars
  BY <1>13, Invisible DEF Shutdown, Waiting, semVars
<1>14. ASSUME NEW c \in Context, Barrier(c) PROVE UNCHANGED Abs!avars
  BY <1>14, Invisible DEF Barrier, Waiting, semVars
<1>15. ASSUME NEW c \in Context, Join(c) PROVE UNCHANGED Abs!avars
  BY <1>15, Invisible DEF Join, Waiting, semVars
<1>16. ASSUME NEW t \in Task, Aquire(t) PROVE Abs!Request(t)
  BY <1>0, <1>16 DEF Aquire, Abs!Request, Waiting
<1>17. ASSUME NEW t \in Task, TakeVacant(t) PROVE Abs!Grant(t)
  BY <1>0, <1>17 DEF TakeVacant, Abs!Grant, Waiting
<1>18. ASSUME NEW t \in Task, Release(t) PROVE Abs!Give(t)
  BY <1>0, <1>18 DEF Release, Abs!Give, Waiting
<1>19. ASSUME NEW t \in Task, Unwind(t) PROVE Abs!Give(t)
  BY <1>0, <1>19 DEF Unwind, Abs!Give, Waiting
<1>20. ASSUME NEW t \in Task, RemoveWaiter(t) PROVE Abs!Cancel(t)
  <2>1. \A u \in Task : \/ u = t /\ st'[u] = "destroy"
                        \/ u # t /\ st'[u] = st[u]
                        \/ u # t /\ st[u] = "blocked" /\ st'[u] = "woken"
    BY <1>20, RemoveFacts DEF IInv
  <2>2. t \in Waiting /\ vacant' = vacant /\ holds' = holds
    BY <1>20 DEF RemoveWaiter, Waiting
  <2>3. Waiting' = Waiting \ {t}
    BY <2>1 DEF Waiting
  <2> QED BY <2>2, <2>3 DEF Abs!Cancel
<1>21. ASSUME Post PROVE Abs!Add
  BY <1>21 DEF Post, Abs!Add, Waiting
<1>22. ASSUME UNCHANGED vars PROVE UNCHANGED Abs!avars
  BY <1>22, Invisible DEF vars, Waiting
<1> QED
  BY <1>1, <1>2, <1>3, <1>4, <1>5, <1>6, <1>7, <1>8, <1>9, <1>10, <1>11, <1>12, <1>13, <1>14, <1>15, <1>16, <1>17, <1>18, <1>19, <1>20, <1>21, <1>22 DEF Next, Abs!Next

\* The semaphore is a counting semaphore.
THEOREM Refinement == Spec => ImplementsSemaphore
<1>1. Init => Abs!Init
  BY DEF Init, Abs!Init, Waiting
<1>2. IInv /\ [Next]_vars => [Abs!Next]_(Abs!avars)
  BY NextRefines
<1> QED BY <1>1, <1>2, Invariance, PTL DEF Spec, ImplementsSemaphore, Abs!SafeSpec

-----------------------------------------------------------------------------
(* No lost wake-up, for semaphores with one permit at most: a Mutex, and   *)
(* the one-shot signals of sleep, channels, selects and socket waits.      *)

\* A release() has made the permit free and not notified yet.
NotifyPending == mtx = Poster \/ \E t \in Task : st[t] \in {"release", "unwind"}

\* Somebody comes for the permit; if _scheduled_ctx is set, from that context,
\* so that _remove passes the wake-up on exactly when it removes the last of them.
TakerComes ==
  \/ scheduled_ctx = NoCtx /\ \E t \in Task : st[t] \in {"woken", "resume", "aquire"}
  \/ /\ scheduled_ctx # NoCtx
     /\ \E t \in Task : st[t] \in {"woken", "resume"} /\ CtxOf[t] = scheduled_ctx

WakeInv == vacant > 0 /\ blocked # <<>> => NotifyPending \/ TakerComes

\* Where there is one permit at most, at most one is free.
LEMMA OnePermit ==
  ASSUME IInv, Permits + MaxPost <= 1
  PROVE  vacant <= 1
<1>1. Cardinality(holds) \in Nat
  BY FS_Subset, FS_CardinalityType, SemaphoreAssumption DEF IInv, TypeOK
<1>2. /\ vacant + Cardinality(holds) = Permits + posted
      /\ vacant \in Nat /\ posted \in 0..MaxPost /\ Permits \in Nat /\ MaxPost \in Nat
  BY SemaphoreAssumption DEF IInv, TypeOK, PermitsConserved
<1>3. \A n \in Nat : vacant + n = Permits + posted => vacant <= 1
  BY <1>2
<1> QED BY <1>1, <1>2, <1>3

\* With one permit, every step keeps a notify() pending or a taker coming for a
\* permit that is free while tasks wait.
LEMMA WakeStep ==
  ASSUME Permits + MaxPost <= 1
  PROVE  IInv /\ WakeInv /\ [Next]_vars => WakeInv'
<1> SUFFICES ASSUME IInv, WakeInv, [Next]_vars PROVE WakeInv'
  OBVIOUS
<1> USE SemaphoreAssumption
<1>0. st \in [Task -> TaskState] /\ vacant \in Nat /\ vacant <= 1
  BY OnePermit DEF IInv, TypeOK
<1> USE <1>0 DEF WakeInv, NotifyPending, TakerComes, TaskState
<1>1. ASSUME NEW t \in Task, Execute(t) PROVE WakeInv'
  BY <1>1 DEF Execute, semVars
<1>2. ASSUME NEW t \in Task, Relock(t) PROVE WakeInv'
  BY <1>2 DEF Relock, semVars
<1>3. ASSUME NEW t \in Task, Aquire(t) PROVE WakeInv'
  BY <1>3 DEF Aquire, semVars
<1>4. ASSUME NEW t \in Task, TakeVacant(t) PROVE WakeInv'
  BY <1>4 DEF TakeVacant, semVars
<1>5. ASSUME NEW t \in Task, Wait(t) PROVE WakeInv'
  BY <1>5 DEF Wait, semVars
<1>6. ASSUME NEW t \in Task, Release(t) PROVE WakeInv'
  BY <1>6 DEF Release, semVars
<1>7. ASSUME NEW t \in Task, Notify(t) PROVE WakeInv'
  <2> DEFINE s == [st EXCEPT ![t] = "running"]
  <2>1. s \in [Task -> TaskState] /\ \A u \in Task : s[u] = "blocked" <=> u \in ToSet(blocked)
    BY <1>7 DEF Notify, IInv, ListInv
  <2>2. ScheduleFromThis(blocked, s)
    BY <1>7 DEF Notify
  <2> HIDE DEF s
  <2> QED BY <2>1, <2>2, ScheduleFacts DEF IInv, TypeOK, ListInv
<1>8. ASSUME NEW t \in Task, Yield(t) PROVE WakeInv'
  BY <1>8 DEF Yield, semVars
<1>9. ASSUME NEW t \in Task, Park(t) PROVE WakeInv'
  BY <1>9 DEF Park, semVars
<1>10. ASSUME NEW t \in Task, Return(t) PROVE WakeInv'
  BY <1>10 DEF Return, semVars
<1>11. ASSUME NEW t \in Task, RemoveWaiter(t) PROVE WakeInv'
  <2>1. \A u \in Task : \/ u = t /\ st'[u] = "destroy"
                        \/ u # t /\ st'[u] = st[u]
                        \/ u # t /\ st[u] = "blocked" /\ st'[u] = "woken"
    BY <1>11, RemoveFacts DEF IInv
  <2>2. \/ blocked' = <<>>
        \/ \E u \in Task : st'[u] = "woken" /\ scheduled_ctx' = CtxOf[u] /\ scheduled_ctx' # NoCtx
        \/ scheduled_ctx' = scheduled_ctx /\ scheduled_ctx \notin {NoCtx, CtxOf[t]}
    BY <1>11, RemoveFacts DEF IInv
  <2>3. vacant' = vacant /\ mtx' = mtx /\ st[t] \in {"blocked", "woken"}
    BY <1>11 DEF RemoveWaiter
  <2>4. CASE blocked' = <<>>
    BY <2>4
  <2>5. CASE \E u \in Task : st'[u] = "woken" /\ scheduled_ctx' = CtxOf[u] /\ scheduled_ctx' # NoCtx
    BY <2>5
  <2>6. CASE scheduled_ctx' = scheduled_ctx /\ scheduled_ctx \notin {NoCtx, CtxOf[t]} /\ blocked' # <<>>
    <3>1. blocked # <<>>
      BY <1>11, <2>6, RemoveFacts DEF IInv
    <3> QED BY <2>1, <2>3, <2>6, <3>1
  <2> QED BY <2>2, <2>4, <2>5, <2>6
<1>12. ASSUME NEW t \in Task, RemoveParked(t) PROVE WakeInv'
  BY <1>12 DEF RemoveParked, semVars
<1>13. ASSUME NEW t \in Task, DestroyPooled(t) PROVE WakeInv'
  BY <1>13 DEF DestroyPooled, semVars
<1>14. ASSUME NEW t \in Task, Unwind(t) PROVE WakeInv'
  BY <1>14 DEF Unwind, semVars
<1>15. ASSUME NEW t \in Task, UnwindNotify(t) PROVE WakeInv'
  <2> DEFINE s == [st EXCEPT ![t] = "dead"]
  <2>1. s \in [Task -> TaskState] /\ \A u \in Task : s[u] = "blocked" <=> u \in ToSet(blocked)
    BY <1>15 DEF UnwindNotify, IInv, ListInv
  <2>2. ScheduleFromThis(blocked, s)
    BY <1>15 DEF UnwindNotify
  <2> HIDE DEF s
  <2> QED BY <2>1, <2>2, ScheduleFacts DEF IInv, TypeOK, ListInv
<1>16. ASSUME NEW t \in Task, DestroyFrame(t) PROVE WakeInv'
  BY <1>16 DEF DestroyFrame, semVars
<1>17. ASSUME Post PROVE WakeInv'
  BY <1>17 DEF Post
<1>18. ASSUME PostNotify PROVE WakeInv'
  <2>1. \A u \in Task : st[u] = "blocked" <=> u \in ToSet(blocked)
    BY DEF IInv, ListInv
  <2>2. ScheduleFromThis(blocked, st)
    BY <1>18 DEF PostNotify
  <2> QED BY <2>1, <2>2, ScheduleFacts DEF IInv, TypeOK, ListInv
<1>19. ASSUME NEW c \in Context, Shutdown(c) PROVE WakeInv'
  BY <1>19 DEF Shutdown, semVars
<1>20. ASSUME NEW c \in Context, Barrier(c) PROVE WakeInv'
  BY <1>20 DEF Barrier, semVars
<1>21. ASSUME NEW c \in Context, Join(c) PROVE WakeInv'
  BY <1>21 DEF Join, semVars
<1>22. ASSUME UNCHANGED vars PROVE WakeInv'
  BY <1>22 DEF vars
<1> QED
  BY <1>1, <1>2, <1>3, <1>4, <1>5, <1>6, <1>7, <1>8, <1>9, <1>10, <1>11, <1>12, <1>13, <1>14, <1>15, <1>16, <1>17, <1>18, <1>19, <1>20, <1>21, <1>22 DEF Next

\* A wake-up is never lost in a Mutex or a one-shot signal, although the woken
\* task may be barged past, or its context shut down before it runs.
THEOREM NoLostWakeup ==
  ASSUME Permits + MaxPost <= 1
  PROVE  Spec => []WakeupsCoverPermits
<1>1. Init => WakeInv
  BY DEF Init, WakeInv
<1>2. IInv /\ WakeInv /\ [Next]_vars => WakeInv'
  BY WakeStep
<1>3. IInv /\ WakeInv => WakeupsCoverPermits
  <2> SUFFICES ASSUME IInv, WakeInv, blocked # <<>>
               PROVE  WakeupsCoverPermits
    BY DEF WakeupsCoverPermits
  <2> DEFINE W == {t \in Task : st[t] \in {"woken", "resume", "aquire", "release", "unwind"}}
  <2>1. IsFiniteSet(W) /\ Cardinality(W) \in Nat /\ (W # {} => Cardinality(W) # 0)
    BY FS_Subset, FS_CardinalityType, FS_EmptySet, SemaphoreAssumption
  <2>2. vacant \in Nat /\ vacant <= 1
    BY OnePermit DEF IInv, TypeOK
  <2>3. vacant > 0 => mtx = Poster \/ W # {}
    BY DEF WakeInv, NotifyPending, TakerComes
  <2>4. vacant <= Cardinality(W) + (IF mtx = Poster THEN 1 ELSE 0)
    <3> HIDE DEF W
    <3> QED BY <2>1, <2>2, <2>3
  <2> QED BY <2>4 DEF WakeupsCoverPermits
<1> QED BY <1>1, <1>2, <1>3, Invariance, PTL DEF Spec
================================================================================
