------------------------------ MODULE WorkersProofs ------------------------------
(***************************************************************************)
(* Workers, proved for any number of workers, tasks and threads: where a   *)
(* task is, that nothing refers to a destroyed one, and what final_schedule*)
(* leaves behind.                                                          *)
(***************************************************************************)
EXTENDS Workers, ListProofs, FiniteSetTheorems

Late == {"final", "exit"}

\* A task is linked in the queue, and kept in the pool, of its home worker only.
Homed(r) ==
  /\ r \in [Worker -> Seq(Task)]
  /\ \A w \in Worker : Distinct(r[w]) /\ \A t \in ToSet(r[w]) : Home(t) = w

In(r, t) == t \in ToSet(r[Home(t)])
InQueue(t) == In(q, t)

\* The two barriers divide the workers' lives into phases: before the first nobody
\* has left it, behind the second everybody is, and no coroutine is executed outside
\* run_scheduled.
PhaseInv ==
  /\ main = "new" => \A w \in Worker : pc[w] = "start"
  /\ \A v, w \in Worker : pc[v] = "start" => pc[w] = "start"
  /\ \A v, w \in Worker : pc[v] \in Late => pc[w] \in Late
  /\ \A w \in Worker : run[w] # NoTask => pc[w] \in {"own", "steal"}
  /\ \A w \in Worker : pc[w] = "stop" => slot[w] = 0
  /\ main \in {"joined", "noevent", "gone"} => \A w \in Worker : pc[w] = "exit"
  /\ main \in {"noevent", "gone"} => \A x \in Thread : creating[x] = NoTask

\* The pools have the tasks that were created and not finished yet.
ListInv ==
  /\ Homed(q)
  /\ Homed(pool)
  /\ \A t \in Task : In(pool, t) => t < tid
  /\ main # "gone" => \A t \in Task : st[t] \in {"fresh", "alive"} => In(pool, t)

\* Who holds a task: a thread that creates it, a queue, a worker, or a condition.
HolderInv ==
  /\ \A v, w \in Worker : run[v] = run[w] /\ run[v] # NoTask => v = w
  /\ \A x, y \in Thread : creating[x] = creating[y] /\ creating[x] # NoTask => x = y
  /\ \A w \in Worker : run[w] # NoTask =>
       st[run[w]] = "alive" /\ run[w] \notin cond /\ ~InQueue(run[w])
  /\ \A x \in Thread : creating[x] # NoTask =>
       st[creating[x]] = "fresh" /\ ~InQueue(creating[x])
  /\ main # "gone" => \A t \in Task : InQueue(t) => st[t] \in {"fresh", "alive"}
  /\ \A t \in Task : st[t] = "fresh" => InQueue(t) \/ \E x \in Thread : creating[x] = t
  /\ \A t \in Task : st[t] = "alive" /\ t \notin cond =>
       InQueue(t) \/ \E w \in Worker : run[w] = t
  /\ \A t \in cond : st[t] \in {"alive", "dead"}
  /\ \A t \in Task : st[t] = "none" <=> t >= tid

\* What final_schedule has passed waits for nothing any more.
FinalInv ==
  \A w \in Worker :
    /\ pc[w] = "final" =>
         \A i \in 1..Len(pool[w]) : i <= slot[w] /\ pool[w][i] \in cond => st[pool[w][i]] # "alive"
    /\ pc[w] = "exit" => \A t \in cond : Home(t) = w => st[t] # "alive"

IInv == Types /\ PhaseInv /\ ListInv /\ HolderInv /\ FinalInv

-----------------------------------------------------------------------------
(* Queues and pools.                                                       *)

LEMMA HomeFacts == \A t \in Task : Home(t) \in Worker
  BY WorkersAssumption DEF Home, Task, Worker

LEMMA TaskNat == Task \subseteq Nat
  BY WorkersAssumption DEF Task

\* Scheduler::push, Allocator::create.
LEMMA LinkFacts ==
  ASSUME NEW r, Homed(r), NEW t \in Task, ~In(r, t)
  PROVE  LET s == [r EXCEPT ![Home(t)] = Append(@, t)]
         IN  Homed(s) /\ \A u \in Task : In(s, u) <=> In(r, u) \/ u = t
  <1> DEFINE s == [r EXCEPT ![Home(t)] = Append(@, t)]
             h == Home(t)
  <1>1. h \in Worker /\ r[h] \in Seq(Task) /\ Distinct(r[h]) /\ t \notin ToSet(r[h])
    BY HomeFacts DEF Homed, In
  <1>2. /\ Append(r[h], t) \in Seq(Task)
        /\ Distinct(Append(r[h], t))
        /\ ToSet(Append(r[h], t)) = ToSet(r[h]) \cup {t}
    BY <1>1, AppendFacts
  <1>3. \A w \in Worker : s[w] = IF w = h THEN Append(r[h], t) ELSE r[w]
    BY DEF Homed
  <1>4. s \in [Worker -> Seq(Task)]
    BY <1>1, <1>2 DEF Homed
  <1> HIDE DEF s, h
  <1>5. \A w \in Worker : ToSet(s[w]) = IF w = h THEN ToSet(r[w]) \cup {t} ELSE ToSet(r[w])
    BY <1>2, <1>3
  <1>6. Homed(s)
    BY <1>1, <1>2, <1>3, <1>4, <1>5 DEF Homed, h
  <1>7. \A u \in Task : In(s, u) <=> In(r, u) \/ u = t
    BY <1>1, <1>5, HomeFacts DEF In, h
  <1> QED
    BY <1>6, <1>7 DEF s

\* Scheduler::pop.
LEMMA TakeFacts ==
  ASSUME NEW r, Homed(r), NEW p \in Worker, r[p] # <<>>
  PROVE  LET s == [r EXCEPT ![p] = Tail(@)]
             t == Head(r[p])
         IN  /\ t \in Task /\ In(r, t) /\ Homed(s)
             /\ \A u \in Task : In(s, u) <=> In(r, u) /\ u # t
  <1> DEFINE s == [r EXCEPT ![p] = Tail(@)]
             t == Head(r[p])
  <1>1. r[p] \in Seq(Task) /\ Distinct(r[p])
    BY DEF Homed
  <1>2. /\ t \in Task
        /\ Tail(r[p]) \in Seq(Task)
        /\ Distinct(Tail(r[p]))
        /\ ToSet(Tail(r[p])) = ToSet(r[p]) \ {t}
        /\ t \in ToSet(r[p])
    BY <1>1, TailFacts
  <1>3. \A w \in Worker : s[w] = IF w = p THEN Tail(r[p]) ELSE r[w]
    BY DEF Homed
  <1>4. s \in [Worker -> Seq(Task)]
    BY <1>2 DEF Homed
  <1> HIDE DEF s
  <1>5. \A w \in Worker : ToSet(s[w]) = IF w = p THEN ToSet(r[w]) \ {t} ELSE ToSet(r[w])
    BY <1>2, <1>3
  <1>6. Home(t) = p
    BY <1>2 DEF Homed
  <1> HIDE DEF t
  <1>7. Homed(s)
    BY <1>2, <1>3, <1>4, <1>5 DEF Homed
  <1>8. In(r, t) /\ \A u \in Task : In(s, u) <=> In(r, u) /\ u # t
    BY <1>2, <1>5, <1>6, HomeFacts DEF In
  <1> QED
    BY <1>2, <1>7, <1>8 DEF s, t

\* Allocator::destroy.
LEMMA DropFacts ==
  ASSUME NEW r, Homed(r), NEW t \in Task
  PROVE  LET s == [r EXCEPT ![Home(t)] = Unlink(@, t)]
         IN  Homed(s) /\ \A u \in Task : In(s, u) <=> In(r, u) /\ u # t
  <1> DEFINE s == [r EXCEPT ![Home(t)] = Unlink(@, t)]
             h == Home(t)
  <1>1. h \in Worker /\ r[h] \in Seq(Task) /\ Distinct(r[h])
    BY HomeFacts DEF Homed
  <1>2. /\ Unlink(r[h], t) \in Seq(Task)
        /\ Distinct(Unlink(r[h], t))
        /\ ToSet(Unlink(r[h], t)) = ToSet(r[h]) \ {t}
    BY <1>1, UnlinkFacts
  <1>3. \A w \in Worker : s[w] = IF w = h THEN Unlink(r[h], t) ELSE r[w]
    BY DEF Homed
  <1>4. s \in [Worker -> Seq(Task)]
    BY <1>2 DEF Homed
  <1> HIDE DEF s, h
  <1>5. \A w \in Worker : ToSet(s[w]) = IF w = h THEN ToSet(r[w]) \ {t} ELSE ToSet(r[w])
    BY <1>2, <1>3
  <1>6. Homed(s)
    BY <1>1, <1>2, <1>3, <1>4, <1>5 DEF Homed, h
  <1>7. \A u \in Task : In(s, u) <=> In(r, u) /\ u # t
    BY <1>1, <1>5, HomeFacts DEF In, h
  <1> QED
    BY <1>6, <1>7 DEF s

\* Condition::_remove of a task that was notified.
LEMMA DropAllFacts ==
  ASSUME NEW r, Homed(r), NEW t \in Task
  PROVE  LET s == [p \in Worker |-> Unlink(r[p], t)]
         IN  Homed(s) /\ \A u \in Task : In(s, u) <=> In(r, u) /\ u # t
  <1> DEFINE s == [p \in Worker |-> Unlink(r[p], t)]
  <1>1. \A w \in Worker : r[w] \in Seq(Task) /\ Distinct(r[w])
    BY DEF Homed
  <1>2. \A w \in Worker : /\ Unlink(r[w], t) \in Seq(Task)
                          /\ Distinct(Unlink(r[w], t))
                          /\ ToSet(Unlink(r[w], t)) = ToSet(r[w]) \ {t}
    BY <1>1, UnlinkFacts
  <1>3. \A w \in Worker : s[w] = Unlink(r[w], t)
    OBVIOUS
  <1>4. s \in [Worker -> Seq(Task)]
    BY <1>2
  <1> HIDE DEF s
  <1>5. \A w \in Worker : ToSet(s[w]) = ToSet(r[w]) \ {t}
    BY <1>2, <1>3
  <1>6. Homed(s)
    BY <1>2, <1>3, <1>4, <1>5 DEF Homed
  <1>7. \A u \in Task : In(s, u) <=> In(r, u) /\ u # t
    BY <1>5, HomeFacts DEF In
  <1> QED
    BY <1>6, <1>7 DEF s

-----------------------------------------------------------------------------
(* The invariant: the start, and the steps that move no task.              *)

LEMMA InitHolds == Init => IInv
  <1> SUFFICES ASSUME Init PROVE IInv
    OBVIOUS
  <1> USE WorkersAssumption
  <1>1. <<>> \in Seq(Task) /\ ToSet(<<>>) = {} /\ Distinct(<<>>)
    BY DEF ToSet, Distinct
  <1>2. Types
    BY <1>1 DEF Init, Types
  <1>3. Homed(q) /\ Homed(pool) /\ \A t \in Task : ~In(q, t) /\ ~In(pool, t)
    BY <1>1, HomeFacts DEF Init, Homed, In
  <1>4. PhaseInv /\ FinalInv
    BY DEF Init, PhaseInv, FinalInv, Late
  <1>5. ListInv
    BY <1>3 DEF Init, ListInv
  <1>6. HolderInv
    BY <1>3 DEF Init, HolderInv, InQueue, Task
  <1> QED
    BY <1>2, <1>4, <1>5, <1>6 DEF IInv

LEMMA TasksKept ==
  ASSUME IInv, UNCHANGED <<run, taskVars>>, main = "gone" => main' = "gone"
  PROVE  ListInv' /\ HolderInv'
  <1>1. ListInv'
    BY DEF IInv, ListInv, Homed, In, taskVars
  <1>2. HolderInv'
    BY DEF IInv, HolderInv, InQueue, In, taskVars
  <1> QED
    BY <1>1, <1>2

LEMMA MainKeeps ==
  IInv /\ (Startup \/ Shutdown \/ Join \/ DestroyEventContext) => IInv'
  <1> SUFFICES ASSUME IInv, Startup \/ Shutdown \/ Join \/ DestroyEventContext PROVE IInv'
    OBVIOUS
  <1> USE DEF Startup, Shutdown, Join, DestroyEventContext, wVars, taskVars
  <1>1. ListInv' /\ HolderInv'
    BY TasksKept
  <1>2. Types'
    BY DEF IInv, Types
  <1>3. PhaseInv'
    BY DEF IInv, PhaseInv
  <1>4. FinalInv'
    BY DEF IInv, FinalInv
  <1> QED
    BY <1>1, <1>2, <1>3, <1>4 DEF IInv

LEMMA StartBarrierKeeps == IInv /\ StartBarrier => IInv'
  <1> SUFFICES ASSUME IInv, StartBarrier PROVE IInv'
    OBVIOUS
  <1> USE DEF StartBarrier
  <1>1. ListInv' /\ HolderInv'
    BY TasksKept
  <1>2. Types' /\ FinalInv'
    BY DEF IInv, Types, FinalInv, taskVars
  <1>3. PhaseInv'
    <2>1. \A w \in Worker : pc'[w] = "poll" /\ pc[w] = "start" /\ run[w] = NoTask
      BY DEF IInv, PhaseInv
    <2>2. Worker # {}
      BY WorkersAssumption DEF Worker
    <2> QED
      BY <2>1, <2>2 DEF IInv, PhaseInv, Late, taskVars
  <1> QED
    BY <1>1, <1>2, <1>3 DEF IInv

LEMMA StopBarrierKeeps == IInv /\ StopBarrier => IInv'
  <1> SUFFICES ASSUME IInv, StopBarrier PROVE IInv'
    OBVIOUS
  <1> USE DEF StopBarrier
  <1>1. ListInv' /\ HolderInv'
    BY TasksKept
  <1>2. Types'
    BY DEF IInv, Types, taskVars
  <1>3. \A w \in Worker : /\ pc[w] = "stop" /\ pc'[w] = "final" /\ run[w] = NoTask
                          /\ slot'[w] = 0
    BY DEF IInv, PhaseInv
  <1>4. Worker # {}
    BY WorkersAssumption DEF Worker
  <1>5. PhaseInv'
    BY <1>3, <1>4 DEF IInv, PhaseInv, Late, taskVars
  <1>6. FinalInv'
    BY <1>3 DEF FinalInv
  <1> QED
    BY <1>1, <1>2, <1>5, <1>6 DEF IInv

LEMMA PollKeeps == ASSUME NEW w \in Worker, IInv, Poll(w) PROVE IInv'
  <1> USE DEF Poll
  <1>1. ListInv' /\ HolderInv'
    BY TasksKept
  <1>2. Types'
    BY WorkersAssumption DEF IInv, Types, taskVars
  <1>3. /\ pc[w] = "poll" /\ pc'[w] \in {"own", "stop"} /\ slot'[w] = 0 /\ run[w] = NoTask
        /\ \A v \in Worker \ {w} : pc'[v] = pc[v] /\ slot'[v] = slot[v]
    BY DEF IInv, PhaseInv, Types
  <1>4. PhaseInv'
    BY <1>3 DEF IInv, PhaseInv, Late, taskVars
  <1>5. FinalInv'
    BY <1>3 DEF IInv, FinalInv, taskVars
  <1> QED
    BY <1>1, <1>2, <1>4, <1>5 DEF IInv

\* final_schedule has seen the whole pool.
LEMMA ExitKeeps == ASSUME NEW w \in Worker, IInv, Exit(w) PROVE IInv'
  <1> USE DEF Exit
  <1>1. ListInv' /\ HolderInv'
    BY TasksKept
  <1>2. Types'
    BY DEF IInv, Types, taskVars
  <1>3. /\ pc[w] = "final" /\ pc'[w] = "exit" /\ run[w] = NoTask
        /\ \A v \in Worker \ {w} : pc'[v] = pc[v]
    BY DEF IInv, PhaseInv, Types
  <1>4. PhaseInv'
    BY <1>3 DEF IInv, PhaseInv, Late, taskVars
  <1>5. main # "gone"
    BY <1>3 DEF IInv, PhaseInv
  <1>6. ASSUME NEW t \in cond, Home(t) = w PROVE st[t] # "alive"
    <2> SUFFICES ASSUME st[t] = "alive" PROVE FALSE
      OBVIOUS
    <2>1. t \in Task /\ In(pool, t)
      BY <1>5 DEF IInv, Types, ListInv
    <2>2. pool[w] \in Seq(Task) /\ t \in ToSet(pool[w])
      BY <1>6, <2>1 DEF In, IInv, Types
    <2>3. PICK i \in 1..Len(pool[w]) : pool[w][i] = t
      BY <2>2, LenProperties DEF ToSet
    <2>4. i <= slot[w]
      BY <2>2, <2>3, LenProperties DEF IInv, Types
    <2> QED
      BY <1>3, <2>3, <2>4 DEF IInv, FinalInv
  <1>7. FinalInv'
    BY <1>3, <1>6 DEF IInv, FinalInv, taskVars
  <1> QED
    BY <1>1, <1>2, <1>4, <1>7 DEF IInv

\* ~SchedContext.
LEMMA DestroySchedContextKeeps == IInv /\ DestroySchedContext => IInv'
  <1> SUFFICES ASSUME IInv, DestroySchedContext PROVE IInv'
    OBVIOUS
  <1> USE DEF DestroySchedContext, wVars
  <1>0. <<>> \in Seq(Task) /\ ToSet(<<>>) = {} /\ Distinct(<<>>)
    BY DEF ToSet, Distinct
  <1>1. Types'
    BY <1>0 DEF IInv, Types
  <1>2. \A w \in Worker : pc[w] = "exit" /\ run[w] = NoTask
    BY DEF IInv, PhaseInv
  <1>3. \A x \in Thread : creating[x] = NoTask
    BY DEF IInv, PhaseInv
  <1>4. PhaseInv'
    BY <1>2, <1>3 DEF IInv, PhaseInv
  <1>5. \A t \in Task : /\ st'[t] \notin {"fresh", "alive"}
                        /\ st[t] = "none" <=> st'[t] = "none"
                        /\ st[t] \in {"alive", "dead"} => st'[t] = "dead"
    BY DEF IInv, Types
  <1>6. ListInv'
    <2>1. Homed(q')
      BY DEF IInv, ListInv
    <2>2. Homed(pool') /\ \A t \in Task : ~In(pool', t)
      BY <1>0, HomeFacts DEF Homed, In
    <2> QED
      BY <2>1, <2>2 DEF ListInv, Homed, In
  <1>7. HolderInv'
    BY <1>2, <1>3, <1>5 DEF IInv, HolderInv, Types
  <1>8. FinalInv'
    BY <1>2, <1>5 DEF IInv, FinalInv, Types
  <1> QED
    BY <1>1, <1>4, <1>6, <1>7, <1>8 DEF IInv

-----------------------------------------------------------------------------
(* The steps of threads that create and notify tasks.                      *)

\* create_scheduled up to Allocator::create.
LEMMA CreateKeeps == ASSUME NEW x \in Thread, IInv, Create(x) PROVE IInv'
  <1> USE WorkersAssumption
  <1>1. /\ tid \in Task /\ st[tid] = "none" /\ tid' = tid + 1 /\ tid \in Nat
        /\ main \in {"up", "closing", "joined"} /\ creating[x] = NoTask
        /\ UNCHANGED <<main, wVars, run, q, cond>>
        /\ pool' = [pool EXCEPT ![Home(tid)] = Append(@, tid)]
        /\ creating' = [creating EXCEPT ![x] = tid]
        /\ st' = [st EXCEPT ![tid] = "fresh"]
    BY DEF Create, CanCall, IInv, Types, HolderInv, Task
  <1>2. ~In(pool, tid) /\ ~In(q, tid) /\ tid \notin cond
    BY <1>1 DEF IInv, ListInv, HolderInv, InQueue
  <1>3. (\A w \in Worker : run[w] # tid) /\ (\A y \in Thread : creating[y] # tid)
    BY <1>1 DEF IInv, HolderInv
  <1>4. Homed(pool') /\ \A u \in Task : In(pool', u) <=> In(pool, u) \/ u = tid
    BY <1>1, <1>2, LinkFacts DEF IInv, ListInv
  <1>5. Types'
    <2>1. tid' \in 0..MaxTask
      BY <1>1 DEF Task
    <2> QED
      BY <1>1, <1>4, <2>1 DEF IInv, Types, Homed, wVars
  <1>6. PhaseInv'
    BY <1>1 DEF IInv, PhaseInv, wVars
  <1>7. ListInv'
    <2>1. Homed(q')
      BY <1>1 DEF IInv, ListInv
    <2>2. ASSUME NEW u \in Task, In(pool', u) PROVE u < tid'
      <3>1. u < tid \/ u = tid
        BY <1>4, <2>2 DEF IInv, ListInv
      <3> QED
        BY <1>1, <3>1, TaskNat
    <2>3. \A u \in Task : st'[u] \in {"fresh", "alive"} => In(pool', u)
      BY <1>1, <1>4 DEF IInv, ListInv, Types
    <2> QED
      BY <1>4, <2>1, <2>2, <2>3 DEF ListInv, Homed, In
  <1>8. HolderInv'
    <2>1. \A u \in Task : In(q', u) <=> In(q, u)
      BY <1>1 DEF InQueue, In
    <2>2. \A u \in Task : st'[u] = IF u = tid THEN "fresh" ELSE st[u]
      BY <1>1 DEF IInv, Types
    <2>3. \A y \in Thread : creating'[y] = IF y = x THEN tid ELSE creating[y]
      BY <1>1 DEF IInv, Types
    <2>4. ASSUME NEW u \in Task PROVE st'[u] = "none" <=> u >= tid'
      <3>1. u \in Nat /\ (st[u] = "none" <=> u >= tid)
        BY TaskNat DEF IInv, HolderInv
      <3>2. u >= tid' <=> u >= tid /\ u # tid
        BY <1>1, <3>1
      <3>3. st'[u] = "none" <=> st[u] = "none" /\ u # tid
        BY <2>2
      <3> QED
        BY <3>1, <3>2, <3>3
    <2>5. \A y \in Thread : creating[y] \in Task \cup {NoTask}
      BY DEF IInv, Types
    <2>6. \A w \in Worker : run[w] \in Task \cup {NoTask}
      BY DEF IInv, Types
    <2>7. \A u \in Task : st'[u] = "fresh" => In(q', u) \/ \E y \in Thread : creating'[y] = u
      BY <1>1, <2>1, <2>2, <2>3 DEF IInv, HolderInv, InQueue
    <2>8. \A y, z \in Thread : creating'[y] = creating'[z] /\ creating'[y] # NoTask => y = z
      BY <1>3, <2>3 DEF IInv, HolderInv
    <2>9. \A y \in Thread : creating'[y] # NoTask =>
            st'[creating'[y]] = "fresh" /\ ~In(q', creating'[y])
      BY <1>1, <1>2, <2>1, <2>2, <2>3, <2>5 DEF IInv, HolderInv, InQueue, In
    <2>10. \A w \in Worker : run'[w] # NoTask =>
            st'[run'[w]] = "alive" /\ run'[w] \notin cond' /\ ~In(q', run'[w])
      BY <1>1, <1>3, <2>1, <2>2, <2>6 DEF IInv, HolderInv, InQueue, In
    <2>11. \A t \in cond : st'[t] \in {"alive", "dead"}
      BY <1>2, <2>2 DEF IInv, HolderInv, Types
    <2> QED
      BY <1>1, <2>1, <2>2, <2>4, <2>7, <2>8, <2>9, <2>10, <2>11 DEF IInv, HolderInv, InQueue, In
  <1>9. FinalInv'
    <2>1. ASSUME NEW w \in Worker, NEW i \in 1..Len(pool'[w]), pool'[w][i] \in cond
          PROVE  i \in 1..Len(pool[w]) /\ pool'[w][i] = pool[w][i]
      <3>1. CASE w = Home(tid)
        <4>1. pool'[w] = Append(pool[w], tid) /\ pool[w] \in Seq(Task)
          BY <1>1, <3>1 DEF IInv, Types
        <4>2. /\ Len(pool'[w]) = Len(pool[w]) + 1 /\ Len(pool[w]) \in Nat
              /\ \A j \in 1..Len(pool[w]) : pool'[w][j] = pool[w][j]
              /\ pool'[w][Len(pool[w]) + 1] = tid
          BY <1>1, <4>1, AppendProperties, LenProperties
        <4> QED
          BY <1>2, <2>1, <4>2
      <3>2. CASE w # Home(tid)
        BY <1>1, <2>1, <3>2 DEF IInv, Types
      <3> QED
        BY <3>1, <3>2
    <2>2. \A u \in cond : st'[u] = st[u]
      BY <1>1, <1>2 DEF IInv, Types
    <2> QED
      BY <1>1, <2>1, <2>2 DEF IInv, FinalInv, wVars
  <1> QED
    BY <1>5, <1>6, <1>7, <1>8, <1>9 DEF IInv

\* The steps that push a task t, from a thread that creates it, from a worker that it
\* yields, or from a condition.
LEMMA PushFacts ==
  ASSUME IInv, NEW t \in Task, ~InQueue(t), st[t] \in {"fresh", "alive"},
         q' = [q EXCEPT ![Home(t)] = Append(@, t)], UNCHANGED <<pool, tid, st>>, main' = main
  PROVE  /\ q' \in [Worker -> Seq(Task)]
         /\ ListInv'
         /\ \A u \in Task : In(q', u) <=> InQueue(u) \/ u = t
  <1>1. Homed(q') /\ \A u \in Task : In(q', u) <=> In(q, u) \/ u = t
    BY LinkFacts DEF IInv, ListInv, InQueue
  <1>2. ListInv'
    BY <1>1 DEF IInv, ListInv, Homed, In
  <1>3. \A u \in Task : In(q', u) <=> InQueue(u) \/ u = t
    BY <1>1 DEF InQueue, In
  <1> QED
    BY <1>1, <1>2, <1>3 DEF Homed

LEMMA PushKeeps == ASSUME NEW x \in Thread, IInv, Push(x) PROVE IInv'
  <1> USE WorkersAssumption
  <1> DEFINE t == creating[x]
  <1>1. /\ t \in Task /\ st[t] = "fresh" /\ ~InQueue(t)
        /\ UNCHANGED <<main, wVars, run, pool, tid, st, cond>>
        /\ q' = [q EXCEPT ![Home(t)] = Append(@, t)]
        /\ creating' = [creating EXCEPT ![x] = NoTask]
    BY DEF Push, IInv, Types, HolderInv
  <1>2. \A y \in Thread : creating'[y] = IF y = x THEN NoTask ELSE creating[y]
    BY <1>1 DEF IInv, Types
  <1>3. \A y \in Thread : creating[y] = t => y = x
    BY <1>1 DEF IInv, HolderInv
  <1> HIDE DEF t
  <1>4. /\ q' \in [Worker -> Seq(Task)]
        /\ ListInv'
        /\ \A u \in Task : In(q', u) <=> InQueue(u) \/ u = t
    BY <1>1, PushFacts
  <1>5. Types'
    BY <1>1, <1>4 DEF IInv, Types, wVars
  <1>6. PhaseInv'
    BY <1>1, <1>2 DEF IInv, PhaseInv, wVars
  <1>7. FinalInv'
    BY <1>1 DEF IInv, FinalInv, wVars
  <1>8. HolderInv'
    <2>1. \A w \in Worker : run[w] # t /\ run[w] \in Task \cup {NoTask}
      BY <1>1 DEF IInv, HolderInv, Types
    <2>2. \A y \in Thread : creating'[y] # NoTask => creating'[y] = creating[y] /\ creating[y] # t
      BY <1>2, <1>3
    <2>3. \A y \in Thread : creating[y] \in Task \cup {NoTask}
      BY DEF IInv, Types
    <2>4. \A y \in Thread : creating'[y] # NoTask =>
            st'[creating'[y]] = "fresh" /\ ~In(q', creating'[y])
      BY <1>1, <1>4, <2>2, <2>3 DEF IInv, HolderInv, InQueue, In
    <2>5. \A w \in Worker : run'[w] # NoTask =>
            st'[run'[w]] = "alive" /\ run'[w] \notin cond' /\ ~In(q', run'[w])
      BY <1>1, <1>4, <2>1 DEF IInv, HolderInv, InQueue, In
    <2>6. \A u \in Task : st'[u] = "fresh" => In(q', u) \/ \E y \in Thread : creating'[y] = u
      <3> SUFFICES ASSUME NEW u \in Task, st[u] = "fresh", u # t, ~InQueue(u)
                   PROVE  \E y \in Thread : creating'[y] = u
        BY <1>1, <1>4
      <3>1. PICK y \in Thread : creating[y] = u
        BY DEF IInv, HolderInv
      <3> QED
        BY <1>2, <3>1 DEF t
    <2>7. \A y, z \in Thread : creating'[y] = creating'[z] /\ creating'[y] # NoTask => y = z
      BY <1>2 DEF IInv, HolderInv
    <2>8. \A u \in Task : In(q', u) /\ main' # "gone" => st'[u] \in {"fresh", "alive"}
      BY <1>1, <1>4 DEF IInv, HolderInv
    <2>9. \A u \in Task : st'[u] = "alive" /\ u \notin cond' =>
            In(q', u) \/ \E w \in Worker : run'[w] = u
      BY <1>1, <1>4 DEF IInv, HolderInv
    <2> QED
      BY <1>1, <2>4, <2>5, <2>6, <2>7, <2>8, <2>9 DEF IInv, HolderInv, InQueue, In
  <1> QED
    BY <1>4, <1>5, <1>6, <1>7, <1>8 DEF IInv

LEMMA NotifyKeeps == ASSUME NEW t \in Task, IInv, Notify(t) PROVE IInv'
  <1> USE WorkersAssumption
  <1>1. /\ t \in cond /\ st[t] = "alive" /\ ~InQueue(t) /\ (\A w \in Worker : run[w] # t)
        /\ UNCHANGED <<main, wVars, run, pool, tid, creating, st, cond>>
        /\ q' = [q EXCEPT ![Home(t)] = Append(@, t)]
    BY DEF Notify, Suspended, InQueue, In
  <1>2. /\ q' \in [Worker -> Seq(Task)]
        /\ ListInv'
        /\ \A u \in Task : In(q', u) <=> InQueue(u) \/ u = t
    BY <1>1, PushFacts
  <1>3. Types'
    BY <1>1, <1>2 DEF IInv, Types, wVars
  <1>4. PhaseInv'
    BY <1>1 DEF IInv, PhaseInv, wVars
  <1>5. FinalInv'
    BY <1>1 DEF IInv, FinalInv, wVars
  <1>6. HolderInv'
    <2>1. \A y \in Thread : creating[y] # t /\ creating[y] \in Task \cup {NoTask}
      BY <1>1 DEF IInv, HolderInv, Types
    <2>2. \A w \in Worker : run[w] \in Task \cup {NoTask}
      BY DEF IInv, Types
    <2>3. \A y \in Thread : creating'[y] # NoTask =>
            st'[creating'[y]] = "fresh" /\ ~In(q', creating'[y])
      BY <1>1, <1>2, <2>1 DEF IInv, HolderInv, InQueue, In
    <2>4. \A w \in Worker : run'[w] # NoTask =>
            st'[run'[w]] = "alive" /\ run'[w] \notin cond' /\ ~In(q', run'[w])
      BY <1>1, <1>2, <2>2 DEF IInv, HolderInv, InQueue, In
    <2>5. \A u \in Task : /\ InQueue(u) => In(q', u)
                          /\ In(q', u) => InQueue(u) \/ st[u] = "alive"
      BY <1>1, <1>2
    <2> QED
      BY <1>1, <2>3, <2>4, <2>5 DEF IInv, HolderInv, InQueue, In
  <1> QED
    BY <1>2, <1>3, <1>4, <1>5, <1>6 DEF IInv

-----------------------------------------------------------------------------
(* The steps of workers in run_scheduled.                                  *)

\* While one worker is in run_scheduled none is behind the second barrier.
LEMMA InPhase ==
  ASSUME IInv, NEW w \in Worker, pc[w] \in {"own", "steal"}
  PROVE  /\ main \notin {"new", "joined", "noevent", "gone"}
         /\ \A v \in Worker : pc[v] \notin Late /\ pc[v] # "start"
  BY DEF IInv, PhaseInv, Late

\* Scheduler::pop and the start of _execute.
LEMMA PopKeeps ==
  ASSUME IInv, NEW w \in Worker, NEW p \in Worker, Pop(w, p),
         pc[w] \in {"own", "steal"}, run[w] = NoTask, cnt[w] < BatchSize,
         UNCHANGED <<main, pc, pool, tid, creating>>,
         slot' \in [Worker -> Nat], \A v \in Worker \ {w} : slot'[v] = slot[v]
  PROVE  IInv'
  <1> USE WorkersAssumption
  <1> DEFINE t == Head(q[p])
  <1>0. /\ main \notin {"new", "joined", "noevent", "gone"}
        /\ \A v \in Worker : pc[v] \notin Late /\ pc[v] # "start"
    BY InPhase
  <1>1. /\ q[p] # <<>> /\ q' = [q EXCEPT ![p] = Tail(@)]
        /\ run' = [run EXCEPT ![w] = t]
        /\ cond' = cond \ {t}
        /\ st' = [st EXCEPT ![t] = "alive"]
        /\ cnt' = [cnt EXCEPT ![w] = @ + 1]
    BY DEF Pop, Execute
  <1>2. t \in Task /\ In(q, t) /\ Homed(q') /\ \A u \in Task : In(q', u) <=> In(q, u) /\ u # t
    BY <1>1, TakeFacts DEF IInv, ListInv
  <1> HIDE DEF t
  <1>3. /\ st[t] \in {"fresh", "alive"} /\ t # NoTask
        /\ \A v \in Worker : run[v] # t
        /\ \A x \in Thread : creating[x] # t
    BY <1>0, <1>2 DEF IInv, HolderInv, InQueue
  <1>4. /\ \A v \in Worker : run'[v] = IF v = w THEN t ELSE run[v]
        /\ \A u \in Task : st'[u] = IF u = t THEN "alive" ELSE st[u]
    BY <1>1 DEF IInv, Types
  <1>5. Types'
    <2>1. cnt' \in [Worker -> 0..BatchSize]
      BY <1>1 DEF IInv, Types
    <2> QED
      BY <1>1, <1>2, <2>1 DEF IInv, Types, Homed
  <1>6. PhaseInv'
    BY <1>0, <1>1, <1>4 DEF IInv, PhaseInv, Late
  <1>7. ListInv'
    <2>1. \A u \in Task : st'[u] \in {"fresh", "alive"} => In(pool', u)
      BY <1>0, <1>3, <1>4 DEF IInv, ListInv
    <2>2. Homed(pool') /\ \A u \in Task : In(pool', u) => u < tid'
      BY DEF IInv, ListInv
    <2> QED
      BY <1>2, <2>1, <2>2 DEF ListInv, Homed, In
  <1>8. FinalInv'
    BY <1>0 DEF FinalInv, Late
  <1>9. HolderInv'
    <2>1. \A x \in Thread : creating[x] \in Task \cup {NoTask}
      BY DEF IInv, Types
    <2>2. \A v \in Worker : run[v] \in Task \cup {NoTask}
      BY DEF IInv, Types
    <2>3. ASSUME NEW v \in Worker, run'[v] # NoTask
          PROVE  st'[run'[v]] = "alive" /\ run'[v] \notin cond' /\ ~In(q', run'[v])
      <3>1. CASE v = w
        BY <1>1, <1>2, <1>4, <3>1 DEF In
      <3>2. CASE v # w
        <4>1. run'[v] = run[v] /\ run[v] \in Task /\ run[v] # t
          BY <1>3, <1>4, <2>2, <2>3, <3>2
        <4>2. st[run[v]] = "alive" /\ run[v] \notin cond /\ ~In(q, run[v])
          BY <2>3, <4>1 DEF IInv, HolderInv, InQueue
        <4> QED
          BY <1>1, <1>2, <1>4, <4>1, <4>2 DEF In
      <3> QED
        BY <3>1, <3>2
    <2>4. \A x \in Thread : creating'[x] # NoTask =>
            st'[creating'[x]] = "fresh" /\ ~In(q', creating'[x])
      BY <1>2, <1>3, <1>4, <2>1 DEF IInv, HolderInv, InQueue
    <2>5. \A u \in Task : st'[u] = "fresh" => In(q', u) \/ \E x \in Thread : creating'[x] = u
      BY <1>2, <1>4 DEF IInv, HolderInv, InQueue
    <2>6. ASSUME NEW u \in Task, st'[u] = "alive", u \notin cond'
          PROVE  In(q', u) \/ \E v \in Worker : run'[v] = u
      <3>1. CASE u = t
        BY <1>4, <3>1
      <3>2. CASE u # t
        <4>1. In(q, u) \/ \E v \in Worker : run[v] = u
          BY <1>1, <1>4, <2>6, <3>2 DEF IInv, HolderInv, InQueue
        <4> QED
          BY <1>2, <1>4, <3>2, <4>1
      <3> QED
        BY <3>1, <3>2
    <2>7. \A u, v \in Worker : run'[u] = run'[v] /\ run'[u] # NoTask => u = v
      BY <1>3, <1>4 DEF IInv, HolderInv
    <2>8. \A u \in cond' : st'[u] \in {"alive", "dead"}
      BY <1>1, <1>4 DEF IInv, HolderInv, Types
    <2>9. \A u \in Task : In(q', u) => st'[u] \in {"fresh", "alive"}
      BY <1>0, <1>2, <1>4 DEF IInv, HolderInv, InQueue
    <2>10. \A u \in Task : st'[u] = "none" <=> u >= tid
      BY <1>3, <1>4 DEF IInv, HolderInv
    <2> QED
      BY <2>3, <2>4, <2>5, <2>6, <2>7, <2>8, <2>9, <2>10 DEF IInv, HolderInv, InQueue, In
  <1> QED
    BY <1>5, <1>6, <1>7, <1>8, <1>9 DEF IInv

\* The steps of run_scheduled that take nothing.
LEMMA TurnKeeps ==
  ASSUME IInv, NEW w \in Worker, pc[w] \in {"own", "steal"}, run[w] = NoTask,
         NEW l \in {"own", "steal", "poll"}, pc' = [pc EXCEPT ![w] = l],
         UNCHANGED <<main, cnt, run, taskVars>>,
         slot' \in [Worker -> Nat], \A v \in Worker \ {w} : slot'[v] = slot[v]
  PROVE  IInv'
  <1>0. \A v \in Worker : pc[v] \notin Late /\ pc[v] # "start"
    BY InPhase
  <1>1. ListInv' /\ HolderInv'
    BY TasksKept
  <1>2. \A v \in Worker : pc'[v] = IF v = w THEN l ELSE pc[v]
    BY DEF IInv, Types
  <1>3. Types'
    BY DEF IInv, Types, taskVars
  <1>4. PhaseInv'
    BY <1>0, <1>2 DEF IInv, PhaseInv, Late, taskVars
  <1>5. FinalInv'
    BY <1>0, <1>2 DEF FinalInv, Late
  <1> QED
    BY <1>1, <1>3, <1>4, <1>5 DEF IInv

LEMMA RunOwnKeeps == ASSUME NEW w \in Worker, IInv, RunOwn(w) PROVE IInv'
  <1> USE DEF RunOwn
  <1>1. slot' \in [Worker -> Nat] /\ \A v \in Worker \ {w} : slot'[v] = slot[v]
    BY DEF IInv, Types
  <1>2. CASE Pop(w, w) /\ cnt[w] < BatchSize /\ UNCHANGED pc
    BY <1>1, <1>2, PopKeeps
  <1>3. CASE UNCHANGED <<q, run, cond, st, cnt>> /\ \E l \in {"poll", "steal"} : pc' = [pc EXCEPT ![w] = l]
    BY <1>1, <1>3, TurnKeeps DEF taskVars
  <1> QED
    BY <1>2, <1>3

LEMMA StealKeeps == ASSUME NEW w \in Worker, IInv, Steal(w) PROVE IInv'
  <1> DEFINE p == (w + slot[w]) % N
  <1>1. p \in Worker
    <2>1. w \in Nat /\ slot[w] \in Nat
      BY WorkersAssumption DEF Worker, IInv, Types
    <2> QED
      BY <2>1, WorkersAssumption DEF Worker
  <1>2. slot' \in [Worker -> Nat] /\ \A v \in Worker \ {w} : slot'[v] = slot[v]
    <2>1. slot' = slot \/ slot' = [slot EXCEPT ![w] = @ + 1]
      BY DEF Steal
    <2> QED
      BY <2>1 DEF IInv, Types
  <1>3. CASE Pop(w, p) /\ cnt[w] < BatchSize /\ UNCHANGED pc
    BY <1>1, <1>2, <1>3, PopKeeps DEF Steal
  <1>4. CASE UNCHANGED <<q, run, cond, st, cnt>> /\ \E l \in {"poll", "steal"} : pc' = [pc EXCEPT ![w] = l]
    BY <1>2, <1>4, TurnKeeps DEF taskVars, Steal
  <1>5. pc = [pc EXCEPT ![w] = "steal"]
    BY DEF Steal, IInv, Types
  <1> QED
    BY <1>3, <1>4, <1>5 DEF Steal

\* What holds of a worker that executes a task.
LEMMA RunFacts ==
  ASSUME IInv, NEW w \in Worker, run[w] # NoTask
  PROVE  /\ main \notin {"new", "joined", "noevent", "gone"}
         /\ \A v \in Worker : pc[v] \notin Late
         /\ run[w] \in Task /\ st[run[w]] = "alive" /\ run[w] \notin cond /\ ~In(q, run[w])
         /\ \A v \in Worker \ {w} : run[v] # run[w]
         /\ \A x \in Thread : creating[x] # run[w]
  <1>1. pc[w] \in {"own", "steal"}
    BY DEF IInv, PhaseInv
  <1>2. run[w] \in Task
    BY DEF IInv, Types
  <1>3. /\ st[run[w]] = "alive" /\ run[w] \notin cond /\ ~In(q, run[w])
        /\ \A v \in Worker \ {w} : run[v] # run[w]
    BY DEF IInv, HolderInv, InQueue, In
  <1>4. \A x \in Thread : creating[x] # run[w]
    BY <1>3 DEF IInv, HolderInv
  <1> QED
    BY <1>1, <1>2, <1>3, <1>4, InPhase

\* The coroutine returned: Allocator::destroy.
LEMMA DoneKeeps == ASSUME NEW w \in Worker, IInv, Done(w) PROVE IInv'
  <1> USE WorkersAssumption
  <1> DEFINE t == run[w]
  <1>1. /\ t # NoTask
        /\ pool' = [pool EXCEPT ![Home(t)] = Unlink(@, t)]
        /\ st' = [st EXCEPT ![t] = "done"]
        /\ run' = [run EXCEPT ![w] = NoTask]
        /\ UNCHANGED <<main, wVars, q, tid, creating, cond>>
    BY DEF Done
  <1>2. /\ main # "gone"
        /\ \A v \in Worker : pc[v] \notin Late
        /\ t \in Task /\ st[t] = "alive" /\ t \notin cond /\ ~In(q, t)
        /\ \A v \in Worker \ {w} : run[v] # t
        /\ \A x \in Thread : creating[x] # t
    BY <1>1, RunFacts
  <1> HIDE DEF t
  <1>3. Homed(pool') /\ \A u \in Task : In(pool', u) <=> In(pool, u) /\ u # t
    BY <1>1, <1>2, DropFacts DEF IInv, ListInv
  <1>4. /\ \A v \in Worker : run'[v] = IF v = w THEN NoTask ELSE run[v]
        /\ \A u \in Task : st'[u] = IF u = t THEN "done" ELSE st[u]
    BY <1>1 DEF IInv, Types
  <1>5. Types'
    BY <1>1, <1>3 DEF IInv, Types, Homed, wVars
  <1>6. PhaseInv'
    BY <1>1, <1>4 DEF IInv, PhaseInv, wVars
  <1>7. FinalInv'
    BY <1>1, <1>2 DEF FinalInv, Late, wVars
  <1>8. ListInv'
    <2>1. \A u \in Task : st'[u] \in {"fresh", "alive"} => In(pool', u)
      BY <1>2, <1>3, <1>4 DEF IInv, ListInv
    <2>2. Homed(q') /\ \A u \in Task : In(pool', u) => u < tid'
      BY <1>1, <1>3 DEF IInv, ListInv
    <2> QED
      BY <1>3, <2>1, <2>2 DEF ListInv, Homed, In
  <1>9. HolderInv'
    <2>1. \A x \in Thread : creating[x] \in Task \cup {NoTask}
      BY DEF IInv, Types
    <2>2. \A v \in Worker : run[v] \in Task \cup {NoTask}
      BY DEF IInv, Types
    <2>3. \A v \in Worker : run'[v] # NoTask =>
            st'[run'[v]] = "alive" /\ run'[v] \notin cond /\ ~In(q, run'[v])
      BY <1>2, <1>4, <2>2 DEF IInv, HolderInv, InQueue, In
    <2>4. \A x \in Thread : creating[x] # NoTask =>
            st'[creating[x]] = "fresh" /\ ~In(q, creating[x])
      BY <1>2, <1>4, <2>1 DEF IInv, HolderInv, InQueue, In
    <2>5. ASSUME NEW u \in Task, st'[u] = "alive", u \notin cond
          PROVE  In(q, u) \/ \E v \in Worker : run'[v] = u
      <3>1. u # t /\ (In(q, u) \/ \E v \in Worker : run[v] = u)
        BY <1>4, <2>5 DEF IInv, HolderInv, InQueue
      <3> QED
        BY <1>4, <3>1 DEF t
    <2>6. \A u, v \in Worker : run'[u] = run'[v] /\ run'[u] # NoTask => u = v
      BY <1>4 DEF IInv, HolderInv
    <2>7. ASSUME NEW u \in cond PROVE st'[u] \in {"alive", "dead"}
      <3>1. u \in Task /\ u # t
        BY <1>2 DEF IInv, Types
      <3>2. st[u] \in {"alive", "dead"}
        BY DEF IInv, HolderInv
      <3> QED
        BY <1>4, <3>1, <3>2
    <2>8. \A u \in Task : In(q, u) => st'[u] \in {"fresh", "alive"}
      BY <1>2, <1>4 DEF IInv, HolderInv, InQueue
    <2>9. \A u \in Task : st'[u] = "fresh" => In(q, u) \/ \E x \in Thread : creating[x] = u
      BY <1>4 DEF IInv, HolderInv, InQueue
    <2>10. \A u \in Task : st'[u] = "none" <=> u >= tid
      BY <1>2, <1>4 DEF IInv, HolderInv
    <2>11. \A x, y \in Thread : creating[x] = creating[y] /\ creating[x] # NoTask => x = y
      BY DEF IInv, HolderInv
    <2> QED
      BY <1>1, <2>3, <2>4, <2>5, <2>6, <2>7, <2>8, <2>9, <2>10, <2>11 DEF HolderInv, InQueue, In
  <1> QED
    BY <1>5, <1>6, <1>7, <1>8, <1>9 DEF IInv

\* It yielded.
LEMMA YieldKeeps == ASSUME NEW w \in Worker, IInv, Yield(w) PROVE IInv'
  <1> USE WorkersAssumption
  <1> DEFINE t == run[w]
  <1>1. /\ t # NoTask
        /\ q' = [q EXCEPT ![Home(t)] = Append(@, t)]
        /\ run' = [run EXCEPT ![w] = NoTask]
        /\ UNCHANGED <<main, wVars, pool, tid, creating, st, cond>>
    BY DEF Yield
  <1>2. /\ main # "gone"
        /\ \A v \in Worker : pc[v] \notin Late
        /\ t \in Task /\ st[t] = "alive" /\ t \notin cond /\ ~In(q, t)
        /\ \A v \in Worker \ {w} : run[v] # t
        /\ \A x \in Thread : creating[x] # t
    BY <1>1, RunFacts
  <1> HIDE DEF t
  <1>3. /\ q' \in [Worker -> Seq(Task)]
        /\ ListInv'
        /\ \A u \in Task : In(q', u) <=> InQueue(u) \/ u = t
    BY <1>1, <1>2, PushFacts DEF InQueue
  <1>4. \A v \in Worker : run'[v] = IF v = w THEN NoTask ELSE run[v]
    BY <1>1 DEF IInv, Types
  <1>5. Types'
    BY <1>1, <1>3 DEF IInv, Types, wVars
  <1>6. PhaseInv'
    BY <1>1, <1>4 DEF IInv, PhaseInv, wVars
  <1>7. FinalInv'
    BY <1>1, <1>2 DEF FinalInv, Late, wVars
  <1>8. HolderInv'
    <2>1. \A x \in Thread : creating[x] \in Task \cup {NoTask}
      BY DEF IInv, Types
    <2>2. \A v \in Worker : run[v] \in Task \cup {NoTask}
      BY DEF IInv, Types
    <2>3. \A v \in Worker : run'[v] # NoTask =>
            st[run'[v]] = "alive" /\ run'[v] \notin cond /\ ~In(q', run'[v])
      BY <1>2, <1>3, <1>4, <2>2 DEF IInv, HolderInv, InQueue, In
    <2>4. \A x \in Thread : creating[x] # NoTask =>
            st[creating[x]] = "fresh" /\ ~In(q', creating[x])
      BY <1>2, <1>3, <2>1 DEF IInv, HolderInv, InQueue, In
    <2>5. ASSUME NEW u \in Task, st[u] = "alive", u \notin cond
          PROVE  In(q', u) \/ \E v \in Worker : run'[v] = u
      <3>1. CASE u = t
        BY <1>3, <3>1
      <3>2. CASE u # t
        <4>1. In(q, u) \/ \E v \in Worker : run[v] = u
          BY <2>5 DEF IInv, HolderInv, InQueue
        <4> QED
          BY <1>3, <1>4, <3>2, <4>1 DEF t, InQueue
      <3> QED
        BY <3>1, <3>2
    <2>6. \A u, v \in Worker : run'[u] = run'[v] /\ run'[u] # NoTask => u = v
      BY <1>4 DEF IInv, HolderInv
    <2>7. \A u \in Task : In(q', u) => st[u] \in {"fresh", "alive"}
      BY <1>2, <1>3 DEF IInv, HolderInv
    <2>8. \A u \in Task : st[u] = "fresh" => In(q', u) \/ \E x \in Thread : creating[x] = u
      BY <1>3 DEF IInv, HolderInv
    <2> QED
      BY <1>1, <2>3, <2>4, <2>5, <2>6, <2>7, <2>8 DEF IInv, HolderInv, InQueue, In
  <1> QED
    BY <1>3, <1>5, <1>6, <1>7, <1>8 DEF IInv

\* It waits for a condition.
LEMMA SuspendKeeps == ASSUME NEW w \in Worker, IInv, Suspend(w) PROVE IInv'
  <1> USE WorkersAssumption
  <1> DEFINE t == run[w]
  <1>1. /\ t # NoTask
        /\ cond' = cond \cup {t}
        /\ run' = [run EXCEPT ![w] = NoTask]
        /\ UNCHANGED <<main, wVars, q, pool, tid, creating, st>>
    BY DEF Suspend
  <1>2. /\ main # "gone"
        /\ \A v \in Worker : pc[v] \notin Late
        /\ t \in Task /\ st[t] = "alive" /\ t \notin cond /\ ~In(q, t)
        /\ \A v \in Worker \ {w} : run[v] # t
        /\ \A x \in Thread : creating[x] # t
    BY <1>1, RunFacts
  <1> HIDE DEF t
  <1>3. \A v \in Worker : run'[v] = IF v = w THEN NoTask ELSE run[v]
    BY <1>1 DEF IInv, Types
  <1>4. Types'
    BY <1>1, <1>2 DEF IInv, Types, wVars
  <1>5. PhaseInv'
    BY <1>1, <1>3 DEF IInv, PhaseInv, wVars
  <1>6. FinalInv'
    BY <1>1, <1>2 DEF FinalInv, Late, wVars
  <1>7. ListInv'
    BY <1>1 DEF IInv, ListInv, Homed, In
  <1>8. HolderInv'
    <2>1. \A v \in Worker : run'[v] # NoTask =>
            st[run'[v]] = "alive" /\ run'[v] \notin cond' /\ ~In(q, run'[v])
      BY <1>1, <1>2, <1>3 DEF IInv, HolderInv, InQueue, In
    <2>2. ASSUME NEW u \in Task, st[u] = "alive", u \notin cond'
          PROVE  In(q, u) \/ \E v \in Worker : run'[v] = u
      <3>1. u # t /\ (In(q, u) \/ \E v \in Worker : run[v] = u)
        BY <1>1, <2>2 DEF IInv, HolderInv, InQueue
      <3> QED
        BY <1>3, <3>1 DEF t
    <2>3. \A u, v \in Worker : run'[u] = run'[v] /\ run'[u] # NoTask => u = v
      BY <1>3 DEF IInv, HolderInv
    <2>4. \A u \in cond' : st[u] \in {"alive", "dead"}
      BY <1>1, <1>2 DEF IInv, HolderInv
    <2> QED
      BY <1>1, <2>1, <2>2, <2>3, <2>4 DEF IInv, HolderInv, InQueue, In
  <1> QED
    BY <1>4, <1>5, <1>6, <1>7, <1>8 DEF IInv

-----------------------------------------------------------------------------
(* final_schedule.                                                         *)

\* What an iteration does to the queues: t is unlinked, and at most one task that
\* waited is linked.
LEMMA FinalQueues ==
  ASSUME IInv, NEW t \in Task, NEW next \in {NoTask} \cup (Suspended \ {t}),
         q' = [p \in Worker |-> IF next # NoTask /\ p = Home(next)
                                THEN Append(Unlink(q[p], t), next) ELSE Unlink(q[p], t)]
  PROVE  Homed(q') /\ \A u \in Task : In(q', u) <=> (In(q, u) /\ u # t) \/ (next # NoTask /\ u = next)
  <1> DEFINE r == [p \in Worker |-> Unlink(q[p], t)]
  <1>1. Homed(r) /\ \A u \in Task : In(r, u) <=> In(q, u) /\ u # t
    BY DropAllFacts DEF IInv, ListInv
  <1>2. CASE next = NoTask
    <2>1. q' = r
      BY <1>2
    <2> QED
      BY <1>1, <1>2, <2>1
  <1>3. CASE next # NoTask
    <2>1. next \in Task /\ ~In(q, next)
      BY <1>3 DEF Suspended, In, IInv, Types
    <2>2. Home(next) \in Worker
      BY <2>1, HomeFacts
    <2>3. q' = [r EXCEPT ![Home(next)] = Append(@, next)]
      BY <1>3, <2>2
    <2> HIDE DEF r
    <2>4. ~In(r, next)
      BY <1>1, <2>1
    <2> DEFINE s == [r EXCEPT ![Home(next)] = Append(@, next)]
    <2>5. Homed(s) /\ \A u \in Task : In(s, u) <=> In(r, u) \/ u = next
      BY <1>1, <2>1, <2>4, LinkFacts
    <2>6. q' = s
      BY <2>3
    <2> HIDE DEF s
    <2> QED
      BY <1>1, <1>3, <2>5, <2>6
  <1> QED
    BY <1>2, <1>3

LEMMA FinalTaskKeeps == ASSUME NEW w \in Worker, IInv, FinalTask(w) PROVE IInv'
  <1> USE WorkersAssumption
  <1> DEFINE t == pool[w][slot[w] + 1]
  <1>1. /\ pc[w] = "final" /\ slot' = [slot EXCEPT ![w] = @ + 1]
        /\ slot[w] \in Nat /\ slot[w] < Len(pool[w])
        /\ UNCHANGED <<main, pc, cnt, run, pool, tid, creating, cond>>
        /\ IF t \in cond
           THEN /\ \E next \in {NoTask} \cup (Suspended \ {t}) :
                     q' = [p \in Worker |-> IF next # NoTask /\ p = Home(next)
                                            THEN Append(Unlink(q[p], t), next)
                                            ELSE Unlink(q[p], t)]
                /\ st' = [st EXCEPT ![t] = "dead"]
           ELSE UNCHANGED <<q, st>>
    BY DEF FinalTask, IInv, Types
  <1>2. /\ \A v \in Worker : pc[v] \in Late /\ run[v] = NoTask
        /\ main # "gone"
    BY <1>1 DEF IInv, PhaseInv, Late
  <1>3. \A v \in Worker : slot'[v] = IF v = w THEN slot[w] + 1 ELSE slot[v]
    BY <1>1 DEF IInv, Types
  <1>4. t \in Task
    <2>1. pool[w] \in Seq(Task)
      BY DEF IInv, Types
    <2>2. slot[w] + 1 \in 1..Len(pool[w])
      BY <1>1, <2>1, LenProperties
    <2> QED
      BY <2>1, <2>2, ElementOfSeq
  <1> HIDE DEF t
  <1>5. PhaseInv'
    BY <1>1, <1>2 DEF IInv, PhaseInv, Late
  <1>6. slot' \in [Worker -> Nat]
    BY <1>1 DEF IInv, Types
  <1>7. CASE t \notin cond
    <2>1. UNCHANGED <<q, st>>
      BY <1>1, <1>7
    <2>2. ListInv' /\ HolderInv'
      BY <1>1, <2>1, TasksKept DEF taskVars
    <2>3. Types'
      BY <1>1, <1>6, <2>1 DEF IInv, Types
    <2>4. ASSUME NEW v \in Worker, pc[v] = "final", NEW i \in 1..Len(pool[v]),
                 i <= slot'[v], pool[v][i] \in cond
          PROVE  st[pool[v][i]] # "alive"
      <3>1. i <= slot[v] \/ (v = w /\ i = slot[w] + 1)
        BY <1>1, <1>3, <2>4 DEF IInv, Types
      <3>2. i <= slot[v]
        BY <1>7, <2>4, <3>1 DEF t
      <3> QED
        BY <2>4, <3>2 DEF IInv, FinalInv
    <2>5. FinalInv'
      BY <1>1, <2>1, <2>4 DEF IInv, FinalInv
    <2> QED
      BY <1>5, <2>2, <2>3, <2>5 DEF IInv
  <1>8. CASE t \in cond
    <2>0. PICK next \in {NoTask} \cup (Suspended \ {t}) :
            q' = [p \in Worker |-> IF next # NoTask /\ p = Home(next)
                                   THEN Append(Unlink(q[p], t), next)
                                   ELSE Unlink(q[p], t)]
      BY <1>1, <1>8
    <2>1. /\ st' = [st EXCEPT ![t] = "dead"]
          /\ st[t] \in {"alive", "dead"}
          /\ \A u \in Task : st'[u] = IF u = t THEN "dead" ELSE st[u]
      BY <1>1, <1>4, <1>8 DEF IInv, HolderInv, Types
    <2>2. next # NoTask => next \in Task /\ st[next] = "alive" /\ next \in cond /\ next # t
      BY <2>0 DEF Suspended, IInv, Types
    <2>3. /\ Homed(q')
          /\ \A u \in Task : In(q', u) <=> (In(q, u) /\ u # t) \/ (next # NoTask /\ u = next)
      BY <1>4, <2>0, FinalQueues
    <2>4. Types'
      BY <1>1, <1>6, <2>1, <2>3 DEF IInv, Types, Homed
    <2>5. ListInv'
      <3>1. Homed(pool') /\ \A u \in Task : In(pool', u) => u < tid'
        BY <1>1 DEF IInv, ListInv
      <3>2. \A u \in Task : st'[u] \in {"fresh", "alive"} => In(pool', u)
        BY <1>1, <1>2, <2>1 DEF IInv, ListInv
      <3> QED
        BY <2>3, <3>1, <3>2 DEF ListInv, Homed, In
    <2>6. HolderInv'
      <3>1. \A x \in Thread : creating[x] # NoTask =>
              st'[creating[x]] = "fresh" /\ ~In(q', creating[x])
        <4> SUFFICES ASSUME NEW x \in Thread, creating[x] # NoTask
                     PROVE  st'[creating[x]] = "fresh" /\ ~In(q', creating[x])
          OBVIOUS
        <4>1. creating[x] \in Task /\ st[creating[x]] = "fresh" /\ ~In(q, creating[x])
          BY DEF IInv, HolderInv, Types, InQueue, In
        <4>2. creating[x] # t /\ (next # NoTask => creating[x] # next)
          BY <2>1, <2>2, <4>1
        <4> QED
          BY <2>1, <2>3, <4>1, <4>2 DEF In
      <3>2. \A u \in Task : In(q', u) => st'[u] \in {"fresh", "alive"}
        BY <1>2, <2>1, <2>2, <2>3 DEF IInv, HolderInv, InQueue
      <3>3. \A u \in Task : st'[u] = "fresh" => In(q', u) \/ \E x \in Thread : creating[x] = u
        BY <2>1, <2>3 DEF IInv, HolderInv, InQueue
      <3>4. \A u \in Task : st'[u] = "alive" /\ u \notin cond => In(q', u)
        BY <1>2, <1>8, <2>1, <2>3, WorkersAssumption DEF IInv, HolderInv, InQueue
      <3>5. \A u \in cond : st'[u] \in {"alive", "dead"}
        BY <2>1 DEF IInv, HolderInv, Types
      <3>6. \A u \in Task : st'[u] = "none" <=> u >= tid
        BY <2>1 DEF IInv, HolderInv
      <3>7. \A x, y \in Thread : creating[x] = creating[y] /\ creating[x] # NoTask => x = y
        BY DEF IInv, HolderInv
      <3> QED
        BY <1>1, <1>2, <3>1, <3>2, <3>3, <3>4, <3>5, <3>6, <3>7 DEF HolderInv, InQueue, In
    <2>7. \A u \in cond : st'[u] = "alive" => u # t /\ st[u] = "alive"
      BY <2>1 DEF IInv, Types
    <2>8. ASSUME NEW v \in Worker, pc[v] = "final", NEW i \in 1..Len(pool[v]),
                 i <= slot'[v], pool[v][i] \in cond
          PROVE  st'[pool[v][i]] # "alive"
      <3>1. i <= slot[v] \/ (v = w /\ i = slot[w] + 1)
        BY <1>1, <1>3, <2>8 DEF IInv, Types
      <3>2. CASE i <= slot[v]
        BY <2>7, <2>8, <3>2 DEF IInv, FinalInv
      <3>3. CASE v = w /\ i = slot[w] + 1
        BY <2>7, <2>8, <3>3 DEF t
      <3> QED
        BY <3>1, <3>2, <3>3
    <2>9. FinalInv'
      BY <1>1, <2>7, <2>8 DEF IInv, FinalInv
    <2> QED
      BY <1>5, <2>4, <2>5, <2>6, <2>9 DEF IInv
  <1> QED
    BY <1>7, <1>8

LEMMA StepKeeps == IInv /\ [Next]_vars => IInv'
  <1> SUFFICES ASSUME IInv, [Next]_vars PROVE IInv'
    OBVIOUS
  <1>1. CASE Next
    BY <1>1, MainKeeps, DestroySchedContextKeeps, StartBarrierKeeps, StopBarrierKeeps, CreateKeeps,
       PushKeeps, NotifyKeeps, PollKeeps, RunOwnKeeps, StealKeeps, DoneKeeps, YieldKeeps,
       SuspendKeeps, FinalTaskKeeps, ExitKeeps DEF Next, Leave
  <1>2. CASE UNCHANGED vars
    <2>1. ListInv' /\ HolderInv'
      BY <1>2, TasksKept DEF vars
    <2>2. Types' /\ PhaseInv' /\ FinalInv'
      BY <1>2 DEF vars, wVars, taskVars, IInv, Types, PhaseInv, FinalInv
    <2> QED
      BY <2>1, <2>2 DEF IInv
  <1> QED
    BY <1>1, <1>2

-----------------------------------------------------------------------------
(* The theorems.                                                           *)

LEMMA Invariance == Spec => []IInv
  BY InitHolds, StepKeeps, PTL DEF Spec

\* A pool that final_schedule walks does not shrink: nobody executes a task any more.
LEMMA PoolKept ==
  ASSUME IInv, Next, NEW w \in Worker, pc[w] = "final"
  PROVE  Len(pool[w]) <= Len(pool'[w])
  <1> USE WorkersAssumption
  <1>1. /\ main \notin {"noevent", "gone"}
        /\ \A v \in Worker : run[v] = NoTask
        /\ pool \in [Worker -> Seq(Task)] /\ tid \in Nat
    <2>1. \A v \in Worker : pc[v] \in Late
      BY DEF IInv, PhaseInv, Late
    <2>2. \A v \in Worker : pc[v] \notin {"own", "steal"}
      BY <2>1 DEF Late
    <2>3. main \notin {"noevent", "gone"}
      BY DEF IInv, PhaseInv
    <2>4. \A v \in Worker : run[v] = NoTask
      BY <2>2 DEF IInv, PhaseInv
    <2>5. pool \in [Worker -> Seq(Task)] /\ tid \in Nat
      BY DEF IInv, Types
    <2> QED
      BY <2>3, <2>4, <2>5
  <1>2. CASE pool' = pool
    BY <1>1, <1>2, LenProperties
  <1>3. ASSUME NEW x \in Thread, Create(x) PROVE Len(pool[w]) <= Len(pool'[w])
    <2>1. tid \in Task
      BY <1>1, <1>3 DEF Create, Task
    <2>2. pool'[w] = pool[w] \/ pool'[w] = Append(pool[w], tid)
      BY <1>1, <1>3 DEF Create
    <2>3. Len(pool[w]) \in Nat /\ Len(Append(pool[w], tid)) = Len(pool[w]) + 1
      BY <1>1, <2>1, LenProperties, AppendProperties
    <2> QED
      BY <2>2, <2>3
  <1> QED
    BY <1>1, <1>2, <1>3
    DEF Next, Leave, Startup, Shutdown, Join, DestroyEventContext, DestroySchedContext,
        StartBarrier, StopBarrier, Push, Notify, Poll, RunOwn, Steal, Done, Yield, Suspend,
        FinalTask, Exit, taskVars

\* Whether the index of worker w is in the range of the loop that w is in.
IndexOK(w) ==
  /\ pc[w] = "own" => slot[w] = 0
  /\ pc[w] = "steal" => slot[w] <= N
  /\ pc[w] = "final" => slot[w] <= Len(pool[w])

\* The steps that move worker w: from loop to loop, or on in one.
LEMMA MoveKeepsRange ==
  ASSUME IInv, InRange, NEW w \in Worker,
         StartBarrier \/ StopBarrier \/ Poll(w) \/ RunOwn(w) \/ Steal(w) \/ FinalTask(w) \/ Exit(w)
  PROVE  IndexOK(w)'
  <1> USE WorkersAssumption
  <1>1. /\ slot \in [Worker -> Nat] /\ pc \in [Worker -> {"start", "own", "steal", "poll", "stop", "final", "exit"}]
        /\ Len(pool[w]) \in Nat /\ N \in Nat
    BY LenProperties DEF IInv, Types
  <1>2. IndexOK(w)
    BY DEF InRange, IndexOK
  <1>3. CASE StartBarrier \/ Poll(w) \/ Exit(w)
    BY <1>1, <1>3 DEF IndexOK, StartBarrier, Poll, Exit
  <1>4. CASE StopBarrier
    <2>1. pc[w] = "stop" /\ slot[w] = 0
      BY <1>4 DEF StopBarrier, IInv, PhaseInv
    <2> QED
      BY <1>1, <1>4, <2>1 DEF IndexOK, StopBarrier, taskVars
  <1>5. CASE RunOwn(w)
    BY <1>1, <1>2, <1>5 DEF IndexOK, RunOwn
  <1>6. CASE Steal(w)
    BY <1>1, <1>2, <1>6 DEF IndexOK, Steal
  <1>7. CASE FinalTask(w)
    BY <1>1, <1>7 DEF IndexOK, FinalTask
  <1> QED
    BY <1>3, <1>4, <1>5, <1>6, <1>7

LEMMA StepKeepsRange == IInv /\ InRange /\ [Next]_vars => InRange'
  <1> SUFFICES ASSUME IInv, InRange, [Next]_vars, NEW w \in Worker PROVE IndexOK(w)'
    BY DEF InRange, IndexOK
  <1>1. CASE UNCHANGED vars
    BY <1>1 DEF vars, wVars, taskVars, InRange, IndexOK
  <1>2. CASE Next /\ pc'[w] = pc[w] /\ slot'[w] = slot[w]
    <2>1. pc[w] = "final" => Len(pool[w]) <= Len(pool'[w])
      BY <1>2, PoolKept
    <2>2. pc[w] = "final" => slot[w] \in Nat /\ Len(pool[w]) \in Nat /\ Len(pool'[w]) \in Nat
      BY <1>2, StepKeeps, LenProperties DEF IInv, Types
    <2> QED
      BY <1>2, <2>1, <2>2 DEF InRange, IndexOK
  <1>3. CASE Next /\ ~(pc'[w] = pc[w] /\ slot'[w] = slot[w])
    <2>1. \A v \in Worker : Poll(v) \/ RunOwn(v) \/ Steal(v) \/ FinalTask(v) \/ Exit(v) => v = w
      BY <1>3 DEF Poll, RunOwn, Steal, FinalTask, Exit, Pop, Execute, IInv, Types
    <2>2. StartBarrier \/ StopBarrier \/ Poll(w) \/ RunOwn(w) \/ Steal(w) \/ FinalTask(w) \/ Exit(w)
      BY <1>3, <2>1 DEF Next, Leave, Startup, Shutdown, Join, DestroyEventContext,
         DestroySchedContext, Create, Push, Notify, Done, Yield, Suspend, wVars
    <2> QED
      BY <2>2, MoveKeepsRange
  <1> QED
    BY <1>1, <1>2, <1>3

\* No worker takes more than batch_size tasks in one run_scheduled; its stealing loop
\* stays within the workers, and its final_schedule within the pool it walks, which
\* nobody shortens meanwhile.
THEOREM WorkersTypes == Spec => []TypeOK
  <1>1. Init => InRange
    BY DEF Init, InRange
  <1>2. Spec => []InRange
    BY <1>1, Invariance, StepKeepsRange, PTL DEF Spec
  <1>3. IInv /\ InRange => TypeOK
    BY DEF IInv, TypeOK
  <1> QED
    BY <1>2, <1>3, Invariance, PTL

\* While a worker destroys frames in final_schedule no worker executes a coroutine:
\* the second barrier of Context::_run separates the two for any number of workers.
THEOREM FinalIsQuiet == Spec => []QuietWhenFinal
  <1>1. IInv => QuietWhenFinal
    BY DEF IInv, PhaseInv, Late, QuietWhenFinal
  <1> QED
    BY <1>1, Invariance, PTL

\* What a run queue links and a worker executes is a task of its home pool that was
\* not destroyed, until the pools themselves go.
THEOREM LinkedTasksExist == Spec => []NoDangling
  <1>1. IInv => NoDangling
    <2> SUFFICES ASSUME IInv, main # "gone", NEW t \in Task, Queued(t) \/ Running(t)
                 PROVE  st[t] \in {"fresh", "alive"} /\ t \in ToSet(pool[Home(t)])
      BY DEF NoDangling
    <2>1. CASE Queued(t)
      BY <2>1 DEF Queued, IInv, HolderInv, ListInv, Homed, InQueue, In
    <2>2. CASE Running(t)
      <3>1. PICK w \in Worker : run[w] = t
        BY <2>2 DEF Running
      <3>2. st[t] = "alive"
        BY <3>1, RunFacts, WorkersAssumption
      <3> QED
        BY <3>2 DEF IInv, ListInv, In
    <2> QED
      BY <2>1, <2>2
  <1> QED
    BY <1>1, Invariance, PTL

\* A place is a worker that runs t, a thread that creates it, or a position in a queue.
LEMMA PlacesFacts ==
  ASSUME NEW t, NEW x
  PROVE  x \in Places(t) <=>
           \/ \E w \in Worker : run[w] = t /\ x = <<"run", w>>
           \/ \E y \in Thread : creating[y] = t /\ x = <<"create", y>>
           \/ \E w \in Worker : \E i \in DOMAIN q[w] : q[w][i] = t /\ x = <<"queue", w, i>>
  <1> DEFINE A == {<<"run", w>> : w \in {v \in Worker : run[v] = t}}
             B == {<<"create", y>> : y \in {z \in Thread : creating[z] = t}}
             P(w) == {<<"queue", w, i>> : i \in {j \in DOMAIN q[w] : q[w][j] = t}}
             C == UNION {P(w) : w \in Worker}
  <1>1. x \in A <=> \E w \in Worker : run[w] = t /\ x = <<"run", w>>
    OBVIOUS
  <1>2. x \in B <=> \E y \in Thread : creating[y] = t /\ x = <<"create", y>>
    OBVIOUS
  <1>3. \A w : x \in P(w) <=> \E i \in DOMAIN q[w] : q[w][i] = t /\ x = <<"queue", w, i>>
    OBVIOUS
  <1>4. x \in C <=> \E w \in Worker : x \in P(w)
    OBVIOUS
  <1>5. Places(t) = A \cup B \cup C
    BY DEF Places
  <1> HIDE DEF A, B, C, P
  <1> QED
    BY <1>1, <1>2, <1>3, <1>4, <1>5

\* Every task that is not suspended is at exactly one place, and a suspended one at none,
\* for any number of workers that steal and of threads that spawn and notify.
THEOREM TasksHaveOnePlace == Spec => []OnePlace
  <1>1. IInv => OnePlace
    <2> SUFFICES ASSUME IInv, NEW t \in Task, st[t] \in {"fresh", "alive"}
                 PROVE  IF t \in Suspended THEN Places(t) = {} ELSE Cardinality(Places(t)) = 1
      BY DEF OnePlace
    <2> USE WorkersAssumption
    <2>1. \A w \in Worker : \A i \in DOMAIN q[w] :
            q[w][i] = t => w = Home(t) /\ In(q, t) /\ \A j \in DOMAIN q[w] : q[w][j] = t => j = i
      BY DEF IInv, ListInv, Homed, In, ToSet, Distinct
    <2>2. In(q, t) => \E i \in DOMAIN q[Home(t)] : q[Home(t)][i] = t
      BY DEF In, ToSet
    <2>3. CASE In(q, t)
      <3>1. PICK i \in DOMAIN q[Home(t)] : q[Home(t)][i] = t
        BY <2>2, <2>3
      <3>2. /\ \A w \in Worker : run[w] # t
            /\ \A y \in Thread : creating[y] # t
        BY <2>3 DEF IInv, HolderInv, InQueue
      <3>3. Places(t) = {<<"queue", Home(t), i>>}
        <4>1. \A x \in Places(t) : x = <<"queue", Home(t), i>>
          BY <2>1, <3>1, <3>2, PlacesFacts
        <4>2. <<"queue", Home(t), i>> \in Places(t)
          BY <3>1, HomeFacts, PlacesFacts
        <4> QED
          BY <4>1, <4>2
      <3>4. t \notin Suspended
        BY <2>3 DEF Suspended, In
      <3> QED
        BY <3>3, <3>4, FS_Singleton
    <2>4. CASE \E w \in Worker : run[w] = t
      <3>1. PICK w \in Worker : run[w] = t
        BY <2>4
      <3>2. /\ ~In(q, t) /\ \A v \in Worker : run[v] = t => v = w
            /\ \A y \in Thread : creating[y] # t
        BY <3>1, RunFacts
      <3>3. Places(t) = {<<"run", w>>}
        <4>1. \A x \in Places(t) : x = <<"run", w>>
          BY <2>1, <3>2, PlacesFacts
        <4>2. <<"run", w>> \in Places(t)
          BY <3>1, PlacesFacts
        <4> QED
          BY <4>1, <4>2
      <3>4. t \notin Suspended
        BY <3>1 DEF Suspended
      <3> QED
        BY <3>3, <3>4, FS_Singleton
    <2>5. CASE \E y \in Thread : creating[y] = t
      <3>1. PICK y \in Thread : creating[y] = t
        BY <2>5
      <3>2. /\ st[t] = "fresh" /\ ~In(q, t) /\ \A z \in Thread : creating[z] = t => z = y
            /\ \A v \in Worker : run[v] # t
        BY <3>1 DEF IInv, HolderInv, InQueue, In
      <3>3. Places(t) = {<<"create", y>>}
        <4>1. \A x \in Places(t) : x = <<"create", y>>
          BY <2>1, <3>2, PlacesFacts
        <4>2. <<"create", y>> \in Places(t)
          BY <3>1, PlacesFacts
        <4> QED
          BY <4>1, <4>2
      <3>4. t \notin Suspended
        BY <3>2 DEF Suspended
      <3> QED
        BY <3>3, <3>4, FS_Singleton
    <2>6. CASE ~In(q, t) /\ (\A w \in Worker : run[w] # t) /\ (\A y \in Thread : creating[y] # t)
      <3>1. \A x : x \notin Places(t)
        BY <2>1, <2>6, PlacesFacts
      <3>2. t \in Suspended
        BY <2>6 DEF Suspended, IInv, HolderInv, InQueue, In
      <3> QED
        BY <3>1, <3>2
    <2> QED
      BY <2>3, <2>4, <2>5, <2>6
  <1> QED
    BY <1>1, Invariance, PTL

\* shutdown() leaves no coroutine of this context waiting for a condition: its workers
\* pass their whole pools in final_schedule, and no task begins to wait meanwhile.
THEOREM ShutdownLeavesNoWaiter == Spec => []NoWaiterLeft
  <1>1. IInv => NoWaiterLeft
    <2> SUFFICES ASSUME IInv, main \in {"joined", "noevent", "gone"}, NEW t \in cond
                 PROVE  st[t] # "alive"
      BY DEF NoWaiterLeft
    <2>1. Home(t) \in Worker
      BY HomeFacts DEF IInv, Types
    <2>2. pc[Home(t)] = "exit"
      BY <2>1 DEF IInv, PhaseInv
    <2> QED
      BY <2>1, <2>2 DEF IInv, FinalInv
  <1> QED
    BY <1>1, Invariance, PTL

================================================================================
