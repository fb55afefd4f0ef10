-------------------------- MODULE ThreadPoolProofs --------------------------
(***************************************************************************)
(* Theorems about ThreadPool, for any number of threads and tasks.         *)
(***************************************************************************)
EXTENDS ThreadPool, FiniteSetTheorems, TLAPS

-----------------------------------------------------------------------------
(* Types.  Emplace appends the argument of push() and Finish collects the  *)
(* task of work(), so the type invariant needs to know when these hold a   *)
(* task: TypeInv is the inductive form.                                    *)
TypeInv == TypeOK /\ PcInv /\ TaskInv /\ SpawnInv

LEMMA ThreadFacts ==
  /\ Main \in Thread /\ Main \notin Worker /\ Worker \subseteq Thread
  /\ Free \notin Thread /\ Worker \subseteq Int /\ NumThreads \in Nat
BY PoolAssumption DEF Main, Worker, Thread, Free

LEMMA TypeInit == Init => TypeInv
<1> SUFFICES ASSUME Init PROVE TypeInv
  OBVIOUS
<1>1. TypeOK
  <2>1. pc \in [Thread -> Locations]
    BY DEF Init, Locations
  <2>2. task_queue \in Seq(Task) /\ stop_request \in BOOLEAN
    <3>1. << >> \in Seq(Task)
      OBVIOUS
    <3>2. QED
      BY <3>1 DEF Init
  <2>3. /\ arg \in [Thread -> Task \cup {NoTask}]
        /\ new_task \in [Worker -> Task \cup {NoTask}]
    BY DEF Init
  <2>4. /\ mtx \in Thread \cup {Free} /\ threads_vector \in 0..NumThreads
        /\ joined \in 0..NumThreads /\ spurious \in 0..MaxSpurious
    BY PoolAssumption DEF Init
  <2>5. submitted \subseteq Task /\ finished \subseteq Task
    BY DEF Init
  <2>6. QED
    BY <2>1, <2>2, <2>3, <2>4, <2>5 DEF TypeOK
<1>2. PcInv /\ TaskInv /\ SpawnInv
  BY PoolAssumption, ThreadFacts DEF Init, PcInv, TaskInv, SpawnInv, InPush, Worker
<1>3. QED
  BY <1>1, <1>2 DEF TypeInv

(* Every step of the pool keeps the types of its state, so that no         *)
(* thread ever executes or queues anything but a submitted task.           *)
LEMMA TypeStep == TypeInv /\ [Next]_vars => TypeInv'
<1> SUFFICES ASSUME TypeInv, [Next]_vars PROVE TypeInv'
  OBVIOUS
<1> USE PoolAssumption, ThreadFacts
    DEF TypeInv, TypeOK, PcInv, TaskInv, SpawnInv, Locations, InPush, Goto, Caller
<1>1. CASE Spawn
  <2>1. threads_vector + 1 \in Worker
    BY <1>1 DEF Spawn, Worker
  <2>2. QED
    BY <1>1, <2>1 DEF Spawn
<1>2. CASE Constructed
  BY <1>2 DEF Constructed
<1>3. ASSUME NEW t \in Thread, NEW k \in Task, Submit(t, k) PROVE TypeInv'
  BY <1>3 DEF Submit
<1>4. ASSUME NEW t \in Thread, PushLock(t) PROVE TypeInv'
  BY <1>4 DEF PushLock
<1>5. ASSUME NEW t \in Thread, Emplace(t) PROVE TypeInv'
  BY <1>5 DEF Emplace
<1>6. ASSUME NEW t \in Thread, NotifyOne(t) PROVE TypeInv'
  BY <1>6 DEF NotifyOne, Waiting
<1>7. ASSUME NEW w \in Worker, PopLock(w) PROVE TypeInv'
  BY <1>7 DEF PopLock
<1>8. ASSUME NEW w \in Worker, PopWait(w) PROVE TypeInv'
  BY <1>8 DEF PopWait
<1>9. ASSUME NEW w \in Worker, PopStopped(w) PROVE TypeInv'
  BY <1>9 DEF PopStopped
<1>10. ASSUME NEW w \in Worker, PopTake(w) PROVE TypeInv'
  BY <1>10 DEF PopTake
<1>11. ASSUME NEW w \in Worker, SpuriousWakeup(w) PROVE TypeInv'
  BY <1>11 DEF SpuriousWakeup
<1>12. ASSUME NEW w \in Worker, Finish(w) PROVE TypeInv'
  BY <1>12 DEF Finish
<1>13. CASE Destroy
  BY <1>13 DEF Destroy
<1>14. CASE StopLock
  BY <1>14 DEF StopLock
<1>15. CASE StopThreads
  BY <1>15 DEF StopThreads, Waiting
<1>16. CASE Join
  BY <1>16 DEF Join, Worker
<1>17. CASE Destroyed
  BY <1>17 DEF Destroyed
<1>18. CASE UNCHANGED vars
  BY <1>18 DEF vars
<1>19. QED
  BY <1>1, <1>2, <1>3, <1>4, <1>5, <1>6, <1>7, <1>8, <1>9, <1>10, <1>11,
     <1>12, <1>13, <1>14, <1>15, <1>16, <1>17, <1>18
     DEF Next, PushStep, WorkerStep, OwnerStep, Terminated

(* In every reachable state of the pool the variables have their types:    *)
(* what is queued, passed or executed is a submitted task.                 *)
THEOREM TypeCorrect == Spec => []TypeOK
<1>1. TypeInv => TypeOK
  BY DEF TypeInv
<1>2. QED
  BY <1>1, TypeInit, TypeStep, PTL DEF Spec

-----------------------------------------------------------------------------
(* The mutex and stop_request.  Every critical section runs alone.         *)
LockInv == MutexInv /\ StopInv /\ StopWakesAll

LEMMA LockInit == Init => LockInv
<1> SUFFICES ASSUME Init PROVE LockInv
  OBVIOUS
<1>1. MutexInv
  BY ThreadFacts DEF Init, MutexInv, Critical
<1>2. StopInv /\ StopWakesAll
  BY ThreadFacts DEF Init, StopInv, StopWakesAll
<1>3. QED
  BY <1>1, <1>2 DEF LockInv

LEMMA LockStep == TypeInv /\ LockInv /\ [Next]_vars => LockInv'
<1> SUFFICES ASSUME TypeInv, LockInv, [Next]_vars PROVE LockInv'
  OBVIOUS
<1> USE ThreadFacts
    DEF TypeInv, TypeOK, PcInv, SpawnInv, LockInv, MutexInv, StopInv,
        StopWakesAll, Waiting, Locations, InPush, Critical, Goto, Caller
<1>1. CASE Spawn
  <2>1. threads_vector + 1 \in Worker
    BY <1>1 DEF Spawn, Worker
  <2>2. QED
    BY <1>1, <2>1 DEF Spawn
<1>2. CASE Constructed
  BY <1>2 DEF Constructed
<1>3. ASSUME NEW t \in Thread, NEW k \in Task, Submit(t, k) PROVE LockInv'
  BY <1>3 DEF Submit
<1>4. ASSUME NEW t \in Thread, PushLock(t) PROVE LockInv'
  BY <1>4 DEF PushLock
<1>5. ASSUME NEW t \in Thread, Emplace(t) PROVE LockInv'
  BY <1>5 DEF Emplace
<1>6. ASSUME NEW t \in Thread, NotifyOne(t) PROVE LockInv'
  BY <1>6, ZenonT(60) DEF NotifyOne
<1>7. ASSUME NEW w \in Worker, PopLock(w) PROVE LockInv'
  BY <1>7 DEF PopLock
<1>8. ASSUME NEW w \in Worker, PopWait(w) PROVE LockInv'
  BY <1>8 DEF PopWait
<1>9. ASSUME NEW w \in Worker, PopStopped(w) PROVE LockInv'
  BY <1>9 DEF PopStopped
<1>10. ASSUME NEW w \in Worker, PopTake(w) PROVE LockInv'
  BY <1>10 DEF PopTake
<1>11. ASSUME NEW w \in Worker, SpuriousWakeup(w) PROVE LockInv'
  BY <1>11 DEF SpuriousWakeup
<1>12. ASSUME NEW w \in Worker, Finish(w) PROVE LockInv'
  BY <1>12 DEF Finish
<1>13. CASE Destroy
  BY <1>13 DEF Destroy
<1>14. CASE StopLock
  BY <1>14 DEF StopLock
<1>15. CASE StopThreads
  BY <1>15 DEF StopThreads
<1>16. CASE Join
  BY <1>16 DEF Join
<1>17. CASE Destroyed
  BY <1>17 DEF Destroyed
<1>18. CASE UNCHANGED vars
  BY <1>18 DEF vars
<1>19. QED
  BY <1>1, <1>2, <1>3, <1>4, <1>5, <1>6, <1>7, <1>8, <1>9, <1>10, <1>11,
     <1>12, <1>13, <1>14, <1>15, <1>16, <1>17, <1>18
     DEF Next, PushStep, WorkerStep, OwnerStep, Terminated

(* stop_threads() sets stop_request and wakes the sleepers in one critical *)
(* section, and a worker goes to sleep only in a critical section that     *)
(* found stop_request unset: no worker sleeps through the destructor.      *)
THEOREM StopWakes == Spec => []StopWakesAll
<1>1. Init => TypeInv /\ LockInv
  BY TypeInit, LockInit
<1>2. TypeInv /\ LockInv /\ [Next]_vars => (TypeInv /\ LockInv)'
  BY TypeStep, LockStep
<1>3. TypeInv /\ LockInv => StopWakesAll
  BY DEF LockInv
<1>4. QED
  BY <1>1, <1>2, <1>3, PTL DEF Spec

-----------------------------------------------------------------------------
(* The tasks.  The lemmas say what Append and Tail do to the set of tasks  *)
(* in the queue and to the absence of duplicates.                          *)
Distinct(s) == \A i, j \in 1..Len(s) : s[i] = s[j] => i = j
Members(s)  == {s[i] : i \in 1..Len(s)}

LEMMA AppendTask ==
  ASSUME NEW s \in Seq(Task), NEW k \in Task, Distinct(s), k \notin Members(s)
  PROVE  /\ Distinct(Append(s, k))
         /\ Members(Append(s, k)) = Members(s) \cup {k}
BY DEF Distinct, Members

LEMMA TailTask ==
  ASSUME NEW s \in Seq(Task), s # << >>, Distinct(s)
  PROVE  /\ Head(s) \in Task
         /\ Distinct(Tail(s))
         /\ Members(s) = Members(Tail(s)) \cup {Head(s)}
         /\ Head(s) \notin Members(Tail(s))
<1>1. /\ Len(s) \in Nat \ {0} /\ Head(s) = s[1] /\ Head(s) \in Task
      /\ Len(Tail(s)) = Len(s) - 1
      /\ \A i \in 1..Len(Tail(s)) : Tail(s)[i] = s[i + 1] /\ i + 1 \in 1..Len(s)
  OBVIOUS
<1>2. Distinct(Tail(s))
  BY <1>1 DEF Distinct
<1>3. Members(s) = Members(Tail(s)) \cup {Head(s)}
  <2>1. ASSUME NEW i \in 1..Len(s), i # 1
        PROVE  i - 1 \in 1..Len(Tail(s)) /\ Tail(s)[i - 1] = s[i]
    BY <1>1, <2>1
  <2>2. Members(s) \subseteq Members(Tail(s)) \cup {Head(s)}
    BY <1>1, <2>1 DEF Members
  <2>3. Members(Tail(s)) \cup {Head(s)} \subseteq Members(s)
    BY <1>1 DEF Members
  <2>4. QED
    BY <2>2, <2>3
<1>4. Head(s) \notin Members(Tail(s))
  BY <1>1 DEF Distinct, Members
<1>5. QED
  BY <1>1, <1>2, <1>3, <1>4

LEMMA OnceInit == Init => ExactlyOnce
BY ThreadFacts DEF Init, ExactlyOnce, Passed, Queued, Running

(* Every step moves a task from one of its four places to the next.        *)
LEMMA OnceStep == TypeInv /\ ExactlyOnce /\ [Next]_vars => ExactlyOnce'
<1> SUFFICES ASSUME TypeInv, ExactlyOnce, [Next]_vars PROVE ExactlyOnce'
  OBVIOUS
<1> USE ThreadFacts
<1>1. ASSUME UNCHANGED <<task_queue, arg, new_task, submitted, finished>>
      PROVE  ExactlyOnce'
  <2>1. Passed' = Passed /\ Queued' = Queued /\ Running' = Running
    BY <1>1 DEF Passed, Queued, Running
  <2>2. QED
    BY <1>1, <2>1 DEF ExactlyOnce
<1>2. ASSUME NEW t \in Thread, NEW k \in Task, Submit(t, k) PROVE ExactlyOnce'
  <2>1. arg[t] = NoTask
    BY <1>2 DEF Submit, Caller, TypeInv, TaskInv
  <2>2. Passed' = Passed \cup {k} /\ Queued' = Queued /\ Running' = Running
    BY <1>2, <2>1, PoolAssumption
       DEF Submit, Passed, Queued, Running, TypeInv, TypeOK
  <2>3. k \notin Passed \cup Queued \cup Running \cup finished
    BY <1>2 DEF Submit, ExactlyOnce
  <2>4. \A u \in Thread : u # t => arg[u] # k
    BY <2>3, PoolAssumption DEF Passed
  <2>5. QED
    BY <1>2, <2>1, <2>2, <2>3, <2>4
       DEF Submit, ExactlyOnce, TypeInv, TypeOK
<1>3. ASSUME NEW t \in Thread, Emplace(t) PROVE ExactlyOnce'
  <2> DEFINE k == arg[t]
  <2>1. k \in Task /\ k \in Passed
    BY <1>3 DEF Emplace, TypeInv, TypeOK, TaskInv, Passed
  <2>2. Distinct(task_queue) /\ k \notin Members(task_queue)
    BY <2>1 DEF ExactlyOnce, Distinct, Members, Queued
  <2>3. Distinct(task_queue') /\ Queued' = Queued \cup {k}
    BY <1>3, <2>1, <2>2, AppendTask
       DEF Emplace, Members, Queued, TypeInv, TypeOK
  <2>4. Passed' = Passed \ {k} /\ Running' = Running
    BY <1>3, <2>1 DEF Emplace, Passed, Running, ExactlyOnce, TypeInv, TypeOK
  <2>5. QED
    BY <1>3, <2>1, <2>3, <2>4
       DEF Emplace, ExactlyOnce, Distinct, TypeInv, TypeOK
<1>4. ASSUME NEW w \in Worker, PopTake(w) PROVE ExactlyOnce'
  <2> DEFINE k == Head(task_queue)
  <2>1. new_task[w] = NoTask
    BY <1>4 DEF PopTake, TypeInv, TaskInv, InPush
  <2>2. Distinct(task_queue)
    BY DEF ExactlyOnce, Distinct
  <2>3. /\ k \in Task /\ Distinct(task_queue')
        /\ Queued = Queued' \cup {k} /\ k \notin Queued'
    <3>1. task_queue # << >> /\ task_queue' = Tail(task_queue)
      BY <1>4 DEF PopTake
    <3>2. task_queue \in Seq(Task)
      BY DEF TypeInv, TypeOK
    <3>3. Queued = Members(task_queue) /\ Queued' = Members(task_queue')
      BY DEF Queued, Members
    <3>4. QED
      BY <2>2, <3>1, <3>2, <3>3, TailTask
  <2>4. Running' = Running \cup {k} /\ Passed' = Passed
    <3>1. /\ new_task'[w] = k /\ k # NoTask
          /\ \A v \in Worker : v # w => new_task'[v] = new_task[v]
      BY <1>4, <2>3, PoolAssumption DEF PopTake, TypeInv, TypeOK
    <3>2. Running' = Running \cup {k}
      BY <2>1, <3>1 DEF Running
    <3>3. QED
      BY <1>4, <3>2 DEF PopTake, Passed
  <2>5. \A v \in Worker : new_task[v] # k
    BY <2>3, PoolAssumption DEF ExactlyOnce, Running
  <2>6. QED
    BY <1>4, <2>1, <2>3, <2>4, <2>5
       DEF PopTake, ExactlyOnce, Distinct, TypeInv, TypeOK
<1>5. ASSUME NEW w \in Worker, Finish(w) PROVE ExactlyOnce'
  <2>1. new_task[w] # NoTask /\ new_task[w] \in Running
    BY <1>5 DEF Finish, TypeInv, TaskInv, InPush, Running
  <2>2. Running' = Running \ {new_task[w]} /\ Passed' = Passed
        /\ Queued' = Queued
    BY <1>5, <2>1
       DEF Finish, Running, Passed, Queued, ExactlyOnce, TypeInv, TypeOK
  <2>3. QED
    BY <1>5, <2>1, <2>2 DEF Finish, ExactlyOnce, TypeInv, TypeOK
<1>6. QED
  <2>1. ASSUME NEW t \in Thread, PushStep(t) PROVE ExactlyOnce'
    BY <1>1, <1>3, <2>1 DEF PushStep, PushLock, NotifyOne
  <2>2. ASSUME NEW w \in Worker, WorkerStep(w) PROVE ExactlyOnce'
    BY <1>1, <1>4, <1>5, <2>2
       DEF WorkerStep, PopLock, PopWait, PopStopped, SpuriousWakeup
  <2>3. CASE OwnerStep
    BY <1>1, <2>3 DEF OwnerStep, Spawn, Constructed, Destroy, StopLock,
                      StopThreads, Join, Destroyed
  <2>4. CASE UNCHANGED vars
    BY <1>1, <2>4 DEF vars
  <2>5. QED
    BY <1>2, <2>1, <2>2, <2>3, <2>4 DEF Next, Terminated

(* No task is lost, executed twice or executed by two workers.             *)
THEOREM TasksRunOnce == Spec => []ExactlyOnce
<1>1. Init => TypeInv /\ ExactlyOnce
  BY TypeInit, OnceInit
<1>2. TypeInv /\ ExactlyOnce /\ [Next]_vars => (TypeInv /\ ExactlyOnce)'
  BY TypeStep, OnceStep
<1>3. QED
  BY <1>1, <1>2, PTL DEF Spec

-----------------------------------------------------------------------------
(* The destructor.                                                         *)
ExitInv == JoinInv /\ DrainInv

LEMMA ExitStep ==
  ASSUME NumThreads > 0, TypeInv, LockInv, ExitInv, [Next]_vars
  PROVE  ExitInv'
<1> USE ThreadFacts
<1>1. JoinInv'
  <2>1. CASE Spawn
    BY <2>1 DEF Spawn, Goto, ExitInv, JoinInv, TypeInv, TypeOK, PcInv, SpawnInv,
                InPush, LockInv, StopInv, Worker
  <2>2. CASE Join
    BY <2>2 DEF Join, ExitInv, JoinInv, TypeInv, TypeOK, Worker
  <2>3. CASE Destroyed
    BY <2>3 DEF Destroyed, Goto, ExitInv, JoinInv, TypeInv, TypeOK
  <2>4. CASE OwnerStep /\ ~Spawn /\ ~Join /\ ~Destroyed
    BY <2>4 DEF OwnerStep, Constructed, Destroy, StopLock, StopThreads, Waiting,
                Goto, ExitInv, JoinInv, TypeInv, TypeOK
  <2>5. ASSUME NEW t \in Thread, PushStep(t) PROVE JoinInv'
    BY <2>5 DEF PushStep, PushLock, Emplace, NotifyOne, Waiting, Caller, Goto,
                ExitInv, JoinInv, TypeInv, TypeOK
  <2>6. ASSUME NEW t \in Thread, NEW k \in Task, Submit(t, k) PROVE JoinInv'
    BY <2>6 DEF Submit, Caller, Goto, ExitInv, JoinInv, TypeInv, TypeOK
  <2>7. ASSUME NEW w \in Worker, WorkerStep(w) PROVE JoinInv'
    BY <2>7 DEF WorkerStep, PopLock, PopWait, PopStopped, PopTake,
                SpuriousWakeup, Finish, Goto, ExitInv, JoinInv, TypeInv, TypeOK
  <2>8. CASE UNCHANGED vars
    BY <2>8 DEF vars, ExitInv, JoinInv
  <2>9. QED
    BY <2>1, <2>2, <2>3, <2>4, <2>5, <2>6, <2>7, <2>8 DEF Next, Terminated
<1>2. DrainInv'
  <2>1. CASE OwnerStep
    BY <2>1 DEF OwnerStep, Spawn, Constructed, Destroy, StopLock, StopThreads,
                Join, Destroyed, Waiting, Goto, ExitInv, DrainInv, TypeInv, TypeOK
  <2>2. ASSUME NEW t \in Thread, NEW k \in Task, Submit(t, k) PROVE DrainInv'
    BY <2>2 DEF Submit, Caller, Goto, ExitInv, DrainInv, TypeInv, TypeOK
  <2>3. ASSUME NEW t \in Thread, PushLock(t) \/ NotifyOne(t) PROVE DrainInv'
    BY <2>3 DEF PushLock, NotifyOne, Waiting, Caller, Goto, ExitInv, DrainInv,
                TypeInv, TypeOK
  <2>4. ASSUME NEW w \in Worker, Emplace(w) PROVE DrainInv'
    <3>1. pc'[w] = "notify"
      BY <2>4 DEF Emplace, Goto, TypeInv, TypeOK
    <3>2. QED
      BY <3>1 DEF DrainInv
  <2>5. CASE Emplace(Main)
    <3>1. ~stop_request
      BY <2>5 DEF Emplace, LockInv, StopInv
    <3>2. 1 \in Worker /\ pc[1] # "exited"
      BY <3>1 DEF LockInv, StopInv, Worker
    <3>3. pc'[1] # "exited"
      BY <2>5, <3>2 DEF Emplace, Goto, TypeInv, TypeOK
    <3>4. QED
      BY <3>2, <3>3 DEF DrainInv
  <2>6. ASSUME NEW w \in Worker, PopStopped(w) PROVE DrainInv'
    BY <2>6 DEF PopStopped, DrainInv
  <2>7. ASSUME NEW w \in Worker, WorkerStep(w), ~PopStopped(w) PROVE DrainInv'
    <3>1. pc'[w] # "exited"
      BY <2>7 DEF WorkerStep, PopLock, PopWait, PopTake, SpuriousWakeup, Finish,
                  Goto, TypeInv, TypeOK
    <3>2. QED
      BY <3>1 DEF DrainInv
  <2>8. CASE UNCHANGED vars
    BY <2>8 DEF vars, ExitInv, DrainInv
  <2>9. QED
    BY <2>1, <2>2, <2>3, <2>4, <2>5, <2>6, <2>7, <2>8
       DEF Next, PushStep, Terminated, Thread
<1>3. QED
  BY <1>1, <1>2 DEF ExitInv

FullInv == TypeInv /\ LockInv /\ ExactlyOnce /\ ExitInv

LEMMA FullInvariant ==
  ASSUME NumThreads > 0
  PROVE  (Init => FullInv) /\ (FullInv /\ [Next]_vars => FullInv')
<1>1. Init => FullInv
  <2>1. Init => ExitInv
    BY ThreadFacts DEF Init, ExitInv, JoinInv, DrainInv, Worker
  <2>2. QED
    BY <2>1, TypeInit, LockInit, OnceInit DEF FullInv
<1>2. FullInv /\ [Next]_vars => FullInv'
  BY TypeStep, LockStep, OnceStep, ExitStep DEF FullInv
<1>3. QED
  BY <1>1, <1>2

LEMMA AllJoined ==
  ASSUME FullInv, joined = threads_vector, pc[Main] \in {"join", "done"}
  PROVE  /\ task_queue = << >> /\ finished = submitted
         /\ \A w \in Worker : new_task[w] = NoTask
<1>1. \A w \in Worker : pc[w] = "exited"
  BY DEF FullInv, ExitInv, JoinInv, TypeInv, SpawnInv, Worker
<1>2. task_queue = << >>
  BY <1>1 DEF FullInv, ExitInv, DrainInv
<1>3. \A w \in Worker : new_task[w] = NoTask
  BY <1>1, ThreadFacts DEF FullInv, TypeInv, TaskInv, InPush
<1>4. Passed = {} /\ Running = {} /\ Queued = {}
  <2>1. \A t \in Thread : arg[t] = NoTask
    BY <1>1, ThreadFacts DEF FullInv, TypeInv, TaskInv, Thread
  <2>2. QED
    BY <1>2, <1>3, <2>1 DEF Passed, Running, Queued
<1>5. QED
  BY <1>2, <1>3, <1>4 DEF FullInv, ExactlyOnce

(* When the destructor has returned, everything ever submitted is done.    *)
(* It needs a pool with at least one thread: the destructor of an empty    *)
(* pool drops what its queue holds.                                        *)
THEOREM DestructorDrains == ASSUME NumThreads > 0 PROVE Spec => []DrainedAtExit
<1>1. FullInv => DrainedAtExit
  BY AllJoined DEF DrainedAtExit, FullInv, ExitInv, JoinInv
<1>2. QED
  BY <1>1, FullInvariant, PTL DEF Spec

-----------------------------------------------------------------------------
(* Safe_queue and Thread_pool implement PoolSpec, step by step: emplacing  *)
(* a task submits it, and everything else that touches neither the queue   *)
(* nor a worker's task is a stutter of the abstract pool.                  *)
LEMMA PoolStep == FullInv /\ [Next]_vars => [Pool!Next]_(Pool!poolVars)
<1> SUFFICES ASSUME FullInv, [Next]_vars PROVE [Pool!Next]_(Pool!poolVars)
  OBVIOUS
<1> USE ThreadFacts DEF FullInv
<1>1. ASSUME NEW t \in Thread, Emplace(t) PROVE Pool!Submit(arg[t])
  <2>1. arg[t] \in Passed
    BY <1>1 DEF Emplace, Passed, TypeInv, TaskInv
  <2>2. arg[t] \notin Pool!Queued \cup Pool!Executed \cup finished
    BY <2>1 DEF ExactlyOnce, Passed, Queued, Running, Pool!Queued, Pool!Executed
  <2>3. stop_request => ~Pool!AllIdle
    <3>1. CASE t = Main
      BY <1>1, <3>1 DEF Emplace, LockInv, StopInv
    <3>2. CASE t \in Worker
      BY <1>1, <3>2 DEF Emplace, TypeInv, TaskInv, InPush, Pool!AllIdle
    <3>3. QED
      BY <3>1, <3>2 DEF Thread
  <2>4. (pc[Main] = "done")' = (pc[Main] = "done")
    BY <1>1 DEF Emplace, Goto, TypeInv, TypeOK
  <2>5. QED
    BY <1>1, <2>2, <2>3, <2>4 DEF Emplace, Pool!Submit
<1>2. ASSUME NEW w \in Worker, PopTake(w) PROVE Pool!Take(w)
  <2>1. new_task[w] = NoTask
    BY <1>2 DEF PopTake, TypeInv, TaskInv, InPush
  <2>2. (pc[Main] = "done")' = (pc[Main] = "done")
    BY <1>2 DEF PopTake, Goto, TypeInv, TypeOK
  <2>3. QED
    BY <1>2, <2>1, <2>2 DEF PopTake, Pool!Take
<1>3. ASSUME NEW w \in Worker, Finish(w) PROVE Pool!Finish(w)
  <2>1. new_task[w] # NoTask
    BY <1>3 DEF Finish, TypeInv, TaskInv, InPush
  <2>2. (pc[Main] = "done")' = (pc[Main] = "done")
    BY <1>3 DEF Finish, Goto, TypeInv, TypeOK
  <2>3. QED
    BY <1>3, <2>1, <2>2 DEF Finish, Pool!Finish
<1>4. CASE StopThreads
  BY <1>4 DEF StopThreads, LockInv, StopInv, Pool!Next, Pool!Close
<1>5. CASE Destroyed
  <2>1. (pc[Main] = "done")' = TRUE /\ stop_request
    BY <1>5 DEF Destroyed, Goto, LockInv, StopInv, TypeInv, TypeOK
  <2>2. task_queue = << >> /\ Pool!AllIdle
    BY <1>5, AllJoined DEF Destroyed, Pool!AllIdle
  <2>3. QED
    BY <1>5, <2>1, <2>2 DEF Destroyed, Pool!Next, Pool!ShutDown
<1>6. ASSUME UNCHANGED <<task_queue, new_task, finished, stop_request>>,
             (pc[Main] = "done")' = (pc[Main] = "done")
      PROVE  UNCHANGED Pool!poolVars
  BY <1>6 DEF Pool!poolVars
<1>7. CASE OwnerStep /\ ~StopThreads /\ ~Destroyed
  BY <1>6, <1>7 DEF OwnerStep, Spawn, Constructed, Destroy, StopLock, Join,
                    Goto, TypeInv, TypeOK, Worker
<1>8. ASSUME NEW t \in Thread, NEW k \in Task, Submit(t, k)
      PROVE  UNCHANGED Pool!poolVars
  BY <1>6, <1>8 DEF Submit, Goto, Caller, TypeInv, TypeOK
<1>9. ASSUME NEW t \in Thread, PushLock(t) \/ NotifyOne(t)
      PROVE  UNCHANGED Pool!poolVars
  BY <1>6, <1>9 DEF PushLock, NotifyOne, Waiting, Goto, Caller, TypeInv, TypeOK
<1>10. ASSUME NEW w \in Worker,
              PopLock(w) \/ PopWait(w) \/ PopStopped(w) \/ SpuriousWakeup(w)
       PROVE  UNCHANGED Pool!poolVars
  BY <1>6, <1>10 DEF PopLock, PopWait, PopStopped, SpuriousWakeup, Goto,
                     TypeInv, TypeOK
<1>11. CASE UNCHANGED vars
  BY <1>6, <1>11 DEF vars
<1>12. ASSUME NEW t \in Thread, Emplace(t) PROVE Pool!Next
  BY <1>1, <1>12 DEF Pool!Next, Emplace, TypeInv, TypeOK, TaskInv
<1>13. QED
  BY <1>2, <1>3, <1>4, <1>5, <1>7, <1>8, <1>9, <1>10, <1>11, <1>12
     DEF Next, PushStep, WorkerStep, OwnerStep, Terminated, Pool!Next

(* The safety part of the contract: tasks are taken in the order of        *)
(* submission, one at a time per worker, and the destructor returns only   *)
(* when nothing is queued or running.                                      *)
THEOREM PoolRefinement ==
  ASSUME NumThreads > 0
  PROVE  Spec => Pool!Init /\ [][Pool!Next]_(Pool!poolVars)
<1>1. Init => Pool!Init
  BY DEF Init, Pool!Init, Main, Thread
<1>2. QED
  BY <1>1, FullInvariant, PoolStep, PTL DEF Spec
-----------------------------------------------------------------------------
(* No lost wake-up.  The sets that are counted only grow or shrink by one  *)
(* thread in a step.                                                       *)
LEMMA FiniteThreads ==
  ASSUME NEW S \in SUBSET Thread
  PROVE  IsFiniteSet(S) /\ Cardinality(S) \in Nat
<1>1. IsFiniteSet(Thread)
  <2>1. IsFiniteSet(Worker)
    BY PoolAssumption, FS_Interval DEF Worker
  <2>2. IsFiniteSet(Worker \cup {Main})
    BY <2>1, FS_AddElement
  <2>3. Worker \cup {Main} = Thread
    BY DEF Thread
  <2>4. QED
    BY <2>2, <2>3
<1>2. QED
  BY <1>1, FS_Subset, FS_CardinalityType

LEMMA WakeupStep == TypeInv /\ LockInv /\ NoLostWakeup /\ [Next]_vars => NoLostWakeup'
<1> SUFFICES ASSUME TypeInv, LockInv, NoLostWakeup, [Next]_vars, Waiting' # {}
             PROVE  Len(task_queue') <= Cardinality(Fetching') + Cardinality(Notifiers')
  BY DEF NoLostWakeup
<1> DEFINE F == Cardinality(Fetching)  N == Cardinality(Notifiers)
<1> USE ThreadFacts
<1>0. /\ IsFiniteSet(Fetching) /\ IsFiniteSet(Notifiers)
      /\ IsFiniteSet(Fetching') /\ IsFiniteSet(Notifiers')
      /\ F \in Nat /\ N \in Nat /\ F' \in Nat /\ N' \in Nat
      /\ Len(task_queue) \in Nat
  <2>1. /\ Fetching \in SUBSET Thread /\ Notifiers \in SUBSET Thread
        /\ Fetching' \in SUBSET Thread /\ Notifiers' \in SUBSET Thread
    BY DEF Fetching, Notifiers
  <2>2. QED
    BY <2>1, FiniteThreads DEF TypeInv, TypeOK
<1>1. ASSUME Waiting' \subseteq Waiting, Len(task_queue') = Len(task_queue),
             F' + N' >= F + N
      PROVE  Len(task_queue') <= F' + N'
  BY <1>0, <1>1 DEF NoLostWakeup
<1>2. ASSUME pc' = pc, task_queue' = task_queue
      PROVE  Len(task_queue') <= F' + N'
  BY <1>1, <1>0, <1>2 DEF Waiting, Fetching, Notifiers
<1>3. ASSUME NEW w \in Thread, NEW l \in Locations,
             l # "waiting", pc[w] \notin {"pop", "check", "notify"},
             Goto(w, l), task_queue' = task_queue
      PROVE  Len(task_queue') <= F' + N'
  <2>1. Waiting' \subseteq Waiting
    BY <1>3 DEF Goto, Waiting, TypeInv, TypeOK
  <2>2. Fetching \subseteq Fetching' /\ Notifiers \subseteq Notifiers'
    BY <1>3 DEF Goto, Fetching, Notifiers, TypeInv, TypeOK
  <2>3. F' >= F /\ N' >= N
    BY <1>0, <2>2, FS_Subset
  <2>4. QED
    BY <1>0, <1>1, <1>3, <2>1, <2>3
<1>4. ASSUME NEW t \in Thread, Emplace(t) PROVE Len(task_queue') <= F' + N'
  <2>1. Waiting' = Waiting /\ Fetching' = Fetching
    BY <1>4 DEF Emplace, Goto, Waiting, Fetching, TypeInv, TypeOK
  <2>2. Notifiers' = Notifiers \cup {t} /\ t \notin Notifiers
    BY <1>4 DEF Emplace, Goto, Notifiers, TypeInv, TypeOK
  <2>3. N' = N + 1
    BY <1>0, <2>2, FS_AddElement
  <2>4. Len(task_queue') = Len(task_queue) + 1
    BY <1>4 DEF Emplace, TypeInv, TypeOK, TaskInv
  <2>5. QED
    BY <1>0, <2>1, <2>3, <2>4 DEF NoLostWakeup
<1>5. ASSUME NEW t \in Thread, NotifyOne(t) PROVE Len(task_queue') <= F' + N'
  <2>1. PICK w \in Waiting : pc' = [pc EXCEPT ![t] = Caller(t), ![w] = "pop"]
    BY <1>5 DEF NotifyOne, Goto, Caller, Waiting, TypeInv, TypeOK
  <2>2. /\ Waiting' \subseteq Waiting
        /\ Fetching' = Fetching \cup {w} /\ w \notin Fetching
        /\ Notifiers' = Notifiers \ {t} /\ t \in Notifiers
    <3>1. pc[w] = "waiting" /\ pc[t] = "notify" /\ w \in Worker
      BY <1>5 DEF NotifyOne, Waiting
    <3>2. /\ pc'[w] = "pop" /\ pc'[t] \in {"ready", "run"}
          /\ \A u \in Thread : u # w /\ u # t => pc'[u] = pc[u]
      BY <2>1, <3>1 DEF Caller, TypeInv, TypeOK
    <3>3. QED
      BY <3>1, <3>2 DEF Waiting, Fetching, Notifiers
  <2>3. F' = F + 1 /\ N' = N - 1
    BY <1>0, <2>2, FS_AddElement, FS_RemoveElement
  <2>4. QED
    BY <1>0, <1>1, <1>5, <2>2, <2>3 DEF NotifyOne
<1>6. ASSUME NEW w \in Worker, PopLock(w) PROVE Len(task_queue') <= F' + N'
  <2>1. Waiting' = Waiting /\ Fetching' = Fetching /\ Notifiers' = Notifiers
    BY <1>6 DEF PopLock, Goto, Waiting, Fetching, Notifiers, TypeInv, TypeOK
  <2>2. QED
    BY <1>0, <1>1, <1>6, <2>1 DEF PopLock
<1>7. ASSUME NEW w \in Worker, PopWait(w) \/ PopStopped(w)
      PROVE  Len(task_queue') <= F' + N'
  BY <1>0, <1>7 DEF PopWait, PopStopped
<1>8. ASSUME NEW w \in Worker, PopTake(w) PROVE Len(task_queue') <= F' + N'
  <2>1. Waiting' = Waiting /\ Notifiers' = Notifiers
    BY <1>8 DEF PopTake, Goto, Waiting, Notifiers, TypeInv, TypeOK
  <2>2. Fetching' = Fetching \ {w} /\ w \in Fetching
    BY <1>8 DEF PopTake, Goto, Fetching, TypeInv, TypeOK
  <2>3. F' = F - 1
    BY <1>0, <2>2, FS_RemoveElement
  <2>4. Len(task_queue') = Len(task_queue) - 1
    BY <1>8 DEF PopTake, TypeInv, TypeOK
  <2>5. QED
    BY <1>0, <2>1, <2>3, <2>4 DEF NoLostWakeup
<1>9. CASE Spawn
  <2>1. threads_vector + 1 \in Worker /\ pc[threads_vector + 1] = "unborn"
    BY <1>9 DEF Spawn, TypeInv, TypeOK, SpawnInv, Worker
  <2>2. QED
    BY <1>3, <1>9, <2>1 DEF Spawn, Locations
<1>10. CASE StopThreads
  <2>1. Waiting' = {}
    BY <1>10 DEF StopThreads, Waiting, TypeInv, TypeOK
  <2>2. QED
    BY <2>1
<1>11. CASE OwnerStep /\ ~Spawn /\ ~StopThreads
  BY <1>2, <1>3, <1>11
     DEF OwnerStep, Constructed, Destroy, StopLock, Join, Destroyed, Locations
<1>12. ASSUME NEW t \in Thread, NEW k \in Task, Submit(t, k)
       PROVE  Len(task_queue') <= F' + N'
  BY <1>3, <1>12 DEF Submit, Caller, Locations
<1>13. ASSUME NEW w \in Worker, SpuriousWakeup(w) \/ Finish(w)
       PROVE  Len(task_queue') <= F' + N'
  BY <1>3, <1>13 DEF SpuriousWakeup, Finish, Locations
<1>14. CASE UNCHANGED vars
  BY <1>2, <1>14 DEF vars
<1>15. ASSUME NEW t \in Thread, PushLock(t) PROVE Len(task_queue') <= F' + N'
  BY <1>3, <1>15 DEF PushLock, Locations
<1>16. QED
  BY <1>4, <1>5, <1>6, <1>7, <1>8, <1>9, <1>10, <1>11, <1>12, <1>13, <1>14, <1>15
     DEF Next, PushStep, WorkerStep, OwnerStep, Terminated

(* One notify_one() per push() is enough: no queued task is left while     *)
(* every worker sleeps and nobody is about to wake one.                    *)
THEOREM NoWakeupLost == Spec => []NoLostWakeup
<1>1. Init => NoLostWakeup
  BY ThreadFacts DEF Init, NoLostWakeup, Waiting
<1>2. QED
  BY <1>1, TypeInit, LockInit, TypeStep, LockStep, WakeupStep, PTL DEF Spec
=============================================================================
