----------------------------- MODULE ThreadPool -----------------------------
(***************************************************************************)
(* Safe_queue and Thread_pool (header_files/thread_pool.h and              *)
(* source_files/thread_pool.cpp of Spider_programme) at the granularity of *)
(* their mutex and condition variable.                                     *)
(*                                                                         *)
(* A critical section is two steps: acquiring the mutex, and everything    *)
(* done while holding it up to its release.  No other thread can see the   *)
(* state in between, except that it finds the mutex taken.  notify_one of  *)
(* push() comes after the unlock and is a step of its own; notify_all of   *)
(* stop_threads() is called with the mutex held.                           *)
(***************************************************************************)
EXTENDS Integers, Sequences, FiniteSets

CONSTANTS
  Task,         \* the tasks that may ever be submitted
  NoTask,       \* a thread that holds no task
  NumThreads,   \* numThreads of the constructor
  MaxSpurious   \* bound on the spurious wake-ups of one run

ASSUME PoolAssumption ==
  /\ NoTask \notin Task
  /\ NumThreads \in Nat
  /\ MaxSpurious \in Nat

Main   == 0                \* the thread that owns the Thread_pool
Worker == 1..NumThreads
Thread == {Main} \cup Worker
Free   == -1               \* the mutex has no owner

VARIABLES
  mtx,             \* owner of Safe_queue::mtx, or Free
  task_queue,      \* Safe_queue::task_queue
  stop_request,    \* Safe_queue::stop_request
  threads_vector,  \* size of Thread_pool::threads_vector
  pc,              \* where each thread is
  arg,             \* arg[t]: the task thread t is passing to push()
  new_task,        \* new_task[w]: the task worker w executes in work()
  joined,          \* number of threads the destructor has joined
  submitted,       \* history: every task given to submit()
  finished,        \* tasks whose future is ready
  spurious         \* spurious wake-ups so far

vars == <<mtx, task_queue, stop_request, threads_vector, pc, arg, new_task,
          joined, submitted, finished, spurious>>

Waiting   == {w \in Worker : pc[w] = "waiting"}          \* asleep in notice.wait
Fetching  == {w \in Worker : pc[w] \in {"pop", "check"}} \* about to look at the queue
Notifiers == {t \in Thread : pc[t] = "notify"}           \* owe a notify_one

Queued  == {task_queue[i] : i \in 1..Len(task_queue)}
Passed  == {arg[t] : t \in Thread} \ {NoTask}
Running == {new_task[w] : w \in Worker} \ {NoTask}

(* Where a thread continues when submit() returns. *)
Caller(t) == IF t = Main THEN "ready" ELSE "run"

Goto(t, l) == pc' = [pc EXCEPT ![t] = l]

Init ==
  /\ mtx = Free
  /\ task_queue = << >>
  /\ stop_request = FALSE
  /\ threads_vector = 0
  /\ pc = [t \in Thread |-> IF t = Main THEN "construct" ELSE "unborn"]
  /\ arg = [t \in Thread |-> NoTask]
  /\ new_task = [w \in Worker |-> NoTask]
  /\ joined = 0
  /\ submitted = {}
  /\ finished = {}
  /\ spurious = 0

-----------------------------------------------------------------------------
(* Thread_pool::Thread_pool: one emplace_back(std::thread) after another.  *)
(* The threads already started run meanwhile.                              *)
Spawn ==
  /\ pc[Main] = "construct"
  /\ threads_vector < NumThreads
  /\ threads_vector' = threads_vector + 1
  /\ Goto(threads_vector + 1, "pop")
  /\ UNCHANGED <<mtx, task_queue, stop_request, arg, new_task, joined,
                 submitted, finished, spurious>>

Constructed ==
  /\ pc[Main] = "construct"
  /\ threads_vector = NumThreads
  /\ Goto(Main, "ready")
  /\ UNCHANGED <<mtx, task_queue, stop_request, threads_vector, arg, new_task,
                 joined, submitted, finished, spurious>>

-----------------------------------------------------------------------------
(* Thread_pool::submit, called by the owner or from inside a running task. *)
Submit(t, k) ==
  /\ pc[t] = Caller(t)
  /\ k \notin submitted
  /\ submitted' = submitted \cup {k}
  /\ arg' = [arg EXCEPT ![t] = k]
  /\ Goto(t, "push")
  /\ UNCHANGED <<mtx, task_queue, stop_request, threads_vector, new_task,
                 joined, finished, spurious>>

(* Safe_queue::push: lock, emplace and unlock, notify_one. *)
PushLock(t) ==
  /\ pc[t] = "push"
  /\ mtx = Free
  /\ mtx' = t
  /\ Goto(t, "emplace")
  /\ UNCHANGED <<task_queue, stop_request, threads_vector, arg, new_task,
                 joined, submitted, finished, spurious>>

Emplace(t) ==
  /\ pc[t] = "emplace"
  /\ task_queue' = Append(task_queue, arg[t])
  /\ arg' = [arg EXCEPT ![t] = NoTask]
  /\ mtx' = Free
  /\ Goto(t, "notify")
  /\ UNCHANGED <<stop_request, threads_vector, new_task, joined, submitted,
                 finished, spurious>>

(* Mutant of NotifyOne: push() forgets notify_one.                         *)
NotifyNobody(t) ==
  /\ pc[t] = "notify"
  /\ Goto(t, Caller(t))
  /\ UNCHANGED <<mtx, task_queue, stop_request, threads_vector, arg, new_task,
                 joined, submitted, finished, spurious>>

(* notify_one wakes one sleeping worker if there is one; the woken worker   *)
(* has to take the mutex again before it can look at the queue.             *)
NotifyOne(t) ==
  /\ pc[t] = "notify"
  /\ \/ \E w \in Waiting :
          pc' = [pc EXCEPT ![t] = Caller(t), ![w] = "pop"]
     \/ /\ Waiting = {}
        /\ Goto(t, Caller(t))
  /\ UNCHANGED <<mtx, task_queue, stop_request, threads_vector, arg, new_task,
                 joined, submitted, finished, spurious>>

-----------------------------------------------------------------------------
(* Safe_queue::pop, called by work(). *)
PopLock(w) ==
  /\ pc[w] = "pop"
  /\ mtx = Free
  /\ mtx' = w
  /\ Goto(w, "check")
  /\ UNCHANGED <<task_queue, stop_request, threads_vector, arg, new_task,
                 joined, submitted, finished, spurious>>

(* The predicate of wait() is false: sleep and release the mutex at once. *)
PopWait(w) ==
  /\ pc[w] = "check"
  /\ task_queue = << >> /\ ~stop_request
  /\ mtx' = Free
  /\ Goto(w, "waiting")
  /\ UNCHANGED <<task_queue, stop_request, threads_vector, arg, new_task,
                 joined, submitted, finished, spurious>>

(* Mutant of PopStopped: pop() gives up although tasks are queued.         *)
PopStoppedEarly(w) ==
  /\ pc[w] = "check"
  /\ stop_request
  /\ mtx' = Free
  /\ Goto(w, "exited")
  /\ UNCHANGED <<task_queue, stop_request, threads_vector, arg, new_task,
                 joined, submitted, finished, spurious>>

(* pop() returns false and work() breaks out of its loop. *)
PopStopped(w) ==
  /\ pc[w] = "check"
  /\ task_queue = << >> /\ stop_request
  /\ mtx' = Free
  /\ Goto(w, "exited")
  /\ UNCHANGED <<task_queue, stop_request, threads_vector, arg, new_task,
                 joined, submitted, finished, spurious>>

(* Mutants of PopTake: the task is not popped; the newest task is taken.   *)
PopPeek(w) ==
  /\ pc[w] = "check"
  /\ task_queue # << >>
  /\ new_task' = [new_task EXCEPT ![w] = Head(task_queue)]
  /\ mtx' = Free
  /\ Goto(w, "run")
  /\ UNCHANGED <<task_queue, stop_request, threads_vector, arg, joined,
                 submitted, finished, spurious>>

PopNewest(w) ==
  /\ pc[w] = "check"
  /\ task_queue # << >>
  /\ new_task' = [new_task EXCEPT ![w] = task_queue[Len(task_queue)]]
  /\ task_queue' = SubSeq(task_queue, 1, Len(task_queue) - 1)
  /\ mtx' = Free
  /\ Goto(w, "run")
  /\ UNCHANGED <<stop_request, threads_vector, arg, joined, submitted,
                 finished, spurious>>

PopTake(w) ==
  /\ pc[w] = "check"
  /\ task_queue # << >>
  /\ new_task' = [new_task EXCEPT ![w] = Head(task_queue)]
  /\ task_queue' = Tail(task_queue)
  /\ mtx' = Free
  /\ Goto(w, "run")
  /\ UNCHANGED <<stop_request, threads_vector, arg, joined, submitted,
                 finished, spurious>>

(* A condition variable may return from wait() unnotified. *)
SpuriousWakeup(w) ==
  /\ pc[w] = "waiting"
  /\ spurious < MaxSpurious
  /\ spurious' = spurious + 1
  /\ Goto(w, "pop")
  /\ UNCHANGED <<mtx, task_queue, stop_request, threads_vector, arg, new_task,
                 joined, submitted, finished>>

(* new_task.task(...) returns.  A packaged_task stores an exception of its  *)
(* function in the future, so the worker goes on in either case.            *)
Finish(w) ==
  /\ pc[w] = "run"
  /\ finished' = finished \cup {new_task[w]}
  /\ new_task' = [new_task EXCEPT ![w] = NoTask]
  /\ Goto(w, "pop")
  /\ UNCHANGED <<mtx, task_queue, stop_request, threads_vector, arg, joined,
                 submitted, spurious>>

-----------------------------------------------------------------------------
(* Thread_pool::~Thread_pool: stop_threads(), then join every thread.      *)
Destroy ==
  /\ pc[Main] = "ready"
  /\ Goto(Main, "stop")
  /\ UNCHANGED <<mtx, task_queue, stop_request, threads_vector, arg, new_task,
                 joined, submitted, finished, spurious>>

StopLock ==
  /\ pc[Main] = "stop"
  /\ mtx = Free
  /\ mtx' = Main
  /\ Goto(Main, "stopping")
  /\ UNCHANGED <<task_queue, stop_request, threads_vector, arg, new_task,
                 joined, submitted, finished, spurious>>

StopThreads ==
  /\ pc[Main] = "stopping"
  /\ stop_request' = TRUE
  /\ pc' = [t \in Thread |-> IF t = Main THEN "join"
                             ELSE IF t \in Waiting THEN "pop" ELSE pc[t]]
  /\ mtx' = Free
  /\ UNCHANGED <<task_queue, threads_vector, arg, new_task, joined, submitted,
                 finished, spurious>>

Join ==
  /\ pc[Main] = "join"
  /\ joined < threads_vector
  /\ pc[joined + 1] = "exited"
  /\ joined' = joined + 1
  /\ UNCHANGED <<mtx, task_queue, stop_request, threads_vector, pc, arg,
                 new_task, submitted, finished, spurious>>

Destroyed ==
  /\ pc[Main] = "join"
  /\ joined = threads_vector
  /\ Goto(Main, "done")
  /\ UNCHANGED <<mtx, task_queue, stop_request, threads_vector, arg, new_task,
                 joined, submitted, finished, spurious>>

Terminated == pc[Main] = "done" /\ UNCHANGED vars

-----------------------------------------------------------------------------
WorkerStep(w) ==
  \/ PopLock(w) \/ PopWait(w) \/ PopStopped(w) \/ PopTake(w)
  \/ SpuriousWakeup(w) \/ Finish(w)

PushStep(t) == PushLock(t) \/ Emplace(t) \/ NotifyOne(t)

OwnerStep == Spawn \/ Constructed \/ Destroy \/ StopLock \/ StopThreads
             \/ Join \/ Destroyed

Next ==
  \/ \E t \in Thread : PushStep(t) \/ \E k \in Task : Submit(t, k)
  \/ \E w \in Worker : WorkerStep(w)
  \/ OwnerStep
  \/ Terminated

(***************************************************************************)
(* Every thread that can move is eventually scheduled and every task ends. *)
(* Submitting a task, destroying the pool and spurious wake-ups are not    *)
(* forced to happen.  Weak fairness is enough for the locks: tasks and     *)
(* spurious wake-ups are finitely many, so no thread can be overtaken at   *)
(* the mutex for ever.                                                     *)
(***************************************************************************)
Fairness ==
  /\ \A t \in Thread : WF_vars(PushStep(t))
  /\ \A w \in Worker : WF_vars(PopLock(w) \/ PopWait(w) \/ PopStopped(w)
                               \/ PopTake(w) \/ Finish(w))
  /\ WF_vars(Spawn \/ Constructed \/ StopLock \/ StopThreads \/ Join \/ Destroyed)

Spec == Init /\ [][Next]_vars /\ Fairness

-----------------------------------------------------------------------------
Locations == {"construct", "ready", "push", "emplace", "notify", "stop",
              "stopping", "join", "done", "unborn", "pop", "check", "waiting",
              "run", "exited"}

(* Types of the state of Safe_queue, Thread_pool and the threads. *)
TypeOK ==
  /\ mtx \in Thread \cup {Free}
  /\ task_queue \in Seq(Task)
  /\ stop_request \in BOOLEAN
  /\ threads_vector \in 0..NumThreads
  /\ pc \in [Thread -> Locations]
  /\ arg \in [Thread -> Task \cup {NoTask}]
  /\ new_task \in [Worker -> Task \cup {NoTask}]
  /\ joined \in 0..NumThreads
  /\ submitted \subseteq Task
  /\ finished \subseteq Task
  /\ spurious \in 0..MaxSpurious

-----------------------------------------------------------------------------
(* A task handed to submit() is in exactly one place: on its way through   *)
(* push(), in the queue, being executed by one worker, or finished.  So no *)
(* task is lost, run twice or run by two workers, whatever the threads do. *)
ExactlyOnce ==
  /\ submitted = Passed \cup Queued \cup Running \cup finished
  /\ \A i, j \in 1..Len(task_queue) :
       task_queue[i] = task_queue[j] => i = j
  /\ \A t, u \in Thread : arg[t] = arg[u] /\ arg[t] # NoTask => t = u
  /\ \A v, w \in Worker :
       new_task[v] = new_task[w] /\ new_task[v] # NoTask => v = w
  /\ Passed \cap Queued = {} /\ Passed \cap Running = {}
  /\ Queued \cap Running = {}
  /\ finished \cap (Passed \cup Queued \cup Running) = {}

(* No worker sleeps on the condition variable while a queued task has      *)
(* nobody coming for it: as long as somebody sleeps, every queued task is  *)
(* matched by a worker on its way to the queue or by a push() that still   *)
(* owes its notify_one.  This is what makes one notify_one per push enough.*)
NoLostWakeup ==
  Waiting # {} =>
    Len(task_queue) <= Cardinality(Fetching) + Cardinality(Notifiers)

(* After stop_threads() no worker is left asleep for the destructor to     *)
(* join, although a worker may have tested stop_request just before.       *)
StopWakesAll == stop_request => Waiting = {}

(* When the destructor returns every submitted task has been executed, the *)
(* ones that running tasks submitted after stop_request was set included.  *)
DrainedAtExit ==
  pc[Main] = "done" => task_queue = << >> /\ finished = submitted

(* The pool implements its abstract specification. *)
Pool == INSTANCE PoolSpec WITH pending <- task_queue,
                               running <- new_task,
                               closed  <- stop_request,
                               down    <- pc[Main] = "done"

PoolContract == Pool!Spec

(* Every task given to submit() is executed, whether or not the owner ever *)
(* destroys the pool: the future returned by submit() becomes ready.       *)
EveryTaskRuns == \A k \in Task : k \in submitted ~> k \in finished

-----------------------------------------------------------------------------
(* The inductive invariant behind the properties above, by subject.        *)
InPush   == {"push", "emplace", "notify"}
Critical == {"emplace", "check", "stopping"}

PcInv ==
  /\ pc[Main] \in {"construct", "ready", "stop", "stopping", "join", "done"} \cup InPush
  /\ \A w \in Worker :
       pc[w] \in {"unborn", "pop", "check", "waiting", "run", "exited"} \cup InPush

(* A thread owns the mutex exactly inside a critical section. *)
MutexInv == \A t \in Thread : mtx = t <=> pc[t] \in Critical

TaskInv ==
  /\ \A t \in Thread : arg[t] # NoTask <=> pc[t] \in {"push", "emplace"}
  /\ \A w \in Worker : new_task[w] # NoTask <=> pc[w] \in {"run"} \cup InPush

SpawnInv ==
  /\ \A w \in Worker : pc[w] = "unborn" <=> w > threads_vector
  /\ pc[Main] # "construct" => threads_vector = NumThreads

StopInv ==
  /\ stop_request <=> pc[Main] \in {"join", "done"}
  /\ \A w \in Worker : pc[w] = "exited" => stop_request

JoinInv ==
  /\ \A w \in Worker : w <= joined => pc[w] = "exited"
  /\ pc[Main] = "done" => joined = threads_vector

(* A queued task always has a worker left that has not exited. *)
DrainInv == task_queue # << >> => \E w \in Worker : pc[w] # "exited"

IInv ==
  /\ TypeOK /\ PcInv /\ TaskInv /\ MutexInv
  /\ SpawnInv /\ StopInv /\ JoinInv /\ DrainInv /\ StopWakesAll
=============================================================================
