------------------------------ MODULE PoolSpec ------------------------------
(***************************************************************************)
(* What Thread_pool promises to the code that uses it, with no mutex and   *)
(* no condition variable: tasks are taken in the order they were           *)
(* submitted, each by one worker and once, and the destructor returns only *)
(* when nothing is queued or running.                                      *)
(* ThreadPool.tla is the detailed specification that implements this one.  *)
(***************************************************************************)
EXTENDS Naturals, Sequences

CONSTANTS
  Task,      \* the tasks that can be submitted
  Worker,    \* the pool's threads
  NoTask     \* not a task: an idle worker

VARIABLES
  pending,   \* tasks submitted and not yet taken, oldest first
  running,   \* running[w] is the task worker w executes, or NoTask
  finished,  \* tasks whose execution ended
  closed,    \* the destructor has asked the workers to stop
  down       \* the destructor has returned

poolVars == <<pending, running, finished, closed, down>>

Queued   == {pending[i] : i \in 1..Len(pending)}
Executed == {running[w] : w \in Worker}
AllIdle  == \A w \in Worker : running[w] = NoTask

Init ==
  /\ pending = << >>
  /\ running = [w \in Worker |-> NoTask]
  /\ finished = {}
  /\ closed = FALSE
  /\ down = FALSE

(***************************************************************************)
(* A task is submitted by the owner of the pool before it closes it, or by *)
(* a task that is running, at any time.                                    *)
(***************************************************************************)
Submit(t) ==
  /\ closed => ~AllIdle
  /\ t \notin Queued \cup Executed \cup finished
  /\ pending' = Append(pending, t)
  /\ UNCHANGED <<running, finished, closed, down>>

Take(w) ==
  /\ pending # << >>
  /\ running[w] = NoTask
  /\ running' = [running EXCEPT ![w] = Head(pending)]
  /\ pending' = Tail(pending)
  /\ UNCHANGED <<finished, closed, down>>

Finish(w) ==
  /\ running[w] # NoTask
  /\ finished' = finished \cup {running[w]}
  /\ running' = [running EXCEPT ![w] = NoTask]
  /\ UNCHANGED <<pending, closed, down>>

Close ==
  /\ ~closed
  /\ closed' = TRUE
  /\ UNCHANGED <<pending, running, finished, down>>

(* The destructor returns: everything submitted has been executed. *)
ShutDown ==
  /\ closed
  /\ pending = << >>
  /\ AllIdle
  /\ down' = TRUE
  /\ UNCHANGED <<pending, running, finished, closed>>

Next ==
  \/ \E t \in Task : Submit(t)
  \/ \E w \in Worker : Take(w) \/ Finish(w)
  \/ Close
  \/ ShutDown

(***************************************************************************)
(* The scheduler runs every thread: a queued task is eventually taken and  *)
(* a closed pool eventually goes down, provided the tasks themselves end.  *)
(***************************************************************************)
Fairness ==
  /\ WF_poolVars(\E w \in Worker : Take(w))
  /\ \A w \in Worker : WF_poolVars(Finish(w))
  /\ WF_poolVars(ShutDown)

Spec == Init /\ [][Next]_poolVars /\ Fairness
=============================================================================
