------------------------------ MODULE TaskQueue ------------------------------
(***************************************************************************)
(* The queue of tasks and its pool of threads (TaskQueue), as the server   *)
(* keeps one for its requests.  Each thread of the pool runs the loop of   *)
(* an io_service, which hands it the tasks in the order they were posted;  *)
(* the destructor stops the loop and joins the threads.                    *)
(***************************************************************************)
EXTENDS Naturals, Sequences, FiniteSets

CONSTANTS
    Threads,    \* the threads of the pool
    Tasks,      \* the tasks that are ever queued
    None        \* no task

ASSUME NoneAssumption == None \notin Tasks
ASSUME ThreadsAssumption == IsFiniteSet(Threads) /\ Threads # {}

VARIABLES
    queue,      \* io_service_: the handlers not started
    running,    \* the task each thread is in
    done,       \* the tasks whose future is ready
    futures,    \* futures_: the tasks the queue keeps a future of
    ended,      \* the threads that have left Run
    phase       \* "open", "stopped" by the destructor, or "gone"

queueVars == <<queue, running, done, futures, ended, phase>>

QueueInit ==
    /\ queue = <<>>
    /\ running = [t \in Threads |-> None]
    /\ done = {} /\ futures = {} /\ ended = {}
    /\ phase = "open"

Queued == {queue[i] : i \in DOMAIN queue}
Started == {running[t] : t \in Threads} \ {None}

NumPendingTasks == Cardinality(futures \ done)

(* Each call of QueueTask posts a task of its own, after waiting for a     *)
(* thread: for any of futures_ to be ready when too many are pending.  No  *)
(* future is ever put there.                                               *)
QueueTask(k) ==
    /\ phase = "open" /\ k \notin Queued \union Started \union done
    /\ NumPendingTasks < Cardinality(Threads) \/ futures \intersect done # {}
    /\ queue' = Append(queue, k)
    /\ UNCHANGED <<running, done, futures, ended, phase>>

(* The loop of a thread takes the first handler. *)
Start(t) ==
    /\ phase = "open" /\ t \notin ended /\ running[t] = None
    /\ queue # <<>>
    /\ running' = [running EXCEPT ![t] = Head(queue)]
    /\ queue' = Tail(queue)
    /\ UNCHANGED <<done, futures, ended, phase>>

(* The packaged task makes its future ready, with a value or an exception. *)
Complete(t) ==
    /\ running[t] # None
    /\ done' = done \union {running[t]}
    /\ running' = [running EXCEPT ![t] = None]
    /\ UNCHANGED <<queue, futures, ended, phase>>

(* The destructor: the loops are told to stop, running handlers finish.    *)
Stop ==
    /\ phase = "open"
    /\ phase' = "stopped"
    /\ UNCHANGED <<queue, running, done, futures, ended>>

(* mutant: no work_ keeps the loop of an idle thread going *)
LeaveRunWhenIdle(t) ==
    /\ t \notin ended /\ running[t] = None
    /\ phase = "stopped" \/ queue = <<>>
    /\ ended' = ended \union {t}
    /\ UNCHANGED <<queue, running, done, futures, phase>>

(* A thread comes back to the loop and finds it stopped. *)
LeaveRun(t) ==
    /\ phase = "stopped" /\ t \notin ended /\ running[t] = None
    /\ ended' = ended \union {t}
    /\ UNCHANGED <<queue, running, done, futures, phase>>

(* mutant: the threads are not joined *)
DestroyUnjoined ==
    /\ phase = "stopped"
    /\ phase' = "gone" /\ queue' = <<>>
    /\ UNCHANGED <<running, done, futures, ended>>

(* join_all returns, and the handlers that never ran are destroyed.        *)
Destroy ==
    /\ phase = "stopped" /\ ended = Threads
    /\ phase' = "gone" /\ queue' = <<>>
    /\ UNCHANGED <<running, done, futures, ended>>

QueueNext ==
    \/ \E k \in Tasks : QueueTask(k)
    \/ \E t \in Threads : Start(t) \/ Complete(t) \/ LeaveRun(t)
    \/ Stop \/ Destroy

QueueSpec == QueueInit /\ [][QueueNext]_queueVars

(* The threads run, the tasks come to an end, and a destructor goes on.    *)
FairQueueSpec ==
    /\ QueueSpec
    /\ \A t \in Threads :
          /\ WF_queueVars(Start(t)) /\ WF_queueVars(Complete(t))
          /\ WF_queueVars(LeaveRun(t))
    /\ WF_queueVars(Destroy)

-----------------------------------------------------------------------------
(* Properties *)

(* What the variables hold. *)
QueueTypes ==
    /\ queue \in Seq(Tasks)
    /\ running \in [Threads -> Tasks \union {None}]
    /\ done \subseteq Tasks /\ futures \subseteq Tasks
    /\ ended \subseteq Threads
    /\ phase \in {"open", "stopped", "gone"}

(* Once the destructor has returned no thread is in a task: a task refers  *)
(* to the server that owns the queue (~TaskQueue joins after the stop).    *)
NoTaskOutlivesQueue ==
    phase = "gone" => Started = {} /\ ended = Threads

(* A queued task is done in the end, unless the queue is destroyed first.  *)
EveryTaskRuns == \A k \in Tasks : k \in Queued ~> k \in done \/ phase # "open"
=============================================================================
