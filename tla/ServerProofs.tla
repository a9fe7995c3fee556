---------------------------- MODULE ServerProofs ----------------------------
(***************************************************************************)
(* Theorems about a server: how it starts and stops (ServerLifecycle), for *)
(* any number of signals, and the queue of tasks it owns (TaskQueue), for  *)
(* any threads and any tasks.                                              *)
(***************************************************************************)
EXTENDS ServerLifecycle, TaskQueue, TLAPS

-----------------------------------------------------------------------------
(* The threads of the process *)

(* Main has joined what is before the place where it is.                   *)
JoinedInv ==
    /\ main \in {"joinListen", "finish", "return", "done"} => timer = "done"
    /\ main \in {"finish", "return", "done"} => listen = "done"

(* Only the flag ends the loop of the timer thread.                        *)
FlagInv == timer \in {"final", "done"} => m_shutdown_timer_

(* The base and the signal event are there from the step of the listen     *)
(* thread that makes them to the one that frees them.                      *)
BaseInv ==
    /\ listen \in {"none", "init"} => base = "null"
    /\ listen \in {"bind", "signal", "dispatch", "free"} => base = "live"
    /\ intHandler = "libevent" => listen \in {"dispatch", "free"}
    /\ listen = "dispatch" => intHandler = "libevent"
    /\ caught => intHandler = "libevent"

IInv == TypeOK /\ JoinedInv /\ FlagInv /\ BaseInv

(* The variables that are flags, apart: the provers treat them apart.      *)
Flags ==
    /\ alive \in BOOLEAN /\ m_shutdown_timer_ \in BOOLEAN
    /\ exitAsked \in BOOLEAN /\ caught \in BOOLEAN /\ told \in BOOLEAN

LEMMA InitHolds == Init => IInv
<1> SUFFICES ASSUME Init PROVE IInv
  OBVIOUS
<1>1. Flags
  BY Zenon DEF Init, Flags
<1> QED
  BY <1>1 DEF Flags, Init, IInv, TypeOK, JoinedInv, FlagInv, BaseInv

(* Every flag stays one.                                                   *)
LEMMA FlagsStay == Flags /\ [Next]_vars => Flags'
<1> SUFFICES ASSUME Flags, [Next]_vars PROVE Flags'
  OBVIOUS
<1>1. alive' \in BOOLEAN
  <2>1. CASE EnterHandler
    BY <2>1, Zenon DEF Flags, EnterHandler, Die
  <2>2. CASE ShutdownListener
    BY <2>2, Zenon DEF Flags, ShutdownListener
  <2>3. CASE UNCHANGED alive
    BY <2>3 DEF Flags
  <2> QED
    BY <2>1, <2>2, <2>3
       DEF Next, MainStep, StartTimer, StartListen, JoinTimer, JoinListen, Finish, Return,
           TimerStep, TimerLoop, TimerFinal, ListenStep, MakeBase, Bind, AddSignal,
           StubSignal, LeaveLoop, FreeSignal, FreeBase, HandlerStep, SetFlag, AcceptError,
           SigTerm, SigInt, vars
<1>2. m_shutdown_timer_' \in BOOLEAN /\ told' \in BOOLEAN
  <2>1. CASE SetFlag
    BY <2>1, Zenon DEF Flags, SetFlag
  <2>2. CASE UNCHANGED <<m_shutdown_timer_, told>>
    BY <2>2 DEF Flags
  <2> QED
    BY <2>1, <2>2
       DEF Next, MainStep, StartTimer, StartListen, JoinTimer, JoinListen, Finish, Return,
           TimerStep, TimerLoop, TimerFinal, ListenStep, MakeBase, Bind, AddSignal,
           StubSignal, LeaveLoop, FreeSignal, FreeBase, HandlerStep, ShutdownListener,
           AcceptError, SigTerm, SigInt, EnterHandler, Signalled, signalVars, vars
<1>3. exitAsked' \in BOOLEAN
  <2>1. CASE exitAsked' = TRUE
    BY <2>1, Zenon
  <2>2. CASE UNCHANGED exitAsked
    BY <2>2 DEF Flags
  <2> QED
    BY <2>1, <2>2
       DEF Next, MainStep, StartTimer, StartListen, JoinTimer, JoinListen, Finish, Return,
           TimerStep, TimerLoop, TimerFinal, ListenStep, MakeBase, Bind, AddSignal,
           StubSignal, LeaveLoop, FreeSignal, FreeBase, HandlerStep, SetFlag,
           ShutdownListener, LoopExit, AcceptError, SigTerm, SigInt, EnterHandler,
           eventVars, vars
<1>4. caught' \in BOOLEAN
  <2>1. CASE caught' = TRUE \/ caught' = FALSE
    BY <2>1, Zenon
  <2>2. CASE UNCHANGED caught
    BY <2>2 DEF Flags
  <2> QED
    BY <2>1, <2>2
       DEF Next, MainStep, StartTimer, StartListen, JoinTimer, JoinListen, Finish, Return,
           TimerStep, TimerLoop, TimerFinal, ListenStep, MakeBase, Bind, AddSignal,
           StubSignal, LeaveLoop, FreeSignal, FreeBase, HandlerStep, SetFlag,
           ShutdownListener, AcceptError, SigTerm, SigInt, EnterHandler, eventVars, vars
<1> QED
  BY <1>1, <1>2, <1>3, <1>4 DEF Flags

(* Every step of every thread and every signal keeps IInv.                 *)
LEMMA StepKeeps == IInv /\ [Next]_vars => IInv'
<1> SUFFICES ASSUME IInv, [Next]_vars PROVE IInv'
  OBVIOUS
<1> USE DEF IInv, TypeOK, JoinedInv, FlagInv, BaseInv, threadVars, eventVars, signalVars
<1>0. Flags'
  BY FlagsStay DEF Flags
<1> USE <1>0 DEF Flags
<1>1. CASE MainStep
  <2>1. CASE StartTimer
    BY <2>1 DEF StartTimer, MainIn
  <2>2. CASE StartListen
    BY <2>2 DEF StartListen, MainIn
  <2>3. CASE JoinTimer
    BY <2>3 DEF JoinTimer, MainIn
  <2>4. CASE JoinListen
    BY <2>4 DEF JoinListen, MainIn
  <2>5. CASE Finish
    BY <2>5 DEF Finish, MainIn
  <2>6. CASE Return
    BY <2>6 DEF Return, MainIn
  <2> QED
    BY <1>1, <2>1, <2>2, <2>3, <2>4, <2>5, <2>6 DEF MainStep
<1>2. CASE TimerStep
  BY <1>2 DEF TimerStep, TimerLoop, TimerFinal, TimerIn
<1>3. CASE ListenStep
  <2>1. CASE MakeBase
    BY <2>1 DEF MakeBase, ListenIn
  <2>2. CASE Bind
    BY <2>2 DEF Bind, ListenIn
  <2>3. CASE AddSignal
    BY <2>3 DEF AddSignal, ListenIn
  <2>4. CASE StubSignal
    BY <2>4 DEF StubSignal, ListenIn, LoopExit
  <2>5. CASE LeaveLoop
    BY <2>5 DEF LeaveLoop, ListenIn
  <2>6. CASE FreeSignal
    BY <2>6 DEF FreeSignal, ListenIn
  <2>7. CASE FreeBase
    BY <2>7 DEF FreeBase, ListenIn
  <2> QED
    BY <1>3, <2>1, <2>2, <2>3, <2>4, <2>5, <2>6, <2>7 DEF ListenStep
<1>4. CASE HandlerStep
  BY <1>4 DEF HandlerStep, SetFlag, ShutdownListener, LoopExit
<1>5. CASE AcceptError
  BY <1>5 DEF AcceptError, ListenIn, LoopExit
<1>6. CASE SigTerm \/ SigInt
  BY <1>6 DEF SigTerm, SigInt, EnterHandler, Signalled, Die
<1>7. CASE UNCHANGED vars
  BY <1>7 DEF vars
<1> QED
  BY <1>1, <1>2, <1>3, <1>4, <1>5, <1>6, <1>7 DEF Next

THEOREM Inductive == Spec => []IInv
  BY InitHolds, StepKeeps, PTL DEF Spec

(* Types, and a thread is there whenever main joins it. *)
THEOREM TypeCorrect == Spec => []TypeOK
<1>1. IInv => TypeOK
  BY DEF IInv
<1> QED
  BY <1>1, Inductive, PTL

(* The loggers are dropped after both threads have ended (run, finish).    *)
THEOREM EndsInOrder == Spec => []LoggerOutlivesThreads
<1>1. IInv => LoggerOutlivesThreads
  BY DEF IInv, TypeOK, JoinedInv, LoggerOutlivesThreads
<1> QED
  BY <1>1, Inductive, PTL

(* The process ends by UNIXSignal only, whatever the listener does         *)
(* (stub_timer_run, stub_listen_run).                                      *)
THEOREM OnlyTheSignalEnds == Spec => []EndsOnlyWhenTold
<1>1. IInv => EndsOnlyWhenTold
  BY DEF IInv, JoinedInv, FlagInv, EndsOnlyWhenTold
<1> QED
  BY <1>1, Inductive, PTL

(* The loop never runs on a freed base, and the signal event goes before   *)
(* the base it belongs to.                                                 *)
THEOREM BaseOutlivesLoop == Spec => []NoLoopOnFreedBase
<1>1. IInv => NoLoopOnFreedBase
  BY DEF IInv, TypeOK, BaseInv, NoLoopOnFreedBase
<1> QED
  BY <1>1, Inductive, PTL

-----------------------------------------------------------------------------
(* The queue of tasks *)

(* A thread that left Run is in no task; only the destructor makes it      *)
(* leave, and the queue goes only when all have.                           *)
EndedInv ==
    /\ \A t \in ended : running[t] = None
    /\ phase = "gone" => ended = Threads

QueueInv == QueueTypes /\ EndedInv

LEMMA QueueInitHolds == QueueInit => QueueInv
<1> SUFFICES ASSUME QueueInit PROVE QueueInv
  OBVIOUS
<1> USE NoneAssumption DEF QueueInit
<1>1. QueueTypes
  BY DEF QueueTypes
<1>2. EndedInv
  BY DEF EndedInv
<1> QED
  BY <1>1, <1>2 DEF QueueInv

(* A thread that is in a task has not left Run, and none leaves it before  *)
(* the destructor stops the loop.                                          *)
LEMMA QueueNextHolds == QueueInv /\ [QueueNext]_queueVars => QueueInv'
<1> SUFFICES ASSUME QueueInv, [QueueNext]_queueVars PROVE QueueInv'
  OBVIOUS
<1> USE NoneAssumption DEF QueueInv
<1>1. CASE \E k \in Tasks : QueueTask(k)
  BY <1>1 DEF QueueTask, QueueTypes, EndedInv
<1>2. CASE \E t \in Threads : Start(t)
  <2>1. PICK t \in Threads : Start(t)
    BY <1>2
  <2>2. Head(queue) \in Tasks /\ Tail(queue) \in Seq(Tasks)
    BY <2>1 DEF Start, QueueTypes
  <2> QED
    BY <2>1, <2>2 DEF Start, QueueTypes, EndedInv
<1>3. CASE \E t \in Threads : Complete(t)
  BY <1>3 DEF Complete, QueueTypes, EndedInv
<1>4. CASE \E t \in Threads : LeaveRun(t)
  BY <1>4 DEF LeaveRun, QueueTypes, EndedInv
<1>5. CASE Stop
  BY <1>5 DEF Stop, QueueTypes, EndedInv
<1>6. CASE Destroy
  BY <1>6 DEF Destroy, QueueTypes, EndedInv
<1>7. CASE UNCHANGED queueVars
  BY <1>7 DEF queueVars, QueueTypes, EndedInv
<1> QED
  BY <1>1, <1>2, <1>3, <1>4, <1>5, <1>6, <1>7 DEF QueueNext

(* Types, and threads that end in no task: the invariant of Run and the    *)
(* destructor.                                                             *)
THEOREM QueueInductive == QueueSpec => []QueueInv
<1> QED
  BY QueueInitHolds, QueueNextHolds, PTL DEF QueueSpec

(* Every variable keeps its type. *)
THEOREM QueueTypeCorrect == QueueSpec => []QueueTypes
<1>1. QueueInv => QueueTypes
  BY DEF QueueInv
<1> QED
  BY <1>1, QueueInductive, PTL

(* When ~TaskQueue returns, no thread is in a task any more.               *)
THEOREM QueueOutlivesTasks == QueueSpec => []NoTaskOutlivesQueue
<1>1. QueueInv => NoTaskOutlivesQueue
  BY DEF QueueInv, EndedInv, NoTaskOutlivesQueue, Started
<1> QED
  BY <1>1, QueueInductive, PTL
=============================================================================
