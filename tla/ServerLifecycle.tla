--------------------------- MODULE ServerLifecycle ---------------------------
(***************************************************************************)
(* How a server2_hb process starts and stops: the main thread, the timer   *)
(* thread, the listen thread with its libevent base, and the signals.      *)
(*                                                                         *)
(* Two things stop the process, and both are needed: m_shutdown_timer_     *)
(* ends the timer thread, which main joins first, and a loop exit ends the *)
(* listen thread.  UNIXSignal asks for both; the handler that libevent     *)
(* runs for SIGINT, and the accept error callback, only for the second.    *)
(*                                                                         *)
(* The kernel runs a UNIXSignal handler on the main thread, which goes no  *)
(* further until it returns.  What libevent does with a null or a freed    *)
(* base is undefined: the call does nothing, or the process dies.  The     *)
(* application has set g_pS2HB before main: no file of the library does.   *)
(***************************************************************************)
EXTENDS Integers

CONSTANT MaxSignals     \* bound: signals sent to the process

ASSUME LifecycleAssumption == MaxSignals \in Nat

VARIABLES
    alive,              \* FALSE: the process was killed by an error
    main,               \* where the main thread is
    timer,              \* where the timer thread is
    listen,             \* where the listen thread is
    m_shutdown_timer_,  \* ends the timer thread's loop
    base,               \* m_base_listen_: "null", "live" or "freed"
    exitAsked,          \* the base was told to leave its loop
    intHandler,         \* who handles SIGINT: "unix" or "libevent"
    caught,             \* a SIGINT that libevent has recorded
    handler,            \* UNIXSignal, run by the main thread
    signals,            \* signals sent
    told                \* history: UNIXSignal ran when there was a base

threadVars == <<main, timer, listen>>
eventVars == <<base, exitAsked, intHandler, caught>>
signalVars == <<handler, signals, told>>
vars == <<alive, threadVars, m_shutdown_timer_, eventVars, signalVars>>

Die == alive' = FALSE

MainIn(l) == alive /\ handler = "idle" /\ main = l
TimerIn(l) == alive /\ timer = l
ListenIn(l) == alive /\ listen = l

(* event_base_loopexit: the loop leaves after the events at hand *)
LoopExit == exitAsked' = TRUE

-----------------------------------------------------------------------------
(* The main thread: FRAMEWORK_HTTP_APP_SERVER *)

(* prepare_to_start, auto_execute, and the thread that startup makes first *)
StartTimer ==
    /\ MainIn("prepare")
    /\ main' = "start" /\ timer' = "loop"
    /\ UNCHANGED <<alive, listen, m_shutdown_timer_, eventVars, signalVars>>

(* start_listen: the thread is made; what becomes of it is not looked at *)
StartListen ==
    /\ MainIn("start")
    /\ main' = "joinTimer" /\ listen' = "init"
    /\ UNCHANGED <<alive, timer, m_shutdown_timer_, eventVars, signalVars>>

(* mutant: run() waits for the listener alone *)
JoinNoTimer ==
    /\ MainIn("joinTimer")
    /\ main' = "joinListen"
    /\ UNCHANGED <<alive, timer, listen, m_shutdown_timer_, eventVars, signalVars>>

JoinTimer ==
    /\ MainIn("joinTimer") /\ timer = "done"
    /\ main' = "joinListen"
    /\ UNCHANGED <<alive, timer, listen, m_shutdown_timer_, eventVars, signalVars>>

(* mutant: run() does not wait for the listener *)
JoinNothing ==
    /\ MainIn("joinListen")
    /\ main' = "finish"
    /\ UNCHANGED <<alive, timer, listen, m_shutdown_timer_, eventVars, signalVars>>

JoinListen ==
    /\ MainIn("joinListen") /\ listen = "done"
    /\ main' = "finish"
    /\ UNCHANGED <<alive, timer, listen, m_shutdown_timer_, eventVars, signalVars>>

(* finish: the loggers are dropped *)
Finish ==
    /\ MainIn("finish")
    /\ main' = "return"
    /\ UNCHANGED <<alive, timer, listen, m_shutdown_timer_, eventVars, signalVars>>

Return ==
    /\ MainIn("return")
    /\ main' = "done"
    /\ UNCHANGED <<alive, timer, listen, m_shutdown_timer_, eventVars, signalVars>>

-----------------------------------------------------------------------------
(* The timer thread: stub_timer_run *)

TimerLoop ==
    /\ TimerIn("loop") /\ m_shutdown_timer_
    /\ timer' = "final"
    /\ UNCHANGED <<alive, main, listen, m_shutdown_timer_, eventVars, signalVars>>

(* the last timer_session_update *)
TimerFinal ==
    /\ TimerIn("final")
    /\ timer' = "done"
    /\ UNCHANGED <<alive, main, listen, m_shutdown_timer_, eventVars, signalVars>>

-----------------------------------------------------------------------------
(* The listen thread: stub_listen_run *)

MakeBase ==
    /\ ListenIn("init")
    /\ \/ base' = "live" /\ listen' = "bind"
       \/ listen' = "done" /\ UNCHANGED base
    /\ UNCHANGED <<alive, main, timer, m_shutdown_timer_,
                   exitAsked, intHandler, caught, signalVars>>

(* evconnlistener_new_bind, which fails when the port is taken: the base stays *)
Bind ==
    /\ ListenIn("bind")
    /\ listen' \in {"signal", "done"}
    /\ UNCHANGED <<alive, main, timer, m_shutdown_timer_, eventVars, signalVars>>

(* evsignal_new and event_add: SIGINT goes to libevent from here on *)
AddSignal ==
    /\ ListenIn("signal")
    /\ \/ listen' = "dispatch" /\ intHandler' = "libevent"
       \/ listen' = "done" /\ UNCHANGED intHandler
    /\ UNCHANGED <<alive, main, timer, m_shutdown_timer_,
                   base, exitAsked, caught, signalVars>>

(* stubSignal, from the loop *)
StubSignal ==
    /\ ListenIn("dispatch") /\ caught
    /\ caught' = FALSE
    /\ LoopExit
    /\ UNCHANGED <<alive, threadVars, m_shutdown_timer_, base, intHandler, signalVars>>

(* stub_accept_error, from the loop *)
AcceptError ==
    /\ ListenIn("dispatch")
    /\ LoopExit
    /\ UNCHANGED <<alive, threadVars, m_shutdown_timer_, base, intHandler, caught, signalVars>>

LeaveLoop ==
    /\ ListenIn("dispatch") /\ exitAsked
    /\ listen' = "free"
    /\ UNCHANGED <<alive, main, timer, m_shutdown_timer_, eventVars, signalVars>>

(* event_free gives SIGINT back to UNIXSignal; one that was not dispatched is lost *)
FreeSignal ==
    /\ ListenIn("free") /\ intHandler = "libevent"
    /\ intHandler' = "unix" /\ caught' = FALSE
    /\ UNCHANGED <<alive, threadVars, m_shutdown_timer_, base, exitAsked, signalVars>>

(* mutant: the base is freed before the signal event *)
FreeBaseFirst ==
    /\ ListenIn("free")
    /\ base' = "freed" /\ listen' = "done"
    /\ UNCHANGED <<alive, main, timer, m_shutdown_timer_,
                   exitAsked, intHandler, caught, signalVars>>

(* event_base_free; m_base_listen_ keeps the pointer *)
FreeBase ==
    /\ ListenIn("free") /\ intHandler = "unix"
    /\ base' = "freed" /\ listen' = "done"
    /\ UNCHANGED <<alive, main, timer, m_shutdown_timer_,
                   exitAsked, intHandler, caught, signalVars>>

-----------------------------------------------------------------------------
(* Signals *)

Signalled ==
    /\ alive /\ main # "done" /\ signals < MaxSignals
    /\ signals' = signals + 1

(* UNIXSignal begins.  After finish there is no logger, and it dies. *)
EnterHandler ==
    /\ Signalled /\ handler = "idle"
    /\ \/ main # "return" /\ handler' = "entered" /\ UNCHANGED alive
       \/ main = "return" /\ Die /\ UNCHANGED handler
    /\ UNCHANGED <<threadVars, m_shutdown_timer_, eventVars, told>>

SigTerm == EnterHandler

SigInt ==
    \/ intHandler = "unix" /\ EnterHandler
    \/ /\ intHandler = "libevent" /\ Signalled
       /\ caught' = TRUE
       /\ UNCHANGED <<alive, threadVars, m_shutdown_timer_,
                      base, exitAsked, intHandler, handler, told>>

(* server2_hb::shutdown: first the flag *)
SetFlag ==
    /\ alive /\ handler = "entered"
    /\ m_shutdown_timer_' = TRUE
    /\ told' = (told \/ base # "null")
    /\ handler' = "flagged"
    /\ UNCHANGED <<alive, threadVars, eventVars, signals>>

(* mutant: the loop is broken only if the listener was bound already *)
ShutdownListenerWhenBound ==
    /\ alive /\ handler = "flagged"
    /\ handler' = "idle"
    /\ IF listen = "dispatch" THEN LoopExit ELSE UNCHANGED exitAsked
    /\ UNCHANGED <<alive, threadVars, m_shutdown_timer_,
                   base, intHandler, caught, signals, told>>

(* connection_controller::shutdown: then the listener *)
ShutdownListener ==
    /\ alive /\ handler = "flagged"
    /\ handler' = "idle"
    /\ \/ base = "live" /\ LoopExit /\ UNCHANGED alive
       \/ base # "live" /\ UNCHANGED exitAsked /\ alive' \in BOOLEAN
    /\ UNCHANGED <<threadVars, m_shutdown_timer_,
                   base, intHandler, caught, signals, told>>

-----------------------------------------------------------------------------

Init ==
    /\ alive = TRUE
    /\ main = "prepare" /\ timer = "none" /\ listen = "none"
    /\ m_shutdown_timer_ = FALSE
    /\ base = "null" /\ exitAsked = FALSE /\ intHandler = "unix" /\ caught = FALSE
    /\ handler = "idle" /\ signals = 0 /\ told = FALSE

MainStep == StartTimer \/ StartListen \/ JoinTimer \/ JoinListen \/ Finish \/ Return
TimerStep == TimerLoop \/ TimerFinal
ListenStep ==
    \/ MakeBase \/ Bind \/ AddSignal \/ StubSignal
    \/ LeaveLoop \/ FreeSignal \/ FreeBase
HandlerStep == SetFlag \/ ShutdownListener

Next == MainStep \/ TimerStep \/ ListenStep \/ HandlerStep \/ AcceptError \/ SigTerm \/ SigInt

Spec == Init /\ [][Next]_vars

(* Every thread is scheduled, and so is a handler that has begun.  Nothing *)
(* obliges a signal or an accept error to come.                            *)
FairSpec ==
    /\ Spec
    /\ WF_vars(MainStep) /\ WF_vars(TimerStep) /\ WF_vars(HandlerStep)
    /\ WF_vars(MakeBase \/ Bind \/ AddSignal \/ FreeSignal \/ FreeBase)
    /\ WF_vars(StubSignal) /\ WF_vars(LeaveLoop)

-----------------------------------------------------------------------------

(* Types; and a thread is there, for run() to join, once main has made it. *)
TypeOK ==
    /\ alive \in BOOLEAN /\ m_shutdown_timer_ \in BOOLEAN
    /\ exitAsked \in BOOLEAN /\ caught \in BOOLEAN /\ told \in BOOLEAN
    /\ main \in {"prepare", "start", "joinTimer", "joinListen", "finish", "return", "done"}
    /\ timer \in {"none", "loop", "final", "done"}
    /\ listen \in {"none", "init", "bind", "signal", "dispatch", "free", "done"}
    /\ base \in {"null", "live", "freed"}
    /\ intHandler \in {"unix", "libevent"}
    /\ handler \in {"idle", "entered", "flagged"}
    /\ signals \in Nat
    /\ timer = "none" <=> main = "prepare"
    /\ listen = "none" <=> main \in {"prepare", "start"}

(* The loggers are dropped when no thread is left that writes to them, and *)
(* the process does not return from main before its threads, however far   *)
(* the listener came and whatever stopped it.                              *)
LoggerOutlivesThreads ==
    main \in {"return", "done"} => timer = "done" /\ listen = "done"

(* Main gets past run() only because UNIXSignal set the flag: a listener   *)
(* that fails to start, or is stopped by an accept error, does not end it. *)
EndsOnlyWhenTold ==
    main \in {"joinListen", "finish", "return", "done"} => m_shutdown_timer_

(* A base that has been freed is never in a loop, and SIGINT is not left   *)
(* with an event that was freed.                                           *)
NoLoopOnFreedBase ==
    base # "live" => listen \in {"none", "init", "done"} /\ intHandler = "unix" /\ ~caught

Ended == main = "done" \/ ~alive

(* Once UNIXSignal has run while there was an event base, before, during   *)
(* or after its loop, the process ends.                                    *)
TermStops == told ~> Ended

(* "Caught an interrupt signal; exiting cleanly in two seconds."           *)
InterruptStops == caught ~> Ended
=============================================================================
