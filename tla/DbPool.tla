------------------------------- MODULE DbPool -------------------------------
(***************************************************************************)
(* The pool of postgres connections (db_pool): a queue of free connections *)
(* behind a mutex and a condition variable, used by any number of threads  *)
(* through db_connection, which takes a connection when it is constructed  *)
(* and gives it back when it is destroyed, whatever the statements between *)
(* did.                                                                    *)
(*                                                                         *)
(* A thread takes one connection at a time: no function of the library     *)
(* constructs a db_connection while it has one.  prepare() has filled the  *)
(* queue before the threads start.                                         *)
(***************************************************************************)
EXTENDS Integers, Sequences, FiniteSets

CONSTANTS
    Threads,
    PoolSize,   \* "storage:pool", the argument of prepare
    None,       \* no connection, no thread
    MaxUses     \* bound: connections taken by each thread

Conns == 1..PoolSize    \* the connections, as prepare makes them

ASSUME DbPoolAssumption ==
    /\ PoolSize \in Nat /\ MaxUses \in Nat
    /\ None \notin Conns /\ None \notin Threads /\ IsFiniteSet(Threads)

VARIABLES
    free,       \* m_free_pool_
    mutex,      \* the thread inside m_mutex_, or None
    waiting,    \* threads blocked in m_condition_.wait
    pc,         \* where each thread is
    held,       \* m_pdb_connection_pool_ of each thread
    uses        \* history: statements each thread has begun

vars == <<free, mutex, waiting, pc, held, uses>>

Idle(t) == pc[t] = "idle"

Goto(t, l) == pc' = [pc EXCEPT ![t] = l]

Lock(t) == mutex = None /\ mutex' = t

(* get_connection_pool: the lock is taken *)
Get(t) ==
    /\ Idle(t) /\ uses[t] < MaxUses
    /\ Lock(t)
    /\ uses' = [uses EXCEPT ![t] = @ + 1]
    /\ Goto(t, "check")
    /\ UNCHANGED <<free, waiting, held>>

(* while (m_free_pool_.empty()) wait: the lock is released in the same step *)
Wait(t) ==
    /\ pc[t] = "check" /\ free = <<>>
    /\ waiting' = waiting \cup {t}
    /\ mutex' = None
    /\ Goto(t, "waiting")
    /\ UNCHANGED <<free, held, uses>>

(* mutant: front() without pop() *)
TakeWithoutPop(t) ==
    /\ pc[t] = "check" /\ free # <<>>
    /\ held' = [held EXCEPT ![t] = Head(free)]
    /\ mutex' = None
    /\ Goto(t, "using")
    /\ UNCHANGED <<free, waiting, uses>>

(* the first free connection, then the lock goes with locker *)
Take(t) ==
    /\ pc[t] = "check" /\ free # <<>>
    /\ held' = [held EXCEPT ![t] = Head(free)]
    /\ free' = Tail(free)
    /\ mutex' = None
    /\ Goto(t, "using")
    /\ UNCHANGED <<waiting, uses>>

(* a thread that was woken takes the lock again and looks once more *)
Relock(t) ==
    /\ pc[t] = "woken"
    /\ Lock(t)
    /\ Goto(t, "check")
    /\ UNCHANGED <<free, waiting, held, uses>>

(* a condition variable may wake a thread that nobody notified *)
SpuriousWakeup(t) ==
    /\ t \in waiting
    /\ waiting' = waiting \ {t}
    /\ Goto(t, "woken")
    /\ UNCHANGED <<free, mutex, held, uses>>

(* release_connection_pool: the lock is taken *)
BeginRelease(t) ==
    /\ pc[t] = "using"
    /\ Lock(t)
    /\ Goto(t, "push")
    /\ UNCHANGED <<free, waiting, held, uses>>

(* the connection goes to the end of the queue and the lock is released *)
Push(t) ==
    /\ pc[t] = "push"
    /\ free' = Append(free, held[t])
    /\ held' = [held EXCEPT ![t] = None]
    /\ mutex' = None
    /\ Goto(t, "notify")
    /\ UNCHANGED <<waiting, uses>>

(* mutant: notified only when the queue was empty *)
NotifyFirstOnly(t) ==
    /\ pc[t] = "notify"
    /\ \/ /\ waiting = {} \/ Len(free) # 1
          /\ Goto(t, "idle")
          /\ UNCHANGED waiting
       \/ \E w \in waiting :
            /\ Len(free) = 1
            /\ waiting' = waiting \ {w}
            /\ pc' = [pc EXCEPT ![t] = "idle", ![w] = "woken"]
    /\ UNCHANGED <<free, mutex, held, uses>>

(* notify_one, outside the lock.  (The size logged after it is read        *)
(* without the lock; nothing depends on it.)                               *)
Notify(t) ==
    /\ pc[t] = "notify"
    /\ \/ /\ waiting = {}
          /\ Goto(t, "idle")
          /\ UNCHANGED waiting
       \/ \E w \in waiting :
            /\ waiting' = waiting \ {w}
            /\ pc' = [pc EXCEPT ![t] = "idle", ![w] = "woken"]
    /\ UNCHANGED <<free, mutex, held, uses>>

-----------------------------------------------------------------------------

(* prepare(count) has put the connections it made in the queue *)
Init ==
    /\ free = [i \in 1..PoolSize |-> i]
    /\ mutex = None /\ waiting = {}
    /\ pc = [t \in Threads |-> "idle"]
    /\ held = [t \in Threads |-> None]
    /\ uses = [t \in Threads |-> 0]

(* the steps a thread takes by itself once it has asked for a connection *)
Proceed(t) ==
    Wait(t) \/ Take(t) \/ Relock(t) \/ BeginRelease(t) \/ Push(t) \/ Notify(t)

Next == \E t \in Threads : Get(t) \/ Proceed(t) \/ SpuriousWakeup(t)

Spec == Init /\ [][Next]_vars

(* Threads are scheduled, and a thread that asks for the mutex again and   *)
(* again gets it in the end.  Nothing wakes a waiting thread but a notify. *)
FairSpec ==
    /\ Spec
    /\ \A t \in Threads :
         /\ WF_vars(Wait(t)) /\ WF_vars(Take(t)) /\ WF_vars(Push(t)) /\ WF_vars(Notify(t))
         /\ SF_vars(Relock(t)) /\ SF_vars(BeginRelease(t))

-----------------------------------------------------------------------------

TypeOK ==
    /\ free \in Seq(Conns)
    /\ mutex \in Threads \cup {None}
    /\ waiting \in SUBSET Threads
    /\ pc \in [Threads -> {"idle", "check", "waiting", "woken", "using", "push", "notify"}]
    /\ held \in [Threads -> Conns \cup {None}]
    /\ uses \in [Threads -> Nat]

(* A connection is in the queue once or with one thread, and none is lost: *)
(* a transaction never shares its connection, and the pool keeps its size. *)
PoolConserved ==
    /\ \A i, j \in DOMAIN free : free[i] = free[j] => i = j
    /\ \A t, u \in Threads : held[t] = held[u] /\ held[t] # None => t = u
    /\ \A c \in Conns :
         (\E i \in DOMAIN free : free[i] = c) # (\E t \in Threads : held[t] = c)

(* While a thread waits, every free connection has a thread on its way to  *)
(* it: notify_one comes after the unlock, and another thread may be in     *)
(* between, but no wakeup is lost.                                         *)
NoLostWakeup ==
    waiting # {} =>
        Len(free) <= Cardinality({t \in Threads : pc[t] \in {"notify", "woken", "check"}})

(* A thread that waits for a connection gets one, when every thread gives  *)
(* back what it took and the threads ask a bounded number of times.        *)
WaiterServed == \A t \in Threads : pc[t] = "waiting" ~> pc[t] = "using"

(* The pool implements exclusive leases of connections. *)
Lease == INSTANCE ConnectionLease
LeaseSpec == Lease!Spec
=============================================================================
