--------------------------- MODULE ConnectionLease ---------------------------
(***************************************************************************)
(* What the database pool promises its users, without its queue and its    *)
(* locking: a connection is used by one thread at a time.                  *)
(***************************************************************************)
CONSTANTS Threads, Conns, None

VARIABLE held       \* the connection each thread uses, or None

Init == held = [t \in Threads |-> None]

Acquire(t) ==
    /\ held[t] = None
    /\ \E c \in Conns :
         /\ \A u \in Threads : held[u] # c
         /\ held' = [held EXCEPT ![t] = c]

Release(t) ==
    /\ held[t] # None
    /\ held' = [held EXCEPT ![t] = None]

Next == \E t \in Threads : Acquire(t) \/ Release(t)

Spec == Init /\ [][Next]_held
=============================================================================
