------------------------------ MODULE PgTokens ------------------------------
(***************************************************************************)
(* The tokens khl_postgres keeps in the table admin.khl_tokens, and their  *)
(* life in transactions of several threads.  Each call takes a connection  *)
(* of the pool (db_connection), runs its statements in one transaction of  *)
(* read committed isolation, and gives the connection back, also when a    *)
(* statement throws.                                                       *)
(*                                                                         *)
(* A token is a pair of ids, made by the database, and never repeats; the  *)
(* row of a pair carries both expiries.  A thread works on its own token   *)
(* object; which threads work on tokens at the same time is up to the      *)
(* application.  The payload is left out, and so is which of its two ids   *)
(* a row is found by.                                                      *)
(***************************************************************************)
EXTENDS Integers, FiniteSets

CONSTANTS
    Threads,
    Conns,          \* the connections of the pool
    None,
    MaxPair,        \* bound: pairs of ids
    MaxTime,        \* bound: the clock
    Leases          \* access and refresh timeouts, with append_time

Pairs == 1..MaxPair
Tokens == [pair : Nat, access : Nat, refresh : Nat]

ASSUME PgTokensAssumption ==
    /\ MaxPair \in Nat /\ MaxTime \in Nat
    /\ Leases \subseteq Nat /\ \A l \in Leases : l > 0
    /\ None \notin Conns /\ Conns # {}
    /\ None \notin Threads /\ IsFiniteSet(Threads)
    /\ None \notin Tokens /\ None \notin [access : Nat, refresh : Nat]

VARIABLES
    now,        \* the clock of the database
    table,      \* admin.khl_tokens as committed: pair -> expiries, or None
    lock,       \* pair -> the transaction that has changed its row, or None
    last,       \* pairs made so far
    held,       \* the connection of each thread, or None
    pc,         \* where each call is
    op,         \* the function called
    arg,        \* the pair it was called with
    start,      \* NOW() of the transaction
    new,        \* the row the transaction has inserted, or None
    token,      \* the token object of each thread, or None
    torn,       \* history: a refresh of the thread's token has thrown
    replaced    \* history: the pairs some committed transaction replaced

dbVars == <<table, lock, replaced>>
callVars == <<op, arg>>
vars == <<now, dbVars, last, held, pc, callVars, start, new, token, torn>>

Lease == INSTANCE ConnectionLease

Goto(t, l) == pc' = [pc EXCEPT ![t] = l]

Row(k) == [access |-> k.access, refresh |-> k.refresh]

Token(p, a, r) == [pair |-> p, access |-> a, refresh |-> r]

(* Calls that may still make a pair *)
Makers == {t \in Threads : pc[t] \in {"connect", "exec"} /\ op[t] # "load"}

-----------------------------------------------------------------------------

Call(t, f, p) ==
    /\ pc[t] = "idle"
    /\ op' = [op EXCEPT ![t] = f] /\ arg' = [arg EXCEPT ![t] = p]
    /\ Goto(t, "connect")
    /\ UNCHANGED <<now, dbVars, last, held, start, new, token, torn>>

CallCreate(t) == last + Cardinality(Makers) < MaxPair /\ Call(t, "create", 0)

CallRefresh(t) ==
    /\ last + Cardinality(Makers) < MaxPair /\ token[t] # None
    /\ Call(t, "refresh", token[t].pair)

(* with an id that was made once, whatever became of its row *)
CallLoad(t) == \E p \in 1..last : Call(t, "load", p)

(* db_connection conn(m_db_) *)
Connect(t) ==
    /\ pc[t] = "connect"
    /\ Lease!Acquire(t)
    /\ Goto(t, "exec")
    /\ UNCHANGED <<now, dbVars, last, callVars, start, new, token, torn>>

(* INSERT of a row with new ids *)
Insert(t) ==
    /\ last' = last + 1
    /\ start' = [start EXCEPT ![t] = now]
    /\ \E a, r \in Leases : new' = [new EXCEPT ![t] = Token(last', now + a, now + r)]

ExecCreate(t) ==
    /\ pc[t] = "exec" /\ op[t] = "create"
    /\ Insert(t)
    /\ Goto(t, "commit")
    /\ UNCHANGED <<now, dbVars, held, callVars, token, torn>>

(* INSERT ... SELECT finds the row of the old pair, expired or not, and the *)
(* token object gets the new ids and expiries before anything is committed  *)
ExecRefresh(t) ==
    /\ pc[t] = "exec" /\ op[t] = "refresh" /\ table[arg[t]] # None
    /\ Insert(t)
    /\ token' = [token EXCEPT ![t] = new'[t]]
    /\ Goto(t, "update")
    /\ UNCHANGED <<now, dbVars, held, callVars, torn>>

(* It finds none: the result is empty, and true is returned all the same *)
ExecRefreshNothing(t) ==
    /\ pc[t] = "exec" /\ op[t] = "refresh" /\ table[arg[t]] = None
    /\ Goto(t, "commit")
    /\ UNCHANGED <<now, dbVars, last, held, callVars, start, new, token, torn>>

(* SELECT of the row: a new token object, or nullptr *)
ExecLoad(t) ==
    /\ pc[t] = "exec" /\ op[t] = "load"
    /\ token' = [token EXCEPT ![t] =
                    LET row == table[arg[t]] IN
                    IF row = None THEN None ELSE Token(arg[t], row.access, row.refresh)]
    /\ torn' = torn \ {t}
    /\ Goto(t, "done")
    /\ UNCHANGED <<now, dbVars, last, held, callVars, start, new>>

(* UPDATE of the old row waits for a transaction that has changed it.  The *)
(* condition still holds when that one has committed: ids do not change.   *)
UpdateOld(t) ==
    /\ pc[t] = "update" /\ lock[arg[t]] = None
    /\ lock' = [lock EXCEPT ![arg[t]] = t]
    /\ Goto(t, "commit")
    /\ UNCHANGED <<now, table, replaced, last, held, callVars, start, new, token, torn>>

Replaces(t) == op[t] = "refresh" /\ new[t] # None

Unlock(t) == lock' = [p \in Pairs |-> IF lock[p] = t THEN None ELSE lock[p]]

(* mutant: the access token of the old pair is left as it is *)
EffectRefreshOnly(t) ==
    /\ table' = [p \in Pairs |->
                   IF new[t] # None /\ p = new[t].pair THEN Row(new[t])
                   ELSE IF Replaces(t) /\ p = arg[t]
                   THEN [access |-> table[p].access, refresh |-> start[t]]
                   ELSE table[p]]
    /\ replaced' = IF Replaces(t) THEN replaced \cup {arg[t]} ELSE replaced

(* What the transaction has done becomes visible: the new row, and that    *)
(* the old one expired at its start.                                       *)
Effect(t) ==
    /\ table' = [p \in Pairs |->
                   IF new[t] # None /\ p = new[t].pair THEN Row(new[t])
                   ELSE IF Replaces(t) /\ p = arg[t]
                   THEN [access |-> start[t], refresh |-> start[t]]
                   ELSE table[p]]
    /\ replaced' = IF Replaces(t) THEN replaced \cup {arg[t]} ELSE replaced

(* mutant: the transaction ends without commit *)
CommitForgotten(t) ==
    /\ pc[t] = "commit"
    /\ UNCHANGED <<table, replaced>> /\ Unlock(t)
    /\ new' = [new EXCEPT ![t] = None]
    /\ token' = IF op[t] = "create" THEN [token EXCEPT ![t] = new[t]] ELSE token
    /\ torn' = IF op[t] = "create" THEN torn \ {t} ELSE torn
    /\ Goto(t, "done")
    /\ UNCHANGED <<now, last, held, callVars, start>>

(* txn.commit(); create_token then makes the token object *)
Commit(t) ==
    /\ pc[t] = "commit"
    /\ Effect(t) /\ Unlock(t)
    /\ new' = [new EXCEPT ![t] = None]
    /\ token' = IF op[t] = "create" THEN [token EXCEPT ![t] = new[t]] ELSE token
    /\ torn' = IF op[t] = "create" THEN torn \ {t} ELSE torn
    /\ Goto(t, "done")
    /\ UNCHANGED <<now, last, held, callVars, start>>

(* A statement throws, and the transaction is undone; when it was the      *)
(* commit, the database may have done it before the connection broke.  A   *)
(* token that has its new ids keeps them.                                  *)
Throw(t) ==
    /\ pc[t] \in {"exec", "update", "commit"}
    /\ \/ UNCHANGED <<table, replaced>>
       \/ pc[t] = "commit" /\ Effect(t)
    /\ Unlock(t)
    /\ new' = [new EXCEPT ![t] = None]
    /\ torn' = IF Replaces(t) THEN torn \cup {t} ELSE torn
    /\ Goto(t, "done")
    /\ UNCHANGED <<now, last, held, callVars, start, token>>

(* The function returns, with its locals *)
Leave(t) ==
    /\ Goto(t, "idle")
    /\ op' = [op EXCEPT ![t] = "load"] /\ arg' = [arg EXCEPT ![t] = 0]
    /\ start' = [start EXCEPT ![t] = 0]

(* mutant: a load that finds nothing returns without the connection *)
ReleaseIfFound(t) ==
    /\ pc[t] = "done"
    /\ IF op[t] = "load" /\ token[t] = None
       THEN UNCHANGED held ELSE held' = [held EXCEPT ![t] = None]
    /\ Leave(t)
    /\ UNCHANGED <<now, dbVars, last, new, token, torn>>

(* ~db_connection, and the call is over *)
Release(t) ==
    /\ pc[t] = "done"
    /\ Lease!Release(t)
    /\ Leave(t)
    /\ UNCHANGED <<now, dbVars, last, new, token, torn>>

Tick ==
    /\ now < MaxTime
    /\ now' = now + 1
    /\ UNCHANGED <<dbVars, last, held, pc, callVars, start, new, token, torn>>

-----------------------------------------------------------------------------

Init ==
    /\ now = 0 /\ last = 0
    /\ table = [p \in Pairs |-> None] /\ lock = [p \in Pairs |-> None]
    /\ held = [t \in Threads |-> None] /\ pc = [t \in Threads |-> "idle"]
    /\ op = [t \in Threads |-> "load"] /\ arg = [t \in Threads |-> 0]
    /\ start = [t \in Threads |-> 0] /\ new = [t \in Threads |-> None]
    /\ token = [t \in Threads |-> None]
    /\ torn = {} /\ replaced = {}

Exec(t) == ExecCreate(t) \/ ExecRefresh(t) \/ ExecRefreshNothing(t) \/ ExecLoad(t)

(* what brings a call to its end *)
Proceed(t) ==
    Connect(t) \/ Exec(t) \/ UpdateOld(t) \/ Commit(t) \/ Release(t)

Next ==
    \/ \E t \in Threads :
         CallCreate(t) \/ CallRefresh(t) \/ CallLoad(t) \/ Proceed(t) \/ Throw(t)
    \/ Tick

Spec == Init /\ [][Next]_vars

-----------------------------------------------------------------------------

Rows == [access : Nat, refresh : Nat]

TypeOK ==
    /\ now \in 0..MaxTime /\ last \in 0..MaxPair
    /\ table \in [Pairs -> Rows \cup {None}]
    /\ lock \in [Pairs -> Threads \cup {None}]
    /\ held \in [Threads -> Conns \cup {None}]
    /\ pc \in [Threads -> {"idle", "connect", "exec", "update", "commit", "done"}]
    /\ op \in [Threads -> {"create", "refresh", "load"}]
    /\ arg \in [Threads -> 0..last]
    /\ start \in [Threads -> 0..now]
    /\ new \in [Threads -> Tokens \cup {None}]
    /\ token \in [Threads -> Tokens \cup {None}]
    /\ torn \in SUBSET Threads /\ replaced \in SUBSET Pairs

(* A pair that was replaced has expired, in the table and for good: its    *)
(* successor and its expiry become visible together, and two threads that  *)
(* replace it at the same time do not undo each other's work, though each  *)
(* writes the time its own transaction began (refresh_token).              *)
ReplacedExpired ==
    \A p \in replaced :
        table[p] # None /\ table[p].access <= now /\ table[p].refresh <= now

(* When a call has returned, the token of the thread is in the table as    *)
(* the thread has it, unless another thread replaced it since or a refresh *)
(* of it has thrown: the object is changed before the commit, and true     *)
(* without a row never hides that there was none (refresh_token,           *)
(* create_token, load_token).                                              *)
HeldAsStored ==
    \A t \in Threads \ torn :
        pc[t] \in {"idle", "done"} /\ token[t] # None =>
            LET p == token[t].pair IN
            /\ p \in Pairs /\ table[p] # None
            /\ p \in replaced \/ table[p] = Row(token[t])

(* No connection is left for the call, or another transaction has its row *)
Waits(t) ==
    \/ pc[t] = "connect" /\ \A c \in Conns : \E u \in Threads : held[u] = c
    \/ pc[t] = "update" /\ lock[arg[t]] # None

(* The calls never all wait for one another: a thread that waits for a row *)
(* has a connection in hand that others wait for, but who has the row      *)
(* needs nothing more, and every way out of a call gives the connection    *)
(* back, an exception too (db_connection, refresh_token).                  *)
NotAllWait ==
    (\E t \in Threads : pc[t] # "idle") =>
        \E t \in Threads : pc[t] # "idle" /\ ~Waits(t)
=============================================================================
