---------------------------- MODULE SessionStore ----------------------------
(***************************************************************************)
(* The session store of a khorost server: the in-memory map                *)
(* session_controller::m_session_memory_ and the sqlite table "sessions",  *)
(* used without a lock by two threads.                                     *)
(*                                                                         *)
(*   - The request thread (the libevent loop) runs one request at a time:  *)
(*     processing_session -> get_session, then action_auth (login, logout) *)
(*     or an action that leaves the session alone.                         *)
(*   - The timer thread (stub_timer_run) sweeps the map every ten minutes  *)
(*     and once more when the server shuts down: check_alive_sessions.     *)
(*                                                                         *)
(* Steps of one thread are separated at each database statement, the long  *)
(* window in which the other thread runs.  The map operations between two  *)
(* statements are one step.  The process may crash and start again at any  *)
(* moment; the table survives, the map does not.                           *)
(*                                                                         *)
(* An entry is abstracted to its expiry and its user (Guest is a session   *)
(* that is not authenticated; nickname and roles follow the user).         *)
(* Session ids are numbers because the map is swept in key order; a fresh  *)
(* id is any number never used, as a random uuid is.                       *)
(*                                                                         *)
(* An iterator of the sweep stands for a node of the map, named by its     *)
(* key.  The request thread may erase the node under it, and may put the   *)
(* next session it makes into the freed memory: the iterator then is on a  *)
(* node of another key.                                                    *)
(***************************************************************************)
EXTENDS Integers

CONSTANTS
    MaxSid,      \* bound: session ids are 1..MaxSid
    Users,       \* users that can log in
    Guest,       \* user of a session that is not authenticated
    None,        \* no entry under a key
    Ended,       \* answer to a logout
    ShortLease,  \* DEFAULT_EXPIRE_MINUTES
    LongLease,   \* the 14 days of an authenticated session
    MaxRequest,  \* the longest a request handler runs
    ScanPeriod,  \* the 10 minutes between two sweeps
    Hour,        \* an hour in ticks: minutes() is the remainder of it
    MaxTime,     \* bound on the clock
    MaxBuild     \* bound on the session format (SESSION_VERSION_CURRENT)

Sids == 1..MaxSid

Entry == [expired : Nat, user : Users \cup {Guest}]
Row   == [expired : Nat, user : Users \cup {Guest}, version : Nat]

(* What a client was told by a successful login: who it is, and how long   *)
(* the row written for it is good.                                         *)
Answer == [user : Users \cup {Guest}, until : Nat, version : Nat]

(* A handler is shorter than the shortest lease: the code never checks it, *)
(* it is what the 30 minutes of DEFAULT_EXPIRE_MINUTES rely on.            *)
ASSUME SessionStoreAssumption ==
    /\ MaxSid \in Nat /\ MaxTime \in Nat /\ MaxBuild \in Nat
    /\ ShortLease \in Nat /\ LongLease \in Nat /\ MaxRequest \in Nat
    /\ MaxRequest < ShortLease
    /\ ShortLease <= LongLease
    /\ ScanPeriod \in Nat /\ Hour \in Nat \ {0}
    /\ Guest \notin Users
    /\ None \notin Entry /\ None \notin Row /\ None \notin Sids
    /\ None \notin Answer /\ Ended \notin Answer /\ Ended # None

VARIABLES
    now,       \* the clock (second_clock::universal_time, time(nullptr))
    proc,      \* "down" or "up"
    build,     \* the session format of the running (or last) program
    stopping,  \* m_shutdown_timer_ is set and the event loop told to exit
    mem,       \* m_session_memory_: key -> entry or None
    db,        \* the sessions table: key -> row or None
    used,      \* ids generated so far
    rpc,       \* where the request thread is
    cur,       \* the session the request works on
    rnow,      \* the clock get_session read
    tpc,       \* where the timer thread is
    final,     \* the sweep is the one after the loop of stub_timer_run
    tnow,      \* the clock check_alive_sessions read
    it,        \* the iterator of the sweep: a node by its key, or End
    sit,       \* the iterator copied before it was advanced
    sp,        \* the session the sweep removes, copied from the node sit is on
    strayed,   \* history: the node it is on was erased in this sweep
    lastScan,  \* session_update: clock of the last periodic sweep
    gone,      \* the sessions a sweep took out of the map in place of the one
               \* it was to remove, as their handlers still find them
    told       \* history: the last answer about the session given to a client

reqVars   == <<rpc, cur, rnow>>
scanVars  == <<tnow, it, sit, sp, strayed>>
timerVars == <<tpc, final, scanVars, lastScan>>
vars == <<now, proc, build, stopping, mem, db, used, reqVars, timerVars, gone, told>>

End == MaxSid + 1       \* m_session_memory_.end()

LiveKeys  == {s \in Sids : mem[s] # None}
EmptyMap == [s \in Sids |-> None]

(* The next key in the map behind k, in the order of std::map, or its end. *)
Following(k) ==
    {n \in (k + 1)..End : /\ n = End \/ mem[n] # None
                         /\ \A m \in (k + 1)..(n - 1) : mem[m] = None}

(* Where an iterator on k is after ++.  From a node that has been erased   *)
(* the links still in it lead to any node of the map, to its end, or to    *)
(* another node that was there and lay behind it (the other outcome, the   *)
(* process dying, is Crash).                                               *)
After(k) ==
    IF mem[k] # None THEN Following(k)
    ELSE {n \in used \cup {End} : n = End \/ mem[n] # None \/ n > k}

(* What a pointer to the session finds: the one in the map, or what is     *)
(* left of one that was taken away (the other outcome is Crash).           *)
Held(s) == IF mem[s] # None THEN mem[s] ELSE gone[s]

(* The request thread puts a node for n into the map.  The memory of a     *)
(* node it erased before, with an iterator of the sweep still on it, may   *)
(* be what it gets.                                                        *)
NodeFor(n) ==
    \/ UNCHANGED <<it, sit, strayed>>
    \/ /\ sit # End /\ mem[sit] = None
       /\ sit' = n
       /\ UNCHANGED <<it, strayed>>
    \/ /\ it # End /\ mem[it] = None
       /\ it' = n /\ strayed' = TRUE
       /\ UNCHANGED sit

(***************************************************************************)
(* Requests                                                                *)
(***************************************************************************)

(* mutant: get_expire_shift leaves the duration at zero *)
LeaseOfUnset(u) == 0

LeaseOf(u) == IF u = Guest THEN ShortLease ELSE LongLease

(* the handler returns: its locals are gone *)
Return ==
    rpc' = "idle" /\ cur' = None /\ rnow' = 0

(* mutant: a session is given up a tick early *)
IsLiveTooStrict(e, t) == e.expired > t + 1

IsLive(e, t) == e.expired > t

RowOf(e) == [expired |-> e.expired, user |-> e.user, version |-> build]

(* get_session finds a live session and extends it, in memory only *)
GetLive(s) ==
    /\ rpc = "idle" /\ proc = "up"
    /\ mem[s] # None /\ IsLive(mem[s], now)
    /\ mem' = [mem EXCEPT ![s] = [expired |-> now + LeaseOf(@.user), user |-> @.user]]
    /\ rpc' = "handle" /\ cur' = s /\ rnow' = now
    /\ UNCHANGED <<now, proc, build, stopping, db, used, timerVars, gone, told>>

(* get_session finds an expired session: out of the map first *)
GetExpired(s) ==
    /\ rpc = "idle" /\ proc = "up"
    /\ mem[s] # None /\ ~IsLive(mem[s], now)
    /\ mem' = [mem EXCEPT ![s] = None]
    /\ rpc' = "drop" /\ cur' = s /\ rnow' = now
    /\ UNCHANGED <<now, proc, build, stopping, db, used, timerVars, gone, told>>

(* ... then out of the table *)
DropRow ==
    /\ rpc = "drop"
    /\ db' = [db EXCEPT ![cur] = None]
    /\ rpc' = "create"
    /\ UNCHANGED <<now, proc, build, stopping, mem, used, cur, rnow, timerVars, gone, told>>

(* the cookie names no session in the map, or there is no cookie *)
GetUnknown ==
    /\ rpc = "idle" /\ proc = "up"
    /\ rpc' = "create" /\ rnow' = now
    /\ UNCHANGED <<now, proc, build, stopping, mem, db, used, cur, timerVars, gone, told>>

(* a new session goes into the map ... *)
CreateEntry(n) ==
    /\ rpc = "create"
    /\ n \notin used
    /\ used' = used \cup {n}
    /\ mem' = [mem EXCEPT ![n] = [expired |-> rnow + ShortLease, user |-> Guest]]
    /\ rpc' = "insert" /\ cur' = n
    /\ NodeFor(n)
    /\ UNCHANGED <<now, proc, build, stopping, db, rnow, tpc, final, tnow, sp,
                   lastScan, gone, told>>

(* bound: the ids of the model are used up, the request ends here *)
IdsUsedUp ==
    /\ rpc = "create" /\ used = Sids
    /\ Return
    /\ UNCHANGED <<now, proc, build, stopping, mem, db, used, timerVars, gone, told>>

(* ... and then into the table, if need be when the map has lost it *)
InsertRow ==
    /\ rpc = "insert"
    /\ db' = [db EXCEPT ![cur] = RowOf(Held(cur))]
    /\ rpc' = "handle"
    /\ UNCHANGED <<now, proc, build, stopping, mem, used, cur, rnow, timerVars, gone, told>>

(* an action that leaves the session alone, or a login that is refused *)
OtherAction ==
    /\ rpc = "handle"
    /\ Return
    /\ UNCHANGED <<now, proc, build, stopping, mem, db, used, timerVars, gone, told>>

(* The handler writes to the session it holds a plain pointer to *)
Becomes(e) ==
    IF mem[cur] # None
    THEN mem' = [mem EXCEPT ![cur] = e] /\ UNCHANGED gone
    ELSE gone' = [gone EXCEPT ![cur] = e] /\ UNCHANGED mem

(* login: the session becomes the user's in memory.  Its expiry is left as *)
(* get_session set it. *)
Login(u) ==
    /\ rpc = "handle"
    /\ Becomes([expired |-> Held(cur).expired, user |-> u])
    /\ rpc' = "store"
    /\ UNCHANGED <<now, proc, build, stopping, db, used, cur, rnow, timerVars, told>>

(* mutant: update_session is not called *)
StoreRowForgotten ==
    /\ rpc = "store"
    /\ told' = [told EXCEPT ![cur] =
                  [user |-> Held(cur).user, until |-> Held(cur).expired, version |-> build]]
    /\ Return
    /\ UNCHANGED <<now, proc, build, stopping, mem, db, used, timerVars, gone>>

(* ... and update_session writes it; the answer says the login succeeded *)
StoreRow ==
    /\ rpc = "store"
    /\ db' = [db EXCEPT ![cur] = RowOf(Held(cur))]
    /\ told' = [told EXCEPT ![cur] =
                  [user |-> Held(cur).user, until |-> Held(cur).expired, version |-> build]]
    /\ Return
    /\ UNCHANGED <<now, proc, build, stopping, mem, used, timerVars, gone>>

(* logout: reset() and set_expired(now); from here on the client has asked *)
(* for the end of its session *)
Logout ==
    /\ rpc = "handle"
    /\ Becomes([expired |-> now, user |-> Guest])
    /\ told' = [told EXCEPT ![cur] = None]
    /\ rpc' = "logout_row"
    /\ UNCHANGED <<now, proc, build, stopping, db, used, cur, rnow, timerVars>>

(* mutant: remove_session leaves the table alone *)
LogoutRowForgotten ==
    /\ rpc = "logout_row"
    /\ rpc' = "logout_mem"
    /\ UNCHANGED <<now, proc, build, stopping, mem, db, used, cur, rnow, timerVars, gone, told>>

(* remove_session: out of the table first.  The handler's pointer to the   *)
(* session is not counted, so the sweep may have destroyed the session by  *)
(* now; the outcomes are that its id can still be read, and Crash. *)
LogoutRow ==
    /\ rpc = "logout_row"
    /\ db' = [db EXCEPT ![cur] = None]
    /\ rpc' = "logout_mem"
    /\ UNCHANGED <<now, proc, build, stopping, mem, used, cur, rnow, timerVars, gone, told>>

(* ... then out of the map if it is still there; the answer says it ended *)
LogoutMem ==
    /\ rpc = "logout_mem"
    /\ mem' = [mem EXCEPT ![cur] = None]
    /\ told' = [told EXCEPT ![cur] = Ended]
    /\ Return
    /\ UNCHANGED <<now, proc, build, stopping, db, used, timerVars, gone>>

(* event_base_loopexit: the loop returns after the request in hand *)
LeaveLoop ==
    /\ stopping /\ rpc = "idle" /\ proc = "up"
    /\ rpc' = "exited"
    /\ UNCHANGED <<now, proc, build, stopping, mem, db, used, cur, rnow, timerVars, gone, told>>

(***************************************************************************)
(* The timer thread                                                        *)
(***************************************************************************)

(* (now - session_update).minutes() >= 10: minutes() is a field of the     *)
(* duration, so the hours are lost *)
SweepDue == (now - lastScan) % Hour >= ScanPeriod

StartSweep(last) ==
    /\ tpc' = "scan" /\ final' = last
    /\ tnow' = now /\ it' \in Following(0) /\ strayed' = FALSE
    /\ UNCHANGED <<sit, sp>>
    /\ UNCHANGED <<now, proc, build, stopping, mem, db, used, reqVars, gone, told>>

PeriodicSweep ==
    /\ tpc = "sleep" /\ proc = "up" /\ ~stopping
    /\ SweepDue
    /\ lastScan' = now
    /\ StartSweep(FALSE)

(* the sweep after the loop *)
FinalSweep ==
    /\ tpc = "sleep" /\ proc = "up" /\ stopping
    /\ UNCHANGED lastScan
    /\ StartSweep(TRUE)

(* mutant: the sweep compares with a stale clock *)
IsExpiredTooLax(e, t) == e.expired + 1 < t

IsExpired(e, t) == e.expired < t

(* What the sweep can find under its iterator: in a node that was erased,  *)
(* the session a sweep took away, or one that is no more, of which it may  *)
(* still see the old expiry. *)
MayFindExpired(k) == Held(k) # None => IsExpired(Held(k), tnow)
MayFindLive(k)    == Held(k) # None => ~IsExpired(Held(k), tnow)

(* One turn of the loop: advance the iterator and look at the node it was  *)
(* on, which is another session's by now if the memory was used again. *)
Visit ==
    /\ tpc = "scan" /\ it # End
    /\ it' \in After(it)
    /\ strayed' = (strayed \/ mem[it] = None)
    /\ \/ MayFindExpired(it) /\ tpc' = "row" /\ sit' = it /\ sp' = it
       \/ MayFindLive(it) /\ UNCHANGED <<tpc, sit, sp>>
    /\ UNCHANGED <<now, proc, build, stopping, mem, db, used, reqVars,
                   final, tnow, lastScan, gone, told>>

(* mutant: the sweep leaves the table alone *)
SweepRowForgotten ==
    /\ tpc = "row"
    /\ tpc' = "erase"
    /\ UNCHANGED <<now, proc, build, stopping, mem, db, used, reqVars,
                   final, scanVars, lastScan, gone, told>>

(* The row of the session that was found expired, whatever sit is on now *)
SweepRow ==
    /\ tpc = "row"
    /\ db' = [db EXCEPT ![sp] = None]
    /\ tpc' = "erase"
    /\ UNCHANGED <<now, proc, build, stopping, mem, used, reqVars,
                   final, scanVars, lastScan, gone, told>>

(* erase(sit).  The request thread may have erased the node during the     *)
(* database statement: a second erase of it changes nothing or is Crash;   *)
(* if a new session has got its memory meanwhile, that session goes, and   *)
(* is destroyed even when a handler works on it.                           *)
SweepErase ==
    /\ tpc = "erase"
    /\ mem' = [mem EXCEPT ![sit] = None]
    /\ gone' = IF sit = sp THEN gone ELSE [gone EXCEPT ![sit] = mem[sit]]
    /\ tpc' = "scan" /\ sit' = End /\ sp' = End
    /\ UNCHANGED <<now, proc, build, stopping, db, used, reqVars,
                   final, tnow, it, strayed, lastScan, told>>

(* mutant: the loop of the timer thread is entered again *)
EndSweepLooping ==
    /\ tpc = "scan" /\ it = End
    /\ tpc' = "sleep"
    /\ tnow' = 0 /\ strayed' = FALSE
    /\ UNCHANGED <<now, proc, build, stopping, mem, db, used, reqVars,
                   final, it, sit, sp, lastScan, gone, told>>

EndSweep ==
    /\ tpc = "scan" /\ it = End
    /\ tpc' = IF final THEN "done" ELSE "sleep"
    /\ tnow' = 0 /\ strayed' = FALSE
    /\ UNCHANGED <<now, proc, build, stopping, mem, db, used, reqVars,
                   final, it, sit, sp, lastScan, gone, told>>

(***************************************************************************)
(* The process and the clock                                               *)
(***************************************************************************)

(* A handler in progress has run for less than MaxRequest *)
Tick ==
    /\ now < MaxTime
    /\ rpc \notin {"idle", "exited"} => now < rnow + MaxRequest
    /\ now' = now + 1
    /\ UNCHANGED <<proc, build, stopping, mem, db, used, reqVars, timerVars, gone, told>>

(* server2_hb::shutdown *)
Stop ==
    /\ proc = "up" /\ ~stopping
    /\ stopping' = TRUE
    /\ UNCHANGED <<now, proc, build, mem, db, used, reqVars, timerVars, gone, told>>

Down ==
    /\ proc = "up"
    /\ proc' = "down"
    /\ mem' = EmptyMap /\ gone' = EmptyMap
    /\ stopping' = FALSE
    /\ Return
    /\ tpc' = "sleep" /\ final' = FALSE
    /\ tnow' = 0 /\ it' = End /\ sit' = End /\ sp' = End
    /\ strayed' = FALSE /\ lastScan' = 0
    /\ UNCHANGED <<now, build, db, used, told>>

Exit  == tpc = "done" /\ rpc = "exited" /\ Down

Crash == Down

(* open() and load_sessions: rows that have expired or are of an older     *)
(* format are deleted, the others loaded.  A new program may need a newer  *)
(* format: SESSION_VERSION_MIN and SESSION_VERSION_CURRENT are equal. *)
(* mutant: rows of an older format are loaded *)
KeepRowAnyVersion(r, version) == ~(r.expired < now)

KeepRow(r, version) == ~(r.expired < now \/ r.version < version)

Start(version) ==
    /\ proc = "down"
    /\ version \in {build, build + 1} /\ version <= MaxBuild
    /\ build' = version
    /\ LET kept == {s \in Sids : db[s] # None /\ KeepRow(db[s], version)} IN
         /\ db'  = [s \in Sids |-> IF s \in kept THEN db[s] ELSE None]
         /\ mem' = [s \in Sids |-> IF s \in kept
                                    THEN [expired |-> db[s].expired, user |-> db[s].user]
                                    ELSE None]
    /\ proc' = "up"
    /\ lastScan' = now
    /\ UNCHANGED <<now, stopping, used, reqVars, tpc, final, scanVars, gone, told>>

-----------------------------------------------------------------------------

Init ==
    /\ now = 0 /\ proc = "down" /\ build = 1 /\ stopping = FALSE
    /\ mem = EmptyMap /\ db = EmptyMap /\ used = {}
    /\ rpc = "idle" /\ cur = None /\ rnow = 0
    /\ tpc = "sleep" /\ final = FALSE
    /\ tnow = 0 /\ it = End /\ sit = End /\ sp = End
    /\ strayed = FALSE /\ lastScan = 0
    /\ gone = EmptyMap /\ told = EmptyMap

Request ==
    \/ \E s \in Sids : GetLive(s) \/ GetExpired(s) \/ CreateEntry(s)
    \/ \E u \in Users : Login(u)
    \/ GetUnknown \/ DropRow \/ IdsUsedUp \/ InsertRow \/ OtherAction \/ StoreRow
    \/ Logout \/ LogoutRow \/ LogoutMem \/ LeaveLoop

Timer ==
    PeriodicSweep \/ FinalSweep \/ Visit \/ SweepRow \/ SweepErase \/ EndSweep

Process == Tick \/ Stop \/ Exit \/ Crash \/ \E v \in 1..MaxBuild : Start(v)

Next == Request \/ Timer \/ Process

Spec == Init /\ [][Next]_vars

(* The threads go on when they can; the loop returns once it was told to,  *)
(* whatever requests keep coming (loopexit ends it after the current pass). *)
FairSpec ==
    /\ Spec
    /\ WF_vars(Timer)
    /\ WF_vars(Request /\ rpc # "idle")
    /\ SF_vars(LeaveLoop)
    /\ WF_vars(Exit)

-----------------------------------------------------------------------------

TypeOK ==
    /\ now \in Nat
    /\ proc \in {"up", "down"} /\ stopping \in BOOLEAN
    /\ build \in Nat
    /\ mem \in [Sids -> Entry \cup {None}]
    /\ db \in [Sids -> Row \cup {None}]
    /\ used \in SUBSET Sids
    /\ rpc \in {"idle", "drop", "create", "insert", "handle", "store",
                "logout_row", "logout_mem", "exited"}
    /\ cur \in Sids \cup {None} /\ rnow \in Nat
    /\ tpc \in {"sleep", "scan", "row", "erase", "done"} /\ final \in BOOLEAN
    /\ tnow \in Nat /\ lastScan \in Nat
    /\ it \in 1..End /\ sit \in 1..End /\ sp \in 1..End
    /\ strayed \in BOOLEAN
    /\ gone \in [Sids -> Entry \cup {None}]
    /\ told \in [Sids -> Answer \cup {None, Ended}]

(* The sessions a sweep took out of the map although they had not expired: *)
(* each got the memory of a session the sweep was about to erase.          *)
Taken == {s \in Sids : gone[s] # None}

(* The handler works through a plain pointer to the session that only the  *)
(* map keeps alive (processing_session returns a shared_ptr whose copy is  *)
(* dropped at once).  The sweep takes a session away under a handler that  *)
(* has not asked for its end in one way only: through the memory of an     *)
(* expired session.  Leases never run out under a handler.                 *)
InUseNotReaped ==
    rpc \in {"insert", "handle", "store"} => mem[cur] # None \/ cur \in Taken

(* Map and table hold the same sessions, but for the one the request       *)
(* thread is inserting or removing, the one the sweep is removing, and     *)
(* those it took away in place of another, whose rows stay: no other       *)
(* interleaving of the two threads, and no crash, leaves a row without its *)
(* session or a session that was never written.                            *)
TableMatchesMap ==
    proc = "up" =>
        \A s \in Sids : (mem[s] = None) # (db[s] = None) =>
            \/ cur = s /\ rpc \in {"drop", "insert", "logout_row", "logout_mem"}
            \/ sp = s /\ tpc \in {"row", "erase"}
            \/ s \in Taken /\ mem[s] = None

(* A row belongs to the user its session belongs to, is in the format of   *)
(* the running program, and expires no later than the session in memory:   *)
(* a restart never prolongs a session.  Only a login or a logout that has  *)
(* not reached the table yet is ahead of it.                               *)
RowFollowsEntry ==
    proc = "up" =>
        \A s \in Sids : mem[s] # None /\ db[s] # None =>
            /\ db[s].version = build
            /\ \/ cur = s /\ rpc \in {"store", "logout_row"}
               \/ db[s].user = mem[s].user
            /\ \/ cur = s /\ rpc = "logout_row"
               \/ db[s].expired <= mem[s].expired

(* The row of a login that was answered is not lost before the time        *)
(* written with it, by a sweep, a request or a crash, unless a newer       *)
(* format is installed.  Nor does the map of a running server lose the     *)
(* session, unless the sweep took it in place of another: then the login   *)
(* is back after a restart.                                                *)
LoginKept ==
    \A s \in Sids :
        told[s] \in Answer /\ now < told[s].until /\ told[s].version = build =>
            /\ db[s] # None /\ db[s].user = told[s].user
            /\ proc = "up" /\ s \notin Taken =>
                 /\ mem[s] # None
                 /\ \/ cur = s /\ rpc = "store"
                    \/ mem[s].user = told[s].user

(* A session whose logout was answered never comes back, not even through  *)
(* a crash and a restart or a statement of the sweep still under way.      *)
LogoutFinal ==
    \A s \in Sids : told[s] = Ended => mem[s] = None /\ db[s] = None

(* When the sweep reaches the end of the map no session that was expired   *)
(* at its start is left, wherever requests inserted and erased meanwhile,  *)
(* the node it was removing included; but not if the node it was to visit  *)
(* next was erased, which may send it anywhere.                            *)
SweepComplete ==
    tpc = "scan" /\ it = End /\ ~strayed =>
        \A s \in LiveKeys : mem[s].expired >= tnow

(* A session leaves the map of a running server only once its expiry has   *)
(* come, or in place of an expired one whose memory it got: no request     *)
(* prolongs the session the sweep is removing after what it read before a  *)
(* database statement.                                                     *)
NeverForgottenEarly ==
    [][\A s \in Sids :
         mem[s] # None /\ mem'[s] = None /\ proc' = "up" =>
             mem[s].expired <= now \/ (sit = s /\ sp # s)]_vars

(* A server told to stop comes down: the sweep ends although requests      *)
(* change the map under it, and the loop returns. *)
StopCompletes == stopping ~> proc = "down"

(* The sessions whose logout is under way *)
Leaving == IF rpc \in {"logout_row", "logout_mem"} THEN {cur} ELSE {}

Service == INSTANCE SessionService
             WITH version <- build, rows <- db, leaving <- Leaving

(* The table, as the clients' answers tell of it, is that of a store whose *)
(* operations happen at once: the interleaved statements of the two        *)
(* threads, what each read before them, crashes and restarts add no way    *)
(* for a session to come, change or go (get_session, action_auth,          *)
(* check_alive_sessions, load_sessions).                                   *)
ServiceSpec == Service!Spec
=============================================================================
