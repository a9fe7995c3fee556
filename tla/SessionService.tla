---------------------------- MODULE SessionService ----------------------------
(***************************************************************************)
(* What the session store promises: a table of sessions that changes one   *)
(* whole operation at a time.  There are no threads here, no memory beside *)
(* the table and no crash.  A session is opened for a guest, becomes a     *)
(* user's, and goes when its time is over, when its owner leaves, or when  *)
(* a program with a newer session format is installed; for no other reason. *)
(***************************************************************************)
EXTENDS Integers

CONSTANTS
    Sids,       \* session ids
    Users,      \* users that can log in
    Guest,      \* user of a session that is not authenticated
    None,       \* no row under an id, no answer given
    Ended       \* answer to a logout

VARIABLES
    now,        \* the clock
    version,    \* the session format in use
    rows,       \* session -> [expired, user, version] or None
    told,       \* session -> the last answer about it: [user, until, version],
                \* Ended, or None
    leaving     \* sessions whose owner has asked for their end

vars == <<now, version, rows, told, leaving>>

Init ==
    /\ now = 0 /\ version = 1 /\ leaving = {}
    /\ rows = [s \in Sids |-> None] /\ told = [s \in Sids |-> None]

OnlyRowOf(s) == \A k \in Sids \ {s} : rows'[k] = rows[k]

(* A row written now is in the format in use and good for some time. *)
WrittenFor(s, u) ==
    /\ rows'[s] # None
    /\ rows'[s].user = u
    /\ rows'[s].version = version
    /\ rows'[s].expired > now

Open(s) ==
    /\ rows[s] = None /\ told[s] = None
    /\ WrittenFor(s, Guest) /\ OnlyRowOf(s)
    /\ UNCHANGED <<now, version, told, leaving>>

(* The answer says who the session belongs to and how long.  A login never *)
(* shortens a session. *)
LogIn(s, u) ==
    /\ s \notin leaving
    /\ rows[s] # None
    /\ WrittenFor(s, u) /\ OnlyRowOf(s)
    /\ rows'[s].expired >= rows[s].expired
    /\ told' = [told EXCEPT ![s] =
                  [user |-> u, until |-> rows'[s].expired, version |-> version]]
    /\ UNCHANGED <<now, version, leaving>>

AskToLeave(s) ==
    /\ told' = [told EXCEPT ![s] = None]
    /\ leaving' = leaving \cup {s}
    /\ UNCHANGED <<now, version, rows>>

(* The answer to a logout comes when the session is gone. *)
Left(s) ==
    /\ s \in leaving /\ rows[s] = None
    /\ told' = [told EXCEPT ![s] = Ended]
    /\ leaving' = leaving \ {s}
    /\ UNCHANGED <<now, version, rows>>

(* The owner's request is lost before it was answered. *)
Abandon ==
    /\ leaving' = {}
    /\ UNCHANGED <<now, version, rows, told>>

Over(s) == rows[s].expired <= now \/ s \in leaving

Drop(s) ==
    /\ rows[s] # None /\ Over(s)
    /\ rows' = [rows EXCEPT ![s] = None]
    /\ UNCHANGED <<now, version, told, leaving>>

(* Rows that are over, or of an older format, may go; the others stay. *)
Install ==
    /\ version' >= version
    /\ \A s \in Sids :
         \/ rows'[s] = rows[s]
         \/ rows'[s] = None /\ (rows[s].expired <= now \/ rows[s].version < version')
    /\ \A s \in Sids : rows'[s] # None => rows'[s].version >= version'
    /\ UNCHANGED <<now, told, leaving>>

Tick ==
    /\ now' = now + 1
    /\ UNCHANGED <<version, rows, told, leaving>>

Next ==
    \/ \E s \in Sids : Open(s) \/ AskToLeave(s) \/ Left(s) \/ Drop(s)
    \/ \E s \in Sids, u \in Users : LogIn(s, u)
    \/ Abandon \/ Install \/ Tick

Spec == Init /\ [][Next]_vars
=============================================================================
