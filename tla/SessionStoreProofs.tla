------------------------- MODULE SessionStoreProofs -------------------------
(***************************************************************************)
(* Theorems about SessionStore, for every number of session ids, every     *)
(* pair of leases and every handler time below the short lease.            *)
(***************************************************************************)
EXTENDS SessionStore, TLAPS

(* A handler in progress has read the clock at most MaxRequest ago, and    *)
(* the sweep in progress read it before now.                               *)
ClockInv ==
    /\ rpc \notin {"idle", "exited"} => rnow <= now /\ now <= rnow + MaxRequest
    /\ tpc \in {"scan", "row", "erase"} => tnow <= now

(* Keys are issued before they occur anywhere. *)
UsedInv ==
    /\ \A s \in Sids :
         mem[s] # None \/ gone[s] # None \/ db[s] # None \/ told[s] # None =>
             s \in used
    /\ rpc \notin {"idle", "create", "exited"} => cur \in used
    /\ it \in used \cup {End}

(* The copies the sweep holds of an iterator and a session live from the   *)
(* turn that found the session expired to its erase, and the iterator as   *)
(* long as the sweep. *)
HeldInv ==
    /\ tpc \in {"row", "erase"} => sit \in used /\ sp \in used
    /\ tpc \notin {"row", "erase"} => sit = End /\ sp = End
    /\ tpc \notin {"scan", "row", "erase"} => it = End

(* No thread runs, and no session is in memory, while the process is down. *)
DownInv ==
    proc = "down" =>
        rpc = "idle" /\ tpc = "sleep" /\ mem = EmptyMap /\ gone = EmptyMap

(* The session in use has its whole lease before it. *)
LeaseInv ==
    rpc \in {"insert", "handle", "store"} =>
        Held(cur) # None /\ Held(cur).expired >= rnow + ShortLease

(* What the sweep is removing is still expired, or gone already.  It is    *)
(* out of the map if its node has another session now, one that was never  *)
(* taken away. *)
DoomedInv ==
    tpc \in {"row", "erase"} =>
        /\ Held(sp) # None => Held(sp).expired < tnow
        /\ sit # sp => mem[sp] = None /\ gone[sit] = None

(* A session that was taken away is in the map no more, and its row lasts  *)
(* no longer than it did. *)
GoneInv ==
    \A s \in Sids : gone[s] # None =>
        /\ mem[s] = None
        /\ db[s] # None =>
              \/ cur = s /\ rpc = "logout_row"
              \/ db[s].expired <= gone[s].expired

(* Everything behind the iterator has been swept, as long as it went from  *)
(* node to node of the map. *)
SweptInv ==
    tpc \in {"scan", "row", "erase"} /\ ~strayed =>
        \A s \in LiveKeys : s < it =>
            \/ mem[s].expired >= tnow
            \/ tpc \in {"row", "erase"} /\ s = sp

(* Where a removal or an insertion stands between its two steps. *)
PendingInv ==
    /\ rpc = "drop" => mem[cur] = None /\ gone[cur] = None
    /\ rpc \in {"insert", "logout_row", "logout_mem"} => told[cur] = None
    /\ rpc \in {"logout_row", "logout_mem"} /\ Held(cur) # None =>
         Held(cur).expired <= now
    /\ rpc = "logout_mem" => db[cur] = None
    /\ rpc \in {"handle", "store"} => db[cur] # None
    /\ tpc = "erase" => db[sp] = None

(* No expiry is further away than the lease of the session's user. *)
BoundInv ==
    \A s \in Sids :
        /\ Held(s) # None => Held(s).expired <= now + LeaseOf(Held(s).user)
        /\ db[s] # None => db[s].expired <= now + LeaseOf(db[s].user)

(* Rows and answers are of the running format or an older one, and a row   *)
(* is what the last answer about it said. *)
AnswerInv ==
    \A s \in Sids :
        /\ db[s] # None => db[s].version <= build
        /\ told[s] \in Answer => told[s].version <= build
        /\ told[s] \in Answer /\ db[s] # None =>
             /\ told[s].user = db[s].user
             /\ told[s].until = db[s].expired
             /\ told[s].version = db[s].version

IInv ==
    /\ TypeOK
    /\ ClockInv /\ UsedInv /\ HeldInv /\ DownInv
    /\ LeaseInv /\ DoomedInv /\ GoneInv /\ SweptInv
    /\ PendingInv /\ BoundInv /\ AnswerInv
    /\ TableMatchesMap /\ RowFollowsEntry /\ LogoutFinal /\ LoginKept

-----------------------------------------------------------------------------
(* A session in use is not the one the sweep found expired, and has its    *)
(* row once it has been inserted.                                          *)
LEMMA InUseApart ==
    ASSUME IInv, rpc \in {"insert", "handle", "store"}
    PROVE  /\ cur \in Sids /\ Held(cur) \in Entry /\ Held(cur).expired > now
           /\ tpc \in {"row", "erase"} => sp # cur
           /\ rpc # "insert" => db[cur] \in Row
<1> USE SessionStoreAssumption
<1>1. cur \in Sids /\ Held(cur) \in Entry
  BY DEF IInv, UsedInv, LeaseInv, Held, TypeOK
<1>2. Held(cur).expired > now
  BY <1>1 DEF IInv, LeaseInv, ClockInv, TypeOK, Entry
<1>3. tpc \in {"row", "erase"} => sp # cur
  BY <1>1, <1>2 DEF IInv, DoomedInv, ClockInv, TypeOK, Entry
<1>4. rpc # "insert" => db[cur] \in Row
  BY <1>1 DEF IInv, PendingInv, TypeOK
<1> QED BY <1>1, <1>2, <1>3, <1>4

(* One lemma per conjunct of IInv: a step keeps it.  The actions that can  *)
(* disturb it have a step each; the others of a thread share one.          *)

(* Every action keeps the types; the handler's key is a session's while it *)
(* holds one.                                                              *)
LEMMA TypeOKStep == ASSUME IInv, [Next]_vars PROVE TypeOK'
<1> USE SessionStoreAssumption
<1>1. CASE Request
  <2>1. CASE \E s \in Sids : GetLive(s)
    BY <2>1 DEF GetLive, IsLive, LeaseOf, IInv, TypeOK, LeaseInv, UsedInv,
                Entry, Row, Answer, Sids, End, EmptyMap, reqVars, timerVars,
                scanVars, Held, HeldInv
  <2>2. CASE \E s \in Sids : GetExpired(s)
    BY <2>2 DEF GetExpired, IsLive, IInv, TypeOK, LeaseInv, UsedInv, Entry,
                Row, Answer, Sids, End, EmptyMap, reqVars, timerVars,
                scanVars, Held, HeldInv
  <2>3. CASE \E s \in Sids : CreateEntry(s)
    <3>1. strayed' \in BOOLEAN /\ final' \in BOOLEAN /\ stopping' \in BOOLEAN
      BY <2>3, Zenon DEF CreateEntry, NodeFor, IInv, TypeOK
    <3> QED
      BY <2>3, <3>1 DEF CreateEntry, NodeFor, IInv, TypeOK, Entry, Sids, End
  <2>4. CASE \E u \in Users : Login(u)
    BY <2>4 DEF Login, IInv, TypeOK, LeaseInv, UsedInv, Entry, Row, Answer,
                Sids, End, EmptyMap, reqVars, timerVars, scanVars, Becomes,
                Held, HeldInv
  <2>5. CASE GetUnknown
    BY <2>5 DEF GetUnknown, IInv, TypeOK, LeaseInv, UsedInv, Entry, Row,
                Answer, Sids, End, EmptyMap, reqVars, timerVars, scanVars,
                Held, HeldInv
  <2>6. CASE DropRow
    BY <2>6 DEF DropRow, IInv, TypeOK, LeaseInv, UsedInv, Entry, Row, Answer,
                Sids, End, EmptyMap, reqVars, timerVars, scanVars, Held,
                HeldInv
  <2>7. CASE IdsUsedUp
    BY <2>7 DEF IdsUsedUp, Return, IInv, TypeOK, LeaseInv, UsedInv, Entry,
                Row, Answer, Sids, End, EmptyMap, reqVars, timerVars,
                scanVars, Held, HeldInv
  <2>8. CASE InsertRow
    BY <2>8 DEF InsertRow, RowOf, IInv, TypeOK, LeaseInv, UsedInv, Entry, Row,
                Answer, Sids, End, EmptyMap, reqVars, timerVars, scanVars,
                Held, HeldInv
  <2>9. CASE OtherAction
    BY <2>9 DEF OtherAction, Return, IInv, TypeOK, LeaseInv, UsedInv, Entry,
                Row, Answer, Sids, End, EmptyMap, reqVars, timerVars,
                scanVars, Held, HeldInv
  <2>10. CASE StoreRow
    BY <2>10 DEF StoreRow, Return, RowOf, IInv, TypeOK, LeaseInv, UsedInv,
                 Entry, Row, Answer, Sids, End, EmptyMap, reqVars, timerVars,
                 scanVars, Held, HeldInv
  <2>11. CASE Logout
    <3>1. mem' \in [Sids -> Entry \cup {None}] /\ gone' \in [Sids -> Entry \cup {None}]
      BY <2>11 DEF Logout, Becomes, IInv, TypeOK, UsedInv, Entry
    <3> QED
      BY <2>11, <3>1 DEF Logout, IInv, TypeOK, timerVars, scanVars
  <2>12. CASE LogoutRow
    BY <2>12 DEF LogoutRow, IInv, TypeOK, LeaseInv, UsedInv, Entry, Row,
                 Answer, Sids, End, EmptyMap, reqVars, timerVars, scanVars,
                 Held, HeldInv
  <2>13. CASE LogoutMem
    BY <2>13 DEF LogoutMem, Return, IInv, TypeOK, LeaseInv, UsedInv, Entry,
                 Row, Answer, Sids, End, EmptyMap, reqVars, timerVars,
                 scanVars, Held, HeldInv
  <2>14. CASE LeaveLoop
    BY <2>14 DEF LeaveLoop, IInv, TypeOK, LeaseInv, UsedInv, Entry, Row,
                 Answer, Sids, End, EmptyMap, reqVars, timerVars, scanVars,
                 Held, HeldInv
  <2> QED
    BY <1>1, <2>1, <2>2, <2>3, <2>4, <2>5, <2>6, <2>7, <2>8, <2>9, <2>10,
       <2>11, <2>12, <2>13, <2>14 DEF Request
<1>2. CASE Timer
  <2>1. CASE PeriodicSweep
    <3>1. final' \in BOOLEAN /\ stopping' \in BOOLEAN /\ strayed' \in BOOLEAN
      BY <2>1, Zenon DEF PeriodicSweep, StartSweep, IInv, TypeOK
    <3> QED
      BY <2>1, <3>1 DEF PeriodicSweep, StartSweep, Following, IInv, TypeOK,
                        Sids, End, reqVars
  <2>2. CASE FinalSweep
    <3>1. final' \in BOOLEAN /\ stopping' \in BOOLEAN /\ strayed' \in BOOLEAN
      BY <2>2, Zenon DEF FinalSweep, StartSweep, IInv, TypeOK
    <3> QED
      BY <2>2, <3>1 DEF FinalSweep, StartSweep, Following, IInv, TypeOK,
                        Sids, End, reqVars
  <2>3. CASE Visit
    BY <2>3 DEF Visit, Following, IsExpired, IInv, TypeOK, LeaseInv, UsedInv,
                Entry, Row, Answer, Sids, End, EmptyMap, reqVars, timerVars,
                scanVars, After, MayFindExpired, MayFindLive, Held, HeldInv
  <2>4. CASE SweepRow
    BY <2>4 DEF SweepRow, IInv, TypeOK, LeaseInv, UsedInv, Entry, Row, Answer,
                Sids, End, EmptyMap, reqVars, timerVars, scanVars, Held,
                HeldInv
  <2>5. CASE SweepErase
    BY <2>5 DEF SweepErase, IInv, TypeOK, LeaseInv, UsedInv, Entry, Row,
                Answer, Sids, End, EmptyMap, reqVars, timerVars, scanVars,
                Held, HeldInv
  <2>6. CASE EndSweep
    BY <2>6 DEF EndSweep, IInv, TypeOK, LeaseInv, UsedInv, Entry, Row, Answer,
                Sids, End, EmptyMap, reqVars, timerVars, scanVars, Held,
                HeldInv
  <2> QED
    BY <1>2, <2>1, <2>2, <2>3, <2>4, <2>5, <2>6 DEF Timer
<1>3. CASE Process
  <2>1. CASE Tick
    BY <2>1 DEF Tick, IInv, TypeOK, LeaseInv, UsedInv, Entry, Row, Answer,
                Sids, End, EmptyMap, reqVars, timerVars, scanVars, Held,
                HeldInv
  <2>2. CASE Stop
    BY <2>2 DEF Stop, IInv, TypeOK, LeaseInv, UsedInv, Entry, Row, Answer,
                Sids, End, EmptyMap, reqVars, timerVars, scanVars, Held,
                HeldInv
  <2>3. CASE Exit
    <3>1. final' \in BOOLEAN /\ stopping' \in BOOLEAN /\ strayed' \in BOOLEAN
      BY <2>3, Zenon DEF Exit, Down
    <3> QED
      BY <2>3, <3>1 DEF Exit, Down, Return, IInv, TypeOK, Sids, End, EmptyMap
  <2>4. CASE Crash
    <3>1. final' \in BOOLEAN /\ stopping' \in BOOLEAN /\ strayed' \in BOOLEAN
      BY <2>4, Zenon DEF Crash, Down
    <3> QED
      BY <2>4, <3>1 DEF Crash, Down, Return, IInv, TypeOK, Sids, End, EmptyMap
  <2>5. CASE \E v \in 1..MaxBuild : Start(v)
    BY <2>5 DEF Start, KeepRow, IInv, TypeOK, LeaseInv, UsedInv, Entry, Row,
                Answer, Sids, End, EmptyMap, reqVars, timerVars, scanVars,
                Held, HeldInv
  <2> QED
    BY <1>3, <2>1, <2>2, <2>3, <2>4, <2>5 DEF Process
<1>4. CASE UNCHANGED vars
  BY <1>4 DEF vars, IInv, reqVars, timerVars, scanVars, TypeOK, LeaseInv,
              UsedInv, Entry, Row, Answer, Sids, End, EmptyMap, Held, HeldInv
<1> QED BY <1>1, <1>2, <1>3, <1>4 DEF Next

(* The clock does not run past a handler, and both threads read it when    *)
(* they begin.                                                             *)
LEMMA ClockInvStep == ASSUME IInv, [Next]_vars PROVE ClockInv'
<1> USE SessionStoreAssumption
<1>1. CASE Request
  BY <1>1 DEF Request, IInv, GetLive, GetExpired, CreateEntry, Login,
              GetUnknown, DropRow, IdsUsedUp, InsertRow, OtherAction,
              StoreRow, Logout, LogoutRow, LogoutMem, LeaveLoop, IsLive,
              LeaseOf, Return, RowOf, TypeOK, ClockInv, DownInv, reqVars,
              timerVars, scanVars, NodeFor, Becomes, Held
<1>2. CASE Timer
  BY <1>2 DEF Timer, IInv, PeriodicSweep, FinalSweep, Visit, SweepRow,
              SweepErase, EndSweep, StartSweep, Following, IsExpired, TypeOK,
              ClockInv, DownInv, reqVars, timerVars, scanVars, After,
              MayFindExpired, MayFindLive, Held
<1>3. CASE Process
  <2>1. CASE Tick
    BY <2>1 DEF Tick, IInv, TypeOK, ClockInv, DownInv, reqVars, timerVars,
                scanVars, Held
  <2>2. CASE Stop \/ Exit \/ Crash \/ (\E v \in 1..MaxBuild : Start(v))
    BY <2>2 DEF Stop, Exit, Crash, Start, IInv, Down, Return, KeepRow, TypeOK,
                ClockInv, DownInv, reqVars, timerVars, scanVars, Held
  <2> QED
    BY <1>3, <2>1, <2>2 DEF Process
<1>4. CASE UNCHANGED vars
  BY <1>4 DEF vars, IInv, reqVars, timerVars, scanVars, TypeOK, ClockInv,
              DownInv, Held
<1> QED BY <1>1, <1>2, <1>3, <1>4 DEF Next

(* Only CreateEntry brings in a key, and it issues it first.               *)
LEMMA UsedInvStep == ASSUME IInv, [Next]_vars PROVE UsedInv'
<1> USE SessionStoreAssumption
<1>1. CASE Request
  <2>1. CASE \E s \in Sids : GetLive(s)
    BY <2>1 DEF GetLive, IsLive, LeaseOf, IInv, TypeOK, UsedInv, LogoutFinal,
                LeaseInv, DownInv, Sids, End, EmptyMap, reqVars, timerVars,
                scanVars, Held, HeldInv
  <2>2. CASE \E s \in Sids : GetExpired(s)
    BY <2>2 DEF GetExpired, IsLive, IInv, TypeOK, UsedInv, LogoutFinal,
                LeaseInv, DownInv, Sids, End, EmptyMap, reqVars, timerVars,
                scanVars, Held, HeldInv
  <2>3. CASE \E s \in Sids : CreateEntry(s)
    BY <2>3 DEF CreateEntry, IInv, TypeOK, UsedInv, LogoutFinal, LeaseInv,
                DownInv, Sids, End, EmptyMap, reqVars, timerVars, scanVars,
                NodeFor, Held, HeldInv
  <2>4. CASE \E u \in Users : Login(u)
    BY <2>4 DEF Login, IInv, TypeOK, UsedInv, LogoutFinal, LeaseInv, DownInv,
                Sids, End, EmptyMap, reqVars, timerVars, scanVars, Becomes,
                Held, HeldInv
  <2>5. CASE InsertRow
    BY <2>5 DEF InsertRow, RowOf, IInv, TypeOK, UsedInv, LogoutFinal,
                LeaseInv, DownInv, Sids, End, EmptyMap, reqVars, timerVars,
                scanVars, Held, HeldInv
  <2>6. CASE StoreRow
    BY <2>6 DEF StoreRow, Return, RowOf, IInv, TypeOK, UsedInv, LogoutFinal,
                LeaseInv, DownInv, Sids, End, EmptyMap, reqVars, timerVars,
                scanVars, Held, HeldInv
  <2>7. CASE \/ GetUnknown \/ DropRow \/ IdsUsedUp \/ OtherAction \/ Logout
              \/ LogoutRow \/ LogoutMem \/ LeaveLoop
    BY <2>7 DEF GetUnknown, DropRow, IdsUsedUp, OtherAction, Logout,
                LogoutRow, LogoutMem, LeaveLoop, IInv, Return, TypeOK,
                UsedInv, LogoutFinal, LeaseInv, DownInv, Sids, End, EmptyMap,
                reqVars, timerVars, scanVars, Becomes, Held, HeldInv
  <2> QED
    BY <1>1, <2>1, <2>2, <2>3, <2>4, <2>5, <2>6, <2>7 DEF Request
<1>2. CASE Timer
  <2>1. CASE PeriodicSweep
    BY <2>1 DEF PeriodicSweep, StartSweep, Following, IInv, TypeOK, UsedInv,
                LogoutFinal, LeaseInv, DownInv, Sids, End, EmptyMap, reqVars,
                timerVars, scanVars, Held, HeldInv
  <2>2. CASE FinalSweep
    BY <2>2 DEF FinalSweep, StartSweep, Following, IInv, TypeOK, UsedInv,
                LogoutFinal, LeaseInv, DownInv, Sids, End, EmptyMap, reqVars,
                timerVars, scanVars, Held, HeldInv
  <2>3. CASE Visit
    BY <2>3 DEF Visit, Following, IsExpired, IInv, TypeOK, UsedInv,
                LogoutFinal, LeaseInv, DownInv, Sids, End, EmptyMap, reqVars,
                timerVars, scanVars, After, MayFindExpired, MayFindLive, Held,
                HeldInv
  <2>4. CASE SweepRow \/ SweepErase \/ EndSweep
    BY <2>4 DEF SweepRow, SweepErase, EndSweep, IInv, TypeOK, UsedInv,
                LogoutFinal, LeaseInv, DownInv, Sids, End, EmptyMap, reqVars,
                timerVars, scanVars, Held, HeldInv
  <2> QED
    BY <1>2, <2>1, <2>2, <2>3, <2>4 DEF Timer
<1>3. CASE Process
  <2>1. CASE \E v \in 1..MaxBuild : Start(v)
    BY <2>1 DEF Start, KeepRow, IInv, TypeOK, UsedInv, LogoutFinal, LeaseInv,
                DownInv, Sids, End, EmptyMap, reqVars, timerVars, scanVars,
                Held, HeldInv
  <2>2. CASE Tick \/ Stop \/ Exit \/ Crash
    BY <2>2 DEF Tick, Stop, Exit, Crash, IInv, Down, Return, TypeOK, UsedInv,
                LogoutFinal, LeaseInv, DownInv, Sids, End, EmptyMap, reqVars,
                timerVars, scanVars, Held, HeldInv
  <2> QED
    BY <1>3, <2>1, <2>2 DEF Process
<1>4. CASE UNCHANGED vars
  BY <1>4 DEF vars, IInv, reqVars, timerVars, scanVars, TypeOK, UsedInv,
              LogoutFinal, LeaseInv, DownInv, Sids, End, EmptyMap, Held,
              HeldInv
<1> QED BY <1>1, <1>2, <1>3, <1>4 DEF Next

(* A turn of the sweep that finds a session expired sets both copies, its  *)
(* erase drops them; a reused node has a key that was issued.              *)
LEMMA HeldInvStep == ASSUME IInv, [Next]_vars PROVE HeldInv'
<1> USE SessionStoreAssumption
<1>1. CASE Request
  <2>1. CASE \E s \in Sids : CreateEntry(s)
    BY <2>1 DEF CreateEntry, NodeFor, IInv, TypeOK, HeldInv, UsedInv
  <2>2. CASE ~(\E s \in Sids : CreateEntry(s))
    BY <1>1, <2>2 DEF Request, GetLive, GetExpired, Login, GetUnknown,
                      DropRow, IdsUsedUp, InsertRow, OtherAction, StoreRow,
                      Logout, LogoutRow, LogoutMem, LeaveLoop, Return, IInv,
                      HeldInv, timerVars, scanVars
  <2> QED BY <2>1, <2>2
<1>2. CASE Timer
  <2>1. CASE Visit
    BY <2>1 DEF Visit, IInv, TypeOK, HeldInv, UsedInv
  <2>2. CASE PeriodicSweep \/ FinalSweep
    BY <2>2 DEF PeriodicSweep, FinalSweep, StartSweep, IInv, HeldInv
  <2>3. CASE SweepRow \/ SweepErase \/ EndSweep
    BY <2>3 DEF SweepRow, SweepErase, EndSweep, IInv, HeldInv, scanVars
  <2> QED BY <1>2, <2>1, <2>2, <2>3 DEF Timer
<1>3. CASE Process
  BY <1>3 DEF Process, Tick, Stop, Exit, Crash, Start, Down, IInv, HeldInv,
              timerVars, scanVars
<1>4. CASE UNCHANGED vars
  BY <1>4 DEF vars, IInv, timerVars, scanVars, HeldInv
<1> QED BY <1>1, <1>2, <1>3, <1>4 DEF Next

(* Only erase(sit) takes a session away, and only a session in the map;    *)
(* the handler writes what it still finds to the row.                      *)
LEMMA GoneInvStep == ASSUME IInv, [Next]_vars PROVE GoneInv'
<1> USE SessionStoreAssumption
<1>1. CASE Request
  <2>1. CASE \E s \in Sids : GetLive(s) \/ GetExpired(s)
    BY <2>1 DEF GetLive, GetExpired, IInv, TypeOK, GoneInv, PendingInv
  <2>2. CASE \E s \in Sids : CreateEntry(s)
    BY <2>2 DEF CreateEntry, IInv, TypeOK, GoneInv, UsedInv
  <2>3. CASE \E u \in Users : Login(u)
    BY <2>3 DEF Login, Becomes, Held, IInv, TypeOK, GoneInv, UsedInv,
                LeaseInv, Entry
  <2>4. CASE InsertRow \/ StoreRow
    BY <2>4 DEF InsertRow, StoreRow, Return, RowOf, Held, IInv, TypeOK,
                GoneInv, UsedInv, Entry, Row
  <2>5. CASE Logout
    BY <2>5 DEF Logout, Becomes, IInv, TypeOK, GoneInv, UsedInv
  <2>6. CASE DropRow \/ LogoutRow
    BY <2>6 DEF DropRow, LogoutRow, IInv, TypeOK, GoneInv, UsedInv
  <2>7. CASE \/ GetUnknown \/ IdsUsedUp \/ OtherAction \/ LogoutMem
              \/ LeaveLoop
    BY <2>7 DEF GetUnknown, IdsUsedUp, OtherAction, LogoutMem, LeaveLoop,
                Return, IInv, TypeOK, GoneInv, UsedInv
  <2> QED
    BY <1>1, <2>1, <2>2, <2>3, <2>4, <2>5, <2>6, <2>7 DEF Request
<1>2. CASE Timer
  <2>1. CASE SweepErase
    BY <2>1 DEF SweepErase, IInv, TypeOK, GoneInv, HeldInv, DownInv,
                RowFollowsEntry, reqVars, Entry, Row
  <2>2. CASE SweepRow
    BY <2>2 DEF SweepRow, IInv, TypeOK, GoneInv, HeldInv, reqVars
  <2>3. CASE PeriodicSweep \/ FinalSweep \/ Visit \/ EndSweep
    BY <2>3 DEF PeriodicSweep, FinalSweep, StartSweep, Visit, EndSweep, IInv,
                GoneInv, reqVars
  <2> QED BY <1>2, <2>1, <2>2, <2>3 DEF Timer
<1>3. CASE Process
  <2>1. CASE \E v \in 1..MaxBuild : Start(v)
    BY <2>1 DEF Start, IInv, DownInv, EmptyMap, GoneInv
  <2>2. CASE Tick \/ Stop
    BY <2>2 DEF Tick, Stop, IInv, GoneInv, reqVars
  <2>3. CASE Exit \/ Crash
    BY <2>3 DEF Exit, Crash, Down, EmptyMap, GoneInv
  <2> QED BY <1>3, <2>1, <2>2, <2>3 DEF Process
<1>4. CASE UNCHANGED vars
  BY <1>4 DEF vars, IInv, reqVars, GoneInv
<1> QED BY <1>1, <1>2, <1>3, <1>4 DEF Next

(* Down clears the map and both threads.                                   *)
LEMMA DownInvStep == ASSUME IInv, [Next]_vars PROVE DownInv'
<1> USE SessionStoreAssumption
<1>1. CASE Request
  BY <1>1 DEF Request, IInv, GetLive, GetExpired, CreateEntry, Login,
              GetUnknown, DropRow, IdsUsedUp, InsertRow, OtherAction,
              StoreRow, Logout, LogoutRow, LogoutMem, LeaveLoop, IsLive,
              LeaseOf, Return, RowOf, TypeOK, DownInv, EmptyMap, reqVars,
              timerVars, scanVars, NodeFor, Becomes, Held, HeldInv
<1>2. CASE Timer
  BY <1>2 DEF Timer, IInv, PeriodicSweep, FinalSweep, Visit, SweepRow,
              SweepErase, EndSweep, StartSweep, Following, IsExpired, TypeOK,
              DownInv, EmptyMap, reqVars, timerVars, scanVars, After,
              MayFindExpired, MayFindLive, Held, HeldInv
<1>3. CASE Process
  <2>1. CASE \E v \in 1..MaxBuild : Start(v)
    BY <2>1 DEF Start, KeepRow, IInv, TypeOK, DownInv, EmptyMap, reqVars,
                timerVars, scanVars, Held, HeldInv
  <2>2. CASE Tick \/ Stop \/ Exit \/ Crash
    BY <2>2 DEF Tick, Stop, Exit, Crash, IInv, Down, Return, TypeOK, DownInv,
                EmptyMap, reqVars, timerVars, scanVars, Held, HeldInv
  <2> QED
    BY <1>3, <2>1, <2>2 DEF Process
<1>4. CASE UNCHANGED vars
  BY <1>4 DEF vars, IInv, reqVars, timerVars, scanVars, TypeOK, DownInv,
              EmptyMap, Held, HeldInv
<1> QED BY <1>1, <1>2, <1>3, <1>4 DEF Next

(* The sweep removes what was expired at its start, and the session in use *)
(* has a lease longer than the handler runs.                               *)
LEMMA LeaseInvStep == ASSUME IInv, [Next]_vars PROVE LeaseInv'
<1> USE SessionStoreAssumption
<1>1. CASE Request
  <2>1. CASE \E s \in Sids : GetLive(s)
    BY <2>1 DEF GetLive, IsLive, LeaseOf, IInv, TypeOK, LeaseInv, ClockInv,
                UsedInv, DoomedInv, DownInv, Entry, Sids, reqVars, timerVars,
                scanVars, Held, HeldInv
  <2>2. CASE \E s \in Sids : CreateEntry(s)
    BY <2>2 DEF CreateEntry, IInv, TypeOK, LeaseInv, ClockInv, UsedInv,
                DoomedInv, DownInv, Entry, Sids, LeaseOf, reqVars, timerVars,
                scanVars, NodeFor, Held, HeldInv
  <2>3. CASE \E u \in Users : Login(u)
    BY <2>3 DEF Login, IInv, TypeOK, LeaseInv, ClockInv, UsedInv, DoomedInv,
                DownInv, Entry, Sids, LeaseOf, reqVars, timerVars, scanVars,
                Becomes, Held, HeldInv
  <2>4. CASE \/ (\E s \in Sids : GetExpired(s)) \/ GetUnknown \/ DropRow
              \/ IdsUsedUp \/ InsertRow \/ OtherAction \/ StoreRow \/ Logout
              \/ LogoutRow \/ LogoutMem \/ LeaveLoop
    BY <2>4 DEF GetExpired, GetUnknown, DropRow, IdsUsedUp, InsertRow,
                OtherAction, StoreRow, Logout, LogoutRow, LogoutMem,
                LeaveLoop, IInv, IsLive, Return, RowOf, TypeOK, LeaseInv,
                ClockInv, UsedInv, DoomedInv, DownInv, Entry, Sids, LeaseOf,
                reqVars, timerVars, scanVars, Becomes, Held, HeldInv
  <2> QED
    BY <1>1, <2>1, <2>2, <2>3, <2>4 DEF Request
<1>2. CASE Timer
  <2>1. CASE SweepErase
    <3> SUFFICES ASSUME rpc \in {"insert", "handle", "store"}
                 PROVE  Held(cur)' # None /\ Held(cur)' = Held(cur)
      BY <2>1 DEF SweepErase, IInv, LeaseInv, reqVars
    <3>1. cur \in Sids /\ sit \in Sids /\ cur' = cur
      BY <2>1 DEF SweepErase, IInv, TypeOK, UsedInv, HeldInv, reqVars
    <3>2. Held(cur) # None
      BY DEF IInv, LeaseInv
    <3>3. cur # sp
      BY <2>1, InUseApart DEF SweepErase
    <3>4. CASE cur # sit
      BY <2>1, <3>1, <3>2, <3>4 DEF SweepErase, Held, IInv, TypeOK
    <3>5. CASE cur = sit
      BY <2>1, <3>1, <3>2, <3>3, <3>5 DEF SweepErase, Held, IInv, TypeOK,
                                          DoomedInv
    <3> QED BY <3>4, <3>5
  <2>2. CASE \/ PeriodicSweep \/ FinalSweep \/ Visit \/ SweepRow
              \/ EndSweep
    BY <2>2 DEF PeriodicSweep, FinalSweep, Visit, SweepRow, EndSweep, IInv,
                StartSweep, Following, IsExpired, TypeOK, LeaseInv, ClockInv,
                UsedInv, DoomedInv, DownInv, Entry, Sids, LeaseOf, reqVars,
                timerVars, scanVars, After, MayFindExpired, MayFindLive, Held,
                HeldInv
  <2> QED
    BY <1>2, <2>1, <2>2 DEF Timer
<1>3. CASE Process
  BY <1>3 DEF Process, IInv, Tick, Stop, Exit, Crash, Start, Down, Return,
              KeepRow, TypeOK, LeaseInv, ClockInv, UsedInv, DoomedInv,
              DownInv, Entry, Sids, LeaseOf, reqVars, timerVars, scanVars,
              Held, HeldInv
<1>4. CASE UNCHANGED vars
  BY <1>4 DEF vars, IInv, reqVars, timerVars, scanVars, TypeOK, LeaseInv,
              ClockInv, UsedInv, DoomedInv, DownInv, Entry, Sids, LeaseOf,
              Held, HeldInv
<1> QED BY <1>1, <1>2, <1>3, <1>4 DEF Next

(* No request prolongs a session the sweep has found expired: get_session  *)
(* no longer returns it.                                                   *)
LEMMA DoomedInvStep == ASSUME IInv, [Next]_vars PROVE DoomedInv'
<1> USE SessionStoreAssumption
<1>1. CASE Request
  <2>1. CASE \E s \in Sids : GetLive(s)
    BY <2>1 DEF GetLive, IsLive, LeaseOf, IInv, TypeOK, DoomedInv, LeaseInv,
                UsedInv, ClockInv, DownInv, Entry, Sids, End, reqVars,
                timerVars, scanVars, Held, HeldInv, GoneInv
  <2>2. CASE \E s \in Sids : CreateEntry(s)
    BY <2>2 DEF CreateEntry, IInv, TypeOK, DoomedInv, LeaseInv, UsedInv,
                ClockInv, DownInv, Entry, Sids, End, LeaseOf, reqVars,
                timerVars, scanVars, NodeFor, Held, HeldInv, GoneInv
  <2>3. CASE \E u \in Users : Login(u)
    BY <2>3 DEF Login, IInv, TypeOK, DoomedInv, LeaseInv, UsedInv, ClockInv,
                DownInv, Entry, Sids, End, LeaseOf, reqVars, timerVars,
                scanVars, Becomes, Held, HeldInv, GoneInv
  <2>4. CASE Logout
    BY <2>4 DEF Logout, IInv, TypeOK, DoomedInv, LeaseInv, UsedInv, ClockInv,
                DownInv, Entry, Sids, End, LeaseOf, reqVars, timerVars,
                scanVars, Becomes, Held, HeldInv, GoneInv
  <2>5. CASE \/ (\E s \in Sids : GetExpired(s)) \/ GetUnknown \/ DropRow
              \/ IdsUsedUp \/ InsertRow \/ OtherAction \/ StoreRow
              \/ LogoutRow \/ LogoutMem \/ LeaveLoop
    BY <2>5 DEF GetExpired, GetUnknown, DropRow, IdsUsedUp, InsertRow,
                OtherAction, StoreRow, LogoutRow, LogoutMem, LeaveLoop, IInv,
                IsLive, Return, RowOf, TypeOK, DoomedInv, LeaseInv, UsedInv,
                ClockInv, DownInv, Entry, Sids, End, LeaseOf, reqVars,
                timerVars, scanVars, Held, HeldInv, GoneInv
  <2> QED
    BY <1>1, <2>1, <2>2, <2>3, <2>4, <2>5 DEF Request
<1>2. CASE Timer
  <2>1. CASE Visit
    BY <2>1 DEF Visit, Following, IsExpired, IInv, TypeOK, DoomedInv,
                LeaseInv, UsedInv, ClockInv, DownInv, Entry, Sids, End,
                LeaseOf, reqVars, timerVars, scanVars, After, MayFindExpired,
                MayFindLive, Held, HeldInv, GoneInv
  <2>2. CASE \/ PeriodicSweep \/ FinalSweep \/ SweepRow \/ SweepErase
              \/ EndSweep
    BY <2>2 DEF PeriodicSweep, FinalSweep, SweepRow, SweepErase, EndSweep,
                IInv, StartSweep, Following, TypeOK, DoomedInv, LeaseInv,
                UsedInv, ClockInv, DownInv, Entry, Sids, End, LeaseOf,
                reqVars, timerVars, scanVars, Held, HeldInv, GoneInv
  <2> QED
    BY <1>2, <2>1, <2>2 DEF Timer
<1>3. CASE Process
  <2>1. CASE \E v \in 1..MaxBuild : Start(v)
    BY <2>1 DEF Start, KeepRow, IInv, TypeOK, DoomedInv, LeaseInv, UsedInv,
                ClockInv, DownInv, Entry, Sids, End, LeaseOf, reqVars,
                timerVars, scanVars, Held, HeldInv, GoneInv
  <2>2. CASE Tick \/ Stop \/ Exit \/ Crash
    BY <2>2 DEF Tick, Stop, Exit, Crash, IInv, Down, Return, TypeOK,
                DoomedInv, LeaseInv, UsedInv, ClockInv, DownInv, Entry, Sids,
                End, LeaseOf, reqVars, timerVars, scanVars, Held, HeldInv,
                GoneInv
  <2> QED
    BY <1>3, <2>1, <2>2 DEF Process
<1>4. CASE UNCHANGED vars
  BY <1>4 DEF vars, IInv, reqVars, timerVars, scanVars, TypeOK, DoomedInv,
              LeaseInv, UsedInv, ClockInv, DownInv, Entry, Sids, End, LeaseOf,
              Held, HeldInv, GoneInv
<1> QED BY <1>1, <1>2, <1>3, <1>4 DEF Next

(* What is inserted or prolonged behind the iterator outlives the start of *)
(* the sweep, and a logout expires its session later than that start.      *)
LEMMA SweptInvStep == ASSUME IInv, [Next]_vars PROVE SweptInv'
<1> USE SessionStoreAssumption
<1>1. CASE Request
  <2>1. CASE \E s \in Sids : GetLive(s)
    BY <2>1 DEF GetLive, IsLive, LeaseOf, IInv, TypeOK, SweptInv, LeaseInv,
                DownInv, UsedInv, ClockInv, LiveKeys, Entry, Sids, End,
                reqVars, timerVars, scanVars, Held, HeldInv, DoomedInv
  <2>2. CASE \E s \in Sids : CreateEntry(s)
    BY <2>2 DEF CreateEntry, IInv, TypeOK, SweptInv, LeaseInv, DownInv,
                UsedInv, ClockInv, LiveKeys, Entry, Sids, End, LeaseOf,
                reqVars, timerVars, scanVars, NodeFor, Held, HeldInv,
                DoomedInv
  <2>3. CASE \E u \in Users : Login(u)
    BY <2>3 DEF Login, IInv, TypeOK, SweptInv, LeaseInv, DownInv, UsedInv,
                ClockInv, LiveKeys, Entry, Sids, End, LeaseOf, reqVars,
                timerVars, scanVars, Becomes, Held, HeldInv, DoomedInv
  <2>4. CASE Logout
    BY <2>4 DEF Logout, IInv, TypeOK, SweptInv, LeaseInv, DownInv, UsedInv,
                ClockInv, LiveKeys, Entry, Sids, End, LeaseOf, reqVars,
                timerVars, scanVars, Becomes, Held, HeldInv, DoomedInv
  <2>5. CASE (\E s \in Sids : GetExpired(s)) \/ LogoutMem
    BY <2>5 DEF GetExpired, LogoutMem, IInv, TypeOK, SweptInv, UsedInv,
                LiveKeys, timerVars, scanVars
  <2>6. CASE \/ GetUnknown \/ DropRow \/ IdsUsedUp \/ InsertRow
              \/ OtherAction \/ StoreRow \/ LogoutRow \/ LeaveLoop
    BY <2>6 DEF GetUnknown, DropRow, IdsUsedUp, InsertRow, OtherAction,
                StoreRow, LogoutRow, LeaveLoop, IInv, SweptInv, LiveKeys,
                timerVars, scanVars
  <2> QED
    BY <1>1, <2>1, <2>2, <2>3, <2>4, <2>5, <2>6 DEF Request
<1>2. CASE Timer
  <2>1. CASE PeriodicSweep
    BY <2>1 DEF PeriodicSweep, StartSweep, Following, IInv, TypeOK, SweptInv,
                LeaseInv, DownInv, UsedInv, ClockInv, LiveKeys, Entry, Sids,
                End, LeaseOf, reqVars, timerVars, scanVars, Held, HeldInv,
                DoomedInv
  <2>2. CASE FinalSweep
    BY <2>2 DEF FinalSweep, StartSweep, Following, IInv, TypeOK, SweptInv,
                LeaseInv, DownInv, UsedInv, ClockInv, LiveKeys, Entry, Sids,
                End, LeaseOf, reqVars, timerVars, scanVars, Held, HeldInv,
                DoomedInv
  <2>3. CASE Visit
    <3> SUFFICES ASSUME ~strayed', NEW s \in Sids, mem[s] # None, s < it'
                 PROVE  \/ mem[s].expired >= tnow
                        \/ tpc' \in {"row", "erase"} /\ s = sp'
      BY <2>3 DEF Visit, SweptInv, LiveKeys
    <3>1. mem[it] # None /\ ~strayed /\ it \in Sids /\ it' \in Following(it)
      <4>1. mem[it] # None /\ ~strayed
        BY <2>3, Zenon DEF Visit
      <4> QED BY <2>3, <4>1 DEF Visit, After, IInv, TypeOK, Sids, End
    <3>2. s <= it
      BY <3>1 DEF Following, IInv, TypeOK, Sids, End
    <3>3. CASE s < it
      BY <2>3, <3>1, <3>3 DEF Visit, IInv, SweptInv, LiveKeys
    <3>4. CASE s = it
      BY <2>3, <3>1, <3>4 DEF Visit, MayFindExpired, MayFindLive, IsExpired,
                              Held, IInv, TypeOK, Entry
    <3> QED BY <3>1, <3>2, <3>3, <3>4 DEF Sids
  <2>4. CASE SweepErase
    BY <2>4 DEF SweepErase, IInv, TypeOK, SweptInv, LeaseInv, DownInv,
                UsedInv, ClockInv, LiveKeys, Entry, Sids, End, LeaseOf,
                reqVars, timerVars, scanVars, Held, HeldInv, DoomedInv
  <2>5. CASE SweepRow \/ EndSweep
    BY <2>5 DEF SweepRow, EndSweep, IInv, TypeOK, SweptInv, LeaseInv, DownInv,
                UsedInv, ClockInv, LiveKeys, Entry, Sids, End, LeaseOf,
                reqVars, timerVars, scanVars, Held, HeldInv, DoomedInv
  <2> QED
    BY <1>2, <2>1, <2>2, <2>3, <2>4, <2>5 DEF Timer
<1>3. CASE Process
  <2>1. CASE \E v \in 1..MaxBuild : Start(v)
    BY <2>1 DEF Start, KeepRow, IInv, TypeOK, SweptInv, LeaseInv, DownInv,
                UsedInv, ClockInv, LiveKeys, Entry, Sids, End, LeaseOf,
                reqVars, timerVars, scanVars, Held, HeldInv, DoomedInv
  <2>2. CASE Tick \/ Stop \/ Exit \/ Crash
    BY <2>2 DEF Tick, Stop, Exit, Crash, IInv, Down, Return, TypeOK, SweptInv,
                LeaseInv, DownInv, UsedInv, ClockInv, LiveKeys, Entry, Sids,
                End, LeaseOf, reqVars, timerVars, scanVars, Held, HeldInv,
                DoomedInv
  <2> QED
    BY <1>3, <2>1, <2>2 DEF Process
<1>4. CASE UNCHANGED vars
  BY <1>4 DEF vars, IInv, reqVars, timerVars, scanVars, TypeOK, SweptInv,
              LeaseInv, DownInv, UsedInv, ClockInv, LiveKeys, Entry, Sids,
              End, LeaseOf, Held, HeldInv, DoomedInv
<1> QED BY <1>1, <1>2, <1>3, <1>4 DEF Next

(* The second step of a removal or an insertion finds what the first one   *)
(* left.                                                                   *)
LEMMA PendingInvStep == ASSUME IInv, [Next]_vars PROVE PendingInv'
<1> USE SessionStoreAssumption
<1>1. CASE Request
  <2>1. CASE \E s \in Sids : GetExpired(s)
    BY <2>1 DEF GetExpired, IsLive, IInv, TypeOK, PendingInv, UsedInv,
                ClockInv, LeaseInv, DoomedInv, DownInv, Entry, Sids, End,
                reqVars, timerVars, scanVars, Held, HeldInv, GoneInv,
                TableMatchesMap
  <2>2. CASE \E s \in Sids : CreateEntry(s)
    BY <2>2 DEF CreateEntry, IInv, TypeOK, PendingInv, UsedInv, ClockInv,
                LeaseInv, DoomedInv, DownInv, Entry, Sids, End, reqVars,
                timerVars, scanVars, NodeFor, Held, HeldInv, GoneInv,
                TableMatchesMap
  <2>3. CASE InsertRow
    <3>1. cur \in Sids /\ told[cur] = None /\ Held(cur) \in Entry
          /\ (tpc = "erase" => sp \in Sids /\ sp # cur)
      BY <2>3, InUseApart DEF InsertRow, IInv, TypeOK, HeldInv, PendingInv
    <3>2. db'[cur] # None
      BY <2>3, <3>1 DEF InsertRow, RowOf, IInv, TypeOK, Entry, Row
    <3> QED
      BY <2>3, <3>1, <3>2 DEF InsertRow, IInv, TypeOK, PendingInv, timerVars,
                              scanVars
  <2>4. CASE StoreRow
    BY <2>4 DEF StoreRow, Return, RowOf, IInv, TypeOK, PendingInv, UsedInv,
                ClockInv, LeaseInv, DoomedInv, DownInv, Entry, Sids, End,
                reqVars, timerVars, scanVars, Held, HeldInv, GoneInv,
                TableMatchesMap
  <2>5. CASE Logout
    BY <2>5 DEF Logout, IInv, TypeOK, PendingInv, UsedInv, ClockInv, LeaseInv,
                DoomedInv, DownInv, Entry, Sids, End, reqVars, timerVars,
                scanVars, Becomes, Held, HeldInv, GoneInv, TableMatchesMap
  <2>6. CASE LogoutRow
    BY <2>6 DEF LogoutRow, IInv, TypeOK, PendingInv, UsedInv, ClockInv,
                LeaseInv, DoomedInv, DownInv, Entry, Sids, End, reqVars,
                timerVars, scanVars, Held, HeldInv, GoneInv, TableMatchesMap
  <2>7. CASE \E u \in Users : Login(u)
    BY <2>7 DEF Login, IInv, TypeOK, PendingInv, timerVars, scanVars
  <2>8. CASE \/ (\E s \in Sids : GetLive(s)) \/ GetUnknown \/ DropRow
              \/ IdsUsedUp \/ OtherAction \/ LogoutMem \/ LeaveLoop
    <3>2. tpc = "erase" => db'[sp] = None
      BY <2>8 DEF GetLive, GetUnknown, DropRow, IdsUsedUp, OtherAction,
                  LogoutMem, LeaveLoop, IInv, TypeOK, PendingInv, HeldInv
    <3>3. CASE \E s \in Sids : GetLive(s)
      BY <3>2, <3>3 DEF GetLive, IInv, TypeOK, PendingInv, DownInv, HeldInv,
                        TableMatchesMap, DoomedInv, GoneInv, IsLive, ClockInv,
                        Held, Entry, timerVars, scanVars, Taken
    <3>4. CASE \/ GetUnknown \/ DropRow \/ IdsUsedUp \/ OtherAction
                \/ LogoutMem \/ LeaveLoop
      BY <3>2, <3>4 DEF GetUnknown, DropRow, IdsUsedUp, OtherAction,
                        LogoutMem, LeaveLoop, Return, timerVars, scanVars,
                        PendingInv
    <3> QED BY <2>8, <3>3, <3>4
  <2> QED
    BY <1>1, <2>1, <2>2, <2>3, <2>4, <2>5, <2>6, <2>7, <2>8 DEF Request
<1>2. CASE Timer
  <2>1. CASE SweepRow
    BY <2>1 DEF SweepRow, IInv, TypeOK, PendingInv, UsedInv, ClockInv,
                LeaseInv, DoomedInv, DownInv, Entry, Sids, End, reqVars,
                timerVars, scanVars, Held, HeldInv, GoneInv, TableMatchesMap
  <2>2. CASE SweepErase
    BY <2>2 DEF SweepErase, IInv, TypeOK, PendingInv, UsedInv, ClockInv,
                LeaseInv, DoomedInv, DownInv, Entry, Sids, End, reqVars,
                timerVars, scanVars, Held, HeldInv, GoneInv, TableMatchesMap
  <2>3. CASE PeriodicSweep \/ FinalSweep \/ Visit \/ EndSweep
    BY <2>3 DEF PeriodicSweep, FinalSweep, Visit, EndSweep, IInv, StartSweep,
                Following, IsExpired, TypeOK, PendingInv, UsedInv, ClockInv,
                LeaseInv, DoomedInv, DownInv, Entry, Sids, End, reqVars,
                timerVars, scanVars, After, MayFindExpired, MayFindLive, Held,
                HeldInv, GoneInv, TableMatchesMap
  <2> QED
    BY <1>2, <2>1, <2>2, <2>3 DEF Timer
<1>3. CASE Process
  BY <1>3 DEF Process, IInv, Tick, Stop, Exit, Crash, Start, Down, Return,
              KeepRow, TypeOK, PendingInv, UsedInv, ClockInv, LeaseInv,
              DoomedInv, DownInv, Entry, Sids, End, reqVars, timerVars,
              scanVars, Held, HeldInv, GoneInv, TableMatchesMap
<1>4. CASE UNCHANGED vars
  BY <1>4 DEF vars, IInv, reqVars, timerVars, scanVars, TypeOK, PendingInv,
              UsedInv, ClockInv, LeaseInv, DoomedInv, DownInv, Entry, Sids,
              End, Held, HeldInv, GoneInv, TableMatchesMap
<1> QED BY <1>1, <1>2, <1>3, <1>4 DEF Next

(* Expiries are the clock plus a lease, and a lease only grows with a      *)
(* login.                                                                  *)
LEMMA BoundInvStep == ASSUME IInv, [Next]_vars PROVE BoundInv'
<1> USE SessionStoreAssumption
<1>1. CASE Request
  <2>1. CASE \E s \in Sids : GetLive(s)
    BY <2>1 DEF GetLive, IsLive, LeaseOf, IInv, TypeOK, BoundInv, ClockInv,
                LeaseInv, UsedInv, Entry, Row, Sids, EmptyMap, reqVars,
                timerVars, scanVars, Held
  <2>2. CASE \E s \in Sids : CreateEntry(s)
    BY <2>2 DEF CreateEntry, IInv, TypeOK, BoundInv, ClockInv, LeaseOf,
                LeaseInv, UsedInv, Entry, Row, Sids, EmptyMap, reqVars,
                timerVars, scanVars, NodeFor, Held
  <2>3. CASE \E u \in Users : Login(u)
    BY <2>3 DEF Login, IInv, TypeOK, BoundInv, ClockInv, LeaseOf, LeaseInv,
                UsedInv, Entry, Row, Sids, EmptyMap, reqVars, timerVars,
                scanVars, Becomes, Held
  <2>4. CASE InsertRow
    BY <2>4 DEF InsertRow, RowOf, IInv, TypeOK, BoundInv, ClockInv, LeaseOf,
                LeaseInv, UsedInv, Entry, Row, Sids, EmptyMap, reqVars,
                timerVars, scanVars, Held
  <2>5. CASE StoreRow
    BY <2>5 DEF StoreRow, Return, RowOf, IInv, TypeOK, BoundInv, ClockInv,
                LeaseOf, LeaseInv, UsedInv, Entry, Row, Sids, EmptyMap,
                reqVars, timerVars, scanVars, Held
  <2>6. CASE Logout
    BY <2>6 DEF Logout, Becomes, Held, LeaseOf, IInv, TypeOK, BoundInv,
                UsedInv, Entry
  <2>7. CASE (\E s \in Sids : GetExpired(s)) \/ LogoutMem
    BY <2>7 DEF GetExpired, LogoutMem, Held, IInv, TypeOK, BoundInv, GoneInv,
                UsedInv
  <2>8. CASE DropRow \/ LogoutRow
    BY <2>8 DEF DropRow, LogoutRow, Held, IInv, TypeOK, BoundInv, UsedInv
  <2>9. CASE GetUnknown \/ IdsUsedUp \/ OtherAction \/ LeaveLoop
    BY <2>9 DEF GetUnknown, IdsUsedUp, OtherAction, LeaveLoop, Held, IInv,
                BoundInv
  <2> QED
    BY <1>1, <2>1, <2>2, <2>3, <2>4, <2>5, <2>6, <2>7, <2>8, <2>9 DEF Request
<1>2. CASE Timer
  <2>1. CASE SweepErase
    BY <2>1 DEF SweepErase, Held, IInv, TypeOK, BoundInv, GoneInv, HeldInv
  <2>2. CASE SweepRow
    BY <2>2 DEF SweepRow, Held, IInv, TypeOK, BoundInv, HeldInv
  <2>3. CASE PeriodicSweep \/ FinalSweep \/ Visit \/ EndSweep
    BY <2>3 DEF PeriodicSweep, FinalSweep, StartSweep, Visit, EndSweep, Held,
                IInv, BoundInv
  <2> QED BY <1>2, <2>1, <2>2, <2>3 DEF Timer
<1>3. CASE Process
  <2>1. CASE Tick
    BY <2>1 DEF Tick, IInv, TypeOK, BoundInv, ClockInv, LeaseOf, LeaseInv,
                UsedInv, Entry, Row, Sids, EmptyMap, reqVars, timerVars,
                scanVars, Held
  <2>2. CASE \E v \in 1..MaxBuild : Start(v)
    <3>1. gone' = EmptyMap /\ now' = now
      BY <2>2 DEF Start, IInv, DownInv
    <3>2. \A s \in Sids : mem'[s] # None =>
            /\ mem'[s] = [expired |-> db[s].expired, user |-> db[s].user]
            /\ db[s] # None
      BY <2>2 DEF Start
    <3>3. \A s \in Sids : db'[s] # None => db'[s] = db[s]
      BY <2>2 DEF Start
    <3>4. ASSUME NEW s \in Sids, mem'[s] # None
          PROVE  mem'[s].expired <= now + LeaseOf(mem'[s].user)
      <4>1. db[s] # None
            /\ mem'[s] = [expired |-> db[s].expired, user |-> db[s].user]
        BY <3>2, <3>4
      <4>2. db[s].expired <= now + LeaseOf(db[s].user)
        BY <4>1 DEF IInv, BoundInv
      <4>3. mem'[s].expired = db[s].expired /\ mem'[s].user = db[s].user
        BY <4>1
      <4> QED BY <4>2, <4>3
    <3>5. ASSUME NEW s \in Sids, db'[s] # None
          PROVE  db'[s].expired <= now + LeaseOf(db'[s].user)
      BY <3>3, <3>5 DEF LeaseOf, IInv, BoundInv
    <3>6. \A s \in Sids : Held(s)' = mem'[s]
      BY <3>1 DEF Held, EmptyMap
    <3> QED
      BY <3>1, <3>4, <3>5, <3>6 DEF BoundInv, LeaseOf
  <2>3. CASE Stop \/ Exit \/ Crash
    BY <2>3 DEF Stop, Exit, Crash, IInv, Down, Return, TypeOK, BoundInv,
                ClockInv, LeaseOf, LeaseInv, UsedInv, Entry, Row, Sids,
                EmptyMap, reqVars, timerVars, scanVars, Held
  <2> QED
    BY <1>3, <2>1, <2>2, <2>3 DEF Process
<1>4. CASE UNCHANGED vars
  BY <1>4 DEF vars, IInv, reqVars, timerVars, scanVars, TypeOK, BoundInv,
              ClockInv, LeaseOf, LeaseInv, UsedInv, Entry, Row, Sids,
              EmptyMap, Held
<1> QED BY <1>1, <1>2, <1>3, <1>4 DEF Next

(* Only a login that is answered writes a row over a row.                  *)
LEMMA AnswerInvStep == ASSUME IInv, [Next]_vars PROVE AnswerInv'
<1> USE SessionStoreAssumption
<1>1. CASE Request
  <2>1. CASE \E s \in Sids : CreateEntry(s)
    BY <2>1 DEF CreateEntry, IInv, TypeOK, AnswerInv, LeaseInv, PendingInv,
                UsedInv, Entry, Row, Answer, Sids, reqVars, timerVars,
                scanVars, NodeFor, Held
  <2>2. CASE DropRow
    BY <2>2 DEF DropRow, IInv, TypeOK, AnswerInv, LeaseInv, PendingInv,
                UsedInv, Entry, Row, Answer, Sids, reqVars, timerVars,
                scanVars, Held
  <2>3. CASE InsertRow
    BY <2>3 DEF InsertRow, RowOf, IInv, TypeOK, AnswerInv, LeaseInv,
                PendingInv, UsedInv, Entry, Row, Answer, Sids, reqVars,
                timerVars, scanVars, Held
  <2>4. CASE StoreRow
    BY <2>4 DEF StoreRow, Return, RowOf, IInv, TypeOK, AnswerInv, LeaseInv,
                PendingInv, UsedInv, Entry, Row, Answer, Sids, reqVars,
                timerVars, scanVars, Held
  <2>5. CASE Logout
    BY <2>5 DEF Logout, IInv, TypeOK, AnswerInv, LeaseInv, PendingInv,
                UsedInv, Entry, Row, Answer, Sids, reqVars, timerVars,
                scanVars, Becomes, Held
  <2>6. CASE LogoutRow
    BY <2>6 DEF LogoutRow, IInv, TypeOK, AnswerInv, LeaseInv, PendingInv,
                UsedInv, Entry, Row, Answer, Sids, reqVars, timerVars,
                scanVars, Held
  <2>7. CASE LogoutMem
    BY <2>7 DEF LogoutMem, Return, IInv, TypeOK, AnswerInv, LeaseInv,
                PendingInv, UsedInv, Entry, Row, Answer, Sids, reqVars,
                timerVars, scanVars, Held
  <2>8. CASE \/ (\E s \in Sids : GetLive(s))
              \/ (\E s \in Sids : GetExpired(s))
              \/ (\E u \in Users : Login(u)) \/ GetUnknown \/ IdsUsedUp
              \/ OtherAction \/ LeaveLoop
    BY <2>8 DEF GetLive, GetExpired, Login, GetUnknown, IdsUsedUp,
                OtherAction, LeaveLoop, IInv, AnswerInv
  <2> QED
    BY <1>1, <2>1, <2>2, <2>3, <2>4, <2>5, <2>6, <2>7, <2>8 DEF Request
<1>2. CASE Timer
  <2>1. CASE PeriodicSweep
    BY <2>1 DEF PeriodicSweep, StartSweep, Following, IInv, TypeOK, AnswerInv,
                LeaseInv, PendingInv, UsedInv, Entry, Row, Answer, Sids,
                reqVars, timerVars, scanVars, Held
  <2>2. CASE FinalSweep
    BY <2>2 DEF FinalSweep, StartSweep, Following, IInv, TypeOK, AnswerInv,
                LeaseInv, PendingInv, UsedInv, Entry, Row, Answer, Sids,
                reqVars, timerVars, scanVars, Held
  <2>3. CASE Visit
    BY <2>3 DEF Visit, Following, IsExpired, IInv, TypeOK, AnswerInv,
                LeaseInv, PendingInv, UsedInv, Entry, Row, Answer, Sids,
                reqVars, timerVars, scanVars, After, MayFindExpired,
                MayFindLive, Held
  <2>4. CASE SweepRow
    BY <2>4 DEF SweepRow, IInv, TypeOK, AnswerInv, LeaseInv, PendingInv,
                UsedInv, Entry, Row, Answer, Sids, reqVars, timerVars,
                scanVars, Held
  <2>5. CASE SweepErase \/ EndSweep
    BY <2>5 DEF SweepErase, EndSweep, IInv, TypeOK, AnswerInv, LeaseInv,
                PendingInv, UsedInv, Entry, Row, Answer, Sids, reqVars,
                timerVars, scanVars, Held
  <2> QED
    BY <1>2, <2>1, <2>2, <2>3, <2>4, <2>5 DEF Timer
<1>3. CASE Process
  <2>1. CASE Exit
    BY <2>1 DEF Exit, Down, Return, IInv, TypeOK, AnswerInv, LeaseInv,
                PendingInv, UsedInv, Entry, Row, Answer, Sids, reqVars,
                timerVars, scanVars, Held
  <2>2. CASE Crash
    BY <2>2 DEF Crash, Down, Return, IInv, TypeOK, AnswerInv, LeaseInv,
                PendingInv, UsedInv, Entry, Row, Answer, Sids, reqVars,
                timerVars, scanVars, Held
  <2>3. CASE \E v \in 1..MaxBuild : Start(v)
    BY <2>3 DEF Start, KeepRow, IInv, TypeOK, AnswerInv, LeaseInv, PendingInv,
                UsedInv, Entry, Row, Answer, Sids, reqVars, timerVars,
                scanVars, Held
  <2>4. CASE Tick \/ Stop
    BY <2>4 DEF Tick, Stop, IInv, TypeOK, AnswerInv, LeaseInv, PendingInv,
                UsedInv, Entry, Row, Answer, Sids, reqVars, timerVars,
                scanVars, Held
  <2> QED
    BY <1>3, <2>1, <2>2, <2>3, <2>4 DEF Process
<1>4. CASE UNCHANGED vars
  BY <1>4 DEF vars, IInv, reqVars, timerVars, scanVars, TypeOK, AnswerInv,
              LeaseInv, PendingInv, UsedInv, Entry, Row, Answer, Sids, Held
<1> QED BY <1>1, <1>2, <1>3, <1>4 DEF Next

(* Every step that changes one of map and table for a key is between the   *)
(* two steps of an operation on that key.                                  *)
LEMMA TableMatchesMapStep == ASSUME IInv, [Next]_vars PROVE TableMatchesMap'
<1> USE SessionStoreAssumption
<1>1. CASE Request
  <2>1. CASE \E s \in Sids : GetLive(s)
    BY <2>1 DEF GetLive, IsLive, LeaseOf, IInv, TypeOK, TableMatchesMap,
                PendingInv, LeaseInv, UsedInv, DownInv, LogoutFinal, Entry,
                Row, Sids, EmptyMap, reqVars, timerVars, scanVars, Held,
                HeldInv, GoneInv, DoomedInv, Taken
  <2>2. CASE \E s \in Sids : GetExpired(s)
    BY <2>2 DEF GetExpired, IsLive, IInv, TypeOK, TableMatchesMap, PendingInv,
                LeaseInv, UsedInv, DownInv, LogoutFinal, Entry, Row, Sids,
                EmptyMap, reqVars, timerVars, scanVars, Held, HeldInv,
                GoneInv, DoomedInv, Taken
  <2>3. CASE \E s \in Sids : CreateEntry(s)
    BY <2>3 DEF CreateEntry, IInv, TypeOK, TableMatchesMap, PendingInv,
                LeaseInv, UsedInv, DownInv, LogoutFinal, Entry, Row, Sids,
                EmptyMap, reqVars, timerVars, scanVars, NodeFor, Held,
                HeldInv, GoneInv, DoomedInv, Taken
  <2>4. CASE \E u \in Users : Login(u)
    BY <2>4 DEF Login, IInv, TypeOK, TableMatchesMap, PendingInv, LeaseInv,
                UsedInv, DownInv, LogoutFinal, Entry, Row, Sids, EmptyMap,
                reqVars, timerVars, scanVars, Becomes, Held, HeldInv, GoneInv,
                DoomedInv, Taken
  <2>5. CASE DropRow
    BY <2>5 DEF DropRow, IInv, TypeOK, TableMatchesMap, PendingInv, LeaseInv,
                UsedInv, DownInv, LogoutFinal, Entry, Row, Sids, EmptyMap,
                reqVars, timerVars, scanVars, Held, HeldInv, GoneInv,
                DoomedInv, Taken
  <2>6. CASE InsertRow
    BY <2>6 DEF InsertRow, RowOf, IInv, TypeOK, TableMatchesMap, PendingInv,
                LeaseInv, UsedInv, DownInv, LogoutFinal, Entry, Row, Sids,
                EmptyMap, reqVars, timerVars, scanVars, Held, HeldInv,
                GoneInv, DoomedInv, Taken
  <2>7. CASE StoreRow
    BY <2>7 DEF StoreRow, Return, RowOf, IInv, TypeOK, TableMatchesMap,
                PendingInv, LeaseInv, UsedInv, DownInv, LogoutFinal, Entry,
                Row, Sids, EmptyMap, reqVars, timerVars, scanVars, Held,
                HeldInv, GoneInv, DoomedInv, Taken
  <2>8. CASE Logout
    BY <2>8 DEF Logout, IInv, TypeOK, TableMatchesMap, PendingInv, LeaseInv,
                UsedInv, DownInv, LogoutFinal, Entry, Row, Sids, EmptyMap,
                reqVars, timerVars, scanVars, Becomes, Held, HeldInv, GoneInv,
                DoomedInv, Taken
  <2>9. CASE LogoutRow
    BY <2>9 DEF LogoutRow, IInv, TypeOK, TableMatchesMap, PendingInv,
                LeaseInv, UsedInv, DownInv, LogoutFinal, Entry, Row, Sids,
                EmptyMap, reqVars, timerVars, scanVars, Held, HeldInv,
                GoneInv, DoomedInv, Taken
  <2>10. CASE LogoutMem
    BY <2>10 DEF LogoutMem, Return, IInv, TypeOK, TableMatchesMap, PendingInv,
                 LeaseInv, UsedInv, DownInv, LogoutFinal, Entry, Row, Sids,
                 EmptyMap, reqVars, timerVars, scanVars, Held, HeldInv,
                 GoneInv, DoomedInv, Taken
  <2>11. CASE GetUnknown \/ IdsUsedUp \/ OtherAction \/ LeaveLoop
    BY <2>11 DEF GetUnknown, IdsUsedUp, OtherAction, LeaveLoop, IInv, Return,
                 TypeOK, TableMatchesMap, PendingInv, LeaseInv, UsedInv,
                 DownInv, LogoutFinal, Entry, Row, Sids, EmptyMap, reqVars,
                 timerVars, scanVars, Held, HeldInv, GoneInv, DoomedInv, Taken
  <2> QED
    BY <1>1, <2>1, <2>2, <2>3, <2>4, <2>5, <2>6, <2>7, <2>8, <2>9, <2>10,
       <2>11 DEF Request
<1>2. CASE Timer
  <2>1. CASE Visit
    BY <2>1 DEF Visit, Following, IsExpired, IInv, TypeOK, TableMatchesMap,
                PendingInv, LeaseInv, UsedInv, DownInv, LogoutFinal, Entry,
                Row, Sids, EmptyMap, reqVars, timerVars, scanVars, After,
                MayFindExpired, MayFindLive, Held, HeldInv, GoneInv,
                DoomedInv, Taken
  <2>2. CASE SweepRow
    BY <2>2 DEF SweepRow, IInv, TypeOK, TableMatchesMap, PendingInv, LeaseInv,
                UsedInv, DownInv, LogoutFinal, Entry, Row, Sids, EmptyMap,
                reqVars, timerVars, scanVars, Held, HeldInv, GoneInv,
                DoomedInv, Taken
  <2>3. CASE SweepErase
    BY <2>3 DEF SweepErase, IInv, TypeOK, TableMatchesMap, PendingInv,
                LeaseInv, UsedInv, DownInv, LogoutFinal, Entry, Row, Sids,
                EmptyMap, reqVars, timerVars, scanVars, Held, HeldInv,
                GoneInv, DoomedInv, Taken
  <2>4. CASE PeriodicSweep \/ FinalSweep \/ EndSweep
    BY <2>4 DEF PeriodicSweep, FinalSweep, EndSweep, IInv, StartSweep,
                Following, TypeOK, TableMatchesMap, PendingInv, LeaseInv,
                UsedInv, DownInv, LogoutFinal, Entry, Row, Sids, EmptyMap,
                reqVars, timerVars, scanVars, Held, HeldInv, GoneInv,
                DoomedInv, Taken
  <2> QED
    BY <1>2, <2>1, <2>2, <2>3, <2>4 DEF Timer
<1>3. CASE Process
  <2>1. CASE \E v \in 1..MaxBuild : Start(v)
    BY <2>1 DEF Start, KeepRow, IInv, TypeOK, TableMatchesMap, PendingInv,
                LeaseInv, UsedInv, DownInv, LogoutFinal, Entry, Row, Sids,
                EmptyMap, reqVars, timerVars, scanVars, Held, HeldInv,
                GoneInv, DoomedInv, Taken
  <2>2. CASE Tick \/ Stop \/ Exit \/ Crash
    BY <2>2 DEF Tick, Stop, Exit, Crash, IInv, Down, Return, TypeOK,
                TableMatchesMap, PendingInv, LeaseInv, UsedInv, DownInv,
                LogoutFinal, Entry, Row, Sids, EmptyMap, reqVars, timerVars,
                scanVars, Held, HeldInv, GoneInv, DoomedInv, Taken
  <2> QED
    BY <1>3, <2>1, <2>2 DEF Process
<1>4. CASE UNCHANGED vars
  BY <1>4 DEF vars, IInv, reqVars, timerVars, scanVars, TypeOK,
              TableMatchesMap, PendingInv, LeaseInv, UsedInv, DownInv,
              LogoutFinal, Entry, Row, Sids, EmptyMap, Held, HeldInv, GoneInv,
              DoomedInv, Taken
<1> QED BY <1>1, <1>2, <1>3, <1>4 DEF Next

(* Extensions go up, and a login or a logout is under way where map and    *)
(* row differ otherwise.                                                   *)
LEMMA RowFollowsEntryStep == ASSUME IInv, [Next]_vars PROVE RowFollowsEntry'
<1> USE SessionStoreAssumption
<1>1. CASE Request
  <2>1. CASE \E s \in Sids : GetLive(s)
    BY <2>1 DEF GetLive, IsLive, LeaseOf, IInv, TypeOK, RowFollowsEntry,
                BoundInv, ClockInv, AnswerInv, LeaseInv, PendingInv, UsedInv,
                DownInv, Entry, Row, Sids, EmptyMap, reqVars, timerVars,
                scanVars, Held
  <2>2. CASE \E s \in Sids : CreateEntry(s)
    BY <2>2 DEF CreateEntry, IInv, TypeOK, RowFollowsEntry, BoundInv,
                ClockInv, AnswerInv, LeaseInv, PendingInv, UsedInv, DownInv,
                LeaseOf, Entry, Row, Sids, EmptyMap, reqVars, timerVars,
                scanVars, NodeFor, Held
  <2>3. CASE \E u \in Users : Login(u)
    BY <2>3 DEF Login, IInv, TypeOK, RowFollowsEntry, BoundInv, ClockInv,
                AnswerInv, LeaseInv, PendingInv, UsedInv, DownInv, LeaseOf,
                Entry, Row, Sids, EmptyMap, reqVars, timerVars, scanVars,
                Becomes, Held
  <2>4. CASE InsertRow
    BY <2>4 DEF InsertRow, RowOf, IInv, TypeOK, RowFollowsEntry, BoundInv,
                ClockInv, AnswerInv, LeaseInv, PendingInv, UsedInv, DownInv,
                LeaseOf, Entry, Row, Sids, EmptyMap, reqVars, timerVars,
                scanVars, Held
  <2>5. CASE StoreRow
    BY <2>5 DEF StoreRow, Return, RowOf, IInv, TypeOK, RowFollowsEntry,
                BoundInv, ClockInv, AnswerInv, LeaseInv, PendingInv, UsedInv,
                DownInv, LeaseOf, Entry, Row, Sids, EmptyMap, reqVars,
                timerVars, scanVars, Held
  <2>6. CASE Logout
    BY <2>6 DEF Logout, IInv, TypeOK, RowFollowsEntry, BoundInv, ClockInv,
                AnswerInv, LeaseInv, PendingInv, UsedInv, DownInv, LeaseOf,
                Entry, Row, Sids, EmptyMap, reqVars, timerVars, scanVars,
                Becomes, Held
  <2>7. CASE LogoutRow
    BY <2>7 DEF LogoutRow, IInv, TypeOK, RowFollowsEntry, BoundInv, ClockInv,
                AnswerInv, LeaseInv, PendingInv, UsedInv, DownInv, LeaseOf,
                Entry, Row, Sids, EmptyMap, reqVars, timerVars, scanVars, Held
  <2>8. CASE \/ (\E s \in Sids : GetExpired(s)) \/ GetUnknown \/ DropRow
              \/ IdsUsedUp \/ OtherAction \/ LogoutMem \/ LeaveLoop
    BY <2>8, SMTT(40) DEF GetExpired, GetUnknown, DropRow, IdsUsedUp,
                          OtherAction, LogoutMem, LeaveLoop, IInv, IsLive,
                          Return, TypeOK, RowFollowsEntry, BoundInv, ClockInv,
                          AnswerInv, LeaseInv, PendingInv, UsedInv, DownInv,
                          LeaseOf, Entry, Row, Sids, EmptyMap, reqVars,
                          timerVars, scanVars, Held
  <2> QED
    BY <1>1, <2>1, <2>2, <2>3, <2>4, <2>5, <2>6, <2>7, <2>8 DEF Request
<1>2. CASE Timer
  <2>1. CASE SweepRow
    BY <2>1 DEF SweepRow, IInv, TypeOK, RowFollowsEntry, BoundInv, ClockInv,
                AnswerInv, LeaseInv, PendingInv, UsedInv, DownInv, LeaseOf,
                Entry, Row, Sids, EmptyMap, reqVars, timerVars, scanVars, Held
  <2>2. CASE SweepErase
    BY <2>2 DEF SweepErase, IInv, TypeOK, RowFollowsEntry, BoundInv, ClockInv,
                AnswerInv, LeaseInv, PendingInv, UsedInv, DownInv, LeaseOf,
                Entry, Row, Sids, EmptyMap, reqVars, timerVars, scanVars, Held
  <2>3. CASE PeriodicSweep \/ FinalSweep \/ Visit \/ EndSweep
    BY <2>3 DEF PeriodicSweep, FinalSweep, Visit, EndSweep, IInv, StartSweep,
                Following, IsExpired, TypeOK, RowFollowsEntry, BoundInv,
                ClockInv, AnswerInv, LeaseInv, PendingInv, UsedInv, DownInv,
                LeaseOf, Entry, Row, Sids, EmptyMap, reqVars, timerVars,
                scanVars, After, MayFindExpired, MayFindLive, Held
  <2> QED
    BY <1>2, <2>1, <2>2, <2>3 DEF Timer
<1>3. CASE Process
  <2>1. CASE \E v \in 1..MaxBuild : Start(v)
    <3>1. PICK v \in 1..MaxBuild : Start(v)
      BY <2>1
    <3>2. ASSUME NEW s \in Sids, mem'[s] # None
          PROVE  /\ db[s] # None /\ db'[s] = db[s]
                 /\ db[s].version <= build /\ ~(db[s].version < v)
                 /\ mem'[s] = [expired |-> db[s].expired, user |-> db[s].user]
      BY <3>1, <3>2 DEF Start, KeepRow, IInv, AnswerInv
    <3>3. v \in {build, build + 1} /\ build' = v
      BY <3>1 DEF Start
    <3>4. ASSUME NEW s \in Sids, mem'[s] # None
          PROVE  /\ db'[s].version = build'
                 /\ db'[s].user = mem'[s].user
                 /\ db'[s].expired <= mem'[s].expired
      <4>1. db[s] \in Row
        BY <3>2, <3>4 DEF IInv, TypeOK
      <4>2. /\ db'[s] = db[s] /\ db[s].version <= build /\ ~(db[s].version < v)
            /\ mem'[s] = [expired |-> db[s].expired, user |-> db[s].user]
        BY <3>2, <3>4
      <4>3. mem'[s].expired = db[s].expired /\ mem'[s].user = db[s].user
        BY <4>2
      <4>4. db[s].version = v /\ db[s].expired <= db[s].expired
        BY <3>3, <4>1, <4>2 DEF IInv, TypeOK, Row
      <4> QED BY <3>3, <4>2, <4>3, <4>4
    <3> QED
      BY <3>4 DEF RowFollowsEntry
  <2>2. CASE Tick \/ Stop \/ Exit \/ Crash
    BY <2>2 DEF Tick, Stop, Exit, Crash, IInv, Down, Return, TypeOK,
                RowFollowsEntry, BoundInv, ClockInv, AnswerInv, LeaseInv,
                PendingInv, UsedInv, DownInv, LeaseOf, Entry, Row, Sids,
                EmptyMap, reqVars, timerVars, scanVars, Held
  <2> QED
    BY <1>3, <2>1, <2>2 DEF Process
<1>4. CASE UNCHANGED vars
  BY <1>4 DEF vars, IInv, reqVars, timerVars, scanVars, TypeOK,
              RowFollowsEntry, BoundInv, ClockInv, AnswerInv, LeaseInv,
              PendingInv, UsedInv, DownInv, LeaseOf, Entry, Row, Sids,
              EmptyMap, Held
<1> QED BY <1>1, <1>2, <1>3, <1>4 DEF Next

(* A key is issued once, and only a session in the map is written.         *)
LEMMA LogoutFinalStep == ASSUME IInv, [Next]_vars PROVE LogoutFinal'
<1> USE SessionStoreAssumption
<1>1. CASE Request
  <2>1. CASE \E s \in Sids : GetLive(s)
    BY <2>1 DEF GetLive, IsLive, LeaseOf, IInv, TypeOK, LogoutFinal, LeaseInv,
                PendingInv, UsedInv, Entry, Row, Answer, Sids, EmptyMap,
                reqVars, timerVars, scanVars, Held, HeldInv
  <2>2. CASE \E s \in Sids : CreateEntry(s)
    BY <2>2 DEF CreateEntry, IInv, TypeOK, LogoutFinal, LeaseInv, PendingInv,
                UsedInv, Entry, Row, Answer, Sids, EmptyMap, reqVars,
                timerVars, scanVars, NodeFor, Held, HeldInv
  <2>3. CASE \E u \in Users : Login(u)
    BY <2>3 DEF Login, IInv, TypeOK, LogoutFinal, LeaseInv, PendingInv,
                UsedInv, Entry, Row, Answer, Sids, EmptyMap, reqVars,
                timerVars, scanVars, Becomes, Held, HeldInv
  <2>4. CASE InsertRow
    BY <2>4 DEF InsertRow, RowOf, IInv, TypeOK, LogoutFinal, LeaseInv,
                PendingInv, UsedInv, Entry, Row, Answer, Sids, EmptyMap,
                reqVars, timerVars, scanVars, Held, HeldInv
  <2>5. CASE StoreRow
    BY <2>5 DEF StoreRow, Return, RowOf, IInv, TypeOK, LogoutFinal, LeaseInv,
                PendingInv, UsedInv, Entry, Row, Answer, Sids, EmptyMap,
                reqVars, timerVars, scanVars, Held, HeldInv
  <2>6. CASE Logout
    BY <2>6 DEF Logout, IInv, TypeOK, LogoutFinal, LeaseInv, PendingInv,
                UsedInv, Entry, Row, Answer, Sids, EmptyMap, reqVars,
                timerVars, scanVars, Becomes, Held, HeldInv
  <2>7. CASE LogoutMem
    BY <2>7 DEF LogoutMem, Return, IInv, TypeOK, LogoutFinal, LeaseInv,
                PendingInv, UsedInv, Entry, Row, Answer, Sids, EmptyMap,
                reqVars, timerVars, scanVars, Held, HeldInv
  <2>8. CASE \/ (\E s \in Sids : GetExpired(s)) \/ GetUnknown \/ DropRow
              \/ IdsUsedUp \/ OtherAction \/ LogoutRow \/ LeaveLoop
    BY <2>8 DEF GetExpired, GetUnknown, DropRow, IdsUsedUp, OtherAction,
                LogoutRow, LeaveLoop, IInv, IsLive, Return, TypeOK,
                LogoutFinal, LeaseInv, PendingInv, UsedInv, Entry, Row,
                Answer, Sids, EmptyMap, reqVars, timerVars, scanVars, Held,
                HeldInv
  <2> QED
    BY <1>1, <2>1, <2>2, <2>3, <2>4, <2>5, <2>6, <2>7, <2>8 DEF Request
<1>2. CASE Timer
  BY <1>2 DEF Timer, IInv, PeriodicSweep, FinalSweep, Visit, SweepRow,
              SweepErase, EndSweep, StartSweep, Following, IsExpired, TypeOK,
              LogoutFinal, LeaseInv, PendingInv, UsedInv, Entry, Row, Answer,
              Sids, EmptyMap, reqVars, timerVars, scanVars, After,
              MayFindExpired, MayFindLive, Held, HeldInv
<1>3. CASE Process
  <2>1. CASE \E v \in 1..MaxBuild : Start(v)
    BY <2>1 DEF Start, KeepRow, IInv, TypeOK, LogoutFinal, LeaseInv,
                PendingInv, UsedInv, Entry, Row, Answer, Sids, EmptyMap,
                reqVars, timerVars, scanVars, Held, HeldInv
  <2>2. CASE Tick \/ Stop \/ Exit \/ Crash
    BY <2>2 DEF Tick, Stop, Exit, Crash, IInv, Down, Return, TypeOK,
                LogoutFinal, LeaseInv, PendingInv, UsedInv, Entry, Row,
                Answer, Sids, EmptyMap, reqVars, timerVars, scanVars, Held,
                HeldInv
  <2> QED
    BY <1>3, <2>1, <2>2 DEF Process
<1>4. CASE UNCHANGED vars
  BY <1>4 DEF vars, IInv, reqVars, timerVars, scanVars, TypeOK, LogoutFinal,
              LeaseInv, PendingInv, UsedInv, Entry, Row, Answer, Sids,
              EmptyMap, Held, HeldInv
<1> QED BY <1>1, <1>2, <1>3, <1>4 DEF Next

(* A row is removed when its session has expired in memory, which is no    *)
(* earlier than in the row.                                                *)
LEMMA LoginKeptStep == ASSUME IInv, [Next]_vars PROVE LoginKept'
<1> USE SessionStoreAssumption
<1>1. CASE Request
  <2>1. CASE \E s \in Sids : GetLive(s)
    <3>1. /\ UNCHANGED <<now, proc, build, db, told, gone>>
          /\ rpc # "store" /\ rpc' # "store"
      BY <2>1 DEF GetLive
    <3>2. \A s \in Sids : mem[s] # None =>
            mem'[s] # None /\ mem'[s].user = mem[s].user
      BY <2>1 DEF GetLive, LeaseOf, IInv, TypeOK, Entry
    <3> QED
      BY <3>1, <3>2 DEF IInv, LoginKept, Taken
  <2>2. CASE \E s \in Sids : GetExpired(s)
    BY <2>2 DEF GetExpired, IsLive, IInv, TypeOK, LoginKept, RowFollowsEntry,
                PendingInv, AnswerInv, UsedInv, DoomedInv, ClockInv, DownInv,
                LeaseInv, Entry, Row, Answer, Sids, EmptyMap, reqVars,
                timerVars, scanVars, Held, HeldInv, GoneInv, Taken
  <2>3. CASE \E s \in Sids : CreateEntry(s)
    <3>1. PICK n \in Sids : CreateEntry(n)
      BY <2>3
    <3>2. told[n] \notin Answer
      BY <3>1 DEF CreateEntry, IInv, UsedInv, NodeFor, Held, HeldInv, GoneInv,
                  Taken
    <3>3. \A s \in Sids : s # n => mem'[s] = mem[s]
      BY <3>1 DEF CreateEntry, IInv, TypeOK, NodeFor, Held, HeldInv, GoneInv,
                  Taken
    <3>4. rpc # "store" /\ UNCHANGED <<now, proc, build, db, told, gone>>
      BY <3>1 DEF CreateEntry
    <3> QED
      BY <3>2, <3>3, <3>4 DEF IInv, LoginKept, Taken
  <2>4. CASE \E u \in Users : Login(u)
    <3>1. /\ UNCHANGED <<now, proc, build, db, told, cur>>
          /\ rpc # "store" /\ rpc' = "store"
      BY <2>4 DEF Login
    <3>2. \A s \in Sids : mem[s] # None =>
            mem'[s] # None /\ (s # cur => mem'[s] = mem[s])
      BY <2>4, InUseApart DEF Login, Becomes, IInv, TypeOK, Entry
    <3>3. \A s \in Sids : gone[s] # None => gone'[s] # None
      BY <2>4, InUseApart DEF Login, Becomes, IInv, TypeOK, Entry
    <3> QED
      BY <3>1, <3>2, <3>3 DEF IInv, LoginKept, Taken
  <2>5. CASE DropRow
    BY <2>5 DEF DropRow, IInv, TypeOK, LoginKept, RowFollowsEntry, PendingInv,
                AnswerInv, UsedInv, DoomedInv, ClockInv, DownInv, LeaseInv,
                Entry, Row, Answer, Sids, EmptyMap, reqVars, timerVars,
                scanVars, Held, HeldInv, GoneInv, Taken
  <2>6. CASE InsertRow
    BY <2>6 DEF InsertRow, RowOf, IInv, TypeOK, LoginKept, RowFollowsEntry,
                PendingInv, AnswerInv, UsedInv, DoomedInv, ClockInv, DownInv,
                LeaseInv, Entry, Row, Answer, Sids, EmptyMap, reqVars,
                timerVars, scanVars, Held, HeldInv, GoneInv, Taken
  <2>7. CASE StoreRow
    BY <2>7 DEF StoreRow, Return, RowOf, IInv, TypeOK, LoginKept,
                RowFollowsEntry, PendingInv, AnswerInv, UsedInv, DoomedInv,
                ClockInv, DownInv, LeaseInv, Entry, Row, Answer, Sids,
                EmptyMap, reqVars, timerVars, scanVars, Held, HeldInv,
                GoneInv, Taken
  <2>8. CASE Logout
    BY <2>8 DEF Logout, IInv, TypeOK, LoginKept, RowFollowsEntry, PendingInv,
                AnswerInv, UsedInv, DoomedInv, ClockInv, DownInv, LeaseInv,
                Entry, Row, Answer, Sids, EmptyMap, reqVars, timerVars,
                scanVars, Becomes, Held, HeldInv, GoneInv, Taken
  <2>9. CASE LogoutRow
    BY <2>9 DEF LogoutRow, IInv, TypeOK, LoginKept, RowFollowsEntry,
                PendingInv, AnswerInv, UsedInv, DoomedInv, ClockInv, DownInv,
                LeaseInv, Entry, Row, Answer, Sids, EmptyMap, reqVars,
                timerVars, scanVars, Held, HeldInv, GoneInv, Taken
  <2>10. CASE LogoutMem
    BY <2>10 DEF LogoutMem, Return, IInv, TypeOK, LoginKept, RowFollowsEntry,
                 PendingInv, AnswerInv, UsedInv, DoomedInv, ClockInv, DownInv,
                 LeaseInv, Entry, Row, Answer, Sids, EmptyMap, reqVars,
                 timerVars, scanVars, Held, HeldInv, GoneInv, Taken
  <2>11. CASE GetUnknown \/ IdsUsedUp \/ OtherAction \/ LeaveLoop
    BY <2>11, SMTT(40) DEF GetUnknown, IdsUsedUp, OtherAction, LeaveLoop,
                           IInv, Return, TypeOK, LoginKept, RowFollowsEntry,
                           PendingInv, AnswerInv, UsedInv, DoomedInv,
                           ClockInv, DownInv, LeaseInv, Entry, Row, Answer,
                           Sids, EmptyMap, reqVars, timerVars, scanVars, Held,
                           HeldInv, GoneInv, Taken
  <2> QED
    BY <1>1, <2>1, <2>2, <2>3, <2>4, <2>5, <2>6, <2>7, <2>8, <2>9, <2>10,
       <2>11 DEF Request
<1>2. CASE Timer
  <2>1. CASE SweepRow
    BY <2>1 DEF SweepRow, IInv, TypeOK, LoginKept, RowFollowsEntry,
                PendingInv, AnswerInv, UsedInv, DoomedInv, ClockInv, DownInv,
                LeaseInv, Entry, Row, Answer, Sids, EmptyMap, reqVars,
                timerVars, scanVars, Held, HeldInv, GoneInv, Taken
  <2>2. CASE SweepErase
    BY <2>2 DEF SweepErase, IInv, TypeOK, LoginKept, RowFollowsEntry,
                PendingInv, AnswerInv, UsedInv, DoomedInv, ClockInv, DownInv,
                LeaseInv, Entry, Row, Answer, Sids, EmptyMap, reqVars,
                timerVars, scanVars, Held, HeldInv, GoneInv, Taken
  <2>3. CASE PeriodicSweep \/ FinalSweep \/ Visit \/ EndSweep
    BY <2>3, SMTT(40) DEF PeriodicSweep, FinalSweep, Visit, EndSweep, IInv,
                          StartSweep, Following, IsExpired, TypeOK, LoginKept,
                          RowFollowsEntry, PendingInv, AnswerInv, UsedInv,
                          DoomedInv, ClockInv, DownInv, LeaseInv, Entry, Row,
                          Answer, Sids, EmptyMap, reqVars, timerVars,
                          scanVars, After, MayFindExpired, MayFindLive, Held,
                          HeldInv, GoneInv, Taken
  <2> QED
    BY <1>2, <2>1, <2>2, <2>3 DEF Timer
<1>3. CASE Process
  <2>1. CASE Tick
    BY <2>1 DEF Tick, IInv, TypeOK, LoginKept, RowFollowsEntry, PendingInv,
                AnswerInv, UsedInv, DoomedInv, ClockInv, DownInv, LeaseInv,
                Entry, Row, Answer, Sids, EmptyMap, reqVars, timerVars,
                scanVars, Held, HeldInv, GoneInv, Taken
  <2>2. CASE \E v \in 1..MaxBuild : Start(v)
    BY <2>2 DEF Start, KeepRow, IInv, TypeOK, LoginKept, RowFollowsEntry,
                PendingInv, AnswerInv, UsedInv, DoomedInv, ClockInv, DownInv,
                LeaseInv, Entry, Row, Answer, Sids, EmptyMap, reqVars,
                timerVars, scanVars, Held, HeldInv, GoneInv, Taken
  <2>3. CASE Stop \/ Exit \/ Crash
    BY <2>3 DEF Stop, Exit, Crash, IInv, Down, Return, TypeOK, LoginKept,
                RowFollowsEntry, PendingInv, AnswerInv, UsedInv, DoomedInv,
                ClockInv, DownInv, LeaseInv, Entry, Row, Answer, Sids,
                EmptyMap, reqVars, timerVars, scanVars, Held, HeldInv,
                GoneInv, Taken
  <2> QED
    BY <1>3, <2>1, <2>2, <2>3 DEF Process
<1>4. CASE UNCHANGED vars
  BY <1>4 DEF vars, IInv, reqVars, timerVars, scanVars, TypeOK, LoginKept,
              RowFollowsEntry, PendingInv, AnswerInv, UsedInv, DoomedInv,
              ClockInv, DownInv, LeaseInv, Entry, Row, Answer, Sids, EmptyMap,
              Held, HeldInv, GoneInv, Taken
<1> QED BY <1>1, <1>2, <1>3, <1>4 DEF Next

-----------------------------------------------------------------------------

(* Every reachable state satisfies IInv. *)
THEOREM Inductive == Spec => []IInv
<1>1. Init => IInv
  <2> USE SessionStoreAssumption
  <2> SUFFICES ASSUME Init PROVE IInv
    OBVIOUS
  <2>1. TypeOK
    <3>1. stopping \in BOOLEAN /\ final \in BOOLEAN /\ strayed \in BOOLEAN
      BY Zenon DEF Init
    <3> QED
      BY <3>1 DEF Init, TypeOK, EmptyMap, End, Sids
  <2>2. /\ ClockInv /\ UsedInv /\ HeldInv /\ DownInv /\ LeaseInv /\ DoomedInv
        /\ GoneInv /\ SweptInv
    BY DEF Init, ClockInv, UsedInv, HeldInv, DownInv, LeaseInv, DoomedInv,
           GoneInv, SweptInv, EmptyMap
  <2>3. PendingInv /\ BoundInv /\ AnswerInv
    BY DEF Init, PendingInv, BoundInv, AnswerInv, Held, EmptyMap
  <2>4. TableMatchesMap /\ RowFollowsEntry /\ LogoutFinal /\ LoginKept
    BY DEF Init, TableMatchesMap, RowFollowsEntry, LogoutFinal, LoginKept,
           EmptyMap
  <2> QED
    BY <2>1, <2>2, <2>3, <2>4 DEF IInv
<1>2. IInv /\ [Next]_vars => IInv'
  BY TypeOKStep, ClockInvStep, UsedInvStep, HeldInvStep, DownInvStep,
     LeaseInvStep, DoomedInvStep, GoneInvStep, SweptInvStep, PendingInvStep,
     BoundInvStep, AnswerInvStep, TableMatchesMapStep, RowFollowsEntryStep,
     LogoutFinalStep, LoginKeptStep
     DEF IInv
<1> QED
  BY <1>1, <1>2, PTL DEF Spec

(* The variables keep their types. *)
THEOREM TypeCorrect == Spec => []TypeOK
<1>1. IInv => TypeOK
  BY DEF IInv
<1> QED
  BY <1>1, Inductive, PTL

(* The session a request works on and has not logged out is in the map, or *)
(* erase(sit) (session.cpp:187) took it: it had the memory of an expired   *)
(* session the request thread erased under the iterator.  The sweep takes  *)
(* it in no other way: its lease does not run out under the handler.       *)
THEOREM HandlerSessionStays == Spec => []InUseNotReaped
<1>1. IInv => InUseNotReaped
  BY DEF IInv, TypeOK, UsedInv, LeaseInv, Held, Taken, InUseNotReaped
<1> QED
  BY <1>1, Inductive, PTL

(* Two threads without a lock, and crashes between their statements, leave *)
(* no session without its row, and a row without its session only if the   *)
(* sweep took the session in place of an expired one whose memory it got.  *)
THEOREM TableAgrees == Spec => []TableMatchesMap
<1>1. IInv => TableMatchesMap
  BY DEF IInv
<1> QED
  BY <1>1, Inductive, PTL

(* A row follows its session: a restart neither prolongs a session nor     *)
(* gives it to another user, and brings back no row of another format.     *)
THEOREM RowsFollow == Spec => []RowFollowsEntry
<1>1. IInv => RowFollowsEntry
  BY DEF IInv
<1> QED
  BY <1>1, Inductive, PTL

(* The row of a login that was answered lasts through sweeps, crashes and  *)
(* restarts until the time the client was told; so does the session in the *)
(* map, unless the sweep took it in place of one whose memory it got.      *)
THEOREM LoginsKept == Spec => []LoginKept
<1>1. IInv => LoginKept
  BY DEF IInv
<1> QED
  BY <1>1, Inductive, PTL

(* A session whose logout was answered does not come back. *)
THEOREM LogoutsFinal == Spec => []LogoutFinal
<1>1. IInv => LogoutFinal
  BY DEF IInv
<1> QED
  BY <1>1, Inductive, PTL

(* A sweep that has reached the end leaves no session that was expired     *)
(* when it began, unless the request thread erased the node it was to      *)
(* visit next.                                                             *)
THEOREM SweepLeavesNoneExpired == Spec => []SweepComplete
<1>1. IInv => SweepComplete
  <2> SUFFICES ASSUME IInv, tpc = "scan", it = End, ~strayed,
                      NEW s \in LiveKeys
               PROVE  mem[s].expired >= tnow
    BY DEF SweepComplete
  <2>1. s \in Sids /\ mem[s] \in Entry
    BY DEF IInv, TypeOK, LiveKeys
  <2>2. s < it
    BY <2>1, SessionStoreAssumption DEF Sids, End
  <2>3. mem[s].expired >= tnow
    BY <2>2 DEF IInv, SweptInv
  <2> QED
    BY <2>3
<1> QED
  BY <1>1, Inductive, PTL

(* A session leaves the map of a running server before its expiry only by  *)
(* erase(sit) on a node that was reused for it.                            *)
THEOREM ForgottenOnlyExpired == Spec => NeverForgottenEarly
<1> DEFINE Early(s) == mem[s] # None /\ mem'[s] = None /\ proc' = "up" =>
                         mem[s].expired <= now \/ (sit = s /\ sp # s)
<1>1. IInv /\ [Next]_vars => \A s \in Sids : Early(s)
  <2> SUFFICES ASSUME IInv, [Next]_vars, NEW s \in Sids,
                      mem[s] # None, mem'[s] = None, proc' = "up"
               PROVE  mem[s].expired <= now \/ (sit = s /\ sp # s)
    OBVIOUS
  <2> USE SessionStoreAssumption
  <2>1. CASE Request
    <3>1. CASE \E k \in Sids : GetExpired(k)
      BY <3>1 DEF GetExpired, IsLive, IInv, TypeOK, Entry, Sids
    <3>2. CASE LogoutMem
      BY <3>2 DEF LogoutMem, IInv, PendingInv, Held, TypeOK
    <3>3. CASE \E k \in Sids : GetLive(k) \/ CreateEntry(k)
      <4>1. PICK k \in Sids : GetLive(k) \/ CreateEntry(k)
        BY <3>3
      <4>2. CASE GetLive(k)
        BY <4>2 DEF GetLive, LeaseOf, IInv, TypeOK, Entry
      <4>3. CASE CreateEntry(k)
        BY <4>3 DEF CreateEntry, IInv, TypeOK, Entry
      <4> QED
        BY <4>1, <4>2, <4>3
    <3>4. CASE Logout \/ \E u \in Users : Login(u)
      BY <3>4, InUseApart DEF Logout, Login, Becomes, IInv, TypeOK, Entry
    <3>5. CASE \/ GetUnknown \/ DropRow \/ IdsUsedUp \/ InsertRow \/ OtherAction
              \/ StoreRow \/ LogoutRow \/ LeaveLoop
      BY <3>5 DEF GetUnknown, DropRow, IdsUsedUp, InsertRow, OtherAction,
                  StoreRow, LogoutRow, LeaveLoop, Return, timerVars, scanVars
    <3> QED
      BY <2>1, <3>1, <3>2, <3>3, <3>4, <3>5 DEF Request
  <2>2. CASE Timer
    <3>1. CASE SweepErase
      <4>1. s = sit
        BY <3>1 DEF SweepErase, IInv, TypeOK
      <4>2. CASE sit = sp
        BY <3>1, <4>1, <4>2 DEF SweepErase, Held, IInv, DoomedInv, ClockInv,
                                TypeOK, Entry
      <4> QED BY <4>1, <4>2
    <3>2. CASE \/ PeriodicSweep \/ FinalSweep \/ Visit \/ SweepRow
              \/ EndSweep
      BY <3>2 DEF PeriodicSweep, FinalSweep, StartSweep, Visit, SweepRow,
                  EndSweep
    <3> QED BY <2>2, <3>1, <3>2 DEF Timer
  <2>3. CASE Process
    BY <2>3 DEF Process, Tick, Stop, Exit, Crash, Down, Start, IInv,
                DownInv, EmptyMap
  <2>4. CASE UNCHANGED vars
    BY <2>4 DEF vars
  <2> QED
    BY <2>1, <2>2, <2>3, <2>4 DEF Next
<1> QED
  BY <1>1, Inductive, PTL DEF Spec, NeverForgottenEarly

-----------------------------------------------------------------------------
(* The table implements SessionService.                                    *)

(* What an operation knows of the row it is about to write or remove. *)
StoreInv ==
    /\ rpc = "insert" => Held(cur).user = Guest /\ db[cur] = None
    /\ rpc = "store" => Held(cur).user \in Users
    /\ rpc = "drop" /\ db[cur] # None => db[cur].expired <= now
    /\ tpc = "row" /\ db[sp] # None =>
         db[sp].expired <= now \/ (rpc = "logout_row" /\ cur = sp)

LEMMA StoreInvStep == ASSUME IInv, StoreInv, [Next]_vars PROVE StoreInv'
<1> USE SessionStoreAssumption
<1>1. CASE Request
  <2>1. CASE \E s \in Sids : GetLive(s)
    BY <2>1 DEF GetLive, StoreInv, timerVars, scanVars
  <2>2. CASE \E s \in Sids : GetExpired(s)
    BY <2>2 DEF GetExpired, IsLive, IInv, TypeOK, StoreInv, RowFollowsEntry,
                Entry, Row, timerVars, scanVars
  <2>3. CASE \E s \in Sids : CreateEntry(s)
    BY <2>3 DEF CreateEntry, Held, IInv, TypeOK, StoreInv, UsedInv, Entry
  <2>4. CASE \E u \in Users : Login(u)
    <3>1. PICK u \in Users : Login(u)
      BY <2>4
    <3>2. Held(cur)' = [expired |-> Held(cur).expired, user |-> u]
      BY <3>1, InUseApart DEF Login, Becomes, Held, IInv, TypeOK, Entry
    <3> QED
      BY <3>1, <3>2 DEF Login, StoreInv, timerVars, scanVars
  <2>5. CASE InsertRow \/ StoreRow
    <3>1. tpc' = tpc /\ sp' = sp /\ now' = now
          /\ rpc \in {"insert", "store"} /\ rpc' \in {"handle", "idle"}
      BY <2>5 DEF InsertRow, StoreRow, Return, timerVars, scanVars
    <3>2. tpc = "row" => sp # cur /\ sp \in Sids
      BY <3>1, InUseApart DEF IInv, HeldInv, TypeOK
    <3>3. tpc = "row" => db'[sp] = db[sp]
      BY <2>5, <3>2 DEF InsertRow, StoreRow, IInv, TypeOK
    <3> QED
      BY <3>1, <3>2, <3>3 DEF StoreInv
  <2>6. CASE Logout
    BY <2>6, InUseApart DEF Logout, StoreInv, timerVars, scanVars
  <2>7. CASE DropRow \/ LogoutRow
    BY <2>7 DEF DropRow, LogoutRow, IInv, TypeOK, UsedInv, HeldInv, StoreInv,
                timerVars, scanVars
  <2>8. CASE \/ GetUnknown \/ IdsUsedUp \/ OtherAction \/ LogoutMem
             \/ LeaveLoop
    BY <2>8 DEF GetUnknown, IdsUsedUp, OtherAction, LogoutMem, LeaveLoop,
                Return, StoreInv, timerVars, scanVars
  <2> QED
    BY <1>1, <2>1, <2>2, <2>3, <2>4, <2>5, <2>6, <2>7, <2>8 DEF Request
<1>2. CASE Timer
  <2>1. CASE Visit
    <3>1. it \in Sids /\ proc = "up" /\ tpc = "scan"
          /\ (tpc' = "row" => sp' = it /\ MayFindExpired(it))
      BY <2>1 DEF Visit, IInv, DownInv, TypeOK, End, Sids
    <3>2. ASSUME tpc' = "row", db[it] # None
          PROVE  db[it].expired <= now \/ (rpc = "logout_row" /\ cur = it)
      <4>1. db[it] \in Row /\ tnow <= now
        BY <3>1, <3>2 DEF IInv, ClockInv, TypeOK
      <4>2. CASE Held(it) # None
        <5>1. Held(it) \in Entry /\ Held(it).expired < tnow
          BY <3>1, <3>2, <4>2 DEF MayFindExpired, IsExpired, Held, IInv, TypeOK
        <5>2. db[it].expired <= Held(it).expired
              \/ (rpc = "logout_row" /\ cur = it)
          BY <3>1, <3>2, <4>2 DEF Held, IInv, RowFollowsEntry, GoneInv
        <5> QED
          BY <4>1, <5>1, <5>2 DEF IInv, TypeOK, Entry, Row
      <4>3. CASE Held(it) = None
        <5>1. cur = it /\ rpc \in {"drop", "insert", "logout_row", "logout_mem"}
          BY <3>1, <3>2, <4>3 DEF Held, IInv, TypeOK, TableMatchesMap, Taken
        <5>2. rpc \notin {"insert", "logout_mem"}
          BY <3>2, <4>3, <5>1 DEF IInv, LeaseInv, PendingInv
        <5> QED
          BY <3>2, <5>1, <5>2 DEF StoreInv
      <4> QED
        BY <4>2, <4>3
    <3> QED
      BY <2>1, <3>1, <3>2 DEF Visit, StoreInv, Held, reqVars
  <2>2. CASE SweepRow
    BY <2>2 DEF SweepRow, IInv, TypeOK, UsedInv, HeldInv, StoreInv,
                Held, reqVars
  <2>3. CASE SweepErase
    <3>1. rpc \in {"insert", "store"} => Held(cur)' = Held(cur)
      <4>1. ASSUME rpc \in {"insert", "store"}
            PROVE  cur \in Sids /\ Held(cur) # None /\ sp # cur /\ sit \in Sids
        BY <2>3, <4>1, InUseApart DEF SweepErase, IInv, TypeOK, HeldInv,
                                      LeaseInv
      <4> QED
        BY <2>3, <4>1 DEF SweepErase, Held, IInv, TypeOK, DoomedInv, reqVars
    <3> QED
      BY <2>3, <3>1 DEF SweepErase, StoreInv, reqVars
  <2>4. CASE PeriodicSweep \/ FinalSweep \/ EndSweep
    BY <2>4 DEF PeriodicSweep, FinalSweep, StartSweep, EndSweep, StoreInv,
                Held, reqVars
  <2> QED
    BY <1>2, <2>1, <2>2, <2>3, <2>4 DEF Timer
<1>3. CASE Process
  <2>1. CASE Tick
    BY <2>1 DEF Tick, IInv, TypeOK, UsedInv, HeldInv, Row, StoreInv, Held,
                reqVars, timerVars, scanVars
  <2>2. CASE \E v \in 1..MaxBuild : Start(v)
    BY <2>2 DEF Start, IInv, DownInv, StoreInv, reqVars, scanVars, Held
  <2>3. CASE Stop
    BY <2>3 DEF Stop, StoreInv, reqVars, timerVars, scanVars, Held
  <2>4. CASE Exit \/ Crash
    BY <2>4 DEF Exit, Crash, Down, Return, StoreInv, Held
  <2> QED
    BY <1>3, <2>1, <2>2, <2>3, <2>4 DEF Process
<1>4. CASE UNCHANGED vars
  BY <1>4 DEF vars, StoreInv, reqVars, timerVars, scanVars, Held
<1> QED
  BY <1>1, <1>2, <1>3, <1>4 DEF Next

(* Each operation on the table is one of SessionService, each other step   *)
(* leaves what it speaks of alone. *)
LEMMA RequestServes ==
    ASSUME IInv, StoreInv, Request PROVE [Service!Next]_Service!vars
<1> USE SessionStoreAssumption
<1>1. CASE \E s \in Sids : GetLive(s) \/ GetExpired(s) \/ CreateEntry(s)
  BY <1>1 DEF GetLive, GetExpired, CreateEntry, Service!vars, Leaving, NodeFor
<1>2. CASE GetUnknown \/ IdsUsedUp \/ OtherAction \/ LeaveLoop
           \/ \E u \in Users : Login(u)
  BY <1>2 DEF GetUnknown, IdsUsedUp, OtherAction, LeaveLoop, Login, Return,
              Service!vars, Leaving, Becomes, Held
<1>3. CASE DropRow
  <2>1. cur \in Sids /\ db' = [db EXCEPT ![cur] = None]
        /\ UNCHANGED <<now, build, told, Leaving>>
    BY <1>3 DEF DropRow, IInv, UsedInv, TypeOK, Leaving, Held
  <2>2. CASE db[cur] = None
    BY <2>1, <2>2 DEF Service!vars, IInv, TypeOK, Held
  <2>3. CASE db[cur] # None
    BY <1>3, <2>1, <2>3 DEF DropRow, StoreInv, Service!Next, Service!Drop,
                            Service!Over, Held
  <2> QED
    BY <2>2, <2>3
<1>4. CASE InsertRow
  <2>1. cur \in Sids /\ db[cur] = None /\ told[cur] = None
        /\ Held(cur).user = Guest /\ Held(cur).expired > now
    BY <1>4, InUseApart DEF InsertRow, IInv, PendingInv, StoreInv, Held
  <2>2. db' = [db EXCEPT ![cur] = RowOf(Held(cur))]
        /\ UNCHANGED <<now, build, told, Leaving>>
    BY <1>4 DEF InsertRow, Leaving, Held
  <2>3. RowOf(Held(cur)) \in Row
    BY <2>1, <1>4, InUseApart DEF InsertRow, RowOf, Row, Entry, IInv, TypeOK,
                                  Held
  <2>4. Service!Open(cur)
    BY <2>1, <2>2, <2>3 DEF Service!Open, Service!WrittenFor,
                            Service!OnlyRowOf, RowOf, IInv, TypeOK, Held
  <2> QED
    BY <2>1, <2>4 DEF Service!Next
<1>5. CASE StoreRow
  <2>1. cur \in Sids /\ db[cur] \in Row /\ Held(cur) \in Entry
        /\ Held(cur).user \in Users /\ Held(cur).expired > now
    BY <1>5, InUseApart DEF StoreRow, StoreInv, Held
  <2>2. db[cur].expired <= Held(cur).expired
    BY <1>5, <2>1 DEF StoreRow, IInv, RowFollowsEntry, GoneInv, DownInv,
                      TypeOK, Held
  <2>3. db' = [db EXCEPT ![cur] = RowOf(Held(cur))]
        /\ UNCHANGED <<now, build, Leaving>> /\ cur \notin Leaving
    BY <1>5 DEF StoreRow, Return, Leaving, Held
  <2>4. RowOf(Held(cur)) \in Row /\ db'[cur] = RowOf(Held(cur))
    BY <2>1, <2>3 DEF RowOf, Row, Entry, IInv, TypeOK, Held
  <2>5. told' = [told EXCEPT ![cur] =
                   [user |-> Held(cur).user, until |-> db'[cur].expired,
                    version |-> build]]
    <3>1. db'[cur].expired = Held(cur).expired
      BY <2>4 DEF RowOf
    <3> QED
      BY <1>5, <3>1 DEF StoreRow, Held
  <2>6. Service!LogIn(cur, Held(cur).user)
    BY <2>1, <2>2, <2>3, <2>4, <2>5 DEF Service!LogIn, Service!WrittenFor,
                                        Service!OnlyRowOf, RowOf, IInv, TypeOK,
                                        Held
  <2> QED
    BY <2>1, <2>6 DEF Service!Next
<1>6. CASE Logout
  <2>1. cur \in Sids
    BY <1>6 DEF Logout, IInv, UsedInv, TypeOK, Becomes, Held
  <2>2. Service!AskToLeave(cur)
    BY <1>6 DEF Logout, Leaving, Service!AskToLeave, Becomes
  <2> QED
    BY <2>1, <2>2 DEF Service!Next
<1>7. CASE LogoutRow
  <2>1. cur \in Sids /\ cur \in Leaving /\ db' = [db EXCEPT ![cur] = None]
        /\ UNCHANGED <<now, build, told, Leaving>>
    BY <1>7 DEF LogoutRow, IInv, UsedInv, TypeOK, Leaving, Held
  <2>2. CASE db[cur] = None
    BY <2>1, <2>2 DEF Service!vars, IInv, TypeOK, Held
  <2>3. CASE db[cur] # None
    BY <2>1, <2>3 DEF Service!Next, Service!Drop, Service!Over
  <2> QED
    BY <2>2, <2>3
<1>8. CASE LogoutMem
  <2>1. cur \in Sids /\ Leaving = {cur} /\ Leaving' = {} /\ db[cur] = None
    BY <1>8 DEF LogoutMem, Return, IInv, UsedInv, TypeOK, PendingInv, Leaving,
                Held
  <2>2. Service!Left(cur)
    BY <1>8, <2>1 DEF LogoutMem, Service!Left
  <2> QED
    BY <2>1, <2>2 DEF Service!Next
<1> QED
  BY <1>1, <1>2, <1>3, <1>4, <1>5, <1>6, <1>7, <1>8 DEF Request

LEMMA TimerServes ==
    ASSUME IInv, StoreInv, Timer PROVE [Service!Next]_Service!vars
<1>1. CASE SweepRow
  <2>1. sp \in Sids /\ db' = [db EXCEPT ![sp] = None]
        /\ UNCHANGED <<now, build, told, Leaving>>
    BY <1>1 DEF SweepRow, IInv, HeldInv, TypeOK, Leaving, reqVars, Held
  <2>2. CASE db[sp] = None
    BY <2>1, <2>2 DEF Service!vars, IInv, TypeOK, Held
  <2>3. CASE db[sp] # None
    <3>1. db[sp].expired <= now \/ sp \in Leaving
      BY <1>1, <2>3 DEF SweepRow, StoreInv, Leaving, Held
    <3> QED
      BY <2>1, <2>3, <3>1 DEF Service!Next, Service!Drop, Service!Over
  <2> QED
    BY <2>2, <2>3
<1>2. CASE PeriodicSweep \/ FinalSweep \/ Visit \/ SweepErase \/ EndSweep
  BY <1>2 DEF PeriodicSweep, FinalSweep, StartSweep, Visit, SweepErase,
              EndSweep, Service!vars, Leaving, reqVars, After, MayFindExpired,
              MayFindLive, Held
<1> QED
  BY <1>1, <1>2 DEF Timer

LEMMA ProcessServes ==
    ASSUME IInv, StoreInv, Process PROVE [Service!Next]_Service!vars
<1> USE SessionStoreAssumption
<1>1. CASE Tick
  BY <1>1 DEF Tick, Service!Next, Service!Tick, Leaving, reqVars
<1>2. CASE Stop
  BY <1>2 DEF Stop, Service!vars, Leaving, reqVars
<1>3. CASE Exit \/ Crash
  BY <1>3 DEF Exit, Crash, Down, Return, Service!Next, Service!Abandon,
              Leaving
<1>4. CASE \E v \in 1..MaxBuild : Start(v)
  <2>1. PICK v \in 1..MaxBuild : Start(v)
    BY <1>4
  <2>2. build' = v /\ v >= build /\ UNCHANGED <<now, told, Leaving>>
    BY <2>1 DEF Start, IInv, TypeOK, Leaving, reqVars, Held
  <2>3. ASSUME NEW s \in Sids
        PROVE  /\ \/ db'[s] = db[s]
                  \/ /\ db'[s] = None
                     /\ db[s].expired <= now \/ db[s].version < v
               /\ db'[s] # None => db'[s].version >= v
    <3>1. CASE db[s] # None /\ KeepRow(db[s], v)
      <4>1. db'[s] = db[s] /\ db[s] \in Row
        BY <2>1, <3>1 DEF Start, IInv, TypeOK, Held
      <4> QED
        BY <3>1, <4>1 DEF KeepRow, Row
    <3>2. CASE db[s] # None /\ ~KeepRow(db[s], v)
      <4>1. db'[s] = None /\ db[s] \in Row
        BY <2>1, <3>2 DEF Start, IInv, TypeOK, Held
      <4> QED
        BY <3>2, <4>1 DEF KeepRow, Row, IInv, TypeOK, Held
    <3>3. CASE db[s] = None
      BY <2>1, <3>3 DEF Start
    <3> QED
      BY <3>1, <3>2, <3>3
  <2> QED
    BY <2>2, <2>3 DEF Service!Next, Service!Install
<1> QED
  BY <1>1, <1>2, <1>3, <1>4 DEF Process

(* The store implements SessionService: whatever the interleaving of the   *)
(* two threads, the crashes and the restarts, the table changes as if each *)
(* operation happened at once, and answers are given when they are true.   *)
THEOREM StoreServes == Spec => ServiceSpec
<1>1. Init => StoreInv /\ Service!Init
  BY DEF Init, StoreInv, Service!Init, EmptyMap, Leaving, Held
<1>2. IInv /\ StoreInv /\ [Next]_vars => StoreInv'
  BY StoreInvStep
<1>3. IInv /\ StoreInv /\ [Next]_vars => [Service!Next]_Service!vars
  <2>1. ASSUME UNCHANGED vars PROVE UNCHANGED Service!vars
    BY <2>1 DEF vars, Service!vars, Leaving, reqVars
  <2> QED
    BY <2>1, RequestServes, TimerServes, ProcessServes DEF Next
<1> QED
  BY <1>1, <1>2, <1>3, Inductive, PTL DEF Spec, ServiceSpec, Service!Spec
=============================================================================
