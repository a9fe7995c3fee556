--------------------------- MODULE PgTokensProofs ---------------------------
(***************************************************************************)
(* Theorems about PgTokens, for any threads, any pool and any timeouts.    *)
(***************************************************************************)
EXTENDS PgTokens, FiniteSetTheorems, TLAPS

(* The row is there, with the expiries of the token or replaced *)
Stored(k) ==
    /\ k.pair \in Pairs /\ table[k.pair] # None
    /\ k.pair \in replaced \/ table[k.pair] = Row(k)

(* What a thread has in the middle of its call: a row it has inserted has  *)
(* no committed one of its pair; a transaction that replaces a row has     *)
(* found it, and the token is the new one already.                         *)
CallInv(t) ==
    /\ new[t] # None =>
         /\ pc[t] \in {"update", "commit"} /\ op[t] # "load"
         /\ new[t].pair \in 1..last /\ table[new[t].pair] = None
    /\ pc[t] = "update" => op[t] = "refresh" /\ new[t] # None
    /\ pc[t] = "commit" /\ op[t] = "create" => new[t] # None
    /\ pc[t] # "idle" /\ op[t] # "create" => arg[t] \in Pairs
    /\ Replaces(t) => table[arg[t]] # None /\ token[t] = new[t]
    /\ token[t] # None => token[t].pair \in 1..last
    /\ token[t] # None /\ t \notin torn /\ ~Replaces(t) => Stored(token[t])

(* No two transactions have inserted the same pair, and every row is of a  *)
(* pair that was made.                                                     *)
PairsInv ==
    /\ \A t, u \in Threads :
         t # u /\ new[t] # None /\ new[u] # None => new[t].pair # new[u].pair
    /\ \A p \in Pairs : table[p] # None => p <= last

(* The pairs suffice for the calls that have begun *)
BoundInv == last + Cardinality(Makers) <= MaxPair

IInv ==
    /\ TypeOK /\ BoundInv /\ PairsInv /\ ReplacedExpired
    /\ \A t \in Threads : CallInv(t)

-----------------------------------------------------------------------------

LEMMA NoneIsNoRow == None \notin Rows /\ None \notin Tokens
  BY PgTokensAssumption DEF Rows, Tokens

LEMMA MakersCount == IsFiniteSet(Makers) /\ Cardinality(Makers) \in Nat
<1>1. Makers \subseteq Threads
  BY DEF Makers
<1> QED
  BY <1>1, FS_Subset, FS_CardinalityType, PgTokensAssumption

(* What happens to the rows while a thread is between two of its steps *)
Grows ==
    /\ last' \in Nat /\ last <= last'
    /\ replaced \subseteq replaced'
    /\ \A p \in Pairs : table[p] # None =>
         table'[p] # None /\ (p \in replaced' \/ table'[p] = table[p])

(* A thread that does nothing keeps its part of the invariant *)
LEMMA OtherThread ==
    ASSUME NEW u \in Threads, TypeOK, CallInv(u), Grows,
           pc'[u] = pc[u], op'[u] = op[u], arg'[u] = arg[u], new'[u] = new[u],
           token'[u] = token[u], u \in torn' <=> u \in torn,
           new[u] # None => table'[new[u].pair] = None
    PROVE  CallInv(u)'
<1>1. Replaces(u)' <=> Replaces(u)
  BY DEF Replaces
<1>2. last \in Nat /\ last \in 0..MaxPair
  BY DEF TypeOK
<1>3. ASSUME Stored(token[u]) PROVE Stored(token[u])'
  BY <1>3 DEF Stored, Grows, Row
<1>4. Replaces(u) => arg[u] \in Pairs
  BY DEF Replaces, CallInv
<1> QED
  BY <1>1, <1>2, <1>3, <1>4 DEF CallInv, Grows

(* A step that changes no row *)
LEMMA SameRows ==
    ASSUME TypeOK, UNCHANGED <<table, replaced>>, last' \in Nat, last <= last'
    PROVE  Grows
  BY DEF Grows

-----------------------------------------------------------------------------
(* Calls and connections *)

(* A call begins; a maker takes one of the pairs that are left *)
LEMMA CallStep ==
    ASSUME IInv, NEW t \in Threads, CallCreate(t) \/ CallRefresh(t) \/ CallLoad(t)
    PROVE  IInv'
<1>1. PICK f \in {"create", "refresh", "load"}, p \in 0..last :
        /\ Call(t, f, p)
        /\ f # "load" => last + Cardinality(Makers) < MaxPair
        /\ f # "create" => p \in Pairs
  <2>1. CASE CallCreate(t)
    BY <2>1 DEF CallCreate, IInv, TypeOK
  <2>0. last \in Nat /\ MaxPair \in Nat /\ last <= MaxPair
    BY PgTokensAssumption DEF IInv, TypeOK
  <2>2. CASE CallRefresh(t)
    <3>1. token[t].pair \in 1..last
      BY <2>2 DEF CallRefresh, IInv, CallInv
    <3>2. token[t].pair \in 0..last /\ token[t].pair \in Pairs
      BY <2>0, <3>1 DEF Pairs
    <3> QED
      BY <2>2, <3>2 DEF CallRefresh
  <2>3. CASE CallLoad(t)
    <3>1. PICK p \in 1..last : Call(t, "load", p)
      BY <2>3 DEF CallLoad
    <3>2. p \in 0..last /\ p \in Pairs
      BY <2>0, <3>1 DEF Pairs
    <3> QED
      BY <3>1, <3>2
  <2> QED
    BY <2>1, <2>2, <2>3
<1>2. TypeOK'
  BY <1>1 DEF IInv, TypeOK, Call, Goto, dbVars
<1>3. BoundInv'
  <2>1. Makers' = IF f # "load" THEN Makers \cup {t} ELSE Makers
    BY <1>1 DEF Makers, Call, Goto, IInv, TypeOK
  <2>2. t \notin Makers
    BY <1>1 DEF Makers, Call
  <2>3. last' = last /\ last \in Nat /\ MaxPair \in Nat
    BY <1>1, PgTokensAssumption DEF Call, IInv, TypeOK
  <2>4. Cardinality(Makers \cup {t}) = Cardinality(Makers) + 1
    BY <2>2, MakersCount, FS_AddElement
  <2> QED
    BY <1>1, <2>1, <2>3, <2>4, MakersCount DEF BoundInv, IInv
<1>4. PairsInv' /\ ReplacedExpired'
  BY <1>1 DEF IInv, PairsInv, ReplacedExpired, Call, dbVars
<1>5. ASSUME NEW u \in Threads PROVE CallInv(u)'
  <2>1. CASE u = t
    BY <1>1, <2>1 DEF IInv, CallInv, Call, Goto, dbVars, Replaces, Stored, Row, TypeOK
  <2>2. CASE u # t
    BY <1>1, <2>2, OtherThread, SameRows DEF IInv, Call, Goto, dbVars, TypeOK, CallInv
  <2> QED
    BY <2>1, <2>2
<1> QED
  BY <1>2, <1>3, <1>4, <1>5 DEF IInv

(* Steps that make no pair and change no row *)
LEMMA SameMakers ==
    ASSUME BoundInv, TypeOK, last' = last, Makers' \subseteq Makers
    PROVE  BoundInv'
<1>1. Cardinality(Makers') <= Cardinality(Makers) /\ Cardinality(Makers') \in Nat
  BY MakersCount, FS_Subset, FS_CardinalityType
<1> QED
  BY <1>1, MakersCount, PgTokensAssumption DEF BoundInv, TypeOK

(* A connection is taken *)
LEMMA ConnectStep == ASSUME IInv, NEW t \in Threads, Connect(t) PROVE IInv'
<1>1. /\ pc[t] = "connect" /\ pc' = [pc EXCEPT ![t] = "exec"]
      /\ UNCHANGED <<now, table, lock, replaced, last, op, arg, start, new, token, torn>>
  BY DEF Connect, Goto, dbVars, callVars
<1>2. TypeOK'
  BY <1>1 DEF Connect, Lease!Acquire, IInv, TypeOK
<1>3. BoundInv'
  <2>1. Makers' \subseteq Makers
    BY <1>1 DEF Makers, IInv, TypeOK
  <2> QED
    BY <1>1, <2>1, SameMakers DEF IInv
<1>4. PairsInv' /\ ReplacedExpired'
  BY <1>1 DEF IInv, PairsInv, ReplacedExpired
<1>5. ASSUME NEW u \in Threads PROVE CallInv(u)'
  <2>1. CASE u = t
    BY <1>1, <2>1 DEF IInv, CallInv, Replaces, Stored, Row, TypeOK
  <2>2. CASE u # t
    BY <1>1, <2>2, OtherThread, SameRows DEF IInv, TypeOK, CallInv
  <2> QED
    BY <2>1, <2>2
<1> QED
  BY <1>2, <1>3, <1>4, <1>5 DEF IInv

(* A call is over *)
LEMMA ReleaseStep == ASSUME IInv, NEW t \in Threads, Release(t) PROVE IInv'
<1>1. /\ pc[t] = "done" /\ pc' = [pc EXCEPT ![t] = "idle"]
      /\ op' = [op EXCEPT ![t] = "load"] /\ arg' = [arg EXCEPT ![t] = 0]
      /\ start' = [start EXCEPT ![t] = 0]
      /\ UNCHANGED <<now, table, lock, replaced, last, new, token, torn>>
  BY DEF Release, Leave, Goto, dbVars
<1>2. TypeOK'
  BY <1>1 DEF Release, Lease!Release, IInv, TypeOK
<1>3. BoundInv'
  <2>1. Makers' \subseteq Makers
    BY <1>1 DEF Makers, IInv, TypeOK
  <2> QED
    BY <1>1, <2>1, SameMakers DEF IInv
<1>4. PairsInv' /\ ReplacedExpired'
  BY <1>1 DEF IInv, PairsInv, ReplacedExpired
<1>5. ASSUME NEW u \in Threads PROVE CallInv(u)'
  <2>1. CASE u = t
    BY <1>1, <2>1 DEF IInv, CallInv, Replaces, Stored, Row, TypeOK
  <2>2. CASE u # t
    BY <1>1, <2>2, OtherThread, SameRows DEF IInv, TypeOK, CallInv
  <2> QED
    BY <2>1, <2>2
<1> QED
  BY <1>2, <1>3, <1>4, <1>5 DEF IInv

-----------------------------------------------------------------------------
(* Statements *)

(* A row with new ids is inserted, and nobody sees it yet *)
LEMMA InsertStep ==
    ASSUME IInv, NEW t \in Threads, ExecCreate(t) \/ ExecRefresh(t)
    PROVE  IInv'
<1> DEFINE l == IF op[t] = "refresh" THEN "update" ELSE "commit"
<1>1. /\ pc[t] = "exec" /\ op[t] \in {"create", "refresh"}
      /\ pc' = [pc EXCEPT ![t] = l]
      /\ UNCHANGED <<now, table, lock, replaced, held, op, arg, torn>>
  <2>1. CASE ExecCreate(t)
    BY <2>1 DEF ExecCreate, Goto, dbVars, callVars
  <2>2. CASE ExecRefresh(t)
    BY <2>2 DEF ExecRefresh, Goto, dbVars, callVars
  <2> QED
    BY <2>1, <2>2
<1>2. PICK a, r \in Leases :
        /\ last' = last + 1
        /\ start' = [start EXCEPT ![t] = now]
        /\ new' = [new EXCEPT ![t] = Token(last + 1, now + a, now + r)]
  BY DEF ExecCreate, ExecRefresh, Insert
<1> DEFINE k == Token(last + 1, now + a, now + r)
<1>3. /\ last \in Nat /\ now \in Nat /\ MaxPair \in Nat /\ last <= MaxPair
      /\ last' \in Nat /\ last <= last'
  BY <1>2, PgTokensAssumption DEF IInv, TypeOK
<1>4. k \in Tokens /\ k # None /\ k.pair = last + 1
  BY <1>3, NoneIsNoRow, PgTokensAssumption DEF Token, Tokens
<1>5. token' = IF op[t] = "refresh" THEN [token EXCEPT ![t] = k] ELSE token
  BY <1>1, <1>2, <1>4 DEF ExecCreate, ExecRefresh, IInv, TypeOK
<1>6. op[t] = "refresh" => arg[t] \in Pairs /\ table[arg[t]] # None
  BY <1>1 DEF ExecCreate, ExecRefresh, IInv, CallInv
<1>7. Makers' = Makers \ {t} /\ t \in Makers
  BY <1>1 DEF Makers, IInv, TypeOK
<1>8. BoundInv' /\ last + 1 <= MaxPair
  <2>1. Cardinality(Makers') = Cardinality(Makers) - 1 /\ Cardinality(Makers') \in Nat
    BY <1>7, MakersCount, FS_RemoveElement, FS_CardinalityType
  <2> QED
    BY <1>2, <1>3, <2>1, MakersCount DEF BoundInv, IInv
<1>9. last + 1 \in Pairs /\ table[last + 1] = None
  BY <1>3, <1>8 DEF IInv, PairsInv, Pairs
<1>10. TypeOK'
  BY <1>1, <1>2, <1>3, <1>4, <1>5, <1>8 DEF IInv, TypeOK
<1>11. PairsInv'
  <2>1. \A u \in Threads : u # t => new'[u] = new[u]
    BY <1>2 DEF IInv, TypeOK
  <2>2. new'[t].pair = last + 1
    BY <1>2, <1>4 DEF IInv, TypeOK
  <2>3. \A u \in Threads : new[u] # None => new[u].pair \in 1..last
    BY DEF IInv, CallInv
  <2>4. \A p \in Pairs : table'[p] # None => p <= last'
    BY <1>1, <1>3 DEF IInv, PairsInv, Pairs
  <2>5. \A u, v \in Threads :
          u # v /\ new'[u] # None /\ new'[v] # None => new'[u].pair # new'[v].pair
    BY <1>3, <2>1, <2>2, <2>3 DEF IInv, PairsInv
  <2> QED
    BY <2>4, <2>5 DEF PairsInv
<1>12. ReplacedExpired'
  BY <1>1 DEF IInv, ReplacedExpired
<1>13. ASSUME NEW u \in Threads PROVE CallInv(u)'
  <2>1. CASE u = t
    <3>1. new'[u] = k /\ pc'[u] = l /\ op'[u] = op[u] /\ arg'[u] = arg[u]
      BY <1>1, <1>2, <2>1 DEF IInv, TypeOK
    <3>2. token'[u] = IF op[u] = "refresh" THEN k ELSE token[u]
      BY <1>5, <2>1 DEF IInv, TypeOK
    <3>3. token[u] # None /\ u \notin torn /\ new[u] = None => Stored(token[u])
      BY DEF IInv, CallInv, Replaces
    <3>4. new[u] = None
      BY <1>1, <2>1 DEF IInv, CallInv
    <3>5. token[u] # None => token[u].pair \in 1..last
      BY DEF IInv, CallInv
    <3> QED
      BY <1>1, <1>2, <1>3, <1>4, <1>6, <1>9, <2>1, <3>1, <3>2, <3>3, <3>4, <3>5
      DEF CallInv, Replaces, Stored, Row
  <2>2. CASE u # t
    BY <1>1, <1>2, <1>3, <1>5, <2>2, OtherThread, SameRows DEF IInv, TypeOK, CallInv
  <2> QED
    BY <2>1, <2>2
<1> QED
  BY <1>8, <1>10, <1>11, <1>12, <1>13 DEF IInv

(* Nothing is found to refresh *)
LEMMA NothingStep == ASSUME IInv, NEW t \in Threads, ExecRefreshNothing(t) PROVE IInv'
<1>1. /\ pc[t] = "exec" /\ op[t] = "refresh" /\ pc' = [pc EXCEPT ![t] = "commit"]
      /\ UNCHANGED <<now, table, lock, replaced, last, held, op, arg, start, new, token, torn>>
  BY DEF ExecRefreshNothing, Goto, dbVars, callVars
<1>2. TypeOK'
  BY <1>1 DEF IInv, TypeOK
<1>3. BoundInv'
  <2>1. Makers' \subseteq Makers
    BY <1>1 DEF Makers, IInv, TypeOK
  <2> QED
    BY <1>1, <2>1, SameMakers DEF IInv
<1>4. PairsInv' /\ ReplacedExpired'
  BY <1>1 DEF IInv, PairsInv, ReplacedExpired
<1>5. ASSUME NEW u \in Threads PROVE CallInv(u)'
  <2>1. CASE u = t
    BY <1>1, <2>1 DEF IInv, CallInv, Replaces, Stored, Row, TypeOK
  <2>2. CASE u # t
    BY <1>1, <2>2, OtherThread, SameRows DEF IInv, TypeOK, CallInv
  <2> QED
    BY <2>1, <2>2
<1> QED
  BY <1>2, <1>3, <1>4, <1>5 DEF IInv

(* A row is read, or there is none *)
LEMMA LoadStep == ASSUME IInv, NEW t \in Threads, ExecLoad(t) PROVE IInv'
<1>1. /\ pc[t] = "exec" /\ op[t] = "load" /\ pc' = [pc EXCEPT ![t] = "done"]
      /\ torn' = torn \ {t}
      /\ UNCHANGED <<now, table, lock, replaced, last, held, op, arg, start, new>>
  BY DEF ExecLoad, Goto, dbVars, callVars
<1> DEFINE row == table[arg[t]]
           k == Token(arg[t], row.access, row.refresh)
<1>2. token' = [token EXCEPT ![t] = IF row = None THEN None ELSE k]
  BY DEF ExecLoad
<1>3. arg[t] \in Pairs /\ row \in Rows \cup {None} /\ (row # None => arg[t] <= last)
  BY <1>1 DEF IInv, CallInv, TypeOK, PairsInv
<1>4. row # None =>
        /\ k \in Tokens /\ k # None /\ k.pair = arg[t] /\ k.pair \in 1..last
        /\ Row(k) = row
  BY <1>3, NoneIsNoRow DEF Token, Tokens, Rows, Row, Pairs, IInv, TypeOK
<1>5. TypeOK'
  BY <1>1, <1>2, <1>4 DEF IInv, TypeOK
<1>6. BoundInv'
  <2>1. Makers' \subseteq Makers
    BY <1>1 DEF Makers, IInv, TypeOK
  <2> QED
    BY <1>1, <2>1, SameMakers DEF IInv
<1>7. PairsInv' /\ ReplacedExpired'
  BY <1>1 DEF IInv, PairsInv, ReplacedExpired
<1>8. ASSUME NEW u \in Threads PROVE CallInv(u)'
  <2>1. CASE u = t
    <3>1. token'[u] = IF row = None THEN None ELSE k
      BY <1>2, <2>1 DEF IInv, TypeOK
    <3>2. new[u] = None /\ pc'[u] = "done"
      BY <1>1, <2>1 DEF IInv, CallInv, TypeOK
    <3>3. row # None => Stored(k)'
      BY <1>1, <1>3, <1>4 DEF Stored, Row
    <3> QED
      BY <1>1, <1>3, <1>4, <2>1, <3>1, <3>2, <3>3 DEF CallInv, Replaces, Stored, Row
  <2>2. CASE u # t
    BY <1>1, <1>2, <2>2, OtherThread, SameRows DEF IInv, TypeOK, CallInv
  <2> QED
    BY <2>1, <2>2
<1> QED
  BY <1>5, <1>6, <1>7, <1>8 DEF IInv

(* The row that is replaced is locked *)
LEMMA UpdateStep == ASSUME IInv, NEW t \in Threads, UpdateOld(t) PROVE IInv'
<1>1. /\ pc[t] = "update" /\ pc' = [pc EXCEPT ![t] = "commit"]
      /\ lock' = [lock EXCEPT ![arg[t]] = t]
      /\ UNCHANGED <<now, table, replaced, last, held, op, arg, start, new, token, torn>>
  BY DEF UpdateOld, Goto, callVars
<1>2. TypeOK'
  BY <1>1 DEF IInv, TypeOK
<1>3. BoundInv'
  <2>1. Makers' \subseteq Makers
    BY <1>1 DEF Makers, IInv, TypeOK
  <2> QED
    BY <1>1, <2>1, SameMakers DEF IInv
<1>4. PairsInv' /\ ReplacedExpired'
  BY <1>1 DEF IInv, PairsInv, ReplacedExpired
<1>5. ASSUME NEW u \in Threads PROVE CallInv(u)'
  <2>1. CASE u = t
    BY <1>1, <2>1 DEF IInv, CallInv, Replaces, Stored, Row, TypeOK
  <2>2. CASE u # t
    BY <1>1, <2>2, OtherThread, SameRows DEF IInv, TypeOK, CallInv
  <2> QED
    BY <2>1, <2>2
<1> QED
  BY <1>2, <1>3, <1>4, <1>5 DEF IInv

-----------------------------------------------------------------------------
(* The end of a transaction *)

(* What a commit does to the rows *)
LEMMA EffectOnRows ==
    ASSUME IInv, NEW t \in Threads, pc[t] = "commit", Effect(t),
           now' = now, last' = last
    PROVE  /\ table' \in [Pairs -> Rows \cup {None}] /\ replaced' \in SUBSET Pairs
           /\ Grows /\ ReplacedExpired'
           /\ \A p \in Pairs : table'[p] # None => p <= last
           /\ \A u \in Threads : u # t /\ new[u] # None => table'[new[u].pair] = None
           /\ new[t] # None => /\ new[t].pair \in Pairs /\ Row(new[t]) # None
                              /\ table'[new[t].pair] = Row(new[t])
<1> DEFINE old == [access |-> start[t], refresh |-> start[t]]
<1>1. /\ table \in [Pairs -> Rows \cup {None}] /\ replaced \in SUBSET Pairs
      /\ start[t] \in 0..now /\ now \in Nat /\ last \in Nat /\ last <= MaxPair
      /\ MaxPair \in Nat /\ new[t] \in Tokens \cup {None}
  BY PgTokensAssumption DEF IInv, TypeOK
<1>2. old \in Rows /\ old # None /\ old.access <= now /\ old.refresh <= now
  BY <1>1, NoneIsNoRow DEF Rows
<1>3. new[t] # None =>
        /\ new[t].pair \in 1..last /\ new[t].pair \in Pairs
        /\ table[new[t].pair] = None
        /\ Row(new[t]) \in Rows /\ Row(new[t]) # None
  BY <1>1, NoneIsNoRow DEF IInv, CallInv, Rows, Row, Tokens, Pairs
<1>4. Replaces(t) => arg[t] \in Pairs /\ table[arg[t]] # None /\ new[t] # None
  BY DEF IInv, CallInv, Replaces
<1>5. \A p \in Pairs : table'[p] = IF new[t] # None /\ p = new[t].pair THEN Row(new[t])
                                  ELSE IF Replaces(t) /\ p = arg[t] THEN old
                                  ELSE table[p]
  BY DEF Effect
<1>6. replaced' = IF Replaces(t) THEN replaced \cup {arg[t]} ELSE replaced
  BY DEF Effect
<1>7. \A p \in replaced : p \in Pairs /\ table[p] # None
  BY <1>1 DEF IInv, ReplacedExpired
<1>8. table' \in [Pairs -> Rows \cup {None}]
  BY <1>1, <1>2, <1>3 DEF Effect
<1>9. replaced' \in SUBSET Pairs
  BY <1>1, <1>4, <1>6
<1>10. Grows
  BY <1>1, <1>2, <1>3, <1>4, <1>5, <1>6 DEF Grows
<1>11. ReplacedExpired'
  <2> SUFFICES ASSUME NEW p \in replaced'
               PROVE  table'[p] # None /\ table'[p].access <= now /\ table'[p].refresh <= now
    BY DEF ReplacedExpired
  <2>1. p \in Pairs /\ table[p] # None /\ ~(new[t] # None /\ p = new[t].pair)
    BY <1>3, <1>4, <1>6, <1>7
  <2>2. CASE Replaces(t) /\ p = arg[t]
    BY <1>2, <1>5, <2>1, <2>2
  <2>3. CASE ~(Replaces(t) /\ p = arg[t])
    BY <1>5, <1>6, <2>1, <2>3 DEF IInv, ReplacedExpired
  <2> QED
    BY <2>2, <2>3
<1>12. \A p \in Pairs : table'[p] # None => p <= last
  BY <1>3, <1>4, <1>5 DEF IInv, PairsInv
<1>13. ASSUME NEW u \in Threads, u # t, new[u] # None PROVE table'[new[u].pair] = None
  <2>1. new[u].pair \in 1..last /\ table[new[u].pair] = None
    BY <1>13 DEF IInv, CallInv
  <2>2. new[u].pair \in Pairs
    BY <1>1, <2>1 DEF Pairs
  <2>3. new[t] # None => new[u].pair # new[t].pair
    BY <1>13 DEF IInv, PairsInv
  <2> QED
    BY <1>4, <1>5, <2>1, <2>2, <2>3
<1>14. new[t] # None => /\ new[t].pair \in Pairs /\ Row(new[t]) # None
                         /\ table'[new[t].pair] = Row(new[t])
  BY <1>3, <1>5
<1> QED
  BY <1>8, <1>9, <1>10, <1>11, <1>12, <1>13, <1>14

(* The locks of a transaction that ends are free *)
LEMMA UnlockType == ASSUME TypeOK, NEW t \in Threads, Unlock(t)
                    PROVE  lock' \in [Pairs -> Threads \cup {None}]
  BY DEF TypeOK, Unlock

LEMMA CommitStep == ASSUME IInv, NEW t \in Threads, Commit(t) PROVE IInv'
<1>1. /\ pc[t] = "commit" /\ pc' = [pc EXCEPT ![t] = "done"]
      /\ Effect(t) /\ Unlock(t)
      /\ new' = [new EXCEPT ![t] = None]
      /\ token' = IF op[t] = "create" THEN [token EXCEPT ![t] = new[t]] ELSE token
      /\ torn' = IF op[t] = "create" THEN torn \ {t} ELSE torn
      /\ UNCHANGED <<now, last, held, op, arg, start>>
  BY DEF Commit, Goto, callVars
<1>2. /\ table' \in [Pairs -> Rows \cup {None}] /\ replaced' \in SUBSET Pairs
      /\ Grows /\ ReplacedExpired'
      /\ \A p \in Pairs : table'[p] # None => p <= last
      /\ \A u \in Threads : u # t /\ new[u] # None => table'[new[u].pair] = None
      /\ new[t] # None => /\ new[t].pair \in Pairs /\ Row(new[t]) # None
                         /\ table'[new[t].pair] = Row(new[t])
  BY <1>1, EffectOnRows
<1>3. TypeOK'
  BY <1>1, <1>2, UnlockType DEF IInv, TypeOK
<1>4. BoundInv'
  <2>1. Makers' \subseteq Makers
    BY <1>1 DEF Makers, IInv, TypeOK
  <2> QED
    BY <1>1, <2>1, SameMakers DEF IInv
<1>5. PairsInv'
  BY <1>1, <1>2 DEF IInv, PairsInv, TypeOK
<1>6. ASSUME NEW u \in Threads PROVE CallInv(u)'
  <2>1. CASE u = t
    <3>1. new'[u] = None /\ pc'[u] = "done" /\ op'[u] = op[u] /\ arg'[u] = arg[u]
      BY <1>1, <2>1 DEF IInv, TypeOK
    <3>2. token'[u] = IF op[u] = "create" THEN new[u] ELSE token[u]
      BY <1>1, <2>1 DEF IInv, TypeOK
    <3>3. CASE op[u] = "create" \/ Replaces(u)
      <4>1. token'[u] = new[u] /\ new[u] # None /\ new[u].pair \in 1..last
        BY <1>1, <2>1, <3>2, <3>3 DEF IInv, CallInv, Replaces
      <4>2. Stored(token[u])'
        BY <1>2, <2>1, <4>1 DEF Stored, Row
      <4> QED
        BY <1>1, <2>1, <3>1, <4>1, <4>2 DEF CallInv, Replaces, IInv
    <3>4. CASE ~(op[u] = "create" \/ Replaces(u))
      <4>1. token'[u] = token[u] /\ torn' = torn
        BY <1>1, <2>1, <3>2, <3>4
      <4>2. token[u] # None /\ u \notin torn => Stored(token[u])
        BY <3>4 DEF IInv, CallInv
      <4>3. Stored(token[u]) => Stored(token[u])'
        BY <1>2, <4>1 DEF Stored, Grows, Row
      <4> QED
        BY <1>1, <2>1, <3>1, <4>1, <4>2, <4>3 DEF CallInv, Replaces, IInv
    <3> QED
      BY <3>3, <3>4
  <2>2. CASE u # t
    BY <1>1, <1>2, <2>2, OtherThread DEF IInv, TypeOK
  <2> QED
    BY <2>1, <2>2
<1> QED
  BY <1>2, <1>3, <1>4, <1>5, <1>6 DEF IInv

LEMMA ThrowStep == ASSUME IInv, NEW t \in Threads, Throw(t) PROVE IInv'
<1>1. /\ pc[t] \in {"exec", "update", "commit"} /\ pc' = [pc EXCEPT ![t] = "done"]
      /\ UNCHANGED <<table, replaced>> \/ (pc[t] = "commit" /\ Effect(t))
      /\ Unlock(t)
      /\ new' = [new EXCEPT ![t] = None]
      /\ torn' = IF Replaces(t) THEN torn \cup {t} ELSE torn
      /\ UNCHANGED <<now, last, held, op, arg, start, token>>
  BY DEF Throw, Goto, callVars
<1>2. /\ table' \in [Pairs -> Rows \cup {None}] /\ replaced' \in SUBSET Pairs
      /\ Grows /\ ReplacedExpired'
      /\ \A p \in Pairs : table'[p] # None => p <= last
      /\ \A u \in Threads : u # t /\ new[u] # None => table'[new[u].pair] = None
  <2>1. CASE UNCHANGED <<table, replaced>>
    BY <1>1, <2>1, SameRows DEF IInv, TypeOK, ReplacedExpired, PairsInv, CallInv
  <2>2. CASE pc[t] = "commit" /\ Effect(t)
    BY <1>1, <2>2, EffectOnRows
  <2> QED
    BY <1>1, <2>1, <2>2
<1>3. TypeOK'
  BY <1>1, <1>2, UnlockType DEF IInv, TypeOK
<1>4. BoundInv'
  <2>1. Makers' \subseteq Makers
    BY <1>1 DEF Makers, IInv, TypeOK
  <2> QED
    BY <1>1, <2>1, SameMakers DEF IInv
<1>5. PairsInv'
  BY <1>1, <1>2 DEF IInv, PairsInv, TypeOK
<1>6. ASSUME NEW u \in Threads PROVE CallInv(u)'
  <2>1. CASE u = t
    <3>1. new'[u] = None /\ pc'[u] = "done" /\ op'[u] = op[u] /\ arg'[u] = arg[u]
      BY <1>1, <2>1 DEF IInv, TypeOK
    <3>2. token[u] # None /\ u \notin torn' => Stored(token[u])
      BY <1>1, <2>1 DEF IInv, CallInv
    <3>3. Stored(token[u]) => Stored(token[u])'
      BY <1>1, <1>2 DEF Stored, Grows, Row
    <3> QED
      BY <1>1, <2>1, <3>1, <3>2, <3>3 DEF CallInv, Replaces, IInv
  <2>2. CASE u # t
    BY <1>1, <1>2, <2>2, OtherThread DEF IInv, TypeOK
  <2> QED
    BY <2>1, <2>2
<1> QED
  BY <1>2, <1>3, <1>4, <1>5, <1>6 DEF IInv

-----------------------------------------------------------------------------

LEMMA InitHolds == Init => IInv
<1> SUFFICES ASSUME Init PROVE IInv
  OBVIOUS
<1>1. Makers = {}
  BY DEF Init, Makers
<1>2. TypeOK
  BY PgTokensAssumption DEF Init, TypeOK
<1>3. BoundInv
  BY <1>1, FS_EmptySet, PgTokensAssumption DEF Init, BoundInv
<1>4. PairsInv /\ ReplacedExpired
  BY DEF Init, PairsInv, ReplacedExpired
<1>5. \A t \in Threads : CallInv(t)
  BY DEF Init, CallInv, Replaces
<1> QED
  BY <1>2, <1>3, <1>4, <1>5 DEF IInv

(* Time passes, or nothing happens *)
LEMMA TickStep == ASSUME IInv, Tick \/ UNCHANGED vars PROVE IInv'
<1>1. /\ now' \in 0..MaxTime /\ now <= now'
      /\ UNCHANGED <<table, lock, replaced, last, held, pc, op, arg, start, new, token, torn>>
  BY PgTokensAssumption DEF Tick, vars, dbVars, callVars, IInv, TypeOK
<1>2. TypeOK'
  BY <1>1 DEF IInv, TypeOK
<1>3. BoundInv' /\ PairsInv'
  BY <1>1 DEF IInv, BoundInv, PairsInv, Makers
<1>4. ReplacedExpired'
  <2>1. \A p \in replaced : table[p] \in Rows
    BY DEF IInv, TypeOK, ReplacedExpired
  <2>2. now \in Nat /\ now' \in Nat
    BY <1>1, PgTokensAssumption DEF IInv, TypeOK
  <2> QED
    BY <1>1, <2>1, <2>2 DEF IInv, ReplacedExpired, Rows
<1>5. ASSUME NEW t \in Threads PROVE CallInv(t)'
  BY <1>1, OtherThread, SameRows DEF IInv, TypeOK, CallInv
<1> QED
  BY <1>2, <1>3, <1>4, <1>5 DEF IInv

LEMMA StepHolds == IInv /\ [Next]_vars => IInv'
<1> SUFFICES ASSUME IInv, [Next]_vars PROVE IInv'
  OBVIOUS
<1>1. CASE \E t \in Threads : CallCreate(t) \/ CallRefresh(t) \/ CallLoad(t)
  BY <1>1, CallStep
<1>2. CASE \E t \in Threads : Proceed(t)
  BY <1>2, ConnectStep, InsertStep, NothingStep, LoadStep, UpdateStep, CommitStep, ReleaseStep
  DEF Proceed, Exec
<1>3. CASE \E t \in Threads : Throw(t)
  BY <1>3, ThrowStep
<1>4. CASE Tick \/ UNCHANGED vars
  BY <1>4, TickStep
<1> QED
  BY <1>1, <1>2, <1>3, <1>4 DEF Next

(* The rows, the transactions and the callers' tokens agree at every step *)
THEOREM Inductive == Spec => []IInv
  BY InitHolds, StepHolds, PTL DEF Spec

(* Types; rows, leases and transactions hold what they are made for        *)
(* (create_token, refresh_token, load_token).                              *)
THEOREM TypeCorrect == Spec => []TypeOK
<1>1. IInv => TypeOK
  BY DEF IInv
<1> QED
  BY <1>1, Inductive, PTL

(* A pair that was replaced has expired in the table for good, however     *)
(* many threads replace it at the same time (refresh_token).               *)
THEOREM ReplacedStaysExpired == Spec => []ReplacedExpired
<1>1. IInv => ReplacedExpired
  BY DEF IInv
<1> QED
  BY <1>1, Inductive, PTL

(* What a thread holds after a call is in the table, or was replaced, or a *)
(* refresh of it has thrown (refresh_token, create_token, load_token).     *)
THEOREM HeldIsStored == Spec => []HeldAsStored
<1>1. IInv => HeldAsStored
  BY DEF IInv, CallInv, HeldAsStored, Stored, Replaces
<1> QED
  BY <1>1, Inductive, PTL

-----------------------------------------------------------------------------
(* Who waits, and for whom *)

(* A thread has a connection in its hands exactly from Connect to Release, *)
(* and rows are locked by transactions that have only their commit left.   *)
WaitInv ==
    \A t \in Threads :
        /\ held[t] # None <=> pc[t] \in {"exec", "update", "commit", "done"}
        /\ \A p \in Pairs : lock[p] = t => pc[t] = "commit"

LEMMA WaitInit == Init => WaitInv
  BY PgTokensAssumption DEF Init, WaitInv

LEMMA WaitStep == ASSUME IInv, WaitInv, [Next]_vars PROVE WaitInv'
<1>0. TypeOK /\ None \notin Conns /\ None \notin Threads
  BY PgTokensAssumption DEF IInv
<1>1. CASE \E t \in Threads : CallCreate(t) \/ CallRefresh(t) \/ CallLoad(t)
  <2>1. PICK t \in Threads : /\ pc[t] = "idle" /\ pc' = [pc EXCEPT ![t] = "connect"]
                            /\ UNCHANGED <<lock, held>>
    BY <1>1 DEF CallCreate, CallRefresh, CallLoad, Call, Goto, dbVars
  <2> QED
    BY <2>1, <1>0 DEF WaitInv, TypeOK
<1>2. CASE \E t \in Threads : Connect(t)
  <2>1. PICK t \in Threads : Connect(t)
    BY <1>2
  <2>2. PICK c \in Conns : held' = [held EXCEPT ![t] = c]
    BY <2>1 DEF Connect, Lease!Acquire
  <2> QED
    BY <2>1, <2>2, <1>0 DEF Connect, Goto, dbVars, WaitInv, TypeOK
<1>3. CASE \E t \in Threads : Exec(t)
  <2>1. PICK t \in Threads, l \in {"update", "commit", "done"} :
          /\ pc[t] = "exec" /\ pc' = [pc EXCEPT ![t] = l]
          /\ UNCHANGED <<lock, held>>
    BY <1>3 DEF Exec, ExecCreate, ExecRefresh, ExecRefreshNothing, ExecLoad, Insert, Goto, dbVars
  <2> QED
    BY <2>1, <1>0 DEF WaitInv, TypeOK
<1>4. CASE \E t \in Threads : UpdateOld(t)
  <2>1. PICK t \in Threads : UpdateOld(t)
    BY <1>4
  <2> QED
    BY <2>1, <1>0 DEF UpdateOld, Goto, WaitInv, TypeOK
<1>5. CASE \E t \in Threads : Commit(t) \/ Throw(t)
  <2>1. PICK t \in Threads : /\ pc[t] \in {"exec", "update", "commit"}
                            /\ Unlock(t) /\ pc' = [pc EXCEPT ![t] = "done"]
                            /\ UNCHANGED held
    BY <1>5 DEF Commit, Throw, Goto
  <2> QED
    BY <2>1, <1>0 DEF Unlock, WaitInv, TypeOK
<1>6. CASE \E t \in Threads : Release(t)
  <2>1. PICK t \in Threads : Release(t)
    BY <1>6
  <2> QED
    BY <2>1, <1>0 DEF Release, Lease!Release, Leave, Goto, dbVars, WaitInv, TypeOK
<1>7. CASE Tick \/ UNCHANGED vars
  BY <1>7 DEF Tick, vars, dbVars, WaitInv
<1> QED
  BY <1>1, <1>2, <1>3, <1>4, <1>5, <1>6, <1>7 DEF Next, Proceed

(* Among the calls in progress one can always go on, with however few      *)
(* connections: the holder of a row waits for nothing, and the holder of a *)
(* connection at most for a row (db_connection, refresh_token).            *)
THEOREM SomeCallGoesOn == Spec => []NotAllWait
<1>1. ASSUME IInv, WaitInv PROVE NotAllWait
  <2>1. ASSUME NEW t \in Threads, pc[t] = "update", Waits(t)
        PROVE  \E u \in Threads : pc[u] # "idle" /\ ~Waits(u)
    <3>1. arg[t] \in Pairs
      BY <1>1, <2>1 DEF IInv, CallInv
    <3>2. lock[arg[t]] \in Threads
      BY <1>1, <2>1, <3>1 DEF Waits, IInv, TypeOK
    <3>3. pc[lock[arg[t]]] = "commit"
      BY <1>1, <3>1, <3>2 DEF WaitInv
    <3> QED
      BY <3>2, <3>3 DEF Waits
  <2> SUFFICES ASSUME NEW t \in Threads, pc[t] # "idle", Waits(t)
               PROVE  \E u \in Threads : pc[u] # "idle" /\ ~Waits(u)
    BY DEF NotAllWait
  <2>2. CASE pc[t] = "connect"
    <3>1. PICK c \in Conns, u \in Threads : held[u] = c
      BY <2>2, PgTokensAssumption DEF Waits
    <3>2. pc[u] \in {"exec", "update", "commit", "done"}
      BY <1>1, <3>1, PgTokensAssumption DEF WaitInv
    <3>3. CASE Waits(u)
      BY <2>1, <3>2, <3>3 DEF Waits
    <3> QED
      BY <3>2, <3>3
  <2> QED
    BY <2>1, <2>2 DEF Waits
<1> QED
  BY <1>1, WaitInit, WaitStep, Inductive, PTL DEF Spec
=============================================================================
