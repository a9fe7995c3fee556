----------------------------- MODULE TokenCache -----------------------------
(***************************************************************************)
(* The OAuth tokens of server2_hb: m_tokens_, a map from token id to a     *)
(* shared token object, in front of redis, which keeps the payload of      *)
(* every token under "at:" or "rt:" and its id until it expires.           *)
(*                                                                         *)
(* A token object is a pair of ids, one for access and one for refresh,    *)
(* and is renewed in place: both keys of the map lead to the same object,  *)
(* which changes its ids before the keys follow.  Requests run one at a    *)
(* time on the listen thread; a redis call blocks it, can fail, and the    *)
(* process can die before or after it.                                     *)
(*                                                                         *)
(* An id is a kind and the number of its pair: uuids do not repeat.  The   *)
(* "tt:" sets are left out: nothing in the library reads them.             *)
(***************************************************************************)
EXTENDS Integers, FiniteSets

CONSTANTS
    None,
    Objs,           \* bound: token objects in memory at a time
    MaxPair,        \* bound: pairs of ids
    MaxTime,        \* bound: the clock
    Leases          \* time_access, time_refresh, with khl_token_append_time

Pairs == 1..MaxPair
Kinds == {"at", "rt"}
Ids == Kinds \X Pairs
IdsOf(k) == Kinds \X {k}

ASSUME TokenCacheAssumption ==
    /\ MaxPair \in Nat /\ MaxTime \in Nat
    /\ Leases \subseteq Nat /\ \A l \in Leases : l > 0
    /\ \E l \in Leases : \A m \in Leases : m <= l
    /\ None \notin Objs
    /\ None \notin [pair : Nat, access : Nat, refresh : Nat]
    /\ None \notin [value : [pair : Nat, access : Nat, refresh : Nat], until : Nat]

VARIABLES
    now,        \* the clock
    tokens,     \* m_tokens_: id -> object or None
    heap,       \* the token objects
    redis,      \* id -> payload and the end of its time to live, or None
    last,       \* pairs made so far
    rpc,        \* where the request is
    req,        \* its kind of token and the id it carries
    cur,        \* the token it works on
    rnow,       \* the clock it read
    prev,       \* the pair it replaces
    told,       \* history: the tokens given to clients, by pair
    replaced,   \* history: pairs whose successor was given to a client
    torn        \* history: pairs whose replacement failed halfway

reqVars == <<rpc, req, cur, rnow, prev>>
histVars == <<told, replaced, torn>>
vars == <<now, tokens, heap, redis, last, reqVars, histVars>>

(* The token object, and the payload it is written to redis as *)
Token(k, a, r) == [pair |-> k, access |-> a, refresh |-> r]

Unused(o) == o # cur /\ \A id \in Ids : tokens[id] # o

ExpireOf(tok, kind) == IF kind = "at" THEN tok.access ELSE tok.refresh

(* is_no_expire_access, is_no_expire_refresh *)
IsNoExpire(tok, kind, t) == t < ExpireOf(tok, kind)

(* append_token: insert leaves a key that is there as it is *)
AppendToken(m, o, k) ==
    [id \in Ids |-> IF id \in IdsOf(k) /\ m[id] = None THEN o ELSE m[id]]

(* remove_token *)
RemoveToken(m, k) == [id \in Ids |-> IF id \in IdsOf(k) THEN None ELSE m[id]]

(* mutant: the access key of the previous pair is kept *)
UpdateTokensRefreshOnly(m, o, k, old) == AppendToken([m EXCEPT ![<<"rt", old>>] = None], o, k)

(* update_tokens *)
UpdateTokens(m, o, k, old) == AppendToken(RemoveToken(m, old), o, k)

(* mutant: the refresh token lives as long as the access token *)
SetexAccessTtl(r, tok, late) ==
    [id \in Ids |-> IF id \in IdsOf(tok.pair)
                    THEN [value |-> tok, until |-> tok.access + late]
                    ELSE r[id]]

(* setex of the payload under both ids of its pair.  The time to live is   *)
(* the duration the expiry was computed from, and begins late: the clock   *)
(* has moved on since the request read it.                                 *)
Setex(r, tok, late) ==
    [id \in Ids |-> IF id \in IdsOf(tok.pair)
                    THEN [value |-> tok, until |-> ExpireOf(tok, id[1]) + late]
                    ELSE r[id]]

Told == {k \in Pairs : told[k] # None}

(* The request is answered *)
Answer ==
    rpc' = "idle" /\ req' = None /\ cur' = None /\ rnow' = 0 /\ prev' = 0

-----------------------------------------------------------------------------

(* The application gives a client its first pair, in memory and in redis *)
Issue ==
    /\ rpc = "idle" /\ last < MaxPair
    /\ last' = last + 1
    /\ \E o \in Objs, a, r \in Leases :
         LET tok == Token(last', now + a, now + r) IN
         /\ Unused(o)
         /\ heap' = [heap EXCEPT ![o] = tok]
         /\ tokens' = AppendToken(tokens, o, last')
         /\ redis' = Setex(redis, tok, 0)
         /\ told' = [told EXCEPT ![last'] = tok]
    /\ UNCHANGED <<now, reqVars, replaced, torn>>

(* A request with an id some client was given, for an access or a refresh  *)
(* token; m_tokens_ is looked up by the id alone.                          *)
Find ==
    /\ rpc = "idle"
    /\ \E kind \in Kinds, k \in Told, of \in Kinds :
         /\ req' = [kind |-> kind, id |-> <<of, k>>]
         /\ cur' = tokens[<<of, k>>]
         /\ rpc' = IF cur' = None THEN "load" ELSE "check"
    /\ rnow' = now
    /\ UNCHANGED <<now, tokens, heap, redis, last, prev, histVars>>

(* The token is in redis, under the prefix of the kind asked for *)
Load ==
    /\ rpc = "load" /\ req.id[1] = req.kind
    /\ redis[req.id] # None
    /\ \E o \in Objs :
         /\ Unused(o)
         /\ cur' = o
         /\ heap' = [heap EXCEPT ![o] = redis[req.id].value]
         /\ tokens' = AppendToken(tokens, o, redis[req.id].value.pair)
    /\ rpc' = "check"
    /\ UNCHANGED <<now, redis, last, req, rnow, prev, histVars>>

(* It is not, or redis fails: the request is answered without a token.     *)
(* (remove_token(id) finds nothing: the id was not in the map.)            *)
LoadNothing ==
    /\ rpc = "load"
    /\ Answer
    /\ UNCHANGED <<now, tokens, heap, redis, last, histVars>>

(* An expired token leaves the map, by the ids the object has now *)
RemoveExpired ==
    /\ rpc = "check" /\ ~IsNoExpire(heap[cur], req.kind, rnow)
    /\ tokens' = RemoveToken(tokens, heap[cur].pair)
    /\ Answer
    /\ UNCHANGED <<now, heap, redis, last, histVars>>

(* A valid access token is what the application wanted *)
Accept ==
    /\ rpc = "check" /\ IsNoExpire(heap[cur], req.kind, rnow)
    /\ req.kind = "at"
    /\ Answer
    /\ UNCHANGED <<now, tokens, heap, redis, last, histVars>>

(* action_refresh_token gives the object new ids and expiries, in place *)
Renew ==
    /\ rpc = "check" /\ IsNoExpire(heap[cur], req.kind, rnow)
    /\ req.kind = "rt" /\ last < MaxPair
    /\ last' = last + 1 /\ prev' = heap[cur].pair
    /\ \E a, r \in Leases : heap' = [heap EXCEPT ![cur] = Token(last', rnow + a, rnow + r)]
    /\ rpc' = "commit"
    /\ UNCHANGED <<now, tokens, redis, req, cur, rnow, histVars>>

(* The new state goes to redis.  (The keys deleted before it carry no      *)
(* prefix: there are none of that name.)                                   *)
Commit ==
    /\ rpc = "commit"
    /\ redis' = Setex(redis, heap[cur], now - rnow)
    /\ rpc' = "update"
    /\ UNCHANGED <<now, tokens, heap, last, req, cur, rnow, prev, histVars>>

(* redis fails, before or after it did the commands: the exception ends    *)
(* the request, and the object keeps its new ids under its old keys        *)
CommitFails ==
    /\ rpc = "commit"
    /\ redis' \in {redis, Setex(redis, heap[cur], now - rnow)}
    /\ torn' = torn \cup {prev}
    /\ Answer
    /\ UNCHANGED <<now, tokens, heap, last, told, replaced>>

(* The keys of the map follow, and the client gets the new pair *)
Update ==
    /\ rpc = "update"
    /\ tokens' = UpdateTokens(tokens, cur, heap[cur].pair, prev)
    /\ told' = [told EXCEPT ![heap[cur].pair] = heap[cur]]
    /\ replaced' = replaced \cup {prev}
    /\ Answer
    /\ UNCHANGED <<now, heap, redis, last, torn>>

(* The process dies and is started again; redis stays *)
Restart ==
    /\ tokens' = [id \in Ids |-> None]
    /\ heap' = [o \in Objs |-> None]
    /\ Answer
    /\ UNCHANGED <<now, redis, last, histVars>>

(* Time passes, and redis drops what has reached its end *)
Tick ==
    /\ now < MaxTime
    /\ now' = now + 1
    /\ redis' = [id \in Ids |-> IF redis[id] # None /\ redis[id].until <= now'
                                THEN None ELSE redis[id]]
    /\ UNCHANGED <<tokens, heap, last, reqVars, histVars>>

-----------------------------------------------------------------------------

Init ==
    /\ now = 0 /\ last = 0
    /\ tokens = [id \in Ids |-> None] /\ redis = [id \in Ids |-> None]
    /\ heap = [o \in Objs |-> None]
    /\ rpc = "idle" /\ req = None /\ cur = None /\ rnow = 0 /\ prev = 0
    /\ told = [k \in Pairs |-> None] /\ replaced = {} /\ torn = {}

Request ==
    \/ Find \/ Load \/ LoadNothing \/ RemoveExpired \/ Accept
    \/ Renew \/ Commit \/ CommitFails \/ Update

Next == Issue \/ Request \/ Restart \/ Tick

Spec == Init /\ [][Next]_vars

-----------------------------------------------------------------------------

Tokens(t) == [pair : Pairs, access : 0..t, refresh : 0..t]

Longest == CHOOSE l \in Leases : \A m \in Leases : m <= l

(* Types; and no token reaches further than the longest lease from now. *)
TypeOK ==
    /\ now \in 0..MaxTime /\ last \in 0..MaxPair
    /\ tokens \in [Ids -> Objs \cup {None}]
    /\ \A o \in Objs : heap[o] = None \/ heap[o] \in Tokens(now + Longest)
    /\ \A id \in Ids :
         \/ redis[id] = None
         \/ /\ redis[id].value \in Tokens(now + Longest)
            /\ redis[id].until \in now + 1..now + Longest
    /\ rpc \in {"idle", "load", "check", "commit", "update"}
    /\ req = None \/ req \in [kind : Kinds, id : Ids]
    /\ cur \in Objs \cup {None} /\ rnow \in 0..now /\ prev \in 0..MaxPair
    /\ Told \subseteq 1..last /\ replaced \subseteq 1..last /\ torn \subseteq 1..last

(* Between requests a key of m_tokens_ leads to the token that has that    *)
(* id, and both ids of a token are there or neither, unless the redis call *)
(* of a refresh failed: expiry, refreshes, reloads and restarts leave no   *)
(* key behind that nobody removes.                                         *)
KeysAgree ==
    rpc = "idle" =>
        \A id \in Ids : tokens[id] # None =>
            \/ id[2] \in torn
            \/ /\ heap[tokens[id]].pair = id[2]
               /\ \A other \in IdsOf(id[2]) : tokens[other] = tokens[id]

(* what parse_token makes of an id between requests *)
Findable(id) ==
    IF tokens[id] # None
    THEN IsNoExpire(heap[tokens[id]], id[1], now)
    ELSE redis[id] # None /\ IsNoExpire(redis[id].value, id[1], now)

(* A pair that a client was given works until it expires or is replaced,   *)
(* from memory or from redis: through the expiry of its other half, which  *)
(* takes both from memory, and through restarts.                           *)
AnsweredPairWorks ==
    rpc = "idle" =>
        \A id \in Ids :
            /\ id[2] \in Told \ (replaced \cup torn)
            /\ IsNoExpire(told[id[2]], id[1], now)
            => Findable(id)

(* "clear previous state": a pair that was replaced is no longer in redis. *)
PreviousStateCleared == \A k \in replaced : \A id \in IdsOf(k) : redis[id] = None
=============================================================================
