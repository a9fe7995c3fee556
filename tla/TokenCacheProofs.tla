-------------------------- MODULE TokenCacheProofs --------------------------
(***************************************************************************)
(* Theorems about TokenCache, for any number of pairs and token objects,   *)
(* any bound of the clock and any leases.                                  *)
(***************************************************************************)
EXTENDS TokenCache, TLAPS

AnyToken == [pair : Pairs, access : Nat, refresh : Nat]

Refreshing == rpc \in {"commit", "update"}

(* What the steps are made of is there: objects are tokens, an object the  *)
(* map leads to or a request works on exists, and redis keeps a token      *)
(* under its own ids.                                                      *)
ShapeInv ==
    /\ now \in Nat /\ rnow \in Nat /\ rnow <= now
    /\ last \in 0..MaxPair
    /\ tokens \in [Ids -> Objs \cup {None}]
    /\ heap \in [Objs -> AnyToken \cup {None}]
    /\ redis \in [Ids -> [value : AnyToken, until : Nat] \cup {None}]
    /\ rpc \in {"idle", "load", "check", "commit", "update"}
    /\ \A id \in Ids : tokens[id] # None => heap[tokens[id]] # None
    /\ \A id \in Ids : redis[id] # None => redis[id].value.pair = id[2]
    /\ rpc = "idle" => cur = None
    /\ rpc = "load" => cur = None /\ req.id \in Ids /\ tokens[req.id] = None
    /\ rpc \in {"check", "commit", "update"} => cur \in Objs /\ heap[cur] # None

(* A pair that was not made yet, or is being made, has no key.             *)
FreshInv ==
    /\ \A id \in Ids : tokens[id] # None => id[2] <= last
    /\ \A id \in Ids : redis[id] # None => id[2] <= last
    /\ Refreshing =>
         /\ heap[cur].pair = last /\ prev \in Pairs /\ prev < last
         /\ \A id \in Ids : id[2] = last => tokens[id] = None

(* No object has ids that were not made.                                   *)
BoundInv == \A o \in Objs : heap[o] # None => heap[o].pair <= last

(* Both keys of a pair lead to the same object or to none.                 *)
PairedInv ==
    \A id, other \in Ids :
        id[2] \notin torn /\ other[2] = id[2] => tokens[other] = tokens[id]

(* A key leads to the object that has this id, or to the one that is being *)
(* renewed.                                                                *)
LeadInv ==
    \A id \in Ids :
        id[2] \notin torn /\ tokens[id] # None =>
            IF Refreshing /\ tokens[id] = cur THEN id[2] = prev
            ELSE heap[tokens[id]].pair = id[2]

IInv == ShapeInv /\ FreshInv /\ BoundInv /\ PairedInv /\ LeadInv

-----------------------------------------------------------------------------

(* The ids of a pair                                                       *)
LEMMA IdFacts ==
    /\ \A id \in Ids : id[2] \in Pairs
    /\ \A k \in Pairs : IdsOf(k) \subseteq Ids
    /\ \A k \in Pairs, id \in Ids : id \in IdsOf(k) <=> id[2] = k
BY DEF Ids, IdsOf

LEMMA PairFacts == Pairs \subseteq Nat /\ MaxPair \in Nat /\ \A l \in Nat : l < MaxPair => l + 1 \in Pairs
BY TokenCacheAssumption DEF Pairs

(* A token that is made is a token, and neither it nor its entry in redis  *)
(* is None.                                                                *)
LEMMA TokenFacts ==
    /\ \A k \in Pairs, a, r \in Nat :
         /\ Token(k, a, r) \in AnyToken /\ Token(k, a, r).pair = k
         /\ \A kind : ExpireOf(Token(k, a, r), kind) \in Nat
    /\ None \notin AnyToken
    /\ \A tok \in AnyToken, n \in Nat :
         /\ tok.pair \in Pairs
         /\ \A kind : ExpireOf(tok, kind) \in Nat
         /\ [value |-> tok, until |-> n] # None
BY TokenCacheAssumption DEF Token, AnyToken, ExpireOf, Pairs

LEMMA InitHolds == Init => IInv
<1> SUFFICES ASSUME Init PROVE IInv
  OBVIOUS
<1>1. ShapeInv
  BY PairFacts DEF Init, ShapeInv
<1>2. FreshInv /\ PairedInv /\ LeadInv
  BY DEF Init, FreshInv, Refreshing, PairedInv, LeadInv
<1>3. BoundInv
  BY DEF Init, BoundInv
<1> QED
  BY <1>1, <1>2, <1>3 DEF IInv

(* What the operators on the map and on redis do to one id                 *)
LEMMA MapFacts ==
    ASSUME NEW k \in Pairs, ShapeInv
    PROVE  /\ \A o \in Objs :
                /\ AppendToken(tokens, o, k) \in [Ids -> Objs \cup {None}]
                /\ \A id \in Ids : AppendToken(tokens, o, k)[id] =
                     IF id[2] = k /\ tokens[id] = None THEN o ELSE tokens[id]
           /\ RemoveToken(tokens, k) \in [Ids -> Objs \cup {None}]
           /\ \A id \in Ids : RemoveToken(tokens, k)[id] = IF id[2] = k THEN None ELSE tokens[id]
<1>1. tokens \in [Ids -> Objs \cup {None}]
  BY DEF ShapeInv
<1> QED
  BY <1>1, IdFacts DEF AppendToken, RemoveToken

LEMMA RedisFacts ==
    ASSUME ShapeInv, NEW tok \in AnyToken, NEW late \in Nat
    PROVE  /\ Setex(redis, tok, late) \in [Ids -> [value : AnyToken, until : Nat] \cup {None}]
           /\ \A id \in Ids :
                IF id[2] = tok.pair
                THEN Setex(redis, tok, late)[id].value = tok
                ELSE Setex(redis, tok, late)[id] = redis[id]
<1>1. redis \in [Ids -> [value : AnyToken, until : Nat] \cup {None}]
  BY DEF ShapeInv
<1>2. tok.pair \in Pairs
  BY TokenFacts
<1>3. \A kind : ExpireOf(tok, kind) + late \in Nat
  BY TokenFacts
<1>4. ASSUME NEW id \in Ids
      PROVE  /\ Setex(redis, tok, late)[id] =
                  IF id[2] = tok.pair
                  THEN [value |-> tok, until |-> ExpireOf(tok, id[1]) + late]
                  ELSE redis[id]
             /\ Setex(redis, tok, late)[id] \in [value : AnyToken, until : Nat] \cup {None}
  BY <1>1, <1>2, <1>3, IdFacts DEF Setex
<1>5. Setex(redis, tok, late) = [id \in Ids |-> Setex(redis, tok, late)[id]]
  BY DEF Setex
<1> QED
  BY <1>4, <1>5

(* Issue: a new object under the two ids of a new pair                     *)
LEMMA IssueStep == ASSUME IInv, Issue PROVE IInv'
<1> USE DEF IInv
<1>1. PICK o \in Objs, a \in Leases, r \in Leases :
        /\ Unused(o)
        /\ heap' = [heap EXCEPT ![o] = Token(last', now + a, now + r)]
        /\ tokens' = AppendToken(tokens, o, last')
        /\ redis' = Setex(redis, Token(last', now + a, now + r), 0)
  BY DEF Issue
<1> DEFINE tok == Token(last', now + a, now + r)
<1>2. /\ rpc = "idle" /\ last' = last + 1 /\ last' \in Pairs /\ last \in Nat
      /\ UNCHANGED <<now, rpc, req, cur, rnow, prev, torn>>
  BY PairFacts DEF Issue, ShapeInv, reqVars
<1>3. tok \in AnyToken /\ tok.pair = last' /\ tok # None
  <2>1. now + a \in Nat /\ now + r \in Nat
    BY TokenCacheAssumption DEF ShapeInv
  <2> QED
    BY <1>2, <2>1, TokenFacts
<1> HIDE DEF tok
<1>4. \A id \in Ids : tokens[id] # None => id[2] # last'
  BY <1>2, IdFacts, PairFacts DEF FreshInv
<1>5. /\ \A id \in Ids : tokens'[id] = IF id[2] = last' THEN o ELSE tokens[id]
      /\ tokens' \in [Ids -> Objs \cup {None}]
  BY <1>1, <1>2, <1>4, MapFacts
<1>6. /\ heap'[o] = tok
      /\ \A p \in Objs : p # o => heap'[p] = heap[p]
      /\ heap' \in [Objs -> AnyToken \cup {None}]
      /\ \A id \in Ids : tokens[id] # o
  BY <1>1, <1>3 DEF ShapeInv, Unused, tok
<1>7. /\ \A id \in Ids : IF id[2] = last' THEN redis'[id].value = tok ELSE redis'[id] = redis[id]
      /\ redis' \in [Ids -> [value : AnyToken, until : Nat] \cup {None}]
  BY <1>1, <1>3, RedisFacts DEF tok
<1>8. ShapeInv'
  <2>1. \A id \in Ids : tokens'[id] # None => heap'[tokens'[id]] # None
    BY <1>3, <1>5, <1>6 DEF ShapeInv
  <2>2. \A id \in Ids : redis'[id] # None => redis'[id].value.pair = id[2]
    BY <1>3, <1>7 DEF ShapeInv
  <2>3. last' \in 0..MaxPair
    BY <1>2 DEF Pairs
  <2> QED
    BY <1>2, <1>5, <1>6, <1>7, <2>1, <2>2, <2>3 DEF ShapeInv
<1>9. FreshInv'
  <2>1. ~Refreshing'
    BY <1>2 DEF Refreshing
  <2> QED
    BY <1>2, <1>5, <1>7, <2>1, IdFacts, PairFacts DEF FreshInv
<1>10. PairedInv'
  BY <1>2, <1>5 DEF PairedInv
<1>11. LeadInv'
  BY <1>2, <1>3, <1>5, <1>6 DEF LeadInv, Refreshing
<1>12. BoundInv'
  <2> SUFFICES ASSUME NEW p \in Objs, heap'[p] # None PROVE heap'[p].pair <= last'
    BY DEF BoundInv
  <2>1. CASE p = o
    BY <1>2, <1>3, <1>6, <2>1
  <2>2. CASE p # o
    <3>1. heap'[p] = heap[p] /\ heap[p] \in AnyToken
      BY <1>6, <2>2 DEF ShapeInv
    <3>2. heap[p].pair \in Nat /\ heap[p].pair <= last
      BY <3>1, TokenFacts, PairFacts DEF BoundInv
    <3> QED
      BY <1>2, <3>1, <3>2
  <2> QED
    BY <2>1, <2>2
<1> QED
  BY <1>8, <1>9, <1>10, <1>11, <1>12

(* Find: the request reads the map.                                        *)
LEMMA FindStep == ASSUME IInv, Find PROVE IInv'
<1> USE DEF IInv
<1>1. PICK kind \in Kinds, k \in Told, of \in Kinds :
        /\ req' = [kind |-> kind, id |-> <<of, k>>]
        /\ cur' = tokens[<<of, k>>]
        /\ rpc' = IF cur' = None THEN "load" ELSE "check"
  BY DEF Find
<1>2. /\ rpc = "idle" /\ rnow' = now
      /\ UNCHANGED <<now, tokens, heap, redis, last, prev, torn>>
  BY DEF Find, histVars
<1>3. req'.id \in Ids /\ req'.id = <<of, k>>
  BY <1>1 DEF Told, Ids
<1>4. ShapeInv'
  BY <1>1, <1>2, <1>3 DEF ShapeInv
<1>5. FreshInv' /\ BoundInv' /\ PairedInv' /\ LeadInv'
  BY <1>1, <1>2 DEF FreshInv, BoundInv, PairedInv, LeadInv, Refreshing
<1> QED
  BY <1>4, <1>5

(* Load: an object for the token in redis, under those of its ids that     *)
(* have no key                                                             *)
LEMMA LoadStep == ASSUME IInv, Load PROVE IInv'
<1> USE DEF IInv
<1> DEFINE tok == redis[req.id].value
<1>1. PICK o \in Objs :
        /\ Unused(o)
        /\ cur' = o
        /\ heap' = [heap EXCEPT ![o] = tok]
        /\ tokens' = AppendToken(tokens, o, tok.pair)
  BY DEF Load
<1>2. /\ rpc = "load" /\ rpc' = "check" /\ redis[req.id] # None
      /\ req.id \in Ids /\ tokens[req.id] = None
      /\ UNCHANGED <<now, redis, last, req, rnow, prev, torn>>
  BY DEF Load, ShapeInv, histVars
<1>3. tok \in AnyToken /\ tok.pair = req.id[2] /\ tok.pair \in Pairs /\ tok.pair <= last /\ tok # None
  BY <1>2, IdFacts, TokenFacts DEF ShapeInv, FreshInv
<1> HIDE DEF tok
<1>4. /\ \A id \in Ids : tokens'[id] = IF id[2] = tok.pair /\ tokens[id] = None THEN o ELSE tokens[id]
      /\ tokens' \in [Ids -> Objs \cup {None}]
  BY <1>1, <1>3, MapFacts
<1>5. /\ heap'[o] = tok
      /\ \A p \in Objs : p # o => heap'[p] = heap[p]
      /\ heap' \in [Objs -> AnyToken \cup {None}]
      /\ \A id \in Ids : tokens[id] # o
  BY <1>1, <1>3 DEF ShapeInv, Unused
<1>6. ShapeInv'
  <2>1. \A id \in Ids : tokens'[id] # None => heap'[tokens'[id]] # None
    BY <1>3, <1>4, <1>5 DEF ShapeInv
  <2> QED
    BY <1>1, <1>2, <1>3, <1>4, <1>5, <2>1 DEF ShapeInv
<1>7. FreshInv'
  BY <1>2, <1>3, <1>4 DEF FreshInv, Refreshing
<1>8. PairedInv'
  BY <1>2, <1>3, <1>4 DEF PairedInv
<1>9. LeadInv'
  <2> SUFFICES ASSUME NEW id \in Ids, id[2] \notin torn, tokens'[id] # None
               PROVE  heap'[tokens'[id]].pair = id[2]
    BY <1>2 DEF LeadInv, Refreshing
  <2>1. CASE tokens'[id] = o /\ id[2] = tok.pair
    BY <2>1, <1>5
  <2>2. CASE tokens'[id] = tokens[id] /\ tokens[id] # None
    <3>1. tokens[id] \in Objs /\ tokens[id] # o
      BY <1>5, <2>2 DEF ShapeInv
    <3>2. heap[tokens[id]].pair = id[2]
      BY <1>2, <2>2 DEF LeadInv, Refreshing
    <3> QED
      BY <1>5, <2>2, <3>1, <3>2
  <2> QED
    BY <1>4, <2>1, <2>2
<1>10. BoundInv'
  BY <1>2, <1>3, <1>5 DEF BoundInv
<1> QED
  BY <1>6, <1>7, <1>8, <1>9, <1>10

(* RemoveExpired: both ids of the object's pair leave the map.             *)
LEMMA RemoveStep == ASSUME IInv, RemoveExpired PROVE IInv'
<1> USE DEF IInv
<1>1. /\ rpc = "check" /\ rpc' = "idle" /\ cur' = None /\ rnow' = 0
      /\ tokens' = RemoveToken(tokens, heap[cur].pair)
      /\ UNCHANGED <<now, heap, redis, last, torn>>
  BY DEF RemoveExpired, Answer, histVars
<1>2. heap[cur].pair \in Pairs
  BY <1>1, TokenFacts DEF ShapeInv
<1>3. /\ \A id \in Ids : tokens'[id] = IF id[2] = heap[cur].pair THEN None ELSE tokens[id]
      /\ tokens' \in [Ids -> Objs \cup {None}]
  BY <1>1, <1>2, MapFacts
<1>4. ShapeInv'
  BY <1>1, <1>3 DEF ShapeInv
<1>5. FreshInv' /\ BoundInv'
  BY <1>1, <1>3 DEF FreshInv, BoundInv, Refreshing
<1>6. PairedInv' /\ LeadInv'
  BY <1>1, <1>3 DEF PairedInv, LeadInv, Refreshing
<1> QED
  BY <1>4, <1>5, <1>6

(* Renew: the object changes under its keys.                               *)
LEMMA RenewStep == ASSUME IInv, Renew PROVE IInv'
<1> USE DEF IInv
<1>1. PICK a \in Leases, r \in Leases :
        heap' = [heap EXCEPT ![cur] = Token(last', rnow + a, rnow + r)]
  BY DEF Renew
<1> DEFINE tok == Token(last', rnow + a, rnow + r)
<1>2. /\ rpc = "check" /\ rpc' = "commit"
      /\ last' = last + 1 /\ last' \in Pairs /\ last \in Nat /\ prev' = heap[cur].pair
      /\ cur \in Objs /\ heap[cur] \in AnyToken
      /\ UNCHANGED <<now, tokens, redis, req, cur, rnow, torn>>
  BY PairFacts DEF Renew, ShapeInv, histVars
<1>3. tok \in AnyToken /\ tok.pair = last' /\ tok # None
  <2>1. rnow + a \in Nat /\ rnow + r \in Nat
    BY TokenCacheAssumption DEF ShapeInv
  <2> QED
    BY <1>2, <2>1, TokenFacts
<1> HIDE DEF tok
<1>4. /\ heap'[cur] = tok
      /\ \A p \in Objs : p # cur => heap'[p] = heap[p]
      /\ heap' \in [Objs -> AnyToken \cup {None}]
  BY <1>1, <1>2, <1>3 DEF ShapeInv, tok
<1>5. ShapeInv'
  <2>1. last' \in 0..MaxPair
    BY <1>2 DEF Pairs
  <2>2. \A id \in Ids : tokens[id] # None => heap'[tokens[id]] # None
    BY <1>3, <1>4 DEF ShapeInv
  <2> QED
    BY <1>2, <1>3, <1>4, <2>1, <2>2 DEF ShapeInv
<1>6. FreshInv'
  <2>1. heap[cur].pair \in Pairs /\ heap[cur].pair \in Nat
    BY <1>2, TokenFacts, PairFacts
  <2>2. heap[cur].pair <= last
    BY <1>2, TokenFacts DEF BoundInv
  <2>3. \A id \in Ids : tokens[id] # None => id[2] <= last /\ id[2] \in Nat
    BY IdFacts, PairFacts DEF FreshInv
  <2>4. \A id \in Ids : redis[id] # None => id[2] <= last /\ id[2] \in Nat
    BY IdFacts, PairFacts DEF FreshInv
  <2> QED
    BY <1>2, <1>3, <1>4, <2>1, <2>2, <2>3, <2>4 DEF FreshInv
<1>7. PairedInv'
  BY <1>2 DEF PairedInv
<1>8. LeadInv'
  BY <1>2, <1>4 DEF LeadInv, Refreshing, ShapeInv
<1>9. BoundInv'
  <2> SUFFICES ASSUME NEW p \in Objs, heap'[p] # None PROVE heap'[p].pair <= last'
    BY DEF BoundInv
  <2>1. CASE p = cur
    BY <1>2, <1>3, <1>4, <2>1
  <2>2. CASE p # cur
    <3>1. heap'[p] = heap[p] /\ heap[p] \in AnyToken
      BY <1>4, <2>2 DEF ShapeInv
    <3>2. heap[p].pair \in Nat /\ heap[p].pair <= last
      BY <3>1, TokenFacts, PairFacts DEF BoundInv
    <3> QED
      BY <1>2, <3>1, <3>2
  <2> QED
    BY <2>1, <2>2
<1> QED
  BY <1>5, <1>6, <1>7, <1>8, <1>9

(* Commit, and the commit that fails: the new token goes to redis under    *)
(* ids of which the map has no key yet.                                    *)
LEMMA CommitStep == ASSUME IInv, Commit \/ CommitFails PROVE IInv'
<1> USE DEF IInv
<1>1. /\ rpc = "commit"
      /\ redis' = redis \/ redis' = Setex(redis, heap[cur], now - rnow)
      /\ \/ rpc' = "update" /\ UNCHANGED <<torn, cur, prev, rnow>>
         \/ rpc' = "idle" /\ torn' = torn \cup {prev} /\ cur' = None /\ rnow' = 0
      /\ UNCHANGED <<now, tokens, heap, last>>
  BY DEF Commit, CommitFails, Answer, histVars
<1>2. /\ heap[cur] \in AnyToken /\ heap[cur].pair = last /\ last \in Nat
      /\ now - rnow \in Nat
  BY <1>1 DEF ShapeInv, FreshInv, Refreshing
<1>3. /\ redis' \in [Ids -> [value : AnyToken, until : Nat] \cup {None}]
      /\ \A id \in Ids : redis'[id] # redis[id] => id[2] = last /\ redis'[id].value = heap[cur]
  BY <1>1, <1>2, RedisFacts DEF ShapeInv
<1>4. ShapeInv'
  <2>1. \A id \in Ids : redis'[id] # None => redis'[id].value.pair = id[2]
    BY <1>2, <1>3 DEF ShapeInv
  <2>2. rnow' \in Nat /\ rnow' <= now
    BY <1>1 DEF ShapeInv
  <2> QED
    BY <1>1, <1>3, <2>1, <2>2 DEF ShapeInv
<1>5. FreshInv'
  <2>1. \A id \in Ids : redis'[id] # None => id[2] <= last
    BY <1>2, <1>3, IdFacts, PairFacts DEF FreshInv
  <2> QED
    BY <1>1, <2>1 DEF FreshInv, Refreshing
<1>6. BoundInv'
  BY <1>1 DEF BoundInv
<1>7. PairedInv'
  BY <1>1 DEF PairedInv
<1>8. LeadInv'
  BY <1>1 DEF LeadInv, Refreshing
<1> QED
  BY <1>4, <1>5, <1>6, <1>7, <1>8

(* Update: the old keys go, the new ones lead to the object.               *)
LEMMA UpdateStep == ASSUME IInv, Update PROVE IInv'
<1> USE DEF IInv
<1>1. /\ rpc = "update" /\ rpc' = "idle" /\ cur' = None /\ rnow' = 0
      /\ tokens' = UpdateTokens(tokens, cur, heap[cur].pair, prev)
      /\ UNCHANGED <<now, heap, redis, last, torn>>
  BY DEF Update, Answer
<1>2. /\ cur \in Objs /\ heap[cur] # None /\ heap[cur].pair = last
      /\ prev \in Pairs /\ prev < last /\ last \in Pairs
      /\ \A id \in Ids : id[2] = last => tokens[id] = None
  <2>1. heap[cur] \in AnyToken
    BY <1>1 DEF ShapeInv
  <2> QED
    BY <1>1, <2>1, TokenFacts DEF ShapeInv, FreshInv, Refreshing
<1>3. \A id \in Ids : tokens'[id] = IF id[2] = last THEN cur
                                    ELSE IF id[2] = prev THEN None ELSE tokens[id]
  <2>1. \A id \in Ids : RemoveToken(tokens, prev)[id] = IF id[2] = prev THEN None ELSE tokens[id]
    BY <1>2, MapFacts
  <2>2. \A id \in Ids : tokens'[id] =
          IF id[2] = last /\ RemoveToken(tokens, prev)[id] = None THEN cur
          ELSE RemoveToken(tokens, prev)[id]
    BY <1>1, <1>2, IdFacts DEF UpdateTokens, AppendToken
  <2> QED
    BY <1>2, <2>1, <2>2
<1>4. tokens' \in [Ids -> Objs \cup {None}]
  <2>1. tokens' = [id \in Ids |-> tokens'[id]]
    BY <1>1 DEF UpdateTokens, AppendToken
  <2> QED
    BY <1>2, <1>3, <2>1 DEF ShapeInv
<1>5. ShapeInv'
  BY <1>1, <1>2, <1>3, <1>4 DEF ShapeInv
<1>6. FreshInv' /\ BoundInv'
  BY <1>1, <1>2, <1>3, PairFacts DEF FreshInv, BoundInv, Refreshing
<1>7. PairedInv'
  BY <1>1, <1>3 DEF PairedInv
<1>8. LeadInv'
  BY <1>1, <1>2, <1>3 DEF LeadInv, Refreshing
<1> QED
  BY <1>5, <1>6, <1>7, <1>8

(* An answer that changes no data, a restart, and time                     *)
LEMMA OtherStep ==
    ASSUME IInv, LoadNothing \/ Accept \/ Restart \/ Tick \/ UNCHANGED vars
    PROVE  IInv'
<1> USE DEF IInv
<1>1. CASE (LoadNothing \/ Accept)
  <2>1. /\ ~Refreshing /\ rpc' = "idle" /\ cur' = None /\ rnow' = 0
        /\ UNCHANGED <<now, tokens, heap, redis, last, torn>>
    BY <1>1 DEF LoadNothing, Accept, Answer, histVars, Refreshing
  <2> QED
    BY <2>1 DEF ShapeInv, FreshInv, BoundInv, PairedInv, LeadInv, Refreshing
<1>2. CASE Restart
  BY <1>2 DEF Restart, Answer, histVars, ShapeInv, FreshInv, BoundInv, PairedInv, LeadInv, Refreshing
<1>3. CASE Tick
  <2>1. /\ now' = now + 1 /\ UNCHANGED <<tokens, heap, last, reqVars, torn>>
        /\ redis' = [id \in Ids |-> IF redis[id] # None /\ redis[id].until <= now'
                                    THEN None ELSE redis[id]]
    BY <1>3 DEF Tick, histVars
  <2>2. /\ \A id \in Ids : redis'[id] = None \/ redis'[id] = redis[id]
        /\ redis' \in [Ids -> [value : AnyToken, until : Nat] \cup {None}]
    BY <2>1 DEF ShapeInv
  <2> QED
    BY <2>1, <2>2 DEF ShapeInv, FreshInv, BoundInv, PairedInv, LeadInv, Refreshing, reqVars
<1>4. CASE UNCHANGED vars
  BY <1>4 DEF vars, reqVars, histVars, ShapeInv, FreshInv, BoundInv, PairedInv, LeadInv, Refreshing
<1> QED
  BY <1>1, <1>2, <1>3, <1>4

LEMMA NextHolds == IInv /\ [Next]_vars => IInv'
BY IssueStep, FindStep, LoadStep, RemoveStep, RenewStep, CommitStep, UpdateStep, OtherStep
   DEF Next, Request

(* The map, the token objects and redis fit together at every step of a    *)
(* request (find_token, parse_token, action_refresh_token).                *)
THEOREM Inductive == Spec => []IInv
<1> QED
  BY InitHolds, NextHolds, PTL DEF Spec

(* Between requests both keys of a pair lead to the token that has its     *)
(* ids, or to none, but for pairs whose refresh failed in redis            *)
(* (append_token, remove_token, update_tokens).                            *)
THEOREM KeysFollowTokens == Spec => []KeysAgree
<1>1. IInv => KeysAgree
  BY IdFacts DEF IInv, KeysAgree, PairedInv, LeadInv, Refreshing
<1> QED
  BY <1>1, Inductive, PTL

-----------------------------------------------------------------------------

(* A token that was given to a client, in memory and in redis              *)
ToldInv ==
    /\ told \in [Pairs -> AnyToken \cup {None}]
    /\ \A k \in Told : told[k].pair = k /\ k <= last
    /\ Refreshing => last \notin Told

(* All objects and entries of a pair that a client has, or is about to     *)
(* have, are the same token.                                               *)
CopiesOf(tok) ==
    /\ \A o \in Objs : heap[o] # None /\ heap[o].pair = tok.pair => heap[o] = tok
    /\ \A id \in Ids : redis[id] # None /\ id[2] = tok.pair => redis[id].value = tok

SameInv ==
    /\ \A k \in Told : CopiesOf(told[k])
    /\ Refreshing => CopiesOf(heap[cur])

(* redis keeps a token at least until it expires.                          *)
Kept(tok) ==
    \A kind \in Kinds :
        now < ExpireOf(tok, kind) =>
            /\ redis[<<kind, tok.pair>>] # None
            /\ redis[<<kind, tok.pair>>].until >= ExpireOf(tok, kind)

KeepInv ==
    /\ \A k \in Told : Kept(told[k])
    /\ rpc = "update" => Kept(heap[cur])

AInv == ToldInv /\ SameInv /\ KeepInv

(* Setex writes both entries of its pair, good for the rest of each lease. *)
LEMMA SetexFacts ==
    ASSUME NEW tok \in AnyToken, NEW late \in Nat, redis' = Setex(redis, tok, late)
    PROVE  /\ \A id \in Ids : IF id[2] = tok.pair THEN redis'[id].value = tok
                                                 ELSE redis'[id] = redis[id]
           /\ \A kind \in Kinds : /\ <<kind, tok.pair>> \in Ids
                                  /\ redis'[<<kind, tok.pair>>] # None
                                  /\ redis'[<<kind, tok.pair>>].until >= ExpireOf(tok, kind)
<1>1. tok.pair \in Pairs /\ \A kind : ExpireOf(tok, kind) \in Nat
  BY TokenFacts
<1>2. \A id \in Ids : IF id[2] = tok.pair
                      THEN redis'[id] = [value |-> tok, until |-> ExpireOf(tok, id[1]) + late]
                      ELSE redis'[id] = redis[id]
  BY <1>1, IdFacts DEF Setex
<1>3. ASSUME NEW kind \in Kinds
      PROVE  /\ <<kind, tok.pair>> \in Ids
             /\ redis'[<<kind, tok.pair>>] = [value |-> tok, until |-> ExpireOf(tok, kind) + late]
  BY <1>1, <1>2 DEF Ids
<1>4. ASSUME NEW kind \in Kinds
      PROVE  /\ <<kind, tok.pair>> \in Ids
             /\ redis'[<<kind, tok.pair>>] # None
             /\ redis'[<<kind, tok.pair>>].until >= ExpireOf(tok, kind)
  <2>1. ExpireOf(tok, kind) + late \in Nat /\ ExpireOf(tok, kind) + late >= ExpireOf(tok, kind)
    BY <1>1
  <2>2. [value |-> tok, until |-> ExpireOf(tok, kind) + late] # None
    BY <2>1, TokenFacts
  <2>3. /\ <<kind, tok.pair>> \in Ids
        /\ redis'[<<kind, tok.pair>>] = [value |-> tok, until |-> ExpireOf(tok, kind) + late]
    BY <1>3
  <2>4. [value |-> tok, until |-> ExpireOf(tok, kind) + late].until = ExpireOf(tok, kind) + late
    OBVIOUS
  <2> QED
    BY <2>1, <2>2, <2>3, <2>4
<1>5. \A id \in Ids : IF id[2] = tok.pair THEN redis'[id].value = tok
                                          ELSE redis'[id] = redis[id]
  <2> SUFFICES ASSUME NEW id \in Ids
               PROVE  IF id[2] = tok.pair THEN redis'[id].value = tok ELSE redis'[id] = redis[id]
    OBVIOUS
  <2>1. [value |-> tok, until |-> ExpireOf(tok, id[1]) + late].value = tok
    OBVIOUS
  <2> QED
    BY <1>2, <2>1
<1> QED
  BY <1>4, <1>5

LEMMA AnswerIssueStep == ASSUME IInv, AInv, Issue PROVE AInv'
<1> USE DEF AInv
<1>1. PICK o \in Objs, a \in Leases, r \in Leases :
        LET t == Token(last', now + a, now + r) IN
        /\ Unused(o)
        /\ heap' = [heap EXCEPT ![o] = t]
        /\ tokens' = AppendToken(tokens, o, last')
        /\ redis' = Setex(redis, t, 0)
        /\ told' = [told EXCEPT ![last'] = t]
  BY Zenon DEF Issue
<1>2. /\ rpc = "idle" /\ rpc' = "idle" /\ last' = last + 1 /\ last' \in Pairs /\ last \in Nat
      /\ now' = now
  BY PairFacts DEF Issue, IInv, ShapeInv, reqVars
<1>3. PICK tok \in AnyToken : /\ tok = Token(last', now + a, now + r)
                              /\ tok.pair = last' /\ tok # None
  <2>1. now + a \in Nat /\ now + r \in Nat
    BY TokenCacheAssumption DEF IInv, ShapeInv
  <2> QED
    BY <1>2, <2>1, TokenFacts
<1>4. heap' = [heap EXCEPT ![o] = tok] /\ redis' = Setex(redis, tok, 0) /\ told' = [told EXCEPT ![last'] = tok]
  BY <1>1, <1>3
<1>5. /\ told' \in [Pairs -> AnyToken \cup {None}] /\ told'[last'] = tok
      /\ \A k \in Pairs : k # last' => told'[k] = told[k]
  BY <1>2, <1>3, <1>4 DEF ToldInv
<1>6. /\ heap'[o] = tok /\ \A p \in Objs : p # o => heap'[p] = heap[p]
      /\ \A p \in Objs : heap[p] # None => heap[p].pair # last'
  <2>1. \A p \in Objs : heap[p] # None => heap[p].pair \in Nat
    BY TokenFacts, PairFacts DEF IInv, ShapeInv
  <2> QED
    BY <1>2, <1>4, <2>1 DEF IInv, ShapeInv, BoundInv
<1>7. /\ \A id \in Ids : IF id[2] = last' THEN redis'[id].value = tok ELSE redis'[id] = redis[id]
      /\ Kept(tok)'
  <2>1. 0 \in Nat /\ redis' = Setex(redis, tok, 0)
    BY <1>4
  <2>2. \A id \in Ids : IF id[2] = tok.pair THEN redis'[id].value = tok ELSE redis'[id] = redis[id]
    BY <2>1, SetexFacts
  <2>3. Kept(tok)'
    BY <2>1, SetexFacts DEF Kept
  <2> QED
    BY <1>3, <2>2, <2>3
<1>8. \A k \in Told : k # last' /\ k <= last' /\ k \in Pairs /\ told'[k] = told[k] /\ told[k].pair = k
  BY <1>2, <1>5, PairFacts DEF ToldInv, Told
<1>9. \A k \in Told' : k = last' \/ k \in Told
  BY <1>5 DEF Told
<1>10. ToldInv'
  <2>1. \A k \in Told' : told'[k].pair = k /\ k <= last'
    BY <1>2, <1>3, <1>5, <1>8, <1>9, PairFacts
  <2> QED
    BY <1>2, <1>5, <2>1 DEF ToldInv, Refreshing
<1>11. SameInv'
  <2>1. ASSUME NEW k \in Told PROVE CopiesOf(told[k])'
    BY <1>3, <1>6, <1>7, <1>8, <2>1 DEF SameInv, CopiesOf
  <2>2. CopiesOf(tok)'
    BY <1>3, <1>6, <1>7 DEF CopiesOf
  <2> QED
    BY <1>2, <1>5, <1>8, <1>9, <2>1, <2>2 DEF SameInv, Refreshing, CopiesOf
<1>12. KeepInv'
  <2>1. ASSUME NEW k \in Told PROVE Kept(told[k])'
    <3>1. \A kind \in Kinds : <<kind, k>> \in Ids /\ redis'[<<kind, k>>] = redis[<<kind, k>>]
      BY <1>7, <1>8 DEF Ids
    <3> QED
      BY <1>2, <1>8, <2>1, <3>1 DEF KeepInv, Kept
  <2> QED
    BY <1>2, <1>5, <1>7, <1>8, <1>9, <2>1 DEF KeepInv, Kept
<1> QED
  BY <1>10, <1>11, <1>12

(* Load: the object is the token that redis has.                           *)
LEMMA AnswerLoadStep == ASSUME IInv, AInv, Load PROVE AInv'
<1> USE DEF AInv
<1>1. PICK o \in Objs : heap' = [heap EXCEPT ![o] = redis[req.id].value]
  BY DEF Load
<1>2. /\ rpc = "load" /\ rpc' = "check" /\ redis[req.id] # None /\ req.id \in Ids
      /\ UNCHANGED <<now, redis, last, told>>
  BY DEF Load, IInv, ShapeInv, histVars
<1>3. /\ heap'[o] = redis[req.id].value /\ \A p \in Objs : p # o => heap'[p] = heap[p]
      /\ redis[req.id].value.pair = req.id[2]
  BY <1>1, <1>2 DEF IInv, ShapeInv
<1>4. Told' = Told
  BY <1>2 DEF Told
<1>5. ToldInv' /\ KeepInv'
  BY <1>2, <1>4 DEF ToldInv, KeepInv, Kept, Refreshing
<1>6. SameInv'
  <2>1. ASSUME NEW k \in Told PROVE CopiesOf(told[k])'
    BY <1>2, <1>3, <2>1 DEF SameInv, CopiesOf
  <2> QED
    BY <1>2, <1>4, <2>1 DEF SameInv, Refreshing, CopiesOf
<1> QED
  BY <1>5, <1>6

(* Renew: the object leaves its pair for one that nobody has.              *)
LEMMA AnswerRenewStep == ASSUME IInv, AInv, Renew PROVE AInv'
<1> USE DEF AInv
<1>1. PICK a \in Leases, r \in Leases :
        heap' = [heap EXCEPT ![cur] = Token(last', rnow + a, rnow + r)]
  BY DEF Renew
<1>2. /\ rpc = "check" /\ rpc' = "commit"
      /\ last' = last + 1 /\ last' \in Pairs /\ last \in Nat
      /\ cur \in Objs /\ UNCHANGED <<now, redis, cur, told>>
  BY PairFacts DEF Renew, IInv, ShapeInv, histVars
<1>3. PICK tok \in AnyToken : tok = Token(last', rnow + a, rnow + r) /\ tok.pair = last'
  <2>1. rnow + a \in Nat /\ rnow + r \in Nat
    BY TokenCacheAssumption DEF IInv, ShapeInv
  <2> QED
    BY <1>2, <2>1, TokenFacts
<1>4. heap' = [heap EXCEPT ![cur] = tok]
  BY <1>1, <1>3
<1>5. /\ heap'[cur] = tok /\ \A p \in Objs : p # cur => heap'[p] = heap[p]
      /\ \A p \in Objs : heap[p] # None => heap[p].pair # last'
  <2>1. \A p \in Objs : heap[p] # None => heap[p].pair \in Nat
    BY TokenFacts, PairFacts DEF IInv, ShapeInv
  <2> QED
    BY <1>2, <1>4, <2>1 DEF IInv, ShapeInv, BoundInv
<1>6. \A id \in Ids : redis[id] # None => id[2] # last'
  BY <1>2, IdFacts, PairFacts DEF IInv, FreshInv
<1>7. Told' = Told /\ \A k \in Told : k # last' /\ k <= last' /\ told[k].pair = k
  BY <1>2, PairFacts DEF Told, ToldInv
<1>8. ToldInv' /\ KeepInv'
  BY <1>2, <1>7 DEF ToldInv, KeepInv, Kept
<1>9. SameInv'
  <2>1. ASSUME NEW k \in Told PROVE CopiesOf(told[k])'
    BY <1>2, <1>3, <1>5, <1>7, <2>1 DEF SameInv, CopiesOf
  <2>2. CopiesOf(tok)'
    BY <1>2, <1>3, <1>5, <1>6 DEF CopiesOf
  <2> QED
    BY <1>2, <1>5, <1>7, <2>1, <2>2 DEF SameInv, CopiesOf
<1> QED
  BY <1>8, <1>9

(* Commit, whole or not: only entries of the new pair are written.         *)
LEMMA AnswerCommitStep == ASSUME IInv, AInv, Commit \/ CommitFails PROVE AInv'
<1> USE DEF AInv
<1>1. /\ rpc = "commit" /\ Refreshing
      /\ redis' = redis \/ redis' = Setex(redis, heap[cur], now - rnow)
      /\ \/ rpc' = "update" /\ cur' = cur /\ redis' = Setex(redis, heap[cur], now - rnow)
         \/ rpc' = "idle"
      /\ UNCHANGED <<now, heap, last, told>>
  BY DEF Commit, CommitFails, Answer, histVars, Refreshing
<1>2. heap[cur] \in AnyToken /\ heap[cur].pair = last /\ now - rnow \in Nat /\ last \notin Told
  BY <1>1 DEF IInv, ShapeInv, FreshInv, ToldInv
<1>3. /\ \A id \in Ids : redis'[id] = redis[id] \/ (id[2] = last /\ redis'[id].value = heap[cur])
      /\ rpc' = "update" => Kept(heap[cur])'
  <2>1. PICK tok \in AnyToken : tok = heap[cur]
    BY <1>2
  <2>2. CASE redis' = Setex(redis, tok, now - rnow)
    <3>1. \A id \in Ids : redis'[id] = redis[id] \/ (id[2] = tok.pair /\ redis'[id].value = tok)
      BY <1>2, <2>2, SetexFacts
    <3>3. Kept(tok)'
      BY <1>2, <2>2, SetexFacts DEF Kept
    <3>2. rpc' = "update" => heap'[cur'] = tok
      BY <1>1, <2>1
    <3> QED
      BY <1>2, <2>1, <3>1, <3>2, <3>3 DEF Kept
  <2>3. CASE redis' = redis /\ redis' # Setex(redis, tok, now - rnow)
    BY <1>1, <2>1, <2>3
  <2> QED
    BY <1>1, <2>1, <2>2, <2>3, Zenon
<1>4. Told' = Told
  BY <1>1 DEF Told
<1>5. ToldInv'
  BY <1>1, <1>4 DEF ToldInv, Refreshing
<1>6. SameInv'
  <2>1. ASSUME NEW k \in Told PROVE CopiesOf(told[k])'
    BY <1>1, <1>2, <1>3, <2>1 DEF SameInv, CopiesOf, ToldInv
  <2>2. rpc' = "update" => CopiesOf(heap[cur])'
    BY <1>1, <1>2, <1>3 DEF SameInv, CopiesOf
  <2> QED
    BY <1>1, <1>4, <2>1, <2>2 DEF SameInv, CopiesOf, Refreshing
<1>7. KeepInv'
  <2>1. ASSUME NEW k \in Told PROVE Kept(told[k])'
    <3>1. k # last /\ k \in Pairs /\ told[k].pair = k
      BY <1>2 DEF ToldInv, Told
    <3>2. \A kind \in Kinds : <<kind, k>> \in Ids /\ redis'[<<kind, k>>] = redis[<<kind, k>>]
      BY <1>3, <3>1 DEF Ids
    <3> QED
      BY <1>1, <3>1, <3>2 DEF KeepInv, Kept
  <2> QED
    BY <1>1, <1>3, <1>4, <2>1 DEF KeepInv, Kept
<1> QED
  BY <1>5, <1>6, <1>7

(* Update: the client has the pair that redis keeps.                       *)
LEMMA AnswerUpdateStep == ASSUME IInv, AInv, Update PROVE AInv'
<1> USE DEF AInv
<1>1. /\ rpc = "update" /\ Refreshing /\ rpc' = "idle"
      /\ told' = [told EXCEPT ![heap[cur].pair] = heap[cur]]
      /\ UNCHANGED <<now, heap, redis, last>>
  BY DEF Update, Answer, Refreshing
<1>2. heap[cur] \in AnyToken /\ heap[cur].pair = last /\ last \in Pairs /\ heap[cur] # None
  <2>1. heap[cur] \in AnyToken /\ heap[cur].pair = last
    BY <1>1 DEF IInv, ShapeInv, FreshInv
  <2> QED
    BY <2>1, TokenFacts
<1>3. /\ told' \in [Pairs -> AnyToken \cup {None}] /\ told'[last] = heap[cur]
      /\ \A k \in Pairs : k # last => told'[k] = told[k]
  BY <1>1, <1>2 DEF ToldInv
<1>4. ASSUME NEW k \in Told'
      PROVE  /\ k \in Pairs
             /\ (k = last /\ told'[k] = heap[cur]) \/ (k \in Told /\ told'[k] = told[k])
  <2>1. k \in Pairs /\ told'[k] # None
    BY DEF Told
  <2>2. CASE k = last
    BY <1>3, <2>1, <2>2
  <2>3. CASE k # last
    <3>1. told'[k] = told[k]
      BY <1>3, <2>1, <2>3
    <3> QED
      BY <2>1, <3>1 DEF Told
  <2> QED
    BY <2>2, <2>3
<1>5. last <= last
  BY <1>2, PairFacts
<1>6. ToldInv'
  BY <1>1, <1>2, <1>3, <1>4, <1>5 DEF ToldInv, Refreshing
<1>7. SameInv'
  <2>1. CopiesOf(heap[cur])
    BY <1>1 DEF SameInv
  <2> QED
    BY <1>1, <1>4, <2>1 DEF SameInv, CopiesOf, Refreshing
<1>8. KeepInv'
  <2>1. Kept(heap[cur])
    BY <1>1 DEF KeepInv
  <2> QED
    BY <1>1, <1>4, <2>1 DEF KeepInv, Kept
<1> QED
  BY <1>6, <1>7, <1>8

(* Time: redis drops an entry at its end, which no token outlives.         *)
LEMMA AnswerTickStep == ASSUME IInv, AInv, Tick PROVE AInv'
<1> USE DEF AInv
<1>1. /\ now' = now + 1 /\ now \in Nat
      /\ UNCHANGED <<heap, last, rpc, cur, told>>
      /\ \A id \in Ids : IF redis[id] # None /\ redis[id].until <= now' THEN redis'[id] = None
                                                                       ELSE redis'[id] = redis[id]
  BY DEF Tick, reqVars, histVars, IInv, ShapeInv
<1>2. Told' = Told
  BY <1>1 DEF Told
<1>3. ToldInv'
  BY <1>1, <1>2 DEF ToldInv, Refreshing
<1>4. SameInv'
  BY <1>1, <1>2 DEF SameInv, CopiesOf, Refreshing
<1>5. ASSUME NEW tok \in AnyToken, Kept(tok) PROVE Kept(tok)'
  <2> SUFFICES ASSUME NEW kind \in Kinds, now' < ExpireOf(tok, kind)
               PROVE  /\ redis'[<<kind, tok.pair>>] # None
                      /\ redis'[<<kind, tok.pair>>].until >= ExpireOf(tok, kind)
    BY <1>1 DEF Kept
  <2> DEFINE id == <<kind, tok.pair>>
  <2>1. id \in Ids /\ ExpireOf(tok, kind) \in Nat
    BY TokenFacts DEF Ids
  <2>2. redis[id] # None /\ redis[id].until >= ExpireOf(tok, kind)
    BY <1>1, <1>5, <2>1 DEF Kept
  <2>3. redis[id].until \in Nat
    BY <2>1, <2>2 DEF IInv, ShapeInv
  <2>4. redis'[id] = redis[id]
    BY <1>1, <2>1, <2>2, <2>3
  <2> QED
    BY <2>2, <2>4
<1>6. KeepInv'
  <2>1. \A k \in Told : told[k] \in AnyToken
    BY DEF ToldInv, Told
  <2>2. rpc = "update" => heap[cur] \in AnyToken
    BY DEF IInv, ShapeInv
  <2> QED
    BY <1>1, <1>2, <1>5, <2>1, <2>2 DEF KeepInv, Kept
<1> QED
  BY <1>3, <1>4, <1>6

(* A request that reads, an answer without a token, and a restart          *)
LEMMA AnswerOtherStep ==
    ASSUME IInv, AInv,
           Find \/ LoadNothing \/ RemoveExpired \/ Accept \/ Restart \/ UNCHANGED vars
    PROVE  AInv'
<1>1. /\ UNCHANGED <<now, redis, last, told>>
      /\ heap' = heap \/ heap' = [o \in Objs |-> None]
      /\ UNCHANGED <<rpc, cur, heap>> \/ rpc' \in {"idle", "load", "check"}
  BY DEF Find, LoadNothing, RemoveExpired, Accept, Restart, vars, reqVars, histVars, Answer
<1>2. Told' = Told
  BY <1>1 DEF Told
<1> QED
  BY <1>1, <1>2 DEF AInv, ToldInv, SameInv, CopiesOf, KeepInv, Kept, Refreshing

LEMMA AnswerInitHolds == Init => AInv
BY DEF Init, AInv, ToldInv, Told, SameInv, KeepInv, Refreshing

LEMMA AnswerNextHolds == IInv /\ AInv /\ [Next]_vars => AInv'
BY AnswerIssueStep, AnswerLoadStep, AnswerRenewStep, AnswerCommitStep, AnswerUpdateStep,
   AnswerTickStep, AnswerOtherStep
   DEF Next, Request

(* A pair that a client was given works until it expires or is replaced:   *)
(* what memory and redis have under its ids is the token the client has    *)
(* (parse_token, find_token, action_refresh_token).                        *)
THEOREM AnsweredPairsWork == Spec => []AnsweredPairWorks
<1>1. IInv /\ AInv => AnsweredPairWorks
  <2> SUFFICES ASSUME IInv, AInv, rpc = "idle", NEW id \in Ids,
                      id[2] \in Told \ (replaced \cup torn),
                      IsNoExpire(told[id[2]], id[1], now)
               PROVE  Findable(id)
    BY DEF AnsweredPairWorks
  <2>1. told[id[2]].pair = id[2] /\ CopiesOf(told[id[2]]) /\ Kept(told[id[2]])
    BY DEF AInv, ToldInv, SameInv, KeepInv
  <2>2. CASE tokens[id] # None
    <3>1. tokens[id] \in Objs /\ heap[tokens[id]] # None /\ heap[tokens[id]].pair = id[2]
      BY <2>2 DEF IInv, ShapeInv, LeadInv, Refreshing
    <3>2. heap[tokens[id]] = told[id[2]]
      BY <2>1, <3>1 DEF CopiesOf
    <3> QED
      BY <2>2, <3>2 DEF Findable
  <2>3. CASE tokens[id] = None
    <3>1. id[1] \in Kinds /\ id = <<id[1], id[2]>>
      BY DEF Ids
    <3>2. redis[id] # None
      BY <2>1, <3>1 DEF Kept, IsNoExpire
    <3>3. redis[id].value = told[id[2]]
      BY <2>1, <3>2 DEF CopiesOf
    <3> QED
      BY <2>3, <3>2, <3>3 DEF Findable
  <2> QED
    BY <2>2, <2>3
<1> QED
  BY <1>1, Inductive, AnswerInitHolds, AnswerNextHolds, PTL DEF Spec

-----------------------------------------------------------------------------

(* Nothing expires later than the longest lease from now; redis has no     *)
(* entry that has reached its end.                                         *)
Within(tok, t) == tok.access <= t /\ tok.refresh <= t

TimeInv ==
    /\ \A o \in Objs : heap[o] # None => Within(heap[o], now + Longest)
    /\ \A id \in Ids : redis[id] # None =>
         /\ Within(redis[id].value, now + Longest)
         /\ redis[id].until \in now + 1..now + Longest
    /\ rpc = "commit" => \A kind \in Kinds : ExpireOf(heap[cur], kind) \in rnow + 1..rnow + Longest

(* Requests carry ids, and the histories are of pairs that were made.      *)
PastInv ==
    /\ now <= MaxTime /\ prev \in 0..MaxPair
    /\ req = None \/ req \in [kind : Kinds, id : Ids]
    /\ Told \subseteq 1..last /\ replaced \subseteq 1..last /\ torn \subseteq 1..last

LEMMA LeaseFacts ==
    /\ Longest \in Nat /\ Longest > 0
    /\ \A l \in Leases : l \in Nat /\ l > 0 /\ l <= Longest
<1>1. \E l \in Leases : \A m \in Leases : m <= l
  BY TokenCacheAssumption
<1>2. Longest \in Leases /\ \A m \in Leases : m <= Longest
  BY <1>1 DEF Longest
<1> QED
  BY <1>2, TokenCacheAssumption

(* A token made at t with two leases                                       *)
LEMMA MadeFacts ==
    ASSUME NEW t \in Nat, NEW n \in Nat, t <= n, NEW k \in Pairs, NEW a \in Leases, NEW r \in Leases
    PROVE  /\ Within(Token(k, t + a, t + r), n + Longest)
           /\ \A kind \in Kinds : ExpireOf(Token(k, t + a, t + r), kind) \in t + 1..t + Longest
<1>1. /\ t + a \in t + 1..t + Longest /\ t + r \in t + 1..t + Longest
      /\ t + a <= n + Longest /\ t + r <= n + Longest
  BY LeaseFacts
<1> QED
  BY <1>1 DEF Within, Token, ExpireOf, Kinds

LEMMA TimeIssueStep == ASSUME IInv, TimeInv, Issue PROVE TimeInv'
<1>1. PICK o \in Objs, a \in Leases, r \in Leases :
        LET t == Token(last', now + a, now + r) IN
        /\ Unused(o)
        /\ heap' = [heap EXCEPT ![o] = t]
        /\ tokens' = AppendToken(tokens, o, last')
        /\ redis' = Setex(redis, t, 0)
        /\ told' = [told EXCEPT ![last'] = t]
  BY Zenon DEF Issue
<1>2. /\ rpc' = "idle" /\ last' \in Pairs /\ now' = now /\ now \in Nat
  BY PairFacts DEF Issue, IInv, ShapeInv, reqVars
<1>3. PICK tok \in AnyToken : tok = Token(last', now + a, now + r)
  <2>1. now + a \in Nat /\ now + r \in Nat
    BY <1>2, LeaseFacts
  <2> QED
    BY <1>2, <2>1, TokenFacts
<1>4. heap' = [heap EXCEPT ![o] = tok] /\ redis' = Setex(redis, tok, 0)
  BY <1>1, <1>3
<1>5. /\ Within(tok, now + Longest)
      /\ \A kind \in Kinds : ExpireOf(tok, kind) \in now + 1..now + Longest
  BY <1>2, <1>3, MadeFacts
<1>6. \A p \in Objs : heap'[p] # None => Within(heap'[p], now + Longest)
  BY <1>4, <1>5 DEF TimeInv, IInv, ShapeInv
<1>7. ASSUME NEW id \in Ids, redis'[id] # None
      PROVE  /\ Within(redis'[id].value, now + Longest)
             /\ redis'[id].until \in now + 1..now + Longest
  <2>1. CASE id \in IdsOf(tok.pair)
    <3>1. redis'[id] = [value |-> tok, until |-> ExpireOf(tok, id[1]) + 0]
      BY <1>4, <2>1 DEF Setex
    <3>2. id[1] \in Kinds
      BY DEF Ids
    <3>3. ExpireOf(tok, id[1]) \in now + 1..now + Longest
      BY <1>5, <3>2
    <3>4. redis'[id].value = tok /\ redis'[id].until = ExpireOf(tok, id[1])
      BY <1>2, <3>1, <3>3, LeaseFacts
    <3> QED
      BY <1>5, <3>3, <3>4
  <2>2. CASE id \notin IdsOf(tok.pair)
    BY <1>4, <1>7, <2>2 DEF Setex, TimeInv
  <2> QED
    BY <2>1, <2>2
<1> QED
  BY <1>2, <1>6, <1>7 DEF TimeInv

LEMMA TimeLoadStep == ASSUME IInv, TimeInv, Load PROVE TimeInv'
<1>1. PICK o \in Objs : heap' = [heap EXCEPT ![o] = redis[req.id].value]
  BY DEF Load
<1>2. /\ rpc' = "check" /\ redis[req.id] # None /\ req.id \in Ids
      /\ UNCHANGED <<now, redis>>
  BY DEF Load, IInv, ShapeInv, histVars
<1>3. \A p \in Objs : heap'[p] # None => Within(heap'[p], now + Longest)
  BY <1>1, <1>2 DEF TimeInv, IInv, ShapeInv
<1> QED
  BY <1>2, <1>3 DEF TimeInv

LEMMA TimeRenewStep == ASSUME IInv, TimeInv, Renew PROVE TimeInv'
<1>1. PICK a \in Leases, r \in Leases :
        heap' = [heap EXCEPT ![cur] = Token(last', rnow + a, rnow + r)]
  BY DEF Renew
<1>2. /\ rpc' = "commit" /\ last' \in Pairs /\ cur \in Objs
      /\ now \in Nat /\ rnow \in Nat /\ rnow <= now
      /\ UNCHANGED <<now, rnow, redis, cur>>
  BY PairFacts DEF Renew, IInv, ShapeInv, histVars
<1>3. PICK tok : tok = Token(last', rnow + a, rnow + r)
  OBVIOUS
<1>4. /\ Within(tok, now + Longest)
      /\ \A kind \in Kinds : ExpireOf(tok, kind) \in rnow + 1..rnow + Longest
  BY <1>2, <1>3, MadeFacts
<1>5. heap'[cur] = tok /\ \A p \in Objs : p # cur => heap'[p] = heap[p]
  BY <1>1, <1>2, <1>3 DEF IInv, ShapeInv
<1> QED
  BY <1>2, <1>4, <1>5 DEF TimeInv

LEMMA TimeCommitStep == ASSUME IInv, TimeInv, Commit \/ CommitFails PROVE TimeInv'
<1>1. /\ rpc = "commit" /\ rpc' # "commit"
      /\ redis' = redis \/ redis' = Setex(redis, heap[cur], now - rnow)
      /\ UNCHANGED <<now, heap>>
  BY DEF Commit, CommitFails, Answer, histVars
<1>2. /\ heap[cur] \in AnyToken /\ cur \in Objs /\ heap[cur] # None
      /\ now \in Nat /\ rnow \in Nat /\ rnow <= now
  BY <1>1 DEF IInv, ShapeInv
<1>3. Within(heap[cur], now + Longest)
  BY <1>2 DEF TimeInv
<1>4. ASSUME NEW id \in Ids, redis'[id] # None
      PROVE  /\ Within(redis'[id].value, now + Longest)
             /\ redis'[id].until \in now + 1..now + Longest
  <2>1. CASE redis'[id] = redis[id]
    BY <1>4, <2>1 DEF TimeInv
  <2>2. CASE redis'[id] # redis[id]
    <3>1. redis'[id] = [value |-> heap[cur], until |-> ExpireOf(heap[cur], id[1]) + (now - rnow)]
      BY <1>1, <2>2 DEF Setex
    <3>2. id[1] \in Kinds
      BY DEF Ids
    <3>3. ExpireOf(heap[cur], id[1]) \in rnow + 1..rnow + Longest
      BY <1>1, <3>2 DEF TimeInv
    <3>4. ExpireOf(heap[cur], id[1]) + (now - rnow) \in now + 1..now + Longest
      BY <1>2, <3>3, LeaseFacts
    <3>5. redis'[id].value = heap[cur] /\ redis'[id].until = ExpireOf(heap[cur], id[1]) + (now - rnow)
      BY <3>1
    <3> QED
      BY <1>3, <3>4, <3>5
  <2> QED
    BY <2>1, <2>2
<1> QED
  BY <1>1, <1>4 DEF TimeInv

LEMMA TimeTickStep == ASSUME IInv, TimeInv, Tick PROVE TimeInv'
<1>1. /\ now' = now + 1 /\ now \in Nat
      /\ UNCHANGED <<heap, rpc, cur, rnow>>
      /\ \A id \in Ids : redis'[id] # None => /\ redis'[id] = redis[id] /\ redis[id] # None
                                            /\ ~(redis[id].until <= now')
  BY DEF Tick, reqVars, histVars, IInv, ShapeInv
<1>2. \A tok \in AnyToken : Within(tok, now + Longest) => Within(tok, now' + Longest)
  BY <1>1, LeaseFacts DEF Within, AnyToken
<1>3. \A o \in Objs : heap[o] # None => Within(heap[o], now' + Longest)
  BY <1>2 DEF TimeInv, IInv, ShapeInv
<1>4. ASSUME NEW id \in Ids, redis'[id] # None
      PROVE  /\ Within(redis'[id].value, now' + Longest)
             /\ redis'[id].until \in now' + 1..now' + Longest
  <2>1. /\ redis'[id] = redis[id] /\ redis[id].value \in AnyToken /\ redis[id].until \in Nat
        /\ Within(redis[id].value, now + Longest)
        /\ redis[id].until \in now + 1..now + Longest /\ ~(redis[id].until <= now + 1)
    BY <1>1, <1>4 DEF TimeInv, IInv, ShapeInv
  <2>2. redis[id].until \in now' + 1..now' + Longest
    BY <1>1, <2>1, LeaseFacts
  <2> QED
    BY <1>2, <2>1, <2>2
<1> QED
  BY <1>1, <1>3, <1>4 DEF TimeInv

LEMMA TimeOtherStep ==
    ASSUME TimeInv,
           Find \/ LoadNothing \/ RemoveExpired \/ Accept \/ Update \/ Restart \/ UNCHANGED vars
    PROVE  TimeInv'
<1>1. /\ UNCHANGED <<now, redis>>
      /\ heap' = heap \/ heap' = [o \in Objs |-> None]
      /\ UNCHANGED <<rpc, cur, rnow, heap>> \/ rpc' # "commit"
  BY DEF Find, LoadNothing, RemoveExpired, Accept, Update, Restart, vars, reqVars, histVars, Answer
<1> QED
  BY <1>1 DEF TimeInv

LEMMA PastStep == ASSUME IInv, AInv, PastInv, [Next]_vars PROVE PastInv'
<1>1. /\ last \in Nat /\ last' \in Nat /\ last <= last' /\ last <= MaxPair /\ MaxPair \in Nat
      /\ now' <= MaxTime
  BY PairFacts, TokenCacheAssumption
     DEF IInv, ShapeInv, PastInv, Next, Request, Issue, Find, Load, LoadNothing, RemoveExpired,
         Accept, Renew, Commit, CommitFails, Update, Restart, Tick, vars, reqVars, histVars
<1>2. 1..last \subseteq 1..last'
  BY <1>1
<1>3. CASE Issue
  <2>1. last' \in 1..last'
    BY <1>1, <1>3 DEF Issue
  <2>2. Told' \subseteq Told \cup {last'}
    BY <1>3 DEF Issue, Told
  <2> QED
    BY <1>1, <1>2, <1>3, <2>1, <2>2 DEF Issue, PastInv, reqVars
<1>4. CASE Find
  <2>1. Told' = Told /\ UNCHANGED <<last, replaced, torn, prev>>
    BY <1>4 DEF Find, Told, histVars
  <2>2. req' \in [kind : Kinds, id : Ids]
    BY <1>4 DEF Find, Told, Ids
  <2> QED
    BY <1>1, <2>1, <2>2 DEF PastInv
<1>5. CASE Renew
  <2>1. Told' = Told /\ UNCHANGED <<replaced, torn, req>>
    BY <1>5 DEF Renew, Told, histVars
  <2>2. prev' \in 0..MaxPair
    <3>1. prev' = heap[cur].pair /\ heap[cur] \in AnyToken
      BY <1>5 DEF Renew, IInv, ShapeInv
    <3> QED
      BY <3>1, TokenFacts DEF Pairs
  <2> QED
    BY <1>1, <1>2, <2>1, <2>2 DEF PastInv
<1>6. CASE Update \/ CommitFails
  <2>1. Refreshing
    BY <1>6 DEF Update, CommitFails, Refreshing
  <2>2. /\ heap[cur].pair = last /\ prev \in 1..last /\ last \in 1..last
        /\ last' = last /\ req' = None /\ prev' = 0
    BY <1>1, <1>6, <2>1 DEF Update, CommitFails, Answer, IInv, FreshInv, Pairs
  <2>3. Told' \subseteq Told \cup {last}
    <3>1. \A k \in Pairs : k # last => told'[k] = told[k] \/ told'[k] = None
      BY <1>6, <2>2 DEF Update, CommitFails, AInv, ToldInv
    <3> QED
      BY <3>1 DEF Told
  <2>4. replaced' \subseteq replaced \cup {prev} /\ torn' \subseteq torn \cup {prev}
    BY <1>6 DEF Update, CommitFails
  <2>5. prev' \in 0..MaxPair
    BY <1>1, <2>2
  <2> QED
    BY <1>1, <2>2, <2>3, <2>4, <2>5 DEF PastInv
<1>7. CASE Load \/ Commit \/ Tick \/ UNCHANGED vars
  <2>1. Told' = Told /\ UNCHANGED <<last, replaced, torn, req, prev>>
    BY <1>7 DEF Load, Commit, Tick, Told, vars, reqVars, histVars
  <2> QED
    BY <1>1, <2>1 DEF PastInv
<1>8. CASE LoadNothing \/ RemoveExpired \/ Accept \/ Restart
  <2>1. Told' = Told /\ UNCHANGED <<last, replaced, torn>> /\ req' = None /\ prev' = 0
    BY <1>8 DEF LoadNothing, RemoveExpired, Accept, Restart, Answer, Told, histVars
  <2>2. prev' \in 0..MaxPair
    BY <1>1, <2>1
  <2> QED
    BY <1>1, <2>1, <2>2 DEF PastInv
<1> QED
  BY <1>3, <1>4, <1>5, <1>6, <1>7, <1>8 DEF Next, Request

(* Types, and no token or entry of redis reaches further than the longest  *)
(* lease from now (khl_token_append_time, action_refresh_token).           *)
THEOREM TypeCorrect == Spec => []TypeOK
<1>1. Init => TimeInv /\ PastInv
  <2> SUFFICES ASSUME Init PROVE TimeInv /\ PastInv
    OBVIOUS
  <2>1. Told = {}
    BY DEF Init, Told
  <2>2. 0 <= MaxTime /\ 0 \in 0..MaxPair
    BY TokenCacheAssumption
  <2> QED
    BY <2>1, <2>2 DEF Init, TimeInv, PastInv
<1>2. IInv /\ TimeInv /\ [Next]_vars => TimeInv'
  BY TimeIssueStep, TimeLoadStep, TimeRenewStep, TimeCommitStep, TimeTickStep, TimeOtherStep
     DEF Next, Request
<1>3. IInv /\ AInv /\ PastInv /\ [Next]_vars => PastInv'
  BY PastStep
<1>4. IInv /\ TimeInv /\ PastInv => TypeOK
  <2> SUFFICES ASSUME IInv, TimeInv, PastInv PROVE TypeOK
    OBVIOUS
  <2>1. now \in Nat /\ now \in 0..MaxTime /\ rnow \in 0..now /\ now + Longest \in Nat
    BY LeaseFacts, TokenCacheAssumption DEF IInv, ShapeInv, PastInv
  <2>2. \A tok \in AnyToken : Within(tok, now + Longest) => tok \in Tokens(now + Longest)
    BY <2>1 DEF Within, AnyToken, Tokens
  <2>3. \A o \in Objs : heap[o] = None \/ heap[o] \in Tokens(now + Longest)
    BY <2>2 DEF IInv, ShapeInv, TimeInv
  <2>4. \A id \in Ids : redis[id] = None \/ redis[id].value \in AnyToken
    BY DEF IInv, ShapeInv
  <2>5. \A id \in Ids : \/ redis[id] = None
                       \/ /\ redis[id].value \in Tokens(now + Longest)
                          /\ redis[id].until \in now + 1..now + Longest
    BY <2>2, <2>4 DEF TimeInv
  <2>6. cur \in Objs \cup {None}
    BY DEF IInv, ShapeInv
  <2> QED
    BY <2>1, <2>3, <2>5, <2>6 DEF TypeOK, IInv, ShapeInv, PastInv
<1> QED
  BY <1>1, <1>2, <1>3, <1>4, Inductive, AnswerInitHolds, AnswerNextHolds, PTL DEF Spec
=============================================================================
