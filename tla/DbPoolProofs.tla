---------------------------- MODULE DbPoolProofs ----------------------------
(***************************************************************************)
(* Theorems about DbPool, for any number of threads and connections.       *)
(***************************************************************************)
EXTENDS DbPool, FiniteSetTheorems, TLAPS

(* A thread has a connection exactly between taking it and pushing it.     *)
HeldInv == \A t \in Threads : (held[t] # None) <=> (pc[t] \in {"using", "push"})

(* A thread blocked on the condition variable is nowhere else.             *)
WaitingInv == \A t \in waiting : pc[t] = "waiting"

IInv == TypeOK /\ HeldInv /\ WaitingInv /\ PoolConserved

(* The queue after prepare has every connection once.                      *)
LEMMA InitHolds == Init => IInv
<1> SUFFICES ASSUME Init PROVE IInv
  OBVIOUS
<1> USE DbPoolAssumption
<1>1. free \in Seq(Conns) /\ DOMAIN free = 1..PoolSize /\ \A i \in 1..PoolSize : free[i] = i
  BY DEF Init, Conns
<1>2. TypeOK
  BY <1>1 DEF Init, TypeOK
<1>3. HeldInv /\ WaitingInv
  BY DEF Init, HeldInv, WaitingInv
<1>4. PoolConserved
  BY <1>1 DEF Init, PoolConserved, Conns
<1> QED
  BY <1>2, <1>3, <1>4 DEF IInv

(* Taking moves the head of the queue to the thread.                       *)
LEMMA TakeStep == ASSUME IInv, NEW t \in Threads, Take(t) PROVE IInv'
<1> USE DbPoolAssumption DEF IInv
<1>1. /\ free \in Seq(Conns) /\ free # <<>>
      /\ free' = Tail(free)
      /\ held' = [held EXCEPT ![t] = free[1]]
      /\ held[t] = None
  BY DEF Take, TypeOK, HeldInv, Goto
<1>2. /\ DOMAIN free' = 1..(Len(free) - 1)
      /\ \A i \in DOMAIN free' : free'[i] = free[i + 1] /\ i + 1 \in DOMAIN free
      /\ \A i \in DOMAIN free : i # 1 => i - 1 \in DOMAIN free'
      /\ 1 \in DOMAIN free /\ DOMAIN free = 1..Len(free) /\ Len(free) \in Nat
  BY <1>1
<1>3. free[1] \in Conns
  BY <1>1, <1>2
<1>4. TypeOK'
  BY <1>1, <1>3 DEF TypeOK, Take, Goto
<1>5. HeldInv' /\ WaitingInv'
  BY <1>1, <1>3 DEF TypeOK, HeldInv, WaitingInv, Take, Goto
<1>6. PoolConserved'
  <2>1. \A i, j \in DOMAIN free' : free'[i] = free'[j] => i = j
    BY <1>2 DEF PoolConserved
  <2>2. \A u \in Threads : held[u] # free[1]
    BY <1>2, <1>3 DEF PoolConserved
  <2>3. \A u, v \in Threads : held'[u] = held'[v] /\ held'[u] # None => u = v
    BY <1>1, <2>2 DEF PoolConserved, TypeOK
  <2>4. ASSUME NEW c \in Conns
        PROVE  (\E i \in DOMAIN free' : free'[i] = c) # (\E u \in Threads : held'[u] = c)
    <3>1. CASE c = free[1]
      <4>1. held'[t] = c
        BY <1>1, <3>1 DEF TypeOK
      <4>2. \A i \in DOMAIN free' : free'[i] # c
        BY <1>2, <3>1 DEF PoolConserved
      <4> QED
        BY <4>1, <4>2
    <3>2. CASE c # free[1]
      <4>1. (\E i \in DOMAIN free' : free'[i] = c) <=> (\E i \in DOMAIN free : free[i] = c)
        BY <1>2, <3>2
      <4>2. (\E u \in Threads : held'[u] = c) <=> (\E u \in Threads : held[u] = c)
        BY <1>1, <3>2 DEF TypeOK
      <4> QED
        BY <4>1, <4>2 DEF PoolConserved
    <3> QED
      BY <3>1, <3>2
  <2> QED
    BY <2>1, <2>3, <2>4 DEF PoolConserved
<1> QED
  BY <1>4, <1>5, <1>6

(* Pushing moves it from the thread to the end of the queue.               *)
LEMMA PushStep == ASSUME IInv, NEW t \in Threads, Push(t) PROVE IInv'
<1> USE DbPoolAssumption DEF IInv
<1> DEFINE n == Len(free) + 1
<1>1. /\ free \in Seq(Conns)
      /\ held[t] \in Conns
      /\ free' = Append(free, held[t])
      /\ held' = [held EXCEPT ![t] = None]
  BY DEF Push, TypeOK, HeldInv
<1>2. /\ DOMAIN free = 1..Len(free) /\ Len(free) \in Nat
      /\ DOMAIN free' = 1..n
      /\ \A i \in DOMAIN free : free'[i] = free[i]
      /\ free'[n] = held[t]
  BY <1>1
<1>3. TypeOK'
  BY <1>1 DEF TypeOK, Push, Goto
<1>4. HeldInv' /\ WaitingInv'
  BY <1>1 DEF TypeOK, HeldInv, WaitingInv, Push, Goto
<1>5. PoolConserved'
  <2>1. \A i \in DOMAIN free : free[i] # held[t]
    BY <1>1 DEF PoolConserved
  <2>2. \A i, j \in DOMAIN free' : free'[i] = free'[j] => i = j
    <3>1. \A i \in DOMAIN free' : i = n \/ i \in DOMAIN free
      BY <1>2
    <3> QED
      BY <1>2, <2>1, <3>1 DEF PoolConserved
  <2>3. \A u, v \in Threads : held'[u] = held'[v] /\ held'[u] # None => u = v
    BY <1>1 DEF PoolConserved, TypeOK
  <2>4. ASSUME NEW c \in Conns
        PROVE  (\E i \in DOMAIN free' : free'[i] = c) # (\E u \in Threads : held'[u] = c)
    <3>1. CASE c = held[t]
      <4>1. \E i \in DOMAIN free' : free'[i] = c
        BY <1>2, <3>1
      <4>2. \A u \in Threads : held'[u] # c
        BY <1>1, <3>1 DEF PoolConserved, TypeOK
      <4> QED
        BY <4>1, <4>2
    <3>2. CASE c # held[t]
      <4>1. (\E i \in DOMAIN free' : free'[i] = c) <=> (\E i \in DOMAIN free : free[i] = c)
        BY <1>2, <3>2
      <4>2. (\E u \in Threads : held'[u] = c) <=> (\E u \in Threads : held[u] = c)
        BY <1>1, <3>2 DEF TypeOK
      <4> QED
        BY <4>1, <4>2 DEF PoolConserved
    <3> QED
      BY <3>1, <3>2
  <2> QED
    BY <2>2, <2>3, <2>4 DEF PoolConserved
<1> QED
  BY <1>3, <1>4, <1>5

(* The other steps move neither queue nor leases.                          *)
LEMMA OtherStep ==
  ASSUME IInv, NEW t \in Threads,
         \/ Get(t) \/ Wait(t) \/ Relock(t) \/ BeginRelease(t) \/ Notify(t)
         \/ SpuriousWakeup(t)
  PROVE  IInv'
<1> USE DbPoolAssumption DEF IInv
<1>1. UNCHANGED <<free, held>>
  BY DEF Get, Wait, Relock, BeginRelease, Notify, SpuriousWakeup
<1>2. PoolConserved'
  BY <1>1 DEF PoolConserved
<1>3. TypeOK' /\ HeldInv' /\ WaitingInv'
  <2>1. CASE Get(t)
    BY <2>1, <1>1 DEF Get, Idle, Lock, Goto, TypeOK, HeldInv, WaitingInv
  <2>2. CASE Wait(t)
    BY <2>2, <1>1 DEF Wait, Goto, TypeOK, HeldInv, WaitingInv
  <2>3. CASE Relock(t)
    BY <2>3, <1>1 DEF Relock, Lock, Goto, TypeOK, HeldInv, WaitingInv
  <2>4. CASE BeginRelease(t)
    BY <2>4, <1>1 DEF BeginRelease, Lock, Goto, TypeOK, HeldInv, WaitingInv
  <2>5. CASE Notify(t)
    <3>1. CASE waiting = {} /\ waiting' = waiting /\ pc' = [pc EXCEPT ![t] = "idle"]
      BY <2>5, <3>1, <1>1 DEF Notify, TypeOK, HeldInv, WaitingInv
    <3>2. CASE \E w \in waiting : /\ waiting' = waiting \ {w}
                                  /\ pc' = [pc EXCEPT ![t] = "idle", ![w] = "woken"]
      <4>1. PICK w \in waiting : /\ waiting' = waiting \ {w}
                                 /\ pc' = [pc EXCEPT ![t] = "idle", ![w] = "woken"]
        BY <3>2
      <4>2. /\ pc[t] = "notify" /\ pc[w] = "waiting" /\ w # t /\ w \in Threads
            /\ UNCHANGED <<free, mutex, held, uses>>
        BY <2>5 DEF Notify, WaitingInv, TypeOK
      <4>3. /\ pc'[t] = "idle" /\ pc'[w] = "woken"
            /\ \A u \in Threads \ {t, w} : pc'[u] = pc[u]
        BY <4>1, <4>2 DEF TypeOK
      <4>4. TypeOK'
        BY <4>1, <4>2 DEF TypeOK
      <4>5. HeldInv'
        BY <4>2, <4>3 DEF HeldInv
      <4>6. WaitingInv'
        BY <4>1, <4>2, <4>3 DEF WaitingInv, TypeOK
      <4> QED
        BY <4>4, <4>5, <4>6
    <3> QED
      BY <2>5, <3>1, <3>2 DEF Notify, Goto
  <2>6. CASE SpuriousWakeup(t)
    BY <2>6, <1>1 DEF SpuriousWakeup, Goto, TypeOK, HeldInv, WaitingInv
  <2> QED
    BY <2>1, <2>2, <2>3, <2>4, <2>5, <2>6
<1> QED
  BY <1>2, <1>3

(* Types, leases and the queue stay as IInv says.                          *)
THEOREM Inductive == Spec => []IInv
<1>1. IInv /\ [Next]_vars => IInv'
  <2>1. CASE Next
    BY <2>1, TakeStep, PushStep, OtherStep DEF Next, Proceed
  <2>2. CASE UNCHANGED vars
    BY <2>2 DEF vars, IInv, TypeOK, HeldInv, WaitingInv, PoolConserved
  <2> QED
    BY <2>1, <2>2
<1> QED
  BY <1>1, InitHolds, PTL DEF Spec

(* Every variable keeps its type. *)
THEOREM TypeCorrect == Spec => []TypeOK
<1>1. IInv => TypeOK
  BY DEF IInv
<1> QED
  BY <1>1, Inductive, PTL

(* No connection is lost, shared or queued twice, whatever the order in    *)
(* which threads take connections, wait for them and give them back.       *)
THEOREM PoolKeepsItsConnections == Spec => []PoolConserved
<1>1. IInv => PoolConserved
  BY DEF IInv
<1> QED
  BY <1>1, Inductive, PTL

-----------------------------------------------------------------------------

(* The threads that will look at the queue, or make another look at it     *)
Lookers == {t \in Threads : pc[t] \in {"notify", "woken", "check"}}

LEMMA LookersCount ==
    /\ IsFiniteSet(Lookers) /\ Cardinality(Lookers) \in Nat
    /\ \A t : t \in Lookers => /\ IsFiniteSet(Lookers \ {t})
                             /\ Cardinality(Lookers \ {t}) = Cardinality(Lookers) - 1
    /\ \A t : t \notin Lookers => Cardinality(Lookers \cup {t}) = Cardinality(Lookers) + 1
<1>1. IsFiniteSet(Lookers)
  <2>1. Lookers \subseteq Threads
    BY DEF Lookers
  <2> QED
    BY <2>1, FS_Subset, DbPoolAssumption
<1> QED
  BY <1>1, FS_CardinalityType, FS_AddElement, FS_RemoveElement

(* A step adds to the queue only with one more who looks, and who looks    *)
(* goes away only with a connection, with nothing there to be taken, or    *)
(* when another has been woken in its place.                               *)
LEMMA WakeupStep == IInv /\ NoLostWakeup /\ [Next]_vars => NoLostWakeup'
<1> SUFFICES ASSUME IInv, NoLostWakeup, [Next]_vars, waiting' # {}
             PROVE  Len(free') <= Cardinality(Lookers')
  BY DEF NoLostWakeup, Lookers
<1> USE DEF IInv
<1>1. /\ Len(free) \in Nat /\ Cardinality(Lookers) \in Nat
      /\ waiting # {} => Len(free) <= Cardinality(Lookers)
  BY LookersCount DEF NoLostWakeup, Lookers, TypeOK
<1>2. CASE \E t \in Threads : Get(t)
  <2>1. PICK t \in Threads : Get(t)
    BY <1>2
  <2>2. t \notin Lookers /\ Lookers' = Lookers \cup {t} /\ UNCHANGED <<free, waiting>>
    BY <2>1 DEF Get, Idle, Goto, Lookers, TypeOK
  <2> QED
    BY <1>1, <2>2, LookersCount
<1>3. CASE \E t \in Threads : Wait(t)
  <2>1. PICK t \in Threads : Wait(t)
    BY <1>3
  <2>2. t \in Lookers /\ Lookers' = Lookers \ {t} /\ Len(free') = 0
    BY <2>1 DEF Wait, Goto, Lookers, TypeOK
  <2> QED
    BY <2>2, LookersCount, FS_CardinalityType
<1>4. CASE \E t \in Threads : Take(t)
  <2>1. PICK t \in Threads : Take(t)
    BY <1>4
  <2>2. t \in Lookers /\ Lookers' = Lookers \ {t} /\ UNCHANGED waiting
    BY <2>1 DEF Take, Goto, Lookers, TypeOK
  <2>3. Len(free') = Len(free) - 1
    BY <2>1 DEF Take, TypeOK
  <2> QED
    <3>1. waiting # {}
      BY <2>2
    <3>2. Cardinality(Lookers') = Cardinality(Lookers) - 1
      BY <2>2, LookersCount
    <3> QED
      BY <1>1, <2>3, <3>1, <3>2
<1>5. CASE \E t \in Threads : Relock(t) \/ BeginRelease(t)
  <2>1. Lookers' = Lookers /\ UNCHANGED <<free, waiting>>
    BY <1>5 DEF Relock, BeginRelease, Goto, Lookers, TypeOK
  <2> QED
    BY <1>1, <2>1
<1>6. CASE \E t \in Threads : Push(t)
  <2>1. PICK t \in Threads : Push(t)
    BY <1>6
  <2>2. t \notin Lookers /\ Lookers' = Lookers \cup {t} /\ UNCHANGED waiting
    BY <2>1 DEF Push, Goto, Lookers, TypeOK
  <2>3. held[t] \in Conns
    BY <2>1 DEF Push, TypeOK, HeldInv
  <2>4. Len(free') = Len(free) + 1
    BY <2>1, <2>3 DEF Push, TypeOK
  <2> QED
    BY <1>1, <2>2, <2>4, LookersCount
<1>7. CASE \E t \in Threads : Notify(t)
  <2>1. PICK t \in Threads : Notify(t)
    BY <1>7
  <2>2. PICK w \in waiting : /\ waiting' = waiting \ {w}
                             /\ pc' = [pc EXCEPT ![t] = "idle", ![w] = "woken"]
    BY <2>1 DEF Notify
  <2>3. pc[t] = "notify" /\ pc[w] = "waiting" /\ w \in Threads /\ free' = free
    BY <2>1 DEF Notify, WaitingInv, TypeOK
  <2>4. t \in Lookers /\ w \notin Lookers /\ Lookers' = (Lookers \ {t}) \cup {w}
    BY <2>2, <2>3 DEF Lookers, TypeOK
  <2>5. Cardinality((Lookers \ {t}) \cup {w}) = Cardinality(Lookers \ {t}) + 1
    BY <2>4, LookersCount, FS_AddElement
  <2> QED
    <3>1. waiting # {} /\ Len(free') = Len(free)
      BY <2>2, <2>3
    <3>2. Cardinality(Lookers') = Cardinality(Lookers)
      <4>1. Cardinality(Lookers \ {t}) = Cardinality(Lookers) - 1
        BY <2>4, LookersCount
      <4> QED
        BY <1>1, <2>4, <2>5, <4>1
    <3> QED
      BY <1>1, <3>1, <3>2
<1>8. CASE \E t \in Threads : SpuriousWakeup(t)
  <2>1. PICK t \in Threads : SpuriousWakeup(t)
    BY <1>8
  <2>2. t \notin Lookers /\ Lookers' = Lookers \cup {t} /\ waiting # {} /\ UNCHANGED free
    BY <2>1 DEF SpuriousWakeup, Goto, Lookers, TypeOK, WaitingInv
  <2> QED
    BY <1>1, <2>2, LookersCount
<1>9. CASE UNCHANGED vars
  BY <1>1, <1>9 DEF vars, Lookers
<1> QED
  BY <1>2, <1>3, <1>4, <1>5, <1>6, <1>7, <1>8, <1>9 DEF Next, Proceed

(* While threads wait, every connection in the queue has somebody who will *)
(* take it or wake one of them (release_connection_pool notifies outside   *)
(* the lock; get_connection_pool looks again after every wait).            *)
THEOREM NoWakeupIsLost == Spec => []NoLostWakeup
<1>1. Init => NoLostWakeup
  BY DEF Init, NoLostWakeup
<1> QED
  BY <1>1, WakeupStep, Inductive, PTL DEF Spec

-----------------------------------------------------------------------------

(* The queue, its lock and its condition variable implement exclusive      *)
(* leases: Take acquires, Push releases, and every other step leaves the   *)
(* leases as they are.                                                     *)
THEOREM ImplementsLease == Spec => LeaseSpec
<1>1. Init => Lease!Init
  BY DEF Init, Lease!Init
<1>2. IInv /\ [Next]_vars => [Lease!Next]_held
  <2> SUFFICES ASSUME IInv, [Next]_vars PROVE [Lease!Next]_held
    OBVIOUS
  <2>1. CASE \E t \in Threads : Take(t)
    <3>1. PICK t \in Threads : Take(t)
      BY <2>1
    <3>2. /\ held[t] = None
          /\ held' = [held EXCEPT ![t] = free[1]]
          /\ 1 \in DOMAIN free /\ free[1] \in Conns
      BY <3>1 DEF Take, IInv, TypeOK, HeldInv
    <3>3. \A u \in Threads : held[u] # free[1]
      BY <3>2 DEF IInv, PoolConserved
    <3>4. Lease!Acquire(t)
      BY <3>2, <3>3 DEF Lease!Acquire
    <3> QED
      BY <3>4 DEF Lease!Next
  <2>2. CASE \E t \in Threads : Push(t)
    <3>1. PICK t \in Threads : Push(t)
      BY <2>2
    <3>2. Lease!Release(t)
      BY <3>1 DEF Push, IInv, HeldInv, Lease!Release
    <3> QED
      BY <3>2 DEF Lease!Next
  <2>3. CASE UNCHANGED held
    BY <2>3
  <2> QED
    BY <2>1, <2>2, <2>3
       DEF Next, Proceed, vars, Get, Wait, Relock, BeginRelease, Notify, SpuriousWakeup
<1> QED
  BY <1>1, <1>2, Inductive, PTL DEF Spec, LeaseSpec, Lease!Spec
=============================================================================
