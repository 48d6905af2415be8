------------------------ MODULE CodexTransportProofs ------------------------
(***************************************************************************)
(* Proofs about CodexTransport, for every number of connections,           *)
(* coroutines, accounts and credential generations.                        *)
(***************************************************************************)
EXTENDS CodexTransport, FiniteSetTheorems, TLAPS

(* The typed part of the invariant holds at start and is kept by a step.   *)
LEMMA InitTyped == Init => Typed
<1> SUFFICES ASSUME Init PROVE Typed
  OBVIOUS
<1>1. TypeOK
  BY TransportAssumption DEF Init, TypeOK, Phase, PC, Result
<1>2. QED
  BY <1>1 DEF Init, Typed, Holding

(* Every step of open(), reserve(), release() and the closers keeps it.    *)
LEMMA NextTyped == Typed /\ [Next]_vars => Typed'
<1> SUFFICES ASSUME Typed, [Next]_vars PROVE Typed'
  OBVIOUS
<1> USE TransportAssumption DEF Typed, TypeOK, Holding, Phase, PC, Result, poolVars, reqVars
<1>1. ASSUME NEW r \in Req, NEW k \in Key, Open(r, k) PROVE Typed'
  BY <1>1 DEF Open, Finish
<1>2. ASSUME NEW r \in Req, ReserveRefused(r) PROVE Typed'
  BY <1>2 DEF ReserveRefused, Finish, FinishUndelivered
<1>3. ASSUME NEW r \in Req, ReserveIdle(r) PROVE Typed'
  <2>1. rkey[r] \in Key /\ rkey[r].account \in Account /\ rkey[r].gen \in Gen
    BY <1>3 DEF ReserveIdle, Key
  <2>2. Reusable(rkey[r]) \subseteq Conn
    BY DEF Reusable
  <2>3. QED
    BY <1>3, <2>1, <2>2 DEF ReserveIdle, SweepGenerations
<1>4. ASSUME NEW r \in Req, ReserveFull(r) PROVE Typed'
  <2>1. rkey[r] \in Key /\ rkey[r].account \in Account /\ rkey[r].gen \in Gen
    BY <1>4 DEF ReserveFull, Key
  <2>2. QED
    BY <1>4, <2>1 DEF ReserveFull, SweepGenerations, Finish, FinishUndelivered, Discarded
<1>5. ASSUME NEW r \in Req, ReserveNew(r) PROVE Typed'
  <2>1. rkey[r] \in Key /\ rkey[r].account \in Account /\ rkey[r].gen \in Gen
    BY <1>5 DEF ReserveNew, Key
  <2>2. PICK c \in Garbage :
          /\ gens' = [gens EXCEPT ![rkey[r].account] = rkey[r].gen]
          /\ retire' = [d \in Conn |-> IF d = c THEN rkey[r].scope = NULL
                                       ELSE retire[d] \/ d \in Outdated(rkey[r])]
          /\ phase' = [d \in Conn |-> IF d = c THEN "connecting"
                                      ELSE IF d \in Swept(rkey[r]) THEN "closing" ELSE phase[d]]
          /\ closers' = [d \in Conn |-> IF d \in Swept(rkey[r]) THEN closers[d] + 1 ELSE closers[d]]
          /\ pooled' = pooled \cup {c}
          /\ ckey' = [ckey EXCEPT ![c] = rkey[r]]
          /\ wear' = [wear EXCEPT ![c] = "ok"]
          /\ held' = [held EXCEPT ![r] = c]
    BY <1>5 DEF ReserveNew
  <2>3. c \in Conn
    BY DEF Garbage
  <2>4. retire' \in [Conn -> BOOLEAN]
    BY <2>2
  <2>5. QED
    BY <1>5, <2>1, <2>2, <2>3, <2>4 DEF ReserveNew
<1>6. ASSUME NEW r \in Req, ReserveCancelled(r) PROVE Typed'
  BY <1>6 DEF ReserveCancelled, Finish
<1>7. ASSUME NEW r \in Req, Joined(r) PROVE Typed'
  BY <1>7 DEF Joined
<1>8. ASSUME NEW r \in Req, JoinCancelled(r) PROVE Typed'
  BY <1>8 DEF JoinCancelled, Discarded, Finish
<1>9. ASSUME NEW r \in Req, Handshake(r) PROVE Typed'
  <2>1. ASSUME Connected(r) PROVE Typed'
    BY <2>1 DEF Connected
  <2>2. ASSUME ConnectedTooLate(r) PROVE Typed'
    BY <2>2 DEF ConnectedTooLate, Finish
  <2>3. ASSUME UpgradeRefused(r) PROVE Typed'
    <3>1. rkey[r].gen \in Gen
      BY <2>3 DEF UpgradeRefused, Key
    <3>2. QED
      BY <2>3, <3>1 DEF UpgradeRefused, Discarded, Finish
  <2>4. ASSUME ConnectFailed(r) PROVE Typed'
    BY <2>4 DEF ConnectFailed, Discarded, Finish, FinishUndelivered
  <2>5. ASSUME ConnectCancelled(r) PROVE Typed'
    BY <2>5 DEF ConnectCancelled, Discarded, Finish
  <2>6. QED
    BY <1>9, <2>1, <2>2, <2>3, <2>4, <2>5 DEF Handshake
<1>10. ASSUME NEW r \in Req, SendFailed(r) PROVE Typed'
  BY <1>10 DEF SendFailed, Discarded, Finish
<1>11. ASSUME NEW r \in Req, Event(r) PROVE Typed'
  <2>1. material' \in [Req -> BOOLEAN] /\ ending' \in [Req -> {"open", "success", "failure"}]
    <3>1. CASE UNCHANGED <<material, ending>>
      BY <3>1
    <3>2. CASE material' = [material EXCEPT ![r] = TRUE] /\ UNCHANGED ending
      BY <3>2
    <3>3. CASE /\ \E e \in {"success", "failure"} : ending' = [ending EXCEPT ![r] = e]
               /\ UNCHANGED material
      <4>1. PICK e \in {"success", "failure"} : ending' = [ending EXCEPT ![r] = e]
        BY <3>3
      <4>2. QED
        BY <3>3, <4>1
    <3>4. \/ UNCHANGED <<material, ending>>
          \/ material' = [material EXCEPT ![r] = TRUE] /\ UNCHANGED ending
          \/ /\ \E e \in {"success", "failure"} : ending' = [ending EXCEPT ![r] = e]
             /\ UNCHANGED material
      BY <1>11, Zenon DEF Event
    <3>5. QED
      BY <3>1, <3>2, <3>3, <3>4
  <2>2. /\ pc[r] \in {"sending", "streaming"} /\ pc' = [pc EXCEPT ![r] = "streaming"]
        /\ UNCHANGED <<phase, pooled, ckey, retire, wear, closers, gens, lock, closing, unsupported,
                       held, rkey, sent, result>>
    BY <1>11 DEF Event
  <2>3. QED
    BY <2>1, <2>2
<1>12. ASSUME NEW r \in Req, Release(r) PROVE Typed'
  BY <1>12 DEF Release, ReleaseTo, Discarded, Finish
<1>13. ASSUME NEW r \in Req, ErrorEvent(r) PROVE Typed'
  BY <1>13 DEF ErrorEvent, ReleaseTo, Discarded, Finish
<1>14. ASSUME NEW r \in Req, Again(r) PROVE Typed'
  BY <1>14 DEF Again
<1>15. ASSUME NEW c \in Conn, Wear(c, "aged") \/ Wear(c, "closed") PROVE Typed'
  BY <1>15 DEF Wear
<1>16. ASSUME NEW c \in Conn, IdleEnds(c) PROVE Typed'
  BY <1>16 DEF IdleEnds, Discarded
<1>17. ASSUME NEW c \in Conn, CloseEnds(c) PROVE Typed'
  BY <1>17 DEF CloseEnds
<1>18. ASSUME NEW g \in Gen, UnsupportedLapses(g) PROVE Typed'
  BY <1>18 DEF UnsupportedLapses
<1>19. ASSUME Close PROVE Typed'
  BY <1>19 DEF Close, Discarded
<1>20. ASSUME UNCHANGED vars PROVE Typed'
  BY <1>20 DEF vars
<1>21. QED
  BY <1>1, <1>2, <1>3, <1>4, <1>5, <1>6, <1>7, <1>8, <1>9, <1>10, <1>11, <1>12, <1>13,
     <1>14, <1>15, <1>16, <1>17, <1>18, <1>19, <1>20
  DEF Next, Reserve, Join, Exchange
(***************************************************************************)
(* The rest of the invariant, one action of transport.py after another.    *)
(***************************************************************************)
Fit == HeldConnections /\ IdleConnections /\ Closers /\ Joining /\ Generations

(* The empty pool satisfies it.                                            *)
LEMMA InitFit == Init => Fit
  BY DEF Init, Fit, HeldConnections, IdleConnections, Closers, Joining, Generations

(* Every step keeps coroutines, pool and lock fitting together.            *)
LEMMA NextFit == Typed /\ Fit /\ [Next]_vars => Fit'
<1> SUFFICES ASSUME Typed, Fit, [Next]_vars PROVE Fit'
  OBVIOUS
<1> USE TransportAssumption DEF Typed, TypeOK, Holding, Fit, HeldConnections, IdleConnections,
        Closers, Joining, Generations, poolVars, reqVars
<1>1. ASSUME NEW r \in Req, NEW k \in Key, Open(r, k) PROVE Fit'
  BY <1>1 DEF Open, Finish
<1>2. ASSUME NEW r \in Req, ReserveRefused(r) PROVE Fit'
  BY <1>2 DEF ReserveRefused, Finish, FinishUndelivered
<1>3. ASSUME NEW r \in Req, ReserveIdle(r) PROVE Fit'
  BY <1>3 DEF ReserveIdle, SweepGenerations, Reusable, Swept, Worn, Outdated, Key
<1>4. ASSUME NEW r \in Req, ReserveFull(r) PROVE Fit'
  <2>1. rkey[r] \in Key /\ ~closing /\ lock = NULL
    BY <1>4 DEF ReserveFull
  <2>2. PICK S : /\ Discarded(S)
                 /\ Swept(rkey[r]) \subseteq S
                 /\ \A c \in S : c \in pooled /\ phase[c] = "idle"
    <3>1. \A c \in Swept(rkey[r]) \cup Evictable(rkey[r]) : c \in pooled /\ phase[c] = "idle"
      BY DEF Evictable, Swept, Worn, Outdated, OfAccount
    <3>2. CASE Discarded(Swept(rkey[r]))
      BY <3>1, <3>2
    <3>3. CASE \E c \in Evictable(rkey[r]) : Discarded(Swept(rkey[r]) \cup {c})
      <4>1. PICK c \in Evictable(rkey[r]) : Discarded(Swept(rkey[r]) \cup {c})
        BY <3>3
      <4>2. \A d \in Swept(rkey[r]) \cup {c} : d \in pooled /\ phase[d] = "idle"
        BY <3>1
      <4>3. QED
        BY <4>1, <4>2
    <3>4. QED
      BY <1>4, <3>2, <3>3 DEF ReserveFull
  <2>3. /\ UNCHANGED <<pooled, ckey, closing, lock>>
        /\ SweepGenerations(rkey[r])
        /\ pc' = [pc EXCEPT ![r] = "done"]
        /\ held' = [held EXCEPT ![r] = NULL]
        /\ rkey' = [rkey EXCEPT ![r] = NULL]
    BY <1>4 DEF ReserveFull, Finish, FinishUndelivered
  <2>4. HeldConnections' /\ Joining'
    BY <2>1, <2>2, <2>3, <1>4 DEF Discarded, ReserveFull
  <2>5. IdleConnections' /\ Closers'
    BY <2>1, <2>2, <2>3 DEF Discarded, SweepGenerations, Swept
  <2>6. Generations'
    <3>1. SUFFICES ASSUME NEW d \in pooled, phase'[d] # "closing", ~retire'[d]
                   PROVE gens'[ckey[d].account] = ckey[d].gen
      BY <2>1, <2>3
    <3>2. d \in Conn /\ ckey[d] \in Key /\ phase[d] # "closing"
      BY <3>1, <2>2 DEF Discarded
    <3>3. ~retire[d] /\ d \notin Outdated(rkey[r])
      BY <3>1, <3>2, <2>3 DEF SweepGenerations
    <3>4. gens[ckey[d].account] = ckey[d].gen
      BY <2>1, <3>2, <3>3
    <3>5. QED
      BY <2>1, <2>3, <3>2, <3>3, <3>4 DEF SweepGenerations, Outdated, Key
  <2>7. QED
    BY <2>4, <2>5, <2>6
<1>5. ASSUME NEW r \in Req, ReserveNew(r) PROVE Fit'
  <2>1. rkey[r] \in Key /\ ~closing /\ lock = NULL /\ held[r] = NULL
    BY <1>5 DEF ReserveNew
  <2>2. PICK c \in Garbage :
          /\ gens' = [gens EXCEPT ![rkey[r].account] = rkey[r].gen]
          /\ retire' = [d \in Conn |-> IF d = c THEN rkey[r].scope = NULL
                                       ELSE retire[d] \/ d \in Outdated(rkey[r])]
          /\ phase' = [d \in Conn |-> IF d = c THEN "connecting"
                                      ELSE IF d \in Swept(rkey[r]) THEN "closing" ELSE phase[d]]
          /\ closers' = [d \in Conn |-> IF d \in Swept(rkey[r]) THEN closers[d] + 1 ELSE closers[d]]
          /\ pooled' = pooled \cup {c}
          /\ ckey' = [ckey EXCEPT ![c] = rkey[r]]
          /\ held' = [held EXCEPT ![r] = c]
    BY <1>5 DEF ReserveNew
  <2>3. /\ pc' = [pc EXCEPT ![r] = "connecting"]
        /\ UNCHANGED <<closing, lock, rkey>>
    BY <1>5 DEF ReserveNew
  <2>4. c \in Conn /\ c \notin pooled /\ closers[c] = 0 /\ \A q \in Req : held[q] # c
    BY DEF Garbage
  <2>5. \A d \in Swept(rkey[r]) : d \in pooled /\ phase[d] = "idle"
    BY DEF Swept, Worn, Outdated
  <2>6. HeldConnections'
    BY <2>1, <2>2, <2>3, <2>4, <2>5
  <2>7. IdleConnections' /\ Closers'
    BY <2>1, <2>2, <2>3, <2>4, <2>5 DEF Swept
  <2>8. Joining'
    BY <2>1, <2>2, <2>3, <2>4, <2>5
  <2>9. Generations'
    <3>1. \A d \in pooled' : d \in Conn /\ ckey'[d] \in Key
      BY <2>1, <2>2, <2>4
    <3>2. SUFFICES ASSUME NEW d \in pooled', phase'[d] # "closing", ~retire'[d]
                   PROVE gens'[ckey'[d].account] = ckey'[d].gen
      BY <3>1
    <3>3. CASE d = c
      BY <2>1, <2>2, <2>4, <3>3 DEF Key
    <3>4. CASE d # c
      <4>1. d \in Conn /\ d \in pooled /\ ckey'[d] = ckey[d] /\ ckey[d] \in Key
        BY <2>2, <2>4, <3>4
      <4>2. phase[d] # "closing"
        BY <2>2, <3>2, <3>4, <4>1
      <4>3. ~retire[d] /\ d \notin Outdated(rkey[r])
        BY <2>2, <3>2, <3>4, <4>1
      <4>4. gens[ckey[d].account] = ckey[d].gen
        BY <2>1, <4>1, <4>2, <4>3
      <4>5. QED
        BY <2>1, <2>2, <4>1, <4>3, <4>4 DEF Outdated, Key
    <3>5. QED
      BY <3>3, <3>4
  <2>10. QED
    BY <2>6, <2>7, <2>8, <2>9
<1>6. ASSUME NEW r \in Req, ReserveCancelled(r) PROVE Fit'
  BY <1>6 DEF ReserveCancelled, Finish
<1>7. ASSUME NEW r \in Req, Joined(r) PROVE Fit'
  BY <1>7 DEF Joined
<1>8. ASSUME NEW r \in Req, JoinCancelled(r) PROVE Fit'
  BY <1>8 DEF JoinCancelled, Discarded, Finish
<1>9. ASSUME NEW r \in Req, Connected(r) PROVE Fit'
  BY <1>9 DEF Connected
<1>10. ASSUME NEW r \in Req, ConnectedTooLate(r) PROVE Fit'
  BY <1>10 DEF ConnectedTooLate, Finish
<1>11. ASSUME NEW r \in Req, UpgradeRefused(r) PROVE Fit'
  BY <1>11 DEF UpgradeRefused, Discarded, Finish
<1>12. ASSUME NEW r \in Req, ConnectFailed(r) PROVE Fit'
  BY <1>12 DEF ConnectFailed, Discarded, Finish, FinishUndelivered
<1>13. ASSUME NEW r \in Req, ConnectCancelled(r) PROVE Fit'
  BY <1>13 DEF ConnectCancelled, Discarded, Finish
<1>14. ASSUME NEW r \in Req, SendFailed(r) PROVE Fit'
  BY <1>14 DEF SendFailed, Discarded, Finish
<1>15. ASSUME NEW r \in Req, Event(r) PROVE Fit'
  BY <1>15 DEF Event
<1>16. ASSUME NEW r \in Req, Release(r) PROVE Fit'
  BY <1>16 DEF Release, ReleaseTo, Discarded, Finish
<1>17. ASSUME NEW r \in Req, ErrorEvent(r) PROVE Fit'
  BY <1>17 DEF ErrorEvent, ReleaseTo, Discarded, Finish
<1>18. ASSUME NEW r \in Req, Again(r) PROVE Fit'
  BY <1>18 DEF Again
<1>19. ASSUME NEW c \in Conn, Wear(c, "aged") \/ Wear(c, "closed") PROVE Fit'
  BY <1>19 DEF Wear
<1>20. ASSUME NEW c \in Conn, IdleEnds(c) PROVE Fit'
  BY <1>20 DEF IdleEnds, Discarded
<1>21. ASSUME NEW c \in Conn, CloseEnds(c) PROVE Fit'
  BY <1>21 DEF CloseEnds
<1>22. ASSUME NEW g \in Gen, UnsupportedLapses(g) PROVE Fit'
  BY <1>22 DEF UnsupportedLapses
<1>23. ASSUME Close PROVE Fit'
  BY <1>23 DEF Close, Discarded
<1>24. ASSUME UNCHANGED vars PROVE Fit'
  BY <1>24 DEF vars
<1>25. QED
  BY <1>1, <1>2, <1>3, <1>4, <1>5, <1>6, <1>7, <1>8, <1>9, <1>10, <1>11, <1>12, <1>13, <1>14, <1>15, <1>16, <1>17, <1>18, <1>19, <1>20, <1>21, <1>22, <1>23, <1>24
  DEF Next, Reserve, Join, Handshake, Exchange

(* Every reachable state of the pool satisfies PoolInvariant.              *)
THEOREM PoolIsConsistent == Spec => []PoolInvariant
<1>1. Init => PoolInvariant
  BY InitTyped, InitFit DEF PoolInvariant, Fit
<1>2. PoolInvariant /\ [Next]_vars => PoolInvariant'
  BY NextTyped, NextFit DEF PoolInvariant, Fit
<1>3. QED
  BY <1>1, <1>2, PTL DEF Spec

(* The types of the pool's and the coroutines' state, as open(), reserve() *)
(* and release() leave them.                                               *)
THEOREM TypeCorrect == Spec => []TypeOK
<1>1. PoolInvariant => TypeOK
  BY DEF PoolInvariant, Typed
<1>2. QED
  BY <1>1, PoolIsConsistent, PTL

(* No two inferences ever share a connection, and an idle one serves none, *)
(* although reserve() and open() suspend while they hold it.               *)
THEOREM NoSharedConnection == Spec => []ExclusiveUse
<1>1. PoolInvariant => ExclusiveUse
  BY DEF PoolInvariant, HeldConnections, ExclusiveUse
<1>2. QED
  BY <1>1, PoolIsConsistent, PTL

(* A connection of a replaced credential never waits in the pool for       *)
(* reuse: reserve() retires it whatever it was doing at the time.          *)
THEOREM NoStaleCredential == Spec => []IdleIsCurrent
<1>1. PoolInvariant => IdleIsCurrent
  BY DEF PoolInvariant, Typed, TypeOK, IdleConnections, Generations, IdleIsCurrent
<1>2. QED
  BY <1>1, PoolIsConsistent, PTL
-----------------------------------------------------------------------------
(***************************************************************************)
(* Capacity.  Only ReserveNew lists a connection, after it has counted;    *)
(* every other action leaves the list and the keys alone, or delists one.  *)
(***************************************************************************)
LEMMA ListingSteps ==
  ASSUME [Next]_vars
  PROVE  \/ \E r \in Req : ReserveNew(r)
         \/ \E c \in Conn : CloseEnds(c)
         \/ UNCHANGED <<pooled, ckey>>
<1> USE DEF poolVars, reqVars
<1>1. ASSUME NEW r \in Req, Reserve(r) PROVE ReserveNew(r) \/ UNCHANGED <<pooled, ckey>>
  BY <1>1 DEF Reserve, ReserveRefused, ReserveIdle, ReserveFull
<1>2. ASSUME NEW r \in Req, Handshake(r) \/ Join(r) \/ Exchange(r)
      PROVE  UNCHANGED <<pooled, ckey>>
  BY <1>2 DEF Handshake, Join, Exchange, Connected, ConnectedTooLate, UpgradeRefused,
              ConnectFailed, ConnectCancelled, Joined, JoinCancelled, SendFailed, Event,
              Release, ErrorEvent
<1>3. ASSUME NEW r \in Req, (\E k \in Key : Open(r, k)) \/ ReserveCancelled(r) \/ Again(r)
      PROVE  UNCHANGED <<pooled, ckey>>
  BY <1>3 DEF Open, ReserveCancelled, Again
<1>4. ASSUME NEW c \in Conn, Wear(c, "aged") \/ Wear(c, "closed") \/ IdleEnds(c)
      PROVE  UNCHANGED <<pooled, ckey>>
  BY <1>4 DEF Wear, IdleEnds
<1>5. ASSUME (\E g \in Gen : UnsupportedLapses(g)) \/ Close \/ UNCHANGED vars
      PROVE  UNCHANGED <<pooled, ckey>>
  BY <1>5 DEF UnsupportedLapses, Close, vars
<1>6. QED
  BY <1>1, <1>2, <1>3, <1>4, <1>5 DEF Next

(* Every step keeps the pool within its bounds.                            *)
LEMMA NextCapacity == TypeOK /\ CapacityRespected /\ [Next]_vars => CapacityRespected'
<1> SUFFICES ASSUME TypeOK, CapacityRespected, [Next]_vars PROVE CapacityRespected'
  OBVIOUS
<1> USE TransportAssumption DEF CapacityRespected
<1>1. IsFiniteSet(pooled) /\ \A a : IsFiniteSet(OfAccount(a))
  BY FS_Subset DEF TypeOK, OfAccount
<1>2. ASSUME NEW r \in Req, ReserveNew(r) PROVE CapacityRespected'
  <2>1. ~Full(rkey[r])
    BY <1>2 DEF ReserveNew
  <2>2. PICK c \in Garbage : pooled' = pooled \cup {c} /\ ckey' = [ckey EXCEPT ![c] = rkey[r]]
    BY <1>2 DEF ReserveNew
  <2>3. c \in Conn /\ c \notin pooled
    BY DEF Garbage
  <2>4. Cardinality(pooled) \in Nat /\ Cardinality(pooled') = Cardinality(pooled) + 1
    BY <1>1, <2>2, <2>3, FS_AddElement, FS_CardinalityType
  <2>5. Cardinality(pooled') <= MaxConnections
    BY <2>1, <2>4 DEF Full
  <2>6. ASSUME NEW a \in Account PROVE Cardinality(OfAccount(a)') <= MaxAccountConnections
    <3>1. CASE rkey[r].account = a
      <4>1. OfAccount(a)' = OfAccount(a) \cup {c} /\ c \notin OfAccount(a)
        BY <2>2, <2>3, <3>1 DEF OfAccount, TypeOK
      <4>2. /\ Cardinality(OfAccount(a)) \in Nat
            /\ Cardinality(OfAccount(a)') = Cardinality(OfAccount(a)) + 1
        BY <1>1, <4>1, FS_AddElement, FS_CardinalityType
      <4>3. Cardinality(OfAccount(a)) < MaxAccountConnections
        BY <2>1, <3>1, <4>2 DEF Full, AccountFull
      <4>4. QED
        BY <4>2, <4>3
    <3>2. CASE rkey[r].account # a
      <4>1. OfAccount(a)' = OfAccount(a)
        BY <2>2, <2>3, <3>2 DEF OfAccount, TypeOK
      <4>2. QED
        BY <4>1
    <3>3. QED
      BY <3>1, <3>2
  <2>7. QED
    BY <2>5, <2>6
<1>3. ASSUME NEW c \in Conn, CloseEnds(c) PROVE CapacityRespected'
  <2>1. pooled' \subseteq pooled /\ \A a \in Account : OfAccount(a)' \subseteq OfAccount(a)
    BY <1>3 DEF CloseEnds, OfAccount, TypeOK
  <2>2. /\ Cardinality(pooled) \in Nat /\ Cardinality(pooled') \in Nat
        /\ Cardinality(pooled') <= Cardinality(pooled)
    BY <1>1, <2>1, FS_Subset, FS_CardinalityType
  <2>3. ASSUME NEW a \in Account PROVE Cardinality(OfAccount(a)') <= MaxAccountConnections
    <3>1. /\ Cardinality(OfAccount(a)) \in Nat /\ Cardinality(OfAccount(a)') \in Nat
          /\ Cardinality(OfAccount(a)') <= Cardinality(OfAccount(a))
      BY <1>1, <2>1, FS_Subset, FS_CardinalityType
    <3>2. QED
      BY <3>1
  <2>4. QED
    BY <2>2, <2>3
<1>4. ASSUME UNCHANGED <<pooled, ckey>> PROVE CapacityRespected'
  BY <1>4 DEF OfAccount
<1>5. QED
  BY <1>2, <1>3, <1>4, ListingSteps

(* The documented bounds on connections, "counting connections being       *)
(* opened or closed" (docs/spartan-route.md), for any two bounds.          *)
THEOREM BoundedPool == Spec => []CapacityRespected
<1>1. Init => CapacityRespected
  <2>1. ASSUME Init PROVE pooled = {} /\ \A a : OfAccount(a) = {}
    BY <2>1 DEF Init, OfAccount
  <2>2. QED
    BY <2>1, FS_EmptySet, TransportAssumption DEF CapacityRespected
<1>2. QED
  BY <1>1, TypeCorrect, NextCapacity, PTL DEF Spec

-----------------------------------------------------------------------------
(***************************************************************************)
(* Refinement.  The step that lists a connection takes an item for the     *)
(* account of its key, the end of a close gives one back, and every other  *)
(* step of the pool stutters.                                              *)
(***************************************************************************)
LEMMA TakenArePooled == TypeOK /\ Generations => Connections!Taken = pooled
<1> SUFFICES ASSUME TypeOK, Generations PROVE Connections!Taken = pooled
  OBVIOUS
<1>1. pooled \subseteq Conn /\ \A c \in pooled : ckey[c].account # NULL
  BY TransportAssumption DEF TypeOK, Generations, Key
<1>2. QED
  BY <1>1 DEF Connections!Taken, Holder

LEMMA HeldByAccount ==
  ASSUME TypeOK, Generations, NEW a \in Account
  PROVE  {c \in Conn : Holder[c] = a} = OfAccount(a)
  BY TransportAssumption DEF Holder, OfAccount, TypeOK, Key

(* The instance brings its own copy of Cardinality.                        *)
LEMMA SameCardinality == \A S : Connections!Cardinality(S) = Cardinality(S)
  BY DEF Connections!Cardinality, Cardinality

LEMMA NextBounds ==
  PoolInvariant /\ TypeOK' /\ [Next]_vars => [Connections!Next]_Holder
<1> SUFFICES ASSUME Typed, TypeOK, Generations, [Next]_vars, TypeOK' PROVE [Connections!Next]_Holder
  BY DEF PoolInvariant, Typed
<1>1. IsFiniteSet(pooled) /\ \A a : IsFiniteSet(OfAccount(a))
  BY FS_Subset, TransportAssumption DEF TypeOK, OfAccount
<1>2. ASSUME NEW r \in Req, ReserveNew(r) PROVE Connections!Next
  <2> DEFINE a == rkey[r].account
  <2>1. ~Full(rkey[r])
    BY <1>2 DEF ReserveNew
  <2>2. PICK c \in Garbage : pooled' = pooled \cup {c} /\ ckey' = [ckey EXCEPT ![c] = rkey[r]]
    BY <1>2 DEF ReserveNew
  <2>3. c \in Conn /\ c \notin pooled
    BY DEF Garbage
  <2>4. rkey[r] \in Key /\ a \in Account /\ a # NULL
    BY <1>2, TransportAssumption DEF Typed, ReserveNew, Key
  <2>5. Cardinality(Connections!Taken) < MaxConnections
    BY <1>1, <2>1, TakenArePooled, FS_CardinalityType, TransportAssumption DEF Full
  <2>6. Cardinality({d \in Conn : Holder[d] = a}) < MaxAccountConnections
    <3>1. {d \in Conn : Holder[d] = a} = OfAccount(a)
      BY <2>4, HeldByAccount
    <3>2. Cardinality(OfAccount(a)) \in Nat
      BY <1>1, FS_CardinalityType
    <3>3. ~(Cardinality(OfAccount(a)) >= MaxAccountConnections)
      BY <2>1 DEF Full, AccountFull
    <3>4. QED
      BY <3>1, <3>2, <3>3, TransportAssumption
  <2>7. Holder' = [Holder EXCEPT ![c] = a]
    BY <2>2, <2>3, <2>4 DEF Holder, TypeOK
  <2>8. Holder[c] = NULL
    BY <2>3 DEF Holder
  <2>9. Connections!Take(c, a)
    BY <2>5, <2>6, <2>7, <2>8, SameCardinality DEF Connections!Take
  <2>10. QED
    BY <2>3, <2>4, <2>9 DEF Connections!Next
<1>3. ASSUME NEW c \in Conn, CloseEnds(c) PROVE Connections!Next
  <2>1. pooled' = pooled \ {c} /\ \A d \in Conn \ {c} : ckey'[d] = ckey[d]
    BY <1>3 DEF CloseEnds, TypeOK
  <2>2. Connections!GiveBack({c} \cap pooled)
    BY <2>1 DEF Connections!GiveBack, Holder
  <2>3. {c} \cap pooled \in SUBSET Connections!Taken
    BY TakenArePooled
  <2>4. QED
    BY <2>2, <2>3 DEF Connections!Next
<1>4. ASSUME UNCHANGED <<pooled, ckey>> PROVE UNCHANGED Holder
  BY <1>4 DEF Holder
<1>5. QED
  BY <1>2, <1>3, <1>4, ListingSteps

(* The documented bounds once more (docs/spartan-route.md, reserve()): the *)
(* pool is the abstract bounded table, for any two bounds.                 *)
THEOREM ImplementsBounds == Spec => BoundsConnections
<1>1. Init => Connections!Init
  BY DEF Init, Connections!Init, Holder
<1>2. QED
  BY <1>1, PoolIsConsistent, TypeCorrect, NextBounds, PTL DEF Spec, BoundsConnections, Connections!Spec

-----------------------------------------------------------------------------
(***************************************************************************)
(* Ambiguous deliveries.                                                   *)
(***************************************************************************)
LEMMA NextReplay ==
  Typed /\ ReplayInvariant /\ NoAmbiguousReplay /\ [Next]_vars
    => ReplayInvariant' /\ NoAmbiguousReplay'
<1> SUFFICES ASSUME Typed, ReplayInvariant, NoAmbiguousReplay, [Next]_vars
             PROVE  ReplayInvariant' /\ NoAmbiguousReplay'
  OBVIOUS
<1> DEFINE Goal == ReplayInvariant' /\ NoAmbiguousReplay'
<1> USE TransportAssumption DEF Typed, TypeOK, PC, ReplayInvariant, NoAmbiguousReplay, poolVars, reqVars
<1>1. ASSUME NEW r \in Req, NEW k \in Key, Open(r, k) PROVE Goal
  BY <1>1 DEF Open, Finish
<1>2. ASSUME NEW r \in Req, Reserve(r) \/ ReserveCancelled(r) PROVE Goal
  BY <1>2 DEF Reserve, ReserveRefused, ReserveIdle, ReserveFull, ReserveNew, ReserveCancelled,
              Finish, FinishUndelivered
<1>3. ASSUME NEW r \in Req, Join(r) PROVE Goal
  BY <1>3 DEF Join, Joined, JoinCancelled, Finish
<1>4. ASSUME NEW r \in Req, Handshake(r) PROVE Goal
  BY <1>4 DEF Handshake, Connected, ConnectedTooLate, UpgradeRefused, ConnectFailed,
              ConnectCancelled, Finish, FinishUndelivered
<1>5. ASSUME NEW r \in Req, Event(r) PROVE Goal
  BY <1>5 DEF Event
<1>6. ASSUME NEW r \in Req, SendFailed(r) \/ Release(r) \/ ErrorEvent(r) PROVE Goal
  <2>1. CASE SendFailed(r)
    BY <2>1 DEF SendFailed, Finish
  <2>2. CASE Release(r)
    BY <2>2 DEF Release, Finish
  <2>3. CASE ErrorEvent(r)
    <3>1. CASE ~material[r] /\ Finish(r, "rejected")
      BY <2>3, <3>1 DEF ErrorEvent, Finish
    <3>2. CASE Finish(r, "failed")
      BY <2>3, <3>2 DEF ErrorEvent, Finish
    <3>3. QED
      BY <2>3, <3>1, <3>2 DEF ErrorEvent
  <2>4. QED
    BY <1>6, <2>1, <2>2, <2>3
<1>7. ASSUME NEW r \in Req, Again(r) PROVE Goal
  BY <1>7 DEF Again
<1>8. ASSUME NEW c \in Conn, Wear(c, "aged") \/ Wear(c, "closed") \/ IdleEnds(c) \/ CloseEnds(c)
      PROVE  Goal
  BY <1>8 DEF Wear, IdleEnds, CloseEnds
<1>9. ASSUME (\E g \in Gen : UnsupportedLapses(g)) \/ Close \/ UNCHANGED vars PROVE Goal
  BY <1>9 DEF UnsupportedLapses, Close, vars
<1>10. QED
  BY <1>1, <1>2, <1>3, <1>4, <1>5, <1>6, <1>7, <1>8, <1>9 DEF Next, Exchange

(* "An ambiguous send or disconnect cannot trigger account rotation or     *)
(* HTTP replay" (docs/spartan-route.md).                                   *)
THEOREM AmbiguousSendIsFinal == Spec => []NoAmbiguousReplay
<1>1. Init => ReplayInvariant /\ NoAmbiguousReplay
  BY TransportAssumption DEF Init, ReplayInvariant, NoAmbiguousReplay
<1>2. PoolInvariant => Typed
  BY DEF PoolInvariant
<1>3. QED
  BY <1>1, <1>2, PoolIsConsistent, NextReplay, PTL DEF Spec
=============================================================================
