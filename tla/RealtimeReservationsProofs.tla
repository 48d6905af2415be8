--------------------- MODULE RealtimeReservationsProofs ---------------------
(***************************************************************************)
(* Proofs about RealtimeReservations, for every number of reservations,    *)
(* clients, slots and accounts and every three bounds.                     *)
(***************************************************************************)
EXTENDS RealtimeReservations, FiniteSetTheorems, TLAPS

(* How reservations, tickets, handlers and credentials fit together; the   *)
(* number of sessions is treated apart.                                    *)
Fit == TypeOK /\ TicketsMatch /\ RunningIsListed /\ Phases /\ HeldIsCurrent

(* An idle service satisfies it.                                           *)
LEMMA InitFit == Init => Fit
  BY RealtimeAssumption
  DEF Init, Fit, TypeOK, TicketsMatch, RunningIsListed, Phases, HeldIsCurrent, Stops,
      Minting, Serving

(* Every step of mint(), websocket(), relay(), the timers and shutdown()   *)
(* keeps it.                                                               *)
LEMMA NextFit == Fit /\ [Next]_vars => Fit'
<1> SUFFICES ASSUME Fit, [Next]_vars PROVE Fit'
  OBVIOUS
<1> USE RealtimeAssumption
    DEF Fit, TypeOK, TicketsMatch, RunningIsListed, Phases, HeldIsCurrent, Stops,
        Minting, Serving, slotVars, entryVars, SlotFor, Goto
<1>1. ASSUME NEW s \in Slot, ReadyChanges(s) PROVE Fit'
  BY <1>1 DEF ReadyChanges
<1>2. ASSUME NEW s \in Slot, AuthChanges(s) PROVE Fit'
  BY <1>2 DEF AuthChanges
<1>3. ASSUME NEW r \in Res, NEW c \in Client, Reserve(r, c) PROVE Fit'
  BY <1>3 DEF Reserve
<1>4. ASSUME NEW r \in Res, MintReads(r) PROVE Fit'
  BY <1>4 DEF MintReads
<1>5. ASSUME NEW r \in Res, MintLoads(r) PROVE Fit'
  BY <1>5 DEF MintLoads
<1>6. ASSUME NEW r \in Res, MintAdmitted(r) PROVE Fit'
  BY <1>6 DEF MintAdmitted, StillReady
<1>7. ASSUME NEW r \in Res, MintIssues(r) PROVE Fit'
  BY <1>7 DEF MintIssues
<1>8. ASSUME NEW r \in Res, MintFails(r) PROVE Fit'
  BY <1>8 DEF MintFails, End, Release
<1>9. ASSUME NEW r \in Res, Dial(r) PROVE Fit'
  BY <1>9 DEF Dial
<1>10. ASSUME NEW r \in Res, Connected(r) PROVE Fit'
  BY <1>10 DEF Connected
<1>11. ASSUME NEW r \in Res, ServeEnds(r) PROVE Fit'
  BY <1>11 DEF ServeEnds
<1>12. ASSUME NEW r \in Res, Closed(r) PROVE Fit'
  BY <1>12 DEF Closed, End, Release
<1>13. ASSUME NEW r \in Res, TicketExpires(r) PROVE Fit'
  BY <1>13 DEF TicketExpires, Release
<1>14. ASSUME NEW r \in Res, Redeem(r) PROVE Fit'
  BY <1>14 DEF Redeem, Redeemed
<1>15. ASSUME NEW r \in Res, RedeemFails(r) PROVE Fit'
  BY <1>15 DEF RedeemFails, Redeemed
<1>16. ASSUME NEW r \in Res, Forward(r) \/ IdleTick(r) PROVE Fit'
  BY <1>16 DEF Forward, IdleTick
<1>17. ASSUME Shutdown PROVE Fit'
  BY <1>17 DEF Shutdown
<1>18. ASSUME Drained PROVE Fit'
  BY <1>18 DEF Drained, Release
<1>19. ASSUME Down \/ UNCHANGED vars PROVE Fit'
  BY <1>19 DEF Down, vars
<1>20. QED
  BY <1>1, <1>2, <1>3, <1>4, <1>5, <1>6, <1>7, <1>8, <1>9, <1>10, <1>11, <1>12, <1>13,
     <1>14, <1>15, <1>16, <1>17, <1>18, <1>19
  DEF Next, Handler

-----------------------------------------------------------------------------
(***************************************************************************)
(* Bounds.  Only reserve() lists a reservation and only bind() gives it an *)
(* account; a release takes both away, and no other step touches them.     *)
(***************************************************************************)
LEMMA TableSteps ==
  ASSUME Fit, [Next]_vars
  PROVE  \/ \E r \in Res, c \in Client : Reserve(r, c)
         \/ \E r \in Res : MintAdmitted(r)
         \/ \E S \in SUBSET listed : Release(S)
         \/ UNCHANGED <<listed, client, account>>
<1> USE DEF slotVars, entryVars
<1>1. ASSUME NEW r \in Res, MintFails(r) \/ Closed(r) PROVE Release({r}) /\ r \in listed
  BY <1>1 DEF MintFails, Closed, End, Fit, RunningIsListed, Minting
<1>2. ASSUME NEW r \in Res, TicketExpires(r)
      PROVE  Release({r}) /\ r \in listed
  BY <1>2 DEF TicketExpires, Fit, TicketsMatch
<1>3. ASSUME NEW r \in Res, Handler(r) \/ Redeem(r) \/ RedeemFails(r) \/ Forward(r) \/ IdleTick(r)
      PROVE  MintAdmitted(r) \/ MintFails(r) \/ Closed(r) \/ UNCHANGED <<listed, client, account>>
  BY <1>3 DEF Handler, MintReads, MintLoads, MintIssues, Dial, Connected, ServeEnds, Redeem,
              RedeemFails, Forward, IdleTick
<1>4. ASSUME (\E s \in Slot : ReadyChanges(s) \/ AuthChanges(s)) \/ Shutdown \/ Down
             \/ UNCHANGED vars
      PROVE  UNCHANGED <<listed, client, account>>
  BY <1>4 DEF ReadyChanges, AuthChanges, Shutdown, Down, vars
<1>5. ASSUME Drained PROVE Release(listed)
  BY <1>5 DEF Drained
<1>6. QED
  BY <1>1, <1>2, <1>3, <1>4, <1>5 DEF Next

LEMMA SessionsFinite == TypeOK => IsFiniteSet(listed) /\ Cardinality(listed) \in Nat
  BY RealtimeAssumption, FS_Subset, FS_CardinalityType DEF TypeOK

(* The limit of the service holds at every step.                           *)
LEMMA NextBounded == Fit /\ SessionsBounded /\ [Next]_vars => SessionsBounded'
<1> SUFFICES ASSUME Fit, SessionsBounded, [Next]_vars PROVE SessionsBounded'
  OBVIOUS
<1> USE RealtimeAssumption DEF SessionsBounded
<1>1. IsFiniteSet(listed) /\ Cardinality(listed) \in Nat
  BY SessionsFinite DEF Fit
<1>2. ASSUME NEW r \in Res, NEW c \in Client, Reserve(r, c) PROVE SessionsBounded'
  <2>1. Cardinality(listed') = Cardinality(listed) + 1
    BY <1>1, <1>2, FS_AddElement DEF Reserve
  <2>2. QED
    BY <1>2, <2>1 DEF Reserve
<1>3. ASSUME NEW S \in SUBSET listed, Release(S) PROVE SessionsBounded'
  <2>1. listed' \in SUBSET listed
    BY <1>3 DEF Release
  <2>2. Cardinality(listed') <= Cardinality(listed) /\ Cardinality(listed') \in Nat
    BY <1>1, <2>1, FS_Subset, FS_CardinalityType
  <2>3. QED
    BY <1>1, <2>2
<1>4. ASSUME UNCHANGED listed \/ \E r \in Res : MintAdmitted(r) PROVE SessionsBounded'
  BY <1>4 DEF MintAdmitted
<1>5. QED
  BY <1>2, <1>3, <1>4, TableSteps

(* Every reachable state of the service satisfies the invariant: tickets,  *)
(* timers, handlers and entries agree, whatever is cancelled, expires or   *)
(* is shut down.                                                           *)
THEOREM ReservationsAreConsistent == Spec => []ReservationInvariant
<1>1. Init => ReservationInvariant
  <2>1. Init => SessionsBounded
    BY FS_EmptySet, RealtimeAssumption DEF Init, SessionsBounded
  <2>2. QED
    BY <2>1, InitFit DEF ReservationInvariant, Fit
<1>2. ReservationInvariant /\ [Next]_vars => ReservationInvariant'
  BY NextFit, NextBounded DEF ReservationInvariant, Fit
<1>3. QED
  BY <1>1, <1>2, PTL DEF Spec

(* A ticket leads to a reservation that waits for it, and what waits for   *)
(* its redemption has a ticket and a timer (issue(), redeem(), release()). *)
THEOREM TicketsLeadSomewhere == Spec => []TicketsMatch
<1>1. ReservationInvariant => TicketsMatch
  BY DEF ReservationInvariant
<1>2. QED
  BY <1>1, ReservationsAreConsistent, PTL

(* A session that runs is a session that counts, until its sockets are     *)
(* closed, and a shutdown leaves none (release(), shutdown()).             *)
THEOREM SessionsCount == Spec => []RunningIsListed
<1>1. ReservationInvariant => RunningIsListed
  BY DEF ReservationInvariant
<1>2. QED
  BY <1>1, ReservationsAreConsistent, PTL

-----------------------------------------------------------------------------
(***************************************************************************)
(* Refinement.  reserve() takes an item for the client, bind() one for the *)
(* account, a release gives back what it releases, and every other step    *)
(* stutters.  Each instance brings its own copy of Cardinality.            *)
(***************************************************************************)
LEMMA SameCardinality ==
  \A S : /\ ClientBounds!Cardinality(S) = Cardinality(S)
         /\ AccountBounds!Cardinality(S) = Cardinality(S)
  BY DEF ClientBounds!Cardinality, AccountBounds!Cardinality, Cardinality

(* Whom each session counts for, in the two tables.                        *)
ClientOf == [r \in Res |-> IF r \in listed THEN client[r] ELSE NULL]
AccountOf == [r \in Res |-> IF r \in listed THEN account[r] ELSE NULL]

LEMMA NextClientBounds ==
  Fit /\ Fit' /\ [Next]_vars => [ClientBounds!Next]_ClientOf
<1> SUFFICES ASSUME Fit, Fit', [Next]_vars PROVE [ClientBounds!Next]_ClientOf
  OBVIOUS
<1> USE RealtimeAssumption DEF Fit, TypeOK
<1>1. ClientBounds!Taken = listed
  BY DEF ClientBounds!Taken
<1>2. IsFiniteSet(listed) /\ Cardinality(listed) \in Nat
  BY SessionsFinite
<1>3. ASSUME NEW r \in Res, NEW c \in Client, Reserve(r, c) PROVE ClientBounds!Next
  <2>1. Cardinality(listed) < MaxSessions
    BY <1>2, <1>3 DEF Reserve
  <2>2. Cardinality({q \in Res : ClientOf[q] = c}) < PerClient
    <3> DEFINE Mine == {q \in listed : client[q] = c}
    <3>1. {q \in Res : ClientOf[q] = c} = Mine
      BY DEF ClientOf
    <3>2. Cardinality(Mine) + 1 <= PerClient
      BY <1>3 DEF Reserve
    <3>3. Mine \in SUBSET listed
      OBVIOUS
    <3> HIDE DEF Mine
    <3>4. Cardinality(Mine) \in Nat
      BY <1>2, <3>3, FS_Subset, FS_CardinalityType
    <3>5. Cardinality(Mine) < PerClient
      BY <3>2, <3>4
    <3>6. QED
      BY <3>1, <3>5
  <2>3. ClientOf' = [ClientOf EXCEPT ![r] = c] /\ ClientOf[r] = NULL
    BY <1>3 DEF Reserve, ClientOf
  <2>4. ClientBounds!Take(r, c)
    BY <1>1, <2>1, <2>2, <2>3, SameCardinality DEF ClientBounds!Take, ClientOf
  <2>5. QED
    BY <2>4 DEF ClientBounds!Next
<1>4. ASSUME NEW S \in SUBSET listed, Release(S) PROVE ClientBounds!Next
  <2>1. ClientBounds!GiveBack(S)
    BY <1>4 DEF ClientBounds!GiveBack, Release
  <2>2. QED
    BY <1>1, <2>1 DEF ClientBounds!Next
<1>5. ASSUME UNCHANGED <<listed, client>> \/ \E r \in Res : MintAdmitted(r)
      PROVE  UNCHANGED ClientOf
  BY <1>5 DEF ClientOf, MintAdmitted
<1>6. QED
  BY <1>3, <1>4, <1>5, TableSteps

LEMMA NextAccountBounds ==
  Fit /\ SessionsBounded /\ Fit' /\ [Next]_vars => [AccountBounds!Next]_AccountOf
<1> SUFFICES ASSUME Fit, SessionsBounded, Fit', [Next]_vars PROVE [AccountBounds!Next]_AccountOf
  OBVIOUS
<1> USE RealtimeAssumption DEF Fit, TypeOK
<1>1. AccountBounds!Taken = {q \in listed : account[q] # NULL}
  BY DEF AccountBounds!Taken
<1>2. IsFiniteSet(listed) /\ Cardinality(listed) \in Nat
  BY SessionsFinite
<1>3. ASSUME NEW r \in Res, MintAdmitted(r) PROVE AccountBounds!Next
  <2>0. r \in listed /\ account[r] = NULL /\ auth[SlotFor(r)] \in Account
    BY <1>3 DEF MintAdmitted, StillReady, RunningIsListed, Phases, HeldIsCurrent, SlotFor
  <2>1. PICK a \in Account : a = auth[SlotFor(r)] /\ r \in listed /\ account[r] = NULL
    BY <2>0
  <2>2. Cardinality(AccountBounds!Taken) < MaxSessions
    <3>1. AccountBounds!Taken \in SUBSET (listed \ {r})
      BY <1>1, <2>1
    <3>2. /\ IsFiniteSet(listed \ {r})
          /\ Cardinality(listed \ {r}) = Cardinality(listed) - 1
      BY <1>2, <2>1, FS_RemoveElement
    <3>3. /\ Cardinality(AccountBounds!Taken) <= Cardinality(listed \ {r})
          /\ Cardinality(AccountBounds!Taken) \in Nat
      BY <3>1, <3>2, FS_Subset, FS_CardinalityType
    <3>4. QED
      BY <1>2, <3>2, <3>3 DEF SessionsBounded
  <2>3. Cardinality({q \in Res : AccountOf[q] = a}) < PerAccount
    <3> DEFINE Mine == {q \in listed : account[q] = a}
    <3>1. {q \in Res : AccountOf[q] = a} = Mine
      BY <2>1 DEF AccountOf
    <3>2. Cardinality(Mine) + 1 <= PerAccount
      BY <1>3, <2>1 DEF MintAdmitted
    <3>3. Mine \in SUBSET listed
      OBVIOUS
    <3> HIDE DEF Mine
    <3>4. Cardinality(Mine) \in Nat
      BY <1>2, <3>3, FS_Subset, FS_CardinalityType
    <3>5. Cardinality(Mine) < PerAccount
      BY <3>2, <3>4
    <3>6. QED
      BY <3>1, <3>5
  <2>4. AccountOf' = [AccountOf EXCEPT ![r] = a] /\ AccountOf[r] = NULL
    <3>1. account' = [account EXCEPT ![r] = auth[SlotFor(r)]] /\ listed' = listed
      BY <1>3, Zenon DEF MintAdmitted
    <3>2. account' = [account EXCEPT ![r] = a]
      BY <2>1, <3>1, Zenon
    <3>3. r \in listed /\ account[r] = NULL
      BY <2>1
    <3>4. account \in [Res -> Account \cup {NULL}]
      OBVIOUS
    <3>5. AccountOf' = [q \in Res |-> IF q \in listed THEN IF q = r THEN a ELSE account[q]
                                      ELSE NULL]
      BY <3>1, <3>2, <3>4 DEF AccountOf
    <3>6. [AccountOf EXCEPT ![r] = a] = [q \in Res |-> IF q = r THEN a ELSE AccountOf[q]]
      BY DEF AccountOf
    <3>7. ASSUME NEW q \in Res
          PROVE  (IF q \in listed THEN IF q = r THEN a ELSE account[q] ELSE NULL)
                   = (IF q = r THEN a ELSE AccountOf[q])
      BY <3>3 DEF AccountOf
    <3>8. [q \in Res |-> IF q \in listed THEN IF q = r THEN a ELSE account[q] ELSE NULL]
            = [q \in Res |-> IF q = r THEN a ELSE AccountOf[q]]
      BY <3>7, Zenon
    <3>9. AccountOf' = [AccountOf EXCEPT ![r] = a]
      BY <3>5, <3>6, <3>8
    <3>10. AccountOf[r] = NULL
      BY <3>3 DEF AccountOf
    <3>11. QED
      BY <3>9, <3>10
  <2>5. AccountBounds!Take(r, a)
    BY <2>2, <2>3, <2>4, SameCardinality DEF AccountBounds!Take, AccountOf
  <2>6. QED
    BY <2>1, <2>5 DEF AccountBounds!Next
<1>4. ASSUME NEW S \in SUBSET listed, Release(S) PROVE AccountBounds!Next
  <2>1. PICK T \in SUBSET AccountBounds!Taken : T = {q \in S : account[q] # NULL}
    BY <1>1
  <2>2. AccountBounds!GiveBack(T)
    BY <1>4, <2>1 DEF AccountBounds!GiveBack, Release
  <2>3. QED
    BY <2>1, <2>2 DEF AccountBounds!Next
<1>5. ASSUME NEW r \in Res, NEW c \in Client, Reserve(r, c) PROVE UNCHANGED AccountOf
  BY <1>5 DEF AccountOf, Reserve, Phases
<1>6. ASSUME UNCHANGED <<listed, account>> PROVE UNCHANGED AccountOf
  BY <1>6 DEF AccountOf
<1>7. QED
  BY <1>3, <1>4, <1>5, <1>6, TableSteps

(* The limits of the service, of a client and of an account (reserve(),    *)
(* bind()): both tables of sessions are the abstract bounded table, for    *)
(* any three limits.                                                       *)
THEOREM ImplementsBounds == Spec => BoundsSessions
<1>1. Init => ClientBounds!Init /\ AccountBounds!Init
  BY DEF Init, ClientBounds!Init, AccountBounds!Init
<1>2. ReservationInvariant => Fit /\ SessionsBounded
  BY DEF ReservationInvariant, Fit
<1>3. Spec => BoundsClients
  BY <1>1, <1>2, ReservationsAreConsistent, NextClientBounds, PTL
  DEF Spec, BoundsClients, ClientBounds!Spec, ClientOf
<1>4. Spec => BoundsAccounts
  BY <1>1, <1>2, ReservationsAreConsistent, NextAccountBounds, PTL
  DEF Spec, BoundsAccounts, AccountBounds!Spec, AccountOf
<1>5. QED
  BY <1>3, <1>4, PTL DEF BoundsSessions
=============================================================================
