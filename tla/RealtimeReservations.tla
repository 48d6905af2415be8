------------------------ MODULE RealtimeReservations ------------------------
(***************************************************************************)
(* Realtime voice sessions of Spartan Route (spartan_route/realtime.py):   *)
(* a session is reserved and minted with the credential of the client's    *)
(* slot, a ticket is issued, redeemed once for a WebSocket, relayed, and   *)
(* released; tickets expire by a timer, a shutdown drains everything.      *)
(*                                                                         *)
(* A step is the code between two awaits.  A reservation with its handler  *)
(* is one element of Res; an element is used again after its reservation   *)
(* was released and its handler has returned.                              *)
(***************************************************************************)
EXTENDS Integers, FiniteSets

CONSTANTS
  Res,          \* reservation objects
  Client,       \* voice clients
  Slot,         \* subscription slots
  SlotOf,       \* the slot each client is authorised for
  Account,      \* subscription accounts
  MaxSessions,  \* config.max_sessions
  PerClient,    \* config.per_client
  PerAccount,   \* config.per_account
  NULL          \* the absent value

ASSUME RealtimeAssumption ==
  /\ IsFiniteSet(Res)
  /\ SlotOf \in [Client -> Slot]
  /\ MaxSessions \in Nat \ {0} /\ PerClient \in Nat \ {0}
  /\ PerAccount \in Nat \ {0}
  /\ NULL \notin Client \cup Account

VARIABLES
  ready,    \* slot_ready() accepts the slot
  auth,     \* the account of slot.auth
  listed,   \* the reservations in Reservations.entries
  client,   \* Reservation.client
  account,  \* Reservation.account
  state,    \* Reservation.state
  tickets,  \* the reservations with an entry in Reservations.tickets
  timers,   \* the reservations whose timer is pending
  pc,       \* where the handler that works on the reservation is suspended
  held,     \* slot.auth is still the object the handler read
  lively,   \* a message was relayed since the last tick of idle()
  closing   \* "no", "draining" (Reservations.closing) or "down"

slotVars == <<ready, auth>>
entryVars == <<listed, client, account, state, tickets, timers>>
vars == <<slotVars, entryVars, pc, held, lively, closing>>

Minting == {"read", "load", "admit", "post"}
Serving == {"check", "dial", "relay"}
Stops   == {"none", "abort", "close"} \cup Minting \cup Serving

(* Every variable has the values the code gives it.                        *)
TypeOK ==
  /\ ready \in [Slot -> BOOLEAN]
  /\ auth \in [Slot -> Account \cup {NULL}]
  /\ listed \subseteq Res /\ tickets \subseteq Res /\ timers \subseteq Res
  /\ client \in [Res -> Client \cup {NULL}]
  /\ \A r \in Res : client[r] # NULL <=> r \in listed
  /\ account \in [Res -> Account \cup {NULL}]
  /\ state \in [Res -> {"minting", "issued", "connecting", "active"}]
  /\ pc \in [Res -> Stops]
  /\ held \subseteq Res /\ lively \subseteq Res
  /\ closing \in {"no", "draining", "down"}

Init ==
  /\ ready = [s \in Slot |-> TRUE]
  /\ auth \in [Slot -> Account]
  /\ listed = {} /\ tickets = {} /\ timers = {}
  /\ client = [r \in Res |-> NULL]
  /\ account = [r \in Res |-> NULL]
  /\ state = [r \in Res |-> "minting"]
  /\ pc = [r \in Res |-> "none"]
  /\ held = {} /\ lively = {}
  /\ closing = "no"

SlotFor(r) == SlotOf[client[r]]

Goto(r, label) == pc' = [pc EXCEPT ![r] = label]

-----------------------------------------------------------------------------
(* The surroundings.                                                       *)

(* Routing override, cooldown or retry time of a slot changes.             *)
ReadyChanges(s) ==
  /\ ready' = [ready EXCEPT ![s] = ~@]
  /\ UNCHANGED <<auth, entryVars, pc, held, lively, closing>>

(* The slot gets another CodexAuth object, perhaps of another account, or  *)
(* none.                                                                   *)
AuthChanges(s) ==
  /\ \E a \in Account \cup {NULL} : auth' = [auth EXCEPT ![s] = a]
  /\ held' = {r \in held : SlotFor(r) # s}
  /\ UNCHANGED <<ready, entryVars, pc, lively, closing>>

-----------------------------------------------------------------------------
(* Reservations.                                                           *)

(* Bug: the entry goes, its ticket and timer stay.                         *)
ReleaseEntry(S) ==
  /\ listed' = listed \ S
  /\ UNCHANGED <<tickets, timers>>
  /\ client' = [r \in Res |-> IF r \in S THEN NULL ELSE client[r]]
  /\ account' = [r \in Res |-> IF r \in S THEN NULL ELSE account[r]]
  /\ state' = [r \in Res |-> IF r \in S THEN "minting" ELSE state[r]]

(* release(): idempotent.  What no handler uses any more is forgotten.     *)
Release(S) ==
  /\ listed' = listed \ S
  /\ tickets' = tickets \ S
  /\ timers' = timers \ S
  /\ client' = [r \in Res |-> IF r \in S THEN NULL ELSE client[r]]
  /\ account' = [r \in Res |-> IF r \in S THEN NULL ELSE account[r]]
  /\ state' = [r \in Res |-> IF r \in S THEN "minting" ELSE state[r]]

(* The handler returns and its reservation is released.                    *)
End(r) ==
  /\ Release({r})
  /\ Goto(r, "none")
  /\ held' = held \ {r}
  /\ lively' = lively \ {r}

(* mint(): reserve() checks the bounds and lists the reservation.          *)
Reserve(r, c) ==
  /\ closing = "no"
  /\ r \notin listed /\ pc[r] = "none"
  /\ Cardinality(listed) + 1 <= MaxSessions
  /\ Cardinality({q \in listed : client[q] = c}) + 1 <= PerClient
  /\ listed' = listed \cup {r}
  /\ client' = [client EXCEPT ![r] = c]
  /\ Goto(r, "read")
  /\ UNCHANGED <<slotVars, account, state, tickets, timers, held, lively,
                 closing>>

(* The body has been read; slot_ready() before load_auth().                *)
MintReads(r) ==
  /\ pc[r] = "read" /\ ready[SlotFor(r)]
  /\ Goto(r, "load")
  /\ UNCHANGED <<slotVars, entryVars, held, lively, closing>>

(* load_auth() returns the slot's credential; quota.admit() is called.     *)
MintLoads(r) ==
  /\ pc[r] = "load" /\ auth[SlotFor(r)] # NULL
  /\ held' = held \cup {r}
  /\ Goto(r, "admit")
  /\ UNCHANGED <<slotVars, entryVars, lively, closing>>

(* quota_ready(): after the await the slot must still be ready and have    *)
(* the same credential object, of the account the session was minted for.  *)
StillReady(r, a) ==
  /\ ready[SlotFor(r)]
  /\ r \in held
  /\ a # NULL => auth[SlotFor(r)] = a

(* Bug: only active sessions count for the account.                        *)
AdmittedCountsActive(r) ==
  LET a == auth[SlotFor(r)] IN
    /\ pc[r] = "admit" /\ StillReady(r, NULL)
    /\ Cardinality({q \in listed : account[q] = a /\ state[q] = "active"}) + 1
         <= PerAccount
    /\ account' = [account EXCEPT ![r] = a]
    /\ Goto(r, "post")
    /\ UNCHANGED <<slotVars, listed, client, state, tickets, timers, held,
                   lively, closing>>

(* quota.admit() has admitted; bind() checks the bound of the account, and *)
(* the secret is requested upstream.                                       *)
MintAdmitted(r) ==
  LET a == auth[SlotFor(r)] IN
    /\ pc[r] = "admit" /\ StillReady(r, NULL)
    /\ Cardinality({q \in listed : account[q] = a}) + 1 <= PerAccount
    /\ account' = [account EXCEPT ![r] = a]
    /\ Goto(r, "post")
    /\ UNCHANGED <<slotVars, listed, client, state, tickets, timers, held,
                   lively, closing>>

(* The secret has arrived: issue(), the answer is the ticket.              *)
MintIssues(r) ==
  /\ pc[r] = "post"
  /\ state' = [state EXCEPT ![r] = "issued"]
  /\ tickets' = tickets \cup {r}
  /\ timers' = timers \cup {r}
  /\ Goto(r, "none")
  /\ held' = held \ {r}
  /\ UNCHANGED <<slotVars, listed, client, account, lively, closing>>

(* Any error, the deadline of the mint or a cancellation.                  *)
MintFails(r) ==
  /\ pc[r] \in Minting \cup {"abort"}
  /\ End(r)
  /\ UNCHANGED <<slotVars, closing>>

(* Bug: the timer forgets the client but leaves the entry.                 *)
TicketOnlyExpires(r) ==
  /\ r \in timers
  /\ client' = [client EXCEPT ![r] = NULL]
  /\ UNCHANGED <<slotVars, listed, account, state, tickets, timers, pc, held,
                 lively, closing>>

(* The timer of a ticket, or redeem() after its deadline.                  *)
TicketExpires(r) ==
  /\ r \in timers
  /\ Release({r})
  /\ UNCHANGED <<slotVars, pc, held, lively, closing>>

-----------------------------------------------------------------------------
(* websocket() and relay().                                                *)

(* redeem() consumes the ticket; voice_dispatch() lets no request in       *)
(* during a shutdown.                                                      *)
Redeemed(r) ==
  /\ closing = "no"
  /\ r \in tickets
  /\ tickets' = tickets \ {r}
  /\ timers' = timers \ {r}
  /\ state' = [state EXCEPT ![r] = "connecting"]

(* The slot is ready and has the account of the mint: quota.admit().       *)
Redeem(r) ==
  LET s == SlotFor(r) IN
    /\ Redeemed(r)
    /\ ready[s] /\ auth[s] = account[r]
    /\ held' = held \cup {r}
    /\ Goto(r, "check")
    /\ UNCHANGED <<slotVars, listed, client, account, lively, closing>>

(* It is not what the session was minted for.                              *)
RedeemFails(r) ==
  LET s == SlotFor(r) IN
    /\ Redeemed(r)
    /\ ~(ready[s] /\ auth[s] = account[r])
    /\ Goto(r, "close")
    /\ UNCHANGED <<slotVars, listed, client, account, held, lively, closing>>

(* quota.admit() has admitted: the upstream socket is opened.              *)
Dial(r) ==
  /\ pc[r] = "check" /\ StillReady(r, account[r])
  /\ held' = held \ {r}
  /\ Goto(r, "dial")
  /\ UNCHANGED <<slotVars, entryVars, lively, closing>>

(* Both sockets are open: relay().                                         *)
Connected(r) ==
  /\ pc[r] = "dial"
  /\ state' = [state EXCEPT ![r] = "active"]
  /\ Goto(r, "relay")
  /\ UNCHANGED <<slotVars, listed, client, account, tickets, timers, held,
                 lively, closing>>

(* forward(): a message is passed on in either direction.                  *)
Forward(r) ==
  /\ pc[r] = "relay" /\ r \notin lively
  /\ lively' = lively \cup {r}
  /\ UNCHANGED <<slotVars, entryVars, pc, held, closing>>

(* idle(): idle_seconds have passed and a message came meanwhile.          *)
IdleTick(r) ==
  /\ pc[r] = "relay" /\ r \in lively
  /\ lively' = lively \ {r}
  /\ UNCHANGED <<slotVars, entryVars, pc, held, closing>>

(* Bug: only silence ends a relay.                                         *)
ServeEndsSilent(r) ==
  /\ pc[r] \in Serving /\ r \notin lively
  /\ Goto(r, "close")
  /\ held' = held \ {r}
  /\ UNCHANGED <<slotVars, entryVars, lively, closing>>

(* Bug: released before its sockets are closed.                            *)
ServeEndsReleased(r) ==
  /\ pc[r] \in Serving
  /\ Goto(r, "close")
  /\ held' = held \ {r}
  /\ Release({r})
  /\ UNCHANGED <<slotVars, lively, closing>>

(* A check, the handshake or the relay ends: an error, a peer that closes, *)
(* idle_seconds without a message, a deadline, a cancellation.             *)
ServeEnds(r) ==
  /\ pc[r] \in Serving
  /\ Goto(r, "close")
  /\ held' = held \ {r}
  /\ UNCHANGED <<slotVars, entryVars, lively, closing>>

(* The sockets are closed, or two seconds have passed: release().          *)
Closed(r) ==
  /\ pc[r] = "close"
  /\ End(r)
  /\ UNCHANGED <<slotVars, closing>>

-----------------------------------------------------------------------------
(* shutdown(): the tasks of the reservations are cancelled and awaited ... *)
Shutdown ==
  /\ closing = "no"
  /\ closing' = "draining"
  /\ pc' = [r \in Res |->
              IF r \notin listed THEN pc[r]
              ELSE IF pc[r] \in Minting THEN "abort"
              ELSE IF pc[r] \in Serving THEN "close" ELSE pc[r]]
  /\ held' = {}
  /\ UNCHANGED <<slotVars, entryVars, lively>>

(* ... then the tickets nobody redeemed are released.                      *)
Drained ==
  /\ closing = "draining"
  /\ \A r \in listed : pc[r] = "none"
  /\ closing' = "down"
  /\ Release(listed)
  /\ UNCHANGED <<slotVars, pc, held, lively>>

Down == closing = "down" /\ UNCHANGED vars

-----------------------------------------------------------------------------
Handler(r) ==
  \/ MintReads(r) \/ MintLoads(r) \/ MintAdmitted(r) \/ MintIssues(r)
  \/ MintFails(r)
  \/ Dial(r) \/ Connected(r) \/ ServeEnds(r) \/ Closed(r)

Next ==
  \/ \E s \in Slot : ReadyChanges(s) \/ AuthChanges(s)
  \/ \E r \in Res : \/ \E c \in Client : Reserve(r, c)
                    \/ Handler(r) \/ TicketExpires(r)
                    \/ Redeem(r) \/ RedeemFails(r)
                    \/ Forward(r) \/ IdleTick(r)
  \/ Shutdown \/ Drained \/ Down

(* The awaits of a handler are under deadlines (mint_seconds,              *)
(* handshake_seconds, session_seconds, two seconds to close) except for    *)
(* quota.admit() in websocket(), which ends with the shared usage refresh, *)
(* whose upstream calls have their own; a ticket has a timer, and          *)
(* shutdown() goes on when its tasks have ended.  Nothing obliges clients  *)
(* to come, to redeem, or to be silent.                                    *)
Fairness ==
  /\ \A r \in Res : /\ WF_vars(MintFails(r) \/ MintIssues(r))
                    /\ WF_vars(ServeEnds(r)) /\ WF_vars(Closed(r))
                    /\ WF_vars(TicketExpires(r))
  /\ WF_vars(Drained)

Spec == Init /\ [][Next]_vars /\ Fairness

-----------------------------------------------------------------------------
(* Safety.                                                                 *)

(* Tickets, timers and states agree: a ticket leads to a listed            *)
(* reservation that waits for it, and every reservation that waits has a   *)
(* ticket and a timer that will release it.                                *)
TicketsMatch ==
  /\ tickets = {r \in listed : state[r] = "issued"}
  /\ timers = tickets

(* A handler's reservation keeps its place in the bounds until the handler *)
(* is done with its sockets: neither the ticket's timer nor the shutdown   *)
(* releases it earlier, so a session that runs is a session that counts;   *)
(* and after a shutdown nothing is left, neither entry nor handler.        *)
RunningIsListed ==
  /\ \A r \in Res : pc[r] # "none" => r \in listed
  /\ closing = "down" => listed = {}

(* The phase of a reservation, the stop of its handler and what is known   *)
(* of its account agree: bind() has run exactly from the request for the   *)
(* secret on, and what waits for its redemption has no handler.            *)
Phases ==
  \A r \in Res :
    /\ r \notin listed => state[r] = "minting" /\ account[r] = NULL
    /\ pc[r] \in Minting \cup {"abort"} => state[r] = "minting"
    /\ pc[r] \in {"read", "load", "admit"} => account[r] = NULL
    /\ pc[r] \in {"post"} \cup Serving => account[r] # NULL
    /\ pc[r] \in {"check", "dial"} => state[r] = "connecting"
    /\ pc[r] = "relay" => state[r] = "active"
    /\ pc[r] = "close" => state[r] \in {"connecting", "active"}
    /\ state[r] = "issued" => pc[r] = "none" /\ account[r] # NULL

(* A credential object that a handler still has as the current one of its  *)
(* slot is there: slot.auth cannot be None for it.                         *)
HeldIsCurrent ==
  \A r \in held : pc[r] \in {"admit", "post", "check"} /\ auth[SlotFor(r)] # NULL

(* config.max_sessions                                                     *)
SessionsBounded == Cardinality(listed) <= MaxSessions

(* The inductive invariant: how reservations, tickets, handlers and        *)
(* credentials fit together at every await.                                *)
ReservationInvariant ==
  TypeOK /\ TicketsMatch /\ RunningIsListed /\ Phases /\ HeldIsCurrent /\ SessionsBounded

-----------------------------------------------------------------------------
(* Liveness.                                                               *)

(* Every reservation is released, although messages keep an active session *)
(* lively, and a shutdown ends.                                            *)
ReservationsEnd ==
  /\ \A r \in Res : r \in listed ~> r \notin listed
  /\ closing = "draining" ~> closing = "down"

-----------------------------------------------------------------------------
(* Both bounds, as the abstract module states them: sessions with their    *)
(* clients, and sessions with the accounts they are bound to.              *)
ClientBounds == INSTANCE BoundedResources WITH
  Item <- Res, Owner <- Client, Nobody <- NULL,
  Total <- MaxSessions, Share <- PerClient,
  holder <- [r \in Res |-> IF r \in listed THEN client[r] ELSE NULL]

AccountBounds == INSTANCE BoundedResources WITH
  Item <- Res, Owner <- Account, Nobody <- NULL,
  Total <- MaxSessions, Share <- PerAccount,
  holder <- [r \in Res |-> IF r \in listed THEN account[r] ELSE NULL]

(* Sessions are admitted one at a time within the limits of the service    *)
(* and of the client ...                                                   *)
BoundsClients == ClientBounds!Spec

(* ... and bound to an account within the limit of the account, although   *)
(* the account is known only after awaits during which others are bound.   *)
BoundsAccounts == AccountBounds!Spec

(* Both refinements.                                                       *)
BoundsSessions == BoundsClients /\ BoundsAccounts
=============================================================================
