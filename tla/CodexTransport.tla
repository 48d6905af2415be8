--------------------------- MODULE CodexTransport ---------------------------
(***************************************************************************)
(* The subscription transport of Spartan Route                             *)
(* (infra/spartan-route/spartan_route/transport.py): a bounded pool of     *)
(* WebSocket connections shared by the coroutines that open inferences,    *)
(* with a fallback to plain HTTP before the request has been delivered.    *)
(*                                                                         *)
(* A coroutine runs without interruption between two awaits, so a step of  *)
(* this module is the code between two awaits of `open`, `reserve`,        *)
(* `_close` or `_idle`.  Deadlines are abstracted: a timed operation may   *)
(* fail at any time, and an idle connection may wear out at any time.      *)
(***************************************************************************)
EXTENDS Integers, FiniteSets

CONSTANTS
  Conn,                   \* identities of Connection objects
  Req,                    \* coroutines that call open()
  Account,                \* upstream accounts
  Gen,                    \* credential generations (Authorization digests)
  Scope,                  \* conversation / cache-key scopes
  MaxConnections,         \* MAX_CONNECTIONS
  MaxAccountConnections,  \* MAX_ACCOUNT_CONNECTIONS
  Fallback,               \* TRUE in mode "auto", FALSE in mode "websocket"
  NULL                    \* the absent value

ASSUME TransportAssumption ==
  /\ IsFiniteSet(Conn) /\ IsFiniteSet(Req)
  /\ MaxConnections \in Nat \ {0} /\ MaxAccountConnections \in Nat \ {0}
  /\ Fallback \in BOOLEAN
  /\ NULL \notin Conn \cup Req \cup Account \cup Gen \cup Scope
  /\ NULL \notin {"http", "rejected"}

(* The pool key: account, credential digest and scope; a request with      *)
(* neither scope nor cache key has scope NULL.                             *)
Key == [account : Account, gen : Gen, scope : Scope \cup {NULL}]

VARIABLES
  phase,        \* Connection.state of each connection object
  pooled,       \* the connection objects listed in CodexTransport.entries
  ckey,         \* Connection.key
  retire,       \* Connection.retire
  wear,         \* ws.closed, or past IDLE_SECONDS / MAX_AGE_SECONDS
  closers,      \* _close tasks pending for each connection object
  gens,         \* CodexTransport.generations
  lock,         \* holder of CodexTransport.lock across an await
  closing,      \* CodexTransport.closing
  unsupported,  \* credential digests whose upgrade was refused
  pc,           \* where each coroutine is suspended
  held,         \* the connection each coroutine works on
  rkey,         \* the pool key of its request
  sent,         \* the local `sent` of open()
  material,     \* WebSocketResponse.material
  ending,       \* WebSocketResponse.terminal / .success
  result        \* what open() or the response finally reported

poolVars == <<phase, pooled, ckey, retire, wear, closers>>
reqVars  == <<pc, held, rkey, sent, material, ending, result>>
vars == <<poolVars, gens, lock, closing, unsupported, reqVars>>

Phase  == {"connecting", "busy", "idle", "closing"}
PC     == {"new", "reserving", "joining", "connecting", "sending", "streaming", "done"}
Result == {NULL, "http", "busy", "shutdown", "failed", "rejected", "finished", "cancelled"}

TypeOK ==
  /\ phase \in [Conn -> Phase]
  /\ pooled \in SUBSET Conn
  /\ ckey \in [Conn -> Key \cup {NULL}]
  /\ retire \in [Conn -> BOOLEAN]
  /\ wear \in [Conn -> {"ok", "aged", "closed"}]
  /\ closers \in [Conn -> Nat]
  /\ gens \in [Account -> Gen \cup {NULL}]
  /\ lock \in Req \cup {NULL}
  /\ closing \in BOOLEAN
  /\ unsupported \in SUBSET Gen
  /\ pc \in [Req -> PC]
  /\ held \in [Req -> Conn \cup {NULL}]
  /\ rkey \in [Req -> Key \cup {NULL}]
  /\ sent \in [Req -> BOOLEAN]
  /\ material \in [Req -> BOOLEAN]
  /\ ending \in [Req -> {"open", "success", "failure"}]
  /\ result \in [Req -> Result]

(* A connection object is garbage, its identity reusable, once it has left *)
(* the pool, no closer is pending and no coroutine refers to it.           *)
Garbage == {c \in Conn : /\ c \notin pooled /\ closers[c] = 0
                         /\ \A r \in Req : held[r] # c}

Init ==
  /\ phase = [c \in Conn |-> "closing"] /\ pooled = {}
  /\ ckey = [c \in Conn |-> NULL] /\ retire = [c \in Conn |-> FALSE]
  /\ wear = [c \in Conn |-> "closed"] /\ closers = [c \in Conn |-> 0]
  /\ gens = [a \in Account |-> NULL] /\ lock = NULL
  /\ closing = FALSE /\ unsupported = {}
  /\ pc = [r \in Req |-> "new"] /\ held = [r \in Req |-> NULL]
  /\ rkey = [r \in Req |-> NULL] /\ sent = [r \in Req |-> FALSE]
  /\ material = [r \in Req |-> FALSE] /\ ending = [r \in Req |-> "open"]
  /\ result = [r \in Req |-> NULL]

-----------------------------------------------------------------------------
(* discard(): only the first discard of a live connection starts a closer. *)
Discarded(S) ==
  /\ phase' = [c \in Conn |-> IF c \in S THEN "closing" ELSE phase[c]]
  /\ closers' = [c \in Conn |-> IF c \in S /\ phase[c] # "closing"
                                THEN closers[c] + 1 ELSE closers[c]]

(* The coroutine leaves open(), or its response is released, with v.       *)
Finish(r, v) ==
  /\ pc' = [pc EXCEPT ![r] = "done"]
  /\ held' = [held EXCEPT ![r] = NULL]
  /\ rkey' = [rkey EXCEPT ![r] = NULL]
  /\ result' = [result EXCEPT ![r] = v]

(* A failure before delivery: mode "auto" repeats the request over HTTP.   *)
FinishUndelivered(r, v) == Finish(r, IF Fallback THEN "http" ELSE v)

-----------------------------------------------------------------------------
(* open() up to its call of reserve(): a credential whose upgrade was      *)
(* refused goes straight to HTTP in mode "auto".                           *)
Open(r, k) ==
  /\ pc[r] = "new"
  /\ IF Fallback /\ k.gen \in unsupported
     THEN Finish(r, "http")
     ELSE /\ pc' = [pc EXCEPT ![r] = "reserving"]
          /\ rkey' = [rkey EXCEPT ![r] = k]
          /\ UNCHANGED <<held, result>>
  /\ UNCHANGED <<poolVars, gens, lock, closing, unsupported, sent, material, ending>>

(* The parts of reserve().  Worn idle connections are discarded first;     *)
(* then, when the account's credential changed, every connection of an     *)
(* older generation is retired and the idle ones are discarded.            *)
Worn == {c \in pooled : phase[c] = "idle" /\ wear[c] # "ok"}

Outdated(k) ==
  IF gens[k.account] = k.gen THEN {}
  ELSE {c \in pooled : ckey[c].account = k.account /\ ckey[c].gen # k.gen}

Swept(k) == Worn \cup {c \in Outdated(k) : phase[c] = "idle"}

(* Bug: only the idle connections of an older generation are retired.      *)
SweepIdle(k) ==
  /\ gens' = [gens EXCEPT ![k.account] = k.gen]
  /\ retire' = [c \in Conn |-> retire[c] \/ (c \in Outdated(k) /\ phase[c] = "idle")]

SweepGenerations(k) ==
  /\ gens' = [gens EXCEPT ![k.account] = k.gen]
  /\ retire' = [c \in Conn |-> retire[c] \/ c \in Outdated(k)]

Reusable(k) == {c \in pooled \ Swept(k) : phase[c] = "idle" /\ ckey[c] = k}

OfAccount(a) == {c \in pooled : ckey[c].account = a}

AccountFull(k) == Cardinality(OfAccount(k.account)) >= MaxAccountConnections

(* Bug: connections being closed are not counted.                          *)
FullOfLive(k) ==
  LET live == {c \in pooled : phase[c] # "closing"} IN
  \/ Cardinality(live) >= MaxConnections
  \/ Cardinality(live \cap OfAccount(k.account)) >= MaxAccountConnections

Full(k) == Cardinality(pooled) >= MaxConnections \/ AccountFull(k)

(* The idle connections one of which makes room when the pool is full.     *)
Evictable(k) ==
  {c \in (IF AccountFull(k) THEN OfAccount(k.account) ELSE pooled) \ Swept(k) :
     phase[c] = "idle"}

ReserveRefused(r) ==
  /\ pc[r] = "reserving" /\ lock = NULL /\ closing
  /\ FinishUndelivered(r, "busy")
  /\ UNCHANGED <<poolVars, gens, lock, closing, unsupported, sent, material, ending>>

(* The task is cancelled while it waits for the pool lock.                 *)
ReserveCancelled(r) ==
  /\ pc[r] = "reserving" /\ lock # NULL
  /\ Finish(r, "cancelled")
  /\ UNCHANGED <<poolVars, gens, lock, closing, unsupported, sent, material, ending>>

(* Bug: the connection is marked busy only after the join.                 *)
ReserveUnmarked(r) ==
  LET k == rkey[r] IN
  /\ pc[r] = "reserving" /\ lock = NULL /\ ~closing
  /\ SweepGenerations(k) /\ Discarded(Swept(k))
  /\ \E c \in Reusable(k) : held' = [held EXCEPT ![r] = c]
  /\ lock' = r
  /\ pc' = [pc EXCEPT ![r] = "joining"]
  /\ UNCHANGED <<pooled, ckey, wear, closing, unsupported, rkey, sent, material, ending, result>>

(* reserve() finds an idle connection of this key; it marks it busy and    *)
(* joins its idle task while it still holds the pool lock.                 *)
ReserveIdle(r) ==
  LET k == rkey[r] IN
  /\ pc[r] = "reserving" /\ lock = NULL /\ ~closing
  /\ SweepGenerations(k)
  /\ \E c \in Reusable(k) :
       /\ phase' = [d \in Conn |-> IF d = c THEN "busy"
                                   ELSE IF d \in Swept(k) THEN "closing" ELSE phase[d]]
       /\ closers' = [d \in Conn |-> IF d \in Swept(k) THEN closers[d] + 1 ELSE closers[d]]
       /\ held' = [held EXCEPT ![r] = c]
  /\ lock' = r
  /\ pc' = [pc EXCEPT ![r] = "joining"]
  /\ UNCHANGED <<pooled, ckey, wear, closing, unsupported, rkey, sent, material, ending, result>>

(* reserve() finds the pool, or the account's share of it, full: it        *)
(* evicts one idle connection for the next caller and gives up.            *)
ReserveFull(r) ==
  LET k == rkey[r] IN
  /\ pc[r] = "reserving" /\ lock = NULL /\ ~closing
  /\ Reusable(k) = {} /\ Full(k)
  /\ SweepGenerations(k)
  /\ \/ Evictable(k) = {} /\ Discarded(Swept(k))
     \/ \E c \in Evictable(k) : Discarded(Swept(k) \cup {c})
  /\ FinishUndelivered(r, "busy")
  /\ UNCHANGED <<pooled, ckey, wear, lock, closing, unsupported, sent, material, ending>>

(* reserve() lists a new connection before the handshake begins; open()    *)
(* then marks it for retirement when the request has no scope.             *)
ReserveNew(r) ==
  LET k == rkey[r] IN
  /\ pc[r] = "reserving" /\ lock = NULL /\ ~closing
  /\ Reusable(k) = {} /\ ~Full(k)
  /\ \E c \in Garbage :
       /\ gens' = [gens EXCEPT ![k.account] = k.gen]
       /\ retire' = [d \in Conn |-> IF d = c THEN k.scope = NULL
                                    ELSE retire[d] \/ d \in Outdated(k)]
       /\ phase' = [d \in Conn |-> IF d = c THEN "connecting"
                                   ELSE IF d \in Swept(k) THEN "closing" ELSE phase[d]]
       /\ closers' = [d \in Conn |-> IF d \in Swept(k) THEN closers[d] + 1 ELSE closers[d]]
       /\ pooled' = pooled \cup {c}
       /\ ckey' = [ckey EXCEPT ![c] = k]
       /\ wear' = [wear EXCEPT ![c] = "ok"]
       /\ held' = [held EXCEPT ![r] = c]
  /\ pc' = [pc EXCEPT ![r] = "connecting"]
  /\ UNCHANGED <<lock, closing, unsupported, rkey, sent, material, ending, result>>

(* The idle task has been joined: open() resets the flags of the reused    *)
(* connection and sends.  It does not look at `closing` on this path.      *)
Joined(r) ==
  LET c == held[r] IN
  /\ pc[r] = "joining"
  /\ lock' = NULL
  /\ phase' = [phase EXCEPT ![c] = "busy"]
  /\ retire' = [retire EXCEPT ![c] = rkey[r].scope = NULL]
  /\ sent' = [sent EXCEPT ![r] = TRUE]
  /\ pc' = [pc EXCEPT ![r] = "sending"]
  /\ UNCHANGED <<pooled, ckey, wear, closers, gens, closing, unsupported, held, rkey, material, ending, result>>

JoinCancelled(r) ==
  /\ pc[r] = "joining"
  /\ lock' = NULL
  /\ Discarded({held[r]})
  /\ Finish(r, "cancelled")
  /\ UNCHANGED <<pooled, ckey, retire, wear, gens, closing, unsupported, sent, material, ending>>

-----------------------------------------------------------------------------
(* The handshake of a new connection.  A shutdown that began meanwhile     *)
(* has already discarded it: the socket is closed and nothing is sent.     *)
Connected(r) ==
  LET c == held[r] IN
  /\ pc[r] = "connecting"
  /\ ~closing /\ phase[c] # "closing" /\ c \in pooled
  /\ phase' = [phase EXCEPT ![c] = "busy"]
  /\ sent' = [sent EXCEPT ![r] = TRUE]
  /\ pc' = [pc EXCEPT ![r] = "sending"]
  /\ UNCHANGED <<pooled, ckey, retire, wear, closers, gens, lock, closing, unsupported,
                 held, rkey, material, ending, result>>

ConnectedTooLate(r) ==
  LET c == held[r] IN
  /\ pc[r] = "connecting"
  /\ closing \/ phase[c] = "closing" \/ c \notin pooled
  /\ Finish(r, "shutdown")
  /\ UNCHANGED <<poolVars, gens, lock, closing, unsupported, sent, material, ending>>

(* The upgrade is refused: 404, 405 and 426 mark the credential as         *)
(* unsupported and fall back; another status is a definitive rejection     *)
(* (retry allowed) or a plain failure.                                     *)
UpgradeRefused(r) ==
  /\ pc[r] = "connecting"
  /\ Discarded({held[r]})
  /\ \/ /\ Fallback
        /\ unsupported' = unsupported \cup {rkey[r].gen}
        /\ Finish(r, "http")
     \/ \E v \in {"rejected", "failed"} : Finish(r, v) /\ UNCHANGED unsupported
  /\ UNCHANGED <<pooled, ckey, retire, wear, gens, lock, closing, sent, material, ending>>

ConnectFailed(r) ==
  /\ pc[r] = "connecting"
  /\ Discarded({held[r]})
  /\ FinishUndelivered(r, "failed")
  /\ UNCHANGED <<pooled, ckey, retire, wear, gens, lock, closing, unsupported, sent, material, ending>>

(* Bug: a failed send falls back to HTTP like a failed handshake.          *)
SendFailedReplayed(r) ==
  /\ pc[r] = "sending"
  /\ Discarded({held[r]})
  /\ FinishUndelivered(r, "failed")
  /\ UNCHANGED <<pooled, ckey, retire, wear, gens, lock, closing, unsupported, sent, material, ending>>

(* send_str or the wait for the first event fails after `sent` was set:    *)
(* the request may have reached the backend, so it is not repeated, unless *)
(* the first event is itself an explicit rejection.                        *)
SendFailed(r) ==
  /\ pc[r] = "sending"
  /\ Discarded({held[r]})
  /\ \E v \in {"failed", "rejected", "cancelled"} : Finish(r, v)
  /\ UNCHANGED <<pooled, ckey, retire, wear, gens, lock, closing, unsupported, sent, material, ending>>

ConnectCancelled(r) ==
  /\ pc[r] = "connecting"
  /\ Discarded({held[r]})
  /\ Finish(r, "cancelled")
  /\ UNCHANGED <<pooled, ckey, retire, wear, gens, lock, closing, unsupported, sent, material, ending>>

-----------------------------------------------------------------------------
(* One event read by next_event(): a start event, material output, or a    *)
(* terminal.  The first one is buffered by open(), the others are read by  *)
(* the consumer of the response.                                           *)
Event(r) ==
  /\ pc[r] \in {"sending", "streaming"} /\ ending[r] = "open"
  /\ pc' = [pc EXCEPT ![r] = "streaming"]
  /\ \/ UNCHANGED <<material, ending>>
     \/ material' = [material EXCEPT ![r] = TRUE] /\ UNCHANGED <<ending>>
     \/ \E e \in {"success", "failure"} :
          /\ ending' = [ending EXCEPT ![r] = e]
          /\ UNCHANGED material
  /\ UNCHANGED <<phase, pooled, ckey, retire, wear, closers, gens, lock, closing, unsupported,
                 held, rkey, sent, result>>

(* Bug: a response released after shutdown returns its connection.         *)
ReleaseAnyTime(c, reusable) ==
  IF reusable /\ ~retire[c] /\ wear[c] # "closed"
  THEN phase' = [phase EXCEPT ![c] = "idle"] /\ UNCHANGED closers
  ELSE Discarded({c})

(* release(): the connection returns to the pool when the response ended   *)
(* in success, the connection was not retired and the socket is open.      *)
ReleaseTo(c, reusable) ==
  IF reusable /\ ~retire[c] /\ ~closing /\ wear[c] # "closed"
  THEN phase' = [phase EXCEPT ![c] = "idle"] /\ UNCHANGED closers
  ELSE Discarded({c})

(* The response is released: at its terminal, or by a consumer that stops  *)
(* reading, is cancelled, or meets a disconnect in mid-stream.             *)
Release(r) ==
  /\ pc[r] = "streaming"
  /\ ReleaseTo(held[r], ending[r] = "success")
  /\ Finish(r, "finished")
  /\ UNCHANGED <<pooled, ckey, retire, wear, gens, lock, closing, unsupported, sent, material, ending>>

(* An `error` event in mid-stream: another attempt is allowed only when    *)
(* no material output was seen.                                            *)
ErrorEvent(r) ==
  /\ pc[r] = "streaming" /\ ending[r] = "open"
  /\ ReleaseTo(held[r], FALSE)
  /\ \/ ~material[r] /\ Finish(r, "rejected")
     \/ Finish(r, "failed")
  /\ UNCHANGED <<pooled, ckey, retire, wear, gens, lock, closing, unsupported, sent, material, ending>>

(* The router issues the next inference.                                   *)
Again(r) ==
  /\ pc[r] = "done"
  /\ pc' = [pc EXCEPT ![r] = "new"]
  /\ sent' = [sent EXCEPT ![r] = FALSE]
  /\ material' = [material EXCEPT ![r] = FALSE]
  /\ ending' = [ending EXCEPT ![r] = "open"]
  /\ result' = [result EXCEPT ![r] = NULL]
  /\ UNCHANGED <<poolVars, gens, lock, closing, unsupported, held, rkey>>

-----------------------------------------------------------------------------
(* The peer closes the socket, or the connection outlives its limits.      *)
Wear(c, w) ==
  /\ c \in pooled /\ phase[c] \in {"busy", "idle"} /\ wear[c] = "ok"
  /\ wear' = [wear EXCEPT ![c] = w]
  /\ UNCHANGED <<phase, pooled, ckey, retire, closers, gens, lock, closing, unsupported, reqVars>>

(* _idle(): the keeper of an idle connection sees it expire, close or      *)
(* receive anything but a bounded number of sideband frames.               *)
IdleEnds(c) ==
  /\ c \in pooled /\ phase[c] = "idle"
  /\ Discarded({c})
  /\ UNCHANGED <<pooled, ckey, retire, wear, gens, lock, closing, unsupported, reqVars>>

(* _close(): the socket is closed within CLOSE_SECONDS, or not; either way *)
(* the connection leaves the pool, and its key and retire flag are never   *)
(* read again.                                                             *)
CloseEnds(c) ==
  /\ closers[c] > 0
  /\ closers' = [closers EXCEPT ![c] = @ - 1]
  /\ pooled' = pooled \ {c}
  /\ ckey' = [ckey EXCEPT ![c] = NULL]
  /\ retire' = [retire EXCEPT ![c] = FALSE]
  /\ wear' = [wear EXCEPT ![c] = "closed"]
  /\ UNCHANGED <<phase, gens, lock, closing, unsupported, reqVars>>

(* unsupported[] entries lapse after ten minutes.                          *)
UnsupportedLapses(g) ==
  /\ g \in unsupported
  /\ unsupported' = unsupported \ {g}
  /\ UNCHANGED <<poolVars, gens, lock, closing, reqVars>>

(* Bug: shutdown closes the idle connections only.                         *)
CloseIdle ==
  /\ ~closing
  /\ closing' = TRUE
  /\ Discarded({c \in pooled : phase[c] = "idle"})
  /\ UNCHANGED <<pooled, ckey, retire, wear, gens, lock, unsupported, reqVars>>

(* close(): shutdown of the router.                                        *)
Close ==
  /\ ~closing
  /\ closing' = TRUE
  /\ Discarded(pooled)
  /\ UNCHANGED <<pooled, ckey, retire, wear, gens, lock, unsupported, reqVars>>

-----------------------------------------------------------------------------
Reserve(r) == ReserveRefused(r) \/ ReserveIdle(r) \/ ReserveFull(r) \/ ReserveNew(r)

Handshake(r) == Connected(r) \/ ConnectedTooLate(r) \/ UpgradeRefused(r)
                \/ ConnectFailed(r) \/ ConnectCancelled(r)

Join(r) == Joined(r) \/ JoinCancelled(r)

Exchange(r) == SendFailed(r) \/ Event(r) \/ Release(r) \/ ErrorEvent(r)

Next ==
  \/ \E r \in Req : \/ \E k \in Key : Open(r, k)
                    \/ Reserve(r) \/ ReserveCancelled(r) \/ Join(r) \/ Handshake(r) \/ Exchange(r) \/ Again(r)
  \/ \E c \in Conn : Wear(c, "aged") \/ Wear(c, "closed") \/ IdleEnds(c) \/ CloseEnds(c)
  \/ \E g \in Gen : UnsupportedLapses(g)
  \/ Close

(* Fairness: close tasks and joins are bounded by timeouts; handshakes,    *)
(* sends and reads have deadlines, so each ends one way or another, and a  *)
(* response is always released; asyncio.Lock is fair, so a caller waiting  *)
(* in reserve() gets the lock.  Shutdown and new requests owe nothing.     *)
Fairness ==
  /\ \A c \in Conn : WF_vars(CloseEnds(c))
  /\ \A r \in Req : /\ SF_vars(Reserve(r))
                    /\ WF_vars(Join(r))
                    /\ WF_vars(Handshake(r))
                    /\ WF_vars(SendFailed(r) \/ (pc[r] = "sending" /\ Event(r)))
                    /\ WF_vars(Release(r) \/ ErrorEvent(r))

Spec == Init /\ [][Next]_vars /\ Fairness

-----------------------------------------------------------------------------
(* The pool never lists more connections than its bound, nor more of one   *)
(* account than its share, counting those being opened and closed          *)
(* (MAX_CONNECTIONS, MAX_ACCOUNT_CONNECTIONS in reserve()).                *)
CapacityRespected ==
  /\ Cardinality(pooled) <= MaxConnections
  /\ \A a \in Account : Cardinality(OfAccount(a)) <= MaxAccountConnections

Holder == [c \in Conn |-> IF c \in pooled THEN ckey[c].account ELSE NULL]

(* The same as a refinement: connections are taken one at a time, within   *)
(* both bounds, and keep the account they were taken for until they leave. *)
Connections == INSTANCE BoundedResources WITH
  Item <- Conn, Owner <- Account, Nobody <- NULL,
  Total <- MaxConnections, Share <- MaxAccountConnections,
  holder <- Holder

BoundsConnections == Connections!Spec

(* A connection serves one coroutine at a time, and an idle one serves     *)
(* none, although reserve() suspends between choosing and returning it.    *)
ExclusiveUse ==
  \A r \in Req : held[r] # NULL =>
    /\ phase[held[r]] # "idle"
    /\ \A q \in Req \ {r} : held[q] # held[r]

(* An idle pooled connection was opened with the credential generation     *)
(* last seen for its account, so a credential change retires every older   *)
(* connection, the busy ones included, before it can be reused.            *)
IdleIsCurrent ==
  \A c \in pooled : phase[c] = "idle" => gens[ckey[c].account] = ckey[c].gen

(* A request that may have been delivered is never repeated over HTTP, and *)
(* is offered for another attempt only before material output.             *)
NoAmbiguousReplay ==
  \A r \in Req : /\ (result[r] = "http" => ~sent[r])
                 /\ (result[r] = "rejected" => ~material[r])

(* A discarded connection leaves the pool, so its place is freed.          *)
ClosingLeaves == \A c \in Conn : closers[c] > 0 ~> c \notin pooled

(* A caller in reserve() is answered, although another one may hold the    *)
(* pool lock across the join of an idle task.                              *)
ReserveAnswers == \A r \in Req : pc[r] = "reserving" ~> pc[r] # "reserving"

(* After shutdown the pool drains.                                         *)
ShutdownDrains == closing ~> [](pooled = {})

(* No place of the pool and no caller is lost: none of the three awaits of *)
(* the code, for a close, for the lock and for the shutdown, is for ever.  *)
NothingIsStuck == ClosingLeaves /\ ReserveAnswers /\ ShutdownDrains

-----------------------------------------------------------------------------
(* The invariant the proofs of CodexTransportProofs are built on: how the  *)
(* coroutines, the pool and the lock fit together at every await.          *)
Holding == {"joining", "connecting", "sending", "streaming"}

Typed ==
  /\ TypeOK
  /\ \A r \in Req : /\ (pc[r] \in Holding <=> held[r] # NULL)
                    /\ (pc[r] \in Holding \cup {"reserving"} => rkey[r] \in Key)

(* Nobody else holds the connection a coroutine works on; until shutdown   *)
(* it stays listed and is not being closed.                                *)
HeldConnections ==
  \A r \in Req : held[r] # NULL =>
    /\ \A q \in Req \ {r} : held[q] # held[r]
    /\ phase[held[r]] # "idle"
    /\ ~closing => held[r] \in pooled /\ phase[held[r]] # "closing" /\ closers[held[r]] = 0

IdleConnections ==
  \A c \in Conn : phase[c] = "idle" =>
    c \in pooled /\ closers[c] = 0 /\ ~retire[c] /\ ~closing

(* Until shutdown a closer works only on a connection marked closing.      *)
Closers == \A c \in Conn : closers[c] > 0 /\ ~closing => phase[c] = "closing"

(* The lock covers the join: the generation cannot change meanwhile.       *)
Joining ==
  \A r \in Req : pc[r] = "joining" =>
    /\ lock = r
    /\ ~closing => /\ ckey[held[r]] = rkey[r]
                   /\ gens[rkey[r].account] = rkey[r].gen

(* A listed connection that is not of its account's latest generation is   *)
(* retired or being closed.                                                *)
Generations ==
  \A c \in pooled :
    /\ ckey[c] \in Key
    /\ phase[c] # "closing" /\ ~retire[c] /\ ~closing =>
         gens[ckey[c].account] = ckey[c].gen

PoolInvariant ==
  Typed /\ HeldConnections /\ IdleConnections /\ Closers /\ Joining /\ Generations

(* Before `sent` is set nothing was delivered, and before the first event  *)
(* nothing material was read; only a request that has left is reported.    *)
ReplayInvariant ==
  \A r \in Req :
    /\ pc[r] \in {"new", "reserving", "joining", "connecting"} => ~sent[r]
    /\ pc[r] \in {"new", "reserving", "joining", "connecting", "sending"} => ~material[r]
    /\ result[r] \in {"http", "rejected"} => pc[r] = "done"
=============================================================================
