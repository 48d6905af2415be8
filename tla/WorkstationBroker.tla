-------------------------- MODULE WorkstationBroker --------------------------
(***************************************************************************)
(* The workstation broker: the gateway authorizer, the terminal processes  *)
(* and their rotation of scripts/workstation-terminal-broker.py, with the  *)
(* reservations and streams of scripts/workstation-transfer-broker.py.     *)
(*                                                                         *)
(* Every connection is a thread.  A step is what a thread does between two *)
(* waits; gateway_lock is a variable because some keep it while they wait: *)
(* for a remote helper, for a pipe that takes what they write, for the     *)
(* client's socket.  Transfer ids are drawn at random by the client: a     *)
(* stream is identified with its connection here.                          *)
(***************************************************************************)
EXTENDS Integers, FiniteSets

CONSTANTS
  Conn,          \* connections open at a time
  Proc,          \* terminal processes
  Owner,         \* owner identities, session and generation
  Token,         \* reservations pending at a time (MAX_RESERVATIONS)
  MaxGateways,   \* gateway processes, one after the other
  MaxOperations, \* MAX_ACTIVE_PROCESSES
  MaxTransfers,  \* MAX_ACTIVE_TRANSFERS
  NULL           \* the absent value

ASSUME WorkstationAssumption ==
  /\ IsFiniteSet(Conn) /\ IsFiniteSet(Proc) /\ IsFiniteSet(Token)
  /\ MaxGateways \in Nat \ {0} /\ MaxOperations \in Nat \ {0} /\ MaxTransfers \in Nat \ {0}
  /\ "monitor" \notin Conn \cup {NULL}
  /\ NULL \notin Conn \cup Proc \cup Owner \cup Token

VARIABLES
  gateway,  \* the gateway process of the container: its number, alive or not
  auth,     \* DockerGatewayAuthorizer: pin, epochs and monitor
  rot,      \* the rotation under way, by whoever has the authorizer's lock
  broker,   \* ProcessBroker: gateway_epoch, gateway_rotating, operation_slots,
            \* and the slots of it that nobody gives back
  glock,    \* the connection that keeps gateway_lock
  approved, \* ReservationStore.items
  proc,     \* ProcessBroker.sessions that are not over
  conn      \* the thread of each connection

vars == <<gateway, auth, rot, broker, glock, approved, proc, conn>>

Number == 0 .. MaxGateways

(* Who approved or started what: its owner, and the gateway that asked.    *)
Origin == [owner : Owner, gw : Number]

(* broken: its standard input keeps data that the pipe did not take.       *)
Process == [st : {"running", "signalled", "exited"}, of : Origin, broken : BOOLEAN]

ASSUME AbsentAssumption == NULL \notin Origin \cup Process

Stream == {"streaming", "writing", "committing", "finishing", "ending"}
PC == {"idle", "calling", "rotating", "authorised", "active", "inside"} \cup Stream

(* Where a thread keeps gateway_lock while it waits for something else.    *)
Inside == {"inside", "writing", "committing"}

Thread == [pc : PC, gw : Number, epoch : Number, owner : Owner \cup {NULL}, cancelled : BOOLEAN]

Away == [pc |-> "idle", gw |-> 0, epoch |-> 0, owner |-> NULL, cancelled |-> FALSE]

Broker == [epoch : Number, rotating : BOOLEAN,
           slots : 0 .. MaxOperations, lost : 0 .. MaxOperations]

TypeOK ==
  /\ gateway \in [no : Number, alive : BOOLEAN]
  /\ auth \in [pin : Number, epoch : Number, revoked : Number, monitor : BOOLEAN]
  /\ rot \in [by : Conn \cup {"monitor", NULL}, left : SUBSET (Proc \cup Conn),
              step : {"none", "closing", "processes", "streams"}]
  /\ broker \in Broker
  /\ glock \in Conn \cup {NULL}
  /\ approved \in [Token -> Origin \cup {NULL}]
  /\ proc \in [Proc -> Process \cup {NULL}]
  /\ conn \in [Conn -> Thread]

NoRotation == [by |-> NULL, left |-> {}, step |-> "none"]
RotationBy(by) == [by |-> by, left |-> {}, step |-> "closing"]

Init ==
  /\ gateway = [no |-> 1, alive |-> TRUE]
  /\ auth = [pin |-> 0, epoch |-> 0, revoked |-> 0, monitor |-> FALSE]
  /\ rot = NoRotation
  /\ broker = [epoch |-> 0, rotating |-> FALSE, slots |-> MaxOperations, lost |-> 0]
  /\ glock = NULL
  /\ approved = [k \in Token |-> NULL]
  /\ proc = [p \in Proc |-> NULL]
  /\ conn = [c \in Conn |-> Away]

Leave(c) == conn' = [conn EXCEPT ![c] = Away]
Goto(c, pc) == conn' = [conn EXCEPT ![c].pc = pc]

-----------------------------------------------------------------------------
(* The gateway in its container: it may die at any time, also after it was *)
(* pinned and before the broker adopted its epoch.                         *)
GatewayDies ==
  /\ gateway.alive /\ gateway.no < MaxGateways
  /\ gateway' = [gateway EXCEPT !.alive = FALSE]
  /\ UNCHANGED <<auth, rot, broker, glock, approved, proc, conn>>

GatewayStarts ==
  /\ ~gateway.alive
  /\ gateway' = [no |-> gateway.no + 1, alive |-> TRUE]
  /\ UNCHANGED <<auth, rot, broker, glock, approved, proc, conn>>

(* serve(): the gateway connects.  What it sends may outlive it.           *)
Connect(c) ==
  /\ gateway.alive /\ conn[c].pc = "idle"
  /\ conn' = [conn EXCEPT ![c] = [Away EXCEPT !.pc = "calling", !.gw = gateway.no]]
  /\ UNCHANGED <<gateway, auth, rot, broker, glock, approved, proc>>

-----------------------------------------------------------------------------
(* DockerGatewayAuthorizer.__call__() under its lock.                      *)
PinAlive == auth.pin # 0 /\ auth.pin = gateway.no /\ gateway.alive

Unlocked == rot.by = NULL

Pinned(c) ==
  auth' = [pin |-> conn[c].gw, epoch |-> auth.epoch + 1, revoked |-> auth.revoked,
           monitor |-> TRUE]

Authorised(c, epoch) ==
  conn' = [conn EXCEPT ![c].pc = "authorised", ![c].epoch = epoch]

(* The pinned gateway is known; any other peer is refused while it lives.  *)
AuthKnown(c) ==
  /\ conn[c].pc = "calling" /\ Unlocked /\ PinAlive
  /\ IF conn[c].gw = auth.pin THEN Authorised(c, auth.epoch) ELSE Leave(c)
  /\ UNCHANGED <<gateway, auth, rot, broker, glock, approved, proc>>

(* A new gateway: it must be the one that Docker shows now, and the work   *)
(* of the pinned one must have been revoked.                               *)
Valid(c) == conn[c].gw = gateway.no /\ gateway.alive

AuthNew(c) ==
  /\ conn[c].pc = "calling" /\ Unlocked /\ ~PinAlive
  /\ Valid(c) /\ ~(auth.pin # 0 /\ auth.revoked < auth.epoch)
  /\ Pinned(c) /\ Authorised(c, auth.epoch + 1)
  /\ UNCHANGED <<gateway, rot, broker, glock, approved, proc>>

(* Another peer is refused, and so is the right one when Docker does not   *)
(* answer or shows a container that has changed.  Bug: it is asked to wait *)
(* for its turn.                                                           *)
AuthRefusedWaits(c) ==
  /\ conn[c].pc = "calling" /\ Unlocked /\ ~PinAlive
  /\ UNCHANGED vars

AuthRefused(c) ==
  /\ conn[c].pc = "calling" /\ Unlocked /\ ~PinAlive
  /\ Leave(c)
  /\ UNCHANGED <<gateway, auth, rot, broker, glock, approved, proc>>

AuthRotates(c) ==
  /\ conn[c].pc = "calling" /\ Unlocked /\ ~PinAlive
  /\ Valid(c) /\ auth.pin # 0 /\ auth.revoked < auth.epoch
  /\ rot' = RotationBy(c)
  /\ Goto(c, "rotating")
  /\ UNCHANGED <<gateway, auth, broker, glock, approved, proc>>

(* _monitor_pin(): the pinned process has ended.                           *)
Monitor ==
  /\ auth.monitor /\ Unlocked /\ ~PinAlive
  /\ auth' = [auth EXCEPT !.monitor = FALSE]
  /\ rot' = IF auth.revoked < auth.epoch
            THEN RotationBy("monitor") ELSE rot
  /\ UNCHANGED <<gateway, broker, glock, approved, proc, conn>>

-----------------------------------------------------------------------------
(* revoke_for_gateway_rotation(): the broker closes, then collects the     *)
(* processes that are not done.  Bug: it closes without gateway_lock.      *)
Running == {p \in Proc : proc[p] # NULL /\ proc[p].st # "exited"}

RotationClosesUnlocked ==
  /\ rot.step = "closing"
  /\ broker' = [broker EXCEPT !.rotating = TRUE]
  /\ rot' = [rot EXCEPT !.step = "processes", !.left = Running]
  /\ UNCHANGED <<gateway, auth, glock, approved, proc, conn>>

RotationCloses ==
  /\ rot.step = "closing" /\ glock = NULL
  /\ broker' = [broker EXCEPT !.rotating = TRUE]
  /\ rot' = [rot EXCEPT !.step = "processes", !.left = Running]
  /\ UNCHANGED <<gateway, auth, glock, approved, proc, conn>>

Signalled(S) ==
  [p \in Proc |-> IF p \in S \cap Running THEN [proc[p] EXCEPT !.st = "signalled"] ELSE proc[p]]

(* _terminate() of one of them, and the wait for it.                       *)
RotationKills(p) ==
  /\ rot.step = "processes" /\ p \in rot.left
  /\ IF p \in Running
     THEN proc[p].st = "running" /\ proc' = Signalled({p}) /\ UNCHANGED rot
     ELSE rot' = [rot EXCEPT !.left = @ \ {p}] /\ UNCHANGED proc
  /\ UNCHANGED <<gateway, auth, broker, glock, approved, conn>>

(* TransferManager.revoke_all(): reservations are dropped, streams are     *)
(* cancelled.                                                              *)
ActiveStreams == {c \in Conn : conn[c].pc \in Stream}

Cancelled(S) == [c \in Conn |-> IF c \in S THEN [conn[c] EXCEPT !.cancelled = TRUE] ELSE conn[c]]

RotationCancels ==
  /\ rot.step = "processes" /\ rot.left = {}
  /\ approved' = [k \in Token |-> NULL]
  /\ conn' = Cancelled(ActiveStreams)
  /\ rot' = [rot EXCEPT !.step = "streams", !.left = ActiveStreams]
  /\ UNCHANGED <<gateway, auth, broker, glock, proc>>

RotationDrains(c) ==
  /\ rot.step = "streams" /\ c \in rot.left
  /\ ~conn[c].cancelled
  /\ rot' = [rot EXCEPT !.left = @ \ {c}]
  /\ UNCHANGED <<gateway, auth, broker, glock, approved, proc, conn>>

(* A process or a stream does not stop in time, or the stream's thread     *)
(* fails in its last lines and never says that it is done: the broker      *)
(* stays closed, and the next gateway that connects tries again.  Bug: the *)
(* old epoch counts as revoked.                                            *)
RotationFailsForGood ==
  /\ \/ \E p \in rot.left \cap Running : proc[p].st = "signalled"
     \/ rot.left \cap Conn # {}
  /\ rot' = NoRotation
  /\ auth' = [auth EXCEPT !.revoked = auth.epoch]
  /\ IF rot.by \in Conn THEN Leave(rot.by) ELSE UNCHANGED conn
  /\ UNCHANGED <<gateway, broker, glock, approved, proc>>

RotationFails ==
  /\ \/ \E p \in rot.left \cap Running : proc[p].st = "signalled"
     \/ rot.left \cap Conn # {}
  /\ rot' = NoRotation
  /\ IF rot.by \in Conn THEN Leave(rot.by) ELSE UNCHANGED conn
  /\ UNCHANGED <<gateway, auth, broker, glock, approved, proc>>

(* Everything has stopped: the broker opens for the next epoch, and the    *)
(* peer that waited for this is pinned if it still lives.                  *)
RotationEnds ==
  LET c == rot.by IN
  /\ rot.step = "streams" /\ rot.left = {} /\ glock = NULL
  /\ broker' = [broker EXCEPT !.epoch = @ + 1, !.rotating = FALSE]
  /\ rot' = NoRotation
  /\ CASE c = "monitor" -> /\ auth' = [auth EXCEPT !.revoked = auth.epoch]
                           /\ UNCHANGED conn
       [] c \in Conn /\ Valid(c) ->
            /\ auth' = [pin |-> conn[c].gw, epoch |-> auth.epoch + 1,
                        revoked |-> auth.epoch, monitor |-> TRUE]
            /\ Authorised(c, auth.epoch + 1)
       [] OTHER -> auth' = [auth EXCEPT !.revoked = auth.epoch] /\ Leave(c)
  /\ UNCHANGED <<gateway, glock, approved, proc>>

-----------------------------------------------------------------------------
(* activate_gateway_epoch()                                                *)
Activate(c) ==
  /\ conn[c].pc = "authorised" /\ glock = NULL
  /\ LET first == broker.epoch = 0 /\ conn[c].epoch = 1 IN
     /\ broker' = IF first THEN [broker EXCEPT !.epoch = 1] ELSE broker
     /\ IF first \/ conn[c].epoch = broker.epoch
        THEN \E o \in Owner : conn' = [conn EXCEPT ![c].pc = "active", ![c].owner = o]
        ELSE Leave(c)
  /\ UNCHANGED <<gateway, auth, rot, glock, approved, proc>>

(* gateway_guard()  Bug: only a rotation under way is looked at.           *)
GuardedWhileOpen(c) == glock = NULL /\ ~broker.rotating
Guarded(c) == glock = NULL /\ ~broker.rotating /\ conn[c].epoch = broker.epoch

Origins(c) == [owner |-> conn[c].owner, gw |-> conn[c].gw]

(* An error before or inside the guard answers the request.                *)
Refused(c) ==
  /\ conn[c].pc = "active" /\ glock = NULL
  /\ Leave(c)
  /\ UNCHANGED <<gateway, auth, rot, broker, glock, approved, proc>>

(* ReservationStore: reserve(), expiry and cancel(); a reservation of the  *)
(* owner is consumed by what it approves, whether that starts or not.      *)
Reserve(c) ==
  /\ conn[c].pc = "active" /\ Guarded(c)
  /\ \E k \in Token : /\ approved[k] = NULL
                      /\ approved' = [approved EXCEPT ![k] = Origins(c)]
  /\ Leave(c)
  /\ UNCHANGED <<gateway, auth, rot, broker, glock, proc>>

Dropped(k) ==
  /\ approved[k] # NULL
  /\ approved' = [approved EXCEPT ![k] = NULL]
  /\ UNCHANGED <<gateway, auth, rot, broker, glock, proc, conn>>

CancelReservation(c) ==
  /\ conn[c].pc = "active" /\ Guarded(c)
  /\ \E k \in Token : /\ approved[k] # NULL /\ approved[k].owner = conn[c].owner
                      /\ approved' = [approved EXCEPT ![k] = NULL]
  /\ Leave(c)
  /\ UNCHANGED <<gateway, auth, rot, broker, glock, proc>>

Consumes(c) ==
  \E k \in Token : /\ approved[k] # NULL /\ approved[k].owner = conn[c].owner
                   /\ approved' = [approved EXCEPT ![k] = NULL]

Take == broker.slots > 0 /\ broker' = [broker EXCEPT !.slots = @ - 1]
GiveBack == broker' = [broker EXCEPT !.slots = @ + 1]

(* handle("execute"): approved, a slot is free, and the process starts.    *)
Execute(c) ==
  /\ conn[c].pc = "active" /\ Guarded(c)
  /\ Consumes(c)
  /\ Take
  /\ \E p \in Proc :
       /\ proc[p] = NULL
       /\ proc' = [proc EXCEPT ![p] = [st |-> "running", of |-> Origins(c), broken |-> FALSE]]
  /\ Leave(c)
  /\ UNCHANGED <<gateway, auth, rot, glock>>

(* Bug: a process that does not start keeps its slot.                      *)
NotStartedHolding(c) ==
  /\ conn[c].pc = "active" /\ Guarded(c)
  /\ Consumes(c)
  /\ Take
  /\ Leave(c)
  /\ UNCHANGED <<gateway, auth, rot, glock, proc>>

(* All slots are taken, or the process does not start.                     *)
NotStarted(c) ==
  /\ conn[c].pc = "active" /\ Guarded(c)
  /\ Consumes(c)
  /\ Leave(c)
  /\ UNCHANGED <<gateway, auth, rot, broker, glock, proc>>

(* handle_control("transfer_preflight"): a remote helper runs under the    *)
(* guard, for a bounded time.                                              *)
Preflight(c) ==
  /\ conn[c].pc = "active" /\ Guarded(c)
  /\ glock' = c
  /\ Goto(c, "inside")
  /\ UNCHANGED <<gateway, auth, rot, broker, approved, proc>>

(* "write", "submit" and "close" of a terminal process, under the guard    *)
(* until its pipe takes the data or breaks: at the latest when _deadline() *)
(* has killed the process.  A pipe that breaks leaves data behind until    *)
(* someone asks for the close.                                             *)
Write(c, p) ==
  /\ conn[c].pc = "active" /\ Guarded(c)
  /\ p \in Running /\ proc[p].of.owner = conn[c].owner
  /\ \E broken \in BOOLEAN : proc' = [proc EXCEPT ![p].broken = broken]
  /\ glock' = c
  /\ Goto(c, "inside")
  /\ UNCHANGED <<gateway, auth, rot, broker, approved>>

InsideEnds(c) ==
  /\ conn[c].pc = "inside"
  /\ glock' = NULL
  /\ Leave(c)
  /\ UNCHANGED <<gateway, auth, rot, broker, approved, proc>>

(* "kill", "transfer_cancel" and "revoke_owner".                           *)
Kill(c, p) ==
  /\ conn[c].pc = "active" /\ Guarded(c)
  /\ p \in Running /\ proc[p].of.owner = conn[c].owner
  /\ proc' = Signalled({p})
  /\ Leave(c)
  /\ UNCHANGED <<gateway, auth, rot, broker, glock, approved>>

CancelStream(c, t) ==
  /\ conn[c].pc = "active" /\ Guarded(c)
  /\ t \in ActiveStreams /\ conn[t].owner = conn[c].owner
  /\ conn' = [Cancelled({t}) EXCEPT ![c] = Away]
  /\ UNCHANGED <<gateway, auth, rot, broker, glock, approved, proc>>

RevokeOwner(c) ==
  LET o == conn[c].owner IN
  /\ conn[c].pc = "active" /\ Guarded(c)
  /\ proc' = Signalled({p \in Running : proc[p].of.owner = o})
  /\ approved' = [k \in Token |-> IF approved[k] # NULL /\ approved[k].owner = o
                                  THEN NULL ELSE approved[k]]
  /\ conn' = [Cancelled({t \in ActiveStreams : conn[t].owner = o}) EXCEPT ![c] = Away]
  /\ UNCHANGED <<gateway, auth, rot, broker, glock>>

-----------------------------------------------------------------------------
(* _reader() and _deadline() of a terminal process; a process that was     *)
(* signalled may take its time, or leave its output open.                  *)
Deadline(p) ==
  /\ p \in Running
  /\ proc' = Signalled({p})
  /\ UNCHANGED <<gateway, auth, rot, broker, glock, approved, conn>>

Exits(p) ==
  /\ p \in Running
  /\ proc' = [proc EXCEPT ![p].st = "exited"]
  /\ UNCHANGED <<gateway, auth, rot, broker, glock, approved, conn>>

(* The end of _reader(): it closes the standard input, which raises if the *)
(* pipe broke, and the slot is not given back then.                        *)
Released(p) ==
  /\ proc[p] # NULL /\ proc[p].st = "exited"
  /\ IF proc[p].broken THEN broker' = [broker EXCEPT !.lost = @ + 1] ELSE GiveBack
  /\ proc' = [proc EXCEPT ![p] = NULL]
  /\ UNCHANGED <<gateway, auth, rot, glock, approved, conn>>

-----------------------------------------------------------------------------
(* handle_stream(): reservation, claim, process and registration in one    *)
(* guard.                                                                  *)
StreamStarts(c) ==
  /\ conn[c].pc = "active" /\ Guarded(c)
  /\ Consumes(c)
  /\ Cardinality(ActiveStreams) < MaxTransfers
  /\ Take
  /\ Goto(c, "streaming")
  /\ UNCHANGED <<gateway, auth, rot, glock, proc>>

(* current_epoch_guard() of one piece of data: the helper's pipe takes it, *)
(* or the client does.  Nothing bounds the time a pipe takes, and whoever  *)
(* could end the helper waits for gateway_lock.                            *)
StreamWrites(c) ==
  /\ conn[c].pc = "streaming" /\ Guarded(c) /\ ~conn[c].cancelled
  /\ glock' = c
  /\ Goto(c, "writing")
  /\ UNCHANGED <<gateway, auth, rot, broker, approved, proc>>

WriteEnds(c) ==
  /\ conn[c].pc = "writing"
  /\ glock' = NULL
  /\ \E pc \in {"streaming", "ending"} : Goto(c, pc)
  /\ UNCHANGED <<gateway, auth, rot, broker, approved, proc>>

(* current_epoch_guard() of the upload's end: the process closes, moves    *)
(* the file into place and ends inside the guard.                          *)
Commit(c) ==
  /\ conn[c].pc = "streaming" /\ Guarded(c) /\ ~conn[c].cancelled
  /\ glock' = c
  /\ Goto(c, "committing")
  /\ UNCHANGED <<gateway, auth, rot, broker, approved, proc>>

(* The helper has ended, or was killed at its timeout.                     *)
CommitEnds(c) ==
  /\ conn[c].pc = "committing"
  /\ glock' = NULL
  /\ \E pc \in {"finishing", "ending"} : Goto(c, pc)
  /\ UNCHANGED <<gateway, auth, rot, broker, approved, proc>>

(* A download has sent its last chunk; the result of either is sent under  *)
(* the guard, or not at all.                                               *)
Downloaded(c) ==
  /\ conn[c].pc = "streaming" /\ ~conn[c].cancelled
  /\ Goto(c, "finishing")
  /\ UNCHANGED <<gateway, auth, rot, broker, glock, approved, proc>>

Finish(c) ==
  /\ conn[c].pc = "finishing" /\ glock = NULL
  /\ Goto(c, "ending")
  /\ UNCHANGED <<gateway, auth, rot, broker, glock, approved, proc>>

(* The connection, the process or the guard fails; the process is killed.  *)
StreamFails(c) ==
  /\ conn[c].pc = "streaming"
  /\ Goto(c, "ending")
  /\ UNCHANGED <<gateway, auth, rot, broker, glock, approved, proc>>

(* The end of handle_stream(), however it got there.  Bug: a cancellation  *)
(* has given the slot back already.                                        *)
StreamEndsTwice(c) ==
  /\ conn[c].pc = "ending"
  /\ GiveBack
  /\ conn' = IF conn[c].cancelled THEN [conn EXCEPT ![c].cancelled = FALSE]
             ELSE [conn EXCEPT ![c] = Away]
  /\ UNCHANGED <<gateway, auth, rot, glock, approved, proc>>

StreamEnds(c) ==
  /\ conn[c].pc = "ending"
  /\ GiveBack
  /\ Leave(c)
  /\ UNCHANGED <<gateway, auth, rot, glock, approved, proc>>

-----------------------------------------------------------------------------
Rotation ==
  \/ RotationCloses \/ RotationCancels \/ RotationFails \/ RotationEnds
  \/ \E p \in Proc : RotationKills(p)
  \/ \E c \in Conn : RotationDrains(c)

Authorises(c) == AuthKnown(c) \/ AuthNew(c) \/ AuthRefused(c) \/ AuthRotates(c)

Request(c) ==
  \/ Refused(c) \/ Reserve(c) \/ CancelReservation(c) \/ Execute(c) \/ NotStarted(c)
  \/ Preflight(c) \/ RevokeOwner(c) \/ StreamStarts(c)
  \/ \E p \in Proc : Kill(c, p) \/ Write(c, p)
  \/ \E t \in Conn : CancelStream(c, t)

Serve(c) ==
  \/ Authorises(c) \/ Activate(c) \/ Request(c) \/ InsideEnds(c)
  \/ CommitEnds(c) \/ Finish(c) \/ StreamEnds(c)

Next ==
  \/ GatewayDies \/ GatewayStarts \/ Monitor \/ Rotation
  \/ \E k \in Token : Dropped(k)
  \/ \E p \in Proc : Deadline(p) \/ Exits(p) \/ Released(p)
  \/ \E c \in Conn : \/ Connect(c) \/ Serve(c) \/ StreamWrites(c) \/ WriteEnds(c)
                     \/ Commit(c) \/ Downloaded(c) \/ StreamFails(c)

(* Fairness: threads run; the authorizer's lock, the gateway lock and the  *)
(* slots are not handed over in turn, so waiting for them is only certain  *)
(* to end if they are free again and again (SF).  A process that was       *)
(* signalled ends some time, a cancelled stream loses its connection; a    *)
(* stream that nobody cancels need not end, and neither does a piece of    *)
(* data on its way into a pipe.  The gateway keeps connecting, and Docker  *)
(* does not refuse to identify it for ever.                                *)
Fairness ==
  /\ WF_vars(Monitor) /\ WF_vars(Rotation) /\ SF_vars(RotationCloses)
  /\ \A p \in Proc : /\ WF_vars(Exits(p) /\ proc[p].st = "signalled")
                     /\ WF_vars(Released(p))
  /\ \A c \in Conn : /\ SF_vars(Serve(c)) /\ WF_vars(Connect(c))
                     /\ SF_vars(AuthNew(c) \/ AuthRotates(c))
                     /\ WF_vars(StreamFails(c) /\ conn[c].cancelled)

Spec == Init /\ [][Next]_vars /\ Fairness

-----------------------------------------------------------------------------
(* Every slot of operation_slots is free, or counted by one process or one *)
(* stream that is not over, or lost with a process whose input broke: a    *)
(* start that fails, a kill, a rotation and a stream that breaks at any    *)
(* point never give it back twice, and lose none.                          *)
SlotsBalanced ==
  broker.slots + broker.lost + Cardinality({p \in Proc : proc[p] # NULL})
    + Cardinality(ActiveStreams) = MaxOperations

(* docs/workstation.md: before a replacement gateway epoch is accepted,    *)
(* the broker terminates every process and stream of the old gateway and   *)
(* clears its reservations; none of them appears afterwards, from requests *)
(* that the old gateway had sent before it died.                           *)
Accepted == auth.epoch > 0 /\ broker.epoch = auth.epoch

OldWorkStops ==
  Accepted => /\ \A p \in Running : proc[p].of.gw = auth.pin
              /\ \A c \in ActiveStreams : conn[c].gw = auth.pin
              /\ \A k \in Token : approved[k] # NULL => approved[k].gw = auth.pin

(* The gateways that processes, streams and reservations come from.        *)
WorkOf ==
  {proc[p].of.gw : p \in Running} \cup {conn[c].gw : c \in ActiveStreams}
    \cup {approved[k].gw : k \in {k \in Token : approved[k] # NULL}}

(* The broker is never more than one epoch away from what was revoked, and *)
(* neither is the authorizer; a rotation revokes a gateway that is gone.   *)
EpochsFit ==
  /\ 0 < gateway.no /\ (gateway.alive \/ gateway.no < MaxGateways)
  /\ auth.epoch <= auth.pin /\ auth.pin <= gateway.no
  /\ auth.epoch = 0 => auth.pin = 0 /\ broker.epoch = 0
  /\ auth.revoked <= auth.epoch /\ auth.epoch <= auth.revoked + 1
  /\ auth.revoked <= broker.epoch /\ broker.epoch <= auth.revoked + 1
  /\ rot.by # NULL \/ auth.revoked = auth.epoch => ~PinAlive
  /\ rot.by # NULL => auth.revoked < auth.epoch

(* A request carries the epoch it was authorised for; the current epoch is *)
(* the pinned gateway's.  What it asks for, it asks for its owner.         *)
RequestsFit ==
  \A c \in Conn :
    /\ conn[c].pc \in {"authorised", "active"} =>
         /\ 0 < conn[c].epoch /\ conn[c].epoch <= auth.epoch
         /\ conn[c].epoch = auth.epoch => conn[c].gw = auth.pin
    /\ conn[c].pc = "active" => conn[c].owner # NULL

(* Both locks belong to the thread that is inside.                         *)
LocksFit ==
  /\ \A c \in Conn : conn[c].pc \in Inside <=> glock = c
  /\ \A c \in Conn : conn[c].pc = "rotating" <=> rot.by = c
  /\ rot.by = NULL <=> rot.step = "none"
  /\ rot.step = "none" => rot.left = {}

(* From its closing on, a rotation waits for everything that still works.  *)
RotationStops ==
  /\ rot.step \in {"processes", "streams"} => broker.rotating
  /\ rot.step = "processes" => Running \subseteq rot.left
  /\ rot.step = "streams" =>
       /\ Running = {} /\ \A k \in Token : approved[k] = NULL
       /\ \A c \in ActiveStreams : c \in rot.left /\ conn[c].cancelled

(* Work exists only in an epoch that was authorised, and in the current    *)
(* one only the pinned gateway's.                                          *)
WorkFits ==
  WorkOf # {} => /\ 0 < broker.epoch /\ broker.epoch <= auth.epoch
                 /\ broker.epoch = auth.epoch => WorkOf = {auth.pin}

(* What holds between any two steps of any threads: the inductive          *)
(* invariant.                                                              *)
BrokerInvariant ==
  TypeOK /\ SlotsBalanced /\ EpochsFit /\ RequestsFit /\ LocksFit /\ RotationStops /\ WorkFits

(* docs/workstation.md: an upload's end-of-file to publication stays       *)
(* inside the epoch guard, so that no rotation crosses a remote commit.    *)
NoRotationAcrossCommit ==
  [][(broker'.rotating # broker.rotating \/ broker'.epoch # broker.epoch) =>
       \A c \in Conn : conn[c].pc # "committing" /\ conn'[c].pc # "committing"]_vars

(* What the code does not ensure: a pipe takes the data that is written    *)
(* into it under the guard.  The write has no deadline.                    *)
PipesMove == []<>(\A t \in Conn : conn[t].pc # "writing")

Waiting(c) == conn[c].pc \notin {"idle", "streaming", "writing"}

(* Nobody waits for ever for the authorizer, for a rotation or for the     *)
(* guard, whatever fails under them, unless such a write hangs.            *)
RequestsAnswered == PipesMove => \A c \in Conn : []<>~Waiting(c)

(* The first gateway was gone, and its epoch revoked, before the broker    *)
(* adopted it: the broker is an epoch behind the authorizer for good.      *)
Missed == auth.revoked > 0 /\ broker.epoch = auth.revoked /\ ~broker.rotating

(* docs/workstation.md: after a normal restart the broker accepts the new  *)
(* gateway.  One that stays up and keeps connecting is accepted in the     *)
(* end, also after rotations that failed; the code keeps this only if the  *)
(* first gateway did not end before its first request was activated.       *)
GatewayServed ==
  PipesMove => []<>(~gateway.alive \/ Missed
                    \/ (auth.pin = gateway.no /\ Accepted /\ ~broker.rotating))
=============================================================================
