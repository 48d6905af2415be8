----------------------- MODULE WorkstationBrokerProofs -----------------------
(***************************************************************************)
(* Proofs about WorkstationBroker, for any number of connections,          *)
(* processes, owners, reservations and gateways and any limits.            *)
(***************************************************************************)
EXTENDS WorkstationBroker, FiniteSetTheorems, TLAPS

(* What uses a slot of operation_slots.                                    *)
Sessions == {p \in Proc : proc[p] # NULL}

(* The gateways, the authorizer and the epochs stay as they are.           *)
Quiet ==
  /\ UNCHANGED <<gateway, auth, rot>>
  /\ broker'.epoch = broker.epoch /\ broker'.rotating = broker.rotating

(* No request is authorised but for the current epoch.                     *)
KeepsRequests ==
  \A c \in Conn :
    /\ conn'[c].pc \in {"authorised", "active"} =>
         \/ /\ conn[c].pc \in {"authorised", "active"}
            /\ conn'[c].epoch = conn[c].epoch /\ conn'[c].gw = conn[c].gw
         \/ conn'[c].epoch = auth.epoch /\ conn'[c].gw = auth.pin /\ auth.pin # 0
    /\ conn'[c].pc = "active" => conn[c].pc = "active" /\ conn'[c].owner = conn[c].owner

KeepsRotating == \A c \in Conn : conn'[c].pc = "rotating" <=> conn[c].pc = "rotating"

KeepsGuard == \A c \in Conn : conn'[c].pc \in Inside <=> glock' = c

(* Work stops, or goes on for the gateway it was started for.              *)
ShedsProcesses == \A p \in Running' : p \in Running /\ proc'[p].of = proc[p].of
ShedsStreams ==
  \A c \in ActiveStreams' : /\ c \in ActiveStreams /\ conn'[c].gw = conn[c].gw
                            /\ conn[c].cancelled => conn'[c].cancelled
ShedsReservations == \A k \in Token : approved'[k] # NULL => approved'[k] = approved[k]
Sheds == ShedsProcesses /\ ShedsStreams /\ ShedsReservations

(* The request of connection c starts work.                                *)
Starts(c) == /\ conn[c].pc = "active" /\ Guarded(c)
             /\ WorkOf' \subseteq WorkOf \cup {conn[c].gw}

-----------------------------------------------------------------------------
(* Threads *)

LEMMA AwayIsThread == Away \in Thread
  BY WorkstationAssumption DEF Away, Thread, PC, Number

(* One thread goes on.                                                     *)
LEMMA OneThread ==
  ASSUME conn \in [Conn -> Thread], NEW c \in Conn, NEW new \in Thread,
         conn' = [conn EXCEPT ![c] = new]
  PROVE  /\ conn' \in [Conn -> Thread] /\ conn'[c] = new
         /\ \A d \in Conn \ {c} : conn'[d] = conn[d]
  OBVIOUS

LEMMA Leaves ==
  ASSUME conn \in [Conn -> Thread], NEW c \in Conn, Leave(c)
  PROVE  /\ conn' \in [Conn -> Thread] /\ conn'[c].pc = "idle"
         /\ \A d \in Conn \ {c} : conn'[d] = conn[d]
  BY AwayIsThread, OneThread DEF Leave, Away

LEMMA GoesTo ==
  ASSUME conn \in [Conn -> Thread], NEW c \in Conn, NEW to \in PC, Goto(c, to)
  PROVE  /\ conn' \in [Conn -> Thread] /\ conn'[c].pc = to
         /\ conn'[c].gw = conn[c].gw /\ conn'[c].epoch = conn[c].epoch
         /\ conn'[c].cancelled = conn[c].cancelled
         /\ \A d \in Conn \ {c} : conn'[d] = conn[d]
<1>1. [conn[c] EXCEPT !.pc = to] \in Thread
  BY DEF Thread
<1>2. conn' = [conn EXCEPT ![c] = [conn[c] EXCEPT !.pc = to]]
  BY DEF Goto
<1>3. QED
  BY <1>1, <1>2, OneThread DEF Thread

LEMMA AuthorisedGoes ==
  ASSUME conn \in [Conn -> Thread], NEW c \in Conn, NEW e \in Number, Authorised(c, e)
  PROVE  /\ conn' \in [Conn -> Thread] /\ conn'[c].pc = "authorised"
         /\ conn'[c].gw = conn[c].gw /\ conn'[c].epoch = e
         /\ \A d \in Conn \ {c} : conn'[d] = conn[d]
<1> DEFINE new == [conn[c] EXCEPT !.pc = "authorised", !.epoch = e]
<1>1. new \in Thread /\ new.pc = "authorised" /\ new.gw = conn[c].gw /\ new.epoch = e
  BY DEF Thread, PC
<1>2. conn' = [conn EXCEPT ![c] = new]
  BY DEF Authorised
<1>3. QED
  BY <1>1, <1>2, OneThread

LEMMA CancelledKeeps ==
  ASSUME conn \in [Conn -> Thread], NEW S
  PROVE  /\ Cancelled(S) \in [Conn -> Thread]
         /\ \A d \in Conn : /\ Cancelled(S)[d].pc = conn[d].pc /\ Cancelled(S)[d].gw = conn[d].gw
                            /\ Cancelled(S)[d].epoch = conn[d].epoch
                            /\ Cancelled(S)[d].owner = conn[d].owner
                            /\ conn[d].cancelled => Cancelled(S)[d].cancelled
                            /\ d \in S => Cancelled(S)[d].cancelled
<1>1. ASSUME NEW d \in Conn
      PROVE  LET new == [conn[d] EXCEPT !.cancelled = TRUE]
             IN  /\ new \in Thread /\ new.pc = conn[d].pc /\ new.gw = conn[d].gw
                 /\ new.epoch = conn[d].epoch /\ new.owner = conn[d].owner /\ new.cancelled
  BY DEF Thread
<1>2. QED
  BY <1>1 DEF Cancelled

-----------------------------------------------------------------------------
(* Slots *)

LEMMA FiniteUsers ==
  /\ IsFiniteSet(Sessions) /\ IsFiniteSet(ActiveStreams)
  /\ Cardinality(Sessions) \in Nat /\ Cardinality(ActiveStreams) \in Nat
<1>1. Sessions \subseteq Proc /\ ActiveStreams \subseteq Conn
  BY DEF Sessions, ActiveStreams
<1>2. QED
  BY <1>1, WorkstationAssumption, FS_Subset, FS_CardinalityType

LEMMA FiniteUsersNext ==
  /\ IsFiniteSet(Sessions') /\ IsFiniteSet(ActiveStreams')
  /\ Cardinality(Sessions') \in Nat /\ Cardinality(ActiveStreams') \in Nat
<1>1. Sessions' \subseteq Proc /\ ActiveStreams' \subseteq Conn
  BY DEF Sessions, ActiveStreams
<1>2. QED
  BY <1>1, WorkstationAssumption, FS_Subset, FS_CardinalityType

(* A slot is taken for one session or stream more.                         *)
LEMMA Taken ==
  ASSUME TypeOK, SlotsBalanced, Take,
         \/ ActiveStreams' = ActiveStreams
            /\ \E p \in Proc \ Sessions : Sessions' = Sessions \cup {p}
         \/ Sessions' = Sessions
            /\ \E c \in Conn \ ActiveStreams : ActiveStreams' = ActiveStreams \cup {c}
  PROVE  /\ SlotsBalanced' /\ broker' \in Broker
         /\ broker'.epoch = broker.epoch /\ broker'.rotating = broker.rotating
<1>1. /\ broker' \in Broker
      /\ broker'.epoch = broker.epoch /\ broker'.rotating = broker.rotating
      /\ broker'.slots = broker.slots - 1 /\ broker.slots \in 0 .. MaxOperations
      /\ broker'.lost = broker.lost /\ broker.lost \in 0 .. MaxOperations
  BY WorkstationAssumption DEF Take, TypeOK, Broker
<1>2. Cardinality(Sessions') + Cardinality(ActiveStreams')
        = Cardinality(Sessions) + Cardinality(ActiveStreams) + 1
  <2>1. CASE \E p \in Proc \ Sessions : Sessions' = Sessions \cup {p} /\ ActiveStreams' = ActiveStreams
    <3>1. PICK p \in Proc \ Sessions : Sessions' = Sessions \cup {p} /\ ActiveStreams' = ActiveStreams
      BY <2>1
    <3>2. Cardinality(Sessions \cup {p}) = Cardinality(Sessions) + 1
      BY FiniteUsers, FS_AddElement
    <3>3. QED
      BY <3>1, <3>2, FiniteUsers
  <2>2. CASE \E c \in Conn \ ActiveStreams :
               ActiveStreams' = ActiveStreams \cup {c} /\ Sessions' = Sessions
    <3>1. PICK c \in Conn \ ActiveStreams :
            ActiveStreams' = ActiveStreams \cup {c} /\ Sessions' = Sessions
      BY <2>2
    <3>2. Cardinality(ActiveStreams \cup {c}) = Cardinality(ActiveStreams) + 1
      BY FiniteUsers, FS_AddElement
    <3>3. QED
      BY <3>1, <3>2, FiniteUsers
  <2>3. QED
    BY <2>1, <2>2
<1>3. broker.slots + broker.lost + Cardinality(Sessions) + Cardinality(ActiveStreams)
        = MaxOperations
  BY DEF SlotsBalanced, Sessions
<1>4. broker'.slots + broker'.lost + Cardinality(Sessions') + Cardinality(ActiveStreams')
        = MaxOperations
  BY <1>1, <1>2, <1>3, FiniteUsers, FiniteUsersNext, WorkstationAssumption
<1>5. QED
  BY <1>1, <1>4 DEF SlotsBalanced, Sessions

(* One uses its slot no more: it gives it back, or the slot is lost.       *)
LEMMA GivenBack ==
  ASSUME TypeOK, SlotsBalanced,
         GiveBack \/ broker' = [broker EXCEPT !.lost = broker.lost + 1],
         \/ ActiveStreams' = ActiveStreams
            /\ \E p \in Sessions : Sessions' = Sessions \ {p}
         \/ Sessions' = Sessions
            /\ \E c \in ActiveStreams : ActiveStreams' = ActiveStreams \ {c}
  PROVE  /\ SlotsBalanced' /\ broker' \in Broker
         /\ broker'.epoch = broker.epoch /\ broker'.rotating = broker.rotating
<1>1. /\ broker' \in [epoch : Number, rotating : BOOLEAN, slots : Int, lost : Int]
      /\ broker'.epoch = broker.epoch /\ broker'.rotating = broker.rotating
      /\ broker'.slots + broker'.lost = broker.slots + broker.lost + 1
      /\ broker'.slots >= broker.slots /\ broker'.lost >= broker.lost
      /\ broker.slots \in 0 .. MaxOperations /\ broker.lost \in 0 .. MaxOperations
  BY WorkstationAssumption DEF GiveBack, TypeOK, Broker
<1>2. Cardinality(Sessions') + Cardinality(ActiveStreams')
        = Cardinality(Sessions) + Cardinality(ActiveStreams) - 1
  <2>1. CASE \E p \in Sessions : Sessions' = Sessions \ {p} /\ ActiveStreams' = ActiveStreams
    <3>1. PICK p \in Sessions : Sessions' = Sessions \ {p} /\ ActiveStreams' = ActiveStreams
      BY <2>1
    <3>2. Cardinality(Sessions \ {p}) = Cardinality(Sessions) - 1
      BY FiniteUsers, FS_RemoveElement
    <3>3. QED
      BY <3>1, <3>2, FiniteUsers
  <2>2. CASE \E c \in ActiveStreams : ActiveStreams' = ActiveStreams \ {c} /\ Sessions' = Sessions
    <3>1. PICK c \in ActiveStreams : ActiveStreams' = ActiveStreams \ {c} /\ Sessions' = Sessions
      BY <2>2
    <3>2. Cardinality(ActiveStreams \ {c}) = Cardinality(ActiveStreams) - 1
      BY FiniteUsers, FS_RemoveElement
    <3>3. QED
      BY <3>1, <3>2, FiniteUsers
  <2>3. QED
    BY <2>1, <2>2
<1>3. broker.slots + broker.lost + Cardinality(Sessions) + Cardinality(ActiveStreams)
        = MaxOperations
  BY DEF SlotsBalanced, Sessions
<1>4. broker'.slots + broker'.lost + Cardinality(Sessions') + Cardinality(ActiveStreams')
        = MaxOperations
  BY <1>1, <1>2, <1>3, FiniteUsers, FiniteUsersNext, WorkstationAssumption
<1>5. broker'.slots \in 0 .. MaxOperations /\ broker'.lost \in 0 .. MaxOperations
  BY <1>1, <1>4, FiniteUsersNext, WorkstationAssumption
<1>6. QED
  BY <1>1, <1>4, <1>5 DEF SlotsBalanced, Sessions, Broker

LEMMA Neither ==
  ASSUME SlotsBalanced, Sessions' = Sessions, ActiveStreams' = ActiveStreams,
         broker'.slots = broker.slots, broker'.lost = broker.lost
  PROVE  SlotsBalanced'
  BY DEF SlotsBalanced, Sessions

-----------------------------------------------------------------------------
(* Steps that leave gateways, authorizer and rotation alone *)

LEMMA ShedWork ==
  ASSUME Sheds
  PROVE  WorkOf' \subseteq WorkOf
  BY DEF Sheds, ShedsProcesses, ShedsStreams, ShedsReservations, WorkOf

(* Such a step keeps the invariant.                                        *)
LEMMA QuietStep ==
  ASSUME BrokerInvariant, Quiet, TypeOK', SlotsBalanced',
         KeepsRequests, KeepsRotating, KeepsGuard, Sheds \/ \E c \in Conn : Starts(c)
  PROVE  BrokerInvariant'
<1> USE DEF BrokerInvariant
<1>1. EpochsFit'
  BY DEF EpochsFit, Quiet, PinAlive
<1>2. RequestsFit'
  <2>1. auth.pin # 0 => 0 < auth.epoch /\ auth.epoch <= auth.epoch
    BY DEF EpochsFit, TypeOK, Number
  <2>2. QED
    BY <2>1 DEF RequestsFit, KeepsRequests, Quiet
<1>3. LocksFit'
  BY DEF LocksFit, KeepsRotating, KeepsGuard, Quiet
<1>4. RotationStops'
  <2>1. CASE Sheds
    BY <2>1 DEF RotationStops, Quiet, Sheds, ShedsProcesses, ShedsStreams, ShedsReservations
  <2>2. CASE \E c \in Conn : Starts(c)
    BY <2>2 DEF RotationStops, Quiet, Starts, Guarded
  <2>3. QED
    BY <2>1, <2>2
<1>5. WorkFits'
  <2>1. CASE Sheds
    BY <2>1, ShedWork DEF WorkFits, Quiet
  <2>2. ASSUME NEW c \in Conn, Starts(c)
        PROVE  WorkFits'
    <3>1. /\ 0 < broker.epoch /\ broker.epoch <= auth.epoch
          /\ broker.epoch = auth.epoch => conn[c].gw = auth.pin
      BY <2>2 DEF RequestsFit, Starts, Guarded
    <3>2. broker.epoch = auth.epoch => WorkOf' \subseteq {auth.pin}
      BY <2>2, <3>1 DEF Starts, WorkFits
    <3>3. QED
      BY <3>1, <3>2 DEF WorkFits, Quiet
  <2>3. QED
    BY <2>1, <2>2
<1>6. QED
  BY <1>1, <1>2, <1>3, <1>4, <1>5

(* Of a thread that leaves, or goes on outside the transfers, only its     *)
(* place matters.                                                          *)
LEMMA OneThreadMoves ==
  ASSUME BrokerInvariant, NEW c \in Conn, conn' \in [Conn -> Thread],
         \A d \in Conn \ {c} : conn'[d] = conn[d],
         conn[c].pc # "rotating", conn'[c].pc # "rotating",
         conn'[c].pc \in Inside => glock' = c,
         conn'[c].pc \notin Inside =>
           IF glock = c THEN glock' \notin Conn ELSE glock' = glock,
         glock' = c => conn'[c].pc \in Inside /\ glock \in {c, NULL}
  PROVE  KeepsRotating /\ KeepsGuard
<1>1. LocksFit
  BY DEF BrokerInvariant
<1>2. QED
  BY <1>1, WorkstationAssumption DEF LocksFit, KeepsRotating, KeepsGuard

(* A thread that is not inside the guard leaves.                           *)
LEMMA LeavesQuietly ==
  ASSUME BrokerInvariant, NEW c \in Conn, Leave(c), glock' = glock, glock # c,
         conn[c].pc # "rotating"
  PROVE  /\ conn' \in [Conn -> Thread]
         /\ KeepsRequests /\ KeepsRotating /\ KeepsGuard /\ ShedsStreams
         /\ ActiveStreams' = ActiveStreams \ {c}
<1>1. /\ conn' \in [Conn -> Thread] /\ conn'[c].pc = "idle"
      /\ \A d \in Conn \ {c} : conn'[d] = conn[d]
  BY Leaves DEF BrokerInvariant, TypeOK
<1>2. KeepsRotating /\ KeepsGuard
  BY <1>1, OneThreadMoves DEF Inside
<1>3. KeepsRequests /\ ShedsStreams /\ ActiveStreams' = ActiveStreams \ {c}
  BY <1>1 DEF KeepsRequests, ShedsStreams, ActiveStreams, Stream
<1>4. QED
  BY <1>1, <1>2, <1>3

(* Nothing happens to the processes, or to the reservations.               *)
LEMMA SameProcesses == proc' = proc => ShedsProcesses /\ Sessions' = Sessions
  BY DEF ShedsProcesses, Running, Sessions

LEMMA SameReservations == approved' = approved => ShedsReservations
  BY DEF ShedsReservations

LEMMA SameStreams ==
  BrokerInvariant /\ UNCHANGED <<conn, glock>> =>
    /\ KeepsRequests /\ KeepsRotating /\ KeepsGuard /\ ShedsStreams
    /\ ActiveStreams' = ActiveStreams
  BY DEF KeepsRequests, KeepsRotating, KeepsGuard, ShedsStreams, ActiveStreams,
         BrokerInvariant, LocksFit

(* Processes are signalled.                                                *)
LEMMA ProcessesSignalled ==
  ASSUME TypeOK, NEW S, proc' = Signalled(S)
  PROVE  /\ proc' \in [Proc -> Process \cup {NULL}] /\ ShedsProcesses /\ Sessions' = Sessions
<1>1. ASSUME NEW p \in Running
      PROVE  LET new == [proc[p] EXCEPT !.st = "signalled"]
             IN  /\ new \in Process /\ new.of = proc[p].of /\ new.st # "exited"
  BY DEF TypeOK, Running, Process
<1>2. proc' \in [Proc -> Process \cup {NULL}]
  BY <1>1 DEF Signalled, TypeOK
<1>3. \A p \in Proc : \/ proc'[p] = proc[p]
                      \/ p \in Running /\ proc'[p] \in Process /\ proc'[p].of = proc[p].of
  BY <1>1 DEF Signalled
<1>4. ShedsProcesses
  BY <1>3 DEF ShedsProcesses, Running
<1>5. Sessions' = Sessions
  BY <1>3, AbsentAssumption DEF Sessions, Running
<1>6. QED
  BY <1>2, <1>4, <1>5

(* The reservations that were there are there or are gone.                 *)
LEMMA Consumed ==
  ASSUME TypeOK, NEW c \in Conn, Consumes(c)
  PROVE  approved' \in [Token -> Origin \cup {NULL}] /\ ShedsReservations
  BY DEF TypeOK, Consumes, ShedsReservations

-----------------------------------------------------------------------------
(* Connections and requests *)

LEMMA GatewaysKnown ==
  ASSUME BrokerInvariant, NEW c \in Conn, Connect(c) \/ AuthKnown(c) \/ AuthRefused(c)
  PROVE  BrokerInvariant'
<1> USE DEF Connect, AuthKnown, AuthRefused
<1>1. TypeOK /\ SlotsBalanced /\ LocksFit
  BY DEF BrokerInvariant
<1>2. Quiet /\ UNCHANGED <<broker, glock, approved, proc>>
  BY DEF Quiet
<1>3. glock # c /\ conn[c].pc # "rotating"
  BY <1>1 DEF LocksFit, Inside
<1>4. CASE Leave(c)
  BY <1>1, <1>2, <1>3, <1>4, LeavesQuietly, SameProcesses, SameReservations, Neither, QuietStep
     DEF TypeOK, Sheds, ActiveStreams, Stream
<1>5. CASE AuthKnown(c) /\ conn[c].gw = auth.pin
  <2>1. auth.epoch \in Number
    BY <1>1 DEF TypeOK
  <2>2. /\ conn' \in [Conn -> Thread] /\ conn'[c].pc = "authorised"
        /\ conn'[c].gw = conn[c].gw /\ conn'[c].epoch = auth.epoch
        /\ \A d \in Conn \ {c} : conn'[d] = conn[d]
    BY <1>1, <1>5, <2>1, AuthorisedGoes DEF TypeOK
  <2>3. KeepsRotating /\ KeepsGuard
    BY <1>2, <1>3, <2>2, OneThreadMoves DEF Inside
  <2>4. KeepsRequests /\ ShedsStreams /\ ActiveStreams' = ActiveStreams
    BY <1>5, <2>2, <1>3 DEF KeepsRequests, ShedsStreams, ActiveStreams, Stream, PinAlive
  <2>5. QED
    BY <1>1, <1>2, <2>2, <2>3, <2>4, SameProcesses, SameReservations, Neither, QuietStep
       DEF TypeOK, Sheds
<1>6. CASE Connect(c)
  <2>1. conn[c].pc = "idle" /\ gateway.no \in Number
    BY <1>6, <1>1 DEF TypeOK
  <2> DEFINE new == [Away EXCEPT !.pc = "calling", !.gw = gateway.no]
  <2>2. new \in Thread /\ new.pc = "calling"
    BY <2>1, AwayIsThread DEF Thread, PC
  <2>3. conn' = [conn EXCEPT ![c] = new]
    BY <1>6
  <2> HIDE DEF new
  <2>4. /\ conn' \in [Conn -> Thread] /\ conn'[c].pc = "calling"
        /\ \A d \in Conn \ {c} : conn'[d] = conn[d]
    BY <1>1, <2>2, <2>3, OneThread DEF TypeOK
  <2>5. KeepsRotating /\ KeepsGuard
    BY <1>2, <1>3, <2>4, OneThreadMoves DEF Inside
  <2>6. KeepsRequests /\ ShedsStreams /\ ActiveStreams' = ActiveStreams
    BY <2>1, <2>4 DEF KeepsRequests, ShedsStreams, ActiveStreams, Stream
  <2>7. QED
    BY <1>1, <1>2, <2>4, <2>5, <2>6, SameProcesses, SameReservations, Neither, QuietStep
       DEF TypeOK, Sheds
<1>7. QED
  BY <1>4, <1>5, <1>6

(* A request is answered; nothing starts.                                  *)
LEMMA RequestsEnd ==
  ASSUME BrokerInvariant, NEW c \in Conn,
         \/ Refused(c) \/ CancelReservation(c) \/ NotStarted(c)
         \/ \E p \in Proc : Kill(c, p)
  PROVE  BrokerInvariant'
<1> USE DEF Refused, CancelReservation, NotStarted, Kill
<1>1. TypeOK /\ SlotsBalanced /\ LocksFit
  BY DEF BrokerInvariant
<1>2. /\ Quiet /\ UNCHANGED <<broker, glock>> /\ Leave(c) /\ conn[c].pc = "active"
  BY DEF Quiet
<1>3. glock # c /\ conn[c].pc # "rotating" /\ c \notin ActiveStreams
  BY <1>1, <1>2 DEF LocksFit, ActiveStreams, Stream, Inside
<1>4. /\ conn' \in [Conn -> Thread]
      /\ KeepsRequests /\ KeepsRotating /\ KeepsGuard /\ ShedsStreams
      /\ ActiveStreams' = ActiveStreams
  BY <1>2, <1>3, LeavesQuietly
<1>5. approved' \in [Token -> Origin \cup {NULL}] /\ ShedsReservations
  <2>1. CASE UNCHANGED approved
    BY <2>1, <1>1, SameReservations DEF TypeOK
  <2>2. CASE \E k \in Token : approved' = [approved EXCEPT ![k] = NULL]
    BY <2>2, <1>1 DEF TypeOK, ShedsReservations
  <2>3. QED
    BY <2>1, <2>2 DEF Consumes
<1>6. proc' \in [Proc -> Process \cup {NULL}] /\ ShedsProcesses /\ Sessions' = Sessions
  <2>1. CASE UNCHANGED proc
    BY <2>1, <1>1, SameProcesses DEF TypeOK
  <2>2. CASE \E S : proc' = Signalled(S)
    BY <2>2, <1>1, ProcessesSignalled
  <2>3. QED
    BY <2>1, <2>2
<1>7. TypeOK' /\ SlotsBalanced'
  BY <1>1, <1>2, <1>4, <1>5, <1>6, Neither DEF TypeOK, Quiet
<1>8. QED
  BY <1>2, <1>4, <1>5, <1>6, <1>7, QuietStep DEF Sheds

(* A request of an owner stops what another of its requests started.       *)
LEMMA StreamsCancelled ==
  ASSUME BrokerInvariant, NEW c \in Conn, NEW S, conn[c].pc = "active",
         conn' = [Cancelled(S) EXCEPT ![c] = Away], UNCHANGED glock
  PROVE  /\ conn' \in [Conn -> Thread]
         /\ KeepsRequests /\ KeepsRotating /\ KeepsGuard /\ ShedsStreams
         /\ ActiveStreams' = ActiveStreams
<1>1. TypeOK /\ LocksFit
  BY DEF BrokerInvariant
<1>2. /\ conn' \in [Conn -> Thread] /\ conn'[c].pc = "idle"
      /\ \A d \in Conn \ {c} :
           /\ conn'[d].pc = conn[d].pc /\ conn'[d].gw = conn[d].gw
           /\ conn'[d].epoch = conn[d].epoch /\ conn'[d].owner = conn[d].owner
           /\ conn[d].cancelled => conn'[d].cancelled
  <2>1. Cancelled(S) \in [Conn -> Thread]
    BY <1>1, CancelledKeeps DEF TypeOK
  <2>2. /\ conn' \in [Conn -> Thread] /\ conn'[c] = Away
        /\ \A d \in Conn \ {c} : conn'[d] = Cancelled(S)[d]
    BY <2>1, AwayIsThread
  <2>3. Away.pc = "idle"
    BY DEF Away
  <2>4. QED
    BY <1>1, <2>2, <2>3, CancelledKeeps DEF TypeOK
<1>3. KeepsRotating /\ KeepsGuard
  BY <1>1, <1>2 DEF LocksFit, KeepsRotating, KeepsGuard, Inside
<1>4. KeepsRequests /\ ShedsStreams /\ ActiveStreams' = ActiveStreams
  BY <1>2 DEF KeepsRequests, ShedsStreams, ActiveStreams, Stream
<1>5. QED
  BY <1>2, <1>3, <1>4

LEMMA OwnersStop ==
  ASSUME BrokerInvariant, NEW c \in Conn, RevokeOwner(c) \/ \E t \in Conn : CancelStream(c, t)
  PROVE  BrokerInvariant'
<1> USE DEF RevokeOwner, CancelStream
<1>1. TypeOK /\ SlotsBalanced
  BY DEF BrokerInvariant
<1>2. /\ Quiet /\ UNCHANGED <<broker, glock>> /\ conn[c].pc = "active"
      /\ \E S : conn' = [Cancelled(S) EXCEPT ![c] = Away]
  BY DEF Quiet
<1>3. /\ conn' \in [Conn -> Thread]
      /\ KeepsRequests /\ KeepsRotating /\ KeepsGuard /\ ShedsStreams
      /\ ActiveStreams' = ActiveStreams
  BY <1>2, StreamsCancelled
<1>4. approved' \in [Token -> Origin \cup {NULL}] /\ ShedsReservations
  <2>1. CASE UNCHANGED approved
    BY <2>1, <1>1, SameReservations DEF TypeOK
  <2>2. CASE RevokeOwner(c)
    BY <2>2, <1>1 DEF TypeOK, ShedsReservations
  <2>3. QED
    BY <2>1, <2>2
<1>5. proc' \in [Proc -> Process \cup {NULL}] /\ ShedsProcesses /\ Sessions' = Sessions
  <2>1. CASE UNCHANGED proc
    BY <2>1, <1>1, SameProcesses DEF TypeOK
  <2>2. CASE RevokeOwner(c)
    BY <2>2, <1>1, ProcessesSignalled
  <2>3. QED
    BY <2>1, <2>2
<1>6. TypeOK' /\ SlotsBalanced'
  BY <1>1, <1>2, <1>3, <1>4, <1>5, Neither DEF TypeOK, Quiet
<1>7. QED
  BY <1>2, <1>3, <1>4, <1>5, <1>6, QuietStep DEF Sheds

(* Reservations and processes end by themselves.                           *)
LEMMA ThingsEnd ==
  ASSUME BrokerInvariant,
         \/ \E k \in Token : Dropped(k)
         \/ \E p \in Proc : Deadline(p) \/ Exits(p) \/ Released(p)
  PROVE  BrokerInvariant'
<1> USE DEF Dropped, Deadline, Exits, Released
<1>1. TypeOK /\ SlotsBalanced
  BY DEF BrokerInvariant
<1>2. UNCHANGED <<gateway, auth, rot, conn, glock>>
  OBVIOUS
<1>3. KeepsRequests /\ KeepsRotating /\ KeepsGuard /\ ShedsStreams /\ ActiveStreams' = ActiveStreams
  BY <1>2, SameStreams
<1>4. CASE \E k \in Token : Dropped(k)
  <2>1. approved' \in [Token -> Origin \cup {NULL}] /\ ShedsReservations
    BY <1>1, <1>4 DEF TypeOK, ShedsReservations
  <2>2. UNCHANGED <<broker, proc>>
    BY <1>4
  <2>3. TypeOK' /\ SlotsBalanced'
    BY <1>1, <1>2, <1>3, <2>1, <2>2, SameProcesses, Neither DEF TypeOK
  <2>4. QED
    BY <1>2, <1>3, <2>1, <2>2, <2>3, SameProcesses, QuietStep DEF Sheds, Quiet
<1>5. CASE \E p \in Proc : Deadline(p)
  <2>1. proc' \in [Proc -> Process \cup {NULL}] /\ ShedsProcesses /\ Sessions' = Sessions
    BY <1>1, <1>5, ProcessesSignalled
  <2>2. UNCHANGED <<broker, approved>>
    BY <1>5
  <2>3. TypeOK' /\ SlotsBalanced'
    BY <1>1, <1>2, <1>3, <2>1, <2>2, Neither DEF TypeOK
  <2>4. QED
    BY <1>2, <1>3, <2>1, <2>2, <2>3, SameReservations, QuietStep DEF Sheds, Quiet
<1>6. ASSUME NEW p \in Proc, Exits(p)
      PROVE  BrokerInvariant'
  <2> DEFINE new == [proc[p] EXCEPT !.st = "exited"]
  <2>1. new \in Process /\ new.st = "exited"
    BY <1>1, <1>6 DEF TypeOK, Running, Process
  <2>2. proc' = [proc EXCEPT ![p] = new]
    BY <1>6
  <2> HIDE DEF new
  <2>3. /\ proc' \in [Proc -> Process \cup {NULL}] /\ proc'[p] = new
        /\ \A q \in Proc \ {p} : proc'[q] = proc[q]
    BY <1>1, <2>1, <2>2 DEF TypeOK
  <2>4. ShedsProcesses
    BY <2>1, <2>3 DEF ShedsProcesses, Running
  <2>5. Sessions' = Sessions
    BY <1>6, <2>1, <2>3, AbsentAssumption DEF Sessions, Running
  <2>6. UNCHANGED <<broker, approved>>
    BY <1>6
  <2>7. TypeOK' /\ SlotsBalanced'
    BY <1>1, <1>2, <1>3, <2>3, <2>5, <2>6, Neither DEF TypeOK
  <2>8. QED
    BY <1>2, <1>3, <2>4, <2>6, <2>7, SameReservations, QuietStep DEF Sheds, Quiet
<1>7. ASSUME NEW p \in Proc, Released(p)
      PROVE  BrokerInvariant'
  <2>1. proc' \in [Proc -> Process \cup {NULL}] /\ ShedsProcesses
    BY <1>1, <1>7 DEF TypeOK, ShedsProcesses, Running
  <2>2. p \in Sessions /\ Sessions' = Sessions \ {p}
    BY <1>1, <1>7 DEF Sessions, TypeOK
  <2>3. /\ SlotsBalanced'
        /\ broker' \in Broker
        /\ broker'.epoch = broker.epoch /\ broker'.rotating = broker.rotating
    BY <1>1, <1>3, <1>7, <2>2, GivenBack
  <2>4. UNCHANGED approved
    BY <1>7
  <2>5. TypeOK'
    BY <1>1, <1>2, <2>1, <2>3, <2>4 DEF TypeOK
  <2>6. QED
    BY <1>2, <1>3, <2>1, <2>3, <2>4, <2>5, SameReservations, QuietStep DEF Sheds, Quiet
<1>8. QED
  BY <1>4, <1>5, <1>6, <1>7

LEMMA GrownWork ==
  ASSUME NEW g,
         \A p \in Running' : (p \in Running /\ proc'[p].of = proc[p].of) \/ proc'[p].of.gw = g,
         \A c \in ActiveStreams' : (c \in ActiveStreams /\ conn'[c].gw = conn[c].gw) \/ conn'[c].gw = g,
         \A k \in Token : approved'[k] # NULL => approved'[k] = approved[k] \/ approved'[k].gw = g
  PROVE  WorkOf' \subseteq WorkOf \cup {g}
  BY DEF WorkOf

LEMMA OwnersKnown ==
  ASSUME BrokerInvariant, NEW c \in Conn, conn[c].pc = "active"
  PROVE  Origins(c) \in Origin /\ Origins(c) # NULL /\ Origins(c).gw = conn[c].gw
<1>1. conn[c].owner \in Owner /\ conn[c].gw \in Number
  BY DEF BrokerInvariant, TypeOK, RequestsFit, Thread
<1>2. QED
  BY <1>1, AbsentAssumption DEF Origins, Origin

(* A request that starts work.                                             *)
LEMMA RequestsStart ==
  ASSUME BrokerInvariant, NEW c \in Conn, Reserve(c) \/ Execute(c) \/ StreamStarts(c)
  PROVE  BrokerInvariant'
<1> USE DEF Reserve, Execute, StreamStarts
<1>1. TypeOK /\ SlotsBalanced /\ LocksFit
  BY DEF BrokerInvariant
<1>2. /\ conn[c].pc = "active" /\ Guarded(c)
      /\ UNCHANGED <<gateway, auth, rot, glock>>
  OBVIOUS
<1>3. glock # c /\ conn[c].pc # "rotating" /\ c \notin ActiveStreams
  BY <1>1, <1>2 DEF LocksFit, ActiveStreams, Stream, Inside
<1>4. Origins(c) \in Origin /\ Origins(c) # NULL /\ Origins(c).gw = conn[c].gw
  BY <1>2, OwnersKnown
<1>5. Leave(c) => /\ conn' \in [Conn -> Thread]
                  /\ KeepsRequests /\ KeepsRotating /\ KeepsGuard /\ ShedsStreams
                  /\ ActiveStreams' = ActiveStreams
  BY <1>2, <1>3, LeavesQuietly
<1>6. CASE Reserve(c)
  <2>1. PICK k \in Token : approved' = [approved EXCEPT ![k] = Origins(c)]
    BY <1>6
  <2>2. approved' \in [Token -> Origin \cup {NULL}]
    BY <1>1, <1>4, <2>1 DEF TypeOK
  <2>3. \A j \in Token : approved'[j] # NULL =>
          approved'[j] = approved[j] \/ approved'[j].gw = conn[c].gw
    BY <1>1, <1>4, <2>1 DEF TypeOK
  <2>4. UNCHANGED <<broker, proc>> /\ Leave(c)
    BY <1>6
  <2>5. Starts(c)
    BY <1>2, <1>5, <2>3, <2>4, GrownWork, SameProcesses DEF Starts, ShedsProcesses, ShedsStreams
  <2>6. TypeOK' /\ SlotsBalanced'
    BY <1>1, <1>2, <1>5, <2>2, <2>4, SameProcesses, Neither DEF TypeOK
  <2>7. QED
    BY <1>2, <1>5, <2>4, <2>5, <2>6, QuietStep DEF Quiet
<1>7. CASE Execute(c)
  <2>1. PICK p \in Proc :
          proc[p] = NULL /\ proc' = [proc EXCEPT ![p] = [st |-> "running", of |-> Origins(c), broken |-> FALSE]]
    BY <1>7
  <2>2. [st |-> "running", of |-> Origins(c), broken |-> FALSE] \in Process
    BY <1>4 DEF Process
  <2>3. /\ proc' \in [Proc -> Process \cup {NULL}] /\ proc'[p].of = Origins(c) /\ proc'[p] # NULL
        /\ \A q \in Proc \ {p} : proc'[q] = proc[q]
    BY <1>1, <2>1, <2>2, AbsentAssumption DEF TypeOK
  <2>4. p \in Proc \ Sessions /\ Sessions' = Sessions \cup {p}
    BY <2>1, <2>3 DEF Sessions
  <2>5. \A q \in Running' : (q \in Running /\ proc'[q].of = proc[q].of) \/ proc'[q].of.gw = conn[c].gw
    BY <1>4, <2>3 DEF Running
  <2>6. Leave(c) /\ Take /\ Consumes(c)
    BY <1>7
  <2>7. approved' \in [Token -> Origin \cup {NULL}] /\ ShedsReservations
    BY <1>1, <2>6, Consumed
  <2>8. Starts(c)
    BY <1>2, <1>5, <2>5, <2>6, <2>7, GrownWork DEF Starts, ShedsReservations, ShedsStreams
  <2>9. /\ SlotsBalanced'
        /\ broker' \in Broker
        /\ broker'.epoch = broker.epoch /\ broker'.rotating = broker.rotating
    BY <1>1, <1>5, <2>4, <2>6, Taken
  <2>10. TypeOK'
    BY <1>1, <1>2, <1>5, <2>3, <2>6, <2>7, <2>9 DEF TypeOK
  <2>11. QED
    BY <1>2, <1>5, <2>6, <2>8, <2>9, <2>10, QuietStep DEF Quiet
<1>8. CASE StreamStarts(c)
  <2>1. Take /\ Consumes(c) /\ Goto(c, "streaming") /\ UNCHANGED proc
    BY <1>8
  <2>2. "streaming" \in PC
    BY DEF PC, Stream
  <2>3. /\ conn' \in [Conn -> Thread] /\ conn'[c].pc = "streaming" /\ conn'[c].gw = conn[c].gw
        /\ \A d \in Conn \ {c} : conn'[d] = conn[d]
    BY <1>1, <2>1, <2>2, GoesTo DEF TypeOK
  <2>4. KeepsRotating /\ KeepsGuard
    BY <1>2, <1>3, <2>3, OneThreadMoves DEF Inside
  <2>5. KeepsRequests /\ ActiveStreams' = ActiveStreams \cup {c}
    BY <2>3 DEF KeepsRequests, ActiveStreams, Stream
  <2>6. approved' \in [Token -> Origin \cup {NULL}] /\ ShedsReservations
    BY <1>1, <2>1, Consumed
  <2>7. Starts(c)
    <3>1. \A d \in ActiveStreams' :
            (d \in ActiveStreams /\ conn'[d].gw = conn[d].gw) \/ conn'[d].gw = conn[c].gw
      BY <2>3, <2>5 DEF ActiveStreams
    <3>2. WorkOf' \subseteq WorkOf \cup {conn[c].gw}
      BY <2>1, <2>6, <3>1, GrownWork, SameProcesses DEF ShedsReservations, ShedsProcesses
    <3>3. QED
      BY <1>2, <3>2 DEF Starts
  <2>8. /\ SlotsBalanced'
        /\ broker' \in Broker
        /\ broker'.epoch = broker.epoch /\ broker'.rotating = broker.rotating
    BY <1>1, <1>3, <2>1, <2>5, SameProcesses, Taken
  <2>9. TypeOK'
    BY <1>1, <1>2, <2>1, <2>3, <2>6, <2>8 DEF TypeOK
  <2>10. QED
    BY <1>2, <2>4, <2>5, <2>7, <2>8, <2>9, QuietStep DEF Quiet
<1>9. QED
  BY <1>6, <1>7, <1>8

(* A write into a process's input takes nothing from it.                   *)
LEMMA InputBroken ==
  ASSUME TypeOK, NEW p \in Running, NEW broken \in BOOLEAN,
         proc' = [proc EXCEPT ![p].broken = broken]
  PROVE  proc' \in [Proc -> Process \cup {NULL}] /\ ShedsProcesses /\ Sessions' = Sessions
<1> DEFINE new == [proc[p] EXCEPT !.broken = broken]
<1>1. p \in Proc /\ proc[p] # NULL /\ proc[p] \in Process
  BY DEF TypeOK, Running
<1>2. new \in Process /\ new.of = proc[p].of /\ new.st = proc[p].st
  BY <1>1 DEF Process
<1>3. proc' = [proc EXCEPT ![p] = new]
  OBVIOUS
<1> HIDE DEF new
<1>4. /\ proc' \in [Proc -> Process \cup {NULL}] /\ proc'[p] = new
      /\ \A q \in Proc \ {p} : proc'[q] = proc[q]
  BY <1>1, <1>2, <1>3 DEF TypeOK
<1>5. ShedsProcesses
  BY <1>1, <1>2, <1>4 DEF ShedsProcesses, Running
<1>6. Sessions' = Sessions
  BY <1>1, <1>2, <1>4, AbsentAssumption DEF Sessions
<1>7. QED
  BY <1>4, <1>5, <1>6

(* A thread enters or leaves the guard, or goes on with its stream.        *)
LEMMA ThreadsGoOn ==
  ASSUME BrokerInvariant, NEW c \in Conn,
         \/ Preflight(c) \/ (\E p \in Proc : Write(c, p)) \/ InsideEnds(c)
         \/ StreamWrites(c) \/ WriteEnds(c) \/ Commit(c) \/ CommitEnds(c)
         \/ Downloaded(c) \/ Finish(c) \/ StreamFails(c) \/ StreamEnds(c)
  PROVE  BrokerInvariant'
<1>1. TypeOK /\ SlotsBalanced /\ LocksFit
  BY DEF BrokerInvariant
<1>2. /\ UNCHANGED <<gateway, auth, rot, approved>>
      /\ UNCHANGED proc \/ \E p \in Proc : Write(c, p)
  BY DEF Preflight, Write, InsideEnds, StreamWrites, WriteEnds, Commit, CommitEnds, Downloaded,
         Finish, StreamFails, StreamEnds
<1>3. proc' \in [Proc -> Process \cup {NULL}] /\ ShedsProcesses /\ Sessions' = Sessions
  BY <1>1, <1>2, SameProcesses, InputBroken DEF Write, TypeOK
<1>4. CASE StreamEnds(c)
  <2>1. GiveBack /\ Leave(c) /\ glock' = glock /\ c \in ActiveStreams
        /\ glock # c /\ conn[c].pc # "rotating"
    BY <1>1, <1>4 DEF StreamEnds, ActiveStreams, Stream, LocksFit, Inside
  <2>2. /\ conn' \in [Conn -> Thread]
        /\ KeepsRequests /\ KeepsRotating /\ KeepsGuard /\ ShedsStreams
        /\ ActiveStreams' = ActiveStreams \ {c}
    BY <2>1, LeavesQuietly
  <2>3. /\ SlotsBalanced'
        /\ broker' \in Broker
        /\ broker'.epoch = broker.epoch /\ broker'.rotating = broker.rotating
    BY <1>1, <1>2, <1>3, <2>1, <2>2, GivenBack
  <2>4. TypeOK'
    BY <1>1, <1>2, <1>3, <2>1, <2>2, <2>3 DEF TypeOK
  <2>5. QED
    BY <1>2, <1>3, <2>2, <2>3, <2>4, SameReservations, QuietStep DEF Quiet, Sheds
<1>5. CASE InsideEnds(c)
  <2>1. Leave(c) /\ glock' = NULL /\ glock = c /\ conn[c].pc = "inside" /\ UNCHANGED broker
    BY <1>1, <1>5 DEF InsideEnds, LocksFit, Inside
  <2>2. /\ conn' \in [Conn -> Thread] /\ conn'[c].pc = "idle"
        /\ \A d \in Conn \ {c} : conn'[d] = conn[d]
    BY <1>1, <2>1, Leaves DEF TypeOK
  <2>3. KeepsRotating /\ KeepsGuard
    BY <2>1, <2>2, OneThreadMoves, WorkstationAssumption DEF Inside
  <2>4. KeepsRequests /\ ShedsStreams /\ ActiveStreams' = ActiveStreams
    BY <2>1, <2>2 DEF KeepsRequests, ShedsStreams, ActiveStreams, Stream
  <2>5. TypeOK' /\ SlotsBalanced'
    BY <1>1, <1>2, <1>3, <2>1, <2>2, <2>4, Neither DEF TypeOK
  <2>6. QED
    BY <1>2, <1>3, <2>1, <2>3, <2>4, <2>5, SameReservations, QuietStep DEF Quiet, Sheds
<1>6. CASE \/ Preflight(c) \/ (\E p \in Proc : Write(c, p))
           \/ StreamWrites(c) \/ WriteEnds(c) \/ Commit(c) \/ CommitEnds(c)
           \/ Downloaded(c) \/ Finish(c) \/ StreamFails(c)
  <2>1. PICK to \in PC :
          /\ Goto(c, to) /\ UNCHANGED broker /\ to \notin {"rotating", "authorised", "active"}
          /\ conn[c].pc # "rotating"
          /\ to \in Stream <=> conn[c].pc \in Stream
          /\ \/ /\ glock = NULL /\ glock' = c /\ to \in Inside
             \/ /\ to \notin Inside
                /\ \/ glock = c /\ glock' = NULL
                   \/ glock # c /\ glock' = glock
    <3>1. CASE Preflight(c)
      BY <3>1, <1>1 DEF Preflight, Guarded, PC, Stream, Inside
    <3>2. CASE \E p \in Proc : Write(c, p)
      BY <3>2, <1>1 DEF Write, Guarded, PC, Stream, Inside
    <3>3. CASE StreamWrites(c) \/ Commit(c)
      BY <3>3, <1>1 DEF StreamWrites, Commit, Guarded, PC, Stream, Inside
    <3>4. CASE WriteEnds(c) \/ CommitEnds(c)
      BY <3>4, <1>1 DEF WriteEnds, CommitEnds, LocksFit, PC, Stream, Inside
    <3>5. CASE Downloaded(c) \/ Finish(c) \/ StreamFails(c)
      BY <3>5, <1>1 DEF Downloaded, Finish, StreamFails, LocksFit, PC, Stream, Inside
    <3>6. QED
      BY <1>6, <3>1, <3>2, <3>3, <3>4, <3>5
  <2>2. /\ conn' \in [Conn -> Thread] /\ conn'[c].pc = to /\ conn'[c].gw = conn[c].gw
        /\ conn'[c].cancelled = conn[c].cancelled
        /\ \A d \in Conn \ {c} : conn'[d] = conn[d]
    BY <1>1, <2>1, GoesTo DEF TypeOK
  <2>3. KeepsRotating /\ KeepsGuard
    BY <2>1, <2>2, OneThreadMoves, WorkstationAssumption
  <2>4. KeepsRequests /\ ShedsStreams /\ ActiveStreams' = ActiveStreams
    BY <2>1, <2>2 DEF KeepsRequests, ShedsStreams, ActiveStreams
  <2>5. glock' \in Conn \cup {NULL}
    BY <1>1, <2>1 DEF TypeOK
  <2>6. TypeOK' /\ SlotsBalanced'
    BY <1>1, <1>2, <1>3, <2>1, <2>2, <2>4, <2>5, Neither DEF TypeOK
  <2>7. QED
    BY <1>2, <1>3, <2>1, <2>3, <2>4, <2>6, SameReservations, QuietStep DEF Quiet, Sheds
<1>7. QED
  BY <1>4, <1>5, <1>6

-----------------------------------------------------------------------------
(* Gateways, the authorizer and rotations *)

(* Where work is neither started nor stopped, and requests stay.           *)
LEMMA SameWork ==
  ASSUME UNCHANGED <<proc, approved>>,
         \A d \in Conn : conn'[d].pc \in Stream \/ conn[d].pc \in Stream => conn'[d] = conn[d]
  PROVE  /\ ActiveStreams' = ActiveStreams /\ Sessions' = Sessions
         /\ Running' = Running /\ WorkOf' = WorkOf
<1>1. /\ ActiveStreams' = ActiveStreams /\ \A d \in ActiveStreams : conn'[d] = conn[d]
  BY DEF ActiveStreams
<1>2. Sessions' = Sessions /\ Running' = Running
  BY DEF Sessions, Running
<1>3. QED
  BY <1>1, <1>2 DEF WorkOf

LEMMA GatewayStep ==
  ASSUME BrokerInvariant, GatewayDies \/ GatewayStarts
  PROVE  BrokerInvariant'
<1> USE DEF BrokerInvariant, GatewayDies, GatewayStarts
<1>1. UNCHANGED <<auth, rot, broker, glock, approved, proc, conn>>
  OBVIOUS
<1>2. /\ gateway' \in [no : Number, alive : BOOLEAN]
      /\ \/ gateway'.no = gateway.no /\ ~gateway'.alive /\ gateway.no < MaxGateways
         \/ gateway'.no = gateway.no + 1 /\ gateway'.alive
  <2>1. /\ gateway \in [no : Number, alive : BOOLEAN] /\ gateway.no \in 0 .. MaxGateways
        /\ MaxGateways \in Nat
    BY WorkstationAssumption DEF TypeOK, Number
  <2>2. CASE GatewayDies
    BY <2>1, <2>2
  <2>3. CASE GatewayStarts
    <3>1. gateway.no + 1 \in Number
      BY <2>1, <2>3 DEF EpochsFit, Number
    <3>2. gateway' = [no |-> gateway.no + 1, alive |-> TRUE]
      BY <2>3
    <3>3. QED
      BY <3>1, <3>2
  <2>4. QED
    BY <2>2, <2>3
<1>3. TypeOK'
  BY <1>1, <1>2 DEF TypeOK
<1>4. EpochsFit'
  BY <1>1, <1>2, WorkstationAssumption DEF EpochsFit, PinAlive, TypeOK, Number
<1>5. ActiveStreams' = ActiveStreams /\ Sessions' = Sessions /\ Running' = Running /\ WorkOf' = WorkOf
  BY <1>1, SameWork
<1>6. SlotsBalanced' /\ RequestsFit' /\ LocksFit'
  BY <1>1, <1>5, Neither DEF RequestsFit, LocksFit
<1>7. RotationStops' /\ WorkFits'
  BY <1>1, <1>5 DEF RotationStops, WorkFits
<1>8. QED
  BY <1>3, <1>4, <1>6, <1>7

LEMMA NewGatewayPinned ==
  ASSUME BrokerInvariant, NEW c \in Conn, AuthNew(c)
  PROVE  BrokerInvariant'
<1> USE DEF BrokerInvariant
<1>1. /\ conn[c].pc = "calling" /\ rot.by = NULL /\ ~PinAlive /\ Valid(c)
      /\ auth.pin = 0 \/ auth.revoked >= auth.epoch
      /\ UNCHANGED <<gateway, rot, broker, glock, approved, proc>>
  BY DEF AuthNew, Unlocked, TypeOK, Number
<1>2. auth.epoch + 1 \in Number /\ auth.epoch + 1 <= conn[c].gw /\ auth.revoked = auth.epoch
      /\ conn[c].gw = gateway.no /\ conn[c].gw # 0
  <2>1. /\ auth.epoch \in Nat /\ auth.pin \in Nat /\ auth.revoked \in Nat
        /\ gateway.no \in 0 .. MaxGateways /\ MaxGateways \in Nat
    BY WorkstationAssumption DEF TypeOK, Number
  <2>2. conn[c].gw = gateway.no /\ (auth.pin = 0 \/ auth.pin # gateway.no)
    BY <1>1 DEF PinAlive, Valid
  <2>3. /\ 0 < gateway.no /\ auth.epoch <= auth.pin /\ auth.pin <= gateway.no
        /\ auth.revoked <= auth.epoch
    BY DEF EpochsFit
  <2>4. QED
    BY <1>1, <2>1, <2>2, <2>3 DEF Number
<1>3. /\ auth' \in [pin : Number, epoch : Number, revoked : Number, monitor : BOOLEAN]
      /\ auth'.pin = conn[c].gw /\ auth'.epoch = auth.epoch + 1 /\ auth'.revoked = auth.revoked
  BY <1>1, <1>2 DEF AuthNew, Pinned, TypeOK, Valid
<1>4. /\ conn' \in [Conn -> Thread] /\ conn'[c].pc = "authorised"
      /\ conn'[c].gw = conn[c].gw /\ conn'[c].epoch = auth.epoch + 1
      /\ \A d \in Conn \ {c} : conn'[d] = conn[d]
  BY <1>2, AuthorisedGoes DEF AuthNew, TypeOK
<1>5. ActiveStreams' = ActiveStreams /\ Sessions' = Sessions /\ Running' = Running /\ WorkOf' = WorkOf
  BY <1>1, <1>4, SameWork DEF Stream
<1>6. TypeOK' /\ SlotsBalanced'
  BY <1>1, <1>3, <1>4, <1>5, Neither DEF TypeOK
<1>7. EpochsFit'
  BY <1>1, <1>2, <1>3, WorkstationAssumption DEF EpochsFit, PinAlive, TypeOK, Number
<1>8. RequestsFit'
  <2>1. ASSUME NEW d \in Conn \ {c}, conn[d].pc \in {"authorised", "active"}
        PROVE  0 < conn[d].epoch /\ conn[d].epoch <= auth.epoch
    BY <2>1 DEF RequestsFit
  <2>2. QED
    BY <1>2, <1>3, <1>4, <2>1 DEF RequestsFit, TypeOK, Thread, Number
<1>9. LocksFit' /\ RotationStops'
  BY <1>1, <1>4, <1>5, WorkstationAssumption DEF LocksFit, RotationStops, Inside
<1>10. WorkFits'
  BY <1>1, <1>2, <1>3, <1>5 DEF WorkFits, TypeOK, Number, EpochsFit
<1>11. QED
  BY <1>6, <1>7, <1>8, <1>9, <1>10

(* A rotation begins: for a thread that waits for it, or for the monitor.  *)
LEMMA RotationBegins ==
  ASSUME BrokerInvariant, Monitor \/ \E c \in Conn : AuthRotates(c)
  PROVE  BrokerInvariant'
<1> USE DEF BrokerInvariant
<1>1. /\ rot.by = NULL /\ ~PinAlive
      /\ UNCHANGED <<gateway, broker, glock, approved, proc>>
  BY DEF Monitor, AuthRotates, Unlocked
<1>2. /\ auth' \in [pin : Number, epoch : Number, revoked : Number, monitor : BOOLEAN]
      /\ auth'.pin = auth.pin /\ auth'.epoch = auth.epoch /\ auth'.revoked = auth.revoked
  BY DEF Monitor, AuthRotates, TypeOK
<1>3. /\ conn' \in [Conn -> Thread]
      /\ \A d \in Conn :
           \/ conn'[d] = conn[d] /\ rot'.by # d
           \/ conn[d].pc = "calling" /\ conn'[d].pc = "rotating" /\ rot'.by = d
  <2>1. CASE Monitor
    BY <2>1, <1>1, WorkstationAssumption DEF Monitor, RotationBy, TypeOK
  <2>2. ASSUME NEW c \in Conn, AuthRotates(c)
        PROVE  <1>3!1 /\ <1>3!2
    <3>1. "rotating" \in PC /\ Goto(c, "rotating") /\ conn[c].pc = "calling" /\ rot'.by = c
      BY <2>2 DEF AuthRotates, RotationBy, PC
    <3>2. QED
      BY <3>1, GoesTo DEF TypeOK
  <2>3. QED
    BY <2>1, <2>2
<1>4. /\ rot' \in [by : Conn \cup {"monitor", NULL}, left : SUBSET (Proc \cup Conn),
                   step : {"none", "closing", "processes", "streams"}]
      /\ rot'.left = {}
      /\ \/ rot' = rot
         \/ rot'.by # NULL /\ rot'.step = "closing" /\ auth.revoked < auth.epoch
  <2>1. rot.step = "none" /\ rot.left = {} /\ "monitor" # NULL /\ \A c \in Conn : c # NULL
    BY <1>1, WorkstationAssumption DEF LocksFit
  <2>2. \/ rot' = rot
        \/ /\ \E by \in Conn \cup {"monitor"} : rot' = RotationBy(by)
           /\ auth.revoked < auth.epoch
    BY DEF Monitor, AuthRotates
  <2>3. QED
    BY <2>1, <2>2 DEF TypeOK, RotationBy
<1>5. ActiveStreams' = ActiveStreams /\ Sessions' = Sessions /\ Running' = Running /\ WorkOf' = WorkOf
  BY <1>1, <1>3, SameWork DEF Stream
<1>6. TypeOK' /\ SlotsBalanced'
  BY <1>1, <1>2, <1>3, <1>4, <1>5, Neither DEF TypeOK
<1>7. EpochsFit'
  BY <1>1, <1>2, <1>4 DEF EpochsFit, PinAlive
<1>8. RequestsFit'
  BY <1>2, <1>3 DEF RequestsFit
<1>9. LocksFit'
  <2>1. \A d \in Conn : conn'[d].pc = "rotating" <=> rot'.by = d
    BY <1>1, <1>3, WorkstationAssumption DEF LocksFit
  <2>2. \A d \in Conn : conn'[d].pc \in Inside <=> glock' = d
    BY <1>1, <1>3 DEF LocksFit, Inside
  <2>3. QED
    BY <1>1, <1>4, <2>1, <2>2 DEF LocksFit
<1>10. RotationStops' /\ WorkFits'
  BY <1>1, <1>2, <1>3, <1>4, <1>5 DEF RotationStops, WorkFits, LocksFit
<1>11. QED
  BY <1>6, <1>7, <1>8, <1>9, <1>10

(* A rotation goes on: it closes the broker, stops what works, and waits.  *)
LEMMA RotationGoesOn ==
  ASSUME BrokerInvariant,
         \/ RotationCloses \/ RotationCancels
         \/ \E p \in Proc : RotationKills(p)
         \/ \E c \in Conn : RotationDrains(c)
  PROVE  BrokerInvariant'
<1> USE DEF BrokerInvariant
<1>1. /\ UNCHANGED <<gateway, auth, glock>>
      /\ rot.step # "none" /\ rot.by # NULL
  BY DEF RotationCloses, RotationCancels, RotationKills, RotationDrains, LocksFit
<1>2. /\ broker' \in Broker
      /\ broker'.epoch = broker.epoch /\ broker'.slots = broker.slots
      /\ broker'.lost = broker.lost
      /\ rot.step = "closing" => broker'.rotating
      /\ rot.step # "closing" => broker' = broker
  BY DEF RotationCloses, RotationCancels, RotationKills, RotationDrains, TypeOK, Broker
<1>3. /\ conn' \in [Conn -> Thread]
      /\ \A d \in Conn :
           /\ conn'[d].pc = conn[d].pc /\ conn'[d].gw = conn[d].gw
           /\ conn'[d].epoch = conn[d].epoch /\ conn'[d].owner = conn[d].owner
           /\ conn[d].cancelled => conn'[d].cancelled
  <2>1. conn' = conn \/ \E S : conn' = Cancelled(S)
    BY DEF RotationCloses, RotationCancels, RotationKills, RotationDrains
  <2>2. QED
    BY <2>1, CancelledKeeps DEF TypeOK
<1>4. proc' \in [Proc -> Process \cup {NULL}] /\ ShedsProcesses /\ Sessions' = Sessions
  <2>1. proc' = proc \/ \E S : proc' = Signalled(S)
    BY DEF RotationCloses, RotationCancels, RotationKills, RotationDrains
  <2>2. QED
    BY <2>1, ProcessesSignalled, SameProcesses DEF TypeOK
<1>5. approved' \in [Token -> Origin \cup {NULL}] /\ ShedsReservations
  <2>1. approved' = approved \/ approved' = [k \in Token |-> NULL]
    BY Zenon DEF RotationCloses, RotationCancels, RotationKills, RotationDrains
  <2>2. CASE approved' = approved
    BY <2>2 DEF TypeOK, ShedsReservations
  <2>3. CASE approved' = [k \in Token |-> NULL]
    BY <2>3 DEF ShedsReservations
  <2>4. QED
    BY <2>1, <2>2, <2>3
<1>6. /\ rot' \in [by : Conn \cup {"monitor", NULL}, left : SUBSET (Proc \cup Conn),
                   step : {"none", "closing", "processes", "streams"}]
      /\ rot'.by = rot.by /\ rot'.step # "none"
  <2>1. Running \subseteq Proc /\ ActiveStreams \subseteq Conn
    BY DEF Running, ActiveStreams
  <2>2. CASE RotationCloses
    BY <2>1, <2>2 DEF RotationCloses, TypeOK
  <2>3. CASE RotationCancels
    BY <2>1, <2>3 DEF RotationCancels, TypeOK
  <2>4. CASE (\E p \in Proc : RotationKills(p)) \/ \E c \in Conn : RotationDrains(c)
    <3>1. rot' = rot \/ \E x : rot' = [rot EXCEPT !.left = rot.left \ {x}]
      BY <2>4 DEF RotationKills, RotationDrains
    <3>2. QED
      BY <1>1, <3>1 DEF TypeOK
  <2>5. QED
    BY <2>2, <2>3, <2>4
<1>7. ActiveStreams' = ActiveStreams /\ ShedsStreams
  BY <1>3 DEF ActiveStreams, ShedsStreams
<1>8. TypeOK' /\ SlotsBalanced'
  BY <1>1, <1>2, <1>3, <1>4, <1>5, <1>6, <1>7, Neither DEF TypeOK
<1>9. EpochsFit' /\ RequestsFit' /\ LocksFit'
  <2>1. EpochsFit'
    BY <1>1, <1>2, <1>6 DEF EpochsFit, PinAlive
  <2>2. RequestsFit'
    BY <1>1, <1>3 DEF RequestsFit
  <2>3. LocksFit'
    BY <1>1, <1>3, <1>6 DEF LocksFit
  <2>4. QED
    BY <2>1, <2>2, <2>3
<1>10. WorkFits'
  <2>1. WorkOf' \subseteq WorkOf
    BY <1>4, <1>5, <1>7, ShedWork DEF Sheds
  <2>2. QED
    BY <1>1, <1>2, <2>1 DEF WorkFits
<1>11. RotationStops'
  <2>1. CASE RotationCloses
    <3>1. rot.step = "closing" /\ rot'.step = "processes" /\ rot'.left = Running /\ proc' = proc
      BY <2>1 DEF RotationCloses, TypeOK
    <3>2. QED
      BY <1>2, <3>1 DEF RotationStops, Running
  <2>2. CASE RotationCancels
    <3>1. /\ rot.step = "processes" /\ rot.left = {} /\ proc' = proc /\ broker' = broker
          /\ rot'.step = "streams" /\ rot'.left = ActiveStreams
          /\ approved' = [k \in Token |-> NULL] /\ conn' = Cancelled(ActiveStreams)
      BY <2>2 DEF RotationCancels, TypeOK
    <3>2. \A c \in ActiveStreams : conn'[c].cancelled
      BY <3>1, CancelledKeeps DEF TypeOK, ActiveStreams
    <3>3. Running' = {}
      BY <3>1 DEF RotationStops, Running
    <3>4. QED
      BY <1>7, <3>1, <3>2, <3>3 DEF RotationStops
  <2>3. ASSUME NEW p \in Proc, RotationKills(p)
        PROVE  RotationStops'
    <3>1. /\ rot.step = "processes" /\ rot'.step = "processes" /\ broker' = broker
          /\ rot.left \ (rot'.left) \subseteq Proc \ Running
          /\ Running \subseteq rot.left
      BY <2>3 DEF RotationKills, TypeOK, RotationStops
    <3>2. Running' \subseteq Running
      BY <1>4 DEF ShedsProcesses
    <3>3. QED
      BY <3>1, <3>2 DEF RotationStops
  <2>4. ASSUME NEW c \in Conn, RotationDrains(c)
        PROVE  RotationStops'
    <3>1. /\ rot.step = "streams" /\ rot'.step = "streams" /\ UNCHANGED <<broker, proc, approved, conn>>
          /\ rot'.left = rot.left \ {c} /\ ~conn[c].cancelled
      BY <2>4 DEF RotationDrains, TypeOK
    <3>2. Running' = Running
      BY <3>1 DEF Running
    <3>3. QED
      BY <1>7, <3>1, <3>2 DEF RotationStops
  <2>5. QED
    BY <2>1, <2>2, <2>3, <2>4
<1>12. QED
  BY <1>8, <1>9, <1>10, <1>11

(* It gives up: the broker stays closed, the epoch is not revoked.         *)
LEMMA RotationGivesUp ==
  ASSUME BrokerInvariant, RotationFails
  PROVE  BrokerInvariant'
<1> USE DEF BrokerInvariant, RotationFails
<1>1. /\ rot.by # NULL /\ rot' = NoRotation /\ NoRotation.by = NULL /\ NoRotation.left = {}
      /\ NoRotation.step = "none" /\ UNCHANGED <<gateway, auth, broker, glock, approved, proc>>
  BY DEF LocksFit, NoRotation
<1>2. /\ conn' \in [Conn -> Thread]
      /\ \A d \in Conn : \/ conn'[d] = conn[d] /\ rot.by # d
                         \/ conn[d].pc = "rotating" /\ conn'[d].pc = "idle"
  <2>1. CASE rot.by \in Conn
    BY <2>1, Leaves DEF TypeOK, LocksFit
  <2>2. CASE rot.by \notin Conn
    BY <2>2 DEF TypeOK
  <2>3. QED
    BY <2>1, <2>2
<1>3. ActiveStreams' = ActiveStreams /\ Sessions' = Sessions /\ Running' = Running /\ WorkOf' = WorkOf
  BY <1>1, <1>2, SameWork DEF Stream
<1>4. TypeOK' /\ SlotsBalanced'
  <2>1. NoRotation \in [by : Conn \cup {"monitor", NULL}, left : SUBSET (Proc \cup Conn),
                        step : {"none", "closing", "processes", "streams"}]
    BY DEF NoRotation
  <2>2. QED
    BY <1>1, <1>2, <1>3, <2>1, Neither DEF TypeOK
<1>5. EpochsFit'
  BY <1>1 DEF EpochsFit, PinAlive
<1>6. RequestsFit'
  BY <1>1, <1>2 DEF RequestsFit
<1>7. LocksFit'
  BY <1>1, <1>2, WorkstationAssumption DEF LocksFit, Inside
<1>8. RotationStops' /\ WorkFits'
  BY <1>1, <1>3 DEF RotationStops, WorkFits
<1>9. QED
  BY <1>4, <1>5, <1>6, <1>7, <1>8

(* It ends: nothing works, the epoch is revoked, and the thread that       *)
(* waited for this is authorised for the next or leaves.                   *)
LEMMA RotationDone ==
  ASSUME BrokerInvariant, RotationEnds
  PROVE  BrokerInvariant'
<1> USE DEF BrokerInvariant
<1>1. /\ rot.step = "streams" /\ rot.left = {} /\ glock = NULL /\ rot.by # NULL
      /\ rot' = NoRotation /\ NoRotation.by = NULL /\ NoRotation.left = {}
      /\ NoRotation.step = "none" /\ UNCHANGED <<gateway, glock, approved, proc>>
  BY DEF RotationEnds, LocksFit, NoRotation
<1>2. WorkOf = {} /\ ActiveStreams = {} /\ Running = {}
  BY <1>1 DEF RotationStops, WorkOf
<1>3. /\ auth.epoch \in Nat /\ auth.pin \in Nat /\ auth.revoked \in Nat /\ broker.epoch \in Nat
      /\ gateway.no \in 0 .. MaxGateways /\ MaxGateways \in Nat
      /\ auth.epoch = auth.revoked + 1 /\ 0 < auth.epoch /\ auth.epoch < MaxGateways
      /\ broker.epoch = auth.epoch \/ broker.epoch + 1 = auth.epoch
      /\ auth.epoch <= auth.pin /\ auth.pin <= gateway.no
      /\ gateway.alive => auth.pin < gateway.no
  BY <1>1, WorkstationAssumption DEF EpochsFit, PinAlive, TypeOK, Number, Broker
<1>4. broker.epoch + 1 \in Number /\ auth.epoch + 1 \in Number
  BY <1>3 DEF Number
<1>5. /\ broker' \in Broker
      /\ broker'.epoch = broker.epoch + 1 /\ broker'.slots = broker.slots
      /\ broker'.lost = broker.lost
  BY <1>4 DEF RotationEnds, TypeOK, Broker
<1>6. /\ auth' \in [pin : Number, epoch : Number, revoked : Number, monitor : BOOLEAN]
      /\ auth'.revoked = auth.epoch /\ conn' \in [Conn -> Thread]
      /\ \/ /\ auth'.pin = auth.pin /\ auth'.epoch = auth.epoch
            /\ \A d \in Conn : \/ conn'[d] = conn[d] /\ rot.by # d
                               \/ rot.by = d /\ conn'[d].pc = "idle"
         \/ \E c \in Conn :
              /\ rot.by = c /\ Valid(c)
              /\ auth'.pin = conn[c].gw /\ auth'.epoch = auth.epoch + 1
              /\ conn'[c].pc = "authorised" /\ conn'[c].epoch = auth.epoch + 1
              /\ conn'[c].gw = conn[c].gw
              /\ \A d \in Conn \ {c} : conn'[d] = conn[d]
  <2>1. CASE rot.by = "monitor"
    BY <2>1, WorkstationAssumption DEF RotationEnds, TypeOK
  <2>2. ASSUME NEW c \in Conn, rot.by = c, Valid(c)
        PROVE  <1>6!1 /\ <1>6!2 /\ <1>6!3
    <3>1. /\ auth' = [pin |-> conn[c].gw, epoch |-> auth.epoch + 1, revoked |-> auth.epoch,
                      monitor |-> TRUE]
          /\ Authorised(c, auth.epoch + 1)
      BY <2>2, WorkstationAssumption DEF RotationEnds
    <3>2. conn[c].gw \in Number /\ auth.epoch \in Number
      BY DEF TypeOK, Thread
    <3>3. QED
      BY <1>4, <2>2, <3>1, <3>2, AuthorisedGoes DEF TypeOK
  <2>3. ASSUME NEW c \in Conn, rot.by = c, ~Valid(c)
        PROVE  <1>6!1 /\ <1>6!2 /\ <1>6!3
    <3>1. auth' = [auth EXCEPT !.revoked = auth.epoch] /\ Leave(c)
      BY <2>3, WorkstationAssumption DEF RotationEnds
    <3>2. QED
      BY <2>3, <3>1, Leaves DEF TypeOK
  <2>4. QED
    BY <1>1, <2>1, <2>2, <2>3 DEF TypeOK
<1>7. ActiveStreams' = ActiveStreams /\ Sessions' = Sessions /\ Running' = Running /\ WorkOf' = WorkOf
  <2>1. \A d \in Conn : rot.by = d => conn[d].pc = "rotating"
    BY DEF LocksFit
  <2>2. QED
    BY <1>1, <1>6, <2>1, SameWork DEF Stream
<1>8. TypeOK' /\ SlotsBalanced'
  <2>1. NoRotation \in [by : Conn \cup {"monitor", NULL}, left : SUBSET (Proc \cup Conn),
                        step : {"none", "closing", "processes", "streams"}]
    BY DEF NoRotation
  <2>2. QED
    BY <1>1, <1>5, <1>6, <1>7, <2>1, Neither DEF TypeOK
<1>9. EpochsFit'
  <2>1. CASE auth'.pin = auth.pin /\ auth'.epoch = auth.epoch
    BY <1>1, <1>3, <1>5, <1>6, <2>1 DEF EpochsFit, PinAlive
  <2>2. CASE \E c \in Conn : Valid(c) /\ auth'.pin = conn[c].gw /\ auth'.epoch = auth.epoch + 1
    <3>1. auth'.pin = gateway.no /\ gateway.alive
      BY <2>2 DEF Valid
    <3>2. QED
      BY <1>1, <1>3, <1>5, <1>6, <2>2, <3>1 DEF EpochsFit, PinAlive
  <2>3. QED
    BY <1>6, <2>1, <2>2
<1>10. RequestsFit'
  <2>1. ASSUME NEW d \in Conn, conn[d].pc \in {"authorised", "active"}
        PROVE  /\ 0 < conn[d].epoch /\ conn[d].epoch <= auth.epoch /\ conn[d].epoch \in Nat
    BY <2>1 DEF RequestsFit, TypeOK, Thread, Number
  <2>2. QED
    BY <1>3, <1>6, <2>1 DEF RequestsFit
<1>11. LocksFit'
  BY <1>1, <1>6, WorkstationAssumption DEF LocksFit, Inside
<1>12. RotationStops' /\ WorkFits'
  BY <1>1, <1>2, <1>7 DEF RotationStops, WorkFits
<1>13. QED
  BY <1>8, <1>9, <1>10, <1>11, <1>12

(* A thread becomes active for its owner, and may be the first.            *)
LEMMA ThreadActivated ==
  ASSUME BrokerInvariant, NEW c \in Conn, Activate(c)
  PROVE  BrokerInvariant'
<1> USE DEF BrokerInvariant
<1>1. /\ conn[c].pc = "authorised" /\ UNCHANGED <<gateway, auth, rot, glock, approved, proc>>
      /\ broker' \in Broker
      /\ broker'.slots = broker.slots /\ broker'.lost = broker.lost
      /\ broker'.rotating = broker.rotating
      /\ \/ broker'.epoch = broker.epoch
         \/ broker'.epoch = 1 /\ broker.epoch = 0 /\ conn[c].epoch = 1
  BY WorkstationAssumption DEF Activate, TypeOK, Broker, Number
<1>2. /\ conn' \in [Conn -> Thread]
      /\ \A d \in Conn \ {c} : conn'[d] = conn[d]
      /\ \/ conn'[c].pc = "idle"
         \/ /\ conn'[c].pc = "active" /\ conn'[c].owner # NULL
            /\ conn'[c].epoch = conn[c].epoch /\ conn'[c].gw = conn[c].gw
  <2>1. CASE Leave(c)
    BY <2>1, Leaves DEF TypeOK
  <2>2. ASSUME NEW o \in Owner, conn' = [conn EXCEPT ![c].pc = "active", ![c].owner = o]
        PROVE  <1>2!1 /\ <1>2!2 /\ <1>2!3
    <3> DEFINE new == [conn[c] EXCEPT !.pc = "active", !.owner = o]
    <3>1. /\ new \in Thread /\ new.pc = "active" /\ new.owner = o
          /\ new.epoch = conn[c].epoch /\ new.gw = conn[c].gw
      <4>1. conn[c] \in Thread /\ "active" \in PC
        BY DEF TypeOK, PC
      <4>2. QED
        BY <4>1 DEF Thread
    <3>2. conn' = [conn EXCEPT ![c] = new]
      BY <2>2
    <3>3. QED
      BY <3>1, <3>2, OneThread, WorkstationAssumption DEF TypeOK
  <2>3. QED
    BY <2>1, <2>2 DEF Activate
<1>3. ActiveStreams' = ActiveStreams /\ Sessions' = Sessions /\ Running' = Running /\ WorkOf' = WorkOf
  BY <1>1, <1>2, SameWork DEF Stream
<1>4. TypeOK' /\ SlotsBalanced'
  BY <1>1, <1>2, <1>3, Neither DEF TypeOK
<1>5. broker.epoch = 0 => WorkOf = {}
  BY DEF WorkFits
<1>6. 0 < conn[c].epoch /\ conn[c].epoch <= auth.epoch
  BY <1>1 DEF RequestsFit
<1>7. EpochsFit'
  BY <1>1, <1>6 DEF EpochsFit, PinAlive, TypeOK, Number, Thread
<1>8. RequestsFit'
  BY <1>1, <1>2 DEF RequestsFit
<1>9. LocksFit'
  BY <1>1, <1>2 DEF LocksFit, Inside
<1>10. RotationStops'
  BY <1>1, <1>2, <1>3 DEF RotationStops, ActiveStreams, Stream
<1>11. WorkFits'
  BY <1>1, <1>3, <1>5 DEF WorkFits
<1>12. QED
  BY <1>4, <1>7, <1>8, <1>9, <1>10, <1>11

-----------------------------------------------------------------------------
(* The theorems *)

LEMMA BrokerStarts == Init => BrokerInvariant
<1> SUFFICES ASSUME Init PROVE BrokerInvariant
  OBVIOUS
<1> USE DEF Init
<1>1. \A c \in Conn : conn[c].pc = "idle"
  BY DEF Away
<1>2. Sessions = {} /\ ActiveStreams = {} /\ Running = {} /\ WorkOf = {}
  <2>1. Sessions = {} /\ ActiveStreams = {} /\ Running = {}
    BY <1>1 DEF Sessions, ActiveStreams, Stream, Running
  <2>2. QED
    BY <2>1 DEF WorkOf
<1>3. TypeOK
  BY AwayIsThread, WorkstationAssumption DEF TypeOK, Broker, NoRotation, Number
<1>4. SlotsBalanced
  <2>1. Cardinality(Sessions) = 0 /\ Cardinality(ActiveStreams) = 0
    BY <1>2, FS_EmptySet
  <2>2. broker.slots = MaxOperations /\ broker.lost = 0 /\ MaxOperations \in Nat
    BY WorkstationAssumption
  <2> HIDE DEF Init
  <2>3. QED
    BY <2>1, <2>2 DEF SlotsBalanced, Sessions
<1>5. EpochsFit
  BY WorkstationAssumption DEF EpochsFit, PinAlive, NoRotation
<1>6. RequestsFit /\ LocksFit
  BY <1>1, WorkstationAssumption DEF RequestsFit, LocksFit, NoRotation, Inside
<1>7. RotationStops /\ WorkFits
  BY <1>2 DEF RotationStops, WorkFits, NoRotation
<1>8. QED
  BY <1>3, <1>4, <1>5, <1>6, <1>7 DEF BrokerInvariant

LEMMA BrokerGoesOn == BrokerInvariant /\ [Next]_vars => BrokerInvariant'
<1> SUFFICES ASSUME BrokerInvariant, [Next]_vars PROVE BrokerInvariant'
  OBVIOUS
<1>1. CASE UNCHANGED vars
  <2>1. ActiveStreams' = ActiveStreams /\ Sessions' = Sessions /\ Running' = Running /\ WorkOf' = WorkOf
    BY <1>1, SameWork DEF vars
  <2>2. QED
    BY <1>1, <2>1, Neither DEF vars, BrokerInvariant, TypeOK, EpochsFit, PinAlive, RequestsFit,
                               LocksFit, RotationStops, WorkFits
<1>2. CASE GatewayDies \/ GatewayStarts
  BY <1>2, GatewayStep
<1>3. CASE Monitor
  BY <1>3, RotationBegins
<1>4. CASE Rotation
  BY <1>4, RotationGoesOn, RotationGivesUp, RotationDone DEF Rotation
<1>5. CASE \/ \E k \in Token : Dropped(k)
           \/ \E p \in Proc : Deadline(p) \/ Exits(p) \/ Released(p)
  BY <1>5, ThingsEnd
<1>6. ASSUME NEW c \in Conn, Connect(c) \/ Authorises(c) \/ Activate(c)
      PROVE  BrokerInvariant'
  BY <1>6, GatewaysKnown, NewGatewayPinned, RotationBegins, ThreadActivated DEF Authorises
<1>7. ASSUME NEW c \in Conn, Request(c)
      PROVE  BrokerInvariant'
  BY <1>7, RequestsEnd, RequestsStart, OwnersStop, ThreadsGoOn DEF Request
<1>8. ASSUME NEW c \in Conn,
             \/ InsideEnds(c) \/ CommitEnds(c) \/ Finish(c) \/ StreamEnds(c)
             \/ StreamWrites(c) \/ WriteEnds(c)
             \/ Commit(c) \/ Downloaded(c) \/ StreamFails(c)
      PROVE  BrokerInvariant'
  BY <1>8, ThreadsGoOn
<1>9. QED
  BY <1>1, <1>2, <1>3, <1>4, <1>5, <1>6, <1>7, <1>8 DEF Next, Serve

(* Whatever threads, processes, gateways and rotations do, and in whatever *)
(* order, the epochs of the broker and the authorizer fit, both locks      *)
(* belong to the thread that is inside, a rotation waits for all that      *)
(* works, and no work is left of a gateway that is not the pinned one.     *)
THEOREM BrokerIsConsistent == Spec => []BrokerInvariant
<1>1. Init => BrokerInvariant
  BY BrokerStarts
<1>2. BrokerInvariant /\ [Next]_vars => BrokerInvariant'
  BY BrokerGoesOn
<1>3. QED
  BY <1>1, <1>2, PTL DEF Spec

(* operation_slots: every slot is free, or counted by exactly one process  *)
(* or stream, however it started and ended, or was lost with a process     *)
(* whose input broke.                                                      *)
THEOREM SlotsAreCounted == Spec => []SlotsBalanced
<1>1. BrokerInvariant => SlotsBalanced
  BY DEF BrokerInvariant
<1>2. QED
  BY <1>1, BrokerIsConsistent, PTL

(* While a gateway's epoch is accepted, nothing that runs, is transferred  *)
(* or is approved came from another gateway: not what was started before   *)
(* the rotation, and not what the old gateway had asked for by then.       *)
THEOREM OldWorkIsStopped == Spec => []OldWorkStops
<1>1. BrokerInvariant => OldWorkStops
  <2> SUFFICES ASSUME BrokerInvariant, Accepted
               PROVE  /\ \A p \in Running : proc[p].of.gw = auth.pin
                      /\ \A c \in ActiveStreams : conn[c].gw = auth.pin
                      /\ \A k \in Token : approved[k] # NULL => approved[k].gw = auth.pin
    BY DEF OldWorkStops
  <2>1. WorkOf \subseteq {auth.pin}
    BY DEF BrokerInvariant, WorkFits, Accepted
  <2>2. QED
    BY <2>1 DEF WorkOf
<1>2. QED
  BY <1>1, BrokerIsConsistent, PTL

(* No rotation starts or ends, and no epoch is adopted, between the end of *)
(* an upload and the publication of its file.                              *)
THEOREM CommitsAreWhole == Spec => NoRotationAcrossCommit
<1> DEFINE Whole == (broker'.rotating # broker.rotating \/ broker'.epoch # broker.epoch) =>
                      \A c \in Conn : conn[c].pc # "committing" /\ conn'[c].pc # "committing"
<1>1. BrokerInvariant /\ [Next]_vars => [Whole]_vars
  <2> SUFFICES ASSUME BrokerInvariant, BrokerInvariant', [Next]_vars,
                      broker'.rotating # broker.rotating \/ broker'.epoch # broker.epoch
               PROVE  \A c \in Conn : conn[c].pc # "committing" /\ conn'[c].pc # "committing"
    BY BrokerGoesOn
  <2>1. RotationCloses \/ RotationEnds \/ \E c \in Conn : Activate(c)
    <3>1. /\ broker' # broker /\ ~Take /\ ~GiveBack
          /\ broker' # [broker EXCEPT !.lost = broker.lost + 1]
      BY DEF Take, GiveBack, BrokerInvariant, TypeOK, Broker
    <3> HIDE DEF Take, GiveBack
    <3>2. ~GatewayDies /\ ~GatewayStarts /\ ~Monitor /\ vars' # vars
      BY <3>1 DEF vars, GatewayDies, GatewayStarts, Monitor
    <3>3. Rotation => RotationCloses \/ RotationEnds
      BY <3>1 DEF Rotation, RotationCancels, RotationFails, RotationKills, RotationDrains
    <3>4. /\ \A k \in Token : ~Dropped(k)
          /\ \A p \in Proc : ~Deadline(p) /\ ~Exits(p) /\ ~Released(p)
      BY <3>1 DEF Dropped, Deadline, Exits, Released
    <3>5. ASSUME NEW c \in Conn
          PROVE  ~Connect(c) /\ ~Authorises(c) /\ ~Request(c)
      <4>1. ~Connect(c) /\ ~Authorises(c)
        BY <3>1 DEF Connect, Authorises, AuthKnown, AuthNew, AuthRefused, AuthRotates
      <4>2. ~Request(c)
        BY <3>1 DEF Request, Refused, Reserve, CancelReservation, Execute, NotStarted, Preflight,
                    Write, RevokeOwner, StreamStarts, Kill, CancelStream
      <4>3. QED
        BY <4>1, <4>2
    <3>6. ASSUME NEW c \in Conn
          PROVE  /\ ~InsideEnds(c) /\ ~StreamWrites(c) /\ ~WriteEnds(c) /\ ~Commit(c)
                 /\ ~CommitEnds(c) /\ ~Downloaded(c) /\ ~Finish(c) /\ ~StreamFails(c)
                 /\ ~StreamEnds(c)
      BY <3>1 DEF InsideEnds, StreamWrites, WriteEnds, Commit, CommitEnds, Downloaded, Finish,
                  StreamFails, StreamEnds
    <3>7. QED
      BY <3>2, <3>3, <3>4, <3>5, <3>6 DEF Next, Serve
  <2>2. glock = NULL /\ glock' = NULL
    BY <2>1 DEF RotationCloses, RotationEnds, Activate
  <2>3. QED
    BY <2>2, WorkstationAssumption DEF BrokerInvariant, LocksFit, Inside
<1>2. QED
  BY <1>1, BrokerIsConsistent, PTL DEF Spec, NoRotationAcrossCommit
=============================================================================
