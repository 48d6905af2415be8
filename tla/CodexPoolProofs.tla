--------------------------- MODULE CodexPoolProofs ---------------------------
(***************************************************************************)
(* Proofs about CodexPool, for every number of slots and requests, every   *)
(* set of accounts and every choice of events.                             *)
(***************************************************************************)
EXTENDS CodexPool, FiniteSetTheorems, WellFoundedInduction, TLAPS

(* The first slot of a set.                                                *)
LEMMA FirstSlot ==
  ASSUME NEW S \in SUBSET Slot, S # {}
  PROVE  Min(S) \in S
<1>1. S \subseteq Nat
  BY PoolAssumption DEF Slot
<1> DEFINE Less == OpToRel(<, Nat)
<1>2. IsWellFoundedOn(Less, Nat)
  BY NatLessThanWellFounded
<1>3. \A x, y \in Nat : y < x => <<y, x>> \in Less
  BY DEF OpToRel
<1> HIDE DEF Less
<1>4. PICK x \in S : \A y \in S : <<y, x>> \notin Less
  BY <1>1, <1>2, WFMin
<1>5. ASSUME NEW y \in S PROVE x <= y
  <2>1. x \in Nat /\ y \in Nat /\ <<y, x>> \notin Less
    BY <1>1, <1>4
  <2>2. ~(y < x)
    BY <1>3, <2>1
  <2>3. QED
    BY <2>1, <2>2
<1>6. QED
  BY <1>5 DEF Min

-----------------------------------------------------------------------------
(***************************************************************************)
(* Requests.  What one of them knows, given the credentials c.             *)
(***************************************************************************)
Fits(q, c) ==
  /\ q.pc \in Busy \cup {"loading"} => q.slot # NULL /\ q.acct # NULL
  /\ q.live => q.pc \in Busy /\ c[q.slot].auth = q.acct
  /\ \A s \in q.cand : c[s].auth # NULL
  /\ q.pc \notin Selection => q.cand = {}
  /\ q.pc \in {"scanning", "loading"} =>
       \A s \in q.cand : q.slot # NULL /\ s <= q.slot /\ (q.pc = "loading" => s < q.slot)
  /\ "expire" \notin Events => q.pc # "loading"

AllFit == req \in [Req -> Request] /\ \A r \in Req : Fits(req[r], cred)

(* Outside of S no credential object is dropped or replaced.               *)
Keeps(S) == \A s \in Slot \ S : cred[s].auth # NULL => cred'[s].auth = cred[s].auth

LEMMA ReplacedIs ==
  ASSUME NEW q \in [Req -> Request], NEW S
  PROVE  /\ Replaced(q, S) \in [Req -> Request]
         /\ \A r \in Req :
              LET n == Replaced(q, S)[r] IN
                /\ n.pc = q[r].pc /\ n.slot = q[r].slot /\ n.acct = q[r].acct
                /\ n.skipS = q[r].skipS /\ n.skipA = q[r].skipA
                /\ n.again = q[r].again /\ n.late = q[r].late
                /\ n.cand = q[r].cand \ S /\ n.live = (q[r].live /\ q[r].slot \notin S)
<1>1. \A r \in Req : Replaced(q, S)[r] = [q[r] EXCEPT !.cand = @ \ S,
                                                     !.live = @ /\ q[r].slot \notin S]
  BY DEF Replaced
<1>2. \A r \in Req : q[r] \in Request
  OBVIOUS
<1>3. \A r \in Req : [q[r] EXCEPT !.cand = @ \ S, !.live = @ /\ q[r].slot \notin S] \in Request
  BY <1>2 DEF Request
<1>4. Replaced(q, S) \in [Req -> Request]
  BY <1>3 DEF Replaced
<1>5. ASSUME NEW r \in Req
      PROVE  LET n == Replaced(q, S)[r] IN
               /\ n.pc = q[r].pc /\ n.slot = q[r].slot /\ n.acct = q[r].acct
               /\ n.skipS = q[r].skipS /\ n.skipA = q[r].skipA
               /\ n.again = q[r].again /\ n.late = q[r].late
               /\ n.cand = q[r].cand \ S /\ n.live = (q[r].live /\ q[r].slot \notin S)
  <2> DEFINE x == q[r]
  <2>1. Replaced(q, S)[r] = [x EXCEPT !.cand = x.cand \ S, !.live = x.live /\ x.slot \notin S]
    BY <1>1
  <2>2. x \in Request
    OBVIOUS
  <2> HIDE DEF x
  <2>3. LET n == [x EXCEPT !.cand = x.cand \ S, !.live = x.live /\ x.slot \notin S] IN
          /\ n.pc = x.pc /\ n.slot = x.slot /\ n.acct = x.acct
          /\ n.skipS = x.skipS /\ n.skipA = x.skipA
          /\ n.again = x.again /\ n.late = x.late
          /\ n.cand = x.cand \ S /\ n.live = (x.live /\ x.slot \notin S)
    BY <2>2 DEF Request
  <2>4. QED
    BY <2>1, <2>3 DEF x
<1>6. QED
  BY <1>4, <1>5

LEMMA ReplacedFits ==
  ASSUME NEW S, Keeps(S), NEW q \in [Req -> Request], NEW r \in Req, Fits(q[r], cred)
  PROVE  Fits(Replaced(q, S)[r], cred')
<1>1. q[r] \in Request
  OBVIOUS
<1>2. q[r].live => q[r].slot \in Slot /\ q[r].acct # NULL
  BY <1>1 DEF Fits, Request
<1>3. q[r].cand \subseteq Slot
  BY <1>1 DEF Request
<1> DEFINE n == Replaced(q, S)[r]
<1>4. /\ n.pc = q[r].pc /\ n.slot = q[r].slot /\ n.acct = q[r].acct
      /\ n.cand = q[r].cand \ S /\ n.live = (q[r].live /\ q[r].slot \notin S)
  BY ReplacedIs
<1> HIDE DEF n
<1>5. n.live => n.pc \in Busy /\ cred'[n.slot].auth = n.acct
  BY <1>2, <1>4 DEF Keeps, Fits
<1>6. \A s \in n.cand : cred'[s].auth # NULL
  BY <1>3, <1>4 DEF Keeps, Fits
<1>7. Fits(n, cred')
  BY <1>4, <1>5, <1>6 DEF Fits
<1>8. QED
  BY <1>7 DEF n

LEMMA ToFits ==
  ASSUME AllFit, NEW r \in Req, NEW S, Keeps(S), NEW new \in Request, Fits(new, cred'),
         req' = [Replaced(req, S) EXCEPT ![r] = new]
  PROVE  AllFit'
<1>1. Replaced(req, S) \in [Req -> Request] /\ \A q \in Req : Fits(Replaced(req, S)[q], cred')
  BY ReplacedIs, ReplacedFits DEF AllFit
<1> DEFINE R == Replaced(req, S)
<1>2. R \in [Req -> Request] /\ req' = [R EXCEPT ![r] = new]
  BY <1>1
<1> HIDE DEF R
<1>3. req' \in [Req -> Request] /\ \A q \in Req : req'[q] = IF q = r THEN new ELSE R[q]
  BY <1>2
<1>4. QED
  BY <1>1, <1>3 DEF AllFit, R

LEMMA OneFits ==
  ASSUME AllFit, NEW r \in Req, Keeps({}), NEW new \in Request, Fits(new, cred'),
         req' = [req EXCEPT ![r] = new]
  PROVE  AllFit'
<1>1. \A q \in Req : Fits(req[q], cred')
  <2>1. \A q \in Req : req[q] \in Request
    BY DEF AllFit
  <2>2. QED
    BY <2>1 DEF AllFit, Fits, Keeps, Request
<1>2. \A q \in Req : req'[q] = IF q = r THEN new ELSE req[q]
  BY DEF AllFit
<1>3. req' \in [Req -> Request]
  BY DEF AllFit
<1>4. QED
  BY <1>1, <1>2, <1>3 DEF AllFit

-----------------------------------------------------------------------------
(***************************************************************************)
(* Slots.                                                                  *)
(***************************************************************************)
(* A cooldown fits to a credential, while none expires.                    *)
Cooled(c, g) ==
  "expire" \notin Events =>
    /\ c.mode \in {"good", "failed"}
    /\ c.mode = "failed" => c.auth = NULL
    /\ g.limited # NULL => g.limited = c.auth \/ c.mode = "failed"

SlotsFit ==
  /\ cred \in [Slot -> Cred] /\ gate \in [Slot -> Gate]
  /\ \A s \in Slot : Cooled(cred[s], gate[s])

(* load_auth() of some slots: only those whose source changed or that had  *)
(* to be refreshed lose the credential object they had.                    *)
LEMMA LoadFits ==
  ASSUME SlotsFit, NEW S \in SUBSET Slot, NEW T \in SUBSET S, NEW G \in SUBSET Stale(T),
         NEW bad \in {"backoff", "failed"}, Load(S, T, G, bad)
  PROVE  /\ SlotsFit' /\ Keeps(Changed(S) \cup Stale(T))
         /\ "expire" \notin Events => Stale(T) = {}
<1>1. \A s \in Slot : cred[s] \in Cred /\ gate[s] \in Gate /\ Cooled(cred[s], gate[s])
  BY DEF SlotsFit
<1>2. "expire" \notin Events => Stale(T) = {}
  BY <1>1 DEF Stale, Cooled
<1>3. ASSUME NEW s \in Slot
      PROVE  /\ cred'[s] \in Cred /\ gate'[s] \in Gate
             /\ s \notin Changed(S) \cup Stale(T) /\ cred[s].auth # NULL
                  => cred'[s].auth = cred[s].auth
             /\ Cooled(cred'[s], gate'[s])
  <2>1. /\ cred'[s] = IF s \in G THEN [cred[s] EXCEPT !.auth = cred[s].file, !.mode = "good"]
                      ELSE IF s \in Stale(T) THEN [cred[s] EXCEPT !.auth = NULL, !.mode = bad]
                      ELSE IF s \in T THEN Loaded(Seen(s))
                      ELSE IF s \in S THEN Seen(s) ELSE cred[s]
        /\ gate'[s] = IF s \in Changed(S) THEN [gate[s] EXCEPT !.limited = NULL] ELSE gate[s]
    BY DEF Load, Uncooled
  <2>2. cred[s] \in Cred /\ gate[s] \in Gate /\ Cooled(cred[s], gate[s])
    BY <1>1
  <2>3. gate'[s] \in Gate /\ gate'[s].limited \in {NULL, gate[s].limited}
        /\ (s \in Changed(S) => gate'[s].limited = NULL)
    BY <2>1, <2>2 DEF Gate
  <2>4. CASE s \in Stale(T)
    <3>1. cred'[s] \in Cred
      BY <2>1, <2>2, <2>4 DEF Cred
    <3>2. "expire" \in Events
      BY <1>2, <2>4
    <3>3. QED
      BY <2>3, <2>4, <3>1, <3>2 DEF Cooled
  <2>5. CASE s \in T \ Stale(T)
    <3>1. cred'[s] = Loaded(Seen(s))
      BY <2>1, <2>5
    <3>2. CASE cred[s].changed
      <4>1. Seen(s) \in Cred /\ Seen(s).mode = "good"
        BY <2>2, <3>2 DEF Seen, Cred
      <4>2. \A c \in Cred : Loaded(c) \in Cred /\ Loaded(c).mode = c.mode
        BY DEF Loaded, Cred
      <4>3. cred'[s] \in Cred /\ cred'[s].mode = "good"
        BY <3>1, <4>1, <4>2
      <4>4. s \in Changed(S)
        BY <2>5, <3>2 DEF Changed
      <4>5. QED
        BY <2>3, <4>3, <4>4 DEF Cooled
    <3>3. CASE ~cred[s].changed
      <4>1. /\ cred'[s] \in Cred /\ cred'[s].mode = cred[s].mode
            /\ cred[s].auth # NULL => cred'[s].auth = cred[s].auth
            /\ cred[s].mode = "failed" => cred'[s].auth = cred[s].auth
        BY <2>2, <3>1, <3>3 DEF Loaded, Seen, Cred
      <4>2. QED
        BY <2>2, <2>3, <4>1, PoolAssumption DEF Cooled, Gate
    <3>4. QED
      BY <2>2, <3>2, <3>3 DEF Cred
  <2>6. CASE s \in S \ T
    <3>1. cred'[s] = Seen(s)
      BY <2>1, <2>6 DEF Stale
    <3>2. CASE cred[s].changed
      <4>1. cred'[s] \in Cred /\ s \in Changed(S) /\ cred'[s].mode = "good"
        BY <2>2, <2>6, <3>1, <3>2 DEF Seen, Cred, Changed
      <4>2. QED
        BY <2>3, <4>1 DEF Cooled
    <3>3. CASE ~cred[s].changed
      <4>1. cred'[s] = cred[s]
        BY <3>1, <3>3 DEF Seen
      <4>2. QED
        BY <2>2, <2>3, <4>1 DEF Cooled
    <3>4. QED
      BY <2>2, <3>2, <3>3 DEF Cred
  <2>7. CASE s \notin S
    <3>1. cred'[s] = cred[s]
      BY <2>1, <2>7 DEF Stale
    <3>2. QED
      BY <2>2, <2>3, <3>1 DEF Cooled
  <2>8. QED
    BY <2>4, <2>5, <2>6, <2>7
<1>4. SlotsFit'
  <2>1. cred' = [s \in Slot |-> cred'[s]] /\ gate' = [s \in Slot |-> gate'[s]]
    BY DEF Load, Uncooled
  <2>2. QED
    BY <1>3, <2>1 DEF SlotsFit
<1>5. QED
  BY <1>2, <1>3, <1>4 DEF Keeps

LEMMA SurveyFits ==
  ASSUME SlotsFit, Survey
  PROVE  SlotsFit' /\ Keeps(Renewed)
<1>1. /\ Surveyed \in SUBSET Slot /\ LoadedOf(Surveyed) \in SUBSET Surveyed
  BY DEF Surveyed, LookedAt, LoadedOf
<1>2. QED
  BY <1>1, LoadFits DEF Survey, Renewed

-----------------------------------------------------------------------------
(***************************************************************************)
(* Counters.                                                               *)
(***************************************************************************)
Held(s) == {r \in Req : req[r].pc \in Busy /\ req[r].slot = s}

Balanced == inFlight \in [Slot -> Nat] /\ InFlightBalanced

LEMMA HeldFinite == \A s : IsFiniteSet(Held(s)) /\ Cardinality(Held(s)) \in Nat
<1>1. \A s : Held(s) \in SUBSET Req
  BY DEF Held
<1>2. QED
  BY <1>1, PoolAssumption, FS_Subset, FS_CardinalityType

(* Nobody takes or gives back a slot.                                      *)
Quiet ==
  /\ inFlight' = inFlight
  /\ \A r \in Req : /\ req'[r].pc \in Busy <=> req[r].pc \in Busy
                    /\ req[r].pc \in Busy => req'[r].slot = req[r].slot

LEMMA QuietBalanced == Balanced /\ Quiet => Balanced'
<1> SUFFICES ASSUME Balanced, Quiet PROVE Balanced'
  OBVIOUS
<1>1. \A s \in Slot : {r \in Req : req'[r].pc \in Busy /\ req'[r].slot = s}
                      = {r \in Req : req[r].pc \in Busy /\ req[r].slot = s}
  BY DEF Quiet
<1>2. QED
  BY <1>1 DEF Balanced, Quiet, InFlightBalanced

(* A request takes slot s.                                                 *)
LEMMA TakenBalanced ==
  ASSUME Balanced, NEW r \in Req, req[r].pc \notin Busy, NEW s \in Slot,
         req'[r].pc \in Busy, req'[r].slot = s,
         \A q \in Req : q # r => req'[q].pc = req[q].pc /\ req'[q].slot = req[q].slot,
         inFlight' = [inFlight EXCEPT ![s] = @ + 1]
  PROVE  Balanced'
<1> DEFINE Now(t) == {q \in Req : req'[q].pc \in Busy /\ req'[q].slot = t}
<1>1. \A t \in Slot : Now(t) = IF t = s THEN Held(t) \cup {r} ELSE Held(t)
  BY DEF Held
<1>2. r \notin Held(s)
  BY DEF Held
<1>3. \A t \in Slot : inFlight[t] = Cardinality(Held(t))
  BY DEF Balanced, InFlightBalanced, Held
<1> HIDE DEF Now
<1>4. \A t \in Slot : inFlight'[t] = Cardinality(Now(t))
  BY <1>1, <1>2, <1>3, HeldFinite, FS_AddElement DEF Balanced
<1>5. QED
  BY <1>4 DEF Now, Balanced, InFlightBalanced

(* A request gives back its slot.                                          *)
LEMMA GivenBackBalanced ==
  ASSUME Balanced, NEW r \in Req, req[r].pc \in Busy, req[r].slot \in Slot,
         req'[r].pc \notin Busy,
         \A q \in Req : q # r => req'[q].pc = req[q].pc /\ req'[q].slot = req[q].slot,
         inFlight' = Released(req[r].slot)
  PROVE  Balanced'
<1> DEFINE Now(t) == {q \in Req : req'[q].pc \in Busy /\ req'[q].slot = t}
           s == req[r].slot
<1>1. \A t \in Slot : Now(t) = IF t = s THEN Held(t) \ {r} ELSE Held(t)
  BY DEF Held
<1>2. r \in Held(s)
  BY DEF Held
<1>3. \A t \in Slot : inFlight[t] = Cardinality(Held(t))
  BY DEF Balanced, InFlightBalanced, Held
<1>4. s \in Slot /\ inFlight' = [inFlight EXCEPT ![s] = IF @ > 0 THEN @ - 1 ELSE 0]
  BY DEF Released
<1> HIDE DEF Now, s
<1>5. \A t \in Slot : Cardinality(Now(t)) = IF t = s THEN inFlight[t] - 1 ELSE inFlight[t]
  BY <1>1, <1>2, <1>3, HeldFinite, FS_RemoveElement
<1>6. inFlight[s] > 0
  <2>1. Held(s) # {} /\ IsFiniteSet(Held(s)) /\ Cardinality(Held(s)) \in Nat
    BY <1>2, HeldFinite
  <2>2. QED
    BY <1>3, <1>4, <2>1, FS_EmptySet
<1>7. \A t \in Slot : inFlight'[t] = Cardinality(Now(t))
  BY <1>4, <1>5, <1>6 DEF Balanced
<1>8. inFlight' \in [Slot -> Nat]
  BY <1>4, <1>6 DEF Balanced
<1>9. QED
  BY <1>7, <1>8 DEF Now, Balanced, InFlightBalanced

-----------------------------------------------------------------------------
(***************************************************************************)
(* The invariant, one action after another.                                *)
(***************************************************************************)
Others ==
  /\ reading \in [Account -> {"ok", "full", "stale"}]
  /\ usage \in [task : {"idle", "discovering", "fetching"}, slots : [Account -> SUBSET Slot]]
  /\ op \in [slot : Slot, acct : Account \cup {NULL}, enable : BOOLEAN] \cup {NULL}

Inv == AllFit /\ SlotsFit /\ Balanced /\ Others

LEMMA InvIsInvariant == PoolInvariant <=> Inv
<1>1. TypeOK <=> /\ req \in [Req -> Request] /\ cred \in [Slot -> Cred] /\ gate \in [Slot -> Gate]
                 /\ inFlight \in [Slot -> Nat] /\ Others
  BY DEF TypeOK, Others
<1> DEFINE Waits(r) == "expire" \notin Events => req[r].pc # "loading"
           Knows(r) ==
             /\ req[r].pc \in Busy \cup {"loading"} => req[r].slot # NULL /\ req[r].acct # NULL
             /\ req[r].live => req[r].pc \in Busy /\ cred[req[r].slot].auth = req[r].acct
             /\ \A s \in req[r].cand : cred[s].auth # NULL
             /\ req[r].pc \notin Selection => req[r].cand = {}
             /\ req[r].pc \in {"scanning", "loading"} =>
                  \A s \in req[r].cand : /\ req[r].slot # NULL /\ s <= req[r].slot
                                         /\ req[r].pc = "loading" => s < req[r].slot
<1>2. \A r \in Req : Fits(req[r], cred) <=> Knows(r) /\ Waits(r)
  <2>1. ASSUME NEW r \in Req PROVE Fits(req[r], cred) <=> Knows(r) /\ Waits(r)
    <3> DEFINE q == req[r]
    <3>1. Fits(q, cred) <=> Knows(r) /\ Waits(r)
      BY Zenon DEF Fits
    <3>2. QED
      BY <3>1
  <2>2. QED
    BY <2>1
<1>3. RequestsFit <=> \A r \in Req : Knows(r)
  BY DEF RequestsFit
<1>4. CooldownsFit <=> (\A r \in Req : Waits(r)) /\ (\A s \in Slot : Cooled(cred[s], gate[s]))
  BY Zenon DEF CooldownsFit, Cooled
<1> HIDE DEF Knows, Waits
<1>5. (\A r \in Req : Fits(req[r], cred)) /\ (\A s \in Slot : Cooled(cred[s], gate[s]))
      <=> RequestsFit /\ CooldownsFit
  BY <1>2, <1>3, <1>4
<1>6. QED
  BY <1>1, <1>5 DEF PoolInvariant, Inv, AllFit, SlotsFit, Balanced

LEMMA InitInv == Init => Inv
<1> SUFFICES ASSUME Init PROVE Inv
  OBVIOUS
<1>1. SlotsFit
  BY PoolAssumption DEF Init, SlotsFit, Cred, Gate, Cooled
<1>2. AllFit
  BY PoolAssumption DEF Init, AllFit, Fits, Fresh, Request, PC, Busy
<1>3. Balanced
  <2>1. \A s \in Slot : {r \in Req : req[r].pc \in Busy /\ req[r].slot = s} = {}
    BY DEF Init, Fresh, Busy
  <2>2. QED
    BY <2>1, FS_EmptySet DEF Init, Balanced, InFlightBalanced
<1>4. Others
  BY DEF Init, Others, NoFetch
<1>5. QED
  BY <1>1, <1>2, <1>3, <1>4 DEF Inv

(* A step of a request that looks at all slots goes on to new.             *)
LEMMA SurveyStep ==
  ASSUME Inv, NEW r \in Req, req[r].pc \notin Busy, Survey,
         NEW new \in Request, new.pc \notin Busy \cup {"loading"}, ~new.live,
         new.cand = {},
         To(r, Renewed, new), inFlight' = inFlight
  PROVE  AllFit' /\ SlotsFit' /\ Balanced'
<1>1. SlotsFit' /\ Keeps(Renewed)
  BY SurveyFits DEF Inv
<1>2. Fits(new, cred')
  BY DEF Fits
<1>3. AllFit'
  BY <1>1, <1>2, ToFits DEF Inv, To
<1>4. Quiet
  <2>1. \A q \in Req : q # r => req'[q].pc = req[q].pc /\ req'[q].slot = req[q].slot
    BY ReplacedIs DEF Inv, AllFit, To
  <2>2. req'[r] = new
    BY ReplacedIs DEF Inv, AllFit, To
  <2>3. QED
    BY <2>1, <2>2 DEF Quiet
<1>5. QED
  BY <1>1, <1>3, <1>4, QuietBalanced DEF Inv

LEMMA Joined == Others /\ (JoinUsage \/ UNCHANGED usage) /\ UNCHANGED <<reading, op>> => Others'
  BY DEF Others, JoinUsage

(* A request whose step takes and gives back no slot.                      *)
LEMMA QuietStep ==
  ASSUME Inv, NEW r \in Req, NEW new \in Request,
         new.pc \in Busy <=> req[r].pc \in Busy,
         req[r].pc \in Busy => new.slot = req[r].slot,
         \/ \E S : To(r, S, new)
         \/ req' = [req EXCEPT ![r] = new],
         inFlight' = inFlight
  PROVE  Balanced'
<1>1. req'[r] = new /\ \A q \in Req : q # r => req'[q].pc = req[q].pc /\ req'[q].slot = req[q].slot
  BY ReplacedIs DEF Inv, AllFit, To
<1>2. Quiet
  BY <1>1 DEF Quiet
<1>3. QED
  BY <1>2, QuietBalanced DEF Inv

LEMMA SurveyedStep ==
  ASSUME Inv, NEW r \in Req,
         Arrive(r) \/ RoundEnds(r) \/ WaitEnds(r) \/ WaitPolls(r)
  PROVE  Inv'
<1>1. req[r] \in Request /\ Fits(req[r], cred)
  BY DEF Inv, AllFit
<1>2. req[r].pc \in {"new", "exhausted", "waiting"}
  BY DEF Arrive, RoundEnds, WaitEnds, WaitPolls
<1>3. req[r].pc \notin Busy /\ ~req[r].live /\ req[r].cand = {}
  BY <1>1, <1>2 DEF Fits, Busy, Selection
<1>4. \E new \in Request : /\ new.pc \notin Busy \cup {"loading"} /\ ~new.live /\ new.cand = {}
                           /\ To(r, Renewed, new)
  <2>1. ASSUME NEW pc \in {"scanning", "probing", "waiting"}
        PROVE  LET new == [req[r] EXCEPT !.pc = pc] IN
                 /\ new \in Request /\ new.pc \notin Busy \cup {"loading"}
                 /\ ~new.live /\ new.cand = {}
    BY <1>1, <1>3 DEF Request, PC, Busy
  <2>2. /\ Fresh \in Request /\ Fresh.pc \notin Busy \cup {"loading"}
        /\ ~Fresh.live /\ Fresh.cand = {}
    BY DEF Fresh, Request, PC, Busy
  <2>3. /\ NewRound(r) \in Request /\ NewRound(r).pc \notin Busy \cup {"loading"}
        /\ ~NewRound(r).live /\ NewRound(r).cand = {}
    BY <1>1, <1>3 DEF NewRound, Request, PC, Busy
  <2>4. CASE Arrive(r)
    BY <2>1, <2>4 DEF Arrive
  <2>5. CASE RoundEnds(r)
    BY <2>1, <2>2, <2>5 DEF RoundEnds
  <2>6. CASE WaitEnds(r)
    BY <2>2, <2>3, <2>6 DEF WaitEnds
  <2>7. CASE WaitPolls(r)
    BY <1>1, <1>2, <1>3, <2>7 DEF WaitPolls, Busy
  <2>8. QED
    BY <2>4, <2>5, <2>6, <2>7
<1>5. Survey /\ inFlight' = inFlight /\ (JoinUsage \/ UNCHANGED usage) /\ UNCHANGED <<reading, op>>
  BY DEF Arrive, RoundEnds, WaitEnds, WaitPolls
<1>6. QED
  BY <1>3, <1>4, <1>5, SurveyStep, Joined DEF Inv

LEMMA ScanStep ==
  ASSUME Inv, NEW r \in Req, Scan(r)
  PROVE  Inv'
<1> DEFINE p == req[r]
           from == IF p.slot = NULL THEN 1 ELSE p.slot + 1
           open == {s \in LookedAt : s >= from /\ s \notin p.skipS}
           stops == Stale(LoadedOf(open))
           passed == {s \in open : \A t \in stops : s < t}
           found == {s \in LoadedOf(passed) : cred'[s].auth # NULL}
           done == [p EXCEPT !.pc = "admitting", !.slot = NULL, !.cand = @ \cup found]
           halted == [p EXCEPT !.pc = "loading", !.slot = Min(stops),
                               !.acct = cred[Min(stops)].file, !.cand = @ \cup found]
<1>1. p \in Request /\ Fits(p, cred) /\ p.pc = "scanning"
  BY DEF Inv, AllFit, Scan
<1>2. passed \in SUBSET Slot /\ LoadedOf(passed) \in SUBSET passed /\ stops \in SUBSET Slot
      /\ found \in SUBSET Slot /\ found \in SUBSET passed
  BY DEF LookedAt, LoadedOf, Stale
<1>3. Stale(LoadedOf(passed)) = {}
  <2>1. \A s \in Stale(LoadedOf(passed)) : s \in stops /\ s \in passed
    BY DEF Stale, LoadedOf
  <2>2. \A s \in passed : \A t \in stops : s < t
    OBVIOUS
  <2>3. \A s \in Slot : ~(s < s)
    BY PoolAssumption DEF Slot
  <2> HIDE DEF passed, stops
  <2>4. QED
    BY <1>2, <2>1, <2>2, <2>3 DEF Stale, LoadedOf
<1>4. Load(passed, LoadedOf(passed), {}, "backoff")
  BY DEF Scan
<1>5. SlotsFit' /\ Keeps(Changed(passed))
  <2>1. {} \in SUBSET Stale(LoadedOf(passed))
    OBVIOUS
  <2>2. SlotsFit' /\ Keeps(Changed(passed) \cup Stale(LoadedOf(passed)))
    BY <1>2, <1>4, <2>1, LoadFits DEF Inv
  <2>3. QED
    BY <1>3, <2>2
<1>6. \A s \in p.cand : s \in Slot /\ s \notin passed /\ s < from
  BY <1>1, PoolAssumption DEF Fits, Request, Slot
<1>7. \A s \in p.cand \cup found : cred'[s].auth # NULL
  <2>1. \A s \in p.cand : s \in Slot /\ s \notin Changed(passed) /\ cred[s].auth # NULL
    BY <1>1, <1>6 DEF Changed, Fits
  <2>2. QED
    BY <1>5, <2>1 DEF Keeps
<1>8. ASSUME stops = {} PROVE AllFit' /\ Balanced'
  <2>1. To(r, Changed(passed), done)
    BY <1>8 DEF Scan
  <2>2. /\ done \in Request /\ done.pc = "admitting" /\ ~done.live
        /\ done.cand = p.cand \cup found
    BY <1>1, <1>2 DEF Request, PC, Fits, Busy
  <2> HIDE DEF done, passed, stops
  <2>3. Fits(done, cred')
    BY <1>7, <2>2 DEF Fits, Busy, Selection
  <2>4. AllFit'
    BY <1>5, <2>1, <2>2, <2>3, ToFits DEF Inv, To
  <2>5. Balanced'
    <3>1. inFlight' = inFlight
      BY DEF Scan
    <3>2. QED
      BY <1>1, <2>1, <2>2, <3>1, QuietStep DEF Busy
  <2>6. QED
    BY <2>4, <2>5
<1>9. ASSUME stops # {} PROVE AllFit' /\ Balanced'
  <2>1. To(r, Changed(passed), halted)
    BY <1>9 DEF Scan
  <2>2. Min(stops) \in stops /\ Min(stops) \in Slot /\ cred[Min(stops)].file \in Account
    <3>1. Min(stops) \in stops
      BY <1>2, <1>9, FirstSlot
    <3>2. QED
      BY <1>2, <3>1 DEF Inv, SlotsFit, Cred
  <2>3. /\ halted \in Request /\ halted.pc = "loading" /\ ~halted.live
        /\ halted.cand = p.cand \cup found /\ halted.slot = Min(stops)
        /\ halted.acct \in Account
    <3>1. ~p.live
      BY <1>1 DEF Fits, Busy
    <3> DEFINE t == Min(stops)
               a == cred[t].file
    <3>2. t \in Slot /\ a \in Account /\ p \in Request /\ found \in SUBSET Slot
      BY <1>1, <1>2, <2>2
    <3>3. halted = [p EXCEPT !.pc = "loading", !.slot = t, !.acct = a, !.cand = p.cand \cup found]
      OBVIOUS
    <3> HIDE DEF stops, found, t, a, p, halted
    <3>4. /\ halted \in Request /\ halted.pc = "loading" /\ halted.live = p.live
          /\ halted.cand = p.cand \cup found /\ halted.slot = t /\ halted.acct = a
      BY <3>2, <3>3 DEF Request, PC
    <3>5. QED
      BY <3>1, <3>2, <3>4 DEF t, a
  <2>4. \A s \in p.cand \cup found : s < Min(stops)
    <3>1. \A s \in passed : s < Min(stops)
      BY <2>2
    <3>2. Min(stops) >= from
      <4>1. \A t \in stops : t >= from
        BY DEF Stale, LoadedOf
      <4>2. QED
        BY <2>2, <4>1
    <3>3. Min(stops) \in Nat /\ from \in Nat /\ \A s \in Slot : s \in Nat
      BY <1>1, <2>2, PoolAssumption DEF Slot, Request
    <3> HIDE DEF stops, found, from, passed
    <3>4. QED
      BY <1>2, <1>6, <3>1, <3>2, <3>3
  <2>5. "expire" \in Events
    <3>1. PICK s \in stops : TRUE
      BY <1>9
    <3>2. s \in Slot /\ cred[s].mode = "stale"
      BY <1>2, <3>1 DEF Stale
    <3>3. QED
      BY <3>2 DEF Inv, SlotsFit, Cooled
  <2> HIDE DEF halted, passed, stops, found, p
  <2>6. Fits(halted, cred')
    <3>1. halted.slot # NULL /\ halted.acct # NULL
      BY <2>2, <2>3, PoolAssumption
    <3>2. \A s \in halted.cand : cred'[s].auth # NULL
      BY <1>7, <2>3
    <3>3. \A s \in halted.cand : s < halted.slot /\ s <= halted.slot
      <4>1. \A s \in Slot : s \in Int
        BY PoolAssumption DEF Slot
      <4>2. \A s \in halted.cand : s \in Slot
        BY <1>2, <1>6, <2>3
      <4>3. QED
        BY <2>2, <2>3, <2>4, <4>1, <4>2
    <3>4. halted.pc = "loading" /\ ~halted.live /\ halted.pc \in Selection
      BY <2>3 DEF Selection
    <3> HIDE DEF Selection, Busy
    <3>5. QED
      BY <2>5, <3>1, <3>2, <3>3, <3>4 DEF Fits
  <2>7. AllFit'
    BY <1>5, <2>1, <2>3, <2>6, ToFits DEF Inv, To
  <2>8. Balanced'
    <3>1. inFlight' = inFlight
      BY DEF Scan
    <3>2. QED
      BY <1>1, <2>1, <2>3, <3>1, QuietStep DEF Busy, p
  <2>9. QED
    BY <2>7, <2>8
<1>10. Others'
  BY Joined DEF Scan, Inv
<1>11. QED
  BY <1>5, <1>8, <1>9, <1>10 DEF Inv

-----------------------------------------------------------------------------
(* Steps of one slot or of one request.                                    *)
LEMMA StillFits == AllFit /\ Keeps({}) /\ req' = req => AllFit'
<1> SUFFICES ASSUME AllFit, Keeps({}), req' = req PROVE AllFit'
  OBVIOUS
<1>1. \A q \in Req : req[q] \in Request
  BY DEF AllFit
<1>2. \A q \in Req : Fits(req[q], cred')
  BY <1>1 DEF AllFit, Fits, Keeps, Request
<1>3. QED
  BY <1>2 DEF AllFit

LEMMA CredChanges ==
  ASSUME SlotsFit, NEW s \in Slot, NEW c \in Cred, Cooled(c, gate[s]),
         cred' = [cred EXCEPT ![s] = c], gate' = gate
  PROVE  SlotsFit'
<1>1. cred' \in [Slot -> Cred] /\ \A t \in Slot : cred'[t] = IF t = s THEN c ELSE cred[t]
  BY DEF SlotsFit
<1>2. QED
  BY <1>1 DEF SlotsFit

LEMMA GateChanges ==
  ASSUME SlotsFit, NEW s \in Slot, NEW g \in Gate, Cooled(cred[s], g),
         gate' = [gate EXCEPT ![s] = g], cred' = cred
  PROVE  SlotsFit'
<1>1. gate' \in [Slot -> Gate] /\ \A t \in Slot : gate'[t] = IF t = s THEN g ELSE gate[t]
  BY DEF SlotsFit
<1>2. QED
  BY <1>1 DEF SlotsFit

LEMMA LoadEndsStep ==
  ASSUME Inv, NEW r \in Req, LoadEnds(r)
  PROVE  Inv'
<1> DEFINE p == req[r]
           s == p.slot
           back == [p EXCEPT !.pc = "scanning", !.acct = NULL]
           Goes(c, new) ==
             /\ cred' = [cred EXCEPT ![s] = c] /\ To(r, {s}, new)
             /\ new.pc = "scanning" /\ new.slot = s /\ ~new.live
             /\ new.cand \subseteq p.cand \cup (IF c.auth = NULL THEN {} ELSE {s})
<1>1. p \in Request /\ Fits(p, cred) /\ p.pc = "loading"
  BY DEF Inv, AllFit, LoadEnds
<1>2. s \in Slot /\ p.acct \in Account /\ "expire" \in Events /\ ~p.live
      /\ \A t \in p.cand : t \in Slot /\ t < s /\ cred[t].auth # NULL
  BY <1>1 DEF Fits, Request, Busy
<1>3. \A t \in Slot : t \in Int
  BY PoolAssumption DEF Slot
<1>4. \E c \in Cred, new \in Request : Goes(c, new)
  <2>1. cred[s] \in Cred
    BY <1>2 DEF Inv, SlotsFit
  <2>2. /\ back \in Request /\ back.pc = "scanning" /\ back.slot = s /\ ~back.live
        /\ back.cand = p.cand
    BY <1>1, <1>2 DEF Request, PC
  <2> DEFINE next == [back EXCEPT !.cand = @ \cup {s}]
  <2>3. /\ next \in Request /\ next.pc = "scanning" /\ next.slot = s /\ ~next.live
        /\ next.cand = p.cand \cup {s}
    BY <1>1, <1>2 DEF Request, PC
  <2> DEFINE good == [cred[s] EXCEPT !.auth = p.acct, !.mode = "good"]
             worse(bad) == [cred[s] EXCEPT !.auth = NULL, !.mode = bad]
  <2>4. good \in Cred /\ good.auth = p.acct
    BY <1>2, <2>1 DEF Cred
  <2>5. \A bad \in {"backoff", "failed"} : worse(bad) \in Cred /\ worse(bad).auth = NULL
    BY <2>1 DEF Cred
  <2>6. CASE cred' = [cred EXCEPT ![s].auth = p.acct, ![s].mode = "good"] /\ To(r, {s}, next)
    <3>1. cred' = [cred EXCEPT ![s] = good]
      BY <2>6
    <3>2. good.auth # NULL
      BY <1>2, <2>4, PoolAssumption
    <3> HIDE DEF good, next
    <3>3. QED
      BY <2>3, <2>4, <2>6, <3>1, <3>2
  <2>7. ASSUME NEW bad \in {"backoff", "failed"},
               cred' = [cred EXCEPT ![s].auth = NULL, ![s].mode = bad], To(r, {s}, back)
        PROVE  \E c \in Cred, new \in Request : Goes(c, new)
    <3>1. cred' = [cred EXCEPT ![s] = worse(bad)]
      BY <2>7
    <3> HIDE DEF worse, back
    <3>2. QED
      BY <2>2, <2>5, <2>7, <3>1
  <2>8. QED
    BY <2>6, <2>7 DEF LoadEnds
<1>5. PICK c \in Cred, new \in Request : Goes(c, new)
  BY <1>4
<1> HIDE DEF s, back
<1>6. cred' \in [Slot -> Cred] /\ \A t \in Slot : cred'[t] = IF t = s THEN c ELSE cred[t]
  BY <1>2, <1>5 DEF Inv, SlotsFit
<1>7. SlotsFit'
  BY <1>2, <1>5, <1>6 DEF Inv, SlotsFit, Cooled, LoadEnds
<1>8. Keeps({s})
  BY <1>6 DEF Keeps
<1>9. Fits(new, cred')
  <2>1. \A t \in new.cand : t \in Slot /\ t <= s /\ cred'[t].auth # NULL
    BY <1>2, <1>3, <1>5, <1>6
  <2>2. s # NULL
    BY <1>2, PoolAssumption
  <2>3. new.pc \in Selection /\ new.pc \notin Busy \cup {"loading"}
    BY <1>5 DEF Selection, Busy
  <2> HIDE DEF p
  <2>4. QED
    BY <1>5, <2>1, <2>2, <2>3 DEF Fits
<1>10. AllFit'
  BY <1>5, <1>8, <1>9, ToFits DEF Inv, To
<1>11. Balanced'
  BY <1>1, <1>5, QuietStep DEF LoadEnds, Busy
<1>12. Others'
  BY Joined DEF LoadEnds, Inv
<1>13. QED
  BY <1>7, <1>10, <1>11, <1>12 DEF Inv

(* A step of one request that touches no slot.                             *)
LEMMA LocalStep ==
  ASSUME Inv, NEW r \in Req, NEW new \in Request, Fits(new, cred),
         req' = [req EXCEPT ![r] = new], UNCHANGED <<cred, gate>>
  PROVE  AllFit' /\ SlotsFit'
<1>1. Keeps({}) /\ Fits(new, cred')
  BY DEF Keeps, Fits
<1>2. SlotsFit'
  BY DEF Inv, SlotsFit
<1>3. QED
  BY <1>1, <1>2, OneFits DEF Inv

LEMMA SelectionStep ==
  ASSUME Inv, NEW r \in Req, AdmitWaits(r) \/ NoneChosen(r) \/ Late(r)
  PROVE  Inv'
<1>1. req[r] \in Request /\ Fits(req[r], cred)
  BY DEF Inv, AllFit
<1>2. \E new \in Request :
        /\ req' = [req EXCEPT ![r] = new] /\ Fits(new, cred)
        /\ new.pc \in Busy <=> req[r].pc \in Busy
        /\ new.slot = req[r].slot
  <2> DEFINE p == req[r]
  <2>1. CASE AdmitWaits(r)
    <3> DEFINE new == [p EXCEPT !.pc = "refreshing"]
    <3>1. req' = [req EXCEPT ![r] = new] /\ p.pc = "admitting"
      BY <2>1 DEF AdmitWaits
    <3>2. /\ new \in Request /\ new.pc = "refreshing" /\ new.slot = p.slot
          /\ new.live = p.live /\ new.cand = p.cand /\ new.acct = p.acct
      BY <1>1 DEF Request, PC
    <3> HIDE DEF new
    <3>3. Fits(new, cred)
      BY <1>1, <3>1, <3>2 DEF Fits, Busy, Selection
    <3>4. QED
      BY <3>1, <3>2, <3>3 DEF Busy
  <2>2. CASE NoneChosen(r)
    <3> DEFINE new == [p EXCEPT !.pc = IF p.again THEN "exhausted" ELSE "scanning",
                                !.cand = {}, !.again = TRUE]
    <3>1. req' = [req EXCEPT ![r] = new] /\ p.pc \in {"admitting", "admitted"}
      BY <2>2 DEF NoneChosen, Selecting
    <3>2. /\ new \in Request /\ new.pc \in {"exhausted", "scanning"} /\ new.slot = p.slot
          /\ new.live = p.live /\ new.cand = {}
      BY <1>1 DEF Request, PC
    <3> HIDE DEF new
    <3>3. Fits(new, cred)
      BY <1>1, <3>1, <3>2 DEF Fits, Busy
    <3>4. QED
      BY <3>1, <3>2, <3>3 DEF Busy
  <2>3. CASE Late(r)
    <3> DEFINE new == [p EXCEPT !.late = TRUE]
    <3>1. req' = [req EXCEPT ![r] = new]
      BY <2>3 DEF Late
    <3>2. /\ new \in Request /\ new.pc = p.pc /\ new.slot = p.slot
          /\ new.live = p.live /\ new.cand = p.cand /\ new.acct = p.acct
      BY <1>1 DEF Request
    <3> HIDE DEF new
    <3>3. Fits(new, cred)
      BY <1>1, <3>2 DEF Fits
    <3>4. QED
      BY <3>1, <3>2, <3>3
  <2>4. QED
    BY <2>1, <2>2, <2>3
<1>3. UNCHANGED <<cred, gate, inFlight, reading, op>> /\ (JoinUsage \/ UNCHANGED usage)
  BY DEF AdmitWaits, NoneChosen, Late
<1>4. QED
  BY <1>2, <1>3, LocalStep, QuietStep, Joined DEF Inv

LEMMA DispatchStep ==
  ASSUME Inv, NEW r \in Req, Dispatch(r)
  PROVE  Inv'
<1>1. req[r] \in Request /\ Fits(req[r], cred) /\ req[r].pc \in {"admitting", "admitted"}
  BY DEF Inv, AllFit, Dispatch, Selecting
<1>2. PICK s \in Admissible(r) \cap Offers :
        /\ req' = [req EXCEPT ![r] = [@ EXCEPT !.pc = "upstream", !.slot = s, !.live = TRUE,
                                              !.acct = cred[s].auth, !.cand = {}, !.again = FALSE]]
        /\ inFlight' = [inFlight EXCEPT ![s] = @ + 1]
  BY DEF Dispatch
<1> DEFINE p == req[r]
           a == cred[s].auth
           new == [p EXCEPT !.pc = "upstream", !.slot = s, !.live = TRUE,
                            !.acct = a, !.cand = {}, !.again = FALSE]
<1>3. s \in Slot /\ a \in Account /\ a # NULL
  <2>1. s \in Slot
    BY PoolAssumption
  <2>2. a # NULL
    BY DEF Admissible, Ready
  <2>3. QED
    BY <2>1, <2>2 DEF Inv, SlotsFit, Cred
<1>4. req' = [req EXCEPT ![r] = new]
  BY <1>2
<1> HIDE DEF p, a
<1>5. /\ new \in Request /\ new.pc = "upstream" /\ new.slot = s /\ new.live
      /\ new.acct = a /\ new.cand = {}
  BY <1>1, <1>3 DEF Request, PC, Busy, p
<1> HIDE DEF new
<1>6. Fits(new, cred)
  <2>1. s # NULL /\ cred[new.slot].auth = new.acct
    BY <1>3, <1>5, PoolAssumption DEF a
  <2>2. QED
    BY <1>3, <1>5, <2>1 DEF Fits, Busy
<1>7. AllFit' /\ SlotsFit'
  BY <1>4, <1>5, <1>6, LocalStep DEF Dispatch
<1>8. Balanced'
  <2>1. /\ req'[r] = new
        /\ \A q \in Req : q # r => req'[q].pc = req[q].pc /\ req'[q].slot = req[q].slot
    BY <1>4 DEF Inv, AllFit
  <2>2. req[r].pc \notin Busy /\ req'[r].pc \in Busy /\ req'[r].slot = s
    BY <1>1, <1>5, <2>1 DEF Busy
  <2>3. QED
    BY <1>2, <1>3, <2>1, <2>2, TakenBalanced DEF Inv
<1>9. Others'
  BY DEF Dispatch, Others, Inv
<1>10. QED
  BY <1>7, <1>8, <1>9 DEF Inv

(* The request is over, or its task is cancelled, and no slot is marked.   *)
LEMMA EndStep ==
  ASSUME Inv, NEW r \in Req,
         \/ StreamEnds(r) \/ Cancel(r)
         \/ Final(r) /\ req' = [req EXCEPT ![r] = Fresh] /\ UNCHANGED <<cred, gate>>
  PROVE  Inv'
<1>1. req[r] \in Request /\ Fits(req[r], cred)
  BY DEF Inv, AllFit
<1>2. /\ req' = [req EXCEPT ![r] = Fresh] /\ UNCHANGED <<cred, gate, reading, usage, op>>
      /\ inFlight' = IF req[r].pc \in Busy THEN Released(req[r].slot) ELSE inFlight
  BY DEF Final, StreamEnds, Cancel, Busy
<1>3. Fresh \in Request /\ Fresh.pc = "new"
  BY DEF Fresh, Request, PC
<1>4. Fits(Fresh, cred)
  BY DEF Fits, Fresh, Busy
<1>5. AllFit' /\ SlotsFit'
  BY <1>2, <1>3, <1>4, LocalStep
<1>6. Balanced'
  <2>1. /\ req'[r] = Fresh
        /\ \A q \in Req : q # r => req'[q].pc = req[q].pc /\ req'[q].slot = req[q].slot
    BY <1>2 DEF Inv, AllFit
  <2>2. CASE req[r].pc \in Busy
    <3>1. req[r].slot \in Slot
      BY <1>1, <2>2 DEF Fits, Request
    <3>2. req'[r].pc \notin Busy
      BY <1>3, <2>1 DEF Busy
    <3>3. QED
      BY <1>2, <2>1, <2>2, <3>1, <3>2, GivenBackBalanced DEF Inv
  <2>3. CASE req[r].pc \notin Busy
    BY <1>2, <1>3, <2>3, QuietStep DEF Busy
  <2>4. QED
    BY <2>2, <2>3
<1>7. Others'
  BY <1>2 DEF Others, Inv
<1>8. QED
  BY <1>5, <1>6, <1>7 DEF Inv

(* An attempt fails, and marks the slot if it still has its credential.    *)
LEMMA OutcomeFits ==
  ASSUME Inv, NEW r \in Req, req[r].pc \in Busy, NEW kind \in Kinds,
         NEW new \in Request, Fits(new, cred), Outcome(r, kind, [req EXCEPT ![r] = new])
  PROVE  /\ AllFit' /\ SlotsFit'
         /\ req'[r].pc = new.pc /\ req'[r].slot = new.slot
         /\ \A q \in Req : q # r => req'[q].pc = req[q].pc /\ req'[q].slot = req[q].slot
<1> DEFINE s == req[r].slot
           Q == [req EXCEPT ![r] = new]
<1>1. req[r] \in Request /\ Fits(req[r], cred)
  BY DEF Inv, AllFit
<1>2. s \in Slot /\ req[r].acct \in Account
  BY <1>1 DEF Fits, Request
<1>3. Q \in [Req -> Request] /\ \A q \in Req : Q[q] = IF q = r THEN new ELSE req[q]
  BY DEF Inv, AllFit
<1>4. \A q \in Req : Fits(Q[q], cred)
  BY <1>3 DEF Inv, AllFit
<1>5. Outcome(r, kind, Q)
  OBVIOUS
<1> HIDE DEF s, Q
<1>6. CASE req' = Q /\ cred' = cred /\ SlotsFit'
  BY <1>3, <1>4, <1>6 DEF AllFit, Fits
<1>7. CASE req[r].live /\ kind = "reject"
  <2> DEFINE c == [cred[s] EXCEPT !.auth = NULL, !.mode = "failed"]
  <2>1. cred' = [cred EXCEPT ![s] = c] /\ gate' = gate /\ req' = Replaced(Q, {s})
    BY <1>5, <1>7 DEF Outcome, Mark, s
  <2>2. cred[s] \in Cred
    BY <1>2 DEF Inv, SlotsFit
  <2>3. c \in Cred /\ c.auth = NULL /\ c.mode = "failed"
    BY <2>2 DEF Cred
  <2> HIDE DEF c
  <2>4. Cooled(c, gate[s])
    BY <2>3 DEF Cooled
  <2>5. SlotsFit'
    BY <1>2, <2>1, <2>3, <2>4, CredChanges DEF Inv
  <2>6. Keeps({s})
    BY <2>1 DEF Keeps, Inv, SlotsFit
  <2>7. \A q \in Req : Fits(req'[q], cred')
    BY <1>3, <1>4, <2>1, <2>6, ReplacedFits
  <2>8. req' \in [Req -> Request]
        /\ \A q \in Req : req'[q].pc = Q[q].pc /\ req'[q].slot = Q[q].slot
    BY <1>3, <2>1, ReplacedIs
  <2>9. QED
    BY <1>3, <2>5, <2>7, <2>8 DEF AllFit
<1>8. CASE req[r].live /\ kind # "reject"
  <2>1. cred' = cred /\ req' = Q
    BY <1>5, <1>8 DEF Outcome, Mark
  <2>2. cred[s].auth = req[r].acct /\ gate[s] \in Gate /\ Cooled(cred[s], gate[s])
    BY <1>1, <1>2, <1>8 DEF Fits, Inv, SlotsFit, s
  <2>3. CASE kind = "limit"
    <3> DEFINE g == [gate[s] EXCEPT !.limited = req[r].acct]
    <3>1. gate' = [gate EXCEPT ![s] = g]
      BY <1>5, <1>8, <2>3 DEF Outcome, Mark, s
    <3>2. g \in Gate /\ g.limited = req[r].acct
      BY <1>2, <2>2 DEF Gate
    <3> HIDE DEF g
    <3>3. Cooled(cred[s], g)
      BY <2>2, <3>2 DEF Cooled
    <3>4. QED
      BY <1>2, <1>6, <2>1, <3>1, <3>2, <3>3, GateChanges DEF Inv
  <2>4. CASE kind \in {"fail", "read"}
    <3> DEFINE g == [gate[s] EXCEPT !.transient = TRUE]
    <3>1. gate' = [gate EXCEPT ![s] = g]
      BY <1>5, <1>8, <2>4 DEF Outcome, Mark, s
    <3>2. g \in Gate /\ g.limited = gate[s].limited
      BY <2>2 DEF Gate
    <3> HIDE DEF g
    <3>3. Cooled(cred[s], g)
      BY <2>2, <3>2 DEF Cooled
    <3>4. QED
      BY <1>2, <1>6, <2>1, <3>1, <3>2, <3>3, GateChanges DEF Inv
  <2>5. QED
    BY <1>8, <2>3, <2>4 DEF Kinds
<1>9. CASE ~req[r].live
  <2>1. req' = Q /\ cred' = cred /\ gate' = gate
    BY <1>5, <1>9 DEF Outcome
  <2>2. SlotsFit'
    BY <2>1 DEF Inv, SlotsFit
  <2>3. QED
    BY <1>6, <2>1, <2>2
<1>10. QED
  BY <1>7, <1>8, <1>9

LEMMA FinalStep ==
  ASSUME Inv, NEW r \in Req, Final(r)
  PROVE  Inv'
<1>1. CASE req' = [req EXCEPT ![r] = Fresh] /\ UNCHANGED <<cred, gate>>
  BY <1>1, EndStep
<1>2. ASSUME NEW kind \in Kinds, Outcome(r, kind, [req EXCEPT ![r] = Fresh])
      PROVE  Inv'
  <2>1. req[r] \in Request /\ Fits(req[r], cred) /\ req[r].pc = "upstream"
    BY DEF Inv, AllFit, Final
  <2>2. req[r].pc \in Busy /\ req[r].slot \in Slot
    BY <2>1 DEF Fits, Request, Busy
  <2>3. Fresh \in Request /\ Fresh.pc \notin Busy /\ Fits(Fresh, cred)
    BY DEF Fresh, Request, PC, Fits, Busy
  <2>4. /\ AllFit' /\ SlotsFit' /\ req'[r].pc = Fresh.pc
        /\ \A q \in Req : q # r => req'[q].pc = req[q].pc /\ req'[q].slot = req[q].slot
    BY <1>2, <2>2, <2>3, OutcomeFits
  <2>5. Balanced'
    BY <2>2, <2>3, <2>4, GivenBackBalanced DEF Inv, Final
  <2>6. Others'
    BY DEF Final, Others, Inv
  <2>7. QED
    BY <2>4, <2>5, <2>6 DEF Inv
<1>3. QED
  BY <1>1, <1>2 DEF Final

LEMMA RejectedStep ==
  ASSUME Inv, NEW r \in Req, NEW kind \in Kinds, Rejected(r, kind)
  PROVE  Inv'
<1> DEFINE p == req[r]
           skipped == p.skipS \cup {p.slot}
           new == [p EXCEPT !.pc = IF skipped = Slot THEN "exhausted" ELSE "scanning",
                            !.slot = NULL, !.acct = NULL, !.live = FALSE,
                            !.skipS = skipped, !.skipA = p.skipA \cup {p.acct}]
<1>1. p \in Request /\ Fits(p, cred) /\ p.pc = "upstream"
  BY DEF Inv, AllFit, Rejected
<1>2. p.slot \in Slot /\ p.acct \in Account /\ p.cand = {}
  BY <1>1 DEF Fits, Request, Busy, Selection
<1>3. Outcome(r, kind, [req EXCEPT ![r] = new]) /\ inFlight' = Released(p.slot)
  BY DEF Rejected
<1> HIDE DEF p
<1>4. /\ new \in Request /\ new.pc \in {"exhausted", "scanning"} /\ ~new.live /\ new.cand = {}
  BY <1>1, <1>2 DEF Request, PC
<1> HIDE DEF new
<1>5. Fits(new, cred)
  BY <1>4 DEF Fits, Busy
<1>6. p.pc \in Busy /\ new.pc \notin Busy
  BY <1>1, <1>4 DEF Busy
<1>7. /\ AllFit' /\ SlotsFit' /\ req'[r].pc = new.pc
      /\ \A q \in Req : q # r => req'[q].pc = req[q].pc /\ req'[q].slot = req[q].slot
  BY <1>3, <1>4, <1>5, <1>6, OutcomeFits DEF p
<1>8. Balanced'
  BY <1>2, <1>3, <1>6, <1>7, GivenBackBalanced DEF Inv, p
<1>9. Others'
  BY DEF Rejected, Others, Inv
<1>10. QED
  BY <1>4, <1>7, <1>8, <1>9 DEF Inv

LEMMA StreamFailsStep ==
  ASSUME Inv, NEW r \in Req, NEW kind \in Kinds, StreamFails(r, kind)
  PROVE  Inv'
<1> DEFINE p == req[r]
           new == [p EXCEPT !.pc = "draining"]
<1>1. p \in Request /\ Fits(p, cred) /\ p.pc = "streaming"
  BY DEF Inv, AllFit, StreamFails
<1>2. Outcome(r, kind, [req EXCEPT ![r] = new]) /\ inFlight' = inFlight
  BY DEF StreamFails
<1> HIDE DEF p
<1>3. /\ new \in Request /\ new.pc = "draining" /\ new.live = p.live /\ new.cand = p.cand
      /\ new.slot = p.slot /\ new.acct = p.acct
  BY <1>1 DEF Request, PC, Busy
<1> HIDE DEF new
<1>4. Fits(new, cred)
  BY <1>1, <1>3 DEF Fits, Busy, Selection
<1>5. p.pc \in Busy /\ new.pc \in Busy
  BY <1>1, <1>3 DEF Busy
<1>6. /\ AllFit' /\ SlotsFit' /\ req'[r].pc = new.pc /\ req'[r].slot = new.slot
      /\ \A q \in Req : q # r => req'[q].pc = req[q].pc /\ req'[q].slot = req[q].slot
  BY <1>2, <1>3, <1>4, <1>5, OutcomeFits DEF p
<1>7. Quiet
  BY <1>2, <1>3, <1>5, <1>6 DEF Quiet, p
<1>8. Others'
  BY DEF StreamFails, Others, Inv
<1>9. QED
  BY <1>3, <1>6, <1>7, <1>8, QuietBalanced DEF Inv

LEMMA StreamsStep ==
  ASSUME Inv, NEW r \in Req, Streams(r)
  PROVE  Inv'
<1> DEFINE p == req[r]
           new == [p EXCEPT !.pc = "streaming", !.skipS = {}, !.skipA = {}, !.late = FALSE]
<1>1. p \in Request /\ Fits(p, cred) /\ p.pc = "upstream"
  BY DEF Inv, AllFit, Streams
<1>2. req' = [req EXCEPT ![r] = new] /\ UNCHANGED <<cred, gate, inFlight, reading, usage, op>>
  BY DEF Streams
<1> HIDE DEF p
<1>3. /\ new \in Request /\ new.pc = "streaming" /\ new.live = p.live /\ new.cand = p.cand
      /\ new.slot = p.slot /\ new.acct = p.acct
  BY <1>1 DEF Request, PC, Busy
<1> HIDE DEF new
<1>4. Fits(new, cred)
  BY <1>1, <1>3 DEF Fits, Busy, Selection
<1>5. AllFit' /\ SlotsFit'
  BY <1>2, <1>3, <1>4, LocalStep
<1>6. Balanced'
  BY <1>1, <1>2, <1>3, QuietStep DEF Busy, p
<1>7. Others'
  BY <1>2 DEF Others, Inv
<1>8. QED
  BY <1>5, <1>6, <1>7 DEF Inv

-----------------------------------------------------------------------------
(* The shared usage refresh.                                               *)
LEMMA ResumedIs ==
  ASSUME NEW q \in [Req -> Request]
  PROVE  /\ Resumed(q) \in [Req -> Request]
         /\ \A r \in Req :
              /\ \A c : Fits(q[r], c) => Fits(Resumed(q)[r], c)
              /\ Resumed(q)[r].pc \in Busy <=> q[r].pc \in Busy
              /\ Resumed(q)[r].slot = q[r].slot
<1>1. ASSUME NEW r \in Req
      PROVE  LET n == Resumed(q)[r] IN
             /\ n \in Request /\ n.slot = q[r].slot /\ n.acct = q[r].acct /\ n.cand = q[r].cand
             /\ n.live = q[r].live
             /\ \/ n.pc = q[r].pc
                \/ q[r].pc = "probing" /\ n.pc = "scanning"
                \/ q[r].pc = "refreshing" /\ n.pc = "admitted"
  <2> DEFINE x == q[r]
             n == Resumed(q)[r]
  <2>1. n = CASE x.pc = "probing"    -> [x EXCEPT !.pc = "scanning"]
              [] x.pc = "refreshing" -> [x EXCEPT !.pc = "admitted"]
              [] OTHER               -> x
    BY DEF Resumed
  <2>2. x \in Request
    OBVIOUS
  <2> HIDE DEF x, n
  <2>3. CASE x.pc = "probing"
    <3>1. n = [x EXCEPT !.pc = "scanning"]
      BY <2>1, <2>3
    <3>2. QED
      BY <2>2, <2>3, <3>1 DEF Request, PC, x, n
  <2>4. CASE x.pc = "refreshing"
    <3>1. n = [x EXCEPT !.pc = "admitted"]
      BY <2>1, <2>4
    <3>2. QED
      BY <2>2, <2>4, <3>1 DEF Request, PC, x, n
  <2>5. CASE x.pc \notin {"probing", "refreshing"}
    <3>1. n = x
      BY <2>1, <2>5
    <3>2. QED
      BY <2>2, <3>1 DEF x, n
  <2>6. QED
    BY <2>3, <2>4, <2>5
<1>2. Resumed(q) \in [Req -> Request]
  <2>1. Resumed(q) = [r \in Req |-> Resumed(q)[r]]
    BY DEF Resumed
  <2>2. QED
    BY <1>1, <2>1
<1>3. ASSUME NEW r \in Req, NEW c, Fits(q[r], c)
      PROVE  Fits(Resumed(q)[r], c)
  <2> DEFINE n == Resumed(q)[r]
             x == q[r]
  <2>1. /\ n.slot = x.slot /\ n.acct = x.acct /\ n.cand = x.cand /\ n.live = x.live
        /\ \/ n.pc = x.pc
           \/ x.pc = "probing" /\ n.pc = "scanning"
           \/ x.pc = "refreshing" /\ n.pc = "admitted"
    BY <1>1
  <2>2. Fits(x, c)
    BY <1>3
  <2> SUFFICES Fits(n, c)
    OBVIOUS
  <2> HIDE DEF n, x
  <2>3. CASE n.pc = x.pc
    BY <2>1, <2>2, <2>3 DEF Fits
  <2>4. CASE x.pc = "probing" /\ n.pc = "scanning"
    BY <2>1, <2>2, <2>4 DEF Fits, Busy, Selection
  <2>5. CASE x.pc = "refreshing" /\ n.pc = "admitted"
    BY <2>1, <2>2, <2>5 DEF Fits, Busy, Selection
  <2>6. QED
    BY <2>1, <2>3, <2>4, <2>5
<1>4. \A r \in Req : /\ Resumed(q)[r].pc \in Busy <=> q[r].pc \in Busy
                     /\ Resumed(q)[r].slot = q[r].slot
  BY <1>1 DEF Busy
<1>5. QED
  BY <1>2, <1>3, <1>4

(* Every request, once the credentials of S have been replaced.            *)
LEMMA AllReplaced ==
  ASSUME AllFit, NEW S, Keeps(S)
  PROVE  /\ Replaced(req, S) \in [Req -> Request]
         /\ \A r \in Req : /\ Fits(Replaced(req, S)[r], cred')
                           /\ Replaced(req, S)[r].pc = req[r].pc
                           /\ Replaced(req, S)[r].slot = req[r].slot
<1>1. req \in [Req -> Request] /\ \A r \in Req : Fits(req[r], cred)
  BY DEF AllFit
<1>2. \A r \in Req : Fits(Replaced(req, S)[r], cred')
  BY <1>1, ReplacedFits
<1>3. QED
  BY <1>1, <1>2, ReplacedIs

LEMMA DiscoverStep == Inv /\ UsageDiscovers => Inv'
<1> SUFFICES ASSUME Inv, UsageDiscovers PROVE Inv'
  OBVIOUS
<1> DEFINE S == Changed(Slot) \cup Stale(Slot)
           groups == [a \in Account |-> {s \in Slot : cred'[s].auth = a}]
           q == Replaced(req, S)
<1>1. SlotsFit' /\ Keeps(S)
  <2>1. PICK G \in SUBSET Stale(Slot), bad \in {"backoff", "failed"} : Load(Slot, Slot, G, bad)
    BY DEF UsageDiscovers
  <2>2. QED
    BY <2>1, LoadFits DEF Inv
<1>2. /\ q \in [Req -> Request] /\ \A r \in Req : Fits(q[r], cred')
      /\ \A r \in Req : q[r].pc = req[r].pc /\ q[r].slot = req[r].slot
  BY <1>1, AllReplaced DEF Inv
<1>3. /\ req' \in {q, Resumed(q)} /\ inFlight' = inFlight /\ UNCHANGED <<reading, op>>
      /\ usage' \in {NoFetch, [task |-> "fetching", slots |-> groups]}
  BY DEF UsageDiscovers
<1>4. groups \in [Account -> SUBSET Slot]
  OBVIOUS
<1> HIDE DEF q, groups
<1>5. AllFit' /\ Quiet
  <2>1. CASE req' = q
    BY <1>2, <1>3, <2>1 DEF AllFit, Quiet
  <2>2. CASE req' = Resumed(q)
    <3>1. /\ req' \in [Req -> Request] /\ \A r \in Req : Fits(req'[r], cred')
          /\ \A r \in Req : /\ req'[r].slot = req[r].slot
                            /\ req'[r].pc \in Busy <=> req[r].pc \in Busy
      <4>1. /\ req' \in [Req -> Request]
            /\ \A r \in Req : /\ Fits(q[r], cred') => Fits(req'[r], cred')
                              /\ req'[r].pc \in Busy <=> q[r].pc \in Busy
                              /\ req'[r].slot = q[r].slot
        <5>1. q \in [Req -> Request]
          BY <1>2
        <5>2. QED
          BY <2>2, <5>1, ResumedIs
      <4>2. QED
        BY <1>2, <4>1
    <3>2. QED
      BY <1>3, <3>1 DEF AllFit, Quiet
  <2>3. QED
    BY <1>3, <2>1, <2>2
<1>6. Others'
  BY <1>3, <1>4 DEF Others, NoFetch, Inv
<1>7. QED
  BY <1>1, <1>5, <1>6, QuietBalanced DEF Inv

LEMMA ReadingStep ==
  ASSUME Inv, NEW a \in Account, NEW value \in {"ok", "full", "stale"}, NEW clear \in BOOLEAN,
         UsageReading(a, value, clear)
  PROVE  Inv'
<1> DEFINE rest == [usage.slots EXCEPT ![a] = {}]
<1>1. /\ req' \in {req, Resumed(req)} /\ inFlight' = inFlight /\ cred' = cred /\ op' = op
      /\ usage' \in {NoFetch, [usage EXCEPT !.slots = rest]}
      /\ reading' = [reading EXCEPT ![a] = value]
  BY DEF UsageReading
<1>2. rest \in [Account -> SUBSET Slot]
  BY DEF Inv, Others
<1> HIDE DEF rest
<1>3. Others'
  BY <1>1, <1>2 DEF Others, NoFetch, Inv
<1>4. AllFit' /\ Quiet
  <2>1. req \in [Req -> Request] /\ \A r \in Req : Fits(req[r], cred)
    BY DEF Inv, AllFit
  <2>2. CASE req' = req
    BY <1>1, <2>1, <2>2 DEF AllFit, Quiet
  <2>3. CASE req' = Resumed(req)
    BY <1>1, <2>1, <2>3, ResumedIs DEF AllFit, Quiet
  <2>4. QED
    BY <1>1, <2>2, <2>3
<1>5. SlotsFit'
  <2> DEFINE wiped(s) == [gate[s] EXCEPT !.limited = NULL]
  <2>1. gate' = gate \/ gate' = [s \in Slot |-> IF s \in usage.slots[a] THEN wiped(s) ELSE gate[s]]
    BY DEF UsageReading
  <2>2. \A s \in Slot : wiped(s) \in Gate /\ wiped(s).limited = NULL
    BY DEF Inv, SlotsFit, Gate
  <2> HIDE DEF wiped
  <2>3. CASE gate' = gate
    BY <1>1, <2>3 DEF Inv, SlotsFit
  <2>4. CASE gate' = [s \in Slot |-> IF s \in usage.slots[a] THEN wiped(s) ELSE gate[s]]
    <3>1. gate' \in [Slot -> Gate]
      BY <2>2, <2>4 DEF Inv, SlotsFit
    <3>2. \A s \in Slot : gate'[s].limited \in {NULL, gate[s].limited}
      BY <2>2, <2>4
    <3>3. \A s \in Slot : Cooled(cred[s], gate'[s])
      BY <3>2 DEF Cooled, Inv, SlotsFit
    <3>4. QED
      BY <1>1, <3>1, <3>3 DEF Inv, SlotsFit
  <2>5. QED
    BY <2>1, <2>3, <2>4
<1>6. QED
  BY <1>3, <1>4, <1>5, QuietBalanced DEF Inv

-----------------------------------------------------------------------------
(* What happens to a slot: its credential or one of its gates changes, and *)
(* no credential object is dropped.                                        *)
LEMMA SlotStep ==
  ASSUME Inv, SlotsFit', Keeps({}), UNCHANGED <<inFlight, reading, usage, req>>, Others'
  PROVE  Inv'
<1>1. Quiet
  BY DEF Quiet
<1>2. QED
  BY <1>1, StillFits, QuietBalanced DEF Inv

LEMMA ClockStep ==
  ASSUME Inv, NEW s \in Slot, Expire(s) \/ CooldownEnds(s) \/ \E a \in Account : Login(s, a)
  PROVE  Inv'
<1>1. cred[s] \in Cred /\ gate[s] \in Gate /\ Cooled(cred[s], gate[s])
  BY DEF Inv, SlotsFit
<1>2. UNCHANGED <<inFlight, reading, usage, op, req>>
  BY DEF Expire, CooldownEnds, Login
<1>3. Others'
  BY <1>2 DEF Inv, Others
<1>4. ASSUME NEW c \in Cred, cred' = [cred EXCEPT ![s] = c], gate' = gate,
             c.auth = cred[s].auth, Cooled(c, gate[s])
      PROVE  Inv'
  <2>1. SlotsFit'
    BY <1>4, CredChanges DEF Inv
  <2>2. Keeps({})
    BY <1>4 DEF Keeps, Inv, SlotsFit
  <2>3. QED
    BY <1>2, <1>3, <2>1, <2>2, SlotStep
<1>5. ASSUME NEW g \in Gate, gate' = [gate EXCEPT ![s] = g], cred' = cred,
             g.limited \in {NULL, gate[s].limited}
      PROVE  Inv'
  <2>1. Cooled(cred[s], g)
    BY <1>1, <1>5 DEF Cooled
  <2>2. SlotsFit'
    BY <1>5, <2>1, GateChanges DEF Inv
  <2>3. Keeps({})
    BY <1>5 DEF Keeps
  <2>4. QED
    BY <1>2, <1>3, <2>2, <2>3, SlotStep
<1>6. CASE Expire(s) \/ (CooldownEnds(s) /\ cred' # cred)
  <2> DEFINE c == [cred[s] EXCEPT !.mode = "stale"]
  <2>1. /\ cred' = [cred EXCEPT ![s] = c] /\ gate' = gate
        /\ "expire" \in Events \/ cred[s].mode = "backoff"
    BY <1>6 DEF Expire, CooldownEnds
  <2>2. c \in Cred /\ c.auth = cred[s].auth
    BY <1>1 DEF Cred
  <2>3. "expire" \in Events
    BY <1>1, <2>1 DEF Cooled
  <2> HIDE DEF c
  <2>4. Cooled(c, gate[s])
    BY <2>3 DEF Cooled
  <2>5. QED
    BY <1>4, <2>1, <2>2, <2>4
<1>7. CASE CooldownEnds(s) /\ cred' = cred
  <2> DEFINE uncapped == [gate[s] EXCEPT !.limited = NULL]
             settled == [gate[s] EXCEPT !.transient = FALSE]
  <2>1. \/ gate' = [gate EXCEPT ![s] = uncapped]
        \/ gate' = [gate EXCEPT ![s] = settled]
        \/ gate' = [gate EXCEPT ![s] = gate[s]]
    BY <1>7 DEF CooldownEnds, Inv, SlotsFit
  <2>2. /\ uncapped \in Gate /\ uncapped.limited = NULL
        /\ settled \in Gate /\ settled.limited = gate[s].limited
    BY <1>1 DEF Gate
  <2> HIDE DEF uncapped, settled
  <2>3. QED
    BY <1>1, <1>5, <1>7, <2>1, <2>2
<1>8. ASSUME NEW a \in Account, Login(s, a) PROVE Inv'
  <2> DEFINE c == [cred[s] EXCEPT !.file = a, !.changed = TRUE]
  <2>1. cred' = [cred EXCEPT ![s] = c] /\ gate' = gate
    BY <1>8 DEF Login
  <2>2. c \in Cred /\ c.auth = cred[s].auth /\ c.mode = cred[s].mode
    BY <1>1 DEF Cred
  <2> HIDE DEF c
  <2>3. Cooled(c, gate[s])
    BY <1>1, <2>2 DEF Cooled
  <2>4. QED
    BY <1>4, <2>1, <2>2, <2>3
<1>9. CASE \E a \in Account : Login(s, a)
  BY <1>8, <1>9
<1>10. CASE CooldownEnds(s)
  BY <1>6, <1>7, <1>10
<1>11. QED
  BY <1>6, <1>9, <1>10

LEMMA OperatorStep ==
  ASSUME Inv, OperatorCommits \/ \E s \in Slot, enable \in BOOLEAN : OperatorStarts(s, enable)
  PROVE  Inv'
<1>1. ASSUME NEW s \in Slot, NEW enable \in BOOLEAN, OperatorStarts(s, enable) PROVE Inv'
  <2> DEFINE S == Changed({s}) \cup Stale({s})
             q == Replaced(req, S)
  <2>1. SlotsFit' /\ Keeps(S)
    <3>1. PICK G \in SUBSET Stale({s}), bad \in {"backoff", "failed"} : Load({s}, {s}, G, bad)
      BY <1>1 DEF OperatorStarts
    <3>2. QED
      BY <3>1, LoadFits DEF Inv
  <2>2. /\ q \in [Req -> Request] /\ \A r \in Req : Fits(q[r], cred')
        /\ \A r \in Req : q[r].pc = req[r].pc /\ q[r].slot = req[r].slot
    BY <2>1, AllReplaced DEF Inv
  <2>3. req' = q /\ UNCHANGED <<inFlight, reading, usage>>
        /\ op' = [slot |-> s, acct |-> cred'[s].auth, enable |-> enable]
    BY <1>1 DEF OperatorStarts
  <2> HIDE DEF q
  <2>4. AllFit' /\ Quiet
    BY <2>2, <2>3 DEF AllFit, Quiet
  <2>5. Others'
    <3>1. cred'[s].auth \in Account \cup {NULL}
      BY <2>1 DEF SlotsFit, Cred
    <3>2. QED
      BY <2>3, <3>1 DEF Others, Inv
  <2>6. QED
    BY <2>1, <2>4, <2>5, QuietBalanced DEF Inv
<1>2. CASE OperatorCommits
  <2> DEFINE off == IF op.enable THEN NULL ELSE IF op.acct = NULL THEN "unnamed" ELSE op.acct
             g == [gate[op.slot] EXCEPT !.off = off]
  <2>1. /\ gate' = [gate EXCEPT ![op.slot] = g] /\ op # NULL /\ op' = NULL
        /\ UNCHANGED <<cred, inFlight, reading, usage, req>>
    BY <1>2 DEF OperatorCommits
  <2>2. op.slot \in Slot /\ off \in Account \cup {NULL, "unnamed"}
    BY <2>1 DEF Inv, Others
  <2>3. gate[op.slot] \in Gate /\ Cooled(cred[op.slot], gate[op.slot])
    BY <2>2 DEF Inv, SlotsFit
  <2> HIDE DEF off
  <2>4. g \in Gate /\ g.limited = gate[op.slot].limited
    BY <2>2, <2>3 DEF Gate
  <2> HIDE DEF g
  <2>5. Cooled(cred[op.slot], g)
    BY <2>3, <2>4 DEF Cooled
  <2>6. SlotsFit'
    BY <2>1, <2>2, <2>4, <2>5, GateChanges DEF Inv
  <2>7. Keeps({}) /\ Others'
    BY <2>1 DEF Keeps, Others, Inv
  <2>8. QED
    BY <2>1, <2>6, <2>7, SlotStep
<1>3. QED
  BY <1>1, <1>2

-----------------------------------------------------------------------------
LEMMA NextInv == Inv /\ [Next]_vars => Inv'
<1> SUFFICES ASSUME Inv, [Next]_vars PROVE Inv'
  OBVIOUS
<1>1. ASSUME NEW r \in Req, Step(r) \/ WaitPolls(r) \/ Late(r) \/ Cancel(r)
                            \/ \E kind \in Kinds : StreamFails(r, kind)
      PROVE  Inv'
  <2>1. CASE Arrive(r) \/ RoundEnds(r) \/ WaitEnds(r) \/ WaitPolls(r)
    BY <2>1, SurveyedStep
  <2>2. CASE Scan(r)
    BY <2>2, ScanStep
  <2>3. CASE LoadEnds(r)
    BY <2>3, LoadEndsStep
  <2>4. CASE AdmitWaits(r) \/ NoneChosen(r) \/ Late(r)
    BY <2>4, SelectionStep
  <2>5. CASE Dispatch(r)
    BY <2>5, DispatchStep
  <2>6. CASE Final(r) \/ StreamEnds(r) \/ Cancel(r)
    BY <2>6, EndStep, FinalStep
  <2>7. CASE Streams(r)
    BY <2>7, StreamsStep
  <2>8. CASE \E kind \in Kinds : Rejected(r, kind)
    BY <2>8, RejectedStep
  <2>9. CASE \E kind \in Kinds : StreamFails(r, kind)
    BY <2>9, StreamFailsStep
  <2>10. QED
    BY <1>1, <2>1, <2>2, <2>3, <2>4, <2>5, <2>6, <2>7, <2>8, <2>9 DEF Step, Answers
<1>2. CASE UsageStep
  BY <1>2, DiscoverStep, ReadingStep DEF UsageStep
<1>3. CASE UsageStarts \/ \E a \in Account : ReadingAges(a)
  <2>1. UNCHANGED <<cred, gate, inFlight, req>> /\ Others'
    BY <1>3 DEF UsageStarts, ReadingAges, Inv, Others
  <2>2. SlotsFit' /\ Keeps({}) /\ Quiet
    BY <2>1 DEF Inv, SlotsFit, Keeps, Quiet
  <2>3. QED
    BY <2>1, <2>2, StillFits, QuietBalanced DEF Inv
<1>4. ASSUME NEW s \in Slot, \/ Expire(s) \/ CooldownEnds(s)
                             \/ \E a \in Account : Login(s, a)
                             \/ \E enable \in BOOLEAN : OperatorStarts(s, enable)
      PROVE  Inv'
  BY <1>4, ClockStep, OperatorStep
<1>5. CASE OperatorCommits
  BY <1>5, OperatorStep
<1>6. CASE UNCHANGED vars
  <2>1. UNCHANGED <<cred, gate, inFlight, reading, usage, op, req>>
    BY <1>6 DEF vars
  <2>2. SlotsFit' /\ Keeps({}) /\ Quiet /\ Others'
    BY <2>1 DEF Inv, SlotsFit, Keeps, Quiet, Others
  <2>3. QED
    BY <2>1, <2>2, StillFits, QuietBalanced DEF Inv
<1>7. QED
  BY <1>1, <1>2, <1>3, <1>4, <1>5, <1>6 DEF Next

LEMMA AlwaysInv == Spec => []Inv
  BY InitInv, NextInv, PTL DEF Spec

(* Slots, requests and counters fit together at every await: the           *)
(* inductive invariant, for every pool.                                    *)
THEOREM PoolIsConsistent == Spec => []PoolInvariant
  BY AlwaysInv, InvIsInvariant, PTL

(* A slot counts exactly the requests that hold it, through failover,      *)
(* streams and cancellation at any await.                                  *)
THEOREM SlotsAreCounted == Spec => []InFlightBalanced
<1>1. Inv => InFlightBalanced
  BY DEF Inv, Balanced
<1>2. QED
  BY <1>1, AlwaysInv, PTL

-----------------------------------------------------------------------------
(***************************************************************************)
(* A slot and its source, one action after another.                        *)
(***************************************************************************)
Suits(c, g) == c.changed \/ (c.auth \in {NULL, c.file} /\ g.limited \in {NULL, c.file})

Suit == \A s \in Slot : Follows(s) => Follows(s)'

LEMMA FollowsIs == \A s : (Follows(s) <=> Suits(cred[s], gate[s]))
                        /\ (Follows(s)' <=> Suits(cred'[s], gate'[s]))
  BY DEF Follows, Suits

LEMMA LoadSuits ==
  ASSUME SlotsFit, NEW S \in SUBSET Slot, NEW T \in SUBSET S, NEW G \in SUBSET Stale(T),
         NEW bad, Load(S, T, G, bad)
  PROVE  Suit
<1> SUFFICES ASSUME NEW s \in Slot, Suits(cred[s], gate[s]) PROVE Suits(cred'[s], gate'[s])
  BY FollowsIs DEF Suit
<1>1. cred[s] \in Cred /\ gate[s] \in Gate
  BY DEF SlotsFit
<1>2. /\ cred'[s] = IF s \in G THEN [cred[s] EXCEPT !.auth = cred[s].file, !.mode = "good"]
                    ELSE IF s \in Stale(T) THEN [cred[s] EXCEPT !.auth = NULL, !.mode = bad]
                    ELSE IF s \in T THEN Loaded(Seen(s))
                    ELSE IF s \in S THEN Seen(s) ELSE cred[s]
      /\ gate'[s] = IF s \in Changed(S) THEN [gate[s] EXCEPT !.limited = NULL] ELSE gate[s]
  BY DEF Load, Uncooled
<1>3. CASE s \in S /\ cred[s].changed
  <2>1. gate'[s].limited = NULL
    BY <1>1, <1>2, <1>3 DEF Changed, Gate
  <2>2. cred'[s] \in {Seen(s), Loaded(Seen(s))}
    BY <1>2, <1>3 DEF Stale
  <2>3. Seen(s).auth = NULL /\ Seen(s) \in Cred
    BY <1>1, <1>3 DEF Seen, Cred
  <2>4. \A c \in Cred : c.auth = NULL => Loaded(c).auth \in {NULL, Loaded(c).file}
    BY DEF Loaded, Cred
  <2>5. QED
    BY <2>1, <2>2, <2>3, <2>4 DEF Suits
<1>4. CASE ~(s \in S /\ cred[s].changed)
  <2>1. gate'[s] = gate[s]
    BY <1>2, <1>4 DEF Changed
  <2>2. /\ cred'[s].changed = cred[s].changed /\ cred'[s].file = cred[s].file
        /\ cred'[s].auth \in {NULL, cred[s].auth, cred[s].file}
    BY <1>1, <1>2, <1>4 DEF Stale, Loaded, Seen, Cred
  <2>3. QED
    BY <2>1, <2>2 DEF Suits
<1>5. QED
  BY <1>3, <1>4

LEMMA SurveySuits == Inv /\ Survey => Suit
<1>1. Surveyed \in SUBSET Slot /\ LoadedOf(Surveyed) \in SUBSET Surveyed
  BY DEF Surveyed, LookedAt, LoadedOf
<1>2. QED
  BY <1>1, LoadSuits DEF Survey, Inv

LEMMA ScanSuits == \A r \in Req : Inv /\ Scan(r) => Suit
<1> SUFFICES ASSUME NEW r \in Req, Inv, Scan(r) PROVE Suit
  OBVIOUS
<1> DEFINE from == IF req[r].slot = NULL THEN 1 ELSE req[r].slot + 1
           open == {s \in LookedAt : s >= from /\ s \notin req[r].skipS}
           stops == Stale(LoadedOf(open))
           passed == {s \in open : \A t \in stops : s < t}
<1>1. Load(passed, LoadedOf(passed), {}, "backoff")
  BY DEF Scan
<1>2. passed \in SUBSET Slot /\ LoadedOf(passed) \in SUBSET passed
      /\ {} \in SUBSET Stale(LoadedOf(passed))
  BY DEF LookedAt, LoadedOf
<1> HIDE DEF passed
<1>3. QED
  BY <1>1, <1>2, LoadSuits DEF Inv

(* An outcome is held against the credential of its attempt, which is then *)
(* the slot's.                                                             *)
LEMMA OutcomeSuits ==
  ASSUME Inv, NEW r \in Req, req[r].pc \in Busy, NEW kind, NEW q, Outcome(r, kind, q)
  PROVE  Suit
<1> DEFINE t == req[r].slot
<1>1. /\ t \in Slot /\ req[r].acct # NULL
      /\ req[r].live => cred[t].auth = req[r].acct
  BY DEF Inv, AllFit, Fits, Request
<1> SUFFICES ASSUME NEW s \in Slot, Suits(cred[s], gate[s]) PROVE Suits(cred'[s], gate'[s])
  BY FollowsIs DEF Suit
<1>2. cred[s] \in Cred /\ gate[s] \in Gate
  BY DEF Inv, SlotsFit
<1>3. /\ \/ cred'[s] = cred[s]
         \/ cred'[s] = [cred[s] EXCEPT !.auth = NULL, !.mode = "failed"]
      /\ \/ gate'[s] = gate[s]
         \/ gate'[s] = [gate[s] EXCEPT !.transient = TRUE]
         \/ /\ req[r].live /\ s = t
            /\ cred'[s] = cred[s]
            /\ gate'[s] = [gate[s] EXCEPT !.limited = req[r].acct]
  BY <1>1 DEF Outcome, Mark, Inv, SlotsFit
<1>4. /\ cred'[s].changed = cred[s].changed /\ cred'[s].file = cred[s].file
      /\ cred'[s].auth \in {NULL, cred[s].auth}
  BY <1>2, <1>3 DEF Cred
<1>5. \/ gate'[s].limited = gate[s].limited
      \/ cred[s].auth = req[r].acct /\ gate'[s].limited = req[r].acct
  BY <1>1, <1>2, <1>3 DEF Gate
<1>6. QED
  BY <1>1, <1>4, <1>5 DEF Suits

(* The end of a refresh puts the account it was begun for into the slot.   *)
LEMMA LoadEndsSuits ==
  ASSUME Inv, NEW r \in Req, LoadEnds(r), NEW s \in Slot, Follows(s), ~Follows(s)'
  PROVE  Overtaken(r, s)
<1> DEFINE a == req[r].acct
<1>1. req[r].pc = "loading" /\ req[r].slot \in Slot /\ a \in Account
  BY DEF LoadEnds, Inv, AllFit, Fits, Request
<1>2. cred[s] \in Cred /\ gate' = gate
  BY DEF Inv, SlotsFit, LoadEnds
<1>3. Suits(cred[s], gate[s]) /\ ~Suits(cred'[s], gate'[s])
  BY FollowsIs
<1>4. \/ cred' = [cred EXCEPT ![req[r].slot] = [@ EXCEPT !.auth = a, !.mode = "good"]]
      \/ \E bad : cred' = [cred EXCEPT ![req[r].slot] = [@ EXCEPT !.auth = NULL, !.mode = bad]]
  BY DEF LoadEnds
<1>5. req[r].slot = s
  <2>1. req[r].slot # s => cred'[s] = cred[s]
    BY <1>4 DEF Inv, SlotsFit
  <2>2. QED
    BY <1>2, <1>3, <2>1
<1>6. \/ cred'[s] = [cred[s] EXCEPT !.auth = a, !.mode = "good"]
      \/ \E bad : cred'[s] = [cred[s] EXCEPT !.auth = NULL, !.mode = bad]
  BY <1>4, <1>5 DEF Inv, SlotsFit
<1>7. /\ cred'[s].changed = cred[s].changed /\ cred'[s].file = cred[s].file
      /\ cred'[s].auth \in {NULL, a}
  BY <1>2, <1>6 DEF Cred
<1>8. cred'[s].auth = a /\ a # cred[s].file
  BY <1>2, <1>3, <1>7 DEF Suits
<1>9. QED
  BY <1>1, <1>5, <1>8 DEF Overtaken

(* What happens around the requests.                                       *)
LEMMA AroundSuits ==
  ASSUME Inv,
         \/ UsageStep \/ OperatorCommits
         \/ \E s \in Slot : \/ Expire(s) \/ CooldownEnds(s)
                            \/ \E a \in Account : Login(s, a)
                            \/ \E enable \in BOOLEAN : OperatorStarts(s, enable)
  PROVE  Suit
<1>1. \A s \in Slot : cred[s] \in Cred /\ gate[s] \in Gate
  BY DEF Inv, SlotsFit
<1>2. cred \in [Slot -> Cred] /\ gate \in [Slot -> Gate]
  BY DEF Inv, SlotsFit
<1>3. CASE UsageDiscovers
  <2>1. PICK G \in SUBSET Stale(Slot), bad \in {"backoff", "failed"} : Load(Slot, Slot, G, bad)
    BY <1>3 DEF UsageDiscovers
  <2>2. QED
    BY <2>1, LoadSuits DEF Inv
<1>4. ASSUME NEW s \in Slot, NEW enable \in BOOLEAN, OperatorStarts(s, enable) PROVE Suit
  <2>1. PICK G \in SUBSET Stale({s}), bad \in {"backoff", "failed"} : Load({s}, {s}, G, bad)
    BY <1>4 DEF OperatorStarts
  <2>2. QED
    BY <2>1, LoadSuits DEF Inv
<1>5. ASSUME \A t \in Slot :
               /\ \/ cred'[t].changed
                  \/ /\ cred'[t].changed = cred[t].changed /\ cred'[t].file = cred[t].file
                     /\ cred'[t].auth = cred[t].auth
               /\ gate'[t].limited \in {NULL, gate[t].limited}
      PROVE  Suit
  BY <1>5, FollowsIs DEF Suit, Suits
<1>6. ASSUME NEW a \in Account, NEW value, NEW clear, UsageReading(a, value, clear) PROVE Suit
  <2>1. cred' = cred
    BY <1>6 DEF UsageReading
  <2>2. \A t \in Slot : gate'[t] \in {gate[t], [gate[t] EXCEPT !.limited = NULL]}
    BY <1>6 DEF UsageReading
  <2>3. \A t \in Slot : gate'[t].limited \in {NULL, gate[t].limited}
    BY <1>1, <2>2 DEF Gate
  <2>4. QED
    BY <1>5, <2>1, <2>3
<1>7. CASE OperatorCommits
  <2>1. cred' = cred /\ op.slot \in Slot
    BY <1>7 DEF OperatorCommits, Inv, Others
  <2>2. \A t \in Slot : \E x : gate'[t] \in {gate[t], [gate[t] EXCEPT !.off = x]}
    BY <1>2, <1>7, <2>1 DEF OperatorCommits
  <2>3. \A t \in Slot : gate'[t].limited = gate[t].limited
    BY <1>1, <2>2 DEF Gate
  <2>4. QED
    BY <1>5, <2>1, <2>3
<1>8. ASSUME NEW s \in Slot, Expire(s) \/ CooldownEnds(s) PROVE Suit
  <2>1. \A t \in Slot : cred'[t] \in {cred[t], [cred[t] EXCEPT !.mode = "stale"]}
    BY <1>2, <1>8 DEF Expire, CooldownEnds
  <2>2. \A t \in Slot : gate'[t] \in {gate[t], [gate[t] EXCEPT !.limited = NULL],
                                      [gate[t] EXCEPT !.transient = FALSE]}
    BY <1>2, <1>8 DEF Expire, CooldownEnds
  <2>3. \A t \in Slot : /\ cred'[t].changed = cred[t].changed /\ cred'[t].file = cred[t].file
                        /\ cred'[t].auth = cred[t].auth
    BY <1>1, <2>1 DEF Cred
  <2>4. \A t \in Slot : gate'[t].limited \in {NULL, gate[t].limited}
    BY <1>1, <2>2 DEF Gate
  <2>5. QED
    BY <1>5, <2>3, <2>4
<1>9. ASSUME NEW s \in Slot, NEW a \in Account, Login(s, a) PROVE Suit
  <2>1. gate' = gate
    BY <1>9 DEF Login
  <2>2. \A t \in Slot : cred'[t] = IF t = s THEN [cred[t] EXCEPT !.file = a, !.changed = TRUE]
                                   ELSE cred[t]
    BY <1>2, <1>9 DEF Login
  <2>3. \A t \in Slot : cred'[t] = cred[t] \/ cred'[t].changed
    BY <1>1, <2>2 DEF Cred
  <2>4. QED
    BY <1>5, <2>1, <2>3
<1>10. QED
  BY <1>3, <1>4, <1>6, <1>7, <1>8, <1>9 DEF UsageStep

(* However answers, resets of a slot, refreshes and failures overlap, an   *)
(* account that is not the slot's enters it, or cools it, only at the end  *)
(* of a refresh that a login overtook; whether tokens expire or not.       *)
THEOREM SourcesAreKept == Spec => SourceIsKept
<1>1. ASSUME Inv, [Next]_vars, NEW s \in Slot, Follows(s), ~Follows(s)'
      PROVE  \E r \in Req : Overtaken(r, s)
  <2>1. ~Suit
    BY <1>1 DEF Suit
  <2>2. ~UNCHANGED <<cred, gate>>
    BY <1>1 DEF Follows
  <2>3. PICK r \in Req : \/ Step(r) \/ WaitPolls(r) \/ Late(r) \/ Cancel(r)
                         \/ \E kind \in Kinds : StreamFails(r, kind)
    BY <1>1, <2>1, <2>2, AroundSuits DEF Next, vars, UsageStarts, ReadingAges
  <2>4. ~Survey /\ ~Scan(r)
    BY <1>1, <2>1, SurveySuits, ScanSuits
  <2>5. req[r].pc \in Busy => \A kind, q : ~Outcome(r, kind, q)
    BY <1>1, <2>1, OutcomeSuits
  <2>6. ~(\E kind \in Kinds : Rejected(r, kind) \/ StreamFails(r, kind))
    BY <2>5 DEF Rejected, StreamFails, Busy
  <2>7. ~Final(r)
    BY <2>2, <2>5 DEF Final, Busy
  <2>8. LoadEnds(r)
    <3>1. ~Arrive(r) /\ ~RoundEnds(r) /\ ~WaitEnds(r) /\ ~WaitPolls(r)
      BY <2>4 DEF Arrive, RoundEnds, WaitEnds, WaitPolls
    <3>2. /\ ~AdmitWaits(r) /\ ~Dispatch(r) /\ ~NoneChosen(r) /\ ~Late(r)
          /\ ~Streams(r) /\ ~StreamEnds(r) /\ ~Cancel(r)
      BY <2>2 DEF AdmitWaits, Dispatch, NoneChosen, Late, Streams, StreamEnds, Cancel
    <3>3. QED
      BY <2>3, <2>4, <2>6, <2>7, <3>1, <3>2 DEF Step, Answers
  <2>9. QED
    BY <1>1, <2>8, LoadEndsSuits
<1>2. ASSUME Inv, [Next]_vars
      PROVE  \A s \in Slot : Follows(s) /\ ~Follows(s)' => \E r \in Req : Overtaken(r, s)
  BY <1>1, <1>2
<1>3. QED
  BY <1>2, AlwaysInv, PTL DEF Spec, SourceIsKept
=============================================================================
