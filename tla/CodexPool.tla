------------------------------ MODULE CodexPool ------------------------------
(***************************************************************************)
(* The pool of Codex slots and the requests that fail over between them:   *)
(* execute_chat, slot selection, admission by quota and the outcome marks  *)
(* of infra/spartan-route/spartan_route/codex.py, with attempt.py and      *)
(* quota_limits.py.  CodexAuthStore has the detail of load_auth() and      *)
(* CodexTransport that of an upstream exchange; here a credential is what  *)
(* the pool sees of it and an exchange is one of its outcomes.             *)
(*                                                                         *)
(* Python tells credentials apart by object identity (`slot.auth is auth`).*)
(* A request's `cand` and `live` say which of the credential objects it    *)
(* holds are still the slots' current ones.                                *)
(***************************************************************************)
EXTENDS Integers, FiniteSets, FiniteSetsExt

CONSTANTS
  NSlots,    \* configured auth paths
  Req,       \* requests in execute_chat()
  Account,   \* upstream accounts
  Homes,     \* the accounts of the slots' credential files at the start
  Capped,    \* accounts with a quota limit
  Offers,    \* slots whose published catalog offers the requested model
  Events,    \* what may happen around the requests in this instance
  NULL       \* the absent value

Slot == 1 .. NSlots

AllEvents == {"login", "expire", "routing", "usage", "reject", "limit", "fail", "read",
              "stream", "cancel"}

ASSUME PoolAssumption ==
  /\ NSlots \in Nat \ {0} /\ IsFiniteSet(Req)
  /\ Homes \subseteq [Slot -> Account] /\ Homes # {}
  /\ Capped \subseteq Account /\ Offers \subseteq Slot /\ Events \subseteq AllEvents
  /\ NULL \notin Account \cup Slot /\ NULL # "unnamed" /\ "unnamed" \notin Account

VARIABLES
  cred,      \* of each slot: its source, cached auth and what load_auth() would do
  gate,      \* of each slot: cooldowns and the routing override
  inFlight,  \* CodexSlot.in_flight
  reading,   \* QuotaAdmission.observations, against the account's limits
  usage,     \* the shared usage refresh: the slots captured for each account
  op,        \* an operator's pending routing change
  req        \* the local state of each request

vars == <<cred, gate, inFlight, reading, usage, op, req>>

(* mode: "good" credentials load at once, "stale" ones need a refresh,     *)
(* "backoff" and "failed" ones are unavailable.                            *)
Cred == [file : Account, changed : BOOLEAN, auth : Account \cup {NULL},
         mode : {"good", "stale", "backoff", "failed"}]

(* limited: the account whose 429 set rate_limited_until; transient:       *)
(* transient_until lies ahead; off: the account an override disables.      *)
Gate == [limited : Account \cup {NULL}, transient : BOOLEAN,
         off : Account \cup {NULL, "unnamed"}]

Busy == {"upstream", "streaming", "draining"}
PC == {"new", "probing", "scanning", "loading", "admitting", "refreshing", "admitted",
       "exhausted", "waiting"} \cup Busy

Request == [pc : PC, slot : Slot \cup {NULL}, acct : Account \cup {NULL},
            cand : SUBSET Slot, live : BOOLEAN, skipS : SUBSET Slot,
            skipA : SUBSET Account, again : BOOLEAN, late : BOOLEAN]

TypeOK ==
  /\ cred \in [Slot -> Cred]
  /\ gate \in [Slot -> Gate]
  /\ inFlight \in [Slot -> Nat]
  /\ reading \in [Account -> {"ok", "full", "stale"}]
  /\ usage \in [task : {"idle", "discovering", "fetching"}, slots : [Account -> SUBSET Slot]]
  /\ op \in [slot : Slot, acct : Account \cup {NULL}, enable : BOOLEAN] \cup {NULL}
  /\ req \in [Req -> Request]

NoFetch == [task |-> "idle", slots |-> [a \in Account |-> {}]]

Fresh == [pc |-> "new", slot |-> NULL, acct |-> NULL, cand |-> {}, live |-> FALSE,
          skipS |-> {}, skipA |-> {}, again |-> FALSE, late |-> FALSE]

Init ==
  /\ \E f \in Homes :
       cred = [s \in Slot |-> [file |-> f[s], changed |-> FALSE, auth |-> NULL, mode |-> "good"]]
  /\ gate = [s \in Slot |-> [limited |-> NULL, transient |-> FALSE, off |-> NULL]]
  /\ inFlight = [s \in Slot |-> 0]
  /\ reading = [a \in Account |-> "stale"]
  /\ usage = NoFetch /\ op = NULL
  /\ req = [r \in Req |-> Fresh]

-----------------------------------------------------------------------------
(* slot_routing_status(): an override of another account is ignored; one   *)
(* whose account cannot be verified stays in force.                        *)
Enabled(s) ==
  gate[s].off = NULL \/ (gate[s].off # "unnamed" /\ cred[s].auth \notin {NULL, gate[s].off})

(* QuotaAdmission.status() and needs_refresh().                            *)
Paused(a) == a \in Capped /\ reading[a] # "ok"
NeedsReading(a) == a \in Capped /\ reading[a] = "stale"

Cooling(s) == gate[s].limited # NULL \/ gate[s].transient

(* QuotaAdmission.ready() of a slot's current credential.                  *)
Ready(s) == cred[s].auth # NULL /\ Enabled(s) /\ ~Cooling(s) /\ ~Paused(cred[s].auth)

(* Requests no longer hold the current credential object of the slots S.   *)
Replaced(q, S) ==
  [r \in Req |-> [q[r] EXCEPT !.cand = @ \ S,
                              !.live = @ /\ q[r].slot \notin S]]

(* The slots S are looked at for a changed source, which resets the slot   *)
(* and its quota cooldown, and load_auth() is called on T \subseteq S: a   *)
(* good credential is adopted and a stale one refreshed, with success on G *)
(* and else a slot that is unavailable, for a time or until it changes.    *)
(* Bugs: the reset leaves the cached credential, or the cooldown, alone.   *)
Stale(T) == {s \in T : ~cred[s].changed /\ cred[s].mode = "stale"}

Changed(S) == {s \in S : cred[s].changed}

Loaded(c) == IF c.mode = "good" /\ c.auth = NULL THEN [c EXCEPT !.auth = c.file] ELSE c

SeenCached(s) == IF cred[s].changed
                 THEN [cred[s] EXCEPT !.changed = FALSE, !.mode = "good"] ELSE cred[s]

Seen(s) == IF cred[s].changed
           THEN [cred[s] EXCEPT !.changed = FALSE, !.auth = NULL, !.mode = "good"]
           ELSE cred[s]

UncooledNone(S) == gate

Uncooled(S) == [s \in Slot |-> IF s \in Changed(S) THEN [gate[s] EXCEPT !.limited = NULL]
                               ELSE gate[s]]

Load(S, T, G, bad) ==
  /\ cred' = [s \in Slot |->
       IF s \in G THEN [cred[s] EXCEPT !.auth = cred[s].file, !.mode = "good"]
       ELSE IF s \in Stale(T) THEN [cred[s] EXCEPT !.auth = NULL, !.mode = bad]
       ELSE IF s \in T THEN Loaded(Seen(s))
       ELSE IF s \in S THEN Seen(s) ELSE cred[s]]
  /\ gate' = Uncooled(S)

-----------------------------------------------------------------------------
(* Which slots a loop over all of them looks at, and which it loads: a     *)
(* rate-limited slot only if its source changed, a transient one never.    *)
LookedAt == {s \in Slot : IF gate[s].limited # NULL THEN cred[s].changed
                          ELSE ~gate[s].transient}
LoadedOf(S) == {s \in S : ~gate[s].transient}

(* slot_availability(), taken as one step: the slots it loads, the usable  *)
(* ones among them after that, and the cooling ones.                       *)
Surveyed == {s \in LookedAt : Enabled(s)}
Limited == {s \in Slot : Enabled(s) /\ gate[s].limited # NULL /\ ~cred[s].changed}
Transient == {s \in Slot \ Limited : Enabled(s) /\ gate[s].transient}

Survey == \E G \in SUBSET Stale(LoadedOf(Surveyed)), bad \in {"backoff", "failed"} :
            Load(Surveyed, LoadedOf(Surveyed), G, bad)
Eligible == {s \in LoadedOf(Surveyed) : cred'[s].auth # NULL /\ ~Paused(cred'[s].auth)}

(* The credential objects a survey replaces or drops.                      *)
Renewed == Changed(Surveyed) \cup Stale(LoadedOf(Surveyed))

(* The local state of a request after a survey or another load.            *)
To(r, S, new) == req' = [Replaced(req, S) EXCEPT ![r] = new]

(* _ensure_usage_refresh(): join the shared refresh, or start it.          *)
JoinUsage == usage' = [usage EXCEPT !.task = IF @ = "idle" THEN "discovering" ELSE @]

(* execute_chat() begins.  With every usable slot rate limited it waits    *)
(* for a usage reading, unless the last one was less than 5 s ago.         *)
Arrive(r) ==
  /\ req[r].pc = "new"
  /\ Survey
  /\ \/ /\ ~(Eligible = {} /\ Limited # {}) \/ usage.task = "idle"
        /\ To(r, Renewed, [req[r] EXCEPT !.pc = "scanning"])
        /\ UNCHANGED usage
     \/ /\ Eligible = {} /\ Limited # {}
        /\ To(r, Renewed, [req[r] EXCEPT !.pc = "probing"])
        /\ JoinUsage
  /\ UNCHANGED <<inFlight, reading, op>>

(* _operational_candidates(): load_auth() of the slots in order, up to the *)
(* first one whose refresh suspends the request.                           *)
Scan(r) ==
  LET p == req[r]
      from == IF p.slot = NULL THEN 1 ELSE p.slot + 1
      open == {s \in LookedAt : s >= from /\ s \notin p.skipS}
      stops == Stale(LoadedOf(open))
      passed == {s \in open : \A t \in stops : s < t}
      found == {s \in LoadedOf(passed) : cred'[s].auth # NULL} IN
  /\ p.pc = "scanning"
  /\ Load(passed, LoadedOf(passed), {}, "backoff")
  /\ IF stops = {}
     THEN To(r, Changed(passed), [p EXCEPT !.pc = "admitting", !.slot = NULL,
                                           !.cand = @ \cup found])
     ELSE To(r, Changed(passed), [p EXCEPT !.pc = "loading", !.slot = Min(stops),
                                           !.acct = cred[Min(stops)].file,
                                           !.cand = @ \cup found])
  /\ UNCHANGED <<inFlight, reading, usage, op>>

(* The refresh ends.  Every coroutine that waited for it adopts the token  *)
(* anew, as a new object.                                                  *)
LoadEnds(r) ==
  LET p == req[r]
      back == [p EXCEPT !.pc = "scanning", !.acct = NULL] IN
  /\ p.pc = "loading"
  /\ \/ /\ cred' = [cred EXCEPT ![p.slot].auth = p.acct, ![p.slot].mode = "good"]
        /\ To(r, {p.slot}, [back EXCEPT !.cand = @ \cup {p.slot}])
     \/ \E bad \in {"backoff", "failed"} :
          /\ cred' = [cred EXCEPT ![p.slot].auth = NULL, ![p.slot].mode = bad]
          /\ To(r, {p.slot}, back)
  /\ UNCHANGED <<gate, inFlight, reading, usage, op>>

(* QuotaAdmission.admit(): an account without a fresh reading waits for    *)
(* the shared refresh, unless one ended less than 5 s ago.                 *)
AdmitWaits(r) ==
  /\ req[r].pc = "admitting"
  /\ \E s \in req[r].cand : NeedsReading(cred[s].auth)
  /\ JoinUsage
  /\ req' = [req EXCEPT ![r].pc = "refreshing"]
  /\ UNCHANGED <<cred, gate, inFlight, reading, op>>

(* The candidates left when every gate is checked again after the last     *)
(* await.                                                                  *)
Admissible(r) ==
  {s \in req[r].cand : /\ s \notin req[r].skipS /\ cred[s].auth \notin req[r].skipA
                       /\ Ready(s)}

Selecting(r) == \/ req[r].pc = "admitted"
                \/ /\ req[r].pc = "admitting"
                   /\ usage.task # "idle" => \A s \in req[r].cand : ~NeedsReading(cred[s].auth)

(* choose_slot() to dispatch_admission(): one of the candidates that offer *)
(* the model is used (which one, leases and load decide).                  *)
Dispatch(r) ==
  /\ Selecting(r)
  /\ \E s \in Admissible(r) \cap Offers :
       /\ req' = [req EXCEPT ![r] = [@ EXCEPT !.pc = "upstream", !.slot = s, !.live = TRUE,
                                              !.acct = cred[s].auth, !.cand = {}, !.again = FALSE]]
       /\ inFlight' = [inFlight EXCEPT ![s] = @ + 1]
  /\ UNCHANGED <<cred, gate, reading, usage, op>>

(* Nothing to choose: the slots are scanned once more (catalog diagnostics *)
(* and recovery), and then the round is over.                              *)
NoneChosen(r) ==
  /\ Selecting(r)
  /\ Admissible(r) \cap Offers = {}
  /\ req' = [req EXCEPT ![r] = [@ EXCEPT !.pc = IF req[r].again THEN "exhausted" ELSE "scanning",
                                         !.cand = {}, !.again = TRUE]]
  /\ UNCHANGED <<cred, gate, inFlight, reading, usage, op>>

-----------------------------------------------------------------------------
(* A new round: the exclusions are cleared.                                *)
NewRound(r) == [req[r] EXCEPT !.pc = "scanning", !.slot = NULL, !.acct = NULL,
                              !.skipS = {}, !.skipA = {}, !.again = FALSE]

Recovering == Limited \cup Transient # {}

(* The round is over.  With every usable slot rate limited the answer is   *)
(* 429 at once; with a recovery due before the deadline the request waits. *)
RoundEnds(r) ==
  /\ req[r].pc = "exhausted"
  /\ Survey
  /\ \/ To(r, Renewed, Fresh)
     \/ /\ ~(Eligible = {} /\ Limited # {} /\ Transient = {})
        /\ Recovering /\ ~req[r].late
        /\ To(r, Renewed, [req[r] EXCEPT !.pc = "waiting"])
  /\ UNCHANGED <<inFlight, reading, usage, op>>

(* _wait_for_temporary_recovery() returns: some slot is usable again, or   *)
(* none will be before the deadline.  Bug: it never gives up.              *)
WaitEndsOnRecovery(r) ==
  /\ req[r].pc = "waiting"
  /\ Survey
  /\ Eligible # {}
  /\ To(r, Renewed, NewRound(r))
  /\ UNCHANGED <<inFlight, reading, usage, op>>

WaitEnds(r) ==
  /\ req[r].pc = "waiting"
  /\ Survey
  /\ To(r, Renewed, IF Eligible # {} THEN NewRound(r) ELSE Fresh)
  /\ UNCHANGED <<inFlight, reading, usage, op>>

(* Its poll while none is: it may adopt or refresh credentials.            *)
WaitPolls(r) ==
  /\ req[r].pc = "waiting" /\ ~req[r].late
  /\ Survey
  /\ Eligible = {} /\ Recovering
  /\ To(r, Renewed, req[r])
  /\ UNCHANGED <<inFlight, reading, usage, op>>

(* The deadline of the request passes.                                     *)
Late(r) ==
  /\ req[r].pc \notin {"new", "streaming", "draining"} /\ ~req[r].late
  /\ req' = [req EXCEPT ![r].late = TRUE]
  /\ UNCHANGED <<cred, gate, inFlight, reading, usage, op>>

-----------------------------------------------------------------------------
(* The outcome fence: _quarantine_auth_failure(), mark_rate_limited() and  *)
(* mark_transient() change the slot only if it still has the credential    *)
(* object of the attempt.  q is the requests' state after the attempt.     *)
Kinds == Events \cap {"reject", "limit", "fail", "read"}

Mark(s, a, kind, q) ==
  /\ cred' = IF kind = "reject"
             THEN [cred EXCEPT ![s].auth = NULL, ![s].mode = "failed"] ELSE cred
  /\ gate' = CASE kind = "limit" -> [gate EXCEPT ![s].limited = a]
               [] kind \in {"fail", "read"} -> [gate EXCEPT ![s].transient = TRUE]
               [] OTHER          -> gate
  /\ req' = IF kind = "reject" THEN Replaced(q, {s}) ELSE q

(* Bug: the outcome of a replaced credential counts against the new one.   *)
OutcomeUnfenced(r, kind, q) == Mark(req[r].slot, req[r].acct, kind, q)

Outcome(r, kind, q) ==
  IF req[r].live THEN Mark(req[r].slot, req[r].acct, kind, q)
  ELSE req' = q /\ UNCHANGED <<cred, gate>>

Released(s) == [inFlight EXCEPT ![s] = IF @ > 0 THEN @ - 1 ELSE 0]

(* The answer ends the request: a success, or an error that is not retried *)
(* on another slot; one that upstream reports while the answer is read     *)
(* marks the slot.  A finished request leaves room for a new one.          *)
Final(r) ==
  LET q == [req EXCEPT ![r] = Fresh] IN
  /\ req[r].pc = "upstream"
  /\ \/ req' = q /\ UNCHANGED <<cred, gate>>
     \/ \E kind \in Kinds \ {"read"} : Outcome(r, kind, q)
  /\ inFlight' = Released(req[r].slot)
  /\ UNCHANGED <<reading, usage, op>>

(* The answer is a stream: the slot is released when the stream is closed. *)
Streams(r) ==
  /\ "stream" \in Events
  /\ req[r].pc = "upstream"
  /\ req' = [req EXCEPT ![r] = [@ EXCEPT !.pc = "streaming", !.skipS = {}, !.skipA = {},
                                         !.late = FALSE]]
  /\ UNCHANGED <<cred, gate, inFlight, reading, usage, op>>

(* A retryable failure: the slot and its account are left out of the rest  *)
(* of the round, which has as many attempts as there are slots.            *)
Rejected(r, kind) ==
  LET p == req[r]
      skipped == p.skipS \cup {p.slot} IN
  /\ p.pc = "upstream"
  /\ inFlight' = Released(p.slot)
  /\ Outcome(r, kind, [req EXCEPT ![r] =
       [p EXCEPT !.pc = IF skipped = Slot THEN "exhausted" ELSE "scanning",
                 !.slot = NULL, !.acct = NULL, !.live = FALSE,
                 !.skipS = skipped, !.skipA = p.skipA \cup {p.acct}]])
  /\ UNCHANGED <<reading, usage, op>>

(* _mark_streaming_error(): a stream that fails to be read marks nothing.  *)
StreamFails(r, kind) ==
  /\ req[r].pc = "streaming"
  /\ kind # "read"
  /\ Outcome(r, kind, [req EXCEPT ![r].pc = "draining"])
  /\ UNCHANGED <<inFlight, reading, usage, op>>

(* cleanup_stream(), once.                                                 *)
StreamEnds(r) ==
  /\ req[r].pc \in {"streaming", "draining"}
  /\ req' = [req EXCEPT ![r] = Fresh]
  /\ inFlight' = Released(req[r].slot)
  /\ UNCHANGED <<cred, gate, reading, usage, op>>

(* The request's task is cancelled at an await.  Bug: it does not release  *)
(* its slot.                                                               *)
Cancellable == {"probing", "loading", "refreshing", "waiting"} \cup Busy

CancelHolding(r) ==
  /\ "cancel" \in Events
  /\ req[r].pc \in Cancellable
  /\ req' = [req EXCEPT ![r] = Fresh]
  /\ UNCHANGED <<cred, gate, inFlight, reading, usage, op>>

Cancel(r) ==
  /\ "cancel" \in Events
  /\ req[r].pc \in Cancellable
  /\ req' = [req EXCEPT ![r] = Fresh]
  /\ inFlight' = IF req[r].pc \in Busy THEN Released(req[r].slot) ELSE inFlight
  /\ UNCHANGED <<cred, gate, reading, usage, op>>

-----------------------------------------------------------------------------
(* The usage refresh that all requests and the dashboard share.            *)
UsageStarts ==
  /\ "usage" \in Events
  /\ usage.task = "idle"
  /\ usage' = [usage EXCEPT !.task = "discovering"]
  /\ UNCHANGED <<cred, gate, inFlight, reading, op, req>>

(* Requests resume when the task they waited for ends.                     *)
Resumed(q) ==
  [r \in Req |-> CASE q[r].pc = "probing"    -> [q[r] EXCEPT !.pc = "scanning"]
                   [] q[r].pc = "refreshing" -> [q[r] EXCEPT !.pc = "admitted"]
                   [] OTHER                  -> q[r]]

(* _refresh_usage_cache_locked() loads every slot and groups them by       *)
(* account.                                                                *)
UsageDiscovers ==
  /\ usage.task = "discovering"
  /\ \E G \in SUBSET Stale(Slot), bad \in {"backoff", "failed"} : Load(Slot, Slot, G, bad)
  /\ LET groups == [a \in Account |-> {s \in Slot : cred'[s].auth = a}]
         none == \A a \in Account : groups[a] = {}
         q == Replaced(req, Changed(Slot) \cup Stale(Slot)) IN
     /\ usage' = IF none THEN NoFetch ELSE [task |-> "fetching", slots |-> groups]
     /\ req' = IF none THEN Resumed(q) ELSE q
  /\ UNCHANGED <<inFlight, reading, op>>

(* _fetch_usage_account() ends for one account: the reading goes to the    *)
(* quota, and one below every reported limit clears the cooldown of the    *)
(* slots that were grouped under the account.                              *)
UsageReading(a, value, clear) ==
  LET rest == [usage.slots EXCEPT ![a] = {}]
      last == \A b \in Account : rest[b] = {} IN
  /\ usage.task = "fetching" /\ usage.slots[a] # {}
  /\ value = "stale" => ~clear
  /\ reading' = [reading EXCEPT ![a] = value]
  /\ gate' = IF clear THEN [s \in Slot |-> IF s \in usage.slots[a]
                                           THEN [gate[s] EXCEPT !.limited = NULL] ELSE gate[s]]
             ELSE gate
  /\ usage' = IF last THEN NoFetch ELSE [usage EXCEPT !.slots = rest]
  /\ req' = IF last THEN Resumed(req) ELSE req
  /\ UNCHANGED <<cred, inFlight, op>>

(* A reading is good for a minute.                                         *)
ReadingAges(a) ==
  /\ a \in Capped /\ reading[a] # "stale"
  /\ reading' = [reading EXCEPT ![a] = "stale"]
  /\ UNCHANGED <<cred, gate, inFlight, usage, op, req>>

-----------------------------------------------------------------------------
(* Someone logs the slot in anew, maybe to another account.                *)
Login(s, a) ==
  /\ "login" \in Events
  /\ ~cred[s].changed
  /\ cred' = [cred EXCEPT ![s].file = a, ![s].changed = TRUE]
  /\ UNCHANGED <<gate, inFlight, reading, usage, op, req>>

Expire(s) ==
  /\ "expire" \in Events
  /\ cred[s].mode = "good" /\ cred[s].auth # NULL
  /\ cred' = [cred EXCEPT ![s].mode = "stale"]
  /\ UNCHANGED <<gate, inFlight, reading, usage, op, req>>

(* auth_retry_at, rate_limited_until and transient_until pass.             *)
CooldownEnds(s) ==
  /\ \/ /\ cred[s].mode = "backoff"
        /\ cred' = [cred EXCEPT ![s].mode = "stale"] /\ UNCHANGED gate
     \/ /\ gate[s].limited # NULL
        /\ gate' = [gate EXCEPT ![s].limited = NULL] /\ UNCHANGED cred
     \/ /\ gate[s].transient
        /\ gate' = [gate EXCEPT ![s].transient = FALSE] /\ UNCHANGED cred
  /\ UNCHANGED <<inFlight, reading, usage, op, req>>

(* set_slot_routing_enabled(): load_auth(), the identity, and the override *)
(* written in another thread.                                              *)
OperatorStarts(s, enable) ==
  /\ "routing" \in Events
  /\ op = NULL
  /\ \E G \in SUBSET Stale({s}), bad \in {"backoff", "failed"} : Load({s}, {s}, G, bad)
  /\ op' = [slot |-> s, acct |-> cred'[s].auth, enable |-> enable]
  /\ req' = Replaced(req, Changed({s}) \cup Stale({s}))
  /\ UNCHANGED <<inFlight, reading, usage>>

OperatorCommits ==
  /\ op # NULL
  /\ gate' = [gate EXCEPT ![op.slot].off = IF op.enable THEN NULL
                                           ELSE IF op.acct = NULL THEN "unnamed" ELSE op.acct]
  /\ op' = NULL
  /\ UNCHANGED <<cred, inFlight, reading, usage, req>>

-----------------------------------------------------------------------------
Answers(r) ==
  \/ Final(r) \/ Streams(r)
  \/ \E kind \in Kinds : Rejected(r, kind)

Step(r) ==
  \/ Arrive(r) \/ Scan(r) \/ LoadEnds(r) \/ AdmitWaits(r) \/ Dispatch(r) \/ NoneChosen(r)
  \/ RoundEnds(r) \/ WaitEnds(r) \/ Answers(r) \/ StreamEnds(r)

UsageStep ==
  \/ UsageDiscovers
  \/ \E a \in Account, value \in {"ok", "full", "stale"}, clear \in BOOLEAN :
       UsageReading(a, value, clear)

Next ==
  \/ \E r \in Req : \/ Step(r) \/ WaitPolls(r) \/ Late(r) \/ Cancel(r)
                    \/ \E kind \in Kinds : StreamFails(r, kind)
  \/ UsageStep \/ UsageStarts
  \/ \E a \in Account : ReadingAges(a)
  \/ \E s \in Slot : \/ Expire(s) \/ CooldownEnds(s)
                     \/ \E a \in Account : Login(s, a)
                     \/ \E enable \in BOOLEAN : OperatorStarts(s, enable)
  \/ OperatorCommits

(* Fairness: the event loop runs every ready task, upstream and usage      *)
(* calls have timeouts, streams are closed, and clocks advance.            *)
Fairness ==
  /\ \A r \in Req : WF_vars(Step(r)) /\ WF_vars(Late(r))
  /\ WF_vars(UsageStep)

Spec == Init /\ [][Next]_vars /\ Fairness

-----------------------------------------------------------------------------
(* A slot counts exactly the requests that hold it, through failures,      *)
(* streams that outlive execute_chat() and cancellation; a leak would bias *)
(* slot selection for good.                                                *)
InFlightBalanced ==
  \A s \in Slot : inFlight[s] = Cardinality({r \in Req : req[r].pc \in Busy /\ req[r].slot = s})

(* A quota cooldown on a slot was caused by the account the slot has now:  *)
(* late answers for a credential that was replaced do not cool the new     *)
(* one.  (While no token expires; with that, SourceIsKept.)                *)
CooldownIsOwn ==
  \A s \in Slot : cred[s].auth # NULL /\ gate[s].limited # NULL => gate[s].limited = cred[s].auth

(* A slot agrees with its credential file, or will look at it again: it    *)
(* has that account's credential or none, and cools for its 429 or for     *)
(* none.                                                                   *)
Follows(s) ==
  \/ cred[s].changed
  \/ cred[s].auth \in {NULL, cred[s].file} /\ gate[s].limited \in {NULL, cred[s].file}

(* Whatever overlaps (answers to attempts on a credential that has been    *)
(* replaced, resets of the slot, refreshes, failures), only one step puts  *)
(* an account in a slot that is not its file's: the end of a refresh that  *)
(* a login to another account overtook (CodexAuthStore, SlotFollowsSource).*)
Overtaken(r, s) ==
  /\ req[r].pc = "loading" /\ req[r].slot = s /\ req[r].acct # cred[s].file
  /\ cred'[s].auth = req[r].acct

SourceIsKept ==
  [][\A s \in Slot : Follows(s) /\ ~Follows(s)' => \E r \in Req : Overtaken(r, s)]_vars

Selection == {"scanning", "loading", "admitting", "refreshing", "admitted"}

(* What a request knows of its credentials is true: a candidate's slot has *)
(* one and was passed by the scan, and the credential object of a live     *)
(* attempt is the current one of its slot, of the attempt's account.       *)
RequestsFit ==
  \A r \in Req :
    /\ req[r].pc \in Busy \cup {"loading"} => req[r].slot # NULL /\ req[r].acct # NULL
    /\ req[r].live => req[r].pc \in Busy /\ cred[req[r].slot].auth = req[r].acct
    /\ \A s \in req[r].cand : cred[s].auth # NULL
    /\ req[r].pc \notin Selection => req[r].cand = {}
    /\ req[r].pc \in {"scanning", "loading"} =>
         \A s \in req[r].cand : /\ req[r].slot # NULL /\ s <= req[r].slot
                                /\ req[r].pc = "loading" => s < req[r].slot

(* While no token expires none is refreshed either, and a quota cooldown   *)
(* is of the slot's account, or of a credential that was rejected.         *)
CooldownsFit ==
  "expire" \notin Events =>
    /\ \A r \in Req : req[r].pc # "loading"
    /\ \A s \in Slot :
         /\ cred[s].mode \in {"good", "failed"}
         /\ cred[s].mode = "failed" => cred[s].auth = NULL
         /\ gate[s].limited # NULL =>
              gate[s].limited = cred[s].auth \/ cred[s].mode = "failed"

(* The inductive invariant: how slots, requests and counters fit together  *)
(* at every await.                                                         *)
PoolInvariant == TypeOK /\ InFlightBalanced /\ RequestsFit /\ CooldownsFit

(* Every request is answered: failover, quota refreshes and waiting for a  *)
(* recovery are bounded, by the slots and by the request's deadline.       *)
RequestTerminates == \A r \in Req : (req[r].pc # "new") ~> (req[r].pc = "new")

-----------------------------------------------------------------------------
(* Two statements of the documentation that the code does not meet.        *)

(* docs/spartan-route.md: a usage reading clears the matching account's    *)
(* cooldown.                                                               *)
ReadingClearsOwn ==
  [][\A a \in Account, s \in Slot :
       /\ usage.slots[a] # {} /\ usage'.slots[a] = {}
       /\ gate[s].limited # NULL /\ gate'[s].limited = NULL
       => gate[s].limited = a]_vars

(* docs/spartan-route.md: with the usable slots cooling, a request waits   *)
(* until one recovers.  It does not go back to selection before a slot     *)
(* that can serve it is available.                                         *)
WaitsForRecovery ==
  [][\A r \in Req : (req[r].pc = "waiting" /\ req'[r].pc = "scanning") =>
       \E s \in Offers : Enabled(s) /\ ~Cooling(s)]_vars
=============================================================================
