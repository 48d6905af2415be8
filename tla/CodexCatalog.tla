---------------------------- MODULE CodexCatalog ----------------------------
(***************************************************************************)
(* Model discovery of Spartan Route (spartan_route/codex_catalog.py) and   *)
(* its publication (publish_catalog in spartan_route/app.py): which models *)
(* each slot's account offers, observed by a background pass over all      *)
(* slots, by a recovery that requests share, and published as one snapshot.*)
(*                                                                         *)
(* A step is the code between two awaits.  The models themselves are left  *)
(* out: an entry is what it was observed for.  Publishing is one step with *)
(* the recheck before it, because routing_policy_lock is never held across *)
(* an await, so taking it does not suspend.                                *)
(***************************************************************************)
EXTENDS Integers, FiniteSets

CONSTANTS
  NSlots,       \* slots of the router
  Account,      \* subscription accounts
  MaxWaiters,   \* bound: requests that wait in recover() at a time
  Concurrency,  \* RECOVERY_FETCH_CONCURRENCY
  Initial,      \* the accounts the auth files start with
  Relogged,     \* bound: the slots whose auth file is replaced
  Toggled,      \* bound: the slots whose routing override is changed
  MaxLogins,    \* bound: replacements of one auth file
  MaxResets,    \* bound: calls of reset()
  NULL          \* the absent value

Slot == 1..NSlots

ASSUME CatalogAssumption ==
  /\ NSlots \in Nat \ {0} /\ Concurrency \in Nat \ {0}
  /\ Relogged \subseteq Slot /\ Toggled \subseteq Slot
  /\ MaxWaiters \in Nat /\ MaxLogins \in Nat /\ MaxResets \in Nat
  /\ Initial \subseteq Account
  /\ IsFiniteSet(Account) /\ NULL \notin Account \cup {"bg", "rec"}

(* An auth file: its fingerprint and the account in it, NULL when the file *)
(* cannot be read or names none.                                           *)
Source == [ver : 0..MaxLogins, acct : Account \cup {NULL}]

(* A SlotCatalog; `gen` is the generation of the pass that fetched it.     *)
Entry == [acct : Account, ver : 0..MaxLogins, gen : 0..(MaxResets + 1)]

VARIABLES
  file,        \* the bootstrap auth file of each slot
  seen,        \* slot.auth_source_fingerprint, NULL before the first load
  auth,        \* the account of slot.auth
  enabled,     \* slot_routing_status(slot)["routingEnabled"]
  due,         \* an override is stored, the slot not yet invalidated
  slots,       \* CodexModelDiscovery.slots
  generation,  \* _generation
  stopped,     \* _stopped
  wake,        \* _wake is set
  news,        \* schedule_refresh() was called since the last pass began
  bg,          \* the background task: where it is, and its generation
  rec,         \* the recovery task
  recent,      \* less than RECOVERY_MIN_SECONDS since a recovery started
  lock,        \* holder of _refresh_lock
  pass,        \* locals of the _refresh() that holds the lock
  waiting      \* the number of requests that wait in recover()

slotVars == <<file, seen, auth, enabled, due>>
taskVars == <<bg, rec, recent, lock, pass, waiting>>
vars == <<slotVars, slots, generation, stopped, wake, news, taskVars>>

Stages == {"todo", "load", "fetch", "done"}

(* Between passes the locals are gone.                                     *)
NoPass ==
  [gen |-> 0, stage |-> [s \in Slot |-> "todo"],
   got |-> [s \in Slot |-> NULL], staged |-> [s \in Slot |-> NULL]]

Tokens == [acct : Account, ver : 0..MaxLogins]

ASSUME AbsentAssumption == NULL \notin Tokens

Pass == [gen : 0..(MaxResets + 1), stage : [Slot -> Stages],
         got : [Slot -> Tokens \cup {NULL}], staged : [Slot -> Entry \cup {NULL}]]

(* Every variable has the values the code gives it.                        *)
TypeOK ==
  /\ file \in [Slot -> Source]
  /\ seen \in [Slot -> 0..MaxLogins \cup {NULL}]
  /\ auth \in [Slot -> Account \cup {NULL}]
  /\ enabled \in [Slot -> BOOLEAN] /\ due \in [Slot -> BOOLEAN]
  /\ slots \in [Slot -> Entry \cup {NULL}]
  /\ generation \in 0..(MaxResets + 1)
  /\ stopped \in BOOLEAN /\ wake \in BOOLEAN /\ news \in BOOLEAN
  /\ bg \in [at : {"sleep", "begin", "pass", "over"}, gen : 0..(MaxResets + 1)]
  /\ rec \in [at : {"none", "begin", "pass"},
              gen : 0..(MaxResets + 1)]
  /\ recent \in BOOLEAN
  /\ lock \in {NULL, "bg", "rec"}
  /\ pass \in Pass
  /\ waiting \in 0..MaxWaiters

Init ==
  /\ file \in [Slot -> {[ver |-> 0, acct |-> a] : a \in Initial}]
  /\ seen = [s \in Slot |-> NULL]
  /\ auth = [s \in Slot |-> NULL]
  /\ enabled = [s \in Slot |-> TRUE]
  /\ due = [s \in Slot |-> FALSE]
  /\ slots = [s \in Slot |-> NULL]
  /\ generation = 0
  /\ stopped = FALSE /\ wake = FALSE /\ news = FALSE
  /\ bg = [at |-> "begin", gen |-> 0]
  /\ rec = [at |-> "none", gen |-> 0]
  /\ recent = FALSE
  /\ lock = NULL
  /\ pass = NoPass
  /\ waiting = 0

-----------------------------------------------------------------------------
(* The identity an entry must have to be used with slot s.                 *)

(* Whether entry e belongs to account a and to the file of slot s as it is.*)
Current(s, e, a) ==
  /\ e # NULL /\ a # NULL
  /\ e.acct = a /\ file[s].acct = a /\ e.ver = file[s].ver

(* Bug: a wake-up that arrives during a pass is dropped.                   *)
ScheduleAsleep == wake' = (wake \/ bg.at = "sleep") /\ news' = TRUE

(* schedule_refresh()                                                      *)
Schedule == wake' = TRUE /\ news' = TRUE

(* _current() wakes discovery when it meets an entry of another identity.  *)
Mismatch(s) == slots[s] # NULL /\ ~Current(s, slots[s], auth[s])

WakeIf(condition) ==
  /\ wake' = (wake \/ condition)
  /\ news' = (news \/ condition)

-----------------------------------------------------------------------------
(* The surroundings: credentials, overrides, requests' use of the slots.   *)

(* The login tool replaces the auth file, or it becomes unusable.          *)
Login(s) ==
  /\ s \in Relogged
  /\ file[s].ver < MaxLogins
  /\ \E a \in Account \cup {NULL} :
       file' = [file EXCEPT ![s] = [ver |-> @.ver + 1, acct |-> a]]
  /\ UNCHANGED <<seen, auth, enabled, due, slots, generation, stopped, wake,
                 news, taskVars>>

(* Some load_auth() finds another file than it knew.                       *)
Detect(s) ==
  /\ seen[s] \notin {NULL, file[s].ver}
  /\ seen' = [seen EXCEPT ![s] = file[s].ver]
  /\ auth' = [auth EXCEPT ![s] = NULL]
  /\ slots' = [slots EXCEPT ![s] = NULL]
  /\ Schedule
  /\ UNCHANGED <<file, enabled, due, generation, stopped, taskVars>>

(* Some load_auth() of another coroutine adopts a credential or drops it;  *)
(* one that was in flight during a login brings the account of an earlier  *)
(* file.                                                                   *)
Adopt(s) ==
  /\ s \in Relogged
  /\ \E a \in {NULL} \cup (IF file[s].ver = 0 THEN {file[s].acct} ELSE Account) :
       a # auth[s] /\ auth' = [auth EXCEPT ![s] = a]
  /\ seen' = [seen EXCEPT ![s] = IF @ = NULL THEN file[s].ver ELSE @]
  /\ UNCHANGED <<file, enabled, due, slots, generation, stopped, wake, news,
                 taskVars>>

(* set_slot_routing_enabled() stores the override in a thread ...          *)
RoutingChanges(s) ==
  /\ s \in Toggled /\ ~due[s]
  /\ enabled' = [enabled EXCEPT ![s] = ~@]
  /\ due' = [due EXCEPT ![s] = TRUE]
  /\ UNCHANGED <<file, seen, auth, slots, generation, stopped, wake, news,
                 taskVars>>

(* ... and invalidates the slot when the thread has answered.              *)
InvalidateSlot(s) ==
  /\ due[s]
  /\ due' = [due EXCEPT ![s] = FALSE]
  /\ slots' = [slots EXCEPT ![s] = NULL]
  /\ Schedule
  /\ UNCHANGED <<file, seen, auth, enabled, generation, stopped, taskVars>>

(* eligibility() for a request: an entry of another identity is not used,  *)
(* and discovery is woken.                                                 *)
Lookup(s) ==
  /\ Mismatch(s)
  /\ ~(wake /\ news)
  /\ Schedule
  /\ UNCHANGED <<slotVars, slots, generation, stopped, taskVars>>

(* 24 hours pass: _current(), the recheck and eligibility() ignore an      *)
(* entry that old, as if it had been dropped.                              *)
Expire(s) ==
  /\ slots[s] # NULL
  /\ slots' = [slots EXCEPT ![s] = NULL]
  /\ pass' = [pass EXCEPT !.staged[s] = IF @ = slots[s] THEN NULL ELSE @]
  /\ UNCHANGED <<slotVars, generation, stopped, wake, news, bg, rec, recent,
                 lock, waiting>>

-----------------------------------------------------------------------------
(* One pass: _refresh(), by the background task or by the recovery.        *)

Owner == IF lock = "bg" THEN bg ELSE rec

Working == {s \in Slot : pass.stage[s] \in {"load", "fetch"}}

(* Slots are taken in order: by the background task one after the other,   *)
(* by the recovery up to Concurrency at a time.                            *)
MayBegin(s) ==
  /\ \A t \in 1..(s - 1) : pass.stage[t] # "todo"
  /\ Cardinality(Working) < (IF lock = "bg" THEN 1 ELSE Concurrency)

(* Slot s is dealt with; `entry` is what the pass has for it.              *)
Finish(s, entry) ==
  pass' = [pass EXCEPT !.stage[s] = "done", !.staged[s] = entry,
                       !.got[s] = NULL]

(* What the pass may keep of the published snapshot for slot s.            *)
Retained(s, a) == IF Current(s, slots[s], a) THEN slots[s] ELSE NULL

(* The pass is over: its task sleeps or ends, the coroutines that wait for *)
(* a recovery get its outcome.                                             *)
Leave(task) ==
  /\ IF task = "bg"
       THEN bg' = [bg EXCEPT !.at = "sleep"] /\ UNCHANGED <<rec, waiting>>
       ELSE /\ rec' = [rec EXCEPT !.at = "none"]
            /\ waiting' = 0
            /\ UNCHANGED bg
  /\ UNCHANGED recent

(* _run(): woken, or an hour has passed; refresh() notes the generation.   *)
BgWakes ==
  /\ bg.at = "sleep"
  /\ bg' = [at |-> "begin", gen |-> generation]
  /\ wake' = FALSE /\ news' = FALSE
  /\ UNCHANGED <<slotVars, slots, generation, stopped, rec, recent, lock, pass,
                 waiting>>

(* _refresh() gets the lock in the generation it was started for.  Entries *)
(* of slots that have a credential and are enabled are carried over.       *)
PassBegins(task) ==
  LET gen == IF task = "bg" THEN bg.gen ELSE rec.gen
      looked == {s \in Slot : auth[s] # NULL /\ enabled[s]}
  IN
    /\ lock = NULL
    /\ IF task = "bg" THEN bg.at = "begin" ELSE rec.at = "begin"
    /\ gen = generation
    /\ lock' = task
    /\ pass' = [NoPass EXCEPT !.gen = gen,
                  !.staged = [s \in Slot |->
                    IF s \in looked THEN Retained(s, auth[s]) ELSE NULL]]
    /\ WakeIf(\E s \in looked : Mismatch(s))
    /\ bg' = IF task = "bg" THEN [bg EXCEPT !.at = "pass"] ELSE bg
    /\ rec' = IF task = "rec" THEN [rec EXCEPT !.at = "pass"] ELSE rec
    /\ UNCHANGED <<slotVars, slots, generation, stopped, recent, waiting>>

(* A pass that waited for the lock across a reset() does nothing.          *)
PassObsolete ==
  /\ lock = NULL
  /\ bg.at = "begin" /\ bg.gen # generation
  /\ Leave("bg")
  /\ UNCHANGED <<slotVars, slots, generation, stopped, wake, news, lock, pass>>

(* fetch_slot(): a disabled slot is left out.                              *)
SkipDisabled(s) ==
  /\ lock # NULL
  /\ pass.stage[s] = "todo" /\ MayBegin(s)
  /\ ~enabled[s]
  /\ Finish(s, NULL)
  /\ UNCHANGED <<slotVars, slots, generation, stopped, wake, news, bg, rec,
                 recent, lock, waiting>>

(* Bug: a credential without an account is accepted.                       *)
AnyCredential(s, acct) == [acct |-> acct, ver |-> file[s].ver]

(* What load_auth() will return; nothing when no account is known.         *)
Credential(s, acct) ==
  IF acct = NULL THEN NULL ELSE [acct |-> acct, ver |-> file[s].ver]

(* fetch_slot() calls load_auth(), which first notices a changed file and  *)
(* then uses the cached credential or the one in the file.                 *)
LoadBegins(s) ==
  LET changed == seen[s] \notin {NULL, file[s].ver}
      acct == IF changed \/ auth[s] = NULL THEN file[s].acct ELSE auth[s]
  IN
    /\ lock # NULL
    /\ pass.stage[s] = "todo" /\ MayBegin(s)
    /\ enabled[s]
    /\ seen' = [seen EXCEPT ![s] = file[s].ver]
    /\ auth' = IF changed THEN [auth EXCEPT ![s] = NULL] ELSE auth
    /\ slots' = IF changed THEN [slots EXCEPT ![s] = NULL] ELSE slots
    /\ WakeIf(changed)
    /\ pass' = [pass EXCEPT !.stage[s] = "load",
                  !.got[s] = Credential(s, acct)]
    /\ UNCHANGED <<file, enabled, due, generation, stopped, bg, rec, recent,
                   lock, waiting>>

(* load_auth() returns nothing: the slot keeps no entry.                   *)
LoadFails(s) ==
  /\ lock # NULL
  /\ pass.stage[s] = "load"
  /\ Finish(s, NULL)
  /\ UNCHANGED <<slotVars, slots, generation, stopped, wake, news, bg, rec,
                 recent, lock, waiting>>

(* load_auth() returns a credential.  Unless the file meanwhile belongs to *)
(* another account, its models are requested; until they arrive the entry  *)
(* that was published for it remains.                                      *)
LoadEnds(s) ==
  LET acct == pass.got[s].acct
      fits == file[s].acct = acct
  IN
    /\ lock # NULL
    /\ pass.stage[s] = "load" /\ pass.got[s] # NULL
    /\ auth' = [auth EXCEPT ![s] = acct]
    /\ WakeIf(fits /\ slots[s] # NULL /\ Retained(s, acct) = NULL)
    /\ pass' = [pass EXCEPT
                  !.stage[s] = IF fits THEN "fetch" ELSE "done",
                  !.staged[s] = IF fits THEN Retained(s, acct) ELSE NULL,
                  !.got[s] = IF fits THEN [acct |-> acct, ver |-> file[s].ver]
                                     ELSE NULL]
    /\ UNCHANGED <<file, seen, enabled, due, slots, generation, stopped, bg,
                   rec, recent, lock, waiting>>

(* The request fails, and so does its repetition with the baseline client  *)
(* version if it was sent with a newer one: what was retained stays.       *)
FetchFails(s) ==
  /\ lock # NULL
  /\ pass.stage[s] = "fetch"
  /\ Finish(s, pass.staged[s])
  /\ UNCHANGED <<slotVars, slots, generation, stopped, wake, news, bg, rec,
                 recent, lock, waiting>>

(* The models arrive: they count if the slot still is what it was.         *)
FetchEnds(s) ==
  LET got == pass.got[s]
      same == /\ file[s] = [ver |-> got.ver, acct |-> got.acct]
              /\ auth[s] = got.acct
              /\ enabled[s]
  IN
    /\ lock # NULL
    /\ pass.stage[s] = "fetch"
    /\ Finish(s, IF same
         THEN [acct |-> got.acct, ver |-> got.ver, gen |-> pass.gen]
         ELSE NULL)
    /\ UNCHANGED <<slotVars, slots, generation, stopped, wake, news, bg, rec,
                   recent, lock, waiting>>

(* Every slot was handled, or the deadline of the recovery has cancelled   *)
(* what was left.                                                          *)
Fetched ==
  /\ lock # NULL
  /\ lock = "rec" \/ \A s \in Slot : pass.stage[s] = "done"

(* Bug: what was staged is published as it is.                             *)
StagedAsIs == pass.staged

(* The recheck of every entry after the last fetch.                        *)
Rechecked ==
  [s \in Slot |->
     IF enabled[s] /\ Current(s, pass.staged[s], auth[s])
       THEN pass.staged[s] ELSE NULL]

(* The end of _refresh(), with publish_catalog() and install_snapshot():   *)
(* the snapshot of an obsolete generation is dropped.                      *)
Publish ==
  /\ Fetched
  /\ slots' = IF pass.gen = generation THEN Rechecked ELSE slots
  /\ lock' = NULL
  /\ pass' = NoPass
  /\ Leave(lock)
  /\ UNCHANGED <<slotVars, generation, stopped, wake, news>>

(* Bug: the exception of a failed publication ends the background task.    *)
PublishFailsForGood ==
  /\ Fetched
  /\ lock' = NULL
  /\ pass' = NoPass
  /\ IF lock = "bg" THEN bg' = [bg EXCEPT !.at = "over"] /\ UNCHANGED <<rec, waiting>>
                   ELSE /\ rec' = [rec EXCEPT !.at = "none"] /\ waiting' = 0
                        /\ UNCHANGED bg
  /\ UNCHANGED <<slotVars, slots, generation, stopped, wake, news, recent>>

(* The routing policy could not be built: nothing is installed.            *)
PublishFails ==
  /\ Fetched
  /\ lock' = NULL
  /\ pass' = NoPass
  /\ Leave(lock)
  /\ UNCHANGED <<slotVars, slots, generation, stopped, wake, news>>

-----------------------------------------------------------------------------
(* recover() and the life cycle.                                           *)

(* A request joins the recovery that is running, or starts one unless one  *)
(* was started within the last minute.                                     *)
Recover ==
  /\ waiting < MaxWaiters /\ ~stopped
  /\ \/ rec.at # "none" /\ UNCHANGED <<rec, recent>>
     \/ /\ rec.at = "none" /\ ~recent
        /\ rec' = [at |-> "begin", gen |-> generation]
        /\ recent' = TRUE
  /\ waiting' = waiting + 1
  /\ UNCHANGED <<slotVars, slots, generation, stopped, wake, news, bg, lock,
                 pass>>

(* A request is cancelled; the task is shielded.                           *)
CancelWaiter ==
  /\ waiting > 0
  /\ waiting' = waiting - 1
  /\ UNCHANGED <<slotVars, slots, generation, stopped, wake, news, bg, rec,
                 recent, lock, pass>>

(* The deadline passes while the recovery waits for the lock, or while it  *)
(* waits for the fetches it has cancelled.                                 *)
RecoveryTimesOut ==
  /\ \/ rec.at = "begin" /\ UNCHANGED <<lock, pass>>
     \/ rec.at = "pass" /\ Working # {} /\ lock' = NULL /\ pass' = NoPass
  /\ Leave("rec")
  /\ UNCHANGED <<slotVars, slots, generation, stopped, wake, news>>

(* The minute is longer than the deadline of a recovery.                   *)
MinutePasses ==
  /\ recent /\ rec.at = "none"
  /\ recent' = FALSE
  /\ UNCHANGED <<slotVars, slots, generation, stopped, wake, news, bg, rec, lock,
                 pass, waiting>>

(* reset() and stop() cancel the recovery, which gives the lock back; its  *)
(* waiters get the outcome "stopped".                                      *)
AbortRecovery ==
  /\ rec' = [rec EXCEPT !.at = "none"]
  /\ waiting' = 0
  /\ UNCHANGED recent

(* reset_state() of the router: new slots, nothing cached, a new           *)
(* generation.  The background pass goes on and finds out at its end.      *)
Reset ==
  /\ ~stopped /\ generation < MaxResets
  /\ generation' = generation + 1
  /\ AbortRecovery
  /\ lock' = IF lock = "rec" THEN NULL ELSE lock
  /\ pass' = IF lock = "rec" THEN NoPass ELSE pass
  /\ slots' = [s \in Slot |-> NULL]
  /\ seen' = [s \in Slot |-> NULL]
  /\ auth' = [s \in Slot |-> NULL]
  /\ Schedule
  /\ UNCHANGED <<file, enabled, due, stopped, bg>>

(* stop(): both tasks are cancelled and awaited.                           *)
Stop ==
  /\ ~stopped
  /\ stopped' = TRUE
  /\ generation' = generation + 1
  /\ bg' = [bg EXCEPT !.at = "over"]
  /\ AbortRecovery
  /\ lock' = NULL
  /\ pass' = NoPass
  /\ UNCHANGED <<slotVars, slots, wake, news>>

-----------------------------------------------------------------------------
(* What follows stop() is of no interest.                                  *)
Surroundings ==
  ~stopped /\ \E s \in Slot :
    \/ Login(s) \/ Detect(s) \/ Adopt(s)
    \/ RoutingChanges(s) \/ InvalidateSlot(s)
    \/ Lookup(s) \/ Expire(s)

Stopped == stopped /\ UNCHANGED vars

PassStep ==
  \/ \E s \in Slot : \/ SkipDisabled(s) \/ LoadBegins(s) \/ LoadFails(s)
                     \/ LoadEnds(s) \/ FetchFails(s) \/ FetchEnds(s)
  \/ Publish \/ PublishFails

Next ==
  \/ Surroundings
  \/ BgWakes \/ PassObsolete
  \/ \E task \in {"bg", "rec"} : PassBegins(task)
  \/ PassStep
  \/ Recover \/ CancelWaiter
  \/ RecoveryTimesOut \/ MinutePasses
  \/ Reset \/ Stop \/ Stopped

(* The event loop runs the background task when it can go on, and          *)
(* asyncio.Lock, first come, first served, does not pass it over for ever; *)
(* loads and fetches have timeouts, so the pass that has the lock goes on. *)
(* The surroundings owe nothing.                                           *)
BgStep == BgWakes \/ PassObsolete \/ PassBegins("bg")

Spec == Init /\ [][Next]_vars /\ SF_vars(BgStep) /\ WF_vars(PassStep)

-----------------------------------------------------------------------------
(* Safety.                                                                 *)

(* While discovery sleeps with no wake-up pending, nothing has asked for a *)
(* refresh since its last pass began: an invalidation that arrives during  *)
(* a pass is not swallowed by the end of that pass.                        *)
NoLostWake == bg.at = "sleep" /\ news => wake

(* A request that waits in recover() waits for a task that exists: the     *)
(* cancellation of another request does not take the recovery away.        *)
WaitersHaveTask ==
  waiting > 0 => rec.at \in {"begin", "pass"}

(* One pass at a time: the lock belongs to the task that is in a pass, and *)
(* a pass that is not finished leaves nothing behind when it is cancelled. *)
LockMatchesPass ==
  /\ lock = "bg" <=> bg.at = "pass"
  /\ lock = "rec" <=> rec.at = "pass"
  /\ lock = NULL => pass = NoPass

(* How tasks, lock, wake-up and requests fit together at every await.      *)
TasksAgree == NoLostWake /\ WaitersHaveTask /\ LockMatchesPass

(* The number of resets; stop() counts a generation only to fence off what *)
(* still runs.                                                             *)
Era == IF stopped THEN generation - 1 ELSE generation

(* No entry outlives a reset: whatever is published was fetched in the     *)
(* present era, and whatever a pass of the present generation would        *)
(* publish too, the entries it retains included.                           *)
GenerationsFit ==
  /\ ~stopped => generation <= MaxResets
  /\ bg.at = "over" <=> stopped
  /\ stopped => rec.at = "none"
  /\ pass.gen <= generation
  /\ \A s \in Slot :
       /\ slots[s] # NULL => slots[s].gen = Era
       /\ pass.gen = generation /\ pass.staged[s] # NULL => pass.staged[s].gen = generation
       /\ pass.stage[s] = "fetch" => pass.got[s] \in Tokens

(* The inductive invariant: what was asked for stays pending until a pass  *)
(* begins, also while one is under way.                                    *)
CatalogInvariant == TypeOK /\ TasksAgree /\ GenerationsFit /\ (news => wake)

-----------------------------------------------------------------------------
(* The catalog implements the register: whatever is published was fetched  *)
(* after the last reset and belongs to the credential its slot has at that *)
(* moment, although credentials, files and overrides change during fetches.*)
Identified(e) == [acct |-> e.acct, ver |-> e.ver]

UsableIdentity(s) ==
  IF auth[s] # NULL /\ enabled[s] /\ file[s].acct = auth[s]
    THEN [acct |-> auth[s], ver |-> file[s].ver] ELSE NULL

Usable == [s \in Slot |-> UsableIdentity(s)]

Observed ==
  [s \in Slot |-> IF slots[s] = NULL THEN NULL
                  ELSE [about |-> Identified(slots[s]), era |-> slots[s].gen]]

Register == INSTANCE CatalogRegister WITH
  Identity <- Tokens,  NoEntry <- NULL,
  identity <- Usable,  era <- Era,  observed <- Observed

(* The refinement: every step of discovery is a step of the register.      *)
ImplementsRegister == Register!Spec

(* Every request for a refresh leads to a new pass of the background task, *)
(* unless discovery is stopped: no reset, cancelled recovery or failed     *)
(* publication leaves it waiting for the lock.                             *)
NewsIsFollowed == news ~> (~news \/ stopped)
=============================================================================
