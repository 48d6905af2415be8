# Formal models of Spartan Gate

TLA+ models of the parts of this repository whose correctness depends on the
order of events: most of **Spartan Route** (`infra/spartan-route/spartan_route/`),
the asyncio service that spreads model requests over several Codex subscription
slots; the **workstation broker** (`scripts/workstation-*-broker.py`), which runs
terminals and file transfers for a gateway; and the **Camofox supervisor**
(`infra/camofox/`), which keeps a browser usable. All source paths below are
relative to the repository's root; a file name alone is unambiguous.
`PROJECT.json` maps every definition to the lines it models.

Contents: [components](#1-the-system),
[modules](#2-modules-and-how-they-correspond-to-the-code), [properties](#3-properties),
[runs](#4-runs-and-bounds), [fairness](#5-fairness), [proofs](#6-proofs),
[divergences](#7-where-code-and-documentation-disagree),
[limits](#8-what-is-not-modelled), [plan](#9-plan).

## 1. The system

Spartan Gate runs assistants behind a gateway. Most of it is configuration of
other programs; the logic of its own is in a few services.

### Modelled components

**Codex WebSocket transport** (`transport.py`).
*State*: a list of `Connection` objects (`connecting`, `busy`, `idle`,
`closing`), keyed by account, digest of the credential and conversation scope;
the last credential generation of each account; digests whose upgrade was
refused; an `asyncio.Lock`; the `closing` flag.
*Operations*: `open()`, `reserve()`, `release()`, `discard()`, the keeper
`_idle()`, the close task `_close()`, `close()`, and reading events of a response.
*Interaction*: `codex.py` calls `open()` once per attempt and iterates over the
response; `FailureResponse` tells it whether another attempt is allowed.
*Hard*: `reserve()` awaits the idle task of the connection it has chosen while
it holds the lock; closers run as tasks of their own; a shutdown happens at any
await; a send that fails may have been delivered.
*Correct when* the pool respects its bounds, no connection is shared or used with
a replaced credential, a request that may have been delivered is not repeated,
and every discarded connection leaves.

**Codex credential store** (`codex.py` 831-1362).
*State*: per process and slot the cached auth, the fingerprint of a terminally
rejected credential, the bootstrap source last seen, a retry time; two files
(bootstrap auth, written by the login tool, and managed state, written by a
refresh); an asyncio lock per process and a file lock between processes.
*Operations*: `load_auth()`, `_load_candidate()`, `_refresh()`,
`_persist_refresh()`, `_quarantine_auth_failure()`.
*Interaction*: called by every selection, by the usage refresh, the catalog, the
realtime service and the operator's endpoints; the provider consumes a refresh grant
when it answers, whether or not the answer is received or written.
*Hard*: two locks of different kinds, a network call under both, a crash or
cancellation at each of them, files that change meanwhile.
*Correct when* a grant is posted once, no token is used that a restart would
lose, locks are given back, and a waiting `load_auth()` returns.

**Codex slot pool and request failover** (`codex.py` 606-820, 1364-1882,
2849-3534; `quota_limits.py`; `attempt.py`).
*State*: per slot the cached auth, `rate_limited_until`, `transient_until`,
`in_flight`, the routing override; per account the last quota reading; the shared
usage refresh task; per request the exclusions and the deadline of `execute_chat()`.
*Operations*: `execute_chat()` with `slot_availability()`,
`_operational_candidates()`, `operational_admission()`, `choose_slot()`,
`_wait_for_temporary_recovery()`, the outcome marks, stream cleanup; the usage
refresh; `set_slot_routing_enabled()`.
*Interaction*: uses the credential store for every slot it looks at and the
transport for every attempt.
*Hard*: selection crosses many awaits (the refresh of each slot, a usage
refresh all requests share) while cooldowns, credentials, quotas and overrides
change; outcomes arrive after the credential they belong to was replaced;
streams outlive the call that chose the slot.
*Correct when* in-flight counts are exact, a slot keeps the account of its credential
file whatever overlaps, an outcome affects only the credential that earned it, and every
request is answered.

**Model catalog** (`codex_catalog.py`, published by `app.py`).
*State*: the published snapshot (per slot the models seen, for which account, file
and generation), the generation, the wake-up event, a lock, the background task, the
recovery task and when it started.
*Operations*: `_run()`, `refresh()`, `_refresh()`, `recover()`, `reset()`, `stop()`,
`invalidate_slot()`, `eligibility()`, `schedule_refresh()`.
*Interaction*: looks at every slot through the credential store; requests without
a suitable slot join a recovery; publication installs catalog and routing policy together.
*Hard*: a pass takes many awaits, during which slots are logged in, disabled,
reset and invalidated; a wake-up may come in the middle of a pass; the recovery is
shared by requests that may be cancelled, and holds the lock when it times out.
*Correct when* a published entry belongs to the credential its slot has, an
obsolete pass publishes nothing, and every request for a refresh is served.

**Realtime voice sessions** (`realtime.py`).
*State*: reservations with their phase, account, credential and timer, tickets, the
tasks of their handlers, the `closing` flag.
*Operations*: `mint()`, `websocket()` with `relay()`, `reserve()`, `bind()`,
`issue()`, `redeem()`, `release()`, the ticket's timer, `shutdown()`.
*Interaction*: uses the credential store, the quota admission and the slots of the pool.
*Hard*: the bound of the account can only be applied after awaits; a ticket's timer
races its redemption, a release races the timer and the shutdown.
*Correct when* the bounds hold across all of it, nothing is dialled for another
account than the one admitted, and every reservation ends.

**Workstation broker** (`workstation-terminal-broker.py`,
`workstation-transfer-broker.py`).
*State*: the pinned gateway and its epoch, the closed flag of a rotation,
`gateway_lock`, terminal processes, `operation_slots`, reservations, active streams.
*Operations*: authorising a peer, `_monitor_pin()`,
`revoke_for_gateway_rotation()`, `activate_gateway_epoch()`, the guards,
`handle()`, `handle_control()`, `handle_stream()`, reader and deadline threads.
*Interaction*: the authorizer rotates the process broker, which revokes the
transfers; both share slots and lock.
*Hard*: real threads; a request of a dead gateway may still be queued; a
revocation meets a process that is being started, a stream past its checks, an
upload being moved into place.
*Correct when* nothing of an old epoch survives or appears after a rotation, no slot
is given back twice, nobody waits for ever for a lock or a slot, and a gateway that
stays up is served in the end.

**Camofox supervisor and browser lifecycle** (`supervisor.py`,
`spartan-lifecycle.mjs`, `spartan-health.mjs`, `patch-server.js`).
*State*: in Node the lease of the browser, its queue, the recovery, the degraded
latch, the last proof of health; in PID 1 the child, the readiness file, failures in
a row, the ledger of recycles on disk.
*Operations*: `run()`, `invalidate()`, `recover()`, `markDegraded()`, deep
probe, `POST /spartan/recover`; the watch loop of PID 1, stopping and starting the
process tree, recording a recycle, backoff inside and outside the container.
*Interaction*: PID 1 asks over HTTP and signals the process group; the kernel kills the
namespace with PID 1; Docker starts the container again.
*Hard*: operations that never return because the browser hangs, processes
that do not die, PID 1 killed between any two steps, answers that come too late.
*Correct when* no server is started beside what PID 1 tracks of the one before, a
browser is not replaced under an operation that uses it, the escalation is not
forgotten early, and a hung browser is replaced.

### Components not modelled

| Component | State and operations | What makes it hard | Correct when |
|---|---|---|---|
| Cache leases (`codex.py` 1364-1444) | map from cache key to slot and account, bounded, with an idle time | lease created at selection, used after failures and logins | a lease never sends a conversation to another account, the map stays bounded |
| Usage controller (`codex.py` 2849-3410) | cached snapshots, generation, single-flight task; what changes slots is in CodexPool | cancelled or retired refreshes that end late | a retired refresh publishes nothing; waiters all get an answer |
| Response collection (`codex.py` 1884-2847, `native_responses.py`, `reasoning_replay.py`) | buffers of one response | incomplete, empty and failed responses | the client sees one terminal event; material output is not retried |
| HTTP application and policy (`app.py`, `provider_policy.py`, `model_variants.py`, ...) | request handling, tiers, translation | fallback between providers | a request takes the providers its tier lists, in order |
| Telemetry (`telemetry.py`, `pi_usage*.py`) | SQLite tables | writers in threads | reports only; requests do not depend on them |
| Workstation bridge and plugin | installation, client of the broker's sockets | sequential | |
| Reader, voice relay, speech, tool access | small servers | little shared state | |
| Network, ingress, operator scripts, Hermes and Pi plugins | shell, configuration, patches of other programs | | |

## 2. Modules and how they correspond to the code

```
BoundedResources          bounded tables of owned items        (abstract)
  ^ implemented by CodexTransport          connection pool          <-- CodexTransportProofs
  ^ implemented by RealtimeReservations    sessions (by client, by account)
                                                                    <-- RealtimeReservationsProofs
CatalogRegister           a register of current observations   (abstract)
  ^ implemented by CodexCatalog            discovery, recovery      <-- CodexCatalogProofs
CodexAuthStore            one slot's credential, several processes  <-- CodexAuthStoreProofs
CodexPool                 slots, requests, usage refresh            <-- CodexPoolProofs
WorkstationBroker         authorizer, processes and transfers       <-- WorkstationBrokerProofs
BrowserLifecycle          lease, queue and recovery of the browser  <-- BrowserLifecycleProofs
  ^ extended by CamofoxSupervisor          browser, probes, PID 1   <-- CamofoxSupervisorProofs
MC...                     TLC instances of each
```

The Python services and Node are cooperative: there **the code between two awaits is
one step**. An action's guard is where its coroutine is suspended (`pc` and the
like) and the conditions of that stretch of code. An operation that may suspend
is several actions; a call that cannot suspend is part of the caller's. In the
workstation broker, which has threads, a step is what happens between two waits or
inside one locked region.

Definitions whose comment starts with "Bug:" are not part of any specification.
Each is a plausible mistake in the definition that follows it (counting only
live connections, releasing no slot on cancellation, ...) and is listed under
`mutants`: with it in place the named property fails.

**CodexTransport.** `phase`, `pooled`, `ckey`, `retire`, `wear` are the fields
of the `Connection` objects; `closers` counts pending `_close()` tasks, which may
be two after a shutdown; `lock` is non-NULL only across the one await under the
lock (joining an idle task). `Open` is `open()` up to `reserve()`; `ReserveIdle`,
`ReserveFull`, `ReserveNew`, `ReserveRefused` are the ways through `reserve()`,
each with the sweep of worn and outdated connections the code does first;
`Joined`/`JoinCancelled` end the join; `Connected` ... `ConnectCancelled` end the
handshake; `SendFailed`, `Event`, `ErrorEvent`, `Release` are sending, reading and
`WebSocketResponse.release()`; `IdleEnds`, `CloseEnds`, `Close` are the keeper,
the close task and the shutdown. Timeouts are a failure that may happen at any
time; an idle connection may wear out at any time. The HTTP exchange is the
result "http". Mode "auto" is `Fallback = TRUE`.

**CodexAuthStore.** One slot in several processes. A token is a number (an access
token with its refresh grant); `token` remembers the account and what it was
rotated from, `valid` the grants the provider accepts, `horizon` which ones have
expired, `kept` which ones a file ever held. `LoadCached`, `LoadCandidate`,
`LoadUnreadable` are the ways through `load_auth()` that do not suspend,
`LoadRefresh` enters `_refresh()`, `Turn`, `Locked`, `LockTimeout` wait for the two
locks, `UnderLocks` is what the holder re-reads, `Provider...` and `PostFailed`
are the post and what the provider makes of it, `Persist`, `PersistFailed`,
`Rejected` follow the answer. `Cancel` may hit any await, `Crash` any state;
`Login`, `Logout` and `Expire` are the environment. The file lock is released by the
death of its holder, as `flock` is.

**CodexPool.** `cred` is what the pool sees of the store: the account in the
bootstrap file, whether it changed unseen, the cached account, and whether
`load_auth()` would return it (`good`), refresh it (`stale`) or fail. Python
compares credentials by object identity (`slot.auth is auth`): the model keeps,
for each request, which of the objects it holds are still current (`cand` for the
candidates of a selection, `live` for the attempt), and `Replaced` updates that
whenever a slot gets a new object. `Arrive`, `Scan`, `LoadEnds`, `AdmitWaits`,
`Dispatch`, `NoneChosen`, `RoundEnds`, `WaitEnds`, `WaitPolls` are the stretches of
`execute_chat()`; `Final`, `Streams`, `Rejected`, `StreamFails`, `StreamEnds`
its answers (an error event of a response that is collected also marks the slot before
the request ends in `Final`); `Outcome` is the fence of `outcome_slot()` and `Mark` the
three marks. `Seen` and `Uncooled` are what the detection of a changed source does: it
drops the credential and the cooldown.
`UsageStarts`, `UsageDiscovers`, `UsageReading` are the shared refresh;
`OperatorStarts`/`OperatorCommits` are the two halves of the override, the second in
another thread.

Abstractions of CodexPool, all of which allow at least what the code does unless
said otherwise:
- which admissible slot is used (leases, load, replay preference) is any of them;
- the survey `slot_availability()` is one step, although it may suspend at a
  slot's refresh; the awaits that lie between choosing and dispatching are separate;
- the catalog is the constant `Offers` (CodexCatalog has it); its diagnostics and
  recovery are the one extra scan of `NoneChosen`;
- selection and the dispatch check are one step: there is no await between them;
- each coroutine that waited for a refresh adopts the token anew, as a new object;
- the token of a changed source is good when it is first loaded;
- when a cooldown ends is open, and so is whether a recovery lies after the deadline;
- an attempt is one of its outcomes (`Events`): success, stream, 401 (`reject`), 429
  (`limit`), 5xx (`fail`), a body that cannot be read (`read`), cancellation.

**BoundedResources** says what a bounded table promises: items are taken one at a
time for an owner, below a total and below a share of that owner, and kept until
given back. CodexTransport refines it with the connections that count
(`BoundsConnections`); RealtimeReservations twice, with sessions owned by clients
(`BoundsClients`) and bound sessions owned by accounts (`BoundsAccounts`).

**CatalogRegister** says what the catalog promises, without tasks, locks or fetches: a
register whose entries, whenever it is written, were observed in the current era and
belong to the identity their slot has at that moment.

**CodexCatalog.** `slots` maps slots to entries (account, version of the file,
generation); a fetch's result is what it was fetched for. `file` is the auth file,
`seen` and `auth` what the router knows of it; `Login`, `Detect`, `Adopt`,
`RoutingChanges`, `InvalidateSlot`, `Lookup` are the other coroutines that change them.
`bg` and `rec` say where the background task and the recovery are, `pass` is the locals
of the one that has the lock: `PassBegins` starts a pass, `SkipDisabled`, `LoadBegins`,
`LoadFails`, `LoadEnds`, `FetchFails`, `FetchEnds` are the stretches of `fetch_slot()`,
`Rechecked` is the comparison after the last fetch, `Publish` and `PublishFails` the end
of `_refresh()` with `publish_catalog()`; `Recover`, `CancelWaiter`, `RecoveryTimesOut`
are `recover()`. The recovery works on up to `Concurrency` slots at a time. Publishing
is one step with the recheck because `routing_policy_lock` is never held across an
await.

**RealtimeReservations.** An element of `Res` is a reservation with the handler that
uses it; it is used again when the reservation is released and the handler is gone.
Minting is `Reserve`, `MintReads`, `MintLoads`, `MintAdmitted` (with `bind()`),
`MintIssues`; a session is `Redeem` (or `RedeemFails`, when the slot is not what it was
minted for), `Dial`, `Connected`, `Forward`, `IdleTick`; `ServeEnds` leads to `Closed`,
which releases. The cleanup of a session that failed is one step with its releases.
`Shutdown` cancels the tasks, `Drained` is when they have ended, and releases the tickets that were left. Slots change
credentials, cool down or are disabled at any time.

**WorkstationBroker.** `auth` and `broker` are the fields of the authorizer and of the
process broker, `rot` is the rotation under way; a connection is a thread (`conn`) with
the epoch it was accepted in. `AuthKnown` ... `AuthRotates` are the authorizer,
`RotationCloses` ... `RotationEnds` the rotation, `Guarded` the guard, `Execute`,
`Reserve`, `Preflight`, `Write`, `Kill`, `StreamStarts`, `StreamWrites`, `Commit` the
requests. The guard, the slot semaphore, processes with their reader and
deadline, reservations and streams are all in one module because the code shares the
gateway lock between them. `glock` is that lock where it is kept while its holder waits:
for a helper (`Preflight`), for the pipe that takes what a client writes to a terminal
(`Write`) or uploads (`StreamWrites`), and for the publication of an upload
(`committing`). A write to a terminal ends when its process does, which has a deadline;
a write into a transfer's helper may last for ever. `broker.lost` counts the operation
slots that nobody gives back, because the input of their process broke. A gateway may
die at any time, also between being pinned and the adoption of its epoch.

**BrowserLifecycle** and **CamofoxSupervisor.** The first is `spartan-lifecycle.mjs`:
`owner` and `valid` of the lease, `queue`, `recovering`, `degraded`. `invalidate()`
raises the generation, marks the owner and rejects the queue at once, so a lease or
waiter of an older generation is one that was invalidated, and no number is needed. The
second adds the browser (which may hang, and fail a navigation), the deep probe and its
answer, the recovery route, and PID 1: `Observed` is one round of its loop with
`RecoveryPolicy.observe()`; `Condemn`, `StopEnds`, `Record`, `Launch` are the recycle,
whose ledger is saved before the next wait; `Killed`, `ContainerEnds` and `Boot` end and
restart it. `tree` is what there is of the server: "node", the "rest" of what PID 1
tracks (`lifecycle_processes()`: the descendants of the child and what is in its process
group), and "stray", a browser in a group of its own that became a child of PID 1 when
Node died by itself, and which PID 1 does not track. `NavigationFails` may latch
`degraded` while its owner goes on. An operation or a close on a browser that hangs need
not end.

## 3. Properties

Every run checks the inductive invariant of its module, of which the type invariant is
a part (section 6); it is what a step may rely on wherever a task, thread or process
was suspended. The properties (in the column "Run" a name of section 4, in "Proved"
the theorem, of the module's *Proofs* module):

| Property | Says | Run | Proved |
|---|---|---|---|
| `ExclusiveUse` | a connection serves one coroutine, an idle one none | transport | `NoSharedConnection` |
| `IdleIsCurrent` | an idle connection has its account's latest credential | transport | `NoStaleCredential` |
| `NoAmbiguousReplay` | what may have been delivered is not repeated over HTTP, what produced output is not offered for another attempt | transport | `AmbiguousSendIsFinal` |
| `PoolInvariant` | the inductive invariant of the pool | transport | `PoolIsConsistent` |
| `BoundsConnections` | the pool implements BoundedResources: connections are listed one at a time, within the bounds of pool and account, counting those being opened or closed | transport | `ImplementsBounds`, `BoundedPool` |
| `NothingIsStuck` (`ClosingLeaves`, `ReserveAnswers`, `ShutdownDrains`) | discarded connections leave, callers get the lock, the pool drains after shutdown although requests still run | transport | |
| `AuthInvariant` | files, grants, locks and coroutines fit together | auth_store | `StoreIsConsistent` |
| `GenerationConsumedOnce` | a grant is posted again only if its rotation was lost | auth_store | `GrantsPostedOnce` |
| `PersistedBeforeUse` | a slot uses only tokens some file held | auth_store | `PersistedFirst` |
| `LocksOwned` | both locks belong to coroutines inside `_refresh()`, in order | auth_store | `LocksBelong` |
| `LoadReturns` | every waiting `load_auth()` returns | auth_store | |
| `PoolInvariant` | slots, requests and counters fit together | pool | `PoolIsConsistent` |
| `InFlightBalanced` | a slot counts exactly the requests that hold it | pool_live | `SlotsAreCounted` |
| `CooldownIsOwn` | a quota cooldown was caused by the account the slot has | pool | |
| `SourceIsKept` | a slot that has the credential and cooldown of its file's account keeps to it, whatever overlaps; the one exception is a refresh that a login overtook | pool | `SourcesAreKept` |
| `RequestTerminates` | every request is answered | pool_live | |
| `CatalogInvariant` | tasks, lock, wake-up, requests and generations fit together | catalog | `CatalogIsConsistent` |
| `ImplementsRegister` | whatever is published was fetched after the last reset and belongs to the credential its slot has at that moment | catalog | `CatalogImplementsRegister` |
| `TasksAgree` | `NoLostWake`: an invalidation that arrives during a pass is not swallowed by its end; `WaitersHaveTask`: a request that waits for the recovery waits for a task that exists, whoever is cancelled; `LockMatchesPass`: the lock belongs to the task in a pass, also after cancellations and timeouts | catalog | `TasksStayInStep` |
| `NewsIsFollowed` | every request for a refresh leads to a new pass | catalog | |
| `ReservationInvariant` | reservations, tickets, handlers and credentials fit together | realtime | `ReservationsAreConsistent` |
| `TicketsMatch` | tickets, timers and phases agree: what waits for redemption can be redeemed and will expire | realtime | `TicketsLeadSomewhere` |
| `RunningIsListed` | a session that runs counts in the bounds, and none is left after a shutdown | realtime | `SessionsCount` |
| `BoundsSessions` (`BoundsClients`, `BoundsAccounts`) | both tables implement BoundedResources | realtime | `ImplementsBounds` |
| `ReservationsEnd` | every reservation is released, however lively; a shutdown ends | realtime | |
| `BrokerInvariant` | epochs, locks, rotation and work fit together | workstation | `BrokerIsConsistent` |
| `SlotsBalanced` | operation slots are free, held by one process or stream, or lost with a process whose input broke | workstation | `SlotsAreCounted` |
| `OldWorkStops` | no process, stream or reservation of an old gateway exists once the next is accepted | workstation | `OldWorkIsStopped` |
| `NoRotationAcrossCommit` | no rotation between an upload's end and its publication | workstation | `CommitsAreWhole` |
| `RequestsAnswered` | nobody waits for ever for the authorizer, a rotation or the guard, unless a write into a transfer's pipe hangs (`PipesMove`) | workstation | |
| `GatewayServed` | a gateway that stays up is accepted, also after failed rotations, unless such a write hangs, or the first gateway died before its epoch was adopted (`Missed`) | workstation | |
| `SupervisorInvariant` | lease, queues, readiness, attempts, process tree and ledger fit together | camofox | `SupervisorIsConsistent` |
| `HealthyIsEarned` | "ready" in the readiness file means a watched server without a failure on record | camofox | `ReadinessIsEarned` |
| `OneAttemptPerBrowser` | a browser is the subject of one recovery at most | camofox | `AttemptsAreSingle` |
| `TrackedGoneFirst` | a server is started only when every process of the one before that PID 1 tracks is gone; a stray browser is not tracked | camofox | `TrackedAreGone` |
| `OperationKeepsBrowser` | a browser is not replaced under an operation or probe that uses it | camofox | `OperationsKeepTheirBrowser` |
| `LevelIsKept` | the escalation is forgotten only after a stable period, across crashes | camofox | `EscalationIsKept` |
| `FaultIsCleared` | a hung browser is replaced in the end, unless a close hangs with it (`CloseHangs`) | camofox | |
| `QueuedIsAnswered` | a close, which waits without a timer, is let in or answered, unless another close hangs with the browser | camofox | |

A hypothesis or an "unless" in this table is a case in which the code does not do what a
reader may expect. It is part of the formula, not of the model: the case occurs in the
run, and section 7 describes it.

`SourceIsKept` is the statement about accounts, cooldowns and late answers for all
events. It excludes one step, `Overtaken`: with a refresh in flight across a login the
slot itself goes back to the old account (`SlotFollowsSource`, section 7), and a cooldown
may follow it. The run leaves expiry out, since the state space with it is beyond TLC, so
this step does not occur there; the theorem covers it. `CooldownIsOwn` is the state
property that one wants, and holds where that step does not occur, so only in the run.

## 4. Runs and bounds

| Run | Instance | Distinct states | Shows |
|---|---|---|---|
| transport | 2 connection identities, 2 coroutines, 1 account, 2 credential generations, scoped and scopeless keys, pool of 1 | 175,725 | safety and liveness of the pool through a credential change, cancellation, worn connections, shutdown |
| auth_store | 2 processes, 2 + 1 coroutines, 2 accounts, 2 tokens, all faults | 86,950 | refresh and persistence |
| pool | 1 slot, 2 requests, 2 accounts (1 with a quota), logins, overrides, cooldowns, usage | 2,716,658 | late outcomes, accounts and cooldowns |
| pool_live | 2 slots, 1 request, 1 or 2 accounts, expiry, every answer, cancellation | 320,890 | failover, counts, termination |
| catalog | 2 slots, 2 accounts, 2 waiting requests, 1 slot that is logged in again and switched, 1 reset, stop | 543,276 | publication, wake-ups, shared recovery |
| realtime | 3 sessions, 3 clients on one slot, 2 accounts; limits 2, 1 per client, 1 per account | 46,494 | bounds, tickets, shutdown |
| workstation | 3 gateways in turn, 2 connections, 1 process, 1 reservation, 2 slots | 145,325 | rotation against everything |
| camofox | 1 operation, 2 closes, 1 waiter besides the probe, 3 backoff levels, threshold 2, 2 browsers per server | 168,278 | replacement, recycling, restart |

Why these are enough. *transport*: the hazards are between one coroutine in
`reserve()` and one other actor, which is the second coroutine, a closer, the
keeper or the shutdown; two generations make one stale; with one place for two
identities an error in counting exceeds the bound. Its safety is also proved for all
sizes. *auth_store*: the asyncio lock needs two coroutines of one process, the file
lock two processes; two tokens are a login and a rotation, or a rotation and a
login that overtakes it. *pool*: an outcome is late when the slot was logged in to a
second account, so one slot and a concurrent second request show it; *pool_live* needs
two slots for exclusions, rounds and recovery. Two requests on two slots with
all events are beyond TLC here. *catalog*: a pass must be between two slots when
the first one changes; two waiters show that cancelling one leaves the other; the
other slot stays as it is, which is what the changed one is compared with.
*realtime*: of three clients the third exceeds the total, the second of an account its
share; one slot changes account between two mints. *workstation*: the third gateway
comes after a rotation of a rotation; the second connection belongs to the old gateway
while the first is the new one's. *camofox*: an operation and two closes compete
for the lease, so that one close may wait behind another that hangs; of three levels
one is waited for inside the container and one left to
Docker; two browsers per server let the recovery succeed before it fails.

Bounds named in the modules: `MaxTokens` (tokens the provider issues), `NSlots`,
`MaxConnections`, `MaxAccountConnections`, `MaxWaiters`, `MaxLogins` (versions of an
auth file), `MaxResets`, `Relogged` and `Toggled` (the slots that are logged in again
or switched), `MaxGateways`, `MaxGen` (browsers of one server), `MaxQueued`; a ledger
that is at its highest level is not lost once more (`Loaded`); and the sets of
connections, coroutines, accounts, generations, scopes, sessions and clients. A finished
request of CodexPool becomes a new one, an identity of CodexTransport,
RealtimeReservations or WorkstationBroker is used again when nothing refers to it, and
CamofoxSupervisor has no bound on servers, so these runs have no bound on the
number of requests, connections, sessions, processes or restarts.

Symmetry is used in *pool* only (requests), which checks no liveness.

Four more runs check a statement of the documentation that the code does not
meet; section 7.

## 5. Fairness

The event loop runs every ready task, so a coroutine that can go on does (WF).
Beyond that:
- CodexTransport: closes and joins have timeouts, handshakes, sends and reads
  deadlines, so each ends (WF on the disjunction of the ways it ends); the caller
  always releases a response. `reserve()` gets SF because `asyncio.Lock` is first
  come, first served, so a caller is not overtaken for ever. New requests,
  events that keep a stream going, shutdown and `_idle()` get none.
- CodexAuthStore: SF on getting the asyncio lock (first come, first served), WF on
  the file lock, which is tried until a timeout and then given up, and on the post,
  which has a total timeout. Crashes, logins, expiry get none.
- CodexPool: WF on the steps of each request (upstream calls have timeouts, streams
  are closed), on its deadline and on the usage refresh. Cooldowns, logins,
  readings that age and the operator get none, so `RequestTerminates` does not
  rely on any slot's recovery.
- CodexCatalog: the lock is first come, first served, so the background task gets SF on
  its step; a pass that has the lock goes on (WF), since loads and fetches have
  timeouts. Logins, overrides, requests, resets get none.
- RealtimeReservations: WF on what a deadline ends (each await of a handler, the
  ticket's timer) and on the shutdown once its tasks are gone. The one await without a
  deadline of its own, the quota admission in `websocket()`, ends with the shared usage
  refresh, whose upstream calls have timeouts. Clients owe nothing: they need not redeem,
  nor fall silent.
- WorkstationBroker: WF on threads; SF where the authorizer's lock, the gateway lock or
  the slots are waited for, which `threading` does not hand over in turn, so the wait
  ends only if they are free again and again. A process that was signalled exits some
  time, a cancelled stream loses its connection, a stream that nobody cancels need not
  end. A write to a terminal ends with its process, which `_deadline()` kills, a preflight
  and a publication with the timeout of their helper. A write into a transfer's pipe owes
  nothing: that it ends is the hypothesis `PipesMove` of the two properties. Docker, asked
  again and again, answers some time (SF on `AuthNew \/ AuthRotates`, which a valid
  gateway may fail at any time). `GatewayServed` assumes that the gateway keeps connecting.
- CamofoxSupervisor: WF on the loops, the clock, timers and Docker; SF on `StopEnds`
  that succeeds (a process can be killed in the end) and on `Launch` (a launch tried
  again and again works). Operations and closes on a browser that does not hang end; on a
  hung one nothing is owed. The last conjunct concerns probes that queue: if operations
  end again and again, then some time one ends while a probe waits, before it gives up.

## 6. Proofs

Each *Proofs* module proves its theorems for every value of the constants, from the
named assumptions of the module it is about. The argument is the same everywhere: an
inductive invariant, which TLC checks first in the run; a lemma per kind of step, or
per action; then the properties as consequences of the invariant (state properties) or
of one step from a state that meets it (action properties, refinements). No proof uses
the fairness conjuncts of `Spec`, so the results hold for any scheduling.

**CodexTransportProofs**, from `TransportAssumption` (finite sets of connections and
coroutines, positive bounds, NULL is none of the other values).
`PoolInvariant` is the conjunction of the typed part (TypeOK, and a coroutine holds a
connection exactly while it works on one), `HeldConnections` (nobody else holds it;
until shutdown it is listed and has no closer), `IdleConnections` (idle means listed, not
retired, no closer), `Closers`, `Joining` (the lock covers the join, so the generation
the caller recorded cannot change) and `Generations` (a listed connection of an
older generation is retired or closing). `ExclusiveUse` and `IdleIsCurrent` are not
inductive alone: that a released connection may become idle depends on `retire`, which
depends on who was listed when the generation changed, which depends on the lock. "Until
shutdown" is essential: after `close()` a joining caller sets a connection busy again
that a closer works on. `BoundedPool` rests on `ListingSteps` (only `ReserveNew` adds to
the pool, below both bounds); `AmbiguousSendIsFinal` on `ReplayInvariant`; in
`ImplementsBounds` the step that lists a connection is `Take`, the end of a close
`GiveBack`, and every other step stutters.

**CodexAuthStoreProofs**, from `AuthAssumption`. `LocksOwned` is inductive alone. That a
grant is posted once is not: it needs where the newest token is. `FilesHoldIssued`
says that only what a file said is rotated; `NewestIsFound` that the managed state has
no written successor and a bootstrap file that has one is outranked by it;
`PostIsCurrent` that what the holder of both locks posts has no written successor, and
that its choice still stands unless a login came meanwhile. The last part is why both
locks must be held from the re-reading of the files to the write. `PersistedBeforeUse` is
inductive with these. All faults and any number of processes and coroutines are included.

**CodexPoolProofs**, from `PoolAssumption` (among others that NULL and "unnamed", the
account of a login without a name, are none of the accounts). The invariant is the count
(`InFlightBalanced`), `RequestsFit` (what a request knows of its credentials is true: a
live attempt has the current object of its slot) and `CooldownsFit`. Every change
of a credential goes through `Replaced`; the lemma about it is that no request keeps
believing an object is current. `SourcesAreKept` has no hypothesis on `Events`: for each
kind of step a lemma (`SurveySuits`, `ScanSuits`, `OutcomeSuits`, `AroundSuits`) says that
it leaves every slot that follows its file following it, and `LoadEndsSuits` that the end
of a load does too unless its request is the overtaken one. `OutcomeSuits` is where the
invariant is needed: that the fence compares objects is enough for the accounts to agree
because `RequestsFit` holds.

**CodexCatalogProofs**, from `CatalogAssumption` and `AbsentAssumption` (NULL is no
account, task or token). `TasksAgree` needs `news => wake` at every state, not only
while discovery sleeps. The refinement needs `GenerationsFit`: what is published or
staged belongs to the present era, and `Era` does not count the generation that `stop()`
uses as a fence. `Publish` is the register's `Write` of the rechecked entries, `Reset`
its `NewEra`, and every other step a `Change` (identities move, entries may be
revoked, none appears) or a stutter.

**RealtimeReservationsProofs**, from `RealtimeAssumption`. `Phases` ties the phase, the
place of the handler and the account; `HeldIsCurrent` says that a credential a handler
believes current exists; with `TicketsMatch` and `RunningIsListed` they are inductive.
`ImplementsBounds` proves both refinements of BoundedResources: reserving is `Take` of
the table by client, `bind()` is `Take` of the table by account, and releasing, also
that of a shutdown, is `GiveBack` in both.

**WorkstationBrokerProofs**, from `WorkstationAssumption` and `AbsentAssumption` ("monitor"
is no connection; NULL is no origin and no process).
`OldWorkStops` rests on `EpochsFit` (authorizer and broker are at most one epoch from
what was revoked, and a rotation revokes a gateway that is gone), `LocksFit`,
`RotationStops` (from its closing on a rotation waits for everything that works) and
`WorkFits` (work of the current epoch is the pinned gateway's). `CommitsAreWhole`
follows from the gateway lock being the committing upload's.

**BrowserLifecycleProofs** has the lemmas about the coordinator, from
`LifecycleAssumption`: each operation keeps `LifecycleInvariant`: one owner, who runs;
the recovery is the owner exactly while it replaces; every waiter is in the queue of its
priority, once. `Removed` (about `RemoveAt`) and `Dispatched` (a free lease goes to one
waiter or to nobody) are what the others need. **CamofoxSupervisorProofs** adds PID 1, from
`SupervisorAssumption`, which says of the schedule what `Config.from_env()` enforces: it
starts with 0 and does not decrease. The invariant adds `ReadinessFits` (no recovery while
ready, no failure on record while ready), `AttemptsFit` (recoveries were tried of older
browsers, or of this one while one is under way), `TreeFits` (nothing that can be found is
left of the last child where the next may be started, and nothing at all in a new
container) and `PeriodFits` (the healthy period of the
ledger is within the calm one). `Good` is the invariant after the step together with what
the three action properties ask of it, so every action is looked at once: the lemmas
`UnseenStep`, `SameCourse`, `Condemns` and `Rests` are the four courses PID 1 can take.

Only model-checked, and why:
- the liveness properties (`NothingIsStuck`, `LoadReturns`, `RequestTerminates`,
  `NewsIsFollowed`, `ReservationsEnd`, `RequestsAnswered`, `GatewayServed`,
  `FaultIsCleared`, `QueuedIsAnswered`): the proof system does not reason about
  ENABLED, which fairness is stated with;
- `CooldownIsOwn`, which does not hold for every `Events` (section 3); where no token
  expires it follows from `CooldownsFit`, a part of the invariant that is proved;
- the four statements of section 7, which are refuted by a counterexample.

No module declares a RECURSIVE operator. The provers used are SMT (Z3), Zenon and, for the
temporal steps, LS4. To repeat the checks: `tlc -config <cfg> <MC module>` for each run of
`PROJECT.json`, and `tlapm <module>Proofs.tla`.

## 7. Where code and documentation disagree

Each is a run that ends in a counterexample.

- *auth_slot_follows_source* (`SlotFollowsSource`). A refresh is in flight; the
  operator logs the slot in to another account; another `load_auth()` notices.
  The refresh ends, and its token of the old account is written and adopted
  (`codex.py` 1277-1278). `docs/spartan-route.md` 388-391 says managed state is eligible
  only for the bootstrap file's account.
- *auth_no_needless_login* (`NoNeedlessLogin`). The provider rotates, the write
  fails, the new grant is dropped; the retry posts the used grant and the slot
  asks for a login. Lines 927-928 say persistence failures do not imply that.
- *pool_reading_clears_own* (`ReadingClearsOwn`). A usage reading clears the cooldown of
  every slot captured before its request, whatever account the slot has when the answer
  arrives (3495-3505). Lines 629-631 say the matching account's.
- *pool_waits_for_recovery* (`WaitsForRecovery`). The wait counts any usable slot,
  also one that does not offer the model (1536-1538), so `execute_chat()` starts
  the next round at once, and again, without suspending, until the slot that can
  serve the request has recovered or the deadline has passed. `docs/env.md`
  470-472 describes a wait.

Seen while modelling, without a run:

- A coroutine that waited for the locks may adopt a credential that was quarantined
  meanwhile (`codex.py` 1204-1207 does not compare it with `failed_auth_fingerprint`;
  see lines 636-638 of `docs/spartan-route.md`).
- A non-streaming response whose body cannot be read puts the slot in the transient
  cooldown (`codex.py` 1808-1809; compare lines 612-613 of `docs/spartan-route.md`).
- A `load_auth()` that fails for a moment drops the slot's catalog entry
  (`codex_catalog.py` 379-386; compare lines 304-305 of `docs/spartan-route.md`).
- Requests that wait for a recovery which `reset()` cancels before its first step get a
  CancelledError rather than the outcome "stopped".
- If the first gateway dies after it was pinned and before
  `activate_gateway_epoch(1)` (`workstation-terminal-broker.py` 446), the epochs of
  authorizer and broker differ by one from then on and every later gateway is refused.
  `docs/workstation.md` 206-211 promises that a new gateway is accepted after a restart;
  `GatewayServed` excludes exactly this state (`Missed`), and fails without the exclusion.
- An upload writes its data into the pipe of its helper under `gateway_lock` and without a
  deadline (`workstation-transfer-broker.py` 698-702): a helper that stops reading keeps
  every request, and the rotation, waiting (compare `docs/workstation.md` 49-57 and 235).
  This is the hypothesis `PipesMove`, without which `RequestsAnswered` and
  `GatewayServed` fail.
- If data is left in the input buffer of a process that no longer reads (a flush that
  fails, 706-709), closing that input raises before `operation_slots.release()` (662-665),
  and the slot is never given back; `broker.lost` counts these, and the model's broker may
  run out of slots in this way as the code's may.
- `handle_stream()` removes `active[transfer_id]` when it ends, also if it was refused
  because another stream has that id.
- A background close (`closeSession`, `closeBrowserFully` in `patch-server.js`; no
  deadline) that waits for a hung browser keeps the lease, so probes answer busy, and
  `RecoveryPolicy.observe()` defers the recovery for ever. `infra/camofox/README.md`
  113-116 makes the exception only while a lifecycle owner is inside its declared
  deadline. `FaultIsCleared` and `QueuedIsAnswered` exclude exactly this
  (`<>[]CloseHangs`), and fail without the exclusion.
- After `markDegraded()` with a code other than `browser_navigation_degraded` the deep
  probe, which may run while degraded, still reports ready: PID 1 does not recover, and
  requests get `browser_lifecycle_degraded`.
- If Node dies by itself, a browser outside its process group that was reparented to
  PID 1 is not among `lifecycle_processes()` (`supervisor.py` 367-386): PID 1 starts the
  next server beside it. It is the "stray" of the model, and the reason why
  `TrackedGoneFirst` speaks of tracked processes.
- `RecoveryAttemptGuard` never has to refuse (`OneAttemptPerBrowser` holds without it);
  PID 1 killed between `StopEnds` and `Record` does not count that recycle; a
  cleanup that was blocked and then left to Docker may count one more.

## 8. What is not modelled

Contents of requests and responses, telemetry, formatting of errors, configuration
parsing, and the components of the table in section 1. Clocks: a time that passes is a
step that may happen. Within the modelled components:

- Spartan Route: `execute_image()`, targeted usage refreshes, reset credits, `reset_state()`
  of the pool (`codex.py` 650-669), the parsing of model lists, validation of realtime
  frames, the ways `open()` of the transport declines before it looks at the pool (HTTP
  mode, a proxy, a large request; `transport.py` 369-381), and the details listed in
  section 2. That CodexPool's `cred`, CodexCatalog's `auth` and CodexAuthStore's slot
  correspond is by construction from the same code, not by a checked refinement.
- Workstation: `stop()` of the broker, the probe of exchange capabilities, the data
  written to a process, resizing and interrupting it, pruning of finished ones, the health
  publisher, transfer ids (a stream is identified with its connection), what a remote
  helper still does after a timeout has ended it locally; the bridge and the plugin, which
  are sequential.
- Camofox: the relaunch for another viewport, the public `/health`, how cgroup memory is
  sampled (a pressure is there or not), VNC, fences of sessions and tabs, a browser that
  is launched only when it is first used, the deadline of a create that is still pending
  (`patch-server.js` 1799), a ledger file that is missing at a
  later start (`supervisor.py` 236-237; the first start finds none here too).

## 9. Plan

Everything the runs check as an invariant, an action property or a refinement is
proved, except `CooldownIsOwn`. In this order:

1. Lemmas that the liveness arguments rest on and that need no fairness: that a step
   of a waiting `load_auth()`, of a pass or of a rotation lowers a measure, or leaves it.
2. That the slot of CodexPool is what CodexAuthStore shows of it: a refinement of
   `cred[s]`, now by construction only (section 8).
3. `UsageController` and `CodexLeases` as extensions of CodexPool, with the hazards that
   have no property yet (`codex.py` 1207 and 1434).
