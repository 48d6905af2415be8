-------------------------- MODULE CamofoxSupervisor --------------------------
(***************************************************************************)
(* PID 1 of the Camofox container, infra/camofox/supervisor.py, and the    *)
(* server it owns: it polls the deep health probe, asks the server to      *)
(* replace its browser, recycles the process tree when that fails, and     *)
(* keeps the escalation in a ledger that outlives the container.           *)
(*                                                                         *)
(* The server is the coordinator of BrowserLifecycle, the browser it       *)
(* guards, the deep health controller of spartan-health.mjs and the routes *)
(* of patch-server.js that lead to it.  The browser is up when the server  *)
(* is.  A step of PID 1 ends where it waits for the server, for a process  *)
(* or for time; every change of the ledger is saved before the next wait.  *)
(***************************************************************************)
EXTENDS BrowserLifecycle

CONSTANTS
  Backoffs,    \* SPARTAN_CAMOFOX_BACKOFF_SECONDS, in ticks
  MaxInternal, \* MAX_INTERNAL_BACKOFF_SECONDS, in ticks
  Stable,      \* stable_reset, in ticks
  Threshold,   \* failed probes before a recovery (failure_threshold)
  NavFailures, \* failed navigations that latch the browser (failureThreshold)
  MaxGen       \* bound: browsers published by one server

ASSUME SupervisorAssumption ==
  /\ Backoffs \in Seq(Nat) /\ Len(Backoffs) > 0 /\ Backoffs[1] = 0
  /\ \A i, j \in 1 .. Len(Backoffs) : i <= j => Backoffs[i] <= Backoffs[j]
  /\ MaxInternal \in Nat /\ Stable \in Nat /\ NULL \notin Nat
  /\ {Threshold, NavFailures, MaxGen} \subseteq Nat \ {0}

VARIABLES
  browser, \* the published browser, and what the health controller knows of it
  overdue, \* the owner of the lease is past its deadline
  pc,      \* where PID 1 is
  policy,  \* RecoveryPolicy and RecoveryAttemptGuard of the child
  ledger,  \* the saved ledger: level, time left to wait, healthy since
  tree,    \* the processes of the child that PID 1 can find, and "stray": browsers
           \* of earlier ones that have left its process group and lost their parent
  wedged,  \* one of them cannot be killed now
  ready,   \* the readiness file says "ready"
  stop,    \* the operator has stopped the container
  calm     \* history: time since the child was started or last seen unhealthy

server == <<browser, overdue>>
vars == <<lifecycle, browser, overdue, pc, policy, ledger, tree, wedged, ready, stop, calm>>

Top == Len(Backoffs) - 1     \* the highest recycle level
Longest == Backoffs[Len(Backoffs)]
Gen == 1 .. MaxGen

Watching == {"watch", "probing"}
Recovering == {"recover", "recovering", "replaced", "proving", "recovered", "verifying"}
Ending == {"finishing", "exiting", "down", "off"}
PC == {"top", "stopping", "recording", "blocked", "retrying"} \cup Watching \cup Recovering \cup Ending

Browser == [gen : Gen, hung : BOOLEAN, navs : 0 .. NavFailures, proven : BOOLEAN]
RecoveryPolicy ==
  [failures : 0 .. Threshold, tried : SUBSET (Gen \cup {NULL}), failed : Gen \cup {NULL}]
Ledger == [level : 0 .. Top, wait : 0 .. Longest, age : 0 .. Stable \cup {NULL}]

TypeOK ==
  /\ LifecycleTypeOK
  /\ browser \in Browser
  /\ overdue \in BOOLEAN
  /\ pc \in PC
  /\ policy \in RecoveryPolicy
  /\ ledger \in Ledger
  /\ tree \subseteq {"node", "rest", "stray"}
  /\ wedged \in BOOLEAN /\ ready \in BOOLEAN /\ stop \in BOOLEAN
  /\ calm \in 0 .. Stable

NewBrowser == [gen |-> 1, hung |-> FALSE, navs |-> 0, proven |-> FALSE]
NewPolicy == [failures |-> 0, tried |-> {}, failed |-> NULL]
Clean == [level |-> 0, wait |-> 0, age |-> NULL]

Init ==
  /\ LifecycleInit
  /\ browser = NewBrowser /\ overdue = FALSE
  /\ pc = "top" /\ policy = NewPolicy /\ ledger = Clean
  /\ tree = {} /\ wedged = FALSE /\ ready = FALSE /\ stop = FALSE /\ calm = 0

ServerGone == LifecycleGone /\ browser' = NewBrowser /\ overdue' = FALSE

(* What the server does leaves PID 1 alone.                                *)
Outside == UNCHANGED <<pc, policy, ledger, ready, calm>>
Around == UNCHANGED <<tree, wedged, stop>>

(* A deadline is its owner's.                                              *)
KeepsDeadline == overdue' = (overdue /\ owner' = owner)

------------------------------------------------------------------------------
(* The server: handlers, closes, the browser *)

Serving == "node" \in tree /\ pc \in Watching \cup Recovering

Calls(c) ==
  /\ Serving /\ c # Probe /\ Run(c)
  /\ KeepsDeadline /\ Outside /\ Around /\ UNCHANGED browser

Expires(c) ==
  /\ Serving /\ c # Probe /\ TimesOut(c)
  /\ Outside /\ Around /\ UNCHANGED server

(* An operation ends, well or not, without a navigation that counts.       *)
OperationEnds(c) ==
  /\ Serving /\ c # Probe /\ RunEnds(c)
  /\ KeepsDeadline /\ Outside /\ Around /\ UNCHANGED browser

Latched == browser.navs = NavFailures

NavigationWorks(c) ==
  /\ Serving /\ c \in Foreground /\ ~browser.hung /\ RunEnds(c)
  /\ browser' = [browser EXCEPT !.navs = IF Latched THEN @ ELSE 0]
  /\ KeepsDeadline /\ Outside /\ Around

(* A navigation times out for good.  The last one that is allowed latches  *)
(* the browser and degrades the coordinator; its owner has yet to end.     *)
NavigationFails(c) ==
  /\ Serving /\ c \in Foreground /\ owner = c /\ ~Latched
  /\ browser' = [browser EXCEPT !.navs = @ + 1]
  /\ IF browser.navs + 1 = NavFailures THEN MarkDegraded("navigation") ELSE RunEnds(c)
  /\ KeepsDeadline /\ Outside /\ Around

(* A launch, a session or a vault page could not be cleaned up.            *)
CleanupFails ==
  /\ Serving /\ owner # NULL /\ degraded # "cleanup" /\ MarkDegraded("cleanup")
  /\ Outside /\ Around /\ UNCHANGED server

DeadlinePasses ==
  /\ Serving /\ owner \in Foreground \cup {Probe} /\ ~overdue
  /\ overdue' = TRUE
  /\ Outside /\ Around /\ UNCHANGED <<lifecycle, browser>>

BrowserHangs ==
  /\ Serving /\ ~browser.hung
  /\ browser' = [browser EXCEPT !.hung = TRUE]
  /\ Outside /\ Around /\ UNCHANGED <<lifecycle, overdue>>

(* busyMaxAgeMs since the last probe that found the browser ready.         *)
ProofAges ==
  /\ Serving /\ browser.proven
  /\ browser' = [browser EXCEPT !.proven = FALSE]
  /\ Outside /\ Around /\ UNCHANGED <<lifecycle, overdue>>

(* The server is gone, and the rest of its group with it or not; its       *)
(* browser may live on in a group of its own, as a child of PID 1.         *)
Left == {(tree \ {"node", "rest"}) \cup S : S \in SUBSET {"rest", "stray"}}

ServerExits ==
  /\ Serving
  /\ tree' \in Left /\ ServerGone
  /\ Outside /\ UNCHANGED <<wedged, stop>>

------------------------------------------------------------------------------
(* What PID 1 does with an answer *)

(* mark_healthy(): the level is forgotten after a stable period.           *)
Healthy(l) ==
  IF l.age = NULL THEN [l EXCEPT !.age = 0]
  ELSE IF l.age < Stable THEN l
  ELSE [level |-> 0, wait |-> 0, age |-> 0]

(* record_recycle(): this level's delay, then the next level.              *)
Recycled(l) == [level |-> IF l.level < Top THEN l.level + 1 ELSE Top,
                wait |-> Backoffs[l.level + 1], age |-> NULL]

(* force_maximum()                                                         *)
Maximum == [level |-> Top, wait |-> Longest, age |-> NULL]

(* Everything of the child is to be stopped; the recycle will be recorded. *)
Condemn == pc' = "stopping" /\ policy' = NewPolicy /\ UNCHANGED <<ledger, ready, calm>>

(* Bug: a failed probe leaves the readiness file alone.                   *)
ObservedUnpublished(code) ==
  \E memory \in {"ok", "unknown", "hard"} :
    LET healthy == code \in {"ready", "busy"}
        fully == healthy /\ memory = "ok"
        hard == memory = "hard" \/ code = "navigation"
        failures == IF healthy THEN 0
                    ELSE IF code = "stale" /\ ~hard THEN policy.failures
                    ELSE policy.failures + 1
        gen == IF code = "none" THEN NULL ELSE browser.gen
    IN  /\ ledger' = IF fully THEN Healthy(ledger) ELSE [ledger EXCEPT !.age = NULL]
        /\ ready' = (ready \/ fully)
        /\ calm' = IF fully THEN calm ELSE 0
        /\ IF ~hard /\ failures < Threshold
           THEN pc' = "watch" /\ policy' = [policy EXCEPT !.failures = failures]
           ELSE IF gen \in policy.tried
           THEN pc' = "stopping" /\ policy' = NewPolicy
           ELSE /\ pc' = "recover"
                /\ policy' = [failures |-> failures, tried |-> policy.tried \cup {gen}, failed |-> gen]

(* Bug: an owner past its deadline counts as a busy one.                   *)
ObservedDefersStuck(code) ==
  \E memory \in {"ok", "unknown", "hard"} :
    LET healthy == code \in {"ready", "busy"}
        fully == healthy /\ memory = "ok"
        hard == memory = "hard" \/ code = "navigation"
        failures == IF healthy THEN 0
                    ELSE IF code \in {"stale", "stuck"} /\ ~hard THEN policy.failures
                    ELSE policy.failures + 1
        gen == IF code = "none" THEN NULL ELSE browser.gen
    IN  /\ ledger' = IF fully THEN Healthy(ledger) ELSE [ledger EXCEPT !.age = NULL]
        /\ ready' = fully
        /\ calm' = IF fully THEN calm ELSE 0
        /\ IF ~hard /\ failures < Threshold
           THEN pc' = "watch" /\ policy' = [policy EXCEPT !.failures = failures]
           ELSE IF gen \in policy.tried
           THEN pc' = "stopping" /\ policy' = NewPolicy
           ELSE /\ pc' = "recover"
                /\ policy' = [failures |-> failures, tried |-> policy.tried \cup {gen}, failed |-> gen]

(* One sample of the watch: the answer of the probe and the memory of the  *)
(* cgroup make a decision.                                                 *)
Observed(code) ==
  \E memory \in {"ok", "unknown", "hard"} :
    LET healthy == code \in {"ready", "busy"}
        fully == healthy /\ memory = "ok"
        hard == memory = "hard" \/ code = "navigation"
        failures == IF healthy THEN 0
                    ELSE IF code = "stale" /\ ~hard THEN policy.failures
                    ELSE policy.failures + 1
        gen == IF code = "none" THEN NULL ELSE browser.gen
    IN  /\ ledger' = IF fully THEN Healthy(ledger) ELSE [ledger EXCEPT !.age = NULL]
        /\ ready' = fully
        /\ calm' = IF fully THEN calm ELSE 0
        /\ IF ~hard /\ failures < Threshold
           THEN pc' = "watch" /\ policy' = [policy EXCEPT !.failures = failures]
           ELSE IF gen \in policy.tried
           THEN pc' = "stopping" /\ policy' = NewPolicy
           ELSE /\ pc' = "recover"
                /\ policy' = [failures |-> failures, tried |-> policy.tried \cup {gen}, failed |-> gen]

(* Bug: the failures that led to the recovery still count.                 *)
VerifiedUnreset(code) ==
  IF code = "ready" /\ policy.failed \notin {NULL, browser.gen}
  THEN /\ pc' = "watch" /\ policy' = [policy EXCEPT !.failed = NULL]
       /\ UNCHANGED <<ledger, ready, calm>>
  ELSE Condemn

(* The verification of PID 1: a ready browser that is not the failed one.  *)
Verified(code) ==
  IF code = "ready" /\ policy.failed \notin {NULL, browser.gen}
  THEN /\ pc' = "watch" /\ policy' = [policy EXCEPT !.failures = 0, !.failed = NULL]
       /\ UNCHANGED <<ledger, ready, calm>>
  ELSE Condemn

(* The probe was asked by the watch, by the server's own recovery, or by   *)
(* the verification after it.                                              *)
AskedFor == [watch |-> "probing", replaced |-> "proving", recovered |-> "verifying"]

Answered(asked, code) ==
  CASE asked = "probing" -> Observed(code)
    [] asked = "proving" -> IF code = "ready"
                            THEN pc' = "recovered" /\ UNCHANGED <<policy, ledger, ready, calm>>
                            ELSE Condemn
    [] asked = "verifying" -> Verified(code)

Waiting == pc \in {"probing", "proving", "verifying"}

------------------------------------------------------------------------------
(* The deep health probe *)

BusyCode == IF browser.proven THEN "busy" ELSE "stale"

(* GET /spartan/health/deep answers for a latched browser, or an owner     *)
(* past its deadline, without a probe.                                     *)
AskedInVain ==
  /\ Serving /\ pc \in {"watch", "recovered"}
  /\ \/ degraded = "navigation" /\ Answered(AskedFor[pc], "navigation")
     \/ degraded # "navigation" /\ overdue /\ Answered(AskedFor[pc], "stuck")
  /\ Around /\ UNCHANGED <<lifecycle, server>>

Probes == Serving /\ pc \in DOMAIN AskedFor /\ (pc = "replaced" \/ (degraded # "navigation" /\ ~overdue))

(* probe() runs one, joins the one that runs, or finds the coordinator busy. *)
ProbeStarts ==
  /\ Probes
  /\ \/ /\ Run(Probe) /\ KeepsDeadline
        /\ pc' = AskedFor[pc] /\ UNCHANGED <<policy, ledger, ready, calm>>
     \/ /\ call[Probe] # "idle"
        /\ pc' = AskedFor[pc] /\ UNCHANGED <<lifecycle, overdue, policy, ledger, ready, calm>>
     \/ /\ call[Probe] = "idle" /\ Refused(Probe)
        /\ Answered(AskedFor[pc], BusyCode) /\ UNCHANGED <<lifecycle, overdue>>
  /\ Around /\ UNCHANGED browser

Tell(code) == IF Waiting THEN Answered(pc, code) ELSE UNCHANGED <<pc, policy, ledger, ready, calm>>

(* The probe has cleaned up.  It proves the browser only under a lease     *)
(* that is still good.                                                     *)
ProbeEnds(ok) ==
  /\ Serving /\ (ok => ~browser.hung)
  /\ RunEnds(Probe) /\ KeepsDeadline
  /\ browser' = [browser EXCEPT !.proven = @ \/ (ok /\ valid)]
  /\ Tell(IF ok /\ valid THEN "ready" ELSE "failed")
  /\ Around

(* A step of the probe timed out: the answer does not wait for the lease.  *)
ProbeReports ==
  /\ Serving /\ Waiting /\ call[Probe] = "running" /\ browser.hung
  /\ Answered(pc, "failed")
  /\ Around /\ UNCHANGED <<lifecycle, server>>

ProbeExpires ==
  /\ Serving /\ TimesOut(Probe)
  /\ Tell(BusyCode)
  /\ Around /\ UNCHANGED server

(* The probe was rejected by an invalidation while it was queued.          *)
ProbeRejected ==
  /\ Serving /\ Waiting /\ call[Probe] = "idle"
  /\ Answered(pc, "failed")
  /\ Around /\ UNCHANGED <<lifecycle, server>>

(* The server does not answer PID 1 in time, or is not there.              *)
NoReply ==
  /\ \/ pc \in {"probing", "verifying"} /\ Answered(pc, "none")
     \/ pc = "recovered" /\ "node" \notin tree /\ Answered("verifying", "none")
  /\ Around /\ UNCHANGED <<lifecycle, server>>

------------------------------------------------------------------------------
(* POST /spartan/recover *)

RequestRecovery ==
  /\ Serving /\ pc = "recover" /\ RecoverBegins
  /\ pc' = "recovering" /\ browser' = [browser EXCEPT !.proven = FALSE]
  /\ Around /\ UNCHANGED <<overdue, policy, ledger, ready, calm>>

RecoveryDrained ==
  /\ Serving /\ pc = "recovering" /\ Drained
  /\ KeepsDeadline /\ Outside /\ Around /\ UNCHANGED browser

RecoveryStuck ==
  /\ Serving /\ pc = "recovering" /\ DrainTimesOut
  /\ Condemn /\ Around /\ UNCHANGED server

(* The old browser is closed and a new one published, or that fails.       *)
BrowserReplaced(worked) ==
  /\ Serving /\ pc = "recovering" /\ RecoveryEnds(worked)
  /\ KeepsDeadline
  /\ IF worked
     THEN browser.gen < MaxGen /\ browser' = [NewBrowser EXCEPT !.gen = browser.gen + 1]
     ELSE UNCHANGED browser
  /\ IF worked /\ valid
     THEN pc' = "replaced" /\ UNCHANGED <<policy, ledger, ready, calm>>
     ELSE Condemn
  /\ Around

(* Bug: PID 1 goes on watching after a recovery that failed.               *)
RecoveryTimesOutWatching ==
  /\ pc \in {"recover", "recovering", "replaced", "proving"}
  /\ pc' = "watch" /\ UNCHANGED <<policy, ledger, ready, calm>>
  /\ Around /\ UNCHANGED <<lifecycle, server>>

(* recover() returns without a good answer.                                *)
RecoveryTimesOut ==
  /\ pc \in {"recover", "recovering", "replaced", "proving"}
  /\ Condemn /\ Around /\ UNCHANGED <<lifecycle, server>>

------------------------------------------------------------------------------
(* The outer loop of PID 1 *)

(* poll() finds the child gone.                                            *)
ChildExited ==
  /\ pc = "watch" /\ "node" \notin tree /\ ~stop
  /\ Condemn /\ Around /\ UNCHANGED <<lifecycle, server>>

(* Bug: PID 1 goes on with a process that does not go.                     *)
StopEndsAnyway ==
  /\ pc \in {"stopping", "retrying", "finishing"}
  /\ ServerGone
  /\ tree' = (tree \cap {"stray"}) \cup (IF wedged THEN {"rest"} ELSE {})
  /\ UNCHANGED <<ledger, ready>>
  /\ pc' = CASE pc = "stopping" -> "recording"
             [] pc = "retrying" -> "top"
             [] pc = "finishing" -> "exiting"
  /\ UNCHANGED <<policy, wedged, stop, calm>>

(* SIGTERM, then SIGKILL to every process that is found: they are gone, or *)
(* one does not go.  A stray is not found.                                 *)
StopEnds ==
  /\ pc \in {"stopping", "retrying", "finishing"}
  /\ ServerGone
  /\ IF wedged
     THEN /\ tree' = (tree \cap {"stray"}) \cup {"rest"} /\ ledger' = Maximum /\ ready' = FALSE
          /\ pc' = IF pc = "finishing" THEN "exiting" ELSE "blocked"
     ELSE /\ tree' = tree \cap {"stray"} /\ UNCHANGED <<ledger, ready>>
          /\ pc' = CASE pc = "stopping" -> "recording"
                     [] pc = "retrying" -> "top"
                     [] pc = "finishing" -> "exiting"
  /\ UNCHANGED <<policy, wedged, stop, calm>>

(* A recycle is recorded, after the processes are gone.  A long delay is   *)
(* left to Docker, which starts the container again.                       *)
Record ==
  /\ pc = "recording"
  /\ LET next == Recycled(ledger)
         docker == next.wait > MaxInternal
     IN  /\ ledger' = IF docker THEN [next EXCEPT !.wait = 0] ELSE next
         /\ pc' = IF docker THEN "finishing" ELSE "top"
         /\ ready' = (ready /\ ~docker)
  /\ Around /\ UNCHANGED <<lifecycle, server, policy, calm>>

(* _wait_backoff() finds more than it may wait for.                        *)
Delegate ==
  /\ pc \in {"top", "blocked"} /\ ~stop /\ ledger.wait > MaxInternal
  /\ ledger' = [ledger EXCEPT !.wait = 0]
  /\ pc' = "finishing" /\ ready' = FALSE
  /\ Around /\ UNCHANGED <<lifecycle, server, policy, calm>>

Retry ==
  /\ pc = "blocked" /\ ~stop /\ ledger.wait = 0
  /\ pc' = "retrying"
  /\ Around /\ UNCHANGED <<lifecycle, server, policy, ledger, ready, calm>>

Launch ==
  /\ pc = "top" /\ ~stop /\ ledger.wait = 0
  /\ tree' = tree \cup {"node", "rest"} /\ policy' = NewPolicy
  /\ pc' = "watch" /\ ready' = FALSE /\ calm' = 0
  /\ UNCHANGED <<lifecycle, server, ledger, wedged, stop>>

(* The server did not start, or exits before it was identified.            *)
LaunchFails ==
  /\ pc = "top" /\ ~stop /\ ledger.wait = 0
  /\ tree' \in {tree, tree \cup {"rest"}}
  /\ pc' = "stopping"
  /\ UNCHANGED <<lifecycle, server, policy, ledger, wedged, ready, stop, calm>>

(* The signal handler; the child gets the signal too.                      *)
OperatorStops ==
  /\ pc \notin {"exiting", "down", "off"} /\ ~stop
  /\ stop' = TRUE /\ ServerGone
  /\ tree' \in IF "node" \in tree THEN Left ELSE {tree}
  /\ UNCHANGED <<pc, policy, ledger, wedged, ready, calm>>

Finish ==
  /\ pc \in {"top", "watch", "blocked"} /\ stop
  /\ pc' = "finishing" /\ policy' = NewPolicy /\ ready' = FALSE
  /\ Around /\ UNCHANGED <<lifecycle, server, ledger, calm>>

------------------------------------------------------------------------------
(* Outside PID 1: Docker, the kernel, the clock *)

(* PID 1 is killed: the kernel kills its namespace.                        *)
Killed ==
  /\ pc \notin Ending
  /\ pc' = "exiting" /\ policy' = NewPolicy /\ ServerGone
  /\ Around /\ UNCHANGED <<ledger, ready, calm>>

(* The container is over when its last process is.                         *)
ContainerEnds ==
  /\ pc = "exiting" /\ ~wedged
  /\ tree' = {} /\ pc' = IF stop THEN "off" ELSE "down"
  /\ ready' = FALSE
  /\ UNCHANGED <<lifecycle, server, policy, ledger, wedged, stop, calm>>

OperatorStarts ==
  /\ pc = "off" /\ pc' = "down" /\ stop' = FALSE
  /\ UNCHANGED <<lifecycle, server, policy, ledger, tree, wedged, ready, calm>>

(* Bug: the time the supervisor was away counts as healthy.                *)
LoadedHealthySince == {ledger, [ledger EXCEPT !.wait = 0], Maximum}

(* load_ledger() and mark_unhealthy(): the same revision, another one, or  *)
(* a file that cannot be read (bound: not one that is at the top already). *)
(* The file outlives the container: only the first start of all finds none *)
(* (Init).                                                                 *)
Loaded ==
  {[ledger EXCEPT !.age = NULL], [ledger EXCEPT !.age = NULL, !.wait = 0]}
    \cup (IF ledger.level < Top THEN {Maximum} ELSE {})

Boot ==
  /\ pc = "down" /\ pc' = "top" /\ calm' = 0
  /\ ledger' \in Loaded
  /\ Around /\ UNCHANGED <<lifecycle, server, policy, ready>>

(* A stray ends by itself, or it does not.                                 *)
StrayEnds ==
  /\ "stray" \in tree /\ tree' = tree \ {"stray"}
  /\ UNCHANGED <<lifecycle, server, pc, policy, ledger, wedged, ready, stop, calm>>

Wedges ==
  /\ pc \in {"stopping", "retrying", "finishing"} /\ tree \ {"stray"} # {} /\ ~wedged
  /\ wedged' = TRUE
  /\ UNCHANGED <<lifecycle, server, pc, policy, ledger, tree, ready, stop, calm>>

Unwedges ==
  /\ wedged /\ wedged' = FALSE
  /\ UNCHANGED <<lifecycle, server, pc, policy, ledger, tree, ready, stop, calm>>

Tick ==
  /\ ledger.wait > 0 \/ calm < Stable \/ ledger.age \in 0 .. Stable - 1
  /\ ledger' = [ledger EXCEPT !.wait = IF @ > 0 THEN @ - 1 ELSE 0,
                              !.age = IF @ \in 0 .. Stable - 1 THEN @ + 1 ELSE @]
  /\ calm' = IF calm < Stable THEN calm + 1 ELSE calm
  /\ UNCHANGED <<lifecycle, server, pc, policy, tree, wedged, ready, stop>>

------------------------------------------------------------------------------

Handlers ==
  \/ \E c \in Foreground \cup Background : Calls(c) \/ Expires(c) \/ OperationEnds(c)
  \/ \E c \in Foreground : NavigationWorks(c) \/ NavigationFails(c)
  \/ CleanupFails \/ DeadlinePasses \/ BrowserHangs \/ ProofAges \/ ServerExits

Health ==
  \/ AskedInVain \/ ProbeStarts \/ ProbeReports \/ ProbeExpires \/ ProbeRejected \/ NoReply
  \/ \E ok \in BOOLEAN : ProbeEnds(ok) \/ BrowserReplaced(ok)
  \/ RequestRecovery \/ RecoveryDrained \/ RecoveryStuck \/ RecoveryTimesOut

Supervision ==
  \/ ChildExited \/ StopEnds \/ Record \/ Delegate \/ Retry \/ Launch \/ LaunchFails
  \/ OperatorStops \/ Finish

Surroundings ==
  \/ Killed \/ ContainerEnds \/ OperatorStarts \/ Boot \/ StrayEnds \/ Wedges \/ Unwedges
  \/ Tick

Next == Handlers \/ Health \/ Supervision \/ Surroundings

------------------------------------------------------------------------------
(* Fairness: the clock, timers, Docker and the kernel go on, and so do the *)
(* loops that use them.  A launch that is tried again and again works, and *)
(* a process can be killed in the end.                                     *)
(* On a browser that does not hang operations end; on a hung one they may  *)
(* last for ever, and closes too.  Of the probes that queue while          *)
(* operations do end, not all give up first.                               *)

Answer == ProbeReports \/ ProbeExpires \/ ProbeRejected \/ NoReply \/ ProbeEnds(FALSE)

RecoveryStep ==
  RequestRecovery \/ RecoveryDrained \/ RecoveryStuck \/ RecoveryTimesOut
  \/ BrowserReplaced(TRUE) \/ BrowserReplaced(FALSE)

Loop ==
  ChildExited \/ Record \/ Delegate \/ Retry \/ Finish \/ ContainerEnds \/ Boot
  \/ AskedInVain \/ ProbeStarts

Settles(c) == OperationEnds(c) /\ ~browser.hung

AnyEnds == \E c \in Foreground \cup Background : OperationEnds(c)

Fairness ==
  /\ WF_vars(Loop) /\ WF_vars(Answer) /\ WF_vars(RecoveryStep)
  /\ WF_vars(Tick) /\ WF_vars(ProofAges) /\ WF_vars(DeadlinePasses) /\ WF_vars(Unwedges)
  /\ SF_vars(StopEnds /\ ~wedged) /\ SF_vars(Launch)
  /\ \A c \in Foreground \cup Background : WF_vars(Settles(c)) /\ WF_vars(Expires(c))
  /\ []<><<AnyEnds>>_vars => SF_vars(AnyEnds /\ call[Probe] = "queued")

Spec == Init /\ [][Next]_vars /\ Fairness

------------------------------------------------------------------------------
(* Properties *)

(* While the readiness file says "ready" for a server that is there, PID 1 *)
(* is watching it, has no failure on record and does not replace anything. *)
HealthyIsEarned ==
  ready /\ "node" \in tree => pc \in Watching \cup {"exiting"} /\ policy.failures = 0

(* A browser that PID 1 watches was not yet the subject of a recovery: an  *)
(* attempt ends with another browser, or with another server.              *)
OneAttemptPerBrowser == Serving /\ pc \in Watching => browser.gen \notin policy.tried

(* infra/camofox/README.md: PID 1 starts a server only after every tracked *)
(* process of the one before has disappeared, whatever was stuck, killed   *)
(* or restarted in between.  A stray browser is not tracked.               *)
TrackedGoneFirst ==
  [][("node" \notin tree /\ "node" \in tree') => tree \subseteq {"stray"}]_vars

(* A browser is not replaced under an operation or a probe that uses it.   *)
OperationKeepsBrowser ==
  [][browser'.gen > browser.gen => \A c \in Caller : call[c] # "running"]_vars

(* The escalation is forgotten only after a stable period in which no      *)
(* probe failed and no server was started, across crashes and restarts.    *)
LevelIsKept == [][ledger'.level < ledger.level => calm = Stable]_vars

(* Recovery keeps a server unready; a ready one has no failure on record.  *)
ReadinessFits ==
  /\ pc \in Recovering => ~ready
  /\ ready /\ pc \in Watching => policy.failures = 0
  /\ pc \in Watching => policy.failures < Threshold
  /\ ready /\ "node" \in tree => pc \in Watching \cup {"exiting"} /\ policy.failures = 0

(* Of the browsers of a server that serves, a recovery was tried for older *)
(* ones, and while one is under way for the one it is about.               *)
AttemptsFit ==
  Serving => \A g \in policy.tried \ {NULL} :
               g < browser.gen \/ (g = browser.gen /\ g = policy.failed /\ pc \in Recovering)

(* Nothing that can be found is left of the last child before the next one *)
(* is started, and nothing at all in a new container.                      *)
TreeFits ==
  /\ pc \in {"top", "recording"} => tree \subseteq {"stray"}
  /\ pc \in {"down", "off"} => tree = {}

(* The healthy period ends with the child, and was calm.                   *)
PeriodFits ==
  /\ ledger.age # NULL => ledger.age <= calm
  /\ pc \in {"top", "blocked", "retrying"} => ledger.age = NULL

(* What holds between any two waits of PID 1 and any two awaits of the     *)
(* server: the inductive invariant.                                        *)
SupervisorInvariant ==
  /\ TypeOK /\ LeaseFits /\ WaitersFit
  /\ ReadinessFits /\ AttemptsFit /\ TreeFits /\ PeriodFits

(* A close has the lease of a browser that hangs.  It has no deadline.      *)
CloseHangs == browser.hung /\ owner \in Background

(* Whatever hangs, exits or is killed, there is again and again a server   *)
(* whose browser does not hang, unless the operator stops, or a close hangs *)
(* with the browser for ever: it keeps the lease, and nothing replaces it. *)
FaultIsCleared == []<>((Serving /\ ~browser.hung) \/ stop) \/ <>[]CloseHangs

(* A close that waits for the browser, which has no timer, is let in or    *)
(* rejected in the end, unless another one hangs with the browser for ever. *)
QueuedIsAnswered ==
  \A c \in Background : []<>(call[c] # "queued") \/ <>[](CloseHangs /\ owner # c)
=============================================================================
