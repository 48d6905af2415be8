--------------------------- MODULE BrowserLifecycle ---------------------------
(***************************************************************************)
(* The browser lifecycle coordinator of infra/camofox/spartan-lifecycle.mjs: *)
(* one lease for everything that touches the browser, a queue behind it,   *)
(* and a recovery that waits for the owner before it takes the lease.      *)
(*                                                                         *)
(* Node runs one callback at a time: an action is what happens between two *)
(* awaits.  invalidate() moves the generation, marks the owner and empties *)
(* the queue in one go, so a waiter or a lease of an older generation is   *)
(* one that was invalidated, and the number itself is not kept.            *)
(* CamofoxSupervisor composes these operations with the browser and PID 1. *)
(***************************************************************************)
EXTENDS Naturals, SequencesExt

CONSTANTS
  Foreground, \* handlers that wait for the browser under a deadline
  Background, \* closes and cleanups, which wait and run without one
  Probe,      \* the deep health probe
  Recovery,   \* the owner of the lease while a recovery replaces the browser
  MaxQueued,  \* waiters that are not probes
  NULL        \* no owner, no code

ASSUME LifecycleAssumption ==
  /\ Foreground \cap Background = {} /\ MaxQueued \in Nat \ {0}
  /\ Probe # Recovery /\ {Probe, Recovery, NULL} \cap (Foreground \cup Background) = {}
  /\ NULL \notin {Probe, Recovery}

VARIABLES
  owner,      \* who has the lease
  valid,      \* the owner's lease was not invalidated
  queue,      \* the waiters of each priority
  recovering, \* what recover() is doing
  degraded,   \* degradedCode
  call        \* the run() of each caller

lifecycle == <<owner, valid, queue, recovering, degraded, call>>

Caller == Foreground \cup Background \cup {Probe}
Priority == {"health", "foreground", "background"}
Code == {"navigation", "cleanup", "drain_timeout", "recovery_failed"}

PriorityOf == [c \in Caller |-> IF c = Probe THEN "health"
                                ELSE IF c \in Foreground THEN "foreground" ELSE "background"]

LifecycleTypeOK ==
  /\ owner \in Caller \cup {Recovery, NULL}
  /\ valid \in BOOLEAN
  /\ queue \in [Priority -> Seq(Caller)]
  /\ recovering \in {"no", "draining", "replacing"}
  /\ degraded \in Code \cup {NULL}
  /\ call \in [Caller -> {"idle", "queued", "running"}]

NoQueue == [p \in Priority |-> << >>]
AllIdle == [c \in Caller |-> "idle"]

LifecycleInit ==
  /\ owner = NULL /\ valid = FALSE /\ queue = NoQueue
  /\ recovering = "no" /\ degraded = NULL /\ call = AllIdle

(* The Node process is gone, and the coordinator with it.                  *)
LifecycleGone ==
  /\ owner' = NULL /\ valid' = FALSE /\ queue' = NoQueue
  /\ recovering' = "no" /\ degraded' = NULL /\ call' = AllIdle

Queued == Len(queue["health"]) + Len(queue["foreground"]) + Len(queue["background"])

(* Whom nextWaiter() may take: a probe first, then the oldest foreground   *)
(* waiter or a background waiter, which comes first once it has aged.      *)
NextWaiter(q) ==
  LET first(p) == IF q[p] = << >> THEN {} ELSE {Head(q[p])}
  IN  IF q["health"] # << >> THEN first("health") ELSE first("foreground") \cup first("background")

(* The owner is gone: dispatch() gives the lease to a waiter of q, unless  *)
(* the coordinator is recovering or degraded.                              *)
Dispatch(running, q, open) ==
  IF open /\ NextWaiter(q) # {}
  THEN \E w \in NextWaiter(q) :
         /\ owner' = w /\ valid' = TRUE
         /\ queue' = [q EXCEPT ![PriorityOf[w]] = Tail(@)]
         /\ call' = [running EXCEPT ![w] = "running"]
  ELSE owner' = NULL /\ valid' = FALSE /\ queue' = q /\ call' = running

------------------------------------------------------------------------------
(* run() *)

Limit(c) == IF c = Probe THEN MaxQueued + 1 ELSE MaxQueued
Free == owner = NULL /\ Queued = 0

(* run() throws at once: nothing was acquired.                             *)
Refused(c) ==
  \/ recovering # "no"
  \/ degraded # NULL /\ c # Probe
  \/ ~Free /\ Queued >= Limit(c)

(* run() takes the free lease, or joins the queue.                         *)
Run(c) ==
  /\ call[c] = "idle" /\ ~Refused(c)
  /\ IF Free
     THEN /\ owner' = c /\ valid' = TRUE
          /\ call' = [call EXCEPT ![c] = "running"] /\ UNCHANGED queue
     ELSE /\ queue' = [queue EXCEPT ![PriorityOf[c]] = Append(@, c)]
          /\ call' = [call EXCEPT ![c] = "queued"] /\ UNCHANGED <<owner, valid>>
  /\ UNCHANGED <<recovering, degraded>>

(* The queue timer of a waiter; background waiters have none.              *)
TimesOut(c) ==
  /\ call[c] = "queued" /\ c \notin Background
  /\ \E i \in DOMAIN queue[PriorityOf[c]] :
       /\ queue[PriorityOf[c]][i] = c
       /\ queue' = [queue EXCEPT ![PriorityOf[c]] = RemoveAt(@, i)]
  /\ call' = [call EXCEPT ![c] = "idle"]
  /\ UNCHANGED <<owner, valid, recovering, degraded>>

(* Bug: the lease is given back, and nobody looks at the queue.            *)
RunEndsQuietly(c) ==
  /\ owner = c
  /\ Dispatch([call EXCEPT ![c] = "idle"], queue, FALSE)
  /\ UNCHANGED <<recovering, degraded>>

(* The operation and everything it tracked have settled.                   *)
RunEnds(c) ==
  /\ owner = c
  /\ Dispatch([call EXCEPT ![c] = "idle"], queue, recovering = "no" /\ degraded = NULL)
  /\ UNCHANGED <<recovering, degraded>>

------------------------------------------------------------------------------
(* invalidate(), markDegraded(), recover() *)

Invalidate ==
  /\ valid' = FALSE /\ queue' = NoQueue
  /\ call' = [c \in Caller |-> IF call[c] = "queued" THEN "idle" ELSE call[c]]

MarkDegraded(code) ==
  /\ Invalidate /\ degraded' = code
  /\ UNCHANGED <<owner, recovering>>

RecoverBegins ==
  /\ recovering = "no"
  /\ recovering' = "draining" /\ Invalidate
  /\ UNCHANGED <<owner, degraded>>

(* Bug: the recovery does not wait for the owner.                          *)
DrainedAtOnce ==
  /\ recovering = "draining"
  /\ recovering' = "replacing" /\ owner' = Recovery /\ valid' = TRUE
  /\ UNCHANGED <<queue, degraded, call>>

(* The owner is gone: the recovery has the lease.                          *)
Drained ==
  /\ recovering = "draining" /\ owner = NULL
  /\ recovering' = "replacing" /\ owner' = Recovery /\ valid' = TRUE
  /\ UNCHANGED <<queue, degraded, call>>

(* The owner outlasted drainTimeoutMs: the browser is not touched.         *)
DrainTimesOut ==
  /\ recovering = "draining" /\ owner # NULL
  /\ recovering' = "no" /\ degraded' = "drain_timeout"
  /\ UNCHANGED <<owner, valid, queue, call>>

(* A recovery whose own lease was invalidated has failed.                  *)
RecoveryEnds(worked) ==
  /\ recovering = "replacing"
  /\ recovering' = "no"
  /\ degraded' = IF worked /\ valid THEN NULL ELSE "recovery_failed"
  /\ Dispatch(call, queue, worked /\ valid)

------------------------------------------------------------------------------
(* What holds between any two awaits *)

(* The caller that runs has the lease, and a recovery has it while it      *)
(* replaces the browser.                                                   *)
LeaseFits ==
  /\ \A c \in Caller : call[c] = "running" <=> owner = c
  /\ recovering = "replacing" <=> owner = Recovery
  /\ valid => owner # NULL

(* A caller that waits is in the queue of its priority, once, and nobody   *)
(* else is in it.                                                          *)
WaitersFit ==
  \A p \in Priority :
    /\ \A c \in Caller : call[c] = "queued" /\ PriorityOf[c] = p <=>
                         \E i \in DOMAIN queue[p] : queue[p][i] = c
    /\ \A i, j \in DOMAIN queue[p] : queue[p][i] = queue[p][j] => i = j

LifecycleInvariant == LifecycleTypeOK /\ LeaseFits /\ WaitersFit
=============================================================================
