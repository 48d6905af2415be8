------------------------ MODULE BrowserLifecycleProofs ------------------------
(***************************************************************************)
(* Lemmas about the operations of BrowserLifecycle, for any number of      *)
(* callers and any limit of the queue: each of them keeps one owner of the *)
(* lease, and every waiter in the queue of its priority, once.             *)
(***************************************************************************)
EXTENDS BrowserLifecycle, SequenceTheorems, TLAPS

Of(p) == {c \in Caller : PriorityOf[c] = p}

(* The queue of one priority, as WaitersFit has it.                        *)
Holds(q, p, waits) ==
  /\ q \in Seq(Caller)
  /\ \A c \in Caller : c \in waits /\ PriorityOf[c] = p <=> \E i \in DOMAIN q : q[i] = c
  /\ \A i, j \in DOMAIN q : q[i] = q[j] => i = j

Waits == {c \in Caller : call[c] = "queued"}

LEMMA PriorityIs == \A c \in Caller : PriorityOf[c] \in Priority
  BY DEF PriorityOf, Priority

LEMMA WaitersHold ==
  ASSUME LifecycleTypeOK
  PROVE  WaitersFit <=> \A p \in Priority : Holds(queue[p], p, Waits)
  BY DEF LifecycleTypeOK, WaitersFit, Holds, Waits

LEMMA Appended ==
  ASSUME NEW p, NEW q, NEW W, Holds(q, p, W), NEW c \in Caller, PriorityOf[c] = p, c \notin W
  PROVE  Holds(Append(q, c), p, W \cup {c})
<1> DEFINE r == Append(q, c)
<1>1. q \in Seq(Caller) /\ Len(q) \in Nat /\ DOMAIN q = 1 .. Len(q)
  BY DEF Holds
<1>2. /\ r \in Seq(Caller) /\ DOMAIN r = 1 .. Len(q) + 1 /\ r[Len(q) + 1] = c
      /\ \A i \in 1 .. Len(q) : r[i] = q[i]
  BY <1>1
<1> HIDE DEF r
<1>3. \A d \in Caller : d \in W \cup {c} /\ PriorityOf[d] = p <=> \E i \in DOMAIN r : r[i] = d
  BY <1>1, <1>2 DEF Holds
<1>4. \A i, j \in DOMAIN r : r[i] = r[j] => i = j
  BY <1>1, <1>2 DEF Holds
<1>5. QED
  BY <1>2, <1>3, <1>4 DEF Holds, r

LEMMA Removed ==
  ASSUME NEW p, NEW q, NEW W, Holds(q, p, W), NEW i \in DOMAIN q
  PROVE  Holds(RemoveAt(q, i), p, W \ {q[i]})
<1> DEFINE r == RemoveAt(q, i)
<1>1. /\ q \in Seq(Caller) /\ Len(q) \in Nat /\ DOMAIN q = 1 .. Len(q) /\ i \in 1 .. Len(q)
      /\ q[i] \in Caller
  BY DEF Holds
<1>2. /\ r \in Seq(Caller) /\ DOMAIN r = 1 .. Len(q) - 1
      /\ \A j \in 1 .. Len(q) - 1 : r[j] = IF j < i THEN q[j] ELSE q[j + 1]
  <2> DEFINE a == SubSeq(q, 1, i - 1)  b == SubSeq(q, i + 1, Len(q))
  <2>1. /\ a \in Seq(Caller) /\ Len(a) = i - 1 /\ \A j \in 1 .. i - 1 : a[j] = q[j]
    BY <1>1
  <2>2. /\ b \in Seq(Caller) /\ Len(b) = Len(q) - i /\ \A j \in 1 .. Len(q) - i : b[j] = q[i + j]
    BY <1>1
  <2>3. r = a \o b
    BY DEF RemoveAt
  <2> HIDE DEF a, b, r
  <2>4. /\ r \in Seq(Caller) /\ Len(r) = Len(q) - 1
        /\ \A j \in 1 .. Len(q) - 1 : r[j] = IF j < i THEN a[j] ELSE b[j - (i - 1)]
    <3>1. /\ r \in Seq(Caller) /\ Len(r) = Len(a) + Len(b)
          /\ \A j \in 1 .. Len(a) + Len(b) : r[j] = IF j <= Len(a) THEN a[j] ELSE b[j - Len(a)]
      BY <2>1, <2>2, <2>3, ConcatProperties, Zenon
    <3>2. QED
      BY <1>1, <2>1, <2>2, <3>1
  <2>5. ASSUME NEW j \in 1 .. Len(q) - 1
        PROVE  r[j] = IF j < i THEN q[j] ELSE q[j + 1]
    <3>1. CASE j < i
      BY <1>1, <2>1, <2>4, <3>1
    <3>2. CASE i <= j
      <4>1. j - (i - 1) \in 1 .. Len(q) - i /\ i + (j - (i - 1)) = j + 1
        BY <1>1, <3>2
      <4>2. b[j - (i - 1)] = q[j + 1]
        BY <2>2, <4>1
      <4>3. QED
        BY <1>1, <2>4, <3>2, <4>2
    <3>3. QED
      BY <1>1, <3>1, <3>2
  <2>6. QED
    BY <1>1, <2>4, <2>5
<1> DEFINE old(j) == IF j < i THEN j ELSE j + 1
<1> HIDE DEF r
<1>3. ASSUME NEW j \in DOMAIN r
      PROVE  old(j) \in DOMAIN q /\ old(j) # i /\ r[j] = q[old(j)]
  BY <1>1, <1>2
<1>4. ASSUME NEW k \in DOMAIN q, k # i
      PROVE  \E j \in DOMAIN r : old(j) = k
  <2>1. CASE k < i
    <3>1. k \in DOMAIN r /\ old(k) = k
      BY <1>1, <1>2, <2>1
    <3>2. QED
      BY <3>1
  <2>2. CASE i < k
    <3>1. k - 1 \in DOMAIN r /\ old(k - 1) = k
      BY <1>1, <1>2, <2>2
    <3>2. QED
      BY <3>1
  <2>3. QED
    BY <1>1, <1>4, <2>1, <2>2
<1>5. \A j, k \in DOMAIN r : old(j) = old(k) => j = k
  BY <1>1, <1>2
<1> HIDE DEF old
<1>6. \A j, k \in DOMAIN r : r[j] = r[k] => j = k
  BY <1>3, <1>5 DEF Holds
<1>7. ASSUME NEW d \in Caller
      PROVE  d \in W \ {q[i]} /\ PriorityOf[d] = p <=> \E j \in DOMAIN r : r[j] = d
  <2>1. ASSUME NEW k \in DOMAIN q, q[k] = d, d # q[i]
        PROVE  \E j \in DOMAIN r : r[j] = d
    BY <1>3, <1>4, <2>1
  <2>2. ASSUME NEW j \in DOMAIN r, r[j] = d
        PROVE  d # q[i] /\ \E k \in DOMAIN q : q[k] = d
    BY <1>3, <2>2 DEF Holds
  <2>3. QED
    BY <2>1, <2>2 DEF Holds
<1>8. QED
  BY <1>2, <1>6, <1>7 DEF Holds, r

LEMMA TailRemoves ==
  ASSUME NEW q \in Seq(Caller), q # << >>
  PROVE  Tail(q) = RemoveAt(q, 1) /\ 1 \in DOMAIN q /\ Head(q) = q[1]
<1>1. Len(q) > 0 /\ Head(q) = q[1] /\ 1 \in DOMAIN q
  OBVIOUS
<1>2. RemoveAt(q, 1) = SubSeq(q, 1, 0) \o SubSeq(q, 2, Len(q))
  BY DEF RemoveAt
<1>3. Tail(q) = SubSeq(q, 2, Len(q))
  BY <1>1
<1>4. QED
  BY <1>1, <1>2, <1>3

-----------------------------------------------------------------------------
(* Operations *)

(* A waiter leaves the queue of its priority.                              *)
LEMMA OneLeaves ==
  ASSUME LifecycleTypeOK, WaitersFit, NEW c \in Caller,
         NEW i \in DOMAIN queue[PriorityOf[c]], queue[PriorityOf[c]][i] = c
  PROVE  LET q == [queue EXCEPT ![PriorityOf[c]] = RemoveAt(@, i)]
         IN  /\ q \in [Priority -> Seq(Caller)] /\ c \in Waits
             /\ \A p \in Priority : Holds(q[p], p, Waits \ {c})
<1> DEFINE home == PriorityOf[c]
<1>1. queue \in [Priority -> Seq(Caller)] /\ home \in Priority
  BY PriorityIs DEF LifecycleTypeOK
<1>2. \A p \in Priority : Holds(queue[p], p, Waits)
  BY WaitersHold
<1>3. Holds(RemoveAt(queue[home], i), home, Waits \ {c})
  BY <1>1, <1>2, Removed
<1>4. ASSUME NEW p \in Priority \ {home}
      PROVE  Holds(queue[p], p, Waits \ {c})
  BY <1>2 DEF Holds
<1>5. c \in Waits
  BY <1>1, <1>2 DEF Holds
<1> DEFINE new == RemoveAt(queue[home], i)
<1>6. new \in Seq(Caller)
  BY <1>3 DEF Holds
<1> HIDE DEF new
<1>7. LET q == [queue EXCEPT ![home] = new]
      IN  q \in [Priority -> Seq(Caller)] /\ q[home] = new /\ \A p \in Priority \ {home} : q[p] = queue[p]
  BY <1>1, <1>6
<1>8. QED
  BY <1>3, <1>4, <1>5, <1>7 DEF new

(* The invariant, from what a step does to queue and calls.                *)
LEMMA FromQueue ==
  ASSUME owner' \in Caller \cup {Recovery, NULL}, valid' \in BOOLEAN,
         queue' \in [Priority -> Seq(Caller)],
         recovering' \in {"no", "draining", "replacing"}, degraded' \in Code \cup {NULL},
         call' \in [Caller -> {"idle", "queued", "running"}],
         \A p \in Priority : Holds(queue'[p], p, Waits'),
         \A c \in Caller : call'[c] = "running" <=> owner' = c,
         recovering' = "replacing" <=> owner' = Recovery,
         valid' => owner' # NULL
  PROVE  LifecycleInvariant'
<1>1. LifecycleTypeOK' /\ LeaseFits'
  BY DEF LifecycleTypeOK, LeaseFits
<1>2. WaitersFit'
  BY <1>1 DEF WaitersFit, Holds, Waits
<1>3. QED
  BY <1>1, <1>2 DEF LifecycleInvariant

LEMMA NobodyWaits ==
  ASSUME NEW p \in Priority
  PROVE  NoQueue \in [Priority -> Seq(Caller)] /\ Holds(NoQueue[p], p, {})
<1>1. << >> \in Seq(Caller) /\ DOMAIN << >> = {}
  OBVIOUS
<1>2. QED
  BY <1>1 DEF NoQueue, Holds

LEMMA Starts == LifecycleInit => LifecycleInvariant
<1> SUFFICES ASSUME LifecycleInit PROVE LifecycleInvariant
  OBVIOUS
<1>1. \A c \in Caller : call[c] = "idle" /\ c # NULL /\ c # Recovery
  BY LifecycleAssumption DEF LifecycleInit, AllIdle, Caller
<1>2. LifecycleTypeOK
  BY NobodyWaits DEF LifecycleInit, LifecycleTypeOK, AllIdle, Priority
<1>3. LeaseFits
  BY <1>1, LifecycleAssumption DEF LifecycleInit, LeaseFits
<1>4. Waits = {}
  BY <1>1 DEF Waits
<1>5. WaitersFit
  BY <1>2, <1>4, NobodyWaits, WaitersHold DEF LifecycleInit
<1>6. QED
  BY <1>2, <1>3, <1>5 DEF LifecycleInvariant

LEMMA Gone == LifecycleGone => LifecycleInvariant'
<1> SUFFICES ASSUME LifecycleGone PROVE LifecycleInvariant'
  OBVIOUS
<1>1. \A c \in Caller : call'[c] = "idle" /\ c # NULL /\ c # Recovery
  BY LifecycleAssumption DEF LifecycleGone, AllIdle, Caller
<1>2. Waits' = {}
  BY <1>1 DEF Waits
<1>3. call' \in [Caller -> {"idle", "queued", "running"}]
  BY DEF LifecycleGone, AllIdle
<1>4. QED
  BY <1>1, <1>2, <1>3, NobodyWaits, FromQueue, LifecycleAssumption DEF LifecycleGone, Priority

(* Whoever had the lease, dispatch() gives it to one waiter or to nobody.  *)
LEMMA Dispatched ==
  ASSUME LifecycleTypeOK, WaitersFit, NEW running, NEW open,
         running \in [Caller -> {"idle", "queued", "running"}],
         \A c \in Caller : running[c] # "running",
         \A c \in Caller : running[c] = "queued" <=> call[c] = "queued",
         Dispatch(running, queue, open),
         recovering' \in {"no", "draining"}, degraded' \in Code \cup {NULL}
  PROVE  LifecycleInvariant'
<1>1. \A p \in Priority : Holds(queue[p], p, Waits)
  BY WaitersHold
<1>2. CASE open /\ NextWaiter(queue) # {}
  <2>1. PICK w \in NextWaiter(queue) :
          /\ owner' = w /\ valid' = TRUE
          /\ queue' = [queue EXCEPT ![PriorityOf[w]] = Tail(@)]
          /\ call' = [running EXCEPT ![w] = "running"]
    BY <1>2 DEF Dispatch
  <2>2. PICK p \in Priority : queue[p] # << >> /\ w = Head(queue[p])
    BY DEF NextWaiter, Priority
  <2>3. /\ queue[p] \in Seq(Caller) /\ Tail(queue[p]) = RemoveAt(queue[p], 1)
        /\ 1 \in DOMAIN queue[p] /\ w = queue[p][1]
    BY <2>2, TailRemoves DEF LifecycleTypeOK
  <2>4. w \in Caller /\ w \in Waits /\ PriorityOf[w] = p
    BY <1>1, <2>3 DEF Holds
  <2>5. /\ queue' \in [Priority -> Seq(Caller)]
        /\ \A r \in Priority : Holds(queue'[r], r, Waits \ {w})
    <3>1. queue' = [queue EXCEPT ![PriorityOf[w]] = RemoveAt(@, 1)]
      BY <2>1, <2>3, <2>4
    <3>2. 1 \in DOMAIN queue[PriorityOf[w]] /\ queue[PriorityOf[w]][1] = w
      BY <2>3, <2>4
    <3>3. QED
      BY <2>4, <3>1, <3>2, OneLeaves
  <2>6. /\ call' \in [Caller -> {"idle", "queued", "running"}] /\ call'[w] = "running"
        /\ \A c \in Caller \ {w} : call'[c] = running[c]
    BY <2>1, <2>4
  <2>7. Waits' = Waits \ {w}
    BY <2>6 DEF Waits
  <2>8. w # NULL /\ w # Recovery
    BY <2>4, LifecycleAssumption DEF Caller
  <2>9. \A c \in Caller : call'[c] = "running" <=> owner' = c
    BY <2>1, <2>6
  <2>10. recovering' = "replacing" <=> owner' = Recovery
    BY <2>1, <2>8
  <2>11. QED
    BY <2>1, <2>4, <2>5, <2>6, <2>7, <2>8, <2>9, <2>10, FromQueue
<1>3. CASE ~(open /\ NextWaiter(queue) # {})
  <2>1. owner' = NULL /\ valid' = FALSE /\ queue' = queue /\ call' = running
    BY <1>3 DEF Dispatch
  <2>2. Waits' = Waits
    BY <2>1 DEF Waits
  <2>3. NULL # Recovery /\ \A c \in Caller : c # NULL
    BY LifecycleAssumption DEF Caller
  <2>4. QED
    BY <1>1, <2>1, <2>2, <2>3, FromQueue DEF LifecycleTypeOK
<1>4. QED
  BY <1>2, <1>3

LEMMA RunKeeps ==
  ASSUME LifecycleInvariant, NEW c \in Caller, Run(c)
  PROVE  LifecycleInvariant'
<1> USE DEF LifecycleInvariant
<1>1. /\ call[c] = "idle" /\ recovering = "no" /\ UNCHANGED <<recovering, degraded>>
      /\ c # NULL /\ c # Recovery /\ Recovery # NULL
  BY LifecycleAssumption DEF Run, Refused, Caller
<1>2. \A p \in Priority : Holds(queue[p], p, Waits)
  BY WaitersHold
<1>3. PriorityOf[c] \in Priority
  BY PriorityIs
<1>4. CASE Free
  <2>1. /\ owner = NULL /\ owner' = c /\ valid' = TRUE /\ queue' = queue
        /\ call' = [call EXCEPT ![c] = "running"]
    BY <1>4 DEF Run, Free
  <2>2. /\ call' \in [Caller -> {"idle", "queued", "running"}] /\ call'[c] = "running"
        /\ \A d \in Caller \ {c} : call'[d] = call[d]
    BY <2>1 DEF LifecycleTypeOK
  <2>3. Waits' = Waits
    BY <1>1, <2>2 DEF Waits
  <2>4. \A d \in Caller : call[d] # "running"
    BY <2>1, LifecycleAssumption DEF LeaseFits, Caller
  <2>5. \A d \in Caller : call'[d] = "running" <=> owner' = d
    BY <2>1, <2>2, <2>4
  <2>6. QED
    BY <1>1, <1>2, <2>1, <2>2, <2>3, <2>5, FromQueue DEF LifecycleTypeOK
<1>5. CASE ~Free
  <2>1. /\ queue' = [queue EXCEPT ![PriorityOf[c]] = Append(@, c)]
        /\ call' = [call EXCEPT ![c] = "queued"] /\ UNCHANGED <<owner, valid>>
    BY <1>5 DEF Run
  <2>2. /\ call' \in [Caller -> {"idle", "queued", "running"}] /\ call'[c] = "queued"
        /\ \A d \in Caller \ {c} : call'[d] = call[d]
    BY <2>1 DEF LifecycleTypeOK
  <2>3. Waits' = Waits \cup {c} /\ c \notin Waits
    BY <1>1, <2>2 DEF Waits
  <2>4. Holds(Append(queue[PriorityOf[c]], c), PriorityOf[c], Waits')
    BY <1>2, <1>3, <2>3, Appended
  <2>5. ASSUME NEW p \in Priority \ {PriorityOf[c]}
        PROVE  Holds(queue[p], p, Waits')
    BY <1>2, <2>3 DEF Holds
  <2>6. /\ queue' \in [Priority -> Seq(Caller)]
        /\ \A p \in Priority : Holds(queue'[p], p, Waits')
    <3> DEFINE new == Append(queue[PriorityOf[c]], c)
    <3>1. new \in Seq(Caller)
      BY <2>4 DEF Holds
    <3>2. queue' = [queue EXCEPT ![PriorityOf[c]] = new]
      BY <2>1
    <3> HIDE DEF new
    <3>3. /\ queue' \in [Priority -> Seq(Caller)] /\ queue'[PriorityOf[c]] = new
          /\ \A p \in Priority \ {PriorityOf[c]} : queue'[p] = queue[p]
      BY <1>3, <3>1, <3>2 DEF LifecycleTypeOK
    <3>4. QED
      BY <2>4, <2>5, <3>3 DEF new
  <2>7. \A d \in Caller : call'[d] = "running" <=> owner' = d
    BY <1>1, <2>1, <2>2 DEF LeaseFits
  <2>8. QED
    BY <1>1, <2>1, <2>2, <2>6, <2>7, FromQueue DEF LifecycleTypeOK, LeaseFits
<1>6. QED
  BY <1>4, <1>5

LEMMA TimesOutKeeps ==
  ASSUME LifecycleInvariant, NEW c \in Caller, TimesOut(c)
  PROVE  LifecycleInvariant'
<1> USE DEF LifecycleInvariant
<1>1. PICK i \in DOMAIN queue[PriorityOf[c]] :
        /\ queue[PriorityOf[c]][i] = c
        /\ queue' = [queue EXCEPT ![PriorityOf[c]] = RemoveAt(@, i)]
  BY DEF TimesOut
<1>2. /\ call[c] = "queued" /\ call' = [call EXCEPT ![c] = "idle"]
      /\ UNCHANGED <<owner, valid, recovering, degraded>>
  BY DEF TimesOut
<1>3. /\ queue' \in [Priority -> Seq(Caller)] /\ \A p \in Priority : Holds(queue'[p], p, Waits \ {c})
  BY <1>1, OneLeaves
<1>4. /\ call' \in [Caller -> {"idle", "queued", "running"}] /\ call'[c] = "idle"
      /\ \A d \in Caller \ {c} : call'[d] = call[d]
  BY <1>2 DEF LifecycleTypeOK
<1>5. Waits' = Waits \ {c}
  BY <1>4 DEF Waits
<1>6. \A d \in Caller : call'[d] = "running" <=> owner' = d
  BY <1>2, <1>4 DEF LeaseFits
<1>7. QED
  BY <1>2, <1>3, <1>4, <1>5, <1>6, FromQueue DEF LifecycleTypeOK, LeaseFits

LEMMA RunEndsKeeps ==
  ASSUME LifecycleInvariant, NEW c \in Caller, RunEnds(c)
  PROVE  LifecycleInvariant'
<1> USE DEF LifecycleInvariant
<1> DEFINE rest == [call EXCEPT ![c] = "idle"]
<1>1. /\ owner = c /\ Dispatch(rest, queue, recovering = "no" /\ degraded = NULL)
      /\ UNCHANGED <<recovering, degraded>> /\ c # Recovery
  BY LifecycleAssumption DEF RunEnds, Caller
<1>2. /\ rest \in [Caller -> {"idle", "queued", "running"}] /\ rest[c] = "idle"
      /\ \A d \in Caller \ {c} : rest[d] = call[d]
  BY DEF LifecycleTypeOK
<1>3. call[c] = "running" /\ \A d \in Caller \ {c} : call[d] # "running"
  BY <1>1 DEF LeaseFits
<1>4. recovering' \in {"no", "draining"} /\ degraded' \in Code \cup {NULL}
  BY <1>1 DEF LeaseFits, LifecycleTypeOK
<1> HIDE DEF rest
<1>5. QED
  BY <1>1, <1>2, <1>3, <1>4, Dispatched

LEMMA RecoveryEndsKeeps ==
  ASSUME LifecycleInvariant, NEW worked \in BOOLEAN, RecoveryEnds(worked)
  PROVE  LifecycleInvariant'
<1> USE DEF LifecycleInvariant
<1>1. /\ recovering = "replacing" /\ Dispatch(call, queue, worked /\ valid)
      /\ recovering' = "no" /\ degraded' \in Code \cup {NULL}
  BY DEF RecoveryEnds, Code
<1>2. \A c \in Caller : call[c] # "running"
  BY <1>1, LifecycleAssumption DEF LeaseFits, Caller
<1>3. QED
  BY <1>1, <1>2, Dispatched DEF LifecycleTypeOK

(* invalidate() of a step that keeps the owner.                            *)
LEMMA InvalidateKeeps ==
  ASSUME LifecycleInvariant, Invalidate, owner' = owner,
         recovering' \in {"no", "draining", "replacing"}, degraded' \in Code \cup {NULL},
         recovering' = "replacing" <=> recovering = "replacing"
  PROVE  LifecycleInvariant'
<1> USE DEF LifecycleInvariant
<1>1. /\ call' \in [Caller -> {"idle", "queued", "running"}]
      /\ \A c \in Caller : call'[c] = IF call[c] = "queued" THEN "idle" ELSE call[c]
  BY DEF Invalidate, LifecycleTypeOK
<1>2. Waits' = {}
  BY <1>1 DEF Waits
<1>3. \A c \in Caller : call'[c] = "running" <=> owner' = c
  BY <1>1 DEF LeaseFits
<1>4. queue' = NoQueue /\ valid' = FALSE
  BY DEF Invalidate
<1>5. queue' \in [Priority -> Seq(Caller)] /\ \A p \in Priority : Holds(queue'[p], p, Waits')
  BY <1>2, <1>4, NobodyWaits DEF NoQueue
<1>6. QED
  BY <1>1, <1>3, <1>4, <1>5, FromQueue DEF LifecycleTypeOK, LeaseFits

LEMMA MarkDegradedKeeps ==
  ASSUME LifecycleInvariant, NEW code \in Code, MarkDegraded(code)
  PROVE  LifecycleInvariant'
  BY InvalidateKeeps DEF MarkDegraded, LifecycleInvariant, LifecycleTypeOK

LEMMA RecoverBeginsKeeps == LifecycleInvariant /\ RecoverBegins => LifecycleInvariant'
  BY InvalidateKeeps DEF RecoverBegins, LifecycleInvariant, LifecycleTypeOK

LEMMA DrainKeeps == LifecycleInvariant /\ (Drained \/ DrainTimesOut) => LifecycleInvariant'
<1> SUFFICES ASSUME LifecycleInvariant, Drained \/ DrainTimesOut PROVE LifecycleInvariant'
  OBVIOUS
<1> USE DEF LifecycleInvariant
<1>1. UNCHANGED <<queue, call>> /\ owner # Recovery
  BY LifecycleAssumption DEF Drained, DrainTimesOut, LeaseFits
<1>2. \A p \in Priority : Holds(queue'[p], p, Waits')
  BY <1>1, WaitersHold DEF Waits
<1>3. CASE Drained
  <2>1. /\ owner = NULL /\ recovering' = "replacing" /\ owner' = Recovery /\ valid' = TRUE
        /\ UNCHANGED degraded /\ Recovery # NULL /\ \A c \in Caller : c # NULL /\ c # Recovery
    BY <1>3, LifecycleAssumption DEF Drained, Caller
  <2>2. QED
    BY <1>1, <1>2, <2>1, FromQueue DEF LifecycleTypeOK, LeaseFits
<1>4. CASE DrainTimesOut
  BY <1>1, <1>2, <1>4, FromQueue DEF DrainTimesOut, LifecycleTypeOK, LeaseFits, Code
<1>5. QED
  BY <1>3, <1>4

LEMMA NothingKeeps == LifecycleInvariant /\ UNCHANGED lifecycle => LifecycleInvariant'
  BY DEF lifecycle, LifecycleInvariant, LifecycleTypeOK, LeaseFits, WaitersFit
=============================================================================
