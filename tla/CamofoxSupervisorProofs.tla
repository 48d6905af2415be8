----------------------- MODULE CamofoxSupervisorProofs -----------------------
(***************************************************************************)
(* Proofs about CamofoxSupervisor, for any callers, limits, schedule of    *)
(* waits and number of browsers.                                           *)
(***************************************************************************)
EXTENDS CamofoxSupervisor, BrowserLifecycleProofs

PidTyped ==
  /\ pc \in PC /\ policy \in RecoveryPolicy /\ ledger \in Ledger
  /\ tree \subseteq {"node", "rest", "stray"} /\ wedged \in BOOLEAN /\ ready \in BOOLEAN /\ stop \in BOOLEAN
  /\ calm \in 0 .. Stable

PidFits == ReadinessFits /\ AttemptsFit /\ TreeFits /\ PeriodFits

ServerTyped == browser \in Browser /\ overdue \in BOOLEAN

(* What the action properties ask of a step.                               *)
KeepsLevel == ledger'.level < ledger.level => calm = Stable
KeepsTree == ("node" \notin tree /\ "node" \in tree') => tree \subseteq {"stray"}
KeepsBrowser == browser'.gen > browser.gen => \A c \in Caller : call[c] # "running"

(* A step is good: it keeps the invariant, and does what it should.        *)
Good == SupervisorInvariant' /\ KeepsLevel /\ KeepsTree /\ KeepsBrowser

LEMMA Parts ==
  SupervisorInvariant <=> LifecycleInvariant /\ ServerTyped /\ PidTyped /\ PidFits
  BY DEF SupervisorInvariant, TypeOK, LifecycleInvariant, ServerTyped, PidTyped, PidFits

LEMMA PartsNext ==
  SupervisorInvariant' <=> LifecycleInvariant' /\ ServerTyped' /\ PidTyped' /\ PidFits'
  BY DEF SupervisorInvariant, TypeOK, LifecycleInvariant, ServerTyped, PidTyped, PidFits

LEMMA Numbers ==
  /\ Top \in Nat /\ Longest \in Nat /\ Stable \in Nat /\ Threshold \in Nat \ {0}
  /\ NavFailures \in Nat \ {0} /\ MaxGen \in Nat \ {0} /\ NULL \notin Nat
  /\ \A n \in 0 .. Top : Backoffs[n + 1] \in 0 .. Longest
<1>1. Len(Backoffs) \in Nat \ {0} /\ \A i \in 1 .. Len(Backoffs) : Backoffs[i] \in Nat
  BY SupervisorAssumption
<1>2. \A i \in 1 .. Len(Backoffs) : Backoffs[i] <= Longest
  BY <1>1, SupervisorAssumption DEF Longest
<1>3. Top \in Nat /\ \A n \in 0 .. Top : n + 1 \in 1 .. Len(Backoffs)
  BY <1>1 DEF Top
<1>4. Longest \in Nat
  BY <1>1 DEF Longest
<1>5. QED
  BY <1>1, <1>2, <1>3, <1>4, SupervisorAssumption

LEMMA RecordsTyped ==
  /\ NewBrowser \in Browser /\ NewBrowser.gen = 1
  /\ NewPolicy \in RecoveryPolicy /\ NewPolicy.failures = 0 /\ NewPolicy.tried = {}
  /\ Clean \in Ledger /\ Clean.age = NULL
  /\ Maximum \in Ledger /\ Maximum.level = Top /\ Maximum.age = NULL
<1>1. NewBrowser \in Browser /\ NewBrowser.gen = 1
  BY Numbers DEF NewBrowser, Browser, Gen
<1>2. NewPolicy \in RecoveryPolicy /\ NewPolicy.failures = 0 /\ NewPolicy.tried = {}
  BY Numbers DEF NewPolicy, RecoveryPolicy
<1>3. Clean \in Ledger /\ Clean.age = NULL
  BY Numbers DEF Clean, Ledger
<1>4. Maximum \in Ledger /\ Maximum.level = Top /\ Maximum.age = NULL
  BY Numbers DEF Maximum, Ledger
<1>5. QED
  BY <1>1, <1>2, <1>3, <1>4

-----------------------------------------------------------------------------
(* Kinds of steps *)

(* The server goes on, or exits, and PID 1 does not see it.                *)
LEMMA UnseenStep ==
  ASSUME SupervisorInvariant, LifecycleInvariant', ServerTyped', Outside,
         wedged' \in BOOLEAN \cup {wedged}, stop' \in BOOLEAN \cup {stop},
         \/ tree' \in {tree, tree \ {"stray"}} /\ browser'.gen = browser.gen
         \/ tree' \in Left /\ "node" \in tree /\ browser'.gen = 1
         \/ tree' = tree /\ "node" \notin tree /\ browser'.gen = 1
  PROVE  Good
<1> USE Parts DEF PidTyped, PidFits
<1>1. tree' \subseteq {"node", "rest", "stray"} /\ ("node" \in tree' => "node" \in tree)
  BY DEF Left
<1>2. PidTyped'
  BY <1>1 DEF Outside
<1>3. ReadinessFits' /\ TreeFits' /\ PeriodFits' /\ AttemptsFit'
  <2>1. ReadinessFits' /\ PeriodFits'
    BY <1>1 DEF Outside, ReadinessFits, PeriodFits
  <2>2. TreeFits'
    BY DEF Outside, TreeFits
  <2>3. "node" \in tree' => "node" \in tree /\ browser'.gen = browser.gen
    BY DEF Left
  <2>4. AttemptsFit'
    BY <2>3 DEF Outside, AttemptsFit, Serving
  <2>5. QED
    BY <2>1, <2>2, <2>4
<1>4. KeepsLevel
  BY Numbers DEF Outside, KeepsLevel, Ledger
<1>5. KeepsTree
  BY <1>1 DEF KeepsTree
<1>6. KeepsBrowser
  BY Numbers DEF KeepsBrowser, ServerTyped, Browser, Gen
<1>7. QED
  BY <1>2, <1>3, <1>4, <1>5, <1>6, PartsNext DEF Good

(* PID 1 goes on with what it does: watching, or recovering.               *)
LEMMA SameCourse ==
  ASSUME SupervisorInvariant, LifecycleInvariant', ServerTyped', Around,
         UNCHANGED <<policy, ledger, ready, calm>>,
         \/ pc \in Watching /\ pc' \in Watching
         \/ pc \in Recovering /\ pc' \in Recovering,
         \/ browser'.gen = browser.gen
         \/ /\ browser'.gen = browser.gen + 1 /\ pc \in Recovering
            /\ \A c \in Caller : call[c] # "running"
  PROVE  Good
<1> USE Parts DEF PidTyped, PidFits
<1>1. PidTyped'
  BY DEF Around, PC
<1>2. ReadinessFits' /\ TreeFits' /\ PeriodFits'
  BY DEF Around, ReadinessFits, TreeFits, PeriodFits, Watching, Recovering
<1>3. AttemptsFit'
  <2>1. browser.gen \in Nat /\ policy.tried \subseteq Nat \cup {NULL}
    BY Numbers DEF ServerTyped, Browser, Gen, RecoveryPolicy
  <2>2. QED
    BY <2>1 DEF Around, AttemptsFit, Serving, Watching, Recovering
<1>4. KeepsLevel
  BY Numbers DEF KeepsLevel, Ledger
<1>5. KeepsTree /\ KeepsBrowser
  BY Numbers DEF KeepsTree, Around, KeepsBrowser, ServerTyped, Browser, Gen
<1>6. QED
  BY <1>1, <1>2, <1>3, <1>4, <1>5, PartsNext DEF Good

(* PID 1 gives the child up.                                               *)
LEMMA Condemns ==
  ASSUME SupervisorInvariant, LifecycleInvariant', ServerTyped', Around, Condemn,
         pc \in Recovering \/ "node" \notin tree,
         KeepsBrowser
  PROVE  Good
<1> USE Parts DEF PidTyped, PidFits, Condemn, Around
<1>1. PidTyped'
  BY RecordsTyped DEF PC
<1>2. ReadinessFits' /\ TreeFits' /\ PeriodFits' /\ AttemptsFit'
  BY DEF ReadinessFits, TreeFits, PeriodFits, AttemptsFit, Serving, Watching, Recovering
<1>3. KeepsLevel
  BY Numbers DEF KeepsLevel, Ledger
<1>4. KeepsTree
  BY DEF KeepsTree
<1>5. QED
  BY <1>1, <1>2, <1>3, <1>4, PartsNext DEF Good

-----------------------------------------------------------------------------
(* Answers *)

LEMMA HealthyKeeps ==
  ASSUME ledger \in Ledger, ledger.age # NULL => ledger.age <= calm, calm \in 0 .. Stable
  PROVE  /\ Healthy(ledger) \in Ledger /\ Healthy(ledger).age <= calm
         /\ Healthy(ledger).level < ledger.level => calm = Stable
<1>1. CASE ledger.age = NULL
  <2>1. Healthy(ledger) = [ledger EXCEPT !.age = 0]
    BY <1>1 DEF Healthy
  <2>2. [ledger EXCEPT !.age = 0] \in Ledger
    BY Numbers DEF Ledger
  <2>3. Healthy(ledger).age = 0 /\ Healthy(ledger).level = ledger.level
    BY <2>1 DEF Ledger
  <2>4. QED
    BY <2>1, <2>2, <2>3, Numbers DEF Ledger
<1>2. CASE ledger.age # NULL
  <2>1. ledger.age \in 0 .. Stable
    BY <1>2 DEF Ledger
  <2>2. CASE ledger.age < Stable
    <3>1. Healthy(ledger) = ledger
      BY <1>2, <2>2 DEF Healthy
    <3>2. QED
      BY <1>2, <3>1, Numbers DEF Ledger
  <2>3. CASE ~(ledger.age < Stable)
    <3>1. Healthy(ledger) = [level |-> 0, wait |-> 0, age |-> 0]
      BY <1>2, <2>3 DEF Healthy
    <3>2. [level |-> 0, wait |-> 0, age |-> 0] \in Ledger
      BY Numbers DEF Ledger
    <3>3. calm = Stable
      BY <1>2, <2>1, <2>3, Numbers
    <3>4. QED
      BY <3>1, <3>2, <3>3, Numbers
  <2>4. QED
    BY <2>2, <2>3
<1>3. QED
  BY <1>1, <1>2

(* A sample of the watch.                                                  *)
LEMMA Observes ==
  ASSUME SupervisorInvariant, LifecycleInvariant', ServerTyped', Around,
         browser'.gen = browser.gen, pc \in Watching, NEW code, Observed(code)
  PROVE  Good
<1> USE Parts DEF PidTyped, PidFits
<1>1. PICK memory \in {"ok", "unknown", "hard"} :
        LET healthy == code \in {"ready", "busy"}
            fully == healthy /\ memory = "ok"
            hard == memory = "hard" \/ code = "navigation"
            failures == IF healthy THEN 0
                        ELSE IF code = "stale" /\ ~hard THEN policy.failures
                        ELSE policy.failures + 1
            gen == IF code = "none" THEN NULL ELSE browser.gen
        IN  /\ ledger' = IF fully THEN Healthy(ledger) ELSE [ledger EXCEPT !.age = NULL]
            /\ ready' = fully
            /\ calm' = IF fully THEN calm ELSE 0
            /\ IF ~hard /\ failures < Threshold
               THEN pc' = "watch" /\ policy' = [policy EXCEPT !.failures = failures]
               ELSE IF gen \in policy.tried
               THEN pc' = "stopping" /\ policy' = NewPolicy
               ELSE /\ pc' = "recover"
                    /\ policy' = [failures |-> failures, tried |-> policy.tried \cup {gen},
                                  failed |-> gen]
  BY DEF Observed
<1> DEFINE healthy == code \in {"ready", "busy"}
           fully == healthy /\ memory = "ok"
           hard == memory = "hard" \/ code = "navigation"
           failures == IF healthy THEN 0
                       ELSE IF code = "stale" /\ ~hard THEN policy.failures
                       ELSE policy.failures + 1
           gen == IF code = "none" THEN NULL ELSE browser.gen
           fine == [ledger EXCEPT !.age = NULL]
<1>2. /\ ledger' = IF fully THEN Healthy(ledger) ELSE fine
      /\ ready' = fully /\ calm' = IF fully THEN calm ELSE 0
      /\ \/ ~hard /\ failures < Threshold /\ pc' = "watch"
            /\ policy' = [policy EXCEPT !.failures = failures]
         \/ ~(~hard /\ failures < Threshold) /\ pc' = "stopping" /\ policy' = NewPolicy
         \/ /\ ~(~hard /\ failures < Threshold) /\ pc' = "recover" /\ gen \notin policy.tried
            /\ policy' = [failures |-> failures, tried |-> policy.tried \cup {gen}, failed |-> gen]
  BY <1>1
<1>3. policy.failures \in 0 .. Threshold /\ policy.failures < Threshold
  BY DEF RecoveryPolicy, ReadinessFits
<1>4. failures \in 0 .. Threshold
  BY <1>3, Numbers
<1>5. fully => ~hard /\ failures = 0 /\ failures < Threshold
  BY Numbers
<1>6. gen \in {NULL, browser.gen} /\ browser.gen \in Gen
  BY DEF ServerTyped, Browser
<1>7. fully \in BOOLEAN
  OBVIOUS
<1>8. fine \in Ledger /\ fine.age = NULL /\ fine.level = ledger.level
  BY DEF Ledger
<1>9. calm \in 0 .. Stable /\ calm' \in 0 .. Stable
  BY <1>2, Numbers
<1>10. ledger \in Ledger /\ ledger.level \in 0 .. Top /\ (ledger.age # NULL => ledger.age <= calm)
  BY DEF PeriodFits, Ledger
<1>11. /\ ledger' \in Ledger /\ (ledger'.age # NULL => ledger'.age <= calm')
       /\ ledger'.level < ledger.level => calm = Stable
  BY <1>2, <1>8, <1>9, <1>10, HealthyKeeps, Numbers
<1> HIDE DEF healthy, fully, hard, failures, gen, fine
<1>12. /\ policy' \in RecoveryPolicy
       /\ pc' = "watch" => /\ policy'.failures = failures /\ failures < Threshold
                            /\ policy'.tried = policy.tried
       /\ pc' = "recover" => policy'.tried = policy.tried \cup {gen} /\ policy'.failed = gen
  BY <1>2, <1>4, <1>6, RecordsTyped DEF RecoveryPolicy
<1>13. PidTyped'
  BY <1>2, <1>7, <1>9, <1>11, <1>12 DEF Around, PC, Watching, Recovering
<1>14. ReadinessFits'
  BY <1>2, <1>5, <1>12 DEF ReadinessFits, Watching, Recovering
<1>15. \A g \in policy.tried \ {NULL} : Serving => g < browser.gen
  BY DEF AttemptsFit, Watching, Recovering
<1>16. AttemptsFit'
  <2>1. Serving' => Serving
    BY DEF Serving, Around
  <2>2. CASE pc' = "watch"
    BY <2>1, <2>2, <1>12, <1>15 DEF AttemptsFit
  <2>3. CASE pc' = "recover"
    BY <2>1, <2>3, <1>6, <1>12, <1>15 DEF AttemptsFit, Recovering
  <2>4. CASE pc' = "stopping"
    BY <2>4 DEF AttemptsFit, Serving, Watching, Recovering
  <2>5. QED
    BY <1>2, <2>2, <2>3, <2>4
<1>17. TreeFits' /\ PeriodFits'
  BY <1>2, <1>11 DEF TreeFits, PeriodFits
<1>18. KeepsLevel /\ KeepsTree /\ KeepsBrowser
  BY <1>6, <1>11, Numbers DEF KeepsLevel, KeepsTree, KeepsBrowser, Around, Gen
<1>19. QED
  BY <1>13, <1>14, <1>16, <1>17, <1>18, PartsNext DEF Good

(* The verification of PID 1.                                              *)
LEMMA Verifies ==
  ASSUME SupervisorInvariant, LifecycleInvariant', ServerTyped', Around,
         browser'.gen = browser.gen, pc \in Recovering, NEW code, Verified(code)
  PROVE  Good
<1> USE Parts DEF PidTyped, PidFits
<1>1. KeepsBrowser
  BY Numbers DEF KeepsBrowser, ServerTyped, Browser, Gen
<1>2. CASE Condemn
  BY <1>1, <1>2, Condemns
<1>3. CASE ~Condemn
  <2>1. /\ policy.failed \notin {NULL, browser.gen} /\ pc' = "watch"
        /\ policy' = [policy EXCEPT !.failures = 0, !.failed = NULL]
        /\ UNCHANGED <<ledger, ready, calm>>
    BY <1>3 DEF Verified
  <2>2. /\ policy' \in RecoveryPolicy /\ policy'.failures = 0 /\ policy'.tried = policy.tried
    <3> DEFINE new == [policy EXCEPT !.failures = 0, !.failed = NULL]
    <3>1. policy \in RecoveryPolicy /\ 0 \in 0 .. Threshold
      BY Numbers
    <3>2. new \in RecoveryPolicy
      BY <3>1 DEF RecoveryPolicy
    <3>3. new.failures = 0 /\ new.tried = policy.tried
      BY <3>1 DEF RecoveryPolicy
    <3>4. policy' = new
      BY <2>1
    <3> HIDE DEF new
    <3>5. QED
      BY <3>2, <3>3, <3>4
  <2>3. PidTyped'
    BY <2>1, <2>2 DEF Around, PC, Watching
  <2>4. ReadinessFits' /\ TreeFits' /\ PeriodFits'
    BY <2>1, <2>2, Numbers DEF Around, ReadinessFits, TreeFits, PeriodFits, Watching, Recovering
  <2>5. AttemptsFit'
    <3>1. Serving' => Serving
      BY DEF Serving, Around
    <3>2. QED
      BY <2>1, <2>2, <3>1 DEF AttemptsFit
  <2>6. KeepsLevel /\ KeepsTree
    BY <2>1, Numbers DEF KeepsLevel, KeepsTree, Around, Ledger
  <2>7. QED
    BY <1>1, <2>3, <2>4, <2>5, <2>6, PartsNext DEF Good
<1>4. QED
  BY <1>2, <1>3

(* Whatever was asked and whatever is answered.                            *)
LEMMA Answers ==
  ASSUME SupervisorInvariant, LifecycleInvariant', ServerTyped', Around,
         browser'.gen = browser.gen, NEW asked, NEW code, Answered(asked, code),
         \/ asked = "probing" /\ pc \in Watching
         \/ asked \in {"proving", "verifying"} /\ pc \in Recovering
  PROVE  Good
<1>1. KeepsBrowser
  BY Parts, Numbers DEF KeepsBrowser, ServerTyped, Browser, Gen
<1>2. CASE asked = "probing"
  BY <1>2, Observes DEF Answered
<1>3. CASE asked = "proving"
  <2>1. Condemn \/ (pc' = "recovered" /\ UNCHANGED <<policy, ledger, ready, calm>>)
    BY <1>3 DEF Answered
  <2>2. CASE Condemn
    BY <1>1, <1>3, <2>2, Condemns
  <2>3. CASE pc' = "recovered" /\ UNCHANGED <<policy, ledger, ready, calm>>
    BY <1>3, <2>3, SameCourse DEF Recovering
  <2>4. QED
    BY <2>1, <2>2, <2>3
<1>4. CASE asked = "verifying"
  BY <1>4, Verifies DEF Answered
<1>5. QED
  BY <1>2, <1>3, <1>4

-----------------------------------------------------------------------------
(* The server: handlers, closes, the browser *)

LEMMA DeadlineTyped == ServerTyped /\ KeepsDeadline => overdue' \in BOOLEAN
<1>1. overdue \in BOOLEAN => (overdue /\ owner' = owner) \in BOOLEAN
  OBVIOUS
<1>2. QED
  BY <1>1 DEF ServerTyped, KeepsDeadline

LEMMA CallersAre == Foreground \cup Background \subseteq Caller /\ Probe \in Caller
  BY DEF Caller

LEMMA NavigationFailsWell ==
  ASSUME SupervisorInvariant, NEW c \in Foreground, NavigationFails(c)
  PROVE  Good
<1> USE Parts
<1>1. /\ Serving /\ owner = c /\ ~Latched /\ KeepsDeadline /\ Outside /\ Around
      /\ browser' = [browser EXCEPT !.navs = @ + 1]
  BY DEF NavigationFails
<1>2. LifecycleInvariant'
  <2>1. CASE browser.navs + 1 = NavFailures
    BY <2>1, MarkDegradedKeeps DEF NavigationFails, Code
  <2>2. CASE browser.navs + 1 # NavFailures
    BY <2>2, RunEndsKeeps, CallersAre DEF NavigationFails
  <2>3. QED
    BY <2>1, <2>2
<1>3. browser' \in Browser /\ browser'.gen = browser.gen
  <2>1. browser.navs \in 0 .. NavFailures /\ browser.navs # NavFailures /\ browser \in Browser
    BY <1>1 DEF ServerTyped, Browser, Latched
  <2>2. browser.navs + 1 \in 0 .. NavFailures
    BY <2>1, Numbers
  <2>3. QED
    BY <1>1, <2>1, <2>2 DEF Browser
<1>4. ServerTyped'
  BY <1>1, <1>3, DeadlineTyped DEF ServerTyped
<1>5. QED
  BY <1>1, <1>2, <1>3, <1>4, UnseenStep DEF Around

LEMMA HandlersAreGood ==
  ASSUME SupervisorInvariant, Handlers
  PROVE  Good
<1> USE Parts
<1>1. LifecycleInvariant /\ ServerTyped /\ browser \in Browser /\ overdue \in BOOLEAN
  BY DEF ServerTyped
<1>2. ASSUME NEW c \in Foreground \cup Background, Calls(c) \/ Expires(c) \/ OperationEnds(c)
      PROVE  Good
  <2>1. LifecycleInvariant'
    BY <1>2, RunKeeps, TimesOutKeeps, RunEndsKeeps, CallersAre DEF Calls, Expires, OperationEnds
  <2>2. /\ Outside /\ Around /\ UNCHANGED browser
        /\ KeepsDeadline \/ UNCHANGED overdue
    BY <1>2 DEF Calls, Expires, OperationEnds, server
  <2>3. ServerTyped'
    BY <1>1, <2>2, DeadlineTyped DEF ServerTyped
  <2>4. QED
    BY <2>1, <2>2, <2>3, UnseenStep DEF Around
<1>3. ASSUME NEW c \in Foreground, NavigationWorks(c)
      PROVE  Good
  <2>1. LifecycleInvariant'
    BY <1>3, RunEndsKeeps, CallersAre DEF NavigationWorks
  <2>2. /\ Outside /\ Around /\ KeepsDeadline
        /\ browser' = [browser EXCEPT !.navs = IF Latched THEN @ ELSE 0]
    BY <1>3 DEF NavigationWorks
  <2>3. browser' \in Browser /\ browser'.gen = browser.gen
    BY <1>1, <2>2, Numbers DEF Browser
  <2>4. ServerTyped'
    BY <2>2, <2>3, DeadlineTyped DEF ServerTyped
  <2>5. QED
    BY <2>1, <2>2, <2>3, <2>4, UnseenStep DEF Around
<1>4. ASSUME NEW c \in Foreground, NavigationFails(c)
      PROVE  Good
  BY <1>4, NavigationFailsWell
<1>5. CASE CleanupFails
  <2>1. Outside /\ Around /\ UNCHANGED <<browser, overdue>> /\ MarkDegraded("cleanup")
    BY <1>5 DEF CleanupFails, server
  <2>2. LifecycleInvariant'
    BY <2>1, MarkDegradedKeeps DEF Code
  <2>3. QED
    BY <1>1, <2>1, <2>2, UnseenStep DEF Around, ServerTyped
<1>6. CASE DeadlinePasses \/ BrowserHangs \/ ProofAges
  <2>1. Outside /\ Around /\ UNCHANGED lifecycle
    BY <1>6 DEF DeadlinePasses, BrowserHangs, ProofAges
  <2>2. browser' \in Browser /\ browser'.gen = browser.gen /\ overdue' \in BOOLEAN
    BY <1>1, <1>6 DEF DeadlinePasses, BrowserHangs, ProofAges, Browser
  <2>3. QED
    BY <2>1, <2>2, NothingKeeps, UnseenStep DEF Around, ServerTyped
<1>7. CASE ServerExits
  <2>1. /\ "node" \in tree /\ tree' \in Left /\ LifecycleGone /\ Outside
        /\ browser' = NewBrowser /\ overdue' = FALSE /\ UNCHANGED <<wedged, stop>>
    BY <1>7 DEF ServerExits, ServerGone, Serving
  <2>2. ServerTyped' /\ browser'.gen = 1
    BY <2>1, RecordsTyped DEF ServerTyped
  <2>3. QED
    BY <2>1, <2>2, Gone, UnseenStep
<1>8. QED
  BY <1>2, <1>3, <1>4, <1>5, <1>6, <1>7 DEF Handlers

-----------------------------------------------------------------------------
(* The probe and the recovery *)

LEMMA AskedForIs ==
  /\ pc = "watch" => AskedFor[pc] = "probing"
  /\ pc = "replaced" => AskedFor[pc] = "proving"
  /\ pc = "recovered" => AskedFor[pc] = "verifying"
  /\ DOMAIN AskedFor = {"watch", "replaced", "recovered"}
  BY DEF AskedFor

(* The answer of a step that does not change the browser.                  *)
LEMMA Told ==
  ASSUME SupervisorInvariant, LifecycleInvariant', ServerTyped', Around,
         browser'.gen = browser.gen, NEW code, Tell(code)
  PROVE  Good
<1>1. CASE Waiting
  <2>1. Answered(pc, code)
    BY <1>1 DEF Tell
  <2>2. \/ pc = "probing" /\ pc \in Watching
        \/ pc \in {"proving", "verifying"} /\ pc \in Recovering
    BY <1>1 DEF Waiting, Watching, Recovering
  <2>3. QED
    BY <2>1, <2>2, Answers
<1>2. CASE ~Waiting
  BY <1>2, UnseenStep DEF Tell, Around, Outside
<1>3. QED
  BY <1>1, <1>2

LEMMA AnswersWithin ==
  ASSUME SupervisorInvariant, UNCHANGED <<lifecycle, browser, overdue>>
  PROVE  LifecycleInvariant' /\ ServerTyped' /\ browser'.gen = browser.gen /\ KeepsBrowser
<1>1. LifecycleInvariant' /\ ServerTyped' /\ browser' = browser
  BY Parts, NothingKeeps DEF ServerTyped
<1>2. QED
  BY <1>1, Parts, Numbers DEF KeepsBrowser, ServerTyped, Browser, Gen

LEMMA ProbesAreGood ==
  ASSUME SupervisorInvariant,
         \/ AskedInVain \/ ProbeStarts \/ ProbeReports \/ ProbeExpires \/ ProbeRejected \/ NoReply
         \/ \E ok \in BOOLEAN : ProbeEnds(ok)
  PROVE  Good
<1> USE Parts
<1>1. LifecycleInvariant /\ ServerTyped /\ browser \in Browser /\ overdue \in BOOLEAN
  BY DEF ServerTyped
<1>2. CASE AskedInVain
  <2>1. /\ Around /\ UNCHANGED <<lifecycle, browser, overdue>> /\ pc \in {"watch", "recovered"}
        /\ \E code : Answered(AskedFor[pc], code)
    BY <1>2 DEF AskedInVain, server
  <2>2. \/ AskedFor[pc] = "probing" /\ pc \in Watching
        \/ AskedFor[pc] \in {"proving", "verifying"} /\ pc \in Recovering
    BY <2>1, AskedForIs DEF Watching, Recovering
  <2>3. QED
    BY <2>1, <2>2, AnswersWithin, Answers
<1>3. CASE ProbeStarts
  <2>1. Probes /\ Around /\ UNCHANGED browser /\ pc \in {"watch", "replaced", "recovered"}
    BY <1>3, AskedForIs DEF ProbeStarts, Probes
  <2>2. \/ /\ AskedFor[pc] = "probing" /\ pc \in Watching /\ AskedFor[pc] \in Watching
        \/ /\ AskedFor[pc] \in {"proving", "verifying"} /\ pc \in Recovering
           /\ AskedFor[pc] \in Recovering
    BY <2>1, AskedForIs DEF Watching, Recovering
  <2>3. CASE Run(Probe) /\ KeepsDeadline /\ pc' = AskedFor[pc] /\ UNCHANGED <<policy, ledger, ready, calm>>
    <3>1. LifecycleInvariant' /\ ServerTyped'
      BY <1>1, <2>1, <2>3, RunKeeps, CallersAre, DeadlineTyped DEF ServerTyped
    <3>2. QED
      BY <2>1, <2>2, <2>3, <3>1, SameCourse
  <2>4. CASE pc' = AskedFor[pc] /\ UNCHANGED <<lifecycle, overdue, policy, ledger, ready, calm>>
    BY <2>1, <2>2, <2>4, AnswersWithin, SameCourse
  <2>5. CASE Answered(AskedFor[pc], BusyCode) /\ UNCHANGED <<lifecycle, overdue>>
    BY <2>1, <2>2, <2>5, AnswersWithin, Answers
  <2>6. QED
    BY <1>3, <2>3, <2>4, <2>5 DEF ProbeStarts
<1>4. ASSUME NEW ok \in BOOLEAN, ProbeEnds(ok)
      PROVE  Good
  <2>1. /\ RunEnds(Probe) /\ KeepsDeadline /\ Around /\ \E code : Tell(code)
        /\ \E proven \in BOOLEAN : browser' = [browser EXCEPT !.proven = proven]
    <3>1. browser.proven \in BOOLEAN /\ (browser.proven \/ (ok /\ valid)) \in BOOLEAN
      BY <1>1 DEF Browser
    <3>2. QED
      BY <1>4, <3>1 DEF ProbeEnds
  <2>2. LifecycleInvariant'
    BY <1>1, <2>1, RunEndsKeeps, CallersAre
  <2>3. browser' \in Browser /\ browser'.gen = browser.gen
    BY <1>1, <2>1 DEF Browser
  <2>4. ServerTyped'
    BY <1>1, <2>1, <2>3, DeadlineTyped DEF ServerTyped
  <2>5. QED
    BY <2>1, <2>2, <2>3, <2>4, Told
<1>5. CASE ProbeReports \/ ProbeRejected
  <2>1. Around /\ UNCHANGED <<lifecycle, browser, overdue>> /\ \E code : Tell(code)
    BY <1>5 DEF ProbeReports, ProbeRejected, Tell, server
  <2>2. QED
    BY <2>1, AnswersWithin, Told
<1>6. CASE ProbeExpires
  <2>1. Around /\ UNCHANGED <<browser, overdue>> /\ TimesOut(Probe) /\ \E code : Tell(code)
    BY <1>6 DEF ProbeExpires, server
  <2>2. LifecycleInvariant' /\ ServerTyped'
    BY <1>1, <2>1, TimesOutKeeps, CallersAre DEF ServerTyped
  <2>3. QED
    BY <2>1, <2>2, Told
<1>7. CASE NoReply
  <2>1. /\ Around /\ UNCHANGED <<lifecycle, browser, overdue>>
        /\ \/ pc \in {"probing", "verifying"} /\ Answered(pc, "none")
           \/ pc = "recovered" /\ Answered("verifying", "none")
    BY <1>7 DEF NoReply, server
  <2>2. \E asked : /\ Answered(asked, "none")
                   /\ \/ asked = "probing" /\ pc \in Watching
                      \/ asked \in {"proving", "verifying"} /\ pc \in Recovering
    BY <2>1 DEF Watching, Recovering
  <2>3. QED
    BY <2>1, <2>2, AnswersWithin, Answers
<1>8. QED
  BY <1>2, <1>3, <1>4, <1>5, <1>6, <1>7

LEMMA RecoveriesAreGood ==
  ASSUME SupervisorInvariant,
         \/ RequestRecovery \/ RecoveryDrained \/ RecoveryStuck \/ RecoveryTimesOut
         \/ \E ok \in BOOLEAN : BrowserReplaced(ok)
  PROVE  Good
<1> USE Parts
<1>1. LifecycleInvariant /\ ServerTyped /\ browser \in Browser /\ overdue \in BOOLEAN
  BY DEF ServerTyped
<1>2. CASE RequestRecovery
  <2>1. /\ RecoverBegins /\ Around /\ UNCHANGED <<overdue, policy, ledger, ready, calm>>
        /\ pc \in Recovering /\ pc' \in Recovering
        /\ browser' = [browser EXCEPT !.proven = FALSE]
    BY <1>2 DEF RequestRecovery, Recovering
  <2>2. browser' \in Browser /\ browser'.gen = browser.gen
    BY <1>1, <2>1 DEF Browser
  <2>3. LifecycleInvariant' /\ ServerTyped'
    BY <1>1, <2>1, <2>2, RecoverBeginsKeeps DEF ServerTyped
  <2>4. QED
    BY <2>1, <2>2, <2>3, SameCourse
<1>3. CASE RecoveryDrained
  <2>1. LifecycleInvariant' /\ Outside /\ Around /\ UNCHANGED browser /\ KeepsDeadline
    BY <1>1, <1>3, DrainKeeps DEF RecoveryDrained
  <2>2. ServerTyped'
    BY <1>1, <2>1, DeadlineTyped DEF ServerTyped
  <2>3. QED
    BY <2>1, <2>2, UnseenStep DEF Around
<1>4. CASE RecoveryStuck \/ RecoveryTimesOut
  <2>1. LifecycleInvariant' /\ UNCHANGED <<browser, overdue>> /\ Condemn /\ Around /\ pc \in Recovering
    BY <1>1, <1>4, DrainKeeps, NothingKeeps DEF RecoveryStuck, RecoveryTimesOut, server, Recovering
  <2>2. ServerTyped' /\ KeepsBrowser
    BY <1>1, <2>1, Numbers DEF ServerTyped, KeepsBrowser, Browser, Gen
  <2>3. QED
    BY <2>1, <2>2, Condemns
<1>5. ASSUME NEW ok \in BOOLEAN, BrowserReplaced(ok)
      PROVE  Good
  <2>1. /\ RecoveryEnds(ok) /\ recovering = "replacing" /\ KeepsDeadline /\ Around
        /\ pc = "recovering" /\ pc \in Recovering
    BY <1>5 DEF BrowserReplaced, RecoveryEnds, Recovering
  <2>2. \A c \in Caller : call[c] # "running"
    BY <1>1, <2>1, LifecycleAssumption DEF LifecycleInvariant, LeaseFits, Caller
  <2>3. /\ browser' \in Browser
        /\ browser'.gen = browser.gen \/ (ok /\ browser'.gen = browser.gen + 1)
    <3>1. CASE ok
      <4>1. browser.gen + 1 \in Gen
        BY <1>1, <1>5, <3>1, Numbers DEF BrowserReplaced, Browser, Gen
      <4>2. browser' = [NewBrowser EXCEPT !.gen = browser.gen + 1]
        BY <1>5, <3>1 DEF BrowserReplaced
      <4>3. QED
        BY <3>1, <4>1, <4>2, RecordsTyped DEF Browser
    <3>2. CASE ~ok
      BY <1>1, <1>5, <3>2 DEF BrowserReplaced
    <3>3. QED
      BY <3>1, <3>2
  <2>4. LifecycleInvariant' /\ ServerTyped'
    BY <1>1, <2>1, <2>3, RecoveryEndsKeeps, DeadlineTyped DEF ServerTyped
  <2>5. KeepsBrowser
    BY <2>2 DEF KeepsBrowser
  <2>6. Condemn \/ (pc' = "replaced" /\ UNCHANGED <<policy, ledger, ready, calm>>)
    BY <1>5 DEF BrowserReplaced
  <2>7. CASE Condemn
    BY <2>1, <2>4, <2>5, <2>7, Condemns
  <2>8. CASE pc' = "replaced" /\ UNCHANGED <<policy, ledger, ready, calm>>
    BY <2>1, <2>2, <2>3, <2>4, <2>8, SameCourse DEF Recovering
  <2>9. QED
    BY <2>6, <2>7, <2>8
<1>6. QED
  BY <1>2, <1>3, <1>4, <1>5

-----------------------------------------------------------------------------
(* PID 1 and what is around it *)

(* PID 1 neither watches nor recovers a server.                            *)
LEMMA Rests ==
  ASSUME SupervisorInvariant, LifecycleInvariant', ServerTyped', PidTyped',
         browser'.gen \in {browser.gen, 1}, pc' \notin Watching \cup Recovering,
         ready' /\ "node" \in tree' => pc' = "exiting" /\ policy'.failures = 0,
         TreeFits', PeriodFits', ledger'.level >= ledger.level, "node" \in tree' => "node" \in tree
  PROVE  Good
<1>1. ReadinessFits' /\ AttemptsFit'
  BY DEF ReadinessFits, AttemptsFit, Serving
<1>2. KeepsLevel
  <2>1. ledger.level \in Nat /\ ledger'.level \in Nat
    BY Parts, Numbers DEF PidTyped, Ledger
  <2>2. QED
    BY <2>1 DEF KeepsLevel
<1>3. KeepsTree
  BY DEF KeepsTree
<1>4. KeepsBrowser
  BY Parts, Numbers DEF KeepsBrowser, ServerTyped, Browser, Gen
<1>5. QED
  BY <1>1, <1>2, <1>3, <1>4, PartsNext DEF Good, PidFits

LEMMA LedgerFits ==
  ASSUME ledger \in Ledger
  PROVE  /\ Recycled(ledger) \in Ledger /\ Recycled(ledger).age = NULL
         /\ Recycled(ledger).level >= ledger.level /\ Maximum.level >= ledger.level
         /\ \A l \in Ledger : /\ [l EXCEPT !.wait = 0] \in Ledger
                              /\ [l EXCEPT !.wait = 0].level = l.level
                              /\ [l EXCEPT !.wait = 0].age = l.age
<1>1. ledger.level \in 0 .. Top /\ Backoffs[ledger.level + 1] \in 0 .. Longest
  BY Numbers DEF Ledger
<1>2. Recycled(ledger) \in Ledger
  <2>1. (IF ledger.level < Top THEN ledger.level + 1 ELSE Top) \in 0 .. Top
    BY <1>1, Numbers
  <2>2. QED
    BY <1>1, <2>1 DEF Recycled, Ledger
<1>3. Recycled(ledger).age = NULL /\ Recycled(ledger).level >= ledger.level
  BY <1>1, Numbers DEF Recycled
<1>4. Maximum.level >= ledger.level
  BY <1>1, RecordsTyped, Numbers
<1>5. ASSUME NEW l \in Ledger
      PROVE  /\ [l EXCEPT !.wait = 0] \in Ledger
             /\ [l EXCEPT !.wait = 0].level = l.level /\ [l EXCEPT !.wait = 0].age = l.age
  BY Numbers DEF Ledger
<1>6. QED
  BY <1>2, <1>3, <1>4, <1>5

(* A step that leaves the server and its browser as they are.              *)
LEMMA ServerRests ==
  ASSUME SupervisorInvariant, UNCHANGED <<lifecycle, server>>
  PROVE  /\ LifecycleInvariant' /\ ServerTyped' /\ KeepsBrowser
         /\ browser'.gen = browser.gen /\ browser'.gen \in {browser.gen, 1}
  BY AnswersWithin DEF server

LEMMA ServerLeaves ==
  ServerGone => /\ LifecycleInvariant' /\ ServerTyped' /\ browser'.gen = 1
                /\ browser'.gen \in {browser.gen, 1}
<1> SUFFICES ASSUME ServerGone
             PROVE  LifecycleInvariant' /\ ServerTyped' /\ browser'.gen = 1
  OBVIOUS
<1>1. LifecycleGone /\ browser' = NewBrowser /\ overdue' = FALSE
  BY DEF ServerGone
<1>2. QED
  BY <1>1, Gone, RecordsTyped DEF ServerTyped

LEMMA SupervisionIsGood ==
  ASSUME SupervisorInvariant, Supervision
  PROVE  Good
<1> USE Parts DEF PidTyped, PidFits
<1>1. ledger \in Ledger /\ 0 < Threshold
  BY Numbers
<1>2. CASE ChildExited
  BY <1>2, ServerRests, Condemns DEF ChildExited
<1>3. CASE StopEnds
  <2>1. /\ pc \in {"stopping", "retrying", "finishing"} /\ ServerGone
        /\ UNCHANGED <<policy, wedged, stop, calm>>
    BY <1>3 DEF StopEnds
  <2>2. CASE wedged
    <3>1. /\ tree' = (tree \cap {"stray"}) \cup {"rest"} /\ ledger' = Maximum /\ ready' = FALSE
          /\ pc' = IF pc = "finishing" THEN "exiting" ELSE "blocked"
      BY <1>3, <2>2 DEF StopEnds
    <3>2. pc' \in {"exiting", "blocked"}
      BY <3>1
    <3>3. PidTyped' /\ TreeFits' /\ PeriodFits'
      BY <2>1, <3>1, <3>2, RecordsTyped DEF PC, Ending, TreeFits, PeriodFits
    <3>4. ledger'.level >= ledger.level
      BY <1>1, <3>1, LedgerFits
    <3>5. QED
      BY <2>1, <3>1, <3>2, <3>3, <3>4, ServerLeaves, Rests DEF Watching, Recovering
  <2>3. CASE ~wedged
    <3>1. /\ tree' = tree \cap {"stray"} /\ UNCHANGED <<ledger, ready>>
          /\ pc' \in {"recording", "top", "exiting"} /\ (pc' = "top" => pc = "retrying")
      BY <1>3, <2>1, <2>3 DEF StopEnds
    <3>2. PidTyped' /\ TreeFits' /\ PeriodFits'
      BY <2>1, <3>1 DEF PC, Ending, TreeFits, PeriodFits
    <3>3. ledger'.level >= ledger.level
      BY <1>1, <3>1, Numbers DEF Ledger
    <3>4. QED
      BY <2>1, <3>1, <3>2, <3>3, ServerLeaves, Rests DEF Watching, Recovering
  <2>4. QED
    BY <2>2, <2>3
<1>4. CASE Record
  <2> DEFINE next == Recycled(ledger)
             later == [next EXCEPT !.wait = 0]
  <2>1. /\ next \in Ledger /\ next.age = NULL /\ next.level >= ledger.level
        /\ later \in Ledger /\ later.age = NULL /\ later.level >= ledger.level
    BY <1>1, LedgerFits
  <2>2. /\ pc = "recording" /\ ledger' \in {next, later} /\ pc' \in {"finishing", "top"}
        /\ Around /\ UNCHANGED <<lifecycle, server, policy, calm>>
    BY <1>4 DEF Record
  <2>3. ready' \in BOOLEAN
    BY <1>4 DEF Record
  <2> HIDE DEF next, later
  <2>4. tree \subseteq {"stray"}
    BY <2>2 DEF TreeFits
  <2>5. PidTyped' /\ TreeFits' /\ PeriodFits' /\ ledger'.level >= ledger.level
    BY <2>1, <2>2, <2>3, <2>4 DEF PC, Ending, TreeFits, PeriodFits, Around
  <2>6. QED
    BY <2>2, <2>4, <2>5, ServerRests, Rests DEF Watching, Recovering, Around
<1>5. CASE Delegate
  <2> DEFINE next == [ledger EXCEPT !.wait = 0]
  <2>1. /\ ledger' = next /\ pc' = "finishing" /\ ready' = FALSE
        /\ Around /\ UNCHANGED <<lifecycle, server, policy, calm>>
    BY <1>5 DEF Delegate
  <2>2. next \in Ledger /\ next.level = ledger.level /\ next.age = ledger.age
    BY <1>1, LedgerFits
  <2> HIDE DEF next
  <2>3. PidTyped' /\ TreeFits' /\ PeriodFits'
    BY <2>1, <2>2 DEF PC, Ending, TreeFits, PeriodFits, Around
  <2>4. ledger'.level >= ledger.level
    BY <1>1, <2>1, <2>2, Numbers DEF Ledger
  <2>5. QED
    BY <2>1, <2>3, <2>4, ServerRests, Rests DEF Watching, Recovering, Around
<1>6. CASE Retry \/ Finish
  <2>1. /\ UNCHANGED <<lifecycle, server, ledger, calm>> /\ Around
        /\ \/ pc = "blocked" /\ pc' = "retrying" /\ UNCHANGED <<policy, ready>>
           \/ pc' = "finishing" /\ policy' = NewPolicy /\ ready' = FALSE
    BY <1>6 DEF Retry, Finish
  <2>2. PidTyped' /\ TreeFits' /\ PeriodFits'
    BY <2>1, RecordsTyped DEF PC, Ending, TreeFits, PeriodFits, Around
  <2>3. ledger'.level >= ledger.level
    BY <1>1, <2>1, Numbers DEF Ledger
  <2>4. ~(ready' /\ "node" \in tree')
    BY <2>1 DEF ReadinessFits, Around, Watching
  <2>5. QED
    BY <2>1, <2>2, <2>3, <2>4, ServerRests, Rests DEF Watching, Recovering, Around
<1>7. CASE Launch
  <2>1. /\ pc = "top" /\ tree' = tree \cup {"node", "rest"} /\ policy' = NewPolicy /\ pc' = "watch"
        /\ ready' = FALSE /\ calm' = 0 /\ UNCHANGED <<lifecycle, server, ledger, wedged, stop>>
    BY <1>7 DEF Launch
  <2>2. tree \subseteq {"stray"} /\ ledger.age = NULL
    BY <2>1 DEF TreeFits, PeriodFits
  <2>3. PidTyped' /\ TreeFits' /\ PeriodFits'
    <3>1. calm' \in 0 .. Stable /\ pc' \in PC /\ tree' \subseteq {"node", "rest", "stray"}
      BY <2>1, Numbers DEF PC, Watching
    <3>2. PidTyped'
      BY <2>1, <3>1, RecordsTyped
    <3>3. TreeFits' /\ PeriodFits'
      BY <2>1, <2>2 DEF TreeFits, PeriodFits
    <3>4. QED
      BY <3>2, <3>3
  <2>4. ReadinessFits' /\ AttemptsFit'
    BY <1>1, <2>1, RecordsTyped DEF ReadinessFits, AttemptsFit, Recovering
  <2>5. KeepsLevel /\ KeepsTree
    BY <1>1, <2>1, <2>2, Numbers DEF KeepsLevel, KeepsTree, Ledger
  <2>6. QED
    BY <2>1, <2>3, <2>4, <2>5, ServerRests, PartsNext DEF Good
<1>8. CASE LaunchFails
  <2>1. /\ tree' \in {tree, tree \cup {"rest"}} /\ pc' = "stopping"
        /\ UNCHANGED <<lifecycle, server, policy, ledger, wedged, ready, stop, calm>>
    BY <1>8 DEF LaunchFails
  <2>2. PidTyped' /\ TreeFits' /\ PeriodFits'
    BY <2>1 DEF PC, TreeFits, PeriodFits
  <2>3. ledger'.level >= ledger.level
    BY <1>1, <2>1, Numbers DEF Ledger
  <2>4. "node" \notin tree'
    BY <1>8, <2>1 DEF LaunchFails, TreeFits
  <2>5. QED
    BY <2>1, <2>2, <2>3, <2>4, ServerRests, Rests DEF Watching, Recovering
<1>9. CASE OperatorStops
  <2>1. stop' = TRUE /\ ServerGone /\ Outside /\ wedged' = wedged
    BY <1>9 DEF OperatorStops, Outside
  <2>2. CASE "node" \in tree
    <3>1. tree' \in Left
      BY <1>9, <2>2 DEF OperatorStops
    <3>2. QED
      BY <2>1, <2>2, <3>1, ServerLeaves, UnseenStep
  <2>3. CASE "node" \notin tree
    <3>1. tree' = tree
      BY <1>9, <2>3 DEF OperatorStops
    <3>2. QED
      BY <2>1, <2>3, <3>1, ServerLeaves, UnseenStep
  <2>4. QED
    BY <2>2, <2>3
<1>10. QED
  BY <1>2, <1>3, <1>4, <1>5, <1>6, <1>7, <1>8, <1>9 DEF Supervision

(* The clock: a healthy period is never older than the calm it is part of. *)
LEMMA TickIsGood ==
  ASSUME SupervisorInvariant, Tick
  PROVE  Good
<1> USE Parts DEF PidTyped, PidFits
<1>1. /\ ledger' = [ledger EXCEPT !.wait = IF @ > 0 THEN @ - 1 ELSE 0,
                                  !.age = IF @ \in 0 .. Stable - 1 THEN @ + 1 ELSE @]
      /\ calm' = IF calm < Stable THEN calm + 1 ELSE calm
      /\ UNCHANGED <<lifecycle, server, pc, policy, tree, wedged, ready, stop>>
  BY DEF Tick
<1>2. /\ ledger \in Ledger /\ ledger.level \in 0 .. Top /\ ledger.wait \in 0 .. Longest
      /\ ledger.age \in 0 .. Stable \cup {NULL} /\ calm \in 0 .. Stable
  BY DEF Ledger
<1> DEFINE wait == IF ledger.wait > 0 THEN ledger.wait - 1 ELSE 0
           age == IF ledger.age \in 0 .. Stable - 1 THEN ledger.age + 1 ELSE ledger.age
<1>3. wait \in 0 .. Longest /\ age \in 0 .. Stable \cup {NULL} /\ calm' \in 0 .. Stable
  BY <1>1, <1>2, Numbers
<1>4. ledger.age = NULL => age = NULL
  BY Numbers
<1>5. ledger.age # NULL => age <= calm'
  BY <1>1, <1>2, Numbers DEF PeriodFits
<1>6. ledger' = [ledger EXCEPT !.wait = wait, !.age = age]
  BY <1>1
<1> HIDE DEF wait, age
<1>7. ledger' \in Ledger
  BY <1>2, <1>3, <1>6 DEF Ledger
<1>8. ledger'.level = ledger.level /\ ledger'.age = age
  BY <1>2, <1>6 DEF Ledger
<1>9. PidTyped' /\ TreeFits'
  BY <1>1, <1>3, <1>7 DEF TreeFits
<1>10. ReadinessFits' /\ AttemptsFit'
  BY <1>1 DEF ReadinessFits, AttemptsFit, Serving, server
<1>11. PeriodFits'
  BY <1>1, <1>4, <1>5, <1>8 DEF PeriodFits
<1>12. KeepsLevel /\ KeepsTree
  BY <1>1, <1>2, <1>8, Numbers DEF KeepsLevel, KeepsTree
<1>13. QED
  BY <1>1, <1>9, <1>10, <1>11, <1>12, ServerRests, PartsNext DEF Good

LEMMA SurroundingsAreGood ==
  ASSUME SupervisorInvariant, Surroundings
  PROVE  Good
<1> USE Parts DEF PidTyped, PidFits
<1>1. ledger \in Ledger /\ ledger.level \in Nat
  BY Numbers DEF Ledger
<1>2. CASE Killed
  <2>1. /\ pc' = "exiting" /\ policy' = NewPolicy /\ ServerGone
        /\ Around /\ UNCHANGED <<ledger, ready, calm>>
    BY <1>2 DEF Killed
  <2>2. PidTyped' /\ TreeFits' /\ PeriodFits' /\ policy'.failures = 0
    BY <2>1, RecordsTyped DEF PC, Ending, TreeFits, PeriodFits, Around
  <2>3. QED
    BY <1>1, <2>1, <2>2, ServerLeaves, Rests DEF Watching, Recovering, Around
<1>3. CASE ContainerEnds \/ OperatorStarts
  <2>1. /\ UNCHANGED <<lifecycle, server, policy, ledger, wedged, calm>>
        /\ pc' \in {"down", "off"} /\ tree' = {} /\ stop' \in BOOLEAN /\ ready' \in BOOLEAN
    BY <1>3 DEF ContainerEnds, OperatorStarts, TreeFits
  <2>2. PidTyped' /\ TreeFits' /\ PeriodFits'
    BY <2>1 DEF PC, Ending, TreeFits, PeriodFits
  <2>3. QED
    BY <1>1, <2>1, <2>2, ServerRests, Rests DEF Watching, Recovering
<1>4. CASE Boot
  <2>1. /\ pc = "down" /\ pc' = "top" /\ calm' = 0 /\ ledger' \in Loaded
        /\ Around /\ UNCHANGED <<lifecycle, server, policy, ready>>
    BY <1>4 DEF Boot
  <2>2. ledger' \in Ledger /\ ledger'.age = NULL /\ ledger'.level >= ledger.level
    <3> DEFINE same == [ledger EXCEPT !.age = NULL]
               other == [ledger EXCEPT !.age = NULL, !.wait = 0]
    <3>1. same \in Ledger /\ same.age = NULL /\ same.level = ledger.level
      BY <1>1 DEF Ledger
    <3>2. other \in Ledger /\ other.age = NULL /\ other.level = ledger.level
      <4>1. other = [same EXCEPT !.wait = 0]
        BY <1>1 DEF Ledger
      <4>2. QED
        BY <1>1, <3>1, <4>1, LedgerFits
    <3>3. ledger' \in {same, other, Maximum}
      BY <2>1 DEF Loaded
    <3> HIDE DEF same, other
    <3>4. QED
      BY <1>1, <3>1, <3>2, <3>3, RecordsTyped, LedgerFits
  <2>3. tree = {}
    BY <2>1 DEF TreeFits
  <2>4. PidTyped' /\ TreeFits' /\ PeriodFits'
    BY <2>1, <2>2, <2>3, Numbers DEF PC, TreeFits, PeriodFits, Around
  <2>5. QED
    BY <2>1, <2>2, <2>3, <2>4, ServerRests, Rests DEF Watching, Recovering, Around
<1>5. CASE Wedges \/ Unwedges
  <2>1. /\ wedged' \in BOOLEAN
        /\ UNCHANGED <<lifecycle, server, pc, policy, ledger, tree, ready, stop, calm>>
    BY <1>5 DEF Wedges, Unwedges
  <2>2. QED
    BY <2>1, ServerRests, UnseenStep DEF Outside
<1>6. CASE StrayEnds
  <2>1. /\ tree' = tree \ {"stray"}
        /\ UNCHANGED <<lifecycle, server, pc, policy, ledger, wedged, ready, stop, calm>>
    BY <1>6 DEF StrayEnds
  <2>2. QED
    BY <2>1, ServerRests, UnseenStep DEF Outside
<1>7. CASE Tick
  BY <1>7, TickIsGood
<1>8. QED
  BY <1>2, <1>3, <1>4, <1>5, <1>6, <1>7 DEF Surroundings

-----------------------------------------------------------------------------
(* The specification *)

LEMMA InitFits == Init => SupervisorInvariant
<1> SUFFICES ASSUME Init PROVE SupervisorInvariant
  OBVIOUS
<1>1. LifecycleInvariant
  BY Starts DEF Init
<1>2. ServerTyped
  BY RecordsTyped DEF Init, ServerTyped
<1>3. PidTyped
  <2>1. calm \in 0 .. Stable /\ pc \in PC
    BY Numbers DEF Init, PC
  <2>2. QED
    BY <2>1, RecordsTyped DEF Init, PidTyped
<1>4. PidFits
  BY RecordsTyped
     DEF Init, PidFits, ReadinessFits, AttemptsFit, TreeFits, PeriodFits, Serving, Watching, Recovering
<1>5. QED
  BY <1>1, <1>2, <1>3, <1>4, Parts

LEMMA StepsAreGood == SupervisorInvariant /\ [Next]_vars => Good
<1> SUFFICES ASSUME SupervisorInvariant, [Next]_vars PROVE Good
  OBVIOUS
<1>1. CASE Handlers
  BY <1>1, HandlersAreGood
<1>2. CASE Health
  BY <1>2, ProbesAreGood, RecoveriesAreGood DEF Health
<1>3. CASE Supervision
  BY <1>3, SupervisionIsGood
<1>4. CASE Surroundings
  BY <1>4, SurroundingsAreGood
<1>5. CASE UNCHANGED vars
  <2>1. /\ UNCHANGED <<lifecycle, browser, overdue>> /\ Outside
        /\ tree' = tree /\ wedged' = wedged /\ stop' = stop
    BY <1>5 DEF vars, Outside
  <2>2. QED
    BY <2>1, AnswersWithin, UnseenStep
<1>6. QED
  BY <1>1, <1>2, <1>3, <1>4, <1>5 DEF Next

(* PID 1 and the coordinator agree between any two waits: one owner of the *)
(* lease, every waiter in its queue once, and a readiness file, attempts,  *)
(* process tree and ledger that fit where PID 1 is.  The probes, recoveries, *)
(* crashes and restarts of supervisor.py and spartan-lifecycle.mjs, in any *)
(* order, keep it so.                                                      *)
THEOREM SupervisorIsConsistent == Spec => []SupervisorInvariant
<1>1. SupervisorInvariant /\ [Next]_vars => SupervisorInvariant'
  BY StepsAreGood DEF Good
<1>2. QED
  BY InitFits, <1>1, PTL DEF Spec

(* A ready file for a server that is there is deserved: PID 1 watches the  *)
(* server and has no failure on record (_publish, RecoveryPolicy.observe).  *)
THEOREM ReadinessIsEarned == Spec => []HealthyIsEarned
<1>1. SupervisorInvariant => HealthyIsEarned
  BY DEF SupervisorInvariant, ReadinessFits, HealthyIsEarned
<1>2. QED
  BY <1>1, SupervisorIsConsistent, PTL

(* No watched browser was already the subject of a recovery: the guard of  *)
(* attempts (RecoveryAttemptGuard) never has to fear its own success.      *)
THEOREM AttemptsAreSingle == Spec => []OneAttemptPerBrowser
<1>1. SupervisorInvariant => OneAttemptPerBrowser
  <2> SUFFICES ASSUME SupervisorInvariant, Serving, pc \in Watching
               PROVE  browser.gen \notin policy.tried
    BY DEF OneAttemptPerBrowser
  <2>1. browser.gen \in Nat /\ browser.gen # NULL
    BY Parts, Numbers DEF ServerTyped, Browser, Gen
  <2>2. pc \notin Recovering
    BY DEF Watching, Recovering
  <2>3. QED
    BY <2>1, <2>2 DEF SupervisorInvariant, AttemptsFit
<1>2. QED
  BY <1>1, SupervisorIsConsistent, PTL

(* A server starts only when every tracked process of the one before is    *)
(* gone: the stop of the group (_stop_lifecycle) found and ended them all, *)
(* or the namespace is gone.  A browser that left the group and lost its   *)
(* parent is not found (lifecycle_processes), and may live on beside it.   *)
THEOREM TrackedAreGone == Spec => TrackedGoneFirst
<1>1. SupervisorInvariant /\ [Next]_vars =>
        (("node" \notin tree /\ "node" \in tree') => tree \subseteq {"stray"})
  BY StepsAreGood DEF Good, KeepsTree
<1>2. QED
  BY <1>1, SupervisorIsConsistent, PTL DEF Spec, TrackedGoneFirst

(* recover() takes the lease before it replaces the browser, so no         *)
(* operation and no probe runs on the browser it closes.                   *)
THEOREM OperationsKeepTheirBrowser == Spec => OperationKeepsBrowser
<1>1. SupervisorInvariant /\ [Next]_vars =>
        (browser'.gen > browser.gen => \A c \in Caller : call[c] # "running")
  BY StepsAreGood DEF Good, KeepsBrowser
<1>2. QED
  BY <1>1, SupervisorIsConsistent, PTL DEF Spec, OperationKeepsBrowser

(* The ledger forgets its level only after a stable, calm period, for any  *)
(* schedule of waits and across crashes and restarts (mark_healthy,        *)
(* mark_unhealthy, load_ledger).                                           *)
THEOREM EscalationIsKept == Spec => LevelIsKept
<1>1. SupervisorInvariant /\ [Next]_vars => (ledger'.level < ledger.level => calm = Stable)
  BY StepsAreGood DEF Good, KeepsLevel
<1>2. QED
  BY <1>1, SupervisorIsConsistent, PTL DEF Spec, LevelIsKept

=============================================================================
