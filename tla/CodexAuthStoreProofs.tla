------------------------ MODULE CodexAuthStoreProofs ------------------------
(***************************************************************************)
(* Proofs about CodexAuthStore, for every number of processes, coroutines, *)
(* accounts and tokens, and whatever the faults.                           *)
(***************************************************************************)
EXTENDS CodexAuthStore, TLAPS

(* The furthest expiry is that of a candidate, and no other expires later. *)
LEMMA BestIsCandidate ==
  ASSUME TypeOK, Candidates # {}
  PROVE  /\ Best(Candidates) \in Candidates
         /\ \A u \in Candidates : u <= Best(Candidates)
         /\ Best(Candidates) \in Token
<1>1. \E t \in Candidates : \A u \in Candidates : u <= t
  <2> USE DEF TypeOK, Token, Candidates
  <2>1. CASE Candidates = {boot}
    BY <2>1, AuthAssumption
  <2>2. CASE Candidates = {managed}
    BY <2>2, AuthAssumption
  <2>3. CASE Candidates = {boot, managed} /\ boot # NULL /\ managed # NULL
    BY <2>3, AuthAssumption
  <2>4. QED
    BY <2>1, <2>2, <2>3, AuthAssumption
<1>2. Candidates \subseteq Token
  BY DEF TypeOK, Candidates
<1>3. QED
  BY <1>1, <1>2 DEF Best

(* A store without files satisfies the invariant.                          *)
LEMMA InitInvariant == Init => AuthInvariant
  BY AuthAssumption
  DEF Init, AuthInvariant, TypeOK, LocksOwned, PersistedBeforeUse, FilesHoldIssued,
      NewestIsFound, PostIsCurrent, Slot, Fresh, Token

-----------------------------------------------------------------------------
(***************************************************************************)
(* Types.                                                                  *)
(***************************************************************************)
LEMMA SlotValues ==
  ASSUME TypeOK, NEW s \in Slot, NEW t \in Token \cup {NULL}
  PROVE  /\ Detected(s) \in Slot /\ Fresh(boot) \in Slot
         /\ Adopted(s, t) \in Slot /\ Retryable(s) \in Slot /\ Terminal(s, t) \in Slot
         /\ [s EXCEPT !.auth = NULL] \in Slot
  BY DEF TypeOK, Slot, Detected, Fresh, Adopted, Retryable, Terminal

(* A new token comes after all others.                                     *)
LEMMA IssueAppends ==
  ASSUME TypeOK, Len(token) < MaxTokens, NEW a \in Account, NEW t \in Token \cup {NULL}, Issue(a, t)
  PROVE  /\ token' \in Seq([acct : Account, prev : Token \cup {NULL}])
         /\ Len(token') = Len(token) + 1 /\ Len(token') <= MaxTokens
         /\ \A n \in 1 .. Len(token) : token'[n] = token[n]
         /\ token'[Len(token) + 1] = [acct |-> a, prev |-> t]
         /\ NextToken = Len(token) + 1 /\ NextToken \in Token
<1> DEFINE R == [acct : Account, prev : Token \cup {NULL}]
           new == [acct |-> a, prev |-> t]
<1>1. new \in R /\ token \in Seq(R) /\ token' = Append(token, new)
  BY DEF TypeOK, Issue
<1>2. NextToken = Len(token) + 1 /\ NextToken \in Token /\ Len(token) + 1 <= MaxTokens
  BY AuthAssumption, <1>1 DEF NextToken, Token
<1> HIDE DEF R, new
<1>3. /\ token' \in Seq(R) /\ Len(token') = Len(token) + 1
      /\ \A n \in 1 .. Len(token) : token'[n] = token[n]
      /\ token'[Len(token) + 1] = new
  BY <1>1
<1>4. QED
  BY <1>2, <1>3 DEF R, new

(* What a coroutine does to the state of its calls and of the locks.       *)
Callers ==
  /\ plock \in [Proc -> Worker \cup {NULL}]
  /\ flock \in Worker \cup {NULL}
  /\ pc \in [Worker -> {"idle", "queued", "locking", "posting", "answered"}]
  /\ orig \in [Worker -> Token \cup {NULL}]
  /\ att \in [Worker -> Token \cup {NULL}]
  /\ reply \in [Worker -> Token \cup {NULL}]

LEMMA ReturnTyped == \A w \in Worker : TypeOK /\ Return(w) => Callers'
  BY DEF TypeOK, Callers, Return

LEMMA UnderLocksTyped ==
  ASSUME TypeOK, NEW w \in Worker, NEW s \in Slot, NEW o \in Token \cup {NULL},
         UnderLocks(w, s, o)
  PROVE  slot' \in [Proc -> Slot] /\ Callers'
<1> DEFINE c == Best(Candidates)
<1>1. Candidates # {} => c \in Token
  BY BestIsCandidate
<1>2. ASSUME NEW t \in Slot, SetSlot(w, t) PROVE slot' \in [Proc -> Slot]
  BY <1>2 DEF SetSlot, TypeOK
<1>3. CASE Candidates = {} /\ SetSlot(w, Terminal(s, o)) /\ Return(w)
  BY <1>2, <1>3, SlotValues, ReturnTyped
<1>4. CASE SetSlot(w, Retryable(s)) /\ Return(w)
  BY <1>2, <1>4, SlotValues, ReturnTyped
<1>5. CASE Candidates # {} /\ SetSlot(w, Adopted(s, c)) /\ Return(w)
  BY <1>1, <1>2, <1>5, SlotValues, ReturnTyped
<1>6. CASE /\ Candidates # {}
           /\ SetSlot(w, s)
           /\ plock' = [plock EXCEPT ![Home[w]] = w] /\ flock' = w
           /\ pc' = [pc EXCEPT ![w] = "posting"]
           /\ orig' = [orig EXCEPT ![w] = o]
           /\ att' = [att EXCEPT ![w] = c]
           /\ UNCHANGED reply
  BY <1>1, <1>2, <1>6 DEF TypeOK, Callers
<1>7. QED
  BY <1>3, <1>4, <1>5, <1>6 DEF UnderLocks

LEMMA TurnTyped ==
  ASSUME TypeOK, NEW w \in Worker, NEW s \in Slot, NEW o \in Token \cup {NULL}, NEW where,
         \/ where \in {"locking", "queued"} /\ Suspend(w, s, o, where)
         \/ WithProcessTurn(w, s, o)
  PROVE  slot' \in [Proc -> Slot] /\ Callers'
<1>1. ASSUME NEW stop \in {"locking", "queued"}, Suspend(w, s, o, stop)
      PROVE  slot' \in [Proc -> Slot] /\ Callers'
  BY <1>1 DEF Suspend, SetSlot, TypeOK, Callers
<1>2. QED
  BY <1>1, UnderLocksTyped DEF WithProcessTurn

(* Every step of load_auth(), _refresh() and the surroundings keeps types. *)
LEMMA NextTyped == AuthInvariant /\ [Next]_vars => TypeOK'
<1> SUFFICES ASSUME AuthInvariant, TypeOK, [Next]_vars PROVE TypeOK'
  BY DEF AuthInvariant
<1> DEFINE Files == /\ token \in Seq([acct : Account, prev : Token \cup {NULL}])
                    /\ Len(token) <= MaxTokens
                    /\ horizon \in 0 .. MaxTokens
                    /\ valid \subseteq Token
                    /\ boot \in Token \cup {NULL} /\ managed \in Token \cup {NULL}
                    /\ kept \subseteq Token
           Slots == slot \in [Proc -> Slot]
<1>0. TypeOK' <=> Files' /\ Slots' /\ Callers'
  BY DEF TypeOK, Callers
<1>1. Files /\ Slots /\ Callers
  BY DEF TypeOK, Callers
<1>2. \A w \in Worker : slot[Home[w]] \in Slot /\ orig[w] \in Token \cup {NULL}
                        /\ att[w] \in Token \cup {NULL} /\ reply[w] \in Token \cup {NULL}
  BY AuthAssumption DEF TypeOK
<1>3. ASSUME NEW w \in Worker, NEW t \in Slot, SetSlot(w, t) PROVE Slots'
  BY <1>1, <1>3 DEF SetSlot
<1>4. ASSUME UNCHANGED <<plock, flock, callVars>> PROVE Callers'
  BY <1>1, <1>4 DEF Callers, callVars
<1>5. ASSUME UNCHANGED <<providerVars, fileVars>> PROVE Files'
  BY <1>1, <1>5 DEF providerVars, fileVars
<1>6. ASSUME NEW w \in Worker, LoadCached(w) \/ LoadCandidate(w) \/ LoadUnreadable(w)
      PROVE  TypeOK'
  <2>1. \E t \in Slot : SetSlot(w, t)
    BY <1>1, <1>2, <1>6, SlotValues, BestIsCandidate
    DEF LoadCached, LoadCandidate, LoadUnreadable
  <2>2. UNCHANGED <<plock, flock, callVars>> /\ UNCHANGED <<providerVars, fileVars>>
    BY <1>6 DEF LoadCached, LoadCandidate, LoadUnreadable
  <2>3. QED
    BY <1>0, <1>3, <1>4, <1>5, <2>1, <2>2
<1>7. ASSUME NEW w \in Worker, LoadRefresh(w) PROVE TypeOK'
  BY <1>0, <1>2, <1>5, <1>7, SlotValues, BestIsCandidate, TurnTyped DEF LoadRefresh
<1>8. ASSUME NEW w \in Worker, Turn(w) PROVE TypeOK'
  BY <1>0, <1>2, <1>5, <1>8, TurnTyped DEF Turn
<1>9. ASSUME NEW w \in Worker, Locked(w) PROVE TypeOK'
  BY <1>0, <1>2, <1>5, <1>9, UnderLocksTyped DEF Locked
<1>10. ASSUME NEW w \in Worker,
              LockTimeout(w) \/ PostFailed(w) \/ Rejected(w) \/ Cancel(w)
       PROVE  TypeOK'
  <2>1. Slots'
    BY <1>1, <1>2, <1>3, <1>10, SlotValues DEF LockTimeout, PostFailed, Rejected, Cancel
  <2>2. Return(w) /\ UNCHANGED <<providerVars, fileVars>>
    BY <1>10 DEF LockTimeout, PostFailed, Rejected, Cancel
  <2>3. QED
    BY <1>0, <1>5, <2>1, <2>2, ReturnTyped
<1>11. ASSUME NEW w \in Worker, ProviderRotates(w) PROVE TypeOK'
  <2>1. token[att[w]].acct \in Account /\ att[w] \in Token
    <3>1. att[w] \in 1 .. Len(token)
      BY <1>11 DEF ProviderRotates, AuthInvariant, PostIsCurrent, FilesHoldIssued
    <3>2. token[att[w]] \in [acct : Account, prev : Token \cup {NULL}]
      <4> DEFINE R == [acct : Account, prev : Token \cup {NULL}]
      <4>1. token \in Seq(R)
        BY <1>1
      <4> HIDE DEF R
      <4>2. token[att[w]] \in R
        BY <3>1, <4>1
      <4>3. QED
        BY <4>2 DEF R
    <3>3. att[w] \in Token
      BY <1>1, <1>2, <3>1, AuthAssumption DEF Token
    <3>4. QED
      BY <3>2, <3>3
  <2>2. /\ token' \in Seq([acct : Account, prev : Token \cup {NULL}])
        /\ Len(token') <= MaxTokens /\ NextToken \in Token
    BY <1>11, <2>1, IssueAppends DEF ProviderRotates
  <2>3. Files'
    BY <1>1, <1>11, <2>2 DEF ProviderRotates, fileVars
  <2>4. Slots' /\ Callers'
    BY <1>1, <1>11, <2>2 DEF ProviderRotates, Callers
  <2>5. QED
    BY <1>0, <2>3, <2>4
<1>12. ASSUME NEW w \in Worker, ProviderRejects(w) PROVE TypeOK'
  BY <1>0, <1>1, <1>5, <1>12 DEF ProviderRejects, Callers
<1>13. ASSUME NEW w \in Worker, Persist(w) \/ PersistFailed(w) PROVE TypeOK'
  <2>1. Slots'
    BY <1>2, <1>3, <1>13, SlotValues DEF Persist, PersistFailed
  <2>2. Files'
    BY <1>1, <1>2, <1>13 DEF Persist, PersistFailed, providerVars
  <2>3. Return(w)
    BY <1>13 DEF Persist, PersistFailed
  <2>4. QED
    BY <1>0, <2>1, <2>2, <2>3, ReturnTyped
<1>14. ASSUME NEW p \in Proc, Quarantine(p) \/ BackoffEnds(p) PROVE TypeOK'
  <2>1. Slots'
    <3>1. \E t \in Slot : slot' = [slot EXCEPT ![p] = t]
      <4>1. /\ [slot[p] EXCEPT !.auth = NULL, !.failed = slot[p].auth, !.backoff = FALSE] \in Slot
            /\ [slot[p] EXCEPT !.backoff = FALSE] \in Slot
        BY <1>1 DEF Slot
      <4>2. QED
        BY <1>1, <1>14, <4>1 DEF Quarantine, BackoffEnds
    <3>2. QED
      BY <1>1, <3>1
  <2>2. QED
    BY <1>0, <1>4, <1>5, <1>14, <2>1 DEF Quarantine, BackoffEnds
<1>15. ASSUME NEW p \in Proc, Crash(p) PROVE TypeOK'
  <2>1. Slots'
    BY <1>1, <1>15, SlotValues DEF Crash
  <2>2. Callers'
    BY <1>1, <1>15 DEF Crash, Callers
  <2>3. QED
    BY <1>0, <1>5, <1>15, <2>1, <2>2 DEF Crash
<1>16. ASSUME NEW a \in Account, Login(a) PROVE TypeOK'
  <2>1. /\ token' \in Seq([acct : Account, prev : Token \cup {NULL}])
        /\ Len(token') <= MaxTokens /\ NextToken \in Token
    BY <1>16, IssueAppends DEF Login
  <2>2. Files'
    BY <1>1, <1>16, <2>1 DEF Login
  <2>3. QED
    BY <1>0, <1>1, <1>4, <1>16, <2>2 DEF Login
<1>17. ASSUME Logout \/ Expire \/ UNCHANGED vars PROVE TypeOK'
  <2>1. Files'
    <3>1. CASE Expire
      <4>1. horizon' = horizon + 1 /\ horizon + 1 \in 0 .. MaxTokens
        BY <1>1, <3>1, AuthAssumption DEF Expire
      <4>2. QED
        BY <1>1, <3>1, <4>1 DEF Expire, fileVars
    <3>2. QED
      BY <1>1, <1>17, <3>1 DEF Logout, vars, providerVars, fileVars
  <2>2. QED
    BY <1>0, <1>1, <1>4, <1>17, <2>1 DEF Logout, Expire, vars
<1>18. QED
  BY <1>6, <1>7, <1>8, <1>9, <1>10, <1>11, <1>12, <1>13, <1>14, <1>15, <1>16, <1>17
  DEF Next, Lock, Answer

-----------------------------------------------------------------------------
(***************************************************************************)
(* Locks.  Who takes a lock found it free; to return, or to crash, gives   *)
(* up exactly the locks that were held.                                    *)
(***************************************************************************)
Locking == {"locking", "posting", "answered"}
LockShape == TypeOK /\ LocksOwned

LEMMA ReturnUnlocks == \A w \in Worker : LockShape /\ Return(w) => LocksOwned'
  BY AuthAssumption DEF LockShape, TypeOK, LocksOwned, Return

LEMMA PostTakesLocks ==
  ASSUME LockShape, NEW w \in Worker, flock = NULL, plock[Home[w]] \in {NULL, w},
         plock' = [plock EXCEPT ![Home[w]] = w], flock' = w,
         pc' = [pc EXCEPT ![w] = "posting"]
  PROVE  LocksOwned'
<1>1. Home[w] \in Proc /\ plock'[Home[w]] = w /\ pc'[w] = "posting" /\ w # NULL
  BY AuthAssumption DEF LockShape, TypeOK
<1>2. ASSUME NEW v \in Worker, v # w
      PROVE  /\ pc'[v] = pc[v] /\ pc[v] \notin {"posting", "answered"} /\ v # NULL
             /\ pc'[v] = "locking" <=> plock'[Home[v]] = v
  <2>1. pc'[v] = pc[v] /\ pc[v] \notin {"posting", "answered"} /\ v # NULL
    BY <1>2, AuthAssumption DEF LockShape, TypeOK, LocksOwned
  <2>2. CASE Home[v] = Home[w]
    BY <1>1, <1>2, <2>1, <2>2 DEF LockShape, LocksOwned
  <2>3. CASE Home[v] # Home[w]
    <3>1. plock'[Home[v]] = plock[Home[v]]
      BY <2>3, AuthAssumption DEF LockShape, TypeOK
    <3>2. QED
      BY <2>1, <3>1 DEF LockShape, LocksOwned
  <2>4. QED
    BY <2>1, <2>2, <2>3
<1>3. QED
  BY <1>1, <1>2 DEF LocksOwned

LEMMA SuspendTakesTurn ==
  ASSUME LockShape, NEW w \in Worker, NEW s, NEW o, NEW where \in {"locking", "queued"},
         Suspend(w, s, o, where), where = "locking" => plock[Home[w]] = NULL,
         pc[w] \in {"idle", "queued"}
  PROVE  LocksOwned'
<1>1. Home[w] \in Proc /\ pc'[w] = where /\ w # NULL /\ flock' = flock /\ flock # w
  <2>1. Home[w] \in Proc /\ w # NULL
    BY AuthAssumption
  <2>2. pc'[w] = where /\ flock' = flock
    BY DEF Suspend, LockShape, TypeOK
  <2>3. QED
    BY <2>1, <2>2 DEF LockShape, LocksOwned
<1>2. ASSUME NEW v \in Worker, v # w
      PROVE  pc'[v] = pc[v] /\ (plock'[Home[v]] = v <=> plock[Home[v]] = v)
  <2>1. pc'[v] = pc[v] /\ v # NULL /\ Home[v] \in Proc
    BY <1>2, AuthAssumption DEF LockShape, TypeOK, Suspend
  <2>2. CASE where = "queued"
    BY <2>1, <2>2 DEF Suspend
  <2>3. CASE where = "locking"
    <3>1. plock[Home[w]] = NULL /\ plock' = [plock EXCEPT ![Home[w]] = w]
      BY <2>3 DEF Suspend
    <3>2. QED
      BY <1>1, <1>2, <2>1, <3>1 DEF LockShape, TypeOK
  <2>4. QED
    BY <2>2, <2>3
<1>3. plock'[Home[w]] = w <=> where = "locking"
  BY <1>1, AuthAssumption DEF LockShape, TypeOK, LocksOwned, Suspend
<1>4. QED
  BY <1>1, <1>2, <1>3 DEF LockShape, TypeOK, LocksOwned

LEMMA UnderLocksLocked ==
  ASSUME LockShape, NEW w \in Worker, NEW s, NEW o, UnderLocks(w, s, o),
         flock = NULL, plock[Home[w]] \in {NULL, w}
  PROVE  LocksOwned'
  BY ReturnUnlocks, PostTakesLocks DEF UnderLocks

LEMMA TurnLocked ==
  ASSUME LockShape, NEW w \in Worker, NEW s, NEW o, WithProcessTurn(w, s, o),
         plock[Home[w]] = NULL, pc[w] \in {"idle", "queued"}
  PROVE  LocksOwned'
  BY UnderLocksLocked, SuspendTakesTurn DEF WithProcessTurn

(* Every step keeps the locks where they belong.                           *)
LEMMA NextLocks == LockShape /\ [Next]_vars => LocksOwned'
<1> SUFFICES ASSUME LockShape, [Next]_vars PROVE LocksOwned'
  OBVIOUS
<1>1. ASSUME UNCHANGED <<plock, flock, pc>> PROVE LocksOwned'
  BY <1>1 DEF LockShape, LocksOwned
<1>2. ASSUME NEW w \in Worker, LoadCached(w) \/ LoadCandidate(w) \/ LoadUnreadable(w)
      PROVE  LocksOwned'
  BY <1>1, <1>2 DEF LoadCached, LoadCandidate, LoadUnreadable, callVars
<1>3. ASSUME NEW w \in Worker, LoadRefresh(w) PROVE LocksOwned'
  <2>1. pc[w] = "idle"
    BY <1>3 DEF LoadRefresh, NeedsCandidate
  <2>2. ASSUME Contended(w), NEW s, NEW o, Suspend(w, s, o, "queued") PROVE LocksOwned'
    BY <2>1, <2>2, SuspendTakesTurn
  <2>3. ASSUME ~Contended(w), NEW s, NEW o, WithProcessTurn(w, s, o) PROVE LocksOwned'
    BY <2>1, <2>3, TurnLocked DEF Contended
  <2>4. QED
    BY <1>3, <2>2, <2>3 DEF LoadRefresh
<1>4. ASSUME NEW w \in Worker, Turn(w) PROVE LocksOwned'
  BY <1>4, TurnLocked DEF Turn
<1>5. ASSUME NEW w \in Worker, Locked(w) PROVE LocksOwned'
  BY <1>5, UnderLocksLocked DEF Locked, LockShape, LocksOwned
<1>6. ASSUME NEW w \in Worker,
             LockTimeout(w) \/ PostFailed(w) \/ Persist(w) \/ PersistFailed(w) \/ Rejected(w)
               \/ Cancel(w)
      PROVE  LocksOwned'
  BY <1>6, ReturnUnlocks DEF LockTimeout, PostFailed, Persist, PersistFailed, Rejected, Cancel
<1>7. ASSUME NEW w \in Worker, ProviderRotates(w) \/ ProviderRejects(w) PROVE LocksOwned'
  <2>1. pc[w] = "posting" /\ pc' = [pc EXCEPT ![w] = "answered"] /\ UNCHANGED <<plock, flock>>
    BY <1>7 DEF ProviderRotates, ProviderRejects
  <2>2. QED
    BY <2>1 DEF LockShape, TypeOK, LocksOwned
<1>8. ASSUME NEW p \in Proc, Quarantine(p) \/ BackoffEnds(p) PROVE LocksOwned'
  BY <1>1, <1>8 DEF Quarantine, BackoffEnds, callVars
<1>9. ASSUME NEW p \in Proc, Crash(p) PROVE LocksOwned'
  BY <1>9, AuthAssumption DEF Crash, LockShape, TypeOK, LocksOwned
<1>10. ASSUME (\E a \in Account : Login(a)) \/ Logout \/ Expire \/ UNCHANGED vars
       PROVE  LocksOwned'
  BY <1>1, <1>10 DEF Login, Logout, Expire, vars, callVars
<1>11. QED
  BY <1>2, <1>3, <1>4, <1>5, <1>6, <1>7, <1>8, <1>9, <1>10 DEF Next, Lock, Answer

-----------------------------------------------------------------------------
(***************************************************************************)
(* Grants.  The four steps that issue or write a token; no other one       *)
(* touches the files or the provider.                                      *)
(***************************************************************************)
Written == FilesHoldIssued /\ NewestIsFound /\ PostIsCurrent

(* What is chosen among the files has no written successor, and no other   *)
(* file's token that has one is later or of another account.               *)
LEMMA ChoiceIsNewest ==
  ASSUME TypeOK, Written, Candidates # {}, NEW c, c = Best(Candidates)
  PROVE  /\ c \in kept /\ WrittenAfter(c) = {}
         /\ boot # NULL => boot <= c /\ token[c].acct = token[boot].acct
<1>1. c \in Candidates /\ \A u \in Candidates : u <= c
  BY BestIsCandidate
<1>2. c \in Token /\ c \in kept
  BY BestIsCandidate, <1>1 DEF Candidates, Written, FilesHoldIssued
<1>3. boot # NULL => boot \in Candidates /\ boot \in Token
  BY DEF Candidates, TypeOK
<1>4. c # boot => c = managed /\ managed # NULL
  BY <1>1 DEF Candidates
<1>5. ASSUME c = boot, WrittenAfter(boot) # {} PROVE FALSE
  <2>1. /\ boot # NULL /\ managed # NULL /\ boot < managed
        /\ token[managed].acct = token[boot].acct
    BY <1>2, <1>5, AuthAssumption DEF Written, NewestIsFound, Token
  <2>2. managed \in Candidates /\ managed \in Token
    BY <2>1 DEF Candidates, TypeOK
  <2>3. QED
    BY <1>1, <1>3, <1>5, <2>1, <2>2 DEF Token
<1>6. WrittenAfter(c) = {}
  BY <1>4, <1>5 DEF Written, NewestIsFound
<1>7. boot # NULL => token[c].acct = token[boot].acct
  BY <1>1 DEF Candidates
<1>8. QED
  BY <1>1, <1>2, <1>3, <1>6, <1>7

(* A step that leaves the files and the provider alone keeps it when who   *)
(* posts went on posting the same grant, or has just chosen it.            *)
LEMMA SameFiles ==
  ASSUME TypeOK, Written, UNCHANGED <<token, fileVars>>,
         \A w \in Worker :
           /\ pc'[w] \in {"posting", "answered"} =>
                \/ pc[w] \in {"posting", "answered"} /\ att'[w] = att[w]
                \/ Candidates # {} /\ att'[w] = Best(Candidates)
           /\ reply'[w] # NULL => reply'[w] = reply[w] /\ pc'[w] = pc[w] /\ att'[w] = att[w]
  PROVE  Written'
<1>1. \A t : WrittenAfter(t)' = WrittenAfter(t)
  BY DEF WrittenAfter, fileVars
<1>2. FilesHoldIssued' /\ NewestIsFound'
  BY <1>1 DEF Written, FilesHoldIssued, NewestIsFound, fileVars
<1>3. PostIsCurrent'
  BY <1>1, ChoiceIsNewest DEF Written, PostIsCurrent, fileVars
<1>4. QED
  BY <1>2, <1>3 DEF Written

(* A coroutine that returns posts nothing any more.                        *)
LEMMA ReturnPosts ==
  ASSUME TypeOK, Written, NEW w \in Worker, Return(w), UNCHANGED <<token, fileVars>>
  PROVE  Written'
<1>1. \A v \in Worker : v # w => pc'[v] = pc[v] /\ att'[v] = att[v] /\ reply'[v] = reply[v]
  BY DEF Return, TypeOK
<1>2. pc'[w] = "idle" /\ reply'[w] = NULL
  BY DEF Return, TypeOK
<1>3. QED
  BY <1>1, <1>2, SameFiles

LEMMA UnderLocksPosts ==
  ASSUME TypeOK, Written, NEW w \in Worker, NEW s, NEW o, UnderLocks(w, s, o),
         pc[w] \notin {"posting", "answered"}, UNCHANGED <<token, fileVars>>
  PROVE  Written'
<1>1. CASE Return(w)
  BY <1>1, ReturnPosts
<1>2. CASE /\ Candidates # {}
           /\ pc' = [pc EXCEPT ![w] = "posting"]
           /\ att' = [att EXCEPT ![w] = Best(Candidates)]
           /\ UNCHANGED reply
  <2>1. \A v \in Worker : v # w => pc'[v] = pc[v] /\ att'[v] = att[v] /\ reply'[v] = reply[v]
    BY <1>2 DEF TypeOK
  <2>2. pc'[w] = "posting" /\ att'[w] = Best(Candidates) /\ reply'[w] = NULL
    BY <1>2 DEF TypeOK, Written, PostIsCurrent
  <2>3. QED
    BY <1>2, <2>1, <2>2, SameFiles
<1>3. QED
  BY <1>1, <1>2 DEF UnderLocks

LEMMA TurnPosts ==
  ASSUME TypeOK, Written, NEW w \in Worker, NEW s, NEW o,
         WithProcessTurn(w, s, o) \/ Suspend(w, s, o, "queued"),
         pc[w] \notin {"posting", "answered"}, UNCHANGED <<token, fileVars>>
  PROVE  Written'
<1>1. ASSUME NEW where \in {"locking", "queued"}, Suspend(w, s, o, where) PROVE Written'
  <2>1. \A v \in Worker : v # w => pc'[v] = pc[v] /\ att'[v] = att[v] /\ reply'[v] = reply[v]
    BY <1>1 DEF Suspend, TypeOK
  <2>2. pc'[w] = where /\ reply'[w] = NULL
    BY <1>1 DEF Suspend, TypeOK, Written, PostIsCurrent
  <2>3. QED
    BY <2>1, <2>2, SameFiles
<1>2. QED
  BY <1>1, UnderLocksPosts DEF WithProcessTurn

(* The provider rotates the grant that is posted: the token is the first   *)
(* to name it, and in no file yet.                                         *)
LEMMA RotatesWritten ==
  ASSUME TypeOK, Written, NEW w \in Worker, ProviderRotates(w)
  PROVE  Written'
<1> DEFINE n == NextToken
<1>1. att[w] \in kept /\ att[w] \in 1 .. Len(token) /\ att[w] # NULL
  <2>1. att[w] \in kept /\ att[w] \in 1 .. Len(token)
    BY DEF ProviderRotates, Written, PostIsCurrent, FilesHoldIssued
  <2>2. Len(token) \in Nat
    BY DEF TypeOK
  <2>3. QED
    BY <2>1, <2>2, AuthAssumption
<1>2. att[w] \in Token /\ token[att[w]].acct \in Account
  <2> DEFINE R == [acct : Account, prev : Token \cup {NULL}]
  <2>1. token \in Seq(R)
    BY DEF TypeOK
  <2> HIDE DEF R
  <2>2. token[att[w]] \in R
    BY <1>1, <2>1
  <2>3. QED
    BY <1>1, <2>2 DEF R, TypeOK
<1>3. /\ Len(token') = Len(token) + 1 /\ n = Len(token) + 1 /\ Len(token) \in Nat
      /\ \A m \in 1 .. Len(token) : token'[m] = token[m]
      /\ token'[n] = [acct |-> token[att[w]].acct, prev |-> att[w]]
  BY <1>2, IssueAppends DEF ProviderRotates, TypeOK
<1> HIDE DEF n
<1>4. UNCHANGED <<fileVars, att>> /\ reply' = [reply EXCEPT ![w] = n]
      /\ pc' = [pc EXCEPT ![w] = "answered"] /\ pc[w] = "posting"
  BY DEF ProviderRotates, n
<1>5. \A t : WrittenAfter(t)' = WrittenAfter(t)
  BY <1>3, <1>4 DEF WrittenAfter, fileVars, Written, FilesHoldIssued
<1>6. FilesHoldIssued'
  BY <1>1, <1>3, <1>4 DEF FilesHoldIssued, Written, fileVars
<1>7. /\ boot # NULL => token'[boot] = token[boot]
      /\ managed # NULL => token'[managed] = token[managed]
      /\ \A t \in kept : token'[t] = token[t]
  BY <1>3 DEF FilesHoldIssued, Written
<1>8. NewestIsFound'
  BY <1>4, <1>5, <1>7 DEF NewestIsFound, Written, fileVars
<1>9. PostIsCurrent'
  <2> SUFFICES ASSUME NEW v \in Worker
               PROVE  /\ pc'[v] \in {"posting", "answered"} =>
                           /\ att'[v] \in kept' /\ WrittenAfter(att[v])' = {}
                           /\ boot' # NULL /\ WrittenAfter(boot)' # {} =>
                                boot' <= att'[v] /\ token'[att'[v]].acct = token'[boot'].acct
                      /\ reply'[v] # NULL =>
                           /\ pc'[v] = "answered"
                           /\ reply'[v] \in (1 .. Len(token')) \ kept'
                           /\ token'[reply'[v]] = [acct |-> token'[att'[v]].acct, prev |-> att'[v]]
    BY <1>4 DEF PostIsCurrent
  <2>1. pc'[v] \in {"posting", "answered"} => pc[v] \in {"posting", "answered"}
    BY <1>4 DEF TypeOK
  <2>2. pc'[v] \in {"posting", "answered"} =>
          /\ att'[v] \in kept' /\ WrittenAfter(att[v])' = {}
          /\ boot' # NULL /\ WrittenAfter(boot)' # {} =>
               boot' <= att'[v] /\ token'[att'[v]].acct = token'[boot'].acct
    BY <1>4, <1>5, <1>7, <2>1 DEF PostIsCurrent, Written, fileVars
  <2>3. CASE v = w
    BY <1>1, <1>3, <1>4, <1>7, <2>2, <2>3
    DEF TypeOK, Written, FilesHoldIssued, fileVars
  <2>4. CASE v # w
    <3>1. reply'[v] = reply[v] /\ pc'[v] = pc[v] /\ att'[v] = att[v] /\ kept' = kept
      BY <1>4, <2>4 DEF TypeOK, fileVars
    <3>2. ASSUME reply[v] # NULL
          PROVE  /\ pc[v] = "answered" /\ att[v] \in kept
                 /\ reply[v] \in (1 .. Len(token)) \ kept
                 /\ token[reply[v]] = [acct |-> token[att[v]].acct, prev |-> att[v]]
      BY <3>2 DEF Written, PostIsCurrent
    <3>3. QED
      BY <1>3, <1>7, <2>2, <3>1, <3>2
  <2>5. QED
    BY <2>3, <2>4
<1>10. QED
  BY <1>6, <1>8, <1>9 DEF Written

(* A login writes a token that nobody can have used.                       *)
LEMMA LoginWritten ==
  ASSUME TypeOK, Written, NEW a \in Account, Login(a)
  PROVE  Written'
<1> DEFINE n == NextToken
           After(t) == {m \in kept' : token'[m].prev = t}
<1>1. /\ Len(token') = Len(token) + 1 /\ n = Len(token) + 1 /\ Len(token) \in Nat /\ n # NULL
      /\ \A m \in 1 .. Len(token) : token'[m] = token[m]
      /\ token'[n] = [acct |-> a, prev |-> NULL]
  BY IssueAppends, AuthAssumption DEF Login, TypeOK
<1> HIDE DEF n
<1>2. boot' = n /\ kept' = kept \cup {n} /\ UNCHANGED <<managed, pc, att, reply>>
  BY DEF Login, n, callVars
<1>3. /\ \A t \in kept : t \in 1 .. Len(token) /\ token'[t] = token[t]
      /\ n \notin kept
  BY <1>1 DEF Written, FilesHoldIssued
<1>4. \A t : t # NULL => After(t) = WrittenAfter(t)
  BY <1>1, <1>2, <1>3 DEF WrittenAfter
<1>5. After(n) = {}
  <2>1. \A m \in kept : token[m].prev # NULL => token[m].prev \in kept
    BY <1>3 DEF Written, FilesHoldIssued
  <2>2. WrittenAfter(n) = {}
    BY <1>1, <1>3, <2>1 DEF WrittenAfter
  <2>3. QED
    BY <1>1, <1>4, <2>2
<1>6. FilesHoldIssued'
  <2>1. kept' \subseteq 1 .. Len(token') /\ {boot', managed'} \subseteq kept' \cup {NULL}
    <3>1. kept \subseteq 1 .. Len(token) /\ {boot, managed} \subseteq kept \cup {NULL}
      BY DEF FilesHoldIssued, Written
    <3>2. 1 .. Len(token) \subseteq 1 .. Len(token') /\ n \in 1 .. Len(token')
      BY <1>1
    <3>3. {boot', managed'} \subseteq kept' \cup {NULL}
      BY <1>2, <3>1
    <3>4. QED
      BY <1>2, <3>1, <3>2, <3>3
  <2>2. ASSUME NEW m \in 1 .. Len(token'), token'[m].prev # NULL
        PROVE  token'[m].prev \in kept' /\ token'[m].prev < m
    <3>1. m \in 1 .. Len(token) /\ token'[m] = token[m]
      BY <1>1, <2>2
    <3>2. QED
      BY <1>2, <2>2, <3>1 DEF FilesHoldIssued, Written
  <2>3. QED
    BY <2>1, <2>2 DEF FilesHoldIssued
<1>7. NewestIsFound'
  <2>1. managed' # NULL => WrittenAfter(managed)' = {}
    BY <1>2, <1>4 DEF NewestIsFound, Written, WrittenAfter
  <2>2. WrittenAfter(boot)' = {}
    BY <1>2, <1>5 DEF WrittenAfter
  <2>3. QED
    BY <2>1, <2>2 DEF NewestIsFound
<1>8. PostIsCurrent'
  <2>1. WrittenAfter(boot)' = {}
    BY <1>2, <1>5 DEF WrittenAfter
  <2>2. ASSUME NEW w \in Worker, pc[w] \in {"posting", "answered"}
        PROVE  att[w] \in kept' /\ WrittenAfter(att[w])' = {}
    <3>1. att[w] \in kept /\ WrittenAfter(att[w]) = {} /\ att[w] # NULL
      <4>1. att[w] \in kept /\ WrittenAfter(att[w]) = {}
        BY <2>2 DEF Written, PostIsCurrent
      <4>2. att[w] \in 1 .. Len(token)
        BY <1>3, <4>1
      <4>3. QED
        BY <1>1, <4>1, <4>2, AuthAssumption
    <3>2. After(att[w]) = {}
      BY <1>4, <3>1
    <3>3. QED
      BY <1>2, <3>1, <3>2 DEF WrittenAfter
  <2>3. ASSUME NEW w \in Worker, reply[w] # NULL
        PROVE  /\ pc[w] = "answered"
               /\ reply[w] \in (1 .. Len(token')) \ kept'
               /\ token'[reply[w]] = [acct |-> token'[att[w]].acct, prev |-> att[w]]
    <3>1. /\ pc[w] = "answered" /\ att[w] \in kept
          /\ reply[w] \in (1 .. Len(token)) \ kept
          /\ token[reply[w]] = [acct |-> token[att[w]].acct, prev |-> att[w]]
      BY <2>3 DEF Written, PostIsCurrent
    <3>2. QED
      BY <1>1, <1>2, <1>3, <3>1
  <2>4. QED
    BY <1>2, <2>1, <2>2, <2>3 DEF PostIsCurrent
<1>9. QED
  BY <1>6, <1>7, <1>8 DEF Written

(* The managed state is replaced by the token it was rotated into, which   *)
(* outranks whatever was chosen before.                                    *)
LEMMA PersistWritten ==
  ASSUME TypeOK, LocksOwned, Written, NEW w \in Worker,
         pc[w] = "answered", reply[w] # NULL,
         managed' = reply[w], kept' = kept \cup {reply[w]}, Return(w),
         UNCHANGED <<token, boot>>
  PROVE  Written'
<1> DEFINE n == reply[w]
           t == att[w]
<1>1. /\ n \in (1 .. Len(token)) \ kept /\ t \in kept /\ t \in 1 .. Len(token)
      /\ token[n] = [acct |-> token[t].acct, prev |-> t]
      /\ WrittenAfter(t) = {} /\ t < n /\ n # NULL /\ t # NULL /\ Len(token) \in Nat
  <2>1. /\ n \in (1 .. Len(token)) \ kept /\ t \in kept /\ WrittenAfter(t) = {}
        /\ token[n] = [acct |-> token[t].acct, prev |-> t]
    BY DEF Written, PostIsCurrent
  <2>2. Len(token) \in Nat /\ t \in 1 .. Len(token)
    BY <2>1 DEF TypeOK, Written, FilesHoldIssued
  <2>3. t # NULL /\ n # NULL
    BY <2>1, <2>2, AuthAssumption
  <2>4. t < n
    <3>1. token[n].prev = t
      BY <2>1
    <3>2. QED
      BY <2>1, <2>3, <3>1 DEF Written, FilesHoldIssued
  <2>5. QED
    BY <2>1, <2>2, <2>3, <2>4
<1>2. managed' = n /\ kept' = kept \cup {n} /\ token' = token /\ boot' = boot
  OBVIOUS
<1>3. \A v \in Worker :
        /\ v # w => pc'[v] = pc[v] /\ att'[v] = att[v] /\ reply'[v] = reply[v]
        /\ pc[v] \in {"posting", "answered"} => v = w
  BY DEF Return, TypeOK, LocksOwned
<1>4. pc'[w] = "idle" /\ reply'[w] = NULL
  BY DEF Return, TypeOK
<1> HIDE DEF n, t
<1>5. \A u : {m \in kept' : token'[m].prev = u} = IF u = t THEN WrittenAfter(u) \cup {n}
                                                  ELSE WrittenAfter(u)
  BY <1>1, <1>2 DEF WrittenAfter
<1>6. FilesHoldIssued'
  BY <1>1, <1>2 DEF FilesHoldIssued, Written
<1>7. WrittenAfter(n) = {}
  <2>1. \A m \in kept : token[m].prev # NULL => token[m].prev \in kept
    BY DEF Written, FilesHoldIssued
  <2>2. QED
    BY <1>1, <2>1 DEF WrittenAfter
<1>8. NewestIsFound'
  <2>1. WrittenAfter(managed)' = {}
    BY <1>1, <1>2, <1>5, <1>7 DEF WrittenAfter
  <2>2. ASSUME boot # NULL, WrittenAfter(boot)' # {}
        PROVE  boot < n /\ token[n].acct = token[boot].acct
    <3>1. CASE boot = t
      BY <1>1, <3>1
    <3>2. CASE boot # t
      <4>1. WrittenAfter(boot) # {}
        BY <1>2, <1>5, <2>2, <3>2 DEF WrittenAfter
      <4>2. boot <= t /\ token[t].acct = token[boot].acct /\ boot \in 1 .. Len(token)
        BY <2>2, <4>1 DEF Written, PostIsCurrent, FilesHoldIssued, t
      <4>3. QED
        BY <1>1, <4>2
    <3>3. QED
      BY <3>1, <3>2
  <2>3. QED
    BY <1>1, <1>2, <2>1, <2>2 DEF NewestIsFound
<1>9. PostIsCurrent'
  BY <1>3, <1>4 DEF PostIsCurrent, Written
<1>10. QED
  BY <1>6, <1>8, <1>9 DEF Written

(* Every step keeps files, grants and what is posted fitting together.     *)
LEMMA NextWritten == AuthInvariant /\ [Next]_vars => Written'
<1> SUFFICES ASSUME AuthInvariant, [Next]_vars PROVE Written'
  OBVIOUS
<1>0. TypeOK /\ LocksOwned /\ Written
  BY DEF AuthInvariant, Written
<1>1. ASSUME UNCHANGED <<token, fileVars, callVars>> PROVE Written'
  BY <1>0, <1>1, SameFiles DEF callVars
<1>2. ASSUME NEW w \in Worker, LoadCached(w) \/ LoadCandidate(w) \/ LoadUnreadable(w)
      PROVE  Written'
  BY <1>1, <1>2 DEF LoadCached, LoadCandidate, LoadUnreadable, providerVars
<1>3. ASSUME NEW w \in Worker, LoadRefresh(w) PROVE Written'
  <2>1. pc[w] \notin {"posting", "answered"} /\ UNCHANGED <<token, fileVars>>
    BY <1>3 DEF LoadRefresh, NeedsCandidate, providerVars
  <2>2. QED
    BY <1>0, <1>3, <2>1, TurnPosts DEF LoadRefresh
<1>4. ASSUME NEW w \in Worker, Turn(w) PROVE Written'
  BY <1>0, <1>4, TurnPosts DEF Turn, providerVars
<1>5. ASSUME NEW w \in Worker, Locked(w) PROVE Written'
  BY <1>0, <1>5, UnderLocksPosts DEF Locked, providerVars
<1>6. ASSUME NEW w \in Worker,
             LockTimeout(w) \/ PostFailed(w) \/ Rejected(w) \/ Cancel(w)
      PROVE  Written'
  BY <1>0, <1>6, ReturnPosts DEF LockTimeout, PostFailed, Rejected, Cancel, providerVars
<1>7. ASSUME NEW w \in Worker, ProviderRotates(w) PROVE Written'
  BY <1>0, <1>7, RotatesWritten
<1>8. ASSUME NEW w \in Worker, ProviderRejects(w) PROVE Written'
  <2>1. /\ \A v \in Worker : v # w => pc'[v] = pc[v]
        /\ pc[w] = "posting" /\ pc'[w] = "answered"
        /\ UNCHANGED <<token, fileVars, att, reply>>
    BY <1>0, <1>8 DEF ProviderRejects, TypeOK, providerVars
  <2>2. reply[w] = NULL
    BY <1>0, <2>1 DEF Written, PostIsCurrent
  <2>3. QED
    BY <1>0, <2>1, <2>2, SameFiles
<1>9. ASSUME NEW w \in Worker, Persist(w) \/ PersistFailed(w) PROVE Written'
  <2>1. CASE UNCHANGED <<managed, kept>>
    BY <1>0, <1>9, <2>1, ReturnPosts DEF Persist, PersistFailed, providerVars, fileVars
  <2>2. CASE managed' = reply[w] /\ kept' = kept \cup {reply[w]}
    BY <1>0, <1>9, <2>2, PersistWritten DEF Persist, PersistFailed, providerVars
  <2>3. QED
    BY <1>9, <2>1, <2>2 DEF Persist, PersistFailed
<1>10. ASSUME NEW p \in Proc, Quarantine(p) \/ BackoffEnds(p) PROVE Written'
  BY <1>1, <1>10 DEF Quarantine, BackoffEnds, providerVars
<1>11. ASSUME NEW p \in Proc, Crash(p) PROVE Written'
  <2>1. /\ UNCHANGED <<token, fileVars>>
        /\ \A w \in Worker : \/ pc'[w] = pc[w] /\ att'[w] = att[w] /\ reply'[w] = reply[w]
                             \/ pc'[w] = "idle" /\ reply'[w] = NULL
    BY <1>11 DEF Crash, providerVars
  <2>2. QED
    BY <1>0, <2>1, SameFiles
<1>12. ASSUME NEW a \in Account, Login(a) PROVE Written'
  BY <1>0, <1>12, LoginWritten
<1>13. ASSUME Logout PROVE Written'
  <2>1. boot' = NULL /\ UNCHANGED <<token, managed, kept, pc, att, reply>>
    BY <1>13 DEF Logout, providerVars, callVars
  <2>2. QED
    BY <1>0, <2>1 DEF Written, FilesHoldIssued, NewestIsFound, PostIsCurrent, WrittenAfter
<1>14. ASSUME Expire \/ UNCHANGED vars PROVE Written'
  BY <1>1, <1>14 DEF Expire, vars, providerVars
<1>15. QED
  BY <1>2, <1>3, <1>4, <1>5, <1>6, <1>7, <1>8, <1>9, <1>10, <1>11, <1>12, <1>13, <1>14
  DEF Next, Lock, Answer

-----------------------------------------------------------------------------
(* A slot's token is one of a file: it was chosen there, or written first. *)
LEMMA NextPersisted == AuthInvariant /\ [Next]_vars => PersistedBeforeUse'
<1> SUFFICES ASSUME AuthInvariant, [Next]_vars PROVE PersistedBeforeUse'
  OBVIOUS
<1>0. /\ TypeOK /\ Written /\ PersistedBeforeUse
      /\ \A w \in Worker : Home[w] \in Proc /\ slot[Home[w]] \in Slot
  BY AuthAssumption DEF AuthInvariant, Written, TypeOK
<1>1. ASSUME kept \subseteq kept', slot' = slot PROVE PersistedBeforeUse'
  BY <1>0, <1>1 DEF PersistedBeforeUse
<1>2. ASSUME NEW w \in Worker, NEW s \in Slot, SetSlot(w, s), kept \subseteq kept',
             s.auth \in kept' \cup {NULL}
      PROVE  PersistedBeforeUse'
  BY <1>0, <1>2 DEF PersistedBeforeUse, SetSlot, TypeOK
<1>3. \A p \in Proc : slot[p].auth \in kept \cup {NULL}
                      /\ Detected(slot[p]).auth \in kept \cup {NULL}
  BY <1>0 DEF PersistedBeforeUse, Detected, Fresh
<1>4. \A s \in Slot : \A t : /\ Adopted(s, t).auth = t /\ Retryable(s).auth = NULL
                             /\ Terminal(s, t).auth = NULL
                             /\ [s EXCEPT !.auth = NULL].auth = NULL
  BY DEF Slot, Adopted, Retryable, Terminal
<1>5. Candidates # {} => Best(Candidates) \in kept /\ Best(Candidates) \in Token
  BY <1>0, ChoiceIsNewest, BestIsCandidate
<1>6. boot \in kept \cup {NULL} /\ boot \in Token \cup {NULL}
  BY <1>0 DEF Written, FilesHoldIssued, TypeOK
<1>7. \A s \in Slot : \A t \in Token \cup {NULL} :
        /\ Adopted(s, t) \in Slot /\ Retryable(s) \in Slot /\ Terminal(s, t) \in Slot
        /\ [s EXCEPT !.auth = NULL] \in Slot /\ Detected(s) \in Slot
  BY <1>0, SlotValues
<1>8. ASSUME NEW w \in Worker, LoadCached(w) \/ LoadCandidate(w) \/ LoadUnreadable(w)
      PROVE  PersistedBeforeUse'
  <2>1. PICK s \in Slot : s = Detected(slot[Home[w]]) /\ s.auth \in kept \cup {NULL}
    BY <1>0, <1>3, <1>7
  <2>2. kept' = kept
    BY <1>8 DEF LoadCached, LoadCandidate, LoadUnreadable, fileVars
  <2>3. CASE LoadCached(w)
    BY <1>2, <2>1, <2>2, <2>3 DEF LoadCached
  <2>4. CASE LoadCandidate(w)
    <3>1. \/ SetSlot(w, [s EXCEPT !.auth = NULL]) \/ SetSlot(w, s)
          \/ Candidates # {} /\ SetSlot(w, Adopted(s, Best(Candidates)))
      BY <2>1, <2>4 DEF LoadCandidate
    <3>2. QED
      BY <1>2, <1>4, <1>5, <1>7, <2>1, <2>2, <3>1
  <2>5. CASE LoadUnreadable(w)
    <3>1. SetSlot(w, s) \/ SetSlot(w, Adopted(s, boot)) \/ SetSlot(w, Retryable(s))
      BY <2>1, <2>5 DEF LoadUnreadable
    <3>2. QED
      BY <1>2, <1>4, <1>6, <1>7, <2>1, <2>2, <3>1
  <2>6. QED
    BY <1>8, <2>3, <2>4, <2>5
<1>9. ASSUME NEW w \in Worker, NEW s \in Slot, s.auth \in kept \cup {NULL},
             NEW o \in Token \cup {NULL}, kept' = kept,
             WithProcessTurn(w, s, o) \/ UnderLocks(w, s, o) \/ Suspend(w, s, o, "queued")
      PROVE  PersistedBeforeUse'
  <2>1. \/ SetSlot(w, s) \/ SetSlot(w, Terminal(s, o)) \/ SetSlot(w, Retryable(s))
        \/ Candidates # {} /\ SetSlot(w, Adopted(s, Best(Candidates)))
    BY <1>9 DEF WithProcessTurn, UnderLocks, Suspend
  <2>2. QED
    BY <1>2, <1>4, <1>5, <1>7, <1>9, <2>1
<1>10. ASSUME NEW w \in Worker,
              \/ LoadRefresh(w) \/ Turn(w) \/ Locked(w)
              \/ LockTimeout(w) \/ PostFailed(w) \/ Rejected(w)
              \/ Persist(w) \/ PersistFailed(w)
       PROVE  PersistedBeforeUse'
  <2>1. PICK s \in Slot : s = slot[Home[w]] /\ s.auth \in kept \cup {NULL}
    BY <1>0, <1>3
  <2>2. /\ orig[w] \in Token \cup {NULL} /\ att[w] \in Token \cup {NULL}
        /\ reply[w] \in Token \cup {NULL}
    BY <1>0 DEF TypeOK
  <2>3. CASE LoadRefresh(w)
    <3>1. PICK d \in Slot : d = Detected(s) /\ d.auth \in kept \cup {NULL}
      BY <1>0, <1>3, <1>7, <2>1
    <3>2. PICK c \in Token : c = Best(Candidates)
      BY <1>5, <2>3 DEF LoadRefresh
    <3>3. WithProcessTurn(w, d, c) \/ Suspend(w, d, c, "queued")
      BY <2>1, <2>3, <3>1, <3>2 DEF LoadRefresh
    <3>4. QED
      BY <1>9, <2>3, <3>1, <3>3 DEF LoadRefresh, fileVars
  <2>4. CASE Turn(w) \/ Locked(w)
    <3>1. (WithProcessTurn(w, s, orig[w]) \/ UnderLocks(w, s, orig[w])) /\ kept' = kept
      BY <2>1, <2>4 DEF Turn, Locked, fileVars
    <3>2. QED
      BY <1>9, <2>1, <2>2, <3>1
  <2>5. CASE LockTimeout(w) \/ PostFailed(w) \/ Rejected(w)
    <3>1. (SetSlot(w, Retryable(s)) \/ SetSlot(w, Terminal(s, att[w]))) /\ kept' = kept
      BY <2>1, <2>5 DEF LockTimeout, PostFailed, Rejected, fileVars
    <3>2. QED
      BY <1>2, <1>4, <1>7, <2>2, <3>1
  <2>6. CASE Persist(w)
    <3>1. SetSlot(w, Adopted(s, reply[w])) /\ kept' = kept \cup {reply[w]}
      BY <2>1, <2>6 DEF Persist
    <3>2. QED
      BY <1>2, <1>4, <1>7, <2>2, <3>1
  <2>7. CASE PersistFailed(w)
    <3>1. SetSlot(w, Retryable(s)) /\ kept \subseteq kept'
      BY <2>1, <2>7 DEF PersistFailed
    <3>2. QED
      BY <1>2, <1>4, <1>7, <3>1
  <2>8. QED
    BY <1>10, <2>3, <2>4, <2>5, <2>6, <2>7
<1>11. ASSUME NEW w \in Worker, ProviderRotates(w) \/ ProviderRejects(w) \/ Cancel(w)
       PROVE  PersistedBeforeUse'
  BY <1>1, <1>11 DEF ProviderRotates, ProviderRejects, Cancel, fileVars
<1>12. ASSUME NEW p \in Proc, Quarantine(p) \/ BackoffEnds(p) \/ Crash(p)
       PROVE  PersistedBeforeUse'
  <2>1. /\ \A q \in Proc : q # p => slot'[q] = slot[q]
        /\ slot'[p].auth \in {NULL, slot[p].auth}
    <3>1. slot \in [Proc -> Slot] /\ slot[p] \in Slot
      BY <1>0 DEF TypeOK
    <3>2. CASE Crash(p)
      BY <3>1, <3>2 DEF Crash, Fresh
    <3>3. CASE Quarantine(p)
      BY <3>1, <3>3 DEF Quarantine, Slot
    <3>4. CASE BackoffEnds(p)
      BY <3>1, <3>4 DEF BackoffEnds, Slot
    <3>5. QED
      BY <1>12, <3>2, <3>3, <3>4
  <2>2. kept' = kept
    BY <1>12 DEF Quarantine, BackoffEnds, Crash, fileVars
  <2>3. QED
    BY <1>0, <2>1, <2>2 DEF PersistedBeforeUse
<1>13. ASSUME (\E a \in Account : Login(a)) \/ Logout \/ Expire \/ UNCHANGED vars
       PROVE  PersistedBeforeUse'
  BY <1>1, <1>13 DEF Login, Logout, Expire, vars, fileVars
<1>14. QED
  BY <1>8, <1>10, <1>11, <1>12, <1>13 DEF Next, Lock, Answer

-----------------------------------------------------------------------------
(* At every await files, grants, locks and coroutines of the credential    *)
(* store fit together, whatever crashes, is cancelled or fails.            *)
THEOREM StoreIsConsistent == Spec => []AuthInvariant
<1>1. AuthInvariant /\ [Next]_vars => AuthInvariant'
  BY NextTyped, NextLocks, NextPersisted, NextWritten
  DEF AuthInvariant, LockShape, Written
<1>2. QED
  BY <1>1, InitInvariant, PTL DEF Spec

(* Both locks belong to a coroutine inside _refresh(), and the process     *)
(* lock to one that also has its process's lock.                           *)
THEOREM LocksBelong == Spec => []LocksOwned
<1>1. AuthInvariant => LocksOwned
  BY DEF AuthInvariant
<1>2. QED
  BY <1>1, StoreIsConsistent, PTL

(* A rotated grant is written before it is used (_persist_refresh()).      *)
THEOREM PersistedFirst == Spec => []PersistedBeforeUse
<1>1. AuthInvariant => PersistedBeforeUse
  BY DEF AuthInvariant
<1>2. QED
  BY <1>1, StoreIsConsistent, PTL

(* A grant is posted again only when what it was rotated into was lost     *)
(* before it was written (_refresh() under both locks).                    *)
THEOREM GrantsPostedOnce == Spec => []GenerationConsumedOnce
<1>1. AuthInvariant => GenerationConsumedOnce
  BY DEF AuthInvariant, PostIsCurrent, WrittenAfter, GenerationConsumedOnce, Burnt
<1>2. QED
  BY <1>1, StoreIsConsistent, PTL
=============================================================================
