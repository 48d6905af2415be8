--------------------------- MODULE CodexAuthStore ---------------------------
(***************************************************************************)
(* The credential of one Codex slot (load_auth, _refresh and the managed   *)
(* store of infra/spartan-route/spartan_route/codex.py), shared by several *)
(* router processes through two files: the bootstrap file, which a login   *)
(* tool writes, and the managed state, which a refresh replaces.           *)
(*                                                                         *)
(* Code between two awaits is one step.  A token stands for an access      *)
(* token with its refresh grant; tokens are numbered in the order the      *)
(* provider issues them, which is also the order in which they expire.     *)
(***************************************************************************)
EXTENDS Integers, Sequences

CONSTANTS
  Proc,        \* router processes
  Worker,      \* coroutines that call load_auth()
  Home,        \* the process of each coroutine
  Account,     \* upstream accounts
  MaxTokens,   \* bound on the tokens the provider issues
  Faults,      \* the faults of this instance
  NULL         \* the absent value

ASSUME AuthAssumption ==
  /\ Home \in [Worker -> Proc]
  /\ MaxTokens \in Nat
  /\ NULL \notin Worker \cup Nat

AllFaults == {"crash", "cancel", "network", "persist", "store"}

Token == 1 .. MaxTokens

VARIABLES
  token,     \* the tokens issued: their account and the token they replace
  horizon,   \* tokens up to this number have expired access
  valid,     \* tokens whose refresh grant the provider still accepts
  boot,      \* the token in the bootstrap file
  managed,   \* the token in the managed state
  kept,      \* history: tokens that either file ever held
  slot,      \* CodexSlot of each process
  plock,     \* refresh_locks[path] of each process
  flock,     \* holder of the process lock on the store
  pc,        \* where each coroutine is suspended
  orig,      \* the candidate _refresh was called with
  att,       \* the candidate whose grant it posts
  reply      \* the provider's answer: a token, or NULL for a rejection

fileVars == <<boot, managed, kept>>
providerVars == <<token, horizon, valid>>
callVars == <<pc, orig, att, reply>>
vars == <<providerVars, fileVars, slot, plock, flock, callVars>>

(* CodexSlot: cached auth, failed_auth_fingerprint, the bootstrap source   *)
(* fingerprint last seen, and whether auth_retry_at lies in the future.    *)
Slot == [auth : Token \cup {NULL}, failed : Token \cup {NULL},
         seen : Token \cup {NULL}, backoff : BOOLEAN]

Fresh(b) == [auth |-> NULL, failed |-> NULL, seen |-> b, backoff |-> FALSE]

TypeOK ==
  /\ token \in Seq([acct : Account, prev : Token \cup {NULL}]) /\ Len(token) <= MaxTokens
  /\ horizon \in 0 .. MaxTokens
  /\ valid \subseteq Token
  /\ boot \in Token \cup {NULL} /\ managed \in Token \cup {NULL} /\ kept \subseteq Token
  /\ slot \in [Proc -> Slot]
  /\ plock \in [Proc -> Worker \cup {NULL}]
  /\ flock \in Worker \cup {NULL}
  /\ pc \in [Worker -> {"idle", "queued", "locking", "posting", "answered"}]
  /\ orig \in [Worker -> Token \cup {NULL}]
  /\ att \in [Worker -> Token \cup {NULL}]
  /\ reply \in [Worker -> Token \cup {NULL}]

Init ==
  /\ token = <<>> /\ horizon = 0 /\ valid = {}
  /\ boot = NULL /\ managed = NULL /\ kept = {}
  /\ slot = [p \in Proc |-> Fresh(NULL)]
  /\ plock = [p \in Proc |-> NULL] /\ flock = NULL
  /\ pc = [w \in Worker |-> "idle"]
  /\ orig = [w \in Worker |-> NULL] /\ att = [w \in Worker |-> NULL]
  /\ reply = [w \in Worker |-> NULL]

Issue(a, t) == token' = Append(token, [acct |-> a, prev |-> t])
NextToken == Len(token) + 1
Expired(t) == t <= horizon
Good(t) == t # NULL /\ ~Expired(t)

-----------------------------------------------------------------------------
(* _load_candidate(): managed state of another account than the bootstrap  *)
(* file's is ignored; of the rest the furthest expiry wins.                *)
Candidates ==
  ({boot} \ {NULL}) \cup
  {m \in {managed} \ {NULL} : boot = NULL \/ token[m].acct = token[boot].acct}

Best(S) == CHOOSE t \in S : \A u \in S : u <= t

(* _adopt_candidate() and the two kinds of _set_auth_error().              *)
Adopted(s, t) == [s EXCEPT !.auth = t, !.failed = NULL, !.backoff = FALSE]
Retryable(s)  == [s EXCEPT !.auth = NULL, !.backoff = TRUE]
Terminal(s, t) == [s EXCEPT !.auth = NULL, !.failed = t, !.backoff = FALSE]

(* _invalidate_changed_auth_candidate(): a changed bootstrap source resets *)
(* what the slot knew.                                                     *)
Detected(s) == IF s.seen = boot THEN s ELSE Fresh(boot)

(* The coroutine returns from load_auth(), giving up the locks it holds.   *)
Return(w) ==
  /\ pc' = [pc EXCEPT ![w] = "idle"]
  /\ orig' = [orig EXCEPT ![w] = NULL]
  /\ att' = [att EXCEPT ![w] = NULL]
  /\ reply' = [reply EXCEPT ![w] = NULL]
  /\ plock' = [p \in Proc |-> IF plock[p] = w THEN NULL ELSE plock[p]]
  /\ flock' = IF flock = w THEN NULL ELSE flock

SetSlot(w, s) == slot' = [slot EXCEPT ![Home[w]] = s]

(* load_auth() returns at once: the slot backs off, its cached auth is     *)
(* still good, or the candidate settles the matter.  An unreadable store   *)
(* is tolerated while the bootstrap token is good.                         *)
LoadCached(w) ==
  LET s == Detected(slot[Home[w]]) IN
  /\ pc[w] = "idle"
  /\ s.backoff \/ Good(s.auth)
  /\ SetSlot(w, s)
  /\ UNCHANGED <<providerVars, fileVars, plock, flock, callVars>>

NeedsCandidate(w, s) ==
  pc[w] = "idle" /\ ~s.backoff /\ ~Good(s.auth)

LoadCandidate(w) ==
  LET s == Detected(slot[Home[w]])
      c == Best(Candidates) IN
  /\ NeedsCandidate(w, s)
  /\ IF Candidates = {} THEN SetSlot(w, [s EXCEPT !.auth = NULL])
     ELSE IF s.failed = c THEN SetSlot(w, s)
     ELSE ~Expired(c) /\ SetSlot(w, Adopted(s, c))
  /\ UNCHANGED <<providerVars, fileVars, plock, flock, callVars>>

LoadUnreadable(w) ==
  LET s == Detected(slot[Home[w]]) IN
  /\ "store" \in Faults
  /\ NeedsCandidate(w, s)
  /\ IF Good(boot)
     THEN SetSlot(w, IF s.failed = boot THEN s ELSE Adopted(s, boot))
     ELSE SetSlot(w, Retryable(s))
  /\ UNCHANGED <<providerVars, fileVars, plock, flock, callVars>>

(* Bug: the candidate that was read before the locks is posted.            *)
UnderLocksStale(w, s, o) ==
  /\ SetSlot(w, s)
  /\ plock' = [plock EXCEPT ![Home[w]] = w] /\ flock' = w
  /\ pc' = [pc EXCEPT ![w] = "posting"]
  /\ orig' = [orig EXCEPT ![w] = o]
  /\ att' = [att EXCEPT ![w] = o]
  /\ UNCHANGED reply

(* _refresh() once both locks are to be had: the files are read again.  A  *)
(* newer candidate with good access is adopted, else its grant is posted.  *)
UnderLocks(w, s, o) ==
  LET c == Best(Candidates) IN
  \/ Candidates = {} /\ SetSlot(w, Terminal(s, o)) /\ Return(w)
  \/ "store" \in Faults /\ SetSlot(w, Retryable(s)) /\ Return(w)
  \/ /\ Candidates # {} /\ c # o /\ ~Expired(c)
     /\ SetSlot(w, Adopted(s, c)) /\ Return(w)
  \/ /\ Candidates # {} /\ (c = o \/ Expired(c))
     /\ SetSlot(w, s)
     /\ plock' = [plock EXCEPT ![Home[w]] = w] /\ flock' = w
     /\ pc' = [pc EXCEPT ![w] = "posting"]
     /\ orig' = [orig EXCEPT ![w] = o]
     /\ att' = [att EXCEPT ![w] = c]
     /\ UNCHANGED reply

(* It suspends first where the asyncio lock of the process, and then where *)
(* the process lock, is taken.                                             *)
Suspend(w, s, o, where) ==
  /\ SetSlot(w, s)
  /\ plock' = IF where = "locking" THEN [plock EXCEPT ![Home[w]] = w] ELSE plock
  /\ pc' = [pc EXCEPT ![w] = where]
  /\ orig' = [orig EXCEPT ![w] = o]
  /\ UNCHANGED <<flock, att, reply>>

WithProcessTurn(w, s, o) ==
  \/ flock # NULL /\ Suspend(w, s, o, "locking")
  \/ flock = NULL /\ UnderLocks(w, s, o)

Contended(w) == \/ plock[Home[w]] # NULL
                \/ \E v \in Worker : Home[v] = Home[w] /\ pc[v] = "queued"

(* load_auth() calls _refresh() for an expired candidate.                  *)
LoadRefresh(w) ==
  LET s == Detected(slot[Home[w]])
      c == Best(Candidates) IN
  /\ NeedsCandidate(w, s) /\ Candidates # {} /\ s.failed # c /\ Expired(c)
  /\ \/ Contended(w) /\ Suspend(w, s, c, "queued")
     \/ ~Contended(w) /\ WithProcessTurn(w, s, c)
  /\ UNCHANGED <<providerVars, fileVars>>

-----------------------------------------------------------------------------
(* The coroutine's turn on the asyncio lock of its process.                *)
Turn(w) ==
  /\ pc[w] = "queued" /\ plock[Home[w]] = NULL
  /\ WithProcessTurn(w, slot[Home[w]], orig[w])
  /\ UNCHANGED <<providerVars, fileVars>>

(* It polls the process lock, until it gives up.                           *)
Locked(w) ==
  /\ pc[w] = "locking" /\ flock = NULL
  /\ UnderLocks(w, slot[Home[w]], orig[w])
  /\ UNCHANGED <<providerVars, fileVars>>

LockTimeout(w) ==
  /\ pc[w] = "locking" /\ flock # NULL
  /\ SetSlot(w, Retryable(slot[Home[w]]))
  /\ Return(w)
  /\ UNCHANGED <<providerVars, fileVars>>

(* External: the provider rotates the grant, so each is good for one use.  *)
ProviderRotates(w) ==
  /\ pc[w] = "posting" /\ att[w] \in valid /\ Len(token) < MaxTokens
  /\ Issue(token[att[w]].acct, att[w])
  /\ valid' = (valid \ {att[w]}) \cup {NextToken}
  /\ reply' = [reply EXCEPT ![w] = NextToken]
  /\ pc' = [pc EXCEPT ![w] = "answered"]
  /\ UNCHANGED <<horizon, fileVars, slot, plock, flock, orig, att>>

ProviderRejects(w) ==
  /\ pc[w] = "posting" /\ att[w] \notin valid
  /\ pc' = [pc EXCEPT ![w] = "answered"]
  /\ UNCHANGED <<providerVars, fileVars, slot, plock, flock, orig, att, reply>>

(* A quota or server error of the provider, or a broken connection, which  *)
(* may also lose the answer to a grant that was already used up.           *)
PostFailed(w) ==
  /\ \/ pc[w] = "posting"
     \/ pc[w] = "answered" /\ "network" \in Faults
  /\ SetSlot(w, Retryable(slot[Home[w]]))
  /\ Return(w)
  /\ UNCHANGED <<providerVars, fileVars>>

(* Bug: any answer is taken for a token.                                   *)
PersistAnything(w) ==
  /\ pc[w] = "answered"
  /\ managed' = reply[w] /\ kept' = kept \cup {reply[w]}
  /\ SetSlot(w, Adopted(slot[Home[w]], reply[w]))
  /\ Return(w)
  /\ UNCHANGED <<providerVars, boot>>

(* _persist_refresh() replaces the managed state, then the token is used.  *)
Persist(w) ==
  /\ pc[w] = "answered" /\ reply[w] # NULL
  /\ managed' = reply[w] /\ kept' = kept \cup {reply[w]}
  /\ SetSlot(w, Adopted(slot[Home[w]], reply[w]))
  /\ Return(w)
  /\ UNCHANGED <<providerVars, boot>>

(* Bug: the token is used although it could not be written.                *)
PersistFailedUsed(w) ==
  /\ "persist" \in Faults
  /\ pc[w] = "answered" /\ reply[w] # NULL
  /\ SetSlot(w, Adopted(slot[Home[w]], reply[w]))
  /\ Return(w)
  /\ UNCHANGED <<providerVars, fileVars>>

(* It fails before the replacement, or after it, on the directory's fsync. *)
PersistFailed(w) ==
  /\ "persist" \in Faults
  /\ pc[w] = "answered" /\ reply[w] # NULL
  /\ \/ UNCHANGED <<managed, kept>>
     \/ managed' = reply[w] /\ kept' = kept \cup {reply[w]}
  /\ SetSlot(w, Retryable(slot[Home[w]]))
  /\ Return(w)
  /\ UNCHANGED <<providerVars, boot>>

(* Bug: a rejection leaves without the asyncio lock being released.        *)
RejectedLocked(w) ==
  /\ pc[w] = "answered" /\ reply[w] = NULL
  /\ SetSlot(w, Terminal(slot[Home[w]], att[w]))
  /\ pc' = [pc EXCEPT ![w] = "idle"] /\ flock' = NULL
  /\ UNCHANGED <<providerVars, fileVars, plock, orig, att, reply>>

Rejected(w) ==
  /\ pc[w] = "answered" /\ reply[w] = NULL
  /\ SetSlot(w, Terminal(slot[Home[w]], att[w]))
  /\ Return(w)
  /\ UNCHANGED <<providerVars, fileVars>>

(* Bug: cancellation keeps the process lock.                               *)
CancelLocked(w) ==
  /\ "cancel" \in Faults
  /\ pc[w] # "idle"
  /\ pc' = [pc EXCEPT ![w] = "idle"]
  /\ plock' = [p \in Proc |-> IF plock[p] = w THEN NULL ELSE plock[p]]
  /\ UNCHANGED <<providerVars, fileVars, slot, flock, orig, att, reply>>

(* The calling request is cancelled at an await: only the locks go.        *)
Cancel(w) ==
  /\ "cancel" \in Faults
  /\ pc[w] # "idle"
  /\ Return(w)
  /\ UNCHANGED <<providerVars, fileVars, slot>>

-----------------------------------------------------------------------------
(* _quarantine_auth_failure(): an inference of this credential got a 401.  *)
(* That takes a network exchange, while the next coroutine gets its turn   *)
(* in the event loop's pass after the asyncio lock was released.           *)
Quarantine(p) ==
  /\ slot[p].auth # NULL
  /\ plock[p] = NULL => \A w \in Worker : Home[w] = p => pc[w] # "queued"
  /\ slot' = [slot EXCEPT ![p] = [@ EXCEPT !.auth = NULL, !.failed = slot[p].auth,
                                          !.backoff = FALSE]]
  /\ UNCHANGED <<providerVars, fileVars, plock, flock, callVars>>

BackoffEnds(p) ==
  /\ slot[p].backoff
  /\ slot' = [slot EXCEPT ![p].backoff = FALSE]
  /\ UNCHANGED <<providerVars, fileVars, plock, flock, callVars>>

(* A process dies and starts again; the kernel drops its lock.             *)
Crash(p) ==
  LET mine == {w \in Worker : Home[w] = p}
      Gone(f) == [w \in Worker |-> IF w \in mine THEN NULL ELSE f[w]] IN
  /\ "crash" \in Faults
  /\ slot' = [slot EXCEPT ![p] = Fresh(boot)]
  /\ plock' = [plock EXCEPT ![p] = NULL]
  /\ flock' = IF flock \in mine THEN NULL ELSE flock
  /\ pc' = [w \in Worker |-> IF w \in mine THEN "idle" ELSE pc[w]]
  /\ orig' = Gone(orig) /\ att' = Gone(att) /\ reply' = Gone(reply)
  /\ UNCHANGED <<providerVars, fileVars>>

(* External: the operator logs in, which replaces the bootstrap file, or   *)
(* removes it; access tokens expire in the order they were issued.         *)
Login(a) ==
  /\ Len(token) < MaxTokens
  /\ Issue(a, NULL)
  /\ valid' = valid \cup {NextToken}
  /\ boot' = NextToken /\ kept' = kept \cup {NextToken}
  /\ UNCHANGED <<horizon, managed, slot, plock, flock, callVars>>

Logout ==
  /\ boot # NULL
  /\ boot' = NULL
  /\ UNCHANGED <<providerVars, managed, kept, slot, plock, flock, callVars>>

Expire ==
  /\ horizon < Len(token)
  /\ horizon' = horizon + 1
  /\ UNCHANGED <<token, valid, fileVars, slot, plock, flock, callVars>>

-----------------------------------------------------------------------------
Lock(w) == Locked(w) \/ LockTimeout(w)
Answer(w) == ProviderRotates(w) \/ ProviderRejects(w) \/ PostFailed(w)
             \/ Persist(w) \/ PersistFailed(w) \/ Rejected(w)

Next ==
  \/ \E w \in Worker : \/ LoadCached(w) \/ LoadCandidate(w) \/ LoadUnreadable(w)
                       \/ LoadRefresh(w) \/ Turn(w) \/ Lock(w) \/ Answer(w) \/ Cancel(w)
  \/ \E p \in Proc : Quarantine(p) \/ BackoffEnds(p) \/ Crash(p)
  \/ \E a \in Account : Login(a)
  \/ Logout \/ Expire

(* Fairness: the asyncio lock is first come, first served; the process     *)
(* lock is tried until CODEX_AUTH_LOCK_TIMEOUT_SECONDS; the post has a     *)
(* total timeout, and what follows it does not wait.                       *)
Fairness ==
  \A w \in Worker : SF_vars(Turn(w)) /\ WF_vars(Lock(w)) /\ WF_vars(Answer(w))

Spec == Init /\ [][Next]_vars /\ Fairness

-----------------------------------------------------------------------------
(* A used grant is lost when no file ever held the token it was rotated    *)
(* into: the answer, or the write, was interrupted.                        *)
Burnt(t) ==
  t \notin valid /\ \A n \in 1 .. Len(token) : token[n].prev = t => n \notin kept

(* "Only one process consumes a generation": whatever the processes, the   *)
(* waits for the two locks and the changes of the files in between, a      *)
(* grant is posted again only when its first rotation was lost.            *)
GenerationConsumedOnce ==
  \A w \in Worker : pc[w] = "posting" => att[w] \in valid \/ Burnt(att[w])

(* "Rotating Codex grants are persisted atomically before use": no slot    *)
(* uses a token that a restart could not find in one of the files.         *)
PersistedBeforeUse == \A p \in Proc : slot[p].auth # NULL => slot[p].auth \in kept

(* Both locks belong to a coroutine still inside _refresh(), which holds   *)
(* the process lock only while it holds its process's asyncio lock.        *)
LocksOwned ==
  /\ flock # NULL => pc[flock] \in {"posting", "answered"}
  /\ \A w \in Worker :
       /\ pc[w] \in {"posting", "answered"} => flock = w
       /\ pc[w] \in {"locking", "posting", "answered"} <=> plock[Home[w]] = w

(* The tokens either file held that a rotation of t issued.                *)
WrittenAfter(t) == {n \in kept : token[n].prev = t}

(* What the files say has been issued, and only what they said is rotated. *)
FilesHoldIssued ==
  /\ kept \subseteq 1 .. Len(token)
  /\ {boot, managed} \subseteq kept \cup {NULL}
  /\ \A n \in 1 .. Len(token) :
       token[n].prev # NULL => token[n].prev \in kept /\ token[n].prev < n

(* No file's token is chosen once its successor is written: the managed    *)
(* state has no successor, and one of the bootstrap file is outranked.     *)
NewestIsFound ==
  /\ managed # NULL => WrittenAfter(managed) = {}
  /\ boot # NULL /\ WrittenAfter(boot) # {} =>
       managed # NULL /\ boot < managed /\ token[managed].acct = token[boot].acct

(* What the coroutine that holds both locks posts has no written successor *)
(* either; its choice still stands unless a login came meanwhile, whose    *)
(* token nobody can have posted; and the answer is not written yet.        *)
PostIsCurrent ==
  \A w \in Worker :
    /\ pc[w] \in {"posting", "answered"} =>
         /\ att[w] \in kept /\ WrittenAfter(att[w]) = {}
         /\ boot # NULL /\ WrittenAfter(boot) # {} =>
              boot <= att[w] /\ token[att[w]].acct = token[boot].acct
    /\ reply[w] # NULL =>
         /\ pc[w] = "answered"
         /\ reply[w] \in (1 .. Len(token)) \ kept
         /\ token[reply[w]] = [acct |-> token[att[w]].acct, prev |-> att[w]]

(* The inductive invariant: how files, grants, locks and coroutines fit    *)
(* together at every await.                                                *)
AuthInvariant ==
  /\ TypeOK /\ LocksOwned /\ PersistedBeforeUse
  /\ FilesHoldIssued /\ NewestIsFound /\ PostIsCurrent

(* Every load_auth() that waits for a refresh returns.                     *)
LoadReturns == \A w \in Worker : pc[w] # "idle" ~> pc[w] = "idle"

(* "Managed state is eligible only for that same account": once a process  *)
(* has seen the current bootstrap file, it serves that file's account.     *)
SlotFollowsSource ==
  \A p \in Proc : LET s == slot[p] IN
    boot # NULL /\ s.seen = boot /\ s.auth # NULL => token[s.auth].acct = token[boot].acct

(* "Quota, network, lock, and local persistence failures remain retryable  *)
(* and do not imply that the user should reauthenticate": the provider     *)
(* never rejects the grant of a login that nobody revoked.                 *)
NoNeedlessLogin == \A w \in Worker : pc[w] = "answered" => reply[w] # NULL
=============================================================================
