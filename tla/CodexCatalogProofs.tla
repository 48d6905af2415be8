-------------------------- MODULE CodexCatalogProofs --------------------------
(***************************************************************************)
(* Proofs about CodexCatalog, for any number of slots, accounts, requests, *)
(* logins and resets.                                                      *)
(***************************************************************************)
EXTENDS CodexCatalog, TLAPS

(* What the world may do to the credentials, within their types.           *)
WorldTyped ==
  /\ file \in [Slot -> Source]
  /\ seen \in [Slot -> 0..MaxLogins \cup {NULL}]
  /\ auth \in [Slot -> Account \cup {NULL}]
  /\ enabled \in [Slot -> BOOLEAN] /\ due \in [Slot -> BOOLEAN]

(* The snapshot only loses entries.                                        *)
Revokes ==
  /\ slots' \in [Slot -> Entry \cup {NULL}]
  /\ \A s \in Slot : slots'[s] \in {slots[s], NULL}

(* A wake-up or none.                                                      *)
Wakes == \E asked \in BOOLEAN : WakeIf(asked)

(* What a pass has for slot s.                                             *)
Fits(s) ==
  /\ pass.gen = generation /\ pass.staged[s] # NULL => pass.staged[s].gen = generation
  /\ pass.stage[s] = "fetch" => pass.got[s] \in Tokens

LEMMA ScheduleWakes == Schedule /\ TypeOK => Wakes
  BY DEF Schedule, Wakes, WakeIf, TypeOK

LEMMA NoWake == TypeOK /\ UNCHANGED <<wake, news>> => Wakes
  BY DEF Wakes, WakeIf, TypeOK

LEMMA NoPassIs ==
  /\ NoPass \in Pass /\ NoPass.gen = 0
  /\ \A s \in Slot : NoPass.staged[s] = NULL /\ NoPass.stage[s] = "todo"
  BY CatalogAssumption DEF NoPass, Pass, Stages

(* Only credentials, the snapshot and the locals of the pass change.       *)
LEMMA EntriesStep ==
  ASSUME CatalogInvariant, UNCHANGED <<generation, stopped, bg, rec, recent, lock, waiting>>,
         WorldTyped', Revokes, Wakes,
         pass' \in Pass, pass'.gen = pass.gen, \A s \in Slot : Fits(s)',
         lock = NULL => pass' = NoPass
  PROVE  CatalogInvariant'
<1>1. wake' \in BOOLEAN /\ news' \in BOOLEAN /\ (news' => wake')
  BY DEF CatalogInvariant, TypeOK, Wakes, WakeIf
<1>2. TypeOK'
  BY <1>1 DEF CatalogInvariant, TypeOK, WorldTyped, Revokes
<1>3. TasksAgree'
  BY <1>1 DEF CatalogInvariant, TasksAgree, NoLostWake, WaitersHaveTask, LockMatchesPass
<1>4. GenerationsFit'
  BY DEF CatalogInvariant, GenerationsFit, Revokes, Fits, Era
<1>5. QED
  BY <1>1, <1>2, <1>3, <1>4 DEF CatalogInvariant

LEMMA SurroundingsStep == CatalogInvariant /\ Surroundings => CatalogInvariant'
<1> SUFFICES ASSUME CatalogInvariant, NEW s \in Slot,
                    \/ Login(s) \/ Detect(s) \/ Adopt(s) \/ RoutingChanges(s)
                    \/ InvalidateSlot(s) \/ Lookup(s) \/ Expire(s)
             PROVE  CatalogInvariant'
  BY DEF Surroundings
<1>1. /\ WorldTyped /\ slots \in [Slot -> Entry \cup {NULL}] /\ pass \in Pass
      /\ TypeOK /\ \A t \in Slot : Fits(t)
  BY DEF CatalogInvariant, TypeOK, WorldTyped, GenerationsFit, Fits
<1>2. UNCHANGED <<generation, stopped, bg, rec, recent, lock, waiting>>
  BY DEF Login, Detect, Adopt, RoutingChanges, InvalidateSlot, Lookup, Expire, slotVars, taskVars
<1>3. Wakes
  BY <1>1, ScheduleWakes, NoWake
     DEF Login, Detect, Adopt, RoutingChanges, InvalidateSlot, Lookup, Expire
<1>4. Revokes
  BY <1>1 DEF Login, Detect, Adopt, RoutingChanges, InvalidateSlot, Lookup, Expire, Revokes
<1>5. WorldTyped'
  <2>1. CASE Login(s)
    <3>1. PICK a \in Account \cup {NULL} :
            file' = [file EXCEPT ![s] = [ver |-> @.ver + 1, acct |-> a]]
      BY <2>1 DEF Login
    <3>2. file[s].ver \in 0..MaxLogins /\ file[s].ver < MaxLogins
      BY <1>1, <2>1 DEF Login, WorldTyped, Source
    <3>3. [ver |-> file[s].ver + 1, acct |-> a] \in Source
      BY <3>2, CatalogAssumption DEF Source
    <3>4. file' \in [Slot -> Source]
      BY <1>1, <3>1, <3>3 DEF WorldTyped
    <3>5. QED
      BY <1>1, <2>1, <3>4 DEF Login, WorldTyped
  <2>2. CASE Detect(s) \/ Adopt(s)
    <3>1. file[s].ver \in 0..MaxLogins /\ file[s].acct \in Account \cup {NULL}
      BY <1>1 DEF WorldTyped, Source
    <3>2. seen' \in [Slot -> 0..MaxLogins \cup {NULL}]
      BY <1>1, <2>2, <3>1 DEF Detect, Adopt, WorldTyped
    <3>3. auth' \in [Slot -> Account \cup {NULL}]
      BY <1>1, <2>2, <3>1 DEF Detect, Adopt, WorldTyped
    <3>4. UNCHANGED <<file, enabled, due>>
      BY <2>2 DEF Detect, Adopt
    <3>5. QED
      BY <1>1, <3>2, <3>3, <3>4 DEF WorldTyped
  <2>3. CASE RoutingChanges(s) \/ InvalidateSlot(s)
    BY <1>1, <2>3 DEF RoutingChanges, InvalidateSlot, WorldTyped
  <2>4. CASE Lookup(s) \/ Expire(s)
    BY <1>1, <2>4 DEF Lookup, Expire, WorldTyped, slotVars
  <2>5. QED
    BY <2>1, <2>2, <2>3, <2>4
<1>6. CASE pass' = pass
  <2>1. lock = NULL => pass' = NoPass
    BY <1>6 DEF CatalogInvariant, TasksAgree, LockMatchesPass
  <2>2. \A t \in Slot : Fits(t)'
    BY <1>1, <1>2, <1>6 DEF Fits
  <2>3. QED
    BY <1>1, <1>2, <1>3, <1>4, <1>5, <1>6, <2>1, <2>2, EntriesStep
<1>7. CASE Expire(s)
  <2> DEFINE x == IF pass.staged[s] = slots[s] THEN NULL ELSE pass.staged[s]
  <2>1. pass' = [pass EXCEPT !.staged[s] = x]
    BY <1>7 DEF Expire
  <2>2. x \in {NULL, pass.staged[s]}
    OBVIOUS
  <2> HIDE DEF x
  <2>3. x \in Entry \cup {NULL}
    BY <1>1, <2>2 DEF Pass
  <2>4. /\ pass' \in Pass /\ pass'.gen = pass.gen /\ pass'.stage = pass.stage
        /\ pass'.got = pass.got /\ pass'.staged = [pass.staged EXCEPT ![s] = x]
    BY <1>1, <2>1, <2>3 DEF Pass
  <2>5. pass.staged \in [Slot -> Entry \cup {NULL}]
    BY <1>1 DEF Pass
  <2>6. \A t \in Slot : pass'.staged[t] \in {NULL, pass.staged[t]}
    BY <2>2, <2>4, <2>5
  <2>7. \A t \in Slot : Fits(t)'
    BY <1>1, <1>2, <2>4, <2>6 DEF Fits
  <2>8. ASSUME lock = NULL PROVE pass' = NoPass
    <3>1. pass = NoPass
      BY <2>8 DEF CatalogInvariant, TasksAgree, LockMatchesPass
    <3>2. x = NULL /\ pass.staged = [t \in Slot |-> NULL]
      BY <2>2, <3>1 DEF NoPass
    <3>3. [pass.staged EXCEPT ![s] = x] = pass.staged
      BY <3>2
    <3>4. pass' = pass
      BY <1>1, <2>4, <3>3 DEF Pass
    <3>5. QED
      BY <3>1, <3>4
  <2>9. QED
    BY <1>2, <1>3, <1>4, <1>5, <2>4, <2>7, <2>8, EntriesStep
<1>8. CASE ~Expire(s)
  BY <1>6, <1>8 DEF Login, Detect, Adopt, RoutingChanges, InvalidateSlot, Lookup, taskVars
<1>9. QED
  BY <1>7, <1>8

-----------------------------------------------------------------------------
(* What a pass knows of one slot changes.                                  *)
Moved(s, a, b, c) ==
  pass' = [pass EXCEPT !.stage[s] = a, !.staged[s] = b, !.got[s] = c]

LEMMA PassMoves ==
  ASSUME pass \in Pass, NEW s \in Slot, NEW a \in Stages, NEW b \in Entry \cup {NULL},
         NEW c \in Tokens \cup {NULL},
         Moved(s, a, b, c)
  PROVE  /\ pass' \in Pass /\ pass'.gen = pass.gen
         /\ \A t \in Slot : /\ pass'.stage[t] = IF t = s THEN a ELSE pass.stage[t]
                            /\ pass'.staged[t] = IF t = s THEN b ELSE pass.staged[t]
                            /\ pass'.got[t] = IF t = s THEN c ELSE pass.got[t]
<1>1. /\ pass.stage \in [Slot -> Stages] /\ pass.staged \in [Slot -> Entry \cup {NULL}]
      /\ pass.got \in [Slot -> Tokens \cup {NULL}]
  BY DEF Pass
<1>2. /\ [pass.stage EXCEPT ![s] = a] \in [Slot -> Stages]
      /\ [pass.staged EXCEPT ![s] = b] \in [Slot -> Entry \cup {NULL}]
      /\ [pass.got EXCEPT ![s] = c] \in [Slot -> Tokens \cup {NULL}]
  BY <1>1
<1>3. /\ pass' \in Pass /\ pass'.gen = pass.gen /\ pass'.stage = [pass.stage EXCEPT ![s] = a]
      /\ pass'.staged = [pass.staged EXCEPT ![s] = b]
      /\ pass'.got = [pass.got EXCEPT ![s] = c]
  <2> DEFINE x == [pass.stage EXCEPT ![s] = a]
             y == [pass.staged EXCEPT ![s] = b]
             z == [pass.got EXCEPT ![s] = c]
  <2>1. pass' = [pass EXCEPT !.stage = x, !.staged = y, !.got = z]
    BY DEF Moved
  <2>2. x \in [Slot -> Stages] /\ y \in [Slot -> Entry \cup {NULL}]
        /\ z \in [Slot -> Tokens \cup {NULL}]
    BY <1>2
  <2> HIDE DEF x, y, z
  <2>3. pass' \in Pass /\ pass'.gen = pass.gen /\ pass'.stage = x /\ pass'.staged = y
        /\ pass'.got = z
    BY <2>1, <2>2 DEF Pass
  <2>4. QED
    BY <2>3 DEF x, y, z
<1>4. QED
  BY <1>1, <1>3

(* One slot of a pass goes on, in the generation of the pass.              *)
LEMMA OneSlot ==
  ASSUME CatalogInvariant, lock # NULL,
         UNCHANGED <<generation, stopped, bg, rec, recent, lock, waiting>>,
         WorldTyped', Revokes, Wakes,
         NEW s \in Slot, NEW a \in Stages, NEW b \in Entry \cup {NULL},
         NEW c \in Tokens \cup {NULL},
         Moved(s, a, b, c),
         pass.gen = generation /\ b # NULL => b.gen = generation,
         a = "fetch" => c \in Tokens
  PROVE  CatalogInvariant'
<1>1. pass \in Pass /\ \A t \in Slot : Fits(t)
  BY DEF CatalogInvariant, TypeOK, GenerationsFit, Fits
<1>2. /\ pass' \in Pass /\ pass'.gen = pass.gen
      /\ \A t \in Slot : /\ pass'.stage[t] = IF t = s THEN a ELSE pass.stage[t]
                         /\ pass'.staged[t] = IF t = s THEN b ELSE pass.staged[t]
                         /\ pass'.got[t] = IF t = s THEN c ELSE pass.got[t]
  BY <1>1, PassMoves
<1>3. \A t \in Slot : Fits(t)'
  BY <1>1, <1>2 DEF Fits
<1>4. QED
  BY <1>2, <1>3, EntriesStep

LEMMA SlotStep ==
  ASSUME CatalogInvariant, NEW s \in Slot,
         \/ SkipDisabled(s) \/ LoadBegins(s) \/ LoadFails(s)
         \/ LoadEnds(s) \/ FetchFails(s) \/ FetchEnds(s)
  PROVE  CatalogInvariant'
<1>1. /\ WorldTyped /\ slots \in [Slot -> Entry \cup {NULL}] /\ pass \in Pass
      /\ TypeOK /\ Fits(s)
  BY DEF CatalogInvariant, TypeOK, WorldTyped, GenerationsFit, Fits
<1>2. /\ pass.stage[s] \in Stages /\ pass.staged[s] \in Entry \cup {NULL}
      /\ pass.got[s] \in Tokens \cup {NULL} /\ pass.gen \in 0..(MaxResets + 1)
  BY <1>1 DEF Pass
<1>3. lock # NULL /\ UNCHANGED <<generation, stopped, bg, rec, recent, lock, waiting>>
  BY DEF SkipDisabled, LoadBegins, LoadFails, LoadEnds, FetchFails, FetchEnds
<1>4. /\ file[s] \in Source /\ auth[s] \in Account \cup {NULL}
      /\ file[s].ver \in 0..MaxLogins /\ file[s].acct \in Account \cup {NULL}
  BY <1>1 DEF WorldTyped, Source
<1>5. "done" \in Stages /\ "load" \in Stages /\ "fetch" \in Stages
  BY DEF Stages
<1>6. slots[s] # NULL => slots[s] \in Entry /\ slots[s].gen = generation
  <2>1. ~stopped
    BY <1>3 DEF CatalogInvariant, GenerationsFit, TasksAgree, LockMatchesPass, TypeOK
  <2>2. QED
    BY <1>1, <2>1 DEF CatalogInvariant, GenerationsFit, Era
<1>7. CASE SkipDisabled(s) \/ LoadFails(s) \/ FetchFails(s) \/ FetchEnds(s)
  <2>1. UNCHANGED <<slotVars, slots, wake, news>>
    BY <1>7 DEF SkipDisabled, LoadFails, FetchFails, FetchEnds
  <2>2. WorldTyped' /\ Revokes /\ Wakes
    BY <1>1, <2>1, NoWake DEF slotVars, WorldTyped, Revokes
  <2>3. \E b \in Entry \cup {NULL} : /\ Finish(s, b)
                                     /\ pass.gen = generation /\ b # NULL => b.gen = generation
    <3>1. CASE SkipDisabled(s) \/ LoadFails(s)
      BY <3>1 DEF SkipDisabled, LoadFails
    <3>2. CASE FetchFails(s)
      BY <1>1, <1>2, <3>2 DEF FetchFails, Fits
    <3>3. CASE FetchEnds(s)
      <4> DEFINE got == pass.got[s]
                 new == [acct |-> got.acct, ver |-> got.ver, gen |-> pass.gen]
      <4>1. got \in Tokens
        BY <1>1, <1>2, <3>3 DEF FetchEnds, Fits
      <4>2. new \in Entry /\ new.gen = pass.gen
        BY <1>2, <4>1 DEF Tokens, Entry
      <4>3. Finish(s, new) \/ Finish(s, NULL)
        BY <3>3 DEF FetchEnds
      <4> HIDE DEF new
      <4>4. QED
        BY <4>2, <4>3
    <3>4. QED
      BY <1>7, <3>1, <3>2, <3>3
  <2>4. PICK b \in Entry \cup {NULL} : /\ Finish(s, b)
                                       /\ pass.gen = generation /\ b # NULL => b.gen = generation
    BY <2>3
  <2>5. Moved(s, "done", b, NULL)
    BY <2>4 DEF Finish, Moved
  <2>6. QED
    BY <1>3, <1>5, <2>2, <2>4, <2>5, OneSlot
<1>8. CASE LoadBegins(s)
  <2> DEFINE changed == seen[s] \notin {NULL, file[s].ver}
             acct == IF changed \/ auth[s] = NULL THEN file[s].acct ELSE auth[s]
             c == Credential(s, acct)
  <2>1. /\ seen' = [seen EXCEPT ![s] = file[s].ver] /\ UNCHANGED <<file, enabled, due>>
        /\ auth' = IF changed THEN [auth EXCEPT ![s] = NULL] ELSE auth
        /\ slots' = IF changed THEN [slots EXCEPT ![s] = NULL] ELSE slots
        /\ WakeIf(changed)
        /\ pass' = [pass EXCEPT !.stage[s] = "load", !.got[s] = c]
    BY <1>8 DEF LoadBegins
  <2>2. c \in Tokens \cup {NULL}
    <3>1. acct \in Account \cup {NULL}
      BY <1>4
    <3>2. QED
      BY <1>4, <3>1 DEF Credential, Tokens
  <2>3. changed \in BOOLEAN
    OBVIOUS
  <2> HIDE DEF changed, c
  <2>4. WorldTyped' /\ Revokes /\ Wakes
    BY <1>1, <1>4, <2>1, <2>3 DEF WorldTyped, Revokes, Wakes
  <2>5. Moved(s, "load", pass.staged[s], c)
    <3>1. [pass.staged EXCEPT ![s] = pass.staged[s]] = pass.staged
      BY <1>1 DEF Pass
    <3> DEFINE x == [pass.stage EXCEPT ![s] = "load"]
               z == [pass.got EXCEPT ![s] = c]
    <3>2. pass' = [pass EXCEPT !.stage = x, !.got = z]
      BY <2>1
    <3> HIDE DEF x, z
    <3>3. pass' = [pass EXCEPT !.stage = x, !.staged = pass.staged, !.got = z]
      BY <1>1, <3>2 DEF Pass
    <3>4. QED
      BY <3>1, <3>3 DEF Moved, x, z
  <2>6. QED
    BY <1>1, <1>2, <1>3, <1>5, <2>2, <2>4, <2>5, OneSlot DEF Fits
<1>9. CASE LoadEnds(s)
  <2> DEFINE acct == pass.got[s].acct
             fits == file[s].acct = acct
             a == IF fits THEN "fetch" ELSE "done"
             b == IF fits THEN Retained(s, acct) ELSE NULL
             c == IF fits THEN [acct |-> acct, ver |-> file[s].ver] ELSE NULL
             asked == fits /\ slots[s] # NULL /\ Retained(s, acct) = NULL
  <2>1. /\ UNCHANGED <<file, seen, enabled, due, slots>>
        /\ auth' = [auth EXCEPT ![s] = acct] /\ WakeIf(asked)
        /\ Moved(s, a, b, c) /\ pass.got[s] # NULL
    BY <1>9 DEF LoadEnds, Moved
  <2>2. acct \in Account
    BY <1>2, <2>1 DEF Tokens
  <2>3. c \in Tokens \cup {NULL} /\ a \in Stages /\ (a = "fetch" => c \in Tokens)
    <3>1. [acct |-> acct, ver |-> file[s].ver] \in Tokens
      BY <1>4, <2>2 DEF Tokens
    <3>2. QED
      BY <1>5, <3>1
  <2>4. b \in {slots[s], NULL}
    BY DEF Retained
  <2>5. asked \in BOOLEAN
    OBVIOUS
  <2> HIDE DEF a, b, c, asked, acct
  <2>6. WorldTyped' /\ Revokes /\ Wakes
    BY <1>1, <2>1, <2>2, <2>5 DEF WorldTyped, Revokes, Wakes
  <2>7. b \in Entry \cup {NULL} /\ (b # NULL => b.gen = generation)
    BY <1>6, <2>4
  <2>8. QED
    BY <1>3, <2>1, <2>3, <2>6, <2>7, OneSlot
<1>10. QED
  BY <1>7, <1>8, <1>9

-----------------------------------------------------------------------------
(* The tasks.  A step that leaves the world and the snapshot alone.        *)
LEMMA TaskStep ==
  ASSUME CatalogInvariant, UNCHANGED <<slotVars, slots, generation, stopped>>,
         wake' \in BOOLEAN, news' \in BOOLEAN, news' => wake',
         bg' \in [at : {"sleep", "begin", "pass", "over"}, gen : 0..(MaxResets + 1)],
         rec' \in [at : {"none", "begin", "pass"}, gen : 0..(MaxResets + 1)],
         recent' \in BOOLEAN, lock' \in {NULL, "bg", "rec"}, waiting' \in 0..MaxWaiters,
         WaitersHaveTask', LockMatchesPass', (bg.at = "over") <=> (bg'.at = "over"),
         stopped => rec'.at = "none",
         pass' \in Pass, pass'.gen <= generation, \A s \in Slot : Fits(s)'
  PROVE  CatalogInvariant'
<1>1. TypeOK'
  BY DEF CatalogInvariant, TypeOK, slotVars
<1>2. TasksAgree'
  BY DEF TasksAgree, NoLostWake
<1>3. GenerationsFit'
  BY DEF CatalogInvariant, GenerationsFit, Fits, Era
<1>4. QED
  BY <1>1, <1>2, <1>3 DEF CatalogInvariant

LEMMA Facts ==
  ASSUME CatalogInvariant
  PROVE  /\ TypeOK /\ TasksAgree /\ GenerationsFit /\ (news => wake)
         /\ pass \in Pass /\ pass.gen <= generation /\ generation \in Nat
         /\ \A s \in Slot : Fits(s)
         /\ NoLostWake /\ WaitersHaveTask /\ LockMatchesPass
  BY CatalogAssumption DEF CatalogInvariant, TasksAgree, TypeOK, GenerationsFit, Fits

(* The pass is given up or over.                                           *)
LEMMA NoPassFits ==
  ASSUME CatalogInvariant, pass' = NoPass, UNCHANGED generation
  PROVE  pass' \in Pass /\ pass'.gen <= generation /\ \A s \in Slot : Fits(s)'
<1>1. generation \in Nat
  BY Facts
<1>2. \A s \in Slot : pass'.staged[s] = NULL /\ pass'.stage[s] = "todo"
  BY NoPassIs
<1>3. QED
  BY <1>1, <1>2, NoPassIs DEF Fits

LEMMA SamePassFits ==
  ASSUME CatalogInvariant, UNCHANGED <<pass, generation>>
  PROVE  pass' \in Pass /\ pass'.gen <= generation /\ \A s \in Slot : Fits(s)'
<1>1. pass \in Pass /\ pass.gen <= generation /\ \A s \in Slot : Fits(s)
  BY Facts
<1>2. QED
  BY <1>1 DEF Fits

LEMMA BgWakesStep == CatalogInvariant /\ BgWakes => CatalogInvariant'
<1> SUFFICES ASSUME CatalogInvariant, BgWakes PROVE CatalogInvariant'
  OBVIOUS
<1>1. /\ UNCHANGED <<slotVars, slots, generation, stopped, rec, recent, lock, waiting, pass>>
      /\ bg.at = "sleep" /\ bg'.at = "begin" /\ bg' = [at |-> "begin", gen |-> generation]
      /\ wake' = FALSE /\ news' = FALSE
  BY DEF BgWakes
<1>2. /\ TypeOK /\ WaitersHaveTask /\ LockMatchesPass /\ GenerationsFit
  BY Facts
<1>3. bg' \in [at : {"sleep", "begin", "pass", "over"}, gen : 0..(MaxResets + 1)]
  BY <1>1, <1>2 DEF TypeOK
<1>4. WaitersHaveTask' /\ LockMatchesPass'
  BY <1>1, <1>2 DEF WaitersHaveTask, LockMatchesPass
<1>5. QED
  BY <1>1, <1>2, <1>3, <1>4, SamePassFits, TaskStep DEF TypeOK, GenerationsFit

LEMMA PassBeginsStep ==
  ASSUME CatalogInvariant, NEW task \in {"bg", "rec"}, PassBegins(task)
  PROVE  CatalogInvariant'
<1> DEFINE looked == {s \in Slot : auth[s] # NULL /\ enabled[s]}
           first == [s \in Slot |-> IF s \in looked THEN Retained(s, auth[s]) ELSE NULL]
           asked == \E s \in looked : Mismatch(s)
<1>1. /\ TypeOK /\ WaitersHaveTask /\ LockMatchesPass /\ GenerationsFit /\ (news => wake)
  BY Facts
<1>2. /\ lock = NULL /\ lock' = task /\ WakeIf(asked)
      /\ pass' = [NoPass EXCEPT !.gen = generation, !.staged = first]
      /\ bg' = IF task = "bg" THEN [bg EXCEPT !.at = "pass"] ELSE bg
      /\ rec' = IF task = "rec" THEN [rec EXCEPT !.at = "pass"] ELSE rec
      /\ IF task = "bg" THEN bg.at = "begin" ELSE rec.at = "begin"
      /\ UNCHANGED <<slotVars, slots, generation, stopped, recent, waiting>>
  BY DEF PassBegins
<1>3. \A s \in Slot : first[s] \in {NULL, slots[s]}
  BY DEF Retained
<1>4. first \in [Slot -> Entry \cup {NULL}]
  BY <1>3, <1>1 DEF TypeOK
<1>5. asked \in BOOLEAN
  OBVIOUS
<1> HIDE DEF first, asked
<1>6. ~stopped
  BY <1>1, <1>2 DEF GenerationsFit
<1>7. /\ pass' \in Pass /\ pass'.gen = generation /\ pass'.staged = first
      /\ \A s \in Slot : pass'.stage[s] = "todo"
  <2>1. generation \in 0..(MaxResets + 1)
    BY <1>1 DEF TypeOK
  <2> HIDE DEF NoPass
  <2>2. /\ pass' \in Pass /\ pass'.gen = generation /\ pass'.staged = first
        /\ pass'.stage = NoPass.stage
    BY <1>2, <1>4, <2>1, NoPassIs DEF Pass
  <2>3. QED
    BY <2>2, NoPassIs
<1>8. \A s \in Slot : slots[s] # NULL => slots[s].gen = generation
  BY <1>1, <1>6 DEF GenerationsFit, Era
<1>9. \A s \in Slot : Fits(s)'
  BY <1>2, <1>3, <1>7, <1>8 DEF Fits
<1>10. pass'.gen <= generation
  BY <1>7, Facts
<1>11. wake' \in BOOLEAN /\ news' \in BOOLEAN /\ (news' => wake')
  BY <1>1, <1>2, <1>5 DEF WakeIf, TypeOK
<1>12. /\ bg' \in [at : {"sleep", "begin", "pass", "over"}, gen : 0..(MaxResets + 1)]
       /\ rec' \in [at : {"none", "begin", "pass"}, gen : 0..(MaxResets + 1)]
       /\ bg'.at = (IF task = "bg" THEN "pass" ELSE bg.at)
       /\ rec'.at = (IF task = "rec" THEN "pass" ELSE rec.at)
  BY <1>1, <1>2 DEF TypeOK
<1>13. WaitersHaveTask'
  BY <1>1, <1>2, <1>12 DEF WaitersHaveTask
<1>14. LockMatchesPass'
  BY <1>1, <1>2, <1>12, CatalogAssumption DEF LockMatchesPass
<1>15. (bg.at = "over") <=> (bg'.at = "over")
  BY <1>2, <1>12
<1>16. recent' \in BOOLEAN /\ lock' \in {NULL, "bg", "rec"} /\ waiting' \in 0..MaxWaiters
  BY <1>1, <1>2 DEF TypeOK
<1>17. QED
  BY <1>2, <1>6, <1>7, <1>9, <1>10, <1>11, <1>12, <1>13, <1>14, <1>15, <1>16, TaskStep

LEMMA RecoverStep ==
  CatalogInvariant /\ (Recover \/ CancelWaiter \/ MinutePasses) => CatalogInvariant'
<1> SUFFICES ASSUME CatalogInvariant, Recover \/ CancelWaiter \/ MinutePasses
             PROVE  CatalogInvariant'
  OBVIOUS
<1>1. /\ TypeOK /\ WaitersHaveTask /\ LockMatchesPass /\ GenerationsFit /\ (news => wake)
  BY Facts
<1>2. UNCHANGED <<slotVars, slots, generation, stopped, wake, news, bg, lock, pass>>
  BY DEF Recover, CancelWaiter, MinutePasses
<1>3. waiting' \in 0..MaxWaiters /\ recent' \in BOOLEAN
  <2>1. waiting \in 0..MaxWaiters /\ MaxWaiters \in Nat /\ recent \in BOOLEAN
    BY <1>1, CatalogAssumption DEF TypeOK
  <2>2. \/ waiting' = waiting
        \/ waiting < MaxWaiters /\ waiting' = waiting + 1
        \/ waiting > 0 /\ waiting' = waiting - 1
    BY DEF Recover, CancelWaiter, MinutePasses
  <2>3. recent' = recent \/ recent' = TRUE \/ recent' = FALSE
    BY Zenon DEF Recover, CancelWaiter, MinutePasses
  <2>4. recent' \in BOOLEAN
    BY <2>1, <2>3, Zenon
  <2>5. waiting' \in 0..MaxWaiters
    BY <2>1, <2>2
  <2>6. QED
    BY <2>4, <2>5
<1>4. \/ rec' = rec /\ (waiting' > 0 => waiting > 0 \/ rec.at # "none")
      \/ /\ rec.at = "none" /\ rec'.at = "begin" /\ ~stopped
         /\ rec' = [at |-> "begin", gen |-> generation]
  BY <1>1, CatalogAssumption DEF Recover, CancelWaiter, MinutePasses, TypeOK
<1>5. rec' \in [at : {"none", "begin", "pass"}, gen : 0..(MaxResets + 1)]
  BY <1>1, <1>4 DEF TypeOK
<1>6. WaitersHaveTask'
  BY <1>1, <1>4 DEF WaitersHaveTask, TypeOK
<1>7. LockMatchesPass'
  BY <1>1, <1>2, <1>4 DEF LockMatchesPass
<1>8. stopped => rec'.at = "none"
  BY <1>1, <1>4 DEF GenerationsFit
<1>9. QED
  BY <1>1, <1>2, <1>3, <1>5, <1>6, <1>7, <1>8, SamePassFits, TaskStep DEF TypeOK

(* A task leaves: the pass it was in, if any, is gone.                     *)
LEMMA LeaveStep ==
  ASSUME CatalogInvariant, NEW task \in {"bg", "rec"}, Leave(task),
         UNCHANGED <<slotVars, generation, stopped, wake, news>>,
         slots' = slots \/ (slots' \in [Slot -> Entry \cup {NULL}] /\
                            \A s \in Slot : slots'[s] # NULL => slots'[s].gen = Era),
         \/ lock = task /\ lock' = NULL /\ pass' = NoPass
         \/ lock # task /\ UNCHANGED <<lock, pass>>,
         bg.at # "over" \/ task = "rec"
  PROVE  CatalogInvariant'
<1>1. /\ TypeOK /\ WaitersHaveTask /\ LockMatchesPass /\ GenerationsFit /\ (news => wake)
  BY Facts
<1>2. /\ bg' = IF task = "bg" THEN [bg EXCEPT !.at = "sleep"] ELSE bg
      /\ rec' = IF task = "rec" THEN [rec EXCEPT !.at = "none"] ELSE rec
      /\ waiting' = IF task = "rec" THEN 0 ELSE waiting
      /\ recent' = recent
  BY DEF Leave
<1>3. /\ bg' \in [at : {"sleep", "begin", "pass", "over"}, gen : 0..(MaxResets + 1)]
      /\ rec' \in [at : {"none", "begin", "pass"}, gen : 0..(MaxResets + 1)]
      /\ bg'.at = (IF task = "bg" THEN "sleep" ELSE bg.at)
      /\ rec'.at = (IF task = "rec" THEN "none" ELSE rec.at)
  BY <1>1, <1>2 DEF TypeOK
<1>4. pass' \in Pass /\ pass'.gen <= generation /\ \A s \in Slot : Fits(s)'
  BY NoPassFits, SamePassFits
<1>5. WaitersHaveTask'
  BY <1>1, <1>2, <1>3 DEF WaitersHaveTask
<1>6. LockMatchesPass'
  BY <1>1, <1>3, CatalogAssumption DEF LockMatchesPass
<1>7. TypeOK'
  BY <1>1, <1>2, <1>3, <1>4, CatalogAssumption DEF TypeOK, slotVars
<1>8. GenerationsFit'
  BY <1>1, <1>3, <1>4 DEF GenerationsFit, Fits, Era
<1>9. TasksAgree' /\ (news' => wake')
  BY <1>1, <1>5, <1>6 DEF TasksAgree, NoLostWake
<1>10. QED
  BY <1>7, <1>8, <1>9 DEF CatalogInvariant

LEMMA PassLeavesStep ==
  CatalogInvariant /\ (PassObsolete \/ Publish \/ PublishFails \/ RecoveryTimesOut)
    => CatalogInvariant'
<1> SUFFICES ASSUME CatalogInvariant,
                    PassObsolete \/ Publish \/ PublishFails \/ RecoveryTimesOut
             PROVE  CatalogInvariant'
  OBVIOUS
<1>1. /\ TypeOK /\ WaitersHaveTask /\ LockMatchesPass /\ GenerationsFit
      /\ lock \in {NULL, "bg", "rec"} /\ pass \in Pass /\ \A s \in Slot : Fits(s)
  BY Facts DEF TypeOK
<1>2. UNCHANGED <<slotVars, generation, stopped, wake, news>>
  BY DEF PassObsolete, Publish, PublishFails, RecoveryTimesOut
<1>3. CASE PassObsolete
  BY <1>1, <1>2, <1>3, CatalogAssumption, LeaveStep DEF PassObsolete
<1>4. CASE Publish \/ PublishFails
  <2>1. /\ lock \in {"bg", "rec"} /\ lock' = NULL /\ pass' = NoPass /\ Leave(lock)
    BY <1>1, <1>4 DEF Publish, PublishFails, Fetched
  <2>2. ~stopped /\ Era = generation
    BY <1>1, <2>1, CatalogAssumption DEF GenerationsFit, LockMatchesPass, Era
  <2>3. \A s \in Slot : Rechecked[s] \in {NULL, pass.staged[s]}
    BY DEF Rechecked
  <2>4. Rechecked \in [Slot -> Entry \cup {NULL}]
    <3>1. \A s \in Slot : pass.staged[s] \in Entry \cup {NULL}
      BY <1>1 DEF Pass
    <3>2. QED
      BY <2>3, <3>1 DEF Rechecked
  <2>5. slots' = slots \/ (pass.gen = generation /\ slots' = Rechecked)
    BY <1>4 DEF Publish, PublishFails
  <2>6. pass.gen = generation => \A s \in Slot : Rechecked[s] # NULL => Rechecked[s].gen = Era
    BY <1>1, <2>2, <2>3 DEF Fits
  <2>7. bg.at # "over"
    BY <1>1, <2>2 DEF GenerationsFit
  <2>8. QED
    BY <1>2, <2>1, <2>4, <2>5, <2>6, <2>7, LeaveStep
<1>5. CASE RecoveryTimesOut
  <2>1. slots' = slots /\ Leave("rec")
    BY <1>5 DEF RecoveryTimesOut
  <2>2. \/ lock = "rec" /\ lock' = NULL /\ pass' = NoPass
        \/ lock # "rec" /\ UNCHANGED <<lock, pass>>
    BY <1>1, <1>5 DEF RecoveryTimesOut, LockMatchesPass
  <2>3. QED
    BY <1>2, <2>1, <2>2, LeaveStep
<1>6. QED
  BY <1>3, <1>4, <1>5

LEMMA ResetStep == CatalogInvariant /\ Reset => CatalogInvariant'
<1> SUFFICES ASSUME CatalogInvariant, Reset PROVE CatalogInvariant'
  OBVIOUS
<1>1. /\ TypeOK /\ LockMatchesPass /\ GenerationsFit /\ pass \in Pass
      /\ pass.gen <= generation /\ generation \in Nat /\ \A s \in Slot : Fits(s)
  BY Facts
<1>2. /\ ~stopped /\ generation < MaxResets /\ generation' = generation + 1
      /\ UNCHANGED <<file, enabled, due, stopped, bg, recent>>
      /\ rec' = [rec EXCEPT !.at = "none"] /\ waiting' = 0
      /\ slots' = [s \in Slot |-> NULL] /\ seen' = [s \in Slot |-> NULL]
      /\ auth' = [s \in Slot |-> NULL] /\ wake' = TRUE /\ news' = TRUE
  BY DEF Reset, AbortRecovery, Schedule
<1>3. \/ lock = "rec" /\ lock' = NULL /\ pass' = NoPass
      \/ lock # "rec" /\ UNCHANGED <<lock, pass>>
  BY DEF Reset
<1>4. rec' \in [at : {"none", "begin", "pass"}, gen : 0..(MaxResets + 1)] /\ rec'.at = "none"
  BY <1>1, <1>2 DEF TypeOK
<1>5. /\ pass' \in Pass /\ pass'.gen < generation'
      /\ \A s \in Slot : pass'.stage[s] = "fetch" => pass'.got[s] \in Tokens
  <2>1. CASE pass' = NoPass
    <3>1. pass' \in Pass /\ pass'.gen = 0 /\ \A s \in Slot : pass'.stage[s] = "todo"
      BY <2>1, NoPassIs
    <3>2. QED
      BY <1>1, <1>2, <3>1
  <2>2. CASE pass' = pass
    BY <1>1, <1>2, <2>2 DEF Fits, Pass
  <2>3. QED
    BY <1>3, <2>1, <2>2
<1>6. TypeOK'
  BY <1>1, <1>2, <1>3, <1>4, <1>5, CatalogAssumption DEF TypeOK
<1>7. LockMatchesPass'
  BY <1>1, <1>2, <1>3, <1>4, CatalogAssumption DEF LockMatchesPass
<1>8. WaitersHaveTask' /\ NoLostWake' /\ (news' => wake')
  BY <1>2 DEF WaitersHaveTask, NoLostWake
<1>9. GenerationsFit'
  <2>1. generation' <= MaxResets
    BY <1>1, <1>2, CatalogAssumption
  <2>2. pass'.gen <= generation' /\ pass'.gen # generation'
    BY <1>1, <1>2, <1>5 DEF Pass
  <2>3. \A s \in Slot : slots'[s] = NULL
    BY <1>2
  <2>4. (bg'.at = "over" <=> stopped') /\ rec'.at = "none"
    BY <1>1, <1>2, <1>4 DEF GenerationsFit
  <2>5. QED
    BY <1>5, <2>1, <2>2, <2>3, <2>4 DEF GenerationsFit
<1>10. QED
  BY <1>6, <1>7, <1>8, <1>9 DEF CatalogInvariant, TasksAgree

LEMMA StopStep == CatalogInvariant /\ Stop => CatalogInvariant'
<1> SUFFICES ASSUME CatalogInvariant, Stop PROVE CatalogInvariant'
  OBVIOUS
<1>1. /\ TypeOK /\ GenerationsFit /\ (news => wake) /\ generation \in Nat
  BY Facts
<1>2. /\ ~stopped /\ stopped' = TRUE /\ generation' = generation + 1
      /\ UNCHANGED <<slotVars, slots, wake, news, recent>>
      /\ rec' = [rec EXCEPT !.at = "none"] /\ waiting' = 0
      /\ bg' = [bg EXCEPT !.at = "over"] /\ lock' = NULL /\ pass' = NoPass
  BY DEF Stop, AbortRecovery
<1>3. /\ rec' \in [at : {"none", "begin", "pass"}, gen : 0..(MaxResets + 1)] /\ rec'.at = "none"
      /\ bg' \in [at : {"sleep", "begin", "pass", "over"}, gen : 0..(MaxResets + 1)]
      /\ bg'.at = "over"
  BY <1>1, <1>2 DEF TypeOK
<1>4. generation' \in 0..(MaxResets + 1)
  BY <1>1, <1>2, CatalogAssumption DEF GenerationsFit
<1>5. TypeOK'
  BY <1>1, <1>2, <1>3, <1>4, NoPassIs, CatalogAssumption DEF TypeOK, slotVars
<1>6. TasksAgree' /\ (news' => wake')
  BY <1>1, <1>2, <1>3, CatalogAssumption
     DEF TasksAgree, LockMatchesPass, WaitersHaveTask, NoLostWake
<1>7. GenerationsFit'
  <2>1. Era' = Era /\ Era = generation
    BY <1>1, <1>2 DEF Era
  <2>2. \A s \in Slot : slots'[s] # NULL => slots'[s].gen = Era'
    BY <1>1, <1>2, <2>1 DEF GenerationsFit
  <2>3. pass'.gen = 0 /\ generation' # 0 /\ \A s \in Slot : pass'.stage[s] = "todo"
    BY <1>1, <1>2, NoPassIs
  <2>4. QED
    BY <1>1, <1>2, <1>3, <2>2, <2>3 DEF GenerationsFit
<1>8. QED
  BY <1>5, <1>6, <1>7 DEF CatalogInvariant

LEMMA InitInv == Init => CatalogInvariant
<1> SUFFICES ASSUME Init PROVE CatalogInvariant
  OBVIOUS
<1>1. TypeOK
  <2>1. file \in [Slot -> Source]
    <3>1. \A a \in Initial : [ver |-> 0, acct |-> a] \in Source
      BY CatalogAssumption DEF Source
    <3>2. QED
      BY <3>1 DEF Init
  <2>2. /\ seen \in [Slot -> 0..MaxLogins \cup {NULL}] /\ auth \in [Slot -> Account \cup {NULL}]
        /\ enabled \in [Slot -> BOOLEAN] /\ due \in [Slot -> BOOLEAN]
        /\ slots \in [Slot -> Entry \cup {NULL}]
    BY DEF Init
  <2>3. 0 \in 0..(MaxResets + 1) /\ 0 \in 0..MaxWaiters
    BY CatalogAssumption
  <2>4. QED
    BY <2>1, <2>2, <2>3, NoPassIs DEF Init, TypeOK
<1>2. TasksAgree /\ (news => wake)
  BY CatalogAssumption DEF Init, TasksAgree, NoLostWake, WaitersHaveTask, LockMatchesPass
<1>3. GenerationsFit
  BY NoPassIs, CatalogAssumption DEF Init, GenerationsFit
<1>4. QED
  BY <1>1, <1>2, <1>3 DEF CatalogInvariant

LEMMA NextInv == CatalogInvariant /\ [Next]_vars => CatalogInvariant'
<1> SUFFICES ASSUME CatalogInvariant, [Next]_vars PROVE CatalogInvariant'
  OBVIOUS
<1>1. CASE Surroundings
  BY <1>1, SurroundingsStep
<1>2. CASE BgWakes
  BY <1>2, BgWakesStep
<1>3. CASE PassObsolete \/ RecoveryTimesOut
  BY <1>3, PassLeavesStep
<1>4. CASE \E task \in {"bg", "rec"} : PassBegins(task)
  BY <1>4, PassBeginsStep
<1>5. CASE PassStep
  BY <1>5, SlotStep, PassLeavesStep DEF PassStep
<1>6. CASE Recover \/ CancelWaiter \/ MinutePasses
  BY <1>6, RecoverStep
<1>7. CASE Reset
  BY <1>7, ResetStep
<1>8. CASE Stop
  BY <1>8, StopStep
<1>9. CASE Stopped \/ UNCHANGED vars
  <2>1. UNCHANGED <<file, seen, auth, enabled, due, slots, generation, stopped, wake, news,
                    bg, rec, recent, lock, pass, waiting>>
    BY <1>9 DEF Stopped, vars, slotVars, taskVars
  <2>2. TypeOK' /\ TasksAgree' /\ GenerationsFit' /\ (news' => wake')
    BY <2>1, Facts DEF TypeOK, TasksAgree, NoLostWake, WaitersHaveTask, LockMatchesPass,
                       GenerationsFit, Era
  <2>3. QED
    BY <2>2 DEF CatalogInvariant
<1>10. QED
  BY <1>1, <1>2, <1>3, <1>4, <1>5, <1>6, <1>7, <1>8, <1>9 DEF Next

-----------------------------------------------------------------------------
(* Tasks, lock, wake-up, requests and generations fit together at every    *)
(* await, whatever is cancelled, reset, expires or fails.                  *)
THEOREM CatalogIsConsistent == Spec => []CatalogInvariant
  BY InitInv, NextInv, PTL DEF Spec

(* No wake-up is lost at the end of a pass, no request waits in recover()  *)
(* for a task that is gone, and the lock is that of the pass under way.    *)
THEOREM TasksStayInStep == Spec => []TasksAgree
<1>1. CatalogInvariant => TasksAgree
  BY DEF CatalogInvariant
<1>2. QED
  BY <1>1, CatalogIsConsistent, PTL

-----------------------------------------------------------------------------
(***************************************************************************)
(* The refinement: publishing is a write of the register, a reset a new    *)
(* era, and every other step lets the world change and revokes entries.    *)
(***************************************************************************)
LEMMA UsableTyped == TypeOK => Usable \in [Slot -> Tokens \cup {NULL}]
<1> SUFFICES ASSUME TypeOK, NEW s \in Slot PROVE UsableIdentity(s) \in Tokens \cup {NULL}
  BY DEF Usable
<1>1. auth[s] \in Account \cup {NULL} /\ file[s].ver \in 0..MaxLogins
  BY DEF TypeOK, Source
<1>2. QED
  BY <1>1 DEF UsableIdentity, Tokens

LEMMA UsableStaysTyped == TypeOK' => Usable' \in [Slot -> Tokens \cup {NULL}]
<1> SUFFICES ASSUME TypeOK', NEW s \in Slot PROVE UsableIdentity(s)' \in Tokens \cup {NULL}
  BY DEF Usable
<1>1. auth'[s] \in Account \cup {NULL} /\ file'[s].ver \in 0..MaxLogins
  BY DEF TypeOK, Source
<1>2. QED
  BY <1>1 DEF UsableIdentity, Tokens

LEMMA ChangeStep ==
  ASSUME TypeOK', Era' = Era, \A s \in Slot : slots'[s] \in {slots[s], NULL}
  PROVE  Register!Change
<1>1. Usable' \in [Slot -> Tokens \cup {NULL}]
  BY UsableStaysTyped
<1>2. \A s \in Slot : Observed'[s] \in {Observed[s], NULL}
  BY DEF Observed
<1>3. QED
  BY <1>1, <1>2 DEF Register!Change, Register!Revoked

LEMMA WriteStep ==
  ASSUME CatalogInvariant, Publish, pass.gen = generation
  PROVE  Register!Write
<1>1. /\ lock # NULL /\ slots' = Rechecked /\ UNCHANGED <<slotVars, generation, stopped>>
  BY DEF Publish, Fetched
<1>2. ~stopped /\ Era = generation /\ UNCHANGED <<Usable, Era>>
  <2>1. ~stopped
    BY <1>1, Facts, CatalogAssumption DEF GenerationsFit, LockMatchesPass, TypeOK
  <2>2. QED
    BY <1>1, <2>1 DEF Era, Usable, UsableIdentity, slotVars
<1>3. ASSUME NEW s \in Slot, Rechecked[s] # NULL
      PROVE  Usable[s] # NULL /\ Observed'[s] = [about |-> Usable[s], era |-> Era]
  <2> DEFINE e == pass.staged[s]
  <2>1. enabled[s] /\ Current(s, e, auth[s]) /\ e # NULL /\ Rechecked[s] = e
    BY <1>3 DEF Rechecked
  <2>2. e.gen = generation
    BY <2>1, Facts DEF Fits
  <2>3. Usable[s] = [acct |-> e.acct, ver |-> e.ver]
    BY <2>1 DEF Usable, UsableIdentity, Current
  <2>4. Observed'[s] = [about |-> Usable[s], era |-> Era]
    BY <1>1, <1>2, <2>1, <2>2, <2>3 DEF Observed, Identified
  <2>5. [acct |-> e.acct, ver |-> e.ver] \in Tokens
    <3>1. auth[s] \in Account \cup {NULL} /\ file[s].ver \in 0..MaxLogins
      BY Facts DEF TypeOK, Source
    <3>2. QED
      BY <2>1, <3>1 DEF Current, Tokens
  <2>6. QED
    BY <2>3, <2>4, <2>5, AbsentAssumption
<1>4. ASSUME NEW s \in Slot
      PROVE  Observed'[s] \in {NULL} \cup
               (IF Usable[s] = NULL THEN {} ELSE {[about |-> Usable[s], era |-> Era]})
  <2>1. CASE Rechecked[s] = NULL
    BY <1>1, <2>1 DEF Observed
  <2>2. CASE Rechecked[s] # NULL
    BY <1>3, <2>2
  <2>3. QED
    BY <2>1, <2>2
<1>5. QED
  BY <1>2, <1>4 DEF Register!Write

LEMMA NewEraStep == TypeOK' /\ Reset => Register!NewEra
<1> SUFFICES ASSUME TypeOK', Reset PROVE Register!NewEra
  OBVIOUS
<1>1. Usable' \in [Slot -> Tokens \cup {NULL}]
  BY UsableStaysTyped
<1>2. Era' = Era + 1
  BY DEF Reset, Era
<1>3. Observed' = [s \in Slot |-> NULL]
  BY DEF Reset, Observed
<1>4. QED
  BY <1>1, <1>2, <1>3 DEF Register!NewEra

LEMMA NextRegister ==
  CatalogInvariant /\ TypeOK' /\ [Next]_vars => [Register!Next]_(Register!vars)
<1> SUFFICES ASSUME CatalogInvariant, TypeOK', Next PROVE Register!Next
  BY DEF vars, slotVars, Register!vars, Usable, UsableIdentity, Era, Observed
<1>1. CASE Publish /\ pass.gen = generation
  BY <1>1, WriteStep DEF Register!Next
<1>2. CASE Reset
  BY <1>2, NewEraStep DEF Register!Next
<1>3. CASE Stop
  <2>1. Era' = Era /\ slots' = slots
    BY <1>3, Facts DEF Stop, Era
  <2>2. QED
    BY <2>1, ChangeStep DEF Register!Next
<1>4. ASSUME UNCHANGED <<generation, stopped>>, \A s \in Slot : slots'[s] \in {slots[s], NULL}
      PROVE  Register!Next
  BY <1>4, ChangeStep DEF Register!Next, Era
<1>5. slots \in [Slot -> Entry \cup {NULL}]
  BY Facts DEF TypeOK
<1>6. CASE Surroundings
  BY <1>4, <1>5, <1>6 DEF Surroundings, Login, Detect, Adopt, RoutingChanges, InvalidateSlot,
                          Lookup, Expire, slotVars
<1>7. CASE BgWakes \/ PassObsolete \/ Recover \/ CancelWaiter \/ RecoveryTimesOut \/ MinutePasses
  BY <1>4, <1>7 DEF BgWakes, PassObsolete, Recover, CancelWaiter, RecoveryTimesOut, MinutePasses
<1>8. CASE \E task \in {"bg", "rec"} : PassBegins(task)
  BY <1>4, <1>8 DEF PassBegins
<1>9. ASSUME NEW s \in Slot, \/ SkipDisabled(s) \/ LoadBegins(s) \/ LoadFails(s)
                             \/ LoadEnds(s) \/ FetchFails(s) \/ FetchEnds(s)
      PROVE  Register!Next
  BY <1>4, <1>5, <1>9 DEF SkipDisabled, LoadBegins, LoadFails, LoadEnds, FetchFails, FetchEnds
<1>10. CASE PublishFails \/ (Publish /\ pass.gen # generation)
  BY <1>4, <1>10 DEF PublishFails, Publish
<1>11. CASE Stopped
  BY <1>4, <1>11 DEF Stopped, vars
<1>12. QED
  BY <1>1, <1>2, <1>3, <1>6, <1>7, <1>8, <1>9, <1>10, <1>11 DEF Next, PassStep

(* Discovery implements the register: whatever is published was fetched    *)
(* after the last reset and belongs to the credential that its slot has at *)
(* that moment, although credentials, auth files and overrides change      *)
(* between the fetch and the publication (_refresh(), publish_catalog()).  *)
THEOREM CatalogImplementsRegister == Spec => ImplementsRegister
<1>1. Init => Register!Init
  <2> SUFFICES ASSUME Init PROVE Register!Init
    OBVIOUS
  <2>1. Usable \in [Slot -> Tokens \cup {NULL}]
    BY InitInv, UsableTyped DEF CatalogInvariant
  <2>2. Era = 0 /\ Observed = [s \in Slot |-> NULL]
    BY DEF Init, Era, Observed
  <2>3. QED
    BY <2>1, <2>2 DEF Register!Init
<1>2. CatalogInvariant => TypeOK
  BY DEF CatalogInvariant
<1>3. QED
  BY <1>1, <1>2, CatalogIsConsistent, NextRegister, PTL DEF Spec, ImplementsRegister, Register!Spec
=============================================================================
