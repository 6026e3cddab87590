---------------------------- MODULE DomainProofs ----------------------------
(***************************************************************************)
(* Proofs about what lives in a trusted domain: the causal studies of      *)
(* Causality, and the issuers of Ingress in the second part.               *)
(*                                                                         *)
(* The invariant of the studies is about one study at a time: its record,  *)
(* its escrow, its effects and its handles (Sound), besides what the       *)
(* studies of a domain share (Audited).  A publication either leaves a     *)
(* study as it was or is one of a few changes of it (PublicationOutcome),  *)
(* so that most lemmas are about records and not about steps.              *)
(***************************************************************************)
EXTENDS Causality, Ingress, FiniteSetTheorems, TLAPS

Fields  == {"state", "revision", "environment", "slots", "requests", "issued",
            "pending", "rces", "report"}
Permits == {"state", "revision", "snapshot", "input"}

StepsIn(X) == DOMAIN X \ {Opened}
SpentIn(E) == {u \in DOMAIN E : E[u] = "CONSUMED"}

(* The records of a study have the fields they were made with.             *)
Shaped(s, S, E, X) ==
  /\ DOMAIN S = Fields /\ S.revision \in Nat
  /\ DOMAIN S.slots = Slots
  /\ DOMAIN S.pending \subseteq Computes[s]
  /\ \A u \in DOMAIN S.pending : DOMAIN S.pending[u] = Permits
  /\ \A o \in DOMAIN S.rces : DOMAIN S.rces[o] = {"state", "bundle", "result"}
  /\ \A key \in DOMAIN S.issued : key[1] \notin {"STUDY", "RCE"}
  /\ DOMAIN E = Frontier[s]
  /\ Opened \in DOMAIN X /\ StepsIn(X) \subseteq Frontier[s]
  /\ IsFiniteSet(StepsIn(X))

(* What AccountsAgree says of one study.                                   *)
Accounted(s, S, E, X) ==
  /\ S.state = "ACTIVE" =>
       /\ SpentIn(E) = StepsIn(X) \cup DOMAIN S.pending
                         \cup {u \in Computes[s] : Publisher(u) \in StepsIn(X)}
       /\ S.revision = Cardinality(StepsIn(X))
  /\ StepsIn(X) \subseteq SpentIn(E)
  /\ S.state # "ACTIVE" => \A u \in DOMAIN E : E[u] # "RESERVED"

(* The case that was issued as n may be admitted.                          *)
Admissible(S, n) ==
  LET slot  == SlotOf(n)
      peers == {p \in Slots : <<slot, p>> \in Independent \/ <<p, slot>> \in Independent}
  IN /\ CaseKey(n) \in DOMAIN S.issued
     /\ IF Admitted(S, slot)
        THEN ~S.slots[slot].measured /\ Attempt(n) = S.slots[slot].attempt + 1
        ELSE Attempt(n) = 0
     /\ \A p \in peers : S.slots[p].occurrence # S.issued[CaseKey(n)].occurrence

(* A permit of the current revision computes what may still be published.  *)
Fresh(S, u) ==
  /\ S.pending[u].revision \in Nat /\ S.pending[u].revision <= S.revision
  /\ S.pending[u].state # "RETIRED" /\ S.pending[u].revision = S.revision =>
       /\ u[1] = "CLASSIFY_CASE" => Admissible(S, u[2])
       /\ u[1] = "COMPARE_CASES" => S.pending[u].input = S.slots

Separate(s, S) ==
  S.state = "ACTIVE" /\ ~Replays(s) =>
    \A pair \in Independent : Admitted(S, pair[1]) =>
      S.slots[pair[1]].occurrence # S.slots[pair[2]].occurrence

Over(S) == S.state # "ACTIVE" => S = Study(S.state, S.revision, S.environment)

Sound(s, S, E, X) ==
  /\ Shaped(s, S, E, X) /\ Accounted(s, S, E, X) /\ Separate(s, S) /\ Over(S)
  /\ \A u \in DOMAIN S.pending : Fresh(S, u)

(* The handles of a study, and those the registry lists.                   *)
Owned(s, S) ==
  IF S.state = "ACTIVE"
  THEN TokensOf(s, S)
         \ {RceToken(s, o) : o \in {r \in DOMAIN S.rces : S.rces[r].state = "TERMINAL"}}
  ELSE {}

ListedOf(s) == {x \in tokens : x[1] = s}

Listed ==
  /\ \A x \in tokens : x[1] \in Known
  /\ \A s \in Known : ListedOf(s) = Owned(s, study[s])

Typed ==
  /\ Known \subseteq Studies /\ DOMAIN escrow = Known /\ DOMAIN commits = Known
  /\ DOMAIN domain = {"revision", "closed", "sequence", "contrasts"}

(* A call that is under way is about a computation of a study.             *)
Calling ==
  /\ DOMAIN call = Threads
  /\ \A t \in Threads :
       /\ DOMAIN call[t] = {"at", "study", "unit"}
       /\ call[t].at # "idle" => call[t].study \in Known /\ call[t].unit \in Computes[call[t].study]
       /\ call[t].at = "attach" => call[t].unit[1] = "CLASSIFY_CASE"

(* What an RCE of the study has answered, as AuditIsPublished reads it.    *)
Compared(o)   == <<"PUBLISH_REPLAY", o>>
Answers(X, o) == Compared(o) \in StepsIn(X) /\ X[Compared(o)] # None

Audited ==
  /\ \A s \in Known, o \in Rces : Answers(commits[s], o) =>
       /\ Contrasts[o] \in DOMAIN domain.contrasts
       /\ domain.contrasts[Contrasts[o]] = commits[s][Compared(o)]
  /\ \A contrast \in DOMAIN domain.contrasts :
       \E s \in Known, o \in Rces : Contrasts[o] = contrast /\ Answers(commits[s], o)

Studied == \A s \in Known : Sound(s, study[s], escrow[s], commits[s])

Inductive == Typed /\ Calling /\ Studied /\ Listed /\ Audited

-----------------------------------------------------------------------------
(* Operators.                                                              *)
LEMMA PutProperties ==
  ASSUME NEW f, NEW key, NEW value
  PROVE  /\ DOMAIN Put(f, key, value) = DOMAIN f \cup {key}
         /\ Put(f, key, value)[key] = value
         /\ \A k \in DOMAIN f : k # key => Put(f, key, value)[k] = f[k]
BY DEF Put

LEMMA StudyProperties ==
  ASSUME NEW state, NEW revision, NEW environment
  PROVE  LET S == Study(state, revision, environment)
         IN /\ DOMAIN S = Fields
            /\ S.state = state /\ S.revision = revision /\ S.environment = environment
            /\ S.slots = [slot \in Slots |-> Unseen] /\ S.requests = {} /\ S.report = None
            /\ DOMAIN S.issued = {} /\ DOMAIN S.pending = {} /\ DOMAIN S.rces = {}
BY DEF Study, Fields

(* A computation has a step of its own that publishes it.                  *)
LEMMA PublisherProperties ==
  ASSUME NEW s \in Studies, NEW u \in Computes[s]
  PROVE  /\ u[1] = "CLASSIFY_CASE" => Publisher(u) = <<"ADMIT_CASE", u[2]>>
         /\ u[1] = "COMPARE_REPLAY" => Publisher(u) = <<"PUBLISH_REPLAY", u[2]>> /\ Replays(s)
         /\ u[1] = "COMPARE_CASES" => Publisher(u) = Finish /\ ~Replays(s)
         /\ u[1] \in {"CLASSIFY_CASE", "COMPARE_REPLAY", "COMPARE_CASES"}
         /\ Publisher(u) \in Frontier[s] /\ u \in Frontier[s]
         /\ u = <<u[1], u[2]>>
         /\ u[1] = "COMPARE_CASES" => u[2] = 0
         /\ u[1] = "COMPARE_REPLAY" => u[2] \in Rces
<1>1. /\ u[1] \in {"CLASSIFY_CASE", "COMPARE_REPLAY", "COMPARE_CASES"}
      /\ u[1] = "COMPARE_REPLAY" => Replays(s) /\ u[2] \in Rces
      /\ u[1] = "COMPARE_CASES" => ~Replays(s) /\ u[2] = 0
      /\ u = <<u[1], u[2]>>
  BY DEF Computes
<1>2. u \in Frontier[s] /\ Publisher(u) \in Frontier[s]
  BY DEF Frontier
<1>3. /\ u[1] = "CLASSIFY_CASE" => Publisher(u) = <<"ADMIT_CASE", u[2]>>
      /\ u[1] = "COMPARE_REPLAY" => Publisher(u) = <<"PUBLISH_REPLAY", u[2]>>
      /\ u[1] = "COMPARE_CASES" => Publisher(u) = Finish
  BY DEF Publisher
<1> QED BY <1>1, <1>2, <1>3

LEMMA PublishersDiffer ==
  ASSUME NEW s \in Studies, NEW u \in Computes[s], NEW v \in Computes[s],
         Publisher(u) = Publisher(v)
  PROVE  u = v
<1>1. u[1] = v[1] /\ u[2] = v[2]
  BY PublisherProperties DEF Finish
<1> QED BY <1>1, PublisherProperties

(* Steps that publish nothing that was computed.                           *)
LEMMA OtherSteps ==
  ASSUME NEW s \in Studies, NEW u \in Computes[s], NEW x
  PROVE  /\ Publisher(u) # <<"REQUEST_CASE", x>> /\ Publisher(u) # <<"OPEN_RCE", x>>
         /\ Publisher(u) # <<"ADMIT_BUNDLE", x>>
         /\ Replays(s) => Publisher(u) # Finish
         /\ u # <<"REQUEST_CASE", x>> /\ u # <<"OPEN_RCE", x>>
         /\ u # <<"ADMIT_BUNDLE", x>> /\ u # Finish
BY PublisherProperties DEF Finish

LEMMA FrontierProperties ==
  ASSUME NEW s \in Studies
  PROVE  Opened \notin Frontier[s] /\ Finish \in Frontier[s]
<1>1. \A u \in Computes[s] : u # Opened /\ Publisher(u) # Opened
  BY PublisherProperties DEF Opened, Finish
<1> QED BY <1>1 DEF Frontier, Opened, Finish

-----------------------------------------------------------------------------
(* An interrupted publication leaves everything as it was.                 *)
Parts == {"study", "contrasts", "tokens", "escrow", "commits"}

LEMMA WorldProperties ==
  ASSUME NEW s
  PROVE  /\ DOMAIN World(s) = Parts
         /\ World(s).study = study[s] /\ World(s).contrasts = domain.contrasts
         /\ World(s).tokens = tokens /\ World(s).escrow = escrow[s]
         /\ World(s).commits = commits[s]
BY DEF World, Parts

Changes(before, after, unit, payload, w) ==
  /\ DOMAIN w = Parts
  /\ w.study = [after.study EXCEPT !.revision = @ + 1]
  /\ w.contrasts = after.contrasts /\ w.tokens = after.tokens
  /\ w.escrow = [before.escrow EXCEPT ![unit] = "CONSUMED"]
  /\ w.commits = Put(before.commits, unit, payload)

Same(before, w) ==
  /\ DOMAIN w = Parts
  /\ w.study = before.study /\ w.contrasts = before.contrasts /\ w.tokens = before.tokens
  /\ w.escrow = before.escrow /\ w.commits = before.commits

LEMMA PublicationOutcome ==
  ASSUME NEW s, NEW unit, NEW payload, NEW after, NEW new,
         DOMAIN after = Parts,
         after.escrow = escrow[s], after.commits = commits[s],
         after.tokens = tokens \cup new, new \cap tokens = {},
         NEW p \in Publications(s, unit, payload, after, new)
  PROVE  /\ p.done \in BOOLEAN
         /\ p.done => Changes(World(s), after, unit, payload, p.world)
         /\ ~p.done => Same(World(s), p.world)
<1> DEFINE before == World(s)
           now(n) == Assigned(before, after, unit, payload, n)
<1>1. /\ DOMAIN before = Parts /\ before.escrow = escrow[s] /\ before.commits = commits[s]
      /\ before.tokens = tokens
  BY WorldProperties
<1>2. Changes(before, after, unit, payload, now(4))
  <2> DEFINE counted == [after EXCEPT !.study.revision = @ + 1]
             charged == [counted EXCEPT !.escrow[unit] = "CONSUMED"]
  <2>1. /\ DOMAIN counted = Parts /\ counted.study = [after.study EXCEPT !.revision = @ + 1]
        /\ counted.contrasts = after.contrasts /\ counted.tokens = after.tokens
        /\ counted.escrow = escrow[s] /\ counted.commits = commits[s]
    BY DEF Parts
  <2>2. now(4) = [charged EXCEPT !.commits = Put(@, unit, payload)]
    BY DEF Assigned
  <2> HIDE DEF counted, now, before
  <2>3. /\ DOMAIN charged = Parts /\ charged.study = counted.study
        /\ charged.contrasts = after.contrasts /\ charged.tokens = after.tokens
        /\ charged.escrow = [escrow[s] EXCEPT ![unit] = "CONSUMED"]
        /\ charged.commits = commits[s]
    BY <2>1 DEF Parts
  <2> HIDE DEF charged
  <2> QED BY <1>1, <2>1, <2>2, <2>3 DEF Changes, Parts
<1>3. ASSUME NEW n \in 0 .. 3
      PROVE  DOMAIN now(n) = Parts /\ now(n).tokens \in {tokens, tokens \cup new}
  BY <1>1 DEF Assigned, Parts
<1>4. ASSUME NEW n \in 0 .. 3, NEW reused \in BOOLEAN
      PROVE  Same(before, RolledBack(before, now(n), new, reused))
  <2>1. Revoked(now(n).tokens, before.tokens, new, reused) = tokens
    BY <1>1, <1>3 DEF Revoked
  <2> HIDE DEF now, before
  <2> QED BY <1>1, <1>3, <2>1 DEF RolledBack, Same, Parts
<1>5. \/ p = [done |-> TRUE, world |-> now(4)]
      \/ \E n \in 0 .. 3, reused \in BOOLEAN :
           p = [done |-> FALSE, world |-> RolledBack(before, now(n), new, reused)]
  BY DEF Publications
<1> HIDE DEF now, before
<1>6. CASE p = [done |-> TRUE, world |-> now(4)]
  BY <1>2, <1>6 DEF before
<1>7. CASE \E n \in 0 .. 3, reused \in BOOLEAN :
             p = [done |-> FALSE, world |-> RolledBack(before, now(n), new, reused)]
  BY <1>4, <1>7 DEF before
<1> QED BY <1>5, <1>6, <1>7

-----------------------------------------------------------------------------
(* One study: what each kind of change keeps sound.                        *)

(* The computation that a step publishes, if it publishes one.             *)
Computing(s, unit) == {u \in Computes[s] : Publisher(u) = unit}

(* A published step: its unit is spent with that of the computation it     *)
(* publishes, and no pending permit is of the new revision.                *)
LEMMA AccountsPublished ==
  ASSUME NEW s \in Studies, NEW S, NEW E, NEW X, NEW S2, NEW unit, NEW payload,
         Shaped(s, S, E, X), Accounted(s, S, E, X), S.state = "ACTIVE",
         unit \in Frontier[s], E[unit] = "RESERVED",
         S2.state = "ACTIVE", S2.revision = S.revision + 1,
         Computing(s, unit) \subseteq DOMAIN S.pending,
         DOMAIN S2.pending = DOMAIN S.pending \ Computing(s, unit)
  PROVE  LET E2 == [E EXCEPT ![unit] = "CONSUMED"]
             X2 == Put(X, unit, payload)
         IN /\ Accounted(s, S2, E2, X2)
            /\ DOMAIN E2 = Frontier[s] /\ IsFiniteSet(StepsIn(X2))
            /\ Opened \in DOMAIN X2 /\ StepsIn(X2) \subseteq Frontier[s]
            /\ unit \notin StepsIn(X) /\ StepsIn(X2) = StepsIn(X) \cup {unit}
<1> DEFINE E2 == [E EXCEPT ![unit] = "CONSUMED"]
           X2 == Put(X, unit, payload)
<1>1. unit # Opened
  BY FrontierProperties
<1>2. StepsIn(X2) = StepsIn(X) \cup {unit} /\ Opened \in DOMAIN X2
  <2>1. DOMAIN X2 = DOMAIN X \cup {unit}
    BY DEF Put
  <2> QED BY <1>1, <2>1 DEF StepsIn, Shaped
<1>3. DOMAIN E2 = Frontier[s] /\ SpentIn(E2) = SpentIn(E) \cup {unit} /\ unit \notin SpentIn(E)
  BY DEF SpentIn, Shaped
<1> HIDE DEF E2, X2
<1>4. unit \notin StepsIn(X)
  BY <1>3 DEF Accounted
<1>5. /\ IsFiniteSet(StepsIn(X2))
      /\ Cardinality(StepsIn(X2)) = Cardinality(StepsIn(X)) + 1
  BY <1>2, <1>4, FS_AddElement DEF Shaped
<1>6. Accounted(s, S2, E2, X2)
  <2>1. {u \in Computes[s] : Publisher(u) \in StepsIn(X2)}
          = {u \in Computes[s] : Publisher(u) \in StepsIn(X)}
              \cup Computing(s, unit)
    BY <1>2 DEF Computing
  <2>2. SpentIn(E2) = StepsIn(X2) \cup DOMAIN S2.pending
                        \cup {u \in Computes[s] : Publisher(u) \in StepsIn(X2)}
    BY <1>2, <1>3, <2>1 DEF Accounted
  <2>3. StepsIn(X2) \subseteq SpentIn(E2)
    BY <1>2, <1>3 DEF Accounted
  <2>4. S2.revision = Cardinality(StepsIn(X2))
    BY <1>5 DEF Accounted
  <2> QED BY <2>2, <2>3, <2>4 DEF Accounted
<1>7. StepsIn(X2) \subseteq Frontier[s]
  BY <1>2 DEF Shaped
<1> QED BY <1>2, <1>3, <1>4, <1>5, <1>6, <1>7 DEF E2, X2

LEMMA PublishedSound ==
  ASSUME NEW s \in Studies, NEW S, NEW E, NEW X, NEW S2, NEW unit, NEW payload,
         Sound(s, S, E, X), S.state = "ACTIVE",
         unit \in Frontier[s], E[unit] = "RESERVED",
         DOMAIN S2 = Fields, DOMAIN S2.slots = Slots,
         S2.state = "ACTIVE", S2.revision = S.revision + 1, S2.issued = S.issued,
         Computing(s, unit) \subseteq DOMAIN S.pending,
         DOMAIN S2.pending = DOMAIN S.pending \ Computing(s, unit),
         \A u \in DOMAIN S2.pending : S2.pending[u] = S.pending[u],
         \A o \in DOMAIN S2.rces : DOMAIN S2.rces[o] = {"state", "bundle", "result"},
         Separate(s, S2)
  PROVE  Sound(s, S2, [E EXCEPT ![unit] = "CONSUMED"], Put(X, unit, payload))
<1> DEFINE E2 == [E EXCEPT ![unit] = "CONSUMED"]
           X2 == Put(X, unit, payload)
<1>1. /\ Accounted(s, S2, E2, X2)
      /\ DOMAIN E2 = Frontier[s] /\ IsFiniteSet(StepsIn(X2))
      /\ Opened \in DOMAIN X2 /\ StepsIn(X2) \subseteq Frontier[s]
  <2>1. Shaped(s, S, E, X) /\ Accounted(s, S, E, X)
    BY DEF Sound
  <2> QED BY <2>1, AccountsPublished
<1> HIDE DEF E2, X2
<1>2. Shaped(s, S, E, X) /\ S.revision \in Nat
  BY DEF Sound, Shaped
<1>3. Shaped(s, S2, E2, X2)
  BY <1>1, <1>2 DEF Shaped
<1>4. ASSUME NEW u \in DOMAIN S2.pending
      PROVE  Fresh(S2, u)
  <2>1. Fresh(S, u) /\ S2.pending[u] = S.pending[u]
    BY DEF Sound
  <2> QED BY <1>2, <2>1 DEF Fresh
<1>5. Over(S2)
  BY DEF Over
<1> QED BY <1>1, <1>3, <1>4, <1>5 DEF Sound, E2, X2

(* The end of a study, whatever it published last.                         *)
LEMMA EndedSound ==
  ASSUME NEW s \in Studies, NEW S, NEW E, NEW X, NEW terminal, terminal # "ACTIVE",
         S.revision \in Nat, DOMAIN E = Frontier[s],
         Opened \in DOMAIN X, StepsIn(X) \subseteq Frontier[s], IsFiniteSet(StepsIn(X)),
         StepsIn(X) \subseteq SpentIn(E)
  PROVE  Sound(s, Study(terminal, S.revision + 1, S.environment), Retired(E), X)
<1> DEFINE S2 == Study(terminal, S.revision + 1, S.environment)
<1>1. /\ DOMAIN S2 = Fields /\ S2.state = terminal /\ S2.revision = S.revision + 1
      /\ S2.environment = S.environment /\ DOMAIN S2.slots = Slots
      /\ DOMAIN S2.issued = {} /\ DOMAIN S2.pending = {} /\ DOMAIN S2.rces = {}
  BY StudyProperties
<1>2. /\ DOMAIN Retired(E) = Frontier[s] /\ SpentIn(E) \subseteq SpentIn(Retired(E))
      /\ \A u \in DOMAIN Retired(E) : Retired(E)[u] # "RESERVED"
  BY DEF Retired, SpentIn
<1>3. Over(S2)
  <2>1. S2 = Study(S2.state, S2.revision, S2.environment)
    BY <1>1
  <2> QED BY <2>1 DEF Over
<1> HIDE DEF S2
<1>4. Shaped(s, S2, Retired(E), X)
  BY <1>1, <1>2 DEF Shaped
<1>5. Accounted(s, S2, Retired(E), X)
  BY <1>1, <1>2 DEF Accounted
<1>6. Separate(s, S2)
  BY <1>1 DEF Separate
<1> QED BY <1>1, <1>3, <1>4, <1>5, <1>6 DEF Sound, S2

(* A handle that is issued: what was issued before stays as it is.         *)
LEMMA IssuedSound ==
  ASSUME NEW s \in Studies, NEW S, NEW E, NEW X, NEW key, NEW value,
         Sound(s, S, E, X), S.state = "ACTIVE", key \notin DOMAIN S.issued,
         key[1] \notin {"STUDY", "RCE"}
  PROVE  Sound(s, [S EXCEPT !.issued = Put(@, key, value)], E, X)
<1> DEFINE I2 == Put(S.issued, key, value)
           S2 == [S EXCEPT !.issued = Put(@, key, value)]
<1>1. Shaped(s, S, E, X) /\ Accounted(s, S, E, X) /\ Separate(s, S)
  BY DEF Sound
<1>2. /\ DOMAIN S2 = Fields /\ S2.issued = I2 /\ S2.state = "ACTIVE"
      /\ S2.revision = S.revision /\ S2.slots = S.slots
      /\ S2.pending = S.pending /\ S2.rces = S.rces
  BY <1>1 DEF Shaped, Fields
<1>3. /\ DOMAIN I2 = DOMAIN S.issued \cup {key}
      /\ \A k \in DOMAIN S.issued : I2[k] = S.issued[k]
  BY DEF Put
<1> HIDE DEF S2, I2
<1>4. Shaped(s, S2, E, X)
  BY <1>1, <1>2, <1>3 DEF Shaped
<1>5. Accounted(s, S2, E, X)
  BY <1>1, <1>2 DEF Accounted
<1>6. Separate(s, S2)
  BY <1>1, <1>2 DEF Separate, Admitted
<1>7. ASSUME NEW u \in DOMAIN S2.pending
      PROVE  Fresh(S2, u)
  <2>1. Fresh(S, u)
    BY <1>2 DEF Sound
  <2>2. Admissible(S, u[2]) => Admissible(S2, u[2])
    BY <1>2, <1>3 DEF Admissible, Admitted
  <2> QED BY <1>2, <2>1, <2>2 DEF Fresh
<1>8. Over(S2)
  BY <1>2 DEF Over
<1> QED BY <1>4, <1>5, <1>6, <1>7, <1>8 DEF Sound, S2

(* A change of the permits of a study: none that ended comes back, and one *)
(* that is new is of the current revision.                                 *)
LEMMA PermitsSound ==
  ASSUME NEW s \in Studies, NEW S, NEW E, NEW X, NEW pending,
         Sound(s, S, E, X), DOMAIN pending = DOMAIN S.pending,
         pending = [u \in DOMAIN pending |-> pending[u]],
         \A u \in DOMAIN pending :
           /\ DOMAIN pending[u] = Permits
           /\ \/ pending[u] \in {Emptied, S.pending[u]}
              \/ /\ S.pending[u].state # "RETIRED"
                 /\ pending[u].revision = S.pending[u].revision
                 /\ pending[u].input = S.pending[u].input
  PROVE  Sound(s, [S EXCEPT !.pending = pending], E, X)
<1> DEFINE S2 == [S EXCEPT !.pending = pending]
<1>1. Shaped(s, S, E, X) /\ Accounted(s, S, E, X) /\ Separate(s, S) /\ Over(S)
  BY DEF Sound
<1>2. /\ DOMAIN S2 = Fields /\ S2.pending = pending /\ S2.state = S.state
      /\ S2.revision = S.revision /\ S2.slots = S.slots /\ S2.environment = S.environment
      /\ S2.issued = S.issued /\ S2.rces = S.rces
  BY <1>1 DEF Shaped, Fields
<1>3. S.state # "ACTIVE" => S2 = S
  <2> SUFFICES ASSUME S.state # "ACTIVE" PROVE S2 = S
    OBVIOUS
  <2>1. S = Study(S.state, S.revision, S.environment)
    BY <1>1 DEF Over
  <2>2. S.pending = <<>>
    BY <2>1 DEF Study
  <2>3. pending = S.pending
    BY <2>2
  <2> QED BY <2>1, <2>3 DEF Study
<1> HIDE DEF S2
<1>4. Shaped(s, S2, E, X)
  BY <1>1, <1>2 DEF Shaped
<1>5. Accounted(s, S2, E, X)
  BY <1>1, <1>2 DEF Accounted
<1>6. Separate(s, S2)
  BY <1>1, <1>2 DEF Separate, Admitted
<1>7. ASSUME NEW u \in DOMAIN S2.pending
      PROVE  Fresh(S2, u)
  <2>1. Fresh(S, u) /\ S.revision \in Nat
    BY <1>1, <1>2 DEF Sound, Shaped
  <2>2. Admissible(S, u[2]) => Admissible(S2, u[2])
    BY <1>2 DEF Admissible, Admitted
  <2>3. CASE pending[u] = Emptied
    BY <1>2, <2>1, <2>3 DEF Fresh, Emptied
  <2>4. CASE pending[u] # Emptied
    BY <1>2, <2>1, <2>2, <2>4 DEF Fresh
  <2> QED BY <2>3, <2>4
<1>8. Over(S2)
  BY <1>1, <1>2, <1>3 DEF Over
<1> QED BY <1>4, <1>5, <1>6, <1>7, <1>8 DEF Sound, S2

(* A computation is paid for, and its permit is of the current revision.   *)
LEMMA PreparedSound ==
  ASSUME NEW s \in Studies, NEW S, NEW E, NEW X, NEW unit \in Computes[s], NEW permit,
         Sound(s, S, E, X), S.state = "ACTIVE", unit \notin DOMAIN S.pending,
         E[unit] = "RESERVED",
         DOMAIN permit = Permits, permit.revision = S.revision,
         unit[1] = "CLASSIFY_CASE" => Admissible(S, unit[2]),
         unit[1] = "COMPARE_CASES" => permit.input = S.slots
  PROVE  Sound(s, [S EXCEPT !.pending = Put(@, unit, permit)], [E EXCEPT ![unit] = "CONSUMED"], X)
<1> DEFINE P2 == Put(S.pending, unit, permit)
           S2 == [S EXCEPT !.pending = Put(@, unit, permit)]
           E2 == [E EXCEPT ![unit] = "CONSUMED"]
<1>1. Shaped(s, S, E, X) /\ Accounted(s, S, E, X) /\ Separate(s, S)
  BY DEF Sound
<1>2. /\ DOMAIN S2 = Fields /\ S2.pending = P2 /\ S2.state = "ACTIVE"
      /\ S2.revision = S.revision /\ S2.slots = S.slots
      /\ S2.issued = S.issued /\ S2.rces = S.rces
  BY <1>1 DEF Shaped, Fields
<1>3. /\ DOMAIN P2 = DOMAIN S.pending \cup {unit} /\ P2[unit] = permit
      /\ \A u \in DOMAIN S.pending : P2[u] = S.pending[u]
  BY DEF Put
<1>4. DOMAIN E2 = Frontier[s] /\ SpentIn(E2) = SpentIn(E) \cup {unit}
  <2>1. unit \in Frontier[s]
    BY PublisherProperties
  <2> QED BY <1>1, <2>1 DEF SpentIn, Shaped
<1> HIDE DEF S2, P2, E2
<1>5. Shaped(s, S2, E2, X)
  BY <1>1, <1>2, <1>3, <1>4 DEF Shaped
<1>6. Accounted(s, S2, E2, X)
  BY <1>1, <1>2, <1>3, <1>4 DEF Accounted
<1>7. Separate(s, S2)
  BY <1>1, <1>2 DEF Separate, Admitted
<1>8. ASSUME NEW u \in DOMAIN S2.pending
      PROVE  Fresh(S2, u)
  <2>1. Admissible(S, u[2]) => Admissible(S2, u[2])
    BY <1>2 DEF Admissible, Admitted
  <2>2. CASE u = unit
    BY <1>1, <1>2, <1>3, <2>1, <2>2 DEF Fresh, Shaped
  <2>3. CASE u # unit
    <3>1. u \in DOMAIN S.pending /\ Fresh(S, u)
      BY <1>2, <1>3, <2>3 DEF Sound
    <3> QED BY <1>2, <1>3, <2>1, <3>1 DEF Fresh
  <2> QED BY <2>2, <2>3
<1>9. Over(S2)
  BY <1>2 DEF Over
<1> QED BY <1>5, <1>6, <1>7, <1>8, <1>9 DEF Sound, S2, E2

LEMMA OpenedSound ==
  ASSUME NEW s \in Studies, NEW environment
  PROVE  Sound(s, Study("ACTIVE", 0, environment), [u \in Frontier[s] |-> "RESERVED"],
               [u \in {Opened} |-> None])
<1> DEFINE S == Study("ACTIVE", 0, environment)
           E == [u \in Frontier[s] |-> "RESERVED"]
           X == [u \in {Opened} |-> None]
<1>1. /\ DOMAIN S = Fields /\ S.state = "ACTIVE" /\ S.revision = 0
      /\ S.slots = [slot \in Slots |-> Unseen]
      /\ DOMAIN S.issued = {} /\ DOMAIN S.pending = {} /\ DOMAIN S.rces = {}
  BY StudyProperties
<1>2. DOMAIN E = Frontier[s] /\ SpentIn(E) = {}
  BY DEF SpentIn
<1>3. Opened \in DOMAIN X /\ StepsIn(X) = {}
  BY DEF StepsIn
<1> HIDE DEF S, E, X
<1>4. Shaped(s, S, E, X)
  BY <1>1, <1>2, <1>3, FS_EmptySet DEF Shaped
<1>5. Accounted(s, S, E, X)
  BY <1>1, <1>2, <1>3, FS_EmptySet DEF Accounted
<1>6. Separate(s, S)
  <2> SUFFICES ASSUME NEW pair \in Independent PROVE ~Admitted(S, pair[1])
    BY DEF Separate
  <2>1. pair[1] \in Slots
    BY CausalityAssumption
  <2> QED BY <1>1, <2>1 DEF Admitted, Unseen
<1> QED BY <1>1, <1>4, <1>5, <1>6 DEF Sound, Over, S, E, X

-----------------------------------------------------------------------------
(* Steps: what they do to the studies they are not about.                  *)
Still(r) == study'[r] = study[r] /\ escrow'[r] = escrow[r] /\ commits'[r] = commits[r]

LEMMA BecomesProperties ==
  ASSUME Typed, NEW s \in Known, NEW w, Becomes(s, w)
  PROVE  /\ Known' = Known /\ DOMAIN escrow' = Known /\ DOMAIN commits' = Known
         /\ Typed'
         /\ study'[s] = w.study /\ escrow'[s] = w.escrow /\ commits'[s] = w.commits
         /\ tokens' = w.tokens /\ domain'.contrasts = w.contrasts
         /\ domain'.revision = domain.revision /\ domain'.closed = domain.closed
         /\ domain'.sequence = domain.sequence
         /\ \A r \in Known : r # s => Still(r)
<1>1. /\ study' = [study EXCEPT ![s] = w.study]
      /\ domain' = [domain EXCEPT !.contrasts = w.contrasts]
      /\ tokens' = w.tokens
      /\ escrow' = [escrow EXCEPT ![s] = w.escrow]
      /\ commits' = [commits EXCEPT ![s] = w.commits]
  BY DEF Becomes
<1>2. /\ Known' = Known /\ DOMAIN escrow' = Known /\ DOMAIN commits' = Known
      /\ \A r \in Known : r # s => Still(r)
      /\ study'[s] = w.study /\ escrow'[s] = w.escrow /\ commits'[s] = w.commits
  BY <1>1 DEF Typed, Known, Still
<1>3. /\ DOMAIN domain' = DOMAIN domain /\ domain'.contrasts = w.contrasts
      /\ domain'.revision = domain.revision /\ domain'.closed = domain.closed
      /\ domain'.sequence = domain.sequence
  BY <1>1 DEF Typed
<1>4. Typed'
  BY <1>2, <1>3 DEF Typed
<1> QED BY <1>1, <1>2, <1>3, <1>4

LEMMA StudiedStep ==
  ASSUME Studied, NEW s, Known' \subseteq Known \cup {s},
         \A r \in Known : r # s => Still(r),
         Sound(s, study'[s], escrow'[s], commits'[s])
  PROVE  Studied'
BY DEF Studied, Still

(* A step that concerns the handles of one study.                          *)
LEMMA RegisteredStep ==
  ASSUME Listed, NEW s, Known' = Known \cup {s},
         \A r \in Known : r # s => study'[r] = study[r],
         \A x \in tokens \cup tokens' : x[1] # s => (x \in tokens <=> x \in tokens'),
         {x \in tokens' : x[1] = s} = Owned(s, study'[s])
  PROVE  Listed'
<1>1. \A x \in tokens' : x[1] \in Known'
  BY DEF Listed
<1>2. ASSUME NEW r \in Known'
      PROVE  ListedOf(r)' = Owned(r, study'[r])
  <2>1. CASE r = s
    BY <2>1 DEF ListedOf
  <2>2. CASE r # s
    <3>1. ListedOf(r)' = ListedOf(r)
      BY <2>2 DEF ListedOf
    <3>2. ListedOf(r) = Owned(r, study[r]) /\ study'[r] = study[r]
      BY <2>2 DEF Listed
    <3> QED BY <3>1, <3>2
  <2> QED BY <2>1, <2>2
<1>3. ASSUME NEW r \in Known'
      PROVE  Owned(r, study[r])' = Owned(r, study'[r])
  OBVIOUS
<1> QED BY <1>1, <1>2, <1>3 DEF Listed

LEMMA AuditedIsPublished == Audited <=> AuditIsPublished
BY DEF Audited, AuditIsPublished, Answers, Compared, Steps, StepsIn

(* Nothing is published of an RCE, and the audit is as it was.             *)
LEMMA AuditStays ==
  ASSUME Audited, Known \subseteq Known', domain'.contrasts = domain.contrasts,
         \A s \in Known', o \in Rces :
           Answers(commits'[s], o) <=> s \in Known /\ Answers(commits[s], o),
         \A s \in Known, o \in Rces :
           Answers(commits[s], o) => commits'[s][Compared(o)] = commits[s][Compared(o)]
  PROVE  Audited'
<1>1. ASSUME NEW s \in Known', NEW o \in Rces, Answers(commits'[s], o)
      PROVE  /\ Contrasts[o] \in DOMAIN domain'.contrasts
             /\ domain'.contrasts[Contrasts[o]] = commits'[s][Compared(o)]
  BY <1>1 DEF Audited
<1>2. ASSUME NEW contrast \in DOMAIN domain'.contrasts
      PROVE  \E s \in Known', o \in Rces :
               Contrasts[o] = contrast /\ Answers(commits'[s], o)
  <2>1. PICK s \in Known, o \in Rces : Contrasts[o] = contrast /\ Answers(commits[s], o)
    BY DEF Audited
  <2> QED BY <2>1
<1>3. ASSUME NEW s, NEW o
      PROVE  Answers(commits[s], o)' <=> Answers(commits'[s], o)
  BY DEF Answers
<1> QED BY <1>1, <1>2, <1>3 DEF Audited

LEMMA CallsStay ==
  ASSUME Calling, Known \subseteq Known', UNCHANGED call
  PROVE  Calling'
BY DEF Calling

LEMMA CallsLeave ==
  ASSUME Calling, Known \subseteq Known', NEW t \in Threads, Leave(t)
  PROVE  Calling'
<1>1. call' = [call EXCEPT ![t] = Resting]
  BY DEF Leave
<1>2. DOMAIN Resting = {"at", "study", "unit"} /\ Resting.at = "idle"
  BY DEF Resting
<1> QED BY <1>1, <1>2 DEF Calling

LEMMA CallsMove ==
  ASSUME Calling, Known \subseteq Known', NEW t \in Threads, NEW where, At(t, where),
         call[t].at # "idle", where = "attach" => call[t].unit[1] = "CLASSIFY_CASE"
  PROVE  Calling'
<1>1. call' = [call EXCEPT ![t].at = where]
  BY DEF At
<1>2. /\ DOMAIN call'[t] = {"at", "study", "unit"}
      /\ call'[t].study = call[t].study /\ call'[t].unit = call[t].unit /\ call'[t].at = where
      /\ DOMAIN call' = Threads /\ \A r \in Threads : r # t => call'[r] = call[r]
  BY <1>1 DEF Calling
<1> QED BY <1>2 DEF Calling

LEMMA QuietKeeps ==
  ASSUME Inductive, UNCHANGED <<domain, tokens, study, escrow, commits>>, Calling'
  PROVE  Inductive'
<1>1. Typed'
  BY DEF Inductive, Typed, Known
<1>2. Studied'
  BY DEF Inductive, Studied, Known
<1>3. Listed'
  BY DEF Inductive, Listed, Known, ListedOf
<1>4. Audited'
  BY DEF Inductive, Audited, Known
<1> QED BY <1>1, <1>2, <1>3, <1>4 DEF Inductive

(* The live study of a handle.                                             *)
LEMMA LiveProperties ==
  ASSUME Inductive, NEW s, Live(s)
  PROVE  /\ s \in Known /\ s \in Studies /\ study[s].state = "ACTIVE"
         /\ Sound(s, study[s], escrow[s], commits[s])
         /\ Shaped(s, study[s], escrow[s], commits[s])
         /\ ListedOf(s) = Owned(s, study[s])
BY DEF Live, Inductive, Typed, Studied, Listed, Sound

LEMMA OwnedSame ==
  ASSUME NEW s, NEW S, NEW S2, S2.state = S.state, S2.issued = S.issued,
         DOMAIN S2.rces = DOMAIN S.rces,
         \A o \in DOMAIN S.rces : S2.rces[o].state = S.rces[o].state
  PROVE  Owned(s, S2) = Owned(s, S)
BY DEF Owned, TokensOf, Issued

LEMMA AnswersKept ==
  ASSUME NEW X, NEW unit, NEW payload, NEW o, unit # Compared(o)
  PROVE  /\ Answers(Put(X, unit, payload), o) <=> Answers(X, o)
         /\ Answers(X, o) => Put(X, unit, payload)[Compared(o)] = X[Compared(o)]
BY DEF Answers, StepsIn, Put

(* One study is changed, and what it shares with others follows.           *)
LEMMA ChangeKeeps ==
  ASSUME Inductive, NEW s \in Known, NEW w, Becomes(s, w),
         Sound(s, w.study, w.escrow, w.commits),
         \A x \in tokens \cup w.tokens : x[1] # s => (x \in tokens <=> x \in w.tokens),
         {x \in w.tokens : x[1] = s} = Owned(s, w.study),
         Audited', Calling'
  PROVE  Inductive'
<1>1. /\ Typed' /\ Known' = Known /\ tokens' = w.tokens
      /\ study'[s] = w.study /\ escrow'[s] = w.escrow /\ commits'[s] = w.commits
      /\ \A r \in Known : r # s => Still(r)
  BY BecomesProperties DEF Inductive
<1>2. Studied'
  BY <1>1, StudiedStep DEF Inductive
<1>3. Listed'
  <2>1. Known' = Known \cup {s} /\ \A r \in Known : r # s => study'[r] = study[r]
    BY <1>1 DEF Still
  <2> QED BY <1>1, <2>1, RegisteredStep DEF Inductive
<1> QED BY <1>1, <1>2, <1>3 DEF Inductive

(* The change publishes nothing of an RCE.                                 *)
LEMMA UnauditedKeeps ==
  ASSUME Inductive, NEW s \in Known, NEW w, Becomes(s, w),
         w.contrasts = domain.contrasts,
         \A o \in Rces : /\ Answers(w.commits, o) <=> Answers(commits[s], o)
                         /\ Answers(commits[s], o) =>
                              w.commits[Compared(o)] = commits[s][Compared(o)]
  PROVE  Audited'
<1>1. /\ Known' = Known /\ domain'.contrasts = domain.contrasts
      /\ commits'[s] = w.commits
      /\ \A r \in Known : r # s => commits'[r] = commits[r]
  BY BecomesProperties DEF Inductive, Still
<1>2. \A r \in Known', o \in Rces :
        Answers(commits'[r], o) <=> r \in Known /\ Answers(commits[r], o)
  BY <1>1
<1>3. \A r \in Known, o \in Rces :
        Answers(commits[r], o) => commits'[r][Compared(o)] = commits[r][Compared(o)]
  BY <1>1
<1> QED BY <1>1, <1>2, <1>3, AuditStays DEF Inductive

(* A publication that was interrupted.                                     *)
LEMMA SameKeeps ==
  ASSUME Inductive, NEW s \in Known, NEW w, Becomes(s, w), Same(World(s), w), Calling'
  PROVE  /\ Inductive' /\ Known' = Known /\ \A r \in Known : Still(r)
         /\ tokens' = tokens
<1>1. /\ w.study = study[s] /\ w.contrasts = domain.contrasts /\ w.tokens = tokens
      /\ w.escrow = escrow[s] /\ w.commits = commits[s]
  BY WorldProperties DEF Same
<1>2. /\ Known' = Known /\ \A r \in Known : Still(r)
      /\ tokens' = tokens /\ domain'.contrasts = domain.contrasts
  BY <1>1, BecomesProperties DEF Inductive, Still
<1>3. Sound(s, w.study, w.escrow, w.commits)
  BY <1>1 DEF Inductive, Studied
<1>4. {x \in w.tokens : x[1] = s} = Owned(s, w.study)
  BY <1>1 DEF Inductive, Listed, ListedOf
<1>5. Audited'
  BY <1>1, UnauditedKeeps
<1>6. Inductive'
  BY <1>1, <1>3, <1>4, <1>5, ChangeKeeps
<1> QED BY <1>2, <1>6

-----------------------------------------------------------------------------
(* What the action properties say of one study.                            *)
Stands(s) ==
  study[s].state = "ACTIVE" =>
    /\ s \in Known' /\ study'[s].state = "ACTIVE" => \A slot \in Slots :
         LET old == study[s].slots[slot]
             new == study'[s].slots[slot]
         IN \/ new = old
            \/ ~Admitted(study[s], slot) /\ new.attempt = 0
            \/ ~old.measured /\ new.attempt = old.attempt + 1
    /\ Finish \in DOMAIN commits'[s] \ DOMAIN commits[s] =>
         commits'[s][Finish] = study[s].slots

Timely(s) ==
  StepsIn(commits'[s]) # StepsIn(commits[s]) =>
    lifecycle = "ACTIVE" /\ study[s].environment = domain.revision

Lawful == \A s \in Known : Stands(s) /\ Timely(s)

LEMMA StillLawful ==
  ASSUME NEW s, Still(s)
  PROVE  Stands(s) /\ Timely(s)
BY DEF Still, Stands, Timely

LEMMA OneLawful ==
  ASSUME NEW s, \A r \in Known : r # s => Still(r), Stands(s), Timely(s)
  PROVE  Lawful
BY StillLawful DEF Lawful

LEMMA LiveTimely ==
  ASSUME NEW s, Live(s)
  PROVE  Timely(s)
BY DEF Live, Timely

-----------------------------------------------------------------------------
(* Steps that publish nothing that was computed.                           *)
Plain(s, unit, after, new) ==
  /\ Computing(s, unit) = {} /\ unit # Finish /\ \A o \in Rces : unit # Compared(o)
  /\ DOMAIN after = Parts /\ after.escrow = escrow[s] /\ after.commits = commits[s]
  /\ after.contrasts = domain.contrasts
  /\ after.tokens = tokens \cup new /\ new \cap tokens = {} /\ \A x \in new : x[1] = s
  /\ DOMAIN after.study = Fields /\ after.study.state = "ACTIVE"
  /\ after.study.revision = study[s].revision /\ after.study.issued = study[s].issued
  /\ after.study.slots = study[s].slots /\ after.study.pending = study[s].pending
  /\ \A o \in DOMAIN after.study.rces :
       DOMAIN after.study.rces[o] = {"state", "bundle", "result"}
  /\ Owned(s, after.study) = Owned(s, study[s]) \cup new

LEMMA PublishesKeeps ==
  ASSUME Inductive, NEW s, Live(s), NEW unit \in Frontier[s], NEW payload, NEW after, NEW new,
         Plain(s, unit, after, new), Publishes(s, unit, payload, after, new)
  PROVE  Inductive' /\ Lawful
<1>0. /\ Computing(s, unit) = {} /\ unit # Finish /\ \A o \in Rces : unit # Compared(o)
      /\ DOMAIN after = Parts /\ after.escrow = escrow[s] /\ after.commits = commits[s]
      /\ after.contrasts = domain.contrasts
      /\ after.tokens = tokens \cup new /\ new \cap tokens = {} /\ \A x \in new : x[1] = s
      /\ DOMAIN after.study = Fields /\ after.study.state = "ACTIVE"
      /\ after.study.revision = study[s].revision /\ after.study.issued = study[s].issued
      /\ after.study.slots = study[s].slots /\ after.study.pending = study[s].pending
      /\ \A o \in DOMAIN after.study.rces :
           DOMAIN after.study.rces[o] = {"state", "bundle", "result"}
      /\ Owned(s, after.study) = Owned(s, study[s]) \cup new
  BY DEF Plain
<1>1. PICK p \in Publications(s, unit, payload, after, new) : Becomes(s, p.world)
  BY DEF Publishes
<1>2. Payable(s, unit) /\ UNCHANGED call
  BY DEF Publishes
<1>3. /\ s \in Known /\ s \in Studies /\ study[s].state = "ACTIVE"
      /\ Sound(s, study[s], escrow[s], commits[s])
      /\ Shaped(s, study[s], escrow[s], commits[s])
      /\ ListedOf(s) = Owned(s, study[s])
  BY LiveProperties
<1>4. Known' = Known /\ \A r \in Known : r # s => Still(r)
  BY <1>1, <1>3, BecomesProperties DEF Inductive
<1>5. Calling'
  BY <1>2, <1>4, CallsStay DEF Inductive
<1>6. /\ p.done \in BOOLEAN
      /\ p.done => Changes(World(s), after, unit, payload, p.world)
      /\ ~p.done => Same(World(s), p.world)
  BY <1>1, <1>0, PublicationOutcome
<1>7. CASE ~p.done
  <2>1. Inductive' /\ \A r \in Known : Still(r)
    BY <1>1, <1>3, <1>5, <1>6, <1>7, SameKeeps
  <2> QED BY <2>1, StillLawful DEF Lawful
<1>8. CASE p.done
  <2> DEFINE w == p.world
             S2 == [after.study EXCEPT !.revision = @ + 1]
  <2>1. /\ w.study = S2 /\ w.contrasts = domain.contrasts /\ w.tokens = tokens \cup new
        /\ w.escrow = [escrow[s] EXCEPT ![unit] = "CONSUMED"]
        /\ w.commits = Put(commits[s], unit, payload)
    BY <1>6, <1>8, <1>0, WorldProperties DEF Changes
  <2>2. /\ DOMAIN S2 = Fields /\ S2.state = "ACTIVE" /\ S2.revision = study[s].revision + 1
        /\ S2.issued = study[s].issued /\ S2.slots = study[s].slots
        /\ S2.pending = study[s].pending /\ S2.rces = after.study.rces
    BY <1>0 DEF Fields
  <2> HIDE DEF S2, w
  <2>3. Sound(s, S2, [escrow[s] EXCEPT ![unit] = "CONSUMED"], Put(commits[s], unit, payload))
    <3>1. Separate(s, S2)
      BY <1>3, <2>2 DEF Sound, Separate, Admitted
    <3>2. DOMAIN S2.slots = Slots /\ escrow[s][unit] = "RESERVED"
      BY <1>2, <1>3, <2>2 DEF Shaped, Payable
    <3>3. \A o \in DOMAIN S2.rces : DOMAIN S2.rces[o] = {"state", "bundle", "result"}
      BY <1>0, <2>2
    <3>4. /\ Computing(s, unit) \subseteq DOMAIN study[s].pending
          /\ DOMAIN S2.pending = DOMAIN study[s].pending \ Computing(s, unit)
      BY <1>0, <2>2
    <3>5. \A u \in DOMAIN S2.pending : S2.pending[u] = study[s].pending[u]
      BY <2>2
    <3> QED BY <1>3, <2>2, <3>1, <3>2, <3>3, <3>4, <3>5, PublishedSound
  <2>4. Sound(s, w.study, w.escrow, w.commits)
    BY <2>1, <2>3
  <2>5. /\ \A x \in tokens \cup w.tokens : x[1] # s => (x \in tokens <=> x \in w.tokens)
        /\ {x \in w.tokens : x[1] = s} = Owned(s, w.study)
    <3>1. Owned(s, S2) = Owned(s, after.study)
      BY <1>0, <2>2, OwnedSame
    <3> QED BY <1>3, <1>0, <2>1, <3>1 DEF ListedOf
  <2>6. Audited'
    <3>1. \A o \in Rces : /\ Answers(w.commits, o) <=> Answers(commits[s], o)
                          /\ Answers(commits[s], o) =>
                               w.commits[Compared(o)] = commits[s][Compared(o)]
      BY <1>0, <2>1, AnswersKept
    <3> QED BY <1>1, <1>3, <2>1, <3>1, UnauditedKeeps DEF w
  <2>7. Inductive'
    BY <1>1, <1>3, <1>5, <2>4, <2>5, <2>6, ChangeKeeps DEF w
  <2>8. Stands(s)
    <3>1. study'[s].slots = study[s].slots /\ commits'[s] = Put(commits[s], unit, payload)
      BY <1>1, <1>3, <2>1, <2>2, BecomesProperties DEF Inductive, w
    <3>2. Finish \notin DOMAIN commits'[s] \ DOMAIN commits[s]
      BY <1>0, <3>1 DEF Put
    <3> QED BY <3>1, <3>2 DEF Stands
  <2> QED BY <1>4, <2>7, <2>8, LiveTimely, OneLawful
<1> QED BY <1>6, <1>7, <1>8

LEMMA RequestCaseKeeps ==
  ASSUME Inductive, NEW s \in Studies, NEW slot \in Slots, RequestCase(s, slot)
  PROVE  Inductive' /\ Lawful
<1> DEFINE unit == <<"REQUEST_CASE", slot>>
           after == [World(s) EXCEPT !.study.requests = @ \cup {slot}]
<1>1. /\ Live(s) /\ Intervenes(s) /\ slot \in Executed(s)
      /\ Publishes(s, unit, None, after, {})
  BY DEF RequestCase
<1>2. unit \in Frontier[s] /\ unit # Finish /\ \A o \in Rces : unit # Compared(o)
  BY <1>1 DEF Frontier, Finish, Compared
<1>3. Computing(s, unit) = {}
  BY OtherSteps DEF Computing
<1>4. /\ Shaped(s, study[s], escrow[s], commits[s]) /\ study[s].state = "ACTIVE"
  BY <1>1, LiveProperties
<1>5. /\ DOMAIN after = Parts /\ after.escrow = escrow[s] /\ after.commits = commits[s]
      /\ after.contrasts = domain.contrasts /\ after.tokens = tokens
      /\ after.study = [study[s] EXCEPT !.requests = @ \cup {slot}]
  BY WorldProperties DEF Parts
<1>6. /\ DOMAIN after.study = Fields /\ after.study.state = "ACTIVE"
      /\ after.study.revision = study[s].revision /\ after.study.issued = study[s].issued
      /\ after.study.slots = study[s].slots /\ after.study.pending = study[s].pending
      /\ after.study.rces = study[s].rces
  BY <1>4, <1>5 DEF Shaped, Fields
<1> HIDE DEF unit, after
<1>7. Owned(s, after.study) = Owned(s, study[s])
  BY <1>4, <1>6, OwnedSame
<1>8. \A o \in DOMAIN after.study.rces :
        DOMAIN after.study.rces[o] = {"state", "bundle", "result"}
  BY <1>4, <1>6 DEF Shaped
<1>9. Plain(s, unit, after, {})
  BY <1>2, <1>3, <1>5, <1>6, <1>7, <1>8 DEF Plain
<1> QED BY <1>1, <1>2, <1>9, PublishesKeeps

(* The handle of an RCE is no other handle of its study.                   *)
LEMMA RceHandle ==
  ASSUME Inductive, NEW s, Live(s), NEW o, o \notin DOMAIN study[s].rces
  PROVE  RceToken(s, o) \notin tokens
<1>1. /\ Shaped(s, study[s], escrow[s], commits[s]) /\ ListedOf(s) = Owned(s, study[s])
  BY LiveProperties
<1>2. RceToken(s, o)[1] = s /\ RceToken(s, o) = <<s, "RCE", o, 0>>
  BY DEF RceToken
<1> SUFFICES ASSUME RceToken(s, o) \in tokens PROVE FALSE
  OBVIOUS
<1>3. RceToken(s, o) \in TokensOf(s, study[s])
  BY <1>1, <1>2 DEF ListedOf, Owned
<1>4. RceToken(s, o) # StudyToken(s)
  BY <1>2 DEF StudyToken
<1>5. RceToken(s, o) \notin Issued(s, study[s])
  BY <1>1, <1>2 DEF Issued, Shaped
<1>6. PICK r \in DOMAIN study[s].rces : RceToken(s, o) = RceToken(s, r)
  BY <1>3, <1>4, <1>5 DEF TokensOf
<1> QED BY <1>6 DEF RceToken

LEMMA OpenRceKeeps ==
  ASSUME Inductive, NEW s \in Studies, NEW o \in Rces, OpenRce(s, o)
  PROVE  Inductive' /\ Lawful
<1> DEFINE unit == <<"OPEN_RCE", o>>
           rce == [state |-> "ACTIVE", bundle |-> FALSE, result |-> None]
           new == {RceToken(s, o)}
           after == [World(s) EXCEPT !.study.rces = Put(@, o, rce),
                                     !.tokens = @ \cup {RceToken(s, o)}]
<1>1. /\ Live(s) /\ Replays(s) /\ o \notin DOMAIN study[s].rces
      /\ Publishes(s, unit, None, after, new)
  BY DEF OpenRce
<1>2. unit \in Frontier[s] /\ unit # Finish /\ \A r \in Rces : unit # Compared(r)
  BY <1>1 DEF Frontier, Finish, Compared
<1>3. Computing(s, unit) = {}
  BY OtherSteps DEF Computing
<1>4. /\ Shaped(s, study[s], escrow[s], commits[s]) /\ study[s].state = "ACTIVE"
  BY <1>1, LiveProperties
<1>5. /\ DOMAIN after = Parts /\ after.escrow = escrow[s] /\ after.commits = commits[s]
      /\ after.contrasts = domain.contrasts /\ after.tokens = tokens \cup new
      /\ after.study = [study[s] EXCEPT !.rces = Put(@, o, rce)]
  BY WorldProperties DEF Parts
<1>6. /\ DOMAIN after.study = Fields /\ after.study.state = "ACTIVE"
      /\ after.study.revision = study[s].revision /\ after.study.issued = study[s].issued
      /\ after.study.slots = study[s].slots /\ after.study.pending = study[s].pending
      /\ after.study.rces = Put(study[s].rces, o, rce)
  BY <1>4, <1>5 DEF Shaped, Fields
<1>7. DOMAIN rce = {"state", "bundle", "result"} /\ rce.state = "ACTIVE"
  OBVIOUS
<1>8. new \cap tokens = {} /\ \A x \in new : x[1] = s
  BY <1>1, RceHandle DEF RceToken
<1> HIDE DEF unit, after, rce
<1>9. /\ DOMAIN after.study.rces = DOMAIN study[s].rces \cup {o}
      /\ after.study.rces[o] = rce
      /\ \A r \in DOMAIN study[s].rces : after.study.rces[r] = study[s].rces[r]
  BY <1>1, <1>6 DEF Put
<1>10. Owned(s, after.study) = Owned(s, study[s]) \cup new
  <2> DEFINE ended(S) ==
               {RceToken(s, r) : r \in {r \in DOMAIN S.rces : S.rces[r].state = "TERMINAL"}}
  <2>1. TokensOf(s, after.study) = TokensOf(s, study[s]) \cup new
    BY <1>6, <1>9 DEF TokensOf, Issued
  <2>2. ended(after.study) = ended(study[s])
    BY <1>1, <1>7, <1>9
  <2>3. RceToken(s, o) \notin ended(study[s])
    BY <1>1 DEF RceToken
  <2> QED BY <1>4, <1>6, <2>1, <2>2, <2>3 DEF Owned
<1>11. \A r \in DOMAIN after.study.rces :
         DOMAIN after.study.rces[r] = {"state", "bundle", "result"}
  BY <1>4, <1>7, <1>9 DEF Shaped
<1> HIDE DEF new
<1>12. Plain(s, unit, after, new)
  BY <1>2, <1>3, <1>5, <1>6, <1>8, <1>10, <1>11 DEF Plain
<1> QED BY <1>1, <1>2, <1>12, PublishesKeeps

LEMMA AdmitBundleKeeps ==
  ASSUME Inductive, NEW s \in Studies, NEW o \in Rces, AdmitBundle(s, o)
  PROVE  Inductive' /\ Lawful
<1> DEFINE unit == <<"ADMIT_BUNDLE", o>>
           after == [World(s) EXCEPT !.study.rces[o].bundle = TRUE]
<1>1. /\ Live(s) /\ o \in DOMAIN study[s].rces
      /\ Publishes(s, unit, None, after, {})
  BY DEF AdmitBundle, LiveRce
<1>2. unit # Finish /\ \A r \in Rces : unit # Compared(r)
  BY DEF Finish, Compared
<1>3. Computing(s, unit) = {}
  BY OtherSteps DEF Computing
<1>4. /\ Shaped(s, study[s], escrow[s], commits[s]) /\ study[s].state = "ACTIVE"
  BY <1>1, LiveProperties
<1>5. unit \in Frontier[s]
  BY <1>1, <1>4 DEF Publishes, Payable, Shaped
<1>6. /\ DOMAIN after = Parts /\ after.escrow = escrow[s] /\ after.commits = commits[s]
      /\ after.contrasts = domain.contrasts /\ after.tokens = tokens
      /\ after.study = [study[s] EXCEPT !.rces[o].bundle = TRUE]
  BY WorldProperties DEF Parts
<1> HIDE DEF unit, after
<1>7. /\ DOMAIN after.study = Fields /\ after.study.state = "ACTIVE"
      /\ after.study.revision = study[s].revision /\ after.study.issued = study[s].issued
      /\ after.study.slots = study[s].slots /\ after.study.pending = study[s].pending
      /\ after.study.rces = [study[s].rces EXCEPT ![o].bundle = TRUE]
  BY <1>4, <1>6 DEF Shaped, Fields
<1>8. /\ DOMAIN after.study.rces = DOMAIN study[s].rces
      /\ \A r \in DOMAIN study[s].rces :
           /\ DOMAIN after.study.rces[r] = {"state", "bundle", "result"}
           /\ after.study.rces[r].state = study[s].rces[r].state
  BY <1>4, <1>7 DEF Shaped
<1>9. Owned(s, after.study) = Owned(s, study[s])
  BY <1>4, <1>7, <1>8, OwnedSame
<1>10. Plain(s, unit, after, {})
  BY <1>2, <1>3, <1>4, <1>6, <1>7, <1>8, <1>9 DEF Plain
<1> QED BY <1>1, <1>5, <1>10, PublishesKeeps

-----------------------------------------------------------------------------
(* Steps of the trusted source and the controllers.                        *)
LEMMA IssueKeeps ==
  ASSUME Inductive, NEW s, Live(s), NEW key, key[1] \notin {"STUDY", "RCE"},
         NEW occurrence, NEW value, IssueAs(s, key, occurrence, value),
         DOMAIN domain' = DOMAIN domain, domain'.contrasts = domain.contrasts
  PROVE  Inductive' /\ Lawful
<1> DEFINE held == [occurrence |-> occurrence, value |-> value]
           token == <<s, key[1], key[2], key[3]>>
           S2 == [study[s] EXCEPT !.issued = Put(@, key, held)]
<1>1. /\ key \notin DOMAIN study[s].issued
      /\ study' = [study EXCEPT ![s].issued = Put(@, key, held)]
      /\ tokens' = tokens \cup {token}
      /\ UNCHANGED <<lifecycle, cie, escrow, commits, call>>
  BY DEF IssueAs
<1>2. /\ s \in Known /\ s \in Studies /\ study[s].state = "ACTIVE"
      /\ Sound(s, study[s], escrow[s], commits[s])
      /\ Shaped(s, study[s], escrow[s], commits[s])
      /\ ListedOf(s) = Owned(s, study[s])
  BY LiveProperties
<1>3. /\ Known' = Known /\ study'[s] = S2
      /\ \A r \in Known : r # s => study'[r] = study[r] /\ Still(r)
  BY <1>1, <1>2 DEF Known, Still
<1>4. /\ S2.state = "ACTIVE" /\ S2.rces = study[s].rces /\ S2.slots = study[s].slots
      /\ S2.issued = Put(study[s].issued, key, held)
  BY <1>2 DEF Shaped, Fields
<1>5. Sound(s, S2, escrow[s], commits[s])
  BY <1>1, <1>2, IssuedSound
<1> HIDE DEF S2, held
<1>6. Typed'
  BY <1>1, <1>3 DEF Inductive, Typed
<1>7. Calling'
  BY <1>1, <1>3, CallsStay DEF Inductive
<1>8. Studied'
  BY <1>1, <1>3, <1>5, StudiedStep DEF Inductive
<1>9. Listed'
  <2>1. Issued(s, S2) = Issued(s, study[s]) \cup {token}
    BY <1>4 DEF Issued, Put
  <2>2. TokensOf(s, S2) = TokensOf(s, study[s]) \cup {token}
    BY <1>4, <2>1 DEF TokensOf
  <2>3. \A o : RceToken(s, o) # token
    BY DEF RceToken
  <2>4. Owned(s, S2) = Owned(s, study[s]) \cup {token}
    BY <1>2, <1>4, <2>2, <2>3 DEF Owned
  <2>5. {x \in tokens' : x[1] = s} = Owned(s, study'[s])
    BY <1>1, <1>2, <1>3, <2>4 DEF ListedOf
  <2>6. \A x \in tokens \cup tokens' : x[1] # s => (x \in tokens <=> x \in tokens')
    BY <1>1
  <2>7. Known' = Known \cup {s}
    BY <1>2, <1>3
  <2> QED BY <1>3, <2>5, <2>6, <2>7, RegisteredStep DEF Inductive
<1>10. Audited'
  BY <1>1, <1>3, AuditStays DEF Inductive
<1>11. Stands(s)
  BY <1>1, <1>3, <1>4 DEF Stands
<1> QED BY <1>3, <1>6, <1>7, <1>8, <1>9, <1>10, <1>11, LiveTimely, OneLawful DEF Inductive

LEMMA IssuesKeep ==
  ASSUME Inductive, NEW s \in Studies,
         \/ \E n \in Cases[s] : IssueCase(s, n)
         \/ \E slot \in Slots : IssueControl(s, ApplicationKey(slot))
         \/ IssueControl(s, ProtocolKey)
         \/ \E o \in Rces, branch \in 1 .. 2 : IssueReceipt(s, o, branch)
  PROVE  Inductive' /\ Lawful
<1>1. PICK key, occurrence, value :
        /\ key[1] \in {"CASE", "APPLICATION", "RANDOMIZATION", "MEASUREMENT"} \cup Kinds
        /\ Live(s) /\ IssueAs(s, key, occurrence, value)
        /\ domain' \in {domain, [domain EXCEPT !.sequence = @ + 1]}
  <2>1. ASSUME NEW n \in Cases[s], IssueCase(s, n)
        PROVE  \E key, occurrence, value :
                 /\ key[1] = "CASE" /\ Live(s) /\ IssueAs(s, key, occurrence, value)
                 /\ domain' \in {domain, [domain EXCEPT !.sequence = @ + 1]}
    <3>1. CaseKey(n)[1] = "CASE"
      BY DEF CaseKey
    <3>2. /\ Live(s) /\ \E occurrence, value : IssueAs(s, CaseKey(n), occurrence, value)
          /\ domain' \in {domain, [domain EXCEPT !.sequence = @ + 1]}
      BY <2>1 DEF IssueCase
    <3> QED BY <3>1, <3>2
  <2>2. ASSUME NEW key, IssueControl(s, key), key[1] \in {"APPLICATION", "RANDOMIZATION"}
        PROVE  Live(s) /\ IssueAs(s, key, 0, None) /\ domain' = domain
    BY <2>2 DEF IssueControl
  <2>3. /\ \A slot \in Slots : ApplicationKey(slot)[1] = "APPLICATION"
        /\ ProtocolKey[1] = "RANDOMIZATION"
    BY DEF ApplicationKey, ProtocolKey
  <2>4. ASSUME NEW o \in Rces, NEW branch \in 1 .. 2, IssueReceipt(s, o, branch)
        PROVE  \E key, occurrence, value :
                 /\ key[1] \in {"RANDOMIZATION", "MEASUREMENT"} \cup Kinds
                 /\ Live(s) /\ IssueAs(s, key, occurrence, value) /\ domain' = domain
    <3>1. Live(s) /\ domain' = domain
      BY <2>4 DEF IssueReceipt, LiveRce
    <3>2. CASE \E kind \in Kinds : IssueAs(s, <<kind, o, branch>>, 0, None)
      <4>1. PICK kind \in Kinds : IssueAs(s, <<kind, o, branch>>, 0, None)
        BY <3>2
      <4>2. <<kind, o, branch>>[1] = kind
        OBVIOUS
      <4> QED BY <3>1, <4>1, <4>2
    <3>3. CASE IssueAs(s, <<"RANDOMIZATION", o, 0>>, 0, None)
      <4>1. <<"RANDOMIZATION", o, 0>>[1] = "RANDOMIZATION"
        OBVIOUS
      <4> QED BY <3>1, <3>3, <4>1
    <3>4. CASE \E value : IssueAs(s, <<"MEASUREMENT", o, branch>>, 0, value)
      <4>1. <<"MEASUREMENT", o, branch>>[1] = "MEASUREMENT"
        OBVIOUS
      <4> QED BY <3>1, <3>4, <4>1
    <3> QED BY <2>4, <3>2, <3>3, <3>4 DEF IssueReceipt
  <2> QED BY <2>1, <2>2, <2>3, <2>4
<1>2. key[1] \notin {"STUDY", "RCE"}
  BY <1>1, CausalityAssumption
<1>3. DOMAIN domain' = DOMAIN domain /\ domain'.contrasts = domain.contrasts
  BY <1>1 DEF Inductive, Typed
<1> QED BY <1>1, <1>2, <1>3, IssueKeeps

-----------------------------------------------------------------------------
(* Steps of the permits.                                                   *)
Repermits(S, pending) ==
  /\ DOMAIN pending = DOMAIN S.pending
  /\ pending = [u \in DOMAIN pending |-> pending[u]]
  /\ \A u \in DOMAIN pending :
       /\ DOMAIN pending[u] = Permits
       /\ \/ pending[u] \in {Emptied, S.pending[u]}
          \/ /\ S.pending[u].state # "RETIRED"
             /\ pending[u].revision = S.pending[u].revision
             /\ pending[u].input = S.pending[u].input

LEMMA PermitsKeep ==
  ASSUME Inductive, UNCHANGED <<domain, tokens, escrow, commits>>, Known' = Known, Calling',
         \A s \in Known :
           \/ study'[s] = study[s]
           \/ \E pending : /\ Repermits(study[s], pending)
                           /\ study'[s] = [study[s] EXCEPT !.pending = pending]
  PROVE  Inductive' /\ Lawful
<1>1. ASSUME NEW s \in Known
      PROVE  /\ Sound(s, study'[s], escrow[s], commits[s])
             /\ Owned(s, study'[s]) = Owned(s, study[s])
             /\ Stands(s) /\ Timely(s)
  <2>1. Sound(s, study[s], escrow[s], commits[s]) /\ s \in Studies
    BY DEF Inductive, Typed, Studied
  <2>2. CASE study'[s] = study[s]
    BY <2>1, <2>2, StillLawful DEF Still
  <2>3. CASE study'[s] # study[s]
    <3>1. PICK pending : /\ Repermits(study[s], pending)
                         /\ study'[s] = [study[s] EXCEPT !.pending = pending]
      BY <2>3
    <3>2. /\ study'[s].state = study[s].state /\ study'[s].issued = study[s].issued
          /\ study'[s].rces = study[s].rces /\ study'[s].slots = study[s].slots
      BY <2>1, <3>1 DEF Sound, Shaped, Fields
    <3>3. Sound(s, study'[s], escrow[s], commits[s])
      BY <2>1, <3>1, PermitsSound DEF Repermits
    <3>4. Owned(s, study'[s]) = Owned(s, study[s])
      BY <3>2, OwnedSame
    <3>5. Stands(s) /\ Timely(s)
      BY <3>2 DEF Stands, Timely
    <3> QED BY <3>3, <3>4, <3>5
  <2> QED BY <2>2, <2>3
<1>2. Typed'
  BY DEF Inductive, Typed
<1>3. Studied'
  BY <1>1 DEF Studied
<1>4. Listed'
  <2>1. \A s \in Known : ListedOf(s)' = ListedOf(s)
    BY DEF ListedOf
  <2>2. \A s \in Known : ListedOf(s) = Owned(s, study[s])
    BY DEF Inductive, Listed
  <2>3. \A s : Owned(s, study[s])' = Owned(s, study'[s])
    OBVIOUS
  <2> QED BY <1>1, <2>1, <2>2, <2>3 DEF Inductive, Listed
<1>5. Audited'
  BY AuditStays DEF Inductive
<1> QED BY <1>1, <1>2, <1>3, <1>4, <1>5 DEF Inductive, Lawful

LEMMA PermitChange ==
  ASSUME Inductive, NEW s \in Known, NEW u \in DOMAIN study[s].pending, NEW permit,
         DOMAIN permit = Permits,
         \/ permit = Emptied
         \/ /\ study[s].pending[u].state # "RETIRED"
            /\ permit.revision = study[s].pending[u].revision
            /\ permit.input = study[s].pending[u].input,
         study' = [study EXCEPT ![s].pending[u] = permit],
         UNCHANGED <<domain, tokens, escrow, commits>>, Calling'
  PROVE  Inductive' /\ Lawful
<1> DEFINE pending == [study[s].pending EXCEPT ![u] = permit]
<1>1. Shaped(s, study[s], escrow[s], commits[s])
  BY DEF Inductive, Studied, Sound
<1>2. Known' = Known /\ \A r \in Known : r # s => study'[r] = study[r]
  BY DEF Known
<1>3. study'[s] = [study[s] EXCEPT !.pending = pending]
  BY DEF Known
<1>4. Repermits(study[s], pending)
  <2>1. DOMAIN pending = DOMAIN study[s].pending /\ pending = [v \in DOMAIN pending |-> pending[v]]
    OBVIOUS
  <2>2. pending[u] = permit /\ \A v \in DOMAIN pending : v # u => pending[v] = study[s].pending[v]
    OBVIOUS
  <2> HIDE DEF pending
  <2> QED BY <1>1, <2>1, <2>2 DEF Repermits, Shaped
<1> HIDE DEF pending
<1> QED BY <1>2, <1>3, <1>4, PermitsKeep

LEMMA ClaimKeeps ==
  ASSUME Inductive, NEW t \in Threads, Claim(t)
  PROVE  Inductive' /\ Lawful
<1> DEFINE s == call[t].study
           u == call[t].unit
           permit == [study[s].pending[u] EXCEPT !.state = "RUNNING"]
<1>1. /\ call[t].at = "execute" /\ u \in DOMAIN study[s].pending
      /\ study[s].pending[u].state = "ISSUED"
      /\ study' = [study EXCEPT ![s].pending[u].state = "RUNNING"] /\ At(t, "running")
      /\ UNCHANGED <<domain, tokens, escrow, commits>>
  BY DEF Claim, Pending, Permit
<1>2. s \in Known
  BY <1>1 DEF Inductive, Calling
<1>3. Shaped(s, study[s], escrow[s], commits[s])
  BY <1>2 DEF Inductive, Studied, Sound
<1>4. /\ DOMAIN permit = Permits /\ permit.revision = study[s].pending[u].revision
      /\ permit.input = study[s].pending[u].input
  BY <1>1, <1>3 DEF Shaped, Permits
<1>5. study' = [study EXCEPT ![s].pending[u] = permit]
  BY <1>1
<1>6. Calling'
  <2>1. Known' = Known
    BY <1>1 DEF Known
  <2> QED BY <1>1, <2>1, CallsMove DEF Inductive
<1> HIDE DEF s, u, permit
<1> QED BY <1>1, <1>2, <1>4, <1>5, <1>6, PermitChange

LEMMA StillKeeps ==
  ASSUME Inductive, UNCHANGED <<domain, tokens, study, escrow, commits>>, Calling'
  PROVE  Inductive' /\ Lawful
BY QuietKeeps, StillLawful DEF Still, Lawful

LEMMA ComputeKeeps ==
  ASSUME Inductive, NEW t \in Threads, Compute(t)
  PROVE  Inductive' /\ Lawful
<1> DEFINE s == call[t].study
           u == call[t].unit
           permit == [study[s].pending[u] EXCEPT !.state = "DONE"]
<1>1. call[t].at = "running" /\ UNCHANGED <<domain, tokens, escrow, commits>>
  BY DEF Compute
<1>2. s \in Known
  BY <1>1 DEF Inductive, Calling
<1>3. Shaped(s, study[s], escrow[s], commits[s])
  BY <1>2 DEF Inductive, Studied, Sound
<1>4. CASE Pending(t, "RUNNING") /\ Permit(t, "DONE") /\ At(t, "publish")
  <2>1. /\ u \in DOMAIN study[s].pending /\ study[s].pending[u].state = "RUNNING"
        /\ study' = [study EXCEPT ![s].pending[u].state = "DONE"]
    BY <1>4 DEF Pending, Permit
  <2>2. /\ DOMAIN permit = Permits /\ permit.revision = study[s].pending[u].revision
        /\ permit.input = study[s].pending[u].input
    BY <1>3, <2>1 DEF Shaped, Permits
  <2>3. study' = [study EXCEPT ![s].pending[u] = permit]
    BY <2>1
  <2>4. Calling'
    <3>1. Known' = Known
      BY <2>1 DEF Known
    <3> QED BY <1>1, <1>4, <3>1, CallsMove DEF Inductive
  <2> HIDE DEF s, u, permit
  <2> QED BY <1>1, <1>2, <2>1, <2>2, <2>3, <2>4, PermitChange
<1>5. CASE /\ Pending(t, "RUNNING") /\ Leave(t)
           /\ study' = [study EXCEPT ![call[t].study].pending[call[t].unit] = Emptied]
  <2>1. /\ u \in DOMAIN study[s].pending
        /\ study' = [study EXCEPT ![s].pending[u] = Emptied]
    BY <1>5 DEF Pending
  <2>2. DOMAIN Emptied = Permits
    BY DEF Emptied, Permits
  <2>3. Calling'
    <3>1. Known' = Known
      BY <2>1 DEF Known
    <3> QED BY <1>5, <3>1, CallsLeave DEF Inductive
  <2> HIDE DEF s, u
  <2> QED BY <1>1, <1>2, <2>1, <2>2, <2>3, PermitChange
<1>6. CASE UNCHANGED study /\ Leave(t)
  <2>1. Calling'
    BY <1>6, CallsLeave DEF Inductive, Known
  <2> QED BY <1>1, <1>6, <2>1, StillKeeps
<1> QED BY <1>4, <1>5, <1>6 DEF Compute

LEMMA CloseEpochKeeps ==
  ASSUME Inductive, CloseEpoch
  PROVE  Inductive' /\ Lawful
<1>1. /\ study' = [s \in Known |-> [study[s] EXCEPT !.pending = [u \in DOMAIN @ |-> Emptied]]]
      /\ UNCHANGED <<domain, tokens, escrow, commits, call>>
  BY DEF CloseEpoch
<1>2. Known' = Known
  BY <1>1 DEF Known
<1>3. Calling'
  BY <1>1, <1>2, CallsStay DEF Inductive
<1>4. ASSUME NEW s \in Known
      PROVE  \E pending : /\ Repermits(study[s], pending)
                          /\ study'[s] = [study[s] EXCEPT !.pending = pending]
  <2> DEFINE pending == [u \in DOMAIN study[s].pending |-> Emptied]
  <2>1. study'[s] = [study[s] EXCEPT !.pending = pending]
    BY <1>1
  <2>2. DOMAIN Emptied = Permits
    BY DEF Emptied, Permits
  <2>3. /\ DOMAIN pending = DOMAIN study[s].pending
        /\ pending = [u \in DOMAIN pending |-> pending[u]]
        /\ \A u \in DOMAIN pending : pending[u] = Emptied
    OBVIOUS
  <2> HIDE DEF pending
  <2>4. Repermits(study[s], pending)
    BY <2>2, <2>3 DEF Repermits
  <2> QED BY <2>1, <2>4
<1> QED BY <1>1, <1>2, <1>3, <1>4, PermitsKeep

(* The steps that only move a call.                                        *)
LEMMA MovesKeep ==
  ASSUME Inductive, NEW t \in Threads, CheckCompleted(t) \/ RecheckCase(t) \/ Refused(t)
  PROVE  Inductive' /\ Lawful
<1>1. /\ call[t].at # "idle"
      /\ \/ Leave(t)
         \/ \E where : At(t, where) /\ (where = "attach" => call[t].unit[1] = "CLASSIFY_CASE")
      /\ UNCHANGED <<domain, tokens, study, escrow, commits>>
  <2>1. CASE CheckCompleted(t)
    BY <2>1 DEF CheckCompleted
  <2>2. CASE RecheckCase(t)
    BY <2>2 DEF RecheckCase
  <2>3. CASE Refused(t)
    BY <2>3 DEF Refused
  <2> QED BY <2>1, <2>2, <2>3
<1>2. Calling'
  BY <1>1, CallsLeave, CallsMove DEF Inductive, Known
<1> QED BY <1>1, <1>2, StillKeeps

LEMMA OpenEpochKeeps ==
  ASSUME Inductive, OpenEpoch
  PROVE  Inductive' /\ Lawful
<1>1. UNCHANGED <<domain, tokens, study, escrow, commits, call>>
  BY DEF OpenEpoch
<1>2. Calling'
  BY <1>1, CallsStay DEF Inductive, Known
<1> QED BY <1>1, <1>2, StillKeeps

LEMMA PrepareKeeps ==
  ASSUME Inductive, NEW t \in Threads, NEW s \in Studies, NEW unit \in Computes[s],
         Prepare(t, s, unit)
  PROVE  Inductive' /\ Lawful
<1> DEFINE permit == [state |-> "ISSUED", revision |-> study[s].revision, snapshot |-> cie.snapshot,
                      input |-> IF unit[1] = "COMPARE_CASES" THEN study[s].slots ELSE None]
           S2 == [study[s] EXCEPT !.pending = Put(@, unit, permit)]
<1>1. /\ Live(s) /\ Ready(s, unit)
      /\ call' = [call EXCEPT ![t] = [at |-> "execute", study |-> s, unit |-> unit]]
      /\ UNCHANGED <<lifecycle, cie, domain, tokens, commits>>
  BY DEF Prepare
<1>2. /\ s \in Known /\ study[s].state = "ACTIVE"
      /\ Sound(s, study[s], escrow[s], commits[s])
      /\ Shaped(s, study[s], escrow[s], commits[s])
      /\ ListedOf(s) = Owned(s, study[s])
  BY <1>1, LiveProperties
<1>3. Known' = Known => Calling'
  BY <1>1, <1>2 DEF Inductive, Calling
<1>4. CASE unit \in DOMAIN study[s].pending
  <2>1. UNCHANGED <<study, escrow>>
    BY <1>4 DEF Prepare
  <2> QED BY <1>1, <1>3, <2>1, StillKeeps DEF Known
<1>5. CASE unit \notin DOMAIN study[s].pending
  <2>1. /\ Payable(s, unit) /\ escrow' = [escrow EXCEPT ![s][unit] = "CONSUMED"]
        /\ study' = [study EXCEPT ![s].pending = Put(@, unit, permit)]
    BY <1>5 DEF Prepare
  <2>2. /\ Known' = Known /\ study'[s] = S2
        /\ escrow'[s] = [escrow[s] EXCEPT ![unit] = "CONSUMED"] /\ DOMAIN escrow' = DOMAIN escrow
        /\ \A r \in Known : r # s => study'[r] = study[r] /\ Still(r)
    BY <1>1, <1>2, <2>1 DEF Known, Still, Inductive, Typed
  <2>3. /\ S2.state = study[s].state /\ S2.rces = study[s].rces /\ S2.slots = study[s].slots
        /\ S2.issued = study[s].issued
    BY <1>2 DEF Shaped, Fields
  <2>4. /\ DOMAIN permit = Permits /\ permit.revision = study[s].revision
        /\ unit[1] = "COMPARE_CASES" => permit.input = study[s].slots
    BY DEF Permits
  <2>5. unit[1] = "CLASSIFY_CASE" => Admissible(study[s], unit[2])
    <3>1. unit[1] = "CLASSIFY_CASE" =>
            CaseKey(unit[2]) \in DOMAIN study[s].issued /\ Acceptable(s, unit[2])
      BY <1>1 DEF Ready
    <3> QED BY <3>1 DEF Acceptable, Admissible, Held
  <2>6. escrow[s][unit] = "RESERVED"
    BY <2>1 DEF Payable
  <2> HIDE DEF permit
  <2>7. Sound(s, S2, [escrow[s] EXCEPT ![unit] = "CONSUMED"], commits[s])
    BY <1>2, <1>5, <2>4, <2>5, <2>6, PreparedSound
  <2> HIDE DEF S2
  <2>8. Typed'
    BY <1>1, <2>2 DEF Inductive, Typed
  <2>9. Studied'
    BY <1>1, <2>2, <2>7, StudiedStep DEF Inductive
  <2>10. Listed'
    <3>1. Owned(s, S2) = Owned(s, study[s])
      BY <2>3, OwnedSame
    <3>2. {x \in tokens' : x[1] = s} = Owned(s, study'[s])
      BY <1>1, <1>2, <2>2, <3>1 DEF ListedOf
    <3>3. Known' = Known \cup {s} /\ tokens' = tokens
      BY <1>1, <1>2, <2>2
    <3> QED BY <2>2, <3>2, <3>3, RegisteredStep DEF Inductive
  <2>11. Audited'
    BY <1>1, <2>2, AuditStays DEF Inductive
  <2>12. Stands(s) /\ Timely(s)
    BY <1>1, <2>2, <2>3 DEF Stands, Timely
  <2> QED BY <1>3, <2>2, <2>8, <2>9, <2>10, <2>11, <2>12, OneLawful DEF Inductive
<1> QED BY <1>4, <1>5

-----------------------------------------------------------------------------
(* Steps that begin and end studies.                                       *)
LEMMA TokensNamed ==
  ASSUME NEW s, NEW S, NEW x \in TokensOf(s, S)
  PROVE  x[1] = s
BY DEF TokensOf, Issued, StudyToken, RceToken

LEMMA OpenStudyKeeps ==
  ASSUME Inductive, NEW s \in Studies, OpenStudy(s)
  PROVE  Inductive' /\ Lawful
<1> DEFINE S == Study("ACTIVE", 0, domain.revision)
           E == [u \in Frontier[s] |-> "RESERVED"]
           X == [u \in {Opened} |-> None]
<1>1. /\ s \notin Known /\ tokens' = tokens \cup {StudyToken(s)}
      /\ study' = Put(study, s, S) /\ escrow' = Put(escrow, s, E)
      /\ commits' = Put(commits, s, X) /\ UNCHANGED <<lifecycle, cie, domain, call>>
  BY DEF OpenStudy
<1>2. Sound(s, S, E, X)
  BY OpenedSound
<1>3. /\ S.state = "ACTIVE" /\ DOMAIN S.issued = {} /\ DOMAIN S.rces = {}
  BY StudyProperties
<1>4. \A o \in Rces : ~Answers(X, o)
  BY DEF Answers, StepsIn
<1> HIDE DEF S, E, X
<1>5. /\ Known' = Known \cup {s} /\ DOMAIN escrow' = Known \cup {s}
      /\ DOMAIN commits' = Known \cup {s}
      /\ study'[s] = S /\ escrow'[s] = E /\ commits'[s] = X
      /\ \A r \in Known : r # s => Still(r) /\ study'[r] = study[r]
  BY <1>1 DEF Put, Known, Still, Inductive, Typed
<1>6. Typed'
  BY <1>1, <1>5 DEF Inductive, Typed
<1>7. Calling'
  BY <1>1, <1>5, CallsStay DEF Inductive
<1>8. Studied'
  BY <1>2, <1>5, StudiedStep DEF Inductive
<1>9. Listed'
  <2>1. Owned(s, S) = {StudyToken(s)}
    <3>1. Issued(s, S) = {}
      BY <1>3 DEF Issued
    <3>2. {RceToken(s, o) : o \in DOMAIN S.rces} = {}
      BY <1>3
    <3>3. \A o : RceToken(s, o) # StudyToken(s)
      BY DEF RceToken, StudyToken
    <3> QED BY <1>3, <3>1, <3>2, <3>3 DEF Owned, TokensOf
  <2>2. StudyToken(s)[1] = s /\ \A x \in tokens : x[1] # s
    BY <1>1 DEF StudyToken, Inductive, Listed
  <2>3. {x \in tokens' : x[1] = s} = Owned(s, study'[s])
    BY <1>1, <1>5, <2>1, <2>2
  <2>4. \A x \in tokens \cup tokens' : x[1] # s => (x \in tokens <=> x \in tokens')
    BY <1>1, <2>2
  <2> QED BY <1>5, <2>3, <2>4, RegisteredStep DEF Inductive
<1>10. Audited'
  <2>1. \A r \in Known', o \in Rces :
          Answers(commits'[r], o) <=> r \in Known /\ Answers(commits[r], o)
    BY <1>1, <1>4, <1>5 DEF Still
  <2>2. \A r \in Known, o \in Rces :
          Answers(commits[r], o) => commits'[r][Compared(o)] = commits[r][Compared(o)]
    BY <1>1, <1>5 DEF Still
  <2>3. Known \subseteq Known' /\ domain'.contrasts = domain.contrasts
    BY <1>1, <1>5
  <2> QED BY <2>1, <2>2, <2>3, AuditStays DEF Inductive
<1>11. Lawful
  BY <1>1, <1>5, StillLawful DEF Lawful
<1> QED BY <1>6, <1>7, <1>8, <1>9, <1>10, <1>11 DEF Inductive

LEMMA EndsKeep ==
  ASSUME Inductive, NEW concerned \in SUBSET Known, NEW terminal, terminal # "ACTIVE",
         Ends(concerned, terminal), UNCHANGED <<commits, call>>,
         DOMAIN domain' = DOMAIN domain, domain'.contrasts = domain.contrasts
  PROVE  Inductive' /\ Lawful
<1> DEFINE active == {s \in concerned : study[s].state = "ACTIVE"}
           Over2(s) == Study(terminal, study[s].revision + 1, study[s].environment)
<1>1. /\ Known' = Known /\ DOMAIN escrow' = Known
      /\ \A s \in Known \ active : study'[s] = study[s] /\ escrow'[s] = escrow[s]
      /\ tokens' = tokens \ UNION {TokensOf(s, study[s]) : s \in active}
  BY DEF Ends, Known
<1>2. ASSUME NEW s \in active
      PROVE  study'[s] = Over2(s) /\ escrow'[s] = Retired(escrow[s])
  <2> DEFINE R == Reduced(s, World(s), terminal)
  <2>1. study'[s] = R.study /\ escrow'[s] = R.escrow
    BY DEF Ends
  <2>2. R.study = Over2(s) /\ R.escrow = Retired(escrow[s])
    BY WorldProperties DEF Reduced, Parts
  <2> QED BY <2>1, <2>2
<1>3. ASSUME NEW s \in active
      PROVE  /\ Sound(s, study'[s], escrow'[s], commits[s])
             /\ study'[s].state # "ACTIVE"
  <2>1. s \in Studies /\ Sound(s, study[s], escrow[s], commits[s])
    BY DEF Inductive, Typed, Studied
  <2>2. /\ study[s].revision \in Nat /\ DOMAIN escrow[s] = Frontier[s]
        /\ Opened \in DOMAIN commits[s] /\ StepsIn(commits[s]) \subseteq Frontier[s]
        /\ IsFiniteSet(StepsIn(commits[s])) /\ StepsIn(commits[s]) \subseteq SpentIn(escrow[s])
    BY <2>1 DEF Sound, Shaped, Accounted
  <2>3. Sound(s, Over2(s), Retired(escrow[s]), commits[s])
    BY <2>1, <2>2, EndedSound
  <2>4. Over2(s).state = terminal
    BY StudyProperties
  <2> QED BY <1>2, <2>3, <2>4
<1> HIDE DEF Over2
<1>4. Typed'
  BY <1>1 DEF Inductive, Typed
<1>5. Calling'
  BY <1>1, CallsStay DEF Inductive
<1>6. Studied'
  BY <1>1, <1>3 DEF Inductive, Studied
<1>7. Listed'
  <2>1. \A x \in tokens' : x[1] \in Known'
    BY <1>1 DEF Inductive, Listed
  <2>2. ASSUME NEW s \in Known
        PROVE  {x \in tokens' : x[1] = s} = Owned(s, study'[s])
    <3>1. {x \in tokens : x[1] = s} = Owned(s, study[s])
      BY DEF Inductive, Listed, ListedOf
    <3>2. CASE s \in active
      <4>1. Owned(s, study[s]) \subseteq TokensOf(s, study[s])
        BY <3>2 DEF Owned
      <4>2. Owned(s, study'[s]) = {}
        BY <1>3, <3>2 DEF Owned
      <4> QED BY <1>1, <3>1, <3>2, <4>1, <4>2
    <3>3. CASE s \notin active
      <4>1. \A x \in UNION {TokensOf(r, study[r]) : r \in active} : x[1] # s
        BY <3>3, TokensNamed
      <4> QED BY <1>1, <3>1, <3>3, <4>1
    <3> QED BY <3>2, <3>3
  <2>3. \A s : Owned(s, study[s])' = Owned(s, study'[s])
    OBVIOUS
  <2> QED BY <1>1, <2>1, <2>2, <2>3 DEF Listed, ListedOf
<1>8. Audited'
  BY <1>1, AuditStays DEF Inductive
<1>9. Lawful
  BY <1>1, <1>3 DEF Lawful, Stands, Timely
<1> QED BY <1>4, <1>5, <1>6, <1>7, <1>8, <1>9 DEF Inductive

LEMMA EndingsKeep ==
  ASSUME Inductive, (\E s \in Studies : AbortStudy(s)) \/ Revise \/ CloseDomain \/ BeginClose
  PROVE  Inductive' /\ Lawful
<1>1. /\ UNCHANGED <<commits, call>>
      /\ DOMAIN domain' = DOMAIN domain /\ domain'.contrasts = domain.contrasts
  BY DEF AbortStudy, Revise, CloseDomain, BeginClose, Inductive, Typed
<1>2. \E concerned \in SUBSET Known : Ends(concerned, "ABORTED")
  <2>1. ASSUME NEW s \in Studies, AbortStudy(s)
        PROVE  {s} \in SUBSET Known /\ Ends({s}, "ABORTED")
    BY <2>1 DEF AbortStudy, Live
  <2>2. CASE Revise
    BY <2>2 DEF Revise
  <2>3. CASE CloseDomain \/ BeginClose
    BY <2>3 DEF CloseDomain, BeginClose
  <2> QED BY <2>1, <2>2, <2>3
<1> QED BY <1>1, <1>2, EndsKeep

-----------------------------------------------------------------------------
(* Steps that publish what was computed.                                   *)
LEMMA ComputingOne ==
  ASSUME NEW s \in Studies, NEW u \in Computes[s]
  PROVE  Computing(s, Publisher(u)) = {u}
BY PublishersDiffer DEF Computing

(* A permit that may be attached is of the current revision.               *)
LEMMA AttachableProperties ==
  ASSUME Inductive, NEW s, NEW u, Attachable(s, u)
  PROVE  /\ Live(s) /\ u \in DOMAIN study[s].pending /\ u \in Computes[s]
         /\ u[1] = "CLASSIFY_CASE" => Admissible(study[s], u[2])
         /\ u[1] = "COMPARE_CASES" => study[s].pending[u].input = study[s].slots
<1>1. /\ Live(s) /\ u \in DOMAIN study[s].pending
      /\ study[s].pending[u].state = "DONE"
      /\ study[s].pending[u].revision = study[s].revision
  BY DEF Attachable
<1>2. /\ Sound(s, study[s], escrow[s], commits[s])
      /\ Shaped(s, study[s], escrow[s], commits[s])
  BY <1>1, LiveProperties
<1>3. Fresh(study[s], u) /\ u \in Computes[s]
  BY <1>1, <1>2 DEF Sound, Shaped
<1> QED BY <1>1, <1>3 DEF Fresh

(* The world after a computation was published and its permit forgotten.   *)
Advanced(s, u, payload, w) ==
  /\ w.escrow = [escrow[s] EXCEPT ![Publisher(u)] = "CONSUMED"]
  /\ w.commits = Put(commits[s], Publisher(u), payload)
  /\ DOMAIN w.study = Fields /\ w.study.state = "ACTIVE"
  /\ w.study.revision = study[s].revision + 1 /\ w.study.issued = study[s].issued
  /\ DOMAIN w.study.slots = Slots
  /\ DOMAIN w.study.pending = DOMAIN study[s].pending \ {u}
  /\ \A v \in DOMAIN w.study.pending : w.study.pending[v] = study[s].pending[v]
  /\ \A o \in DOMAIN w.study.rces : DOMAIN w.study.rces[o] = {"state", "bundle", "result"}
  /\ Separate(s, w.study)
  /\ w.tokens \subseteq tokens /\ \A x \in tokens \ w.tokens : x[1] = s
  /\ {x \in w.tokens : x[1] = s} = Owned(s, w.study)

LEMMA ComputedKeeps ==
  ASSUME Inductive, NEW s, Live(s), NEW u \in Computes[s], u \in DOMAIN study[s].pending,
         Payable(s, Publisher(u)), NEW payload, NEW w, Advanced(s, u, payload, w),
         Becomes(s, w), Audited', Calling', Stands(s)
  PROVE  Inductive' /\ Lawful
<1> DEFINE S2 == w.study
<1>1. /\ s \in Known /\ s \in Studies /\ study[s].state = "ACTIVE"
      /\ Sound(s, study[s], escrow[s], commits[s])
      /\ Shaped(s, study[s], escrow[s], commits[s])
  BY LiveProperties
<1>2. /\ w.escrow = [escrow[s] EXCEPT ![Publisher(u)] = "CONSUMED"]
      /\ w.commits = Put(commits[s], Publisher(u), payload)
      /\ DOMAIN S2 = Fields /\ S2.state = "ACTIVE"
      /\ S2.revision = study[s].revision + 1 /\ S2.issued = study[s].issued
      /\ DOMAIN S2.slots = Slots
      /\ DOMAIN S2.pending = DOMAIN study[s].pending \ {u}
      /\ \A v \in DOMAIN S2.pending : S2.pending[v] = study[s].pending[v]
      /\ \A o \in DOMAIN S2.rces : DOMAIN S2.rces[o] = {"state", "bundle", "result"}
      /\ Separate(s, S2)
  BY DEF Advanced
<1>3. /\ \A x \in tokens \cup w.tokens : x[1] # s => (x \in tokens <=> x \in w.tokens)
      /\ {x \in w.tokens : x[1] = s} = Owned(s, S2)
  BY DEF Advanced
<1> HIDE DEF S2
<1>4. Sound(s, S2, [escrow[s] EXCEPT ![Publisher(u)] = "CONSUMED"],
            Put(commits[s], Publisher(u), payload))
  <2>1. Publisher(u) \in Frontier[s] /\ escrow[s][Publisher(u)] = "RESERVED"
    BY <1>1, PublisherProperties DEF Payable
  <2>2. /\ Computing(s, Publisher(u)) \subseteq DOMAIN study[s].pending
        /\ DOMAIN S2.pending = DOMAIN study[s].pending \ Computing(s, Publisher(u))
    BY <1>1, <1>2, ComputingOne
  <2> QED BY <1>1, <1>2, <2>1, <2>2, PublishedSound
<1>5. Inductive'
  <2>1. Sound(s, w.study, w.escrow, w.commits)
    BY <1>2, <1>4 DEF S2
  <2> QED BY <1>1, <1>3, <2>1, ChangeKeeps DEF S2
<1>6. \A r \in Known : r # s => Still(r)
  BY <1>1, BecomesProperties DEF Inductive
<1> QED BY <1>5, <1>6, LiveTimely, OneLawful

LEMMA PublishCaseKeeps ==
  ASSUME Inductive, NEW t \in Threads, PublishCase(t)
  PROVE  Inductive' /\ Lawful
<1> DEFINE s    == call[t].study
           u    == call[t].unit
           slot == SlotOf(u[2])
           case == [attempt |-> Attempt(u[2]), occurrence |-> Held(s, u[2]).occurrence,
                    measured |-> Held(s, u[2]).value = "MEASURED"]
           after == [World(s) EXCEPT !.study.slots[slot] = case]
<1>1. /\ call[t].at = "attach" /\ Attachable(s, u) /\ Payable(s, Publisher(u)) /\ Leave(t)
  BY DEF PublishCase
<1>2. PICK p \in Publications(s, Publisher(u), case, after, {}) :
        Becomes(s, IF p.done THEN Forget(p.world, u) ELSE p.world)
  BY DEF PublishCase
<1>3. /\ Live(s) /\ u \in DOMAIN study[s].pending /\ u \in Computes[s]
      /\ u[1] = "CLASSIFY_CASE" => Admissible(study[s], u[2])
  BY <1>1, AttachableProperties
<1>4. /\ s \in Known /\ s \in Studies /\ study[s].state = "ACTIVE"
      /\ Sound(s, study[s], escrow[s], commits[s])
      /\ Shaped(s, study[s], escrow[s], commits[s])
      /\ ListedOf(s) = Owned(s, study[s])
  BY <1>3, LiveProperties
<1>5. Admissible(study[s], u[2]) /\ Publisher(u) = <<"ADMIT_CASE", u[2]>>
  <2>1. u[1] = "CLASSIFY_CASE"
    BY <1>1 DEF Inductive, Calling
  <2> QED BY <1>3, <1>4, <2>1, PublisherProperties
<1>6. Known' = Known => Calling'
  BY <1>1, CallsLeave DEF Inductive
<1>7. /\ DOMAIN after = Parts /\ after.escrow = escrow[s] /\ after.commits = commits[s]
      /\ after.contrasts = domain.contrasts /\ after.tokens = tokens
      /\ after.study = [study[s] EXCEPT !.slots[slot] = case]
  BY WorldProperties DEF Parts
<1> HIDE DEF after
<1>8. /\ p.done \in BOOLEAN
      /\ p.done => Changes(World(s), after, Publisher(u), case, p.world)
      /\ ~p.done => Same(World(s), p.world)
  <2>1. after.tokens = tokens \cup {} /\ {} \cap tokens = {}
    BY <1>7
  <2> QED BY <1>2, <1>7, <2>1, PublicationOutcome
<1> DEFINE A2 == [study[s] EXCEPT !.slots[slot] = case]
           w  == Forget(p.world, u)
<1>9. CASE ~p.done
  <2>1. Becomes(s, p.world)
    BY <1>2, <1>9
  <2>2. Calling'
    BY <1>4, <1>6, <2>1, BecomesProperties DEF Inductive
  <2>3. Inductive' /\ \A r \in Known : Still(r)
    BY <1>4, <1>8, <1>9, <2>1, <2>2, SameKeeps
  <2> QED BY <2>3, StillLawful DEF Lawful
<1>10. CASE p.done
  <2>1. Becomes(s, w)
    BY <1>2, <1>10
  <2>2. /\ DOMAIN p.world = Parts /\ p.world.study = [A2 EXCEPT !.revision = @ + 1]
        /\ p.world.contrasts = domain.contrasts /\ p.world.tokens = tokens
        /\ p.world.escrow = [escrow[s] EXCEPT ![Publisher(u)] = "CONSUMED"]
        /\ p.world.commits = Put(commits[s], Publisher(u), case)
    BY <1>7, <1>8, <1>10, WorldProperties DEF Changes
  <2>3. /\ DOMAIN A2 = Fields /\ A2.state = "ACTIVE" /\ A2.revision = study[s].revision
        /\ A2.issued = study[s].issued /\ A2.pending = study[s].pending
        /\ A2.rces = study[s].rces
        /\ DOMAIN A2.slots = Slots /\ A2.slots = [study[s].slots EXCEPT ![slot] = case]
    BY <1>4 DEF Shaped, Fields
  <2> HIDE DEF A2
  <2>4. /\ w.contrasts = domain.contrasts /\ w.tokens = tokens
        /\ w.escrow = [escrow[s] EXCEPT ![Publisher(u)] = "CONSUMED"]
        /\ w.commits = Put(commits[s], Publisher(u), case)
        /\ DOMAIN w.study = Fields /\ w.study.state = "ACTIVE"
        /\ w.study.revision = study[s].revision + 1 /\ w.study.issued = study[s].issued
        /\ w.study.slots = A2.slots /\ w.study.rces = study[s].rces
        /\ w.study.pending = Restrict(study[s].pending, DOMAIN study[s].pending \ {u})
    <3>1. /\ w.contrasts = domain.contrasts /\ w.tokens = tokens
          /\ w.escrow = [escrow[s] EXCEPT ![Publisher(u)] = "CONSUMED"]
          /\ w.commits = Put(commits[s], Publisher(u), case)
          /\ w.study = [p.world.study EXCEPT !.pending = Restrict(@, DOMAIN @ \ {u})]
      BY <2>2 DEF Forget, Parts
    <3>2. /\ DOMAIN p.world.study = Fields /\ p.world.study.state = "ACTIVE"
          /\ p.world.study.revision = study[s].revision + 1
          /\ p.world.study.issued = study[s].issued
          /\ p.world.study.slots = A2.slots /\ p.world.study.rces = study[s].rces
          /\ p.world.study.pending = study[s].pending
      BY <2>2, <2>3 DEF Fields
    <3> HIDE DEF w
    <3> QED BY <3>1, <3>2 DEF Fields
  <2> HIDE DEF w
  <2>5. /\ DOMAIN w.study.pending = DOMAIN study[s].pending \ {u}
        /\ \A v \in DOMAIN w.study.pending : w.study.pending[v] = study[s].pending[v]
    BY <2>4 DEF Restrict
  <2>6. /\ \A r \in Slots : r # slot => w.study.slots[r] = study[s].slots[r]
        /\ slot \in Slots => w.study.slots[slot] = case
    <3> HIDE DEF case, slot
    <3>1. w.study.slots = [study[s].slots EXCEPT ![slot] = case]
      BY <2>3, <2>4
    <3>2. DOMAIN study[s].slots = Slots
      BY <1>4 DEF Shaped
    <3> QED BY <3>1, <3>2
  <2>7. /\ CaseKey(u[2]) \in DOMAIN study[s].issued
        /\ IF Admitted(study[s], slot)
           THEN ~study[s].slots[slot].measured /\ Attempt(u[2]) = study[s].slots[slot].attempt + 1
           ELSE Attempt(u[2]) = 0
        /\ \A q \in Slots : <<slot, q>> \in Independent \/ <<q, slot>> \in Independent =>
             study[s].slots[q].occurrence # case.occurrence
    BY <1>5 DEF Admissible, Held
  <2>8. case.attempt = Attempt(u[2])
    OBVIOUS
  <2> HIDE DEF case, slot
  <2>9. Separate(s, w.study)
    <3> SUFFICES ASSUME ~Replays(s), NEW pair \in Independent, Admitted(w.study, pair[1])
                 PROVE  w.study.slots[pair[1]].occurrence # w.study.slots[pair[2]].occurrence
      BY DEF Separate
    <3>1. /\ pair[1] \in Slots /\ pair[2] \in Slots /\ pair[1] # pair[2]
          /\ pair = <<pair[1], pair[2]>>
      BY CausalityAssumption
    <3>2. CASE pair[1] = slot
      BY <2>6, <2>7, <3>1, <3>2
    <3>3. CASE pair[2] = slot
      BY <2>6, <2>7, <3>1, <3>3
    <3>4. CASE pair[1] # slot /\ pair[2] # slot
      BY <1>4, <2>6, <3>1, <3>4 DEF Sound, Separate, Admitted
    <3> QED BY <3>2, <3>3, <3>4
  <2>10. /\ w.tokens \subseteq tokens /\ \A x \in tokens \ w.tokens : x[1] = s
        /\ {x \in w.tokens : x[1] = s} = Owned(s, w.study)
    <3>1. Owned(s, w.study) = Owned(s, study[s])
      BY <1>4, <2>4, OwnedSame
    <3> QED BY <1>4, <2>4, <3>1 DEF ListedOf
  <2>11. Advanced(s, u, case, w)
    <3>1. \A o \in DOMAIN w.study.rces : DOMAIN w.study.rces[o] = {"state", "bundle", "result"}
      BY <1>4, <2>4 DEF Shaped
    <3> QED BY <2>3, <2>4, <2>5, <2>9, <2>10, <3>1 DEF Advanced
  <2>12. /\ Known' = Known /\ study'[s] = w.study /\ commits'[s] = w.commits
    BY <1>4, <2>1, BecomesProperties DEF Inductive
  <2>13. Audited'
    <3>1. \A o : Publisher(u) # Compared(o)
      BY <1>5 DEF Compared
    <3>2. \A o \in Rces : /\ Answers(w.commits, o) <=> Answers(commits[s], o)
                          /\ Answers(commits[s], o) =>
                               w.commits[Compared(o)] = commits[s][Compared(o)]
      BY <2>4, <3>1, AnswersKept
    <3> QED BY <1>4, <2>1, <2>4, <3>2, UnauditedKeeps
  <2>14. Stands(s)
    <3>1. /\ Finish \notin DOMAIN commits'[s] \ DOMAIN commits[s]
          /\ study'[s].slots = w.study.slots
      BY <1>5, <2>4, <2>12 DEF Finish, Put
    <3>2. ASSUME NEW r \in Slots
          PROVE  \/ w.study.slots[r] = study[s].slots[r]
                 \/ ~Admitted(study[s], r) /\ w.study.slots[r].attempt = 0
                 \/ /\ ~study[s].slots[r].measured
                    /\ w.study.slots[r].attempt = study[s].slots[r].attempt + 1
      BY <2>6, <2>7, <2>8
    <3> QED BY <3>1, <3>2 DEF Stands
  <2> HIDE DEF s, u
  <2> QED BY <1>1, <1>3, <1>6, <2>1, <2>11, <2>12, <2>13, <2>14, ComputedKeeps
<1> QED BY <1>8, <1>9, <1>10

LEMMA PublishReplayKeeps ==
  ASSUME Inductive, NEW t \in Threads, PublishReplay(t)
  PROVE  Inductive' /\ Lawful
<1> DEFINE s == call[t].study
           u == call[t].unit
           o == u[2]
           result   == Result(s, o)
           reports  == [branch \in 1 .. 2 |->
                     [attempt |-> 0, occurrence |-> o,
                      measured |-> study[s].issued[<<"MEASUREMENT", o, branch>>].value # "FAILED"]]
           reported(slot) == \E branch \in 1 .. 2 : Sides[o][branch] = slot
           first(slot)    == reports[CHOOSE branch \in 1 .. 2 : Sides[o][branch] = slot]
           slots == [slot \in Slots |->
             IF ~Admitted(study[s], slot) /\ reported(slot) THEN first(slot)
             ELSE study[s].slots[slot]]
           contrasts == IF result = None THEN domain.contrasts
                        ELSE Put(domain.contrasts, Contrasts[o], result)
           ended    == [study[s].rces[o] EXCEPT !.state = "TERMINAL", !.result = result]
           audited  == [World(s) EXCEPT
             !.study.rces[o] = ended, !.study.slots = slots,
             !.contrasts = IF result = None THEN @ ELSE Put(@, Contrasts[o], result)]
           closed(w) == [Forget(w, u) EXCEPT !.study.rces[o].bundle = FALSE,
                                             !.tokens = @ \ {RceToken(s, o)}]
<1>1. /\ u[1] = "COMPARE_REPLAY" /\ LiveRce(s, o) /\ Attachable(s, u)
      /\ Payable(s, Publisher(u)) /\ Agrees(Contrasts[o], result) /\ Leave(t)
  BY DEF PublishReplay
<1>2. PICK p \in Publications(s, Publisher(u), result, audited, {}) :
        Becomes(s, IF p.done THEN closed(p.world) ELSE p.world)
  BY DEF PublishReplay
<1>3. Live(s) /\ u \in DOMAIN study[s].pending /\ u \in Computes[s]
  BY <1>1, AttachableProperties
<1>4. /\ s \in Known /\ s \in Studies /\ study[s].state = "ACTIVE"
      /\ Sound(s, study[s], escrow[s], commits[s])
      /\ Shaped(s, study[s], escrow[s], commits[s])
      /\ ListedOf(s) = Owned(s, study[s])
  BY <1>3, LiveProperties
<1>5. Publisher(u) = Compared(o) /\ Replays(s) /\ o \in Rces
  BY <1>1, <1>3, <1>4, PublisherProperties DEF Compared
<1>6. Known' = Known => Calling'
  BY <1>1, CallsLeave DEF Inductive
<1>7. o \in DOMAIN study[s].rces /\ study[s].rces[o].state = "ACTIVE"
  BY <1>1 DEF LiveRce
<1>8. \A slot : reported(slot) => first(slot).attempt = 0
  OBVIOUS
<1> HIDE DEF result, reports, reported, first
<1> DEFINE S1 == [study[s] EXCEPT !.rces[o] = ended]
           A2 == [S1 EXCEPT !.slots = slots]
<1>9. /\ DOMAIN audited = Parts /\ audited.escrow = escrow[s] /\ audited.commits = commits[s]
      /\ audited.contrasts = contrasts /\ audited.tokens = tokens
      /\ audited.study = A2
  <2> DEFINE W == World(s)
             W1 == [W EXCEPT !.study.rces[o] = ended]
             W2 == [W1 EXCEPT !.study.slots = slots]
  <2>1. /\ DOMAIN W = Parts /\ W.study = study[s] /\ W.contrasts = domain.contrasts
        /\ W.tokens = tokens /\ W.escrow = escrow[s] /\ W.commits = commits[s]
    BY WorldProperties
  <2>2. audited = [W2 EXCEPT !.contrasts =
                     IF result = None THEN @ ELSE Put(@, Contrasts[o], result)]
    OBVIOUS
  <2> HIDE DEF W, ended, slots
  <2>3. /\ DOMAIN W1 = Parts /\ W1.study = S1 /\ W1.contrasts = domain.contrasts
        /\ W1.tokens = tokens /\ W1.escrow = escrow[s] /\ W1.commits = commits[s]
    BY <2>1 DEF Parts
  <2> HIDE DEF W1, S1
  <2>4. /\ DOMAIN W2 = Parts /\ W2.study = A2 /\ W2.contrasts = domain.contrasts
        /\ W2.tokens = tokens /\ W2.escrow = escrow[s] /\ W2.commits = commits[s]
    BY <2>3 DEF Parts
  <2> HIDE DEF W2, A2, audited
  <2> QED BY <2>2, <2>4 DEF Parts
<1>10. /\ DOMAIN A2 = Fields /\ A2.state = "ACTIVE" /\ A2.revision = study[s].revision
      /\ A2.issued = study[s].issued /\ A2.pending = study[s].pending
      /\ A2.slots = slots /\ A2.rces = [study[s].rces EXCEPT ![o] = ended]
  <2> HIDE DEF ended, slots
  <2>1. /\ DOMAIN S1 = Fields /\ S1.state = "ACTIVE" /\ S1.revision = study[s].revision
        /\ S1.issued = study[s].issued /\ S1.pending = study[s].pending
        /\ S1.rces = [study[s].rces EXCEPT ![o] = ended]
    BY <1>4 DEF Shaped, Fields
  <2> HIDE DEF S1
  <2> QED BY <2>1 DEF Fields
<1>11. DOMAIN ended = {"state", "bundle", "result"} /\ ended.state = "TERMINAL"
  BY <1>4, <1>7 DEF Shaped
<1> HIDE DEF ended
<1> HIDE DEF audited, A2
<1>12. /\ p.done \in BOOLEAN
       /\ p.done => Changes(World(s), audited, Publisher(u), result, p.world)
       /\ ~p.done => Same(World(s), p.world)
  <2>1. audited.tokens = tokens \cup {} /\ {} \cap tokens = {}
    BY <1>9
  <2> QED BY <1>2, <1>9, <2>1, PublicationOutcome
<1>13. CASE ~p.done
  <2>1. Becomes(s, p.world)
    BY <1>2, <1>13
  <2>2. Calling'
    BY <1>4, <1>6, <2>1, BecomesProperties DEF Inductive
  <2>3. Inductive' /\ \A r \in Known : Still(r)
    BY <1>4, <1>12, <1>13, <2>1, <2>2, SameKeeps
  <2> QED BY <2>3, StillLawful DEF Lawful
<1>14. CASE p.done
  <2> DEFINE w == closed(p.world)
             v == Forget(p.world, u)
  <2>1. Becomes(s, w)
    BY <1>2, <1>14
  <2>2. /\ DOMAIN p.world = Parts /\ p.world.study = [A2 EXCEPT !.revision = @ + 1]
        /\ p.world.contrasts = contrasts /\ p.world.tokens = tokens
        /\ p.world.escrow = [escrow[s] EXCEPT ![Publisher(u)] = "CONSUMED"]
        /\ p.world.commits = Put(commits[s], Publisher(u), result)
    BY <1>9, <1>12, <1>14, WorldProperties DEF Changes
  <2> HIDE DEF slots, contrasts
  <2>3. /\ DOMAIN v = Parts /\ v.contrasts = contrasts /\ v.tokens = tokens
        /\ v.escrow = [escrow[s] EXCEPT ![Publisher(u)] = "CONSUMED"]
        /\ v.commits = Put(commits[s], Publisher(u), result)
        /\ DOMAIN v.study = Fields /\ v.study.state = "ACTIVE"
        /\ v.study.revision = study[s].revision + 1 /\ v.study.issued = study[s].issued
        /\ v.study.slots = slots /\ v.study.rces = A2.rces
        /\ v.study.pending = Restrict(study[s].pending, DOMAIN study[s].pending \ {u})
    BY <1>10, <2>2 DEF Forget, Parts, Fields
  <2> HIDE DEF v
  <2>4. w = [v EXCEPT !.study.rces[o].bundle = FALSE, !.tokens = @ \ {RceToken(s, o)}]
    BY DEF v
  <2> HIDE DEF w
  <2>5. /\ w.contrasts = contrasts /\ w.tokens = tokens \ {RceToken(s, o)}
        /\ w.escrow = v.escrow /\ w.commits = v.commits
        /\ w.study = [v.study EXCEPT !.rces[o].bundle = FALSE]
    BY <2>3, <2>4 DEF Parts
  <2>6. /\ DOMAIN w.study = Fields /\ w.study.state = "ACTIVE"
        /\ w.study.revision = study[s].revision + 1 /\ w.study.issued = study[s].issued
        /\ w.study.slots = slots /\ w.study.pending = v.study.pending
        /\ w.study.rces = [A2.rces EXCEPT ![o].bundle = FALSE]
    BY <2>3, <2>5 DEF Fields
  <2>7. /\ DOMAIN w.study.pending = DOMAIN study[s].pending \ {u}
        /\ \A q \in DOMAIN w.study.pending : w.study.pending[q] = study[s].pending[q]
    <3>1. w.study.pending = Restrict(study[s].pending, DOMAIN study[s].pending \ {u})
      BY <2>3, <2>6
    <3> QED BY <3>1 DEF Restrict
  <2>8. /\ DOMAIN w.study.rces = DOMAIN study[s].rces /\ w.study.rces[o].state = "TERMINAL"
        /\ \A r \in DOMAIN w.study.rces : DOMAIN w.study.rces[r] = {"state", "bundle", "result"}
        /\ \A r \in DOMAIN study[s].rces : r # o => w.study.rces[r].state = study[s].rces[r].state
    <3> DEFINE R == study[s].rces
               R2 == [R EXCEPT ![o] = ended]
               R3 == [R2 EXCEPT ![o].bundle = FALSE]
    <3>1. w.study.rces = R3
      BY <1>10, <2>6
    <3>2. o \in DOMAIN R /\ \A r \in DOMAIN R : DOMAIN R[r] = {"state", "bundle", "result"}
      BY <1>4, <1>7 DEF Shaped
    <3> HIDE DEF R
    <3>3. /\ DOMAIN R2 = DOMAIN R /\ R2[o] = ended
          /\ \A r \in DOMAIN R : r # o => R2[r] = R[r]
      BY <3>2
    <3> HIDE DEF R2
    <3>4. /\ DOMAIN R3 = DOMAIN R /\ R3[o] = [ended EXCEPT !.bundle = FALSE]
          /\ \A r \in DOMAIN R : r # o => R3[r] = R[r]
      BY <3>2, <3>3
    <3>5. DOMAIN R3[o] = {"state", "bundle", "result"} /\ R3[o].state = "TERMINAL"
      BY <1>11, <3>4
    <3> HIDE DEF R3
    <3>6. /\ DOMAIN R3 = DOMAIN R /\ R3[o].state = "TERMINAL"
          /\ \A r \in DOMAIN R3 : DOMAIN R3[r] = {"state", "bundle", "result"}
          /\ \A r \in DOMAIN R : r # o => R3[r].state = R[r].state
      BY <3>2, <3>4, <3>5
    <3> QED BY <3>1, <3>6 DEF R
  <2>9. /\ w.tokens \subseteq tokens /\ \A x \in tokens \ w.tokens : x[1] = s
        /\ {x \in w.tokens : x[1] = s} = Owned(s, w.study)
    <3> DEFINE Terminated(S) ==
                 {RceToken(s, r) : r \in {r \in DOMAIN S.rces : S.rces[r].state = "TERMINAL"}}
    <3>1. RceToken(s, o)[1] = s
      BY DEF RceToken
    <3>2. TokensOf(s, w.study) = TokensOf(s, study[s])
      BY <2>6, <2>8 DEF TokensOf, Issued
    <3>3. Terminated(w.study) = Terminated(study[s]) \cup {RceToken(s, o)}
      BY <1>7, <2>8
    <3>4. Owned(s, w.study) = Owned(s, study[s]) \ {RceToken(s, o)}
      BY <1>4, <2>6, <3>2, <3>3 DEF Owned
    <3> QED BY <1>4, <2>5, <3>1, <3>4 DEF ListedOf
  <2>10. Advanced(s, u, result, w)
    <3>1. Separate(s, w.study) /\ DOMAIN w.study.slots = Slots
      BY <1>5, <2>6 DEF Separate, slots
    <3> QED BY <2>3, <2>5, <2>6, <2>7, <2>8, <2>9, <3>1 DEF Advanced
  <2>11. /\ Known' = Known /\ study'[s] = w.study /\ commits'[s] = w.commits
         /\ domain'.contrasts = w.contrasts
         /\ \A r \in Known : r # s => commits'[r] = commits[r]
    BY <1>4, <2>1, BecomesProperties DEF Inductive, Still
  <2>12. commits'[s] = Put(commits[s], Compared(o), result)
    BY <1>5, <2>3, <2>5, <2>11
  <2>13. Audited'
    <3>1. /\ Known' = Known /\ domain'.contrasts = contrasts
          /\ \A r \in Known : r # s => commits'[r] = commits[r]
          /\ commits'[s] = Put(commits[s], Compared(o), result)
      BY <2>3, <2>5, <2>11, <2>12
    <3>2. Compared(o) \notin StepsIn(commits[s])
      BY <1>1, <1>4, <1>5 DEF Sound, Accounted, Payable, SpentIn
    <3>3. Compared(o) # Opened
      BY DEF Compared, Opened
    <3>4. /\ Answers(commits'[s], o) <=> result # None
          /\ commits'[s][Compared(o)] = result
      BY <3>1, <3>3 DEF Answers, StepsIn, Put
    <3>5. \A q \in Rces : q # o =>
            /\ Answers(commits'[s], q) <=> Answers(commits[s], q)
            /\ Answers(commits[s], q) => commits'[s][Compared(q)] = commits[s][Compared(q)]
      BY <3>1 DEF Answers, StepsIn, Put, Compared
    <3>6. ASSUME result # None, Contrasts[o] \in DOMAIN domain.contrasts
          PROVE  domain.contrasts[Contrasts[o]] = result
      BY <1>1, <3>6 DEF Agrees
    <3>7. /\ DOMAIN contrasts = DOMAIN domain.contrasts
                                 \cup (IF result = None THEN {} ELSE {Contrasts[o]})
          /\ \A c \in DOMAIN domain.contrasts : contrasts[c] = domain.contrasts[c]
          /\ result # None => contrasts[Contrasts[o]] = result
      BY <3>6 DEF contrasts, Put
    <3>8. ASSUME NEW r \in Known, NEW q \in Rces, Answers(commits'[r], q)
          PROVE  /\ Contrasts[q] \in DOMAIN contrasts
                 /\ contrasts[Contrasts[q]] = commits'[r][Compared(q)]
      <4>1. CASE r = s /\ q = o
        BY <3>4, <3>7, <3>8, <4>1
      <4>2. CASE ~(r = s /\ q = o)
        <5>1. /\ Answers(commits[r], q)
              /\ commits'[r][Compared(q)] = commits[r][Compared(q)]
          BY <3>1, <3>5, <3>8, <4>2
        <5> QED BY <3>7, <5>1 DEF Inductive, Audited
      <4> QED BY <4>1, <4>2
    <3>9. ASSUME NEW c \in DOMAIN contrasts
          PROVE  \E r \in Known, q \in Rces : Contrasts[q] = c /\ Answers(commits'[r], q)
      <4>1. CASE c \in DOMAIN domain.contrasts
        <5>1. PICK r \in Known, q \in Rces : Contrasts[q] = c /\ Answers(commits[r], q)
          BY <4>1 DEF Inductive, Audited
        <5>2. ~(r = s /\ q = o)
          BY <3>2, <5>1 DEF Answers
        <5>3. Answers(commits'[r], q)
          BY <3>1, <3>5, <5>1, <5>2
        <5> QED BY <5>1, <5>3
      <4>2. CASE c \notin DOMAIN domain.contrasts
        BY <1>4, <1>5, <3>4, <3>7, <4>2
      <4> QED BY <4>1, <4>2
    <3> QED BY <3>1, <3>8, <3>9 DEF Audited
  <2>14. Stands(s)
    <3>1. /\ Finish \notin DOMAIN commits'[s] \ DOMAIN commits[s]
          /\ study'[s].slots = slots
      BY <2>6, <2>11, <2>12 DEF Finish, Put, Compared
    <3>2. \A r \in Slots : \/ slots[r] = study[s].slots[r]
                           \/ ~Admitted(study[s], r) /\ slots[r].attempt = 0
      BY <1>8 DEF slots
    <3> QED BY <3>1, <3>2 DEF Stands
  <2> HIDE DEF s, u
  <2> QED BY <1>1, <1>3, <1>6, <2>1, <2>10, <2>11, <2>13, <2>14, ComputedKeeps
<1> QED BY <1>12, <1>13, <1>14

(* The step that publishes the report of a study and ends it.              *)
Reporting(s, after) ==
  /\ DOMAIN after = Parts /\ after.escrow = escrow[s] /\ after.commits = commits[s]
  /\ after.contrasts = domain.contrasts /\ after.tokens = tokens
  /\ DOMAIN after.study = Fields /\ after.study.revision = study[s].revision
  /\ after.study.issued = study[s].issued /\ after.study.rces = study[s].rces

LEMMA FinishKeeps ==
  ASSUME Inductive, NEW s, Live(s), Payable(s, Finish), NEW after, Reporting(s, after),
         NEW p \in Publications(s, Finish, study[s].slots, after, {}),
         Becomes(s, IF p.done THEN Reduced(s, p.world, "COMPLETE") ELSE p.world),
         Known' = Known => Calling'
  PROVE  Inductive' /\ Lawful
<1>1. /\ s \in Known /\ s \in Studies /\ study[s].state = "ACTIVE"
      /\ Sound(s, study[s], escrow[s], commits[s])
      /\ Shaped(s, study[s], escrow[s], commits[s])
      /\ ListedOf(s) = Owned(s, study[s])
  BY LiveProperties
<1>2. /\ p.done \in BOOLEAN
      /\ p.done => Changes(World(s), after, Finish, study[s].slots, p.world)
      /\ ~p.done => Same(World(s), p.world)
  <2>1. after.tokens = tokens \cup {} /\ {} \cap tokens = {}
    BY DEF Reporting
  <2> QED BY <2>1, PublicationOutcome DEF Reporting
<1>3. CASE ~p.done
  <2>1. Becomes(s, p.world)
    BY <1>3
  <2>2. Calling'
    BY <1>1, <2>1, BecomesProperties DEF Inductive
  <2>3. Inductive' /\ \A r \in Known : Still(r)
    BY <1>1, <1>2, <1>3, <2>1, <2>2, SameKeeps
  <2> QED BY <2>3, StillLawful DEF Lawful
<1>4. CASE p.done
  <2> DEFINE w  == Reduced(s, p.world, "COMPLETE")
             E2 == [escrow[s] EXCEPT ![Finish] = "CONSUMED"]
             X2 == Put(commits[s], Finish, study[s].slots)
             S1 == p.world.study
             S2 == Study("COMPLETE", S1.revision + 1, S1.environment)
  <2>1. Becomes(s, w)
    BY <1>4
  <2>2. /\ DOMAIN p.world = Parts /\ S1 = [after.study EXCEPT !.revision = @ + 1]
        /\ p.world.contrasts = domain.contrasts /\ p.world.tokens = tokens
        /\ p.world.escrow = E2 /\ p.world.commits = X2
    BY <1>2, <1>4, WorldProperties DEF Changes, Reporting
  <2> HIDE DEF E2, X2
  <2>3. /\ w.study = S2 /\ w.contrasts = domain.contrasts
        /\ w.tokens = tokens \ TokensOf(s, S1)
        /\ w.escrow = Retired(E2) /\ w.commits = X2
    BY <2>2 DEF Reduced, Parts
  <2> HIDE DEF w
  <2>4. /\ S1.revision \in Nat
        /\ S1.issued = study[s].issued /\ S1.rces = study[s].rces
    BY <1>1, <2>2 DEF Reporting, Shaped, Fields
  <2>5. TokensOf(s, S1) = TokensOf(s, study[s])
    BY <2>4 DEF TokensOf, Issued
  <2> HIDE DEF S1
  <2>6. /\ Opened \in DOMAIN X2 /\ StepsIn(X2) = StepsIn(commits[s]) \cup {Finish}
        /\ X2[Finish] = study[s].slots
    BY <1>1 DEF X2, Put, Shaped, StepsIn, Opened, Finish
  <2>7. /\ DOMAIN E2 = Frontier[s] /\ StepsIn(X2) \subseteq Frontier[s]
        /\ StepsIn(X2) \subseteq SpentIn(E2) /\ IsFiniteSet(StepsIn(X2))
    <3>1. DOMAIN E2 = Frontier[s] /\ Finish \in Frontier[s]
      BY <1>1, FrontierProperties DEF E2, Shaped
    <3>2. SpentIn(E2) = SpentIn(escrow[s]) \cup {Finish}
      BY <1>1, <3>1 DEF E2, Shaped, SpentIn
    <3>3. /\ StepsIn(commits[s]) \subseteq Frontier[s] /\ IsFiniteSet(StepsIn(commits[s]))
          /\ StepsIn(commits[s]) \subseteq SpentIn(escrow[s])
      BY <1>1 DEF Sound, Shaped, Accounted
    <3> QED BY <2>6, <3>1, <3>2, <3>3, FS_AddElement
  <2>8. Sound(s, w.study, w.escrow, w.commits)
    <3>1. Sound(s, S2, Retired(E2), X2)
      <4>1. "COMPLETE" # "ACTIVE"
        OBVIOUS
      <4> QED BY <1>1, <2>4, <2>6, <2>7, <4>1, EndedSound
    <3> QED BY <2>3, <3>1
  <2>9. S2.state = "COMPLETE"
    BY StudyProperties
  <2> HIDE DEF S2
  <2>10. /\ \A x \in tokens \cup w.tokens : x[1] # s => (x \in tokens <=> x \in w.tokens)
         /\ {x \in w.tokens : x[1] = s} = Owned(s, w.study)
    <3>1. Owned(s, w.study) = {} /\ Owned(s, study[s]) \subseteq TokensOf(s, study[s])
      BY <1>1, <2>3, <2>9 DEF Owned
    <3>2. \A x \in TokensOf(s, study[s]) : x[1] = s
      BY TokensNamed
    <3> QED BY <1>1, <2>3, <2>5, <3>1, <3>2 DEF ListedOf
  <2>11. /\ Known' = Known /\ study'[s] = S2 /\ commits'[s] = X2
         /\ \A r \in Known : r # s => Still(r)
    BY <1>1, <2>1, <2>3, BecomesProperties DEF Inductive
  <2>12. Audited'
    <3>1. \A o : Finish # Compared(o)
      BY DEF Finish, Compared
    <3>2. \A o \in Rces : /\ Answers(w.commits, o) <=> Answers(commits[s], o)
                          /\ Answers(commits[s], o) =>
                               w.commits[Compared(o)] = commits[s][Compared(o)]
      BY <2>3, <3>1, AnswersKept DEF X2
    <3> QED BY <1>1, <2>1, <2>3, <3>2, UnauditedKeeps
  <2>13. Stands(s)
    BY <2>6, <2>9, <2>11 DEF Stands
  <2>14. Inductive'
    BY <1>1, <2>1, <2>8, <2>10, <2>11, <2>12, ChangeKeeps
  <2> QED BY <2>11, <2>13, <2>14, LiveTimely, OneLawful
<1> QED BY <1>2, <1>3, <1>4

LEMMA PublishStudyKeeps ==
  ASSUME Inductive, NEW t \in Threads, PublishStudy(t)
  PROVE  Inductive' /\ Lawful
<1> DEFINE s      == call[t].study
           u      == call[t].unit
           report == study[s].pending[u].input
           W      == World(s)
           W1     == [W EXCEPT !.study.slots = report]
           after  == [W1 EXCEPT !.study.report = report]
           S1     == [study[s] EXCEPT !.slots = report]
<1>1. u[1] = "COMPARE_CASES" /\ Attachable(s, u) /\ Payable(s, Finish) /\ Leave(t)
  BY DEF PublishStudy
<1>2. Live(s) /\ report = study[s].slots
  BY <1>1, AttachableProperties
<1>3. PICK p \in Publications(s, Finish, study[s].slots, after, {}) :
        Becomes(s, IF p.done THEN Reduced(s, p.world, "COMPLETE") ELSE p.world)
  BY <1>2 DEF PublishStudy
<1>4. Shaped(s, study[s], escrow[s], commits[s])
  BY <1>2, LiveProperties
<1>5. Known' = Known => Calling'
  BY <1>1, CallsLeave DEF Inductive
<1>6. Reporting(s, after)
  <2>1. /\ DOMAIN W = Parts /\ W.study = study[s] /\ W.contrasts = domain.contrasts
        /\ W.tokens = tokens /\ W.escrow = escrow[s] /\ W.commits = commits[s]
    BY WorldProperties
  <2> HIDE DEF W, report
  <2>2. /\ DOMAIN W1 = Parts /\ W1.study = S1 /\ W1.contrasts = domain.contrasts
        /\ W1.tokens = tokens /\ W1.escrow = escrow[s] /\ W1.commits = commits[s]
    BY <2>1 DEF Parts
  <2>3. /\ DOMAIN S1 = Fields /\ S1.revision = study[s].revision
        /\ S1.issued = study[s].issued /\ S1.rces = study[s].rces
    BY <1>4 DEF Shaped, Fields
  <2> HIDE DEF W1, S1
  <2>4. /\ DOMAIN after = Parts /\ after.study = [S1 EXCEPT !.report = report]
        /\ after.contrasts = domain.contrasts
        /\ after.tokens = tokens /\ after.escrow = escrow[s] /\ after.commits = commits[s]
    BY <2>2 DEF Parts
  <2> HIDE DEF after
  <2> QED BY <2>3, <2>4 DEF Reporting, Fields
<1> HIDE DEF after
<1> QED BY <1>1, <1>2, <1>3, <1>5, <1>6, FinishKeeps

LEMMA FinishReplayKeeps ==
  ASSUME Inductive, NEW s \in Studies, FinishReplay(s)
  PROVE  Inductive' /\ Lawful
<1> DEFINE W     == World(s)
           after == [W EXCEPT !.study.report = study[s].slots]
<1>1. Live(s) /\ Payable(s, Finish) /\ call' = call
  BY DEF FinishReplay
<1>2. PICK p \in Publications(s, Finish, study[s].slots, after, {}) :
        Becomes(s, IF p.done THEN Reduced(s, p.world, "COMPLETE") ELSE p.world)
  BY DEF FinishReplay
<1>3. Shaped(s, study[s], escrow[s], commits[s])
  BY <1>1, LiveProperties
<1>4. Known' = Known => Calling'
  BY <1>1, CallsStay DEF Inductive
<1>5. Reporting(s, after)
  <2>1. /\ DOMAIN W = Parts /\ W.study = study[s] /\ W.contrasts = domain.contrasts
        /\ W.tokens = tokens /\ W.escrow = escrow[s] /\ W.commits = commits[s]
    BY WorldProperties
  <2> HIDE DEF W
  <2>2. /\ DOMAIN after = Parts /\ after.study = [study[s] EXCEPT !.report = study[s].slots]
        /\ after.contrasts = domain.contrasts
        /\ after.tokens = tokens /\ after.escrow = escrow[s] /\ after.commits = commits[s]
    BY <2>1 DEF Parts
  <2> HIDE DEF after
  <2> QED BY <1>3, <2>2 DEF Reporting, Shaped, Fields
<1> HIDE DEF after
<1> QED BY <1>1, <1>2, <1>4, <1>5, FinishKeeps

-----------------------------------------------------------------------------
LEMMA InductiveInit == Init => Inductive
<1> SUFFICES ASSUME Init PROVE Inductive
  OBVIOUS
<1>1. Known = {} /\ DOMAIN escrow = {} /\ DOMAIN commits = {} /\ tokens = {}
  BY DEF Init, Known
<1>2. DOMAIN domain.contrasts = {} /\ Typed
  BY <1>1 DEF Init, Typed
<1>3. Calling
  BY DEF Init, Calling, Resting
<1>4. Studied /\ Listed /\ Audited
  BY <1>1, <1>2 DEF Studied, Listed, Audited
<1> QED BY <1>2, <1>3, <1>4 DEF Inductive

LEMMA NextKeeps ==
  ASSUME Inductive, Next
  PROVE  Inductive' /\ Lawful
<1>1. ASSUME NEW s \in Studies, OpenStudy(s) \/ FinishReplay(s) \/ AbortStudy(s)
      PROVE  Inductive' /\ Lawful
  BY <1>1, OpenStudyKeeps, FinishReplayKeeps, EndingsKeep
<1>2. ASSUME NEW s \in Studies, NEW slot \in Slots, RequestCase(s, slot)
      PROVE  Inductive' /\ Lawful
  BY <1>2, RequestCaseKeeps
<1>3. ASSUME NEW s \in Studies,
             \/ \E n \in Cases[s] : IssueCase(s, n)
             \/ \E slot \in Slots : IssueControl(s, ApplicationKey(slot))
             \/ IssueControl(s, ProtocolKey)
             \/ \E o \in Rces, branch \in 1 .. 2 : IssueReceipt(s, o, branch)
      PROVE  Inductive' /\ Lawful
  BY <1>3, IssuesKeep
<1>4. ASSUME NEW s \in Studies, NEW o \in Rces, OpenRce(s, o) \/ AdmitBundle(s, o)
      PROVE  Inductive' /\ Lawful
  BY <1>4, OpenRceKeeps, AdmitBundleKeeps
<1>5. ASSUME NEW s \in Studies, NEW t \in Threads, NEW unit \in Computes[s], Prepare(t, s, unit)
      PROVE  Inductive' /\ Lawful
  BY <1>5, PrepareKeeps
<1>6. ASSUME NEW t \in Threads, Claim(t) \/ Compute(t)
      PROVE  Inductive' /\ Lawful
  BY <1>6, ClaimKeeps, ComputeKeeps
<1>7. ASSUME NEW t \in Threads, CheckCompleted(t) \/ RecheckCase(t) \/ Refused(t)
      PROVE  Inductive' /\ Lawful
  BY <1>7, MovesKeep
<1>8. ASSUME NEW t \in Threads, PublishCase(t) \/ PublishStudy(t) \/ PublishReplay(t)
      PROVE  Inductive' /\ Lawful
  BY <1>8, PublishCaseKeeps, PublishStudyKeeps, PublishReplayKeeps
<1>9. CASE Revise \/ CloseDomain \/ BeginClose
  BY <1>9, EndingsKeep
<1>10. CASE OpenEpoch \/ CloseEpoch
  BY <1>10, OpenEpochKeeps, CloseEpochKeeps
<1> QED BY <1>1, <1>2, <1>3, <1>4, <1>5, <1>6, <1>7, <1>8, <1>9, <1>10 DEF Next

LEMMA StepKeeps ==
  ASSUME Inductive, [Next]_vars
  PROVE  Inductive' /\ Lawful
<1>1. CASE UNCHANGED vars
  <2>1. UNCHANGED <<domain, tokens, study, escrow, commits, call>>
    BY <1>1 DEF vars
  <2>2. Calling'
    BY <2>1, CallsStay DEF Inductive, Known
  <2> QED BY <2>1, <2>2, StillKeeps
<1> QED BY <1>1, NextKeeps

LEMMA AlwaysInductive == Spec => []Inductive
<1>1. Inductive /\ [Next]_vars => Inductive'
  BY StepKeeps
<1> QED BY <1>1, InductiveInit, PTL DEF Spec

-----------------------------------------------------------------------------
(* A unit of the escrow is spent for each effect of a study and for each   *)
(* computation that is pending or published, its revision counts the       *)
(* effects, and a study that is over has nothing reserved: whatever        *)
(* exception stopped whichever publication (_Domain.publish, reduce).      *)
THEOREM AccountsAlwaysAgree == Spec => []AccountsAgree
<1>1. Inductive => AccountsAgree
  <2> SUFFICES ASSUME Inductive, NEW s \in Known
               PROVE  /\ s \in Active =>
                           /\ Consumed(s) = Steps(s) \cup DOMAIN study[s].pending
                                \cup {u \in Computes[s] : Publisher(u) \in Steps(s)}
                           /\ study[s].revision = Cardinality(Steps(s))
                      /\ Steps(s) \subseteq Consumed(s)
                      /\ s \notin Active => \A u \in DOMAIN escrow[s] : escrow[s][u] # "RESERVED"
    BY DEF AccountsAgree
  <2>1. Accounted(s, study[s], escrow[s], commits[s])
    BY DEF Inductive, Studied, Sound
  <2>2. Steps(s) = StepsIn(commits[s]) /\ Consumed(s) = SpentIn(escrow[s])
    BY DEF Steps, StepsIn, Consumed, SpentIn
  <2>3. s \in Active <=> study[s].state = "ACTIVE"
    BY DEF Active
  <2> QED BY <2>1, <2>2, <2>3 DEF Accounted
<1> QED BY <1>1, AlwaysInductive, PTL

(* The two sides of an independent comparison never rest on one occurrence *)
(* (case_input), whatever the plans, threads and cases.                    *)
THEOREM ComparatorsStayIndependent == Spec => []ComparatorsAreIndependent
<1>1. Inductive => ComparatorsAreIndependent
  <2> SUFFICES ASSUME Inductive, NEW s \in Active, NEW pair \in Independent,
                      ~Replays(s), Admitted(study[s], pair[1])
               PROVE  study[s].slots[pair[1]].occurrence # study[s].slots[pair[2]].occurrence
    BY DEF ComparatorsAreIndependent
  <2> QED BY DEF Inductive, Studied, Sound, Separate, Active
<1> QED BY <1>1, AlwaysInductive, PTL

(* One contrast has one result in a domain, and the audit that enforces it *)
(* holds the published results and no other (publish_comparison).          *)
THEOREM AuditIsAlwaysPublished == Spec => []AuditIsPublished
<1>1. Inductive => AuditIsPublished
  BY AuditedIsPublished DEF Inductive
<1> QED BY <1>1, AlwaysInductive, PTL

(* The registry lists the handles of active studies and no other, and a    *)
(* study that is over keeps nothing (reduce, and the rollback of publish). *)
THEOREM RegistryIsAlwaysExact == Spec => []RegistryIsExact
<1>1. ASSUME Inductive
      PROVE  RegistryIsExact
  <2> DEFINE Left(s) == TokensOf(s, study[s]) \ {RceToken(s, o) : o \in Ended(s)}
  <2>1. \A s \in Known \ Active :
          study[s] = Study(study[s].state, study[s].revision, study[s].environment)
    BY <1>1 DEF Inductive, Studied, Sound, Over, Active
  <2>2. \A s \in Active : ListedOf(s) = Left(s)
    <3>1. \A s : {RceToken(s, o) : o \in Ended(s)} =
            {RceToken(s, o) :
               o \in {r \in DOMAIN study[s].rces : study[s].rces[r].state = "TERMINAL"}}
      BY DEF Ended
    <3> QED BY <1>1, <3>1 DEF Inductive, Listed, Owned, Active
  <2>3. \A x \in tokens : x[1] \in Active
    BY <1>1 DEF Inductive, Listed, ListedOf, Owned, Active
  <2>4. tokens = UNION {Left(s) : s \in Active}
    <3> HIDE DEF Left
    <3> QED BY <2>2, <2>3 DEF ListedOf
  <2> QED BY <2>1, <2>4 DEF RegistryIsExact
<1> QED BY <1>1, AlwaysInductive, PTL

(* A slot takes its first case or the next attempt after one that was not  *)
(* measured, and the report of a study says what was admitted when it was  *)
(* published (admit_case, publish_comparison).                             *)
THEOREM AdmissionsAlwaysStand == Spec => AdmissionsStand
<1> DEFINE Admissions ==
      \A s \in Active :
        /\ s \in Active' => \A slot \in Slots :
             LET old == study[s].slots[slot]
                 new == study'[s].slots[slot]
             IN \/ new = old
                \/ ~Admitted(study[s], slot) /\ new.attempt = 0
                \/ ~old.measured /\ new.attempt = old.attempt + 1
        /\ Finish \in DOMAIN commits'[s] \ DOMAIN commits[s] =>
             commits'[s][Finish] = study[s].slots
<1>1. Inductive /\ [Next]_vars => Admissions
  <2> SUFFICES ASSUME Inductive, [Next]_vars PROVE Admissions
    OBVIOUS
  <2>1. \A s \in Active : Stands(s) /\ study[s].state = "ACTIVE"
    BY StepKeeps DEF Lawful, Active
  <2>2. \A s : s \in Active' => s \in Known' /\ study'[s].state = "ACTIVE"
    BY DEF Active
  <2> QED BY <2>1, <2>2 DEF Stands
<1> HIDE DEF Admissions
<1>2. [][Admissions]_vars <=> AdmissionsStand
  BY DEF Admissions, AdmissionsStand
<1> QED BY <1>1, <1>2, AlwaysInductive, PTL DEF Spec

(* Nothing of a study is published after its domain was revised or its     *)
(* invocation began to close, even if its reduction did not succeed.       *)
THEOREM AlwaysPublishesInItsEnvironment == Spec => PublishesInItsEnvironment
<1> DEFINE InTime ==
      \A s \in Known : Steps(s)' # Steps(s) =>
        lifecycle = "ACTIVE" /\ study[s].environment = domain.revision
<1>1. Inductive /\ [Next]_vars => InTime
  <2> SUFFICES ASSUME Inductive, [Next]_vars PROVE InTime
    OBVIOUS
  <2>1. \A s \in Known : Timely(s)
    BY StepKeeps DEF Lawful
  <2>2. \A s : Steps(s) = StepsIn(commits[s]) /\ Steps(s)' = StepsIn(commits'[s])
    BY DEF Steps, StepsIn
  <2> QED BY <2>1, <2>2 DEF Timely
<1> HIDE DEF InTime
<1>2. [][InTime]_vars <=> PublishesInItsEnvironment
  BY DEF InTime, PublishesInItsEnvironment
<1> QED BY <1>1, <1>2, AlwaysInductive, PTL DEF Spec

-----------------------------------------------------------------------------
(* The trusted issuers, for any number of Cores, identities, occurrences,  *)
(* events and invalidations: nothing is authorized twice, no assumed       *)
(* constraint outlives its assumption, and no event of a Core passes its   *)
(* prediction by.                                                          *)

Keys    == FormalKinds \X Occurrences \cup {"EXTERNAL_OBSERVATION"} \X Nat
Records == [revision : Nat, payload : [content : Contents, assumption : Occurrences \cup {Absent}]]
Indexes == UNION {[K -> Records] : K \in SUBSET Keys}
Issuers == [status : {"unborn", "live", "unowned", "removed"}, core : Cores \cup {Absent},
            revision : Nat, prediction : BOOLEAN, index : Indexes]
Audits  == [root : Nat, continuity : Nat, seen : Int,
            seenBy : Runtimes \cup {Absent}, prediction : Runtimes \cup {Absent}]

IssuersTyped ==
  /\ audit \in [Cores -> Audits] /\ issuer \in [Runtimes -> Issuers]
  /\ delivered \in [Cores -> Nat]
  /\ \A r \in Registered : CoreOf(r) \in Cores

(* An index holds what was issued, not more than the capacity of it, and   *)
(* nothing of a revision to come.                                          *)
Indexed ==
  \A r \in Runtimes :
    /\ IsFiniteSet(DOMAIN issuer[r].index) /\ Cardinality(DOMAIN issuer[r].index) <= Capacity
    /\ \A k \in DOMAIN issuer[r].index : issuer[r].index[k].revision <= issuer[r].revision

(* An identity that was not used, or is used no longer, has nothing.       *)
Empty ==
  \A r \in Runtimes :
    /\ issuer[r].status = "unborn" => issuer[r] = Unborn
    /\ issuer[r].prediction => r \in Registered

(* An assumed constraint that is current has a current assumption.         *)
Supported(index, revision) ==
  \A k \in DOMAIN index :
    index[k].revision = revision /\ index[k].payload.assumption # Absent =>
      LET key == <<"FORMAL_ASSUMPTION", index[k].payload.assumption>>
      IN key \in DOMAIN index /\ index[key].revision = revision

Standing == \A r \in Runtimes : Supported(issuer[r].index, issuer[r].revision)

(* What was minted for a source is on record with its issuer as long as    *)
(* that one can issue, or lies behind the watermark of its Core.           *)
Recorded(r, key) == key \in DOMAIN issuer[r].index \/ issuer[r].status = "removed"

OnceEach ==
  /\ minted = [x \in DOMAIN minted |-> 1]
  /\ \A r \in Runtimes, key \in Keys :
       <<r, key>> \in DOMAIN minted => Recorded(r, key)
  /\ \A c \in Cores, root \in Nat : <<c, root>> \in DOMAIN minted =>
       /\ root <= audit[c].seen
       /\ \A r \in Runtimes : root = audit[c].seen /\ audit[c].seenBy = r =>
            Recorded(r, <<"EXTERNAL_OBSERVATION", root>>)

Issuing ==
  /\ IssuersTyped /\ Indexed /\ Empty /\ OnceEach
  /\ Standing /\ PredictionSeesEveryEvent

-----------------------------------------------------------------------------
LEMMA NoIndex == <<>> \in Indexes /\ DOMAIN <<>> = {}
<1>1. DOMAIN <<>> = {}
  OBVIOUS
<1>2. <<>> \in [{} -> Records]
  OBVIOUS
<1> QED BY <1>1, <1>2 DEF Indexes

LEMMA IndexExtended ==
  ASSUME NEW f \in Indexes, NEW key \in Keys, NEW x \in Records
  PROVE  LET g == [k \in DOMAIN f \cup {key} |-> IF k = key THEN x ELSE f[k]]
         IN /\ g \in Indexes /\ DOMAIN g = DOMAIN f \cup {key}
            /\ g[key] = x /\ \A k \in DOMAIN f : k # key => g[k] = f[k]
<1> DEFINE g == [k \in DOMAIN f \cup {key} |-> IF k = key THEN x ELSE f[k]]
<1>1. PICK K \in SUBSET Keys : f \in [K -> Records]
  BY DEF Indexes
<1>2. K \cup {key} \in SUBSET Keys /\ DOMAIN f = K
  BY <1>1
<1>3. g \in [K \cup {key} -> Records]
  BY <1>1, <1>2
<1>4. g \in Indexes
  BY <1>2, <1>3 DEF Indexes
<1> QED BY <1>4

LEMMA IndexValue ==
  ASSUME NEW f \in Indexes, NEW k \in DOMAIN f
  PROVE  k \in Keys /\ f[k] \in Records
BY DEF Indexes

LEMMA IssuingInit == IngressInit => Issuing
<1> SUFFICES ASSUME IngressInit PROVE Issuing
  OBVIOUS
<1>1. \A r \in Runtimes : issuer[r] = Unborn
  BY DEF IngressInit
<1>2. Registered = {}
  BY <1>1 DEF Registered, Unborn
<1>3. Unborn \in Issuers /\ Unborn.index = <<>> /\ ~Unborn.prediction
  BY NoIndex DEF Unborn, Issuers
<1>4. IssuersTyped
  BY <1>2, <1>3 DEF IssuersTyped, IngressInit, Audits
<1>5. Indexed
  BY <1>1, <1>3, NoIndex, FS_EmptySet, IngressAssumption DEF Indexed
<1>6. DOMAIN minted = {} /\ minted = [x \in DOMAIN minted |-> 1]
  BY DEF IngressInit
<1>7. Empty /\ OnceEach
  BY <1>1, <1>3, <1>6 DEF Empty, OnceEach
<1>8. Standing
  BY <1>1, <1>3, NoIndex DEF Standing, Supported
<1>9. PredictionSeesEveryEvent
  BY <1>2 DEF PredictionSeesEveryEvent, IngressInit
<1> QED BY <1>4, <1>5, <1>7, <1>8, <1>9 DEF Issuing

-----------------------------------------------------------------------------
(* A step that issues nothing: an issuer keeps its index and its revision  *)
(* may rise, or it is removed.                                             *)
LEMMA NothingIssued ==
  ASSUME Issuing, NEW r \in Runtimes, NEW new \in Issuers,
         issuer' = [issuer EXCEPT ![r] = new],
         new.index = issuer[r].index \/ (new.index = <<>> /\ new.status = "removed"),
         new.revision >= issuer[r].revision,
         issuer[r].status = "removed" => new.status = "removed",
         minted' = minted,
         \A c \in Cores : audit'[c].seen = audit[c].seen /\ audit'[c].seenBy = audit[c].seenBy
  PROVE  Indexed' /\ OnceEach' /\ Standing'
<1>1. /\ issuer'[r] = new /\ issuer[r] \in Issuers
      /\ \A s \in Runtimes \ {r} : issuer'[s] = issuer[s]
  BY DEF Issuing, IssuersTyped
<1>2. new.revision \in Nat /\ issuer[r].revision \in Nat
  BY <1>1 DEF Issuers
<1>3. \A k \in DOMAIN issuer[r].index :
        issuer[r].index[k].revision \in Nat /\ issuer[r].index[k].revision <= issuer[r].revision
  <2> SUFFICES ASSUME NEW k \in DOMAIN issuer[r].index
               PROVE  issuer[r].index[k].revision \in Nat
                      /\ issuer[r].index[k].revision <= issuer[r].revision
    OBVIOUS
  <2>1. issuer[r].index \in Indexes
    BY <1>1 DEF Issuers
  <2>2. issuer[r].index[k] \in Records
    BY <2>1, IndexValue
  <2> QED BY <2>2 DEF Issuing, Indexed, Records
<1>4. Indexed'
  <2> SUFFICES ASSUME NEW s \in Runtimes
               PROVE  /\ IsFiniteSet(DOMAIN issuer'[s].index)
                      /\ Cardinality(DOMAIN issuer'[s].index) <= Capacity
                      /\ \A k \in DOMAIN issuer'[s].index :
                           issuer'[s].index[k].revision <= issuer'[s].revision
    BY DEF Indexed
  <2>1. CASE s # r
    BY <1>1, <2>1 DEF Issuing, Indexed
  <2>2. CASE s = r /\ new.index = <<>>
    BY <1>1, <2>2, NoIndex, FS_EmptySet, IngressAssumption
  <2>3. CASE s = r /\ new.index = issuer[r].index
    <3>1. /\ IsFiniteSet(DOMAIN issuer[r].index)
          /\ Cardinality(DOMAIN issuer[r].index) <= Capacity
      BY DEF Issuing, Indexed
    <3>2. \A k \in DOMAIN issuer[r].index : issuer[r].index[k].revision <= new.revision
      BY <1>2, <1>3
    <3> QED BY <1>1, <2>3, <3>1, <3>2
  <2> QED BY <2>1, <2>2, <2>3
<1>5. OnceEach'
  <2>1. \A s \in Runtimes, key \in Keys : Recorded(s, key) => Recorded(s, key)'
    BY <1>1 DEF Recorded
  <2>2. \A root \in Nat : <<"EXTERNAL_OBSERVATION", root>> \in Keys
    BY DEF Keys
  <2> QED BY <2>1, <2>2 DEF Issuing, OnceEach
<1>6. Standing'
  <2> SUFFICES ASSUME NEW s \in Runtimes
               PROVE  Supported(issuer'[s].index, issuer'[s].revision)
    BY DEF Standing, Supported
  <2>1. CASE s # r
    BY <1>1, <2>1 DEF Issuing, Standing
  <2>2. CASE s = r /\ new.index = <<>>
    BY <1>1, <2>2, NoIndex DEF Supported
  <2>3. CASE s = r /\ new.index = issuer[r].index /\ new.revision = issuer[r].revision
    BY <1>1, <2>3 DEF Issuing, Standing
  <2>4. CASE s = r /\ new.index = issuer[r].index /\ new.revision > issuer[r].revision
    <3>1. \A k \in DOMAIN new.index : new.index[k].revision # new.revision
      BY <1>2, <1>3, <2>4
    <3> QED BY <1>1, <2>4, <3>1 DEF Supported
  <2> QED BY <1>2, <2>1, <2>2, <2>3, <2>4
<1> QED BY <1>4, <1>5, <1>6

(* The fields of an issuer.                                                *)
LEMMA IssuerFields ==
  ASSUME IssuersTyped, NEW r \in Runtimes
  PROVE  /\ issuer[r] \in Issuers /\ issuer[r].revision \in Nat /\ issuer[r].index \in Indexes
         /\ issuer[r].prediction \in BOOLEAN /\ issuer[r].core \in Cores \cup {Absent}
         /\ issuer[r].status \in {"unborn", "live", "unowned", "removed"}
         /\ LiveIssuer(r) => r \in Registered /\ CoreOf(r) \in Cores
         /\ issuer[r] = [status |-> issuer[r].status, core |-> issuer[r].core,
                         revision |-> issuer[r].revision, prediction |-> issuer[r].prediction,
                         index |-> issuer[r].index]
BY DEF IssuersTyped, Issuers, Registered, LiveIssuer, CoreOf

LEMMA CreateKeeps ==
  ASSUME Issuing, NEW r \in Runtimes, NEW c \in Cores, Create(r, c)
  PROVE  Issuing'
<1> DEFINE new == [Unborn EXCEPT !.status = "live", !.core = c]
<1>1. /\ new \in Issuers /\ new.status = "live" /\ new.core = c /\ new.revision = 0
      /\ ~new.prediction /\ new.index = <<>>
  BY NoIndex DEF Unborn, Issuers
<1>2. /\ issuer' = [issuer EXCEPT ![r] = new] /\ UNCHANGED <<audit, minted, delivered>>
      /\ issuer[r].status = "unborn" /\ r \notin Registered
      /\ \A s \in Registered : CoreOf(s) # c
  BY DEF Create, Used, Registered
<1> HIDE DEF new
<1>3. issuer'[r] = new /\ \A s \in Runtimes \ {r} : issuer'[s] = issuer[s]
  BY <1>2 DEF Issuing, IssuersTyped
<1>4. Registered' = Registered \cup {r}
  BY <1>1, <1>3 DEF Registered
<1>5. IssuersTyped'
  BY <1>1, <1>2, <1>3, <1>4 DEF Issuing, IssuersTyped, CoreOf
<1>6. Indexed' /\ OnceEach' /\ Standing'
  <2>1. issuer[r].index = <<>> /\ issuer[r].revision = 0
    BY <1>2 DEF Issuing, Empty, Unborn
  <2>2. minted' = minted /\ audit' = audit
    BY <1>2
  <2>3. new.revision >= issuer[r].revision /\ new.index = issuer[r].index
    BY <1>1, <2>1
  <2> QED BY <1>1, <1>2, <2>2, <2>3, NothingIssued
<1>7. Empty'
  <2> SUFFICES ASSUME NEW s \in Runtimes
               PROVE  /\ issuer'[s].status = "unborn" => issuer'[s] = Unborn
                      /\ issuer'[s].prediction => s \in Registered'
    BY DEF Empty
  <2>1. CASE s = r
    BY <1>1, <1>3, <2>1
  <2>2. CASE s # r
    BY <1>3, <1>4, <2>2 DEF Issuing, Empty
  <2> QED BY <2>1, <2>2
<1>9. PredictionSeesEveryEvent'
  BY <1>1, <1>2, <1>3, <1>4 DEF Issuing, PredictionSeesEveryEvent, CoreOf, LiveIssuer
<1> QED BY <1>5, <1>6, <1>7, <1>9 DEF Issuing

LEMMA AbandonKeeps ==
  ASSUME Issuing, NEW r \in Runtimes, Abandon(r)
  PROVE  Issuing'
<1> DEFINE new == [issuer[r] EXCEPT !.status = "unowned"]
<1>1. /\ issuer[r] \in Issuers /\ issuer[r].revision \in Nat /\ LiveIssuer(r)
      /\ issuer[r].status = "live" /\ r \in Registered
  BY IssuerFields DEF Issuing, Abandon, LiveIssuer, Registered
<1>2. /\ new \in Issuers /\ new.status = "unowned" /\ new.core = issuer[r].core
      /\ new.revision = issuer[r].revision /\ new.prediction = issuer[r].prediction
      /\ new.index = issuer[r].index
  BY <1>1 DEF Issuers
<1>3. /\ issuer' = [issuer EXCEPT ![r] = new]
      /\ minted' = minted /\ audit' = audit /\ delivered' = delivered
  BY DEF Abandon
<1> HIDE DEF new
<1>4. issuer'[r] = new /\ \A s \in Runtimes \ {r} : issuer'[s] = issuer[s]
  BY <1>3 DEF Issuing, IssuersTyped
<1>5. Registered' = Registered
  BY <1>1, <1>2, <1>4 DEF Registered
<1>6. \A s \in Runtimes : CoreOf(s)' = CoreOf(s) /\ issuer'[s].prediction = issuer[s].prediction
                         /\ (LiveIssuer(s)' => LiveIssuer(s))
  BY <1>1, <1>2, <1>4 DEF CoreOf, LiveIssuer
<1>7. IssuersTyped'
  BY <1>1, <1>2, <1>3, <1>5, <1>6 DEF Issuing, IssuersTyped, Registered
<1>8. Indexed' /\ OnceEach' /\ Standing'
  <2>1. new.revision >= issuer[r].revision
    BY <1>1, <1>2
  <2> QED BY <1>1, <1>2, <1>3, <2>1, NothingIssued
<1>9. Empty'
  BY <1>2, <1>4, <1>5, <1>6 DEF Issuing, Empty
<1>10. PredictionSeesEveryEvent'
  BY <1>3, <1>5, <1>6 DEF Issuing, PredictionSeesEveryEvent, Registered
<1> QED BY <1>7, <1>8, <1>9, <1>10 DEF Issuing

LEMMA InvalidateKeeps ==
  ASSUME Issuing, NEW r \in Runtimes, Invalidate(r)
  PROVE  Issuing'
<1> DEFINE new == [issuer[r] EXCEPT !.revision = @ + 1]
<1>1. /\ issuer[r] \in Issuers /\ issuer[r].revision \in Nat /\ issuer[r].status = "live"
  BY IssuerFields DEF Issuing, Invalidate, LiveIssuer
<1>2. /\ new \in Issuers /\ new.status = "live" /\ new.core = issuer[r].core
      /\ new.revision = issuer[r].revision + 1 /\ new.prediction = issuer[r].prediction
      /\ new.index = issuer[r].index
  <2>1. issuer[r].revision + 1 \in Nat
    BY <1>1
  <2> QED BY <1>1, <2>1 DEF Issuers
<1>3. /\ issuer' = [issuer EXCEPT ![r] = new]
      /\ minted' = minted /\ audit' = audit /\ delivered' = delivered
  BY DEF Invalidate
<1> HIDE DEF new
<1>4. issuer'[r] = new /\ \A s \in Runtimes \ {r} : issuer'[s] = issuer[s]
  BY <1>3 DEF Issuing, IssuersTyped
<1>5. Registered' = Registered
  BY <1>1, <1>2, <1>4 DEF Registered
<1>6. \A s \in Runtimes : CoreOf(s)' = CoreOf(s) /\ issuer'[s].prediction = issuer[s].prediction
                         /\ (LiveIssuer(s)' => LiveIssuer(s))
  BY <1>1, <1>2, <1>4 DEF CoreOf, LiveIssuer
<1>7. IssuersTyped'
  BY <1>1, <1>2, <1>3, <1>5, <1>6 DEF Issuing, IssuersTyped, Registered
<1>8. Indexed' /\ OnceEach' /\ Standing'
  <2>1. new.revision >= issuer[r].revision
    BY <1>1, <1>2
  <2> QED BY <1>1, <1>2, <1>3, <2>1, NothingIssued
<1>9. Empty'
  BY <1>2, <1>4, <1>5, <1>6 DEF Issuing, Empty
<1>10. PredictionSeesEveryEvent'
  BY <1>3, <1>5, <1>6 DEF Issuing, PredictionSeesEveryEvent, Registered
<1> QED BY <1>7, <1>8, <1>9, <1>10 DEF Issuing

(* A removed issuer takes its prediction from the audit of the Core.       *)
LEMMA RemovedKeeps ==
  ASSUME Issuing, NEW r \in Runtimes, issuer[r].status # "unborn",
         Removed(r), UNCHANGED <<minted, delivered>>
  PROVE  Issuing'
<1> DEFINE new == [issuer[r] EXCEPT !.status = "removed", !.revision = @ + 1,
                                    !.prediction = FALSE, !.index = <<>>]
<1>1. issuer[r] \in Issuers /\ issuer[r].revision \in Nat /\ issuer[r].prediction \in BOOLEAN
  BY IssuerFields DEF Issuing
<1>2. /\ new \in Issuers /\ new.status = "removed" /\ new.core = issuer[r].core
      /\ new.revision = issuer[r].revision + 1 /\ new.prediction = FALSE
      /\ new.index = <<>>
  <2>1. issuer[r].revision + 1 \in Nat
    BY <1>1
  <2> QED BY <1>1, <2>1, NoIndex DEF Issuers
<1>3. issuer' = [issuer EXCEPT ![r] = new] /\ minted' = minted /\ delivered' = delivered
  <2>1. issuer' = [issuer EXCEPT ![r] = new]
    BY ONLY Removed(r) DEF Removed
  <2> QED BY <2>1
<1> HIDE DEF new
<1>4. issuer'[r] = new /\ \A s \in Runtimes \ {r} : issuer'[s] = issuer[s]
  BY <1>3 DEF Issuing, IssuersTyped
<1>5. Registered' = Registered \ {r}
  BY <1>2, <1>4 DEF Registered
<1>6. \A s \in Runtimes \ {r} : CoreOf(s)' = CoreOf(s) /\ (LiveIssuer(s)' <=> LiveIssuer(s))
  BY <1>4 DEF CoreOf, LiveIssuer
<1>7. issuer[r].prediction => r \in Registered /\ CoreOf(r) \in Cores /\ audit[CoreOf(r)].prediction = r
  BY DEF Issuing, Empty, IssuersTyped, PredictionSeesEveryEvent
<1>8. /\ audit' = [c \in Cores |-> audit'[c]]
      /\ \A c \in Cores :
        /\ audit'[c] \in Audits /\ audit'[c].root = audit[c].root
        /\ audit'[c].seen = audit[c].seen /\ audit'[c].seenBy = audit[c].seenBy
        /\ audit'[c].prediction = IF audit[c].prediction = r THEN Absent ELSE audit[c].prediction
  <2>1. CASE issuer[r].prediction
    <3>1. audit' = [audit EXCEPT ![CoreOf(r)].prediction = Absent]
      BY <1>7, <2>1 DEF Removed
    <3>2. \A c \in Cores : audit[c].prediction = r => c = CoreOf(r)
      BY IngressAssumption DEF Issuing, PredictionSeesEveryEvent
    <3>3. audit' = [c \in Cores |-> audit'[c]]
      BY <3>1 DEF Issuing, IssuersTyped
    <3>4. \A c \in Cores : audit[c] \in Audits
      BY DEF Issuing, IssuersTyped
    <3>5. audit'[CoreOf(r)] = [audit[CoreOf(r)] EXCEPT !.prediction = Absent]
      BY <1>7, <2>1, <3>1 DEF Issuing, IssuersTyped
    <3>6. \A c \in Cores : c # CoreOf(r) => audit'[c] = audit[c]
      BY <3>1 DEF Issuing, IssuersTyped
    <3> QED BY <1>7, <2>1, <3>2, <3>3, <3>4, <3>5, <3>6 DEF Audits
  <2>2. CASE ~issuer[r].prediction
    <3>1. audit' = audit
      BY <2>2 DEF Removed
    <3>2. \A c \in Cores : audit[c].prediction # r
      BY <2>2, IngressAssumption DEF Issuing, PredictionSeesEveryEvent
    <3>3. audit = [c \in Cores |-> audit[c]] /\ \A c \in Cores : audit[c] \in Audits
      BY DEF Issuing, IssuersTyped
    <3> QED BY <3>1, <3>2, <3>3
  <2> QED BY <2>1, <2>2
<1>9. IssuersTyped'
  <2>1. audit' \in [Cores -> Audits]
    BY <1>8
  <2>2. issuer' \in [Runtimes -> Issuers] /\ delivered' \in [Cores -> Nat]
    BY <1>2, <1>3 DEF Issuing, IssuersTyped
  <2>3. \A s \in Registered' : s \in Registered /\ s \in Runtimes \ {r}
    BY <1>5 DEF Registered
  <2>4. \A s \in Registered' : CoreOf(s)' \in Cores
    BY <1>6, <2>3 DEF Issuing, IssuersTyped
  <2> QED BY <2>1, <2>2, <2>4 DEF IssuersTyped
<1>10. Indexed' /\ OnceEach' /\ Standing'
  <2>1. new.revision >= issuer[r].revision
    BY <1>1, <1>2
  <2> QED BY <1>2, <1>3, <1>8, <2>1, NothingIssued
<1>11. Empty'
  BY <1>2, <1>4, <1>5 DEF Issuing, Empty
<1>12. PredictionSeesEveryEvent'
  <2>1. \A s, t \in Registered' : CoreOf(s)' = CoreOf(t)' => s = t
    BY <1>5, <1>6 DEF Issuing, PredictionSeesEveryEvent, Registered
  <2>2. ASSUME NEW s \in Registered', issuer'[s].prediction
        PROVE  audit'[CoreOf(s)'].prediction = s
    <3>1. s \in Registered /\ s # r /\ CoreOf(s)' = CoreOf(s) /\ issuer[s].prediction
      BY <1>4, <1>5, <1>6, <2>2 DEF Registered
    <3>2. audit[CoreOf(s)].prediction = s /\ CoreOf(s) \in Cores
      BY <3>1 DEF Issuing, IssuersTyped, PredictionSeesEveryEvent
    <3> QED BY <1>8, <3>1, <3>2
  <2>3. ASSUME NEW c \in Cores, NEW s, s = audit'[c].prediction, s # Absent
        PROVE  /\ s \in Registered' /\ CoreOf(s)' = c /\ issuer'[s].prediction
               /\ LiveIssuer(s)' => delivered'[c] = audit'[c].root
    <3>1. s # r /\ s = audit[c].prediction
      BY <1>8, <2>3
    <3>2. /\ s \in Registered /\ CoreOf(s) = c /\ issuer[s].prediction
          /\ LiveIssuer(s) => delivered[c] = audit[c].root
      BY <2>3, <3>1 DEF Issuing, PredictionSeesEveryEvent
    <3>3. s \in Runtimes \ {r}
      BY <3>1, <3>2 DEF Registered
    <3> QED BY <1>3, <1>4, <1>5, <1>6, <1>8, <3>1, <3>2, <3>3
  <2> QED BY <2>1, <2>2, <2>3 DEF PredictionSeesEveryEvent
<1> QED BY <1>9, <1>10, <1>11, <1>12 DEF Issuing

-----------------------------------------------------------------------------
(* The Core moves: a prediction that is attached to it is told, or its     *)
(* issuer lives no more.                                                   *)
LEMMA MovedKeeps ==
  ASSUME Issuing, NEW c \in Cores, NEW boundary \in BOOLEAN, Moved(c, boundary),
         UNCHANGED <<issuer, minted>>,
         \/ delivered' = [delivered EXCEPT ![c] = audit[c].root + 1]
         \/ /\ delivered' = delivered
            /\ audit[c].prediction # Absent => ~LiveIssuer(audit[c].prediction)
  PROVE  Issuing'
<1>1. \A d \in Cores :
        /\ audit'[d] \in Audits
        /\ audit'[d].seen = audit[d].seen /\ audit'[d].seenBy = audit[d].seenBy
        /\ audit'[d].prediction = audit[d].prediction
        /\ audit'[d].root = IF d = c THEN audit[d].root + 1 ELSE audit[d].root
  <2>1. \A d \in Cores : audit[d] \in Audits /\ audit[d].root \in Nat /\ audit[d].continuity \in Nat
    BY DEF Issuing, IssuersTyped, Audits
  <2>2. \A d \in Cores \ {c} : audit'[d] = audit[d]
    BY DEF Moved, Issuing, IssuersTyped
  <2>3. audit[c].root + 1 \in Nat /\ audit[c].continuity + 1 \in Nat
    BY <2>1
  <2>4. audit'[c] = [audit[c] EXCEPT !.root = @ + 1, !.continuity = IF boundary THEN @ + 1 ELSE @]
    BY DEF Moved, Issuing, IssuersTyped
  <2>5. \A d \in Cores \ {c} :
          /\ audit'[d] \in Audits
          /\ audit'[d].seen = audit[d].seen /\ audit'[d].seenBy = audit[d].seenBy
          /\ audit'[d].prediction = audit[d].prediction /\ audit'[d].root = audit[d].root
    BY <2>1, <2>2
  <2>6. /\ audit'[c] \in Audits
        /\ audit'[c].seen = audit[c].seen /\ audit'[c].seenBy = audit[c].seenBy
        /\ audit'[c].prediction = audit[c].prediction /\ audit'[c].root = audit[c].root + 1
    <3>1. PICK k \in Nat : audit'[c] = [audit[c] EXCEPT !.root = audit[c].root + 1, !.continuity = k]
      <4>1. CASE boundary
        BY <2>1, <2>3, <2>4, <4>1
      <4>2. CASE ~boundary
        BY <2>1, <2>3, <2>4, <4>2
      <4> QED BY <4>1, <4>2
    <3> QED BY <2>1, <2>3, <3>1 DEF Audits
  <2> QED BY <2>5, <2>6
<1>2. audit' \in [Cores -> Audits]
  <2>1. audit' = [d \in Cores |-> audit'[d]]
    BY DEF Moved, Issuing, IssuersTyped
  <2> QED BY <1>1, <2>1
<1>3. delivered' \in [Cores -> Nat]
  <2>1. audit[c].root + 1 \in Nat
    BY DEF Issuing, IssuersTyped, Audits
  <2> QED BY <2>1 DEF Issuing, IssuersTyped
<1>4. IssuersTyped' /\ Registered' = Registered
  BY <1>2, <1>3 DEF Issuing, IssuersTyped, Registered, CoreOf
<1>5. Indexed' /\ Empty' /\ Standing'
  BY DEF Issuing, Indexed, Empty, Standing, Registered
<1>6. OnceEach'
  BY <1>1 DEF Issuing, OnceEach, Recorded
<1>7. PredictionSeesEveryEvent'
  <2>1. \A s, t \in Registered : CoreOf(s) = CoreOf(t) => s = t
    BY DEF Issuing, PredictionSeesEveryEvent
  <2>2. \A s \in Registered : issuer[s].prediction => audit'[CoreOf(s)].prediction = s
    BY <1>1 DEF Issuing, IssuersTyped, PredictionSeesEveryEvent
  <2>3. ASSUME NEW d \in Cores, NEW s, s = audit[d].prediction, s # Absent
        PROVE  /\ s \in Registered /\ CoreOf(s) = d /\ issuer[s].prediction
               /\ LiveIssuer(s) => delivered'[d] = audit'[d].root
    <3>1. /\ s \in Registered /\ CoreOf(s) = d /\ issuer[s].prediction
          /\ LiveIssuer(s) => delivered[d] = audit[d].root
      BY <2>3 DEF Issuing, PredictionSeesEveryEvent
    <3>2. delivered \in [Cores -> Nat]
      BY DEF Issuing, IssuersTyped
    <3> QED BY <1>1, <2>3, <3>1, <3>2
  <2> QED BY <1>1, <2>1, <2>2, <2>3 DEF PredictionSeesEveryEvent, Registered, CoreOf, LiveIssuer
<1> QED BY <1>4, <1>5, <1>6, <1>7 DEF Issuing

LEMMA CoreKeeps ==
  ASSUME Issuing, NEW r \in Runtimes, NEW boundary \in BOOLEAN,
         ProcessCoreEvent(r, boundary) \/ CoreTransition(r)
  PROVE  Issuing'
<1>1. CoreOf(r) \in Cores
  BY IssuerFields DEF Issuing, ProcessCoreEvent, CoreTransition
<1>2. CASE ProcessCoreEvent(r, boundary)
  BY <1>1, <1>2, MovedKeeps DEF ProcessCoreEvent
<1>3. CASE CoreTransition(r)
  BY <1>1, <1>3, MovedKeeps DEF CoreTransition
<1> QED BY <1>2, <1>3

LEMMA UnsupervisedKeeps ==
  ASSUME Issuing, NEW c \in Cores, Unsupervised(c)
  PROVE  Issuing'
<1>1. audit[c].prediction # Absent => ~LiveIssuer(audit[c].prediction)
  BY DEF Unsupervised, Issuing, PredictionSeesEveryEvent
<1> QED BY <1>1, MovedKeeps DEF Unsupervised

LEMMA AttachKeeps ==
  ASSUME Issuing, NEW r \in Runtimes, AttachPrediction(r)
  PROVE  Issuing'
<1> DEFINE new == [issuer[r] EXCEPT !.prediction = TRUE]
<1> DEFINE c == CoreOf(r)
<1>1. /\ issuer[r] \in Issuers /\ issuer[r].revision \in Nat /\ r \in Registered /\ c \in Cores
      /\ issuer[r].status = "live"
  BY IssuerFields DEF Issuing, AttachPrediction, LiveIssuer
<1>2. /\ new \in Issuers /\ new.status = issuer[r].status /\ new.core = issuer[r].core
      /\ new.revision = issuer[r].revision /\ new.prediction = TRUE
      /\ new.index = issuer[r].index
  BY <1>1 DEF Issuers
<1>3. /\ issuer' = [issuer EXCEPT ![r] = new] /\ minted' = minted
      /\ audit' = [audit EXCEPT ![c].prediction = r]
      /\ delivered' = [delivered EXCEPT ![c] = audit[c].root]
      /\ audit[c].prediction = Absent
  BY DEF AttachPrediction
<1> HIDE DEF new
<1>4. issuer'[r] = new /\ \A s \in Runtimes \ {r} : issuer'[s] = issuer[s]
  BY <1>3 DEF Issuing, IssuersTyped
<1>5. Registered' = Registered
  BY <1>1, <1>2, <1>4 DEF Registered
<1>6. \A s \in Runtimes : CoreOf(s)' = CoreOf(s) /\ (LiveIssuer(s)' <=> LiveIssuer(s))
  BY <1>1, <1>2, <1>4 DEF CoreOf, LiveIssuer
<1>7. \A d \in Cores :
        /\ audit'[d] \in Audits /\ audit'[d].root = audit[d].root
        /\ audit'[d].seen = audit[d].seen /\ audit'[d].seenBy = audit[d].seenBy
        /\ audit'[d].prediction = IF d = c THEN r ELSE audit[d].prediction
        /\ delivered'[d] = IF d = c THEN audit[d].root ELSE delivered[d]
  BY <1>1, <1>3 DEF Issuing, IssuersTyped, Audits
<1>8. IssuersTyped'
  <2>1. audit' \in [Cores -> Audits]
    <3>1. audit' = [d \in Cores |-> audit'[d]]
      BY <1>3 DEF Issuing, IssuersTyped
    <3> QED BY <1>7, <3>1
  <2>2. delivered' \in [Cores -> Nat]
    <3>1. audit[c].root \in Nat
      BY <1>1 DEF Issuing, IssuersTyped, Audits
    <3> QED BY <1>3, <3>1 DEF Issuing, IssuersTyped
  <2> QED BY <1>2, <1>3, <1>5, <1>6, <2>1, <2>2 DEF Issuing, IssuersTyped, Registered
<1>9. Indexed' /\ OnceEach' /\ Standing'
  <2>1. new.revision >= issuer[r].revision
    BY <1>1, <1>2
  <2> QED BY <1>1, <1>2, <1>3, <1>7, <2>1, NothingIssued
<1>10. Empty'
  BY <1>1, <1>2, <1>4, <1>5 DEF Issuing, Empty
<1>11. PredictionSeesEveryEvent'
  <2>1. \A s, t \in Registered : CoreOf(s) = CoreOf(t) => s = t
    BY DEF Issuing, PredictionSeesEveryEvent
  <2>2. ASSUME NEW s \in Registered, issuer'[s].prediction
        PROVE  audit'[CoreOf(s)].prediction = s
    <3>1. CoreOf(s) \in Cores /\ s \in Runtimes
      BY DEF Issuing, IssuersTyped, Registered
    <3>2. CASE s = r
      BY <1>7, <3>1, <3>2
    <3>3. CASE s # r
      <4>1. CoreOf(s) # c /\ issuer[s].prediction
        BY <1>1, <1>4, <2>1, <2>2, <3>1, <3>3
      <4> QED BY <1>7, <3>1, <4>1 DEF Issuing, PredictionSeesEveryEvent
    <3> QED BY <3>2, <3>3
  <2>3. ASSUME NEW d \in Cores, NEW s, s = audit'[d].prediction, s # Absent
        PROVE  /\ s \in Registered /\ CoreOf(s) = d /\ issuer'[s].prediction
               /\ LiveIssuer(s) => delivered'[d] = audit'[d].root
    <3>1. CASE d = c
      BY <1>1, <1>2, <1>4, <1>7, <2>3, <3>1
    <3>2. CASE d # c
      <4>1. /\ s \in Registered /\ CoreOf(s) = d /\ issuer[s].prediction
            /\ LiveIssuer(s) => delivered[d] = audit[d].root
        BY <1>7, <2>3, <3>2 DEF Issuing, PredictionSeesEveryEvent
      <4>2. s # r /\ s \in Runtimes
        BY <3>2, <4>1 DEF Registered
      <4> QED BY <1>4, <1>7, <3>2, <4>1, <4>2
    <3> QED BY <3>1, <3>2
  <2>4. \A s \in Registered : s \in Runtimes
    BY DEF Registered
  <2> QED BY <1>5, <1>6, <2>1, <2>2, <2>3, <2>4 DEF PredictionSeesEveryEvent
<1> QED BY <1>8, <1>9, <1>10, <1>11 DEF Issuing

-----------------------------------------------------------------------------
(* What a new capability does to the issuer and to the history.            *)
LEMMA MintKeeps ==
  ASSUME Issuing, NEW r \in Runtimes, NEW key \in Keys,
         NEW payload \in [content : Contents, assumption : Occurrences \cup {Absent}],
         NEW source, source \notin DOMAIN minted, Issue(r, key, payload, source),
         payload.assumption # Absent => Current(r, <<"FORMAL_ASSUMPTION", payload.assumption>>)
  PROVE  /\ issuer' \in [Runtimes -> Issuers] /\ Registered' = Registered
         /\ \A s \in Runtimes : /\ CoreOf(s)' = CoreOf(s) /\ (LiveIssuer(s)' <=> LiveIssuer(s))
                                /\ issuer'[s].prediction = issuer[s].prediction
         /\ \A s \in Runtimes, k \in Keys : Recorded(s, k) => Recorded(s, k)'
         /\ Recorded(r, key)'
         /\ minted' = [x \in DOMAIN minted' |-> 1] /\ DOMAIN minted' = DOMAIN minted \cup {source}
         /\ Indexed' /\ Empty' /\ Standing'
<1> DEFINE old == issuer[r].index
<1> DEFINE x == [revision |-> issuer[r].revision, payload |-> payload]
<1> DEFINE g == [k \in DOMAIN old \cup {key} |-> IF k = key THEN x ELSE old[k]]
<1> DEFINE new == [issuer[r] EXCEPT !.index = g]
<1>1. /\ issuer[r] \in Issuers /\ issuer[r].revision \in Nat /\ old \in Indexes
      /\ issuer[r].status = "live" /\ r \in Registered /\ key \notin DOMAIN old
  BY IssuerFields DEF Issuing, Issue, LiveIssuer
<1>2. x \in Records /\ x.revision = issuer[r].revision /\ x.payload = payload
  BY <1>1 DEF Records
<1> HIDE DEF x
<1>3. g \in Indexes /\ DOMAIN g = DOMAIN old \cup {key} /\ g[key] = x
  <2> HIDE DEF old
  <2> QED BY <1>1, <1>2, IndexExtended
<1>4. \A k \in DOMAIN old : g[k] = old[k]
  BY <1>1
<1>5. issuer' = [issuer EXCEPT ![r] = new]
  BY DEF Issue, x
<1> HIDE DEF g
<1>6. /\ new \in Issuers /\ new.status = issuer[r].status /\ new.core = issuer[r].core
      /\ new.revision = issuer[r].revision /\ new.prediction = issuer[r].prediction
      /\ new.index = g
  BY <1>1, <1>3 DEF Issuers
<1> HIDE DEF new
<1>7. issuer'[r] = new /\ \A s \in Runtimes \ {r} : issuer'[s] = issuer[s]
  BY <1>5 DEF Issuing, IssuersTyped
<1>8. issuer' \in [Runtimes -> Issuers]
  BY <1>5, <1>6 DEF Issuing, IssuersTyped
<1>9. Registered' = Registered
  BY <1>6, <1>7 DEF Registered
<1>10. \A s \in Runtimes : /\ CoreOf(s)' = CoreOf(s) /\ (LiveIssuer(s)' <=> LiveIssuer(s))
                           /\ issuer'[s].prediction = issuer[s].prediction
                           /\ issuer'[s].status = issuer[s].status
  BY <1>6, <1>7 DEF CoreOf, LiveIssuer
<1>11. /\ \A s \in Runtimes, k \in Keys : Recorded(s, k) => Recorded(s, k)'
       /\ Recorded(r, key)'
  BY <1>3, <1>6, <1>7 DEF Recorded
<1>12. minted' = [y \in DOMAIN minted' |-> 1] /\ DOMAIN minted' = DOMAIN minted \cup {source}
  <2>1. minted = [y \in DOMAIN minted |-> 1]
    BY DEF Issuing, OnceEach
  <2>2. minted' = [y \in DOMAIN minted \cup {source} |->
                     (IF y \in DOMAIN minted THEN minted[y] ELSE 0) + (IF y = source THEN 1 ELSE 0)]
    BY DEF Issue
  <2>3. \A y \in DOMAIN minted \cup {source} :
          (IF y \in DOMAIN minted THEN minted[y] ELSE 0) + (IF y = source THEN 1 ELSE 0) = 1
    <3>1. \A y \in DOMAIN minted : minted[y] = 1 /\ y # source
      BY <2>1
    <3> QED BY <3>1
  <2> QED BY <2>2, <2>3
<1>13. Indexed'
  <2> SUFFICES ASSUME NEW s \in Runtimes
               PROVE  /\ IsFiniteSet(DOMAIN issuer'[s].index)
                      /\ Cardinality(DOMAIN issuer'[s].index) <= Capacity
                      /\ \A k \in DOMAIN issuer'[s].index :
                           issuer'[s].index[k].revision <= issuer'[s].revision
    BY DEF Indexed
  <2>1. CASE s # r
    BY <1>7, <2>1 DEF Issuing, Indexed
  <2>2. CASE s = r
    <3>1. IsFiniteSet(DOMAIN old) /\ Cardinality(DOMAIN old) \in Nat
      BY FS_CardinalityType DEF Issuing, Indexed
    <3>2. Cardinality(DOMAIN old) < Capacity /\ Capacity \in Nat
      BY IngressAssumption DEF Issue, HasRoom
    <3>3. /\ IsFiniteSet(DOMAIN old \cup {key})
          /\ Cardinality(DOMAIN old \cup {key}) = Cardinality(DOMAIN old) + 1
      BY <1>1, <3>1, FS_AddElement
    <3>4. \A k \in DOMAIN old : old[k].revision <= issuer[r].revision
      BY DEF Issuing, Indexed
    <3>5. \A k \in DOMAIN g : g[k].revision <= issuer[r].revision
      BY <1>1, <1>2, <1>3, <1>4, <3>4
    <3> HIDE DEF old
    <3>6. Cardinality(DOMAIN g) <= Capacity
      BY <1>3, <3>1, <3>2, <3>3
    <3> QED BY <1>3, <1>6, <1>7, <2>2, <3>3, <3>5, <3>6
  <2> QED BY <2>1, <2>2
<1>14. Empty'
  <2>1. \A s \in Runtimes : issuer'[s].status = "unborn" => issuer'[s] = issuer[s]
    BY <1>1, <1>6, <1>7
  <2> QED BY <1>9, <1>10, <2>1 DEF Issuing, Empty
<1>15. Standing'
  <2> SUFFICES ASSUME NEW s \in Runtimes
               PROVE  Supported(issuer'[s].index, issuer'[s].revision)
    BY DEF Standing, Supported
  <2>1. CASE s # r
    BY <1>7, <2>1 DEF Issuing, Standing
  <2>2. CASE s = r
    <3>1. Supported(old, issuer[r].revision)
      BY DEF Issuing, Standing
    <3>2. \A k \in DOMAIN old : k \in DOMAIN g /\ g[k] = old[k]
      BY <1>3, <1>4
    <3>3. payload.assumption # Absent =>
            LET a == <<"FORMAL_ASSUMPTION", payload.assumption>>
            IN a \in DOMAIN old /\ old[a].revision = issuer[r].revision
      BY DEF Current
    <3> HIDE DEF old
    <3>4. Supported(g, issuer[r].revision)
      BY <1>2, <1>3, <3>1, <3>2, <3>3 DEF Supported
    <3> QED BY <1>6, <1>7, <2>2, <3>4
  <2> QED BY <2>1, <2>2
<1> QED BY <1>8, <1>9, <1>10, <1>11, <1>12, <1>13, <1>14, <1>15

(* A prediction sees what it saw when issuers and roots stay as they are.  *)
LEMMA StillSeen ==
  ASSUME Issuing, Registered' = Registered, delivered' = delivered,
         \A s \in Runtimes : /\ CoreOf(s)' = CoreOf(s) /\ (LiveIssuer(s)' <=> LiveIssuer(s))
                             /\ issuer'[s].prediction = issuer[s].prediction,
         \A c \in Cores : audit'[c].prediction = audit[c].prediction /\ audit'[c].root = audit[c].root
  PROVE  PredictionSeesEveryEvent'
<1>1. \A s \in Registered : s \in Runtimes /\ CoreOf(s) \in Cores
  BY DEF Issuing, IssuersTyped, Registered
<1>2. \A s, t \in Registered : CoreOf(s)' = CoreOf(t)' => s = t
  BY <1>1 DEF Issuing, PredictionSeesEveryEvent
<1>3. \A s \in Registered : issuer'[s].prediction => audit'[CoreOf(s)'].prediction = s
  BY <1>1 DEF Issuing, PredictionSeesEveryEvent
<1>4. ASSUME NEW c \in Cores, NEW s, s = audit'[c].prediction, s # Absent
      PROVE  /\ s \in Registered /\ CoreOf(s)' = c /\ issuer'[s].prediction
             /\ LiveIssuer(s)' => delivered'[c] = audit'[c].root
  <2>1. /\ s \in Registered /\ CoreOf(s) = c /\ issuer[s].prediction
        /\ LiveIssuer(s) => delivered[c] = audit[c].root
    BY <1>4 DEF Issuing, PredictionSeesEveryEvent
  <2> QED BY <1>1, <2>1
<1> QED BY <1>2, <1>3, <1>4 DEF PredictionSeesEveryEvent

LEMMA FormalKeeps ==
  ASSUME Issuing, NEW r \in Runtimes, NEW kind \in FormalKinds, NEW o \in Occurrences,
         NEW payload \in [content : Contents, assumption : Occurrences \cup {Absent}],
         Issue(r, <<kind, o>>, payload, <<r, <<kind, o>>>>),
         payload.assumption # Absent => Current(r, <<"FORMAL_ASSUMPTION", payload.assumption>>),
         UNCHANGED <<audit, delivered>>
  PROVE  Issuing'
<1> DEFINE key == <<kind, o>>
<1>1. key \in Keys
  BY DEF Keys
<1> HIDE DEF key
<1>2. <<r, key>> \notin DOMAIN minted
  BY <1>1 DEF Issuing, OnceEach, Recorded, Issue, LiveIssuer, key
<1>3. Issue(r, key, payload, <<r, key>>) /\ audit' = audit /\ delivered' = delivered
  BY DEF key
<1>4. /\ issuer' \in [Runtimes -> Issuers] /\ Registered' = Registered
      /\ \A s \in Runtimes : /\ CoreOf(s)' = CoreOf(s) /\ (LiveIssuer(s)' <=> LiveIssuer(s))
                             /\ issuer'[s].prediction = issuer[s].prediction
      /\ \A s \in Runtimes, k \in Keys : Recorded(s, k) => Recorded(s, k)'
      /\ Recorded(r, key)'
      /\ minted' = [x \in DOMAIN minted' |-> 1]
      /\ DOMAIN minted' = DOMAIN minted \cup {<<r, key>>}
      /\ Indexed' /\ Empty' /\ Standing'
  BY <1>1, <1>2, <1>3, MintKeeps
<1>5. IssuersTyped'
  BY <1>3, <1>4 DEF Issuing, IssuersTyped, Registered
<1>6. OnceEach'
  <2>1. \A s \in Runtimes, k \in Keys : <<s, k>> \in DOMAIN minted' => Recorded(s, k)'
    BY <1>4 DEF Issuing, OnceEach
  <2>2. \A c \in Cores, root \in Nat : <<c, root>> \in DOMAIN minted' => <<c, root>> \in DOMAIN minted
    BY <1>4, IngressAssumption
  <2>3. \A root \in Nat : <<"EXTERNAL_OBSERVATION", root>> \in Keys
    BY DEF Keys
  <2>4. ASSUME NEW c \in Cores, NEW root \in Nat, <<c, root>> \in DOMAIN minted'
        PROVE  /\ root <= audit'[c].seen
               /\ \A s \in Runtimes : root = audit'[c].seen /\ audit'[c].seenBy = s =>
                    Recorded(s, <<"EXTERNAL_OBSERVATION", root>>)'
    <3>1. /\ root <= audit[c].seen
          /\ \A s \in Runtimes : root = audit[c].seen /\ audit[c].seenBy = s =>
               Recorded(s, <<"EXTERNAL_OBSERVATION", root>>)
      BY <2>2, <2>4 DEF Issuing, OnceEach
    <3> QED BY <1>3, <1>4, <2>3, <3>1
  <2>5. minted' = [x \in DOMAIN minted' |-> 1]
    BY <1>4
  <2> QED BY <2>1, <2>4, <2>5 DEF OnceEach
<1>7. PredictionSeesEveryEvent'
  BY <1>3, <1>4, StillSeen
<1> QED BY <1>4, <1>5, <1>6, <1>7 DEF Issuing

LEMMA ObservationKeeps ==
  ASSUME Issuing, NEW r \in Runtimes, NEW root \in Nat, NEW scope \in Contents,
         AuthorizeCoreObservation(r, root, scope)
  PROVE  Issuing'
<1> DEFINE c == CoreOf(r)
<1> DEFINE key == <<"EXTERNAL_OBSERVATION", root>>
<1> DEFINE payload == [content |-> scope, assumption |-> Absent]
<1>1. /\ LiveIssuer(r) /\ NotSeen(r, root) /\ c \in Cores
      /\ Issue(r, key, payload, <<c, root>>) \/ Again(r, key, payload)
      /\ audit' = [audit EXCEPT ![c].seen = root, ![c].seenBy = r]
      /\ delivered' = delivered
  BY IssuerFields DEF AuthorizeCoreObservation, Issuing
<1>2. /\ key \in Keys /\ payload.assumption = Absent
      /\ payload \in [content : Contents, assumption : Occurrences \cup {Absent}]
  BY DEF Keys
<1>3. \A k \in Nat : <<"EXTERNAL_OBSERVATION", k>> \in Keys
  BY DEF Keys
<1>4. /\ issuer' \in [Runtimes -> Issuers] /\ Registered' = Registered
      /\ \A s \in Runtimes : /\ CoreOf(s)' = CoreOf(s) /\ (LiveIssuer(s)' <=> LiveIssuer(s))
                             /\ issuer'[s].prediction = issuer[s].prediction
      /\ \A s \in Runtimes, k \in Keys : Recorded(s, k) => Recorded(s, k)'
      /\ Recorded(r, key)'
      /\ minted' = [x \in DOMAIN minted' |-> 1]
      /\ DOMAIN minted' \in {DOMAIN minted, DOMAIN minted \cup {<<c, root>>}}
      /\ Indexed' /\ Empty' /\ Standing'
  <2>1. CASE Issue(r, key, payload, <<c, root>>)
    <3>1. key \notin DOMAIN issuer[r].index /\ issuer[r].status # "removed"
      BY <2>1 DEF Issue, LiveIssuer
    <3>2. <<c, root>> \notin DOMAIN minted
      <4>1. audit[c].seen \in Int
        BY <1>1 DEF Issuing, IssuersTyped, Audits
      <4> QED BY <1>1, <3>1, <4>1 DEF NotSeen, Issuing, OnceEach, Recorded
    <3> HIDE DEF c, key, payload
    <3> QED BY <1>2, <2>1, <3>2, MintKeeps
  <2>2. CASE Again(r, key, payload)
    <3>1. issuer' = issuer /\ minted' = minted /\ key \in DOMAIN issuer[r].index
      BY <2>2 DEF Again, Current
    <3> HIDE DEF c, key, payload
    <3>2. Recorded(r, key)' /\ \A s \in Runtimes, k \in Keys : Recorded(s, k) => Recorded(s, k)'
      BY <3>1 DEF Recorded
    <3>3. Indexed' /\ Empty' /\ Standing' /\ Registered' = Registered
      BY <3>1 DEF Issuing, Indexed, Empty, Standing, Registered
    <3> QED BY <3>1, <3>2, <3>3 DEF Issuing, IssuersTyped, OnceEach, CoreOf, LiveIssuer
  <2> QED BY <1>1, <2>1, <2>2
<1> HIDE DEF c, key, payload
<1>5. \A d \in Cores :
        /\ audit'[d] \in Audits
        /\ audit'[d].prediction = audit[d].prediction /\ audit'[d].root = audit[d].root
        /\ audit'[d].seen = IF d = c THEN root ELSE audit[d].seen
        /\ audit'[d].seenBy = IF d = c THEN r ELSE audit[d].seenBy
  <2>1. \A d \in Cores : audit[d] \in Audits
    BY DEF Issuing, IssuersTyped
  <2>2. /\ audit'[c] = [audit[c] EXCEPT !.seen = root, !.seenBy = r]
        /\ \A d \in Cores \ {c} : audit'[d] = audit[d]
    BY <1>1 DEF Issuing, IssuersTyped
  <2>3. audit[c] \in Audits
    BY <1>1, <2>1
  <2>4. /\ audit'[c].seen = root /\ audit'[c].seenBy = r
        /\ audit'[c].prediction = audit[c].prediction /\ audit'[c].root = audit[c].root
    BY <2>2, <2>3 DEF Audits
  <2>5. audit'[c] \in Audits
    <3>1. audit'[c] = [root |-> audit[c].root, continuity |-> audit[c].continuity, seen |-> root,
                       seenBy |-> r, prediction |-> audit[c].prediction]
      BY <2>2, <2>3 DEF Audits
    <3>2. root \in Int /\ r \in Runtimes \cup {Absent}
      OBVIOUS
    <3>3. /\ audit[c].root \in Nat /\ audit[c].continuity \in Nat
          /\ audit[c].prediction \in Runtimes \cup {Absent}
      BY <2>3 DEF Audits
    <3> QED BY <3>1, <3>2, <3>3 DEF Audits
  <2> QED BY <2>1, <2>2, <2>4, <2>5
<1>6. IssuersTyped'
  <2>1. audit' = [d \in Cores |-> audit'[d]]
    BY <1>1 DEF Issuing, IssuersTyped
  <2>2. audit' \in [Cores -> Audits]
    BY <1>5, <2>1
  <2> QED BY <1>1, <1>4, <2>2 DEF Issuing, IssuersTyped, Registered
<1>7. OnceEach'
  <2>1. ASSUME NEW s \in Runtimes, NEW k \in Keys, <<s, k>> \in DOMAIN minted'
        PROVE  Recorded(s, k)'
    <3>1. <<s, k>> \in DOMAIN minted
      BY <1>1, <1>4, <2>1, IngressAssumption
    <3> QED BY <1>4, <3>1 DEF Issuing, OnceEach
  <2>2. ASSUME NEW d \in Cores, NEW n \in Nat, <<d, n>> \in DOMAIN minted'
        PROVE  /\ n <= audit'[d].seen
               /\ \A s \in Runtimes : n = audit'[d].seen /\ audit'[d].seenBy = s =>
                    Recorded(s, <<"EXTERNAL_OBSERVATION", n>>)'
    <3>1. audit[c].seen <= root /\ audit[c].seen \in Int
      BY <1>1 DEF NotSeen, Issuing, IssuersTyped, Audits, c
    <3>2. CASE d = c /\ n = root
      BY <1>4, <1>5, <3>2 DEF key
    <3>3. CASE d = c /\ n # root
      <4>1. n <= audit[c].seen
        BY <1>4, <2>2, <3>3 DEF Issuing, OnceEach
      <4> QED BY <1>5, <3>1, <3>3, <4>1
    <3>4. CASE d # c
      <4>1. <<d, n>> \in DOMAIN minted
        BY <1>4, <2>2, <3>4
      <4> QED BY <1>3, <1>4, <1>5, <3>4, <4>1 DEF Issuing, OnceEach
    <3> QED BY <3>2, <3>3, <3>4
  <2> QED BY <1>4, <2>1, <2>2 DEF OnceEach
<1>8. PredictionSeesEveryEvent'
  BY <1>1, <1>4, <1>5, StillSeen
<1> QED BY <1>4, <1>6, <1>7, <1>8 DEF Issuing

-----------------------------------------------------------------------------
LEMMA IssuingNext == Issuing /\ [IngressNext]_ingressVars => Issuing'
<1> SUFFICES ASSUME Issuing, [IngressNext]_ingressVars PROVE Issuing'
  OBVIOUS
<1>1. CASE \E r \in Runtimes, c \in Cores : Create(r, c)
  BY <1>1, CreateKeeps
<1>2. CASE \E r \in Runtimes : Abandon(r)
  BY <1>2, AbandonKeeps
<1>3. CASE \E r \in Runtimes : Close(r) \/ Discard(r)
  <2>1. PICK r \in Runtimes : Close(r) \/ Discard(r)
    BY <1>3
  <2>2. issuer[r].status # "unborn" /\ Removed(r) /\ UNCHANGED <<minted, delivered>>
    BY <2>1 DEF Close, Discard
  <2> QED BY <2>2, RemovedKeeps
<1>4. CASE \E r \in Runtimes : Invalidate(r)
  BY <1>4, InvalidateKeeps
<1>5. CASE \E r \in Runtimes : CoreTransition(r)
  BY <1>5, CoreKeeps
<1>6. CASE \E r \in Runtimes : AttachPrediction(r)
  BY <1>6, AttachKeeps
<1>7. CASE \E r \in Runtimes, boundary \in BOOLEAN : ProcessCoreEvent(r, boundary)
  BY <1>7, CoreKeeps
<1>8. CASE \E r \in Runtimes, o \in Occurrences, x \in Contents, kind \in FormalKinds :
             Authorize(r, kind, o, x)
  <2>1. PICK r \in Runtimes, o \in Occurrences, x \in Contents, kind \in FormalKinds :
          Authorize(r, kind, o, x)
    BY <1>8
  <2> DEFINE payload == [content |-> x, assumption |-> Absent]
  <2>2. /\ payload \in [content : Contents, assumption : Occurrences \cup {Absent}]
        /\ payload.assumption = Absent
    OBVIOUS
  <2>3. Issue(r, <<kind, o>>, payload, <<r, <<kind, o>>>>) /\ UNCHANGED <<audit, delivered>>
    BY <2>1 DEF Authorize
  <2> HIDE DEF payload
  <2> QED BY <2>2, <2>3, FormalKeeps
<1>9. CASE \E r \in Runtimes, o \in Occurrences, x \in Contents, a \in Occurrences :
             AuthorizeConstraintAssumption(r, o, x, a)
  <2>1. PICK r \in Runtimes, o \in Occurrences, x \in Contents, a \in Occurrences :
          AuthorizeConstraintAssumption(r, o, x, a)
    BY <1>9
  <2> DEFINE payload == [content |-> x, assumption |-> a]
  <2>2. /\ payload \in [content : Contents, assumption : Occurrences \cup {Absent}]
        /\ payload.assumption = a /\ "FORMAL_CONSTRAINT" \in FormalKinds
    BY DEF FormalKinds
  <2>3. /\ Issue(r, <<"FORMAL_CONSTRAINT", o>>, payload, <<r, <<"FORMAL_CONSTRAINT", o>>>>)
        /\ Current(r, <<"FORMAL_ASSUMPTION", a>>) /\ UNCHANGED <<audit, delivered>>
    BY <2>1 DEF AuthorizeConstraintAssumption
  <2> HIDE DEF payload
  <2> QED BY <2>2, <2>3, FormalKeeps
<1>10. CASE \E r \in Runtimes, root \in 0 .. MaxRoots, scope \in Contents :
              AuthorizeCoreObservation(r, root, scope)
  <2>1. \A root \in 0 .. MaxRoots : root \in Nat
    BY IngressAssumption
  <2> QED BY <1>10, <2>1, ObservationKeeps
<1>11. CASE \E c \in Cores : Unsupervised(c)
  BY <1>11, UnsupervisedKeeps
<1>12. CASE UNCHANGED ingressVars
  <2>1. audit' = audit /\ issuer' = issuer /\ minted' = minted /\ delivered' = delivered
    BY <1>12 DEF ingressVars
  <2> QED BY <2>1 DEF Issuing, IssuersTyped, Indexed, Empty, OnceEach, Standing, Recorded,
                      PredictionSeesEveryEvent, Registered, CoreOf, LiveIssuer
<1> QED BY <1>1, <1>2, <1>3, <1>4, <1>5, <1>6, <1>7, <1>8, <1>9, <1>10, <1>11, <1>12 DEF IngressNext

LEMMA AlwaysIssuing == IngressSpec => []Issuing
<1> QED BY IssuingInit, IssuingNext, PTL DEF IngressSpec

(* What the issuers and cores hold keeps its shape, and every issuer that  *)
(* is not removed serves a Core: _State and _CoreAudit.                    *)
THEOREM IssuersAlwaysTyped == IngressSpec => []IssuersTyped
<1>1. Issuing => IssuersTyped
  BY DEF Issuing
<1> QED BY <1>1, AlwaysIssuing, PTL

(* No source occurrence and no Core event is authorized twice, by whatever *)
(* issuers are created, invalidated, closed and collected in between, and  *)
(* no issuer holds more than its capacity: issue, authorize_* and the      *)
(* watermark of the Core.                                                  *)
THEOREM NoStaleReplay == IngressSpec => []AuthorizedOnce
<1>1. Issuing => AuthorizedOnce
  BY DEF Issuing, OnceEach, Indexed, AuthorizedOnce, Used
<1> QED BY <1>1, AlwaysIssuing, PTL

(* A constraint that was assumed is usable only as long as the assumption  *)
(* under it is: authorize_constraint_assumption and invalidate.            *)
THEOREM ConstraintsStand == IngressSpec => []ConstraintsStandOnAssumptions
<1>1. ASSUME Standing PROVE ConstraintsStandOnAssumptions
  <2> SUFFICES ASSUME NEW r \in Runtimes, NEW k \in DOMAIN issuer[r].index,
                      issuer[r].index[k].revision = issuer[r].revision,
                      issuer[r].index[k].payload.assumption # Absent
               PROVE  LET key == <<"FORMAL_ASSUMPTION", issuer[r].index[k].payload.assumption>>
                      IN /\ key \in DOMAIN issuer[r].index
                         /\ issuer[r].index[key].revision = issuer[r].revision
    BY DEF ConstraintsStandOnAssumptions
  <2>1. Supported(issuer[r].index, issuer[r].revision)
    BY <1>1 DEF Standing
  <2> QED BY <2>1 DEF Supported
<1>2. Issuing => ConstraintsStandOnAssumptions
  BY <1>1 DEF Issuing
<1> QED BY <1>2, AlwaysIssuing, PTL

(* A Core has one issuer, and while that one lives, an attached prediction *)
(* is given every event of the Core: create_trusted_ingress_boundary,      *)
(* process_core_event, attach_prediction and remove_domain.                *)
THEOREM NothingBehindAPrediction == IngressSpec => []PredictionSeesEveryEvent
<1>1. Issuing => PredictionSeesEveryEvent
  BY DEF Issuing
<1> QED BY <1>1, AlwaysIssuing, PTL
=============================================================================
