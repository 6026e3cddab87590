---------------------------- MODULE EffectsProofs ----------------------------
(***************************************************************************)
(* The commit gate is exactly-once for any callers, effects, budget and    *)
(* limits: a commit and its charge appear together, no effect is committed *)
(* twice, every answer is the commit on record, and what is committed was  *)
(* prepared in the context it is committed in.                             *)
(***************************************************************************)
EXTENDS Effects, LedgerProofs, FiniteSetTheorems, TLAPS

Calls == [at : {"idle", "between", "publishing"}, id : AllIdentities \cup {None},
          reservation : Nat, unit : Nat]

Lifecycles == {[state |-> "ACTIVE", revision |-> 0], [state |-> "CLOSING", revision |-> 1]}

Typed ==
  /\ tick \in 0 .. MaxTicks /\ retired \in BOOLEAN /\ lifecycle \in Lifecycles
  /\ call \in [Threads -> Calls]
  /\ \A t \in Threads : call[t].at # "idle" => call[t].id \in AllIdentities
  /\ LedgerOK(ledger, Budget) /\ Owns(ledger)

(* A collected runtime has no commits and no callers.                      *)
Forgotten == retired => index = <<>> /\ \A t \in Threads : call[t].at = "idle"

(* The charges of a registry are the spent units of a ledger, one to one.  *)
Balanced(L, commits) ==
  /\ commits = [id \in DOMAIN commits |-> commits[id]]
  /\ {commits[id] : id \in DOMAIN commits} = InState(L, "CONSUMED")
  /\ IsFiniteSet(DOMAIN commits) /\ IsFiniteSet(InState(L, "CONSUMED"))
  /\ Cardinality(DOMAIN commits) = Cardinality(InState(L, "CONSUMED"))
  /\ Cardinality(DOMAIN commits) <= MaxCommits

Answers(commits) == \A a \in answered : a.id \in DOMAIN commits /\ commits[a.id] = a.unit

Agreed == \A a, b \in answered : a.id = b.id => a.unit = b.unit

Added(commits, id, unit) ==
  [x \in DOMAIN commits \cup {id} |-> IF x = id THEN unit ELSE commits[x]]

Bound(id, epoch) ==
  NeedsCie(id.effect) =>
    epoch.open /\ epoch.env = tick /\ id.snapshot = [number |-> epoch.number, round |-> epoch.round]

(* A publication under way is of one caller, its plan adds one commit and  *)
(* its charge to what was there, and the charge is assigned first and the  *)
(* commit last.                                                            *)
Underway(t) ==
  LET id == call[t].id  unit == call[t].unit  p == publication  old == publication.old
  IN /\ \A u \in Threads : call[u].at = "publishing" => u = t
     /\ p = [plan |-> p.plan, old |-> p.old, done |-> p.done] /\ p.done \in 0 .. 5
     /\ LedgerOK(old.ledger, Budget) /\ Owns(old.ledger)
     /\ unit \in DOMAIN old.ledger.units /\ old.ledger.units[unit].state = "RESERVED"
     /\ id \notin DOMAIN old.index /\ Cardinality(DOMAIN old.index) < MaxCommits
     /\ p.plan.ledger = Consume(old.ledger, unit)
     /\ p.plan.index = Added(old.index, id, unit)
     /\ ledger = IF p.done >= 1 THEN p.plan.ledger ELSE old.ledger
     /\ index = IF p.done >= 5 THEN p.plan.index ELSE old.index
     /\ Current(id) /\ Environment(id) /\ Bound(id, old.cie)

Recorded == ~retired => Balanced(Visible.ledger, Visible.index) /\ Answers(Visible.index)

Inductive ==
  /\ Typed /\ Forgotten /\ Agreed /\ Recorded
  /\ \A t \in Threads : call[t].at = "publishing" => Underway(t)

-----------------------------------------------------------------------------
(* What is spent stays spent, and nothing else is, but by Consume.         *)
LEMMA ReserveSpends ==
  ASSUME NEW L, NEW n, NEW w
  PROVE  InState(Reserve(L, n, w), "CONSUMED") = InState(L, "CONSUMED")
<1>1. \A i \in Chosen(L, n) : i \in DOMAIN L.units /\ L.units[i].state = "AVAILABLE"
  BY ChosenAvailable
<1> QED BY <1>1 DEF InState, Reserve, Take

LEMMA RetireReservedSpends ==
  ASSUME NEW L, NEW qs
  PROVE  InState(RetireReserved(L, qs), "CONSUMED") = InState(L, "CONSUMED")
<1>1. \A i \in ReservedIn(L, qs) : i \in DOMAIN L.units /\ L.units[i].state = "RESERVED"
  BY DEF ReservedIn, InState
<1> QED BY <1>1 DEF InState, RetireReserved, WithUnits, Spent

LEMMA RetireUnusedSpends ==
  ASSUME NEW L, NEW rev
  PROVE  InState(RetireUnused(L, rev), "CONSUMED") = InState(L, "CONSUMED")
BY DEF InState, RetireUnused, WithUnits, Spent

LEMMA ConsumeSpends ==
  ASSUME NEW L, NEW n \in Nat, LedgerOK(L, n), NEW i \in DOMAIN L.units
  PROVE  InState(Consume(L, i), "CONSUMED") = InState(L, "CONSUMED") \cup {i}
<1>1. Consume(L, i).units = [L.units EXCEPT ![i] = Spent(L.units[i], "CONSUMED")]
  BY DEF Consume, WithUnits
<1>2. Spent(L.units[i], "CONSUMED").state = "CONSUMED"
  BY DEF Spent
<1> HIDE DEF Spent
<1> QED BY <1>1, <1>2 DEF InState, LedgerOK

(* One more commit and its charge keep the books.                          *)
LEMMA AddedBalances ==
  ASSUME NEW L, LedgerOK(L, Budget), NEW commits, Balanced(L, commits),
         NEW i \in DOMAIN L.units, L.units[i].state = "RESERVED",
         NEW id, id \notin DOMAIN commits, Cardinality(DOMAIN commits) < MaxCommits
  PROVE  Balanced(Consume(L, i), Added(commits, id, i))
<1> DEFINE more == Added(commits, id, i)
<1> DEFINE spent == InState(L, "CONSUMED")
<1>1. /\ more = [x \in DOMAIN more |-> more[x]] /\ DOMAIN more = DOMAIN commits \cup {id}
      /\ more[id] = i /\ \A x \in DOMAIN commits : more[x] = commits[x]
  BY DEF Added
<1>2. InState(Consume(L, i), "CONSUMED") = spent \cup {i} /\ i \notin spent
  BY ConsumeSpends, EffectsAssumption DEF InState
<1>3. /\ {commits[x] : x \in DOMAIN commits} = spent /\ IsFiniteSet(spent)
      /\ IsFiniteSet(DOMAIN commits) /\ Cardinality(DOMAIN commits) = Cardinality(spent)
  BY DEF Balanced
<1> HIDE DEF more, spent
<1>4. {more[x] : x \in DOMAIN more} = spent \cup {i}
  BY <1>1, <1>3
<1>5. /\ IsFiniteSet(DOMAIN more) /\ Cardinality(DOMAIN more) = Cardinality(DOMAIN commits) + 1
      /\ IsFiniteSet(spent \cup {i}) /\ Cardinality(spent \cup {i}) = Cardinality(spent) + 1
      /\ Cardinality(DOMAIN commits) \in Nat
  BY <1>1, <1>2, <1>3, FS_AddElement, FS_CardinalityType
<1>6. Cardinality(DOMAIN more) <= MaxCommits
  BY <1>5, EffectsAssumption
<1>7. Balanced(Consume(L, i), more)
  BY <1>1, <1>2, <1>3, <1>4, <1>5, <1>6 DEF Balanced
<1> QED BY <1>7 DEF more

LEMMA InductiveInit == Init => Inductive
<1> SUFFICES ASSUME Init PROVE Inductive
  OBVIOUS
<1>1. LedgerOK(ledger, Budget) /\ Owns(ledger)
  BY NewIndexSound, EffectsAssumption DEF Init
<1>2. \A t \in Threads : call[t] = Resting /\ Resting.at = "idle" /\ Resting \in Calls
  BY DEF Init, Resting, Calls
<1>3. Typed
  <2>1. tick \in 0 .. MaxTicks /\ retired = FALSE /\ lifecycle \in Lifecycles
    BY EffectsAssumption DEF Init, Lifecycles
  <2>2. call = [t \in Threads |-> call[t]]
    BY DEF Init
  <2> QED BY <1>1, <1>2, <2>1, <2>2 DEF Typed
<1>4. Visible = Present
  BY <1>2 DEF Visible, Quiet
<1>5. Present.ledger = NewIndex(Budget) /\ Present.index = <<>> /\ DOMAIN <<>> = {}
  BY DEF Present, Init
<1>6. InState(NewIndex(Budget), "CONSUMED") = {}
  BY DEF InState, NewIndex, Fresh
<1>7. Balanced(NewIndex(Budget), <<>>)
  <2>1. <<>> = [id \in DOMAIN <<>> |-> <<>>[id]]
    OBVIOUS
  <2>2. {<<>>[id] : id \in DOMAIN <<>>} = {}
    BY <1>5
  <2>3. IsFiniteSet({}) /\ Cardinality({}) = 0 /\ 0 <= MaxCommits
    BY FS_EmptySet, EffectsAssumption
  <2> QED BY <1>5, <1>6, <2>1, <2>2, <2>3 DEF Balanced
<1>8. answered = {} /\ ~retired
  BY DEF Init
<1>9. Recorded
  <2>1. Visible.ledger = NewIndex(Budget) /\ Visible.index = <<>>
    BY <1>4, <1>5
  <2>2. Answers(Visible.index)
    BY <1>8 DEF Answers
  <2> QED BY <1>7, <2>1, <2>2 DEF Recorded
<1>10. Agreed /\ Forgotten
  BY <1>8 DEF Agreed, Forgotten
<1> QED BY <1>2, <1>3, <1>9, <1>10 DEF Inductive

(* What readers see, and that they see all of it or nothing of it.         *)
LEMMA Seen ==
  /\ Quiet => Visible.ledger = ledger /\ Visible.index = index /\ Visible.cie = cie
  /\ ~Quiet => Visible = publication.old
BY DEF Visible, Present

LEMMA SeenNext ==
  /\ Quiet' => Visible.ledger' = ledger' /\ Visible.index' = index'
  /\ ~Quiet' => Visible' = publication'.old
BY DEF Visible, Present, Quiet

-----------------------------------------------------------------------------
(* A step beside the gate: no registry, no call and no answer changes, and *)
(* no unit is spent.                                                       *)
LEMMA BesideKeeps ==
  ASSUME Inductive, Quiet,
         index' = index, call' = call, publication' = publication, answered' = answered,
         retired' = retired, tick' \in 0 .. MaxTicks, lifecycle' \in Lifecycles,
         LedgerOK(ledger', Budget), Owns(ledger'),
         InState(ledger', "CONSUMED") = InState(ledger, "CONSUMED")
  PROVE  Inductive' /\ Visible.index' = Visible.index
         /\ InState(Visible.ledger', "CONSUMED") = InState(Visible.ledger, "CONSUMED")
<1>1. Quiet'
  BY DEF Quiet
<1>2. /\ Visible.ledger = ledger /\ Visible.index = index
      /\ Visible.ledger' = ledger' /\ Visible.index' = index'
  BY <1>1, Seen, SeenNext
<1>3. Typed' /\ Forgotten' /\ Agreed'
  BY DEF Inductive, Typed, Forgotten, Agreed
<1>4. Recorded'
  BY <1>2 DEF Inductive, Recorded, Balanced, Answers
<1> QED BY <1>1, <1>2, <1>3, <1>4 DEF Inductive, Quiet

LEMMA AroundKeeps ==
  ASSUME Inductive, Around, ~Collect
  PROVE  /\ Inductive' /\ Visible.index' = Visible.index /\ index' = index
         /\ InState(Visible.ledger', "CONSUMED") = InState(Visible.ledger, "CONSUMED")
         /\ retired' = retired /\ (lifecycle' = lifecycle \/ lifecycle'.state = "CLOSING")
<1>1. /\ tick \in 0 .. MaxTicks /\ lifecycle \in Lifecycles
      /\ LedgerOK(ledger, Budget) /\ Owns(ledger) /\ Budget \in Nat
  BY EffectsAssumption DEF Inductive, Typed
<1>2. CASE Advance
  <2>1. tick + 1 \in 0 .. MaxTicks
    BY <1>1, <1>2, EffectsAssumption DEF Advance
  <2> QED BY <1>1, <1>2, <2>1, BesideKeeps DEF Advance, published
<1>3. CASE OpenEpoch \/ FinishEpoch
  BY <1>1, <1>3, BesideKeeps DEF OpenEpoch, FinishEpoch, world
<1>4. CASE BeginClose
  <2>1. lifecycle' = [state |-> "CLOSING", revision |-> 1] /\ lifecycle' \in Lifecycles
    BY <1>1, <1>4 DEF BeginClose, Lifecycles
  <2> QED BY <1>1, <1>4, <2>1, BesideKeeps DEF BeginClose
<1>5. CASE RetireUnusedUnits
  <2>1. lifecycle.revision \in Nat
    BY <1>1 DEF Lifecycles
  <2>2. /\ LedgerOK(ledger', Budget) /\ Owns(ledger')
        /\ InState(ledger', "CONSUMED") = InState(ledger, "CONSUMED")
    BY <1>1, <1>5, <2>1, RetireUnusedSound, RetireUnusedSpends DEF RetireUnusedUnits, Sound
  <2> QED BY <1>1, <1>5, <2>2, BesideKeeps DEF RetireUnusedUnits, world
<1>6. CASE \E q \in DOMAIN ledger.records : RetireReservation(q)
  <2>1. PICK q \in DOMAIN ledger.records : RetireReservation(q)
    BY <1>6
  <2>2. /\ LedgerOK(ledger', Budget) /\ Owns(ledger')
        /\ InState(ledger', "CONSUMED") = InState(ledger, "CONSUMED")
    BY <1>1, <2>1, RetireReservedSound, RetireReservedSpends DEF RetireReservation, Sound
  <2> QED BY <1>1, <2>1, <2>2, BesideKeeps DEF RetireReservation, world
<1>7. CASE \E id \in Identities : ReserveEffect(id)
  <2>1. PICK id \in Identities : ReserveEffect(id)
    BY <1>7
  <2>2. KindOf[id.effect] \in WorkClasses
    BY EffectsAssumption DEF Identities, Identity, Enabled
  <2>3. ledger' = ledger \/ ledger' = Take(ledger, 1, KindOf[id.effect], "RESERVED")
    BY <2>1 DEF ReserveEffect, Reserve
  <2>4. /\ LedgerOK(ledger', Budget) /\ Owns(ledger')
        /\ InState(ledger', "CONSUMED") = InState(ledger, "CONSUMED")
    BY <1>1, <2>2, <2>3, TakeSound, ReserveSpends DEF Sound, Reserve
  <2> QED BY <1>1, <2>1, <2>4, BesideKeeps DEF ReserveEffect, world
<1> QED BY <1>2, <1>3, <1>4, <1>5, <1>6, <1>7 DEF Around

LEMMA CollectKeeps ==
  ASSUME Inductive, Collect
  PROVE  /\ Inductive' /\ index' = <<>> /\ retired'
         /\ Visible.index' = <<>> /\ Visible.ledger' = Visible.ledger
<1>1. /\ \A t \in Threads : call[t].at = "idle"
      /\ call' = call /\ answered' = answered /\ ledger' = ledger
      /\ tick' = tick /\ lifecycle' = lifecycle /\ retired' = TRUE /\ index' = <<>>
  BY DEF Collect, Resting
<1>2. Quiet /\ Quiet'
  BY <1>1 DEF Quiet
<1>3. Visible.index' = <<>> /\ Visible.ledger' = ledger /\ Visible.ledger = ledger
  BY <1>1, <1>2, Seen, SeenNext
<1>4. Typed' /\ Forgotten' /\ Agreed'
  BY <1>1 DEF Inductive, Typed, Forgotten, Agreed
<1>5. Recorded' /\ \A t \in Threads : call'[t].at # "publishing"
  BY <1>1 DEF Recorded
<1> QED BY <1>1, <1>3, <1>4, <1>5 DEF Inductive

(* Only an identity of the runtime is presented.                           *)
LEMMA Presented ==
  ASSUME Inductive, NEW id \in Identities
  PROVE  id \in AllIdentities
<1>1. PICK e \in Enabled, env \in 0 .. tick, rev \in 0 .. lifecycle.revision, s \in SnapshotBindings :
        id = Identity(e, env, rev, s)
  BY DEF Identities
<1>2. e \in Effects /\ env \in 0 .. MaxTicks /\ rev \in 0 .. 1
  BY EffectsAssumption DEF Enabled, Inductive, Typed, Lifecycles
<1> QED BY <1>1, <1>2 DEF Identity, AllIdentities

-----------------------------------------------------------------------------
(* A call by a thread that assigns nothing.                                *)
LEMMA CallKeeps ==
  ASSUME Inductive, Quiet, NEW t \in Threads, ~retired,
         NEW c \in Calls, c.at # "publishing", c.at # "idle" => c.id \in AllIdentities,
         call' = [call EXCEPT ![t] = c],
         UNCHANGED <<world, ledger, index, publication>>,
         \/ answered' = answered
         \/ \E id \in DOMAIN index : answered' = answered \cup {[id |-> id, unit |-> index[id]]}
  PROVE  Inductive' /\ Visible.index' = Visible.index /\ Visible.ledger' = Visible.ledger
<1>1. /\ tick' = tick /\ retired' = retired /\ lifecycle' = lifecycle
      /\ ledger' = ledger /\ index' = index /\ publication' = publication
  BY DEF world
<1>2. \A u \in Threads : call'[u] = IF u = t THEN c ELSE call[u]
  BY DEF Inductive, Typed
<1>3. Quiet'
  BY <1>2 DEF Quiet
<1>4. /\ Visible.ledger = ledger /\ Visible.index = index
      /\ Visible.ledger' = ledger /\ Visible.index' = index
  BY <1>1, <1>3, Seen, SeenNext
<1>5. Typed'
  <2>1. call' \in [Threads -> Calls]
    BY DEF Inductive, Typed
  <2>2. \A u \in Threads : call'[u].at # "idle" => call'[u].id \in AllIdentities
    BY <1>2 DEF Inductive, Typed
  <2> QED BY <1>1, <2>1, <2>2 DEF Inductive, Typed
<1>7. Balanced(ledger, index) /\ Answers(index)
  BY <1>4 DEF Inductive, Recorded
<1>8. \A a \in answered' : a.id \in DOMAIN index /\ index[a.id] = a.unit
  BY <1>7 DEF Answers
<1>9. Recorded' /\ Agreed'
  <2>1. Answers(Visible.index)'
    BY <1>4, <1>8 DEF Answers
  <2>2. Balanced(Visible.ledger, Visible.index)'
    BY <1>4, <1>7 DEF Balanced
  <2>3. Agreed'
    BY <1>8 DEF Agreed
  <2> QED BY <2>1, <2>2, <2>3 DEF Recorded
<1>10. Forgotten'
  BY <1>1 DEF Forgotten
<1> QED BY <1>3, <1>4, <1>5, <1>9, <1>10 DEF Inductive, Quiet

LEMMA LookupKeeps ==
  ASSUME Inductive, NEW t \in Threads, NEW id \in Identities,
         NEW q \in DOMAIN ledger.records, NEW i \in ledger.records[q].units, Lookup(t, id, q, i)
  PROVE  Inductive' /\ Visible.index' = Visible.index /\ Visible.ledger' = Visible.ledger
<1>1. Quiet /\ ~retired /\ UNCHANGED <<world, ledger, index, publication>>
  BY DEF Lookup, published
<1>2. CASE id \in DOMAIN index /\ Return(t, id, index[id])
  <2>1. Resting \in Calls /\ Resting.at = "idle"
    BY DEF Resting, Calls
  <2> QED BY <1>1, <1>2, <2>1, CallKeeps DEF Return
<1>3. CASE id \notin DOMAIN index
  <2> DEFINE c == [at |-> "between", id |-> id, reservation |-> q, unit |-> i]
  <2>1. q \in Nat /\ i \in Nat
    <3>1. LedgerOK(ledger, Budget)
      BY DEF Inductive, Typed
    <3>2. q \in 0 .. ledger.sequence - 1 /\ ledger.records[q].units \subseteq 0 .. Budget - 1
      BY <3>1 DEF LedgerOK
    <3> QED BY <3>2
  <2>2. c \in Calls /\ c.at = "between" /\ c.id \in AllIdentities
    BY <2>1, Presented DEF Calls
  <2>3. call' = [call EXCEPT ![t] = c] /\ answered' = answered
    BY <1>3 DEF Lookup
  <2> HIDE DEF c
  <2> QED BY <1>1, <2>2, <2>3, CallKeeps
<1> QED BY <1>2, <1>3 DEF Lookup

LEMMA DecideKeeps ==
  ASSUME Inductive, NEW t \in Threads, Decide(t)
  PROVE  /\ Inductive' /\ Visible.index' = Visible.index /\ Visible.ledger' = Visible.ledger
         /\ index' = index
<1> DEFINE id == call[t].id
<1> DEFINE unit == call[t].unit
<1>1. /\ Quiet /\ call[t].at = "between" /\ id \in AllIdentities /\ call[t] \in Calls
      /\ tick' = tick /\ retired' = retired /\ lifecycle' = lifecycle
      /\ ledger' = ledger /\ index' = index
  BY DEF Decide, Inductive, Typed, world
<1>2. ~retired
  BY <1>1 DEF Inductive, Forgotten
<1>3. Resting \in Calls /\ Resting.at = "idle"
  BY DEF Resting, Calls
<1>4. CASE Found(id) /\ Return(t, id, index[id]) /\ publication' = publication
  <2>1. id \in DOMAIN index /\ answered' = answered \cup {[id |-> id, unit |-> index[id]]}
        /\ call' = [call EXCEPT ![t] = Resting]
    BY <1>4 DEF Found, Return
  <2>2. UNCHANGED <<world, ledger, index, publication>>
    BY <1>4 DEF Decide
  <2> QED BY <1>1, <1>2, <1>3, <2>1, <2>2, CallKeeps
<1>5. CASE Refuse(t) /\ publication' = publication
  <2>1. UNCHANGED <<world, ledger, index, publication>>
    BY <1>5 DEF Decide
  <2> QED BY <1>1, <1>2, <1>3, <1>5, <2>1, CallKeeps DEF Refuse
<1>6. CASE /\ ~Found(id) /\ Permitted(id)
           /\ CanConsume(ledger, call[t].reservation, unit, KindOf[id.effect])
           /\ call' = [call EXCEPT ![t].at = "publishing"]
           /\ publication' = [plan |-> Prospective(id, unit), old |-> Present, done |-> 0]
           /\ answered' = answered
  <2> DEFINE c == [call[t] EXCEPT !.at = "publishing"]
  <2>1. c \in Calls /\ c.at = "publishing" /\ c.id = id /\ c.unit = unit
    BY <1>1 DEF Calls
  <2>2. call' = [call EXCEPT ![t] = c]
    BY <1>6
  <2> HIDE DEF c
  <2>3. \A u \in Threads : call'[u] = IF u = t THEN c ELSE call[u]
    BY <2>2 DEF Inductive, Typed
  <2>4. ~Quiet'
    BY <2>1, <2>3 DEF Quiet
  <2>5. publication'.old.ledger = ledger /\ publication'.old.index = index
        /\ publication'.old.cie = cie
    BY <1>6 DEF Present
  <2>6. /\ Visible.ledger' = ledger /\ Visible.index' = index
        /\ Visible.ledger = ledger /\ Visible.index = index
    BY <1>1, <2>4, <2>5, Seen, SeenNext
  <2>7. Typed'
    <3>1. call' \in [Threads -> Calls]
      BY <2>1, <2>2 DEF Inductive, Typed
    <3>2. \A u \in Threads : call'[u].at # "idle" => call'[u].id \in AllIdentities
      BY <1>1, <2>1, <2>3 DEF Inductive, Typed
    <3> QED BY <1>1, <3>1, <3>2 DEF Inductive, Typed
  <2>8. Recorded' /\ Agreed' /\ Forgotten'
    <3>1. Recorded'
      BY <1>1, <1>6, <2>6 DEF Inductive, Recorded, Answers, Balanced
    <3>2. Agreed'
      BY <1>6 DEF Inductive, Agreed
    <3>3. Forgotten'
      BY <1>1, <1>2 DEF Forgotten
    <3> QED BY <3>1, <3>2, <3>3
  <2>9. Underway(t)'
    <3>1. \A u \in Threads : call'[u].at = "publishing" => u = t
      BY <1>1, <2>3 DEF Quiet
    <3>2. /\ call'[t].id = id /\ call'[t].unit = unit
          /\ publication' = [plan |-> publication'.plan, old |-> publication'.old,
                             done |-> publication'.done]
          /\ publication'.done = 0
      BY <1>6, <2>1, <2>3
    <3>3. publication'.plan.ledger = Consume(ledger, unit)
          /\ publication'.plan.index = Added(index, id, unit)
      BY <1>6 DEF Prospective, Added
    <3>4. unit \in DOMAIN ledger.units /\ ledger.units[unit].state = "RESERVED"
      <4> DEFINE q == call[t].reservation
      <4>1. /\ q \in DOMAIN ledger.records /\ unit \in ledger.records[q].units
            /\ ledger.units[unit] = [state |-> "RESERVED", reservation |-> Issued(q)]
        BY <1>6 DEF CanConsume
      <4>2. /\ DOMAIN ledger.units = 0 .. Budget - 1
            /\ \A p \in DOMAIN ledger.records : ledger.records[p].units \subseteq 0 .. Budget - 1
        BY DEF Inductive, Typed, LedgerOK
      <4> QED BY <4>1, <4>2
    <3>5. LedgerOK(ledger, Budget) /\ Owns(ledger)
      BY DEF Inductive, Typed
    <3>6. id \notin DOMAIN index /\ Cardinality(DOMAIN index) < MaxCommits
      BY <1>6 DEF Found, Permitted, HasRoom
    <3>7. /\ lifecycle' = [state |-> "ACTIVE", revision |-> id.revision] /\ id.env = tick'
          /\ NeedsCie(id.effect) =>
               cie.open /\ cie.env = tick' /\ id.snapshot = [number |-> cie.number, round |-> cie.round]
      BY <1>1, <1>6 DEF Permitted, SnapshotIsLive, Current, Environment
    <3>8. /\ Current(call[t].id)' /\ Environment(call[t].id)'
          /\ Bound(call[t].id, publication.old.cie)'
      BY <2>5, <3>2, <3>7 DEF Current, Environment, Bound, NeedsCie
    <3> QED BY <1>1, <2>5, <3>1, <3>2, <3>3, <3>4, <3>5, <3>6, <3>8 DEF Underway
  <2>10. \A u \in Threads : call'[u].at = "publishing" => u = t
    BY <1>1, <2>3 DEF Quiet
  <2> QED BY <1>1, <2>6, <2>7, <2>8, <2>9, <2>10 DEF Inductive
<1> QED BY <1>1, <1>4, <1>5, <1>6 DEF Decide

-----------------------------------------------------------------------------
(* The publication.                                                        *)
LEMMA UnderwayNow ==
  ASSUME Inductive, NEW t \in Threads, call[t].at = "publishing"
  PROVE  /\ Underway(t) /\ ~Quiet /\ ~retired /\ call[t].id \in AllIdentities
         /\ call[t] \in Calls /\ Visible = publication.old
         /\ Balanced(publication.old.ledger, publication.old.index)
         /\ Answers(publication.old.index)
<1>1. ~Quiet /\ Visible = publication.old
  BY Seen DEF Quiet
<1> QED BY <1>1 DEF Inductive, Forgotten, Typed, Recorded

LEMMA AssignKeeps ==
  ASSUME Inductive, NEW t \in Threads, Assign(t)
  PROVE  /\ Inductive' /\ Visible' = Visible
         /\ \A id \in DOMAIN index' \ DOMAIN index :
              Current(id) /\ Environment(id) /\ Bound(id, Visible.cie)
<1> DEFINE p == publication
<1> DEFINE id == call[t].id
<1> DEFINE unit == call[t].unit
<1>1. /\ call[t].at = "publishing"
      /\ tick' = tick /\ retired' = retired /\ lifecycle' = lifecycle
      /\ call' = call /\ answered' = answered
      /\ p' = [p EXCEPT !.done = @ + 1]
  BY DEF Assign, world
<1>2. /\ Underway(t) /\ ~Quiet /\ ~retired /\ Visible = p.old
  BY <1>1, UnderwayNow
<1>3. /\ p = [plan |-> p.plan, old |-> p.old, done |-> p.done] /\ p.done \in 0 .. 5
      /\ LedgerOK(p.old.ledger, Budget) /\ Owns(p.old.ledger)
      /\ unit \in DOMAIN p.old.ledger.units /\ p.old.ledger.units[unit].state = "RESERVED"
      /\ p.plan.ledger = Consume(p.old.ledger, unit)
      /\ p.plan.index = Added(p.old.index, id, unit)
      /\ ledger = IF p.done >= 1 THEN p.plan.ledger ELSE p.old.ledger
      /\ index = IF p.done >= 5 THEN p.plan.index ELSE p.old.index
      /\ Current(id) /\ Environment(id) /\ Bound(id, p.old.cie)
  BY <1>2 DEF Underway
<1>4. p.done \in 0 .. 4
  BY <1>3 DEF Assign, Assignments
<1>5. p'.plan = p.plan /\ p'.old = p.old /\ p'.done = p.done + 1
      /\ p' = [plan |-> p'.plan, old |-> p'.old, done |-> p'.done]
  BY <1>1, <1>3
<1>6. /\ ledger' = IF p.done = 0 THEN p.plan.ledger ELSE ledger
      /\ index' = IF p.done = 4 THEN p.plan.index ELSE index
  <2> DEFINE next == Assignments[p.done + 1]
  <2>1. /\ ledger' = IF next = "ledger" THEN p.plan.ledger ELSE ledger
        /\ index' = IF next = "index" THEN p.plan.index ELSE index
    BY DEF Assign
  <2>2. /\ next = "ledger" <=> p.done = 0
        /\ next = "index" <=> p.done = 4
    <3>1. CASE p.done = 0
      BY <3>1 DEF Assignments
    <3>2. CASE p.done = 1
      BY <3>2 DEF Assignments
    <3>3. CASE p.done = 2
      BY <3>3 DEF Assignments
    <3>4. CASE p.done = 3
      BY <3>4 DEF Assignments
    <3>5. CASE p.done = 4
      BY <3>5 DEF Assignments
    <3> QED BY <1>4, <3>1, <3>2, <3>3, <3>4, <3>5
  <2> HIDE DEF next
  <2> QED BY <2>1, <2>2
<1>7. /\ p'.done \in 0 .. 5
      /\ ledger' = IF p'.done >= 1 THEN p'.plan.ledger ELSE p'.old.ledger
      /\ index' = IF p'.done >= 5 THEN p'.plan.index ELSE p'.old.index
  BY <1>3, <1>4, <1>5, <1>6
<1>8. LedgerOK(ledger', Budget) /\ Owns(ledger')
  <2>1. LedgerOK(p.plan.ledger, Budget) /\ Owns(p.plan.ledger)
    BY <1>3, ConsumeSound, EffectsAssumption DEF Sound
  <2> QED BY <1>3, <1>6, <2>1 DEF Inductive, Typed
<1>9. Typed' /\ Forgotten' /\ Agreed'
  BY <1>1, <1>2, <1>8 DEF Inductive, Typed, Forgotten, Agreed
<1>10. ~Quiet' /\ Visible' = Visible
  <2>1. ~Quiet'
    BY <1>1, <1>2 DEF Quiet
  <2> QED BY <1>2, <1>5, <2>1, SeenNext
<1>11. Recorded'
  BY <1>1, <1>10 DEF Inductive, Recorded, Answers, Balanced
<1>12. Underway(t)'
  <2>1. \A u \in Threads : call'[u].at = "publishing" => u = t
    BY <1>1, <1>2 DEF Underway
  <2>2. id \notin DOMAIN p.old.index /\ Cardinality(DOMAIN p.old.index) < MaxCommits
    BY <1>2 DEF Underway
  <2>3. Current(call[t].id)' /\ Environment(call[t].id)' /\ Bound(call[t].id, publication.old.cie)'
    BY <1>1, <1>3, <1>5 DEF Current, Environment, Bound
  <2> QED BY <1>1, <1>3, <1>5, <1>7, <2>1, <2>2, <2>3 DEF Underway
<1>13. \A u \in Threads : call'[u].at = "publishing" => u = t
  BY <1>1, <1>2 DEF Underway
<1>14. \A x \in DOMAIN index' \ DOMAIN index : x = id
  BY <1>3, <1>4, <1>6 DEF Added
<1> QED BY <1>2, <1>3, <1>9, <1>10, <1>11, <1>12, <1>13, <1>14 DEF Inductive

LEMMA InterruptKeeps ==
  ASSUME Inductive, NEW t \in Threads, Interrupt(t)
  PROVE  /\ Inductive' /\ DOMAIN index' \subseteq DOMAIN index
         /\ Visible.index' = Visible.index /\ Visible.ledger' = Visible.ledger
<1> DEFINE p == publication
<1>1. /\ call[t].at = "publishing"
      /\ tick' = tick /\ retired' = retired /\ lifecycle' = lifecycle
      /\ call' = [call EXCEPT ![t] = Resting] /\ answered' = answered
      /\ ledger' = p.old.ledger /\ index' = p.old.index
  BY DEF Interrupt, Refuse, Restored, world
<1>2. /\ Underway(t) /\ ~Quiet /\ ~retired /\ Visible = p.old
      /\ Balanced(p.old.ledger, p.old.index) /\ Answers(p.old.index)
  BY <1>1, UnderwayNow
<1>3. /\ LedgerOK(p.old.ledger, Budget) /\ Owns(p.old.ledger)
      /\ p.plan.index = Added(p.old.index, call[t].id, call[t].unit)
      /\ index = p.plan.index \/ index = p.old.index
      /\ \A u \in Threads : call[u].at = "publishing" => u = t
  BY <1>2 DEF Underway
<1>4. /\ Resting \in Calls /\ Resting.at = "idle"
      /\ \A u \in Threads : call'[u] = IF u = t THEN Resting ELSE call[u]
  BY <1>1 DEF Resting, Calls, Inductive, Typed
<1>5. Quiet'
  BY <1>3, <1>4 DEF Quiet
<1>6. Visible.index' = p.old.index /\ Visible.ledger' = p.old.ledger
  BY <1>1, <1>5, SeenNext
<1>7. Typed'
  <2>1. call' \in [Threads -> Calls]
    BY <1>1, <1>4 DEF Inductive, Typed
  <2>2. \A u \in Threads : call'[u].at # "idle" => call'[u].id \in AllIdentities
    BY <1>4 DEF Inductive, Typed
  <2> QED BY <1>1, <1>3, <2>1, <2>2 DEF Inductive, Typed
<1>8. Recorded' /\ Agreed' /\ Forgotten'
  <2>1. Recorded'
    BY <1>1, <1>2, <1>6 DEF Recorded, Answers, Balanced
  <2>2. Agreed' /\ Forgotten'
    BY <1>1, <1>2 DEF Inductive, Agreed, Forgotten
  <2> QED BY <2>1, <2>2
<1>9. DOMAIN index' \subseteq DOMAIN index
  BY <1>1, <1>3 DEF Added
<1> QED BY <1>2, <1>5, <1>6, <1>7, <1>8, <1>9 DEF Inductive, Quiet

LEMMA LeaveKeeps ==
  ASSUME Inductive, NEW t \in Threads, Leave(t)
  PROVE  /\ Inductive' /\ index' = index /\ lifecycle' = lifecycle
         /\ call[t].id \in AllIdentities /\ call[t].unit \in 0 .. Budget - 1
         /\ call[t].id \notin DOMAIN Visible.index
         /\ call[t].unit \notin InState(Visible.ledger, "CONSUMED")
         /\ Visible.index' = Added(Visible.index, call[t].id, call[t].unit)
         /\ InState(Visible.ledger', "CONSUMED") = InState(Visible.ledger, "CONSUMED") \cup {call[t].unit}
         /\ lifecycle.state = "ACTIVE" /\ ~retired /\ ~retired'
<1> DEFINE p == publication
<1> DEFINE id == call[t].id
<1> DEFINE unit == call[t].unit
<1>1. /\ call[t].at = "publishing" /\ p.done = 5
      /\ tick' = tick /\ retired' = retired /\ lifecycle' = lifecycle
      /\ ledger' = ledger /\ index' = index
      /\ call' = [call EXCEPT ![t] = Resting]
      /\ answered' = answered \/ answered' = answered \cup {[id |-> id, unit |-> unit]}
  BY DEF Leave, Return, Refuse, Assignments, world, published
<1>2. /\ Underway(t) /\ ~Quiet /\ ~retired /\ id \in AllIdentities /\ Visible = p.old
      /\ Balanced(p.old.ledger, p.old.index) /\ Answers(p.old.index)
  BY <1>1, UnderwayNow
<1>3. /\ LedgerOK(p.old.ledger, Budget) /\ Owns(p.old.ledger)
      /\ unit \in DOMAIN p.old.ledger.units /\ p.old.ledger.units[unit].state = "RESERVED"
      /\ id \notin DOMAIN p.old.index /\ Cardinality(DOMAIN p.old.index) < MaxCommits
      /\ ledger = Consume(p.old.ledger, unit)
      /\ index = Added(p.old.index, id, unit)
      /\ \A u \in Threads : call[u].at = "publishing" => u = t
      /\ Current(id)
  BY <1>1, <1>2 DEF Underway
<1>4. /\ Resting \in Calls /\ Resting.at = "idle"
      /\ \A u \in Threads : call'[u] = IF u = t THEN Resting ELSE call[u]
  BY <1>1 DEF Resting, Calls, Inductive, Typed
<1>5. Quiet'
  BY <1>3, <1>4 DEF Quiet
<1>6. Visible.index' = index /\ Visible.ledger' = ledger
  BY <1>1, <1>5, SeenNext
<1>7. Typed'
  <2>1. call' \in [Threads -> Calls]
    BY <1>1, <1>4 DEF Inductive, Typed
  <2>2. \A u \in Threads : call'[u].at # "idle" => call'[u].id \in AllIdentities
    BY <1>4 DEF Inductive, Typed
  <2> QED BY <1>1, <2>1, <2>2 DEF Inductive, Typed
<1>8. Balanced(ledger, index)
  BY <1>2, <1>3, AddedBalances
<1>9. \A a \in answered' : a.id \in DOMAIN index /\ index[a.id] = a.unit
  BY <1>1, <1>2, <1>3 DEF Answers, Added
<1>10. Recorded' /\ Agreed' /\ Forgotten'
  <2>1. Answers(Visible.index)'
    BY <1>6, <1>9 DEF Answers
  <2>2. Balanced(Visible.ledger, Visible.index)'
    BY <1>6, <1>8 DEF Balanced
  <2>3. Agreed' /\ Forgotten'
    BY <1>1, <1>2, <1>9 DEF Agreed, Forgotten
  <2> QED BY <2>1, <2>2, <2>3 DEF Recorded
<1>11. Inductive'
  BY <1>5, <1>7, <1>10 DEF Inductive, Quiet
<1>12. InState(ledger, "CONSUMED") = InState(p.old.ledger, "CONSUMED") \cup {unit}
  BY <1>3, ConsumeSpends, EffectsAssumption
<1>13. unit \in 0 .. Budget - 1 /\ unit \notin InState(p.old.ledger, "CONSUMED")
  BY <1>3 DEF LedgerOK, InState
<1>14. lifecycle.state = "ACTIVE"
  BY <1>3 DEF Current
<1> QED BY <1>1, <1>2, <1>3, <1>6, <1>11, <1>12, <1>13, <1>14

-----------------------------------------------------------------------------
LEMMA CommitKeeps ==
  ASSUME Inductive, NEW t \in Threads, Commit(t)
  PROVE  Inductive'
BY LookupKeeps, DecideKeeps, AssignKeeps, InterruptKeeps, LeaveKeeps DEF Commit

LEMMA InductiveNext == Inductive /\ [Next]_vars => Inductive'
<1> SUFFICES ASSUME Inductive, [Next]_vars PROVE Inductive'
  OBVIOUS
<1>1. CASE Around
  BY <1>1, AroundKeeps, CollectKeeps
<1>2. CASE \E t \in Threads : Commit(t)
  BY <1>2, CommitKeeps
<1>3. CASE UNCHANGED vars
  <2>1. /\ tick' = tick /\ retired' = retired /\ lifecycle' = lifecycle /\ ledger' = ledger
        /\ cie' = cie /\ child' = child /\ owner' = owner /\ index' = index
        /\ call' = call /\ publication' = publication /\ answered' = answered
    BY <1>3 DEF vars, world, published
  <2>2. Visible' = Visible
    BY <2>1 DEF Visible, Quiet, Present
  <2>3. Typed' /\ Forgotten' /\ Agreed'
    BY <2>1 DEF Inductive, Typed, Forgotten, Agreed
  <2>4. Recorded'
    BY <2>1, <2>2 DEF Inductive, Recorded, Answers, Balanced
  <2>5. \A t \in Threads : call'[t].at = "publishing" => Underway(t)'
    BY <2>1 DEF Inductive, Underway, Current, Environment, Bound
  <2> QED BY <2>3, <2>4, <2>5 DEF Inductive
<1> QED BY <1>1, <1>2, <1>3 DEF Next

LEMMA InductiveInvariant == Spec => []Inductive
<1> QED BY InductiveInit, InductiveNext, PTL DEF Spec

(* A commit and its charge are one, whoever raced, retired the reservation *)
(* or interrupted the publication, every answer is the commit on record,   *)
(* and the registry never overflows: authorize_charge_and_commit.          *)
THEOREM ChargesAreCommits == Spec => []ChargedExactlyOnce
<1>1. ASSUME Inductive PROVE ChargedExactlyOnce
  <2>1. LedgerOK(ledger, Budget) /\ Owns(ledger) /\ Agreed
    BY <1>1 DEF Inductive, Typed
  <2>2. ~retired => Balanced(Visible.ledger, Visible.index) /\ Answers(Visible.index)
    BY <1>1 DEF Inductive, Recorded
  <2>3. Cardinality(DOMAIN index) <= MaxCommits
    <3>1. CASE retired
      <4>1. index = <<>> /\ DOMAIN <<>> = {} /\ Cardinality({}) = 0
        BY <1>1, <3>1, FS_EmptySet DEF Inductive, Forgotten
      <4> QED BY <4>1, EffectsAssumption
    <3>2. CASE ~retired /\ Quiet
      BY <2>2, <3>2, Seen DEF Balanced
    <3>3. CASE ~Quiet
      <4>1. PICK t \in Threads : call[t].at = "publishing"
        BY <3>3 DEF Quiet
      <4>2. Underway(t) /\ Balanced(publication.old.ledger, publication.old.index)
        BY <1>1, <4>1, UnderwayNow
      <4>3. /\ LedgerOK(publication.old.ledger, Budget)
            /\ call[t].unit \in DOMAIN publication.old.ledger.units
            /\ publication.old.ledger.units[call[t].unit].state = "RESERVED"
            /\ call[t].id \notin DOMAIN publication.old.index
            /\ Cardinality(DOMAIN publication.old.index) < MaxCommits
            /\ \/ index = publication.old.index
               \/ index = Added(publication.old.index, call[t].id, call[t].unit)
        BY <4>2 DEF Underway
      <4>4. Balanced(Consume(publication.old.ledger, call[t].unit),
                     Added(publication.old.index, call[t].id, call[t].unit))
        BY <4>2, <4>3, AddedBalances
      <4> QED BY <4>2, <4>3, <4>4 DEF Balanced
    <3> QED BY <3>1, <3>2, <3>3
  <2> QED BY <2>1, <2>2, <2>3 DEF ChargedExactlyOnce, Agreed, Balanced, Answers
<1> QED BY <1>1, InductiveInvariant, PTL

(* An effect is committed only in the context it was prepared in, however  *)
(* the world moved between the two phases and the assignments.             *)
THEOREM CommitsAreInContext == Spec => CommittedInContext
<1> DEFINE InContext ==
      \A id \in DOMAIN index' \ DOMAIN index :
        /\ lifecycle = [state |-> "ACTIVE", revision |-> id.revision]
        /\ id.env = tick
        /\ NeedsCie(id.effect) =>
             LET before == Visible.cie
             IN /\ before.open /\ before.env = tick
                /\ id.snapshot = [number |-> before.number, round |-> before.round]
<1>1. ASSUME Inductive, [Next]_vars PROVE [InContext]_vars
  <2>1. CASE Around
    <3>1. index' = index \/ index' = <<>>
      BY <1>1, <2>1, AroundKeeps, CollectKeeps
    <3>2. DOMAIN <<>> = {}
      OBVIOUS
    <3> QED BY <3>1, <3>2
  <2>2. ASSUME NEW t \in Threads, Commit(t) PROVE InContext
    <3>1. CASE Assign(t)
      <4>1. \A id \in DOMAIN index' \ DOMAIN index :
              Current(id) /\ Environment(id) /\ Bound(id, Visible.cie)
        BY <1>1, <3>1, AssignKeeps
      <4> QED BY <4>1 DEF Current, Environment, Bound
    <3>2. CASE Interrupt(t)
      BY <1>1, <3>2, InterruptKeeps
    <3>3. CASE Leave(t)
      BY <1>1, <3>3, LeaveKeeps
    <3>4. CASE Decide(t)
      BY <1>1, <3>4, DecideKeeps
    <3>5. CASE \E id \in Identities, q \in DOMAIN ledger.records :
                 \E i \in ledger.records[q].units : Lookup(t, id, q, i)
      <4>1. index' = index
        BY <3>5 DEF Lookup, published
      <4> QED BY <4>1
    <3> QED BY <2>2, <3>1, <3>2, <3>3, <3>4, <3>5 DEF Commit
  <2>3. CASE UNCHANGED vars
    BY <2>3
  <2> QED BY <1>1, <2>1, <2>2, <2>3 DEF Next
<1> QED BY <1>1, InductiveInvariant, PTL DEF Spec, CommittedInContext

(* The gate implements ExactlyOnce: every step commits one effect against  *)
(* a charge of its own while the owner is open, closes it, forgets it, or  *)
(* changes nothing that can be seen.                                       *)
THEOREM GateIsExactlyOnce == Spec => CommitsExactlyOnce
<1> DEFINE open == lifecycle.state = "ACTIVE" /\ ~retired
<1> DEFINE spent == InState(Visible.ledger, "CONSUMED")
<1>1. Init => Gate!Init
  <2> SUFFICES ASSUME Init PROVE Gate!Init
    OBVIOUS
  <2>1. Quiet
    BY DEF Init, Quiet, Resting
  <2>2. Visible.index = <<>> /\ Visible.ledger = NewIndex(Budget)
    BY <2>1, Seen DEF Init
  <2>3. InState(NewIndex(Budget), "CONSUMED") = {}
    BY DEF InState, NewIndex, Fresh
  <2>4. lifecycle.state = "ACTIVE" /\ ~retired
    BY DEF Init
  <2> QED BY <2>2, <2>3, <2>4 DEF Gate!Init
<1>2. ASSUME Inductive, [Next]_vars PROVE [Gate!Next]_(Gate!vars)
  <2>1. CASE Around /\ ~Collect
    <3>1. /\ Visible.index' = Visible.index /\ spent' = spent /\ retired' = retired
          /\ lifecycle' = lifecycle \/ lifecycle'.state = "CLOSING"
      BY <1>2, <2>1, AroundKeeps
    <3>2. CASE lifecycle' = lifecycle
      BY <3>1, <3>2 DEF Gate!vars
    <3>3. CASE lifecycle'.state = "CLOSING"
      BY <3>1, <3>3 DEF Gate!Next, Gate!Close
    <3> QED BY <3>1, <3>2, <3>3
  <2>2. CASE Collect
    <3>1. retired' /\ Visible.index' = <<>> /\ spent' = spent
      BY <1>2, <2>2, CollectKeeps
    <3> QED BY <3>1 DEF Gate!Next, Gate!Forget
  <2>3. ASSUME NEW t \in Threads, Commit(t), ~Leave(t) PROVE UNCHANGED Gate!vars
    <3>1. Visible.index' = Visible.index /\ spent' = spent
      BY <1>2, <2>3, LookupKeeps, DecideKeeps, AssignKeeps, InterruptKeeps DEF Commit
    <3>2. lifecycle' = lifecycle /\ retired' = retired
      BY <2>3 DEF Commit, Lookup, Decide, Assign, Interrupt, world
    <3> QED BY <3>1, <3>2 DEF Gate!vars
  <2>4. ASSUME NEW t \in Threads, Leave(t) PROVE Gate!Next
    <3> DEFINE id == call[t].id
    <3> DEFINE unit == call[t].unit
    <3>1. /\ lifecycle' = lifecycle /\ id \in AllIdentities /\ unit \in 0 .. Budget - 1
          /\ id \notin DOMAIN Visible.index /\ unit \notin spent
          /\ Visible.index' = Added(Visible.index, id, unit) /\ spent' = spent \cup {unit}
          /\ lifecycle.state = "ACTIVE" /\ ~retired /\ ~retired'
      BY <1>2, <2>4, LeaveKeeps
    <3> HIDE DEF id, unit, spent
    <3>2. id \in Gate!New
      BY <3>1 DEF Gate!New, Added
    <3>3. Gate!Commit(id, unit)
      BY <3>1 DEF Gate!Commit, Added, spent
    <3> QED BY <3>1, <3>2, <3>3 DEF Gate!Next
  <2>5. CASE UNCHANGED vars
    <3>1. UNCHANGED Gate!vars
      BY <2>5 DEF Gate!vars, vars, world, published, Visible, Present, Quiet
    <3> QED BY <3>1
  <2> QED BY <1>2, <2>1, <2>2, <2>3, <2>4, <2>5 DEF Next
<1> QED BY <1>1, <1>2, InductiveInvariant, PTL DEF Spec, CommitsExactlyOnce, Gate!Spec

-----------------------------------------------------------------------------
(* Rounds.  What was published lies before the latest snapshot, and in an  *)
(* epoch that is open each of its rounds is one publication.               *)
Rounds(commits) == {id \in DOMAIN commits : KindOf[id.effect] \in Publishing}

Extensions(commits, number) ==
  {id \in Rounds(commits) : KindOf[id.effect] = "PUBLISH" /\ id.snapshot.number = number}

Ordered(commits, now) ==
  /\ now = [open |-> now.open, number |-> now.number, round |-> now.round, env |-> now.env]
  /\ now.number \in Nat /\ now.round \in Nat
  /\ \A x \in Rounds(commits) :
       /\ x.snapshot = [number |-> x.snapshot.number, round |-> x.snapshot.round]
       /\ x.snapshot.number \in Nat /\ x.snapshot.round \in Nat
       /\ x.snapshot.number <= now.number
       /\ x.snapshot.number = now.number =>
            x.snapshot.round < now.round \/ (x.snapshot.round = now.round /\ ~now.open)
  /\ \A x, y \in Rounds(commits) : x.snapshot = y.snapshot => x = y

Counted(commits, now) ==
  /\ IsFiniteSet(DOMAIN commits)
  /\ now.round = Cardinality(Extensions(commits, now.number))

(* The snapshot that a commit leaves, and the place of its epoch.          *)
Extended(now, kind) ==
  CASE kind = "PUBLISH" -> [now EXCEPT !.round = @ + 1]
    [] kind = "PUBLISH_TERMINAL" -> [now EXCEPT !.open = FALSE]
    [] kind \in Mechanical -> now

(* The plan of a publication under way and how far it was carried out.     *)
Planned(t) ==
  LET p == publication  kind == KindOf[call[t].id.effect]
  IN /\ p.plan.cie = Extended(p.old.cie, kind)
     /\ p.plan.child <=> p.old.child /\ kind # "PUBLISH_TERMINAL"
     /\ cie = IF p.done >= 3 THEN p.plan.cie ELSE p.old.cie
     /\ child <=> IF p.done >= 4 THEN p.plan.child ELSE p.old.child

Counting ==
  /\ Visible.child <=> Visible.cie.open
  /\ Ordered(Visible.index, Visible.cie)
  /\ ~retired => Counted(Visible.index, Visible.cie)
  /\ \A t \in Threads : call[t].at = "publishing" => Planned(t)

LEMMA SeenEpoch ==
  /\ Quiet => Visible.cie = cie /\ Visible.child = child
  /\ Quiet' => Visible.cie' = cie' /\ Visible.child' = child'
BY DEF Visible, Present, Quiet

(* The epoch ends: its rounds stay what they are.                          *)
LEMMA EndedKeeps ==
  ASSUME NEW commits, NEW now, Ordered(commits, now), NEW more, more = [now EXCEPT !.open = FALSE]
  PROVE  /\ Ordered(commits, more) /\ ~more.open
         /\ Counted(commits, now) => Counted(commits, more)
<1>1. now = [open |-> now.open, number |-> now.number, round |-> now.round, env |-> now.env]
  BY DEF Ordered
<1>2. /\ more = [open |-> more.open, number |-> more.number, round |-> more.round, env |-> more.env]
      /\ ~more.open /\ more.number = now.number /\ more.round = now.round
  BY <1>1
<1> QED BY <1>2 DEF Ordered, Counted

(* An epoch is opened: nothing has its number yet.                         *)
LEMMA OpenedKeeps ==
  ASSUME NEW commits, NEW now, Ordered(commits, now), NEW more, NEW env,
         more = [open |-> TRUE, number |-> now.number + 1, round |-> 0, env |-> env]
  PROVE  /\ Ordered(commits, more) /\ more.open
         /\ Counted(commits, now) => Counted(commits, more)
<1>1. /\ more = [open |-> more.open, number |-> more.number, round |-> more.round, env |-> more.env]
      /\ more.open /\ more.number = now.number + 1 /\ more.round = 0
  OBVIOUS
<1>2. now.number \in Nat
  BY DEF Ordered
<1>3. \A x \in Rounds(commits) : x.snapshot.number \in Nat /\ x.snapshot.number < more.number
  <2>1. \A x \in Rounds(commits) : x.snapshot.number \in Nat /\ x.snapshot.number <= now.number
    BY DEF Ordered
  <2> QED BY <1>1, <1>2, <2>1
<1>4. Ordered(commits, more)
  BY <1>1, <1>2, <1>3 DEF Ordered
<1>5. Extensions(commits, more.number) = {}
  BY <1>1, <1>2, <1>3 DEF Extensions
<1> QED BY <1>1, <1>4, <1>5, FS_EmptySet DEF Counted

(* A commit in the latest snapshot is a new round, or the last.            *)
LEMMA ExtendedKeeps ==
  ASSUME NEW commits, NEW now, Ordered(commits, now), Counted(commits, now),
         NEW id, id \notin DOMAIN commits, Bound(id, now), NEW unit,
         KindOf[id.effect] \in Mechanical \cup Publishing
  PROVE  LET more == Extended(now, KindOf[id.effect])
         IN /\ Ordered(Added(commits, id, unit), more) /\ Counted(Added(commits, id, unit), more)
            /\ more.open <=> now.open /\ KindOf[id.effect] # "PUBLISH_TERMINAL"
<1> DEFINE kind == KindOf[id.effect]
           after == Added(commits, id, unit)
           more == Extended(now, kind)
<1>1. /\ now = [open |-> now.open, number |-> now.number, round |-> now.round, env |-> now.env]
      /\ now.number \in Nat /\ now.round \in Nat
      /\ IsFiniteSet(DOMAIN commits) /\ now.round = Cardinality(Extensions(commits, now.number))
  BY DEF Ordered, Counted
<1>2. DOMAIN after = DOMAIN commits \cup {id} /\ IsFiniteSet(DOMAIN commits \cup {id})
  BY <1>1, FS_AddElement DEF Added
<1>3. CASE kind \in Mechanical
  <2>1. more = now /\ kind \notin Publishing
    BY <1>3 DEF Extended, Mechanical, Publishing
  <2>2. Rounds(after) = Rounds(commits)
    BY <1>2, <2>1 DEF Rounds
  <2>3. Ordered(after, more)
    BY <2>1, <2>2 DEF Ordered
  <2>4. Counted(after, more)
    BY <1>1, <1>2, <2>1, <2>2 DEF Counted, Extensions
  <2>5. kind # "PUBLISH_TERMINAL"
    BY <1>3 DEF Mechanical
  <2> QED BY <2>1, <2>3, <2>4, <2>5
<1>4. CASE kind \in Publishing
  <2>1. /\ now.open /\ id.snapshot = [number |-> now.number, round |-> now.round]
        /\ id.snapshot.number = now.number /\ id.snapshot.round = now.round
    BY <1>4 DEF Bound, NeedsCie, Publishing
  <2>2. Rounds(after) = Rounds(commits) \cup {id} /\ id \notin Rounds(commits)
    BY <1>2, <1>4 DEF Rounds
  <2>3. \A x \in Rounds(commits) :
          /\ x.snapshot.number \in Nat /\ x.snapshot.round \in Nat
          /\ x.snapshot.number <= now.number
          /\ x.snapshot.number = now.number => x.snapshot.round < now.round
    BY <2>1 DEF Ordered
  <2>4. \A x \in Rounds(commits) : x.snapshot # id.snapshot
    BY <1>1, <2>1, <2>3
  <2>5. \A x, y \in Rounds(after) : x.snapshot = y.snapshot => x = y
    BY <2>2, <2>4 DEF Ordered
  <2>6. /\ more = [open |-> more.open, number |-> more.number, round |-> more.round, env |-> more.env]
        /\ more.number = now.number
        /\ kind = "PUBLISH" => more.round = now.round + 1 /\ more.open
        /\ kind = "PUBLISH_TERMINAL" => more.round = now.round /\ ~more.open
    BY <1>1, <1>4, <2>1 DEF Extended, Publishing, Mechanical
  <2>7. kind = "PUBLISH" \/ kind = "PUBLISH_TERMINAL"
    BY <1>4 DEF Publishing
  <2> HIDE DEF after, more, kind
  <2>8. Ordered(after, more)
    <3>1. more.number \in Nat /\ more.round \in Nat
      BY <1>1, <2>6, <2>7
    <3>2. \A x \in Rounds(after) :
            x.snapshot = [number |-> x.snapshot.number, round |-> x.snapshot.round]
      BY <2>1, <2>2 DEF Ordered
    <3>3. \A x \in Rounds(after) :
            /\ x.snapshot.number \in Nat /\ x.snapshot.round \in Nat
            /\ x.snapshot.number <= more.number
            /\ x.snapshot.number = more.number =>
                 x.snapshot.round < more.round \/ (x.snapshot.round = more.round /\ ~more.open)
      <4>1. CASE kind = "PUBLISH"
        BY <1>1, <2>1, <2>2, <2>3, <2>6, <4>1
      <4>2. CASE kind = "PUBLISH_TERMINAL"
        BY <1>1, <2>1, <2>2, <2>3, <2>6, <4>2
      <4> QED BY <2>7, <4>1, <4>2
    <3> QED BY <2>5, <2>6, <3>1, <3>2, <3>3 DEF Ordered
  <2>9. Counted(after, more)
    <3>1. CASE kind = "PUBLISH"
      <4>1. Extensions(after, now.number) = Extensions(commits, now.number) \cup {id}
            /\ id \notin Extensions(commits, now.number)
        BY <2>1, <2>2, <3>1 DEF Extensions, kind
      <4>2. IsFiniteSet(Extensions(commits, now.number))
        <5>1. Extensions(commits, now.number) \subseteq DOMAIN commits
          BY DEF Extensions, Rounds
        <5> QED BY <1>1, <5>1, FS_Subset
      <4>3. Cardinality(Extensions(after, now.number)) = now.round + 1
        BY <1>1, <4>1, <4>2, FS_AddElement
      <4> QED BY <1>2, <2>6, <3>1, <4>3 DEF Counted
    <3>2. CASE kind = "PUBLISH_TERMINAL"
      <4>1. Extensions(after, now.number) = Extensions(commits, now.number)
        BY <2>2, <3>2 DEF Extensions, kind
      <4> QED BY <1>1, <1>2, <2>6, <3>2, <4>1 DEF Counted
    <3> QED BY <2>7, <3>1, <3>2
  <2> QED BY <2>1, <2>6, <2>7, <2>8, <2>9 DEF after, more, kind
<1> QED BY <1>3, <1>4

LEMMA CountingInit == Init => Counting
<1> SUFFICES ASSUME Init PROVE Counting
  OBVIOUS
<1>1. /\ \A t \in Threads : call[t].at = "idle"
      /\ cie = [open |-> FALSE, number |-> 0, round |-> 0, env |-> 0] /\ ~child /\ index = <<>>
  BY DEF Init, Resting
<1>2. Visible.cie = cie /\ Visible.child = child /\ Visible.index = <<>>
  BY <1>1, SeenEpoch, Seen DEF Quiet
<1>3. DOMAIN <<>> = {} /\ Rounds(<<>>) = {} /\ \A n : Extensions(<<>>, n) = {}
  BY DEF Rounds, Extensions
<1>4. Ordered(<<>>, cie) /\ ~cie.open
  BY <1>1, <1>3 DEF Ordered
<1>5. Counted(<<>>, cie)
  BY <1>1, <1>3, FS_EmptySet DEF Counted
<1> QED BY <1>1, <1>2, <1>4, <1>5 DEF Counting

(* Between publications an epoch stays, ends or is opened.                 *)
LEMMA EpochMoves ==
  ASSUME Counting, Quiet, Quiet', index' = index, retired' = retired,
         \/ cie' = cie /\ child' = child
         \/ EndEpoch
         \/ /\ cie' = [open |-> TRUE, number |-> cie.number + 1, round |-> 0, env |-> tick]
            /\ child' = TRUE
  PROVE  Counting'
<1>1. /\ (child <=> cie.open) /\ Ordered(index, cie) /\ (~retired => Counted(index, cie))
      /\ Visible.cie' = cie' /\ Visible.child' = child' /\ Visible.index' = index
  BY Seen, SeenEpoch, SeenNext DEF Counting
<1>2. /\ (child' <=> cie'.open) /\ Ordered(index, cie') /\ (~retired => Counted(index, cie'))
  <2>1. CASE cie' = cie /\ child' = child
    BY <1>1, <2>1
  <2>2. CASE EndEpoch
    BY <1>1, <2>2, EndedKeeps DEF EndEpoch
  <2>3. CASE /\ cie' = [open |-> TRUE, number |-> cie.number + 1, round |-> 0, env |-> tick]
             /\ child' = TRUE
    BY <1>1, <2>3, OpenedKeeps
  <2> QED BY <2>1, <2>2, <2>3
<1>3. Ordered(Visible.index, Visible.cie)' /\ (~retired' => Counted(Visible.index, Visible.cie)')
  BY <1>1, <1>2 DEF Ordered, Counted, Rounds, Extensions
<1> QED BY <1>1, <1>2, <1>3 DEF Counting, Quiet

LEMMA CountingAround ==
  ASSUME Inductive, Counting, Around
  PROVE  Counting'
<1>1. CASE Collect
  <2>1. Quiet /\ Quiet' /\ cie' = cie /\ child' = child /\ retired' /\ index' = <<>>
    BY <1>1 DEF Collect, Quiet, Resting
  <2>2. /\ (child <=> cie.open) /\ Ordered(index, cie)
        /\ Visible.cie' = cie /\ Visible.child' = child /\ Visible.index' = <<>>
    BY <2>1, Seen, SeenEpoch, SeenNext DEF Counting
  <2>3. Rounds(<<>>) = {}
    BY DEF Rounds
  <2>4. Ordered(Visible.index, Visible.cie)'
    BY <2>2, <2>3 DEF Ordered, Rounds
  <2> QED BY <2>1, <2>2, <2>4 DEF Counting, Quiet
<1>2. CASE ~Collect
  <2>1. Quiet /\ Quiet' /\ index' = index /\ retired' = retired
    BY <1>2 DEF Around, Advance, OpenEpoch, FinishEpoch, BeginClose, RetireUnusedUnits,
       RetireReservation, ReserveEffect, Quiet, published, world
  <2>2. \/ cie' = cie /\ child' = child
        \/ EndEpoch
        \/ /\ cie' = [open |-> TRUE, number |-> cie.number + 1, round |-> 0, env |-> tick]
           /\ child' = TRUE
    BY <1>2 DEF Around, Advance, OpenEpoch, FinishEpoch, BeginClose, RetireUnusedUnits,
       RetireReservation, ReserveEffect, published
  <2> QED BY <2>1, <2>2, EpochMoves
<1> QED BY <1>1, <1>2

LEMMA CountingLookup ==
  ASSUME Inductive, Counting, NEW t \in Threads, NEW id \in Identities,
         NEW q \in DOMAIN ledger.records, NEW i \in ledger.records[q].units, Lookup(t, id, q, i)
  PROVE  Counting'
<1>1. Quiet /\ index' = index /\ retired' = retired /\ cie' = cie /\ child' = child
  BY DEF Lookup, published, world
<1>2. \A u \in Threads : call'[u].at # "publishing"
  <2>1. CASE Return(t, id, index[id])
    BY <1>1, <2>1 DEF Return, Resting, Quiet, Inductive, Typed
  <2>2. CASE call' = [call EXCEPT ![t] = [at |-> "between", id |-> id, reservation |-> q, unit |-> i]]
    BY <1>1, <2>2 DEF Quiet, Inductive, Typed
  <2> QED BY <2>1, <2>2 DEF Lookup
<1>3. Quiet'
  BY <1>2 DEF Quiet
<1> QED BY <1>1, <1>3, EpochMoves

LEMMA CountingDecide ==
  ASSUME Inductive, Counting, NEW t \in Threads, Decide(t)
  PROVE  Counting'
<1> DEFINE id == call[t].id
<1>1. Quiet /\ index' = index /\ retired' = retired
  BY DEF Decide, world
<1>2. CASE /\ call' = [call EXCEPT ![t] = Resting]
           /\ (cie' = cie /\ child' = child) \/ EndEpoch
  <2>1. Quiet'
    BY <1>1, <1>2 DEF Quiet, Inductive, Typed, Resting
  <2> QED BY <1>1, <1>2, <2>1, EpochMoves
<1>3. CASE /\ call' = [call EXCEPT ![t].at = "publishing"]
           /\ publication' = [plan |-> Prospective(id, call[t].unit), old |-> Present, done |-> 0]
           /\ cie' = cie /\ child' = child
  <2>1. /\ \A u \in Threads : call'[u].at = "publishing" => u = t
        /\ call'[t].at = "publishing" /\ call'[t].id = id
    BY <1>1, <1>3 DEF Quiet, Inductive, Typed, Calls
  <2>2. ~Quiet'
    BY <2>1 DEF Quiet
  <2>3. /\ publication'.old.cie = cie /\ publication'.old.child = child /\ publication'.old.index = index
        /\ publication'.plan = Prospective(id, call[t].unit) /\ publication'.done = 0
    BY <1>3 DEF Present
  <2>4. /\ Visible.cie' = cie /\ Visible.child' = child /\ Visible.index' = index
    BY <2>2, <2>3, SeenNext
  <2>5. /\ (child <=> cie.open) /\ Ordered(index, cie) /\ (~retired => Counted(index, cie))
    BY <1>1, Seen, SeenEpoch DEF Counting
  <2>6. Ordered(Visible.index, Visible.cie)' /\ (~retired' => Counted(Visible.index, Visible.cie)')
    BY <1>1, <2>4, <2>5 DEF Ordered, Counted, Rounds, Extensions
  <2>7. /\ publication'.plan.cie = Extended(cie, KindOf[id.effect])
        /\ publication'.plan.child = (child /\ KindOf[id.effect] # "PUBLISH_TERMINAL")
    <3>1. /\ Prospective(id, call[t].unit).cie = Extended(cie, KindOf[id.effect])
          /\ Prospective(id, call[t].unit).child = (child /\ KindOf[id.effect] # "PUBLISH_TERMINAL")
      BY Zenon DEF Prospective, Extended
    <3> QED BY <2>3, <3>1, Zenon
  <2>8. Planned(t)'
    <3>1. /\ publication'.plan.cie = Extended(publication'.old.cie, KindOf[call'[t].id.effect])
          /\ publication'.plan.child <=> publication'.old.child /\ KindOf[call'[t].id.effect] # "PUBLISH_TERMINAL"
      BY <2>1, <2>3, <2>7, Zenon
    <3>2. /\ cie' = publication'.old.cie /\ child' = publication'.old.child
          /\ ~(publication'.done >= 3) /\ ~(publication'.done >= 4)
      BY <1>3, <2>3
    <3> QED BY <3>1, <3>2 DEF Planned, Extended
  <2> QED BY <2>1, <2>4, <2>5, <2>6, <2>8 DEF Counting
<1> QED BY <1>2, <1>3 DEF Decide, Return, Refuse

LEMMA CountingAssign ==
  ASSUME Inductive, Counting, NEW t \in Threads, Assign(t)
  PROVE  Counting'
<1> DEFINE p == publication
           next == Assignments[p.done + 1]
<1>1. /\ call[t].at = "publishing" /\ call' = call /\ retired' = retired
      /\ p' = [p EXCEPT !.done = @ + 1]
      /\ cie' = IF next = "cie" THEN p.plan.cie ELSE cie
      /\ child' = IF next = "child" THEN p.plan.child ELSE child
  BY DEF Assign, world
<1>2. Visible' = Visible
  BY AssignKeeps
<1>3. /\ p = [plan |-> p.plan, old |-> p.old, done |-> p.done] /\ p.done \in 0 .. 5
      /\ \A u \in Threads : call[u].at = "publishing" => u = t
  BY <1>1, UnderwayNow DEF Underway
<1>4. p.done \in 0 .. 4
  BY <1>3 DEF Assign, Assignments
<1>5. p'.plan = p.plan /\ p'.old = p.old /\ p'.done = p.done + 1
  BY <1>1, <1>3
<1>6. (next = "cie" <=> p.done = 2) /\ (next = "child" <=> p.done = 3)
  <2>1. CASE p.done = 0
    BY <2>1 DEF Assignments
  <2>2. CASE p.done = 1
    BY <2>2 DEF Assignments
  <2>3. CASE p.done = 2
    BY <2>3 DEF Assignments
  <2>4. CASE p.done = 3
    BY <2>4 DEF Assignments
  <2>5. CASE p.done = 4
    BY <2>5 DEF Assignments
  <2> QED BY <1>4, <2>1, <2>2, <2>3, <2>4, <2>5
<1>7. Planned(t)
  BY <1>1 DEF Counting
<1> HIDE DEF next
<1>8. /\ cie' = IF p'.done >= 3 THEN p'.plan.cie ELSE p'.old.cie
      /\ child' <=> IF p'.done >= 4 THEN p'.plan.child ELSE p'.old.child
  <2>1. cie' = IF p.done = 2 THEN p.plan.cie ELSE cie
    BY <1>1, <1>6
  <2>2. child' <=> IF p.done = 3 THEN p.plan.child ELSE child
    BY <1>1, <1>6
  <2>3. /\ cie = IF p.done >= 3 THEN p.plan.cie ELSE p.old.cie
        /\ child <=> IF p.done >= 4 THEN p.plan.child ELSE p.old.child
    BY <1>7 DEF Planned
  <2> QED BY <1>4, <1>5, <2>1, <2>2, <2>3
<1>9. /\ p'.plan.cie = Extended(p'.old.cie, KindOf[call'[t].id.effect])
      /\ p'.plan.child <=> p'.old.child /\ KindOf[call'[t].id.effect] # "PUBLISH_TERMINAL"
  BY <1>1, <1>5, <1>7 DEF Planned
<1>10. Planned(t)'
  BY <1>8, <1>9 DEF Planned, Extended
<1>11. /\ (Visible.child <=> Visible.cie.open) /\ Ordered(Visible.index, Visible.cie)
       /\ ~retired => Counted(Visible.index, Visible.cie)
  BY DEF Counting
<1>12. /\ (Visible.child <=> Visible.cie.open)' /\ Ordered(Visible.index, Visible.cie)'
       /\ ~retired' => Counted(Visible.index, Visible.cie)'
  BY <1>1, <1>2, <1>11 DEF Ordered, Counted, Rounds, Extensions
<1> QED BY <1>1, <1>3, <1>10, <1>12 DEF Counting

LEMMA CountingInterrupt ==
  ASSUME Inductive, Counting, NEW t \in Threads, Interrupt(t)
  PROVE  Counting'
<1> DEFINE old == publication.old
<1>1. /\ call[t].at = "publishing" /\ retired' = retired /\ call' = [call EXCEPT ![t] = Resting]
      /\ index' = old.index /\ cie' = old.cie /\ child' = old.child
  BY DEF Interrupt, Refuse, Restored, world
<1>2. Visible = old /\ \A u \in Threads : call[u].at = "publishing" => u = t
  BY <1>1, UnderwayNow DEF Underway
<1>3. Quiet'
  BY <1>1, <1>2 DEF Quiet, Inductive, Typed, Resting
<1>4. Visible.cie' = old.cie /\ Visible.child' = old.child /\ Visible.index' = old.index
  BY <1>1, <1>3, SeenEpoch, SeenNext
<1>5. /\ (old.child <=> old.cie.open) /\ Ordered(old.index, old.cie)
      /\ ~retired => Counted(old.index, old.cie)
  BY <1>2 DEF Counting
<1>6. /\ (Visible.child <=> Visible.cie.open)' /\ Ordered(Visible.index, Visible.cie)'
      /\ ~retired' => Counted(Visible.index, Visible.cie)'
  BY <1>1, <1>4, <1>5 DEF Ordered, Counted, Rounds, Extensions
<1> QED BY <1>3, <1>6 DEF Counting, Quiet

LEMMA CountingLeave ==
  ASSUME Inductive, Counting, NEW t \in Threads, Leave(t)
  PROVE  Counting'
<1> DEFINE p == publication
           id == call[t].id
           after == Added(p.old.index, id, call[t].unit)
<1>1. /\ call[t].at = "publishing" /\ p.done = 5 /\ retired' = retired
      /\ call' = [call EXCEPT ![t] = Resting]
      /\ index' = index /\ cie' = cie /\ child' = child
  BY DEF Leave, Return, Refuse, Assignments, world, published
<1>2. /\ Underway(t) /\ ~retired /\ id \in AllIdentities /\ Visible = p.old
  BY <1>1, UnderwayNow
<1>3. /\ id \notin DOMAIN p.old.index /\ Bound(id, p.old.cie) /\ index = after
      /\ \A u \in Threads : call[u].at = "publishing" => u = t
  BY <1>1, <1>2 DEF Underway
<1>4. Planned(t) /\ Ordered(p.old.index, p.old.cie) /\ Counted(p.old.index, p.old.cie)
      /\ (p.old.child <=> p.old.cie.open)
  BY <1>1, <1>2 DEF Counting
<1>5. KindOf[id.effect] \in Mechanical \cup Publishing
  BY <1>2, EffectsAssumption DEF AllIdentities
<1>6. /\ cie = Extended(p.old.cie, KindOf[id.effect])
      /\ child <=> p.old.child /\ KindOf[id.effect] # "PUBLISH_TERMINAL"
  BY <1>1, <1>4 DEF Planned
<1>7. Ordered(after, cie) /\ Counted(after, cie) /\ (child <=> cie.open)
  BY <1>3, <1>4, <1>5, <1>6, ExtendedKeeps
<1>8. Quiet'
  BY <1>1, <1>3 DEF Quiet, Inductive, Typed, Resting
<1>9. Visible.cie' = cie /\ Visible.child' = child /\ Visible.index' = after
  BY <1>1, <1>3, <1>8, SeenEpoch, SeenNext
<1> HIDE DEF after
<1>10. /\ (Visible.child <=> Visible.cie.open)' /\ Ordered(Visible.index, Visible.cie)'
       /\ Counted(Visible.index, Visible.cie)'
  BY <1>7, <1>9 DEF Ordered, Counted, Rounds, Extensions
<1> QED BY <1>8, <1>10 DEF Counting, Quiet

LEMMA CountingNext == Inductive /\ Counting /\ [Next]_vars => Counting'
<1> SUFFICES ASSUME Inductive, Counting, [Next]_vars PROVE Counting'
  OBVIOUS
<1>1. CASE Around
  BY <1>1, CountingAround
<1>2. CASE \E t \in Threads : Commit(t)
  BY <1>2, CountingLookup, CountingDecide, CountingAssign, CountingInterrupt, CountingLeave DEF Commit
<1>3. CASE UNCHANGED vars
  <2>1. /\ retired' = retired /\ cie' = cie /\ child' = child /\ index' = index
        /\ ledger' = ledger /\ owner' = owner /\ call' = call /\ publication' = publication
    BY <1>3 DEF vars, world, published
  <2>2. Visible' = Visible
    BY <2>1 DEF Visible, Quiet, Present
  <2> QED BY <2>1, <2>2 DEF Counting, Ordered, Counted, Rounds, Extensions, Planned, Extended
<1> QED BY <1>1, <1>2, <1>3 DEF Next

(* The round of an epoch counts its committed publications, no two of them *)
(* extend the same snapshot, and the invocation names the epoch exactly    *)
(* while it is open, however publications raced and were interrupted.      *)
THEOREM RoundsCountCommits == Spec => []RoundsAreCommits
<1>1. Counting => RoundsAreCommits
  BY DEF Counting, Ordered, Counted, Rounds, Extensions, RoundsAreCommits
<1>2. Spec => []Counting
  BY CountingInit, CountingNext, InductiveInvariant, PTL DEF Spec
<1> QED BY <1>1, <1>2, PTL
=============================================================================
