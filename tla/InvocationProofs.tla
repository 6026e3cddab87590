-------------------------- MODULE InvocationProofs --------------------------
(***************************************************************************)
(* The safety properties of Invocation for every number of runtimes,       *)
(* causes, units, studies and work classes.  The inductive invariant is    *)
(* Invocation!Inductive; each action preserves it by a lemma of its own.   *)
(* At the end, that the runtimes implement Allowance.                      *)
(***************************************************************************)
EXTENDS Invocation, LedgerProofs

(* What a step does to the ledgers of causes that were admitted: the       *)
(* action NoRefund asks of every step.                                     *)
Advance == \A c \in Causes : Admitted(c) => Follows(ledger[c], ledger'[c])

(* A study's escrow is a range of reservations of its own ledger.          *)
LEMMA EscrowRecorded ==
  ASSUME Inductive, NEW c \in Causes, NEW s \in Studies, study[c][s].state # "NONE"
  PROVE  Escrow(study[c][s], s) \subseteq DOMAIN ledger[c].records
<1>1. study[c][s].base \in Nat /\ Len(Frontier[s]) \in Nat
  BY InvocationAssumption DEF Inductive, TypeOK
<1>2. study[c][s].base + Len(Frontier[s]) <= ledger[c].sequence
  BY DEF Inductive, EscrowIsIssued
<1>3. ledger[c].sequence \in Nat /\ DOMAIN ledger[c].records = 0 .. ledger[c].sequence - 1
  BY InvocationAssumption DEF Inductive, TypeOK, LedgerOK
<1> QED
  BY <1>1, <1>2, <1>3 DEF Escrow

(* One published index: the ledger of c becomes a sound later index and    *)
(* nothing else changes.                                                   *)
LEMMA PublishKeeps ==
  ASSUME Inductive, NEW c \in Causes, Live(c), lifecycle[c].state # "CLOSED",
         NEW M, Sound(ledger[c], M, Budget), Publish(c, M)
  PROVE  Inductive' /\ Advance
<1> USE DEF Inductive
<1>1. /\ ledger'[c] = M /\ DOMAIN ledger' = Causes
      /\ \A d \in Causes : d # c => ledger'[d] = ledger[d]
      /\ UNCHANGED <<runtime, causes, lifecycle, children, epoch, epochs, study>>
  BY DEF Publish, TypeOK
<1>2. Admitted(c) /\ LedgerOK(ledger[c], Budget)
  BY DEF Live, IndexedOnce, TypeOK
<1>3. TypeOK'
  BY <1>1, <1>2 DEF TypeOK, Sound, Admitted
<1>4. ReservationsOwnTheirUnits'
  BY <1>1 DEF ReservationsOwnTheirUnits, Sound
<1>5. ChildrenAreCounted'
  BY <1>1 DEF ChildrenAreCounted
<1>6. ClosedIsDrained'
  BY <1>1 DEF ClosedIsDrained
<1>7. ledger[c].sequence <= M.sequence
  <2>1. \A q \in 0 .. ledger[c].sequence - 1 : q \in 0 .. M.sequence - 1
    BY <1>2 DEF Sound, Follows, LedgerOK
  <2>2. ledger[c].sequence \in Nat /\ M.sequence \in Nat
    BY <1>2 DEF Sound, LedgerOK
  <2> QED
    BY <2>1, <2>2
<1>8. EscrowEndsWithStudy'
  <2> SUFFICES ASSUME NEW d \in Causes, NEW s \in Studies
               PROVE  /\ study[d][s].state = "ENDED" => ReservedIn(ledger'[d], Escrow(study[d][s], s)) = {}
                      /\ study[d][s].state = "OPEN" => lifecycle[d].state = "ACTIVE"
    BY <1>1 DEF EscrowEndsWithStudy
  <2>1. CASE d # c
    BY <1>1, <2>1 DEF EscrowEndsWithStudy
  <2>2. CASE d = c /\ study[d][s].state = "ENDED"
    <3>1. Escrow(study[c][s], s) \subseteq DOMAIN ledger[c].records
      BY <2>2, EscrowRecorded
    <3>2. ReservedIn(ledger[c], Escrow(study[c][s], s)) = {}
      BY <2>2 DEF EscrowEndsWithStudy
    <3>3. ReservedIn(M, Escrow(study[c][s], s)) = {}
      BY <1>2, <3>1, <3>2, NothingReturns, InvocationAssumption DEF Sound, ReservationsOwnTheirUnits
    <3> QED
      BY <1>1, <2>2, <3>3
  <2>3. CASE d = c /\ study[d][s].state # "ENDED"
    BY <2>3 DEF EscrowEndsWithStudy
  <2> QED
    BY <2>1, <2>2, <2>3
<1>9. RevisionTellsState' /\ IndexedOnce'
  BY <1>1 DEF RevisionTellsState, IndexedOnce, Admitted
<1>10. EscrowIsIssued'
  <2> SUFFICES ASSUME NEW d \in Causes, NEW s \in Studies, study[d][s].state # "NONE"
               PROVE  study[d][s].base + Len(Frontier[s]) <= ledger'[d].sequence
    BY <1>1 DEF EscrowIsIssued
  <2>1. study[d][s].base + Len(Frontier[s]) <= ledger[d].sequence
    BY DEF EscrowIsIssued
  <2>2. study[d][s].base \in Nat /\ Len(Frontier[s]) \in Nat
    BY InvocationAssumption DEF TypeOK
  <2> QED
    BY <1>1, <1>2, <1>7, <2>1, <2>2 DEF LedgerOK, Sound
<1>11. Advance
  <2> SUFFICES ASSUME NEW d \in Causes PROVE Follows(ledger[d], ledger'[d])
    BY DEF Advance
  <2>1. CASE d = c
    BY <1>1, <2>1 DEF Sound
  <2>2. CASE d # c
    BY <1>1, <2>2 DEF Follows, MayBecome
  <2> QED
    BY <2>1, <2>2
<1> QED
  BY <1>3, <1>4, <1>5, <1>6, <1>8, <1>9, <1>10, <1>11

-----------------------------------------------------------------------------
(* The steps that publish one index.                                       *)
LEMMA ReserveUnitsKeeps ==
  ASSUME Inductive, NEW c \in Causes, NEW rev \in Revisions, NEW n \in 1 .. Budget,
         NEW w \in Work, ReserveUnits(c, rev, n, w)
  PROVE  Inductive' /\ Advance
<1>1. Live(c) /\ lifecycle[c].state # "CLOSED" /\ Publish(c, Reserve(ledger[c], n, w))
  BY DEF ReserveUnits, Current
<1>2. LedgerOK(ledger[c], Budget) /\ Owns(ledger[c])
  BY <1>1 DEF Inductive, Live, IndexedOnce, TypeOK, ReservationsOwnTheirUnits
<1>3. Sound(ledger[c], Take(ledger[c], n, w, "RESERVED"), Budget)
  BY <1>2, TakeSound, InvocationAssumption
<1> QED
  BY <1>1, <1>3, PublishKeeps DEF Reserve

LEMMA DelegateForecastKeeps ==
  ASSUME Inductive, NEW c \in Causes, NEW rev \in Revisions, NEW h \in 1 .. MaxHorizon,
         DelegateForecast(c, rev, h)
  PROVE  Inductive' /\ Advance
<1> DEFINE w == "ForecastEscrowReservation"
<1>1. Live(c) /\ lifecycle[c].state # "CLOSED" /\ Publish(c, Delegate(ledger[c], h, w))
  BY DEF DelegateForecast, Current
<1>2. LedgerOK(ledger[c], Budget) /\ Owns(ledger[c])
  BY <1>1 DEF Inductive, Live, IndexedOnce, TypeOK, ReservationsOwnTheirUnits
<1>3. Sound(ledger[c], Take(ledger[c], 2 * h, w, "DELEGATED_FORECAST_POOL"), Budget)
  <2>1. h \in Nat /\ Budget \in Nat
    BY InvocationAssumption
  <2>2. 2 * h \in Nat
    BY <2>1
  <2> QED
    BY <1>2, <2>1, <2>2, TakeSound, InvocationAssumption
<1> QED
  BY <1>1, <1>3, PublishKeeps DEF Delegate

(* A charge, whoever makes it, spends a unit that is RESERVED.             *)
LEMMA ChargeKeeps ==
  ASSUME Inductive, NEW c \in Causes, NEW rev \in Revisions, Current(c, rev, TRUE),
         NEW q, NEW i, NEW w, CanConsume(ledger[c], q, i, w),
         Publish(c, Consume(ledger[c], i))
  PROVE  Inductive' /\ Advance
<1>1. Live(c) /\ lifecycle[c].state # "CLOSED"
  BY DEF Current
<1>2. LedgerOK(ledger[c], Budget) /\ Owns(ledger[c]) /\ Budget \in Nat
  BY <1>1, InvocationAssumption DEF Inductive, Live, IndexedOnce, TypeOK, ReservationsOwnTheirUnits
<1>3. i \in DOMAIN ledger[c].units /\ ledger[c].units[i].state = "RESERVED"
  BY <1>2 DEF CanConsume, LedgerOK
<1> QED
  BY <1>1, <1>2, <1>3, ConsumeSound, PublishKeeps

LEMMA RetireReservationKeeps ==
  ASSUME Inductive, NEW c \in Causes, NEW rev \in Revisions, NEW q,
         RetireReservation(c, rev, q)
  PROVE  Inductive' /\ Advance
<1>1. Live(c) /\ lifecycle[c].state # "CLOSED" /\ Publish(c, RetireReserved(ledger[c], {q}))
  BY DEF RetireReservation, Current
<1>2. LedgerOK(ledger[c], Budget) /\ Owns(ledger[c]) /\ Budget \in Nat
  BY <1>1, InvocationAssumption DEF Inductive, Live, IndexedOnce, TypeOK, ReservationsOwnTheirUnits
<1> QED
  BY <1>1, <1>2, RetireReservedSound, PublishKeeps

LEMMA RetireUnusedUnitsKeeps ==
  ASSUME Inductive, NEW c \in Causes, NEW rev \in Revisions, RetireUnusedUnits(c, rev)
  PROVE  Inductive' /\ Advance
<1>1. Live(c) /\ lifecycle[c].state # "CLOSED" /\ Publish(c, RetireUnused(ledger[c], rev))
  BY DEF RetireUnusedUnits, Current
<1>2. LedgerOK(ledger[c], Budget) /\ Owns(ledger[c]) /\ Budget \in Nat /\ rev \in Nat
  BY <1>1, InvocationAssumption
     DEF Inductive, Live, IndexedOnce, TypeOK, ReservationsOwnTheirUnits, Revisions
<1> QED
  BY <1>1, <1>2, RetireUnusedSound, PublishKeeps

-----------------------------------------------------------------------------
(* Every ledger a step leaves alone advances trivially.                    *)
LEMMA SameLedger ==
  ASSUME UNCHANGED ledger
  PROVE  Advance
  BY DEF Advance, Follows, MayBecome

LEMMA CreateRuntimeKeeps ==
  ASSUME Inductive, NEW r \in Runtimes, CreateRuntime(r)
  PROVE  Inductive' /\ Advance
<1> USE DEF Inductive, CreateRuntime
<1>1. \A c \in Causes : RuntimeOf[c] \in Runtimes
  BY InvocationAssumption
<1>2. TypeOK'
  BY DEF TypeOK, Admitted
<1>3. ReservationsOwnTheirUnits' /\ RevisionTellsState' /\ EscrowIsIssued'
  BY DEF ReservationsOwnTheirUnits, RevisionTellsState, EscrowIsIssued
<1>4. ChildrenAreCounted'
  BY DEF ChildrenAreCounted
<1>5. ClosedIsDrained'
  BY <1>1 DEF ClosedIsDrained, TypeOK
<1>6. EscrowEndsWithStudy'
  BY DEF EscrowEndsWithStudy
<1>7. IndexedOnce'
  BY <1>1 DEF IndexedOnce, Admitted, TypeOK
<1> QED
  BY <1>2, <1>3, <1>4, <1>5, <1>6, <1>7, SameLedger

LEMMA AdmitKeeps ==
  ASSUME Inductive, NEW c \in Causes, Admit(c)
  PROVE  Inductive' /\ Advance
<1> USE DEF Inductive
<1>1. ~Admitted(c) /\ Budget \in Nat
  BY InvocationAssumption DEF Admit, IndexedOnce
<1>2. /\ lifecycle'[c] = [state |-> "ACTIVE", revision |-> 0]
      /\ ledger'[c] = NewIndex(Budget) /\ DOMAIN ledger' = Causes
      /\ children'[c] = 0 /\ epoch'[c] = FALSE
      /\ study'[c] = [s \in Studies |-> NoStudy]
      /\ causes' = causes \cup {c} /\ runtime' = runtime
      /\ \A d \in Causes \ {c} :
           /\ lifecycle'[d] = lifecycle[d] /\ ledger'[d] = ledger[d]
           /\ children'[d] = children[d] /\ epoch'[d] = epoch[d] /\ study'[d] = study[d]
  BY DEF Admit, TypeOK
<1>3. LedgerOK(NewIndex(Budget), Budget) /\ Owns(NewIndex(Budget))
  BY <1>1, NewIndexSound
<1>4. TypeOK'
  <2>1. \A d \in Causes : LedgerOK(ledger'[d], IF lifecycle'[d].state # "NONE" THEN Budget ELSE 0)
    <3> TAKE d \in Causes
    <3>1. CASE d = c
      BY <1>2, <1>3, <3>1
    <3>2. CASE d # c
      BY <1>2, <3>2 DEF TypeOK, Admitted
    <3> QED
      BY <3>1, <3>2
  <2>2. /\ lifecycle' \in [Causes -> [state : {"NONE", "ACTIVE", "CLOSING", "CLOSED"}, revision : 0 .. 2]]
        /\ children' \in [Causes -> Nat] /\ epoch' \in [Causes -> BOOLEAN]
        /\ epochs' \in [Causes -> 0 .. MaxEpochs]
    BY InvocationAssumption DEF TypeOK, Admit
  <2>3. study' \in [Causes -> [Studies -> [state : {"NONE", "OPEN", "ENDED"}, base : Nat]]]
    BY DEF TypeOK, Admit, NoStudy
  <2> QED
    BY <1>2, <2>1, <2>2, <2>3 DEF TypeOK, Admitted
<1>5. ReservationsOwnTheirUnits'
  BY <1>2, <1>3 DEF ReservationsOwnTheirUnits
<1>6. ChildrenAreCounted'
  <2>1. OpenIn(study'[c]) = {}
    BY <1>2 DEF NoStudy, OpenIn
  <2>2. Cardinality({}) = 0
    BY FS_EmptySet
  <2> QED
    BY <1>2, <2>1, <2>2 DEF ChildrenAreCounted
<1>7. ClosedIsDrained'
  BY <1>2 DEF ClosedIsDrained, Admit
<1>8. EscrowEndsWithStudy'
  <2>1. \A s \in Studies : study'[c][s].state = "NONE"
    BY <1>2 DEF NoStudy
  <2>2. ASSUME NEW d \in Causes \ {c}, NEW s \in Studies
        PROVE  /\ study'[d][s].state = "ENDED" => ReservedIn(ledger'[d], Escrow(study'[d][s], s)) = {}
               /\ study'[d][s].state = "OPEN" => lifecycle'[d].state = "ACTIVE"
    <3>1. ledger'[d] = ledger[d] /\ study'[d] = study[d] /\ lifecycle'[d] = lifecycle[d]
      BY <1>2
    <3> QED
      BY <3>1 DEF EscrowEndsWithStudy
  <2> QED
    BY <2>1, <2>2 DEF EscrowEndsWithStudy
<1>9. RevisionTellsState'
  BY <1>2 DEF RevisionTellsState
<1>10. IndexedOnce'
  BY <1>2 DEF IndexedOnce, Admitted, Admit
<1>11. EscrowIsIssued'
  BY <1>2 DEF EscrowIsIssued, NoStudy
<1>12. Advance
  BY <1>1, <1>2 DEF Advance, Follows, MayBecome
<1> QED
  BY <1>4, <1>5, <1>6, <1>7, <1>8, <1>9, <1>10, <1>11, <1>12

-----------------------------------------------------------------------------
(* Children.  The count of open studies changes with the set.              *)
LEMMA StudiesFinite ==
  ASSUME NEW studies
  PROVE  IsFiniteSet(OpenIn(studies)) /\ Cardinality(OpenIn(studies)) \in Nat
<1>1. OpenIn(studies) \subseteq Studies
  BY DEF OpenIn
<1> QED
  BY <1>1, FS_Subset, FS_CardinalityType, InvocationAssumption

LEMMA OpenEpochKeeps ==
  ASSUME Inductive, NEW c \in Causes, NEW rev \in Revisions, OpenEpoch(c, rev)
  PROVE  Inductive' /\ Advance
<1> USE DEF Inductive, OpenEpoch, Current
<1>1. /\ epoch'[c] = TRUE /\ children'[c] = children[c] + 1 /\ epoch[c] = FALSE
      /\ \A d \in Causes \ {c} : epoch'[d] = epoch[d] /\ children'[d] = children[d]
      /\ UNCHANGED <<runtime, causes, lifecycle, ledger, study>>
  BY DEF TypeOK
<1>2. TypeOK'
  <2>1. epochs[c] + 1 \in 0 .. MaxEpochs
    BY InvocationAssumption DEF TypeOK
  <2> QED
    BY <2>1 DEF TypeOK, Admitted
<1>3. ChildrenAreCounted'
  <2>1. \A d \in Causes : Cardinality(OpenIn(study[d])) \in Nat
    BY StudiesFinite
  <2> QED
    BY <1>1, <2>1 DEF ChildrenAreCounted
<1>4. ReservationsOwnTheirUnits' /\ RevisionTellsState' /\ EscrowIsIssued' /\ IndexedOnce'
  BY <1>1 DEF ReservationsOwnTheirUnits, RevisionTellsState, EscrowIsIssued, IndexedOnce, Admitted
<1>5. ClosedIsDrained'
  BY <1>1 DEF ClosedIsDrained
<1>6. EscrowEndsWithStudy'
  BY <1>1 DEF EscrowEndsWithStudy
<1> QED
  BY <1>1, <1>2, <1>3, <1>4, <1>5, <1>6, SameLedger

LEMMA FinishEpochKeeps ==
  ASSUME Inductive, NEW c \in Causes, FinishEpoch(c)
  PROVE  Inductive' /\ Advance
<1> USE DEF Inductive, FinishEpoch
<1>1. /\ epoch'[c] = FALSE /\ children'[c] = children[c] - 1
      /\ \A d \in Causes \ {c} : epoch'[d] = epoch[d] /\ children'[d] = children[d]
      /\ UNCHANGED <<runtime, causes, lifecycle, ledger, epochs, study>>
  BY DEF TypeOK
<1>2. \A d \in Causes : Cardinality(OpenIn(study[d])) \in Nat
  BY StudiesFinite
<1>3. children[c] = 1 + Cardinality(OpenIn(study[c])) /\ lifecycle[c].state = "ACTIVE"
  BY <1>2 DEF ChildrenAreCounted
<1>4. TypeOK'
  BY <1>1, <1>2, <1>3 DEF TypeOK, Admitted
<1>5. ChildrenAreCounted'
  BY <1>1, <1>2, <1>3 DEF ChildrenAreCounted
<1>6. ReservationsOwnTheirUnits' /\ RevisionTellsState' /\ EscrowIsIssued' /\ IndexedOnce'
  BY <1>1 DEF ReservationsOwnTheirUnits, RevisionTellsState, EscrowIsIssued, IndexedOnce, Admitted
<1>7. ClosedIsDrained'
  BY <1>1, <1>3 DEF ClosedIsDrained
<1>8. EscrowEndsWithStudy'
  BY <1>1 DEF EscrowEndsWithStudy
<1> QED
  BY <1>1, <1>4, <1>5, <1>6, <1>7, <1>8, SameLedger

(* open_study takes one charge and the whole frontier from one index.      *)
LEMMA OpenStudyLedger ==
  ASSUME Inductive, NEW c \in Causes, NEW s \in Studies, Live(c)
  PROVE  LET L == ledger[c]
             M == ReserveEach(Opened(L), Frontier[s])
         IN /\ LedgerOK(M, Budget) /\ Owns(M) /\ Follows(L, M)
            /\ L.sequence \in Nat
            /\ M.sequence = L.sequence + 1 + Len(Frontier[s])
<1> DEFINE L == ledger[c]
           K == Opened(L)
           M == ReserveEach(K, Frontier[s])
<1>1. LedgerOK(L, Budget) /\ Owns(L) /\ Budget \in Nat /\ Frontier[s] \in Seq(WorkClasses)
  BY InvocationAssumption DEF Inductive, Live, IndexedOnce, TypeOK, ReservationsOwnTheirUnits
<1>2. L.sequence \in Nat /\ K.sequence = L.sequence + 1 /\ M.sequence = K.sequence + Len(Frontier[s])
  BY <1>1 DEF Opened, Take, ReserveEach, LedgerOK
<1> HIDE DEF L
<1>3. Sound(L, K, Budget)
  <2>1. Sound(L, Take(L, 1, "OPEN_STUDY", "CONSUMED"), Budget)
    BY <1>1, TakeSound, InvocationAssumption
  <2> QED
    BY <2>1 DEF Opened
<1> HIDE DEF K
<1>4. Sound(K, M, Budget)
  BY <1>1, <1>3, ReserveEachSound DEF Sound
<1> HIDE DEF M
<1>5. Follows(L, M)
  <2>1. Follows(L, K) /\ Follows(K, M)
    BY <1>3, <1>4 DEF Sound
  <2>2. DOMAIN M.units = DOMAIN L.units
    BY <2>1 DEF Follows
  <2>3. \A i \in DOMAIN L.units : MayBecome(L.units[i], M.units[i])
    BY <2>1 DEF Follows, MayBecome
  <2>4. \A q \in DOMAIN L.records : q \in DOMAIN M.records /\ M.records[q] = L.records[q]
    BY <2>1 DEF Follows
  <2> QED
    BY <2>2, <2>3, <2>4 DEF Follows
<1> QED
  BY <1>2, <1>4, <1>5 DEF Sound, K, L, M

(* An ended study's escrow stays empty in every later index.               *)
LEMMA EscrowStaysEmpty ==
  ASSUME Inductive, NEW c \in Causes, NEW s \in Studies, study[c][s].state = "ENDED",
         NEW n \in Nat, LedgerOK(ledger[c], n), NEW M, LedgerOK(M, n), Follows(ledger[c], M)
  PROVE  ReservedIn(M, Escrow(study[c][s], s)) = {}
<1>1. Escrow(study[c][s], s) \subseteq DOMAIN ledger[c].records
  BY EscrowRecorded
<1>2. ReservedIn(ledger[c], Escrow(study[c][s], s)) = {} /\ Owns(ledger[c])
  BY DEF Inductive, EscrowEndsWithStudy, ReservationsOwnTheirUnits
<1> QED
  BY <1>1, <1>2, NothingReturns

LEMMA OpenStudyKeeps ==
  ASSUME Inductive, NEW c \in Causes, NEW rev \in Revisions, NEW s \in Studies,
         OpenStudy(c, rev, s)
  PROVE  Inductive' /\ Advance
<1> DEFINE M == ReserveEach(Opened(ledger[c]), Frontier[s])
           new == [state |-> "OPEN", base |-> ledger[c].sequence + 1]
<1> USE DEF Inductive
<1>1. /\ Live(c) /\ lifecycle[c].state = "ACTIVE" /\ study[c][s].state = "NONE"
      /\ ledger'[c] = M /\ DOMAIN ledger' = Causes
      /\ study'[c] = [study[c] EXCEPT ![s] = new]
      /\ children'[c] = children[c] + 1
      /\ \A d \in Causes \ {c} :
           ledger'[d] = ledger[d] /\ study'[d] = study[d] /\ children'[d] = children[d]
      /\ UNCHANGED <<runtime, causes, lifecycle, epoch, epochs>>
  BY DEF OpenStudy, Current, TypeOK
<1>2. /\ LedgerOK(M, Budget) /\ Owns(M) /\ Follows(ledger[c], M)
      /\ ledger[c].sequence \in Nat /\ M.sequence = ledger[c].sequence + 1 + Len(Frontier[s])
  BY <1>1, OpenStudyLedger
<1>3. Admitted(c) /\ LedgerOK(ledger[c], Budget) /\ Budget \in Nat
  BY <1>1, InvocationAssumption DEF Live, IndexedOnce, TypeOK
<1> HIDE DEF M
<1>4. TypeOK'
  <2>1. \A d \in Causes : LedgerOK(ledger'[d], IF lifecycle'[d].state # "NONE" THEN Budget ELSE 0)
    BY <1>1, <1>2, <1>3 DEF TypeOK, Admitted
  <2>2. study' \in [Causes -> [Studies -> [state : {"NONE", "OPEN", "ENDED"}, base : Nat]]]
    BY <1>2 DEF TypeOK, OpenStudy
  <2>3. children' \in [Causes -> Nat]
    BY DEF TypeOK, OpenStudy
  <2> QED
    BY <1>1, <2>1, <2>2, <2>3 DEF TypeOK, Admitted
<1>5. ReservationsOwnTheirUnits'
  BY <1>1, <1>2 DEF ReservationsOwnTheirUnits
<1>6. ChildrenAreCounted'
  <2>1. OpenIn(study'[c]) = OpenIn(study[c]) \cup {s} /\ s \notin OpenIn(study[c])
    BY <1>1 DEF OpenIn, TypeOK
  <2>2. Cardinality(OpenIn(study'[c])) = Cardinality(OpenIn(study[c])) + 1
    BY <2>1, StudiesFinite, FS_AddElement
  <2>3. Cardinality(OpenIn(study[c])) \in Nat
    BY StudiesFinite
  <2> QED
    BY <1>1, <2>2, <2>3 DEF ChildrenAreCounted
<1>7. ClosedIsDrained'
  BY <1>1 DEF ClosedIsDrained
<1>8. EscrowEndsWithStudy'
  <2> SUFFICES ASSUME NEW d \in Causes, NEW t \in Studies
               PROVE  /\ study'[d][t].state = "ENDED" => ReservedIn(ledger'[d], Escrow(study'[d][t], t)) = {}
                      /\ study'[d][t].state = "OPEN" => lifecycle'[d].state = "ACTIVE"
    BY DEF EscrowEndsWithStudy
  <2>1. CASE d # c
    <3>1. ledger'[d] = ledger[d] /\ study'[d] = study[d] /\ lifecycle'[d] = lifecycle[d]
      BY <1>1, <2>1
    <3> QED
      BY <3>1 DEF EscrowEndsWithStudy
  <2>2. CASE d = c /\ t = s
    <3>1. study'[c][s] = new
      BY <1>1 DEF TypeOK
    <3> QED
      BY <1>1, <2>2, <3>1
  <2>3. CASE d = c /\ t # s
    <3>1. study'[c][t] = study[c][t]
      BY <1>1, <2>3 DEF TypeOK
    <3>2. study[c][t].state = "ENDED" => ReservedIn(M, Escrow(study[c][t], t)) = {}
      BY <1>2, <1>3, EscrowStaysEmpty
    <3> QED
      BY <1>1, <2>3, <3>1, <3>2
  <2> QED
    BY <2>1, <2>2, <2>3
<1>9. RevisionTellsState' /\ IndexedOnce'
  BY <1>1 DEF RevisionTellsState, IndexedOnce, Admitted
<1>10. EscrowIsIssued'
  <2> SUFFICES ASSUME NEW d \in Causes, NEW t \in Studies, study'[d][t].state # "NONE"
               PROVE  study'[d][t].base + Len(Frontier[t]) <= ledger'[d].sequence
    BY DEF EscrowIsIssued
  <2>0. Len(Frontier[t]) \in Nat /\ Len(Frontier[s]) \in Nat /\ study[d][t].base \in Nat
    BY InvocationAssumption DEF TypeOK
  <2>1. CASE d # c
    BY <1>1, <2>1 DEF EscrowIsIssued
  <2>2. CASE d = c /\ t = s
    <3>1. study'[c][s] = new
      BY <1>1 DEF TypeOK
    <3> QED
      BY <1>1, <1>2, <2>0, <2>2, <3>1
  <2>3. CASE d = c /\ t # s
    <3>1. study'[c][t] = study[c][t]
      BY <1>1, <2>3 DEF TypeOK
    <3>2. study[c][t].state # "NONE"
      BY <2>3, <3>1
    <3>3. study[c][t].base + Len(Frontier[t]) <= ledger[c].sequence
      BY <3>2 DEF EscrowIsIssued
    <3>4. M.sequence \in Nat /\ ledger[c].sequence <= M.sequence
      BY <1>2, <2>0
    <3>5. study'[d][t].base = study[c][t].base /\ ledger'[d] = M
      BY <1>1, <2>3, <3>1
    <3>6. study[c][t].base \in Nat /\ ledger[c].sequence \in Nat
      BY <1>2, <2>0, <2>3
    <3> QED
      BY <2>0, <3>3, <3>4, <3>5, <3>6
  <2> QED
    BY <2>1, <2>2, <2>3
<1>11. Advance
  <2>1. \A d \in Causes \ {c} : Follows(ledger[d], ledger[d])
    BY DEF Follows, MayBecome
  <2> QED
    BY <1>1, <1>2, <2>1 DEF Advance
<1> QED
  BY <1>4, <1>5, <1>6, <1>7, <1>8, <1>9, <1>10, <1>11

-----------------------------------------------------------------------------
(* What a close or an end of studies may leave of one cause: a later index *)
(* of the same ledger in which no ended study holds anything RESERVED.     *)
Reduced(c, M, studies) ==
  /\ LedgerOK(M, Budget) /\ Owns(M) /\ Follows(ledger[c], M)
  /\ studies \in [Studies -> [state : {"NONE", "OPEN", "ENDED"}, base : Nat]]
  /\ \A s \in Studies :
       /\ studies[s].state = "ENDED" => ReservedIn(M, Escrow(studies[s], s)) = {}
       /\ studies[s].state # "NONE" => studies[s].base + Len(Frontier[s]) <= M.sequence

(* reduce: the studies end and their escrow retires in the same index.     *)
LEMMA WithoutEscrowReduced ==
  ASSUME Inductive, NEW c \in Causes, Admitted(c), NEW ss, ss \subseteq OpenIn(study[c])
  PROVE  Reduced(c, WithoutEscrow(c, ss), Ended(c, ss))
<1> DEFINE qs == UNION {Escrow(study[c][s], s) : s \in ss}
           M == RetireReserved(ledger[c], qs)
           T == Ended(c, ss)
<1> USE DEF Inductive
<1>1. LedgerOK(ledger[c], Budget) /\ Owns(ledger[c]) /\ Budget \in Nat
  BY InvocationAssumption DEF TypeOK, ReservationsOwnTheirUnits
<1>2. Sound(ledger[c], M, Budget) /\ ReservedIn(M, qs) = {} /\ M.sequence = ledger[c].sequence
  BY <1>1, RetireReservedSound DEF RetireReserved, WithUnits
<1> HIDE DEF M
<1>3. T \in [Studies -> [state : {"NONE", "OPEN", "ENDED"}, base : Nat]]
  BY DEF Ended, TypeOK, OpenIn
<1>4. ASSUME NEW s \in Studies, T[s].state = "ENDED"
      PROVE  ReservedIn(M, Escrow(T[s], s)) = {}
  <2>1. CASE s \in ss
    <3>1. Escrow(T[s], s) = Escrow(study[c][s], s)
      BY <2>1 DEF Ended, Escrow
    <3>2. Escrow(study[c][s], s) \subseteq qs
      BY <2>1
    <3> QED
      BY <1>2, <3>1, <3>2, ReservedInFewer
  <2>2. CASE s \notin ss
    <3>1. T[s] = study[c][s]
      BY <2>2 DEF Ended
    <3> QED
      BY <1>1, <1>2, <1>4, <3>1, EscrowStaysEmpty DEF Sound
  <2> QED
    BY <2>1, <2>2
<1>5. ASSUME NEW s \in Studies, T[s].state # "NONE"
      PROVE  T[s].base + Len(Frontier[s]) <= M.sequence
  <2>1. T[s].base = study[c][s].base /\ study[c][s].state # "NONE"
    BY <1>5 DEF Ended, OpenIn
  <2> QED
    BY <1>2, <2>1 DEF EscrowIsIssued
<1>6. M = WithoutEscrow(c, ss)
  BY DEF WithoutEscrow, M
<1> QED
  BY <1>2, <1>3, <1>4, <1>5, <1>6 DEF Reduced, Sound

(* The finalizer retires the rest on top of it.                            *)
LEMMA RetireUnusedReduced ==
  ASSUME Inductive, NEW c \in Causes, NEW L, NEW studies, Reduced(c, L, studies), NEW rev \in Nat
  PROVE  Reduced(c, RetireUnused(L, rev), studies) /\ Drained(RetireUnused(L, rev))
<1> DEFINE M == RetireUnused(L, rev)
<1>1. Budget \in Nat /\ LedgerOK(L, Budget) /\ Owns(L)
  BY InvocationAssumption DEF Reduced
<1>2. Sound(L, M, Budget) /\ Drained(M) /\ M.sequence = L.sequence
  BY <1>1, RetireUnusedSound DEF RetireUnused, WithUnits
<1> HIDE DEF M
<1>3. LedgerOK(M, Budget) /\ Owns(M)
  BY <1>2 DEF Sound
<1>4. Follows(ledger[c], M)
  <2>1. Follows(ledger[c], L) /\ Follows(L, M)
    BY <1>2 DEF Reduced, Sound
  <2>2. DOMAIN M.units = DOMAIN ledger[c].units
    BY <2>1 DEF Follows
  <2>3. \A i \in DOMAIN ledger[c].units : MayBecome(ledger[c].units[i], M.units[i])
    BY <2>1 DEF Follows, MayBecome
  <2>4. \A q \in DOMAIN ledger[c].records : q \in DOMAIN M.records /\ M.records[q] = ledger[c].records[q]
    BY <2>1 DEF Follows
  <2> QED
    BY <2>2, <2>3, <2>4 DEF Follows
<1>5. \A s \in Studies : ReservedIn(M, Escrow(studies[s], s)) = {}
  <2>1. \A i \in DOMAIN M.units : M.units[i].state # "RESERVED"
    BY <1>2 DEF Drained, Terminal
  <2> QED
    BY <2>1 DEF ReservedIn, InState
<1>6. Reduced(c, M, studies)
  BY <1>2, <1>3, <1>4, <1>5 DEF Reduced
<1> QED
  BY <1>2, <1>6 DEF M

(* With every child closed nothing is left to count.                       *)
LEMMA NoChildrenLeft ==
  ASSUME Inductive, NEW c \in Causes
  PROVE  /\ ChildrenAfterClose(c) = 0
         /\ OpenIn(Ended(c, OpenIn(study[c]))) = {}
<1>1. Cardinality(OpenIn(study[c])) \in Nat
  BY StudiesFinite
<1>2. ChildrenAfterClose(c) = 0
  BY <1>1 DEF ChildrenAfterClose, Inductive, ChildrenAreCounted
<1>3. OpenIn(Ended(c, OpenIn(study[c]))) = {}
  BY DEF OpenIn, Ended
<1> QED
  BY <1>2, <1>3

-----------------------------------------------------------------------------
LEMMA EndStudyKeeps ==
  ASSUME Inductive, NEW c \in Causes, NEW rev \in Revisions, NEW s \in Studies,
         EndStudy(c, rev, s)
  PROVE  Inductive' /\ Advance
<1> DEFINE M == WithoutEscrow(c, {s})
           T == Ended(c, {s})
<1> USE DEF Inductive
<1>1. /\ Admitted(c) /\ lifecycle[c].state = "ACTIVE" /\ s \in OpenIn(study[c])
      /\ ledger'[c] = M /\ DOMAIN ledger' = Causes /\ study'[c] = T
      /\ children'[c] = children[c] - 1
      /\ \A d \in Causes \ {c} :
           ledger'[d] = ledger[d] /\ study'[d] = study[d] /\ children'[d] = children[d]
      /\ UNCHANGED <<runtime, causes, lifecycle, epoch, epochs>>
  BY DEF EndStudy, Current, Live, IndexedOnce, TypeOK, OpenIn
<1>2. Reduced(c, M, T)
  BY <1>1, WithoutEscrowReduced
<1>3. OpenIn(T) = OpenIn(study[c]) \ {s}
  BY DEF OpenIn, Ended
<1> HIDE DEF M, T
<1>4. /\ Cardinality(OpenIn(T)) = Cardinality(OpenIn(study[c])) - 1
      /\ Cardinality(OpenIn(study[c])) \in Nat /\ Cardinality(OpenIn(T)) \in Nat
  BY <1>1, <1>3, StudiesFinite, FS_RemoveElement
<1>5. TypeOK'
  <2>1. \A d \in Causes : LedgerOK(ledger'[d], IF lifecycle'[d].state # "NONE" THEN Budget ELSE 0)
    BY <1>1, <1>2 DEF TypeOK, Admitted, Reduced
  <2>2. study' \in [Causes -> [Studies -> [state : {"NONE", "OPEN", "ENDED"}, base : Nat]]]
    BY <1>1, <1>2 DEF TypeOK, EndStudy, Reduced
  <2>3. children' \in [Causes -> Nat]
    <3>1. children[c] - 1 \in Nat
      BY <1>4 DEF ChildrenAreCounted
    <3> QED
      BY <3>1 DEF TypeOK, EndStudy
  <2> QED
    BY <1>1, <2>1, <2>2, <2>3 DEF TypeOK, Admitted
<1>6. ReservationsOwnTheirUnits'
  BY <1>1, <1>2 DEF ReservationsOwnTheirUnits, Reduced
<1>7. ChildrenAreCounted'
  BY <1>1, <1>4 DEF ChildrenAreCounted
<1>8. ClosedIsDrained'
  BY <1>1 DEF ClosedIsDrained
<1>9. EscrowEndsWithStudy'
  <2> SUFFICES ASSUME NEW d \in Causes, NEW t \in Studies
               PROVE  /\ study'[d][t].state = "ENDED" => ReservedIn(ledger'[d], Escrow(study'[d][t], t)) = {}
                      /\ study'[d][t].state = "OPEN" => lifecycle'[d].state = "ACTIVE"
    BY DEF EscrowEndsWithStudy
  <2>1. CASE d = c
    BY <1>1, <1>2, <2>1 DEF Reduced
  <2>2. CASE d # c
    <3>1. ledger'[d] = ledger[d] /\ study'[d] = study[d] /\ lifecycle'[d] = lifecycle[d]
      BY <1>1, <2>2
    <3> QED
      BY <3>1 DEF EscrowEndsWithStudy
  <2> QED
    BY <2>1, <2>2
<1>10. RevisionTellsState' /\ IndexedOnce'
  BY <1>1 DEF RevisionTellsState, IndexedOnce, Admitted
<1>11. EscrowIsIssued'
  BY <1>1, <1>2 DEF EscrowIsIssued, Reduced
<1>12. Advance
  <2>1. \A d \in Causes \ {c} : Follows(ledger[d], ledger[d])
    BY DEF Follows, MayBecome
  <2> QED
    BY <1>1, <1>2, <2>1 DEF Advance, Reduced
<1> QED
  BY <1>5, <1>6, <1>7, <1>8, <1>9, <1>10, <1>11, <1>12

LEMMA BeginCloseKeeps ==
  ASSUME Inductive, NEW c \in Causes, NEW rev \in Revisions, BeginClose(c, rev)
  PROVE  Inductive' /\ Advance
<1> DEFINE M == WithoutEscrow(c, OpenIn(study[c]))
           T == Ended(c, OpenIn(study[c]))
<1> USE DEF Inductive
<1>1. /\ Admitted(c) /\ lifecycle[c].state = "ACTIVE"
      /\ runtime[RuntimeOf[c]] = "live" /\ rev = 0
      /\ lifecycle'[c] = [state |-> "CLOSING", revision |-> rev + 1]
      /\ ledger'[c] = M /\ DOMAIN ledger' = Causes /\ study'[c] = T
      /\ children'[c] = ChildrenAfterClose(c) /\ epoch'[c] = FALSE
      /\ \A d \in Causes \ {c} :
           /\ ledger'[d] = ledger[d] /\ study'[d] = study[d] /\ children'[d] = children[d]
           /\ lifecycle'[d] = lifecycle[d] /\ epoch'[d] = epoch[d]
      /\ UNCHANGED <<runtime, causes, epochs>>
  BY DEF BeginClose, Current, Live, IndexedOnce, TypeOK, RevisionTellsState
<1>2. Reduced(c, M, T)
  BY <1>1, WithoutEscrowReduced
<1>3. ChildrenAfterClose(c) = 0 /\ OpenIn(T) = {}
  BY NoChildrenLeft
<1> HIDE DEF M, T
<1>4. \A s \in Studies : T[s].state # "OPEN"
  BY <1>3 DEF OpenIn
<1>5. TypeOK'
  <2>1. \A d \in Causes : LedgerOK(ledger'[d], IF lifecycle'[d].state # "NONE" THEN Budget ELSE 0)
    <3> TAKE d \in Causes
    <3>1. CASE d = c
      BY <1>1, <1>2, <3>1 DEF Reduced
    <3>2. CASE d # c
      BY <1>1, <3>2 DEF TypeOK, Admitted
    <3> QED
      BY <3>1, <3>2
  <2>2. study' \in [Causes -> [Studies -> [state : {"NONE", "OPEN", "ENDED"}, base : Nat]]]
    BY <1>1, <1>2 DEF TypeOK, BeginClose, Reduced
  <2>3. children' \in [Causes -> Nat] /\ epoch' \in [Causes -> BOOLEAN]
    BY <1>3 DEF TypeOK, BeginClose
  <2>4. lifecycle' \in [Causes -> [state : {"NONE", "ACTIVE", "CLOSING", "CLOSED"}, revision : 0 .. 2]]
    BY <1>1 DEF TypeOK, BeginClose
  <2> QED
    BY <1>1, <2>1, <2>2, <2>3, <2>4 DEF TypeOK, Admitted
<1>6. ReservationsOwnTheirUnits'
  BY <1>1, <1>2 DEF ReservationsOwnTheirUnits, Reduced
<1>7. ChildrenAreCounted'
  <2>1. Cardinality(OpenIn(study'[c])) = 0
    BY <1>1, <1>3, FS_EmptySet
  <2> QED
    BY <1>1, <1>3, <2>1 DEF ChildrenAreCounted
<1>8. ClosedIsDrained'
  BY <1>1 DEF ClosedIsDrained
<1>9. EscrowEndsWithStudy'
  <2> SUFFICES ASSUME NEW d \in Causes, NEW s \in Studies
               PROVE  /\ study'[d][s].state = "ENDED" => ReservedIn(ledger'[d], Escrow(study'[d][s], s)) = {}
                      /\ study'[d][s].state = "OPEN" => lifecycle'[d].state = "ACTIVE"
    BY DEF EscrowEndsWithStudy
  <2>1. CASE d = c
    BY <1>1, <1>2, <1>4, <2>1 DEF Reduced
  <2>2. CASE d # c
    <3>1. ledger'[d] = ledger[d] /\ study'[d] = study[d] /\ lifecycle'[d] = lifecycle[d]
      BY <1>1, <2>2
    <3> QED
      BY <3>1 DEF EscrowEndsWithStudy
  <2> QED
    BY <2>1, <2>2
<1>10. RevisionTellsState'
  BY <1>1 DEF RevisionTellsState
<1>11. IndexedOnce'
  BY <1>1 DEF IndexedOnce, Admitted
<1>12. EscrowIsIssued'
  BY <1>1, <1>2 DEF EscrowIsIssued, Reduced
<1>13. Advance
  <2>1. \A d \in Causes \ {c} : Follows(ledger[d], ledger[d])
    BY DEF Follows, MayBecome
  <2> QED
    BY <1>1, <1>2, <2>1 DEF Advance, Reduced
<1> QED
  BY <1>5, <1>6, <1>7, <1>8, <1>9, <1>10, <1>11, <1>12, <1>13

LEMMA FinalizeCloseKeeps ==
  ASSUME Inductive, NEW c \in Causes, NEW rev \in Revisions, FinalizeClose(c, rev)
  PROVE  Inductive' /\ Advance
<1> USE DEF Inductive
<1>1. /\ Admitted(c) /\ lifecycle[c].state = "CLOSING"
      /\ runtime[RuntimeOf[c]] = "live" /\ rev = 1 /\ children[c] = 0 /\ Drained(ledger[c])
      /\ lifecycle'[c] = [state |-> "CLOSED", revision |-> rev + 1]
      /\ \A d \in Causes \ {c} : lifecycle'[d] = lifecycle[d]
      /\ UNCHANGED <<runtime, causes, ledger, children, epoch, epochs, study>>
  BY DEF FinalizeClose, Current, Live, IndexedOnce, TypeOK, RevisionTellsState
<1>2. TypeOK'
  <2>1. lifecycle' \in [Causes -> [state : {"NONE", "ACTIVE", "CLOSING", "CLOSED"}, revision : 0 .. 2]]
    <3>1. lifecycle' = [lifecycle EXCEPT ![c] = [state |-> "CLOSED", revision |-> 2]]
      BY <1>1 DEF FinalizeClose
    <3> QED
      BY <3>1 DEF TypeOK
  <2>2. \A d \in Causes : lifecycle'[d].state # "NONE" <=> lifecycle[d].state # "NONE"
    BY <1>1
  <2> QED
    BY <1>1, <2>1, <2>2 DEF TypeOK, Admitted
<1>3. ReservationsOwnTheirUnits' /\ EscrowIsIssued'
  BY <1>1 DEF ReservationsOwnTheirUnits, EscrowIsIssued
<1>4. ChildrenAreCounted'
  BY <1>1 DEF ChildrenAreCounted
<1>5. ClosedIsDrained'
  BY <1>1 DEF ClosedIsDrained
<1>6. EscrowEndsWithStudy'
  BY <1>1 DEF EscrowEndsWithStudy
<1>7. RevisionTellsState'
  <2>1. lifecycle'[c] = [state |-> "CLOSED", revision |-> 2]
    BY <1>1
  <2> QED
    BY <1>1, <2>1 DEF RevisionTellsState
<1>8. IndexedOnce'
  BY <1>1 DEF IndexedOnce, Admitted
<1> QED
  BY <1>1, <1>2, <1>3, <1>4, <1>5, <1>6, <1>7, <1>8, SameLedger

(* The finalizer does to every unclosed invocation of its runtime what a   *)
(* begin_close, a retire_unused and a finalize_close would have done.      *)
LEMMA CollectKeeps ==
  ASSUME Inductive, NEW r \in Runtimes, CollectRuntime(r)
  PROVE  Inductive' /\ Advance
<1> DEFINE mine == {c \in Causes : RuntimeOf[c] = r}
           ending == {c \in mine : lifecycle[c].state \in {"ACTIVE", "CLOSING"}}
           closing(c) == IF lifecycle[c].state = "ACTIVE"
                         THEN lifecycle[c].revision + 1 ELSE lifecycle[c].revision
           M(c) == RetireUnused(WithoutEscrow(c, OpenIn(study[c])), closing(c))
           T(c) == Ended(c, OpenIn(study[c]))
<1> USE DEF Inductive
<1>1. /\ runtime[r] = "live" /\ runtime' = [runtime EXCEPT ![r] = "retired"]
      /\ causes' = causes \ mine
      /\ lifecycle' = [c \in Causes |->
            IF c \in ending THEN [state |-> "CLOSED", revision |-> closing(c) + 1] ELSE lifecycle[c]]
      /\ ledger' = [c \in Causes |-> IF c \in ending THEN M(c) ELSE ledger[c]]
      /\ children' = [c \in Causes |-> IF c \in ending THEN ChildrenAfterClose(c) ELSE children[c]]
      /\ epoch' = [c \in Causes |-> epoch[c] /\ c \notin ending]
      /\ study' = [c \in Causes |-> IF c \in ending THEN T(c) ELSE study[c]]
      /\ epochs' = epochs
  BY DEF CollectRuntime
<1>2. ASSUME NEW c \in ending
      PROVE  /\ c \in Causes /\ closing(c) = 1 /\ Admitted(c)
             /\ Reduced(c, M(c), T(c)) /\ Drained(M(c))
             /\ ChildrenAfterClose(c) = 0 /\ OpenIn(T(c)) = {}
  <2>1. closing(c) = 1 /\ Admitted(c)
    BY DEF RevisionTellsState, Admitted
  <2>2. Reduced(c, WithoutEscrow(c, OpenIn(study[c])), T(c))
    BY <2>1, WithoutEscrowReduced
  <2>3. Reduced(c, M(c), T(c)) /\ Drained(M(c))
    BY <2>1, <2>2, RetireUnusedReduced
  <2> QED
    BY <2>1, <2>3, NoChildrenLeft
<1>3. ASSUME NEW c \in Causes, c \notin ending
      PROVE  /\ lifecycle'[c] = lifecycle[c] /\ ledger'[c] = ledger[c]
             /\ children'[c] = children[c] /\ epoch'[c] = epoch[c] /\ study'[c] = study[c]
             /\ c \in mine => lifecycle[c].state \in {"NONE", "CLOSED"}
  BY <1>1, <1>3 DEF TypeOK
<1>4. ASSUME NEW c \in Causes, c \in ending
      PROVE  /\ Admitted(c)
             /\ lifecycle'[c].state = "CLOSED" /\ lifecycle'[c].revision = 2
             /\ children'[c] = 0 /\ epoch'[c] = FALSE
             /\ Reduced(c, ledger'[c], study'[c]) /\ Drained(ledger'[c])
             /\ OpenIn(study'[c]) = {}
  <2>1. closing(c) = 1 /\ ChildrenAfterClose(c) = 0
    BY <1>2, <1>4
  <2>2. lifecycle'[c] = [state |-> "CLOSED", revision |-> closing(c) + 1]
    BY <1>1, <1>4
  <2>3. ledger'[c] = M(c) /\ study'[c] = T(c) /\ children'[c] = ChildrenAfterClose(c)
    BY <1>1, <1>4
  <2>4. epoch'[c] = FALSE
    BY <1>1, <1>4
  <2>5. Reduced(c, ledger'[c], study'[c]) /\ Drained(ledger'[c]) /\ OpenIn(study'[c]) = {}
    BY <1>2, <1>4, <2>3
  <2>6. lifecycle'[c].state = "CLOSED" /\ lifecycle'[c].revision = 2
    BY <2>1, <2>2
  <2> QED
    BY <1>2, <1>4, <2>1, <2>3, <2>4, <2>5, <2>6
<1> HIDE DEF M, T, closing, ending
<1>5. ending \subseteq Causes /\ DOMAIN ledger' = Causes
  BY <1>1 DEF ending
<1>6. TypeOK'
  <2>1. \A c \in Causes : LedgerOK(ledger'[c], IF lifecycle'[c].state # "NONE" THEN Budget ELSE 0)
    <3> TAKE c \in Causes
    <3>1. CASE c \in ending
      <4>1. LedgerOK(ledger'[c], Budget) /\ lifecycle'[c].state = "CLOSED"
        BY <1>4, <3>1 DEF Reduced
      <4> QED
        BY <4>1
    <3>2. CASE c \notin ending
      BY <1>3, <3>2 DEF TypeOK, Admitted
    <3> QED
      BY <3>1, <3>2
  <2>2. study' \in [Causes -> [Studies -> [state : {"NONE", "OPEN", "ENDED"}, base : Nat]]]
    BY <1>1, <1>2 DEF TypeOK, Reduced
  <2>3. children' \in [Causes -> Nat] /\ epoch' \in [Causes -> BOOLEAN]
    BY <1>1, <1>2 DEF TypeOK
  <2>4. lifecycle' \in [Causes -> [state : {"NONE", "ACTIVE", "CLOSING", "CLOSED"}, revision : 0 .. 2]]
    BY <1>1, <1>2 DEF TypeOK
  <2>5. runtime' \in [Runtimes -> {"unused", "live", "retired"}] /\ causes' \subseteq Causes
    BY <1>1 DEF TypeOK
  <2> QED
    BY <1>1, <1>5, <2>1, <2>2, <2>3, <2>4, <2>5 DEF TypeOK, Admitted
<1>7. ReservationsOwnTheirUnits'
  BY <1>3, <1>4 DEF ReservationsOwnTheirUnits, Reduced
<1>8. ChildrenAreCounted'
  <2> SUFFICES ASSUME NEW c \in Causes
               PROVE  /\ children'[c] = (IF epoch'[c] THEN 1 ELSE 0) + Cardinality(OpenIn(study'[c]))
                      /\ lifecycle'[c].state # "ACTIVE" => children'[c] = 0
    BY DEF ChildrenAreCounted
  <2>1. CASE c \in ending
    <3>1. children'[c] = 0 /\ epoch'[c] = FALSE /\ OpenIn(study'[c]) = {}
      BY <1>4, <2>1
    <3> QED
      BY <3>1, FS_EmptySet
  <2>2. CASE c \notin ending
    BY <1>3, <2>2 DEF ChildrenAreCounted
  <2> QED
    BY <2>1, <2>2
<1>9. ClosedIsDrained'
  <2> SUFFICES ASSUME NEW c \in Causes
               PROVE  /\ lifecycle'[c].state = "CLOSED" => Drained(ledger'[c]) /\ children'[c] = 0
                      /\ runtime'[RuntimeOf[c]] = "retired" => lifecycle'[c].state \in {"NONE", "CLOSED"}
    BY DEF ClosedIsDrained
  <2>1. CASE c \in ending
    BY <1>4, <2>1
  <2>2. CASE c \notin ending
    <3>1. runtime'[RuntimeOf[c]] = "retired" => c \in mine \/ runtime[RuntimeOf[c]] = "retired"
      BY <1>1 DEF TypeOK
    <3> QED
      BY <1>3, <2>2, <3>1 DEF ClosedIsDrained
  <2> QED
    BY <2>1, <2>2
<1>10. EscrowEndsWithStudy'
  <2> SUFFICES ASSUME NEW d \in Causes, NEW t \in Studies
               PROVE  /\ study'[d][t].state = "ENDED" => ReservedIn(ledger'[d], Escrow(study'[d][t], t)) = {}
                      /\ study'[d][t].state = "OPEN" => lifecycle'[d].state = "ACTIVE"
    BY DEF EscrowEndsWithStudy
  <2>1. CASE d \in ending
    BY <1>4, <2>1 DEF Reduced, OpenIn
  <2>2. CASE d \notin ending
    <3>1. ledger'[d] = ledger[d] /\ study'[d] = study[d] /\ lifecycle'[d] = lifecycle[d]
      BY <1>3, <2>2
    <3> QED
      BY <3>1 DEF EscrowEndsWithStudy
  <2> QED
    BY <2>1, <2>2
<1>11. RevisionTellsState'
  <2> SUFFICES ASSUME NEW c \in Causes
               PROVE  /\ lifecycle'[c].state \in {"NONE", "ACTIVE"} => lifecycle'[c].revision = 0
                      /\ lifecycle'[c].state = "CLOSING" => lifecycle'[c].revision = 1
                      /\ lifecycle'[c].state = "CLOSED" => lifecycle'[c].revision = 2
    BY DEF RevisionTellsState
  <2>1. CASE c \in ending
    BY <1>4, <2>1
  <2>2. CASE c \notin ending
    <3>1. lifecycle'[c] = lifecycle[c]
      BY <1>3, <2>2
    <3> QED
      BY <3>1 DEF RevisionTellsState
  <2> QED
    BY <2>1, <2>2
<1>12. IndexedOnce'
  <2> SUFFICES ASSUME NEW c \in Causes
               PROVE  /\ c \in causes' <=> (runtime'[RuntimeOf[c]] = "live" /\ lifecycle'[c].state # "NONE")
                      /\ runtime'[RuntimeOf[c]] = "unused" => lifecycle'[c].state = "NONE"
    BY DEF IndexedOnce, Admitted
  <2>1. CASE RuntimeOf[c] = r
    BY <1>1, <2>1 DEF TypeOK
  <2>2. CASE RuntimeOf[c] # r
    <3>1. c \notin ending /\ c \notin mine
      BY <2>2 DEF ending
    <3>2. lifecycle'[c] = lifecycle[c] /\ runtime'[RuntimeOf[c]] = runtime[RuntimeOf[c]]
      BY <1>1, <1>3, <2>2, <3>1 DEF TypeOK
    <3> QED
      BY <1>1, <3>1, <3>2 DEF IndexedOnce, Admitted
  <2> QED
    BY <2>1, <2>2
<1>13. EscrowIsIssued'
  <2> SUFFICES ASSUME NEW d \in Causes, NEW t \in Studies, study'[d][t].state # "NONE"
               PROVE  study'[d][t].base + Len(Frontier[t]) <= ledger'[d].sequence
    BY DEF EscrowIsIssued
  <2>1. CASE d \in ending
    BY <1>4, <2>1 DEF Reduced
  <2>2. CASE d \notin ending
    BY <1>3, <2>2 DEF EscrowIsIssued
  <2> QED
    BY <2>1, <2>2
<1>14. Advance
  <2> SUFFICES ASSUME NEW d \in Causes PROVE Follows(ledger[d], ledger'[d])
    BY DEF Advance
  <2>1. CASE d \in ending
    BY <1>4, <2>1 DEF Reduced
  <2>2. CASE d \notin ending
    BY <1>3, <2>2 DEF Follows, MayBecome
  <2> QED
    BY <2>1, <2>2
<1> QED
  BY <1>6, <1>7, <1>8, <1>9, <1>10, <1>11, <1>12, <1>13, <1>14

-----------------------------------------------------------------------------
LEMMA InitInductive == Init => Inductive
<1> SUFFICES ASSUME Init PROVE Inductive
  OBVIOUS
<1> USE DEF Init
<1>1. LedgerOK(NewIndex(0), 0) /\ Owns(NewIndex(0))
  BY NewIndexSound
<1>2. \A c \in Causes : lifecycle[c] = NotAdmitted /\ ledger[c] = NewIndex(0)
                        /\ \A s \in Studies : study[c][s] = NoStudy
  OBVIOUS
<1>3. TypeOK
  BY <1>1, <1>2, InvocationAssumption DEF TypeOK, Admitted, NotAdmitted, NoStudy
<1>4. ReservationsOwnTheirUnits
  BY <1>1, <1>2 DEF ReservationsOwnTheirUnits
<1>5. ChildrenAreCounted
  <2>1. \A c \in Causes : OpenIn(study[c]) = {}
    BY <1>2 DEF OpenIn, NoStudy
  <2>2. \A c \in Causes : children[c] = 0 /\ epoch[c] = FALSE
    OBVIOUS
  <2>3. \A c \in Causes : Cardinality(OpenIn(study[c])) = 0
    BY <2>1, FS_EmptySet
  <2> HIDE DEF Init
  <2> QED
    BY <2>2, <2>3 DEF ChildrenAreCounted
<1>6. ClosedIsDrained
  <2>1. \A r \in Runtimes : runtime[r] = "unused"
    OBVIOUS
  <2> QED
    BY <1>2, <2>1, InvocationAssumption DEF ClosedIsDrained, NotAdmitted
<1>7. EscrowEndsWithStudy /\ EscrowIsIssued
  BY <1>2 DEF EscrowEndsWithStudy, EscrowIsIssued, NoStudy
<1>8. RevisionTellsState /\ IndexedOnce
  BY <1>2 DEF RevisionTellsState, IndexedOnce, NotAdmitted, Admitted
<1> QED
  BY <1>3, <1>4, <1>5, <1>6, <1>7, <1>8 DEF Inductive

LEMMA NextInductive ==
  ASSUME Inductive, Next
  PROVE  Inductive' /\ Advance
<1>1. ASSUME NEW r \in Runtimes, CreateRuntime(r) \/ CollectRuntime(r) PROVE Inductive' /\ Advance
  BY <1>1, CreateRuntimeKeeps, CollectKeeps
<1>2. ASSUME NEW c \in Causes, Step(c) PROVE Inductive' /\ Advance
  <2>1. CASE Admit(c) \/ FinishEpoch(c)
    BY <2>1, AdmitKeeps, FinishEpochKeeps
  <2>2. ASSUME NEW rev \in Revisions, NEW n \in 1 .. Budget, NEW w \in Work, ReserveUnits(c, rev, n, w)
        PROVE  Inductive' /\ Advance
    BY <2>2, ReserveUnitsKeeps
  <2>3. ASSUME NEW rev \in Revisions, NEW q, NEW i, NEW w, ConsumeUnit(c, rev, q, i, w)
        PROVE  Inductive' /\ Advance
    BY <2>3, ChargeKeeps DEF ConsumeUnit
  <2>4. ASSUME NEW rev \in Revisions, NEW q, RetireReservation(c, rev, q)
        PROVE  Inductive' /\ Advance
    BY <2>4, RetireReservationKeeps
  <2>5. ASSUME NEW rev \in Revisions, RetireUnusedUnits(c, rev) \/ OpenEpoch(c, rev)
        PROVE  Inductive' /\ Advance
    BY <2>5, RetireUnusedUnitsKeeps, OpenEpochKeeps
  <2>6. ASSUME NEW rev \in Revisions, NEW h \in 1 .. MaxHorizon, DelegateForecast(c, rev, h)
        PROVE  Inductive' /\ Advance
    BY <2>6, DelegateForecastKeeps
  <2>7. ASSUME NEW rev \in Revisions, NEW s \in Studies, OpenStudy(c, rev, s) \/ EndStudy(c, rev, s)
        PROVE  Inductive' /\ Advance
    BY <2>7, OpenStudyKeeps, EndStudyKeeps
  <2>8. ASSUME NEW rev \in Revisions, NEW s \in Studies, NEW k, ChargeStudy(c, rev, s, k)
        PROVE  Inductive' /\ Advance
    BY <2>8, ChargeKeeps DEF ChargeStudy
  <2>9. ASSUME NEW rev \in Revisions, BeginClose(c, rev) \/ FinalizeClose(c, rev)
        PROVE  Inductive' /\ Advance
    BY <2>9, BeginCloseKeeps, FinalizeCloseKeeps
  <2>10. ASSUME NEW rev \in Revisions,
                \/ \E n \in 1 .. Budget, w \in Work : ReserveUnits(c, rev, n, w)
                \/ \E q \in DOMAIN ledger[c].records, i \in DOMAIN ledger[c].units, w \in Work :
                     ConsumeUnit(c, rev, q, i, w)
                \/ \E q \in DOMAIN ledger[c].records : RetireReservation(c, rev, q)
                \/ RetireUnusedUnits(c, rev)
                \/ \E h \in 1 .. MaxHorizon : DelegateForecast(c, rev, h)
                \/ OpenEpoch(c, rev)
                \/ \E s \in Studies : OpenStudy(c, rev, s) \/ EndStudy(c, rev, s)
                \/ \E s \in Studies : \E k \in DOMAIN Frontier[s] : ChargeStudy(c, rev, s, k)
                \/ BeginClose(c, rev)
                \/ FinalizeClose(c, rev)
         PROVE  Inductive' /\ Advance
    BY <2>2, <2>3, <2>4, <2>5, <2>6, <2>7, <2>8, <2>9, <2>10
  <2> QED
    BY <1>2, <2>1, <2>10 DEF Step
<1> QED
  BY <1>1, <1>2 DEF Next

LEMMA StutterInductive ==
  ASSUME Inductive, UNCHANGED vars
  PROVE  Inductive' /\ Advance
<1>1. UNCHANGED <<runtime, causes, lifecycle, ledger, children, epoch, epochs, study>>
  BY DEF vars
<1>2. TypeOK' /\ ReservationsOwnTheirUnits' /\ ChildrenAreCounted' /\ ClosedIsDrained'
  BY <1>1 DEF Inductive, TypeOK, ReservationsOwnTheirUnits, ChildrenAreCounted, ClosedIsDrained, Admitted
<1>3. EscrowEndsWithStudy' /\ RevisionTellsState' /\ IndexedOnce' /\ EscrowIsIssued'
  BY <1>1 DEF Inductive, EscrowEndsWithStudy, RevisionTellsState, IndexedOnce, EscrowIsIssued, Admitted
<1> QED
  BY <1>1, <1>2, <1>3, SameLedger DEF Inductive

(* Every reachable state satisfies the inductive invariant.                *)
THEOREM AlwaysInductive == Spec => []Inductive
<1>1. Inductive /\ [Next]_vars => Inductive'
  BY NextInductive, StutterInductive
<1> QED
  BY InitInductive, <1>1, PTL DEF Spec

(* Type correctness of the runtimes, for every instance.                   *)
THEOREM TypeCorrect == Spec => []TypeOK
<1>1. Inductive => TypeOK
  BY DEF Inductive
<1> QED
  BY <1>1, AlwaysInductive, PTL

(* No unit is ever bound to two reservations: prepare_reservation,         *)
(* prepare_forecast_delegation and prepare_causal_reservation cut disjoint *)
(* pieces from the ledger, whatever was consumed or retired in between.    *)
THEOREM UnitsHaveOneOwner == Spec => []ReservationsOwnTheirUnits
<1>1. Inductive => ReservationsOwnTheirUnits
  BY DEF Inductive
<1> QED
  BY <1>1, AlwaysInductive, PTL

(* nondelegated_children is exact, and zero once a close has begun.        *)
THEOREM ChildCountExact == Spec => []ChildrenAreCounted
<1>1. Inductive => ChildrenAreCounted
  BY DEF Inductive
<1> QED
  BY <1>1, AlwaysInductive, PTL

(* A CLOSED invocation has no unit left to charge and no child.            *)
THEOREM CloseDrains == Spec => []ClosedIsDrained
<1>1. Inductive => ClosedIsDrained
  BY DEF Inductive
<1> QED
  BY <1>1, AlwaysInductive, PTL

(* A study's escrow never outlives the study, nor the study its invocation.*)
THEOREM EscrowIsAChild == Spec => []EscrowEndsWithStudy
<1>1. Inductive => EscrowEndsWithStudy
  BY DEF Inductive
<1> QED
  BY <1>1, AlwaysInductive, PTL

(* Budget is never refunded: not by a failed or repeated operation, not by *)
(* admitting a cause again, not by collecting and rebuilding a runtime.    *)
THEOREM NeverRefunded == Spec => NoRefund
<1>1. Inductive /\ [Next]_vars => [Advance]_vars
  BY NextInductive, StutterInductive
<1>2. Advance => (\A c \in Causes : Admitted(c) => Follows(ledger[c], ledger'[c]))
  BY DEF Advance
<1> QED
  BY <1>1, <1>2, AlwaysInductive, PTL DEF Spec, NoRefund

-----------------------------------------------------------------------------
(* What a step does to one cause, as its allowance sees it: nothing, its   *)
(* admission, a charge or reservation, a retirement, or its end.           *)
GivesUp(L, M) ==
  /\ M.sequence = L.sequence /\ DOMAIN M.units = DOMAIN L.units
  /\ \A i \in DOMAIN L.units :
       \/ M.units[i] = L.units[i]
       \/ M.units[i].state = "RETIRED" /\ L.units[i].state \in {"AVAILABLE", "RESERVED"}

Unmoved(d) ==
  /\ lifecycle'[d] = lifecycle[d] /\ ledger'[d] = ledger[d]
  /\ lifecycle[d].state # "ACTIVE" => children'[d] <= children[d]

Begins(d) ==
  /\ lifecycle[d].state = "NONE" /\ lifecycle'[d].state = "ACTIVE"
  /\ ledger'[d] = NewIndex(Budget)

Spends(d) == lifecycle[d].state = "ACTIVE" /\ lifecycle'[d] = lifecycle[d]

Reduces(d) ==
  /\ lifecycle[d].state \in {"ACTIVE", "CLOSING"}
  /\ lifecycle'[d].state \in {lifecycle[d].state, "CLOSING"}
  /\ GivesUp(ledger[d], ledger'[d])
  /\ lifecycle[d].state # "ACTIVE" => children'[d] <= children[d]

Ends(d) ==
  /\ lifecycle[d].state \in {"ACTIVE", "CLOSING"} /\ lifecycle'[d].state = "CLOSED"
  /\ GivesUp(ledger[d], ledger'[d]) /\ Drained(ledger'[d])
  /\ lifecycle[d].state # "ACTIVE" => children'[d] <= children[d]

Deed(d) == Unmoved(d) \/ Begins(d) \/ Spends(d) \/ Reduces(d) \/ Ends(d)

LEMMA NothingGivenUp ==
  ASSUME NEW L
  PROVE  GivesUp(L, L)
BY DEF GivesUp

LEMMA RetireReservedGivesUp ==
  ASSUME NEW L, NEW qs
  PROVE  GivesUp(L, RetireReserved(L, qs))
<1>1. \A i \in ReservedIn(L, qs) : i \in DOMAIN L.units /\ L.units[i].state = "RESERVED"
  BY DEF ReservedIn, InState
<1> QED BY <1>1 DEF GivesUp, RetireReserved, WithUnits, Spent

LEMMA RetireUnusedGivesUp ==
  ASSUME NEW L, NEW rev
  PROVE  GivesUp(L, RetireUnused(L, rev))
BY DEF GivesUp, RetireUnused, WithUnits, Spent

LEMMA GivenUpTwice ==
  ASSUME NEW L, NEW M, NEW N, GivesUp(L, M), GivesUp(M, N)
  PROVE  GivesUp(L, N)
<1>1. N.sequence = L.sequence /\ DOMAIN N.units = DOMAIN L.units
  BY DEF GivesUp
<1>2. \A i \in DOMAIN L.units :
        \/ N.units[i] = L.units[i]
        \/ N.units[i].state = "RETIRED" /\ L.units[i].state \in {"AVAILABLE", "RESERVED"}
  BY DEF GivesUp
<1> QED BY <1>1, <1>2 DEF GivesUp

(* A step of one cause leaves the others alone.                            *)
LEMMA OthersUnmoved ==
  ASSUME Inductive, NEW c \in Causes, Step(c), NEW d \in Causes, d # c
  PROVE  Unmoved(d)
<1>1. /\ \A M : Publish(c, M) => ledger'[d] = ledger[d] /\ lifecycle' = lifecycle /\ children' = children
  BY DEF Publish, Inductive, TypeOK
<1>2. children[d] \in Nat
  BY DEF Inductive, TypeOK
<1>3. CASE Admit(c) \/ FinishEpoch(c)
  <2>1. lifecycle'[d] = lifecycle[d] /\ ledger'[d] = ledger[d] /\ children'[d] = children[d]
    BY <1>3 DEF Admit, FinishEpoch, Inductive, TypeOK
  <2> QED BY <1>2, <2>1 DEF Unmoved
<1>4. ASSUME \E M : Publish(c, M) PROVE Unmoved(d)
  BY <1>1, <1>2, <1>4 DEF Unmoved
<1>5. ASSUME NEW rev \in Revisions,
             \/ OpenEpoch(c, rev) \/ BeginClose(c, rev) \/ FinalizeClose(c, rev)
             \/ \E s \in Studies : OpenStudy(c, rev, s) \/ EndStudy(c, rev, s)
      PROVE  Unmoved(d)
  <2>1. lifecycle'[d] = lifecycle[d] /\ ledger'[d] = ledger[d] /\ children'[d] = children[d]
    BY <1>5 DEF OpenEpoch, BeginClose, FinalizeClose, OpenStudy, EndStudy, Inductive, TypeOK
  <2> QED BY <1>2, <2>1 DEF Unmoved
<1>6. ASSUME NEW rev \in Revisions,
             \/ \E n \in 1 .. Budget, w \in Work : ReserveUnits(c, rev, n, w)
             \/ \E q \in DOMAIN ledger[c].records, i \in DOMAIN ledger[c].units, w \in Work :
                  ConsumeUnit(c, rev, q, i, w)
             \/ \E q \in DOMAIN ledger[c].records : RetireReservation(c, rev, q)
             \/ RetireUnusedUnits(c, rev)
             \/ \E h \in 1 .. MaxHorizon : DelegateForecast(c, rev, h)
             \/ \E s \in Studies : \E k \in DOMAIN Frontier[s] : ChargeStudy(c, rev, s, k)
      PROVE  \E M : Publish(c, M)
  BY <1>6 DEF ReserveUnits, ConsumeUnit, RetireReservation, RetireUnusedUnits, DelegateForecast,
              ChargeStudy
<1> QED BY <1>3, <1>4, <1>5, <1>6 DEF Step

(* What it does to its own.                                                *)
LEMMA OwnDeed ==
  ASSUME Inductive, NEW c \in Causes, Step(c)
  PROVE  Deed(c)
<1>1. /\ lifecycle \in [Causes -> [state : {"NONE", "ACTIVE", "CLOSING", "CLOSED"}, revision : 0 .. 2]]
      /\ DOMAIN ledger = Causes /\ children \in [Causes -> Nat]
  BY DEF Inductive, TypeOK
<1>2. \A rev, active : Current(c, rev, active) => lifecycle[c].state \in {"ACTIVE", "CLOSING"}
  BY <1>1 DEF Current, Live, Inductive, IndexedOnce, Admitted
<1>3. \A M : Publish(c, M) => ledger'[c] = M /\ lifecycle' = lifecycle /\ children' = children
  BY <1>1 DEF Publish
<1>4. CASE Admit(c)
  <2>1. lifecycle[c].state = "NONE"
    BY <1>4 DEF Admit, Inductive, IndexedOnce, Admitted
  <2>2. lifecycle'[c].state = "ACTIVE" /\ ledger'[c] = NewIndex(Budget)
    BY <1>1, <1>4 DEF Admit
  <2> QED BY <2>1, <2>2 DEF Deed, Begins
<1>5. CASE FinishEpoch(c)
  <2>1. /\ lifecycle'[c] = lifecycle[c] /\ ledger'[c] = ledger[c]
        /\ children'[c] = children[c] - 1 /\ children[c] \in Nat
    BY <1>1, <1>5 DEF FinishEpoch
  <2>2. children'[c] <= children[c]
    BY <2>1
  <2> QED BY <2>1, <2>2 DEF Deed, Unmoved
<1>6. ASSUME NEW rev \in Revisions,
             \/ \E n \in 1 .. Budget, w \in Work : ReserveUnits(c, rev, n, w)
             \/ \E q \in DOMAIN ledger[c].records, i \in DOMAIN ledger[c].units, w \in Work :
                  ConsumeUnit(c, rev, q, i, w)
             \/ \E h \in 1 .. MaxHorizon : DelegateForecast(c, rev, h)
             \/ \E s \in Studies : \E k \in DOMAIN Frontier[s] : ChargeStudy(c, rev, s, k)
             \/ OpenEpoch(c, rev)
             \/ \E s \in Studies : OpenStudy(c, rev, s)
      PROVE  Spends(c)
  <2>1. lifecycle' = lifecycle
    BY <1>3, <1>6 DEF ReserveUnits, ConsumeUnit, DelegateForecast, ChargeStudy, OpenEpoch, OpenStudy
  <2>2. Current(c, rev, TRUE)
    BY <1>6 DEF ReserveUnits, ConsumeUnit, DelegateForecast, ChargeStudy, OpenEpoch, OpenStudy
  <2> QED BY <2>1, <2>2 DEF Spends, Current
<1>7. ASSUME NEW rev \in Revisions, Current(c, rev, FALSE), NEW M, Publish(c, M),
             GivesUp(ledger[c], M)
      PROVE  Reduces(c)
  <2>1. /\ lifecycle[c].state \in {"ACTIVE", "CLOSING"} /\ lifecycle' = lifecycle
        /\ ledger'[c] = M /\ children' = children
    BY <1>2, <1>3, <1>7
  <2>2. children[c] \in Nat
    BY <1>1
  <2> QED BY <1>7, <2>1, <2>2 DEF Reduces
<1>8. ASSUME NEW rev \in Revisions, NEW q, RetireReservation(c, rev, q)
      PROVE  Reduces(c)
  BY <1>7, <1>8, RetireReservedGivesUp DEF RetireReservation
<1>9. ASSUME NEW rev \in Revisions, RetireUnusedUnits(c, rev)
      PROVE  Reduces(c)
  BY <1>7, <1>9, RetireUnusedGivesUp DEF RetireUnusedUnits
<1>10. ASSUME NEW rev \in Revisions, NEW s \in Studies, EndStudy(c, rev, s)
       PROVE  Reduces(c)
  <2>1. lifecycle[c].state = "ACTIVE" /\ lifecycle'[c] = lifecycle[c]
    BY <1>10 DEF EndStudy, Current
  <2>2. ledger'[c] = WithoutEscrow(c, {s})
    BY <1>1, <1>10 DEF EndStudy
  <2>3. GivesUp(ledger[c], WithoutEscrow(c, {s}))
    BY RetireReservedGivesUp DEF WithoutEscrow
  <2> QED BY <2>1, <2>2, <2>3 DEF Reduces
<1>11. ASSUME NEW rev \in Revisions, BeginClose(c, rev)
       PROVE  Reduces(c)
  <2>1. lifecycle[c].state = "ACTIVE" /\ lifecycle'[c].state = "CLOSING"
    BY <1>1, <1>11 DEF BeginClose
  <2>2. ledger'[c] = WithoutEscrow(c, OpenIn(study[c]))
    BY <1>1, <1>11 DEF BeginClose
  <2>3. GivesUp(ledger[c], WithoutEscrow(c, OpenIn(study[c])))
    BY RetireReservedGivesUp DEF WithoutEscrow
  <2> QED BY <2>1, <2>2, <2>3 DEF Reduces
<1>12. ASSUME NEW rev \in Revisions, FinalizeClose(c, rev)
       PROVE  Ends(c)
  <2>1. /\ lifecycle[c].state = "CLOSING" /\ lifecycle'[c].state = "CLOSED"
        /\ ledger' = ledger /\ children' = children /\ Drained(ledger[c])
    BY <1>1, <1>12 DEF FinalizeClose
  <2> QED BY <1>1, <2>1, NothingGivenUp DEF Ends
<1> QED
  BY <1>4, <1>5, <1>6, <1>8, <1>9, <1>10, <1>11, <1>12 DEF Step, Deed

LEMMA CollectDeed ==
  ASSUME Inductive, NEW r \in Runtimes, CollectRuntime(r), NEW d \in Causes
  PROVE  Deed(d)
<1> DEFINE ending == {c \in Causes : RuntimeOf[c] = r /\ lifecycle[c].state \in {"ACTIVE", "CLOSING"}}
           closing == IF lifecycle[d].state = "ACTIVE"
                      THEN lifecycle[d].revision + 1 ELSE lifecycle[d].revision
           kept == WithoutEscrow(d, OpenIn(study[d]))
<1>1. CASE d \notin ending
  <2>1. lifecycle'[d] = lifecycle[d] /\ ledger'[d] = ledger[d] /\ children'[d] = children[d]
    BY <1>1 DEF CollectRuntime
  <2>2. children[d] \in Nat
    BY DEF Inductive, TypeOK
  <2> QED BY <2>1, <2>2 DEF Deed, Unmoved
<1>2. CASE d \in ending
  <2>1. /\ lifecycle'[d].state = "CLOSED" /\ ledger'[d] = RetireUnused(kept, closing)
        /\ children'[d] = ChildrenAfterClose(d)
    BY <1>2 DEF CollectRuntime
  <2>2. Admitted(d) /\ closing \in Nat
    <3>1. lifecycle[d].revision \in Nat
      BY DEF Inductive, TypeOK
    <3> QED BY <1>2, <3>1 DEF Admitted
  <2>3. Reduced(d, kept, Ended(d, OpenIn(study[d])))
    BY <2>2, WithoutEscrowReduced
  <2> HIDE DEF kept, closing
  <2>4. Drained(RetireUnused(kept, closing))
    BY <2>2, <2>3, RetireUnusedReduced
  <2>5. GivesUp(ledger[d], kept)
    BY RetireReservedGivesUp DEF WithoutEscrow, kept
  <2>6. GivesUp(ledger[d], RetireUnused(kept, closing))
    BY <2>5, RetireUnusedGivesUp, GivenUpTwice
  <2>7. children'[d] <= children[d]
    BY <2>1, NoChildrenLeft DEF Inductive, TypeOK
  <2> QED BY <1>2, <2>1, <2>4, <2>6, <2>7 DEF Deed, Ends
<1> QED BY <1>1, <1>2

LEMMA Deeds ==
  ASSUME Inductive, [Next]_vars, NEW d \in Causes
  PROVE  Deed(d)
<1>1. children[d] \in Nat
  BY DEF Inductive, TypeOK
<1>2. CASE UNCHANGED vars
  BY <1>1, <1>2 DEF vars, Deed, Unmoved
<1>3. CASE \E r \in Runtimes : CreateRuntime(r)
  BY <1>1, <1>3 DEF CreateRuntime, Deed, Unmoved
<1>4. CASE \E r \in Runtimes : CollectRuntime(r)
  BY <1>4, CollectDeed
<1>5. CASE \E c \in Causes : Step(c)
  BY <1>5, OthersUnmoved, OwnDeed DEF Deed
<1> QED BY <1>2, <1>3, <1>4, <1>5 DEF Next

(* After begin_close nothing is reserved, charged, delegated or opened any *)
(* more, and no lifecycle state is undone.                                 *)
THEOREM ClosingReduces == Spec => CloseOnlyReduces
<1> DEFINE Reducing ==
      \A c \in Causes :
        /\ Order(lifecycle'[c].state) >= Order(lifecycle[c].state)
        /\ lifecycle[c].state \in {"CLOSING", "CLOSED"} =>
             /\ ledger'[c].sequence = ledger[c].sequence
             /\ children'[c] <= children[c]
             /\ \A i \in DOMAIN ledger[c].units :
                  \/ ledger'[c].units[i] = ledger[c].units[i]
                  \/ ledger'[c].units[i].state = "RETIRED"
<1>1. ASSUME Inductive, [Next]_vars PROVE Reducing
  <2> SUFFICES ASSUME NEW c \in Causes
               PROVE  /\ Order(lifecycle'[c].state) >= Order(lifecycle[c].state)
                      /\ lifecycle[c].state \in {"CLOSING", "CLOSED"} =>
                           /\ ledger'[c].sequence = ledger[c].sequence
                           /\ children'[c] <= children[c]
                           /\ \A i \in DOMAIN ledger[c].units :
                                \/ ledger'[c].units[i] = ledger[c].units[i]
                                \/ ledger'[c].units[i].state = "RETIRED"
    OBVIOUS
  <2>1. lifecycle[c].state \in {"NONE", "ACTIVE", "CLOSING", "CLOSED"}
    BY <1>1 DEF Inductive, TypeOK
  <2>2. Order(lifecycle'[c].state) >= Order(lifecycle[c].state)
    <3>1. CASE lifecycle'[c] = lifecycle[c]
      BY <2>1, <3>1 DEF Order
    <3>2. CASE lifecycle'[c] # lifecycle[c]
      BY <1>1, <2>1, <3>2, Deeds DEF Deed, Unmoved, Begins, Spends, Reduces, Ends, Order
    <3> QED BY <3>1, <3>2
  <2>3. ASSUME lifecycle[c].state \in {"CLOSING", "CLOSED"}
        PROVE  /\ children'[c] <= children[c]
               /\ GivesUp(ledger[c], ledger'[c])
    BY <1>1, <2>3, Deeds, NothingGivenUp DEF Deed, Unmoved, Begins, Spends, Reduces, Ends
  <2> QED BY <2>2, <2>3 DEF GivesUp
<1> QED BY <1>1, AlwaysInductive, PTL DEF Spec, CloseOnlyReduces

-----------------------------------------------------------------------------
(* The allowance.  A ledger has two amounts: what can still be charged, and*)
(* what was.                                                               *)
Remaining(L) == InState(L, "AVAILABLE") \cup InState(L, "RESERVED")
Charges(L)   == InState(L, "CONSUMED") \cup InState(L, "DELEGATED_FORECAST_POOL")

Left(L) == Cardinality(InState(L, "AVAILABLE")) + Cardinality(InState(L, "RESERVED"))
Gone(L) == Cardinality(InState(L, "CONSUMED")) + Cardinality(InState(L, "DELEGATED_FORECAST_POOL"))

LEMMA Disjoint ==
  ASSUME NEW S, NEW T, IsFiniteSet(S), IsFiniteSet(T), S \cap T = {}
  PROVE  /\ IsFiniteSet(S \cup T) /\ Cardinality(S \cup T) = Cardinality(S) + Cardinality(T)
         /\ Cardinality(S) \in Nat /\ Cardinality(T) \in Nat
<1>1. Cardinality(S \cap T) = 0
  BY FS_EmptySet
<1>2. Cardinality(S) \in Nat /\ Cardinality(T) \in Nat
  BY FS_CardinalityType
<1>3. /\ IsFiniteSet(S \cup T)
      /\ Cardinality(S \cup T) = Cardinality(S) + Cardinality(T) - Cardinality(S \cap T)
  BY FS_Union
<1> QED BY <1>1, <1>2, <1>3

LEMMA Amounts ==
  ASSUME NEW n \in Nat, NEW L, LedgerOK(L, n)
  PROVE  /\ IsFiniteSet(Remaining(L)) /\ Cardinality(Remaining(L)) = Left(L)
         /\ IsFiniteSet(Charges(L)) /\ Cardinality(Charges(L)) = Gone(L)
         /\ Left(L) \in Nat /\ Gone(L) \in Nat /\ Left(L) + Gone(L) <= n
<1>1. IsFiniteSet(0 .. n - 1) /\ Cardinality(0 .. n - 1) = n
  BY FS_Interval
<1>2. \A s : InState(L, s) \in SUBSET (0 .. n - 1)
  BY DEF InState, LedgerOK
<1>3. \A s : IsFiniteSet(InState(L, s))
  BY <1>1, <1>2, FS_Subset
<1>4. \A s, u : s # u => InState(L, s) \cap InState(L, u) = {}
  BY DEF InState
<1>5. /\ IsFiniteSet(Remaining(L)) /\ Cardinality(Remaining(L)) = Left(L) /\ Left(L) \in Nat
  <2>1. InState(L, "AVAILABLE") \cap InState(L, "RESERVED") = {}
    BY <1>4
  <2> QED BY <1>3, <2>1, Disjoint DEF Remaining, Left
<1>6. /\ IsFiniteSet(Charges(L)) /\ Cardinality(Charges(L)) = Gone(L) /\ Gone(L) \in Nat
  <2>1. InState(L, "CONSUMED") \cap InState(L, "DELEGATED_FORECAST_POOL") = {}
    BY <1>4
  <2> QED BY <1>3, <2>1, Disjoint DEF Charges, Gone
<1>7. Remaining(L) \cap Charges(L) = {}
  BY DEF Remaining, Charges, InState
<1>8. Cardinality(Remaining(L) \cup Charges(L)) = Left(L) + Gone(L)
  BY <1>5, <1>6, <1>7, Disjoint
<1>9. Remaining(L) \cup Charges(L) \in SUBSET (0 .. n - 1)
  BY <1>2 DEF Remaining, Charges
<1>10. Cardinality(Remaining(L) \cup Charges(L)) <= n
  BY <1>1, <1>9, FS_Subset
<1> QED BY <1>5, <1>6, <1>8, <1>10

(* Units that stay, or change from what is left to what is gone, move the  *)
(* amounts one way.                                                        *)
LEMMA AmountsMove ==
  ASSUME NEW n \in Nat, NEW L, NEW M, LedgerOK(L, n), LedgerOK(M, n), Follows(L, M)
  PROVE  Left(M) \in 0 .. Left(L) /\ Gone(M) \in Gone(L) .. Gone(L) + (Left(L) - Left(M))
<1>1. /\ DOMAIN L.units = 0 .. n - 1 /\ DOMAIN M.units = 0 .. n - 1
      /\ \A i \in 0 .. n - 1 : MayBecome(L.units[i], M.units[i])
  BY DEF LedgerOK, Follows
<1>2. Remaining(M) \in SUBSET Remaining(L) /\ Charges(L) \in SUBSET Charges(M)
  BY <1>1 DEF Remaining, Charges, InState, MayBecome
<1>3. Charges(M) \ Charges(L) \in SUBSET (Remaining(L) \ Remaining(M))
  BY <1>1 DEF Remaining, Charges, InState, MayBecome
<1>4. /\ IsFiniteSet(Remaining(L)) /\ Cardinality(Remaining(L)) = Left(L)
      /\ IsFiniteSet(Charges(L)) /\ Cardinality(Charges(L)) = Gone(L)
      /\ IsFiniteSet(Remaining(M)) /\ Cardinality(Remaining(M)) = Left(M)
      /\ IsFiniteSet(Charges(M)) /\ Cardinality(Charges(M)) = Gone(M)
      /\ Left(L) \in Nat /\ Gone(L) \in Nat /\ Left(M) \in Nat /\ Gone(M) \in Nat
  BY Amounts
<1> DEFINE spent == Charges(M) \ Charges(L)
<1> DEFINE lost == Remaining(L) \ Remaining(M)
<1>5. IsFiniteSet(lost) /\ IsFiniteSet(spent)
  <2>1. lost \in SUBSET Remaining(L) /\ spent \in SUBSET Charges(M)
    OBVIOUS
  <2> QED BY <1>4, <2>1, FS_Subset
<1>6. Left(L) = Left(M) + Cardinality(lost) /\ Cardinality(lost) \in Nat
  <2>1. Remaining(M) \cup lost = Remaining(L) /\ Remaining(M) \cap lost = {}
    BY <1>2
  <2> HIDE DEF lost
  <2> QED BY <1>4, <1>5, <2>1, Disjoint
<1>7. Gone(M) = Gone(L) + Cardinality(spent) /\ Cardinality(spent) \in Nat
  <2>1. Charges(L) \cup spent = Charges(M) /\ Charges(L) \cap spent = {}
    BY <1>2
  <2> HIDE DEF spent
  <2> QED BY <1>4, <1>5, <2>1, Disjoint
<1>8. Cardinality(spent) <= Cardinality(lost)
  BY <1>3, <1>5, FS_Subset
<1> HIDE DEF spent, lost
<1> QED BY <1>4, <1>6, <1>7, <1>8

LEMMA NothingCharged ==
  ASSUME NEW n \in Nat, NEW L, NEW M, LedgerOK(L, n), LedgerOK(M, n), GivesUp(L, M)
  PROVE  Gone(M) = Gone(L)
<1>1. \A i \in DOMAIN L.units : M.units[i].state \in {"CONSUMED", "DELEGATED_FORECAST_POOL"} \/
                                L.units[i].state \in {"CONSUMED", "DELEGATED_FORECAST_POOL"} =>
                                  M.units[i] = L.units[i]
  BY DEF GivesUp
<1>2. /\ InState(M, "CONSUMED") = InState(L, "CONSUMED")
      /\ InState(M, "DELEGATED_FORECAST_POOL") = InState(L, "DELEGATED_FORECAST_POOL")
  BY <1>1 DEF InState, GivesUp
<1> QED BY <1>2 DEF Gone

LEMMA FullAndEmpty ==
  ASSUME NEW n \in Nat
  PROVE  /\ Left(NewIndex(n)) = n /\ Gone(NewIndex(n)) = 0
         /\ \A L : Drained(L) => Left(L) = 0
<1>1. /\ InState(NewIndex(n), "AVAILABLE") = 0 .. n - 1 /\ InState(NewIndex(n), "RESERVED") = {}
      /\ InState(NewIndex(n), "CONSUMED") = {}
      /\ InState(NewIndex(n), "DELEGATED_FORECAST_POOL") = {}
  BY DEF InState, NewIndex, Fresh
<1>2. \A L : Drained(L) => InState(L, "AVAILABLE") = {} /\ InState(L, "RESERVED") = {}
  BY DEF Drained, InState, Terminal
<1>3. Cardinality({}) = 0 /\ Cardinality(0 .. n - 1) = n
  BY FS_EmptySet, FS_Interval
<1>4. Left(NewIndex(n)) = n + 0 /\ Gone(NewIndex(n)) = 0 + 0
  BY <1>1, <1>3 DEF Left, Gone
<1>5. \A L : Drained(L) => Left(L) = 0 + 0
  BY <1>2, <1>3 DEF Left
<1> QED BY <1>4, <1>5

(* The amounts of a cause, before and after it is admitted.                *)
LEMMA AmountsFit ==
  ASSUME Inductive, NEW c \in Causes
  PROVE  /\ Left(ledger[c]) \in 0 .. Budget /\ Gone(ledger[c]) \in 0 .. Budget
         /\ ~Admitted(c) => Left(ledger[c]) = 0 /\ Gone(ledger[c]) = 0
<1>1. Budget \in Nat
  BY InvocationAssumption
<1>2. CASE Admitted(c)
  <2>1. LedgerOK(ledger[c], Budget)
    BY <1>2 DEF Inductive, TypeOK
  <2> QED BY <1>1, <1>2, <2>1, Amounts
<1>3. CASE ~Admitted(c)
  <2>1. LedgerOK(ledger[c], 0)
    BY <1>3 DEF Inductive, TypeOK
  <2> QED BY <1>1, <2>1, Amounts
<1> QED BY <1>2, <1>3

(* What a step does to the amounts of one cause.                           *)
LEMMA DeedKeepsAllowance ==
  ASSUME Inductive, Inductive', Advance, NEW d \in Causes, Deed(d)
  PROVE  LET left == Left(ledger[d])  gone == Gone(ledger[d])
         IN \/ Phase(d) = "none" /\ Phase(d)' = "active" /\ left' = Budget /\ gone' = 0
            \/ /\ Phase(d) = "active" /\ Phase(d)' = "active"
               /\ left' \in 0 .. left /\ gone' \in gone .. gone + (left - left')
            \/ /\ Phase(d) \in {"active", "closing"} /\ Phase(d)' \in {Phase(d), "closing"}
               /\ left' \in 0 .. left /\ gone' = gone
            \/ /\ Phase(d) \in {"active", "closing"} /\ Phase(d)' = "ended"
               /\ left' = 0 /\ gone' = gone
            \/ Phase(d)' = Phase(d) /\ left' = left /\ gone' = gone
<1> DEFINE L == ledger[d]
<1> DEFINE M == ledger'[d]
<1>1. Left(L)' = Left(M) /\ Gone(L)' = Gone(M) /\ Budget \in Nat
  BY InvocationAssumption DEF Left, Gone, InState
<1>2. ASSUME lifecycle[d].state # "NONE", lifecycle'[d].state # "NONE"
      PROVE  LedgerOK(L, Budget) /\ LedgerOK(M, Budget) /\ Follows(L, M)
  BY <1>2 DEF Inductive, TypeOK, Admitted, Advance
<1>3. CASE Unmoved(d)
  <2>1. Phase(d)' = Phase(d) /\ M = L
    BY <1>3 DEF Unmoved, Phase
  <2> QED BY <1>1, <2>1
<1>4. CASE Begins(d)
  <2>1. Phase(d) = "none" /\ Phase(d)' = "active" /\ M = NewIndex(Budget)
    BY <1>4 DEF Begins, Phase
  <2> QED BY <1>1, <2>1, FullAndEmpty
<1>5. CASE Spends(d)
  <2>1. Phase(d) = "active" /\ Phase(d)' = "active"
    BY <1>5 DEF Spends, Phase
  <2>2. LedgerOK(L, Budget) /\ LedgerOK(M, Budget) /\ Follows(L, M)
    BY <1>2, <1>5 DEF Spends
  <2>3. Left(M) \in 0 .. Left(L) /\ Gone(M) \in Gone(L) .. Gone(L) + (Left(L) - Left(M))
    BY <1>1, <2>2, AmountsMove
  <2> QED BY <1>1, <2>1, <2>3
<1>6. CASE Reduces(d)
  <2>1. Phase(d) \in {"active", "closing"} /\ Phase(d)' \in {Phase(d), "closing"}
    BY <1>6 DEF Reduces, Phase
  <2>2. LedgerOK(L, Budget) /\ LedgerOK(M, Budget) /\ Follows(L, M) /\ GivesUp(L, M)
    BY <1>2, <1>6 DEF Reduces
  <2>3. Left(M) \in 0 .. Left(L) /\ Gone(M) = Gone(L)
    BY <1>1, <2>2, AmountsMove, NothingCharged
  <2> QED BY <1>1, <2>1, <2>3
<1>7. CASE Ends(d)
  <2>1. Phase(d) \in {"active", "closing"} /\ Phase(d)' = "ended"
    BY <1>7 DEF Ends, Phase
  <2>2. LedgerOK(L, Budget) /\ LedgerOK(M, Budget) /\ GivesUp(L, M) /\ Drained(M)
    BY <1>2, <1>7 DEF Ends
  <2>3. Left(M) = 0 /\ Gone(M) = Gone(L)
    BY <1>1, <2>2, FullAndEmpty, NothingCharged
  <2> QED BY <1>1, <2>1, <2>3
<1> QED BY <1>3, <1>4, <1>5, <1>6, <1>7 DEF Deed

(* Every step grants, charges, gives up or ends an allowance, or leaves it *)
(* alone: the budget is not renewable (03_COGNITION.md section 6.1).       *)
THEOREM BudgetIsAnAllowance == Spec => KeepsAllowance
<1> DEFINE phase == [c \in Causes |-> Phase(c)]
<1> DEFINE left == [c \in Causes |-> Cardinality(InState(ledger[c], "AVAILABLE"))
                                     + Cardinality(InState(ledger[c], "RESERVED"))]
<1> DEFINE charged == [c \in Causes |-> Cardinality(InState(ledger[c], "CONSUMED"))
                                        + Cardinality(InState(ledger[c], "DELEGATED_FORECAST_POOL"))]
<1>1. ASSUME Init PROVE Contract!Init
  <2>1. \A c \in Causes : Phase(c) = "none" /\ ledger[c] = NewIndex(0)
    BY <1>1 DEF Init, Phase, NotAdmitted
  <2>2. Left(NewIndex(0)) = 0 /\ Gone(NewIndex(0)) = 0
    BY FullAndEmpty
  <2> QED BY <2>1, <2>2 DEF Contract!Init, Left, Gone
<1>2. ASSUME Inductive, Inductive', [Next]_vars, Advance PROVE Contract!Next
  <2>1. \A c \in Causes : left[c] = Left(ledger[c]) /\ charged[c] = Gone(ledger[c])
                          /\ left'[c] = Left(ledger[c])' /\ charged'[c] = Gone(ledger[c])'
                          /\ phase[c] = Phase(c) /\ phase'[c] = Phase(c)'
    BY DEF Left, Gone
  <2>2. \A c \in Causes : Left(ledger[c]) \in 0 .. Budget /\ Gone(ledger[c]) \in 0 .. Budget
    BY <1>2, AmountsFit
  <2>3. \A c \in Causes : Left(ledger[c])' \in 0 .. Budget /\ Gone(ledger[c])' \in 0 .. Budget
    <3>1. ASSUME NEW c \in Causes
          PROVE  Left(ledger'[c]) \in 0 .. Budget /\ Gone(ledger'[c]) \in 0 .. Budget
      <4>1. LedgerOK(ledger'[c], Budget) \/ LedgerOK(ledger'[c], 0)
        BY <1>2 DEF Inductive, TypeOK
      <4>2. Budget \in Nat
        BY InvocationAssumption
      <4>3. CASE LedgerOK(ledger'[c], Budget)
        BY <4>2, <4>3, Amounts
      <4>4. CASE LedgerOK(ledger'[c], 0)
        BY <4>2, <4>4, Amounts
      <4> QED BY <4>1, <4>3, <4>4
    <3> QED BY <3>1 DEF Left, Gone, InState
  <2>4. phase' \in [Causes -> {"none", "active", "closing", "ended"}]
    <3>1. \A c \in Causes : lifecycle'[c].state \in {"NONE", "ACTIVE", "CLOSING", "CLOSED"}
      BY <1>2 DEF Inductive, TypeOK
    <3>2. \A c \in Causes : Phase(c)' \in {"none", "active", "closing", "ended"}
      BY <3>1 DEF Phase
    <3> QED BY <3>2
  <2>5. left' \in [Causes -> 0 .. Budget] /\ charged' \in [Causes -> 0 .. Budget]
    BY <2>3 DEF Left, Gone
  <2>6. ASSUME NEW c \in Causes
        PROVE  Contract!Granted(c) \/ Contract!Charged(c) \/ Contract!GivenUp(c)
               \/ Contract!Ended(c) \/ Contract!Idle(c)
    <3>1. Deed(c)
      BY <1>2, Deeds
    <3>2. LET l == Left(ledger[c])  g == Gone(ledger[c])
          IN \/ Phase(c) = "none" /\ Phase(c)' = "active" /\ l' = Budget /\ g' = 0
             \/ /\ Phase(c) = "active" /\ Phase(c)' = "active"
                /\ l' \in 0 .. l /\ g' \in g .. g + (l - l')
             \/ /\ Phase(c) \in {"active", "closing"} /\ Phase(c)' \in {Phase(c), "closing"}
                /\ l' \in 0 .. l /\ g' = g
             \/ /\ Phase(c) \in {"active", "closing"} /\ Phase(c)' = "ended"
                /\ l' = 0 /\ g' = g
             \/ Phase(c)' = Phase(c) /\ l' = l /\ g' = g
      BY <1>2, <3>1, DeedKeepsAllowance
    <3> HIDE DEF phase, left, charged
    <3>3. \/ phase[c] = "none" /\ phase'[c] = "active" /\ left'[c] = Budget /\ charged'[c] = 0
          \/ /\ phase[c] = "active" /\ phase'[c] = "active"
             /\ left'[c] \in 0 .. left[c]
             /\ charged'[c] \in charged[c] .. charged[c] + (left[c] - left'[c])
          \/ /\ phase[c] \in {"active", "closing"} /\ phase'[c] \in {phase[c], "closing"}
             /\ left'[c] \in 0 .. left[c] /\ charged'[c] = charged[c]
          \/ /\ phase[c] \in {"active", "closing"} /\ phase'[c] = "ended"
             /\ left'[c] = 0 /\ charged'[c] = charged[c]
          \/ phase'[c] = phase[c] /\ left'[c] = left[c] /\ charged'[c] = charged[c]
      BY <2>1, <3>2
    <3> QED BY <3>3 DEF Contract!Granted, Contract!Charged, Contract!GivenUp, Contract!Ended,
                        Contract!Idle, phase, left, charged
  <2> QED BY <2>4, <2>5, <2>6 DEF Contract!Next
<1>3. Inductive /\ [Next]_vars => Inductive' /\ Advance
  BY NextInductive, StutterInductive
<1>4. Inductive /\ [Next]_vars => [Contract!Next]_(Contract!vars)
  BY <1>2, <1>3
<1> QED BY <1>1, <1>4, AlwaysInductive, PTL DEF Spec, KeepsAllowance, Contract!Spec
=============================================================================
