----------------------------- MODULE Invocation -----------------------------
(***************************************************************************)
(* The invocation runtimes of cognition/invocation.py: admission of a      *)
(* cause, its non-renewable budget ledger, its children (one CIE epoch,    *)
(* causal studies, delegated forecasts), the two-phase close and the       *)
(* finalizer that runs when a runtime is collected.                        *)
(*                                                                         *)
(* Every operation of the code runs under the lifecycle barrier (and the   *)
(* ledger's lock below it) from its first check to its last assignment, so *)
(* each is one atomic action.  A refused operation changes nothing and is  *)
(* a stuttering step.  Callers pass any revision, current or stale.        *)
(***************************************************************************)
EXTENDS Ledger

CONSTANTS Runtimes,     \* Unit-2 runtime identities an invocation runtime is made for
          Causes,       \* genuine occurrences of the ingress
          RuntimeOf,    \* the runtime whose ingress issued a cause
          MaxRuntimes,  \* max_runtimes: 64 in the code
          CauseCapacity,\* InvocationLimits.cause_capacity
          Budget,       \* InvocationLimits.initial_budget
          Work,         \* work classes a dispatcher reserves
          MaxEpochs,    \* CIELimits.max_cies
          MaxHorizon,   \* bound on a forecast's horizon: 64 in the code
          Studies,      \* causal study plans
          Frontier      \* the work classes each plan freezes

ASSUME InvocationAssumption ==
  /\ RuntimeOf \in [Causes -> Runtimes]
  /\ IsFiniteSet(Studies)
  /\ MaxRuntimes \in Nat /\ CauseCapacity \in Nat \ {0} /\ MaxEpochs \in Nat
  /\ Budget \in Nat /\ MaxHorizon \in Nat
  /\ Work \cup {"OPEN_STUDY", "ForecastEscrowReservation"} \subseteq WorkClasses
  /\ \A s \in Studies : Frontier[s] \in Seq(WorkClasses) /\ Len(Frontier[s]) > 0

VARIABLES runtime,   \* "unused", "live" or "retired" for each runtime identity
          causes,    \* the keys of every _Domain.causes
          lifecycle, \* _Invocation.lifecycle, or NotAdmitted
          ledger,    \* _Budget.index
          children,  \* nondelegated_children
          epoch,     \* whether cie_child is set
          epochs,    \* cie_sequence
          study      \* the studies in effect_owner.causal_children, and their tombstones

vars == <<runtime, causes, lifecycle, ledger, children, epoch, epochs, study>>

NotAdmitted == [state |-> "NONE", revision |-> 0]
NoStudy     == [state |-> "NONE", base |-> 0]

(* A handle of c reaches its item: the runtime is live and indexes it.     *)
Live(c) == runtime[RuntimeOf[c]] = "live" /\ c \in causes

(* c was admitted at some time.  The item of a collected runtime is no     *)
(* longer indexed; the model keeps it to say what became of it.            *)
Admitted(c) == lifecycle[c].state # "NONE"

(* Fault: the revision is compared and the state forgotten.                *)
CurrentInAnyState(c, rev, active) == Live(c) /\ rev = lifecycle[c].revision

(* current(item, revision, active): the caller's revision is the item's.   *)
Current(c, rev, active) ==
  /\ Live(c)
  /\ rev = lifecycle[c].revision
  /\ lifecycle[c].state # "CLOSED"
  /\ active => lifecycle[c].state = "ACTIVE"

Revisions == 0 .. 2

OpenIn(studies) == {s \in Studies : studies[s].state = "OPEN"}

(* The reservations of a study's escrow: one per frontier work class.      *)
Escrow(opened, s) == opened.base .. opened.base + Len(Frontier[s]) - 1

Init ==
  /\ runtime = [r \in Runtimes |-> "unused"]
  /\ causes = {}
  /\ lifecycle = [c \in Causes |-> NotAdmitted]
  /\ ledger = [c \in Causes |-> NewIndex(0)]
  /\ children = [c \in Causes |-> 0]
  /\ epoch = [c \in Causes |-> FALSE]
  /\ epochs = [c \in Causes |-> 0]
  /\ study = [c \in Causes |-> [s \in Studies |-> NoStudy]]

-----------------------------------------------------------------------------
(* create_invocation_runtime: a runtime identity is used once, for ever.   *)
CreateRuntime(r) ==
  /\ runtime[r] = "unused"
  /\ Cardinality({q \in Runtimes : runtime[q] # "unused"}) < MaxRuntimes
  /\ runtime' = [runtime EXCEPT ![r] = "live"]
  /\ UNCHANGED <<causes, lifecycle, ledger, children, epoch, epochs, study>>

(* admit: a cause in the index gets its original handle back, whatever has *)
(* become of it, so only an unseen cause changes the state.                *)
Admit(c) ==
  /\ runtime[RuntimeOf[c]] = "live"
  /\ c \notin causes
  /\ Cardinality({d \in causes : RuntimeOf[d] = RuntimeOf[c]}) < CauseCapacity
  /\ causes' = causes \cup {c}
  /\ lifecycle' = [lifecycle EXCEPT ![c] = [state |-> "ACTIVE", revision |-> 0]]
  /\ ledger' = [ledger EXCEPT ![c] = NewIndex(Budget)]
  /\ children' = [children EXCEPT ![c] = 0]
  /\ epoch' = [epoch EXCEPT ![c] = FALSE]
  /\ epochs' = [epochs EXCEPT ![c] = 0]
  /\ study' = [study EXCEPT ![c] = [s \in Studies |-> NoStudy]]
  /\ UNCHANGED runtime

Publish(c, index) ==
  /\ ledger' = [ledger EXCEPT ![c] = index]
  /\ UNCHANGED <<runtime, causes, lifecycle, children, epoch, epochs, study>>

ReserveUnits(c, rev, n, w) ==
  /\ Current(c, rev, TRUE)
  /\ CanReserve(ledger[c], n)
  /\ Publish(c, Reserve(ledger[c], n, w))

(* Reservations of a study or a forecast never leave trusted dispatch: a   *)
(* caller holds only tokens of its own work classes.                       *)
CallerHolds(c, q) == q \in DOMAIN ledger[c].records /\ ledger[c].records[q].work \in Work

ConsumeUnit(c, rev, q, i, w) ==
  /\ Current(c, rev, TRUE)
  /\ CallerHolds(c, q)
  /\ CanConsume(ledger[c], q, i, w)
  /\ Publish(c, Consume(ledger[c], i))

RetireReservation(c, rev, q) ==
  /\ Current(c, rev, FALSE)
  /\ CallerHolds(c, q)
  /\ ReservedIn(ledger[c], {q}) # {}
  /\ Publish(c, RetireReserved(ledger[c], {q}))

(* retire_unused spares nothing: an open study's escrow goes with the rest.*)
RetireUnusedUnits(c, rev) ==
  /\ Current(c, rev, FALSE)
  /\ Publish(c, RetireUnused(ledger[c], rev))

(* The parent side of a forecast seal: 2H units leave in one publication.  *)
DelegateForecast(c, rev, h) ==
  /\ Current(c, rev, TRUE)
  /\ h \in 1 .. MaxHorizon
  /\ CanReserve(ledger[c], 2 * h)
  /\ Publish(c, Delegate(ledger[c], h, "ForecastEscrowReservation"))

-----------------------------------------------------------------------------
(* Children.  CIE open and finish, as they touch the invocation.           *)
OpenEpoch(c, rev) ==
  /\ Current(c, rev, TRUE)
  /\ ~epoch[c]
  /\ epochs[c] < MaxEpochs
  /\ epoch' = [epoch EXCEPT ![c] = TRUE]
  /\ epochs' = [epochs EXCEPT ![c] = @ + 1]
  /\ children' = [children EXCEPT ![c] = @ + 1]
  /\ UNCHANGED <<runtime, causes, lifecycle, ledger, study>>

(* Fault: an epoch that a close has finished is finished again.            *)
FinishEpochTwice(c) ==
  /\ epochs[c] > 0
  /\ epoch' = [epoch EXCEPT ![c] = FALSE]
  /\ children' = [children EXCEPT ![c] = @ - 1]
  /\ UNCHANGED <<runtime, causes, lifecycle, ledger, epochs, study>>

FinishEpoch(c) ==
  /\ epoch[c]
  /\ epoch' = [epoch EXCEPT ![c] = FALSE]
  /\ children' = [children EXCEPT ![c] = @ - 1]
  /\ UNCHANGED <<runtime, causes, lifecycle, ledger, epochs, study>>

(* open_study: the opening charge is reserved and consumed and the whole   *)
(* frontier is reserved after it, published as one index.                  *)
Opened(L) == Take(L, 1, "OPEN_STUDY", "CONSUMED")

OpenStudy(c, rev, s) ==
  /\ Current(c, rev, TRUE)
  /\ study[c][s].state = "NONE"
  /\ CanReserve(ledger[c], 1)
  /\ CanReserve(Opened(ledger[c]), Len(Frontier[s]))
  /\ ledger' = [ledger EXCEPT ![c] = ReserveEach(Opened(ledger[c]), Frontier[s])]
  /\ study' = [study EXCEPT ![c][s] = [state |-> "OPEN", base |-> ledger[c].sequence + 1]]
  /\ children' = [children EXCEPT ![c] = @ + 1]
  /\ UNCHANGED <<runtime, causes, lifecycle, epoch, epochs>>

(* prepare_causal_consumption: the token of this work class, its one unit. *)
ChargeStudy(c, rev, s, k) ==
  /\ Current(c, rev, TRUE)
  /\ study[c][s].state = "OPEN"
  /\ LET q == study[c][s].base + k - 1
     IN \E i \in ledger[c].records[q].units :
          /\ CanConsume(ledger[c], q, i, Frontier[s][k])
          /\ Publish(c, Consume(ledger[c], i))

(* Fault: the study ends and its escrow stays reserved.                    *)
WithEscrowLeft(c, ss) == ledger[c]

(* What reduce leaves of the ledger when the given studies end.            *)
WithoutEscrow(c, ss) == RetireReserved(ledger[c], UNION {Escrow(study[c][s], s) : s \in ss})

Ended(c, ss) == [s \in Studies |->
  IF s \in ss THEN [state |-> "ENDED", base |-> study[c][s].base] ELSE study[c][s]]

(* abort_study, and finish_replay_study after its last charge.             *)
EndStudy(c, rev, s) ==
  /\ Current(c, rev, TRUE)
  /\ study[c][s].state = "OPEN"
  /\ ledger' = [ledger EXCEPT ![c] = WithoutEscrow(c, {s})]
  /\ study' = [study EXCEPT ![c] = Ended(c, {s})]
  /\ children' = [children EXCEPT ![c] = @ - 1]
  /\ UNCHANGED <<runtime, causes, lifecycle, epoch, epochs>>

-----------------------------------------------------------------------------
(* Faults: a close that does not count the studies, or the epoch, it ends. *)
StudiesStillCounted(c) == children[c] - (IF epoch[c] THEN 1 ELSE 0)
EpochStillCounted(c)   == children[c] - Cardinality(OpenIn(study[c]))

(* What the parent_close of every child leaves to count.                   *)
ChildrenAfterClose(c) ==
  children[c] - (IF epoch[c] THEN 1 ELSE 0) - Cardinality(OpenIn(study[c]))

(* begin_close: CLOSING is assigned first, then each child owner is closed *)
(* in the same critical section.  A second call only returns the view.     *)
BeginClose(c, rev) ==
  /\ Current(c, rev, FALSE)
  /\ lifecycle[c].state = "ACTIVE"
  /\ lifecycle' = [lifecycle EXCEPT ![c] = [state |-> "CLOSING", revision |-> rev + 1]]
  /\ children' = [children EXCEPT ![c] = ChildrenAfterClose(c)]
  /\ epoch' = [epoch EXCEPT ![c] = FALSE]
  /\ ledger' = [ledger EXCEPT ![c] = WithoutEscrow(c, OpenIn(study[c]))]
  /\ study' = [study EXCEPT ![c] = Ended(c, OpenIn(study[c]))]
  /\ UNCHANGED <<runtime, causes, epochs>>

(* Fault: only the units nobody reserved have to be gone.                  *)
FinalizeCloseEarly(c, rev) ==
  /\ Current(c, rev, FALSE)
  /\ lifecycle[c].state = "CLOSING"
  /\ children[c] = 0
  /\ InState(ledger[c], "AVAILABLE") = {}
  /\ lifecycle' = [lifecycle EXCEPT ![c] = [state |-> "CLOSED", revision |-> rev + 1]]
  /\ UNCHANGED <<runtime, causes, ledger, children, epoch, epochs, study>>

(* finalize_close, when it returns True.                                   *)
FinalizeClose(c, rev) ==
  /\ Current(c, rev, FALSE)
  /\ lifecycle[c].state = "CLOSING"
  /\ children[c] = 0
  /\ Drained(ledger[c])
  /\ lifecycle' = [lifecycle EXCEPT ![c] = [state |-> "CLOSED", revision |-> rev + 1]]
  /\ UNCHANGED <<runtime, causes, ledger, children, epoch, epochs, study>>

(* Fault: the finalizer marks its invocations CLOSED and drains nothing.   *)
CollectUndrained(r) ==
  LET mine == {c \in Causes : RuntimeOf[c] = r /\ Admitted(c)}
  IN /\ runtime[r] = "live"
     /\ runtime' = [runtime EXCEPT ![r] = "retired"]
     /\ causes' = causes \ mine
     /\ lifecycle' = [c \in Causes |->
          IF c \in mine THEN [state |-> "CLOSED", revision |-> 2] ELSE lifecycle[c]]
     /\ UNCHANGED <<ledger, children, epoch, epochs, study>>

(* discard, the finalizer of a collected runtime: every invocation that is *)
(* not CLOSED is driven through CLOSING to CLOSED.  Operations pin their   *)
(* runtime, so none is in flight.  The items stay as a record of the end.  *)
CollectRuntime(r) ==
  LET mine   == {c \in Causes : RuntimeOf[c] = r}
      ending == {c \in mine : lifecycle[c].state \in {"ACTIVE", "CLOSING"}}
      closing(c) == IF lifecycle[c].state = "ACTIVE"
                    THEN lifecycle[c].revision + 1 ELSE lifecycle[c].revision
  IN /\ runtime[r] = "live"
     /\ runtime' = [runtime EXCEPT ![r] = "retired"]
     /\ causes' = causes \ mine
     /\ lifecycle' = [c \in Causes |->
          IF c \in ending THEN [state |-> "CLOSED", revision |-> closing(c) + 1]
          ELSE lifecycle[c]]
     /\ ledger' = [c \in Causes |->
          IF c \in ending
          THEN RetireUnused(WithoutEscrow(c, OpenIn(study[c])), closing(c))
          ELSE ledger[c]]
     /\ children' = [c \in Causes |->
          IF c \in ending THEN ChildrenAfterClose(c) ELSE children[c]]
     /\ epoch' = [c \in Causes |-> epoch[c] /\ c \notin ending]
     /\ study' = [c \in Causes |->
          IF c \in ending THEN Ended(c, OpenIn(study[c])) ELSE study[c]]
     /\ UNCHANGED epochs

-----------------------------------------------------------------------------
Step(c) ==
  \/ Admit(c)
  \/ FinishEpoch(c)
  \/ \E rev \in Revisions :
       \/ \E n \in 1 .. Budget, w \in Work : ReserveUnits(c, rev, n, w)
       \/ \E q \in DOMAIN ledger[c].records, i \in DOMAIN ledger[c].units, w \in Work :
            ConsumeUnit(c, rev, q, i, w)
       \/ \E q \in DOMAIN ledger[c].records : RetireReservation(c, rev, q)
       \/ RetireUnusedUnits(c, rev)
       \/ \E h \in 1 .. MaxHorizon : DelegateForecast(c, rev, h)
       \/ OpenEpoch(c, rev)
       \/ \E s \in Studies : OpenStudy(c, rev, s) \/ EndStudy(c, rev, s)
       \/ \E s \in Studies : \E k \in DOMAIN Frontier[s] : ChargeStudy(c, rev, s, k)
       \/ BeginClose(c, rev)
       \/ FinalizeClose(c, rev)

Next ==
  \/ \E r \in Runtimes : CreateRuntime(r) \/ CollectRuntime(r)
  \/ \E c \in Causes : Step(c)

Spec == Init /\ [][Next]_vars

(* The owner that began a close drains outside the barrier and asks again  *)
(* until finalize_close returns True (its docstring: "caller drains        *)
(* outside the barrier"); nothing else in the code is fair.                *)
Drain(c) ==
  \/ \E rev \in Revisions : lifecycle[c].state = "CLOSING" /\ RetireUnusedUnits(c, rev)
  \/ \E rev \in Revisions : FinalizeClose(c, rev)

Fairness == \A c \in Causes : WF_vars(Drain(c))

FairSpec == Spec /\ Fairness

-----------------------------------------------------------------------------
(* The ledger as the allowance it promises to be.                          *)
Phase(c) == CASE lifecycle[c].state = "NONE"    -> "none"
              [] lifecycle[c].state = "ACTIVE"  -> "active"
              [] lifecycle[c].state = "CLOSING" -> "closing"
              [] lifecycle[c].state = "CLOSED"  -> "ended"

Contract == INSTANCE Allowance WITH
  Owners  <- Causes,
  Amount  <- Budget,
  phase   <- [c \in Causes |-> Phase(c)],
  left    <- [c \in Causes |-> Cardinality(InState(ledger[c], "AVAILABLE"))
                               + Cardinality(InState(ledger[c], "RESERVED"))],
  charged <- [c \in Causes |-> Cardinality(InState(ledger[c], "CONSUMED"))
                               + Cardinality(InState(ledger[c], "DELEGATED_FORECAST_POOL"))]

(* The ledger with its reservations, children and close keeps the contract *)
(* of a non-renewable allowance: every step of the runtime charges, gives  *)
(* up or ends an allowance, or leaves it alone.                            *)
KeepsAllowance == Contract!Spec

-----------------------------------------------------------------------------
(* Types: every ledger index has the units of its budget and a record for  *)
(* each number issued, and the counter of children never goes below zero.  *)
TypeOK ==
  /\ runtime \in [Runtimes -> {"unused", "live", "retired"}]
  /\ causes \subseteq Causes
  /\ lifecycle \in [Causes -> [state : {"NONE", "ACTIVE", "CLOSING", "CLOSED"}, revision : 0 .. 2]]
  /\ children \in [Causes -> Nat]
  /\ epoch \in [Causes -> BOOLEAN]
  /\ epochs \in [Causes -> 0 .. MaxEpochs]
  /\ study \in [Causes -> [Studies -> [state : {"NONE", "OPEN", "ENDED"}, base : Nat]]]
  /\ DOMAIN ledger = Causes
  /\ \A c \in Causes :
       LedgerOK(ledger[c], IF Admitted(c) THEN Budget ELSE 0)

(* A unit belongs to exactly the reservation that names it.  Reservations  *)
(* of dispatchers, forecasts and studies are cut from one index by         *)
(* different code paths (invocation.py 323-343, 860-903, 959-979); were a  *)
(* unit in two records, the second owner could be charged with the first's.*)
ReservationsOwnTheirUnits ==
  \A c \in Causes : Owns(ledger[c])

(* nondelegated_children counts the open epoch and the open studies, no    *)
(* more and no less: finalize_close trusts the number alone.  Once a close *)
(* has begun nothing is left to count.                                     *)
ChildrenAreCounted ==
  \A c \in Causes :
    /\ children[c] = (IF epoch[c] THEN 1 ELSE 0) + Cardinality(OpenIn(study[c]))
    /\ lifecycle[c].state # "ACTIVE" => children[c] = 0

(* A closed invocation is empty: no charge can be made against it and no   *)
(* child holds it.  A runtime that is gone has closed everything it had.   *)
ClosedIsDrained ==
  \A c \in Causes :
    /\ lifecycle[c].state = "CLOSED" => Drained(ledger[c]) /\ children[c] = 0
    /\ runtime[RuntimeOf[c]] = "retired" => lifecycle[c].state \in {"NONE", "CLOSED"}

(* A study's escrow is a child reservation of an active invocation and     *)
(* "never survives invocation closure" (03_COGNITION.md:3328): no unit of  *)
(* a study is still RESERVED once the study has ended, and a study whose   *)
(* invocation has begun to close has ended.                                *)
EscrowEndsWithStudy ==
  \A c \in Causes, s \in Studies :
    /\ study[c][s].state = "ENDED" => ReservedIn(ledger[c], Escrow(study[c][s], s)) = {}
    /\ study[c][s].state = "OPEN" => lifecycle[c].state = "ACTIVE"

(* What makes the invariants above inductive: the revision tells the state, *)
(* a live runtime indexes exactly what it admitted, an unused one admitted *)
(* nothing, and a study's escrow lies among the reservations issued.       *)
RevisionTellsState ==
  \A c \in Causes :
    /\ lifecycle[c].state \in {"NONE", "ACTIVE"} => lifecycle[c].revision = 0
    /\ lifecycle[c].state = "CLOSING" => lifecycle[c].revision = 1
    /\ lifecycle[c].state = "CLOSED" => lifecycle[c].revision = 2

IndexedOnce ==
  \A c \in Causes :
    /\ c \in causes <=> (runtime[RuntimeOf[c]] = "live" /\ Admitted(c))
    /\ runtime[RuntimeOf[c]] = "unused" => ~Admitted(c)

EscrowIsIssued ==
  \A c \in Causes, s \in Studies :
    study[c][s].state # "NONE" => study[c][s].base + Len(Frontier[s]) <= ledger[c].sequence

Inductive ==
  /\ TypeOK /\ ReservationsOwnTheirUnits /\ ChildrenAreCounted /\ ClosedIsDrained
  /\ EscrowEndsWithStudy /\ RevisionTellsState /\ IndexedOnce /\ EscrowIsIssued

(* A unit never moves back: once it is spent, retired or delegated, or     *)
(* bound to a reservation, no later operation, readmission of the cause or *)
(* collection returns it to AVAILABLE or rebinds it.                       *)
NoRefund ==
  [][\A c \in Causes : Admitted(c) => Follows(ledger[c], ledger'[c])]_vars

Order(s) == CASE s = "NONE" -> 0 [] s = "ACTIVE" -> 1 [] s = "CLOSING" -> 2 [] s = "CLOSED" -> 3

(* After begin_close only authority-reducing steps remain: no reservation, *)
(* charge, delegation or child appears, and no lifecycle state is undone.  *)
CloseOnlyReduces ==
  [][\A c \in Causes :
       /\ Order(lifecycle'[c].state) >= Order(lifecycle[c].state)
       /\ lifecycle[c].state \in {"CLOSING", "CLOSED"} =>
            /\ ledger'[c].sequence = ledger[c].sequence
            /\ children'[c] <= children[c]
            /\ \A i \in DOMAIN ledger[c].units :
                 \/ ledger'[c].units[i] = ledger[c].units[i]
                 \/ ledger'[c].units[i].state = "RETIRED"]_vars

(* A drained close completes: whatever was reserved, delegated, charged or *)
(* open when begin_close ran, the owner's retire_unused and finalize_close *)
(* (or the runtime's finalizer) bring the invocation to CLOSED.            *)
ClosingCompletes ==
  \A c \in Causes : lifecycle[c].state = "CLOSING" ~> lifecycle[c].state = "CLOSED"
=============================================================================
