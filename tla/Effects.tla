------------------------------- MODULE Effects -------------------------------
(***************************************************************************)
(* The commit gate of cognition/effects.py for one invocation: an effect   *)
(* is reserved, and then authorized, charged and committed by one call in  *)
(* two phases.  The first looks for an earlier commit without the Core     *)
(* barrier; it lets go of every barrier, and the second takes them again   *)
(* with the Core, looks once more, revalidates everything and publishes by *)
(* consecutive assignments that an exception takes back.                   *)
(*                                                                         *)
(* An effect is a name; its target and payload are data.  What a commit is *)
(* identified by is the effect, the environment and the revision it was    *)
(* prepared in, and the snapshot it is bound to.  Callers may present any  *)
(* such identity with any charge: everything they hold is data.            *)
(*                                                                         *)
(* A runtime with a reasoning policy commits PUBLISH effects only, whose   *)
(* commit also replaces the arena snapshot; the work result it must match  *)
(* is modelled in Work.tla and presented here by the caller.               *)
(***************************************************************************)
EXTENDS Ledger

CONSTANTS Threads,    \* callers of authorize_charge_and_commit
          Effects,    \* canonical effects, target and payload included
          KindOf,     \* the operation of each
          Budget,     \* units of the invocation
          MaxCommits, \* EffectPolicy.max_commits_per_owner
          MaxRounds,  \* CIEPolicy.max_rounds
          MaxEpochs,  \* CIEPolicy.max_cies
          MaxTicks,   \* bound on the Core transitions
          None

Mechanical == {"AUDIT_ONLY", "CIE_AUDIT_ONLY"}
Publishing == {"PUBLISH", "PUBLISH_TERMINAL"}

ASSUME EffectsAssumption ==
  /\ KindOf \in [Effects -> Mechanical \cup Publishing]
  /\ Mechanical \cup Publishing \subseteq WorkClasses
  /\ Budget \in Nat /\ MaxCommits \in Nat /\ MaxRounds \in Nat
  /\ MaxEpochs \in Nat /\ MaxTicks \in Nat

VARIABLES tick,        \* version of the Core that an environment binding names
          reasoning,   \* whether a reasoning policy was given at bootstrap
          retired,     \* the effect runtime was collected
          lifecycle,   \* of the invocation, with its revision
          ledger,      \* its _Budget.index
          cie,         \* its current or last epoch
          child,       \* invocation.cie_child names that epoch
          owner,       \* invocation.effect_owner: "none", "open" or "closed"
          index,       \* _Owner.index: the charge of every committed identity
          call,        \* where each thread is in authorize_charge_and_commit
          publication, \* the assignments under way, if any
          answered     \* history: the commits that were returned to a caller

published == <<ledger, cie, child, owner, index>>
world     == <<tick, reasoning, retired, lifecycle>>
vars      == <<world, published, call, publication, answered>>

Enabled == {e \in Effects : KindOf[e] \in IF reasoning THEN Publishing ELSE Mechanical}
NeedsCie(e) == KindOf[e] # "AUDIT_ONLY"

SnapshotBindings == [number : 1 .. MaxEpochs, round : 0 .. MaxRounds]

(* EffectCommitID: the effect and the context it was frozen in.            *)
Identity(e, env, rev, s) ==
  [effect |-> e, env |-> env, revision |-> rev, snapshot |-> IF NeedsCie(e) THEN s ELSE None]

Identities ==
  {Identity(e, env, rev, s) : e \in Enabled, env \in 0 .. tick,
                              rev \in 0 .. lifecycle.revision, s \in SnapshotBindings}

Resting == [at |-> "idle", id |-> None, reservation |-> 0, unit |-> 0]
Quiet   == \A t \in Threads : call[t].at # "publishing"

Init ==
  /\ tick = 0 /\ retired = FALSE
  /\ reasoning \in BOOLEAN
  /\ lifecycle = [state |-> "ACTIVE", revision |-> 0]
  /\ ledger = NewIndex(Budget)
  /\ cie = [open |-> FALSE, number |-> 0, round |-> 0, env |-> 0]
  /\ child = FALSE
  /\ owner = "none" /\ index = <<>>
  /\ call = [t \in Threads |-> Resting]
  /\ publication = None
  /\ answered = {}

-----------------------------------------------------------------------------
(* current, require_environment.                                           *)
Current(id)     == lifecycle = [state |-> "ACTIVE", revision |-> id.revision]
Environment(id) == id.env = tick

EndEpoch == cie' = [cie EXCEPT !.open = FALSE] /\ child' = FALSE

(* pinned_cie_work: an epoch of an older environment ends when it is found;*)
(* one of another snapshot only refuses.                                   *)
EpochIsStale(id)   == NeedsCie(id.effect) /\ cie.open /\ cie.env # tick
SnapshotIsLive(id) ==
  NeedsCie(id.effect) =>
    cie.open /\ cie.env = tick /\ id.snapshot = [number |-> cie.number, round |-> cie.round]

(* require_charge: the record of the charge, whatever its state.           *)
IsCharge(id, q, i) ==
  /\ q \in DOMAIN ledger.records /\ i \in ledger.records[q].units
  /\ ledger.records[q].work = KindOf[id.effect]
  /\ ledger.units[i].reservation = Issued(q)

-----------------------------------------------------------------------------
(* What happens around the gate.                                           *)
Advance ==
  /\ Quiet /\ tick < MaxTicks
  /\ tick' = tick + 1
  /\ UNCHANGED <<reasoning, retired, lifecycle, published, call, publication, answered>>

OpenEpoch ==
  /\ Quiet /\ lifecycle.state = "ACTIVE" /\ ~child /\ cie.number < MaxEpochs
  /\ cie' = [open |-> TRUE, number |-> cie.number + 1, round |-> 0, env |-> tick]
  /\ child' = TRUE
  /\ UNCHANGED <<world, ledger, owner, index, call, publication, answered>>

(* abort, or its handle was collected.                                     *)
FinishEpoch ==
  /\ Quiet /\ cie.open
  /\ EndEpoch
  /\ UNCHANGED <<world, ledger, owner, index, call, publication, answered>>

(* begin_close: the epoch, then the effect owner.                          *)
BeginClose ==
  /\ Quiet /\ lifecycle.state = "ACTIVE"
  /\ lifecycle' = [state |-> "CLOSING", revision |-> lifecycle.revision + 1]
  /\ EndEpoch
  /\ owner' = IF owner = "open" THEN "closed" ELSE owner
  /\ UNCHANGED <<tick, reasoning, retired, ledger, index, call, publication, answered>>

(* The ledger's owner may retire a reservation, or all of them.            *)
RetireReservation(q) ==
  /\ Quiet /\ q \in DOMAIN ledger.records
  /\ ledger' = RetireReserved(ledger, {q})
  /\ UNCHANGED <<world, cie, child, owner, index, call, publication, answered>>

RetireUnusedUnits ==
  /\ Quiet
  /\ ledger' = RetireUnused(ledger, lifecycle.revision)
  /\ UNCHANGED <<world, cie, child, owner, index, call, publication, answered>>

(* discard, the finalizer of the runtime: a call pins its handle.          *)
Collect ==
  /\ ~retired /\ \A t \in Threads : call[t] = Resting
  /\ retired' = TRUE
  /\ owner' = IF owner = "none" THEN "none" ELSE "closed"
  /\ index' = <<>>
  /\ UNCHANGED <<tick, reasoning, lifecycle, ledger, cie, child, call, publication, answered>>

(* EffectRuntime.reserve, of an effect frozen in the present environment.  *)
ReserveEffect(id) ==
  /\ Quiet /\ ~retired
  /\ Current(id) /\ Environment(id)
  /\ IF EpochIsStale(id) THEN EndEpoch /\ UNCHANGED ledger
     ELSE /\ SnapshotIsLive(id) /\ CanReserve(ledger, 1)
          /\ ledger' = Reserve(ledger, 1, KindOf[id.effect])
          /\ UNCHANGED <<cie, child>>
  /\ UNCHANGED <<world, owner, index, call, publication, answered>>

-----------------------------------------------------------------------------
(* authorize_charge_and_commit.                                            *)
Return(t, id, unit) ==
  /\ call' = [call EXCEPT ![t] = Resting]
  /\ answered' = answered \cup {[id |-> id, unit |-> unit]}

Refuse(t) == call' = [call EXCEPT ![t] = Resting] /\ UNCHANGED answered

(* The historical lookup, which needs neither the Core nor the epoch, and  *)
(* no authority either: a commit of a closed invocation is still found.    *)
Lookup(t, id, q, i) ==
  /\ Quiet /\ ~retired
  /\ call[t] = Resting
  /\ IsCharge(id, q, i)
  /\ \/ id \in DOMAIN index /\ Return(t, id, index[id])
     \/ /\ id \notin DOMAIN index /\ Current(id)
        /\ call' = [call EXCEPT ![t] = [at |-> "between", id |-> id, reservation |-> q, unit |-> i]]
        /\ UNCHANGED answered
  /\ UNCHANGED <<world, published, publication>>

(* Fault: the registry takes one commit too many.                          *)
HasRoomForOneMore == Cardinality(DOMAIN index) <= MaxCommits /\ Cardinality(DOMAIN index) < Budget

HasRoom == Cardinality(DOMAIN index) < MaxCommits /\ Cardinality(DOMAIN index) < Budget

(* Fault: what the first phase found is not looked at again.               *)
PermittedOnce(id) == owner # "closed" /\ HasRoom

(* The final checks.                                                       *)
Permitted(id) ==
  /\ Current(id) /\ Environment(id) /\ SnapshotIsLive(id)
  /\ KindOf[id.effect] \in Publishing => cie.round < MaxRounds
  /\ owner # "closed" /\ HasRoom

(* The pointers that replace the published ones, all of them built before. *)
Prospective(id, unit) ==
  [ledger |-> Consume(ledger, unit),
   owner  |-> "open",
   cie    |-> CASE KindOf[id.effect] = "PUBLISH" -> [cie EXCEPT !.round = @ + 1]
                [] KindOf[id.effect] = "PUBLISH_TERMINAL" -> [cie EXCEPT !.open = FALSE]
                [] KindOf[id.effect] \in Mechanical -> cie,
   child  |-> child /\ KindOf[id.effect] # "PUBLISH_TERMINAL",
   index  |-> [x \in DOMAIN index \cup {id} |-> IF x = id THEN unit ELSE index[x]]]

Present == [ledger |-> ledger, owner |-> owner, cie |-> cie, child |-> child, index |-> index]

(* Fault: the second phase does not look for an earlier commit.            *)
FoundNever(id) == FALSE

Found(id) == id \in DOMAIN index

(* The second phase, up to the last check before the publication.          *)
Decide(t) ==
  /\ Quiet /\ call[t].at = "between"
  /\ LET id      == call[t].id
         stale   == Current(id) /\ Environment(id) /\ EpochIsStale(id)
         granted == /\ Permitted(id)
                    /\ CanConsume(ledger, call[t].reservation, call[t].unit, KindOf[id.effect])
     IN \/ /\ Found(id)
           /\ Return(t, id, index[id])
           /\ UNCHANGED <<cie, child, publication>>
        \/ /\ ~Found(id) /\ stale
           /\ EndEpoch /\ Refuse(t)
           /\ UNCHANGED publication
        \/ /\ ~Found(id) /\ ~stale /\ granted
           /\ call' = [call EXCEPT ![t].at = "publishing"]
           /\ publication' = [plan |-> Prospective(id, call[t].unit), old |-> Present, done |-> 0]
           /\ UNCHANGED <<cie, child, answered>>
        \/ /\ ~Found(id) /\ ~stale /\ ~granted
           /\ Refuse(t)
           /\ UNCHANGED <<cie, child, publication>>
  /\ UNCHANGED <<world, ledger, owner, index>>

(* Consecutive assignments, under every barrier: the budget, the owner,    *)
(* the arena snapshot, its epoch's place in the invocation, and last the   *)
(* owner's index, "the exact logical commit".                              *)
Assignments == <<"ledger", "owner", "cie", "child", "index">>

Assign(t) ==
  /\ call[t].at = "publishing" /\ publication.done < Len(Assignments)
  /\ LET next == Assignments[publication.done + 1]  plan == publication.plan
     IN /\ ledger' = IF next = "ledger" THEN plan.ledger ELSE ledger
        /\ owner'  = IF next = "owner"  THEN plan.owner  ELSE owner
        /\ cie'    = IF next = "cie"    THEN plan.cie    ELSE cie
        /\ child'  = IF next = "child"  THEN plan.child  ELSE child
        /\ index'  = IF next = "index"  THEN plan.index  ELSE index
  /\ publication' = [publication EXCEPT !.done = @ + 1]
  /\ UNCHANGED <<world, call, answered>>

(* Fault: the handler does not take the charge back.                       *)
RestoredButTheCharge ==
  /\ UNCHANGED ledger
  /\ owner' = publication.old.owner /\ cie' = publication.old.cie
  /\ child' = publication.old.child /\ index' = publication.old.index

(* Fault: the handler does not take the arena snapshot back.               *)
RestoredButTheEpoch ==
  /\ UNCHANGED <<cie, child>>
  /\ ledger' = publication.old.ledger
  /\ owner' = publication.old.owner /\ index' = publication.old.index

Restored ==
  /\ ledger' = publication.old.ledger /\ owner' = publication.old.owner
  /\ cie' = publication.old.cie /\ child' = publication.old.child
  /\ index' = publication.old.index

(* "injected/asynchronous interruption between prebuilt pointer swaps".    *)
Interrupt(t) ==
  /\ call[t].at = "publishing"
  /\ Restored
  /\ publication' = None
  /\ Refuse(t)
  /\ UNCHANGED world

(* The call returns, or is interrupted on its way out and answers nothing. *)
Leave(t) ==
  /\ call[t].at = "publishing" /\ publication.done = Len(Assignments)
  /\ publication' = None
  /\ Return(t, call[t].id, call[t].unit) \/ Refuse(t)
  /\ UNCHANGED <<world, published>>

Commit(t) ==
  \/ \E id \in Identities, q \in DOMAIN ledger.records :
       \E i \in ledger.records[q].units : Lookup(t, id, q, i)
  \/ Decide(t) \/ Assign(t) \/ Interrupt(t) \/ Leave(t)

Around ==
  \/ Advance \/ OpenEpoch \/ FinishEpoch \/ BeginClose \/ Collect
  \/ RetireUnusedUnits
  \/ \E q \in DOMAIN ledger.records : RetireReservation(q)
  \/ \E id \in Identities : ReserveEffect(id)

Next == Around \/ \E t \in Threads : Commit(t)

Spec == Init /\ [][Next]_vars

-----------------------------------------------------------------------------
(* What a reader sees: every reader is excluded while assignments are made.*)
Visible == IF Quiet THEN Present ELSE publication.old

AllIdentities ==
  [effect : Effects, env : 0 .. MaxTicks, revision : 0 .. 1, snapshot : SnapshotBindings \cup {None}]

(* Charge and commit are one: each commit has a CONSUMED unit of its own,  *)
(* and no unit is consumed without its commit, whoever raced, retired the  *)
(* reservation or interrupted the publication.  "Duplicate receipts for    *)
(* one logical effect are idempotently recognized" (03_COGNITION.md 3234): *)
(* two answers for one effect are the same commit, and the one on record;  *)
(* a retry, a racing duplicate and a caller whose answer was lost agree.   *)
(* Nor do calls that race for the last place overfill the registry.        *)
ChargedExactlyOnce ==
  /\ LedgerOK(ledger, Budget) /\ Owns(ledger)
  /\ Cardinality(DOMAIN index) <= MaxCommits
  /\ \A a, b \in answered : a.id = b.id => a.unit = b.unit
  /\ ~retired =>
       LET commits == Visible.index  spent == InState(Visible.ledger, "CONSUMED")
       IN /\ {commits[id] : id \in DOMAIN commits} = spent
          /\ Cardinality(DOMAIN commits) = Cardinality(spent)
          /\ \A a \in answered : a.id \in DOMAIN commits /\ commits[a.id] = a.unit

(* The arena is extended by commits alone and each round once: the round   *)
(* of an epoch counts its committed publications, no two of them have the  *)
(* same snapshot, and the invocation names the epoch exactly while it is   *)
(* open, through interrupted publications and terminal ones.               *)
RoundsAreCommits ==
  LET commits == DOMAIN Visible.index
      rounds  == {id \in commits : KindOf[id.effect] \in Publishing}
      now     == Visible.cie
  IN /\ Visible.child <=> now.open
     /\ \A x, y \in rounds : x.snapshot = y.snapshot => x = y
     /\ ~retired => now.round = Cardinality({id \in rounds : /\ KindOf[id.effect] = "PUBLISH"
                                                            /\ id.snapshot.number = now.number})

(* An effect is committed only in the context it was prepared in, although *)
(* most of it was checked before the barriers were let go: the invocation  *)
(* is ACTIVE at its revision, the Core is at its environment, and its      *)
(* snapshot is the latest of an open epoch of that environment.            *)
CommittedInContext ==
  [][\A id \in DOMAIN index' \ DOMAIN index :
       /\ lifecycle = [state |-> "ACTIVE", revision |-> id.revision]
       /\ id.env = tick
       /\ NeedsCie(id.effect) =>
            LET before == Visible.cie
            IN /\ before.open /\ before.env = tick
               /\ id.snapshot = [number |-> before.number, round |-> before.round]]_vars

(* The gate is exactly-once.  An effect is committed when its publication  *)
(* can be seen.                                                            *)
Gate == INSTANCE ExactlyOnce WITH
          Effects <- AllIdentities, Charges <- 0 .. Budget - 1,
          open    <- lifecycle.state = "ACTIVE" /\ ~retired,
          commits <- Visible.index,
          charged <- InState(Visible.ledger, "CONSUMED")

(* Every behaviour of the gate is one of ExactlyOnce: no step commits an   *)
(* effect twice, charges one without the other, or commits after a close.  *)
CommitsExactlyOnce == Gate!Spec
=============================================================================
