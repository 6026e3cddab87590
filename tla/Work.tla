-------------------------------- MODULE Work --------------------------------
(***************************************************************************)
(* The work permits of cognition/work.py for one invocation: a unit of the *)
(* invocation's ledger is charged, a one-shot permit is registered, a      *)
(* worker claims it, computes outside every barrier, and comes back to     *)
(* record what it found, while the epoch the work was bound to, the study  *)
(* that ordered it or the whole invocation may be closed under it.         *)
(*                                                                         *)
(* Pure and reasoning work is reserved and charged in two calls;           *)
(* projections charge and issue in one; causal work spends a unit of its   *)
(* study's escrow.  What is computed is left out: a permit either still    *)
(* holds its frozen work (held) and its result (output) or does not.  The  *)
(* binding beside the work goes with it, except where a causal permit      *)
(* failed: Fail says what that leaves.                                     *)
(* The caller's revision is current in every action (Invocation.tla has    *)
(* the stale ones), and forecast capture, which runs under the lifecycle   *)
(* barrier from its permit to its retirement, has an owner of its own.     *)
(***************************************************************************)
EXTENDS Ledger

CONSTANTS Workers,   \* threads that call WorkRuntime.execute
          Budget,    \* units of the invocation
          MaxEpochs, \* CIELimits.max_cies
          MaxRounds, \* CIELimits.max_rounds
          MaxPermits \* bound on the permits of a behaviour

ASSUME WorkAssumption ==
  /\ Budget \in Nat
  /\ {"pure", "reasoning", "projection", "causal", "publish", "admit", "OPEN_STUDY"}
       \subseteq WorkClasses

VARIABLES phase,    \* lifecycle[0] of the invocation: "ACTIVE" or "CLOSING"
          ledger,   \* _Budget.index
          epoch,    \* the open epoch: its number among cie_sequence, its round
          study,    \* one causal study and the first reservation of its escrow
          owner,    \* item.work_owner: "none", "open" or "closing"
          permits,  \* every _Permit issued, by ordinal; listed while indexed
          worker    \* what each thread is doing, and for which permit

vars == <<phase, ledger, epoch, study, owner, permits, worker>>

Dispatched == {"pure", "reasoning"}
Frontier   == <<"causal", "admit">>     \* the escrow of a study of one case
Issuable   == Dispatched \cup {"projection", "causal"}

Snapshot == [number |-> epoch.number, round |-> epoch.round]
Idle     == [at |-> "idle", permit |-> 0]

Issue(kind, unit) ==
  Append(permits, [kind |-> kind, unit |-> unit, snapshot |-> Snapshot, state |-> "ISSUED",
                   held |-> TRUE, output |-> FALSE, listed |-> TRUE])

Emptied(record) == [record EXCEPT !.state = "RETIRED", !.held = FALSE, !.output = FALSE]

(* The records a clean-up selects among those in the owner's index.        *)
Each(P, Concerned(_), Change(_)) ==
  [p \in DOMAIN P |-> IF P[p].listed /\ Concerned(P[p]) THEN Change(P[p]) ELSE P[p]]

Init ==
  /\ phase = "ACTIVE" /\ owner = "none"
  /\ ledger = NewIndex(Budget)
  /\ epoch = [open |-> FALSE, number |-> 0, round |-> 0]
  /\ study = [state |-> "none", base |-> 0]
  /\ permits = <<>>
  /\ worker = [w \in Workers |-> Idle]

-----------------------------------------------------------------------------
(* What the work owner does when an epoch, a study or the invocation ends. *)

(* Fault: like parent_close, an epoch's end leaves the running alone.      *)
EpochClosedUnderIssued(P, n) ==
  LET bound(r) == r.kind \in {"projection", "causal"} /\ r.snapshot.number = n
                  /\ r.state # "RUNNING"
  IN Each(P, bound, Emptied)

(* prediction_epoch_close, called by every finish of an epoch.  A causal   *)
(* permit whose work is gone has no binding or is retired already.         *)
EpochClosed(P, n) ==
  LET bound(r) == /\ r.kind \in {"projection", "causal"} /\ r.snapshot.number = n
                  /\ r.kind = "causal" => r.held
  IN Each(P, bound, Emptied)

(* retire_epoch: reasoning work and projections of the epoch.              *)
EpochRetired(P, n) ==
  LET bound(r) == r.held /\ r.kind \in {"reasoning", "projection"} /\ r.snapshot.number = n
  IN Each(P, bound, Emptied)

(* Fault: what was already done keeps its result.                          *)
ParentClosedKeepsResults(P) ==
  LET any(r) == r.state # "DONE"
      cleared(r) == [r EXCEPT !.state = IF @ = "ISSUED" THEN "RETIRED" ELSE @, !.held = FALSE]
  IN Each(P, any, cleared)

(* Owner.parent_close: a running worker keeps its claim and loses its data.*)
ParentClosed(P) ==
  LET any(r) == TRUE
      cleared(r) == [r EXCEPT !.state = IF @ = "ISSUED" THEN "RETIRED" ELSE @,
                              !.held = FALSE, !.output = FALSE]
  IN Each(P, any, cleared)

(* Fault: the study forgets its permits without revoking them.             *)
CausalForgotten(P) == P

(* _discard_causal_permit for every pending permit of the study.           *)
CausalDiscarded(P) ==
  LET causal(r) == r.kind = "causal"
      dropped(r) == [Emptied(r) EXCEPT !.listed = FALSE]
  IN Each(P, causal, dropped)

Escrow == {study.base, study.base + 1}

-----------------------------------------------------------------------------
(* Contexts: epochs and a study, as they touch the work owner.             *)
OpenEpoch ==
  /\ phase = "ACTIVE" /\ ~epoch.open /\ epoch.number < MaxEpochs
  /\ epoch' = [open |-> TRUE, number |-> epoch.number + 1, round |-> 0]
  /\ UNCHANGED <<phase, ledger, study, owner, permits, worker>>

(* abort, a stale environment, a lost parent, a collected handle: finish.  *)
FinishEpoch ==
  /\ epoch.open
  /\ epoch' = [epoch EXCEPT !.open = FALSE]
  /\ permits' = EpochClosed(permits, epoch.number)
  /\ UNCHANGED <<phase, ledger, study, owner, worker>>

(* The reasoning runtime cleans up after itself, whatever became of its    *)
(* epoch: it may be open still, ended, or followed by another.             *)
CleanUpEpoch(n) ==
  /\ permits' = EpochRetired(permits, n)
  /\ UNCHANGED <<phase, ledger, epoch, study, owner, worker>>

OpenStudy ==
  /\ phase = "ACTIVE" /\ study.state = "none"
  /\ CanReserve(ledger, 1)
  /\ LET opened == Take(ledger, 1, "OPEN_STUDY", "CONSUMED")
     IN /\ CanReserve(opened, Len(Frontier))
        /\ ledger' = ReserveEach(opened, Frontier)
        /\ study' = [state |-> "open", base |-> opened.sequence]
  /\ UNCHANGED <<phase, epoch, owner, permits, worker>>

EndStudy ==
  /\ phase = "ACTIVE" /\ study.state = "open"
  /\ ledger' = RetireReserved(ledger, Escrow)
  /\ study' = [study EXCEPT !.state = "ended"]
  /\ permits' = CausalDiscarded(permits)
  /\ UNCHANGED <<phase, epoch, owner, worker>>

-----------------------------------------------------------------------------
(* reserve (of work, and of the effect that publishes a round).            *)
ReserveWork(kind) ==
  /\ phase = "ACTIVE" /\ epoch.open
  /\ CanReserve(ledger, 1)
  /\ ledger' = Reserve(ledger, 1, kind)
  /\ UNCHANGED <<phase, epoch, study, owner, permits, worker>>

(* Fault: the permit is registered and the charge is not published.        *)
SpendNothing(i) == ledger

Spend(i) == Consume(ledger, i)

(* authorize_and_charge: charge, permit and owner in one publication.      *)
Authorize(q, i, kind) ==
  /\ phase = "ACTIVE" /\ epoch.open /\ owner # "closing"
  /\ Len(permits) < MaxPermits
  /\ CanConsume(ledger, q, i, kind)
  /\ ledger' = Spend(i)
  /\ permits' = Issue(kind, i)
  /\ owner' = "open"
  /\ UNCHANGED <<phase, epoch, study, worker>>

(* prediction_project: the charge stands even when retrieval then fails.   *)
Project ==
  /\ phase = "ACTIVE" /\ epoch.open /\ owner # "closing"
  /\ Len(permits) < MaxPermits
  /\ CanReserve(ledger, 1)
  /\ ledger' = Take(ledger, 1, "projection", "CONSUMED")
  /\ \E i \in Chosen(ledger, 1) : permits' \in {permits, Issue("projection", i)}
  /\ owner' = "open"
  /\ UNCHANGED <<phase, epoch, study, worker>>

(* prepare_compute and causal_prepare; a pending permit is returned again. *)
PrepareCausal(i) ==
  /\ phase = "ACTIVE" /\ epoch.open /\ study.state = "open" /\ owner # "closing"
  /\ Len(permits) < MaxPermits
  /\ CanConsume(ledger, study.base, i, "causal")
  /\ ledger' = Spend(i)
  /\ permits' = Issue("causal", i)
  /\ owner' = "open"
  /\ UNCHANGED <<phase, epoch, study, worker>>

-----------------------------------------------------------------------------
(* execute: claim under the barriers, compute outside them, come back.     *)

Claim(p) == [permits EXCEPT ![p].state = "RUNNING"]

Start(w, p) ==
  /\ worker[w].at = "idle"
  /\ permits[p].listed /\ permits[p].state = "ISSUED" /\ owner # "closing"
  /\ permits' = Claim(p)
  /\ worker' = [worker EXCEPT ![w] = [at |-> "computing", permit |-> p]]
  /\ UNCHANGED <<phase, ledger, epoch, study, owner>>

(* The work may fail.  A projection reads its record's binding again, with *)
(* no barrier: if that was cleared meanwhile, its result cannot be built.  *)
Compute(w) ==
  /\ worker[w].at = "computing"
  /\ \E outcome \in {"computed", "failed"} :
       /\ LET record == permits[worker[w].permit]
          IN record.kind = "projection" /\ ~record.held => outcome = "failed"
       /\ worker' = [worker EXCEPT ![w].at = outcome]
  /\ UNCHANGED <<phase, ledger, epoch, study, owner, permits>>

(* Fault: the result is attached whatever became of the record.            *)
AcceptedAnyway(record) == [record EXCEPT !.state = "DONE", !.output = TRUE]

(* Pure and reasoning work is DONE even when the invocation is closing; a  *)
(* projection or causal result that comes too late leaves its record alone.*)
Accepted(record) ==
  CASE record.state = "RETIRED" -> record
    [] record.state # "RETIRED" /\ owner # "closing" ->
         [record EXCEPT !.state = "DONE", !.output = TRUE]
    [] record.state # "RETIRED" /\ owner = "closing" ->
         IF record.kind \in Dispatched THEN [record EXCEPT !.state = "DONE"] ELSE record

Finish(w) ==
  /\ worker[w].at = "computed"
  /\ permits' = [permits EXCEPT ![worker[w].permit] = Accepted(@)]
  /\ worker' = [worker EXCEPT ![w] = Idle]
  /\ UNCHANGED <<phase, ledger, epoch, study, owner>>

(* A causal permit that failed loses its work and keeps its binding, until *)
(* its epoch, its study or the invocation ends: the binding names what the *)
(* permit was for, and completes nothing, for the state is not DONE.       *)
Fail(w) ==
  /\ worker[w].at = "failed"
  /\ permits' = [permits EXCEPT ![worker[w].permit] = Emptied(@)]
  /\ worker' = [worker EXCEPT ![w] = Idle]
  /\ UNCHANGED <<phase, ledger, epoch, study, owner>>

-----------------------------------------------------------------------------
(* completed_result, as authorize_charge_and_commit uses it: the result of *)
(* a reasoning permit becomes the next round, or the end of the epoch.     *)
(* The terminal publication retires the epoch's work without finish.       *)
Completed(p, kind) ==
  /\ permits[p].listed /\ permits[p].kind = kind
  /\ permits[p].state = "DONE" /\ permits[p].output
  /\ kind = "reasoning" => permits[p].held
  /\ permits[p].snapshot = Snapshot

PublishRound(p, q, i, terminal) ==
  /\ phase = "ACTIVE" /\ epoch.open /\ epoch.round < MaxRounds
  /\ Completed(p, "reasoning")
  /\ CanConsume(ledger, q, i, "publish")
  /\ ledger' = Spend(i)
  /\ epoch' = IF terminal THEN [epoch EXCEPT !.open = FALSE] ELSE [epoch EXCEPT !.round = @ + 1]
  /\ permits' = IF terminal THEN EpochRetired(permits, epoch.number) ELSE permits
  /\ UNCHANGED <<phase, study, owner, worker>>

(* admit_case: the classified case is committed and its permit discarded.  *)
AdmitCase(p, i) ==
  /\ phase = "ACTIVE" /\ epoch.open /\ study.state = "open"
  /\ Completed(p, "causal")
  /\ CanConsume(ledger, study.base + 1, i, "admit")
  /\ ledger' = Spend(i)
  /\ permits' = [permits EXCEPT ![p] = [Emptied(@) EXCEPT !.listed = FALSE]]
  /\ UNCHANGED <<phase, epoch, study, owner, worker>>

(* begin_close: the epoch, then the work owner, then the study.            *)
BeginClose ==
  /\ phase = "ACTIVE"
  /\ phase' = "CLOSING"
  /\ LET afterEpoch == IF epoch.open THEN EpochClosed(permits, epoch.number) ELSE permits
         afterWork  == ParentClosed(afterEpoch)
     IN permits' = IF study.state = "open" THEN CausalDiscarded(afterWork) ELSE afterWork
  /\ epoch' = [epoch EXCEPT !.open = FALSE]
  /\ owner' = IF owner = "open" THEN "closing" ELSE owner
  /\ ledger' = IF study.state = "open" THEN RetireReserved(ledger, Escrow) ELSE ledger
  /\ study' = IF study.state = "open" THEN [study EXCEPT !.state = "ended"] ELSE study
  /\ UNCHANGED worker

(* RETIRE_UNUSED_CHARGE_UNITS, in either phase.                            *)
RetireUnusedUnits ==
  /\ ledger' = RetireUnused(ledger, IF phase = "ACTIVE" THEN 0 ELSE 1)
  /\ UNCHANGED <<phase, epoch, study, owner, permits, worker>>

(* RELEASE_TERMINAL_REGISTRY_CAPACITY: every record but the running ones.  *)
Release ==
  /\ owner = "closing"
  /\ LET ended(r) == r.state # "RUNNING"
         dropped(r) == [r EXCEPT !.listed = FALSE]
     IN permits' = Each(permits, ended, dropped)
  /\ UNCHANGED <<phase, ledger, epoch, study, owner, worker>>

-----------------------------------------------------------------------------
Contexts ==
  \/ OpenEpoch \/ FinishEpoch \/ OpenStudy \/ EndStudy
  \/ \E n \in 1 .. epoch.number : CleanUpEpoch(n)
  \/ BeginClose \/ RetireUnusedUnits \/ Release

Charges ==
  \/ \E kind \in Dispatched \cup {"publish"} : ReserveWork(kind)
  \/ \E q \in DOMAIN ledger.records, i \in DOMAIN ledger.units, kind \in Dispatched :
       Authorize(q, i, kind)
  \/ Project
  \/ \E i \in DOMAIN ledger.units : PrepareCausal(i)
  \/ \E p \in DOMAIN permits, q \in DOMAIN ledger.records, i \in DOMAIN ledger.units,
        terminal \in BOOLEAN : PublishRound(p, q, i, terminal)
  \/ \E p \in DOMAIN permits, i \in DOMAIN ledger.units : AdmitCase(p, i)

Execution(w) ==
  \/ \E p \in DOMAIN permits : Start(w, p)
  \/ Compute(w) \/ Finish(w) \/ Fail(w)

Next == Contexts \/ Charges \/ \E w \in Workers : Execution(w)

Spec == Init /\ [][Next]_vars

-----------------------------------------------------------------------------

(* A permit exists only against a unit that was consumed for it, and no    *)
(* two permits share a charge, of a ledger that stays a ledger whatever    *)
(* ended the work or its study: "Executable work requires both current     *)
(* operational authority and a valid charge" (03_COGNITION.md:3103).  A    *)
(* permit is executed by at most one worker, and no record is RUNNING      *)
(* without one.  RELEASE_TERMINAL_REGISTRY_CAPACITY spares the running, so *)
(* a record whose worker has gone would stay in the registry for ever; the *)
(* late-result paths of work.py 977 and 1443 leave the state alone and     *)
(* rely on the end of the epoch having retired the record before.          *)
PermitsAreBacked ==
  /\ LedgerOK(ledger, Budget) /\ Owns(ledger)
  /\ \A p \in DOMAIN permits :
       /\ ledger.units[permits[p].unit].state = "CONSUMED"
       /\ \A q \in DOMAIN permits : permits[q].unit = permits[p].unit => q = p
  /\ \A v, w \in Workers :
       worker[v].at # "idle" /\ worker[v].permit = worker[w].permit => v = w
  /\ \A p \in DOMAIN permits :
       permits[p].listed /\ permits[p].state = "RUNNING" =>
         \E w \in Workers : worker[w].at # "idle" /\ worker[w].permit = p

(* "Terminal registry never retains semantic work/audit data" (work.py     *)
(* 190): once the invocation closes, and for a retired record at any time, *)
(* nothing is held, and a worker that comes back late puts nothing back.   *)
(* A projection is usable only while its own epoch is open, and a causal   *)
(* permit only while its study is: whichever way the epoch ended (finish,  *)
(* terminal publication, close) nothing issued or done under it survives.  *)
NothingSurvivesItsContext ==
  \A p \in DOMAIN permits :
    /\ permits[p].state = "RETIRED" \/ (phase = "CLOSING" /\ permits[p].listed)
         => ~permits[p].held /\ ~permits[p].output
    /\ permits[p].listed =>
         /\ permits[p].kind = "projection" /\ permits[p].state # "RETIRED"
              => epoch.open /\ epoch.number = permits[p].snapshot.number
         /\ permits[p].kind = "causal" => study.state = "open"

Progress(state) ==
  CASE state = "ISSUED" -> 0 [] state = "RUNNING" -> 1 [] state = "DONE" -> 2 [] state = "RETIRED" -> 3

(* "Reusing a dispatched permit fails" (03_COGNITION.md:3164): a permit    *)
(* only moves from ISSUED to RUNNING to DONE or RETIRED, keeps its charge, *)
(* and neither a released record nor a lost result comes back.             *)
PermitsMoveOn ==
  [][\A p \in DOMAIN permits :
       /\ p \in DOMAIN permits' /\ permits'[p].unit = permits[p].unit
       /\ Progress(permits'[p].state) >= Progress(permits[p].state)
       /\ permits'[p].listed => permits[p].listed
       /\ permits'[p].output /\ ~permits[p].output => permits[p].state = "RUNNING"]_vars
=============================================================================
