------------------------------ MODULE Causality ------------------------------
(***************************************************************************)
(* The causal studies of one invocation in one trusted domain              *)
(* (cognition/causality/runtime.py, and the causal permits of work.py).    *)
(*                                                                         *)
(* A study has a frozen plan and an escrow of one unit for each step of    *)
(* that plan.  It admits cases into slots, or runs replay comparison       *)
(* epochs (RCEs) in order, and ends with one report.  Admitting a case and *)
(* comparing are calls in three parts: an input is prepared and paid for   *)
(* under the barriers, computed outside them by a one-shot permit, and     *)
(* published under them again; between the parts other threads publish,    *)
(* the trusted source issues receipts, and the epoch, the domain or the    *)
(* invocation end.                                                         *)
(*                                                                         *)
(* A publication assigns the mutation, the revision, the budget and the    *)
(* effect index in turn; an exception after any of them takes all back.    *)
(* An outcome is a name; classifying, matching and the canonical order of  *)
(* comparisons times repetitions are data.  The checks made before a step  *)
(* that is refused change nothing and appear as its guard.                 *)
(***************************************************************************)
EXTENDS Integers, FiniteSets, Functions

CONSTANTS Threads,        \* callers of admit_case and compare
          Studies,
          Plan,           \* of each study: its query, the attempts of each slot (0 for
                          \* a slot that is not executed), whether it is randomized
          Slots,
          Independent,    \* pairs of slots whose comparison is independent
          Contrasts,      \* the contrast of each planned RCE, in canonical order,
          Sides,          \* and the pair of slots its branches stand for
          Kinds,          \* receipts an RCE needs of each branch, but for MEASUREMENT
          Outcomes,       \* measured outcomes; "FAILED" is not one
          MaxStudies,     \* CausalityPolicy.max_studies
          MaxContrasts,   \* CausalityPolicy.max_contrasts
          MaxOccurrences, \* bound on trusted occurrences (4096 in the code)
          MaxRevisions,   \* bound on the revisions of the domain
          MaxSnapshots,   \* bound on epochs and rounds
          None

Queries == {"OBSERVATIONAL", "INTERVENTIONAL", "CLOSED_REPLAY"}
Rces    == DOMAIN Contrasts

ASSUME CausalityAssumption ==
  /\ Plan \in [Studies -> [query : Queries, attempts : [Slots -> 0 .. 4], randomized : BOOLEAN]]
  /\ Slots \subseteq Nat
  /\ Rces \subseteq Nat /\ Sides \in [Rces -> Slots \X Slots]
  /\ Independent \subseteq {pair \in Slots \X Slots : pair[1] # pair[2]}
  /\ Kinds \subseteq {"APPLICATION", "ISOLATION", "EXECUTION"}

VARIABLES lifecycle, \* of the invocation
          cie,       \* the open epoch, and a number for each of its snapshots
          domain,    \* _Domain: revision, closed, sequence, contrasts
          tokens,    \* the registered handles of the domain's studies
          study,     \* studies: each opened one, a _Study or its tombstone
          escrow,    \* the units of the study's pool
          commits,   \* its effects in _Owner.index, with what they published
          call       \* where each thread is in admit_case or compare

vars == <<lifecycle, cie, domain, tokens, study, escrow, commits, call>>

-----------------------------------------------------------------------------
(* Plans: slot * 4 + attempt numbers a case, and every step has one unit.  *)
Cases      == [s \in Studies |->
  {n \in {slot * 4 + attempt : slot \in Slots, attempt \in 0 .. 3} :
     n % 4 < Plan[s].attempts[n \div 4]}]
SlotOf(n)  == n \div 4
Attempt(n) == n % 4
Executed(s)   == {slot \in Slots : Plan[s].attempts[slot] > 0}
Replays(s)    == Plan[s].query = "CLOSED_REPLAY"
Intervenes(s) == Plan[s].query = "INTERVENTIONAL"
Randomized(s) == Plan[s].randomized
Finish     == <<"PUBLISH_STUDY", 0>>
Opened     == <<"OPEN_STUDY", 0>>

Computes == [s \in Studies |->
  IF Replays(s) THEN {"COMPARE_REPLAY"} \X Rces
  ELSE {"CLASSIFY_CASE"} \X Cases[s] \cup {<<"COMPARE_CASES", 0>>}]

(* The step that publishes what a step computed.                           *)
Publisher(unit) ==
  CASE unit[1] = "CLASSIFY_CASE"  -> <<"ADMIT_CASE", unit[2]>>
    [] unit[1] = "COMPARE_REPLAY" -> <<"PUBLISH_REPLAY", unit[2]>>
    [] unit[1] = "COMPARE_CASES"  -> Finish

Frontier == [s \in Studies |->
  Computes[s] \cup {Publisher(u) : u \in Computes[s]} \cup {Finish}
    \cup (IF Replays(s) THEN {"OPEN_RCE", "ADMIT_BUNDLE"} \X Rces ELSE {})
    \cup (IF Intervenes(s) THEN {"REQUEST_CASE"} \X Executed(s) ELSE {})]

Known  == DOMAIN study
Unseen == [attempt |-> 0, occurrence |-> 0, measured |-> FALSE]
Resting == [at |-> "idle", study |-> None, unit |-> Opened]
Study(state, revision, environment) ==
  [state |-> state, revision |-> revision, environment |-> environment,
   slots |-> [slot \in Slots |-> Unseen], requests |-> {}, issued |-> <<>>,
   pending |-> <<>>, rces |-> <<>>, report |-> None]

(* A mapping with an entry added to it or replaced.                        *)
Put(f, key, value) == [k \in DOMAIN f \cup {key} |-> IF k = key THEN value ELSE f[k]]

Init ==
  /\ lifecycle = "ACTIVE"
  /\ cie = [open |-> FALSE, snapshot |-> 0]
  /\ domain = [revision |-> 0, closed |-> FALSE, sequence |-> 0, contrasts |-> <<>>]
  /\ tokens = {}
  /\ study = <<>> /\ escrow = <<>> /\ commits = <<>>
  /\ call = [t \in Threads |-> Resting]

-----------------------------------------------------------------------------
(* Handles.                                                                *)
StudyToken(s)  == <<s, "STUDY", 0, 0>>
RceToken(s, o) == <<s, "RCE", o, 0>>
Issued(s, S)   == {<<s, key[1], key[2], key[3]>> : key \in DOMAIN S.issued}

TokensOf(s, S) ==
  {StudyToken(s)} \cup Issued(s, S) \cup {RceToken(s, o) : o \in DOMAIN S.rces}

(* Fault: a study of an older environment goes on.                         *)
LiveInAnyEnvironment(s) ==
  /\ s \in Known /\ study[s].state = "ACTIVE" /\ StudyToken(s) \in tokens
  /\ lifecycle = "ACTIVE" /\ ~domain.closed

(* entry and study: the handle, the invocation and the plan's domain.      *)
Live(s) ==
  /\ s \in Known /\ study[s].state = "ACTIVE" /\ StudyToken(s) \in tokens
  /\ lifecycle = "ACTIVE" /\ ~domain.closed
  /\ study[s].environment = domain.revision

LiveRce(s, o) ==
  /\ Live(s) /\ o \in DOMAIN study[s].rces
  /\ study[s].rces[o].state = "ACTIVE" /\ RceToken(s, o) \in tokens

-----------------------------------------------------------------------------
(* publish.                                                                *)
World(s) == [study |-> study[s], contrasts |-> domain.contrasts, tokens |-> tokens,
             escrow |-> escrow[s], commits |-> commits[s]]

(* The first n of its four assignments.                                    *)
Assigned(before, after, unit, payload, n) ==
  LET counted == [after EXCEPT !.study.revision = @ + 1]
      charged == [counted EXCEPT !.escrow[unit] = "CONSUMED"]
  IN CASE n = 0 -> before
       [] n = 1 -> after
       [] n = 2 -> counted
       [] n = 3 -> charged
       [] n = 4 -> [charged EXCEPT !.commits = Put(@, unit, payload)]

(* Fault: the registry is restored by comparing it with what it was.       *)
RevokedByDifference(now, before, new, reused) ==
  now \ (IF reused THEN {} ELSE now \ before)

(* The new handle may have the address of a dead one that the domain's     *)
(* handle_ids still list (reused): then only its own name revokes it.      *)
Revoked(now, before, new, reused) ==
  (now \ new) \ (IF reused THEN {} ELSE now \ before)

(* Fault: the budget keeps the charge.                                     *)
RolledBackButBudget(before, now, new, reused) ==
  [now EXCEPT !.study = before.study, !.contrasts = before.contrasts, !.commits = before.commits,
              !.tokens = Revoked(@, before.tokens, new, reused)]

(* The exception path restores what was saved, one field after the other.  *)
RolledBack(before, now, new, reused) ==
  [now EXCEPT !.study = before.study, !.contrasts = before.contrasts,
              !.escrow = before.escrow, !.commits = before.commits,
              !.tokens = Revoked(@, before.tokens, new, reused)]

(* What a publication may leave behind.                                    *)
Publications(s, unit, payload, after, new) ==
  LET before == World(s)
      stopped(n, reused) ==
        RolledBack(before, Assigned(before, after, unit, payload, n), new, reused)
  IN {[done |-> TRUE, world |-> Assigned(before, after, unit, payload, 4)]} \cup
     {[done |-> FALSE, world |-> stopped(n, reused)] : n \in 0 .. 3, reused \in BOOLEAN}

Payable(s, unit) == unit \in DOMAIN escrow[s] /\ escrow[s][unit] = "RESERVED"

Becomes(s, w) ==
  /\ study' = [study EXCEPT ![s] = w.study]
  /\ domain' = [domain EXCEPT !.contrasts = w.contrasts]
  /\ tokens' = w.tokens
  /\ escrow' = [escrow EXCEPT ![s] = w.escrow]
  /\ commits' = [commits EXCEPT ![s] = w.commits]

(* A published step with no clean-up of its own.                           *)
Publishes(s, unit, payload, after, new) ==
  /\ Payable(s, unit)
  /\ \E p \in Publications(s, unit, payload, after, new) : Becomes(s, p.world)
  /\ UNCHANGED <<lifecycle, cie, call>>

(* reduce: the escrow, every handle and every permit of the study go.      *)
Retired(units) ==
  [u \in DOMAIN units |-> IF units[u] = "RESERVED" THEN "RETIRED" ELSE units[u]]

(* Fault: the permits of the study stay pending.                           *)
ReducedButPermits(s, w, terminal) ==
  [w EXCEPT
    !.study = [Study(terminal, @.revision + 1, @.environment) EXCEPT !.pending = w.study.pending],
    !.tokens = @ \ TokensOf(s, w.study),
    !.escrow = Retired(@)]

Reduced(s, w, terminal) ==
  [w EXCEPT
    !.study = Study(terminal, @.revision + 1, @.environment),
    !.tokens = @ \ TokensOf(s, w.study),
    !.escrow = Retired(@)]

Ends(concerned, terminal) ==
  LET active == {s \in concerned : study[s].state = "ACTIVE"}
      ended(s) == Reduced(s, World(s), terminal)
  IN /\ study' = [s \in Known |-> IF s \in active THEN ended(s).study ELSE study[s]]
     /\ escrow' = [s \in Known |-> IF s \in active THEN ended(s).escrow ELSE escrow[s]]
     /\ tokens' = tokens \ UNION {TokensOf(s, study[s]) : s \in active}

-----------------------------------------------------------------------------
(* open_study: the plan names the domain's revision; its whole frontier is *)
(* reserved with it.                                                       *)
OpenStudy(s) ==
  /\ lifecycle = "ACTIVE" /\ ~domain.closed /\ s \notin Known
  /\ Cardinality(Known) < MaxStudies
  /\ study' = Put(study, s, Study("ACTIVE", 0, domain.revision))
  /\ tokens' = tokens \cup {StudyToken(s)}
  /\ escrow' = Put(escrow, s, [u \in Frontier[s] |-> "RESERVED"])
  /\ commits' = Put(commits, s, [u \in {Opened} |-> None])
  /\ UNCHANGED <<lifecycle, cie, domain, call>>

RequestCase(s, slot) ==
  /\ Live(s) /\ Intervenes(s) /\ slot \in Executed(s) \ study[s].requests
  /\ Publishes(s, <<"REQUEST_CASE", slot>>, None,
               [World(s) EXCEPT !.study.requests = @ \cup {slot}], {})

(* The trusted source and the controllers: what was issued stays as it is. *)
IssueAs(s, key, occurrence, value) ==
  /\ key \notin DOMAIN study[s].issued
  /\ study' = [study EXCEPT ![s].issued =
                 Put(@, key, [occurrence |-> occurrence, value |-> value])]
  /\ tokens' = tokens \cup {<<s, key[1], key[2], key[3]>>}
  /\ UNCHANGED <<lifecycle, cie, escrow, commits, call>>

CaseKey(n)           == <<"CASE", n, 0>>
ApplicationKey(slot) == <<"APPLICATION", slot, 0>>
ProtocolKey          == <<"RANDOMIZATION", 0, 0>>

(* issue_case: a new occurrence, or one that was issued for another case.  *)
IssueCase(s, n) ==
  /\ Live(s) /\ ~Replays(s)
  /\ \/ /\ domain.sequence < MaxOccurrences
        /\ \E status \in {"MEASURED", "FAILED"} :
             IssueAs(s, CaseKey(n), domain.sequence + 1, status)
        /\ domain' = [domain EXCEPT !.sequence = @ + 1]
     \/ /\ \E m \in Cases[s] :
             /\ CaseKey(m) \in DOMAIN study[s].issued
             /\ LET source == study[s].issued[CaseKey(m)]
                IN IssueAs(s, CaseKey(n), source.occurrence, source.value)
        /\ UNCHANGED domain

(* issue_controller for a study, and for a branch of an RCE, whose         *)
(* measurement mints a trusted case with it.                               *)
IssueControl(s, key) ==
  /\ Live(s) /\ Intervenes(s)
  /\ \/ key = ProtocolKey /\ Randomized(s)
     \/ \E slot \in study[s].requests : key = ApplicationKey(slot)
  /\ IssueAs(s, key, 0, None)
  /\ UNCHANGED domain

IssueReceipt(s, o, branch) ==
  /\ LiveRce(s, o)
  /\ \/ \E kind \in Kinds : IssueAs(s, <<kind, o, branch>>, 0, None)
     \/ Randomized(s) /\ branch = 1 /\ IssueAs(s, <<"RANDOMIZATION", o, 0>>, 0, None)
     \/ \E value \in Outcomes \cup {"FAILED"} : IssueAs(s, <<"MEASUREMENT", o, branch>>, 0, value)
  /\ UNCHANGED domain

-----------------------------------------------------------------------------
(* case_input.                                                             *)
Held(s, n) == study[s].issued[CaseKey(n)]
Admitted(S, slot) == S.slots[slot].occurrence # 0
SameCase(s, n) == study[s].slots[SlotOf(n)].occurrence = Held(s, n).occurrence

Acceptable(s, n) ==
  LET slot     == SlotOf(n)
      previous == study[s].slots[slot]
      peers    == {p \in Slots : <<slot, p>> \in Independent \/ <<p, slot>> \in Independent}
  IN /\ IF Admitted(study[s], slot)
        THEN ~previous.measured /\ Attempt(n) = previous.attempt + 1
        ELSE Attempt(n) = 0
     /\ \A p \in peers : study[s].slots[p].occurrence # Held(s, n).occurrence
     /\ Intervenes(s) =>
          /\ ApplicationKey(slot) \in DOMAIN study[s].issued
          /\ Randomized(s) => ProtocolKey \in DOMAIN study[s].issued

(* The input of a computation: case_input, comparison_input.               *)
Ready(s, unit) ==
  CASE unit[1] = "CLASSIFY_CASE" ->
         /\ CaseKey(unit[2]) \in DOMAIN study[s].issued
         /\ ~SameCase(s, unit[2]) /\ Acceptable(s, unit[2])
    [] unit[1] = "COMPARE_REPLAY" -> LiveRce(s, unit[2]) /\ study[s].rces[unit[2]].bundle
    [] unit[1] = "COMPARE_CASES"  -> TRUE

At(t, where) == call' = [call EXCEPT ![t].at = where]
Leave(t)     == call' = [call EXCEPT ![t] = Resting]

(* prepare_compute and causal_prepare.  The revision read with the input   *)
(* is compared again when the permit is issued: nothing was published in   *)
(* between.  A pending computation is returned as it is.                   *)
Prepare(t, s, unit) ==
  /\ call[t].at = "idle" /\ Live(s) /\ cie.open /\ Ready(s, unit)
  /\ call' = [call EXCEPT ![t] = [at |-> "execute", study |-> s, unit |-> unit]]
  /\ IF unit \in DOMAIN study[s].pending
     THEN UNCHANGED <<study, escrow>>
     ELSE /\ Payable(s, unit)
          /\ escrow' = [escrow EXCEPT ![s][unit] = "CONSUMED"]
          /\ study' = [study EXCEPT ![s].pending = Put(@, unit,
               [state |-> "ISSUED", revision |-> study[s].revision, snapshot |-> cie.snapshot,
                input |-> IF unit[1] = "COMPARE_CASES" THEN study[s].slots ELSE None])]
  /\ UNCHANGED <<lifecycle, cie, domain, tokens, commits>>

Pending(t, state) ==
  LET S == study[call[t].study]
  IN call[t].unit \in DOMAIN S.pending /\ S.pending[call[t].unit].state = state

Permit(t, state) == study' = [study EXCEPT ![call[t].study].pending[call[t].unit].state = state]

(* A permit that is retired keeps nothing of what it was bound to.         *)
Emptied == [state |-> "RETIRED", revision |-> 0, snapshot |-> 0, input |-> None]

(* Fault: the permit may be of an earlier revision of the study.           *)
AttachableAtAnyRevision(s, unit) ==
  /\ Live(s) /\ cie.open
  /\ unit \in DOMAIN study[s].pending
  /\ LET permit == study[s].pending[unit]
     IN permit.state = "DONE" /\ permit.snapshot = cie.snapshot

(* read_compute, causal_completed: the permit is done, and it is bound to  *)
(* the study's revision and to the snapshot that is current.               *)
Attachable(s, unit) ==
  /\ Live(s) /\ cie.open
  /\ unit \in DOMAIN study[s].pending
  /\ LET permit == study[s].pending[unit]
     IN /\ permit.state = "DONE" /\ permit.snapshot = cie.snapshot
        /\ permit.revision = study[s].revision

(* execute: the claim, the computation, which may fail, and the result.    *)
(* A permit that cannot be claimed may have been executed before.          *)
Claim(t) ==
  /\ call[t].at = "execute" /\ Pending(t, "ISSUED")
  /\ Permit(t, "RUNNING") /\ At(t, "running")
  /\ UNCHANGED <<lifecycle, cie, domain, tokens, escrow, commits>>

CheckCompleted(t) ==
  /\ call[t].at = "execute" /\ ~Pending(t, "ISSUED")
  /\ IF Attachable(call[t].study, call[t].unit) THEN At(t, "publish") ELSE Leave(t)
  /\ UNCHANGED <<lifecycle, cie, domain, tokens, study, escrow, commits>>

Compute(t) ==
  /\ call[t].at = "running"
  /\ \/ Pending(t, "RUNNING") /\ Permit(t, "DONE") /\ At(t, "publish")
     \/ /\ Pending(t, "RUNNING") /\ Leave(t)
        /\ study' = [study EXCEPT ![call[t].study].pending[call[t].unit] = Emptied]
     \/ ~Pending(t, "RUNNING") /\ UNCHANGED study /\ Leave(t)
  /\ UNCHANGED <<lifecycle, cie, domain, tokens, escrow, commits>>

(* publish_case: the input is read again under one guard and published     *)
(* under the next; what was admitted meanwhile is only reported.           *)
RecheckCase(t) ==
  LET s == call[t].study
  IN /\ call[t].at = "publish" /\ call[t].unit[1] = "CLASSIFY_CASE"
     /\ IF Live(s) /\ Ready(s, call[t].unit) THEN At(t, "attach") ELSE Leave(t)
     /\ UNCHANGED <<lifecycle, cie, domain, tokens, study, escrow, commits>>

Forget(w, unit) == [w EXCEPT !.study.pending = Restrict(@, DOMAIN @ \ {unit})]

PublishCase(t) ==
  LET s    == call[t].study
      unit == call[t].unit
      case == [attempt |-> Attempt(unit[2]), occurrence |-> Held(s, unit[2]).occurrence,
               measured |-> Held(s, unit[2]).value = "MEASURED"]
  IN /\ call[t].at = "attach" /\ Attachable(s, unit) /\ Payable(s, Publisher(unit))
     /\ \E p \in Publications(s, Publisher(unit), case,
                              [World(s) EXCEPT !.study.slots[SlotOf(unit[2])] = case], {}) :
          Becomes(s, IF p.done THEN Forget(p.world, unit) ELSE p.world)
     /\ Leave(t)
     /\ UNCHANGED <<lifecycle, cie>>

(* publish_comparison of a case study: its report ends it.                 *)
PublishStudy(t) ==
  LET s      == call[t].study
      unit   == call[t].unit
      report == study[s].pending[unit].input
  IN /\ call[t].at = "publish" /\ unit[1] = "COMPARE_CASES"
     /\ Attachable(s, unit) /\ Payable(s, Finish)
     /\ \E p \in Publications(s, Finish, report,
                              [World(s) EXCEPT !.study.slots = report, !.study.report = report], {}) :
          Becomes(s, IF p.done THEN Reduced(s, p.world, "COMPLETE") ELSE p.world)
     /\ Leave(t)
     /\ UNCHANGED <<lifecycle, cie>>

(* publish_comparison of an RCE.  One contrast has one result in a domain: *)
(* another one is a violation of determinism and publishes nothing.        *)
Result(s, o) ==
  LET measured == [branch \in 1 .. 2 |-> study[s].issued[<<"MEASUREMENT", o, branch>>].value]
  IN IF "FAILED" \in {measured[1], measured[2]} THEN None ELSE measured

(* Fault: nothing is compared with the audit.                              *)
AgreesWithAnything(contrast, result) == TRUE

Agrees(contrast, result) ==
  result # None =>
    IF contrast \in DOMAIN domain.contrasts
    THEN domain.contrasts[contrast] = result
    ELSE Cardinality(DOMAIN domain.contrasts) < MaxContrasts

PublishReplay(t) ==
  LET s        == call[t].study
      unit     == call[t].unit
      o        == unit[2]
      result   == Result(s, o)
      reports  == [branch \in 1 .. 2 |->
                     [attempt |-> 0, occurrence |-> o,
                      measured |-> study[s].issued[<<"MEASUREMENT", o, branch>>].value # "FAILED"]]
      reported(slot) == \E branch \in 1 .. 2 : Sides[o][branch] = slot
      first(slot)    == reports[CHOOSE branch \in 1 .. 2 : Sides[o][branch] = slot]
      ended    == [study[s].rces[o] EXCEPT !.state = "TERMINAL", !.result = result]
      slots    == [slot \in Slots |->
        IF ~Admitted(study[s], slot) /\ reported(slot) THEN first(slot) ELSE study[s].slots[slot]]
      audited  == [World(s) EXCEPT
        !.study.rces[o] = ended, !.study.slots = slots,
        !.contrasts = IF result = None THEN @ ELSE Put(@, Contrasts[o], result)]
      closed(w) == [Forget(w, unit) EXCEPT !.study.rces[o].bundle = FALSE,
                                           !.tokens = @ \ {RceToken(s, o)}]
  IN /\ call[t].at = "publish" /\ unit[1] = "COMPARE_REPLAY"
     /\ LiveRce(s, o) /\ Attachable(s, unit) /\ Payable(s, Publisher(unit))
     /\ Agrees(Contrasts[o], result)
     /\ \E p \in Publications(s, Publisher(unit), result, audited, {}) :
          Becomes(s, IF p.done THEN closed(p.world) ELSE p.world)
     /\ Leave(t)
     /\ UNCHANGED <<lifecycle, cie>>

(* The publication is refused, and the call ends.                          *)
Refused(t) ==
  /\ call[t].at \in {"publish", "attach"}
  /\ LET s    == call[t].study
         unit == call[t].unit
     IN \/ call[t].at = "attach" /\ ~(Attachable(s, unit) /\ Payable(s, Publisher(unit)))
        \/ call[t].at = "publish" /\ unit[1] # "CLASSIFY_CASE" /\ ~Attachable(s, unit)
        \/ /\ unit[1] = "COMPARE_REPLAY" /\ Attachable(s, unit)
           /\ ~(LiveRce(s, unit[2]) /\ Agrees(Contrasts[unit[2]], Result(s, unit[2])))
  /\ Leave(t)
  /\ UNCHANGED <<lifecycle, cie, domain, tokens, study, escrow, commits>>

-----------------------------------------------------------------------------
(* Replay: one RCE at a time, in the plan's order.                         *)
Ended(s)   == {o \in DOMAIN study[s].rces : study[s].rces[o].state = "TERMINAL"}
NextRce(s) == Cardinality(Ended(s)) + 1

OpenRce(s, o) ==
  /\ Live(s) /\ Replays(s) /\ o \notin DOMAIN study[s].rces
  /\ o = NextRce(s)
  /\ Publishes(s, <<"OPEN_RCE", o>>, None,
       [World(s) EXCEPT
          !.study.rces = Put(@, o, [state |-> "ACTIVE", bundle |-> FALSE, result |-> None]),
          !.tokens = @ \cup {RceToken(s, o)}],
       {RceToken(s, o)})

Required(s, o) ==
  (Kinds \cup {"MEASUREMENT"}) \X {o} \X (1 .. 2)
    \cup (IF Randomized(s) THEN {<<"RANDOMIZATION", o, 0>>} ELSE {})

AdmitBundle(s, o) ==
  /\ LiveRce(s, o) /\ ~study[s].rces[o].bundle
  /\ Required(s, o) \subseteq DOMAIN study[s].issued
  /\ Publishes(s, <<"ADMIT_BUNDLE", o>>, None,
               [World(s) EXCEPT !.study.rces[o].bundle = TRUE], {})

(* finish_replay_study.                                                    *)
FinishReplay(s) ==
  /\ Live(s) /\ Replays(s) /\ Ended(s) = Rces /\ Payable(s, Finish)
  /\ \E p \in Publications(s, Finish, study[s].slots,
                           [World(s) EXCEPT !.study.report = study[s].slots], {}) :
       Becomes(s, IF p.done THEN Reduced(s, p.world, "COMPLETE") ELSE p.world)
  /\ UNCHANGED <<lifecycle, cie, call>>

AbortStudy(s) ==
  /\ Live(s)
  /\ Ends({s}, "ABORTED")
  /\ UNCHANGED <<lifecycle, cie, domain, commits, call>>

-----------------------------------------------------------------------------
(* What surrounds the studies.                                             *)

(* REVISE: the revision first, then every study of the domain is reduced.  *)
(* An exception on the way leaves studies of the old environment standing. *)
Revise ==
  /\ ~domain.closed /\ domain.revision < MaxRevisions
  /\ domain' = [domain EXCEPT !.revision = @ + 1]
  /\ \E reached \in SUBSET Known : Ends(reached, "ABORTED")
  /\ UNCHANGED <<lifecycle, cie, commits, call>>

(* CLOSE: as well, and every handle of the domain goes.                    *)
CloseDomain ==
  /\ ~domain.closed
  /\ domain' = [domain EXCEPT !.revision = @ + 1, !.closed = TRUE]
  /\ Ends(Known, "ABORTED")
  /\ UNCHANGED <<lifecycle, cie, commits, call>>

(* begin_close, parent_close of every study.                               *)
BeginClose ==
  /\ lifecycle = "ACTIVE"
  /\ lifecycle' = "CLOSING"
  /\ cie' = [cie EXCEPT !.open = FALSE]
  /\ Ends(Known, "ABORTED")
  /\ UNCHANGED <<domain, commits, call>>

(* An epoch opens, or the open one advances to another round.              *)
OpenEpoch ==
  /\ lifecycle = "ACTIVE" /\ cie.snapshot < MaxSnapshots
  /\ cie' = [open |-> TRUE, snapshot |-> cie.snapshot + 1]
  /\ UNCHANGED <<lifecycle, domain, tokens, study, escrow, commits, call>>

(* The end of an epoch retires the permits bound to it.                    *)
CloseEpoch ==
  /\ cie.open
  /\ cie' = [cie EXCEPT !.open = FALSE]
  /\ study' = [s \in Known |-> [study[s] EXCEPT !.pending =
                 [u \in DOMAIN @ |-> Emptied]]]
  /\ UNCHANGED <<lifecycle, domain, tokens, escrow, commits, call>>

-----------------------------------------------------------------------------
Next ==
  \/ \E s \in Studies :
       \/ OpenStudy(s) \/ FinishReplay(s) \/ AbortStudy(s)
       \/ \E slot \in Slots : RequestCase(s, slot) \/ IssueControl(s, ApplicationKey(slot))
       \/ IssueControl(s, ProtocolKey)
       \/ \E n \in Cases[s] : IssueCase(s, n)
       \/ \E o \in Rces : OpenRce(s, o) \/ AdmitBundle(s, o)
       \/ \E o \in Rces, branch \in 1 .. 2 : IssueReceipt(s, o, branch)
       \/ \E t \in Threads, unit \in Computes[s] : Prepare(t, s, unit)
  \/ \E t \in Threads :
       \/ Claim(t) \/ CheckCompleted(t) \/ Compute(t) \/ RecheckCase(t)
       \/ PublishCase(t) \/ PublishStudy(t) \/ PublishReplay(t) \/ Refused(t)
  \/ Revise \/ CloseDomain \/ BeginClose \/ OpenEpoch \/ CloseEpoch

Spec == Init /\ [][Next]_vars

-----------------------------------------------------------------------------
Steps(s)    == DOMAIN commits[s] \ {Opened}
Consumed(s) == {u \in DOMAIN escrow[s] : escrow[s][u] = "CONSUMED"}
Active      == {s \in Known : study[s].state = "ACTIVE"}

(* The escrow, the effect index, the revision and the pending computations *)
(* of a study tell the same story, whatever exception stopped whichever    *)
(* publication: a unit is spent for each effect and for each computation   *)
(* that is pending or published, and nothing is left reserved at the end.  *)
AccountsAgree ==
  \A s \in Known :
    /\ s \in Active =>
         /\ Consumed(s) = Steps(s) \cup DOMAIN study[s].pending
                            \cup {u \in Computes[s] : Publisher(u) \in Steps(s)}
         /\ study[s].revision = Cardinality(Steps(s))
    /\ Steps(s) \subseteq Consumed(s)
    /\ s \notin Active => \A u \in DOMAIN escrow[s] : escrow[s][u] # "RESERVED"

(* "No retrospective selection of favorable cases" (03_COGNITION.md:1463): *)
(* a slot takes its first case, or the next attempt after one that was not *)
(* measured, and the report says what was admitted when it was published,  *)
(* though cases are checked and reports computed before other threads      *)
(* publish.                                                                *)
AdmissionsStand ==
  [][\A s \in Active :
       /\ s \in Active' => \A slot \in Slots :
            LET old == study[s].slots[slot]
                new == study'[s].slots[slot]
            IN \/ new = old
               \/ ~Admitted(study[s], slot) /\ new.attempt = 0
               \/ ~old.measured /\ new.attempt = old.attempt + 1
       /\ Finish \in DOMAIN commits'[s] \ DOMAIN commits[s] =>
            commits'[s][Finish] = study[s].slots]_vars

(* The two sides of an independent comparison never rest on one occurrence *)
(* ("independent comparator occurrence reused", runtime.py:1188), though   *)
(* they are admitted by threads that looked before either was.             *)
ComparatorsAreIndependent ==
  \A s \in Active, pair \in Independent :
    ~Replays(s) /\ Admitted(study[s], pair[1]) =>
      study[s].slots[pair[1]].occurrence # study[s].slots[pair[2]].occurrence

(* "If any binding or revision becomes stale before the transaction        *)
(* linearizes, no ... canonical causal result is minted"                   *)
(* (03_COGNITION.md:1840): nothing of a study is published after its       *)
(* domain was revised or its invocation began to close, even if its        *)
(* reduction did not succeed.                                              *)
PublishesInItsEnvironment ==
  [][\A s \in Known : Steps(s)' # Steps(s) =>
       lifecycle = "ACTIVE" /\ study[s].environment = domain.revision]_vars

(* One contrast has one result, and the audit that enforces it knows the   *)
(* published results and no other.                                         *)
AuditIsPublished ==
  LET published(s, o) == /\ <<"PUBLISH_REPLAY", o>> \in Steps(s)
                         /\ commits[s][<<"PUBLISH_REPLAY", o>>] # None
      audited(s, o)   == /\ Contrasts[o] \in DOMAIN domain.contrasts
                         /\ domain.contrasts[Contrasts[o]] = commits[s][<<"PUBLISH_REPLAY", o>>]
  IN /\ \A s \in Known, o \in Rces : published(s, o) => audited(s, o)
     /\ \A contrast \in DOMAIN domain.contrasts :
          \E s \in Known, o \in Rces : Contrasts[o] = contrast /\ published(s, o)

(* The registry lists the handles of active studies and no other: an       *)
(* ended RCE keeps its receipts until its study ends, and a study that is  *)
(* over keeps nothing, whichever of its reductions was interrupted.        *)
RegistryIsExact ==
  /\ \A s \in Known \ Active :
       study[s] = Study(study[s].state, study[s].revision, study[s].environment)
  /\ tokens = UNION {TokensOf(s, study[s]) \ {RceToken(s, o) : o \in Ended(s)} : s \in Active}
=============================================================================
