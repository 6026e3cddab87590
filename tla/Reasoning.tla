------------------------------ MODULE Reasoning ------------------------------
(***************************************************************************)
(* The reasoning runtime (cognition/reasoning): a caller's run opens an    *)
(* inference epoch, seeds its arena, and goes round by round through       *)
(* discovery, evaluation and publication to a fixed point, paying a unit   *)
(* for every piece of work and one more for every publication.  Each call  *)
(* it makes takes the barriers for itself, so the Core, the issuer and the *)
(* invocation change between any two of them; whatever goes wrong, the     *)
(* handler ends the epoch and the run returns what was published so far.   *)
(*                                                                         *)
(* A content is a tuple: an atom, a conditional <<"if", p, q>>, a property *)
(* <<"transitive", R>> or <<"relation", R, x, y>>.  The order of canonical *)
(* bytes, by which the code picks the first of several, is CHOOSE's.       *)
(***************************************************************************)
EXTENDS Epoch, FiniteSetsExt, Functions

CONSTANTS Runs,          \* calls of ReasoningRuntime.run
          Given,         \* what each is given: sources, constraints, branch, mode
          Ample,         \* the runs whose arguments fit in every limit
          Units,         \* budget of each invocation
          MaxAssertions, MaxSources, MaxFrontier, MaxAncestry, MaxChecks

ASSUME ReasoningAssumption ==
  /\ Ample \subseteq Runs /\ DOMAIN Given = Runs /\ Units \in Nat
  /\ {MaxAssertions, MaxSources, MaxFrontier, MaxAncestry, MaxChecks} \subseteq Nat
  /\ \A given \in Range(Given) :
       /\ IsFiniteSet(given.sources) /\ IsFiniteSet(given.constraints)
       /\ given.sources \cap given.constraints = {}
       /\ \A s \in given.sources \cup given.constraints : IsFiniteSet(s.roots)
       /\ \A s \in given.sources : s.basis # "derived"
       /\ \A c \in given.constraints : c.arity \in {1, 2}

VARIABLES available, \* AVAILABLE units of each invocation
          permits,   \* work permits that still hold their frozen work
          run        \* where each call of run is, and its local variables

local == <<available, permits, run>>
everything == <<vars, local>>

Resting == [at |-> "idle", operation |-> "SEED", epoch |-> None,
            snapshot |-> {}, round |-> 0, frontier |-> {}, output |-> {},
            environment |-> 0, outcome |-> "none"]

RInit ==
  /\ Init
  /\ available = [i \in Invocations |-> Units]
  /\ permits = {}
  /\ run = [r \in Runs |-> Resting]

-----------------------------------------------------------------------------
(* What an arena says.  An entry is identified by its kind and its name.   *)
Entry(kind, name, value) == <<<<kind, name>>, value>>
Named(A, kind) == {x[1][2] : x \in {y \in A : y[1][1] = kind}}
Derivations(A) == {x \in A : x[1][1] = "DERIVATION"}

Assertions(A)  == Named(A, "ASSERTION")
Constraints(A) == Named(A, "CONSTRAINT")

(* active_context: context k stands on the first k roots of the sources.   *)
RootsOf(given) == UNION {s.roots : s \in given.sources \cup given.constraints}
Context(given, k) ==
  {x \in RootsOf(given) : Cardinality({y \in RootsOf(given) : y <= x}) <= k}

(* ActiveEpistemicContext.admits, for the branch of the run.               *)
Admitted(S, given) == {s \in S : s.roots \subseteq Context(given, given.branch)}

-----------------------------------------------------------------------------
(* The two inference schemas.  An application is the tuple of its parents, *)
(* of one scope, the first of them a formal rule.                          *)
Parents(app) == {app[n] : n \in DOMAIN app}

Applicable(pool) ==
  LET rules(kind) == {a \in pool : a.basis = "formal" /\ a.content[1] = kind}
      relations   == {a \in pool : a.content[1] = "relation"}
      modusPonens == {app \in rules("if") \X pool : app[1].content[2] = app[2].content}
      composition == {app \in rules("transitive") \X relations \X relations :
                        /\ app[1].content[2] = app[2].content[2]
                        /\ app[2].content[2] = app[3].content[2]
                        /\ app[2].content[4] = app[3].content[3]}
  IN {app \in modusPonens \cup composition : \A p \in Parents(app) : p.scope = app[1].scope}

Conclusion(app) ==
  [content |-> IF app[1].content[1] = "if" THEN app[1].content[3]
               ELSE <<"relation", app[1].content[2], app[2].content[3], app[3].content[4]>>,
   basis |-> "derived", scope |-> app[1].scope,
   roots |-> UNION {p.roots : p \in Parents(app)}]

Schema(app) == app[1].content[1]

(* Fault: a path may lead through the conclusion.                          *)
AnyPath(A, p, app) ==
  {x \in Derivations(A) : Conclusion(x[1][2]) = p /\ Schema(x[1][2]) = Schema(app)}

(* Fault: a path of one schema serves the other.                           *)
PathsAcross(A, p, app) ==
  {x \in Derivations(A) : Conclusion(x[1][2]) = p /\ Conclusion(app) \notin x[2]}

(* parent_witness: the derivations of p that do not rest on the conclusion,*)
(* in the context of the application, which names its schema.              *)
Paths(A, p, app) ==
  {x \in Derivations(A) : /\ Conclusion(x[1][2]) = p /\ Schema(x[1][2]) = Schema(app)
                          /\ Conclusion(app) \notin x[2]}

Witnessed(A, p, app) ==
  p # Conclusion(app) /\ (p.basis # "derived" \/ Paths(A, p, app) # {})

(* lineage: the parents and everything their chosen paths rest on.         *)
Ancestry(A, app) ==
  Parents(app) \cup
  UNION {(CHOOSE x \in Paths(A, p, app) : TRUE)[2] :
         p \in {q \in Parents(app) : q.basis = "derived"}}

(* candidates: what follows in one step and is neither done nor blocked.   *)
Candidates(A, given) ==
  {app \in Applicable(Admitted(Assertions(A), given)) :
     /\ app \notin Named(A, "DERIVATION") \cup Named(A, "COMPLETED")
     /\ \A p \in Parents(app) : Witnessed(A, p, app)}

-----------------------------------------------------------------------------
(* preflight: every group of participants that an applicable constraint    *)
(* asks about.  A constraint forbids certain contents together.            *)
Checks(constraints, participants, given) ==
  LET applies(c) == \A p \in participants : c.scope = p.scope
  IN UNION {{<<c, group>> : group \in kSubset(c.arity, participants)} :
            c \in {k \in Admitted(constraints, given) : applies(k)}}

Conflicts(constraints, participants, given) ==
  {check \in Checks(constraints, participants, given) :
     {p.content : p \in check[2]} \in check[1].forbids}

Complete(constraints, participants, given) ==
  Cardinality(Checks(constraints, participants, given)) <= MaxChecks

First(S) == IF S = {} THEN {} ELSE {CHOOSE x \in S : TRUE}

(* A finding is named by its conflict, its use and the snapshot.           *)
Findings(conflicts, use, n) == {Entry("FINDING", <<c, use, n>>, "incompatible") : c \in conflicts}

Groups(A, given) ==
  LET admitted == Admitted(Assertions(A), given)
  IN {{a \in admitted : a.scope = s} : s \in {a.scope : a \in admitted}}

Query(A, given, participants, n) ==
  LET found == Conflicts(Constraints(A), participants, given)
  IN Findings(IF given.mode = "EXISTS" THEN First(found) ELSE found, <<"query">>, n)

(* Fault: a blocked candidate leaves its finding and nothing else.         *)
DecidedUnlessBlocked(A, given, app, n) ==
  LET found == Conflicts(Constraints(A), Parents(app), given)
  IN IF found # {} THEN Findings(First(found), <<"use", app>>, n)
     ELSE {Entry("ASSERTION", Conclusion(app), "derived"),
           Entry("DERIVATION", app, Ancestry(A, app)),
           Entry("CLEARANCE", <<app, n>>, "cleared")}

(* evaluate, for one candidate: blocked by a finding, or derived.          *)
Decided(A, given, app, n) ==
  LET found == Conflicts(Constraints(A), Parents(app), given)
  IN IF found # {}
     THEN Findings(First(found), <<"use", app>>, n) \cup {Entry("COMPLETED", app, "BLOCKED")}
     ELSE {Entry("ASSERTION", Conclusion(app), "derived"),
           Entry("DERIVATION", app, Ancestry(A, app)),
           Entry("CLEARANCE", <<app, n>>, "cleared")}

Evaluated(A, given, frontier, n) ==
  UNION ({Query(A, given, group, n) : group \in Groups(A, given)}
         \cup {Decided(A, given, app, n) : app \in frontier})

Incomplete(A, given, frontier) ==
  \E participants \in Groups(A, given) \cup {Parents(app) : app \in frontier} :
    ~Complete(Constraints(A), participants, given)

(* _seed: assertions and constraints with their support, and one context   *)
(* for each root.                                                          *)
Seeded(given) ==
  {Entry("CONTEXT", k, Context(given, k)) : k \in 0 .. Cardinality(RootsOf(given))}
  \cup (UNION {{Entry("ASSERTION", s, s.basis), Entry("SUPPORT", s, "source")} : s \in given.sources})
  \cup (UNION {{Entry("CONSTRAINT", c, "active"), Entry("BACKING", c, "source")} : c \in given.constraints})

-----------------------------------------------------------------------------
(* group_capacity: the entries a piece of work may add, or more than any   *)
(* arena holds when its assertions alone exceed the policy.                *)
Pairs(n) == (n * (n - 1)) \div 2

(* Fault: two entries are counted for each candidate.                      *)
EnvelopeOfTwo(operation, A, given, frontier) ==
  CASE operation = "SEED" -> 3 * Cardinality(given.sources \cup given.constraints) + 1
    [] operation = "DISCOVER" -> 0
    [] operation = "EVALUATE" -> 2 * Cardinality(frontier)

ScopeSizes(A) ==
  LET size(s) == Cardinality({a \in Assertions(A) : a.scope = s})
  IN [s \in {a.scope : a \in Assertions(A)} |-> size(s)]

Envelope(operation, A, given, frontier) ==
  LET sizes == ScopeSizes(A)
      asked(s) == SumFunction([c \in Constraints(A) |->
                                 IF c.arity = 1 THEN sizes[s] ELSE Pairs(sizes[s])])
      findings == CASE Constraints(A) = {} -> 0
                    [] Constraints(A) # {} /\ given.mode = "EXISTS" -> Cardinality(DOMAIN sizes)
                    [] Constraints(A) # {} /\ given.mode # "EXISTS" ->
                         SumFunction([s \in DOMAIN sizes |-> asked(s)])
  IN CASE operation = "SEED" -> 3 * Cardinality(given.sources \cup given.constraints) + 1
       [] operation = "DISCOVER" -> 0
       [] operation = "EVALUATE" -> 3 * Cardinality(frontier) + findings

Prospective(A, frontier) == Assertions(A) \cup {Conclusion(app) : app \in frontier}

(* The capacity checks of authorize_and_charge.                            *)
Affordable(r) ==
  LET A == arena[run[r].epoch]
      additions == Envelope(run[r].operation, A, Given[r], run[r].frontier)
  IN /\ additions <= policy.staged /\ Cardinality(A) + additions <= policy.entries
     /\ round[run[r].epoch] < policy.rounds
     /\ run[r].operation = "EVALUATE" =>
          Cardinality(Prospective(A, run[r].frontier)) <= MaxAssertions

(* The limits that the work itself meets: semantic_records and branch bound*)
(* of a seed, the frontier and the ancestries of a discovery.              *)
Computable(r) ==
  LET given == Given[r]
      found == Candidates(run[r].snapshot, given)
  IN CASE run[r].operation = "SEED" ->
            /\ Cardinality(given.sources) <= MaxAssertions
            /\ Cardinality(RootsOf(given)) <= MaxSources
       [] run[r].operation = "DISCOVER" ->
            /\ Cardinality(found) <= MaxFrontier
            /\ \A app \in found : Cardinality(Ancestry(run[r].snapshot, app)) <= MaxAncestry
       [] run[r].operation = "EVALUATE" -> TRUE

-----------------------------------------------------------------------------
(* The steps of a run.                                                     *)
At(r, place) == run[r].at = place
Running(r)   == run[r].at \notin {"idle", "done"}

Goes(r, place) == run' = [run EXCEPT ![r].at = place]

(* An exception: the code of the IngressAbort, "error" for those that the  *)
(* run raises again once it has cleaned up.                                *)
Raises(r, code) == run' = [run EXCEPT ![r].at = "failed", ![r].outcome = code]

Parent(r) == run[r].epoch[1]

(* pinned_work_budget and pinned_cie_work: Core, lifecycle, epoch.         *)
Dispatches(r) == bound /\ Parent(r) \in active /\ Reachable(run[r].epoch) /\ env[run[r].epoch] = tick

(* ReasoningRuntime.run: cie.open.                                         *)
Begin(r, i) ==
  /\ At(r, "idle") /\ policy.reasoning
  /\ Open(i)
  /\ run' = [run EXCEPT ![r] = [Resting EXCEPT !.at = "opened", !.epoch = child'[i]]]
  /\ UNCHANGED <<available, permits>>

(* cie.snapshot, before the try: an epoch that ended is nothing to clean.  *)
TakeSnapshot(r) ==
  /\ At(r, "opened")
  /\ IF Reachable(run[r].epoch) THEN Goes(r, "sources")
     ELSE run' = [run EXCEPT ![r].at = "done", ![r].outcome = "error"]
  /\ UNCHANGED <<vars, available, permits>>

(* _reasoning_source_input.                                                *)
ReadSources(r) ==
  /\ At(r, "sources") /\ Dispatches(r)
  /\ IF Cardinality(Given[r].sources \cup Given[r].constraints) > MaxSources
     THEN Raises(r, "CAPACITY_ABORT") ELSE Goes(r, "reserve")
  /\ UNCHANGED <<vars, available, permits>>

(* A unit for the work, and for the publication that will follow it.       *)
ReserveUnit(r, next) ==
  /\ IF available[Parent(r)] = 0
     THEN Raises(r, "PARTIAL_BUDGET") /\ UNCHANGED available
     ELSE Goes(r, next) /\ available' = [available EXCEPT ![Parent(r)] = @ - 1]
  /\ UNCHANGED <<vars, permits>>

Publishes(operation) == operation # "DISCOVER"

ReserveWork(r) ==
  /\ At(r, "reserve") /\ Dispatches(r)
  /\ ReserveUnit(r, IF Publishes(run[r].operation) THEN "reserve publication" ELSE "charge")

ReservePublication(r) ==
  /\ At(r, "reserve publication") /\ Parent(r) \in active
  /\ ReserveUnit(r, "charge")

Permit(r, operation, state) ==
  [epoch |-> run[r].epoch, round |-> run[r].round, operation |-> operation, state |-> state]

(* authorize_and_charge: the discovery a frontier comes from is asked for  *)
(* again, and the permit is issued for a complete group or not at all.     *)
Charge(r) ==
  /\ At(r, "charge") /\ Dispatches(r)
  /\ LET found == run[r].operation = "EVALUATE" => Permit(r, "DISCOVER", "DONE") \in permits
     IN IF found /\ Affordable(r)
        THEN Goes(r, "execute") /\ permits' = permits \cup {Permit(r, run[r].operation, "ISSUED")}
        ELSE Raises(r, IF found THEN "CAPACITY_ABORT" ELSE "error") /\ UNCHANGED permits
  /\ UNCHANGED <<vars, available>>

Moves(r, before, after) ==
  permits' = IF Permit(r, run[r].operation, before) \notin permits THEN permits
             ELSE (permits \ {Permit(r, run[r].operation, before)})
                  \cup {Permit(r, run[r].operation, s) : s \in after}

(* execute: claimed under the barriers, computed outside them.             *)
Execute(r) ==
  /\ At(r, "execute") /\ Parent(r) \in active
  /\ Moves(r, "ISSUED", {"RUNNING"}) /\ Goes(r, "computing")
  /\ UNCHANGED <<vars, available>>

(* The worker comes back with the frontier or with a complete stage.  A    *)
(* record that was emptied meanwhile keeps no output; the caller has it.   *)
Computed(r) ==
  LET given == Given[r]
      A     == run[r].snapshot
  IN CASE run[r].operation = "DISCOVER" ->
            run' = [run EXCEPT ![r].at = "reserve", ![r].operation = "EVALUATE",
                               ![r].frontier = Candidates(A, given)]
       [] run[r].operation = "SEED" ->
            run' = [run EXCEPT ![r].at = "prepare", ![r].output = Seeded(given)]
       [] run[r].operation = "EVALUATE" ->
            IF Incomplete(A, given, run[r].frontier) THEN Raises(r, "CONSTRAINT_CHECK_INCOMPLETE")
            ELSE run' = [run EXCEPT ![r].at = "prepare",
                           ![r].output = Evaluated(A, given, run[r].frontier, run[r].round)]

Compute(r) ==
  /\ At(r, "computing")
  /\ IF Computable(r) THEN Computed(r) /\ Moves(r, "RUNNING", {"DONE"})
     ELSE Raises(r, "CAPACITY_ABORT") /\ Moves(r, "RUNNING", {})
  /\ UNCHANGED <<vars, available>>

(* prepare_effect: the environment of the publication is read.             *)
PrepareEffect(r) ==
  /\ At(r, "prepare") /\ bound /\ Parent(r) \in active
  /\ run' = [run EXCEPT ![r].at = "commit", ![r].environment = tick]
  /\ UNCHANGED <<vars, available, permits>>

(* publication_from_output: only a round with no candidate is terminal.    *)
Terminal(r) == run[r].operation = "EVALUATE" /\ run[r].frontier = {}

Proven(r) == Permit(r, run[r].operation, "DONE") \in permits

(* authorize_charge_and_commit, and what the run makes of it.              *)
Commit(r) ==
  /\ At(r, "commit") /\ Dispatches(r) /\ run[r].environment = tick
  /\ Proven(r)
  /\ PublishReasoning(run[r].epoch, run[r].output, Terminal(r))
  /\ permits' = IF Terminal(r) THEN {p \in permits : p.epoch # run[r].epoch} ELSE permits
  /\ run' = [run EXCEPT ![r].at = IF Terminal(r) THEN "clean up" ELSE "reserve",
                        ![r].outcome = IF Terminal(r) THEN "FIXED_POINT" ELSE @,
                        ![r].operation = "DISCOVER",
                        ![r].snapshot = @ \cup run[r].output,
                        ![r].round = @ + 1, ![r].output = {}, ![r].frontier = {}]
  /\ UNCHANGED available

Refuse(r) ==
  /\ At(r, "commit") /\ Dispatches(r) /\ run[r].environment = tick
  /\ ~Proven(r) \/ ~Publishable(run[r].epoch, run[r].output)
  /\ Raises(r, IF Proven(r) /\ ~Conflict(run[r].snapshot \cup run[r].output) THEN "CAPACITY_ABORT" ELSE "error")
  /\ UNCHANGED <<vars, available, permits>>

-----------------------------------------------------------------------------
(* Something is no longer what it was when the run began.                  *)
Core == {"sources", "reserve", "charge", "commit"}

(* The effect's own environment is compared before the epoch's.            *)
FindEffectStale(r) ==
  /\ At(r, "commit") /\ bound /\ Parent(r) \in active /\ run[r].environment # tick
  /\ Raises(r, "ENVIRONMENT_STALE")
  /\ UNCHANGED <<vars, available, permits>>

FindEpochStale(r) ==
  /\ run[r].at \in Core /\ bound /\ Parent(r) \in active
  /\ At(r, "commit") => run[r].environment = tick
  /\ Reachable(run[r].epoch) /\ env[run[r].epoch] # tick
  /\ Fail(run[r].epoch, "ENVIRONMENT_STALE") /\ UNCHANGED stage
  /\ Raises(r, "ENVIRONMENT_STALE")
  /\ UNCHANGED <<available, permits>>

FindClosed(r) ==
  /\ \/ run[r].at \in Core \cup {"prepare"} /\ ~bound
     \/ run[r].at \in Core \cup {"prepare", "reserve publication", "execute"} /\ Parent(r) \notin active
  /\ Raises(r, "error")
  /\ UNCHANGED <<vars, available, permits>>

(* Fault: the handler aborts an epoch it takes for open and then waits.    *)
AbortOnlyOpen(r) ==
  /\ At(r, "abort") /\ Reachable(run[r].epoch)
  /\ Abort(run[r].epoch) /\ Goes(r, "clean up")
  /\ UNCHANGED <<available, permits>>

(* The handler: cie.status, and cie.abort of an epoch that was OPEN.  It   *)
(* may have ended in between, and then the abort raises in its turn.       *)
Handle(r) ==
  /\ At(r, "failed")
  /\ Goes(r, IF status[run[r].epoch] = "OPEN" THEN "abort" ELSE "clean up")
  /\ UNCHANGED <<vars, available, permits>>

AbortEpoch(r) ==
  /\ At(r, "abort")
  /\ IF Reachable(run[r].epoch)
     THEN Abort(run[r].epoch) /\ Goes(r, "clean up")
     ELSE UNCHANGED vars /\ run' = [run EXCEPT ![r].at = "clean up", ![r].outcome = "error"]
  /\ UNCHANGED <<available, permits>>

(* Fault: the permits of the epoch are left to the end of the invocation.  *)
Leave(r) ==
  /\ At(r, "clean up")
  /\ Goes(r, "done")
  /\ UNCHANGED <<vars, available, permits>>

(* _cleanup_reasoning_epoch, finally.                                      *)
CleanUp(r) ==
  /\ At(r, "clean up")
  /\ permits' = {p \in permits : p.epoch # run[r].epoch}
  /\ Goes(r, "done")
  /\ UNCHANGED <<vars, available>>

-----------------------------------------------------------------------------
RunStep(r) ==
  /\ Running(r)
  /\ \/ TakeSnapshot(r) \/ ReadSources(r) \/ ReserveWork(r) \/ ReservePublication(r)
     \/ Charge(r) \/ Execute(r) \/ Compute(r) \/ PrepareEffect(r) \/ Commit(r) \/ Refuse(r)
     \/ FindEffectStale(r) \/ FindEpochStale(r) \/ FindClosed(r)
     \/ Handle(r) \/ AbortEpoch(r) \/ CleanUp(r)

(* Owner.parent_close of the work owner: its permits lose their data.      *)
CloseParent(i) ==
  /\ BeginClose(i)
  /\ permits' = {p \in permits : p.epoch[1] # i}
  /\ UNCHANGED <<available, run>>

(* A run holds the CIE runtime, which therefore cannot be collected.       *)
CollectRuntime ==
  /\ \A r \in Runs : ~Running(r)
  /\ Collect
  /\ UNCHANGED local

RNext ==
  \/ \E r \in Runs :
       \/ RunStep(r)
       \/ \E i \in Invocations : Begin(r, i)
  \/ \E i \in Invocations : CloseParent(i)
  \/ CollectRuntime
  \/ (Staging \/ CoreTransition \/ CloseIssuer) /\ UNCHANGED local

RSpec == RInit /\ [][RNext]_everything

(* A run is a synchronous call: once begun, its thread goes on with it.    *)
FairSpec == RSpec /\ \A r \in Runs : WF_run(RunStep(r))

-----------------------------------------------------------------------------
(* What the sources entail in the branch of a run, with no regard to       *)
(* rounds, paths or limits: for each schema the least set closed under its *)
(* applications whose parents no constraint forbids together.              *)
More(S, given, schema) ==
  LET free(app) == Conflicts(given.constraints, Parents(app), given) = {}
  IN S \cup {Conclusion(app) : app \in {a \in Applicable(S) : Schema(a) = schema /\ free(a)}}

Closed(given, schema) ==
  LET upTo[n \in 0 .. MaxAssertions] ==
        IF n = 0 THEN Admitted(given.sources, given) ELSE More(upTo[n - 1], given, schema)
  IN upTo[MaxAssertions]

Entailed == [r \in Runs |-> Closed(Given[r], "if") \cup Closed(Given[r], "transitive")]

(* Whatever interrupts a run, its arena holds only what its sources entail *)
(* in its branch, and a FIXED_POINT holds all of it: "a complete committed *)
(* round finds no pending authorized derivation" (03_COGNITION.md:945).    *)
(* And no assertion supports itself: everything a derivation rests on has  *)
(* a derivation of its own that rests on less.                             *)
ConclusionsFollow ==
  \A r \in {q \in Runs : run[q].epoch # None} :
    LET A      == arena[run[r].epoch]
        stated == Admitted(Assertions(A), Given[r])
    IN /\ stated \subseteq Entailed[r]
       /\ run[r].outcome = "FIXED_POINT" => stated = Entailed[r]
       /\ \A x \in Derivations(A) :
            /\ Conclusion(x[1][2]) \notin x[2] /\ x[2] \subseteq Assertions(A)
            /\ \A p \in x[2] : p.basis = "derived" =>
                 \E y \in Derivations(A) :
                   /\ Conclusion(y[1][2]) = p /\ Schema(y[1][2]) = Schema(x[1][2])
                   /\ y[2] \subseteq x[2] \ {p}

(* What was charged can be published: the capacity checked when the work   *)
(* was authorized covers what the work turns out to add, whatever was      *)
(* found, as group_capacity promises ("complete-group entry envelope"),    *)
(* as far as the arena goes; the effect registry has a limit of its own.   *)
(* It holds of every evaluation, and of a seed unless its sources stand on *)
(* more roots than there are sources.                                      *)
ChargedWorkFits ==
  \A r \in Runs :
    At(r, "commit") /\ Dispatches(r) /\ Proven(r) =>
      \/ Publishable(run[r].epoch, run[r].output)
      \/ /\ run[r].operation = "SEED"
         /\ Cardinality(RootsOf(Given[r]))
              > Cardinality(Given[r].sources \cup Given[r].constraints)

(* A run that is over leaves no epoch open and no permit behind, whether   *)
(* it returned or raised and whatever ended the epoch first, and what it   *)
(* returned is the snapshot last published: no round is reported that was  *)
(* not committed, none is lost, and FIXED_POINT is reported exactly of an  *)
(* epoch that was published to its end.                                    *)
RunLeavesNothing ==
  \A r \in {q \in Runs : run[q].at = "done"} :
    LET e == run[r].epoch
    IN /\ status[e] # "OPEN" /\ \A p \in permits : p.epoch # e
       /\ run[r].snapshot = arena[e] /\ run[r].round = round[e]
       /\ run[r].outcome = "FIXED_POINT" <=> status[e] = "PUBLISHED"

Undisturbed(r) ==
  /\ tick = 0 /\ bound /\ Parent(r) \in active
  /\ run[r].epoch[2] = 0 /\ r \in Ample

(* Every call of run comes to an end, however it is interrupted; and the   *)
(* first run of an invocation, given what fits in every limit and left     *)
(* alone, ends in a fixed point: each round decides what it found, and no  *)
(* limit is met by finding the same again.                                 *)
RunsConclude ==
  <>[](\A r \in Runs :
         At(r, "idle") \/ (At(r, "done") /\ (Undisturbed(r) => run[r].outcome = "FIXED_POINT")))
=============================================================================
