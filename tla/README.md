# DGCA-LITE in TLA+

DGCA-LITE is a discrete cognitive architecture in three layers.  Layer 1, the
*Core*, is a network of cells that advances one atomic tick per event.  Layer 2
reads the Core through bounded retrieval sessions.  Layer 3, *cognition*, runs
reasoning, prediction and causal studies over what was retrieved, under budgets
that cannot be renewed, with capabilities that cannot be forged and with locks of
fixed rank.  Most of the hard behaviour is in Layer 3, where threads, the garbage
collector's finalizers, closes and Core events meet; the project models most of that
layer, the retrieval sessions of Layer 2, and the tick and the window of the Core
under them.

The repository's own specification of Layer 3 is `03_COGNITION.md`.  The models
are translated from the code; the document is quoted where a property says
something the code promises.

## 1. Inventory

| Part (source) | State it keeps | Operations | Hard behaviour |
|---|---|---|---|
| Core tick (`engine.py`, `network.py`, `temporal.py`) | cells, synapses, assemblies, version, tick; window of events, next root | `process_event` | validate all before mutating; network, then window |
| Activation, learning, resources, assemblies | none (functions of a snapshot) | per tick | arbitration, reclamation against references of the same tick |
| Persistence (`persistence.py`) | a file | `save_engine`, `load_engine` | a crash in a save |
| Memory (`memory/`) | a session: cue, capture, result | acquire, reconstruct, associate, separate | captures item by item beside a commit; stale receipts; completion kept up round by round |
| Barriers (`cognition/locks.py`) | a mutex each; per thread: stack, drain flag, queue of finalizers | `acquire`, `release`, finalizer deferral and drain | inversion; the collector calling in at any allocation |
| Handle registries (all of Layer 3) | a dictionary from `id(handle)` | create, look up, finalizer | reuse of addresses |
| Ingress (`ingress.py`) | issuer revision, occurrence and token index, last observation, continuity | `authorize_*`, `accept`, `process_core_event`, `invalidate`, `close` | one-shot issuance, late receipts |
| Invocations (`invocation.py`) | causes, lifecycle and revision, budget index, children | `admit`, `reserve`, `consume`, `retire`, `begin_close`, `finalize_close`, collection | close racing everything; nonrenewable budget |
| Epochs (`cie.py`, `arena.py`) | snapshot, round, pending stage, terminal status | `open`, `stage`, `publish`, `abort`, collection | builds outside barriers; stale environment |
| Work (`work.py`) | permits by token, owner's closing flag | `reserve`, `authorize_and_charge`, `execute`, `control`, causal and prediction variants | late results, one-shot claims |
| Effects (`effects.py`) | commits per owner, prepared requests | `prepare_effect`, `reserve`, `authorize_charge_and_commit` | two-phase revalidation, exactly once, rollback |
| Forecasts (`effects.py`, `prediction/`) | coverage, status, pending result, escrow pool | `seal_forecast`, delivery, `retry_forecast_publication`, `cancel_forecast`, retirement | exceptions at every step, retries after later events |
| Causal studies (`causality/`) | study state and revision, slots, receipts, RCEs, pending permits | `open_study`, `admit_case`, `open_rce`, `admit_bundle`, `compare`, `finish_study`, `abort` | staged mutation with rollback, revisions |
| Reasoning (`reasoning/`) | none of its own; epoch, permits | `run`: seed, discover, evaluate, publish, round by round | everything may end between two of its calls; limits met after work was paid for |

**Interactions.**  A trusted issuer (ingress) authorizes occurrences; an invocation
is admitted for one of them and owns a budget.  Its epoch, its work owner, its
effect owner and its studies are called back by `begin_close` and by the runtime's
finalizer, in that order.  Work and effects charge the invocation's ledger; a study
escrows its charges in the same ledger; a forecast takes its 2H units away into a
pool of its own and outlives its invocation.  A Core event is delivered to the
forecasts under the Core barrier.  All of it runs under barriers ranked Core 0,
lifecycle 1, ledger 2, arena 3, owner 4, registry 5; pure work is computed outside
every barrier.  Finalizers of handles take barriers too, and are deferred when
their thread is under one.

**What makes each part correct.**  Ledger: a unit has one owner and never comes
back.  Invocation: children are counted exactly, a close only reduces and drains.
Barriers: no wait cycle (which the code does not
achieve, see Findings) but through one window, no finalizer under a barrier its thread
has on its stack, none forgotten.  Registries: a
live handle stays registered.  Epoch: one open epoch per invocation, a round is
claimed once and extends the snapshot it was claimed on.  Work: one charge and one
execution per permit, nothing survives its context.  Forecast: a verdict says what
the window shows, the window follows the Core, each offset is paid once.  Effects:
a commit is published and charged exactly once.  Ingress: an occurrence is issued
once.  Causality: a staged mutation happens entirely or not at all, no admission is
substituted and nothing is published in another environment.  Reasoning: what is
concluded follows from the sources, what is charged can be published, every run ends
and leaves nothing behind.  Retrieval: a capture is of one version (see Findings
for a session beside a commit), and what is retrieved from it is what the whole network
gives.  Core: the tick is atomic and
nothing referenced is reclaimed.

## 2. Modules

| Module | Models | Run by |
|---|---|---|
| `Ledger` | one budget index: reserve, take, delegate, consume, retire, escrow | through its users |
| `Allowance` | what a budget promises, and nothing of how | refinement in run `barriers_invocation` |
| `Invocation` | runtimes, causes, lifecycle, children, studies as children | `MCInvocation`, in `MCBarriersInvocation` |
| `Barriers` | ranked barriers, the collector, deferral and drain | `MCBarriers`, alone and in `MCBarriersInvocation` |
| `Handles` | registries by address and their finalizers | `MCHandles` |
| `Epoch` | epochs, stages, arena snapshots | `MCReasoning`, through `Reasoning` |
| `Reasoning` | runs of the reasoning runtime over the epochs of `Epoch`, and inference as operators | `MCReasoning` |
| `Work` | permits, workers, and the contexts that revoke them | `MCWork` |
| `Forecast` | sealed forecasts and their escrow | `MCForecast`, alone and in `MCRetrievalForecast` |
| `Effects` | the two-phase commit gate and its publication | `MCEffects` |
| `ExactlyOnce` | what the commit gate promises, and nothing of how | refinement in run `effects` |
| `Ingress` | issuers of one Core, their records and receipts, the observation watermark | `MCIngress`, in `MCCoreIngress` |
| `Causality` | a domain and its studies, from open to report | `MCCausality` |
| `CoreTick` | one event, one tick: plan, validation, publication, window; save and load | `MCCoreTick`, alone and in `MCCoreIngress` |
| `Retrieval` | a retrieval session beside a Core that commits | `MCRetrieval`, alone and in `MCRetrievalForecast` |
| `LedgerProofs`, `InvocationProofs`, `CoreProofs`, `ReasoningProofs`, `WorkProofs`, `PredictionProofs`, `DomainProofs`, `EffectsProofs` | theorems, see section 5 | |

`Invocation`, `Work`, `Forecast` and `Effects` compose with `Ledger` by EXTENDS: each holds one
or more indexes as state and publishes the prospective index an operator returns,
which is how the code does it (`item.budget.index = staged`).  `Reasoning` composes with
`Epoch` by EXTENDS, and every call a run makes there is an action of `Epoch`: that is
what `RunsUseEpochs` proves.  `Causality` keeps the escrow of its studies itself, as a
function from planned steps to unit states; that such an escrow is cut out of the
invocation's index without overlap is `Invocation`'s matter.

### How state and actions correspond

* **Atomicity.**  An operation that runs under the lifecycle barrier (and those
  below it) from its first check to its last assignment is one action.  What the
  code runs outside the barriers is a step of its own: the build of a batch between
  `Claim` and `Attach` (`Epoch`), the computation between `Start` and `Finish`
  (`Work`).  `Barriers` justifies this, and is where single statements are steps.
* **Refusals** change nothing in the code and are stuttering steps; a refusal that
  ends something (`terminal_failure`) is an action.
* **Identities** (`CanonicalDescriptor`, tokens) are the numbers they are derived
  from: sequence numbers, ordinals, roots.
* **Ledger.**  `units[i] = [state, reservation]`; `records[q] = [units, work]`;
  `Chosen` is the lowest available units, `Take` the new index.  A forecast's units
  become `DELEGATED_FORECAST_POOL` in the parent; the pool is part of `Forecast`.
* **Invocation.**  `lifecycle[c]` is `(state, revision)`, `children[c]` the counter
  `nondelegated_children`, `epoch[c]` whether `cie_child` is set.  Callers use any
  revision.  `CollectRuntime` is the finalizer of a runtime.
* **Barriers.**  A thread is a stack of frames: user code, and finalizers called
  into it.  `TakeMutex` and `PushStack` are `acquire` before and after the mutex is
  granted.  `Collect` is the collector calling a finalizer at any point where the
  interpreter may collect: CPython 3.12 and later, which the package requires, does so
  when a function is entered and when a call returns.  So it may run between the grant
  (`locks.py:68`) and the stack entry (`:71`), between the entry of `_drain_cleanup` and
  its flag (the state "start" of a drain), and between a look that found no queue at all
  and the clearing of the flag (the state "none"); not between a look at an empty list
  and the clearing, where nothing is called ("exit").
* **Handles.**  An address is given to at most one *live* object.  `Guarded` says
  whether the finalizer compares the entry with its own before it removes it, as
  those of `invocation.py` and `ingress.py` do, and the others do not.
* **Epoch.**  `arena[e]` is the set of entries, `round[e]` both version and round;
  `pending[e]` the stage with the claim; `tick` stands for everything an environment
  binding names.  `reasoning` selects the other way to publish a round.
* **Work.**  A permit is `[kind, unit, snapshot, state, held, output, listed]`:
  `held` is the frozen work, `output` the result, `listed` whether the owner's index
  still has it.  A causal permit that failed keeps its `binding` in the code until its
  epoch, study or invocation ends; the model follows the work and not the binding, which
  nothing reads of a FAILED record.  `EpochClosed`, `EpochRetired`, `ParentClosed`, `CausalDiscarded` are
  the four ways a context takes permits back.
* **Forecast.**  A record is `[status, live, origin, coverage, pending, pool]`.
  `Evaluate` returns every record the code may leave behind; `Faults` names the
  exceptions that may be raised, each at a point where the code has a handler or a
  hook for it.  The delivery of one event to all live forecasts is not interleaved
  with anything else, because it is under the Core barrier.
* **Effects.**  What a commit is identified by is the effect, environment, revision
  and snapshot its request was frozen with; callers present any of them with any
  charge.  `Lookup` is the first phase and `Decide` the second: between them no
  barrier is held and anything may happen.  Each `Assign` is one of the consecutive
  assignments, `Interrupt` an exception between two of them and its handler.  They
  run under every barrier, so nobody else sees them: `Visible` is the state before
  while a publication is under way.
* **Ingress.**  Every call of an issuer runs under the barrier of its Core from its
  first check to its last assignment, so every call is one step; a refusal and a
  source presented again change nothing and are stuttering steps.  `audit` is what
  outlives the issuers of a Core: the tokens of the events that were observed and
  the position of the last.  `Abandon` drops the last reference to an
  issuer and `Discard` is its finalizer, which may have to wait; a second `Close` comes
  from a caller that passed `state_for` before the first.  `Unsupervised` is the program
  driving a Core between two issuers.  `minted`, how many capabilities were made for each
  source, and `delivered` are history.
* **Causality.**  `study[s]` is `_Study` with its slots, requests, issued receipts,
  pending computations and RCEs, or the tombstone of an ended one; `commits[s]` the
  effects of the study with what they published.  A case and a comparison are calls in
  three parts, where `call[t]` is: `Prepare` pays and freezes the input under the
  barriers, `Claim` to `Compute` runs outside them on a one-shot permit, `PublishCase`,
  `PublishStudy` and `PublishReplay` publish under them again.  `Publications` gives
  every state a publication may leave: the four assignments done, or an exception after
  the first n of them and `RolledBack`.  `reused` says that the new handle got an
  address that `handle_ids` still lists.  `Revise` reduces any of the studies, since an
  exception may stop it on its way; `CloseDomain` and `BeginClose` reduce all.
* **Reasoning.**  `run[r]` has the local variables of `ReasoningRuntime.run` and where
  it is.  Every call of it into the epoch, the ledger or a permit takes the barriers for
  itself and is one step.  An arena entry is a kind, a name and a value; candidates,
  witnesses, ancestry, preflight and evaluation are operators on an arena.  What a run
  is given is a constant, `Given`: sources and constraints of a branch.
* **Retrieval.**  `net` is the network with its index of memberships, `published` the
  committed networks (its length is the version), `writes` the assignments of a commit
  that are still to come, a set that `Before` orders as the loops of `commit` do.
  `Capture` reads one cell or one assembly, stage by stage in
  the order of `acquisition.py`; `Accept` compares the version and settles.  `Lane` is
  the completion the code keeps up from round to round; `FromScratch` the reference.
  `beside` remembers that a commit was under way when a capture was accepted.
  Qualities and drives are exact fractions.
* **CoreTick.**  `net` is `SparseNetwork` with every derived index the code keeps
  (`incoming`, `index`, `memberships`, `nextId`); `tick` and `version` move together
  and are one number.  Real numbers are abstracted to what the structure depends on:
  a cell is active or not, a synapse is "firm" (CONSOLIDATED, and good enough for an
  assembly) or a "candidate".  What a number decides is a choice: which cells become
  active, which synapse becomes firm, which candidate gives way to which proposal,
  whether the event is novel enough to block (all rejected proposals are blocked, or
  none), which member or neighbour is specific, in which order the growths are tried.
  `Supported` is what the planner asks of a pair (`reciprocal_quality >= theta_A`) and
  `Qualifying` what the validator asks (two CONSOLIDATED synapses, good enough);
  `ThetaPositive` says whether theta_A is above zero, which makes them the same.
  An enumerated pair always has positive evidence, and supplied evidence against it
  conflicts with that and updates nothing, so a synapse only gains.  01_CORE_v0.4.md:1511
  and :1531 expect that contrary evidence can demote a synapse; in the code it cannot,
  and the model follows the code.  The plan is
  computed from the snapshot, `Lawful` is the validation of `commit`, and network,
  window and root change in one step because nothing can fail between them.
  `Loadable` and `Rebuilt` are the checks and the rebuilding of `load_engine`: every
  behaviour starts from a saved state, and every state reached could be saved and
  loaded.

## 3. Runs

| Run | Question | Bounds and why they are enough |
|---|---|---|
| `barriers_invocation` (invocation) | Do reservations, a forecast and a study cut one index without overlap, and do a close and the collection of the runtime drain it? Does it implement `Allowance`? | 4 units: a study's escrow of 2, its opening charge and one more compete with a delegation of 2 or 4. One epoch. Two causes, and room for one of them. One runtime: runtimes share nothing, and `MaxRuntimes` of 2 leaves room to create its identity again. |
| `barriers_invocation` (barriers) | Where can a wait cycle come from, where do finalizers start, and does every one run to its end? | two threads, two lifecycles and an arena; nesting 2; two finalizers, one nested: a cycle needs two of each. The wait cycles of `barriers_cycle` are among the states |
| `barriers_cycle` | Is there a wait cycle at all? | the same instance; expected violation, see Findings |
| `handles_unguarded` | Does a live handle stay registered when finalizers do not ask whose the entry is? | 4 handles at 2 addresses: an address is used three times. Expected violation, see Findings; with the question asked, `LiveHandlesStay` is proved |
| `reasoning` | Are conclusions entailed, can what is charged be published, does every run end and clean up, whatever ends under it? Rounds, limits and endings of epochs | two policies: one without reasoning, with two stage calls and limits of 2 rounds and 1 entry; one with runs given five arguments: a circle of conditionals with a blocked and an unassumed conclusion, one that reaches each of the limits on roots, entries, closure and checks. Two epochs, one Core transition, 12 units |
| `causality` | Do the accounts of a study agree after any exception, is nothing substituted, reused or published late, do equal contrasts agree? | two threads; one study of four plans: two slots compared independently, a second attempt, an intervention with randomization, a replay that runs one contrast twice; one revision of the domain, two snapshots: each ends a computation under way |
| `work` | Charges, claims, late results, revocation | two workers, three permits of any kinds, two epochs, one study |
| `retrieval_forecast` (forecast) | Verdicts, order, escrow, append-only and complete coverage under every exception | horizons 1 and 2, three events after the first root: one beyond the horizon |
| `core_ingress` (ingress) | Can replacement, closing, invalidation and collection of issuers mint an occurrence or an event twice, or leave a constraint without its assumption or a prediction behind the Core? | three identities of which the Core may use two, one after the other; one source occurrence with two contents, two events, two invalidations; capacity 2, so that it is reached with a record of an earlier revision |
| `core_ingress` (core) | Does `commit` accept whatever `process_event` plans, do cells live exactly as long as something refers to them, can every state be saved and loaded? | three saved states over three cells in a row and a fourth out of their reach, budget 2, horizon 2, one recruitment a tick, assemblies of 2 or 3 members, 2 of them per cell; two ticks: one to lose the last reference, one to be trimmed or reused. Growth, formation, dissolution, deduplication, expansion, pruning and reclamation all happen; theta_A is above zero |
| `core_tick_zero` | The same question at theta_A = 0 | one tick from a saved state in which a consolidated pair has a candidate beside it, three members needed; expected violation, see Findings |
| `retrieval_forecast` (retrieval) | How far can an accepted capture be from its version, and is the result of one made outside every commit that of the whole network? | three networks of five cells: completion in two rounds, a hop, branches, sources that overlap and dominate, an assembly and a cell that go; five cues of one cell or two; two commits, assignment by assignment, before, during and after a capture |
| `retrieval_mixture` | Is an accepted capture the network of one version? | the same instance; expected violation, see Findings |
| `effects` | Do racing callers, retries, closes, ended epochs, retired reservations and interrupted publications leave each effect charged and committed once, in its context? Does the gate implement `ExactlyOnce`? | two callers; an effect of every kind; 3 units and 2 commits: each limit is met before the other; one epoch of one round, one Core transition |
| `forecast_escape` | Is a completed horizon decided after an exception outside the clause? | expected violation, see Findings |

Three runs check two instances side by side: the MC module extends both, declares a
variable `part`, and lets only that part take steps while the other rests in an initial
state.  Their states add and do not multiply, and nothing is shared between them.  The
two of a pair have nothing to do with one another; they are paired for what they cost.

`CHECK_DEADLOCK FALSE` is set where a behaviour ends: an invocation is closed, the
epochs, permits, roots or commits of the bound are used up, or, in `Barriers`, two
threads wait for one another.  `handles_unguarded` checks deadlock.

**Fairness.**  `Invocation!FairSpec` assumes that the owner who has begun a close
goes on to retire what is unused and to finalize, which is what the document asks of
it ("caller drains outside the barrier", `finalize_close`).  `Barriers` assumes none:
`EveryCleanupRuns` speaks of threads that drain again and again.  `Reasoning!FairSpec` assumes that a
run goes on: its steps are the code of one thread, which the scheduler runs, and no
call it makes waits but for a barrier.  Nothing assumes that the collector runs, that
the Core moves or that a caller calls.

**Mutants.**  Definitions whose comment starts with "Fault:" are plausible bugs (a
dropped guard, a missing reset, a swapped order); each property is violated when one
of them replaces the definition after it.

## 4. Findings

* `handles_unguarded`: `cie.py:269`, `cie.py:533`, `work.py:749`, `effects.py:1258` remove
  whatever entry is at the address.  A deferred finalizer can revoke a new, live
  handle at the same address: its next use fails with `CIE_STALE`.
* `forecast_escape`: an `IngressAbort` of the capture, raised after the CAPTURE unit
  was charged, is not among the exceptions that make a gap (`effects.py:1456`); the
  forecast stays `PENDING` past its horizon.
* `barriers_cycle`: a mutex is taken before the thread's stack names its barrier
  (`locks.py:68-71`).  A finalizer that the collector calls in between finds an empty
  stack, is not deferred, and takes its barriers under that mutex, in any order of
  ranks; two threads so interrupted wait for one another for ever.  `locks.py:1` promises
  "mechanical lock-order enforcement" and `:14-16` that cleanup waits for the outermost
  release.  Putting the barrier on the stack first would close the window.  That it is
  the only one is `CyclesNeedTheWindow`.
* `core_tick_zero`: with theta_A = 0, which `config.py:103` admits, the planner takes a pair
  without consolidated synapses for support (`reciprocal_quality` is then 0.0,
  `assemblies.py:84`) and the validator does not (`network.py:300-314`): the tick plans an
  assembly that the commit refuses, and so does every repetition of the event.
* `retrieval_mixture`: `SparseNetwork.commit` moves the version last (`network.py:397`), so a
  capture that lies wholly inside one commit finds the version it started with and is
  accepted with a mixture of two networks, where 02_MEMORY_RETRIEVAL.md:335 expects
  `SNAPSHOT_ABORTED` and :3102 "one coherent Core/configuration state".  It takes a user
  who drives the Core and a session from two threads.  How far the mixture can go is
  `MixturesAreOfOneCommit`: two neighbouring networks, and no more.

Not findings, but to be known:

* An occurrence delivered while the publication of the previous result fails again gets
  no offset (`effects.py:1426`).  `WindowIsComplete` allows exactly that, through the
  flag `missed`.
* A finalizer queued after a drain's last look (`locks.py:37`) and before the flag is
  cleared (`:41`) is still queued when the outermost release returns, where `locks.py:14-16`
  promise it has run.  It runs in the thread's next drain, which is what
  `EveryCleanupRuns` says.

## 5. Proofs

**Budgets and invocations.**  `LedgerProofs` has the lemmas about the operators of an
index: what they take, keep and retire, and that a reservation of n units takes n, no
more and no fewer (`LowestAreAsMany`, by ranks among the available units; `LeastMember`,
that a set of naturals has a least element, comes from the well-foundedness of finite
sets, which the library states without an operator parameter).  `InvocationProofs` proves, for every set of
runtimes, causes and studies and every budget and capacity, that `Spec` implies
`[]TypeOK`, `[]ReservationsOwnTheirUnits`, `[]ChildrenAreCounted`, `[]ClosedIsDrained`,
`[]EscrowEndsWithStudy` and `NoRefund`.  `ReservationsOwnTheirUnits` (a unit has one
owner) and `NoRefund` (no unit comes back) are stated and proved there and checked by
no run of their own: run `barriers_invocation` checks the others, and `Allowance`.
The inductive invariant is `Inductive`.  The conjunction of the checked invariants is
not inductive: that an ended study's escrow is empty needs its reservation numbers
to lie below the ledger's sequence and not to overlap another study's, and that a
closed invocation has no child needs the counter to be exact.  The proof has one
lemma per action (`AdmitKeeps`, `OpenStudyKeeps`, `BeginCloseKeeps`, ...) and one
step per conjunct the action can disturb; `NextInductive` puts them together, and the
theorems follow by PTL.  The assumptions are `InvocationAssumption`, which TLC
evaluates on every run of the module.

`CloseOnlyReduces` and the refinement `KeepsAllowance` rest on `Deed`, which says what a
step does to one cause: nothing, begin it, spend of it, reduce it or end it.  `Deeds`
proves it of every step from the invariant; `OthersUnmoved` is that a step of one cause
leaves the others alone.  `Amounts` and `AmountsMove` turn what a step does to the units
into what it does to their numbers (what is left, what was charged), and
`DeedKeepsAllowance` finds in each deed the action of `Allowance` it implements.

**Barriers.**  The first part of `CoreProofs` proves `CyclesNeedTheWindow` and
`CleanupsAreDeferred` for any threads, barriers, ranks and finalizers, wherever the
collector runs, from `BarriersAssumption`.  The invariants are `Framed`, that of the
frames of a thread only the innermost waits and holds what its stack names, while the
others have come at most to a mutex just granted or to the start of a drain; and
`Ranked`, which adds that the ranks on a stack ascend up to the barrier that is being
acquired (`Ascending`) and that a thread is inside exactly the mutexes its stack names or
its frames are just entering, as often as they say (`Truthful`).  Among threads that wait for one another and were never
interrupted there, one wants a barrier of the greatest rank; the thread inside it would
want one above.

**Registries.**  The second part of `CoreProofs` holds the theorems of `Handles`, through
`H == INSTANCE Handles`: `LiveHandlesStay` from `Guarded` (if finalizers ask whether the
entry is theirs, a live handle is never unregistered, at any number of addresses and
however late a finalizer is), and `NothingIsLeaked` without it.

**The tick.**  The third part of `CoreProofs` proves all three properties of `CoreTick`,
for any cells, neighbourhoods, saved states, budgets, thresholds and number of ticks;
`PlansAlwaysLawful` with theta_A above zero (`ThetaPositive`), without which it is false.
`CoreTickAssumption` says of the thresholds what `CoreConfig` checks (config.py:104-114)
and of `Compact` that what lies within the radius still does with fewer members
(topology.py:116 measures a diameter).  `SeedsAssumption` (`Savable`) is what `load_engine`
takes on trust of a file: that the counters are beyond the identities in use, the
window ends before the tick and names cells that are there, and no cell is stored that
nothing refers to.  The theorems are also that every reachable state is such a state
again: `Savable` is a part of the invariant, with `Loadable`, which is what the loader
checks, and `Indexed`, that the derived indexes are those it would build.

The proof follows the code.  Planning: `MaintainedFits`, `GrownFits` and
`FormsArePlanned` carry `Fit` (sizes, radius, connection, distinct members, memberships
per cell) from what stands to what is planned; `ArbitrationFits` bounds the synapses of
each source, and says that a source at which a proposal was rejected keeps one;
`WindowExtends` dates the window.  `EventIsSensible` puts them together: what
`process_event` hands to `commit` is `Sensible`.  Validation: `CountsHold` and
`PlanIsLawful`, that a sensible transaction passes every check of `commit`, so that it
is never refused.  Publication: `PublishedIs`, that the indexes updated piece by piece are
those of the new network, and `CommitHolds`, that a cell without a reference has been a
candidate of the tick in which it lost the last one.  A component is defined as what
every closed set contains, and growth as a recursive function, so that both can be
reasoned about: `ComponentIsConnected`, `ConnectedByOneMore`, `GrownGrows`.

**Epochs and reasoning.**  `ReasoningProofs` proves `EpochsAreSound` (types, one open
epoch, a claimed round is not stolen) and `OnlyLivePublish` of `Epoch`, for all policies
and any number of stage calls; that the runtime implements that interface (`RunsUseEpochs`:
`RSpec => Spec`, each step of a run maps to a step of an epoch or to none); takes the
theorems of `Epoch` over to it (`RunsShareNoEpoch`, `RunsPublishLive`); and proves
`RunsLeaveNothing`: a run that is over left no epoch open and no permit, and reports the
snapshot last published.

The second half proves `ChargedWorkAlwaysFits` and `ConclusionsAlwaysFollow`, for
arguments of any size, from `ReasoningAssumption`: sources and constraints are finite
and distinct, stand on finitely many roots, no source is called derived (the code has
no constructor for that label), and a constraint asks about one participant or about
two (`combinations(.., 2)`).  Neither property carries itself.  `WorkInv` says of each
run what its snapshot is (`Lawful`: one entry under each key, and the value of all but
a derivation given by its key), where its assertions come from (`Reasoned`: each derived
one has a derivation that `Rests` on admissible, unforbidden parents, and everything it
rests on has a derivation of its own that rests on strictly less), and, between
authorization and commit, that the charge still covers the work (`Covered`, `Made`).
`ChargedWorkFits` then is counting: `EvaluatedBound` and `SeedFits` bound the entries by
the envelope, over sums (`UnionSums`) and pairs (`Subsets`); a batch that agrees with
itself and with the snapshot never conflicts (`LawfulAgrees`).  For `ConclusionsFollow`,
`NextFollows` takes, of what is stated and has not been found to follow, a derivation
that rests on the fewest: its parents all follow, so it follows in the next step, and
`HeldFollows` concludes since an arena has at most `MaxAssertions` assertions.
`FollowsHeld` is the converse at a fixed point: where `Candidates` is empty, whatever
would follow is blocked, done already, or its conclusion is among what its own parents
rest on.  Recursion and sums are recursive functions over finite sets, whose existence
is proved (`RisingExists`, `SummingExists`) by counting up (`CountUp`).

**Work.**  `WorkProofs` proves `PermitsHaveCharges`, `WorkEndsWithContext` and
`PermitsAreOneShot` for any permits, workers, classes and budgets, from `WorkAssumption`.
The checked invariants do not carry themselves: that no two permits have one unit needs
every unit of a permit to be consumed in the sound ledger of its own owner (`Charged`),
that a permit ends as its worker ends needs a running permit to have one worker
(`Executing`), and that nothing outlives its context needs what an epoch's or parent's end
has emptied to stay so (`Kept`, `Closed`).

**Forecasts.**  The first part of `PredictionProofs` proves `VerdictsTell`, `EscrowPaysOnce`,
`WindowsAreComplete` and `AdmittedResultsStay` for any forecasts, events and budget, from
`ForecastAssumption`.  The invariant is stated about one record and proved of every record
`Evaluate` and the other operations may return, so the lemmas are about operators, not
steps: `Waits`, `Pays`, `Tells`, `Dates` and `Complete` say what a pending offset, a
payment, a verdict, a date and a finished window rest on; `Advances` and `Narrows` what an
operation may do to the record.  That each offset is paid by a unit of its own rests on
`LowestAreAsMany`: the pool was delegated with as many units as the window has offsets.

**Retrieval.**  The second part of `PredictionProofs` proves the properties
`MixturesAreOfOneCommit` and `RetrievalIsOfTheWhole` of `RetrievalSpec`
(`MixturesAlwaysOfOneCommit`, `RetrievalsAreOfTheWhole`), for any cells,
assemblies, networks, cues, thresholds and number of commits.  `RetrievalAssumption` says
that cells and assemblies are finitely many, that synapses and members are cells of the
network, and that qualities, activations and cues count halves.

That an accepted capture outside every commit is of one version needs to know what the
Core is while a commit is being written.  The order of its assignments matters only in that an assembly is
dropped before it is added, and unlinked before it is linked (`InTurn`); so what is left
of them says what the network is (`Halfway`), and a commit that has nothing left has
written exactly the new network.  If no commit was under way when the version was
compared, none was written since it was read: the capture is then `Partly` a network,
a `Snapshot` of cells and assemblies that the cue reaches (`Allowed`), and each item
read adds to it what `AssemblyRead`, `SourceRead` and `CellRead` say.  `NothingLeft`: when
every stage has read everything, it is the `Closure` of the cue.

For a capture inside a commit the same description of the Core gives
`MixturesAreOfOneCommit`: a network half written is read as old or as new
(`HalfwayIsOfEither`), reading one more item keeps a capture to the two
(`ExtendedIsOfEither`), and the commit that follows stays the same one until the version
moves (`PiecesKeepFitting`, `MixtureKeeps`).

That such a capture suffices is proved of whatever `Agrees` with the network on what the
cue reaches; the closure does and the whole network does, and `SettledIs` says that both
settle to one outcome, written in terms of the network alone.  It takes three arguments.
A product of fractions does not depend on the order in which it is taken, and can be
split (`ProductSteps`, `ProductSplits`): so what a lane keeps of a cell that may still join is
what it would compute anew, from round to round (`InStep`, `RoundsAreInStep`), and a lane
is a completion from scratch (`LanesAreExact`).  A lane, the hop and a branch ask only for
qualities inside assemblies the cue reaches and for what leaves their cells (`LanesAgree`,
`HitsAgree`, `BranchesAgree`).  A family is closed after as many steps as there are
sources, for each step but the last adds one (`FamiliesAreClosed`); a source that dominates
has more witnesses, so a family of finitely many keeps one that none dominates
(`FamiliesKeepOne`).  Folds and recursive functions are defined by CHOOSE: that there is
such a function, and that it steps as it is written, are lemmas (`FoldingExists`,
`FoldingTakes`, `LaneRunsOn`, `FamilyRunsOn`), by counting up to a finite bound (`CountUp`).

**Ingress.**  The second part of `DomainProofs` proves `AuthorizedOnce`,
`ConstraintsStandOnAssumptions` and `PredictionSeesEveryEvent` of `IngressSpec` for any
Cores, identities, occurrences, events, invalidations and capacity, from
`IngressAssumption`, which says besides the numbers that runtime identities are not
Cores.  That nothing is authorized twice needs to know where the first
authorization is remembered (`OnceEach`): that of an occurrence in the index of its
issuer, which is lost only with the issuer; that of an event in the index of the issuer
the watermark names, or behind the watermark.  `NothingIssued` treats the steps that issue
nothing together, `MintKeeps` what a new capability does to an index.

**Causality.**  The first part of `DomainProofs` proves all six properties of the run,
for any studies, threads, plans, cases and number of revisions, and an exception after
any assignment of any publication.  `CausalityAssumption` asks that the two slots of an
independent comparison differ, which the plan of a study checks (study.py:75), and that
controller receipts are of the three kinds there are.  The invariant is about one study
at a time.  `Sound` says of its record, escrow, effects and handles that they have their
shape (`Shaped`), that units, revision, effects and pending work agree (`Accounted`), that
independent slots hold different occurrences (`Separate`), that a study that is over keeps
nothing (`Over`), and that a computation whose study has the revision it was paid at was
made from the admissions as they stand (`Current`).  Three more parts relate studies to what they share: the registry
(`Registered`), the threads inside a call (`Calling`) and the audit of contrasts
(`Audited`).  `PublicationOutcome` says what a publication can do to a study: the change
it was made for, what its reduction leaves, or, interrupted at any assignment, nothing.
So most lemmas are about records, and one action's lemma concludes the invariant and
`Lawful`, which is what the two action properties `AdmissionsStand` and
`PublishesInItsEnvironment` ask of a step.

**Effects.**  `EffectsProofs` proves `ChargedExactlyOnce`, `CommittedInContext` and the
refinement `CommitsExactlyOnce` for any callers, effects, budget and limits, from
`EffectsAssumption` (the work classes contain the effect operations, the limits are
naturals).  The invariant says of a publication under way, `Underway`, that one caller
has it, that its plan adds one commit and consumes one RESERVED unit of what was there
before, and how far the assignments have come; and of what readers see, `Balanced`,
that the charges of the registry are the consumed units, one to one.  A commit becomes
visible in `Leave`, which is the only step that maps to `Commit` of `ExactlyOnce`;
`CollectRuntime` maps to `Forget`, a close to `Close`, everything else to a stutter.

The same module proves `RoundsCountCommits`.  The invariant `Counting` adds what a
publication under way has done to the round and what it still owes: published snapshots
lie before the latest (`Ordered`), the round of an epoch is the number of its `PUBLISH`
commits (`Counted`), and the assignments came in the code's order (`Planned`), so that a
rollback finds what it has to restore.

Only model-checked: liveness (`ClosingCompletes`, `EveryCleanupRuns`, `RunsConclude`),
which is out of this prover's reach.  Every invariant and action property of the passing
runs is proved.

## 6. Not modelled

Canonical encoding (`identity.py`, `serialization.py`): its injectivity is a matter of
byte layout.  Floating-point dynamics of the Core (`activation.py`, `learning.py`):
outside TLC's reach; `CoreTick` keeps what they decide about the structure.  A crash in
the middle of `save_engine`: the file is replaced by `os.replace`, whose atomicity is
the operating system's.  Limits on bytes and depths
of a value: data.  Timed or non-blocking acquisition of a barrier: never used.

Left out of what is modelled:

* `Reasoning`: ground states are asked by the code in the pairs that a constraint can
  exclude, by the model in all pairs; duplicate participants and modal entries; the
  capacity of effect commits; reservations of a run that failed stay RESERVED, in the
  code as in the model.  The run's group capacity counts sources and not the roots they
  stand on, so that a seed may be charged and then aborted by the arena (`Scattered`).
  Schemas do not chain (03_COGNITION.md:788), and the code agrees.  `modal.py` derives
  the same records from retrieved memory.
* `Causality`: the rollback of `open_study` itself, exceptions in the clean-up after a
  publication, the number of commits an owner may have, sequence numbers of receipts;
  matching and classification are data.
* `Retrieval`: floats, the capacities of a snapshot, which can only abort, and the
  provenance records.  No thread switch happens inside the reading of one item or
  inside one loop of the commit.
* `Work`: permits of a forecast capture, which live and die under one barrier, and the
  byte limits of an envelope.
* `Forecast`, `Ingress`, `CoreTick`: read-only views, geometry and the surface codec.

## 7. Plan

Done, in this order: ledger and invocations, barriers and registries, epochs, work,
forecasts, effects, the Core tick, ingress, causal studies, reasoning, retrieval.  Left:

1. Pure algorithms with reference definitions: synapse arbitration (`learning.py`),
   modal derivation (`reasoning/modal.py`), matching of cases.
2. The composition of `Causality` with the ledger's escrow, in place of its own.
