-------------------------------- MODULE Epoch --------------------------------
(***************************************************************************)
(* The cognitive inference epochs of cognition/cie.py: an arena snapshot   *)
(* that grows one round at a time, each round claimed before its batch is  *)
(* built outside every barrier and checked again when the batch is         *)
(* attached and when it is published.  Between those calls the Core may    *)
(* advance, the invocation may close, the epoch may be aborted or dropped, *)
(* the issuer may close and the runtime may be collected.                  *)
(*                                                                         *)
(* An entry is a key with a value; a batch is a set of entries.            *)
(***************************************************************************)
EXTENDS Integers, FiniteSets

CONSTANTS Invocations,
          MaxEpochs, \* CIEPolicy.max_cies
          Policies,  \* the other limits of CIEPolicy, and whether a reasoning
                     \* policy is attached: rounds are then published by effects
          MaxTicks,  \* bound on the Core transitions
          Stages,    \* one for each stage call that claims a round
          Entries,   \* pairs of a key and a value
          None

Epochs == Invocations \X (0 .. MaxEpochs - 1)

ASSUME EpochAssumption ==
  /\ MaxEpochs \in Nat /\ MaxTicks \in Nat
  /\ Policies \subseteq [reasoning : BOOLEAN, rounds : Nat, entries : Nat, staged : Nat]
  /\ None \notin Epochs \cup Stages

VARIABLES tick,      \* version of the Core that every environment binding names
          bound,     \* the issuer is open, so the Core binding can be read
          retired,   \* the CIE runtime was collected
          policy,    \* the policy of the CIE runtime, frozen when it is created
          active,    \* invocations that are ACTIVE
          child,     \* invocation.cie_child
          sequence,  \* invocation.cie_sequence
          status,    \* "unborn", "OPEN" or the terminal status of an epoch
          env,       \* the Core version of the epoch's binding
          arena,     \* entries of the epoch's latest snapshot
          round,     \* its arena_version and round_identity, which move together
          pending,   \* the stage that claimed the next round
          stage      \* what became of each stage call

vars == <<tick, bound, retired, policy, active, child, sequence,
          status, env, arena, round, pending, stage>>

(* Two entries of one key, with different values.                          *)
Conflict(batch) == Cardinality({x[1] : x \in batch}) < Cardinality(batch)

Unclaimed == [state |-> "unclaimed", epoch |-> None, base |-> 0, batch |-> {}]

Init ==
  /\ tick = 0 /\ bound = TRUE /\ retired = FALSE
  /\ policy \in Policies
  /\ active = Invocations
  /\ child = [i \in Invocations |-> None]
  /\ sequence = [i \in Invocations |-> 0]
  /\ status = [e \in Epochs |-> "unborn"]
  /\ env = [e \in Epochs |-> 0]
  /\ arena = [e \in Epochs |-> {}]
  /\ round = [e \in Epochs |-> 0]
  /\ pending = [e \in Epochs |-> None]
  /\ stage = [s \in Stages |-> Unclaimed]

world == <<tick, bound, retired, policy, active>>

-----------------------------------------------------------------------------
(* CIERuntime.open, under the Core barrier.                                *)
Open(i) ==
  /\ bound /\ ~retired /\ i \in active
  /\ child[i] = None
  /\ sequence[i] < MaxEpochs
  /\ LET e == <<i, sequence[i]>>
     IN /\ child' = [child EXCEPT ![i] = e]
        /\ status' = [status EXCEPT ![e] = "OPEN"]
        /\ env' = [env EXCEPT ![e] = tick]
  /\ sequence' = [sequence EXCEPT ![i] = @ + 1]
  /\ UNCHANGED <<world, arena, round, pending, stage>>

(* Fault: the invocation still names the epoch that ended.                 *)
FinishUnlinked(es, code) ==
  /\ status' = [e \in Epochs |-> IF e \in es THEN code ELSE status[e]]
  /\ pending' = [e \in Epochs |-> IF e \in es THEN None ELSE pending[e]]
  /\ UNCHANGED child

(* _Epoch.finish, of every epoch in es: the pending stage loses its handle *)
(* and its round, the invocation its child.                                *)
Finish(es, code) ==
  /\ status' = [e \in Epochs |-> IF e \in es THEN code ELSE status[e]]
  /\ pending' = [e \in Epochs |-> IF e \in es THEN None ELSE pending[e]]
  /\ child' = [i \in Invocations |-> IF child[i] \in es THEN None ELSE child[i]]

(* terminal_failure: the epoch ends with the code, its prior snapshot is   *)
(* returned as data.                                                       *)
Fail(e, code) ==
  /\ Finish({e}, code)
  /\ UNCHANGED <<world, sequence, env, arena, round>>

Reachable(e) == ~retired /\ status[e] = "OPEN"

(* Fault: the environment is compared when the round is claimed only.      *)
CurrentWhenOpened(e) == bound

(* epoch_guard with core=True: the binding can be read and is the epoch's. *)
Current(e) == bound /\ env[e] = tick

(* Any guarded call finds the environment stale and ends the epoch.        *)
FindStale(e) ==
  /\ Reachable(e) /\ ~Current(e)
  /\ Fail(e, "ENVIRONMENT_STALE")
  /\ UNCHANGED stage

-----------------------------------------------------------------------------

(* stage, first guard: the next round is claimed, or the epoch ends at a   *)
(* limit of its policy.                                                    *)
Claim(e, s, batch) ==
  /\ ~policy.reasoning /\ Reachable(e) /\ Current(e)
  /\ pending[e] = None
  /\ stage[s] = Unclaimed
  /\ IF round[e] >= policy.rounds \/ Cardinality(batch) > policy.staged
     THEN Fail(e, "CAPACITY_ABORT") /\ UNCHANGED stage
     ELSE /\ stage' = [stage EXCEPT ![s] = [state |-> "building", epoch |-> e,
                                            base |-> round[e], batch |-> batch]]
          /\ pending' = [pending EXCEPT ![e] = s]
          /\ UNCHANGED <<world, child, sequence, status, env, arena, round>>

(* The stage call returns, with the batch attached or with an error.       *)
Returned(s, state) == stage' = [stage EXCEPT ![s].state = state]

(* The builder fails: its batch contradicts itself, an entry is refused or *)
(* the physical build raises.                                              *)
BuildFails(s) ==
  /\ stage[s].state = "building"
  /\ Returned(s, "failed")
  /\ LET e == stage[s].epoch
     IN IF Reachable(e)
        THEN \E code \in {"INTERNAL_CONTRACT_VIOLATION", "INVALID_INPUT"} : Fail(e, code)
        ELSE UNCHANGED <<world, child, sequence, status, env, arena, round, pending>>

(* The batch is built; the third guard attaches it if the round is still   *)
(* the stage's own.                                                        *)
Attach(s) ==
  /\ stage[s].state = "building"
  /\ ~Conflict(stage[s].batch)
  /\ LET e == stage[s].epoch
     IN CASE ~Reachable(e) ->
               /\ Returned(s, "failed")
               /\ UNCHANGED <<world, child, sequence, status, env, arena, round, pending>>
          [] Reachable(e) /\ ~Current(e) ->
               Returned(s, "failed") /\ Fail(e, "ENVIRONMENT_STALE")
          [] Reachable(e) /\ Current(e) /\ pending[e] # s ->
               Returned(s, "failed") /\ Fail(e, "INTERNAL_CONTRACT_VIOLATION")
          [] Reachable(e) /\ Current(e) /\ pending[e] = s ->
               /\ Returned(s, "attached")
               /\ UNCHANGED <<world, child, sequence, status, env, arena, round, pending>>

Fits(e, batch) == Cardinality(arena[e] \cup batch) <= policy.entries

(* The next snapshot is the previous one and the batch, published with its *)
(* version and round, or the epoch ends.                                   *)
Extend(e, batch, terminal) ==
  IF Conflict(arena[e] \cup batch) THEN Fail(e, "INTERNAL_CONTRACT_VIOLATION")
  ELSE IF ~Fits(e, batch) THEN Fail(e, "CAPACITY_ABORT")
  ELSE /\ arena' = [arena EXCEPT ![e] = @ \cup batch]
       /\ round' = [round EXCEPT ![e] = @ + 1]
       /\ IF terminal THEN Finish({e}, "PUBLISHED")
          ELSE pending' = [pending EXCEPT ![e] = None] /\ UNCHANGED <<child, status>>
       /\ UNCHANGED <<world, sequence, env>>

(* Fault: a token is accepted by whatever epoch it is published to.        *)
PublishElsewhere(e, s, terminal) ==
  /\ Reachable(e) /\ Current(e)
  /\ stage[s].state = "attached"
  /\ Returned(s, "published")
  /\ Extend(e, stage[s].batch, terminal)

Publish(e, s, terminal) ==
  /\ Reachable(e) /\ Current(e)
  /\ stage[s].state = "attached" /\ stage[s].epoch = e
  /\ pending[e] = s /\ stage[s].base = round[e]
  /\ Returned(s, "published")
  /\ Extend(e, stage[s].batch, terminal)

(* prepare_reasoning_publication: a batch that does not fit is refused     *)
(* without ending the epoch.                                               *)
Publishable(e, batch) ==
  /\ pending[e] = None
  /\ round[e] < policy.rounds /\ Cardinality(batch) <= policy.staged
  /\ ~Conflict(arena[e] \cup batch) /\ Fits(e, batch)

(* The commit of a round that a permit of the work runtime proves.         *)
PublishReasoning(e, batch, terminal) ==
  /\ policy.reasoning /\ Reachable(e) /\ Current(e)
  /\ Publishable(e, batch)
  /\ Extend(e, batch, terminal)
  /\ UNCHANGED stage

(* abort, and discard_epoch when the caller drops the handle.              *)
Abort(e) ==
  /\ Reachable(e)
  /\ Fail(e, "ABORTED")
  /\ UNCHANGED stage

-----------------------------------------------------------------------------
(* The world around an epoch.                                              *)
BeginClose(i) ==
  /\ i \in active
  /\ active' = active \ {i}
  /\ Finish({e \in Epochs : child[i] = e}, "PARENT_AUTHORITY_STALE")
  /\ UNCHANGED <<tick, bound, retired, policy, sequence, env, arena, round, stage>>

(* The runtime is collected: its discard closes every epoch.  No call of   *)
(* it is in progress, for each pins the runtime.                           *)
Collect ==
  /\ ~retired /\ \A s \in Stages : stage[s].state # "building"
  /\ retired' = TRUE
  /\ Finish({e \in Epochs : status[e] = "OPEN"}, "PARENT_AUTHORITY_STALE")
  /\ UNCHANGED <<tick, bound, policy, active, sequence, env, arena, round, stage>>

CoreTransition ==
  /\ tick < MaxTicks
  /\ tick' = tick + 1
  /\ UNCHANGED <<bound, retired, policy, active, child, sequence,
                 status, env, arena, round, pending, stage>>

CloseIssuer ==
  /\ bound /\ bound' = FALSE
  /\ UNCHANGED <<tick, retired, policy, active, child, sequence,
                 status, env, arena, round, pending, stage>>

(* Batches that a caller stages.                                           *)
Staging ==
  /\ ~policy.reasoning
  /\ \/ \E i \in Invocations : Open(i)
     \/ \E e \in Epochs :
          \/ FindStale(e) \/ Abort(e)
          \/ \E s \in Stages :
               \/ \E batch \in SUBSET Entries : Claim(e, s, batch)
               \/ \E terminal \in BOOLEAN : Publish(e, s, terminal)
     \/ \E s \in Stages : BuildFails(s) \/ Attach(s)

(* Batches that a reasoning runtime commits, of any entries: Reasoning.tla *)
(* says which, and when.                                                   *)
Committing ==
  /\ policy.reasoning
  /\ \/ \E i \in Invocations : Open(i)
     \/ \E e \in Epochs :
          \/ FindStale(e) \/ Abort(e)
          \/ \E batch : \E terminal \in BOOLEAN : PublishReasoning(e, batch, terminal)

Next ==
  \/ Staging \/ Committing
  \/ \E i \in Invocations : BeginClose(i)
  \/ Collect \/ CoreTransition \/ CloseIssuer

Spec == Init /\ [][Next]_vars

-----------------------------------------------------------------------------
Statuses == {"unborn", "OPEN", "PUBLISHED", "ABORTED", "ENVIRONMENT_STALE", "CAPACITY_ABORT",
             "PARENT_AUTHORITY_STALE", "INTERNAL_CONTRACT_VIOLATION", "INVALID_INPUT"}

(* Every variable keeps its type, and no epoch outruns the rounds of its   *)
(* policy.                                                                 *)
TypeOK ==
  /\ tick \in 0 .. MaxTicks /\ bound \in BOOLEAN /\ retired \in BOOLEAN
  /\ policy \in Policies /\ active \subseteq Invocations
  /\ child \in [Invocations -> Epochs \cup {None}]
  /\ sequence \in [Invocations -> 0 .. MaxEpochs]
  /\ status \in [Epochs -> Statuses]
  /\ env \in [Epochs -> 0 .. MaxTicks]
  /\ DOMAIN arena = Epochs
  /\ round \in [Epochs -> 0 .. policy.rounds]
  /\ pending \in [Epochs -> Stages \cup {None}]
  /\ stage \in [Stages -> [state : {"unclaimed", "building", "failed", "attached", "published"},
                           epoch : Epochs \cup {None}, base : Nat, batch : SUBSET Entries]]

(* cie_child names the one epoch of an invocation that is open, and an     *)
(* invocation that is no longer ACTIVE has none: whichever of the seven    *)
(* ways to end an epoch was taken, and whatever it raced with.             *)
ChildIsTheOpenEpoch ==
  \A e \in Epochs :
    /\ status[e] = "OPEN" <=> child[e[1]] = e
    /\ status[e] = "OPEN" => e[1] \in active /\ ~retired

(* The round a stage claimed stays its own while its batch is built, so    *)
(* the third guard of stage (cie.py 381-384) never ends an epoch.          *)
RoundIsNeverStolen ==
  \A s \in Stages :
    LET e == stage[s].epoch
    IN stage[s].state \in {"building", "attached"} /\ Reachable(e) =>
         pending[e] = s /\ stage[s].base = round[e]

(* A snapshot only ever changes into the next round of the same epoch, in  *)
(* the environment the epoch was opened in, while its invocation is        *)
(* ACTIVE; an epoch that has ended changes no more; and a batch enters     *)
(* only the epoch, and the round, it was staged for.                       *)
RoundPublishes ==
  \A e \in Epochs :
    /\ \A s \in Stages :
         stage[s].state = "attached" /\ stage'[s].state = "published" /\ arena'[e] # arena[e] =>
           e = stage[s].epoch /\ round[e] = stage[s].base
    /\ arena[e] # arena'[e] \/ round[e] # round'[e] =>
         /\ status[e] = "OPEN" /\ round'[e] = round[e] + 1 /\ arena[e] \subseteq arena'[e]
         /\ bound /\ env[e] = tick /\ e[1] \in active
    /\ status[e] \notin {"unborn", "OPEN"} => status'[e] = status[e]

OnlyLiveRoundsPublish == [][RoundPublishes]_vars
=============================================================================
