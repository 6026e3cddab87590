-------------------------- MODULE ReasoningProofs --------------------------
(***************************************************************************)
(* Epochs, and the reasoning runtime that uses them.                       *)
(* For any number of invocations, epochs, stage calls and entries, and any *)
(* limits: an invocation has one open epoch, the one its cie_child names,  *)
(* whichever way epochs end; a claimed round stays its stage's own; and    *)
(* snapshots change round by round only.  Whatever runs are given, the     *)
(* runtime uses its epochs only as their interface allows, so that this    *)
(* holds of it too; a run that is over leaves neither an open epoch nor a  *)
(* permit, and reports what it published; what was charged is enough for   *)
(* what is found; and what is concluded is what follows, all of it at a    *)
(* fixed point.                                                            *)
(***************************************************************************)
EXTENDS Reasoning, FiniteSetTheorems, TLAPS

(* Epochs, under their own specification Spec.                             *)

(* A child is an epoch of its own invocation.                              *)
ChildIsOwn == \A i \in Invocations : child[i] # None => child[i][1] = i

(* Numbers are given out in order and never twice, and an epoch is blank   *)
(* until its number is given out.                                          *)
NumbersAreFresh ==
  \A e \in Epochs : e[2] >= sequence[e[1]] =>
    status[e] = "unborn" /\ arena[e] = {} /\ round[e] = 0

(* A claim leaves room for the round it claims.                            *)
Holding(s) == stage[s].state \in {"building", "attached"}

ClaimsFit ==
  \A s \in Stages : Holding(s) =>
    /\ stage[s].epoch \in Epochs /\ status[stage[s].epoch] # "unborn"
    /\ Reachable(stage[s].epoch) => round[stage[s].epoch] < policy.rounds

EpochInv ==
  /\ TypeOK /\ ChildIsTheOpenEpoch /\ RoundIsNeverStolen
  /\ ChildIsOwn /\ NumbersAreFresh /\ ClaimsFit

Terminals == Statuses \ {"unborn", "OPEN"}

(* What an epoch may end as, where a step of it is taken.                  *)
Codes == {"PUBLISHED", "ABORTED", "ENVIRONMENT_STALE", "CAPACITY_ABORT", "PARENT_AUTHORITY_STALE",
          "INTERNAL_CONTRACT_VIOLATION", "INVALID_INPUT"}

LEMMA CodesAreTerminal == Codes = Terminals
BY DEF Codes, Terminals, Statuses

(* The calls of stage and publish that are over, or just as they were.     *)
StagesRest ==
  /\ stage' \in [Stages -> [state : {"unclaimed", "building", "failed", "attached", "published"},
                            epoch : Epochs \cup {None}, base : Nat, batch : SUBSET Entries]]
  /\ \A s \in Stages : stage'[s] # stage[s] => stage'[s].state \in {"failed", "published"}

LEMMA InitEpoch == Init => EpochInv
<1> USE EpochAssumption
<1> SUFFICES ASSUME Init PROVE EpochInv
  OBVIOUS
<1>1. TypeOK
  <2>1. stage \in [Stages -> [state : {"unclaimed", "building", "failed", "attached", "published"},
                              epoch : Epochs \cup {None}, base : Nat, batch : SUBSET Entries]]
    BY DEF Init, Unclaimed
  <2>2. policy \in Policies /\ policy.rounds \in Nat
    BY DEF Init
  <2>3. sequence \in [Invocations -> 0 .. MaxEpochs] /\ env \in [Epochs -> 0 .. MaxTicks]
    BY DEF Init
  <2>4. round \in [Epochs -> 0 .. policy.rounds] /\ tick \in 0 .. MaxTicks
    BY <2>2 DEF Init
  <2>5. /\ child \in [Invocations -> Epochs \cup {None}] /\ pending \in [Epochs -> Stages \cup {None}]
        /\ status \in [Epochs -> Statuses] /\ DOMAIN arena = Epochs
    BY DEF Init, Statuses
  <2>6. bound \in BOOLEAN /\ retired \in BOOLEAN /\ active \subseteq Invocations
    BY DEF Init
  <2> QED BY <2>1, <2>2, <2>3, <2>4, <2>5, <2>6 DEF TypeOK
<1>2. ChildIsTheOpenEpoch
  BY DEF Init, ChildIsTheOpenEpoch, Epochs
<1>3. RoundIsNeverStolen /\ ClaimsFit
  BY DEF Init, RoundIsNeverStolen, ClaimsFit, Holding, Unclaimed
<1>4. ChildIsOwn /\ NumbersAreFresh
  BY DEF Init, ChildIsOwn, NumbersAreFresh
<1> QED BY <1>1, <1>2, <1>3, <1>4 DEF EpochInv

(* However epochs end: their invocations and their stages forget them.     *)
LEMMA EndKeeps ==
  ASSUME EpochInv, NEW es \in SUBSET Epochs, NEW code \in Codes,
         \A e \in es : status[e] = "OPEN",
         Finish(es, code), StagesRest,
         UNCHANGED <<tick, bound, policy, sequence, env, arena, round>>,
         retired' \in BOOLEAN, retired => retired', active' \subseteq active,
         \A e \in Epochs : status'[e] = "OPEN" => e[1] \in active' /\ ~retired'
  PROVE  EpochInv'
<1> USE EpochAssumption
<1>0. TypeOK
  BY DEF EpochInv
<1>1. TypeOK'
  <2>1. status' \in [Epochs -> Statuses]
    BY <1>0, CodesAreTerminal DEF Finish, TypeOK, Terminals
  <2>2. pending' \in [Epochs -> Stages \cup {None}] /\ child' \in [Invocations -> Epochs \cup {None}]
    BY <1>0 DEF Finish, TypeOK
  <2> QED BY <1>0, <2>1, <2>2 DEF TypeOK, StagesRest
<1>2. \A e \in Epochs : status'[e] = "OPEN" <=> status[e] = "OPEN" /\ e \notin es
  BY <1>0 DEF Finish, TypeOK, Codes
<1>3. \A e \in Epochs : e[1] \in Invocations /\ e # None
  BY DEF Epochs
<1>4. \A i \in Invocations : child'[i] = IF child[i] \in es THEN None ELSE child[i]
  BY DEF Finish
<1>5. ChildIsTheOpenEpoch'
  BY <1>2, <1>3, <1>4 DEF ChildIsTheOpenEpoch, EpochInv
<1>6. ChildIsOwn'
  BY <1>4 DEF ChildIsOwn, EpochInv
<1>7. NumbersAreFresh'
  <2>1. \A e \in Epochs : status[e] = "unborn" => status'[e] = "unborn"
    BY DEF Finish
  <2> QED BY <2>1 DEF NumbersAreFresh, EpochInv
<1>8. \A s \in Stages : Holding(s)' => Holding(s) /\ stage'[s] = stage[s]
  BY DEF Holding, StagesRest
<1>9. \A e \in Epochs : Reachable(e)' => Reachable(e) /\ e \notin es /\ pending'[e] = pending[e]
  BY <1>2 DEF Reachable, Finish
<1>10. ClaimsFit'
  <2>1. \A e \in Epochs : status[e] # "unborn" => status'[e] # "unborn"
    BY <1>0 DEF Finish, Codes
  <2> QED BY <1>8, <1>9, <2>1 DEF ClaimsFit, EpochInv
<1>11. RoundIsNeverStolen'
  BY <1>8, <1>9 DEF RoundIsNeverStolen, ClaimsFit, EpochInv, Holding
<1> QED BY <1>1, <1>5, <1>6, <1>7, <1>10, <1>11 DEF EpochInv

(* Failing is one way of ending.                                           *)
LEMMA FailKeeps ==
  ASSUME EpochInv, NEW e \in Epochs, Reachable(e), NEW code \in Codes, Fail(e, code), StagesRest
  PROVE  EpochInv'
<1>1. /\ UNCHANGED <<tick, bound, retired, policy, active, sequence, env, arena, round>>
      /\ Finish({e}, code) /\ status[e] = "OPEN"
  BY DEF Fail, world, Reachable
<1>2. \A d \in Epochs : status'[d] = "OPEN" => status[d] = "OPEN"
  BY <1>1 DEF Finish, EpochInv, TypeOK, Codes
<1>3. \A d \in Epochs : status'[d] = "OPEN" => d[1] \in active' /\ ~retired'
  BY <1>1, <1>2 DEF EpochInv, ChildIsTheOpenEpoch
<1>4. retired' \in BOOLEAN
  BY <1>1 DEF EpochInv, TypeOK
<1> QED BY <1>1, <1>3, <1>4, EndKeeps

(* The next snapshot is published, or the epoch ends, with no other stage  *)
(* call still holding the round.                                           *)
LEMMA ExtendKeeps ==
  ASSUME EpochInv, NEW e \in Epochs, NEW batch, NEW terminal \in BOOLEAN,
         Reachable(e), round[e] < policy.rounds, Extend(e, batch, terminal), StagesRest,
         \A s \in Stages : Holding(s)' => stage[s].epoch # e
  PROVE  EpochInv'
<1> USE EpochAssumption
<1>0. TypeOK /\ policy.rounds \in Nat
  BY DEF EpochInv, TypeOK
<1>1. CASE Conflict(arena[e] \cup batch) \/ ~Fits(e, batch)
  <2>1. \E code \in Codes : Fail(e, code)
    BY <1>1 DEF Extend, Codes
  <2> QED BY <2>1, FailKeeps
<1>2. CASE ~(Conflict(arena[e] \cup batch) \/ ~Fits(e, batch))
  <2>1. /\ arena' = [arena EXCEPT ![e] = @ \cup batch]
        /\ round' = [round EXCEPT ![e] = @ + 1]
        /\ UNCHANGED <<tick, bound, retired, policy, active, sequence, env>>
        /\ IF terminal THEN Finish({e}, "PUBLISHED")
           ELSE pending' = [pending EXCEPT ![e] = None] /\ UNCHANGED <<child, status>>
    BY <1>2 DEF Extend, world
  <2>2. round' \in [Epochs -> 0 .. policy.rounds] /\ DOMAIN arena' = Epochs
    <3>1. round[e] \in Nat /\ round[e] + 1 \in 0 .. policy.rounds
      BY <1>0 DEF TypeOK
    <3> QED BY <1>0, <2>1, <3>1 DEF TypeOK
  <2>3. /\ status' \in [Epochs -> Statuses]
        /\ pending' \in [Epochs -> Stages \cup {None}]
        /\ child' \in [Invocations -> Epochs \cup {None}]
    BY <1>0, <2>1 DEF Finish, TypeOK, Statuses
  <2>4. TypeOK'
    BY <1>0, <2>1, <2>2, <2>3 DEF TypeOK, StagesRest
  <2>5. \A d \in Epochs : /\ d # e => status'[d] = status[d] /\ pending'[d] = pending[d] /\ round'[d] = round[d]
                          /\ status'[d] = "OPEN" => status[d] = "OPEN"
                          /\ status'[d] = "unborn" <=> status[d] = "unborn"
                          /\ status[d] = "OPEN" /\ (d # e \/ ~terminal) => status'[d] = "OPEN"
                          /\ terminal => status'[e] = "PUBLISHED"
    BY <1>0, <2>1 DEF Finish, TypeOK, Reachable
  <2>6. \A i \in Invocations : child'[i] = IF terminal /\ child[i] = e THEN None ELSE child[i]
    BY <1>0, <2>1 DEF Finish, TypeOK
  <2>7. \A d \in Epochs : d[1] \in Invocations /\ d # None
    BY DEF Epochs
  <2>8. ChildIsTheOpenEpoch'
    <3> SUFFICES ASSUME NEW d \in Epochs
                 PROVE  /\ status'[d] = "OPEN" <=> child'[d[1]] = d
                        /\ status'[d] = "OPEN" => d[1] \in active /\ ~retired
      BY <2>1 DEF ChildIsTheOpenEpoch
    <3>1. /\ status[d] = "OPEN" <=> child[d[1]] = d
          /\ status[d] = "OPEN" => d[1] \in active /\ ~retired
      BY DEF EpochInv, ChildIsTheOpenEpoch
    <3> QED BY <2>5, <2>6, <2>7, <3>1
  <2>9. ChildIsOwn'
    BY <2>6 DEF ChildIsOwn, EpochInv
  <2>10. NumbersAreFresh'
    <3>1. ASSUME NEW d \in Epochs, d[2] >= sequence[d[1]]
          PROVE  status'[d] = "unborn" /\ arena'[d] = {} /\ round'[d] = 0
      <4>1. status[d] = "unborn" /\ arena[d] = {} /\ round[d] = 0
        BY <3>1 DEF NumbersAreFresh, EpochInv
      <4>2. d # e
        BY <4>1 DEF Reachable
      <4> QED BY <1>0, <2>1, <2>5, <4>1, <4>2 DEF TypeOK
    <3> QED BY <2>1, <3>1 DEF NumbersAreFresh
  <2>11. \A s \in Stages : Holding(s)' => Holding(s) /\ stage'[s] = stage[s] /\ stage[s].epoch # e
    BY DEF Holding, StagesRest
  <2>12. \A d \in Epochs : Reachable(d)' => Reachable(d)
    BY <2>1, <2>5 DEF Reachable
  <2>13. ClaimsFit'
    BY <2>1, <2>5, <2>11, <2>12 DEF ClaimsFit, EpochInv
  <2>14. RoundIsNeverStolen'
    BY <2>5, <2>11, <2>12 DEF RoundIsNeverStolen, ClaimsFit, EpochInv, Holding
  <2> QED BY <2>4, <2>8, <2>9, <2>10, <2>13, <2>14 DEF EpochInv
<1> QED BY <1>1, <1>2

-----------------------------------------------------------------------------
LEMMA OpenKeeps == ASSUME EpochInv, NEW i \in Invocations, Open(i) PROVE EpochInv'
<1> USE EpochAssumption
<1> DEFINE e == <<i, sequence[i]>>
<1>0. TypeOK
  BY DEF EpochInv
<1>1. /\ e \in Epochs /\ sequence[i] \in 0 .. MaxEpochs /\ sequence[i] + 1 \in 0 .. MaxEpochs
      /\ e # None /\ e[1] = i /\ e[2] = sequence[i]
  BY <1>0 DEF Open, TypeOK, Epochs
<1>2. /\ child' = [child EXCEPT ![i] = e] /\ status' = [status EXCEPT ![e] = "OPEN"]
      /\ env' = [env EXCEPT ![e] = tick] /\ sequence' = [sequence EXCEPT ![i] = @ + 1]
      /\ UNCHANGED <<tick, bound, retired, policy, active, arena, round, pending, stage>>
      /\ child[i] = None /\ i \in active /\ ~retired
  BY DEF Open, world
<1>3. status[e] = "unborn"
  BY <1>1 DEF EpochInv, NumbersAreFresh
<1> HIDE DEF e
<1>4. TypeOK'
  <2>1. child' \in [Invocations -> Epochs \cup {None}] /\ sequence' \in [Invocations -> 0 .. MaxEpochs]
    BY <1>0, <1>1, <1>2 DEF TypeOK
  <2>2. status' \in [Epochs -> Statuses] /\ env' \in [Epochs -> 0 .. MaxTicks]
    BY <1>0, <1>1, <1>2 DEF TypeOK, Statuses
  <2> QED BY <1>0, <1>2, <2>1, <2>2 DEF TypeOK
<1>5. \A d \in Epochs : d[1] \in Invocations /\ d # None /\ d[2] \in Int
  BY DEF Epochs
<1>6. \A d \in Epochs : status'[d] = IF d = e THEN "OPEN" ELSE status[d]
  BY <1>0, <1>2 DEF TypeOK
<1>7. \A j \in Invocations : child'[j] = IF j = i THEN e ELSE child[j]
  BY <1>0, <1>2 DEF TypeOK
<1>8. ChildIsTheOpenEpoch'
  <2> SUFFICES ASSUME NEW d \in Epochs
               PROVE  /\ status'[d] = "OPEN" <=> child'[d[1]] = d
                      /\ status'[d] = "OPEN" => d[1] \in active /\ ~retired
    BY <1>2 DEF ChildIsTheOpenEpoch
  <2>1. /\ status[d] = "OPEN" <=> child[d[1]] = d
        /\ status[d] = "OPEN" => d[1] \in active /\ ~retired
    BY DEF EpochInv, ChildIsTheOpenEpoch
  <2> QED BY <1>1, <1>2, <1>5, <1>6, <1>7, <2>1
<1>9. ChildIsOwn'
  BY <1>1, <1>7 DEF ChildIsOwn, EpochInv
<1>10. NumbersAreFresh'
  <2> SUFFICES ASSUME NEW d \in Epochs, d[2] >= sequence'[d[1]]
               PROVE  status'[d] = "unborn" /\ arena[d] = {} /\ round[d] = 0
    BY <1>2 DEF NumbersAreFresh
  <2>1. d # e /\ d[2] >= sequence[d[1]]
    BY <1>0, <1>1, <1>2, <1>5 DEF TypeOK
  <2> QED BY <1>6, <2>1 DEF EpochInv, NumbersAreFresh
<1>11. \A s \in Stages : Holding(s) => stage[s].epoch # e
  BY <1>3 DEF Holding, EpochInv, ClaimsFit
<1>12. ClaimsFit' /\ RoundIsNeverStolen'
  <2>1. \A s \in Stages : Holding(s)' => Holding(s) /\ stage[s].epoch \in Epochs /\ stage[s].epoch # e
    BY <1>2, <1>11 DEF Holding, EpochInv, ClaimsFit
  <2>2. \A d \in Epochs : Reachable(d)' /\ d # e => Reachable(d)
    BY <1>2, <1>6 DEF Reachable
  <2>3. ClaimsFit'
    BY <1>2, <1>6, <2>1, <2>2 DEF ClaimsFit, EpochInv
  <2>4. RoundIsNeverStolen'
    BY <1>2, <2>1, <2>2 DEF RoundIsNeverStolen, Holding, EpochInv
  <2> QED BY <2>3, <2>4
<1> QED BY <1>4, <1>8, <1>9, <1>10, <1>12 DEF EpochInv

LEMMA ClaimKeeps ==
  ASSUME EpochInv, NEW e \in Epochs, NEW s \in Stages, NEW batch \in SUBSET Entries, Claim(e, s, batch)
  PROVE  EpochInv'
<1> USE EpochAssumption
<1>0. TypeOK /\ policy.rounds \in Nat /\ e # None /\ s # None
  BY DEF EpochInv, TypeOK
<1>1. CASE round[e] >= policy.rounds \/ Cardinality(batch) > policy.staged
  <2>1. Fail(e, "CAPACITY_ABORT") /\ UNCHANGED stage /\ Reachable(e)
    BY <1>1 DEF Claim
  <2>2. StagesRest
    BY <1>0, <2>1 DEF StagesRest, TypeOK
  <2> QED BY <2>1, <2>2, FailKeeps DEF Codes
<1>2. CASE ~(round[e] >= policy.rounds \/ Cardinality(batch) > policy.staged)
  <2>1. /\ stage' = [stage EXCEPT ![s] = [state |-> "building", epoch |-> e, base |-> round[e], batch |-> batch]]
        /\ pending' = [pending EXCEPT ![e] = s]
        /\ UNCHANGED <<tick, bound, retired, policy, active, child, sequence, status, env, arena, round>>
        /\ Reachable(e) /\ pending[e] = None /\ stage[s] = Unclaimed
    BY <1>2 DEF Claim, world
  <2>2. round[e] \in Nat /\ round[e] < policy.rounds
    BY <1>0, <1>2 DEF TypeOK
  <2>3. TypeOK'
    <3>1. [state |-> "building", epoch |-> e, base |-> round[e], batch |-> batch]
            \in [state : {"unclaimed", "building", "failed", "attached", "published"},
                 epoch : Epochs \cup {None}, base : Nat, batch : SUBSET Entries]
      BY <2>2
    <3>2. stage' \in [Stages -> [state : {"unclaimed", "building", "failed", "attached", "published"},
                                 epoch : Epochs \cup {None}, base : Nat, batch : SUBSET Entries]]
      BY <1>0, <2>1, <3>1 DEF TypeOK
    <3>3. pending' \in [Epochs -> Stages \cup {None}]
      BY <1>0, <2>1 DEF TypeOK
    <3> QED BY <1>0, <2>1, <3>2, <3>3 DEF TypeOK
  <2>4. ChildIsTheOpenEpoch' /\ ChildIsOwn' /\ NumbersAreFresh'
    BY <2>1 DEF EpochInv, ChildIsTheOpenEpoch, ChildIsOwn, NumbersAreFresh
  <2>5. \A t \in Stages : stage'[t] = IF t = s THEN [state |-> "building", epoch |-> e,
                                                     base |-> round[e], batch |-> batch] ELSE stage[t]
    BY <1>0, <2>1 DEF TypeOK
  <2>6. \A d \in Epochs : (Reachable(d)' <=> Reachable(d)) /\ pending'[d] = IF d = e THEN s ELSE pending[d]
    BY <1>0, <2>1 DEF TypeOK, Reachable
  <2>7. \A t \in Stages : Holding(t) => stage[t].epoch # e
    <3> SUFFICES ASSUME NEW t \in Stages, Holding(t), stage[t].epoch = e
                 PROVE  FALSE
      OBVIOUS
    <3>1. pending[e] = t
      BY <2>1 DEF EpochInv, RoundIsNeverStolen, Holding
    <3> QED BY <2>1, <3>1
  <2>8. status[e] # "unborn"
    BY <2>1 DEF Reachable
  <2>9. ClaimsFit'
    <3> SUFFICES ASSUME NEW t \in Stages, Holding(t)'
                 PROVE  /\ stage'[t].epoch \in Epochs /\ status[stage'[t].epoch] # "unborn"
                        /\ Reachable(stage[t].epoch)' => round[stage'[t].epoch] < policy.rounds
      BY <2>1 DEF ClaimsFit
    <3>1. CASE t = s
      BY <2>2, <2>5, <2>8, <3>1
    <3>2. CASE t # s
      <4>1. stage'[t] = stage[t] /\ Holding(t)
        BY <2>5, <3>2 DEF Holding
      <4>2. Reachable(stage[t].epoch)' => Reachable(stage[t].epoch)
        BY <2>1, <4>1 DEF Reachable
      <4> QED BY <4>1, <4>2 DEF EpochInv, ClaimsFit
    <3> QED BY <3>1, <3>2
  <2>10. RoundIsNeverStolen'
    <3> SUFFICES ASSUME NEW t \in Stages, Holding(t)', Reachable(stage[t].epoch)'
                 PROVE  pending'[stage'[t].epoch] = t /\ stage'[t].base = round[stage'[t].epoch]
      BY <2>1 DEF RoundIsNeverStolen, Holding
    <3>1. CASE t = s
      BY <2>5, <2>6, <3>1
    <3>2. CASE t # s
      <4>1. stage'[t] = stage[t] /\ Holding(t) /\ stage[t].epoch \in Epochs /\ stage[t].epoch # e
        BY <2>5, <2>7, <3>2 DEF Holding, EpochInv, ClaimsFit
      <4>2. Reachable(stage[t].epoch)
        BY <2>1, <4>1 DEF Reachable
      <4>3. pending[stage[t].epoch] = t /\ stage[t].base = round[stage[t].epoch]
        BY <4>1, <4>2 DEF EpochInv, RoundIsNeverStolen, Holding
      <4> QED BY <2>6, <4>1, <4>3
    <3> QED BY <3>1, <3>2
  <2> QED BY <2>3, <2>4, <2>9, <2>10 DEF EpochInv
<1> QED BY <1>1, <1>2

(* A stage call that comes back: the state of the call changes, and the    *)
(* epoch ends or stays as it is.                                           *)
LEMMA ReturnedShape ==
  ASSUME EpochInv, NEW s \in Stages, NEW state \in {"failed", "attached", "published"}, Returned(s, state)
  PROVE  /\ stage' \in [Stages -> [state : {"unclaimed", "building", "failed", "attached", "published"},
                                   epoch : Epochs \cup {None}, base : Nat, batch : SUBSET Entries]]
         /\ \A t \in Stages : t # s => stage'[t] = stage[t]
         /\ stage'[s] = [stage[s] EXCEPT !.state = state]
         /\ stage'[s].state = state /\ stage'[s].epoch = stage[s].epoch /\ stage'[s].base = stage[s].base
BY DEF EpochInv, TypeOK, Returned

LEMMA RestKeeps ==
  ASSUME EpochInv, StagesRest,
         UNCHANGED <<world, child, sequence, status, env, arena, round, pending>>
  PROVE  EpochInv'
<1>1. UNCHANGED <<tick, bound, retired, policy, active, child, sequence, status, env, arena, round, pending>>
  BY DEF world
<1>2. TypeOK'
  BY <1>1 DEF EpochInv, TypeOK, StagesRest
<1>3. ChildIsTheOpenEpoch' /\ ChildIsOwn' /\ NumbersAreFresh'
  BY <1>1 DEF EpochInv, ChildIsTheOpenEpoch, ChildIsOwn, NumbersAreFresh
<1>4. \A t \in Stages : Holding(t)' => Holding(t) /\ stage'[t] = stage[t]
  BY DEF Holding, StagesRest
<1>5. \A d \in Epochs : Reachable(d)' <=> Reachable(d)
  BY <1>1 DEF Reachable
<1>6. ClaimsFit'
  BY <1>1, <1>4, <1>5 DEF EpochInv, ClaimsFit
<1>7. RoundIsNeverStolen'
  BY <1>1, <1>4, <1>5 DEF EpochInv, RoundIsNeverStolen, ClaimsFit, Holding
<1> QED BY <1>2, <1>3, <1>6, <1>7 DEF EpochInv

LEMMA BuildFailsKeeps == ASSUME EpochInv, NEW s \in Stages, BuildFails(s) PROVE EpochInv'
<1>1. Holding(s) /\ Returned(s, "failed") /\ stage[s].epoch \in Epochs
  BY DEF BuildFails, Holding, EpochInv, ClaimsFit
<1>2. StagesRest
  BY <1>1, ReturnedShape DEF StagesRest
<1>3. CASE Reachable(stage[s].epoch)
  <2>1. \E code \in Codes : Fail(stage[s].epoch, code)
    BY <1>3 DEF BuildFails, Codes
  <2> QED BY <1>1, <1>2, <1>3, <2>1, FailKeeps
<1>4. CASE ~Reachable(stage[s].epoch)
  BY <1>2, <1>4, RestKeeps DEF BuildFails
<1> QED BY <1>3, <1>4

(* The round is still the stage's own: the third guard never ends an epoch.*)
LEMMA AttachKeeps == ASSUME EpochInv, NEW s \in Stages, Attach(s) PROVE EpochInv'
<1> DEFINE e == stage[s].epoch
<1>1. Holding(s) /\ e \in Epochs /\ (Reachable(e) => pending[e] = s /\ stage[s].base = round[e])
  BY DEF Attach, Holding, EpochInv, ClaimsFit, RoundIsNeverStolen
<1>2. CASE ~Reachable(e)
  <2>1. Returned(s, "failed") /\ UNCHANGED <<world, child, sequence, status, env, arena, round, pending>>
    BY <1>2 DEF Attach
  <2>2. StagesRest
    BY <2>1, ReturnedShape DEF StagesRest
  <2> QED BY <2>1, <2>2, RestKeeps
<1>3. CASE Reachable(e) /\ ~Current(e)
  <2>1. Returned(s, "failed") /\ Fail(e, "ENVIRONMENT_STALE")
    BY <1>3 DEF Attach
  <2>2. StagesRest
    BY <2>1, ReturnedShape DEF StagesRest
  <2> QED BY <1>1, <1>3, <2>1, <2>2, FailKeeps DEF Codes
<1>4. CASE Reachable(e) /\ Current(e)
  <2>1. Returned(s, "attached") /\ UNCHANGED <<world, child, sequence, status, env, arena, round, pending>>
    BY <1>1, <1>4 DEF Attach
  <2>2. UNCHANGED <<tick, bound, retired, policy, active, child, sequence, status, env, arena, round, pending>>
    BY <2>1 DEF world
  <2>3. TypeOK'
    BY <2>1, <2>2, ReturnedShape DEF EpochInv, TypeOK
  <2>4. ChildIsTheOpenEpoch' /\ ChildIsOwn' /\ NumbersAreFresh'
    BY <2>2 DEF EpochInv, ChildIsTheOpenEpoch, ChildIsOwn, NumbersAreFresh
  <2>5. \A t \in Stages : Holding(t)' => Holding(t) /\ stage'[t].epoch = stage[t].epoch /\ stage'[t].base = stage[t].base
    BY <1>1, <2>1, ReturnedShape DEF Holding
  <2>6. \A d \in Epochs : Reachable(d)' <=> Reachable(d)
    BY <2>2 DEF Reachable
  <2>7. ClaimsFit'
    BY <2>2, <2>5, <2>6 DEF EpochInv, ClaimsFit
  <2>8. RoundIsNeverStolen'
    BY <2>2, <2>5, <2>6 DEF EpochInv, RoundIsNeverStolen, ClaimsFit, Holding
  <2> QED BY <2>3, <2>4, <2>7, <2>8 DEF EpochInv
<1> QED BY <1>2, <1>3, <1>4

LEMMA PublishKeeps ==
  ASSUME EpochInv, NEW e \in Epochs, NEW s \in Stages, NEW terminal \in BOOLEAN, Publish(e, s, terminal)
  PROVE  EpochInv'
<1>1. /\ Reachable(e) /\ Returned(s, "published") /\ Extend(e, stage[s].batch, terminal)
      /\ Holding(s) /\ stage[s].epoch = e /\ pending[e] = s
  BY DEF Publish, Holding
<1>2. round[e] < policy.rounds
  BY <1>1 DEF EpochInv, ClaimsFit
<1>3. StagesRest
  BY <1>1, ReturnedShape DEF StagesRest
<1>4. \A t \in Stages : Holding(t)' => stage[t].epoch # e
  <2> SUFFICES ASSUME NEW t \in Stages, Holding(t)', stage[t].epoch = e
               PROVE  FALSE
    OBVIOUS
  <2>1. t # s
    BY <1>1, ReturnedShape DEF Holding
  <2>2. Holding(t)
    BY <1>1, <2>1, ReturnedShape DEF Holding
  <2>3. pending[e] = t
    BY <1>1, <2>2 DEF EpochInv, RoundIsNeverStolen, Holding
  <2> QED BY <1>1, <2>1, <2>3
<1> QED BY <1>1, <1>2, <1>3, <1>4, ExtendKeeps

LEMMA PublishReasoningKeeps ==
  ASSUME EpochInv, NEW e \in Epochs, NEW batch, NEW terminal \in BOOLEAN,
         PublishReasoning(e, batch, terminal)
  PROVE  EpochInv'
<1> USE EpochAssumption
<1>1. /\ Reachable(e) /\ Extend(e, batch, terminal) /\ UNCHANGED stage
      /\ pending[e] = None /\ round[e] < policy.rounds
  BY DEF PublishReasoning, Publishable
<1>2. StagesRest
  BY <1>1 DEF EpochInv, TypeOK, StagesRest
<1>3. \A t \in Stages : Holding(t)' => stage[t].epoch # e
  <2> SUFFICES ASSUME NEW t \in Stages, Holding(t), stage[t].epoch = e
               PROVE  FALSE
    BY <1>1 DEF Holding
  <2>1. pending[e] = t
    BY <1>1 DEF EpochInv, RoundIsNeverStolen, Holding
  <2> QED BY <1>1, <2>1
<1> QED BY <1>1, <1>2, <1>3, ExtendKeeps

LEMMA WorldKeeps ==
  ASSUME EpochInv, (\E i \in Invocations : BeginClose(i)) \/ Collect \/ CoreTransition \/ CloseIssuer
  PROVE  EpochInv'
<1> USE EpochAssumption
<1>0. TypeOK
  BY DEF EpochInv
<1>1. ASSUME NEW i \in Invocations, BeginClose(i)
      PROVE  EpochInv'
  <2> DEFINE es == {e \in Epochs : child[i] = e}
  <2>1. /\ Finish(es, "PARENT_AUTHORITY_STALE") /\ active' = active \ {i}
        /\ UNCHANGED <<tick, bound, retired, policy, sequence, env, arena, round, stage>>
    BY <1>1 DEF BeginClose
  <2>2. \A e \in es : status[e] = "OPEN"
    BY DEF EpochInv, ChildIsTheOpenEpoch, ChildIsOwn, Epochs
  <2>3. \A e \in Epochs : status'[e] = "OPEN" => e[1] \in active' /\ ~retired'
    <3> SUFFICES ASSUME NEW e \in Epochs, status'[e] = "OPEN"
                 PROVE  e[1] \in active' /\ ~retired'
      OBVIOUS
    <3>1. status[e] = "OPEN" /\ e \notin es
      BY <1>0, <2>1 DEF Finish
    <3>2. child[e[1]] = e /\ e[1] \in active /\ ~retired
      BY <3>1 DEF EpochInv, ChildIsTheOpenEpoch
    <3> QED BY <2>1, <3>1, <3>2
  <2>4. StagesRest /\ retired' \in BOOLEAN
    BY <1>0, <2>1 DEF StagesRest, TypeOK
  <2> HIDE DEF es
  <2>5. es \in SUBSET Epochs
    BY DEF es
  <2> QED BY <2>1, <2>2, <2>3, <2>4, <2>5, EndKeeps DEF Codes
<1>2. CASE Collect
  <2> DEFINE es == {e \in Epochs : status[e] = "OPEN"}
  <2>1. /\ Finish(es, "PARENT_AUTHORITY_STALE") /\ retired' = TRUE
        /\ UNCHANGED <<tick, bound, policy, active, sequence, env, arena, round, stage>>
    BY <1>2 DEF Collect
  <2>2. \A e \in Epochs : status'[e] # "OPEN"
    BY <1>0, <2>1 DEF Finish, TypeOK
  <2>3. StagesRest
    BY <1>0, <2>1 DEF StagesRest, TypeOK
  <2>4. es \in SUBSET Epochs /\ \A e \in es : status[e] = "OPEN"
    OBVIOUS
  <2> HIDE DEF es
  <2> QED BY <2>1, <2>2, <2>3, <2>4, EndKeeps DEF Codes
<1>3. CASE CoreTransition \/ CloseIssuer
  <2>1. /\ UNCHANGED <<retired, policy, active, child, sequence, status, env, arena, round, pending, stage>>
        /\ tick' \in 0 .. MaxTicks /\ bound' \in BOOLEAN
    <3>1. tick \in 0 .. MaxTicks /\ bound \in BOOLEAN
      BY <1>0 DEF TypeOK
    <3>2. CASE CoreTransition
      <4>1. tick' = tick + 1 /\ tick < MaxTicks /\ bound' = bound
        BY <3>2 DEF CoreTransition
      <4> QED BY <3>1, <3>2, <4>1 DEF CoreTransition
    <3>3. CASE CloseIssuer
      <4>1. bound' = FALSE
        BY <3>3 DEF CloseIssuer
      <4> QED BY <3>1, <3>3, <4>1 DEF CloseIssuer
    <3> QED BY <1>3, <3>2, <3>3
  <2>2. TypeOK'
    BY <1>0, <2>1 DEF TypeOK
  <2> QED BY <2>1, <2>2 DEF EpochInv, ChildIsTheOpenEpoch, RoundIsNeverStolen, Reachable,
                            ChildIsOwn, NumbersAreFresh, ClaimsFit, Holding
<1> QED BY <1>1, <1>2, <1>3

(* The whole next-state relation.                                          *)
LEMMA EpochStep == EpochInv /\ [Next]_vars => EpochInv'
<1> SUFFICES ASSUME EpochInv, [Next]_vars
             PROVE  EpochInv'
  OBVIOUS
<1>1. ASSUME NEW e \in Epochs, FindStale(e) \/ Abort(e)
      PROVE  EpochInv'
  <2>1. Reachable(e) /\ UNCHANGED stage /\ \E code \in Codes : Fail(e, code)
    BY <1>1 DEF FindStale, Abort, Codes
  <2>2. StagesRest
    BY <2>1 DEF EpochInv, TypeOK, StagesRest
  <2> QED BY <2>1, <2>2, FailKeeps
<1>2. CASE Staging
  <2>1. CASE \E i \in Invocations : Open(i)
    BY <2>1, OpenKeeps
  <2>2. CASE \E e \in Epochs : FindStale(e) \/ Abort(e)
    BY <1>1, <2>2
  <2>3. CASE \E e \in Epochs, s \in Stages : \E batch \in SUBSET Entries : Claim(e, s, batch)
    BY <2>3, ClaimKeeps
  <2>4. CASE \E e \in Epochs, s \in Stages : \E terminal \in BOOLEAN : Publish(e, s, terminal)
    BY <2>4, PublishKeeps
  <2>5. CASE \E s \in Stages : BuildFails(s) \/ Attach(s)
    BY <2>5, BuildFailsKeeps, AttachKeeps
  <2> QED BY <1>2, <2>1, <2>2, <2>3, <2>4, <2>5 DEF Staging
<1>3. CASE Committing
  BY <1>1, <1>3, OpenKeeps, PublishReasoningKeeps DEF Committing
<1>4. CASE UNCHANGED vars
  <2>1. StagesRest /\ UNCHANGED <<world, child, sequence, status, env, arena, round, pending>>
    BY <1>4 DEF vars, world, StagesRest, EpochInv, TypeOK
  <2> QED BY <2>1, RestKeeps
<1> QED BY <1>2, <1>3, <1>4, WorldKeeps DEF Next

(* The types of the variables, and that no epoch outruns the rounds of its *)
(* policy; that an invocation has one open epoch at most, the one its      *)
(* cie_child names; and that the round a stage call claimed is never taken *)
(* from it, so that the third guard of stage ends no epoch.                *)
THEOREM EpochsAreSound == Spec => [](TypeOK /\ ChildIsTheOpenEpoch /\ RoundIsNeverStolen)
<1>1. EpochInv => TypeOK /\ ChildIsTheOpenEpoch /\ RoundIsNeverStolen
  BY DEF EpochInv
<1> QED BY InitEpoch, EpochStep, <1>1, PTL DEF Spec

-----------------------------------------------------------------------------
(* A step that publishes nothing, and what it does to epochs that ended.   *)
Endings == \A e \in Epochs : status[e] \notin {"unborn", "OPEN"} => status'[e] = status[e]

LEMMA QuietStep == UNCHANGED <<arena, round>> /\ Endings => RoundPublishes
BY DEF RoundPublishes, Endings

LEMMA FailIsQuiet ==
  ASSUME NEW e \in Epochs, NEW code, Reachable(e), Fail(e, code)
  PROVE  UNCHANGED <<arena, round>> /\ Endings
BY DEF Fail, Finish, Reachable, Endings

LEMMA ExtendPublishes ==
  ASSUME EpochInv, NEW e \in Epochs, NEW batch, NEW terminal \in BOOLEAN,
         Reachable(e), Current(e), Extend(e, batch, terminal),
         \A s \in Stages : stage[s].state = "attached" /\ stage'[s].state = "published" =>
           e = stage[s].epoch /\ round[e] = stage[s].base
  PROVE  RoundPublishes
<1>0. TypeOK /\ ChildIsTheOpenEpoch
  BY DEF EpochInv
<1>1. CASE Conflict(arena[e] \cup batch) \/ ~Fits(e, batch)
  <2>1. \E code \in Codes : Fail(e, code)
    BY <1>1 DEF Extend, Codes
  <2> QED BY <2>1, FailIsQuiet, QuietStep
<1>2. CASE ~(Conflict(arena[e] \cup batch) \/ ~Fits(e, batch))
  <2>1. /\ arena' = [arena EXCEPT ![e] = @ \cup batch]
        /\ round' = [round EXCEPT ![e] = @ + 1]
        /\ IF terminal THEN Finish({e}, "PUBLISHED") ELSE UNCHANGED status
    BY <1>2 DEF Extend
  <2>2. \A d \in Epochs : d # e => arena'[d] = arena[d] /\ round'[d] = round[d]
    BY <1>0, <2>1 DEF TypeOK
  <2>3. round'[e] = round[e] + 1 /\ arena[e] \subseteq arena'[e]
    BY <1>0, <2>1 DEF TypeOK
  <2>4. status[e] = "OPEN" /\ bound /\ env[e] = tick /\ e[1] \in active
    BY <1>0 DEF Reachable, Current, ChildIsTheOpenEpoch
  <2>5. Endings
    BY <2>1, <2>4 DEF Finish, Endings
  <2> QED BY <2>2, <2>3, <2>4, <2>5 DEF RoundPublishes, Endings
<1> QED BY <1>1, <1>2

LEMMA PublishStep == EpochInv /\ [Next]_vars => RoundPublishes
<1> SUFFICES ASSUME EpochInv, [Next]_vars
             PROVE  RoundPublishes
  OBVIOUS
<1>0. TypeOK /\ ChildIsTheOpenEpoch
  BY DEF EpochInv
<1>1. ASSUME NEW i \in Invocations, Open(i)
      PROVE  RoundPublishes
  <2> DEFINE e == <<i, sequence[i]>>
  <2>1. e \in Epochs /\ status[e] = "unborn"
    <3>1. e \in Epochs /\ e[1] = i /\ e[2] = sequence[i] /\ sequence[i] \in Int
      BY <1>0, <1>1, EpochAssumption DEF Open, TypeOK, Epochs
    <3> QED BY <3>1 DEF EpochInv, NumbersAreFresh
  <2>2. status' = [status EXCEPT ![e] = "OPEN"] /\ UNCHANGED <<arena, round>>
    BY <1>1 DEF Open
  <2> HIDE DEF e
  <2>3. Endings
    BY <1>0, <2>1, <2>2 DEF Endings, TypeOK
  <2> QED BY <2>2, <2>3, QuietStep
<1>2. ASSUME NEW e \in Epochs, FindStale(e) \/ Abort(e)
      PROVE  RoundPublishes
  <2>1. Reachable(e) /\ \E code \in Codes : Fail(e, code)
    BY <1>2 DEF FindStale, Abort, Codes
  <2> QED BY <2>1, FailIsQuiet, QuietStep
<1>3. ASSUME NEW e \in Epochs, NEW s \in Stages, NEW batch, Claim(e, s, batch)
      PROVE  RoundPublishes
  <2>1. CASE Fail(e, "CAPACITY_ABORT")
    BY <1>3, <2>1, FailIsQuiet, QuietStep DEF Claim
  <2>2. CASE UNCHANGED <<status, arena, round>>
    BY <2>2, QuietStep DEF Endings
  <2> QED BY <1>3, <2>1, <2>2 DEF Claim
<1>4. ASSUME NEW s \in Stages, BuildFails(s) \/ Attach(s)
      PROVE  RoundPublishes
  <2>1. stage[s].epoch \in Epochs
    BY <1>4 DEF BuildFails, Attach, EpochInv, ClaimsFit, Holding
  <2>2. CASE Reachable(stage[s].epoch) /\ \E code : Fail(stage[s].epoch, code)
    BY <2>1, <2>2, FailIsQuiet, QuietStep
  <2>3. CASE UNCHANGED <<status, arena, round>>
    BY <2>3, QuietStep DEF Endings
  <2> QED BY <1>4, <2>2, <2>3 DEF BuildFails, Attach
<1>5. ASSUME NEW e \in Epochs, NEW s \in Stages, NEW terminal \in BOOLEAN, Publish(e, s, terminal)
      PROVE  RoundPublishes
  <2>1. /\ Reachable(e) /\ Current(e) /\ Returned(s, "published") /\ Extend(e, stage[s].batch, terminal)
        /\ stage[s].epoch = e /\ stage[s].base = round[e]
    BY <1>5 DEF Publish
  <2>2. \A t \in Stages : stage[t].state = "attached" /\ stage'[t].state = "published" => t = s
    BY <2>1, ReturnedShape
  <2> QED BY <2>1, <2>2, ExtendPublishes
<1>6. ASSUME NEW e \in Epochs, NEW batch, NEW terminal \in BOOLEAN, PublishReasoning(e, batch, terminal)
      PROVE  RoundPublishes
  <2>1. Reachable(e) /\ Current(e) /\ Extend(e, batch, terminal) /\ UNCHANGED stage
    BY <1>6 DEF PublishReasoning
  <2>2. \A t \in Stages : ~(stage[t].state = "attached" /\ stage'[t].state = "published")
    BY <2>1
  <2> QED BY <2>1, <2>2, ExtendPublishes
<1>7. ASSUME NEW i \in Invocations, BeginClose(i)
      PROVE  RoundPublishes
  <2>1. UNCHANGED <<arena, round>> /\ \A e \in Epochs : child[i] # e => status'[e] = status[e]
    BY <1>7 DEF BeginClose, Finish
  <2>2. ASSUME NEW e \in Epochs, child[i] = e
        PROVE  status[e] = "OPEN"
    <3>1. e # None
      BY EpochAssumption
    <3>2. e[1] = i
      BY <2>2, <3>1 DEF EpochInv, ChildIsOwn
    <3> QED BY <2>2, <3>2 DEF EpochInv, ChildIsTheOpenEpoch
  <2>3. Endings
    BY <2>1, <2>2 DEF Endings
  <2> QED BY <2>1, <2>3, QuietStep
<1>8. CASE Collect
  <2>1. UNCHANGED <<arena, round>> /\ Endings
    BY <1>8 DEF Collect, Finish, Endings
  <2> QED BY <2>1, QuietStep
<1>9. CASE CoreTransition \/ CloseIssuer \/ UNCHANGED vars
  <2>1. UNCHANGED <<status, arena, round>>
    BY <1>9 DEF CoreTransition, CloseIssuer, vars
  <2> QED BY <2>1, QuietStep DEF Endings
<1>10. CASE Staging
  BY <1>1, <1>2, <1>3, <1>4, <1>5, <1>10 DEF Staging
<1>11. CASE Committing
  BY <1>1, <1>2, <1>6, <1>11 DEF Committing
<1> QED BY <1>7, <1>8, <1>9, <1>10, <1>11 DEF Next

(* No snapshot changes but into the next round of a live epoch, in the     *)
(* environment it was opened in, with the batch staged for that round.     *)
THEOREM OnlyLivePublish == Spec => OnlyLiveRoundsPublish
<1>1. EpochInv /\ [Next]_vars => [RoundPublishes]_vars
  BY PublishStep
<1> QED BY InitEpoch, EpochStep, <1>1, PTL DEF Spec, OnlyLiveRoundsPublish

-----------------------------------------------------------------------------
(* Runs, under the specification of the runtime.                           *)

Fields == {"at", "operation", "epoch", "snapshot", "round", "frontier", "output", "environment", "outcome"}

Ended(r) == run[r].at \in {"clean up", "done"}

(* Where a run is, and what of it the arena and the epoch show.            *)
RunShape ==
  /\ DOMAIN run = Runs
  /\ \A r \in Runs : DOMAIN run[r] = Fields /\ run[r].operation \in {"SEED", "DISCOVER", "EVALUATE"}

Begun(r) == run[r].at # "idle"

RunsOwnEpochs ==
  /\ \A r \in Runs : ~Begun(r) => run[r].epoch = None
  /\ \A r \in Runs : Begun(r) =>
       policy.reasoning /\ run[r].epoch \in Epochs /\ status[run[r].epoch] # "unborn"
  /\ \A q, r \in Runs : Begun(r) /\ run[q].epoch = run[r].epoch => q = r

RunsMirrorArenas ==
  \A r \in Runs : Begun(r) =>
    run[r].snapshot = arena[run[r].epoch] /\ run[r].round = round[run[r].epoch]

OutcomesTell ==
  \A r \in Runs : Begun(r) =>
    /\ run[r].outcome = "FIXED_POINT" <=> status[run[r].epoch] = "PUBLISHED"
    /\ run[r].outcome = "FIXED_POINT" => Ended(r)
    /\ Ended(r) => status[run[r].epoch] # "OPEN"

PermitsAreOwned ==
  /\ \A p \in permits : policy.reasoning /\ p.epoch \in Epochs /\ status[p.epoch] # "unborn"
  /\ \A r \in Runs : run[r].at \in {"opened", "done"} => \A p \in permits : p.epoch # run[r].epoch

RunInv == RunShape /\ RunsOwnEpochs /\ RunsMirrorArenas /\ OutcomesTell /\ PermitsAreOwned

LEMMA InitRuns == RInit => RunInv
<1> SUFFICES ASSUME RInit PROVE RunInv
  OBVIOUS
<1>1. RunShape
  BY DEF RInit, RunShape, Resting, Fields
<1>2. \A r \in Runs : run[r].at = "idle" /\ run[r].epoch = None
  BY DEF RInit, Resting
<1>3. permits = {}
  BY DEF RInit
<1> QED BY <1>1, <1>2, <1>3 DEF RunInv, RunsOwnEpochs, RunsMirrorArenas, OutcomesTell, PermitsAreOwned, Begun, Ended

-----------------------------------------------------------------------------
(* What a step of a run changes: its own place and variables.              *)
Moved(r) ==
  /\ DOMAIN run' = Runs /\ DOMAIN run'[r] = Fields
  /\ run'[r].operation \in {"SEED", "DISCOVER", "EVALUATE"}
  /\ \A q \in Runs : q # r => run'[q] = run[q]
  /\ run'[r].epoch = run[r].epoch

LEMMA Went ==
  ASSUME RunShape, NEW r \in Runs, NEW place, Goes(r, place)
  PROVE  /\ Moved(r) /\ run'[r].at = place /\ run'[r].outcome = run[r].outcome
         /\ run'[r].snapshot = run[r].snapshot /\ run'[r].round = run[r].round
BY DEF RunShape, Goes, Moved, Fields

LEMMA Raised ==
  ASSUME RunShape, NEW r \in Runs, NEW code, Raises(r, code)
  PROVE  /\ Moved(r) /\ run'[r].at = "failed" /\ run'[r].outcome = code
         /\ run'[r].snapshot = run[r].snapshot /\ run'[r].round = run[r].round
BY DEF RunShape, Raises, Moved, Fields

(* A permit that comes from a move is one that was there, or of the run.   *)
LEMMA MovedPermits ==
  ASSUME NEW r \in Runs, NEW before, NEW after, Moves(r, before, after)
  PROVE  \A p \in permits' : p \in permits \/ p.epoch = run[r].epoch
BY DEF Moves, Permit

(* A step of a run keeps the invariant if what it says of its own epoch is *)
(* still so.                                                               *)
LEMMA OwnStep ==
  ASSUME RunInv, NEW r \in Runs, Running(r), Moved(r), UNCHANGED policy,
         run'[r].at \notin {"idle", "opened"},
         \A d \in Epochs : d # run[r].epoch =>
            arena'[d] = arena[d] /\ round'[d] = round[d] /\ status'[d] = status[d],
         status'[run[r].epoch] # "unborn",
         run'[r].snapshot = arena'[run[r].epoch], run'[r].round = round'[run[r].epoch],
         run'[r].outcome = "FIXED_POINT" <=> status'[run[r].epoch] = "PUBLISHED",
         run'[r].outcome = "FIXED_POINT" => run'[r].at \in {"clean up", "done"},
         run'[r].at \in {"clean up", "done"} => status'[run[r].epoch] # "OPEN",
         \A p \in permits' : p \in permits \/ p.epoch = run[r].epoch,
         run'[r].at = "done" => \A p \in permits' : p.epoch # run[r].epoch
  PROVE  RunInv'
<1> DEFINE e == run[r].epoch
<1>1. Begun(r) /\ e \in Epochs
  BY DEF Running, Begun, RunInv, RunsOwnEpochs
<1>2. \A q \in Runs : q # r => run'[q] = run[q] /\ (Begun(q) => run[q].epoch # e /\ run[q].epoch \in Epochs)
  BY <1>1 DEF Moved, RunInv, RunsOwnEpochs
<1>3. RunShape'
  BY DEF RunInv, RunShape, Moved
<1>4. RunsOwnEpochs'
  <2>1. \A q \in Runs : (Begun(q)' <=> Begun(q)) /\ run'[q].epoch = run[q].epoch
    BY <1>1, <1>2 DEF Moved, Begun
  <2>2. \A d \in Epochs : status[d] # "unborn" => status'[d] # "unborn"
    OBVIOUS
  <2>3. RunsOwnEpochs
    BY DEF RunInv
  <2>4. \A q \in Runs : ~Begun(q)' => run'[q].epoch = None
    BY <2>1, <2>3 DEF RunsOwnEpochs
  <2>5. ASSUME NEW q \in Runs, Begun(q)'
        PROVE  policy'.reasoning /\ run'[q].epoch \in Epochs /\ status'[run'[q].epoch] # "unborn"
    <3>1. policy.reasoning /\ run[q].epoch \in Epochs /\ status[run[q].epoch] # "unborn"
      BY <2>1, <2>3, <2>5 DEF RunsOwnEpochs
    <3>2. run'[q].epoch = run[q].epoch /\ status'[run[q].epoch] # "unborn"
      BY <2>1, <2>2, <3>1
    <3>3. policy' = policy
      OBVIOUS
    <3>4. policy'.reasoning
      BY <3>1, <3>3, Zenon
    <3> QED BY <3>1, <3>2, <3>4
  <2>6. ASSUME NEW p \in Runs, NEW q \in Runs, Begun(q)', run'[p].epoch = run'[q].epoch
        PROVE  p = q
    <3>1. Begun(q) /\ run[p].epoch = run[q].epoch
      BY <2>1, <2>6
    <3> QED BY <2>3, <3>1 DEF RunsOwnEpochs
  <2> QED BY <2>4, <2>5, <2>6 DEF RunsOwnEpochs
<1>5. RunsMirrorArenas'
  <2> SUFFICES ASSUME NEW q \in Runs, Begun(q)'
               PROVE  run'[q].snapshot = arena'[run'[q].epoch] /\ run'[q].round = round'[run'[q].epoch]
    BY DEF RunsMirrorArenas
  <2>1. CASE q = r
    BY <2>1 DEF Moved
  <2>2. CASE q # r
    <3>1. run'[q] = run[q] /\ Begun(q)
      BY <1>2, <2>2 DEF Begun
    <3>2. arena'[run[q].epoch] = arena[run[q].epoch] /\ round'[run[q].epoch] = round[run[q].epoch]
      BY <1>2, <2>2, <3>1
    <3> QED BY <3>1, <3>2 DEF RunInv, RunsMirrorArenas
  <2> QED BY <2>1, <2>2
<1>6. OutcomesTell'
  <2> SUFFICES ASSUME NEW q \in Runs, Begun(q)'
               PROVE  /\ run'[q].outcome = "FIXED_POINT" <=> status'[run'[q].epoch] = "PUBLISHED"
                      /\ run'[q].outcome = "FIXED_POINT" => run'[q].at \in {"clean up", "done"}
                      /\ run'[q].at \in {"clean up", "done"} => status'[run'[q].epoch] # "OPEN"
    BY DEF OutcomesTell, Ended
  <2>1. CASE q = r
    BY <2>1 DEF Moved
  <2>2. CASE q # r
    <3>1. run'[q] = run[q] /\ Begun(q)
      BY <1>2, <2>2 DEF Begun
    <3>2. status'[run[q].epoch] = status[run[q].epoch]
      BY <1>2, <2>2, <3>1
    <3> QED BY <3>1, <3>2 DEF RunInv, OutcomesTell, Ended
  <2> QED BY <2>1, <2>2
<1>7. PermitsAreOwned'
  <2>1. \A p \in permits' : policy'.reasoning /\ p.epoch \in Epochs /\ status'[p.epoch] # "unborn"
    <3>1. \A p \in permits' : p.epoch \in Epochs /\ status'[p.epoch] # "unborn"
      BY <1>1 DEF RunInv, PermitsAreOwned
    <3>2. policy.reasoning /\ policy' = policy
      BY <1>1 DEF RunInv, RunsOwnEpochs
    <3>3. policy'.reasoning
      BY <3>2, Zenon
    <3> QED BY <3>1, <3>3
  <2>2. ASSUME NEW q \in Runs, run'[q].at \in {"opened", "done"}, NEW p \in permits'
        PROVE  p.epoch # run'[q].epoch
    <3>1. CASE q = r
      BY <2>2, <3>1 DEF Moved
    <3>2. CASE q # r
      <4>1. run'[q] = run[q] /\ Begun(q)
        BY <1>2, <2>2, <3>2 DEF Begun
      <4>2. run[q].epoch # e
        BY <1>2, <3>2, <4>1
      <4>3. p \in permits => p.epoch # run[q].epoch
        BY <2>2, <4>1 DEF RunInv, PermitsAreOwned
      <4> QED BY <4>1, <4>2, <4>3
    <3> QED BY <3>1, <3>2
  <2> QED BY <2>1, <2>2 DEF PermitsAreOwned
<1> QED BY <1>3, <1>4, <1>5, <1>6, <1>7 DEF RunInv

(* A step that leaves the epochs alone and does not end the run.           *)
LEMMA QuietOwnStep ==
  ASSUME RunInv, NEW r \in Runs, Running(r), ~Ended(r), Moved(r), UNCHANGED vars,
         run'[r].at \notin {"idle", "opened", "clean up", "done"},
         run'[r].outcome # "FIXED_POINT",
         run'[r].snapshot = run[r].snapshot, run'[r].round = run[r].round,
         \A p \in permits' : p \in permits \/ p.epoch = run[r].epoch
  PROVE  RunInv'
<1>1. UNCHANGED <<arena, round, status, policy>>
  BY DEF vars
<1>2. Begun(r)
  BY DEF Running, Begun
<1>3. status[run[r].epoch] \notin {"unborn", "PUBLISHED"}
  BY <1>2 DEF RunInv, RunsOwnEpochs, OutcomesTell
<1>4. run[r].snapshot = arena[run[r].epoch] /\ run[r].round = round[run[r].epoch]
  BY <1>2 DEF RunInv, RunsMirrorArenas
<1> QED BY <1>1, <1>3, <1>4, OwnStep

(* What the world does to the epochs of runs.                              *)
LEMMA WorldStep ==
  ASSUME RunInv, UNCHANGED <<run, arena, round, policy>>, permits' \subseteq permits,
         \A e \in Epochs : status[e] # "unborn" =>
           /\ status'[e] # "unborn" /\ (status'[e] = "PUBLISHED" <=> status[e] = "PUBLISHED")
           /\ status'[e] = "OPEN" => status[e] = "OPEN"
  PROVE  RunInv'
<1>1. RunShape' /\ RunsMirrorArenas'
  BY DEF RunInv, RunShape, RunsMirrorArenas, Begun
<1>2. RunsOwnEpochs'
  BY DEF RunInv, RunsOwnEpochs, Begun
<1>3. OutcomesTell'
  BY DEF RunInv, RunsOwnEpochs, OutcomesTell, Begun, Ended
<1>4. PermitsAreOwned'
  BY DEF RunInv, PermitsAreOwned
<1> QED BY <1>1, <1>2, <1>3, <1>4 DEF RunInv

(* Without a reasoning policy there is no run and no permit of one.        *)
LEMMA StagingStep == ASSUME RunInv, ~policy.reasoning, UNCHANGED <<local, policy>> PROVE RunInv'
<1>1. UNCHANGED <<run, permits>> /\ policy' = policy
  BY DEF local
<1>2. \A r \in Runs : ~Begun(r)
  BY DEF RunInv, RunsOwnEpochs
<1>3. permits = {}
  BY DEF RunInv, PermitsAreOwned
<1>4. \A r \in Runs : ~Begun(r)'
  BY <1>1, <1>2 DEF Begun
<1>5. RunShape' /\ RunsMirrorArenas' /\ OutcomesTell' /\ PermitsAreOwned'
  BY <1>1, <1>3, <1>4 DEF RunInv, RunShape, RunsMirrorArenas, OutcomesTell, PermitsAreOwned
<1>6. \A r \in Runs : run'[r].epoch = None
  BY <1>1, <1>2 DEF RunInv, RunsOwnEpochs
<1>7. RunsOwnEpochs'
  BY <1>4, <1>6 DEF RunsOwnEpochs
<1> QED BY <1>5, <1>7 DEF RunInv

(* A run begins with an epoch that nobody has seen.                        *)
LEMMA BeginStep ==
  ASSUME EpochInv, RunInv, NEW r \in Runs, NEW i \in Invocations, Begin(r, i)
  PROVE  RunInv'
<1> DEFINE e == <<i, sequence[i]>>
<1>1. Open(i) /\ policy.reasoning /\ permits' = permits /\ run[r].at = "idle"
  BY DEF Begin, At
<1>2. e \in Epochs /\ status[e] = "unborn" /\ arena[e] = {} /\ round[e] = 0
  <2>1. e \in Epochs /\ e[1] = i /\ e[2] = sequence[i] /\ sequence[i] \in Int
    BY <1>1, EpochAssumption DEF Open, EpochInv, TypeOK, Epochs
  <2> QED BY <2>1 DEF EpochInv, NumbersAreFresh
<1>3. /\ child'[i] = e /\ status' = [status EXCEPT ![e] = "OPEN"]
      /\ UNCHANGED <<policy, arena, round>>
  BY <1>1 DEF Open, world, EpochInv, TypeOK
<1> HIDE DEF e
<1>4. run' = [run EXCEPT ![r] = [Resting EXCEPT !.at = "opened", !.epoch = e]]
  BY <1>3 DEF Begin
<1>5. /\ DOMAIN run' = Runs /\ DOMAIN run'[r] = Fields /\ \A q \in Runs : q # r => run'[q] = run[q]
      /\ run'[r].at = "opened" /\ run'[r].epoch = e /\ run'[r].snapshot = {} /\ run'[r].round = 0
      /\ run'[r].outcome = "none" /\ run'[r].operation = "SEED"
  BY <1>4 DEF RunInv, RunShape, Resting, Fields
<1>6. status'[e] = "OPEN" /\ \A d \in Epochs : d # e => status'[d] = status[d]
  BY <1>2, <1>3 DEF EpochInv, TypeOK
<1>7. \A q \in Runs : Begun(q) => q # r /\ run[q].epoch # e /\ run[q].epoch \in Epochs
  BY <1>1, <1>2 DEF RunInv, RunsOwnEpochs, Begun
<1>8. RunShape'
  BY <1>5 DEF RunInv, RunShape
<1>9. ASSUME NEW q \in Runs, q # r
      PROVE  run'[q] = run[q] /\ (Begun(q)' <=> Begun(q)) /\ run'[q].epoch # e
  <2>1. e # None
    BY <1>2, EpochAssumption
  <2> QED BY <1>5, <1>7, <1>9, <2>1 DEF Begun, RunInv, RunsOwnEpochs
<1>10. RunsOwnEpochs'
  <2>1. \A q \in Runs : ~Begun(q)' => run'[q].epoch = None
    BY <1>5, <1>9 DEF RunInv, RunsOwnEpochs, Begun
  <2>2. ASSUME NEW q \in Runs, Begun(q)'
        PROVE  policy'.reasoning /\ run'[q].epoch \in Epochs /\ status'[run'[q].epoch] # "unborn"
    <3>1. policy'.reasoning
      BY <1>1, <1>3, Zenon
    <3>2. CASE q = r
      BY <1>2, <1>5, <1>6, <3>1, <3>2
    <3>3. CASE q # r
      <4>1. run[q].epoch \in Epochs /\ status[run[q].epoch] # "unborn" /\ run'[q] = run[q] /\ run[q].epoch # e
        BY <1>7, <1>9, <2>2, <3>3 DEF RunInv, RunsOwnEpochs
      <4> QED BY <1>6, <3>1, <4>1
    <3> QED BY <3>2, <3>3
  <2>3. ASSUME NEW p \in Runs, NEW q \in Runs, Begun(q)', run'[p].epoch = run'[q].epoch
        PROVE  p = q
    <3>1. CASE p = r \/ q = r
      BY <1>5, <1>9, <2>3, <3>1
    <3>2. CASE p # r /\ q # r
      BY <1>9, <2>3, <3>2 DEF RunInv, RunsOwnEpochs
    <3> QED BY <3>1, <3>2
  <2> QED BY <2>1, <2>2, <2>3 DEF RunsOwnEpochs
<1>11. RunsMirrorArenas'
  <2> SUFFICES ASSUME NEW q \in Runs, Begun(q)'
               PROVE  run'[q].snapshot = arena'[run'[q].epoch] /\ run'[q].round = round'[run'[q].epoch]
    BY DEF RunsMirrorArenas
  <2>1. CASE q = r
    BY <1>2, <1>3, <1>5, <2>1
  <2>2. CASE q # r
    BY <1>3, <1>9, <2>2 DEF RunInv, RunsMirrorArenas
  <2> QED BY <2>1, <2>2
<1>12. OutcomesTell'
  <2> SUFFICES ASSUME NEW q \in Runs, Begun(q)'
               PROVE  /\ run'[q].outcome = "FIXED_POINT" <=> status'[run'[q].epoch] = "PUBLISHED"
                      /\ run'[q].outcome = "FIXED_POINT" => Ended(q)'
                      /\ Ended(q)' => status'[run'[q].epoch] # "OPEN"
    BY DEF OutcomesTell
  <2>1. CASE q = r
    BY <1>5, <1>6, <2>1 DEF Ended
  <2>2. CASE q # r
    <3>1. run'[q] = run[q] /\ Begun(q) /\ run[q].epoch \in Epochs /\ run[q].epoch # e
      BY <1>7, <1>9, <2>2
    <3>2. status'[run[q].epoch] = status[run[q].epoch]
      BY <1>6, <3>1
    <3> QED BY <3>1, <3>2 DEF RunInv, OutcomesTell, Ended
  <2> QED BY <2>1, <2>2
<1>13. PermitsAreOwned'
  <2>1. \A p \in permits : policy.reasoning /\ p.epoch \in Epochs /\ status[p.epoch] # "unborn" /\ p.epoch # e
    BY <1>2 DEF RunInv, PermitsAreOwned
  <2>2. policy'.reasoning
    BY <1>1, <1>3, Zenon
  <2>3. \A p \in permits' : policy'.reasoning /\ p.epoch \in Epochs /\ status'[p.epoch] # "unborn"
    BY <1>1, <1>6, <2>1, <2>2
  <2>4. ASSUME NEW q \in Runs, run'[q].at \in {"opened", "done"}, NEW p \in permits'
        PROVE  p.epoch # run'[q].epoch
    <3>1. CASE q = r
      BY <1>1, <1>5, <2>1, <3>1
    <3>2. CASE q # r
      BY <1>1, <1>9, <2>4, <3>2 DEF RunInv, PermitsAreOwned
    <3> QED BY <3>1, <3>2
  <2> QED BY <2>3, <2>4 DEF PermitsAreOwned
<1> QED BY <1>8, <1>10, <1>11, <1>12, <1>13 DEF RunInv

-----------------------------------------------------------------------------
(* What is known of a run that is under way.                               *)
LEMMA UnderWay ==
  ASSUME RunInv, NEW r \in Runs, Running(r)
  PROVE  /\ RunShape /\ policy.reasoning
         /\ run[r].epoch \in Epochs /\ status[run[r].epoch] # "unborn"
         /\ run[r].snapshot = arena[run[r].epoch] /\ run[r].round = round[run[r].epoch]
         /\ run[r].outcome = "FIXED_POINT" <=> status[run[r].epoch] = "PUBLISHED"
         /\ ~Ended(r) => run[r].outcome # "FIXED_POINT"
         /\ run[r].at = "opened" => \A p \in permits : p.epoch # run[r].epoch
<1>1. Begun(r)
  BY DEF Running, Begun
<1> QED BY <1>1 DEF RunInv, RunsOwnEpochs, RunsMirrorArenas, OutcomesTell, PermitsAreOwned

LEMMA QuietGo ==
  ASSUME RunInv, NEW r \in Runs, Running(r), ~Ended(r), UNCHANGED vars,
         NEW place \in {"sources", "reserve", "reserve publication", "charge", "execute", "computing", "abort"},
         Goes(r, place), \A p \in permits' : p \in permits \/ p.epoch = run[r].epoch
  PROVE  RunInv'
<1>1. RunShape /\ run[r].outcome # "FIXED_POINT"
  BY UnderWay
<1>2. /\ Moved(r) /\ run'[r].at = place /\ run'[r].outcome = run[r].outcome
      /\ run'[r].snapshot = run[r].snapshot /\ run'[r].round = run[r].round
  BY <1>1, Went
<1>3. place \notin {"idle", "opened", "clean up", "done"}
  OBVIOUS
<1> QED BY <1>1, <1>2, <1>3, QuietOwnStep

LEMMA QuietRaise ==
  ASSUME RunInv, NEW r \in Runs, Running(r), ~Ended(r), UNCHANGED vars,
         NEW code, code # "FIXED_POINT", Raises(r, code),
         \A p \in permits' : p \in permits \/ p.epoch = run[r].epoch
  PROVE  RunInv'
<1>1. RunShape
  BY UnderWay
<1>2. /\ Moved(r) /\ run'[r].at = "failed" /\ run'[r].outcome = code
      /\ run'[r].snapshot = run[r].snapshot /\ run'[r].round = run[r].round
  BY <1>1, Raised
<1> QED BY <1>2, QuietOwnStep

(* The steps that leave the epochs alone and do not end the run.           *)
LEMMA QuietSteps ==
  ASSUME RunInv, NEW r \in Runs, Running(r),
         \/ ReadSources(r) \/ ReserveWork(r) \/ ReservePublication(r) \/ Charge(r) \/ Execute(r)
         \/ Compute(r) \/ PrepareEffect(r) \/ Refuse(r) \/ FindEffectStale(r) \/ FindClosed(r)
  PROVE  RunInv' /\ UNCHANGED vars
<1>1. CASE ReadSources(r)
  <2>1. UNCHANGED vars /\ permits' = permits /\ ~Ended(r)
    BY <1>1 DEF ReadSources, At, Ended
  <2> QED BY <1>1, <2>1, QuietGo, QuietRaise DEF ReadSources
<1>2. CASE ReserveWork(r) \/ ReservePublication(r)
  <2>1. UNCHANGED vars /\ permits' = permits /\ ~Ended(r)
    BY <1>2 DEF ReserveWork, ReservePublication, ReserveUnit, At, Ended
  <2>2. \/ Raises(r, "PARTIAL_BUDGET")
        \/ \E place \in {"reserve publication", "charge"} : Goes(r, place)
    BY <1>2 DEF ReserveWork, ReservePublication, ReserveUnit
  <2> QED BY <2>1, <2>2, QuietGo, QuietRaise
<1>3. CASE Charge(r)
  <2>1. UNCHANGED vars /\ ~Ended(r)
    BY <1>3 DEF Charge, At, Ended
  <2>2. \A p \in permits' : p \in permits \/ p.epoch = run[r].epoch
    BY <1>3 DEF Charge, Permit
  <2>3. Goes(r, "execute") \/ Raises(r, "CAPACITY_ABORT") \/ Raises(r, "error")
    BY <1>3 DEF Charge
  <2> QED BY <2>1, <2>2, <2>3, QuietGo, QuietRaise
<1>4. CASE Execute(r)
  <2>1. UNCHANGED vars /\ ~Ended(r) /\ Goes(r, "computing")
    BY <1>4 DEF Execute, At, Ended
  <2>2. \A p \in permits' : p \in permits \/ p.epoch = run[r].epoch
    BY <1>4, MovedPermits DEF Execute
  <2> QED BY <2>1, <2>2, QuietGo
<1>5. CASE Compute(r)
  <2>1. UNCHANGED vars /\ ~Ended(r)
    BY <1>5 DEF Compute, At, Ended
  <2>2. \A p \in permits' : p \in permits \/ p.epoch = run[r].epoch
    BY <1>5, MovedPermits DEF Compute
  <2>3. CASE \E code \in {"CAPACITY_ABORT", "CONSTRAINT_CHECK_INCOMPLETE"} : Raises(r, code)
    BY <2>1, <2>2, <2>3, QuietRaise
  <2>4. CASE ~\E code \in {"CAPACITY_ABORT", "CONSTRAINT_CHECK_INCOMPLETE"} : Raises(r, code)
    <3>1. Computed(r) /\ RunShape /\ run[r].outcome # "FIXED_POINT"
      BY <1>5, <2>1, <2>4, UnderWay DEF Compute
    <3>2. /\ Moved(r) /\ run'[r].at \in {"reserve", "prepare"} /\ run'[r].outcome = run[r].outcome
          /\ run'[r].snapshot = run[r].snapshot /\ run'[r].round = run[r].round
      <4>1. \/ run' = [run EXCEPT ![r].at = "reserve", ![r].operation = "EVALUATE",
                                  ![r].frontier = Candidates(run[r].snapshot, Given[r])]
            \/ \E out : run' = [run EXCEPT ![r].at = "prepare", ![r].output = out]
        <5>1. CASE run[r].operation = "DISCOVER"
          BY <3>1, <5>1 DEF Computed
        <5>2. CASE run[r].operation = "SEED"
          BY <3>1, <5>2 DEF Computed
        <5>3. CASE run[r].operation = "EVALUATE"
          BY <2>4, <3>1, <5>3 DEF Computed
        <5> QED BY <3>1, <5>1, <5>2, <5>3 DEF RunShape
      <4> QED BY <3>1, <4>1 DEF RunShape, Moved, Fields
    <3> QED BY <2>1, <2>2, <3>1, <3>2, QuietOwnStep
  <2> QED BY <2>1, <2>3, <2>4
<1>6. CASE PrepareEffect(r)
  <2>1. /\ UNCHANGED vars /\ ~Ended(r) /\ permits' = permits
        /\ run' = [run EXCEPT ![r].at = "commit", ![r].environment = tick]
    BY <1>6 DEF PrepareEffect, At, Ended
  <2>2. RunShape /\ run[r].outcome # "FIXED_POINT"
    BY <2>1, UnderWay
  <2>3. /\ Moved(r) /\ run'[r].at = "commit" /\ run'[r].outcome = run[r].outcome
        /\ run'[r].snapshot = run[r].snapshot /\ run'[r].round = run[r].round
    BY <2>1, <2>2 DEF RunShape, Moved, Fields
  <2> QED BY <2>1, <2>2, <2>3, QuietOwnStep
<1>7. CASE Refuse(r) \/ FindEffectStale(r) \/ FindClosed(r)
  <2>1. UNCHANGED vars /\ ~Ended(r) /\ permits' = permits
    BY <1>7 DEF Refuse, FindEffectStale, FindClosed, At, Ended, Core
  <2>2. \E code \in {"CAPACITY_ABORT", "error", "ENVIRONMENT_STALE"} : Raises(r, code)
    BY <1>7 DEF Refuse, FindEffectStale, FindClosed
  <2> QED BY <2>1, <2>2, QuietRaise
<1> QED BY <1>1, <1>2, <1>3, <1>4, <1>5, <1>6, <1>7

(* The steps that end the run, or its epoch.                               *)
LEMMA EndingSteps ==
  ASSUME EpochInv, RunInv, NEW r \in Runs, Running(r),
         TakeSnapshot(r) \/ Handle(r) \/ CleanUp(r) \/ FindEpochStale(r) \/ AbortEpoch(r)
  PROVE  RunInv' /\ [FindStale(run[r].epoch) \/ Abort(run[r].epoch)]_vars
<1> DEFINE e == run[r].epoch
<1>0. /\ RunShape /\ e \in Epochs /\ status[e] # "unborn"
      /\ run[r].snapshot = arena[e] /\ run[r].round = round[e]
      /\ run[r].outcome = "FIXED_POINT" <=> status[e] = "PUBLISHED"
      /\ ~Ended(r) => run[r].outcome # "FIXED_POINT"
      /\ run[r].at = "opened" => \A p \in permits : p.epoch # e
  BY UnderWay
<1>1. ~Reachable(e) => status[e] # "OPEN"
  BY <1>0 DEF Reachable, EpochInv, ChildIsTheOpenEpoch
<1>2. CASE TakeSnapshot(r)
  <2>1. UNCHANGED vars /\ ~Ended(r) /\ run[r].at = "opened" /\ permits' = permits
    BY <1>2 DEF TakeSnapshot, At, Ended
  <2>2. CASE Reachable(e)
    BY <1>2, <2>1, <2>2, QuietGo DEF TakeSnapshot
  <2>3. CASE ~Reachable(e)
    <3>1. run' = [run EXCEPT ![r].at = "done", ![r].outcome = "error"]
      BY <1>2, <2>3 DEF TakeSnapshot
    <3>2. /\ Moved(r) /\ run'[r].at = "done" /\ run'[r].outcome = "error"
          /\ run'[r].snapshot = run[r].snapshot /\ run'[r].round = run[r].round
      BY <1>0, <3>1 DEF RunShape, Moved, Fields
    <3>3. UNCHANGED <<arena, round, status, policy>>
      BY <2>1 DEF vars
    <3> QED BY <1>0, <1>1, <2>1, <2>3, <3>2, <3>3, OwnStep
  <2> QED BY <2>1, <2>2, <2>3
<1>3. CASE Handle(r)
  <2>1. UNCHANGED vars /\ ~Ended(r) /\ permits' = permits
    BY <1>3 DEF Handle, At, Ended
  <2>2. CASE status[e] = "OPEN"
    BY <1>3, <2>1, <2>2, QuietGo DEF Handle
  <2>3. CASE status[e] # "OPEN"
    <3>1. Goes(r, "clean up")
      BY <1>3, <2>3 DEF Handle
    <3>2. /\ Moved(r) /\ run'[r].at = "clean up" /\ run'[r].outcome = run[r].outcome
          /\ run'[r].snapshot = run[r].snapshot /\ run'[r].round = run[r].round
      BY <1>0, <3>1, Went
    <3>3. UNCHANGED <<arena, round, status, policy>>
      BY <2>1 DEF vars
    <3> QED BY <1>0, <2>1, <2>3, <3>2, <3>3, OwnStep
  <2> QED BY <2>1, <2>2, <2>3
<1>4. CASE CleanUp(r)
  <2>1. UNCHANGED vars /\ Ended(r) /\ Goes(r, "done") /\ permits' = {p \in permits : p.epoch # e}
    BY <1>4 DEF CleanUp, At, Ended
  <2>2. /\ Moved(r) /\ run'[r].at = "done" /\ run'[r].outcome = run[r].outcome
        /\ run'[r].snapshot = run[r].snapshot /\ run'[r].round = run[r].round
    BY <1>0, <2>1, Went
  <2>3. status[e] # "OPEN"
    BY <2>1 DEF RunInv, OutcomesTell, Begun, Running
  <2>4. UNCHANGED <<arena, round, status, policy>>
    BY <2>1 DEF vars
  <2> QED BY <1>0, <2>1, <2>2, <2>3, <2>4, OwnStep
<1>5. ASSUME NEW code \in {"ENVIRONMENT_STALE", "ABORTED"}, Fail(e, code), Reachable(e), Moved(r), permits' = permits,
             run'[r].at \in {"failed", "clean up"}, run'[r].outcome # "FIXED_POINT",
             run'[r].snapshot = run[r].snapshot, run'[r].round = run[r].round
      PROVE  RunInv'
  <2>1. UNCHANGED <<arena, round, policy>>
    BY <1>5 DEF Fail, world
  <2>2. status'[e] = code /\ \A d \in Epochs : d # e => status'[d] = status[d]
    BY <1>0, <1>5 DEF Fail, Finish
  <2> QED BY <1>0, <1>5, <2>1, <2>2, OwnStep
<1>6. CASE FindEpochStale(r)
  <2>1. /\ Reachable(e) /\ env[e] # tick /\ Fail(e, "ENVIRONMENT_STALE") /\ UNCHANGED stage
        /\ Raises(r, "ENVIRONMENT_STALE") /\ permits' = permits
    BY <1>6 DEF FindEpochStale
  <2>2. /\ Moved(r) /\ run'[r].at = "failed" /\ run'[r].outcome = "ENVIRONMENT_STALE"
        /\ run'[r].snapshot = run[r].snapshot /\ run'[r].round = run[r].round
    BY <1>0, <2>1, Raised
  <2>3. FindStale(e)
    BY <2>1 DEF FindStale, Current
  <2> QED BY <1>5, <2>1, <2>2, <2>3
<1>7. CASE AbortEpoch(r)
  <2>1. ~Ended(r) /\ permits' = permits
    BY <1>7 DEF AbortEpoch, At, Ended
  <2>2. CASE Reachable(e)
    <3>1. Abort(e) /\ Goes(r, "clean up")
      BY <1>7, <2>2 DEF AbortEpoch
    <3>2. /\ Moved(r) /\ run'[r].at = "clean up" /\ run'[r].outcome = run[r].outcome
          /\ run'[r].snapshot = run[r].snapshot /\ run'[r].round = run[r].round
      BY <1>0, <3>1, Went
    <3> QED BY <1>0, <1>5, <2>1, <2>2, <3>1, <3>2 DEF Abort
  <2>3. CASE ~Reachable(e)
    <3>1. UNCHANGED vars /\ run' = [run EXCEPT ![r].at = "clean up", ![r].outcome = "error"]
      BY <1>7, <2>3 DEF AbortEpoch
    <3>2. /\ Moved(r) /\ run'[r].at = "clean up" /\ run'[r].outcome = "error"
          /\ run'[r].snapshot = run[r].snapshot /\ run'[r].round = run[r].round
      BY <1>0, <3>1 DEF RunShape, Moved, Fields
    <3>3. UNCHANGED <<arena, round, status, policy>>
      BY <3>1 DEF vars
    <3> QED BY <1>0, <1>1, <2>1, <2>3, <3>1, <3>2, <3>3, OwnStep
  <2> QED BY <2>2, <2>3
<1> QED BY <1>2, <1>3, <1>4, <1>6, <1>7

(* A commit is the next round of the run's own epoch, or its last.         *)
LEMMA CommitStep ==
  ASSUME EpochInv, RunInv, NEW r \in Runs, Running(r), Commit(r)
  PROVE  RunInv' /\ PublishReasoning(run[r].epoch, run[r].output, Terminal(r))
<1> DEFINE e == run[r].epoch
           A == arena[e] \cup run[r].output
<1>0. /\ RunShape /\ e \in Epochs /\ status[e] # "unborn"
      /\ run[r].snapshot = arena[e] /\ run[r].round = round[e]
      /\ run[r].outcome = "FIXED_POINT" <=> status[e] = "PUBLISHED"
      /\ ~Ended(r) => run[r].outcome # "FIXED_POINT"
  BY UnderWay
<1>1. /\ PublishReasoning(e, run[r].output, Terminal(r)) /\ ~Ended(r) /\ status[e] = "OPEN"
      /\ \A p \in permits' : p \in permits
  BY DEF Commit, At, Ended, Dispatches, Reachable
<1>2. /\ arena' = [arena EXCEPT ![e] = @ \cup run[r].output]
      /\ round' = [round EXCEPT ![e] = @ + 1] /\ policy' = policy
      /\ IF Terminal(r) THEN Finish({e}, "PUBLISHED") ELSE UNCHANGED status
  BY <1>1 DEF PublishReasoning, Publishable, Extend, world
<1>3. /\ \A d \in Epochs : d # e => arena'[d] = arena[d] /\ round'[d] = round[d] /\ status'[d] = status[d]
      /\ arena'[e] = A /\ round'[e] = round[e] + 1
      /\ status'[e] = IF Terminal(r) THEN "PUBLISHED" ELSE "OPEN"
  BY <1>0, <1>1, <1>2 DEF Finish, EpochInv, TypeOK
<1>4. /\ Moved(r) /\ run'[r].at = IF Terminal(r) THEN "clean up" ELSE "reserve"
      /\ run'[r].outcome = IF Terminal(r) THEN "FIXED_POINT" ELSE run[r].outcome
      /\ run'[r].snapshot = A /\ run'[r].round = round[e] + 1
  <2>1. run' = [run EXCEPT ![r].at = IF Terminal(r) THEN "clean up" ELSE "reserve",
                        ![r].outcome = IF Terminal(r) THEN "FIXED_POINT" ELSE @,
                        ![r].operation = "DISCOVER",
                        ![r].snapshot = @ \cup run[r].output,
                        ![r].round = @ + 1, ![r].output = {}, ![r].frontier = {}]
    BY DEF Commit
  <2> DEFINE place == IF Terminal(r) THEN "clean up" ELSE "reserve"
             outcome == IF Terminal(r) THEN "FIXED_POINT" ELSE run[r].outcome
             B == run[r].snapshot \cup run[r].output
  <2>2. B = A /\ run[r].round + 1 = round[e] + 1
    BY <1>0
  <2>3. run' = [run EXCEPT ![r] = [run[r] EXCEPT !.at = place, !.outcome = outcome, !.operation = "DISCOVER",
                                               !.snapshot = B, !.round = run[r].round + 1,
                                               !.output = {}, !.frontier = {}]]
    BY <1>0, <2>1 DEF RunShape, Fields
  <2> HIDE DEF place, outcome, B
  <2>4. /\ Moved(r) /\ run'[r].at = place /\ run'[r].outcome = outcome
        /\ run'[r].snapshot = B /\ run'[r].round = run[r].round + 1
    BY <1>0, <2>3 DEF RunShape, Moved, Fields
  <2> QED BY <2>2, <2>4 DEF place, outcome
<1> HIDE DEF A
<1>5. run[r].outcome # "FIXED_POINT"
  BY <1>0, <1>1
<1>6. RunInv'
  <2>1. CASE Terminal(r)
    BY <1>0, <1>1, <1>2, <1>3, <1>4, <2>1, OwnStep
  <2>2. CASE ~Terminal(r)
    BY <1>0, <1>1, <1>2, <1>3, <1>4, <1>5, <2>2, OwnStep
  <2> QED BY <2>1, <2>2
<1> QED BY <1>1, <1>6

LEMMA RunSteps ==
  ASSUME EpochInv, RunInv, NEW r \in Runs, RunStep(r)
  PROVE  RunInv' /\ [Next]_vars
<1> DEFINE e == run[r].epoch
<1>1. Running(r) /\ policy.reasoning /\ e \in Epochs
  BY UnderWay DEF RunStep
<1>2. CASE \/ ReadSources(r) \/ ReserveWork(r) \/ ReservePublication(r) \/ Charge(r) \/ Execute(r)
           \/ Compute(r) \/ PrepareEffect(r) \/ Refuse(r) \/ FindEffectStale(r) \/ FindClosed(r)
  BY <1>1, <1>2, QuietSteps
<1>3. CASE TakeSnapshot(r) \/ Handle(r) \/ CleanUp(r) \/ FindEpochStale(r) \/ AbortEpoch(r)
  <2>1. RunInv' /\ [FindStale(e) \/ Abort(e)]_vars
    BY <1>1, <1>3, EndingSteps
  <2> QED BY <1>1, <2>1 DEF Next, Committing
<1>4. CASE Commit(r)
  <2>1. RunInv' /\ PublishReasoning(e, run[r].output, Terminal(r)) /\ Terminal(r) \in BOOLEAN
    BY <1>1, <1>4, CommitStep DEF Terminal
  <2> QED BY <1>1, <2>1 DEF Next, Committing
<1> QED BY <1>2, <1>3, <1>4 DEF RunStep

LEMMA ReasoningStep ==
  EpochInv /\ RunInv /\ [RNext]_everything => RunInv' /\ [Next]_vars
<1> SUFFICES ASSUME EpochInv, RunInv, [RNext]_everything
             PROVE  RunInv' /\ [Next]_vars
  OBVIOUS
<1>0. TypeOK
  BY DEF EpochInv
<1>1. ASSUME NEW r \in Runs, NEW i \in Invocations, Begin(r, i)
      PROVE  RunInv' /\ [Next]_vars
  <2>1. Open(i) /\ policy.reasoning
    BY <1>1 DEF Begin
  <2>2. Next
    BY <2>1 DEF Next, Committing
  <2> QED BY <1>1, <2>2, BeginStep
<1>2. ASSUME NEW es \in SUBSET Epochs, Finish(es, "PARENT_AUTHORITY_STALE"),
             \A e \in es : status[e] = "OPEN",
             UNCHANGED <<run, arena, round, policy>>, permits' \subseteq permits
      PROVE  RunInv'
  <2>1. \A e \in Epochs : status[e] # "unborn" =>
           /\ status'[e] # "unborn" /\ (status'[e] = "PUBLISHED" <=> status[e] = "PUBLISHED")
           /\ status'[e] = "OPEN" => status[e] = "OPEN"
    BY <1>2 DEF Finish
  <2> QED BY <1>2, <2>1, WorldStep
<1>3. ASSUME NEW i \in Invocations, CloseParent(i)
      PROVE  RunInv' /\ [Next]_vars
  <2> DEFINE es == {e \in Epochs : child[i] = e}
  <2>1. /\ BeginClose(i) /\ Finish(es, "PARENT_AUTHORITY_STALE")
        /\ UNCHANGED <<run, arena, round, policy>> /\ permits' \subseteq permits
    BY <1>3 DEF CloseParent, BeginClose
  <2>2. ASSUME NEW e \in es
        PROVE  status[e] = "OPEN"
    <3>1. e \in Epochs /\ child[i] = e /\ e # None
      BY EpochAssumption
    <3>2. e[1] = i
      BY <3>1 DEF EpochInv, ChildIsOwn
    <3> QED BY <3>1, <3>2 DEF EpochInv, ChildIsTheOpenEpoch
  <2>3. es \in SUBSET Epochs
    OBVIOUS
  <2> HIDE DEF es
  <2> QED BY <1>2, <2>1, <2>2, <2>3 DEF Next
<1>4. CASE CollectRuntime
  <2> DEFINE es == {e \in Epochs : status[e] = "OPEN"}
  <2>1. /\ Collect /\ Finish(es, "PARENT_AUTHORITY_STALE")
        /\ UNCHANGED <<run, arena, round, policy>> /\ permits' = permits
    BY <1>4 DEF CollectRuntime, Collect, local
  <2>2. es \in SUBSET Epochs /\ \A e \in es : status[e] = "OPEN"
    OBVIOUS
  <2> HIDE DEF es
  <2> QED BY <1>2, <2>1, <2>2 DEF Next
<1>5. CASE Staging /\ UNCHANGED local
  <2>1. ~policy.reasoning
    BY <1>5 DEF Staging
  <2>2. policy' = policy
    BY <1>5 DEF Staging, Open, FindStale, Abort, Claim, Publish, BuildFails, Attach, Extend, Fail, world
  <2> QED BY <1>5, <2>1, <2>2, StagingStep DEF Next
<1>6. CASE (CoreTransition \/ CloseIssuer) /\ UNCHANGED local
  <2>1. UNCHANGED <<run, permits, arena, round, policy, status>>
    BY <1>6 DEF CoreTransition, CloseIssuer, local
  <2>2. permits' \subseteq permits
    BY <2>1
  <2>3. RunInv'
    BY <2>1, <2>2, WorldStep
  <2> QED BY <1>6, <2>3 DEF Next
<1>7. CASE UNCHANGED everything
  <2>1. UNCHANGED <<run, permits, arena, round, policy, status>> /\ UNCHANGED vars
    BY <1>7 DEF everything, local, vars
  <2>2. permits' \subseteq permits
    BY <2>1
  <2> QED BY <2>1, <2>2, WorldStep
<1> QED BY <1>1, <1>3, <1>4, <1>5, <1>6, <1>7, RunSteps DEF RNext

-----------------------------------------------------------------------------
(* The reasoning runtime opens, publishes to and ends epochs only as the   *)
(* interface of cie.py allows: every step of a run is a step of an epoch,  *)
(* or none.                                                                *)
THEOREM RunsUseEpochs == RSpec => Spec
<1>1. RInit => Init /\ EpochInv /\ RunInv
  BY InitEpoch, InitRuns DEF RInit
<1>2. EpochInv /\ RunInv /\ [RNext]_everything => EpochInv' /\ RunInv' /\ [Next]_vars
  BY ReasoningStep, EpochStep
<1> QED BY <1>1, <1>2, PTL DEF RSpec, Spec

(* While runs go on, an invocation has one open epoch, the one it names.   *)
THEOREM RunsShareNoEpoch == RSpec => []ChildIsTheOpenEpoch
<1>1. TypeOK /\ ChildIsTheOpenEpoch /\ RoundIsNeverStolen => ChildIsTheOpenEpoch
  OBVIOUS
<1> QED BY <1>1, RunsUseEpochs, EpochsAreSound, PTL

(* While runs go on, snapshots change only into the next round of a live   *)
(* epoch.                                                                  *)
THEOREM RunsPublishLive == RSpec => OnlyLiveRoundsPublish
BY RunsUseEpochs, OnlyLivePublish, PTL

(* A run that is over, whatever ended it, leaves no epoch open and no      *)
(* permit behind, and reports exactly the snapshot that was last published.*)
THEOREM RunsLeaveNothing == RSpec => []RunLeavesNothing
<1>1. RInit => EpochInv /\ RunInv
  BY InitEpoch, InitRuns DEF RInit
<1>2. EpochInv /\ RunInv /\ [RNext]_everything => EpochInv' /\ RunInv'
  BY ReasoningStep, EpochStep
<1>3. RunInv => RunLeavesNothing
  BY DEF RunInv, RunLeavesNothing, RunsMirrorArenas, OutcomesTell, PermitsAreOwned, Begun, Ended
<1> QED BY <1>1, <1>2, <1>3, PTL DEF RSpec

-----------------------------------------------------------------------------
(* Counting: sums over functions, and unions of bounded sets.              *)

(* Every set of numbers has a least member.  Of the initial segments up to *)
(* its members one contains no other.                                      *)
LEMMA LeastMember ==
  ASSUME NEW T, T \subseteq Nat, T # {}
  PROVE  \E x \in T : \A y \in T : x <= y
<1> DEFINE UpTo(x) == 0 .. x
           Segments == {UpTo(x) : x \in T}
           R == StrictSubsetOrdering(Nat)
<1>1. IsWellFoundedOn(R, FiniteSubsetsOf(Nat))
  BY FS_StrictSubsetOrderingWellFounded
<1>2. Segments \subseteq FiniteSubsetsOf(Nat) /\ Segments # {}
  <2>1. \A x \in T : UpTo(x) \subseteq Nat /\ IsFiniteSet(UpTo(x))
    BY FS_Interval, 0 \in Int
  <2> QED BY <2>1 DEF FiniteSubsetsOf
<1>3. \A x, y \in Nat : x < y => <<UpTo(x), UpTo(y)>> \in R
  <2> SUFFICES ASSUME NEW x \in Nat, NEW y \in Nat, x < y PROVE <<UpTo(x), UpTo(y)>> \in R
    OBVIOUS
  <2>1. /\ UpTo(x) \subseteq UpTo(y) /\ y \in UpTo(y) /\ y \notin UpTo(x)
        /\ UpTo(x) \subseteq Nat /\ UpTo(y) \subseteq Nat
    OBVIOUS
  <2> QED BY <2>1 DEF StrictSubsetOrdering
<1> HIDE DEF R, UpTo
<1>4. PICK U \in Segments : \A V \in Segments : ~ (<<V, U>> \in R)
  <2> HIDE DEF Segments
  <2> QED BY <1>1, <1>2, WFMin
<1>5. PICK x \in T : U = UpTo(x)
  BY <1>4
<1>6. \A y \in T : ~(y < x)
  BY <1>3, <1>4, <1>5
<1> QED BY <1>5, <1>6

LEMMA CountUp ==
  ASSUME NEW N \in Nat, NEW T, 0 \in T, \A n \in 0 .. N - 1 : n \in T => n + 1 \in T
  PROVE  N \in T
<1> SUFFICES ASSUME N \notin T PROVE FALSE
  OBVIOUS
<1> DEFINE U == {n \in 0 .. N : n \notin T}
<1>1. U \subseteq Nat /\ N \in U
  OBVIOUS
<1>2. PICK m \in U : \A y \in U : m <= y
  BY <1>1, LeastMember
<1>3. m # 0 /\ m - 1 \in 0 .. N - 1
  BY <1>2
<1>4. m - 1 \in T
  BY <1>2, <1>3
<1> QED BY <1>2, <1>3, <1>4

Smaller(D, k) == {s \in SUBSET D : Cardinality(s) <= k}

Summed(h, f, s) ==
  IF s = {} THEN 0 ELSE f[CHOOSE x \in s : TRUE] + h[s \ {CHOOSE x \in s : TRUE}]

Summing(h, f, D) == h = [s \in SUBSET D |-> Summed(h, f, s)]

LEMMA OneFewer ==
  ASSUME NEW D, IsFiniteSet(D), NEW s \in SUBSET D, NEW x \in s
  PROVE  /\ IsFiniteSet(s) /\ Cardinality(s) \in Nat \ {0}
         /\ Cardinality(s \ {x}) = Cardinality(s) - 1 /\ s \ {x} \in SUBSET D
<1>1. IsFiniteSet(s)
  BY FS_Subset
<1>2. Cardinality(s) \in Nat /\ Cardinality(s) # 0
  BY <1>1, FS_CardinalityType, FS_EmptySet
<1>3. Cardinality(s \ {x}) = Cardinality(s) - 1
  BY <1>1, FS_RemoveElement
<1> QED BY <1>1, <1>2, <1>3

LEMMA OnlyEmpty ==
  ASSUME NEW D, IsFiniteSet(D), NEW s \in Smaller(D, 0)
  PROVE  s = {}
<1>1. s \in SUBSET D /\ Cardinality(s) <= 0
  BY DEF Smaller
<1>2. ASSUME NEW x \in s PROVE FALSE
  <2>1. Cardinality(s) \in Nat \ {0}
    BY <1>1, OneFewer
  <2> QED BY <1>1, <2>1
<1> QED BY <1>2

LEMMA SummingExists ==
  ASSUME NEW f, NEW D, IsFiniteSet(D)
  PROVE  \E h : Summing(h, f, D)
<1> DEFINE upto(h, k) == h = [s \in Smaller(D, k) |-> Summed(h, f, s)]
           T == {k \in Nat : \E h : upto(h, k)}
           N == Cardinality(D)
<1>1. N \in Nat
  BY FS_CardinalityType
<1>2. 0 \in T
  <2> DEFINE h == [s \in Smaller(D, 0) |-> 0]
  <2>1. \A s \in Smaller(D, 0) : s = {}
    BY OnlyEmpty
  <2>2. h = [s \in Smaller(D, 0) |-> Summed(h, f, s)]
    BY <2>1 DEF Summed
  <2> QED BY <2>2
<1>3. ASSUME NEW k \in 0 .. N - 1, k \in T PROVE k + 1 \in T
  <2>1. PICK h : upto(h, k)
    BY <1>3
  <2> DEFINE g == [s \in Smaller(D, k + 1) |-> Summed(h, f, s)]
  <2>2. \A s \in Smaller(D, k) : g[s] = h[s] /\ s \in Smaller(D, k + 1)
    <3>1. \A s \in Smaller(D, k) : s \in Smaller(D, k + 1)
      <4> SUFFICES ASSUME NEW s \in Smaller(D, k) PROVE s \in Smaller(D, k + 1)
        OBVIOUS
      <4>1. IsFiniteSet(s) /\ Cardinality(s) \in Nat
        BY FS_Subset, FS_CardinalityType DEF Smaller
      <4> QED BY <4>1 DEF Smaller
    <3> QED BY <2>1, <3>1, Zenon
  <2>3. ASSUME NEW s \in Smaller(D, k + 1) PROVE Summed(h, f, s) = Summed(g, f, s)
    <3>1. CASE s = {}
      BY <3>1 DEF Summed
    <3>2. CASE s # {}
      <4> DEFINE x == CHOOSE y \in s : TRUE
      <4>1. x \in s
        BY <3>2
      <4> HIDE DEF x
      <4>2. s \ {x} \in Smaller(D, k)
        BY <4>1, OneFewer DEF Smaller
      <4>3. h[s \ {x}] = g[s \ {x}]
        BY <2>2, <4>2
      <4> HIDE DEF g
      <4> QED BY <3>2, <4>3, Zenon DEF Summed, x
    <3> QED BY <3>1, <3>2
  <2>4. upto(g, k + 1)
    <3>1. [s \in Smaller(D, k + 1) |-> Summed(h, f, s)] = [s \in Smaller(D, k + 1) |-> Summed(g, f, s)]
      BY <2>3, Zenon
    <3> QED BY <3>1, Zenon
  <2> HIDE DEF g
  <2>5. k + 1 \in Nat
    OBVIOUS
  <2> QED BY <2>4, <2>5, Zenon
<1> HIDE DEF T
<1>4. N \in T
  BY <1>1, <1>2, <1>3, CountUp
<1>5. PICK h : upto(h, N)
  BY <1>4 DEF T
<1>6. Smaller(D, N) = SUBSET D
  BY FS_Subset DEF Smaller
<1> QED BY <1>5, <1>6, Zenon DEF Summing

LEMMA SumFolds ==
  ASSUME NEW f, IsFiniteSet(DOMAIN f)
  PROVE  \E h : Summing(h, f, DOMAIN f) /\ SumFunction(f) = h[DOMAIN f]
<1> DEFINE k == CHOOSE h : h = [s \in SUBSET DOMAIN f |-> IF s = {} THEN 0
                          ELSE f[CHOOSE x \in s : TRUE] + h[s \ {CHOOSE x \in s : TRUE}]]
<1>1. \E h : Summing(h, f, DOMAIN f)
  BY SummingExists
<1>2. Summing(k, f, DOMAIN f)
  BY <1>1, Zenon DEF Summing, Summed
<1>3. SumFunction(f) = k[DOMAIN f]
  BY Zenon DEF SumFunction, SumFunctionOnSet, FoldFunctionOnSet, MapThenFoldSet
<1> QED BY <1>2, <1>3, Zenon

LEMMA Joined ==
  ASSUME NEW S, NEW T, IsFiniteSet(S), IsFiniteSet(T)
  PROVE  /\ IsFiniteSet(S \cup T) /\ Cardinality(S \cup T) <= Cardinality(S) + Cardinality(T)
         /\ Cardinality(S) \in Nat /\ Cardinality(T) \in Nat /\ Cardinality(S \cup T) \in Nat
<1>1. /\ IsFiniteSet(S \cup T) /\ Cardinality(S \cup T) = Cardinality(S) + Cardinality(T) - Cardinality(S \cap T)
      /\ IsFiniteSet(S \cap T)
  BY FS_Union, FS_Intersection
<1> QED BY <1>1, FS_CardinalityType

(* A union has at most as many members as its sets together.               *)
LEMMA UnionSums ==
  ASSUME NEW f, NEW F, IsFiniteSet(DOMAIN f),
         \A x \in DOMAIN f : f[x] \in Nat /\ IsFiniteSet(F[x]) /\ Cardinality(F[x]) <= f[x]
  PROVE  /\ SumFunction(f) \in Nat
         /\ IsFiniteSet(UNION {F[x] : x \in DOMAIN f})
         /\ Cardinality(UNION {F[x] : x \in DOMAIN f}) <= SumFunction(f)
<1> DEFINE D == DOMAIN f
           all(s) == UNION {F[x] : x \in s}
           N == Cardinality(D)
<1>1. PICK h : Summing(h, f, D) /\ SumFunction(f) = h[D]
  BY SumFolds
<1> DEFINE good(s) == h[s] \in Nat /\ IsFiniteSet(all(s)) /\ Cardinality(all(s)) <= h[s]
           T == {k \in Nat : \A s \in Smaller(D, k) : good(s)}
<1>2. N \in Nat
  BY FS_CardinalityType
<1>3. \A s \in SUBSET D : h[s] = Summed(h, f, s)
  BY <1>1 DEF Summing
<1>4. good({})
  <2>1. h[{}] = 0
    BY <1>3 DEF Summed
  <2>2. all({}) = {}
    OBVIOUS
  <2> QED BY <2>1, <2>2, FS_EmptySet
<1>5. 0 \in T
  <2>1. \A s \in Smaller(D, 0) : s = {}
    BY OnlyEmpty
  <2> HIDE DEF good
  <2> QED BY <1>4, <2>1
<1>6. ASSUME NEW k \in 0 .. N - 1, k \in T PROVE k + 1 \in T
  <2> SUFFICES ASSUME NEW s \in Smaller(D, k + 1) PROVE good(s)
    <3> HIDE DEF good
    <3> QED OBVIOUS
  <2>1. CASE s = {}
    <3> HIDE DEF good
    <3> QED BY <1>4, <2>1
  <2>2. CASE s # {}
    <3> DEFINE c == CHOOSE y \in s : TRUE
    <3>1. s \in SUBSET D /\ Cardinality(s) <= k + 1 /\ c \in s
      BY <2>2 DEF Smaller
    <3>2. h[s] = f[c] + h[s \ {c}]
      BY <1>3, <2>2, <3>1, Zenon DEF Summed
    <3> HIDE DEF c
    <3>3. s \ {c} \in Smaller(D, k)
      BY <3>1, OneFewer DEF Smaller
    <3>4. good(s \ {c})
      <4> HIDE DEF good
      <4> QED BY <1>6, <3>3
    <3>5. all(s) = F[c] \cup all(s \ {c})
      BY <3>1
    <3>6. /\ f[c] \in Nat /\ IsFiniteSet(F[c]) /\ Cardinality(F[c]) <= f[c]
          /\ h[s \ {c}] \in Nat /\ IsFiniteSet(all(s \ {c})) /\ Cardinality(all(s \ {c})) <= h[s \ {c}]
      BY <3>1, <3>4
    <3> HIDE DEF all
    <3>7. /\ IsFiniteSet(all(s)) /\ Cardinality(all(s)) <= Cardinality(F[c]) + Cardinality(all(s \ {c}))
          /\ Cardinality(F[c]) \in Nat /\ Cardinality(all(s \ {c})) \in Nat /\ Cardinality(all(s)) \in Nat
      BY <3>5, <3>6, Joined
    <3> QED BY <3>2, <3>6, <3>7
  <2> QED BY <2>1, <2>2
<1> HIDE DEF T
<1>7. N \in T
  BY <1>2, <1>5, <1>6, CountUp
<1>8. D \in Smaller(D, N)
  BY <1>2 DEF Smaller
<1>9. good(D)
  <2> HIDE DEF good, D, N
  <2> QED BY <1>7, <1>8 DEF T
<1> QED BY <1>1, <1>9

(* And at most k times as many as there are, if each has at most k.        *)
LEMMA UnionTimes ==
  ASSUME NEW D, NEW F, NEW k \in Nat, IsFiniteSet(D),
         \A x \in D : IsFiniteSet(F[x]) /\ Cardinality(F[x]) <= k
  PROVE  /\ IsFiniteSet(UNION {F[x] : x \in D})
         /\ Cardinality(UNION {F[x] : x \in D}) <= k * Cardinality(D)
<1> DEFINE all(s) == UNION {F[x] : x \in s}
           N == Cardinality(D)
           good(s) == IsFiniteSet(all(s)) /\ Cardinality(all(s)) <= k * Cardinality(s)
           T == {n \in Nat : \A s \in SUBSET D : Cardinality(s) = n => good(s)}
<1>1. N \in Nat
  BY FS_CardinalityType
<1>2. 0 \in T
  <2> SUFFICES ASSUME NEW s \in SUBSET D, Cardinality(s) = 0 PROVE good(s)
    <3> HIDE DEF good
    <3> QED OBVIOUS
  <2>1. s = {}
    BY FS_Subset, FS_EmptySet
  <2>2. all(s) = {} /\ IsFiniteSet(all(s)) /\ Cardinality(all(s)) = 0 /\ k * 0 = 0
    BY <2>1, FS_EmptySet
  <2> QED BY <2>2
<1>3. ASSUME NEW n \in 0 .. N - 1, n \in T PROVE n + 1 \in T
  <2> SUFFICES ASSUME NEW s \in SUBSET D, Cardinality(s) = n + 1 PROVE good(s)
    <3> HIDE DEF good
    <3> QED OBVIOUS
  <2>1. PICK c \in s : TRUE
    BY FS_EmptySet
  <2>2. Cardinality(s \ {c}) = n /\ s \ {c} \in SUBSET D
    <3> HIDE DEF good, all, T
    <3>1. Cardinality(s \ {c}) = Cardinality(s) - 1 /\ s \ {c} \in SUBSET D
      BY <2>1, OneFewer
    <3> QED BY <1>1, <3>1
  <2>3. good(s \ {c})
    <3> HIDE DEF good
    <3> QED BY <1>3, <2>2
  <2>4. all(s) = F[c] \cup all(s \ {c})
    BY <2>1
  <2>5. /\ IsFiniteSet(F[c]) /\ Cardinality(F[c]) <= k
        /\ IsFiniteSet(all(s \ {c})) /\ Cardinality(all(s \ {c})) <= k * n
    BY <2>2, <2>3
  <2> HIDE DEF all
  <2>6. /\ IsFiniteSet(all(s)) /\ Cardinality(all(s)) <= Cardinality(F[c]) + Cardinality(all(s \ {c}))
        /\ Cardinality(F[c]) \in Nat /\ Cardinality(all(s \ {c})) \in Nat /\ Cardinality(all(s)) \in Nat
    BY <2>4, <2>5, Joined
  <2>7. k * (n + 1) = k * n + k /\ k * n \in Nat
    OBVIOUS
  <2> QED BY <2>5, <2>6, <2>7
<1> HIDE DEF T
<1>4. N \in T
  BY <1>1, <1>2, <1>3, CountUp
<1>5. good(D)
  <2>1. D \in SUBSET D
    OBVIOUS
  <2> HIDE DEF good
  <2> QED BY <1>4, <2>1 DEF T
<1> QED BY <1>5

LEMMA ImageBound ==
  ASSUME NEW S, NEW f, IsFiniteSet(S)
  PROVE  /\ IsFiniteSet({f[x] : x \in S}) /\ Cardinality({f[x] : x \in S}) <= Cardinality(S)
<1> DEFINE T == {f[x] : x \in S}
           g == [x \in S |-> f[x]]
<1>1. g \in Surjection(S, T)
  BY DEF Surjection
<1> HIDE DEF g
<1> QED BY <1>1, FS_Surjection

LEMMA PairsStep == ASSUME NEW n \in Nat PROVE Pairs(n) \in Nat /\ Pairs(n + 1) = Pairs(n) + n
<1> DEFINE a == n * (n - 1)
<1>1. a \in Nat
  OBVIOUS
<1>2. (n + 1) * (n + 1 - 1) = a + 2 * n
  OBVIOUS
<1> HIDE DEF a
<1>3. (a + 2 * n) \div 2 = (a \div 2) + n /\ a \div 2 \in Nat
  BY <1>1
<1> QED BY <1>2, <1>3 DEF Pairs, a

(* A constraint of one participant asks about each, of two about each pair.*)
LEMMA Subsets ==
  ASSUME NEW D, IsFiniteSet(D)
  PROVE  /\ IsFiniteSet(kSubset(1, D)) /\ Cardinality(kSubset(1, D)) <= Cardinality(D)
         /\ IsFiniteSet(kSubset(2, D)) /\ Cardinality(kSubset(2, D)) <= Pairs(Cardinality(D))
<1> DEFINE N == Cardinality(D)
           good(s) == IsFiniteSet(kSubset(2, s)) /\ Cardinality(kSubset(2, s)) <= Pairs(Cardinality(s))
           T == {n \in Nat : \A s \in SUBSET D : Cardinality(s) = n => good(s)}
<1>1. N \in Nat
  BY FS_CardinalityType
<1>2. IsFiniteSet(kSubset(1, D)) /\ Cardinality(kSubset(1, D)) <= N
  <2> DEFINE f == [x \in D |-> {x}]
  <2>1. \A s \in kSubset(1, D) : IsFiniteSet(s) /\ Cardinality(s) = 1
    BY FS_Subset DEF kSubset
  <2>2. kSubset(1, D) \subseteq {f[x] : x \in D}
    <3> SUFFICES ASSUME NEW s \in kSubset(1, D) PROVE s \in {f[x] : x \in D}
      OBVIOUS
    <3>1. PICK x : s = {x}
      BY <2>1, FS_Singleton
    <3>2. x \in D
      BY <3>1 DEF kSubset
    <3> QED BY <3>1, <3>2
  <2> HIDE DEF f
  <2>3. IsFiniteSet({f[x] : x \in D}) /\ Cardinality({f[x] : x \in D}) <= N
    BY ImageBound
  <2>4. IsFiniteSet(kSubset(1, D)) /\ Cardinality(kSubset(1, D)) <= Cardinality({f[x] : x \in D})
    BY <2>2, <2>3, FS_Subset
  <2> QED BY <1>1, <2>3, <2>4, FS_CardinalityType
<1>3. 0 \in T
  <2> SUFFICES ASSUME NEW s \in SUBSET D, Cardinality(s) = 0 PROVE good(s)
    <3> HIDE DEF good
    <3> QED OBVIOUS
  <2>1. s = {}
    BY FS_Subset, FS_EmptySet
  <2>2. kSubset(2, s) = {}
    BY <2>1, FS_EmptySet DEF kSubset
  <2>3. Pairs(0) \in Nat
    BY PairsStep
  <2> QED BY <2>2, <2>3, FS_EmptySet
<1>4. ASSUME NEW n \in 0 .. N - 1, n \in T PROVE n + 1 \in T
  <2> SUFFICES ASSUME NEW s \in SUBSET D, Cardinality(s) = n + 1 PROVE good(s)
    <3> HIDE DEF good
    <3> QED OBVIOUS
  <2>1. PICK c \in s : TRUE
    BY FS_EmptySet
  <2> DEFINE t == s \ {c}
             f == [x \in t |-> {c, x}]
  <2>2. Cardinality(t) = n /\ t \in SUBSET D /\ IsFiniteSet(t)
    BY OneFewer, FS_Subset
  <2>3. good(t)
    <3> HIDE DEF good, t
    <3> QED BY <1>4, <2>2
  <2>4. kSubset(2, s) \subseteq kSubset(2, t) \cup {f[x] : x \in t}
    <3> SUFFICES ASSUME NEW p \in kSubset(2, s), c \in p PROVE p \in {f[x] : x \in t}
      BY DEF kSubset
    <3>1. p \in SUBSET s /\ Cardinality(p) = 2 /\ IsFiniteSet(p)
      BY FS_Subset DEF kSubset
    <3>2. IsFiniteSet(p \ {c}) /\ Cardinality(p \ {c}) = 1
      BY <3>1, FS_RemoveElement
    <3>3. PICK x : p \ {c} = {x}
      BY <3>2, FS_Singleton
    <3>4. x \in t /\ p = {c, x}
      BY <3>1, <3>3
    <3> QED BY <3>4
  <2> HIDE DEF f, t
  <2>5. IsFiniteSet({f[x] : x \in t}) /\ Cardinality({f[x] : x \in t}) <= n
    BY <2>2, ImageBound
  <2> DEFINE both == kSubset(2, t) \cup {f[x] : x \in t}
  <2>6. /\ IsFiniteSet(both) /\ Cardinality(both) \in Nat
        /\ Cardinality(both) <= Cardinality(kSubset(2, t)) + Cardinality({f[x] : x \in t})
        /\ Cardinality(kSubset(2, t)) \in Nat /\ Cardinality({f[x] : x \in t}) \in Nat
    BY <2>3, <2>5, Joined
  <2>7. IsFiniteSet(kSubset(2, s)) /\ Cardinality(kSubset(2, s)) <= Cardinality(both)
    BY <2>4, <2>6, FS_Subset
  <2>8. Cardinality(kSubset(2, s)) \in Nat
    BY <2>7, FS_CardinalityType
  <2>9. Pairs(n) \in Nat /\ Pairs(n + 1) = Pairs(n) + n
    BY PairsStep
  <2> HIDE DEF both
  <2>10. Cardinality(kSubset(2, t)) <= Pairs(n)
    BY <2>2, <2>3
  <2> QED BY <2>5, <2>6, <2>7, <2>8, <2>9, <2>10
<1> HIDE DEF T
<1>5. N \in T
  BY <1>1, <1>3, <1>4, CountUp
<1>6. good(D)
  <2>1. D \in SUBSET D
    OBVIOUS
  <2> HIDE DEF good
  <2> QED BY <1>5, <2>1 DEF T
<1> QED BY <1>2, <1>6
-----------------------------------------------------------------------------
(* What an arena holds: one entry under each key.  But for a derivation's, *)
(* the value of an entry is given by its kind and its name.                *)
Value(given, key) ==
  CASE key[1] = "CONTEXT"              -> Context(given, key[2])
    [] key[1] = "ASSERTION"            -> key[2].basis
    [] key[1] \in {"SUPPORT", "BACKING"} -> "source"
    [] key[1] = "CONSTRAINT"           -> "active"
    [] key[1] = "FINDING"              -> "incompatible"
    [] key[1] = "COMPLETED"            -> "BLOCKED"
    [] key[1] = "CLEARANCE"            -> "cleared"

Told(given, x) == x[1][1] # "DERIVATION" => x = <<x[1], Value(given, x[1])>>

Lawful(A, given) ==
  /\ IsFiniteSet(A)
  /\ \A x, y \in A : x[1] = y[1] => x = y
  /\ \A x \in A : Told(given, x)
  /\ Constraints(A) \subseteq given.constraints

LEMMA LawfulAgrees == ASSUME NEW A, NEW given, Lawful(A, given) PROVE ~Conflict(A)
<1> DEFINE f == [x \in A |-> x[1]]
           T == {x[1] : x \in A}
<1>1. f \in Surjection(A, T) /\ f \in Injection(A, T) /\ IsFiniteSet(A)
  BY DEF Lawful, Surjection, Injection, IsInjective
<1> HIDE DEF f, T
<1>2. Cardinality(T) = Cardinality(A)
  BY <1>1, FS_Surjection
<1> QED BY <1>1, <1>2, FS_CardinalityType DEF Conflict, T

(* The kinds of entries that an evaluation adds.                           *)
LEMMA EvaluatedIs ==
  ASSUME NEW A, NEW given, NEW frontier, NEW n, NEW y \in Evaluated(A, given, frontier, n)
  PROVE  \/ \E name : y = Entry("FINDING", name, "incompatible")
         \/ \E app \in frontier :
              \/ /\ Conflicts(Constraints(A), Parents(app), given) # {}
                 /\ y = Entry("COMPLETED", app, "BLOCKED")
              \/ /\ Conflicts(Constraints(A), Parents(app), given) = {}
                 /\ y \in {Entry("ASSERTION", Conclusion(app), "derived"),
                          Entry("DERIVATION", app, Ancestry(A, app)), Entry("CLEARANCE", <<app, n>>, "cleared")}
<1>1. \A S, use : \A x \in Findings(S, use, n) : \E name : x = Entry("FINDING", name, "incompatible")
  BY DEF Findings
<1>2. CASE \E group \in Groups(A, given) : y \in Query(A, given, group, n)
  BY <1>1, <1>2 DEF Query
<1>3. ASSUME NEW app \in frontier, y \in Decided(A, given, app, n)
      PROVE  \/ \E name : y = Entry("FINDING", name, "incompatible")
             \/ /\ Conflicts(Constraints(A), Parents(app), given) # {}
                /\ y = Entry("COMPLETED", app, "BLOCKED")
             \/ /\ Conflicts(Constraints(A), Parents(app), given) = {}
                /\ y \in {Entry("ASSERTION", Conclusion(app), "derived"),
                         Entry("DERIVATION", app, Ancestry(A, app)), Entry("CLEARANCE", <<app, n>>, "cleared")}
  <2> DEFINE found == Conflicts(Constraints(A), Parents(app), given)
  <2>1. CASE found # {}
    <3>1. y \in Findings(First(found), <<"use", app>>, n) \cup {Entry("COMPLETED", app, "BLOCKED")}
      BY <1>3, <2>1 DEF Decided
    <3>2. y \in Findings(First(found), <<"use", app>>, n) => \E name : y = Entry("FINDING", name, "incompatible")
      <4> HIDE DEF found
      <4> QED BY <1>1
    <3> HIDE DEF found
    <3> QED BY <2>1, <3>1, <3>2 DEF found
  <2>2. CASE found = {}
    <3>1. y \in {Entry("ASSERTION", Conclusion(app), "derived"),
                 Entry("DERIVATION", app, Ancestry(A, app)), Entry("CLEARANCE", <<app, n>>, "cleared")}
      BY <1>3, <2>2 DEF Decided
    <3> QED BY <2>2, <3>1
  <2> QED BY <2>1, <2>2
<1>4. \/ \E group \in Groups(A, given) : y \in Query(A, given, group, n)
      \/ \E app \in frontier : y \in Decided(A, given, app, n)
  BY DEF Evaluated
<1> QED BY <1>2, <1>3, <1>4

LEMMA EvaluatedHas ==
  ASSUME NEW A, NEW given, NEW frontier, NEW n, NEW app \in frontier,
         Conflicts(Constraints(A), Parents(app), given) = {}
  PROVE  /\ Entry("ASSERTION", Conclusion(app), "derived") \in Evaluated(A, given, frontier, n)
         /\ Entry("DERIVATION", app, Ancestry(A, app)) \in Evaluated(A, given, frontier, n)
<1>1. Decided(A, given, app, n) \subseteq Evaluated(A, given, frontier, n)
  BY DEF Evaluated
<1>2. Entry("ASSERTION", Conclusion(app), "derived") \in Decided(A, given, app, n)
      /\ Entry("DERIVATION", app, Ancestry(A, app)) \in Decided(A, given, app, n)
  BY DEF Decided
<1> QED BY <1>1, <1>2

LEMMA NamedIs ==
  ASSUME NEW A, NEW kind
  PROVE  /\ \A x \in A : x[1][1] = kind => x[1][2] \in Named(A, kind)
         /\ \A name \in Named(A, kind) : \E x \in A : x[1][1] = kind /\ x[1][2] = name
BY DEF Named

LEMMA LawfulEvaluated ==
  ASSUME NEW A, NEW given, NEW frontier, NEW n, Lawful(A, given), IsFiniteSet(Evaluated(A, given, frontier, n)),
         \A app \in frontier : app \notin Named(A, "DERIVATION")
  PROVE  Lawful(A \cup Evaluated(A, given, frontier, n), given)
<1> DEFINE E == Evaluated(A, given, frontier, n)
<1>1. ASSUME NEW y \in E
      PROVE  /\ y[1][1] # "CONSTRAINT" /\ Told(given, y)
             /\ y[1][1] = "DERIVATION" => y[1][2] \in frontier /\ y = <<y[1], Ancestry(A, y[1][2])>>
  <2>1. CASE \E name : y = Entry("FINDING", name, "incompatible")
    BY <2>1 DEF Entry, Value, Told
  <2>2. ASSUME NEW app \in frontier,
               y \in {Entry("COMPLETED", app, "BLOCKED"), Entry("ASSERTION", Conclusion(app), "derived"),
                      Entry("DERIVATION", app, Ancestry(A, app)), Entry("CLEARANCE", <<app, n>>, "cleared")}
        PROVE  /\ y[1][1] # "CONSTRAINT" /\ Told(given, y)
               /\ y[1][1] = "DERIVATION" => y[1][2] \in frontier /\ y = <<y[1], Ancestry(A, y[1][2])>>
    <3>1. Conclusion(app).basis = "derived"
      BY DEF Conclusion
    <3>2. CASE y = Entry("COMPLETED", app, "BLOCKED") \/ y = Entry("CLEARANCE", <<app, n>>, "cleared")
      BY <3>2 DEF Entry, Value, Told
    <3>3. CASE y = Entry("ASSERTION", Conclusion(app), "derived")
      BY <3>1, <3>3 DEF Entry, Value, Told
    <3>4. CASE y = Entry("DERIVATION", app, Ancestry(A, app))
      BY <3>4 DEF Entry, Value, Told
    <3> QED BY <2>2, <3>2, <3>3, <3>4
  <2>3. \/ \E name : y = Entry("FINDING", name, "incompatible")
        \/ \E app \in frontier :
              y \in {Entry("COMPLETED", app, "BLOCKED"), Entry("ASSERTION", Conclusion(app), "derived"),
                     Entry("DERIVATION", app, Ancestry(A, app)), Entry("CLEARANCE", <<app, n>>, "cleared")}
    BY EvaluatedIs
  <2> HIDE DEF E
  <2> QED BY <2>1, <2>2, <2>3
<1> HIDE DEF E
<1>2. IsFiniteSet(A \cup E)
  BY FS_Union DEF Lawful, E
<1>3. \A x \in A \cup E : Told(given, x)
  BY <1>1 DEF Lawful
<1>4. Constraints(A \cup E) \subseteq given.constraints
  <2>1. Constraints(A \cup E) \subseteq Constraints(A)
    BY <1>1 DEF Constraints, Named
  <2> QED BY <2>1 DEF Lawful
<1>5. ASSUME NEW x \in A \cup E, NEW y \in A \cup E, x[1] = y[1] PROVE x = y
  <2>1. CASE x[1][1] # "DERIVATION"
    BY <1>3, <1>5, <2>1 DEF Told
  <2>2. CASE x[1][1] = "DERIVATION"
    <3>1. CASE x \in E /\ y \in E
      BY <1>1, <1>5, <2>2, <3>1
    <3>2. CASE x \in A /\ y \in A
      BY <1>5, <3>2 DEF Lawful
    <3>3. CASE x \in A /\ y \in E
      BY <1>1, <1>5, <2>2, <3>3, NamedIs
    <3>4. CASE x \in E /\ y \in A
      BY <1>1, <1>5, <2>2, <3>4, NamedIs
    <3> QED BY <3>1, <3>2, <3>3, <3>4
  <2> QED BY <2>1, <2>2
<1> QED BY <1>2, <1>3, <1>4, <1>5 DEF Lawful, E

(* A seed, and how much there is of it.                                    *)
LEMMA GivenIs ==
  ASSUME NEW r \in Runs
  PROVE  LET given == Given[r] IN
         /\ IsFiniteSet(given.sources) /\ IsFiniteSet(given.constraints)
         /\ given.sources \cap given.constraints = {}
         /\ IsFiniteSet(RootsOf(given))
         /\ \A s \in given.sources : s.basis # "derived"
         /\ \A c \in given.constraints : c.arity \in {1, 2}
<1> DEFINE given == Given[r]
           all == given.sources \cup given.constraints
<1>1. given \in Range(Given)
  BY ReasoningAssumption DEF Range
<1>2. /\ IsFiniteSet(given.sources) /\ IsFiniteSet(given.constraints)
      /\ given.sources \cap given.constraints = {}
      /\ \A s \in all : IsFiniteSet(s.roots)
      /\ \A s \in given.sources : s.basis # "derived"
      /\ \A c \in given.constraints : c.arity \in {1, 2}
  BY <1>1, ReasoningAssumption
<1>3. IsFiniteSet(all)
  BY <1>2, FS_Union
<1>4. IsFiniteSet({s.roots : s \in all})
  <2> DEFINE f == [s \in all |-> s.roots]
  <2>1. IsFiniteSet({f[s] : s \in all})
    <3> HIDE DEF f, all
    <3> QED BY <1>3, ImageBound
  <2>2. {f[s] : s \in all} = {s.roots : s \in all}
    OBVIOUS
  <2> QED BY <2>1, <2>2
<1>5. IsFiniteSet(UNION {s.roots : s \in all})
  <2>1. \A T \in {s.roots : s \in all} : IsFiniteSet(T)
    BY <1>2
  <2> HIDE DEF all
  <2> QED BY <1>4, <2>1, FS_UNION
<1> QED BY <1>2, <1>5 DEF RootsOf

LEMMA TwoEach ==
  ASSUME NEW S, NEW f, NEW g, IsFiniteSet(S)
  PROVE  /\ IsFiniteSet(UNION {{f[s], g[s]} : s \in S})
         /\ Cardinality(UNION {{f[s], g[s]} : s \in S}) <= 2 * Cardinality(S)
<1> DEFINE F == [s \in S |-> {f[s], g[s]}]
<1>1. ASSUME NEW s \in S PROVE IsFiniteSet(F[s]) /\ Cardinality(F[s]) <= 2
  <2>1. F[s] = {f[s]} \cup {g[s]}
    OBVIOUS
  <2>2. IsFiniteSet({f[s]}) /\ IsFiniteSet({g[s]}) /\ Cardinality({f[s]}) = 1 /\ Cardinality({g[s]}) = 1
    BY FS_Singleton
  <2>3. IsFiniteSet({f[s]} \cup {g[s]}) /\ Cardinality({f[s]} \cup {g[s]}) <= 1 + 1
    BY <2>2, Joined
  <2> HIDE DEF F
  <2> QED BY <2>1, <2>3
<1>2. {F[s] : s \in S} = {{f[s], g[s]} : s \in S}
  OBVIOUS
<1> HIDE DEF F
<1>3. IsFiniteSet(UNION {F[s] : s \in S}) /\ Cardinality(UNION {F[s] : s \in S}) <= 2 * Cardinality(S)
  BY <1>1, UnionTimes
<1> QED BY <1>2, <1>3

LEMMA SeededIs ==
  ASSUME NEW r \in Runs
  PROVE  LET given == Given[r]
             S == Seeded(given)
         IN  /\ IsFiniteSet(S) /\ Lawful(S, given)
             /\ Cardinality(S) <= Cardinality(RootsOf(given)) + 1 + 2 * Cardinality(given.sources)
                                    + 2 * Cardinality(given.constraints)
<1> DEFINE given == Given[r]
           S == Seeded(given)
           c == [k \in 0 .. Cardinality(RootsOf(given)) |-> Entry("CONTEXT", k, Context(given, k))]
           f1 == [s \in given.sources |-> Entry("ASSERTION", s, s.basis)]
           g1 == [s \in given.sources |-> Entry("SUPPORT", s, "source")]
           f2 == [s \in given.constraints |-> Entry("CONSTRAINT", s, "active")]
           g2 == [s \in given.constraints |-> Entry("BACKING", s, "source")]
           C == {c[k] : k \in 0 .. Cardinality(RootsOf(given))}
           S1 == UNION {{f1[s], g1[s]} : s \in given.sources}
           S2 == UNION {{f2[s], g2[s]} : s \in given.constraints}
<1>1. /\ IsFiniteSet(given.sources) /\ IsFiniteSet(given.constraints) /\ IsFiniteSet(RootsOf(given))
  BY GivenIs
<1>2. S = C \cup S1 \cup S2
  BY DEF Seeded
<1>3. ASSUME NEW x \in S
      PROVE  /\ Told(given, x) /\ x[1][1] # "DERIVATION"
             /\ x[1][1] = "CONSTRAINT" => x[1][2] \in given.constraints
  <2>1. \/ \E k : x = Entry("CONTEXT", k, Context(given, k))
        \/ \E s : x = Entry("ASSERTION", s, s.basis) \/ x = Entry("SUPPORT", s, "source")
        \/ \E s \in given.constraints : x = Entry("CONSTRAINT", s, "active") \/ x = Entry("BACKING", s, "source")
    BY DEF Seeded
  <2> HIDE DEF S, given
  <2>2. CASE \E k : x = Entry("CONTEXT", k, Context(given, k))
    BY <2>2 DEF Entry, Value, Told
  <2>3. CASE \E s : x = Entry("ASSERTION", s, s.basis) \/ x = Entry("SUPPORT", s, "source")
    BY <2>3 DEF Entry, Value, Told
  <2>4. CASE \E s \in given.constraints : x = Entry("CONSTRAINT", s, "active") \/ x = Entry("BACKING", s, "source")
    BY <2>4 DEF Entry, Value, Told
  <2> QED BY <2>1, <2>2, <2>3, <2>4
<1>4. Cardinality(RootsOf(given)) \in Nat /\ Cardinality(given.sources) \in Nat /\ Cardinality(given.constraints) \in Nat
  BY <1>1, FS_CardinalityType
<1> HIDE DEF S, c, f1, g1, f2, g2, given
<1>5. IsFiniteSet(0 .. Cardinality(RootsOf(given)))
      /\ Cardinality(0 .. Cardinality(RootsOf(given))) = Cardinality(RootsOf(given)) + 1
  BY <1>4, FS_Interval
<1>6. IsFiniteSet(C) /\ Cardinality(C) <= Cardinality(RootsOf(given)) + 1
  BY <1>5, ImageBound
<1>7. IsFiniteSet(S1) /\ Cardinality(S1) <= 2 * Cardinality(given.sources)
  BY <1>1, TwoEach
<1>8. IsFiniteSet(S2) /\ Cardinality(S2) <= 2 * Cardinality(given.constraints)
  BY <1>1, TwoEach
<1> HIDE DEF C, S1, S2
<1>9. IsFiniteSet(S) /\ Cardinality(S) <= Cardinality(C) + Cardinality(S1) + Cardinality(S2)
      /\ Cardinality(C) \in Nat /\ Cardinality(S1) \in Nat /\ Cardinality(S2) \in Nat /\ Cardinality(S) \in Nat
  <2>1. /\ IsFiniteSet(C \cup S1) /\ Cardinality(C \cup S1) <= Cardinality(C) + Cardinality(S1)
        /\ Cardinality(C) \in Nat /\ Cardinality(S1) \in Nat /\ Cardinality(C \cup S1) \in Nat
    BY <1>6, <1>7, Joined
  <2>2. /\ IsFiniteSet(C \cup S1 \cup S2)
        /\ Cardinality(C \cup S1 \cup S2) <= Cardinality(C \cup S1) + Cardinality(S2)
        /\ Cardinality(S2) \in Nat /\ Cardinality(C \cup S1 \cup S2) \in Nat
    BY <1>8, <2>1, Joined
  <2> QED BY <1>2, <2>1, <2>2
<1>10. Lawful(S, given)
  <2>1. ASSUME NEW x \in S, NEW y \in S, x[1] = y[1] PROVE x = y
    BY <1>3, <2>1 DEF Told
  <2>2. Constraints(S) \subseteq given.constraints
    BY <1>3 DEF Constraints, Named
  <2> QED BY <1>3, <1>9, <2>1, <2>2 DEF Lawful
<1>11. Cardinality(S) <= Cardinality(RootsOf(given)) + 1 + 2 * Cardinality(given.sources)
                                    + 2 * Cardinality(given.constraints)
  BY <1>4, <1>6, <1>7, <1>8, <1>9
<1> QED BY <1>9, <1>10, <1>11 DEF S, given
-----------------------------------------------------------------------------
(* An evaluation, and how much there is of it.                             *)
LEMMA ApplicableIs ==
  ASSUME NEW pool, NEW app \in Applicable(pool)
  PROVE  /\ \/ \E p, q \in pool : app = <<p, q>> /\ Parents(app) = {p, q}
            \/ \E p, q, s \in pool : app = <<p, q, s>> /\ Parents(app) = {p, q, s}
         /\ Parents(app) \subseteq pool
<1>1. ASSUME NEW p \in pool, NEW q \in pool, app = <<p, q>> PROVE Parents(app) = {p, q}
  <2>1. DOMAIN app = 1 .. 2 /\ app[1] = p /\ app[2] = q
    BY <1>1
  <2>2. 1 .. 2 = {1, 2}
    OBVIOUS
  <2> QED BY <2>1, <2>2 DEF Parents
<1>2. ASSUME NEW p \in pool, NEW q \in pool, NEW s \in pool, app = <<p, q, s>> PROVE Parents(app) = {p, q, s}
  <2>1. DOMAIN app = 1 .. 3 /\ app[1] = p /\ app[2] = q /\ app[3] = s
    BY <1>2
  <2>2. 1 .. 3 = {1, 2, 3}
    OBVIOUS
  <2> QED BY <2>1, <2>2 DEF Parents
<1>3. \/ \E p, q \in pool : app = <<p, q>>
      \/ \E p, q, s \in pool : app = <<p, q, s>>
  BY DEF Applicable
<1> QED BY <1>1, <1>2, <1>3

LEMMA ApplicableFinite == ASSUME NEW pool, IsFiniteSet(pool) PROVE IsFiniteSet(Applicable(pool))
<1> DEFINE P3 == pool \X (pool \X pool)
           f == [x \in P3 |-> <<x[1], x[2][1], x[2][2]>>]
           T == {f[x] : x \in P3}
<1>1. IsFiniteSet(pool \X pool) /\ IsFiniteSet(P3)
  BY FS_Product
<1>2. ASSUME NEW p \in pool, NEW q \in pool, NEW s \in pool PROVE <<p, q, s>> \in T
  <2>1. <<p, <<q, s>>>> \in P3 /\ f[<<p, <<q, s>>>>] = <<p, q, s>>
    OBVIOUS
  <2> HIDE DEF P3, f
  <2> QED BY <2>1, Zenon
<1> HIDE DEF P3, f
<1>3. IsFiniteSet(T)
  BY <1>1, ImageBound
<1> HIDE DEF T
<1>4. IsFiniteSet((pool \X pool) \cup T)
  BY <1>1, <1>3, FS_Union
<1>5. Applicable(pool) \subseteq (pool \X pool) \cup T
  BY <1>2, ApplicableIs
<1> QED BY <1>4, <1>5, FS_Subset

LEMMA AssertionsFinite ==
  ASSUME NEW A, IsFiniteSet(A)
  PROVE  \A kind : IsFiniteSet(Named(A, kind))
<1> SUFFICES ASSUME NEW kind PROVE IsFiniteSet(Named(A, kind))
  OBVIOUS
<1> DEFINE B == {x \in A : x[1][1] = kind}
           f == [x \in B |-> x[1][2]]
<1>1. IsFiniteSet(B)
  BY FS_Subset
<1>2. Named(A, kind) = {f[x] : x \in B}
  BY DEF Named
<1> HIDE DEF f, B
<1>3. IsFiniteSet({f[x] : x \in B})
  BY <1>1, ImageBound
<1> QED BY <1>2, <1>3

LEMMA CandidatesFinite ==
  ASSUME NEW A, NEW given, IsFiniteSet(A)
  PROVE  /\ IsFiniteSet(Candidates(A, given))
         /\ \A app \in Candidates(A, given) : app \notin Named(A, "DERIVATION")
<1> DEFINE pool == Admitted(Assertions(A), given)
<1>1. IsFiniteSet(pool)
  BY AssertionsFinite, FS_Subset DEF Admitted, Assertions
<1> HIDE DEF pool
<1>2. IsFiniteSet(Applicable(pool))
  BY <1>1, ApplicableFinite
<1>3. Candidates(A, given) \subseteq Applicable(pool)
  BY DEF Candidates, pool
<1>4. IsFiniteSet(Candidates(A, given))
  BY <1>2, <1>3, FS_Subset
<1> QED BY <1>4 DEF Candidates

LEMMA FindingsBound ==
  ASSUME NEW S, NEW use, NEW n, IsFiniteSet(S)
  PROVE  /\ IsFiniteSet(Findings(S, use, n)) /\ Cardinality(Findings(S, use, n)) <= Cardinality(S)
         /\ IsFiniteSet(Findings(First(S), use, n)) /\ Cardinality(Findings(First(S), use, n)) <= 1
<1>1. ASSUME NEW R, IsFiniteSet(R)
      PROVE  IsFiniteSet(Findings(R, use, n)) /\ Cardinality(Findings(R, use, n)) <= Cardinality(R)
  <2> DEFINE f == [c \in R |-> Entry("FINDING", <<c, use, n>>, "incompatible")]
  <2>1. Findings(R, use, n) = {f[c] : c \in R}
    BY DEF Findings
  <2> HIDE DEF f
  <2> QED BY <1>1, <2>1, ImageBound
<1>2. IsFiniteSet(First(S)) /\ Cardinality(First(S)) \in {0, 1}
  <2>1. First(S) = {} \/ \E x : First(S) = {x}
    BY DEF First
  <2>2. CASE First(S) = {}
    BY <2>2, FS_EmptySet
  <2>3. ASSUME NEW x, First(S) = {x} PROVE IsFiniteSet(First(S)) /\ Cardinality(First(S)) = 1
    BY <2>3, FS_Singleton
  <2> QED BY <2>1, <2>2, <2>3
<1>3. IsFiniteSet(Findings(First(S), use, n)) /\ Cardinality(Findings(First(S), use, n)) <= Cardinality(First(S))
  BY <1>1, <1>2
<1>4. Cardinality(Findings(First(S), use, n)) \in Nat
  BY <1>3, FS_CardinalityType
<1> QED BY <1>1, <1>2, <1>3, <1>4

(* What a constraint may ask about a group, by group_capacity.             *)
Share(c, n) == IF c.arity = 1 THEN n ELSE Pairs(n)

LEMMA ChecksBound ==
  ASSUME NEW C, NEW P, NEW G, NEW given, IsFiniteSet(C), IsFiniteSet(G), P \subseteq G,
         \A c \in C : c.arity \in {1, 2}
  PROVE  LET shares == [c \in C |-> Share(c, Cardinality(G))]
         IN  /\ SumFunction(shares) \in Nat
             /\ IsFiniteSet(Conflicts(C, P, given))
             /\ Cardinality(Conflicts(C, P, given)) <= SumFunction(shares)
<1> DEFINE shares == [c \in C |-> Share(c, Cardinality(G))]
           F == [c \in C |-> {<<c, group>> : group \in kSubset(c.arity, P)}]
           all == UNION {F[c] : c \in DOMAIN shares}
<1>1. ASSUME NEW c \in C
      PROVE  shares[c] \in Nat /\ IsFiniteSet(F[c]) /\ Cardinality(F[c]) <= shares[c]
  <2> DEFINE K == kSubset(c.arity, G)
             f == [group \in K |-> <<c, group>>]
             T == {f[group] : group \in K}
  <2>1. IsFiniteSet(K) /\ Cardinality(K) <= Share(c, Cardinality(G)) /\ Share(c, Cardinality(G)) \in Nat
    <3>1. Cardinality(G) \in Nat /\ Pairs(Cardinality(G)) \in Nat
      BY FS_CardinalityType, PairsStep
    <3>2. CASE c.arity = 1
      BY <3>1, <3>2, Subsets DEF Share
    <3>3. CASE c.arity = 2
      BY <3>1, <3>3, Subsets DEF Share
    <3> QED BY <3>2, <3>3
  <2>2. F[c] \subseteq T
    BY DEF kSubset
  <2> HIDE DEF K, f, F
  <2>3. IsFiniteSet(T) /\ Cardinality(T) <= Cardinality(K)
    BY <2>1, ImageBound
  <2>4. IsFiniteSet(F[c]) /\ Cardinality(F[c]) <= Cardinality(T)
    BY <2>2, <2>3, FS_Subset
  <2> QED BY <2>1, <2>3, <2>4, FS_CardinalityType
<1>2. DOMAIN shares = C /\ IsFiniteSet(DOMAIN shares)
  OBVIOUS
<1>3. Conflicts(C, P, given) \subseteq all
  BY DEF Conflicts, Checks, Admitted
<1> HIDE DEF shares, F
<1>4. SumFunction(shares) \in Nat /\ IsFiniteSet(all) /\ Cardinality(all) <= SumFunction(shares)
  BY <1>1, <1>2, UnionSums
<1> HIDE DEF all
<1>5. IsFiniteSet(Conflicts(C, P, given)) /\ Cardinality(Conflicts(C, P, given)) <= Cardinality(all)
  BY <1>3, <1>4, FS_Subset
<1>6. Cardinality(Conflicts(C, P, given)) \in Nat /\ Cardinality(all) \in Nat
  BY <1>4, <1>5, FS_CardinalityType
<1> QED BY <1>4, <1>5, <1>6 DEF shares

LEMMA DecidedBound ==
  ASSUME NEW A, NEW given, NEW app, NEW n, IsFiniteSet(Conflicts(Constraints(A), Parents(app), given))
  PROVE  IsFiniteSet(Decided(A, given, app, n)) /\ Cardinality(Decided(A, given, app, n)) <= 3
<1> DEFINE found == Conflicts(Constraints(A), Parents(app), given)
           F == Findings(First(found), <<"use", app>>, n)
           b == Entry("COMPLETED", app, "BLOCKED")
           x == Entry("ASSERTION", Conclusion(app), "derived")
           y == Entry("DERIVATION", app, Ancestry(A, app))
           z == Entry("CLEARANCE", <<app, n>>, "cleared")
<1>1. CASE found # {}
  <2>1. Decided(A, given, app, n) = F \cup {b}
    BY <1>1 DEF Decided
  <2>2. IsFiniteSet(F) /\ Cardinality(F) <= 1
    BY FindingsBound
  <2> HIDE DEF F, b
  <2>3. IsFiniteSet({b}) /\ Cardinality({b}) = 1
    BY FS_Singleton
  <2>4. /\ IsFiniteSet(F \cup {b}) /\ Cardinality(F \cup {b}) <= Cardinality(F) + Cardinality({b})
        /\ Cardinality(F) \in Nat /\ Cardinality(F \cup {b}) \in Nat
    BY <2>2, <2>3, Joined
  <2> QED BY <2>1, <2>2, <2>3, <2>4
<1>2. CASE found = {}
  <2>1. Decided(A, given, app, n) = {x, y, z}
    BY <1>2 DEF Decided
  <2> HIDE DEF x, y, z
  <2>2. IsFiniteSet({x}) /\ Cardinality({x}) = 1
    BY FS_Singleton
  <2>3. IsFiniteSet({x} \cup {y}) /\ Cardinality({x} \cup {y}) \in {1, 2}
    BY <2>2, FS_AddElement
  <2>4. IsFiniteSet(({x} \cup {y}) \cup {z}) /\ Cardinality(({x} \cup {y}) \cup {z}) \in {1, 2, 3}
    BY <2>3, FS_AddElement
  <2>5. ({x} \cup {y}) \cup {z} = {x, y, z}
    OBVIOUS
  <2> QED BY <2>1, <2>4, <2>5
<1> QED BY <1>1, <1>2

(* The findings that group_capacity allows for.                            *)
Allowed(A, given) ==
  CASE Constraints(A) = {} -> 0
    [] Constraints(A) # {} /\ given.mode = "EXISTS" -> Cardinality(DOMAIN ScopeSizes(A))
    [] Constraints(A) # {} /\ given.mode # "EXISTS" ->
         SumFunction([s \in DOMAIN ScopeSizes(A) |->
           SumFunction([c \in Constraints(A) |-> Share(c, ScopeSizes(A)[s])])])

LEMMA EnvelopeIs ==
  ASSUME NEW A, NEW given, NEW frontier
  PROVE  Envelope("EVALUATE", A, given, frontier) = 3 * Cardinality(frontier) + Allowed(A, given)
BY Zenon DEF Envelope, Allowed, Share

Queried(A, given, n) == UNION {Query(A, given, group, n) : group \in Groups(A, given)}

LEMMA QueriedBound ==
  ASSUME NEW A, NEW given, NEW n, Lawful(A, given), \A c \in given.constraints : c.arity \in {1, 2}
  PROVE  /\ IsFiniteSet(Queried(A, given, n)) /\ Allowed(A, given) \in Nat
         /\ Cardinality(Queried(A, given, n)) <= Allowed(A, given)
<1> DEFINE C == Constraints(A)
           scopes == {a.scope : a \in Assertions(A)}
           size(s) == Cardinality({a \in Assertions(A) : a.scope = s})
           part(s) == {a \in Admitted(Assertions(A), given) : a.scope = s}
           F == [s \in scopes |-> Query(A, given, part(s), n)]
           shares(s) == [c \in C |-> Share(c, size(s))]
<1>1. IsFiniteSet(C) /\ IsFiniteSet(Assertions(A)) /\ \A c \in C : c.arity \in {1, 2}
  BY AssertionsFinite DEF Lawful, Constraints, Assertions
<1>2. IsFiniteSet(scopes)
  <2> DEFINE f == [a \in Assertions(A) |-> a.scope]
  <2>1. scopes = {f[a] : a \in Assertions(A)}
    OBVIOUS
  <2> HIDE DEF f, scopes
  <2> QED BY <1>1, <2>1, ImageBound
<1>3. ScopeSizes(A) = [s \in scopes |-> size(s)]
  BY Zenon DEF ScopeSizes
<1>4. Queried(A, given, n) \subseteq UNION {F[s] : s \in scopes}
  <2> SUFFICES ASSUME NEW x \in Queried(A, given, n) PROVE \E s \in scopes : x \in F[s]
    <3> HIDE DEF F, scopes
    <3> QED OBVIOUS
  <2>0. PICK group \in Groups(A, given) : x \in Query(A, given, group, n)
    BY DEF Queried
  <2>1. PICK a \in Admitted(Assertions(A), given) : group = part(a.scope)
    BY DEF Groups
  <2>2. a.scope \in scopes
    BY DEF Admitted
  <2>3. F[a.scope] = Query(A, given, group, n)
    BY <2>1, <2>2
  <2> QED BY <2>0, <2>2, <2>3
<1>5. ASSUME NEW s \in scopes
      PROVE  LET found == Conflicts(C, part(s), given)
             IN  /\ SumFunction(shares(s)) \in Nat
                 /\ IsFiniteSet(found) /\ Cardinality(found) <= SumFunction(shares(s))
  <2> DEFINE G == {a \in Assertions(A) : a.scope = s}
             P == part(s)
  <2>1. IsFiniteSet(G) /\ P \subseteq G
    BY <1>1, FS_Subset DEF Admitted
  <2>2. shares(s) = [c \in C |-> Share(c, Cardinality(G))]
    OBVIOUS
  <2> HIDE DEF G, P, C, shares
  <2>3. LET sh == [c \in C |-> Share(c, Cardinality(G))]
        IN  /\ SumFunction(sh) \in Nat
            /\ IsFiniteSet(Conflicts(C, P, given))
            /\ Cardinality(Conflicts(C, P, given)) <= SumFunction(sh)
    BY <1>1, <2>1, ChecksBound
  <2> QED BY <2>2, <2>3 DEF P
<1>6. CASE C = {}
  <2>1. \A P : Conflicts(C, P, given) = {}
    BY <1>6 DEF Conflicts, Checks, Admitted
  <2>2. \A P : Query(A, given, P, n) = {}
    BY <2>1 DEF Query, First, Findings
  <2>3. Queried(A, given, n) = {}
    BY <2>2 DEF Queried
  <2>4. Allowed(A, given) = 0
    BY <1>6 DEF Allowed
  <2> QED BY <2>3, <2>4, FS_EmptySet
<1>7. CASE C # {} /\ given.mode = "EXISTS"
  <2>1. ASSUME NEW s \in scopes PROVE IsFiniteSet(F[s]) /\ Cardinality(F[s]) <= 1
    <3> DEFINE found == Conflicts(C, part(s), given)
    <3>1. IsFiniteSet(found)
      BY <1>5
    <3>2. F[s] = Findings(First(found), <<"query">>, n)
      BY <1>7 DEF Query
    <3> HIDE DEF found, F
    <3> QED BY <3>1, <3>2, FindingsBound
  <2>2. Allowed(A, given) = Cardinality(scopes)
    BY <1>3, <1>7 DEF Allowed
  <2> HIDE DEF F, scopes
  <2>3. /\ IsFiniteSet(UNION {F[s] : s \in scopes})
        /\ Cardinality(UNION {F[s] : s \in scopes}) <= 1 * Cardinality(scopes)
    BY <1>2, <2>1, UnionTimes
  <2>4. IsFiniteSet(Queried(A, given, n)) /\ Cardinality(Queried(A, given, n)) <= Cardinality(UNION {F[s] : s \in scopes})
    BY <1>4, <2>3, FS_Subset
  <2>5. Cardinality(scopes) \in Nat /\ Cardinality(Queried(A, given, n)) \in Nat
        /\ Cardinality(UNION {F[s] : s \in scopes}) \in Nat
    BY <1>2, <2>3, <2>4, FS_CardinalityType
  <2> QED BY <2>2, <2>3, <2>4, <2>5
<1>8. CASE C # {} /\ given.mode # "EXISTS"
  <2> DEFINE sums == [s \in scopes |-> SumFunction(shares(s))]
  <2>1. ASSUME NEW s \in scopes PROVE sums[s] \in Nat /\ IsFiniteSet(F[s]) /\ Cardinality(F[s]) <= sums[s]
    <3> DEFINE found == Conflicts(C, part(s), given)
    <3>1. SumFunction(shares(s)) \in Nat /\ IsFiniteSet(found) /\ Cardinality(found) <= SumFunction(shares(s))
      BY <1>5
    <3>2. F[s] = Findings(found, <<"query">>, n) /\ sums[s] = SumFunction(shares(s))
      BY <1>8 DEF Query
    <3> HIDE DEF found, F, shares, sums
    <3>3. IsFiniteSet(F[s]) /\ Cardinality(F[s]) <= Cardinality(found)
      BY <3>1, <3>2, FindingsBound
    <3>4. Cardinality(F[s]) \in Nat /\ Cardinality(found) \in Nat
      BY <3>1, <3>3, FS_CardinalityType
    <3> QED BY <3>1, <3>2, <3>3, <3>4
  <2>2. Allowed(A, given) = SumFunction(sums)
    <3>1. \A s \in scopes : ScopeSizes(A)[s] = size(s)
      BY <1>3
    <3>2. DOMAIN ScopeSizes(A) = scopes
      BY <1>3
    <3>3. [s \in scopes |-> SumFunction([c \in C |-> Share(c, ScopeSizes(A)[s])])] = sums
      <4> HIDE DEF scopes, C, size
      <4> QED BY <3>1, Zenon
    <3> HIDE DEF sums, scopes
    <3> QED BY <1>8, <3>2, <3>3, Zenon DEF Allowed
  <2>3. DOMAIN sums = scopes
    OBVIOUS
  <2> HIDE DEF F, scopes, sums
  <2>4. /\ SumFunction(sums) \in Nat
        /\ IsFiniteSet(UNION {F[s] : s \in DOMAIN sums})
        /\ Cardinality(UNION {F[s] : s \in DOMAIN sums}) <= SumFunction(sums)
    BY <1>2, <2>1, <2>3, UnionSums
  <2>5. /\ IsFiniteSet(Queried(A, given, n))
        /\ Cardinality(Queried(A, given, n)) <= Cardinality(UNION {F[s] : s \in DOMAIN sums})
    BY <1>4, <2>3, <2>4, FS_Subset
  <2>6. Cardinality(Queried(A, given, n)) \in Nat /\ Cardinality(UNION {F[s] : s \in DOMAIN sums}) \in Nat
    BY <2>4, <2>5, FS_CardinalityType
  <2> QED BY <2>2, <2>4, <2>5, <2>6
<1> QED BY <1>6, <1>7, <1>8

(* An evaluation adds no more than its envelope.                           *)
LEMMA EvaluatedBound ==
  ASSUME NEW A, NEW given, NEW frontier, NEW n, Lawful(A, given), IsFiniteSet(frontier),
         \A c \in given.constraints : c.arity \in {1, 2},
         \A app \in frontier : IsFiniteSet(Parents(app))
  PROVE  LET E == Evaluated(A, given, frontier, n)
         IN  /\ IsFiniteSet(E) /\ Envelope("EVALUATE", A, given, frontier) \in Nat
             /\ Cardinality(E) <= Envelope("EVALUATE", A, given, frontier)
<1> DEFINE E == Evaluated(A, given, frontier, n)
           Q == Queried(A, given, n)
           F == [app \in frontier |-> Decided(A, given, app, n)]
           D == UNION {F[app] : app \in frontier}
<1>1. E = Q \cup D
  BY DEF Evaluated, Queried
<1>2. IsFiniteSet(Q) /\ Allowed(A, given) \in Nat /\ Cardinality(Q) <= Allowed(A, given)
  BY QueriedBound
<1>3. ASSUME NEW app \in frontier PROVE IsFiniteSet(F[app]) /\ Cardinality(F[app]) <= 3
  <2>1. IsFiniteSet(Constraints(A)) /\ \A c \in Constraints(A) : c.arity \in {1, 2}
    BY AssertionsFinite DEF Lawful, Constraints
  <2>2. IsFiniteSet(Conflicts(Constraints(A), Parents(app), given))
    BY <2>1, ChecksBound
  <2> QED BY <2>2, DecidedBound
<1> HIDE DEF F, E, Q
<1>4. IsFiniteSet(D) /\ Cardinality(D) <= 3 * Cardinality(frontier)
  BY <1>3, UnionTimes
<1> HIDE DEF D
<1>5. /\ IsFiniteSet(Q \cup D) /\ Cardinality(Q \cup D) <= Cardinality(Q) + Cardinality(D)
      /\ Cardinality(Q) \in Nat /\ Cardinality(D) \in Nat /\ Cardinality(Q \cup D) \in Nat
  BY <1>2, <1>4, Joined
<1>6. Cardinality(frontier) \in Nat
  BY FS_CardinalityType
<1> QED BY <1>1, <1>2, <1>4, <1>5, <1>6, EnvelopeIs DEF E
-----------------------------------------------------------------------------
(* What a run has made of its sources.                                     *)

(* A derivation rests on its parents, of assertions that rest on less.     *)
Rests(A, given, x) ==
  LET app == x[1][2] IN
  /\ app \in Applicable(Admitted(Assertions(A), given))
  /\ Conflicts(given.constraints, Parents(app), given) = {}
  /\ Conclusion(app) \in Assertions(A)
  /\ Parents(app) \subseteq x[2] /\ x[2] \subseteq Assertions(A) /\ Conclusion(app) \notin x[2]
  /\ \A p \in x[2] : p.basis = "derived" =>
       \E y \in Derivations(A) :
         Conclusion(y[1][2]) = p /\ Schema(y[1][2]) = Schema(app) /\ y[2] \subseteq x[2] \ {p}

Reasoned(A, given) ==
  /\ \A a \in Assertions(A) : a.basis # "derived" => a \in given.sources
  /\ \A a \in Assertions(A) : a.basis = "derived" => \E x \in Derivations(A) : Conclusion(x[1][2]) = a
  /\ \A x \in Derivations(A) : Rests(A, given, x)
  /\ \A app \in Named(A, "COMPLETED") : Conflicts(given.constraints, Parents(app), given) # {}

Started(A, given) == given.sources \subseteq Assertions(A) /\ Constraints(A) = given.constraints

Authorized == {"execute", "computing", "prepare", "commit"}

(* What was charged is covered, and stays so while the work is done.       *)
Covered(r) ==
  LET additions == Envelope(run[r].operation, run[r].snapshot, Given[r], run[r].frontier)
  IN /\ additions <= policy.staged /\ Cardinality(run[r].snapshot) + additions <= policy.entries
     /\ run[r].round < policy.rounds
     /\ run[r].operation = "EVALUATE" =>
          Cardinality(Prospective(run[r].snapshot, run[r].frontier)) <= MaxAssertions

Made(r) ==
  \/ /\ run[r].operation = "SEED" /\ run[r].output = Seeded(Given[r])
     /\ Cardinality(Given[r].sources) <= MaxAssertions
  \/ /\ run[r].operation = "EVALUATE"
     /\ run[r].output = Evaluated(run[r].snapshot, Given[r], run[r].frontier, run[r].round)

Sound(r) ==
  LET A == run[r].snapshot IN
  /\ Lawful(A, Given[r]) /\ Reasoned(A, Given[r]) /\ Cardinality(Assertions(A)) <= MaxAssertions
  /\ run[r].operation = "SEED" => A = {}
  /\ run[r].operation # "SEED" => Started(A, Given[r])
  /\ run[r].operation = "EVALUATE" => run[r].frontier = Candidates(A, Given[r])
  /\ run[r].at \in Authorized => Covered(r)
  /\ run[r].at \in {"prepare", "commit"} => Made(r)
  /\ run[r].outcome = "FIXED_POINT" => run[r].operation # "SEED" /\ Candidates(A, Given[r]) = {}

NoClaims == policy.reasoning => \A e \in Epochs : pending[e] = None

WorkInv == NoClaims /\ \A r \in Runs : Sound(r)

LEMMA AssertionsGrow ==
  ASSUME NEW A, NEW B, A \subseteq B
  PROVE  Derivations(A) \subseteq Derivations(B) /\ \A kind : Named(A, kind) \subseteq Named(B, kind)
BY DEF Derivations, Named

LEMMA ApplicableGrows ==
  ASSUME NEW S, NEW T, S \subseteq T, NEW given
  PROVE  Admitted(S, given) \subseteq Admitted(T, given) /\ Applicable(S) \subseteq Applicable(T)
<1>1. Admitted(S, given) \subseteq Admitted(T, given)
  BY DEF Admitted
<1>2. Applicable(S) \subseteq Applicable(T)
  BY DEF Applicable
<1> QED BY <1>1, <1>2

LEMMA NothingReasoned ==
  ASSUME NEW given
  PROVE  Lawful({}, given) /\ Reasoned({}, given) /\ Assertions({}) = {}
<1>1. \A kind : Named({}, kind) = {}
  BY DEF Named
<1>2. Derivations({}) = {}
  BY DEF Derivations
<1> QED BY <1>1, <1>2, FS_EmptySet DEF Lawful, Reasoned, Assertions, Constraints

LEMMA ReasonedSeeded ==
  ASSUME NEW r \in Runs
  PROVE  LET given == Given[r]
             S == Seeded(given)
         IN  Reasoned(S, given) /\ Started(S, given) /\ Assertions(S) = given.sources
<1> DEFINE given == Given[r]
           S == Seeded(given)
<1>1. ASSUME NEW x \in S
      PROVE  \/ x[1][1] \in {"CONTEXT", "SUPPORT", "BACKING"}
             \/ x[1][1] = "ASSERTION" /\ x[1][2] \in given.sources
             \/ x[1][1] = "CONSTRAINT" /\ x[1][2] \in given.constraints
  BY DEF Seeded, Entry
<1>2. \A s \in given.sources : Entry("ASSERTION", s, s.basis) \in S
  BY DEF Seeded
<1>3. \A c \in given.constraints : Entry("CONSTRAINT", c, "active") \in S
  BY DEF Seeded
<1>4. \A kind, name, value : Entry(kind, name, value)[1][1] = kind /\ Entry(kind, name, value)[1][2] = name
  BY DEF Entry
<1> HIDE DEF S
<1>5. Assertions(S) = given.sources
  <2>1. Assertions(S) \subseteq given.sources
    BY <1>1 DEF Assertions, Named
  <2>2. given.sources \subseteq Assertions(S)
    BY <1>2, <1>4, NamedIs DEF Assertions
  <2> QED BY <2>1, <2>2
<1>6. Constraints(S) = given.constraints
  <2>1. Constraints(S) \subseteq given.constraints
    BY <1>1 DEF Constraints, Named
  <2>2. given.constraints \subseteq Constraints(S)
    BY <1>3, <1>4, NamedIs DEF Constraints
  <2> QED BY <2>1, <2>2
<1>7. Derivations(S) = {} /\ Named(S, "COMPLETED") = {}
  BY <1>1 DEF Derivations, Named
<1>8. \A s \in given.sources : s.basis # "derived"
  BY GivenIs
<1> HIDE DEF given
<1> QED BY <1>5, <1>6, <1>7, <1>8 DEF Reasoned, Started, S, given

LEMMA AncestryRests ==
  ASSUME NEW A, NEW given, Reasoned(A, given), NEW app \in Candidates(A, given)
  PROVE  /\ Parents(app) \subseteq Ancestry(A, app) /\ Ancestry(A, app) \subseteq Assertions(A)
         /\ Conclusion(app) \notin Ancestry(A, app)
         /\ \A p \in Ancestry(A, app) : p.basis = "derived" =>
              \E y \in Derivations(A) :
                /\ Conclusion(y[1][2]) = p /\ Schema(y[1][2]) = Schema(app)
                /\ y[2] \subseteq Ancestry(A, app) \ {p}
<1> DEFINE derived == {q \in Parents(app) : q.basis = "derived"}
           path(p) == CHOOSE x \in Paths(A, p, app) : TRUE
<1>1. /\ app \in Applicable(Admitted(Assertions(A), given))
      /\ \A p \in Parents(app) : p # Conclusion(app) /\ (p.basis # "derived" \/ Paths(A, p, app) # {})
  BY DEF Candidates, Witnessed
<1>2. Parents(app) \subseteq Assertions(A)
  BY <1>1, ApplicableIs DEF Admitted
<1>3. Ancestry(A, app) = Parents(app) \cup (UNION {path(p)[2] : p \in derived})
  BY Zenon DEF Ancestry
<1>4. \A p \in derived : path(p) \in Paths(A, p, app)
  BY <1>1
<1> HIDE DEF path
<1>5. ASSUME NEW p \in derived
      PROVE  /\ path(p) \in Derivations(A) /\ Conclusion(path(p)[1][2]) = p
             /\ Schema(path(p)[1][2]) = Schema(app) /\ Conclusion(app) \notin path(p)[2]
             /\ Rests(A, given, path(p))
  BY <1>4 DEF Paths, Reasoned
<1> HIDE DEF derived
<1>6. \A p \in derived : path(p)[2] \subseteq Ancestry(A, app)
  BY <1>3
<1>7. ASSUME NEW p \in Ancestry(A, app)
      PROVE  /\ p \in Assertions(A) /\ p # Conclusion(app)
             /\ p.basis = "derived" =>
                  \E y \in Derivations(A) :
                    /\ Conclusion(y[1][2]) = p /\ Schema(y[1][2]) = Schema(app)
                    /\ y[2] \subseteq Ancestry(A, app) \ {p}
  <2>1. CASE p \in Parents(app)
    <3>1. p \in Assertions(A) /\ p # Conclusion(app)
      BY <1>1, <1>2, <2>1
    <3>2. ASSUME p.basis = "derived"
          PROVE  /\ path(p) \in Derivations(A) /\ Conclusion(path(p)[1][2]) = p
                 /\ Schema(path(p)[1][2]) = Schema(app) /\ path(p)[2] \subseteq Ancestry(A, app) \ {p}
      <4>1. p \in derived
        BY <2>1, <3>2 DEF derived
      <4>2. p \notin path(p)[2]
        BY <1>5, <4>1 DEF Rests
      <4> QED BY <1>5, <1>6, <4>1, <4>2
    <3> QED BY <3>1, <3>2
  <2>2. CASE p \notin Parents(app)
    <3>1. PICK q \in derived : p \in path(q)[2]
      BY <1>3, <2>2
    <3>2. /\ p \in Assertions(A) /\ p # Conclusion(app)
          /\ p.basis = "derived" =>
               \E y \in Derivations(A) :
                 Conclusion(y[1][2]) = p /\ Schema(y[1][2]) = Schema(path(q)[1][2]) /\ y[2] \subseteq path(q)[2] \ {p}
      BY <1>5, <3>1 DEF Rests
    <3>3. path(q)[2] \subseteq Ancestry(A, app) /\ Schema(path(q)[1][2]) = Schema(app)
      BY <1>5, <1>6
    <3> QED BY <3>2, <3>3
  <2> QED BY <2>1, <2>2
<1>8. Parents(app) \subseteq Ancestry(A, app)
  BY <1>3
<1> QED BY <1>7, <1>8

LEMMA RestsOn ==
  ASSUME NEW A, NEW B, A \subseteq B, NEW given, NEW x, Rests(A, given, x)
  PROVE  Rests(B, given, x)
<1>1. /\ Derivations(A) \subseteq Derivations(B) /\ Assertions(A) \subseteq Assertions(B)
  BY AssertionsGrow DEF Assertions
<1>2. Applicable(Admitted(Assertions(A), given)) \subseteq Applicable(Admitted(Assertions(B), given))
  BY <1>1, ApplicableGrows
<1>3. \A p \in x[2] : p.basis = "derived" =>
       \E y \in Derivations(B) :
         Conclusion(y[1][2]) = p /\ Schema(y[1][2]) = Schema(x[1][2]) /\ y[2] \subseteq x[2] \ {p}
  BY <1>1 DEF Rests
<1> QED BY <1>1, <1>2, <1>3 DEF Rests

LEMMA ReasonedEvaluated ==
  ASSUME NEW A, NEW given, NEW n, Reasoned(A, given), Started(A, given)
  PROVE  LET frontier == Candidates(A, given)
             B == A \cup Evaluated(A, given, frontier, n)
         IN  /\ Reasoned(B, given) /\ Started(B, given)
             /\ Assertions(B) \subseteq Prospective(A, frontier)
             /\ frontier = {} => Candidates(B, given) = {}
<1> DEFINE frontier == Candidates(A, given)
           E == Evaluated(A, given, frontier, n)
           B == A \cup E
           free(app) == Conflicts(given.constraints, Parents(app), given) = {}
<1>1. ASSUME NEW y \in E
      PROVE  /\ y[1][1] # "CONSTRAINT"
             /\ y[1][1] = "ASSERTION" =>
                  \E app \in frontier : free(app) /\ y[1][2] = Conclusion(app)
             /\ y[1][1] = "DERIVATION" =>
                  \E app \in frontier : free(app) /\ y = Entry("DERIVATION", app, Ancestry(A, app))
             /\ y[1][1] = "COMPLETED" => y[1][2] \in frontier /\ ~free(y[1][2])
  <2>1. CASE \E name : y = Entry("FINDING", name, "incompatible")
    BY <2>1 DEF Entry
  <2>2. ASSUME NEW app \in frontier, ~free(app), y = Entry("COMPLETED", app, "BLOCKED")
        PROVE  y[1][1] = "COMPLETED" /\ y[1][2] = app
    BY <2>2 DEF Entry
  <2>3. ASSUME NEW app \in frontier, free(app),
               y \in {Entry("ASSERTION", Conclusion(app), "derived"),
                      Entry("DERIVATION", app, Ancestry(A, app)), Entry("CLEARANCE", <<app, n>>, "cleared")}
        PROVE  \/ y[1][1] = "CLEARANCE"
               \/ (y[1][1] = "ASSERTION" /\ y[1][2] = Conclusion(app))
               \/ y[1][1] = "DERIVATION" /\ y = Entry("DERIVATION", app, Ancestry(A, app))
    BY <2>3 DEF Entry
  <2>4. \/ \E name : y = Entry("FINDING", name, "incompatible")
        \/ \E app \in frontier :
              \/ ~free(app) /\ y = Entry("COMPLETED", app, "BLOCKED")
              \/ /\ free(app)
                 /\ y \in {Entry("ASSERTION", Conclusion(app), "derived"),
                          Entry("DERIVATION", app, Ancestry(A, app)), Entry("CLEARANCE", <<app, n>>, "cleared")}
    <3>1. Constraints(A) = given.constraints
      BY DEF Started
    <3> HIDE DEF frontier
    <3> QED BY <3>1, EvaluatedIs DEF E
  <2> HIDE DEF E, frontier, free
  <2> QED BY <2>1, <2>2, <2>3, <2>4
<1>2. ASSUME NEW app \in frontier, free(app)
      PROVE  /\ Entry("ASSERTION", Conclusion(app), "derived") \in B
             /\ Entry("DERIVATION", app, Ancestry(A, app)) \in B
  <2>1. Constraints(A) = given.constraints
    BY DEF Started
  <2> HIDE DEF frontier
  <2> QED BY <1>2, <2>1, EvaluatedHas
<1>3. \A kind, name, value : Entry(kind, name, value)[1][1] = kind /\ Entry(kind, name, value)[1][2] = name
                             /\ Entry(kind, name, value)[2] = value
  BY DEF Entry
<1>4. A \subseteq B
  OBVIOUS
<1>5. /\ Derivations(A) \subseteq Derivations(B) /\ Assertions(A) \subseteq Assertions(B)
      /\ Constraints(A) \subseteq Constraints(B)
  BY <1>4, AssertionsGrow DEF Assertions, Constraints
<1> HIDE DEF E, free
<1>6. ASSUME NEW a \in Assertions(B), a \notin Assertions(A)
      PROVE  \E app \in frontier : free(app) /\ a = Conclusion(app)
  <2>1. PICK y \in B : y[1][1] = "ASSERTION" /\ y[1][2] = a
    BY <1>6, NamedIs DEF Assertions
  <2>2. y \in E
    BY <1>6, <2>1, NamedIs DEF Assertions
  <2> HIDE DEF frontier
  <2> QED BY <1>1, <2>1, <2>2
<1>7. ASSUME NEW a \in Assertions(B)
      PROVE  /\ a.basis # "derived" => a \in given.sources
             /\ a.basis = "derived" => \E x \in Derivations(B) : Conclusion(x[1][2]) = a
  <2>1. CASE a \in Assertions(A)
    BY <1>5, <2>1 DEF Reasoned
  <2>2. CASE a \notin Assertions(A)
    <3>1. PICK app \in frontier : free(app) /\ a = Conclusion(app)
      BY <1>6, <2>2
    <3>2. a.basis = "derived"
      BY <3>1 DEF Conclusion
    <3>3. Entry("DERIVATION", app, Ancestry(A, app)) \in Derivations(B)
      BY <1>2, <1>3, <3>1 DEF Derivations
    <3> HIDE DEF B
    <3> QED BY <1>3, <3>1, <3>2, <3>3
  <2> QED BY <2>1, <2>2
<1>8. ASSUME NEW x \in Derivations(B) PROVE Rests(B, given, x)
  <2>1. CASE x \in A
    <3>1. Rests(A, given, x)
      BY <2>1 DEF Reasoned, Derivations
    <3> QED BY <1>4, <3>1, RestsOn
  <2>2. CASE x \notin A
    <3>1. x \in E /\ x[1][1] = "DERIVATION"
      BY <2>2 DEF Derivations
    <3>2. PICK app \in frontier : free(app) /\ x = Entry("DERIVATION", app, Ancestry(A, app))
      BY <1>1, <3>1
    <3>3. x[1][2] = app /\ x[2] = Ancestry(A, app)
      BY <1>3, <3>2
    <3>4. app \in Applicable(Admitted(Assertions(B), given))
      <4>1. Applicable(Admitted(Assertions(A), given)) \subseteq Applicable(Admitted(Assertions(B), given))
        BY <1>5, ApplicableGrows
      <4> QED BY <4>1 DEF Candidates
    <3>5. Conclusion(app) \in Assertions(B)
      BY <1>2, <1>3, <3>2, NamedIs DEF Assertions
    <3>6. /\ Parents(app) \subseteq Ancestry(A, app) /\ Ancestry(A, app) \subseteq Assertions(B)
          /\ Conclusion(app) \notin Ancestry(A, app)
          /\ \A p \in Ancestry(A, app) : p.basis = "derived" =>
               \E y \in Derivations(B) :
                 /\ Conclusion(y[1][2]) = p /\ Schema(y[1][2]) = Schema(app)
                 /\ y[2] \subseteq Ancestry(A, app) \ {p}
      <4>1. app \in Candidates(A, given)
        OBVIOUS
      <4> HIDE DEF frontier, B
      <4>2. /\ Parents(app) \subseteq Ancestry(A, app) /\ Ancestry(A, app) \subseteq Assertions(A)
            /\ Conclusion(app) \notin Ancestry(A, app)
            /\ \A p \in Ancestry(A, app) : p.basis = "derived" =>
                 \E y \in Derivations(A) :
                   /\ Conclusion(y[1][2]) = p /\ Schema(y[1][2]) = Schema(app)
                   /\ y[2] \subseteq Ancestry(A, app) \ {p}
        BY <4>1, AncestryRests
      <4> QED BY <1>5, <4>2
    <3> HIDE DEF frontier, B
    <3> QED BY <3>2, <3>3, <3>4, <3>5, <3>6 DEF Rests, free
  <2> QED BY <2>1, <2>2
<1>9. ASSUME NEW app \in Named(B, "COMPLETED") PROVE ~free(app)
  <2>1. PICK y \in B : y[1][1] = "COMPLETED" /\ y[1][2] = app
    BY NamedIs
  <2>2. CASE y \in A
    BY <2>1, <2>2, NamedIs DEF Reasoned, free
  <2>3. CASE y \in E
    BY <1>1, <2>1, <2>3
  <2> QED BY <2>2, <2>3
<1>10. Constraints(B) = given.constraints
  <2>1. Constraints(B) \subseteq Constraints(A)
    BY <1>1 DEF Constraints, Named
  <2> QED BY <1>5, <2>1 DEF Started
<1>11. Assertions(B) \subseteq Prospective(A, frontier)
  <2> HIDE DEF frontier
  <2> QED BY <1>6 DEF Prospective
<1>12. ASSUME frontier = {} PROVE Candidates(B, given) = {}
  <2>1. \A y \in E : y[1][1] \notin {"ASSERTION", "DERIVATION", "COMPLETED"}
    BY <1>1, <1>12
  <2>2. /\ Assertions(B) = Assertions(A) /\ Derivations(B) = Derivations(A)
        /\ Named(B, "DERIVATION") = Named(A, "DERIVATION") /\ Named(B, "COMPLETED") = Named(A, "COMPLETED")
    BY <2>1 DEF Assertions, Derivations, Named
  <2> HIDE DEF B
  <2>3. \A p, app : Paths(B, p, app) = Paths(A, p, app)
    BY <2>2 DEF Paths
  <2>4. \A p, app : Witnessed(B, p, app) <=> Witnessed(A, p, app)
    BY <2>3 DEF Witnessed
  <2>5. Candidates(B, given) \subseteq Candidates(A, given)
    BY <2>2, <2>4 DEF Candidates
  <2> QED BY <1>12, <2>5
<1>13. Reasoned(B, given)
  BY <1>7, <1>8, <1>9 DEF Reasoned, free
<1>14. Started(B, given)
  BY <1>5, <1>10 DEF Started
<1> QED BY <1>11, <1>12, <1>13, <1>14 DEF E

-----------------------------------------------------------------------------
(* Steps.  What a step of a run does not touch.                            *)
Kept(r) ==
  /\ \A q \in Runs : q # r => run'[q] = run[q]
  /\ run'[r].snapshot = run[r].snapshot /\ run'[r].operation = run[r].operation
  /\ run'[r].frontier = run[r].frontier /\ run'[r].output = run[r].output /\ run'[r].round = run[r].round

LEMMA GoesKeeps ==
  ASSUME RunShape, NEW r \in Runs, NEW place, Goes(r, place)
  PROVE  Kept(r) /\ run'[r].at = place /\ run'[r].outcome = run[r].outcome
BY DEF RunShape, Fields, Goes, Kept

Stops(r, place, code) == run' = [run EXCEPT ![r].at = place, ![r].outcome = code]

LEMMA EndsKeeps ==
  ASSUME RunShape, NEW r \in Runs, NEW place, NEW code, Stops(r, place, code)
  PROVE  Kept(r) /\ run'[r].at = place /\ run'[r].outcome = code
BY DEF RunShape, Fields, Kept, Stops

LEMMA RaisesKeeps ==
  ASSUME RunShape, NEW r \in Runs, NEW code, Raises(r, code)
  PROVE  Kept(r) /\ run'[r].at = "failed" /\ run'[r].outcome = code
BY EndsKeeps DEF Raises, Stops

LEMMA SameWork ==
  ASSUME NEW r \in Runs, Sound(r), policy' = policy, Kept(r),
         run'[r].at \in Authorized => run[r].at \in Authorized \/ Covered(r),
         run'[r].at \in {"prepare", "commit"} => run[r].at \in {"prepare", "commit"},
         run'[r].outcome = "FIXED_POINT" => run[r].outcome = "FIXED_POINT"
  PROVE  Sound(r)'
<1>1. Covered(r)' <=> Covered(r)
  BY DEF Covered, Kept
<1>2. Made(r)' <=> Made(r)
  BY DEF Made, Kept
<1>3. /\ run'[r].snapshot = run[r].snapshot /\ run'[r].operation = run[r].operation
      /\ run'[r].frontier = run[r].frontier
  BY DEF Kept
<1> QED BY <1>1, <1>2, <1>3 DEF Sound

(* A step that leaves the work alone, and authorizes none.                 *)
Idles(r) ==
  /\ Kept(r) /\ run'[r].at \notin Authorized
  /\ run'[r].outcome = "FIXED_POINT" => run[r].outcome = "FIXED_POINT"

LEMMA IdleWork == ASSUME NEW r \in Runs, Sound(r), policy' = policy, Idles(r) PROVE Sound(r)'
<1>1. run'[r].at \notin {"prepare", "commit"}
  BY DEF Idles, Authorized
<1> QED BY <1>1, SameWork DEF Idles

LEMMA IdleSteps ==
  ASSUME RunShape, NEW r \in Runs,
         \/ TakeSnapshot(r) \/ ReadSources(r) \/ ReserveWork(r) \/ ReservePublication(r) \/ Refuse(r)
         \/ FindEffectStale(r) \/ FindEpochStale(r) \/ FindClosed(r) \/ Handle(r) \/ AbortEpoch(r) \/ CleanUp(r)
  PROVE  Idles(r)
<1>1. ASSUME NEW place \in {"sources", "reserve", "reserve publication", "charge", "abort", "clean up", "done"},
             Goes(r, place)
      PROVE  Idles(r)
  BY <1>1, GoesKeeps DEF Idles, Authorized
<1>2. ASSUME NEW code \in {"CAPACITY_ABORT", "PARTIAL_BUDGET", "error", "ENVIRONMENT_STALE"}, Raises(r, code)
      PROVE  Idles(r)
  BY <1>2, RaisesKeeps DEF Idles, Authorized
<1>3. ASSUME NEW place \in {"done", "clean up"}, Stops(r, place, "error")
      PROVE  Idles(r)
  <2>1. Kept(r) /\ run'[r].at = place /\ run'[r].outcome = "error"
    BY <1>3, EndsKeeps, Zenon
  <2> QED BY <1>3, <2>1 DEF Idles, Authorized
<1>4. CASE TakeSnapshot(r)
  BY <1>1, <1>3, <1>4 DEF TakeSnapshot, Stops
<1>5. CASE ReadSources(r)
  BY <1>1, <1>2, <1>5 DEF ReadSources
<1>6. CASE ReserveWork(r)
  BY <1>1, <1>2, <1>6 DEF ReserveWork, ReserveUnit
<1>7. CASE ReservePublication(r)
  BY <1>1, <1>2, <1>7 DEF ReservePublication, ReserveUnit
<1>8. CASE Refuse(r) \/ FindEffectStale(r) \/ FindEpochStale(r) \/ FindClosed(r)
  BY <1>2, <1>8 DEF Refuse, FindEffectStale, FindEpochStale, FindClosed
<1>9. CASE Handle(r) \/ CleanUp(r)
  BY <1>1, <1>9 DEF Handle, CleanUp
<1>10. CASE AbortEpoch(r)
  BY <1>1, <1>3, <1>10 DEF AbortEpoch, Stops
<1> QED BY <1>4, <1>5, <1>6, <1>7, <1>8, <1>9, <1>10

(* The capacity check of authorize_and_charge covers the work.             *)
LEMMA ChargeSound ==
  ASSUME EpochInv, RunInv, NEW r \in Runs, Running(r), Sound(r), policy' = policy, Charge(r)
  PROVE  Sound(r)' /\ Kept(r)
<1>1. RunShape /\ run[r].snapshot = arena[run[r].epoch] /\ run[r].round = round[run[r].epoch]
  BY UnderWay
<1>2. CASE Affordable(r) /\ Goes(r, "execute")
  <2>1. Covered(r)
    BY <1>1, <1>2 DEF Affordable, Covered
  <2>2. Kept(r) /\ run'[r].at = "execute" /\ run'[r].outcome = run[r].outcome
    BY <1>1, <1>2, GoesKeeps
  <2> QED BY <2>1, <2>2, SameWork
<1>3. CASE \E code \in {"CAPACITY_ABORT", "error"} : Raises(r, code)
  <2>1. Idles(r)
    BY <1>1, <1>3, RaisesKeeps DEF Idles, Authorized
  <2> QED BY <2>1, IdleWork DEF Idles
<1> QED BY <1>2, <1>3 DEF Charge

(* The work is done.                                                       *)
LEMMA ComputeSound ==
  ASSUME RunInv, NEW r \in Runs, Sound(r), policy' = policy, Execute(r) \/ Compute(r) \/ PrepareEffect(r)
  PROVE  Sound(r)' /\ \A q \in Runs : q # r => run'[q] = run[q]
<1>0. RunShape
  BY DEF RunInv
<1>1. CASE Execute(r)
  <2>1. run[r].at = "execute" /\ Kept(r) /\ run'[r].at = "computing" /\ run'[r].outcome = run[r].outcome
    BY <1>0, <1>1, GoesKeeps DEF Execute, At
  <2> QED BY <2>1, SameWork DEF Kept, Authorized
<1>2. CASE PrepareEffect(r)
  <2>1. run[r].at = "prepare" /\ run' = [run EXCEPT ![r].at = "commit", ![r].environment = tick]
    BY <1>2 DEF PrepareEffect, At
  <2>2. Kept(r) /\ run'[r].at = "commit" /\ run'[r].outcome = run[r].outcome
    BY <1>0, <2>1 DEF RunShape, Fields, Kept
  <2> QED BY <2>1, <2>2, SameWork DEF Kept, Authorized
<1>3. ASSUME NEW code \in {"CAPACITY_ABORT", "CONSTRAINT_CHECK_INCOMPLETE"}, Raises(r, code)
      PROVE  Sound(r)' /\ \A q \in Runs : q # r => run'[q] = run[q]
  <2>1. Idles(r)
    BY <1>0, <1>3, RaisesKeeps DEF Idles, Authorized
  <2> QED BY <2>1, IdleWork DEF Idles, Kept
<1>4. ASSUME run[r].at = "computing", run[r].operation = "DISCOVER",
             run' = [run EXCEPT ![r].at = "reserve", ![r].operation = "EVALUATE",
                                ![r].frontier = Candidates(run[r].snapshot, Given[r])]
      PROVE  Sound(r)' /\ \A q \in Runs : q # r => run'[q] = run[q]
  <2> DEFINE F == Candidates(run[r].snapshot, Given[r])
  <2>1. run' = [run EXCEPT ![r] = [run[r] EXCEPT !.at = "reserve", !.operation = "EVALUATE", !.frontier = F]]
    BY <1>0, <1>4 DEF RunShape, Fields
  <2> HIDE DEF F
  <2>2. /\ \A q \in Runs : q # r => run'[q] = run[q]
        /\ run'[r].at = "reserve" /\ run'[r].operation = "EVALUATE" /\ run'[r].frontier = F
        /\ run'[r].snapshot = run[r].snapshot /\ run'[r].outcome = run[r].outcome
    BY <1>0, <2>1 DEF RunShape, Fields
  <2>3. Sound(r)'
    BY <1>4, <2>2 DEF Sound, Authorized, F
  <2> QED BY <2>2, <2>3
<1>5. ASSUME run[r].at = "computing", NEW out, run' = [run EXCEPT ![r].at = "prepare", ![r].output = out],
             \/ /\ run[r].operation = "SEED" /\ out = Seeded(Given[r])
                /\ Cardinality(Given[r].sources) <= MaxAssertions
             \/ /\ run[r].operation = "EVALUATE"
                /\ out = Evaluated(run[r].snapshot, Given[r], run[r].frontier, run[r].round)
      PROVE  Sound(r)' /\ \A q \in Runs : q # r => run'[q] = run[q]
  <2>1. /\ \A q \in Runs : q # r => run'[q] = run[q]
        /\ run'[r].at = "prepare" /\ run'[r].output = out /\ run'[r].outcome = run[r].outcome
        /\ run'[r].snapshot = run[r].snapshot /\ run'[r].operation = run[r].operation
        /\ run'[r].frontier = run[r].frontier /\ run'[r].round = run[r].round
    BY <1>0, <1>5 DEF RunShape, Fields
  <2>2. Made(r)'
    BY <1>5, <2>1 DEF Made
  <2>3. Covered(r)'
    <3>1. Covered(r)
      BY <1>5 DEF Sound, Authorized
    <3> QED BY <2>1, <3>1 DEF Covered
  <2>4. Sound(r)'
    BY <2>1, <2>2, <2>3 DEF Sound
  <2> QED BY <2>1, <2>4
<1>6. CASE Compute(r) /\ Computable(r) /\ Computed(r)
  <2>0. run[r].at = "computing"
    BY <1>6 DEF Compute, At
  <2>1. CASE run[r].operation = "DISCOVER"
    BY <1>4, <1>6, <2>0, <2>1 DEF Computed
  <2>2. CASE run[r].operation = "SEED"
    <3>1. Cardinality(Given[r].sources) <= MaxAssertions
      BY <1>6, <2>2 DEF Computable
    <3> QED BY <1>5, <1>6, <2>0, <2>2, <3>1 DEF Computed
  <2>3. CASE run[r].operation = "EVALUATE"
    BY <1>3, <1>5, <1>6, <2>0, <2>3 DEF Computed
  <2> QED BY <1>0, <2>1, <2>2, <2>3 DEF RunShape
<1> QED BY <1>1, <1>2, <1>3, <1>6 DEF Compute

LEMMA EvaluationFinite ==
  ASSUME NEW A, NEW r \in Runs, NEW n, Lawful(A, Given[r])
  PROVE  LET given == Given[r]
             frontier == Candidates(A, given)
             E == Evaluated(A, given, frontier, n)
         IN  /\ IsFiniteSet(E) /\ Envelope("EVALUATE", A, given, frontier) \in Nat
             /\ Cardinality(E) <= Envelope("EVALUATE", A, given, frontier)
             /\ Lawful(A \cup E, given) /\ IsFiniteSet(Prospective(A, frontier))
<1> DEFINE given == Given[r]
           frontier == Candidates(A, given)
<1>1. IsFiniteSet(A)
  BY DEF Lawful
<1>2. IsFiniteSet(frontier) /\ \A app \in frontier : app \notin Named(A, "DERIVATION")
  BY <1>1, CandidatesFinite
<1>3. IsFiniteSet(Assertions(A))
  BY <1>1, AssertionsFinite DEF Assertions
<1>4. ASSUME NEW app \in frontier PROVE IsFiniteSet(Parents(app))
  <2>1. Parents(app) \subseteq Assertions(A)
    BY ApplicableIs DEF Candidates, Admitted
  <2> QED BY <1>3, <2>1, FS_Subset
<1>5. \A c \in given.constraints : c.arity \in {1, 2}
  BY GivenIs
<1> HIDE DEF frontier, given
<1>6. LET E == Evaluated(A, given, frontier, n)
      IN  /\ IsFiniteSet(E) /\ Envelope("EVALUATE", A, given, frontier) \in Nat
          /\ Cardinality(E) <= Envelope("EVALUATE", A, given, frontier)
  BY <1>2, <1>4, <1>5, EvaluatedBound DEF given
<1>7. Lawful(A \cup Evaluated(A, given, frontier, n), given)
  BY <1>2, <1>6, LawfulEvaluated DEF given
<1>8. IsFiniteSet(Prospective(A, frontier))
  <2> DEFINE f == [app \in frontier |-> Conclusion(app)]
  <2>1. Prospective(A, frontier) = Assertions(A) \cup {f[app] : app \in frontier}
    BY DEF Prospective
  <2> HIDE DEF f
  <2>2. IsFiniteSet({f[app] : app \in frontier})
    BY <1>2, ImageBound
  <2> QED BY <1>3, <2>1, <2>2, FS_Union
<1> QED BY <1>6, <1>7, <1>8 DEF frontier, given

LEMMA CommitSound ==
  ASSUME EpochInv, RunInv, NEW r \in Runs, Running(r), Sound(r), policy' = policy, Commit(r)
  PROVE  Sound(r)' /\ \A q \in Runs : q # r => run'[q] = run[q]
<1> DEFINE A == run[r].snapshot
           B == A \cup run[r].output
<1>1. RunShape /\ run[r].at = "commit" /\ run[r].outcome # "FIXED_POINT"
  BY UnderWay DEF Commit, At, Ended
<1>2. /\ \A q \in Runs : q # r => run'[q] = run[q]
      /\ run'[r].at = IF Terminal(r) THEN "clean up" ELSE "reserve"
      /\ run'[r].outcome = IF Terminal(r) THEN "FIXED_POINT" ELSE run[r].outcome
      /\ run'[r].operation = "DISCOVER" /\ run'[r].snapshot = B
  <2> DEFINE place == IF Terminal(r) THEN "clean up" ELSE "reserve"
             outcome == IF Terminal(r) THEN "FIXED_POINT" ELSE run[r].outcome
  <2>1. run' = [run EXCEPT ![r] = [run[r] EXCEPT !.at = place, !.outcome = outcome, !.operation = "DISCOVER",
                                               !.snapshot = B, !.round = run[r].round + 1,
                                               !.output = {}, !.frontier = {}]]
    BY <1>1 DEF Commit, RunShape, Fields
  <2> HIDE DEF place, outcome, B
  <2>2. /\ \A q \in Runs : q # r => run'[q] = run[q]
        /\ run'[r].at = place /\ run'[r].outcome = outcome
        /\ run'[r].operation = "DISCOVER" /\ run'[r].snapshot = B
    BY <1>1, <2>1 DEF RunShape, Fields
  <2> QED BY <2>2 DEF place, outcome
<1>3. Lawful(A, Given[r]) /\ Reasoned(A, Given[r]) /\ Covered(r) /\ Made(r)
  BY <1>1 DEF Sound, Authorized
<1>4. /\ Lawful(B, Given[r]) /\ Reasoned(B, Given[r]) /\ Started(B, Given[r])
      /\ Cardinality(Assertions(B)) <= MaxAssertions
      /\ Terminal(r) => Candidates(B, Given[r]) = {}
  <2>1. CASE run[r].operation = "SEED"
    <3>1. B = Seeded(Given[r]) /\ Cardinality(Given[r].sources) <= MaxAssertions
      BY <1>3, <2>1 DEF Made, Sound
    <3>2. ~Terminal(r)
      BY <2>1 DEF Terminal
    <3> HIDE DEF B
    <3> QED BY <3>1, <3>2, SeededIs, ReasonedSeeded
  <2>2. CASE run[r].operation = "EVALUATE"
    <3> DEFINE F == Candidates(A, Given[r])
    <3>1. run[r].frontier = F /\ Started(A, Given[r]) /\ B = A \cup Evaluated(A, Given[r], F, run[r].round)
      BY <1>3, <2>2 DEF Made, Sound
    <3>2. Cardinality(Prospective(A, F)) <= MaxAssertions
      BY <1>3, <2>2, <3>1 DEF Covered
    <3>3. Lawful(B, Given[r]) /\ IsFiniteSet(Prospective(A, F))
      <4> HIDE DEF A, B
      <4> QED BY <1>3, <3>1, EvaluationFinite
    <3>4. /\ Reasoned(B, Given[r]) /\ Started(B, Given[r]) /\ Assertions(B) \subseteq Prospective(A, F)
          /\ F = {} => Candidates(B, Given[r]) = {}
      <4> HIDE DEF A, B
      <4> QED BY <1>3, <3>1, ReasonedEvaluated
    <3> HIDE DEF A, B, F
    <3>5. Cardinality(Assertions(B)) <= MaxAssertions
      <4>1. IsFiniteSet(Assertions(B)) /\ Cardinality(Assertions(B)) <= Cardinality(Prospective(A, F))
        BY <3>3, <3>4, FS_Subset
      <4>2. MaxAssertions \in Nat
        BY ReasoningAssumption
      <4> QED BY <3>2, <3>3, <4>1, <4>2, FS_CardinalityType
    <3> QED BY <3>1, <3>3, <3>4, <3>5 DEF Terminal
  <2> QED BY <1>3, <2>1, <2>2 DEF Made
<1> HIDE DEF A, B
<1>5. Sound(r)'
  BY <1>1, <1>2, <1>4 DEF Sound, Authorized
<1> QED BY <1>2, <1>5

(* The limits stay what they were, and without stage calls nobody claims a *)
(* round.                                                                  *)
LEMMA NoClaimsStep ==
  ASSUME EpochInv, NoClaims, [Next]_vars
  PROVE  policy' = policy /\ NoClaims'
<1>0. None \notin Epochs \cup Stages /\ pending \in [Epochs -> Stages \cup {None}]
  BY EpochAssumption DEF EpochInv, TypeOK
<1>1. ASSUME NEW es, NEW code, Finish(es, code), UNCHANGED policy PROVE policy' = policy /\ NoClaims'
  BY <1>1 DEF Finish, NoClaims
<1>2. ASSUME UNCHANGED <<pending, policy>> PROVE policy' = policy /\ NoClaims'
  BY <1>2 DEF NoClaims
<1>3. CASE Staging
  <2>1. ~policy.reasoning
    BY <1>3 DEF Staging
  <2>2. policy' = policy
    BY <1>3 DEF Staging, Open, FindStale, Abort, Claim, Publish, BuildFails, Attach, Extend, Fail, world
  <2> QED BY <2>1, <2>2 DEF NoClaims
<1>4. CASE \E i \in Invocations : Open(i)
  BY <1>2, <1>4 DEF Open, world
<1>5. ASSUME NEW e \in Epochs, FindStale(e) \/ Abort(e) PROVE policy' = policy /\ NoClaims'
  BY <1>1, <1>5 DEF FindStale, Abort, Fail, world
<1>6. ASSUME NEW e \in Epochs, NEW batch, NEW terminal, PublishReasoning(e, batch, terminal)
      PROVE  policy' = policy /\ NoClaims'
  <2>1. \/ \E code : Fail(e, code)
        \/ Finish({e}, "PUBLISHED") /\ UNCHANGED policy
        \/ pending' = [pending EXCEPT ![e] = None] /\ UNCHANGED policy
    BY <1>6 DEF PublishReasoning, Extend, world
  <2>2. CASE pending' = [pending EXCEPT ![e] = None] /\ UNCHANGED policy
    BY <1>0, <2>2 DEF NoClaims
  <2> QED BY <1>1, <2>1, <2>2 DEF Fail, world
<1>7. CASE Committing
  BY <1>4, <1>5, <1>6, <1>7 DEF Committing
<1>8. ASSUME NEW i \in Invocations, BeginClose(i) PROVE policy' = policy /\ NoClaims'
  BY <1>1, <1>8 DEF BeginClose
<1>9. CASE Collect
  BY <1>1, <1>9 DEF Collect
<1>10. CASE CoreTransition \/ CloseIssuer \/ UNCHANGED vars
  BY <1>2, <1>10 DEF CoreTransition, CloseIssuer, vars
<1> QED BY <1>3, <1>7, <1>8, <1>9, <1>10 DEF Next

LEMMA UntouchedWork ==
  ASSUME NEW r \in Runs, Sound(r), policy' = policy, run'[r] = run[r]
  PROVE  Sound(r)'
<1>1. Covered(r)' <=> Covered(r)
  BY DEF Covered
<1>2. Made(r)' <=> Made(r)
  BY DEF Made
<1> QED BY <1>1, <1>2 DEF Sound

LEMMA WorkSteps ==
  ASSUME EpochInv, RunInv, WorkInv, policy' = policy, NEW r \in Runs, RunStep(r)
  PROVE  \A q \in Runs : Sound(q)'
<1>1. Running(r) /\ RunShape /\ Sound(r)
  BY DEF RunStep, RunInv, WorkInv
<1>2. Sound(r)' /\ \A q \in Runs : q # r => run'[q] = run[q]
  <2>1. CASE \/ TakeSnapshot(r) \/ ReadSources(r) \/ ReserveWork(r) \/ ReservePublication(r) \/ Refuse(r)
             \/ FindEffectStale(r) \/ FindEpochStale(r) \/ FindClosed(r) \/ Handle(r) \/ AbortEpoch(r) \/ CleanUp(r)
    <3>1. Idles(r)
      BY <1>1, <2>1, IdleSteps
    <3> QED BY <1>1, <3>1, IdleWork DEF Idles, Kept
  <2>2. CASE Charge(r)
    BY <1>1, <2>2, ChargeSound DEF Kept
  <2>3. CASE Execute(r) \/ Compute(r) \/ PrepareEffect(r)
    BY <1>1, <2>3, ComputeSound
  <2>4. CASE Commit(r)
    BY <1>1, <2>4, CommitSound
  <2> QED BY <2>1, <2>2, <2>3, <2>4 DEF RunStep
<1> QED BY <1>2, UntouchedWork DEF WorkInv

(* A run begins with nothing.                                              *)
LEMMA RestingSound ==
  ASSUME NEW r \in Runs, run[r].snapshot = {}, run[r].operation = "SEED",
         run[r].at \in {"idle", "opened"}, run[r].outcome = "none"
  PROVE  Sound(r)
<1>1. Cardinality(Assertions({})) <= MaxAssertions
  <2>1. Assertions({}) = {} /\ MaxAssertions \in Nat
    BY NothingReasoned, ReasoningAssumption
  <2> QED BY <2>1, FS_EmptySet
<1> QED BY <1>1, NothingReasoned DEF Sound, Authorized

LEMMA BeginSound ==
  ASSUME RunInv, WorkInv, policy' = policy, NEW r \in Runs, NEW i \in Invocations, Begin(r, i)
  PROVE  \A q \in Runs : Sound(q)'
<1> DEFINE e == child'[i]
<1>1. run' = [run EXCEPT ![r] = [Resting EXCEPT !.at = "opened", !.epoch = e]] /\ DOMAIN run = Runs
  BY DEF Begin, RunInv, RunShape
<1> HIDE DEF e
<1>2. /\ run'[r].snapshot = {} /\ run'[r].operation = "SEED" /\ run'[r].at = "opened" /\ run'[r].outcome = "none"
      /\ \A q \in Runs : q # r => run'[q] = run[q]
  BY <1>1 DEF Resting
<1>3. Sound(r)'
  <2>1. Cardinality(Assertions({})) <= MaxAssertions
    <3>1. Assertions({}) = {} /\ MaxAssertions \in Nat
      BY NothingReasoned, ReasoningAssumption
    <3> QED BY <3>1, FS_EmptySet
  <2> QED BY <1>2, <2>1, NothingReasoned DEF Sound, Authorized
<1> QED BY <1>2, <1>3, UntouchedWork DEF WorkInv

LEMMA InitWork == RInit => WorkInv
<1> SUFFICES ASSUME RInit PROVE WorkInv
  OBVIOUS
<1>1. \A r \in Runs : run[r].snapshot = {} /\ run[r].operation = "SEED" /\ run[r].at = "idle" /\ run[r].outcome = "none"
  BY DEF RInit, Resting
<1>2. NoClaims
  BY DEF RInit, Init, NoClaims
<1> QED BY <1>1, <1>2, RestingSound DEF WorkInv

LEMMA WorkStep ==
  EpochInv /\ RunInv /\ WorkInv /\ [RNext]_everything => WorkInv'
<1> SUFFICES ASSUME EpochInv, RunInv, WorkInv, [RNext]_everything PROVE WorkInv'
  OBVIOUS
<1>1. policy' = policy /\ NoClaims'
  BY ReasoningStep, NoClaimsStep DEF WorkInv
<1>2. CASE \E r \in Runs : RunStep(r)
  BY <1>1, <1>2, WorkSteps DEF WorkInv
<1>3. CASE \E r \in Runs, i \in Invocations : Begin(r, i)
  BY <1>1, <1>3, BeginSound DEF WorkInv
<1>4. CASE run' = run
  BY <1>1, <1>4, UntouchedWork DEF WorkInv
<1>5. \/ \E r \in Runs : RunStep(r)
      \/ \E r \in Runs, i \in Invocations : Begin(r, i)
      \/ run' = run
  BY DEF RNext, CloseParent, CollectRuntime, everything, local
<1> QED BY <1>2, <1>3, <1>4, <1>5

(* What was charged covers what a seed holds, unless its sources stand on  *)
(* more roots than there are sources.                                      *)
LEMMA SeedFits ==
  ASSUME NEW r \in Runs, NEW A, NEW frontier,
         Cardinality(RootsOf(Given[r])) <= Cardinality(Given[r].sources \cup Given[r].constraints)
  PROVE  LET additions == Envelope("SEED", A, Given[r], frontier)
         IN  additions \in Nat /\ Cardinality(Seeded(Given[r])) <= additions
<1> DEFINE S == Given[r].sources
           C == Given[r].constraints
<1>1. IsFiniteSet(S) /\ IsFiniteSet(C) /\ S \cap C = {} /\ IsFiniteSet(RootsOf(Given[r]))
  BY GivenIs
<1>2. /\ IsFiniteSet(Seeded(Given[r]))
      /\ Cardinality(Seeded(Given[r])) <= Cardinality(RootsOf(Given[r])) + 1 + 2 * Cardinality(S)
                                            + 2 * Cardinality(C)
  BY SeededIs
<1>3. Envelope("SEED", A, Given[r], frontier) = 3 * Cardinality(S \cup C) + 1
  BY Zenon DEF Envelope
<1> HIDE DEF S, C
<1>4. Cardinality(S \cup C) = Cardinality(S) + Cardinality(C)
  <2>1. Cardinality(S \cup C) = Cardinality(S) + Cardinality(C) - Cardinality(S \cap C)
    BY <1>1, FS_Union
  <2>2. Cardinality(S \cap C) = 0
    BY <1>1, FS_EmptySet
  <2> QED BY <1>1, <2>1, <2>2, FS_CardinalityType
<1>5. /\ Cardinality(S) \in Nat /\ Cardinality(C) \in Nat /\ Cardinality(RootsOf(Given[r])) \in Nat
      /\ Cardinality(Seeded(Given[r])) \in Nat
  BY <1>1, <1>2, FS_CardinalityType
<1>6. Cardinality(RootsOf(Given[r])) <= Cardinality(S \cup C)
  BY DEF S, C
<1> QED BY <1>2, <1>3, <1>4, <1>5, <1>6

LEMMA CoveredFits ==
  ASSUME NEW A, NEW out, NEW given, NEW additions \in Nat, NEW staged \in Nat, NEW entries \in Nat,
         IsFiniteSet(A), IsFiniteSet(out), Lawful(A \cup out, given), Cardinality(out) <= additions,
         additions <= staged, Cardinality(A) + additions <= entries
  PROVE  Cardinality(out) <= staged /\ ~Conflict(A \cup out) /\ Cardinality(A \cup out) <= entries
<1>1. /\ Cardinality(A \cup out) <= Cardinality(A) + Cardinality(out)
      /\ Cardinality(A) \in Nat /\ Cardinality(out) \in Nat /\ Cardinality(A \cup out) \in Nat
  BY Joined
<1>2. ~Conflict(A \cup out)
  BY LawfulAgrees
<1> QED BY <1>1, <1>2

LEMMA ChargedFits == EpochInv /\ RunInv /\ WorkInv => ChargedWorkFits
<1> SUFFICES ASSUME EpochInv, RunInv, WorkInv, NEW r \in Runs, At(r, "commit"),
                    ~(/\ run[r].operation = "SEED"
                      /\ Cardinality(RootsOf(Given[r]))
                           > Cardinality(Given[r].sources \cup Given[r].constraints))
             PROVE  Publishable(run[r].epoch, run[r].output)
  BY DEF ChargedWorkFits
<1> DEFINE A == run[r].snapshot
           out == run[r].output
           e == run[r].epoch
           additions == Envelope(run[r].operation, A, Given[r], run[r].frontier)
<1>1. /\ run[r].at = "commit" /\ e \in Epochs /\ A = arena[e] /\ run[r].round = round[e]
      /\ policy.reasoning
  BY UnderWay DEF Running, At
<1>2. Sound(r) /\ pending[e] = None
  BY <1>1 DEF WorkInv, NoClaims
<1>3. Covered(r) /\ Made(r) /\ Lawful(A, Given[r])
  BY <1>1, <1>2 DEF Sound, Authorized
<1>4. /\ additions <= policy.staged /\ Cardinality(A) + additions <= policy.entries
      /\ round[e] < policy.rounds
  BY <1>1, <1>3 DEF Covered
<1>5. policy.staged \in Nat /\ policy.entries \in Nat
  BY EpochAssumption DEF EpochInv, TypeOK
<1>6. IsFiniteSet(A)
  BY <1>3 DEF Lawful
<1>7. /\ additions \in Nat /\ IsFiniteSet(out) /\ Cardinality(out) <= additions
      /\ Lawful(A \cup out, Given[r])
  <2>1. CASE run[r].operation = "SEED"
    <3>1. out = Seeded(Given[r]) /\ A = {}
      BY <1>2, <1>3, <2>1 DEF Made, Sound
    <3>2. Cardinality(RootsOf(Given[r])) <= Cardinality(Given[r].sources \cup Given[r].constraints)
      <4>1. IsFiniteSet(RootsOf(Given[r])) /\ IsFiniteSet(Given[r].sources \cup Given[r].constraints)
        BY GivenIs, FS_Union
      <4>2. /\ Cardinality(RootsOf(Given[r])) \in Nat
            /\ Cardinality(Given[r].sources \cup Given[r].constraints) \in Nat
        BY <4>1, FS_CardinalityType
      <4> QED BY <2>1, <4>2
    <3>3. additions \in Nat /\ Cardinality(Seeded(Given[r])) <= additions
      BY <2>1, <3>2, SeedFits
    <3>4. IsFiniteSet(Seeded(Given[r])) /\ Lawful(Seeded(Given[r]), Given[r])
      BY SeededIs
    <3> HIDE DEF A, out, additions
    <3>5. A \cup out = Seeded(Given[r])
      BY <3>1
    <3> QED BY <3>1, <3>3, <3>4, <3>5
  <2>2. CASE run[r].operation = "EVALUATE"
    <3>1. /\ run[r].frontier = Candidates(A, Given[r])
          /\ out = Evaluated(A, Given[r], Candidates(A, Given[r]), run[r].round)
          /\ additions = Envelope("EVALUATE", A, Given[r], Candidates(A, Given[r]))
      BY <1>2, <1>3, <2>2 DEF Made, Sound
    <3> HIDE DEF A, out, additions
    <3> QED BY <1>3, <3>1, EvaluationFinite
  <2> QED BY <1>3, <2>1, <2>2 DEF Made
<1>8. arena[e] = A
  BY <1>1
<1> HIDE DEF A, out, e, additions
<1>9. Cardinality(out) <= policy.staged /\ ~Conflict(A \cup out) /\ Cardinality(A \cup out) <= policy.entries
  BY <1>4, <1>5, <1>6, <1>7, CoveredFits
<1>10. Publishable(e, out)
  BY <1>2, <1>4, <1>8, <1>9 DEF Publishable, Fits, e
<1> QED BY <1>10 DEF e, out

-----------------------------------------------------------------------------
(* Whatever was found, what was charged is enough to publish it: the entry *)
(* envelope of group_capacity bounds every evaluation, and every seed but  *)
(* one whose sources stand on more roots than there are sources.           *)
THEOREM ChargedWorkAlwaysFits == RSpec => []ChargedWorkFits
<1>1. RInit => EpochInv /\ RunInv /\ WorkInv
  BY InitEpoch, InitRuns, InitWork DEF RInit
<1>2. EpochInv /\ RunInv /\ WorkInv /\ [RNext]_everything => EpochInv' /\ RunInv' /\ WorkInv'
  BY ReasoningStep, EpochStep, WorkStep
<1> QED BY <1>1, <1>2, ChargedFits, PTL DEF RSpec

-----------------------------------------------------------------------------
(* What follows from the sources.                                          *)

(* An application needs no more than its parents, and has one schema.      *)
LEMMA ApplicableOn ==
  ASSUME NEW Q, NEW P, NEW app \in Applicable(Q), Parents(app) \subseteq P
  PROVE  app \in Applicable(P) /\ Schema(app) \in {"if", "transitive"}
<1> DEFINE rules(pool, kind) == {a \in pool : a.basis = "formal" /\ a.content[1] = kind}
           relations(pool)   == {a \in pool : a.content[1] = "relation"}
           matches(x) == x[1].content[2] = x[2].content
           composes(x) == /\ x[1].content[2] = x[2].content[2]
                          /\ x[2].content[2] = x[3].content[2]
                          /\ x[2].content[4] = x[3].content[3]
           modusPonens(pool) == {x \in rules(pool, "if") \X pool : matches(x)}
           composition(pool) == {x \in rules(pool, "transitive") \X relations(pool) \X relations(pool) : composes(x)}
           scoped(x) == \A p \in Parents(x) : p.scope = x[1].scope
<1>1. \A pool : Applicable(pool) = {x \in modusPonens(pool) \cup composition(pool) : scoped(x)}
  BY Zenon DEF Applicable
<1>2. app \in modusPonens(Q) \cup composition(Q) /\ scoped(app)
  BY <1>1
<1> HIDE DEF scoped, matches, composes
<1>3. CASE app \in modusPonens(Q)
  <2>1. PICK p \in rules(Q, "if"), q \in Q : app = <<p, q>>
    BY <1>3
  <2>2. p \in Parents(app) /\ q \in Parents(app) /\ app[1] = p
    <3>1. 1 \in DOMAIN app /\ 2 \in DOMAIN app /\ app[1] = p /\ app[2] = q
      BY <2>1
    <3> QED BY <3>1 DEF Parents
  <2>3. p \in rules(P, "if") /\ q \in P
    BY <2>2
  <2>4. app \in modusPonens(P)
    BY <1>3, <2>1, <2>3
  <2>5. Schema(app) = "if"
    BY <2>1, <2>2 DEF Schema
  <2> QED BY <1>1, <1>2, <2>4, <2>5
<1>4. CASE app \in composition(Q)
  <2>1. PICK p \in rules(Q, "transitive"), q \in relations(Q), s \in relations(Q) : app = <<p, q, s>>
    BY <1>4
  <2>2. p \in Parents(app) /\ q \in Parents(app) /\ s \in Parents(app) /\ app[1] = p
    <3>1. /\ 1 \in DOMAIN app /\ 2 \in DOMAIN app /\ 3 \in DOMAIN app
          /\ app[1] = p /\ app[2] = q /\ app[3] = s
      BY <2>1
    <3> QED BY <3>1 DEF Parents
  <2>3. p \in rules(P, "transitive") /\ q \in relations(P) /\ s \in relations(P)
    BY <2>2
  <2>4. app \in composition(P)
    BY <1>4, <2>1, <2>3
  <2>5. Schema(app) = "transitive"
    BY <2>1, <2>2 DEF Schema
  <2> QED BY <1>1, <1>2, <2>4, <2>5
<1> QED BY <1>2, <1>3, <1>4

(* The closure in as many steps as an arena may have assertions.           *)
Rise(f, given, schema, n) == IF n = 0 THEN Admitted(given.sources, given) ELSE More(f[n - 1], given, schema)
Rising(f, given, schema, N) == f = [n \in 0 .. N |-> Rise(f, given, schema, n)]

LEMMA RisingExists ==
  ASSUME NEW given, NEW schema, NEW N \in Nat
  PROVE  \E f : Rising(f, given, schema, N)
<1> DEFINE T == {n \in Nat : \E f : Rising(f, given, schema, n)}
<1>1. 0 \in T
  <2> DEFINE f == [n \in 0 .. 0 |-> Admitted(given.sources, given)]
             g == [n \in 0 .. 0 |-> Rise(f, given, schema, n)]
  <2>1. \A n \in 0 .. 0 : f[n] = g[n]
    BY DEF Rise
  <2>2. f = g
    BY <2>1, Zenon
  <2>3. Rising(f, given, schema, 0)
    BY <2>2, Zenon DEF Rising
  <2> QED BY <2>3
<1>2. ASSUME NEW k \in 0 .. N - 1, k \in T PROVE k + 1 \in T
  <2>1. PICK f : Rising(f, given, schema, k)
    BY <1>2
  <2> DEFINE h == [n \in 0 .. k + 1 |-> IF n = k + 1 THEN More(f[k], given, schema) ELSE f[n]]
             g == [n \in 0 .. k + 1 |-> Rise(h, given, schema, n)]
  <2>2. ASSUME NEW n \in 0 .. k + 1 PROVE h[n] = g[n]
    <3>1. g[n] = Rise(h, given, schema, n)
      OBVIOUS
    <3>2. CASE n = k + 1
      <4>1. n # 0 /\ n - 1 = k /\ h[k] = f[k] /\ h[n] = More(f[k], given, schema)
        BY <3>2
      <4> HIDE DEF h, g
      <4> QED BY <3>1, <4>1 DEF Rise
    <3>3. CASE n # k + 1
      <4>1. n \in 0 .. k /\ h[n] = f[n]
        BY <3>3
      <4>2. f[n] = Rise(f, given, schema, n)
        <5> DEFINE c == [m \in 0 .. k |-> Rise(f, given, schema, m)]
        <5>1. f = c
          BY <2>1, Zenon DEF Rising
        <5>2. c[n] = Rise(f, given, schema, n)
          BY <4>1
        <5> HIDE DEF c
        <5> QED BY <5>1, <5>2
      <4>3. n # 0 => h[n - 1] = f[n - 1]
        BY <4>1
      <4> HIDE DEF h, g
      <4> QED BY <3>1, <4>1, <4>2, <4>3 DEF Rise
    <3> QED BY <3>2, <3>3
  <2>3. h = g
    <3> HIDE DEF h
    <3>1. h = [n \in 0 .. k + 1 |-> h[n]]
      BY DEF h
    <3> QED BY <2>2, <3>1, Zenon
  <2>4. Rising(h, given, schema, k + 1)
    BY <2>3, Zenon DEF Rising
  <2> HIDE DEF h
  <2> QED BY <2>4
<1> HIDE DEF T
<1>3. N \in T
  BY <1>1, <1>2, CountUp
<1> QED BY <1>3 DEF T

(* The stages of a closure.                                                *)
Rises(f, given, schema) ==
  /\ f[0] = Admitted(given.sources, given)
  /\ \A n \in 0 .. MaxAssertions - 1 : f[n + 1] = More(f[n], given, schema)
  /\ Closed(given, schema) = f[MaxAssertions]

LEMMA ClosedRises ==
  ASSUME NEW given, NEW schema
  PROVE  \E f : Rises(f, given, schema)
<1> DEFINE f == CHOOSE g : g = [n \in 0 .. MaxAssertions |->
                                  IF n = 0 THEN Admitted(given.sources, given) ELSE More(g[n - 1], given, schema)]
           c == [n \in 0 .. MaxAssertions |-> Rise(f, given, schema, n)]
<1>1. MaxAssertions \in Nat
  BY ReasoningAssumption
<1>2. PICK g : Rising(g, given, schema, MaxAssertions)
  BY <1>1, RisingExists
<1>3. f = c
  BY <1>2, Zenon DEF Rising, Rise
<1>4. Closed(given, schema) = f[MaxAssertions]
  BY Zenon DEF Closed
<1>5. \A n \in 0 .. MaxAssertions : c[n] = Rise(f, given, schema, n)
  OBVIOUS
<1> HIDE DEF f, c
<1>6. \A n \in 0 .. MaxAssertions : f[n] = Rise(f, given, schema, n)
  BY <1>3, <1>5
<1>7. f[0] = Admitted(given.sources, given)
  BY <1>1, <1>6 DEF Rise
<1>8. ASSUME NEW n \in 0 .. MaxAssertions - 1 PROVE f[n + 1] = More(f[n], given, schema)
  <2>1. n + 1 \in 0 .. MaxAssertions /\ n + 1 # 0 /\ (n + 1) - 1 = n
    BY <1>1
  <2> QED BY <1>6, <2>1 DEF Rise
<1> QED BY <1>4, <1>7, <1>8 DEF Rises

(* The assertions of a branch that were given, or derived in a schema.     *)
Stated(A, given) == Admitted(Assertions(A), given)

Held(A, given, schema) ==
  {a \in Stated(A, given) :
     a.basis # "derived" \/ \E x \in Derivations(A) : Conclusion(x[1][2]) = a /\ Schema(x[1][2]) = schema}

LEMMA HeldIsStated ==
  ASSUME NEW A, NEW given, Reasoned(A, given)
  PROVE  Stated(A, given) = Held(A, given, "if") \cup Held(A, given, "transitive")
<1> SUFFICES ASSUME NEW a \in Stated(A, given), a.basis = "derived"
             PROVE  a \in Held(A, given, "if") \cup Held(A, given, "transitive")
  BY DEF Held
<1>1. PICK x \in Derivations(A) : Conclusion(x[1][2]) = a
  BY DEF Reasoned, Stated, Admitted
<1>2. x[1][2] \in Applicable(Stated(A, given))
  BY DEF Reasoned, Rests, Stated
<1>3. Schema(x[1][2]) \in {"if", "transitive"}
  BY <1>2, ApplicableOn, ApplicableIs
<1> QED BY <1>1, <1>3 DEF Held

(* While something held is not among what was found to follow, the least   *)
(* of its derivations adds to it.                                          *)
LEMMA NextFollows ==
  ASSUME NEW A, NEW given, NEW schema, NEW F, Reasoned(A, given), IsFiniteSet(A),
         Admitted(given.sources, given) \subseteq F, ~(Held(A, given, schema) \subseteq F)
  PROVE  \E a \in Held(A, given, schema) \ F : a \in More(F, given, schema)
<1> DEFINE D == Held(A, given, schema)
           X == {x \in Derivations(A) : Conclusion(x[1][2]) \in D \ F /\ Schema(x[1][2]) = schema}
           sizes == {Cardinality(x[2]) : x \in X}
<1>1. \A a \in D : a.basis # "derived" => a \in F
  BY DEF Held, Stated, Admitted, Reasoned
<1>2. X # {}
  <2>1. PICK a \in D : a \notin F
    OBVIOUS
  <2>2. PICK x \in Derivations(A) : Conclusion(x[1][2]) = a /\ Schema(x[1][2]) = schema
    BY <1>1, <2>1 DEF Held
  <2> HIDE DEF D
  <2>3. x \in X
    BY <2>1, <2>2
  <2> QED BY <2>3
<1>3. ASSUME NEW x \in Derivations(A) PROVE Rests(A, given, x) /\ IsFiniteSet(x[2]) /\ Cardinality(x[2]) \in Nat
  <2>1. Rests(A, given, x)
    BY DEF Reasoned
  <2>2. IsFiniteSet(Assertions(A)) /\ x[2] \subseteq Assertions(A)
    BY <2>1, AssertionsFinite DEF Assertions, Rests
  <2> QED BY <2>1, <2>2, FS_Subset, FS_CardinalityType
<1> HIDE DEF D
<1>4. sizes \subseteq Nat /\ sizes # {}
  BY <1>2, <1>3
<1>5. PICK k \in sizes : \A m \in sizes : k <= m
  <2> HIDE DEF sizes
  <2> QED BY <1>4, LeastMember
<1>6. PICK x \in X : k = Cardinality(x[2])
  BY <1>5
<1> DEFINE app == x[1][2]
<1>7. Rests(A, given, x) /\ app \in Applicable(Stated(A, given)) /\ Schema(app) = schema
      /\ Conclusion(app) \in D \ F /\ Conflicts(given.constraints, Parents(app), given) = {}
      /\ Parents(app) \subseteq x[2] /\ IsFiniteSet(x[2])
  BY <1>3, <1>6 DEF Rests, Stated
<1>8. ASSUME NEW p \in Parents(app) PROVE p \in F
  <2>1. p \in Stated(A, given)
    BY <1>7, ApplicableIs
  <2>2. CASE p.basis # "derived"
    <3>1. p \in D
      BY <2>1, <2>2 DEF D, Held
    <3> QED BY <1>1, <2>2, <3>1
  <2>3. CASE p.basis = "derived" /\ p \notin F
    <3>1. PICK y \in Derivations(A) :
            Conclusion(y[1][2]) = p /\ Schema(y[1][2]) = schema /\ y[2] \subseteq x[2] \ {p}
      BY <1>7, <2>3 DEF Rests
    <3>2. p \in D \ F
      BY <2>1, <2>3, <3>1 DEF D, Held
    <3>3. y \in X
      BY <3>1, <3>2
    <3>4. k <= Cardinality(y[2])
      BY <1>5, <3>3
    <3>5. Cardinality(x[2] \ {p}) = Cardinality(x[2]) - 1 /\ IsFiniteSet(x[2] \ {p})
      BY <1>7, FS_RemoveElement
    <3>6. Cardinality(y[2]) <= Cardinality(x[2] \ {p})
      BY <3>1, <3>5, FS_Subset
    <3>7. Cardinality(y[2]) \in Nat /\ Cardinality(x[2]) \in Nat
      BY <1>3, <1>6
    <3> HIDE DEF X, sizes
    <3> QED BY <1>6, <3>4, <3>5, <3>6, <3>7
  <2> QED BY <2>2, <2>3
<1>9. app \in Applicable(F)
  BY <1>7, <1>8, ApplicableOn
<1>10. Conclusion(app) \in More(F, given, schema)
  <2> HIDE DEF app
  <2> QED BY <1>7, <1>9 DEF More
<1> QED BY <1>7, <1>10 DEF D

(* Only what the sources entail is stated, however far a run has come.     *)
LEMMA HeldFollows ==
  ASSUME NEW A, NEW given, NEW schema, Reasoned(A, given), IsFiniteSet(A),
         Cardinality(Assertions(A)) <= MaxAssertions
  PROVE  Held(A, given, schema) \subseteq Closed(given, schema)
<1> DEFINE D == Held(A, given, schema)
           N == MaxAssertions
<1>0. N \in Nat
  BY ReasoningAssumption
<1>1. PICK f : Rises(f, given, schema)
  BY ClosedRises
<1> DEFINE enough(n) == /\ Admitted(given.sources, given) \subseteq f[n]
                        /\ D \subseteq f[n] \/ Cardinality(D \cap f[n]) >= n
           T == {n \in 0 .. N : enough(n)}
<1>2. IsFiniteSet(D) /\ Cardinality(D) <= N /\ Cardinality(D) \in Nat
  <2>1. IsFiniteSet(Assertions(A)) /\ D \subseteq Assertions(A)
    BY AssertionsFinite DEF Assertions, Held, Stated, Admitted
  <2>2. IsFiniteSet(D) /\ Cardinality(D) <= Cardinality(Assertions(A)) /\ Cardinality(Assertions(A)) \in Nat
    BY <2>1, FS_Subset, FS_CardinalityType
  <2> HIDE DEF D
  <2> QED BY <1>0, <2>2, FS_CardinalityType
<1> HIDE DEF D
<1>3. 0 \in T
  <2>1. IsFiniteSet(D \cap f[0])
    BY <1>2, FS_Subset
  <2>2. Cardinality(D \cap f[0]) >= 0
    BY <2>1, FS_CardinalityType
  <2>3. Admitted(given.sources, given) \subseteq f[0]
    BY <1>1 DEF Rises
  <2>4. enough(0)
    BY <2>2, <2>3
  <2> HIDE DEF enough
  <2> QED BY <1>0, <2>4
<1>4. ASSUME NEW n \in 0 .. N - 1, n \in T PROVE n + 1 \in T
  <2>0. n \in Nat /\ n + 1 \in 0 .. N
    BY <1>0
  <2>1. f[n + 1] = More(f[n], given, schema)
    BY <1>1 DEF Rises
  <2>2. f[n] \subseteq f[n + 1]
    BY <2>1 DEF More
  <2>3. enough(n)
    <3> HIDE DEF enough
    <3> QED BY <1>4
  <2>4. Admitted(given.sources, given) \subseteq f[n + 1]
    BY <2>2, <2>3
  <2>5. D \subseteq f[n + 1] => n + 1 \in T
    <3>1. D \subseteq f[n + 1] => enough(n + 1)
      BY <2>4
    <3> HIDE DEF enough
    <3> QED BY <2>0, <3>1
  <2>6. CASE D \subseteq f[n]
    <3>1. D \subseteq f[n + 1]
      BY <2>2, <2>6
    <3> QED BY <2>5, <3>1
  <2>7. CASE ~(D \subseteq f[n])
    <3>1. \E a \in D \ f[n] : a \in More(f[n], given, schema)
      <4>1. Admitted(given.sources, given) \subseteq f[n]
        BY <2>3
      <4> QED BY <2>7, <4>1, NextFollows DEF D
    <3>2. PICK a \in D \ f[n] : a \in f[n + 1]
      BY <2>1, <3>1
    <3> DEFINE old == D \cap f[n]
               new == D \cap f[n + 1]
    <3>3. IsFiniteSet(old) /\ IsFiniteSet(new) /\ old \cup {a} \subseteq new /\ a \notin old
      BY <1>2, <2>2, <3>2, FS_Subset
    <3>4. Cardinality(old) >= n
      BY <2>3, <2>7
    <3> HIDE DEF old, new
    <3>5. Cardinality(old \cup {a}) = Cardinality(old) + 1
      BY <3>3, FS_AddElement
    <3>6. Cardinality(old \cup {a}) <= Cardinality(new) /\ Cardinality(new) \in Nat /\ Cardinality(old) \in Nat
      BY <3>3, FS_Subset, FS_CardinalityType
    <3>7. Cardinality(new) >= n + 1
      BY <2>0, <3>4, <3>5, <3>6
    <3>8. enough(n + 1)
      BY <2>4, <3>7 DEF new
    <3> HIDE DEF enough
    <3> QED BY <2>0, <3>8
  <2> QED BY <2>6, <2>7
<1>5. N \in T
  <2> HIDE DEF T, N
  <2> QED BY <1>0, <1>3, <1>4, CountUp
<1>6. CASE D \subseteq f[N]
  BY <1>1, <1>6 DEF Rises, D
<1>7. CASE Cardinality(D \cap f[N]) >= N
  <2>1. IsFiniteSet(D \cap f[N]) /\ Cardinality(D \cap f[N]) \in Nat /\ Cardinality(D \cap f[N]) <= Cardinality(D)
    BY <1>2, FS_Subset, FS_CardinalityType
  <2>2. Cardinality(D \cap f[N]) = Cardinality(D)
    BY <1>0, <1>2, <1>7, <2>1
  <2>3. D \cap f[N] = D
    BY <1>2, <2>2, FS_Subset
  <2> QED BY <1>1, <2>3 DEF Rises, D
<1> QED BY <1>5, <1>6, <1>7

(* When nothing is left to do, all of it is stated.                        *)
LEMMA ConclusionHeld ==
  ASSUME NEW A, NEW given, NEW schema, Reasoned(A, given), Candidates(A, given) = {},
         NEW F, F \subseteq Held(A, given, schema),
         NEW app \in Applicable(F), Schema(app) = schema, Conflicts(given.constraints, Parents(app), given) = {}
  PROVE  Conclusion(app) \in Held(A, given, schema)
<1> DEFINE P == Stated(A, given)
           D == Held(A, given, schema)
<1>1. Parents(app) \subseteq F /\ F \subseteq D /\ D \subseteq P
  BY ApplicableIs DEF Held
<1>2. app \in Applicable(P)
  BY <1>1, ApplicableOn
<1>3. Conclusion(app).roots \subseteq Context(given, given.branch) /\ Conclusion(app).basis = "derived"
  <2>1. \A p \in Parents(app) : p.roots \subseteq Context(given, given.branch)
    BY <1>1 DEF Stated, Admitted
  <2>2. Conclusion(app).roots = UNION {p.roots : p \in Parents(app)} /\ Conclusion(app).basis = "derived"
    BY DEF Conclusion
  <2> QED BY <2>1, <2>2
<1>4. ASSUME NEW x \in Derivations(A), Conclusion(x[1][2]) = Conclusion(app), Schema(x[1][2]) = schema
      PROVE  Conclusion(app) \in D
  <2>1. Conclusion(app) \in Assertions(A)
    BY <1>4 DEF Reasoned, Rests
  <2>2. Conclusion(app) \in P
    BY <1>3, <2>1 DEF Stated, Admitted
  <2> QED BY <1>4, <2>2 DEF Held
<1>5. CASE app \in Named(A, "DERIVATION")
  <2>1. PICK x \in A : x[1][1] = "DERIVATION" /\ x[1][2] = app
    BY <1>5, NamedIs
  <2>2. x \in Derivations(A)
    BY <2>1 DEF Derivations
  <2> QED BY <1>4, <2>1, <2>2
<1>6. app \notin Named(A, "COMPLETED")
  BY DEF Reasoned
<1>7. ASSUME NEW p \in Parents(app), ~Witnessed(A, p, app)
      PROVE  Conclusion(app) \in D
  <2>1. CASE p = Conclusion(app)
    BY <1>1, <2>1
  <2>2. CASE p.basis = "derived" /\ Paths(A, p, app) = {}
    <3>1. PICK x \in Derivations(A) : Conclusion(x[1][2]) = p /\ Schema(x[1][2]) = schema
      BY <1>1, <2>2 DEF Held
    <3>2. Conclusion(app) \in x[2]
      BY <2>2, <3>1 DEF Paths
    <3>3. PICK y \in Derivations(A) : Conclusion(y[1][2]) = Conclusion(app) /\ Schema(y[1][2]) = schema
      BY <1>3, <3>1, <3>2 DEF Reasoned, Rests
    <3> QED BY <1>4, <3>3
  <2> QED BY <1>7, <2>1, <2>2 DEF Witnessed
<1>8. \/ app \in Named(A, "DERIVATION") \cup Named(A, "COMPLETED")
      \/ \E p \in Parents(app) : ~Witnessed(A, p, app)
  BY <1>2 DEF Candidates, Stated
<1> QED BY <1>5, <1>6, <1>7, <1>8

LEMMA FollowsHeld ==
  ASSUME NEW A, NEW r \in Runs, NEW schema, Reasoned(A, Given[r]), Started(A, Given[r]),
         Candidates(A, Given[r]) = {}
  PROVE  Closed(Given[r], schema) \subseteq Held(A, Given[r], schema)
<1> DEFINE given == Given[r]
           N == MaxAssertions
           D == Held(A, given, schema)
<1>0. N \in Nat /\ \A s \in given.sources : s.basis # "derived"
  BY ReasoningAssumption, GivenIs
<1>1. PICK f : Rises(f, given, schema)
  BY ClosedRises
<1> DEFINE T == {n \in 0 .. N : f[n] \subseteq D}
<1>2. 0 \in T
  <2>1. Admitted(given.sources, given) \subseteq D
    BY <1>0 DEF Held, Stated, Admitted, Started
  <2> QED BY <1>0, <1>1, <2>1 DEF Rises
<1> HIDE DEF given
<1>3. ASSUME NEW n \in 0 .. N - 1, n \in T PROVE n + 1 \in T
  <2>1. f[n + 1] = More(f[n], given, schema) /\ n + 1 \in 0 .. N
    BY <1>0, <1>1 DEF Rises
  <2>2. ASSUME NEW a \in f[n + 1], a \notin f[n] PROVE a \in D
    <3>1. PICK app \in Applicable(f[n]) :
            /\ a = Conclusion(app) /\ Schema(app) = schema
            /\ Conflicts(given.constraints, Parents(app), given) = {}
      BY <2>1, <2>2 DEF More
    <3> QED BY <1>3, <3>1, ConclusionHeld DEF given
  <2> QED BY <1>3, <2>1, <2>2
<1>4. N \in T
  <2> HIDE DEF T, N
  <2> QED BY <1>0, <1>2, <1>3, CountUp
<1> QED BY <1>1, <1>4 DEF Rises, given

LEMMA FollowsHere == EpochInv /\ RunInv /\ WorkInv => ConclusionsFollow
<1> SUFFICES ASSUME RunInv, WorkInv, NEW r \in Runs, run[r].epoch # None
             PROVE  LET A      == arena[run[r].epoch]
                        stated == Admitted(Assertions(A), Given[r])
                    IN /\ stated \subseteq Entailed[r]
                       /\ run[r].outcome = "FIXED_POINT" => stated = Entailed[r]
                       /\ \A x \in Derivations(A) :
                            /\ Conclusion(x[1][2]) \notin x[2] /\ x[2] \subseteq Assertions(A)
                            /\ \A p \in x[2] : p.basis = "derived" =>
                                 \E y \in Derivations(A) :
                                   /\ Conclusion(y[1][2]) = p /\ Schema(y[1][2]) = Schema(x[1][2])
                                   /\ y[2] \subseteq x[2] \ {p}
  BY DEF ConclusionsFollow
<1> DEFINE A == arena[run[r].epoch]
           given == Given[r]
<1>1. run[r].snapshot = A
  BY DEF RunInv, RunsOwnEpochs, RunsMirrorArenas
<1> HIDE DEF A
<1>2. /\ Reasoned(A, given) /\ IsFiniteSet(A) /\ Cardinality(Assertions(A)) <= MaxAssertions
      /\ run[r].outcome = "FIXED_POINT" => Started(A, given) /\ Candidates(A, given) = {}
  BY <1>1 DEF WorkInv, Sound, Lawful
<1>3. /\ Stated(A, given) = Held(A, given, "if") \cup Held(A, given, "transitive")
      /\ Entailed[r] = Closed(given, "if") \cup Closed(given, "transitive")
  BY <1>2, HeldIsStated DEF Entailed
<1>4. /\ Held(A, given, "if") \subseteq Closed(given, "if")
      /\ Held(A, given, "transitive") \subseteq Closed(given, "transitive")
  BY <1>2, HeldFollows
<1>5. run[r].outcome = "FIXED_POINT" =>
        /\ Closed(given, "if") \subseteq Held(A, given, "if")
        /\ Closed(given, "transitive") \subseteq Held(A, given, "transitive")
  BY <1>2, FollowsHeld
<1>6. \A x \in Derivations(A) :
        /\ Conclusion(x[1][2]) \notin x[2] /\ x[2] \subseteq Assertions(A)
        /\ \A p \in x[2] : p.basis = "derived" =>
             \E y \in Derivations(A) :
               Conclusion(y[1][2]) = p /\ Schema(y[1][2]) = Schema(x[1][2]) /\ y[2] \subseteq x[2] \ {p}
  BY <1>2 DEF Reasoned, Rests
<1> HIDE DEF given
<1>7. /\ Stated(A, given) \subseteq Entailed[r]
      /\ run[r].outcome = "FIXED_POINT" => Stated(A, given) = Entailed[r]
  BY <1>3, <1>4, <1>5
<1> QED BY <1>6, <1>7 DEF A, given, Stated

(* Whatever interrupts a run, its arena holds only what its sources entail *)
(* in its branch, a FIXED_POINT holds all of it, and nothing that was      *)
(* derived rests on itself: whatever the sources, the constraints and the  *)
(* limits are.                                                             *)
THEOREM ConclusionsAlwaysFollow == RSpec => []ConclusionsFollow
<1>1. RInit => EpochInv /\ RunInv /\ WorkInv
  BY InitEpoch, InitRuns, InitWork DEF RInit
<1>2. EpochInv /\ RunInv /\ WorkInv /\ [RNext]_everything => EpochInv' /\ RunInv' /\ WorkInv'
  BY ReasoningStep, EpochStep, WorkStep
<1> QED BY <1>1, <1>2, FollowsHere, PTL DEF RSpec
=============================================================================
