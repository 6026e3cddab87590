---------------------------- MODULE MCCoreIngress -----------------------------
(* Two instances checked side by side: the ticks of a Core, or the issuers *)
(* that its events are authorized by.  What rests stays in one of its      *)
(* initial states.                                                         *)
EXTENDS MCCoreTick, MCIngress

VARIABLE part \* the system that runs: the other one never takes a step

PartInit ==
  /\ part \in {"core", "ingress"}
  /\ CoreInit /\ IngressInit
  /\ part = "ingress" => root = 1 \* the first of MCSeeds

PartNext ==
  \/ part = "core" /\ UNCHANGED <<part, ingressVars>> /\ CoreNext
  \/ part = "ingress" /\ UNCHANGED <<part, coreVars>> /\ IngressNext

PartSpec == PartInit /\ [][PartNext]_<<part, coreVars, ingressVars>>
=============================================================================
