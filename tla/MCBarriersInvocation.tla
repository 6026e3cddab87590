------------------------- MODULE MCBarriersInvocation -------------------------
(* Two instances checked side by side: threads and their barriers, or one  *)
(* invocation and its ledger.  What rests stays in an initial state, so    *)
(* their states add and do not multiply.                                   *)
EXTENDS MCBarriers, MCInvocation

VARIABLE part \* the system that runs: the other one never takes a step

PartInit ==
  /\ part \in {"barriers", "invocation"}
  /\ BarriersInit /\ Init

PartNext ==
  \/ part = "barriers" /\ UNCHANGED <<part, vars>> /\ BarriersNext
  \/ part = "invocation" /\ UNCHANGED <<part, barriersVars>> /\ Next

PartSpec == PartInit /\ [][PartNext]_<<part, barriersVars, vars>>

(* Only the drain of a close is fair, and none is under way at rest.       *)
PartFairSpec == PartSpec /\ Fairness
=============================================================================
