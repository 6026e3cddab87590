-------------------------------- MODULE MCWork ------------------------------
(* Two workers, an epoch that may be reopened, one study, at most three    *)
(* permits of any kinds.                                                   *)
EXTENDS Work, TLC

MCClasses == {"pure", "reasoning", "projection", "causal", "publish", "admit", "OPEN_STUDY"}
Symmetry  == Permutations(Workers)
=============================================================================
