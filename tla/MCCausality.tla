---------------------------- MODULE MCCausality ----------------------------
(* Instances of Causality for TLC.  One study is opened: an observational  *)
(* one of two slots, whose comparison is independent; another of one slot  *)
(* with a second attempt; an interventional, randomized one of one slot;   *)
(* or a replay study that runs one contrast twice.                         *)
EXTENDS Causality, TLC

CodeSlots     == {0, 1}
CodePairs     == {<<0, 1>>}
CodeContrasts == <<"c", "c">>
CodeSides     == <<<<0, 1>>, <<0, 1>>>>

CodePlan ==
  "observe" :> [query |-> "OBSERVATIONAL", attempts |-> (0 :> 1) @@ (1 :> 1), randomized |-> FALSE]
  @@ "again" :> [query |-> "OBSERVATIONAL", attempts |-> (0 :> 2) @@ (1 :> 0), randomized |-> FALSE]
  @@ "intervene" :> [query |-> "INTERVENTIONAL", attempts |-> (0 :> 1) @@ (1 :> 0), randomized |-> TRUE]
  @@ "replay" :> [query |-> "CLOSED_REPLAY", attempts |-> (0 :> 1) @@ (1 :> 1), randomized |-> FALSE]

Symmetry == Permutations(Threads)
=============================================================================
