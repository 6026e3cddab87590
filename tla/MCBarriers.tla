----------------------------- MODULE MCBarriers -----------------------------
(* Instances of Barriers for TLC: the lifecycles of two invocation         *)
(* runtimes and the arena of an epoch of the first.                        *)
EXTENDS Barriers

CodeRanks == [b \in Barriers |->
  CASE b \in {"life1", "life2"} -> 1 [] b = "arena" -> 3]

(* discard_epoch for an epoch of either runtime.                           *)
CodeNeeds == [c \in Cleanups |->
  IF c = "epoch1" THEN <<"life1", "arena">> ELSE <<"life2">>]
=============================================================================
