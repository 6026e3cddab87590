----------------------------- MODULE MCHandles -----------------------------
(* Instances of Handles for TLC.                                           *)
EXTENDS Handles, TLC

Symmetry == Permutations(Threads) \cup Permutations(Handles) \cup Permutations(Addresses)
=============================================================================
