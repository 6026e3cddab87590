------------------------------ MODULE MCIngress ------------------------------
EXTENDS Ingress, TLC

MCSymmetry == Permutations(Runtimes) \cup Permutations(Contents)
=============================================================================
