---------------------------- MODULE MCInvocation ----------------------------
(* Instances of Invocation for TLC.                                        *)
EXTENDS Invocation

(* Every cause belongs to one runtime, and a study asks for both charges.  *)
OneRuntimeOf == [c \in Causes |-> CHOOSE r \in Runtimes : TRUE]
TwoStepFrontier == [s \in Studies |-> <<"REQUEST_CASE", "ADMIT_CASE">>]
=============================================================================
