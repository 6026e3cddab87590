------------------------------ MODULE MCEffects ------------------------------
(* Two callers; one effect of every kind.                                  *)
EXTENDS Effects, TLC

MCEffects == {"audit", "cie audit", "more", "last"}
MCKinds == [e \in MCEffects |->
  CASE e = "audit" -> "AUDIT_ONLY" [] e = "cie audit" -> "CIE_AUDIT_ONLY"
    [] e = "more" -> "PUBLISH" [] e = "last" -> "PUBLISH_TERMINAL"]

(* The callers are alike.                                                  *)
Callers == Permutations(Threads)
=============================================================================
