----------------------------- MODULE ExactlyOnce -----------------------------
(***************************************************************************)
(* What the commit gate of cognition/effects.py promises of one owner, and *)
(* nothing of how: an effect is committed at most once, while the owner is *)
(* open, against a charge of its own; what is committed stays, and the     *)
(* registry may forget all of it when its runtime is gone.                 *)
(***************************************************************************)
CONSTANTS Effects, Charges

VARIABLES open,    \* the owner still has authority
          commits, \* the charge of every committed effect
          charged  \* charges spent on effects

vars == <<open, commits, charged>>

Init == /\ open = TRUE
        /\ commits = <<>>
        /\ charged = {}

Commit(e, c) ==
  /\ open
  /\ e \notin DOMAIN commits /\ c \notin charged
  /\ commits' = [x \in DOMAIN commits \cup {e} |-> IF x = e THEN c ELSE commits[x]]
  /\ charged' = charged \cup {c}
  /\ UNCHANGED open

Close == open' = FALSE /\ UNCHANGED <<commits, charged>>

Forget ==
  /\ commits' = <<>>
  /\ open' = FALSE
  /\ UNCHANGED charged

(* The effects a step commits are those it adds; there is at most one.     *)
New == (DOMAIN commits' \ DOMAIN commits) \cap Effects

Next == Close \/ Forget \/ \E e \in New, c \in Charges : Commit(e, c)

Spec == Init /\ [][Next]_vars
=============================================================================
