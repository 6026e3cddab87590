------------------------------ MODULE Allowance ------------------------------
(***************************************************************************)
(* What a budget ledger promises, and nothing of how it keeps it: an owner *)
(* is granted an amount once; from then on it can only be charged, while   *)
(* the owner is active, or given up; it never grows and never moves to     *)
(* another owner; and an owner that has ended has nothing left.            *)
(* (03_COGNITION.md section 6.1, non-renewability.)                        *)
(***************************************************************************)
EXTENDS Integers

CONSTANTS Owners, Amount \* Amount is a natural number

VARIABLES phase,   \* "none", "active", "closing" or "ended"
          left,    \* units that can still be charged
          charged  \* units consumed or delegated

vars == <<phase, left, charged>>

Init ==
  /\ phase = [o \in Owners |-> "none"]
  /\ left = [o \in Owners |-> 0]
  /\ charged = [o \in Owners |-> 0]

(* The amount is granted once: no phase leads back to "none".              *)
Granted(o) ==
  /\ phase[o] = "none"
  /\ phase'[o] = "active" /\ left'[o] = Amount /\ charged'[o] = 0

(* A charge takes from what is left and is only made while active.         *)
Charged(o) ==
  /\ phase[o] = "active" /\ phase'[o] = "active"
  /\ left'[o] \in 0 .. left[o]
  /\ charged'[o] \in charged[o] .. charged[o] + (left[o] - left'[o])

GivenUp(o) ==
  /\ phase[o] \in {"active", "closing"}
  /\ phase'[o] \in {phase[o], "closing"}
  /\ left'[o] \in 0 .. left[o]
  /\ charged'[o] = charged[o]

Ended(o) ==
  /\ phase[o] \in {"active", "closing"}
  /\ phase'[o] = "ended" /\ left'[o] = 0 /\ charged'[o] = charged[o]

Idle(o) == phase'[o] = phase[o] /\ left'[o] = left[o] /\ charged'[o] = charged[o]

Next ==
  /\ phase' \in [Owners -> {"none", "active", "closing", "ended"}]
  /\ left' \in [Owners -> 0 .. Amount] /\ charged' \in [Owners -> 0 .. Amount]
  /\ \A o \in Owners : Granted(o) \/ Charged(o) \/ GivenUp(o) \/ Ended(o) \/ Idle(o)

Spec == Init /\ [][Next]_vars
=============================================================================
