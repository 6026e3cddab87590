------------------------------ MODULE Handles ------------------------------
(***************************************************************************)
(* The registries of live handles (cie.py, work.py, effects.py,            *)
(* invocation.py, ingress.py): a dictionary from id(handle), its address,  *)
(* to what the handle stands for, and the weakref finalizer that removes   *)
(* the entry of a handle that died.  A finalizer called while its thread   *)
(* is under a barrier is deferred to the outermost release, and by then    *)
(* the address may belong to a new handle.                                 *)
(*                                                                         *)
(* invocation.py and ingress.py ask whether the entry is still theirs      *)
(* before they remove it (Guarded), the other registries do not.           *)
(***************************************************************************)
EXTENDS Integers, SequencesExt

CONSTANTS Threads, Handles,
          Addresses, \* id() of an object: unique among those alive
          Guarded,   \* the finalizer compares the entry with its own
          None

VARIABLES inside,   \* the thread is under a barrier
          pending,  \* its deferred finalizers
          life,     \* "unborn", "live" or "dead" for each handle
          at,       \* the address of a handle that was born
          registry  \* the entry at each address, named by its handle

vars == <<inside, pending, life, at, registry>>

Init ==
  /\ inside = [t \in Threads |-> FALSE]
  /\ pending = [t \in Threads |-> <<>>]
  /\ life = [h \in Handles |-> "unborn"]
  /\ at = [h \in Handles |-> None]
  /\ registry = [a \in Addresses |-> None]

(* A drain, from the outermost release to the last finalizer, is part of   *)
(* leaving: until then the thread does nothing else.                       *)
Draining(t) == ~inside[t] /\ pending[t] # <<>>

Enter(t) ==
  /\ ~inside[t] /\ ~Draining(t)
  /\ inside' = [inside EXCEPT ![t] = TRUE]
  /\ UNCHANGED <<pending, life, at, registry>>

Leave(t) ==
  /\ inside[t]
  /\ inside' = [inside EXCEPT ![t] = FALSE]
  /\ UNCHANGED <<pending, life, at, registry>>

(* open, create_cie_runtime, create_invocation_runtime: a new object takes *)
(* any address no live object has, and is registered under the barrier.    *)
Create(t, h, a) ==
  /\ inside[t] /\ life[h] = "unborn"
  /\ \A other \in Handles : life[other] = "live" => at[other] # a
  /\ life' = [life EXCEPT ![h] = "live"]
  /\ at' = [at EXCEPT ![h] = a]
  /\ registry' = [registry EXCEPT ![a] = h]
  /\ UNCHANGED <<inside, pending>>

(* The finalizer's effect on the registry.                                 *)
Removed(h) ==
  IF Guarded /\ registry[at[h]] # h THEN registry ELSE [registry EXCEPT ![at[h]] = None]

(* The last reference to h goes away on thread t.                          *)
Die(t, h) ==
  /\ life[h] = "live"
  /\ life' = [life EXCEPT ![h] = "dead"]
  /\ IF inside[t] \/ Draining(t)
     THEN pending' = [pending EXCEPT ![t] = Append(@, h)] /\ UNCHANGED registry
     ELSE registry' = Removed(h) /\ UNCHANGED pending
  /\ UNCHANGED <<inside, at>>

Drain(t) ==
  /\ Draining(t)
  /\ registry' = Removed(Last(pending[t]))
  /\ pending' = [pending EXCEPT ![t] = Front(@)]
  /\ UNCHANGED <<inside, life, at>>

Next ==
  \E t \in Threads :
    \/ Enter(t) \/ Leave(t) \/ Drain(t)
    \/ \E h \in Handles : Die(t, h) \/ \E a \in Addresses : Create(t, h, a)

Spec == Init /\ [][Next]_vars

-----------------------------------------------------------------------------
(* A handle is usable as long as somebody holds it: no finalizer of        *)
(* another object takes its registration.  "object addresses ... may not   *)
(* alter cognitive semantics" (03_COGNITION.md:3443).                      *)
LiveStaysRegistered ==
  \A h \in Handles : life[h] = "live" => registry[at[h]] = h

(* No registration is leaked: the entry of a handle that is gone is owed a *)
(* finalizer by some thread.                                               *)
DeadAreForgotten ==
  \A h \in Handles :
    life[h] = "dead" /\ registry[at[h]] = h =>
      \E t \in Threads : \E i \in DOMAIN pending[t] : pending[t][i] = h
=============================================================================
