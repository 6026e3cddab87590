------------------------------- MODULE Ingress -------------------------------
(***************************************************************************)
(* The trusted issuers of cognition/ingress.py.  An issuer is created for  *)
(* a Core under a runtime identity of its own, and turns source occurrences*)
(* and receipts of the Core into capabilities, which it forgets only when  *)
(* it is removed: an invalidation makes them stale and keeps them.  What   *)
(* outlives the issuers is the audit of the Core, with the last occurrence *)
(* that was authorized as an observation, and the used identities.         *)
(*                                                                         *)
(* Every call but the creation runs under the barrier of its Core, holding *)
(* its issuer, and is one step.  A call that is refused, or is given the   *)
(* capability it was given before, changes nothing.  Version, tick and root*)
(* of a Core are one number, as CoreTick shows.  What the end of a         *)
(* prediction environment does to its forecasts is in Forecast.            *)
(***************************************************************************)
EXTENDS Integers, FiniteSets

CONSTANTS Runtimes,    \* runtime identities
          Cores,
          Occurrences, \* identities of source occurrences
          Contents,    \* what may be authorized with one
          Capacity,    \* of an issuer, tombstones included
          MaxDomains,  \* max_domains
          MaxRoots,    \* bound on the events of a Core
          MaxRevision, \* bound on invalidations
          Absent

ASSUME IngressAssumption ==
  /\ {Capacity, MaxDomains} \subseteq Nat \ {0}
  /\ {MaxRoots, MaxRevision} \subseteq Nat
  /\ Absent \notin Runtimes \cup Cores /\ Runtimes \cap Cores = {}

VARIABLES audit,     \* _CoreAudit of each Core, and the next root of its stream
          issuer,    \* _State of each runtime identity
          minted,    \* history: how often a capability was made for a source
          delivered  \* history: next root after the last event a prediction was given

ingressVars == <<audit, issuer, minted, delivered>>

Unborn == [status |-> "unborn", core |-> Absent, revision |-> 0,
           prediction |-> FALSE, index |-> <<>>]

IngressInit ==
  /\ audit = [c \in Cores |-> [root |-> 0, continuity |-> 0, seen |-> -1,
                               seenBy |-> Absent, prediction |-> Absent]]
  /\ issuer = [r \in Runtimes |-> Unborn]
  /\ minted = <<>>
  /\ delivered = [c \in Cores |-> 0]

Registered == {r \in Runtimes : issuer[r].status \in {"live", "unowned"}}
LiveIssuer(r) == issuer[r].status = "live"
CoreOf(r) == issuer[r].core

-----------------------------------------------------------------------------
Used == {r \in Runtimes : issuer[r].status # "unborn"}

(* create_trusted_ingress_boundary.                                        *)
Create(r, c) ==
  /\ r \notin Used /\ Cardinality(Used) < MaxDomains
  /\ \A s \in Registered : CoreOf(s) # c
  /\ issuer' = [issuer EXCEPT ![r] = [Unborn EXCEPT !.status = "live", !.core = c]]
  /\ UNCHANGED <<audit, minted, delivered>>

(* The issuer's last reference goes; its finalizer may have to wait.       *)
Abandon(r) ==
  /\ LiveIssuer(r)
  /\ issuer' = [issuer EXCEPT ![r].status = "unowned"]
  /\ UNCHANGED <<audit, minted, delivered>>

(* Fault: the audit of the Core keeps the prediction.                      *)
RemovedFromIssuerOnly(r) ==
  /\ issuer' = [issuer EXCEPT ![r] =
       [issuer[r] EXCEPT !.status = "removed", !.revision = @ + 1,
                    !.prediction = FALSE, !.index = <<>>]]
  /\ UNCHANGED audit

(* remove_domain.                                                          *)
Removed(r) ==
  /\ issuer' = [issuer EXCEPT ![r] =
       [issuer[r] EXCEPT !.status = "removed", !.revision = @ + 1,
                    !.prediction = FALSE, !.index = <<>>]]
  /\ audit' = IF issuer[r].prediction /\ audit[CoreOf(r)].prediction = r
              THEN [audit EXCEPT ![CoreOf(r)].prediction = Absent] ELSE audit

(* A second close that passed state_for before the first removes it again. *)
Close(r) ==
  /\ issuer[r].status \in {"live", "removed"} /\ issuer[r].revision < MaxRevision
  /\ Removed(r) /\ UNCHANGED <<minted, delivered>>

Discard(r) ==
  /\ issuer[r].status = "unowned"
  /\ Removed(r) /\ UNCHANGED <<minted, delivered>>

Invalidate(r) ==
  /\ LiveIssuer(r) /\ issuer[r].revision < MaxRevision
  /\ issuer' = [issuer EXCEPT ![r].revision = @ + 1]
  /\ UNCHANGED <<audit, minted, delivered>>

-----------------------------------------------------------------------------
(* The Core.                                                               *)
Moved(c, boundary) ==
  /\ audit[c].root < MaxRoots
  /\ audit' = [audit EXCEPT ![c].root = @ + 1,
                            ![c].continuity = IF boundary THEN @ + 1 ELSE @]

(* process_core_event.                                                     *)
ProcessCoreEvent(r, boundary) ==
  /\ LiveIssuer(r) /\ Moved(CoreOf(r), boundary)
  /\ delivered' = IF audit[CoreOf(r)].prediction = Absent THEN delivered
                  ELSE [delivered EXCEPT ![CoreOf(r)] = audit[CoreOf(r)].root + 1]
  /\ UNCHANGED <<issuer, minted>>

(* core_transition, and the event its body processes.  With a prediction   *)
(* attached the event has to take the other way.                           *)
CoreTransition(r) ==
  /\ LiveIssuer(r) /\ audit[CoreOf(r)].prediction = Absent /\ Moved(CoreOf(r), FALSE)
  /\ UNCHANGED <<issuer, minted, delivered>>

(* A Core without an issuer is its program's own.                          *)
Unsupervised(c) ==
  /\ \A r \in Registered : CoreOf(r) = c => ~LiveIssuer(r)
  /\ Moved(c, FALSE)
  /\ UNCHANGED <<issuer, minted, delivered>>

(* attach_prediction.                                                      *)
AttachPrediction(r) ==
  /\ LiveIssuer(r) /\ ~issuer[r].prediction /\ audit[CoreOf(r)].prediction = Absent
  /\ issuer' = [issuer EXCEPT ![r].prediction = TRUE]
  /\ audit' = [audit EXCEPT ![CoreOf(r)].prediction = r]
  /\ delivered' = [delivered EXCEPT ![CoreOf(r)] = audit[CoreOf(r)].root]
  /\ UNCHANGED minted

-----------------------------------------------------------------------------
(* Fault: a capability of an earlier revision passes.                      *)
OnRecord(r, key) == LiveIssuer(r) /\ key \in DOMAIN issuer[r].index

(* record_for: the capability of an occurrence is there and current.       *)
Current(r, key) ==
  /\ LiveIssuer(r) /\ key \in DOMAIN issuer[r].index
  /\ issuer[r].index[key].revision = issuer[r].revision

(* Fault: what was invalidated does not count.                             *)
HasRoomForCurrent(r) == Cardinality({k \in DOMAIN issuer[r].index : Current(r, k)}) < Capacity

HasRoom(r) == Cardinality(DOMAIN issuer[r].index) < Capacity

(* What issue makes of an occurrence that it has no record of.  "source" is*)
(* what the capability stands for, and which no other may stand for.       *)
Issue(r, key, payload, source) ==
  /\ LiveIssuer(r) /\ key \notin DOMAIN issuer[r].index /\ HasRoom(r)
  /\ issuer' = [issuer EXCEPT ![r].index =
       [k \in DOMAIN @ \cup {key} |->
          IF k = key THEN [revision |-> issuer[r].revision, payload |-> payload] ELSE @[k]]]
  /\ minted' = [x \in DOMAIN minted \cup {source} |->
       (IF x \in DOMAIN minted THEN minted[x] ELSE 0) + (IF x = source THEN 1 ELSE 0)]

(* What it makes of one that it has: the same capability, or a refusal.    *)
Again(r, key, payload) ==
  /\ Current(r, key) /\ issuer[r].index[key].payload = payload
  /\ UNCHANGED <<issuer, minted>>

FormalKinds == {"FORMAL_GIVEN", "FORMAL_ASSUMPTION", "FORMAL_CONSTRAINT"}

(* authorize_given, authorize_assumption, authorize_constraint_given.      *)
Authorize(r, kind, occurrence, content) ==
  /\ LET key == <<kind, occurrence>> IN
     Issue(r, key, [content |-> content, assumption |-> Absent], <<r, key>>)
  /\ UNCHANGED <<audit, delivered>>

(* authorize_constraint_assumption: a constraint in the scope and with the *)
(* dependencies of an assumption of the same issuer.  Its occurrence is of *)
(* the same kind as that of a constraint that is given.                    *)
AuthorizeConstraintAssumption(r, occurrence, content, assumption) ==
  /\ Current(r, <<"FORMAL_ASSUMPTION", assumption>>)
  /\ LET key == <<"FORMAL_CONSTRAINT", occurrence>> IN
     Issue(r, key, [content |-> content, assumption |-> assumption], <<r, key>>)
  /\ UNCHANGED <<audit, delivered>>

(* Fault: the Core does not remember who authorized the last occurrence.   *)
NotSeenOrLast(r, root) == audit[CoreOf(r)].seen <= root

(* The watermark: nothing older than the last occurrence, and that one only*)
(* by the issuer that authorized it.                                       *)
NotSeen(r, root) ==
  \/ audit[CoreOf(r)].seen < root
  \/ audit[CoreOf(r)].seen = root /\ audit[CoreOf(r)].seenBy = r

(* authorize_core_observation, with the receipt of the latest event.  What *)
(* was observed is the event's; the scope is the caller's.                 *)
AuthorizeCoreObservation(r, root, scope) ==
  LET c       == CoreOf(r)
      key     == <<"EXTERNAL_OBSERVATION", root>>
      payload == [content |-> scope, assumption |-> Absent]
  IN /\ LiveIssuer(r) /\ audit[c].root = root + 1 /\ NotSeen(r, root)
     /\ Issue(r, key, payload, <<c, root>>) \/ Again(r, key, payload)
     /\ audit' = [audit EXCEPT ![c].seen = root, ![c].seenBy = r]
     /\ UNCHANGED delivered

IngressNext ==
  \/ \E r \in Runtimes, c \in Cores : Create(r, c)
  \/ \E r \in Runtimes :
       \/ Abandon(r) \/ Close(r) \/ Discard(r) \/ Invalidate(r)
       \/ CoreTransition(r) \/ AttachPrediction(r)
       \/ \E boundary \in BOOLEAN : ProcessCoreEvent(r, boundary)
       \/ \E o \in Occurrences, x \in Contents :
            \/ \E kind \in FormalKinds : Authorize(r, kind, o, x)
            \/ \E a \in Occurrences : AuthorizeConstraintAssumption(r, o, x, a)
       \/ \E root \in 0 .. MaxRoots, scope \in Contents : AuthorizeCoreObservation(r, root, scope)
  \/ \E c \in Cores : Unsupervised(c)

IngressSpec == IngressInit /\ [][IngressNext]_ingressVars

-----------------------------------------------------------------------------
(* "No stale replay can reissue" and "runtime IDs never recycle": a source *)
(* occurrence, and a Core event whoever presents its receipt, gets one     *)
(* capability ever: after invalidations, after its issuer was closed or    *)
(* collected, and under the issuers that come after it.  Nor does an       *)
(* issuer ever hold more than its capacity, however often it was           *)
(* invalidated, or anything of a later revision than its own.              *)
AuthorizedOnce ==
  /\ \A source \in DOMAIN minted : minted[source] = 1
  /\ \A r \in Used :
       /\ Cardinality(DOMAIN issuer[r].index) <= Capacity
       /\ \A key \in DOMAIN issuer[r].index : issuer[r].index[key].revision <= issuer[r].revision

(* As long as a constraint that was assumed is of its issuer's revision,   *)
(* and so can be used, the assumption it depends on is too.                *)
ConstraintsStandOnAssumptions ==
  \A r \in Runtimes :
    LET index    == issuer[r].index
        valid(k) == k \in DOMAIN index /\ index[k].revision = issuer[r].revision
    IN \A k \in DOMAIN index : LET a == index[k].payload.assumption IN
         valid(k) /\ a # Absent => valid(<<"FORMAL_ASSUMPTION", a>>)

(* A Core has at most one issuer that is not removed.  A prediction        *)
(* environment belongs to a Core and to the issuer it came with, both      *)
(* agree on it, it goes when the issuer is removed, and while the issuer   *)
(* lives it is given every event: the Core does not move behind the back   *)
(* of its forecasts.                                                       *)
PredictionSeesEveryEvent ==
  /\ \A r, s \in Registered : CoreOf(r) = CoreOf(s) => r = s
  /\ \A r \in Registered : issuer[r].prediction => audit[CoreOf(r)].prediction = r
  /\ \A c \in Cores : LET r == audit[c].prediction IN
       r # Absent =>
         /\ r \in Registered /\ CoreOf(r) = c /\ issuer[r].prediction
         /\ LiveIssuer(r) => delivered[c] = audit[c].root
=============================================================================
