------------------------------ MODULE Forecast ------------------------------
(***************************************************************************)
(* Sealed forecasts of cognition/effects.py: the seal moves 2H units of    *)
(* the parent invocation into a pool of the forecast's own, one CAPTURE    *)
(* and one EVALUATION for each of the next H occurrences; every Core event *)
(* is then delivered to the live forecasts, one after the other, under the *)
(* Core and lifecycle barriers, so nothing else runs between the event and *)
(* the last of its deliveries.                                             *)
(*                                                                         *)
(* A trusted occurrence is its root number.  What was captured is left     *)
(* out: an offset is CAPTURED, PROVEN_EMPTY or an OBSERVATION_GAP, and     *)
(* matched or not.  Faults are the exceptions the code has handlers for:   *)
(*   "gap"          one the capture's except clause catches (1451)         *)
(*   "escape"       any other between the CAPTURE charge and the prepared  *)
(*                  result: the IngressAborts of forecast_capture, an      *)
(*                  evaluation effect or a match that raises               *)
(*   "publication"  the publication of a prepared result raises (1303)     *)
(*   "cleanup"      retire raises before it changed anything               *)
(* A retired record loses its coverage; the model keeps it, to say what    *)
(* the terminal outcome was based on.  "missed" is history: an exception   *)
(* kept an occurrence from getting its offset.                             *)
(***************************************************************************)
EXTENDS Ledger

CONSTANTS Forecasts, \* seal requests of one invocation
          Horizon,   \* the horizon each asks for
          Budget,    \* units of the invocation
          MaxLive,   \* PredictionPolicy.max_live_forecasts
          MaxRoots,  \* bound on the Core events of a behaviour
          Faults     \* the exceptions that may be raised

ASSUME ForecastAssumption ==
  /\ Horizon \in [Forecasts -> Nat \ {0}] /\ Budget \in Nat
  /\ {"SEAL", "ForecastEscrowReservation"} \subseteq WorkClasses
  /\ Faults \subseteq {"gap", "escape", "publication", "cleanup"}

VARIABLES closing,  \* whether the parent invocation has begun to close
          ledger,   \* its _Budget.index
          root,     \* the last committed Core root
          broken,   \* forecasts whose target the Core no longer has
          cut,      \* forecasts whose continuity stream a boundary has ended
          forecast, \* every _Forecast, by seal request
          event     \* the event being delivered, and to whom it is still due

vars == <<closing, ledger, root, broken, cut, forecast, event>>

Phases   == {"CAPTURE", "EVALUATION"}
Captures == {"CAPTURED", "PROVEN_EMPTY", "OBSERVATION_GAP"}
Verdicts == {"MATCHED", "WINDOW_ELAPSED_WITHOUT_MATCH", "INCONCLUSIVE_OBSERVATION_GAP"}

Nothing == [kind |-> "none", coverage |-> <<>>, status |-> "PENDING"]

Unsealed == [status |-> "UNSEALED", live |-> FALSE, origin |-> 0, coverage |-> <<>>, missed |-> FALSE,
             pending |-> Nothing, pool |-> [p \in Phases |-> <<>>]]

Quiet == event.due = {}

Init ==
  /\ closing = FALSE /\ ledger = NewIndex(Budget)
  /\ root = 1 /\ broken = {} /\ cut = {}
  /\ forecast = [f \in Forecasts |-> Unsealed]
  /\ event = [boundary |-> FALSE, due |-> {}]

Live == {f \in Forecasts : forecast[f].live}

-----------------------------------------------------------------------------
(* What becomes of one record.  Each operator gives every record that the  *)
(* code may leave behind, its exceptions included.                         *)

Spendable(r, phase, k) == k \in DOMAIN r.pool[phase] /\ r.pool[phase][k] = "RESERVED"

Charge(r, phase, k) == [r EXCEPT !.pool[phase][k] = "CONSUMED"]

Missing(r) == [r EXCEPT !.missed = TRUE]

(* Fault: a retired pool keeps the units it did not use.                   *)
PoolKept(pool) == pool

RetiredPool(pool) ==
  [p \in Phases |-> [k \in DOMAIN pool[p] |-> IF pool[p][k] = "RESERVED" THEN "RETIRED" ELSE pool[p][k]]]

(* "Cleanup cannot replace its published result".                          *)
Final(r, status) == IF r.status = "PENDING" THEN status ELSE r.status

Retired(r, status) ==
  [r EXCEPT !.status = Final(r, status), !.live = FALSE, !.pending = Nothing, !.pool = RetiredPool(@)]

Retire(r, status) == {Retired(r, status)} \cup (IF "cleanup" \in Faults THEN {r} ELSE {})

(* Fault: gaps are looked for at the last offset only.                     *)
StatusByLastOffset(h, coverage) ==
  CASE coverage[Len(coverage)].matched -> "MATCHED"
    [] ~coverage[Len(coverage)].matched /\ Len(coverage) < h -> "PENDING"
    [] ~coverage[Len(coverage)].matched /\ Len(coverage) >= h ->
         IF coverage[Len(coverage)].state = "OBSERVATION_GAP"
         THEN "INCONCLUSIVE_OBSERVATION_GAP" ELSE "WINDOW_ELAPSED_WITHOUT_MATCH"

(* status_after, with the match just decided.                              *)
StatusAfter(h, coverage) ==
  CASE coverage[Len(coverage)].matched -> "MATCHED"
    [] ~coverage[Len(coverage)].matched /\ Len(coverage) < h -> "PENDING"
    [] ~coverage[Len(coverage)].matched /\ Len(coverage) >= h ->
         IF \E k \in DOMAIN coverage : coverage[k].state = "OBSERVATION_GAP"
         THEN "INCONCLUSIVE_OBSERVATION_GAP" ELSE "WINDOW_ELAPSED_WITHOUT_MATCH"

Attached(r) ==
  [r EXCEPT !.coverage = r.pending.coverage, !.status = r.pending.status, !.pending = Nothing]

(* publish_forecast: attach the prepared result, and retire on a verdict.  *)
Publish(r) ==
  (IF "publication" \in Faults THEN {r} ELSE {}) \cup
  (IF r.pending.status = "PENDING" THEN {Attached(r)} ELSE Retire(Attached(r), r.pending.status))

(* Fault: the offset is one too many.                                      *)
NextOffsetSkipped(r) == Len(r.coverage) + 2

NextOffset(r) == Len(r.coverage) + 1

(* Fault: the occurrence's result is kept in front of the earlier ones.    *)
PreparedInFront(r, h, c) ==
  [r EXCEPT !.pending = [kind |-> "result", coverage |-> <<c>> \o r.coverage,
                         status |-> StatusAfter(h, <<c>> \o r.coverage)]]

Prepared(r, h, c) ==
  [r EXCEPT !.pending = [kind |-> "result", coverage |-> Append(r.coverage, c),
                         status |-> StatusAfter(h, Append(r.coverage, c))]]

Observations ==
  {[root |-> root, state |-> s, matched |-> m] :
     s \in IF "gap" \in Faults THEN Captures ELSE Captures \ {"OBSERVATION_GAP"}, m \in BOOLEAN}

(* The occurrence at hand, when nothing is pending: two charges, a capture *)
(* or a gap, a match that only a capture can have, and the publication.    *)
Evaluate(r, h) ==
  LET k         == NextOffset(r)
      captured  == Charge(r, "CAPTURE", k)
      evaluated == Charge(captured, "EVALUATION", k)
      possible  == {c \in Observations : c.matched => c.state = "CAPTURED"}
  IN IF ~Spendable(r, "CAPTURE", k) THEN {r}
     ELSE (IF "escape" \in Faults THEN {Missing(captured), Missing(evaluated)} ELSE {})
          \cup (IF ~Spendable(captured, "EVALUATION", k) THEN {captured}
                ELSE UNION {Publish(Prepared(evaluated, h, c)) : c \in possible})

(* Fault: a result that waits for publication is computed again.           *)
EvaluateAgain(r, h) == Evaluate([r EXCEPT !.pending = Nothing], h)

(* evaluate_forecast: a result still waiting is published first.           *)
EvaluateEvent(r, h) ==
  IF r.pending = Nothing THEN Evaluate(r, h)
  ELSE UNION {CASE q.pending # Nothing -> {Missing(q)}
                [] q.pending = Nothing /\ q.status = "PENDING" -> Evaluate(q, h)
                [] q.pending = Nothing /\ q.status # "PENDING" -> {q} : q \in Publish(r)}

-----------------------------------------------------------------------------
(* seal_forecast: the seal's charge and the escrow leave the parent in one *)
(* publication with the forecast.  A sealed request returns what it has.   *)
Seal(f) ==
  /\ Quiet /\ ~closing
  /\ forecast[f].status = "UNSEALED" /\ f \notin broken
  /\ Cardinality(Live) < MaxLive
  /\ CanReserve(ledger, 1)
  /\ LET sealed == Take(ledger, 1, "SEAL", "CONSUMED")
     IN /\ CanReserve(sealed, 2 * Horizon[f])
        /\ ledger' = Delegate(sealed, Horizon[f], "ForecastEscrowReservation")
  /\ forecast' = [forecast EXCEPT ![f] =
       [status |-> "PENDING", live |-> TRUE, origin |-> root, coverage |-> <<>>,
        missed |-> FALSE, pending |-> Nothing,
        pool |-> [p \in Phases |-> [k \in 1 .. Horizon[f] |-> "RESERVED"]]]]
  /\ UNCHANGED <<closing, root, broken, cut, event>>

(* begin_close and retire_unused of the parent; its forecasts are not      *)
(* children and are left alone.                                            *)
CloseParent ==
  /\ Quiet /\ ~closing
  /\ closing' = TRUE
  /\ ledger' = RetireUnused(ledger, 1)
  /\ UNCHANGED <<root, broken, cut, forecast, event>>

(* process_core_event: the tick commits, and is due to every live forecast.*)
(* A boundary cuts the continuity stream all of them were sealed in.       *)
CoreEvent(boundary, lost) ==
  /\ Quiet /\ root < MaxRoots
  /\ root' = root + 1
  /\ broken' = broken \cup lost
  /\ cut' = IF boundary THEN cut \cup Live ELSE cut
  /\ event' = [boundary |-> boundary, due |-> Live]
  /\ UNCHANGED <<closing, ledger, forecast>>

(* forecast_staleness: the continuity before the target.                   *)
IsStale(f)   == f \in cut \/ f \in broken
Staleness(f) == IF f \in cut THEN "ENVIRONMENT_STALE" ELSE "TARGET_STALE"

(* deliver_event, for a record it ends without looking at the occurrence.  *)
(* A cleanup that raises here is not caught: the rest of the loop is lost. *)
DeliverEnd(f) ==
  /\ f \in event.due
  /\ forecast[f].status # "PENDING" \/ event.boundary \/ IsStale(f)
  /\ LET end == IF event.boundary THEN "BOUNDARY_TERMINATED" ELSE Staleness(f)
     IN \E r \in Retire(forecast[f], end) :
          /\ forecast' = [g \in Forecasts |->
               IF g = f THEN r
               ELSE IF r.live /\ g \in event.due THEN Missing(forecast[g]) ELSE forecast[g]]
          /\ event' = [event EXCEPT !.due = IF r.live THEN {} ELSE @ \ {f}]
  /\ UNCHANGED <<closing, ledger, root, broken, cut>>

(* deliver_event, for a record it evaluates; whatever raises is caught.    *)
DeliverEvaluation(f) ==
  /\ f \in event.due
  /\ forecast[f].status = "PENDING" /\ ~event.boundary /\ ~IsStale(f)
  /\ \E r \in EvaluateEvent(forecast[f], Horizon[f]) :
       forecast' = [forecast EXCEPT ![f] = r]
  /\ event' = [event EXCEPT !.due = @ \ {f}]
  /\ UNCHANGED <<closing, ledger, root, broken, cut>>

(* cancel_forecast, by the holder of the FDA.                              *)
Cancel(f) ==
  /\ Quiet /\ forecast[f].live /\ forecast[f].status = "PENDING"
  /\ \E r \in Retire(forecast[f], "CANCELLED") : forecast' = [forecast EXCEPT ![f] = r]
  /\ UNCHANGED <<closing, ledger, root, broken, cut, event>>

(* retry_forecast_publication: stale first, then what is prepared.         *)
RetryPublication(f) ==
  /\ Quiet /\ forecast[f].live /\ forecast[f].status = "PENDING"
  /\ \E r \in IF IsStale(f) THEN Retire(forecast[f], Staleness(f))
              ELSE IF forecast[f].pending = Nothing THEN {forecast[f]} ELSE Publish(forecast[f]) :
       forecast' = [forecast EXCEPT ![f] = r]
  /\ UNCHANGED <<closing, ledger, root, broken, cut, event>>

(* retire_environment, when the issuer is invalidated or closed; a cleanup *)
(* that raises spares the records after it.                                *)
Invalidate ==
  /\ Quiet /\ Live # {}
  /\ \E ended \in SUBSET Live :
       /\ ended = Live \/ "cleanup" \in Faults
       /\ forecast' = [f \in Forecasts |->
            IF f \in ended THEN Retired(forecast[f], "ENVIRONMENT_STALE") ELSE forecast[f]]
  /\ UNCHANGED <<closing, ledger, root, broken, cut, event>>

Next ==
  \/ \E f \in Forecasts : Seal(f) \/ Cancel(f) \/ RetryPublication(f)
  \/ \E f \in Forecasts : DeliverEnd(f) \/ DeliverEvaluation(f)
  \/ \E boundary \in BOOLEAN, lost \in SUBSET (Forecasts \ broken) : CoreEvent(boundary, lost)
  \/ CloseParent \/ Invalidate

Spec == Init /\ [][Next]_vars

-----------------------------------------------------------------------------
(* What has been decided for f, published or waiting for publication.      *)
Recorded(r) == IF r.pending = Nothing THEN r.coverage ELSE r.pending.coverage

Sealed == {f \in Forecasts : forecast[f].status # "UNSEALED"}

MatchedAt(coverage) == {k \in DOMAIN coverage : coverage[k].matched}
GapAt(coverage)     == {k \in DOMAIN coverage : coverage[k].state = "OBSERVATION_GAP"}
SpentAt(r, phase)   == {k \in DOMAIN r.pool[phase] : r.pool[phase][k] = "CONSUMED"}

(* 03_COGNITION.md:1243-1250, as a definition independent of status_after: *)
(* a verdict says exactly what the recorded window shows, through failed   *)
(* publications, retries and cleanups; and the window follows the Core:    *)
(* what is recorded lies after the origin and in the order of the          *)
(* occurrences, whenever it was finally published.                         *)
VerdictsAreSound ==
  \A f \in Sealed : LET r == forecast[f] IN
    /\ Len(Recorded(r)) <= Horizon[f]
    /\ r.status = "MATCHED" => MatchedAt(r.coverage) = {Len(r.coverage)}
    /\ r.status = "WINDOW_ELAPSED_WITHOUT_MATCH" =>
         /\ Len(r.coverage) = Horizon[f]
         /\ MatchedAt(r.coverage) = {} /\ GapAt(r.coverage) = {}
    /\ r.status = "INCONCLUSIVE_OBSERVATION_GAP" =>
         /\ Len(r.coverage) = Horizon[f]
         /\ MatchedAt(r.coverage) = {} /\ GapAt(r.coverage) # {}
    /\ r.status = "PENDING" => MatchedAt(r.coverage) = {} /\ Len(r.coverage) < Horizon[f]
    /\ LET window == Recorded(r) IN
         /\ \A k \in DOMAIN window : r.origin < window[k].root /\ window[k].root <= root
         /\ \A j, k \in DOMAIN window : j < k => window[j].root < window[k].root

(* The escrow pays each offset once and in order: an evaluation only after *)
(* its capture, both units for every offset recorded, none beyond the one  *)
(* at hand; a forecast that is over holds no unit, and the parent gave up  *)
(* exactly 2H for each seal (03_COGNITION.md 1345-1366), in a ledger that  *)
(* stays one.                                                              *)
EscrowPaysOffsetsOnce ==
  /\ LedgerOK(ledger, Budget) /\ Owns(ledger)
  /\ \A f \in Sealed : LET r == forecast[f]  n == Len(Recorded(r)) IN
       /\ 1 .. n \subseteq SpentAt(r, "EVALUATION")
       /\ SpentAt(r, "EVALUATION") \subseteq SpentAt(r, "CAPTURE")
       /\ SpentAt(r, "CAPTURE") \subseteq 1 .. n + 1
       /\ ~r.live => \A p \in Phases, k \in 1 .. Horizon[f] : r.pool[p][k] # "RESERVED"
  /\ Cardinality(InState(ledger, "DELEGATED_FORECAST_POOL"))
       = Cardinality(UNION {{f} \X (1 .. 2 * Horizon[f]) : f \in Sealed})

(* "A duplicate or later retry cannot replace an admitted gap, backdate a  *)
(* capture, or reevaluate that occurrence" (03_COGNITION.md 1239): what is *)
(* recorded is never rewritten, a result that waits for publication is not *)
(* lost while the forecast lives, a verdict is never replaced, and a       *)
(* forecast that has ended charges nothing.                                *)
AdmittedStays ==
  [][\A f \in Sealed : LET r == forecast[f]  q == forecast'[f] IN
       /\ \A k \in DOMAIN r.coverage : k \in DOMAIN q.coverage /\ q.coverage[k] = r.coverage[k]
       /\ q.live \/ q.status \in Verdicts =>
            \A k \in DOMAIN Recorded(r) :
              k \in DOMAIN Recorded(q) /\ Recorded(q)[k] = Recorded(r)[k]
       /\ r.status # "PENDING" =>
            /\ q.status = r.status /\ (q.live => r.live)
            /\ \A p \in Phases : SpentAt(q, p) = SpentAt(r, p)]_vars

(* Unless an exception kept an occurrence from it, a live forecast whose   *)
(* deliveries are done has an offset for every occurrence since its seal,  *)
(* in whatever order seals, deliveries and retried publications came, and  *)
(* after H of them its verdict is paid for and at most waits to be         *)
(* published.  Gaps and failed cleanups of its own are no excuse.          *)
WindowIsComplete ==
  \A f \in Live : LET r == forecast[f] IN
    Quiet /\ r.status = "PENDING" /\ ~IsStale(f) /\ ~r.missed =>
      /\ Len(Recorded(r)) = root - r.origin
      /\ root - r.origin >= Horizon[f] => r.pending.status # "PENDING"

(* "Missing or failed capture never postpones its offset or leaves a       *)
(* completed horizon indefinitely PENDING" (03_COGNITION.md 1250): when H  *)
(* occurrences have passed, the forecast is decided or its verdict is paid *)
(* for and waits for publication.                                          *)
CompletedHorizonIsDecided ==
  \A f \in Live : Quiet /\ forecast[f].status = "PENDING" /\ ~IsStale(f)
                  /\ root - forecast[f].origin >= Horizon[f] =>
    forecast[f].pending.status # "PENDING"
=============================================================================
