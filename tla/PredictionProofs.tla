--------------------------- MODULE PredictionProofs ---------------------------
(***************************************************************************)
(* What a prediction rests on.  Sealed forecasts, for any seal requests,   *)
(* horizons, budget and number of Core events, and whichever exceptions    *)
(* are raised: verdicts say what the recorded window shows, the escrow     *)
(* pays every offset once, nothing that was recorded is lost or rewritten, *)
(* and no occurrence is skipped.  Retrieval, for any networks, cues and    *)
(* number of commits: a capture is the network of one version, as far as   *)
(* its cue reaches, and what is settled from it is what the whole network  *)
(* would give.                                                             *)
(***************************************************************************)
EXTENDS Forecast, Retrieval, LedgerProofs, SequenceTheorems

Observation == [root : Nat, state : Captures, matched : BOOLEAN]

Record(h) ==
  [status : Verdicts \cup {"PENDING", "CANCELLED", "BOUNDARY_TERMINATED", "ENVIRONMENT_STALE", "TARGET_STALE"},
   live : BOOLEAN, origin : Nat, coverage : Seq(Observation), missed : BOOLEAN,
   pending : [kind : {"none", "result"}, coverage : Seq(Observation), status : Verdicts \cup {"PENDING"}],
   pool : [Phases -> [1 .. h -> {"RESERVED", "CONSUMED", "RETIRED"}]]]

(* A result that waits is the last offset of a live forecast, paid for.    *)
Waits(r, h) ==
  r.pending # Nothing =>
    /\ r.live /\ r.status = "PENDING" /\ r.pending.kind = "result"
    /\ Len(r.pending.coverage) = Len(r.coverage) + 1
    /\ \A k \in 1 .. Len(r.coverage) : r.pending.coverage[k] = r.coverage[k]
    /\ r.pending.status = StatusAfter(h, r.pending.coverage)

(* What the units of a pool were spent on, and that an end spares none.    *)
Pays(r, h) ==
  /\ \A k \in 1 .. h :
       /\ k <= Len(Recorded(r)) => r.pool["EVALUATION"][k] = "CONSUMED"
       /\ r.pool["EVALUATION"][k] = "CONSUMED" => r.pool["CAPTURE"][k] = "CONSUMED"
       /\ r.pool["CAPTURE"][k] = "CONSUMED" => k <= Len(r.coverage) + 1
  /\ \A p \in Phases, k \in 1 .. h : r.pool[p][k] # (IF r.live THEN "RETIRED" ELSE "RESERVED")

Unmatched(coverage) == \A k \in DOMAIN coverage : ~coverage[k].matched

Gapless(coverage) == \A k \in DOMAIN coverage : coverage[k].state # "OBSERVATION_GAP"

(* What a published status says of the published window.                   *)
Tells(status, coverage, h) ==
  /\ Len(coverage) <= h
  /\ status = "MATCHED" =>
       /\ Len(coverage) > 0 /\ coverage[Len(coverage)].matched
       /\ \A k \in 1 .. Len(coverage) - 1 : ~coverage[k].matched
  /\ status = "WINDOW_ELAPSED_WITHOUT_MATCH" =>
       Len(coverage) = h /\ Unmatched(coverage) /\ Gapless(coverage)
  /\ status = "INCONCLUSIVE_OBSERVATION_GAP" =>
       Len(coverage) = h /\ Unmatched(coverage) /\ ~Gapless(coverage)
  /\ status = "PENDING" => Len(coverage) < h /\ Unmatched(coverage)

(* A record by itself.                                                     *)
Kept(r, h) == r \in Record(h) /\ Waits(r, h) /\ Pays(r, h) /\ Tells(r.status, r.coverage, h)

(* The roots of a window, while the Core is at root, and f may be due.     *)
Dates(f) ==
  LET r == forecast[f]  window == Recorded(r) IN
    /\ r.origin <= root
    /\ f \in event.due => r.origin < root
    /\ \A k \in DOMAIN window :
         /\ r.origin < window[k].root /\ window[k].root <= root
         /\ f \in event.due => window[k].root < root
    /\ \A j, k \in DOMAIN window : j < k => window[j].root < window[k].root

(* Every occurrence has its offset, but for the one at hand.               *)
Complete(f) ==
  LET r == forecast[f] IN
    r.live /\ r.status = "PENDING" /\ ~IsStale(f) /\ ~r.missed =>
      /\ Len(Recorded(r)) = root - r.origin - (IF f \in event.due THEN 1 ELSE 0)
      /\ \A k \in 1 .. Horizon[f] : r.pool["CAPTURE"][k] = "CONSUMED" => k <= Len(Recorded(r))

Typed ==
  /\ root \in Nat /\ forecast = [f \in Forecasts |-> forecast[f]]
  /\ event = [boundary |-> event.boundary, due |-> event.due]
  /\ event.boundary \in BOOLEAN /\ event.due \subseteq Live
  /\ event.boundary => event.due \subseteq cut

(* The units of all pools.                                                 *)
Pooled == UNION {{f} \X (1 .. 2 * Horizon[f]) : f \in Sealed}

Escrowed ==
  /\ LedgerOK(ledger, Budget) /\ Owns(ledger)
  /\ IsFiniteSet(Pooled)
  /\ Cardinality(InState(ledger, "DELEGATED_FORECAST_POOL")) = Cardinality(Pooled)

Fine(f) == forecast[f] = Unsealed \/ (Kept(forecast[f], Horizon[f]) /\ Dates(f) /\ Complete(f))

Inductive == Typed /\ Escrowed /\ \A f \in Forecasts : Fine(f)

-----------------------------------------------------------------------------
(* How a record may change: what is published stays, what is recorded      *)
(* stays while the forecast lives or if it ends with a verdict, and a      *)
(* verdict stays with the units it cost.                                   *)
Begins(v, w) == Len(v) <= Len(w) /\ \A k \in 1 .. Len(v) : w[k] = v[k]

SameSpent(r, q) == \A p \in Phases : SpentAt(q, p) = SpentAt(r, p)

Advances(r, q) ==
  /\ q.origin = r.origin /\ (q.live => r.live) /\ (r.missed => q.missed)
  /\ Begins(r.coverage, q.coverage)
  /\ q.live \/ q.status \in Verdicts => Begins(Recorded(r), Recorded(q))
  /\ r.status # "PENDING" => q.status = r.status /\ SameSpent(r, q)

(* Only one offset is new, that of the occurrence now.                     *)
AddsOne(r, q, now) ==
  \A k \in 1 .. Len(Recorded(q)) :
    \/ k <= Len(Recorded(r)) /\ Recorded(q)[k] = Recorded(r)[k]
    \/ k = Len(Recorded(r)) + 1 /\ Recorded(q)[k].root = now

(* No unit is spent beyond what is recorded.                               *)
Ready(r, h) == \A k \in 1 .. h : r.pool["CAPTURE"][k] = "CONSUMED" => k <= Len(Recorded(r))

LEMMA RecordFields ==
  ASSUME NEW h \in Nat, NEW r \in Record(h)
  PROVE  /\ r.coverage \in Seq(Observation) /\ r.pending.coverage \in Seq(Observation)
         /\ Recorded(r) \in Seq(Observation)
         /\ Len(r.coverage) \in Nat /\ Len(r.pending.coverage) \in Nat /\ Len(Recorded(r)) \in Nat
         /\ DOMAIN r.coverage = 1 .. Len(r.coverage)
         /\ DOMAIN Recorded(r) = 1 .. Len(Recorded(r))
         /\ \A p \in Phases : DOMAIN r.pool[p] = 1 .. h
         /\ r.pending # Nothing => r.pending = [kind |-> r.pending.kind,
                   coverage |-> r.pending.coverage, status |-> r.pending.status]
<1>1. r.coverage \in Seq(Observation) /\ r.pending.coverage \in Seq(Observation)
  BY DEF Record
<1>2. Recorded(r) \in Seq(Observation)
  BY <1>1 DEF Recorded
<1>3. \A p \in Phases : DOMAIN r.pool[p] = 1 .. h
  BY DEF Record
<1>4. r.pending = [kind |-> r.pending.kind, coverage |-> r.pending.coverage, status |-> r.pending.status]
  BY DEF Record
<1> QED BY <1>1, <1>2, <1>3, <1>4, LenProperties

(* What status_after decides is what the window shows.                     *)
LEMMA StatusTells ==
  ASSUME NEW h \in Nat, NEW w \in Seq(Observation), Len(w) > 0, Len(w) <= h,
         \A k \in 1 .. Len(w) - 1 : ~w[k].matched
  PROVE  /\ Tells(StatusAfter(h, w), w, h)
         /\ StatusAfter(h, w) \in Verdicts \cup {"PENDING"}
<1>1. Len(w) \in Nat /\ DOMAIN w = 1 .. Len(w) /\ \A k \in 1 .. Len(w) : w[k] \in Observation
  BY LenProperties, ElementOfSeq
<1>2. \A k \in 1 .. Len(w) : w[k].matched \in BOOLEAN
  BY <1>1 DEF Observation
<1>3. CASE w[Len(w)].matched
  BY <1>1, <1>3 DEF StatusAfter, Tells, Verdicts
<1>4. CASE ~w[Len(w)].matched
  <2>1. Unmatched(w)
    BY <1>1, <1>4 DEF Unmatched
  <2>2. CASE Len(w) < h
    BY <1>1, <1>4, <2>1, <2>2 DEF StatusAfter, Tells, Verdicts
  <2>3. CASE Len(w) >= h
    BY <1>1, <1>4, <2>1, <2>3 DEF StatusAfter, Tells, Verdicts, Gapless
  <2> QED BY <1>1, <2>2, <2>3
<1> QED BY <1>3, <1>4

Ends == {"CANCELLED", "BOUNDARY_TERMINATED", "ENVIRONMENT_STALE", "TARGET_STALE"}

(* retire: what was published stays, what waited is gone, the pool is over.*)
LEMMA RetiredKept ==
  ASSUME NEW h \in Nat, NEW r, Kept(r, h), NEW status,
         status \in Ends \/ r.status # "PENDING"
  PROVE  /\ Kept(Retired(r, status), h)
         /\ Advances(r, Retired(r, status))
         /\ Begins(Recorded(Retired(r, status)), Recorded(r))
         /\ Retired(r, status).status = Final(r, status) /\ ~Retired(r, status).live
         /\ Retired(r, status).coverage = r.coverage /\ Retired(r, status).missed = r.missed
         /\ Retired(r, status).pending = Nothing
<1> DEFINE q == Retired(r, status)
<1>0. r \in Record(h)
  BY DEF Kept
<1>1. /\ q.status = Final(r, status) /\ q.live = FALSE /\ q.origin = r.origin
      /\ q.coverage = r.coverage /\ q.missed = r.missed /\ q.pending = Nothing
      /\ q.pool \in [Phases -> [1 .. h -> {"RESERVED", "CONSUMED", "RETIRED"}]]
      /\ \A p \in Phases, k \in 1 .. h : q.pool[p][k] =
           IF r.pool[p][k] = "RESERVED" THEN "RETIRED" ELSE r.pool[p][k]
      /\ Recorded(q) = r.coverage
  <2>1. /\ DOMAIN r.pool = Phases /\ \A p \in Phases : DOMAIN r.pool[p] = 1 .. h
        /\ DOMAIN r = {"status", "live", "origin", "coverage", "missed", "pending", "pool"}
        /\ r.pool \in [Phases -> [1 .. h -> {"RESERVED", "CONSUMED", "RETIRED"}]]
    BY <1>0 DEF Record
  <2>2. /\ q.status = Final(r, status) /\ q.live = FALSE /\ q.origin = r.origin
        /\ q.coverage = r.coverage /\ q.missed = r.missed /\ q.pending = Nothing
        /\ q.pool = RetiredPool(r.pool)
    BY <2>1 DEF Retired
  <2>3. RetiredPool(r.pool) = [p \in Phases |-> [k \in 1 .. h |->
          IF r.pool[p][k] = "RESERVED" THEN "RETIRED" ELSE r.pool[p][k]]]
    BY <2>1 DEF RetiredPool
  <2> HIDE DEF q
  <2>4. Recorded(q) = r.coverage
    BY <2>2 DEF Recorded
  <2> QED BY <2>1, <2>2, <2>3, <2>4
<1> HIDE DEF q
<1>2. q.status \in Ends \/ q.status = r.status
  BY <1>1 DEF Final
<1>3. /\ r.status \in Verdicts \cup {"PENDING"} \cup Ends /\ r.origin \in Nat /\ r.missed \in BOOLEAN
      /\ r.pool \in [Phases -> [1 .. h -> {"RESERVED", "CONSUMED", "RETIRED"}]]
  BY <1>0 DEF Record, Ends
<1>4. /\ r.coverage \in Seq(Observation) /\ Len(r.coverage) \in Nat /\ Len(Recorded(r)) \in Nat
      /\ \A p \in Phases : DOMAIN r.pool[p] = 1 .. h
  BY <1>0, RecordFields
<1>5. \A p \in Phases, k \in 1 .. h :
        /\ q.pool[p][k] = "CONSUMED" <=> r.pool[p][k] = "CONSUMED"
        /\ q.pool[p][k] # "RESERVED"
  BY <1>1
<1>6. q \in Record(h)
  <2>1. q.pool \in [Phases -> [1 .. h -> {"RESERVED", "CONSUMED", "RETIRED"}]]
    BY <1>1, <1>3
  <2>2. q.status \in Verdicts \cup {"PENDING", "CANCELLED", "BOUNDARY_TERMINATED", "ENVIRONMENT_STALE", "TARGET_STALE"}
    BY <1>2, <1>3 DEF Ends
  <2>4. Nothing \in [kind : {"none", "result"}, coverage : Seq(Observation), status : Verdicts \cup {"PENDING"}]
    <3>1. <<>> \in Seq(Observation)
      BY EmptySeq
    <3> QED BY <3>1 DEF Nothing
  <2>5. /\ Final(r, status) \in Verdicts \cup {"PENDING", "CANCELLED", "BOUNDARY_TERMINATED", "ENVIRONMENT_STALE", "TARGET_STALE"}
        /\ RetiredPool(r.pool) \in [Phases -> [1 .. h -> {"RESERVED", "CONSUMED", "RETIRED"}]]
    BY <1>1, <2>1, <2>2 DEF Retired, q
  <2> QED BY <1>0, <2>4, <2>5 DEF Record, Retired, q
<1>7. Begins(r.coverage, Recorded(r)) /\ (r.status # "PENDING" => Recorded(r) = r.coverage)
  <2>1. CASE r.pending = Nothing
    BY <1>4, <2>1 DEF Recorded, Begins
  <2>2. CASE r.pending # Nothing
    <3>1. /\ r.status = "PENDING" /\ Recorded(r) = r.pending.coverage
          /\ Len(r.pending.coverage) = Len(r.coverage) + 1
          /\ \A k \in 1 .. Len(r.coverage) : r.pending.coverage[k] = r.coverage[k]
      BY <2>2 DEF Kept, Waits, Recorded
    <3> QED BY <1>4, <3>1 DEF Begins
  <2> QED BY <2>1, <2>2
<1>8. Waits(q, h)
  BY <1>1 DEF Waits
<1>9. Pays(q, h)
  <2>1. /\ \A k \in 1 .. h :
             /\ k <= Len(Recorded(r)) => r.pool["EVALUATION"][k] = "CONSUMED"
             /\ r.pool["EVALUATION"][k] = "CONSUMED" => r.pool["CAPTURE"][k] = "CONSUMED"
             /\ r.pool["CAPTURE"][k] = "CONSUMED" => k <= Len(r.coverage) + 1
    BY DEF Kept, Pays
  <2>2. \A k \in 1 .. h : k <= Len(r.coverage) => k <= Len(Recorded(r))
    BY <1>4, <1>7 DEF Begins
  <2> QED BY <1>1, <1>5, <2>1, <2>2 DEF Pays, Phases
<1>10. Tells(q.status, q.coverage, h)
  <2>1. Tells(r.status, r.coverage, h)
    BY DEF Kept
  <2>2. CASE q.status = r.status
    BY <1>1, <2>1, <2>2
  <2>3. CASE q.status \in Ends
    BY <1>1, <2>1, <2>3 DEF Ends, Tells
  <2> QED BY <1>2, <2>2, <2>3
<1>11. Advances(r, q)
  <2>1. q.status \in Verdicts => r.status # "PENDING"
    BY <1>1, <1>2 DEF Ends, Verdicts
  <2>2. r.status # "PENDING" => q.status = r.status
    BY <1>1 DEF Final
  <2>3. SameSpent(r, q)
    <3>1. \A p \in Phases : DOMAIN q.pool[p] = 1 .. h
      BY <1>1
    <3> QED BY <1>4, <1>5, <3>1 DEF SameSpent, SpentAt
  <2>4. Begins(r.coverage, q.coverage)
    BY <1>1, <1>4 DEF Begins
  <2>5. q.live \/ q.status \in Verdicts => Begins(Recorded(r), Recorded(q))
    BY <1>1, <1>4, <1>7, <2>1 DEF Begins
  <2> QED BY <1>1, <2>2, <2>3, <2>4, <2>5 DEF Advances
<1>12. Begins(Recorded(q), Recorded(r))
  BY <1>1, <1>7
<1> QED BY <1>1, <1>6, <1>8, <1>9, <1>10, <1>11, <1>12 DEF Kept, q

(* publish_forecast attaches the result that waits: nothing is recorded or *)
(* spent by it, and the status it sets is what the window shows.           *)
LEMMA AttachedKept ==
  ASSUME NEW h \in Nat, NEW r, Kept(r, h), r.pending # Nothing
  PROVE  LET q == Attached(r) IN
         /\ Kept(q, h) /\ Advances(r, q) /\ Recorded(q) = Recorded(r) /\ SameSpent(r, q)
         /\ q.pending = Nothing /\ q.live = r.live /\ q.missed = r.missed
         /\ q.status = r.pending.status /\ q.pool = r.pool
<1> DEFINE q == Attached(r)
<1>0. r \in Record(h)
  BY DEF Kept
<1>1. /\ r.live /\ r.status = "PENDING"
      /\ Len(r.pending.coverage) = Len(r.coverage) + 1
      /\ \A k \in 1 .. Len(r.coverage) : r.pending.coverage[k] = r.coverage[k]
      /\ r.pending.status = StatusAfter(h, r.pending.coverage)
  BY DEF Kept, Waits
<1>2. /\ r.coverage \in Seq(Observation) /\ r.pending.coverage \in Seq(Observation)
      /\ Len(r.coverage) \in Nat /\ DOMAIN r.coverage = 1 .. Len(r.coverage)
      /\ Recorded(r) = r.pending.coverage
  BY <1>0, RecordFields DEF Recorded
<1>3. Len(r.coverage) < h /\ Unmatched(r.coverage)
  BY <1>1 DEF Kept, Tells
<1>4. /\ Tells(r.pending.status, r.pending.coverage, h)
      /\ r.pending.status \in Verdicts \cup {"PENDING"}
  <2>1. \A k \in 1 .. Len(r.pending.coverage) - 1 : ~r.pending.coverage[k].matched
    BY <1>1, <1>2, <1>3 DEF Unmatched
  <2>2. Len(r.pending.coverage) > 0 /\ Len(r.pending.coverage) <= h
    BY <1>1, <1>2, <1>3
  <2>3. /\ Tells(StatusAfter(h, r.pending.coverage), r.pending.coverage, h)
        /\ StatusAfter(h, r.pending.coverage) \in Verdicts \cup {"PENDING"}
    BY <1>2, <2>1, <2>2, StatusTells
  <2> QED BY <1>1, <2>3
<1>5. /\ q.status = r.pending.status /\ q.coverage = r.pending.coverage /\ q.pending = Nothing
      /\ q.live = r.live /\ q.origin = r.origin /\ q.missed = r.missed /\ q.pool = r.pool
  BY <1>0 DEF Attached, Record
<1>6. q \in Record(h)
  <2>1. <<>> \in Seq(Observation)
    BY EmptySeq
  <2>2. Nothing \in [kind : {"none", "result"}, coverage : Seq(Observation), status : Verdicts \cup {"PENDING"}]
    BY <2>1 DEF Nothing
  <2>3. r.pending.status \in Verdicts \cup {"PENDING", "CANCELLED", "BOUNDARY_TERMINATED", "ENVIRONMENT_STALE", "TARGET_STALE"}
    BY <1>4
  <2> QED BY <1>0, <1>2, <2>2, <2>3 DEF Record, Attached
<1> HIDE DEF q
<1>7. Recorded(q) = Recorded(r)
  BY <1>2, <1>5 DEF Recorded
<1>8. Kept(q, h)
  <2>1. Waits(q, h)
    BY <1>5 DEF Waits
  <2>2. Pays(r, h)
    BY DEF Kept
  <2>3. Pays(q, h)
    BY <1>1, <1>2, <1>5, <1>7, <2>2 DEF Pays
  <2>4. Tells(q.status, q.coverage, h)
    BY <1>4, <1>5
  <2> QED BY <1>6, <2>1, <2>3, <2>4 DEF Kept
<1>9. SameSpent(r, q)
  BY <1>5 DEF SameSpent, SpentAt
<1>10. Advances(r, q)
  <2>1. Begins(r.coverage, q.coverage)
    BY <1>1, <1>2, <1>5 DEF Begins
  <2>2. Begins(Recorded(r), Recorded(q))
    BY <1>1, <1>2, <1>7 DEF Begins
  <2> QED BY <1>1, <1>5, <2>1, <2>2 DEF Advances
<1> QED BY <1>5, <1>7, <1>8, <1>9, <1>10 DEF q

(* Begins, Advances: what holds of two steps holds of both together.       *)
LEMMA BeginsTwice ==
  ASSUME NEW u \in Seq(Observation), NEW v \in Seq(Observation), NEW w \in Seq(Observation),
         Begins(u, v), Begins(v, w)
  PROVE  Begins(u, w)
<1>1. Len(u) \in Nat /\ Len(v) \in Nat /\ Len(w) \in Nat
  BY LenProperties
<1> QED BY <1>1 DEF Begins

(* A whole publication: the result still waits, or is out.                 *)
(* publish_forecast, whatever it raises: nothing is recorded or spent, and *)
(* what it attaches is what was waiting.                                   *)
LEMMA PublishKept ==
  ASSUME NEW h \in Nat, NEW r, Kept(r, h), r.pending # Nothing, NEW q \in Publish(r)
  PROVE  /\ Kept(q, h) /\ Advances(r, q) /\ Recorded(q) = Recorded(r) /\ SameSpent(r, q)
         /\ q.missed = r.missed
         /\ q.pending # Nothing => q = r
         /\ q.pending = Nothing => q.status = r.pending.status
         /\ q.status = "PENDING" => q.live /\ q.pool = r.pool
<1> DEFINE p == Attached(r)
<1>0. r \in Record(h)
  BY DEF Kept
<1>1. /\ Kept(p, h) /\ Advances(r, p) /\ Recorded(p) = Recorded(r) /\ SameSpent(r, p)
      /\ p.pending = Nothing /\ p.live = r.live /\ p.missed = r.missed
      /\ p.status = r.pending.status /\ p.pool = r.pool
  BY AttachedKept
<1>2. /\ r.live /\ r.status = "PENDING" /\ r.pending.status \in Verdicts \cup {"PENDING"}
  <2>1. r.live /\ r.status = "PENDING"
    BY DEF Kept, Waits
  <2> QED BY <1>0, <2>1 DEF Record
<1>3. /\ Recorded(r) \in Seq(Observation) /\ Recorded(r) = r.pending.coverage
      /\ r.coverage \in Seq(Observation)
  BY <1>0, RecordFields DEF Recorded
<1>4. \A v \in Seq(Observation) : Begins(v, v)
  BY LenProperties DEF Begins
<1>5. q = r \/ (q = p /\ (r.pending.status # "PENDING" => "cleanup" \in Faults))
        \/ (r.pending.status # "PENDING" /\ q = Retired(p, r.pending.status))
  BY DEF Publish, Retire
<1> HIDE DEF p
<1>6. CASE q = r
  <2>1. Advances(r, r)
    BY <1>3, <1>4 DEF Advances, SameSpent
  <2> QED BY <1>2, <1>6, <2>1 DEF SameSpent
<1>7. CASE q = p
  BY <1>1, <1>2, <1>7
<1>8. CASE r.pending.status # "PENDING" /\ q = Retired(p, r.pending.status)
  <2>1. /\ Kept(q, h) /\ Advances(p, q)
        /\ q.status = Final(p, r.pending.status) /\ ~q.live /\ q.coverage = p.coverage
        /\ q.missed = p.missed /\ q.pending = Nothing
    BY <1>1, <1>8, RetiredKept
  <2>2. q.status = p.status
    BY <1>1, <2>1 DEF Final
  <2>3. Recorded(q) = Recorded(r)
    BY <1>1, <2>1, <2>2 DEF Recorded
  <2>4. SameSpent(r, q)
    BY <1>1, <1>8, <2>1 DEF Advances, SameSpent
  <2>5. Advances(r, q)
    <3>1. Begins(r.coverage, q.coverage)
      BY <1>1, <2>1, <2>2 DEF Advances
    <3>2. Begins(Recorded(r), Recorded(q))
      BY <1>3, <1>4, <2>3
    <3>3. q.origin = r.origin /\ (q.live => r.live)
      BY <1>1, <2>1 DEF Advances
    <3> QED BY <1>1, <1>2, <2>1, <2>2, <3>1, <3>2, <3>3 DEF Advances
  <2> QED BY <1>1, <1>8, <2>1, <2>2, <2>3, <2>4, <2>5
<1> QED BY <1>5, <1>6, <1>7, <1>8

-----------------------------------------------------------------------------
(* q is r but for its pool.                                                *)
ButForPool(r, q) ==
  /\ q.status = r.status /\ (q.live <=> r.live) /\ q.origin = r.origin /\ q.coverage = r.coverage
  /\ (q.missed <=> r.missed) /\ q.pending = r.pending /\ Recorded(q) = Recorded(r)

(* A charge spends one unit of the pool and changes nothing else.          *)
LEMMA ChargeFields ==
  ASSUME NEW h \in Nat, NEW r \in Record(h), NEW phase \in Phases, NEW k \in 1 .. h
  PROVE  /\ Charge(r, phase, k) \in Record(h)
         /\ ButForPool(r, Charge(r, phase, k))
         /\ Charge(r, phase, k).pool[phase][k] = "CONSUMED"
         /\ \A p \in Phases, i \in 1 .. h : p # phase \/ i # k =>
              Charge(r, phase, k).pool[p][i] = r.pool[p][i]
<1> DEFINE q == Charge(r, phase, k)
<1>1. /\ DOMAIN r.pool = Phases /\ \A p \in Phases : DOMAIN r.pool[p] = 1 .. h
      /\ DOMAIN r = {"status", "live", "origin", "coverage", "missed", "pending", "pool"}
      /\ r.pool \in [Phases -> [1 .. h -> {"RESERVED", "CONSUMED", "RETIRED"}]]
  BY DEF Record
<1>2. /\ q.status = r.status /\ (q.live <=> r.live) /\ q.origin = r.origin /\ q.coverage = r.coverage
      /\ (q.missed <=> r.missed) /\ q.pending = r.pending
      /\ q.pool = [r.pool EXCEPT ![phase][k] = "CONSUMED"]
  BY <1>1 DEF Charge
<1>3. [r.pool EXCEPT ![phase][k] = "CONSUMED"] \in [Phases -> [1 .. h -> {"RESERVED", "CONSUMED", "RETIRED"}]]
  BY <1>1
<1>4. q \in Record(h)
  BY <1>3 DEF Charge, Record
<1> HIDE DEF q
<1>5. ButForPool(r, q)
  BY <1>2 DEF Recorded, ButForPool
<1>6. /\ q.pool[phase][k] = "CONSUMED"
      /\ \A p \in Phases, i \in 1 .. h : p # phase \/ i # k => q.pool[p][i] = r.pool[p][i]
  BY <1>1, <1>2
<1> QED BY <1>2, <1>4, <1>5, <1>6 DEF q

(* An occurrence that was missed is only remembered.                       *)
LEMMA MissingFields ==
  ASSUME NEW h \in Nat, NEW r \in Record(h)
  PROVE  /\ Missing(r) \in Record(h) /\ Missing(r).missed
         /\ Missing(r).status = r.status /\ (Missing(r).live <=> r.live)
         /\ Missing(r).origin = r.origin /\ Missing(r).coverage = r.coverage
         /\ Missing(r).pending = r.pending /\ Missing(r).pool = r.pool
         /\ Recorded(Missing(r)) = Recorded(r)
<1>1. /\ Missing(r) \in Record(h) /\ Missing(r).missed
      /\ Missing(r).status = r.status /\ (Missing(r).live <=> r.live)
      /\ Missing(r).origin = r.origin /\ Missing(r).coverage = r.coverage
      /\ Missing(r).pending = r.pending /\ Missing(r).pool = r.pool
  BY DEF Missing, Record
<1> QED BY <1>1 DEF Recorded

LEMMA MissingKept ==
  ASSUME NEW h \in Nat, NEW r, Kept(r, h)
  PROVE  Kept(Missing(r), h)
<1>0. r \in Record(h)
  BY DEF Kept
<1>1. /\ Missing(r) \in Record(h) /\ Missing(r).missed
      /\ Missing(r).status = r.status /\ (Missing(r).live <=> r.live)
      /\ Missing(r).origin = r.origin /\ Missing(r).coverage = r.coverage
      /\ Missing(r).pending = r.pending /\ Missing(r).pool = r.pool
      /\ Recorded(Missing(r)) = Recorded(r)
  BY <1>0, MissingFields
<1>2. Waits(Missing(r), h)
  BY <1>1 DEF Kept, Waits
<1>3. Pays(Missing(r), h)
  BY <1>1 DEF Kept, Pays
<1>4. Tells(Missing(r).status, Missing(r).coverage, h)
  BY <1>1 DEF Kept
<1> QED BY <1>1, <1>2, <1>3, <1>4 DEF Kept

(* The offset at hand may be charged for, its capture first.               *)
LEMMA ChargeKept ==
  ASSUME NEW h \in Nat, NEW r, Kept(r, h), r.live, r.status = "PENDING", r.pending = Nothing,
         NEW k, k = Len(r.coverage) + 1, NEW phase \in Phases,
         phase = "EVALUATION" => r.pool["CAPTURE"][k] = "CONSUMED"
  PROVE  /\ k \in 1 .. h
         /\ Kept(Charge(r, phase, k), h) /\ ButForPool(r, Charge(r, phase, k))
         /\ Charge(r, phase, k).pool[phase][k] = "CONSUMED"
         /\ \A p \in Phases, i \in 1 .. h : p # phase \/ i # k =>
              Charge(r, phase, k).pool[p][i] = r.pool[p][i]
<1> DEFINE q == Charge(r, phase, k)
<1>0. r \in Record(h)
  BY DEF Kept
<1>1. Len(r.coverage) \in Nat /\ Recorded(r) = r.coverage
  BY <1>0, RecordFields DEF Recorded
<1>2. k \in 1 .. h
  BY <1>1 DEF Kept, Tells
<1>3. /\ q \in Record(h) /\ ButForPool(r, q)
      /\ q.pool[phase][k] = "CONSUMED"
      /\ \A p \in Phases, i \in 1 .. h : p # phase \/ i # k => q.pool[p][i] = r.pool[p][i]
  BY <1>0, <1>2, ChargeFields, SMTT(60)
<1> HIDE DEF q
<1>4. Waits(q, h)
  BY <1>3 DEF Waits, ButForPool
<1>5. Pays(q, h)
  <2>1. /\ \A i \in 1 .. h :
             /\ i <= Len(r.coverage) => r.pool["EVALUATION"][i] = "CONSUMED"
             /\ r.pool["EVALUATION"][i] = "CONSUMED" => r.pool["CAPTURE"][i] = "CONSUMED"
             /\ r.pool["CAPTURE"][i] = "CONSUMED" => i <= Len(r.coverage) + 1
        /\ \A p \in Phases, i \in 1 .. h : r.pool[p][i] # "RETIRED"
    BY <1>1 DEF Kept, Pays
  <2>2. /\ q.live /\ q.coverage = r.coverage /\ Recorded(q) = r.coverage
    BY <1>1, <1>3 DEF ButForPool
  <2>3. \A p \in Phases, i \in 1 .. h : q.pool[p][i] # "RETIRED"
    BY <1>3, <2>1
  <2>4. CASE phase = "CAPTURE"
    <3>1. /\ \A i \in 1 .. h : q.pool["EVALUATION"][i] = r.pool["EVALUATION"][i]
          /\ \A i \in 1 .. h : i # k => q.pool["CAPTURE"][i] = r.pool["CAPTURE"][i]
          /\ q.pool["CAPTURE"][k] = "CONSUMED"
      BY <1>3, <2>4 DEF Phases
    <3> QED BY <1>2, <2>1, <2>2, <2>3, <3>1 DEF Pays
  <2>5. CASE phase = "EVALUATION"
    <3>1. /\ \A i \in 1 .. h : q.pool["CAPTURE"][i] = r.pool["CAPTURE"][i]
          /\ \A i \in 1 .. h : i # k => q.pool["EVALUATION"][i] = r.pool["EVALUATION"][i]
          /\ q.pool["EVALUATION"][k] = "CONSUMED"
      BY <1>3, <2>5 DEF Phases
    <3> QED BY <1>2, <2>1, <2>2, <2>3, <2>5, <3>1 DEF Pays
  <2> QED BY <2>4, <2>5 DEF Phases
<1>6. Tells(q.status, q.coverage, h)
  BY <1>3 DEF Kept, ButForPool
<1> QED BY <1>2, <1>3, <1>4, <1>5, <1>6 DEF Kept, q

(* A prepared result waits, paid for.                                      *)
LEMMA PreparedKept ==
  ASSUME NEW h \in Nat, NEW r, Kept(r, h), r.live, r.status = "PENDING", r.pending = Nothing,
         r.pool["EVALUATION"][Len(r.coverage) + 1] = "CONSUMED", NEW c \in Observation
  PROVE  LET q == Prepared(r, h, c) IN
         /\ Kept(q, h) /\ q.pending # Nothing
         /\ q.status = r.status /\ (q.live <=> r.live) /\ q.origin = r.origin /\ q.coverage = r.coverage
         /\ (q.missed <=> r.missed) /\ q.pool = r.pool
         /\ Recorded(q) = Append(r.coverage, c)
<1> DEFINE q == Prepared(r, h, c)
           w == Append(r.coverage, c)
           n == Len(r.coverage)
<1>0. r \in Record(h)
  BY DEF Kept
<1>1. /\ r.coverage \in Seq(Observation) /\ n \in Nat /\ DOMAIN r.coverage = 1 .. n
      /\ Recorded(r) = r.coverage
  BY <1>0, RecordFields DEF Recorded
<1>2. n < h /\ Unmatched(r.coverage)
  BY DEF Kept, Tells
<1>3. /\ w \in Seq(Observation) /\ Len(w) = n + 1
      /\ \A k \in 1 .. n : w[k] = r.coverage[k]
  BY <1>1
<1> HIDE DEF w
<1>4. /\ Tells(StatusAfter(h, w), w, h)
      /\ StatusAfter(h, w) \in Verdicts \cup {"PENDING"}
  <2>1. \A k \in 1 .. Len(w) - 1 : ~w[k].matched
    BY <1>1, <1>2, <1>3 DEF Unmatched
  <2>2. Len(w) > 0 /\ Len(w) <= h
    BY <1>1, <1>2, <1>3
  <2> QED BY <1>3, <2>1, <2>2, StatusTells
<1> DEFINE waiting == [kind |-> "result", coverage |-> w, status |-> StatusAfter(h, w)]
<1>5. /\ waiting \in [kind : {"none", "result"}, coverage : Seq(Observation), status : Verdicts \cup {"PENDING"}]
      /\ waiting # Nothing /\ waiting.kind = "result" /\ waiting.coverage = w
      /\ waiting.status = StatusAfter(h, w)
  BY <1>3, <1>4 DEF Nothing
<1>6. q = [r EXCEPT !.pending = waiting]
  BY DEF Prepared, w
<1> HIDE DEF waiting, q
<1>7. /\ q \in Record(h) /\ q.pending = waiting
      /\ q.status = r.status /\ (q.live <=> r.live) /\ q.origin = r.origin /\ q.coverage = r.coverage
      /\ (q.missed <=> r.missed) /\ q.pool = r.pool
  BY <1>0, <1>5, <1>6 DEF Record
<1>8. Recorded(q) = w
  BY <1>5, <1>7 DEF Recorded
<1>9. Waits(q, h)
  BY <1>3, <1>5, <1>7 DEF Waits
<1>10. Pays(q, h)
  <2>1. /\ \A i \in 1 .. h :
             /\ i <= n => r.pool["EVALUATION"][i] = "CONSUMED"
             /\ r.pool["EVALUATION"][i] = "CONSUMED" => r.pool["CAPTURE"][i] = "CONSUMED"
             /\ r.pool["CAPTURE"][i] = "CONSUMED" => i <= n + 1
        /\ \A p \in Phases, i \in 1 .. h : r.pool[p][i] # "RETIRED"
    BY <1>1 DEF Kept, Pays
  <2>2. \A i \in 1 .. h : i <= n + 1 => r.pool["EVALUATION"][i] = "CONSUMED"
    BY <1>1, <2>1
  <2>3. q.live /\ q.pool = r.pool /\ Len(Recorded(q)) = n + 1 /\ Len(q.coverage) = n
    BY <1>3, <1>7, <1>8
  <2> HIDE DEF n
  <2> QED BY <2>1, <2>2, <2>3 DEF Pays
<1>11. Tells(q.status, q.coverage, h)
  BY <1>7 DEF Kept
<1> QED BY <1>5, <1>7, <1>8, <1>9, <1>10, <1>11 DEF Kept, q, w

(* What an occurrence makes of a record that has nothing pending.          *)
LEMMA EvaluateKept ==
  ASSUME root \in Nat, NEW h \in Nat, NEW r, Kept(r, h), r.live, r.status = "PENDING",
         r.pending = Nothing, NEW q \in Evaluate(r, h)
  PROVE  /\ Kept(q, h) /\ Advances(r, q) /\ AddsOne(r, q, root)
         /\ ~q.missed /\ Ready(r, h) => Ready(q, h) /\ Len(Recorded(q)) = Len(Recorded(r)) + 1
<1> DEFINE k == NextOffset(r)
           captured == Charge(r, "CAPTURE", k)
           evaluated == Charge(captured, "EVALUATION", k)
<1>0. r \in Record(h)
  BY DEF Kept
<1>1. /\ r.coverage \in Seq(Observation) /\ Len(r.coverage) \in Nat
      /\ Recorded(r) = r.coverage /\ k = Len(r.coverage) + 1
      /\ \A p \in Phases : DOMAIN r.pool[p] = 1 .. h
  BY <1>0, RecordFields DEF Recorded, NextOffset
<1>2. /\ k \in 1 .. h
      /\ Kept(captured, h) /\ ButForPool(r, captured)
      /\ captured.pool["CAPTURE"][k] = "CONSUMED"
      /\ \A i \in 1 .. h : i # k => captured.pool["CAPTURE"][i] = r.pool["CAPTURE"][i]
      /\ captured.pool["EVALUATION"][k] = r.pool["EVALUATION"][k]
  <2>1. k = Len(r.coverage) + 1 /\ "CAPTURE" \in Phases /\ "EVALUATION" \in Phases
    BY <1>1 DEF Phases
  <2> HIDE DEF k
  <2>2. /\ k \in 1 .. h
        /\ Kept(captured, h) /\ ButForPool(r, captured)
        /\ captured.pool["CAPTURE"][k] = "CONSUMED"
        /\ \A p \in Phases, i \in 1 .. h : p # "CAPTURE" \/ i # k => captured.pool[p][i] = r.pool[p][i]
    BY <2>1, ChargeKept
  <2> HIDE DEF captured
  <2> QED BY <2>1, <2>2
<1>3. \A i \in 1 .. h : /\ r.pool["EVALUATION"][i] = "CONSUMED" => r.pool["CAPTURE"][i] = "CONSUMED"
                        /\ r.pool["CAPTURE"][i] \in {"RESERVED", "CONSUMED"}
                        /\ r.pool["EVALUATION"][i] \in {"RESERVED", "CONSUMED"}
  <2>1. Pays(r, h)
    BY DEF Kept
  <2>2. \A p \in Phases, i \in 1 .. h : r.pool[p][i] \in {"RESERVED", "CONSUMED", "RETIRED"}
    BY <1>0 DEF Record
  <2> QED BY <2>1, <2>2 DEF Pays, Phases
<1>4. /\ captured.live /\ captured.status = "PENDING" /\ captured.pending = Nothing
      /\ captured.coverage = r.coverage /\ captured.origin = r.origin /\ Recorded(captured) = r.coverage
      /\ captured.missed <=> r.missed
  BY <1>1, <1>2 DEF ButForPool
<1>5. /\ Kept(evaluated, h) /\ ButForPool(captured, evaluated)
      /\ evaluated.pool["EVALUATION"][k] = "CONSUMED"
      /\ \A i \in 1 .. h : evaluated.pool["CAPTURE"][i] = captured.pool["CAPTURE"][i]
  <2>1. k = Len(captured.coverage) + 1 /\ "CAPTURE" \in Phases /\ "EVALUATION" \in Phases
    BY <1>1, <1>4 DEF Phases
  <2> HIDE DEF k, captured
  <2>2. /\ Kept(evaluated, h) /\ ButForPool(captured, evaluated)
        /\ evaluated.pool["EVALUATION"][k] = "CONSUMED"
        /\ \A p \in Phases, i \in 1 .. h : p # "EVALUATION" \/ i # k =>
             evaluated.pool[p][i] = captured.pool[p][i]
    BY <1>2, <1>4, <2>1, ChargeKept
  <2> HIDE DEF evaluated
  <2> QED BY <2>1, <2>2
<1>6. /\ evaluated.live /\ evaluated.status = "PENDING" /\ evaluated.pending = Nothing
      /\ evaluated.coverage = r.coverage /\ evaluated.origin = r.origin /\ Recorded(evaluated) = r.coverage
      /\ evaluated.missed <=> r.missed
  BY <1>4, <1>5 DEF ButForPool
<1>7. Spendable(r, "CAPTURE", k) => Spendable(captured, "EVALUATION", k)
  <2>1. captured \in Record(h)
    BY <1>2 DEF Kept
  <2>2. DOMAIN captured.pool["EVALUATION"] = 1 .. h
    BY <2>1, RecordFields DEF Phases
  <2> HIDE DEF captured, k
  <2> QED BY <1>2, <1>3, <2>2 DEF Spendable
<1>8. Ready(r, h) => Spendable(r, "CAPTURE", k)
  <2>1. DOMAIN r.pool["CAPTURE"] = 1 .. h
    BY <1>1 DEF Phases
  <2> QED BY <1>1, <1>2, <1>3, <2>1 DEF Ready, Spendable
<1>9. \/ q = r /\ ~Spendable(r, "CAPTURE", k)
      \/ q = Missing(captured) \/ q = Missing(evaluated)
      \/ \E c \in Observation : c.root = root /\ q \in Publish(Prepared(evaluated, h, c))
  <2>1. \A c \in Observations : c \in Observation /\ c.root = root
    BY DEF Observations, Observation, Captures
  <2> HIDE DEF k, captured, evaluated
  <2>2. Evaluate(r, h) =
          IF ~Spendable(r, "CAPTURE", k) THEN {r}
          ELSE (IF "escape" \in Faults THEN {Missing(captured), Missing(evaluated)} ELSE {})
               \cup (IF ~Spendable(captured, "EVALUATION", k) THEN {captured}
                     ELSE UNION {Publish(Prepared(evaluated, h, c)) :
                                   c \in {c \in Observations : c.matched => c.state = "CAPTURED"}})
    BY DEF Evaluate, k, captured, evaluated
  <2> QED BY <1>7, <2>1, <2>2
<1> HIDE DEF k, captured, evaluated
<1>10. CASE q = r /\ ~Spendable(r, "CAPTURE", k)
  <2>1. Begins(r.coverage, r.coverage)
    BY <1>1 DEF Begins
  <2>2. Advances(r, q)
    BY <1>1, <1>10, <2>1 DEF Advances
  <2>3. AddsOne(r, q, root)
    BY <1>1, <1>10 DEF AddsOne
  <2> QED BY <1>8, <1>10, <2>2, <2>3
<1>11. ASSUME NEW p, p \in {captured, evaluated}, q = Missing(p)
       PROVE  Kept(q, h) /\ Advances(r, q) /\ AddsOne(r, q, root) /\ q.missed
  <2>1. /\ Kept(p, h) /\ p.live /\ p.status = "PENDING" /\ p.origin = r.origin
        /\ p.coverage = r.coverage /\ Recorded(p) = r.coverage
    BY <1>2, <1>4, <1>5, <1>6, <1>11
  <2>2. p \in Record(h)
    BY <2>1 DEF Kept
  <2>3. /\ q.missed /\ q.live /\ q.status = "PENDING" /\ q.origin = r.origin
        /\ q.coverage = r.coverage /\ Recorded(q) = r.coverage
    BY <1>11, <2>1, <2>2, MissingFields
  <2>4. Begins(r.coverage, r.coverage)
    BY <1>1 DEF Begins
  <2>5. Advances(r, q)
    BY <1>1, <2>3, <2>4 DEF Advances
  <2>6. AddsOne(r, q, root)
    BY <1>1, <2>3 DEF AddsOne
  <2> QED BY <1>11, <2>1, <2>3, <2>5, <2>6, MissingKept
<1>12. ASSUME NEW c \in Observation, c.root = root, q \in Publish(Prepared(evaluated, h, c))
       PROVE  /\ Kept(q, h) /\ Advances(r, q) /\ AddsOne(r, q, root)
              /\ Ready(r, h) => Ready(q, h) /\ Len(Recorded(q)) = Len(Recorded(r)) + 1
  <2> DEFINE p == Prepared(evaluated, h, c)
  <2>1. evaluated.pool["EVALUATION"][Len(evaluated.coverage) + 1] = "CONSUMED"
    BY <1>1, <1>5, <1>6
  <2>2. /\ Kept(p, h) /\ p.pending # Nothing
        /\ p.status = "PENDING" /\ p.live /\ p.origin = r.origin /\ p.coverage = r.coverage
        /\ (p.missed <=> r.missed) /\ p.pool = evaluated.pool
        /\ Recorded(p) = Append(r.coverage, c)
    <3>1. /\ Kept(p, h) /\ p.pending # Nothing
          /\ p.status = evaluated.status /\ (p.live <=> evaluated.live) /\ p.origin = evaluated.origin
          /\ p.coverage = evaluated.coverage /\ (p.missed <=> evaluated.missed) /\ p.pool = evaluated.pool
          /\ Recorded(p) = Append(evaluated.coverage, c)
      BY <1>5, <1>6, <2>1, PreparedKept, SMTT(60)
    <3> HIDE DEF p
    <3> QED BY <1>5, <1>6, <3>1
  <2>3. /\ Kept(q, h) /\ Advances(p, q) /\ Recorded(q) = Recorded(p) /\ SameSpent(p, q)
        /\ (q.missed <=> p.missed)
    BY <1>12, <2>2, PublishKept
  <2> HIDE DEF p
  <2>4. /\ Recorded(q) = Append(r.coverage, c) /\ Len(Append(r.coverage, c)) = Len(r.coverage) + 1
        /\ \A i \in 1 .. Len(r.coverage) : Append(r.coverage, c)[i] = r.coverage[i]
        /\ Append(r.coverage, c)[Len(r.coverage) + 1] = c
    BY <1>1, <2>2, <2>3
  <2>5. AddsOne(r, q, root)
    BY <1>1, <1>12, <2>4 DEF AddsOne
  <2>6. Advances(r, q)
    <3>1. Begins(Recorded(r), Recorded(q))
      BY <1>1, <2>4 DEF Begins
    <3>2. Begins(r.coverage, q.coverage) /\ q.origin = r.origin
      BY <2>2, <2>3 DEF Advances
    <3> QED BY <2>2, <2>3, <3>1, <3>2 DEF Advances
  <2>7. ASSUME Ready(r, h) PROVE Ready(q, h)
    <3>1. q \in Record(h) /\ p \in Record(h)
      BY <2>2, <2>3 DEF Kept
    <3>2. DOMAIN q.pool["CAPTURE"] = 1 .. h /\ DOMAIN p.pool["CAPTURE"] = 1 .. h
      BY <3>1, RecordFields DEF Phases
    <3>3. \A i \in 1 .. h : q.pool["CAPTURE"][i] = "CONSUMED" => p.pool["CAPTURE"][i] = "CONSUMED"
      <4>1. SpentAt(q, "CAPTURE") = SpentAt(p, "CAPTURE")
        BY <2>3 DEF SameSpent, Phases
      <4> QED BY <3>2, <4>1 DEF SpentAt
    <3>4. \A i \in 1 .. h : i # k /\ q.pool["CAPTURE"][i] = "CONSUMED" => i <= Len(r.coverage)
      BY <1>1, <1>2, <1>5, <2>2, <2>7, <3>3 DEF Ready
    <3> QED BY <1>1, <2>4, <3>4 DEF Ready
  <2> QED BY <1>1, <2>3, <2>4, <2>5, <2>6, <2>7
<1> QED BY <1>9, <1>10, <1>11, <1>12

(* A delivery: a result that waited is published before the occurrence is  *)
(* looked at; if that fails the occurrence is missed.                      *)
LEMMA EvaluateEventKept ==
  ASSUME root \in Nat, NEW h \in Nat, NEW r, Kept(r, h), r.live, r.status = "PENDING",
         NEW q \in EvaluateEvent(r, h)
  PROVE  /\ Kept(q, h) /\ Advances(r, q) /\ AddsOne(r, q, root)
         /\ ~q.missed /\ q.status = "PENDING" /\ Ready(r, h) =>
              Ready(q, h) /\ Len(Recorded(q)) = Len(Recorded(r)) + 1
<1>0. r \in Record(h)
  BY DEF Kept
<1>1. /\ Recorded(r) \in Seq(Observation) /\ Len(Recorded(r)) \in Nat
      /\ r.coverage \in Seq(Observation)
  BY <1>0, RecordFields
<1>2. CASE r.pending = Nothing
  <2>1. q \in Evaluate(r, h)
    BY <1>2 DEF EvaluateEvent
  <2> QED BY <1>2, <2>1, EvaluateKept
<1>3. CASE r.pending # Nothing
  <2>1. PICK p \in Publish(r) :
          \/ p.pending # Nothing /\ q = Missing(p)
          \/ p.pending = Nothing /\ p.status = "PENDING" /\ q \in Evaluate(p, h)
          \/ p.pending = Nothing /\ p.status # "PENDING" /\ q = p
    BY <1>3 DEF EvaluateEvent
  <2>2. /\ Kept(p, h) /\ Advances(r, p) /\ Recorded(p) = Recorded(r) /\ SameSpent(r, p)
        /\ (p.missed <=> r.missed)
        /\ p.status = "PENDING" => p.live /\ p.pool = r.pool
        /\ p.pending # Nothing => p = r
    BY <1>3, PublishKept
  <2>3. p \in Record(h)
    BY <2>2 DEF Kept
  <2>4. \A v \in Seq(Observation) : Begins(v, v)
    BY LenProperties DEF Begins
  <2>5. CASE p.pending # Nothing /\ q = Missing(p)
    <3>1. /\ q.missed /\ q.status = r.status /\ (q.live <=> r.live) /\ q.origin = r.origin
          /\ q.coverage = r.coverage /\ Recorded(q) = Recorded(r)
      BY <2>2, <2>5, <1>0, MissingFields
    <3>2. Kept(q, h)
      BY <2>2, <2>5, MissingKept
    <3>3. Advances(r, q)
      BY <1>1, <2>4, <3>1 DEF Advances
    <3>4. AddsOne(r, q, root)
      BY <1>1, <3>1 DEF AddsOne
    <3> QED BY <3>1, <3>2, <3>3, <3>4
  <2>6. CASE p.pending = Nothing /\ p.status = "PENDING" /\ q \in Evaluate(p, h)
    <3>1. p.live /\ p.pool = r.pool
      BY <2>2, <2>6
    <3>2. /\ Kept(q, h) /\ Advances(p, q) /\ AddsOne(p, q, root)
          /\ ~q.missed /\ Ready(p, h) => Ready(q, h) /\ Len(Recorded(q)) = Len(Recorded(p)) + 1
      BY <2>2, <2>6, <3>1, EvaluateKept
    <3>3. AddsOne(r, q, root)
      BY <2>2, <3>2 DEF AddsOne
    <3>4. Ready(r, h) => Ready(p, h)
      BY <2>2, <3>1 DEF Ready
    <3>5. Advances(r, q)
      <4>1. q \in Record(h)
        BY <3>2 DEF Kept
      <4>2. q.coverage \in Seq(Observation) /\ p.coverage \in Seq(Observation)
        BY <2>3, <4>1, RecordFields
      <4>3. Begins(r.coverage, p.coverage) /\ Begins(p.coverage, q.coverage)
        BY <2>2, <3>2 DEF Advances
      <4>4. Begins(r.coverage, q.coverage)
        BY <1>1, <4>2, <4>3, BeginsTwice
      <4>5. q.live \/ q.status \in Verdicts => Begins(Recorded(r), Recorded(q))
        BY <2>2, <3>2 DEF Advances
      <4>6. q.origin = r.origin /\ (q.live => r.live) /\ (r.missed => q.missed)
        BY <2>2, <3>2 DEF Advances
      <4> QED BY <4>4, <4>5, <4>6 DEF Advances
    <3> QED BY <2>2, <3>2, <3>3, <3>4, <3>5
  <2>7. CASE p.pending = Nothing /\ p.status # "PENDING" /\ q = p
    <3>1. AddsOne(r, q, root)
      BY <1>1, <2>2, <2>7 DEF AddsOne
    <3> QED BY <2>2, <2>7, <3>1
  <2> QED BY <2>1, <2>5, <2>6, <2>7
<1> QED BY <1>2, <1>3

-----------------------------------------------------------------------------
(* What every step but a delivery does to a record: nothing new is         *)
(* recorded, and a forecast that goes on as if nothing had happened lost   *)
(* nothing and spent nothing.                                              *)
Narrows(r, q, h) ==
  /\ Kept(q, h) /\ Advances(r, q) /\ Begins(Recorded(q), Recorded(r))
  /\ q.live /\ q.status = "PENDING" /\ ~q.missed =>
       /\ r.live /\ r.status = "PENDING" /\ ~r.missed
       /\ Recorded(q) = Recorded(r) /\ q.pool = r.pool

LEMMA NarrowsSame ==
  ASSUME NEW h \in Nat, NEW r, Kept(r, h)
  PROVE  Narrows(r, r, h)
<1>1. r \in Record(h)
  BY DEF Kept
<1>2. /\ Recorded(r) \in Seq(Observation) /\ Len(Recorded(r)) \in Nat
      /\ r.coverage \in Seq(Observation) /\ Len(r.coverage) \in Nat
  BY <1>1, RecordFields
<1>3. Begins(Recorded(r), Recorded(r)) /\ Begins(r.coverage, r.coverage)
  BY <1>2 DEF Begins
<1> QED BY <1>3 DEF Narrows, Advances, SameSpent

LEMMA NarrowsMissing ==
  ASSUME NEW h \in Nat, NEW r, Kept(r, h)
  PROVE  Narrows(r, Missing(r), h)
<1>1. r \in Record(h)
  BY DEF Kept
<1>2. /\ Missing(r).missed /\ Missing(r).status = r.status /\ (Missing(r).live <=> r.live)
      /\ Missing(r).origin = r.origin /\ Missing(r).coverage = r.coverage
      /\ Missing(r).pool = r.pool /\ Recorded(Missing(r)) = Recorded(r)
  BY <1>1, MissingFields
<1>3. Narrows(r, r, h)
  BY NarrowsSame
<1>4. Kept(Missing(r), h)
  BY MissingKept
<1> QED BY <1>2, <1>3, <1>4 DEF Narrows, Advances, SameSpent, SpentAt

LEMMA NarrowsRetired ==
  ASSUME NEW h \in Nat, NEW r, Kept(r, h), NEW status \in Ends
  PROVE  Narrows(r, Retired(r, status), h) /\ ~Retired(r, status).live
         /\ Retired(r, status).status # "PENDING"
<1>1. /\ Kept(Retired(r, status), h)
      /\ Advances(r, Retired(r, status))
      /\ Begins(Recorded(Retired(r, status)), Recorded(r))
      /\ ~Retired(r, status).live /\ Retired(r, status).status = Final(r, status)
  BY RetiredKept
<1> QED BY <1>1 DEF Narrows, Final, Ends

LEMMA NarrowsPublish ==
  ASSUME NEW h \in Nat, NEW r, Kept(r, h), r.pending # Nothing, NEW q \in Publish(r)
  PROVE  Narrows(r, q, h)
<1>1. /\ Kept(q, h) /\ Advances(r, q) /\ Recorded(q) = Recorded(r) /\ SameSpent(r, q)
      /\ (q.missed <=> r.missed)
      /\ q.status = "PENDING" => q.live /\ q.pool = r.pool
  BY PublishKept
<1>2. r.live /\ r.status = "PENDING" /\ r \in Record(h)
  BY DEF Kept, Waits
<1>3. Begins(Recorded(q), Recorded(r))
  BY <1>1, <1>2, RecordFields DEF Begins
<1> QED BY <1>1, <1>2, <1>3 DEF Narrows

-----------------------------------------------------------------------------
(* A record that was narrowed is still fine: if nothing was due to it or   *)
(* still is, or if it needs not be complete any more.                      *)
LEMMA NarrowFine ==
  ASSUME Typed, NEW f \in Forecasts, Fine(f), forecast[f] # Unsealed,
         Narrows(forecast[f], forecast'[f], Horizon[f]), root' = root, IsStale(f) => IsStale(f)',
         \/ f \in event'.due <=> f \in event.due
         \/ f \notin event'.due /\ (IsStale(f)' \/ forecast'[f].status # "PENDING" \/ forecast'[f].missed)
  PROVE  Fine(f)'
<1> DEFINE r == forecast[f]
           q == forecast'[f]
           h == Horizon[f]
<1>1. Kept(r, h) /\ Dates(f) /\ Complete(f) /\ h \in Nat /\ root \in Nat
  BY ForecastAssumption DEF Fine, Typed
<1>2. Kept(q, h) /\ q.origin = r.origin /\ Begins(Recorded(q), Recorded(r))
  BY DEF Narrows, Advances
<1>3. r \in Record(h) /\ q \in Record(h)
  BY <1>1, <1>2 DEF Kept
<1>4. /\ Len(Recorded(r)) \in Nat /\ Len(Recorded(q)) \in Nat /\ r.origin \in Nat
      /\ DOMAIN Recorded(r) = 1 .. Len(Recorded(r)) /\ DOMAIN Recorded(q) = 1 .. Len(Recorded(q))
  <2>1. r.origin \in Nat
    BY <1>3 DEF Record
  <2> QED BY <1>1, <1>3, <2>1, RecordFields
<1>5. f \in event'.due => f \in event.due
  OBVIOUS
<1>6. Dates(f)'
  <2>1. \A k \in DOMAIN Recorded(q) : k \in DOMAIN Recorded(r) /\ Recorded(q)[k] = Recorded(r)[k]
    BY <1>2, <1>4 DEF Begins
  <2>2. /\ r.origin <= root
        /\ f \in event.due => r.origin < root
        /\ \A k \in DOMAIN Recorded(r) :
             /\ r.origin < Recorded(r)[k].root /\ Recorded(r)[k].root <= root
             /\ f \in event.due => Recorded(r)[k].root < root
        /\ \A j, k \in DOMAIN Recorded(r) : j < k => Recorded(r)[j].root < Recorded(r)[k].root
    BY <1>1 DEF Dates
  <2>3. /\ q.origin <= root'
        /\ f \in event'.due => q.origin < root'
        /\ \A k \in DOMAIN Recorded(q) :
             /\ q.origin < Recorded(q)[k].root /\ Recorded(q)[k].root <= root'
             /\ f \in event'.due => Recorded(q)[k].root < root'
        /\ \A j, k \in DOMAIN Recorded(q) : j < k => Recorded(q)[j].root < Recorded(q)[k].root
    BY <1>2, <1>5, <2>1, <2>2
  <2> QED BY <2>3 DEF Dates
<1>7. Complete(f)'
  <2> SUFFICES ASSUME q.live, q.status = "PENDING", ~IsStale(f)', ~q.missed
               PROVE  /\ Len(Recorded(q)) = root' - q.origin - (IF f \in event'.due THEN 1 ELSE 0)
                      /\ \A k \in 1 .. h : q.pool["CAPTURE"][k] = "CONSUMED" => k <= Len(Recorded(q))
    BY DEF Complete
  <2>1. /\ r.live /\ r.status = "PENDING" /\ ~r.missed
        /\ Recorded(q) = Recorded(r) /\ q.pool = r.pool
    BY DEF Narrows
  <2>2. f \in event'.due <=> f \in event.due
    OBVIOUS
  <2>3. /\ Len(Recorded(r)) = root - r.origin - (IF f \in event.due THEN 1 ELSE 0)
        /\ \A k \in 1 .. h : r.pool["CAPTURE"][k] = "CONSUMED" => k <= Len(Recorded(r))
    BY <1>1, <2>1 DEF Complete
  <2> QED BY <1>2, <2>1, <2>2, <2>3
<1> QED BY <1>2, <1>6, <1>7 DEF Fine

(* A delivery brings a record up to the occurrence.                        *)
LEMMA EvaluatedFine ==
  ASSUME Typed, NEW f \in event.due, f \in Forecasts, Fine(f), ~IsStale(f), forecast[f].status = "PENDING",
         forecast'[f] \in EvaluateEvent(forecast[f], Horizon[f]),
         root' = root, f \notin event'.due
  PROVE  Fine(f)' /\ Kept(forecast'[f], Horizon[f]) /\ Advances(forecast[f], forecast'[f])
<1> DEFINE r == forecast[f]
           q == forecast'[f]
           h == Horizon[f]
<1>1. Kept(r, h) /\ Dates(f) /\ Complete(f) /\ h \in Nat /\ root \in Nat /\ r.live
  <2>1. r # Unsealed
    BY DEF Unsealed
  <2> QED BY <2>1, ForecastAssumption DEF Fine, Typed, Live
<1>2. /\ Kept(q, h) /\ Advances(r, q) /\ AddsOne(r, q, root)
      /\ ~q.missed /\ q.status = "PENDING" /\ Ready(r, h) =>
           Ready(q, h) /\ Len(Recorded(q)) = Len(Recorded(r)) + 1
  <2> HIDE DEF q, r, h
  <2> QED BY <1>1, EvaluateEventKept DEF q, r, h
<1>3. r \in Record(h) /\ q \in Record(h)
  BY <1>1, <1>2 DEF Kept
<1>4. /\ Len(Recorded(r)) \in Nat /\ Len(Recorded(q)) \in Nat /\ r.origin \in Nat
      /\ DOMAIN Recorded(r) = 1 .. Len(Recorded(r)) /\ DOMAIN Recorded(q) = 1 .. Len(Recorded(q))
  <2>1. r.origin \in Nat
    BY <1>3 DEF Record
  <2> QED BY <1>1, <1>3, <2>1, RecordFields
<1>5. q.origin = r.origin /\ (q.live => r.live) /\ (~q.missed => ~r.missed)
  BY <1>2 DEF Advances
<1>6. Dates(f)'
  <2>1. \A k \in DOMAIN Recorded(q) :
          \/ k \in DOMAIN Recorded(r) /\ Recorded(q)[k] = Recorded(r)[k]
          \/ k = Len(Recorded(r)) + 1 /\ Recorded(q)[k].root = root
    BY <1>2, <1>4 DEF AddsOne
  <2>2. /\ r.origin < root
        /\ \A k \in DOMAIN Recorded(r) :
             r.origin < Recorded(r)[k].root /\ Recorded(r)[k].root < root
        /\ \A j, k \in DOMAIN Recorded(r) : j < k => Recorded(r)[j].root < Recorded(r)[k].root
    BY <1>1 DEF Dates
  <2>3. \A k \in DOMAIN Recorded(r) : Recorded(r)[k].root \in Nat
    <3>1. Recorded(r) \in Seq(Observation)
      BY <1>1, <1>3, RecordFields
    <3>2. \A k \in DOMAIN Recorded(r) : Recorded(r)[k] \in Observation
      BY <1>4, <3>1, ElementOfSeq
    <3> QED BY <3>2 DEF Observation
  <2>4. \A k \in DOMAIN Recorded(q) :
          q.origin < Recorded(q)[k].root /\ Recorded(q)[k].root <= root'
    BY <1>1, <1>5, <2>1, <2>2, <2>3
  <2>5. ASSUME NEW j \in DOMAIN Recorded(q), NEW k \in DOMAIN Recorded(q), j < k
        PROVE  Recorded(q)[j].root < Recorded(q)[k].root
    <3>1. j \in DOMAIN Recorded(r) /\ Recorded(q)[j] = Recorded(r)[j]
      BY <1>4, <2>1, <2>5
    <3>2. CASE k \in DOMAIN Recorded(r) /\ Recorded(q)[k] = Recorded(r)[k]
      BY <2>2, <2>5, <3>1, <3>2
    <3>3. CASE Recorded(q)[k].root = root
      BY <2>2, <3>1, <3>3
    <3> QED BY <2>1, <3>2, <3>3
  <2>6. q.origin <= root'
    BY <1>1, <1>4, <1>5, <2>2
  <2> QED BY <2>4, <2>5, <2>6 DEF Dates
<1>7. Complete(f)'
  <2> SUFFICES ASSUME q.live, q.status = "PENDING", ~q.missed
               PROVE  /\ Len(Recorded(q)) = root' - q.origin - (IF f \in event'.due THEN 1 ELSE 0)
                      /\ \A k \in 1 .. h : q.pool["CAPTURE"][k] = "CONSUMED" => k <= Len(Recorded(q))
    BY DEF Complete
  <2>1. Len(Recorded(r)) = root - r.origin - 1 /\ Ready(r, h)
    BY <1>1, <1>5 DEF Complete, Ready
  <2>2. Ready(q, h) /\ Len(Recorded(q)) = Len(Recorded(r)) + 1
    BY <1>2, <2>1
  <2> QED BY <1>1, <1>4, <1>5, <2>1, <2>2 DEF Ready
<1> QED BY <1>2, <1>6, <1>7 DEF Fine

-----------------------------------------------------------------------------
(* Every sealed forecast advances.                                         *)
Moves == \A f \in Sealed : Advances(forecast[f], forecast'[f])

LEMMA SealedAreRecords ==
  ASSUME NEW f \in Forecasts, Fine(f)
  PROVE  /\ f \in Sealed <=> forecast[f] # Unsealed
         /\ f \in Sealed => /\ Horizon[f] \in Nat /\ Kept(forecast[f], Horizon[f])
                            /\ forecast[f] \in Record(Horizon[f])
<1>1. Horizon[f] \in Nat
  BY ForecastAssumption
<1>2. forecast[f] # Unsealed => Kept(forecast[f], Horizon[f]) /\ forecast[f] \in Record(Horizon[f])
  BY DEF Fine, Kept
<1>3. forecast[f] # Unsealed => forecast[f].status # "UNSEALED"
  BY <1>2 DEF Record, Verdicts
<1>4. forecast[f] = Unsealed => forecast[f].status = "UNSEALED"
  BY DEF Unsealed
<1> QED BY <1>1, <1>2, <1>3, <1>4 DEF Sealed

(* The ledger and the seals are one matter, the records another.           *)
LEMMA StepKeeps ==
  ASSUME Inductive, forecast' = [f \in Forecasts |-> forecast'[f]], ledger' = ledger,
         event' = [boundary |-> event'.boundary, due |-> event'.due],
         event'.boundary \in BOOLEAN, event'.due \subseteq Live', event'.boundary => event'.due \subseteq cut',
         root' \in Nat,
         \A f \in Forecasts : forecast[f] = Unsealed => forecast'[f] = Unsealed,
         \A f \in Forecasts : forecast[f] # Unsealed =>
            Fine(f)' /\ Kept(forecast'[f], Horizon[f]) /\ Advances(forecast[f], forecast'[f])
  PROVE  Inductive' /\ Moves
<1>1. \A f \in Forecasts : Fine(f)
  BY DEF Inductive
<1>2. \A f \in Forecasts : Fine(f)'
  BY DEF Fine
<1>3. Sealed' = Sealed
  <2> SUFFICES ASSUME NEW f \in Forecasts
               PROVE  forecast'[f].status = "UNSEALED" <=> forecast[f].status = "UNSEALED"
    BY DEF Sealed
  <2>1. CASE forecast[f] = Unsealed
    BY <2>1
  <2>2. CASE forecast[f] # Unsealed
    <3>1. forecast'[f] \in Record(Horizon[f])
      BY <2>2 DEF Kept
    <3>2. forecast'[f].status # "UNSEALED"
      BY <3>1 DEF Record, Verdicts
    <3>3. forecast[f].status # "UNSEALED"
      BY <1>1, <2>2, SealedAreRecords DEF Sealed
    <3> QED BY <3>2, <3>3
  <2> QED BY <2>1, <2>2
<1>4. Typed'
  BY DEF Typed
<1>5. Escrowed'
  <2>1. Escrowed
    BY DEF Inductive
  <2> QED BY <1>3, <2>1 DEF Escrowed, Pooled, LedgerOK, Owns
<1>6. Moves
  BY <1>1, SealedAreRecords DEF Moves, Sealed
<1> QED BY <1>2, <1>4, <1>5, <1>6 DEF Inductive

(* Between events a step that only narrows is harmless.                    *)
LEMMA QuietKeeps ==
  ASSUME Inductive, Quiet, forecast' = [f \in Forecasts |-> forecast'[f]],
         ledger' = ledger, event' = event, root' = root, cut' = cut, broken' = broken,
         \A f \in Forecasts : forecast[f] = Unsealed => forecast'[f] = Unsealed,
         \A f \in Forecasts : forecast[f] # Unsealed => Narrows(forecast[f], forecast'[f], Horizon[f])
  PROVE  Inductive' /\ Moves
<1>1. Typed /\ \A f \in Forecasts : Fine(f)
  BY DEF Inductive
<1>2. event'.due = {} /\ event' = [boundary |-> event'.boundary, due |-> event'.due]
      /\ event'.boundary \in BOOLEAN /\ root' \in Nat
  BY <1>1 DEF Quiet, Typed
<1>3. ASSUME NEW f \in Forecasts, forecast[f] # Unsealed
      PROVE  Fine(f)' /\ Kept(forecast'[f], Horizon[f]) /\ Advances(forecast[f], forecast'[f])
  <2>1. IsStale(f) => IsStale(f)'
    BY DEF IsStale
  <2> QED BY <1>1, <1>3, <2>1, NarrowFine DEF Narrows
<1> QED BY <1>2, <1>3, StepKeeps

LEMMA OneKeeps ==
  ASSUME Inductive, Quiet, NEW f \in Sealed, NEW r, Narrows(forecast[f], r, Horizon[f]),
         forecast' = [forecast EXCEPT ![f] = r],
         ledger' = ledger, event' = event, root' = root, cut' = cut, broken' = broken
  PROVE  Inductive' /\ Moves
<1>1. Typed /\ f \in Forecasts /\ \A g \in Forecasts : Fine(g)
  BY DEF Inductive, Sealed
<1>2. forecast = [g \in Forecasts |-> forecast[g]]
  BY <1>1 DEF Typed
<1>3. /\ forecast' = [g \in Forecasts |-> forecast'[g]]
      /\ forecast'[f] = r /\ \A g \in Forecasts : g # f => forecast'[g] = forecast[g]
  BY <1>1, <1>2
<1>4. \A g \in Forecasts : forecast[g] = Unsealed => forecast'[g] = Unsealed
  BY <1>3 DEF Unsealed, Sealed
<1>5. \A g \in Forecasts : forecast[g] # Unsealed => Narrows(forecast[g], forecast'[g], Horizon[g])
  BY <1>1, <1>3, SealedAreRecords, NarrowsSame
<1> QED BY <1>3, <1>4, <1>5, QuietKeeps

(* Whatever retire does, a failure to clean up included.                   *)
LEMMA NarrowsRetire ==
  ASSUME NEW h \in Nat, NEW r, Kept(r, h), NEW status \in Ends, NEW q \in Retire(r, status)
  PROVE  /\ Narrows(r, q, h)
         /\ q = r \/ (~q.live /\ q.status # "PENDING")
<1>1. q = r \/ q = Retired(r, status)
  BY DEF Retire
<1> QED BY <1>1, NarrowsSame, NarrowsRetired

LEMMA CancelKeeps ==
  ASSUME Inductive, NEW f \in Forecasts, Cancel(f)
  PROVE  Inductive' /\ Moves
<1>1. PICK r \in Retire(forecast[f], "CANCELLED") : forecast' = [forecast EXCEPT ![f] = r]
  BY DEF Cancel
<1>2. /\ Quiet /\ f \in Sealed
      /\ UNCHANGED <<closing, ledger, root, broken, cut, event>>
  BY DEF Cancel, Sealed
<1>3. Kept(forecast[f], Horizon[f]) /\ Horizon[f] \in Nat
  BY <1>2, SealedAreRecords DEF Inductive
<1>4. Narrows(forecast[f], r, Horizon[f])
  BY <1>1, <1>3, NarrowsRetire DEF Ends
<1> QED BY <1>1, <1>2, <1>4, OneKeeps

LEMMA RetryKeeps ==
  ASSUME Inductive, NEW f \in Forecasts, RetryPublication(f)
  PROVE  Inductive' /\ Moves
<1>1. PICK r \in IF IsStale(f) THEN Retire(forecast[f], Staleness(f))
                 ELSE IF forecast[f].pending = Nothing THEN {forecast[f]} ELSE Publish(forecast[f]) :
        forecast' = [forecast EXCEPT ![f] = r]
  BY DEF RetryPublication
<1>2. /\ Quiet /\ f \in Sealed
      /\ UNCHANGED <<closing, ledger, root, broken, cut, event>>
  BY DEF RetryPublication, Sealed
<1>3. Kept(forecast[f], Horizon[f]) /\ Horizon[f] \in Nat
  BY <1>2, SealedAreRecords DEF Inductive
<1>4. Narrows(forecast[f], r, Horizon[f])
  <2>1. CASE IsStale(f)
    BY <1>1, <1>3, <2>1, NarrowsRetire DEF Ends, Staleness
  <2>2. CASE ~IsStale(f) /\ forecast[f].pending = Nothing
    BY <1>1, <1>3, <2>2, NarrowsSame
  <2>3. CASE ~IsStale(f) /\ forecast[f].pending # Nothing
    BY <1>1, <1>3, <2>3, NarrowsPublish
  <2> QED BY <2>1, <2>2, <2>3
<1> QED BY <1>1, <1>2, <1>4, OneKeeps

LEMMA InvalidateKeeps ==
  ASSUME Inductive, Invalidate
  PROVE  Inductive' /\ Moves
<1>1. PICK ended \in SUBSET Live :
        forecast' = [f \in Forecasts |->
          IF f \in ended THEN Retired(forecast[f], "ENVIRONMENT_STALE") ELSE forecast[f]]
  BY DEF Invalidate
<1>2. Quiet /\ UNCHANGED <<closing, ledger, root, broken, cut, event>>
  BY DEF Invalidate
<1>3. forecast' = [f \in Forecasts |-> forecast'[f]]
  BY <1>1
<1>4. \A f \in Forecasts : forecast[f] = Unsealed => forecast'[f] = Unsealed
  BY <1>1 DEF Unsealed, Live
<1>5. ASSUME NEW f \in Forecasts, forecast[f] # Unsealed
      PROVE  Narrows(forecast[f], forecast'[f], Horizon[f])
  <2>1. Kept(forecast[f], Horizon[f]) /\ Horizon[f] \in Nat
    BY <1>5, SealedAreRecords DEF Inductive
  <2>2. forecast'[f] = forecast[f] \/ forecast'[f] = Retired(forecast[f], "ENVIRONMENT_STALE")
    BY <1>1
  <2> QED BY <2>1, <2>2, NarrowsSame, NarrowsRetired DEF Ends
<1> QED BY <1>2, <1>3, <1>4, <1>5, QuietKeeps

LEMMA DueAreLive ==
  ASSUME Typed
  PROVE  \A g \in event.due : g \in Forecasts /\ forecast[g].live /\ forecast[g] # Unsealed
<1>1. \A g \in event.due : g \in Forecasts /\ forecast[g].live
  BY DEF Typed, Live
<1>2. ~Unsealed.live
  BY DEF Unsealed
<1> QED BY <1>1, <1>2

LEMMA DeliverEndKeeps ==
  ASSUME Inductive, NEW f \in Forecasts, DeliverEnd(f)
  PROVE  Inductive' /\ Moves
<1> DEFINE end == IF event.boundary THEN "BOUNDARY_TERMINATED" ELSE Staleness(f)
<1>1. PICK r \in Retire(forecast[f], end) :
        /\ forecast' = [g \in Forecasts |->
             IF g = f THEN r
             ELSE IF r.live /\ g \in event.due THEN Missing(forecast[g]) ELSE forecast[g]]
        /\ event' = [event EXCEPT !.due = IF r.live THEN {} ELSE @ \ {f}]
  BY DEF DeliverEnd
<1>2. /\ f \in event.due
      /\ forecast[f].status # "PENDING" \/ event.boundary \/ IsStale(f)
      /\ UNCHANGED <<closing, ledger, root, broken, cut>>
  BY DEF DeliverEnd
<1>3. Typed /\ \A g \in Forecasts : Fine(g)
  BY DEF Inductive
<1>4. end \in Ends
  BY DEF Staleness, Ends
<1> HIDE DEF end
<1>5. /\ event' = [boundary |-> event'.boundary, due |-> event'.due]
      /\ event'.boundary = event.boundary
      /\ event'.due = IF r.live THEN {} ELSE event.due \ {f}
  <2>1. event = [boundary |-> event.boundary, due |-> event.due]
    BY <1>3 DEF Typed
  <2> QED BY <1>1, <2>1
<1>6. \A g \in event.due : g \in Forecasts /\ forecast[g].live /\ forecast[g] # Unsealed
  BY <1>3, DueAreLive
<1>7. Narrows(forecast[f], r, Horizon[f]) /\ (r = forecast[f] \/ (~r.live /\ r.status # "PENDING"))
  <2>1. Kept(forecast[f], Horizon[f]) /\ Horizon[f] \in Nat
    BY <1>2, <1>3, <1>6, SealedAreRecords
  <2> QED BY <1>1, <1>4, <2>1, NarrowsRetire
<1>8. /\ forecast' = [g \in Forecasts |-> forecast'[g]]
      /\ forecast'[f] = r
      /\ \A g \in Forecasts : g # f /\ r.live /\ g \in event.due => forecast'[g] = Missing(forecast[g])
      /\ \A g \in Forecasts : g # f /\ ~(r.live /\ g \in event.due) => forecast'[g] = forecast[g]
  BY <1>1
<1>9. \A g \in Forecasts : forecast[g] = Unsealed => forecast'[g] = Unsealed
  BY <1>2, <1>6, <1>8
<1>10. ASSUME NEW g \in Forecasts, forecast[g] # Unsealed
       PROVE  Fine(g)' /\ Kept(forecast'[g], Horizon[g]) /\ Advances(forecast[g], forecast'[g])
  <2>1. Kept(forecast[g], Horizon[g]) /\ Horizon[g] \in Nat
    BY <1>3, <1>10, SealedAreRecords
  <2>2. IsStale(g) => IsStale(g)'
    BY <1>2 DEF IsStale
  <2>3. CASE g = f
    <3>1. f \notin event'.due
      BY <1>5
    <3>2. IsStale(f)' \/ r.status # "PENDING"
      <4>1. CASE forecast[f].status # "PENDING"
        BY <1>7, <4>1
      <4>2. CASE event.boundary
        BY <1>2, <1>3, <4>2 DEF Typed, IsStale
      <4>3. CASE IsStale(f)
        BY <2>2, <2>3, <4>3
      <4> QED BY <1>2, <4>1, <4>2, <4>3
    <3>3. Fine(f)'
      BY <1>2, <1>3, <1>6, <1>7, <1>8, <2>2, <2>3, <3>1, <3>2, NarrowFine
    <3> QED BY <1>7, <1>8, <2>3, <3>3 DEF Narrows
  <2>4. CASE g # f /\ r.live /\ g \in event.due
    <3>1. Narrows(forecast[g], forecast'[g], Horizon[g]) /\ forecast'[g].missed
      <4>1. forecast[g] \in Record(Horizon[g])
        BY <2>1 DEF Kept
      <4> QED BY <1>8, <2>1, <2>4, <4>1, NarrowsMissing, MissingFields
    <3>2. g \notin event'.due
      BY <1>5, <2>4
    <3> QED BY <1>2, <1>3, <1>10, <2>2, <3>1, <3>2, NarrowFine DEF Narrows
  <2>5. CASE g # f /\ ~(r.live /\ g \in event.due)
    <3>1. Narrows(forecast[g], forecast'[g], Horizon[g])
      BY <1>8, <2>1, <2>5, NarrowsSame
    <3>2. g \in event'.due <=> g \in event.due
      BY <1>5, <2>5
    <3> QED BY <1>2, <1>3, <1>10, <2>2, <3>1, <3>2, NarrowFine DEF Narrows
  <2> QED BY <2>3, <2>4, <2>5
<1>11. event'.due \subseteq Live'
  <2>1. \A g \in event'.due : forecast'[g] = forecast[g] /\ g \in event.due
    BY <1>5, <1>6, <1>8
  <2> QED BY <1>6, <2>1 DEF Live
<1>12. event'.boundary \in BOOLEAN /\ (event'.boundary => event'.due \subseteq cut') /\ root' \in Nat
  BY <1>2, <1>3, <1>5 DEF Typed
<1> QED BY <1>2, <1>5, <1>8, <1>9, <1>10, <1>11, <1>12, StepKeeps

LEMMA DeliverEvaluationKeeps ==
  ASSUME Inductive, NEW f \in Forecasts, DeliverEvaluation(f)
  PROVE  Inductive' /\ Moves
<1>1. PICK r \in EvaluateEvent(forecast[f], Horizon[f]) : forecast' = [forecast EXCEPT ![f] = r]
  BY DEF DeliverEvaluation
<1>2. /\ f \in event.due /\ forecast[f].status = "PENDING" /\ ~IsStale(f)
      /\ event' = [event EXCEPT !.due = @ \ {f}]
      /\ UNCHANGED <<closing, ledger, root, broken, cut>>
  BY DEF DeliverEvaluation
<1>3. Typed /\ \A g \in Forecasts : Fine(g)
  BY DEF Inductive
<1>4. /\ event' = [boundary |-> event'.boundary, due |-> event'.due]
      /\ event'.boundary = event.boundary /\ event'.due = event.due \ {f}
  <2>1. event = [boundary |-> event.boundary, due |-> event.due]
    BY <1>3 DEF Typed
  <2> QED BY <1>2, <2>1
<1>5. /\ forecast' = [g \in Forecasts |-> forecast'[g]]
      /\ forecast'[f] = r /\ \A g \in Forecasts : g # f => forecast'[g] = forecast[g]
  <2>1. forecast = [g \in Forecasts |-> forecast[g]]
    BY <1>3 DEF Typed
  <2> QED BY <1>1, <2>1
<1>6. \A g \in event.due : g \in Forecasts /\ forecast[g].live /\ forecast[g] # Unsealed
  BY <1>3, DueAreLive
<1>7. \A g \in Forecasts : forecast[g] = Unsealed => forecast'[g] = Unsealed
  BY <1>2, <1>5, <1>6
<1>8. Fine(f)' /\ Kept(forecast'[f], Horizon[f]) /\ Advances(forecast[f], forecast'[f])
  BY <1>1, <1>2, <1>3, <1>4, <1>5, EvaluatedFine
<1>9. ASSUME NEW g \in Forecasts, g # f, forecast[g] # Unsealed
      PROVE  Fine(g)' /\ Kept(forecast'[g], Horizon[g]) /\ Advances(forecast[g], forecast'[g])
  <2>1. Kept(forecast[g], Horizon[g]) /\ Horizon[g] \in Nat
    BY <1>3, <1>9, SealedAreRecords
  <2>2. IsStale(g) => IsStale(g)'
    BY <1>2 DEF IsStale
  <2>3. Narrows(forecast[g], forecast'[g], Horizon[g])
    BY <1>5, <1>9, <2>1, NarrowsSame
  <2>4. g \in event'.due <=> g \in event.due
    BY <1>4, <1>9
  <2> QED BY <1>2, <1>3, <1>9, <2>2, <2>3, <2>4, NarrowFine DEF Narrows
<1>10. event'.due \subseteq Live'
  BY <1>4, <1>5, <1>6 DEF Live
<1>11. event'.boundary \in BOOLEAN /\ (event'.boundary => event'.due \subseteq cut') /\ root' \in Nat
  BY <1>2, <1>3, <1>4 DEF Typed
<1> QED BY <1>2, <1>4, <1>5, <1>7, <1>8, <1>9, <1>10, <1>11, StepKeeps

LEMMA CoreEventKeeps ==
  ASSUME Inductive, NEW boundary \in BOOLEAN, NEW lost \in SUBSET (Forecasts \ broken),
         CoreEvent(boundary, lost)
  PROVE  Inductive' /\ Moves
<1>1. /\ event.due = {} /\ root' = root + 1 /\ broken' = broken \cup lost
      /\ cut' = IF boundary THEN cut \cup Live ELSE cut
      /\ event' = [boundary |-> boundary, due |-> Live]
      /\ UNCHANGED <<closing, ledger, forecast>>
  BY DEF CoreEvent, Quiet
<1>2. Typed /\ \A g \in Forecasts : Fine(g)
  BY DEF Inductive
<1>3. ASSUME NEW f \in Forecasts, forecast[f] # Unsealed
      PROVE  Fine(f)' /\ Kept(forecast'[f], Horizon[f]) /\ Advances(forecast[f], forecast'[f])
  <2> DEFINE r == forecast[f]
  <2>1. Kept(r, Horizon[f]) /\ Horizon[f] \in Nat /\ Dates(f) /\ Complete(f) /\ r \in Record(Horizon[f])
    BY <1>2, <1>3, SealedAreRecords DEF Fine
  <2>2. /\ Recorded(r) \in Seq(Observation) /\ Len(Recorded(r)) \in Nat
        /\ DOMAIN Recorded(r) = 1 .. Len(Recorded(r))
        /\ r.origin \in Nat /\ root \in Nat
    <3>1. r.origin \in Nat /\ root \in Nat
      BY <1>2, <2>1 DEF Record, Typed
    <3> QED BY <2>1, <3>1, RecordFields
  <2>3. \A k \in DOMAIN Recorded(r) : Recorded(r)[k].root \in Nat
    <3>1. \A k \in DOMAIN Recorded(r) : Recorded(r)[k] \in Observation
      BY <2>2, ElementOfSeq
    <3> QED BY <3>1 DEF Observation
  <2>4. Dates(f)'
    <3>1. /\ r.origin <= root
          /\ \A k \in DOMAIN Recorded(r) :
               r.origin < Recorded(r)[k].root /\ Recorded(r)[k].root <= root
          /\ \A j, k \in DOMAIN Recorded(r) : j < k => Recorded(r)[j].root < Recorded(r)[k].root
      BY <2>1 DEF Dates
    <3>2. /\ r.origin <= root' /\ r.origin < root'
          /\ \A k \in DOMAIN Recorded(r) :
               /\ r.origin < Recorded(r)[k].root /\ Recorded(r)[k].root <= root'
               /\ Recorded(r)[k].root < root'
          /\ \A j, k \in DOMAIN Recorded(r) : j < k => Recorded(r)[j].root < Recorded(r)[k].root
      BY <1>1, <2>2, <2>3, <3>1
    <3> QED BY <1>1, <3>2 DEF Dates
  <2>5. Complete(f)'
    <3> SUFFICES ASSUME r.live, r.status = "PENDING", ~IsStale(f)', ~r.missed
                 PROVE  /\ Len(Recorded(r)) = root' - r.origin - (IF f \in event'.due THEN 1 ELSE 0)
                        /\ \A k \in 1 .. Horizon[f] : r.pool["CAPTURE"][k] = "CONSUMED" => k <= Len(Recorded(r))
      BY <1>1 DEF Complete
    <3>1. ~IsStale(f) /\ f \in event'.due
      BY <1>1 DEF IsStale, Live
    <3>2. /\ Len(Recorded(r)) = root - r.origin
          /\ \A k \in 1 .. Horizon[f] : r.pool["CAPTURE"][k] = "CONSUMED" => k <= Len(Recorded(r))
      BY <1>1, <2>1, <2>2, <3>1 DEF Complete
    <3> QED BY <1>1, <2>2, <3>1, <3>2
  <2>6. Narrows(r, r, Horizon[f])
    BY <2>1, NarrowsSame
  <2> QED BY <1>1, <2>1, <2>4, <2>5, <2>6 DEF Fine, Narrows
<1>4. forecast' = [f \in Forecasts |-> forecast'[f]]
  BY <1>1, <1>2 DEF Typed
<1>5. /\ event' = [boundary |-> event'.boundary, due |-> event'.due]
      /\ event'.boundary \in BOOLEAN /\ event'.due = Live /\ event'.boundary = boundary
  BY <1>1
<1>6. event'.due \subseteq Live' /\ (event'.boundary => event'.due \subseteq cut') /\ root' \in Nat
  BY <1>1, <1>2, <1>5 DEF Live, Typed
<1> QED BY <1>1, <1>3, <1>4, <1>5, <1>6, StepKeeps

-----------------------------------------------------------------------------
(* What the parent gave up: only a seal delegates units.                   *)
LEMMA TakeStates ==
  ASSUME NEW L, NEW n \in Nat, LedgerOK(L, n), NEW k, NEW w, NEW state
  PROVE  /\ InState(Take(L, k, w, state), state) = InState(L, state) \cup Chosen(L, k)
         /\ \A other : other # state /\ other # "AVAILABLE" =>
              InState(Take(L, k, w, state), other) = InState(L, other)
<1> DEFINE C == Chosen(L, k)
           units == Take(L, k, w, state).units
<1>1. C \subseteq DOMAIN L.units /\ \A i \in C : L.units[i].state = "AVAILABLE"
  BY ChosenAvailable
<1>2. /\ DOMAIN units = DOMAIN L.units
      /\ \A i \in DOMAIN L.units : units[i].state = IF i \in C THEN state ELSE L.units[i].state
  BY DEF Take
<1> HIDE DEF C, units
<1>3. \A s : {i \in DOMAIN units : units[i].state = s} =
             {i \in DOMAIN L.units : IF i \in C THEN state = s ELSE L.units[i].state = s}
  BY <1>2
<1>4. {i \in DOMAIN units : units[i].state = state} = InState(L, state) \cup C
  BY <1>1, <1>3 DEF InState
<1>5. \A s : s # state /\ s # "AVAILABLE" =>
         {i \in DOMAIN units : units[i].state = s} = InState(L, s)
  BY <1>1, <1>3 DEF InState
<1> QED BY <1>4, <1>5 DEF InState, units, C

LEMMA CloseParentKeeps ==
  ASSUME Inductive, CloseParent
  PROVE  Inductive' /\ Moves
<1>1. /\ ledger' = RetireUnused(ledger, 1)
      /\ UNCHANGED <<root, broken, cut, forecast, event>>
  BY DEF CloseParent
<1>2. Typed /\ Escrowed /\ \A f \in Forecasts : Fine(f)
  BY DEF Inductive
<1>3. LedgerOK(ledger', Budget) /\ Owns(ledger')
  BY <1>1, <1>2, RetireUnusedSound, ForecastAssumption DEF Escrowed, Sound
<1>4. InState(ledger', "DELEGATED_FORECAST_POOL") = InState(ledger, "DELEGATED_FORECAST_POOL")
  <2>1. /\ DOMAIN ledger'.units = DOMAIN ledger.units
        /\ \A i \in DOMAIN ledger.units : ledger'.units[i].state = "DELEGATED_FORECAST_POOL"
             <=> ledger.units[i].state = "DELEGATED_FORECAST_POOL"
    BY <1>1 DEF RetireUnused, WithUnits, Spent
  <2> QED BY <2>1 DEF InState
<1>5. Sealed' = Sealed /\ Live' = Live
  BY <1>1 DEF Sealed, Live
<1>6. Escrowed'
  BY <1>2, <1>3, <1>4, <1>5 DEF Escrowed, Pooled
<1>7. Typed'
  BY <1>1, <1>2, <1>5 DEF Typed
<1>8. \A f \in Forecasts : Fine(f)'
  BY <1>1, <1>2 DEF Fine, Dates, Complete, IsStale
<1>9. Moves
  <2> SUFFICES ASSUME NEW f \in Sealed PROVE Advances(forecast[f], forecast'[f])
    BY DEF Moves
  <2>1. f \in Forecasts
    BY DEF Sealed
  <2>2. Narrows(forecast[f], forecast[f], Horizon[f])
    BY <1>2, <2>1, SealedAreRecords, NarrowsSame
  <2> QED BY <1>1, <2>2 DEF Narrows
<1> QED BY <1>6, <1>7, <1>8, <1>9 DEF Inductive

SealedRecord(f) ==
  [status |-> "PENDING", live |-> TRUE, origin |-> root, coverage |-> <<>>,
   missed |-> FALSE, pending |-> Nothing,
   pool |-> [p \in Phases |-> [k \in 1 .. Horizon[f] |-> "RESERVED"]]]

LEMMA SealedRecordKept ==
  ASSUME NEW f \in Forecasts, root \in Nat
  PROVE  /\ Kept(SealedRecord(f), Horizon[f]) /\ SealedRecord(f).live
         /\ SealedRecord(f).origin = root /\ Recorded(SealedRecord(f)) = <<>>
         /\ SealedRecord(f).status # "UNSEALED"
         /\ \A k \in 1 .. Horizon[f] : SealedRecord(f).pool["CAPTURE"][k] # "CONSUMED"
<1> DEFINE r == SealedRecord(f)
           h == Horizon[f]
<1>1. h \in Nat /\ h > 0
  BY ForecastAssumption
<1>2. /\ r.status = "PENDING" /\ r.live /\ r.origin = root /\ r.coverage = <<>>
      /\ r.pending = Nothing /\ \A p \in Phases, k \in 1 .. h : r.pool[p][k] = "RESERVED"
  BY DEF SealedRecord
<1>3. <<>> \in Seq(Observation) /\ Len(<<>>) = 0 /\ DOMAIN <<>> = {}
  BY EmptySeq
<1>4. r \in Record(h)
  <2>1. Nothing \in [kind : {"none", "result"}, coverage : Seq(Observation), status : Verdicts \cup {"PENDING"}]
    BY <1>3 DEF Nothing
  <2>2. [p \in Phases |-> [k \in 1 .. h |-> "RESERVED"]] \in [Phases -> [1 .. h -> {"RESERVED", "CONSUMED", "RETIRED"}]]
    OBVIOUS
  <2> QED BY <1>3, <2>1, <2>2 DEF SealedRecord, Record
<1> HIDE DEF r
<1>5. Recorded(r) = <<>>
  BY <1>2 DEF Recorded
<1>6. Waits(r, h)
  BY <1>2 DEF Waits
<1>7. Pays(r, h)
  BY <1>1, <1>2, <1>3, <1>5 DEF Pays, Phases
<1>8. Tells(r.status, r.coverage, h)
  BY <1>1, <1>2, <1>3 DEF Tells, Unmatched
<1> QED BY <1>2, <1>4, <1>5, <1>6, <1>7, <1>8 DEF Kept, r, Phases

LEMMA SealKeeps ==
  ASSUME Inductive, NEW f \in Forecasts, Seal(f)
  PROVE  Inductive' /\ Moves
<1> DEFINE sealed == Take(ledger, 1, "SEAL", "CONSUMED")
           h == Horizon[f]
<1>1. /\ Quiet /\ forecast[f].status = "UNSEALED"
      /\ CanReserve(sealed, 2 * h)
      /\ ledger' = Take(sealed, 2 * h, "ForecastEscrowReservation", "DELEGATED_FORECAST_POOL")
      /\ forecast' = [forecast EXCEPT ![f] = SealedRecord(f)]
      /\ UNCHANGED <<closing, root, broken, cut, event>>
  BY DEF Seal, Delegate, SealedRecord
<1>2. /\ Typed /\ Escrowed /\ \A g \in Forecasts : Fine(g)
      /\ h \in Nat /\ h > 0 /\ Budget \in Nat /\ root \in Nat
      /\ "SEAL" \in WorkClasses /\ "ForecastEscrowReservation" \in WorkClasses
  BY ForecastAssumption DEF Inductive, Typed
<1>3. LedgerOK(ledger, Budget) /\ Owns(ledger) /\ IsFiniteSet(Pooled)
      /\ Cardinality(InState(ledger, "DELEGATED_FORECAST_POOL")) = Cardinality(Pooled)
  BY <1>2 DEF Escrowed
<1>4. /\ LedgerOK(sealed, Budget) /\ Owns(sealed)
      /\ InState(sealed, "DELEGATED_FORECAST_POOL") = InState(ledger, "DELEGATED_FORECAST_POOL")
  BY <1>2, <1>3, TakeSound, TakeStates DEF Sound
<1> HIDE DEF sealed, h
<1>5. /\ LedgerOK(ledger', Budget) /\ Owns(ledger')
      /\ InState(ledger', "DELEGATED_FORECAST_POOL")
           = InState(ledger, "DELEGATED_FORECAST_POOL") \cup Chosen(sealed, 2 * h)
  BY <1>1, <1>2, <1>4, TakeSound, TakeStates DEF Sound
<1>6. Cardinality(Chosen(sealed, 2 * h)) = 2 * h
  <2>1. 2 * h \in Nat
    BY <1>2
  <2> QED BY <1>1, <1>2, <1>4, <2>1, ChosenAreAsMany
<1>7. /\ forecast' = [g \in Forecasts |-> forecast'[g]]
      /\ forecast'[f] = SealedRecord(f) /\ \A g \in Forecasts : g # f => forecast'[g] = forecast[g]
  <2>1. forecast = [g \in Forecasts |-> forecast[g]]
    BY <1>2 DEF Typed
  <2> QED BY <1>1, <2>1
<1>8. /\ Kept(SealedRecord(f), h) /\ SealedRecord(f).live
      /\ SealedRecord(f).origin = root /\ Recorded(SealedRecord(f)) = <<>>
      /\ SealedRecord(f).status # "UNSEALED"
      /\ \A k \in 1 .. h : SealedRecord(f).pool["CAPTURE"][k] # "CONSUMED"
  BY <1>2, SealedRecordKept DEF h
<1>9. Sealed' = Sealed \cup {f} /\ f \notin Sealed
  BY <1>1, <1>7, <1>8 DEF Sealed
<1>10. Escrowed'
  <2> DEFINE D == InState(ledger, "DELEGATED_FORECAST_POOL")
             C == Chosen(sealed, 2 * h)
             T == {f} \X (1 .. 2 * h)
  <2>1. /\ IsFiniteSet(D) /\ IsFiniteSet(C) /\ D \cap C = {}
    <3>1. /\ C \subseteq DOMAIN sealed.units /\ \A i \in C : sealed.units[i].state = "AVAILABLE"
      BY ChosenAvailable
    <3>2. DOMAIN sealed.units = 0 .. Budget - 1 /\ DOMAIN ledger.units = 0 .. Budget - 1
      BY <1>3, <1>4 DEF LedgerOK
    <3>3. IsFiniteSet(0 .. Budget - 1)
      BY <1>2, FS_Interval, 0 \in Int, Budget - 1 \in Int
    <3>4. D = InState(sealed, "DELEGATED_FORECAST_POOL") /\ D \subseteq 0 .. Budget - 1
      BY <1>4, <3>2 DEF InState
    <3>5. D \cap C = {}
      BY <3>1, <3>4 DEF InState
    <3> QED BY <3>1, <3>2, <3>3, <3>4, <3>5, FS_Subset
  <2>2. Cardinality(D \cup C) = Cardinality(D) + 2 * h
    <3> HIDE DEF D, C
    <3>1. Cardinality(D \cap C) = 0 /\ Cardinality(D) \in Nat
      BY <2>1, FS_EmptySet, FS_CardinalityType
    <3>2. Cardinality(C) = 2 * h
      BY <1>6 DEF C
    <3>3. Cardinality(D \cup C) = Cardinality(D) + Cardinality(C) - Cardinality(D \cap C)
      BY <2>1, FS_Union
    <3> QED BY <1>2, <3>1, <3>2, <3>3
  <2>3. IsFiniteSet(T) /\ Cardinality(T) = 2 * h
    <3>1. 2 * h \in Nat /\ 2 * h >= 1
      BY <1>2
    <3>2. IsFiniteSet(1 .. 2 * h) /\ Cardinality(1 .. 2 * h) = 2 * h
      BY <3>1, FS_Interval, 1 \in Int
    <3>3. IsFiniteSet({f}) /\ Cardinality({f}) = 1
      BY FS_Singleton
    <3>4. IsFiniteSet(T) /\ Cardinality(T) = Cardinality({f}) * Cardinality(1 .. 2 * h)
      BY <3>2, <3>3, FS_Product
    <3> QED BY <3>1, <3>2, <3>3, <3>4
  <2>4. Pooled' = Pooled \cup T /\ Pooled \cap T = {}
    <3>1. Pooled' = UNION {{g} \X (1 .. 2 * Horizon[g]) : g \in Sealed \cup {f}}
      BY <1>9 DEF Pooled
    <3>2. UNION {{g} \X (1 .. 2 * Horizon[g]) : g \in Sealed \cup {f}} = Pooled \cup T
      BY DEF Pooled, h
    <3>3. \A x \in Pooled : x[1] \in Sealed
      BY DEF Pooled
    <3>4. \A x \in T : x[1] = f
      OBVIOUS
    <3> QED BY <1>9, <3>1, <3>2, <3>3, <3>4
  <2>5. IsFiniteSet(Pooled \cup T) /\ Cardinality(Pooled \cup T) = Cardinality(Pooled) + 2 * h
    <3> HIDE DEF T
    <3>1. Cardinality(Pooled \cap T) = 0 /\ Cardinality(Pooled) \in Nat
      BY <1>3, <2>4, FS_EmptySet, FS_CardinalityType
    <3>2. /\ IsFiniteSet(Pooled \cup T)
          /\ Cardinality(Pooled \cup T) = Cardinality(Pooled) + Cardinality(T) - Cardinality(Pooled \cap T)
      BY <1>3, <2>3, FS_Union
    <3> QED BY <1>2, <2>3, <3>1, <3>2
  <2> HIDE DEF T, D, C
  <2>6. InState(ledger', "DELEGATED_FORECAST_POOL") = D \cup C /\ Cardinality(D) = Cardinality(Pooled)
    BY <1>3, <1>5 DEF D, C
  <2> QED BY <1>5, <2>2, <2>4, <2>5, <2>6 DEF Escrowed
<1>11. Typed'
  <2>1. event.due = {}
    BY <1>1 DEF Quiet
  <2> QED BY <1>1, <1>2, <1>7, <2>1 DEF Typed
<1>12. ASSUME NEW g \in Forecasts PROVE Fine(g)'
  <2>1. CASE g = f
    <3>1. DOMAIN <<>> = {} /\ Len(<<>>) = 0
      BY EmptySeq
    <3>2. Dates(f)'
      BY <1>1, <1>2, <1>7, <1>8, <3>1 DEF Dates, Quiet
    <3>3. Complete(f)'
      BY <1>1, <1>2, <1>7, <1>8, <3>1 DEF Complete, Quiet, h
    <3> QED BY <1>7, <1>8, <2>1, <3>2, <3>3 DEF Fine, h
  <2>2. CASE g # f
    <3>1. forecast'[g] = forecast[g] /\ Fine(g)
      BY <1>2, <1>7, <2>2
    <3> QED BY <1>1, <3>1 DEF Fine, Dates, Complete, IsStale
  <2> QED BY <2>1, <2>2
<1>13. Moves
  <2> SUFFICES ASSUME NEW g \in Sealed PROVE Advances(forecast[g], forecast'[g])
    BY DEF Moves
  <2>1. g \in Forecasts /\ forecast'[g] = forecast[g]
    BY <1>7, <1>9 DEF Sealed
  <2>2. Narrows(forecast[g], forecast[g], Horizon[g])
    BY <1>2, <2>1, SealedAreRecords, NarrowsSame
  <2> QED BY <2>1, <2>2 DEF Narrows
<1> QED BY <1>10, <1>11, <1>12, <1>13 DEF Inductive

-----------------------------------------------------------------------------
(* Nothing is sealed and nothing delegated at first.                       *)
LEMMA InductiveInit == Init => Inductive
<1> SUFFICES ASSUME Init PROVE Inductive
  OBVIOUS
<1>1. /\ ledger = NewIndex(Budget) /\ root = 1
      /\ forecast = [f \in Forecasts |-> Unsealed] /\ event = [boundary |-> FALSE, due |-> {}]
  BY DEF Init
<1>2. forecast = [f \in Forecasts |-> forecast[f]]
  BY <1>1
<1>3. Typed
  BY <1>1, <1>2 DEF Typed
<1>4. Pooled = {} /\ InState(ledger, "DELEGATED_FORECAST_POOL") = {}
  <2>1. Sealed = {}
    BY <1>1 DEF Sealed, Unsealed
  <2>2. InState(ledger, "DELEGATED_FORECAST_POOL") = {}
    BY <1>1 DEF InState, NewIndex, Fresh
  <2> QED BY <2>1, <2>2 DEF Pooled
<1>5. LedgerOK(ledger, Budget) /\ Owns(ledger)
  BY <1>1, ForecastAssumption, NewIndexSound
<1>6. Escrowed
  BY <1>4, <1>5, FS_EmptySet DEF Escrowed
<1>7. \A f \in Forecasts : Fine(f)
  BY <1>1 DEF Fine
<1> QED BY <1>3, <1>6, <1>7 DEF Inductive

LEMMA StutterKeeps ==
  ASSUME Inductive, UNCHANGED vars
  PROVE  Inductive' /\ Moves
<1>1. UNCHANGED <<closing, ledger, root, broken, cut, forecast, event>>
  BY DEF vars
<1>2. Typed /\ Escrowed /\ \A f \in Forecasts : Fine(f)
  BY DEF Inductive
<1>3. Typed'
  BY <1>1, <1>2 DEF Typed, Live
<1>4. Escrowed'
  BY <1>1, <1>2 DEF Escrowed, Pooled, Sealed
<1>5. \A f \in Forecasts : Fine(f)'
  BY <1>1, <1>2 DEF Fine, Dates, Complete, IsStale
<1>6. Moves
  <2> SUFFICES ASSUME NEW f \in Sealed PROVE Advances(forecast[f], forecast'[f])
    BY DEF Moves
  <2>1. f \in Forecasts
    BY DEF Sealed
  <2>2. Narrows(forecast[f], forecast[f], Horizon[f])
    BY <1>2, <2>1, SealedAreRecords, NarrowsSame
  <2> QED BY <1>1, <2>2 DEF Narrows
<1> QED BY <1>3, <1>4, <1>5, <1>6 DEF Inductive

LEMMA InductiveNext == Inductive /\ [Next]_vars => Inductive' /\ Moves
<1> SUFFICES ASSUME Inductive, [Next]_vars PROVE Inductive' /\ Moves
  OBVIOUS
<1>1. CASE \E f \in Forecasts : Seal(f) \/ Cancel(f) \/ RetryPublication(f)
  BY <1>1, SealKeeps, CancelKeeps, RetryKeeps
<1>2. CASE \E f \in Forecasts : DeliverEnd(f) \/ DeliverEvaluation(f)
  BY <1>2, DeliverEndKeeps, DeliverEvaluationKeeps
<1>3. CASE \E boundary \in BOOLEAN, lost \in SUBSET (Forecasts \ broken) : CoreEvent(boundary, lost)
  BY <1>3, CoreEventKeeps
<1>4. CASE CloseParent \/ Invalidate
  BY <1>4, CloseParentKeeps, InvalidateKeeps
<1>5. CASE UNCHANGED vars
  BY <1>5, StutterKeeps
<1> QED BY <1>1, <1>2, <1>3, <1>4, <1>5 DEF Next

LEMMA AlwaysInductive == Spec => []Inductive
<1> QED BY InductiveInit, InductiveNext, PTL DEF Spec

(* What Kept and Tells say of a record, in the words of VerdictsAreSound.  *)
LEMMA VerdictFields ==
  ASSUME NEW h \in Nat, NEW r, Kept(r, h)
  PROVE  /\ Len(Recorded(r)) <= h
         /\ r.status = "MATCHED" => MatchedAt(r.coverage) = {Len(r.coverage)}
         /\ r.status = "WINDOW_ELAPSED_WITHOUT_MATCH" =>
              Len(r.coverage) = h /\ MatchedAt(r.coverage) = {} /\ GapAt(r.coverage) = {}
         /\ r.status = "INCONCLUSIVE_OBSERVATION_GAP" =>
              Len(r.coverage) = h /\ MatchedAt(r.coverage) = {} /\ GapAt(r.coverage) # {}
         /\ r.status = "PENDING" => MatchedAt(r.coverage) = {} /\ Len(r.coverage) < h
<1>1. r \in Record(h) /\ Waits(r, h) /\ Tells(r.status, r.coverage, h)
  BY DEF Kept
<1>2. /\ Len(r.coverage) \in Nat /\ DOMAIN r.coverage = 1 .. Len(r.coverage)
  BY <1>1, RecordFields
<1>3. Len(Recorded(r)) <= h
  <2>1. CASE r.pending = Nothing
    BY <1>1, <2>1 DEF Recorded, Tells
  <2>2. CASE r.pending # Nothing
    BY <1>1, <1>2, <2>2 DEF Recorded, Tells, Waits
  <2> QED BY <2>1, <2>2
<1>4. r.status = "MATCHED" => MatchedAt(r.coverage) = {Len(r.coverage)}
  <2> SUFFICES ASSUME r.status = "MATCHED" PROVE MatchedAt(r.coverage) = {Len(r.coverage)}
    OBVIOUS
  <2>1. /\ Len(r.coverage) > 0 /\ r.coverage[Len(r.coverage)].matched
        /\ \A k \in 1 .. Len(r.coverage) - 1 : ~r.coverage[k].matched
    BY <1>1 DEF Tells
  <2>2. Len(r.coverage) \in MatchedAt(r.coverage)
    BY <1>2, <2>1 DEF MatchedAt
  <2>3. \A k \in MatchedAt(r.coverage) : k = Len(r.coverage)
    BY <1>2, <2>1 DEF MatchedAt
  <2> QED BY <2>2, <2>3
<1>5. Unmatched(r.coverage) => MatchedAt(r.coverage) = {}
  BY DEF Unmatched, MatchedAt
<1>6. Gapless(r.coverage) <=> GapAt(r.coverage) = {}
  BY DEF Gapless, GapAt
<1> QED BY <1>1, <1>3, <1>4, <1>5, <1>6 DEF Tells

(* A verdict says exactly what the recorded window shows, whatever was     *)
(* raised, retried or retired on the way; and the window follows the Core. *)
THEOREM VerdictsTell == Spec => []VerdictsAreSound
<1>1. Inductive => VerdictsAreSound
  <2> SUFFICES ASSUME Inductive, NEW f \in Sealed
               PROVE  LET r == forecast[f] IN
    /\ Len(Recorded(r)) <= Horizon[f]
    /\ r.status = "MATCHED" => MatchedAt(r.coverage) = {Len(r.coverage)}
    /\ r.status = "WINDOW_ELAPSED_WITHOUT_MATCH" =>
         /\ Len(r.coverage) = Horizon[f]
         /\ MatchedAt(r.coverage) = {} /\ GapAt(r.coverage) = {}
    /\ r.status = "INCONCLUSIVE_OBSERVATION_GAP" =>
         /\ Len(r.coverage) = Horizon[f]
         /\ MatchedAt(r.coverage) = {} /\ GapAt(r.coverage) # {}
    /\ r.status = "PENDING" => MatchedAt(r.coverage) = {} /\ Len(r.coverage) < Horizon[f]
    /\ LET window == Recorded(r) IN
         /\ \A k \in DOMAIN window : r.origin < window[k].root /\ window[k].root <= root
         /\ \A j, k \in DOMAIN window : j < k => window[j].root < window[k].root
    BY DEF VerdictsAreSound
  <2>1. f \in Forecasts /\ Fine(f)
    BY DEF Inductive, Sealed
  <2>2. Kept(forecast[f], Horizon[f]) /\ Horizon[f] \in Nat /\ Dates(f)
    BY <2>1, SealedAreRecords DEF Fine
  <2> QED BY <2>2, VerdictFields DEF Dates
<1> QED BY <1>1, AlwaysInductive, PTL

(* The escrow pays each offset once and in order, a forecast that is over  *)
(* holds no unit, and the parent gave up exactly 2H for each seal.         *)
THEOREM EscrowPaysOnce == Spec => []EscrowPaysOffsetsOnce
<1>1. ASSUME Inductive, NEW f \in Sealed
      PROVE  LET r == forecast[f]  n == Len(Recorded(r)) IN
       /\ 1 .. n \subseteq SpentAt(r, "EVALUATION")
       /\ SpentAt(r, "EVALUATION") \subseteq SpentAt(r, "CAPTURE")
       /\ SpentAt(r, "CAPTURE") \subseteq 1 .. n + 1
       /\ ~r.live => \A p \in Phases, k \in 1 .. Horizon[f] : r.pool[p][k] # "RESERVED"
  <2> DEFINE r == forecast[f]
             n == Len(Recorded(r))
             h == Horizon[f]
  <2>1. f \in Forecasts /\ Fine(f)
    BY <1>1 DEF Inductive, Sealed
  <2>2. Kept(r, h) /\ h \in Nat /\ r \in Record(h)
    BY <2>1, SealedAreRecords
  <2>3. n \in Nat /\ Len(r.coverage) \in Nat /\ DOMAIN r.pool["CAPTURE"] = 1 .. h
        /\ DOMAIN r.pool["EVALUATION"] = 1 .. h
    BY <2>2, RecordFields DEF Phases
  <2>4. n <= h
    BY <2>2, VerdictFields
  <2>5. Len(r.coverage) <= n
    <3>1. Waits(r, h)
      BY <2>2 DEF Kept
    <3>2. n = Len(r.coverage) \/ n = Len(r.coverage) + 1
      BY <3>1 DEF Waits, Recorded
    <3> QED BY <2>3, <3>2
  <2>6. Pays(r, h)
    BY <2>2 DEF Kept
  <2>7. /\ \A k \in 1 .. h :
             /\ k <= n => r.pool["EVALUATION"][k] = "CONSUMED"
             /\ r.pool["EVALUATION"][k] = "CONSUMED" => r.pool["CAPTURE"][k] = "CONSUMED"
             /\ r.pool["CAPTURE"][k] = "CONSUMED" => k <= Len(r.coverage) + 1
        /\ ~r.live => \A p \in Phases, k \in 1 .. h : r.pool[p][k] # "RESERVED"
    BY <2>6 DEF Pays
  <2> HIDE DEF r, n, h
  <2>8. /\ 1 .. n \subseteq SpentAt(r, "EVALUATION")
        /\ SpentAt(r, "EVALUATION") \subseteq SpentAt(r, "CAPTURE")
        /\ SpentAt(r, "CAPTURE") \subseteq 1 .. n + 1
    BY <2>2, <2>3, <2>4, <2>5, <2>7 DEF SpentAt
  <2> QED BY <2>7, <2>8 DEF r, n, h
<1>2. Inductive => EscrowPaysOffsetsOnce
  <2> SUFFICES ASSUME Inductive PROVE EscrowPaysOffsetsOnce
    OBVIOUS
  <2>1. /\ LedgerOK(ledger, Budget) /\ Owns(ledger)
        /\ Cardinality(InState(ledger, "DELEGATED_FORECAST_POOL"))
             = Cardinality(UNION {{f} \X (1 .. 2 * Horizon[f]) : f \in Sealed})
    BY DEF Inductive, Escrowed, Pooled
  <2> QED BY <1>1, <2>1 DEF EscrowPaysOffsetsOnce
<1> QED BY <1>2, AlwaysInductive, PTL

(* No occurrence is skipped or counted twice unless an exception kept it   *)
(* from the forecast, and after the last of them the verdict is decided.   *)
THEOREM WindowsAreComplete == Spec => []WindowIsComplete
<1>1. Inductive => WindowIsComplete
  <2> SUFFICES ASSUME Inductive, NEW f \in Live, Quiet, forecast[f].status = "PENDING",
                      ~IsStale(f), ~forecast[f].missed
               PROVE  /\ Len(Recorded(forecast[f])) = root - forecast[f].origin
                      /\ root - forecast[f].origin >= Horizon[f] => forecast[f].pending.status # "PENDING"
    BY DEF WindowIsComplete
  <2> DEFINE r == forecast[f]
             h == Horizon[f]
  <2>1. f \in Forecasts /\ r.live /\ Fine(f) /\ root \in Nat
    BY DEF Live, Inductive, Typed
  <2>2. f \in Sealed
    BY <2>1 DEF Sealed
  <2>3. Kept(r, h) /\ h \in Nat /\ r \in Record(h) /\ Complete(f)
    BY <2>1, <2>2, SealedAreRecords DEF Fine
  <2>4. r.origin \in Nat /\ Len(r.coverage) \in Nat /\ Len(r.pending.coverage) \in Nat
    BY <2>3, RecordFields DEF Record
  <2>5. Len(Recorded(r)) = root - r.origin
    <3>1. f \notin event.due
      BY DEF Quiet
    <3>2. Len(Recorded(r)) = root - r.origin - 0
      BY <2>1, <2>3, <3>1 DEF Complete
    <3> QED BY <2>1, <2>4, <3>2
  <2>6. ASSUME Len(Recorded(r)) >= h PROVE r.pending.status # "PENDING"
    <3>1. Len(r.coverage) < h
      BY <2>3 DEF Kept, Tells
    <3>2. r.pending # Nothing
      BY <2>3, <2>4, <2>6, <3>1 DEF Recorded
    <3>3. /\ Tells(Attached(r).status, Attached(r).coverage, h)
          /\ Attached(r).status = r.pending.status
      BY <2>3, <3>2, AttachedKept DEF Kept
    <3>4. Attached(r).coverage = r.pending.coverage
      BY <2>3 DEF Attached, Record
    <3> QED BY <2>3, <2>4, <2>6, <3>2, <3>3, <3>4 DEF Tells, Recorded
  <2> QED BY <2>5, <2>6
<1> QED BY <1>1, AlwaysInductive, PTL

(* Windows are sequences, those of unsealed requests too.                  *)
LEMMA WindowDomains ==
  ASSUME NEW h \in Nat, NEW r, r = Unsealed \/ Kept(r, h)
  PROVE  /\ DOMAIN r.coverage = 1 .. Len(r.coverage) /\ Len(r.coverage) \in Nat
         /\ DOMAIN Recorded(r) = 1 .. Len(Recorded(r)) /\ Len(Recorded(r)) \in Nat
<1>1. CASE r = Unsealed
  BY <1>1, EmptySeq DEF Unsealed, Recorded
<1>2. CASE Kept(r, h)
  BY <1>2, RecordFields DEF Kept
<1> QED BY <1>1, <1>2

(* What was admitted is never rewritten, what waits is not lost while the  *)
(* forecast lives, and a verdict stands and costs nothing more.            *)
THEOREM AdmittedResultsStay == Spec => AdmittedStays
<1> DEFINE Stays ==
      \A f \in Sealed : LET r == forecast[f]  q == forecast'[f] IN
       /\ \A k \in DOMAIN r.coverage : k \in DOMAIN q.coverage /\ q.coverage[k] = r.coverage[k]
       /\ q.live \/ q.status \in Verdicts =>
            \A k \in DOMAIN Recorded(r) :
              k \in DOMAIN Recorded(q) /\ Recorded(q)[k] = Recorded(r)[k]
       /\ r.status # "PENDING" =>
            /\ q.status = r.status /\ (q.live => r.live)
            /\ \A p \in Phases : SpentAt(q, p) = SpentAt(r, p)
<1>1. ASSUME Inductive, Inductive', Moves, NEW f \in Sealed
      PROVE  LET r == forecast[f]  q == forecast'[f] IN
       /\ \A k \in DOMAIN r.coverage : k \in DOMAIN q.coverage /\ q.coverage[k] = r.coverage[k]
       /\ q.live \/ q.status \in Verdicts =>
            \A k \in DOMAIN Recorded(r) :
              k \in DOMAIN Recorded(q) /\ Recorded(q)[k] = Recorded(r)[k]
       /\ r.status # "PENDING" =>
            /\ q.status = r.status /\ (q.live => r.live)
            /\ \A p \in Phases : SpentAt(q, p) = SpentAt(r, p)
  <2> DEFINE r == forecast[f]
             q == forecast'[f]
             h == Horizon[f]
  <2>1. f \in Forecasts /\ h \in Nat
    BY ForecastAssumption DEF Sealed
  <2>2. (r = Unsealed \/ Kept(r, h)) /\ (q = Unsealed \/ Kept(q, h))
    BY <1>1, <2>1 DEF Inductive, Fine
  <2>3. Advances(r, q)
    BY <1>1 DEF Moves
  <2> HIDE DEF r, q, h
  <2>4. /\ DOMAIN r.coverage = 1 .. Len(r.coverage) /\ Len(r.coverage) \in Nat
        /\ DOMAIN Recorded(r) = 1 .. Len(Recorded(r)) /\ Len(Recorded(r)) \in Nat
    BY <2>1, <2>2, WindowDomains
  <2>5. /\ DOMAIN q.coverage = 1 .. Len(q.coverage) /\ Len(q.coverage) \in Nat
        /\ DOMAIN Recorded(q) = 1 .. Len(Recorded(q)) /\ Len(Recorded(q)) \in Nat
    BY <2>1, <2>2, WindowDomains
  <2>6. \A k \in DOMAIN r.coverage : k \in DOMAIN q.coverage /\ q.coverage[k] = r.coverage[k]
    BY <2>3, <2>4, <2>5 DEF Advances, Begins
  <2>7. q.live \/ q.status \in Verdicts =>
          \A k \in DOMAIN Recorded(r) : k \in DOMAIN Recorded(q) /\ Recorded(q)[k] = Recorded(r)[k]
    BY <2>3, <2>4, <2>5 DEF Advances, Begins
  <2>8. r.status # "PENDING" =>
            /\ q.status = r.status /\ (q.live => r.live)
            /\ \A p \in Phases : SpentAt(q, p) = SpentAt(r, p)
    BY <2>3 DEF Advances, SameSpent
  <2> QED BY <2>6, <2>7, <2>8 DEF r, q
<1>2. Inductive /\ [Next]_vars => Stays
  BY <1>1, InductiveNext
<1> HIDE DEF Stays
<1>3. Spec => [][Stays]_vars
  BY <1>2, AlwaysInductive, PTL DEF Spec
<1> QED BY <1>3 DEF Stays, AdmittedStays

-----------------------------------------------------------------------------
(* A commit under way.  The order of its writes matters only in that an    *)
(* assembly is dropped before it is added and unlinked before it is        *)
(* linked: so what is left of them says what the network is.               *)
Drops(left, a)   == <<"drop", a>> \in left
Adds(left, a)    == <<"add", a>> \in left
Unlinks(left, a) == <<"unlink", a>> \in left
Links(left, a)   == <<"link", a>> \in left

Changing(old, new) == Changed(old, new) \cap DOMAIN old.assemblies
Coming(old, new)   == Changed(old, new) \cap DOMAIN new.assemblies

(* Assemblies that have not been dropped, and those that have been added.  *)
StillThere(old, new, left) ==
  {a \in DOMAIN old.assemblies : a \in Changing(old, new) => Drops(left, a)}
NowThere(old, new, left) == {a \in Coming(old, new) : ~Adds(left, a)}

StillListed(old, new, left, c) ==
  {a \in DOMAIN old.assemblies : c \in old.assemblies[a] /\ (a \in Changing(old, new) => Unlinks(left, a))}
NowListed(old, new, left, c) ==
  {a \in Coming(old, new) : c \in new.assemblies[a] /\ ~Links(left, a)}

CellsAt(old, new, left) ==
  IF <<"reclaim", 0>> \notin left THEN new.cells
  ELSE IF <<"cells", 0>> \notin left THEN old.cells \cup new.cells ELSE old.cells

AssembliesAt(old, new, left) ==
  [a \in StillThere(old, new, left) \cup NowThere(old, new, left) |->
     IF a \in NowThere(old, new, left) THEN new.assemblies[a] ELSE old.assemblies[a]]

MembershipsAt(old, new, left) ==
  [c \in Cells |->
     IF <<"reclaim", 0>> \notin left /\ c \notin new.cells THEN {}
     ELSE StillListed(old, new, left, c) \cup NowListed(old, new, left, c)]

Halfway(old, new, left) ==
  [cells       |-> CellsAt(old, new, left),
   local       |-> IF <<"synapses", 0>> \in left THEN old.local ELSE new.local,
   associative |-> IF <<"synapses", 0>> \in left THEN old.associative ELSE new.associative,
   assemblies  |-> AssembliesAt(old, new, left),
   activation  |-> IF <<"activation", 0>> \in left THEN old.activation ELSE new.activation,
   memberships |-> MembershipsAt(old, new, left)]

InTurn(old, new, left) ==
  /\ left \subseteq Assignments(old, new)
  /\ \A a \in Changing(old, new) \cap Coming(old, new) :
       (Drops(left, a) => Adds(left, a)) /\ (Unlinks(left, a) => Links(left, a))

LEMMA NetworkIs ==
  ASSUME NEW n \in Networks
  PROVE  /\ n.cells \subseteq Cells /\ DOMAIN n.assemblies \subseteq Assemblies
         /\ \A a \in DOMAIN n.assemblies : n.assemblies[a] \subseteq n.cells
         /\ DOMAIN n.local \cup DOMAIN n.associative \subseteq n.cells \X n.cells
         /\ \A a \in DOMAIN n.assemblies : n.assemblies[a] \subseteq Cells
         /\ n.assemblies = [a \in DOMAIN n.assemblies |-> n.assemblies[a]]
         /\ \A k \in DOMAIN n.local : n.local[k] \in Int
         /\ \A k \in DOMAIN n.associative : n.associative[k] \in Int
         /\ \A c \in n.cells : n.activation[c] \in Int
BY RetrievalAssumption

LEMMA AssignmentsAre ==
  ASSUME NEW old \in Networks, NEW new \in Networks
  PROVE  /\ \A w \in Assignments(old, new) :
              \/ w \in {<<"cells", 0>>, <<"synapses", 0>>, <<"activation", 0>>, <<"reclaim", 0>>}
              \/ \E a \in Changing(old, new) : w = <<"drop", a>> \/ w = <<"unlink", a>>
              \/ \E a \in Coming(old, new) : w = <<"add", a>> \/ w = <<"link", a>>
         /\ {<<"cells", 0>>, <<"synapses", 0>>, <<"activation", 0>>, <<"reclaim", 0>>}
              \subseteq Assignments(old, new)
         /\ \A a \in Changing(old, new) :
              Drops(Assignments(old, new), a) /\ Unlinks(Assignments(old, new), a)
         /\ \A a \in Coming(old, new) :
              Adds(Assignments(old, new), a) /\ Links(Assignments(old, new), a)
BY DEF Assignments, Changing, Coming, Drops, Unlinks, Adds, Links

(* What did not change is the same before and after.                       *)
LEMMA UnchangedStays ==
  ASSUME NEW old \in Networks, NEW new \in Networks, NEW a
  PROVE  /\ a \in DOMAIN old.assemblies /\ a \notin Changing(old, new) =>
              a \in DOMAIN new.assemblies /\ new.assemblies[a] = old.assemblies[a]
         /\ a \in DOMAIN new.assemblies /\ a \notin Coming(old, new) =>
              a \in DOMAIN old.assemblies /\ new.assemblies[a] = old.assemblies[a]
                /\ a \notin Changing(old, new)
BY NetworkIs DEF Changed, Changing, Coming

LEMMA CommitStarts ==
  ASSUME NEW old \in Networks, NEW new \in Networks
  PROVE  LET all == Assignments(old, new)
         IN Halfway(old, new, all) = Stored(old) /\ InTurn(old, new, all)
<1> DEFINE all == Assignments(old, new)
<1>1. <<"reclaim", 0>> \in all /\ <<"cells", 0>> \in all /\ <<"synapses", 0>> \in all
      /\ <<"activation", 0>> \in all
  BY AssignmentsAre
<1>2. StillThere(old, new, all) = DOMAIN old.assemblies /\ NowThere(old, new, all) = {}
  BY AssignmentsAre DEF StillThere, NowThere
<1>3. \A c : /\ NowListed(old, new, all, c) = {}
             /\ StillListed(old, new, all, c) = {a \in DOMAIN old.assemblies : c \in old.assemblies[a]}
  BY AssignmentsAre DEF StillListed, NowListed
<1>4. AssembliesAt(old, new, all) = [a \in DOMAIN old.assemblies |-> old.assemblies[a]]
  BY <1>2 DEF AssembliesAt
<1>5. MembershipsAt(old, new, all) = Memberships(old)
  BY <1>1, <1>3 DEF MembershipsAt, Memberships
<1>6. CellsAt(old, new, all) = old.cells
  BY <1>1 DEF CellsAt
<1>7. InTurn(old, new, all)
  BY AssignmentsAre DEF InTurn
<1>8. [a \in DOMAIN old.assemblies |-> old.assemblies[a]] = old.assemblies
  BY NetworkIs
<1> QED BY <1>1, <1>4, <1>5, <1>6, <1>7, <1>8 DEF Halfway, Stored

LEMMA CommitEnds ==
  ASSUME NEW old \in Networks, NEW new \in Networks
  PROVE  Halfway(old, new, {}) = Stored(new)
<1>1. /\ StillThere(old, new, {}) = DOMAIN old.assemblies \ Changing(old, new)
      /\ NowThere(old, new, {}) = Coming(old, new)
  BY DEF StillThere, NowThere, Drops, Adds
<1>2. \A a \in Coming(old, new) : a \in DOMAIN new.assemblies
  BY DEF Coming
<1>3. StillThere(old, new, {}) \cup NowThere(old, new, {}) = DOMAIN new.assemblies
  BY <1>1, <1>2, UnchangedStays
<1>4. AssembliesAt(old, new, {}) = [a \in DOMAIN new.assemblies |-> new.assemblies[a]]
  <2>1. \A a \in DOMAIN new.assemblies :
          (IF a \in NowThere(old, new, {}) THEN new.assemblies[a] ELSE old.assemblies[a])
            = new.assemblies[a]
    BY <1>1, UnchangedStays
  <2> QED BY <1>3, <2>1 DEF AssembliesAt
<1>5. MembershipsAt(old, new, {}) = Memberships(new)
  <2>1. ASSUME NEW c \in Cells
        PROVE  (IF c \notin new.cells THEN {}
                ELSE StillListed(old, new, {}, c) \cup NowListed(old, new, {}, c))
                 = {a \in DOMAIN new.assemblies : c \in new.assemblies[a]}
    <3>1. /\ StillListed(old, new, {}, c) =
                {a \in DOMAIN old.assemblies \ Changing(old, new) : c \in old.assemblies[a]}
          /\ NowListed(old, new, {}, c) = {a \in Coming(old, new) : c \in new.assemblies[a]}
      BY DEF StillListed, NowListed, Unlinks, Links
    <3>2. StillListed(old, new, {}, c) \cup NowListed(old, new, {}, c)
            = {a \in DOMAIN new.assemblies : c \in new.assemblies[a]}
      BY <1>2, <3>1, UnchangedStays
    <3>3. c \notin new.cells => {a \in DOMAIN new.assemblies : c \in new.assemblies[a]} = {}
      BY NetworkIs
    <3> QED BY <3>2, <3>3
  <2>2. MembershipsAt(old, new, {}) =
          [c \in Cells |-> IF c \notin new.cells THEN {}
                           ELSE StillListed(old, new, {}, c) \cup NowListed(old, new, {}, c)]
    BY DEF MembershipsAt
  <2> QED BY <2>1, <2>2 DEF Memberships
<1>6. CellsAt(old, new, {}) = new.cells
  BY DEF CellsAt
<1>7. [a \in DOMAIN new.assemblies |-> new.assemblies[a]] = new.assemblies
  BY NetworkIs
<1> QED BY <1>4, <1>5, <1>6, <1>7 DEF Halfway, Stored

(* One write.                                                              *)
LEMMA AssembliesMove ==
  ASSUME NEW old \in Networks, NEW new \in Networks, NEW left, InTurn(old, new, left), NEW w \in left,
         \A v \in left \ {w} : Before(w, v)
  PROVE  LET next == left \ {w}
             A    == AssembliesAt(old, new, left)
             B    == AssembliesAt(old, new, next)
         IN /\ w[1] = "drop" => B = Restrict(A, DOMAIN A \ {w[2]})
            /\ w[1] = "add"  => B = Over([a \in {w[2]} |-> new.assemblies[a]], A)
            /\ w[1] \notin {"drop", "add"} => B = A
<1> DEFINE next == left \ {w}
           A    == AssembliesAt(old, new, left)
           B    == AssembliesAt(old, new, next)
<1>1. CASE w[1] \notin {"drop", "add"}
  <2>1. \A a : (Drops(next, a) <=> Drops(left, a)) /\ (Adds(next, a) <=> Adds(left, a))
    BY <1>1 DEF Drops, Adds
  <2>2. StillThere(old, new, next) = StillThere(old, new, left)
        /\ NowThere(old, new, next) = NowThere(old, new, left)
    BY <2>1 DEF StillThere, NowThere
  <2>3. B = A
    BY <2>2 DEF AssembliesAt
  <2> QED BY <1>1, <2>3
<1>2. CASE w[1] = "drop"
  <2>1. PICK a \in Changing(old, new) : w = <<"drop", a>>
    BY <1>2, AssignmentsAre DEF InTurn
  <2>2. a \notin NowThere(old, new, left)
    BY <2>1 DEF InTurn, NowThere, Drops
  <2>3. StillThere(old, new, next) = StillThere(old, new, left) \ {a}
        /\ NowThere(old, new, next) = NowThere(old, new, left)
    BY <2>1 DEF StillThere, NowThere, Drops, Adds
  <2>4. B = Restrict(A, DOMAIN A \ {a})
    BY <2>2, <2>3 DEF AssembliesAt, Restrict
  <2> QED BY <2>1, <2>4
<1>3. CASE w[1] = "add"
  <2>1. PICK a \in Coming(old, new) : w = <<"add", a>>
    BY <1>3, AssignmentsAre DEF InTurn
  <2>2. StillThere(old, new, next) = StillThere(old, new, left)
        /\ NowThere(old, new, next) = NowThere(old, new, left) \cup {a}
    BY <2>1 DEF StillThere, NowThere, Drops, Adds
  <2>3. B = Over([b \in {a} |-> new.assemblies[b]], A)
    BY <2>2 DEF AssembliesAt, Over
  <2> QED BY <2>1, <2>3
<1> QED BY <1>1, <1>2, <1>3

LEMMA MembershipsMove ==
  ASSUME NEW old \in Networks, NEW new \in Networks, NEW left, InTurn(old, new, left), NEW w \in left,
         \A v \in left \ {w} : Before(w, v)
  PROVE  LET next == left \ {w}
             A    == MembershipsAt(old, new, left)
             B    == MembershipsAt(old, new, next)
         IN /\ w[1] = "unlink"  => B = [c \in Cells |-> A[c] \ {w[2]}]
            /\ w[1] = "link"    => B = [c \in Cells |-> IF c \in new.assemblies[w[2]]
                                                        THEN A[c] \cup {w[2]} ELSE A[c]]
            /\ w[1] = "reclaim" => B = [c \in Cells |-> IF c \in new.cells THEN A[c] ELSE {}]
            /\ w[1] \notin {"unlink", "link", "reclaim"} => B = A
<1> DEFINE next == left \ {w}
           A    == MembershipsAt(old, new, left)
           B    == MembershipsAt(old, new, next)
           gone(l, c) == <<"reclaim", 0>> \notin l /\ c \notin new.cells
           held(l, c) == IF gone(l, c) THEN {}
                         ELSE StillListed(old, new, l, c) \cup NowListed(old, new, l, c)
<1>0. (\A c \in Cells : A[c] = held(left, c)) /\ B = [c \in Cells |-> held(next, c)]
  BY DEF MembershipsAt
<1>1. CASE w[1] \notin {"unlink", "link", "reclaim"}
  <2>1. \A a : (Unlinks(next, a) <=> Unlinks(left, a)) /\ (Links(next, a) <=> Links(left, a))
    BY <1>1 DEF Unlinks, Links
  <2>2. \A c : StillListed(old, new, next, c) = StillListed(old, new, left, c)
               /\ NowListed(old, new, next, c) = NowListed(old, new, left, c)
    BY <2>1 DEF StillListed, NowListed
  <2>3. <<"reclaim", 0>> \in next <=> <<"reclaim", 0>> \in left
    BY <1>1
  <2>4. B = A
    BY <2>2, <2>3 DEF MembershipsAt
  <2> QED BY <1>1, <2>4
<1>2. CASE w[1] = "unlink"
  <2>1. PICK a \in Changing(old, new) : w = <<"unlink", a>>
    BY <1>2, AssignmentsAre DEF InTurn
  <2>2. \A c : a \notin NowListed(old, new, left, c)
    BY <2>1 DEF InTurn, NowListed, Unlinks
  <2>3. \A c : StillListed(old, new, next, c) = StillListed(old, new, left, c) \ {a}
               /\ NowListed(old, new, next, c) = NowListed(old, new, left, c)
    BY <2>1 DEF StillListed, NowListed, Unlinks, Links
  <2>4. \A c : gone(next, c) <=> gone(left, c)
    BY <2>1
  <2>5. ASSUME NEW c \in Cells PROVE held(next, c) = A[c] \ {a}
    <3>1. CASE gone(left, c)
      BY <1>0, <2>4, <3>1
    <3>2. CASE ~gone(left, c)
      <4>1. /\ A[c] = StillListed(old, new, left, c) \cup NowListed(old, new, left, c)
            /\ held(next, c) = StillListed(old, new, next, c) \cup NowListed(old, new, next, c)
        BY <1>0, <2>4, <3>2
      <4> QED BY <2>2, <2>3, <4>1
    <3> QED BY <3>1, <3>2
  <2>6. B = [c \in Cells |-> A[c] \ {a}]
    BY <1>0, <2>5, Zenon
  <2> QED BY <2>1, <2>6
<1>3. CASE w[1] = "link"
  <2>1. PICK a \in Coming(old, new) : w = <<"link", a>>
    BY <1>3, AssignmentsAre DEF InTurn
  <2>2. \A c : /\ StillListed(old, new, next, c) = StillListed(old, new, left, c)
               /\ NowListed(old, new, next, c) =
                    IF c \in new.assemblies[a] THEN NowListed(old, new, left, c) \cup {a}
                    ELSE NowListed(old, new, left, c)
    BY <2>1 DEF StillListed, NowListed, Unlinks, Links
  <2>3. \A c : gone(next, c) <=> gone(left, c)
    BY <2>1
  <2>4. \A c \in new.assemblies[a] : c \in new.cells
    BY NetworkIs DEF Coming
  <2>5. ASSUME NEW c \in Cells
        PROVE  held(next, c) = IF c \in new.assemblies[a] THEN A[c] \cup {a} ELSE A[c]
    <3>1. CASE gone(left, c)
      BY <1>0, <2>3, <2>4, <3>1
    <3>2. CASE ~gone(left, c)
      <4>1. /\ A[c] = StillListed(old, new, left, c) \cup NowListed(old, new, left, c)
            /\ held(next, c) = StillListed(old, new, next, c) \cup NowListed(old, new, next, c)
        BY <1>0, <2>3, <3>2
      <4>2. CASE c \in new.assemblies[a]
        <5>1. NowListed(old, new, next, c) = NowListed(old, new, left, c) \cup {a}
              /\ StillListed(old, new, next, c) = StillListed(old, new, left, c)
          BY <2>2, <4>2
        <5> HIDE DEF held, next, A
        <5>2. held(next, c) = A[c] \cup {a}
          BY <4>1, <5>1
        <5> QED BY <4>2, <5>2
      <4>3. CASE c \notin new.assemblies[a]
        BY <2>2, <4>1, <4>3
      <4> QED BY <4>2, <4>3
    <3> QED BY <3>1, <3>2
  <2>6. B = [c \in Cells |-> IF c \in new.assemblies[a] THEN A[c] \cup {a} ELSE A[c]]
    BY <1>0, <2>5, Zenon
  <2> QED BY <2>1, <2>6
<1>4. CASE w[1] = "reclaim"
  <2>1. w = <<"reclaim", 0>>
    BY <1>4, AssignmentsAre DEF InTurn
  <2>2. \A c : StillListed(old, new, next, c) = StillListed(old, new, left, c)
               /\ NowListed(old, new, next, c) = NowListed(old, new, left, c)
    BY <2>1 DEF StillListed, NowListed, Unlinks, Links
  <2>3. \A c : (gone(next, c) <=> c \notin new.cells) /\ ~gone(left, c)
    BY <2>1
  <2>4. ASSUME NEW c \in Cells PROVE held(next, c) = IF c \in new.cells THEN A[c] ELSE {}
    BY <1>0, <2>2, <2>3
  <2>5. B = [c \in Cells |-> IF c \in new.cells THEN A[c] ELSE {}]
    BY <1>0, <2>4, Zenon
  <2> QED BY <1>4, <2>5
<1> QED BY <1>1, <1>2, <1>3, <1>4

LEMMA CommitGoesOn ==
  ASSUME NEW old \in Networks, NEW new \in Networks, NEW left, InTurn(old, new, left), NEW w \in left,
         \A v \in left \ {w} : Before(w, v)
  PROVE  /\ Assigned(Halfway(old, new, left), new, w) = Halfway(old, new, left \ {w})
         /\ InTurn(old, new, left \ {w})
<1> DEFINE next == left \ {w}
           n    == Halfway(old, new, left)
           kinds == {"cells", "synapses", "drop", "unlink", "add", "link", "activation", "reclaim"}
<1>1. w[1] \in kinds /\ (w[1] \in {"cells", "synapses", "activation", "reclaim"} => w = <<w[1], 0>>)
  BY AssignmentsAre DEF InTurn
<1>2. InTurn(old, new, next)
  <2> SUFFICES ASSUME NEW a \in Changing(old, new) \cap Coming(old, new)
               PROVE  (Drops(next, a) => Adds(next, a)) /\ (Unlinks(next, a) => Links(next, a))
    BY DEF InTurn
  <2>1. (Drops(left, a) => Adds(left, a)) /\ (Unlinks(left, a) => Links(left, a))
    BY DEF InTurn
  <2>2. ~Before(<<"add", a>>, <<"drop", a>>) /\ ~Before(<<"link", a>>, <<"unlink", a>>)
    BY DEF Before, Loop
  <2> QED BY <2>1, <2>2 DEF Drops, Adds, Unlinks, Links
<1>3. /\ n.cells = CellsAt(old, new, left)
      /\ n.assemblies = AssembliesAt(old, new, left)
      /\ n.memberships = MembershipsAt(old, new, left)
      /\ n.local = IF <<"synapses", 0>> \in left THEN old.local ELSE new.local
      /\ n.associative = IF <<"synapses", 0>> \in left THEN old.associative ELSE new.associative
      /\ n.activation = IF <<"activation", 0>> \in left THEN old.activation ELSE new.activation
      /\ n = [cells |-> n.cells, local |-> n.local, associative |-> n.associative,
              assemblies |-> n.assemblies, activation |-> n.activation, memberships |-> n.memberships]
  BY DEF Halfway
<1>4. /\ w[1] = "cells" => CellsAt(old, new, next) = CellsAt(old, new, left) \cup new.cells
      /\ w[1] = "reclaim" => CellsAt(old, new, next) = new.cells
      /\ w[1] \notin {"cells", "reclaim"} => CellsAt(old, new, next) = CellsAt(old, new, left)
  BY <1>1 DEF CellsAt
<1>5. (<<"synapses", 0>> \in next <=> <<"synapses", 0>> \in left /\ w[1] # "synapses")
      /\ (<<"activation", 0>> \in next <=> <<"activation", 0>> \in left /\ w[1] # "activation")
  BY <1>1
<1> DEFINE moved == [cells |-> CellsAt(old, new, next),
                     local |-> IF <<"synapses", 0>> \in next THEN old.local ELSE new.local,
                     associative |-> IF <<"synapses", 0>> \in next THEN old.associative ELSE new.associative,
                     assemblies |-> AssembliesAt(old, new, next),
                     activation |-> IF <<"activation", 0>> \in next THEN old.activation ELSE new.activation,
                     memberships |-> MembershipsAt(old, new, next)]
<1>6. Halfway(old, new, next) = moved
  BY DEF Halfway
<1> HIDE DEF n
<1>7. /\ w[1] = "drop" => AssembliesAt(old, new, next) = Restrict(n.assemblies, DOMAIN n.assemblies \ {w[2]})
      /\ w[1] = "add" => AssembliesAt(old, new, next) = Over([a \in {w[2]} |-> new.assemblies[a]], n.assemblies)
      /\ w[1] \notin {"drop", "add"} => AssembliesAt(old, new, next) = n.assemblies
  BY <1>3, AssembliesMove
<1>8. /\ w[1] = "unlink" => MembershipsAt(old, new, next) = [c \in Cells |-> n.memberships[c] \ {w[2]}]
      /\ w[1] = "link" => MembershipsAt(old, new, next) =
           [c \in Cells |-> IF c \in new.assemblies[w[2]] THEN n.memberships[c] \cup {w[2]}
                            ELSE n.memberships[c]]
      /\ w[1] = "reclaim" => MembershipsAt(old, new, next) =
           [c \in Cells |-> IF c \in new.cells THEN n.memberships[c] ELSE {}]
      /\ w[1] \notin {"unlink", "link", "reclaim"} => MembershipsAt(old, new, next) = n.memberships
  BY <1>3, MembershipsMove
<1> HIDE DEF next, kinds
<1>9. /\ w[1] \notin {"synapses"} => moved.local = n.local /\ moved.associative = n.associative
      /\ w[1] = "synapses" => moved.local = new.local /\ moved.associative = new.associative
      /\ w[1] \notin {"activation"} => moved.activation = n.activation
      /\ w[1] = "activation" => moved.activation = new.activation
  BY <1>3, <1>5
<1>10. /\ moved.cells = CellsAt(old, new, next) /\ moved.assemblies = AssembliesAt(old, new, next)
       /\ moved.memberships = MembershipsAt(old, new, next)
       /\ moved = [cells |-> moved.cells, local |-> moved.local, associative |-> moved.associative,
                   assemblies |-> moved.assemblies, activation |-> moved.activation,
                   memberships |-> moved.memberships]
  OBVIOUS
<1> HIDE DEF moved
<1>11. ASSUME w[1] = "cells" PROVE Assigned(n, new, w) = moved
  BY <1>3, <1>4, <1>7, <1>8, <1>9, <1>10, <1>11 DEF Assigned
<1>12. ASSUME w[1] = "synapses" PROVE Assigned(n, new, w) = moved
  BY <1>3, <1>4, <1>7, <1>8, <1>9, <1>10, <1>12 DEF Assigned
<1>13. ASSUME w[1] = "drop" PROVE Assigned(n, new, w) = moved
  BY <1>3, <1>4, <1>7, <1>8, <1>9, <1>10, <1>13 DEF Assigned
<1>14. ASSUME w[1] = "unlink" PROVE Assigned(n, new, w) = moved
  BY <1>3, <1>4, <1>7, <1>8, <1>9, <1>10, <1>14 DEF Assigned
<1>15. ASSUME w[1] = "add" PROVE Assigned(n, new, w) = moved
  BY <1>3, <1>4, <1>7, <1>8, <1>9, <1>10, <1>15 DEF Assigned
<1>16. ASSUME w[1] = "link" PROVE Assigned(n, new, w) = moved
  BY <1>3, <1>4, <1>7, <1>8, <1>9, <1>10, <1>16 DEF Assigned
<1>17. ASSUME w[1] = "activation" PROVE Assigned(n, new, w) = moved
  BY <1>3, <1>4, <1>7, <1>8, <1>9, <1>10, <1>17 DEF Assigned
<1>18. ASSUME w[1] = "reclaim" PROVE Assigned(n, new, w) = moved
  BY <1>3, <1>4, <1>7, <1>8, <1>9, <1>10, <1>18 DEF Assigned
<1> QED BY <1>1, <1>2, <1>6, <1>11, <1>12, <1>13, <1>14, <1>15, <1>16, <1>17, <1>18 DEF n, next, kinds

-----------------------------------------------------------------------------
(* A capture under way: what it holds is what the network has of the cells *)
(* C, the cells M looked at, the assemblies D and the cells Sc it left.    *)
LEMMA CommitIsOne ==
  ASSUME NEW old \in Networks, NEW new \in Networks, NEW left, InTurn(old, new, left)
  PROVE  None # [to |-> new, left |-> left]
<1>1. left \subseteq Kinds \X (Assemblies \cup {0})
  BY NetworkIs DEF InTurn, Assignments, Changed, Kinds
<1> QED BY <1>1, RetrievalAssumption

Hops(n, Sc) == {k \in DOMAIN n.associative : k[1] \in Sc /\ n.associative[k] > 0}
Heads(n, Sc) == {k[2] : k \in Hops(n, Sc)}
Within(n, D) == {k \in DOMAIN n.local : \E a \in D : {k[1], k[2]} \subseteq n.assemblies[a]}
Touching(n, cells) == {a \in DOMAIN n.assemblies : n.assemblies[a] \cap cells # {}}
MembersOf(n, D) == UNION {n.assemblies[a] : a \in D}
ActiveOf(n, seeds) == MembersOf(n, Touching(n, seeds)) \cup (seeds \ MembersOf(n, DOMAIN n.assemblies))

Snapshot(n, C, M, D, Sc) ==
  [cells |-> C, memberships |-> Restrict(Memberships(n), M), assemblies |-> Restrict(n.assemblies, D),
   local |-> Restrict(n.local, Within(n, D)), associative |-> Restrict(n.associative, Hops(n, Sc)),
   scanned |-> Sc]

(* Everything in it was reached from the cue, and what an assembly or a    *)
(* source brings with it came along.                                       *)
Allowed(n, seeds, C, M, D, Sc) ==
  /\ seeds \subseteq n.cells
  /\ D \subseteq Touching(n, seeds) \cup Touching(n, Heads(n, Sc))
  /\ Sc \subseteq ActiveOf(n, seeds)
  /\ M \subseteq seeds \cup Heads(n, Sc) \cup MembersOf(n, D)
  /\ C \subseteq seeds \cup Heads(n, Sc) \cup MembersOf(n, D)
  /\ MembersOf(n, D) \subseteq M \cap C
  /\ seeds \cap M \subseteq C
  /\ Heads(n, Sc) \subseteq C

Partly(n, seeds, capture) ==
  \E C, M, D, Sc : capture = Snapshot(n, C, M, D, Sc) /\ Allowed(n, seeds, C, M, D, Sc)

Trusted(n) == Restrict(n.activation, Frontier(n))

CueFits(n, s) ==
  /\ s.authorized # {} => s.authorized = Frontier(n)
  /\ \A c \in s.authorized : s.cue[c] = n.activation[c]

CommitInv ==
  /\ published \in Seq(Networks) /\ published # <<>>
  /\ IF writes = None THEN net = Stored(Last(published))
     ELSE /\ writes = [to |-> writes.to, left |-> writes.left] /\ writes.to \in Networks
          /\ InTurn(Last(published), writes.to, writes.left)
          /\ net = Halfway(Last(published), writes.to, writes.left)

ReceiptInv ==
  \A r \in receipts : r.version \in 1 .. Version /\ r.activation = Trusted(published[r.version])

CueInv ==
  session.at = "cue" =>
    /\ session.version \in 1 .. Version
    /\ session.internal \in Cues
    /\ session.trusted = <<>> \/ session.trusted = Trusted(published[session.version])

CaptureInv ==
  session.at = "capture" =>
    /\ {"at", "version", "cue", "authorized", "capture"} \subseteq DOMAIN session
    /\ session.version \in 1 .. Version
    /\ CueFits(published[session.version], session)
    /\ \A c \in DOMAIN session.cue : session.cue[c] \in Int
    /\ writes = None /\ session.version = Version =>
         Partly(Last(published), DOMAIN session.cue, session.capture)

DoneInv ==
  session.at = "done" =>
    session.version \in 1 .. Version /\ CueFits(published[session.version], session) /\ RetrievalIsOfTheWhole

RetrievalInv == CommitInv /\ ReceiptInv /\ CueInv /\ CaptureInv /\ DoneInv

LEMMA OverRestrictions ==
  ASSUME NEW f, NEW A, NEW B
  PROVE  Over(Restrict(f, A), Restrict(f, B)) = Restrict(f, A \cup B)
<1>1. DOMAIN Restrict(f, A) = A /\ DOMAIN Restrict(f, B) = B
  BY DEF Restrict
<1>2. \A x \in A \cup B :
        (IF x \in A THEN Restrict(f, A)[x] ELSE Restrict(f, B)[x]) = f[x]
  BY DEF Restrict
<1>3. Over(Restrict(f, A), Restrict(f, B)) =
        [x \in A \cup B |-> IF x \in A THEN Restrict(f, A)[x] ELSE Restrict(f, B)[x]]
  BY <1>1 DEF Over
<1> QED BY <1>2, <1>3 DEF Restrict

LEMMA NothingYet ==
  ASSUME NEW n, NEW seeds, seeds \subseteq n.cells
  PROVE  Partly(n, seeds, Blank)
<1>1. /\ Restrict(Memberships(n), {}) = <<>> /\ Restrict(n.assemblies, {}) = <<>>
      /\ Restrict(n.local, {}) = <<>> /\ Restrict(n.associative, {}) = <<>>
  BY DEF Restrict
<1>2. Within(n, {}) = {} /\ Hops(n, {}) = {} /\ Heads(n, {}) = {} /\ MembersOf(n, {}) = {}
  BY DEF Within, Hops, Heads, MembersOf
<1>3. Blank = Snapshot(n, {}, {}, {}, {})
  BY <1>1, <1>2 DEF Blank, Snapshot
<1>4. Allowed(n, seeds, {}, {}, {}, {})
  BY <1>2 DEF Allowed
<1> QED BY <1>3, <1>4 DEF Partly

LEMMA ListedIs ==
  ASSUME NEW n \in Networks, NEW C, NEW M, NEW D, NEW Sc, NEW cells, M \subseteq n.cells
  PROVE  Listed(Snapshot(n, C, M, D, Sc), cells) = Touching(n, cells \cap M)
<1> DEFINE K == Snapshot(n, C, M, D, Sc)
<1>1. DOMAIN K.memberships = M
      /\ \A c \in M : K.memberships[c] = {a \in DOMAIN n.assemblies : c \in n.assemblies[a]}
  BY NetworkIs DEF Snapshot, Restrict, Memberships
<1>2. Listed(K, cells) = UNION {K.memberships[c] : c \in cells \cap M}
  BY <1>1 DEF Listed
<1> HIDE DEF K
<1>3. \A a : a \in Touching(n, cells \cap M) <=> \E c \in cells \cap M : a \in K.memberships[c]
  BY <1>1 DEF Touching
<1>4. \A a : a \in Listed(K, cells) <=> \E c \in cells \cap M : a \in K.memberships[c]
  BY <1>2
<1>5. Listed(K, cells) = Touching(n, cells \cap M)
  BY <1>3, <1>4
<1> QED BY <1>5 DEF K

LEMMA SourcesAre ==
  ASSUME NEW n \in Networks, NEW C, NEW M, NEW D, NEW Sc, NEW s,
         M \subseteq n.cells, s.capture = Snapshot(n, C, M, D, Sc)
  PROVE  LET seeds == DOMAIN s.cue
         IN SourceCells(s) = ((seeds \cap M) \ MembersOf(n, DOMAIN n.assemblies))
                               \cup MembersOf(n, Touching(n, seeds \cap M) \cap D)
<1> DEFINE K == Snapshot(n, C, M, D, Sc)
           seeds == DOMAIN s.cue
           from == Touching(n, seeds \cap M) \cap D
<1>1. /\ DOMAIN K.memberships = M /\ DOMAIN K.assemblies = D
      /\ \A c \in M : K.memberships[c] = {a \in DOMAIN n.assemblies : c \in n.assemblies[a]}
      /\ \A a \in D : K.assemblies[a] = n.assemblies[a]
  BY NetworkIs DEF Snapshot, Restrict, Memberships
<1>2. Listed(K, seeds) = Touching(n, seeds \cap M)
  BY ListedIs
<1> HIDE DEF K
<1>3. SourceCells(s) = {c \in seeds : c \in M /\ K.memberships[c] = {}}
                          \cup (UNION {K.assemblies[a] : a \in from})
  BY <1>1, <1>2 DEF SourceCells, K
<1>4. {c \in seeds : c \in M /\ K.memberships[c] = {}} = (seeds \cap M) \ MembersOf(n, DOMAIN n.assemblies)
  BY <1>1 DEF MembersOf
<1>5. (UNION {K.assemblies[a] : a \in from}) = MembersOf(n, from)
  <2>1. \A a \in from : K.assemblies[a] = n.assemblies[a]
    BY <1>1
  <2>2. {K.assemblies[a] : a \in from} = {n.assemblies[a] : a \in from}
    BY <2>1, Zenon
  <2> QED BY <2>2, Zenon DEF MembersOf
<1> QED BY <1>3, <1>4, <1>5

LEMMA TargetsAre ==
  ASSUME NEW n, NEW C, NEW M, NEW D, NEW Sc
  PROVE  Targets(Snapshot(n, C, M, D, Sc)) = Heads(n, Sc)
BY DEF Targets, Snapshot, Restrict, Heads

LEMMA AllowedMeans ==
  ASSUME NEW n \in Networks, NEW seeds, NEW C, NEW M, NEW D, NEW Sc, Allowed(n, seeds, C, M, D, Sc)
  PROVE  /\ M \subseteq n.cells /\ Heads(n, Sc) \subseteq n.cells /\ D \subseteq DOMAIN n.assemblies
         /\ MembersOf(n, D) \subseteq n.cells
<1>1. D \subseteq DOMAIN n.assemblies
  BY DEF Allowed, Touching
<1>2. MembersOf(n, D) \subseteq n.cells
  <2>1. \A a \in D : n.assemblies[a] \subseteq n.cells
    BY <1>1, NetworkIs
  <2> QED BY <2>1 DEF MembersOf
<1>3. Heads(n, Sc) \subseteq n.cells
  <2>1. \A k \in Hops(n, Sc) : k[2] \in n.cells
    BY NetworkIs DEF Hops
  <2> QED BY <2>1 DEF Heads
<1> QED BY <1>1, <1>2, <1>3 DEF Allowed

(* When nothing is left to read, the capture is what the cue can reach.    *)
LEMMA NothingLeft ==
  ASSUME NEW n \in Networks, NEW s, ReadAll(s), Partly(n, DOMAIN s.cue, s.capture)
  PROVE  s.capture = Closure(n, s.cue)
<1> DEFINE seeds == DOMAIN s.cue
<1>1. PICK C, M, D, Sc : s.capture = Snapshot(n, C, M, D, Sc) /\ Allowed(n, seeds, C, M, D, Sc)
  BY DEF Partly
<1>2. /\ M \subseteq n.cells /\ Heads(n, Sc) \subseteq n.cells /\ D \subseteq DOMAIN n.assemblies
      /\ MembersOf(n, D) \subseteq n.cells
  BY <1>1, AllowedMeans
<1>3. /\ Unread(s, "cue") = {} /\ Unread(s, "sources") = {} /\ Unread(s, "outgoing") = {}
      /\ Unread(s, "hits") = {} /\ Unread(s, "targets") = {}
  BY DEF ReadAll, Stages
<1>4. DOMAIN s.capture.memberships = M /\ DOMAIN s.capture.assemblies = D /\ s.capture.scanned = Sc
      /\ Targets(s.capture) = Heads(n, Sc)
  BY <1>1, TargetsAre DEF Snapshot, Restrict
<1>5. seeds \subseteq M
  BY <1>3, <1>4 DEF Unread
<1>6. Touching(n, seeds) \subseteq D
  <2>1. Listed(s.capture, seeds) = Touching(n, seeds \cap M) /\ seeds \cap M = seeds
    BY <1>1, <1>2, <1>5, ListedIs
  <2> QED BY <1>3, <1>4, <2>1 DEF Unread
<1>7. Sc = ActiveOf(n, seeds)
  <2>1. SourceCells(s) = (seeds \ MembersOf(n, DOMAIN n.assemblies)) \cup MembersOf(n, Touching(n, seeds))
    <3>1. seeds \cap M = seeds /\ Touching(n, seeds) \cap D = Touching(n, seeds)
      BY <1>5, <1>6
    <3>2. SourceCells(s) = ((seeds \cap M) \ MembersOf(n, DOMAIN n.assemblies))
                             \cup MembersOf(n, Touching(n, seeds \cap M) \cap D)
      BY <1>1, <1>2, SourcesAre
    <3> QED BY <3>1, <3>2
  <2>2. ActiveOf(n, seeds) \subseteq Sc
    BY <1>3, <1>4, <2>1 DEF Unread, ActiveOf
  <2> QED BY <1>1, <2>2 DEF Allowed
<1>8. Heads(n, Sc) \subseteq M
  BY <1>3, <1>4 DEF Unread
<1>9. Touching(n, Heads(n, Sc)) \subseteq D
  <2>1. Listed(s.capture, Heads(n, Sc)) = Touching(n, Heads(n, Sc) \cap M) /\ Heads(n, Sc) \cap M = Heads(n, Sc)
    BY <1>1, <1>2, <1>8, ListedIs
  <2> QED BY <1>3, <1>4, <2>1 DEF Unread
<1>10. D = Touching(n, seeds) \cup Touching(n, Heads(n, Sc))
  BY <1>1, <1>6, <1>9 DEF Allowed
<1>11. C = seeds \cup Heads(n, Sc) \cup MembersOf(n, D) /\ M = C
  BY <1>1, <1>5, <1>8 DEF Allowed
<1>12. Closure(n, s.cue) = Snapshot(n, seeds \cup Heads(n, Sc) \cup MembersOf(n, D),
                                    seeds \cup Heads(n, Sc) \cup MembersOf(n, D), D, Sc)
  BY <1>7, <1>10 DEF Closure, Snapshot, Touching, MembersOf, ActiveOf, Heads, Hops, Within
<1> QED BY <1>1, <1>11, <1>12

(* What one item adds.                                                     *)
LEMMA AssemblyRead ==
  ASSUME NEW n \in Networks, NEW seeds, NEW C, NEW M, NEW D, NEW Sc,
         Allowed(n, seeds, C, M, D, Sc), net = Stored(n), NEW stage \in {"sources", "targets"},
         NEW item \in Touching(n, seeds) \cup Touching(n, Heads(n, Sc))
  PROVE  LET S == n.assemblies[item]
         IN /\ Extended(Snapshot(n, C, M, D, Sc), stage, item) =
                 Snapshot(n, C \cup S, M \cup S, D \cup {item}, Sc)
            /\ Allowed(n, seeds, C \cup S, M \cup S, D \cup {item}, Sc)
<1> DEFINE S == n.assemblies[item]
           K == Snapshot(n, C, M, D, Sc)
<1>1. Structural(stage) /\ Members(stage, item) = S /\ Outgoing(stage, item) = {}
      /\ Added(stage, item) = S /\ stage # "outgoing"
  BY DEF Structural, Members, Outgoing, Added, Stored
<1>2. /\ K.cells = C /\ K.memberships = Restrict(Memberships(n), M) /\ DOMAIN K.memberships = M
      /\ K.assemblies = Restrict(n.assemblies, D) /\ K.local = Restrict(n.local, Within(n, D))
      /\ K.associative = Restrict(n.associative, Hops(n, Sc)) /\ K.scanned = Sc
  BY DEF Snapshot, Restrict
<1>3. /\ net.memberships = Memberships(n) /\ net.local = n.local /\ net.associative = n.associative
      /\ net.assemblies = n.assemblies
  BY DEF Stored
<1>4. Known(K, stage, item) = Restrict(Memberships(n), M \cup S)
  <2>1. Looked(K, stage, item) = S \ M
    BY <1>1, <1>2 DEF Looked
  <2>2. M \cup (S \ M) = M \cup S
    OBVIOUS
  <2> QED BY <1>2, <1>3, <2>1, <2>2, OverRestrictions DEF Known
<1>5. Over(K.assemblies, [a \in {item} |-> S]) = Restrict(n.assemblies, D \cup {item})
  <2>1. [a \in {item} |-> S] = Restrict(n.assemblies, {item})
    BY DEF Restrict
  <2> QED BY <1>2, <2>1, OverRestrictions
<1>6. Over(Restrict(net.local, DOMAIN net.local \cap (S \X S)), K.local) =
        Restrict(n.local, Within(n, D \cup {item}))
  <2>1. \A k \in DOMAIN n.local : k \in S \X S <=> {k[1], k[2]} \subseteq S
    <3>1. \A k \in DOMAIN n.local : k \in n.cells \X n.cells
      BY NetworkIs
    <3>2. \A k \in n.cells \X n.cells : k \in S \X S <=> {k[1], k[2]} \subseteq S
      OBVIOUS
    <3> QED BY <3>1, <3>2
  <2> HIDE DEF S
  <2>2. (DOMAIN n.local \cap (S \X S)) \cup Within(n, D) = Within(n, D \cup {item})
    BY <2>1 DEF Within, S
  <2> DEFINE A == DOMAIN n.local \cap (S \X S)
  <2>3. Over(Restrict(n.local, A), Restrict(n.local, Within(n, D))) = Restrict(n.local, A \cup Within(n, D))
    BY OverRestrictions
  <2> QED BY <1>2, <1>3, <2>2, <2>3
<1>7. Over(K.associative, Restrict(net.associative, {})) = K.associative
  <2>1. Hops(n, Sc) \cup {} = Hops(n, Sc)
    OBVIOUS
  <2> QED BY <1>2, <1>3, <2>1, OverRestrictions
<1> HIDE DEF K, S
<1>8. Extended(K, stage, item) = Snapshot(n, C \cup S, M \cup S, D \cup {item}, Sc)
  BY <1>1, <1>2, <1>4, <1>5, <1>6, <1>7 DEF Extended, Snapshot
<1>9. MembersOf(n, D \cup {item}) = MembersOf(n, D) \cup S
  BY DEF MembersOf, S
<1>10. Allowed(n, seeds, C \cup S, M \cup S, D \cup {item}, Sc)
  BY <1>9 DEF Allowed
<1> QED BY <1>8, <1>10 DEF K, S

LEMMA SourceRead ==
  ASSUME NEW n \in Networks, NEW seeds, NEW C, NEW M, NEW D, NEW Sc,
         Allowed(n, seeds, C, M, D, Sc), net = Stored(n), NEW item \in ActiveOf(n, seeds),
         item \in seeds \cup MembersOf(n, D)
  PROVE  LET E == {item} \cup Heads(n, {item})
         IN /\ Extended(Snapshot(n, C, M, D, Sc), "outgoing", item) =
                 Snapshot(n, C \cup E, M, D, Sc \cup {item})
            /\ Allowed(n, seeds, C \cup E, M, D, Sc \cup {item})
<1> DEFINE E == {item} \cup Heads(n, {item})
           K == Snapshot(n, C, M, D, Sc)
           stage == "outgoing"
<1>1. /\ ~Structural(stage) /\ Members(stage, item) = {} /\ Outgoing(stage, item) = Hops(n, {item})
      /\ Added(stage, item) = E
  BY DEF Structural, Members, Outgoing, Added, Stored, Hops, Heads
<1>2. /\ K.cells = C /\ K.memberships = Restrict(Memberships(n), M) /\ DOMAIN K.memberships = M
      /\ K.assemblies = Restrict(n.assemblies, D) /\ K.local = Restrict(n.local, Within(n, D))
      /\ K.associative = Restrict(n.associative, Hops(n, Sc)) /\ K.scanned = Sc
  BY DEF Snapshot, Restrict
<1>3. /\ net.memberships = Memberships(n) /\ net.local = n.local /\ net.associative = n.associative
  BY DEF Stored
<1>4. Known(K, stage, item) = K.memberships
  <2>1. Looked(K, stage, item) = {}
    BY <1>1 DEF Looked
  <2>2. M \cup {} = M
    OBVIOUS
  <2> QED BY <1>2, <1>3, <2>1, <2>2, OverRestrictions DEF Known
<1>5. Over(Restrict(net.local, DOMAIN net.local \cap ({} \X {})), K.local) = K.local
  <2>1. (DOMAIN n.local \cap ({} \X {})) \cup Within(n, D) = Within(n, D)
    OBVIOUS
  <2> QED BY <1>2, <1>3, <2>1, OverRestrictions
<1>6. Over(K.associative, Restrict(net.associative, Hops(n, {item}))) =
        Restrict(n.associative, Hops(n, Sc \cup {item}))
  <2>1. Hops(n, Sc) \cup Hops(n, {item}) = Hops(n, Sc \cup {item})
    BY DEF Hops
  <2>2. Over(Restrict(n.associative, Hops(n, Sc)), Restrict(n.associative, Hops(n, {item})))
          = Restrict(n.associative, Hops(n, Sc) \cup Hops(n, {item}))
    BY OverRestrictions
  <2> QED BY <1>2, <1>3, <2>1, <2>2
<1> HIDE DEF K, E
<1>7. Extended(K, stage, item) = Snapshot(n, C \cup E, M, D, Sc \cup {item})
  BY <1>1, <1>2, <1>4, <1>5, <1>6 DEF Extended, Snapshot
<1>8. Heads(n, Sc \cup {item}) = Heads(n, Sc) \cup Heads(n, {item})
  BY DEF Heads, Hops
<1>9. Touching(n, Heads(n, Sc)) \subseteq Touching(n, Heads(n, Sc \cup {item}))
  BY <1>8 DEF Touching
<1>10. Allowed(n, seeds, C \cup E, M, D, Sc \cup {item})
  BY <1>8, <1>9 DEF Allowed, E
<1> QED BY <1>7, <1>10 DEF K, E

LEMMA CellRead ==
  ASSUME NEW n \in Networks, NEW seeds, NEW C, NEW M, NEW D, NEW Sc,
         Allowed(n, seeds, C, M, D, Sc), net = Stored(n), NEW item, NEW stage \in {"cue", "hits"},
         stage = "cue" => item \in seeds, stage = "hits" => item \in Heads(n, Sc)
  PROVE  \E E : /\ Extended(Snapshot(n, C, M, D, Sc), stage, item) =
                     Snapshot(n, C \cup E, M \cup {item}, D, Sc)
                /\ Allowed(n, seeds, C \cup E, M \cup {item}, D, Sc)
<1> DEFINE E == IF stage = "cue" THEN {item} ELSE {}
           K == Snapshot(n, C, M, D, Sc)
<1>1. /\ ~Structural(stage) /\ Members(stage, item) = {} /\ Outgoing(stage, item) = {}
      /\ Added(stage, item) = E /\ stage # "outgoing"
  BY DEF Structural, Members, Outgoing, Added
<1>2. /\ K.cells = C /\ K.memberships = Restrict(Memberships(n), M) /\ DOMAIN K.memberships = M
      /\ K.assemblies = Restrict(n.assemblies, D) /\ K.local = Restrict(n.local, Within(n, D))
      /\ K.associative = Restrict(n.associative, Hops(n, Sc)) /\ K.scanned = Sc
  BY DEF Snapshot, Restrict
<1>3. /\ net.memberships = Memberships(n) /\ net.local = n.local /\ net.associative = n.associative
  BY DEF Stored
<1>4. Known(K, stage, item) = Restrict(Memberships(n), M \cup {item})
  <2>1. Looked(K, stage, item) = {item} \ M
    BY <1>1, <1>2 DEF Looked
  <2>2. M \cup ({item} \ M) = M \cup {item}
    OBVIOUS
  <2> QED BY <1>2, <1>3, <2>1, <2>2, OverRestrictions DEF Known
<1>5. Over(Restrict(net.local, DOMAIN net.local \cap ({} \X {})), K.local) = K.local
  <2>1. (DOMAIN n.local \cap ({} \X {})) \cup Within(n, D) = Within(n, D)
    OBVIOUS
  <2> QED BY <1>2, <1>3, <2>1, OverRestrictions
<1>6. Over(K.associative, Restrict(net.associative, {})) = K.associative
  <2>1. Hops(n, Sc) \cup {} = Hops(n, Sc)
    OBVIOUS
  <2> QED BY <1>2, <1>3, <2>1, OverRestrictions
<1> HIDE DEF K, E
<1>7. Extended(K, stage, item) = Snapshot(n, C \cup E, M \cup {item}, D, Sc)
  BY <1>1, <1>2, <1>4, <1>5, <1>6 DEF Extended, Snapshot
<1>8. Allowed(n, seeds, C \cup E, M \cup {item}, D, Sc)
  BY DEF Allowed, E
<1> QED BY <1>7, <1>8 DEF K

(* Every item to be read may be read.                                      *)
LEMMA ReadOn ==
  ASSUME NEW n \in Networks, NEW s, Partly(n, DOMAIN s.cue, s.capture), net = Stored(n),
         NEW i \in DOMAIN Stages, NEW item \in Unread(s, Stages[i])
  PROVE  Partly(n, DOMAIN s.cue, Extended(s.capture, Stages[i], item))
<1> DEFINE seeds == DOMAIN s.cue
           stage == Stages[i]
<1>1. PICK C, M, D, Sc : s.capture = Snapshot(n, C, M, D, Sc) /\ Allowed(n, seeds, C, M, D, Sc)
  BY DEF Partly
<1>2. /\ M \subseteq n.cells /\ Heads(n, Sc) \subseteq n.cells /\ D \subseteq DOMAIN n.assemblies
      /\ MembersOf(n, D) \subseteq n.cells
  BY <1>1, AllowedMeans
<1>3. DOMAIN s.capture.memberships = M /\ DOMAIN s.capture.assemblies = D /\ s.capture.scanned = Sc
      /\ Targets(s.capture) = Heads(n, Sc)
  BY <1>1, TargetsAre DEF Snapshot, Restrict
<1>4. stage \in {"cue", "sources", "outgoing", "hits", "targets"}
  BY DEF Stages
<1>5. \A X, Y : X \subseteq Y => Touching(n, X) \subseteq Touching(n, Y)
  BY DEF Touching
<1>6. CASE stage \in {"sources", "targets"}
  <2>1. item \in Touching(n, seeds) \cup Touching(n, Heads(n, Sc))
    <3>1. /\ Listed(s.capture, seeds) = Touching(n, seeds \cap M)
          /\ Listed(s.capture, Heads(n, Sc)) = Touching(n, Heads(n, Sc) \cap M)
      BY <1>1, <1>2, ListedIs
    <3> QED BY <1>3, <1>5, <1>6, <3>1 DEF Unread
  <2> DEFINE S == n.assemblies[item]
  <2> HIDE DEF stage, seeds
  <2>2. /\ Extended(Snapshot(n, C, M, D, Sc), stage, item) =
             Snapshot(n, C \cup S, M \cup S, D \cup {item}, Sc)
        /\ Allowed(n, seeds, C \cup S, M \cup S, D \cup {item}, Sc)
    <3>1. Allowed(n, seeds, C, M, D, Sc) /\ net = Stored(n) /\ n \in Networks
      BY <1>1
    <3> HIDE DEF S
    <3> QED BY <1>6, <2>1, <3>1, AssemblyRead, SMTT(30) DEF S
  <2>3. Partly(n, seeds, Extended(s.capture, stage, item))
    BY <1>1, <2>2 DEF Partly
  <2> QED BY <2>3 DEF stage, seeds
<1>7. CASE stage = "outgoing"
  <2>1. item \in SourceCells(s)
    BY <1>7 DEF Unread
  <2>2. SourceCells(s) = ((seeds \cap M) \ MembersOf(n, DOMAIN n.assemblies))
                           \cup MembersOf(n, Touching(n, seeds \cap M) \cap D)
    BY <1>1, <1>2, SourcesAre
  <2>3. /\ MembersOf(n, Touching(n, seeds \cap M) \cap D) \subseteq MembersOf(n, Touching(n, seeds))
        /\ MembersOf(n, Touching(n, seeds \cap M) \cap D) \subseteq MembersOf(n, D)
    BY <1>5 DEF MembersOf
  <2>4. item \in ActiveOf(n, seeds) /\ item \in seeds \cup MembersOf(n, D)
    BY <2>1, <2>2, <2>3 DEF ActiveOf
  <2> DEFINE E == {item} \cup Heads(n, {item})
  <2>5. /\ Extended(Snapshot(n, C, M, D, Sc), "outgoing", item) =
             Snapshot(n, C \cup E, M, D, Sc \cup {item})
        /\ Allowed(n, seeds, C \cup E, M, D, Sc \cup {item})
    BY <1>1, <2>4, SourceRead
  <2> HIDE DEF stage, seeds
  <2>6. Partly(n, seeds, Extended(s.capture, stage, item))
    BY <1>1, <1>7, <2>5 DEF Partly
  <2> QED BY <2>6 DEF stage, seeds
<1>8. CASE stage \in {"cue", "hits"}
  <2>1. (stage = "cue" => item \in seeds) /\ (stage = "hits" => item \in Heads(n, Sc))
    BY <1>3 DEF Unread
  <2>2. \E E : /\ Extended(Snapshot(n, C, M, D, Sc), stage, item) =
                    Snapshot(n, C \cup E, M \cup {item}, D, Sc)
               /\ Allowed(n, seeds, C \cup E, M \cup {item}, D, Sc)
    BY <1>1, <1>8, <2>1, CellRead
  <2> HIDE DEF stage, seeds
  <2>3. Partly(n, seeds, Extended(s.capture, stage, item))
    BY <1>1, <2>2 DEF Partly
  <2> QED BY <2>3 DEF stage, seeds
<1> QED BY <1>4, <1>6, <1>7, <1>8

-----------------------------------------------------------------------------
(* Products of fractions, in any order.                                    *)
Fractions == Int \X Int

LEMMA FractionsMultiply ==
  ASSUME NEW x \in Fractions, NEW y \in Fractions
  PROVE  /\ Times(x, y) \in Fractions /\ Times(x, y) = Times(y, x)
         /\ Times(x, One) = x /\ Times(One, x) = x /\ Rest(x) \in Fractions /\ One \in Fractions
<1>1. /\ x = <<x[1], x[2]>> /\ x[1] \in Int /\ x[2] \in Int /\ y[1] \in Int /\ y[2] \in Int
  BY DEF Fractions
<1>2. \A a, b \in Int : a * b \in Int /\ a * b = b * a /\ a * 1 = a /\ 1 * a = a
  OBVIOUS
<1> QED BY <1>1, <1>2 DEF Times, One, Rest, Fractions

LEMMA FractionsReorder ==
  ASSUME NEW x \in Fractions, NEW y \in Fractions, NEW z \in Fractions
  PROVE  /\ Times(x, Times(y, z)) = Times(y, Times(x, z))
         /\ Times(Times(x, y), z) = Times(x, Times(y, z))
<1>1. /\ x[1] \in Int /\ x[2] \in Int /\ y[1] \in Int /\ y[2] \in Int /\ z[1] \in Int /\ z[2] \in Int
  BY DEF Fractions
<1>2. \A a, b, c \in Int : a * (b * c) = b * (a * c) /\ (a * b) * c = a * (b * c)
  OBVIOUS
<1> QED BY <1>1, <1>2 DEF Times

Smaller(D, k) == {s \in SUBSET D : Cardinality(s) <= k}

Folded(h, f, s) ==
  IF s = {} THEN One ELSE Times(f[CHOOSE x \in s : TRUE], h[s \ {CHOOSE x \in s : TRUE}])

Folding(h, f, D) == h = [s \in SUBSET D |-> Folded(h, f, s)]

LEMMA OneFewer ==
  ASSUME NEW D, IsFiniteSet(D), NEW s \in SUBSET D, NEW x \in s
  PROVE  /\ IsFiniteSet(s) /\ Cardinality(s) \in Nat \ {0}
         /\ Cardinality(s \ {x}) = Cardinality(s) - 1 /\ s \ {x} \in SUBSET D
<1>1. IsFiniteSet(s)
  BY FS_Subset
<1>2. Cardinality(s) \in Nat /\ Cardinality(s) # 0
  BY <1>1, FS_CardinalityType, FS_EmptySet
<1>3. Cardinality(s \ {x}) = Cardinality(s) - 1
  BY <1>1, FS_RemoveElement
<1> QED BY <1>1, <1>2, <1>3

LEMMA OnlyEmpty ==
  ASSUME NEW D, IsFiniteSet(D), NEW s \in Smaller(D, 0)
  PROVE  s = {}
<1>1. s \in SUBSET D /\ Cardinality(s) <= 0
  BY DEF Smaller
<1>2. ASSUME NEW x \in s PROVE FALSE
  <2>1. Cardinality(s) \in Nat \ {0}
    BY <1>1, OneFewer
  <2> QED BY <1>1, <2>1
<1> QED BY <1>2

LEMMA CountUp ==
  ASSUME NEW N \in Nat, NEW T, 0 \in T, \A n \in 0 .. N - 1 : n \in T => n + 1 \in T
  PROVE  N \in T
<1> SUFFICES ASSUME N \notin T PROVE FALSE
  OBVIOUS
<1> DEFINE U == {n \in 0 .. N : n \notin T}
<1>1. U \subseteq Nat /\ N \in U
  OBVIOUS
<1>2. PICK m \in U : \A y \in U : m <= y
  BY <1>1, LeastMember
<1>3. m # 0 /\ m - 1 \in 0 .. N - 1
  BY <1>2
<1>4. m - 1 \in T
  BY <1>2, <1>3
<1> QED BY <1>2, <1>3, <1>4

LEMMA FoldingExists ==
  ASSUME NEW f, NEW D, IsFiniteSet(D)
  PROVE  \E h : Folding(h, f, D)
<1> DEFINE upto(h, k) == h = [s \in Smaller(D, k) |-> Folded(h, f, s)]
           T == {k \in Nat : \E h : upto(h, k)}
           N == Cardinality(D)
<1>1. N \in Nat
  BY FS_CardinalityType
<1>2. 0 \in T
  <2> DEFINE h == [s \in Smaller(D, 0) |-> One]
  <2>1. \A s \in Smaller(D, 0) : s = {}
    BY OnlyEmpty
  <2>2. h = [s \in Smaller(D, 0) |-> Folded(h, f, s)]
    BY <2>1 DEF Folded
  <2> QED BY <2>2
<1>3. ASSUME NEW k \in 0 .. N - 1, k \in T PROVE k + 1 \in T
  <2>1. PICK h : upto(h, k)
    BY <1>3
  <2> DEFINE g == [s \in Smaller(D, k + 1) |-> Folded(h, f, s)]
  <2>2. \A s \in Smaller(D, k) : g[s] = h[s] /\ s \in Smaller(D, k + 1)
    <3>1. \A s \in Smaller(D, k) : s \in Smaller(D, k + 1)
      <4> SUFFICES ASSUME NEW s \in Smaller(D, k) PROVE s \in Smaller(D, k + 1)
        OBVIOUS
      <4>1. IsFiniteSet(s) /\ Cardinality(s) \in Nat
        BY FS_Subset, FS_CardinalityType DEF Smaller
      <4> QED BY <4>1 DEF Smaller
    <3> QED BY <2>1, <3>1, Zenon
  <2>3. ASSUME NEW s \in Smaller(D, k + 1) PROVE Folded(h, f, s) = Folded(g, f, s)
    <3>1. CASE s = {}
      BY <3>1 DEF Folded
    <3>2. CASE s # {}
      <4> DEFINE x == CHOOSE y \in s : TRUE
      <4>1. x \in s
        BY <3>2
      <4> HIDE DEF x
      <4>2. s \ {x} \in Smaller(D, k)
        BY <4>1, OneFewer DEF Smaller
      <4>3. h[s \ {x}] = g[s \ {x}]
        BY <2>2, <4>2
      <4> HIDE DEF g
      <4> QED BY <3>2, <4>3, Zenon DEF Folded, x
    <3> QED BY <3>1, <3>2
  <2>4. upto(g, k + 1)
    <3>1. [s \in Smaller(D, k + 1) |-> Folded(h, f, s)] = [s \in Smaller(D, k + 1) |-> Folded(g, f, s)]
      BY <2>3, Zenon
    <3> QED BY <3>1, Zenon
  <2> HIDE DEF g
  <2>5. k + 1 \in Nat
    OBVIOUS
  <2> QED BY <2>4, <2>5, Zenon
<1> HIDE DEF T
<1>4. N \in T
  BY <1>1, <1>2, <1>3, CountUp
<1>5. PICK h : upto(h, N)
  BY <1>4 DEF T
<1>6. Smaller(D, N) = SUBSET D
  BY FS_Subset DEF Smaller
<1> QED BY <1>5, <1>6, Zenon DEF Folding

LEMMA ProductFolds ==
  ASSUME NEW f, IsFiniteSet(DOMAIN f)
  PROVE  \E h : Folding(h, f, DOMAIN f) /\ Product(f) = h[DOMAIN f]
<1> DEFINE k == CHOOSE h : h = [s \in SUBSET DOMAIN f |-> IF s = {} THEN One
                          ELSE Times(f[CHOOSE x \in s : TRUE], h[s \ {CHOOSE x \in s : TRUE}])]
<1>1. \E h : Folding(h, f, DOMAIN f)
  BY FoldingExists
<1>2. Folding(k, f, DOMAIN f)
  BY <1>1, Zenon DEF Folding, Folded
<1>3. Product(f) = k[DOMAIN f]
  BY Zenon DEF Product, FoldFunction, FoldFunctionOnSet, MapThenFoldSet
<1> QED BY <1>2, <1>3, Zenon

(* One factor after another, whichever is taken first.                     *)
LEMMA FoldingTakes ==
  ASSUME NEW f, NEW D, IsFiniteSet(D), \A x \in D : f[x] \in Fractions, NEW h, Folding(h, f, D)
  PROVE  \A s \in SUBSET D : h[s] \in Fractions /\ \A x \in s : h[s] = Times(f[x], h[s \ {x}])
<1> DEFINE takes(s) == h[s] \in Fractions /\ \A x \in s : h[s] = Times(f[x], h[s \ {x}])
           T == {k \in Nat : \A s \in Smaller(D, k) : takes(s)}
           N == Cardinality(D)
<1>1. N \in Nat
  BY FS_CardinalityType
<1>2. \A s \in SUBSET D : h[s] = Folded(h, f, s)
  BY DEF Folding
<1>3. takes({})
  <2>1. h[{}] = One
    BY <1>2 DEF Folded
  <2> QED BY <2>1 DEF One, Fractions
<1>4. 0 \in T
  <2>1. \A s \in Smaller(D, 0) : s = {}
    BY OnlyEmpty
  <2> HIDE DEF takes
  <2> QED BY <1>3, <2>1
<1>5. ASSUME NEW k \in 0 .. N - 1, k \in T PROVE k + 1 \in T
  <2> SUFFICES ASSUME NEW s \in Smaller(D, k + 1) PROVE takes(s)
    <3> HIDE DEF takes
    <3> QED OBVIOUS
  <2>1. CASE s = {}
    <3> HIDE DEF takes
    <3> QED BY <1>3, <2>1
  <2>2. CASE s # {}
    <3>1. s \in SUBSET D /\ Cardinality(s) <= k + 1
      BY DEF Smaller
    <3>2. ASSUME NEW x \in s PROVE s \ {x} \in Smaller(D, k)
      BY <3>1, OneFewer DEF Smaller
    <3>3. ASSUME NEW r \in Smaller(D, k) PROVE takes(r)
      <4> HIDE DEF takes
      <4> QED BY <1>5
    <3>4. \A x \in s : f[x] \in Fractions
      BY <3>1
    <3> DEFINE c == CHOOSE y \in s : TRUE
    <3>5. c \in s /\ h[s] = Times(f[c], h[s \ {c}])
      BY <1>2, <2>2, <3>1, Zenon DEF Folded
    <3> HIDE DEF c
    <3>6. h[s] \in Fractions
      BY <3>2, <3>3, <3>4, <3>5, FractionsMultiply
    <3>7. ASSUME NEW x \in s, x # c PROVE h[s] = Times(f[x], h[s \ {x}])
      <4> DEFINE r == (s \ {c}) \ {x}
      <4>1. r = (s \ {x}) \ {c}
        OBVIOUS
      <4>2. h[s \ {c}] = Times(f[x], h[r]) /\ h[s \ {x}] = Times(f[c], h[r])
        BY <3>2, <3>3, <3>5, <3>7, <4>1
      <4>3. r \in Smaller(D, k)
        <5>1. s \ {c} \in SUBSET D /\ Cardinality(s \ {c}) <= k /\ x \in s \ {c} /\ k \in Nat
          BY <3>2, <3>5, <3>7 DEF Smaller
        <5>2. r \in SUBSET D /\ Cardinality(r) <= k
          BY <5>1, OneFewer
        <5> QED BY <5>2 DEF Smaller
      <4>4. h[r] \in Fractions /\ f[x] \in Fractions /\ f[c] \in Fractions
        BY <3>3, <3>4, <3>5, <4>3
      <4> HIDE DEF r
      <4> QED BY <3>5, <4>2, <4>4, FractionsReorder
    <3> QED BY <3>5, <3>6, <3>7
  <2> QED BY <2>1, <2>2
<1> HIDE DEF T
<1>6. N \in T
  BY <1>1, <1>4, <1>5, CountUp
<1>7. \A s \in Smaller(D, N) : takes(s)
  <2> HIDE DEF takes
  <2> QED BY <1>6 DEF T
<1>8. Smaller(D, N) = SUBSET D
  BY FS_Subset DEF Smaller
<1> QED BY <1>7, <1>8

(* Two foldings of what is the same agree.                                 *)
LEMMA FoldingsAgree ==
  ASSUME NEW f, NEW D, NEW g, NEW E \in SUBSET D, IsFiniteSet(D), NEW h, NEW i, Folding(h, f, D),
         Folding(i, g, E), \A x \in E : g[x] = f[x]
  PROVE  i[E] = h[E]
<1> DEFINE T == {k \in Nat : \A s \in Smaller(E, k) : i[s] = h[s]}
           N == Cardinality(E)
<1>1. IsFiniteSet(E) /\ N \in Nat
  BY FS_CardinalityType, FS_Subset
<1>2. \A s \in SUBSET E : h[s] = Folded(h, f, s) /\ i[s] = Folded(i, g, s)
  BY DEF Folding
<1>3. h[{}] = One /\ i[{}] = One
  BY <1>2 DEF Folded
<1>4. 0 \in T
  <2>1. \A s \in Smaller(E, 0) : s = {}
    BY <1>1, OnlyEmpty
  <2> QED BY <1>3, <2>1
<1>5. ASSUME NEW k \in 0 .. N - 1, k \in T PROVE k + 1 \in T
  <2> SUFFICES ASSUME NEW s \in Smaller(E, k + 1), s # {} PROVE i[s] = h[s]
    BY <1>3
  <2>1. s \in SUBSET E /\ Cardinality(s) <= k + 1
    BY DEF Smaller
  <2>2. ASSUME NEW x \in s PROVE i[s \ {x}] = h[s \ {x}]
    <3>1. s \ {x} \in Smaller(E, k)
      BY <1>1, <2>1, OneFewer DEF Smaller
    <3> QED BY <1>5, <3>1
  <2> DEFINE c == CHOOSE y \in s : TRUE
  <2>3. c \in s
    OBVIOUS
  <2>4. h[s] = Times(f[c], h[s \ {c}]) /\ i[s] = Times(g[c], i[s \ {c}])
    BY <1>2, <2>1, Zenon DEF Folded
  <2> HIDE DEF c
  <2> QED BY <2>1, <2>2, <2>3, <2>4
<1> HIDE DEF T
<1>6. N \in T
  BY <1>1, <1>4, <1>5, CountUp
<1>7. E \in Smaller(E, N)
  BY <1>1 DEF Smaller
<1> QED BY <1>6, <1>7 DEF T

LEMMA ProductSteps ==
  ASSUME NEW f, IsFiniteSet(DOMAIN f), \A x \in DOMAIN f : f[x] \in Fractions
  PROVE  /\ Product(f) \in Fractions
         /\ DOMAIN f = {} => Product(f) = One
         /\ \A x \in DOMAIN f : Product(f) = Times(f[x], Product(Restrict(f, DOMAIN f \ {x})))
<1>1. PICK h : Folding(h, f, DOMAIN f) /\ Product(f) = h[DOMAIN f]
  BY ProductFolds
<1>2. \A s \in SUBSET DOMAIN f : h[s] \in Fractions /\ \A x \in s : h[s] = Times(f[x], h[s \ {x}])
  BY <1>1, FoldingTakes
<1>3. DOMAIN f = {} => Product(f) = One
  BY <1>1 DEF Folding, Folded
<1>4. ASSUME NEW x \in DOMAIN f
      PROVE  Product(Restrict(f, DOMAIN f \ {x})) = h[DOMAIN f \ {x}]
  <2> DEFINE E == DOMAIN f \ {x}
             g == Restrict(f, E)
  <2>1. DOMAIN g = E /\ \A y \in E : g[y] = f[y]
    BY DEF Restrict
  <2>2. IsFiniteSet(E) /\ E \in SUBSET DOMAIN f
    BY FS_Subset
  <2> HIDE DEF E, g
  <2>3. PICK i : Folding(i, g, DOMAIN g) /\ Product(g) = i[DOMAIN g]
    BY <2>1, <2>2, ProductFolds
  <2>4. Product(g) = h[E]
    BY <1>1, <2>1, <2>2, <2>3, FoldingsAgree
  <2> QED BY <2>4 DEF E, g
<1> QED BY <1>1, <1>2, <1>3, <1>4

(* The product of the whole is that of two parts.                          *)
LEMMA ProductSplits ==
  ASSUME NEW f, IsFiniteSet(DOMAIN f), \A x \in DOMAIN f : f[x] \in Fractions,
         f = [x \in DOMAIN f |-> f[x]], NEW B \in SUBSET DOMAIN f
  PROVE  Product(f) = Times(Product(Restrict(f, DOMAIN f \ B)), Product(Restrict(f, B)))
<1> DEFINE D == DOMAIN f
           part(s) == Product(Restrict(f, s))
           T == {k \in Nat : \A s \in SUBSET D, r \in SUBSET D :
                               s \cap r = {} /\ Cardinality(r) = k => part(s \cup r) = Times(part(s), part(r))}
           N == Cardinality(B)
<1>1. IsFiniteSet(B) /\ N \in Nat
  BY FS_Subset, FS_CardinalityType
<1>2. ASSUME NEW s \in SUBSET D
      PROVE  /\ part(s) \in Fractions /\ (s = {} => part(s) = One)
             /\ \A x \in s : part(s) = Times(f[x], part(s \ {x})) /\ f[x] \in Fractions
  <2> DEFINE g == Restrict(f, s)
  <2>1. DOMAIN g = s /\ IsFiniteSet(s) /\ \A x \in s : g[x] = f[x] /\ f[x] \in Fractions
    BY FS_Subset DEF Restrict
  <2>2. \A x \in s : Restrict(g, s \ {x}) = Restrict(f, s \ {x})
    BY <2>1 DEF Restrict
  <2> HIDE DEF g
  <2>3. /\ Product(g) \in Fractions /\ (DOMAIN g = {} => Product(g) = One)
        /\ \A x \in DOMAIN g : Product(g) = Times(g[x], Product(Restrict(g, DOMAIN g \ {x})))
    BY <2>1, ProductSteps
  <2> QED BY <2>1, <2>2, <2>3 DEF g
<1> HIDE DEF part
<1>3. 0 \in T
  <2> SUFFICES ASSUME NEW s \in SUBSET D, NEW r \in SUBSET D, s \cap r = {}, Cardinality(r) = 0
               PROVE  part(s \cup r) = Times(part(s), part(r))
    OBVIOUS
  <2>1. r = {} /\ s \cup r = s
    BY FS_Subset, FS_EmptySet
  <2>2. part(s) \in Fractions /\ part(r) = One
    BY <1>2, <2>1
  <2> QED BY <2>1, <2>2, FractionsMultiply
<1>4. ASSUME NEW k \in 0 .. N - 1, k \in T PROVE k + 1 \in T
  <2> SUFFICES ASSUME NEW s \in SUBSET D, NEW r \in SUBSET D, s \cap r = {}, Cardinality(r) = k + 1
               PROVE  part(s \cup r) = Times(part(s), part(r))
    OBVIOUS
  <2>1. PICK x \in r : TRUE
    BY FS_EmptySet
  <2>2. /\ Cardinality(r \ {x}) = k /\ r \ {x} \in SUBSET D /\ s \cap (r \ {x}) = {}
        /\ (s \cup r) \ {x} = s \cup (r \ {x}) /\ s \cup r \in SUBSET D /\ x \in s \cup r
    BY OneFewer
  <2>3. part(s \cup (r \ {x})) = Times(part(s), part(r \ {x}))
    BY <1>4, <2>2
  <2>4. part(s \cup r) = Times(f[x], part(s \cup (r \ {x}))) /\ part(r) = Times(f[x], part(r \ {x}))
        /\ f[x] \in Fractions
    BY <1>2, <2>2
  <2>5. part(s) \in Fractions /\ part(r \ {x}) \in Fractions
    BY <1>2, <2>2
  <2> QED BY <2>3, <2>4, <2>5, FractionsReorder
<1> HIDE DEF T
<1>5. N \in T
  BY <1>1, <1>3, <1>4, CountUp
<1>6. part((D \ B) \cup B) = Times(part(D \ B), part(B))
  BY <1>5 DEF T
<1>7. Restrict(f, (D \ B) \cup B) = f
  <2>1. (D \ B) \cup B = D
    OBVIOUS
  <2> QED BY <2>1 DEF Restrict
<1> QED BY <1>6, <1>7 DEF part

-----------------------------------------------------------------------------
(* Lanes.  What a lane keeps of the cells that may still join it is what   *)
(* it would compute anew.                                                  *)
LEMMA LinkedIs ==
  ASSUME NEW local, NEW S, \A k \in DOMAIN local : local[k] \in Int
  PROVE  /\ \A c, d : Quality(local, c, d) \in Int /\ Quality(local, c, d) = Quality(local, d, c)
         /\ \A c : Linked(local, S, c) \subseteq S /\ c \notin Linked(local, S, c)
         /\ \A c \in S, d \in S : d \in Linked(local, S, c) <=> c \in Linked(local, S, d)
<1>1. \A x \in Int, y \in Int : Min({x, y}) \in Int
  <2> SUFFICES ASSUME NEW x \in Int, NEW y \in Int PROVE Min({x, y}) \in Int
    OBVIOUS
  <2>1. \E z \in {x, y} : \A w \in {x, y} : z =< w
    <3>1. CASE x =< y
      BY <3>1
    <3>2. CASE y =< x
      BY <3>2
    <3> QED BY <3>1, <3>2
  <2>2. Min({x, y}) \in {x, y}
    BY <2>1 DEF Min
  <2> QED BY <2>2
<1>2. \A c, d : Quality(local, c, d) \in Int /\ Quality(local, c, d) = Quality(local, d, c)
  <2> SUFFICES ASSUME NEW c, NEW d
               PROVE  Quality(local, c, d) \in Int /\ Quality(local, c, d) = Quality(local, d, c)
    OBVIOUS
  <2>1. {local[<<c, d>>], local[<<d, c>>]} = {local[<<d, c>>], local[<<c, d>>]}
        /\ {<<c, d>>, <<d, c>>} = {<<d, c>>, <<c, d>>}
    OBVIOUS
  <2> QED BY <1>1, <2>1 DEF Quality
<1>3. \A c : Linked(local, S, c) \subseteq S /\ c \notin Linked(local, S, c)
  BY DEF Linked
<1>4. \A c \in S, d \in S : d \in Linked(local, S, c) <=> c \in Linked(local, S, d)
  BY <1>2 DEF Linked
<1> QED BY <1>2, <1>3, <1>4

Drives(lane, S) ==
  DOMAIN lane.drive \subseteq S /\ \A c \in DOMAIN lane.drive : lane.drive[c] \in Fractions

LEMMA FactorsAre ==
  ASSUME NEW x \in Fractions, NEW q \in Int
  PROVE  Unsupported(x, Half(q)) \in Fractions
<1>1. Half(q) \in Fractions
  BY DEF Half, Fractions
<1> QED BY <1>1, FractionsMultiply DEF Unsupported

LEMMA LeftIs ==
  ASSUME NEW local, NEW S, \A k \in DOMAIN local : local[k] \in Int, IsFiniteSet(S),
         NEW lane, Drives(lane, S), NEW c, NEW supporters \in SUBSET DOMAIN lane.drive
  PROVE  Left(lane, local, c, supporters) \in Fractions
<1> DEFINE f == [d \in supporters |-> Unsupported(lane.drive[d], Half(Quality(local, c, d)))]
<1>1. IsFiniteSet(supporters)
  BY FS_Subset DEF Drives
<1>2. \A d \in supporters : f[d] \in Fractions
  BY LinkedIs, FactorsAre DEF Drives
<1> HIDE DEF f
<1>3. DOMAIN f = supporters
  BY DEF f
<1>4. Product(f) \in Fractions
  BY <1>1, <1>2, <1>3, ProductSteps
<1> QED BY <1>4 DEF Left, f

LEMMA LeftGrows ==
  ASSUME NEW local, NEW S, \A k \in DOMAIN local : local[k] \in Int, IsFiniteSet(S),
         NEW lane, NEW next, Drives(lane, S), Drives(next, S), DOMAIN lane.drive \subseteq DOMAIN next.drive,
         \A d \in DOMAIN lane.drive : next.drive[d] = lane.drive[d],
         NEW c, NEW supporters \in SUBSET DOMAIN next.drive
  PROVE  Left(next, local, c, supporters) =
           Times(Left(lane, local, c, supporters \cap DOMAIN lane.drive),
                 Left(next, local, c, supporters \ DOMAIN lane.drive))
<1> DEFINE f == [d \in supporters |-> Unsupported(next.drive[d], Half(Quality(local, c, d)))]
           B == supporters \ DOMAIN lane.drive
<1>1. IsFiniteSet(supporters)
  BY FS_Subset DEF Drives
<1>2. \A d \in supporters : f[d] \in Fractions
  BY LinkedIs, FactorsAre DEF Drives
<1>3. DOMAIN f = supporters /\ f = [d \in DOMAIN f |-> f[d]]
  OBVIOUS
<1>4. Restrict(f, supporters \ B) =
        [d \in supporters \cap DOMAIN lane.drive |-> Unsupported(lane.drive[d], Half(Quality(local, c, d)))]
  <2>1. supporters \ B = supporters \cap DOMAIN lane.drive
    OBVIOUS
  <2>2. \A d \in supporters \cap DOMAIN lane.drive :
          f[d] = Unsupported(lane.drive[d], Half(Quality(local, c, d)))
    OBVIOUS
  <2> HIDE DEF f, B
  <2> QED BY <2>1, <2>2, Zenon DEF Restrict
<1>5. Restrict(f, B) = [d \in B |-> Unsupported(next.drive[d], Half(Quality(local, c, d)))]
  BY Zenon DEF Restrict
<1>6. Left(next, local, c, supporters) = Product(f)
  BY Zenon DEF Left
<1> HIDE DEF f
<1>7. Product(f) = Times(Product(Restrict(f, DOMAIN f \ B)), Product(Restrict(f, B)))
  BY <1>1, <1>2, <1>3, ProductSplits
<1> QED BY <1>3, <1>4, <1>5, <1>6, <1>7, Zenon DEF Left

Bare(lane) == Restrict(lane, {"drive", "exact", "rounds"})

LEMMA LeftBeside ==
  ASSUME NEW drive, NEW exact, NEW rounds, NEW left
  PROVE  LET lane == Over([drive |-> drive, exact |-> exact, rounds |-> rounds], [left |-> left])
         IN /\ lane.drive = drive /\ lane.exact = exact /\ lane.rounds = rounds /\ lane.left = left
            /\ Bare(lane) = [drive |-> drive, exact |-> exact, rounds |-> rounds]
<1> DEFINE bare == [drive |-> drive, exact |-> exact, rounds |-> rounds]
           rest == [left |-> left]
           lane == Over(bare, rest)
<1>1. DOMAIN bare = {"drive", "exact", "rounds"} /\ DOMAIN rest = {"left"}
  OBVIOUS
<1>2. /\ DOMAIN lane = {"drive", "exact", "rounds", "left"}
      /\ \A x \in DOMAIN lane : lane[x] = IF x \in DOMAIN bare THEN bare[x] ELSE rest[x]
  BY <1>1 DEF Over
<1>3. lane.drive = drive /\ lane.exact = exact /\ lane.rounds = rounds /\ lane.left = left
  BY <1>1, <1>2
<1> HIDE DEF lane
<1>4. Bare(lane) = bare
  BY <1>3 DEF Bare, Restrict
<1> QED BY <1>3, <1>4 DEF lane

InStep(lane, local, S) ==
  /\ Drives(lane, S)
  /\ DOMAIN lane.left = {c \in S \ DOMAIN lane.drive : Support(lane, local, S, c) # {}}
  /\ \A c \in DOMAIN lane.left : lane.left[c] = LeftNow(lane, local, S, c)

LEMMA SeedsAreInStep ==
  ASSUME NEW local, NEW S, \A k \in DOMAIN local : local[k] \in Int, IsFiniteSet(S),
         NEW seeds, NEW exact, DOMAIN seeds \subseteq S, \A c \in DOMAIN seeds : seeds[c] \in Fractions
  PROVE  LET lane == Seeded(local, S, seeds, exact)
         IN /\ InStep(lane, local, S)
            /\ Bare(lane) = [drive |-> seeds, exact |-> exact, rounds |-> [c \in DOMAIN seeds |-> 0]]
<1> DEFINE bare  == [drive |-> seeds, exact |-> exact, rounds |-> [c \in DOMAIN seeds |-> 0]]
           front == Around(local, S, DOMAIN seeds) \ DOMAIN seeds
           left  == [c \in front |-> Left(bare, local, c, Linked(local, S, c) \cap DOMAIN seeds)]
           lane  == Seeded(local, S, seeds, exact)
<1>1. lane = Over(bare, [left |-> left])
  BY DEF Seeded
<1>2. lane.drive = seeds /\ lane.left = left /\ Bare(lane) = bare
  <2> HIDE DEF lane, left
  <2> QED BY <1>1, LeftBeside
<1>3. front = {c \in S \ DOMAIN seeds : Linked(local, S, c) \cap DOMAIN seeds # {}}
  <2>1. \A c : c \in Around(local, S, DOMAIN seeds) <=> \E d \in DOMAIN seeds : c \in Linked(local, S, d)
    BY DEF Around
  <2>2. \A c, d : c \in Linked(local, S, d) => c \in S
    BY LinkedIs
  <2>3. \A c \in S, d \in DOMAIN seeds : d \in Linked(local, S, c) <=> c \in Linked(local, S, d)
    BY LinkedIs
  <2> QED BY <2>1, <2>2, <2>3
<1>4. \A c : /\ Support(lane, local, S, c) = Linked(local, S, c) \cap DOMAIN seeds
             /\ LeftNow(lane, local, S, c) = Left(bare, local, c, Linked(local, S, c) \cap DOMAIN seeds)
  BY <1>2, Zenon DEF Support, LeftNow, Left
<1>5. DOMAIN left = front /\ \A c \in front : left[c] = Left(bare, local, c, Linked(local, S, c) \cap DOMAIN seeds)
  OBVIOUS
<1> HIDE DEF lane, left, front
<1>6. InStep(lane, local, S)
  BY <1>2, <1>3, <1>4, <1>5 DEF InStep, Drives
<1> QED BY <1>2, <1>6 DEF lane

(* One round: who joins, and what is kept of the others, is as from        *)
(* scratch.                                                                *)
LEMMA RoundsAreInStep ==
  ASSUME NEW local, NEW S, \A k \in DOMAIN local : local[k] \in Int, IsFiniteSet(S),
         NEW lane, InStep(lane, local, S), NEW n
  PROVE  LET next == Round(lane, local, S, n)
         IN InStep(next, local, S) /\ Bare(next) = Joined(Bare(lane), local, S, n)
<1> DEFINE old   == Bare(lane)
           new   == Proposed(lane, local, S)
           exact == {c \in new : ExactlyDriven(lane, local, S, c)}
           bare  == [drive  |-> Over(lane.drive, [c \in new |-> IF c \in exact THEN One
                                                                ELSE Rest(lane.left[c])]),
                     exact  |-> lane.exact \cup exact,
                     rounds |-> Over(lane.rounds, [c \in new |-> n])]
           front == (DOMAIN lane.left \cup Around(local, S, new)) \ DOMAIN bare.drive
           left  == [c \in front |-> Remains(lane, bare, local, S, c)]
           next  == Round(lane, local, S, n)
<1>1. /\ old.drive = lane.drive /\ old.exact = lane.exact /\ old.rounds = lane.rounds
      /\ \A c : /\ Support(old, local, S, c) = Support(lane, local, S, c)
                /\ LeftNow(old, local, S, c) = LeftNow(lane, local, S, c)
                /\ ExactlyDriven(old, local, S, c) <=> ExactlyDriven(lane, local, S, c)
  <2>1. old.drive = lane.drive /\ old.exact = lane.exact /\ old.rounds = lane.rounds
    BY DEF Bare, Restrict
  <2> HIDE DEF old
  <2> QED BY <2>1, Zenon DEF Support, LeftNow, Left, ExactlyDriven
<1>2. /\ Drives(lane, S)
      /\ DOMAIN lane.left = {c \in S \ DOMAIN lane.drive : Support(lane, local, S, c) # {}}
      /\ \A c \in DOMAIN lane.left : lane.left[c] = LeftNow(lane, local, S, c)
  BY DEF InStep
<1>3. new = Joining(old, local, S)
  <2> HIDE DEF old
  <2>1. \A c \in DOMAIN lane.left :
          (IF LimitPC[1] = 0 THEN ExactlyDriven(lane, local, S, c) ELSE AtMost(lane.left[c], LimitPC))
            <=> (IF LimitPC[1] = 0 THEN ExactlyDriven(old, local, S, c)
                 ELSE AtMost(LeftNow(old, local, S, c), LimitPC))
    BY <1>1, <1>2, Zenon
  <2>2. DOMAIN lane.left = {c \in S \ DOMAIN old.drive : Support(old, local, S, c) # {}}
    BY <1>1, <1>2
  <2> QED BY <2>1, <2>2 DEF Proposed, Joining
<1>4. bare = Joined(old, local, S, n)
  <2>1. exact = {c \in new : ExactlyDriven(old, local, S, c)}
    BY <1>1
  <2>2. \A c \in new : lane.left[c] = LeftNow(old, local, S, c)
    BY <1>1, <1>2 DEF Proposed
  <2> HIDE DEF old, new, exact
  <2>3. [c \in new |-> IF c \in exact THEN One ELSE Rest(lane.left[c])] =
          [c \in new |-> IF c \in exact THEN One ELSE Rest(LeftNow(old, local, S, c))]
    BY <2>2, Zenon
  <2> QED BY <1>1, <1>3, <2>1, <2>3, Zenon DEF Joined
<1>5. next.drive = bare.drive /\ next.left = left /\ Bare(next) = bare
  <2>1. next = Over(bare, [left |-> left])
    BY Zenon DEF Round
  <2> HIDE DEF next, left, exact, new
  <2> QED BY <2>1, LeftBeside
<1>6. /\ DOMAIN bare.drive = DOMAIN lane.drive \cup new
      /\ \A c \in DOMAIN lane.drive : bare.drive[c] = lane.drive[c]
      /\ \A c \in new \ DOMAIN lane.drive : bare.drive[c] = IF c \in exact THEN One ELSE Rest(lane.left[c])
  <2> HIDE DEF new, exact
  <2> QED BY DEF Over
<1>7. new \subseteq DOMAIN lane.left /\ new \cap DOMAIN lane.drive = {} /\ new \subseteq S
  BY <1>2 DEF Proposed
<1>8. \A c \in DOMAIN lane.left : lane.left[c] \in Fractions
  <2>1. \A c : Support(lane, local, S, c) \in SUBSET DOMAIN lane.drive
    BY DEF Support
  <2>2. \A c : LeftNow(lane, local, S, c) \in Fractions
    BY <1>2, <2>1, LeftIs DEF LeftNow
  <2> QED BY <1>2, <2>2
<1>9. Drives(bare, S)
  <2> HIDE DEF bare, new, exact
  <2>1. \A c \in new : Rest(lane.left[c]) \in Fractions /\ One \in Fractions
    BY <1>7, <1>8, FractionsMultiply
  <2> QED BY <1>2, <1>6, <1>7, <2>1 DEF Drives
<1> HIDE DEF old, new, exact
<1>10. front = {c \in S \ DOMAIN bare.drive : Linked(local, S, c) \cap DOMAIN bare.drive # {}}
  <2>1. \A c : c \in Around(local, S, new) <=> \E d \in new : c \in Linked(local, S, d)
    BY DEF Around
  <2>2. \A c, d : c \in Linked(local, S, d) => c \in S
    BY LinkedIs
  <2>3. \A c \in S, d \in new : d \in Linked(local, S, c) <=> c \in Linked(local, S, d)
    BY <1>7, LinkedIs
  <2> HIDE DEF bare
  <2> QED BY <1>2, <1>6, <2>1, <2>2, <2>3 DEF Support
<1>11. \A c : /\ Support(next, local, S, c) = Linked(local, S, c) \cap DOMAIN bare.drive
              /\ LeftNow(next, local, S, c) =
                   Left(bare, local, c, Linked(local, S, c) \cap DOMAIN bare.drive)
  BY <1>5, Zenon DEF Support, LeftNow, Left
<1> HIDE DEF bare
<1>12. ASSUME NEW c \in front
       PROVE  left[c] = Left(bare, local, c, Linked(local, S, c) \cap DOMAIN bare.drive)
  <2> DEFINE sup == Linked(local, S, c) \cap DOMAIN bare.drive
  <2>1. left[c] = Remains(lane, bare, local, S, c)
    BY <1>12
  <2>2. CASE c \in DOMAIN lane.left
    <3>1. Remains(lane, bare, local, S, c) =
            Times(lane.left[c], Left(bare, local, c, sup \ DOMAIN lane.drive))
      BY <2>2 DEF Remains
    <3>2. lane.left[c] = Left(lane, local, c, sup \cap DOMAIN lane.drive)
      <4>1. sup \cap DOMAIN lane.drive = Linked(local, S, c) \cap DOMAIN lane.drive
        BY <1>6
      <4> QED BY <1>2, <2>2, <4>1, Zenon DEF LeftNow, Support
    <3>3. Left(bare, local, c, sup) =
            Times(Left(lane, local, c, sup \cap DOMAIN lane.drive),
                  Left(bare, local, c, sup \ DOMAIN lane.drive))
      <4>1. sup \in SUBSET DOMAIN bare.drive
        OBVIOUS
      <4> HIDE DEF sup
      <4> QED BY <1>2, <1>6, <1>9, <4>1, LeftGrows
    <3> QED BY <2>1, <3>1, <3>2, <3>3
  <2>3. CASE c \notin DOMAIN lane.left
    BY <2>1, <2>3 DEF Remains
  <2> QED BY <2>2, <2>3
<1>13. InStep(next, local, S)
  <2>1. DOMAIN left = front
    OBVIOUS
  <2> HIDE DEF next, left, front
  <2> QED BY <1>5, <1>9, <1>10, <1>11, <1>12, <2>1 DEF InStep, Drives
<1> QED BY <1>4, <1>5, <1>13 DEF old

(* The rounds of a lane, and those from scratch.                           *)
LaneRuns(f, local, S, seeds, exact, N) ==
  f = [n \in 0 .. N |-> IF n = 0 THEN Seeded(local, S, seeds, exact) ELSE Round(f[n - 1], local, S, n)]

LEMMA LaneRunsOn ==
  ASSUME NEW local, NEW S, NEW seeds, NEW exact, NEW N \in Nat
  PROVE  \E f : LaneRuns(f, local, S, seeds, exact, N)
<1> DEFINE T == {n \in Nat : \E f : LaneRuns(f, local, S, seeds, exact, n)}
<1>1. 0 \in T
  <2> DEFINE f == [n \in 0 .. 0 |-> Seeded(local, S, seeds, exact)]
  <2>1. f = [n \in 0 .. 0 |-> IF n = 0 THEN Seeded(local, S, seeds, exact) ELSE Round(f[n - 1], local, S, n)]
    OBVIOUS
  <2> HIDE DEF f
  <2> QED BY <2>1, Zenon DEF LaneRuns
<1>2. ASSUME NEW k \in 0 .. N - 1, k \in T PROVE k + 1 \in T
  <2>1. PICK f : LaneRuns(f, local, S, seeds, exact, k)
    BY <1>2
  <2> DEFINE value(g, n) == IF n = 0 THEN Seeded(local, S, seeds, exact) ELSE Round(g[n - 1], local, S, n)
             h == [n \in 0 .. k + 1 |-> IF n = k + 1 THEN Round(f[k], local, S, k + 1) ELSE f[n]]
  <2>2. \A n \in 0 .. k : f[n] = value(f, n) /\ h[n] = f[n] /\ n \in 0 .. k + 1
    BY <2>1 DEF LaneRuns
  <2>3. ASSUME NEW n \in 0 .. k + 1 PROVE h[n] = value(h, n)
    <3>1. CASE n = 0
      <4>1. n \in 0 .. k
        BY <3>1
      <4>2. h[n] = f[n] /\ f[n] = value(f, n)
        BY <2>2, <4>1
      <4> HIDE DEF h
      <4> QED BY <3>1, <4>2
    <3>2. CASE n # 0 /\ n \in 0 .. k
      <4>1. n - 1 \in 0 .. k
        BY <3>2
      <4>2. h[n - 1] = f[n - 1] /\ h[n] = f[n] /\ f[n] = value(f, n)
        BY <2>2, <3>2, <4>1
      <4> HIDE DEF h
      <4> QED BY <3>2, <4>2
    <3>3. CASE n = k + 1
      <4>1. h[n - 1] = f[k] /\ n # 0 /\ h[n] = Round(f[k], local, S, n)
        BY <2>2, <3>3
      <4> HIDE DEF h
      <4> QED BY <4>1
    <3> QED BY <3>1, <3>2, <3>3
  <2>4. h = [n \in 0 .. k + 1 |-> value(h, n)]
    <3>1. h = [n \in 0 .. k + 1 |-> h[n]]
      OBVIOUS
    <3> HIDE DEF h, value
    <3> QED BY <2>3, <3>1, Zenon
  <2> HIDE DEF h
  <2>5. LaneRuns(h, local, S, seeds, exact, k + 1)
    BY <2>4, Zenon DEF LaneRuns
  <2>6. k + 1 \in Nat
    OBVIOUS
  <2> QED BY <2>5, <2>6, Zenon
<1> HIDE DEF T
<1>3. N \in T
  BY <1>1, <1>2, CountUp
<1> QED BY <1>3 DEF T

Unjoined(seeds, exact) ==
  [drive |-> seeds, exact |-> exact, rounds |-> [c \in DOMAIN seeds |-> 0]]

ScratchRuns(f, local, S, seeds, exact, N) ==
  f = [n \in 0 .. N |-> IF n = 0 THEN Unjoined(seeds, exact) ELSE Joined(f[n - 1], local, S, n)]

LEMMA ScratchRunsOn ==
  ASSUME NEW local, NEW S, NEW seeds, NEW exact, NEW N \in Nat
  PROVE  \E f : ScratchRuns(f, local, S, seeds, exact, N)
<1> DEFINE T == {n \in Nat : \E f : ScratchRuns(f, local, S, seeds, exact, n)}
<1>1. 0 \in T
  <2> DEFINE f == [n \in 0 .. 0 |-> Unjoined(seeds, exact)]
  <2>1. f = [n \in 0 .. 0 |-> IF n = 0 THEN Unjoined(seeds, exact) ELSE Joined(f[n - 1], local, S, n)]
    OBVIOUS
  <2> HIDE DEF f
  <2> QED BY <2>1, Zenon DEF ScratchRuns
<1>2. ASSUME NEW k \in 0 .. N - 1, k \in T PROVE k + 1 \in T
  <2>1. PICK f : ScratchRuns(f, local, S, seeds, exact, k)
    BY <1>2
  <2> DEFINE value(g, n) == IF n = 0 THEN Unjoined(seeds, exact) ELSE Joined(g[n - 1], local, S, n)
             h == [n \in 0 .. k + 1 |-> IF n = k + 1 THEN Joined(f[k], local, S, k + 1) ELSE f[n]]
  <2>2. \A n \in 0 .. k : f[n] = value(f, n) /\ h[n] = f[n] /\ n \in 0 .. k + 1
    BY <2>1 DEF ScratchRuns
  <2>3. ASSUME NEW n \in 0 .. k + 1 PROVE h[n] = value(h, n)
    <3>1. CASE n = 0
      <4>1. n \in 0 .. k
        BY <3>1
      <4>2. h[n] = f[n] /\ f[n] = value(f, n)
        BY <2>2, <4>1
      <4> HIDE DEF h
      <4> QED BY <3>1, <4>2
    <3>2. CASE n # 0 /\ n \in 0 .. k
      <4>1. n - 1 \in 0 .. k
        BY <3>2
      <4>2. h[n - 1] = f[n - 1] /\ h[n] = f[n] /\ f[n] = value(f, n)
        BY <2>2, <3>2, <4>1
      <4> HIDE DEF h
      <4> QED BY <3>2, <4>2
    <3>3. CASE n = k + 1
      <4>1. h[n - 1] = f[k] /\ n # 0 /\ h[n] = Joined(f[k], local, S, n)
        BY <2>2, <3>3
      <4> HIDE DEF h
      <4> QED BY <4>1
    <3> QED BY <3>1, <3>2, <3>3
  <2>4. h = [n \in 0 .. k + 1 |-> value(h, n)]
    <3>1. h = [n \in 0 .. k + 1 |-> h[n]]
      OBVIOUS
    <3> HIDE DEF h, value
    <3> QED BY <2>3, <3>1, Zenon
  <2> HIDE DEF h
  <2>5. ScratchRuns(h, local, S, seeds, exact, k + 1)
    BY <2>4, Zenon DEF ScratchRuns
  <2>6. k + 1 \in Nat
    OBVIOUS
  <2> QED BY <2>5, <2>6, Zenon
<1> HIDE DEF T
<1>3. N \in T
  BY <1>1, <1>2, CountUp
<1> QED BY <1>3 DEF T

LEMMA LaneIs ==
  ASSUME NEW local, NEW S, NEW seeds, NEW exact, IsFiniteSet(S)
  PROVE  \E f : /\ LaneRuns(f, local, S, seeds, exact, Cardinality(S))
                /\ Lane(local, S, seeds, exact) = Bare(f[Cardinality(S)])
<1> DEFINE N == Cardinality(S)
           f == CHOOSE g : g = [n \in 0 .. N |-> IF n = 0 THEN Seeded(local, S, seeds, exact)
                                                 ELSE Round(g[n - 1], local, S, n)]
<1>1. N \in Nat
  BY FS_CardinalityType
<1>2. \E g : LaneRuns(g, local, S, seeds, exact, N)
  BY <1>1, LaneRunsOn
<1>3. LaneRuns(f, local, S, seeds, exact, N)
  BY <1>2, Zenon DEF LaneRuns
<1>4. Lane(local, S, seeds, exact) = Bare(f[N])
  BY Zenon DEF Lane, Bare
<1> QED BY <1>3, <1>4, Zenon

LEMMA ScratchIs ==
  ASSUME NEW local, NEW S, NEW seeds, NEW exact, IsFiniteSet(S)
  PROVE  \E f : /\ ScratchRuns(f, local, S, seeds, exact, Cardinality(S))
                /\ FromScratch(local, S, seeds, exact) = f[Cardinality(S)]
<1> DEFINE N == Cardinality(S)
           f == CHOOSE g : g = [n \in 0 .. N |->
                  IF n = 0 THEN [drive |-> seeds, exact |-> exact, rounds |-> [c \in DOMAIN seeds |-> 0]]
                  ELSE Joined(g[n - 1], local, S, n)]
<1>1. N \in Nat
  BY FS_CardinalityType
<1>2. \E g : ScratchRuns(g, local, S, seeds, exact, N)
  BY <1>1, ScratchRunsOn
<1>3. ScratchRuns(f, local, S, seeds, exact, N)
  BY <1>2, Zenon DEF ScratchRuns, Unjoined
<1>4. FromScratch(local, S, seeds, exact) = f[N]
  BY Zenon DEF FromScratch
<1> QED BY <1>3, <1>4, Zenon

LEMMA LanesAreExact ==
  ASSUME NEW local, NEW S, \A k \in DOMAIN local : local[k] \in Int, IsFiniteSet(S),
         NEW seeds, NEW exact, DOMAIN seeds \subseteq S, \A c \in DOMAIN seeds : seeds[c] \in Fractions
  PROVE  /\ Lane(local, S, seeds, exact) = FromScratch(local, S, seeds, exact)
         /\ Drives(Lane(local, S, seeds, exact), S)
<1> DEFINE N == Cardinality(S)
<1>1. N \in Nat
  BY FS_CardinalityType
<1>2. PICK f : LaneRuns(f, local, S, seeds, exact, N) /\ Lane(local, S, seeds, exact) = Bare(f[N])
  BY LaneIs
<1>3. PICK g : ScratchRuns(g, local, S, seeds, exact, N) /\ FromScratch(local, S, seeds, exact) = g[N]
  BY ScratchIs
<1> DEFINE T == {n \in 0 .. N : InStep(f[n], local, S) /\ Bare(f[n]) = g[n]}
<1>4. 0 \in T
  <2>1. f[0] = Seeded(local, S, seeds, exact) /\ g[0] = Unjoined(seeds, exact)
    BY <1>1, <1>2, <1>3 DEF LaneRuns, ScratchRuns
  <2> QED BY <1>1, <2>1, SeedsAreInStep DEF Unjoined
<1>5. ASSUME NEW n \in 0 .. N - 1, n \in T PROVE n + 1 \in T
  <2>1. n + 1 \in 0 .. N /\ n + 1 # 0 /\ (n + 1) - 1 = n
    BY <1>1
  <2>2. f[n + 1] = Round(f[n], local, S, n + 1)
    <3>1. f[n + 1] = Round(f[(n + 1) - 1], local, S, n + 1)
      BY <1>2, <2>1, Zenon DEF LaneRuns
    <3> QED BY <2>1, <3>1
  <2>3. g[n + 1] = Joined(g[n], local, S, n + 1)
    <3>1. g[n + 1] = Joined(g[(n + 1) - 1], local, S, n + 1)
      BY <1>3, <2>1, Zenon DEF ScratchRuns
    <3> QED BY <2>1, <3>1
  <2>4. InStep(f[n], local, S) /\ Bare(f[n]) = g[n]
    BY <1>5
  <2>5. InStep(f[n + 1], local, S) /\ Bare(f[n + 1]) = g[n + 1]
    BY <2>2, <2>3, <2>4, RoundsAreInStep
  <2> QED BY <2>1, <2>5
<1> HIDE DEF T
<1>6. N \in T
  BY <1>1, <1>4, <1>5, CountUp
<1>7. InStep(f[N], local, S) /\ Bare(f[N]) = g[N]
  BY <1>6 DEF T
<1>8. Bare(f[N]).drive = f[N].drive
  BY DEF Bare, Restrict
<1> QED BY <1>2, <1>3, <1>7, <1>8 DEF InStep, Drives

(* A lane is the same in two networks whose assembly has the same links.   *)
LEMMA LanesAgree ==
  ASSUME NEW local, NEW other, NEW S, \A k \in DOMAIN local : local[k] \in Int,
         \A k \in DOMAIN other : other[k] \in Int, IsFiniteSet(S),
         \A c \in S, d \in S : Quality(other, c, d) = Quality(local, c, d),
         NEW seeds, NEW exact, DOMAIN seeds \subseteq S, \A c \in DOMAIN seeds : seeds[c] \in Fractions
  PROVE  Lane(other, S, seeds, exact) = Lane(local, S, seeds, exact)
<1> DEFINE N == Cardinality(S)
<1>1. N \in Nat
  BY FS_CardinalityType
<1>2. \A c \in S : Linked(other, S, c) = Linked(local, S, c) /\ Linked(local, S, c) \subseteq S
  BY DEF Linked
<1>3. ASSUME NEW lane, NEW n PROVE Joined(lane, other, S, n) = Joined(lane, local, S, n)
  <2>1. \A c \in S : /\ Support(lane, other, S, c) = Support(lane, local, S, c)
                     /\ Support(lane, local, S, c) \subseteq S
    BY <1>2 DEF Support
  <2>2. ASSUME NEW c \in S PROVE LeftNow(lane, other, S, c) = LeftNow(lane, local, S, c)
    <3> DEFINE sup == Support(lane, local, S, c)
    <3>1. \A d \in sup : Quality(other, c, d) = Quality(local, c, d)
      BY <2>1
    <3> HIDE DEF sup
    <3>2. [d \in sup |-> Unsupported(lane.drive[d], Half(Quality(other, c, d)))] =
            [d \in sup |-> Unsupported(lane.drive[d], Half(Quality(local, c, d)))]
      BY <3>1, Zenon
    <3>3. Left(lane, other, c, sup) = Left(lane, local, c, sup)
      BY <3>2, Zenon DEF Left
    <3> QED BY <2>1, <3>3 DEF LeftNow, sup
  <2>3. \A c \in S : ExactlyDriven(lane, other, S, c) <=> ExactlyDriven(lane, local, S, c)
    BY <1>2 DEF ExactlyDriven
  <2>4. Joining(lane, other, S) = Joining(lane, local, S)
    BY <2>1, <2>2, <2>3, Zenon DEF Joining
  <2> DEFINE new == Joining(lane, local, S)
  <2>5. new \subseteq S
    BY DEF Joining
  <2> HIDE DEF new
  <2>6. {c \in new : ExactlyDriven(lane, other, S, c)} = {c \in new : ExactlyDriven(lane, local, S, c)}
    BY <2>3, <2>5
  <2> DEFINE E == {c \in new : ExactlyDriven(lane, local, S, c)}
  <2> HIDE DEF E
  <2>7. [c \in new |-> IF c \in E THEN One ELSE Rest(LeftNow(lane, other, S, c))] =
          [c \in new |-> IF c \in E THEN One ELSE Rest(LeftNow(lane, local, S, c))]
    BY <2>2, <2>5, Zenon
  <2> QED BY <2>4, <2>6, <2>7, Zenon DEF Joined, new, E
<1>4. PICK f : ScratchRuns(f, local, S, seeds, exact, N) /\ FromScratch(local, S, seeds, exact) = f[N]
  BY ScratchIs
<1>5. PICK g : ScratchRuns(g, other, S, seeds, exact, N) /\ FromScratch(other, S, seeds, exact) = g[N]
  BY ScratchIs
<1> DEFINE T == {n \in 0 .. N : f[n] = g[n]}
<1>6. 0 \in T
  BY <1>1, <1>4, <1>5 DEF ScratchRuns
<1>7. ASSUME NEW n \in 0 .. N - 1, n \in T PROVE n + 1 \in T
  <2>1. n + 1 \in 0 .. N /\ n + 1 # 0 /\ (n + 1) - 1 = n
    BY <1>1
  <2>2. f[n + 1] = Joined(f[(n + 1) - 1], local, S, n + 1)
    BY <1>4, <2>1, Zenon DEF ScratchRuns
  <2>3. g[n + 1] = Joined(g[(n + 1) - 1], other, S, n + 1)
    BY <1>5, <2>1, Zenon DEF ScratchRuns
  <2>4. f[n] = g[n]
    BY <1>7
  <2> QED BY <1>3, <2>1, <2>2, <2>3, <2>4
<1> HIDE DEF T
<1>8. N \in T
  BY <1>1, <1>6, <1>7, CountUp
<1>9. FromScratch(other, S, seeds, exact) = FromScratch(local, S, seeds, exact)
  BY <1>4, <1>5, <1>8 DEF T
<1>10. Lane(other, S, seeds, exact) = FromScratch(other, S, seeds, exact)
  BY LanesAreExact
<1>11. Lane(local, S, seeds, exact) = FromScratch(local, S, seeds, exact)
  BY LanesAreExact
<1> QED BY <1>9, <1>10, <1>11

-----------------------------------------------------------------------------
(* What is captured suffices.  Whatever a retrieval asks of the network it *)
(* gets the same answer from the part that the cue can reach.              *)
Reach(n, cue) ==
  Touching(n, DOMAIN cue) \cup Touching(n, Heads(n, ActiveOf(n, DOMAIN cue)))

LEMMA ClosureIs ==
  ASSUME NEW n, NEW cue
  PROVE  LET Sc == ActiveOf(n, DOMAIN cue)
             D  == Reach(n, cue)
             C  == DOMAIN cue \cup Heads(n, Sc) \cup MembersOf(n, D)
         IN Closure(n, cue) = Snapshot(n, C, C, D, Sc)
BY DEF Closure, Snapshot, Touching, MembersOf, ActiveOf, Heads, Hops, Within, Reach

Agrees(K, n, cue) ==
  /\ \A c \in DOMAIN cue \cup Heads(n, ActiveOf(n, DOMAIN cue)) :
       K.memberships[c] = {a \in DOMAIN n.assemblies : c \in n.assemblies[a]}
  /\ \A a \in Reach(n, cue) :
       /\ K.assemblies[a] = n.assemblies[a]
       /\ \A c, d \in n.assemblies[a] : Quality(K.local, c, d) = Quality(n.local, c, d)
  /\ \A k \in DOMAIN K.local : K.local[k] \in Int
  /\ \A k : k[1] \in ActiveOf(n, DOMAIN cue) =>
       /\ k \in Consolidated(K) <=> k \in Consolidated(n)
       /\ k \in Consolidated(n) => K.associative[k] = n.associative[k]
  /\ Consolidated(K) \subseteq Consolidated(n)

LEMMA HeadsAreCells ==
  ASSUME NEW n \in Networks, NEW Sc
  PROVE  Heads(n, Sc) \subseteq n.cells
<1>1. \A k \in Hops(n, Sc) : k[2] \in n.cells
  BY NetworkIs DEF Hops
<1> QED BY <1>1 DEF Heads

LEMMA ClosureAgrees ==
  ASSUME NEW n \in Networks, NEW cue, DOMAIN cue \subseteq n.cells
  PROVE  Agrees(Closure(n, cue), n, cue)
<1> DEFINE Sc == ActiveOf(n, DOMAIN cue)
           D  == Reach(n, cue)
           C  == DOMAIN cue \cup Heads(n, Sc) \cup MembersOf(n, D)
           K  == Closure(n, cue)
<1>1. K = Snapshot(n, C, C, D, Sc)
  BY ClosureIs
<1> HIDE DEF K, C, D, Sc
<1>2. /\ K.memberships = Restrict(Memberships(n), C) /\ K.assemblies = Restrict(n.assemblies, D)
      /\ K.local = Restrict(n.local, Within(n, D)) /\ K.associative = Restrict(n.associative, Hops(n, Sc))
  BY <1>1 DEF Snapshot
<1>3. ASSUME NEW c \in DOMAIN cue \cup Heads(n, Sc)
      PROVE  K.memberships[c] = {a \in DOMAIN n.assemblies : c \in n.assemblies[a]}
  <2>1. c \in C
    BY DEF C
  <2>2. c \in Cells
    BY HeadsAreCells, NetworkIs
  <2> QED BY <1>2, <2>1, <2>2 DEF Restrict, Memberships
<1>4. ASSUME NEW a \in D, NEW c \in n.assemblies[a], NEW d \in n.assemblies[a]
      PROVE  Quality(K.local, c, d) = Quality(n.local, c, d)
  <2>1. DOMAIN K.local = Within(n, D) /\ \A k \in Within(n, D) : K.local[k] = n.local[k]
    BY <1>2 DEF Restrict
  <2>2. <<c, d>> \in DOMAIN n.local <=> <<c, d>> \in Within(n, D)
    BY DEF Within
  <2>3. <<d, c>> \in DOMAIN n.local <=> <<d, c>> \in Within(n, D)
    BY DEF Within
  <2>4. CASE <<c, d>> \in DOMAIN n.local /\ <<d, c>> \in DOMAIN n.local
    BY <2>1, <2>2, <2>3, <2>4, Zenon DEF Quality
  <2>5. CASE ~ (<<c, d>> \in DOMAIN n.local /\ <<d, c>> \in DOMAIN n.local)
    BY <2>1, <2>2, <2>3, <2>5 DEF Quality
  <2> QED BY <2>4, <2>5
<1>5. \A a \in D : K.assemblies[a] = n.assemblies[a]
  BY <1>2 DEF Restrict
<1>6. \A k \in DOMAIN K.local : K.local[k] \in Int
  BY <1>2, NetworkIs DEF Restrict, Within
<1>7. Consolidated(K) = Hops(n, Sc) /\ \A k \in Hops(n, Sc) : K.associative[k] = n.associative[k]
  BY <1>2 DEF Restrict, Consolidated, Hops
<1>8. /\ \A k : k[1] \in Sc =>
           /\ k \in Consolidated(K) <=> k \in Consolidated(n)
           /\ k \in Consolidated(n) => K.associative[k] = n.associative[k]
      /\ Consolidated(K) \subseteq Consolidated(n)
  BY <1>7 DEF Consolidated, Hops
<1> QED BY <1>3, <1>4, <1>5, <1>6, <1>8 DEF Agrees, D, K, Sc

LEMMA StoredAgrees ==
  ASSUME NEW n \in Networks, NEW cue, DOMAIN cue \subseteq n.cells
  PROVE  Agrees(Stored(n), n, cue)
<1>1. Heads(n, ActiveOf(n, DOMAIN cue)) \subseteq Cells /\ DOMAIN cue \subseteq Cells
  BY HeadsAreCells, NetworkIs
<1>2. /\ Stored(n).local = n.local /\ Stored(n).associative = n.associative
      /\ Stored(n).assemblies = n.assemblies /\ Stored(n).memberships = Memberships(n)
  BY DEF Stored
<1>3. \A c \in Cells : Memberships(n)[c] = {a \in DOMAIN n.assemblies : c \in n.assemblies[a]}
  BY DEF Memberships
<1>4. \A k \in DOMAIN n.local : n.local[k] \in Int
  BY NetworkIs
<1> QED BY <1>1, <1>2, <1>3, <1>4, Zenon DEF Agrees, Consolidated

Lawful(n, cue) ==
  n \in Networks /\ DOMAIN cue \subseteq n.cells /\ \A c \in DOMAIN cue : cue[c] \in Int

(* Lanes inside the assemblies that the cue can reach.                     *)
LEMMA ReachIs ==
  ASSUME NEW n, NEW cue, Lawful(n, cue), NEW a \in Reach(n, cue)
  PROVE  /\ a \in DOMAIN n.assemblies /\ n.assemblies[a] \subseteq n.cells
         /\ IsFiniteSet(n.assemblies[a])
<1>1. a \in DOMAIN n.assemblies
  BY DEF Reach, Touching
<1>2. n.assemblies[a] \subseteq n.cells /\ n.cells \subseteq Cells
  BY <1>1, NetworkIs DEF Lawful
<1> QED BY <1>1, <1>2, FS_Subset, RetrievalAssumption

LEMMA ReachedLanes ==
  ASSUME NEW n, NEW cue, Lawful(n, cue), NEW a \in Reach(n, cue), NEW K, Agrees(K, n, cue),
         NEW seeds, NEW exact, DOMAIN seeds \subseteq n.assemblies[a],
         \A c \in DOMAIN seeds : seeds[c] \in Fractions
  PROVE  LET lane == Lane(K.local, K.assemblies[a], seeds, exact)
         IN /\ lane = Lane(n.local, n.assemblies[a], seeds, exact)
            /\ lane = FromScratch(n.local, n.assemblies[a], seeds, exact)
            /\ Drives(lane, n.assemblies[a])
<1> DEFINE S == n.assemblies[a]
<1>1. /\ IsFiniteSet(S) /\ K.assemblies[a] = S
      /\ \A c \in S, d \in S : Quality(K.local, c, d) = Quality(n.local, c, d)
      /\ \A k \in DOMAIN K.local : K.local[k] \in Int
      /\ \A k \in DOMAIN n.local : n.local[k] \in Int
  BY ReachIs, NetworkIs DEF Agrees, Lawful
<1> HIDE DEF S
<1>2. Lane(K.local, S, seeds, exact) = Lane(n.local, S, seeds, exact)
  BY <1>1, LanesAgree DEF S
<1>3. /\ Lane(n.local, S, seeds, exact) = FromScratch(n.local, S, seeds, exact)
      /\ Drives(Lane(n.local, S, seeds, exact), S)
  BY <1>1, LanesAreExact DEF S
<1> QED BY <1>1, <1>2, <1>3 DEF S

(* The sources of a cue.                                                   *)
SourceIds(n, cue) ==
  {<<"assembly", a>> : a \in Touching(n, DOMAIN cue)}
    \cup {<<"atom", c>> : c \in {d \in DOMAIN cue : \A a \in DOMAIN n.assemblies : d \notin n.assemblies[a]}}

LEMMA SourcesHaveIds ==
  ASSUME NEW n, NEW cue, Lawful(n, cue), NEW K, Agrees(K, n, cue)
  PROVE  Sources(K, cue) =
           [x \in SourceIds(n, cue) |-> IF x[1] = "atom" THEN Atom(cue, x[2]) ELSE Source(K, cue, x[2])]
<1>1. \A c \in DOMAIN cue : K.memberships[c] = {a \in DOMAIN n.assemblies : c \in n.assemblies[a]}
  BY DEF Agrees
<1>2. (UNION {K.memberships[c] : c \in DOMAIN cue}) = Touching(n, DOMAIN cue)
  <2>1. \A a : a \in (UNION {K.memberships[c] : c \in DOMAIN cue}) <=>
                 \E c \in DOMAIN cue : a \in K.memberships[c]
    OBVIOUS
  <2>2. \A a : a \in Touching(n, DOMAIN cue) <=> \E c \in DOMAIN cue : a \in K.memberships[c]
    BY <1>1 DEF Touching
  <2> QED BY <2>1, <2>2
<1>3. {c \in DOMAIN cue : K.memberships[c] = {}} =
        {d \in DOMAIN cue : \A a \in DOMAIN n.assemblies : d \notin n.assemblies[a]}
  BY <1>1
<1> QED BY <1>2, <1>3, Zenon DEF Sources, SourceIds

LEMMA SeedsAgree ==
  ASSUME NEW n, NEW cue, Lawful(n, cue), NEW K, Agrees(K, n, cue), NEW a \in Touching(n, DOMAIN cue)
  PROVE  /\ a \in Reach(n, cue) /\ Seeds(K, cue, a) = Seeds(n, cue, a)
         /\ Driven(K, cue, a) = Driven(n, cue, a)
         /\ DOMAIN Seeds(n, cue, a).drive \subseteq n.assemblies[a]
         /\ \A c \in DOMAIN Seeds(n, cue, a).drive : Seeds(n, cue, a).drive[c] \in Fractions
<1>1. a \in Reach(n, cue) /\ K.assemblies[a] = n.assemblies[a]
  BY DEF Reach, Agrees
<1>2. Driven(K, cue, a) = Driven(n, cue, a)
  BY <1>1 DEF Driven
<1>3. Seeds(K, cue, a) = Seeds(n, cue, a)
  BY <1>2, Zenon DEF Seeds
<1>4. /\ DOMAIN Driven(n, cue, a) = DOMAIN cue \cap n.assemblies[a]
      /\ \A c \in DOMAIN cue \cap n.assemblies[a] : Driven(n, cue, a)[c] = cue[c]
  BY DEF Driven, Restrict
<1>5. /\ DOMAIN Seeds(n, cue, a).drive = DOMAIN cue \cap n.assemblies[a]
      /\ \A c \in DOMAIN cue \cap n.assemblies[a] : Seeds(n, cue, a).drive[c] = Half(cue[c])
  BY <1>4 DEF Seeds
<1>6. \A c \in DOMAIN cue : Half(cue[c]) \in Fractions
  BY DEF Lawful, Half, Fractions
<1> QED BY <1>1, <1>2, <1>3, <1>5, <1>6

LEMMA SourcesAgree ==
  ASSUME NEW n, NEW cue, Lawful(n, cue), NEW K, Agrees(K, n, cue)
  PROVE  /\ Sources(K, cue) = [x \in SourceIds(n, cue) |->
                                 IF x[1] = "atom" THEN Atom(cue, x[2]) ELSE Source(n, cue, x[2])]
         /\ \A x \in SourceIds(n, cue) :
              /\ Drives(Sources(K, cue)[x], ActiveOf(n, DOMAIN cue))
              /\ x[1] = "assembly" =>
                   Sources(K, cue)[x] = FromScratch(n.local, n.assemblies[x[2]], Seeds(n, cue, x[2]).drive,
                                                    Seeds(n, cue, x[2]).exact)
<1> DEFINE Sc == ActiveOf(n, DOMAIN cue)
<1>1. ASSUME NEW a \in Touching(n, DOMAIN cue)
      PROVE  /\ Source(K, cue, a) = Source(n, cue, a) /\ Drives(Source(n, cue, a), Sc)
             /\ Source(n, cue, a) = FromScratch(n.local, n.assemblies[a], Seeds(n, cue, a).drive,
                                                Seeds(n, cue, a).exact)
  <2>1. /\ a \in Reach(n, cue) /\ Seeds(K, cue, a) = Seeds(n, cue, a)
        /\ DOMAIN Seeds(n, cue, a).drive \subseteq n.assemblies[a]
        /\ \A c \in DOMAIN Seeds(n, cue, a).drive : Seeds(n, cue, a).drive[c] \in Fractions
    BY SeedsAgree
  <2> DEFINE drive == Seeds(n, cue, a).drive
             exact == Seeds(n, cue, a).exact
  <2>2. /\ Source(K, cue, a) = Lane(K.local, K.assemblies[a], drive, exact)
        /\ Source(n, cue, a) = Lane(n.local, n.assemblies[a], drive, exact)
    BY <2>1, Zenon DEF Source
  <2> HIDE DEF drive, exact
  <2>3. /\ Lane(K.local, K.assemblies[a], drive, exact) = Lane(n.local, n.assemblies[a], drive, exact)
        /\ Lane(K.local, K.assemblies[a], drive, exact) =
             FromScratch(n.local, n.assemblies[a], drive, exact)
        /\ Drives(Lane(K.local, K.assemblies[a], drive, exact), n.assemblies[a])
    BY <2>1, ReachedLanes DEF drive
  <2>4. n.assemblies[a] \subseteq Sc
    BY DEF ActiveOf, MembersOf
  <2> QED BY <2>2, <2>3, <2>4 DEF Drives, drive, exact
<1>2. ASSUME NEW c \in DOMAIN cue, \A a \in DOMAIN n.assemblies : c \notin n.assemblies[a]
      PROVE  Drives(Atom(cue, c), Sc)
  <2>1. DOMAIN Atom(cue, c).drive = {c} /\ Atom(cue, c).drive[c] = Half(cue[c])
    BY DEF Atom
  <2>2. c \in Sc
    BY <1>2 DEF ActiveOf, MembersOf
  <2>3. Half(cue[c]) \in Fractions
    BY DEF Lawful, Half, Fractions
  <2> QED BY <2>1, <2>2, <2>3 DEF Drives
<1>3. ASSUME NEW x \in SourceIds(n, cue)
      PROVE  \/ \E a \in Touching(n, DOMAIN cue) : x = <<"assembly", a>> /\ x[1] # "atom" /\ x[2] = a
             \/ \E c \in DOMAIN cue : /\ x = <<"atom", c>> /\ x[1] = "atom" /\ x[2] = c
                                      /\ \A a \in DOMAIN n.assemblies : c \notin n.assemblies[a]
  BY DEF SourceIds
<1> HIDE DEF Sc
<1>4. Sources(K, cue) =
        [x \in SourceIds(n, cue) |-> IF x[1] = "atom" THEN Atom(cue, x[2]) ELSE Source(K, cue, x[2])]
  BY SourcesHaveIds
<1>5. \A x \in SourceIds(n, cue) :
        (IF x[1] = "atom" THEN Atom(cue, x[2]) ELSE Source(K, cue, x[2]))
          = (IF x[1] = "atom" THEN Atom(cue, x[2]) ELSE Source(n, cue, x[2]))
  BY <1>1, <1>3
<1>6. Sources(K, cue) =
        [x \in SourceIds(n, cue) |-> IF x[1] = "atom" THEN Atom(cue, x[2]) ELSE Source(n, cue, x[2])]
  BY <1>4, <1>5, Zenon
<1>7. ASSUME NEW x \in SourceIds(n, cue)
      PROVE  /\ Drives(Sources(K, cue)[x], Sc)
             /\ x[1] = "assembly" =>
                  Sources(K, cue)[x] = FromScratch(n.local, n.assemblies[x[2]], Seeds(n, cue, x[2]).drive,
                                                   Seeds(n, cue, x[2]).exact)
  <2>1. Sources(K, cue)[x] = IF x[1] = "atom" THEN Atom(cue, x[2]) ELSE Source(n, cue, x[2])
    BY <1>6
  <2> QED BY <1>1, <1>2, <1>3, <2>1
<1> QED BY <1>6, <1>7 DEF Sc

(* The hop, and the branches of what it hits.                              *)
LEMMA LawfulActive ==
  ASSUME NEW n, NEW cue, Lawful(n, cue)
  PROVE  ActiveOf(n, DOMAIN cue) \subseteq n.cells
<1>1. \A a \in DOMAIN n.assemblies : n.assemblies[a] \subseteq n.cells
  BY NetworkIs DEF Lawful
<1>2. MembersOf(n, Touching(n, DOMAIN cue)) \subseteq n.cells
  BY <1>1 DEF MembersOf, Touching
<1> QED BY <1>2 DEF ActiveOf, Lawful

LEMMA IntoAgrees ==
  ASSUME NEW n, NEW cue, Lawful(n, cue), NEW K, Agrees(K, n, cue),
         NEW source, Drives(source, ActiveOf(n, DOMAIN cue)), NEW t
  PROVE  /\ Into(K, source, t) = Into(n, source, t)
         /\ HitLeft(K, source, t) = HitLeft(n, source, t)
         /\ HitExactly(K, source, t) <=> HitExactly(n, source, t)
         /\ HitLeft(n, source, t) \in Fractions
         /\ Into(n, source, t) # {} => t \in Heads(n, ActiveOf(n, DOMAIN cue))
<1> DEFINE Sc == ActiveOf(n, DOMAIN cue)
           X  == Into(n, source, t)
           f(k) == [c \in X |-> Unsupported(source.drive[c], Half(k.associative[<<c, t>>]))]
<1>1. \A c \in DOMAIN source.drive : <<c, t>>[1] = c /\ c \in Sc
  BY DEF Drives
<1>2. \A c \in DOMAIN source.drive :
        /\ <<c, t>> \in Consolidated(K) <=> <<c, t>> \in Consolidated(n)
        /\ <<c, t>> \in Consolidated(n) => K.associative[<<c, t>>] = n.associative[<<c, t>>]
  BY <1>1 DEF Agrees
<1>3. Into(K, source, t) = X /\ \A c \in X : K.associative[<<c, t>>] = n.associative[<<c, t>>]
  BY <1>2 DEF Into
<1>4. \A c \in X : n.associative[<<c, t>>] \in Int /\ c \in DOMAIN source.drive /\ <<c, t>> \in Hops(n, Sc)
  BY <1>1, NetworkIs DEF Into, Consolidated, Hops, Lawful
<1>5. ASSUME X # {} PROVE t \in Heads(n, Sc)
  <2>1. PICK c \in X : TRUE
    BY <1>5
  <2>2. <<c, t>> \in Hops(n, Sc) /\ <<c, t>>[2] = t
    BY <1>4
  <2> QED BY <2>2, Zenon DEF Heads
<1>6. Sc \subseteq n.cells
  BY LawfulActive
<1>7. IsFiniteSet(X)
  <2>1. n.cells \subseteq Cells
    BY NetworkIs DEF Lawful
  <2>2. X \subseteq Cells
    BY <1>1, <1>4, <1>6, <2>1
  <2> QED BY <2>2, FS_Subset, RetrievalAssumption
<1> HIDE DEF X
<1>8. f(K) = f(n)
  BY <1>3
<1>9. \A c \in X : f(n)[c] \in Fractions
  <2> SUFFICES ASSUME NEW c \in X PROVE Unsupported(source.drive[c], Half(n.associative[<<c, t>>])) \in Fractions
    OBVIOUS
  <2>1. source.drive[c] \in Fractions /\ n.associative[<<c, t>>] \in Int
    BY <1>4 DEF Drives
  <2> QED BY <2>1, FactorsAre
<1>10. HitLeft(K, source, t) = Product(f(K)) /\ HitLeft(n, source, t) = Product(f(n))
  BY <1>3 DEF HitLeft, X
<1>11. DOMAIN f(n) = X
  OBVIOUS
<1> HIDE DEF f
<1>12. HitLeft(n, source, t) \in Fractions
  BY <1>7, <1>9, <1>10, <1>11, ProductSteps
<1>13. HitExactly(K, source, t) <=> HitExactly(n, source, t)
  BY <1>3 DEF HitExactly, X
<1> QED BY <1>3, <1>5, <1>8, <1>10, <1>12, <1>13 DEF X

LEMMA HitsAgree ==
  ASSUME NEW n, NEW cue, Lawful(n, cue), NEW K, Agrees(K, n, cue),
         NEW source, Drives(source, ActiveOf(n, DOMAIN cue))
  PROVE  /\ Hits(K, source) = Hits(n, source)
         /\ DOMAIN Hits(n, source).drive \subseteq Heads(n, ActiveOf(n, DOMAIN cue))
         /\ \A t \in DOMAIN Hits(n, source).drive : Hits(n, source).drive[t] \in Fractions
<1> DEFINE Sc == ActiveOf(n, DOMAIN cue)
           E  == Eligible(n, source)
<1>1. \A t : /\ Into(K, source, t) = Into(n, source, t)
             /\ HitLeft(K, source, t) = HitLeft(n, source, t)
             /\ HitExactly(K, source, t) <=> HitExactly(n, source, t)
             /\ HitLeft(n, source, t) \in Fractions
             /\ Into(n, source, t) # {} => t \in Heads(n, Sc)
  BY IntoAgrees
<1>2. \A k \in {K, n} : \A t : Into(k, source, t) # {} => t \in {m[2] : m \in Consolidated(k)}
  <2> SUFFICES ASSUME NEW k, NEW t, NEW c \in Into(k, source, t)
               PROVE  t \in {m[2] : m \in Consolidated(k)}
    OBVIOUS
  <2>1. <<c, t>> \in Consolidated(k) /\ <<c, t>>[2] = t
    BY DEF Into
  <2> QED BY <2>1, Zenon
<1>3. \A k \in {K, n} :
        Eligible(k, source) =
          {t \in {m[2] : m \in Consolidated(k)} :
             Into(k, source, t) # {} /\ (IF LimitAR[1] = 0 THEN HitExactly(k, source, t)
                                         ELSE AtMost(HitLeft(k, source, t), LimitAR))}
  BY DEF Eligible
<1>4. Eligible(K, source) = E
  BY <1>1, <1>2, <1>3
<1>5. E \subseteq Heads(n, Sc)
  BY <1>1, <1>3
<1> HIDE DEF E, Sc
<1>6. \A t \in E : (IF HitExactly(K, source, t) THEN One ELSE Rest(HitLeft(K, source, t)))
                     = (IF HitExactly(n, source, t) THEN One ELSE Rest(HitLeft(n, source, t)))
  BY <1>1
<1>7. {t \in E : HitExactly(K, source, t)} = {t \in E : HitExactly(n, source, t)}
  BY <1>1
<1>8. /\ Hits(K, source) = [drive |-> [t \in E |-> IF HitExactly(K, source, t) THEN One
                                                   ELSE Rest(HitLeft(K, source, t))],
                            exact |-> {t \in E : HitExactly(K, source, t)}]
      /\ Hits(n, source) = [drive |-> [t \in E |-> IF HitExactly(n, source, t) THEN One
                                                   ELSE Rest(HitLeft(n, source, t))],
                            exact |-> {t \in E : HitExactly(n, source, t)}]
  BY <1>4, Zenon DEF Hits, E
<1>9. [t \in E |-> IF HitExactly(K, source, t) THEN One ELSE Rest(HitLeft(K, source, t))]
        = [t \in E |-> IF HitExactly(n, source, t) THEN One ELSE Rest(HitLeft(n, source, t))]
  BY <1>6, Zenon
<1>10. Hits(K, source) = Hits(n, source)
  BY <1>7, <1>8, <1>9
<1>11. /\ DOMAIN Hits(n, source).drive = E
       /\ \A t \in E : Hits(n, source).drive[t] =
                         IF HitExactly(n, source, t) THEN One ELSE Rest(HitLeft(n, source, t))
  BY <1>8
<1>12. \A t : Rest(HitLeft(n, source, t)) \in Fractions /\ One \in Fractions
  BY <1>1, FractionsMultiply
<1> QED BY <1>5, <1>10, <1>11, <1>12 DEF Sc

LEMMA MembershipsTouch ==
  ASSUME NEW n, NEW cue, NEW K, Agrees(K, n, cue),
         NEW cells, cells \subseteq DOMAIN cue \cup Heads(n, ActiveOf(n, DOMAIN cue))
  PROVE  (UNION {K.memberships[c] : c \in cells}) = Touching(n, cells)
<1>1. \A c \in cells : K.memberships[c] = {a \in DOMAIN n.assemblies : c \in n.assemblies[a]}
  BY DEF Agrees
<1>2. \A a : a \in (UNION {K.memberships[c] : c \in cells}) <=> \E c \in cells : a \in K.memberships[c]
  OBVIOUS
<1>3. \A a : a \in Touching(n, cells) <=> \E c \in cells : a \in K.memberships[c]
  BY <1>1 DEF Touching
<1> QED BY <1>2, <1>3

LEMMA BranchesAgree ==
  ASSUME NEW n, NEW cue, Lawful(n, cue), NEW K, Agrees(K, n, cue),
         NEW hits, DOMAIN hits.drive \subseteq Heads(n, ActiveOf(n, DOMAIN cue)),
         \A t \in DOMAIN hits.drive : hits.drive[t] \in Fractions
  PROVE  /\ Branches(K, hits) =
              [a \in Touching(n, DOMAIN hits.drive) |->
                 Lane(n.local, n.assemblies[a], Reached(n, hits, a).drive, Reached(n, hits, a).exact)]
         /\ \A a \in Touching(n, DOMAIN hits.drive) :
              Branches(K, hits)[a] =
                FromScratch(n.local, n.assemblies[a], Reached(n, hits, a).drive, Reached(n, hits, a).exact)
<1> DEFINE ids      == Touching(n, DOMAIN hits.drive)
           lane(k, a) == Lane(k.local, k.assemblies[a], Reached(k, hits, a).drive, Reached(k, hits, a).exact)
<1>1. (UNION {K.memberships[t] : t \in DOMAIN hits.drive}) = ids
  BY MembershipsTouch
<1>2. ASSUME NEW a \in ids
      PROVE  /\ lane(K, a) = lane(n, a)
             /\ lane(n, a) = FromScratch(n.local, n.assemblies[a], Reached(n, hits, a).drive,
                                         Reached(n, hits, a).exact)
  <2>1. a \in Reach(n, cue) /\ K.assemblies[a] = n.assemblies[a]
    BY DEF Reach, Touching, Agrees
  <2>2. Reached(K, hits, a) = Reached(n, hits, a)
    BY <2>1 DEF Reached
  <2> DEFINE drive == Reached(n, hits, a).drive
             exact == Reached(n, hits, a).exact
  <2>3. /\ DOMAIN drive = DOMAIN hits.drive \cap n.assemblies[a]
        /\ \A t \in DOMAIN drive : drive[t] = hits.drive[t]
    BY DEF Reached, Restrict
  <2> HIDE DEF drive, exact
  <2>4. DOMAIN drive \subseteq n.assemblies[a] /\ \A t \in DOMAIN drive : drive[t] \in Fractions
    BY <2>3
  <2>5. /\ Lane(K.local, K.assemblies[a], drive, exact) = Lane(n.local, n.assemblies[a], drive, exact)
        /\ Lane(K.local, K.assemblies[a], drive, exact) = FromScratch(n.local, n.assemblies[a], drive, exact)
    BY <2>1, <2>4, ReachedLanes
  <2>6. lane(K, a) = Lane(K.local, K.assemblies[a], drive, exact)
        /\ lane(n, a) = Lane(n.local, n.assemblies[a], drive, exact)
    BY <2>2, Zenon DEF drive, exact
  <2> QED BY <2>5, <2>6, Zenon DEF drive, exact
<1>3. Branches(K, hits) = [a \in ids |-> lane(K, a)]
  BY <1>1, Zenon DEF Branches
<1> HIDE DEF ids, lane
<1>4. Branches(K, hits) = [a \in ids |-> lane(n, a)]
  BY <1>2, <1>3
<1>5. \A a \in ids : Branches(K, hits)[a] = lane(n, a)
  BY <1>4
<1> QED BY <1>2, <1>4, <1>5, Zenon DEF ids, lane

-----------------------------------------------------------------------------
(* Families.  A family is what overlaps in as many steps as there are      *)
(* sources: by then nothing more is reached.                               *)
Overlaps(k, cue, ids, X) == {b \in ids : \E c \in X : Overlapping(k, cue, b, c)}

FamilyRuns(f, k, cue, ids, a, N) ==
  f = [m \in 0 .. N |-> IF m = 0 THEN {a} ELSE Overlaps(k, cue, ids, f[m - 1])]

LEMMA FamilyRunsOn ==
  ASSUME NEW k, NEW cue, NEW ids, NEW a, NEW N \in Nat
  PROVE  \E f : FamilyRuns(f, k, cue, ids, a, N)
<1> DEFINE T == {n \in Nat : \E f : FamilyRuns(f, k, cue, ids, a, n)}
<1>1. 0 \in T
  <2> DEFINE f == [n \in 0 .. 0 |-> {a}]
  <2>1. f = [n \in 0 .. 0 |-> IF n = 0 THEN {a} ELSE Overlaps(k, cue, ids, f[n - 1])]
    OBVIOUS
  <2> HIDE DEF f
  <2> QED BY <2>1, Zenon DEF FamilyRuns
<1>2. ASSUME NEW j \in 0 .. N - 1, j \in T PROVE j + 1 \in T
  <2>1. PICK f : FamilyRuns(f, k, cue, ids, a, j)
    BY <1>2
  <2> DEFINE value(g, n) == IF n = 0 THEN {a} ELSE Overlaps(k, cue, ids, g[n - 1])
             h == [n \in 0 .. j + 1 |-> IF n = j + 1 THEN Overlaps(k, cue, ids, f[j]) ELSE f[n]]
  <2>2. \A n \in 0 .. j : f[n] = value(f, n) /\ h[n] = f[n] /\ n \in 0 .. j + 1
    <3>1. \A n \in 0 .. j : h[n] = f[n] /\ n \in 0 .. j + 1
      OBVIOUS
    <3>2. \A n \in 0 .. j : f[n] = value(f, n)
      BY <2>1, Zenon DEF FamilyRuns
    <3> QED BY <3>1, <3>2
  <2>3. ASSUME NEW n \in 0 .. j + 1 PROVE h[n] = value(h, n)
    <3>1. CASE n = 0
      <4>1. n \in 0 .. j
        BY <3>1
      <4>2. h[n] = f[n] /\ f[n] = value(f, n)
        BY <2>2, <4>1
      <4> HIDE DEF h
      <4> QED BY <3>1, <4>2
    <3>2. CASE n # 0 /\ n \in 0 .. j
      <4>1. n - 1 \in 0 .. j
        BY <3>2
      <4>2. h[n - 1] = f[n - 1] /\ h[n] = f[n] /\ f[n] = value(f, n)
        BY <2>2, <3>2, <4>1
      <4> HIDE DEF h
      <4> QED BY <3>2, <4>2
    <3>3. CASE n = j + 1
      <4>1. h[n - 1] = f[j] /\ n # 0 /\ h[n] = Overlaps(k, cue, ids, f[j])
        BY <2>2, <3>3
      <4> HIDE DEF h
      <4> QED BY <4>1
    <3> QED BY <3>1, <3>2, <3>3
  <2>4. h = [n \in 0 .. j + 1 |-> value(h, n)]
    <3>1. h = [n \in 0 .. j + 1 |-> h[n]]
      OBVIOUS
    <3> HIDE DEF h, value
    <3> QED BY <2>3, <3>1, Zenon
  <2> HIDE DEF h
  <2>5. FamilyRuns(h, k, cue, ids, a, j + 1)
    BY <2>4, Zenon DEF FamilyRuns
  <2>6. j + 1 \in Nat
    OBVIOUS
  <2> QED BY <2>5, <2>6, Zenon
<1> HIDE DEF T
<1>3. N \in T
  BY <1>1, <1>2, CountUp
<1> QED BY <1>3 DEF T

FamilyGrows(f, k, cue, ids, a) ==
  /\ Family(k, cue, ids, a) = f[Cardinality(ids)] /\ f[0] = {a}
  /\ \A m \in 0 .. Cardinality(ids) - 1 : f[m + 1] = Overlaps(k, cue, ids, f[m])

LEMMA FamilyIs ==
  ASSUME NEW k, NEW cue, NEW ids, IsFiniteSet(ids), NEW a
  PROVE  \E f : FamilyGrows(f, k, cue, ids, a)
<1> DEFINE N == Cardinality(ids)
           f == CHOOSE g : g = [m \in 0 .. N |-> IF m = 0 THEN {a}
                                                 ELSE {b \in ids : \E c \in g[m - 1] : Overlapping(k, cue, b, c)}]
<1>1. N \in Nat
  BY FS_CardinalityType
<1>2. \E g : FamilyRuns(g, k, cue, ids, a, N)
  BY <1>1, FamilyRunsOn
<1>3. FamilyRuns(f, k, cue, ids, a, N)
  BY <1>2, Zenon DEF FamilyRuns, Overlaps
<1>4. Family(k, cue, ids, a) = f[N]
  BY Zenon DEF Family
<1> HIDE DEF f, N
<1>5. f[0] = {a}
  BY <1>1, <1>3 DEF FamilyRuns
<1>6. ASSUME NEW m \in 0 .. N - 1 PROVE f[m + 1] = Overlaps(k, cue, ids, f[m])
  <2>1. m + 1 \in 0 .. N /\ m + 1 # 0 /\ (m + 1) - 1 = m
    BY <1>1
  <2>2. f[m + 1] = Overlaps(k, cue, ids, f[(m + 1) - 1])
    BY <1>3, <2>1, Zenon DEF FamilyRuns
  <2> QED BY <2>1, <2>2
<1>7. FamilyGrows(f, k, cue, ids, a)
  BY <1>4, <1>5, <1>6 DEF FamilyGrows, N
<1> QED BY <1>7

LEMMA OverlapsAgree ==
  ASSUME NEW n, NEW cue, Lawful(n, cue), NEW K, Agrees(K, n, cue)
  PROVE  \A a, b \in Touching(n, DOMAIN cue) :
           /\ Overlapping(K, cue, a, b) <=> Overlapping(n, cue, a, b)
           /\ Overlapping(n, cue, a, b) <=> Overlapping(n, cue, b, a)
           /\ Overlapping(n, cue, a, a)
<1> SUFFICES ASSUME NEW a \in Touching(n, DOMAIN cue), NEW b \in Touching(n, DOMAIN cue)
             PROVE  /\ Overlapping(K, cue, a, b) <=> Overlapping(n, cue, a, b)
                    /\ Overlapping(n, cue, a, b) <=> Overlapping(n, cue, b, a)
                    /\ Overlapping(n, cue, a, a)
  OBVIOUS
<1>1. Driven(K, cue, a) = Driven(n, cue, a) /\ Driven(K, cue, b) = Driven(n, cue, b)
  BY SeedsAgree
<1>2. DOMAIN Driven(n, cue, a) = DOMAIN cue \cap n.assemblies[a]
  BY DEF Driven, Restrict
<1>3. DOMAIN Driven(n, cue, a) # {}
  BY <1>2 DEF Touching
<1>4. Overlapping(n, cue, a, b) <=> Overlapping(n, cue, b, a)
  BY DEF Overlapping
<1>5. Overlapping(n, cue, a, a)
  BY <1>3 DEF Overlapping
<1>6. Overlapping(K, cue, a, b) <=> Overlapping(n, cue, a, b)
  BY <1>1 DEF Overlapping
<1> QED BY <1>4, <1>5, <1>6

LEMMA SourcesAreFinite ==
  ASSUME NEW n, NEW cue, Lawful(n, cue)
  PROVE  /\ IsFiniteSet(Touching(n, DOMAIN cue))
         /\ \A a \in Touching(n, DOMAIN cue) : n.assemblies[a] \subseteq Cells
<1>1. Touching(n, DOMAIN cue) \subseteq Assemblies
  BY NetworkIs DEF Lawful, Touching
<1>2. \A a \in Touching(n, DOMAIN cue) : n.assemblies[a] \subseteq Cells
  BY NetworkIs DEF Lawful, Touching
<1> QED BY <1>1, <1>2, FS_Subset, RetrievalAssumption

LEMMA FamiliesAgree ==
  ASSUME NEW n, NEW cue, Lawful(n, cue), NEW K, Agrees(K, n, cue), NEW a \in Touching(n, DOMAIN cue)
  PROVE  Family(K, cue, Touching(n, DOMAIN cue), a) = Family(n, cue, Touching(n, DOMAIN cue), a)
<1> DEFINE ids == Touching(n, DOMAIN cue)
           N   == Cardinality(ids)
<1>1. IsFiniteSet(ids) /\ a \in ids
  BY SourcesAreFinite
<1>2. \A b, c \in ids : Overlapping(K, cue, b, c) <=> Overlapping(n, cue, b, c)
  BY OverlapsAgree
<1> HIDE DEF ids
<1>3. PICK f : FamilyGrows(f, n, cue, ids, a)
  BY <1>1, FamilyIs
<1>4. PICK g : FamilyGrows(g, K, cue, ids, a)
  BY <1>1, FamilyIs
<1>5. N \in Nat
  BY <1>1, FS_CardinalityType
<1> HIDE DEF N
<1> DEFINE T == {m \in 0 .. N : g[m] = f[m] /\ f[m] \subseteq ids}
<1>6. 0 \in T
  BY <1>1, <1>3, <1>4, <1>5 DEF FamilyGrows
<1>7. ASSUME NEW m \in 0 .. N - 1, m \in T PROVE m + 1 \in T
  <2>1. m + 1 \in 0 .. N
    BY <1>5
  <2>2. g[m] = f[m] /\ f[m] \subseteq ids
    BY <1>7
  <2>3. Overlaps(K, cue, ids, f[m]) = Overlaps(n, cue, ids, f[m]) /\ Overlaps(n, cue, ids, f[m]) \subseteq ids
    BY <1>2, <2>2 DEF Overlaps
  <2>4. f[m + 1] = Overlaps(n, cue, ids, f[m]) /\ g[m + 1] = Overlaps(K, cue, ids, g[m])
    BY <1>3, <1>4 DEF FamilyGrows, N
  <2> QED BY <2>1, <2>2, <2>3, <2>4
<1> HIDE DEF T
<1>8. N \in T
  BY <1>5, <1>6, <1>7, CountUp
<1> QED BY <1>3, <1>4, <1>8 DEF FamilyGrows, N, T, ids

(* No step but one that adds a source goes on, so a family is closed.      *)
LEMMA FamiliesAreClosed ==
  ASSUME NEW n, NEW cue, Lawful(n, cue), NEW a \in Touching(n, DOMAIN cue)
  PROVE  LET ids == Touching(n, DOMAIN cue)
             F   == Family(n, cue, ids, a)
         IN /\ a \in F /\ F \subseteq ids
            /\ \A b \in ids, c \in F : Overlapping(n, cue, b, c) => b \in F
<1> DEFINE ids == Touching(n, DOMAIN cue)
           N   == Cardinality(ids)
           closed(X) == \A b \in ids, c \in X : Overlapping(n, cue, b, c) => b \in X
<1>1. IsFiniteSet(ids) /\ a \in ids
  BY SourcesAreFinite
<1>2. Agrees(Stored(n), n, cue)
  BY StoredAgrees DEF Lawful
<1>3. \A b \in ids : Overlapping(n, cue, b, b)
  BY <1>2, OverlapsAgree
<1> HIDE DEF ids
<1>4. PICK f : FamilyGrows(f, n, cue, ids, a)
  BY <1>1, FamilyIs
<1>5. N \in Nat
  BY <1>1, FS_CardinalityType
<1> DEFINE T == {m \in 0 .. N : a \in f[m] /\ f[m] \subseteq ids /\ (closed(f[m]) \/ Cardinality(f[m]) >= m + 1)}
<1> HIDE DEF N
<1>6. 0 \in T
  <2>1. Cardinality({a}) = 1
    BY FS_Singleton
  <2> QED BY <1>1, <1>4, <1>5, <2>1 DEF FamilyGrows
<1>7. ASSUME NEW m \in 0 .. N - 1, m \in T PROVE m + 1 \in T
  <2>1. m + 1 \in 0 .. N
    BY <1>5
  <2>2. a \in f[m] /\ f[m] \subseteq ids /\ (closed(f[m]) \/ Cardinality(f[m]) >= m + 1)
    BY <1>7
  <2>3. f[m + 1] = Overlaps(n, cue, ids, f[m])
    BY <1>4 DEF FamilyGrows, N
  <2>4. f[m] \subseteq f[m + 1] /\ f[m + 1] \subseteq ids
    BY <1>3, <2>2, <2>3 DEF Overlaps
  <2>5. CASE closed(f[m])
    <3>1. f[m + 1] = f[m]
      BY <2>3, <2>4, <2>5 DEF Overlaps
    <3> QED BY <2>1, <2>2, <2>5, <3>1
  <2>6. ASSUME ~ closed(f[m]) PROVE Cardinality(f[m + 1]) >= (m + 1) + 1
    <3>1. PICK b \in ids, c \in f[m] : Overlapping(n, cue, b, c) /\ b \notin f[m]
      BY <2>6
    <3>2. f[m] \cup {b} \subseteq f[m + 1]
      BY <2>3, <2>4, <3>1 DEF Overlaps
    <3>3. IsFiniteSet(f[m]) /\ IsFiniteSet(f[m + 1])
      BY <1>1, <2>2, <2>4, FS_Subset
    <3>4. Cardinality(f[m] \cup {b}) = Cardinality(f[m]) + 1
      BY <3>1, <3>3, FS_AddElement
    <3>5. Cardinality(f[m] \cup {b}) <= Cardinality(f[m + 1])
      BY <3>2, <3>3, FS_Subset
    <3>6. /\ Cardinality(f[m] \cup {b}) \in Nat /\ Cardinality(f[m]) \in Nat
          /\ Cardinality(f[m + 1]) \in Nat
      BY <3>3, FS_CardinalityType, FS_AddElement
    <3>7. Cardinality(f[m]) >= m + 1
      BY <2>2, <2>6
    <3> HIDE DEF closed
    <3> QED BY <3>4, <3>5, <3>6, <3>7
  <2> QED BY <2>1, <2>2, <2>4, <2>5, <2>6
<1> HIDE DEF T
<1>8. N \in T
  BY <1>5, <1>6, <1>7, CountUp
<1>9. a \in f[N] /\ f[N] \subseteq ids /\ (closed(f[N]) \/ Cardinality(f[N]) >= N + 1)
  BY <1>8 DEF T
<1>10. Cardinality(f[N]) <= N /\ Cardinality(f[N]) \in Nat
  BY <1>1, <1>9, FS_Subset, FS_CardinalityType DEF N
<1>11. closed(f[N])
  BY <1>5, <1>9, <1>10
<1> QED BY <1>4, <1>9, <1>11 DEF FamilyGrows, N, ids

(* Dominance makes the witnesses more, and a family has so many of them:   *)
(* one of its sources is dominated by none.                                *)
LEMMA DominatedAgrees ==
  ASSUME NEW n, NEW cue, Lawful(n, cue), NEW K, Agrees(K, n, cue), NEW authorized,
         NEW b \in Touching(n, DOMAIN cue)
  PROVE  Dominated(K, cue, authorized, b, Touching(n, DOMAIN cue))
           <=> Dominated(n, cue, authorized, b, Touching(n, DOMAIN cue))
<1>1. \A a \in Touching(n, DOMAIN cue) : K.assemblies[a] = n.assemblies[a]
  BY DEF Agrees, Reach
<1>2. \A a \in Touching(n, DOMAIN cue) : Overlapping(K, cue, a, b) <=> Overlapping(n, cue, a, b)
  BY OverlapsAgree
<1> QED BY <1>1, <1>2 DEF Dominated

LEMMA FamiliesKeepOne ==
  ASSUME NEW n, NEW cue, Lawful(n, cue), NEW authorized, NEW a \in Touching(n, DOMAIN cue)
  PROVE  LET ids == Touching(n, DOMAIN cue)
         IN \E b \in Family(n, cue, ids, a) : b \in ids /\ ~Dominated(n, cue, authorized, b, ids)
<1> DEFINE ids  == Touching(n, DOMAIN cue)
           F    == Family(n, cue, ids, a)
           w(b) == n.assemblies[b] \cap authorized
           N    == Cardinality(Cells) + 1
           T    == {m \in Nat : \E b \in F : Cardinality(w(b)) >= m}
<1>1. a \in F /\ F \subseteq ids /\ \A b \in ids, c \in F : Overlapping(n, cue, b, c) => b \in F
  BY FamiliesAreClosed
<1> HIDE DEF F
<1>2. ASSUME NEW b \in ids
      PROVE  /\ IsFiniteSet(w(b)) /\ Cardinality(w(b)) \in Nat
             /\ Cardinality(w(b)) <= Cardinality(Cells) /\ Cardinality(Cells) \in Nat
  <2>1. w(b) \subseteq Cells
    BY SourcesAreFinite
  <2> HIDE DEF w
  <2> QED BY <2>1, FS_Subset, FS_CardinalityType, RetrievalAssumption
<1> SUFFICES ASSUME \A b \in F : Dominated(n, cue, authorized, b, ids)
             PROVE  FALSE
  BY <1>1 DEF F
<1>3. N \in Nat
  <2>1. Cardinality(Cells) \in Nat
    BY FS_CardinalityType, RetrievalAssumption
  <2> QED BY <2>1
<1>4. 0 \in T
  BY <1>1, <1>2
<1>5. ASSUME NEW m \in 0 .. N - 1, m \in T PROVE m + 1 \in T
  <2>1. PICK b \in F : Cardinality(w(b)) >= m
    BY <1>5
  <2>2. PICK c \in ids : Overlapping(n, cue, c, b) /\ w(b) \subseteq w(c) /\ w(b) # w(c)
    BY DEF Dominated
  <2>3. c \in F /\ b \in ids
    BY <1>1, <2>2
  <2> HIDE DEF w, ids
  <2>4. /\ IsFiniteSet(w(c)) /\ Cardinality(w(b)) \in Nat /\ Cardinality(w(c)) \in Nat
    BY <1>2, <2>3, <1>1
  <2>5. Cardinality(w(b)) <= Cardinality(w(c)) /\ Cardinality(w(b)) # Cardinality(w(c))
    BY <2>2, <2>4, FS_Subset
  <2>6. m + 1 \in Nat /\ Cardinality(w(c)) >= m + 1
    BY <2>1, <2>4, <2>5
  <2> QED BY <2>3, <2>6
<1>6. N \in T
  <2> HIDE DEF T, N
  <2> QED BY <1>3, <1>4, <1>5, CountUp
<1>7. PICK b \in F : Cardinality(w(b)) >= N
  BY <1>6
<1> QED BY <1>1, <1>2, <1>7

-----------------------------------------------------------------------------
(* What is settled, said of the network alone.                             *)
SourcesOf(n, cue) ==
  [x \in SourceIds(n, cue) |-> IF x[1] = "atom" THEN Atom(cue, x[2]) ELSE Source(n, cue, x[2])]

BranchesOf(n, hits) ==
  [a \in Touching(n, DOMAIN hits.drive) |->
     Lane(n.local, n.assemblies[a], Reached(n, hits, a).drive, Reached(n, hits, a).exact)]

OutcomeOf(n, cue, authorized) ==
  LET sources == SourcesOf(n, cue)
      ids     == Touching(n, DOMAIN cue)
  IN [sources     |-> sources,
      hits        |-> [x \in SourceIds(n, cue) |-> Hits(n, sources[x])],
      branches    |-> [x \in SourceIds(n, cue) |-> BranchesOf(n, Hits(n, sources[x]))],
      families    |-> {Family(n, cue, ids, a) : a \in ids},
      undominated |-> {a \in ids : ~Dominated(n, cue, authorized, a, ids)}]

LEMMA SettledIs ==
  ASSUME NEW n, NEW cue, Lawful(n, cue), NEW K, Agrees(K, n, cue), NEW authorized
  PROVE  Settled(K, cue, authorized) = OutcomeOf(n, cue, authorized)
<1> DEFINE src == SourcesOf(n, cue)
           ids == Touching(n, DOMAIN cue)
           X   == SourceIds(n, cue)
           assemblies(sources) == {x[2] : x \in {y \in DOMAIN sources : y[1] = "assembly"}}
<1>1. Sources(K, cue) = src /\ DOMAIN src = X
  BY SourcesAgree DEF SourcesOf
<1>2. ASSUME NEW x \in X
      PROVE  /\ Hits(K, src[x]) = Hits(n, src[x])
             /\ Branches(K, Hits(n, src[x])) = BranchesOf(n, Hits(n, src[x]))
  <2>1. Drives(src[x], ActiveOf(n, DOMAIN cue))
    BY <1>1, SourcesAgree
  <2> HIDE DEF src, X
  <2>2. /\ Hits(K, src[x]) = Hits(n, src[x])
        /\ DOMAIN Hits(n, src[x]).drive \subseteq Heads(n, ActiveOf(n, DOMAIN cue))
        /\ \A t \in DOMAIN Hits(n, src[x]).drive : Hits(n, src[x]).drive[t] \in Fractions
    BY <2>1, HitsAgree
  <2> QED BY <2>2, BranchesAgree DEF BranchesOf
<1>3. assemblies(src) = ids
  <2>1. \A a : a \in assemblies(src) <=> \E x \in X : x[1] = "assembly" /\ x[2] = a
    BY <1>1, Zenon
  <2>2. \A x \in X : x[1] = "assembly" => x[2] \in ids
    BY DEF SourceIds
  <2>3. ASSUME NEW a \in ids PROVE <<"assembly", a>> \in X /\ <<"assembly", a>>[1] = "assembly" /\ <<"assembly", a>>[2] = a
    BY DEF SourceIds
  <2> HIDE DEF X, assemblies, ids
  <2>4. \A a : a \in assemblies(src) <=> a \in ids
    BY <2>1, <2>2, <2>3, Zenon
  <2> QED BY <2>4
<1>4. \A a \in ids : /\ Family(K, cue, ids, a) = Family(n, cue, ids, a)
                     /\ Dominated(K, cue, authorized, a, ids) <=> Dominated(n, cue, authorized, a, ids)
  BY FamiliesAgree, DominatedAgrees
<1> HIDE DEF src, ids, X
<1>5. Outcome(K, cue, authorized, src) =
        [sources     |-> src,
         hits        |-> [x \in X |-> Hits(K, src[x])],
         branches    |-> [x \in X |-> Branches(K, Hits(K, src[x]))],
         families    |-> {Family(K, cue, ids, a) : a \in ids},
         undominated |-> {a \in ids : ~Dominated(K, cue, authorized, a, ids)}]
  BY <1>1, <1>3, Zenon DEF Outcome
<1>6. [x \in X |-> Hits(K, src[x])] = [x \in X |-> Hits(n, src[x])]
  BY <1>2, Zenon
<1>7. \A x \in X : Branches(K, Hits(K, src[x])) = BranchesOf(n, Hits(n, src[x]))
  BY <1>2, Zenon
<1>8. [x \in X |-> Branches(K, Hits(K, src[x]))] = [x \in X |-> BranchesOf(n, Hits(n, src[x]))]
  BY <1>7, Zenon
<1>9. {Family(K, cue, ids, a) : a \in ids} = {Family(n, cue, ids, a) : a \in ids}
  BY <1>4
<1>10. {a \in ids : ~Dominated(K, cue, authorized, a, ids)} =
         {a \in ids : ~Dominated(n, cue, authorized, a, ids)}
  BY <1>4
<1>11. OutcomeOf(n, cue, authorized) =
        [sources     |-> src,
         hits        |-> [x \in X |-> Hits(n, src[x])],
         branches    |-> [x \in X |-> BranchesOf(n, Hits(n, src[x]))],
         families    |-> {Family(n, cue, ids, a) : a \in ids},
         undominated |-> {a \in ids : ~Dominated(n, cue, authorized, a, ids)}]
  BY Zenon DEF OutcomeOf, src, X, ids
<1>12. Settled(K, cue, authorized) = Outcome(K, cue, authorized, src)
  BY <1>1, Zenon DEF Settled
<1> QED BY <1>5, <1>6, <1>8, <1>9, <1>10, <1>11, <1>12, Zenon

(* The property, of any part of the network that agrees with it.           *)
WholeFor(n, cue, authorized, result) ==
  LET m == Stored(n)
      isExact(lane, a, seeds) ==
        lane = FromScratch(m.local, m.assemblies[a], seeds.drive, seeds.exact)
  IN /\ result = Settled(m, cue, authorized)
     /\ \A x \in DOMAIN result.sources :
          /\ x[1] = "assembly" => isExact(result.sources[x], x[2], Seeds(m, cue, x[2]))
          /\ \A a \in DOMAIN result.branches[x] :
               isExact(result.branches[x][a], a, Reached(m, result.hits[x], a))
     /\ \A family \in result.families : family \cap result.undominated # {}

LEMMA SettledOfTheWhole ==
  ASSUME NEW n, NEW cue, Lawful(n, cue), NEW K, Agrees(K, n, cue), NEW authorized
  PROVE  WholeFor(n, cue, authorized, Settled(K, cue, authorized))
<1> DEFINE result == OutcomeOf(n, cue, authorized)
           src == SourcesOf(n, cue)
           ids == Touching(n, DOMAIN cue)
           X   == SourceIds(n, cue)
           m   == Stored(n)
<1>1. Agrees(m, n, cue)
  BY StoredAgrees DEF Lawful
<1>2. Settled(K, cue, authorized) = result /\ Settled(m, cue, authorized) = result
  BY <1>1, SettledIs
<1>3. m.local = n.local /\ m.assemblies = n.assemblies
  BY DEF Stored
<1>4. /\ result.sources = src
      /\ result.hits = [x \in X |-> Hits(n, src[x])]
      /\ result.branches = [x \in X |-> BranchesOf(n, Hits(n, src[x]))]
      /\ result.families = {Family(n, cue, ids, a) : a \in ids}
      /\ result.undominated = {a \in ids : ~Dominated(n, cue, authorized, a, ids)}
  BY DEF OutcomeOf
<1>5. Sources(K, cue) = src /\ DOMAIN src = X
  BY SourcesAgree DEF SourcesOf
<1> HIDE DEF m, result
<1>6. ASSUME NEW x \in X, x[1] = "assembly"
      PROVE  src[x] = FromScratch(m.local, m.assemblies[x[2]], Seeds(m, cue, x[2]).drive,
                                  Seeds(m, cue, x[2]).exact)
  <2>1. x[2] \in ids
    BY <1>6 DEF SourceIds
  <2>2. Seeds(m, cue, x[2]) = Seeds(n, cue, x[2])
    BY <1>1, <2>1, SeedsAgree
  <2>3. src[x] = FromScratch(n.local, n.assemblies[x[2]], Seeds(n, cue, x[2]).drive,
                             Seeds(n, cue, x[2]).exact)
    BY <1>5, <1>6, SourcesAgree
  <2> QED BY <1>3, <2>2, <2>3
<1>7. ASSUME NEW x \in X, NEW a \in DOMAIN BranchesOf(n, Hits(n, src[x]))
      PROVE  LET seeds == Reached(m, Hits(n, src[x]), a)
             IN BranchesOf(n, Hits(n, src[x]))[a] =
                  FromScratch(m.local, m.assemblies[a], seeds.drive, seeds.exact)
  <2>1. Drives(src[x], ActiveOf(n, DOMAIN cue))
    BY <1>5, SourcesAgree
  <2> DEFINE hits == Hits(n, src[x])
  <2> HIDE DEF src, X
  <2>2. /\ DOMAIN hits.drive \subseteq Heads(n, ActiveOf(n, DOMAIN cue))
        /\ \A t \in DOMAIN hits.drive : hits.drive[t] \in Fractions
    BY <1>1, <2>1, HitsAgree
  <2> HIDE DEF hits
  <2>3. a \in Touching(n, DOMAIN hits.drive)
    BY DEF BranchesOf, hits
  <2>4. Branches(m, hits) = BranchesOf(n, hits)
    BY <1>1, <2>2, BranchesAgree DEF BranchesOf
  <2>5. Branches(m, hits)[a] =
          FromScratch(n.local, n.assemblies[a], Reached(n, hits, a).drive, Reached(n, hits, a).exact)
    BY <1>1, <2>2, <2>3, BranchesAgree
  <2>6. Reached(m, hits, a) = Reached(n, hits, a)
    BY <1>3 DEF Reached
  <2> QED BY <1>3, <2>4, <2>5, <2>6 DEF hits
<1> HIDE DEF src, X, ids
<1>8. \A x \in DOMAIN result.sources :
        /\ x[1] = "assembly" =>
             result.sources[x] = FromScratch(m.local, m.assemblies[x[2]], Seeds(m, cue, x[2]).drive,
                                             Seeds(m, cue, x[2]).exact)
        /\ \A a \in DOMAIN result.branches[x] :
             result.branches[x][a] =
               FromScratch(m.local, m.assemblies[a], Reached(m, result.hits[x], a).drive,
                           Reached(m, result.hits[x], a).exact)
  <2>1. \A x \in X : result.hits[x] = Hits(n, src[x]) /\ result.branches[x] = BranchesOf(n, Hits(n, src[x]))
    BY <1>4
  <2> QED BY <1>4, <1>5, <1>6, <1>7, <2>1
<1>9. ASSUME NEW family \in result.families PROVE family \cap result.undominated # {}
  <2>1. PICK a \in ids : family = Family(n, cue, ids, a)
    BY <1>4, <1>9
  <2>2. \E b \in Family(n, cue, ids, a) : b \in ids /\ ~Dominated(n, cue, authorized, b, ids)
    BY <2>1, FamiliesKeepOne DEF ids
  <2> QED BY <1>4, <2>1, <2>2
<1> QED BY <1>2, <1>8, <1>9, Zenon DEF WholeFor, m

-----------------------------------------------------------------------------
LEMMA LastIs ==
  ASSUME CommitInv
  PROVE  /\ Version \in Nat \ {0} /\ Last(published) \in Networks
         /\ Last(published) = published[Version]
         /\ \A v \in 1 .. Version : published[v] \in Networks
BY LenProperties, EmptySeq, ElementOfSeq DEF CommitInv, Version, Last

(* What is never written over.                                             *)
LEMMA SessionStays ==
  ASSUME RetrievalInv, UNCHANGED <<published, session>>,
         writes' = None /\ writes # None => FALSE
  PROVE  CueInv' /\ CaptureInv' /\ DoneInv'
<1>1. Version' = Version
  BY DEF Version
<1>2. CueInv'
  BY <1>1 DEF RetrievalInv, CueInv
<1>3. CaptureInv'
  BY <1>1, Zenon DEF RetrievalInv, CaptureInv
<1>4. DoneInv'
  BY <1>1, Zenon DEF RetrievalInv, DoneInv, CueFits, RetrievalIsOfTheWhole
<1> QED BY <1>2, <1>3, <1>4

LEMMA RetrievalStarts ==
  ASSUME RetrievalInit
  PROVE  RetrievalInv
<1>1. PICK n \in Networks : net = Stored(n) /\ published = <<n>>
  BY DEF RetrievalInit
<1>2. Last(published) = n /\ published \in Seq(Networks) /\ published # <<>>
  BY <1>1 DEF Last
<1>3. session.at = "idle"
  BY DEF RetrievalInit, Idle
<1> QED
  BY <1>1, <1>2, <1>3 DEF RetrievalInit, RetrievalInv, CommitInv, ReceiptInv, CueInv, CaptureInv, DoneInv

LEMMA CommitBegins ==
  ASSUME RetrievalInv, NEW new \in Networks, BeginCommit(new)
  PROVE  RetrievalInv'
<1> DEFINE old == Last(published)
           all == Assignments(old, new)
<1>1. old \in Networks /\ Version' = Version
  BY LastIs DEF RetrievalInv, BeginCommit, Version
<1>2. writes = None /\ net = Stored(old) /\ writes' = [to |-> new, left |-> all]
      /\ UNCHANGED <<net, published, receipts, session>>
  BY DEF RetrievalInv, CommitInv, BeginCommit
<1>3. Halfway(old, new, all) = Stored(old) /\ InTurn(old, new, all)
  BY <1>1, CommitStarts
<1> HIDE DEF all
<1>4. writes' # None
  BY <1>1, <1>2, <1>3, CommitIsOne
<1>5. CommitInv'
  BY <1>2, <1>3, <1>4 DEF RetrievalInv, CommitInv, Last
<1>6. ReceiptInv'
  BY <1>1, <1>2 DEF RetrievalInv, ReceiptInv
<1>7. CueInv' /\ CaptureInv' /\ DoneInv'
  BY <1>2, <1>4, SessionStays
<1> QED BY <1>5, <1>6, <1>7 DEF RetrievalInv

LEMMA CommitAssigns ==
  ASSUME RetrievalInv, Assign
  PROVE  RetrievalInv'
<1> DEFINE old == Last(published)
           new == writes.to
           left == writes.left
<1>1. PICK w \in left : /\ \A v \in left \ {w} : Before(w, v)
                        /\ net' = Assigned(net, new, w)
                        /\ writes' = [writes EXCEPT !.left = @ \ {w}]
  BY DEF Assign
<1>2. UNCHANGED <<published, receipts, session>> /\ writes # None
  BY DEF Assign
<1>3. /\ old \in Networks /\ new \in Networks /\ InTurn(old, new, left) /\ net = Halfway(old, new, left)
      /\ writes = [to |-> new, left |-> left]
  BY <1>2, LastIs DEF RetrievalInv, CommitInv
<1>4. writes' = [to |-> new, left |-> left \ {w}]
  BY <1>1, <1>3
<1>5. Assigned(Halfway(old, new, left), new, w) = Halfway(old, new, left \ {w})
      /\ InTurn(old, new, left \ {w})
  BY <1>1, <1>3, CommitGoesOn
<1>6. net' = Halfway(old, new, left \ {w})
  BY <1>1, <1>3, <1>5
<1> HIDE DEF new, left
<1>7. writes' # None
  BY <1>3, <1>4, <1>5, CommitIsOne
<1>8. CommitInv'
  BY <1>2, <1>3, <1>4, <1>5, <1>6, <1>7 DEF RetrievalInv, CommitInv, Last
<1>9. ReceiptInv'
  BY <1>2 DEF RetrievalInv, ReceiptInv, Version
<1>10. CueInv' /\ CaptureInv' /\ DoneInv'
  BY <1>2, <1>7, SessionStays
<1> QED BY <1>8, <1>9, <1>10 DEF RetrievalInv

LEMMA CommitIsPublished ==
  ASSUME RetrievalInv, EndCommit
  PROVE  RetrievalInv'
<1> DEFINE old == Last(published)
           new == writes.to
<1>1. /\ published' = Append(published, new) /\ writes' = None /\ writes # None
      /\ UNCHANGED <<net, receipts, session>> /\ writes.left = {}
  BY DEF EndCommit
<1>2. /\ old \in Networks /\ new \in Networks /\ net = Halfway(old, new, {})
      /\ published \in Seq(Networks)
  BY <1>1, LastIs DEF RetrievalInv, CommitInv
<1> HIDE DEF new
<1>3. /\ published' \in Seq(Networks) /\ Version' = Version + 1 /\ published' # <<>>
      /\ Last(published') = new /\ Version \in Nat
      /\ \A v \in 1 .. Version : published'[v] = published[v] /\ v \in 1 .. Version'
  BY <1>1, <1>2, AppendProperties, LenProperties DEF Version, Last
<1>4. CommitInv'
  <2>1. net' = Stored(new)
    BY <1>1, <1>2, CommitEnds
  <2> QED BY <1>1, <1>3, <2>1 DEF CommitInv
<1>5. ReceiptInv'
  BY <1>1, <1>3 DEF RetrievalInv, ReceiptInv
<1>6. CueInv'
  BY <1>1, <1>3 DEF RetrievalInv, CueInv
<1>7. CaptureInv'
  <2> SUFFICES ASSUME session.at = "capture"
               PROVE  /\ session.version \in 1 .. Version' /\ session.version # Version'
                      /\ CueFits(published'[session.version], session)
                      /\ \A c \in DOMAIN session.cue : session.cue[c] \in Int
    BY <1>1 DEF RetrievalInv, CaptureInv, CueFits
  <2>1. /\ session.version \in 1 .. Version /\ CueFits(published[session.version], session)
        /\ \A c \in DOMAIN session.cue : session.cue[c] \in Int
    BY DEF RetrievalInv, CaptureInv
  <2> QED BY <1>3, <2>1
<1>8. DoneInv'
  <2> SUFFICES ASSUME session.at = "done" PROVE DoneInv'
    BY <1>1 DEF DoneInv
  <2>1. session.version \in 1 .. Version /\ CueFits(published[session.version], session) /\ RetrievalIsOfTheWhole
    BY DEF RetrievalInv, DoneInv
  <2>2. session.version \in 1 .. Version' /\ published'[session.version] = published[session.version]
    BY <1>3, <2>1
  <2>3. CueFits(published'[session'.version], session')
    BY <1>1, <2>1, <2>2
  <2>4. RetrievalIsOfTheWhole'
    BY <1>1, <2>1, <2>2 DEF RetrievalIsOfTheWhole
  <2> QED BY <1>1, <2>2, <2>3, <2>4 DEF DoneInv, CueFits
<1> QED BY <1>4, <1>5, <1>6, <1>7, <1>8 DEF RetrievalInv

LEMMA ReceiptIssues ==
  ASSUME RetrievalInv, Issue
  PROVE  RetrievalInv'
<1>1. /\ UNCHANGED <<net, published, writes, session>> /\ writes = None
      /\ receipts' = receipts \cup {[version |-> Version, activation |-> Restrict(net.activation, Frontier(net))]}
  BY DEF Issue
<1>2. net = Stored(published[Version]) /\ Version \in Nat \ {0}
  BY <1>1, LastIs DEF RetrievalInv, CommitInv
<1>3. Restrict(net.activation, Frontier(net)) = Trusted(published[Version])
  BY <1>2 DEF Stored, Trusted, Frontier
<1>4. ReceiptInv'
  BY <1>1, <1>2, <1>3 DEF RetrievalInv, ReceiptInv, Version
<1>5. CommitInv'
  BY <1>1 DEF RetrievalInv, CommitInv
<1>6. CueInv' /\ CaptureInv' /\ DoneInv'
  BY <1>1, SessionStays
<1> QED BY <1>4, <1>5, <1>6 DEF RetrievalInv

(* The steps of a session leave the rest alone.                            *)
LEMMA CoreStays ==
  ASSUME RetrievalInv, UNCHANGED <<net, published, writes, receipts>>
  PROVE  CommitInv' /\ ReceiptInv' /\ Version' = Version
BY DEF RetrievalInv, CommitInv, ReceiptInv, Version

LEMMA SessionBegins ==
  ASSUME RetrievalInv, NEW internal \in Cues, NEW receipt \in receipts \cup {None}, Begin(internal, receipt)
  PROVE  RetrievalInv'
<1>1. /\ session' = [at |-> "cue", version |-> Version, internal |-> internal,
                     trusted |-> IF receipt = None THEN <<>> ELSE receipt.activation]
      /\ UNCHANGED <<net, published, writes, receipts>>
  BY DEF Begin
<1>2. Version \in 1 .. Version
  BY LastIs DEF RetrievalInv
<1>3. receipt # None => receipt.activation = Trusted(published[Version])
  BY DEF RetrievalInv, ReceiptInv, Begin, Genuine
<1>4. CueInv' /\ CaptureInv' /\ DoneInv'
  BY <1>1, <1>2, <1>3, CoreStays DEF CueInv, CaptureInv, DoneInv
<1> QED BY <1>1, <1>4, CoreStays DEF RetrievalInv

LEMMA SessionAborts ==
  ASSUME RetrievalInv, Aborts, UNCHANGED <<net, published, writes, receipts>>
  PROVE  RetrievalInv'
<1>1. session'.at = "idle"
  BY DEF Aborts, Idle
<1> QED BY <1>1, CoreStays DEF RetrievalInv, CueInv, CaptureInv, DoneInv

LEMMA CueIsValidated ==
  ASSUME RetrievalInv, ValidateCue
  PROVE  RetrievalInv'
<1> DEFINE n == published[session.version]
<1>1. UNCHANGED <<net, published, writes, receipts>> /\ session.at = "cue"
  BY DEF ValidateCue
<1>2. CASE Aborts
  BY <1>1, <1>2, SessionAborts
<1>3. ASSUME Valid(session),
             session' = [at |-> "capture", version |-> session.version, cue |-> Merged(session),
                         authorized |-> DOMAIN session.trusted, capture |-> Blank]
      PROVE  RetrievalInv'
  <2>1. /\ session.version \in 1 .. Version /\ session.internal \in Cues
        /\ session.trusted = <<>> \/ session.trusted = Trusted(n)
    BY <1>1 DEF RetrievalInv, CueInv
  <2>2. /\ \A c \in DOMAIN session.trusted : Merged(session)[c] = session.trusted[c]
        /\ \A c \in DOMAIN session.internal \ DOMAIN session.trusted :
             Merged(session)[c] = session.internal[c]
        /\ DOMAIN Merged(session) = DOMAIN session.trusted \cup DOMAIN session.internal
    BY DEF Merged, Over
  <2>3. CueFits(n, session')
    <3>1. CASE session.trusted = <<>>
      <4>1. DOMAIN session.trusted = {}
        BY <3>1
      <4> QED BY <1>3, <4>1 DEF CueFits
    <3>2. CASE session.trusted = Trusted(n)
      <4>1. DOMAIN session.trusted = Frontier(n)
            /\ \A c \in Frontier(n) : session.trusted[c] = n.activation[c]
        BY <3>2 DEF Trusted, Restrict
      <4> QED BY <1>3, <2>2, <4>1 DEF CueFits
    <3> QED BY <2>1, <3>1, <3>2
  <2>4. ASSUME writes = None, session.version = Version
        PROVE  Partly(Last(published), DOMAIN Merged(session), Blank)
    <3>1. net = Stored(Last(published))
      BY <2>4 DEF RetrievalInv, CommitInv
    <3>2. DOMAIN Merged(session) \subseteq Last(published).cells
      BY <1>3, <2>2, <3>1 DEF Valid, Stored
    <3> QED BY <3>2, NothingYet
  <2>5. session'.at = "capture" /\ session'.version = session.version
        /\ session'.cue = Merged(session) /\ session'.capture = Blank
    BY <1>3
  <2>6. {"at", "version", "cue", "authorized", "capture"} \subseteq DOMAIN session'
    BY <1>3
  <2>7. \A c \in DOMAIN Merged(session) : Merged(session)[c] \in Int
    <3>1. \A c \in DOMAIN session.internal : session.internal[c] \in Int
      BY <2>1, RetrievalAssumption
    <3>2. \A c \in DOMAIN session.trusted : session.trusted[c] \in Int
      <4>1. CASE session.trusted = <<>>
        BY <4>1
      <4>2. CASE session.trusted = Trusted(n)
        <5>1. n \in Networks
          BY <2>1, LastIs DEF RetrievalInv
        <5> QED BY <4>2, <5>1, NetworkIs DEF Trusted, Restrict, Frontier
      <4> QED BY <2>1, <4>1, <4>2
    <3> QED BY <2>2, <3>1, <3>2
  <2>8. CaptureInv'
    BY <1>1, <2>1, <2>3, <2>4, <2>5, <2>6, <2>7, CoreStays DEF CaptureInv, CueFits
  <2> QED BY <1>1, <2>5, <2>8, CoreStays DEF RetrievalInv, CueInv, DoneInv
<1> QED BY <1>2, <1>3 DEF ValidateCue

LEMMA CaptureGoesOn ==
  ASSUME RetrievalInv, Capture
  PROVE  RetrievalInv'
<1>1. UNCHANGED <<net, published, writes, receipts>> /\ session.at = "capture"
  BY DEF Capture
<1>2. CASE Aborts
  BY <1>1, <1>2, SessionAborts
<1>3. ASSUME NEW i \in DOMAIN Stages, NEW item \in Unread(session, Stages[i]),
             session' = [session EXCEPT !.capture = Extended(@, Stages[i], item)]
      PROVE  RetrievalInv'
  <2>1. /\ {"at", "version", "cue", "authorized", "capture"} \subseteq DOMAIN session
        /\ session.version \in 1 .. Version /\ CueFits(published[session.version], session)
        /\ \A c \in DOMAIN session.cue : session.cue[c] \in Int
        /\ writes = None /\ session.version = Version =>
             Partly(Last(published), DOMAIN session.cue, session.capture)
    BY <1>1 DEF RetrievalInv, CaptureInv
  <2>2. /\ session'.at = "capture" /\ session'.version = session.version /\ session'.cue = session.cue
        /\ session'.authorized = session.authorized /\ DOMAIN session' = DOMAIN session
        /\ session'.capture = Extended(session.capture, Stages[i], item)
    BY <1>1, <1>3, <2>1
  <2>3. ASSUME writes = None, session.version = Version
        PROVE  Partly(Last(published), DOMAIN session.cue, Extended(session.capture, Stages[i], item))
    <3>1. net = Stored(Last(published)) /\ Last(published) \in Networks
      BY <2>3, LastIs DEF RetrievalInv, CommitInv
    <3> QED BY <1>3, <2>1, <2>3, <3>1, ReadOn
  <2>4. CaptureInv'
    BY <1>1, <2>1, <2>2, <2>3, CoreStays DEF CaptureInv, CueFits
  <2> QED BY <1>1, <2>2, <2>4, CoreStays DEF RetrievalInv, CueInv, DoneInv
<1> QED BY <1>2, <1>3 DEF Capture

LEMMA RetrievalSettles ==
  ASSUME RetrievalInv, Accept
  PROVE  RetrievalInv'
<1>1. UNCHANGED <<net, published, writes, receipts>> /\ session.at = "capture" /\ ReadAll(session)
  BY DEF Accept
<1>2. CASE Aborts
  BY <1>1, <1>2, SessionAborts
<1> DEFINE result == Settled(session.capture, session.cue, session.authorized)
<1>3. ASSUME Unchanged,
             session' = [at |-> "done", beside |-> writes # None, version |-> session.version,
                         cue |-> session.cue, authorized |-> session.authorized,
                         capture |-> session.capture, result |-> result]
      PROVE  RetrievalInv'
  <2> HIDE DEF result
  <2>1. /\ session'.at = "done" /\ session'.version = session.version /\ session'.cue = session.cue
        /\ session'.authorized = session.authorized /\ session'.capture = session.capture
        /\ session'.beside = (writes # None) /\ session'.result = result
    BY <1>3
  <2>2. /\ session.version \in 1 .. Version /\ session.version = Version
        /\ CueFits(published[session.version], session)
        /\ \A c \in DOMAIN session.cue : session.cue[c] \in Int
        /\ writes = None => Partly(Last(published), DOMAIN session.cue, session.capture)
    BY <1>1, <1>3 DEF RetrievalInv, CaptureInv, Unchanged
  <2>3. ASSUME writes = None
        PROVE  /\ session.capture = Closure(published[session.version], session.cue)
               /\ WholeFor(published[session.version], session.cue, session.authorized, result)
    <3> DEFINE n == published[session.version]
    <3>1. Last(published) \in Networks /\ Last(published) = n
      BY <2>2, LastIs DEF RetrievalInv
    <3>2. session.capture = Closure(n, session.cue)
      BY <1>1, <2>2, <2>3, <3>1, NothingLeft
    <3>3. DOMAIN session.cue \subseteq n.cells
      BY <2>2, <2>3, <3>1 DEF Partly, Allowed
    <3>4. Lawful(n, session.cue) /\ Agrees(session.capture, n, session.cue)
      BY <2>2, <3>1, <3>2, <3>3, ClosureAgrees DEF Lawful
    <3> QED BY <3>2, <3>4, SettledOfTheWhole DEF result
  <2>4. CueFits(published[session.version], session)'
    BY <1>1, <2>1, <2>2, Zenon DEF CueFits
  <2>5. RetrievalIsOfTheWhole'
    <3>1. writes = None =>
            WholeFor(published'[session'.version], session'.cue, session'.authorized, session'.result)
      BY <1>1, <2>1, <2>3
    <3> QED BY <2>1, <3>1, Zenon DEF RetrievalIsOfTheWhole, WholeFor
  <2> QED BY <1>1, <2>1, <2>2, <2>4, <2>5, CoreStays DEF RetrievalInv, CueInv, CaptureInv, DoneInv
<1> QED BY <1>2, <1>3 DEF Accept

LEMMA RetrievalKeeps ==
  ASSUME RetrievalInv, [RetrievalNext]_retrievalVars
  PROVE  RetrievalInv'
<1>1. CASE UNCHANGED retrievalVars
  <2>1. UNCHANGED <<net, published, writes, receipts>> /\ UNCHANGED <<published, session>>
    BY <1>1 DEF retrievalVars
  <2>2. CommitInv' /\ ReceiptInv'
    BY <2>1, CoreStays
  <2>3. CueInv' /\ CaptureInv' /\ DoneInv'
    BY <2>1, SessionStays
  <2> QED BY <2>2, <2>3 DEF RetrievalInv
<1>2. CASE RetrievalNext
  BY <1>2, CommitBegins, CommitAssigns, CommitIsPublished, ReceiptIssues, SessionBegins, CueIsValidated,
     CaptureGoesOn, RetrievalSettles
  DEF RetrievalNext
<1> QED BY <1>1, <1>2

-----------------------------------------------------------------------------
(* What a capture holds while commits go on: everything that is read comes *)
(* from a network between that of the version and its successor.           *)
Fits(pieces, v) == OfEither(published[v], Successor(v), pieces)

MixtureInv ==
  \/ session.at = "capture" /\ (session.version = Version => Fits(session.capture, session.version))
  \/ session.at = "done" /\ Fits(session.capture, session.version)
  \/ session.at \notin {"capture", "done"}

(* A network under way is of either.                                       *)
LEMMA HalfwayIsOfEither ==
  ASSUME NEW old \in Networks, NEW new \in Networks, NEW left, InTurn(old, new, left)
  PROVE  /\ OfEither(old, new, Halfway(old, new, left))
         /\ DOMAIN Halfway(old, new, left).memberships = Cells
<1> DEFINE n == Halfway(old, new, left)
<1>1. n.cells \subseteq old.cells \cup new.cells
  BY DEF Halfway, CellsAt
<1>2. \A a \in DOMAIN n.assemblies : \E k \in {old, new} :
        a \in DOMAIN k.assemblies /\ n.assemblies[a] = k.assemblies[a]
  <2>1. n.assemblies = AssembliesAt(old, new, left)
    BY DEF Halfway
  <2>2. \A a \in NowThere(old, new, left) :
          a \in DOMAIN new.assemblies /\ AssembliesAt(old, new, left)[a] = new.assemblies[a]
    BY DEF AssembliesAt, NowThere, Coming
  <2>3. \A a \in StillThere(old, new, left) \ NowThere(old, new, left) :
          a \in DOMAIN old.assemblies /\ AssembliesAt(old, new, left)[a] = old.assemblies[a]
    BY DEF AssembliesAt, StillThere
  <2>4. DOMAIN AssembliesAt(old, new, left) = StillThere(old, new, left) \cup NowThere(old, new, left)
    BY DEF AssembliesAt
  <2> HIDE DEF n
  <2> QED BY <2>1, <2>2, <2>3, <2>4
<1>3. /\ n.local \in {old.local, new.local}
      /\ n.associative \in {old.associative, new.associative}
  BY DEF Halfway
<1>4. n.memberships = MembershipsAt(old, new, left)
  BY DEF Halfway
<1>5. \A c \in Cells : \A a \in MembershipsAt(old, new, left)[c] : \E k \in {old, new} :
        a \in DOMAIN k.assemblies /\ c \in k.assemblies[a]
  <2> SUFFICES ASSUME NEW c \in Cells, NEW a \in MembershipsAt(old, new, left)[c]
               PROVE  \E k \in {old, new} : a \in DOMAIN k.assemblies /\ c \in k.assemblies[a]
    OBVIOUS
  <2>1. a \in StillListed(old, new, left, c) \cup NowListed(old, new, left, c)
    BY DEF MembershipsAt
  <2> QED BY <2>1 DEF StillListed, NowListed, Coming
<1>6. ASSUME NEW c \in Cells, NEW a \in DOMAIN old.assemblies \ Changed(old, new), c \in old.assemblies[a]
      PROVE  a \in MembershipsAt(old, new, left)[c]
  <2>1. a \notin Changing(old, new)
    BY DEF Changing
  <2>2. c \in new.cells
    <3>1. a \in DOMAIN new.assemblies /\ new.assemblies[a] = old.assemblies[a]
      BY <2>1, UnchangedStays
    <3> QED BY <1>6, <3>1, NetworkIs
  <2>3. a \in StillListed(old, new, left, c)
    BY <1>6, <2>1 DEF StillListed
  <2> QED BY <2>2, <2>3 DEF MembershipsAt
<1>7. DOMAIN MembershipsAt(old, new, left) = Cells
  BY DEF MembershipsAt
<1> HIDE DEF n
<1>8. OfEither(old, new, n)
  BY <1>1, <1>2, <1>3, <1>4, <1>5, <1>6, <1>7 DEF OfEither
<1> QED BY <1>4, <1>7, <1>8 DEF n

(* So is the network between commits, of which there is no successor.      *)
LEMMA StoredIsOfEither ==
  ASSUME NEW n \in Networks
  PROVE  OfEither(n, n, Stored(n)) /\ DOMAIN Stored(n).memberships = Cells
<1>1. /\ Halfway(n, n, Assignments(n, n)) = Stored(n)
      /\ InTurn(n, n, Assignments(n, n))
  BY CommitStarts
<1>2. /\ OfEither(n, n, Halfway(n, n, Assignments(n, n)))
      /\ DOMAIN Halfway(n, n, Assignments(n, n)).memberships = Cells
  BY <1>1, HalfwayIsOfEither
<1> QED BY <1>1, <1>2

(* A network that was followed by none is followed by any.                 *)
LEMMA AnySuccessorFits ==
  ASSUME NEW n \in Networks, NEW new \in Networks, NEW pieces, OfEither(n, n, pieces)
  PROVE  OfEither(n, new, pieces)
<1>1. Changed(n, n) = {}
  BY DEF Changed
<1> QED BY <1>1 DEF OfEither

(* What the cue, or a hop, makes the capture look at are cells.            *)
LEMMA LookedAreCells ==
  ASSUME NEW old \in Networks, NEW new \in Networks, NEW s, NEW i \in DOMAIN Stages,
         NEW item \in Unread(s, Stages[i]),
         net.cells \subseteq old.cells \cup new.cells,
         OfEither(old, new, s.capture), Readable(s.capture, Stages[i], item)
  PROVE  Looked(s.capture, Stages[i], item) \subseteq Cells
<1>1. old.cells \subseteq Cells /\ new.cells \subseteq Cells
  BY NetworkIs
<1>2. CASE Structural(Stages[i])
  BY <1>1, <1>2 DEF Looked, Readable
<1>3. CASE Stages[i] = "outgoing"
  BY <1>3 DEF Looked, Structural
<1>4. CASE Stages[i] = "cue"
  <2>1. Added(Stages[i], item) = {item}
    BY <1>4 DEF Added, Structural
  <2>2. item \in Cells
    BY <1>1, <2>1 DEF Readable, OfEither
  <2> QED BY <1>4, <2>2 DEF Looked, Structural
<1>5. CASE Stages[i] = "hits"
  <2>1. item \in Targets(s.capture)
    BY <1>5 DEF Unread
  <2>2. PICK k \in DOMAIN s.capture.associative : item = k[2]
    BY <2>1 DEF Targets
  <2>3. PICK n \in {old, new} : k \in DOMAIN n.associative
    BY <2>2 DEF OfEither
  <2>4. k \in n.cells \X n.cells
    BY <2>3, NetworkIs
  <2>5. item \in Cells
    BY <1>1, <2>2, <2>3, <2>4
  <2> QED BY <1>5, <2>5 DEF Looked, Structural
<1>6. Stages[i] \in {"cue", "sources", "outgoing", "hits", "targets"}
  BY DEF Stages
<1> QED BY <1>2, <1>3, <1>4, <1>5, <1>6 DEF Structural

LEMMA OverTakes ==
  ASSUME NEW f, NEW g, NEW x \in DOMAIN Over(f, g)
  PROVE  \/ x \in DOMAIN f /\ Over(f, g)[x] = f[x]
         \/ x \in DOMAIN g /\ Over(f, g)[x] = g[x]
BY DEF Over

LEMMA RestrictTakes ==
  ASSUME NEW f, NEW S
  PROVE  DOMAIN Restrict(f, S) = S /\ \A x \in S : Restrict(f, S)[x] = f[x]
BY DEF Restrict

(* One more piece of it.                                                   *)
LEMMA ExtendedIsOfEither ==
  ASSUME NEW old \in Networks, NEW new \in Networks, NEW capture, NEW stage, NEW item,
         OfEither(old, new, net), DOMAIN net.memberships = Cells,
         OfEither(old, new, capture), Readable(capture, stage, item),
         Looked(capture, stage, item) \subseteq Cells
  PROVE  OfEither(old, new, Extended(capture, stage, item))
<1> DEFINE more == Extended(capture, stage, item)
           S == Members(stage, item)
           seen == Looked(capture, stage, item)
           pairs == DOMAIN net.local \cap (S \X S)
           one == [a \in {item} |-> S]
<1>1. /\ more.cells = capture.cells \cup Added(stage, item)
      /\ more.memberships = Over(capture.memberships, Restrict(net.memberships, seen))
      /\ more.assemblies = IF Structural(stage) THEN Over(capture.assemblies, one) ELSE capture.assemblies
      /\ more.local = Over(Restrict(net.local, pairs), capture.local)
      /\ more.associative = Over(capture.associative, Restrict(net.associative, Outgoing(stage, item)))
  BY DEF Extended, Known
<1>2. Structural(stage) => item \in DOMAIN net.assemblies /\ S = net.assemblies[item]
  BY DEF Readable, Present, Members
<1>3. Outgoing(stage, item) \subseteq DOMAIN net.associative
  BY DEF Outgoing
<1>4. more.cells \subseteq old.cells \cup new.cells
  BY <1>1 DEF Readable, OfEither
<1> HIDE DEF more, seen, S
<1>5. \A a \in DOMAIN more.assemblies : \E n \in {old, new} :
        a \in DOMAIN n.assemblies /\ more.assemblies[a] = n.assemblies[a]
  <2>1. CASE ~Structural(stage)
    BY <1>1, <2>1 DEF OfEither
  <2>2. CASE Structural(stage)
    <3> SUFFICES ASSUME NEW a \in DOMAIN more.assemblies
                 PROVE  \E n \in {old, new} : a \in DOMAIN n.assemblies /\ more.assemblies[a] = n.assemblies[a]
      OBVIOUS
    <3>1. \/ a \in DOMAIN capture.assemblies /\ more.assemblies[a] = capture.assemblies[a]
          \/ a \in DOMAIN one /\ more.assemblies[a] = one[a]
      BY <1>1, <2>2, OverTakes
    <3>2. a \in DOMAIN one => a = item /\ one[a] = net.assemblies[item] /\ item \in DOMAIN net.assemblies
      BY <1>2, <2>2
    <3> HIDE DEF one
    <3> QED BY <3>1, <3>2 DEF OfEither
  <2> QED BY <2>1, <2>2
<1>6. \A k \in DOMAIN more.local : \E n \in {old, new} :
        k \in DOMAIN n.local /\ more.local[k] = n.local[k]
  <2> SUFFICES ASSUME NEW k \in DOMAIN more.local
               PROVE  \E n \in {old, new} : k \in DOMAIN n.local /\ more.local[k] = n.local[k]
    OBVIOUS
  <2>1. \/ k \in pairs /\ more.local[k] = net.local[k]
        \/ k \in DOMAIN capture.local /\ more.local[k] = capture.local[k]
    BY <1>1, OverTakes, RestrictTakes
  <2> QED BY <2>1 DEF OfEither
<1>7. \A k \in DOMAIN more.associative : \E n \in {old, new} :
        k \in DOMAIN n.associative /\ more.associative[k] = n.associative[k]
  <2> SUFFICES ASSUME NEW k \in DOMAIN more.associative
               PROVE  \E n \in {old, new} : k \in DOMAIN n.associative /\ more.associative[k] = n.associative[k]
    OBVIOUS
  <2>1. \/ k \in DOMAIN net.associative /\ more.associative[k] = net.associative[k]
        \/ k \in DOMAIN capture.associative /\ more.associative[k] = capture.associative[k]
    BY <1>1, <1>3, OverTakes, RestrictTakes
  <2> QED BY <2>1 DEF OfEither
<1>8. ASSUME NEW c \in DOMAIN more.memberships
      PROVE  /\ \A a \in more.memberships[c] : \E n \in {old, new} :
                  a \in DOMAIN n.assemblies /\ c \in n.assemblies[a]
             /\ \A a \in DOMAIN old.assemblies \ Changed(old, new) :
                  c \in old.assemblies[a] => a \in more.memberships[c]
  <2>1. \/ c \in DOMAIN capture.memberships /\ more.memberships[c] = capture.memberships[c]
        \/ c \in seen /\ more.memberships[c] = net.memberships[c]
    BY <1>1, OverTakes, RestrictTakes
  <2>2. c \in seen => c \in DOMAIN net.memberships
    BY DEF seen
  <2> QED BY <2>1, <2>2 DEF OfEither
<1>9. OfEither(old, new, more)
  BY <1>4, <1>5, <1>6, <1>7, <1>8 DEF OfEither
<1> QED BY <1>9 DEF more

(* The network, as it is now, is between the last one and its successor.   *)
LEMMA NetIsOfEither ==
  ASSUME RetrievalInv
  PROVE  /\ published[Version] \in Networks /\ Successor(Version) \in Networks
         /\ OfEither(published[Version], Successor(Version), net)
         /\ DOMAIN net.memberships = Cells
<1>1. published[Version] = Last(published) /\ published[Version] \in Networks
  BY LastIs DEF RetrievalInv, CommitInv
<1>2. ~(Version < Version)
  BY LastIs DEF RetrievalInv, CommitInv
<1>3. CASE writes = None
  <2>1. Successor(Version) = published[Version] /\ net = Stored(published[Version])
    BY <1>1, <1>2, <1>3 DEF Successor, RetrievalInv, CommitInv
  <2> QED BY <1>1, <2>1, StoredIsOfEither
<1>4. CASE writes # None
  <2>1. Successor(Version) = writes.to
    BY <1>2, <1>4 DEF Successor
  <2>2. /\ writes.to \in Networks /\ InTurn(published[Version], writes.to, writes.left)
        /\ net = Halfway(published[Version], writes.to, writes.left)
    BY <1>1, <1>4 DEF RetrievalInv, CommitInv
  <2> QED BY <1>1, <2>1, <2>2, HalfwayIsOfEither
<1> QED BY <1>3, <1>4

LEMMA CommitIsUnderWay ==
  ASSUME RetrievalInv, Assign
  PROVE  writes' # None /\ writes'.to = writes.to
<1> DEFINE old == Last(published)
           new == writes.to
           left == writes.left
<1>1. PICK w \in left : /\ \A v \in left \ {w} : Before(w, v)
                        /\ writes' = [writes EXCEPT !.left = @ \ {w}]
  BY DEF Assign
<1>2. /\ old \in Networks /\ new \in Networks /\ InTurn(old, new, left)
      /\ writes = [to |-> new, left |-> left]
  BY LastIs DEF RetrievalInv, CommitInv, Assign
<1>3. writes' = [to |-> new, left |-> left \ {w}]
  BY <1>1, <1>2
<1>4. InTurn(old, new, left \ {w})
  BY <1>1, <1>2, CommitGoesOn
<1> HIDE DEF new, left
<1>5. writes' # None
  BY <1>2, <1>3, <1>4, CommitIsOne
<1> QED BY <1>3, <1>5 DEF new

(* A capture keeps fitting its version whatever the Core does.             *)
LEMMA PiecesKeepFitting ==
  ASSUME RetrievalInv, NEW pieces, NEW v \in 1 .. Version, Fits(pieces, v),
         \/ \E new \in Networks : BeginCommit(new)
         \/ Assign \/ EndCommit \/ Issue
  PROVE  v \in 1 .. Version' /\ OfEither(published'[v], Successor(v)', pieces)
<1>1. Version \in Nat \ {0} /\ published \in Seq(Networks) /\ published[Version] \in Networks
  BY LastIs DEF RetrievalInv, CommitInv
<1>2. ASSUME NEW new \in Networks, BeginCommit(new)
      PROVE  v \in 1 .. Version' /\ OfEither(published'[v], Successor(v)', pieces)
  <2>1. writes = None /\ published' = published /\ writes' = [to |-> new, left |-> Assignments(Last(published), new)]
    BY <1>2 DEF BeginCommit
  <2>2. Version' = Version
    BY <2>1 DEF Version
  <2>3. CASE v < Version
    BY <2>1, <2>2, <2>3 DEF Successor, Fits
  <2>4. CASE v = Version
    <3>1. Successor(v) = published[v] /\ ~(v < Version)
      BY <1>1, <2>1, <2>4 DEF Successor
    <3>2. OfEither(published[v], new, pieces)
      BY <1>1, <2>4, <3>1, AnySuccessorFits DEF Fits
    <3>3. Last(published) \in Networks
      BY LastIs DEF RetrievalInv, CommitInv
    <3>4. writes' # None
      BY <2>1, <3>3, CommitStarts, CommitIsOne
    <3>5. writes'.to = new
      BY <2>1
    <3>6. Successor(v)' = new
      BY <2>2, <3>1, <3>4, <3>5 DEF Successor
    <3> QED BY <2>1, <2>2, <3>2, <3>6
  <2> QED BY <1>1, <2>3, <2>4
<1>3. ASSUME Assign \/ Issue
      PROVE  v \in 1 .. Version' /\ OfEither(published'[v], Successor(v)', pieces)
  <2>1. published' = published
    BY <1>3 DEF Assign, Issue
  <2>2. writes' = writes \/ (writes # None /\ writes' # None /\ writes'.to = writes.to)
    BY <1>3, CommitIsUnderWay DEF Assign, Issue
  <2>4. Version' = Version
    BY <2>1 DEF Version
  <2>5. Successor(v)' = Successor(v)
    BY <2>1, <2>2, <2>4 DEF Successor
  <2> QED BY <2>1, <2>4, <2>5 DEF Fits
<1>4. ASSUME EndCommit
      PROVE  v \in 1 .. Version' /\ OfEither(published'[v], Successor(v)', pieces)
  <2>1. writes # None /\ published' = Append(published, writes.to) /\ writes.to \in Networks
    BY <1>4 DEF EndCommit, RetrievalInv, CommitInv
  <2>2. /\ Version' = Version + 1 /\ published'[Version + 1] = writes.to
        /\ \A u \in 1 .. Version : published'[u] = published[u]
    BY <1>1, <2>1 DEF Version
  <2>3. Successor(v)' = published'[v + 1]
    BY <1>1, <2>2 DEF Successor
  <2>4. CASE v < Version
    <3>1. v + 1 \in 1 .. Version
      BY <1>1, <2>4
    <3> QED BY <1>1, <2>2, <2>3, <2>4, <3>1 DEF Successor, Fits
  <2>5. CASE v = Version
    <3>1. Successor(v) = writes.to
      BY <1>1, <2>1, <2>5 DEF Successor
    <3> QED BY <1>1, <2>2, <2>3, <2>5, <3>1 DEF Fits
  <2> QED BY <1>1, <2>4, <2>5
<1> QED BY <1>2, <1>3, <1>4

LEMMA MixtureStarts ==
  ASSUME RetrievalInit
  PROVE  MixtureInv
BY DEF RetrievalInit, Idle, MixtureInv

LEMMA MixtureKeeps ==
  ASSUME RetrievalInv, MixtureInv, [RetrievalNext]_retrievalVars
  PROVE  MixtureInv'
<1>1. CASE UNCHANGED retrievalVars
  BY <1>1, Zenon DEF retrievalVars, MixtureInv, Fits, Successor, Version
<1>2. ASSUME \/ \E new \in Networks : BeginCommit(new)
             \/ Assign \/ EndCommit \/ Issue
      PROVE  MixtureInv'
  <2>1. session' = session
    BY <1>2 DEF BeginCommit, Assign, EndCommit, Issue
  <2>2. session.at \in {"capture", "done"} => session.version \in 1 .. Version
    BY DEF RetrievalInv, CaptureInv, DoneInv
  <2>3. session.at = "capture" /\ session.version = Version' => session.version = Version
    <3>1. Version' \in {Version, Version + 1} /\ Version \in Nat
      BY <1>2, LastIs, LenProperties, AppendProperties
      DEF RetrievalInv, CommitInv, BeginCommit, Assign, EndCommit, Issue, Version
    <3> QED BY <2>2, <3>1
  <2>4. ASSUME session.at \in {"capture", "done"}, Fits(session.capture, session.version)
        PROVE  OfEither(published'[session.version], Successor(session.version)', session.capture)
    <3>1. PICK pieces, v : pieces = session.capture /\ v = session.version
      OBVIOUS
    <3>2. v \in 1 .. Version /\ Fits(pieces, v)
      BY <2>2, <2>4, <3>1
    <3>3. OfEither(published'[v], Successor(v)', pieces)
      BY <1>2, <3>2, PiecesKeepFitting
    <3> QED BY <2>1, <3>1, <3>3 DEF Successor
  <2>5. CASE session.at = "capture"
    <3>1. session.version = Version' =>
            OfEither(published'[session.version], Successor(session.version)', session.capture)
      BY <2>3, <2>4, <2>5 DEF MixtureInv
    <3> QED BY <2>1, <2>5, <3>1 DEF MixtureInv, Fits, Successor
  <2>6. CASE session.at = "done"
    <3>1. OfEither(published'[session.version], Successor(session.version)', session.capture)
      BY <2>4, <2>6 DEF MixtureInv
    <3> QED BY <2>1, <2>6, <3>1 DEF MixtureInv, Fits, Successor
  <2>7. CASE session.at \notin {"capture", "done"}
    BY <2>1, <2>7 DEF MixtureInv
  <2> QED BY <2>5, <2>6, <2>7
<1>3. ASSUME NEW internal \in Cues, NEW receipt \in receipts \cup {None}, Begin(internal, receipt)
      PROVE  MixtureInv'
  BY <1>3 DEF Begin, MixtureInv
<1>4. ASSUME Aborts
      PROVE  MixtureInv'
  BY <1>4 DEF Aborts, Idle, MixtureInv
<1>5. CASE ValidateCue
  <2>1. CASE Aborts
    BY <1>4, <2>1
  <2>2. CASE session' = [at |-> "capture", version |-> session.version, cue |-> Merged(session),
                         authorized |-> DOMAIN session.trusted, capture |-> Blank]
    <3>1. session'.at = "capture" /\ session'.capture = Blank
      BY <2>2
    <3>2. \A old, new : OfEither(old, new, Blank)
      BY DEF OfEither, Blank
    <3> QED BY <3>1, <3>2 DEF MixtureInv, Fits
  <2> QED BY <1>5, <2>1, <2>2 DEF ValidateCue
<1>6. CASE Capture
  <2>1. UNCHANGED <<net, published, writes, receipts>> /\ session.at = "capture"
    BY <1>6 DEF Capture
  <2>2. ASSUME NEW i \in DOMAIN Stages, NEW item \in Unread(session, Stages[i]),
               Readable(session.capture, Stages[i], item),
               session' = [session EXCEPT !.capture = Extended(@, Stages[i], item)]
        PROVE  MixtureInv'
    <3>1. {"at", "version", "cue", "authorized", "capture"} \subseteq DOMAIN session
      BY <2>1 DEF RetrievalInv, CaptureInv
    <3>2. /\ session'.at = "capture" /\ session'.version = session.version
          /\ session'.capture = Extended(session.capture, Stages[i], item)
      BY <2>1, <2>2, <3>1
    <3>3. ASSUME session.version = Version
          PROVE  Fits(Extended(session.capture, Stages[i], item), session.version)
      <4> DEFINE old == published[Version]
                 new == Successor(Version)
      <4>1. /\ old \in Networks /\ new \in Networks
            /\ OfEither(old, new, net) /\ DOMAIN net.memberships = Cells
        BY NetIsOfEither
      <4>2. OfEither(old, new, session.capture)
        BY <2>1, <3>3 DEF MixtureInv, Fits
      <4>3. net.cells \subseteq old.cells \cup new.cells
        BY <4>1 DEF OfEither
      <4> HIDE DEF old, new
      <4>4. Looked(session.capture, Stages[i], item) \subseteq Cells
        BY <2>2, <4>1, <4>2, <4>3, LookedAreCells
      <4>5. OfEither(old, new, Extended(session.capture, Stages[i], item))
        BY <2>2, <4>1, <4>2, <4>4, ExtendedIsOfEither
      <4> QED BY <3>3, <4>5 DEF Fits, old, new
    <3>4. Version' = Version /\ published' = published
      BY <2>1 DEF Version
    <3>5. session.version = Version' =>
            OfEither(published'[session.version], Successor(session.version), session'.capture)
      BY <3>2, <3>3, <3>4 DEF Fits
    <3> QED BY <2>1, <3>2, <3>4, <3>5 DEF MixtureInv, Fits, Successor
  <2>3. CASE Aborts
    BY <1>4, <2>3
  <2> QED BY <1>6, <2>2, <2>3 DEF Capture
<1>7. CASE Accept
  <2>1. UNCHANGED <<net, published, writes, receipts>> /\ session.at = "capture"
    BY <1>7 DEF Accept
  <2>2. CASE Aborts
    BY <1>4, <2>2
  <2>3. ASSUME Unchanged, session'.at = "done", session'.version = session.version,
               session'.capture = session.capture
        PROVE  MixtureInv'
    <3>1. Fits(session.capture, session.version)
      BY <2>1, <2>3 DEF MixtureInv, Unchanged
    <3> QED BY <2>1, <2>3, <3>1 DEF MixtureInv, Fits, Successor, Version
  <2> QED BY <1>7, <2>2, <2>3 DEF Accept
<1> QED BY <1>1, <1>2, <1>3, <1>5, <1>6, <1>7 DEF RetrievalNext

(* Nothing in an accepted capture is older than the version it names or    *)
(* younger than the commit that follows, nothing that this commit leaves   *)
(* alone is missing, and the trusted part of its cue is of the version,    *)
(* however the session, the receipts and the assignments of the commits    *)
(* interleave (MixturesAreOfOneCommit).                                    *)
THEOREM MixturesAlwaysOfOneCommit == RetrievalSpec => []MixturesAreOfOneCommit
<1>1. RetrievalInv /\ MixtureInv => MixturesAreOfOneCommit
  <2> SUFFICES ASSUME RetrievalInv, MixtureInv, session.at = "done"
               PROVE  MixturesAreOfOneCommit
    BY DEF MixturesAreOfOneCommit
  <2>1. OfEither(published[session.version], Successor(session.version), session.capture)
    BY DEF MixtureInv, Fits
  <2>2. CueFits(published[session.version], session)
    BY DEF RetrievalInv, DoneInv
  <2> QED BY <2>1, <2>2, Zenon DEF MixturesAreOfOneCommit, CueFits
<1> QED BY <1>1, RetrievalStarts, RetrievalKeeps, MixtureStarts, MixtureKeeps, PTL DEF RetrievalSpec

(* What such a session retrieves is what it would retrieve from the whole  *)
(* network of its version: lanes, hop, branches and families.  The drives  *)
(* that lanes keep from round to round are those of a completion from      *)
(* scratch, and every family of sources keeps one that none dominates      *)
(* (RetrievalIsOfTheWhole).                                                *)
THEOREM RetrievalsAreOfTheWhole == RetrievalSpec => []RetrievalIsOfTheWhole
<1>1. RetrievalInv => RetrievalIsOfTheWhole
  BY DEF RetrievalInv, DoneInv, RetrievalIsOfTheWhole
<1> QED BY <1>1, RetrievalStarts, RetrievalKeeps, PTL DEF RetrievalSpec
=============================================================================
