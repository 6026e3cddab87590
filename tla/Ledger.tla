------------------------------- MODULE Ledger -------------------------------
(***************************************************************************)
(* One budget index of invocation.py: the triple (units, records,          *)
(* sequence) that the code replaces by a single pointer swap.  A unit is   *)
(* bound to the reservation that took it; a reservation record names its   *)
(* units and the only work class they may be charged for.  Every operator  *)
(* below is a prospective index, as in the code: the caller publishes it.  *)
(*                                                                         *)
(* Reservation tokens and canonical identities are abstracted to the       *)
(* sequence number they are derived from, which is unique in an index.     *)
(***************************************************************************)
EXTENDS Integers, FiniteSets, Sequences

CONSTANT WorkClasses \* the canonical descriptors charges are made for

NoReservation   == [kind |-> "none", at |-> 0]
Issued(q)       == [kind |-> "issued", at |-> q]
Retirement(rev) == [kind |-> "retirement", at |-> rev]

ReservationId == [kind : {"none", "issued", "retirement"}, at : Nat]

Open     == {"AVAILABLE", "RESERVED"}
Terminal == {"CONSUMED", "RETIRED", "DELEGATED_FORECAST_POOL"}

Unit  == [state : Open \cup Terminal, reservation : ReservationId]
Fresh == [state |-> "AVAILABLE", reservation |-> NoReservation]

InState(L, s) == {i \in DOMAIN L.units : L.units[i].state = s}

(* The n least members of a set of unit ordinals: available[:n].           *)
Rank(S, i)    == Cardinality({j \in S : j <= i})
Lowest(S, n)  == {i \in S : Rank(S, i) <= n}

NewIndex(n) == [units    |-> [i \in 0 .. n - 1 |-> Fresh],
                records  |-> [q \in {} |-> [units |-> {}, work |-> "none"]],
                sequence |-> 0]

(* prepare_reservation: the whole envelope or nothing.                     *)
CanReserve(L, n) == n > 0 /\ n <= Cardinality(InState(L, "AVAILABLE"))

Chosen(L, n) == Lowest(InState(L, "AVAILABLE"), n)

Take(L, n, w, state) ==
  [units    |-> [i \in DOMAIN L.units |->
                   IF i \in Chosen(L, n)
                   THEN [state |-> state, reservation |-> Issued(L.sequence)]
                   ELSE L.units[i]],
   records  |-> [q \in DOMAIN L.records \cup {L.sequence} |->
                   IF q = L.sequence
                   THEN [units |-> Chosen(L, n), work |-> w]
                   ELSE L.records[q]],
   sequence |-> L.sequence + 1]

Reserve(L, n, w) == Take(L, n, w, "RESERVED")

(* prepare_forecast_delegation, parent side: the 2H units leave the parent *)
(* at once; the pool they become is modelled with the forecast.            *)
Delegate(L, horizon, w) == Take(L, 2 * horizon, w, "DELEGATED_FORECAST_POOL")

(* prepare_consumption: exact reservation, unit, state and work class.     *)
CanConsume(L, q, i, w) ==
  /\ q \in DOMAIN L.records
  /\ w = L.records[q].work
  /\ i \in L.records[q].units
  /\ L.units[i] = [state |-> "RESERVED", reservation |-> Issued(q)]

WithUnits(L, units) == [units |-> units, records |-> L.records, sequence |-> L.sequence]

Spent(unit, state) == [state |-> state, reservation |-> unit.reservation]

Consume(L, i) == WithUnits(L, [L.units EXCEPT ![i] = Spent(L.units[i], "CONSUMED")])

(* retire, causal_retirement: what is still RESERVED in the given          *)
(* reservations becomes RETIRED; what was consumed stays consumed.         *)
ReservedIn(L, qs) ==
  {i \in InState(L, "RESERVED") : \E q \in qs \cap DOMAIN L.records : i \in L.records[q].units}

(* Fault: retiring a reservation gives its units back.                     *)
RetireReservedRefunding(L, qs) ==
  WithUnits(L, [i \in DOMAIN L.units |-> IF i \in ReservedIn(L, qs) THEN Fresh ELSE L.units[i]])

RetireReserved(L, qs) ==
  WithUnits(L, [i \in DOMAIN L.units |->
    IF i \in ReservedIn(L, qs) THEN Spent(L.units[i], "RETIRED") ELSE L.units[i]])

(* retire_unused: an AVAILABLE unit is first bound to the administrative   *)
(* retirement of this lifecycle revision, then everything RESERVED retires.*)
RetireUnused(L, rev) ==
  LET administrative(unit) ==
        IF unit.state = "AVAILABLE"
        THEN [state |-> "RESERVED", reservation |-> Retirement(rev)] ELSE unit
      retired(unit) == IF unit.state = "RESERVED" THEN Spent(unit, "RETIRED") ELSE unit
  IN WithUnits(L, [i \in DOMAIN L.units |-> retired(administrative(L.units[i]))])

(* prepare_causal_reservation: one single-unit reservation for each work   *)
(* class of the frontier, lowest available unit first, as one index.       *)
ReserveEach(L, works) ==
  LET n      == Len(works)
      chosen == Chosen(L, n)
      nth(k) == {i \in chosen : Rank(chosen, i) = k}
  IN [units    |-> [i \in DOMAIN L.units |->
                      IF i \in chosen
                      THEN [state |-> "RESERVED",
                            reservation |-> Issued(L.sequence + Rank(chosen, i) - 1)]
                      ELSE L.units[i]],
      records  |-> [q \in DOMAIN L.records \cup L.sequence .. L.sequence + n - 1 |->
                      IF q >= L.sequence
                      THEN [units |-> nth(q - L.sequence + 1),
                            work  |-> works[q - L.sequence + 1]]
                      ELSE L.records[q]],
      sequence |-> L.sequence + n]

(* No unit is left that could still be charged.                            *)
Drained(L) == \A i \in DOMAIN L.units : L.units[i].state \in Terminal

-----------------------------------------------------------------------------
(* Shape of an index of n units.                                           *)
LedgerOK(L, n) ==
  /\ L = [units |-> L.units, records |-> L.records, sequence |-> L.sequence]
  /\ L.sequence \in Nat
  /\ L.units \in [0 .. n - 1 -> Unit]
  /\ L.records \in [0 .. L.sequence - 1 -> [units : SUBSET (0 .. n - 1), work : WorkClasses]]

(* A unit in a reservation's record is bound to that reservation alone.    *)
Owns(L) ==
  \A q \in DOMAIN L.records : \A i \in L.records[q].units :
    /\ L.units[i].reservation = Issued(q)
    /\ L.units[i].state # "AVAILABLE"

(* The only ways a unit may change.                                        *)
MayBecome(u, v) ==
  \/ v = u
  \/ u.state = "AVAILABLE"
  \/ u.state = "RESERVED" /\ v.reservation = u.reservation /\ v.state \in {"CONSUMED", "RETIRED"}

(* M is a later index of the same owner as L: units move one way and no    *)
(* reservation record is lost or rewritten.                                *)
Follows(L, M) ==
  /\ DOMAIN M.units = DOMAIN L.units
  /\ \A i \in DOMAIN L.units : MayBecome(L.units[i], M.units[i])
  /\ \A q \in DOMAIN L.records : q \in DOMAIN M.records /\ M.records[q] = L.records[q]
=============================================================================
