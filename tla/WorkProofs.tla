----------------------------- MODULE WorkProofs -----------------------------
(***************************************************************************)
(* Work permits, for any workers, any budget and any number of epochs and  *)
(* permits: each has a charge of its own and at most one execution, moves  *)
(* one way, and leaves nothing in a context that ended.                    *)
(***************************************************************************)
EXTENDS Work, LedgerProofs, SequenceTheorems

Permit == [kind : Issuable, unit : Nat, snapshot : [number : Nat, round : Nat],
           state : {"ISSUED", "RUNNING", "DONE", "RETIRED"},
           held : BOOLEAN, output : BOOLEAN, listed : BOOLEAN]

Stage == {"idle", "computing", "computed", "failed"}

Typed ==
  /\ phase \in {"ACTIVE", "CLOSING"} /\ owner \in {"none", "open", "closing"}
  /\ epoch \in [open : BOOLEAN, number : Nat, round : Nat]
  /\ study \in [state : {"none", "open", "ended"}, base : Nat]
  /\ permits \in Seq(Permit)
  /\ worker \in [Workers -> [at : Stage, permit : Nat]]

(* A charge is spent, and for one permit.                                  *)
Charged(P, L) ==
  \A p \in DOMAIN P :
    /\ P[p].unit \in DOMAIN L.units /\ L.units[P[p].unit].state = "CONSUMED"
    /\ \A q \in DOMAIN P : P[q].unit = P[p].unit => q = p

Busy(w) == worker[w].at # "idle"

(* A worker has the permit it claimed to itself.                           *)
Executing ==
  /\ \A w \in Workers :
       IF Busy(w) THEN /\ worker[w].permit \in DOMAIN permits
                       /\ permits[worker[w].permit].state \in {"RUNNING", "RETIRED"}
                  ELSE worker[w].permit = 0
  /\ \A v, w \in Workers : Busy(v) /\ worker[v].permit = worker[w].permit => v = w
  /\ \A p \in DOMAIN permits :
       permits[p].listed /\ permits[p].state = "RUNNING" =>
         \E w \in Workers : Busy(w) /\ worker[w].permit = p

(* What a record may still have, according to what it was made for: while  *)
(* the invocation is ACTIVE a projection keeps its binding, which is how   *)
(* the terminal publication finds it.                                      *)
Kept(r) ==
  /\ r.state = "RETIRED" \/ (phase = "CLOSING" /\ r.listed) => ~r.held /\ ~r.output
  /\ r.listed /\ r.kind = "projection" /\ r.state # "RETIRED" =>
       /\ epoch.open /\ epoch.number = r.snapshot.number
       /\ phase = "ACTIVE" => r.held
  /\ r.listed /\ r.kind = "causal" => study.state = "open"

(* An invocation that is closing has neither epoch nor study, and a work   *)
(* owner that was never opened issued nothing.                             *)
Closed ==
  /\ phase = "CLOSING" => ~epoch.open /\ study.state # "open" /\ owner # "open"
  /\ phase = "ACTIVE" => owner # "closing"
  /\ owner = "none" => permits = <<>>

Inductive ==
  /\ Typed /\ LedgerOK(ledger, Budget) /\ Owns(ledger)
  /\ Charged(permits, ledger) /\ Executing /\ Closed
  /\ \A p \in DOMAIN permits : Kept(permits[p])

-----------------------------------------------------------------------------
(* What every operation on records may do to one: it moves one way and     *)
(* keeps its charge.                                                       *)
MovesOn(r, s) ==
  /\ s.unit = r.unit /\ s.kind = r.kind /\ s.snapshot = r.snapshot
  /\ Progress(s.state) >= Progress(r.state)
  /\ s.listed => r.listed
  /\ s.output /\ ~r.output => r.state = "RUNNING"

(* What a clean-up may do to one: take.                                    *)
Less(r, s) ==
  /\ s.unit = r.unit /\ s.kind = r.kind /\ s.snapshot = r.snapshot
  /\ s.state = r.state \/ (s.state = "RETIRED" /\ ~s.held /\ ~s.output)
  /\ s.listed => r.listed
  /\ s.held => r.held
  /\ s.output => r.output

Cleaned(P, Q) ==
  /\ Q \in Seq(Permit) /\ DOMAIN Q = DOMAIN P
  /\ \A p \in DOMAIN P : Less(P[p], Q[p])

(* A sequence of permits, record by record.                                *)
LEMMA PermitSequence ==
  ASSUME NEW P \in Seq(Permit), NEW Q, DOMAIN Q = DOMAIN P, Q = [p \in DOMAIN P |-> Q[p]],
         \A p \in DOMAIN P : Q[p] \in Permit
  PROVE  Q \in Seq(Permit) /\ \A p \in DOMAIN P : P[p] \in Permit
<1>1. DOMAIN P = 1 .. Len(P) /\ Len(P) \in Nat
  OBVIOUS
<1>2. \A p \in DOMAIN P : P[p] \in Permit
  OBVIOUS
<1>3. Q \in [1 .. Len(P) -> Permit]
  BY <1>1
<1> QED BY <1>1, <1>2, <1>3

LEMMA EmptiedIsLess ==
  ASSUME NEW r \in Permit
  PROVE  /\ Emptied(r) \in Permit /\ Less(r, Emptied(r))
         /\ Emptied(r).state = "RETIRED" /\ ~Emptied(r).held /\ ~Emptied(r).output
         /\ Less(r, r)
<1>1. /\ Emptied(r).state = "RETIRED" /\ ~Emptied(r).held /\ ~Emptied(r).output
      /\ Emptied(r).listed = r.listed /\ Emptied(r).unit = r.unit
      /\ Emptied(r).kind = r.kind /\ Emptied(r).snapshot = r.snapshot
  BY DEF Emptied, Permit
<1>2. Emptied(r) \in Permit
  BY DEF Emptied, Permit
<1> QED BY <1>1, <1>2 DEF Less

LEMMA UnlistedIsLess ==
  ASSUME NEW r \in Permit
  PROVE  LET s == [Emptied(r) EXCEPT !.listed = FALSE]
         IN s \in Permit /\ Less(r, s) /\ ~s.listed
<1> DEFINE e == Emptied(r)
           s == [e EXCEPT !.listed = FALSE]
<1>1. e \in Permit /\ Less(r, e) /\ e.state = "RETIRED" /\ ~e.held /\ ~e.output
  BY EmptiedIsLess
<1> HIDE DEF e
<1>2. s \in Permit
  BY <1>1 DEF Permit
<1>3. /\ s.state = e.state /\ s.held = e.held /\ s.output = e.output /\ s.listed = FALSE
      /\ s.unit = e.unit /\ s.kind = e.kind /\ s.snapshot = e.snapshot
  BY <1>1 DEF Permit
<1>4. Less(r, s) /\ ~s.listed
  BY <1>1, <1>3 DEF Less
<1> QED BY <1>2, <1>4 DEF e

(* The clean-ups only take.                                                *)
LEMMA EpochClosedCleans ==
  ASSUME NEW P \in Seq(Permit), NEW n
  PROVE  /\ Cleaned(P, EpochClosed(P, n))
         /\ \A p \in DOMAIN P : LET s == EpochClosed(P, n)[p] IN
              s.listed /\ s.kind = "projection" /\ s.state # "RETIRED" => s.snapshot.number # n
<1> DEFINE Q == EpochClosed(P, n)
<1>1. \A p \in DOMAIN P : P[p] \in Permit
  OBVIOUS
<1>2. /\ DOMAIN Q = DOMAIN P /\ Q = [p \in DOMAIN P |-> Q[p]]
      /\ \A p \in DOMAIN P : Q[p] = IF /\ P[p].listed /\ P[p].kind \in {"projection", "causal"}
                                       /\ P[p].snapshot.number = n
                                       /\ P[p].kind = "causal" => P[p].held
                                    THEN Emptied(P[p]) ELSE P[p]
  BY DEF EpochClosed, Each
<1> HIDE DEF Q
<1>3. \A p \in DOMAIN P : Q[p] \in Permit /\ Less(P[p], Q[p])
  BY <1>1, <1>2, EmptiedIsLess
<1>4. \A p \in DOMAIN P : LET s == Q[p] IN
        s.listed /\ s.kind = "projection" /\ s.state # "RETIRED" => s.snapshot.number # n
  BY <1>1, <1>2, EmptiedIsLess
<1> QED BY <1>2, <1>3, <1>4, PermitSequence DEF Cleaned, Q

LEMMA EpochRetiredCleans ==
  ASSUME NEW P \in Seq(Permit), NEW n
  PROVE  /\ Cleaned(P, EpochRetired(P, n))
         /\ \A p \in DOMAIN P : LET s == EpochRetired(P, n)[p] IN
              /\ s.listed /\ s.kind = "projection" /\ s.state # "RETIRED"
                   => ~P[p].held \/ s.snapshot.number # n
              /\ ~s.held => s.state = "RETIRED" \/ ~P[p].held
<1> DEFINE Q == EpochRetired(P, n)
<1>1. \A p \in DOMAIN P : P[p] \in Permit
  OBVIOUS
<1>2. /\ DOMAIN Q = DOMAIN P /\ Q = [p \in DOMAIN P |-> Q[p]]
      /\ \A p \in DOMAIN P : Q[p] = IF /\ P[p].listed /\ P[p].held
                                       /\ P[p].kind \in {"reasoning", "projection"}
                                       /\ P[p].snapshot.number = n
                                    THEN Emptied(P[p]) ELSE P[p]
  BY DEF EpochRetired, Each
<1> HIDE DEF Q
<1>3. \A p \in DOMAIN P : Q[p] \in Permit /\ Less(P[p], Q[p])
  BY <1>1, <1>2, EmptiedIsLess
<1>4. \A p \in DOMAIN P : LET s == Q[p] IN
        /\ s.listed /\ s.kind = "projection" /\ s.state # "RETIRED"
             => ~P[p].held \/ s.snapshot.number # n
        /\ ~s.held => s.state = "RETIRED" \/ ~P[p].held
  BY <1>1, <1>2, EmptiedIsLess
<1> QED BY <1>2, <1>3, <1>4, PermitSequence DEF Cleaned, Q

LEMMA ParentClosedCleans ==
  ASSUME NEW P \in Seq(Permit)
  PROVE  /\ Cleaned(P, ParentClosed(P))
         /\ \A p \in DOMAIN P : LET s == ParentClosed(P)[p] IN s.listed => ~s.held /\ ~s.output
<1> DEFINE Q == ParentClosed(P)
<1>1. \A p \in DOMAIN P : P[p] \in Permit
  OBVIOUS
<1>2. /\ DOMAIN Q = DOMAIN P /\ Q = [p \in DOMAIN P |-> Q[p]]
      /\ \A p \in DOMAIN P : Q[p] = IF P[p].listed
           THEN [P[p] EXCEPT !.state = IF P[p].state = "ISSUED" THEN "RETIRED" ELSE P[p].state,
                             !.held = FALSE, !.output = FALSE]
           ELSE P[p]
  BY DEF ParentClosed, Each
<1> HIDE DEF Q
<1>3. \A p \in DOMAIN P : Q[p] \in Permit /\ Less(P[p], Q[p])
  <2> TAKE p \in DOMAIN P
  <2> DEFINE state == IF P[p].state = "ISSUED" THEN "RETIRED" ELSE P[p].state
             r == [P[p] EXCEPT !.state = state, !.held = FALSE, !.output = FALSE]
  <2>1. P[p] \in Permit
    BY <1>1
  <2>2. state \in {"RUNNING", "DONE", "RETIRED"} /\ (state = P[p].state \/ state = "RETIRED")
    BY <2>1 DEF Permit
  <2>3. Q[p] = IF P[p].listed THEN r ELSE P[p]
    BY <1>2
  <2> HIDE DEF state
  <2>4. r \in Permit
    BY <2>1, <2>2 DEF Permit
  <2>5. /\ r.state = state /\ ~r.held /\ ~r.output /\ r.listed = P[p].listed
        /\ r.unit = P[p].unit /\ r.kind = P[p].kind /\ r.snapshot = P[p].snapshot
    BY <2>1 DEF Permit
  <2> QED BY <2>1, <2>2, <2>3, <2>4, <2>5 DEF Less
<1>4. \A p \in DOMAIN P : Q[p].listed => ~Q[p].held /\ ~Q[p].output
  BY <1>1, <1>2 DEF Permit
<1> QED BY <1>2, <1>3, <1>4, PermitSequence DEF Cleaned, Q

LEMMA CausalDiscardedCleans ==
  ASSUME NEW P \in Seq(Permit)
  PROVE  /\ Cleaned(P, CausalDiscarded(P))
         /\ \A p \in DOMAIN P : LET s == CausalDiscarded(P)[p] IN
              /\ s.listed => s.kind # "causal" /\ s = P[p]
<1> DEFINE Q == CausalDiscarded(P)
<1>1. \A p \in DOMAIN P : P[p] \in Permit
  OBVIOUS
<1>2. /\ DOMAIN Q = DOMAIN P /\ Q = [p \in DOMAIN P |-> Q[p]]
      /\ \A p \in DOMAIN P : Q[p] = IF P[p].listed /\ P[p].kind = "causal"
                                    THEN [Emptied(P[p]) EXCEPT !.listed = FALSE] ELSE P[p]
  BY DEF CausalDiscarded, Each
<1> HIDE DEF Q
<1>3. \A p \in DOMAIN P : Q[p] \in Permit /\ Less(P[p], Q[p])
  <2> TAKE p \in DOMAIN P
  <2> DEFINE r == [Emptied(P[p]) EXCEPT !.listed = FALSE]
  <2>1. P[p] \in Permit
    BY <1>1
  <2>2. r \in Permit /\ Less(P[p], r)
    BY <2>1, UnlistedIsLess
  <2> QED BY <1>2, <2>1, <2>2 DEF Less
<1>4. \A p \in DOMAIN P : Q[p].listed => Q[p].kind # "causal" /\ Q[p] = P[p]
  BY <1>1, <1>2 DEF Permit, Emptied
<1> QED BY <1>2, <1>3, <1>4, PermitSequence DEF Cleaned, Q

LEMMA CleanedTwice ==
  ASSUME NEW P, NEW Q, NEW R, Cleaned(P, Q), Cleaned(Q, R)
  PROVE  Cleaned(P, R)
  BY DEF Cleaned, Less

(* Release drops records from the registry.                                *)
LEMMA ReleaseCleans ==
  ASSUME NEW P \in Seq(Permit),
         NEW Q, Q = [p \in DOMAIN P |-> IF P[p].listed /\ P[p].state # "RUNNING"
                                       THEN [P[p] EXCEPT !.listed = FALSE] ELSE P[p]]
  PROVE  Cleaned(P, Q) /\ \A p \in DOMAIN P : Q[p].listed => Q[p] = P[p]
<1>1. \A p \in DOMAIN P : P[p] \in Permit
  OBVIOUS
<1>2. \A p \in DOMAIN P : Q[p] \in Permit /\ Less(P[p], Q[p]) /\ (Q[p].listed => Q[p] = P[p])
  <2> TAKE p \in DOMAIN P
  <2> DEFINE r == P[p]
             s == [r EXCEPT !.listed = FALSE]
  <2>1. r \in Permit
    BY <1>1
  <2> HIDE DEF r
  <2>2. s \in Permit
    BY <2>1 DEF Permit
  <2>3. /\ s.state = r.state /\ s.held = r.held /\ s.output = r.output /\ s.listed = FALSE
        /\ s.unit = r.unit /\ s.kind = r.kind /\ s.snapshot = r.snapshot
    BY <2>1 DEF Permit
  <2>4. Q[p] = r \/ Q[p] = s
    BY DEF r
  <2>5. Less(r, r) /\ Less(r, s)
    BY <2>3 DEF Less
  <2> QED BY <2>1, <2>2, <2>3, <2>4, <2>5 DEF r
<1>3. DOMAIN Q = DOMAIN P /\ Q = [p \in DOMAIN P |-> Q[p]]
  OBVIOUS
<1> QED BY <1>2, <1>3, PermitSequence DEF Cleaned

-----------------------------------------------------------------------------
(* Charges stand whatever becomes of the ledger.                           *)
LEMMA ChargesStand ==
  ASSUME NEW P, NEW Q, NEW L, NEW M, Charged(P, L), Follows(L, M), DOMAIN Q = DOMAIN P,
         \A p \in DOMAIN P : Q[p].unit = P[p].unit
  PROVE  Charged(Q, M)
  BY DEF Charged, Follows, MayBecome

LEMMA SameLedger ==
  ASSUME NEW L
  PROVE  Follows(L, L)
  BY DEF Follows, MayBecome

Cleanable ==
  /\ Charged(permits, ledger)' /\ Executing'
  /\ permits' \in Seq(Permit) /\ DOMAIN permits' = DOMAIN permits
  /\ \A p \in DOMAIN permits' : permits'[p].state = "RETIRED" => ~permits'[p].held /\ ~permits'[p].output

LEMMA CleanupKeeps ==
  ASSUME Inductive, Cleaned(permits, permits'), worker' = worker, Follows(ledger, ledger')
  PROVE  Cleanable
<1>1. /\ permits' \in Seq(Permit) /\ DOMAIN permits' = DOMAIN permits
      /\ \A p \in DOMAIN permits : Less(permits[p], permits'[p])
  BY DEF Cleaned
<1>2. Charged(permits, ledger)'
  BY <1>1, ChargesStand DEF Inductive, Less
<1>3. Executing'
  <2>1. Executing
    BY DEF Inductive
  <2>2. \A w \in Workers : Busy(w)' <=> Busy(w)
    BY DEF Busy
  <2>3. \A w \in Workers :
          IF Busy(w)' THEN /\ worker'[w].permit \in DOMAIN permits'
                           /\ permits'[worker'[w].permit].state \in {"RUNNING", "RETIRED"}
                      ELSE worker'[w].permit = 0
    BY <1>1, <2>1, <2>2 DEF Executing, Less
  <2>4. \A v, w \in Workers : Busy(v)' /\ worker'[v].permit = worker'[w].permit => v = w
    BY <2>1, <2>2 DEF Executing
  <2>5. \A p \in DOMAIN permits' :
          permits'[p].listed /\ permits'[p].state = "RUNNING" =>
            \E w \in Workers : Busy(w)' /\ worker'[w].permit = p
    BY <1>1, <2>1, <2>2 DEF Executing, Less
  <2> QED BY <2>3, <2>4, <2>5 DEF Executing
<1>4. \A p \in DOMAIN permits' : permits'[p].state = "RETIRED" => ~permits'[p].held /\ ~permits'[p].output
  BY <1>1 DEF Inductive, Kept, Less
<1> QED BY <1>1, <1>2, <1>3, <1>4 DEF Cleanable

LEMMA InductiveInit == Init => Inductive
<1> SUFFICES ASSUME Init PROVE Inductive
  OBVIOUS
<1>1. LedgerOK(ledger, Budget) /\ Owns(ledger)
  BY NewIndexSound, WorkAssumption DEF Init
<1>2. permits = <<>> /\ permits \in Seq(Permit) /\ DOMAIN permits = {}
  BY DEF Init
<1>3. Typed
  BY <1>2 DEF Init, Typed, Idle, Stage
<1>4. Charged(permits, ledger)
  BY <1>2 DEF Charged
<1>5. Executing
  BY <1>2 DEF Executing, Init, Idle, Busy
<1>6. Closed
  BY <1>2 DEF Closed, Init
<1> QED BY <1>1, <1>2, <1>3, <1>4, <1>5, <1>6 DEF Inductive

LEMMA SamePermits ==
  ASSUME Inductive
  PROVE  Cleaned(permits, permits)
<1>1. permits \in Seq(Permit)
  BY DEF Inductive, Typed
<1>2. \A p \in DOMAIN permits : Less(permits[p], permits[p])
  BY DEF Less
<1> QED BY <1>1, <1>2 DEF Cleaned

-----------------------------------------------------------------------------
(* One lemma for each action: the invariant, and what a step may do to a   *)
(* record.                                                                 *)
Moves ==
  /\ DOMAIN permits \subseteq DOMAIN permits'
  /\ \A p \in DOMAIN permits : MovesOn(permits[p], permits'[p])

LEMMA CleanupMoves ==
  ASSUME Inductive, Cleaned(permits, permits')
  PROVE  Moves
<1> SUFFICES ASSUME NEW p \in DOMAIN permits
             PROVE  MovesOn(permits[p], permits'[p])
  BY DEF Moves, Cleaned
<1>1. permits[p] \in Permit /\ Less(permits[p], permits'[p])
  BY DEF Cleaned, Inductive, Typed
<1>2. Progress(permits'[p].state) >= Progress(permits[p].state)
  BY <1>1 DEF Less, Progress, Permit
<1> QED BY <1>1, <1>2 DEF Less, MovesOn

LEMMA OpenEpochKeeps == ASSUME Inductive, OpenEpoch PROVE Inductive' /\ Moves
<1>1. Cleaned(permits, permits') /\ Follows(ledger, ledger')
  BY SamePermits, SameLedger DEF OpenEpoch
<1>2. Cleanable /\ Moves
  BY <1>1, CleanupKeeps, CleanupMoves DEF OpenEpoch
<1>3. LedgerOK(ledger', Budget) /\ Owns(ledger')
  BY DEF OpenEpoch, Inductive
<1>4. Typed' /\ Closed'
  BY <1>2 DEF OpenEpoch, Inductive, Typed, Closed, Cleanable
<1>5. \A p \in DOMAIN permits' : Kept(permits[p])'
  BY <1>2 DEF OpenEpoch, Inductive, Kept, Cleanable
<1> QED BY <1>2, <1>3, <1>4, <1>5 DEF Inductive, Cleanable

LEMMA FinishEpochKeeps == ASSUME Inductive, FinishEpoch PROVE Inductive' /\ Moves
<1>1. permits \in Seq(Permit)
  BY DEF Inductive, Typed
<1>2. Cleaned(permits, permits') /\ Follows(ledger, ledger')
  BY <1>1, EpochClosedCleans, SameLedger DEF FinishEpoch
<1>3. Cleanable /\ Moves
  BY <1>2, CleanupKeeps, CleanupMoves DEF FinishEpoch
<1>4. LedgerOK(ledger', Budget) /\ Owns(ledger')
  BY DEF FinishEpoch, Inductive
<1>5. Typed' /\ Closed'
  <2>1. owner = "none" => permits' = <<>>
    BY <1>1, <1>3 DEF Inductive, Closed, Cleanable
  <2> QED BY <1>3, <2>1 DEF FinishEpoch, Inductive, Typed, Closed, Cleanable
<1>6. \A p \in DOMAIN permits' : Kept(permits[p])'
  <2> SUFFICES ASSUME NEW p \in DOMAIN permits PROVE Kept(permits[p])'
    BY <1>3 DEF Cleanable
  <2>1. Less(permits[p], permits'[p]) /\ Kept(permits[p])
    BY <1>2 DEF Cleaned, Inductive
  <2>2. permits'[p].listed /\ permits'[p].kind = "projection" /\ permits'[p].state # "RETIRED"
          => permits'[p].snapshot.number # epoch.number
    BY <1>1, EpochClosedCleans DEF FinishEpoch
  <2> QED BY <1>3, <2>1, <2>2 DEF FinishEpoch, Kept, Less, Cleanable
<1> QED BY <1>3, <1>4, <1>5, <1>6 DEF Inductive, Cleanable

LEMMA CleanUpEpochKeeps == ASSUME Inductive, NEW n, CleanUpEpoch(n) PROVE Inductive' /\ Moves
<1>1. permits \in Seq(Permit)
  BY DEF Inductive, Typed
<1>2. Cleaned(permits, permits') /\ Follows(ledger, ledger')
  BY <1>1, EpochRetiredCleans, SameLedger DEF CleanUpEpoch
<1>3. Cleanable /\ Moves
  BY <1>2, CleanupKeeps, CleanupMoves DEF CleanUpEpoch
<1>4. LedgerOK(ledger', Budget) /\ Owns(ledger')
  BY DEF CleanUpEpoch, Inductive
<1>5. Typed' /\ Closed'
  <2>1. owner = "none" => permits' = <<>>
    BY <1>1, <1>3 DEF Inductive, Closed, Cleanable
  <2> QED BY <1>3, <2>1 DEF CleanUpEpoch, Inductive, Typed, Closed, Cleanable
<1>6. \A p \in DOMAIN permits' : Kept(permits[p])'
  <2> SUFFICES ASSUME NEW p \in DOMAIN permits PROVE Kept(permits[p])'
    BY <1>3 DEF Cleanable
  <2>1. Less(permits[p], permits'[p]) /\ Kept(permits[p])
    BY <1>2 DEF Cleaned, Inductive
  <2>2. ~permits'[p].held => permits'[p].state = "RETIRED" \/ ~permits[p].held
    BY <1>1, EpochRetiredCleans DEF CleanUpEpoch
  <2> QED BY <1>3, <2>1, <2>2 DEF CleanUpEpoch, Kept, Less, Cleanable
<1> QED BY <1>3, <1>4, <1>5, <1>6 DEF Inductive, Cleanable

(* Opening a study charges one unit and reserves its frontier.             *)
LEMMA OpenStudyKeeps == ASSUME Inductive, OpenStudy PROVE Inductive' /\ Moves
<1> DEFINE opened == Take(ledger, 1, "OPEN_STUDY", "CONSUMED")
<1>1. Sound(ledger, opened, Budget)
  BY TakeSound, WorkAssumption DEF Inductive
<1>2. Frontier \in Seq(WorkClasses)
  BY WorkAssumption DEF Frontier
<1>3. Sound(opened, ledger', Budget)
  <2>1. ledger' = ReserveEach(opened, Frontier)
    BY DEF OpenStudy
  <2>2. LedgerOK(opened, Budget) /\ Owns(opened)
    BY <1>1 DEF Sound
  <2> HIDE DEF opened
  <2> QED BY <2>1, <2>2, <1>2, ReserveEachSound, WorkAssumption
<1>4. Charged(permits, ledger')
  <2>1. Charged(permits, opened)
    BY <1>1, ChargesStand DEF Sound, Inductive
  <2> HIDE DEF opened
  <2> QED BY <2>1, <1>3, ChargesStand DEF Sound
<1>5. Moves
  BY SamePermits, CleanupMoves DEF OpenStudy
<1>6. Executing'
  BY DEF OpenStudy, Inductive, Executing, Busy
<1>7. opened.sequence \in Nat
  BY <1>1 DEF Sound, LedgerOK
<1>8. Typed' /\ Closed' /\ \A p \in DOMAIN permits' : Kept(permits[p])'
  BY <1>7 DEF OpenStudy, Inductive, Typed, Closed, Kept
<1> HIDE DEF opened
<1>9. Charged(permits, ledger)'
  BY <1>4 DEF OpenStudy
<1> QED BY <1>3, <1>5, <1>6, <1>8, <1>9 DEF Inductive, Sound

(* What is done to the ledger alone.                                       *)
LEMMA LedgerAloneKeeps ==
  ASSUME Inductive, Sound(ledger, ledger', Budget),
         UNCHANGED <<phase, epoch, study, owner, permits, worker>>
  PROVE  Inductive' /\ Moves
<1>1. Cleaned(permits, permits')
  BY SamePermits
<1>2. Cleanable /\ Moves
  BY <1>1, CleanupKeeps, CleanupMoves DEF Sound
<1>3. Typed' /\ Closed' /\ \A p \in DOMAIN permits' : Kept(permits[p])'
  BY DEF Inductive, Typed, Closed, Kept
<1> QED BY <1>2, <1>3 DEF Inductive, Cleanable, Sound

LEMMA ReserveWorkKeeps ==
  ASSUME Inductive, NEW kind \in Dispatched \cup {"publish"}, ReserveWork(kind)
  PROVE  Inductive' /\ Moves
<1>1. Sound(ledger, ledger', Budget)
  BY TakeSound, WorkAssumption DEF Inductive, ReserveWork, Reserve, Dispatched
<1> QED BY <1>1, LedgerAloneKeeps DEF ReserveWork

LEMMA RetireUnusedUnitsKeeps == ASSUME Inductive, RetireUnusedUnits PROVE Inductive' /\ Moves
<1>1. Sound(ledger, ledger', Budget)
  BY RetireUnusedSound, WorkAssumption DEF Inductive, RetireUnusedUnits
<1> QED BY <1>1, LedgerAloneKeeps DEF RetireUnusedUnits

LEMMA EndStudyKeeps == ASSUME Inductive, EndStudy PROVE Inductive' /\ Moves
<1>1. permits \in Seq(Permit)
  BY DEF Inductive, Typed
<1>2. Cleaned(permits, permits')
  BY <1>1, CausalDiscardedCleans DEF EndStudy
<1>3. Sound(ledger, ledger', Budget)
  BY RetireReservedSound, WorkAssumption DEF EndStudy, Inductive
<1>4. Cleanable /\ Moves
  BY <1>2, <1>3, CleanupKeeps, CleanupMoves DEF EndStudy, Sound
<1>5. Typed' /\ Closed'
  <2>1. owner = "none" => permits' = <<>>
    BY <1>1, <1>4 DEF Inductive, Closed, Cleanable
  <2> QED BY <1>4, <2>1 DEF EndStudy, Inductive, Typed, Closed, Cleanable
<1>6. \A p \in DOMAIN permits' : Kept(permits[p])'
  <2> SUFFICES ASSUME NEW p \in DOMAIN permits PROVE Kept(permits[p])'
    BY <1>4 DEF Cleanable
  <2>1. permits'[p].listed => permits'[p].kind # "causal" /\ permits'[p] = permits[p]
    BY <1>1, CausalDiscardedCleans DEF EndStudy
  <2> QED BY <1>4, <2>1 DEF EndStudy, Kept, Inductive, Cleanable
<1> QED BY <1>3, <1>4, <1>5, <1>6 DEF Inductive, Cleanable, Sound

-----------------------------------------------------------------------------
(* A permit is issued against a unit that was charged with it.             *)
LEMMA IssueKeeps ==
  ASSUME Inductive, NEW kind \in Issuable, NEW i \in DOMAIN ledger.units,
         phase = "ACTIVE", epoch.open, kind = "causal" => study.state = "open",
         ledger.units[i].state # "CONSUMED", ledger'.units[i].state = "CONSUMED",
         Sound(ledger, ledger', Budget), permits' = Issue(kind, i), owner' = "open",
         UNCHANGED <<phase, epoch, study, worker>>
  PROVE  Inductive' /\ Moves
<1> DEFINE r == [kind |-> kind, unit |-> i, snapshot |-> Snapshot, state |-> "ISSUED",
                 held |-> TRUE, output |-> FALSE, listed |-> TRUE]
           n == Len(permits) + 1
<1>1. permits \in Seq(Permit) /\ DOMAIN permits = 1 .. Len(permits) /\ Len(permits) \in Nat
  BY DEF Inductive, Typed
<1>2. r \in Permit
  <2>1. i \in Nat
    BY WorkAssumption DEF Inductive, LedgerOK
  <2>2. Snapshot \in [number : Nat, round : Nat]
    BY DEF Inductive, Typed, Snapshot
  <2> QED BY <2>1, <2>2 DEF Permit
<1>3. permits' = Append(permits, r)
  BY DEF Issue
<1> HIDE DEF r
<1>4. /\ permits' \in Seq(Permit) /\ DOMAIN permits' = DOMAIN permits \cup {n} /\ n \notin DOMAIN permits
      /\ \A p \in DOMAIN permits : permits'[p] = permits[p]
      /\ permits'[n] = r
  BY <1>1, <1>2, <1>3
<1> HIDE DEF n
<1>5. Moves
  <2>1. ASSUME NEW p \in DOMAIN permits PROVE MovesOn(permits[p], permits'[p])
    <3>1. permits[p] \in Permit /\ permits'[p] = permits[p]
      BY <1>1, <1>4
    <3>2. Progress(permits[p].state) \in Nat
      BY <3>1 DEF Progress, Permit
    <3> QED BY <3>1, <3>2 DEF MovesOn
  <2> QED BY <1>4, <2>1 DEF Moves
<1>6. Charged(permits, ledger)'
  <2>1. \A p \in DOMAIN permits : /\ permits[p].unit \in DOMAIN ledger'.units
                                  /\ ledger'.units[permits[p].unit].state = "CONSUMED"
                                  /\ permits[p].unit # i
    BY DEF Inductive, Charged, Sound, Follows, MayBecome
  <2>2. r.unit = i /\ i \in DOMAIN ledger'.units
    BY DEF r, Sound, Follows
  <2> QED BY <1>4, <2>1, <2>2 DEF Inductive, Charged
<1>7. Executing'
  <2>1. r.state = "ISSUED"
    BY DEF r
  <2> QED BY <1>4, <2>1 DEF Inductive, Executing, Busy
<1>8. Typed' /\ Closed'
  BY <1>4 DEF Inductive, Typed, Closed
<1>9. \A p \in DOMAIN permits' : Kept(permits[p])'
  <2>1. \A p \in DOMAIN permits : Kept(permits[p])'
    BY <1>4 DEF Inductive, Kept
  <2>2. ASSUME NEW p \in DOMAIN permits', p = n PROVE Kept(permits[p])'
    <3>1. /\ permits'[p] = r /\ r.state = "ISSUED" /\ r.kind = kind
          /\ r.snapshot.number = epoch.number /\ r.held
      BY <1>4, <2>2 DEF r, Snapshot
    <3> QED BY <3>1 DEF Kept
  <2>3. ASSUME NEW p \in DOMAIN permits', p # n PROVE Kept(permits[p])'
    BY <1>4, <2>1, <2>3 DEF Kept
  <2> QED BY <2>2, <2>3
<1> QED BY <1>5, <1>6, <1>7, <1>8, <1>9 DEF Inductive, Sound

LEMMA SpendSound ==
  ASSUME Inductive, NEW q, NEW i, NEW w, CanConsume(ledger, q, i, w), ledger' = Spend(i)
  PROVE  /\ i \in DOMAIN ledger.units /\ ledger.units[i].state = "RESERVED"
         /\ Sound(ledger, ledger', Budget) /\ ledger'.units[i].state = "CONSUMED"
<1>1. i \in DOMAIN ledger.units /\ ledger.units[i].state = "RESERVED"
  <2>1. ledger.records[q].units \subseteq 0 .. Budget - 1
    BY DEF CanConsume, Inductive, LedgerOK
  <2>2. DOMAIN ledger.units = 0 .. Budget - 1
    BY DEF Inductive, LedgerOK
  <2>3. ledger.units[i] = [state |-> "RESERVED", reservation |-> Issued(q)]
        /\ i \in ledger.records[q].units
    BY DEF CanConsume
  <2> QED BY <2>1, <2>2, <2>3
<1>2. Sound(ledger, ledger', Budget)
  BY <1>1, ConsumeSound, WorkAssumption DEF Spend, Inductive
<1>3. ledger'.units[i].state = "CONSUMED"
  BY <1>1 DEF Spend, Consume, WithUnits, Spent
<1> QED BY <1>1, <1>2, <1>3

LEMMA AuthorizeKeeps ==
  ASSUME Inductive, NEW q, NEW i, NEW kind \in Dispatched, Authorize(q, i, kind)
  PROVE  Inductive' /\ Moves
<1>1. /\ i \in DOMAIN ledger.units /\ ledger.units[i].state = "RESERVED"
      /\ Sound(ledger, ledger', Budget) /\ ledger'.units[i].state = "CONSUMED"
  BY SpendSound DEF Authorize
<1>2. kind \in Issuable /\ kind # "causal"
  BY DEF Issuable, Dispatched
<1> QED BY <1>1, <1>2, IssueKeeps DEF Authorize

LEMMA PrepareCausalKeeps ==
  ASSUME Inductive, NEW i, PrepareCausal(i)
  PROVE  Inductive' /\ Moves
<1>1. /\ i \in DOMAIN ledger.units /\ ledger.units[i].state = "RESERVED"
      /\ Sound(ledger, ledger', Budget) /\ ledger'.units[i].state = "CONSUMED"
  BY SpendSound DEF PrepareCausal
<1>2. "causal" \in Issuable
  BY DEF Issuable
<1> QED BY <1>1, <1>2, IssueKeeps DEF PrepareCausal

(* A projection is charged even when it then has no permit.                *)
LEMMA ProjectKeeps == ASSUME Inductive, Project PROVE Inductive' /\ Moves
<1>1. Sound(ledger, ledger', Budget)
  BY TakeSound, WorkAssumption DEF Inductive, Project
<1>2. PICK i \in Chosen(ledger, 1) : permits' = permits \/ permits' = Issue("projection", i)
  BY DEF Project
<1>3. /\ i \in DOMAIN ledger.units /\ ledger.units[i].state = "AVAILABLE"
      /\ ledger'.units[i].state = "CONSUMED"
  <2>1. i \in DOMAIN ledger.units /\ ledger.units[i].state = "AVAILABLE"
    BY ChosenAvailable
  <2> QED BY <2>1 DEF Project, Take
<1>4. CASE permits' = Issue("projection", i)
  <2>1. "projection" \in Issuable
    BY DEF Issuable
  <2> QED BY <1>1, <1>3, <1>4, <2>1, IssueKeeps DEF Project
<1>5. CASE permits' = permits
  <2>1. Cleanable /\ Moves
    BY <1>1, <1>5, SamePermits, CleanupKeeps, CleanupMoves DEF Project, Sound
  <2>2. Typed' /\ Closed' /\ \A p \in DOMAIN permits' : Kept(permits[p])'
    BY <1>5 DEF Project, Inductive, Typed, Closed, Kept
  <2> QED BY <1>1, <2>1, <2>2 DEF Inductive, Cleanable, Sound
<1> QED BY <1>2, <1>4, <1>5

-----------------------------------------------------------------------------
(* One record is replaced.                                                 *)
LEMMA OneRecord ==
  ASSUME NEW P \in Seq(Permit), NEW p \in DOMAIN P, NEW r \in Permit
  PROVE  LET Q == [P EXCEPT ![p] = r]
         IN /\ Q \in Seq(Permit) /\ DOMAIN Q = DOMAIN P /\ Q[p] = r
            /\ \A q \in DOMAIN P : q # p => Q[q] = P[q]
  OBVIOUS

LEMMA OneMoves ==
  ASSUME Inductive, NEW p \in DOMAIN permits, NEW r \in Permit,
         permits' = [permits EXCEPT ![p] = r], MovesOn(permits[p], r)
  PROVE  /\ permits' \in Seq(Permit) /\ DOMAIN permits' = DOMAIN permits /\ permits'[p] = r
         /\ \A q \in DOMAIN permits : q # p => permits'[q] = permits[q]
         /\ Moves /\ Typed /\ permits # <<>> /\ permits' # <<>>
<1>1. permits \in Seq(Permit) /\ Typed
  BY DEF Inductive, Typed
<1>2. /\ permits' \in Seq(Permit) /\ DOMAIN permits' = DOMAIN permits /\ permits'[p] = r
      /\ \A q \in DOMAIN permits : q # p => permits'[q] = permits[q]
  BY <1>1, OneRecord
<1>3. ASSUME NEW q \in DOMAIN permits PROVE MovesOn(permits[q], permits'[q])
  <2>1. CASE q = p
    BY <1>2, <2>1
  <2>2. CASE q # p
    <3>1. permits[q] \in Permit /\ permits'[q] = permits[q]
      BY <1>1, <1>2, <2>2
    <3>2. Progress(permits[q].state) \in Nat
      BY <3>1 DEF Progress, Permit
    <3> QED BY <3>1, <3>2 DEF MovesOn
  <2> QED BY <2>1, <2>2
<1> QED BY <1>1, <1>2, <1>3 DEF Moves

LEMMA StartKeeps ==
  ASSUME Inductive, NEW w \in Workers, NEW p \in DOMAIN permits, Start(w, p)
  PROVE  Inductive' /\ Moves
<1> DEFINE r == [permits[p] EXCEPT !.state = "RUNNING"]
<1>1. permits[p] \in Permit /\ permits[p].state = "ISSUED" /\ permits[p].listed
  BY DEF Start, Inductive, Typed
<1>2. /\ r \in Permit /\ r.state = "RUNNING" /\ r.unit = permits[p].unit /\ r.kind = permits[p].kind
      /\ r.snapshot = permits[p].snapshot /\ r.held = permits[p].held
      /\ r.output = permits[p].output /\ r.listed = permits[p].listed
  BY <1>1 DEF Permit
<1>3. permits' = [permits EXCEPT ![p] = r]
  BY DEF Start, Claim
<1> HIDE DEF r
<1>4. MovesOn(permits[p], r)
  BY <1>1, <1>2 DEF MovesOn, Progress
<1>5. /\ permits' \in Seq(Permit) /\ DOMAIN permits' = DOMAIN permits /\ permits'[p] = r
      /\ \A q \in DOMAIN permits : q # p => permits'[q] = permits[q]
      /\ Moves /\ Typed /\ permits # <<>> /\ permits' # <<>>
  BY <1>2, <1>3, <1>4, OneMoves
<1>6. worker' = [worker EXCEPT ![w] = [at |-> "computing", permit |-> p]] /\ worker[w].at = "idle"
      /\ UNCHANGED <<phase, ledger, epoch, study, owner>>
  BY DEF Start
<1>7. p \in Nat \ {0}
  BY <1>5 DEF Typed
<1>8. Charged(permits, ledger)'
  <2>1. \A q \in DOMAIN permits : permits'[q].unit = permits[q].unit
    BY <1>2, <1>5
  <2> QED BY <1>5, <1>6, <2>1 DEF Inductive, Charged
<1>9. Executing'
  <2>1. /\ worker'[w].permit = p /\ Busy(w)' /\ ~Busy(w)
        /\ \A v \in Workers : v # w => worker'[v] = worker[v] /\ (Busy(v)' <=> Busy(v))
    BY <1>5, <1>6 DEF Busy, Typed
  <2>2. \A v \in Workers : Busy(v) => worker[v].permit # p
    BY <1>1 DEF Inductive, Executing
  <2>3. \A v \in Workers : ~Busy(v) => worker[v].permit # p
    BY <1>7 DEF Inductive, Executing
  <2>4. Executing
    BY DEF Inductive
  <2>5. \A v \in Workers :
          IF Busy(v)' THEN /\ worker'[v].permit \in DOMAIN permits'
                           /\ permits'[worker'[v].permit].state \in {"RUNNING", "RETIRED"}
                      ELSE worker'[v].permit = 0
    BY <1>2, <1>5, <2>1, <2>2, <2>4 DEF Executing
  <2>6. \A u, v \in Workers : Busy(u)' /\ worker'[u].permit = worker'[v].permit => u = v
    BY <2>1, <2>2, <2>3, <2>4 DEF Executing
  <2>7. ASSUME NEW q \in DOMAIN permits', permits'[q].listed, permits'[q].state = "RUNNING"
        PROVE  \E v \in Workers : Busy(v)' /\ worker'[v].permit = q
    <3>1. CASE q = p
      BY <2>1, <3>1
    <3>2. CASE q # p
      <4>1. PICK v \in Workers : Busy(v) /\ worker[v].permit = q
        BY <1>5, <2>4, <2>7, <3>2 DEF Executing
      <4> QED BY <2>1, <4>1
    <3> QED BY <3>1, <3>2
  <2> QED BY <2>5, <2>6, <2>7 DEF Executing
<1>10. Typed'
  BY <1>5, <1>6, <1>7 DEF Typed, Stage
<1>11. Closed'
  BY <1>5, <1>6 DEF Inductive, Closed
<1>12. ASSUME NEW q \in DOMAIN permits' PROVE Kept(permits[q])'
  <2>1. Kept(permits[q])
    BY <1>5 DEF Inductive
  <2>2. CASE q = p
    BY <1>1, <1>2, <1>5, <1>6, <2>1, <2>2 DEF Kept
  <2>3. CASE q # p
    BY <1>5, <1>6, <2>1, <2>3 DEF Kept
  <2> QED BY <2>2, <2>3
<1>13. LedgerOK(ledger', Budget) /\ Owns(ledger')
  BY <1>6 DEF Inductive
<1> QED BY <1>5, <1>8, <1>9, <1>10, <1>11, <1>12, <1>13 DEF Inductive

LEMMA ComputeKeeps == ASSUME Inductive, NEW w \in Workers, Compute(w) PROVE Inductive' /\ Moves
<1>1. PICK outcome \in {"computed", "failed"} : worker' = [worker EXCEPT ![w].at = outcome]
  BY DEF Compute
<1>2. UNCHANGED <<phase, ledger, epoch, study, owner, permits>> /\ worker[w].at = "computing"
  BY DEF Compute
<1>3. Moves
  BY <1>2, SamePermits, CleanupMoves
<1>4. Typed
  BY DEF Inductive
<1>5. /\ \A v \in Workers : worker'[v].permit = worker[v].permit /\ (Busy(v)' <=> Busy(v))
      /\ worker' \in [Workers -> [at : Stage, permit : Nat]]
  BY <1>1, <1>2, <1>4 DEF Busy, Typed, Stage
<1>6. Executing'
  BY <1>2, <1>5 DEF Inductive, Executing
<1>7. Typed' /\ Closed' /\ \A p \in DOMAIN permits' : Kept(permits[p])'
  BY <1>2, <1>5 DEF Inductive, Typed, Closed, Kept
<1> QED BY <1>2, <1>3, <1>6, <1>7 DEF Inductive

(* A worker comes back: its record is not left RUNNING in the registry.    *)
LEMMA BackKeeps ==
  ASSUME Inductive, NEW w \in Workers, Busy(w), NEW r \in Permit,
         permits' = [permits EXCEPT ![worker[w].permit] = r],
         worker' = [worker EXCEPT ![w] = Idle], UNCHANGED <<phase, ledger, epoch, study, owner>>,
         MovesOn(permits[worker[w].permit], r), r.listed => r.state # "RUNNING", Kept(r)
  PROVE  Inductive' /\ Moves
<1> DEFINE p == worker[w].permit
<1>1. p \in DOMAIN permits
  BY DEF Inductive, Executing
<1>2. /\ permits' \in Seq(Permit) /\ DOMAIN permits' = DOMAIN permits /\ permits'[p] = r
      /\ \A q \in DOMAIN permits : q # p => permits'[q] = permits[q]
      /\ Moves /\ Typed /\ permits # <<>> /\ permits' # <<>>
  BY <1>1, OneMoves
<1>3. Charged(permits, ledger)'
  <2>1. \A q \in DOMAIN permits : permits'[q].unit = permits[q].unit
    BY <1>2 DEF MovesOn
  <2> QED BY <1>2, <2>1 DEF Inductive, Charged
<1>4. Executing'
  <2>1. /\ worker'[w].permit = 0 /\ ~Busy(w)'
        /\ \A v \in Workers : v # w => worker'[v] = worker[v] /\ (Busy(v)' <=> Busy(v))
    BY <1>2 DEF Busy, Typed, Idle
  <2>2. Executing
    BY DEF Inductive
  <2>3. \A v \in Workers : v # w /\ Busy(v) => worker[v].permit # p
    BY <2>2 DEF Executing
  <2>4. \A v \in Workers :
          IF Busy(v)' THEN /\ worker'[v].permit \in DOMAIN permits'
                           /\ permits'[worker'[v].permit].state \in {"RUNNING", "RETIRED"}
                      ELSE worker'[v].permit = 0
    BY <1>2, <2>1, <2>2, <2>3 DEF Executing
  <2>5. 0 \notin DOMAIN permits'
    BY <1>2
  <2>6. \A u, v \in Workers : Busy(u)' /\ worker'[u].permit = worker'[v].permit => u = v
    BY <2>1, <2>2, <2>4, <2>5 DEF Executing
  <2>7. ASSUME NEW q \in DOMAIN permits', permits'[q].listed, permits'[q].state = "RUNNING"
        PROVE  \E v \in Workers : Busy(v)' /\ worker'[v].permit = q
    <3>1. q # p
      BY <1>2, <2>7
    <3>2. PICK v \in Workers : Busy(v) /\ worker[v].permit = q
      BY <1>2, <2>2, <2>7, <3>1 DEF Executing
    <3> QED BY <2>1, <3>1, <3>2
  <2> QED BY <2>4, <2>6, <2>7 DEF Executing
<1>5. Typed'
  BY <1>2 DEF Typed, Stage, Idle
<1>6. Closed'
  BY <1>2 DEF Inductive, Closed
<1>7. ASSUME NEW q \in DOMAIN permits' PROVE Kept(permits[q])'
  <2>1. CASE q = p
    BY <1>2, <2>1 DEF Kept
  <2>2. CASE q # p
    <3>1. Kept(permits[q])
      BY <1>2 DEF Inductive
    <3> QED BY <1>2, <2>2, <3>1 DEF Kept
  <2> QED BY <2>1, <2>2
<1> QED BY <1>2, <1>3, <1>4, <1>5, <1>6, <1>7 DEF Inductive

LEMMA FinishKeeps == ASSUME Inductive, NEW w \in Workers, Finish(w) PROVE Inductive' /\ Moves
<1> DEFINE p == worker[w].permit
           r == permits[p]
           s == Accepted(r)
<1>1. /\ Busy(w) /\ permits' = [permits EXCEPT ![p] = s] /\ worker' = [worker EXCEPT ![w] = Idle]
      /\ UNCHANGED <<phase, ledger, epoch, study, owner>>
  BY DEF Finish, Busy
<1>2. p \in DOMAIN permits /\ r \in Permit /\ r.state \in {"RUNNING", "RETIRED"} /\ Kept(r)
  BY <1>1 DEF Inductive, Executing, Typed
<1>3. Closed /\ Typed
  BY DEF Inductive
<1>4. CASE r.state = "RETIRED"
  <2>1. s = r
    BY <1>4 DEF Accepted
  <2>2. MovesOn(r, s)
    BY <1>2, <1>4, <2>1 DEF MovesOn, Progress
  <2> QED BY <1>1, <1>2, <1>4, <2>1, <2>2, BackKeeps
<1>5. CASE r.state = "RUNNING" /\ owner # "closing"
  <2>1. s = [r EXCEPT !.state = "DONE", !.output = TRUE]
    BY <1>5 DEF Accepted
  <2>2. /\ s \in Permit /\ s.state = "DONE" /\ s.output /\ s.unit = r.unit /\ s.kind = r.kind
        /\ s.snapshot = r.snapshot /\ s.held = r.held /\ s.listed = r.listed
    BY <1>2, <2>1 DEF Permit
  <2>3. MovesOn(r, s)
    BY <1>5, <2>2 DEF MovesOn, Progress
  <2>4. phase = "ACTIVE"
    BY <1>2, <1>3, <1>5 DEF Closed, Typed
  <2>5. Kept(s)
    BY <1>2, <1>5, <2>2, <2>4 DEF Kept
  <2> HIDE DEF s
  <2> QED BY <1>1, <2>2, <2>3, <2>5, BackKeeps
<1>6. CASE r.state = "RUNNING" /\ owner = "closing" /\ r.kind \in Dispatched
  <2>1. s = [r EXCEPT !.state = "DONE"]
    BY <1>6 DEF Accepted
  <2>2. /\ s \in Permit /\ s.state = "DONE" /\ s.output = r.output /\ s.unit = r.unit
        /\ s.kind = r.kind /\ s.snapshot = r.snapshot /\ s.held = r.held /\ s.listed = r.listed
    BY <1>2, <2>1 DEF Permit
  <2>3. MovesOn(r, s)
    BY <1>6, <2>2 DEF MovesOn, Progress
  <2>4. Kept(s)
    BY <1>2, <1>6, <2>2 DEF Kept, Dispatched
  <2> HIDE DEF s
  <2> QED BY <1>1, <2>2, <2>3, <2>4, BackKeeps
<1>7. CASE r.state = "RUNNING" /\ owner = "closing" /\ r.kind \notin Dispatched
  <2>1. s = r
    BY <1>7 DEF Accepted
  <2>2. r.kind \in {"projection", "causal"}
    BY <1>2, <1>7 DEF Permit, Issuable
  <2>3. ~epoch.open /\ study.state # "open"
    BY <1>3, <1>7 DEF Closed, Typed
  <2>4. ~r.listed
    BY <1>2, <1>7, <2>2, <2>3 DEF Kept
  <2>5. MovesOn(r, s)
    BY <1>2, <1>7, <2>1 DEF MovesOn, Progress
  <2> QED BY <1>1, <1>2, <2>1, <2>4, <2>5, BackKeeps
<1> QED BY <1>2, <1>4, <1>5, <1>6, <1>7

LEMMA FailKeeps == ASSUME Inductive, NEW w \in Workers, Fail(w) PROVE Inductive' /\ Moves
<1> DEFINE r == permits[worker[w].permit]
           s == Emptied(r)
<1>1. Busy(w)
  BY DEF Fail, Busy
<1>2. r \in Permit /\ Kept(r)
  BY <1>1 DEF Inductive, Executing, Typed
<1>3. s \in Permit /\ Less(r, s) /\ s.state = "RETIRED" /\ ~s.held /\ ~s.output
  BY <1>2, EmptiedIsLess
<1>4. MovesOn(r, s)
  BY <1>2, <1>3 DEF Less, MovesOn, Progress, Permit
<1>5. Kept(s)
  BY <1>2, <1>3 DEF Less, Kept
<1>6. permits' = [permits EXCEPT ![worker[w].permit] = s]
  BY DEF Fail
<1> HIDE DEF s
<1> QED BY <1>1, <1>3, <1>4, <1>5, <1>6, BackKeeps DEF Fail

-----------------------------------------------------------------------------
LEMMA PublishRoundKeeps ==
  ASSUME Inductive, NEW p, NEW q, NEW i, NEW terminal \in BOOLEAN, PublishRound(p, q, i, terminal)
  PROVE  Inductive' /\ Moves
<1>1. permits \in Seq(Permit)
  BY DEF Inductive, Typed
<1>2. Sound(ledger, ledger', Budget)
  BY SpendSound DEF PublishRound
<1>3. Cleaned(permits, permits')
  BY <1>1, SamePermits, EpochRetiredCleans DEF PublishRound
<1>4. Cleanable /\ Moves
  BY <1>2, <1>3, CleanupKeeps, CleanupMoves DEF PublishRound, Sound
<1>5. Typed' /\ Closed'
  <2>1. owner = "none" => permits' = <<>>
    BY <1>1, <1>4 DEF Inductive, Closed, Cleanable
  <2>2. Typed /\ Closed
    BY DEF Inductive
  <2>3. epoch' \in [open : BOOLEAN, number : Nat, round : Nat] /\ (epoch'.open => epoch.open)
    <3>1. epoch \in [open : BOOLEAN, number : Nat, round : Nat]
      BY <2>2 DEF Typed
    <3>2. CASE terminal
      <4>1. epoch' = [epoch EXCEPT !.open = FALSE]
        BY <3>2 DEF PublishRound
      <4> QED BY <3>1, <4>1
    <3>3. CASE ~terminal
      <4>1. epoch' = [epoch EXCEPT !.round = epoch.round + 1]
        BY <3>3 DEF PublishRound
      <4>2. epoch.round + 1 \in Nat
        BY <3>1
      <4> QED BY <3>1, <4>1, <4>2
    <3> QED BY <3>2, <3>3
  <2> QED BY <1>4, <2>1, <2>2, <2>3 DEF PublishRound, Typed, Closed, Cleanable
<1>6. ASSUME NEW o \in DOMAIN permits PROVE Kept(permits[o])'
  <2>1. Less(permits[o], permits'[o]) /\ Kept(permits[o])
    BY <1>3, <1>6 DEF Cleaned, Inductive
  <2>2. CASE ~terminal
    BY <1>4, <2>1, <2>2 DEF PublishRound, Kept, Cleanable
  <2>3. CASE terminal
    <3>1. permits'[o].listed /\ permits'[o].kind = "projection" /\ permits'[o].state # "RETIRED"
            => ~permits[o].held \/ permits'[o].snapshot.number # epoch.number
      BY <1>1, <2>3, EpochRetiredCleans DEF PublishRound
    <3> QED BY <1>4, <2>1, <2>3, <3>1 DEF PublishRound, Kept, Less, Cleanable
  <2> QED BY <2>2, <2>3
<1> QED BY <1>2, <1>4, <1>5, <1>6 DEF Inductive, Cleanable, Sound

LEMMA AdmitCaseKeeps ==
  ASSUME Inductive, NEW p \in DOMAIN permits, NEW i, AdmitCase(p, i)
  PROVE  Inductive' /\ Moves
<1> DEFINE r == permits[p]
           s == [Emptied(r) EXCEPT !.listed = FALSE]
<1>1. r \in Permit /\ permits \in Seq(Permit)
  BY DEF Inductive, Typed
<1>2. s \in Permit /\ Less(r, s) /\ ~s.listed
  BY <1>1, UnlistedIsLess
<1>3. permits' = [permits EXCEPT ![p] = s]
  BY DEF AdmitCase
<1> HIDE DEF s
<1>4. /\ permits' \in Seq(Permit) /\ DOMAIN permits' = DOMAIN permits /\ permits'[p] = s
      /\ \A q \in DOMAIN permits : q # p => permits'[q] = permits[q]
  BY <1>1, <1>2, <1>3, OneRecord
<1>5. Cleaned(permits, permits')
  <2>1. \A q \in DOMAIN permits : Less(permits[q], permits[q])
    BY DEF Less
  <2> QED BY <1>2, <1>4, <2>1 DEF Cleaned
<1>6. Sound(ledger, ledger', Budget)
  BY SpendSound DEF AdmitCase
<1>7. Cleanable /\ Moves
  BY <1>5, <1>6, CleanupKeeps, CleanupMoves DEF AdmitCase, Sound
<1>8. Typed' /\ Closed'
  <2>1. owner = "none" => permits' = <<>>
    BY <1>1, <1>4 DEF Inductive, Closed
  <2> QED BY <1>4, <2>1 DEF AdmitCase, Inductive, Typed, Closed
<1>9. ASSUME NEW q \in DOMAIN permits PROVE Kept(permits[q])'
  <2>1. Kept(permits[q])
    BY DEF Inductive
  <2>2. CASE q = p
    BY <1>2, <1>4, <1>7, <1>9, <2>2 DEF AdmitCase, Kept, Cleanable
  <2>3. CASE q # p
    BY <1>4, <2>1, <2>3 DEF AdmitCase, Kept
  <2> QED BY <2>2, <2>3
<1> QED BY <1>4, <1>6, <1>7, <1>8, <1>9 DEF Inductive, Cleanable, Sound

LEMMA ReleaseKeeps == ASSUME Inductive, Release PROVE Inductive' /\ Moves
<1>1. permits \in Seq(Permit)
  BY DEF Inductive, Typed
<1>2. permits' = [p \in DOMAIN permits |-> IF permits[p].listed /\ permits[p].state # "RUNNING"
                                          THEN [permits[p] EXCEPT !.listed = FALSE] ELSE permits[p]]
  BY DEF Release, Each
<1>3. Cleaned(permits, permits') /\ \A p \in DOMAIN permits : permits'[p].listed => permits'[p] = permits[p]
  BY <1>1, <1>2, ReleaseCleans
<1>4. Cleanable /\ Moves
  BY <1>3, SameLedger, CleanupKeeps, CleanupMoves DEF Release
<1>5. Typed' /\ Closed'
  <2>1. owner = "none" => permits' = <<>>
    BY <1>1, <1>4 DEF Inductive, Closed, Cleanable
  <2> QED BY <1>4, <2>1 DEF Release, Inductive, Typed, Closed, Cleanable
<1>6. ASSUME NEW p \in DOMAIN permits PROVE Kept(permits[p])'
  BY <1>3, <1>4, <1>6 DEF Release, Kept, Inductive, Cleanable
<1> QED BY <1>4, <1>5, <1>6 DEF Release, Inductive, Cleanable

LEMMA BeginCloseKeeps == ASSUME Inductive, BeginClose PROVE Inductive' /\ Moves
<1> DEFINE afterEpoch == IF epoch.open THEN EpochClosed(permits, epoch.number) ELSE permits
           afterWork  == ParentClosed(afterEpoch)
           discarded  == CausalDiscarded(afterWork)
<1>1. permits \in Seq(Permit)
  BY DEF Inductive, Typed
<1>2. Cleaned(permits, afterEpoch)
  BY <1>1, SamePermits, EpochClosedCleans
<1>3. \A p \in DOMAIN permits :
        afterEpoch[p].listed /\ afterEpoch[p].kind = "projection" => afterEpoch[p].state = "RETIRED"
  <2> TAKE p \in DOMAIN permits
  <2>1. Kept(permits[p]) /\ Less(permits[p], afterEpoch[p])
    BY <1>2 DEF Inductive, Cleaned
  <2>2. CASE epoch.open
    BY <1>1, <2>1, <2>2, EpochClosedCleans DEF Kept, Less
  <2>3. CASE ~epoch.open
    BY <2>1, <2>3 DEF Kept
  <2> QED BY <2>2, <2>3
<1> HIDE DEF afterEpoch
<1>4. afterEpoch \in Seq(Permit) /\ DOMAIN afterEpoch = DOMAIN permits
  BY <1>2 DEF Cleaned
<1>5. /\ Cleaned(afterEpoch, afterWork)
      /\ \A p \in DOMAIN afterEpoch : afterWork[p].listed => ~afterWork[p].held /\ ~afterWork[p].output
  BY <1>4, ParentClosedCleans
<1> HIDE DEF afterWork
<1>6. afterWork \in Seq(Permit) /\ DOMAIN afterWork = DOMAIN permits
  BY <1>4, <1>5 DEF Cleaned
<1>7. /\ Cleaned(afterWork, discarded)
      /\ \A p \in DOMAIN afterWork : discarded[p].listed => discarded[p].kind # "causal"
                                                         /\ discarded[p] = afterWork[p]
  BY <1>6, CausalDiscardedCleans
<1>8. permits' = IF study.state = "open" THEN discarded ELSE afterWork
  BY DEF BeginClose, afterEpoch, afterWork
<1> HIDE DEF discarded
<1>9. Cleaned(afterEpoch, permits') /\ Cleaned(permits, permits')
  BY <1>2, <1>5, <1>7, <1>8, CleanedTwice
<1>10. \A p \in DOMAIN permits :
         permits'[p].listed => ~permits'[p].held /\ ~permits'[p].output
                               /\ (study.state = "open" => permits'[p].kind # "causal")
  BY <1>4, <1>5, <1>6, <1>7, <1>8
<1>11. Sound(ledger, ledger', Budget)
  <2>1. CASE study.state = "open"
    BY <2>1, RetireReservedSound, WorkAssumption DEF BeginClose, Inductive
  <2>2. CASE study.state # "open"
    BY <2>2, SameLedger DEF BeginClose, Inductive, Sound
  <2> QED BY <2>1, <2>2
<1>12. Cleanable /\ Moves
  BY <1>9, <1>11, CleanupKeeps, CleanupMoves DEF BeginClose, Sound
<1>13. Typed' /\ Closed'
  <2>1. owner = "none" => permits' = <<>>
    BY <1>1, <1>12 DEF Inductive, Closed, Cleanable
  <2>2. /\ phase' = "CLOSING" /\ epoch' = [epoch EXCEPT !.open = FALSE]
        /\ owner' = (IF owner = "open" THEN "closing" ELSE owner) /\ worker' = worker
        /\ study' = (IF study.state = "open" THEN [study EXCEPT !.state = "ended"] ELSE study)
    BY DEF BeginClose
  <2>3. Typed /\ (phase = "ACTIVE" => owner # "closing") /\ phase = "ACTIVE"
    BY DEF Inductive, Closed, BeginClose
  <2>4. permits' \in Seq(Permit)
    BY <1>12 DEF Cleanable
  <2>5. Typed'
    BY <2>2, <2>3, <2>4 DEF Typed
  <2>6. ~epoch'.open /\ study'.state # "open" /\ owner' # "open"
    BY <2>2, <2>3 DEF Typed
  <2> QED BY <2>1, <2>2, <2>5, <2>6 DEF Closed
<1>14. ASSUME NEW p \in DOMAIN permits PROVE Kept(permits[p])'
  <2>1. Kept(permits[p]) /\ Less(permits[p], permits'[p]) /\ Less(afterEpoch[p], permits'[p])
    BY <1>4, <1>9, <1>14 DEF Inductive, Cleaned
  <2>2. ~(permits'[p].listed /\ permits'[p].kind = "projection" /\ permits'[p].state # "RETIRED")
    BY <1>3, <1>14, <2>1 DEF Less
  <2>3. ~(permits'[p].listed /\ permits'[p].kind = "causal")
    BY <1>10, <1>14, <2>1 DEF Less, Kept
  <2> QED BY <1>10, <1>12, <1>14, <2>2, <2>3 DEF Kept, Cleanable
<1> QED BY <1>11, <1>12, <1>13, <1>14 DEF Inductive, Cleanable, Sound

-----------------------------------------------------------------------------
LEMMA InductiveNext == Inductive /\ [Next]_vars => Inductive' /\ Moves
<1> SUFFICES ASSUME Inductive, [Next]_vars PROVE Inductive' /\ Moves
  OBVIOUS
<1>1. CASE Contexts
  BY <1>1, OpenEpochKeeps, FinishEpochKeeps, OpenStudyKeeps, EndStudyKeeps, CleanUpEpochKeeps,
     BeginCloseKeeps, RetireUnusedUnitsKeeps, ReleaseKeeps DEF Contexts
<1>2. CASE Charges
  BY <1>2, ReserveWorkKeeps, AuthorizeKeeps, ProjectKeeps, PrepareCausalKeeps, PublishRoundKeeps,
     AdmitCaseKeeps DEF Charges
<1>3. CASE \E w \in Workers : Execution(w)
  BY <1>3, StartKeeps, ComputeKeeps, FinishKeeps, FailKeeps DEF Execution
<1>4. CASE UNCHANGED vars
  <2>1. Moves
    BY <1>4, SamePermits, CleanupMoves DEF vars
  <2>2. Sound(ledger, ledger', Budget)
    BY <1>4, SameLedger DEF vars, Sound, Inductive
  <2>3. UNCHANGED <<phase, epoch, study, owner, permits, worker>>
    BY <1>4 DEF vars
  <2> QED BY <2>2, <2>3, LedgerAloneKeeps
<1> QED BY <1>1, <1>2, <1>3, <1>4 DEF Next

LEMMA AlwaysInductive == Spec => []Inductive
<1> QED BY InductiveInit, InductiveNext, PTL DEF Spec

(* Every permit was paid for with a unit of its own, and is executed by at *)
(* most one worker, however epochs, studies and the invocation end.        *)
THEOREM PermitsHaveCharges == Spec => []PermitsAreBacked
<1>1. Inductive => PermitsAreBacked
  BY DEF Inductive, Charged, Executing, Busy, PermitsAreBacked
<1> QED BY <1>1, AlwaysInductive, PTL

(* No context that ended keeps anything of the work that was made in it,   *)
(* and what comes back late puts nothing back.                             *)
THEOREM WorkEndsWithContext == Spec => []NothingSurvivesItsContext
<1>1. Inductive => NothingSurvivesItsContext
  BY DEF Inductive, Kept, NothingSurvivesItsContext
<1> QED BY <1>1, AlwaysInductive, PTL

(* A permit is one-shot: no step moves one back, returns it to the         *)
(* registry, or gives it a result but at the end of its execution.         *)
THEOREM PermitsAreOneShot == Spec => PermitsMoveOn
<1> DEFINE Onwards ==
      \A p \in DOMAIN permits :
         /\ p \in DOMAIN permits' /\ permits'[p].unit = permits[p].unit
         /\ Progress(permits'[p].state) >= Progress(permits[p].state)
         /\ permits'[p].listed => permits[p].listed
         /\ permits'[p].output /\ ~permits[p].output => permits[p].state = "RUNNING"
<1>1. Moves => Onwards
  BY DEF Moves, MovesOn
<1>2. Inductive /\ [Next]_vars => Onwards
  BY <1>1, InductiveNext
<1> HIDE DEF Onwards
<1>3. Spec => [][Onwards]_vars
  BY <1>2, AlwaysInductive, PTL DEF Spec
<1> QED BY <1>3 DEF Onwards, PermitsMoveOn
=============================================================================
