---------------------------- MODULE LedgerProofs ----------------------------
(* Lemmas about the operators of Ledger, for every index and any number of *)
(* units: each keeps the shape of the index and the ownership of its       *)
(* units, and yields a later index of the same owner.                      *)
EXTENDS Ledger, FiniteSetTheorems, TLAPS

(* What every operation on an index must preserve and respect.             *)
Sound(L, M, n) == LedgerOK(M, n) /\ Owns(M) /\ Follows(L, M)

(* The chosen units are available ones (prepare_reservation slices the     *)
(* tuple of AVAILABLE ordinals).                                           *)
LEMMA ChosenAvailable ==
  ASSUME NEW L, NEW n
  PROVE  /\ Chosen(L, n) \subseteq DOMAIN L.units
         /\ \A i \in Chosen(L, n) : L.units[i].state = "AVAILABLE"
  BY DEF Chosen, Lowest, InState

(* A reservation, whatever state its units go to, takes no unit of another *)
(* reservation and leaves every other unit alone.                          *)
LEMMA TakeSound ==
  ASSUME NEW L, NEW n \in Nat, LedgerOK(L, n), Owns(L),
         NEW k, NEW w \in WorkClasses,
         NEW state \in {"RESERVED", "CONSUMED", "DELEGATED_FORECAST_POOL"}
  PROVE  Sound(L, Take(L, k, w, state), n)
<1> DEFINE M == Take(L, k, w, state)
           C == Chosen(L, k)
<1>1. C \subseteq 0 .. n - 1 /\ \A i \in C : L.units[i].state = "AVAILABLE"
  BY ChosenAvailable DEF LedgerOK
<1>2. /\ M.units = [i \in 0 .. n - 1 |->
             IF i \in C THEN [state |-> state, reservation |-> Issued(L.sequence)] ELSE L.units[i]]
      /\ M.sequence = L.sequence + 1
      /\ M.records = [q \in 0 .. L.sequence |->
             IF q = L.sequence THEN [units |-> C, work |-> w] ELSE L.records[q]]
  <2>1. DOMAIN L.units = 0 .. n - 1 /\ DOMAIN L.records \cup {L.sequence} = 0 .. L.sequence
    BY DEF LedgerOK
  <2> QED
    BY <2>1 DEF Take
<1> HIDE DEF C
<1>3. LedgerOK(M, n)
  <2>1. M = [units |-> M.units, records |-> M.records, sequence |-> M.sequence]
    BY DEF Take
  <2>2. M.units \in [0 .. n - 1 -> Unit]
    BY <1>2 DEF LedgerOK, Unit, Issued, ReservationId, Open, Terminal
  <2>3. M.records \in [0 .. M.sequence - 1 -> [units : SUBSET (0 .. n - 1), work : WorkClasses]]
    BY <1>1, <1>2 DEF LedgerOK
  <2> HIDE DEF M
  <2> QED
    BY <1>2, <2>1, <2>2, <2>3 DEF LedgerOK
<1>4. Owns(M)
  BY <1>1, <1>2 DEF Owns, LedgerOK
<1>5. Follows(L, M)
  BY <1>1, <1>2 DEF Follows, MayBecome, LedgerOK
<1> QED
  BY <1>3, <1>4, <1>5 DEF Sound

(* prepare_consumption spends one RESERVED unit in place.                  *)
LEMMA ConsumeSound ==
  ASSUME NEW L, NEW n \in Nat, LedgerOK(L, n), Owns(L),
         NEW i \in DOMAIN L.units, L.units[i].state = "RESERVED"
  PROVE  Sound(L, Consume(L, i), n)
<1> DEFINE M == Consume(L, i)
<1>1. /\ M.units = [L.units EXCEPT ![i] = Spent(L.units[i], "CONSUMED")]
      /\ M.records = L.records
      /\ M.sequence = L.sequence
      /\ M = [units |-> M.units, records |-> M.records, sequence |-> M.sequence]
  BY DEF Consume, WithUnits
<1> HIDE DEF M
<1>2. /\ M.units \in [0 .. n - 1 -> Unit]
      /\ M.units[i].reservation = L.units[i].reservation
      /\ M.units[i].state = "CONSUMED"
      /\ \A j \in 0 .. n - 1 : j # i => M.units[j] = L.units[j]
  BY <1>1 DEF LedgerOK, Unit, Open, Terminal, Spent
<1>3. LedgerOK(M, n)
  BY <1>1, <1>2 DEF LedgerOK
<1>4. Owns(M)
  BY <1>1, <1>2 DEF LedgerOK, Owns
<1>5. Follows(L, M)
  BY <1>1, <1>2 DEF LedgerOK, Follows, MayBecome
<1> QED
  BY <1>3, <1>4, <1>5 DEF Sound, M

(* Retiring the units picked by a condition that only holds of Open units, *)
(* an AVAILABLE one being bound to a retirement: the common form of retire,*)
(* causal_retirement and retire_unused.                                    *)
LEMMA RetiringSound ==
  ASSUME NEW L, NEW n \in Nat, LedgerOK(L, n), Owns(L),
         NEW M, M = [units |-> M.units, records |-> L.records, sequence |-> L.sequence],
         M.units \in [0 .. n - 1 -> Unit],
         \A i \in 0 .. n - 1 :
           \/ M.units[i] = L.units[i]
           \/ L.units[i].state = "AVAILABLE"
           \/ /\ L.units[i].state = "RESERVED"
              /\ M.units[i].reservation = L.units[i].reservation
              /\ M.units[i].state = "RETIRED"
  PROVE  Sound(L, M, n)
<1>1. M.records = L.records /\ M.sequence = L.sequence
  OBVIOUS
<1>2. LedgerOK(M, n)
  <2>1. M = [units |-> M.units, records |-> M.records, sequence |-> M.sequence]
    BY <1>1
  <2>2. M.sequence \in Nat
    BY <1>1 DEF LedgerOK
  <2>3. M.records \in [0 .. M.sequence - 1 -> [units : SUBSET (0 .. n - 1), work : WorkClasses]]
    BY <1>1 DEF LedgerOK
  <2> QED
    BY <2>1, <2>2, <2>3 DEF LedgerOK
<1>3. Owns(M)
  <2> SUFFICES ASSUME NEW q \in DOMAIN L.records, NEW i \in L.records[q].units
               PROVE  M.units[i].reservation = Issued(q) /\ M.units[i].state # "AVAILABLE"
    BY <1>1 DEF Owns
  <2>1. i \in 0 .. n - 1
    BY DEF LedgerOK
  <2>2. L.units[i].reservation = Issued(q) /\ L.units[i].state # "AVAILABLE"
    BY DEF Owns
  <2> QED
    BY <2>1, <2>2
<1>4. Follows(L, M)
  BY <1>1 DEF LedgerOK, Follows, MayBecome
<1> QED
  BY <1>2, <1>3, <1>4 DEF Sound

(* retire and causal_retirement keep the index sound, and leave nothing    *)
(* RESERVED in the reservations they are given.                            *)
LEMMA RetireReservedSound ==
  ASSUME NEW L, NEW n \in Nat, LedgerOK(L, n), Owns(L), NEW qs
  PROVE  /\ Sound(L, RetireReserved(L, qs), n)
         /\ ReservedIn(RetireReserved(L, qs), qs) = {}
<1> DEFINE M == RetireReserved(L, qs)
<1>1. /\ M = [units |-> M.units, records |-> L.records, sequence |-> L.sequence]
      /\ M.units = [i \in 0 .. n - 1 |->
            IF i \in ReservedIn(L, qs) THEN Spent(L.units[i], "RETIRED") ELSE L.units[i]]
  BY DEF RetireReserved, WithUnits, LedgerOK
<1>2. \A i \in ReservedIn(L, qs) : L.units[i].state = "RESERVED"
  BY DEF ReservedIn, InState
<1> HIDE DEF M
<1>3. M.units \in [0 .. n - 1 -> Unit]
  BY <1>1 DEF LedgerOK, Unit, Terminal, Spent
<1>4. Sound(L, M, n)
  <2>1. M = [units |-> M.units, records |-> L.records, sequence |-> L.sequence]
    BY <1>1
  <2>2. \A i \in 0 .. n - 1 :
           \/ M.units[i] = L.units[i]
           \/ L.units[i].state = "AVAILABLE"
           \/ /\ L.units[i].state = "RESERVED"
              /\ M.units[i].reservation = L.units[i].reservation
              /\ M.units[i].state = "RETIRED"
    BY <1>1, <1>2 DEF Spent
  <2> QED
    BY <2>1, <2>2, <1>3, RetiringSound
<1>5. ReservedIn(M, qs) = {}
  <2>1. DOMAIN M.units = DOMAIN L.units /\ M.records = L.records
    BY <1>1 DEF LedgerOK
  <2>2. \A i \in InState(M, "RESERVED") : i \in InState(L, "RESERVED") /\ i \notin ReservedIn(L, qs)
    BY <1>1, <2>1 DEF InState, Spent, LedgerOK
  <2> QED
    BY <2>1, <2>2 DEF ReservedIn
<1> QED
  BY <1>4, <1>5 DEF M

(* retire_unused keeps the index sound and leaves nothing to charge.       *)
LEMMA RetireUnusedSound ==
  ASSUME NEW L, NEW n \in Nat, LedgerOK(L, n), Owns(L), NEW rev \in Nat
  PROVE  Sound(L, RetireUnused(L, rev), n) /\ Drained(RetireUnused(L, rev))
<1> DEFINE M == RetireUnused(L, rev)
           administrative(u) == IF u.state = "AVAILABLE"
                                THEN [state |-> "RESERVED", reservation |-> Retirement(rev)] ELSE u
           retired(u) == IF u.state = "RESERVED" THEN Spent(u, "RETIRED") ELSE u
           unit(i) == retired(administrative(L.units[i]))
<1>1. /\ M = [units |-> M.units, records |-> L.records, sequence |-> L.sequence]
      /\ M.units = [i \in 0 .. n - 1 |-> unit(i)]
  BY DEF RetireUnused, WithUnits, LedgerOK
<1>2. ASSUME NEW i \in 0 .. n - 1
      PROVE  /\ M.units[i] \in Unit
             /\ M.units[i].state \in Terminal
             /\ \/ M.units[i] = L.units[i]
                \/ L.units[i].state = "AVAILABLE"
                \/ /\ L.units[i].state = "RESERVED"
                   /\ M.units[i].reservation = L.units[i].reservation
                   /\ M.units[i].state = "RETIRED"
  <2>1. L.units[i] \in Unit /\ M.units[i] = unit(i)
    BY <1>1 DEF LedgerOK
  <2>2. CASE L.units[i].state = "AVAILABLE"
    <3>1. unit(i) = [state |-> "RETIRED", reservation |-> Retirement(rev)]
      BY <2>2 DEF Spent
    <3> QED
      BY <2>1, <2>2, <3>1 DEF Unit, Terminal, Retirement, ReservationId
  <2>3. CASE L.units[i].state = "RESERVED"
    <3>1. unit(i) = [state |-> "RETIRED", reservation |-> L.units[i].reservation]
      BY <2>3 DEF Spent
    <3> QED
      BY <2>1, <2>3, <3>1 DEF Unit, Terminal
  <2>4. CASE L.units[i].state \in Terminal
    <3>1. unit(i) = L.units[i]
      BY <2>4 DEF Terminal
    <3> QED
      BY <2>1, <2>4, <3>1
  <2> QED
    BY <2>1, <2>2, <2>3, <2>4 DEF Unit, Open
<1> HIDE DEF M
<1>3. Sound(L, M, n)
  BY <1>1, <1>2, RetiringSound
<1>4. Drained(M)
  BY <1>1, <1>2 DEF Drained
<1> QED
  BY <1>3, <1>4 DEF M

(* prepare_causal_reservation: the k-th class of the frontier gets the     *)
(* k-th available unit, and no two classes share one.                      *)
LEMMA ReserveEachSound ==
  ASSUME NEW L, NEW n \in Nat, LedgerOK(L, n), Owns(L), NEW works \in Seq(WorkClasses)
  PROVE  Sound(L, ReserveEach(L, works), n)
<1> DEFINE M == ReserveEach(L, works)
           N == Len(works)
           C == Chosen(L, N)
           rank(i) == Rank(C, i)
<1>1. C \subseteq 0 .. n - 1 /\ \A i \in C : L.units[i].state = "AVAILABLE"
  BY ChosenAvailable DEF LedgerOK
<1>2. \A i \in C : rank(i) \in Nat /\ rank(i) >= 1
  <2> TAKE i \in C
  <2> DEFINE S == {j \in C : j <= i}
  <2>1. IsFiniteSet(S)
    BY <1>1, FS_Interval, FS_Subset, 0 \in Int, n - 1 \in Int
  <2>2. i \in S
    BY <1>1
  <2>3. Cardinality(S) \in Nat /\ Cardinality(S) # 0
    BY <2>1, <2>2, FS_CardinalityType, FS_EmptySet
  <2> QED
    BY <2>3 DEF Rank
<1>3. /\ M = [units |-> M.units, records |-> M.records, sequence |-> M.sequence]
      /\ M.sequence = L.sequence + N
      /\ M.units = [i \in 0 .. n - 1 |->
            IF i \in C
            THEN [state |-> "RESERVED", reservation |-> Issued(L.sequence + rank(i) - 1)]
            ELSE L.units[i]]
      /\ M.records = [q \in 0 .. M.sequence - 1 |->
            IF q >= L.sequence
            THEN [units |-> {i \in C : rank(i) = q - L.sequence + 1},
                  work  |-> works[q - L.sequence + 1]]
            ELSE L.records[q]]
  <2>1. DOMAIN L.units = 0 .. n - 1 /\ L.sequence \in Nat /\ N \in Nat
        /\ DOMAIN L.records \cup (L.sequence .. L.sequence + N - 1) = 0 .. L.sequence + N - 1
    BY DEF LedgerOK
  <2> QED
    BY <2>1 DEF ReserveEach
<1> HIDE DEF M, C, rank
<1>4. M.units \in [0 .. n - 1 -> Unit]
  BY <1>2, <1>3 DEF LedgerOK, Unit, Issued, ReservationId, Open, Terminal
<1>5. M.records \in [0 .. M.sequence - 1 -> [units : SUBSET (0 .. n - 1), work : WorkClasses]]
  <2> SUFFICES ASSUME NEW q \in 0 .. M.sequence - 1
               PROVE  M.records[q] \in [units : SUBSET (0 .. n - 1), work : WorkClasses]
    BY <1>3
  <2>1. CASE q >= L.sequence
    <3>1. works[q - L.sequence + 1] \in WorkClasses
      BY <2>1, <1>3 DEF LedgerOK
    <3> QED
      BY <1>1, <1>3, <2>1, <3>1
  <2>2. CASE ~(q >= L.sequence)
    BY <1>3, <2>2 DEF LedgerOK
  <2> QED
    BY <2>1, <2>2
<1>6. LedgerOK(M, n)
  BY <1>3, <1>4, <1>5 DEF LedgerOK
<1>7. Owns(M)
  <2> SUFFICES ASSUME NEW q \in DOMAIN M.records, NEW i \in M.records[q].units
               PROVE  M.units[i].reservation = Issued(q) /\ M.units[i].state # "AVAILABLE"
    BY DEF Owns
  <2>1. CASE q >= L.sequence
    <3>1. i \in C /\ rank(i) = q - L.sequence + 1
      BY <1>3, <2>1
    <3>2. M.units[i] = [state |-> "RESERVED", reservation |-> Issued(L.sequence + rank(i) - 1)]
      BY <1>1, <1>3, <3>1
    <3>3. L.sequence + rank(i) - 1 = q
      BY <1>3, <3>1 DEF LedgerOK
    <3> QED
      BY <3>2, <3>3
  <2>2. CASE ~(q >= L.sequence)
    <3>1. q \in DOMAIN L.records /\ M.records[q] = L.records[q]
      BY <1>3, <2>2 DEF LedgerOK
    <3>2. i \in 0 .. n - 1 /\ L.units[i].state # "AVAILABLE" /\ L.units[i].reservation = Issued(q)
      BY <3>1 DEF Owns, LedgerOK
    <3> QED
      BY <1>1, <1>3, <3>2
  <2> QED
    BY <2>1, <2>2
<1>8. Follows(L, M)
  BY <1>1, <1>3 DEF Follows, MayBecome, LedgerOK
<1> QED
  BY <1>6, <1>7, <1>8 DEF Sound, M

(* A ledger before admission, and a fresh one.                             *)
LEMMA NewIndexSound ==
  ASSUME NEW n \in Nat
  PROVE  LedgerOK(NewIndex(n), n) /\ Owns(NewIndex(n))
<1>1. LedgerOK(NewIndex(n), n)
  BY DEF LedgerOK, NewIndex, Fresh, Unit, NoReservation, ReservationId, Open
<1>2. DOMAIN NewIndex(n).records = {}
  BY DEF NewIndex
<1> QED
  BY <1>1, <1>2 DEF Owns

(* What is spent stays spent: reservations with nothing RESERVED never     *)
(* hold anything RESERVED in a later index.                                *)
LEMMA NothingReturns ==
  ASSUME NEW L, NEW M, NEW n \in Nat, LedgerOK(L, n), LedgerOK(M, n), Owns(L), Follows(L, M),
         NEW qs, qs \subseteq DOMAIN L.records, ReservedIn(L, qs) = {}
  PROVE  ReservedIn(M, qs) = {}
<1> SUFFICES ASSUME NEW q \in qs, NEW i \in M.records[q].units
             PROVE  M.units[i].state # "RESERVED"
  BY DEF ReservedIn, InState
<1>1. M.records[q] = L.records[q] /\ i \in DOMAIN L.units
  BY DEF Follows, LedgerOK
<1>2. L.units[i].state # "RESERVED" /\ L.units[i].state # "AVAILABLE"
  BY <1>1 DEF Owns, ReservedIn, InState
<1> QED
  BY <1>1, <1>2 DEF Follows, MayBecome

(* Nothing RESERVED in some reservations, nothing in fewer.                *)
LEMMA ReservedInFewer ==
  ASSUME NEW L, NEW ps, NEW qs, ps \subseteq qs, ReservedIn(L, qs) = {}
  PROVE  ReservedIn(L, ps) = {}
  BY DEF ReservedIn

-----------------------------------------------------------------------------
(* Every set of numbers has a least member.  Of the initial segments up to *)
(* its members one contains no other.                                      *)
LEMMA LeastMember ==
  ASSUME NEW T, T \subseteq Nat, T # {}
  PROVE  \E x \in T : \A y \in T : x <= y
<1> DEFINE UpTo(x) == 0 .. x
           Segments == {UpTo(x) : x \in T}
           R == StrictSubsetOrdering(Nat)
<1>1. IsWellFoundedOn(R, FiniteSubsetsOf(Nat))
  BY FS_StrictSubsetOrderingWellFounded
<1>2. Segments \subseteq FiniteSubsetsOf(Nat) /\ Segments # {}
  <2>1. \A x \in T : UpTo(x) \subseteq Nat /\ IsFiniteSet(UpTo(x))
    BY FS_Interval, 0 \in Int
  <2> QED BY <2>1 DEF FiniteSubsetsOf
<1>3. \A x, y \in Nat : x < y => <<UpTo(x), UpTo(y)>> \in R
  <2> SUFFICES ASSUME NEW x \in Nat, NEW y \in Nat, x < y PROVE <<UpTo(x), UpTo(y)>> \in R
    OBVIOUS
  <2>1. /\ UpTo(x) \subseteq UpTo(y) /\ y \in UpTo(y) /\ y \notin UpTo(x)
        /\ UpTo(x) \subseteq Nat /\ UpTo(y) \subseteq Nat
    OBVIOUS
  <2> QED BY <2>1 DEF StrictSubsetOrdering
<1> HIDE DEF R, UpTo
<1>4. PICK U \in Segments : \A V \in Segments : ~ (<<V, U>> \in R)
  <2> HIDE DEF Segments
  <2> QED BY <1>1, <1>2, WFMin
<1>5. PICK x \in T : U = UpTo(x)
  BY <1>4
<1>6. \A y \in T : ~(y < x)
  BY <1>3, <1>4, <1>5
<1> QED BY <1>5, <1>6

(* Ranks start at one and are those of the order.                          *)
LEMMA RankProperties ==
  ASSUME NEW S, S \subseteq Nat, IsFiniteSet(S), NEW i \in S
  PROVE  /\ Rank(S, i) \in Nat /\ Rank(S, i) > 0
         /\ \A j \in S : j < i => Rank(S, j) < Rank(S, i)
<1> DEFINE Upto(x) == {j \in S : j <= x}
<1>1. \A x : IsFiniteSet(Upto(x)) /\ Cardinality(Upto(x)) \in Nat
  BY FS_Subset, FS_CardinalityType
<1>2. \A x : Rank(S, x) = Cardinality(Upto(x))
  BY DEF Rank
<1>3. Cardinality(Upto(i)) # 0
  <2>1. i \in Upto(i)
    OBVIOUS
  <2> HIDE DEF Upto
  <2> QED BY <1>1, <2>1, FS_EmptySet
<1>4. ASSUME NEW j \in S, j < i
      PROVE  Cardinality(Upto(j)) < Cardinality(Upto(i))
  <2>1. Upto(j) \subseteq Upto(i) /\ i \in Upto(i) /\ i \notin Upto(j)
    <3>1. i \in Nat /\ j \in Nat
      OBVIOUS
    <3>2. i \in Upto(i) /\ i \notin Upto(j)
      BY <1>4, <3>1
    <3>3. \A x \in S : x <= j => x <= i
      BY <1>4, <3>1
    <3> QED BY <3>2, <3>3
  <2> HIDE DEF Upto
  <2>2. Cardinality(Upto(j)) <= Cardinality(Upto(i)) /\ (Cardinality(Upto(j)) = Cardinality(Upto(i)) => Upto(j) = Upto(i))
    BY <1>1, <2>1, FS_Subset
  <2>3. Cardinality(Upto(j)) \in Nat /\ Cardinality(Upto(i)) \in Nat
    BY <1>1
  <2> QED BY <2>1, <2>2, <2>3
<1> HIDE DEF Upto
<1>5. \A j \in S : j < i => Rank(S, j) < Rank(S, i)
  BY <1>2, <1>4
<1>6. Rank(S, i) \in Nat /\ Rank(S, i) # 0
  BY <1>1, <1>2, <1>3
<1> QED BY <1>5, <1>6

(* A set that is large enough has as many lowest members as one asks for:  *)
(* of the numbers for which it has not, look at the least.                 *)
LEMMA LowestAreAsMany ==
  ASSUME NEW S, S \subseteq Nat, IsFiniteSet(S), NEW n \in Nat, n <= Cardinality(S)
  PROVE  Cardinality(Lowest(S, n)) = n
<1> DEFINE C == Cardinality(S)
           T == {k \in Nat : k <= C /\ Cardinality(Lowest(S, k)) # k}
<1>0. C \in Nat
  BY FS_CardinalityType
<1> SUFFICES ASSUME T # {} PROVE FALSE
  OBVIOUS
<1>1. PICK m \in T : \A k \in T : m <= k
  BY LeastMember
<1>2. \A k : Lowest(S, k) \subseteq S /\ IsFiniteSet(Lowest(S, k))
  BY FS_Subset DEF Lowest
<1>3. \A i \in S : Rank(S, i) \in Nat /\ Rank(S, i) > 0
  BY RankProperties
<1>4. m # 0
  <2>1. Lowest(S, 0) = {}
    <3>1. \A i \in S : ~(Rank(S, i) <= 0)
      BY <1>3
    <3> QED BY <3>1 DEF Lowest
  <2> QED BY <1>1, <2>1, FS_EmptySet
<1> DEFINE L == Lowest(S, m - 1)
<1>5. m - 1 \in Nat /\ m - 1 < C /\ Cardinality(L) = m - 1
  BY <1>0, <1>1, <1>4
<1>6. S \ L # {}
  <2>1. L \subseteq S /\ Cardinality(L) # Cardinality(S)
    BY <1>2, <1>5
  <2> QED BY <2>1
<1>7. PICK x \in S \ L : \A y \in S \ L : x <= y
  BY <1>6, LeastMember
<1>8. Rank(S, x) >= m
  BY <1>1, <1>3, <1>4, <1>7 DEF Lowest
<1>9. {j \in S : j <= x} = L \cup {x}
  <2>1. ASSUME NEW j \in S, j <= x PROVE j \in L \cup {x}
    BY <1>7, <2>1
  <2>2. ASSUME NEW j \in L PROVE j \in S /\ j <= x
    <3>1. j \in S /\ Rank(S, j) <= m - 1
      BY DEF Lowest
    <3>2. ~(x < j)
      <4>1. x < j => Rank(S, x) < Rank(S, j)
        BY <1>7, <3>1, RankProperties
      <4>2. Rank(S, x) \in Nat /\ Rank(S, j) \in Nat /\ m \in Nat
        BY <1>1, <1>3, <1>7, <3>1
      <4> HIDE DEF L, T, C
      <4> QED BY <1>8, <3>1, <4>1, <4>2
    <3> QED BY <3>1, <3>2, <1>7
  <2> QED BY <1>7, <2>1, <2>2
<1>10. Cardinality(L \cup {x}) = m
  <2>1. IsFiniteSet(L) /\ x \notin L /\ m \in Nat
    BY <1>1, <1>2, <1>7
  <2> HIDE DEF L
  <2>2. Cardinality(L \cup {x}) = Cardinality(L) + 1
    BY <2>1, FS_AddElement
  <2> QED BY <1>5, <2>1, <2>2
<1>11. Rank(S, x) = m
  BY <1>9, <1>10 DEF Rank
<1>12. Lowest(S, m) = L \cup {x}
  <2>1. ASSUME NEW y \in S, Rank(S, y) <= m PROVE y \in L \cup {x}
    <3> SUFFICES ASSUME y \notin L, y # x PROVE FALSE
      OBVIOUS
    <3>1. x < y
      BY <1>7
    <3>2. Rank(S, x) < Rank(S, y)
      BY <1>7, <3>1, RankProperties
    <3> QED BY <1>1, <1>3, <1>11, <2>1, <3>2, <1>7
  <2>2. ASSUME NEW y \in L PROVE y \in S /\ Rank(S, y) <= m
    <3>1. y \in S /\ Rank(S, y) <= m - 1
      BY DEF Lowest
    <3> QED BY <1>1, <1>3, <3>1
  <2> QED BY <1>7, <1>11, <1>1, <2>1, <2>2 DEF Lowest
<1> QED BY <1>1, <1>10, <1>12

(* A reservation that can be made takes as many units as were asked for.   *)
LEMMA ChosenAreAsMany ==
  ASSUME NEW L, NEW n \in Nat, LedgerOK(L, n), NEW k \in Nat, CanReserve(L, k)
  PROVE  Cardinality(Chosen(L, k)) = k
<1>1. DOMAIN L.units = 0 .. n - 1
  BY DEF LedgerOK
<1>2. InState(L, "AVAILABLE") \subseteq 0 .. n - 1
  BY <1>1 DEF InState
<1>3. IsFiniteSet(InState(L, "AVAILABLE"))
  BY <1>2, FS_Interval, FS_Subset, 0 \in Int, n - 1 \in Int
<1> QED BY <1>2, <1>3, LowestAreAsMany DEF Chosen, CanReserve
=============================================================================
