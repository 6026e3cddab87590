----------------------------- MODULE CoreProofs -----------------------------
(***************************************************************************)
(* What the Core stands on, and the Core.                                  *)
(*                                                                         *)
(* What ranks are good for: whatever the threads, the barriers, their      *)
(* ranks, the finalizers and the moments of the collector, threads wait    *)
(* for one another only if one of them was interrupted between the grant   *)
(* of a mutex and its entry on the stack, and no finalizer starts under a  *)
(* barrier that the stack names.                                           *)
(*                                                                         *)
(* And what a finalizer that runs so late does to the registries: if it    *)
(* asks whether an entry is still its own, no live handle loses its        *)
(* registration, whatever the handles and the addresses; and whether it    *)
(* asks or not, no registration outlives the finalizers that are owed.     *)
(*                                                                         *)
(* And the tick: whatever the network, its bounds and the saved state, the *)
(* transaction that process_event plans passes the validation of commit    *)
(* (unless theta_A is zero), and the state that is published can be saved  *)
(* and loaded again, holds no cell that nothing refers to, and lacks none  *)
(* that something does.                                                    *)
(***************************************************************************)
EXTENDS Barriers, CoreTick, SequenceTheorems, FiniteSetTheorems, WellFoundedInduction, TLAPS

Frames == [who : Cleanups \cup {"user"}, got : Nat, want : Barriers \cup {None},
           taken : BOOLEAN, unwinds : BOOLEAN, drain : {"no", "start", "loop", "none", "exit"}]

Shape ==
  /\ owner \in [Barriers -> Threads \cup {None}] /\ depth \in [Barriers -> Int]
  /\ stack \in [Threads -> Seq(Barriers)] /\ draining \in [Threads -> BOOLEAN]
  /\ cleanup \in [Threads -> Seq(Cleanups) \cup {None}]
  /\ frames \in [Threads -> Seq(Frames)]
  /\ \A t \in Threads : frames[t] # <<>> /\ frames[t][1].who = "user"

Drains(f) == f.drain \in {"loop", "none", "exit"}

(* Of the frames fs of a thread only the innermost waits, holds barriers   *)
(* or ends a drain; one at most is in a drain, and no other above it.  The *)
(* others have come to a mutex or to the start of a drain, at most.        *)
Calls(fs, drains) ==
  /\ drains <=> \E i \in DOMAIN fs : Drains(fs[i])
  /\ \A i \in DOMAIN fs :
       /\ fs[i].taken => fs[i].want # None
       /\ fs[i].drain # "no" => fs[i].want = None
       /\ i # Len(fs) => /\ fs[i].want # None => fs[i].taken
                         /\ fs[i].got = 0
                         /\ fs[i].drain \in {"no", "start", "loop"}
       /\ Drains(fs[i]) => \A j \in DOMAIN fs : i < j => fs[j].drain = "no"

(* The innermost frame f holds the whole stack s and drains only without.  *)
Holds(f, s) == f.got = Len(s) /\ (f.drain # "no" => s = <<>>)

Innermost ==
  \A t \in Threads : Calls(frames[t], draining[t]) /\ Holds(Top(t), stack[t])

Framed == Shape /\ Innermost

-----------------------------------------------------------------------------
(* What taking the last element from a sequence leaves.                    *)
LEMMA Popped ==
  ASSUME NEW S, NEW s \in Seq(S), s # <<>>
  PROVE  /\ Last(s) \in S /\ Front(s) \in Seq(S)
         /\ Len(s) \in Nat /\ Len(s) > 0 /\ Last(s) = s[Len(s)]
         /\ DOMAIN s = 1 .. Len(s)
         /\ Len(Front(s)) = Len(s) - 1
         /\ DOMAIN Front(s) = 1 .. Len(s) - 1
         /\ \A i \in 1 .. Len(s) - 1 : Front(s)[i] = s[i]
<1>1. Len(s) \in Nat /\ Len(s) > 0 /\ DOMAIN s = 1 .. Len(s)
  BY EmptySeq, LenProperties
<1>2. \A i \in 1 .. Len(s) : s[i] \in S
  BY ElementOfSeq
<1> DEFINE n == Len(s) - 1
<1>3. /\ SubSeq(s, 1, n) \in Seq(S)
      /\ Len(SubSeq(s, 1, n)) = IF 1 <= n THEN n - 1 + 1 ELSE 0
      /\ \A i \in 1 .. n - 1 + 1 : SubSeq(s, 1, n)[i] = s[1 + i - 1]
  <2>1. n \in Int /\ 1 \in Int /\ \A i \in 1 .. n : s[i] \in S
    BY <1>1, <1>2
  <2> QED BY <2>1, SubSeqProperties
<1>4. Front(s) \in Seq(S) /\ Len(Front(s)) = Len(s) - 1
      /\ \A i \in 1 .. Len(s) - 1 : Front(s)[i] = s[i]
  BY <1>1, <1>3 DEF Front
<1>5. DOMAIN Front(s) = 1 .. Len(s) - 1
  BY <1>4, LenProperties
<1> QED BY <1>1, <1>2, <1>4, <1>5 DEF Last

(* What appending does.                                                    *)
LEMMA Appended ==
  ASSUME NEW S, NEW s \in Seq(S), NEW x \in S
  PROVE  /\ Append(s, x) \in Seq(S) /\ Append(s, x) # <<>>
         /\ Len(s) \in Nat /\ DOMAIN s = 1 .. Len(s)
         /\ Len(Append(s, x)) = Len(s) + 1
         /\ DOMAIN Append(s, x) = 1 .. Len(s) + 1
         /\ \A i \in 1 .. Len(s) : Append(s, x)[i] = s[i]
         /\ Append(s, x)[Len(s) + 1] = x /\ Last(Append(s, x)) = x
<1>1. Len(s) \in Nat /\ DOMAIN s = 1 .. Len(s)
  BY LenProperties
<1>2. Append(s, x) \in Seq(S) /\ Len(Append(s, x)) = Len(s) + 1
  BY SMT
<1>3. DOMAIN Append(s, x) = 1 .. (Len(s) + 1)
  BY <1>2, LenProperties
<1>4. \A i \in 1 .. (Len(s) + 1) : Append(s, x)[i] = IF i = Len(s) + 1 THEN x ELSE s[i]
  BY SMT
<1>5. Append(s, x) # <<>>
  BY <1>1, <1>2, EmptySeq
<1> QED BY <1>1, <1>2, <1>3, <1>4, <1>5 DEF Last

(* What replacing the last element does.                                   *)
LEMMA Replaced ==
  ASSUME NEW S, NEW s \in Seq(S), s # <<>>, NEW x \in S
  PROVE  LET r == Append(Front(s), x)
         IN /\ r \in Seq(S) /\ r # <<>> /\ Len(r) = Len(s) /\ DOMAIN r = DOMAIN s
            /\ r[Len(s)] = x /\ Last(r) = x
            /\ \A i \in DOMAIN s : i # Len(s) => r[i] = s[i]
<1>1. /\ Front(s) \in Seq(S) /\ Len(s) \in Nat /\ Len(s) > 0
      /\ DOMAIN s = 1 .. Len(s) /\ Len(Front(s)) = Len(s) - 1
      /\ \A i \in 1 .. Len(s) - 1 : Front(s)[i] = s[i]
  BY Popped
<1>2. ASSUME NEW q \in Seq(S), q = Front(s)
      PROVE  LET r == Append(q, x)
             IN /\ r \in Seq(S) /\ r # <<>> /\ Len(r) = Len(s) /\ DOMAIN r = DOMAIN s
                /\ r[Len(s)] = x /\ Last(r) = x
                /\ \A i \in DOMAIN s : i # Len(s) => r[i] = s[i]
  <2> DEFINE r == Append(q, x)
  <2>1. /\ r \in Seq(S) /\ r # <<>> /\ Len(r) = Len(q) + 1 /\ DOMAIN r = 1 .. Len(q) + 1
        /\ \A i \in 1 .. Len(q) : r[i] = q[i]
        /\ r[Len(q) + 1] = x /\ Last(r) = x
    BY Appended
  <2>2. /\ Len(q) + 1 = Len(s) /\ 1 .. Len(q) + 1 = DOMAIN s
        /\ \A i \in DOMAIN s : i # Len(s) => i \in 1 .. Len(q) /\ q[i] = s[i]
    <3>0. Len(s) \in Nat /\ Len(Front(s)) = Len(s) - 1 /\ q = Front(s)
      BY <1>1, <1>2
    <3>1. Len(q) + 1 = Len(s) /\ Len(q) \in Nat
      BY <3>0
    <3>2. 1 .. Len(q) + 1 = DOMAIN s
      BY <1>1, <3>1
    <3>3. \A i \in 1 .. Len(s) : i # Len(s) => i \in 1 .. Len(s) - 1
      BY <3>0
    <3>4. \A i \in 1 .. Len(s) - 1 : q[i] = s[i]
      BY <1>1, <3>0
    <3>5. DOMAIN s = 1 .. Len(s) /\ Len(q) = Len(s) - 1
      BY <1>1, <3>0
    <3> QED BY <3>1, <3>2, <3>3, <3>4, <3>5
  <2>3. \A i \in DOMAIN s : i # Len(s) => r[i] = s[i]
    BY <2>1, <2>2
  <2> HIDE DEF r
  <2>4. /\ r \in Seq(S) /\ r # <<>> /\ Len(r) = Len(s) /\ DOMAIN r = DOMAIN s
        /\ r[Len(s)] = x /\ Last(r) = x
    BY <2>1, <2>2
  <2> QED BY <2>3, <2>4 DEF r
<1> QED BY <1>1, <1>2

-----------------------------------------------------------------------------
(* The innermost frame of a thread.                                        *)
LEMMA TopProperties ==
  ASSUME Shape, NEW t \in Threads
  PROVE  /\ frames[t] \in Seq(Frames) /\ frames[t] # <<>> /\ Top(t) \in Frames
         /\ Len(frames[t]) \in Nat /\ Len(frames[t]) > 0
         /\ DOMAIN frames[t] = 1 .. Len(frames[t])
         /\ Top(t) = frames[t][Len(frames[t])]
         /\ stack[t] \in Seq(Barriers)
BY Popped DEF Shape, Top

(* What a drain below the innermost frame tells.                           *)
Beneath(fs) == \E i \in 1 .. Len(fs) - 1 : Drains(fs[i])

LEMMA BeneathTop ==
  ASSUME NEW fs, NEW n \in Nat, n > 0, Len(fs) = n, DOMAIN fs = 1 .. n
  PROVE  (\E i \in DOMAIN fs : Drains(fs[i])) <=> Drains(fs[n]) \/ Beneath(fs)
<1>1. \A i \in 1 .. n : i = n \/ i \in 1 .. n - 1
  OBVIOUS
<1>2. \A i \in 1 .. n - 1 : i \in 1 .. n
  OBVIOUS
<1>3. n \in 1 .. n
  OBVIOUS
<1> QED BY <1>1, <1>2, <1>3 DEF Beneath

(* A thread whose innermost frame becomes f.                               *)
LEMMA FrameChanged ==
  ASSUME Framed, NEW t \in Threads, NEW f \in Frames, f.who = Top(t).who,
         NEW s \in Seq(Barriers), NEW drains \in BOOLEAN,
         f.taken => f.want # None,
         f.drain # "no" => f.want = None,
         f.drain # "no" /\ Top(t).drain = "no" => ~draining[t],
         drains <=> Drains(f) \/ (draining[t] /\ ~Drains(Top(t))),
         Holds(f, s)
  PROVE  LET fs == Append(Front(frames[t]), f)
         IN /\ fs \in Seq(Frames) /\ fs # <<>> /\ fs[1].who = "user"
            /\ Calls(fs, drains) /\ Holds(Last(fs), s) /\ Last(fs) = f
            /\ DOMAIN fs = DOMAIN frames[t] /\ fs[Len(frames[t])] = f
            /\ \A i \in DOMAIN frames[t] : i # Len(frames[t]) => fs[i] = frames[t][i]
<1> DEFINE fs == Append(Front(frames[t]), f)
<1> DEFINE n == Len(frames[t])
<1>1. /\ fs \in Seq(Frames) /\ fs # <<>> /\ Len(fs) = n /\ DOMAIN fs = DOMAIN frames[t]
      /\ fs[n] = f /\ Last(fs) = f
      /\ \A i \in DOMAIN frames[t] : i # n => fs[i] = frames[t][i]
  BY TopProperties, Replaced DEF Framed
<1>2. /\ n \in Nat /\ n > 0 /\ DOMAIN frames[t] = 1 .. n /\ Top(t) = frames[t][n]
      /\ frames[t][1].who = "user" /\ Calls(frames[t], draining[t])
      /\ draining[t] \in BOOLEAN
  BY TopProperties DEF Framed, Shape, Innermost
<1> HIDE DEF fs
<1>3. fs[1].who = "user"
  BY <1>1, <1>2
<1>4. \A i \in 1 .. n - 1 : i \in 1 .. n /\ i # n /\ i < n /\ fs[i] = frames[t][i]
  BY <1>1, <1>2
<1>5. Beneath(fs) <=> Beneath(frames[t])
  BY <1>1, <1>4 DEF Beneath
<1>6. Beneath(frames[t]) => Top(t).drain = "no"
  <2>1. \A i \in 1 .. n : Drains(frames[t][i]) => \A j \in 1 .. n : i < j => frames[t][j].drain = "no"
    BY <1>2 DEF Calls
  <2>2. n \in 1 .. n
    BY <1>2
  <2> QED BY <1>2, <1>4, <2>1, <2>2 DEF Beneath
<1>7. draining[t] <=> Drains(Top(t)) \/ Beneath(frames[t])
  BY <1>2, BeneathTop DEF Calls
<1>8. Beneath(fs) => f.drain = "no"
  BY <1>5, <1>6, <1>7
<1>9. drains <=> \E i \in DOMAIN fs : Drains(fs[i])
  <2>1. (\E i \in DOMAIN fs : Drains(fs[i])) <=> Drains(f) \/ Beneath(fs)
    BY <1>1, <1>2, BeneathTop
  <2>2. Beneath(frames[t]) => ~Drains(Top(t))
    BY <1>6 DEF Drains
  <2> QED BY <1>5, <1>7, <2>1, <2>2
<1>10. ASSUME NEW i \in 1 .. n
       PROVE  /\ fs[i].taken => fs[i].want # None
              /\ fs[i].drain # "no" => fs[i].want = None
              /\ i # n => /\ fs[i].want # None => fs[i].taken
                          /\ fs[i].got = 0
                          /\ fs[i].drain \in {"no", "start", "loop"}
              /\ Drains(fs[i]) => \A j \in 1 .. n : i < j => fs[j].drain = "no"
  <2>1. CASE i = n
    <3>1. \A j \in 1 .. n : ~(i < j)
      BY <2>1, <1>2
    <3> QED BY <1>1, <2>1, <3>1
  <2>2. CASE i # n
    <3>1. fs[i] = frames[t][i] /\ i \in 1 .. n - 1
      BY <1>1, <1>2, <2>2
    <3>2. ASSUME NEW j \in 1 .. n, i < j, Drains(fs[i]) PROVE fs[j].drain = "no"
      <4>1. CASE j = n
        <5>1. Beneath(fs)
          BY <1>1, <3>1, <3>2 DEF Beneath
        <5> QED BY <1>1, <1>8, <4>1, <5>1
      <4>2. CASE j # n
        BY <1>1, <1>2, <3>1, <3>2, <4>2 DEF Calls
      <4> QED BY <4>1, <4>2
    <3> QED BY <1>2, <2>2, <3>1, <3>2 DEF Calls
  <2> QED BY <2>1, <2>2
<1>11. Calls(fs, drains)
  BY <1>1, <1>2, <1>9, <1>10 DEF Calls
<1> QED BY <1>1, <1>3, <1>11 DEF fs

(* A finalizer called into a thread that holds nothing by its stack.       *)
LEMMA FrameCalled ==
  ASSUME Framed, NEW t \in Threads, NEW c \in Cleanups,
         Top(t).want # None => Top(t).taken,
         Top(t).drain \in {"no", "start", "loop"}, stack[t] = <<>>
  PROVE  LET fs == Append(frames[t], Frame(c))
         IN /\ fs \in Seq(Frames) /\ fs # <<>> /\ fs[1].who = "user"
            /\ Calls(fs, draining[t]) /\ Holds(Last(fs), stack[t])
            /\ Last(fs) = Frame(c) /\ DOMAIN fs = 1 .. Len(frames[t]) + 1
            /\ \A i \in 1 .. Len(frames[t]) : fs[i] = frames[t][i]
            /\ fs[Len(frames[t]) + 1] = Frame(c)
<1> DEFINE f == Frame(c)
<1> DEFINE fs == Append(frames[t], f)
<1> DEFINE n == Len(frames[t])
<1>1. /\ f \in Frames /\ f.got = 0 /\ f.want = None /\ ~f.taken /\ f.drain = "no" /\ ~Drains(f)
  BY DEF Frame, Frames, Drains
<1>2. /\ frames[t] \in Seq(Frames) /\ n \in Nat /\ n > 0 /\ DOMAIN frames[t] = 1 .. n
      /\ Top(t) = frames[t][n] /\ Top(t) \in Frames
  BY TopProperties DEF Framed
<1>3. /\ frames[t][1].who = "user" /\ Calls(frames[t], draining[t])
      /\ Holds(Top(t), stack[t])
  BY DEF Framed, Shape, Innermost
<1> HIDE DEF f
<1>4. /\ fs \in Seq(Frames) /\ fs # <<>> /\ Len(fs) = n + 1 /\ DOMAIN fs = 1 .. n + 1
      /\ \A i \in 1 .. n : fs[i] = frames[t][i]
      /\ fs[n + 1] = f /\ Last(fs) = f
  BY <1>1, <1>2, Appended
<1>5. Len(stack[t]) = 0 /\ Top(t).got = 0
  BY <1>2, <1>3 DEF Holds
<1> HIDE DEF fs
<1>6. \A i \in 1 .. n + 1 : i = n + 1 \/ i \in 1 .. n
  BY <1>2
<1>7. draining[t] <=> \E i \in DOMAIN fs : Drains(fs[i])
  <2>1. \A i \in 1 .. n : i \in 1 .. n + 1
    BY <1>2
  <2>2. draining[t] <=> \E i \in 1 .. n : Drains(frames[t][i])
    BY <1>2, <1>3 DEF Calls
  <2> QED BY <1>1, <1>4, <1>6, <2>1, <2>2
<1>8. ASSUME NEW i \in 1 .. n + 1
      PROVE  /\ fs[i].taken => fs[i].want # None
             /\ fs[i].drain # "no" => fs[i].want = None
             /\ i # n + 1 => /\ fs[i].want # None => fs[i].taken
                             /\ fs[i].got = 0
                             /\ fs[i].drain \in {"no", "start", "loop"}
             /\ Drains(fs[i]) => \A j \in 1 .. n + 1 : i < j => fs[j].drain = "no"
  <2>1. CASE i = n + 1
    BY <1>1, <1>4, <2>1
  <2>2. CASE i \in 1 .. n
    <3>1. fs[i] = frames[t][i] /\ i # n + 1
      BY <1>2, <1>4, <2>2
    <3>2. /\ frames[t][i].taken => frames[t][i].want # None
          /\ frames[t][i].drain # "no" => frames[t][i].want = None
          /\ Drains(frames[t][i]) => \A j \in 1 .. n : i < j => frames[t][j].drain = "no"
      BY <1>2, <1>3, <2>2 DEF Calls
    <3>3. /\ frames[t][i].want # None => frames[t][i].taken
          /\ frames[t][i].got = 0
          /\ frames[t][i].drain \in {"no", "start", "loop"}
      BY <1>2, <1>3, <1>5, <2>2 DEF Calls
    <3>4. ASSUME NEW j \in 1 .. n + 1, i < j, Drains(fs[i]) PROVE fs[j].drain = "no"
      BY <1>1, <1>4, <1>6, <3>1, <3>2, <3>4
    <3> QED BY <3>1, <3>2, <3>3, <3>4
  <2> QED BY <1>6, <2>1, <2>2
<1>9. Calls(fs, draining[t])
  BY <1>4, <1>7, <1>8 DEF Calls
<1>10. Holds(f, stack[t])
  BY <1>1, <1>5 DEF Holds
<1>11. fs[1].who = "user"
  BY <1>2, <1>3, <1>4
<1> QED BY <1>4, <1>9, <1>10, <1>11 DEF fs, f

(* A finalizer that has released everything returns.                       *)
LEMMA FrameReturned ==
  ASSUME Framed, NEW t \in Threads, Top(t).who # "user", Idle(Top(t)), Top(t).got = 0
  PROVE  LET fs == Front(frames[t])
         IN /\ fs \in Seq(Frames) /\ fs # <<>> /\ fs[1].who = "user"
            /\ Calls(fs, draining[t]) /\ Holds(Last(fs), stack[t]) /\ stack[t] = <<>>
            /\ DOMAIN fs = 1 .. Len(frames[t]) - 1
            /\ \A i \in 1 .. Len(frames[t]) - 1 : fs[i] = frames[t][i]
<1> DEFINE fs == Front(frames[t])
<1> DEFINE n == Len(frames[t])
<1>1. /\ frames[t] \in Seq(Frames) /\ frames[t] # <<>> /\ n \in Nat /\ n > 0
      /\ DOMAIN frames[t] = 1 .. n /\ Top(t) = frames[t][n]
      /\ stack[t] \in Seq(Barriers)
  BY TopProperties DEF Framed
<1>2. /\ frames[t][1].who = "user" /\ Calls(frames[t], draining[t])
      /\ Holds(Top(t), stack[t])
  BY DEF Framed, Shape, Innermost
<1>3. n > 1
  BY <1>1, <1>2
<1>4. /\ fs \in Seq(Frames) /\ Len(fs) = n - 1 /\ DOMAIN fs = 1 .. n - 1
      /\ \A i \in 1 .. n - 1 : fs[i] = frames[t][i]
  BY <1>1, Popped
<1>5. fs # <<>> /\ fs[1] = frames[t][1] /\ Last(fs) = frames[t][n - 1]
  BY <1>1, <1>3, <1>4, EmptySeq DEF Last
<1>6. stack[t] = <<>>
  BY <1>1, <1>2, EmptySeq DEF Holds
<1> HIDE DEF fs
<1>7. \A i \in 1 .. n - 1 : i \in 1 .. n /\ i # n
  BY <1>1
<1>8. draining[t] <=> \E i \in DOMAIN fs : Drains(fs[i])
  <2>1. draining[t] <=> Drains(Top(t)) \/ Beneath(frames[t])
    BY <1>1, <1>2, BeneathTop DEF Calls
  <2>2. ~Drains(Top(t))
    BY DEF Idle, Drains
  <2> QED BY <1>4, <2>1, <2>2 DEF Beneath
<1>9. ASSUME NEW i \in 1 .. n - 1
      PROVE  /\ fs[i].taken => fs[i].want # None
             /\ fs[i].drain # "no" => fs[i].want = None
             /\ fs[i].want # None => fs[i].taken
             /\ fs[i].got = 0
             /\ fs[i].drain \in {"no", "start", "loop"}
             /\ Drains(fs[i]) => \A j \in 1 .. n - 1 : i < j => fs[j].drain = "no"
  <2>1. fs[i] = frames[t][i] /\ i \in DOMAIN frames[t] /\ i # Len(frames[t])
    BY <1>1, <1>4, <1>7
  <2>2. \A j \in 1 .. n - 1 : fs[j] = frames[t][j] /\ j \in DOMAIN frames[t]
    BY <1>1, <1>4, <1>7
  <2>3. Drains(fs[i]) => \A j \in 1 .. n - 1 : i < j => fs[j].drain = "no"
    BY <1>2, <2>1, <2>2 DEF Calls
  <2> QED BY <1>2, <2>1, <2>3 DEF Calls
<1>10. Calls(fs, draining[t])
  BY <1>4, <1>8, <1>9 DEF Calls
<1>11. Holds(Last(fs), stack[t])
  <2>1. n - 1 \in 1 .. n - 1
    BY <1>1, <1>3
  <2> QED BY <1>4, <1>5, <1>6, <1>9, <2>1, EmptySeq DEF Holds
<1> QED BY <1>2, <1>4, <1>5, <1>6, <1>10, <1>11 DEF fs

(* A step of one thread leaves the others as they were.                    *)
Others(t) ==
  \A u \in Threads \ {t} :
    /\ frames'[u] = frames[u] /\ stack'[u] = stack[u]
    /\ draining'[u] = draining[u] /\ cleanup'[u] = cleanup[u]

LEMMA FramedAfter ==
  ASSUME Framed, NEW t \in Threads, Shape', Others(t),
         Calls(frames'[t], draining'[t]), Holds(Last(frames'[t]), stack'[t])
  PROVE  Framed'
BY DEF Framed, Innermost, Others, Top

-----------------------------------------------------------------------------
LEMMA FramedInit == BarriersInit => Framed
<1> SUFFICES ASSUME BarriersInit PROVE Framed
  OBVIOUS
<1>1. Frame("user") \in Frames
  BY DEF Frame, Frames
<1>2. Shape
  <2>1. <<Frame("user")>> \in Seq(Frames) /\ <<Frame("user")>> # <<>>
        /\ <<Frame("user")>>[1].who = "user"
    BY <1>1 DEF Frame
  <2> QED BY <2>1 DEF BarriersInit, Shape
<1>3. ASSUME NEW t \in Threads
      PROVE  Calls(frames[t], draining[t]) /\ Holds(Top(t), stack[t])
  <2>1. frames[t] = <<Frame("user")>> /\ draining[t] = FALSE /\ stack[t] = <<>>
    BY <1>3 DEF BarriersInit
  <2>2. Len(frames[t]) = 1 /\ DOMAIN frames[t] = {1} /\ frames[t][1] = Frame("user")
    BY <2>1
  <2>3. Calls(frames[t], draining[t])
    BY <2>1, <2>2 DEF Calls, Frame, Drains
  <2> QED BY <2>1, <2>2, <2>3 DEF Holds, Frame, Top, Last
<1>4. Innermost
  BY <1>3 DEF Innermost
<1> QED BY <1>2, <1>4 DEF Framed

(* The frames of t but for the innermost, which becomes f.                 *)
Topped(t, f) ==
  /\ DOMAIN frames'[t] = DOMAIN frames[t] /\ frames'[t][Len(frames[t])] = f
  /\ \A i \in DOMAIN frames[t] : i # Len(frames[t]) => frames'[t][i] = frames[t][i]

(* A step that changes the innermost frame, and perhaps the stack and the  *)
(* drain, of one thread.                                                   *)
LEMMA TopStep ==
  ASSUME Framed, NEW t \in Threads, NEW f \in Frames, f.who = Top(t).who,
         frames' = WithTop(t, f),
         owner' \in [Barriers -> Threads \cup {None}], depth' \in [Barriers -> Int],
         NEW s \in Seq(Barriers), stack' = [stack EXCEPT ![t] = s],
         NEW drains \in BOOLEAN, draining' = [draining EXCEPT ![t] = drains],
         UNCHANGED cleanup,
         f.taken => f.want # None,
         f.drain # "no" => f.want = None,
         f.drain # "no" /\ Top(t).drain = "no" => ~draining[t],
         drains <=> Drains(f) \/ (draining[t] /\ ~Drains(Top(t))),
         Holds(f, s)
  PROVE  Framed' /\ Others(t) /\ stack'[t] = s /\ Top(t)' = f /\ Topped(t, f)
<1> DEFINE fs == Append(Front(frames[t]), f)
<1>1. /\ fs \in Seq(Frames) /\ fs # <<>> /\ fs[1].who = "user"
      /\ Calls(fs, drains) /\ Holds(Last(fs), s) /\ Last(fs) = f
      /\ DOMAIN fs = DOMAIN frames[t] /\ fs[Len(frames[t])] = f
      /\ \A i \in DOMAIN frames[t] : i # Len(frames[t]) => fs[i] = frames[t][i]
  BY FrameChanged
<1>2. frames' = [frames EXCEPT ![t] = fs]
  BY DEF WithTop
<1> HIDE DEF fs
<1>3. frames'[t] = fs /\ Others(t) /\ stack'[t] = s /\ draining'[t] = drains
  BY <1>2 DEF Framed, Shape, Others
<1>4. Shape'
  BY <1>1, <1>2 DEF Framed, Shape
<1>5. Framed'
  BY <1>1, <1>3, <1>4, FramedAfter
<1> QED BY <1>1, <1>3, <1>5 DEF Top, Topped

(* What a thread does in a drain is not changed by what its frame wants.   *)
LEMMA DrainStays ==
  ASSUME Framed, NEW t \in Threads, NEW f, f.drain = "no", Top(t).drain = "no"
  PROVE  draining[t] <=> Drains(f) \/ (draining[t] /\ ~Drains(Top(t)))
BY DEF Drains

LEMMA WantsFramed ==
  ASSUME Framed, NEW t \in Threads, NEW b \in Barriers, Wants(t, b)
  PROVE  /\ Framed' /\ Others(t) /\ stack'[t] = stack[t]
         /\ Top(t)' = [Top(t) EXCEPT !.want = b] /\ Topped(t, Top(t)')
<1> DEFINE f == [Top(t) EXCEPT !.want = b]
<1>1. /\ f \in Frames /\ f.who = Top(t).who /\ f.got = Top(t).got
      /\ f.drain = "no" /\ Top(t).drain = "no" /\ ~f.taken
  <2>1. Top(t) \in Frames /\ Top(t).want = None /\ Top(t).drain = "no" /\ ~Top(t).taken
    BY TopProperties DEF Framed, Innermost, Calls, Wants, Idle
  <2> QED BY <2>1 DEF Frames
<1>2. /\ stack[t] \in Seq(Barriers) /\ draining[t] \in BOOLEAN
      /\ owner \in [Barriers -> Threads \cup {None}] /\ depth \in [Barriers -> Int]
      /\ stack = [stack EXCEPT ![t] = stack[t]]
      /\ draining = [draining EXCEPT ![t] = draining[t]]
  BY DEF Framed, Shape
<1>3. Holds(f, stack[t])
  BY <1>1 DEF Framed, Innermost, Holds
<1>4. frames' = WithTop(t, f) /\ UNCHANGED <<owner, depth, stack, draining, cleanup>>
  BY DEF Wants
<1> HIDE DEF f
<1>5. Framed' /\ Others(t) /\ stack'[t] = stack[t] /\ Top(t)' = f /\ Topped(t, f)
  BY <1>1, <1>2, <1>3, <1>4, DrainStays, TopStep
<1> QED BY <1>5 DEF f

LEMMA TakeMutexFramed ==
  ASSUME Framed, NEW t \in Threads, TakeMutex(t)
  PROVE  /\ Framed' /\ Others(t) /\ stack'[t] = stack[t]
         /\ Top(t)' = [Top(t) EXCEPT !.taken = TRUE] /\ Topped(t, Top(t)')
<1> DEFINE f == [Top(t) EXCEPT !.taken = TRUE]
<1>1. /\ f \in Frames /\ f.who = Top(t).who /\ f.got = Top(t).got /\ f.want # None
      /\ f.drain = "no" /\ Top(t).drain = "no" /\ Top(t).want \in Barriers
  <2>1. Top(t) \in Frames /\ Top(t).want # None /\ Top(t).drain = "no"
    BY TopProperties DEF Framed, Innermost, Calls, TakeMutex
  <2> QED BY <2>1 DEF Frames
<1>2. /\ stack[t] \in Seq(Barriers) /\ draining[t] \in BOOLEAN
      /\ stack = [stack EXCEPT ![t] = stack[t]]
      /\ draining = [draining EXCEPT ![t] = draining[t]]
      /\ owner' \in [Barriers -> Threads \cup {None}] /\ depth' \in [Barriers -> Int]
  BY <1>1 DEF Framed, Shape, TakeMutex
<1>3. Holds(f, stack[t])
  BY <1>1 DEF Framed, Innermost, Holds
<1>4. frames' = WithTop(t, f) /\ UNCHANGED <<stack, draining, cleanup>>
  BY DEF TakeMutex
<1> HIDE DEF f
<1>5. Framed' /\ Others(t) /\ stack'[t] = stack[t] /\ Top(t)' = f /\ Topped(t, f)
  BY <1>1, <1>2, <1>3, <1>4, DrainStays, TopStep
<1> QED BY <1>5 DEF f

LEMMA PushStackFramed ==
  ASSUME Framed, NEW t \in Threads, PushStack(t)
  PROVE  /\ Framed' /\ Others(t) /\ stack'[t] = Append(stack[t], Top(t).want)
         /\ Top(t)' = [Top(t) EXCEPT !.want = None, !.taken = FALSE, !.got = @ + 1]
         /\ Topped(t, Top(t)')
<1> DEFINE f == [Top(t) EXCEPT !.want = None, !.taken = FALSE, !.got = @ + 1]
<1> DEFINE s == Append(stack[t], Top(t).want)
<1>1. /\ f \in Frames /\ f.who = Top(t).who /\ f.got = Top(t).got + 1 /\ f.want = None
      /\ f.drain = "no" /\ Top(t).drain = "no" /\ Top(t).want \in Barriers /\ ~f.taken
  <2>1. Top(t) \in Frames /\ Top(t).want # None /\ Top(t).drain = "no"
    BY TopProperties DEF Framed, Innermost, Calls, PushStack
  <2>2. Top(t).got + 1 \in Nat
    BY <2>1 DEF Frames
  <2>3. f \in Frames
    BY <2>1, <2>2 DEF Frames
  <2> QED BY <2>1, <2>3 DEF Frames
<1>2. /\ stack[t] \in Seq(Barriers) /\ draining[t] \in BOOLEAN
      /\ draining = [draining EXCEPT ![t] = draining[t]]
      /\ owner \in [Barriers -> Threads \cup {None}] /\ depth \in [Barriers -> Int]
  BY DEF Framed, Shape
<1>3. s \in Seq(Barriers) /\ Len(s) = Len(stack[t]) + 1
  BY <1>1, <1>2, Appended
<1>4. Holds(f, s)
  BY <1>1, <1>3 DEF Framed, Innermost, Holds
<1>5. /\ frames' = WithTop(t, f) /\ stack' = [stack EXCEPT ![t] = s]
      /\ UNCHANGED <<owner, depth, draining, cleanup>>
  BY DEF PushStack
<1> HIDE DEF f, s
<1>6. Framed' /\ Others(t) /\ stack'[t] = s /\ Top(t)' = f /\ Topped(t, f)
  BY <1>1, <1>2, <1>3, <1>4, <1>5, DrainStays, TopStep
<1> QED BY <1>6 DEF f, s

LEMMA ReleaseFramed ==
  ASSUME Framed, NEW t \in Threads, Release(t)
  PROVE  /\ Framed' /\ Others(t) /\ stack'[t] = Front(stack[t]) /\ stack[t] # <<>>
         /\ Top(t)'.want = None /\ ~Top(t)'.taken
         /\ Topped(t, Top(t)')
<1> DEFINE drains == Front(stack[t]) = <<>> /\ ~draining[t]
<1> DEFINE f == [Top(t) EXCEPT !.got = @ - 1, !.unwinds = Top(t).who # "user",
                               !.drain = IF drains THEN "start" ELSE "no"]
<1> DEFINE s == Front(stack[t])
<1>1. /\ Top(t) \in Frames /\ Top(t).want = None /\ Top(t).drain = "no" /\ ~Top(t).taken
      /\ Top(t).got > 0 /\ Top(t).got = Len(stack[t])
  BY TopProperties DEF Framed, Innermost, Calls, Holds, Release, Idle
<1>2. /\ f \in Frames /\ f.who = Top(t).who /\ f.got = Top(t).got - 1 /\ f.want = None
      /\ ~f.taken /\ f.drain = IF drains THEN "start" ELSE "no"
  <2>1. Top(t).got - 1 \in Nat /\ (Top(t).who # "user") \in BOOLEAN
        /\ (IF drains THEN "start" ELSE "no") \in {"no", "start", "loop", "none", "exit"}
    BY <1>1 DEF Frames
  <2>2. f \in Frames
    BY <1>1, <2>1 DEF Frames
  <2> QED BY <1>1, <2>2 DEF Frames
<1>3. /\ stack[t] \in Seq(Barriers) /\ draining[t] \in BOOLEAN /\ stack[t] # <<>>
      /\ draining = [draining EXCEPT ![t] = draining[t]]
  BY <1>1, EmptySeq DEF Framed, Shape
<1>4. s \in Seq(Barriers) /\ Len(s) = Len(stack[t]) - 1 /\ Last(stack[t]) \in Barriers
  BY <1>3, Popped
<1>5. Holds(f, s)
  BY <1>1, <1>2, <1>4 DEF Holds
<1>6. /\ frames' = WithTop(t, f) /\ stack' = [stack EXCEPT ![t] = s]
      /\ UNCHANGED <<draining, cleanup>>
  BY DEF Release
<1>7. owner' \in [Barriers -> Threads \cup {None}] /\ depth' \in [Barriers -> Int]
  BY <1>4 DEF Release, Framed, Shape
<1>8. /\ f.drain # "no" => f.want = None
      /\ f.drain # "no" /\ Top(t).drain = "no" => ~draining[t]
      /\ draining[t] <=> Drains(f) \/ (draining[t] /\ ~Drains(Top(t)))
  BY <1>1, <1>2 DEF Drains
<1> HIDE DEF f, s, drains
<1>9. Framed' /\ Others(t) /\ stack'[t] = s /\ Top(t)' = f /\ Topped(t, f)
  BY <1>2, <1>3, <1>4, <1>5, <1>6, <1>7, <1>8, TopStep
<1> QED BY <1>2, <1>3, <1>9 DEF s

(* The mutexes that frames have entered and the stack does not name yet.   *)
Enters(f, b)  == f.taken /\ f.want = b
Taken(fs, b)  == {i \in DOMAIN fs : Enters(fs[i], b)}

(* What the other steps leave alone: the barriers, and what every thread   *)
(* that holds any is acquiring.                                            *)
Quiet ==
  /\ UNCHANGED <<owner, depth, stack>>
  /\ \A u \in Threads : /\ (Top(u)'.want = Top(u).want \/ stack[u] = <<>>)
                        /\ \A b : Taken(frames'[u], b) = Taken(frames[u], b)

LEMMA QuietAfter ==
  ASSUME NEW t \in Threads, Others(t), UNCHANGED <<owner, depth, stack>>,
         Top(t)'.want = Top(t).want \/ stack[t] = <<>>,
         \A b : Taken(frames'[t], b) = Taken(frames[t], b)
  PROVE  Quiet
BY DEF Quiet, Others, Top

LEMMA CleanupEndsFramed ==
  ASSUME Framed, NEW t \in Threads, CleanupEnds(t)
  PROVE  Framed' /\ Quiet
<1> DEFINE fs == Front(frames[t])
<1> DEFINE n == Len(frames[t])
<1>1. /\ fs \in Seq(Frames) /\ fs # <<>> /\ fs[1].who = "user"
      /\ Calls(fs, draining[t]) /\ Holds(Last(fs), stack[t]) /\ stack[t] = <<>>
      /\ DOMAIN fs = 1 .. n - 1 /\ \A i \in 1 .. n - 1 : fs[i] = frames[t][i]
  BY FrameReturned DEF CleanupEnds
<1>2. /\ frames' = [frames EXCEPT ![t] = fs]
      /\ UNCHANGED <<owner, depth, stack, draining, cleanup>>
  BY DEF CleanupEnds
<1>3. /\ ~Top(t).taken /\ n \in Nat /\ n > 0 /\ DOMAIN frames[t] = 1 .. n
      /\ Top(t) = frames[t][n]
  BY TopProperties DEF Framed, Innermost, Calls, CleanupEnds, Idle
<1> HIDE DEF fs
<1>4. frames'[t] = fs /\ Others(t)
  BY <1>2 DEF Framed, Shape, Others
<1>5. Shape'
  BY <1>1, <1>2 DEF Framed, Shape
<1>6. Framed'
  BY <1>1, <1>2, <1>4, <1>5, FramedAfter
<1>7. ASSUME NEW b PROVE Taken(fs, b) = Taken(frames[t], b)
  <2>1. \A i \in 1 .. n : i \in 1 .. n - 1 \/ i = n
    BY <1>3
  <2>2. \A i \in 1 .. n - 1 : i \in 1 .. n
    BY <1>3
  <2>3. ~Enters(frames[t][n], b)
    BY <1>3 DEF Enters
  <2> QED BY <1>1, <1>3, <2>1, <2>2, <2>3 DEF Taken
<1> QED BY <1>1, <1>2, <1>4, <1>6, <1>7, QuietAfter

(* A finalizer is called into t, by the drain or by the collector.         *)
LEMMA CalledFramed ==
  ASSUME Framed, NEW t \in Threads, NEW c \in Cleanups,
         Top(t).want # None => Top(t).taken,
         Top(t).drain \in {"no", "start", "loop"}, stack[t] = <<>>,
         frames' = [frames EXCEPT ![t] = Append(@, Frame(c))],
         UNCHANGED <<owner, depth, stack, draining>>,
         NEW q \in Seq(Cleanups) \cup {None}, cleanup' = [cleanup EXCEPT ![t] = q]
  PROVE  Framed' /\ Quiet
<1> DEFINE fs == Append(frames[t], Frame(c))
<1> DEFINE n == Len(frames[t])
<1>1. /\ fs \in Seq(Frames) /\ fs # <<>> /\ fs[1].who = "user"
      /\ Calls(fs, draining[t]) /\ Holds(Last(fs), stack[t])
      /\ DOMAIN fs = 1 .. n + 1 /\ fs[n + 1] = Frame(c)
      /\ \A i \in 1 .. n : fs[i] = frames[t][i]
  BY FrameCalled
<1>2. n \in Nat /\ DOMAIN frames[t] = 1 .. n
  BY TopProperties DEF Framed
<1>3. frames' = [frames EXCEPT ![t] = fs]
  OBVIOUS
<1> HIDE DEF fs
<1>4. frames'[t] = fs /\ Others(t)
  BY <1>3 DEF Framed, Shape, Others
<1>5. Shape'
  BY <1>1, <1>3 DEF Framed, Shape
<1>6. Framed'
  BY <1>1, <1>4, <1>5, FramedAfter
<1>7. ASSUME NEW b PROVE Taken(fs, b) = Taken(frames[t], b)
  <2>1. \A i \in 1 .. n + 1 : i \in 1 .. n \/ i = n + 1
    BY <1>2
  <2>2. \A i \in 1 .. n : i \in 1 .. n + 1
    BY <1>2
  <2>3. ~Enters(fs[n + 1], b)
    BY <1>1 DEF Enters, Frame
  <2> QED BY <1>1, <1>2, <2>1, <2>2, <2>3 DEF Taken
<1> QED BY <1>4, <1>6, <1>7, QuietAfter

(* The innermost frame changes, which has entered no mutex.                *)
LEMMA TakenStays ==
  ASSUME Framed, NEW t \in Threads, NEW f, Topped(t, f), ~f.taken, ~Top(t).taken, NEW b
  PROVE  Taken(frames'[t], b) = Taken(frames[t], b)
<1>1. Top(t) = frames[t][Len(frames[t])]
  BY TopProperties DEF Framed
<1> QED BY <1>1 DEF Topped, Taken, Enters

(* The drain of t goes on.                                                 *)
LEMMA DrainFramed ==
  ASSUME Framed, NEW t \in Threads, DrainStarts(t) \/ DrainSeesEmpty(t) \/ DrainEnds(t)
  PROVE  Framed' /\ Quiet
<1>1. /\ Top(t) \in Frames /\ Top(t).want = None /\ ~Top(t).taken /\ Top(t).drain # "no"
      /\ Top(t).got = Len(stack[t]) /\ stack[t] = <<>>
  BY TopProperties DEF Framed, Innermost, Calls, Holds, DrainStarts, DrainSeesEmpty, DrainEnds
<1>2. Drains(Top(t)) => draining[t]
  BY TopProperties DEF Framed, Innermost, Calls
<1>3. PICK d \in {"no", "loop", "none", "exit"} :
        /\ frames' = WithTop(t, [Top(t) EXCEPT !.drain = d])
        /\ draining' = [draining EXCEPT ![t] = d # "no"]
        /\ d = "no" => Drains(Top(t))
        /\ UNCHANGED <<owner, depth, stack, cleanup>>
  <2>1. CASE DrainSeesEmpty(t)
    <3>1. draining = [draining EXCEPT ![t] = TRUE]
      BY <1>2, <2>1 DEF Framed, Shape, DrainSeesEmpty, Drains
    <3>2. CASE cleanup[t] = None
      BY <2>1, <3>1, <3>2 DEF DrainSeesEmpty
    <3>3. CASE cleanup[t] # None
      BY <2>1, <3>1, <3>3 DEF DrainSeesEmpty
    <3> QED BY <3>2, <3>3
  <2>2. CASE DrainEnds(t)
    <3>1. /\ draining' = [draining EXCEPT ![t] = FALSE]
          /\ frames' = WithTop(t, [Top(t) EXCEPT !.drain = "no"])
          /\ UNCHANGED <<owner, depth, stack, cleanup>>
          /\ Drains(Top(t))
      BY <2>2 DEF DrainEnds, Drains
    <3> QED BY <3>1
  <2>3. CASE DrainStarts(t)
    <3>1. /\ draining' = [draining EXCEPT ![t] = TRUE]
          /\ frames' = WithTop(t, [Top(t) EXCEPT !.drain = "loop"])
          /\ UNCHANGED <<owner, depth, stack, cleanup>>
      BY <2>3 DEF DrainStarts
    <3> QED BY <3>1
  <2> QED BY <2>1, <2>2, <2>3
<1> DEFINE f == [Top(t) EXCEPT !.drain = d]
<1>4. /\ f \in Frames /\ f.who = Top(t).who /\ f.want = None /\ ~f.taken
      /\ f.drain = d /\ f.got = Top(t).got
  BY <1>1, <1>3 DEF Frames
<1>5. /\ stack[t] \in Seq(Barriers) /\ stack = [stack EXCEPT ![t] = stack[t]]
      /\ owner \in [Barriers -> Threads \cup {None}] /\ depth \in [Barriers -> Int]
      /\ (d # "no") \in BOOLEAN
  BY DEF Framed, Shape
<1>6. Holds(f, stack[t])
  BY <1>1, <1>4 DEF Holds
<1>7. frames' = WithTop(t, f)
  BY <1>3
<1>8. (d # "no") <=> Drains(f) \/ (draining[t] /\ ~Drains(Top(t)))
  BY <1>3, <1>4 DEF Drains
<1> HIDE DEF f
<1>9. Framed' /\ Others(t) /\ stack'[t] = stack[t] /\ Topped(t, f)
  BY <1>1, <1>3, <1>4, <1>5, <1>6, <1>7, <1>8, TopStep
<1>10. \A b : Taken(frames'[t], b) = Taken(frames[t], b)
  BY <1>1, <1>4, <1>9, TakenStays
<1> QED BY <1>1, <1>3, <1>9, <1>10, QuietAfter

LEMMA DrainNextFramed ==
  ASSUME Framed, NEW t \in Threads, DrainNext(t)
  PROVE  Framed' /\ Quiet
<1>1. Top(t).want = None /\ Top(t).drain = "loop" /\ stack[t] = <<>>
  BY TopProperties DEF Framed, Innermost, Calls, Holds, DrainNext
<1>2. cleanup[t] \in Seq(Cleanups) /\ cleanup[t] # <<>>
  BY DEF Framed, Shape, DrainNext, Owed
<1>3. Last(cleanup[t]) \in Cleanups /\ Front(cleanup[t]) \in Seq(Cleanups)
  BY <1>2, Popped
<1>4. /\ frames' = [frames EXCEPT ![t] = Append(@, Frame(Last(cleanup[t])))]
      /\ cleanup' = [cleanup EXCEPT ![t] = Front(cleanup[t])]
      /\ UNCHANGED <<owner, depth, stack, draining>>
  BY DEF DrainNext
<1> QED BY <1>1, <1>3, <1>4, CalledFramed

LEMMA CollectFramed ==
  ASSUME Framed, NEW t \in Threads, NEW c \in Cleanups, Collect(t, c)
  PROVE  Framed' /\ Quiet
<1>1. /\ Top(t) \in Frames /\ (Top(t).want # None => Top(t).taken)
      /\ cleanup[t] \in Seq(Cleanups) \cup {None}
  BY TopProperties DEF Framed, Shape, Collect
<1>2. CASE Defers(t)
  <2>1. Append(Owed(t), c) \in Seq(Cleanups)
    BY <1>1 DEF Owed
  <2>2. /\ cleanup' = [cleanup EXCEPT ![t] = Append(Owed(t), c)]
        /\ UNCHANGED <<owner, depth, stack, draining, frames>>
    BY <1>2 DEF Collect
  <2>3. Shape' /\ Others(t)
    BY <2>1, <2>2 DEF Framed, Shape, Others
  <2>4. Framed'
    BY <2>2, <2>3, FramedAfter DEF Framed, Innermost, Top
  <2> QED BY <2>2, <2>4 DEF Quiet, Top
<1>3. CASE ~Defers(t)
  <2>1. /\ frames' = [frames EXCEPT ![t] = Append(@, Frame(c))] /\ stack[t] = <<>>
        /\ ~draining[t] /\ UNCHANGED <<owner, depth, stack, draining, cleanup>>
    BY <1>3 DEF Collect, Defers
  <2>2. cleanup' = [cleanup EXCEPT ![t] = cleanup[t]]
    BY <2>1 DEF Framed, Shape
  <2>3. ~Drains(Top(t))
    BY <2>1, TopProperties DEF Framed, Innermost, Calls
  <2>4. Top(t).drain \in {"no", "start", "loop"}
    BY <1>1, <2>3 DEF Frames, Drains
  <2> QED BY <1>1, <2>1, <2>2, <2>4, CalledFramed
<1> QED BY <1>2, <1>3

(* A step that only acquires, enters, pushes or releases.                  *)
Moves(t) ==
  \/ \E b \in Barriers : Wants(t, b)
  \/ TakeMutex(t) \/ PushStack(t) \/ Release(t)

LEMMA StepFramed ==
  ASSUME Framed, [BarriersNext]_barriersVars
  PROVE  /\ Framed'
         /\ Quiet \/ \E t \in Threads : Moves(t)
<1>1. CASE UNCHANGED barriersVars
  BY <1>1 DEF barriersVars, Framed, Shape, Innermost, Top, Quiet
<1>2. ASSUME NEW t \in Threads,
             (\E b \in Barriers : UserAcquire(t, b)) \/ (\E c \in Cleanups : Collect(t, c)) \/ Advance(t)
      PROVE  Framed' /\ (Quiet \/ Moves(t))
  <2>1. CASE \E b \in Barriers : UserAcquire(t, b)
    BY <2>1, WantsFramed DEF UserAcquire, Moves
  <2>2. CASE \E c \in Cleanups : Collect(t, c)
    BY <2>2, CollectFramed
  <2>3. CASE CleanupAcquire(t)
    <3>1. Top(t) \in Frames
      BY TopProperties DEF Framed
    <3>2. Top(t).who \in Cleanups /\ Top(t).got \in Nat
      BY <2>3, <3>1 DEF CleanupAcquire, Frames
    <3>3. Needs[Top(t).who] \in Seq(Barriers)
      BY <3>2, BarriersAssumption
    <3>4. Top(t).got + 1 \in 1 .. Len(Needs[Top(t).who])
      BY <2>3, <3>2, <3>3, LenProperties DEF CleanupAcquire
    <3>5. Needs[Top(t).who][Top(t).got + 1] \in Barriers
      BY <3>3, <3>4, ElementOfSeq
    <3> QED BY <2>3, <3>5, WantsFramed DEF CleanupAcquire, Moves
  <2>4. CASE TakeMutex(t)
    BY <2>4, TakeMutexFramed DEF Moves
  <2>5. CASE PushStack(t)
    BY <2>5, PushStackFramed DEF Moves
  <2>6. CASE Release(t)
    BY <2>6, ReleaseFramed DEF Moves
  <2>7. CASE CleanupEnds(t)
    BY <2>7, CleanupEndsFramed
  <2>8. CASE DrainNext(t)
    BY <2>8, DrainNextFramed
  <2>9. CASE DrainStarts(t) \/ DrainSeesEmpty(t) \/ DrainEnds(t)
    BY <2>9, DrainFramed
  <2> QED BY <1>2, <2>1, <2>2, <2>3, <2>4, <2>5, <2>6, <2>7, <2>8, <2>9 DEF Advance
<1>3. CASE BarriersNext
  BY <1>2, <1>3 DEF BarriersNext
<1> QED BY <1>1, <1>3

-----------------------------------------------------------------------------
(* Ranks.  The stack of a thread ascends up to what the thread acquires,   *)
(* and with its frames it tells the truth: a thread is inside the mutexes  *)
(* of the barriers on its stack and of those its frames are just entering, *)
(* and of no others.                                                       *)
Below(b, c) == RankOf[b] < RankOf[c] \/ b = c

Ascending ==
  \A t \in Threads :
    /\ \A i, j \in DOMAIN stack[t] : i < j => Below(stack[t][i], stack[t][j])
    /\ Top(t).want # None => \A i \in DOMAIN stack[t] : Below(stack[t][i], Top(t).want)

Entries(s, b) == {i \in DOMAIN s : s[i] = b}
Claims(fs, s, b) == Entries(s, b) # {} \/ Taken(fs, b) # {}
Booked(fs, s, b) == Cardinality(Entries(s, b)) + Cardinality(Taken(fs, b))

Truthful ==
  \A b \in Barriers :
    /\ owner[b] = None => depth[b] = 0
    /\ \A t \in Threads : /\ owner[b] = t <=> Claims(frames[t], stack[t], b)
                          /\ owner[b] = t => depth[b] = Booked(frames[t], stack[t], b)

Ranked == Framed /\ Ascending /\ Truthful

LEMMA EntriesCount ==
  ASSUME NEW s \in Seq(Barriers), NEW b
  PROVE  /\ IsFiniteSet(Entries(s, b)) /\ Cardinality(Entries(s, b)) \in Nat
         /\ Cardinality(Entries(s, b)) = 0 <=> Entries(s, b) = {}
<1>1. DOMAIN s = 1 .. Len(s) /\ Len(s) \in Nat
  BY LenProperties
<1>2. IsFiniteSet(1 .. Len(s))
  BY <1>1, FS_Interval
<1>3. Entries(s, b) \subseteq 1 .. Len(s)
  BY <1>1 DEF Entries
<1>4. IsFiniteSet(Entries(s, b))
  BY <1>2, <1>3, FS_Subset
<1> QED BY <1>4, FS_CardinalityType, FS_EmptySet

LEMMA TakenCount ==
  ASSUME Framed, NEW t \in Threads, NEW b
  PROVE  /\ IsFiniteSet(Taken(frames[t], b)) /\ Cardinality(Taken(frames[t], b)) \in Nat
         /\ Cardinality(Taken(frames[t], b)) = 0 <=> Taken(frames[t], b) = {}
<1>1. DOMAIN frames[t] = 1 .. Len(frames[t]) /\ Len(frames[t]) \in Nat
  BY TopProperties DEF Framed
<1>2. IsFiniteSet(1 .. Len(frames[t]))
  BY <1>1, FS_Interval
<1>3. Taken(frames[t], b) \subseteq 1 .. Len(frames[t])
  BY <1>1 DEF Taken
<1>4. IsFiniteSet(Taken(frames[t], b))
  BY <1>2, <1>3, FS_Subset
<1> QED BY <1>4, FS_CardinalityType, FS_EmptySet

(* The innermost frame becomes f.                                          *)
LEMMA TakenChanges ==
  ASSUME Framed, NEW t \in Threads, NEW f, Topped(t, f), NEW b
  PROVE  LET n == Len(frames[t])
         IN /\ n \in Taken(frames[t], b) <=> Enters(Top(t), b)
            /\ n \in Taken(frames'[t], b) <=> Enters(f, b)
            /\ Taken(frames'[t], b) \ {n} = Taken(frames[t], b) \ {n}
<1>1. /\ Top(t) = frames[t][Len(frames[t])] /\ Len(frames[t]) \in DOMAIN frames[t]
  BY TopProperties DEF Framed
<1> QED BY <1>1 DEF Topped, Taken

LEMMA EntriesAppended ==
  ASSUME NEW s \in Seq(Barriers), NEW x \in Barriers, NEW b
  PROVE  /\ Entries(Append(s, x), b) = IF x = b THEN Entries(s, b) \cup {Len(s) + 1} ELSE Entries(s, b)
         /\ Len(s) + 1 \notin Entries(s, b)
<1> DEFINE r == Append(s, x)
<1>1. /\ Len(s) \in Nat /\ DOMAIN s = 1 .. Len(s) /\ DOMAIN r = 1 .. Len(s) + 1
      /\ \A i \in 1 .. Len(s) : r[i] = s[i]
      /\ r[Len(s) + 1] = x
  BY Appended
<1> HIDE DEF r
<1>2. 1 .. Len(s) + 1 = 1 .. Len(s) \cup {Len(s) + 1} /\ Len(s) + 1 \notin 1 .. Len(s)
  BY <1>1
<1>3. Entries(r, b) = IF x = b THEN Entries(s, b) \cup {Len(s) + 1} ELSE Entries(s, b)
  BY <1>1, <1>2 DEF Entries
<1> QED BY <1>1, <1>2, <1>3 DEF Entries, r

LEMMA EntriesPopped ==
  ASSUME NEW s \in Seq(Barriers), s # <<>>, NEW b
  PROVE  /\ Entries(Front(s), b) = Entries(s, b) \ {Len(s)}
         /\ Len(s) \in Entries(s, b) <=> Last(s) = b
<1> DEFINE r == Front(s)
<1>1. /\ Len(s) \in Nat /\ Len(s) > 0 /\ DOMAIN s = 1 .. Len(s) /\ DOMAIN r = 1 .. Len(s) - 1
      /\ \A i \in 1 .. Len(s) - 1 : r[i] = s[i]
      /\ Last(s) = s[Len(s)]
  BY Popped
<1> HIDE DEF r
<1>2. 1 .. Len(s) - 1 = (1 .. Len(s)) \ {Len(s)} /\ Len(s) \in 1 .. Len(s)
  BY <1>1
<1>3. Entries(r, b) = Entries(s, b) \ {Len(s)}
  BY <1>1, <1>2 DEF Entries
<1> QED BY <1>1, <1>2, <1>3 DEF Entries, r

LEMMA RankedInit == BarriersInit => Ranked
<1> SUFFICES ASSUME BarriersInit PROVE Ranked
  OBVIOUS
<1>1. ASSUME NEW t \in Threads
      PROVE  stack[t] = <<>> /\ Top(t) = Frame("user")
  BY <1>1 DEF BarriersInit, Top, Last
<1>2. ASSUME NEW t \in Threads
      PROVE  DOMAIN stack[t] = {} /\ Top(t).want = None /\ Top(t).taken = FALSE
  BY <1>1, <1>2 DEF Frame
<1>3. Ascending
  BY <1>2 DEF Ascending
<1>4. ASSUME NEW t \in Threads, NEW b \in Barriers
      PROVE  ~Claims(frames[t], stack[t], b)
  <2>1. frames[t] = <<Frame("user")>>
    BY DEF BarriersInit
  <2>2. Taken(frames[t], b) = {}
    BY <2>1 DEF Taken, Enters, Frame
  <2> QED BY <1>2, <2>2 DEF Claims, Entries
<1>5. Truthful
  BY <1>4, BarriersAssumption DEF Truthful, BarriersInit
<1> QED BY <1>3, <1>5, FramedInit DEF Ranked

LEMMA QuietRanked ==
  ASSUME Ranked, Framed', Quiet
  PROVE  Ranked'
<1>1. Ascending'
  <2> SUFFICES ASSUME NEW t \in Threads
               PROVE  /\ \A i, j \in DOMAIN stack[t] : i < j => Below(stack[t][i], stack[t][j])
                      /\ Top(t)'.want # None =>
                           \A i \in DOMAIN stack[t] : Below(stack[t][i], Top(t)'.want)
    BY DEF Ascending, Quiet, Below
  <2>1. CASE stack[t] = <<>>
    BY <2>1
  <2>2. CASE stack[t] # <<>>
    BY <2>2 DEF Ranked, Ascending, Quiet
  <2> QED BY <2>1, <2>2
<1>2. ASSUME NEW t \in Threads, NEW b \in Barriers
      PROVE  /\ Claims(frames[t], stack[t], b)' <=> Claims(frames[t], stack[t], b)
             /\ Booked(frames[t], stack[t], b)' = Booked(frames[t], stack[t], b)
  <2>1. Taken(frames'[t], b) = Taken(frames[t], b) /\ stack'[t] = stack[t]
    BY DEF Quiet
  <2> QED BY <2>1 DEF Claims, Booked
<1>3. Truthful'
  BY <1>2 DEF Ranked, Truthful, Quiet
<1> QED BY <1>1, <1>3 DEF Ranked

(* A move of thread t: what to look at is its own stack, and the others    *)
(* for the one barrier whose mutex changes hands.                          *)
LEMMA MoveRanked ==
  ASSUME Ranked, Framed', NEW t \in Threads, Others(t),
         NEW f, f = Top(t)', NEW s, s = stack'[t], NEW fs, fs = frames'[t],
         \A i, j \in DOMAIN s : i < j => Below(s[i], s[j]),
         f.want # None => \A i \in DOMAIN s : Below(s[i], f.want),
         \A b \in Barriers :
           /\ owner'[b] = owner[b] \/ {owner[b], owner'[b]} \subseteq {None, t}
           /\ owner'[b] = None => depth'[b] = 0
           /\ owner'[b] = t <=> Claims(fs, s, b)
           /\ owner'[b] = t => depth'[b] = Booked(fs, s, b)
           /\ owner[b] # t => owner'[b] \in {owner[b], t} /\ (owner'[b] # t => depth'[b] = depth[b])
  PROVE  Ranked'
<1>1. \A u \in Threads \ {t} :
        Top(u)' = Top(u) /\ frames'[u] = frames[u] /\ stack'[u] = stack[u]
  BY DEF Others, Top
<1>2. Ascending'
  <2> SUFFICES ASSUME NEW u \in Threads
               PROVE  /\ \A i, j \in DOMAIN stack'[u] : i < j => Below(stack'[u][i], stack'[u][j])
                      /\ Top(u)'.want # None =>
                           \A i \in DOMAIN stack'[u] : Below(stack'[u][i], Top(u)'.want)
    BY DEF Ascending, Below
  <2>1. CASE u = t
    BY <2>1
  <2>2. CASE u # t
    BY <1>1, <2>2 DEF Ranked, Ascending
  <2> QED BY <2>1, <2>2
<1>3. Truthful'
  <2> SUFFICES ASSUME NEW b \in Barriers
               PROVE  /\ owner'[b] = None => depth'[b] = 0
                      /\ \A u \in Threads :
                           /\ owner'[b] = u <=> Claims(frames'[u], stack'[u], b)
                           /\ owner'[b] = u => depth'[b] = Booked(frames'[u], stack'[u], b)
    BY DEF Truthful, Claims, Booked, Entries, Taken, Enters
  <2> SUFFICES ASSUME NEW u \in Threads
               PROVE  /\ owner'[b] = u <=> Claims(frames'[u], stack'[u], b)
                      /\ owner'[b] = u => depth'[b] = Booked(frames'[u], stack'[u], b)
    OBVIOUS
  <2>1. CASE u = t
    BY <2>1
  <2>2. CASE u # t
    <3>1. /\ frames'[u] = frames[u] /\ stack'[u] = stack[u]
          /\ owner[b] = u <=> Claims(frames[u], stack[u], b)
          /\ owner[b] = u => depth[b] = Booked(frames[u], stack[u], b)
      BY <1>1, <2>2 DEF Ranked, Truthful
    <3>2. owner'[b] = u <=> owner[b] = u
      BY <2>2, BarriersAssumption
    <3>3. owner'[b] = u => depth'[b] = depth[b]
      BY <2>2, <3>2
    <3> QED BY <3>1, <3>2, <3>3
  <2> QED BY <2>1, <2>2
<1> QED BY <1>2, <1>3 DEF Ranked

LEMMA TopIsWhole ==
  ASSUME Framed, NEW t \in Threads
  PROVE  /\ stack[t] \in Seq(Barriers) /\ Top(t) \in Frames
         /\ DOMAIN stack[t] = 1 .. Len(stack[t]) /\ Len(stack[t]) \in Nat
         /\ Top(t).taken => Top(t).want # None
BY TopProperties, LenProperties DEF Framed, Innermost, Calls

LEMMA WantsRanked ==
  ASSUME Ranked, NEW t \in Threads, NEW b \in Barriers, Wants(t, b)
  PROVE  Ranked'
<1> DEFINE s == stack[t]
<1> DEFINE f == [Top(t) EXCEPT !.want = b]
<1>1. /\ Framed' /\ Others(t) /\ stack'[t] = s /\ Top(t)' = f /\ Topped(t, f)
      /\ UNCHANGED <<owner, depth>>
  BY WantsFramed DEF Ranked, Wants
<1>2. /\ s \in Seq(Barriers) /\ Top(t) \in Frames
      /\ DOMAIN s = 1 .. Len(s) /\ Len(s) \in Nat
      /\ Top(t).want = None /\ ~Top(t).taken
  BY TopIsWhole DEF Ranked, Wants, Idle
<1>3. f.want = b /\ ~f.taken
  BY <1>2 DEF Frames
<1>4. \A i, j \in DOMAIN s : i < j => Below(s[i], s[j])
  BY DEF Ranked, Ascending
<1>5. \A i \in DOMAIN s : Below(s[i], b)
  <2> SUFFICES ASSUME NEW i \in DOMAIN s PROVE Below(s[i], b)
    OBVIOUS
  <2>1. s # <<>> /\ Last(s) = s[Len(s)] /\ Len(s) \in DOMAIN s /\ Last(s) \in Barriers /\ s[i] \in Barriers
    BY <1>2, ElementOfSeq, EmptySeq DEF Last
  <2>2. Below(s[i], Last(s))
    BY <1>2, <1>4, <2>1 DEF Below
  <2>3. Below(Last(s), b)
    BY <2>1 DEF Wants, Allowed, Below
  <2>4. RankOf[s[i]] \in Int /\ RankOf[Last(s)] \in Int /\ RankOf[b] \in Int
    BY <2>1, BarriersAssumption
  <2> QED BY <2>2, <2>3, <2>4 DEF Below
<1>6. ASSUME NEW c \in Barriers
      PROVE  /\ owner[c] = None => depth[c] = 0
             /\ owner[c] = t <=> Claims(frames'[t], s, c)
             /\ owner[c] = t => depth[c] = Booked(frames'[t], s, c)
  <2>1. Taken(frames'[t], c) = Taken(frames[t], c)
    <3> HIDE DEF f
    <3> QED BY <1>1, <1>2, <1>3, TakenStays DEF Ranked
  <2> QED BY <2>1 DEF Ranked, Truthful, Claims, Booked
<1> HIDE DEF f, s
<1> QED BY <1>1, <1>3, <1>4, <1>5, <1>6, MoveRanked

(* Sets that agree but for an element neither has are one.                 *)
LEMMA SameWithout ==
  ASSUME NEW A, NEW B, NEW n, A \ {n} = B \ {n}, n \notin A, n \notin B
  PROVE  A = B
<1>1. A = A \ {n} /\ B = B \ {n}
  OBVIOUS
<1> QED BY <1>1

LEMMA TakeMutexRanked ==
  ASSUME Ranked, NEW t \in Threads, TakeMutex(t)
  PROVE  Ranked'
<1> DEFINE s == stack[t]
<1> DEFINE f == [Top(t) EXCEPT !.taken = TRUE]
<1> DEFINE b == Top(t).want
<1>1. /\ Framed' /\ Others(t) /\ stack'[t] = s /\ Top(t)' = f /\ Topped(t, f)
  BY TakeMutexFramed DEF Ranked
<1>2. /\ s \in Seq(Barriers) /\ Top(t) \in Frames /\ b \in Barriers /\ ~Top(t).taken
      /\ owner[b] \in {None, t}
  BY TopIsWhole DEF Ranked, TakeMutex, Frames
<1>3. f.want = b /\ f.taken
  BY <1>2 DEF Frames
<1>4. /\ \A i, j \in DOMAIN s : i < j => Below(s[i], s[j])
      /\ \A i \in DOMAIN s : Below(s[i], b)
  BY DEF Ranked, Ascending, TakeMutex
<1>5. /\ owner'[b] = t /\ depth'[b] = depth[b] + 1
      /\ \A c \in Barriers \ {b} : owner'[c] = owner[c] /\ depth'[c] = depth[c]
  BY <1>2 DEF TakeMutex, Ranked, Framed, Shape
<1>6. ASSUME NEW c \in Barriers
      PROVE  /\ owner[c] = None => depth[c] = 0
             /\ owner[c] = t <=> Claims(frames[t], s, c)
             /\ owner[c] = t => depth[c] = Booked(frames[t], s, c)
  BY DEF Ranked, Truthful
<1>7. ASSUME NEW c \in Barriers
      PROVE  /\ owner'[c] = None => depth'[c] = 0
             /\ owner'[c] = t <=> Claims(frames'[t], s, c)
             /\ owner'[c] = t => depth'[c] = Booked(frames'[t], s, c)
  <2> DEFINE n == Len(frames[t])
  <2>1. /\ Cardinality(Entries(s, c)) \in Nat
        /\ Cardinality(Entries(s, c)) = 0 <=> Entries(s, c) = {}
    BY <1>2, EntriesCount
  <2>2. /\ IsFiniteSet(Taken(frames[t], c)) /\ Cardinality(Taken(frames[t], c)) \in Nat
        /\ Cardinality(Taken(frames[t], c)) = 0 <=> Taken(frames[t], c) = {}
    BY TakenCount DEF Ranked
  <2>3. /\ n \in Taken(frames[t], c) <=> Enters(Top(t), c)
        /\ n \in Taken(frames'[t], c) <=> Enters(f, c)
        /\ Taken(frames'[t], c) \ {n} = Taken(frames[t], c) \ {n}
    <3> HIDE DEF f
    <3> QED BY <1>1, TakenChanges DEF Ranked
  <2>4. n \notin Taken(frames[t], c)
    BY <1>2, <2>3 DEF Enters
  <2>5. CASE c = b
    <3>7. Enters(f, c)
      BY <1>3, <2>5 DEF Enters
    <3>8. n \in Taken(frames'[t], c)
      BY <2>3, <3>7
    <3>1. Taken(frames'[t], c) = Taken(frames[t], c) \cup {n}
      BY <2>3, <2>4, <3>8
    <3>2. Cardinality(Taken(frames'[t], c)) = Cardinality(Taken(frames[t], c)) + 1
      BY <2>2, <2>4, <3>1, FS_AddElement
    <3>5. Claims(frames'[t], s, c)
      BY <3>1 DEF Claims
    <3>6. Booked(frames'[t], s, c) = Booked(frames[t], s, c) + 1
      BY <2>1, <2>2, <3>2 DEF Booked
    <3>3. Claims(frames'[t], s, c) /\ Booked(frames'[t], s, c) = Booked(frames[t], s, c) + 1
      BY <3>5, <3>6
    <3>4. depth[b] = Booked(frames[t], s, b)
      <4>1. CASE owner[b] = t
        BY <1>2, <1>6, <4>1
      <4>2. CASE owner[b] = None
        <5>1. ~Claims(frames[t], s, b) /\ depth[b] = 0
          BY <1>2, <1>6, <4>2, BarriersAssumption
        <5> QED BY <2>1, <2>2, <2>5, <5>1 DEF Claims, Booked
      <4> QED BY <1>2, <4>1, <4>2
    <3> QED BY <1>5, <2>5, <3>3, <3>4, BarriersAssumption
  <2>6. CASE c # b
    <3>1. ~Enters(f, c)
      BY <1>3, <2>6 DEF Enters
    <3>2. n \notin Taken(frames'[t], c)
      BY <2>3, <3>1
    <3>3. Taken(frames'[t], c) = Taken(frames[t], c)
      BY <2>3, <2>4, <3>2, SameWithout
    <3> QED BY <1>5, <1>6, <2>6, <3>3 DEF Claims, Booked
  <2> QED BY <2>5, <2>6
<1>8. ASSUME NEW c \in Barriers
      PROVE  /\ owner'[c] = owner[c] \/ {owner[c], owner'[c]} \subseteq {None, t}
             /\ owner[c] # t => owner'[c] \in {owner[c], t} /\ (owner'[c] # t => depth'[c] = depth[c])
  BY <1>2, <1>5
<1> HIDE DEF f, s, b
<1> QED BY <1>1, <1>3, <1>4, <1>7, <1>8, MoveRanked

LEMMA PushStackRanked ==
  ASSUME Ranked, NEW t \in Threads, PushStack(t)
  PROVE  Ranked'
<1> DEFINE b == Top(t).want
<1> DEFINE s == Append(stack[t], b)
<1> DEFINE n == Len(stack[t])
<1> DEFINE f == [Top(t) EXCEPT !.want = None, !.taken = FALSE, !.got = @ + 1]
<1>1. /\ Framed' /\ Others(t) /\ stack'[t] = s /\ Top(t)' = f /\ Topped(t, f)
      /\ UNCHANGED <<owner, depth>>
  BY PushStackFramed DEF Ranked, PushStack
<1>2. /\ stack[t] \in Seq(Barriers) /\ Top(t) \in Frames /\ b \in Barriers /\ Top(t).taken
      /\ DOMAIN stack[t] = 1 .. n /\ n \in Nat
  BY TopIsWhole DEF Ranked, PushStack, Frames
<1>3. f.want = None /\ ~f.taken
  BY <1>2 DEF Frames
<1>4. /\ \A i, j \in 1 .. n : i < j => Below(stack[t][i], stack[t][j])
      /\ \A i \in 1 .. n : Below(stack[t][i], b)
  <2>1. b # None
    BY <1>2, BarriersAssumption
  <2> QED BY <1>2, <2>1 DEF Ranked, Ascending
<1>5. /\ DOMAIN s = 1 .. n + 1 /\ s[n + 1] = b
      /\ \A i \in 1 .. n : s[i] = stack[t][i]
  BY <1>2, Appended
<1>6. \A c \in Barriers :
        /\ Entries(s, c) = IF c = b THEN Entries(stack[t], c) \cup {n + 1} ELSE Entries(stack[t], c)
        /\ n + 1 \notin Entries(stack[t], c)
  <2> SUFFICES ASSUME NEW c \in Barriers
               PROVE  /\ Entries(s, c) = IF c = b THEN Entries(stack[t], c) \cup {n + 1}
                                                  ELSE Entries(stack[t], c)
                      /\ n + 1 \notin Entries(stack[t], c)
    OBVIOUS
  <2> HIDE DEF b
  <2> QED BY <1>2, EntriesAppended
<1> HIDE DEF s
<1>7. \A i, j \in DOMAIN s : i < j => Below(s[i], s[j])
  <2> SUFFICES ASSUME NEW i \in 1 .. n + 1, NEW j \in 1 .. n + 1, i < j PROVE Below(s[i], s[j])
    BY <1>5
  <2>1. i \in 1 .. n /\ s[i] = stack[t][i]
    BY <1>2, <1>5
  <2>2. CASE j = n + 1
    BY <1>4, <1>5, <2>1, <2>2
  <2>3. CASE j \in 1 .. n
    BY <1>4, <1>5, <2>1, <2>3
  <2> QED BY <1>2, <2>2, <2>3
<1>8. ASSUME NEW c \in Barriers
      PROVE  /\ owner[c] = None => depth[c] = 0
             /\ owner[c] = t <=> Claims(frames'[t], s, c)
             /\ owner[c] = t => depth[c] = Booked(frames'[t], s, c)
  <2> DEFINE m == Len(frames[t])
  <2>1. /\ owner[c] = None => depth[c] = 0
        /\ owner[c] = t <=> Claims(frames[t], stack[t], c)
        /\ owner[c] = t => depth[c] = Booked(frames[t], stack[t], c)
    BY DEF Ranked, Truthful
  <2>2. /\ m \in Taken(frames[t], c) <=> c = b
        /\ m \notin Taken(frames'[t], c)
        /\ Taken(frames'[t], c) \ {m} = Taken(frames[t], c) \ {m}
    <3>1. ~Enters(f, c) /\ (Enters(Top(t), c) <=> c = b)
      BY <1>2, <1>3 DEF Enters
    <3> HIDE DEF f
    <3> QED BY <1>1, <3>1, TakenChanges DEF Ranked
  <2>3. IsFiniteSet(Entries(stack[t], c)) /\ Cardinality(Entries(stack[t], c)) \in Nat
    BY <1>2, EntriesCount
  <2>4. IsFiniteSet(Taken(frames[t], c)) /\ Cardinality(Taken(frames[t], c)) \in Nat
    BY TakenCount DEF Ranked
  <2>5. CASE c = b
    <3>1. /\ Entries(s, c) = Entries(stack[t], c) \cup {n + 1}
          /\ n + 1 \notin Entries(stack[t], c)
      BY <1>6, <2>5
    <3>2. Cardinality(Entries(s, c)) = Cardinality(Entries(stack[t], c)) + 1
      BY <2>3, <3>1, FS_AddElement
    <3>3. Taken(frames'[t], c) = Taken(frames[t], c) \ {m} /\ m \in Taken(frames[t], c)
      BY <2>2, <2>5
    <3>4. Cardinality(Taken(frames'[t], c)) = Cardinality(Taken(frames[t], c)) - 1
      BY <2>4, <3>3, FS_RemoveElement
    <3>5. /\ Claims(frames'[t], s, c) /\ Claims(frames[t], stack[t], c)
          /\ Booked(frames'[t], s, c) = Booked(frames[t], stack[t], c)
      BY <2>3, <2>4, <3>1, <3>2, <3>3, <3>4 DEF Claims, Booked
    <3> QED BY <2>1, <3>5
  <2>6. CASE c # b
    <3>1. Entries(s, c) = Entries(stack[t], c)
      BY <1>6, <2>6
    <3>2. Taken(frames'[t], c) = Taken(frames[t], c)
      <4>1. m \notin Taken(frames[t], c) /\ m \notin Taken(frames'[t], c)
        BY <2>2, <2>6
      <4> HIDE DEF m
      <4> QED BY <2>2, <4>1
    <3> QED BY <2>1, <3>1, <3>2 DEF Claims, Booked
  <2> QED BY <2>5, <2>6
<1> HIDE DEF f, b
<1> QED BY <1>1, <1>3, <1>7, <1>8, MoveRanked

LEMMA ReleaseRanked ==
  ASSUME Ranked, NEW t \in Threads, Release(t)
  PROVE  Ranked'
<1> DEFINE s == Front(stack[t])
<1> DEFINE n == Len(stack[t])
<1> DEFINE b == Last(stack[t])
<1> DEFINE f == Top(t)'
<1>1. /\ Framed' /\ Others(t) /\ stack'[t] = s /\ stack[t] # <<>>
      /\ f.want = None /\ ~f.taken /\ Topped(t, f)
  BY ReleaseFramed DEF Ranked
<1>2. stack[t] \in Seq(Barriers) /\ ~Top(t).taken
  BY TopIsWhole DEF Ranked, Release, Idle
<1>3. /\ b \in Barriers /\ n \in Nat /\ DOMAIN stack[t] = 1 .. n /\ DOMAIN s = 1 .. n - 1
      /\ \A i \in 1 .. n - 1 : s[i] = stack[t][i]
  BY <1>1, <1>2, Popped
<1>4. \A i, j \in DOMAIN s : i < j => Below(s[i], s[j])
  <2>1. \A i, j \in 1 .. n : i < j => Below(stack[t][i], stack[t][j])
    BY <1>3 DEF Ranked, Ascending
  <2>2. \A i \in 1 .. n - 1 : i \in 1 .. n
    BY <1>3
  <2> QED BY <1>3, <2>1, <2>2
<1>5. \A c \in Barriers :
        /\ Entries(s, c) = Entries(stack[t], c) \ {n}
        /\ n \in Entries(stack[t], c) <=> b = c
  BY <1>1, <1>2, EntriesPopped
<1>6. /\ depth'[b] = depth[b] - 1
      /\ owner'[b] = IF depth[b] = 1 THEN None ELSE t
      /\ \A c \in Barriers \ {b} : owner'[c] = owner[c] /\ depth'[c] = depth[c]
  BY <1>3 DEF Release, Ranked, Framed, Shape
<1>7. ASSUME NEW c \in Barriers
      PROVE  /\ owner[c] = None => depth[c] = 0
             /\ owner[c] = t <=> Claims(frames[t], stack[t], c)
             /\ owner[c] = t => depth[c] = Booked(frames[t], stack[t], c)
             /\ Taken(frames'[t], c) = Taken(frames[t], c)
  <2>1. Taken(frames'[t], c) = Taken(frames[t], c)
    <3> HIDE DEF f
    <3> QED BY <1>1, <1>2, TakenStays DEF Ranked
  <2> QED BY <2>1 DEF Ranked, Truthful
<1>8. owner[b] = t
  BY <1>3, <1>5, <1>7 DEF Claims
<1>9. ASSUME NEW c \in Barriers
      PROVE  /\ owner'[c] = None => depth'[c] = 0
             /\ owner'[c] = t <=> Claims(frames'[t], s, c)
             /\ owner'[c] = t => depth'[c] = Booked(frames'[t], s, c)
  <2>1. Taken(frames'[t], c) = Taken(frames[t], c)
    BY <1>7
  <2>2. /\ IsFiniteSet(Entries(stack[t], c)) /\ Cardinality(Entries(stack[t], c)) \in Nat
        /\ IsFiniteSet(Entries(s, c)) /\ Cardinality(Entries(s, c)) \in Nat
        /\ Cardinality(Entries(s, c)) = 0 <=> Entries(s, c) = {}
    <3>1. s \in Seq(Barriers)
      BY <1>1, <1>2, Popped
    <3> QED BY <1>2, <3>1, EntriesCount
  <2>3. /\ Cardinality(Taken(frames[t], c)) \in Nat
        /\ Cardinality(Taken(frames[t], c)) = 0 <=> Taken(frames[t], c) = {}
    BY TakenCount DEF Ranked
  <2>4. CASE c = b
    <3>1. Entries(s, c) = Entries(stack[t], c) \ {n} /\ n \in Entries(stack[t], c)
      BY <1>5, <2>4
    <3>2. Cardinality(Entries(s, c)) = Cardinality(Entries(stack[t], c)) - 1
      BY <2>2, <3>1, FS_RemoveElement
    <3>3. depth[b] = Booked(frames[t], stack[t], b)
      BY <1>3, <1>7, <1>8
    <3>4. depth'[b] = Booked(frames'[t], s, b) /\ Booked(frames'[t], s, b) \in Nat
      BY <1>6, <2>1, <2>2, <2>3, <2>4, <3>2, <3>3 DEF Booked
    <3>5. Claims(frames'[t], s, b) <=> Booked(frames'[t], s, b) # 0
      BY <2>1, <2>2, <2>3, <2>4 DEF Claims, Booked
    <3>6. t # None
      BY BarriersAssumption
    <3>7. CASE depth[b] = 1
      <4>1. owner'[b] = None /\ depth'[b] = 0 /\ ~Claims(frames'[t], s, b)
        BY <1>6, <3>4, <3>5, <3>7
      <4> QED BY <2>4, <3>6, <4>1
    <3>8. CASE depth[b] # 1
      <4>1. depth[b] \in Int
        BY <1>3 DEF Ranked, Framed, Shape
      <4>2. depth'[b] # 0
        BY <1>6, <3>8, <4>1
      <4>3. owner'[b] = t /\ Claims(frames'[t], s, b)
        BY <1>6, <3>4, <3>5, <3>8, <4>2
      <4> QED BY <2>4, <3>4, <3>6, <4>3
    <3> QED BY <3>7, <3>8
  <2>5. CASE c # b
    <3>1. Entries(s, c) = Entries(stack[t], c)
      BY <1>5, <2>5
    <3> QED BY <1>6, <1>7, <2>1, <2>5, <3>1 DEF Claims, Booked
  <2> QED BY <2>4, <2>5
<1>10. ASSUME NEW c \in Barriers
      PROVE  /\ owner'[c] = owner[c] \/ {owner[c], owner'[c]} \subseteq {None, t}
             /\ owner[c] # t => owner'[c] \in {owner[c], t} /\ (owner'[c] # t => depth'[c] = depth[c])
  BY <1>6, <1>8
<1> HIDE DEF f, s, b
<1> QED BY <1>1, <1>4, <1>9, <1>10, MoveRanked DEF f

LEMMA RankedStep ==
  ASSUME Ranked, [BarriersNext]_barriersVars
  PROVE  Ranked'
<1>1. Framed' /\ (Quiet \/ \E t \in Threads : Moves(t))
  BY StepFramed DEF Ranked
<1>2. ASSUME NEW t \in Threads, Moves(t) PROVE Ranked'
  BY <1>2, WantsRanked, TakeMutexRanked, PushStackRanked, ReleaseRanked DEF Moves
<1> QED BY <1>1, <1>2, QuietRanked

(* Of the steady threads that wait for one another, one wants a barrier of *)
(* the greatest rank; the thread inside that barrier has it on its stack,  *)
(* and waits for nothing above.                                            *)
LEMMA RankedNoCycle == Ranked => CyclesNeedTheWindow
<1> SUFFICES ASSUME Ranked, NEW waiting \in SUBSET {t \in Threads : Steady(t)}, waiting # {},
                    \A t \in waiting : \E u \in waiting : BlockedBy(t, u)
             PROVE  FALSE
  <2>1. \A W \in (SUBSET {t \in Threads : Steady(t)}) \ {{}} :
          W \in SUBSET {t \in Threads : Steady(t)} /\ W # {}
    OBVIOUS
  <2> QED BY <2>1 DEF CyclesNeedTheWindow
<1>1. ASSUME NEW t \in waiting
      PROVE  /\ Top(t).want \in Barriers /\ ~Top(t).taken /\ RankOf[Top(t).want] \in 0 .. 5
             /\ owner[Top(t).want] # t
  <2>1. Top(t) \in Frames /\ Top(t).want # None
    BY TopIsWhole DEF Ranked, BlockedBy
  <2>2. Top(t).want \in Barriers
    BY <2>1 DEF Frames
  <2> QED BY <2>2, BarriersAssumption DEF BlockedBy
<1> DEFINE R(t) == RankOf[Top(t).want]
<1>2. ASSUME NEW t \in waiting
      PROVE  \E u \in waiting : R(u) > R(t)
  <2>1. PICK u \in waiting : BlockedBy(t, u)
    OBVIOUS
  <2>2. owner[Top(t).want] = u /\ Top(t).want \in Barriers /\ u \in Threads
    BY <1>1, <2>1 DEF BlockedBy
  <2>3. Claims(frames[u], stack[u], Top(t).want)
    BY <2>2 DEF Ranked, Truthful
  <2>7. Taken(frames[u], Top(t).want) = {}
    <3> DEFINE n == Len(frames[u])
    <3>1. n \in Nat /\ n > 0 /\ DOMAIN frames[u] = 1 .. n /\ Top(u) = frames[u][n]
      BY <2>2, TopProperties DEF Ranked, Framed
    <3>2. \A i \in 1 .. n : i = n \/ i \in 1 .. n - 1
      BY <3>1
    <3>3. \A i \in 1 .. n - 1 : ~frames[u][i].taken
      BY DEF Steady
    <3>4. ~frames[u][n].taken
      BY <1>1, <3>1
    <3> QED BY <3>1, <3>2, <3>3, <3>4 DEF Taken, Enters
  <2>4. PICK i \in DOMAIN stack[u] : stack[u][i] = Top(t).want
    BY <2>3, <2>7 DEF Claims, Entries
  <2>5. Below(Top(t).want, Top(u).want)
    <3>1. Top(u).want # None
      BY <1>1, BarriersAssumption
    <3> QED BY <2>2, <2>4, <3>1 DEF Ranked, Ascending
  <2>6. Top(t).want # Top(u).want
    BY <1>1, <2>2
  <2> QED BY <1>1, <2>5, <2>6 DEF Below
<1>3. \A t \in waiting : R(t) \in 0 .. 5
  BY <1>1
<1> HIDE DEF R
<1>4. ASSUME NEW k \in 0 .. 5, \A t \in waiting : R(t) <= k
      PROVE  \A t \in waiting : R(t) <= k - 1
  <2> SUFFICES ASSUME NEW t \in waiting PROVE R(t) <= k - 1
    OBVIOUS
  <2>1. PICK u \in waiting : R(u) > R(t)
    BY <1>2
  <2>2. R(u) <= k
    BY <1>4
  <2>3. R(u) \in 0 .. 5 /\ R(t) \in 0 .. 5
    BY <1>3
  <2> QED BY <2>1, <2>2, <2>3
<1>5. \A t \in waiting : R(t) <= 5
  BY <1>3
<1>6. \A t \in waiting : R(t) <= 5 - 1
  BY <1>4, <1>5
<1>7. \A t \in waiting : R(t) <= 4 - 1
  BY <1>4, <1>6
<1>8. \A t \in waiting : R(t) <= 3 - 1
  BY <1>4, <1>7
<1>9. \A t \in waiting : R(t) <= 2 - 1
  BY <1>4, <1>8
<1>10. \A t \in waiting : R(t) <= 1 - 1
  BY <1>4, <1>9
<1>11. \A t \in waiting : R(t) <= 0 - 1
  BY <1>4, <1>10
<1> QED BY <1>3, <1>11

LEMMA FramedDeferred == Framed => CleanupsAreDeferred
<1> SUFFICES ASSUME Framed, NEW t \in Threads,
                    NEW i \in DOMAIN frames[t], NEW j \in DOMAIN frames[t], i < j
             PROVE  /\ frames[t][i].got = 0
                    /\ Drains(frames[t][i]) => frames[t][j].drain = "no"
  BY DEF CleanupsAreDeferred, Drains
<1>1. Len(frames[t]) \in Nat /\ DOMAIN frames[t] = 1 .. Len(frames[t])
  BY TopProperties DEF Framed
<1>2. i # Len(frames[t])
  BY <1>1
<1> QED BY <1>2 DEF Framed, Innermost, Calls

-----------------------------------------------------------------------------
(* Every set of threads that wait for one another has a member that was    *)
(* interrupted between the grant of a mutex and its entry on the stack     *)
(* (locks.py:68), for any threads, barriers, ranks and finalizers, and     *)
(* wherever the collector runs.                                            *)
THEOREM RanksPreventCycles == BarriersSpec => []CyclesNeedTheWindow
<1>1. BarriersInit => Ranked
  BY RankedInit
<1>2. Ranked /\ [BarriersNext]_barriersVars => Ranked'
  BY RankedStep
<1>3. Ranked => CyclesNeedTheWindow
  BY RankedNoCycle
<1> QED BY <1>1, <1>2, <1>3, PTL DEF BarriersSpec

(* A finalizer starts under no barrier that its thread's stack names       *)
(* (locks.py:21), and no drain starts under another (locks.py:33), for     *)
(* every size and wherever the collector runs.                             *)
THEOREM FinalizersAreDeferred == BarriersSpec => []CleanupsAreDeferred
<1>1. BarriersInit => Framed
  BY FramedInit
<1>2. Framed /\ [BarriersNext]_barriersVars => Framed'
  BY StepFramed
<1>3. Framed => CleanupsAreDeferred
  BY FramedDeferred
<1> QED BY <1>1, <1>2, <1>3, PTL DEF BarriersSpec

-----------------------------------------------------------------------------
(* The registries of handles whose finalizers are deferred this way.       *)
CONSTANTS Handles, Addresses, Guarded

VARIABLES inside, pending, life, at, registry

H == INSTANCE Handles

(* The shape of the variables, and that a handle was born at an address.   *)
Registries ==
  /\ inside \in [Threads -> BOOLEAN]
  /\ pending \in [Threads -> Seq(Handles)]
  /\ life \in [Handles -> {"unborn", "live", "dead"}]
  /\ at \in [Handles -> Addresses \cup {None}]
  /\ registry \in [Addresses -> Handles \cup {None}]
  /\ \A h \in Handles : life[h] # "unborn" => at[h] \in Addresses

(* A finalizer is owed only for a handle that died.                        *)
OwedAreDead ==
  \A t \in Threads : \A i \in DOMAIN pending[t] : life[pending[t][i]] = "dead"

(* The entry at an address names a handle that was born there.             *)
EntriesAreBorn ==
  \A h \in Handles, a \in Addresses : registry[a] = h => life[h] # "unborn" /\ at[h] = a

Registered == Registries /\ OwedAreDead /\ EntriesAreBorn /\ H!DeadAreForgotten

-----------------------------------------------------------------------------
LEMMA RegisteredInit == None \notin Handles /\ H!Init => Registered
BY DEF H!Init, Registered, Registries, OwedAreDead, EntriesAreBorn, H!DeadAreForgotten

(* A finalizer leaves the entries of all handles but its own as they were, *)
(* or removes them: nothing is ever registered by one.                     *)
LEMMA RemovedProperties ==
  ASSUME None \notin Handles, Registries, NEW h \in Handles, life[h] # "unborn"
  PROVE  /\ H!Removed(h) \in [Addresses -> Handles \cup {None}]
         /\ \A a \in Addresses : H!Removed(h)[a] \in {registry[a], None}
         /\ H!Removed(h)[at[h]] # h
         /\ Guarded /\ registry[at[h]] # h => H!Removed(h) = registry
         /\ \A a \in Addresses : a # at[h] => H!Removed(h)[a] = registry[a]
BY DEF H!Removed, Registries

LEMMA RegisteredStep == None \notin Handles /\ Registered /\ [H!Next]_(H!vars) => Registered'
<1> SUFFICES ASSUME None \notin Handles, Registered, [H!Next]_(H!vars)
             PROVE  Registered'
  OBVIOUS
<1> USE DEF Registered
<1>1. ASSUME NEW t \in Threads, H!Enter(t) \/ H!Leave(t)
      PROVE  Registered'
  <2>1. UNCHANGED <<pending, life, at, registry>> /\ inside' \in [Threads -> BOOLEAN]
    BY <1>1 DEF H!Enter, H!Leave, Registries
  <2>2. Registries'
    BY <2>1 DEF Registries
  <2> QED BY <2>1, <2>2 DEF OwedAreDead, EntriesAreBorn, H!DeadAreForgotten
<1>2. ASSUME NEW t \in Threads, NEW h \in Handles, NEW a \in Addresses, H!Create(t, h, a)
      PROVE  Registered'
  <2>1. Registries'
    BY <1>2 DEF H!Create, Registries
  <2>2. OwedAreDead'
    <3> SUFFICES ASSUME NEW u \in Threads, NEW i \in DOMAIN pending[u]
                 PROVE  life'[pending[u][i]] = "dead"
      BY <1>2 DEF H!Create, OwedAreDead
    <3>1. life[pending[u][i]] = "dead"
      BY DEF OwedAreDead
    <3>2. pending[u][i] # h
      BY <1>2, <3>1 DEF H!Create
    <3> QED BY <1>2, <3>1, <3>2 DEF H!Create, Registries
  <2>3. EntriesAreBorn'
    BY <1>2 DEF H!Create, Registries, EntriesAreBorn
  <2>4. H!DeadAreForgotten'
    BY <1>2 DEF H!Create, Registries, EntriesAreBorn, H!DeadAreForgotten
  <2> QED BY <2>1, <2>2, <2>3, <2>4
<1>3. ASSUME NEW t \in Threads, NEW h \in Handles, H!Die(t, h)
      PROVE  Registered'
  <2>1. /\ Registries /\ life[h] = "live" /\ at' = at /\ inside' = inside
      /\ life' = [life EXCEPT ![h] = "dead"]
    BY <1>3 DEF H!Die
  <2>2. CASE inside[t] \/ H!Draining(t)
    <3>1. pending' = [pending EXCEPT ![t] = Append(@, h)] /\ registry' = registry
      BY <1>3, <2>2 DEF H!Die
    <3>2. /\ Append(pending[t], h) \in Seq(Handles)
          /\ DOMAIN Append(pending[t], h) = DOMAIN pending[t] \cup {Len(pending[t]) + 1}
          /\ \A i \in DOMAIN pending[t] : Append(pending[t], h)[i] = pending[t][i]
          /\ Append(pending[t], h)[Len(pending[t]) + 1] = h
      BY <2>1, Appended DEF Registries
    <3>3. Registries'
      BY <2>1, <3>1, <3>2 DEF Registries
    <3>4. \A u \in Threads : \A i \in DOMAIN pending[u] :
            i \in DOMAIN pending'[u] /\ pending'[u][i] = pending[u][i]
      BY <2>1, <3>1, <3>2 DEF Registries
    <3>5. \A u \in Threads : \A i \in DOMAIN pending'[u] :
            pending'[u][i] = h \/ (i \in DOMAIN pending[u] /\ pending'[u][i] = pending[u][i])
      BY <2>1, <3>1, <3>2 DEF Registries
    <3>6. OwedAreDead'
      BY <2>1, <3>3, <3>5 DEF OwedAreDead, Registries
    <3>7. EntriesAreBorn'
      BY <2>1, <3>1 DEF EntriesAreBorn, Registries
    <3>8. H!DeadAreForgotten'
      <4> SUFFICES ASSUME NEW g \in Handles, life'[g] = "dead", registry[at[g]] = g
                   PROVE  \E u \in Threads : \E i \in DOMAIN pending'[u] : pending'[u][i] = g
        BY <2>1, <3>1 DEF H!DeadAreForgotten
      <4>1. CASE g = h
        <5>1. pending'[t] = Append(pending[t], h)
          BY <2>1, <3>1 DEF Registries
        <5> QED BY <4>1, <5>1, <3>2
      <4>2. CASE g # h
        <5>1. life[g] = "dead"
          BY <4>2, <2>1 DEF Registries
        <5> QED BY <5>1, <3>4 DEF H!DeadAreForgotten
      <4> QED BY <4>1, <4>2
    <3> QED BY <3>3, <3>6, <3>7, <3>8
  <2>3. CASE ~(inside[t] \/ H!Draining(t))
    <3>1. pending' = pending /\ registry' = H!Removed(h)
      BY <1>3, <2>3 DEF H!Die
    <3>2. /\ H!Removed(h) \in [Addresses -> Handles \cup {None}]
          /\ \A a \in Addresses : H!Removed(h)[a] \in {registry[a], None}
          /\ H!Removed(h)[at[h]] # h
      BY <2>1, RemovedProperties
    <3>3. Registries'
      BY <2>1, <3>1, <3>2 DEF Registries
    <3>4. OwedAreDead'
      BY <2>1, <3>1 DEF OwedAreDead, Registries
    <3>5. EntriesAreBorn'
      BY <2>1, <3>1, <3>2 DEF EntriesAreBorn, Registries
    <3>6. H!DeadAreForgotten'
      BY <2>1, <3>1, <3>2 DEF H!DeadAreForgotten, Registries
    <3> QED BY <3>3, <3>4, <3>5, <3>6
  <2> QED BY <2>2, <2>3
<1>4. ASSUME NEW t \in Threads, H!Drain(t)
      PROVE  Registered'
  <2> DEFINE h == Last(pending[t])
  <2>1. pending[t] \in Seq(Handles) /\ pending[t] # <<>> /\ Registries
    BY <1>4 DEF H!Drain, H!Draining, Registries
  <2>2. /\ h \in Handles /\ Front(pending[t]) \in Seq(Handles)
        /\ h = pending[t][Len(pending[t])] /\ Len(pending[t]) \in DOMAIN pending[t]
        /\ \A i \in DOMAIN Front(pending[t]) :
             i \in DOMAIN pending[t] /\ Front(pending[t])[i] = pending[t][i]
        /\ \A i \in DOMAIN pending[t] : i # Len(pending[t]) => i \in DOMAIN Front(pending[t])
    BY <2>1, Popped
  <2>3. life[h] = "dead"
    BY <2>2 DEF OwedAreDead
  <2>4. /\ H!Removed(h) \in [Addresses -> Handles \cup {None}]
        /\ \A a \in Addresses : H!Removed(h)[a] \in {registry[a], None}
        /\ H!Removed(h)[at[h]] # h
    BY <2>1, <2>2, <2>3, RemovedProperties
  <2>5. /\ registry' = H!Removed(h) /\ pending' = [pending EXCEPT ![t] = Front(@)]
        /\ inside' = inside /\ life' = life /\ at' = at
    BY <1>4 DEF H!Drain, H!Last, H!Front, Last, Front
  <2> HIDE DEF h
  <2>6. Registries'
    BY <2>1, <2>2, <2>4, <2>5 DEF Registries
  <2>7. \A u \in Threads : \A i \in DOMAIN pending'[u] :
          i \in DOMAIN pending[u] /\ pending'[u][i] = pending[u][i]
    BY <2>1, <2>2, <2>5 DEF Registries
  <2>8. OwedAreDead'
    BY <2>5, <2>7 DEF OwedAreDead
  <2>9. EntriesAreBorn'
    BY <2>1, <2>4, <2>5 DEF EntriesAreBorn, Registries
  <2>10. H!DeadAreForgotten'
    <3> SUFFICES ASSUME NEW g \in Handles, life[g] = "dead", H!Removed(h)[at[g]] = g
                 PROVE  \E u \in Threads : \E i \in DOMAIN pending'[u] : pending'[u][i] = g
      BY <2>5 DEF H!DeadAreForgotten
    <3>1. g # h
      BY <2>4
    <3>2. at[g] \in Addresses /\ registry[at[g]] = g
      BY <2>1, <2>4 DEF Registries
    <3>3. PICK u \in Threads : \E i \in DOMAIN pending[u] : pending[u][i] = g
      BY <3>2 DEF H!DeadAreForgotten
    <3>4. PICK i \in DOMAIN pending[u] : pending[u][i] = g
      BY <3>3
    <3>5. i \in DOMAIN pending'[u] /\ pending'[u][i] = g
      <4>1. CASE u = t
        <5>1. i # Len(pending[t]) /\ pending'[t] = Front(pending[t])
          BY <2>1, <2>2, <2>5, <3>1, <3>4, <4>1 DEF Registries
        <5> QED BY <2>2, <3>4, <4>1, <5>1
      <4>2. CASE u # t
        BY <2>1, <2>5, <3>4, <4>2 DEF Registries
      <4> QED BY <4>1, <4>2
    <3> QED BY <3>5
  <2> QED BY <2>6, <2>8, <2>9, <2>10
<1>5. CASE UNCHANGED H!vars
  BY <1>5 DEF H!vars, Registries, OwedAreDead, EntriesAreBorn, H!DeadAreForgotten
<1> QED BY <1>1, <1>2, <1>3, <1>4, <1>5 DEF H!Next

(* Whether finalizers ask or not, the entry of a handle that died is owed  *)
(* a finalizer by some thread: no registration is leaked.                  *)
THEOREM NothingIsLeaked == None \notin Handles => (H!Spec => []H!DeadAreForgotten)
<1> SUFFICES ASSUME None \notin Handles
             PROVE  H!Spec => []H!DeadAreForgotten
  OBVIOUS
<1>1. H!Init => Registered
  BY RegisteredInit
<1>2. Registered /\ [H!Next]_(H!vars) => Registered'
  BY RegisteredStep
<1>3. Registered => H!DeadAreForgotten
  BY DEF Registered
<1> QED BY <1>1, <1>2, <1>3, PTL DEF H!Spec

-----------------------------------------------------------------------------
LEMMA LiveStep ==
  Guarded /\ None \notin Handles /\ Registered /\ H!LiveStaysRegistered /\ [H!Next]_(H!vars)
    => H!LiveStaysRegistered'
<1> SUFFICES ASSUME Guarded, None \notin Handles, Registered, H!LiveStaysRegistered, [H!Next]_(H!vars)
             PROVE  H!LiveStaysRegistered'
  OBVIOUS
<1>0. Registries
  BY DEF Registered
<1>1. ASSUME NEW t \in Threads, H!Enter(t) \/ H!Leave(t)
      PROVE  H!LiveStaysRegistered'
  BY <1>1 DEF H!Enter, H!Leave, H!LiveStaysRegistered
<1>2. ASSUME NEW t \in Threads, NEW h \in Handles, NEW a \in Addresses, H!Create(t, h, a)
      PROVE  H!LiveStaysRegistered'
  BY <1>0, <1>2 DEF H!Create, H!LiveStaysRegistered, Registries
<1>3. ASSUME NEW h \in Handles, NEW g \in Handles, life[h] = "dead" \/ (life[h] = "live" /\ g # h),
             life[g] = "live"
      PROVE  H!Removed(h)[at[g]] = g
  <2>1. at[g] \in Addresses /\ registry[at[g]] = g
    BY <1>0, <1>3 DEF Registries, H!LiveStaysRegistered
  <2>2. CASE registry[at[h]] = h
    <3>1. at[h] # at[g]
      BY <1>3, <2>1, <2>2
    <3> QED BY <1>0, <1>3, <2>1, <3>1, RemovedProperties
  <2>3. CASE registry[at[h]] # h
    BY <1>0, <1>3, <2>1, <2>3, RemovedProperties
  <2> QED BY <2>2, <2>3
<1>4. ASSUME NEW t \in Threads, NEW h \in Handles, H!Die(t, h)
      PROVE  H!LiveStaysRegistered'
  <2> SUFFICES ASSUME NEW g \in Handles, life'[g] = "live"
               PROVE  registry'[at'[g]] = g
    BY DEF H!LiveStaysRegistered
  <2>1. life[h] = "live" /\ g # h /\ life[g] = "live" /\ at' = at
    BY <1>0, <1>4 DEF H!Die, Registries
  <2>2. registry' \in {registry, H!Removed(h)}
    BY <1>4 DEF H!Die
  <2> QED BY <1>3, <2>1, <2>2 DEF H!LiveStaysRegistered
<1>5. ASSUME NEW t \in Threads, H!Drain(t)
      PROVE  H!LiveStaysRegistered'
  <2> SUFFICES ASSUME NEW g \in Handles, life[g] = "live"
               PROVE  H!Removed(Last(pending[t]))[at[g]] = g
    BY <1>5 DEF H!LiveStaysRegistered, H!Drain, H!Last, Last
  <2>1. pending[t] \in Seq(Handles) /\ pending[t] # <<>>
    BY <1>0, <1>5 DEF H!Drain, H!Draining, Registries
  <2>2. /\ Last(pending[t]) \in Handles /\ Last(pending[t]) = pending[t][Len(pending[t])]
        /\ Len(pending[t]) \in DOMAIN pending[t]
    <3>1. Len(pending[t]) \in 1 .. Len(pending[t]) /\ DOMAIN pending[t] = 1 .. Len(pending[t])
      BY <2>1, Popped
    <3> QED BY <2>1, <3>1, Popped
  <2>3. life[Last(pending[t])] = "dead"
    BY <2>2 DEF Registered, OwedAreDead
  <2> QED BY <1>3, <2>2, <2>3
<1>6. CASE UNCHANGED H!vars
  BY <1>6 DEF H!vars, H!LiveStaysRegistered
<1> QED BY <1>1, <1>2, <1>4, <1>5, <1>6 DEF H!Next

(* A finalizer that asks before it removes never takes the registration of *)
(* a live handle, however late it runs and whoever has its address by then.*)
THEOREM LiveHandlesStay == Guarded /\ None \notin Handles => (H!Spec => []H!LiveStaysRegistered)
<1> SUFFICES ASSUME Guarded, None \notin Handles
             PROVE  H!Spec => []H!LiveStaysRegistered
  OBVIOUS
<1> DEFINE Inv == Registered /\ H!LiveStaysRegistered
<1>1. H!Init => Inv
  BY RegisteredInit DEF H!Init, H!LiveStaysRegistered
<1>2. Inv /\ [H!Next]_(H!vars) => Inv'
  BY RegisteredStep, LiveStep
<1>3. Inv => H!LiveStaysRegistered
  OBVIOUS
<1> QED BY <1>1, <1>2, <1>3, PTL DEF H!Spec

-----------------------------------------------------------------------------
(* Graphs.                                                                 *)
Pairs(links) == \A l \in links : l \subseteq Cells

LEMMA ComponentContains ==
  ASSUME NEW c \in Cells, NEW links
  PROVE  c \in Component(c, links) /\ Component(c, links) \subseteq Cells
BY DEF Component

LEMMA ComponentIsLeast ==
  ASSUME NEW c, NEW links, NEW T \in SUBSET Cells, c \in T, Closed(T, links)
  PROVE  Component(c, links) \subseteq T
BY DEF Component

LEMMA ComponentCloses ==
  ASSUME NEW c \in Cells, NEW links, Pairs(links)
  PROVE  Closed(Component(c, links), links)
<1> SUFFICES ASSUME NEW l \in links, l \cap Component(c, links) # {}, NEW e \in l,
                    NEW T \in SUBSET Cells, c \in T, Closed(T, links)
             PROVE  e \in T
  BY DEF Closed, Component, Pairs
<1> QED BY ComponentIsLeast DEF Closed

(* Components are the same or have nothing in common.                      *)
LEMMA ComponentsAreDisjoint ==
  ASSUME NEW c \in Cells, NEW d \in Cells, NEW links, Pairs(links),
         Component(c, links) \cap Component(d, links) # {}
  PROVE  Component(c, links) = Component(d, links)
<1> DEFINE C == Component(c, links)
           D == Component(d, links)
<1>1. /\ C \subseteq Cells /\ D \subseteq Cells /\ c \in C /\ d \in D
      /\ Closed(C, links) /\ Closed(D, links)
  BY ComponentContains, ComponentCloses
<1>2. Closed(Cells \ C, links) /\ Closed(Cells \ D, links)
  BY <1>1 DEF Closed, Pairs
<1>3. c \in D
  BY <1>1, <1>2, ComponentIsLeast
<1>4. d \in C
  BY <1>1, <1>2, ComponentIsLeast
<1> QED BY <1>1, <1>3, <1>4, ComponentIsLeast

(* What connects a set.                                                    *)
Spans(c, S, links) ==
  \A T \in SUBSET Cells : c \in T /\ Closed(T, {l \in links : l \subseteq S}) => S \subseteq T

LEMMA ConnectedSpans ==
  ASSUME NEW S \in SUBSET Cells, NEW links
  PROVE  Connected(S, links) <=> \E c \in S : Spans(c, S, links)
<1> DEFINE L == {l \in links : l \subseteq S}
<1>1. ASSUME NEW c \in S, Component(c, L) = S
      PROVE  Spans(c, S, links)
  BY <1>1, ComponentIsLeast DEF Spans
<1>2. ASSUME NEW c \in S, Spans(c, S, links)
      PROVE  Component(c, L) = S
  <2>1. Closed(S, L)
    BY DEF Closed
  <2>2. Component(c, L) \subseteq S
    BY <2>1, ComponentIsLeast
  <2> QED BY <1>2, <2>2 DEF Component, Spans
<1> QED BY <1>1, <1>2 DEF Connected

LEMMA ConnectedWithMore ==
  ASSUME NEW S \in SUBSET Cells, NEW links, NEW more, links \subseteq more,
         Connected(S, links)
  PROVE  Connected(S, more)
<1>1. PICK c \in S : Spans(c, S, links)
  BY ConnectedSpans
<1>2. Spans(c, S, more)
  BY <1>1 DEF Spans, Closed
<1> QED BY <1>2, ConnectedSpans

LEMMA ConnectedByOneMore ==
  ASSUME NEW S \in SUBSET Cells, NEW links, NEW e \in Cells, NEW m \in S,
         {e, m} \in links, Connected(S, links)
  PROVE  Connected(S \cup {e}, links)
<1> DEFINE R == S \cup {e}
<1>1. PICK c \in S : Spans(c, S, links)
  BY ConnectedSpans
<1>2. ASSUME NEW T \in SUBSET Cells, c \in T, Closed(T, {l \in links : l \subseteq R})
      PROVE  R \subseteq T
  <2>1. Closed(T, {l \in links : l \subseteq S})
    BY <1>2 DEF Closed
  <2>2. S \subseteq T
    BY <1>1, <1>2, <2>1 DEF Spans
  <2>3. {e, m} \subseteq R /\ {e, m} \cap T # {}
    BY <2>2
  <2>4. e \in T
    BY <1>2, <2>3 DEF Closed
  <2> QED BY <2>2, <2>4
<1>3. Spans(c, R, links)
  BY <1>2 DEF Spans
<1> QED BY <1>3, ConnectedSpans

LEMMA ComponentIsConnected ==
  ASSUME NEW c \in Cells, NEW links, Pairs(links)
  PROVE  Connected(Component(c, links), links)
<1> DEFINE S == Component(c, links)
<1>1. c \in S /\ S \subseteq Cells /\ Closed(S, links)
  BY ComponentContains, ComponentCloses
<1>2. ASSUME NEW T \in SUBSET Cells, c \in T, Closed(T, {l \in links : l \subseteq S})
      PROVE  S \subseteq T
  <2>1. Closed(T \cap S, links)
    BY <1>1, <1>2 DEF Closed
  <2> QED BY <1>1, <1>2, <2>1, ComponentIsLeast
<1>3. Spans(c, S, links)
  BY <1>2 DEF Spans
<1> QED BY <1>1, <1>3, ConnectedSpans

-----------------------------------------------------------------------------
(* Assemblies, planned against the network of the tick.                    *)
Shaped(S, links) ==
  Sized(S) /\ S \in Compact /\ S \subseteq net.cells /\ Connected(S, links)

Distinct(live) == \A a, b \in DOMAIN live : live[a] = live[b] => a = b
Spread(live)   == \A c \in Cells : Cardinality(Holding(live, c)) <= MMax

Fit(live, links) ==
  /\ DOMAIN live \subseteq DOMAIN net.assemblies
  /\ \A a \in DOMAIN live : Shaped(live[a], links)
  /\ Distinct(live) /\ Spread(live)

(* What every state has (Savable, Loadable and the derived indexes).       *)
Indexed ==
  /\ net.incoming = DOMAIN net.edges /\ net.memberships = Memberships(net.assemblies)
  /\ net.index = ById(net.assemblies) /\ net = [x \in DOMAIN net |-> net[x]]

CoreInductive == Savable(net, window, root) /\ Loadable(net) /\ Indexed

LEMMA FiniteParts ==
  ASSUME CoreInductive
  PROVE  /\ IsFiniteSet(DOMAIN net.assemblies) /\ IsFiniteSet(Keys) /\ IsFiniteSet(net.cells)
         /\ net.nextId \in Nat /\ DOMAIN net.assemblies \subseteq Nat /\ net.cells \subseteq Cells
         /\ \A S \in SUBSET Cells : IsFiniteSet(S)
         /\ \A T : T \subseteq Keys => IsFiniteSet(T)
<1>1. /\ net.nextId \in Nat /\ DOMAIN net.assemblies \subseteq 0 .. net.nextId - 1
      /\ net.cells \subseteq Cells
  BY DEF CoreInductive, Savable
<1>2. IsFiniteSet(DOMAIN net.assemblies)
  <2>1. net.nextId - 1 \in Int
    BY <1>1
  <2>2. IsFiniteSet(0 .. net.nextId - 1)
    BY <2>1, FS_Interval
  <2> QED BY <1>1, <2>2, FS_Subset
<1>3. \A S \in SUBSET Cells : IsFiniteSet(S)
  BY FS_Subset, CoreTickAssumption
<1>4. IsFiniteSet(Keys)
  <2> DEFINE P == (Cells \X Cells) \X {"LOCAL", "ASSOCIATIVE"}
             F == [k \in Keys |-> <<<<k[1], k[2]>>, k[3]>>]
  <2>1. IsFiniteSet({"LOCAL"}) /\ {"LOCAL"} \cup {"ASSOCIATIVE"} = {"LOCAL", "ASSOCIATIVE"}
    BY FS_Singleton
  <2>2. IsFiniteSet({"LOCAL", "ASSOCIATIVE"})
    BY <2>1, FS_AddElement
  <2>3. IsFiniteSet(Cells \X Cells)
    BY CoreTickAssumption, FS_Product
  <2>4. IsFiniteSet(P)
    BY <2>2, <2>3, FS_Product
  <2>5. ASSUME NEW k \in Keys
        PROVE  /\ k = <<k[1], k[2], k[3]>> /\ F[k] \in P
    BY CoreTickAssumption DEF Keys
  <2>6. F \in Injection(Keys, P)
    BY <2>5 DEF Injection, IsInjective
  <2> QED BY <2>4, <2>6, FS_Injection
<1> QED BY <1>1, <1>2, <1>3, <1>4, FS_Subset, CoreTickAssumption

LEMMA StandingFits ==
  ASSUME CoreInductive, NEW links, Qualifying(net.edges) \subseteq links
  PROVE  Fit(net.assemblies, links)
<1>1. ASSUME NEW a \in DOMAIN net.assemblies
      PROVE  Shaped(net.assemblies[a], links)
  BY ConnectedWithMore, CoreTickAssumption DEF CoreInductive, Loadable, Savable, Shaped
<1>2. Distinct(net.assemblies)
  BY DEF CoreInductive, Loadable, Distinct
<1>3. Spread(net.assemblies)
  BY DEF CoreInductive, Loadable, Spread, Memberships, Holding
<1> QED BY <1>1, <1>2, <1>3 DEF Fit

LEMMA IndexTells ==
  ASSUME CoreInductive
  PROVE  /\ DOMAIN net.index = {net.assemblies[a] : a \in DOMAIN net.assemblies}
         /\ \A a \in DOMAIN net.assemblies : net.index[net.assemblies[a]] = a
<1>1. Distinct(net.assemblies)
  BY DEF CoreInductive, Loadable, Distinct
<1>2. net.index = ById(net.assemblies)
  BY DEF CoreInductive, Indexed
<1> QED BY <1>1, <1>2 DEF ById, Distinct

LEMMA FewerFit ==
  ASSUME CoreInductive, NEW live, DOMAIN live \subseteq DOMAIN net.assemblies,
         \A a \in DOMAIN live : live[a] \subseteq net.assemblies[a],
         Spread(net.assemblies)
  PROVE  Spread(live)
<1> SUFFICES ASSUME NEW c \in Cells
             PROVE  Cardinality(Holding(live, c)) <= MMax
  BY DEF Spread
<1>1. Holding(live, c) \subseteq Holding(net.assemblies, c)
  BY DEF Holding
<1>2. IsFiniteSet(Holding(net.assemblies, c))
  BY FiniteParts, FS_Subset DEF Holding
<1>3. /\ Cardinality(Holding(live, c)) \in Nat /\ Cardinality(Holding(net.assemblies, c)) \in Nat
      /\ Cardinality(Holding(live, c)) <= Cardinality(Holding(net.assemblies, c))
  BY <1>1, <1>2, FS_Subset, FS_CardinalityType
<1>4. Cardinality(Holding(net.assemblies, c)) <= MMax
  BY DEF Spread
<1> QED BY <1>3, <1>4, CoreTickAssumption

LEMMA MaintainedFits ==
  ASSUME CoreInductive, NEW links, Qualifying(net.edges) \subseteq links,
         NEW outcome, DOMAIN outcome \subseteq DOMAIN net.assemblies,
         \A a \in DOMAIN outcome : outcome[a] \in Remainders(a, links)
  PROVE  /\ Fit(Maintained(outcome, links), links)
         /\ \A a \in DOMAIN Maintained(outcome, links) :
              Maintained(outcome, links)[a] \subseteq net.assemblies[a]
<1> DEFINE kept == [a \in {b \in DOMAIN outcome : Lasts(outcome[b], links)} |-> outcome[a]]
           gone == (DOMAIN outcome \ DOMAIN kept) \cup Duplicates(kept)
           live == [a \in DOMAIN net.assemblies \ gone |->
                      IF a \in DOMAIN kept THEN kept[a] ELSE net.assemblies[a]]
<1>1. Maintained(outcome, links) = live
  BY DEF Maintained
<1>2. Fit(net.assemblies, links)
  BY StandingFits
<1>3. ASSUME NEW a \in DOMAIN kept
      PROVE  kept[a] \subseteq net.assemblies[a] /\ Lasts(kept[a], links) /\ a \in DOMAIN net.assemblies
  BY DEF Remainders
<1>4. ASSUME NEW a \in DOMAIN live
      PROVE  live[a] \subseteq net.assemblies[a] /\ Shaped(live[a], links)
  <2>1. Shaped(net.assemblies[a], links) /\ a \in DOMAIN net.assemblies
    BY <1>2 DEF Fit
  <2>2. CASE a \in DOMAIN kept
    <3>1. kept[a] \subseteq net.assemblies[a] /\ Lasts(kept[a], links) /\ live[a] = kept[a]
      BY <1>3, <2>2
    <3>2. net.assemblies[a] \in SUBSET Cells /\ kept[a] \in Compact /\ kept[a] \subseteq net.cells
      <4>1. /\ net.assemblies[a] \in Compact /\ net.assemblies[a] \subseteq net.cells
            /\ net.cells \subseteq Cells /\ kept[a] \in SUBSET net.assemblies[a]
        BY <2>1, <3>1, FiniteParts DEF Shaped
      <4> QED BY <4>1, CoreTickAssumption
    <3>3. Cardinality(kept[a]) <= KMax
      <4>1. /\ Cardinality(kept[a]) <= Cardinality(net.assemblies[a])
            /\ Cardinality(kept[a]) \in Nat /\ Cardinality(net.assemblies[a]) \in Nat
        BY <3>1, <3>2, FiniteParts, FS_Subset, FS_CardinalityType
      <4>2. Cardinality(net.assemblies[a]) <= KMax
        BY <2>1 DEF Shaped, Sized
      <4> QED BY <4>1, <4>2, CoreTickAssumption
    <3> QED BY <3>1, <3>2, <3>3 DEF Shaped, Sized, Lasts
  <2>3. CASE a \notin DOMAIN kept
    BY <2>1, <2>3
  <2> QED BY <2>2, <2>3
<1>5. ASSUME NEW a \in DOMAIN live, NEW b \in DOMAIN live, live[a] = live[b],
             a \in DOMAIN kept
      PROVE  a = b
  <2> DEFINE S     == kept[a]
             group == {d \in DOMAIN kept : kept[d] = S}
                        \cup IF S \in DOMAIN net.index /\ net.index[S] \notin DOMAIN kept
                             THEN {net.index[S]} ELSE {}
  <2>1. a \notin Duplicates(kept) /\ b \notin Duplicates(kept)
    OBVIOUS
  <2>2. a \in group
    BY <1>5
  <2>3. b \in group
    <3>1. CASE b \in DOMAIN kept
      BY <1>5, <3>1
    <3>2. CASE b \notin DOMAIN kept
      <4>1. S = net.assemblies[b] /\ b \in DOMAIN net.assemblies
        BY <1>5, <3>2
      <4>2. S \in DOMAIN net.index /\ net.index[S] = b
        BY <4>1, IndexTells
      <4> QED BY <3>2, <4>2
    <3> QED BY <3>1, <3>2
  <2>4. \A d \in DOMAIN net.assemblies : d \in group => d = Least(group) \/ d \in Duplicates(kept)
    BY <1>5 DEF Duplicates
  <2>5. a \in DOMAIN net.assemblies /\ b \in DOMAIN net.assemblies
    OBVIOUS
  <2> QED BY <2>1, <2>2, <2>3, <2>4, <2>5
<1>6. Distinct(live)
  <2> SUFFICES ASSUME NEW a \in DOMAIN live, NEW b \in DOMAIN live, live[a] = live[b]
               PROVE  a = b
    BY DEF Distinct
  <2>1. CASE a \notin DOMAIN kept /\ b \notin DOMAIN kept
    BY <1>2, <2>1 DEF Fit, Distinct
  <2> QED BY <1>5, <2>1
<1>7. Spread(live)
  BY <1>2, <1>4, FewerFit DEF Fit
<1> QED BY <1>1, <1>4, <1>6, <1>7 DEF Fit

-----------------------------------------------------------------------------
(* Least elements and induction over natural numbers, as facts about sets. *)
LEMMA SomeIsLeast ==
  ASSUME NEW T, T \subseteq Nat, T # {}
  PROVE  \E x \in T : \A y \in T : x <= y
<1>1. PICK x \in T : \A y \in T : ~ (<<y, x>> \in OpToRel(<, Nat))
  BY NatLessThanWellFounded, WFMin
<1>2. \A y \in T : ~ (y < x)
  BY <1>1 DEF OpToRel
<1> QED BY <1>2

LEMMA LeastIsLeast ==
  ASSUME NEW T, T \subseteq Nat, T # {}
  PROVE  Least(T) \in T /\ \A y \in T : Least(T) <= y
BY SomeIsLeast DEF Least

LEMMA ByInduction ==
  ASSUME NEW N \in Nat, NEW S, 0 \in S, \A n \in 0 .. N - 1 : n \in S => n + 1 \in S
  PROVE  N \in S
<1> SUFFICES ASSUME N \notin S PROVE FALSE
  OBVIOUS
<1> DEFINE T == {n \in 0 .. N : n \notin S}
<1>1. T \subseteq Nat /\ N \in T
  OBVIOUS
<1>2. PICK m \in T : \A y \in T : m <= y
  BY <1>1, SomeIsLeast
<1>3. m # 0 /\ m - 1 \in 0 .. N - 1
  BY <1>2
<1>4. m - 1 \in S
  BY <1>2, <1>3
<1> QED BY <1>2, <1>3, <1>4

-----------------------------------------------------------------------------
(* GROW.                                                                   *)
LEMMA AtLeastOne ==
  ASSUME NEW x \in Nat, NEW y \in Nat, x >= 1, y >= 1
  PROVE  x * y >= 1
<1>1. x * y = (x - 1) * y + y /\ (x - 1) * y >= 0
  OBVIOUS
<1> QED BY <1>1

(* A growth is dense enough to be tied to a member.                        *)
LEMMA GrowthTies ==
  ASSUME CoreInductive, NEW links, NEW live, Fit(live, links), NEW changed,
         NEW g \in Growths(live, changed, links)
  PROVE  /\ g[1] \in DOMAIN live /\ g[2] \in net.cells
         /\ \E m \in live[g[1]] : {g[2], m} \in links
<1> DEFINE S == live[g[1]]
           D == {d \in S : {g[2], d} \in links}
<1>1. g[1] \in DOMAIN live /\ g[2] \in net.cells /\ Dense(g[2], S, links, RhoG)
  BY DEF Growths
<1>2. S \in SUBSET Cells /\ Cardinality(S) >= KMin
  BY <1>1, FiniteParts DEF Fit, Shaped, Sized
<1>3. Cardinality(S) \in Nat /\ Cardinality(S) >= 1 /\ RhoG \in Nat /\ RhoG >= 1
  <2>1. Cardinality(S) \in Nat
    BY <1>2, FiniteParts, FS_CardinalityType
  <2> QED BY <1>2, <2>1, CoreTickAssumption
<1>4. RhoG * Cardinality(S) >= 1 /\ RhoG * Cardinality(S) \in Int
  BY <1>3, AtLeastOne
<1>5. 100 * Cardinality(D) >= RhoG * Cardinality(S)
  BY <1>1 DEF Dense, Degree
<1>6. D # {}
  <2> SUFFICES ASSUME D = {} PROVE FALSE
    OBVIOUS
  <2> HIDE DEF D
  <2>1. Cardinality(D) = 0
    BY FS_EmptySet
  <2> QED BY <1>4, <1>5, <2>1
<1> QED BY <1>1, <1>6

LEMMA GrowFits ==
  ASSUME CoreInductive, NEW links, NEW live, Fit(live, links),
         NEW g, g[1] \in DOMAIN live, g[2] \in net.cells,
         NEW m \in live[g[1]], {g[2], m} \in links
  PROVE  /\ Fit(Grow(live, g), links) /\ DOMAIN Grow(live, g) = DOMAIN live
         /\ \A a \in DOMAIN live : live[a] \subseteq Grow(live, g)[a]
<1> DEFINE S == live[g[1]] \cup {g[2]}
           new == [live EXCEPT ![g[1]] = S]
<1>1. CASE Grow(live, g) = live
  BY <1>1
<1>2. CASE /\ g[2] \notin live[g[1]] /\ Cardinality(S) <= KMax /\ S \in Compact
           /\ Cardinality(Holding(live, g[2])) < MMax
           /\ \A a \in DOMAIN live : live[a] = S => a = g[1]
           /\ Grow(live, g) = new
  <2>1. /\ DOMAIN new = DOMAIN live /\ new[g[1]] = S
        /\ \A a \in DOMAIN live : a # g[1] => new[a] = live[a]
    OBVIOUS
  <2>2. Shaped(S, links)
    <3>1. Shaped(live[g[1]], links) /\ live[g[1]] \in SUBSET Cells /\ g[2] \in Cells
      BY FiniteParts DEF Fit, Shaped
    <3>2. Connected(S, links)
      BY <3>1, ConnectedByOneMore DEF Shaped
    <3>3. IsFiniteSet(S) /\ IsFiniteSet(live[g[1]])
      BY <3>1, FiniteParts
    <3>4. /\ Cardinality(S) \in Nat /\ Cardinality(live[g[1]]) \in Nat
          /\ Cardinality(live[g[1]]) <= Cardinality(S)
      BY <3>3, FS_Subset, FS_CardinalityType
    <3>5. KMin <= Cardinality(S)
      BY <3>1, <3>4, CoreTickAssumption DEF Shaped, Sized
    <3> QED BY <1>2, <3>1, <3>2, <3>5 DEF Shaped, Sized
  <2>3. \A a \in DOMAIN new : Shaped(new[a], links)
    BY <2>1, <2>2 DEF Fit
  <2>4. Distinct(new)
    BY <1>2, <2>1 DEF Fit, Distinct
  <2>5. Spread(new)
    <3> SUFFICES ASSUME NEW c \in Cells
                 PROVE  Cardinality(Holding(new, c)) <= MMax
      BY DEF Spread
    <3>1. Cardinality(Holding(live, c)) <= MMax
      BY DEF Fit, Spread
    <3>2. CASE c # g[2]
      <4>1. Holding(new, c) = Holding(live, c)
        BY <2>1, <3>2 DEF Holding
      <4> QED BY <3>1, <4>1
    <3>3. CASE c = g[2]
      <4>1. Holding(new, c) = Holding(live, c) \cup {g[1]}
        BY <2>1, <3>3 DEF Holding
      <4>2. IsFiniteSet(Holding(live, c))
        BY FiniteParts, FS_Subset DEF Holding, Fit
      <4>3. Cardinality(Holding(live, c)) \in Nat
        BY <4>2, FS_CardinalityType
      <4>4. Cardinality(Holding(new, c)) = IF g[1] \in Holding(live, c)
                                           THEN Cardinality(Holding(live, c))
                                           ELSE Cardinality(Holding(live, c)) + 1
        BY <4>1, <4>2, FS_AddElement
      <4> QED BY <1>2, <3>3, <4>3, <4>4, CoreTickAssumption
    <3> QED BY <3>2, <3>3
  <2>6. Fit(new, links)
    BY <2>1, <2>3, <2>4, <2>5 DEF Fit
  <2> QED BY <1>2, <2>1, <2>6
<1> QED BY <1>1, <1>2 DEF Grow

(* The steps of the growth, as its recursive definition says.              *)
Growing(f, live, order, n) ==
  f = [i \in 0 .. n |-> IF i = 0 THEN live ELSE Grow(f[i - 1], order[i])]

LEMMA GrowingGoesOn ==
  ASSUME NEW live, NEW order, NEW n \in Nat, \E f : Growing(f, live, order, n)
  PROVE  \E f : Growing(f, live, order, n + 1)
<1>1. PICK f : Growing(f, live, order, n)
  OBVIOUS
<1> DEFINE h == [i \in 0 .. n + 1 |-> IF i <= n THEN f[i] ELSE Grow(f[n], order[n + 1])]
<1>2. \A i \in 0 .. n : h[i] = f[i]
  OBVIOUS
<1>3. ASSUME NEW i \in 0 .. n + 1
      PROVE  h[i] = IF i = 0 THEN live ELSE Grow(h[i - 1], order[i])
  <2>1. CASE i = 0
    BY <1>1, <2>1 DEF Growing
  <2>2. CASE i # 0 /\ i <= n
    <3>1. h[i] = f[i] /\ h[i - 1] = f[i - 1]
      BY <2>2
    <3>2. f[i] = Grow(f[i - 1], order[i])
      BY <1>1, <2>2 DEF Growing
    <3> QED BY <2>2, <3>1, <3>2
  <2>3. CASE i = n + 1
    <3>1. h[i] = Grow(f[n], order[n + 1]) /\ h[i - 1] = f[n] /\ i # 0
      BY <2>3
    <3> QED BY <2>3, <3>1
  <2> QED BY <2>1, <2>2, <2>3
<1>4. Growing(h, live, order, n + 1)
  BY <1>3 DEF Growing
<1> QED BY <1>4

LEMMA GrowingExists ==
  ASSUME NEW live, NEW order, NEW N \in Nat
  PROVE  \E f : Growing(f, live, order, N)
<1> DEFINE S == {n \in Nat : \E f : Growing(f, live, order, n)}
<1>1. 0 \in S
  <2> DEFINE f == [i \in 0 .. 0 |-> live]
  <2>1. f = [i \in 0 .. 0 |-> IF i = 0 THEN live ELSE Grow(f[i - 1], order[i])]
    OBVIOUS
  <2> QED BY <2>1 DEF Growing
<1>2. \A n \in 0 .. N - 1 : n \in S => n + 1 \in S
  BY GrowingGoesOn
<1> HIDE DEF S
<1>3. N \in S
  BY <1>1, <1>2, ByInduction
<1> QED BY <1>3 DEF S

LEMMA GrownGrows ==
  ASSUME NEW live, NEW order, Len(order) \in Nat
  PROVE  \E f : Growing(f, live, order, Len(order)) /\ Grown(live, order) = f[Len(order)]
<1> DEFINE f == CHOOSE g : g = [n \in 0 .. Len(order) |->
                                  IF n = 0 THEN live ELSE Grow(g[n - 1], order[n])]
<1>1. \E g : g = [n \in 0 .. Len(order) |-> IF n = 0 THEN live ELSE Grow(g[n - 1], order[n])]
  <2>1. \E g : Growing(g, live, order, Len(order))
    BY GrowingExists
  <2> QED BY <2>1, Zenon DEF Growing
<1>2. f = [n \in 0 .. Len(order) |-> IF n = 0 THEN live ELSE Grow(f[n - 1], order[n])]
  BY <1>1, Zenon
<1>3. Growing(f, live, order, Len(order))
  BY <1>2, Zenon DEF Growing
<1>4. Grown(live, order) = f[Len(order)]
  BY Zenon DEF Grown
<1> QED BY <1>3, <1>4, Zenon

LEMMA GrownDomain ==
  ASSUME NEW live, NEW order, Len(order) \in Nat
  PROVE  DOMAIN Grown(live, order) = DOMAIN live
<1>1. PICK f : Growing(f, live, order, Len(order)) /\ Grown(live, order) = f[Len(order)]
  BY GrownGrows
<1> DEFINE S == {n \in 0 .. Len(order) : DOMAIN f[n] = DOMAIN live}
<1>2. 0 \in S
  BY <1>1 DEF Growing
<1>3. ASSUME NEW n \in 0 .. Len(order) - 1, n \in S
      PROVE  n + 1 \in S
  <2>1. f[n + 1] = Grow(f[n], order[n + 1])
    BY <1>1 DEF Growing
  <2>2. DOMAIN Grow(f[n], order[n + 1]) = DOMAIN f[n]
    BY DEF Grow
  <2> QED BY <1>3, <2>1, <2>2
<1> HIDE DEF S
<1>4. Len(order) \in S
  BY <1>2, <1>3, ByInduction
<1> QED BY <1>1, <1>4 DEF S

LEMMA GrownFits ==
  ASSUME CoreInductive, NEW links, NEW live, Fit(live, links), NEW changed,
         NEW order, Len(order) \in Nat,
         \A i \in 1 .. Len(order) : order[i] \in Growths(live, changed, links)
  PROVE  /\ Fit(Grown(live, order), links) /\ DOMAIN Grown(live, order) = DOMAIN live
         /\ \A a \in DOMAIN live : live[a] \subseteq Grown(live, order)[a]
<1>1. PICK f : Growing(f, live, order, Len(order)) /\ Grown(live, order) = f[Len(order)]
  BY GrownGrows
<1> DEFINE Grows(new) == /\ Fit(new, links) /\ DOMAIN new = DOMAIN live
                         /\ \A a \in DOMAIN live : live[a] \subseteq new[a]
           S == {n \in 0 .. Len(order) : Grows(f[n])}
<1>2. f[0] = live
  BY <1>1 DEF Growing
<1>3. 0 \in S
  BY <1>2
<1>4. ASSUME NEW n \in 0 .. Len(order) - 1, n \in S
      PROVE  n + 1 \in S
  <2> DEFINE g == order[n + 1]
  <2>1. f[n + 1] = Grow(f[n], g)
    BY <1>1 DEF Growing
  <2>2. g \in Growths(live, changed, links)
    OBVIOUS
  <2>3. PICK m \in live[g[1]] : {g[2], m} \in links
    BY <2>2, GrowthTies
  <2>4. g[1] \in DOMAIN live /\ g[2] \in net.cells
    BY <2>2, GrowthTies
  <2>5. Grows(f[n])
    BY <1>4
  <2> HIDE DEF g, S
  <2>6. /\ Fit(Grow(f[n], g), links) /\ DOMAIN Grow(f[n], g) = DOMAIN f[n]
        /\ \A a \in DOMAIN f[n] : f[n][a] \subseteq Grow(f[n], g)[a]
    BY <2>3, <2>4, <2>5, GrowFits
  <2>7. Grows(f[n + 1])
    BY <2>1, <2>5, <2>6
  <2> QED BY <2>7 DEF S
<1> HIDE DEF S
<1>5. Len(order) \in S
  BY <1>3, <1>4, ByInduction
<1> QED BY <1>1, <1>5 DEF S

-----------------------------------------------------------------------------
(* FORM.                                                                   *)
LEMMA SearchedIsComponent ==
  ASSUME NEW edges, DOMAIN edges \subseteq Keys, NEW c
  PROVE  Searched(c, edges, Qualifying(edges)) = Component(c, Qualifying(edges))
<1> DEFINE links == Qualifying(edges)
           along(T) == \A k \in DOMAIN edges :
                         k[3] = "LOCAL" /\ {k[1], k[2]} \in links /\ k[1] \in T => k[2] \in T
<1>1. ASSUME NEW T, Closed(T, links) PROVE along(T)
  BY <1>1 DEF Closed
<1>2. ASSUME NEW T, along(T) PROVE Closed(T, links)
  <2> SUFFICES ASSUME NEW l \in links, NEW d \in l \cap T PROVE l \subseteq T
    BY DEF Closed
  <2>1. PICK k \in DOMAIN edges : /\ k[3] = "LOCAL" /\ l = {k[1], k[2]}
                                  /\ <<k[2], k[1], "LOCAL">> \in DOMAIN edges
    BY DEF Qualifying
  <2>2. k[1] \in T => k[2] \in T
    BY <1>2, <2>1
  <2> DEFINE j == <<k[2], k[1], "LOCAL">>
  <2>3. j[1] = k[2] /\ j[2] = k[1] /\ j[3] = "LOCAL" /\ {j[1], j[2]} = l
    BY <2>1
  <2> HIDE DEF j
  <2>4. k[2] \in T => k[1] \in T
    BY <1>2, <2>1, <2>3 DEF j
  <2> QED BY <2>1, <2>2, <2>4
<1>3. \A T : Closed(T, links) <=> along(T)
  BY <1>1, <1>2
<1>4. Searched(c, edges, links) =
        {d \in Cells : \A T \in SUBSET Cells : c \in T /\ along(T) => d \in T}
  BY DEF Searched
<1> HIDE DEF along, links
<1> QED BY <1>3, <1>4, Zenon DEF Component, links

LEMMA FormsAreShaped ==
  ASSUME CoreInductive, NEW edges, DOMAIN edges \subseteq Keys,
         NEW links, links = Qualifying(edges), \A l \in links : l \subseteq net.cells,
         NEW live, NEW changed, NEW S \in Forms(live, changed, edges, links)
  PROVE  /\ Shaped(S, links) /\ S \subseteq Nat /\ S # {}
         /\ \E c \in Cells : S = Component(c, links)
         /\ \A a \in DOMAIN live : live[a] # S
<1>1. PICK c \in UNION (changed \cap links) : S = Searched(c, edges, links)
  BY DEF Forms
<1>2. Sized(S) /\ S \in Compact /\ \A a \in DOMAIN live : live[a] # S
  BY DEF Forms
<1>3. c \in net.cells /\ net.cells \in SUBSET Cells
  BY <1>1, FiniteParts
<1>4. Closed(net.cells, links)
  BY DEF Closed
<1>5. S = Component(c, links)
  BY <1>1, SearchedIsComponent
<1>6. S \subseteq net.cells
  BY <1>3, <1>4, <1>5, ComponentIsLeast
<1>7. Connected(S, links) /\ c \in S
  BY <1>3, <1>5, ComponentIsConnected, ComponentContains DEF Pairs
<1> QED BY <1>2, <1>3, <1>5, <1>6, <1>7, CoreTickAssumption DEF Shaped

LEMMA FormsAreApart ==
  ASSUME CoreInductive, NEW edges, DOMAIN edges \subseteq Keys,
         NEW links, links = Qualifying(edges), \A l \in links : l \subseteq net.cells,
         NEW live, NEW changed,
         NEW S \in Forms(live, changed, edges, links),
         NEW T \in Forms(live, changed, edges, links), S # T
  PROVE  S \cap T = {} /\ Least(S) # Least(T)
<1>1. PICK c \in Cells : S = Component(c, links)
  BY FormsAreShaped
<1>2. PICK d \in Cells : T = Component(d, links)
  BY FormsAreShaped
<1>3. Pairs(links)
  BY FiniteParts DEF Pairs
<1>4. S \cap T = {}
  BY <1>1, <1>2, <1>3, ComponentsAreDisjoint
<1>5. S \subseteq Nat /\ S # {} /\ T \subseteq Nat /\ T # {}
  BY FormsAreShaped
<1>6. Least(S) \in S /\ Least(T) \in T
  BY <1>5, LeastIsLeast
<1> QED BY <1>4, <1>6

(* Of two sets apart, the one with the least member comes first.           *)
LEMMA LeastComesBefore ==
  ASSUME NEW S, NEW T, S \subseteq Nat, T \subseteq Nat, S # {}, T # {}, S \cap T = {}
  PROVE  Before(S, T) <=> Least(S) < Least(T)
<1> DEFINE D == (S \ T) \cup (T \ S)
           d == Least(D)
<1>1. /\ \A e : e \in D <=> e \in S \/ e \in T
      /\ D \subseteq Nat /\ D # {} /\ S # T
  OBVIOUS
<1>2. d \in D /\ \A e \in D : d <= e
  BY <1>1, LeastIsLeast
<1> DEFINE s == Least(S)
           t == Least(T)
<1>3. /\ s \in S /\ \A e \in S : s <= e
      /\ t \in T /\ \A e \in T : t <= e
  BY LeastIsLeast
<1>4. Before(S, T) <=> IF d \in S THEN \E e \in T : d < e ELSE \A e \in S : e < d
  BY <1>1 DEF Before
<1> HIDE DEF D, d, s, t
<1>5. d \in Nat /\ s \in Nat /\ t \in Nat /\ d <= s /\ d <= t
  BY <1>1, <1>2, <1>3
<1>6. CASE d \in S
  <2>1. s = d /\ t # d
    BY <1>3, <1>5, <1>6
  <2> QED BY <1>3, <1>4, <1>5, <1>6, <2>1 DEF s, t
<1>7. CASE d \in T /\ d \notin S
  <2>1. t = d /\ ~(s < d)
    BY <1>3, <1>5, <1>7
  <2> QED BY <1>3, <1>4, <1>5, <1>7, <2>1 DEF s, t
<1> QED BY <1>1, <1>2, <1>6, <1>7

LEMMA FormsAreFinite ==
  ASSUME NEW live, NEW changed, NEW edges, NEW links,
         NEW F \in Accepted(live, Forms(live, changed, edges, links))
  PROVE  IsFiniteSet(F)
<1>1. F \subseteq SUBSET Cells
  BY DEF Accepted, Forms, Searched
<1>2. IsFiniteSet(SUBSET Cells)
  BY CoreTickAssumption, FS_SUBSET
<1> QED BY <1>1, <1>2, FS_Subset

(* What is planned for all assemblies of the network, whatever the planner *)
(* takes for support: their identities are old ones, or new.               *)
Drafted(plan) ==
  /\ IsFiniteSet(DOMAIN plan) /\ DOMAIN plan \subseteq Nat
  /\ \A a \in DOMAIN plan : a \in DOMAIN net.assemblies \/ a >= net.nextId

Planned(plan, links) ==
  /\ \A a \in DOMAIN plan : Shaped(plan[a], links)
  /\ Distinct(plan) /\ Spread(plan)

LEMMA FormsAreDrafted ==
  ASSUME CoreInductive, NEW live, DOMAIN live \subseteq DOMAIN net.assemblies,
         NEW forms, IsFiniteSet(forms)
  PROVE  Drafted(WithForms(live, forms))
<1> DEFINE below(S) == {T \in forms : Before(T, S)}
           id(S)    == net.nextId + Cardinality(below(S))
           ids      == {id(S) : S \in forms}
           plan     == WithForms(live, forms)
<1>1. DOMAIN plan = DOMAIN live \cup ids
  BY DEF WithForms
<1>2. net.nextId \in Nat /\ IsFiniteSet(DOMAIN net.assemblies) /\ DOMAIN net.assemblies \subseteq Nat
  BY FiniteParts
<1>3. ASSUME NEW S \in forms
      PROVE  id(S) \in Nat /\ id(S) >= net.nextId
  <2>1. IsFiniteSet(below(S))
    BY FS_Subset
  <2>2. Cardinality(below(S)) \in Nat
    BY <2>1, FS_CardinalityType
  <2> QED BY <1>2, <2>2
<1> HIDE DEF id
<1>4. IsFiniteSet(ids)
  <2> DEFINE f == [S \in forms |-> id(S)]
  <2>1. f \in Surjection(forms, ids)
    BY DEF Surjection
  <2> QED BY <2>1, FS_Surjection
<1>5. IsFiniteSet(DOMAIN live)
  BY <1>2, FS_Subset
<1> HIDE DEF plan
<1>6. IsFiniteSet(DOMAIN plan)
  BY <1>1, <1>4, <1>5, FS_Union
<1>7. \A a \in ids : a \in Nat /\ a >= net.nextId
  BY <1>3
<1> QED BY <1>1, <1>2, <1>6, <1>7 DEF Drafted, plan

(* The identities of new assemblies are new, and no two of them the same.  *)
LEMMA FormsArePlanned ==
  ASSUME CoreInductive, NEW edges, DOMAIN edges \subseteq Keys,
         NEW links, links = Qualifying(edges), \A l \in links : l \subseteq net.cells,
         NEW live, Fit(live, links), NEW changed,
         NEW forms, forms \in Accepted(live, Forms(live, changed, edges, links))
  PROVE  Planned(WithForms(live, forms), links)
<1> DEFINE below(S) == {T \in forms : Before(T, S)}
           id(S)    == net.nextId + Cardinality(below(S))
           ids      == {id(S) : S \in forms}
           plan     == [a \in DOMAIN live \cup ids |->
                          IF a \in ids THEN CHOOSE S \in forms : id(S) = a ELSE live[a]]
<1>1. WithForms(live, forms) = plan
  BY DEF WithForms
<1>a. forms \subseteq Forms(live, changed, edges, links)
  BY DEF Accepted
<1>2. ASSUME NEW S \in forms
      PROVE  /\ Shaped(S, links) /\ S \subseteq Nat /\ S # {} /\ Least(S) \in Nat
             /\ \A a \in DOMAIN live : live[a] # S
  BY <1>a, FormsAreShaped, LeastIsLeast
<1>3. \A S, T \in forms : S # T => S \cap T = {} /\ Least(S) # Least(T)
  BY <1>a, FormsAreApart
<1>4. IsFiniteSet(forms)
  BY FormsAreFinite
<1>5. net.nextId \in Nat /\ IsFiniteSet(DOMAIN net.assemblies) /\ DOMAIN net.assemblies \subseteq Nat
      /\ \A a \in DOMAIN net.assemblies : a < net.nextId
  BY FiniteParts DEF CoreInductive, Savable
<1>11. DOMAIN live \subseteq DOMAIN net.assemblies
  BY DEF Fit
<1>b. ASSUME NEW S \in forms, NEW c \in S
      PROVE  Cardinality(Holding(live, c)) < MMax
  <2> DEFINE H0 == Holding(live, c)
             O  == {T \in forms \ {S} : c \in T}
  <2>1. Cardinality(H0) + Cardinality(O) < MMax
    BY <1>a, <1>b DEF Accepted
  <2>2. IsFiniteSet(H0) /\ IsFiniteSet(O)
    BY <1>4, <1>5, <1>11, FS_Subset DEF Holding
  <2> HIDE DEF H0, O
  <2>3. Cardinality(H0) \in Nat /\ Cardinality(O) \in Nat
    BY <2>2, FS_CardinalityType
  <2>4. Cardinality(H0) < MMax
    BY <2>1, <2>3, CoreTickAssumption
  <2> QED BY <2>4 DEF H0
<1>c. ASSUME NEW S \in forms, NEW T \in forms
      PROVE  Before(S, T) <=> Least(S) < Least(T)
  <2>1. CASE S = T
    BY <1>2, <2>1 DEF Before
  <2>2. CASE S # T
    BY <1>2, <1>3, <2>2, LeastComesBefore
  <2> QED BY <2>1, <2>2
<1>6. ASSUME NEW S \in forms
      PROVE  IsFiniteSet(below(S)) /\ Cardinality(below(S)) \in Nat
             /\ id(S) \in Nat /\ id(S) >= net.nextId
  <2>1. IsFiniteSet(below(S))
    BY <1>4, FS_Subset
  <2>2. Cardinality(below(S)) \in Nat
    BY <2>1, FS_CardinalityType
  <2> QED BY <1>5, <2>1, <2>2
<1>7. ASSUME NEW S \in forms, NEW T \in forms, Least(S) < Least(T)
      PROVE  id(S) # id(T)
  <2>1. below(S) \in SUBSET below(T)
    BY <1>2, <1>7, <1>c
  <2>2. S \in below(T) /\ S \notin below(S)
    BY <1>2, <1>7, <1>c
  <2>3. below(S) # below(T)
    BY <2>2
  <2> HIDE DEF below
  <2>4. Cardinality(below(S)) # Cardinality(below(T))
    BY <1>6, <2>1, <2>3, FS_Subset
  <2> QED BY <1>5, <1>6, <2>4
<1> HIDE DEF id
<1>8. ASSUME NEW S \in forms, NEW T \in forms, id(S) = id(T)
      PROVE  S = T
  <2>1. CASE Least(S) < Least(T)
    BY <1>7, <1>8, <2>1
  <2>2. CASE Least(T) < Least(S)
    BY <1>7, <1>8, <2>2
  <2>3. CASE Least(S) = Least(T)
    BY <1>3, <2>3
  <2>4. Least(S) \in Nat /\ Least(T) \in Nat
    BY <1>2
  <2> QED BY <2>1, <2>2, <2>3, <2>4
<1>9. /\ \A S \in forms : id(S) \in DOMAIN plan /\ plan[id(S)] = S
      /\ \A a \in ids : plan[a] \in forms /\ id(plan[a]) = a
  BY <1>8
<1>10. \A a \in ids : a \in Nat /\ a >= net.nextId
  BY <1>6
<1>12. \A a \in DOMAIN live : a \notin ids /\ plan[a] = live[a]
  BY <1>5, <1>10, <1>11
<1>14. DOMAIN plan = DOMAIN live \cup ids
  OBVIOUS
<1> HIDE DEF plan, ids
<1>17. \A a \in DOMAIN plan : Shaped(plan[a], links)
  BY <1>2, <1>9, <1>12, <1>14 DEF Fit
<1>18. Distinct(plan)
  <2> SUFFICES ASSUME NEW a \in DOMAIN plan, NEW b \in DOMAIN plan, plan[a] = plan[b]
               PROVE  a = b
    BY DEF Distinct
  <2>1. CASE a \in ids /\ b \in ids
    BY <1>9, <2>1
  <2>2. CASE a \in DOMAIN live /\ b \in DOMAIN live
    BY <1>12, <2>2 DEF Fit, Distinct
  <2>3. CASE a \in ids /\ b \in DOMAIN live
    BY <1>2, <1>9, <1>12, <2>3
  <2>4. CASE a \in DOMAIN live /\ b \in ids
    BY <1>2, <1>9, <1>12, <2>4
  <2> QED BY <1>14, <2>1, <2>2, <2>3, <2>4
<1>19. Spread(plan)
  <2> SUFFICES ASSUME NEW c \in Cells
               PROVE  Cardinality(Holding(plan, c)) <= MMax
    BY DEF Spread
  <2>1. Cardinality(Holding(live, c)) <= MMax
    BY DEF Fit, Spread
  <2>2. CASE \A S \in forms : c \notin S
    <3>1. Holding(plan, c) = Holding(live, c)
      BY <1>9, <1>12, <1>14, <2>2 DEF Holding
    <3> QED BY <2>1, <3>1
  <2>3. CASE \E S \in forms : c \in S
    <3>1. PICK S \in forms : c \in S
      BY <2>3
    <3>2. \A T \in forms : c \in T => T = S
      BY <1>3, <3>1
    <3>3. Holding(plan, c) = Holding(live, c) \cup {id(S)}
      BY <1>9, <1>12, <1>14, <3>1, <3>2 DEF Holding, ids
    <3>4. IsFiniteSet(Holding(live, c))
      BY <1>5, <1>11, FS_Subset DEF Holding
    <3>5. Cardinality(Holding(live, c)) \in Nat
      BY <3>4, FS_CardinalityType
    <3>6. Cardinality(Holding(plan, c)) = IF id(S) \in Holding(live, c)
                                          THEN Cardinality(Holding(live, c))
                                          ELSE Cardinality(Holding(live, c)) + 1
      BY <3>3, <3>4, FS_AddElement
    <3> QED BY <1>b, <2>1, <3>1, <3>5, <3>6, CoreTickAssumption
  <2> QED BY <2>2, <2>3
<1>20. Planned(plan, links)
  BY <1>17, <1>18, <1>19 DEF Planned
<1> QED BY <1>1, <1>20

-----------------------------------------------------------------------------
(* The window.                                                             *)
Events == [tick : Nat, active : SUBSET Cells, drive : SUBSET Cells]

LEMMA ReferredGrows ==
  ASSUME NEW v, NEW w, \A i \in DOMAIN v : \E j \in DOMAIN w : v[i] = w[j]
  PROVE  Referred(v) \subseteq Referred(w)
BY DEF Referred

LEMMA ReferredAreCells ==
  ASSUME NEW w \in Seq(Events)
  PROVE  Referred(w) \subseteq Cells
<1> SUFFICES ASSUME NEW i \in DOMAIN w
             PROVE  w[i].active \subseteq Cells /\ w[i].drive \subseteq Cells
  BY DEF Referred
<1>1. w[i] \in Events
  OBVIOUS
<1> QED BY <1>1 DEF Events

LEMMA WindowExtends ==
  ASSUME CoreInductive, NEW history \in {<<>>, window}, NEW event \in Events,
         event.tick = net.tick, event.active \subseteq net.cells
  PROVE  LET after == Extended(history, event) IN
         /\ after \in Seq(Events) /\ Len(after) <= Horizon
         /\ \A i \in DOMAIN after :
              /\ after[i].tick = net.tick + 1 - Len(after) + i - 1
              /\ after[i].active \subseteq net.cells
         /\ event.active \cup event.drive \subseteq Referred(after)
         /\ Referred(Surviving(history)) \subseteq Referred(after)
         /\ Referred(Surviving(history)) \subseteq Cells
<1> DEFINE after == Extended(history, event)
           rest  == Surviving(history)
<1>1. /\ history \in Seq(Events) /\ Len(history) <= Horizon /\ net.tick \in Nat
      /\ \A i \in DOMAIN history :
           /\ history[i].tick = net.tick - Len(history) + i - 1
           /\ history[i].active \subseteq net.cells
  <2>1. window \in Seq(Events) /\ net.tick \in Nat /\ Len(window) <= Horizon
    BY DEF CoreInductive, Savable, InStep, Events
  <2>2. \A i \in DOMAIN window :
          /\ window[i].tick = net.tick - Len(window) + i - 1
          /\ window[i].active \subseteq net.cells
    BY DEF CoreInductive, Savable, InStep
  <2>3. Len(<<>>) = 0 /\ DOMAIN <<>> = {} /\ <<>> \in Seq(Events)
    OBVIOUS
  <2>4. Horizon \in Nat
    BY CoreTickAssumption
  <2>5. CASE history = window
    BY <2>1, <2>2, <2>5
  <2>6. CASE history = <<>>
    BY <2>1, <2>3, <2>4, <2>6
  <2> QED BY <2>5, <2>6
<1>2. Horizon \in Nat \ {0}
  BY CoreTickAssumption
<1>3. after = Append(rest, event) /\ rest \in {history, Tail(history)}
  BY DEF Extended, Surviving
<1>4. CASE Len(history) < Horizon
  <2>1. rest = history /\ after = Append(history, event)
    BY <1>4 DEF Extended, Surviving
  <2> QED
    <3>1. /\ after \in Seq(Events) /\ Len(after) = Len(history) + 1
          /\ \A i \in 1 .. Len(history) : after[i] = history[i]
          /\ after[Len(history) + 1] = event
      BY <1>1, <2>1
    <3>2. DOMAIN after = 1 .. Len(history) + 1 /\ DOMAIN history = 1 .. Len(history)
      BY <1>1, <3>1
    <3>3. \A i \in DOMAIN after :
            /\ after[i].tick = net.tick + 1 - Len(after) + i - 1
            /\ after[i].active \subseteq net.cells
      <4> SUFFICES ASSUME NEW i \in 1 .. Len(history) + 1
                   PROVE  /\ after[i].tick = net.tick + 1 - Len(after) + i - 1
                          /\ after[i].active \subseteq net.cells
        BY <3>2
      <4>1. Len(history) \in Nat
        BY <1>1
      <4>2. CASE i = Len(history) + 1
        BY <1>1, <3>1, <4>1, <4>2
      <4>3. CASE i \in DOMAIN history
        <5>1. after[i] = history[i]
          BY <3>1, <3>2, <4>3
        <5>2. /\ history[i].tick = net.tick - Len(history) + i - 1
              /\ history[i].active \subseteq net.cells
          BY <1>1, <4>3
        <5> QED BY <1>1, <3>1, <4>1, <5>1, <5>2
      <4> QED BY <3>2, <4>1, <4>2, <4>3
    <3>4. event.active \cup event.drive \subseteq Referred(after)
      BY <1>1, <3>1, <3>2 DEF Referred
    <3>5. Referred(rest) \subseteq Referred(after) /\ Referred(rest) \subseteq Cells
      <4>1. \A i \in DOMAIN rest : \E j \in DOMAIN after : rest[i] = after[j]
        BY <1>1, <2>1, <3>1, <3>2
      <4> QED BY <1>1, <2>1, <4>1, ReferredGrows, ReferredAreCells
    <3>6. Len(after) <= Horizon
      BY <1>1, <1>2, <1>4, <3>1
    <3> QED BY <3>1, <3>3, <3>4, <3>5, <3>6
<1>5. CASE Len(history) = Horizon
  <2>1. rest = Tail(history) /\ after = Append(Tail(history), event)
    BY <1>5 DEF Extended, Surviving
  <2>2. history # <<>> /\ Len(history) \in Nat \ {0}
    BY <1>1, <1>2, <1>5
  <2>3. /\ rest \in Seq(Events) /\ Len(rest) = Len(history) - 1
        /\ \A i \in 1 .. Len(history) - 1 : rest[i] = history[i + 1]
    BY <1>1, <2>1, <2>2, HeadTailProperties
  <2>4. /\ after \in Seq(Events) /\ Len(after) = Len(history)
        /\ \A i \in 1 .. Len(history) - 1 : after[i] = history[i + 1]
        /\ after[Len(history)] = event
    BY <2>1, <2>2, <2>3
  <2>5. /\ DOMAIN after = 1 .. Len(history) /\ DOMAIN history = 1 .. Len(history)
        /\ DOMAIN rest = 1 .. Len(history) - 1
    BY <1>1, <2>3, <2>4
  <2>6. \A i \in DOMAIN after :
          /\ after[i].tick = net.tick + 1 - Len(after) + i - 1
          /\ after[i].active \subseteq net.cells
    <3> SUFFICES ASSUME NEW i \in 1 .. Len(history)
                 PROVE  /\ after[i].tick = net.tick + 1 - Len(after) + i - 1
                        /\ after[i].active \subseteq net.cells
      BY <2>5
    <3>1. CASE i = Len(history)
      BY <1>1, <2>2, <2>4, <3>1
    <3>2. CASE i # Len(history)
      <4>1. i + 1 \in DOMAIN history /\ after[i] = history[i + 1]
        BY <2>2, <2>4, <2>5, <3>2
      <4>2. /\ history[i + 1].tick = net.tick - Len(history) + (i + 1) - 1
            /\ history[i + 1].active \subseteq net.cells
        BY <1>1, <4>1
      <4> QED BY <1>1, <2>2, <2>4, <4>1, <4>2
    <3> QED BY <3>1, <3>2
  <2>7. event.active \cup event.drive \subseteq Referred(after)
    BY <2>2, <2>4, <2>5 DEF Referred
  <2>8. Referred(rest) \subseteq Referred(after) /\ Referred(rest) \subseteq Cells
    <3>1. \A i \in DOMAIN rest : \E j \in DOMAIN after : rest[i] = after[j]
      <4> SUFFICES ASSUME NEW i \in 1 .. Len(history) - 1
                   PROVE  \E j \in DOMAIN after : rest[i] = after[j]
        BY <2>5
      <4>1. i \in DOMAIN after /\ rest[i] = after[i]
        BY <2>2, <2>3, <2>4, <2>5
      <4> QED BY <4>1
    <3> QED BY <2>3, <3>1, ReferredGrows, ReferredAreCells
  <2>9. Len(after) <= Horizon
    BY <1>2, <1>5, <2>4
  <2> QED BY <2>4, <2>6, <2>7, <2>8, <2>9
<1>6. Len(history) < Horizon \/ Len(history) = Horizon
  BY <1>1, <1>2
<1> QED BY <1>4, <1>5, <1>6

-----------------------------------------------------------------------------
(* Synapses.                                                               *)
Relearned(firmer, admitted, pruned) ==
  [k \in (DOMAIN net.edges \ pruned) \cup admitted |->
     IF k \in firmer THEN "firm"
     ELSE IF k \in admitted THEN "candidate" ELSE net.edges[k]]

LEMMA KeysJoinCells ==
  ASSUME NEW k \in Keys
  PROVE  k[1] \in Cells /\ k[2] \in Cells /\ k = <<k[1], k[2], k[3]>>
BY CoreTickAssumption DEF Keys

(* Arbitration leaves every source within its budget, and rejects only at  *)
(* sources that have spent theirs.                                         *)
LEMMA ArbitrationFits ==
  ASSUME CoreInductive, NEW evidence, evidence \subseteq Keys, NEW firmer,
         NEW admitted, admitted \subseteq Proposable(evidence),
         NEW pruned, pruned \subseteq Weak, Arbitrates(admitted, pruned), NEW c \in Cells
  PROVE  LET edges == Relearned(firmer, admitted, pruned) IN
         /\ Cardinality(Outgoing(edges, c)) <= SynapticBudget
         /\ Full(admitted, pruned, c) => Outgoing(edges, c) # {}
<1> DEFINE edges == Relearned(firmer, admitted, pruned)
           O == Outgoing(net.edges, c)
           P == From(pruned, c)
           A == From(admitted, c)
           N == Outgoing(edges, c)
           R == O \ P
<1>1. pruned \subseteq DOMAIN net.edges /\ DOMAIN net.edges \subseteq Keys
  BY DEF Weak, CoreInductive, Loadable
<1>2. admitted \subseteq Keys /\ admitted \cap DOMAIN net.edges = {}
  BY DEF Proposable
<1>3. DOMAIN edges = (DOMAIN net.edges \ pruned) \cup admitted
  BY DEF Relearned
<1>4. N = R \cup A /\ R \cap A = {} /\ O = R \cup P /\ R \cap P = {}
  BY <1>1, <1>2, <1>3 DEF Outgoing, From
<1>5. IsFiniteSet(O) /\ IsFiniteSet(P) /\ IsFiniteSet(A)
  <2>1. O \subseteq Keys /\ P \subseteq Keys /\ A \subseteq Keys
    BY <1>1, <1>2 DEF Outgoing, From
  <2> QED BY <2>1, FiniteParts
<1>6. Free(c) = SynapticBudget - Cardinality(O) /\ SynapticBudget \in Nat \ {0}
  BY CoreTickAssumption DEF Free
<1>7. Full(admitted, pruned, c) <=> Cardinality(A) = Cardinality(P) + Free(c)
  BY DEF Full
<1>8. Full(admitted, pruned, c) \/ (P = {} /\ Cardinality(A) < Free(c))
  BY DEF Arbitrates
<1> HIDE DEF O, P, A, N, R
<1>9. IsFiniteSet(R) /\ Cardinality({}) = 0 /\ IsFiniteSet(N)
  <2>1. R \in SUBSET O
    BY <1>4
  <2> QED BY <1>4, <1>5, <2>1, FS_Subset, FS_EmptySet, FS_Union
<1>10. /\ Cardinality(O) \in Nat /\ Cardinality(P) \in Nat /\ Cardinality(A) \in Nat
       /\ Cardinality(R) \in Nat
  BY <1>5, <1>9, FS_CardinalityType
<1>11. Cardinality(O) = Cardinality(R) + Cardinality(P)
  <2>1. Cardinality(R \cup P) =
          Cardinality(R) + Cardinality(P) - Cardinality(R \cap P)
    BY <1>5, <1>9, FS_Union
  <2>2. Cardinality(O) = Cardinality(R) + Cardinality(P) - Cardinality({})
    BY <1>4, <2>1, Zenon
  <2> QED BY <1>9, <1>10, <2>2
<1>12. Cardinality(N) = Cardinality(R) + Cardinality(A)
  <2>1. Cardinality(R \cup A) =
          Cardinality(R) + Cardinality(A) - Cardinality(R \cap A)
    BY <1>5, <1>9, FS_Union
  <2>2. Cardinality(N) = Cardinality(R) + Cardinality(A) - Cardinality({})
    BY <1>4, <2>1, Zenon
  <2> QED BY <1>9, <1>10, <2>2
<1>13. Cardinality(N) <= SynapticBudget
  BY <1>6, <1>7, <1>8, <1>9, <1>10, <1>11, <1>12
<1>14. ASSUME Full(admitted, pruned, c) PROVE N # {}
  <2>1. Cardinality(N) = SynapticBudget
    BY <1>6, <1>7, <1>10, <1>11, <1>12, <1>14
  <2> QED BY <1>6, <1>9, <2>1
<1> QED BY <1>13, <1>14 DEF N

LEMMA RelearnedKeeps ==
  ASSUME CoreInductive, NEW evidence, evidence \subseteq Keys,
         NEW firmer, NEW admitted, admitted \subseteq Proposable(evidence),
         NEW pruned, pruned \subseteq Weak \ firmer
  PROVE  LET edges == Relearned(firmer, admitted, pruned) IN
         /\ DOMAIN edges \subseteq Keys
         /\ \A k \in DOMAIN edges : Endpoints(k) \subseteq net.cells
         /\ Qualifying(net.edges) \subseteq Qualifying(edges)
         /\ \A l \in Qualifying(edges) : l \subseteq net.cells
<1> DEFINE edges == Relearned(firmer, admitted, pruned)
<1>1. /\ DOMAIN edges = (DOMAIN net.edges \ pruned) \cup admitted
      /\ \A k \in DOMAIN edges : edges[k] = IF k \in firmer THEN "firm"
                                            ELSE IF k \in admitted THEN "candidate"
                                            ELSE net.edges[k]
  BY DEF Relearned
<1> HIDE DEF edges
<1>2. /\ DOMAIN edges \subseteq Keys
      /\ \A k \in DOMAIN edges : Endpoints(k) \subseteq net.cells
  BY <1>1 DEF CoreInductive, Loadable, Proposable
<1>3. ASSUME NEW k \in DOMAIN net.edges, net.edges[k] = "firm"
      PROVE  k \in DOMAIN edges /\ edges[k] = "firm"
  BY <1>1, <1>3 DEF Weak, Proposable
<1>4. Qualifying(net.edges) \subseteq Qualifying(edges)
  <2> SUFFICES ASSUME NEW k \in DOMAIN net.edges, k[3] = "LOCAL", net.edges[k] = "firm",
                      <<k[2], k[1], "LOCAL">> \in DOMAIN net.edges,
                      net.edges[<<k[2], k[1], "LOCAL">>] = "firm"
               PROVE  {k[1], k[2]} \in Qualifying(edges)
    BY DEF Qualifying
  <2>1. k \in DOMAIN edges /\ edges[k] = "firm"
    BY <1>3
  <2>2. <<k[2], k[1], "LOCAL">> \in DOMAIN edges /\ edges[<<k[2], k[1], "LOCAL">>] = "firm"
    BY <1>3
  <2> QED BY <2>1, <2>2 DEF Qualifying
<1>5. \A l \in Qualifying(edges) : l \subseteq net.cells
  BY <1>2 DEF Qualifying, Endpoints
<1> QED BY <1>2, <1>4, <1>5 DEF edges

-----------------------------------------------------------------------------
(* Transactions.  What a tick that was planned as process_event does       *)
(* guarantees, besides what it does not say of the state it starts from.   *)
Dated(after) ==
  /\ after \in Seq(Events) /\ Len(after) <= Horizon
  /\ \A i \in DOMAIN after :
       /\ after[i].tick = net.tick + 1 - Len(after) + i - 1
       /\ after[i].active \subseteq net.cells

Sensible(tx, after) ==
  /\ DOMAIN Prospective(tx) \subseteq Keys
  /\ \A k \in DOMAIN Prospective(tx) : Endpoints(k) \subseteq net.cells
  /\ \A c \in Cells : Cardinality(Outgoing(Prospective(tx), c)) <= SynapticBudget
  /\ Qualifying(net.edges) \subseteq Qualifying(Prospective(tx))
  /\ Drafted(tx.assemblies)
  /\ tx.deletes \subseteq DOMAIN net.edges /\ tx.deletes \cap DOMAIN tx.upserts = {}
  /\ tx.active \subseteq net.cells
  /\ tx.commits \subseteq Cells \ net.cells
  /\ tx.active \cup tx.drive \cup tx.commits \subseteq Referred(after)
  /\ \A k \in tx.blocked :
       k[2] \in tx.active /\ Outgoing(Prospective(tx), k[1]) # {}
  /\ Dated(after)

LEMMA ProspectiveKeys ==
  ASSUME NEW tx
  PROVE  /\ DOMAIN Prospective(tx) = (DOMAIN net.edges \ tx.deletes) \cup DOMAIN tx.upserts
         /\ Prospective(tx) = [k \in DOMAIN Prospective(tx) |-> Prospective(tx)[k]]
BY DEF Prospective

(* The validator counts the memberships of a cell by what changes, and     *)
(* counts right; the index it keeps is the one that would be built.        *)
LEMMA CountsHold ==
  ASSUME CoreInductive, NEW tx, IsFiniteSet(DOMAIN tx.assemblies), NEW c \in Cells
  PROVE  /\ Count(tx, c) = Cardinality(Holding(tx.assemblies, c))
         /\ Holding(tx.assemblies, c) =
              (net.memberships[c] \ (Upserted(tx) \cup Deleted(tx)))
                \cup {a \in Upserted(tx) : c \in tx.assemblies[a]}
<1> DEFINE ids == Upserted(tx) \cup Deleted(tx)
           A   == Holding(net.assemblies, c)
           B   == {a \in A : a \in ids}
           R   == A \ ids
           N   == {a \in Upserted(tx) : c \in tx.assemblies[a]}
           M   == Holding(tx.assemblies, c)
<1>1. net.memberships[c] = A
  BY DEF CoreInductive, Indexed, Memberships, Holding
<1>2. Count(tx, c) = Cardinality(A) - Cardinality(B) + Cardinality(N)
  BY <1>1 DEF Count
<1>3. A = R \cup B /\ R \cap B = {} /\ R \cap N = {} /\ R \in SUBSET A /\ B \in SUBSET A
      /\ N \in SUBSET DOMAIN tx.assemblies
  BY DEF Upserted
<1>4. M = R \cup N
  BY DEF Holding, Upserted, Deleted
<1>5. IsFiniteSet(A)
  BY FiniteParts, FS_Subset DEF Holding
<1> HIDE DEF A, B, R, N, M
<1>6. IsFiniteSet(B) /\ IsFiniteSet(R) /\ IsFiniteSet(N) /\ Cardinality({}) = 0
  BY <1>3, <1>5, FS_Subset, FS_EmptySet
<1>7. Cardinality(B) \in Nat /\ Cardinality(R) \in Nat /\ Cardinality(N) \in Nat
  BY <1>6, FS_CardinalityType
<1>8. Cardinality(A) = Cardinality(R) + Cardinality(B)
  <2>1. Cardinality(R \cup B) = Cardinality(R) + Cardinality(B) - Cardinality(R \cap B)
    BY <1>6, FS_Union
  <2>2. Cardinality(A) = Cardinality(R) + Cardinality(B) - Cardinality({})
    BY <1>3, <2>1, Zenon
  <2> QED BY <1>6, <1>7, <2>2
<1>9. Cardinality(M) = Cardinality(R) + Cardinality(N)
  <2>1. Cardinality(R \cup N) = Cardinality(R) + Cardinality(N) - Cardinality(R \cap N)
    BY <1>6, FS_Union
  <2>2. Cardinality(M) = Cardinality(R) + Cardinality(N) - Cardinality({})
    BY <1>3, <1>4, <2>1, Zenon
  <2> QED BY <1>6, <1>7, <2>2
<1>10. Count(tx, c) = Cardinality(M)
  BY <1>2, <1>7, <1>8, <1>9
<1> QED BY <1>1, <1>4, <1>10 DEF M, R, N

(* What is not referred to any more.                                       *)
LEMMA ReclaimedAreFree ==
  ASSUME CoreInductive, NEW tx, NEW after, Sensible(tx, after),
         NEW c \in Reclaimable(tx, Prospective(tx), after)
  PROVE  /\ c \in net.cells /\ c \in Cells /\ c \notin tx.active /\ c \notin tx.commits
         /\ c \notin References(tx) /\ c \notin Referred(after)
         /\ \A a \in DOMAIN tx.assemblies : c \notin tx.assemblies[a]
         /\ \A k \in DOMAIN Prospective(tx) : c # k[1] /\ c # k[2]
<1> DEFINE edges == Prospective(tx)
<1>1. c \in net.cells /\ c \in Cells
  BY FiniteParts DEF Reclaimable
<1>2. c \notin tx.active /\ c \notin References(tx) /\ c \notin Referred(after)
  BY DEF Reclaimable
<1>3. c \notin tx.commits
  BY <1>1 DEF Sensible
<1>4. \A a \in DOMAIN tx.assemblies : c \notin tx.assemblies[a]
  BY DEF Reclaimable
<1>5. c \notin UNION {Endpoints(k) : k \in DOMAIN edges}
  BY DEF Reclaimable
<1>6. ASSUME NEW k \in DOMAIN edges
      PROVE  c # k[1] /\ c # k[2]
  <2>1. c \notin Endpoints(k)
    BY <1>5
  <2> QED BY <2>1 DEF Endpoints
<1> QED BY <1>1, <1>2, <1>3, <1>4, <1>6

(* A plan whose assemblies are supported by qualifying synapses is lawful. *)
LEMMA PlanIsLawful ==
  ASSUME CoreInductive, NEW tx, NEW after, Sensible(tx, after),
         Planned(tx.assemblies, Qualifying(Prospective(tx)))
  PROVE  Lawful(tx, Prospective(tx), Reclaimable(tx, Prospective(tx), after))
<1> DEFINE edges    == Prospective(tx)
           reclaims == Reclaimable(tx, edges, after)
           plan     == tx.assemblies
<1>1. DOMAIN edges = (DOMAIN net.edges \ tx.deletes) \cup DOMAIN tx.upserts
  BY ProspectiveKeys
<1>2. LawfulEdges(tx, edges)
  <2> SUFFICES ASSUME NEW k \in tx.deletes \cup DOMAIN tx.upserts
               PROVE  /\ k[1] \in net.cells
                      /\ Cardinality(Outgoing(edges, k[1])) <= SynapticBudget
                      /\ \A j \in Outgoing(edges, k[1]) : j \in Keys /\ j[2] \in net.cells
    BY DEF LawfulEdges
  <2>1. k[1] \in net.cells
    BY <1>1 DEF Sensible, Endpoints, CoreInductive, Loadable
  <2>2. k[1] \in Cells
    BY <2>1, FiniteParts
  <2>3. Cardinality(Outgoing(edges, k[1])) <= SynapticBudget
    BY <2>2 DEF Sensible
  <2>4. \A j \in Outgoing(edges, k[1]) : j \in Keys /\ j[2] \in net.cells
    BY DEF Sensible, Outgoing, Endpoints
  <2> QED BY <2>1, <2>3, <2>4
<1>3. Planned(plan, Qualifying(edges))
  OBVIOUS
<1>4. \A c \in Cells : Count(tx, c) = Cardinality(Holding(plan, c))
  BY CountsHold DEF Sensible, Drafted
<1>5. LawfulAssemblies(tx, edges)
  <2> SUFFICES ASSUME NEW a \in Upserted(tx)
               PROVE  /\ Sized(plan[a]) /\ plan[a] \in Compact /\ plan[a] \subseteq net.cells
                      /\ \A b \in Upserted(tx) : plan[b] = plan[a] => a = b
                      /\ plan[a] \in DOMAIN net.index =>
                           net.index[plan[a]] \in {a} \cup Upserted(tx) \cup Deleted(tx)
                      /\ \A c \in plan[a] : Count(tx, c) <= MMax
                      /\ Connected(plan[a], Qualifying(edges))
    BY DEF LawfulAssemblies
  <2>1. a \in DOMAIN plan
    BY DEF Upserted
  <2>2. Shaped(plan[a], Qualifying(edges))
    BY <1>3, <2>1 DEF Planned
  <2>3. \A b \in DOMAIN plan : plan[b] = plan[a] => a = b
    BY <1>3, <2>1 DEF Planned, Distinct
  <2>4. ASSUME plan[a] \in DOMAIN net.index
        PROVE  net.index[plan[a]] \in {a} \cup Upserted(tx) \cup Deleted(tx)
    <3>1. PICK b \in DOMAIN net.assemblies : net.assemblies[b] = plan[a]
      BY <2>4, IndexTells
    <3>2. net.index[plan[a]] = b
      BY <3>1, IndexTells
    <3>3. ASSUME b \notin Upserted(tx) \cup Deleted(tx)
          PROVE  b = a
      BY <2>3, <3>1, <3>3 DEF Upserted, Deleted
    <3> QED BY <3>2, <3>3
  <2>5. ASSUME NEW c \in plan[a]
        PROVE  Count(tx, c) <= MMax
    <3>1. c \in Cells
      BY <2>2, <2>5, FiniteParts DEF Shaped
    <3> QED BY <1>3, <1>4, <3>1 DEF Planned, Spread
  <2>6. Upserted(tx) \subseteq DOMAIN plan
    BY DEF Upserted
  <2> QED BY <2>2, <2>3, <2>4, <2>5, <2>6 DEF Shaped
<1>6. LawfulReclaims(tx, edges, reclaims)
  <2> SUFFICES ASSUME NEW c \in reclaims
               PROVE  /\ c \notin References(tx) /\ Count(tx, c) = 0
                      /\ Outgoing(edges, c) = {}
                      /\ \A k \in net.incoming \cup DOMAIN tx.upserts :
                           k[2] = c => k \in tx.deletes /\ k \notin DOMAIN tx.upserts
    BY DEF LawfulReclaims
  <2>1. /\ c \in Cells /\ c \notin References(tx)
        /\ \A a \in DOMAIN plan : c \notin plan[a]
        /\ \A k \in DOMAIN edges : c # k[1] /\ c # k[2]
    BY ReclaimedAreFree
  <2>2. Holding(plan, c) = {}
    BY <2>1 DEF Holding
  <2>3. Count(tx, c) = 0
    BY <1>4, <2>1, <2>2, FS_EmptySet
  <2>4. Outgoing(edges, c) = {}
    BY <2>1 DEF Outgoing
  <2>5. \A k \in net.incoming \cup DOMAIN tx.upserts :
          k[2] = c => k \in tx.deletes /\ k \notin DOMAIN tx.upserts
    BY <1>1, <2>1 DEF CoreInductive, Indexed
  <2> QED BY <2>1, <2>3, <2>4, <2>5
<1>7. tx.active \subseteq net.cells
  BY DEF Sensible
<1> QED BY <1>2, <1>5, <1>6, <1>7 DEF Lawful

(* And of a lawful one the assemblies are all that they have to be, those  *)
(* included that it does not touch.                                        *)
LEMMA LawfulIsPlanned ==
  ASSUME CoreInductive, NEW tx, NEW after, Sensible(tx, after), NEW reclaims,
         Lawful(tx, Prospective(tx), reclaims)
  PROVE  Planned(tx.assemblies, Qualifying(Prospective(tx)))
<1> DEFINE edges == Prospective(tx)
           links == Qualifying(edges)
           plan  == tx.assemblies
<1>1. Fit(net.assemblies, links)
  BY StandingFits DEF Sensible
<1>2. LawfulAssemblies(tx, edges)
  BY DEF Lawful
<1>3. ASSUME NEW a \in DOMAIN plan, a \notin Upserted(tx)
      PROVE  a \in DOMAIN net.assemblies /\ net.assemblies[a] = plan[a] /\ a \notin Deleted(tx)
  BY <1>3 DEF Upserted, Deleted
<1>4. ASSUME NEW a \in DOMAIN plan
      PROVE  Shaped(plan[a], links)
  <2>1. CASE a \in Upserted(tx)
    BY <1>2, <2>1 DEF LawfulAssemblies, Shaped
  <2>2. CASE a \notin Upserted(tx)
    BY <1>1, <1>3, <2>2 DEF Fit
  <2> QED BY <2>1, <2>2
<1>5. ASSUME NEW a \in Upserted(tx), NEW b \in DOMAIN plan, plan[a] = plan[b]
      PROVE  a = b
  <2>1. CASE b \in Upserted(tx)
    BY <1>2, <1>5, <2>1 DEF LawfulAssemblies
  <2>2. CASE b \notin Upserted(tx)
    <3>1. /\ b \in DOMAIN net.assemblies /\ net.assemblies[b] = plan[a]
          /\ b \notin Deleted(tx)
      BY <1>3, <1>5, <2>2
    <3>2. plan[a] \in DOMAIN net.index /\ net.index[plan[a]] = b
      BY <3>1, IndexTells
    <3>3. b \in {a} \cup Upserted(tx) \cup Deleted(tx)
      BY <1>2, <3>2 DEF LawfulAssemblies
    <3> QED BY <2>2, <3>1, <3>3
  <2> QED BY <2>1, <2>2
<1>6. Distinct(plan)
  <2> SUFFICES ASSUME NEW a \in DOMAIN plan, NEW b \in DOMAIN plan, plan[a] = plan[b]
               PROVE  a = b
    BY DEF Distinct
  <2>1. CASE a \notin Upserted(tx) /\ b \notin Upserted(tx)
    BY <1>1, <1>3, <2>1 DEF Fit, Distinct
  <2> QED BY <1>5, <2>1
<1>7. Spread(plan)
  <2> SUFFICES ASSUME NEW c \in Cells
               PROVE  Cardinality(Holding(plan, c)) <= MMax
    BY DEF Spread
  <2>1. CASE \E a \in Upserted(tx) : c \in plan[a]
    <3>1. Count(tx, c) <= MMax
      BY <1>2, <2>1 DEF LawfulAssemblies
    <3> QED BY <3>1, CountsHold DEF Sensible, Drafted
  <2>2. CASE \A a \in Upserted(tx) : c \notin plan[a]
    <3>1. Holding(plan, c) \subseteq Holding(net.assemblies, c)
      BY <1>3, <2>2 DEF Holding
    <3>2. IsFiniteSet(Holding(net.assemblies, c))
      BY FiniteParts, FS_Subset DEF Holding
    <3>3. /\ Cardinality(Holding(plan, c)) \in Nat
          /\ Cardinality(Holding(net.assemblies, c)) \in Nat
          /\ Cardinality(Holding(plan, c)) <= Cardinality(Holding(net.assemblies, c))
      BY <3>1, <3>2, FS_Subset, FS_CardinalityType
    <3>4. Cardinality(Holding(net.assemblies, c)) <= MMax
      BY <1>1 DEF Fit, Spread
    <3> QED BY <3>3, <3>4, CoreTickAssumption
  <2> QED BY <2>1, <2>2
<1> QED BY <1>4, <1>6, <1>7 DEF Planned

LEMMA MostExists ==
  ASSUME NEW T, T \subseteq Nat, IsFiniteSet(T), T # {}
  PROVE  \E a \in T : \A b \in T : b <= a
<1>1. PICK f \in Seq(T) : \A b \in T : \E i \in 1 .. Len(f) : f[i] = b
  BY DEF IsFiniteSet
<1> DEFINE n == Len(f)
           below(a, i) == \A j \in 1 .. i : f[j] <= a
           S == {i \in 0 .. n : \E a \in T : below(a, i)}
<1>2. n \in Nat /\ \A j \in 1 .. n : f[j] \in T /\ f[j] \in Nat
  <2>1. n \in Nat
    BY <1>1, LenProperties
  <2>2. \A j \in 1 .. n : f[j] \in T
    BY <1>1, ElementOfSeq
  <2> QED BY <2>1, <2>2
<1>3. PICK t \in T : TRUE
  OBVIOUS
<1>4. 0 \in S
  <2>1. 0 \in 0 .. n /\ below(t, 0)
    BY <1>2
  <2> QED BY <2>1, <1>3
<1>5. ASSUME NEW i \in 0 .. n - 1, i \in S
      PROVE  i + 1 \in S
  <2>1. PICK a \in T : below(a, i)
    BY <1>5
  <2>2. i + 1 \in 1 .. n /\ i + 1 \in 0 .. n /\ i \in Nat
    BY <1>2
  <2>3. \A j \in 1 .. i : j \in 1 .. n
    BY <1>2
  <2>4. a \in Nat /\ f[i + 1] \in Nat /\ f[i + 1] \in T
    BY <1>2, <2>2
  <2>5. \A j \in 1 .. i + 1 : j \in 1 .. i \/ j = i + 1
    BY <2>2
  <2>6. CASE f[i + 1] <= a
    <3>1. below(a, i + 1)
      BY <2>1, <2>5, <2>6
    <3> QED BY <2>2, <3>1
  <2>7. CASE a <= f[i + 1]
    <3>1. \A j \in 1 .. i : f[j] <= f[i + 1]
      BY <1>2, <2>1, <2>3, <2>4, <2>7
    <3>2. below(f[i + 1], i + 1)
      BY <2>4, <2>5, <3>1
    <3> QED BY <2>2, <2>4, <3>2
  <2> QED BY <2>4, <2>6, <2>7
<1>6. n \in S
  <2> HIDE DEF S, n
  <2> QED BY <1>2, <1>4, <1>5, ByInduction
<1>7. PICK a \in T : below(a, n)
  BY <1>6
<1> QED BY <1>1, <1>7

-----------------------------------------------------------------------------
(* The publication.  Nothing of a cell that goes is left to be cleared.    *)
LEMMA PublishedIs ==
  ASSUME CoreInductive, NEW tx, NEW after, Sensible(tx, after),
         Planned(tx.assemblies, Qualifying(Prospective(tx)))
  PROVE  LET edges    == Prospective(tx)
             reclaims == Reclaimable(tx, edges, after)
             n        == Published(tx, edges, reclaims)
         IN /\ DOMAIN n = {"cells", "active", "edges", "incoming", "assemblies", "index",
                           "memberships", "nextId", "tick"}
            /\ n = [x \in DOMAIN n |-> n[x]]
            /\ n.cells = (net.cells \cup tx.commits) \ reclaims
            /\ n.active = tx.active \ reclaims
            /\ n.edges = edges /\ n.incoming = DOMAIN edges
            /\ n.assemblies = tx.assemblies /\ n.tick = net.tick + 1
            /\ n.index = ById(tx.assemblies)
            /\ n.memberships = Memberships(tx.assemblies)
            /\ n.nextId \in Nat /\ DOMAIN tx.assemblies \subseteq 0 .. n.nextId - 1
<1> DEFINE edges    == Prospective(tx)
           reclaims == Reclaimable(tx, edges, after)
           n        == Published(tx, edges, reclaims)
           plan     == tx.assemblies
           ids      == Upserted(tx) \cup Deleted(tx)
           old      == {net.assemblies[a] : a \in ids \cap DOMAIN net.assemblies}
           new      == {plan[a] : a \in Upserted(tx)}
           index    == [S \in (DOMAIN net.index \ old) \cup new |->
                          IF S \in new THEN CHOOSE a \in Upserted(tx) : plan[a] = S
                          ELSE net.index[S]]
           members  == [c \in Cells |->
                          IF c \in reclaims THEN {}
                          ELSE (net.memberships[c] \ ids)
                                 \cup {a \in Upserted(tx) : c \in plan[a]}]
           next     == IF \A a \in Upserted(tx) : a < net.nextId THEN net.nextId
                       ELSE 1 + CHOOSE a \in Upserted(tx) : \A b \in Upserted(tx) : b <= a
<1>1. n = [cells |-> (net.cells \cup tx.commits) \ reclaims,
           active |-> tx.active \ reclaims,
           edges |-> [k \in {j \in DOMAIN edges : j[1] \notin reclaims} |-> edges[k]],
           incoming |-> {k \in (net.incoming \ tx.deletes) \cup DOMAIN tx.upserts : k[2] \notin reclaims},
           assemblies |-> plan, index |-> index, memberships |-> members, nextId |-> next,
           tick |-> net.tick + 1]
  BY Zenon DEF Published
<1> HIDE DEF n
<1>2. [k \in {j \in DOMAIN edges : j[1] \notin reclaims} |-> edges[k]] = edges
  <2>1. {j \in DOMAIN edges : j[1] \notin reclaims} = DOMAIN edges
    BY ReclaimedAreFree
  <2> QED BY <2>1, ProspectiveKeys, Zenon
<1>3. {k \in (net.incoming \ tx.deletes) \cup DOMAIN tx.upserts : k[2] \notin reclaims} = DOMAIN edges
  <2>1. (net.incoming \ tx.deletes) \cup DOMAIN tx.upserts = DOMAIN edges
    BY ProspectiveKeys DEF CoreInductive, Indexed
  <2>2. \A k \in DOMAIN edges : k[2] \notin reclaims
    BY ReclaimedAreFree
  <2> QED BY <2>1, <2>2
<1>4. Planned(plan, Qualifying(edges))
  OBVIOUS
<1>5. index = ById(plan)
  <2> DEFINE all == {plan[a] : a \in DOMAIN plan}
             by  == [S \in all |-> CHOOSE a \in DOMAIN plan : plan[a] = S]
  <2>1. ASSUME NEW a \in DOMAIN plan
        PROVE  plan[a] \in DOMAIN index /\ index[plan[a]] = a
    <3>1. \A b \in DOMAIN plan : plan[b] = plan[a] => b = a
      BY <1>4 DEF Planned, Distinct
    <3>2. Upserted(tx) \subseteq DOMAIN plan
      BY DEF Upserted
    <3>3. CASE plan[a] \in new
      <4>1. PICK b \in Upserted(tx) : plan[b] = plan[a]
        BY <3>3
      <4>2. a \in Upserted(tx)
        BY <3>1, <3>2, <4>1
      <4>3. (CHOOSE d \in Upserted(tx) : plan[d] = plan[a]) = a
        BY <3>1, <3>2, <4>2
      <4> QED BY <3>3, <4>3
    <3>4. CASE plan[a] \notin new
      <4>1. a \notin Upserted(tx)
        BY <3>4
      <4>2. a \in DOMAIN net.assemblies /\ net.assemblies[a] = plan[a]
        BY <4>1 DEF Upserted
      <4>3. net.index[plan[a]] = a /\ plan[a] \in DOMAIN net.index
        BY <4>2, IndexTells
      <4>4. plan[a] \notin old
        <5>1. SUFFICES ASSUME NEW b \in ids \cap DOMAIN net.assemblies,
                              net.assemblies[b] = plan[a]
                       PROVE  FALSE
          OBVIOUS
        <5>2. b = a
          BY <4>2, <5>1, IndexTells
        <5> QED BY <4>1, <5>1, <5>2 DEF Deleted
      <4> QED BY <3>4, <4>3, <4>4
    <3> QED BY <3>3, <3>4
  <2>2. ASSUME NEW S \in DOMAIN index
        PROVE  S \in all
    <3>1. CASE S \in new
      BY <3>1 DEF Upserted
    <3>2. CASE S \notin new
      <4>1. S \in DOMAIN net.index \ old
        BY <3>2
      <4>2. PICK a \in DOMAIN net.assemblies : net.assemblies[a] = S
        BY <4>1, IndexTells
      <4>3. a \notin ids
        BY <4>1, <4>2
      <4> QED BY <4>2, <4>3 DEF Upserted, Deleted
    <3> QED BY <3>1, <3>2
  <2>3. DOMAIN index = all
    BY <2>1, <2>2
  <2>4. ASSUME NEW S \in all
        PROVE  index[S] = by[S]
    <3>1. PICK a \in DOMAIN plan : plan[a] = S
      BY <2>4
    <3>2. (CHOOSE b \in DOMAIN plan : plan[b] = S) = a
      BY <1>4, <3>1 DEF Planned, Distinct
    <3> QED BY <2>1, <3>1, <3>2
  <2>5. index = by
    <3>1. index = [S \in DOMAIN index |-> index[S]]
      OBVIOUS
    <3> HIDE DEF index
    <3>2. index = [S \in all |-> index[S]]
      BY <2>3, <3>1, Zenon
    <3> QED BY <2>4, <3>2, Zenon
  <2> QED BY <2>5, Zenon DEF ById
<1>6. members = Memberships(plan)
  <2>1. ASSUME NEW c \in Cells
        PROVE  members[c] = {a \in DOMAIN plan : c \in plan[a]}
    <3>1. CASE c \in reclaims
      BY <3>1, ReclaimedAreFree
    <3>2. CASE c \notin reclaims
      <4>1. Holding(plan, c) = (net.memberships[c] \ ids) \cup {a \in Upserted(tx) : c \in plan[a]}
        BY CountsHold DEF Sensible, Drafted
      <4> QED BY <3>2, <4>1 DEF Holding
    <3> QED BY <3>1, <3>2
  <2> QED BY <2>1, Zenon DEF Memberships
<1>7. next \in Nat /\ DOMAIN plan \subseteq 0 .. next - 1
  <2>1. /\ net.nextId \in Nat /\ DOMAIN plan \subseteq Nat /\ IsFiniteSet(DOMAIN plan)
        /\ \A a \in DOMAIN net.assemblies : a < net.nextId
    BY FiniteParts DEF Sensible, Drafted, CoreInductive, Savable
  <2>2. \A a \in DOMAIN plan : a \in Upserted(tx) \/ a < net.nextId
    BY <2>1 DEF Upserted
  <2>3. CASE \A a \in Upserted(tx) : a < net.nextId
    BY <2>1, <2>2, <2>3
  <2>4. CASE ~ \A a \in Upserted(tx) : a < net.nextId
    <3> DEFINE U == Upserted(tx)
               most == CHOOSE a \in U : \A b \in U : b <= a
    <3>1. PICK u \in U : ~(u < net.nextId)
      BY <2>4
    <3>2. U \subseteq DOMAIN plan
      BY DEF Upserted
    <3>3. IsFiniteSet(U) /\ U # {}
      BY <2>1, <3>1, <3>2, FS_Subset
    <3>a. U \subseteq Nat
      BY <2>1, <3>2
    <3>4. \E a \in U : \A b \in U : b <= a
      BY <3>a, <3>3, MostExists, Zenon
    <3>5. most \in U /\ \A b \in U : b <= most
      BY <3>4, Zenon
    <3>6. next = 1 + most
      BY <2>4
    <3> HIDE DEF most, next, U
    <3>7. most \in Nat
      BY <2>1, <3>2, <3>5
    <3>8. u <= most /\ u \in Nat
      BY <2>1, <3>1, <3>2, <3>5
    <3>9. next \in Nat
      BY <3>6, <3>7
    <3>10. ASSUME NEW a \in DOMAIN plan
           PROVE  a \in 0 .. next - 1
      <4>1. a \in Nat
        BY <2>1
      <4>2. a <= most
        BY <2>1, <2>2, <3>1, <3>5, <3>7, <3>8, <4>1 DEF U
      <4> QED BY <3>6, <3>7, <4>1, <4>2
    <3> QED BY <3>9, <3>10
  <2> QED BY <2>3, <2>4
<1> HIDE DEF index, members, next, edges, reclaims, plan
<1>8. /\ DOMAIN n = {"cells", "active", "edges", "incoming", "assemblies", "index",
                     "memberships", "nextId", "tick"}
      /\ n.cells = (net.cells \cup tx.commits) \ reclaims
      /\ n.active = tx.active \ reclaims
      /\ n.edges = edges /\ n.incoming = DOMAIN edges
      /\ n.assemblies = plan /\ n.tick = net.tick + 1
      /\ n.index = index /\ n.memberships = members /\ n.nextId = next
  BY <1>1, <1>2, <1>3
<1>9. n = [x \in DOMAIN n |-> n[x]]
  BY <1>1
<1>10. /\ n.index = ById(plan) /\ n.memberships = Memberships(plan)
       /\ n.nextId \in Nat /\ DOMAIN plan \subseteq 0 .. n.nextId - 1
  BY <1>5, <1>6, <1>7, <1>8
<1> QED BY <1>8, <1>9, <1>10, Zenon DEF n, edges, reclaims, plan

(* What is lawful and published can be saved and loaded, and what is not   *)
(* referred to any more has gone.                                          *)
LEMMA CommitHolds ==
  ASSUME CoreInductive, NEW tx, NEW after, Sensible(tx, after),
         Planned(tx.assemblies, Qualifying(Prospective(tx))),
         NEW n, n = Published(tx, Prospective(tx), Reclaimable(tx, Prospective(tx), after))
  PROVE  Held(n, after)
<1> DEFINE edges    == Prospective(tx)
           reclaims == Reclaimable(tx, edges, after)
           plan     == tx.assemblies
<1>1. n.cells = (net.cells \cup tx.commits) \ reclaims /\ n.edges = edges /\ n.assemblies = plan
  BY PublishedIs
<1>2. Planned(plan, Qualifying(edges))
  OBVIOUS
<1>3. ASSUME NEW c \in net.cells, c \notin reclaims
      PROVE  c \in n.cells
  BY <1>1, <1>3
<1>4. Tied(n) \subseteq n.cells
  <2>1. ASSUME NEW k \in DOMAIN edges, NEW c \in Endpoints(k)
        PROVE  c \in n.cells
    <3>1. c \in net.cells
      BY DEF Sensible
    <3>2. c \notin reclaims
      BY ReclaimedAreFree DEF Endpoints
    <3> QED BY <1>3, <3>1, <3>2
  <2>2. ASSUME NEW a \in DOMAIN plan, NEW c \in plan[a]
        PROVE  c \in n.cells
    <3>1. c \in net.cells
      BY <1>2 DEF Planned, Shaped
    <3>2. c \notin reclaims
      BY ReclaimedAreFree
    <3> QED BY <1>3, <3>1, <3>2
  <2> QED BY <1>1, <2>1, <2>2 DEF Tied
<1>5. ASSUME NEW c \in n.cells, c \notin Tied(n), c \notin Referred(after)
      PROVE  FALSE
  <2>1. tx.active \cup tx.drive \cup tx.commits \subseteq Referred(after)
    BY DEF Sensible
  <2>2. \A k \in DOMAIN edges : c \notin Endpoints(k)
    BY <1>1, <1>5 DEF Tied
  <2>3. \A a \in DOMAIN plan : c \notin plan[a]
    BY <1>1, <1>5 DEF Tied
  <2>4. c \in net.cells /\ c \notin reclaims
    BY <1>1, <1>5, <2>1
  <2>5. c \notin References(tx)
    <3>1. \A k \in DOMAIN tx.upserts : k \in DOMAIN edges
      BY ProspectiveKeys
    <3>2. \A k \in tx.blocked : c \notin Endpoints(k)
      <4> SUFFICES ASSUME NEW k \in tx.blocked PROVE c # k[1] /\ c # k[2]
        BY DEF Endpoints
      <4>1. k[2] \in tx.active /\ Outgoing(edges, k[1]) # {}
        BY DEF Sensible
      <4>2. PICK j \in DOMAIN edges : j[1] = k[1]
        BY <4>1 DEF Outgoing
      <4> QED BY <1>5, <2>1, <2>2, <4>1, <4>2 DEF Endpoints
    <3>3. \A k \in DOMAIN tx.upserts \cup tx.blocked : c \notin Endpoints(k)
      BY <2>2, <3>1, <3>2
    <3>4. \A a \in Upserted(tx) : c \notin plan[a]
      BY <2>3 DEF Upserted
    <3> QED BY <1>5, <2>1, <3>3, <3>4 DEF References
  <2>6. c \notin ReclaimCandidates(tx, after)
    BY <1>5, <2>1, <2>2, <2>3, <2>4, <2>5 DEF Reclaimable
  <2>7. c \in Tied(net) \cup Referred(window)
    BY <2>4 DEF CoreInductive, Savable, Held
  <2>8. c \notin Referred(window)
    BY <1>5, <2>6 DEF ReclaimCandidates
  <2>9. ASSUME NEW k \in DOMAIN net.edges
        PROVE  c \notin Endpoints(k)
    <3>1. k \in tx.deletes \/ k \in DOMAIN edges
      BY ProspectiveKeys
    <3> QED BY <2>2, <2>6, <3>1 DEF ReclaimCandidates
  <2>10. ASSUME NEW a \in DOMAIN net.assemblies
         PROVE  c \notin net.assemblies[a]
    <3>1. c \notin net.assemblies[a] \ (IF a \in DOMAIN plan THEN plan[a] ELSE {})
      BY <2>6 DEF ReclaimCandidates
    <3> QED BY <2>3, <3>1
  <2> QED BY <2>7, <2>8, <2>9, <2>10 DEF Tied
<1> QED BY <1>4, <1>5 DEF Held

(* What is refused changes nothing, and what is lawful keeps the invariant.*)
LEMMA CommitKeeps ==
  ASSUME CoreInductive, NEW tx, NEW after, Sensible(tx, after), Commit(tx, after),
         Lawful(tx, Prospective(tx), Reclaimable(tx, Prospective(tx), after))
  PROVE  CoreInductive' /\ refused' = refused
<1> DEFINE edges    == Prospective(tx)
           reclaims == Reclaimable(tx, edges, after)
           plan     == tx.assemblies
           n        == Published(tx, edges, reclaims)
<1>1. net' = n /\ window' = after /\ root' = root + 1 /\ refused' = refused
  BY Zenon DEF Commit
<1>a. Planned(plan, Qualifying(edges))
  BY LawfulIsPlanned
<1>2. /\ DOMAIN n = {"cells", "active", "edges", "incoming", "assemblies", "index",
                     "memberships", "nextId", "tick"}
      /\ n = [x \in DOMAIN n |-> n[x]]
      /\ n.cells = (net.cells \cup tx.commits) \ reclaims
      /\ n.active = tx.active \ reclaims
      /\ n.edges = edges /\ n.incoming = DOMAIN edges
      /\ n.assemblies = plan /\ n.tick = net.tick + 1
      /\ n.index = ById(plan) /\ n.memberships = Memberships(plan)
      /\ n.nextId \in Nat /\ DOMAIN plan \subseteq 0 .. n.nextId - 1
  BY <1>a, PublishedIs, Zenon
<1>3. Held(n, after)
  BY <1>a, CommitHolds
<1> HIDE DEF n
<1>4. Planned(plan, Qualifying(edges))
  BY <1>a
<1>5. n.cells \subseteq Cells
  BY <1>2, FiniteParts DEF Sensible
<1>6. ASSUME NEW c \in net.cells, c \notin reclaims
      PROVE  c \in n.cells
  BY <1>2, <1>6
<1>7. Loadable(n)
  <2>1. ASSUME NEW k \in DOMAIN edges
        PROVE  k \in Keys /\ Endpoints(k) \subseteq n.cells
    <3>1. k \in Keys /\ Endpoints(k) \subseteq net.cells
      BY DEF Sensible
    <3>2. \A c \in Endpoints(k) : c \notin reclaims
      BY ReclaimedAreFree DEF Endpoints
    <3> QED BY <1>6, <3>1, <3>2
  <2>2. \A c \in n.cells : Cardinality(Outgoing(edges, c)) <= SynapticBudget
    BY <1>5 DEF Sensible
  <2>3. ASSUME NEW a \in DOMAIN plan
        PROVE  /\ Sized(plan[a]) /\ plan[a] \in Compact /\ plan[a] \subseteq n.cells
               /\ Connected(plan[a], Qualifying(edges))
               /\ \A b \in DOMAIN plan : plan[b] = plan[a] => a = b
    <3>1. Shaped(plan[a], Qualifying(edges)) /\ \A b \in DOMAIN plan : plan[b] = plan[a] => a = b
      BY <1>4 DEF Planned, Distinct
    <3>2. \A c \in plan[a] : c \notin reclaims
      BY ReclaimedAreFree
    <3> QED BY <1>6, <3>1, <3>2 DEF Shaped
  <2>4. \A c \in Cells : Cardinality(Memberships(plan)[c]) <= MMax
    BY <1>4 DEF Planned, Spread, Memberships, Holding
  <2> QED BY <1>2, <2>1, <2>2, <2>3, <2>4 DEF Loadable
<1>8. InStep(n, after, root + 1)
  <2>1. root = net.tick /\ net.tick \in Nat
    BY DEF CoreInductive, Savable, InStep
  <2>2. ASSUME NEW i \in DOMAIN after
        PROVE  after[i].tick = n.tick - Len(after) + i - 1 /\ after[i].active \subseteq n.cells
    <3>1. after[i].tick = net.tick + 1 - Len(after) + i - 1 /\ after[i].active \subseteq net.cells
      BY DEF Sensible, Dated
    <3>2. \A c \in after[i].active : c \in Referred(after)
      BY DEF Referred
    <3>3. \A c \in after[i].active : c \notin reclaims
      BY <3>2, ReclaimedAreFree
    <3>4. after[i].active \subseteq n.cells
      BY <1>6, <3>1, <3>3
    <3>5. n.tick = net.tick + 1
      BY <1>2
    <3>6. after[i].tick = n.tick - Len(after) + i - 1
      <4>1. i \in 1 .. Len(after) /\ Len(after) \in Nat
        BY LenProperties DEF Sensible, Dated
      <4> QED BY <2>1, <3>1, <3>5, <4>1
    <3> QED BY <3>4, <3>6
  <2>3. Len(after) <= Horizon
    BY DEF Sensible, Dated
  <2> QED BY <1>2, <2>1, <2>2, <2>3 DEF InStep
<1>9. Savable(n, after, root + 1)
  <2>1. n.active \subseteq n.cells
    BY <1>2 DEF Sensible
  <2>2. {n.nextId, n.tick} \subseteq Nat /\ DOMAIN n.assemblies \subseteq 0 .. n.nextId - 1
    BY <1>2 DEF CoreInductive, Savable
  <2>3. after \in Seq([tick : Nat, active : SUBSET Cells, drive : SUBSET Cells])
    BY DEF Sensible, Dated, Events
  <2> QED BY <1>2, <1>3, <1>5, <1>8, <2>1, <2>2, <2>3, Zenon DEF Savable
<1>10. Savable(net', window', root') /\ Loadable(net')
  BY <1>1, <1>7, <1>9, Zenon
<1>11. Indexed'
  BY <1>1, <1>2, Zenon DEF Indexed
<1> QED BY <1>1, <1>10, <1>11 DEF CoreInductive

-----------------------------------------------------------------------------
(* The event.  What process_event plans is sensible.                       *)
LEMMA EventIsSensible ==
  ASSUME CoreInductive, NEW drive \in Surfaces, NEW boundary \in BOOLEAN,
         ProcessEvent(drive, boundary)
  PROVE  \E tx, after :
           /\ Sensible(tx, after) /\ Commit(tx, after)
           /\ ThetaPositive => Planned(tx.assemblies, Qualifying(Prospective(tx)))
<1> DEFINE history == IF boundary THEN <<>> ELSE window
           event(active) == [tick |-> net.tick, active |-> active, drive |-> drive]
           extended(active) == Extended(history, event(active))
           evidence(active) == Evidence(active, history)
           rejected(active, admitted, pruned) ==
             {k \in Proposable(evidence(active)) \ admitted : Full(admitted, pruned, k[1])}
           transaction(active, edges, admitted, pruned, commits, blocked, plan) ==
             [drive |-> drive, active |-> active, commits |-> commits,
              upserts |-> [k \in (Updated(evidence(active)) \ pruned) \cup admitted |-> edges[k]],
              deletes |-> pruned, blocked |-> blocked, assemblies |-> plan]
           planned(active, edges, admitted, pruned, ordinary, blocked, expansion, changed, due) ==
             LET links == Supported(edges)
                 rests == [a \in due |-> Remainders(a, links)]
             IN /\ Cardinality(ordinary \cup expansion) <= KR
                /\ \E outcome \in [due -> SUBSET Cells] :
                   /\ \A a \in due : outcome[a] \in rests[a]
                   /\ LET live == Maintained(outcome, links)
                      IN \E grows \in SUBSET Growths(live, changed, links) :
                         \E order \in SetToSeqs(grows) :
                         LET grown == Grown(live, order) IN
                         \E forms \in Accepted(grown, Forms(grown, changed, edges, links)) :
                         LET tx == transaction(active, edges, admitted, pruned, ordinary \cup expansion,
                                               blocked, WithForms(grown, forms))
                         IN Commit(tx, extended(active))
           learned(active, firmer, admitted, pruned) ==
             LET edges    == Relearned(firmer, admitted, pruned)
                 links    == Supported(edges)
                 changes  == Changes(Updated(evidence(active)), edges)
                 touched  == {Endpoints(k) : k \in Updated(evidence(active)) \cup admitted \cup pruned}
             IN /\ Arbitrates(admitted, pruned)
                /\ \E ordinary \in SUBSET Recruitable(drive),
                      blocked \in {{}, rejected(active, admitted, pruned)} :
                   \E expansion \in SUBSET Expandable(blocked, drive, Surviving(history), ordinary),
                      changed \in changes :
                   \E due \in {Meeting(support) : support \in Between(changed, touched)} :
                   planned(active, edges, admitted, pruned, ordinary, blocked, expansion, changed, due)
           activated(active) ==
             \E firmer \in SUBSET (Updated(evidence(active)) \cap Weak),
                admitted \in SUBSET Proposable(evidence(active)) :
             \E pruned \in SUBSET {k \in Weak \ firmer : From(admitted, k[1]) # {}} :
             learned(active, firmer, admitted, pruned)
<1>1. \E active \in SUBSET Excitable(drive, boundary) : activated(active)
  BY Zenon DEF ProcessEvent, Relearned
<1> HIDE DEF activated
<1>2. PICK active \in SUBSET Excitable(drive, boundary) : activated(active)
  BY <1>1
<1> HIDE DEF learned
<1>3. PICK firmer \in SUBSET (Updated(evidence(active)) \cap Weak),
           admitted \in SUBSET Proposable(evidence(active)) :
        \E pruned \in SUBSET {k \in Weak \ firmer : From(admitted, k[1]) # {}} :
           learned(active, firmer, admitted, pruned)
  BY <1>2, Zenon DEF activated
<1>4. PICK pruned \in SUBSET {k \in Weak \ firmer : From(admitted, k[1]) # {}} :
        learned(active, firmer, admitted, pruned)
  BY <1>3
<1> DEFINE edges == Relearned(firmer, admitted, pruned)
           links == Supported(edges)
           after == extended(active)
           touched == {Endpoints(k) : k \in Updated(evidence(active)) \cup admitted \cup pruned}
<1> HIDE DEF planned
<1>5. PICK ordinary \in SUBSET Recruitable(drive), blocked \in {{}, rejected(active, admitted, pruned)} :
        \E expansion \in SUBSET Expandable(blocked, drive, Surviving(history), ordinary),
           changed \in Changes(Updated(evidence(active)), edges) :
        \E due \in {Meeting(support) : support \in Between(changed, touched)} :
           planned(active, edges, admitted, pruned, ordinary, blocked, expansion, changed, due)
  BY <1>4, Zenon DEF learned
<1>6. Arbitrates(admitted, pruned)
  BY <1>4, Zenon DEF learned
<1>a. PICK expansion \in SUBSET Expandable(blocked, drive, Surviving(history), ordinary),
           changed \in Changes(Updated(evidence(active)), edges) :
        \E due \in {Meeting(support) : support \in Between(changed, touched)} :
           planned(active, edges, admitted, pruned, ordinary, blocked, expansion, changed, due)
  BY <1>5, Zenon
<1>p. PICK due \in {Meeting(support) : support \in Between(changed, touched)} :
        planned(active, edges, admitted, pruned, ordinary, blocked, expansion, changed, due)
  BY <1>a, Zenon
<1>7. planned(active, edges, admitted, pruned, ordinary, blocked, expansion, changed, due)
      /\ due \subseteq DOMAIN net.assemblies
  BY <1>p DEF Meeting
<1> DEFINE live(outcome) == Maintained(outcome, links)
           grown(outcome, order) == Grown(live(outcome), order)
           formed(outcome, order) ==
             Accepted(grown(outcome, order), Forms(grown(outcome, order), changed, edges, links))
           plan(outcome, order, forms) == WithForms(grown(outcome, order), forms)
           tx(outcome, order, forms) ==
             transaction(active, edges, admitted, pruned, ordinary \cup expansion, blocked,
                         plan(outcome, order, forms))
<1>8. PICK outcome \in [due -> SUBSET Cells] :
        /\ \A a \in due : outcome[a] \in Remainders(a, links)
        /\ \E grows \in SUBSET Growths(live(outcome), changed, links) :
           \E order \in SetToSeqs(grows) : \E forms \in formed(outcome, order) :
             Commit(tx(outcome, order, forms), after)
  <2>1. PICK outcome \in [due -> SUBSET Cells] :
          /\ \A a \in due : outcome[a] \in [b \in due |-> Remainders(b, links)][a]
          /\ \E grows \in SUBSET Growths(live(outcome), changed, links) :
             \E order \in SetToSeqs(grows) : \E forms \in formed(outcome, order) :
               Commit(tx(outcome, order, forms), after)
    BY <1>7, Zenon DEF planned
  <2>2. \A a \in due : [b \in due |-> Remainders(b, links)][a] = Remainders(a, links)
    BY Zenon
  <2> QED BY <2>1, <2>2, Zenon
<1>9. PICK grows \in SUBSET Growths(live(outcome), changed, links) :
        \E order \in SetToSeqs(grows) : \E forms \in formed(outcome, order) :
          Commit(tx(outcome, order, forms), after)
  BY <1>8, Zenon
<1>b. PICK order \in SetToSeqs(grows) : \E forms \in formed(outcome, order) :
        Commit(tx(outcome, order, forms), after)
  BY <1>9, Zenon
<1>10. PICK forms \in formed(outcome, order) : Commit(tx(outcome, order, forms), after)
  BY <1>b, Zenon
<1> DEFINE ev  == evidence(active)
           tx0 == tx(outcome, order, forms)
<1>11. ev \subseteq Keys /\ (\A k \in ev : k[2] \in active) /\ Updated(ev) \subseteq DOMAIN net.edges
  BY DEF Evidence, Updated
<1>12. Excitable(drive, boundary) \subseteq net.cells
  BY DEF Excitable, CoreInductive, Savable, Loadable, Endpoints
<1>13. /\ drive \subseteq Cells /\ active \subseteq net.cells
       /\ event(active) \in Events
  <2>1. drive \subseteq Cells
    BY CoreTickAssumption
  <2>2. active \subseteq net.cells /\ active \subseteq Cells
    BY <1>12, FiniteParts
  <2>3. net.tick \in Nat
    BY DEF CoreInductive, Savable
  <2> QED BY <2>1, <2>2, <2>3 DEF Events
<1>14. /\ Dated(after) /\ active \cup drive \subseteq Referred(after)
       /\ Referred(Surviving(history)) \subseteq Referred(after)
       /\ Referred(Surviving(history)) \subseteq Cells
  <2>1. history \in {<<>>, window} /\ event(active).tick = net.tick
        /\ event(active).active = active /\ event(active).drive = drive
    OBVIOUS
  <2> HIDE DEF history, event
  <2> QED BY <1>13, <2>1, WindowExtends DEF Dated
<1> HIDE DEF history, evidence, extended
<1>15. pruned \subseteq Weak /\ pruned \subseteq Weak \ firmer /\ admitted \subseteq Proposable(ev)
  OBVIOUS
<1>16. /\ DOMAIN edges \subseteq Keys
       /\ \A k \in DOMAIN edges : Endpoints(k) \subseteq net.cells
       /\ Qualifying(net.edges) \subseteq Qualifying(edges)
       /\ \A l \in Qualifying(edges) : l \subseteq net.cells
  BY <1>11, <1>15, RelearnedKeeps
<1>17. \A c \in Cells : /\ Cardinality(Outgoing(edges, c)) <= SynapticBudget
                        /\ Full(admitted, pruned, c) => Outgoing(edges, c) # {}
  BY <1>6, <1>11, <1>15, ArbitrationFits
<1>c. Len(order) \in Nat /\ \A i \in 1 .. Len(order) : order[i] \in Growths(live(outcome), changed, links)
  <2> DEFINE left == live(outcome)
  <2>1. DOMAIN left \subseteq DOMAIN net.assemblies
    BY DEF Maintained
  <2>2. IsFiniteSet(grows)
    <3>1. IsFiniteSet(DOMAIN left) /\ IsFiniteSet(net.cells)
      BY <2>1, FiniteParts, FS_Subset
    <3>2. IsFiniteSet((DOMAIN left) \X net.cells)
      BY <3>1, FS_Product
    <3>3. grows \subseteq (DOMAIN left) \X net.cells
      BY DEF Growths
    <3> QED BY <3>2, <3>3, FS_Subset
  <2>3. Cardinality(grows) \in Nat
    BY <2>2, FS_CardinalityType
  <2>4. order \in [1 .. Cardinality(grows) -> grows]
    BY DEF SetToSeqs
  <2>5. order \in Seq(grows) /\ Len(order) = Cardinality(grows)
    BY <2>3, <2>4
  <2> QED BY <2>3, <2>4, <2>5
<1>18. ASSUME ThetaPositive
       PROVE  Planned(plan(outcome, order, forms), links)
  <2> DEFINE left == live(outcome)
             new  == grown(outcome, order)
  <2>1. DOMAIN outcome = due /\ due \subseteq DOMAIN net.assemblies
    BY <1>7
  <2>2. links = Qualifying(edges)
    BY <1>18 DEF Supported
  <2> HIDE DEF links
  <2>3. Fit(left, links)
    BY <1>8, <1>16, <2>1, <2>2, MaintainedFits
  <2> HIDE DEF left
  <2>4. Fit(Grown(left, order), links)
    BY <1>c, <2>3, GrownFits DEF left
  <2>5. new = Grown(left, order)
    BY DEF left
  <2>6. forms \in Accepted(new, Forms(new, changed, edges, links))
    BY <1>10
  <2> HIDE DEF new, edges
  <2>7. Planned(WithForms(new, forms), links)
    BY <1>16, <2>2, <2>4, <2>5, <2>6, FormsArePlanned
  <2> QED BY <2>7, Zenon DEF new
<1>d. Drafted(plan(outcome, order, forms))
  <2> DEFINE left == live(outcome)
             new  == grown(outcome, order)
  <2>1. DOMAIN left \subseteq DOMAIN net.assemblies
    BY DEF Maintained
  <2> HIDE DEF left
  <2>2. new = Grown(left, order)
    BY DEF left
  <2>3. forms \in Accepted(new, Forms(new, changed, edges, links))
    BY <1>10
  <2> HIDE DEF new, edges, links
  <2>4. DOMAIN new \subseteq DOMAIN net.assemblies
    BY <1>c, <2>1, <2>2, GrownDomain
  <2>5. IsFiniteSet(forms)
    BY <2>3, FormsAreFinite
  <2>6. Drafted(WithForms(new, forms))
    BY <2>4, <2>5, FormsAreDrafted
  <2> QED BY <2>6, Zenon DEF new
<1> HIDE DEF plan, links
<1>19. /\ tx0.drive = drive /\ tx0.active = active /\ tx0.commits = ordinary \cup expansion
       /\ tx0.deletes = pruned /\ tx0.blocked = blocked /\ tx0.assemblies = plan(outcome, order, forms)
       /\ tx0.upserts = [k \in (Updated(ev) \ pruned) \cup admitted |-> edges[k]]
  OBVIOUS
<1> HIDE DEF tx
<1>20. admitted \cap DOMAIN net.edges = {} /\ pruned \subseteq DOMAIN net.edges
       /\ firmer \subseteq Updated(ev)
  BY <1>15 DEF Proposable, Weak
<1>21. DOMAIN tx0.upserts = (Updated(ev) \ pruned) \cup admitted
       /\ \A k \in DOMAIN tx0.upserts : tx0.upserts[k] = edges[k]
  BY <1>19
<1>22. DOMAIN edges = (DOMAIN net.edges \ pruned) \cup admitted
       /\ edges = [k \in DOMAIN edges |-> edges[k]]
       /\ \A k \in DOMAIN edges : k \notin firmer /\ k \notin admitted => edges[k] = net.edges[k]
  BY DEF Relearned
<1>23. Prospective(tx0) = edges
  <2>1. DOMAIN Prospective(tx0) = DOMAIN edges
    <3>1. DOMAIN Prospective(tx0) = (DOMAIN net.edges \ tx0.deletes) \cup DOMAIN tx0.upserts
      BY ProspectiveKeys
    <3> QED BY <1>11, <1>19, <1>21, <1>22, <3>1
  <2>2. ASSUME NEW k \in DOMAIN edges
        PROVE  Prospective(tx0)[k] = edges[k]
    <3>1. Prospective(tx0)[k] = IF k \in DOMAIN tx0.upserts THEN tx0.upserts[k] ELSE net.edges[k]
      BY <2>1 DEF Prospective
    <3>2. k \notin DOMAIN tx0.upserts => k \notin firmer /\ k \notin admitted
      BY <1>20, <1>21, <1>22
    <3> QED BY <1>21, <1>22, <3>1, <3>2
  <2>3. Prospective(tx0) = [k \in DOMAIN Prospective(tx0) |-> Prospective(tx0)[k]]
    BY ProspectiveKeys
  <2> DEFINE p == Prospective(tx0)
  <2> HIDE DEF edges, tx0, p
  <2>4. p = [k \in DOMAIN p |-> p[k]] /\ DOMAIN p = DOMAIN edges
        /\ \A k \in DOMAIN edges : p[k] = edges[k]
    BY <2>1, <2>2, <2>3 DEF p
  <2>5. p = [k \in DOMAIN edges |-> p[k]]
    BY <2>4, Zenon
  <2>6. [k \in DOMAIN edges |-> p[k]] = [k \in DOMAIN edges |-> edges[k]]
    BY <2>4, Zenon
  <2>7. p = edges
    BY <1>22, <2>5, <2>6, Zenon
  <2> QED BY <2>7 DEF p
<1>24. ordinary \cup expansion \subseteq Cells \ net.cells
       /\ ordinary \cup expansion \subseteq Referred(after)
  <2>1. ExpansionReserve(blocked, drive, Surviving(history)) \subseteq drive \cup Referred(Surviving(history))
    BY DEF ExpansionReserve, Referred
  <2>2. expansion \cap net.cells = {}
        /\ expansion \subseteq ExpansionReserve(blocked, drive, Surviving(history))
    BY DEF Expandable
  <2>3. ordinary \subseteq drive /\ ordinary \cap net.cells = {}
    BY DEF Recruitable
  <2> QED BY <1>13, <1>14, <2>1, <2>2, <2>3
<1>25. ASSUME NEW k \in blocked
       PROVE  k[2] \in active /\ Outgoing(edges, k[1]) # {}
  <2>1. k \in Proposable(ev) /\ Full(admitted, pruned, k[1])
    OBVIOUS
  <2>2. k \in ev
    BY <2>1 DEF Proposable
  <2>3. k[1] \in Cells
    BY <1>11, <2>2, KeysJoinCells
  <2> QED BY <1>11, <1>17, <2>1, <2>2, <2>3
<1> HIDE DEF edges, tx0, after, ev
<1>26. /\ DOMAIN Prospective(tx0) \subseteq Keys
       /\ \A k \in DOMAIN Prospective(tx0) : Endpoints(k) \subseteq net.cells
       /\ \A c \in Cells : Cardinality(Outgoing(Prospective(tx0), c)) <= SynapticBudget
  BY <1>16, <1>17, <1>23
<1>27. /\ Drafted(tx0.assemblies) /\ Qualifying(net.edges) \subseteq Qualifying(Prospective(tx0))
       /\ ThetaPositive => Planned(tx0.assemblies, Qualifying(Prospective(tx0)))
  <2>1. ThetaPositive => links = Qualifying(Prospective(tx0))
    BY <1>23 DEF links, Supported
  <2> QED BY <1>16, <1>18, <1>19, <1>23, <1>d, <2>1, Zenon
<1>28. tx0.deletes \subseteq DOMAIN net.edges /\ tx0.deletes \cap DOMAIN tx0.upserts = {}
  BY <1>19, <1>20, <1>21
<1>29. /\ tx0.active \subseteq net.cells /\ tx0.commits \subseteq Cells \ net.cells
       /\ tx0.active \cup tx0.drive \cup tx0.commits \subseteq Referred(after)
  BY <1>13, <1>14, <1>19, <1>24
<1>30. \A k \in tx0.blocked : k[2] \in tx0.active /\ Outgoing(Prospective(tx0), k[1]) # {}
  BY <1>19, <1>23, <1>25
<1>31. Sensible(tx0, after)
  BY <1>14, <1>26, <1>27, <1>28, <1>29, <1>30 DEF Sensible
<1> QED BY <1>10, <1>27, <1>31, Zenon DEF tx0

-----------------------------------------------------------------------------
(* A state that was saved is as every other one.                           *)
LEMMA LoadHolds ==
  ASSUME CoreInit
  PROVE  CoreInductive
<1>1. PICK s \in Seeds : /\ Loadable(s.net) /\ net = Rebuilt(s.net)
                         /\ window = s.window /\ root = s.root
  BY DEF CoreInit
<1> DEFINE n == s.net
<1>2. Savable(n, window, root) /\ Loadable(n)
  BY <1>1, SeedsAssumption
<1>3. DOMAIN n = {"cells", "active", "edges", "incoming", "assemblies", "index",
                  "memberships", "nextId", "tick"}
  BY <1>2 DEF Savable
<1> HIDE DEF n
<1>4. /\ net.cells = n.cells /\ net.active = n.active /\ net.edges = n.edges
      /\ net.assemblies = n.assemblies /\ net.nextId = n.nextId /\ net.tick = n.tick
      /\ net.incoming = DOMAIN n.edges /\ net.memberships = Memberships(n.assemblies)
      /\ net.index = ById(n.assemblies)
      /\ DOMAIN net = DOMAIN n /\ net = [x \in DOMAIN net |-> net[x]]
  <2>1. net = [n EXCEPT !.incoming = DOMAIN n.edges, !.memberships = Memberships(n.assemblies),
                        !.index = ById(n.assemblies)]
    BY <1>1 DEF Rebuilt, n
  <2> QED BY <1>3, <2>1
<1>5. Savable(net, window, root)
  BY <1>2, <1>3, <1>4 DEF Savable, InStep, Held, Tied
<1>6. Loadable(net)
  BY <1>2, <1>4 DEF Loadable
<1>7. Indexed
  BY <1>4 DEF Indexed
<1> QED BY <1>5, <1>6, <1>7 DEF CoreInductive

LEMMA StepHolds ==
  ASSUME CoreInductive, [CoreNext]_coreVars
  PROVE  CoreInductive' /\ (ThetaPositive => refused' = refused)
<1>1. CASE CoreNext
  <2>1. PICK drive \in Surfaces, boundary \in BOOLEAN : ProcessEvent(drive, boundary)
    BY <1>1 DEF CoreNext
  <2>2. PICK tx, after :
          /\ Sensible(tx, after) /\ Commit(tx, after)
          /\ ThetaPositive => Planned(tx.assemblies, Qualifying(Prospective(tx)))
    BY <2>1, EventIsSensible, Zenon
  <2> DEFINE lawful == Lawful(tx, Prospective(tx), Reclaimable(tx, Prospective(tx), after))
  <2>3. ThetaPositive => lawful
    BY <2>2, PlanIsLawful
  <2>4. CASE lawful
    BY <2>2, <2>4, CommitKeeps
  <2>5. CASE ~lawful
    <3>1. UNCHANGED <<net, window, root>>
      BY <2>2, <2>5, Zenon DEF Commit
    <3> QED BY <2>3, <2>5, <3>1 DEF CoreInductive, Indexed
  <2> QED BY <2>4, <2>5
<1>2. CASE UNCHANGED coreVars
  BY <1>2 DEF coreVars, CoreInductive, Indexed
<1> QED BY <1>1, <1>2

LEMMA AlwaysInductive == CoreSpec => []CoreInductive
<1>1. CoreInductive /\ [CoreNext]_coreVars => CoreInductive'
  BY StepHolds
<1> QED BY <1>1, LoadHolds, PTL DEF CoreSpec

LEMMA IndexesAreRebuilt ==
  ASSUME CoreInductive
  PROVE  RestartsAsItWas
<1>1. Rebuilt(net) = net
  BY DEF CoreInductive, Indexed, Rebuilt, Savable
<1> QED BY <1>1 DEF RestartsAsItWas, CoreInductive

(* PlansAreLawful.  With a threshold theta_A above zero, whatever          *)
(* process_event plans, commit validates: the planner and the validator,   *)
(* which count synapses, members and references each in its own way, do    *)
(* not disagree, and the root and the window follow the tick.  (With a     *)
(* threshold of zero they do.)                                             *)
THEOREM PlansAlwaysLawful == ThetaPositive => (CoreSpec => []PlansAreLawful)
<1> SUFFICES ASSUME ThetaPositive PROVE CoreSpec => []PlansAreLawful
  OBVIOUS
<1> DEFINE Agreed == CoreInductive /\ ~refused
<1>1. CoreInit => Agreed
  BY LoadHolds DEF CoreInit
<1>2. Agreed /\ [CoreNext]_coreVars => Agreed'
  BY StepHolds
<1>3. Agreed => PlansAreLawful
  BY DEF CoreInductive, Savable, PlansAreLawful
<1> HIDE DEF Agreed
<1> QED BY <1>1, <1>2, <1>3, PTL DEF CoreSpec

(* OnlyHeldCellsStay.  A cell is there exactly as long as something refers *)
(* to it: reclamation takes nothing that is still referred to, and looks   *)
(* at every cell in the tick in which its last reference goes.             *)
THEOREM OnlyHeldCellsEverStay == CoreSpec => []OnlyHeldCellsStay
<1>1. CoreInductive => OnlyHeldCellsStay
  BY DEF CoreInductive, Savable, OnlyHeldCellsStay
<1> QED BY <1>1, AlwaysInductive, PTL

(* RestartsAsItWas.  After any ticks the state passes every check of the   *)
(* loader, and what the loader rebuilds is what was there.                 *)
THEOREM AlwaysRestarts == CoreSpec => []RestartsAsItWas
BY IndexesAreRebuilt, AlwaysInductive, PTL
=============================================================================
