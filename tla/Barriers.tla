------------------------------ MODULE Barriers ------------------------------
(***************************************************************************)
(* cognition/locks.py: barriers with ranks, acquired in rank order by      *)
(* every thread, and the deferral of weakref finalizers, which acquire     *)
(* barriers of their own, to the release of the outermost barrier.         *)
(*                                                                         *)
(* A thread runs frames: its user code and, above it, finalizers that the  *)
(* garbage collector or the drain loop has called into it.  The package    *)
(* requires Python 3.12 (pyproject.toml:9), which collects when a function *)
(* is entered and when a call returns: so also after self._lock.acquire    *)
(* and before the thread-local stack names the barrier, on the way into    *)
(* _drain_cleanup before its flag is set, and after getattr found no queue *)
(* and before the flag is cleared.  Each is a state of its own here.       *)
(***************************************************************************)
EXTENDS Integers, SequencesExt

CONSTANTS Threads,
          Barriers,       \* RankedBarrier instances
          RankOf,         \* Core 0, lifecycle 1, ledger 2, arena 3, owner 4, registry 5
          Cleanups,       \* weakref finalizers, one for each tracked handle
          Needs,          \* the barriers a finalizer acquires, nested
          MaxDepth,  \* bound on the barriers user code holds at once
          None       \* no barrier, no thread, no queue

ASSUME BarriersAssumption ==
  /\ RankOf \in [Barriers -> 0 .. 5]
  /\ Needs \in [Cleanups -> Seq(Barriers)]
  /\ None \notin Threads \cup Barriers

VARIABLES owner,     \* the thread in each barrier's mutex, and
          depth,     \* how often it entered it (threading.RLock)
          stack,     \* _held.stack of each thread
          draining,  \* _held.draining
          cleanup,   \* _held.cleanup, or None before the thread's first deferral
          frames,    \* what each thread is executing, innermost last
          collected, \* handles whose finalizer has been called by the collector
          ran        \* finalizers that have run to their end

barriersVars == <<owner, depth, stack, draining, cleanup, frames, collected, ran>>

(* who runs, how many barriers it has pushed, the one it is acquiring,     *)
(* whether its mutex is already taken, whether it is unwinding, and where  *)
(* it is in a drain.                                                       *)
Frame(who) == [who |-> who, got |-> 0, want |-> None, taken |-> FALSE,
               unwinds |-> FALSE, drain |-> "no"]

Top(t) == Last(frames[t])
WithTop(t, f) == [frames EXCEPT ![t] = Append(Front(@), f)]

BarriersInit ==
  /\ owner = [b \in Barriers |-> None]
  /\ depth = [b \in Barriers |-> 0]
  /\ stack = [t \in Threads |-> <<>>]
  /\ draining = [t \in Threads |-> FALSE]
  /\ cleanup = [t \in Threads |-> None]
  /\ frames = [t \in Threads |-> <<Frame("user")>>]
  /\ collected = {} /\ ran = {}

-----------------------------------------------------------------------------
(* Fault: a barrier may be acquired in any order.                          *)
AllowedInAnyOrder(t, b) == TRUE

(* acquire: a lower rank, or another barrier of the same rank, is refused  *)
(* before the mutex is touched.                                            *)
Allowed(t, b) ==
  stack[t] # <<>> =>
    \/ RankOf[b] > RankOf[Last(stack[t])]
    \/ b = Last(stack[t])

Idle(f) == f.want = None /\ f.drain = "no"

Wants(t, b) ==
  /\ Idle(Top(t)) /\ Allowed(t, b)
  /\ frames' = WithTop(t, [Top(t) EXCEPT !.want = b])
  /\ UNCHANGED <<owner, depth, stack, draining, cleanup, collected, ran>>

UserAcquire(t, b) ==
  /\ Top(t).who = "user" /\ Len(stack[t]) < MaxDepth
  /\ Wants(t, b)

CleanupAcquire(t) ==
  /\ Top(t).who # "user" /\ ~Top(t).unwinds
  /\ Top(t).got < Len(Needs[Top(t).who])
  /\ Wants(t, Needs[Top(t).who][Top(t).got + 1])

(* self._lock.acquire: reentrant, blocks while another thread is inside.   *)
TakeMutex(t) ==
  /\ Top(t).want # None /\ ~Top(t).taken
  /\ owner[Top(t).want] \in {None, t}
  /\ owner' = [owner EXCEPT ![Top(t).want] = t]
  /\ depth' = [depth EXCEPT ![Top(t).want] = @ + 1]
  /\ frames' = WithTop(t, [Top(t) EXCEPT !.taken = TRUE])
  /\ UNCHANGED <<stack, draining, cleanup, collected, ran>>

(* _held.stack = next_stack, prepared before the mutex was taken.          *)
PushStack(t) ==
  /\ Top(t).taken
  /\ stack' = [stack EXCEPT ![t] = Append(@, Top(t).want)]
  /\ frames' = WithTop(t, [Top(t) EXCEPT !.want = None, !.taken = FALSE, !.got = @ + 1])
  /\ UNCHANGED <<owner, depth, draining, cleanup, collected, ran>>

(* release of the barrier on top; the outermost release goes on to drain.  *)
Release(t) ==
  /\ Idle(Top(t)) /\ Top(t).got > 0
  /\ Top(t).who # "user" /\ ~Top(t).unwinds => Top(t).got = Len(Needs[Top(t).who])
  /\ LET b        == Last(stack[t])
         previous == Front(stack[t])
         drains   == previous = <<>> /\ ~draining[t]
     IN /\ depth' = [depth EXCEPT ![b] = @ - 1]
        /\ owner' = [owner EXCEPT ![b] = IF depth[b] = 1 THEN None ELSE t]
        /\ stack' = [stack EXCEPT ![t] = previous]
        /\ frames' = WithTop(t, [Top(t) EXCEPT !.got = @ - 1, !.unwinds = Top(t).who # "user",
                                               !.drain = IF drains THEN "start" ELSE "no"])
  /\ UNCHANGED <<draining, cleanup, collected, ran>>

CleanupEnds(t) ==
  /\ Top(t).who # "user" /\ Idle(Top(t)) /\ Top(t).got = 0
  /\ ~Top(t).unwinds => Needs[Top(t).who] = <<>>
  /\ ran' = ran \cup {Top(t).who}
  /\ frames' = [frames EXCEPT ![t] = Front(@)]
  /\ UNCHANGED <<owner, depth, stack, draining, cleanup, collected>>

-----------------------------------------------------------------------------
Owed(t) == IF cleanup[t] = None THEN <<>> ELSE cleanup[t]

(* _drain_cleanup found neither a stack nor a drain, and sets its flag.    *)
DrainStarts(t) ==
  /\ Top(t).drain = "start"
  /\ draining' = [draining EXCEPT ![t] = TRUE]
  /\ frames' = WithTop(t, [Top(t) EXCEPT !.drain = "loop"])
  /\ UNCHANGED <<owner, depth, stack, cleanup, collected, ran>>

(* _drain_cleanup: the latest finalizer first, until the queue is empty or *)
(* a read found none; then the flag is cleared.                            *)
DrainNext(t) ==
  /\ Top(t).drain = "loop" /\ Owed(t) # <<>>
  /\ frames' = [frames EXCEPT ![t] = Append(@, Frame(Last(cleanup[t])))]
  /\ cleanup' = [cleanup EXCEPT ![t] = Front(@)]
  /\ UNCHANGED <<owner, depth, stack, draining, collected, ran>>

(* Fault: a drain takes one finalizer from the queue and stops.            *)
DrainSeesOne(t) ==
  /\ Top(t).drain = "loop"
  /\ frames' = WithTop(t, [Top(t) EXCEPT !.drain = "exit"])
  /\ UNCHANGED <<owner, depth, stack, draining, cleanup, collected, ran>>

DrainSeesEmpty(t) ==
  /\ Top(t).drain = "loop" /\ Owed(t) = <<>>
  /\ frames' = WithTop(t, [Top(t) EXCEPT !.drain = IF cleanup[t] = None THEN "none" ELSE "exit"])
  /\ UNCHANGED <<owner, depth, stack, draining, cleanup, collected, ran>>

DrainEnds(t) ==
  /\ Top(t).drain \in {"none", "exit"}
  /\ draining' = [draining EXCEPT ![t] = FALSE]
  /\ frames' = WithTop(t, [Top(t) EXCEPT !.drain = "no"])
  /\ UNCHANGED <<owner, depth, stack, cleanup, collected, ran>>

(* Fault: a finalizer runs wherever the collector happens to call it.      *)
NeverDefers(t) == FALSE

(* invoke: queue while any barrier is held or a drain is on.               *)
Defers(t) == stack[t] # <<>> \/ draining[t]

(* The collector finds handle c dead while t executes, and calls invoke.   *)
(* A thread blocked in a mutex executes nothing, and between the last look *)
(* at the queue and the clearing of the flag nothing is called.            *)
Collect(t, c) ==
  /\ c \notin collected
  /\ Top(t).want = None \/ Top(t).taken
  /\ Top(t).drain # "exit"
  /\ collected' = collected \cup {c}
  /\ IF Defers(t)
     THEN /\ cleanup' = [cleanup EXCEPT ![t] = Append(Owed(t), c)]
          /\ UNCHANGED frames
     ELSE /\ frames' = [frames EXCEPT ![t] = Append(@, Frame(c))]
          /\ UNCHANGED cleanup
  /\ UNCHANGED <<owner, depth, stack, draining, ran>>

-----------------------------------------------------------------------------
Advance(t) ==
  \/ CleanupAcquire(t) \/ TakeMutex(t) \/ PushStack(t) \/ Release(t)
  \/ CleanupEnds(t) \/ DrainStarts(t) \/ DrainNext(t) \/ DrainSeesEmpty(t) \/ DrainEnds(t)

BarriersNext ==
  \E t \in Threads :
    \/ \E b \in Barriers : UserAcquire(t, b)
    \/ \E c \in Cleanups : Collect(t, c)
    \/ Advance(t)

BarriersSpec == BarriersInit /\ [][BarriersNext]_barriersVars

-----------------------------------------------------------------------------
BlockedBy(t, u) ==
  /\ Top(t).want # None /\ ~Top(t).taken
  /\ owner[Top(t).want] = u /\ u # t

(* No set of threads waits for one another: "mechanical lock-order         *)
(* enforcement" (locks.py:1).  It is false: a finalizer that the collector *)
(* calls between the grant of a mutex (locks.py:68) and its entry on the   *)
(* stack finds an empty stack, is not deferred, and acquires barriers of   *)
(* any rank under that mutex.                                              *)
NoWaitCycle ==
  \A waiting \in (SUBSET Threads) \ {{}} :
    \E t \in waiting : \A u \in waiting : ~BlockedBy(t, u)

(* No call of the thread has been interrupted there.                       *)
Steady(t) == \A i \in 1 .. Len(frames[t]) - 1 : ~frames[t][i].taken

(* And this is the only way: every set of threads that wait for one        *)
(* another has a member that was interrupted between the grant and the     *)
(* entry, for ranks order all the others hold and wait for, finalizers     *)
(* included.                                                               *)
CyclesNeedTheWindow ==
  \A waiting \in (SUBSET {t \in Threads : Steady(t)}) \ {{}} :
    \E t \in waiting : \A u \in waiting : ~BlockedBy(t, u)

(* A finalizer starts under no barrier that the stack of its thread names  *)
(* (locks.py:21), wherever the collector ran; and those that a drain runs  *)
(* release their barriers without starting another (locks.py:33), however  *)
(* many are owed meanwhile.                                                *)
CleanupsAreDeferred ==
  \A t \in Threads : \A i, j \in DOMAIN frames[t] : i < j =>
    /\ frames[t][i].got = 0
    /\ frames[t][i].drain \in {"loop", "none", "exit"} => frames[t][j].drain = "no"

Called(t, c) ==
  c \in {Owed(t)[i] : i \in DOMAIN Owed(t)} \/ \E i \in DOMAIN frames[t] : frames[t][i].who = c

(* A thread that drains again and again runs to its end every finalizer it *)
(* was called with, also one that was queued after the last look of a      *)
(* drain (locks.py:37) and that this drain therefore forgot.  No fairness  *)
(* is assumed: a thread that keeps draining is being run.                  *)
EveryCleanupRuns ==
  \A t \in Threads, c \in Cleanups :
    ([]<>draining[t] /\ []<>~draining[t]) => (Called(t, c) ~> c \in ran)
=============================================================================
