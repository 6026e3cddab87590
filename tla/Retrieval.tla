------------------------------- MODULE Retrieval -------------------------------
(***************************************************************************)
(* Retrieval sessions over a Core that goes on (memory/).  A session reads *)
(* the version, validates its cue, captures piece by piece the part of the *)
(* network that the cue can reach, and compares the version again; then it *)
(* settles what it captured: patterns are completed inside the assemblies  *)
(* of the cue, one associative hop is taken, and what was hit is completed *)
(* inside its assemblies.                                                  *)
(*                                                                         *)
(* A session called by its user holds no barrier.  SparseNetwork.commit    *)
(* publishes a transaction by consecutive assignments and moves the        *)
(* version last; a session may read between any two of them.  (A session   *)
(* of a prediction runs under the Core barrier: no step comes between.)    *)
(* One piece of a capture, a cell or an assembly, is read in one step, and *)
(* so is one loop of the commit over cells or synapses.                    *)
(*                                                                         *)
(* Drives and qualities are exact fractions.  The capacity of a snapshot   *)
(* can only abort a session, as its checks of what the Core maintains can  *)
(* (budgets, sizes, memberships per cell); of these, the ones that compare *)
(* two indexes of the network are kept.                                    *)
(***************************************************************************)
EXTENDS Integers, Sequences, SequencesExt, FiniteSetsExt, Functions

CONSTANTS Cells, Assemblies,
          Networks,   \* states the Core may commit: cells, qualities of LOCAL and
                      \* ASSOCIATIVE synapses (0 unless CONSOLIDATED, in halves),
                      \* members of assemblies, activations (in halves)
          Cues,       \* internal cues: a drive for each of their cells, in halves
          KC,         \* MemoryConfig.K_C
          ThetaA,     \* quality of a link of an assembly, in halves
          LimitPC,    \* 1 - theta_PC and 1 - theta_AR, as fractions
          LimitAR,
          MaxCommits, \* bound on commits after the first
          None

(* What a commit may have left to do.                                      *)
Kinds == {"cells", "synapses", "drop", "unlink", "add", "link", "activation", "reclaim"}

ASSUME RetrievalAssumption ==
  /\ IsFiniteSet(Cells) /\ IsFiniteSet(Assemblies)
  /\ \A n \in Networks :
       /\ n.cells \subseteq Cells
       /\ \E S \in SUBSET Assemblies : n.assemblies \in [S -> SUBSET n.cells]
       /\ DOMAIN n.local \cup DOMAIN n.associative \subseteq n.cells \X n.cells
       /\ \A k \in DOMAIN n.local : n.local[k] \in Nat
       /\ \A k \in DOMAIN n.associative : n.associative[k] \in Nat
       /\ \A c \in n.cells : n.activation[c] \in Nat
  /\ \A cue \in Cues : \A c \in DOMAIN cue : cue[c] \in Nat
  /\ None \notin [to : Networks, left : SUBSET (Kinds \X (Assemblies \cup {0}))]

VARIABLES net,       \* SparseNetwork, with the index of memberships
          published, \* what was committed; its length is the version
          writes,    \* assignments left of a commit under way, None if there is none
          receipts,  \* receipts issued for events of the Core
          session    \* an acquisition, and what it handed out

retrievalVars == <<net, published, writes, receipts, session>>

Version == Len(published)

Memberships(n) == [c \in Cells |-> {a \in DOMAIN n.assemblies : c \in n.assemblies[a]}]

Stored(n) ==
  [cells |-> n.cells, local |-> n.local, associative |-> n.associative, assemblies |-> n.assemblies,
   activation |-> n.activation, memberships |-> Memberships(n)]

(* What f says, and where it says nothing, g.                              *)
Over(f, g) ==
  [x \in DOMAIN f \cup DOMAIN g |-> IF x \in DOMAIN f THEN f[x] ELSE g[x]]

Idle == [at |-> "idle"]

RetrievalInit ==
  /\ \E n \in Networks : net = Stored(n) /\ published = <<n>>
  /\ writes = None /\ receipts = {} /\ session = Idle

-----------------------------------------------------------------------------
(* SparseNetwork.commit, assignment by assignment.                         *)
Changed(old, new) ==
  {a \in Assemblies :
     \/ a \in DOMAIN old.assemblies /\ a \notin DOMAIN new.assemblies
     \/ a \in DOMAIN new.assemblies /\ a \notin DOMAIN old.assemblies
     \/ /\ a \in DOMAIN old.assemblies \cap DOMAIN new.assemblies
        /\ old.assemblies[a] # new.assemblies[a]}

Assignments(old, new) ==
  LET changed == Changed(old, new)
  IN ({"cells", "synapses", "activation", "reclaim"} \X {0})
       \cup ({"drop", "unlink"} \X (changed \cap DOMAIN old.assemblies))
       \cup ({"add", "link"} \X (changed \cap DOMAIN new.assemblies))

(* The loops of the commit, and the order within a loop over assemblies.   *)
Loop(w) ==
  CASE w[1] = "cells"               -> 1
    [] w[1] = "synapses"            -> 2
    [] w[1] \in {"drop", "unlink"}  -> 3
    [] w[1] \in {"add", "link"}     -> 4
    [] w[1] = "activation"          -> 5
    [] w[1] = "reclaim"             -> 6

Before(w, v) ==
  \/ Loop(w) < Loop(v)
  \/ Loop(w) = Loop(v) /\ (w[2] < v[2] \/ (w[2] = v[2] /\ w[1] \in {"drop", "add"}))

Assigned(n, new, w) ==
  CASE w[1] = "cells"      -> [n EXCEPT !.cells = @ \cup new.cells]
    [] w[1] = "synapses"   -> [n EXCEPT !.local = new.local, !.associative = new.associative]
    [] w[1] = "drop"       -> [n EXCEPT !.assemblies = Restrict(@, DOMAIN @ \ {w[2]})]
    [] w[1] = "unlink"     -> [n EXCEPT !.memberships = [c \in Cells |-> @[c] \ {w[2]}]]
    [] w[1] = "add"        -> [n EXCEPT !.assemblies =
                                 Over([a \in {w[2]} |-> new.assemblies[a]], @)]
    [] w[1] = "link"       -> [n EXCEPT !.memberships =
                                 [c \in Cells |-> IF c \in new.assemblies[w[2]]
                                                  THEN @[c] \cup {w[2]} ELSE @[c]]]
    [] w[1] = "activation" -> [n EXCEPT !.activation = new.activation]
    [] w[1] = "reclaim"    -> [n EXCEPT !.cells = new.cells,
                                        !.memberships = [c \in Cells |->
                                          IF c \in new.cells THEN @[c] ELSE {}]]

BeginCommit(new) ==
  /\ writes = None /\ Version <= MaxCommits /\ new # Last(published)
  /\ writes' = [to |-> new, left |-> Assignments(Last(published), new)]
  /\ UNCHANGED <<net, published, receipts, session>>

Assign ==
  /\ writes # None
  /\ \E w \in writes.left :
       /\ \A v \in writes.left \ {w} : Before(w, v)
       /\ net' = Assigned(net, writes.to, w)
       /\ writes' = [writes EXCEPT !.left = @ \ {w}]
  /\ UNCHANGED <<published, receipts, session>>

EndCommit ==
  /\ writes # None /\ writes.left = {}
  /\ published' = Append(published, writes.to)
  /\ writes' = None
  /\ UNCHANGED <<net, receipts, session>>

(* TrustedCoreAdapter.process_event, once the event was processed: the     *)
(* receipt names the version and what was active.                          *)
Frontier(n) == {c \in n.cells : n.activation[c] > 0}

Issue ==
  /\ writes = None
  /\ LET activation == Restrict(net.activation, Frontier(net))
     IN receipts' = receipts \cup {[version |-> Version, activation |-> activation]}
  /\ UNCHANGED <<net, published, writes, session>>

-----------------------------------------------------------------------------
(* acquire.                                                                *)
Blank == [cells |-> {}, memberships |-> <<>>, assemblies |-> <<>>,
          local |-> <<>>, associative |-> <<>>, scanned |-> {}]

(* Fault: a receipt of an earlier event is as good.                        *)
GenuineOnce(receipt) == receipt \in receipts

(* validate_receipt.                                                       *)
Genuine(receipt) == receipt \in receipts /\ receipt.version = Version

Begin(internal, receipt) ==
  /\ session.at \in {"idle", "done"}
  /\ receipt # None => Genuine(receipt)
  /\ session' = [at |-> "cue", version |-> Version, internal |-> internal,
                 trusted |-> IF receipt = None THEN <<>> ELSE receipt.activation]
  /\ UNCHANGED <<net, published, writes, receipts>>

Aborts == session' = Idle

(* The trusted activation is that of the network, the internal cue names   *)
(* cells of it; where both name a cell, the trusted drive stands.          *)
Valid(s) ==
  /\ \A c \in DOMAIN s.trusted : c \in net.cells /\ net.activation[c] = s.trusted[c]
  /\ DOMAIN s.internal \subseteq net.cells

Merged(s) == Over(s.trusted, s.internal)

ValidateCue ==
  /\ session.at = "cue"
  /\ IF Valid(session) /\ Cardinality(DOMAIN Merged(session)) \in 1 .. KC
     THEN session' = [at |-> "capture", version |-> session.version, cue |-> Merged(session),
                      authorized |-> DOMAIN session.trusted, capture |-> Blank]
     ELSE Aborts
  /\ UNCHANGED <<net, published, writes, receipts>>

(* What the capture has still to look at, stage by stage.                  *)
Listed(capture, cells) ==
  UNION {capture.memberships[c] : c \in cells \cap DOMAIN capture.memberships}

SourceCells(s) ==
  LET capture == s.capture
      sources == Listed(capture, DOMAIN s.cue)
  IN {c \in DOMAIN s.cue : c \in DOMAIN capture.memberships /\ capture.memberships[c] = {}}
       \cup (UNION {capture.assemblies[a] : a \in sources \cap DOMAIN capture.assemblies})

Targets(capture) == {k[2] : k \in DOMAIN capture.associative}

Unread(s, stage) ==
  LET capture == s.capture
  IN CASE stage = "cue"       -> DOMAIN s.cue \ DOMAIN capture.memberships
       [] stage = "sources"   -> Listed(capture, DOMAIN s.cue) \ DOMAIN capture.assemblies
       [] stage = "outgoing"  -> SourceCells(s) \ capture.scanned
       [] stage = "hits"      -> Targets(capture) \ DOMAIN capture.memberships
       [] stage = "targets"   -> Listed(capture, Targets(capture)) \ DOMAIN capture.assemblies

Stages == <<"cue", "sources", "outgoing", "hits", "targets">>

(* What an item makes the capture read: the members of an assembly, and    *)
(* the targets of the CONSOLIDATED synapses of a source.                   *)
Structural(stage) == stage \in {"sources", "targets"}
Present(stage, item) == Structural(stage) => item \in DOMAIN net.assemblies
Members(stage, item) == IF Structural(stage) THEN net.assemblies[item] ELSE {}
Outgoing(stage, item) ==
  IF stage = "outgoing"
  THEN {k \in DOMAIN net.associative : k[1] = item /\ net.associative[k] > 0} ELSE {}

(* add_cell, and memberships_for of cells that were not looked at before.  *)
Added(stage, item) ==
  CASE Structural(stage)   -> Members(stage, item)
    [] stage = "outgoing"  -> {item} \cup {k[2] : k \in Outgoing(stage, item)}
    [] stage = "cue"       -> {item}
    [] stage = "hits"      -> {}

Looked(capture, stage, item) ==
  (IF Structural(stage) THEN Members(stage, item)
   ELSE IF stage = "outgoing" THEN {} ELSE {item}) \ DOMAIN capture.memberships

Known(capture, stage, item) ==
  Over(capture.memberships, Restrict(net.memberships, Looked(capture, stage, item)))

(* The cells are there, the index of memberships agrees with the members.  *)
Readable(capture, stage, item) ==
  /\ Present(stage, item)
  /\ Members(stage, item) \subseteq net.cells
  /\ Added(stage, item) \ capture.cells \subseteq net.cells
  /\ \A c \in Looked(capture, stage, item) : \A a \in net.memberships[c] :
       a \in DOMAIN net.assemblies /\ c \in net.assemblies[a]
  /\ \A c \in Members(stage, item) : item \in Known(capture, stage, item)[c]

Extended(capture, stage, item) ==
  LET S == Members(stage, item)
  IN [cells       |-> capture.cells \cup Added(stage, item),
      memberships |-> Known(capture, stage, item),
      assemblies  |-> IF Structural(stage) THEN Over(capture.assemblies, [a \in {item} |-> S])
                      ELSE capture.assemblies,
      local       |-> Over(Restrict(net.local, DOMAIN net.local \cap (S \X S)), capture.local),
      associative |-> Over(capture.associative, Restrict(net.associative, Outgoing(stage, item))),
      scanned     |-> capture.scanned \cup (IF stage = "outgoing" THEN {item} ELSE {})]

ReadAll(s) == \A i \in DOMAIN Stages : Unread(s, Stages[i]) = {}

Capture ==
  /\ session.at = "capture"
  /\ \E i \in DOMAIN Stages :
       /\ \A j \in 1 .. i - 1 : Unread(session, Stages[j]) = {}
       /\ \E item \in Unread(session, Stages[i]) :
            /\ \A other \in Unread(session, Stages[i]) : item <= other
            /\ IF Readable(session.capture, Stages[i], item)
               THEN session' = [session EXCEPT !.capture = Extended(@, Stages[i], item)]
               ELSE Aborts
  /\ UNCHANGED <<net, published, writes, receipts>>

-----------------------------------------------------------------------------
(* Fractions, as pairs.                                                    *)
One            == <<1, 1>>
Half(n)        == <<n, 2>>
Times(x, y)    == <<x[1] * y[1], x[2] * y[2]>>
Rest(x)        == <<x[2] - x[1], x[2]>>
AtMost(x, y)   == x[1] * y[2] <= y[1] * x[2]
Product(f)     == FoldFunction(Times, One, f)

Unsupported(drive, quality) == Rest(Times(drive, quality))

(* build_reconstruction_graph: the reciprocal links of an assembly.        *)
Quality(local, c, d) ==
  IF {<<c, d>>, <<d, c>>} \subseteq DOMAIN local THEN Min({local[<<c, d>>], local[<<d, c>>]}) ELSE 0

Linked(local, S, c) == {d \in S \ {c} : Quality(local, c, d) >= ThetaA}

(* reconstruct_pattern: a lane of seeds is completed in synchronous rounds.*)
(* What is left of a cell's drive is kept from one round to the next, and  *)
(* only the supporters that are new are taken off.                         *)
Left(lane, local, c, supporters) ==
  Product([d \in supporters |-> Unsupported(lane.drive[d], Half(Quality(local, c, d)))])

Around(local, S, cells) == UNION {Linked(local, S, c) : c \in cells}

Seeded(local, S, seeds, exact) ==
  LET lane  == [drive |-> seeds, exact |-> exact, rounds |-> [c \in DOMAIN seeds |-> 0]]
      front == Around(local, S, DOMAIN seeds) \ DOMAIN seeds
  IN Over(lane, [left |-> [c \in front |->
                             Left(lane, local, c, Linked(local, S, c) \cap DOMAIN seeds)]])

ExactlyDriven(lane, local, S, c) ==
  \E d \in Linked(local, S, c) \cap lane.exact : Quality(local, c, d) = 2

Proposed(lane, local, S) ==
  {c \in DOMAIN lane.left : IF LimitPC[1] = 0 THEN ExactlyDriven(lane, local, S, c)
                            ELSE AtMost(lane.left[c], LimitPC)}

(* Fault: what is left of a cell is not reduced by the cells that joined.  *)
RemainsForgetting(lane, next, local, S, c) ==
  IF c \in DOMAIN lane.left THEN lane.left[c]
  ELSE Left(next, local, c, Linked(local, S, c) \cap DOMAIN next.drive)

Remains(lane, next, local, S, c) ==
  LET supporters == Linked(local, S, c) \cap DOMAIN next.drive
  IN IF c \in DOMAIN lane.left
     THEN Times(lane.left[c], Left(next, local, c, supporters \ DOMAIN lane.drive))
     ELSE Left(next, local, c, supporters)

Round(lane, local, S, n) ==
  LET new   == Proposed(lane, local, S)
      exact == {c \in new : ExactlyDriven(lane, local, S, c)}
      next  == [drive  |-> Over(lane.drive, [c \in new |-> IF c \in exact THEN One
                                                           ELSE Rest(lane.left[c])]),
                exact  |-> lane.exact \cup exact,
                rounds |-> Over(lane.rounds, [c \in new |-> n])]
      front == (DOMAIN lane.left \cup Around(local, S, new)) \ DOMAIN next.drive
  IN Over(next, [left |-> [c \in front |-> Remains(lane, next, local, S, c)]])

Lane(local, S, seeds, exact) ==
  LET lane[n \in 0 .. Cardinality(S)] ==
        IF n = 0 THEN Seeded(local, S, seeds, exact) ELSE Round(lane[n - 1], local, S, n)
  IN Restrict(lane[Cardinality(S)], {"drive", "exact", "rounds"})

-----------------------------------------------------------------------------
(* _settle, of a capture or of a network n.                                *)
Driven(n, cue, a) == Restrict(cue, DOMAIN cue \cap n.assemblies[a])

Seeds(n, cue, a) ==
  LET driven == Driven(n, cue, a)
  IN [drive |-> [c \in DOMAIN driven |-> Half(driven[c])],
      exact |-> {c \in DOMAIN driven : driven[c] = 2}]

Source(n, cue, a) ==
  LET seeds == Seeds(n, cue, a)
  IN Lane(n.local, n.assemblies[a], seeds.drive, seeds.exact)

(* A cell of no assembly is a source of its own.                           *)
Atom(cue, c) ==
  [drive |-> [d \in {c} |-> Half(cue[d])], exact |-> {d \in {c} : cue[d] = 2},
   rounds |-> [d \in {c} |-> 0]]

Sources(n, cue) ==
  LET atoms == {c \in DOMAIN cue : n.memberships[c] = {}}
      ids   == UNION {n.memberships[c] : c \in DOMAIN cue}
  IN [x \in {<<"assembly", a>> : a \in ids} \cup {<<"atom", c>> : c \in atoms} |->
        IF x[1] = "atom" THEN Atom(cue, x[2]) ELSE Source(n, cue, x[2])]

(* retrieve_associations: one hop from what is active in a source.         *)
Consolidated(n) == {k \in DOMAIN n.associative : n.associative[k] > 0}

Into(n, source, t) == {c \in DOMAIN source.drive : <<c, t>> \in Consolidated(n)}

HitLeft(n, source, t) ==
  Product([c \in Into(n, source, t) |-> Unsupported(source.drive[c], Half(n.associative[<<c, t>>]))])

HitExactly(n, source, t) == \E c \in Into(n, source, t) \cap source.exact : n.associative[<<c, t>>] = 2

Eligible(n, source) ==
  {t \in {k[2] : k \in Consolidated(n)} :
     /\ Into(n, source, t) # {}
     /\ IF LimitAR[1] = 0 THEN HitExactly(n, source, t)
        ELSE AtMost(HitLeft(n, source, t), LimitAR)}

Hits(n, source) ==
  [drive |-> [t \in Eligible(n, source) |-> IF HitExactly(n, source, t) THEN One
                                            ELSE Rest(HitLeft(n, source, t))],
   exact |-> {t \in Eligible(n, source) : HitExactly(n, source, t)}]

(* reconstruct_target_branches: what was hit seeds the assemblies it is in.*)
Reached(n, hits, a) ==
  [drive |-> Restrict(hits.drive, DOMAIN hits.drive \cap n.assemblies[a]),
   exact |-> hits.exact \cap n.assemblies[a]]

Branches(n, hits) ==
  [a \in UNION {n.memberships[t] : t \in DOMAIN hits.drive} |->
     LET seeds == Reached(n, hits, a)
     IN Lane(n.local, n.assemblies[a], seeds.drive, seeds.exact)]

(* separate_sources: sources that share a seed are a family; one dominates *)
(* another that has fewer of the witnesses, all of them its own.           *)
Overlapping(n, cue, a, b) == DOMAIN Driven(n, cue, a) \cap DOMAIN Driven(n, cue, b) # {}

Family(n, cue, ids, a) ==
  LET reached[k \in 0 .. Cardinality(ids)] ==
        IF k = 0 THEN {a}
        ELSE {b \in ids : \E c \in reached[k - 1] : Overlapping(n, cue, b, c)}
  IN reached[Cardinality(ids)]

Dominated(n, cue, authorized, b, ids) ==
  LET witnesses(a) == n.assemblies[a] \cap authorized
  IN \E a \in ids : /\ Overlapping(n, cue, a, b) /\ witnesses(b) \subseteq witnesses(a)
                    /\ witnesses(a) # witnesses(b)

Outcome(n, cue, authorized, sources) ==
  LET ids  == {x[2] : x \in {y \in DOMAIN sources : y[1] = "assembly"}}
  IN [sources     |-> sources,
      hits        |-> [x \in DOMAIN sources |-> Hits(n, sources[x])],
      branches    |-> [x \in DOMAIN sources |-> Branches(n, Hits(n, sources[x]))],
      families    |-> {Family(n, cue, ids, a) : a \in ids},
      undominated |-> {a \in ids : ~Dominated(n, cue, authorized, a, ids)}]

Settled(n, cue, authorized) == Outcome(n, cue, authorized, Sources(n, cue))

(* Fault: only the configuration is compared again.                        *)
UnchangedAnyway == TRUE

Unchanged == Version = session.version

(* The end of acquire, and _settle: the version is what it was, and the    *)
(* capture is settled without the Core.  A commit may be under way.        *)
Accept ==
  /\ session.at = "capture" /\ ReadAll(session)
  /\ IF Unchanged
     THEN session' = [at |-> "done", beside |-> writes # None, version |-> session.version,
                      cue |-> session.cue, authorized |-> session.authorized,
                      capture |-> session.capture,
                      result |-> Settled(session.capture, session.cue, session.authorized)]
     ELSE Aborts
  /\ UNCHANGED <<net, published, writes, receipts>>

-----------------------------------------------------------------------------
RetrievalNext ==
  \/ \E n \in Networks : BeginCommit(n)
  \/ Assign \/ EndCommit \/ Issue
  \/ \E internal \in Cues, receipt \in receipts \cup {None} : Begin(internal, receipt)
  \/ ValidateCue \/ Capture \/ Accept

RetrievalSpec == RetrievalInit /\ [][RetrievalNext]_retrievalVars

-----------------------------------------------------------------------------
(* The part of a network that a cue can reach.                             *)
Closure(n, cue) ==
  LET of(cells) == {a \in DOMAIN n.assemblies : n.assemblies[a] \cap cells # {}}
      members(ids) == UNION {n.assemblies[a] : a \in ids}
      seeds     == DOMAIN cue
      active    == members(of(seeds)) \cup (seeds \ members(DOMAIN n.assemblies))
      hops      == {k \in DOMAIN n.associative : k[1] \in active /\ n.associative[k] > 0}
      targets   == {k[2] : k \in hops}
      ids       == of(seeds) \cup of(targets)
      cells     == seeds \cup targets \cup members(ids)
      pairs     == {k \in DOMAIN n.local : \E a \in ids : {k[1], k[2]} \subseteq n.assemblies[a]}
  IN [cells |-> cells, memberships |-> Restrict(Memberships(n), cells),
      assemblies |-> Restrict(n.assemblies, ids), local |-> Restrict(n.local, pairs),
      associative |-> Restrict(n.associative, hops), scanned |-> active]

(* "Acquisition must prove one coherent Core/configuration state"          *)
(* (02_MEMORY_RETRIEVAL.md:3102): what was captured piece by piece is      *)
(* exactly what the cue reaches in the network of the version it names,    *)
(* and the trusted part of the cue is all that was active in it.  The code *)
(* accepts more: the version it compares is moved last by a commit.        *)
CapturesAreCoherent ==
  session.at = "done" =>
    LET n == published[session.version]
    IN /\ session.capture = Closure(n, session.cue)
       /\ session.authorized # {} => session.authorized = Frontier(n)
       /\ \A c \in session.authorized : session.cue[c] = n.activation[c]

(* The network that follows that of version v: what was committed next, or *)
(* is being committed.                                                     *)
Successor(v) ==
  IF v < Version THEN published[v + 1] ELSE IF writes # None THEN writes.to ELSE published[v]

(* Every piece is read from old or from new, and an assembly that is alike *)
(* in both is on the list of each of its cells.                            *)
OfEither(old, new, pieces) ==
  /\ pieces.cells \subseteq old.cells \cup new.cells
  /\ \A a \in DOMAIN pieces.assemblies : \E n \in {old, new} :
       a \in DOMAIN n.assemblies /\ pieces.assemblies[a] = n.assemblies[a]
  /\ \A k \in DOMAIN pieces.local : \E n \in {old, new} :
       k \in DOMAIN n.local /\ pieces.local[k] = n.local[k]
  /\ \A k \in DOMAIN pieces.associative : \E n \in {old, new} :
       k \in DOMAIN n.associative /\ pieces.associative[k] = n.associative[k]
  /\ \A c \in DOMAIN pieces.memberships :
       /\ \A a \in pieces.memberships[c] : \E n \in {old, new} :
            a \in DOMAIN n.assemblies /\ c \in n.assemblies[a]
       /\ \A a \in DOMAIN old.assemblies \ Changed(old, new) :
            c \in old.assemblies[a] => a \in pieces.memberships[c]

(* How far an accepted capture can be from its version: whatever commits   *)
(* went on meanwhile, nothing in it is older than the version it names or  *)
(* younger than the commit that follows, nothing that this commit leaves   *)
(* alone is missing, and the trusted part of its cue, which authorizes     *)
(* what dominates, is of that version exactly.                             *)
MixturesAreOfOneCommit ==
  session.at = "done" =>
    LET n == published[session.version]
    IN /\ OfEither(n, Successor(session.version), session.capture)
       /\ session.authorized # {} => session.authorized = Frontier(n)
       /\ \A c \in session.authorized : session.cue[c] = n.activation[c]

(* Completion from scratch: a cell joins with whatever has joined before.  *)
Support(lane, local, S, c) == Linked(local, S, c) \cap DOMAIN lane.drive

LeftNow(lane, local, S, c) == Left(lane, local, c, Support(lane, local, S, c))

Joining(lane, local, S) ==
  {c \in S \ DOMAIN lane.drive :
     /\ Support(lane, local, S, c) # {}
     /\ IF LimitPC[1] = 0 THEN ExactlyDriven(lane, local, S, c)
        ELSE AtMost(LeftNow(lane, local, S, c), LimitPC)}

Joined(lane, local, S, n) ==
  LET new   == Joining(lane, local, S)
      exact == {c \in new : ExactlyDriven(lane, local, S, c)}
  IN [drive  |-> Over(lane.drive, [c \in new |-> IF c \in exact THEN One
                                                 ELSE Rest(LeftNow(lane, local, S, c))]),
      exact  |-> lane.exact \cup exact,
      rounds |-> Over(lane.rounds, [c \in new |-> n])]

FromScratch(local, S, seeds, exact) ==
  LET lane[n \in 0 .. Cardinality(S)] ==
        IF n = 0 THEN [drive |-> seeds, exact |-> exact, rounds |-> [c \in DOMAIN seeds |-> 0]]
        ELSE Joined(lane[n - 1], local, S, n)
  IN lane[Cardinality(S)]

(* What a session retrieves from its bounded capture is what it would      *)
(* retrieve from the whole network of its version: nothing was cut off     *)
(* that a lane, the hop or a branch needs.  The drives kept from round to  *)
(* round are those of a completion from scratch, and every family of       *)
(* sources keeps one that none dominates.                                  *)
RetrievalIsOfTheWhole ==
  session.at = "done" /\ ~session.beside =>
    LET n      == Stored(published[session.version])
        result == session.result
        isExact(lane, a, seeds) ==
          lane = FromScratch(n.local, n.assemblies[a], seeds.drive, seeds.exact)
    IN /\ result = Settled(n, session.cue, session.authorized)
       /\ \A x \in DOMAIN result.sources :
            /\ x[1] = "assembly" => isExact(result.sources[x], x[2], Seeds(n, session.cue, x[2]))
            /\ \A a \in DOMAIN result.branches[x] :
                 isExact(result.branches[x][a], a, Reached(n, result.hits[x], a))
       /\ \A family \in result.families : family \cap result.undominated # {}
=============================================================================
