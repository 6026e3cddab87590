------------------------------- MODULE CoreTick -------------------------------
(***************************************************************************)
(* One event, one tick: engine.py plans a transaction from a snapshot of   *)
(* the network (activation, learning, arbitration, recruitment, assemblies,*)
(* reclamation), network.py validates the whole of it and publishes it,    *)
(* and temporal.py publishes the window it was validated with.  A saved    *)
(* state is loaded through the validating constructors of network.py.      *)
(*                                                                         *)
(* Numbers are abstracted to what the structure depends on.  A cell is     *)
(* active or not (theta_active).  A synapse is "firm" when it is           *)
(* CONSOLIDATED and good enough to support an assembly (theta_A), and a    *)
(* "candidate" otherwise: which candidate is pruned for which proposal,    *)
(* what is novel, which evidence suffices and what is specific are choices.*)
(* theta_A itself counts for one thing, whether it is above zero: a pair   *)
(* without two CONSOLIDATED synapses has quality 0.0, which a threshold of *)
(* zero lets the planner, but not the validator, take for support.         *)
(* Every cell is of one territory: only LANGUAGE has receptors.            *)
(***************************************************************************)
EXTENDS Integers, FiniteSets, Sequences, SequencesExt

CONSTANTS Cells,          \* addressable cells, numbered
          Local,          \* ordered pairs within local_radius
          Associative,    \* ordered pairs within associative_radius
          Compact,        \* sets of cells within assembly_radius
          Surfaces,       \* receptors that one event may drive
          SynapticBudget, Horizon, KR, KMin, KMax, MMax, DMin,
          RhoKeep, RhoG, Rho, \* densities, in percent
          ThetaPositive,  \* theta_A > 0
          Seeds,          \* saved states to start from
          MaxTicks        \* bound on the ticks after the load

Keys == {<<p[1], p[2], "LOCAL">> : p \in Local}
          \cup {<<p[1], p[2], "ASSOCIATIVE">> : p \in Associative}

Endpoints(k) == {k[1], k[2]}

ASSUME CoreTickAssumption ==
  /\ Cells \subseteq Nat /\ IsFiniteSet(Cells)
  /\ Local \cup Associative \subseteq {p \in Cells \X Cells : p[1] # p[2]}
  /\ Compact \subseteq SUBSET Cells /\ \A S \in Compact : SUBSET S \subseteq Compact
  /\ Surfaces \subseteq SUBSET Cells
  /\ {SynapticBudget, Horizon, KR, KMin, KMax, MMax} \subseteq Nat \ {0}
  /\ ThetaPositive \in BOOLEAN
  /\ KMin <= KMax /\ DMin \in Nat /\ {RhoKeep, RhoG, Rho} \subseteq 0 .. 100 /\ RhoKeep < RhoG

VARIABLES net,    \* SparseNetwork
          window, \* TemporalStream._events
          root,   \* TemporalStream._next_root_id
          start,  \* the tick at which the engine was loaded
          refused \* commit has raised

coreVars == <<net, window, root, start, refused>>

-----------------------------------------------------------------------------
(* Graphs of cells.  What the validators ask of a pair: LOCAL synapses both*)
(* ways, CONSOLIDATED and good enough.                                     *)
Qualifying(edges) ==
  {{k[1], k[2]} : k \in {j \in DOMAIN edges :
     /\ j[3] = "LOCAL" /\ edges[j] = "firm"
     /\ <<j[2], j[1], "LOCAL">> \in DOMAIN edges
     /\ edges[<<j[2], j[1], "LOCAL">>] = "firm"}}

(* What the planner asks of it: reciprocal_quality >= theta_A.             *)
Supported(edges) ==
  IF ThetaPositive THEN Qualifying(edges) ELSE {{c, d} : c, d \in Cells}

Closed(T, links) == \A l \in links : l \cap T # {} => l \subseteq T

(* What a search from c reaches is in every closed set that has c.         *)
Component(c, links) ==
  {d \in Cells : \A T \in SUBSET Cells : c \in T /\ Closed(T, links) => d \in T}

Connected(S, links) == \E c \in S : Component(c, {l \in links : l \subseteq S}) = S

(* What _form_candidate reaches from c: along synapses, one way.           *)
Searched(c, edges, links) ==
  {d \in Cells : \A T \in SUBSET Cells :
     /\ c \in T
     /\ \A k \in DOMAIN edges :
          k[3] = "LOCAL" /\ {k[1], k[2]} \in links /\ k[1] \in T => k[2] \in T
     => d \in T}

Degree(c, S, links) == Cardinality({d \in S : {c, d} \in links})

(* density >= rho, and core_coverage >= rho.                               *)
Dense(c, S, links, rho) == 100 * Degree(c, S, links) >= rho * Cardinality(S)
Covered(S, links) ==
  100 * Cardinality({c \in S : Degree(c, S \ {c}, links) >= DMin}) >= Rho * Cardinality(S)

Sized(S) == KMin <= Cardinality(S) /\ Cardinality(S) <= KMax

-----------------------------------------------------------------------------
(* load_engine: what each constructor checks, and the indexes they rebuild.*)
Outgoing(edges, c) == {k \in DOMAIN edges : k[1] = c}

Memberships(assemblies) ==
  [c \in Cells |-> {a \in DOMAIN assemblies : c \in assemblies[a]}]

ById(assemblies) ==
  [S \in {assemblies[a] : a \in DOMAIN assemblies} |->
     CHOOSE a \in DOMAIN assemblies : assemblies[a] = S]

Loadable(n) ==
  /\ DOMAIN n.edges \subseteq Keys
  /\ \A k \in DOMAIN n.edges : Endpoints(k) \subseteq n.cells
  /\ \A c \in n.cells : Cardinality(Outgoing(n.edges, c)) <= SynapticBudget
  /\ \A a \in DOMAIN n.assemblies : LET S == n.assemblies[a] IN
       /\ Sized(S) /\ S \in Compact /\ S \subseteq n.cells
       /\ Connected(S, Qualifying(n.edges))
       /\ \A b \in DOMAIN n.assemblies : n.assemblies[b] = S => a = b
  /\ \A c \in Cells : Cardinality(Memberships(n.assemblies)[c]) <= MMax

(* Fault: the next identity is taken from the assemblies that are left.    *)
RebuiltFromWhatIsLeft(n) ==
  [n EXCEPT !.incoming = DOMAIN n.edges, !.memberships = Memberships(n.assemblies),
            !.index = ById(n.assemblies),
            !.nextId = CHOOSE i \in 0 .. n.nextId :
              /\ \A a \in DOMAIN n.assemblies : a < i
              /\ i = 0 \/ i - 1 \in DOMAIN n.assemblies]

Rebuilt(n) ==
  [n EXCEPT !.incoming = DOMAIN n.edges, !.memberships = Memberships(n.assemblies),
            !.index = ById(n.assemblies)]

Referred(w) == UNION {w[i].active \cup w[i].drive : i \in DOMAIN w}

(* One root a tick, and a window of the last ticks without a gap.          *)
InStep(n, w, r) ==
  /\ r = n.tick /\ Len(w) <= Horizon
  /\ \A i \in DOMAIN w : w[i].tick = n.tick - Len(w) + i - 1 /\ w[i].active \subseteq n.cells

(* Synapses and assemblies join cells, and every cell has one of them, or  *)
(* an event of the window refers to it.                                    *)
Tied(n) == (UNION {Endpoints(k) : k \in DOMAIN n.edges})
             \cup (UNION {n.assemblies[a] : a \in DOMAIN n.assemblies})
Held(n, w) == Tied(n) \subseteq n.cells /\ n.cells \subseteq Tied(n) \cup Referred(w)

(* What the loader takes on trust: the rest of what save_engine wrote.     *)
Savable(n, w, r) ==
  /\ DOMAIN n = {"cells", "active", "edges", "incoming", "assemblies", "index",
                 "memberships", "nextId", "tick"}
  /\ n.active \subseteq n.cells /\ n.cells \subseteq Cells
  /\ {n.nextId, n.tick} \subseteq Nat /\ DOMAIN n.assemblies \subseteq 0 .. n.nextId - 1
  /\ w \in Seq([tick : Nat, active : SUBSET Cells, drive : SUBSET Cells])
  /\ InStep(n, w, r) /\ Held(n, w)

ASSUME SeedsAssumption == \A s \in Seeds : Savable(s.net, s.window, s.root)

CoreInit ==
  /\ refused = FALSE
  /\ \E s \in Seeds :
       /\ Loadable(s.net) /\ net = Rebuilt(s.net)
       /\ window = s.window /\ root = s.root /\ start = s.net.tick

-----------------------------------------------------------------------------
(* Window.                                                                 *)
(* Fault: one event too many is kept.                                      *)
ExtendedUntrimmed(history, event) ==
  IF Len(history) <= Horizon THEN Append(history, event)
  ELSE Append(Tail(history), event)

Extended(history, event) ==
  IF Len(history) < Horizon THEN Append(history, event)
  ELSE Append(Tail(history), event)

(* surviving_history: what the append leaves of the history.               *)
Surviving(history) == IF Len(history) < Horizon THEN history ELSE Tail(history)

-----------------------------------------------------------------------------
(* Activation: without a drive of its own, from outside or from a cell that*)
(* emits, no cell becomes active; a boundary silences the network.         *)
Excitable(drive, boundary) ==
  (drive \cap net.cells) \cup
    IF boundary THEN {}
    ELSE net.active \cup {k[2] : k \in {j \in DOMAIN net.edges : j[1] \in net.active}}

(* Learning: LOCAL evidence between active cells, ASSOCIATIVE evidence from*)
(* cells active in the context.  An enumerated pair always has positive    *)
(* evidence, so that supplied evidence against it is a conflict, which     *)
(* updates nothing: a synapse only gains.                                  *)
Evidence(active, context) ==
  {k \in Keys :
     /\ k[2] \in active
     /\ IF k[3] = "LOCAL" THEN k[1] \in active
        ELSE \E i \in DOMAIN context : k[1] \in context[i].active}

Updated(evidence) == evidence \cap DOMAIN net.edges

Proposable(evidence) ==
  {k \in evidence \ DOMAIN net.edges :
     /\ Endpoints(k) \subseteq net.cells
     /\ Cardinality(Outgoing(net.edges, k[1])) <= SynapticBudget}

Weak == {k \in DOMAIN net.edges : net.edges[k] = "candidate"}

From(keys, c) == {k \in keys : k[1] = c}

Free(c) == SynapticBudget - Cardinality(Outgoing(net.edges, c))

(* arbitrate_synapses, source by source: proposals fill what is left of the*)
(* budget, and each further one replaces a pre-existing candidate or is    *)
(* rejected.                                                               *)
Full(admitted, pruned, c) ==
  Cardinality(From(admitted, c)) = Cardinality(From(pruned, c)) + Free(c)

Arbitrates(admitted, pruned) ==
  \A c \in Cells :
    \/ Full(admitted, pruned, c)
    \/ From(pruned, c) = {} /\ Cardinality(From(admitted, c)) < Free(c)

(* _expansion_reserves: receptors of the event, or of the surviving events *)
(* in which the blocked source was active.                                 *)
ExpansionReserve(blocked, drive, surviving) ==
  UNION {IF k[3] = "LOCAL" THEN drive
         ELSE UNION {surviving[i].drive : i \in {j \in DOMAIN surviving : k[1] \in surviving[j].active}}
         : k \in blocked}

(* ordinary_recruitment, and what allocate_expansion recruits for blocked  *)
(* proposals; novelty decides how many of the receptors, K_R at most.      *)
Recruitable(drive) == drive \ net.cells

Expandable(blocked, drive, surviving, ordinary) ==
  ExpansionReserve(blocked, drive, surviving) \ (net.cells \cup ordinary)

-----------------------------------------------------------------------------
(* The sets that hold low and are held in high.                            *)
Between(low, high) == {low \cup S : S \in SUBSET (high \ low)}

(* changed_support: pairs that came to qualify, and some that now do it    *)
(* better; maintenance looks at some more, for specificity.                *)
Changes(updated, edges) ==
  LET flipped  == Qualifying(edges) \ Qualifying(net.edges)
      stronger == {Endpoints(k) : k \in {j \in updated : j[3] = "LOCAL"}}
                    \cap Qualifying(edges)
  IN Between(flipped, flipped \cup stronger)

(* process_assemblies.  "live" maps the assemblies to their members.       *)
Holding(live, c) == {a \in DOMAIN live : c \in live[a]}

Least(S) == CHOOSE x \in S : \A y \in S : x <= y

(* Fault: assemblies that shrank to the same members all stay.             *)
DuplicatesOfNone(kept) == {}

(* Deduplication of exact sets, among what was maintained and against what *)
(* was not.                                                                *)
Duplicates(kept) ==
  {a \in DOMAIN net.assemblies :
     \E b \in DOMAIN kept :
       LET S     == kept[b]
           group == {d \in DOMAIN kept : kept[d] = S}
                      \cup IF S \in DOMAIN net.index /\ net.index[S] \notin DOMAIN kept
                           THEN {net.index[S]} ELSE {}
       IN a \in group /\ a # Least(group)}

(* The assemblies with a member at one of these pairs.                     *)
Meeting(pairs) == {a \in DOMAIN net.assemblies : net.assemblies[a] \cap UNION pairs # {}}

(* MAINTAIN: members that are not dense or not specific leave until none   *)
(* has to; too small or disconnected a rest dissolves the assembly.        *)
Remainders(a, links) ==
  {S \in SUBSET net.assemblies[a] :
     S # {} => \A c \in S : Dense(c, S, links, RhoKeep)}

Lasts(S, links) == Cardinality(S) >= KMin /\ Connected(S, links)

Maintained(outcome, links) ==
  LET kept == [a \in {b \in DOMAIN outcome : Lasts(outcome[b], links)} |-> outcome[a]]
      gone == (DOMAIN outcome \ DOMAIN kept) \cup Duplicates(kept)
  IN [a \in DOMAIN net.assemblies \ gone |->
        IF a \in DOMAIN kept THEN kept[a] ELSE net.assemblies[a]]

(* GROW: a cell that a changed pair ties to a member.                      *)
Growths(live, changed, links) ==
  {g \in (DOMAIN live) \X net.cells :
     /\ g[2] \notin live[g[1]]
     /\ \E l \in changed \cap links : g[2] \in l /\ \E m \in l : g[1] \in net.memberships[m]
     /\ Dense(g[2], live[g[1]], links, RhoG)}

Grow(live, g) ==
  LET S == live[g[1]] \cup {g[2]} IN
  IF /\ g[2] \notin live[g[1]] /\ Cardinality(S) <= KMax /\ S \in Compact
     /\ Cardinality(Holding(live, g[2])) < MMax
     /\ \A a \in DOMAIN live : live[a] = S => a = g[1]
  THEN [live EXCEPT ![g[1]] = S] ELSE live

Grown(live, order) ==
  LET grown[n \in 0 .. Len(order)] ==
        IF n = 0 THEN live ELSE Grow(grown[n - 1], order[n])
  IN grown[Len(order)]

(* FORM: what is reached from the cells of changed pairs.                  *)
Forms(live, changed, edges, links) ==
  {S \in {Searched(c, edges, links) : c \in UNION (changed \cap links)} :
     /\ Sized(S) /\ S \in Compact /\ Covered(S, links) /\ Connected(S, links)
     /\ \A a \in DOMAIN live : live[a] # S}

(* One after the other, in some order: what finds room for all its members *)
(* is accepted.                                                            *)
Accepted(live, forms) ==
  {F \in SUBSET forms : \A S \in forms :
     S \in F <=> \A c \in S : Cardinality(Holding(live, c))
                             + Cardinality({T \in F \ {S} : c \in T}) < MMax}

(* The order of the sorted tuples of members.                              *)
Before(T, S) ==
  /\ T # S
  /\ LET d == Least((T \ S) \cup (S \ T))
     IN IF d \in T THEN \E e \in S : d < e ELSE \A e \in T : e < d

WithForms(live, forms) ==
  LET id(S) == net.nextId + Cardinality({T \in forms : Before(T, S)})
      ids   == {id(S) : S \in forms}
  IN [a \in DOMAIN live \cup ids |->
        IF a \in ids THEN CHOOSE S \in forms : id(S) = a ELSE live[a]]

-----------------------------------------------------------------------------
(* Fault: the cells at the ends of a pruned synapse are not looked at.     *)
ReclaimCandidatesForgettingPrunes(tx, after) ==
  (Referred(window) \ Referred(after)) \cup
  (UNION {net.assemblies[a] \ (IF a \in DOMAIN tx.assemblies THEN tx.assemblies[a] ELSE {})
          : a \in DOMAIN net.assemblies})

(* What may have lost its last reference in this tick.                     *)
ReclaimCandidates(tx, after) ==
  (Referred(window) \ Referred(after)) \cup (UNION {Endpoints(k) : k \in tx.deletes}) \cup
  (UNION {net.assemblies[a] \ (IF a \in DOMAIN tx.assemblies THEN tx.assemblies[a] ELSE {})
          : a \in DOMAIN net.assemblies})

(* The synapses after the tick.                                            *)
Prospective(tx) ==
  LET keys == (DOMAIN net.edges \ tx.deletes) \cup DOMAIN tx.upserts
  IN [k \in keys |-> IF k \in DOMAIN tx.upserts THEN tx.upserts[k] ELSE net.edges[k]]

Upserted(tx) ==
  {a \in DOMAIN tx.assemblies :
     a \notin DOMAIN net.assemblies \/ net.assemblies[a] # tx.assemblies[a]}
Deleted(tx) == DOMAIN net.assemblies \ DOMAIN tx.assemblies

(* _references.                                                            *)
References(tx) ==
  tx.drive \cup tx.commits \cup (UNION {Endpoints(k) : k \in DOMAIN tx.upserts \cup tx.blocked})
    \cup (UNION {tx.assemblies[a] : a \in Upserted(tx)})

Reclaimable(tx, edges, after) ==
  (ReclaimCandidates(tx, after) \cap net.cells)
    \ (tx.active \cup References(tx) \cup Referred(after)
         \cup (UNION {tx.assemblies[a] : a \in DOMAIN tx.assemblies})
         \cup (UNION {Endpoints(k) : k \in DOMAIN edges}))

-----------------------------------------------------------------------------
(* SparseNetwork.commit: the validation of the complete write set.         *)
LawfulEdges(tx, edges) ==
  \A c \in {k[1] : k \in tx.deletes \cup DOMAIN tx.upserts} :
    /\ c \in net.cells /\ Cardinality(Outgoing(edges, c)) <= SynapticBudget
    /\ \A k \in Outgoing(edges, c) : k \in Keys /\ k[2] \in net.cells

Count(tx, c) ==
  Cardinality(net.memberships[c])
    - Cardinality({a \in Holding(net.assemblies, c) : a \in Upserted(tx) \cup Deleted(tx)})
    + Cardinality({a \in Upserted(tx) : c \in tx.assemblies[a]})

LawfulAssemblies(tx, edges) ==
  \A a \in Upserted(tx) : LET S == tx.assemblies[a] IN
    /\ Sized(S) /\ S \in Compact /\ S \subseteq net.cells
    /\ \A b \in Upserted(tx) : tx.assemblies[b] = S => a = b
    /\ S \in DOMAIN net.index => net.index[S] \in {a} \cup Upserted(tx) \cup Deleted(tx)
    /\ \A c \in S : Count(tx, c) <= MMax
    /\ Connected(S, Qualifying(edges))

LawfulReclaims(tx, edges, reclaims) ==
  \A c \in reclaims :
    /\ c \notin References(tx) /\ Count(tx, c) = 0
    /\ Outgoing(edges, c) = {}
    /\ \A k \in net.incoming \cup DOMAIN tx.upserts :
         k[2] = c => k \in tx.deletes /\ k \notin DOMAIN tx.upserts

Lawful(tx, edges, reclaims) ==
  /\ tx.active \subseteq net.cells
  /\ LawfulEdges(tx, edges) /\ LawfulAssemblies(tx, edges) /\ LawfulReclaims(tx, edges, reclaims)

(* The publication, index by index.                                        *)
Published(tx, edges, reclaims) ==
  LET ids   == Upserted(tx) \cup Deleted(tx)
      old   == {net.assemblies[a] : a \in ids \cap DOMAIN net.assemblies}
      new   == {tx.assemblies[a] : a \in Upserted(tx)}
  IN [cells       |-> (net.cells \cup tx.commits) \ reclaims,
      active      |-> tx.active \ reclaims,
      edges       |-> [k \in {j \in DOMAIN edges : j[1] \notin reclaims} |-> edges[k]],
      incoming    |-> {k \in (net.incoming \ tx.deletes) \cup DOMAIN tx.upserts : k[2] \notin reclaims},
      assemblies  |-> tx.assemblies,
      index       |-> [S \in (DOMAIN net.index \ old) \cup new |->
                         IF S \in new THEN CHOOSE a \in Upserted(tx) : tx.assemblies[a] = S
                         ELSE net.index[S]],
      memberships |-> [c \in Cells |->
                         IF c \in reclaims THEN {}
                         ELSE (net.memberships[c] \ ids)
                                \cup {a \in Upserted(tx) : c \in tx.assemblies[a]}],
      nextId      |-> IF \A a \in Upserted(tx) : a < net.nextId THEN net.nextId
                      ELSE 1 + CHOOSE a \in Upserted(tx) : \A b \in Upserted(tx) : b <= a,
      tick        |-> net.tick + 1]

-----------------------------------------------------------------------------
(* commit, then publish.                                                   *)
Commit(tx, after) ==
  LET edges    == Prospective(tx)
      reclaims == Reclaimable(tx, edges, after)
  IN
  IF Lawful(tx, edges, reclaims)
  THEN net' = Published(tx, edges, reclaims) /\ window' = after /\ root' = root + 1
       /\ UNCHANGED <<start, refused>>
  ELSE refused' = TRUE /\ UNCHANGED <<net, window, root, start>>

(* process_event.  Nothing is written before commit.  Rejected proposals   *)
(* are blocked when the event is novel enough, all of them or none.        *)
ProcessEvent(drive, boundary) ==
  /\ net.tick < start + MaxTicks
  /\ \E active \in SUBSET Excitable(drive, boundary) :
     LET history  == IF boundary THEN <<>> ELSE window
         after    == Extended(history, [tick |-> net.tick, active |-> active, drive |-> drive])
         evidence == Evidence(active, history)
         updated  == Updated(evidence)
     IN \E firmer \in SUBSET (updated \cap Weak), admitted \in SUBSET Proposable(evidence) :
        \E pruned \in SUBSET {k \in Weak \ firmer : From(admitted, k[1]) # {}} :
          LET rejected == {k \in Proposable(evidence) \ admitted : Full(admitted, pruned, k[1])}
              edges    == [k \in (DOMAIN net.edges \ pruned) \cup admitted |->
                             IF k \in firmer THEN "firm"
                             ELSE IF k \in admitted THEN "candidate" ELSE net.edges[k]]
              links    == Supported(edges)
              changes  == Changes(updated, edges)
              touched  == {Endpoints(k) : k \in updated \cup admitted \cup pruned}
          IN /\ Arbitrates(admitted, pruned)
             /\ \E ordinary \in SUBSET Recruitable(drive), blocked \in {{}, rejected} :
                \E expansion \in SUBSET Expandable(blocked, drive, Surviving(history), ordinary),
                   changed \in changes :
                \E due \in {Meeting(support) : support \in Between(changed, touched)} :
                LET rests == [a \in due |-> Remainders(a, links)]
                IN /\ Cardinality(ordinary \cup expansion) <= KR
                   /\ \E outcome \in [due -> SUBSET Cells] :
                      /\ \A a \in due : outcome[a] \in rests[a]
                      /\ LET live == Maintained(outcome, links)
                         IN \E grows \in SUBSET Growths(live, changed, links) :
                            \E order \in SetToSeqs(grows) :
                            LET grown == Grown(live, order) IN
                            \E forms \in Accepted(grown, Forms(grown, changed, edges, links)) :
                            LET tx == [drive |-> drive, active |-> active,
                                       commits |-> ordinary \cup expansion,
                                       upserts |-> [k \in (updated \ pruned) \cup admitted |-> edges[k]],
                                       deletes |-> pruned, blocked |-> blocked,
                                       assemblies |-> WithForms(grown, forms)]
                            IN Commit(tx, after)

CoreNext == \E drive \in Surfaces, boundary \in BOOLEAN : ProcessEvent(drive, boundary)

CoreSpec == CoreInit /\ [][CoreNext]_coreVars

-----------------------------------------------------------------------------
(* commit never refuses what process_event planned: the planner and the    *)
(* validator, which count edges, members and references each in its own    *)
(* way, agree.  Were they not to, the same event would fail for ever; with *)
(* a threshold theta_A of zero they do not.  And                           *)
(* what the three publications of a tick leave moves together: one root a  *)
(* tick, and a window that holds the last ticks without a gap, at most     *)
(* Horizon of them, naming only cells that are still there.                *)
PlansAreLawful == ~refused /\ InStep(net, window, root)

(* "Orphan reclamation": a cell is materialized exactly as long as the     *)
(* window, a synapse or an assembly refers to it.  Nothing that is referred*)
(* to is taken away, and nothing is left behind: the cell becomes a        *)
(* candidate in the very tick in which its last reference goes.            *)
OnlyHeldCellsStay == Held(net, window)

(* Whatever the ticks did, the state can be saved and loaded: every check  *)
(* of the loader passes, and the engine is rebuilt as it was, its derived  *)
(* indexes and the next identity included.                                 *)
RestartsAsItWas == Loadable(net) /\ Rebuilt(net) = net
=============================================================================
