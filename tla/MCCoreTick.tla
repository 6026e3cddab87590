------------------------------ MODULE MCCoreTick ------------------------------
(* Three cells in a row, the middle one within both radii of the ends, and *)
(* a receptor out of their reach.                                          *)
EXTENDS CoreTick, TLC

Both(pairs) == pairs \cup {<<p[2], p[1]>> : p \in pairs}
MCNear == Both({<<1, 2>>, <<2, 3>>})
MCCompact == SUBSET (1 .. 3)
MCSurfaces == {{1, 2}, {3}}

Firm(pairs) == [k \in {<<p[1], p[2], "LOCAL">> : p \in Both(pairs)} |-> "firm"]
Candidates(keys) == [k \in keys |-> "candidate"]

Saved(cells, edges, assemblies, nextId, events, tick) ==
  [net |-> [cells |-> cells, active |-> events[Len(events)].active, edges |-> edges,
            assemblies |-> assemblies, incoming |-> {}, index |-> <<>>, memberships |-> <<>>,
            nextId |-> nextId, tick |-> tick],
   window |-> events, root |-> tick]

Event(tick, active, drive) == [tick |-> tick, active |-> active, drive |-> drive]

(* A first event; an assembly whose middle cell has spent its budget, after*)
(* another one was dissolved; two nested assemblies in one of which the    *)
(* last cell hangs by one pair.                                            *)
MCSeeds ==
  {Saved({}, <<>>, <<>>, 0, <<Event(0, {}, {1, 2})>>, 1),
   Saved({1, 2, 3}, Firm({<<1, 2>>}) @@ Candidates({<<2, 3, "LOCAL">>}),
         0 :> {1, 2}, 2, <<Event(3, {2, 3}, {2}), Event(4, {2}, {2, 4})>>, 5),
   Saved({1, 2, 3}, Firm({<<1, 2>>, <<2, 3>>}),
         (0 :> {1, 2}) @@ (1 :> {1, 2, 3}), 2, <<Event(4, {1}, {1})>>, 5)}

(* An assembly to be: two cells that qualify, and a third that one of them *)
(* has a synapse to.                                                       *)
MCHalfway ==
  {Saved({1, 2, 3}, Firm({<<1, 2>>}) @@ Candidates({<<2, 3, "LOCAL">>}), <<>>, 0,
         <<Event(4, {1, 2}, {1, 2})>>, 5)}
=============================================================================
