---------------------------- MODULE MCReasoning ----------------------------
(* Instances of Reasoning for TLC: five calls of at most seven sources.     *)
EXTENDS Reasoning, TLC

Source(content, basis, roots) == [content |-> content, basis |-> basis, scope |-> "s", roots |-> roots]
Constraint(forbids, arity)    == [forbids |-> forbids, arity |-> arity, scope |-> "s", roots |-> {1}]

If(x, y)    == Source(<<"if", x, y>>, "formal", {1})
Arrow(x, y) == <<"relation", "R", x, y>>
Transitive  == Source(<<"transitive", "R">>, "formal", {1})

P == Arrow("a", "b")
Q == Arrow("b", "a")
U == <<"atom", "u">>

(* p, p -> q and q -> p, so that a conclusion could come to support itself;*)
(* relations that would compose, but for the schema that derived them; u   *)
(* and u -> v, which a constraint blocks; and q -> u, under an assumption  *)
(* that the branch leaves out.                                             *)
Circle ==
  [sources |-> {Source(P, "external", {1}), If(P, Q), If(Q, P), Transitive, Source(U, "external", {1}),
                If(U, <<"atom", "v">>), Source(<<"if", Q, U>>, "formal", {1, 2})},
   constraints |-> {Constraint({{U}}, 1)}, branch |-> 1, mode |-> "EXISTS"]

(* Five sources that stand on six roots each, and two whose conclusion is *)
(* one entry too many.                                                     *)
Scattered ==
  [sources |-> {Source(<<"atom", "p", n>>, "external", 6 * n - 5 .. 6 * n) : n \in 1 .. 5},
   constraints |-> {}, branch |-> 30, mode |-> "EXISTS"]

Full ==
  [sources |-> {Source(P, "external", 1 .. 29), If(P, Q)},
   constraints |-> {}, branch |-> 29, mode |-> "EXISTS"]

(* A transitive relation on a cycle of two, whose closure is too large.    *)
Closure ==
  [sources |-> {Transitive, Source(P, "external", {1}), Source(Q, "external", {2})},
   constraints |-> {Constraint({{Arrow("a", "a"), Arrow("b", "b")}}, 2)},
   branch |-> 2, mode |-> "ENUMERATE"]

(* Five sources, of which a constraint asks about every pair.              *)
Crowded ==
  [sources |-> {Source(<<"atom", "p", n>>, "external", {1}) : n \in 1 .. 5},
   constraints |-> {Constraint({}, 2)}, branch |-> 1, mode |-> "EXISTS"]

Arguments == ("circle" :> Circle) @@ ("scattered" :> Scattered) @@ ("full" :> Full)
             @@ ("closure" :> Closure) @@ ("crowded" :> Crowded)
Calls == DOMAIN Arguments
Small == {"circle"}

TwoKeys == {<<"claim", 1>>, <<"claim", 2>>, <<"rule", 1>>}

Limits == {[reasoning |-> FALSE, rounds |-> 2, entries |-> 1, staged |-> 2],
           [reasoning |-> TRUE, rounds |-> 5, entries |-> 36, staged |-> 34]}
=============================================================================
