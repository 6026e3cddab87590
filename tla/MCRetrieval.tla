------------------------------ MODULE MCRetrieval ------------------------------
(* Instances of Retrieval for TLC: networks of five cells.  In the first a *)
(* triangle 1 2 3 is completed in two rounds and a hop leads to 4 and 5;   *)
(* in the second it lost a cell, 2 and 3 are another assembly and the hop  *)
(* starts elsewhere; in the third 4 and 5 are no assembly and 5 is gone.   *)
EXTENDS Retrieval, TLC

Both(f) == f @@ [k \in {<<j[2], j[1]>> : j \in DOMAIN f} |-> f[<<k[2], k[1]>>]]

Triangle == Both((<<1, 2>> :> 2) @@ (<<1, 3>> :> 1) @@ (<<2, 3>> :> 1))
Pair     == Both(<<4, 5>> :> 2)

Active(cells) == [c \in Cells |-> IF c \in cells THEN 2 ELSE 0]

First ==
  [cells |-> 1 .. 5, local |-> Triangle @@ Pair,
   associative |-> (<<3, 4>> :> 2) @@ (<<2, 5>> :> 0),
   assemblies |-> (0 :> {1, 2, 3}) @@ (1 :> {4, 5}), activation |-> Active({1})]

Second ==
  [cells |-> 1 .. 5, local |-> Triangle @@ Pair,
   associative |-> (<<1, 4>> :> 2) @@ (<<3, 5>> :> 1),
   assemblies |-> (0 :> {1, 2}) @@ (1 :> {4, 5}) @@ (2 :> {2, 3}), activation |-> Active({1, 2})]

Third ==
  [cells |-> 1 .. 4, local |-> Triangle,
   associative |-> <<3, 4>> :> 2,
   assemblies |-> 0 :> {1, 2, 3}, activation |-> Active({2, 4})]

MCNetworks == {First, Second, Third}
MCCues == {<<>>, 1 :> 2, 2 :> 1, (1 :> 1) @@ (4 :> 2), 5 :> 2}

Quarter == <<1, 4>>
OneHalf == <<1, 2>>
=============================================================================
