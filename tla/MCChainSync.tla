----------------------------- MODULE MCChainSync -----------------------------
(***************************************************************************)
(* A small instance of ChainSync: a chain g, a1, a2, a3, a fork of it at   *)
(* height 1, a second genesis block and blocks that fail one check each.   *)
(***************************************************************************)
EXTENDS ChainSync, TLC

CONSTANTS n1, n2, n3

MCNodes == {n1, n2, n3}
\* n3 is known but its reputation is too low to create blocks.
MCScore == (n1 :> 5) @@ (n2 :> 6) @@ (n3 :> 1)

Block(x, h, p, t, c, s) ==
  [hash |-> x, height |-> h, prev |-> p, time |-> t, creator |-> c,
   sealed |-> TRUE, sigs |-> s]

g  == Block("g",  0, "none", 1, n1, <<n1, n2>>)
a1 == Block("a1", 1, "g",    2, n1, <<n1, n2>>)
a2 == Block("a2", 2, "a1",   3, n2, <<n2, n3>>)
a3 == Block("a3", 3, "a2",   4, n1, <<n1, n2, n3>>)
b1 == Block("b1", 1, "g",    2, n2, <<n1, n3>>)
b2 == Block("b2", 2, "b1",   3, n2, <<n1, n2>>)
g2 == Block("g2", 0, "none", 2, n2, <<n1, n2>>)
\* not later than its predecessor / creator without reputation / one signature
late  == Block("late", 1, "g", 1, n1, <<n1, n2>>)
weak  == Block("weak", 1, "g", 2, n3, <<n1, n2>>)
alone == Block("alone", 1, "g", 2, n1, <<n1>>)

c1 == Block("c1", 1, "g2",   3, n1, <<n1, n2>>)

ChainBlocks == {g, a1, a2, a3, g2, c1}
ForkBlocks  == {g, a1, b1, b2, g2, late, weak, alone, [b1 EXCEPT !.sealed = FALSE]}

NoChains   == {}
ForkChains == {<<g, b1>>, <<b1, b2>>, <<g2, b1, b2>>}

NoNodes == {}
NoScore == <<>>
=============================================================================
