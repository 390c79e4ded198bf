----------------------------- MODULE MCForkTree -----------------------------
(***************************************************************************)
(* An instance of ForkTreeGrowth for TLC: a main chain a0 .. a3, a fork b2 *)
(* of a1 that itself forks (c3 and d3 follow b2).  With a window of two    *)
(* the root moves twice: the fork survives the first time and is pruned    *)
(* the second time, as a single block, as a chain or with its own fork.    *)
(***************************************************************************)
EXTENDS ForkTreeGrowth

At(number, previous) == [number |-> number, previous |-> previous]

Bush == [a0 |-> At(0, NoBlock), a1 |-> At(1, "a0"), a2 |-> At(2, "a1"),
         a3 |-> At(3, "a2"),
         b2 |-> At(2, "a1"), c3 |-> At(3, "b2"), d3 |-> At(3, "b2")]

BushBlock == DOMAIN Bush
BushNumber == [b \in BushBlock |-> Bush[b].number]
BushPrevious == [b \in BushBlock |-> Bush[b].previous]
=============================================================================
