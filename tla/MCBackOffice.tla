---------------------------- MODULE MCBackOffice ----------------------------
(* Two ingredients, one of them to come, and two sales of which the second *)
(* has an odd price, over two days.                                        *)
EXTENDS BackOffice

CONSTANTS i1, i2, p1, p2, a, b

InCents == a :> 1000 @@ b :> 501

Symmetry == Permutations({i1, i2}) \union Permutations({p1, p2})
=============================================================================
