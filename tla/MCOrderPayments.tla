--------------------------- MODULE MCOrderPayments ---------------------------
(***************************************************************************)
(* Instances of OrderPayments for TLC.                                     *)
(***************************************************************************)
EXTENDS OrderClaims, OrderInvariant, TLC

\* Nothing tells two orders, two charges or two handlers apart.
Symmetry == Permutations(Orders) \union Permutations(Charges) \union Permutations(Handlers)
=============================================================================
