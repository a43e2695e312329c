------------------------------ MODULE MCLoyalty ------------------------------
(***************************************************************************)
(* Instances of Loyalty for TLC: one customer with orders of R$ 600,00 and *)
(* R$ 409,99, whose points cross the first level only together, and one    *)
(* of R$ 9,99, which earns nothing.                                        *)
(***************************************************************************)
EXTENDS LoyaltyOverlaps, TLC

CONSTANTS u1, o1, o2, o3

OneCustomer == [o \in Orders |-> u1]

Prices == (o1 :> 60000) @@ (o2 :> 40999) @@ (o3 :> 999)

CheckedPrices == [o \in Orders |-> Prices[o]]

HandlerSymmetry == Permutations(Handlers)
=============================================================================
