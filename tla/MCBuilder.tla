----------------------------- MODULE MCBuilder -----------------------------
(* Two doughs, two fillings and a coverage, and three edits of them. *)
EXTENDS BuilderHistory, TLC

CONSTANTS sponge, dense, ganache, jam, cream

Listing == <<sponge, dense, ganache, jam, cream>>

Row(type, aerated, allergens, price) ==
    [type |-> type, active |-> TRUE, aerated |-> aerated, allergens |-> allergens, price |-> price]

First ==
    sponge :> Row("MASSA", TRUE, {"gluten"}, 4503) @@
    dense :> Row("MASSA", FALSE, {}, 5208) @@
    ganache :> Row("RECHEIO", FALSE, {"trigo"}, 3308) @@
    jam :> Row("RECHEIO", FALSE, {}, 2103) @@
    cream :> Row("COBERTURA", FALSE, {}, 1908)

\* The jam gets dearer and contains gluten, and the dense dough is withdrawn;
\* then the only coverage.
Second ==
    [First EXCEPT ![jam].price = 2208, ![jam].allergens = {"gluten"}, ![dense].active = FALSE]

Versions == <<First, Second, [Second EXCEPT ![cream].active = FALSE]>>
=============================================================================
