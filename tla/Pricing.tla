------------------------------- MODULE Pricing -------------------------------
(***************************************************************************)
(* The price of a cake (PricingService) and what an order keeps of it      *)
(* (OrdersService).  Prices are cents per kilogram, weights grams: the     *)
(* scale to which the code converts them before it computes.               *)
(***************************************************************************)
EXTENDS Integers, Sequences, FiniteSets, SequencesExt

\* CakeLayerInputDto: at most two fillings on a floor.
Floor(ids, weights) ==
    [number: Nat \ {0}, dough: ids, coverage: ids, grams: weights,
     fillings: {<<>>} \union {<<x>> : x \in ids} \union {<<x, y>> : x, y \in ids}]

\* A row of the catalogue.
Ingredient ==
    [type: {"MASSA", "RECHEIO", "COBERTURA"}, active: BOOLEAN, aerated: BOOLEAN,
     allergens: SUBSET STRING, price: Nat]

FeeCents == 2500

Layer(floor) == <<floor.dough, floor.coverage>> \o floor.fillings

IngredientIds(floors) == UNION {ToSet(Layer(floors[i])) : i \in DOMAIN floors}

\* (cents per kg * grams) / 1000 g, rounded half up in integers.
HalfUp(x) == (x + 500) \div 1000

\* What amount[i] comes to over the ingredients i of a floor.
OverLayer(floor, amount) ==
    amount[floor.dough] + amount[floor.coverage]
    + (IF Len(floor.fillings) > 0 THEN amount[floor.fillings[1]] ELSE 0)
    + (IF Len(floor.fillings) > 1 THEN amount[floor.fillings[2]] ELSE 0)

-----------------------------------------------------------------------------
(* PricingService.calculate: catalog holds the rows its query found *)

Found(shop, floors) == [i \in {j \in IngredientIds(floors) : shop[j].active} |-> shop[i]]

SequencedAndUnique(floors) ==
    /\ \A i \in DOMAIN floors : floors[i].number \in 1 .. Len(floors)
    /\ \A i, j \in DOMAIN floors : i # j => floors[i].number # floors[j].number
    /\ \A i \in DOMAIN floors : IsInjective(floors[i].fillings)

AllExist(floors, catalog) == IngredientIds(floors) \subseteq DOMAIN catalog

SlotTypes(floors, catalog) ==
    \A i \in DOMAIN floors :
        /\ catalog[floors[i].dough].type = "MASSA"
        /\ catalog[floors[i].coverage].type = "COBERTURA"
        /\ \A x \in ToSet(floors[i].fillings) : catalog[x].type = "RECHEIO"

\* RN01: no aerated dough under more than two floors.
Structural(floors, catalog) ==
    Len(floors) > 2 => \A i \in DOMAIN floors : ~catalog[floors[i].dough].aerated

LayerCents(floor, catalog) ==
    HalfUp(OverLayer(floor, [i \in DOMAIN catalog |-> catalog[i].price]) * floor.grams)

\* What a 422 answer refuses.
Priceable(floors, shop) ==
    /\ SequencedAndUnique(floors)
    /\ AllExist(floors, Found(shop, floors))
    /\ SlotTypes(floors, Found(shop, floors))
    /\ Structural(floors, Found(shop, floors))

Price(floors, shop) ==
    FoldSeq(LAMBDA floor, sum : LayerCents(floor, Found(shop, floors)) + sum, FeeCents, floors)

-----------------------------------------------------------------------------
(* OrdersService: the dietary check and the snapshots *)

\* The API's table of the allergens a flag stands for.
Forbidden(flag) ==
    CASE flag \in {"lactose", "leite", "sem_lactose"} -> {"lactose", "leite"}
      [] flag \in {"gluten", "sem_gluten"}           -> {"gluten", "trigo"}
      [] flag = "ovos"                               -> {"ovos", "ovo"}
      [] flag = "castanhas"                          -> {"castanhas", "nozes", "amendoas"}
      [] OTHER                                       -> {flag}

\* An inactive ingredient is not found, hence not looked at.
NoDietaryConflict(flags, catalog) ==
    \A i \in DOMAIN catalog, flag \in flags : catalog[i].allergens \cap Forbidden(flag) = {}

\* The items of a floor are rounded down.
FaultyItemsCents(floor, ids, catalog) ==
    OverLayer(floor, [i \in ids |-> IF i \in DOMAIN catalog
                                    THEN (catalog[i].price * floor.grams) \div 1000 ELSE 0])

\* buildOrderItemSnapshots, of one floor: every item is rounded by itself, and
\* one that is not found is left out.
ItemsCents(floor, ids, catalog) ==
    OverLayer(floor, [i \in ids |-> IF i \in DOMAIN catalog
                                    THEN HalfUp(catalog[i].price * floor.grams) ELSE 0])
=============================================================================
