------------------------------- MODULE Builder -------------------------------
(***************************************************************************)
(* The cake builder (cake-builder-view.tsx) and what the API does for it:  *)
(* the catalogue it loads once, the draft it edits and keeps in the        *)
(* session storage, the quote it asks for after every change, the upload   *)
(* of a picture, and the order.  The catalogue of the API changes under    *)
(* the page: whatever reads it keeps the version it read.                  *)
(***************************************************************************)
EXTENDS Pricing

CONSTANTS
    Catalogs,    \* the catalogue as it is edited: a sequence of functions from Ids to rows
    Order,       \* the ids in the order in which the API lists them
    Flags,       \* the dietary flags in use
    Weights,     \* the weights a customer types, in grams
    MaxFloors,   \* 4 in the code
    MaxQuotes,   \* asked for at once
    MaxActs,     \* edits, uploads and orders
    None

Ids == ToSet(Order)

\* The flags the builder offers.
DietaryKeys == {"lactose", "gluten", "ovos", "castanhas", "amendoim", "soja"}

ASSUME BuilderAssumption ==
    /\ Catalogs \in Seq([Ids -> Ingredient]) /\ Catalogs # <<>>
    /\ Order \in Seq(Ids) /\ IsInjective(Order)
    /\ Flags \subseteq DietaryKeys
    /\ Weights \subseteq Nat /\ MaxFloors \in 1 .. 4

VARIABLES
    version,   \* of the catalogue in the database
    page,      \* the builder on the screen
    storage,   \* the draft in the session storage
    quotes,    \* the floors quotes are asked for; live: the effect was not cleaned up
    upload,    \* the upload under way
    strays,    \* the uploads under way of pages that were left: the drafts they showed last
    orders,    \* the orders sent; mine: by the page on the screen
    edits      \* how many edits and uploads there were

vars == <<version, page, storage, quotes, upload, strays, orders, edits>>

-----------------------------------------------------------------------------

NoQuote == [key |-> <<>>, version |-> 0, price |-> None]

Closed == [at |-> "closed", version |-> 0, customer |-> FALSE, draft |-> None,
           quote |-> NoQuote, submitting |-> FALSE]

\* The rows the page has loaded: the public catalogue holds active ones only.
Loaded == Catalogs[page.version]

Listed(v, type) == {i \in Ids : Catalogs[v][i].active /\ Catalogs[v][i].type = type}

Plain(v) == {i \in Listed(v, "MASSA") : ~Catalogs[v][i].aerated}

\* The one the API lists first.
Foremost(ids) == Order[Min({n \in DOMAIN Order : Order[n] \in ids})]

\* createDefaultFloor: 1.6 kg, and 0.3 kg less a floor, but 0.8 kg at least.
DefaultFloor(v, n, structured) ==
    [number |-> n,
     dough |-> Foremost(IF structured /\ Plain(v) # {} THEN Plain(v) ELSE Listed(v, "MASSA")),
     coverage |-> Foremost(Listed(v, "COBERTURA")),
     fillings |-> <<Foremost(Listed(v, "RECHEIO"))>>,
     grams |-> IF n = 4 THEN 800 ELSE 1900 - 300 * n]

Complete(v) == \A type \in {"MASSA", "RECHEIO", "COBERTURA"} : Listed(v, type) # {}

InitialDraft(v) ==
    IF Complete(v)
    THEN [floors |-> <<DefaultFloor(v, 1, FALSE)>>, flags |-> {}, image |-> FALSE]
    ELSE None

\* readDraftFromSession: every ingredient still is in the catalogue; its type
\* is not looked at.
Restorable(v) ==
    /\ storage # None
    /\ \A i \in IngredientIds(storage.floors) : Catalogs[v][i].active
    /\ \A i \in DOMAIN storage.floors : storage.floors[i].fillings # <<>>

Structured(floors) == Len(floors) > 2

AeratedViolation ==
    Structured(page.draft.floors)
        /\ \E i \in DOMAIN page.draft.floors : Loaded[page.draft.floors[i].dough].aerated

\* Gluten without wheat.
FaultyEquivalents(flag) ==
    CASE flag = "lactose"   -> {"lactose", "leite"}
      [] flag = "ovos"      -> {"ovos", "ovo"}
      [] flag = "castanhas" -> {"castanhas", "nozes", "amendoas"}
      [] OTHER              -> {flag}

\* The page's own table of the allergens a flag stands for.
Equivalents(flag) ==
    CASE flag = "lactose"   -> {"lactose", "leite"}
      [] flag = "gluten"    -> {"gluten", "trigo"}
      [] flag = "ovos"      -> {"ovos", "ovo"}
      [] flag = "castanhas" -> {"castanhas", "nozes", "amendoas"}
      [] flag = "amendoim"  -> {"amendoim"}
      [] flag = "soja"      -> {"soja"}

\* hasAllergenConflict, over all floors; an ingredient not loaded is not looked at.
DietaryConflict ==
    \E i \in IngredientIds(page.draft.floors), flag \in page.draft.flags :
        Loaded[i].active /\ Loaded[i].allergens \cap Equivalents(flag) # {}

\* The quote that came last.
FaultyCurrentQuote == page.quote

\* The price on the screen: that of these floors, or none.
CurrentQuote == IF page.quote.key = page.draft.floors THEN page.quote ELSE NoQuote

-----------------------------------------------------------------------------
(* The effect that asks for a quote after every change of the draft *)

EveryFloorValid(floors) ==
    \A i \in DOMAIN floors :
        Len(floors[i].fillings) \in 1 .. 2 /\ floors[i].grams \in 500 .. 20000

CleanedUp == [i \in DOMAIN quotes |-> [quotes[i] EXCEPT !.live = FALSE]]

Requote(draft) ==
    IF EveryFloorValid(draft.floors)
    THEN Append(CleanedUp, [floors |-> draft.floors, live |-> TRUE])
    ELSE CleanedUp

\* PricingService.calculate: a price, or none, with 422 or for want of an
\* answer.  An edit of the catalogue between the computation and the arrival
\* is like one right after it.
Quoted(floors) ==
    {[key |-> floors, version |-> version,
      price |-> IF Priceable(floors, Catalogs[version]) THEN Price(floors, Catalogs[version]) ELSE None],
     [NoQuote EXCEPT !.key = floors]}

\* The answer to any request is taken.
FaultyQuoteArrives(i) ==
    /\ \E answer \in Quoted(quotes[i].floors) : page' = [page EXCEPT !.quote = answer]
    /\ quotes' = RemoveAt(quotes, i)
    /\ UNCHANGED <<version, storage, upload, strays, orders, edits>>

\* Only the answer to the last request is taken.
QuoteArrives(i) ==
    /\ \E answer \in Quoted(quotes[i].floors) :
        page' = IF quotes[i].live THEN [page EXCEPT !.quote = answer] ELSE page
    /\ quotes' = RemoveAt(quotes, i)
    /\ UNCHANGED <<version, storage, upload, strays, orders, edits>>

-----------------------------------------------------------------------------
(* The visit *)

\* Whether the session is a customer's; nothing is ordered before it is known.
OpenBuilder ==
    /\ page.at = "closed"
    /\ \E customer \in BOOLEAN : page' = [Closed EXCEPT !.at = "loading", !.customer = customer]
    /\ UNCHANGED <<version, storage, quotes, upload, strays, orders, edits>>

\* The draft of the session, or a first one; without dough, filling and
\* coverage there is none.
CatalogArrives ==
    LET restored == IF Restorable(version) THEN storage ELSE InitialDraft(version) IN
    /\ page.at = "loading" /\ Len(quotes) < MaxQuotes
    /\ page' = [page EXCEPT !.at = IF restored = None THEN "empty" ELSE "editing",
                            !.version = version, !.draft = restored]
    /\ IF restored = None
       THEN quotes' = CleanedUp /\ UNCHANGED storage
       ELSE quotes' = Requote(restored) /\ storage' = restored
    /\ UNCHANGED <<version, upload, strays, orders, edits>>

LoseCatalog ==
    /\ page.at = "loading"
    /\ page' = [page EXCEPT !.at = "failed"]
    /\ UNCHANGED <<version, storage, quotes, upload, strays, orders, edits>>

\* What became of an answered order no longer matters; an upload goes on.
Unmounted ==
    /\ page' = Closed /\ upload' = "none"
    /\ strays' = IF upload = "sent" THEN Append(strays, page.draft) ELSE strays
    /\ quotes' = CleanedUp
    /\ orders' = [k \in DOMAIN orders |-> [orders[k] EXCEPT !.mine = FALSE, !.again = FALSE,
            !.at = IF @ \in {"done", "doneLost"} THEN "gone" ELSE @]]

\* To the login page, or anywhere; the push after an order, too.
LeaveBuilder ==
    /\ page.at # "closed"
    /\ Unmounted
    /\ UNCHANGED <<version, storage, edits>>

\* An administrator edits the catalogue.
EditCatalog ==
    /\ version < Len(Catalogs) /\ version' = version + 1
    /\ UNCHANGED <<page, storage, quotes, upload, strays, orders, edits>>

-----------------------------------------------------------------------------
(* Edits of the draft; each saves it and asks for a quote *)

Editing == page.at \in {"editing", "ordered"} /\ edits + Len(orders) < MaxActs /\ Len(quotes) < MaxQuotes

\* The new draft is shown but not saved.
FaultyEdit(draft) ==
    /\ Editing
    /\ page' = [page EXCEPT !.draft = draft]
    /\ quotes' = Requote(draft)
    /\ edits' = edits + 1
    /\ UNCHANGED <<version, storage, upload, strays, orders>>

Edit(draft) ==
    /\ Editing
    /\ page' = [page EXCEPT !.draft = draft]
    /\ storage' = draft
    /\ quotes' = Requote(draft)
    /\ edits' = edits + 1
    /\ UNCHANGED <<version, upload, strays, orders>>

EditFloor(i, floor) == Edit([page.draft EXCEPT !.floors[i] = floor])

\* handleFloorsCountChange: above two floors an aerated dough makes way for the
\* first one that is not.  A new floor needs an ingredient for every slot: the
\* handler fails without one.
ChangeFloorsCount(n) ==
    LET v == page.version
        kept(floor) ==
            IF n > 2 /\ Loaded[floor.dough].aerated /\ Plain(v) # {}
            THEN [floor EXCEPT !.dough = Foremost(Plain(v))] ELSE floor
    IN  /\ n > Len(page.draft.floors) => Complete(v)
        /\ Edit([page.draft EXCEPT !.floors = [i \in 1 .. n |->
                IF i <= Len(page.draft.floors) THEN kept(page.draft.floors[i])
                ELSE DefaultFloor(v, i, n > 2)]])

\* An aerated dough is disabled above two floors.
SelectDough(i) ==
    \E dough \in Listed(page.version, "MASSA") :
        /\ ~(Structured(page.draft.floors) /\ Loaded[dough].aerated)
        /\ EditFloor(i, [page.draft.floors[i] EXCEPT !.dough = dough])

SelectCoverage(i) ==
    \E coverage \in Listed(page.version, "COBERTURA") :
        EditFloor(i, [page.draft.floors[i] EXCEPT !.coverage = coverage])

\* To 0.5 kg .. 20 kg.
Clamped(w) == Max({500, Min({20000, w})})

TypeWeight(i) ==
    \E w \in Weights : EditFloor(i, [page.draft.floors[i] EXCEPT !.grams = Clamped(w)])

\* One filling stays, and a third one is disabled.
ToggleFilling(i) ==
    \E filling \in Listed(page.version, "RECHEIO") :
        LET chosen == page.draft.floors[i].fillings IN
        /\ filling \in ToSet(chosen) \/ Len(chosen) < 2
        /\ EditFloor(i, [page.draft.floors[i] EXCEPT !.fillings =
                IF filling \notin ToSet(chosen) THEN Append(@, filling)
                ELSE IF Len(@) <= 1 THEN @
                ELSE <<@[IF @[1] = filling THEN 2 ELSE 1]>>])

ToggleDietaryFlag ==
    \E flag \in Flags :
        Edit([page.draft EXCEPT !.flags = IF flag \in @ THEN @ \ {flag} ELSE @ \union {flag}])

\* Format, colour, message and address: the draft is another one, of which no
\* property tells.
ChangeLook == Edit(page.draft)

RemoveImage == page.draft.image /\ Edit([page.draft EXCEPT !.image = FALSE])

ResetDraft ==
    /\ Complete(page.version)
    /\ Edit(InitialDraft(page.version))

Edits ==
    /\ Editing
    /\ \/ \E n \in 1 .. MaxFloors : ChangeFloorsCount(n)
       \/ \E i \in DOMAIN page.draft.floors :
            SelectDough(i) \/ SelectCoverage(i) \/ TypeWeight(i) \/ ToggleFilling(i)
       \/ ToggleDietaryFlag \/ ChangeLook \/ RemoveImage \/ ResetDraft

StartUpload ==
    /\ Editing /\ upload = "none"
    /\ upload' = "sent" /\ edits' = edits + 1
    /\ UNCHANGED <<version, page, storage, quotes, strays, orders>>

\* handleRicePaperChange: the picture joins the draft of the moment, or the
\* upload failed.
UploadArrives ==
    /\ upload = "sent" /\ upload' = "none"
    /\ \/ UNCHANGED <<page, storage, quotes>>
       \/ /\ Len(quotes) < MaxQuotes
          /\ page' = [page EXCEPT !.draft.image = TRUE]
          /\ storage' = page'.draft
          /\ quotes' = Requote(page.draft)
    /\ UNCHANGED <<version, strays, orders, edits>>

\* The same of a page that was left: React may still run the updater, on the
\* draft that page showed last, and the updater saves, whatever page is open now.
StrayUploadArrives(i) ==
    /\ storage' \in {storage, [strays[i] EXCEPT !.image = TRUE]}
    /\ strays' = RemoveAt(strays, i)
    /\ UNCHANGED <<version, page, quotes, upload, orders, edits>>

-----------------------------------------------------------------------------
(* The order *)

NoOrder == [at |-> "gone", mine |-> FALSE, again |-> FALSE, draft |-> None, loaded |-> 0,
            shown |-> NoQuote, priced |-> 0, read |-> 0, total |-> 0]

Submit ==
    /\ orders' = Append(orders,
            [NoOrder EXCEPT !.at = "sent", !.mine = TRUE, !.again = page.at = "ordered",
                            !.draft = page.draft, !.loaded = page.version, !.shown = CurrentQuote])
    /\ page' = [page EXCEPT !.submitting = TRUE]
    /\ UNCHANGED <<version, storage, quotes, upload, strays, edits>>

Submittable ==
    /\ page.at \in {"editing", "ordered"} /\ edits + Len(orders) < MaxActs
    /\ page.customer /\ upload = "none"
    /\ ~DietaryConflict /\ ~AeratedViolation /\ CurrentQuote.price # None

\* The button is pressed whatever is under way.
FaultySubmitOrder == Submittable /\ Submit

\* handleSubmitOrder: the button loads while submitting.
SubmitOrder == Submittable /\ ~page.submitting /\ Submit

\* createOrder, first: the price.
PriceOrder(k) ==
    LET floors == orders[k].draft.floors IN
    /\ orders[k].at = "sent"
    /\ orders' = [orders EXCEPT ![k] =
            IF Priceable(floors, Catalogs[version])
            THEN [@ EXCEPT !.at = "priced", !.priced = version, !.total = Price(floors, Catalogs[version])]
            ELSE [@ EXCEPT !.at = "refused", !.priced = version, !.read = version]]
    /\ UNCHANGED <<version, page, storage, quotes, upload, strays, edits>>

\* Then the catalogue is read again, for the diet and the snapshots, and the
\* order is stored.
StoreOrder(k) ==
    LET found == Found(Catalogs[version], orders[k].draft.floors) IN
    /\ orders[k].at = "priced"
    /\ orders' = [orders EXCEPT ![k].read = version, ![k].at =
            IF NoDietaryConflict(orders[k].draft.flags, found) THEN "created" ELSE "refused"]
    /\ UNCHANGED <<version, page, storage, quotes, upload, strays, edits>>

\* The network or the PIX gateway fails; an order that was created stays.
LoseOrder(k) ==
    /\ orders[k].at \in {"sent", "priced", "created"}
    /\ orders' = [orders EXCEPT ![k].at = IF @ = "created" THEN "createdLost" ELSE "failed"]
    /\ UNCHANGED <<version, page, storage, quotes, upload, strays, edits>>

\* submitting is reset by the answer, on success while the push to the orders
\* page is still under way.  The storage is cleared whoever filled it.
OrderArrives(k) ==
    LET order == orders[k]
        done == CASE order.at = "created" -> "done" [] order.at = "createdLost" -> "doneLost"
                  [] OTHER -> "gone"
        released == IF order.mine THEN [page EXCEPT !.submitting = FALSE] ELSE page
    IN  /\ order.at \in {"created", "createdLost", "refused", "failed"}
        /\ orders' = [orders EXCEPT ![k] =
                [NoOrder EXCEPT !.at = done, !.mine = order.mine, !.again = order.again]]
        /\ IF order.at = "created"
           THEN /\ storage' = None
                /\ page' = [released EXCEPT !.at = IF @ = "editing" THEN "ordered" ELSE @]
           ELSE /\ page' = released
                /\ UNCHANGED storage
        /\ UNCHANGED <<version, quotes, upload, strays, edits>>

-----------------------------------------------------------------------------

Init ==
    /\ version = 1
    /\ page = Closed /\ storage = None /\ quotes = <<>> /\ upload = "none" /\ strays = <<>>
    /\ orders = <<>> /\ edits = 0

Next ==
    \/ OpenBuilder \/ CatalogArrives \/ LoseCatalog \/ LeaveBuilder
    \/ EditCatalog
    \/ \E i \in DOMAIN quotes : QuoteArrives(i)
    \/ Edits \/ StartUpload \/ UploadArrives \/ SubmitOrder
    \/ \E i \in DOMAIN strays : StrayUploadArrives(i)
    \/ \E k \in DOMAIN orders : PriceOrder(k) \/ StoreOrder(k) \/ LoseOrder(k) \/ OrderArrives(k)

Spec == Init /\ [][Next]_vars

-----------------------------------------------------------------------------
(* Properties *)

\* What an order was made of is looked at until its answer arrives.
Stored == {k \in DOMAIN orders : orders[k].at \in {"created", "createdLost"}}

InDatabase == {k \in DOMAIN orders : orders[k].at \in {"created", "createdLost", "done", "doneLost"}}

\* RN02: what the customer pays is the price he saw when he ordered, which the
\* page takes from an answer to an earlier request and the API computes anew,
\* unless the catalogue was edited between the two.
ShownPriceIsCharged ==
    \A k \in Stored :
        orders[k].shown.version = orders[k].priced => orders[k].total = orders[k].shown.price

\* RF06, RN01: the page and the API each have the table of the allergens and
\* the rule on aerated doughs.  The API refuses no order which the page lets
\* through, unless the catalogue is not what the page loaded.
LetThroughIsAccepted ==
    \A k \in DOMAIN orders :
        orders[k].at = "refused" =>
            \E v \in {orders[k].priced, orders[k].read, orders[k].shown.version} : v # orders[k].loaded

\* A page whose requests are all answered shows the quote of its floors or an
\* error, and does not calculate for ever.
RestHasQuote ==
    page.at = "editing" /\ (\A i \in DOMAIN quotes : ~quotes[i].live)
        /\ EveryFloorValid(page.draft.floors) => page.quote.key = page.draft.floors

\* One visit orders one cake: a second order is in the database only when the
\* answer to the first one was lost, or the button was pressed again before
\* the push to the orders page ended.
OneOrderPerVisit ==
    \A j, k \in InDatabase :
        orders[j].mine /\ orders[k].mine /\ j < k =>
            orders[j].at = "doneLost" \/ orders[k].again

\* The snapshots of a floor add up to its part of the total within two cents,
\* although every item is rounded by itself, unless the catalogue was edited
\* between the two reads.
FloorsAddUp ==
    \A k \in Stored :
        LET floors == orders[k].draft.floors
            found == Found(Catalogs[orders[k].read], floors)
        IN  orders[k].priced = orders[k].read =>
                \A i \in DOMAIN floors :
                    ItemsCents(floors[i], Ids, found) - LayerCents(floors[i], found) \in -2 .. 2
=============================================================================
