---------------------------- MODULE BuilderHistory ----------------------------
(***************************************************************************)
(* Builder with a history: the draft that the builder showed last, in this *)
(* visit or an earlier one, and what has written another one over it in    *)
(* the session storage.                                                    *)
(***************************************************************************)
EXTENDS Builder

VARIABLES
    shown,   \* the draft on the screen, or the last one there was
    lost     \* why the storage holds another one: none, upload or order

hvars == <<vars, shown, lost>>

OrderAnswered == \E k \in DOMAIN orders : orders[k].at = "created" /\ orders'[k].at = "done"

HInit == Init /\ shown = None /\ lost = "none"

HNext ==
    /\ Next
    /\ shown' = IF page'.at \in {"editing", "ordered"} THEN page'.draft ELSE shown
    /\ lost' = IF storage' = shown' THEN "none"
               ELSE IF OrderAnswered THEN "order"
               ELSE IF Len(strays') < Len(strays) /\ storage' # storage THEN "upload"
               ELSE lost

HSpec == HInit /\ [][HNext]_hvars

\* A visit that finds all ingredients of the last draft still in the catalogue.
Revisited ==
    /\ page.at = "loading" /\ page'.at = "editing" /\ shown # None
    /\ \A i \in IngredientIds(shown.floors) : Catalogs[version][i].active

\* docs/DECISOES-FRONTEND.md:162: the draft is in the session storage and is
\* restored after login.  A visit shows the very draft that the last one showed,
\* through every edit, late answer and way of leaving, as long as its ingredients
\* are there, unless the answer to an order cleared the storage or the upload of a
\* page left before wrote to it since.
VisitRestoresDraft == [][Revisited /\ lost = "none" => page'.draft = shown]_hvars
=============================================================================
