---------------------------- MODULE AdminCatalog ----------------------------
(***************************************************************************)
(* The administrator's catalogue (admin-catalog-view.tsx) over the rows of *)
(* CatalogService: one list, loaded once and patched with the answer to    *)
(* every change, one form, and one busy mark.  Another administrator works *)
(* on the same rows.  The public copy in Redis is CatalogCache.            *)
(***************************************************************************)
EXTENDS Naturals, Sequences, SequencesExt, TLC

CONSTANTS
    Ids,        \* of ingredients, those of rows to come included
    Types, Prices,
    MaxCalls,   \* requests under way at once
    MaxChanges, \* requests of this administrator, and changes by the other one
    None

ASSUME CatalogViewAssumption == "MASSA" \in Types /\ None \notin Ids \union Prices

VARIABLES
    row,       \* the table, a function from the ids in it
    items,     \* the list on the screen, None while it loads: the rows it has for each id
    screen,    \* filter, form, saving and busyId
    calls,     \* the requests under way, oldest first
    changes

vars == <<row, items, screen, calls, changes>>

-----------------------------------------------------------------------------

\* What the form edits; name and allergens go with the price.  A price of None
\* does not pass the validation.
Data == [type: Types, aerated: BOOLEAN, price: Prices \union {None}]

Blank(type) == [type |-> type, aerated |-> FALSE, price |-> None]

ClosedForm == [mode |-> "closed", id |-> None, data |-> Blank("MASSA")]

Active(data) == data @@ [active |-> TRUE]

List == IF items = None THEN << >> ELSE items

\* Whatever order the ids are listed in; a row may be listed twice.
Rows(i) == IF i \in DOMAIN List THEN List[i] ELSE << >>

Visible(i) == {item \in ToSet(Rows(i)) : screen.filter = "ALL" \/ item.type = screen.filter}

\* Only a dough is aerated.
Payload(data) == [data EXCEPT !.aerated = data.type = "MASSA" /\ @]

Added(table, i, new) ==
    [j \in DOMAIN table \union {i} |-> IF j = i THEN new ELSE table[j]]

Call(kind, id, data) == [kind |-> kind, id |-> id, data |-> data, at |-> "sent", answer |-> None]

Send(call) ==
    /\ Len(calls) < MaxCalls /\ changes < MaxChanges
    /\ calls' = Append(calls, call)
    /\ changes' = changes + 1

-----------------------------------------------------------------------------
(* The screen *)

OpenCreateForm ==
    /\ screen.form.mode = "closed"
    /\ screen' = [screen EXCEPT !.form = [mode |-> "create", id |-> None,
            data |-> Blank(IF screen.filter = "ALL" THEN "MASSA" ELSE screen.filter)]]
    /\ UNCHANGED <<row, items, calls, changes>>

\* Whatever form is open gives way.
OpenEditForm(i) ==
    /\ \E item \in Visible(i) :
        screen' = [screen EXCEPT !.form = [mode |-> "edit", id |-> i,
                data |-> [f \in {"type", "aerated", "price"} |-> item[f]]]]
    /\ UNCHANGED <<row, items, calls, changes>>

\* The fields stay open while the form is saved.
TypeInForm ==
    /\ screen.form.mode # "closed"
    /\ \/ \E x \in Types : screen' = [screen EXCEPT !.form.data.type = x]
       \/ \E x \in Prices : screen' = [screen EXCEPT !.form.data.price = x]
       \/ /\ screen.form.data.type = "MASSA"
          /\ screen' = [screen EXCEPT !.form.data.aerated = ~@]
    /\ screen' # screen
    /\ UNCHANGED <<row, items, calls, changes>>

CancelForm ==
    /\ screen.form.mode # "closed" /\ ~screen.saving
    /\ screen' = [screen EXCEPT !.form = ClosedForm]
    /\ UNCHANGED <<row, items, calls, changes>>

SetFilter ==
    /\ \E f \in Types \union {"ALL"} : screen.filter # f /\ screen' = [screen EXCEPT !.filter = f]
    /\ UNCHANGED <<row, items, calls, changes>>

\* handleSave.
Save ==
    /\ screen.form.mode # "closed" /\ ~screen.saving /\ screen.form.data.price # None
    /\ Send(Call(screen.form.mode, screen.form.id, Payload(screen.form.data)))
    /\ screen' = [screen EXCEPT !.saving = TRUE]
    /\ UNCHANGED <<row, items>>

\* The button of the row that is marked busy does not answer.
Deactivate(i) ==
    /\ (\E item \in Visible(i) : item.active) /\ screen.busy # i
    /\ Send(Call("deactivate", i, None))
    /\ screen' = [screen EXCEPT !.busy = i]
    /\ UNCHANGED <<row, items>>

Reactivate(i) ==
    /\ (\E item \in Visible(i) : ~item.active) /\ screen.busy # i
    /\ Send(Call("reactivate", i, None))
    /\ screen' = [screen EXCEPT !.busy = i]
    /\ UNCHANGED <<row, items>>

-----------------------------------------------------------------------------
(* CatalogService *)

Answer(k, table, i) ==
    /\ row' = table
    /\ calls' = [calls EXCEPT ![k].at = "ok", ![k].id = i, ![k].answer = table[i]]
    /\ UNCHANGED <<items, screen, changes>>

ServeLoad(k) ==
    /\ calls[k].kind = "load" /\ calls[k].at = "sent"
    /\ calls' = [calls EXCEPT ![k].at = "ok", ![k].answer = row]
    /\ UNCHANGED <<row, items, screen, changes>>

ServeCreate(k) ==
    /\ calls[k].kind = "create" /\ calls[k].at = "sent"
    /\ \E i \in Ids \ DOMAIN row : Answer(k, Added(row, i, Active(calls[k].data)), i)

\* The fields of the form are written, active is not.
ServeUpdate(k) ==
    LET i == calls[k].id IN
    /\ calls[k].kind = "edit" /\ calls[k].at = "sent"
    /\ Answer(k, [row EXCEPT ![i] = calls[k].data @@ @], i)

ServeActive(k) ==
    LET i == calls[k].id IN
    /\ calls[k].kind \in {"deactivate", "reactivate"} /\ calls[k].at = "sent"
    /\ Answer(k, [row EXCEPT ![i].active = calls[k].kind = "reactivate"], i)

\* Before or after the API has worked.
Lose(k) ==
    /\ calls[k].at \in {"sent", "ok"}
    /\ calls' = [calls EXCEPT ![k].at = "failed"]
    /\ UNCHANGED <<row, items, screen, changes>>

\* Another administrator.
OtherEdits ==
    /\ changes < MaxChanges /\ changes' = changes + 1
    /\ \E i \in DOMAIN row :
        \/ row' = [row EXCEPT ![i].active = ~@]
        \/ \E price \in Prices \ {row[i].price} : row' = [row EXCEPT ![i].price = price]
    /\ UNCHANGED <<items, screen, calls>>

-----------------------------------------------------------------------------
(* The answers *)

\* The rows as the API lists them, each once.
Once(table) == [i \in DOMAIN table |-> <<table[i]>>]

\* setItems([...current, created]): the new row is listed again if the load has
\* brought it already.
Appended(i, new) ==
    [j \in DOMAIN List \union {i} |-> IF j = i THEN Append(Rows(i), new) ELSE List[j]]

\* setItems(map): a row that is not in the list does not enter it.
Patched(i, new) ==
    [j \in DOMAIN List |-> IF j = i THEN [n \in DOMAIN List[j] |-> new] ELSE List[j]]

Retired(i) ==
    [j \in DOMAIN List |->
        IF j = i THEN [n \in DOMAIN List[j] |-> [List[j][n] EXCEPT !.active = FALSE]] ELSE List[j]]

Released(call) ==
    IF call.kind \in {"create", "edit"} THEN [screen EXCEPT !.saving = FALSE]
    ELSE IF call.kind \in {"deactivate", "reactivate"} THEN [screen EXCEPT !.busy = None]
    ELSE screen

\* Every answer closes the form, and a saved row is taken for active.
FaultyArrive(k) ==
    LET call == calls[k] IN
    /\ call.at = "ok"
    /\ items' = CASE call.kind = "load"       -> Once(call.answer)
                  [] call.kind = "create"     -> Appended(call.id, call.answer)
                  [] call.kind = "deactivate" -> Retired(call.id)
                  [] OTHER                    -> Patched(call.id, [call.answer EXCEPT !.active = TRUE])
    /\ screen' = [Released(call) EXCEPT !.form = ClosedForm]
    /\ calls' = RemoveAt(calls, k)
    /\ UNCHANGED <<row, changes>>

\* A deactivation changes the row on the screen, the others replace it by the
\* answer; a save closes the form, whichever is open by now.
Arrive(k) ==
    LET call == calls[k] IN
    /\ call.at = "ok"
    /\ items' = CASE call.kind = "load"       -> Once(call.answer)
                  [] call.kind = "create"     -> Appended(call.id, call.answer)
                  [] call.kind = "deactivate" -> Retired(call.id)
                  [] OTHER                    -> Patched(call.id, call.answer)
    /\ screen' = IF call.kind \in {"create", "edit"}
                 THEN [Released(call) EXCEPT !.form = ClosedForm] ELSE Released(call)
    /\ calls' = RemoveAt(calls, k)
    /\ UNCHANGED <<row, changes>>

\* An error banner; a list that could not be loaded is empty.
Fail(k) ==
    /\ calls[k].at = "failed"
    /\ items' = IF calls[k].kind = "load" THEN << >> ELSE items
    /\ screen' = Released(calls[k])
    /\ calls' = RemoveAt(calls, k)
    /\ UNCHANGED <<row, changes>>

-----------------------------------------------------------------------------

Visited == <<Call("load", None, None)>>

Init ==
    /\ \E i \in Ids, type \in Types, price \in Prices :
        row = [j \in {i} |-> Active([type |-> type, aerated |-> FALSE, price |-> price])]
    /\ items = None
    /\ screen = [filter |-> "ALL", form |-> ClosedForm, saving |-> FALSE, busy |-> None]
    /\ calls = Visited
    /\ changes = 0

Next ==
    \/ OpenCreateForm \/ TypeInForm \/ CancelForm \/ SetFilter \/ Save \/ OtherEdits
    \/ \E i \in Ids : OpenEditForm(i) \/ Deactivate(i) \/ Reactivate(i)
    \/ \E k \in DOMAIN calls :
        \/ ServeLoad(k) \/ ServeCreate(k) \/ ServeUpdate(k) \/ ServeActive(k)
        \/ Lose(k) \/ Arrive(k) \/ Fail(k)

Spec == Init /\ [][Next]_vars
=============================================================================
