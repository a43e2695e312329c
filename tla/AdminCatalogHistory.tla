------------------------ MODULE AdminCatalogHistory ------------------------
(***************************************************************************)
(* AdminCatalog with a history: of which rows the list may be wrong, and   *)
(* whether the form was touched while it was being saved.                  *)
(***************************************************************************)
EXTENDS AdminCatalog

VARIABLES odd, touched

hvars == <<vars, odd, touched>>

Loading == \E k \in DOMAIN calls : calls[k].kind = "load"

Written == {i \in DOMAIN row' : i \notin DOMAIN row \/ row'[i] # row[i]}

Moves(k, from, to) ==
    Len(calls') = Len(calls) /\ calls[k].at = from /\ calls'[k].at = to

Served == \E k \in DOMAIN calls : Moves(k, "sent", "ok")

\* The list hears nothing of the change, or hears of it from two answers: a row
\* that is created while the load is under way may be overwritten or listed twice.
Missed ==
    UNION {IF Loading \/ ~Served THEN Written ELSE {},
           {calls[k].id : k \in {j \in DOMAIN calls : Moves(j, "ok", "failed")}} \ {None},
           IF \E k \in DOMAIN calls : Fail(k) /\ calls[k].kind = "load"
           THEN DOMAIN row ELSE {}}

\* Two requests about one row are under way.
Crossed ==
    {i \in Ids : \E j, k \in DOMAIN calls : j < k /\ calls[j].id = i /\ calls[k].id = i}

\* Once, and as the database has it.
Shows(i) == Rows(i) = <<row[i]>>

HInit == Init /\ odd = {} /\ touched = FALSE

HNext ==
    /\ Next
    /\ odd' = {i \in odd \union Missed \union Crossed' : calls' # << >> \/ ~Shows(i)'}
    /\ touched' = (screen'.saving /\ (touched \/ screen'.form # screen.form))

HSpec == HInit /\ [][HNext]_hvars

\* UC05: once every answer is in, the administrator's list shows each row once
\* and as the database has it, although it was loaded once and patched answer by
\* answer, unless another administrator changed the row, a request for it was
\* lost after it had been served, two requests for it overlapped, it was changed
\* while the load was under way, or the load failed.
ListMatchesDatabase ==
    calls = << >> /\ items # None => \A i \in DOMAIN row \ odd : Shows(i)

\* setForm(CLOSED_FORM) at the end of handleSave closes whatever form is open.
\* An answer never closes a form whose contents were not saved by the request it
\* answers, unless the form was typed in or exchanged during the save.
FormKept ==
    [][\A k \in DOMAIN calls :
        Arrive(k) /\ screen.form.mode # "closed" /\ screen'.form.mode = "closed" /\ ~touched =>
            /\ calls[k].kind = screen.form.mode
            /\ calls[k].data = Payload(screen.form.data)
            /\ screen.form.mode = "edit" => calls[k].id = screen.form.id]_hvars
=============================================================================
