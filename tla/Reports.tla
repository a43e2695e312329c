------------------------------- MODULE Reports -------------------------------
(***************************************************************************)
(* The financial report: ReportsService over the paid orders, and the      *)
(* administrator's page with its first load, its filter, its presets and   *)
(* the export.  Days are numbers, and a payment is of a day.               *)
(***************************************************************************)
EXTENDS Integers, Sequences, SequencesExt, FiniteSets

CONSTANTS
    Sales,        \* the orders
    Price,        \* Price[o], in cents
    Days,         \* the days that pass, 1 .. n
    MonthStarts,  \* those on which a month begins
    Spans,        \* how many days before today the presets begin
    DefaultSpan,  \* the same for a report without dates
    MaxActs,      \* what the administrator does on the page: dates, reports, files
    MaxChanges,   \* how many changes the sales see
    None

VARIABLES
    sale,      \* sale[o]: the order and its payment
    today,
    view,      \* the report, the two date fields, the marks, the last file
    asked,     \* the requests under way, oldest first
    left       \* how much the administrator may do, and sales change, still

vars == <<sale, today, view, asked, left>>

-----------------------------------------------------------------------------
(* The orders, as PaymentsService and OrdersService change them *)

Change ==
    /\ left.changes > 0 /\ left' = [left EXCEPT !.changes = @ - 1]
    /\ UNCHANGED <<today, view, asked>>

\* A confirmation is taken whatever came before it, except an earlier one.
Pay(o) ==
    /\ sale[o].payment # "PAGO"
    /\ sale' = [sale EXCEPT ![o].payment = "PAGO", ![o].paid = today]
    /\ Change

\* The gateway reports a refund, which cancels the order too.
Refund(o) ==
    /\ sale[o].payment # "ESTORNADO"
    /\ sale' = [sale EXCEPT ![o].payment = "ESTORNADO", ![o].cancelled = TRUE]
    /\ Change

Cancel(o) ==
    /\ ~sale[o].cancelled
    /\ sale' = [sale EXCEPT ![o].cancelled = TRUE,
                            ![o].payment = IF @ = "PAGO" THEN "ESTORNADO" ELSE "EXPIRADO"]
    /\ Change

NextDay ==
    /\ today + 1 \in Days
    /\ today' = today + 1
    /\ UNCHANGED <<sale, view, asked, left>>

-----------------------------------------------------------------------------
(* ReportsService *)

\* The day of a sale: of the payment, or of the order when the payment bears none.
Day(o) == IF sale[o].paid # None THEN sale[o].paid ELSE sale[o].created

\* The first alternative of the query forgets that the payment bears no day.
FaultyCounted(o, from, to) ==
    /\ ~sale[o].cancelled /\ sale[o].payment = "PAGO"
    /\ {Day(o), sale[o].created} \cap (from .. to) # {}

Counted(o, from, to) ==
    /\ ~sale[o].cancelled /\ sale[o].payment = "PAGO"
    /\ Day(o) \in from .. to

ReportOf(from, to) ==
    LET S == {o \in Sales : Counted(o, from, to)}
        revenue == SumFunctionOnSet(Price, S)
    IN [from |-> from, to |-> to, orders |-> [o \in S |-> Day(o)], revenue |-> revenue,
        average |-> IF S = {} THEN 0 ELSE (2 * revenue + Cardinality(S)) \div (2 * Cardinality(S))]

\* The file holds the rows of the report; 400 when the period ends before it
\* begins.
Serve(k) ==
    LET from == IF asked[k].from = None THEN today - DefaultSpan ELSE asked[k].from
        to == IF asked[k].to = None THEN today ELSE asked[k].to
    IN
    /\ asked[k].at = "sent"
    /\ asked' = IF from > to THEN [asked EXCEPT ![k].at = "failed"]
                ELSE [asked EXCEPT ![k].at = "ok", ![k].answer = ReportOf(from, to)]
    /\ UNCHANGED <<sale, today, view, left>>

\* A network failure, or a session that has ended; an answer lost on its way
\* leaves nothing else behind.
Lose(k) ==
    /\ asked[k].at = "sent"
    /\ asked' = [asked EXCEPT ![k].at = "failed"]
    /\ UNCHANGED <<sale, today, view, left>>

-----------------------------------------------------------------------------
(* AdminReportsView *)

Request(kind, from, to) == [kind |-> kind, from |-> from, to |-> to, at |-> "sent", answer |-> None]

Act == left.acts > 0 /\ left' = [left EXCEPT !.acts = @ - 1]

Ask(kind, from, to) ==
    /\ Act
    /\ asked' = Append(asked, Request(kind, from, to))

\* The fields stay open, also under a filter.
TypeDate ==
    /\ \E d \in Days \union {None} :
        \/ view.from # d /\ view' = [view EXCEPT !.from = d]
        \/ view.to # d /\ view' = [view EXCEPT !.to = d]
    /\ Act
    /\ UNCHANGED <<sale, today, asked>>

ApplyFilter ==
    /\ ~view.filtering
    /\ Ask("filter", view.from, view.to)
    /\ view' = [view EXCEPT !.filtering = TRUE]
    /\ UNCHANGED <<sale, today>>

MonthStart == CHOOSE d \in MonthStarts : d <= today /\ \A e \in MonthStarts : e <= today => e <= d

\* The presets do not wait for a filter under way.
FaultyQuickPreset ==
    /\ \E from \in {today - n : n \in Spans} \union {MonthStart} :
        /\ Ask("filter", from, today)
        /\ view' = [view EXCEPT !.from = from, !.to = today, !.filtering = TRUE]
    /\ UNCHANGED <<sale, today>>

\* The fields take the dates at once.
QuickPreset ==
    /\ ~view.filtering
    /\ \E from \in {today - n : n \in Spans} \union {MonthStart} :
        /\ Ask("filter", from, today)
        /\ view' = [view EXCEPT !.from = from, !.to = today, !.filtering = TRUE]
    /\ UNCHANGED <<sale, today>>

\* The file is of the default period.
FaultyExport ==
    /\ ~view.exporting
    /\ Ask("export", None, None)
    /\ view' = [view EXCEPT !.exporting = TRUE, !.file = None]
    /\ UNCHANGED <<sale, today>>

\* The dates of the fields, not those of the report on the screen.
Export ==
    /\ ~view.exporting
    /\ Ask("export", view.from, view.to)
    /\ view' = [view EXCEPT !.exporting = TRUE, !.file = None]
    /\ UNCHANGED <<sale, today>>

Released(kind) ==
    CASE kind = "filter" -> [view EXCEPT !.filtering = FALSE]
      [] kind = "export" -> [view EXCEPT !.exporting = FALSE]
      [] OTHER           -> view

Arrive(k) ==
    LET answer == asked[k].answer IN
    /\ asked[k].at = "ok"
    /\ view' = IF asked[k].kind = "export" THEN [Released("export") EXCEPT !.file = answer]
               ELSE [Released(asked[k].kind) EXCEPT
                        !.report = answer, !.from = answer.from, !.to = answer.to]
    /\ asked' = RemoveAt(asked, k)
    /\ UNCHANGED <<sale, today, left>>

\* An error banner; the report and the fields stay.
Fail(k) ==
    /\ asked[k].at = "failed"
    /\ view' = Released(asked[k].kind)
    /\ asked' = RemoveAt(asked, k)
    /\ UNCHANGED <<sale, today, left>>

-----------------------------------------------------------------------------

Visited == <<Request("first", None, None)>>

Init ==
    /\ today = 1
    /\ sale = [o \in Sales |->
            [created |-> 1, paid |-> None, payment |-> "PENDENTE", cancelled |-> FALSE]]
    /\ view = [report |-> None, from |-> None, to |-> None,
               filtering |-> FALSE, exporting |-> FALSE, file |-> None]
    /\ asked = Visited
    /\ left = [acts |-> MaxActs, changes |-> MaxChanges]

Next ==
    \/ NextDay \/ TypeDate \/ ApplyFilter \/ QuickPreset \/ Export
    \/ \E o \in Sales : Pay(o) \/ Refund(o) \/ Cancel(o)
    \/ \E k \in DOMAIN asked : Serve(k) \/ Lose(k) \/ Arrive(k) \/ Fail(k)

Spec == Init /\ [][Next]_vars
=============================================================================
