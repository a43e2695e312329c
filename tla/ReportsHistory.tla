--------------------------- MODULE ReportsHistory ---------------------------
(***************************************************************************)
(* Reports with a history: the period last asked for, whether another      *)
(* answer came between, and whether the report on the screen may differ    *)
(* from a file asked for now.                                              *)
(***************************************************************************)
EXTENDS Reports

VARIABLES wanted, overtaken, differs

hvars == <<vars, wanted, overtaken, differs>>

Asks(kind) == Len(asked') > Len(asked) /\ asked'[Len(asked')].kind = kind

Ended(k) == asked' = RemoveAt(asked, k)

\* The filter has been used.
Wanted == wanted # None

Dates == <<view.from, view.to>>

HInit == Init /\ wanted = None /\ overtaken = FALSE /\ differs = TRUE

HNext ==
    /\ Next
    /\ wanted' = IF Asks("filter")
                 THEN LET q == asked'[Len(asked')] IN <<q.from, q.to>>
                 ELSE wanted
    \* The first report comes after a filter was asked for, or an answer fails.
    /\ overtaken' = (~Asks("filter") /\ (overtaken \/ \E k \in DOMAIN asked :
            /\ Ended(k) /\ asked[k].kind # "export"
            /\ asked[k].at = "failed" \/ (asked[k].kind = "first" /\ Wanted)))
    /\ differs' =
        IF Asks("export")
        THEN \/ view.report = None \/ \E k \in DOMAIN asked : asked[k].kind # "export"
             \/ Dates # <<view.report.from, view.report.to>>
             \/ view.report # ReportOf(view.report.from, view.report.to)
        ELSE \/ differs \/ sale' # sale \/ Dates' # Dates \/ view'.report # view.report

HSpec == HInit /\ [][HNext]_hvars

\* RF10, "agrega receita confirmada": day by day, the reports count every paid
\* order that is not cancelled once, on one day, and their revenues add up to
\* the whole, although payments are confirmed again, refunded and cancelled on
\* other days than the order was made.
EachSaleOnce ==
    LET whole == ReportOf(1, today) IN
    /\ DOMAIN whole.orders = {o \in Sales : sale[o].payment = "PAGO" /\ ~sale[o].cancelled}
    /\ whole.revenue = SumFunction([d \in 1 .. today |-> ReportOf(d, d).revenue])

\* setReport and setFiltering in handleApplyFilter and handleQuickPreset: when
\* no report is under way, the one on the screen is of the period last asked
\* for, the file exported meanwhile notwithstanding, unless the report of the
\* first effect arrived after the filter was used, or an answer failed.
LastAskedIsShown ==
    ~overtaken /\ (\A k \in DOMAIN asked : asked[k].kind = "export") /\ Wanted =>
        /\ view.report # None
        /\ \A i \in 1 .. 2 : wanted[i] # None => wanted[i] = <<view.report.from, view.report.to>>[i]

\* handleExportCsv asks again, with the dates of the fields: the file holds the
\* rows on the screen, unless a date was changed, a report was under way or a
\* sale changed between them.
FileIsTheReport == view.file # None /\ ~differs => view.file = view.report
=============================================================================
