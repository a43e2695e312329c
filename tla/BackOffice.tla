----------------------------- MODULE BackOffice -----------------------------
(***************************************************************************)
(* The administrator's two pages, of which the browser has one open: the   *)
(* catalogue or the financial report.  A page that is not mounted has no   *)
(* state; here its variables rest in one of their initial states.          *)
(***************************************************************************)
EXTENDS AdminCatalogHistory

CONSTANTS Sales, Price, Days, MonthStarts, Spans, DefaultSpan, MaxActs

VARIABLES page, sale, today, view, asked, left, wanted, overtaken, differs

Report == INSTANCE ReportsHistory

reportVars == <<sale, today, view, asked, left, wanted, overtaken, differs>>

bvars == <<page, hvars, reportVars>>

ASSUME BackOfficeAssumption ==
    /\ Price \in [Sales -> Nat]
    /\ Days = 1 .. Cardinality(Days)
    /\ 1 \in MonthStarts /\ MonthStarts \subseteq Days
    /\ Spans \subseteq Nat /\ DefaultSpan \in Spans
    /\ None \notin Int /\ IsFiniteSet(Sales)

BInit ==
    /\ page \in {"catalog", "report"}
    /\ HInit /\ (page = "report" => \A i \in DOMAIN row : row[i].type = "MASSA")
    /\ Report!HInit

BNext ==
    /\ UNCHANGED page
    /\ \/ page = "catalog" /\ HNext /\ UNCHANGED reportVars
       \/ page = "report" /\ Report!HNext /\ UNCHANGED hvars

BSpec == BInit /\ [][BNext]_bvars

\* Reports, RF10: every paid order that is not cancelled counts on one day (see
\* ReportsHistory).
EachSaleOnce == Report!EachSaleOnce

\* admin-reports-view.tsx: the report on the screen is of the period last asked
\* for, unless the first load came after it or an answer failed.
LastAskedIsShown == page = "report" => Report!LastAskedIsShown

\* handleExportCsv: the file holds the rows on the screen unless the dates or
\* the sales changed.
FileIsTheReport == page = "report" => Report!FileIsTheReport
=============================================================================
