--------------------------- MODULE CatalogOverlaps ---------------------------
(***************************************************************************)
(* CatalogCache with a history variable: whether two requests overlapped,  *)
(* a deletion was refused or a restart lost one.                           *)
(***************************************************************************)
EXTENDS CatalogCache

VARIABLE disturbed

hvars == <<vars, disturbed>>

Busy == {h \in Handlers : request[h] # Idle}

LostInvalidation ==
    \E h \in Handlers :
        request[h].at = "invalidate" /\ request'[h] = Idle /\ cache' # Miss

HInit == Init /\ disturbed = FALSE

HNext ==
    /\ Next
    /\ disturbed' = (disturbed \/ LostInvalidation \/ \E g, h \in Busy' : g # h)

HSpec == HInit /\ [][HNext]_hvars /\ Fairness

\* findAllActive: "invalidado automaticamente a cada mutacao administrativa".
\* With no request under way the copy is the list in the database, through
\* failed reads and writes of the copy, expiry and restarts, until two requests
\* overlap or a deletion is lost.
CurrentUnlessDisturbed ==
    ~disturbed /\ Busy = {} => Current
=============================================================================
