-------------------------- MODULE LiveOrdersHistory --------------------------
(***************************************************************************)
(* LiveOrders with a history: whether the page missed an event or an       *)
(* answer overtook another one, whether the list of the present user has   *)
(* arrived, and whether actions on two orders overlapped.                  *)
(***************************************************************************)
EXTENDS LiveOrders

VARIABLES disturbed, loaded, crossed

hvars == <<vars, disturbed, loaded, crossed>>

Unpublished(o) ==
    changing[o] + Cardinality({i \in DOMAIN calls : calls[i].at = "publish" /\ calls[i].order = o})

SameSession == screen'.user = screen.user

\* An event about an order of this user is not published, or not to this
\* socket, or is lost with the connection.
MissedEvent ==
    \/ \E o \in Orders :
        /\ screen.user \in {Staff, Owner[o]}
        /\ Unpublished(o)' < Unpublished(o)
        /\ inbox' <= inbox
        /\ inbox < MaxEvents \/ socket # "joined"
    \/ (inbox' < inbox /\ socket' # socket)

\* An answer arrives before that to an earlier call, or a listing fails.
Overtaken ==
    \E i \in DOMAIN calls :
        /\ Arrive(i)
        /\ i > 1 \/ (calls[i].at = "failed" /\ calls[i].kind \notin Actions)

Quiet == calls = <<>> /\ inbox = 0 /\ \A o \in Orders : changing[o] = 0

Statuses(list) == [o \in DOMAIN list |-> list[o].status]

Current ==
    /\ screen.list # Loading
    /\ Statuses(screen.list) = Statuses(Fetch(screen.page, screen.user, row))

InFlight == {i \in DOMAIN calls : calls[i].kind \in Actions}

HInit == Init /\ disturbed = FALSE /\ loaded = FALSE /\ crossed = FALSE

HNext ==
    /\ Next
    /\ disturbed' = IF Quiet' /\ Current' THEN FALSE
                    ELSE disturbed \/ MissedEvent \/ Overtaken \/ (~SameSession /\ calls # <<>>)
    /\ loaded' = (SameSession /\ (loaded \/ \E i \in DOMAIN calls :
                      /\ Arrive(i) /\ calls[i].live /\ calls[i].kind \notin Actions
                      /\ calls[i].at = "answered" \/ calls[i].kind = "initial"))
    /\ crossed' = (InFlight' # {} /\ (crossed \/ \E i, j \in InFlight' : calls'[i].order # calls'[j].order))

HSpec == HInit /\ [][HNext]_hvars

\* RF08, RNF: the board and the customer's list follow the orders "em tempo
\* real".  A page at rest shows the status of every order it should and no
\* other, although it takes whatever answer comes last, unless an event did
\* not reach it, a listing failed or an answer overtook another one; and the
\* next undisturbed listing repairs it.
QuietPageIsCurrent ==
    ~disturbed /\ Quiet /\ Present /\ screen.list # Loading => Current

\* my-orders-view: the flag active of an effect that has been cleaned up keeps
\* the late answers of a former user away.  Once the first list of the present
\* user has arrived, the page shows orders of this user only.
OwnOrdersOnly ==
    loaded /\ screen.page = "orders" /\ screen.list # Loading =>
        \A o \in DOMAIN screen.list : Owner[o] = screen.user

\* busyOrderId, busyId: the one mark is set exactly while an action is under
\* way, and keeps a second click from its order, unless actions on two orders
\* overlap: the first answer then clears the mark of the other one too.
BusyWhileUnderWay ==
    ~crossed =>
        /\ Cardinality(InFlight) <= 1
        /\ (screen.busy # NoOrder) <=> (InFlight # {})
=============================================================================
