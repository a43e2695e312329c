----------------------------- MODULE LiveOrders -----------------------------
(***************************************************************************)
(* One open page of the browser (MyOrdersView or KitchenKanbanView) and    *)
(* what keeps it up to date: the handlers commit a change, publish it over *)
(* Redis (RedisService), the gateway sends it to the rooms of the socket   *)
(* (KanbanGateway), and the page asks for its whole list again.            *)
(*                                                                         *)
(* The other clients of the API are an environment that makes any change a *)
(* handler may make.  How handlers race on a row is OrderPayments: here a  *)
(* handler commits in one step and publishes in a later one.               *)
(***************************************************************************)
EXTENDS KanbanBoard, Naturals, FiniteSets, SequencesExt

CONSTANTS
    Orders,     \* the orders there are
    Customers,  \* the accounts that own them
    Staff,      \* an account with the role ADMIN
    Owner,      \* Owner[o]: the customer of order o
    Start,      \* what a row may be when the page is opened
    MaxChanges, \* how many commits change a row while it is open
    MaxCalls,   \* how many calls the page has under way at once
    MaxEvents,  \* how many events wait in the socket; further ones ask for the same list
    Nobody, NoOrder, Loading

ASSUME LiveAssumption ==
    /\ Owner \in [Orders -> Customers]
    /\ Staff \notin Customers /\ Nobody \notin Customers \union {Staff}
    /\ Start \subseteq [status: OrderStatus, payment: {"PENDENTE", "PAGO", "EXPIRADO", "ESTORNADO"}]
    /\ NoOrder \notin Orders
    /\ MaxChanges \in Nat
    /\ MaxCalls \in Nat \ {0} /\ MaxEvents \in Nat \ {0}

VARIABLES
    row,        \* row[o]: status and payment in the database
    changes,    \* how many commits there were
    changing,   \* changing[o]: changes somebody else committed and has not published yet
    screen,     \* the React state of the page, and the user the provider gives it
    socket,     \* the page's connection to the gateway
    inbox,      \* events sent to the socket and not handled yet
    calls       \* the page's calls to the API, in the order they were made

vars == <<row, changes, changing, screen, socket, inbox, calls>>

-----------------------------------------------------------------------------

Row == [status: OrderStatus, payment: {"PENDENTE", "PAGO", "EXPIRADO", "ESTORNADO"}]

\* What the page knows of some of the orders.
List == UNION {[S -> Row] : S \in SUBSET Orders}

\* A page that is loading has no list.
ASSUME LoadingAssumption == Loading \notin List

Empty == [o \in {} |-> {}]

Actions == {"move", "cancel", "regenerate"}

Kind == {"initial", "reload", "refresh"} \union Actions

\* live: the effect that made the call has not been cleaned up.
Call == [kind: Kind, order: Orders \union {NoOrder}, target: OrderStatus,
         user: Customers \union {Staff}, live: BOOLEAN,
         at: {"sent", "publish", "answered", "failed"}, result: List]

TypeOK ==
    /\ row \in [Orders -> Row]
    /\ changes \in 0..MaxChanges
    /\ changing \in [Orders -> {0, 1}]
    /\ screen \in [page: {"orders", "kitchen"}, user: Customers \union {Staff, Nobody},
                   list: List \union {Loading}, busy: Orders \union {NoOrder}]
    /\ socket \in {"closed", "opening", "joined", "refused"}
    /\ inbox \in 0..MaxEvents
    /\ calls \in Seq(Call)

-----------------------------------------------------------------------------
(* What the API answers and does to a row *)

Waiting(r) == r.status = "AGUARDANDO_PAGAMENTO"

\* GET /orders/my.
MyOrders(u, rows) == [o \in {x \in Orders : Owner[x] = u} |-> rows[o]]

\* GET /kanban/orders.
Queue(rows) == [o \in {x \in Orders : rows[x].status \in KanbanVisible} |-> rows[o]]

Fetch(page, u, rows) == IF page = "kitchen" THEN Queue(rows) ELSE MyOrders(u, rows)

Paid(r) == [status |-> IF Waiting(r) THEN "EM_ESPERA" ELSE r.status, payment |-> "PAGO"]

Cancelled(r) ==
    [status |-> "CANCELADO", payment |-> IF r.payment = "PAGO" THEN "ESTORNADO" ELSE "EXPIRADO"]

CanCancel(u, r) == Waiting(r) \/ (u = Staff /\ r.status = "EM_ESPERA")

\* What a call may do to the row of its order; no row when the API refuses.
Outcome(c, r) ==
    CASE c.kind = "move" -> {[r EXCEPT !.status = s] : s \in {c.target} \cap
                              {t \in OrderStatus : <<r.status, t>> \in KanbanTransitions}}
      [] c.kind = "cancel" -> IF CanCancel(c.user, r) THEN {Cancelled(r)} ELSE {}
      [] c.kind = "regenerate" -> IF Waiting(r) THEN {[r EXCEPT !.payment = "PENDENTE"]} ELSE {}

\* Changes of other clients and of the gateway that are published...
Announced(r) ==
    {Paid(r)} \union (IF CanCancel(Staff, r) THEN {Cancelled(r)} ELSE {})
    \union {[r EXCEPT !.status = s] : s \in {t \in OrderStatus : <<r.status, t>> \in KanbanTransitions}}

\* ... and those that are not: a code that expires, a new code.
Unannounced(r) ==
    (IF r.payment = "PENDENTE" THEN {[r EXCEPT !.payment = "EXPIRADO"]} ELSE {})
    \union (IF Waiting(r) THEN {[r EXCEPT !.payment = "PENDENTE"]} ELSE {})

Commit(o, r) ==
    /\ changes < MaxChanges
    /\ changes' = changes + 1
    /\ row' = [row EXCEPT ![o] = r]

OtherCommits(o) ==
    /\ changing[o] = 0
    /\ \E r \in Announced(row[o]) : Commit(o, r)
    /\ changing' = [changing EXCEPT ![o] = 1]
    /\ UNCHANGED <<screen, socket, inbox, calls>>

OtherCommitsSilently(o) ==
    /\ \E r \in Unannounced(row[o]) \ {row[o]} : Commit(o, r)
    /\ UNCHANGED <<changing, screen, socket, inbox, calls>>

-----------------------------------------------------------------------------
(* publishJson, dispatchLocal and the rooms *)

\* How often an event that Redis takes comes back to the handlers: not at all
\* while the subscriber is cut off, or when it could not subscribe at start.
ByRedis == {0, 1}

\* publishJson dispatches locally without Redis or when Redis gives an error,
\* which it may give for an event it took.
Dispatched == {1} \union ByRedis \union {n + 1 : n \in ByRedis}

\* The rooms kitchen:admins and user:<id> the event goes to.
Addressed(o, u) == u \in {Staff, Owner[o]}

Emit(o) ==
    \E n \in Dispatched :
        inbox' = IF socket = "joined" /\ Addressed(o, screen.user)
                 THEN Min({inbox + n, MaxEvents}) ELSE inbox

OtherPublishes(o) ==
    /\ changing[o] > 0
    /\ changing' = [changing EXCEPT ![o] = @ - 1]
    /\ Emit(o)
    /\ UNCHANGED <<row, changes, screen, socket, calls>>

\* The award that comes before it fails, or the process stops.
OtherFails(o) ==
    /\ changing[o] > 0
    /\ changing' = [changing EXCEPT ![o] = @ - 1]
    /\ UNCHANGED <<row, changes, screen, socket, inbox, calls>>

-----------------------------------------------------------------------------
(* The socket *)

\* handleConnection accepts the cookie and joins the rooms.
Join ==
    /\ socket = "opening"
    /\ socket' = "joined"
    /\ UNCHANGED <<row, changes, changing, screen, inbox, calls>>

\* The access token is missing or too old: the gateway disconnects the socket,
\* which socket.io does not open again.
Refuse ==
    /\ socket = "opening"
    /\ socket' = "refused"
    /\ UNCHANGED <<row, changes, changing, screen, inbox, calls>>

\* The connection breaks and is opened again; events sent meanwhile are lost.
Drop ==
    /\ socket = "joined"
    /\ socket' = "opening"
    /\ inbox' = 0
    /\ UNCHANGED <<row, changes, changing, screen, calls>>

-----------------------------------------------------------------------------
(* The API serves call i of the page *)

Serve(i, at, result) ==
    calls' = [calls EXCEPT ![i].at = at, ![i].result = result]

\* What the orders of u may be once a listing has stored as expired the codes
\* past their time.
Synced(u) ==
    {[o \in Orders |-> IF o \in late THEN [row[o] EXCEPT !.payment = "EXPIRADO"] ELSE row[o]] :
        late \in SUBSET {o \in Orders : row[o].payment = "PENDENTE" /\ Owner[o] = u}}

ServeList(i) ==
    /\ calls[i].at = "sent"
    /\ calls[i].kind \notin Actions
    /\ row' \in IF screen.page = "orders" THEN Synced(calls[i].user) ELSE {row}
    /\ Serve(i, "answered", Fetch(screen.page, calls[i].user, row'))
    /\ UNCHANGED <<changes, changing, screen, socket, inbox>>

\* transitionOrderStatus, cancelOrder, regeneratePixCharge up to their commit;
\* the last one publishes nothing.
ServeAction(i) ==
    LET c == calls[i] IN
    /\ c.at = "sent"
    /\ c.kind \in Actions
    /\ \E r \in Outcome(c, row[c.order]) :
        /\ Commit(c.order, r)
        /\ Serve(i, IF c.kind = "regenerate" THEN "answered" ELSE "publish", [o \in {c.order} |-> r])
    /\ UNCHANGED <<changing, screen, socket, inbox>>

\* A guard of the handler refuses.
ServeRefusal(i) ==
    LET c == calls[i] IN
    /\ c.at = "sent"
    /\ c.kind \in Actions
    /\ Outcome(c, row[c.order]) = {}
    /\ Serve(i, "failed", Empty)
    /\ UNCHANGED <<row, changes, changing, screen, socket, inbox>>

Publish(i) ==
    /\ calls[i].at = "publish"
    /\ Emit(calls[i].order)
    /\ Serve(i, "answered", calls[i].result)
    /\ UNCHANGED <<row, changes, changing, screen, socket>>

\* The network, the API or the award fails.
Lose(i) ==
    /\ calls[i].at # "failed"
    /\ Serve(i, "failed", Empty)
    /\ UNCHANGED <<row, changes, changing, screen, socket, inbox>>

-----------------------------------------------------------------------------
(* The page *)

\* Who may be in front of the page; a customer is nobody to the kitchen's.
Visitors(page) == (IF page = "kitchen" THEN {Staff} ELSE Customers) \union {Nobody}

\* authLoading, userId, isAdmin: the page works for this user.
Present == screen.user # Nobody

Made(kind, o, target) ==
    [kind |-> kind, order |-> o, target |-> target, user |-> screen.user, live |-> TRUE,
     at |-> "sent", result |-> Empty]

Listing(kind) == Made(kind, NoOrder, "EM_ESPERA")

\* The page is opened: the user is not known yet, and nothing is loaded.
Init ==
    /\ row \in [Orders -> Start]
    /\ changes = 0
    /\ changing = [o \in Orders |-> 0]
    /\ screen \in [page: {"orders", "kitchen"}, user: {Nobody}, list: {Loading}, busy: {NoOrder}]
    /\ socket = "closed"
    /\ inbox = 0
    /\ calls = <<>>

\* The effect of the former user is cleaned up: its socket is closed and its
\* calls are marked.  The effect of the new one asks for the list and opens a
\* socket.  The list shown stays until then.
SessionChanges(u) ==
    LET left == [i \in DOMAIN calls |-> [calls[i] EXCEPT !.live = FALSE]] IN
    /\ u # screen.user
    /\ Len(calls) < MaxCalls
    /\ screen' = [screen EXCEPT !.user = u]
    /\ IF u # Nobody
       THEN /\ calls' = Append(left, [Listing("initial") EXCEPT !.user = u])
            /\ socket' = "opening"
       ELSE calls' = left /\ socket' = "closed"
    /\ inbox' = 0
    /\ UNCHANGED <<row, changes, changing>>

Ask(call) ==
    /\ Present
    /\ Len(calls) < MaxCalls
    /\ calls' = Append(calls, call)

\* The list is asked for only when nothing is under way.
FaultyReceiveEvent ==
    /\ inbox > 0
    /\ inbox' = inbox - 1
    /\ IF calls = <<>> THEN Ask(Listing("reload")) ELSE UNCHANGED calls
    /\ UNCHANGED <<row, changes, changing, screen, socket>>

\* subscribeToOrderUpdates calls back: the whole list is asked for again.
\* On a status PRONTO or ENTREGUE MyOrdersView also calls refreshUser, which
\* is an action of BrowserSession.
ReceiveEvent ==
    /\ inbox > 0
    /\ inbox' = inbox - 1
    /\ Ask(Listing("reload"))
    /\ UNCHANGED <<row, changes, changing, screen, socket>>

\* handleManualRefresh; its button waits for the answer.
Refresh ==
    /\ screen.page = "kitchen"
    /\ \A i \in DOMAIN calls : calls[i].kind # "refresh"
    /\ Ask(Listing("refresh"))
    /\ UNCHANGED <<row, changes, changing, screen, socket, inbox>>

\* The buttons of a card, by its column.
BoardButtons(s) ==
    CASE s = "EM_ESPERA" -> {"EM_PRODUCAO"}
      [] s = "EM_PRODUCAO" -> {"FINALIZACAO", "EM_ESPERA"}
      [] s = "FINALIZACAO" -> {"PRONTO", "EM_PRODUCAO"}
      [] s = "PRONTO" -> {"ENTREGUE"}
      [] OTHER -> {}

\* The buttons of an order of the customer.
OrderButtons(r) ==
    IF ~Waiting(r) THEN {} ELSE IF r.payment = "PENDENTE" THEN {"cancel"} ELSE {"cancel", "regenerate"}

\* A button is disabled while its order is the busy one.
Offered(kind, o, target) ==
    /\ screen.list # Loading /\ o \in DOMAIN screen.list
    /\ screen.busy # o
    /\ IF screen.page = "orders" THEN kind \in OrderButtons(screen.list[o])
       ELSE \/ (kind = "move" /\ target \in BoardButtons(screen.list[o].status))
            \/ (kind = "cancel" /\ screen.list[o].status = "EM_ESPERA")

\* handleMoveCard, handleAdminCancel, handleCancelOrder, handleRegeneratePix.
Click(kind, o, target) ==
    /\ Offered(kind, o, target)
    /\ Ask(Made(kind, o, target))
    /\ screen' = [screen EXCEPT !.busy = o]
    /\ UNCHANGED <<row, changes, changing, socket, inbox>>

Without(list, o) == [x \in DOMAIN list \ {o} |-> list[x]]

Replaced(list, r) == [x \in DOMAIN list |-> IF x \in DOMAIN r THEN r[x] ELSE list[x]]

\* handleMoveCard and handleAdminCancel take a delivered or cancelled card off.
BoardAfter(c) ==
    IF c.kind = "cancel" \/ c.target = "ENTREGUE" THEN Without(screen.list, c.order)
    ELSE Replaced(screen.list, c.result)

\* replaceOrderInList.
OrdersAfter(c) == Replaced(screen.list, c.result)

\* A list is taken whoever asked for it.
FaultyListed(c) == IF c.at = "answered" THEN c.result ELSE screen.list

\* The effect of MyOrdersView: an answer counts while it is live; an error
\* counts as no orders the first time.
Listed(c) ==
    IF c.live /\ (c.at = "answered" \/ c.kind = "initial") THEN c.result ELSE screen.list

\* reloadQueue, which does not ask whether its effect is live; an error shows
\* an empty board when there was none yet.
Reloaded(c) ==
    IF c.at = "answered" THEN c.result
    ELSE IF screen.list = Loading THEN Empty ELSE screen.list

\* The list shown after the answer to c.
Shown(c) ==
    IF c.kind \in Actions
    THEN IF c.at = "failed" THEN screen.list
         ELSE IF screen.page = "kitchen" THEN BoardAfter(c) ELSE OrdersAfter(c)
    ELSE IF screen.page = "kitchen" /\ c.kind # "initial" THEN Reloaded(c) ELSE Listed(c)

\* The busy mark is left when the call fails.
FaultyArrive(i) ==
    LET c == calls[i] IN
    /\ c.at \in {"answered", "failed"}
    /\ screen' = [screen EXCEPT
                    !.list = Shown(c),
                    !.busy = IF c.kind \in Actions /\ c.at = "answered" THEN NoOrder ELSE @]
    /\ calls' = RemoveAt(calls, i)
    /\ UNCHANGED <<row, changes, changing, socket, inbox>>

\* The answer to call i arrives, whatever was asked before or after it.  An
\* action's answer clears the busy mark, also when that is on another order.
Arrive(i) ==
    LET c == calls[i] IN
    /\ c.at \in {"answered", "failed"}
    /\ screen' = [screen EXCEPT
                    !.list = Shown(c),
                    !.busy = IF c.kind \in Actions THEN NoOrder ELSE @]
    /\ calls' = RemoveAt(calls, i)
    /\ UNCHANGED <<row, changes, changing, socket, inbox>>

-----------------------------------------------------------------------------

Progress(i) ==
    ServeList(i) \/ ServeAction(i) \/ ServeRefusal(i) \/ Publish(i) \/ Arrive(i)

Next ==
    \/ \E o \in Orders :
        \/ OtherCommits(o) \/ OtherCommitsSilently(o) \/ OtherPublishes(o) \/ OtherFails(o)
        \/ \E kind \in Actions, target \in OrderStatus :
            /\ kind = "move" \/ target = "CANCELADO"
            /\ Click(kind, o, target)
    \/ Join \/ Refuse \/ Drop
    \/ \E i \in DOMAIN calls : Progress(i) \/ Lose(i)
    \/ \E u \in Visitors(screen.page) : SessionChanges(u)
    \/ ReceiveEvent \/ Refresh

Spec == Init /\ [][Next]_vars
=============================================================================
