---------------------------- MODULE OrderPayments ----------------------------
(***************************************************************************)
(* Orders, their single payment row and the PIX charges behind them:       *)
(* OrdersService, PaymentsService and KanbanService of apps/api, over the  *)
(* Asaas gateway.                                                          *)
(*                                                                         *)
(* Every handler of the API is a sequence of awaits.  It reads one         *)
(* snapshot of the order, decides everything from that snapshot and later  *)
(* writes by primary key, without checking that the row is still what it   *)
(* read.  A handler in flight is therefore one element of Handlers: its    *)
(* record holds the decision (the statuses it is going to write), and      *)
(* other handlers run between its read and its write.  A database          *)
(* transaction is one step; a gateway call is one step.                    *)
(***************************************************************************)
EXTENDS KanbanBoard

CONSTANTS
    Orders,     \* ids randomUUID() may produce for an order
    Charges,    \* ids the gateway may give a PIX charge
    Handlers,   \* how many requests the API can have in flight at once
    NoOrder,    \* no order
    NoCharge    \* no charge

ASSUME ValuesAssumption ==
    /\ NoOrder \notin Orders
    /\ NoCharge \notin Charges

VARIABLES
    status,     \* status[o]: Order.status of the row, "none" before it exists
    payment,    \* payment[o]: the order's Payment row
    owner,      \* owner[c]: the externalReference charge c was created with
    events,     \* events[c][e]: delivery of webhook e of charge c
    request     \* request[h]: the request in flight in handler h

vars == <<status, payment, owner, events, request>>

-----------------------------------------------------------------------------
(* Values *)

PaymentStatus == {"PENDENTE", "PAGO", "EXPIRADO", "ESTORNADO"}

\* PAID stands for PAYMENT_RECEIVED and PAYMENT_CONFIRMED, EXPIRED for
\* PAYMENT_OVERDUE and PAYMENT_DELETED, REFUNDED for PAYMENT_REFUNDED.
Events == {"PAID", "EXPIRED", "REFUNDED"}

\* A webhook is sent until the API answers 200 (acked), and an acked one may
\* still be delivered again: the gateway promises at least once.
Delivery == {"none", "sent", "acked"}

\* lapsed: Payment.expiresAt is in the past.
Payment == [status: PaymentStatus \union {"none"},
            ref: Charges \union {NoCharge},
            lapsed: BOOLEAN]

NoPayment == [status |-> "none", ref |-> NoCharge, lapsed |-> FALSE]

\* Where a handler in flight stands: what its next await does.
Points == {"idle", "create", "charge", "reissue", "expire", "refund", "cancel",
           "paid", "overdue", "refunded", "answer", "move"}

\* charge and event: the webhook being processed, or the new charge to store;
\* to and pay: the order and payment status decided on from the snapshot,
\* "none" where the handler will leave that status alone.
Request == [at: Points,
            order: Orders \union {NoOrder},
            charge: Charges \union {NoCharge},
            event: Events \union {"none"},
            to: OrderStatus \union {"none"},
            pay: PaymentStatus \union {"none"}]

Idle == [at |-> "idle", order |-> NoOrder, charge |-> NoCharge,
         event |-> "none", to |-> "none", pay |-> "none"]

Stored(o) == status[o] # "none"

TypeOK ==
    /\ status \in [Orders -> OrderStatus \union {"none"}]
    /\ payment \in [Orders -> Payment]
    /\ owner \in [Charges -> Orders \union {NoOrder}]
    /\ events \in [Charges -> [Events -> Delivery]]
    /\ request \in [Handlers -> Request]

Init ==
    /\ status = [o \in Orders |-> "none"]
    /\ payment = [o \in Orders |-> NoPayment]
    /\ owner = [c \in Charges |-> NoOrder]
    /\ events = [c \in Charges |-> [e \in Events |-> "none"]]
    /\ request = [h \in Handlers |-> Idle]

-----------------------------------------------------------------------------
(* Helpers *)

\* Handler h accepts a request.
Accept(h, r) ==
    /\ request[h] = Idle
    /\ request' = [request EXCEPT ![h] = r]

\* Handler h goes on to its next await.
Goto(h, p) == request' = [request EXCEPT ![h].at = p]

\* Handler h returns: the HTTP response is sent, nothing is left to do.
Return(h) == request' = [request EXCEPT ![h] = Idle]

\* prisma.order.update / prisma.payment.update by primary key: the row takes
\* the status the handler decided on, whatever it holds by now.
WriteOrder(o, s) ==
    status' = IF s = "none" THEN status ELSE [status EXCEPT ![o] = s]

WritePayment(o, s) ==
    payment' = IF s = "none" THEN payment ELSE [payment EXCEPT ![o].status = s]

\* POST /payments at the gateway: a fresh charge c for order o.
IssueCharge(c, o) ==
    /\ owner[c] = NoOrder
    /\ owner' = [owner EXCEPT ![c] = o]

\* The payment row is (over)written with charge c, valid for 15 minutes.
StoreCharge(o, c) ==
    payment' = [payment EXCEPT ![o] = [status |-> "PENDENTE", ref |-> c, lapsed |-> FALSE]]

-----------------------------------------------------------------------------
(* OrdersService.createOrder *)

\* Everything up to the gateway's answer only reads, but for the charge: from
\* here to CreateCommit the charge exists and the order does not.
CreateCharge(h, o, c) ==
    /\ ~Stored(o)
    /\ \A d \in Charges : owner[d] # o
    /\ IssueCharge(c, o)
    /\ Accept(h, [Idle EXCEPT !.at = "create", !.order = o, !.charge = c])
    /\ UNCHANGED <<status, payment, events>>

\* The order without its payment: the nested create left out.
FaultyCreateCommit(h) ==
    /\ request[h].at = "create"
    /\ WriteOrder(request[h].order, "AGUARDANDO_PAGAMENTO")
    /\ Return(h)
    /\ UNCHANGED <<payment, owner, events>>

CreateCommit(h) ==
    /\ request[h].at = "create"
    /\ WriteOrder(request[h].order, "AGUARDANDO_PAGAMENTO")
    /\ StoreCharge(request[h].order, request[h].charge)
    /\ Return(h)
    /\ UNCHANGED <<owner, events>>

-----------------------------------------------------------------------------
(* OrdersService.regeneratePixCharge *)

\* A new code whatever the order's status.
FaultyRegenerateRead(h, o) ==
    /\ Stored(o)
    /\ Accept(h, [Idle EXCEPT !.at = "charge", !.order = o])
    /\ UNCHANGED <<status, payment, owner, events>>

RegenerateRead(h, o) ==
    /\ status[o] = "AGUARDANDO_PAGAMENTO"
    /\ Accept(h, [Idle EXCEPT !.at = "charge", !.order = o])
    /\ UNCHANGED <<status, payment, owner, events>>

RegenerateCharge(h, c) ==
    /\ request[h].at = "charge"
    /\ IssueCharge(c, request[h].order)
    /\ request' = [request EXCEPT ![h] = [@ EXCEPT !.at = "reissue", !.charge = c]]
    /\ UNCHANGED <<status, payment, events>>

\* A new code puts the order back to waiting.
FaultyRegenerateStore(h) ==
    /\ request[h].at = "reissue"
    /\ StoreCharge(request[h].order, request[h].charge)
    /\ WriteOrder(request[h].order, "AGUARDANDO_PAGAMENTO")
    /\ Return(h)
    /\ UNCHANGED <<owner, events>>

\* The upsert does not look at the order or at the payment again.
RegenerateStore(h) ==
    /\ request[h].at = "reissue"
    /\ StoreCharge(request[h].order, request[h].charge)
    /\ Return(h)
    /\ UNCHANGED <<status, owner, events>>

-----------------------------------------------------------------------------
(* OrdersService.syncExpirationAndSerialize, run by every listing *)

SyncRead(h, o) ==
    /\ payment[o].status = "PENDENTE"
    /\ payment[o].lapsed
    /\ Accept(h, [Idle EXCEPT !.at = "expire", !.order = o, !.pay = "EXPIRADO"])
    /\ UNCHANGED <<status, payment, owner, events>>

SyncWrite(h) ==
    /\ request[h].at = "expire"
    /\ WritePayment(request[h].order, request[h].pay)
    /\ Return(h)
    /\ UNCHANGED <<status, owner, events>>

-----------------------------------------------------------------------------
(* OrdersService.cancelOrder *)

CanCancel(o, isAdmin) ==
    \/ status[o] = "AGUARDANDO_PAGAMENTO"
    \/ isAdmin /\ status[o] = "EM_ESPERA"

\* The refund forgotten: the row says ESTORNADO all the same.
FaultyCancelRead(h, o, isAdmin) ==
    /\ CanCancel(o, isAdmin)
    /\ Accept(h, [Idle EXCEPT
                    !.at = "cancel",
                    !.order = o,
                    !.charge = payment[o].ref,
                    !.to = "CANCELADO",
                    !.pay = IF payment[o].status = "PAGO" THEN "ESTORNADO" ELSE "EXPIRADO"])
    /\ UNCHANGED <<status, payment, owner, events>>

\* A paid snapshot goes through the gateway's refund first, and the refund
\* names the reference of the snapshot.
CancelRead(h, o, isAdmin) ==
    /\ CanCancel(o, isAdmin)
    /\ LET wasPaid == payment[o].status = "PAGO" IN
       Accept(h, [Idle EXCEPT
                    !.at = IF wasPaid THEN "refund" ELSE "cancel",
                    !.order = o,
                    !.charge = payment[o].ref,
                    !.to = "CANCELADO",
                    !.pay = IF wasPaid THEN "ESTORNADO" ELSE "EXPIRADO"])
    /\ UNCHANGED <<status, payment, owner, events>>

\* What the gateway accepts to refund: a received charge, once.
Refundable(c) == events[c]["PAID"] # "none" /\ events[c]["REFUNDED"] = "none"

\* POST /payments/:id/refund.  When the answer is lost the gateway has
\* refunded, the handler throws and the order is left as it is.
CancelRefund(h) ==
    /\ request[h].at = "refund"
    /\ Refundable(request[h].charge)
    /\ events' = [events EXCEPT ![request[h].charge]["REFUNDED"] = "sent"]
    /\ \/ Goto(h, "cancel")
       \/ Return(h)
    /\ UNCHANGED <<status, payment, owner>>

\* The order without its payment.
FaultyCancelCommit(h) ==
    /\ request[h].at = "cancel"
    /\ WriteOrder(request[h].order, request[h].to)
    /\ Return(h)
    /\ UNCHANGED <<payment, owner, events>>

CancelCommit(h) ==
    /\ request[h].at = "cancel"
    /\ WriteOrder(request[h].order, request[h].to)
    /\ WritePayment(request[h].order, request[h].pay)
    /\ Return(h)
    /\ UNCHANGED <<owner, events>>

-----------------------------------------------------------------------------
(* PaymentsService.processAsaasWebhook *)

\* An orderId of undefined in the OR, which Prisma reads as no condition.
FaultyFinds(o, c) == Stored(o)

\* The findFirst: the row with this gatewayReference, or the row of the order
\* the charge was created for (externalReference).
Finds(o, c) == Stored(o) /\ (payment[o].ref = c \/ owner[c] = o)

\* The payment without the order.
FaultyPaidPlan(o) ==
    IF payment[o].status = "PAGO"
    THEN [at |-> "answer", to |-> "none", pay |-> "none"]
    ELSE [at |-> "paid", to |-> "none", pay |-> "PAGO"]

\* The order whatever its status.
FaultyPaidPlanAlways(o) ==
    IF payment[o].status = "PAGO"
    THEN [at |-> "answer", to |-> "none", pay |-> "none"]
    ELSE [at |-> "paid", to |-> "EM_ESPERA", pay |-> "PAGO"]

\* What the snapshot of order o makes of event e: the point to go on from and
\* the statuses to write; "answer" when there is nothing to write.
PaidPlan(o) ==
    IF payment[o].status = "PAGO"
    THEN [at |-> "answer", to |-> "none", pay |-> "none"]
    ELSE [at |-> "paid",
          to |-> IF status[o] = "AGUARDANDO_PAGAMENTO" THEN "EM_ESPERA" ELSE "none",
          pay |-> "PAGO"]

ExpiredPlan(o) ==
    IF payment[o].status = "PENDENTE"
    THEN [at |-> "overdue", to |-> "none", pay |-> "EXPIRADO"]
    ELSE [at |-> "answer", to |-> "none", pay |-> "none"]

RefundedPlan(o) == [at |-> "refunded", to |-> "CANCELADO", pay |-> "ESTORNADO"]

Plan(o, e) ==
    CASE e = "PAID"     -> PaidPlan(o)
      [] e = "EXPIRED"  -> ExpiredPlan(o)
      [] e = "REFUNDED" -> RefundedPlan(o)

\* The gateway gets its 200 before the work is done.
FaultyWebhookRead(h, o, c, e) ==
    /\ events[c][e] # "none"
    /\ Finds(o, c)
    /\ Accept(h, [at |-> Plan(o, e).at, order |-> o, charge |-> c, event |-> e,
                  to |-> Plan(o, e).to, pay |-> Plan(o, e).pay])
    /\ events' = [events EXCEPT ![c][e] = "acked"]
    /\ UNCHANGED <<status, payment, owner>>

\* A delivery, the first one or a repetition, in any order.
WebhookRead(h, o, c, e) ==
    /\ events[c][e] # "none"
    /\ Finds(o, c)
    /\ Accept(h, [at |-> Plan(o, e).at, order |-> o, charge |-> c, event |-> e,
                  to |-> Plan(o, e).to, pay |-> Plan(o, e).pay])
    /\ UNCHANGED <<status, payment, owner, events>>

\* No row has this charge: the answer is 200 (IGNORED) and the event is lost.
WebhookIgnored(h, c, e) ==
    /\ request[h] = Idle
    /\ events[c][e] # "none"
    /\ \A o \in Orders : ~Finds(o, c)
    /\ events' = [events EXCEPT ![c][e] = "acked"]
    /\ UNCHANGED <<status, payment, owner, request>>

WebhookPaid(h) ==
    /\ request[h].at = "paid"
    /\ WriteOrder(request[h].order, request[h].to)
    /\ WritePayment(request[h].order, request[h].pay)
    /\ Goto(h, "answer")
    /\ UNCHANGED <<owner, events>>

WebhookExpired(h) ==
    /\ request[h].at = "overdue"
    /\ WritePayment(request[h].order, request[h].pay)
    /\ Goto(h, "answer")
    /\ UNCHANGED <<status, owner, events>>

WebhookRefunded(h) ==
    /\ request[h].at = "refunded"
    /\ WriteOrder(request[h].order, request[h].to)
    /\ WritePayment(request[h].order, request[h].pay)
    /\ Goto(h, "answer")
    /\ UNCHANGED <<owner, events>>

\* The event is published for the screens, then the gateway gets its 200.
WebhookAnswer(h) ==
    /\ request[h].at = "answer"
    /\ events' = [events EXCEPT ![request[h].charge][request[h].event] = "acked"]
    /\ Return(h)
    /\ UNCHANGED <<status, payment, owner>>

-----------------------------------------------------------------------------
(* KanbanService.transitionOrderStatus *)

\* Any stored order to any column.
FaultyKanbanRead(h, o, target) ==
    /\ Stored(o)
    /\ Accept(h, [Idle EXCEPT !.at = "move", !.order = o, !.to = target])
    /\ UNCHANGED <<status, payment, owner, events>>

KanbanRead(h, o, target) ==
    /\ <<status[o], target>> \in KanbanTransitions
    /\ Accept(h, [Idle EXCEPT !.at = "move", !.order = o, !.to = target])
    /\ UNCHANGED <<status, payment, owner, events>>

\* What follows the update (XP, e-mail, publication) touches neither the order
\* nor its payment.
KanbanWrite(h) ==
    /\ request[h].at = "move"
    /\ WriteOrder(request[h].order, request[h].to)
    /\ Return(h)
    /\ UNCHANGED <<payment, owner, events>>

-----------------------------------------------------------------------------
(* Failures of the API *)

\* An await of handler h rejects (database, gateway or network): the request
\* ends in an error with what it had done so far.
Throw(h) ==
    /\ request[h].at # "idle"
    /\ Return(h)
    /\ UNCHANGED <<status, payment, owner, events>>

\* The single API process stops and starts again: every request is lost.
Restart ==
    /\ request # [h \in Handlers |-> Idle]
    /\ request' = [h \in Handlers |-> Idle]
    /\ UNCHANGED <<status, payment, owner, events>>

-----------------------------------------------------------------------------
(* The customer, the gateway and the clock *)

\* The customer pays charge c: whatever code he still holds works, expired at
\* the API or replaced by a newer one, since the gateway's due date is a whole
\* day.  He has a code only once the order is stored.
ChargePaid(c) ==
    /\ owner[c] # NoOrder /\ Stored(owner[c])
    /\ events[c]["PAID"] = "none"
    /\ events' = [events EXCEPT ![c]["PAID"] = "sent"]
    /\ UNCHANGED <<status, payment, owner, request>>

\* The due date passes, or someone deletes the charge in the gateway's panel.
ChargeExpired(c) ==
    /\ owner[c] # NoOrder
    /\ events[c]["PAID"] = "none" /\ events[c]["EXPIRED"] = "none"
    /\ events' = [events EXCEPT ![c]["EXPIRED"] = "sent"]
    /\ UNCHANGED <<status, payment, owner, request>>

\* Someone refunds the charge in the gateway's panel.
ChargeRefunded(c) ==
    /\ Refundable(c)
    /\ events' = [events EXCEPT ![c]["REFUNDED"] = "sent"]
    /\ UNCHANGED <<status, payment, owner, request>>

\* Fifteen minutes pass.
CodeLapses(o) ==
    /\ Stored(o)
    /\ ~payment[o].lapsed
    /\ payment' = [payment EXCEPT ![o].lapsed = TRUE]
    /\ UNCHANGED <<status, owner, events, request>>

-----------------------------------------------------------------------------

Create(h) == CreateCommit(h) \/ \E o \in Orders, c \in Charges : CreateCharge(h, o, c)

Regenerate(h) ==
    \/ \E o \in Orders : RegenerateRead(h, o)
    \/ \E c \in Charges : RegenerateCharge(h, c)
    \/ RegenerateStore(h)

Sync(h) == SyncWrite(h) \/ \E o \in Orders : SyncRead(h, o)

Cancel(h) ==
    \/ \E o \in Orders, isAdmin \in BOOLEAN : CancelRead(h, o, isAdmin)
    \/ CancelRefund(h)
    \/ CancelCommit(h)

Webhook(h) ==
    \/ \E o \in Orders, c \in Charges, e \in Events : WebhookRead(h, o, c, e)
    \/ \E c \in Charges, e \in Events : WebhookIgnored(h, c, e)
    \/ WebhookPaid(h)
    \/ WebhookExpired(h)
    \/ WebhookRefunded(h)
    \/ WebhookAnswer(h)

Kanban(h) ==
    \/ \E o \in Orders, target \in OrderStatus : KanbanRead(h, o, target)
    \/ KanbanWrite(h)

Api ==
    \E h \in Handlers :
        Create(h) \/ Regenerate(h) \/ Sync(h) \/ Cancel(h) \/ Webhook(h) \/ Kanban(h) \/ Throw(h)

Environment ==
    \/ \E c \in Charges : ChargePaid(c) \/ ChargeExpired(c) \/ ChargeRefunded(c)
    \/ \E o \in Orders : CodeLapses(o)

Next == Api \/ Restart \/ Environment

Spec == Init /\ [][Next]_vars

-----------------------------------------------------------------------------
(* Fairness *)

\* The event loop goes on with every request it holds (WF).  The gateway
\* repeats a webhook until it is answered, and neither busy handlers nor
\* errors win every time (SF).  The people and the clock owe nothing.
Deliver(c, e) ==
    /\ events[c][e] = "sent"
    /\ \E h \in Handlers :
        WebhookIgnored(h, c, e) \/ \E o \in Orders : WebhookRead(h, o, c, e)

Fairness ==
    /\ \A h \in Handlers :
        /\ WF_vars(CreateCommit(h) \/ RegenerateStore(h) \/ SyncWrite(h)
                     \/ CancelCommit(h) \/ KanbanWrite(h) \/ Throw(h))
        /\ SF_vars(WebhookPaid(h) \/ WebhookExpired(h) \/ WebhookRefunded(h))
        /\ SF_vars(WebhookAnswer(h))
    /\ \A c \in Charges, e \in Events : SF_vars(Deliver(c, e))

FairSpec == Spec /\ Fairness

-----------------------------------------------------------------------------
(* Properties that hold whatever the interleaving *)

\* Some charge of order o was received by the gateway.
Received(o) == \E c \in Charges : owner[c] = o /\ events[c]["PAID"] # "none"

\* RN03, the production gate: the kitchen only ever holds an order for which
\* the gateway received money, however webhooks, cancellations, new codes and
\* moves on the board interleave.
ProductionGate ==
    \A o \in Orders :
        status[o] \in KanbanVisible \union {"ENTREGUE"} => Received(o)

\* A row marked PAGO is backed by a received charge and its order is not
\* waiting for payment any more: since a repeated webhook on a PAGO row is
\* answered without effect (ALREADY_PAID), such an order would wait forever.
PaidOrderMoved ==
    \A o \in Orders :
        payment[o].status = "PAGO" =>
            Received(o) /\ status[o] # "AGUARDANDO_PAGAMENTO"

\* A row marked ESTORNADO is backed by a refund the gateway made.
RefundIsReal ==
    \A o \in Orders :
        payment[o].status = "ESTORNADO" =>
            \E c \in Charges : owner[c] = o /\ events[c]["REFUNDED"] # "none"

\* The two alternatives of the webhook's findFirst never name two rows.
WebhookFindsOneRow ==
    \A c \in Charges : \A o1, o2 \in Orders :
        Finds(o1, c) /\ Finds(o2, c) => o1 = o2

\* An order stops waiting for payment once, and in the same commit its payment
\* says why: it enters the kitchen's queue PAGO, or it is cancelled with a
\* payment that is no longer PENDENTE or PAGO.
EndsAwaiting(o) ==
    /\ status[o] = "AGUARDANDO_PAGAMENTO" /\ status'[o] # status[o] =>
        \/ status'[o] = "EM_ESPERA" /\ payment'[o].status = "PAGO"
        \/ status'[o] = "CANCELADO" /\ payment'[o].status \in {"EXPIRADO", "ESTORNADO"}
    /\ status[o] \notin {"none", "AGUARDANDO_PAGAMENTO"} =>
        status'[o] \notin {"none", "AGUARDANDO_PAGAMENTO"}

AwaitingEndsOnce == [][\A o \in Orders : EndsAwaiting(o)]_vars

\* A customer who paid does not wait forever: the order leaves
\* AGUARDANDO_PAGAMENTO, although deliveries fail, repeat and race.
PaidOrderIsServed ==
    \A c \in Charges :
        events[c]["PAID"] # "none"
            ~> \A o \in Orders : owner[c] = o => status[o] # "AGUARDANDO_PAGAMENTO"
=============================================================================
