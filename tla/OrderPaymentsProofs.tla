------------------------- MODULE OrderPaymentsProofs -------------------------
(***************************************************************************)
(* Proofs about OrderPayments, for any sets of orders, charges and         *)
(* handlers.                                                               *)
(***************************************************************************)
EXTENDS OrderInvariant, OrderClaims, TLAPS

-----------------------------------------------------------------------------
(* The helpers of the model keep the variables in their types. *)

\* Writing an order's status by id.
LEMMA WriteOrderType ==
    ASSUME TypeOK, NEW o, NEW s \in OrderStatus \union {"none"}, WriteOrder(o, s)
    PROVE  status' \in [Orders -> OrderStatus \union {"none"}]
BY DEF TypeOK, WriteOrder

\* Writing a payment's status by id.
LEMMA WritePaymentType ==
    ASSUME TypeOK, NEW o, NEW s \in PaymentStatus \union {"none"}, WritePayment(o, s)
    PROVE  payment' \in [Orders -> Payment]
<1>1. CASE s = "none"
  BY <1>1 DEF TypeOK, WritePayment
<1>2. CASE s # "none" /\ o \in Orders
  <2>1. payment[o] \in Payment
    BY <1>2 DEF TypeOK
  <2>2. [payment[o] EXCEPT !.status = s] \in Payment
    BY <2>1 DEF Payment
  <2> QED BY <1>2, <2>2 DEF TypeOK, WritePayment
<1>3. CASE s # "none" /\ o \notin Orders
  BY <1>3 DEF TypeOK, WritePayment
<1> QED BY <1>1, <1>2, <1>3

\* Storing a new charge.
LEMMA StoreChargeType ==
    ASSUME TypeOK, NEW o, NEW c \in Charges \union {NoCharge}, StoreCharge(o, c)
    PROVE  payment' \in [Orders -> Payment]
BY DEF TypeOK, StoreCharge, Payment, PaymentStatus

\* Recording the delivery of a webhook.
LEMMA EventsType ==
    ASSUME TypeOK, NEW c, NEW e, NEW d \in Delivery,
           events' = [events EXCEPT ![c][e] = d]
    PROVE  events' \in [Charges -> [Events -> Delivery]]
BY DEF TypeOK

\* A handler's request after it accepts one, goes on or returns.
LEMMA RequestType ==
    ASSUME TypeOK, NEW h \in Handlers, NEW r \in Request,
           request' = [request EXCEPT ![h] = r]
    PROVE  request' \in [Handlers -> Request]
BY DEF TypeOK

LEMMA IdleType == Idle \in Request
BY DEF Idle, Request, Points

LEMMA GotoType ==
    ASSUME TypeOK, NEW h \in Handlers, NEW p \in Points, Goto(h, p)
    PROVE  request' \in [Handlers -> Request]
<1>1. [request[h] EXCEPT !.at = p] \in Request
  BY DEF TypeOK, Request
<1> QED BY <1>1 DEF TypeOK, Goto

LEMMA ReturnType ==
    ASSUME TypeOK, NEW h \in Handlers, Return(h)
    PROVE  request' \in [Handlers -> Request]
BY IdleType DEF TypeOK, Return

-----------------------------------------------------------------------------
(* Type correctness *)

\* Every step of a handler keeps the variables in their types: the statuses
\* written are those its request carries.
LEMMA HandlerType ==
    ASSUME TypeOK, NEW h \in Handlers,
           Create(h) \/ Regenerate(h) \/ Sync(h) \/ Cancel(h) \/ Webhook(h) \/ Kanban(h)
               \/ Throw(h)
    PROVE  TypeOK'
<1> DEFINE r == request[h]
<1>0. /\ r \in Request
      /\ r.to \in OrderStatus \union {"none"}
      /\ r.pay \in PaymentStatus \union {"none"}
      /\ r.charge \in Charges \union {NoCharge}
      /\ r.order \in Orders \union {NoOrder}
  BY DEF TypeOK, Request
<1> HIDE DEF r
<1>1. CASE CreateCommit(h)
  <2>1. status' \in [Orders -> OrderStatus \union {"none"}]
    BY <1>1, WriteOrderType DEF CreateCommit, OrderStatus
  <2>2. payment' \in [Orders -> Payment]
    BY <1>0, <1>1, StoreChargeType DEF CreateCommit, r
  <2> QED BY <1>1, <2>1, <2>2, ReturnType DEF TypeOK, CreateCommit
<1>2. ASSUME NEW o \in Orders, NEW c \in Charges, CreateCharge(h, o, c) PROVE TypeOK'
  <2>1. [Idle EXCEPT !.at = "create", !.order = o, !.charge = c] \in Request
    BY DEF Idle, Request, Points
  <2> QED BY <1>2, <2>1, RequestType DEF TypeOK, CreateCharge, IssueCharge, Accept
<1>3. ASSUME NEW o \in Orders, RegenerateRead(h, o) PROVE TypeOK'
  <2>1. [Idle EXCEPT !.at = "charge", !.order = o] \in Request
    BY DEF Idle, Request, Points
  <2> QED BY <1>3, <2>1, RequestType DEF TypeOK, RegenerateRead, Accept
<1>4. ASSUME NEW c \in Charges, RegenerateCharge(h, c) PROVE TypeOK'
  <2>1. [request[h] EXCEPT !.at = "reissue", !.charge = c] \in Request
    BY <1>0 DEF Request, Points, r
  <2>2. request' \in [Handlers -> Request]
    BY <1>4, <2>1 DEF TypeOK, RegenerateCharge
  <2>3. owner' \in [Charges -> Orders \union {NoOrder}]
    BY <1>0, <1>4 DEF TypeOK, RegenerateCharge, IssueCharge, r
  <2> QED BY <1>4, <2>2, <2>3 DEF TypeOK, RegenerateCharge
<1>5. CASE RegenerateStore(h)
  <2>1. payment' \in [Orders -> Payment]
    BY <1>0, <1>5, StoreChargeType DEF RegenerateStore, r
  <2> QED BY <1>5, <2>1, ReturnType DEF TypeOK, RegenerateStore
<1>6. ASSUME NEW o \in Orders, SyncRead(h, o) PROVE TypeOK'
  <2>1. [Idle EXCEPT !.at = "expire", !.order = o, !.pay = "EXPIRADO"] \in Request
    BY DEF Idle, Request, Points, PaymentStatus
  <2> QED BY <1>6, <2>1, RequestType DEF TypeOK, SyncRead, Accept
<1>7. CASE SyncWrite(h)
  <2>1. payment' \in [Orders -> Payment]
    BY <1>0, <1>7, WritePaymentType DEF SyncWrite, r
  <2> QED BY <1>7, <2>1, ReturnType DEF TypeOK, SyncWrite
<1>8. ASSUME NEW o \in Orders, NEW isAdmin \in BOOLEAN, CancelRead(h, o, isAdmin) PROVE TypeOK'
  <2> DEFINE q == [Idle EXCEPT
                     !.at = IF payment[o].status = "PAGO" THEN "refund" ELSE "cancel",
                     !.order = o,
                     !.charge = payment[o].ref,
                     !.to = "CANCELADO",
                     !.pay = IF payment[o].status = "PAGO" THEN "ESTORNADO" ELSE "EXPIRADO"]
  <2>1. payment[o].ref \in Charges \union {NoCharge}
    BY DEF TypeOK, Payment
  <2>2. q \in Request
    BY <2>1 DEF Idle, Request, Points, PaymentStatus, OrderStatus
  <2>3. request' = [request EXCEPT ![h] = q]
    BY <1>8 DEF CancelRead, Accept
  <2> QED BY <1>8, <2>2, <2>3, RequestType DEF TypeOK, CancelRead
<1>9. CASE CancelRefund(h)
  <2>1. request' \in [Handlers -> Request]
    BY <1>9, GotoType, ReturnType DEF CancelRefund, Points
  <2>2. events' \in [Charges -> [Events -> Delivery]]
    BY <1>9, EventsType DEF CancelRefund, Delivery
  <2> QED BY <1>9, <2>1, <2>2 DEF TypeOK, CancelRefund
<1>10. CASE CancelCommit(h)
  <2>1. status' \in [Orders -> OrderStatus \union {"none"}]
    BY <1>0, <1>10, WriteOrderType DEF CancelCommit, r
  <2>2. payment' \in [Orders -> Payment]
    BY <1>0, <1>10, WritePaymentType DEF CancelCommit, r
  <2> QED BY <1>10, <2>1, <2>2, ReturnType DEF TypeOK, CancelCommit
<1>11. ASSUME NEW o \in Orders, NEW c \in Charges, NEW e \in Events, WebhookRead(h, o, c, e)
       PROVE  TypeOK'
  <2> DEFINE q == [at |-> Plan(o, e).at, order |-> o, charge |-> c, event |-> e,
                   to |-> Plan(o, e).to, pay |-> Plan(o, e).pay]
  <2>1. /\ Plan(o, e).at \in Points
        /\ Plan(o, e).to \in OrderStatus \union {"none"}
        /\ Plan(o, e).pay \in PaymentStatus \union {"none"}
    <3>1. CASE e = "PAID"
      BY <3>1 DEF Plan, PaidPlan, Points, OrderStatus, PaymentStatus
    <3>2. CASE e = "EXPIRED"
      BY <3>2 DEF Plan, ExpiredPlan, Points, OrderStatus, PaymentStatus
    <3>3. CASE e = "REFUNDED"
      BY <3>3 DEF Plan, RefundedPlan, Points, OrderStatus, PaymentStatus
    <3> QED BY <3>1, <3>2, <3>3 DEF Events
  <2>2. q \in Request
    BY <2>1 DEF Request
  <2>3. request' = [request EXCEPT ![h] = q]
    BY <1>11 DEF WebhookRead, Accept
  <2> QED BY <1>11, <2>2, <2>3, RequestType DEF TypeOK, WebhookRead
<1>12. CASE WebhookPaid(h)
  <2>1. status' \in [Orders -> OrderStatus \union {"none"}]
    BY <1>0, <1>12, WriteOrderType DEF WebhookPaid, r
  <2>2. payment' \in [Orders -> Payment]
    BY <1>0, <1>12, WritePaymentType DEF WebhookPaid, r
  <2>3. request' \in [Handlers -> Request]
    BY <1>12, GotoType DEF WebhookPaid, Points
  <2> QED BY <1>12, <2>1, <2>2, <2>3 DEF TypeOK, WebhookPaid
<1>13. CASE WebhookExpired(h)
  <2>1. payment' \in [Orders -> Payment]
    BY <1>0, <1>13, WritePaymentType DEF WebhookExpired, r
  <2>2. request' \in [Handlers -> Request]
    BY <1>13, GotoType DEF WebhookExpired, Points
  <2> QED BY <1>13, <2>1, <2>2 DEF TypeOK, WebhookExpired
<1>14. CASE WebhookRefunded(h)
  <2>1. status' \in [Orders -> OrderStatus \union {"none"}]
    BY <1>0, <1>14, WriteOrderType DEF WebhookRefunded, r
  <2>2. payment' \in [Orders -> Payment]
    BY <1>0, <1>14, WritePaymentType DEF WebhookRefunded, r
  <2>3. request' \in [Handlers -> Request]
    BY <1>14, GotoType DEF WebhookRefunded, Points
  <2> QED BY <1>14, <2>1, <2>2, <2>3 DEF TypeOK, WebhookRefunded
<1>15. CASE WebhookAnswer(h)
  <2>1. events' \in [Charges -> [Events -> Delivery]]
    BY <1>15, EventsType DEF WebhookAnswer, Delivery
  <2> QED BY <1>15, <2>1, ReturnType DEF TypeOK, WebhookAnswer
<1>16. ASSUME NEW c \in Charges, NEW e \in Events, WebhookIgnored(h, c, e) PROVE TypeOK'
  <2>1. events' \in [Charges -> [Events -> Delivery]]
    BY <1>16, EventsType DEF WebhookIgnored, Delivery
  <2> QED BY <1>16, <2>1 DEF TypeOK, WebhookIgnored
<1>17. ASSUME NEW o \in Orders, NEW target \in OrderStatus, KanbanRead(h, o, target)
       PROVE  TypeOK'
  <2>1. [Idle EXCEPT !.at = "move", !.order = o, !.to = target] \in Request
    BY DEF Idle, Request, Points
  <2> QED BY <1>17, <2>1, RequestType DEF TypeOK, KanbanRead, Accept
<1>18. CASE KanbanWrite(h)
  <2>1. status' \in [Orders -> OrderStatus \union {"none"}]
    BY <1>0, <1>18, WriteOrderType DEF KanbanWrite, r
  <2> QED BY <1>18, <2>1, ReturnType DEF TypeOK, KanbanWrite
<1>19. CASE Throw(h)
  BY <1>19, ReturnType DEF TypeOK, Throw
<1> QED
  BY <1>1, <1>2, <1>3, <1>4, <1>5, <1>6, <1>7, <1>8, <1>9, <1>10, <1>11, <1>12, <1>13, <1>14,
     <1>15, <1>16, <1>17, <1>18, <1>19
  DEF Create, Regenerate, Sync, Cancel, Webhook, Kanban

\* The rest of the system only records events and time.
LEMMA EnvironmentType == TypeOK /\ (Restart \/ Environment) => TypeOK'
<1> SUFFICES ASSUME TypeOK, Restart \/ Environment PROVE TypeOK'
  OBVIOUS
<1>1. CASE Restart
  BY <1>1, IdleType DEF TypeOK, Restart
<1>2. ASSUME NEW c \in Charges, ChargePaid(c) \/ ChargeExpired(c) \/ ChargeRefunded(c)
      PROVE  TypeOK'
  <2>1. events' \in [Charges -> [Events -> Delivery]]
    BY <1>2, EventsType DEF ChargePaid, ChargeExpired, ChargeRefunded, Delivery
  <2> QED BY <1>2, <2>1 DEF TypeOK, ChargePaid, ChargeExpired, ChargeRefunded
<1>3. ASSUME NEW o \in Orders, CodeLapses(o) PROVE TypeOK'
  <2>1. [payment[o] EXCEPT !.lapsed = TRUE] \in Payment
    BY DEF TypeOK, Payment
  <2> QED BY <1>3, <2>1 DEF TypeOK, CodeLapses
<1> QED BY <1>1, <1>2, <1>3 DEF Environment

LEMMA TypeStep == TypeOK /\ [Next]_vars => TypeOK'
<1>1. TypeOK /\ UNCHANGED vars => TypeOK'
  BY DEF TypeOK, vars
<1> QED BY <1>1, HandlerType, EnvironmentType DEF Next, Api

\* The variables always hold values of their types, however requests
\* interleave, fail or are lost.
THEOREM TypeCorrect == Spec => []TypeOK
<1>1. Init => TypeOK
  BY IdleType DEF Init, TypeOK, NoPayment, Payment, Delivery
<1> QED BY <1>1, TypeStep, PTL DEF Spec

-----------------------------------------------------------------------------
(* What only grows *)

\* No step takes back a charge's order, an event the gateway has sent, an
\* order or the fact that it has stopped waiting for payment.  A snapshot may
\* be old; these facts about it stay true.
Grows ==
    /\ \A c \in Charges : owner[c] # NoOrder => owner'[c] = owner[c]
    /\ \A c \in Charges, e \in Events : events[c][e] # "none" => events'[c][e] # "none"
    /\ \A o \in Orders : Stored(o) => Stored(o)'
    /\ \A o \in Orders : Left(o) => Left(o)'

LEMMA GrowsMoney ==
    ASSUME TypeOK, Grows, NEW o \in Orders
    PROVE  /\ Received(o) => Received(o)'
           /\ Refunded(o) => Refunded(o)'
<1>1. ASSUME NEW c \in Charges, owner[c] = o PROVE owner'[c] = o
  BY <1>1, ValuesAssumption DEF Grows
<1>2. \A c \in Charges : \A e \in Events : events[c][e] # "none" => events'[c][e] # "none"
  BY DEF Grows
<1>3. "PAID" \in Events /\ "REFUNDED" \in Events
  BY DEF Events
<1> QED BY <1>1, <1>2, <1>3 DEF Received, Refunded

\* A handler that does not move keeps its reasons to write, unless it is
\* creating an order somebody else creates.
LEMMA WaitingDecided ==
    ASSUME TypeOK, Grows, NEW h \in Handlers, Decided(h), request'[h] = request[h],
           request[h].at = "create" => ~Stored(request[h].order)'
    PROVE  Decided(h)'
<1>1. \A o \in Orders : /\ Received(o) => Received(o)'
                        /\ Refunded(o) => Refunded(o)'
                        /\ Stored(o) => Stored(o)'
                        /\ Left(o) => Left(o)'
  BY GrowsMoney DEF Grows
<1>2. \A c \in Charges, o \in Orders : owner[c] = o => owner'[c] = o
  BY ValuesAssumption DEF Grows
<1>3. \A c \in Charges, e \in Events : events[c][e] # "none" => events'[c][e] # "none"
  BY DEF Grows
<1>4. Creating(h)'
  BY <1>2 DEF Decided, Creating
<1>5. Reissuing(h)'
  BY <1>1, <1>2 DEF Decided, Reissuing
<1>6. Expiring(h)'
  BY <1>1 DEF Decided, Expiring
<1>7. Cancelling(h)'
  BY <1>1, <1>2 DEF Decided, Cancelling
<1>8. Confirming(h)'
  BY <1>1 DEF Decided, Confirming
<1>9. Answering(h)'
  BY <1>1, <1>3 DEF Decided, Answering
<1>10. Moving(h)'
  BY <1>1 DEF Decided, Moving
<1>11. Free(h)'
  BY DEF Decided, Free, Idle
<1> QED BY <1>4, <1>5, <1>6, <1>7, <1>8, <1>9, <1>10, <1>11 DEF Decided

-----------------------------------------------------------------------------
(* What a step does to the rows *)

\* The part of the invariant that speaks of the rows alone.
Rows == RowsOwned /\ EventsOwned /\ ProductionGate /\ PaidOrderMoved /\ RefundIsReal

\* A write by id keeps the rows right, and nothing is taken back, if the
\* writer's reasons still hold: money received for what it moves into the
\* kitchen or marks PAGO, a refund for what it marks ESTORNADO.
LEMMA WriteRows ==
    ASSUME TypeOK, TypeOK', Rows, UNCHANGED <<owner, events>>,
           NEW o \in Orders, Stored(o),
           NEW s \in {"none", "CANCELADO"} \union KanbanVisible \union {"ENTREGUE"},
           NEW p \in PaymentStatus \union {"none"},
           WriteOrder(o, s), WritePayment(o, p),
           s \in KanbanVisible \union {"ENTREGUE"} => Received(o),
           p = "PAGO" => Received(o) /\ (s # "none" \/ Left(o)),
           p = "ESTORNADO" => Refunded(o)
    PROVE  Grows /\ Rows'
<1>1. Grows
  BY DEF Grows, WriteOrder, TypeOK, Stored, Left, KanbanVisible
<1>2. \A q \in Orders : /\ Received(q) => Received(q)'
                        /\ Refunded(q) => Refunded(q)'
  BY <1>1, GrowsMoney
<1>3. \A q \in Orders : /\ status'[q] = IF q = o /\ s # "none" THEN s ELSE status[q]
                        /\ payment'[q].ref = payment[q].ref
                        /\ payment'[q].status = IF q = o /\ p # "none" THEN p ELSE payment[q].status
                        /\ q # o => payment'[q] = payment[q]
  BY DEF WriteOrder, WritePayment, TypeOK, Payment
<1>4. RowsOwned'
  BY <1>3 DEF Rows, RowsOwned, Stored, KanbanVisible
<1>5. ProductionGate'
  BY <1>2, <1>3 DEF Rows, ProductionGate, KanbanVisible
<1>6. PaidOrderMoved'
  BY <1>2, <1>3 DEF Rows, PaidOrderMoved, Left, KanbanVisible
<1>7. RefundIsReal'
  BY <1>2, <1>3 DEF Rows, RefundIsReal, Refunded
<1>8. EventsOwned'
  BY DEF Rows, EventsOwned
<1> QED BY <1>1, <1>4, <1>5, <1>6, <1>7, <1>8 DEF Rows

\* A step that leaves the two tables alone.
LEMMA LeaveRows ==
    ASSUME TypeOK, TypeOK', Rows, UNCHANGED <<status, payment>>,
           \A c \in Charges : owner[c] # NoOrder => owner'[c] = owner[c],
           \A c \in Charges, e \in Events : events[c][e] # "none" => events'[c][e] # "none",
           \A c \in Charges : owner[c] = NoOrder => events'[c] = events[c]
    PROVE  Grows /\ Rows'
<1>1. Grows
  BY DEF Grows, Stored, Left
<1>2. \A q \in Orders : /\ Received(q) => Received(q)'
                        /\ Refunded(q) => Refunded(q)'
  BY <1>1, GrowsMoney
<1>3. RowsOwned'
  BY ValuesAssumption DEF Rows, RowsOwned, Stored
<1>4. ProductionGate' /\ PaidOrderMoved' /\ RefundIsReal'
  BY <1>2 DEF Rows, ProductionGate, PaidOrderMoved, RefundIsReal, Refunded
<1>5. EventsOwned'
  BY DEF Rows, EventsOwned
<1> QED BY <1>1, <1>3, <1>4, <1>5 DEF Rows

\* Storing a charge of the order, new or replaced, asks for money again.
LEMMA StoreRows ==
    ASSUME TypeOK, TypeOK', Rows, UNCHANGED <<owner, events>>,
           NEW o \in Orders, NEW c \in Charges, owner[c] = o, StoreCharge(o, c),
           \/ ~Stored(o) /\ WriteOrder(o, "AGUARDANDO_PAGAMENTO")
           \/ Stored(o) /\ UNCHANGED status
    PROVE  Grows /\ Rows'
<1>1. Grows
  BY DEF Grows, WriteOrder, TypeOK, Stored, Left
<1>2. \A q \in Orders : /\ Received(q) => Received(q)'
                        /\ Refunded(q) => Refunded(q)'
  BY <1>1, GrowsMoney
<1>3. \A q \in Orders : /\ q # o => status'[q] = status[q] /\ payment'[q] = payment[q]
                        /\ payment'[o].status = "PENDENTE" /\ payment'[o].ref = c
                        /\ Stored(o)'
                        /\ status'[o] \in {status[o], "AGUARDANDO_PAGAMENTO"}
  BY DEF StoreCharge, WriteOrder, TypeOK, Stored
<1>4. RowsOwned'
  BY <1>3 DEF Rows, RowsOwned, Stored
<1>5. ProductionGate' /\ PaidOrderMoved' /\ RefundIsReal'
  BY <1>2, <1>3 DEF Rows, ProductionGate, PaidOrderMoved, RefundIsReal, Refunded, KanbanVisible
<1>6. EventsOwned'
  BY DEF Rows, EventsOwned
<1> QED BY <1>1, <1>4, <1>5, <1>6 DEF Rows

\* The whole invariant after a step of handler h.
LEMMA HandlerStep ==
    ASSUME IInv, TypeOK', Grows, Rows', NEW h \in Handlers, Decided(h)',
           \A g \in Handlers \ {h} : request'[g] = request[g],
           \/ request'[h].order \in {NoOrder, request[h].order}
           \/ Stored(request'[h].order)
           \/ \A g \in Handlers \ {h} : request[g].order # request'[h].order,
           request'[h].at = "create" =>
               \A g \in Handlers \ {h} : request[g].order # request'[h].order,
           \A g \in Handlers \ {h} :
               request[g].at = "create" => ~Stored(request[g].order)'
    PROVE  IInv'
<1>1. \A g \in Handlers : Decided(g)'
  BY WaitingDecided DEF IInv
<1>2. ASSUME NEW g \in Handlers \ {h}, request[g].at = "create"
      PROVE  request[g].order # request'[h].order
  <2>1. request[g].order \in Orders /\ ~Stored(request[g].order)
    BY <1>2 DEF IInv, Decided, Creating
  <2>2. request[h].order # request[g].order
    BY <1>2 DEF IInv, CreatesAlone
  <2> QED BY <1>2, <2>1, <2>2, ValuesAssumption
<1>3. CreatesAlone'
  BY <1>2 DEF IInv, CreatesAlone
<1> QED BY <1>1, <1>3 DEF IInv, Rows

-----------------------------------------------------------------------------
(* IInv is inductive: one lemma per handler of the code. *)

\* createOrder: the order appears only when its charge is stored with it.
LEMMA CreateStep ==
    ASSUME IInv, TypeOK', NEW h \in Handlers, Create(h)
    PROVE  IInv'
<1>1. CASE CreateCommit(h)
  <2> DEFINE o == request[h].order
  <2>1. /\ o \in Orders /\ ~Stored(o)
        /\ request[h].charge \in Charges /\ owner[request[h].charge] = o
    BY <1>1 DEF IInv, Decided, Creating, CreateCommit
  <2>2. Grows /\ Rows'
    BY <1>1, <2>1, StoreRows DEF IInv, Rows, CreateCommit
  <2>3. request'[h] = Idle /\ \A g \in Handlers \ {h} : request'[g] = request[g]
    BY <1>1 DEF CreateCommit, Return, IInv, TypeOK
  <2>4. Decided(h)'
    BY <2>3 DEF Decided, Free, Creating, Reissuing, Expiring, Cancelling, Confirming,
      Answering, Moving, Idle
  <2>5. ASSUME NEW g \in Handlers \ {h}, request[g].at = "create"
        PROVE  ~Stored(request[g].order)'
    <3>1. request[g].order \in Orders /\ request[g].order # o /\ ~Stored(request[g].order)
      BY <1>1, <2>5 DEF IInv, Decided, Creating, CreatesAlone, CreateCommit
    <3> QED BY <1>1, <2>3, <3>1 DEF CreateCommit, WriteOrder, Stored, IInv, TypeOK
  <2> QED BY <2>2, <2>3, <2>4, <2>5, HandlerStep DEF Idle
<1>2. ASSUME NEW o \in Orders, NEW c \in Charges, CreateCharge(h, o, c) PROVE IInv'
  <2>1. Grows /\ Rows'
    BY <1>2, LeaveRows DEF IInv, Rows, TypeOK, CreateCharge, IssueCharge
  <2>2. /\ request'[h].at = "create" /\ request'[h].order = o /\ request'[h].charge = c
        /\ \A g \in Handlers \ {h} : request'[g] = request[g]
        /\ owner'[c] = o
        /\ UNCHANGED status
    BY <1>2 DEF CreateCharge, Accept, IssueCharge, Idle, IInv, TypeOK
  <2>3. Decided(h)'
    BY <1>2, <2>2 DEF CreateCharge, Decided, Free, Creating, Reissuing, Expiring, Cancelling,
      Confirming, Answering, Moving, Stored
  <2>4. ASSUME NEW g \in Handlers PROVE request[g].order # o
    <3>1. Decided(g) /\ request[g] \in Request
      BY DEF IInv, TypeOK
    <3>2. CASE request[g].at = "idle"
      BY <3>1, <3>2, ValuesAssumption DEF Decided, Free, Idle
    <3>3. CASE request[g].at = "create"
      BY <1>2, <3>1, <3>3 DEF Decided, Creating, CreateCharge
    <3>4. CASE request[g].at \notin {"idle", "create"}
      BY <1>2, <3>1, <3>4 DEF Decided, Reissuing, Expiring, Cancelling, Confirming,
        Answering, Moving, Left, Stored, CreateCharge, Request, Points
    <3> QED BY <3>2, <3>3, <3>4
  <2>5. \A g \in Handlers \ {h} : request[g].at = "create" => ~Stored(request[g].order)'
    BY <2>2 DEF IInv, Decided, Creating, Stored
  <2> QED BY <2>1, <2>2, <2>3, <2>4, <2>5, HandlerStep
<1> QED BY <1>1, <1>2 DEF Create

\* A handler that ends its request, and leaves the creation of orders alone.
LEMMA ReturnStep ==
    ASSUME IInv, TypeOK', NEW h \in Handlers, Return(h), Grows, Rows',
           \A o \in Orders : ~Stored(o) => ~Stored(o)'
    PROVE  IInv'
<1>1. request'[h] = Idle /\ \A g \in Handlers \ {h} : request'[g] = request[g]
  BY DEF Return, IInv, TypeOK
<1>2. Decided(h)'
  BY <1>1 DEF Decided, Free, Creating, Reissuing, Expiring, Cancelling, Confirming, Answering,
    Moving, Idle
<1>3. \A g \in Handlers \ {h} : request[g].at = "create" => ~Stored(request[g].order)'
  BY <1>1 DEF IInv, Decided, Creating
<1> QED BY <1>1, <1>2, <1>3, HandlerStep DEF Idle

\* A handler that accepts a request about a stored order: only reads.
LEMMA AcceptStep ==
    ASSUME IInv, TypeOK', NEW h \in Handlers, NEW r, Accept(h, r),
           UNCHANGED <<status, payment, owner, events>>,
           r.order \in Orders, Stored(r.order), r.at # "create", Decided(h)'
    PROVE  IInv'
<1>1. Grows /\ Rows'
  BY LeaveRows DEF IInv, Rows
<1>2. request'[h] = r /\ \A g \in Handlers \ {h} : request'[g] = request[g]
  BY DEF Accept, IInv, TypeOK
<1>3. \A g \in Handlers \ {h} : request[g].at = "create" => ~Stored(request[g].order)'
  BY <1>2 DEF IInv, Decided, Creating, Stored
<1>4. Stored(request'[h].order)
  BY <1>2
<1> QED BY <1>1, <1>2, <1>3, <1>4, HandlerStep

\* A handler that goes on to its next point with the same order.
LEMMA GotoStep ==
    ASSUME IInv, TypeOK', NEW h \in Handlers, Grows, Rows', Decided(h)',
           \A g \in Handlers \ {h} : request'[g] = request[g],
           request'[h].order = request[h].order, request'[h].at # "create",
           \A o \in Orders : ~Stored(o) => ~Stored(o)'
    PROVE  IInv'
<1>1. \A g \in Handlers \ {h} : request[g].at = "create" => ~Stored(request[g].order)'
  BY DEF IInv, Decided, Creating
<1> QED BY <1>1, HandlerStep

\* regeneratePixCharge: whatever became of the order since it was read, the
\* row gets one of its own charges and asks for money again.
LEMMA RegenerateStep ==
    ASSUME IInv, TypeOK', NEW h \in Handlers, Regenerate(h)
    PROVE  IInv'
<1>1. ASSUME NEW o \in Orders, RegenerateRead(h, o) PROVE IInv'
  <2> DEFINE r == [Idle EXCEPT !.at = "charge", !.order = o]
  <2>1. r.order = o /\ r.at = "charge" /\ Stored(o) /\ Accept(h, r)
    BY <1>1 DEF RegenerateRead, Stored, Idle
  <2>2. request'[h] = r
    BY <2>1 DEF Accept, IInv, TypeOK
  <2> HIDE DEF r
  <2>3. Stored(o)'
    BY <1>1, <2>1 DEF RegenerateRead, Stored
  <2>4. Decided(h)'
    BY <2>1, <2>2, <2>3 DEF Decided, Free, Creating, Reissuing, Expiring, Cancelling,
      Confirming, Answering, Moving
  <2> QED BY <1>1, <2>1, <2>4, AcceptStep DEF RegenerateRead
<1>2. ASSUME NEW c \in Charges, RegenerateCharge(h, c) PROVE IInv'
  <2> DEFINE o == request[h].order
  <2>1. o \in Orders /\ Stored(o)
    BY <1>2 DEF IInv, Decided, Reissuing, RegenerateCharge
  <2>2. Grows /\ Rows'
    BY <1>2, <2>1, LeaveRows DEF IInv, Rows, TypeOK, RegenerateCharge, IssueCharge
  <2>3. /\ request'[h].at = "reissue" /\ request'[h].order = o /\ request'[h].charge = c
        /\ \A g \in Handlers \ {h} : request'[g] = request[g]
        /\ owner'[c] = o
        /\ UNCHANGED status
    BY <1>2 DEF RegenerateCharge, IssueCharge, IInv, TypeOK, Request
  <2>4. Decided(h)'
    BY <2>1, <2>3 DEF Decided, Free, Creating, Reissuing, Expiring, Cancelling, Confirming,
      Answering, Moving, Stored
  <2> QED BY <2>2, <2>3, <2>4, GotoStep DEF Stored
<1>3. CASE RegenerateStore(h)
  <2> DEFINE o == request[h].order
  <2>1. /\ o \in Orders /\ Stored(o)
        /\ request[h].charge \in Charges /\ owner[request[h].charge] = o
    BY <1>3 DEF IInv, Decided, Reissuing, RegenerateStore
  <2>2. Grows /\ Rows'
    BY <1>3, <2>1, StoreRows DEF IInv, Rows, RegenerateStore
  <2> QED BY <1>3, <2>2, ReturnStep DEF RegenerateStore, Stored
<1> QED BY <1>1, <1>2, <1>3 DEF Regenerate

\* syncExpirationAndSerialize.
LEMMA SyncStep ==
    ASSUME IInv, TypeOK', NEW h \in Handlers, Sync(h)
    PROVE  IInv'
<1>1. ASSUME NEW o \in Orders, SyncRead(h, o) PROVE IInv'
  <2> DEFINE r == [Idle EXCEPT !.at = "expire", !.order = o, !.pay = "EXPIRADO"]
  <2>1. r.order = o /\ r.at = "expire" /\ r.pay = "EXPIRADO" /\ Accept(h, r)
    BY <1>1 DEF SyncRead, Idle
  <2>2. request'[h] = r
    BY <2>1 DEF Accept, IInv, TypeOK
  <2> HIDE DEF r
  <2>3. Stored(o) /\ Stored(o)'
    BY <1>1 DEF SyncRead, Stored, IInv, RowsOwned, NoPayment
  <2>4. Decided(h)'
    BY <2>1, <2>2, <2>3 DEF Decided, Free, Creating, Reissuing, Expiring, Cancelling,
      Confirming, Answering, Moving
  <2> QED BY <1>1, <2>1, <2>3, <2>4, AcceptStep DEF SyncRead
<1>2. CASE SyncWrite(h)
  <2> DEFINE o == request[h].order
  <2>1. o \in Orders /\ Stored(o) /\ request[h].pay = "EXPIRADO"
    BY <1>2 DEF IInv, Decided, Expiring, SyncWrite
  <2>2. WriteOrder(o, "none")
    BY <1>2 DEF SyncWrite, WriteOrder
  <2>3. Grows /\ Rows'
    BY <1>2, <2>1, <2>2, WriteRows DEF IInv, Rows, SyncWrite, PaymentStatus, KanbanVisible
  <2> QED BY <1>2, <2>3, ReturnStep DEF SyncWrite, Stored
<1> QED BY <1>1, <1>2 DEF Sync

\* cancelOrder: ESTORNADO is only decided on when the row was PAGO, and only
\* written once the gateway has refunded.
LEMMA CancelStep ==
    ASSUME IInv, TypeOK', NEW h \in Handlers, Cancel(h)
    PROVE  IInv'
<1>1. ASSUME NEW o \in Orders, NEW isAdmin \in BOOLEAN, CancelRead(h, o, isAdmin) PROVE IInv'
  <2> DEFINE wasPaid == payment[o].status = "PAGO"
             r == [Idle EXCEPT
                     !.at = IF wasPaid THEN "refund" ELSE "cancel",
                     !.order = o,
                     !.charge = payment[o].ref,
                     !.to = "CANCELADO",
                     !.pay = IF wasPaid THEN "ESTORNADO" ELSE "EXPIRADO"]
  <2>1. /\ r.order = o /\ r.to = "CANCELADO" /\ r.charge = payment[o].ref
        /\ \/ r.at = "refund" /\ r.pay = "ESTORNADO"
           \/ r.at = "cancel" /\ r.pay = "EXPIRADO"
    BY DEF Idle
  <2>2. Accept(h, r)
    BY <1>1 DEF CancelRead
  <2>3. request'[h] = r
    BY <2>2 DEF Accept, IInv, TypeOK
  <2> HIDE DEF r
  <2>4. Stored(o) /\ Stored(o)' /\ payment[o].ref \in Charges /\ owner'[payment[o].ref] = o
    BY <1>1 DEF CancelRead, CanCancel, Stored, IInv, RowsOwned
  <2>5. Decided(h)'
    BY <2>1, <2>3, <2>4 DEF Decided, Free, Creating, Reissuing, Expiring, Cancelling,
      Confirming, Answering, Moving
  <2> QED BY <1>1, <2>1, <2>2, <2>4, <2>5, AcceptStep DEF CancelRead
<1>2. CASE CancelRefund(h)
  <2> DEFINE o == request[h].order
  <2>1. /\ o \in Orders /\ Stored(o) /\ request[h].to = "CANCELADO"
        /\ request[h].pay \in {"EXPIRADO", "ESTORNADO"}
        /\ request[h].charge \in Charges /\ owner[request[h].charge] = o
    BY <1>2 DEF IInv, Decided, Cancelling, CancelRefund
  <2>2. Grows /\ Rows'
    <3>1. \A c \in Charges : owner[c] = NoOrder => events'[c] = events[c]
      BY <1>2, <2>1, ValuesAssumption DEF CancelRefund, IInv, TypeOK
    <3> QED BY <1>2, <3>1, LeaveRows DEF IInv, Rows, TypeOK, CancelRefund
  <2>3. CASE Return(h)
    BY <1>2, <2>2, <2>3, ReturnStep DEF CancelRefund, Stored
  <2>4. CASE Goto(h, "cancel")
    <3>1. /\ request'[h] = [request[h] EXCEPT !.at = "cancel"]
          /\ \A g \in Handlers \ {h} : request'[g] = request[g]
          /\ request[h] \in Request
      BY <2>4 DEF Goto, IInv, TypeOK
    <3>2. /\ request'[h].at = "cancel" /\ request'[h].order = o
          /\ request'[h].to = request[h].to /\ request'[h].pay = request[h].pay
      BY <3>1 DEF Request
    <3>3. Refunded(o)'
      <4>1. /\ owner'[request[h].charge] = o
            /\ events'[request[h].charge]["REFUNDED"] # "none"
        BY <1>2, <2>1 DEF CancelRefund, IInv, TypeOK, Events
      <4> QED BY <2>1, <3>2, <4>1 DEF Refunded
    <3>4. Stored(o)'
      BY <1>2, <2>1, <3>2 DEF CancelRefund, Stored
    <3>5. Decided(h)'
      BY <2>1, <3>2, <3>3, <3>4 DEF Decided, Free, Creating, Reissuing, Expiring, Cancelling,
        Confirming, Answering, Moving
    <3> QED BY <1>2, <2>2, <3>1, <3>2, <3>5, GotoStep DEF CancelRefund, Stored
  <2> QED BY <1>2, <2>3, <2>4 DEF CancelRefund
<1>3. CASE CancelCommit(h)
  <2> DEFINE o == request[h].order
  <2>1. /\ o \in Orders /\ Stored(o) /\ request[h].to = "CANCELADO"
        /\ request[h].pay \in {"EXPIRADO", "ESTORNADO"}
        /\ request[h].pay = "ESTORNADO" => Refunded(o)
    BY <1>3 DEF IInv, Decided, Cancelling, CancelCommit
  <2>2. Grows /\ Rows'
    BY <1>3, <2>1, WriteRows DEF IInv, Rows, CancelCommit, PaymentStatus, KanbanVisible
  <2> QED BY <1>3, <2>1, <2>2, ReturnStep DEF CancelCommit, WriteOrder, Stored, IInv, TypeOK
<1> QED BY <1>1, <1>2, <1>3 DEF Cancel

\* processAsaasWebhook, the read: whichever alternative of the findFirst
\* matches, the charge is the order's own, so the event speaks of its money.
LEMMA WebhookReadStep ==
    ASSUME IInv, TypeOK', NEW h \in Handlers,
           NEW o \in Orders, NEW c \in Charges, NEW e \in Events, WebhookRead(h, o, c, e)
    PROVE  IInv'
<1> DEFINE r == [at |-> Plan(o, e).at, order |-> o, charge |-> c, event |-> e,
                 to |-> Plan(o, e).to, pay |-> Plan(o, e).pay]
<1>1. Stored(o) /\ owner[c] = o /\ events[c][e] # "none"
  BY DEF WebhookRead, Finds, IInv, RowsOwned
<1>2. \/ r.at = "answer"
      \/ e = "PAID" /\ r.at = "paid" /\ r.pay = "PAGO"
           /\ (r.to = "EM_ESPERA" \/ (r.to = "none" /\ status[o] # "AGUARDANDO_PAGAMENTO"))
      \/ r.at = "overdue" /\ r.pay = "EXPIRADO"
      \/ e = "REFUNDED" /\ r.at = "refunded" /\ r.to = "CANCELADO" /\ r.pay = "ESTORNADO"
  <2>1. CASE e = "PAID"
    BY <2>1 DEF Plan, PaidPlan
  <2>2. CASE e = "EXPIRED"
    BY <2>2 DEF Plan, ExpiredPlan
  <2>3. CASE e = "REFUNDED"
    BY <2>3 DEF Plan, RefundedPlan
  <2> QED BY <2>1, <2>2, <2>3 DEF Events
<1>3. r.order = o /\ r.charge = c /\ r.event = e /\ Accept(h, r)
  BY DEF WebhookRead
<1> HIDE DEF r
<1>4. request'[h] = r
  BY <1>3 DEF Accept, IInv, TypeOK
<1>5. UNCHANGED <<status, payment, owner, events>>
  BY DEF WebhookRead
<1>6. e = "PAID" => Received(o)
  BY <1>1 DEF Received
<1>7. e = "REFUNDED" => Refunded(o)
  BY <1>1 DEF Refunded
<1>8. /\ request'[h].order = o /\ Stored(o)'
      /\ e = "PAID" => Received(o)'
      /\ e = "REFUNDED" => Refunded(o)'
  BY <1>1, <1>3, <1>4, <1>5, <1>6, <1>7 DEF Stored, Received, Refunded
<1>9. Decided(h)'
  BY <1>1, <1>2, <1>3, <1>4, <1>5, <1>8 DEF Decided, Free, Creating, Reissuing, Expiring,
    Cancelling, Confirming, Answering, Moving, Left, Stored
<1> QED BY <1>1, <1>2, <1>3, <1>5, <1>9, AcceptStep

\* processAsaasWebhook, a charge without a row.
LEMMA WebhookIgnoredStep ==
    ASSUME IInv, TypeOK', NEW h \in Handlers,
           NEW c \in Charges, NEW e \in Events, WebhookIgnored(h, c, e)
    PROVE  IInv'
<1>1. UNCHANGED <<status, payment, owner, request>>
  BY DEF WebhookIgnored
<1>2. \A d \in Charges, f \in Events : events[d][f] # "none" => events'[d][f] # "none"
  BY DEF WebhookIgnored, IInv, TypeOK
<1>3. \A d \in Charges : owner[d] = NoOrder => events'[d] = events[d]
  BY DEF WebhookIgnored, IInv, TypeOK, EventsOwned
<1>4. Grows /\ Rows'
  BY <1>1, <1>2, <1>3, LeaveRows DEF IInv, Rows
<1>5. \A g \in Handlers : Decided(g)'
  BY <1>1, <1>4, WaitingDecided DEF IInv, Decided, Creating, Stored
<1>6. CreatesAlone'
  BY <1>1 DEF IInv, CreatesAlone
<1> QED BY <1>4, <1>5, <1>6 DEF IInv, Rows

\* processAsaasWebhook, the writes and the answer.
LEMMA WebhookStep ==
    ASSUME IInv, TypeOK', NEW h \in Handlers,
           WebhookPaid(h) \/ WebhookExpired(h) \/ WebhookRefunded(h) \/ WebhookAnswer(h)
    PROVE  IInv'
<1> DEFINE o == request[h].order
<1>1. CASE WebhookAnswer(h)
  <2>1. /\ request[h].charge \in Charges /\ request[h].event \in Events
        /\ events' = [events EXCEPT ![request[h].charge][request[h].event] = "acked"]
    BY <1>1 DEF WebhookAnswer, IInv, Decided, Answering
  <2>2. \A c \in Charges, e \in Events : events[c][e] # "none" => events'[c][e] # "none"
    BY <2>1 DEF IInv, TypeOK
  <2>3. Grows /\ Rows'
    <3>1. owner[request[h].charge] # NoOrder
      BY <1>1 DEF WebhookAnswer, IInv, EventsOwned, Decided, Answering
    <3>2. \A c \in Charges : owner[c] = NoOrder => events'[c] = events[c]
      BY <2>1, <3>1 DEF IInv, TypeOK
    <3> QED BY <1>1, <2>2, <3>2, LeaveRows DEF IInv, Rows, WebhookAnswer
  <2> QED BY <1>1, <2>3, ReturnStep DEF WebhookAnswer, Stored
<1>2. CASE WebhookPaid(h) \/ WebhookExpired(h) \/ WebhookRefunded(h)
  <2>1. /\ Goto(h, "answer")
        /\ request[h].at \in {"paid", "overdue", "refunded"}
        /\ WritePayment(o, request[h].pay)
        /\ UNCHANGED <<owner, events>>
    BY <1>2 DEF WebhookPaid, WebhookExpired, WebhookRefunded
  <2>2. /\ o \in Orders /\ Stored(o)
        /\ request[h].charge \in Charges /\ request[h].event \in Events
        /\ events[request[h].charge][request[h].event] # "none"
    BY <2>1 DEF IInv, Decided, Answering
  <2>3. Grows /\ Rows' /\ \A q \in Orders : ~Stored(q) => status'[q] = "none"
    <3>1. CASE WebhookPaid(h)
      <4>1. /\ request[h].pay = "PAGO" /\ Received(o)
            /\ request[h].to = "EM_ESPERA" \/ (request[h].to = "none" /\ Left(o))
            /\ WriteOrder(o, request[h].to)
        BY <3>1 DEF WebhookPaid, IInv, Decided, Confirming
      <4>2. Grows /\ Rows'
        BY <2>1, <2>2, <4>1, WriteRows DEF IInv, Rows, PaymentStatus, KanbanVisible
      <4> QED BY <2>2, <4>1, <4>2 DEF WriteOrder, Stored, IInv, TypeOK
    <3>2. CASE WebhookExpired(h)
      <4>1. request[h].pay = "EXPIRADO" /\ WriteOrder(o, "none") /\ UNCHANGED status
        BY <3>2 DEF WebhookExpired, IInv, Decided, Expiring, WriteOrder
      <4>2. Grows /\ Rows'
        BY <2>1, <2>2, <4>1, WriteRows DEF IInv, Rows, PaymentStatus, KanbanVisible
      <4> QED BY <4>1, <4>2 DEF Stored
    <3>3. CASE WebhookRefunded(h)
      <4>1. /\ request[h].to = "CANCELADO" /\ request[h].pay \in {"EXPIRADO", "ESTORNADO"}
            /\ request[h].pay = "ESTORNADO" => Refunded(o)
            /\ WriteOrder(o, request[h].to)
        BY <3>3 DEF WebhookRefunded, IInv, Decided, Cancelling
      <4>2. Grows /\ Rows'
        BY <2>1, <2>2, <4>1, WriteRows DEF IInv, Rows, PaymentStatus, KanbanVisible
      <4> QED BY <2>2, <4>1, <4>2 DEF WriteOrder, Stored, IInv, TypeOK
    <3> QED BY <1>2, <3>1, <3>2, <3>3
  <2>4. /\ request'[h] = [request[h] EXCEPT !.at = "answer"]
        /\ \A g \in Handlers \ {h} : request'[g] = request[g]
        /\ request[h] \in Request
    BY <2>1 DEF Goto, IInv, TypeOK
  <2>5. /\ request'[h].at = "answer" /\ request'[h].order = o
        /\ request'[h].charge = request[h].charge /\ request'[h].event = request[h].event
    BY <2>4 DEF Request
  <2>6. Stored(o)'
    BY <2>2, <2>3, <2>5 DEF Grows, Stored
  <2>7. Decided(h)'
    BY <2>1, <2>2, <2>5, <2>6 DEF Decided, Free, Creating, Reissuing, Expiring, Cancelling,
      Confirming, Answering, Moving
  <2> QED BY <2>3, <2>4, <2>5, <2>7, GotoStep DEF Stored
<1> QED BY <1>1, <1>2

\* transitionOrderStatus: an order on the board was paid for, and stays so
\* whatever happens to it before the move is written.
LEMMA KanbanStep ==
    ASSUME IInv, TypeOK', NEW h \in Handlers, Kanban(h)
    PROVE  IInv'
<1>1. ASSUME NEW o \in Orders, NEW target \in OrderStatus, KanbanRead(h, o, target) PROVE IInv'
  <2> DEFINE r == [Idle EXCEPT !.at = "move", !.order = o, !.to = target]
  <2>1. r.order = o /\ r.at = "move" /\ r.to = target /\ Accept(h, r)
    BY <1>1 DEF KanbanRead, Idle
  <2>2. request'[h] = r
    BY <2>1 DEF Accept, IInv, TypeOK
  <2> HIDE DEF r
  <2>3. status[o] \in KanbanVisible /\ target \in KanbanVisible \union {"ENTREGUE"}
    BY <1>1 DEF KanbanRead, KanbanTransitions, KanbanVisible
  <2>4. Stored(o) /\ Left(o) /\ Received(o)
    BY <2>3 DEF IInv, ProductionGate, Stored, Left, KanbanVisible
  <2>5. /\ request'[h].order = o
        /\ Left(o)' /\ Received(o)'
    BY <1>1, <2>1, <2>2, <2>4 DEF KanbanRead, Left, Received
  <2>6. Decided(h)'
    BY <2>1, <2>2, <2>3, <2>5 DEF Decided, Free, Creating, Reissuing, Expiring, Cancelling,
      Confirming, Answering, Moving
  <2> QED BY <1>1, <2>1, <2>4, <2>6, AcceptStep DEF KanbanRead
<1>2. CASE KanbanWrite(h)
  <2> DEFINE o == request[h].order
  <2>1. /\ o \in Orders /\ Left(o) /\ Received(o)
        /\ request[h].to \in KanbanVisible \union {"ENTREGUE"}
    BY <1>2 DEF IInv, Decided, Moving, KanbanWrite
  <2>2. Stored(o) /\ WritePayment(o, "none")
    BY <1>2, <2>1 DEF Left, Stored, KanbanWrite, WritePayment
  <2>3. Grows /\ Rows'
    BY <1>2, <2>1, <2>2, WriteRows DEF IInv, Rows, KanbanWrite
  <2> QED BY <1>2, <2>2, <2>3, ReturnStep DEF KanbanWrite, WriteOrder, Stored, IInv, TypeOK
<1> QED BY <1>1, <1>2 DEF Kanban

\* A request that fails leaves nothing to decide, and a restart drops them all.
LEMMA FailureStep ==
    ASSUME IInv, TypeOK', Restart \/ \E h \in Handlers : Throw(h)
    PROVE  IInv'
<1>1. UNCHANGED <<status, payment, owner, events>>
  BY DEF Restart, Throw
<1>2. Grows /\ Rows'
  BY <1>1, LeaveRows DEF IInv, Rows
<1>3. CASE Restart
  <2>1. \A h \in Handlers : request'[h] = Idle
    BY <1>3 DEF Restart
  <2>2. \A h \in Handlers : Decided(h)'
    BY <2>1 DEF Decided, Free, Creating, Reissuing, Expiring, Cancelling, Confirming, Answering,
      Moving, Idle
  <2>3. CreatesAlone'
    BY <2>1 DEF CreatesAlone, Idle
  <2> QED BY <1>2, <2>2, <2>3 DEF IInv, Rows
<1>4. ASSUME NEW h \in Handlers, Throw(h) PROVE IInv'
  BY <1>1, <1>2, <1>4, ReturnStep DEF Throw, Stored
<1> QED BY <1>3, <1>4

\* The customer, the gateway and the clock only add facts.
LEMMA EnvironmentStep ==
    ASSUME IInv, TypeOK', Environment
    PROVE  IInv'
<1>1. UNCHANGED <<status, owner, request>>
  BY DEF Environment, ChargePaid, ChargeExpired, ChargeRefunded, CodeLapses
<1>2. Grows /\ Rows'
  <2>1. ASSUME NEW c \in Charges, ChargePaid(c) \/ ChargeExpired(c) \/ ChargeRefunded(c)
        PROVE  Grows /\ Rows'
    <3>1. \A d \in Charges, e \in Events : events[d][e] # "none" => events'[d][e] # "none"
      BY <2>1 DEF ChargePaid, ChargeExpired, ChargeRefunded, IInv, TypeOK
    <3>2. owner[c] # NoOrder
      BY <2>1 DEF ChargePaid, ChargeExpired, ChargeRefunded, Refundable, Events, IInv, EventsOwned
    <3>3. \A d \in Charges : owner[d] = NoOrder => events'[d] = events[d]
      BY <2>1, <3>2 DEF ChargePaid, ChargeExpired, ChargeRefunded, IInv, TypeOK
    <3> QED BY <1>1, <2>1, <3>1, <3>3, LeaveRows
          DEF IInv, Rows, ChargePaid, ChargeExpired, ChargeRefunded
  <2>2. ASSUME NEW o \in Orders, CodeLapses(o) PROVE Grows /\ Rows'
    <3>1. /\ \A q \in Orders : /\ payment'[q].status = payment[q].status
                               /\ payment'[q].ref = payment[q].ref
                               /\ q # o => payment'[q] = payment[q]
          /\ Stored(o) /\ UNCHANGED events
      BY <2>2 DEF CodeLapses, IInv, TypeOK, Payment
    <3>2. Grows
      BY <1>1, <3>1 DEF Grows, Stored, Left
    <3>3. RowsOwned'
      BY <1>1, <3>1 DEF IInv, RowsOwned, Stored
    <3>4. ProductionGate' /\ PaidOrderMoved' /\ RefundIsReal'
      BY <1>1, <3>1 DEF IInv, ProductionGate, PaidOrderMoved, RefundIsReal, Received
    <3>5. EventsOwned'
      BY <1>1, <3>1 DEF IInv, EventsOwned
    <3> QED BY <3>2, <3>3, <3>4, <3>5 DEF Rows
  <2> QED BY <2>1, <2>2 DEF Environment
<1>3. \A h \in Handlers : Decided(h)'
  BY <1>1, <1>2, WaitingDecided DEF IInv, Decided, Creating, Stored
<1>4. CreatesAlone'
  BY <1>1 DEF IInv, CreatesAlone
<1> QED BY <1>2, <1>3, <1>4 DEF IInv, Rows

-----------------------------------------------------------------------------
(* The theorems *)

LEMMA InitIInv == Init => IInv
<1> SUFFICES ASSUME Init PROVE IInv
  OBVIOUS
<1>1. TypeOK
  BY IdleType DEF Init, TypeOK, NoPayment, Payment, Delivery
<1>2. \A h \in Handlers : Decided(h)
  BY DEF Init, Decided, Free, Creating, Reissuing, Expiring, Cancelling, Confirming, Answering,
    Moving, Idle
<1>3. RowsOwned /\ EventsOwned /\ CreatesAlone
  BY DEF Init, RowsOwned, EventsOwned, CreatesAlone, Stored, Idle
<1>4. ProductionGate /\ PaidOrderMoved /\ RefundIsReal
  BY DEF Init, ProductionGate, PaidOrderMoved, RefundIsReal, KanbanVisible, NoPayment
<1> QED BY <1>1, <1>2, <1>3, <1>4 DEF IInv

LEMMA StepIInv == IInv /\ [Next]_vars => IInv'
<1> SUFFICES ASSUME IInv, [Next]_vars PROVE IInv'
  OBVIOUS
<1>1. TypeOK'
  BY TypeStep DEF IInv
<1>2. CASE UNCHANGED vars
  BY <1>2 DEF vars, IInv, TypeOK, RowsOwned, EventsOwned, CreatesAlone, ProductionGate, PaidOrderMoved,
    RefundIsReal, Decided, Free, Creating, Reissuing, Expiring, Cancelling, Confirming,
    Answering, Moving, Stored, Received, Refunded, Left
<1>3. ASSUME NEW h \in Handlers, Webhook(h) PROVE IInv'
  BY <1>1, <1>3, WebhookReadStep, WebhookIgnoredStep, WebhookStep DEF Webhook
<1>4. CASE Api
  BY <1>1, <1>3, <1>4, CreateStep, RegenerateStep, SyncStep, CancelStep, KanbanStep, FailureStep
  DEF Api
<1>5. CASE Restart \/ Environment
  BY <1>1, <1>5, FailureStep, EnvironmentStep
<1> QED BY <1>2, <1>4, <1>5 DEF Next

THEOREM Invariance == Spec => []IInv
BY InitIInv, StepIInv, PTL DEF Spec

\* RN03 for any number of orders, charges and overlapping requests.
THEOREM ProductionGateHolds == Spec => []ProductionGate
<1>1. IInv => ProductionGate
  BY DEF IInv
<1> QED BY <1>1, Invariance, PTL

\* No order is left waiting for a payment the API has already recorded.
THEOREM PaidOrderMovedHolds == Spec => []PaidOrderMoved
<1>1. IInv => PaidOrderMoved
  BY DEF IInv
<1> QED BY <1>1, Invariance, PTL

\* The API records no refund that the gateway has not made.
THEOREM RefundIsRealHolds == Spec => []RefundIsReal
<1>1. IInv => RefundIsReal
  BY DEF IInv
<1> QED BY <1>1, Invariance, PTL

\* A webhook concerns one row, for any two orders.
THEOREM WebhookFindsOneRowHolds == Spec => []WebhookFindsOneRow
<1>1. IInv => WebhookFindsOneRow
  BY DEF IInv, RowsOwned, WebhookFindsOneRow, Finds
<1> QED BY <1>1, Invariance, PTL

\* Who changes the status of an order, and how.
LEMMA StatusStep ==
    ASSUME IInv, Next, NEW o \in Orders, status'[o] # status[o]
    PROVE  \/ status[o] = "none" /\ status'[o] = "AGUARDANDO_PAGAMENTO"
           \/ /\ status[o] # "none"
              /\ status'[o] = "CANCELADO" /\ payment'[o].status \in {"EXPIRADO", "ESTORNADO"}
           \/ /\ status[o] # "none" /\ Received(o)
              /\ status'[o] = "EM_ESPERA" /\ payment'[o].status = "PAGO"
           \/ Left(o) /\ Received(o) /\ status'[o] \in KanbanVisible \union {"ENTREGUE"}
<1>1. PICK h \in Handlers :
        CreateCommit(h) \/ CancelCommit(h) \/ WebhookPaid(h) \/ WebhookRefunded(h)
          \/ KanbanWrite(h)
  <2>1. CASE Restart \/ Environment
    BY <2>1 DEF Restart, Environment, ChargePaid, ChargeExpired, ChargeRefunded, CodeLapses
  <2>2. CASE Api
    BY <2>2 DEF Api, Create, Regenerate, Sync, Cancel, Webhook, Kanban, Throw, CreateCharge,
      RegenerateRead, RegenerateCharge, RegenerateStore, SyncRead, SyncWrite, CancelRead,
      CancelRefund, WebhookRead, WebhookIgnored, WebhookExpired, WebhookAnswer, KanbanRead
  <2> QED BY <2>1, <2>2 DEF Next
<1> DEFINE q == request[h].order
<1>2. CASE CreateCommit(h)
  <2>1. WriteOrder(q, "AGUARDANDO_PAGAMENTO") /\ q \in Orders /\ ~Stored(q)
    BY <1>2 DEF CreateCommit, IInv, Decided, Creating
  <2> QED BY <2>1 DEF WriteOrder, Stored, IInv, TypeOK
<1>3. CASE CancelCommit(h) \/ WebhookRefunded(h)
  <2>1. /\ WriteOrder(q, "CANCELADO") /\ WritePayment(q, request[h].pay)
        /\ q \in Orders /\ Stored(q) /\ request[h].pay \in {"EXPIRADO", "ESTORNADO"}
    BY <1>3 DEF CancelCommit, WebhookRefunded, IInv, Decided, Cancelling
  <2>2. o = q
    BY <2>1 DEF WriteOrder, IInv, TypeOK
  <2> QED BY <2>1, <2>2 DEF WriteOrder, WritePayment, Stored, IInv, TypeOK, Payment
<1>4. CASE WebhookPaid(h)
  <2>1. /\ q \in Orders /\ Stored(q) /\ Received(q)
        /\ WriteOrder(q, request[h].to) /\ WritePayment(q, "PAGO")
        /\ request[h].to \in {"EM_ESPERA", "none"}
    BY <1>4 DEF WebhookPaid, IInv, Decided, Confirming
  <2>2. o = q /\ status'[o] = "EM_ESPERA"
    BY <2>1 DEF WriteOrder, IInv, TypeOK
  <2> QED BY <2>1, <2>2 DEF WritePayment, Stored, IInv, TypeOK, Payment
<1>5. CASE KanbanWrite(h)
  <2>1. /\ q \in Orders /\ Left(q) /\ Received(q) /\ WriteOrder(q, request[h].to)
        /\ request[h].to \in KanbanVisible \union {"ENTREGUE"}
    BY <1>5 DEF KanbanWrite, IInv, Decided, Moving
  <2>2. o = q /\ status'[o] = request[h].to
    BY <2>1 DEF WriteOrder, IInv, TypeOK
  <2> QED BY <2>1, <2>2
<1> QED BY <1>1, <1>2, <1>3, <1>4, <1>5

\* An order stops waiting once, with the reason in the same commit, whichever
\* requests overlap.
THEOREM AwaitingEndsOnceHolds == Spec => AwaitingEndsOnce
<1>1. IInv /\ [Next]_vars => [\A o \in Orders : EndsAwaiting(o)]_vars
  <2> SUFFICES ASSUME IInv, Next, NEW o \in Orders PROVE EndsAwaiting(o)
    OBVIOUS
  <2>1. CASE status'[o] = status[o]
    BY <2>1 DEF EndsAwaiting
  <2>2. CASE status'[o] # status[o]
    BY <2>2, StatusStep DEF EndsAwaiting, Left, KanbanVisible
  <2> QED BY <2>1, <2>2
<1> QED BY <1>1, Invariance, PTL DEF Spec, AwaitingEndsOnce

-----------------------------------------------------------------------------
(* OrderPayments implements PaymentGate. *)

\* Money arrives with one event of the gateway, for one stored order.
LEMMA MoneyStep ==
    ASSUME IInv, Next
    PROVE  \/ \A o \in Orders : Received(o)' <=> Received(o)
           \/ /\ UNCHANGED status
              /\ \E o \in Orders :
                    /\ Stored(o)
                    /\ Received(o)'
                    /\ \A q \in Orders \ {o} : Received(q)' <=> Received(q)
<1>1. ASSUME NEW c \in Charges, ChargePaid(c)
      PROVE  /\ UNCHANGED status
             /\ \E o \in Orders :
                   /\ Stored(o)
                   /\ Received(o)'
                   /\ \A q \in Orders \ {o} : Received(q)' <=> Received(q)
  <2>1. owner[c] \in Orders /\ Stored(owner[c]) /\ UNCHANGED <<status, owner>>
    BY <1>1 DEF ChargePaid, IInv, TypeOK
  <2>2. events'[c]["PAID"] # "none" /\ \A d \in Charges \ {c} : events'[d] = events[d]
    BY <1>1 DEF ChargePaid, IInv, TypeOK, Events
  <2>3. PICK o \in Orders : owner[c] = o
    BY <2>1
  <2>4. Received(o)'
    BY <2>1, <2>2, <2>3 DEF Received
  <2>5. \A q \in Orders \ {o} : Received(q)' <=> Received(q)
    BY <2>1, <2>2, <2>3 DEF Received
  <2> QED BY <2>1, <2>3, <2>4, <2>5
<1>2. ASSUME ~ \E c \in Charges : ChargePaid(c)
      PROVE  /\ \A c \in Charges : owner[c] # NoOrder => owner'[c] = owner[c]
             /\ \A c \in Charges : events'[c]["PAID"] = "none" <=> events[c]["PAID"] = "none"
  <2>1. ASSUME NEW c \in Charges, NEW e \in Events, NEW d \in Delivery \ {"none"},
               events[c][e] # "none" \/ e # "PAID",
               events' = [events EXCEPT ![c][e] = d]
        PROVE  \A b \in Charges : events'[b]["PAID"] = "none" <=> events[b]["PAID"] = "none"
    BY <2>1 DEF IInv, TypeOK, Events
  <2>2. ASSUME NEW h \in Handlers, CancelRefund(h) \/ WebhookAnswer(h)
        PROVE  /\ UNCHANGED owner
               /\ \A b \in Charges : events'[b]["PAID"] = "none" <=> events[b]["PAID"] = "none"
    <3>1. CASE CancelRefund(h)
      <4>1. request[h].charge \in Charges
        BY <3>1 DEF CancelRefund, IInv, Decided, Cancelling
      <4> QED BY <2>1, <3>1, <4>1 DEF CancelRefund, Events, Delivery
    <3>2. CASE WebhookAnswer(h)
      <4>1. /\ request[h].charge \in Charges /\ request[h].event \in Events
            /\ events[request[h].charge][request[h].event] # "none"
        BY <3>2 DEF WebhookAnswer, IInv, Decided, Answering
      <4> QED BY <2>1, <3>2, <4>1 DEF WebhookAnswer, Delivery
    <3> QED BY <2>2, <3>1, <3>2
  <2>3. ASSUME NEW h \in Handlers, NEW c \in Charges, NEW e \in Events, WebhookIgnored(h, c, e)
        PROVE  /\ UNCHANGED owner
               /\ \A b \in Charges : events'[b]["PAID"] = "none" <=> events[b]["PAID"] = "none"
    BY <2>1, <2>3 DEF WebhookIgnored, Delivery
  <2>4. ASSUME NEW h \in Handlers, NEW c \in Charges,
               RegenerateCharge(h, c) \/ \E o \in Orders : CreateCharge(h, o, c)
        PROVE  /\ \A b \in Charges : owner[b] # NoOrder => owner'[b] = owner[b]
               /\ UNCHANGED events
    BY <2>4 DEF RegenerateCharge, CreateCharge, IssueCharge, IInv, TypeOK
  <2>5. ASSUME NEW c \in Charges, ChargeExpired(c) \/ ChargeRefunded(c)
        PROVE  /\ UNCHANGED owner
               /\ \A b \in Charges : events'[b]["PAID"] = "none" <=> events[b]["PAID"] = "none"
    BY <2>1, <2>5 DEF ChargeExpired, ChargeRefunded, Events, Delivery
  <2>6. CASE Restart \/ Environment
    BY <1>2, <2>5, <2>6 DEF Restart, Environment, CodeLapses
  <2>7. CASE Api
    BY <2>2, <2>3, <2>4, <2>7 DEF Api, Create, Regenerate, Sync, Cancel, Webhook, Kanban, Throw,
      CreateCommit, RegenerateRead, RegenerateStore, SyncRead, SyncWrite, CancelRead,
      CancelCommit, WebhookRead, WebhookPaid, WebhookExpired, WebhookRefunded, KanbanRead,
      KanbanWrite
  <2> QED BY <2>6, <2>7 DEF Next
<1>3. ASSUME ~ \E c \in Charges : ChargePaid(c)
      PROVE  \A o \in Orders : Received(o)' <=> Received(o)
  <2>1. \A c \in Charges : owner[c] = NoOrder => events[c]["PAID"] = "none"
    BY DEF IInv, EventsOwned, Events
  <2> QED BY <1>2, <1>3, <2>1, ValuesAssumption DEF Received
<1> QED BY <1>1, <1>3

\* A commit changes the status of one order.
LEMMA OneStatus ==
    ASSUME IInv, Next, NEW o \in Orders, status'[o] # status[o]
    PROVE  \A q \in Orders \ {o} : status'[q] = status[q]
<1>1. PICK p, s : WriteOrder(p, s)
  <2>1. CASE Restart \/ Environment
    BY <2>1 DEF Restart, Environment, ChargePaid, ChargeExpired, ChargeRefunded, CodeLapses
  <2>2. CASE Api
    BY <2>2 DEF Api, Create, Regenerate, Sync, Cancel, Webhook, Kanban, Throw, CreateCharge,
      CreateCommit, RegenerateRead, RegenerateCharge, RegenerateStore, SyncRead, SyncWrite,
      CancelRead, CancelRefund, CancelCommit, WebhookRead, WebhookIgnored, WebhookPaid,
      WebhookExpired, WebhookRefunded, WebhookAnswer, KanbanRead, KanbanWrite
  <2> QED BY <2>1, <2>2 DEF Next
<1> QED BY <1>1 DEF WriteOrder, IInv, TypeOK

LEMMA GateStep ==
    ASSUME IInv, [Next]_vars
    PROVE  [Gate!Next]_<<[o \in Orders |-> Phase(o)], {o \in Orders : Received(o)}>>
<1> DEFINE phase == [o \in Orders |-> Phase(o)]
           received == {o \in Orders : Received(o)}
<1>1. \A o \in Orders : /\ status[o] \in OrderStatus \union {"none"}
                        /\ status'[o] \in OrderStatus \union {"none"}
  BY TypeStep DEF IInv, TypeOK
<1>2. CASE UNCHANGED vars
  <2>1. phase' = phase /\ received' = received
    BY <1>2 DEF vars, Phase, Received
  <2> QED BY <2>1
<1>3. CASE Next /\ \A o \in Orders : status'[o] = status[o]
  <2>1. phase' = phase
    BY <1>3 DEF Phase
  <2>2. CASE \A o \in Orders : Received(o)' <=> Received(o)
    <3>1. received' = received
      BY <2>2
    <3> QED BY <2>1, <3>1
  <2>3. ASSUME NEW o \in Orders, Stored(o), Received(o)',
               \A q \in Orders \ {o} : Received(q)' <=> Received(q)
        PROVE  Gate!Receive(o)
    <3>1. received' = received \union {o}
      BY <2>3
    <3>2. phase[o] # "none"
      BY <1>1, <2>3 DEF Phase, Stored, OrderStatus, KanbanVisible
    <3> QED BY <2>1, <3>1, <3>2 DEF Gate!Receive
  <2> QED BY <1>3, <2>2, <2>3, MoneyStep DEF Gate!Next
<1>4. ASSUME Next, NEW o \in Orders, status'[o] # status[o]
      PROVE  Gate!Next \/ (phase' = phase /\ received' = received)
  <2>1. \A q \in Orders : Received(q)' <=> Received(q)
    BY <1>4, MoneyStep
  <2>2. received' = received
    BY <2>1
  <2>3. \A q \in Orders \ {o} : Phase(q)' = Phase(q)
    BY <1>4, OneStatus DEF Phase
  <2>4. ASSUME NEW p, Phase(o)' = p PROVE Gate!Move(o, p)
    <3>1. phase' = [phase EXCEPT ![o] = p]
      BY <2>3, <2>4
    <3> QED BY <2>2, <3>1 DEF Gate!Move
  <2>5. CASE status[o] = "none" /\ status'[o] = "AGUARDANDO_PAGAMENTO"
    <3>1. phase[o] = "none" /\ Phase(o)' = "waiting"
      BY <2>5 DEF Phase
    <3> QED BY <2>4, <3>1 DEF Gate!Next, Gate!Place
  <2>6. CASE status[o] # "none" /\ status'[o] = "CANCELADO"
    <3>1. phase[o] \in {"waiting", "kitchen"} /\ Phase(o)' = "closed"
      BY <1>1, <1>4, <2>6 DEF Phase, OrderStatus, KanbanVisible
    <3> QED BY <2>4, <3>1 DEF Gate!Next, Gate!Close
  <2>7. CASE status[o] # "none" /\ Received(o) /\ status'[o] \in KanbanVisible \union {"ENTREGUE"}
    <3>1. phase[o] \in {"waiting", "closed", "kitchen"} /\ Phase(o)' = "kitchen" /\ o \in received
      BY <1>1, <2>7 DEF Phase, OrderStatus, KanbanVisible
    <3>2. CASE phase[o] = "kitchen"
      <4>1. phase' = phase
        BY <2>3, <3>1, <3>2
      <4> QED BY <2>2, <4>1
    <3>3. CASE phase[o] \in {"waiting", "closed"}
      BY <2>4, <3>1, <3>3 DEF Gate!Next, Gate!Prepare
    <3> QED BY <3>1, <3>2, <3>3
  <2> QED BY <1>4, <2>5, <2>6, <2>7, StatusStep DEF Left, KanbanVisible
<1> QED BY <1>2, <1>3, <1>4

\* Whatever overlaps, orders behave as PaymentGate says: nothing enters the
\* kitchen before money was received for it, nothing goes back to waiting.
THEOREM ImplementsGateHolds == Spec => ImplementsGate
<1>1. Init => Gate!Init
  BY DEF Init, Gate!Init, Phase, Received, Events
<1>2. IInv /\ [Next]_vars
        => [Gate!Next]_<<[o \in Orders |-> Phase(o)], {o \in Orders : Received(o)}>>
  BY GateStep
<1> QED BY <1>1, <1>2, Invariance, PTL DEF Spec, ImplementsGate, Gate!Spec

-----------------------------------------------------------------------------
(* Requests that do not overlap *)

\* No two requests under way are about one order, as with a single handler.
OneAtATime ==
    \A h1, h2 \in Handlers :
        h1 # h2 /\ request[h1].order = request[h2].order => request[h1].order = NoOrder

\* What the documents say of a row.
RowKept(o) ==
    /\ status[o] \in KanbanVisible \union {"ENTREGUE"} => payment[o].status = "PAGO"
    /\ status[o] = "CANCELADO" => payment[o].status # "PENDENTE"

\* What handler h read is still so when it writes.
Fresh(h) ==
    LET o == request[h].order IN
    /\ request[h].at \in {"charge", "reissue"} => status[o] = "AGUARDANDO_PAGAMENTO"
    /\ request[h].at \in {"expire", "overdue"} => payment[o].status = "PENDENTE"
    /\ request[h].at \in {"refund", "cancel"} => status[o] \in {"AGUARDANDO_PAGAMENTO", "EM_ESPERA"}
    /\ request[h].at = "paid" =>
        request[h].to = IF status[o] = "AGUARDANDO_PAGAMENTO" THEN "EM_ESPERA" ELSE "none"
    /\ request[h].at = "move" => <<status[o], request[h].to>> \in KanbanTransitions

SInv == (\A o \in Orders : RowKept(o)) /\ \A h \in Handlers : Fresh(h)

SameRow(o) == status'[o] = status[o] /\ payment'[o].status = payment[o].status

\* What a commit makes of the row of its order.
Effect(o) ==
    \/ status[o] = "none" /\ status'[o] = "AGUARDANDO_PAGAMENTO" /\ payment'[o].status = "PENDENTE"
    \/ status[o] = "AGUARDANDO_PAGAMENTO" /\ status'[o] = status[o] /\ payment'[o].status = "PENDENTE"
    \/ payment[o].status = "PENDENTE" /\ status'[o] = status[o] /\ payment'[o].status = "EXPIRADO"
    \/ status[o] # "none" /\ status'[o] = "CANCELADO" /\ payment'[o].status \in {"EXPIRADO", "ESTORNADO"}
    \/ status[o] = "AGUARDANDO_PAGAMENTO" /\ status'[o] = "EM_ESPERA" /\ payment'[o].status = "PAGO"
    \/ Left(o) /\ status'[o] = status[o] /\ payment'[o].status = "PAGO"
    \/ <<status[o], status'[o]>> \in KanbanTransitions /\ payment'[o].status = payment[o].status

\* A step of handler h changes the row of its order, or none, and what it
\* decides on is what it reads.
Works(h) ==
    /\ \A g \in Handlers \ {h} : request'[g] = request[g]
    /\ Fresh(h)'
    /\ \/ \A o \in Orders : SameRow(o)
       \/ /\ request[h].order \in Orders
          /\ Effect(request[h].order)
          /\ \A o \in Orders \ {request[h].order} : SameRow(o)

\* A write by id, seen row by row.
LEMMA RowWritten ==
    ASSUME TypeOK, NEW o \in Orders, NEW s, NEW p, WriteOrder(o, s), WritePayment(o, p)
    PROVE  \A q \in Orders :
             /\ status'[q] = IF q = o /\ s # "none" THEN s ELSE status[q]
             /\ payment'[q].status = IF q = o /\ p # "none" THEN p ELSE payment[q].status
BY DEF WriteOrder, WritePayment, TypeOK, Payment

\* Storing a charge, seen row by row.
LEMMA RowStored ==
    ASSUME TypeOK, NEW o \in Orders, NEW c, StoreCharge(o, c)
    PROVE  \A q \in Orders : payment'[q].status = IF q = o THEN "PENDENTE" ELSE payment[q].status
BY DEF StoreCharge, TypeOK

\* A handler that returns has nothing left to write.
LEMMA ReturnFresh ==
    ASSUME TypeOK, NEW h \in Handlers, Return(h)
    PROVE  Fresh(h)' /\ \A g \in Handlers \ {h} : request'[g] = request[g]
BY DEF TypeOK, Return, Fresh, Idle

\* A webhook goes on to its answer.
LEMMA AnswerFresh ==
    ASSUME TypeOK, NEW h \in Handlers, Goto(h, "answer")
    PROVE  Fresh(h)' /\ \A g \in Handlers \ {h} : request'[g] = request[g]
<1>1. request'[h].at = "answer" /\ \A g \in Handlers \ {h} : request'[g] = request[g]
  BY DEF TypeOK, Goto, Request
<1> QED BY <1>1 DEF Fresh

\* A request that is accepted finds the rows as they are.
LEMMA AcceptFresh ==
    ASSUME TypeOK, NEW h \in Handlers, NEW r, Accept(h, r), UNCHANGED <<status, payment>>
    PROVE  /\ request'[h] = r
           /\ \A g \in Handlers \ {h} : request'[g] = request[g]
           /\ \A o \in Orders : SameRow(o)
BY DEF TypeOK, Accept, SameRow

\* Every handler works on what it read, while nobody else works on its order.
LEMMA HandlerWorks ==
    ASSUME IInv, TypeOK', SInv, NEW h \in Handlers,
           Create(h) \/ Regenerate(h) \/ Sync(h) \/ Cancel(h) \/ Webhook(h) \/ Kanban(h)
               \/ Throw(h)
    PROVE  Works(h)
<1> DEFINE o == request[h].order
<1>0. TypeOK /\ Decided(h) /\ Fresh(h) /\ \A q \in Orders : RowKept(q)
  BY DEF IInv, SInv
<1>1. CASE CreateCommit(h)
  <2>1. o \in Orders /\ ~Stored(o)
    BY <1>0, <1>1 DEF Decided, Creating, CreateCommit
  <2>2. \A q \in Orders : payment'[q].status = IF q = o THEN "PENDENTE" ELSE payment[q].status
    BY <1>0, <1>1, <2>1, RowStored DEF CreateCommit
  <2>3. \A q \in Orders : status'[q] = IF q = o THEN "AGUARDANDO_PAGAMENTO" ELSE status[q]
    BY <1>0, <1>1, <2>1 DEF CreateCommit, WriteOrder, TypeOK
  <2>4. Effect(o) /\ \A q \in Orders \ {o} : SameRow(q)
    BY <2>1, <2>2, <2>3 DEF Effect, SameRow, Stored
  <2> QED BY <1>0, <1>1, <2>1, <2>4, ReturnFresh DEF CreateCommit, Works
<1>2. ASSUME NEW q \in Orders, NEW c \in Charges, CreateCharge(h, q, c) PROVE Works(h)
  <2> DEFINE r == [Idle EXCEPT !.at = "create", !.order = q, !.charge = c]
  <2>1. Accept(h, r) /\ r.at = "create" /\ UNCHANGED <<status, payment>>
    BY <1>2 DEF CreateCharge, Idle
  <2> HIDE DEF r
  <2> QED BY <1>0, <2>1, AcceptFresh DEF Works, Fresh
<1>3. ASSUME NEW q \in Orders, RegenerateRead(h, q) PROVE Works(h)
  <2> DEFINE r == [Idle EXCEPT !.at = "charge", !.order = q]
  <2>1. /\ Accept(h, r) /\ r.at = "charge" /\ r.order = q
        /\ status[q] = "AGUARDANDO_PAGAMENTO" /\ UNCHANGED <<status, payment>>
    BY <1>3 DEF RegenerateRead, Idle
  <2> HIDE DEF r
  <2> QED BY <1>0, <2>1, AcceptFresh DEF Works, Fresh
<1>4. ASSUME NEW c \in Charges, RegenerateCharge(h, c) PROVE Works(h)
  <2>1. request'[h].at = "reissue" /\ request'[h].order = o
        /\ \A g \in Handlers \ {h} : request'[g] = request[g]
    BY <1>0, <1>4 DEF RegenerateCharge, TypeOK, Request
  <2> QED BY <1>0, <1>4, <2>1 DEF RegenerateCharge, Works, Fresh, SameRow
<1>5. CASE RegenerateStore(h)
  <2>1. o \in Orders /\ status[o] = "AGUARDANDO_PAGAMENTO"
    BY <1>0, <1>5 DEF Decided, Reissuing, RegenerateStore, Fresh
  <2>2. \A q \in Orders : payment'[q].status = IF q = o THEN "PENDENTE" ELSE payment[q].status
    BY <1>0, <1>5, <2>1, RowStored DEF RegenerateStore
  <2>3. Effect(o) /\ \A q \in Orders \ {o} : SameRow(q)
    BY <1>5, <2>1, <2>2 DEF Effect, SameRow, RegenerateStore
  <2> QED BY <1>0, <1>5, <2>1, <2>3, ReturnFresh DEF RegenerateStore, Works
<1>6. ASSUME NEW q \in Orders, SyncRead(h, q) PROVE Works(h)
  <2> DEFINE r == [Idle EXCEPT !.at = "expire", !.order = q, !.pay = "EXPIRADO"]
  <2>1. /\ Accept(h, r) /\ r.at = "expire" /\ r.order = q
        /\ payment[q].status = "PENDENTE" /\ UNCHANGED <<status, payment>>
    BY <1>6 DEF SyncRead, Idle
  <2> HIDE DEF r
  <2> QED BY <1>0, <2>1, AcceptFresh DEF Works, Fresh
<1>7. ASSUME SyncWrite(h) \/ WebhookExpired(h)
      PROVE  /\ o \in Orders /\ Effect(o) /\ \A q \in Orders \ {o} : SameRow(q)
  <2>1. o \in Orders /\ request[h].pay = "EXPIRADO" /\ payment[o].status = "PENDENTE"
    BY <1>0, <1>7 DEF Decided, Expiring, SyncWrite, WebhookExpired, Fresh
  <2>2. WriteOrder(o, "none") /\ WritePayment(o, "EXPIRADO")
    BY <1>7, <2>1 DEF SyncWrite, WebhookExpired, WriteOrder
  <2> QED BY <1>0, <2>1, <2>2, RowWritten DEF Effect, SameRow
<1>8. ASSUME NEW q \in Orders, NEW isAdmin \in BOOLEAN, CancelRead(h, q, isAdmin) PROVE Works(h)
  <2> DEFINE r == [Idle EXCEPT
                     !.at = IF payment[q].status = "PAGO" THEN "refund" ELSE "cancel",
                     !.order = q,
                     !.charge = payment[q].ref,
                     !.to = "CANCELADO",
                     !.pay = IF payment[q].status = "PAGO" THEN "ESTORNADO" ELSE "EXPIRADO"]
  <2>1. Accept(h, r) /\ r.order = q /\ r.at \in {"refund", "cancel"}
    BY <1>8 DEF CancelRead, Idle
  <2>2. status[q] \in {"AGUARDANDO_PAGAMENTO", "EM_ESPERA"} /\ UNCHANGED <<status, payment>>
    BY <1>8 DEF CancelRead, CanCancel
  <2> HIDE DEF r
  <2> QED BY <1>0, <2>1, <2>2, AcceptFresh DEF Works, Fresh
<1>9. CASE CancelRefund(h)
  <2>1. CASE Goto(h, "cancel")
    <3>1. request'[h].at = "cancel" /\ request'[h].order = o
          /\ \A g \in Handlers \ {h} : request'[g] = request[g]
      BY <1>0, <2>1 DEF Goto, TypeOK, Request
    <3> QED BY <1>0, <1>9, <3>1 DEF CancelRefund, Works, Fresh, SameRow
  <2>2. CASE Return(h)
    BY <1>0, <1>9, <2>2, ReturnFresh DEF CancelRefund, Works, SameRow
  <2> QED BY <1>9, <2>1, <2>2 DEF CancelRefund
<1>10. ASSUME CancelCommit(h) \/ WebhookRefunded(h)
       PROVE  /\ o \in Orders /\ Effect(o) /\ \A q \in Orders \ {o} : SameRow(q)
  <2>1. /\ o \in Orders /\ Stored(o)
        /\ WriteOrder(o, "CANCELADO") /\ WritePayment(o, request[h].pay)
        /\ request[h].pay \in {"EXPIRADO", "ESTORNADO"}
    BY <1>0, <1>10 DEF Decided, Cancelling, CancelCommit, WebhookRefunded
  <2> QED BY <1>0, <2>1, RowWritten DEF Effect, SameRow, Stored
<1>11. ASSUME NEW q \in Orders, NEW c \in Charges, NEW e \in Events, WebhookRead(h, q, c, e)
       PROVE  Works(h)
  <2> DEFINE r == [at |-> Plan(q, e).at, order |-> q, charge |-> c, event |-> e,
                   to |-> Plan(q, e).to, pay |-> Plan(q, e).pay]
  <2>1. Accept(h, r) /\ r.order = q /\ r.at = Plan(q, e).at /\ r.to = Plan(q, e).to
    BY <1>11 DEF WebhookRead
  <2> HIDE DEF r
  <2>2. /\ Plan(q, e).at \in {"answer", "paid", "overdue", "refunded"}
        /\ Plan(q, e).at = "overdue" => payment[q].status = "PENDENTE"
        /\ Plan(q, e).at = "paid" =>
             Plan(q, e).to = IF status[q] = "AGUARDANDO_PAGAMENTO" THEN "EM_ESPERA" ELSE "none"
    <3>1. CASE e = "PAID"
      BY <3>1 DEF Plan, PaidPlan
    <3>2. CASE e = "EXPIRED"
      BY <3>2 DEF Plan, ExpiredPlan
    <3>3. CASE e = "REFUNDED"
      BY <3>3 DEF Plan, RefundedPlan
    <3> QED BY <3>1, <3>2, <3>3 DEF Events
  <2>3. UNCHANGED <<status, payment>>
    BY <1>11 DEF WebhookRead
  <2> QED BY <1>0, <2>1, <2>2, <2>3, AcceptFresh DEF Works, Fresh
<1>12. CASE WebhookPaid(h)
  <2>1. /\ o \in Orders /\ Stored(o) /\ request[h].pay = "PAGO"
        /\ WriteOrder(o, request[h].to) /\ WritePayment(o, "PAGO")
        /\ request[h].to = IF status[o] = "AGUARDANDO_PAGAMENTO" THEN "EM_ESPERA" ELSE "none"
    BY <1>0, <1>12 DEF Decided, Confirming, WebhookPaid, Fresh
  <2>2. Effect(o) /\ \A q \in Orders \ {o} : SameRow(q)
    BY <1>0, <2>1, RowWritten DEF Effect, SameRow, Stored, Left
  <2> QED BY <1>0, <1>12, <2>1, <2>2, AnswerFresh DEF WebhookPaid, Works
<1>13. CASE WebhookAnswer(h)
  BY <1>0, <1>13, ReturnFresh DEF WebhookAnswer, Works, SameRow
<1>14. ASSUME NEW c \in Charges, NEW e \in Events, WebhookIgnored(h, c, e) PROVE Works(h)
  BY <1>0, <1>14 DEF WebhookIgnored, Works, SameRow, Fresh
<1>15. ASSUME NEW q \in Orders, NEW target \in OrderStatus, KanbanRead(h, q, target)
       PROVE  Works(h)
  <2> DEFINE r == [Idle EXCEPT !.at = "move", !.order = q, !.to = target]
  <2>1. /\ Accept(h, r) /\ r.at = "move" /\ r.order = q /\ r.to = target
        /\ <<status[q], target>> \in KanbanTransitions /\ UNCHANGED <<status, payment>>
    BY <1>15 DEF KanbanRead, Idle
  <2> HIDE DEF r
  <2> QED BY <1>0, <2>1, AcceptFresh DEF Works, Fresh
<1>16. CASE KanbanWrite(h)
  <2>1. /\ o \in Orders /\ <<status[o], request[h].to>> \in KanbanTransitions
        /\ WriteOrder(o, request[h].to) /\ WritePayment(o, "none")
        /\ request[h].to # "none"
    BY <1>0, <1>16 DEF Decided, Moving, KanbanWrite, Fresh, WritePayment, KanbanVisible
  <2>2. \A q \in Orders :
          /\ status'[q] = IF q = o THEN request[h].to ELSE status[q]
          /\ payment'[q].status = payment[q].status
    BY <1>0, <2>1, RowWritten
  <2>3. \A q \in Orders \ {o} : SameRow(q)
    BY <2>2 DEF SameRow
  <2>4. <<status[o], status'[o]>> \in KanbanTransitions /\ payment'[o].status = payment[o].status
    BY <2>1, <2>2
  <2>5. Effect(o)
    BY ONLY <2>4 DEF Effect
  <2> QED BY <1>0, <1>16, <2>1, <2>3, <2>5, ReturnFresh DEF KanbanWrite, Works
<1>17. CASE Throw(h)
  BY <1>0, <1>17, ReturnFresh DEF Throw, Works, SameRow
<1>18. CASE SyncWrite(h) \/ CancelCommit(h)
  BY <1>0, <1>7, <1>10, <1>18, ReturnFresh DEF SyncWrite, CancelCommit, Works
<1>19. CASE WebhookExpired(h) \/ WebhookRefunded(h)
  BY <1>0, <1>7, <1>10, <1>19, AnswerFresh DEF WebhookExpired, WebhookRefunded, Works
<1> QED
  BY <1>1, <1>2, <1>3, <1>4, <1>5, <1>6, <1>8, <1>9, <1>11, <1>12, <1>13, <1>14, <1>15, <1>16,
     <1>17, <1>18, <1>19
  DEF Create, Regenerate, Sync, Cancel, Webhook, Kanban


\* A handler keeps what it read as long as the row of its order stays.
LEMMA OthersFresh ==
    ASSUME NEW g \in Handlers, Decided(g), Fresh(g), request'[g] = request[g],
           request[g].order \in Orders => SameRow(request[g].order)
    PROVE  Fresh(g)'
BY DEF Decided, Reissuing, Expiring, Cancelling, Confirming, Moving, Fresh, SameRow

\* No commit breaks what the documents say of the row it writes.
LEMMA EffectKeeps ==
    ASSUME NEW o \in Orders, RowKept(o), Effect(o) \/ SameRow(o)
    PROVE  RowKept(o)'
BY DEF RowKept, Effect, SameRow, Left, KanbanVisible, KanbanTransitions

\* What happens outside the handlers writes no status.
LEMMA OutsideKeepsRows ==
    ASSUME TypeOK, Restart \/ Environment
    PROVE  \A o \in Orders : SameRow(o)
BY DEF TypeOK, Payment, Restart, Environment, ChargePaid, ChargeExpired, ChargeRefunded,
   CodeLapses, SameRow

LEMMA SerialStep ==
    ASSUME IInv, SInv, OneAtATime, [Next]_vars
    PROVE  SInv'
<1>0. TypeOK /\ (\A h \in Handlers : Decided(h) /\ Fresh(h)) /\ \A o \in Orders : RowKept(o)
  BY DEF IInv, SInv
<1>1. CASE UNCHANGED vars
  BY <1>1 DEF vars, SInv, RowKept, Fresh
<1>2. CASE Restart \/ Environment
  <2>1. \A o \in Orders : SameRow(o) /\ RowKept(o)'
    BY <1>0, <1>2, OutsideKeepsRows, EffectKeeps
  <2>2. ASSUME NEW g \in Handlers PROVE Fresh(g)'
    <3>1. CASE request'[g] = request[g]
      BY <1>0, <2>1, <3>1, OthersFresh
    <3>2. CASE request'[g] # request[g]
      <4>1. request'[g].at = "idle"
        BY <1>2, <3>2 DEF Restart, Environment, ChargePaid, ChargeExpired, ChargeRefunded,
          CodeLapses, Idle
      <4> QED BY <4>1 DEF Fresh
    <3> QED BY <3>1, <3>2
  <2> QED BY <2>1, <2>2 DEF SInv
<1>3. CASE Api
  <2>1. PICK h \in Handlers :
          Create(h) \/ Regenerate(h) \/ Sync(h) \/ Cancel(h) \/ Webhook(h) \/ Kanban(h)
              \/ Throw(h)
    BY <1>3 DEF Api
  <2>2. TypeOK'
    BY TypeStep DEF IInv
  <2>3. Works(h)
    BY <2>1, <2>2, HandlerWorks
  <2>4. ASSUME NEW o \in Orders PROVE RowKept(o)'
    <3>1. Effect(o) \/ SameRow(o)
      BY <2>3 DEF Works
    <3> QED BY <1>0, <3>1, EffectKeeps
  <2>5. ASSUME NEW g \in Handlers PROVE Fresh(g)'
    <3>1. CASE g = h
      BY <2>3, <3>1 DEF Works
    <3>2. CASE g # h
      <4>1. request'[g] = request[g]
        BY <2>3, <3>2 DEF Works
      <4>2. request[g].order \in Orders => SameRow(request[g].order)
        BY <2>3, <3>2, ValuesAssumption DEF Works, OneAtATime
      <4> QED BY <1>0, <4>1, <4>2, OthersFresh
    <3> QED BY <3>1, <3>2
  <2> QED BY <2>4, <2>5 DEF SInv
<1> QED BY <1>1, <1>2, <1>3 DEF Next

\* As long as requests about one order do not overlap, the rows are what the
\* documents say, and every handler still sees what it decided on.
LEMMA SerialInvariance == Spec /\ []OneAtATime => []SInv
<1>1. Init => SInv
  BY DEF Init, SInv, RowKept, Fresh, Idle, KanbanVisible
<1>2. IInv /\ SInv /\ OneAtATime /\ [Next]_vars => SInv'
  BY SerialStep
<1> QED BY <1>1, <1>2, Invariance, PTL DEF Spec

\* The kitchen only sees orders whose payment row is PAGO, while requests about
\* one order do not overlap: any number of handlers may be under way.
THEOREM KitchenOrdersArePaidSerially == Spec /\ []OneAtATime => []KitchenOrdersArePaid
<1>1. SInv => KitchenOrdersArePaid
  BY DEF SInv, RowKept, KitchenOrdersArePaid
<1> QED BY <1>1, SerialInvariance, PTL

\* A cancelled order asks its customer for nothing, under the same condition.
THEOREM CancelledAsksNothingSerially == Spec /\ []OneAtATime => []CancelledAsksNothing
<1>1. SInv => CancelledAsksNothing
  BY DEF SInv, RowKept, CancelledAsksNothing
<1> QED BY <1>1, SerialInvariance, PTL

\* Every step maps to a step of OrderLifecycle or to none.
LEMMA LifecycleStep ==
    ASSUME IInv, SInv, [Next]_vars
    PROVE  [Lifecycle!Next]_<<status, [o \in Orders |-> payment[o].status = "PAGO"]>>
<1> DEFINE paid == [o \in Orders |-> payment[o].status = "PAGO"]
<1>0. /\ TypeOK /\ TypeOK'
      /\ \A o \in Orders : RowKept(o)
      /\ \A o \in Orders : payment[o].status = "PAGO" => status[o] # "AGUARDANDO_PAGAMENTO"
  BY TypeStep DEF IInv, SInv, PaidOrderMoved
<1>1. ASSUME \A o \in Orders : SameRow(o)
      PROVE  UNCHANGED <<status, paid>>
  <2>1. status' = status
    BY <1>0, <1>1 DEF TypeOK, SameRow
  <2>2. paid' = paid
    BY <1>1 DEF SameRow
  <2> QED BY <2>1, <2>2
<1>2. ASSUME NEW o \in Orders, Effect(o), \A q \in Orders \ {o} : SameRow(q)
      PROVE  Lifecycle!Next \/ UNCHANGED <<status, paid>>
  <2>1. ASSUME NEW s, NEW p \in BOOLEAN, status'[o] = s, payment'[o].status = "PAGO" <=> p
        PROVE  Lifecycle!Become(o, s, p)
    <3>1. status' = [status EXCEPT ![o] = s]
      BY <1>0, <1>2, <2>1 DEF TypeOK, SameRow
    <3>2. paid' = [paid EXCEPT ![o] = p]
      <4>1. \A q \in Orders : paid'[q] = [paid EXCEPT ![o] = p][q]
        BY <1>2, <2>1 DEF SameRow
      <4> QED BY <4>1
    <3> QED BY <3>1, <3>2 DEF Lifecycle!Become
  <2>2. ASSUME status'[o] = status[o], payment[o].status = "PAGO" <=> payment'[o].status = "PAGO"
        PROVE  UNCHANGED <<status, paid>>
    <3>1. status' = status
      BY <1>0, <1>2, <2>2 DEF TypeOK, SameRow
    <3>2. \A q \in Orders : payment[q].status = "PAGO" <=> payment'[q].status = "PAGO"
      BY <1>2, <2>2 DEF SameRow
    <3>3. paid' = paid
      BY <3>2
    <3> QED BY <3>1, <3>3
  <2>3. CASE /\ status[o] = "none" /\ status'[o] = "AGUARDANDO_PAGAMENTO"
             /\ payment'[o].status = "PENDENTE"
    <3>1. Lifecycle!Become(o, "AGUARDANDO_PAGAMENTO", FALSE)
      BY <2>1, <2>3
    <3> QED BY <2>3, <3>1 DEF Lifecycle!Next, Lifecycle!Place
  <2>4. CASE /\ status[o] = "AGUARDANDO_PAGAMENTO" /\ status'[o] = status[o]
             /\ payment'[o].status = "PENDENTE"
    BY <1>0, <2>2, <2>4
  <2>5. CASE /\ payment[o].status = "PENDENTE" /\ status'[o] = status[o]
             /\ payment'[o].status = "EXPIRADO"
    BY <2>2, <2>5
  <2>6. CASE /\ status[o] # "none" /\ status'[o] = "CANCELADO"
             /\ payment'[o].status \in {"EXPIRADO", "ESTORNADO"}
    <3>1. Lifecycle!Become(o, "CANCELADO", FALSE)
      BY <2>1, <2>6
    <3> QED BY <2>6, <3>1 DEF Lifecycle!Next, Lifecycle!Reverse
  <2>7. CASE /\ status[o] = "AGUARDANDO_PAGAMENTO" /\ status'[o] = "EM_ESPERA"
             /\ payment'[o].status = "PAGO"
    <3>1. Lifecycle!Become(o, "EM_ESPERA", TRUE)
      BY <2>1, <2>7
    <3> QED BY <2>7, <3>1 DEF Lifecycle!Next, Lifecycle!Confirm
  <2>8. CASE Left(o) /\ status'[o] = status[o] /\ payment'[o].status = "PAGO"
    <3>1. CASE status[o] = "CANCELADO"
      <4>1. Lifecycle!Become(o, "CANCELADO", TRUE)
        BY <2>1, <2>8, <3>1
      <4> QED BY <3>1, <4>1 DEF Lifecycle!Next, Lifecycle!PayLate
    <3>2. CASE status[o] # "CANCELADO"
      <4>1. payment[o].status = "PAGO"
        BY <1>0, <2>8, <3>2 DEF TypeOK, RowKept, Left, OrderStatus, KanbanVisible
      <4> QED BY <2>2, <2>8, <4>1
    <3> QED BY <3>1, <3>2
  <2>9. CASE /\ <<status[o], status'[o]>> \in KanbanTransitions
             /\ payment'[o].status = payment[o].status
    <3>1. payment[o].status = "PAGO"
      BY <1>0, <2>9 DEF RowKept, KanbanTransitions, KanbanVisible
    <3>2. Lifecycle!Become(o, status'[o], TRUE)
      BY <2>1, <2>9, <3>1
    <3>3. /\ <<status[o], status'[o]>> \in Lifecycle!Moves
          /\ status'[o] \in {m[2] : m \in Lifecycle!Moves}
      BY <2>9 DEF KanbanTransitions, Lifecycle!Moves
    <3>4. paid[o]
      BY <3>1
    <3> QED BY <3>2, <3>3, <3>4 DEF Lifecycle!Next, Lifecycle!Work
  <2> QED BY <1>2, <2>3, <2>4, <2>5, <2>6, <2>7, <2>8, <2>9 DEF Effect
<1>3. (\A o \in Orders : SameRow(o))
      \/ \E o \in Orders : Effect(o) /\ \A q \in Orders \ {o} : SameRow(q)
  <2>1. CASE UNCHANGED vars
    BY <2>1 DEF vars, SameRow
  <2>2. CASE Restart \/ Environment
    BY <1>0, <2>2, OutsideKeepsRows
  <2>3. CASE Api
    BY <1>0, <2>3, HandlerWorks DEF Api, Works
  <2> QED BY <2>1, <2>2, <2>3 DEF Next
<1> QED BY <1>1, <1>2, <1>3

\* As long as requests about one order do not overlap, orders behave as
\* OrderLifecycle says: the kitchen works on paid orders along the columns of
\* the board, and CANCELADO is final.
THEOREM ImplementsLifecycleSerially == Spec /\ []OneAtATime => ImplementsLifecycle
<1>1. Init => Lifecycle!Init
  <2>1. ASSUME Init PROVE \A o \in Orders : payment[o].status # "PAGO"
    BY <2>1 DEF Init, NoPayment
  <2>2. Init => [o \in Orders |-> payment[o].status = "PAGO"] = [o \in Orders |-> FALSE]
    BY <2>1
  <2> QED BY <2>2 DEF Init, Lifecycle!Init
<1>2. IInv /\ SInv /\ [Next]_vars
        => [Lifecycle!Next]_<<status, [o \in Orders |-> payment[o].status = "PAGO"]>>
  BY LifecycleStep
<1> QED
  BY <1>1, <1>2, Invariance, SerialInvariance, PTL
  DEF Spec, ImplementsLifecycle, Lifecycle!Spec

\* With a single handler nothing overlaps, so OrderLifecycle is implemented
\* without further hypothesis, whatever the orders and the charges.
THEOREM ImplementsLifecycleAlone ==
    ASSUME NEW h, Handlers = {h}
    PROVE  Spec => ImplementsLifecycle
<1>1. OneAtATime
  BY DEF OneAtATime
<1> QED BY <1>1, ImplementsLifecycleSerially, PTL
=============================================================================
