----------------------------- MODULE OrderClaims -----------------------------
(***************************************************************************)
(* What the repository's documents and comments say of orders and          *)
(* payments, beyond what holds under every interleaving.  Most of it holds *)
(* as long as requests do not overlap (one handler) and fails with two;    *)
(* the last but one states such a failure by itself, with two handlers,    *)
(* and the last one does not hold with one handler either.                 *)
(***************************************************************************)
EXTENDS OrderPayments

\* With one handler, every behaviour of the code is a behaviour of
\* OrderLifecycle: CANCELADO is final, the kitchen works on paid orders along
\* the columns of the board, cancelling stops at the start of preparation.
Lifecycle == INSTANCE OrderLifecycle WITH
    stage <- status,
    paid <- [o \in Orders |-> payment[o].status = "PAGO"]

ImplementsLifecycle == Lifecycle!Spec

\* kanban.service.ts, listProductionQueue: "retorna somente pedidos pagos que
\* ingressaram na fila de producao da cozinha".
KitchenOrdersArePaid ==
    \A o \in Orders : status[o] \in KanbanVisible => payment[o].status = "PAGO"

\* A cancelled order has no payment row that still asks for money: the code
\* regeneratePixCharge issues is for orders that wait for payment.
CancelledAsksNothing ==
    \A o \in Orders : status[o] = "CANCELADO" => payment[o].status # "PENDENTE"

\* email.service.ts, sendOrderCancelledByBakeryEmail: "Caso o pagamento via PIX
\* ja tenha sido efetuado, o estorno integral foi acionado automaticamente
\* junto ao gateway": when a cancellation commits, and that e-mail leaves, the
\* money received for the order has been given back.
CancelGivesMoneyBack ==
    [][\A h \in Handlers :
        CancelCommit(h) =>
            \A c \in Charges :
                owner[c] = request[h].order /\ events[c]["PAID"] # "none"
                    => events[c]["REFUNDED"] # "none"]_vars
=============================================================================
