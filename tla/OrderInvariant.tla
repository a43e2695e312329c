---------------------------- MODULE OrderInvariant ----------------------------
(***************************************************************************)
(* The inductive invariant of OrderPayments.  What holds of the rows alone *)
(* is not inductive: it says nothing of the handlers that have decided on  *)
(* a write and not made it yet.  IInv adds what each of them still knows   *)
(* when it writes, however old its snapshot: the facts that only grow.     *)
(***************************************************************************)
EXTENDS OrderPayments

\* Some charge of order o was refunded by the gateway.
Refunded(o) == \E c \in Charges : owner[c] = o /\ events[c]["REFUNDED"] # "none"

\* The order has stopped waiting for payment.
Left(o) == status[o] \notin {"none", "AGUARDANDO_PAGAMENTO"}

\* A stored order has a payment row on one of its own charges; an order that
\* is not stored has none.
RowsOwned ==
    \A o \in Orders :
        IF Stored(o)
        THEN payment[o].ref \in Charges /\ owner[payment[o].ref] = o
        ELSE payment[o] = NoPayment

\* The gateway sends nothing about a charge it has not issued.
EventsOwned ==
    \A c \in Charges, e \in Events : owner[c] = NoOrder => events[c][e] = "none"

\* What handler h is about to write, and why it may.
Free(h) == request[h].at = "idle" => request[h] = Idle

Creating(h) ==
    request[h].at = "create" =>
        /\ request[h].order \in Orders /\ ~Stored(request[h].order)
        /\ request[h].charge \in Charges /\ owner[request[h].charge] = request[h].order

Reissuing(h) ==
    request[h].at \in {"charge", "reissue"} =>
        /\ request[h].order \in Orders /\ Stored(request[h].order)
        /\ request[h].at = "reissue" =>
            request[h].charge \in Charges /\ owner[request[h].charge] = request[h].order

Expiring(h) ==
    request[h].at \in {"expire", "overdue"} =>
        /\ request[h].order \in Orders /\ Stored(request[h].order)
        /\ request[h].pay = "EXPIRADO"

Cancelling(h) ==
    request[h].at \in {"refund", "cancel", "refunded"} =>
        /\ request[h].order \in Orders /\ Stored(request[h].order)
        /\ request[h].to = "CANCELADO"
        /\ request[h].pay \in {"EXPIRADO", "ESTORNADO"}
        /\ request[h].at = "refund" =>
            request[h].charge \in Charges /\ owner[request[h].charge] = request[h].order
        /\ request[h].at # "refund" /\ request[h].pay = "ESTORNADO" =>
            Refunded(request[h].order)

Confirming(h) ==
    request[h].at = "paid" =>
        /\ request[h].order \in Orders /\ Stored(request[h].order)
        /\ request[h].pay = "PAGO"
        /\ Received(request[h].order)
        /\ \/ request[h].to = "EM_ESPERA"
           \/ request[h].to = "none" /\ Left(request[h].order)

Answering(h) ==
    request[h].at \in {"paid", "overdue", "refunded", "answer"} =>
        /\ request[h].order \in Orders /\ Stored(request[h].order)
        /\ request[h].charge \in Charges
        /\ request[h].event \in Events
        /\ events[request[h].charge][request[h].event] # "none"

Moving(h) ==
    request[h].at = "move" =>
        /\ request[h].order \in Orders /\ Left(request[h].order)
        /\ Received(request[h].order)
        /\ request[h].to \in KanbanVisible \union {"ENTREGUE"}

Decided(h) ==
    /\ Free(h)
    /\ Creating(h)
    /\ Reissuing(h)
    /\ Expiring(h)
    /\ Cancelling(h)
    /\ Confirming(h)
    /\ Answering(h)
    /\ Moving(h)

\* Nobody else works on an order that is being created.
CreatesAlone ==
    \A h1, h2 \in Handlers :
        h1 # h2 /\ request[h1].at = "create" => request[h2].order # request[h1].order

IInv ==
    /\ TypeOK
    /\ RowsOwned
    /\ EventsOwned
    /\ CreatesAlone
    /\ \A h \in Handlers : Decided(h)
    /\ ProductionGate
    /\ PaidOrderMoved
    /\ RefundIsReal

-----------------------------------------------------------------------------
(* The abstract specification *)

Phase(o) ==
    IF status[o] = "none" THEN "none"
    ELSE IF status[o] = "AGUARDANDO_PAGAMENTO" THEN "waiting"
    ELSE IF status[o] = "CANCELADO" THEN "closed"
    ELSE "kitchen"

\* Under every interleaving, orders behave as PaymentGate says.
Gate == INSTANCE PaymentGate WITH
    phase <- [o \in Orders |-> Phase(o)],
    received <- {o \in Orders : Received(o)}

ImplementsGate == Gate!Spec
=============================================================================
