---------------------------- MODULE OrderLifecycle ----------------------------
(***************************************************************************)
(* What an order promises its customer and the kitchen when the requests   *)
(* about it do not overlap: the abstract specification that OrderPayments  *)
(* implements with a single handler.  There is no request, no webhook, no  *)
(* charge: only the stage of each order and whether its payment is PAGO.   *)
(***************************************************************************)
CONSTANT Orders

VARIABLES stage, paid

Moves ==
    {<<"EM_ESPERA", "EM_PRODUCAO">>,
     <<"EM_PRODUCAO", "EM_ESPERA">>, <<"EM_PRODUCAO", "FINALIZACAO">>,
     <<"FINALIZACAO", "EM_PRODUCAO">>, <<"FINALIZACAO", "PRONTO">>,
     <<"PRONTO", "ENTREGUE">>}

Init ==
    /\ stage = [o \in Orders |-> "none"]
    /\ paid = [o \in Orders |-> FALSE]

Become(o, s, p) ==
    /\ stage' = [stage EXCEPT ![o] = s]
    /\ paid' = [paid EXCEPT ![o] = p]

Place(o) == stage[o] = "none" /\ Become(o, "AGUARDANDO_PAGAMENTO", FALSE)

\* The only way into the kitchen.
Confirm(o) == stage[o] = "AGUARDANDO_PAGAMENTO" /\ Become(o, "EM_ESPERA", TRUE)

\* The kitchen works on paid orders only.
Work(o) == paid[o] /\ \E s \in {m[2] : m \in Moves} :
                          <<stage[o], s>> \in Moves /\ Become(o, s, TRUE)

\* Before preparation starts, with the money given back.
Cancel(o) == stage[o] \in {"AGUARDANDO_PAGAMENTO", "EM_ESPERA"} /\ Become(o, "CANCELADO", FALSE)

\* A refund decided at the gateway closes the order wherever it is.
Reverse(o) == stage[o] # "none" /\ Become(o, "CANCELADO", FALSE)

\* Money that arrives for a cancelled order is recorded and changes nothing
\* else: CANCELADO is final.
PayLate(o) == stage[o] = "CANCELADO" /\ Become(o, "CANCELADO", TRUE)

Next == \E o \in Orders :
    Place(o) \/ Confirm(o) \/ Work(o) \/ Cancel(o) \/ Reverse(o) \/ PayLate(o)

Spec == Init /\ [][Next]_<<stage, paid>>
=============================================================================
