---------------------------- MODULE MCLiveOrders ----------------------------
(* Two orders of two customers, seen by either of them or by the kitchen. *)
EXTENDS LiveOrdersHistory, TLC

CONSTANTS o1, o2, c1, c2

Opened ==
    {[status |-> "AGUARDANDO_PAGAMENTO", payment |-> "PENDENTE"],
     [status |-> "FINALIZACAO", payment |-> "PAGO"]}

OneEach == o1 :> c1 @@ o2 :> c2

\* The two customers are interchangeable, each with his order.
Symmetry == {[x \in {o1, o2, c1, c2} |-> x], o1 :> o2 @@ o2 :> o1 @@ c1 :> c2 @@ c2 :> c1}
=============================================================================
