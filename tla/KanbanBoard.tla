----------------------------- MODULE KanbanBoard -----------------------------
(***************************************************************************)
(* The statuses of an order and the kitchen's board (KanbanService), which *)
(* OrderPayments and Loyalty share.                                        *)
(*                                                                         *)
(* In every module, a definition whose name starts with Faulty is what the *)
(* code would be with a plausible mistake in it; no specification uses it. *)
(***************************************************************************)

OrderStatus ==
    {"AGUARDANDO_PAGAMENTO", "EM_ESPERA", "EM_PRODUCAO", "FINALIZACAO",
     "PRONTO", "ENTREGUE", "CANCELADO"}

\* The columns of the kitchen's board.
KanbanVisible == {"EM_ESPERA", "EM_PRODUCAO", "FINALIZACAO", "PRONTO"}

\* A column added to the table for orders nobody has paid yet.
FaultyKanbanTransitions ==
    {<<"AGUARDANDO_PAGAMENTO", "EM_PRODUCAO">>, <<"EM_ESPERA", "EM_PRODUCAO">>,
     <<"EM_PRODUCAO", "FINALIZACAO">>, <<"FINALIZACAO", "PRONTO">>, <<"PRONTO", "ENTREGUE">>}

\* The moves of ALLOWED_KANBAN_TRANSITIONS, as pairs <<from, to>>.
KanbanTransitions ==
    {<<"EM_ESPERA", "EM_PRODUCAO">>,
     <<"EM_PRODUCAO", "EM_ESPERA">>, <<"EM_PRODUCAO", "FINALIZACAO">>,
     <<"FINALIZACAO", "EM_PRODUCAO">>, <<"FINALIZACAO", "PRONTO">>,
     <<"PRONTO", "ENTREGUE">>}
=============================================================================
