----------------------------- MODULE PaymentGate -----------------------------
(***************************************************************************)
(* What orders promise under every interleaving of requests, webhooks and  *)
(* failures: RN03 as an abstract specification.  An order waits, the       *)
(* gateway receives money for it, the kitchen takes it only after that,    *)
(* and nobody ever puts it back to waiting.  OrderLifecycle promises more, *)
(* for requests that do not overlap.                                       *)
(***************************************************************************)
CONSTANT Orders

VARIABLES
    phase,      \* phase[o]: where order o is
    received    \* the orders the gateway has received money for

Phases == {"none", "waiting", "kitchen", "closed"}

Init ==
    /\ phase = [o \in Orders |-> "none"]
    /\ received = {}

Move(o, p) == phase' = [phase EXCEPT ![o] = p] /\ UNCHANGED received

Place(o) == phase[o] = "none" /\ Move(o, "waiting")

Receive(o) ==
    /\ phase[o] # "none"
    /\ received' = received \union {o}
    /\ UNCHANGED phase

\* From "closed" too: a move of the kitchen decided before a cancellation is
\* written after it.
Prepare(o) == o \in received /\ phase[o] \in {"waiting", "closed"} /\ Move(o, "kitchen")

Close(o) == phase[o] \in {"waiting", "kitchen"} /\ Move(o, "closed")

Next == \E o \in Orders : Place(o) \/ Receive(o) \/ Prepare(o) \/ Close(o)

Spec == Init /\ [][Next]_<<phase, received>>
=============================================================================
