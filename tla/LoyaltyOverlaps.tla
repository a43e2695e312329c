--------------------------- MODULE LoyaltyOverlaps ---------------------------
(***************************************************************************)
(* Loyalty with a history variable: the customers who had two awards under *)
(* way at once.  What the code promises of points is exact for all others. *)
(***************************************************************************)
EXTENDS Loyalty

VARIABLE raced

hvars == <<vars, raced>>

\* Handler h has read customer u and not committed yet.
Awarding(h, u) ==
    /\ request[h].at \in {"find", "commit"}
    /\ Customer[request[h].order] = u

Overlapping ==
    {u \in Users : \E h1, h2 \in Handlers : h1 # h2 /\ Awarding(h1, u) /\ Awarding(h2, u)}

HInit == Init /\ raced = {}

HNext == Next /\ raced' = raced \union Overlapping'

HSpec == HInit /\ [][HNext]_hvars

\* RN04 and the idempotence of awards: a customer whose awards never
\* overlapped has exactly the points of the orders that were awarded, each of
\* them once, however often the kitchen moves a card back and forth, and
\* whatever fails in between.
PointsExactUnlessRaced ==
    \A u \in Users \ raced :
        /\ xp[u] = LedgerPoints(u)
        /\ \A o \in Orders : Customer[o] = u => ledger[o] <= 1
=============================================================================
