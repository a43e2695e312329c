------------------------------- MODULE Loyalty -------------------------------
(***************************************************************************)
(* Loyalty points: KanbanService.transitionOrderStatus with what it does   *)
(* to the customer when an order reaches PRONTO,                           *)
(* GamificationService.awardXpForCompletedOrder.                           *)
(*                                                                         *)
(* The award reads the order with its customer before its transaction, and *)
(* the transaction (READ COMMITTED) looks for an earlier award, then       *)
(* writes an absolute total computed from that first read.  No constraint  *)
(* of the database makes (orderId, reason) unique.                         *)
(***************************************************************************)
EXTENDS KanbanBoard, Integers, FiniteSets, FiniteSetsExt

CONSTANTS
    Users,          \* customers
    Orders,         \* their orders, paid and in the kitchen's queue
    Handlers,       \* how many requests the API can have in flight at once
    NoOrder,        \* no order
    Customer,       \* Customer[o]: Order.userId
    TotalCents      \* TotalCents[o]: Order.totalPrice in cents

ASSUME LoyaltyAssumption ==
    /\ NoOrder \notin Orders
    /\ Customer \in [Orders -> Users]
    /\ TotalCents \in [Orders -> Nat]
    /\ IsFiniteSet(Orders)

VARIABLES
    status,     \* status[o]: Order.status
    xp,         \* xp[u]: User.xp
    level,      \* level[u]: User.level
    ledger,     \* ledger[o]: how many XpTransaction rows order o has
    request     \* request[h]: the transition in flight in handler h

vars == <<status, xp, level, ledger, request>>

-----------------------------------------------------------------------------

\* RN04, in whole cents: 10 points for each R$ 10,00.
calculateEarnedXpFromCents(totalCents) ==
    IF totalCents < 1000 THEN 0 ELSE (totalCents \div 1000) * 10

calculateLevelFromXp(x) == ((IF x < 0 THEN 0 ELSE x) \div 1000) + 1

Earned(o) == calculateEarnedXpFromCents(TotalCents[o])

\* Where a transition stands; xp and level: the snapshot of the customer.
Request == [at: {"idle", "write", "award", "find", "commit"},
            order: Orders \union {NoOrder},
            to: OrderStatus \union {"none"},
            xp: Nat, level: Nat]

Idle == [at |-> "idle", order |-> NoOrder, to |-> "none", xp |-> 0, level |-> 0]

TypeOK ==
    /\ status \in [Orders -> OrderStatus]
    /\ xp \in [Users -> Nat]
    /\ level \in [Users -> Nat]
    /\ ledger \in [Orders -> Nat]
    /\ request \in [Handlers -> Request]

Init ==
    /\ status = [o \in Orders |-> "EM_ESPERA"]
    /\ xp = [u \in Users |-> 0]
    /\ level = [u \in Users |-> 1]
    /\ ledger = [o \in Orders |-> 0]
    /\ request = [h \in Handlers |-> Idle]

Return(h) == request' = [request EXCEPT ![h] = Idle]

-----------------------------------------------------------------------------
(* KanbanService.transitionOrderStatus *)

TransitionRead(h, o, target) ==
    /\ request[h] = Idle
    /\ <<status[o], target>> \in KanbanTransitions
    /\ request' = [request EXCEPT ![h] =
                      [Idle EXCEPT !.at = "write", !.order = o, !.to = target]]
    /\ UNCHANGED <<status, xp, level, ledger>>

TransitionWrite(h) ==
    /\ request[h].at = "write"
    /\ status' = [status EXCEPT ![request[h].order] = request[h].to]
    /\ IF request[h].to = "PRONTO"
       THEN request' = [request EXCEPT ![h].at = "award"]
       ELSE Return(h)
    /\ UNCHANGED <<xp, level, ledger>>

-----------------------------------------------------------------------------
(* GamificationService.awardXpForCompletedOrder *)

AwardRead(h) ==
    /\ request[h].at = "award"
    /\ LET user == Customer[request[h].order] IN
       request' = [request EXCEPT ![h] =
                      [@ EXCEPT !.at = "find", !.xp = xp[user], !.level = level[user]]]
    /\ UNCHANGED <<status, xp, level, ledger>>

\* No look for an earlier award.
FaultyAwardFind(h) ==
    /\ request[h].at = "find"
    /\ request' = [request EXCEPT ![h].at = "commit"]
    /\ UNCHANGED <<status, xp, level, ledger>>

\* The transaction's findFirst; an order that has its row gets nothing more.
AwardFind(h) ==
    /\ request[h].at = "find"
    /\ IF ledger[request[h].order] > 0
       THEN Return(h)
       ELSE request' = [request EXCEPT ![h].at = "commit"]
    /\ UNCHANGED <<status, xp, level, ledger>>

\* The points incremented in place, the level from the snapshot.
FaultyAwardCommitIncrement(h) ==
    /\ request[h].at = "commit"
    /\ LET o == request[h].order IN
       /\ ledger' = [ledger EXCEPT ![o] = @ + 1]
       /\ xp' = [xp EXCEPT ![Customer[o]] = @ + Earned(o)]
       /\ level' = [level EXCEPT ![Customer[o]] =
                        calculateLevelFromXp(request[h].xp + Earned(o))]
    /\ Return(h)
    /\ UNCHANGED status

\* The row and the customer outside a transaction: a failure between them.
FaultyAwardCommitRow(h) ==
    /\ request[h].at = "commit"
    /\ ledger' = [ledger EXCEPT ![request[h].order] = @ + 1]
    /\ Return(h)
    /\ UNCHANGED <<status, xp, level>>

\* The transaction's writes, from the snapshot.  Whatever the e-mails and the
\* publication after it do, they change nothing here.
AwardCommit(h) ==
    /\ request[h].at = "commit"
    /\ LET o == request[h].order
           user == Customer[o]
           totalXp == request[h].xp + Earned(o)
           reached == calculateLevelFromXp(totalXp)
       IN  /\ ledger' = [ledger EXCEPT ![o] = @ + 1]
           /\ xp' = [xp EXCEPT ![user] = totalXp]
           /\ level' = [level EXCEPT ![user] =
                           IF reached > request[h].level THEN reached ELSE request[h].level]
    /\ Return(h)
    /\ UNCHANGED status

-----------------------------------------------------------------------------
(* Failures *)

\* An await rejects; a transaction not committed leaves nothing.
Throw(h) ==
    /\ request[h].at # "idle"
    /\ Return(h)
    /\ UNCHANGED <<status, xp, level, ledger>>

\* The API process stops and starts again.
Restart ==
    /\ request # [h \in Handlers |-> Idle]
    /\ request' = [h \in Handlers |-> Idle]
    /\ UNCHANGED <<status, xp, level, ledger>>

Next ==
    \/ \E h \in Handlers :
        \/ \E o \in Orders, target \in OrderStatus : TransitionRead(h, o, target)
        \/ TransitionWrite(h)
        \/ AwardRead(h)
        \/ AwardFind(h)
        \/ AwardCommit(h)
        \/ Throw(h)
    \/ Restart

Spec == Init /\ [][Next]_vars

-----------------------------------------------------------------------------
(* What holds whatever the interleaving *)

\* RN04: the level is always the one of the customer's points, although both
\* are written from a snapshot other awards may have overtaken.
LevelFollowsXp == \A u \in Users : level[u] = calculateLevelFromXp(xp[u])

\* The points of the orders of u that have an award.
LedgerPoints(u) ==
    MapThenSumSet(Earned, {o \in Orders : Customer[o] = u /\ ledger[o] > 0})

\* Points come from distinct orders that reached PRONTO: overlapping awards
\* may lose points or leave two rows for an order, but never count one twice.
NoOrderCountsTwice == \A u \in Users : xp[u] <= LedgerPoints(u)

-----------------------------------------------------------------------------
(* What the repository says of awards, and a failure breaks *)

\* ARQUITETURA-C4.md: "$transaction(Order.PRONTO + XpTransaction + User.xp/level)":
\* an order that is PRONTO with no transition in flight has its points.
ReadyOrderIsAwarded ==
    (\A h \in Handlers : request[h] = Idle) =>
        \A o \in Orders : status[o] = "PRONTO" => ledger[o] > 0
=============================================================================
