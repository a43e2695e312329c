--------------------------- MODULE LiveOrdersProofs ---------------------------
(***************************************************************************)
(* For any number of orders, customers, calls under way, events and        *)
(* changes: the customer's page shows orders of the present user only, the *)
(* busy mark is set exactly while an action is under way, and a page at    *)
(* rest shows the orders as they are, unless something was missed.         *)
(***************************************************************************)
EXTENDS LiveOrdersHistory, SequenceTheorems, FiniteSetTheorems, TLAPS

Users == Customers \union {Staff, Nobody}

\* A call that may be under way while the page is of this kind, for this user,
\* with or without a list: a listing of the customer's page has the orders of
\* the user who asked, a live call was made for the present user, and actions
\* are offered on a list only.
Legal(page, user, listed) ==
    {c \in Call :
        /\ c.kind \in Actions => c.order \in Orders
        /\ page = "orders" /\ c.kind \notin Actions => \A o \in DOMAIN c.result : Owner[o] = c.user
        /\ c.live => c.user = user
        /\ c.kind \in Actions => listed}

HasList == screen.list # Loading

\* No call under way breaks the rules.
CallsLegal == calls \in Seq(Legal(screen.page, screen.user, HasList))

Inv == TypeOK /\ CallsLegal /\ OwnOrdersOnly

\* The mark is on the order of the one action under way.
MarkFollows ==
    /\ crossed => InFlight # {}
    /\ ~crossed =>
        /\ \A i, j \in InFlight : i = j
        /\ \A i \in InFlight : calls[i].order = screen.busy
        /\ screen.busy # NoOrder => InFlight # {}

\* A change of this order is committed and not published.
Owed(o) == changing[o] > 0 \/ \E i \in DOMAIN calls : calls[i].at = "publish" /\ calls[i].order = o

\* The page will be told to ask for its list again.
Awaited == inbox > 0 \/ \E o \in Orders : Addressed(o, screen.user) /\ Owed(o)

UpToDate(list) == Statuses(list) = Statuses(Fetch(screen.page, screen.user, row))

\* What an action answered changes no status on the page.
Tells(c) ==
    \A o \in DOMAIN c.result : Addressed(o, screen.user) =>
        c.kind = "regenerate" /\ c.result[o].status = row[o].status

\* No listing was asked for later.
Latest(i) == \A j \in DOMAIN calls : j > i => calls[j].kind \in Actions

\* A call of this page: the kitchen's page offers no new code, and an action
\* publishes and answers the row of its order.
Fits(page, c) ==
    /\ c.kind = "regenerate" => page = "orders"
    /\ c.at = "publish" => c.kind \in Actions
    /\ c.kind \in Actions /\ c.at \in {"publish", "answered"} => DOMAIN c.result = {c.order}

\* The kitchen's page is for the staff, who see every order.
PageFits ==
    /\ screen.page = "kitchen" => screen.user \in {Staff, Nobody}
    /\ \A i \in DOMAIN calls : Fits(screen.page, calls[i])

\* What call c answered is right, or the page will ask for its list again.
Good(c) ==
    \/ Awaited
    \/ c.kind \notin Actions /\ UpToDate(c.result)
    \/ c.kind \in Actions /\ Tells(c)

\* What the last listing answered is good, and what actions answered since; so
\* is what the page shows when no listing is under way.
Follows ==
    /\ \A i \in DOMAIN calls : calls[i].live
    /\ Present => \A i \in DOMAIN calls : Latest(i) /\ calls[i].at = "answered" => Good(calls[i])
    /\ Present /\ HasList /\ (\A i \in DOMAIN calls : calls[i].kind \in Actions) =>
        Awaited \/ UpToDate(screen.list)

HInv == Inv /\ MarkFollows /\ PageFits /\ (~disturbed => Follows)

-----------------------------------------------------------------------------
(* Sequences *)

LEMMA SeqGrows ==
    ASSUME NEW S, NEW T, S \subseteq T, NEW s \in Seq(S)
    PROVE  s \in Seq(T)
OBVIOUS

\* What is left is in the sequence.
LEMMA Removal ==
    ASSUME NEW S, NEW s \in Seq(S), NEW i \in DOMAIN s
    PROVE  RemoveAt(s, i) \in Seq(S)
<1>1. Len(s) \in Nat /\ DOMAIN s = 1 .. Len(s) /\ \A k \in 1 .. Len(s) : s[k] \in S
  BY LenProperties
<1>2. i \in 1 .. Len(s)
  BY <1>1
<1>3. SubSeq(s, 1, i - 1) \in Seq(S)
  BY <1>1, <1>2, SubSeqProperties
<1>4. SubSeq(s, i + 1, Len(s)) \in Seq(S)
  BY <1>1, <1>2, SubSeqProperties
<1> QED BY <1>3, <1>4, ConcatProperties DEF RemoveAt

\* One call changes.
LEMMA Exchange ==
    ASSUME NEW S, NEW s \in Seq(S), NEW i \in DOMAIN s, NEW e \in S
    PROVE  [s EXCEPT ![i] = e] \in Seq(S)
<1>1. i \in 1 .. Len(s)
  BY LenProperties
<1> QED BY <1>1, ExceptSeq

LEMMA Extension ==
    ASSUME NEW S, NEW s \in Seq(S), NEW e \in S
    PROVE  Append(s, e) \in Seq(S)
BY AppendProperties

-----------------------------------------------------------------------------
(* Rows and events *)

\* What the API does to a row gives a row.
LEMMA RowsChange ==
    ASSUME NEW r \in Row
    PROVE  /\ Announced(r) \subseteq Row
           /\ Unannounced(r) \subseteq Row
           /\ \A c \in Call : c.kind \in Actions => Outcome(c, r) \subseteq Row
<1> DEFINE Payments == {"PENDENTE", "PAGO", "EXPIRADO", "ESTORNADO"}
<1>1. \A s \in OrderStatus : [r EXCEPT !.status = s] \in Row
  BY DEF Row
<1>2. \A p \in Payments : [r EXCEPT !.payment = p] \in Row
  BY DEF Row
<1>3. r.status \in OrderStatus /\ r.payment \in Payments
  BY DEF Row
<1>4. Paid(r) \in Row /\ Cancelled(r) \in Row
  BY <1>3 DEF Paid, Cancelled, Row, OrderStatus
<1>5. Announced(r) \subseteq Row
  BY <1>1, <1>4 DEF Announced
<1>6. Unannounced(r) \subseteq Row
  BY <1>2 DEF Unannounced
<1>7. ASSUME NEW c \in Call, c.kind \in Actions PROVE Outcome(c, r) \subseteq Row
  <2>1. c.target \in OrderStatus
    BY DEF Call
  <2>2. CASE c.kind = "move"
    BY <1>1, <2>1, <2>2 DEF Outcome
  <2>3. CASE c.kind = "cancel"
    BY <1>4, <2>3 DEF Outcome
  <2>4. CASE c.kind = "regenerate"
    BY <1>2, <2>4 DEF Outcome
  <2> QED BY <1>7, <2>2, <2>3, <2>4 DEF Actions
<1> QED BY <1>5, <1>6, <1>7

LEMMA Committed ==
    ASSUME TypeOK, NEW o \in Orders, NEW r \in Row, Commit(o, r)
    PROVE  row' \in [Orders -> Row] /\ changes' \in 0 .. MaxChanges
<1>1. row' \in [Orders -> Row]
  BY DEF TypeOK, Commit
<1>2. changes' \in 0 .. MaxChanges
  BY LiveAssumption DEF TypeOK, Commit
<1> QED BY <1>1, <1>2

LEMMA MinOfTwo ==
    ASSUME NEW a \in Nat, NEW b \in Nat
    PROVE  Min({a, b}) \in Nat /\ Min({a, b}) <= b /\ Min({a, b}) \in {a, b}
<1> DEFINE P(x) == x \in {a, b} /\ \A y \in {a, b} : x =< y
<1>1. \E x : P(x)
  <2>1. CASE a <= b
    BY <2>1
  <2>2. CASE b <= a
    BY <2>2
  <2> QED BY <2>1, <2>2
<1>2. Min({a, b}) = CHOOSE x : P(x)
  BY DEF Min
<1>3. P(CHOOSE x : P(x))
  BY <1>1
<1> QED BY <1>2, <1>3

LEMMA Emitted ==
    ASSUME TypeOK, NEW o, Emit(o)
    PROVE  inbox' \in 0 .. MaxEvents
<1>1. inbox \in Nat /\ inbox <= MaxEvents /\ MaxEvents \in Nat
  BY LiveAssumption DEF TypeOK
<1>2. PICK n \in Dispatched :
        inbox' = IF socket = "joined" /\ Addressed(o, screen.user)
                 THEN Min({inbox + n, MaxEvents}) ELSE inbox
  BY DEF Emit
<1>3. inbox + n \in Nat
  BY <1>1 DEF Dispatched, ByRedis
<1> QED BY <1>1, <1>2, <1>3, MinOfTwo

-----------------------------------------------------------------------------
(* Lists *)

\* A function from some of the orders to rows is a list.
LEMMA IsList ==
    ASSUME NEW S \in SUBSET Orders, NEW f \in [S -> Row]
    PROVE  f \in List
BY DEF List

LEMMA OfList ==
    ASSUME NEW f \in List
    PROVE  DOMAIN f \in SUBSET Orders /\ f \in [DOMAIN f -> Row]
BY DEF List

LEMMA EmptyIsList ==
    Empty \in List /\ DOMAIN Empty = {}
<1>1. Empty \in [{} -> Row] /\ DOMAIN Empty = {}
  BY DEF Empty
<1> QED BY <1>1, IsList

\* What the API answers to a listing.
LEMMA Fetched ==
    ASSUME NEW rows \in [Orders -> Row], NEW page, NEW u
    PROVE  /\ Fetch(page, u, rows) \in List
           /\ page # "kitchen" => \A o \in DOMAIN Fetch(page, u, rows) : Owner[o] = u
<1> DEFINE Q == {x \in Orders : rows[x].status \in KanbanVisible}
           M == {x \in Orders : Owner[x] = u}
<1>1. Queue(rows) \in [Q -> Row] /\ MyOrders(u, rows) \in [M -> Row]
  BY DEF Queue, MyOrders
<1>2. Queue(rows) \in List /\ MyOrders(u, rows) \in List
  BY <1>1, IsList
<1>3. \A o \in DOMAIN MyOrders(u, rows) : Owner[o] = u
  BY DEF MyOrders
<1> QED BY <1>2, <1>3 DEF Fetch

LEMMA Edited ==
    ASSUME NEW list \in List, NEW o, NEW r \in List
    PROVE  /\ Without(list, o) \in List
           /\ Replaced(list, r) \in List
           /\ DOMAIN Replaced(list, r) = DOMAIN list
<1>1. DOMAIN list \in SUBSET Orders /\ list \in [DOMAIN list -> Row] /\ r \in [DOMAIN r -> Row]
  BY OfList
<1> DEFINE D == DOMAIN list
           E == DOMAIN list \ {o}
<1>2. D \in SUBSET Orders /\ E \in SUBSET Orders
  BY <1>1
<1>3. Without(list, o) \in [E -> Row]
  BY <1>1 DEF Without
<1>4. Replaced(list, r) \in [D -> Row] /\ DOMAIN Replaced(list, r) = D
  BY <1>1 DEF Replaced
<1> QED BY <1>2, <1>3, <1>4, IsList

-----------------------------------------------------------------------------
(* Calls *)

\* Call i goes on with this result.
LEMMA Served ==
    ASSUME TypeOK, CallsLegal, NEW i \in DOMAIN calls,
           NEW at \in {"sent", "publish", "answered", "failed"}, NEW result \in List,
           Serve(i, at, result),
           screen.page = "orders" /\ calls[i].kind \notin Actions =>
               \A o \in DOMAIN result : Owner[o] = calls[i].user
    PROVE  calls' \in Seq(Legal(screen.page, screen.user, HasList))
<1> DEFINE L == Legal(screen.page, screen.user, HasList)
           c == calls[i]
           e == [c EXCEPT !.at = at, !.result = result]
<1>1. c \in L
  BY LenProperties DEF CallsLegal
<1>2. e \in L
  <2> HIDE DEF c
  <2>1. c \in Call
    BY <1>1 DEF Legal
  <2>2. /\ e \in Call /\ e.kind = c.kind /\ e.order = c.order /\ e.user = c.user /\ e.live = c.live
        /\ e.result = result
    BY <2>1 DEF Call
  <2>3. screen.page = "orders" /\ c.kind \notin Actions => \A o \in DOMAIN result : Owner[o] = c.user
    BY DEF c
  <2> HIDE DEF e
  <2> QED BY <1>1, <2>2, <2>3 DEF Legal
<1>3. calls' = [calls EXCEPT ![i] = e]
  BY DEF Serve
<1>4. calls \in Seq(L)
  BY DEF CallsLegal
<1> HIDE DEF e, L
<1>5. [calls EXCEPT ![i] = e] \in Seq(L)
  BY <1>2, <1>4, Exchange
<1> QED BY <1>3, <1>5 DEF L

\* The type of the state, from that of its parts.
LEMMA Types ==
    ASSUME row' \in [Orders -> Row], changes' \in 0 .. MaxChanges,
           changing' \in [Orders -> {0, 1}],
           screen' \in [page: {"orders", "kitchen"}, user: Users,
                        list: List \union {Loading}, busy: Orders \union {NoOrder}],
           socket' \in {"closed", "opening", "joined", "refused"},
           inbox' \in 0 .. MaxEvents,
           calls' \in Seq(Legal(screen'.page, screen'.user, HasList'))
    PROVE  TypeOK' /\ CallsLegal'
<1>1. CallsLegal'
  BY DEF CallsLegal
<1>2. Legal(screen'.page, screen'.user, HasList') \subseteq Call
  BY DEF Legal
<1>3. calls' \in Seq(Call)
  BY <1>2, SeqGrows
<1> QED BY <1>1, <1>3 DEF TypeOK, Users

LEMMA Unchanged ==
    ASSUME TypeOK, CallsLegal
    PROVE  /\ row \in [Orders -> Row] /\ changes \in 0 .. MaxChanges
           /\ changing \in [Orders -> {0, 1}]
           /\ screen \in [page: {"orders", "kitchen"}, user: Users,
                          list: List \union {Loading}, busy: Orders \union {NoOrder}]
           /\ socket \in {"closed", "opening", "joined", "refused"}
           /\ inbox \in 0 .. MaxEvents
           /\ calls \in Seq(Legal(screen.page, screen.user, HasList))
           /\ \A i \in DOMAIN calls : calls[i] \in Legal(screen.page, screen.user, HasList)
BY LenProperties DEF TypeOK, CallsLegal, Users

\* Nothing but the world outside the page changes.
LEMMA Outside ==
    ASSUME TypeOK, CallsLegal,
           \/ \E o \in Orders : OtherCommits(o) \/ OtherCommitsSilently(o) \/ OtherPublishes(o) \/ OtherFails(o)
           \/ Join \/ Refuse \/ Drop
    PROVE  TypeOK' /\ CallsLegal'
<1>0. calls' \in Seq(Legal(screen'.page, screen'.user, HasList')) /\ UNCHANGED <<screen, calls>>
  BY DEF CallsLegal, HasList, OtherCommits, OtherCommitsSilently, OtherPublishes, OtherFails, Join, Refuse, Drop
<1>1. ASSUME NEW o \in Orders, OtherCommits(o) PROVE TypeOK' /\ CallsLegal'
  <2>1. PICK r \in Announced(row[o]) : Commit(o, r)
    BY <1>1 DEF OtherCommits
  <2>2. r \in Row
    BY RowsChange, Unchanged
  <2>3. changing' \in [Orders -> {0, 1}]
    BY <1>1, Unchanged DEF OtherCommits
  <2> QED BY <1>0, <1>1, <2>1, <2>2, <2>3, Committed, Unchanged, Types DEF OtherCommits
<1>2. ASSUME NEW o \in Orders, OtherCommitsSilently(o) PROVE TypeOK' /\ CallsLegal'
  <2>1. PICK r \in Unannounced(row[o]) : Commit(o, r)
    BY <1>2 DEF OtherCommitsSilently
  <2>2. r \in Row
    BY RowsChange, Unchanged
  <2> QED BY <1>0, <1>2, <2>1, <2>2, Committed, Unchanged, Types DEF OtherCommitsSilently
<1>3. ASSUME NEW o \in Orders, OtherPublishes(o) PROVE TypeOK' /\ CallsLegal'
  <2>1. changing' \in [Orders -> {0, 1}]
    BY <1>3, Unchanged DEF OtherPublishes
  <2>2. inbox' \in 0 .. MaxEvents
    BY <1>3, Emitted DEF OtherPublishes
  <2> QED BY <1>0, <1>3, <2>1, <2>2, Unchanged, Types DEF OtherPublishes
<1>4. ASSUME NEW o \in Orders, OtherFails(o) PROVE TypeOK' /\ CallsLegal'
  <2>1. changing' \in [Orders -> {0, 1}]
    BY <1>4, Unchanged DEF OtherFails
  <2> QED BY <1>0, <1>4, <2>1, Unchanged, Types DEF OtherFails
<1>5. CASE Join
  BY <1>0, <1>5, Unchanged, Types DEF Join
<1>6. CASE Refuse
  BY <1>0, <1>6, Unchanged, Types DEF Refuse
<1>7. CASE Drop
  <2>1. inbox' \in 0 .. MaxEvents
    BY <1>7, LiveAssumption DEF Drop
  <2> QED BY <1>0, <1>7, <2>1, Unchanged, Types DEF Drop
<1> QED BY <1>1, <1>2, <1>3, <1>4, <1>5, <1>6, <1>7

\* The API serves a call, or fails to.
LEMMA Serving ==
    ASSUME TypeOK, CallsLegal, NEW i \in DOMAIN calls,
           ServeList(i) \/ ServeAction(i) \/ ServeRefusal(i) \/ Publish(i) \/ Lose(i)
    PROVE  TypeOK' /\ CallsLegal'
<1> DEFINE c == calls[i]
           L == Legal(screen.page, screen.user, HasList)
<1>1. c \in L /\ c \in Call
  BY Unchanged DEF Legal
<1>2. screen' = screen /\ L = Legal(screen'.page, screen'.user, HasList')
  BY DEF ServeList, ServeAction, ServeRefusal, Publish, Lose, HasList
<1>3. ASSUME calls' \in Seq(L), row' \in [Orders -> Row], changes' \in 0 .. MaxChanges,
             inbox' \in 0 .. MaxEvents, UNCHANGED <<changing, socket>>
      PROVE  TypeOK' /\ CallsLegal'
  BY <1>2, <1>3, Unchanged, Types
<1>4. Empty \in List /\ \A o \in DOMAIN Empty : Owner[o] = c.user
  BY EmptyIsList
<1>5. CASE ServeList(i)
  <2>1. row' \in [Orders -> Row]
    <3>1. \A r \in Row : [r EXCEPT !.payment = "EXPIRADO"] \in Row
      BY DEF Row
    <3>2. \A u : Synced(u) \subseteq [Orders -> Row]
      BY <3>1, Unchanged DEF Synced
    <3> QED BY <1>5, <3>2, Unchanged DEF ServeList
  <2>2. /\ Fetch(screen.page, c.user, row') \in List
        /\ screen.page = "orders" => \A o \in DOMAIN Fetch(screen.page, c.user, row') : Owner[o] = c.user
    BY <2>1, Fetched
  <2>3. calls' \in Seq(L)
    BY <1>5, <2>2, Served DEF ServeList
  <2> QED BY <1>3, <1>5, <2>1, <2>3, Unchanged DEF ServeList
<1>6. CASE ServeAction(i)
  <2>1. c.kind \in Actions /\ c.order \in Orders
    BY <1>1, <1>6 DEF ServeAction, Legal
  <2>2. PICK r \in Outcome(c, row[c.order]) :
          /\ Commit(c.order, r)
          /\ Serve(i, IF c.kind = "regenerate" THEN "answered" ELSE "publish", [o \in {c.order} |-> r])
    BY <1>6 DEF ServeAction
  <2>3. r \in Row
    BY <1>1, <2>1, RowsChange, Unchanged
  <2>4. [o \in {c.order} |-> r] \in List
    <3> DEFINE S == {c.order}
    <3>1. S \in SUBSET Orders /\ [o \in S |-> r] \in [S -> Row]
      BY <2>1, <2>3
    <3> QED BY <3>1, IsList
  <2>5. calls' \in Seq(L)
    BY <2>1, <2>2, <2>4, Served
  <2> QED BY <1>3, <1>6, <2>1, <2>2, <2>3, <2>5, Committed, Unchanged DEF ServeAction
<1>7. CASE ServeRefusal(i)
  <2>1. calls' \in Seq(L)
    BY <1>4, <1>7, Served DEF ServeRefusal
  <2> QED BY <1>3, <1>7, <2>1, Unchanged DEF ServeRefusal
<1>8. CASE Publish(i)
  <2>1. c.result \in List
    BY <1>1 DEF Call
  <2>2. screen.page = "orders" /\ c.kind \notin Actions => \A o \in DOMAIN c.result : Owner[o] = c.user
    BY <1>1 DEF Legal
  <2>3. calls' \in Seq(L)
    BY <1>8, <2>1, <2>2, Served DEF Publish
  <2>4. inbox' \in 0 .. MaxEvents
    BY <1>8, Emitted DEF Publish
  <2> QED BY <1>3, <1>8, <2>3, <2>4, Unchanged DEF Publish
<1>9. CASE Lose(i)
  <2>1. calls' \in Seq(L)
    BY <1>4, <1>9, Served DEF Lose
  <2> QED BY <1>3, <1>9, <2>1, Unchanged DEF Lose
<1> QED BY <1>5, <1>6, <1>7, <1>8, <1>9

\* A new call of the page.
LEMMA Making ==
    ASSUME TypeOK, Present, NEW kind \in Kind, NEW o \in Orders \union {NoOrder}, NEW target \in OrderStatus,
           kind \in Actions => HasList /\ o \in Orders
    PROVE  Made(kind, o, target) \in Legal(screen.page, screen.user, HasList)
<1>1. screen.user \in Customers \union {Staff}
  BY DEF TypeOK, Present
<1>2. Made(kind, o, target) \in Call
  BY <1>1, EmptyIsList DEF Made, Call
<1> QED BY <1>2, EmptyIsList DEF Made, Legal

LEMMA Asked ==
    ASSUME TypeOK, CallsLegal, NEW c \in Legal(screen.page, screen.user, HasList), Ask(c)
    PROVE  calls' \in Seq(Legal(screen.page, screen.user, HasList))
BY Extension DEF CallsLegal, Ask

\* What the page does.
LEMMA Acting ==
    ASSUME TypeOK, CallsLegal,
           \/ ReceiveEvent \/ Refresh
           \/ \E kind \in Actions, o \in Orders, target \in OrderStatus : Click(kind, o, target)
    PROVE  TypeOK' /\ CallsLegal'
<1>1. ASSUME NEW kind \in {"reload", "refresh"}, Ask(Listing(kind))
      PROVE  calls' \in Seq(Legal(screen.page, screen.user, HasList))
  <2>1. Present
    BY <1>1 DEF Ask
  <2>2. "EM_ESPERA" \in OrderStatus /\ kind \in Kind /\ kind \notin Actions
    BY DEF OrderStatus, Kind, Actions
  <2>3. Listing(kind) \in Legal(screen.page, screen.user, HasList)
    BY <2>1, <2>2, Making DEF Listing
  <2> QED BY <1>1, <2>3, Asked
<1>2. CASE ReceiveEvent
  <2>1. inbox' \in 0 .. MaxEvents
    BY <1>2, LiveAssumption, Unchanged DEF ReceiveEvent
  <2>2. UNCHANGED <<row, changes, changing, screen, socket>> /\ HasList' = HasList
    BY <1>2 DEF ReceiveEvent, HasList
  <2>3. calls' \in Seq(Legal(screen.page, screen.user, HasList))
    BY <1>1, <1>2 DEF ReceiveEvent
  <2> QED BY <2>1, <2>2, <2>3, Unchanged, Types
<1>3. CASE Refresh
  <2>1. UNCHANGED <<row, changes, changing, screen, socket, inbox>> /\ HasList' = HasList
    BY <1>3 DEF Refresh, HasList
  <2>2. calls' \in Seq(Legal(screen.page, screen.user, HasList))
    BY <1>1, <1>3 DEF Refresh
  <2> QED BY <2>1, <2>2, Unchanged, Types
<1>4. ASSUME NEW kind \in Actions, NEW o \in Orders, NEW target \in OrderStatus, Click(kind, o, target)
      PROVE  TypeOK' /\ CallsLegal'
  <2>1. HasList /\ Present /\ Ask(Made(kind, o, target)) /\ kind \in Kind
    BY <1>4 DEF Click, Offered, HasList, Ask, Kind
  <2>2. Made(kind, o, target) \in Legal(screen.page, screen.user, HasList)
    BY <2>1, Making
  <2>3. calls' \in Seq(Legal(screen.page, screen.user, HasList))
    BY <2>1, <2>2, Asked
  <2>4. /\ screen' \in [page: {"orders", "kitchen"}, user: Users,
                        list: List \union {Loading}, busy: Orders \union {NoOrder}]
        /\ screen'.page = screen.page /\ screen'.user = screen.user /\ screen'.list = screen.list
    BY <1>4, Unchanged DEF Click
  <2>5. UNCHANGED <<row, changes, changing, socket, inbox>> /\ HasList' = HasList
    BY <1>4, <2>4 DEF Click, HasList
  <2> QED BY <2>3, <2>4, <2>5, Unchanged, Types
<1> QED BY <1>2, <1>3, <1>4

\* Every element is exchanged.
LEMMA Mapped ==
    ASSUME NEW S, NEW s \in Seq(S), NEW T, NEW f \in [DOMAIN s -> T]
    PROVE  f \in Seq(T)
<1>1. DOMAIN s = 1 .. Len(s) /\ Len(s) \in Nat
  BY LenProperties
<1>2. f \in [1 .. Len(s) -> T]
  BY <1>1
<1> QED BY <1>1, <1>2

\* Another user: no call of the former one is live.
LEMMA Changing ==
    ASSUME TypeOK, CallsLegal, NEW u \in Visitors(screen.page), SessionChanges(u)
    PROVE  TypeOK' /\ CallsLegal'
<1> DEFINE L == Legal(screen.page, screen.user, HasList)
           N == Legal(screen.page, u, HasList)
           left == [i \in DOMAIN calls |-> [calls[i] EXCEPT !.live = FALSE]]
<1>1. u \in Users /\ (u # Nobody => u \in Customers \union {Staff})
  BY DEF Visitors, Users
<1>2. \A c \in L : [c EXCEPT !.live = FALSE] \in N
  <2>1. ASSUME NEW c \in L PROVE [c EXCEPT !.live = FALSE] \in N
    <3> DEFINE d == [c EXCEPT !.live = FALSE]
    <3>1. c \in Call
      BY DEF Legal
    <3>2. /\ d \in Call /\ d.kind = c.kind /\ d.order = c.order /\ d.user = c.user /\ d.live = FALSE
          /\ d.result = c.result
      BY <3>1 DEF Call
    <3> HIDE DEF d
    <3>3. d \in N
      BY <3>2 DEF Legal
    <3> QED BY <3>3 DEF d
  <2> QED BY <2>1
<1>3. left \in [DOMAIN calls -> N]
  BY <1>2, Unchanged
<1>4. left \in Seq(N)
  <2> HIDE DEF N, left
  <2> QED BY <1>3, Mapped, Unchanged
<1>5. calls' \in Seq(N)
  <2>1. CASE u # Nobody
    <3> DEFINE e == [Listing("initial") EXCEPT !.user = u]
    <3>1. "EM_ESPERA" \in OrderStatus /\ "initial" \in Kind /\ "initial" \notin Actions
      BY DEF OrderStatus, Kind, Actions
    <3>2. e \in Call /\ e.kind = "initial" /\ e.user = u /\ e.result = Empty
      BY <1>1, <2>1, <3>1, EmptyIsList DEF Listing, Made, Call
    <3>3. e \in N
      <4> HIDE DEF e
      <4> QED BY <3>1, <3>2, EmptyIsList DEF Legal
    <3> HIDE DEF N, e, left
    <3>4. calls' = Append(left, e)
      BY <2>1 DEF SessionChanges, e, left
    <3> QED BY <1>4, <3>3, <3>4, Extension
  <2>2. CASE u = Nobody
    BY <1>4, <2>2 DEF SessionChanges
  <2> QED BY <2>1, <2>2
<1>6. /\ screen' \in [page: {"orders", "kitchen"}, user: Users,
                      list: List \union {Loading}, busy: Orders \union {NoOrder}]
      /\ screen'.page = screen.page /\ screen'.user = u /\ screen'.list = screen.list
  BY <1>1, Unchanged DEF SessionChanges
<1>7. /\ socket' \in {"closed", "opening", "joined", "refused"}
      /\ inbox' \in 0 .. MaxEvents
      /\ UNCHANGED <<row, changes, changing>> /\ HasList' = HasList
  BY <1>6, LiveAssumption DEF SessionChanges, HasList
<1> QED BY <1>5, <1>6, <1>7, Unchanged, Types

\* What the page shows after an answer is a list, or nothing was shown and the
\* answer does not count.
LEMMA Showing ==
    ASSUME TypeOK, CallsLegal, NEW i \in DOMAIN calls
    PROVE  /\ Shown(calls[i]) \in List \union {Loading}
           /\ HasList => Shown(calls[i]) # Loading
<1> DEFINE c == calls[i]
<1>1. c.result \in List /\ (c.kind \in Actions => HasList)
  BY Unchanged DEF Legal, Call
<1>2. screen.list \in List \union {Loading}
  BY Unchanged
<1>3. HasList => Without(screen.list, c.order) \in List /\ Replaced(screen.list, c.result) \in List
  BY <1>1, <1>2, Edited DEF HasList
<1> HIDE DEF c
<1>4. CASE c.kind \in Actions
  <2>1. HasList /\ screen.list \in List
    BY <1>1, <1>2, <1>4 DEF HasList
  <2>2. Shown(c) \in List
    BY <1>3, <1>4, <2>1 DEF Shown, BoardAfter, OrdersAfter
  <2> QED BY <2>2, LoadingAssumption DEF c
<1>5. CASE c.kind \notin Actions
  <2>1. Shown(c) \in List \/ Shown(c) = screen.list
    BY <1>1, <1>5, EmptyIsList DEF Shown, Reloaded, Listed
  <2> QED BY <1>2, <2>1, LoadingAssumption DEF c, HasList
<1> QED BY <1>4, <1>5

LEMMA Arriving ==
    ASSUME TypeOK, CallsLegal, NEW i \in DOMAIN calls, Arrive(i)
    PROVE  TypeOK' /\ CallsLegal'
<1> DEFINE L == Legal(screen.page, screen.user, HasList)
           M == Legal(screen'.page, screen'.user, HasList')
<1>1. /\ screen' \in [page: {"orders", "kitchen"}, user: Users,
                      list: List \union {Loading}, busy: Orders \union {NoOrder}]
      /\ screen'.page = screen.page /\ screen'.user = screen.user /\ screen'.list = Shown(calls[i])
  BY Showing, Unchanged DEF Arrive
<1>2. L \subseteq M
  BY <1>1, Showing DEF Legal, HasList
<1>3. calls' \in Seq(L)
  <2>1. calls \in Seq(L) /\ calls' = RemoveAt(calls, i)
    BY Unchanged DEF Arrive
  <2> HIDE DEF L
  <2> QED BY <2>1, Removal
<1>4. calls' \in Seq(M)
  <2> HIDE DEF L, M
  <2> QED BY <1>2, <1>3, SeqGrows
<1>5. UNCHANGED <<row, changes, changing, socket, inbox>>
  BY DEF Arrive
<1> QED BY <1>1, <1>4, <1>5, Unchanged, Types

-----------------------------------------------------------------------------

LEMMA TypeStep ==
    ASSUME TypeOK, CallsLegal, [Next]_vars
    PROVE  TypeOK' /\ CallsLegal'
<1>1. CASE UNCHANGED vars
  BY <1>1 DEF vars, TypeOK, CallsLegal, HasList
<1>2. CASE Next
  BY <1>2, Outside, Serving, Acting, Changing, Arriving DEF Next, Progress
<1> QED BY <1>1, <1>2

\* Only an answer changes the list.
LEMMA ListStep ==
    ASSUME TypeOK, Next
    PROVE  /\ screen'.page = screen.page
           /\ \/ screen'.list = screen.list
              \/ \E i \in DOMAIN calls : Arrive(i)
BY DEF TypeOK, Next, Progress, OtherCommits, OtherCommitsSilently, OtherPublishes, OtherFails, Click, Join,
       Refuse, Drop, ServeList, ServeAction, ServeRefusal, Publish, Lose, SessionChanges, ReceiveEvent,
       Refresh, Arrive

\* After an answer to the page of a customer whose list had come, or comes with
\* it, the list has this customer's orders only.
LEMMA OwnAnswer ==
    ASSUME Inv, NEW i \in DOMAIN calls, Arrive(i), screen.page = "orders", screen'.list # Loading,
           \/ loaded
           \/ /\ calls[i].live /\ calls[i].kind \notin Actions
              /\ calls[i].at = "answered" \/ calls[i].kind = "initial"
    PROVE  \A o \in DOMAIN screen'.list : Owner[o] = screen.user
<1> DEFINE c == calls[i]
<1>1. /\ c.result \in List /\ (c.kind \in Actions => HasList)
      /\ c.kind \notin Actions => \A o \in DOMAIN c.result : Owner[o] = c.user
      /\ c.live => c.user = screen.user
  BY Unchanged DEF Inv, Legal, Call
<1>2. screen'.list = Shown(c)
  BY Unchanged DEF Arrive, Inv
<1>3. loaded /\ HasList => \A o \in DOMAIN screen.list : Owner[o] = screen.user
  BY DEF Inv, OwnOrdersOnly, HasList
<1>4. screen.list \in List \union {Loading}
  BY Unchanged DEF Inv
<1>5. CASE c.kind \in Actions
  <2>1. HasList /\ loaded /\ screen.list \in List
    BY <1>1, <1>4, <1>5 DEF HasList
  <2>2. DOMAIN Replaced(screen.list, c.result) = DOMAIN screen.list
    BY <1>1, <2>1, Edited
  <2>3. DOMAIN Shown(c) = DOMAIN screen.list
    BY <1>5, <2>2 DEF Shown, OrdersAfter
  <2> QED BY <1>2, <1>3, <2>1, <2>3
<1>6. CASE c.kind \notin Actions
  <2>1. Shown(c) = IF c.live /\ (c.at = "answered" \/ c.kind = "initial") THEN c.result ELSE screen.list
    BY <1>6 DEF Shown, Listed
  <2> HIDE DEF c
  <2>2. CASE c.live /\ (c.at = "answered" \/ c.kind = "initial")
    BY <1>1, <1>2, <1>6, <2>1, <2>2
  <2>3. CASE ~(c.live /\ (c.at = "answered" \/ c.kind = "initial"))
    <3>1. loaded /\ Shown(c) = screen.list
      BY <1>6, <2>1, <2>3 DEF c
    <3> QED BY <1>2, <1>3, <3>1 DEF HasList
  <2> QED BY <2>2, <2>3
<1> QED BY <1>5, <1>6

LEMMA OwnStep ==
    ASSUME Inv, [HNext]_hvars
    PROVE  OwnOrdersOnly'
<1>1. CASE UNCHANGED hvars
  BY <1>1 DEF hvars, vars, Inv, OwnOrdersOnly
<1>2. CASE HNext
  <2>1. SUFFICES ASSUME loaded', screen'.page = "orders", screen'.list # Loading
                 PROVE  \A o \in DOMAIN screen'.list : Owner[o] = screen'.user
    BY DEF OwnOrdersOnly
  <2>2. /\ Next /\ screen'.user = screen.user
        /\ \/ loaded
           \/ \E i \in DOMAIN calls :
                /\ Arrive(i) /\ calls[i].live /\ calls[i].kind \notin Actions
                /\ calls[i].at = "answered" \/ calls[i].kind = "initial"
    BY <1>2, <2>1 DEF HNext, SameSession
  <2>3. /\ screen.page = "orders"
        /\ screen'.list = screen.list \/ \E i \in DOMAIN calls : Arrive(i)
    BY <2>1, <2>2, ListStep DEF Inv
  <2>4. CASE loaded /\ screen'.list = screen.list
    BY <2>1, <2>2, <2>3, <2>4 DEF Inv, OwnOrdersOnly
  <2>5. CASE ~(loaded /\ screen'.list = screen.list)
    BY <2>1, <2>2, <2>3, <2>5, OwnAnswer
  <2> QED BY <2>4, <2>5
<1> QED BY <1>1, <1>2

LEMMA Initially ==
    ASSUME HInit
    PROVE  Inv
<1>1. row \in [Orders -> Row]
  BY LiveAssumption DEF HInit, Init, Row
<1>2. changes \in 0 .. MaxChanges /\ inbox \in 0 .. MaxEvents
  BY LiveAssumption DEF HInit, Init
<1>3. calls \in Seq(Call) /\ CallsLegal
  BY DEF HInit, Init, CallsLegal
<1>4. /\ changing \in [Orders -> {0, 1}]
      /\ screen \in [page: {"orders", "kitchen"}, user: Customers \union {Staff, Nobody},
                     list: List \union {Loading}, busy: Orders \union {NoOrder}]
      /\ socket \in {"closed", "opening", "joined", "refused"}
  BY DEF HInit, Init
<1>5. OwnOrdersOnly
  BY DEF HInit, OwnOrdersOnly
<1> QED BY <1>1, <1>2, <1>3, <1>4, <1>5 DEF Inv, TypeOK

-----------------------------------------------------------------------------
(* The busy mark *)

\* Call i is gone, and those after it move up.
LEMMA RemovalShape ==
    ASSUME NEW S, NEW s \in Seq(S), NEW i \in DOMAIN s
    PROVE  /\ Len(s) \in Nat /\ DOMAIN s = 1 .. Len(s)
           /\ DOMAIN RemoveAt(s, i) = 1 .. Len(s) - 1
           /\ \A j \in 1 .. Len(s) - 1 : RemoveAt(s, i)[j] = s[IF j < i THEN j ELSE j + 1]
<1> DEFINE front == SubSeq(s, 1, i - 1)
           back == SubSeq(s, i + 1, Len(s))
           rest == RemoveAt(s, i)
<1>1. /\ Len(s) \in Nat /\ DOMAIN s = 1 .. Len(s) /\ i \in 1 .. Len(s)
      /\ \A k \in 1 .. Len(s) : s[k] \in S
  BY LenProperties, ElementOfSeq
<1>2. /\ front \in Seq(S) /\ Len(front) = i - 1
      /\ \A k \in 1 .. i - 1 : front[k] = s[k]
  <2>1. \A k \in 1 .. i - 1 : s[k] \in S
    BY <1>1
  <2>2. /\ front \in Seq(S)
        /\ Len(front) = IF 1 <= i - 1 THEN (i - 1) - 1 + 1 ELSE 0
        /\ \A k \in 1 .. (i - 1) - 1 + 1 : front[k] = s[1 + k - 1]
    BY <1>1, <2>1, SubSeqProperties
  <2> HIDE DEF front
  <2>3. \A k \in 1 .. i - 1 : 1 + k - 1 = k /\ k \in 1 .. (i - 1) - 1 + 1
    BY <1>1
  <2> QED BY <1>1, <2>2, <2>3
<1>3. /\ back \in Seq(S) /\ Len(back) = Len(s) - i
      /\ \A k \in 1 .. Len(s) - i : back[k] = s[i + k]
  <2>1. \A k \in i + 1 .. Len(s) : s[k] \in S
    BY <1>1
  <2>2. /\ back \in Seq(S)
        /\ Len(back) = IF i + 1 <= Len(s) THEN Len(s) - (i + 1) + 1 ELSE 0
        /\ \A k \in 1 .. Len(s) - (i + 1) + 1 : back[k] = s[(i + 1) + k - 1]
    BY <1>1, <2>1, SubSeqProperties
  <2> HIDE DEF back
  <2>3. \A k \in 1 .. Len(s) - i : (i + 1) + k - 1 = i + k /\ k \in 1 .. Len(s) - (i + 1) + 1
    BY <1>1
  <2> QED BY <1>1, <2>2, <2>3
<1>4. /\ rest \in Seq(S) /\ Len(rest) = Len(s) - 1
      /\ \A j \in 1 .. Len(s) - 1 : rest[j] = IF j <= i - 1 THEN front[j] ELSE back[j - (i - 1)]
  <2>1. rest = front \o back
    BY DEF RemoveAt
  <2> HIDE DEF rest, front, back
  <2>2. Len(front) + Len(back) = Len(s) - 1
    BY <1>1, <1>2, <1>3
  <2>3. /\ rest \in Seq(S) /\ Len(rest) = Len(front) + Len(back)
        /\ \A j \in 1 .. Len(front) + Len(back) :
            rest[j] = IF j <= Len(front) THEN front[j] ELSE back[j - Len(front)]
    BY <1>2, <1>3, <2>1, ConcatProperties
  <2> QED BY <1>2, <2>2, <2>3
<1> HIDE DEF front, back, rest
<1>5. DOMAIN rest = 1 .. Len(s) - 1
  BY <1>4, LenProperties
<1>6. ASSUME NEW j \in 1 .. Len(s) - 1
      PROVE  rest[j] = s[IF j < i THEN j ELSE j + 1]
  <2>1. CASE j < i
    BY <1>1, <1>2, <1>4, <2>1
  <2>2. CASE ~(j < i)
    <3>1. j - (i - 1) \in 1 .. Len(s) - i /\ i + (j - (i - 1)) = j + 1 /\ ~(j <= i - 1)
      BY <1>1, <2>2
    <3> QED BY <1>3, <1>4, <2>2, <3>1
  <2> QED BY <2>1, <2>2
<1> QED BY <1>1, <1>5, <1>6 DEF rest

LEMMA CallShape ==
    ASSUME Inv
    PROVE  /\ calls \in Seq(Call) /\ Len(calls) \in Nat /\ DOMAIN calls = 1 .. Len(calls)
           /\ \A i \in DOMAIN calls : /\ calls[i] \in Call
                                      /\ calls[i].kind \in Actions => calls[i].order \in Orders /\ HasList
                                      /\ calls[i].live => calls[i].user = screen.user
<1>1. calls \in Seq(Call)
  BY DEF Inv, TypeOK
<1>2. \A i \in DOMAIN calls : calls[i] \in Legal(screen.page, screen.user, HasList)
  BY Unchanged DEF Inv
<1> QED BY <1>1, <1>2, LenProperties DEF Legal

\* How crossed goes on.
CrossedStep ==
    crossed' = (InFlight' # {} /\ (crossed \/ \E i, j \in InFlight' : calls'[i].order # calls'[j].order))

\* No action comes or goes.
LEMMA MarkStays ==
    ASSUME MarkFollows, CrossedStep, InFlight' = InFlight, screen'.busy = screen.busy,
           \A i \in InFlight : calls'[i].order = calls[i].order
    PROVE  MarkFollows'
<1>1. crossed' => InFlight' # {}
  BY DEF CrossedStep
<1>2. ASSUME ~crossed'
      PROVE  /\ \A i, j \in InFlight' : i = j
             /\ \A i \in InFlight' : calls'[i].order = screen'.busy
             /\ screen'.busy # NoOrder => InFlight' # {}
  <2>1. ~crossed
    BY <1>2 DEF CrossedStep, MarkFollows
  <2> QED BY <2>1 DEF MarkFollows
<1> QED BY <1>1, <1>2 DEF MarkFollows

LEMMA MarkClick ==
    ASSUME Inv, MarkFollows, CrossedStep,
           NEW kind \in Actions, NEW o \in Orders, NEW target \in OrderStatus, Click(kind, o, target)
    PROVE  MarkFollows'
<1> DEFINE n == Len(calls)
           new == Made(kind, o, target)
<1>1. /\ calls' = Append(calls, new) /\ screen'.busy = o /\ screen.busy # o
  BY Unchanged DEF Click, Offered, Ask, Inv
<1>2. new.kind = kind /\ new.order = o
  BY DEF Made
<1>3. n \in Nat /\ DOMAIN calls = 1 .. n
  BY CallShape
<1>4. /\ DOMAIN calls' = 1 .. n + 1 /\ calls'[n + 1] = new
      /\ \A i \in 1 .. n : calls'[i] = calls[i]
  <2> HIDE DEF new
  <2>1. calls \in Seq(Call \union {new})
    BY CallShape, SeqGrows
  <2>2. Len(calls') = n + 1 /\ calls'[n + 1] = new /\ (\A i \in 1 .. n : calls'[i] = calls[i])
        /\ calls' \in Seq(Call \union {new})
    BY <1>1, <2>1, AppendProperties
  <2>3. DOMAIN calls' = 1 .. n + 1
    BY <2>2, LenProperties
  <2> QED BY <2>2, <2>3
<1> HIDE DEF n, new
<1>5. InFlight' = InFlight \union {n + 1}
  BY <1>2, <1>3, <1>4 DEF InFlight
<1>6. crossed' => InFlight' # {}
  BY DEF CrossedStep
<1>7. ASSUME ~crossed'
      PROVE  /\ \A i, j \in InFlight' : i = j
             /\ \A i \in InFlight' : calls'[i].order = screen'.busy
             /\ screen'.busy # NoOrder => InFlight' # {}
  <2>1. ~crossed /\ \A i, j \in InFlight' : calls'[i].order = calls'[j].order
    BY <1>5, <1>7 DEF CrossedStep
  <2>2. \A i \in InFlight : calls[i].order = screen.busy /\ i \in 1 .. n
    BY <1>3, <2>1 DEF MarkFollows, InFlight
  <2>3. ASSUME NEW i \in InFlight
        PROVE  FALSE
    <3>1. calls'[i].order = screen.busy
      BY <1>4, <2>2
    <3>2. calls'[n + 1].order = o
      BY <1>2, <1>4
    <3>3. i \in InFlight' /\ n + 1 \in InFlight'
      BY <1>5
    <3> QED BY <1>1, <2>1, <3>1, <3>2, <3>3
  <2> QED BY <1>1, <1>2, <1>4, <1>5, <2>3
<1> QED BY <1>6, <1>7 DEF MarkFollows

LEMMA MarkArrive ==
    ASSUME Inv, MarkFollows, CrossedStep, NEW i \in DOMAIN calls, Arrive(i)
    PROVE  MarkFollows'
<1> DEFINE n == Len(calls)
           at(j) == IF j < i THEN j ELSE j + 1
<1>1. /\ calls' = RemoveAt(calls, i)
      /\ calls[i].kind \in Actions => screen'.busy = NoOrder
      /\ calls[i].kind \notin Actions => screen'.busy = screen.busy
  BY Unchanged DEF Arrive, Inv
<1>2. /\ n \in Nat /\ DOMAIN calls = 1 .. n /\ DOMAIN calls' = 1 .. n - 1
      /\ \A j \in 1 .. n - 1 : calls'[j] = calls[at(j)]
  BY <1>1, CallShape, RemovalShape
<1>3. \A j \in 1 .. n - 1 : at(j) \in 1 .. n /\ at(j) # i
  BY <1>2
<1>4. \A j, k \in 1 .. n - 1 : at(j) = at(k) => j = k
  BY <1>2
<1>5. \A k \in 1 .. n : k # i => \E j \in 1 .. n - 1 : at(j) = k
  <2> SUFFICES ASSUME NEW k \in 1 .. n, k # i
               PROVE  \E j \in 1 .. n - 1 : at(j) = k
    OBVIOUS
  <2>1. CASE k < i
    <3>1. k \in 1 .. n - 1 /\ at(k) = k
      BY <1>2, <2>1
    <3> QED BY <3>1
  <2>2. CASE ~(k < i)
    <3>1. k - 1 \in 1 .. n - 1 /\ at(k - 1) = k
      BY <1>2, <2>2
    <3> QED BY <3>1
  <2> QED BY <2>1, <2>2
<1> HIDE DEF at, n
<1>6. \A j \in InFlight' : j \in 1 .. n - 1 /\ at(j) \in InFlight
  BY <1>2, <1>3 DEF InFlight
<1>7. \A k \in InFlight : k # i => \E j \in InFlight' : at(j) = k
  BY <1>2, <1>3, <1>5 DEF InFlight
<1>8. crossed' => InFlight' # {}
  BY DEF CrossedStep
<1>9. ASSUME ~crossed'
      PROVE  /\ \A j, k \in InFlight' : j = k
             /\ \A j \in InFlight' : calls'[j].order = screen'.busy
             /\ screen'.busy # NoOrder => InFlight' # {}
  <2>1. CASE InFlight' = {}
    <3>1. CASE calls[i].kind \in Actions
      BY <1>1, <2>1, <3>1
    <3>2. CASE calls[i].kind \notin Actions
      <4>1. InFlight = {}
        BY <1>7, <2>1, <3>2 DEF InFlight
      <4>2. ~crossed
        BY <4>1 DEF MarkFollows
      <4> QED BY <1>1, <2>1, <3>2, <4>1, <4>2 DEF MarkFollows
    <3> QED BY <3>1, <3>2
  <2>2. CASE InFlight' # {}
    <3>1. ~crossed
      BY <1>9, <2>2 DEF CrossedStep
    <3>2. \A j, k \in InFlight : j = k
      BY <3>1 DEF MarkFollows
    <3>3. calls[i].kind \notin Actions
      <4>1. PICK j \in InFlight' : TRUE
        BY <2>2
      <4>2. at(j) \in InFlight /\ at(j) # i
        BY <1>3, <1>6, <4>1
      <4> QED BY <3>2, <4>2 DEF InFlight
    <3>4. \A j \in InFlight' : calls'[j].order = screen'.busy
      BY <1>1, <1>2, <1>6, <3>1, <3>3 DEF MarkFollows
    <3>5. \A j, k \in InFlight' : j = k
      BY <1>4, <1>6, <3>2
    <3> QED BY <2>2, <3>4, <3>5
  <2> QED BY <2>1, <2>2
<1> QED BY <1>8, <1>9 DEF MarkFollows

\* A call that goes on stays where it is, and what was asked stays the same.
LEMMA ServeShape ==
    ASSUME Inv, NEW i \in DOMAIN calls, NEW at, NEW result, Serve(i, at, result)
    PROVE  /\ DOMAIN calls' = DOMAIN calls
           /\ \A j \in DOMAIN calls : j # i => calls'[j] = calls[j]
           /\ calls'[i].kind = calls[i].kind /\ calls'[i].order = calls[i].order
           /\ calls'[i].live = calls[i].live /\ calls'[i].user = calls[i].user
           /\ calls'[i].at = at /\ calls'[i].result = result
<1> DEFINE e == [calls[i] EXCEPT !.at = at, !.result = result]
<1>1. calls' = [calls EXCEPT ![i] = e]
  BY DEF Serve
<1>2. calls[i] \in Call
  BY CallShape
<1>3. /\ e.kind = calls[i].kind /\ e.order = calls[i].order /\ e.live = calls[i].live
      /\ e.user = calls[i].user /\ e.at = at /\ e.result = result
  BY <1>2 DEF Call
<1> HIDE DEF e
<1> QED BY <1>1, <1>3

Goes(i) == ServeList(i) \/ ServeAction(i) \/ ServeRefusal(i) \/ Publish(i) \/ Lose(i)

World ==
    \/ \E o \in Orders : OtherCommits(o) \/ OtherCommitsSilently(o) \/ OtherPublishes(o) \/ OtherFails(o)
    \/ Join \/ Refuse \/ Drop

LEMMA GoesShape ==
    ASSUME Inv, NEW i \in DOMAIN calls, Goes(i)
    PROVE  /\ screen' = screen /\ changing' = changing /\ DOMAIN calls' = DOMAIN calls
           /\ \A j \in DOMAIN calls : j # i => calls'[j] = calls[j]
           /\ \A j \in DOMAIN calls : /\ calls'[j].kind = calls[j].kind
                                      /\ calls'[j].order = calls[j].order
                                      /\ calls'[j].live = calls[j].live
<1>1. PICK at, result : Serve(i, at, result)
  BY DEF Goes, ServeList, ServeAction, ServeRefusal, Publish, Lose
<1>2. screen' = screen /\ changing' = changing
  BY DEF Goes, ServeList, ServeAction, ServeRefusal, Publish, Lose
<1> QED BY <1>1, <1>2, ServeShape

\* A listing, or nothing, is asked for at the end.
LEMMA AppendShape ==
    ASSUME Inv, NEW new, calls' = Append(calls, new)
    PROVE  /\ DOMAIN calls' = 1 .. Len(calls) + 1
           /\ calls'[Len(calls) + 1] = new
           /\ \A j \in 1 .. Len(calls) : calls'[j] = calls[j]
<1>1. calls \in Seq(Call \union {new})
  BY CallShape, SeqGrows
<1>2. /\ Len(calls') = Len(calls) + 1 /\ calls'[Len(calls) + 1] = new
      /\ \A i \in 1 .. Len(calls) : calls'[i] = calls[i]
      /\ calls' \in Seq(Call \union {new})
  BY <1>1, AppendProperties
<1> QED BY <1>2, LenProperties

\* SessionChanges: the calls of the former user are marked; there may be one more.
LEMMA SessionShape ==
    ASSUME Inv, NEW u, SessionChanges(u)
    PROVE  /\ u = Nobody => DOMAIN calls' = 1 .. Len(calls)
           /\ u # Nobody => /\ DOMAIN calls' = 1 .. Len(calls) + 1
                            /\ calls'[Len(calls) + 1] = [Listing("initial") EXCEPT !.user = u]
           /\ \A j \in 1 .. Len(calls) : /\ calls'[j].kind = calls[j].kind
                                         /\ calls'[j].order = calls[j].order
                                         /\ calls'[j].at = calls[j].at
                                         /\ calls'[j].result = calls[j].result
<1> DEFINE n == Len(calls)
           left == [i \in DOMAIN calls |-> [calls[i] EXCEPT !.live = FALSE]]
           new == [Listing("initial") EXCEPT !.user = u]
<1>1. /\ u # Nobody => calls' = Append(left, new)
      /\ u = Nobody => calls' = left
  BY DEF SessionChanges
<1>2. n \in Nat /\ DOMAIN calls = 1 .. n
  BY CallShape
<1>3. \A j \in 1 .. n : /\ left[j].kind = calls[j].kind /\ left[j].order = calls[j].order
                        /\ left[j].at = calls[j].at /\ left[j].result = calls[j].result
  BY <1>2, CallShape DEF Call
<1>4. left \in Seq(Call) /\ Len(left) = n /\ DOMAIN left = 1 .. n
  <2>1. left \in [1 .. n -> Call]
    <3>1. \A j \in 1 .. n : [calls[j] EXCEPT !.live = FALSE] \in Call
      BY <1>2, CallShape DEF Call
    <3> QED BY <1>2, <3>1
  <2> HIDE DEF left
  <2> QED BY <1>2, <2>1, SeqDef
<1> HIDE DEF n, left, new
<1>5. CASE u = Nobody
  BY <1>1, <1>3, <1>4, <1>5 DEF n
<1>6. CASE u # Nobody
  <2>1. left \in Seq(Call \union {new})
    BY <1>4, SeqGrows
  <2>2. /\ Len(calls') = n + 1 /\ calls'[n + 1] = new
        /\ \A j \in 1 .. n : calls'[j] = left[j]
        /\ calls' \in Seq(Call \union {new})
    BY <1>1, <1>4, <1>6, <2>1, AppendProperties
  <2>3. DOMAIN calls' = 1 .. n + 1
    BY <2>2, LenProperties
  <2> QED BY <1>3, <1>6, <2>2, <2>3 DEF n, new
<1> QED BY <1>5, <1>6

LEMMA MarkStep ==
    ASSUME Inv, MarkFollows, [HNext]_hvars
    PROVE  MarkFollows'
<1> DEFINE n == Len(calls)
<1>1. CASE UNCHANGED hvars
  BY <1>1 DEF hvars, vars, MarkFollows, InFlight
<1>2. CASE HNext
  <2>1. Next /\ CrossedStep
    BY <1>2 DEF HNext, CrossedStep
  <2>2. n \in Nat /\ DOMAIN calls = 1 .. n
    BY CallShape
  <2>3. ASSUME NEW i \in DOMAIN calls, Goes(i)
        PROVE  MarkFollows'
    <3>1. InFlight' = InFlight /\ \A j \in InFlight : calls'[j].order = calls[j].order
      BY <2>3, GoesShape DEF InFlight
    <3>2. screen'.busy = screen.busy
      BY <2>3, GoesShape
    <3> QED BY <2>1, <3>1, <3>2, MarkStays
  <2>4. ASSUME World
        PROVE  MarkFollows'
    <3>1. calls' = calls /\ screen' = screen
      BY <2>4 DEF World, OtherCommits, OtherCommitsSilently, OtherPublishes, OtherFails, Join, Refuse, Drop
    <3>2. InFlight' = InFlight
      BY <3>1 DEF InFlight
    <3> QED BY <2>1, <3>1, <3>2, MarkStays
  <2>5. ASSUME NEW kind \in {"reload", "refresh"}, Ask(Listing(kind)), screen' = screen
        PROVE  MarkFollows'
    <3>1. kind \notin Actions /\ Listing(kind).kind = kind
      BY DEF Actions, Listing, Made
    <3>2. /\ DOMAIN calls' = 1 .. n + 1 /\ calls'[n + 1].kind = kind
          /\ \A j \in 1 .. n : calls'[j] = calls[j]
      BY <2>5, <3>1, AppendShape DEF Ask
    <3> HIDE DEF n
    <3>3. InFlight' = InFlight
      BY <2>2, <3>1, <3>2 DEF InFlight
    <3>4. \A j \in InFlight : calls'[j].order = calls[j].order
      BY <2>2, <3>2 DEF InFlight
    <3> QED BY <2>1, <2>5, <3>3, <3>4, MarkStays
  <2>6. ASSUME NEW u \in Visitors(screen.page), SessionChanges(u)
        PROVE  MarkFollows'
    <3>1. "initial" \notin Actions /\ [Listing("initial") EXCEPT !.user = u].kind = "initial"
      BY DEF Actions, Listing, Made
    <3>2. InFlight' = InFlight
      <4>1. CASE u = Nobody
        BY <2>2, <2>6, <4>1, SessionShape DEF InFlight
      <4>2. CASE u # Nobody
        <5>1. DOMAIN calls' = 1 .. n + 1 /\ calls'[n + 1].kind \notin Actions
          BY <2>6, <3>1, <4>2, SessionShape
        <5>2. \A j \in 1 .. n : calls'[j].kind = calls[j].kind
          BY <2>6, SessionShape
        <5> HIDE DEF n
        <5> QED BY <2>2, <5>1, <5>2 DEF InFlight
      <4> QED BY <4>1, <4>2
    <3>3. \A j \in InFlight : calls'[j].order = calls[j].order
      BY <2>2, <2>6, SessionShape DEF InFlight
    <3>4. screen'.busy = screen.busy
      BY <2>6, Unchanged DEF SessionChanges, Inv
    <3> QED BY <2>1, <3>2, <3>3, <3>4, MarkStays
  <2>7. \/ World
        \/ \E i \in DOMAIN calls : Goes(i) \/ Arrive(i)
        \/ \E kind \in Actions, o \in Orders, target \in OrderStatus : Click(kind, o, target)
        \/ \E u \in Visitors(screen.page) : SessionChanges(u)
        \/ ReceiveEvent \/ Refresh
    BY <2>1 DEF Next, Progress, World, Goes
  <2>8. ASSUME ReceiveEvent \/ Refresh
        PROVE  MarkFollows'
    BY <2>5, <2>8 DEF ReceiveEvent, Refresh
  <2> QED BY <2>1, <2>3, <2>4, <2>6, <2>7, <2>8, MarkClick, MarkArrive
<1> QED BY <1>1, <1>2

-----------------------------------------------------------------------------
(* The page and its calls go together *)

\* The disjuncts of Next, by what they do to the calls.
LEMMA NextShape ==
    ASSUME Next
    PROVE  \/ World
           \/ \E i \in DOMAIN calls : Goes(i)
           \/ \E i \in DOMAIN calls : Arrive(i)
           \/ \E kind \in Actions, o \in Orders, target \in OrderStatus : Click(kind, o, target)
           \/ \E u \in Visitors(screen.page) : SessionChanges(u)
           \/ ReceiveEvent \/ Refresh
BY DEF Next, Progress, World, Goes

LEMMA WorldShape ==
    ASSUME World
    PROVE  calls' = calls /\ screen' = screen
BY DEF World, OtherCommits, OtherCommitsSilently, OtherPublishes, OtherFails, Join, Refuse, Drop

\* A call that goes on fits the page still.
LEMMA GoesFits ==
    ASSUME Inv, PageFits, NEW i \in DOMAIN calls, Goes(i)
    PROVE  \A j \in DOMAIN calls' : Fits(screen'.page, calls'[j])
<1> DEFINE c == calls[i]
<1>1. /\ screen' = screen /\ DOMAIN calls' = DOMAIN calls
      /\ \A j \in DOMAIN calls : calls'[j].kind = calls[j].kind /\ calls'[j].order = calls[j].order
  BY GoesShape
<1>2. PICK at, result : /\ Serve(i, at, result)
                        /\ c.kind \in Actions /\ at \in {"publish", "answered"} => DOMAIN result = {c.order}
                        /\ at = "publish" => c.kind \in Actions
  <2>1. CASE ServeList(i)
    BY <2>1 DEF ServeList
  <2>2. CASE ServeAction(i)
    <3>1. c.kind \in Actions
      BY <2>2 DEF ServeAction
    <3>2. PICK r : Serve(i, IF c.kind = "regenerate" THEN "answered" ELSE "publish", [o \in {c.order} |-> r])
      BY <2>2 DEF ServeAction
    <3>3. DOMAIN [o \in {c.order} |-> r] = {c.order}
      OBVIOUS
    <3> QED BY <3>1, <3>2, <3>3
  <2>3. CASE ServeRefusal(i)
    BY <2>3 DEF ServeRefusal
  <2>4. CASE Publish(i)
    BY <2>4 DEF Publish, PageFits, Fits
  <2>5. CASE Lose(i)
    BY <2>5 DEF Lose
  <2> QED BY <2>1, <2>2, <2>3, <2>4, <2>5 DEF Goes
<1>3. \A j \in DOMAIN calls : j # i => calls'[j] = calls[j]
  BY <1>2, ServeShape
<1>4. calls'[i].at = at /\ calls'[i].result = result
  BY <1>2, ServeShape
<1> QED BY <1>1, <1>2, <1>3, <1>4 DEF PageFits, Fits

LEMMA PageStep ==
    ASSUME Inv, PageFits, [HNext]_hvars
    PROVE  PageFits'
<1> DEFINE n == Len(calls)
<1>0. n \in Nat /\ DOMAIN calls = 1 .. n
  BY CallShape
<1>1. CASE UNCHANGED hvars
  BY <1>1 DEF hvars, vars, PageFits
<1>2. ASSUME World
      PROVE  PageFits'
  BY <1>2, WorldShape DEF PageFits
<1>3. ASSUME NEW i \in DOMAIN calls, Goes(i)
      PROVE  PageFits'
  BY <1>3, GoesFits, GoesShape DEF PageFits
<1>4. ASSUME NEW i \in DOMAIN calls, Arrive(i)
      PROVE  PageFits'
  <2>1. screen'.page = screen.page /\ screen'.user = screen.user /\ calls' = RemoveAt(calls, i)
    BY <1>4, Unchanged DEF Arrive, Inv
  <2>2. /\ DOMAIN calls' = 1 .. n - 1
        /\ \A j \in 1 .. n - 1 : calls'[j] = calls[IF j < i THEN j ELSE j + 1]
    BY <2>1, CallShape, RemovalShape
  <2>3. \A j \in 1 .. n - 1 : (IF j < i THEN j ELSE j + 1) \in 1 .. n
    BY <1>0
  <2> HIDE DEF n
  <2> QED BY <1>0, <2>1, <2>2, <2>3 DEF PageFits
<1>5. ASSUME NEW new, calls' = Append(calls, new), Fits(screen.page, new),
             screen'.page = screen.page, screen'.user = screen.user
      PROVE  PageFits'
  <2>1. /\ DOMAIN calls' = 1 .. n + 1 /\ calls'[n + 1] = new
        /\ \A j \in 1 .. n : calls'[j] = calls[j]
    BY <1>5, AppendShape
  <2> HIDE DEF n
  <2> QED BY <1>0, <1>5, <2>1 DEF PageFits
<1>6. ASSUME NEW kind \in Actions, NEW o \in Orders, NEW target \in OrderStatus, Click(kind, o, target)
      PROVE  PageFits'
  <2>1. /\ calls' = Append(calls, Made(kind, o, target))
        /\ screen'.page = screen.page /\ screen'.user = screen.user
    BY <1>6, Unchanged DEF Click, Ask, Inv
  <2>2. kind = "regenerate" => screen.page = "orders"
    BY <1>6 DEF Click, Offered
  <2>3. Fits(screen.page, Made(kind, o, target))
    BY <2>2 DEF Fits, Made
  <2> QED BY <1>5, <2>1, <2>3
<1>7. ASSUME NEW u \in Visitors(screen.page), SessionChanges(u)
      PROVE  PageFits'
  <2>1. screen'.page = screen.page /\ screen'.user = u
    BY <1>7, Unchanged DEF SessionChanges, Inv
  <2>2. screen.page = "kitchen" => u \in {Staff, Nobody}
    BY DEF Visitors
  <2>3. \A j \in 1 .. n : Fits(screen'.page, calls'[j])
    <3>1. \A j \in 1 .. n : /\ calls'[j].kind = calls[j].kind /\ calls'[j].order = calls[j].order
                            /\ calls'[j].at = calls[j].at /\ calls'[j].result = calls[j].result
      BY <1>7, SessionShape
    <3> HIDE DEF n
    <3> QED BY <1>0, <2>1, <3>1 DEF PageFits, Fits
  <2>4. CASE u = Nobody
    <3>1. DOMAIN calls' = 1 .. n
      BY <1>7, <2>4, SessionShape
    <3> QED BY <2>1, <2>2, <2>3, <3>1 DEF PageFits
  <2>5. CASE u # Nobody
    <3>1. DOMAIN calls' = 1 .. n + 1 /\ calls'[n + 1] = [Listing("initial") EXCEPT !.user = u]
      BY <1>7, <2>5, SessionShape
    <3>2. Fits(screen'.page, calls'[n + 1])
      BY <3>1 DEF Fits, Listing, Made, Actions
    <3> HIDE DEF n
    <3> QED BY <1>0, <2>1, <2>2, <2>3, <3>1, <3>2 DEF PageFits
  <2> QED BY <2>4, <2>5
<1>8. ASSUME ReceiveEvent \/ Refresh
      PROVE  PageFits'
  <2>1. PICK kind \in {"reload", "refresh"} : calls' = Append(calls, Listing(kind)) /\ screen' = screen
    BY <1>8 DEF ReceiveEvent, Refresh, Ask
  <2>2. Fits(screen.page, Listing(kind))
    BY DEF Fits, Listing, Made, Actions
  <2> QED BY <1>5, <2>1, <2>2
<1>9. CASE HNext
  <2>1. Next
    BY <1>9 DEF HNext
  <2> QED BY <1>2, <1>3, <1>4, <1>6, <1>7, <1>8, <2>1, NextShape
<1> QED BY <1>1, <1>9

-----------------------------------------------------------------------------
(* What the page is told *)

\* The statuses listed depend on the statuses of the orders this user hears of.
LEMMA SameStatuses ==
    ASSUME NEW r \in [Orders -> Row], NEW s \in [Orders -> Row], NEW page, NEW u,
           page = "kitchen" => u = Staff,
           \A o \in Orders : Addressed(o, u) => r[o].status = s[o].status
    PROVE  Statuses(Fetch(page, u, r)) = Statuses(Fetch(page, u, s))
<1>1. CASE page = "kitchen"
  <2> DEFINE Q(rows) == {x \in Orders : rows[x].status \in KanbanVisible}
  <2>1. \A o \in Orders : r[o].status = s[o].status
    BY <1>1 DEF Addressed
  <2>2. Q(r) = Q(s)
    BY <2>1
  <2>3. /\ DOMAIN Queue(r) = Q(r) /\ \A o \in Q(r) : Queue(r)[o] = r[o]
        /\ DOMAIN Queue(s) = Q(s) /\ \A o \in Q(s) : Queue(s)[o] = s[o]
    BY DEF Queue
  <2>4. Statuses(Queue(r)) = [o \in Q(r) |-> r[o].status]
    BY <2>3 DEF Statuses
  <2>5. Statuses(Queue(s)) = [o \in Q(s) |-> s[o].status]
    BY <2>3 DEF Statuses
  <2> QED BY <1>1, <2>1, <2>2, <2>4, <2>5 DEF Fetch
<1>2. CASE page # "kitchen"
  <2> DEFINE M == {x \in Orders : Owner[x] = u}
  <2>1. \A o \in M : r[o].status = s[o].status
    BY DEF Addressed
  <2>2. Statuses(MyOrders(u, r)) = [o \in M |-> r[o].status]
    BY DEF Statuses, MyOrders
  <2>3. Statuses(MyOrders(u, s)) = [o \in M |-> s[o].status]
    BY DEF Statuses, MyOrders
  <2> QED BY <1>2, <2>1, <2>2, <2>3 DEF Fetch
<1> QED BY <1>1, <1>2

\* No row this user hears of changes its status.
Kept == \A o \in Orders : Addressed(o, screen.user) => row'[o].status = row[o].status

LEMMA UpToDateKept ==
    ASSUME Inv, PageFits, row' \in [Orders -> Row], Present, Kept,
           screen'.page = screen.page, screen'.user = screen.user
    PROVE  /\ \A list : UpToDate(list) =>
                Statuses(list) = Statuses(Fetch(screen'.page, screen'.user, row'))
           /\ \A c : c.kind \in Actions /\ Tells(c) =>
                \A o \in DOMAIN c.result \cap Orders : Addressed(o, screen'.user) =>
                    c.kind = "regenerate" /\ c.result[o].status = row'[o].status
<1>1. screen.page = "kitchen" => screen.user = Staff
  BY DEF PageFits, Present
<1>2. row \in [Orders -> Row]
  BY DEF Inv, TypeOK
<1>3. Statuses(Fetch(screen.page, screen.user, row)) = Statuses(Fetch(screen.page, screen.user, row'))
  BY <1>1, <1>2, SameStatuses DEF Kept
<1> QED BY <1>3 DEF UpToDate, Tells, Kept

\* An event only adds to what waits in the socket.
LEMMA EmitGrows ==
    ASSUME Inv, NEW o, Emit(o)
    PROVE  inbox \in Nat /\ inbox' \in Nat /\ inbox' >= inbox /\ (~Addressed(o, screen.user) => inbox' = inbox)
<1>1. inbox \in Nat /\ inbox <= MaxEvents /\ MaxEvents \in Nat
  BY LiveAssumption DEF Inv, TypeOK
<1>2. PICK n \in Dispatched :
        inbox' = IF socket = "joined" /\ Addressed(o, screen.user)
                 THEN Min({inbox + n, MaxEvents}) ELSE inbox
  BY DEF Emit
<1>3. n \in Nat
  BY DEF Dispatched, ByRedis
<1>4. ASSUME NEW a \in Nat, NEW b \in Nat, a >= inbox, b >= inbox
      PROVE  Min({a, b}) \in Nat /\ Min({a, b}) >= inbox
  BY <1>1, <1>4, MinOfTwo
<1>5. Min({inbox + n, MaxEvents}) \in Nat /\ Min({inbox + n, MaxEvents}) >= inbox
  BY <1>1, <1>3, <1>4
<1> QED BY <1>1, <1>2, <1>5

\* A change that is not owed any more was told to the page, unless an event
\* was missed.
LEMMA Told ==
    ASSUME Inv, NEW o \in Orders, Addressed(o, screen.user), ~MissedEvent,
           Unpublished(o)' < Unpublished(o), inbox' \in Nat, inbox' >= inbox
    PROVE  inbox' > 0
<1>1. inbox \in Nat /\ MaxEvents \in Nat \ {0}
  BY LiveAssumption DEF Inv, TypeOK
<1>2. ~(inbox' <= inbox /\ (inbox < MaxEvents \/ socket # "joined"))
  BY DEF MissedEvent, Addressed
<1> QED BY <1>1, <1>2

\* Call i is published, or fails to be.
LEMMA FewerCalls ==
    ASSUME Inv, NEW o \in Orders, NEW i \in DOMAIN calls, calls[i].at = "publish", calls[i].order = o,
           DOMAIN calls' = DOMAIN calls, \A j \in DOMAIN calls : j # i => calls'[j] = calls[j],
           calls'[i].at # "publish", changing' = changing
    PROVE  Unpublished(o)' < Unpublished(o)
<1> DEFINE S == {j \in DOMAIN calls : calls[j].at = "publish" /\ calls[j].order = o}
           T == {j \in DOMAIN calls' : calls'[j].at = "publish" /\ calls'[j].order = o}
<1>1. i \in S /\ T = S \ {i}
  OBVIOUS
<1>2. IsFiniteSet(S)
  <2>1. S \subseteq 1 .. Len(calls) /\ Len(calls) \in Nat
    BY CallShape
  <2>2. IsFiniteSet(1 .. Len(calls))
    BY <2>1, FS_Interval
  <2> HIDE DEF S
  <2> QED BY <2>1, <2>2, FS_Subset
<1>3. Unpublished(o) = changing[o] + Cardinality(S) /\ Unpublished(o)' = changing[o] + Cardinality(T)
  BY DEF Unpublished
<1>4. changing[o] \in Nat
  BY DEF Inv, TypeOK
<1> HIDE DEF S, T
<1>5. Cardinality(T) = Cardinality(S) - 1 /\ Cardinality(S) \in Nat
  BY <1>1, <1>2, FS_RemoveElement, FS_CardinalityType
<1> QED BY <1>3, <1>4, <1>5

LEMMA FewerChanges ==
    ASSUME Inv, NEW o \in Orders, changing[o] > 0, changing' = [changing EXCEPT ![o] = @ - 1],
           calls' = calls
    PROVE  Unpublished(o)' < Unpublished(o)
<1> DEFINE S == {j \in DOMAIN calls : calls[j].at = "publish" /\ calls[j].order = o}
<1>1. IsFiniteSet(S)
  <2>1. S \subseteq 1 .. Len(calls) /\ Len(calls) \in Nat
    BY CallShape
  <2>2. IsFiniteSet(1 .. Len(calls))
    BY <2>1, FS_Interval
  <2> HIDE DEF S
  <2> QED BY <2>1, <2>2, FS_Subset
<1>2. changing \in [Orders -> {0, 1}]
  BY DEF Inv, TypeOK
<1>3. changing'[o] = changing[o] - 1 /\ changing[o] \in {0, 1}
  BY <1>2
<1>4. Unpublished(o) = changing[o] + Cardinality(S) /\ Unpublished(o)' = changing'[o] + Cardinality(S)
  BY DEF Unpublished
<1> HIDE DEF S
<1>5. Cardinality(S) \in Nat
  BY <1>1, FS_CardinalityType
<1> QED BY <1>3, <1>4, <1>5

-----------------------------------------------------------------------------
(* The page follows the orders *)

\* No call comes or goes: what waits goes on waiting, rows this user hears of
\* keep their status or a listing is awaited, and what is answered is good.
LEMMA FollowsKept ==
    ASSUME Inv, PageFits, Follows, row' \in [Orders -> Row], screen' = screen,
           DOMAIN calls' = DOMAIN calls,
           \A j \in DOMAIN calls : calls'[j].kind = calls[j].kind /\ calls'[j].live = calls[j].live,
           Present => (Awaited => Awaited') /\ (Awaited' \/ Kept),
           Present => \A j \in DOMAIN calls :
               \/ calls'[j] = calls[j]
               \/ calls'[j].at # "answered"
               \/ Awaited'
               \/ calls'[j].kind \notin Actions
                  /\ Statuses(calls'[j].result) = Statuses(Fetch(screen'.page, screen'.user, row'))
               \/ calls'[j].kind \in Actions
                  /\ \A o \in DOMAIN calls'[j].result : Addressed(o, screen'.user) =>
                        calls'[j].kind = "regenerate" /\ calls'[j].result[o].status = row'[o].status
    PROVE  Follows'
<1>0. ASSUME Present, Kept
      PROVE  /\ \A list : UpToDate(list) =>
                  Statuses(list) = Statuses(Fetch(screen'.page, screen'.user, row'))
             /\ \A c : c.kind \in Actions /\ Tells(c) =>
                  \A o \in DOMAIN c.result \cap Orders : Addressed(o, screen'.user) =>
                      c.kind = "regenerate" /\ c.result[o].status = row'[o].status
  BY <1>0, UpToDateKept
<1>1. \A i \in DOMAIN calls' : calls'[i].live
  BY DEF Follows
<1>2. ASSUME Present'
      PROVE  Present /\ (Awaited => Awaited') /\ (Awaited' \/ Kept)
  BY <1>2 DEF Present
<1>3. ASSUME Present', NEW i \in DOMAIN calls', Latest(i)', calls'[i].at = "answered"
      PROVE  \/ Awaited'
             \/ calls'[i].kind \notin Actions
                  /\ Statuses(calls'[i].result) = Statuses(Fetch(screen'.page, screen'.user, row'))
             \/ calls'[i].kind \in Actions
                  /\ \A o \in DOMAIN calls'[i].result : Addressed(o, screen'.user) =>
                        calls'[i].kind = "regenerate" /\ calls'[i].result[o].status = row'[o].status
  <2> SUFFICES ASSUME ~Awaited', calls'[i] = calls[i]
               PROVE  \/ calls'[i].kind \notin Actions
                         /\ Statuses(calls'[i].result) = Statuses(Fetch(screen'.page, screen'.user, row'))
                      \/ calls'[i].kind \in Actions
                         /\ \A o \in DOMAIN calls'[i].result : Addressed(o, screen'.user) =>
                             calls'[i].kind = "regenerate" /\ calls'[i].result[o].status = row'[o].status
    BY <1>2, <1>3
  <2>1. Latest(i) /\ i \in DOMAIN calls
    BY <1>3 DEF Latest
  <2>2. Good(calls[i]) /\ ~Awaited /\ Kept
    BY <1>2, <1>3, <2>1 DEF Follows
  <2>3. DOMAIN calls[i].result \subseteq Orders
    BY <2>1, CallShape, OfList DEF Call
  <2>4. CASE calls[i].kind \notin Actions
    <3>1. UpToDate(calls[i].result)
      BY <2>2, <2>4 DEF Good
    <3>2. Statuses(calls[i].result) = Statuses(Fetch(screen'.page, screen'.user, row'))
      BY <1>0, <1>2, <1>3, <2>2, <3>1
    <3> QED BY <2>4, <3>2
  <2>5. CASE calls[i].kind \in Actions
    <3>1. Tells(calls[i])
      BY <2>2, <2>5 DEF Good
    <3>2. \A o \in DOMAIN calls[i].result \cap Orders : Addressed(o, screen'.user) =>
              calls[i].kind = "regenerate" /\ calls[i].result[o].status = row'[o].status
      BY <1>0, <1>2, <1>3, <2>2, <2>5, <3>1
    <3> QED BY <2>3, <2>5, <3>2
  <2> QED BY <2>4, <2>5
<1>4. ASSUME Present', HasList', \A i \in DOMAIN calls' : calls'[i].kind \in Actions
      PROVE  Awaited' \/ UpToDate(screen.list)'
  <2>1. Awaited \/ UpToDate(screen.list)
    BY <1>2, <1>4 DEF Follows, HasList
  <2> QED BY <1>0, <1>2, <1>4, <2>1 DEF UpToDate
<1> QED BY <1>1, <1>3, <1>4 DEF Follows, Good, UpToDate, Tells

\* An event that does not concern the state of an order.
LEMMA SilentRow ==
    ASSUME NEW r \in Row, NEW s \in Unannounced(r)
    PROVE  s.status = r.status
BY DEF Unannounced, Row

\* What the world outside does is told to the page, unless an event is missed.
LEMMA FollowsWorld ==
    ASSUME Inv, Inv', PageFits, Follows, ~MissedEvent, World
    PROVE  Follows'
<1>1. row' \in [Orders -> Row] /\ row \in [Orders -> Row] /\ changing \in [Orders -> {0, 1}] /\ inbox \in Nat
  BY DEF Inv, TypeOK
<1>2. calls' = calls /\ screen' = screen
  BY WorldShape
<1>3. SUFFICES (Awaited => Awaited') /\ (Awaited' \/ Kept)
  BY <1>1, <1>2, FollowsKept
<1>4. ASSUME inbox > 0 => inbox' > 0,
             \A o \in Orders : Addressed(o, screen.user) => changing'[o] >= changing[o]
      PROVE  Awaited => Awaited'
  <2>1. ASSUME NEW o \in Orders, Addressed(o, screen.user), Owed(o)
        PROVE  Owed(o)'
    <3>1. changing[o] \in {0, 1} /\ changing'[o] \in {0, 1} /\ changing'[o] >= changing[o]
      BY <1>1, <1>4, <2>1 DEF Inv, TypeOK
    <3> QED BY <1>2, <2>1, <3>1 DEF Owed
  <2> QED BY <1>2, <1>4, <2>1 DEF Awaited
<1>5. ASSUME NEW o \in Orders, OtherCommits(o)
      PROVE  (Awaited => Awaited') /\ (Awaited' \/ Kept)
  <2>1. inbox' = inbox /\ changing' = [changing EXCEPT ![o] = 1] /\ \A x \in Orders : x # o => row'[x] = row[x]
    BY <1>1, <1>5 DEF OtherCommits, Commit
  <2>2. changing'[o] = 1 /\ \A x \in Orders : changing'[x] >= changing[x]
    BY <1>1, <2>1
  <2>3. CASE Addressed(o, screen.user)
    BY <1>2, <1>4, <2>1, <2>2, <2>3 DEF Awaited, Owed
  <2>4. CASE ~Addressed(o, screen.user)
    BY <1>4, <2>1, <2>2, <2>4 DEF Kept
  <2> QED BY <2>3, <2>4
<1>6. ASSUME NEW o \in Orders, OtherCommitsSilently(o)
      PROVE  (Awaited => Awaited') /\ (Awaited' \/ Kept)
  <2>1. PICK r \in Unannounced(row[o]) : row' = [row EXCEPT ![o] = r]
    BY <1>6 DEF OtherCommitsSilently, Commit
  <2>2. r.status = row[o].status
    BY <1>1, SilentRow
  <2>3. Kept
    BY <1>1, <2>1, <2>2 DEF Kept
  <2>4. inbox' = inbox /\ changing' = changing
    BY <1>6 DEF OtherCommitsSilently
  <2> QED BY <1>1, <1>4, <2>3, <2>4
<1>7. ASSUME NEW o \in Orders, OtherPublishes(o) \/ OtherFails(o)
      PROVE  (Awaited => Awaited') /\ (Awaited' \/ Kept)
  <2>1. /\ changing[o] > 0 /\ changing' = [changing EXCEPT ![o] = @ - 1]
        /\ row' = row /\ (Emit(o) \/ inbox' = inbox)
    BY <1>7 DEF OtherPublishes, OtherFails
  <2>2. inbox' \in Nat /\ inbox' >= inbox
    BY <1>1, <2>1, EmitGrows
  <2>3. Kept
    BY <1>7 DEF Kept, OtherPublishes, OtherFails
  <2>4. CASE Addressed(o, screen.user)
    <3>1. Unpublished(o)' < Unpublished(o)
      BY <1>2, <2>1, FewerChanges
    <3>2. inbox' > 0
      BY <2>2, <2>4, <3>1, Told
    <3> QED BY <2>3, <3>2 DEF Awaited
  <2>5. CASE ~Addressed(o, screen.user)
    <3>1. \A x \in Orders : Addressed(x, screen.user) => changing'[x] >= changing[x]
      BY <1>1, <2>1, <2>5
    <3> QED BY <1>1, <1>4, <2>2, <2>3, <3>1
  <2> QED BY <2>4, <2>5
<1>8. CASE Join \/ Refuse
  <2>1. inbox' = inbox /\ changing' = changing /\ row' = row
    BY <1>8 DEF Join, Refuse
  <2> QED BY <1>1, <1>4, <2>1 DEF Kept
<1>9. CASE Drop
  <2>1. inbox' = 0 /\ socket' # socket /\ changing' = changing /\ row' = row
    BY <1>9 DEF Drop
  <2>2. ~(inbox' < inbox)
    BY <2>1 DEF MissedEvent
  <2> QED BY <1>1, <1>4, <2>1, <2>2 DEF Kept
<1> QED BY <1>5, <1>6, <1>7, <1>8, <1>9 DEF World

\* A status is kept when a code expires.
LEMMA SyncedKeeps ==
    ASSUME row \in [Orders -> Row], NEW u, NEW r \in Synced(u), NEW o \in Orders
    PROVE  r[o].status = row[o].status
<1>1. row[o] \in Row
  OBVIOUS
<1>2. [row[o] EXCEPT !.payment = "EXPIRADO"].status = row[o].status
  BY <1>1 DEF Row
<1> QED BY <1>2 DEF Synced

\* What the API does with a call is told to the page, unless an event is missed.
LEMMA FollowsGoes ==
    ASSUME Inv, Inv', PageFits, Follows, ~MissedEvent, NEW i \in DOMAIN calls, Goes(i)
    PROVE  Follows'
<1> DEFINE c == calls[i]
<1>1. /\ row' \in [Orders -> Row] /\ row \in [Orders -> Row] /\ inbox \in Nat
      /\ c \in Call /\ c.live /\ c.user = screen.user
      /\ c.kind \in Actions => c.order \in Orders
  BY CallShape DEF Inv, TypeOK, Follows
<1>2. /\ screen' = screen /\ changing' = changing /\ DOMAIN calls' = DOMAIN calls
      /\ \A j \in DOMAIN calls : j # i => calls'[j] = calls[j]
      /\ \A j \in DOMAIN calls : calls'[j].kind = calls[j].kind /\ calls'[j].live = calls[j].live
      /\ calls'[i].order = c.order
  BY GoesShape
<1>3. ASSUME Present => (Awaited => Awaited') /\ (Awaited' \/ Kept),
             \/ calls'[i].at # "answered"
             \/ Awaited'
             \/ c.kind \notin Actions
                /\ Statuses(calls'[i].result) = Statuses(Fetch(screen'.page, screen'.user, row'))
             \/ c.kind \in Actions
                /\ \A o \in DOMAIN calls'[i].result : Addressed(o, screen'.user) =>
                      c.kind = "regenerate" /\ calls'[i].result[o].status = row'[o].status
      PROVE  Follows'
  <2>1. /\ \A j \in DOMAIN calls : calls'[j].kind = calls[j].kind /\ calls'[j].live = calls[j].live
        /\ \A j \in DOMAIN calls : j # i => calls'[j] = calls[j]
    BY <1>2
  <2> QED BY <1>1, <1>2, <1>3, <2>1, FollowsKept
<1>4. ASSUME inbox > 0 => inbox' > 0, c.at = "publish" => inbox' > 0 \/ ~Addressed(c.order, screen.user)
      PROVE  Awaited => Awaited'
  <2> SUFFICES ASSUME NEW o \in Orders, Addressed(o, screen.user), Owed(o)
               PROVE  inbox' > 0 \/ Owed(o)'
    BY <1>2, <1>4 DEF Awaited
  <2>1. CASE changing[o] > 0
    BY <1>2, <2>1 DEF Owed
  <2>2. CASE \E j \in DOMAIN calls : calls[j].at = "publish" /\ calls[j].order = o
    BY <1>2, <1>4, <2>2 DEF Owed
  <2> QED BY <2>1, <2>2 DEF Owed
<1>5. CASE ServeList(i)
  <2>1. /\ c.at = "sent" /\ c.kind \notin Actions /\ inbox' = inbox
        /\ row' \in IF screen.page = "orders" THEN Synced(c.user) ELSE {row}
        /\ Serve(i, "answered", Fetch(screen.page, c.user, row'))
    BY <1>5 DEF ServeList
  <2>2. Kept
    BY <1>1, <2>1, SyncedKeeps DEF Kept
  <2>3. calls'[i].result = Fetch(screen.page, screen.user, row')
    BY <1>1, <2>1, ServeShape
  <2>4. Awaited => Awaited'
    BY <1>4, <2>1
  <2> QED BY <1>2, <1>3, <2>1, <2>2, <2>3, <2>4
<1>6. CASE ServeAction(i)
  <2>1. PICK r \in Outcome(c, row[c.order]) :
          /\ Commit(c.order, r)
          /\ Serve(i, IF c.kind = "regenerate" THEN "answered" ELSE "publish", [o \in {c.order} |-> r])
    BY <1>6 DEF ServeAction
  <2>2. c.at = "sent" /\ c.kind \in Actions /\ inbox' = inbox /\ row' = [row EXCEPT ![c.order] = r]
    BY <1>6, <2>1 DEF ServeAction, Commit
  <2>3. /\ calls'[i].at = (IF c.kind = "regenerate" THEN "answered" ELSE "publish")
        /\ calls'[i].result = [o \in {c.order} |-> r]
    BY <2>1, ServeShape
  <2>4. Awaited => Awaited'
    BY <1>4, <2>2
  <2>5. row'[c.order] = r /\ \A o \in Orders : o # c.order => row'[o] = row[o]
    BY <1>1, <2>2
  <2>6. CASE c.kind = "regenerate"
    <3>1. row[c.order] \in Row
      BY <1>1, <2>2
    <3>2. r.status = row[c.order].status
      BY <2>1, <2>6, <3>1 DEF Outcome, Row
    <3>3. Kept
      BY <2>5, <3>2 DEF Kept
    <3> QED BY <1>3, <2>2, <2>3, <2>4, <2>5, <2>6, <3>3
  <2>7. CASE c.kind # "regenerate"
    <3>1. calls'[i].at = "publish" /\ calls'[i].order = c.order /\ c.order \in Orders
      BY <1>1, <1>2, <2>2, <2>3, <2>7
    <3>2. Addressed(c.order, screen.user) => Awaited'
      BY <1>2, <3>1 DEF Awaited, Owed
    <3>3. ~Addressed(c.order, screen.user) => Kept
      BY <2>5 DEF Kept
    <3> QED BY <1>3, <2>4, <3>1, <3>2, <3>3
  <2> QED BY <2>6, <2>7
<1>7. CASE ServeRefusal(i)
  <2>1. c.at = "sent" /\ inbox' = inbox /\ row' = row /\ calls'[i].at = "failed"
    BY <1>7, ServeShape DEF ServeRefusal
  <2> QED BY <1>3, <1>4, <2>1 DEF Kept
<1>8. CASE Publish(i) \/ Lose(i)
  <2>1. /\ row' = row /\ calls'[i].at # "publish"
        /\ Emit(c.order) \/ inbox' = inbox
    BY <1>8, ServeShape DEF Publish, Lose
  <2>2. inbox' \in Nat /\ inbox' >= inbox
    BY <1>1, <2>1, EmitGrows
  <2>3. c.at = "publish" => c.kind \in Actions /\ DOMAIN c.result = {c.order}
    BY DEF PageFits, Fits
  <2>4. c.at = "publish" /\ Addressed(c.order, screen.user) => inbox' > 0
    <3> SUFFICES ASSUME c.at = "publish", Addressed(c.order, screen.user)
                 PROVE  inbox' > 0
      OBVIOUS
    <3>1. PICK o \in Orders : o = c.order
      BY <1>1, <2>3
    <3>2. Unpublished(o)' < Unpublished(o)
      BY <1>2, <2>1, <3>1, FewerCalls
    <3> QED BY <2>2, <3>1, <3>2, Told
  <2>5. (Awaited => Awaited') /\ Kept
    BY <1>1, <1>4, <2>1, <2>2, <2>4 DEF Kept
  <2>6. CASE Lose(i)
    <3>1. calls'[i].at = "failed"
      BY <2>6, ServeShape DEF Lose
    <3> QED BY <1>3, <2>5, <3>1
  <2>7. CASE Publish(i)
    <3>1. c.at = "publish" /\ calls'[i].result = c.result
      BY <2>7, ServeShape DEF Publish
    <3>2. Addressed(c.order, screen.user) => Awaited'
      BY <2>4, <3>1 DEF Awaited
    <3>3. CASE Addressed(c.order, screen.user)
      BY <1>3, <2>5, <3>2, <3>3
    <3>4. CASE ~Addressed(c.order, screen.user)
      <4>1. \A o \in DOMAIN calls'[i].result : ~Addressed(o, screen'.user)
        BY <1>2, <2>3, <3>1, <3>4
      <4> QED BY <1>3, <2>3, <2>5, <3>1, <4>1
    <3> QED BY <3>3, <3>4
  <2> QED BY <1>8, <2>6, <2>7
<1> QED BY <1>5, <1>6, <1>7, <1>8 DEF Goes

\* The rows of an action's answer are put in a list that has the same statuses.
LEMMA ReplacedKeeps ==
    ASSUME NEW list, NEW r, \A x \in DOMAIN list \cap DOMAIN r : r[x].status = list[x].status
    PROVE  Statuses(Replaced(list, r)) = Statuses(list)
<1> DEFINE new == Replaced(list, r)
<1>1. DOMAIN new = DOMAIN list /\ \A x \in DOMAIN list : new[x].status = list[x].status
  BY DEF Replaced
<1> HIDE DEF new
<1>2. Statuses(new) = [x \in DOMAIN list |-> list[x].status]
  BY <1>1 DEF Statuses
<1> QED BY <1>2 DEF new, Statuses

\* The first answer arrives, and it is not a listing that failed.
LEMMA FollowsArrive ==
    ASSUME Inv, PageFits, Follows, ~Overtaken, NEW i \in DOMAIN calls, Arrive(i)
    PROVE  Follows'
<1> DEFINE n == Len(calls)
           c == calls[1]
<1>1. n \in Nat /\ DOMAIN calls = 1 .. n
  BY CallShape
<1>2. i = 1 /\ (calls[i].at = "failed" => calls[i].kind \in Actions)
  BY <1>1 DEF Overtaken
<1>3. /\ c.at \in {"answered", "failed"}
      /\ screen'.page = screen.page /\ screen'.user = screen.user /\ screen'.list = Shown(c)
      /\ calls' = RemoveAt(calls, 1)
      /\ row' = row /\ changing' = changing /\ inbox' = inbox
  BY <1>2, Unchanged DEF Arrive, Inv
<1>4. DOMAIN calls' = 1 .. n - 1 /\ \A j \in 1 .. n - 1 : calls'[j] = calls[j + 1]
  <2>1. /\ DOMAIN calls' = 1 .. n - 1
        /\ \A j \in 1 .. n - 1 : calls'[j] = calls[IF j < 1 THEN j ELSE j + 1]
    BY <1>2, <1>3, CallShape, RemovalShape
  <2>2. \A j \in 1 .. n - 1 : ~(j < 1)
    BY <1>1
  <2> QED BY <2>1, <2>2
<1>5. 1 \in 1 .. n /\ \A j \in 2 .. n : j - 1 \in 1 .. n - 1 /\ (j - 1) + 1 = j
  BY <1>1, <1>2
<1> HIDE DEF n
<1>6. \A j \in 1 .. n - 1 : j + 1 \in 1 .. n
  BY <1>1
<1>7. ASSUME NEW o \in Orders
      PROVE  Owed(o)' <=> Owed(o)
  <2>1. ASSUME NEW j \in 1 .. n, calls[j].at = "publish"
        PROVE  j \in 2 .. n
    BY <1>1, <1>3, <2>1
  <2>2. \A j \in 1 .. n : calls[j].at = "publish" => j - 1 \in 1 .. n - 1 /\ calls'[j - 1] = calls[j]
    BY <1>4, <1>5, <2>1
  <2>3. ASSUME NEW j \in DOMAIN calls, calls[j].at = "publish", calls[j].order = o
        PROVE  \E k \in DOMAIN calls' : calls'[k].at = "publish" /\ calls'[k].order = o
    BY <1>1, <1>4, <2>2, <2>3
  <2>4. ASSUME NEW j \in DOMAIN calls', calls'[j].at = "publish", calls'[j].order = o
        PROVE  \E k \in DOMAIN calls : calls[k].at = "publish" /\ calls[k].order = o
    BY <1>1, <1>4, <1>6, <2>4
  <2> QED BY <1>3, <2>3, <2>4 DEF Owed
<1>8. Awaited' <=> Awaited
  BY <1>3, <1>7 DEF Awaited
<1>9. \A list : UpToDate(list) => Statuses(list) = Statuses(Fetch(screen'.page, screen'.user, row'))
  BY <1>3 DEF UpToDate
<1>10. \A j \in DOMAIN calls' : calls'[j].live
  BY <1>1, <1>4, <1>6 DEF Follows
<1>11. ASSUME Present', NEW j \in DOMAIN calls', Latest(j)', calls'[j].at = "answered"
       PROVE  Good(calls[j])'
  <2>1. Latest(j + 1)
    <3> SUFFICES ASSUME NEW k \in DOMAIN calls, k > j + 1
                 PROVE  calls[k].kind \in Actions
      BY DEF Latest
    <3>1. k \in 2 .. n /\ k - 1 > j
      BY <1>1, <1>4, <1>11
    <3> QED BY <1>4, <1>5, <1>11, <3>1 DEF Latest
  <2>2. Present /\ j + 1 \in DOMAIN calls /\ calls'[j] = calls[j + 1]
    BY <1>1, <1>3, <1>4, <1>6, <1>11 DEF Present
  <2>3. Good(calls[j + 1])
    BY <1>11, <2>1, <2>2 DEF Follows
  <2>4. CASE Awaited
    BY <1>8, <2>4 DEF Good
  <2>5. CASE calls[j + 1].kind \notin Actions /\ UpToDate(calls[j + 1].result)
    BY <1>9, <2>2, <2>5 DEF Good, UpToDate
  <2>6. CASE calls[j + 1].kind \in Actions /\ Tells(calls[j + 1])
    BY <1>3, <2>2, <2>6 DEF Good, Tells
  <2> QED BY <2>3, <2>4, <2>5, <2>6 DEF Good
<1>12. ASSUME Present', HasList', \A j \in DOMAIN calls' : calls'[j].kind \in Actions
       PROVE  Awaited' \/ UpToDate(screen.list)'
  <2> SUFFICES ASSUME ~Awaited
               PROVE  UpToDate(Shown(c))
    BY <1>3, <1>8, <1>9 DEF UpToDate
  <2>1. \A j \in 1 .. n : j > 1 => calls[j].kind \in Actions
    <3> SUFFICES ASSUME NEW j \in 1 .. n, j > 1
                 PROVE  calls[j].kind \in Actions
      OBVIOUS
    <3>1. j \in 2 .. n
      BY <1>1
    <3> QED BY <1>4, <1>5, <1>12, <3>1
  <2>2. Present /\ Latest(1)
    BY <1>1, <1>3, <1>12, <2>1 DEF Present, Latest
  <2>3. c.at = "answered" => Good(c)
    BY <1>1, <1>5, <2>2 DEF Follows
  <2>4. CASE c.kind \notin Actions
    <3>1. c.at = "answered" /\ c.live
      BY <1>1, <1>2, <1>3, <1>5, <2>4 DEF Follows
    <3>2. Shown(c) = c.result
      BY <2>4, <3>1 DEF Shown, Reloaded, Listed
    <3> QED BY <2>3, <2>4, <3>1, <3>2 DEF Good
  <2>5. CASE c.kind \in Actions
    <3>1. HasList
      BY <1>1, <1>5, <2>5, CallShape
    <3>2. \A j \in DOMAIN calls : calls[j].kind \in Actions
      <4> SUFFICES ASSUME NEW j \in 1 .. n
                   PROVE  calls[j].kind \in Actions
        BY <1>1
      <4>1. j = 1 \/ j > 1
        BY <1>1
      <4> QED BY <2>1, <2>5, <4>1
    <3>3. UpToDate(screen.list)
      BY <2>2, <3>1, <3>2 DEF Follows
    <3>4. CASE c.at = "failed"
      BY <2>5, <3>3, <3>4 DEF Shown
    <3>5. CASE c.at = "answered"
      <4>1. Tells(c) /\ DOMAIN c.result = {c.order} /\ c.order \in Orders
        BY <1>1, <1>5, <2>3, <2>5, <3>5, CallShape DEF Good, PageFits, Fits
      <4>2. screen.page # "kitchen"
        <5> SUFFICES ASSUME screen.page = "kitchen"
                     PROVE  FALSE
          OBVIOUS
        <5>1. screen.user = Staff
          BY <2>2 DEF PageFits, Present
        <5>2. c.kind = "regenerate"
          BY <4>1, <5>1 DEF Tells, Addressed
        <5> QED BY <1>1, <1>5, <5>2 DEF PageFits, Fits
      <4>3. Statuses(screen.list) = Statuses(MyOrders(screen.user, row))
        BY <3>3, <4>2 DEF UpToDate, Fetch
      <4>4. \A x \in DOMAIN screen.list : Owner[x] = screen.user /\ screen.list[x].status = row[x].status
        <5>1. DOMAIN Statuses(screen.list) = DOMAIN screen.list
          BY DEF Statuses
        <5>2. DOMAIN Statuses(MyOrders(screen.user, row)) = {x \in Orders : Owner[x] = screen.user}
          BY DEF Statuses, MyOrders
        <5>3. \A x \in DOMAIN screen.list : Statuses(screen.list)[x] = screen.list[x].status
          BY DEF Statuses
        <5>4. \A x \in {y \in Orders : Owner[y] = screen.user} :
                Statuses(MyOrders(screen.user, row))[x] = row[x].status
          BY DEF Statuses, MyOrders
        <5> QED BY <4>3, <5>1, <5>2, <5>3, <5>4
      <4>5. \A x \in DOMAIN screen.list \cap DOMAIN c.result : c.result[x].status = screen.list[x].status
        BY <4>1, <4>4 DEF Tells, Addressed
      <4>6. Shown(c) = Replaced(screen.list, c.result)
        BY <2>5, <3>5, <4>2 DEF Shown, OrdersAfter
      <4>7. Statuses(Shown(c)) = Statuses(screen.list)
        BY <4>5, <4>6, ReplacedKeeps
      <4> QED BY <3>3, <4>7 DEF UpToDate
    <3> QED BY <1>3, <3>4, <3>5
  <2> QED BY <2>4, <2>5
<1> QED BY <1>10, <1>11, <1>12 DEF Follows

\* A listing that is asked for settles what the page shows.
LEMMA FollowsListing ==
    ASSUME Inv, NEW new, calls' = Append(calls, new), new.kind \notin Actions, new.live, new.at = "sent",
           \A j \in DOMAIN calls : calls[j].live
    PROVE  Follows'
<1> DEFINE n == Len(calls)
<1>1. n \in Nat /\ DOMAIN calls = 1 .. n
  BY CallShape
<1>2. /\ DOMAIN calls' = 1 .. n + 1 /\ calls'[n + 1] = new
      /\ \A j \in 1 .. n : calls'[j] = calls[j]
  BY AppendShape
<1> HIDE DEF n
<1>3. \A j \in DOMAIN calls' : j \in 1 .. n \/ j = n + 1
  BY <1>1, <1>2
<1>4. \A j \in DOMAIN calls' : calls'[j].live
  BY <1>1, <1>2, <1>3
<1>5. \A j \in DOMAIN calls' : Latest(j)' => j = n + 1
  <2>1. n + 1 \in DOMAIN calls' /\ \A j \in 1 .. n : n + 1 > j
    BY <1>1, <1>2
  <2> QED BY <1>2, <1>3, <2>1 DEF Latest
<1>6. n + 1 \in DOMAIN calls'
  BY <1>1, <1>2
<1> QED BY <1>2, <1>4, <1>5, <1>6 DEF Follows

LEMMA FollowsClick ==
    ASSUME Inv, Follows,
           NEW kind \in Actions, NEW o \in Orders, NEW target \in OrderStatus, Click(kind, o, target)
    PROVE  Follows'
<1> DEFINE n == Len(calls)
           new == Made(kind, o, target)
<1>1. n \in Nat /\ DOMAIN calls = 1 .. n
  BY CallShape
<1>2. /\ calls' = Append(calls, new)
      /\ screen'.page = screen.page /\ screen'.user = screen.user /\ screen'.list = screen.list
      /\ row' = row /\ changing' = changing /\ inbox' = inbox
  BY Unchanged DEF Click, Ask, Inv
<1>3. new.kind \in Actions /\ new.live /\ new.at = "sent"
  BY DEF Made
<1>4. /\ DOMAIN calls' = 1 .. n + 1 /\ calls'[n + 1] = new
      /\ \A j \in 1 .. n : calls'[j] = calls[j]
  BY <1>2, AppendShape
<1> HIDE DEF n, new
<1>5. \A j \in DOMAIN calls' : j \in 1 .. n \/ j = n + 1
  BY <1>1, <1>4
<1>6. \A j \in 1 .. n : j \in DOMAIN calls /\ j \in DOMAIN calls' /\ calls'[j] = calls[j]
  BY <1>1, <1>4
<1>7. \A j \in DOMAIN calls' : calls'[j].live
  BY <1>3, <1>4, <1>5, <1>6 DEF Follows
<1>8. Awaited => Awaited'
  BY <1>1, <1>2, <1>6 DEF Awaited, Owed
<1>9. ASSUME Present', NEW j \in DOMAIN calls', Latest(j)', calls'[j].at = "answered"
      PROVE  Good(calls[j])' /\ calls'[j] = calls[j]
  <2>1. j \in 1 .. n
    BY <1>3, <1>4, <1>5, <1>9
  <2>2. Latest(j)
    BY <1>1, <1>6, <1>9 DEF Latest
  <2>3. Good(calls[j]) /\ calls'[j] = calls[j]
    BY <1>1, <1>2, <1>6, <1>9, <2>1, <2>2 DEF Follows, Present
  <2>4. CASE Awaited
    BY <1>8, <2>3, <2>4 DEF Good
  <2>5. CASE calls[j].kind \notin Actions /\ UpToDate(calls[j].result)
    BY <1>2, <2>3, <2>5 DEF Good, UpToDate
  <2>6. CASE calls[j].kind \in Actions /\ Tells(calls[j])
    BY <1>2, <2>3, <2>6 DEF Good, Tells
  <2> QED BY <2>3, <2>4, <2>5, <2>6 DEF Good
<1>10. ASSUME Present', HasList', \A j \in DOMAIN calls' : calls'[j].kind \in Actions
       PROVE  Awaited' \/ UpToDate(screen.list)'
  <2>1. Awaited \/ UpToDate(screen.list)
    BY <1>1, <1>2, <1>6, <1>10 DEF Follows, Present, HasList
  <2> QED BY <1>2, <1>8, <2>1 DEF UpToDate
<1> QED BY <1>7, <1>9, <1>10 DEF Follows

\* Unless something was missed or overtaken, what is right stays right.
LEMMA FollowsStep ==
    ASSUME Inv, Inv', PageFits, ~disturbed => Follows, [HNext]_hvars, ~disturbed'
    PROVE  Follows'
<1>1. CASE UNCHANGED hvars
  BY <1>1 DEF hvars, vars, Follows, Latest, Good, Awaited, Owed, UpToDate, Tells, Present, HasList
<1>2. CASE HNext /\ Quiet' /\ Current'
  <2>1. calls' = <<>> /\ UpToDate(screen.list)'
    BY <1>2 DEF Quiet, Current, UpToDate
  <2> QED BY <2>1 DEF Follows
<1>3. CASE HNext /\ ~(Quiet' /\ Current')
  <2>1. /\ Next /\ Follows /\ ~MissedEvent /\ ~Overtaken
        /\ SameSession \/ calls = <<>>
    BY <1>3 DEF HNext
  <2>2. \A j \in DOMAIN calls : calls[j].live
    BY <2>1 DEF Follows
  <2>3. ASSUME NEW u \in Visitors(screen.page), SessionChanges(u)
        PROVE  Follows'
    <3>1. screen'.user = u /\ u # screen.user
      BY <2>3, Unchanged DEF SessionChanges, Inv
    <3>2. calls = <<>> /\ Len(calls) = 0
      BY <2>1, <3>1 DEF SameSession
    <3>3. CASE u = Nobody
      <4>1. DOMAIN calls' = {}
        <5>1. DOMAIN calls' = 1 .. Len(calls)
          BY <2>3, <3>3, SessionShape
        <5>2. DOMAIN calls' = 1 .. 0
          BY <3>2, <5>1
        <5> QED BY <5>2
      <4>2. ~Present'
        BY <3>1, <3>3 DEF Present
      <4> QED BY <4>1, <4>2 DEF Follows
    <3>4. CASE u # Nobody
      <4>1. DOMAIN calls' = 1 .. 0 + 1 /\ calls'[0 + 1] = [Listing("initial") EXCEPT !.user = u]
        BY <2>3, <3>2, <3>4, SessionShape
      <4>2. /\ DOMAIN calls' = {1} /\ calls'[1].live /\ calls'[1].at = "sent"
            /\ calls'[1].kind \notin Actions
        BY <4>1 DEF Listing, Made, Actions
      <4> QED BY <4>2 DEF Follows
    <3> QED BY <3>3, <3>4
  <2>4. ASSUME ReceiveEvent \/ Refresh
        PROVE  Follows'
    <3>1. PICK kind \in {"reload", "refresh"} : calls' = Append(calls, Listing(kind))
      BY <2>4 DEF ReceiveEvent, Refresh, Ask
    <3>2. Listing(kind).kind \notin Actions /\ Listing(kind).live /\ Listing(kind).at = "sent"
      BY DEF Listing, Made, Actions
    <3> QED BY <2>2, <3>1, <3>2, FollowsListing
  <2> QED BY <2>1, <2>3, <2>4, NextShape, FollowsWorld, FollowsGoes, FollowsArrive, FollowsClick
<1> QED BY <1>1, <1>2, <1>3

\* The page, its calls and the rows behind them keep their types.
THEOREM LiveTypeOK == HSpec => []TypeOK
<1>1. HInit => Inv
  BY Initially
<1>2. Inv /\ [HNext]_hvars => Inv'
  BY TypeStep, OwnStep DEF Inv, HNext, hvars
<1>3. Inv => TypeOK
  BY DEF Inv
<1> QED BY <1>1, <1>2, <1>3, PTL DEF HSpec

\* my-orders-view: the flag active keeps late answers of a former user from
\* the list of the present one, whatever answers come in whatever order.
THEOREM OwnOrdersOnlyHolds == HSpec => []OwnOrdersOnly
<1>1. HInit => Inv
  BY Initially
<1>2. Inv /\ [HNext]_hvars => Inv'
  BY TypeStep, OwnStep DEF Inv, HNext, hvars
<1>3. Inv => OwnOrdersOnly
  BY DEF Inv
<1> QED BY <1>1, <1>2, <1>3, PTL DEF HSpec


\* busyOrderId, busyId: one action at a time is under way, and the mark is set
\* exactly while it is, as long as no actions on two orders overlapped.
THEOREM BusyWhileUnderWayHolds == HSpec => []BusyWhileUnderWay
<1>1. HInit => Inv /\ MarkFollows
  <2>1. HInit => Inv
    BY Initially
  <2>2. HInit => calls = <<>> /\ ~crossed /\ screen.busy = NoOrder
    BY DEF HInit, Init
  <2>3. calls = <<>> => InFlight = {}
    BY DEF InFlight
  <2> QED BY <2>1, <2>2, <2>3 DEF MarkFollows
<1>2. Inv /\ MarkFollows /\ [HNext]_hvars => (Inv /\ MarkFollows)'
  BY TypeStep, OwnStep, MarkStep DEF Inv, HNext, hvars
<1>3. ASSUME Inv, MarkFollows PROVE BusyWhileUnderWay
  <2> SUFFICES ASSUME ~crossed
               PROVE  /\ Cardinality(InFlight) <= 1
                      /\ (screen.busy # NoOrder) <=> (InFlight # {})
    BY DEF BusyWhileUnderWay
  <2>1. CASE InFlight = {}
    BY <1>3, <2>1, FS_EmptySet DEF MarkFollows
  <2>2. CASE InFlight # {}
    <3>1. PICK i \in InFlight : TRUE
      BY <2>2
    <3>2. InFlight = {i}
      BY <1>3, <3>1 DEF MarkFollows
    <3>3. calls[i].order \in Orders /\ calls[i].order = screen.busy
      BY <1>3, <3>1, CallShape DEF MarkFollows, InFlight
    <3>4. screen.busy # NoOrder
      BY <3>3, LiveAssumption
    <3> QED BY <3>2, <3>4, FS_Singleton
  <2> QED BY <2>1, <2>2
<1> QED BY <1>1, <1>2, <1>3, PTL DEF HSpec


\* RF08: a page at rest shows the status of every order it should and no
\* other, unless an event did not reach it, a listing failed or an answer
\* overtook another one, and nothing undisturbed has repaired it since: for
\* any number of orders, customers, changes, events and calls under way.
THEOREM QuietPageIsCurrentHolds == HSpec => []QuietPageIsCurrent
<1>1. HInit => HInv
  <2>1. HInit => Inv
    BY Initially
  <2>2. ASSUME HInit
        PROVE  calls = <<>> /\ ~crossed /\ screen.busy = NoOrder /\ screen.user = Nobody
    BY <2>2 DEF HInit, Init
  <2>3. calls = <<>> => InFlight = {}
    BY DEF InFlight
  <2>4. HInit => MarkFollows /\ PageFits
    BY <2>2, <2>3 DEF MarkFollows, PageFits
  <2>5. HInit => Follows
    BY <2>2 DEF Follows, Present
  <2> QED BY <2>1, <2>4, <2>5 DEF HInv
<1>2. HInv /\ [HNext]_hvars => HInv'
  <2> SUFFICES ASSUME HInv, [HNext]_hvars
               PROVE  HInv'
    OBVIOUS
  <2>1. Inv'
    BY TypeStep, OwnStep DEF HInv, Inv, HNext, hvars
  <2>2. MarkFollows' /\ PageFits'
    BY MarkStep, PageStep DEF HInv
  <2>3. ~disturbed' => Follows'
    BY <2>1, FollowsStep DEF HInv
  <2> QED BY <2>1, <2>2, <2>3 DEF HInv
<1>3. ASSUME HInv PROVE QuietPageIsCurrent
  <2> SUFFICES ASSUME ~disturbed, Quiet, Present, HasList
               PROVE  Current
    BY DEF QuietPageIsCurrent, HasList
  <2>1. Awaited \/ UpToDate(screen.list)
    BY <1>3 DEF HInv, Follows, Quiet
  <2>2. ~Awaited
    <3>1. \A o \in Orders : ~Owed(o)
      BY DEF Quiet, Owed
    <3> QED BY <3>1 DEF Awaited, Quiet
  <2> QED BY <2>1, <2>2 DEF Current, UpToDate, HasList
<1> QED BY <1>1, <1>2, <1>3, PTL DEF HSpec
=============================================================================
