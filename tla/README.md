# CakeCraft in TLA+

TLA+ models of CakeCraft (the NestJS API under `apps/api`, the Next.js client under
`apps/web`), model-checked with TLC, with proofs checked by TLAPS. Paths below are relative
to the repository; API stands for `apps/api/src`.

## 1. The system

A customer composes a cake, orders it and pays by PIX through the Asaas gateway. The
gateway's webhook puts the order in the kitchen's queue, the kitchen moves it along a board,
and the customer earns loyalty points when it is ready. One API process serves everything
over PostgreSQL (Prisma) and Redis; in production there is a single instance
(`docker-compose.prod.yml`).

All concurrency is that of one event loop: a handler runs alone between two `await`s, and any
other handler runs at an `await`. Prisma transactions use READ COMMITTED and no statement of
the code locks a row or compares it with what was read, so a handler's decision may be older
than the row it writes. This is what most of the properties are about.

| Component | State | Operations | Interacts with |
|---|---|---|---|
| Orders (`orders/orders.service.ts`) | `Order`, `Payment` rows | create, new PIX code, cancel, expiry during listings | gateway (HTTP), pricing, accounts, events |
| Payments (`payments/payments.service.ts`) | the same rows | webhook of Asaas | called by the gateway, at least once |
| PIX gateway (`payments/asaas-pix.gateway.ts`) | charges, outside the repository | issue, refund | customer, webhook |
| Kitchen board (`kanban/kanban.service.ts`) | `Order.status` | queue, move a card | loyalty, e-mail, events |
| Loyalty (`gamification/gamification.service.ts`) | `User.xp`, `User.level`, `XpTransaction` | award for a ready order | called by the board |
| Sessions (`auth/auth.service.ts`) | refresh and reset tokens, accounts | register, login, refresh, logout, forgot, reset, anonymise | browser, orders |
| Catalogue (`catalog/catalog.service.ts`) | ingredients, sizes, templates; Redis keys | list, create, update, deactivate | Redis |
| Redis (`redis/redis.service.ts`) | cache, publish/subscribe, local fallback | get, set, del, publish | catalogue, live events |
| Live events (`kanban/kanban.gateway.ts`, web `lib/realtime`) | sockets and rooms | join, broadcast | screens |
| Pricing (`pricing/pricing.service.ts`) | none | price and conflicts of a configuration | builder, orders |
| Screens (`apps/web/src/features`) | React state | load, act, reload on an event | API, live events |
| Browser session (`apps/web/src/lib/api/client.ts`, `features/auth`) | cookies, shared refresh, user, version counter | fetch with one retry after refresh, sign in, sign out, anonymise | sessions |
| Cake builder (`features/builder`) | draft, its copy in the session storage, the last quote | edit, quote, upload, order | pricing, orders, catalogue |
| Administration (`features/catalog`, `features/reports`) | list, form, report, marks | load, save, deactivate; filter, export | catalogue, reports |
| Reports (`reports/reports.service.ts`) | none | sums over the paid orders of a period | orders |
| Uploads, e-mail, metrics, health, guards, configuration | none that others read | | |

What makes each part correct, and what is hard about it:

* **Orders and payments.** The kitchen works only on paid orders (RN03); a paid order does
  not wait for ever; an order is cancelled before preparation only, with the money given
  back; a repeated webhook has no effect. Hard: webhooks that are late, repeated or out of
  order; several charges for one order; decisions older than the row; a refund whose answer
  is lost; a charge whose order was never stored.
* **Board and loyalty.** Points once per order, the counter equal to the ledger, the level
  that of the points (RN04). Hard: two clicks, two orders of one customer, a failure between
  the status and the award.
* **Sessions.** A refresh token is used once, a reused one ends all sessions, after logout,
  reset or anonymisation no token works. Hard: rotation is not a transaction
  (`auth.service.ts:151-157`) and races with the revocations; an order created while its
  customer is anonymised.
* **Catalogue cache.** A list served is at most five minutes old and an invalidation is not
  undone by a slow reader. Hard: the reader that stores after the writer deleted, a
  deletion that fails silently.
* **Live events and screens.** A page at rest shows what the API has. Hard: answers out of
  order, events lost while disconnected, the local dispatch when Redis is down, one busy mark
  for actions on several orders.
* **Browser session.** The browser does not present a rotated token again, a late answer never
  overwrites a newer session, no tab waits for ever. Hard: several 401 share a refresh, and
  tabs share the cookies but neither the refresh nor the version counter.
* **Pricing and builder.** The price seen is the price paid, what the page lets through the API
  accepts, the rounded snapshots add up. Hard: the page and the API each have the rules, and
  the catalogue changes between the quote, the computation of the total and the snapshots.
* **Administration and reports.** The list is the table although it is patched answer by
  answer; a sale counts once; report and file are of the period asked for. Hard: answers out of
  order, a form exchanged while another is saved.

## 2. Modules

| Module | What it is |
|---|---|
| `KanbanBoard` | statuses and the moves of the board, shared |
| `OrderPayments` | orders, payment rows, charges, webhooks and the board's moves, as handlers interleaved at their awaits, with the properties that hold under every interleaving |
| `OrderClaims` | what documents and comments say beyond that, and the link to `OrderLifecycle` |
| `OrderLifecycle` | abstract: what an order promises when requests do not overlap |
| `PaymentGate` | abstract: what an order promises under every interleaving (RN03) |
| `OrderInvariant` | the inductive invariant `IInv` and the mapping to `PaymentGate` |
| `OrderPaymentsProofs` | the theorems about `OrderPayments` |
| `Loyalty` | the move to PRONTO with the award of points |
| `LoyaltyOverlaps` | `Loyalty` with a history of overlapping awards |
| `LoyaltyProofs` | the theorems about both |
| `Sessions` | accounts, refresh tokens, reset links and the addresses of orders, as handlers interleaved at their awaits |
| `SessionsOverlaps` | `Sessions` with a history: the login each token descends from, the accounts with overlapping requests |
| `SessionsProofs` | the theorems about both |
| `CatalogCache` | the list of active ingredients and its copy in Redis |
| `CatalogOverlaps` | `CatalogCache` with a history of overlaps and lost deletions |
| `CatalogProofs` | its theorem |
| `LiveOrders` | one open page (customer's orders or kitchen) and what keeps it up to date: commits, publication over Redis or locally, rooms, socket, requests |
| `LiveOrdersHistory` | `LiveOrders` with a history: missed events, overtaken answers, overlapping actions |
| `LiveOrdersProofs` | its theorems |
| `BrowserSession` | tabs, their shared cookies, the shared refresh and the version counter, over an API reduced to its tokens |
| `BrowserSessionHistory` | `BrowserSession` with a history: tokens taken for reused, what came between a tab and the cookies |
| `BrowserSessionProofs` | its theorems |
| `Pricing` | price, refusals and item snapshots of a cake, as operators |
| `Builder` | the builder's page with the requests it makes, over a catalogue that changes; uses `Pricing` for both sides |
| `BuilderHistory` | `Builder` with a history: the draft shown last and what wrote another one over it |
| `BuilderProofs` | the arithmetic of the snapshots and the theorems about both |
| `AdminCatalog`, `AdminCatalogHistory` | the administrator's list and form over the rows of the catalogue; which rows the list may show wrongly |
| `Reports`, `ReportsHistory` | the financial report and its page; the period last asked for |
| `BackOffice` | the administrator's two pages, of which one is open |
| `BackOfficeProofs` | the theorems about both pages |
| `MCOrderPayments`, `MCLoyalty`, `MCSessions`, `MCLiveOrders`, `MCBrowserSession`, `MCBuilder`, `MCBackOffice` | instances for TLC: symmetry, prices, catalogues |

`KanbanBoard` is what `OrderPayments`, `Loyalty` and `LiveOrders` share. A component appears in
two modules at two levels of detail: the API's handlers are split at their awaits where they
race (`OrderPayments`, `Sessions`, `CatalogCache`), and are one or two steps where the question
is what the browser makes of the answers (`LiveOrders`, `BrowserSession`, `AdminCatalog`).

A definition whose name starts with `Faulty` is what the code would be with a plausible
mistake in it. No specification uses one; replacing the definition after it by the faulty one
shows which property notices.

### OrderPayments and the code

| Variable | Code |
|---|---|
| `status[o]` | `Order.status`; `"none"` before the row exists |
| `payment[o]` | the `Payment` row: `status`, `gatewayReference` (`ref`), whether `expiresAt` is past (`lapsed`) |
| `owner[c]` | the `externalReference` a charge was created with, at the gateway |
| `events[c][e]` | webhook `e` of charge `c`: not due, sent (repeated until answered), acked (may still be repeated) |
| `request[h]` | the request in flight in handler `h`: its next await, and the decision taken from its snapshot |

A handler that reads, decides and later writes is two or three actions: `XRead` evaluates the
guards and early returns on the rows of that moment and stores in `request[h]` what it will
write; `XCommit`, `XStore` or `XWrite` writes it by primary key, as `prisma.*.update({ where:
{ id } })` does, whatever the row holds by then. A `$transaction([...])` is one action and a
call to the gateway is one action. Requests refused by a guard change nothing and have no
action.

| Actions | Code |
|---|---|
| `CreateCharge`, `CreateCommit` | `OrdersService.createOrder` |
| `RegenerateRead`, `RegenerateCharge`, `RegenerateStore` | `regeneratePixCharge` |
| `SyncRead`, `SyncWrite` | `syncExpirationAndSerialize` |
| `CancelRead`, `CancelRefund`, `CancelCommit` | `cancelOrder` |
| `WebhookRead`, `WebhookIgnored`, `WebhookPaid`, `WebhookExpired`, `WebhookRefunded`, `WebhookAnswer` | `PaymentsService.processAsaasWebhook` |
| `KanbanRead`, `KanbanWrite` | `KanbanService.transitionOrderStatus` up to the update |
| `Throw` | any await rejects; the request ends with what it had done |
| `Restart` | the process stops; every request in flight is lost |
| `ChargePaid`, `ChargeExpired`, `ChargeRefunded`, `CodeLapses` | customer, gateway and clock |

What is assumed of the gateway, which is not part of the repository: a webhook is delivered at
least once, in any order; a charge can be paid while its due date (a day) has not passed, even
when the API calls its code expired after fifteen minutes or has issued another; only a
received charge can be refunded, and once; the `externalReference` is echoed. A customer pays
only an order that was stored, since he has no code before. The simulation without an API key
(`pay_local_...`) is left out.

### Loyalty and the code

`status`, `xp`, `level`: the columns. `ledger[o]`: how many `XpTransaction` rows order `o` has
(no constraint makes the pair unique). `TransitionRead`/`TransitionWrite` are
`transitionOrderStatus`, which awaits the award when the target is PRONTO; `AwardRead` is the
read of the order with its customer before the transaction, `AwardFind` the transaction's
`findFirst`, `AwardCommit` its writes. READ COMMITTED lets two transactions both find nothing,
so the read and the commit are separate steps.

### Sessions and the code

| Variable | Code |
|---|---|
| `email[u]`, `anonymized[u]` | `User.email` (none when anonymised: the placeholder cannot be registered with), `User.anonymizedAt` |
| `hash[u]` | `User.passwordHash`: salts differ, so every hash is a new number |
| `address[u]` | some `Order` of `u` has a `deliveryAddress` |
| `token[t]` | the `RefreshToken` row: its account, `revokedAt`, and whether somebody can present it |
| `links[u]` | the hashes for which `u` holds a reset link; the link's secret is derived from the hash |

| Actions | Code (`AuthService` unless said) |
|---|---|
| `RegisterRead`, `RegisterCreate` | `register` up to `user.create`, with the unique e-mail |
| `LoginRead` | `login` up to the password comparison |
| `Issue` | `issueTokenPair`, and whether the answer arrives |
| `RefreshRead`, `RefreshReuse`, `RefreshUser`, `RefreshRevoke` | `refresh`, one action per await |
| `Logout` | `revokeSessionsFromAccessToken` |
| `ForgotRead`, `ForgotMail`, `ResetRead`, `ResetCommit` | `forgotPassword`, `resetPassword` |
| `AnonymizeRead`, `AnonymizeCommit` | `anonymizeAccount` |
| `OrderRead`, `OrderCommit` | `OrdersService.createOrder`: what it reads of the account and stores of it |
| `Throw`, `Restart`, `TokenLapses`, `LinkLapses` | failures and the clock |

Anybody who received a token may present it, any number of times and in any order: the
browser that repeats a refresh and a copy in other hands are the same to the API. A password
is not modelled beyond its hash; a wrong one changes nothing.

One text of the documents differs from the code without a run: `CONTRATO-SESSAO.md:33` says
that a refresh revokes and issues in one transaction, while `auth.service.ts:151-157` has two
statements (`RefreshRevoke`, `Issue`), so that a failure in between ends the session.
`OneSessionPerLogin` says that nothing worse comes of it.

### CatalogCache and the code

`catalog` counts the changes of the list in the database, `cache` is the key
`catalog:active:v1` with the list stored under it and whether it expires. `LookUp`, `Query`,
`Fill` are `findAllActive` at its awaits, `Write` and `Invalidate` are `create`, `update` and
`deactivate` (which share their tail). `RedisService` swallows its errors, so `Fill` and
`Invalidate` go on whether or not Redis took the command. `Throw` is a failed query,
`Restart` loses the requests in flight but not the key, `Expire` is the time to live.

### LiveOrders and the code

| Variable | Code |
|---|---|
| `row[o]` | `Order.status` and `Payment.status` |
| `changing[o]` | commits of other clients about `o` whose `emitOrderStatusChanged` is still to come |
| `screen` | which page, the user the provider gives it, `orders` or `queue` (`Loading` before the first), `busyOrderId` or `busyId` |
| `socket`, `inbox` | the socket of the page's effect, and the events sent to it that its callback has not seen |
| `calls` | the page's requests, in the order in which they were made; `live` is the effect's flag `active` |

| Actions | Code |
|---|---|
| `OtherCommits`, `OtherPublishes`, `OtherFails` | any handler that changes an order and publishes it, or stops in between |
| `OtherCommitsSilently` | changes without an event: a code that expires, a new code |
| `Emit` (in `OtherPublishes`, `Publish`) | `RedisService.publishJson`, `dispatchLocal`, `KanbanGateway.emitToRooms`: none, one or two deliveries |
| `Join`, `Refuse`, `Drop` | `KanbanGateway.handleConnection`, and the connection |
| `ServeList` | `listMyOrders` with the expiry it stores, `listProductionQueue` |
| `ServeAction`, `ServeRefusal`, `Publish` | `transitionOrderStatus`, `cancelOrder`, `regeneratePixCharge`: commit, refusal, event |
| `SessionChanges` | the clean-up of the effect and its next run |
| `ReceiveEvent`, `Refresh`, `Click` | the subscription's callback, `handleManualRefresh`, the buttons |
| `Arrive` | what the page does with an answer or an error: `reload`, `reloadQueue`, `handle*` |
| `Lose` | the network, the API or the award fails, before or after the commit |

Only the page open is modelled: pages share nothing but the rows. A listing's expiry is one
step here; in `OrderPayments` it is two (`SyncRead`, `SyncWrite`).

### BrowserSession and the code

| Variable | Code |
|---|---|
| `token[t]`, `erased` | `RefreshToken` rows, anonymised accounts |
| `jar` | the cookies all tabs share: whom the access token names, whether it is still fresh, the refresh token |
| `tab[t]` | `user` and `isLoading` of the tab's `AuthProvider` |
| `call[i]` | a request under way and the refresh it started; `valid`: `versionRef` still has the value it had |

| Actions | Code |
|---|---|
| `AwaitRefresh`, `RefreshArrives` | `apiRequest` after a 401, `tryRefreshSession` with the promise of its module |
| `Mount`, `MeArrives`, `RefreshUser` | the provider's effect, `fetchCurrentUser`, `refreshUser` |
| `SubmitLogin`, `LoginArrives` | the login and registration forms, `setUser` |
| `SubmitLogout`, `LogoutArrives` | `logout` of the provider |
| `SubmitAnonymize`, `AnonymizeArrives` | the profile's `handleAnonymize` |
| `OpenPage`, `PageArrives` | any other request of a page |
| `ServeGuarded`, `ServeLogin`, `ServeLogout`, `ServeAnonymize`, `ServeRefresh` | the controller's cookies and what `Sessions` has in detail |
| `Lose`, `AccessExpires` | failures, the clock |

A cookie that arrives with an answer replaces those in `jar` in the step in which the page sees
the answer, which is when the browser has it.

### Pricing, Builder and the code

`Pricing` has `PricingService.calculate` as four refusals (`SequencedAndUnique`, `AllExist`,
`SlotTypes`, `Structural`: RN01) and a sum (`Price`), in cents and grams as the code's integers,
`assertNoDietaryConflicts` with the API's table of allergens (`Forbidden`) as `NoDietaryConflict` and `buildOrderItemSnapshots` as `ItemsCents`.

In `Builder`, `page` is the state of `cake-builder-view.tsx` (`draft`, `quote` with the floors it
answers, `submitting`, the catalogue loaded), `storage` the key in the session storage, `quotes`
the requests of the quoting effect, whose clean-up clears `live`, `upload` and `orders` the other
requests. `Catalogs` is what the catalogue is at each of its edits and `version` the present one:
`page.version` is what the page loaded, `priced` and `read` what the API's two queries saw. The
edits (`ChangeFloorsCount`, `SelectDough`, `SelectCoverage`, `TypeWeight`, `ToggleFilling`,
`ToggleDietaryFlag`, `ChangeLook`, `RemoveImage`, `ResetDraft`) are the handlers of the same
names; each saves the draft and asks for a quote. `SubmitOrder`, `PriceOrder`, `StoreOrder`,
`OrderArrives` are `handleSubmitOrder` and the two halves of `createOrder` between which the
catalogue may change; `OrderPayments` has the rest of `createOrder`. `Equivalents` is the page's own
table of allergens, which `DietaryConflict` uses: that it agrees with the API's is part of what
`LetThroughIsAccepted` says.

The page may be left and opened again with anything under way. Quotes are then cleaned up and an
order no longer counts for the page on the screen, but its answer still clears the storage. An upload
goes on (`strays`): the effect has no clean-up for it, and when the answer comes the updater given to
`setDraft` may run once more, on the draft its page showed last, and save (`StrayUploadArrives`).
Whether it runs is React's business, so both outcomes are in the model.

### AdminCatalog, Reports, BackOffice and the code

`items`, `screen.filter`, `screen.form`, `screen.saving`, `screen.busy` are the states of
`admin-catalog-view.tsx`; `Save`, `Deactivate`, `Reactivate` send and `Arrive`, `Fail` are what
follows the await. `items` gives each id the rows the list shows of it, which may be none, one or
two: the answer to a creation is appended whatever the list holds (`Appended`). `ServeCreate`, `ServeUpdate`, `ServeActive` are `CatalogService` on `row`.
`OtherEdits` is another administrator.

`sale[o]` is what a report reads of an order, changed by `Pay`, `Refund` and `Cancel` as
`PaymentsService` and `OrdersService` change it. `ReportOf` is `ReportsService` for a period;
`view` has the states of `admin-reports-view.tsx` and the last file; `asked` are its requests.
`QuickPreset` sets the dates and asks at once, `ApplyFilter` and `Export` take the dates of the
fields.

`BackOffice` has either page open. The page that is not open rests in an initial state; the two
share no row, so their product would show nothing more.

## 3. Runs

`Passing` runs check the whole reachable state space of their instance.

| Run | Instance | Shows |
|---|---|---|
| `orders_race` | 1 order, 2 charges, 2 handlers | `IInv` (the inductive invariant), `ProductionGate` (RN03), `PaidOrderMoved`, `RefundIsReal`, `AwaitingEndsOnce` and the refinement `ImplementsGate`, under every interleaving, failure and restart |
| `orders_live` | 1 order, 1 charge, 2 handlers, fair | `PaidOrderIsServed`: a paid order leaves AGUARDANDO_PAGAMENTO |
| `orders_serial` | 2 orders, 2 charges, 1 handler | `WebhookFindsOneRow`: the two alternatives of the lookup never name two rows; when requests do not overlap, `ImplementsLifecycle`, `KitchenOrdersArePaid`, `CancelledAsksNothing` |
| `sessions` | 1 account, 3 tokens, 3 hashes, 2 handlers | `OneSessionPerLogin`, `PasswordEndsSessions`, `AnonymizedLeavesNothing` for accounts whose requests never overlapped; `ForgottenForGood` under every interleaving |
| `catalog_cache` | 3 handlers, 3 changes, fair | `StaleListEnds`: once changes stop the cache is current for good; `CurrentUnlessDisturbed`: without overlap or lost deletion it is always current at rest |
| `loyalty` | 1 customer, 3 orders, 2 handlers | `LevelFollowsXp`, `NoOrderCountsTwice` under every interleaving; `PointsExactUnlessRaced` for customers whose awards never overlapped |
| `live_orders` | 2 orders of 2 customers, 2 changes, 2 calls, 1 waiting event | `QuietPageIsCurrent`: a page at rest shows the API's statuses unless it missed an event or an answer was overtaken, and the next undisturbed list repairs it; `OwnOrdersOnly` after a change of user; `BusyWhileUnderWay` unless actions on two orders overlap |
| `browser_session` | 2 tabs, 2 accounts, 3 tokens, 2 calls | `NoFalseReuse`: one tab's requests never look like a stolen token; `RestIsDecided`; `ShownMatchesCookies` unless another tab, a lost answer or an overtaken logout came between |
| `builder` | 5 ingredients in 3 versions, 3 floors, 3 actions, 2 quotes | `ShownPriceIsCharged`, `LetThroughIsAccepted`, `FloorsAddUp` unless the catalogue changed in between; `RestHasQuote`, `OneOrderPerVisit`; `VisitRestoresDraft`: the next visit shows the draft of the last unless an order or the upload of a page left before wrote to the storage |
| `back_office` | 2 ingredients, 2 calls; 2 sales, 2 days, 3 actions; 2 changes | `ListMatchesDatabase`: the list at rest has each row once and as the table has it, but for the rows it could not hear of; `FormKept`; `EachSaleOnce`, `LastAskedIsShown`, `FileIsTheReport` |

Runs that end in a counterexample, each for a statement of the repository:

| Run | Statement | What happens |
|---|---|---|
| `cancelled_money` | the cancellation e-mail: money already sent is refunded (`email.service.ts:99`) | cancelled while the webhook is on its way, nothing is refunded |
| `unawarded` | status and award in one transaction (`ARQUITETURA-C4.md:286`) | a failure between them leaves a ready order without points |

Other statements that the models contradict, each with a property that says under which
circumstances it does hold:

* The queue returns only paid orders (`kanban.service.ts:121`): with two handlers
  `KitchenOrdersArePaid` fails, since a listing that saw PENDENTE, or a new code stored late
  (`orders.service.ts:394`, `:343`), rewrites a PAGO row of an order already in the queue. What
  does hold is `ProductionGate`: the money was received.
* A person cancels an order "antes do inicio do preparo" only (`orders.service.ts:239`): the status
  is read, the refund is awaited, the board moves the order to EM_PRODUCAO, and the cancellation
  is written by id all the same. No property says otherwise: without overlap it would be the guard
  of `cancelOrder` again. `ImplementsGate` says what still holds: such an order is closed, and is
  prepared again only by a move of the board, for money that was received.
* The draft is restored, and only an order takes it away (`DECISOES-FRONTEND.md:166-167`): the
  answer to an upload of a page that was left may come later and save that page's draft over the
  present one. `VisitRestoresDraft` names both exceptions.
* A paid order is refunded automatically (`orders.service.ts:239`): when it was paid with an
  older code, the row names the newer charge, which cannot be refunded.
* The award is idempotent (`gamification.service.ts:45`): two overlapping moves both find no row
  and write two. `NoOrderCountsTwice` and `PointsExactUnlessRaced` say how far the damage goes.
* Anonymisation revokes the sessions and clears the addresses (`auth.service.ts:251`): a login, a
  refresh or an order that read the account before writes a live token or an address after.
  `ForgottenForGood` says that requests which begin later do not.
* The conditions under "unless" in `live_orders`, `browser_session`, `builder` and `back_office`
  name what the pages do not guard against: a slow list that overtakes a newer one stays on the
  screen until the next event; a row created before the administrator's first list was read, and
  answered after it, is on the screen twice; two tabs whose cookies expire together each present the same
  refresh token, and the second looks stolen, which signs the user out everywhere; an answer to
  one save closes another ingredient's form opened meanwhile.

### Bounds

Nothing is cut off by a state constraint. The bounds are the sizes of the constant sets and the
numbers in the guards: `MaxWrites`, `MaxHashes`, `MaxChanges`, `MaxCalls`, `MaxEvents`,
`MaxQuotes`, `MaxActs`.

* `Orders`, `Charges`: identifiers are used once. When they run out no order or code can be
  created and everything may come to rest, hence `CHECK_DEADLOCK FALSE`. Two charges are what
  it takes for an old code and a new one.
* `Handlers`: two requests overlap. Every race found needs one stale decision and one other
  request; further handlers repeat that.
* Orders do not share a row, so a property of one order is checked with one; two are what the
  webhook's lookup could confuse. In `Loyalty` orders share the customer, hence three.
* `CheckedPrices`: R$ 600,00 and R$ 409,99 give 600 and 400 points, exactly the first level
  together; R$ 9,99 gives none.
* `Tokens`, `MaxHashes`: three tokens are a login and two rotations, or a stolen token, its
  successor and a second login; three hashes are a registration, a reset and an
  anonymisation. Accounts share nothing but the unique e-mail address, which the database
  guards, so one account is enough.
* `MaxWrites`: a reader is overtaken by one change; the second and the third show that later
  changes repair or repeat it.
* `LiveOrders`: two calls are what it takes for one answer to overtake another; two orders for
  marks and lists to be confused, of two customers for a change of user. An event carries
  nothing the page uses, so one that waits stands for several. Two changes let a list be stale
  by one and an action race with another client.
* `BrowserSession`: two calls are a refresh and what shares it or races with it, two tabs a
  refresh each. The third token is the one a second rotation or another login needs.
* `Builder`: the catalogue is edited twice so that a price, an allergen and the set of active
  ingredients change, then a page without coverage is met. One flag, gluten, stands for two
  allergens of which the catalogue has both. 300 g is clamped to 500 g, which
  gives odd cents; three floors are where RN01 begins. Three actions are two edits and an order,
  or two orders and an edit.
* `BackOffice`: two rows, one of them created during the run; the odd price makes the average a
  half cent. Two days separate the day of an order from that of its payment.
* Symmetry: ids are interchangeable and the properties of those runs are not liveness
  properties. `orders_live` uses none, and in `Loyalty` only handlers are symmetric because
  prices tell the orders apart. In `live_orders` customers are exchanged together with their
  orders, in `back_office` only the catalogue's ids and prices.

### Fairness

`FairSpec` of `OrderPayments` assumes that the event loop continues a request it holds, with
success or failure (WF), that a webhook not yet answered is delivered again and again and
finds a free handler (SF: the gateway repeats it, and other requests cannot keep every handler
busy for ever), and that a step of the webhook's handler does not fail every time it is tried
(SF). Nothing is assumed of customers, staff, the clock or restarts. `Fairness` of `CatalogCache`
assumes that the event loop continues a request it holds and that a key with a time to live
expires (WF); nothing is assumed of Redis answering or of administrators. The models of the
browser state no fairness: nothing obliges a network to answer, so their properties say what
holds whenever nothing is under way.

## 4. Proofs

Every safety property the passing runs check is a theorem: for every value of the constants, any number
of orders, charges, accounts, tabs, calls and overlapping requests. The assumptions on the
constants are that values which stand for none are not ids, that bounds are naturals, that each
order has a customer and a price, that catalogues and prices are what the schema stores, and that
`Orders` of `Loyalty` and `Sales` are finite, because sums are taken over them
(`ValuesAssumption`, `SessionsAssumption`, `CatalogAssumption`, `LoyaltyAssumption`,
`LiveAssumption`, `LoadingAssumption`, `BrowserAssumption`, `BuilderAssumption`,
`CatalogViewAssumption`, `BackOfficeAssumption`). Two theorems say in their statement that `None`
is no report and no function: the pages tell "nothing yet" (`null`) from what they show.

| Theorem | Property |
|---|---|
| `TypeCorrect`, `Invariance` | type correctness of `OrderPayments`; `IInv` |
| `ProductionGateHolds`, `PaidOrderMovedHolds`, `RefundIsRealHolds`, `WebhookFindsOneRowHolds` | the invariants of `orders_race` and the lookup of `orders_serial` |
| `AwaitingEndsOnceHolds` | the action property |
| `ImplementsGateHolds` | `OrderPayments` implements `PaymentGate` |
| `KitchenOrdersArePaidSerially`, `CancelledAsksNothingSerially`, `ImplementsLifecycleSerially` | the properties of `orders_serial`, as long as no two requests under way are about one order; `ImplementsLifecycleAlone` is the case of one handler, which the run has |
| `LevelFollowsXpHolds`, `NoOrderCountsTwiceHolds`, `PointsExactUnlessRacedHolds` | `loyalty` |
| `SessionsInvariance`, `ForgottenForGoodHolds`, `OneSessionPerLoginHolds`, `PasswordEndsSessionsHolds`, `AnonymizedLeavesNothingHolds` | what requests in flight know; `sessions` |
| `CurrentUnlessDisturbedHolds` | the safety of `catalog_cache` |
| `LiveTypeOK`, `OwnOrdersOnlyHolds`, `BusyWhileUnderWayHolds`, `QuietPageIsCurrentHolds` | `live_orders` and its types |
| `BrowserTypeOK`, `RestIsDecidedHolds`, `NoFalseReuseHolds`, `ShownMatchesCookiesHolds` | `browser_session` and its types |
| `VisitAlwaysRestores`, `RestAlwaysHasQuote`, `OneOrderAVisit`, `ShownPriceIsAlwaysCharged`, `LetThroughIsAlwaysAccepted`, `FloorsAlwaysAddUp` | `builder` |
| `SnapshotsAddUp` | the snapshots of a floor and its part of the total differ by two cents at most |
| `FormKeptHolds`, `ListAlwaysMatches`, `EachSaleAlwaysOnce`, `LastAskedIsAlwaysShown`, `FileIsAlwaysTheReport` | `back_office` |

### Orders and payments

*The inductive invariant.* That the kitchen holds only paid orders is not inductive: a move
decided from an old snapshot is written without a look at the row, so what matters is what is
still true of the order when the write happens. `IInv` gives, for each point a handler may
stand at, a conjunct (`Creating`, `Reissuing`, `Expiring`, `Cancelling`, `Confirming`,
`Answering`, `Moving`) that says what it is going to write and why it may. Each one speaks
only of facts that no step takes back: the order is stored, it has stopped waiting
(`Left`), a charge of it was received (`Received`) or refunded (`Refunded`), a charge belongs
to it. So a conjunct established by the read survives whatever other handlers do, and is
still there for the write. `RowsOwned` and `EventsOwned` tie rows and events to charges;
`CreatesAlone` keeps other requests off an order that is not stored yet. The proof has a
lemma per action and combines them in `Invariance`; `AwaitingEndsOnce` and the refinement
follow from `IInv` and one case per action.

*What holds only without overlap.* `KitchenOrdersArePaid`, `CancelledAsksNothing`
and the refinement of `OrderLifecycle` fail with two handlers (section
3), so their theorems have a hypothesis: `[]OneAtATime`, no two requests under way are about the
same order. It allows any number of handlers, and with one handler it holds by itself, which
`ImplementsLifecycleAlone` uses.
Under it a snapshot is not only legal but current (`Fresh`), and a
step changes the row of its own handler's order only (`Works`), in one of the ways of `Effect`.

### Points

*LevelFollowsXp* is inductive only with the statement that the snapshot in flight is
consistent: what a handler read of the level is the level of what it read of the points.

*NoOrderCountsTwice* compares the points with a sum over the ledger. What keeps it through a
stale write is that a snapshot never holds more than the awarded orders of that moment give, and
awards only grow; a handler that found no award adds an order that is not among them (`Backed`).
*PointsExactUnlessRaced* adds that without overlap the snapshot is what the customer has and the
order has no award yet (`Fresh`).

### Sessions

*ForgottenForGood* is an action property: once an account is anonymised and no request
stands past its check on it (`Settled`), no step opens a session, stores an address or brings
a request past that check. Its invariant says that a request in flight names an existing
account and token and that only existing accounts are anonymised; the proof goes through the
actions, since each of them either reads `anonymized` or writes for another account.

*The accounts whose requests did not overlap.* `HIInv` says of them (`SessionsKept`) that live tokens
of one login are one, that they carry the present password, that an anonymised account has none,
and, of the one request that may be under way, that the token it rotates is the only session of its
login and that it issues nothing for an anonymised account. `RowsDescend` follows the origin
of tokens through any number of rotations: the login a token descends from has been issued, so a
new login is never taken for an old one.

### Catalogue

*CurrentUnlessDisturbed* needs what holds in the middle of a request: undisturbed, at most one
request is in flight, the copy is current unless that request is about to delete it, and what
a reader carries is the list in the database.

### The customer's and the kitchen's page

*OwnOrdersOnly* speaks of the list shown, which any answer may replace. Its invariant adds what
is true of every call under way (`CallsLegal`): a listing of the customer's page holds the orders
of the user who asked, a call whose effect is live was made by the present user, and an action
is under way only when there is a list. So an answer either belongs to the present user or is
not taken, and an action replaces orders that are in the list already.

*BusyWhileUnderWay* needs that the mark is on the order of the one action under way
(`MarkFollows`). *QuietPageIsCurrent* is about a page with nothing under way; while something is,
`Follows` says what stands for it: the page still waits for an event or a commit that will be
published (`Awaited`), or the latest listing carries the present statuses, and an action that was
answered changes none of them (`Good`). Only the latest listing can be spoken of: an earlier one
may be stale and is overtaken, which the history records.

### Tabs and cookies

*RestIsDecided* follows from `Decided`: while a tab loads, a request to `/auth/me` that still
counts is under way. The step that would break it is an answer that is discarded while nothing
replaces it. Of the actions that make such a request void, `setUser` ends the loading itself,
`refreshUser` asks anew, and the button for logging out is offered to a decided tab only.
`Signed` says that cookies and answers that stand for a session name its account.

*NoFalseReuse* holds because every refresh token that a tab may present is live (`Calm`), as long as
one request at a time changes the tokens: the token of the cookies, unless an answer on its way
replaces it, the token of an answer on its way, and the one a refresh carries. `Fits` ties each
of them to the account it was issued for and gives each tab one refresh.

*ShownMatchesCookies* lets a tab show another account than that of its cookies while it waits; the
invariant (`Smooth`) is that then an answer is on its way that counts and is about the account of
the cookies (`Sincere`, `Corrected`). A refresh in between renews the same account, by `Fits`.

### The builder

One invariant, `IInv`, carries the theorems about `Builder`: the page has a draft wherever one is edited,
a quote shown is what the API's pricing computes for its floors with the catalogue of its version
(`Priced`), the last quote asked for is for the floors on the screen (`QuotesFollow`), orders of a visit come one at a time (`OrdersInTurn`), and an order in progress
remembers the draft, the quote and the catalogue it was let through with (`LetThrough`). So a total
that differs from the price shown means that the catalogue has changed between the two. Each
helper over sequences (the ingredients of a floor, the first one listed, the requests that are left) has a lemma that says
what a reader needs of it, so that no induction is needed: the page and the API apply the same
operator to the same floors. The two tables of allergens are compared flag by flag (`TablesAgree`).

*VisitAlwaysRestores* adds the history (`HInv`): an open page shows the draft shown last, and unless
an order or a stray upload has written to the storage since, the storage holds it. Every step either
saves the draft it shows, leaves both alone, or is one the history names (`DraftStep`), and a draft
comes on the screen of a visit only with the catalogue (`OnlyCatalogShows`). That every floor keeps a
filling (`Storey`) is what makes the draft acceptable to `readDraftFromSession`.

*SnapshotsAddUp* bounds a difference of rounded products: each of four items is off by at most
half a cent and so is their sum, hence 2.5 cents, and in whole cents two. `FloorsAlwaysAddUp` adds
that both reads saw the same catalogue.

### The administrator's pages

*FormKept* needs that at most one save is under way, that `saving` tells so, and that until the
form is touched the save carries what the form has (`OneSave`, `Marked`, `Faithful`). Types are
kept only as far as the argument uses them: some set holds every value (`Shaped`).

*ListMatchesDatabase* is about a list at rest. While answers are on their way a row of it may be behind
the table, or missing; `ListInv` says of every row that is not odd that at most one request is
about it, that an answer on its way has it as the table has it (`Told`, `Loaded`), and that the list
shows it or that answer will put it right (`Repairs`): a created row is added, a deactivated one
is marked, the others are replaced. `Tables` says that the list has rows of the table only and that
a load is the first request of the page. Each step either leaves the row, in the table and in its
answer, or is one the history counts.

*EachSaleOnce*: a paid order has one day, and none after today (`SaleInv`); the revenue of a set of
days is that of its parts. *LastAskedIsShown* and *FileIsTheReport* follow from `ReportInv`: one request
of each kind, answers of the period asked for, and while dates and sales stay an export
under way is for the report on the screen.

### Sums

`NoOrderCountsTwice` and `EachSaleOnce` speak of sums over finite sets, which the community modules
define by a recursive function of the set. That such a function exists for every finite set is
proved with a minimal counterexample: a nonempty family of subsets of a finite set has a member
with no other below it (`Smallest`), because strict inclusion of finite sets is well founded; an
induction theorem that takes an operator as a parameter could not be instantiated. From it comes
what the proofs use: a sum does not depend on the order of its terms, an element can be taken out
of it, and the sum over two disjoint sets is the sum of both.

### Only model-checked

* `PaidOrderIsServed` and `StaleListEnds`: liveness under fairness is out of the prover's reach.
* That `KitchenOrdersArePaid`, `CancelledAsksNothing` and
  `ImplementsLifecycle` hold when requests about one order do not overlap is proved; that they do
  not hold otherwise is what TLC shows with two handlers.
* What each fold over a sequence computes (prices and weights of a cake): the theorems about the
  builder use that both sides apply the same operator and what bounds the result, and the values
  themselves are those of the run's catalogues.

## 5. Not modelled

* **Uploads** (`apps/api/src/uploads`): each request writes one file under a new name; recognising
  the type of a file is byte matching without state. How the builder waits for one is in `Builder`.
* **E-mail**: texts sent after a commit, failures swallowed. What the cancellation e-mail claims is
  `CancelGivesMoneyBack`.
* **Guards, decorators, filters, configuration, throttling**: each decides one request by itself.
  A refusal is an early return where a handler is modelled and a `Lose` where a page is.
* **Metrics, health, infrastructure**: nothing else reads them. That there is one API process is
  assumed (`docker-compose.prod.yml`).
* **PIX gateway**: of the repository's client, the lookup of the gateway's customer and the
  simulation without an API key are left out.
* **Schema**: columns no property tells apart (names, texts, colours, pictures) are left out.
* **Other pages**: the home page, the header's links, password recovery's forms, messages and the
  three-dimensional preview hold no state another part reads.
* **Times and texts of numbers**: days are numbers, so the boundary of the UTC day against the
  browser's own is left out; decimal texts are taken to be converted exactly, since the schema
  stores two decimals and the page types three. The download of the CSV file, unlike `apiRequest`,
  does not renew the session on a 401 (`kanban-reports.ts:114`): in `Reports` it is a failure like
  any other.
