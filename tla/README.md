# Verification of the marketplace back end

TLA+ models of the API of a multi-vendor marketplace for digital products
(`src/apps/api`), of the arithmetic it shares with its web client
(`src/packages/shared`) and of the client's session handling, the TLC runs that check them on small instances, and theorems
about them that TLAPS proves for every instance. `PROJECT.json` lists the
components, runs, theorems, known hazards and, for every definition, the lines
of code it stands for.

    tlc -workers 2 -config OrdersCore.cfg MCOrders
    tlapm OrdersProofs.tla

## The system

One Node process serves HTTP, runs three timers, and keeps everything in
PostgreSQL through Prisma at the default isolation level (READ COMMITTED). Money
moves through a payment gateway: Mercado Pago, or a mock that approves at once.
The gateway calls back with webhooks, may repeat, delay, reorder or lose them,
and can be asked for the state of a payment.

| Part | State | Operations | Talks to |
| --- | --- | --- | --- |
| Checkout and orders (`orders/checkout.service.ts`, `reconciliation.ts`) | Order, OrderItem, sales counters | checkout, markPaid, markFailed, markRefunded, refund, reconcile | gateway, ledger, coupons, reviews, cart |
| Webhooks (`webhooks/webhooks.service.ts`) | WebhookEvent, unique by provider and event id | handle, dispatch | orders, withdrawals, subscriptions |
| Jobs (`jobs/jobs.service.ts`) | one running flag per timer | release matured credits, settle PENDING orders, reconcile subscriptions | ledger, orders, subscriptions |
| Gateways (`payments/gateway`) | at the provider: payments, transfers, preapprovals | create checkout, look up, refund, transfer, parse and verify webhooks | everything with money |
| Ledger (`finance/ledger.service.ts`) | LedgerEntry with status PENDING or AVAILABLE and a maturity date | releaseMatured, getBalance, adjust | orders and withdrawals write into it |
| Withdrawals (`finance/withdrawals.service.ts`, `withdrawal-rules.ts`) | Withdrawal, the seller's recipient id | request, approve, reject, markPaid, transfer webhooks | ledger, gateway |
| Coupons (`coupons`) | Coupon, CouponRedemption | quote, redeem in checkout, CRUD | checkout |
| Subscriptions (`subscriptions`) | Subscription, one row per attempt | subscribe, cancel, provider events, reconcilePending | gateway, plans, products |
| Products (`products`, `vendors.service.ts`) | Product.status, publishedAt, files, thumbnail | create, submit, approve, reject, block, unblock, unpublish, remove, files and images, suspension of the seller | plans, orders |
| Reviews (`reviews`) | Review, rating sum and count on the product | upsert, reply, hide, removal with a refund | orders, products |
| Prices and settings (`settings`, `packages/shared`, `coupon-math.ts`) | the provider fee, its cache, base and listed price of every licence | set a price, set the fee and reprice, price a checkout | products, checkout, plans |
| Users and auth (`auth`, `users.service.ts`) | User.status and password, RefreshToken rows | login, refresh, logout, change and reset the password, block | web client |
| Cart, plans, vendors, audit | one or a few rows each | CRUD | all of the above |
| Web client (`apps/web`) | the refresh token in local storage, one rotation at a time per page | pages over the API, sign-in and rotation | the API |

### What is hard in it, and what makes each part correct

* **Orders.** Five callers move the same order: the checkout itself, webhooks, the
  buyer's page (`GET /orders/:id`), the settle job, and an admin's refund. Each
  reads, awaits, and writes. Correct means: one credit and one debit at most, the
  ledger always agrees with the status, an order is PAID only for money the
  provider took, REFUNDED only for money it returned, the sales counter counts
  sales that stand, and every PENDING order is settled some day.
* **Webhooks.** The row that deduplicates is written before the event is applied.
  Correct means an event is never applied twice; that it is applied at all is
  another matter (see the findings).
* **Withdrawals.** Sellers and admins double-click, the provider answers late,
  refunds come in between. Correct means: a hold is given back once, never for
  money that left, the money is sent once, and a balance is never overdrawn by a
  request.
* **Coupons.** `maxUses` counts redemptions of PENDING and PAID orders under a row
  lock; an order that failed may still become PAID.
* **Subscriptions.** Two subscribes at once, renewals that arrive after a
  replacement, a reconciling job beside the webhooks. Correct means: nobody sells on
  a plan that was not paid, a plan that has started is not deleted with the abandoned
  checkouts, one plan is live beside those whose transactions raced, a canceled one
  entitles until its period ends unless a past-due event had looked it up before, and a
  paid one starts some day.
* **Products.** Seller and admins move the same product, each by a read and a later
  update by id; the plan's limit is counted before it is used; a product is bought
  while it is deleted. Correct means: nothing is on sale that no admin approved,
  nothing sold disappears, and the plan's limit is exceeded by no more than what
  overlapped.
* **Reviews.** The rating is kept as a sum and a count, moved by differences to what
  an unlocked read saw; a refund takes the review with it. Correct means: the rating
  is that of the visible reviews as long as reads hold, and a refunded purchase has
  no review.
* **Prices.** A price is computed with a fee from a cache that an update of the fee
  drops and an older load fills again; a coupon is spread over lines in whole cents.
  Correct means: a listed price leaves the seller what the seller asked, every line
  adds up, and a coupon gives what it promises.
* **Sessions.** A rotation revokes one token and issues another in two statements,
  between which a password change or a block may revoke them all. A page that is
  reloaded loses the answer and forgets that it asked, while the server goes on; tabs of
  one browser ask at once. Correct means: what ends the sessions ends them, a session
  splits only where requests overlap, a browser's token is revoked only for a reason,
  and a reset link works once but for requests that overlap.

## Modules

| Module | What it is |
| --- | --- |
| `OrderLifecycle` | the promise: statuses of an order and the moves between them, with the credit, debit and sales counter each move makes |
| `Orders` | checkout, webhook inbox, reconciliation, settle job, refunds, the ledger's entries of an order, and the provider |
| `MCOrders` | instances of `Orders` for TLC |
| `OrdersProofs` | the theorems of `Orders`: its safety, and that it implements `OrderLifecycle` |
| `Withdrawals` | requests, approvals, transfers and the seller's balance |
| `MCWithdrawals` | instances of `Withdrawals` for TLC |
| `WithdrawalsProofs` | the theorems of `Withdrawals` |
| `Coupons` | the cart, and what a checkout takes: lines on sale and a use of a coupon |
| `Prices` | what a product costs, what a coupon takes off, and who gets what; the fee, its cache and the repricing |
| `MCCoupons` | instances of `Coupons` and `Prices` for TLC, side by side |
| `CouponsProofs`, `PricesProofs` | their theorems |
| `Subscriptions` | a seller's plans, their transactions, and the preapprovals at the provider |
| `MCSubscriptions` | instances of `Subscriptions` for TLC |
| `SubscriptionsProofs` | the theorems of `Subscriptions` |
| `Products` | a seller's products, moved by the seller, admins and buyers |
| `Reviews` | reviews of one product and its rating |
| `MCCatalog` | instances of `Products` and `Reviews` for TLC, side by side |
| `CatalogProofs` | the theorems of both |
| `Sessions` | the sessions of one user, on the server and in the browser |
| `MCSessions` | an instance of `Sessions` for TLC; `scope` says who takes part in a behaviour |
| `SessionsProofs` | the theorems of `Sessions` |
| `SetSums` | facts about sums over finite sets, for `PricesProofs` and `CatalogProofs` |

"Side by side" means that the modules share no variable and a behaviour moves one of
them (`focus`): interleaving them would multiply the states and add nothing to check.

### Orders

*State.* `status`, `linked`, `tookAt`... are columns of the `Order` row; `credit` and
`debit` its ledger entries with their status; `sales` the product's counter; the
provider's side is a set of payments with a status and whether the money is
still there; the inbox is the set of stored event ids; `task` says at which await
each HTTP request (`Handler`) is, and what it has read; the job has a task of its
own and the queue it took.

*Steps.* An action is what happens between two awaits that someone else can
observe. A database transaction is one action, except `markRefunded`: it first
claims the order (`ClaimRefund`, which locks the row and reads the credit), and
commits later (`CommitRefund`); in between, `releaseMatured` may run, and that is
where the code's `updateMany` on the reversed credit matters. A conditional
`updateMany` is a guard and an assignment. A lookup or refund at the provider is
two steps: the provider answers, and the answer is applied. Crash forgets every
task and the inbox's progress, and keeps the rows.

*Left out.* The lines and the coupon of an order are in `Coupons`, its prices in
`Prices`, the reviews a refund removes in `Reviews`, whether its products are on sale
in `Products`: parts of the same transactions, modelled apart. All orders sell one product of one seller. A lookup reports any
approved payment, where the code takes the newest. The mock gateway's
development webhooks are not modelled.

### Withdrawals

*State.* The `Withdrawal` row (`status`, `amount`, `reference`, `recent` for
"requested less than a week ago"), the number of WITHDRAWAL_RELEASE entries, the
provider's transfer and how often one was started, and the balance as sums:
`pending` on hold, `ripe` past its hold but not released, `available` with holds
deducted. `earned` and `taken` are histories of what was credited and debited.
`task` is the await each request is at.

*Steps.* `Request` locks the vendor row, releases matured credits, evaluates the
rules; `PlaceHold` writes and commits; between the two, no other request of the
same vendor runs (`Locked`), but everything else does. `approve` is
`ReadForApproval`, `CheckBalance`, then `ApproveManual`, or `StoreRecipient`,
`ClaimTransfer`, `TransferAnswers` or `TransferThrows`, `RecordTransfer`,
`FailTransfer`: at each arrow anything may happen. `reject` is one transaction.
The transfer's webhook is stored once (the inbox is modelled in `Orders`) and
looks the withdrawal up by the id `RecordTransfer` stores.

*Left out.* Whether the seller is active, entitled by a plan and has payout
details: a request that fails these tests changes nothing. `createTransfer`
throwing is taken to mean that no money left, as the code takes it. The mock is
the only gateway that pays out today, and it answers `paid`; `pending` and
`failed` come from the interface the code is written against.

### Coupons

*State.* `cart` is each buyer's set of products, `onSale` the products a buyer may
see, `lines`, `buyer` and `status` the orders, `redeemed` the orders with a
`CouponRedemption` row, `limit` and `active` the coupon's row (`active` also stands
for its dates). `failedOnce` is a history variable: orders that have been FAILED.

*Steps.* Adding to a cart is two steps: the product and the library are read
(`CheckItem`), then the line is written (`PutItem`). A checkout reads the cart on a
connection of its own (`ReadCart`), prices the lines and quotes the coupon under the
row's lock (`Price`), and commits order, items and redemption (`CreateOrder`). In
between, orders are paid, failed and refunded, products go off sale, time passes and
other checkouts run up to the lock; the owner's update of the coupon waits for it.
Every cart operation ends in `CartService.get`, which drops what is off sale, so
`SetCart` does.

*Left out.* Amounts, which are in `Prices`: the coupon applies to every line. The
licence of a line. What happens between the order and the gateway is in `Orders`.

### Prices

*State.* `fee` is the provider's fee in the settings, `cache` what the settings service
keeps of it, `base` and `price` the columns of a product, whose second licence is
another article, `edit` what a request is about to write. `asked` (what each seller
last asked for) and `feesSeen` are histories. `placed` is the one checkout a behaviour
ends with, `terms` its coupon.

*Steps.* Setting a price takes the fee from the cache (`AskFee`) or from the database,
fills the cache (`FillCache`), and writes (`WritePrice`); others run in between. A new
fee is one transaction that reprices every article (`SetFee`), after which the cache
is dropped and loaded again (`Invalidate`, `FillCache`). `PlaceLines` is
`CheckoutService.price`: it splits every line and spreads the coupon. The code sorts
the lines by floating-point remainders of their shares; `RoundedUp` takes the exact
remainders and, among equal ones, any order.

*Left out.* Other settings; currencies and formatting; which products a coupon is for
is a set of articles.

### Subscriptions

*State.* `status`, `planOf`, `createdAt` and `period` are the columns of a
`Subscription` row; a member of `Sub` names the row and its preapproval, and is NONE
before it exists and GONE once it is deleted. `vendor` is the seller's status, `prov`
the preapproval's. `accepted` is a history variable: the preapprovals that have been
given a card; `strays` are live rows whose transaction read the others while another
plan was starting, and rows a past-due event brought back after a cancellation, until a
switch or a cancellation closes them. `stored` is the inbox, `task` the await each request is at, with what
it has read and, inside a transaction, what it has written.

*Steps.* `subscribe` is `Subscribe` (the checks), `CreatePreapproval` unless the plan
starts at once, `BeginInsert` (the transaction deletes the PENDING rows and reads the
plans to replace) and `Commit`. `markActive` is `Dispatch`, `BeginActivate` and
`Commit`. In both, `replacePrevious` calls the provider before it closes each row
(`CancelOther`, `CloseOther`): what the provider did stays when the transaction rolls
back (`TaskFails`). Other transactions wait for the rows an open one has written
(`Locked`) and do not see them. `markPastDue`, `markCanceled` and `cancel` read a
status and later update by id (`Dispatch` or `Cancel`, then `SetStatus`).
`reconcilePending` asks about the newest PENDING row (`StartLookup`,
`LookupAnswers`), from the page and from the job.

*Left out.* Dates: `period` says whether the paid period is running or over, and an
authorized preapproval always has a next payment date. The statement that begins a
transaction and its first reads are one step: a transaction that commits between the
two counts as committed before both. The minimum age of a row the job asks about. What
a plan entitles to: its limits are constants of `Products` and `Withdrawals`.

### Products

*State.* `status`, `published` (publishedAt is set), `files`, `thumbnail` are the
product's columns and rows, `sold` says that an order item refers to it, `vendor` is
the seller's status. `call` is what each request has decided and is about to write.
`restored` is a history variable: listed products that an admin put back (an unblock,
or the approval of an unpublished one), to which no limit applies.

*Steps.* Nearly every operation reads, decides, and updates by id: `CheckSubmit` and
`Submit`, `CheckUnpublish` and `Unpublish`, `CheckReview` and `Review` (approve, reject
and block), `CheckRemove` and `Remove`, `CheckRemoveFile` and `RemoveFile`. Unblock
reads, hands over to review, which reads again: three steps. `SetStatus`, which
suspends a seller and blocks what is on sale, is one transaction. A checkout sees the
product on sale (`CheckSale`) and inserts the order item (`Sell`); the foreign key
refuses to delete what has been sold meanwhile.

*Left out.* Preview images, texts, tags and categories, which decide nothing. Prices
are in `Prices`. `PlanLimits` are the limits of the plans the seller may hold; which
one counts at a submit is any of them.

### Reviews

*State.* `order` and `review` of each purchase of one product, `ratingSum` and
`ratingCount` on its row, `work` what each request has read. `stale` counts the writes
that rested on a read that no longer held, `late` names the purchases reviewed during
their refund or after it; both are histories.

*Steps.* A review is `CheckPurchase`, `ReadReview`, `WriteReview`; moderation
`ReadHidden` and `WriteHidden`; a refund `ClaimRefundedPurchase`, which takes the
order's lock and reads the reviews, and `RefundPurchase`, which deletes them. The
increments of the rating are atomic, the reads they rest on hold no lock.

*Left out.* The text of a review and the seller's reply.

### Sessions

*State.* `live` are the refresh tokens that are not revoked; `session` says which
sign-in a token descends from. `account` and `version` are the user's status and
password. `stored` is the token in each browser's local storage, which its tabs share
(`BrowserOf`). `refresh` is each request to rotate a token: how far the server is with
it, and the tab that waits for it (its `refreshInFlight`), if one still does. `visit` is
what the user of each tab is doing, `reset` the password a request has compared its link
with, `blocking` an admin's block between its two statements. Histories: `ended`
(sessions that a password change or a block has ended), `escaped` (of those, the ones
with a rotation under way at that moment), `overlaps` (how often a session's token was
found valid while another request was already rotating it), `cut` and `losses` (tokens
whose rotation or sign-out was not answered, and how often), `uses` of links, and
`rivals` (the requests that had checked a link when its password changed).

*Steps.* A rotation is `StartRotation`, then on the server `CheckToken` (the row),
`CheckUser`, `RevokeToken`, `IssueRotated`, each a statement of its own, and in the page
`StoreRotated` or `ClearRefused`. `LoseAnswer` is a reload or a dropped connection: the
page is free to ask again, with the same token, and the server goes on without it,
unless it stops, too (`ServerStops`). A page that cannot load its user, and the reset
page, clear the storage (`DropTokens`). A sign-out may lose its answer like a rotation.
Setting a password and revoking every token is one transaction; comparing the old one,
or the link's fingerprint, comes before it. A block is two statements.

*Left out.* Access tokens (they live for minutes and every use asks whether the user
is active), the expiry of tokens and links, registration, which is a sign-in, and the
profile.

## Runs

Bounds are constants of the modules and named there; `None` and actors are model
values, actors and rows are symmetric where the run has no liveness property.

| Run | Instance | Shows |
| --- | --- | --- |
| `OrdersCore` | 1 order, 1 payment, 3 requests, the job, 1 fault | the safety of every interleaving of the five callers, the sales counter, and refinement of `OrderLifecycle` |
| `OrdersSettle` | 1 order, 1 payment, no webhook need arrive, 1 fault | every linked PENDING order is settled by the job alone |
| `OrdersDelivery` | 1 order, 2 payments, webhooks repeated until stored | a rejected attempt and a retry, or two approved payments: an approval is honoured, a dashboard refund of a PAID order reverses it |
| `WithdrawalsCore` | 2 withdrawals, 2 requests beside rejections, webhooks and the ledger, both modes, 1 a week, 1 fault | holds, transfers, no double spend, weekly limit |
| `CouponsCore` | redemptions: 2 orders of 2 buyers, 2 requests, 1 product, one use or any number. Prices: 3 articles, 1 of them edited, 2 editors, fees 0 and 4.99 %, commissions 0 and 15 %, 5 coupons, 1 checkout | redemptions within the limits; prices leave the seller the seller's own, lines add up, coupons give their worth |
| `SubscriptionsCore` | 2 subscriptions, a free and a paid plan, 2 requests, 1 stored preapproval event beside any number of charges | a paid plan entitles only once it was paid; a started plan is not deleted; one live plan beside the strays; a canceled plan keeps its period |
| `SubscriptionsSerial` | 2 subscriptions, 1 request, any number of events, the first one's period may end, the seller may be suspended | a paid plan starts without its notification |
| `CatalogCore` | products: 3 of one seller, 1 traded, 2 complete drafts, a plan for 1, 1 file, 2 requests, the seller may be suspended. Reviews: 2 purchases, 2 requests, ratings 1 and 5, 1 write on a stale read | the plan's limit under overlap, nothing unapproved on sale, nothing sold deleted; the rating, and no review of a refunded purchase |
| `SessionsCore` | 2 browsers, 2 tabs in one of them, 3 tokens, 2 rotations, 2 requests with links, 2 incidents; each behaviour uses some of these (below) | what ends sessions ends them but for rotations under way; sessions split by overlaps only; a stored token is revoked only by what its browser does; a link works once, and again only for requests that had checked it before |

Why these bounds are enough: every race in this code is between two callers, and a
third is needed to change the row between the two steps of a second, a request in
`OrdersCore`, an action without a handler of its own (a rejection, a webhook, a
refund, the owner's update, a suspension, a block) in the others. An order has one
row, one credit and one debit, so a second order matters only for the batch of the
settle job, which no run exercises: with two orders the liveness run is too large. Two
payments are needed for a retry, and a third adds no new relation. With two
withdrawals a seller has one open and one closed, or one more than the weekly limit;
with two orders a coupon has one redemption more than its limit. Two subscriptions are
a plan and the one that replaces it, or two abandoned checkouts. `AdminSets` bounds
what admins set a seller to, `Lapsing` the subscriptions whose period ends; both are
empty in `SubscriptionsCore`, where two requests overlap. `MaxStored` bounds the
different preapproval events that are stored (charges are not), and does not bind in
`SubscriptionsSerial`; the safety of `SubscriptionsCore` was also found with no such
bound, in a run that takes too long to repeat. Three products under a limit
of one are the two that overlap beyond it and one that is traded (`Traded`); the two
`Prepared` ones start complete. One article is edited (`Edited`) and three are bought,
at prices (1, 101 and 333 cents before the fee) that leave cents over in a spread and
reach the line's and the order's minimum. Three tokens are a session that is rotated
and another one beside it, or one rotated twice or split; `MaxIncidents` bounds how often
the password changes and an answer is lost. All of `Sessions` at once is too large, so a
behaviour of `SessionsCore` has one of these scopes: two devices with a page each, one
rotation and one password change; two tabs of one browser with two rotations (three
tokens, or two and blocks, too); one page with two rotations, one lost answer and one
password change, which is the page that is reloaded; one page and two requests with
links, with two password changes. The theorems cover every number.

`SubscriptionsCore`, `SubscriptionsSerial`, `CouponsCore` and `CatalogCore` do not look
for deadlocks: finite rows are used up, or a behaviour ends with its checkout, and
then there may be nothing left to do.

### What the documentation says and the code does not do

Each of these runs checks one sentence of the repository and ends in a counterexample.

| Run | Sentence | What happens |
| --- | --- | --- |
| `OrdersLostWebhook` | "Lost webhooks are not fatal" (`README.md:287`) | a payment approved while reconciliation decides "failed" is picked up by nobody |
| `WithdrawalsNegative` | not "approved or marked paid while the available balance is below zero" (`README.md:328`) | an APPROVED one is, and the check of an approval and its update are two statements |
| `SoldWithoutFile` | "A product with sales must keep at least one downloadable file" (`product-files.service.ts:99`) | an approved product without sales loses its only file, stays on sale, and is bought |

### Seen while modelling

Orders and payments: an order whose
gateway id was never stored (a stop between the commit and the update) stays PENDING
for ever; a transfer webhook processed before the transfer's id is stored is dropped;
an admin may mark a withdrawal paid by hand while the provider's transfer is in
flight; two tabs of one cart buy a product twice. A refund made at the provider's
dashboard that is applied before the approval it follows finds no PAID order and is
dropped; the approval then marks the order PAID for money already returned. Of two
approved payments of one order, the return of the second reverses it although the
first stands. A FAILED order holds no redemption and can still be paid, so a coupon
with one use can be used twice. An event whose dispatch fails, or
is cut off by a restart after its row is stored, is a duplicate for ever: `README.md:99`
says exactly once, the code gives at most once, and that is what `ProcessedAtMostOnce`
states.

Subscriptions: an abandoned checkout's row is deleted when the next one is opened and
its preapproval stays open: whoever pays with the earlier link is charged every
period, and no row knows it. Two activations that overlap do not see each other and both
plans stay ACTIVE, though `replacePrevious` "closes any other live subscription"
(`subscriptions.service.ts:315`). A past-due event that found its row ACTIVE is written
over a cancellation, though "the vendor keeps access until the current period ends"
(`subscriptions.service.ts:208`, and `README.md:285`). `OneLivePlan` and `KeepsAccess`
except exactly these (`strays`, `PastDueUnderWay`), and TLC finds each of them in
`SubscriptionsCore` when the exception is taken out of the property. A renewal
that is applied late makes a canceled or replaced plan ACTIVE again and closes the one
that replaced it. The event id of a preapproval is its status, so a second
`authorized` after a pause is dropped as a duplicate. An event of a preapproval whose
row was just deleted, or is not inserted yet, is dropped too.

Products and reviews: an unpublish that overlaps a block turns BLOCKED into UNPUBLISHED,
from where the seller may submit again, so that every move is one of
`PRODUCT_TRANSITIONS` is not claimed, only that nothing unapproved is on sale. A review
written while its order is being refunded stays. A rating that a write on a stale read
has moved off its reviews is never counted again.

Prices: a load of the settings that began before an update fills the cache after it,
and prices are computed with the old fee until the cache expires.

Sessions: a rotation whose token was found valid before a password change or a block
survives it. Two requests that present one token, from two tabs or from a page and its
reload, may both be given a new one: the session is split, and what signs one part out
leaves the other. The one of two tabs whose request is refused clears the storage of both,
and a rotation that ends after a logout signs the user in again. A token whose rotation
lost its answer is dead, and the user signs in again. A reset link "works exactly once"
(`password-reset.ts:7`) unless two requests compare its fingerprint before either has
written: then both set a password. `LinkWorksOncePerOverlap` excepts exactly these, and
`SessionsCore` reaches the case.

### Fairness

`Orders` assumes weak fairness of every request that has started and of the job
(the process schedules its callbacks; timers fire again after a crash, which is
bounded), of the provider's answers, and, in `OrdersDelivery` only, of the
delivery of each notification until its event is stored: Mercado Pago repeats a
notification that was not answered. `OrdersSettle` needs no delivery at all.
`Subscriptions` (`JobSpec`) assumes weak fairness of the steps of a request that has
started, strong fairness of the hourly question about pending plans, which finds a
request slot again and again, and that errors come to an end; no delivery. Nothing is assumed of buyers, admins, or of the provider's
decision on a payment. The other modules state no liveness and assume no fairness.

## Proofs

Proved by TLAPS for every value of the constants: any number of orders, payments,
requests, sellers, withdrawals, products, tabs and faults, every amount and limit.

| Theorem | States |
| --- | --- |
| `OrdersProofs!TypeCorrect` | `Spec => []TypeOK` |
| `OrdersProofs!LedgerFollowsStatus` | `Spec => []LedgerMatchesStatus` |
| `OrdersProofs!RefundReversesInPlace` | `Spec => []ReversedWhereItSits` |
| `OrdersProofs!PaidForTakenMoney` | `Spec => []PaidOnlyForTakenMoney` |
| `OrdersProofs!ReversedForReturnedMoney` | `Spec => []ReversedOnlyForReturnedMoney` |
| `OrdersProofs!SalesAreCounted` | `Spec => []SalesCountMatches` |
| `OrdersProofs!AppliedOnce` | `Spec => []ProcessedAtMostOnce` |
| `OrdersProofs!KeepsThePromise` | `Spec => ImplementsLifecycle`: the refinement |
| `WithdrawalsProofs!NeverPaidAndReleased` | `Spec => []HoldReturnedOnce` |
| `WithdrawalsProofs!TransfersAreSafe` | `Spec => []TransferredOnce` |
| `WithdrawalsProofs!SentIsNotReturned` | `Spec => []ReturnedOnlyIfNotSent` |
| `WithdrawalsProofs!OneAtATime` | `Spec => []OneOpenWithdrawal` |
| `WithdrawalsProofs!WeeklyLimitHolds` | `Spec => []WithinWeeklyLimit` |
| `WithdrawalsProofs!NoOverdraft` | `Spec => []OverdrawnOnlyByRefunds` |
| `WithdrawalsProofs!FinalIsFinal` | `Spec => FinalStaysFinal` |
| `WithdrawalsProofs!WithdrawalTypes` | `Spec => []TypeOK` |
| `CouponsProofs!NotOversold` | `Spec => RedeemedWithinLimits` |
| `CouponsProofs!CouponTypes` | `Spec => []TypeOK` |
| `CouponsProofs!SideBySideTypes` | `SideBySideSpec => []TypesOK`, `Coupons` and `Prices` |
| `SubscriptionsProofs!NeverUnpaid` | `Spec => []NobodySellsUnpaid` |
| `SubscriptionsProofs!StartedStays` | `Spec => StartedPlanStays` |
| `SubscriptionsProofs!OneLivePlanHolds` | `Spec => []OneLivePlan` |
| `SubscriptionsProofs!CanceledKeepsAccess` | `Spec => KeepsAccess` |
| `SubscriptionsProofs!PlanTypes` | `Spec => []TypeOK` |
| `CatalogProofs!ProductsTypeCorrect` | `ProductsSpec => []ProductsTypeOK` |
| `CatalogProofs!PlanLimitHolds` | `ProductsSpec => []ListedWithinPlan` |
| `CatalogProofs!OnlyApprovedIsOnSale` | `ProductsSpec => []OnSaleWasApproved` |
| `CatalogProofs!SoldProductsStay` | `ProductsSpec => []SoldIsKept` |
| `CatalogProofs!RefundsRemoveReviews` | `ReviewsSpec => []RefundedIsNotReviewed` |
| `CatalogProofs!RatingIsOfVisibleHolds` | `ReviewsSpec => []RatingIsOfVisible` |
| `CatalogProofs!CatalogTypesHold` | `Spec => []TypesOK`, `Products` and `Reviews` |
| `PricesProofs!PricesLeaveTheSellersOwn` | `PricesSpec => []PricedAtSomeFee` |
| `PricesProofs!OrderLinesAddUp` | `PricesSpec => []LinesAddUp` |
| `PricesProofs!CouponGivesItsWorth` | `PricesSpec => []GivesItsWorth` |
| `PricesProofs!PricesTypes` | `PricesSpec => []PricesTypeOK` |
| `SessionsProofs!SessionsTypeCorrect` | `SessionsSpec => []SessionsTypeOK` |
| `SessionsProofs!SessionsEnd` | `SessionsSpec => []EndedUnlessUnderWay` |
| `SessionsProofs!SessionsSplitByOverlap` | `SessionsSpec => []TokensPerSession` |
| `SessionsProofs!BrowsersKeepSessions` | `SessionsSpec => []KeepsItsSession` |
| `SessionsProofs!LinksWorkOnce` | `SessionsSpec => []LinkWorksOncePerOverlap` |

They rest on the assumptions on the constants named in the modules
(`OrdersAssumption`, `WithdrawalsAssumption`, `CouponsAssumption`,
`SubscriptionsAssumption`, `ProductsAssumption`, `ReviewsAssumption`,
`PricesAssumption` and `SessionsAssumption`: finitely many rows, bounds that are
numbers, what the DTOs let through), and on nothing else: any number of requests, tabs
and events overlap in them. Where an overlap breaks what one would wish, the property
names it (`strays`, `PastDueUnderWay`, `overlaps`, `rivals`, `escaped`, `stale`, `late`)
and the theorem says that nothing else does.

Every invariant and action property of the passing runs that is not a liveness property
is a theorem.

*Ledger.* `LedgerMatchesStatus` is not inductive: between `ClaimRefund` and
`CommitRefund` an order is locked with a snapshot of its credit. `LedgerInv` adds
that a request in between owns the order alone, that the order is PAID, and that
the debit it is about to write goes where the credit sits.

*Money.* `MoneyInv` adds `Knows`: what a request has learnt from the provider is true
and stays true until it acts on it, however late, because money that was taken stays
taken and money that was returned stays returned.

*Sales and refinement.* Every step of `Orders` places, fails, pays or refunds one order,
or moves none (`OrderMove`, `StepMoves`). `SalesInv` says that the counter is the
cardinality of the set of PAID orders, so a refund never finds it at zero; that and the
ledger's entries make each move one of `OrderLifecycle` under the refinement mapping,
which gives both `SalesAreCounted` and `KeepsThePromise`.

*Inbox.* `InboxInv`: the request whose insert of an event succeeded owns it, no other
one is about to apply it, and what was applied is stored.

*Withdrawals.* `Inv` is the conjunction of the properties with three lemmas in the
form of invariants. `TaskFacts`: what a request that is under way may still rely
on (before a hold is placed the balance still covers it; between the claim and the
record the status is APPROVED or PAID and no id is stored; a request about to fail
knows of a transfer that does not stand). `Alone`: one open transaction per vendor
and one claim per withdrawal, the two locks. `Unsent`: a withdrawal nobody approved
has no transfer. The claim makes `TransferredOnce` inductive, `Unsent` lets a
rejection give the hold back, and `TaskFacts` is why the unconditional update in
`RecordTransfer` moves nothing that is final. `Quota` is the limits with what the
holder of the seller's lock has counted: none open, and one to spare in the week. It
stays true because every step but `PlaceHold` leaves those sets as they are or makes
them smaller (`CountsShrink`), and `PlaceHold` adds one withdrawal (`PlaceCounts`).

*Coupons.* The holder of the lock knows that what stands is below the limits when it
has counted; `LockFacts` says that this stays true until it commits. It does because
no one else redeems, and because an order that fails and comes back is not counted
as standing again (`RowFacts`: what is FAILED has been failed once). The counting
rests on the library's facts about the cardinality of finite sets.

*Subscriptions.* `RowFacts` adds to the property that a preapproval which is or was
authorized has been accepted, and `TaskFact` that a request about to activate a plan
knows an accepted one: lookups and events decide by the provider's answer, and it
cannot be taken back by the time they write. For deletions, a request that is about to
delete rows knows that they are PENDING. They stay so because it holds their locks:
`PairFact` says that what one open transaction deletes no other one writes, and that
two requests never create the same row. `LiveInv` is the
invariant of the live plans that are not strays (`Steady`). A transaction that starts a
plan and did not race has closed, or has still to close, every steady one (`LiveFact`),
so when it commits its own is the only one; it stays true because no step adds a steady
plan but such a commit, and of two transactions that start a plan one knows that it raced
(`RaceFact`), whose plan is a stray. A past-due update that is about to be written found
its row ACTIVE: what it brings back is a stray, and it is `PastDueUnderWay`, which is
why a canceled plan keeps its period from everything else.

*Products.* `ApprovedBefore`: what a request has decided to put online, from a row it
read earlier, had been approved when it read it, and nothing takes that back. For the
limit, a product that a request has counted for and not yet written takes room already:
what is listed or being submitted (`Room`) exceeds the largest plan by no more than the
other requests, and writing a submit leaves it as it is.

*Reviews.* A refund that read no review has none to remove (`NothingToRemove`), unless
one was written since, which `late` names. For the rating, `RatingDrift` counts how far
it is off: a write moves sum and count by what it changes in its one review as read
(`RewriteDrifts`), which is what the visible reviews move by (`RatingMoves`) unless the
read no longer held, and then `stale` grows by one and the count is off by one more at
most. Nothing is said of how far the sum is off by then.

*Prices.* What a request is about to write rests on a fee that was in force, and
`AskedIsOwn` ties the seller's wish to the base price through every repricing.
`ListPriceLeast` is the arithmetic: rounding up gives the least price that leaves the
base. `SplitAddsUp` says that the exception `splitSaleWithFee` throws when the parts do
not add up is unreachable, given that a price is never below its base (`PriceAboveOwn`).
A coupon's shares are floors with the missing cents added to some lines; `SharesAddUp`
says that with as many lines rounded up as cents are missing, the shares are the target
exactly, `TargetFits` that the target leaves the order what can be charged, and
`DiscountedLine` that a line keeps its parts after its share is taken from the one who
funds it. `PlacedInv` carries these facts from the step that places the lines.

*Sessions.* Tokens that may still become live descend from sessions that are not ended,
or had a rotation under way (`CarriedOn`); `NamesIssued` keeps the names of sessions
apart; `LinksCounted` adds the requests that hold a checked link to the uses of it.
`Balanced` counts a session's valid tokens that nobody is rotating (`Free`) and the
requests that have yet to issue one (`Rotating`): a request that finds a token valid
takes it from the first to the second, unless another request has it already, which is
an overlap; revoking leaves both as they are, and issuing gives it back. `KeepsInv` says
that no two browsers store the same token (`StoredOnce`), that a request presents what
its own browser stores, if any does, or that its answer was lost (`Sent`), and that
nobody but the page that waits for it knows the token in an answer (`Unknown`); so a
stored token is revoked by its own browser, or with all others.

*Sums.* The sum over a set is a fold, and the library's facts about folds need an
induction over sets that takes an operator as a parameter. `SetSums` takes another way:
for one function, a set for which a fact fails has a smallest such subset
(`SmallestSet`), and removing an element from it leads to a contradiction. It proves that a sum changes
by what one of its terms changes by, that sums of equal terms are equal, that the sum of
a sum is the sum of the sums, and the bounds that terms give.

Only model-checked:

* all liveness: `PendingSettles`, `ApprovedIsHonoured`, `DashboardRefundReachesPaidOrder`
  and `PaidPlanStarts`. Fairness speaks of ENABLED, which is out of the prover's reach;
* the three sentences of the documentation, whose runs end in a counterexample.

## Not modelled

* Pages, dictionaries, DTOs, listings, dashboards, seeds and the generated client:
  most of the repository's lines. They keep no state beside what the modules have, so a
  model of them would have nothing to say, and the map covers a small share of all lines
  for that reason.
* Reads of orders and downloads: nothing depends on their counters.
* Mail, notifications, realtime and storage: output that nothing reads back.
* Plans, categories, profiles, audit: single-row operations. Plans appear as the
  limits and rates in `Products`, `Withdrawals` and `Prices`.
* Signatures of webhooks, access tokens, passwords' hashing: each is one predicate of
  what the actions take in.
* The settle job with more orders than a batch: beyond what TLC can check for liveness.

What could follow: orders and withdrawals composed over one ledger, the withdrawal of
what an order credited and a refund takes back; of `Orders`, a refinement that says
what the inbox promises the provider.

Runs are kept few: a component gets one run for its safety, and questions of liveness
share an instance with safety where its size allows.
