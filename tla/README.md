# Verification of the Maltiti back end

Maltiti A. Enterprise sells agricultural products.  Its back end is a NestJS
server (TypeORM on PostgreSQL, Redis, Paystack, mail) with a shop for customers
and guests and a sales desk for administrators.  This directory models the part
of it where state is shared and the order of steps matters: stock and the sales
desk, the money of an order, carts with checkout, accounts and their tokens, the
catalogue with its batch numbers and recommendations, reports that are computed while
the tables change, and notifications that are pushed and listed.  TLC checks the models on
small instances; for the central invariants there are proofs, checked by TLAPS,
that hold for every instance.

All paths below are relative to `src/src/`.

## 1. Inventory of the system

### 1.1 How components interact

A request enters a controller, is validated by its DTO and handled by one or
more services in an asynchronous function.  Node runs the code between two
`await`s without interruption and runs other requests in between.  Components
share the tables; hardly any handler holds a lock from its first read to its
last write.  Three interactions leave the process: Paystack (calls out, webhooks
in), mail, and the socket of in-app notifications.  Most services call the notification
services when something happened; reports and dashboard read the tables of all others;
sign-in and verification start the merge of a guest's cart.

```
 customers, guests               administrators                 Paystack
        |                              |                            |
   CartService                   SalesController            webhook, pay pages
        |                              |                            |
 TransactionService  -- Sale -->  sales desk services  -- Sale --> PaymentService
   (checkout)                    |          |                  SalePaymentService
        |                     Batches    documents,            OrderTracking, ...
   Carts, Customers            (stock)   status mails          SalePayments
```

### 1.2 Components

| Component | State | Operations | What is hard about it | What makes it correct | Model |
|---|---|---|---|---|---|
| Sales desk (`sales/sale-creation`, `sale-update`, `sale-cancellation`, `stock-management`, `line-item-management`) | `Sales` rows with line items and their batch allocations, `Batches` | create, add item, assign batches, edit, status, confirm delivery, cancel (3 ways) | every handler works on a copy read before several awaits; an edit is one database transaction, the others are not; a loop over allocations fails half way | no batch below zero; shelves and allocations balance; packed orders are allocated; refunds are on record; a failed edit leaves no trace; every request ends | `SaleStock`, `SaleStockLedger` |
| Batches (`products/batches`) | `Batches`, generated numbers | create with a number for product and day, deduct, query | number is "highest + 1", compared as a string | a counted number is free; active exactly while stocked | `deductBatchQuantity` in `SaleStock`, `createBatch` in `Catalog` |
| Payments (`checkout/payment.service`, `order-operations`, `sales/sale-payment`, `order-tracking`) | payment columns of `Sales`, `SalePayments`, Paystack's transactions | open a payment (3 ways), webhook, confirmation page, records of the back office, delivery cost, refund | webhooks arrive late, twice, or fail half way; saves of stale copies; the reference is overwritten | paid exactly for money; a charge is never lost; refunded only after a refund; attempts on record; fee follows subtotal | `SalePayments` |
| Carts (`cart/`) | `Carts` | add, bulk add, change, remove, clear, merge of a guest's cart on sign-in | find-then-insert without a lock; save of a removed row inserts it again; items that fail are skipped | one row for a product; merges conserve; no save unlinks an ordered row | `Carts` |
| Checkout (`checkout/transaction.service`, `customer-management`, `delivery-cost`) | `Customers`, `Sales`, `Checkouts`, the link column of `Carts` | place order, initialize transaction, both for guests | carts are read before the transaction; mails and Paystack after it | all or nothing; a row is bought once | `Carts` (rows), `SalePayments` (money) |
| Documents (`sales/*document*`, invoice, receipt, waybill) | none | choose and mail a document | chosen from a read on another connection than the open transaction | - | the mail step of `SaleStock` |
| Sign-in (`authentication/`, guards) | one refresh token per user in Redis; signed tokens at the clients | sign up, sign in, refresh, log out, verify, guard | rotation is delete then set, in two calls; a signed token outlives what it stands for | a log-out holds against every older cookie; an exchanged token is dead | `Accounts` |
| Users, profile (`users/`, `profile/`) | `users`, `verifications` (links sent by mail) | create, edit, status, role, avatar, phone, remove; change and reset a password | every edit saves an old copy; a removed row is inserted again; the age of a link is computed from the minutes of the hour | passwords need a secret; addresses are verified by their mail; young links are honoured; who is removed stays removed | `Accounts` |
| Products (`products/`) | `Products` | create, edit, toggle, favourite, delete, price mails, recommendations | edits of old copies; comparison of prices before and after; recommendations in four queries while products change | an edit leaves SKU, price and quantity alone unless it names them; customers know the prices; recommendations are complete | `Catalog` |
| Notifications (`notification/`) | `Notifications` rows, rooms of sockets | save and push, to one or to many; connect, disconnect; list in pages | a row is saved and then pushed, while its user connects and scrolls through pages that shift | nothing is in neither the list nor the pushes; scrolling misses nothing | `Notifications`, `Feed` |
| Reports, dashboard (`reports/`, `dashboard/`) | none (reads) | sales reports, comparison of periods, charts, the report of the day | dozens of queries in one report while orders are paid and products deleted; ends of periods; days and milliseconds | what stays is counted whole and once; charts have a point for every order | `Reports` |
| Daily report | log of sent reports | cron, send, log | crash between mail and log; several instances | one report a day | its contents in `Reports` |
| Order queries, inventory and delivery reports, search, export | none (reads) | lists, sums | - | - | not modelled: nothing changes |
| Ingredients, customers, reviews, contact, cooperatives | one table each | single-row create, update, delete | - | - | not modelled: no operation relates two rows |
| Audit log, uploads, seeder | append-only rows, files, first data | - | - | - | not modelled: append-only, pure I/O, one-off |

`PROJECT.json` lists the components with their sources, and under `hazards` every
place where this code can go wrong in a way a unit test would hardly reach.

## 2. Conventions of all models

- **A step is the code between two awaits.**  Every worker `w` in `Workers` runs at
  most one handler; `h[w]` holds its program counter, its request and the copies
  (entities) it works on.  Clients send requests to idle workers.
- **`repository.save` is two steps**: a SELECT that compares the entity with the
  row (`Compare...`), and an UPDATE of the columns that differ (`Write...`).
  The UPDATE writes the values of the old copy.  This is what TypeORM does, and
  the reason why a save can take back what another handler wrote.
  A row that is gone at the SELECT is inserted again.
- **Transactions.**  Only `updateSale` and checkout hold one open (in `payForOrder`
  and its likes it spans two saves of one row and changes nothing about
  them).  Inside a transaction a write goes into the handler's `view` and keeps
  the row locked until `Commit`; others wait in their UPDATE, and read the
  committed row.  PostgreSQL breaks a ring of waiting transactions by failing
  one of them (`DeadlockAbort`).
- **Failure.**  `Abort` ends a handler at any await: the call threw, or the process
  died.  What was written stays, unless it was in a transaction.  `MaxAborts`
  bounds how often.
- **Inputs** are the requests the DTOs let through: quantities are positive,
  customers and products exist.  `Requests` is a constant; an instance lists the ones
  it needs.
- **Fairness.**  Properties of safety are checked of `Spec` without fairness.
  `FairSpec` adds `WF_vars(Step(w))` for every worker: the event loop resumes every
  handler whose await is over, and the database answers.  Requests and failures
  are never fair: no client is obliged to come.  In `SalePayments` the webhook is
  strongly fair per reference, since Paystack repeats `charge.success` until it is
  answered with 200.

## 3. Modules

| Module | What it is |
|---|---|
| `SaleStock` | batches, orders and the handlers of the sales desk |
| `SaleStockLedger` | `SaleStock` with the tables each handler started from, to state balances |
| `SaleStockProofs` | theorems about `SaleStock` and its ledger |
| `SalePayments` | the money of one order, Paystack as its environment |
| `SalePaymentsProofs` | theorems about `SalePayments` |
| `Carts` | carts, customers and the transaction of a checkout |
| `Accounts` | users, links sent by mail, refresh tokens, the clock |
| `Catalog` | products, batch numbers, price mails, recommendations |
| `Reports` | sales reports and dashboard, while the tables change |
| `Notifications` | senders, the table, sockets and scrolling clients |
| `Feed` | what `Notifications` promises, an abstract specification it implements |
| `CartsProofs`, `AccountsProofs`, `CatalogProofs`, `ReportsProofs`, `NotificationsProofs` | theorems about these |
| `Sums` | sums over finite sets, which the proofs about money, quantities and the ledger rest on |
| `MC...` | an instance of each for TLC |

### 3.1 SaleStock

`batches` and `sales` are the tables, `refunds` counts the refunds Paystack accepted.
One action per request takes it to its first await after the sale was found
(`CreateSale`, `AddLineItem`, `AssignBatches`, `UpdateSale`, `UpdateSaleStatus`,
`ConfirmDelivery`, `CancelSaleByCustomer`, `CancelSaleByAdmin`, `CancelSale`).
The rest is shared, as in the code: return the stock of old allocations
(`ReturnFind`), check new ones (`ValidateAllocation`), take them (`DeductFind`), each
followed by the save of the batch (`CompareBatch`, `WriteBatch`); then save the sale
(`CompareSale`, `WriteSale`), mail (`Notify`) and, for `updateSale`, `Commit`.
`todo` is what is left of the loop.  `assignBatches` goes through
StockManagementService, which tests again when it deducts; `updateSale` goes through
LineItemManagementService, which tests all lines first and then subtracts.  An edit that
names a delivery fee fails before it touches any stock unless the order awaits its delivery fee.

Abstracted: prices and amounts (they are in `SalePayments`), the names and counts of
documents, notifications.  Left out: `updateSaleStatus` of OrderOperationsService
(lines 167-226), which saves a status and touches no stock; line items without
`requestedQuantity`, which old rows of the table may lack.

### 3.2 SalePayments

One order, since handlers of different orders share nothing: a reference contains a
fresh uuid.  `sale` is its row, `payments` its records in order of insertion, `opened`
and `charged` are Paystack's knowledge of each reference, `refunded` counts refunds.
Requests: `InitializeTransaction` (checkout, both forms), `PayForOrder` (tracking page),
`PayForGuestOrder`, `ConfirmPayment`, `RecordPayment`, `UpdatePaymentStatus`,
`UpdateDeliveryCost`, `AddLineItem`, `ConfirmDelivery`, `Cancel`.  The environment pays
(`Pay`) and Paystack delivers webhooks (`ChargeSuccess`, `RefundProcessed`) any number of
times.  Calls: `Verify`, `Initialize`, `Refund`; inserts and updates: `Record`, `Update`,
`Sync`; `Compare` and `Write` are the save of the sale.

Abstracted: money is whole units and `Fee` any function (a constant); texts.
Left out: partial refunds of one charge by amount; statuses an administrator types in;
references an administrator types in (they are `NoReference`, as the webhook does not
look for them); whether Paystack still verifies a charge after its refund is open
(both happen).  `payForOrder` of TransactionService is left out because it always
throws: it reads `sale.customer.user`, which its query does not load.

### 3.3 Carts

`carts` is the table, a row with its user or session, product, quantity and order;
`orders[o]` is the set of cart rows the committed order `o` lists, `customers` the
addresses that have a row.  Users and guests have the same operations with another
key column and are one action each (`AddToCart`, `AddQuantity`, `RemoveFromCart`);
`SyncGuestCartWithUser` is the merge `signIn` and `verifyEmail` start; `Checkout` stands
for place order and initialize transaction of users and guests, followed by the
customer (`FindCustomer`, `SaveCustomer`), the order (`CreateSale`), the links
(`CompareCarts`, `LinkCart`), `Commit` and the mails (`Notify`).
`Cart.checkout` is a lazy relation, so an entity that was loaded does not carry it
and no save of CartService writes the column: `Loaded` and `Compare` say so.

Left out: `removeAllFromCart` of users (`DELETE /cart/all-cart` is declared after
`DELETE /cart/:id`, which answers it) and `bulkAddToGuestCart` (no route calls it);
the delivery cost by place.

### 3.4 Accounts

`users` is the table, `links` the table of verifications by token, `stored` the refresh token
Redis holds for each user, `cookies` and `access` what clients were given.  One action per
request takes it to its first await after the accounts were found (`SignUp`, `CreateAdmin`,
`SignIn`, `Refresh`, `Logout`, `VerifyEmail`, `ForgotPassword`, `ResendVerification`,
`ResetPassword`, `ChangePassword`, `EditUser`, `PhoneVerification`, `Remove`); then come `Insert`,
`Unlink`, `SendLink`, `Mark`, `Delete`, the two steps of Redis (`Invalidate`, `Store`) and the two
of a save (`Compare`, `Write`).  `h[w].cols` says which columns the copy carries: the password
is `select: false`, so a handler that did not ask for it neither writes it back nor can insert
the row again.  This is what `PasswordNeedsSecret` and `RemovedStaysRemoved` rest on.

`now` counts seconds, `Tick` moves it.  A signed token is its contents, user, second of
issue and lifetime, and so two that are issued in one second are one; `ExchangedIsDead` excepts
exactly this.  `proved`, `used`, `signedOut` and `overlapped` are history: who came with a link,
which tokens were exchanged, who logged out and did not come back, whether two requests were ever
in progress together.  A log-out counts in `signedOut` when no sign-in, verification or refresh of
its user was under way at that moment: one that was stores its token afterwards and undoes the log-out.

`SignUp` takes the role from the request, since POST /authentication/sign-up lets its client name
any `userType` and stores it; only the customer sign-up insists on a customer.

Abstracted: `profile` stands for the columns nothing reads (name, phone, avatar, status).
Left out: the merge of a guest's cart that sign-in and verification start (`Carts` has it), the
answers of the SMS service, lists of users.

### 3.5 Catalog

`products` has the columns that edits fight over, `batches` prefix and number of each batch,
`told` the price each product's last mail named.  `EditProduct`, `LoadProduct`, `CheckSku`, `Compare`, `Write`,
`SendMails` are the awaits of one edit: it is read twice, by ProductsService for the old prices
and by ProductCrudService for the copy that is saved, and the price mails follow the answer.
`Defined` says what a partial DTO carries: a field the client left out is undefined, unless its class
has an initializer, as the status and the flag have; a client may name these too (`active`, `featured`).
`SetProductFields` saves `favorite` and `deletedAt` as its copy has them.

`GenerateBatchNumber`, `FindBatch`, `SaveBatch` are `createBatch`.  The prefix of a number comes from the
product's SKU if it has one and otherwise from its name (`PrefixOf`), as they are when the
number is generated; an edit of the SKU changes it.  The number is an integer to the base `Base`
padded to `Width` digits, and compared as PostgreSQL compares its text (`StringKey`).

A recommendation is one step per awaited query: what was bought is looked up
(`FindPurchased`), then the categories (`FindPreferred`) and the cart (`FindInCart`), or, for the
curated list, what sells best and all carts (`FindInCarts`); then `RankedTier` to `RandomTier` fill up
what is missing.  `interest` holds what customers bought, put in carts and sold best, an input that does not
change.  `steady` collects the products that were on sale all through a recommendation.

Left out: search, export, images, the texts of the mails, ingredients, `hardDeleteProduct` (no
route reaches it).

### 3.6 Reports

A report is a script of queries and reads (`Script`): a query takes the lines of the
orders paid in a period as they are (`RunQuery`), a read looks their products up one by one
(`LookUp`) or sums them in one go (`EndRead`).  `PaymentChanges`, `SaleDeleted` and `ProductDeleted` come
between any two steps.  Time is in instants of the database, `Milli` of them a millisecond of
JavaScript.  `late` says whether the clock moved on between the two `new Date()` of a
dashboard request.  The time zone of the server is UTC.

Left out: inventory and delivery reports, alerts, activity, all-time figures, the filter by
product, ranks and percentages, which are functions of what is modelled or single queries.

### 3.7 Notifications and Feed

`rows[u]` is the table, per user in the order of insertion; a sender has a queue of recipients
and for each the `Stages` save and push; a client has what it `shown`, the last `page` it loaded and
whether there is `more`.  `LoadPage` and `CountRows` are the two queries of one request for a page.
A connection may drop, a save may fail (`Fail`: the rest of the recipients are not notified) and the
process may crash.  The clients are not part of the repository; the model has them
connect first and load afterwards, and merge what they load with what is pushed.  The query of a
page orders by `createdAt` alone (`notification.service.ts:536`); stamps are taken as distinct, so two rows of
one microsecond that swap places between two pages are left out.

`Feed` says what this amounts to, with no pages, queues or stages: an inbox per user and
clients that attend, each of which shows the whole inbox at every moment.  `LosslessFeed` is
`Notifications => Feed` under the mapping

- `inbox[u]`: the rows of `u`, without those saved and about to be pushed;
- `attending`: the clients that are connected and have scrolled to the end;
- `view[c]`: what an attending client shows of the inbox.

A push is a `Post` (the row moves from under way to inbox and view in one step), the `CountRows`
of a last page an `Attend`, a lost connection a `Leave`, a crash a `Restart`, which moves rows that were
under way into the inbox when nobody attends.  All other steps stutter.

Left out: marking as read (nothing depends on it), several processes (there is no adapter
that would join them), mails.

## 4. Runs

Bounds common to all: `MaxRequests` requests in a behaviour, `MaxAborts` failing awaits.

| Run | Instance | Checks |
|---|---|---|
| `stock_race` | 2 workers, 4 requests, 1 failure, one order, two batches with 2 and 1 units | `TypeOK`, `NoNegativeStock` |
| `stock_edit_race` | 2 workers, 3 requests, 1 failure, two orders whose edits cross over two batches of 1 | `EveryRequestAnswered` |
| `stock_serial` | 1 worker, 3 requests of all kinds, a status of CANCELLED typed in among them, 1 failure, one order and one yet to be created | `BatchActiveIffStocked`, `PackedSalesAllocated`, `RefundIsRecorded`, `SuccessBalances`, `FailedEditLeavesNoTrace` |
| `pay_collect` | 2 workers, 3 requests that bring money, webhooks, 1 failure | `TypeOK`, `PaidIsEarned`, `CoveredIsPaid`, `PaidStays`, `ChargedIsPaid` |
| `pay_race` | 2 workers, any 2 requests, webhooks, 1 failure | `RefundedIsBacked`, `AttemptOnRecord` |
| `pay_serial` | 1 worker, 5 requests, webhooks, 1 failure | `FeeMatchesSubtotal`, `ChargeRecordedOnceSerially` |
| `cart_race` | 3 workers, 3 requests of one user (one merges a guest's cart), 1 failure, known and new customer | `LinkedRowsOrdered`, `OrderedUntilRemoved`, `EveryRequestAnswered` |
| `cart_serial` | 1 worker, 4 requests of a user and a guest, 1 failure, empty and filled carts | `TypeOK`, `OneRowPerProduct`, `OrderedOnce`, `MergeConserves` |
| `accounts` | 2 workers, 3 requests, 1 failure, an administrator, a customer (verified or not) and a free id, 2 links; an hour of 3 minutes, 4 instants | `TypeOK`, `VerifiedByOwnMail`, `YoungLinkHonoured`, `SignedOutStaysOut`, `ExchangedIsDead`, `PasswordNeedsSecret`, `RemovedStaysRemoved` |
| `catalog` | 2 workers, 3 requests, 1 failure, 3 products and one to come, two whose SKUs give one prefix, edits that hide or re-name one and a deletion of it; numbers of 2 binary digits | `CustomersKnowPrices`, `CountedNumberIsFree`, `RecommendationsComplete`, `EditKeepsUnnamed` |
| `reports` | every kind of report once, 4 orders around the ends of the periods, 3 changes, 2 products of which one may be gone | `KeptReportedWhole`, `ComparedOnce`, `ChartComplete` |
| `notifications` | 2 senders, 2 notifications, a customer with 1 row and an administrator with 3, pages of 2, one loss | `ScrollMissesNothing`, `LosslessFeed` |

Why the bounds are enough for what they show.  Every hazard found in this code is of
the form "read, await, another handler, write": it needs two handlers, or three when
the third removes the row both hold (`cart_race`).  Two batches are enough for
the orders in which locks can be taken to cross; stocks of 1 and 2 are at the limit
after one or two allocations.  Two references are enough for "the current one and the
one before".  Four cart operations reach a merge into a cart that was filled and ordered
before.  `MaxPayments` stops webhooks once records are plenty; in `pay_collect`, where
liveness is checked, it is above what the run can use.

In `accounts` the hour is short enough for the minutes to wrap between mail and click, and
lifetimes end within the run; three requests are an edit, a removal and a change of password
of one user.  In `catalog` two binary digits reach the end of the width after one
creation; three requests are two edits and a toggle, or an edit and the deletion of its product, that
overlap in pairs.  In `reports` one
order lies within the millisecond between two periods and one in the last instant of today; the
runs of one report share nothing with the next, so one report is a behaviour.  In
`notifications` a list of three rows has two pages, and one new row shifts what is on the second.

Runs with one worker state what the code promises when requests do not overlap.  This
is a real restriction and not a convenience: with two workers `BatchActiveIffStocked`,
`PackedSalesAllocated`, `SuccessBalances`, `OneRowPerProduct`, `OrderedOnce` and
`MergeConserves` are violated, because the code has no lock there (two checkouts of one
cart both order it; two cancellations both return the stock; two requests that add a
product both insert a row).  The code promises nothing else, and the hazards list says
so at each line.  For the same reason `ExchangedIsDead`, `CustomersKnowPrices`
and `CountedNumberIsFree` speak of behaviours in which requests did not overlap so far (`overlapped`),
failures included, and `SignedOutStaysOut` of log-outs that no refresh of the same user overlaps; the
other properties of `Accounts` and `Catalog` hold for all.

`CHECK_DEADLOCK FALSE` is set where all requests are used up and the system may rest.

### 4.1 Mutants

Every property is run once more with one definition changed the way a plausible bug would
change it; the changed definition stands before the one it replaces, with a comment that begins
"Plausible bug".  TLC finds the property violated each time, so no property holds because of
what a model leaves out.

### 4.2 Divergences met while modelling, not run

Stock, payments, carts:

- `createSale` records the allocations of a PENDING sale and deducts nothing
  (`sale-creation.service.ts:57`); cancelling it returns them "since stock is deducted immediately"
  (`sale-cancellation.service.ts:237`).  Stock appears from nowhere.
- An edit that names one batch on two allocations passes the test line by line and drives the
  batch below zero (`line-item-management.service.ts:126, 183`).
- Two overlapping deliveries of one `charge.success` both pass the idempotency test
  (`payment.service.ts:141`) and record the charge twice.
- `payForOrder` saves PENDING_PAYMENT on the copy it read before its call to Paystack, and takes back
  the PAID of a cash payment (`order-tracking.service.ts:143`).
- `sale-update.service.ts:88` mails the new status inside `executeInTransaction`, before the
  commit; the comment on line 87 says "outside transaction".
- `sale-update.service.ts:386` chooses the document from a read outside the open
  transaction: a sale marked paid is sent the document of its old status, although line 412
  says the mail follows the change.
- `addLineItem` (`sale-update.service.ts:212`) puts an item without batches on an order that
  is being packed; line 590 says batches come first.  It recalculates the amount and leaves the
  service fee, although line 214 says "amount and service fee".
- A status of CANCELLED that a client types into `createSale`, `updateSale` or `updateSaleStatus` is
  accepted and returns no stock (`sale-update.service.ts:574`); a typed-in status also re-opens an order
  whose cancellation returned its stock.  `SuccessBalances` has both among its requests: the first
  order stays on the book with all it was allocated, the second stays off it, so that a
  cancellation of it returns the stock again.
- `cancelSale` does not look at the status at all, and two cancellations that overlap both pass the
  test for CANCELLED (`sale-cancellation.service.ts:174`): the money is sent back twice and
  the stock returned twice.
- A cancellation whose process dies between the refund and the save leaves a paid order that can be
  refunded again (`sale-cancellation.service.ts:69`).
- `assignBatches` returns the old allocations before it validates the new ones, without a
  transaction: a refusal leaves the sale with allocations whose stock is back on the shelf
  (`sale-update.service.ts:248`).
- Two saves of one batch may mix quantity and `isActive` of two writers
  (`batches.service.ts:248`), since each sets only the columns it found different.
- A status is validated on a copy (`sale-update.service.ts:574`); an assignment or an item without
  batches that comes before the save leaves an order that is packed and not allocated.
- A `charge.success` that arrives after the refund marks the order paid again, if Paystack still
  verifies the charge (`payment.service.ts:164`).
- A charge whose handler failed between the record and the save is recorded once more by the retry
  (`payment.service.ts:151`).
- The order is committed before its payment is set up (`transaction.service.ts:708`): if a mail or
  Paystack fails, the client sees an error and the carts are used up.
- Two checkouts of one cart find it open and both order it, and the later one has the links
  (`transaction.service.ts:674`).
- Two requests that add one product to a cart both insert a row (`cart.service.ts:100`).
- A merge deletes the guest's items it failed to take over (`cart.service.ts:423`).
- An ordered row that its owner deletes is inserted again, open, by a handler that loaded it
  before the checkout and saves it after the deletion (`cart.service.ts:148`).
- `cancelSaleByAdmin` refuses orders in transit or delivered; `sales.controller.ts:493` says
  "at any stage".
- The record of an attempt stays PENDING after the customer paid, since the webhook inserts
  another one (`order-tracking.service.ts:125`, `payment.service.ts:152`).  That one holds
  `sale.amount` without delivery and fee, so that a paid order shows a balance.
- `initializeTransactionCommon` opens a payment for an order in AWAITING_DELIVERY;
  `processPaymentForOrder` blocks exactly that (`transaction.service.ts:541, 716`).
- The cost of delivery counts the rows of earlier orders, since its query of the carts lacks
  `checkout: IsNull()` (`delivery-cost.service.ts:17, 24`).
- Clearing a guest's cart deletes the rows of the guest's earlier orders too
  (`cart.service.ts:298`), and `addQuantity` changes rows that were ordered.

Accounts:

- Sign-in does not look at the status of an account, although the controller documents a 403
  "Account is inactive or suspended".  To an unverified customer it says "We have sent another verification
  email" and sends none.
- A reset link is compared by the minutes of the hour (`users.service.ts:297`), so that hours later it
  is good again at the right minutes.  It is not deleted after use, and a verification link serves
  as a reset link.  The notice in the app says 30 minutes, the code 10.
- Changing or resetting a password leaves the sessions as they are.  A handler that read a user with
  the password and saves it after the removal brings the user back.
- Two refreshes in flight, or a log-out during a refresh or a sign-in, leave a session that should be gone
  (`authentication.service.ts:138`); a refresh does not look whether its user still exists.
- Anyone who signs up may name the role, administrators' roles included
  (`registerUser.dto.ts:58`, `users.service.ts:108`).
- The phone number that was verified is saved for whatever id the address names.

Catalogue:

- A partial edit reactivates an inactive product and clears its flags: the initializers of
  CreateProductDto are inherited by its partial type.
- The price mail of a partial edit names "NaN" for prices that were left out, and an edit of
  quantity or price alone may leave the box price stale.
- The SKU of a removed product is refused by the index and not by the test, which answers 500.
  `ingredients` of a DTO are never stored.
- Batch numbers of a day stop after 999, or after one with letters in it
  (`batches.service.ts:44, 55`): the highest text is no longer the highest number.
- Toggle, deletion and edit that overlap may undo each other: an edit saves `favorite` and `deletedAt`
  of the copy it read, so that one that overlaps a deletion brings the product back
  (`product-crud.service.ts:71`).

Reports:

- The batch report subtracts sales from a quantity that was reduced when they were allocated; the
  figure "produced" of the dashboard is what is left; `ordersAwaitingDeliveryCalc` is always 0.
- The report of a period compares with one that ends on its first instant, so an order there counts
  in both (`sales-reports.service.ts:594`); orders within the last millisecond of a day or period
  count nowhere.
- A chart loses today when a millisecond passes between `endDate` and `startDate`
  (`dashboard.service.ts:94`).
- The activity list shows the payment status as the order's and the reverse.

Notifications:

- `notifyProductCreated`, `notifyProductPriceChanged` and `notifyUserAccountCreated` are never called.
- "Mark all as read" marks rows that arrived after the client loaded its list; a push carries no id by
  which a client could mark it alone.
- A client that loads its list before it connects misses what comes in between.
- The first recipient whose row fails ends the loop over the others.
- A day whose report failed is not sent later: the cron looks at yesterday only.

## 5. Proofs

TLC shows that a property holds of the instances above.  The theorems hold for all values
of the constants that satisfy the named assumptions: any number of workers, batches,
orders, references, any fee function.

| Theorem | Says | Assumes |
|---|---|---|
| `SaleStockProofs!TypeCorrect` | `Spec => []TypeOK` | the assumptions of `SaleStock` |
| `SaleStockProofs!StockNeverNegative` | `Spec => []NoNegativeStock` | no request is an `updateSale` (`NoEdits`); no batch starts below zero (`StockedAtFirst`) |
| `SaleStockProofs!ActiveIffStockedSerially` | `Spec => []BatchActiveIffStocked` | one handler at a time (`OneAtATime`); batches start coherent (`CoherentAtFirst`) |
| `SaleStockProofs!RefundsRecordedSerially` | `Spec => []RefundIsRecorded` | `OneAtATime`; no payment status but REFUNDED is set by hand on an order paid through Paystack (`NoPaymentByHand`) |
| `SaleStockProofs!PackedAllocatedSerially` | `Spec => []PackedSalesAllocated` | `OneAtATime`; items are added with their batches (`ItemsComeAllocated`); what is packed at first is allocated (`PackedAtFirst`) |
| `SaleStockProofs!FailedEditsLeaveNoTrace` | `LedgerSpec => FailedEditLeavesNoTrace` | `OneAtATime` |
| `SaleStockProofs!SuccessBalancesSerially` | `LedgerSpec => SuccessBalances` | `OneAtATime`; finitely many sales.  Statuses may be typed in, CANCELLED included |
| `SalePaymentsProofs!TypeCorrect` | `Spec => []TypeOK` | fees are natural numbers (`FeesAreAmounts`) |
| `SalePaymentsProofs!RefundsBacked` | `Spec => []RefundedIsBacked` | `FeesAreAmounts`; the order does not start refunded (`StartsUnrefunded`) |
| `SalePaymentsProofs!AttemptsRecorded` | `Spec => []AttemptOnRecord` | `FeesAreAmounts` |
| `SalePaymentsProofs!PaidIsKept` | `Spec => PaidStays` | `FeesAreAmounts`; the requests are confirmations and records of the back office (`CollectsOnly`) |
| `SalePaymentsProofs!InstalmentsAddUp` | `Spec => []CoveredIsPaid`: a covered order is marked paid | `FeesAreAmounts`, `CollectsOnly` |
| `SalePaymentsProofs!PaidWasEarned` | `Spec => []PaidIsEarned`: the converse, an order marked paid has a charge or a confirmation behind it | these; the back office only confirms records (`OnlyConfirms`); the order does not start paid (`NothingPaidAtFirst`) |
| `SalePaymentsProofs!FeesMatchSerially` | `Spec => []FeeMatchesSubtotal` | `FeesAreAmounts`; one handler at a time (`OneAtATime`); no item is added (`NoLineItems`; `addLineItem` does break it, 4.2); the fee matches at first (`MatchingAtFirst`) |
| `SalePaymentsProofs!ChargesRecordedOnce` | `Spec => []ChargeRecordedOnceSerially` | `FeesAreAmounts`, `OneAtATime`; nobody sets the status of a record by hand (`NoStatusUpdates`); the property itself speaks of behaviours with no failed await and no refund |
| `CartsProofs!TypeCorrect` | `Spec => []TypeOK` | the assumptions of `Carts` |
| `CartsProofs!LinksListed` | `Spec => []LinkedRowsOrdered` | the same |
| `CartsProofs!LinkOutlivesSaves` | `Spec => OrderedUntilRemoved` | the same |
| `CartsProofs!OneRowSerially`, `OrderedOnceSerially` | `Spec => []OneRowPerProduct`, `Spec => []OrderedOnce` | one handler at a time |
| `CartsProofs!MergeConservesSerially` | `Spec => MergeConserves` | one handler at a time; no product is twice in an open cart at first, and no row has two owners (`OneRowAtFirst`, `OneOwnerAtFirst`); finitely many rows; no user is nobody (`UsersApart`) |
| `AccountsProofs!TypeCorrect` | `Spec => []TypeOK` | the assumptions of `Accounts` |
| `AccountsProofs!VerifiedOwnMail`, `YoungLinks` | `Spec => []VerifiedByOwnMail`, `Spec => []YoungLinkHonoured` | the same |
| `AccountsProofs!PasswordsNeedSecrets`, `RemovedStays` | `Spec => PasswordNeedsSecret`, `Spec => RemovedStaysRemoved` | the same |
| `AccountsProofs!LogoutHolds` | `Spec => []SignedOutStaysOut` | the same; requests may overlap |
| `AccountsProofs!ExchangedDies` | `Spec => []ExchangedIsDead` | the same (the property speaks of requests that did not overlap) |
| `CatalogProofs!TypeCorrect`, `Recommended` | `Spec => []TypeOK`, `Spec => []RecommendationsComplete` | the assumptions of `Catalog` |
| `CatalogProofs!UnnamedKept` | `Spec => EditKeepsUnnamed` | the same |
| `CatalogProofs!CountedIsFree`, `PricesMailed` | `Spec => []CountedNumberIsFree`, `Spec => []CustomersKnowPrices` | the same (the properties speak of requests that did not overlap) |
| `ReportsProofs!ReportsWhole`, `ChartsComplete` | `Spec => []KeptReportedWhole`, `Spec => []ChartComplete` | the assumptions of `Reports` |
| `ReportsProofs!ComparisonsCountOnce` | `Spec => []ComparedOnce` | no order is without lines (`OrdersHaveLines`) |
| `NotificationsProofs!NothingMissed` | `Spec => []ScrollMissesNothing` | the assumptions of `Notifications` |
| `NotificationsProofs!FeedImplemented` | `Spec => LosslessFeed`, the refinement of `Feed` | the same |

The proof modules state these assumptions by name.

**SaleStock.**  `TypeOK` alone is not inductive: a handler that returns stock must have a
line item in hand (`AtAllocation`), a handler that saves a row that does not exist yet must
save all its columns, and a handler of `assignBatches` must know a line item of its product.
`TypeInv` adds these facts (`Sound`, `WritesWhole`).  There is one lemma per action, and two
lemmas for the forms all of them share: a step of the handler only (`HandlerStep`) and
a step that writes a table (`TableStep`).
`StockNeverNegative` strengthens `NoNegativeStock` to the copies: the batch in a handler's
hand is not negative after the subtraction either, since `Deductible` tests the very copy it
subtracts from.  This is why a lost update never goes below zero, and why the edit, whose
test is on another read, is excluded; an edit that names one batch twice shows that it must be.
`ActiveIffStockedSerially` needs that the copy is coherent, and that its UPDATE meets the row
its SELECT compared it with, which is what one worker provides.
With one worker also the UPDATE of a sale turns its row into the handler's copy (`SavesRow`).
`RefundIsRecorded` then needs that a refunded sale reads refunded, or that the copy of the
handler that refunded it does, on its way to the save (`RefundPending`); the restriction
excludes that the desk sets such an order back to PAID, after which a cancellation
refunds it once more.  `PackedSalesAllocated` follows the two loops of an assignment and an edit: what a
loop has left behind is allocated, since what was counted is what was requested (`Covered`).

The ledger needs more than tables: at every step of a handler, what a batch shows to it and what
its sale is promised of that batch are together what shelf and sale had when the request arrived
(`LedgerInv`).  Promised is what is still to be returned while stock goes back, nothing
while new allocations are validated, what was deducted so far while they are taken, and what the copy
says once it is to be saved (`Promised`); an assignment keeps the other items' share besides (`Kept`).
Each write moves one allocation from one side to the other, and a loop ends with the next loop's
promise.  The answer then replaces one summand of the ledger, the sale's (`BookedChanges`).
`FailedEditsLeaveNoTrace` follows from less: as long as an edit is at work the committed tables
are those it started from (`NothingCommitted`).

**SalePayments.**  `RefundedIsBacked` is not inductive because a save writes back any status
a handler still holds: the invariant says of the row and of every copy in `h` that it
reads refunded only when some reference was refunded.  `AttemptOnRecord` needs that a
handler of the tracking page about to call Paystack has a record of its reference, and
that records are never deleted.

With handlers that collect money (`CollectsOnly`) every save of the sale changes its payment
status and nothing else, and to PAID only (`CollectInv`); so a copy that reads unpaid while the row is
paid writes nothing back.  `CoveredInv` says that a covered order is paid, or that a handler is on
its way to look at the records once more, as long as nothing failed; records only add
to their sum.  That sum is a fold over a sequence; two lemmas about appended and confirmed
records are all the proofs see of it.  `EarnedInv` says that a handler whose copy reads paid
has a charge or covering records behind it.  With one handler at a time the copy that is written agrees
with the row in all columns but those that differ (`CopyInv`), so that the fee on the row
is always the fee of one copy's subtotal (`FeeInv`); and as long as nothing was refunded and nothing failed,
charges are unrecorded, or the order is settled, or a handler is settling it (`RecordedInv`).

**Carts.**  All copies of a row agree on its product (`OneProductEach`), and an order in the
making lists nothing and belongs to one handler (`OrdersApart`).  The save of an older copy
never writes the link (`SavedColumns`), hence `OrderedUntilRemoved`: what ends a linked row is a deletion
its owner asked for, and nothing is said of a row inserted again afterwards.  One handler at a time:
no two rows of an open cart hold one product (`Apart`), rows that were bought are closed, and
what the handler holds is what the table says, but for the columns it is about to write (`Exact`);
`Apart` then survives the insert because the row was looked for in the very cart.
`MergeConservesSerially` adds up: what a user has of a product is a sum over rows (`Amount`), and so is what
the guest's rows still bring.  Nothing has changed those rows since the merge copied them (`Faithful`),
and the row in hand is the guest's, taken over, or the user's of that product, grown by the guest's quantity
(`Moving`); so each save changes one summand on either side by the same number (`AmountMoves`).

**Accounts.**  The invariant says of every handler what its copy carries (`Shape`: a password only
in a handler that was given one, an insertion only with a password) and what it stands on
(`Grounded`: who is saved is or was there, who reads verified has been proved).  `YoungLinks` is
arithmetic: between two instants the hand of a clock moves no further than the time (`HandMoves`),
so a difference of minutes never exceeds the age of the link.  `LogoutHolds` needs more than an empty
entry in Redis: no handler that signs a logged-out user in or refreshes their tokens is under way
(`LogoutsHold`), and none can begin, since a refresh finds nothing that matches.
`ExchangedIsDead` needs that no stored token is older than an exchange (`TokensInOrder`), as long as requests do not overlap.

**Catalog.**  The place of a handler in its code says what it holds (`Shape`): a whole row of a
product that is known, and, for an edit, columns to write that are all in `Defined`.  From this
`EditKeepsUnnamed` follows without a word about the age of the copy; it says nothing of the columns
that are saved from it.  What was on sale all
through a recommendation is on sale (`RecommendInv`), so the last tier, which sees all that is on sale, adds it
or fills up; that no tier adds too much is counting (`FilledIs`).  `CountedIsFree` needs that
the order of the padded numbers is the order of the numbers (`Scaled`), so that the last one is
the largest (`NextIsFree`).  `PricesMailed` follows the price through an edit that runs alone
(`PriceFits`): what the comparison left out of the save is what the row already says.

**Reports.**  Of a report in progress the invariant says, for every step that reads, what has been
tallied (`TalliedInv`): the lines looked up so far, of each product that is not deleted.  It
holds at the step's end because a script queries a period before it reads it and not after
(`WellScripted`, proved of the nine scripts).  `DatedInv` and `CountedInv` say that the lines of a
period are of its orders, and that the orders that stay paid are all in the periods queried so far.
`ChartsComplete` adds that a walk by days from the first instant meets every day up to the last.

**Notifications.**  What a connected client shows or still has to load covers the rows up to the
place it is at (`NothingMissed`): arrivals shift rows to later pages, never to earlier ones, and the rows
that shift past a page boundary are loaded twice and not left out.  For `FeedImplemented` there
is one lemma per action, which names the step of `Feed` it maps to, or the stutter.

**Sums.**  The library defines `MapThenSumSet` by choosing elements one at a time, and its facts come
without proofs a prover here could use, since induction over data is out of its reach.
`Sums` defines the same fold as a function over subsets, shows that there is exactly one
such function by looking at a smallest set where two would differ, and from that what
removing, adding, replacing and shifting an element does to a sum.  The same facts serve the folds
over sequences, which are folds over their positions.

**Only model-checked**: liveness (`EveryRequestAnswered` of the sales desk and of the carts,
`ChargedIsPaid`), which is beyond the prover.  Every other property of a passing run is stated by a theorem.

## 6. Plan

The core comes first: what is on the shelves, what was paid, what was ordered; then who may
act, what is shown and what is told.  Done: `SaleStock`, `SalePayments`, `Carts`, `Accounts`, `Catalog`,
`Reports`, `Notifications` with `Feed`, and their runs; the proofs of section 5.

1. Inventory reports against a reference definition of what is in stock, produced and sold.
2. `Connections`: the pool against transactions that ask for a second connection.
3. `Money`, an abstract specification of an order's payments (owed, received, sent back) that
   `SalePayments` implements for handlers that collect money, checked as a PROPERTY and
   then proved step by step.
4. `Shop`: `Carts` and `SalePayments` composed at the order a checkout creates.
