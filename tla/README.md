# A TLA+ model of Dukahub

Dukahub is a point of sale and shop ledger for small businesses: a Vendure (NestJS,
TypeORM, PostgreSQL) backend in `src/backend`, an Angular client in `src/frontend`. This
directory holds TLA+ specifications of the parts that must not be wrong about money,
stock, accounts and subscriptions, from the page that starts a request to the rows it
leaves behind; the TLC configurations that check them on small instances; and TLAPS
proofs, for every value of the constants, of what most of the runs check. Paths below are
relative to `src/backend/src` unless they start with `docs/` or `frontend/`.

## 1. The system

| Component | State it keeps | Operations | Hard behaviour |
|---|---|---|---|
| Ledger (`ledger/posting.service.ts`, `services/financial/ledger-posting.service.ts`, `posting-policy.ts`, `financial.service.ts`) | `journal_entry` and `journal_line` rows, append only; unique index on (channel, sourceType, sourceId) | nine kinds of posting, two assertions after allocations | concurrent transactions under READ COMMITTED, retries, the period lock moving |
| Balance cache (`ledger-query.service.ts`, `account-balance.service.ts`) | two in-process `Map`s of balances with a time stamp, one for each plugin that provides the service | query, fill, invalidate, expire | fills that overlap postings; invalidation before commit, of one map only, or not at all |
| Inventory (`services/inventory/*`) | `inventory_batch`, `inventory_movement` | purchase, sale, write-off, adjustment | row locks line by line, reads before locks, retries, multi-line documents |
| Cashier sessions (`cashier-session.service.ts`, `reconciliation.service.ts`) | `cashier_session`, `cash_drawer_count`, `reconciliation` | open, close, count, reconcile, verify | no database transaction: failures half way, two requests at once |
| Period end (`period-end-closing.service.ts`, `reconciliation-validator.service.ts`, `period-lock.service.ts`) | `accounting_period`, `period_lock` | close, open, validate, lock | read, validate, lock and record are four awaits |
| Supplier and customer payments (`services/payments/*`) | payment rows of Vendure, `paymentStatus` of purchases | allocate to customer orders or supplier purchases; the event adapter | the amount paid is estimated or read before a lock; overlapping allocations; events after the commit |
| Credit (`services/credit/*`, the two credit validators) | custom fields of a customer | approve, set limit, set duration, release, repay; check before a sale | check against committed balance; whole-object saves |
| Orders and checkout (`services/orders/*`, `frontend/.../sell`, `cart.service.ts`) | the cart in memory and in local storage; Vendure orders | edit, reload, check out; create, price, pay, fulfil, post | no idempotency key, answers lost, agreed prices that are recorded but not charged, or were agreed for another quantity |
| Stock (`services/stock/*`, purchase and adjustment pages with `draft-base.service.ts`) | drafts in local storage, Vendure stock levels, purchases, adjustments | edit, submit, record purchase, record adjustment | locks with joins that deadlock, Vendure's unlocked writes, drafts cleared by a late answer or a timer |
| Sign-up, login and provisioning (`services/auth/*`, `services/provisioning/*`, the two auth pages) | Redis keys per phone and per session; users, administrators, roles, channels | request a code, verify, log in, provision | one code key for two purposes, keys that expire between reads, read-then-write of shared rows |
| Team (`services/channels/channel-settings.service.ts`, the team page) | roles of users, administrators | invite somebody new or known, remove | no transaction; seats counted before they are taken, role lists saved whole |
| Subscriptions (`services/subscriptions/*`, the webhook controller, the payment modal, `channel-action-tracking.service.ts`) | custom fields of the channel, cached verifications, Paystack's charges | start a purchase, prompt or link, poll, verify, receive a webhook, expire, count an action | webhook against polling, repeated delivery, an expiry or an old record written over a payment |
| Product catalogue (`frontend/.../product.service.ts`, `product-asset.service.ts` and pages) | products, variants and photos in Vendure | create in several mutations, upload, edit photos, delete | no transaction joins the mutations; answers lost; two editors |
| ML queue, notifications, audit, infrastructure, the other pages | rows of their own | see section 6 | not modelled |

How they interact. The sell page sends `createOrder` and clears the cart when it
hears the answer. `OrderCreationService`, the allocation services and
`StockManagementService` open a database transaction and call `FinancialService`
inside it; that calls `LedgerPostingService`, which builds the entry with the
posting policy and calls `PostingService.post`. `post()` joins the caller's
transaction or opens its own. After the posting `FinancialService` drops the
balance cache keys of the two accounts, from its own instance of
`LedgerQueryService`: `ledger.plugin.ts:59` and `credit.plugin.ts:202` both list the
service as a provider, so there are two, and what the dashboard asks is the other one.
`InventoryService` calls `LedgerPostingService` directly, without that step. No plugin
provides `InventoryService`, though: `StockPlugin` (`stock.plugin.ts:23-33`) lists neither
it nor a module that does, the optional injection in `StockManagementService` is
undefined, and its shadow recording of purchases does not run as wired. `Inventory`
models the service for whoever calls it directly. `PaymentEventsAdapter`
listens to Vendure's payment events, which come after the commit, and posts again
as a safety net. The period lock is written by the period end service and read by
every `post()`; the period end reads the sessions and reconciliations the cashier
service writes. The two credit validators read the ledger balance. The purchase
and adjustment pages submit a draft and clear it when they hear that it was
recorded; Vendure moves the same stock levels when goods are sold. Sign-up keeps
its form in Redis until the phone's code is verified and then provisions a channel
in one transaction; login shares the code. Who is logged in invites others, whose
roles are the same rows that provisioning reads and writes. Paystack tells of a paid charge by
webhook while the modal polls for the same charge.

What makes each correct. Ledger: an event is in the books once, allocations are covered by
sales, nothing enters a closed period. Cache: an answer is wrong only for a bounded time
and for a known reason. Inventory: batch values equal the INVENTORY account, no
consumption is lost. Cashier: one open session, a closed one is final and backed by its
count. Period end: periods tile the calendar, the lock stands on reconciliations and
covers every closed period. Payments: nobody is overpaid, revenue and collections are
booked once. Credit: a sale stays within the limit; a revocation holds. Orders: one order
per basket, with the price that was agreed for its quantity on record. Stock: a level is
the sum of what was recorded, a count reaches what was counted, a draft is recorded once
and not lost, every document ends. Registration: one company per registration, and its
owner reaches it. Team: nobody beyond the limit of administrators. Subscription: time paid
for is kept, and counted once. Catalogue: SKUs distinct, a created product whole, removed
photos off.

## 2. Modules

| Module | Models | Used by |
|---|---|---|
| `PostingPolicy` | the accounts each template debits and credits, the source key, sums over entries | `Ledger`, `Inventory`, `Sales` |
| `Journal` | abstract: an append-only set of entries with distinct keys, published in batches | `Ledger`, `Sales` (refinements) |
| `Ledger` | `post()` in concurrent transactions, the assertions, `createPeriodLock` | `MCLedger`, `LedgerProofs` |
| `BalanceCache` | the two caches, their fills, invalidations and TTL | `MCBalanceCache`, `BalanceProofs` |
| `Inventory` | batches, movements, FIFO allocation under row locks, ledger postings | `MCInventory`, `CatalogProofs` |
| `CashierSession` | sessions and counts, one step per save | `PeriodClose`, `MCCashierSession`, `PeriodTeamProofs` |
| `PeriodClose` | reconciliation records, closing and opening periods, on top of `CashierSession` | `MCPeriodClose`, `PeriodTeamProofs` |
| `Allocation` | the pure spread of a payment over items | `SupplierPayments`, `Sales`, `Sums` |
| `SupplierPayments` | allocation of supplier payments, status of purchases | `MCSupplierPayments`, `BalanceProofs` |
| `CreditLimit` | credit fields, their editors, the limit check of sales and purchases | `MCCreditLimit`, `BalanceProofs` |
| `Checkout` | the cart, its copy in local storage, the checkout and its answers | `Sales` |
| `Sales` | order creation, payment events, customer payment allocation and their postings, driven by `Checkout` | `MCSales`, `SalesProofs` |
| `Drafts` | purchase and adjustment drafts in the browser | `Stock` |
| `Stock` | recording purchases and adjustments, with locks and levels, driven by `Drafts` | `MCStock`, `StockProofs` |
| `Otp` | codes, attempts, rate limit in Redis | `Registration` |
| `Registration` | sign-up, login and provisioning on top of `Otp`, with both pages | `Team` |
| `Team` | inviting and removing administrators, beside `Registration` | `MCRegistration`, `PeriodTeamProofs` |
| `Subscription` | one channel's subscription, its modal, the webhook, expiry, the counting of actions | `MCSubscription`, `SubscriptionProofs` |
| `Catalog` | making products, photo editing, deletion, by several dashboards | `MCCatalog`, `CatalogProofs` |
| `Sums` | lemmas about sums and folds, and about `Allocate` | the proofs about amounts |
| `LedgerProofs`, `BalanceProofs`, `PeriodTeamProofs`, `SalesProofs`, `StockProofs`, `SubscriptionProofs`, `CatalogProofs` | the theorems of section 5 | |

`BalanceProofs` holds the proofs about three components, the supplier payments, the
cache and the credit limit, which share neither state nor names; that is why the
initial predicate, the next-state relation and the specification of two of them are
called `CreditInit`, `CreditNext`, `CreditSpec` and `SupplierInit`, `SupplierNext`,
`SupplierSpec`. `CatalogProofs` likewise holds the proofs about `Inventory`, beside
those about `Catalog`: hence `InventoryInit`, `InventoryNext`, `InventorySpec`.
`PeriodTeamProofs` holds those about the cashier sessions and period end, and then those
about `Team` with `Registration` and `Otp` below it: hence `RegistrationInit`,
`RegistrationNext`, `RegistrationSpec`.

`MC*` modules give small values to constants; `MCSupplierPayments` also holds the
closed form with which `Allocation` is compared. Operators that begin with the
comment "Mutant of" are faulty variants of the definition below them; no
specification uses them. They exist to show that each property can fail. Where no
run lists `TypeOK`, it is there for the reader and as the starting point of a proof.

### How state and actions correspond to the code

**Ledger.** `journal` is what is committed; `pending[t]` is what transaction `t`
inserted; `Visible(t)` is what its queries return. `post()` becomes `Check` (the
amount guard of `FinancialService`, the lookup by source, the account checks, and
the date that is stamped), `ReadLock` (the period lock read), `Insert` (waits for
another transaction's uncommitted row of the same source, fails on a committed
one) and, after allocations and supplier payments, `AssertBalance`. Each is one await.
An error anywhere rolls the whole transaction back, as `withTransaction` does.
Every template has two lines of one amount, so an entry is one record with a
debit and a credit account; balance then holds by the shape of the templates and
is not listed as a property. The history variable `racing` names the
transactions past their lock check when a lock was written, `shared` the parties
of which two open transactions held entries at once; no action reads them.

**BalanceCache.** `books` are committed balances. `cache` has one map per instance of the
service: `credit`, which is `FinancialService`'s, and `ledger`, which answers the
dashboard. A query goes to one of them; `Invalidate` reaches `credit` alone. A posting is
*nested* (in the caller's transaction: insert, invalidate, commit), *standalone* (insert,
commit, invalidate) or by *inventory* (insert, commit). A query of a parent account awaits
one read per child (`ReadLeaf`), so its sum may mix before and after. An entry keeps its
age; at `TTL` it reads as absent. `overlapped` (fills a posting overlapped) and `exposed`
(per instance, keys such a fill stored, or under which a posting was committed that the
instance is not told of: `Untold`) are history variables.

**Inventory.** A purchase only inserts, and is one step. A sale is `Begin`, then
per line `Verify` (read without lock) and `Allocate` (`SELECT ... FOR UPDATE` on
the open batches, the costing strategy, the expiry policy, the new quantities,
the movement), then `Commit`. `Blockers` are the transactions that hold a row or
an uncommitted source this one needs. `own` holds the quantities written and not
yet committed. `createMovement` and `createBatch` look for a movement of the same
source only, as the code does. `rerun` is history: a document committed
twice.

**CashierSession and PeriodClose.** The resolver's mutations have no database
transaction, so each save is visible at once and `Fail` (or `FailClose`) may come
between any two. `job` and `closing` are the locals of requests in flight.
`findReconciliation` gives no order, so validation may answer either way when a
draft and a verified record both cover the date: `MayPass` and `MayFail`.
The calendar is a number of days of one month. `doubled` (sessions two
overlapping requests started or closed) and `overlapped` (two period-end requests
in flight at once) are history.

**SupplierPayments.** An allocation reads the unpaid purchases, computes all
parts (`Allocation!Allocate`), then per part updates the status (`Mark`), and posts and
asserts (`Pay`). The two differ in their transaction. The posting is in the one
`withTransaction` opened; the status goes through a repository of the caller's context
(`supplier-payment-allocation.service.ts:132`), which has none, since the resolver has no
`@Transaction`. So `Mark` is seen by everybody at once, and `RollBack` takes back the
debits (`run[t].debits`) but not the statuses. The paid amount is the code's estimate
from the status. `together` is history.

**CreditLimit.** `CheckApproval`, `CheckLimit`, `CommitOnCredit` are the steps of
`createOrder` and of `recordPurchase`. Editors load the party's fields, change
them and save them whole. `stale` is history: the orders and editors whose read
of a party somebody has since changed.

**Checkout.** `cart` and `stored` are the signal and its copy in local storage; editing
actions write both, `Reload` reads the copy back. `phase` says what the checkout handler
awaits, `req` holds what was sent and whether the page still waits. A line keeps the
quantity its price was agreed for, since an override is the price of the whole line.
Leaving the sell page within the application while an answer is under way, and coming
back, is not modelled: the late answer then clears the cart that the two visits share, as
it does here when the user stays. `basket` counts emptied carts; `drifted` is history.

**Sales.** `Checkout` plus the server. Creating an order is one transaction and,
since nothing else reads its rows before the commit, one step, either whole or
rolled back. Its payment events lie in `events` until a subscriber handles them,
in any order, or its posting fails. The total is that of the list prices: the agreed
price is saved as a field of the line after `addItemToOrder` priced it
(`order-item.service.ts:43-44`), and the refresh of `order-creation.service.ts:105`
("to recalculate totals after custom pricing") reads the order without pricing it again.
So an order has its `total` and, beside it, lines that say for which quantity the price
they record was agreed (`agreed`). A customer payment is a transaction (`run[t]`)
that reads the unpaid orders, settles or adds a payment for each part, posts and
asserts, waiting for another transaction's update of the same order. `missed`
(orders whose payment was created without a posting) and `overlapped` are history.

**Drafts and Stock.** `draft` is the signal and its persisted copy at once, since every
edit saves; `loading` is the document the page awaits, and only the submit button heeds
it. `HearRecorded` clears the draft, whatever it holds by then, and on the adjustment page
starts a timer of three seconds (`stock-adjustments.component.ts:305`) that replaces the
draft (`TimerFires`); the purchase page's timer only navigates. The browser has a draft
for each page; the model has one, of either kind, which the timer replaces only if it is
of an adjustment. `hasty` (drafts edited while an answer was awaited, or begun then or
before the timer ran out) and `gaveUp` are history. `docs[d]` is a document in its
transaction: `at` is where it stands, `held` the rows it has locked, `moves` the level
before and after each line. `LockVariant` and `MoveStock` are the two locking queries per
line; the second joins the location, so every document locks that row as well. `SaleReads`
and `SaleWrites` are Vendure's update of a level. `BreakDeadlock` is the database choosing
a victim. `FailDocument` stands for every other error before the commit: credit, a refused
posting, the audit event. What a purchase posts is in `Ledger`, its credit check in
`CreditLimit`. `sold` and `lost` are history.

**Otp and Registration.** `code`, `tries` and `asked` are the Redis keys of a
phone, `stored` the registration data by session. `call[c]` holds the locals of a
request; each Redis command or query that others can interleave with is a step.
Provisioning is one transaction with the reads that matter (the e-mail and code
checks, the SuperAdmin role's channels, the user's roles) as steps of their own
before the commit; the step after the commit sets the status and may fail.
`form` is the sign-up page, whose code field submits without looking at the
loading flag. `shared`, `crossed` and `raced` are history.

**Team.** An invitation is `Invite` (the lookup of the phone) and then either
`CountAdmins` and `CreateMember` or, for somebody who is a user, `ReadInvited` and
`SaveInvited`; a removal is `Disable`, `ClearRoles`, `RemoveAdministrator`. The
mutations have no transaction, so each save is seen at once and `TeamFails` may come
between. They share `users` and `call` with `Registration`, so that an invitation that
makes a user is noted by a registration of the same person under way (`Noted`), and a
registration may give back what a removal has taken (`Regains`); every invitation makes a
role of its own, so a user's roles are the companies they are for. `inside`, the
companies a browser is logged in to, says where a request may come from. Vendure's
`AdministratorService.create` is given the phone as identifier, and is taken to use it.
`teamwork`, `unchecked`, `rushed`, `restored` and `left` are history.

**Subscription.** `charge` and `due` are Paystack's side (external): a charge is paid or
fails at any time and is delivered at least once. `call[c]` is a request: a verification,
a webhook or an expiry check, each of which reads the channel, awaits and writes fields of
it back. `TrackAction` and `CountAction` are the counting of a message or an invitation,
which writes back the whole record it has read (`seen`). `verdict` is the cached
verification, `polls` what the modal has left. `told`, `extended`, `overlapped`,
`crossed`, `clobbered`, `tracked` and `restored` are history.

**Catalog.** `page[p]` is where a dashboard stands in the run of mutations that
makes a product, or in the photo editor; `Outcomes` are what the server did and what
the page hears, which are two things when an answer is lost (`mishaps` bounds how
often). `told`, `off` and `crossed`, kept with the product, are history.

## 3. What the runs check

The code takes few locks and joins few of its steps, so many of its promises hold
only as long as requests about the same thing do not overlap and no answer is lost.
Every run lets them overlap and lets them fail. A property that survives every
interleaving is stated plainly; one that does not is stated with the exact event
that breaks it as its only exception, kept in a history variable that no action
reads. So each run shows both what holds and why it may fail, and a fault other
than that event violates it. All runs hold.

| Run | Instance | What it shows | States, time |
|---|---|---|---|
| `ledger` | two transactions, a credit sale, two allocations, a purchase, a supplier payment, two days, a lock that moves | an event is in the books once; allocations follow sales; nobody is overpaid unless two open transactions held the party's entries; only a racing transaction writes into a closed period; the journal refinement | below one minute |
| `cache` | both instances, two writers, one reader, a parent account, nested, standalone and inventory postings | an entry is stale only by an overlap or under a posting its instance is not told of; it heals (fairness of section 4) | 705k, 1 min |
| `inventory` | two transactions, two purchases of different cost and expiry, two sales and a write-off, each tried twice, an adjustment | the batches are worth the INVENTORY account, unless a document committed twice; no lost update | 60k, 10 s |
| `till` | two requests, two sessions | a closed session has the count it declares; one open session and final closing, unless two requests overlapped | 2.9M, 1 min |
| `period` | two period-end requests, a session, one reconciliation a day, two days | the lock stands on a verified reconciliation; unless two requests overlapped, periods tile and stay locked | 197k, 12 s |
| `supplier` | two allocations, two purchases recorded with any status; payments of up to three items | no overpayment, settled is final and money comes only from an allocation that found its purchase unpaid, unless two allocations overlapped; an allocation is its closed form, oldest first | 458k, 30 s |
| `credit` | two orders, two editors, a customer and a supplier | a sale is within the limit its check read, a revocation holds, unless the read was stale | 2.4M, 100 s |
| `sales` | one product, two baskets, a cash and a credit checkout, two allocations, a payment of 3 | a basket is sold twice only after the page gave up on an answer; a recorded price was agreed for the quantity of its line; revenue is booked once; an order is paid once, unless two allocations overlapped; the journal refinement for all of it | 862k, 1 min |
| `stock` | two variants of which one has no stock level row, three drafts in turn, two documents, one of which may come from another client with three lines of which two are of one variant, one item sold | what a level is made of; when a count is reached; a draft is recorded once and, unless it was hasty, not cleared unrecorded; every document ends (fairness) | 607k, 2.5 min |
| `registration` | two requests, two codes, two sessions, one outside event; one phone that registers, or one or two companies that are there and a third person, with one invitation or removal beside a registration or a login, or two at once | one company per registration; no more people than seats, unless somebody known came in or two counted at once; the platform and the owner reach every company, with the exceptions named there | 897k, 60 s |
| `subscription` | four kinds of channel, two charges, two requests, two polls, one repeated delivery, one action counted in a subscription that runs, the clock passes the expiry | time paid for is kept; polling counts a payment once; what is reported paid was counted, or another payment was within five minutes | 2.4M, 80 s |
| `catalog` | two people, two SKUs, two products of up to two variants, two photo jobs, one mishap | when SKUs can clash; a product reported created is whole; removed photos stay off | 3.1M, 110 s |

Times are with two workers.

Why the bounds are enough. The hazards are races of two requests, or one request and one
event, so two transactions (calls, people, sessions) with the operations that conflict
show them; one of them alone shows what holds without a race, and every run contains those
behaviours too. Amounts are chosen so that the parts of a payment exceed together what
each alone does not (1 + 2 > 2), so that half of a cost differs from an odd payment, and
so that one sale spans two batches. Two days distinguish before, on and after a lock and
let one period follow another. `TTL = 2` distinguishes new, old and expired. A payment of
3 pays one order in full and a part of the next, or more than both. Two documents of which
one has lines of both variants form the lock cycle. Three drafts are the one whose
recording starts the timer, the one that is begun before it runs out, and the one that
replaces this. `Elsewhere` takes a variant away again that it added, so that two lines of
a document move one level. Of two charges the first is paid by a link and not polled
(`Polled`), so that it may lie more than five minutes before the other one is looked for.
Two codes and a limit of two requests reach the rate limit, the wrong attempts and a code
replaced by a later one. Two polls let a modal be told wrong and then right, or give up.
Three seats, of which one is the platform's and one the owner's, leave one for two
invitations.

Bounds that cap what the code leaves unbounded appear only as guards: `MaxPosts`,
`MaxCash`, `MaxCounts`, `MaxPurchases`, `MaxAttempts` (of `Inventory`), `MaxDebt`,
`LastDay`, `Asked` (which balances are queried); `MaxQuantity`, `MaxRequests`,
`MaxOfKind`, `MaxBaskets` and `CheckoutsOver` (allocations come when the checkouts are
through) of the sales; `MaxQty`, `MaxDrafts`, `MaxDocs`, `MaxSold`, `MayEdit` (edits stop
when neither an answer is awaited nor a document left to submit) of the stock; `MaxCodes`
with `CodesLeft`, `MaxSessions`, `MaxOutside` of the registration; `MaxTeamwork` of the
team; `MaxNow`, `MaxCharges`, `Polled`, `MaxRepeats`, `MaxTracked` of the subscription;
`MaxVariants`, `MaxProducts`, `MaxPhotoJobs`, `MaxMishaps` of the catalogue. `RateLimit`
and the `MaxAttempts` of `Otp`, `Cycle` and `MaxPolls` are parameters of the code with
smaller values. Symmetry is declared for transactions, requests, sessions, people and
SKUs, which the specifications never tell apart, and only in runs without liveness. Runs
whose cfg says `CHECK_DEADLOCK FALSE` are those where the bounds let everything end.

### Where the code departs from what one would expect

The exceptions in the passing properties, and what the models contain without a
property, are the deviations a maintainer should know. Each was met while
translating the code; TLC finds a counterexample when the exception is dropped.

*Ledger and cache.* A lock created between a transaction's lock check and its
commit (`racing`); two allocations of one order that do not see each other's lines
(`shared`); inventory postings that never invalidate the cache, and keys dropped
before the commit (`exposed`). A posting never drops the keys that the dashboard reads,
which are in the other instance, although `financial.service.ts:188` says "Clear SALES cache
(most important for dashboard)": the dashboard is behind for up to the minute of
`CACHE_TTL` after any posting.

*Inventory.* A sale run again takes the stock again (`rerun`); the second line of a
purchase gets the first line's batch (`inventory-store.service.ts:45`); a second batch of
the same sale leaves no movement; batches are consumed by expiry before age; sales
lock batches in the order of their lines.

*Cashier and periods.* Two requests open two sessions (`doubled`); an earlier close
overwrites the lock of a later one (`overlapped`); journal lines of payments carry
no session, so a count expects only the float (`financial.service.ts:169`, against
`docs/PAYMENT_METHOD_RECONCILIATION.md:77`); opening a period writes a closed,
unreconciled one (`period-end-closing.service.ts:292`); a session reconciled for an
earlier period blocks later closes; a session open at a close ends behind the lock, and so
does one that is closed between the validation and the lock, unreconciled (`LockCovered`
speaks of reconciliations, and does not catch that one).

*Payments and credit.* A purchase marked partial is taken to be half paid
(`supplier-payment-allocation.service.ts:100`); an allocation that fails after its first
part leaves statuses without payments, so a purchase can be settled that nobody paid; two
orders that each fit the limit exceed it together (`stale`); a Vendure payment settled at
once is not found among the payments to settle, so nothing is posted for it; the credit
handler's payment has the order's total as its amount, whatever part was allocated.

*Sales.* There is no idempotency key, so a checkout repeated after a lost answer is
a second sale (`Abandoned`); the answer clears the whole cart, also what was added
since; the price agreed by hand is stored with the line and not charged, and the strategy
that would charge it divides it by 100 (`custom-price-calculation.strategy.ts:39`); a scan,
the quantity sheet and a reload keep a hand-made price for another
quantity (`drifted`); a payment of a cash order may stay without a posting when
`addPayment` returns quietly and the safety net fails (`missed`).

*Stock.* The locking query joins the stock location, so documents without a common
variant wait for each other, and two of several lines can deadlock; lines edited while
an answer is awaited are cleared by it, and a draft begun within three seconds of a
recorded adjustment is replaced (`hasty`); the page never sends that a purchase is on
credit; a variant added twice keeps the first unit cost, and counted twice sends the sum
of both differences; a sale by Vendure that read the level first overwrites the change
of a document (`lost`).

*Registration.* The sign-up page submits by itself when six digits are in, loading
or not, so two calls may provision one registration (`shared`); login and
registration share one code per phone, and deleting a verified code may delete a
newer one; code and data are gone before provisioning may fail; the uniqueness check
in provisioning is not told of the existing user; the SuperAdmin role and a user's
roles are read, extended and saved whole (`crossed`, `raced`); the status is set
after the commit, and may not be.

*Team.* The limit on administrators is not checked for somebody who is a user already
(`unchecked`), and two invitations may count before either is through (`rushed`); a
removal takes the roles of every company away, not only of the one that asks, and does
not ask whether the person is in it (`left`); a removed person who is invited again
gets the role and an error; a list of roles read before another change puts back what
was taken or takes what was given (`restored`, `left`); a company given to somebody whose
removal is under way is kept without being counted (`restored`).

*Subscription.* The webhook counts every delivery; polling cannot tell apart two
payments within five minutes; the expiry check writes over a payment
(`clobbered`); counting an action writes back a record that may be older than a
payment, an expiry or a decision of an administrator (`restored`); two payments
counted from the same expiry lose a cycle (`crossed`); a
prompt that timed out falls back to a link, and both may be paid; the tier is the
channel's, not the payment's.

*Catalogue.* A failure half way leaves the product with the variants made so far,
where a comment says it is rolled back (`frontend/.../product.service.ts:105`); a SKU
check that fails counts as free; `DELETE_ASSET` is sent with an `id` where its input
asks for an `assetId`, so it is refused; two editors write over each other's lists
(`crossed`); trying again after a lost answer makes a second product.

## 4. Fairness

Two modules have liveness properties, `BalanceCache` (`CacheHeals`) and `Stock`
(`EveryDocumentEnds`). Their fairness is weak. In `BalanceCache` time passes (`Tick`), a
posting that has begun invalidates or commits, and a query that has begun reads its
accounts and stores. In `Stock` the action `Progress(d)` of a document goes on: the next
lock is taken when it is free, a level is moved, the transaction commits, and a document
in a lock cycle may be chosen as the victim that breaks it, which PostgreSQL's deadlock
detection does after a second. A promise that has been started on Node's event loop
settles or fails, and nothing can disable these steps for ever, so weak fairness is what
the runtime gives. Nobody is obliged to post, query, submit or sell; no abort or error is
ever due, other than the one that breaks a lock cycle.

## 5. What is proved

TLAPS proves the theorems below for every value of the constants that the `ASSUME`s
allow; the runs of section 3 check the same properties, and the inductive
invariants, on small instances first. In every module the argument has the
same form: an inductive invariant strengthens the property with what the code's
steps rely on, one lemma per action shows that the action keeps it, and the theorem
follows by `PTL`. Action properties are proved from the same invariant. The
paragraphs below say what each invariant adds and why the property alone is not
inductive.

| Module | Theorem | Says |
|---|---|---|
| `LedgerProofs` | `PostingIsIdempotent` | an event is in the books at most once |
| | `AllocationsFollowSales` | every allocation has its credit sale |
| | `ClosedPeriods` | only a transaction that raced the lock writes into a closed period |
| | `Receivables`, `Payables` | no order is allocated more than it was sold for, and no supplier is paid more than its purchases, unless two open transactions held entries of the party at once |
| | `Refinement` | `Ledger` implements `Journal` |
| `BalanceProofs` | `StaleOnlyInWindow` | a fresh balance of a leaf account, in either instance, is wrong in the named windows only |
| | `CommitsWithinLimit`, `RevokedStaysRevoked` | a commit leaves its party within the limit its check read, unless another commit came between; revoked credit comes back by an approval, or by an edit whose party was saved under it |
| | `SupplierIsNotOverpaid`, `SettledStaysSettled` | unless two allocations overlapped, the supplier is paid no more than its purchases cost, and a settled purchase stays settled and takes money from no allocation that found it so |
| `PeriodTeamProofs` | `ClosesAreCounted`, `OneIsOpen`, `ClosedStaysClosed` | the cashier sessions: a closed one has its count, one is open unless two starts overlapped, what was declared is final |
| | `LocksAreCovered`, `PeriodsDoTile`, `ClosedStaysLocked` | period end: the lock moves on verified reconciliations only; periods tile the calendar and stay locked unless requests overlapped |
| | `OneCompanyEach`, `CompaniesAreReachable`, `SeatsAreWithinLimit` | the three properties of the registration run, the last where the limit leaves the owner a seat |
| `SubscriptionProofs` | `PollsCountOnce`, `ToldIsPaid`, `PaidTimeIsKept` | polling counts a payment once; the modal is told of a payment only if it was counted, or another one within five minutes; paid time is lost in the named windows only |
| `SalesProofs` | `BasketsSoldOnce`, `PricesAreAgreed`, `RevenueCountedOnce`, `OrdersPaidOnce` | the four properties of the sales run; `PricesAreAgreed` is about the price on record |
| | `Refinement` | `Sales` implements `Journal` |
| `StockProofs` | `Typing`, `Levels`, `Counts`, `DraftsRecordedOnce` | the three safety properties of the stock run, and its types |
| `CatalogProofs` | `SkusStayDistinct`, `CreatedProductsAreWhole`, `PhotosTakenOffStayOff` | the three properties of the catalogue run |
| | `NoUpdateIsLost`, `ValuationIsInTheBooks` | no two sales rewrite one batch; with purchases of one line the batches are worth the INVENTORY account, until a document commits twice |
| `Sums` | `AllocateParts` | what `Allocate` returns for any items, selection and payment |
| | `SumChanged`, `SumInto`, ... | sums and folds over finite sets |

`Typing`, `Invariance`, `CacheInvariant`, `CreditInvariant`, `SupplierInvariant`,
`TillInvariant`, `PeriodInvariant`, `TeamInvariant`, `InventoryInvariant` and `Invariant` state
the inductive invariants themselves.

**Assumptions.** Besides bounds being natural numbers: requests to post are well
formed and a credit sale is its own order (`RequestsAssumption`, from `recordSale`,
which passes the order for both); the calendar has a day (`LastDayAssumption`); leaf
accounts and parents are disjoint (`CacheAssumption`); a party's editors are not the
transactions of its orders, and limits and totals are amounts (`CreditAssumption`);
purchases cost something and payments are amounts (`SupplierAssumption`);
floats are amounts of cash (`CashierAssumption`); there are finitely many
products and transactions, and a price can be lowered (`CheckoutAssumption`,
`SalesAssumption`); finitely many variants, some of which are counted
(`StockAssumption`); quantities and costs of purchases are no less than 0 and every
document has a line (`InventoryAssumption`: `createBatch` and the validation of a
purchase refuse the others); a trial has no paid time yet (`SubscriptionAssumption`: only
`processSuccessfulPayment` sets the expiry, and it ends the trial); in a company that is
there already a user is one person, and the mark of a removed administrator is nobody's
e-mail (`TeamAssumption`). `SeatsAreWithinLimit` assumes `OwnerHasSeat`: the limit allows
the platform's administrators and one more, since no code compares the owner of a
new company with it.

**Ledger.** `OneEntryPerSource` alone is not inductive: a commit could bring a
second entry for an event. `PendingFresh` adds that uncommitted entries differ by
source from the committed ones and from each other, which `Insert` establishes (it
waits, or fails) and `Commit` relies on; the refinement needs it too, since a commit
is `Publish(pending[t])`. `AllocationHasSale` needs `PendingAllocationHasSale`: within
a transaction only the entry whose assertion is still to run may lack its sale, and a
transaction in that state cannot commit. `ClosedPeriodOnlyRaced` needs
`LateIsRacing`: a transaction that is past its lock check, or holds an entry dated
behind the lock, is in `racing`. `Receivables` and `Payables` use `CoverInv`: for a
party that is not in `shared`, at most one transaction holds entries of it, the
committed journal covers it, and it is covered in what each transaction sees unless
that transaction is about to assert it. The delicate step is a commit of one
transaction seen by another: since only one of them holds entries of the party, the
other sees either what the first saw or what it saw before. The sums are over finite
sets of entries (`FiniteBooks`).

**Balance cache.** `OverlapNoted` says that a fill and an open posting to its account know
of each other, so a fill nothing overlaps reads its leaf as it still is (`FillReads`), in
the instance it fills, and an entry stored between an invalidation and its commit is in
the exposed ones (`InvalidatedBeforeCommit`). A commit exposes the keys of the instance
that is not told. The theorem is about leaf accounts, whose balance is proved to be what
was posted (`BalanceOfLeaf`).

**Credit limit.** `CheckStands`: what an order's check found still holds at its
commit, because between the two the balance of the party only falls unless another
order commits. `CopyStands`: an edit's copy is what its party has, unless the party
was saved since.

**Supplier payments.** `SupplierTyped` keeps the parts an allocation has still to pay
within the purchases there are. `LoneKeeps` says of a run without overlap that one
allocation at most is open, that what it has debited and what is committed stay within
what the purchases cost, that what it has still to mark is as unpaid as it read it, and
that what it has marked tells of its payment (`Keeps`, `Follows`). The assertion after
each posting gives the middle part, `AllocateParts` the last: a part is positive and no
more than is owed, and by its estimate a settled purchase owes nothing.

**Cashier sessions and period end.** A request about to save a closed row has saved
its count (`CloserHasCounted`), a start that is under way saw no open session or one
was saved beside it (`StarterSawNone`), and a session has one closer, unless noted
(`OneCloser`). Every step of `PeriodClose` is one of the till or leaves the till
alone, so the invariant of the till carries over. On top of it, a request that may
move the lock has been told that its date is covered (`LockerSawCover`; a
verified row is never taken back), some period is the last (`HasLast`), and the last
period a lone request read is still the last when it records (`Alone`).

**Subscription.** Requests for one payment at the same time are noted (`OneAtATime`);
after a payment there is a subscription and no check is about to end it
(`RecentIsActive`), an expiry about to be written is later than the one there is
(`ExpiryGrows`), and what `trackAction` read before is older (`SeenIsOlder`).
`CountedOnceByPolls` needs that polling ends within the time that a reference
stays remembered (`PollingEnds`) and that a poll for a counted payment stops at
the first step (`PollStops`).

**Sales.** Of the page: only the last request may wait for an answer, what was heard
was decided (`Waiting`), and a basket whose order the page heard of is over
(`BasketsEnd`); `AgreedAlways` follows a price through the cart, its copy in storage
and the orders. Of the server: the payments of a run are new and nobody else's
(`Numbered`), every journal entry has an order, a payment or a sale it stems from
(`Explained`), one each (`OneEach`), every order is in the books unless its event
waits or was missed (`SalesPosted`), and an allocation that runs alone pays each
order once and for its total (`PaidApart`). The last rests on `AllocateParts`.

**Stock.** `DocsOk` says what documents hold: their locks are disjoint, and a document
writes levels only under its locks. `LevelOk` then says that each document sees the
committed level plus its own changes, so that a commit adds exactly these.
`DraftsOnce` says which document a draft has become, and that a draft which is not hasty
is still what was sent while its answer is under way, so that the answer clears what was
recorded and the timer nothing else. Sums over the lines of a document, over variants and
over documents are compared step by step with the lemmas of `Sums`.

**Catalogue.** `Whole` says that the variants of a product are the first lines of its
form, until all of them are there, and `Distinct` is the property with the numbers of
the steps at which a variant appeared and was looked up. `PageOk` says of each
dashboard that what its lookups found stays free of earlier live variants (`Looked`)
and what the product it makes has so far (`MakerOk`), `Apart` that two
dashboards make different products and upload different photos.

**Inventory.** `RunOk` says of a sale or write-off under way that it rewrites only
rows it has locked, never to more than they held, and that what it is about to
charge (`cost`) is the value of what it has taken; `LocksApart`, that nobody else has
those rows locked. The first gives `NoLostUpdate`. For the valuation: a commit takes
from the batches exactly the cost it posts (the committed rows it rewrites are still
those it read, since they were locked), and a purchase adds the same amount to both
sides if its source is new in the movements and in the books together
(`PurchasesBooked`). This is where `ValuationIsInTheBooks` assumes purchases of one
line (`SingleLine`): the second line finds the movement of the first, makes no batch,
and is in the books all the same. The loops over lines are folds; what they return
is proved with `FoldsAlong` and `FoldStays` of `Sums`.

**Team, Registration and Otp.** `TeamInv` has a part for each property. `SessionsInv`:
the data of a registration is with one request or in one company, and is gone from
Redis by then, unless two requests had read it. `ManagedInv`: what a transaction saves
as the SuperAdmin role has every company, but those committed since it read
(`crossed`). `OwnersInv`: a registration under way has found its person's user as it
still is, or knows that one was made meanwhile (`raced`), and the roles it read still hold
the owner's companies, but for those lost in the windows the property names; the user
that is found for a phone is the first one, which no later user displaces (`UserFound`,
`LeastNumber`). `SeatsInv`: where the limit is promised every member is an
administrator, hence counted, and the one request that has found a seat finds it
still free. Most steps are `Quiet`, they change nothing the invariant speaks of; the
others have a lemma each. The proof changed the model: the histories had
missed an owner who is invited while he registers (`raced`), and one who is given a company
while he is being removed (`restored`), neither of which the bounds of the run reached
then. Both may happen in the code, and the run starts from such a state now.

**Sums and loops.** The library's induction rules take an operator as a parameter,
which the provers here cannot instantiate. Where induction is needed (the loop of
`Allocate`, sums over sets), the proofs argue by a smallest counterexample, over the
natural numbers or the subsets of a finite set, which needs no parameter.

**Only model-checked.** `OldestPaidFirst` (it compares `Allocate` with a closed form over
all small inputs in a module of TLC's own, so it is about what a loop computes for every
input: induction over data); and the two liveness properties, `CacheHeals` and
`EveryDocumentEnds`, which are out of reach of TLAPS (liveness under fairness).

## 6. Abstractions and what is left out

- One channel (several in `Registration` and `Team`), one stock location; amounts in one unit;
  names and memos dropped.
- The database is modelled at READ COMMITTED with row locks and unique indexes;
  deadlock detection appears as `Abort` or `BreakDeadlock`.
- Vendure, Redis and Paystack are external: modelled by what the code relies on.
- `createInterAccountTransfer`, which builds its source id from the clock, and
  `recordRefund`, which no code calls (its template is in `PostingPolicy`).
- The annotations `reviewCashCount`, `explainVariance`, `verifyMpesaTransactions`.
- Rounding of custom prices, the walk-in customer, orders saved for the cashier.
- The permissions of roles, and with them `updateChannelAdministrator`.
- `cancelSubscription` (a stub), the subscription guard (no resolver uses it), the
  page's five-minute copy of the status.

Not modelled:

- The ML extraction queue. It looks for its table in `result.rows` of
  `rawConnection.query()`, which for PostgreSQL returns the array of rows itself; so
  it is never ready and `scheduleExtraction` always throws. A model of its claims and
  retries would be of code that does not run.
- Notifications, audit, metrics: they write after the fact, their failures are logged,
  nothing else reads what they write. (That messages are counted in the channel's
  record does matter, and is in `Subscription`.)
- Reports, lists, search, settings, printing, scanning and recognition pages: views
  over data the other parts own.
- Build files, deployment, generated GraphQL types, the archived former version.

## 7. Plan

Done in this order because money in the books is what every other part relies on:
`PostingPolicy`, `Ledger`, `Journal`, `LedgerProofs`, `BalanceCache`, `Inventory`,
`CashierSession`, `PeriodClose`, `Allocation`, `SupplierPayments`, `CreditLimit`;
then the paths that lead there from the pages, `Checkout` and `Sales`, `Drafts` and
`Stock`; then the accounts and the rest, `Otp`, `Registration` and `Team`, `Subscription`,
`Catalog`.

Every safety property of the runs but `OldestPaidFirst` has its theorem. What would come
next is more code: editing products and their options, permissions of roles, refunds.
