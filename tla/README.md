# Verification of the sengokumarket server

TLA+ models of the store's server (`server/src`, with `packages/contracts`) and
of the pages of the web client that act on it, checked with TLC and proved with
TLAPS. All paths below are relative to the repository.

The server is an Express application that runs as serverless invocations over
one PostgreSQL database (Prisma, READ COMMITTED). There is no lock manager, no
queue and no long-lived worker: everything that has to survive an invocation is
a row, and everything two invocations can disagree about is decided by the
WHERE clause of an UPDATE, by a unique index or by `SELECT ... FOR UPDATE`.
That is where this code is hard to test, and what the models are about.

## 1. Inventory

| Component | State it keeps | Operations | Correct when | Modules |
|---|---|---|---|---|
| Stripe event inbox (`services/stripeEventInbox.ts`, `routes/stripeWebhook.ts`, `routes/admin/stripeEvents.ts`) | `stripe_events` | claim by INSERT, reclaim, mark succeeded or failed, retry by hand | one owner at a time; succeeded only after a handler committed; a lost lease never overwrites | `StripeInbox` |
| Checkout (`routes/checkout.ts`, `routes/cart.ts`, `modules/checkout`, `services/stripeCheckout.ts`) | `orders`, `order_items`, `reserved_stock`, `coupon_usages`, the cart in the browser | cart, validation, pending order, Checkout Session, compensation | nothing is oversold; every reservation is given back or sold; nobody pays more than was shown | `OrderPayments`, `Storefront` |
| Payment events (`services/stripeWebhookHandlers.ts`, `orderFulfillment.ts`, `orderLookup.ts`) and bank transfers (`services/bankTransfer.ts`) | `payment_status`, stock, coupon, commissions, NFT issues, claims, outbox rows | completed, expired, failed, refunded, confirmed, overdue | side effects once; the settled status is Stripe's outcome | `OrderPayments`, and the modules of what they create |
| Coupons, referrals (`services/coupon.ts`, `referral.ts`, `routes/admin/coupons.ts`, `referralLinks.ts`) | counters and usages, the purchaser's attribution | reserve, confirm, cancel, restore; discounts; resolve a code | counters equal usages, limits kept, attribution permanent | `OrderPayments`, `Storefront` |
| Order administration and minting (`routes/admin/orders.ts`, `referrals.ts`, `nftIssues.ts`, `services/nftMint*.ts`) | `order_status`, `commissions`, `nft_issues` | status edits, export, mint, poll, hold, retry | legal transitions, one mint per issue, none after a refund | `OrderRecords` |
| Product administration and imports (`routes/admin/products.ts`, `productIntegrationRules.ts`, `services/csvImport.ts`, `externalOrderImport.ts`) | products, variants, integration rules | edit, delete, import | what is held stays in stock, a product stays consistent | `ProductCatalog` |
| Integration outbox (`services/integrationOutbox*.ts`, `oveWalletRewardClient.ts`) | `integration_outbox_events`, `order_wallet_transactions` | enqueue, claim, send, back off, block, retry | nothing lost or sent twice in effect, points come back with the refund | `CollectibleDelivery`, `RewardEvents`, `DispatchRounds` |
| Wallet claims and cards (`services/walletClaim*.ts`, `digitalCollectible.ts`) | `wallet_claims`, `collectible_deliveries` | issue, reissue, confirm, deliver, revoke | delivered or revoked, not both | `CollectibleDelivery` |
| Order linking, provisioning (`services/orderLinkingJob*.ts`, `purchaseProvisioning*.ts`) | the job tables, ids of the hub | resolve, link, attribute, provision, revoke | an identity stays, access ends with the refund | `PurchaseJobs`, `DispatchRounds` |
| Notifications and passwords (`modules/notifications`, `services/passwordReset.ts`) | `notification_outbox_events`, link tokens, `session_version` | claim, send, mark; log in, reset | the mailed link works, sessions follow the password | `Notifications`, `DispatchRounds` |
| Agencies (`modules/agencies`, `services/agencyHierarchySync.ts`, `agencySso.ts`) | `agencies`, late parents, accounts | upsert, sync, sign on, register | a forest; roles kept | `Agencies` |
| Login lock, rate limits, signed requests (`services/loginAttempts.ts`, `rateLimiter.ts`, `middleware/*`) | counters, nonces | try, lock, count, forget | the lock holds, limits hold, a request is accepted once | `LoginAttempts`, `RateLimits`, `SignedRequests` |
| Wallet registration (`services/walletVerification.ts`, `walletRegistrationLink.ts`) | challenges, links, wallets, waiting cards | challenge, verify, register, consume | no card waits for a wallet that is there | `WalletRegistration` |
| Administrators (`routes/admin/adminUsers.ts`) | accounts, sessions | invite, change a role, delete | an administrator remains | `AdminAccounts` |
| Scheduler (`routes/internalCron.ts`) | heartbeat | starts the rounds | every row has its turn | `DispatchRounds` |
| Settings, readiness, rendering, reports, content pages | single rows | reads, plain writes | - | none |

How they interact. A Stripe event enters through the inbox, which runs exactly
one handler transaction per winning claim. The handler changes the order, the
stock and the coupon and writes rows into the job tables in the same
transaction; dispatchers claim these rows with the same token protocol as the
inbox. The checkout creates what the handlers later settle, and talks to Stripe
between its own transactions. Administrators write to all of these tables.

Hard behaviours: invocations are killed at any point; Stripe delivers events
late, twice and in any order; a handler, a page or an administrator's request
decides on a row it read before another wrote it; a lease times out while its
owner still runs; a compensation meets what it compensates for; a page sends
back what it loaded long ago. `PROJECT.json` lists them as hazards, each at its
line with the property that watches it.

## 2. Plan

All planned modules are written. In the order they were: `JobLease` (abstract),
`StripeInbox`, `OrderPayments`, `CollectibleDelivery`; then `OrderRecords`,
`PurchaseJobs`, `Notifications`, `Agencies` (what a payment leads to, and who
works on it), `Storefront` and `ProductCatalog` (what precedes it),
`RewardEvents` and `DispatchRounds` (the rest of the outbox, and the rounds
common to the four job tables), and `LoginAttempts`, `RateLimits`,
`SignedRequests`, `WalletRegistration`, `AdminAccounts`.

Abstract specification: `JobLease`, what a token lease promises. `StripeInbox`
and `CollectibleDelivery` are proved to implement it. `PurchaseJobs`
and `Notifications` identify a token with the worker that wrote it and have no
mapping of their own.

Every safety and action property of a passing run has a theorem (section 7). What is left
to do: the creation of coupons and of links, and one model of a round together with the
statements of the rows it works on.

## 3. Modules and the code

Every module has one action per statement, or per transaction where a row lock
makes it atomic; the header of each says which, and what is abstracted.
`PROJECT.json` maps each definition to its lines. In most modules a behaviour
stays in a *scope* chosen in `Init`: which actors take part and what may go wrong.

**`JobLease`.** A free or expired job is taken with a fresh token, the holder
settles it or puts it back, expired leases may be called in, done is final.

**`StripeInbox`.** A worker is an invocation with a program counter. Each
statement of the claim, mark and retry paths is an action (`Insert`, `Read`,
`Reclaim`, `Mark`, `CheckOwnership`, `Fail`, `ManualRetry`, `ManualClaim`);
`Run` is the handler: it commits or throws. `owed[e]` is Stripe's side: an event
is delivered again until a delivery was answered 2xx. `Crash` kills an invocation
anywhere, `LeaseTimesOut` is the passing of `STALE_PROCESSING_MS`.

**`OrderPayments`.** A handler is two steps, a read with its guard (`Webhook`,
`ConfirmBankTransfer`, `ExpireOverdue`, `CancelReservation`) and the writes
(`Commit...`), which is what READ COMMITTED allows: the code reads without a lock
and its first write locks the order row. `createPendingOrder` locks what it reads
and is one step. Stripe is external: its events wait in a set and arrive in any
order; `Commit` may put an event back, which is what the inbox does when a crash
keeps it from being marked. Quantities are sets of units, so reserved stock is a
cardinality.

**`CollectibleDelivery`.** One order with its claim, and per card one delivery,
one grant and one revoke event. A sender is an invocation working on one event:
`Pick`, `Claim`, `Check`, `MarkProcessing`, `Send`, and the last transaction as
`Record`, `Count` and `Succeed` (or `Failed`). `RefundReads` and `RefundCommits`
are the refund. The wallet takes an event once per event id.

**`RewardEvents`.** The same outbox for points and entitlements of one order line:
`Pay` and the refund enqueue by the rules of the moment, senders carry the events
out (finding the grant a reversal takes back, recording `order_wallet_transactions`)
while rules are edited, ids are found and the stage leaves `dry_run`. A claim is one
step here; what may come between its statements is in `CollectibleDelivery`.

**`DispatchRounds`.** Which rows a round works on, for each of the four tables: what
is put back, the list with its order and caps, the time budget, backoff, blocking,
overlapping rounds. Owning a row is one step here, and the outcome of its work a
choice, since the tables' own modules have them. `Queues` is what the four tables differ in. A call may use up a round's time;
blocking a row costs no call and may not.

**`OrderRecords`.** The records of one order beside the refund's transaction:
administrators read, check a transition and later write by id; a mint claims,
submits to the provider and records; the poll confirms, asks again or gives up
after ten minutes; a wallet verification releases an issue.

**`PurchaseJobs`.** The three linking jobs and the two provisioning jobs of a
buyer's order, statement by statement and call by call, with the hub (which may
merge ids) and the agency system outside. `common_user_id_conflict`, the refund,
retry, skip and reissue are included.

**`Notifications`.** A pass claims an event, makes its link, sends and settles; the
mail provider sends one mail per idempotency key. Visits log in and reset the
password in several steps each. Links are derived from the event or random.

**`Agencies`.** The upsert (resolve with the cycle walk, write, commit), the daily
sync and the sign-on, none of which knows of the others, with registrations, staff
and applications changing the same accounts. The walk up the parents is the least set that
holds the agency and, with each member, its parent (`Above`), so that it needs no recursion.

**`Storefront`.** One customer in several tabs: cart, validation, form, automatic and
typed coupons, the order's transaction, edits by administrators in between. An
answer is computed when it arrives and grows old in the form. What the shop sells, where
the tabs are and what may happen is a scope; `ScopesAssumption` types it. Amounts are counted
unit by unit (`Total`), which needs no fold; `fresh` is a history variable: nothing was edited
since `/cart/validate` agreed with the cart.

**`ProductCatalog`.** Edit pages fill a form from one GET and send what they show; a
route validates before the transaction that writes, which lays the columns of the request
over the row as it is then (`Over`) and gives a new variant its id. Orders hold stock, sheets
are previewed and imported row by row.

**`LoginAttempts`, `RateLimits`, `SignedRequests`.** One clock each; every statement
is a step, and an invocation may end between two. Whether a password or a signature
is right is an input.

**`WalletRegistration`.** Challenges, links, the registration's transaction, the
consumption of the link after it, and payments that look for a wallet and create
cards, as separate steps.

**`AdminAccounts`.** A request reads the account of its session, then its target, then
writes.

`MC*` modules hold instances. `MCOutbox`, `MCDelivery`, `MCShop` and `MCAccess` each
put the instances of several modules into one run: a variable chosen in `Init` says
which of them moves and the others stand still, so that a run is the union of the
instances and not their product (`CollectibleDelivery` with `RewardEvents`, both
on the outbox; `CollectibleDelivery` with `DispatchRounds`; the two sides of the shop;
the modules that guard the doors). The first module is extended, the others are instances
whose constants and variables are renamed where two would have one name (in `MCShop` the
catalog's variants are `Ids` and its scopes `Tasks`; in `MCDelivery` the scope of the rounds is
`table` and their row `job`); the assumptions of an instance are assumed there again, so that
TLC evaluates them.

## 4. Runs

| Run | Bounds | Shows |
|---|---|---|
| `inbox_claims` | 1 event, 2 invocations, 4 tokens, 2 payloads, 1 crash, terminal at 2 attempts | the inbox implements `JobLease`; success only after a handler committed; every processing row is settled while nothing crashes (liveness) |
| `payments_scopes` | 3 orders (two Stripe, one bank), 2 variants, one use of a coupon; scopes: serial with everything, serial with a replay, serial with two replays and a refund, 2 orders with overlapping handlers | stock and coupon ledgers, discounts charged, status is Stripe's outcome, fulfilment once, no order stays pending (liveness) |
| `outbox_events` | cards: 1 card, 2 senders, 3 tokens, dead after 1 attempt, 1 crash, all `Happenings`. Rewards: 1 line of 2 units, 3 rules of which 1 or 2 are on, 2 attempts, and one of: 2 senders, 2 refund handlers, 2 rules, edits, rollout | a card counts as delivered only if the wallet took it; nothing is sent by a sender that claimed after the refund; the outbox implements `JobLease`; recorded points are the wallet's, points come back with the refund, once |
| `delivery_rounds` | cards: 2 cards, 1 sender, 3 tokens, 2 attempts, 1 crash. Rounds: 2 or 3 rows, 1 or 2 rounds, caps of 2, up to 2 mishaps, all four tables | the claim follows its cards (links that expire during a refund included), a confirmed claim is resolved, a row whose ids are known is finished (liveness); a row in its backoff is taken only by a round that was overtaken |
| `jobs_refunds` | 1 order, with a referral or an access product, 2 workers, 2 ids, 2 attempts, 2 mishaps | access ends with the refund; the common user id is never replaced |
| `records_edits` | 1 order, one kind of record at a time, 2 requests, 2 attempts, 1 mishap | the cached commission agrees; one submitter per issue; issued means minted; no mint starts for a refund that came first; mints end (liveness) |
| `notifications_links` | 1 event of every kind with 2 workers and 2 mishaps; a link with 2 visits | the mailed link works; sessions follow the password; notifications end (liveness) |
| `shop_sides` | storefront: 7 scopes, 2 variants, 2 coupons, 2 tabs, 2 orders; catalog: 8 scopes, 2 administrators, 2 variants, 2 orders | nobody pays more than the page showed; per-customer limit; permanent attribution; stock that is held is not edited away; portal products are complete |
| `access_scopes` | lock: 4 logins; limit: 3 requests from 2 addresses; nonce: 3 copies; wallet: 2 pages, 2 challenges, 1 link, 2 cards; admin: 3 users, 2 requests; tree: 3 agencies, 1 upsert | the lock, the limits, the nonces, the waiting cards, the tree's cycles, administrators' roles |
| `delivery_blocked`, `delivery_kept`, `access_admins` | as small as the case allows | *violations*: section 5 |

Why the bounds are enough. Events of a table share nothing but their place in a
round, so races are about one row and need an owner whose lease expired and the
one that took over; four tokens are more claims than attempts allowed. What relates
a row to its siblings needs two: two cards of a claim, two rules of a line, two
orders for the last unit. Two overlapping requests reach every lost update between a
read and a write. In the payments two variants and a two-unit line make an order
that excludes the others, so that acceptance, refusal and release all matter. Caps
of two rows, with fewer or as many that can never be sent, are the two sides of
the limit (in the code 5 per destination, 10, 50). The limits of the
doors are one or two, so that one request is the last allowed and the next is over.

Where a scope leaves something out it is because a counterexample of section 6 lies
there, or because the combination multiplies the states without a new meeting of
actors; the scopes' comments say which. `delivery_rounds` has no sender that
outlives its lease (a call has a timeout of 8 seconds, a lease lasts 10 minutes);
`outbox_events` has. The instance of the payments has no order with two lines of one
variant (section 6). `access_scopes` has one upsert at a time, since with two,
each checks the tree without the other's link; and one registration link, since a
link that replaces another only closes pages, which revoking does too. Deadlock checking is off everywhere:
these systems really stop, when everything is settled or a bound is reached.
Symmetry (of tokens, workers, cards, senders, ids) is used only in runs without
liveness, and only for values the modules compare for equality.

Fairness. An invocation that is not killed executes its next statement
(`inbox_claims`, `records_edits`, `notifications_links`, `delivery_rounds`). The cron
dispatches every few minutes, which first puts abandoned rows back and then takes due
rows oldest first: `Reclaim` and `Step` of a round are weakly fair, the `Pick` of a
pending row in `CollectibleDelivery` and the `Poll` in `OrderRecords` strongly,
because the worker is busy in between. Leases and backoffs run out, and the ids that
resolve in time are part of a scope (`IdsResolve`). Checkout sessions expire
(`expires_at` is set on each), Stripe delivers its events (it retries for days), the
daily job reaches each overdue transfer. Customers, administrators, refunds and mints
owe nothing. `MintEnds` assumes that operators stop saving the row, since each save
renews the `updated_at` by which the poll judges it.

`LimitHolds` is the bound the code really gives: a window starts with the first request
after the old one ended, so up to one less than twice the limit pass within any
stretch as long as a window. It relies on `STALE_BUCKET_RETENTION_MS` being no
shorter than a window that is still in use; the instance has a shorter retention,
with which a bucket is deleted only after its window ended.

## 5. Findings

* `delivery_blocked` (`integrationOutboxDispatcher.ts:94`): a round lists pending and
  blocked rows oldest first and takes 5 of a destination. Rows that stay blocked for
  ever (rule disabled, kill switch, `wallet_claim_refunded_before_send`) are listed
  again each time; as many of them as a round takes, older than another row, keep it
  from ever being looked at, also after its id was resolved. Lines 82-83 and
  `docs/post-modularization-fixes.md:399-401` say that a blocked row resumes by itself.
* `delivery_kept` (`integrationOutboxDispatcher.ts:497`): the refund's transaction reads the
  delivery as PENDING and commits after the sender has passed its guard, in TLC's trace
  before the PROCESSING mark. It sets the delivery REVOKED by id; the card is sent, and the
  check after the call makes no reversal because the delivery is REVOKED already. The
  property (`RevokedIsTakenBack`) is about cards recorded as taken back; another way to keep
  a card after a refund is in section 6.
* `access_admins` (`routes/admin/adminUsers.ts:88`): two administrators demote or delete
  each other at the same time; the comment at lines 79-81 says it can not happen.

## 6. Counterexamples without a run of their own

The models have these behaviours. Where a property is named, it is stated in the
module and fails in the instance of the run that checks its siblings (add its name to
that run's .cfg); a run's own properties are stated so as to except them, and say so.

Payments and inbox
* A delivery that meets `in_progress` is answered 200 (`stripeWebhook.ts:68`); if the owner
  dies, the row stays `processing`: nothing delivers it again, and the manual retry takes
  failed rows only (`AbandonedIsRecoverable`, stated for no crash).
* `payment_failed` and then the expiry of the session: the failed order keeps its
  reservation, and the expiry handler releases only pending orders
  (`stripeWebhookHandlers.ts:74`; `NothingHeldWhenClosed`).
* Two overlapping confirmations of one bank transfer both fulfil (`bankTransfer.ts:47`),
  unless the order earns a commission, whose unique `order_id` rolls the second back.
* A completed event handled again after a refund makes the order paid again
  (`stripeWebhookHandlers.ts:31`: the guard tests only for `paid`): the stock is sold twice,
  and the coupon's usage, released by the refund, is not charged. `StockLedger`,
  `DiscountIsCharged` and `FulfilledOnce` except it (`PaidOnce`): it cannot happen to an order
  with a referral link, whose second commission rolls the handler back. `charge.refunded` before
  `completed` finds no order and is lost. `payment_failed` overlapping `completed` may
  overwrite paid with failed.
* `assertStockAvailable` checks lines one by one: two lines of one variant may together
  reserve more than is there. `StockLedger` bounds what is reserved for a variant that no
  order asks for in two lines (`OneLineOf`).

Storefront and products
* The attribution that `createPendingOrder.usecase.ts:63` calls permanent is replaced when
  two first orders share no variant: the later commit wins. `AttributionIsPermanent` is
  for tabs that stand at the checkout with a variant in common (`Sharing`).
* A PATCH of a coupon's cap alone is not checked (`routes/admin/coupons.ts:244` validates only
  together with a discount field), so the cap may be below zero. The discount is negative
  then, and a customer whose page has not applied the link's coupon pays more than
  it showed: with -1 for the cap of `Fixed` in `MCStorefront`, `PricedRight` fails.
* The success page clears the whole cart (`CheckoutSuccessPage.tsx:41`), also what another
  tab added since; the cart page keeps a stale validation (`CartPage.tsx:62`); an automatic
  coupon shown before the referral code was edited is not charged.
* The price of the only variant and the price of the product part when two forms overlap
  (`SinglePriceIsBase`); a variant may be deleted between the check and the delete of
  `products.ts:353`; an item type is changed under a rule that needs another; two PATCHes
  of a rule are validated against the same old row (`productIntegrationRules.ts:186`); an
  import runs on a preview that is no longer true.

Records, jobs, outbox
* An edit of an order, commission or issue that was checked before a refund is written
  after it (`routes/admin/orders.ts:182`; `FinalStatesAreFinal`).
* The second order of a buyer whose resolve job succeeded is never linked
  (`orderLinkingJobDispatcher.ts:20`, one job per user; `OrdersAreLinked`).
* With two senders `ClaimFollowsCards` fails: each counts the other's card as not delivered
  (`integrationOutboxDispatcher.ts:589`). A claim refunded while partly delivered keeps its
  delivered cards. A link reissued during a refund leaves the claim pending with all cards
  revoked.
* A claim confirmed between the refund's reads and its commit: the refund has read it as PENDING
  and revokes the claim alone (`walletClaimRefund.ts:26-33`), so a card sent meanwhile stays
  DELIVERED and is never taken back (`RefundTakesCardsBack`, stated in `CollectibleDelivery`).
* A claim whose link had expired when the refund read it, and which is reissued and confirmed
  before the refund commits, keeps its status (`walletClaimRefund.ts` handles only the statuses it
  read). A card under way is compensated, the next is stopped by the guard, which ends the
  delivery without a look at the claim (`integrationOutboxDispatcher.ts`): the claim stays
  `REVOCATION_PENDING` with nothing left to revoke. `ClaimFollowsCards` excepts a card that was
  never handed over.
* Rewards: with two refund handlers and two senders, two reversals of one grant may be
  recorded (line 800 looks before either writes; `ReversedOnce` is checked with either,
  not both); a grant whose answer was lost is recorded as a success without a trace if the
  stage has gone back to `dry_run` (lines 743-744); a grant sent again may arrive after its revocation
  (`RefundEndsEntitlement`).
* Overlapping rounds skip a row's backoff and use up its attempts early; `BackoffIsKept`
  says that there is no other way.

Accounts
* A notification retried by hand before its first attempt stays `processing` with nobody at
  work when its mail fails: `markFailed` indexes the backoffs with -1
  (`notificationOutbox.repository.ts:84`; `ProcessingIsAttended`).
* Two visits that both found a password link unspent both set a password
  (`LinksAreUsedOnce`).
* An agency that arrives after the child waiting for it, and names that child as its parent,
  makes a cycle (`prismaAgency.repository.ts:107`, against
  `docs/api-agency-integration.md:220`; `Acyclic`). `CyclesAreUnchecked` shows that every cycle
  has such a link.
* Two requests on one registration link both register (`routes/walletRegistration.ts:62`
  consumes it after the transaction; `LinkRegistersOnce`); two administrators who issue a link
  at once leave two active ones; the reissue of a claim by hand is checked and then created
  (`routes/admin/walletClaims.ts:137`).
* Two logins read an expired lock; one resets it, failures set a new lock, and the reset of the
  other lifts it, though it was set after that login's read (`loginAttempts.ts:23` updates by id).
  `LockHolds` excepts this reset (`ReadBefore`) and says that a lock is never lifted by a
  login that met it.

## 7. Proofs

All constants are arbitrary, under the named `ASSUME`s of the modules.

`StripeInboxProofs`
* `TypeCorrect`.
* `TokenInvariant`, the inductive invariant behind the rest: a processing row carries an
  issued token; every token an invocation carries has been issued for its event; no two
  invocations carry the same token of an event; rows seen carry issued tokens. It is
  needed because exclusive ownership alone is not inductive: nothing in it says
  that a claim's token is new.
* `SingleOwnerHolds`, `SettledByOwnerHolds` from it.
* `ImplementsLease`: `Spec => LeaseSpec`, step by step; a compare-and-swap that loses is a
  stutter.
* `SucceededMeansAppliedHolds`. The strengthening says that an invocation about to mark
  its event has seen its handler commit; no step of another invocation can undo that.

`OrderPaymentsProofs`
* `TypeCorrect`.
* `CouponLedgerHolds`: the counters are the cardinalities of the used and the reserved usages
  and together stay within the limit, for any number of overlapping handlers. Each
  handler re-reads the usage under the order's lock, so a cardinality changes by one when
  an order joins or leaves a set; only `ReserveCoupon` adds to the sum, below the limit.
* `SerialInvariant`, the inductive invariant behind the next four: the ledger alone says nothing
  of what a handler that has read will write. One part holds however handlers overlap
  (`OrderShape`): request, session and status go together, and an event that waits or is being
  handled has happened (`EventsHappened`). The other is for handlers that run one at a time
  (`SerialShape`): what the handler has read still holds (`ReadHolds`: the order to be released
  is pending still, the one to be refunded paid); a completed session has its event coming or
  is paid (`PaymentShape`); an open order has its usage reserved (`UsageShape`); and a
  completed event that is never replayed is handled to its end once (`CompletedOnce`).
* `StockLedgerHolds`: each step moves an order into or out of `Held` and `Sold`, and the
  counters by the cardinality of its units; the units of an order that comes in are
  disjoint from those counted already. `reserved <= stock` holds line by line, which is why it
  needs `OneLineOf`.
* `DiscountIsChargedHolds`, `OutcomeMatchesSessionHolds` from the same invariant.
* `FulfilledOnceHolds`: for referred orders from the unique commission, without any
  assumption on overlap; for the others from `SerialInvariant`.

`OrderRecordsProofs`
* `Invariant`. `SingleSubmitter` is not inductive, since a mint may be claimed while another request is
  still about to record one: an undisturbed submitter's issue is in flight (`SubmitterClaimed`),
  and a claim takes only issues that are not. `IssuedIsMinted` needs that what a poll has
  learnt of the provider stays true until it writes it down (`ProviderKnown`); the cached
  commission, that nobody works on the records of an unpaid order (`BeforePayment`); the
  refund, that the issues it has locked wait still (`RefundShape`) and what it leaves behind
  (`ClosedByRefund`). `TypeOK` says of each point of a request which statuses it may be about to write:
  no edit writes one that its check does not let through.
* `CacheAgreesHolds`, `SingleSubmitterHolds`, `IssuedIsMintedHolds`, and the action property
  `RefundStopsMintHolds`; `TypeCorrect`.

`PurchaseJobsProofs`
* `Invariant`. Unless its lease was called in under a live worker, a worker with a job owns the
  row (`Leases`), and a claim never takes a processing row (`JobShape`), so that there is one. With
  that, the id a resolve worker compares is the one it saves (`IdentityShape`).
* `IdentityIsKeptHolds`, an action property: an identity on record is written again only with
  the id it has been compared with.
* `RefundEndsAccessHolds`. Between the revocation's answer and the end of its job nobody may open
  the account anew: no provisioning call is past its check of the payment (`Closed`), and the check
  stops all later ones. The invariant says so for each point of the revoking worker
  (`RevokeShape`), and that an order without a common user id, whose revocation has no account to
  end, was never granted one (`BeforeId`).
* `TypeCorrect`: a call that needs the buyer's id carries one.

`OutboxProofs`: the cards
* `CardsInvariant`, the inductive invariant behind the rest: a sender under way has a
  row and, once it has claimed it, a token no other sender of that row has; a sender inside its
  last transaction still owns its row (`LockedIsOwned`: every other statement either loses
  its compare-and-swap or waits for the row's lock); only a processing row is stale; and
  no grant exists before the claim is confirmed, so that `ConfirmClaim` creates its
  grants and never overwrites one.
* `ImplementsLease`: `Spec => LeaseSpec`. A refund writes only to rows nobody holds, and a revoke that is
  added is a job that waits.
* `DeliveredWasReceivedHolds`. What is recorded is what was answered: the refund decides on
  deliveries it has read earlier, so the strengthening covers those too (`ReadWasReceived`).
* `NoGrantAfterRefundHolds`. The guard looks at the delivery that points to the event, so the
  proof has to show that the pointer of a late sender's grant has not moved to a revoke. It
  moves only with or after the grant's success (`DeliveredHasSucceeded`), and the row of a late sender
  cannot succeed: whoever owns it has claimed it later still, hence is late and stopped too
  (`LateIsGuarded`).
* `ClaimFollowsCardsHolds`, for one sender at a time (`OneSender`; section 6 says what two do) and
  for an order with a card (`IssueAssumption`: `walletClaim.ts:93` makes no claim for an order
  without). What a sender has counted before it commits is still so, because nobody else writes a
  card between (`CardSenderKnows`; a refund waits for its row lock). Until a refund nothing is taken
  back (`WhilePaid`); and a card that is sent and revoked at once is revoked with its claim, so
  that a compensation that finds the card revoked already has no claim to change.
* `CardTypeCorrect`.

`OutboxProofs`: the rewards
* `RewardsInvariant`. What a sender is about to do or has done to the wallet (a reversal
  has found the recorded grant of its rule; a sender about to record has been answered), what
  a row of `order_wallet_transactions` says (`RowsAreTrue`: its event has succeeded, a grant is
  credited with its amount, a reversal has taken back a recorded grant of its rule), and what
  the two rest on: there is one grant per rule (`OneGrant`, since only the payment of a pending
  order makes grants and there are no events before it, `EventsCounted`), and the wallet credits an
  event's own amount (`CreditedGrants`). `EventsCounted` also bounds the events by
  `MaxEvents`, so that the domain of `credit`, a bound of the model, never constrains a call.
* `PointsComeBackHolds`: the credit that is left for a rule is that of its one grant, hence the one
  that was reversed. No assumption on overlap.
* `ReversedOnceHolds` under either of two hypotheses, since both at once fail (section 6): with
  one handler of the refund a rule is revoked once (`OneRevoke`); with one sender nobody
  records a reversal between its look and its record (`RewardUnreversed`).
* `LedgerMatchesWalletHolds` for a stage that is only raised (`"lower"` is not in the happenings;
  section 6 says what goes wrong otherwise). Two senders of one row may have been told different
  stages; `DryIsDry` says that one that was told `dry_run` and still owns the row, or has settled
  it, is not one of those: a claim made since would have taken the row from it.
* `RewardTypeCorrect`. `RewardAssumption` says that a product has finitely many rules and a
  refund finitely many handlers.

`OutboxProofs`: the rounds and the compositions
* `BackoffIsKeptHolds`, an action property. `RoundsInv` keeps the list of a round apart from its
  row: whatever is still listed is due, or another round has worked on it since (`ListedWasDue`,
  the reason for `overtaken`), and the row under way is off the list (`OffTheList`), so that its
  new backoff cannot contradict the list.
* `OutboxCorrect` and `DeliveryCorrect`: what the runs check of the specifications they check it
  of. `OutboxCorrect` has the hypotheses of its parts: a stage that is only raised, and no
  more than the one additional sender and the one additional handler that the scopes of
  `MCOutbox` keep from acting together.

`NotificationsProofs`
* `NotificationsInvariant`. That a mailed link works rests on what workers hold: who
  is about to record or to mail a link has made it or has found it made (`HoldsOK`), and derived
  links are never withdrawn (`LinksOK`).
* `MailedLinksWorkHolds` from it. `SessionsFollowPasswordHolds` because no cookie, also one of a login
  under way, is newer than the account, and one that is as new was opened with its password
  (`Follows`).
* `TypeCorrect`. The events' derived links and the random ones are disjoint (`LinksAssumption`).

`ShopProofs`
* `OncePerCustomerHolds`: usages are counted in the step that writes the order; the invariant only has
  to say that orders are a list whose other entries stay.
* `AttributionIsPermanentHolds`. While the carts share a variant, at most one transaction is
  between what it reads and what it writes, and the attribution it has read is that of the buyer
  (`RequestOK`); for that the forms must still hold the carts they were opened with (`AtCheckout`).
* `PricedRightHolds`, for coupons whose cap is an amount (`CapsAreAmounts`; section 6 has the
  counterexample). `PriceInv` says of each form and each request that, as long as nothing was edited
  since, the prices of its cart are the shop's and the preview it shows is the amount less the
  discount (`Priced`); so what a request carries is what the server computes again
  (`PricedRequest`). An edit makes everything not fresh, a validation that agrees makes the
  form's cart right. That no order costs less than nothing holds for any cap. `TotalGrows`
  compares two sums by their units, without induction. `StoreTypeCorrect` from the same invariant.
* `HeldStockRemainsHolds`, `PortalAccessIsCompleteHolds`, `CatalogTypeCorrect` from `CatalogInv`: the
  product and its variants (`ProductOK`, `RowsOK`), pending orders of variants that are
  there (`OrdersOK`), and what each page, request, draft and sheet may hold (`PagesOK`,
  `RequestsOK`, `DraftOK`, `SheetOK`). What a request writes was typed by a page that loaded the
  product at some time, so it has the types of the columns but need not fit the row: the product's
  access settings hold because the constraint sees the row that is written.
* `ShopCorrect`: both sides as `MCShop` composes them.

`AccessProofs`: the doors
* `LockHoldsAlways`, from `LockInvariant`: a lock never ends later than one set now would
  (so setting it again does not shorten it), and a login that `isLocked` let pass found no
  lock in force: a lock that is there had ended when it read, or was set since
  (`PassedUnlocked`). So whoever lifts a lock in force had read before it was set.
* `AcceptedOnceHolds`, from `NonceInvariant`: a copy under way passed the check of its timestamp no
  longer than `RunTime` ago (`CheckedInTime`); a request let through was recorded while in
  tolerance (`RecordedInTime`); a request whose nonce has been forgotten is so old that no copy can still pass
  (`Forgotten`). `TimesAssumption` relates the three times: a nonce is kept longer than a
  timestamp can be early and late together with the time an invocation may run. The repository's
  values (24 hours against 5 minutes and the platform's limit) satisfy it.
* `LimitHoldsAlways`, from `RatesInvariant`. A running bucket counts every hit of its window, and of the
  stretch of one window before its first hit one less than the limit is left (`RunningOK`);
  a bucket is deleted or begun anew only when all hits lie a window back (`EmptyOK`); so a stretch
  as long as a window meets two windows at most (`KeyOK`). The hits are counted as sets of
  requests, for any number of them.
* `WaitingIsExplainedAlways`: with the types of links, pages and cards it is inductive by itself.
* `AdministratorsStayAlways`, an action property, from `AgencyRowsInvariant` (`RowsInv`): what a writer
  has read of an account and does by its id is still so when it does it, since nobody makes a
  member's account an administrator's.
* `CyclesAreUncheckedAlways`. A link that has passed the check and is not yet written closes no
  ring of checked links (`LinkOK`, stated of every set that leads from the new parent back to the
  agency), whatever the sync and the sign-on write meanwhile. It is for one upsert at a time: two
  that each check the tree without the other's link make a cycle of checked ones.
* `AccessCorrect`: what `access_scopes` checks, of the specification it checks it of, with the
  one upsert.

`SingleOwner`, `SettledByOwner` and the type invariants are proved and are in no run. A
hypothesis of a theorem is met by the instance of the run that checks the same property.

Model-checked only: all liveness (`ProcessingEnds`, `ClaimResolves`, `OrdersResolve`,
`ReadyRowsFinish`, `MintEnds`, `NotificationsEnd`), since liveness under fairness and `ENABLED`
are outside the installed provers' reach, as is induction over data (no module declares
a `RECURSIVE` operator). The runs of section 5 look for a violation, which is no matter of
proof.

## 8. Not modelled

* Rendering, mail templates, metadata, HTTP adapters, reports, notices and legal texts: no
  state two parties can disagree about. Settings and readiness are reads of configuration,
  but for the stage of an integration (`RewardEvents`).
* Signatures, hashes, JWKS and the sign-on's token: inputs that are right or wrong.
* The creation and duplication of coupons and links, and coupons' dates; the
  accounts and mails an imported order makes; the `ERROR` status of a wallet claim and the
  comparison of ids at its confirmation.
* Real time: a lease, a backoff, a link and a session run out at any moment, but for the three
  modules with a clock.
* The batch of a round and the ownership of a row are modelled apart (`DispatchRounds` and the
  tables' modules), not together.
* Limiters that leave out the bucket of the address or the combined one
  (`includeIpBucket`, `includeCombinedBucket`): fewer buckets, each counted the same way. A rule
  of a product made or removed while its cards wait for a wallet (`Collectible` is constant).
* The audit rows, the heartbeat and the metrics: records nothing reads back.
