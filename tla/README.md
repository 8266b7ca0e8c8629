# Verification of the store's API: payments, delivery, vault, stock

This directory holds TLA+ models of the API of the licence-key store
(`apps/api`, NestJS over PostgreSQL), TLC runs on small instances of them, and
TLAPS proofs. It models the code at the commit beside it; paths below are
relative to `apps/api/src` unless they say otherwise.

The store sells licence keys. A shopper fills a cart (which holds stock for a
while), checkout drafts an order from the cart, a payment provider reports the
money by webhook, the vault binds a key to each order line, and the key is
emailed. Almost every hard question about this program is one of three: *does
each paid line get exactly one key, once, and only after the money*, *does the
shelf counter stay true while carts, sales and recounts write it at once*, and
*does an order's status agree with the money, in whatever order the providers
report it*. Those three come first; the smaller protocols around them that also
race (refunds from the panel, friend codes, the abandoned-cart ladder) follow.

## Inventory

State is in PostgreSQL (Prisma, READ COMMITTED). The API's processes keep
nothing between requests that matters here; concurrency is between requests,
webhooks and timers, and the synchronisation is row locks, conditional updates
(`updateMany where state = ...`), unique indexes, CHECK constraints and
PostgreSQL advisory locks.

| Component | State | Operations | What is hard | What makes it correct |
|---|---|---|---|---|
| Order status (`checkout/order-status.ts`) | `Order.status` | `transitionOrder`: a compare-and-set along `ORDER_TRANSITIONS` | every writer decides on a status read earlier | only moves of the map; a lost race changes nothing |
| Key vault (`vault/`) | `LicenseKey` rows: state, line, deliveredAt, expiresAt | import, assign, storeForLine, markDelivered, revoke, replaceKey, expireStale, reveal | assign is read, read, write; several callers | a key is sold once; a line has one key; nothing returns to stock |
| Fulfilment (`fulfillment/`) | `OrderItem.fulfillmentState`, `NotificationLog`, advisory locks | onOrderPaid, autoDeliver, deliverAssigned, fulfilManually, markFailed, refreshOrderState, stranded sweep, recount | every statement is its own transaction; calls overlap, die, and outlive locks | nothing before the money; a line called delivered was sent; no line is forgotten; no line is sent twice |
| Cart holds (`cart/reservations.ts`) | `StockReservation`, `InventoryLevel.reserved` | hold, renew, releaseAll, sweep of lapsed holds | two tabs, two carts, lapse, emptying without the inventory lock | one live hold a cart and variant; nothing is promised that is not there |
| Sale (`checkout/orders.ts`) | `InventoryLevel.onHand`, `StockMovement` | consumeHolds, sellUnheld inside markPaid | lapsed holds, repeated webhooks | stock is taken once a payment; the ledger of movements balances |
| Checkout and payments (`checkout/`) | `Order`, `Payment`, `Refund`, `WebhookEvent`, provider intents | start, markPaid, markPaymentFailed, applyRefund, applyDispute, panel refunds, webhook claim, expiry sweep, two providers | duplicated, reordered and late webhooks; timeouts; idempotency keys | money taken once and reconciled; a refund never exceeds its payment; a captured payment is never lost |
| Coupons, offers, pricing (`cart/`, `offers/`, `marketing/`) | coupon uses, bundle rows | applyCoupon, applyEarnedBundle, discountFor | last use of a capped coupon | a total is what its lines say; a cap holds |
| Admin orders panel (`admin/orders.service.ts`) | the same rows | confirmPayment, releaseHold, refund | races the webhooks | as for payments |
| Admin panel (`admin/`) | products, settings, staff, stock | edits with audit rows; `setInventory` | two editors | a stock edit keeps the movements' balance |
| Auth, account (`auth/`, `account/`) | sessions, second factor, attempts | sign in, rotate, reveal a key | replayed tokens | a revoked session stays revoked; a reveal is logged first |
| Retention (`retention/`) | `Cart.stage`, `CartRecoveryEvent`, reminder rows | the ladder of messages to abandoned carts; the renewal sweep | timers against purchases, a pass that outlives its lock, lost answers | a rung is sent once, none after the purchase |
| Growth and referral (`growth/`) | `ReferralRedemption`, `Promotion`, `PromotionUsage` | attach a friend code, record, clear, reward, expire; welcome and business codes | two sweeps, staff, refunds between statements | one reward a paid order; a code is good once |
| Reviews, subscriptions (`reviews/`, `subscriptions/`) | reviews, invites | invitations, moderation | – | one invitation an order |
| Supplier (`supplier/`) | batches and their rows | import, price, publish | partly published batches | a batch is published once |
| Mail, WhatsApp (`mail/`, `whatsapp/`) | `NotificationLog` | send through a provider, log the outcome | a crash between the two | a logged message was accepted |
| Catalogue, content, media, SEO, analytics, integration, health | their own rows | reads and single-row edits | – | – |
| `apps/storefront`, `apps/admin` | none of their own | user interface over the API | – | – |
| `packages/*`, `workers/jobs`, `agent-os`, `project-management`, `scripts` | – | types, wording, queue names, tooling | – | – |

How they interact: checkout's `markPaid` (one transaction) moves the status
and consumes the holds; after it commits the webhook handler calls
`onOrderPaid`, which is *not* in that transaction. Fulfilment calls the vault
and the mailer statement by statement. The sweeps (`@Cron`) call the same code
as the webhooks. Vault imports and revocations call `recount`. Refunds and
disputes write the order at any moment and tell nobody.

`PROJECT.json` lists every hazard found, at its line, and the properties that
cover it.

## Modules

| Module | Models | Uses |
|---|---|---|
| `OrderStatus` | `ORDER_TRANSITIONS` and `transitionOrder` | – |
| `KeyLedger` | abstract: a key is sold at most once, a line buys at most one | – |
| `KeyDelivery` | abstract: a line's key is bound, emailed, logged, stamped, shown, in that order, after the money | – |
| `CartHolds` | abstract: a cart has one hold, which nobody else ends before its time | – |
| `OrderBook` | abstract: an order is released together with a recorded payment, and counted as sold while its money is in | `OrderStatus` |
| `RefundLedger` | abstract: the total given back grows, never beyond what has really gone, and closes the payment once | – |
| `ReferralLedger` | abstract: a reward is earned, given once and final; a code releases its first order only | – |
| `LadderBook` | abstract: a cart climbs the ladder only, on record with the message that moved it | – |
| `KeyVault` | every statement that changes a `LicenseKey` row | implements `KeyLedger` |
| `Fulfillment` | delivery, one action per statement of a call | `OrderStatus`, `KeyVault`; implements `KeyDelivery`, and `KeyLedger` through the vault |
| `StockHolds` | holds, emptying, drafts, sale, recount of one variant | implements `CartHolds` |
| `Payments` | attempts, webhooks, `markPaid`, refunds, disputes, drafts and their sweep | `OrderStatus`; implements `OrderBook` |
| `PanelRefunds` | several refunds of one Final Processor payment, asked from the panel | `OrderStatus`; implements `RefundLedger` |
| `FriendCodes` | a referral code from the cart to the reward, with its two sweeps | implements `ReferralLedger` |
| `CartLadder` | the abandoned-cart ladder and its passes | implements `LadderBook` |
| `MCFulfillment`, `MCStockHolds`, `MCPayments`, `MCPanelRefunds`, `MCFriendCodes`, `MCCartLadder` | values of the constants that are functions, symmetry | |
| `KeyVault_proofs`, `Fulfillment_proofs`, `SendLock_proofs`, `StockHolds_proofs`, `Payments_proofs`, `PanelRefunds_proofs`, `FriendCodes_proofs`, `CartLadder_proofs` | the theorems | |

Every component has an abstract specification: what it promises, without the calls,
locks, rows and failures by which it does so. Each is a property some run checks
(`SoldAtMostOnce`, `DeliveryKept`, `HoldsAreKept`, `OrderBookKept`, `LedgerKept`,
`ReferralIsKept`, `LadderIsClimbed`) and a theorem (below). An abstract variable is
written in terms of columns, so the INSTANCE in the component's module says which.

`Fulfillment` composes the vault (its actions are conjoined with the pipeline's)
and the status map (`AfterTransition`, `CanTransition`). The stock model meets
delivery only at a payment, and the two share no other row; they are checked
apart. `Payments` and `Fulfillment` meet in the order's row: each has the other's
effect on it as an action of its environment (`Fulfil` there; `PaymentLands`,
`Refund`, `Dispute`, `ReleaseHold`, `CancelDraft` here), guarded by the same map.
That each may take the other so is stated and proved on both sides
(`DeliveryMovesItsOwn`, `CheckoutMovesItsOwn`): `OrderStatus` divides the moves the code
makes into delivery's and checkout's, and the calls of each module make only its own,
while its environment makes only the other's.
`PanelRefunds` is the other half of a refund: `Payments` asks what a refund does to
an order that something else is writing, `PanelRefunds` what several refunds of one
payment do to its total. `FriendCodes` takes `markPaid`, `releaseHold`, refunds and
disputes as whole transactions on an order, and `CartLadder` takes `markPaid` as one
step of the shopper: both read what those transactions left, never something in
between.

### KeyVault

`keyState`, `keyLine`, `keySent` are the columns `state`, `orderItemId`,
`deliveredAt is not null`; `lapsed` the keys whose `expiresAt` has passed. The
vault's own specification lets every statement run at any moment with any
argument. That includes every stale argument a caller can pass, so what holds
of it needs no assumption on the callers. `assign` is three statements
(is something bound, pick an available key, claim it if still free), and its
callers keep the two reads; the unique index on `orderItemId` is the guard
`~IsBound(l)` of the claim. A key is its fingerprint: re-importing a known one
is skipped. The code has no caller for `expireStale` today; it is modelled
because it is part of the vault's interface.

### Fulfillment

A worker is a call in flight, and `job[w]` its local variables: where it
stands, the line and key in hand, the line states read at the start, the lines
it still has to work, the lines it claimed for sending, and what
`refreshOrderState` has counted and read. One action is one statement against
the database or the mail provider:

- `OnOrderPaid` reads the order and its lines; `QueueMadeToOrder`,
  `AssignLookup`, `AssignPick`, `AssignClaim`, `QueueShort`, `AdoptKey` are the
  loop body; `LinesDone` goes to the first refresh; `AutoDeliver` takes the
  next claimed line and its advisory lock, or skips a busy one.
- `Gate`, `AskBound`, `AskLogged`, `MailAccepted` or `MailRefused`,
  `RecordMail`, `StampKey`, `FinishLine`, then the refresh and `Unlock`, are
  the send of an assigned line, by the pipeline or by staff
  (`DeliverAssigned`).
- `CountLines`, `ReadStatus`, `MoveOrder` are `refreshOrderState`.
- `FulfilManually`, `StorePasted`, `Requeue`, `MarkFailed` are the staff acts
  that do not take the lock.
- `PaymentLands`, `ReleaseHold`, `CancelDraft`, `Refund`, `Dispute` are what the
  rest of the system does to the order's row, each the effect of one committed
  transaction there. `Crash`, `SendThrows` and `Overrun` are the failures: a
  killed process or an exception, an exception caught by `autoDeliver`, and a
  send that goes on after the transaction that carries its advisory lock hit
  its time limit.

Left out: the order-received email and the explicit resend of a licence (a
person asking for a second email is not a duplicate); audit rows; lines of
more than one unit (the vault binds one key to a line, and a line of several
units goes through the same statements); several variants (all keys are of
one); `COMPLETED` and `FAILED`, which the map has and no code writes.
`sends` counts to two, "more than once". `AskLogged` asks the log by line only: the
code's query (`fulfillment.service.ts:1060`) also compares the address, which changes
only when a draft is rewritten, and that creates the lines anew, and asks that the
message did not bounce, which nothing records for an email.

### StockHolds

One variant, its inventory row, its holds, each cart's line, the drafts and the
sale. Requests are workers again, but here the code uses transactions: what one
writes becomes visible in its last action, and the rows it has locked until
then are in its job (`InventoryFree`, `RowsFree`, `OrderFree`). A transaction
is split exactly where what it has read may go stale.

- `AskHold`, `FindHold`, `CountHolds`, `WriteHold` (or `WriteHoldFails`, `LineIsGone`)
  are `hold` with the cart line it is for. `FindHold` locks the inventory row, sweeps
  the lapsed holds and reads the cart's own hold without locking it; `CountHolds` sums
  what is live by then and decides the grant; `WriteHold` updates the hold by its id
  without asking for its state, so that one released in between stays released. The
  inventory row is locked from the second to the fourth.
- `Empty`, `FindHolds`, `ReleaseHolds`, `EmptyCart` (or `EmptyCartFails`) are
  `clear`/`releaseAll`, which takes no inventory lock.
- `ReadCart`, `FindDraft`, `WriteDraft` are checkout's draft.
- `TakePayment`, `Sell` (or `SellFails`) are the stock part of `markPaid`.
- `ReadLevel`, `WriteLevel` (or `WriteLevelFails`), `LogRecount` are `recount`,
  which is no transaction at all.
- `Lapse` is the clock, `Renew` another change to the cart, `Abort` any request
  that ends half-way. A deadlock that PostgreSQL would break is an `Abort`.

The CHECK constraints (`migrations/20260909120000_init/migration.sql:1664`) are
`Legal`. "PAID" stands for paid or in review: both take the stock. Cancelling
a draft belongs to `Payments`. A line that was deleted and added again
counts as the same line in `LineStands` (the real id would differ; the failing
outcome is the same as `Abort`). The variant is sold from stock and its supplier has
it: `hold` answers the other two kinds before it takes any lock
(`cart/reservations.ts:114`, 121).

### Payments

Per order its status, risk level, amount (`cost`, a version of the draft), what
`countSale` has added (`sales`) and whether staff were left a note (`flagged`);
per attempt its `Payment` row and whether a `Refund` row exists; and, outside the
store, what the provider knows: `remote`, the amount it was opened at, how much
it has given back, and the events it has to report. An attempt is through Stripe
(`Card`), through Final Processor (`Hosted`) or a bank transfer (the others). A
worker is one request, webhook delivery or sweep; the transactions are split
where what they have read may go stale.

- `Capture`, `Decline`, `GiveBack`, `OpenDispute` are the providers. Each event
  is delivered any number of times, in any order, until a delivery of it has
  reached `Finish` (`beginWebhook`, `finishWebhook`); two deliveries of one event
  may be worked at once, as `beginWebhook` only refuses an event already
  processed.
- `CompareHosted`, `ReadOrder`, `Commit`, `FlagClosed` are a payment: Final
  Processor's comparison of the amounts and its account of what went back, then
  `markPaid`'s reads, its writes under a compare-and-set, and the note on money
  for a closed order. `CommitFails` is the other end of `markPaid`: the sale breaks a
  CHECK of the shelf and everything is rolled back, the record of the payment too
  (`StockHolds` shows when; here it is a free choice). `CheckStatus` (the buyer's return page) and
  `ConfirmPayment` (staff, for a transfer) start the same steps.
- `Fail`, `CountOthers`, `CloseDraft` are `markPaymentFailed` and `applyFailure`.
- `ReadForRefund`, `Credit` are `applyRefund`, `applyRefunded` and
  `recordRefundOutcome`; `AskReturn`, `RecordReturn` the refund of a transfer by
  staff; `Block` is `applyDispute`; `AskLift`, `Lift` are `releaseHold`.
- `Pay`, `OpenIntent`, `OpenSession`, `RecordAttempt` open an attempt, with
  Stripe's idempotency key (order and amount: the same intent comes back) and
  Final Processor's one live payment an order. `FindDraft`, `RetireDraft`,
  `ListIntents`, `CancelIntent`, `RecordCancel`, `AfterCancel` rewrite a draft,
  with `cancelOpenIntents`; `FindStale` is the expiry sweep, which uses the same
  steps and `CloseDraft`.
- `Fulfil` is the delivery pipeline, `Crash` a call that dies.

A row that a refund has written stays locked until the refund commits
(`RowIsFree`). Left open, as a free choice: a spent coupon and a sandbox payment
(both hold the order), the card network's risk level, whether the mail log has a
transfer's details. Left out: the panel's own refunds through a provider (`PanelRefunds`); the day
after which Stripe forgets an idempotency key; amounts of refunds beyond part and
whole; the draft's lines.

### PanelRefunds

One payment through Final Processor and the refunds that can be started of it. On
the store's side: `status` and `sales` of the order, `state` and `total`
(`refundedUsd`) of the payment, per refund its row's status and amount, and which
rows have a `providerRef` (`known`). On the other side: what the processor has made
of each refund, and the events it has to deliver, each with the payment's refunded
total at that moment. The row's id is the reference the processor is asked with, so
a retry of an unconfirmed refund names the same refund.

- `StartRefund` is the cap (`checkout/fp-payments.service.ts:841`); `RetryRefund`
  is the branch before it, for a row without an answer. `CreateRow`, `Ask`, `Hear`
  (or `Lose`, `RecordRefusal`) are the request; `RecordAnswer`, `AddUp`, `ReadToSettle`,
  `Settle` are `settleFromRows` and what comes before it. `AddUp` is apart from the
  write because two transactions add up rows neither of which sees the other's.
- `Deliver`, `ReadToApply`, `ApplyRefunded`, `ApplyRefundFailed`, `Note`, `Finish` are
  the processor's events, delivered any number of times in any order until finished.
- The order's status is read in `ReadToSettle` or `ReadToApply` and compared in
  `Settle` or `ApplyRefunded`. `OthersMove` is what the rest of the system does to it
  in between: delivery's moves, and staff who release a hold. `lost` remembers that a
  refund ever lost that compare-and-set.
- `Dashboard`, `Complete` are the processor. `strict` says whether it refuses what
  exceeds the payment's balance by itself. Staff may press the button at once;
  `overlapped` remembers that two requests were under way together.

### FriendCodes

A `Code` is a `ReferralRedemption` with its `Promotion`; each cart drafts one order,
which goes by the cart's name. `AttachToCart`, `Mint` (or `MintRaced`), `PutOnCart`
are `attachToCart`, a statement at a time; `ApplyCoupon` is a shopper with somebody
else's code. `Draft`, `TakePayment`, `CancelDraft`, `ReleaseHold`, `Refund`, `Dispute`
are the order's transactions, with `TakeUse` the conditional count of a use
(`checkout.service.ts:887`). `StartSweep`, `RecordPaid`, `StartClear`, `Void`,
`Reward`, `EndSweep` are the referral sweep: each batch is read at once and worked row
by row on what was read. `StartExpiry`, `Expire` are the other sweep, `Approve` and
`Reject` staff, `Lapse` and `Ripen` time. `back[k]` is a history variable: whether
money first went back before or after the refund window passed.

Left out: an advisory lock that is outlived (see the limits), orders that carry no
code, a second order from one cart, the amounts, and how suspicion is computed (a
friend who is the referrer and a flag are free choices of `RecordPaid`).

### CartLadder

The carts of one address. `stage` is `Cart.stage`; `idle[k]` counts the rungs whose
delay has passed since the cart was last touched, and `quiet[k]`, `clock` count the
address's payments, which is all that "paid since it went quiet" compares. A payment
leaves its order in `counted`, the statuses the ladder takes for paid
(`cart-recovery.service.ts:107`), or in `held`, PAYMENT_REVIEW, which is not one of
them; `Release` and `Refund` move it on. A pass
(`StartPass`) reads the due carts with their rung and channels, then for each
(`Take`): `Check` asks again whether anything was bought, `Close` or hold it out, or
`Mint` the rung's code, `Accepted`/`Refused` on WhatsApp and then email, `Withdraw`
the code when nothing went, `Advance` the stage by a compare-and-set together with the
event row. `Return`, `Pay`, `BuyElsewhere`, `Wait` are the shopper and the clock.
`AnswerLost`, `Throw`, `Crash` and `Overrun` are the failures, `MaxFaults` of them in
all. `sent` and `late` are history variables: the messages that left for each rung,
and those that left while an order counted against the cart.

## Runs

| Run | Instance | Shows |
|---|---|---|
| `vault` | 3 keys, 2 lines, 1 key with a deadline | typing, stock untouched, and `KeyVault` implements `KeyLedger`: a key is sold once, a line holds one key |
| `delivery_race` | 1 order of 2 stocked lines, 1 key, webhook + sweep/staff at once, no crash, no overrun | FULFILLED means that every line was sent, nothing is sent twice, and delivery moves an order only as it may |
| `delivery_crash` | a stocked and a made-to-order line, hand delivery, one crash or exception anywhere, locks that may overrun | nothing before the money; an assigned line holds its key; delivery implements `KeyDelivery` even then |
| `delivery_live` | 1 line, sweep + webhook, one crash or exception anywhere | a paid line is worked in the end; a lock is released; an email on record is not sent again by the retry |
| `shelf_race` | 2 carts, 2 requests, 2 units, 3 hold rows, recounts; no order, no emptying | holds are those of `CartHolds`, honest refusals, the counter equals the sum, no CHECK is hit |
| `shelf_sales` | the same with an order, payments and emptied carts, without recounts | stock is taken once, movements balance |
| `payments` | 1 order with a card, a hosted session and a transfer, 2 calls, 3 events, one amount | money stays on record, no order awaits money it has, disputes are seen, and checkout implements `OrderBook` |
| `payments_live` | 1 order, a hosted session, 2 calls, 2 events, 2 amounts, one crash, rollbacks by the shelf | captured money ends on record or before staff, unless the shelf refuses the sale for ever; a closed order's money is flagged |
| `panel_refunds` | one payment of 2 units, 2 refunds, 2 calls, one crash, delivery moving the order, a processor with or without a check of its own | never more back than was paid, but for overlapping requests without a check; the books are those of `RefundLedger`, and agree once events and calls are through, the order's too unless a compare-and-set was lost |
| `friend_codes` | 1 code, 2 carts, 2 calls, one crash | a reward is earned and given once; the rows are those of `ReferralLedger` |
| `cart_ladder` | 1 cart, 2 passes, 2 rungs (the second with a code), 2 payments, orders held, released and given back, 1 fault | a rung is written once but for the fault; who has an order that counts as paid is left alone; the record is that of `LadderBook` |
| `payment_is_taken` | 2 carts, 1 request, 1 unit, an order | what the repository says of itself and the code does not do; see below |

Bounds, and why they are enough to show something:

- *Two workers.* Every race the properties are about is between two statements of
  two calls: each pair of call kinds meets in every interleaving. A third is
  beyond the runs; the theorems hold for any number.
- *One key for two lines* in `delivery_race` makes the vault short for one of
  them, and gives each line the chance to be that one; the key may lapse.
- *`MaxCrashes`* = 1: what one lost call leaves is met by calls that see it
  whole.
- *Two units, lines of up to two, three hold rows*: enough for a grant that is
  reduced, a refusal, a lapsed hold beside two live ones. Rows are not reused,
  as in the code; `RowsLeft` stops new requests when the rows might run out, and
  `MaxTruth` bounds what the vault reports to a recount and the net units
  recorded.
- *Three events* (`MaxEvents`) in `payments`: a success, then a refund and a
  dispute, or a failure, of the same or another attempt, in any order of delivery.
  `MaxCost` = 2 in `payments_live` gives the draft that changes its amount and the
  payment that no longer fits; one amount is enough where mismatches come from
  the free choices of `ReadOrder`. `payments` has no crash: a dead call leaves its
  event unprocessed, which is what a redelivery beside a slow call meets too, and
  `payments_live` has one.
- *Two refunds of two units* in `panel_refunds`: two part refunds that fit together, a
  whole one and one that no longer fits, and one from the dashboard beside one from
  the panel. `Paid` = 2 is the least that tells part from whole.
- *One code, two carts* in `friend_codes`: the owner's cart and another that carries
  the same code, so that both pay with it. One code says nothing of two redemptions
  that meet in an order; that part of `RewardIsEarned` is shown by the proof.
- *One cart, two rungs, one fault* in `cart_ladder`: a rung may be skipped, and a pass
  may die, lose an answer or outlive its lock beside another pass. `MaxClock` = 2: the
  cart's own payment and another one. Carts do not share rows; the proof has any number.
- *Conditions inside properties.* `BooksAgree` (`~lost`), `NotOverRefunded`
  (`~overlapped`) and `PaidIsLeftAlone` (an order that counts) meet both sides of their
  condition in their runs. `ReservedIsSum` and `RaceIsNoError` except carts being
  emptied and orders paid, and `shelf_race` has neither, by its constants: there they
  hold plainly, and that the condition suffices is the theorem's. Every property is
  broken by a mutant inside its run's bounds.

Symmetry is used where every property is a safety one. `friend_codes` and
`cart_ladder` check for deadlock. The other runs set `CHECK_DEADLOCK FALSE`: there the
system rests when nobody calls it and the bounded environment has nothing left to do.

### Fairness

`delivery_live` assumes that the stranded-order
sweep, a timer of every five minutes, in the end starts a call for a stranded
order, and that a started call goes on (weak fairness of `Proceed(w)`: a
statement either returns or throws, and a throw is `Crash`). Nobody is obliged to
pay, to press a button or to call back, and the mail provider may refuse for
ever.
`payments_live` assumes that a started call goes on, and that a provider delivers
a payment's success again until a delivery is answered (strong fairness of
`Deliver` for that event: both providers retry what was not answered with success,
and the handler answers an error when it fails). Nothing is assumed of other
events, of buyers, of staff or of the shelf: `CapturedIsApplied` itself is about orders
whose sale the shelf stops refusing (`ShelfHasRoom`).

## What is proved

TLAPS proves the following for any numbers of keys, lines, orders, workers,
carts and rows, under the named ASSUMEs of the modules (the constants' types, and
that the "no ..." values are outside their sets).

- *Vault* (`KeyVault_proofs`): `VaultTyping`, `VaultOneKeyPerLine`,
  `VaultStockIsUntouched`, `VaultOnlyImportStocks`, and the refinement
  `VaultSellsOnce`. Typing, one key per line and untouched stock are each
  inductive once typing is known.
- *Delivery* (`Fulfillment_proofs`): `TypeCorrect`, `DeliveryMovesOnlyItsOwn`,
  `NothingBeforeMoney`, `DeliveredMeansSent`, `DeliveredKeyMeansSent`,
  `AssignedMeansBound`, `FulfilledMeansSent`. These hold with crashes, overruns and hand deliveries. None of them is inductive by
  itself, because a call carries a decision from one statement to a later one.
  The invariant is `Delivery`: `Typing` (which also says what a call of each kind
  holds at each step), `Truth` (the properties) and `Backed(w)` for every
  worker: a call past the gate is on an order whose money is in, a call past the
  email has sent, one past the record is in the log, one that counted "all" has
  every line of its order sent. `Gains` makes it inductive: money in, an email
  sent, a log row and a bound key are never lost, so what backed a call still
  backs it after anybody else's step.
  `DeliveryKeepsPromise` shows that delivery implements `KeyDelivery`. Its invariant
  adds `FinishIsStamped`: a call about to show its line delivered has stamped the line's
  key. Each action is then one step of the promise or none, by whether it moves the
  status, the line's state, the mail or the keys (four lemmas).
  `DeliverySellsOnce` composes the two refinements: since delivery only ever takes steps
  of the vault (a lemma, by the shape of its actions), whatever the vault promises (`KeyLedger`, one key
  per line, untouched stock) holds of the whole.
- *The lock* (`SendLock_proofs`): `OneSender` with no overrun;
  `RecordedIsNotResent` with no hand delivery as well; `NobodyIsSentTwice` with no
  crash as well. The invariant says that a sender holds its line's lock, and
  ties `sends`, the log and the place of the sender together. Each assumption
  is needed: without it TLC finds the duplicate (see the known limits).
- *Holds* (`StockHolds_proofs`): `StockTyping`, `OneLiveHold`, `SoldOutIsTold`,
  `StockIsTakenOnce` without further assumptions; `CounterIsSum`
  (its property already speaks of unsold shelves without emptied carts only);
  `LedgerIsBalanced` when the shelf is not recounted; `RacesAreAnswered` when it is
  not both recounted and emptied, which is where the code does fall short (see the
  known limits). `Sum` counts units, pairs of a hold and a number up to its
  quantity, so that what a sum does when a hold is added, dropped or changed follows
  from the library's facts on finite sets (rows and orders are finitely many, by
  assumption), with no induction. Six invariants, each built on the ones before:
  `Holding` (one request at most is between counting and writing, and what it is about
  to write covers the live hold its cart has), `Typed` (types, and what a request of
  each kind holds at each step), `Sales` (one payment of an order is past its
  compare-and-set at a time, only paid orders have sold, shelf and movements add up),
  `Owned` (a request writes its own cart's rows, and the hold it has found keeps the
  quantity it was read with), `Counter`, and `Room`: the live holds fit on the shelf, and so does
  what a request is about to write beside the holds it will leave alone, which is why
  its recomputed sum cannot break the CHECK.
  `HoldsStand` shows that stock keeping implements `CartHolds`, again without further
  assumptions. It needs one more invariant, `Swept`: what a request is about to sweep
  has lapsed, and stays so because its rows are locked; what a payment is about to
  consume belongs to its own cart.
- *Payments* (`Payments_proofs`): `PaymentsTyping`, `MoneyStaysOnRecord`,
  `ReceivedIsApplied`, `SalesAreCounted`, `ClosedOrdersAreFlagged`,
  `DisputesAreSeen`, with crashes and any bounds. As in delivery, a call carries
  what it has read. The invariant is `Typed` (types, and what a call of each kind
  holds at each step) with `Books`: the sale count follows the status, a row
  recorded as received has a moved order, dealt-with money is on record, hosted
  money is told to staff, and `Told(w)`, what a call that is about to finish its
  event has already written. `Grows` makes it inductive: an order never returns
  to PENDING_PAYMENT, one sold or refunded stays so, a row once SUCCEEDED or
  REFUNDED stays one of the two, and a note on an order stays.
  `CheckoutKeepsBook` shows, from the same invariant, that checkout implements
  `OrderBook`: an order is released only in the step that records its payment, every
  other change of its status is a move of the map, and the sale follows the status
  (`SalesAreCounted` is that part as an invariant). `CheckoutMovesOnlyItsOwn` is the
  counterpart of delivery's `DeliveryMovesOnlyItsOwn`; it needs what a staff return has
  read (`Told`), since that write names no status of its own.
- *Refunds* (`PanelRefunds_proofs`): `RefundTyping`, `NeverOverRefunded`,
  `RefundsAreReal`, `BooksEndUpRight`, for any payment, number of refunds, requests and
  crashes. `Sound` is the invariant of the first three: `Faithful` ties each row, answer
  and event to the processor (a SUCCEEDED row has a refund that succeeded, an event's
  total is no more than what has gone back, a sum a call has decided on is covered), and
  `Blind`, for a processor that does not check and as long as requests have not
  overlapped, keeps the store's cap: at most one request is past it, and what it will ask
  for fits beside every row that is not FAILED.
  That the books *agree in the end* follows an event from the queue to the books, and
  the invariant `Kept` adds what that takes: amounts are of some money
  (`AmountsAreReal`), the processor's latest total and each of its rejections are in an
  event (`NewsIsOut`), an event that was worked left its mark (`NewsIsWorked`), the
  payment shows what its total says, and so does the order unless a compare-and-set was
  lost (`BooksAreOne`), and what a transaction has read of the order is stale only by the
  moves of others (`ReadsAreTrue`): the payment's row, locked while its total rises,
  keeps two refunds apart. `RefundsKeepLedger` shows from it that the refunds implement
  `RefundLedger`, which lets an entry miss the order and a later one catch up.
- *Referral* (`FriendCodes_proofs`): `ReferralTyping`, `RewardsAreEarned`,
  `CodesAreReleasedOnce`, for any codes, carts, calls and crashes. The invariant
  `Earned` says that one sweep runs at a time, that what a batch says of a row is still
  true when the row is worked (a cleared order is ripe, and nothing had gone back
  before that), that two rows never name one order, and that a use counted is the one
  instant payment.
  `ReferralsKeepLedger` shows that the programme implements `ReferralLedger`: a reward is
  never moved, taken back or given again, although `recordPaid` writes the status
  without asking for it. Two facts are added (`Booked`): every use is counted, so only
  the first order finds the code free, and an order that was paid used its code.
- *Ladder* (`CartLadder_proofs`): `LadderTyping`, `RungsAreSentOnce`,
  `PaidAreLeftAlone`, for any carts, rungs up to four, passes and faults. The invariant
  `OnTrack` is a budget: the pass with the lock has one message to send for a rung that
  is due; each pass without it has cost a fault, and may spend that once per rung, on a
  message or by moving a cart on under the pass that holds the lock. `PaidAreLeftAlone`
  is about the orders the code counts as paid; a held order is no part of it.
  `LadderKeepsBook` shows from it that the ladder implements `LadderBook`, with any
  number of passes that outlive their lock: the compare-and-set moves a cart from the
  rung it was read on to a later one, and an event row is of a message that went.

The refinements are proved step by step: initial states map to initial states, and under
the invariant every step maps to a step of the abstract specification or leaves its
variables alone; LS4 puts the two together. Some theorems state an invariant that a
refinement implies on a run (`OneLiveHold`, `DeliveredMeansSent`, `SalesAreCounted`,
`RefundsAreReal`, `VaultOneKeyPerLine`, `CodesAreReleasedOnce`); no run checks these a
second time. `VaultOnlyImportStocks`, `DeliveredKeyMeansSent` and `OneSender` have no run
of their own, and neither has `CheckoutMovesItsOwn`.

Every safety property of the passing runs is proved. The liveness properties
`PaidLineIsWorked`, `LockIsReleased` and `CapturedIsApplied` are only model-checked:
fairness and ENABLED are outside the prover's reach.
`PaymentIsTaken` is false of the code and has its counterexample instead.

## Where the code and its words differ

`PaymentIsTaken` has a run whose counterexample is a behaviour of the code: a hold
lapses, another cart takes the last unit, and the late payment fails on
`CHECK (reserved <= onHand)`, on every retry, although `sellUnheld` is guarded so that
this cannot happen (`checkout/orders.ts:147`).

Known limits of the promises that do hold, and places where the code
falls short of its words that have no run of their own.

Delivery and vault:

- `onOrderPaid` writes MANUAL_QUEUE without a condition on the line
  (`fulfillment/fulfillment.service.ts:258`), so a line another call delivered
  since it was read goes back to the queue; the comment at 190 says it is left
  alone. The key is not sent twice by the automatic path (`SentOnce`).
- Two deliveries of an order's last two lines at once may leave the order PAID
  or FULFILLING with every line DELIVERED: the losing compare-and-set of
  `refreshOrderState` is dropped (`fulfillment.service.ts:1200`).
- The stranded-order sweep looks for PAID orders only
  (`fulfillment/stranded-sweep.service.ts:56`): an order a hand delivery moved to
  FULFILLING keeps its other PENDING line if the call working it died.
- A key revoked while it is bound to a line is still sent: the send looks the
  key up by its line and ignores its state (`vault/vault.service.ts:416`).
- A refund or a dispute that lands between the gate and the email does not stop
  it; `NoKeyBeforeMoney` says *money was in*, not *money is still here*.
- A crash between the provider's acceptance and the log row makes the next call
  send again (`SentOnce` with `MaxCrashes = 1`), and so does a hand delivery next
  to a send (`HandLines # {}`) and a send that outlives its lock.
- The sweep takes the twenty oldest (`fulfillment/stranded-sweep.service.ts:61`):
  twenty orders that fail every time keep later ones out. `PaidLineIsWorked` is
  checked with one order.

Payments and stock:

- Captured money of an order whose sale the shelf refuses is neither applied nor brought
  before staff, as long as it refuses: each delivery of the event rolls back
  (`checkout/checkout.service.ts:933`, `checkout/orders.ts:169`). This is `PaymentIsTaken`
  seen from the payment, and what `CapturedIsApplied` excepts.
- A payment writes its own risk level with the order's move
  (`checkout/checkout.service.ts:874`), over the BLOCKED of a dispute that reached the
  draft first. `DisputeIsSeen` is about orders that have left PENDING_PAYMENT.
- A line may stand on a RELEASED hold, after two adds and a clear of one cart. `hold`
  reads the cart's hold without locking it (`cart/reservations.ts:130`) and writes it by
  id (147). A `clear` that saw nothing held when it looked (189), because the first add
  committed after that, takes no inventory lock: it can release the first add's hold and
  delete its line between the second add's read and its write, and the second add then
  makes the line anew over the released hold. `Granted` is that write.
- "Every read-then-write takes `SELECT ... FOR UPDATE` on the inventory row first"
  (`cart/reservations.ts:13`) is not so of `releaseAll`, which sums and writes `reserved`
  without that lock.
- A draft found before a payment is rewritten after it
  (`checkout/checkout.service.ts:258`): the rewrite has no condition on the
  status.
- Stripe's money for a cancelled order is recorded, but no note tells staff:
  `ClosedOrderIsFlagged` is claimed for Final Processor.
- `markPaid` reads the payment's row before it writes it, so a refund committed
  in between is overwritten with SUCCEEDED (`checkout/checkout.service.ts:755`).
- A refund whose compare-and-set is lost is on the payment but not on the order
  (`checkout/order-status.ts:165`), which may go on to delivery with its sale still
  counted: `LedgerKept` and `BooksAgree` say so (`lost`); and the full refund of a duplicate payment moves
  the whole order to REFUNDED (`checkout/refund-outcome.ts`).
- `consumeHolds` writes the holds it read by id without asking their state
  (`checkout/orders.ts:68`): one that ended meanwhile becomes CONSUMED and leaves
  `reserved` a second time. `releaseAll` writes a stale sum. `ReservedIsSum` is therefore claimed for carts that are not
  emptied and before the first sale.
- `recount` is not a transaction, so its movement can disagree with what it
  changed: `LedgerBalances` is checked without recounts.
  `setInventory` (`admin/admin.service.ts:491`) has the same shape: it reads the
  level, refuses to go below what is reserved, writes and logs, in separate statements.
- A lapsed hold on the last unit is swept only by a request for that variant
  (`cart/reservations.ts:23` says it never keeps a sellable key off the shelf); the
  product page counts it as reserved (`catalog/catalog.service.ts:113`) and so nobody asks.
- With Stripe's refund event before its success event the order is paid and its keys
  go out: `markPaid` holds the money only when told `refunded`
  (`checkout/checkout.service.ts:719`, 863), and Stripe's handler does not say so
  (`checkout/checkout.controller.ts:399`).
- A declined card leaves its row FAILED and its intent payable
  (`checkout/checkout.service.ts:970`), and `cancelOpenIntents`, which is to leave one
  payable intent (657), looks for PROCESSING rows only (666).
- A cart whose total goes X, Y, X is given the cancelled intent of the first X again,
  by the idempotency key (`checkout/stripe.service.ts:96`).
- Order numbers are compared as strings (`checkout/orders.ts:33`): past five digits the
  largest is no longer the last.

Refunds from the panel:

- An answer is written over whatever the row holds by then: a late "pending" takes a
  row back from SUCCEEDED or FAILED, and a refund the processor took up may be
  recorded FAILED by a late write. The payment's total and the order do not follow the
  row back (`NotOverRefunded` and `LedgerKept` hold through it).
- Two staff who press the button at once both pass the cap
  (`checkout/fp-payments.service.ts:841`); only the processor's own balance check is
  left. `NotOverRefunded` excepts overlapping requests to a processor without one.

Friend codes:

- The code on an order is looked up by its name and `isActive` alone
  (`checkout/checkout.service.ts:172`): a code that lapsed or was used up since it was
  put on the cart is carried by the draft. The second payment with it is held, a
  lapsed code's is not. The expiry sweep spares a code on an open draft, but a code it has
  already chosen may be drafted before the sweep's write.
- A refund that lands between the clearance batch and its reward leaves the reward:
  `RewardIsEarned` is about money that went back before the window passed.
- `recordPaid` writes PENDING without asking for the status, so a rejection by staff
  that lands after its batch was read is undone.
- The sweep's advisory lock ends with its time limit (`common/advisory-lock.ts:54`); the
  model's does not. A sweep that outlived it could put a rewarded row back to PENDING and
  reward it twice.

The ladder:

- "It will not write to somebody who has since paid" (`retention/cart-recovery.service.ts:50`)
  is not so while the order is held: PAID_STATUSES (107) leaves out PAYMENT_REVIEW, where
  `markPaid` puts a held order. A buyer whose other order waits for staff gets each later
  rung, and one whose money was given back whole does too. The cart that was paid for is
  closed by `markPaid` itself.
- The consent is looked at "again" on the row read before
  (`retention/cart-recovery.service.ts:266`), so an opt-out after the query is missed.
- CLOSED is written without a condition (line 260) and may replace RECOVERED.
- A message that went and whose compare-and-set is lost has no event row; one whose
  answer is lost has its code withdrawn although the customer holds it.

## Not modelled

The map covers a small share of the repository's lines. Most of them are user
interface, two languages' wording, mail templates, catalogue queries and single-row
edits, in which nothing races and nothing is decided over several steps. What was left
out on purpose, and why:

- *Storefront, admin application, packages, tooling*: no state of their own that the API
  does not check again.
- *Catalogue, content, media, marketing, analytics, studio, reviews' moderation*: reads,
  and edits of one row in which the last one wins.
- *Renewal and review reminders* (`retention/renewal-sweep.service.ts`, `reviews/`): one
  rung of the ladder's shape, with a unique row where the ladder has a stage; a model
  would repeat `CartLadder`.
- *Auth and sessions, reveals of a key*: the correctness of tokens, hashes and attempt
  limits is cryptography and single conditional writes.
- *Prices, offers, coupons' arithmetic*: decimal arithmetic over one cart, without
  interleaving, which its unit tests cover. A coupon's use count is in `FriendCodes`.
- *Supplier batches*: a long import with no concurrent writer but a second operator.
- *WhatsApp and mail transport, queues, infrastructure*: external; what they do to a
  caller (accept, refuse, lose the answer) is in `Fulfillment` and `CartLadder`.
- *Within the modelled parts*: lines of several units in delivery, several variants in
  one cart (and so the order in which inventory rows are locked), `setInventory`, the
  second mail of a licence on request, welcome and business codes.
