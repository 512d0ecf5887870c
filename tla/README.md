# Formal models of the eSIM shop

These modules specify the parts of the shop where money, goods and a customer's
account change hands: store credit, settlement of payments, fulfilment of orders,
who owns a line, coupons and prices, both kinds of subscription, invitations, saved
cards, the support desk and the closing of an account. They are written from the
code under `src/`; TLC checks them on small instances and TLAPS proves the central
properties for every instance. File names below are relative to `src/apps/` unless
they start with `src/`.

    tlc -config MCSettleCard.cfg MCSettlement.tla     # one check
    tlapm WalletProofs.tla                            # proofs of one component

## 1. The system

A Django application (gunicorn, several workers) over PostgreSQL at READ COMMITTED.
There is no request-wide transaction: a statement outside `transaction.atomic()`
commits on its own. A cron job every twenty minutes runs `renew_subscriptions`,
`sync_usage`, `retry_orders` and `expire_coupon_holds` one after another, another one
syncs the catalogue at night; the same commands can be started over HTTP and by a
deployment, so two runs may overlap. Stripe and NOWPayments report payments by
webhook, more than once and in any order; the Yesim API issues and tops up eSIMs and
is outside every transaction.

| Component | State | Operations | Talks to |
|---|---|---|---|
| Wallet ledger (`wallet/models.py`) | balance, append-only movements | credit, debit, each in the caller's transaction | called by top-ups, checkout, subscriptions, referrals |
| Settlement (`payments/services.py`) | payment rows: status, settled, sum that arrived | settle, decline, IPN handling, operator's settlement, on-commit hooks | order, top-up, coupon release; fulfilment after commit |
| Top-ups and invitations (`wallet/services.py`, `accounts/referrals.py`) | top-up status, inviter, payout row | credit once, bonus, apply a code, reward the inviter once | wallet, payments |
| Buying from the balance (`orders/views.py`, `api/views.py`) | order status, seat, balance | POST, redeem, debit, give back, report the sale | wallet, coupons, fulfilment |
| Fulfilment (`orders/services.py`, `orders/admin.py`) | order status, error, attempts; eSIM rows | fulfil, retry sweep, admin actions | Yesim API |
| Lines (`orders/gifting.py`, `orders/services.py`, `api/views.py`) | owner, recipient, what a line shows | provision, gift, claim, refresh, top up, rename, erase | accounts, Yesim API |
| Coupons (`coupons/services.py`, sweeper, admin) | counter, one row per seat | validate, redeem, release, expire holds, admin form | checkout, settlement |
| Balance subscriptions (`subscriptions/services.py` 735-930) | status, end of period, cancel flag, cycles | start, renew, past due, cancel, resume | wallet, fulfilment |
| Card subscriptions (`subscriptions/services.py` 150-735) | the same, as Stripe's events tell it | four event handlers, start a cycle, provision | Stripe, fulfilment |
| Subscribing and account deletion (`subscriptions/views.py`, `accounts/deletion.py`) | attempts, Checkout sessions, mandates | subscribe, prune, cancel at Stripe one by one, erase | Stripe |
| Saved cards (`payments/inapp.py`, `api/views.py`) | the Stripe customer on an account or a telephone | payment sheets, claim of a device, forget a card | Stripe |
| Catalogue and prices (`catalog/`, `subscriptions/catalogue.py`) | plans with cost, price, override; figures of a destination | sync, reprice, lists of plans in the admin, price formulas | Yesim API |
| Support (`support/views.py`, `support/admin*.py`) | conversations, unread badge; tickets | post, poll, escalate, take over, answer, open, reply, close | a language model |
| Accounts and sign-in, content, API plumbing and the rest | see section 8 | | |

What is hard, and what is therefore specified:

* **Stale rows.** Many handlers read a row without a lock, decide, and save it, some
  of them whole: the IPN handler, the card subscription's handlers, usage refreshes,
  the sync of the catalogue, the admin's forms and actions, the renewal's copies.
* **Two steps that are one in the reader's mind.** Cancelling an order and freeing
  its seat; debiting a period and moving it on; giving a customer to an account and
  taking it off the telephone; committing and running the on-commit hook. A worker
  can die in between.
* **The outside world does not roll back.** The provider may have acted although its
  answer was lost, or although the transaction around the call failed; mandates are
  cancelled at Stripe before the transaction that erases.
* **Repetition and disorder.** Webhooks come again and late; sweepers, return pages
  and webhooks all arrive at the same order; a click is sent twice.
* **Limits and roundings.** A cap on seats, a batch limit in a sweeper, a tolerance
  for underpaid invoices, a grace period, prices that end in .49 or .99.

What makes each component correct: the ledger adds up and is never negative; a
payment settles once, only when funded, and what it bought is handed over once and in
the end; the provider acts once per sale and only for paid orders; a line belongs to
whom it was bought for; a seat is counted once and comes
back; periods tile and a paid period is delivered; a mandate stops before its account
is gone; one row names a card's customer; a price covers its cost; a customer who
wrote last is not filed as answered (which the code does not keep, section 5).

## 2. Modules

| Module | Models | Used by |
|---|---|---|
| `Wallet` | `Wallet._apply` inside callers' transactions: the row lock is held until the outermost transaction ends, the draft is what it wrote so far | `MCAccount`, `WalletProofs`; instantiated by `Referral` |
| `SalePromise` | abstract: fund, settle, hand over | instantiated by `Settlement`, `SettlementProofs` |
| `Settlement` | `settle_payment`, `process_nowpayments_ipn`, Stripe's success and decline, forced settlement, `credit_topup`, the hooks, the sweeper of what they left, `_expire_hold` | `MCSettlement`, `SettlementProofs` |
| `Referral` | entering a code, crediting a top-up with its bonus, `pay_referral_if_due`; its ledger steps are steps of `Wallet` | `MCOffers`, `AccountProofs` |
| `Purchase` | the POST that pays from the balance (web and app), the order page that reports the sale | `MCBuying`, `OrderProofs` |
| `Fulfilment` | `fulfill_order` (`_provision_new`, `_topup`), `retry_failed`, admin actions, the provider | `MCFulfilment`, `MCBuying`, `MCOrders`, `OrderProofs` |
| `Lines` | who owns an order and its eSIM: gifts, `claim_for`, `device_claim`, `sync_esim`, top-ups, names, the erasing transaction | `MCLines`, `LinesProofs` |
| `Coupons` | checkout with a code, `redeem`, `release`, `_expire_hold`, declines, dead invoices, admin form | `MCCoupons`, `MCOrders`, `CouponProofs` |
| `BalanceRenewal` | `start_with_balance`, `due_for_renewal`, `renew_from_balance`, `_mark_past_due`, `cancel_now`, cancel and resume | `MCBalanceRenewal`, `SubscriptionProofs` |
| `CardSubscription` | `handle_stripe_event` and its handlers, `start_cycle`, `_provision_cycle` | `MCCardSubscription`, `MCOrders`, `SubscriptionProofs` |
| `Closing` | `subscribe` and its reused attempts, the events of a mandate, `prune_incomplete_subscriptions`, `delete_account` up to the erasure | `MCAccount`, `AccountProofs` |
| `Cards` | `ensure_customer`, `customer_for`, payment sheets, the cards of `device_claim`, `delete_card` | `MCLines`, `LinesProofs` |
| `Desk` | the chat: the widget's posts and polls, the assistant's turn and its background label, the operators' screen and admin page | `MCAccount`, `AccountProofs` |
| `Tickets` | the ticket form and thread, the operators' pages and list | `MCAccount`, `AccountProofs` |
| `Prices` | `pricing.py`, `subscription_price`, `fixed_price`, `discount_for`, `bonus_for` as operators over cents | `Catalogue` |
| `Catalogue` | `sync_plans` with `--reprice-only`, the destination's figures, the operators' lists of plans | `MCOffers`, `CatalogueProofs` |

Each action is one commit (or one read that a later step relies on). Where the code
holds a row lock, the specification has a lock variable or, when nothing can
interleave under the lock, a single action. `PROJECT.json` maps every definition to
its lines.

`MCAccount`, `MCBuying`, `MCOrders`, `MCLines` and `MCOffers` check several components
at once. Those share no state in the instance, so a behaviour of the sum is a
behaviour of one of them, chosen in the initial state: the counts of states add up.
What components do share is inside one module: an order, its payment and its coupon
seat in `Coupons` and `Settlement`, the wallet and its callers in `Wallet` and
`Referral`, the line, its order and its accounts in `Lines`.

How state corresponds:

* `Wallet`: `row` and `ledger` are the committed tables, `tx` and `draft` a worker's
  open transaction. `_apply` is `Move`; the rollback stands for every exception that
  leaves the caller's block (`pay_order_with_balance`, `start_cycle`).
* `Settlement`: `pay` is the payment row, `job[w].row` the copy a handler read.
  `settle_payment` begins with the lock (`SettleBegin`) and ends in `SettleCommit`;
  `OnCommit` is the hook. An IPN that does not report success reads (`Handle`),
  closes the order, releases, and saves the whole row in steps of their own.
  `Discounted` orders hold a coupon seat; `ExpireHold` cancels one that is pending and
  has no live payment, and `old` are the payments of more than 26 hours. That the order
  itself is two hours old before the sweeper looks is left out: it may look at once.
* `Referral`: `inviter` and `total` are what a worker read before the payout;
  `inserting` is the worker whose open transaction holds the unique payout row.
  `Payable` is what a top-up credits, its invoice or the larger sum that arrived; the
  threshold is counted in invoices (`Amount`), as the code does. The ledger steps are
  `Move`, `Commit` and `Rollback` of `Wallet`, so its invariants hold here by
  construction and are claimed for `Wallet` alone.
* `Purchase`: `post[p]` is the next step of a POST, `sale[p]` the order it built;
  `Tap` says which POSTs one click became.
* `Fulfilment`: `acts` counts what the provider really did, `owner` is the eSIM table
  by ICCID, `answer` what came back. Raising `YesimError` after the provider acted is
  an answer that was lost. `queue` orders the paid orders by `paid_at`.
* `Lines`: `account` is `Order.user`, `line` the `Esim` row of an order, `copy` the
  line as a handler read it. `changes` counts the top-ups and names that were really
  given. A write onto a row that changed since it was read, and a request that
  outlives its account, put the order into `straddled`: what a closed account may still
  own (`ErasedOwnsNothing`) and who has a title (`LineHasTitle`) is claimed for the
  others, and section 5 shows what such writes do.
* `Coupons`: `seats` are the `CouponRedemption` rows, `counter` is
  `Coupon.redemptions`; `pc[o]` is the checkout of an order, `notice[o]` the handler
  of its payment, `cron` the order the sweeper holds. Time is `age[o]`: two hours,
  then 26. The provider may report money for a declined session and a dead invoice at
  any age; the attempt is then "late".
* `BalanceRenewal`: money is counted in prices, time in days; `read` is the copy of
  the row that a run or a request works on, `bills` the starts of the periods
  debited.
* `CardSubscription`: a period's end is the number of its invoice; `events` holds
  everything Stripe has sent and may send again; `copy` is the row a checkout handler
  saves back; the bound line is left to the orders, as `resolve_esim` does.
* `Closing`: `sid` is `stripe_subscription_id`, a mandate has the name of the Checkout
  session it came from, `due` are its unanswered events; `held` is the id each row had
  when `delete_account` listed it. `misled` are the mandates whose last word was said
  of a mandate that had ended; a word that tells the truth takes them out again.
* `Cards`: `holds` is the column `stripe_customer_id` of accounts and installations,
  `req` the requests with what they read; `belongs` and `cardAt` are Stripe's side. A
  guest's payment sheet opens only where `IN_APP_PLAN_PAYMENTS` is on; the module has
  guests, so it covers both settings.
* `Desk`, `Tickets`: `tab`, `desk`, `form` and `page` are requests with the copy of
  the row they read; `unseen` and `unread` say what is true of the messages. A reply
  on a ticket is two commits (`AddNote`, `Reopen`), and `Die` ends a request between
  them. A request of the chat does not die between a message and its badge.
* `Catalogue`: `plan` are the committed rows, `run[r]` a run with the rows it read and
  its open transaction, `listing` the destination's figures, `page` what an operator's
  form loaded. The destination is a country: a region's row is mostly not saved by the
  sync, so two syncs would not wait for each other there. Wholesale prices are in
  euros; one in another currency is the case of the rate 1.

Abstractions shared by all: e-mails, logs and texts are left out, prices too except in
`Prices` and `Catalogue`; a customer, an order or a worker is a model value; the
provider's and Stripe's behaviour is modelled from how the code uses them.

## 3. Runs

Sizes are distinct states.

| Run | Instance | Shows |
|---|---|---|
| `MCAccount` (1 080 483) | two workers on one wallet with four ledger rows and sums from -1 to 2; a conversation with two tabs and an operator; three tickets, two forms, an outdated admin page, a request that dies; two attempts at a subscription with two sessions, a fault and a bill | `LedgerIsBalance`, `NeverOverdrawn`; `BadgeForUnseen`, `TakenStaysTaken`; `OpenCap`; `MoneyStopsFirst`, `PaidAttemptKept`, `EndIsShown` |
| `MCSettleCard` (371 000) | a discounted order and a top-up by card, two workers, one of which may die, the sweeper of holds, the operator settling and crediting the top-up by hand | `SaleNeverLost`, `CreditedOnce`, `PromiseKept` (refines `SalePromise`), `ChargedIsDelivered` |
| `MCSettleCrypto` (424 150) | an order without a coupon and a top-up by NOWPayments, two kinds of notice each, sums just under the tolerance and above the invoice | `NothingUnfunded` |
| `MCBuying` (177 627) | three POSTs of two clicks, one from the app, a balance that pays for two, a killed request; a new line, a top-up and a top-up without a line, two workers and cron | `SpentIsSold`; `NoDoubleProvision`, `PaidIsDelivered` |
| `MCOrders` (590 269) | three checkouts of two customers for one seat; two new lines, a provider that loses answers and repeats profiles, an operator, a dying process; two invoices, declines, a crash, events in every order and again | `CounterIsSeats`, `NeverOverClaimed`, `InvoicesSettle`; `LinesStayPut`; `OneOrderPerInvoice`, `PaidStaysPaid`, `CollectedIsDelivered` |
| `MCCouponLive` (227 766) | two tabs of one customer, one by card and one by invoice, two seats, a crash, an operator who edits | `SeatPerCustomer`, `SeatComesBack` |
| `MCRenewOnce` (729 977) | two subscriptions on one wallet, one renewal run at a time, six days, a run that may be killed | `TilesUnlessKilled`, `PaidPeriodKept`, `NotHeldOpen` |
| `MCLines` (1 790 512) | a gift and a guest's order on one telephone, two accounts, two handlers at once; two customers at Stripe, two requests, a claim that dies half way | `GiftGoesToItsAddress`, `ErasedOwnsNothing`; `OneHolder`, `CardsInReach` |
| `MCOffers` (256 888) | two customers, three top-ups, two workers, one of which may die; two plans, two runs of the sync that overlap or die, an operator | `EveryCentExplained`, `DueIsPaid`; `MarginKept`, `SubscriberGains`, `ListingSettles` |
| `MCSettleCreditedTwice` | a top-up by NOWPayments, two workers | `CreditedOnce` is violated |
| `MCBuyTwice` | a click that arrives as two POSTs | `BoughtOnce` is violated |
| `MCRenewOverlap` | two overlapping renewal runs | `PeriodsTile` is violated |

Bounds. The constants whose names begin with `Max` cap counters that the program
leaves open. Two workers are enough for every race here: each is between a step that
relies on what was read and one step of somebody else. Two kinds of notice per crypto
payment let a dead invoice, a late one and a confirmation meet in every pair (each is
delivered any number of times), and `MCSettleCreditedTwice` takes three. The periods
are two days and the grace one, so six days hold a start, a renewal, a late one and
the end of the grace. A gift and a guest's order are the two kinds of order whose line
can change hands; one telephone and two accounts let a line and a card be claimed by
the wrong one. In `MCOffers` one wholesale price is so low that the least margin binds
and the other so high that it passes the agreed price. Wallet workers and the attempts
of `Closing` are interchangeable and are used under symmetry in runs without liveness.
Deadlock is not checked: a shop with nothing left to do stops.

What the properties leave out is part of their statements, and each exemption is a
behaviour of the code that section 5 shows: `SaleNeverLost` and `ChargedIsDelivered`
an order with a coupon that was declined before or whose payment is 26 hours old
(`Spared`); `InvoicesSettle` money that comes after the invoice is dead or after 26
hours, which may find the order cancelled; `PaidPeriodKept` everything after a run was
killed; `EndIsShown` a mandate whose last word was old news; `OneHolder` and
`CardsInReach` customers whose id a save wrote over; `DueIsPaid` a code that came late
and a worker that died.

Stated in the modules and not part of a run, because a stronger property or the same
state space already shows them: the type invariants; `CreditIsReported` and
`CancelledFreesSeat` of `Settlement` and `DeadHoldsNoSeat` of `Coupons` without
crashes, `OneLinePerSale` and `NothingUnpaidProvisioned` of `Fulfilment`,
`EndUnlessKilled` and `ToldOnce` of `BalanceRenewal`, `NothingUncollected` of
`CardSubscription`, `PayoutStands` and `RewardIsForMoney` of `Referral`,
`LineHasTitle` of `Lines`, `NoticeOncePerTab` of `Desk`.
Section 6 proves all of them. Each passes when it is added to the configuration of
its component.

## 4. Fairness

* A worker that has begun goes on (`WF` of its steps), unless it dies: the server
  runs its threads. Nothing makes a customer pay, a provider report or an operator act.
* `Redeliver` in `Settlement` and the matching condition in `CardSubscription` are
  strongly fair: Stripe repeats an event until it is answered.
* The sweepers (`Sweep`, `SweepStart`, `SweepNext`, `SweepPick`, `Command`) are fair
  because cron starts them every twenty minutes.
* `MCBuying` assumes that the provider does not refuse an order it could serve for
  ever (`SF` of its answers); a top-up whose line was deleted is refused for ever.
* `ListingSettles` needs a run of the sync that has begun to go on, and the feed to be
  fetched again and again (`SF`): `src/render.yaml` starts it every night. The bounds
  on faults and on changes of the feed let runs settle.
* Days pass (`WF` of `Tick`, `Grow`).

## 5. What the code does not keep

The runs marked "violated" are counterexamples to statements the repository makes;
`PROJECT.json` quotes them. The configurations below are kept beside the project to
reproduce others; each checks one property, named here with the sentence it
contradicts, and TLC answers with the interleaving. `MCFulfil*.cfg` belong to
`MCFulfilment.tla`, `MCCoupon*.cfg` to `MCCoupons.tla`, `MCRenew*.cfg` to
`MCBalanceRenewal.tla`, `MCCard*.cfg` to `MCCardSubscription.tla`, `MCSettle*.cfg` to
`MCSettlement.tla`.

| Configuration | Property | What happens | What the repository says |
|---|---|---|---|
| `MCSettleSaleLost` | `SaleNeverLost` | a dead invoice's IPN, holding the order as pending, cancels it after it was paid | `src/README.md:60` "The sale is never lost." |
| `MCFulfilStarved` | `PaidIsDelivered` | orders that can never be served fill the sweeper's batch | `orders/services.py:8` "`retry_failed` picks it back up" |
| `MCFulfilTwice` | `NoDoubleProvision` | the provider acts, the answer is lost, the retry acts again | `src/README.md:58` "cannot double-provision" |
| `MCFulfilRemarked` | `NoDoubleProvision` | "mark as paid" from a stale list reopens a completed order | the same |
| `MCCouponDeclined` | `ClaimedWithinCap` | a decline frees the seat while the session stays payable at the reduced price | `coupons/services.py:6` "cannot both win" |
| `MCCouponSwept` | `SettledIsPaid` | a declined payment does not count as live, so the sweeper cancels an order that is then paid | `expire_coupon_holds.py:28` "far worse than holding a seat" |
| `MCCouponEdited` | `CounterIsSeats` | the admin form saves the counter it read | `coupons/services.py:5` "the only place the counter moves" |
| `MCRenewKilled` | `PeriodsTile` | a run killed between debit and advance bills again | `renew_subscriptions.py:9-13` |
| `MCRenewCancelled` | `CancelStopsDebits` | a cancellation after the run's read is ignored and undone | `subscriptions/services.py:878` "stops the next debit" |
| `MCCardTwice` | `OneOrderPerInvoice` | a late failure report downgrades a cycle paid meanwhile | `subscriptions/services.py:396` "Never downgrade a cycle that is already paid" |

Others need only one more line in the configuration of a run. TLC then reports the
property as violated:

| Added to | Property | What happens | What the repository says |
|---|---|---|---|
| `MCSettleSaleLost`, `MaxCrashes = 1` | INVARIANT `CancelledFreesSeat` instead | a worker dies between cancelling and releasing; the sweeper looks at pending orders only | `payments/services.py:454` "must hand its coupon seat back" |
| `MCRenewOnce`, `Workers <- MCTwoWorkers` | INVARIANT `OneRunning` | two requests at once | `subscriptions/services.py:762` |
| `MCSettleCrypto` | PROPERTY `OverpaymentCredited` | an IPN saved whole between settlement and credit unsets the sum that arrived | `wallet/models.py:211` "never less than they actually handed over either" |
| `MCCouponLive`, `FirstOrderOnly = TRUE` | INVARIANT `FirstOrderOnce` | two unpaid tabs both redeem a first-order code | `coupons/services.py:156` |
| `MCCouponLive` | INVARIANT `DeadHoldsNoSeat` | the request that cancels an order dies before it gives the seat back; `SeatComesBack` therefore leaves out an invoice whose handler may have died | `coupons/services.py:6-9` |
| `MCBuying` | INVARIANT `FailureRecorded` | the error is saved in the transaction that its own exception rolls back | `orders/services.py:7` "stays PAID with the error recorded" |
| `MCBuying` | INVARIANT `ReportedOnce` | two tabs load the page before either sets the flag | `orders/views.py:336-364` |
| `MCOrders` | PROPERTY `RedeliveryIsHarmless` | `invoice.paid` again after the cancellation revives the row | `subscriptions/services.py:262` "Idempotent" |
| `MCOrders` | INVARIANT `OneProfile` | the renewal is billed while the first profile is on its way; line 609 accepts the second one on purpose | `subscriptions/services.py:594-597` |
| `MCAccount` | INVARIANT `ClosedIsNotCharged` | a session opened before the account closed is paid afterwards | `accounts/deletion.py`, docstring of the cancellation |
| `MCAccount` | INVARIANT `OneMandate` | two sessions of one attempt are both paid | `subscriptions/views.py:93` "Never let one customer run two subscriptions for the same plan" |
| `MCAccount`, `MaxPosts = 2` | PROPERTY `EscalationStands` | a post that read the row before it was escalated saves "open" | `support/views.py`, on escalating |
| `MCAccount` | INVARIANT `NoticeOnce` | two tabs poll at once and both say the waiting notice | `support/models.py:181` "must not be said again" |
| `MCAccount` | PROPERTY `AssistantIsQuiet` | an answer under way is stored after an operator took over | `support/admin_views.py:184` "silences the AI / immediately" |
| `MCAccount` | INVARIANT `AnsweredIsAnswered` | a request dies between a reply and its status; or (`MaxDeaths = 0`) an operator's page loaded before the reply saves "answered" | `support/views.py:212` "A customer reply reopens the thread" |
| `MCAccount`, `StalePages = TRUE`, `Staff <- MCStaff` | INVARIANT `BadgeForUnseen` | an outdated admin page saves the badge it showed | `support/models.py`, `user_unread` |
| `MCLines` | INVARIANT `ErasedForGood` | a claim that outlives its account gives a line back to it | `accounts/deletion.py` "with the customer's identity unlinked" |
| `MCLines` | INVARIANT `ShowsWhatHappened` | a refresh saves the line it read before a top-up or a rename | `orders/services.py:72`, `apply_sim_info` |
| `MCLines` | PROPERTY `OwnedStaysOwned` | a refresh writes back the owner it read, and a claim gives away a line that found an owner meanwhile | `api/views.py:970` "Only unclaimed orders move" |
| `MCLines` | INVARIANT `LineFollowsOrder` | an order is claimed while its line is being provisioned | `api/views.py`, docstring of `device_claim` |
| `MCLines` | INVARIANT `ProvedNeedNotWait` | the address is proved between the look at it and the insertion of the line | `orders/gifting.py`, docstring |
| `MCLines` | INVARIANT `NoCardStranded` | two first payment sheets make a customer each | `payments/inapp.py`, `customer_for` |
| `MCLines`, `Impatient = TRUE` | INVARIANT `OneHolder` | the device changes hands during a claim | `api/views.py`, `device_claim` |
| `MCOffers` | INVARIANT `NobodyMissed` | the code is entered after the last top-up was looked at, or the worker dies between the credit and the look | `wallet/services.py`, docstring of `pay_referral_if_due` |
| `MCOffers` with a third customer | PROPERTY `OneCode` | two requests enter two codes | `accounts/referrals.py` "You already used a referral code" |
| `MCOffers` | INVARIANT `ListTracksCost` | a sync saves a plan's new cost and keeps the list price of the old one | `catalog/pricing.py:50` |
| `MCOffers` | PROPERTY `OverrideStands` | the sync saves the row it read before the operator's save | `catalog/pricing.py:4` "always wins" |
| `MCOffers`, `RepriceAlone = FALSE` | INVARIANT `MarginKept` | `--reprice-only` saves a price beside a cost that a sync changed | `catalog/pricing.py`, on the least margin |

So the passing runs say exactly under which circumstances the promises hold: card
payments keep `SalePromise`, and their orders are kept from the sweeper unless they
were declined or forgotten; a provider whose refusals are real is called once; one
renewal run at a time tiles the periods; events handled one at a time keep paid cycles
paid; a repricing that runs alone keeps every margin; and a gift reaches the address it
was given to, whoever writes its line at once.

## 6. Proofs

Each module of proofs extends the modules it is about. The constants are any that meet
the assumptions named in those (`PaymentsAssumption`, `CouponAssumption`,
`TicketsAssumption` and so on; the runs evaluate them): any sets of customers, orders,
workers and sums, any bounds on faults. Where a theorem needs more it says so after
`ASSUME`, and section 5 shows what breaks it otherwise. "All" in the last column
means: without such a condition.

| Module | Theorem | States | For which instances |
|---|---|---|---|
| `WalletProofs` | `WalletTypes`, `LedgerNeverDrifts`, `NeverOverdrawnEver` | `TypeOK`, `LedgerIsBalance`, `NeverOverdrawn` | all |
| `SettlementProofs` | `SettlementTypes`, `UnderpaidNeverServed`, `CreditsAreReported` | `TypeOK`, `NothingUnfunded`, `CreditIsReported` | all |
| | `CancelledSeatsComeBack` | `CancelledFreesSeat` | no worker dies |
| | `CardSaleNeverLost`, `CardCreditedOnce`, `CardsKeepThePromise` | `SaleNeverLost`, `CreditedOnce`, `PromiseKept` | card payments; the first exempts what the sweeper may take (`Spared`) |
| `CouponProofs` | `CouponTypes`, `OneSeatPerCustomer` | `TypeOK`, `SeatPerCustomer` | all |
| | `CounterNeverDrifts`, `CapHolds` | `CounterIsSeats`, `NeverOverClaimed` | the operator does not save the coupon |
| | `InvoicesAlwaysSettle`, `DeadOrdersHoldNoSeat` | `InvoicesSettle`, `DeadHoldsNoSeat` | no request dies; late money may find the order cancelled |
| `OrderProofs` | `OnlyThePaidAreProvisioned`, `LinesNeverMove` | `NothingUnpaidProvisioned`, `LinesStayPut` | all |
| | `OneLineForEachSale` | `OneLinePerSale` | no operator marks orders |
| | `NeverProvisionedTwice` | `NoDoubleProvision` | `Reliable`: no answer lost, no profile repeated, nobody dies or marks |
| | `SpentIsAlwaysSold` | `SpentIsSold` | all |
| `SubscriptionProofs` | `CardTypesAlways`, `NothingOrderedUnpaid` | `CardTypes`, `NothingUncollected` | all |
| | `OneOrderForEachInvoice`, `PaidCyclesStayPaid` | `OneOrderPerInvoice`, `PaidStaysPaid` | `NoRace`: no failure report, or one event at a time |
| | `ToldOfFailureOnce` | `ToldOnce` | `OneAtATime`: runs do not overlap |
| | `PeriodsAlwaysTile`, `RowsSayWhatIsPaid`, `PaidPeriodsAreKept` | `TilesUnlessKilled`, `EndUnlessKilled`, `PaidPeriodKept` | the same; the properties exempt a killed run |
| `LinesProofs` | `LineTypes`, `GiftsReachTheirAddress`, `ClosedAccountsAreEmpty`, `OwnersHaveTitle` | `TypeOK`, `GiftGoesToItsAddress`, `ErasedOwnsNothing`, `LineHasTitle` | all |
| | `CardTypesHold`, `CardsStayInReach` | `CardsTypes`, `CardsInReach` | all |
| | `CardsHaveOneHolder` | `OneHolder` | nobody signs in or out during a claim (`~Impatient`) |
| `CatalogueProofs` | `MarginAlwaysKept`, `SubscriberAlwaysGains`, `CouponLeavesACharge` | `MarginKept`, `SubscriberGains`, the coupon's arithmetic | a repricing runs alone; no operator gives a plan away; all |
| `AccountProofs` | `TicketCapHolds` | `OpenCap` | all |
| | `UnseenHasItsBadge`, `OnlyOperatorsGiveBack`, `NoticesAreSaidOnce` | `BadgeForUnseen`, `TakenStaysTaken`, `NoticeOncePerTab` | `~StalePages` |
| | `MoneyStopsBeforeTheAccount`, `PaidAttemptsAreKept`, `EndsAreShown` | `MoneyStopsFirst`, `PaidAttemptKept`, `EndIsShown` | all |
| | `WhatIsDueIsPaid`, `PayoutsStand` | `DueIsPaid`, `PayoutStands` | all |
| | `EveryCentHasItsReason`, `RewardsAreForMoney` | `EveryCentExplained`, `RewardIsForMoney` | all |

Hardly any of these is inductive as it stands, for one reason: a handler reads, thinks
and saves, so what a row says is at the mercy of what somebody carries. The inductive
invariants speak of that.

`Wallet`. Between `Move` and `Commit` the truth about a wallet is in a draft.
`WalletInv` adds `LockedByTx` (an open transaction holds the row it wrote) and
`DraftContinues` (its draft continues the committed ledger, ends at its own balance
and is never below zero). `ChainAppend`, `ChainConcat` and `ConcatSolvent` say what
appending a row and concatenating two chains do.

`Settlement`. `JobInv`: a request under way answers a notice that was sent, and its copy
of the row says nothing that was not announced (`RowVouched`), so nothing it saves, even
over a newer row, can be unfunded. `CardInv`: as long as no IPN handler saves a row it
read without a lock, whoever settles holds the row and read it under the lock
(`CardSettling`), and the flag, the order and the credits of a payment say the same
(`CardPayment`), but for an order that the sweeper cancelled: it is one that nothing
spares, since a status that does not look live was declined or has settled
(`CardStatus`), and what exposes an order is not taken back (`SparedBefore`). With it
`PromiseStep` maps every step to one of `SalePromise` or to a stutter.

`Coupons`. The row lock: a checkout is about to write exactly while it holds the row
(`LockHeld`); what it checked there still holds (`Room`), because every step that adds
a seat or moves the counter needs the lock; an order has no seat before its checkout
wrote one (`NotYet`). A release takes off exactly the row it deletes
(`HandBackCounts`), so `counter > 0` is no restriction. `CalmInv` follows one order:
which of checkout, notice and sweeper may still be at it in each of its states
(`OrderInv`), and that an invoice that is paid in time finds its order pending and has
its seat, while a late one finds it pending or cancelled (`InvoiceInv`). The
cardinalities come from `FiniteSetTheorems`.

`Fulfilment` and `Purchase`. `FulfilInv`: who is inside a provider call holds the row
of its order, and the order is paid. That is all it takes for any fault; `LineInv`
adds that a completed order for a new line has exactly one profile, `OnceInv` where
the provider may have acted: once between the call and the commit (`CallInv`), else
for completed orders only (`ActsInv`). `BuyInv`: what a POST has done so far
(`Posting`: it holds its seat before it pays), with the money already in the balance
that `SpentIsSold` counts.

Card subscriptions. `BillInv` ties an order and its cycle to an event that Stripe sent
for money it had; `OneInv` adds that an order is booked with its paid cycle (`Paired`)
and that nobody is about to write a failure over it, which is what `NoRace` buys.
`MCCardTwice` shows the rest. Balance subscriptions. `RunsInv`: the copies in a run's
list and in its hands may be outdated in everything but the end of the period, which
nobody but the run moves (`Current`), and a row is listed once (`CopiesInv`).
`BilledInv`: the last period billed ends where the row says, or the run that billed it
is about to say so (`Billed`). `PaidPeriodsAreKept` needs both: the end by which a run
decides is the end of what was debited.

`Lines` and `Cards`. `GiftInv`: a claim has listed no gift that is not its own.
`ClosingInv` and `ErasedInv`: what an account may still be given when it closes is
marked or held by the lock of its erasure. `TitleInv`: a closing account locks its own
orders, and a request that proved an address finds it proved. `CardsInv`: what requests
carry is as exclusive as what the rows hold; a customer just made is known to its
request alone (`Fresh`), one that is moved to no third row (`Carried`) and comes from
one device (`FromOneDevice`), and while both rows name it, the claim that will clear the
device is under way (`Held`). `ReachInv` needs no condition: a customer with a card is
on its owner's row, or was displaced, or a request is about to write it there
(`InReach`, `Reaching`).

`Catalogue`. `PricesInv`: in every committed row, draft and open page the price was
computed from the cost beside it, and a repricing run is alone. `RetailCovers` and
`SubscriptionRails` are the arithmetic. That the formulas agree with a plain
definition of their meaning on all prices that occur is an assumption of `MCOffers`,
which TLC evaluates.

Tickets, chat, closing, invitations. `CapInv` adds to the tickets that are open those
that a counted form is about to open. `NoticeInv`: a tab that said its notice is told so
by the row, or is about to write it there (`SaidOnce`). `DeskInv`: a message that was
not seen has its badge, or an operator is about to count it (`OperatorOn`), or a tab is
about to count the notice it said or to show everything there is (`CustomerOn`).
`ClosingInv`: what sessions, rows and the deletion's list say of each other
(`SessionInv`, `RowInv`, `KnownInv`), and which ends were told and not contradicted
(`Ended`). `ReferralInv`: which worker holds which row of the ledger and of the payouts
(`LockInv`, `WorkerInv`, `InsertInv`), and that a due payout is written or somebody is
on the way to it (`OwedInv`). `MoneyInv` adds what each worker's draft will be explained
by once it is committed (`DraftInv`) and why a reward under way is earned (`ReasonInv`).

`MoneyInv` needs what `SumOf` does when a top-up is added, and the fold behind it takes
the elements of a set in an order nobody knows. `Cents` replaces the sum by a set with
one element for each cent, whose cardinality adds up as a sum should (`CentsAdd`).
`OneSum` shows that whatever adds up so is the same: of the subsets where two sums
differ there would be a least one, and it cannot be, as one element less is no such
set. `SumIsCents` and `SumOfMore` follow. This is the only place where the sets of
customers and top-ups must be finite (`ReferralAssumption`); they are rows of tables.

Only model-checked is liveness under fairness (`ChargedIsDelivered`, `PaidIsDelivered`,
`CollectedIsDelivered`, `SeatComesBack`, `NotHeldOpen`, `ListingSettles`), which the
prover does not do.

## 7. Plan

Done: all modules of section 2, and proofs for the safety properties of each. What is
left:

1. The price a subscriber is charged: Stripe's prices and their memo, and an attempt
   that is reused after the plan's price moved (`subscriptions/views.py:64-67`).
2. The binding of a line to a subscription (`_bind_esim`) as state of its own.
3. The rate limiter, whose count is read and written in two cache calls.

## 8. Not modelled

A large part of the repository has no state that anything could go wrong with: texts
and data (SEO, legal, blog, help, country names), templates and their tags, migrations,
tests, settings. Of the rest:

* Creating invoices at the providers, refunds at Stripe, Stripe's price objects: calls
  whose state is the provider's. What they mean for an order is in the modules.
* Sign-in, registration, verification mail, the sign-in log, profile: one row at a
  time, under a unique address. That an address is proved is an action of `Lines`.
* Rate limits, middleware, remote configuration, device attestation, tokens and
  serializers of the API, read-only endpoints: request plumbing.
* What the assistant says, and how it reads intents out of a text; the archive of
  deleted messages. When it speaks is in `Desk`.
* The inbox of the app: a row per message read, unique.
* A coupon's dates, its restriction to plans, and its public listing: conditions that
  are evaluated once, at validation. Its arithmetic is in `Prices`.
* Analytics, apart from the flag that a sale was reported.
* The operators' test tools.
* Fraud screening: done by a package that is not in the repository.
