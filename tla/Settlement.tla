---------------------------- MODULE Settlement ----------------------------
(***************************************************************************)
(* Taking money: apps/payments/services.py, the credit_topup hook of       *)
(* apps/wallet/services.py and the sweeper that retries fulfilment.        *)
(*                                                                         *)
(* A Payment row pays for an order or funds a balance top-up.  Providers   *)
(* send notices (Stripe webhooks and return pages, NOWPayments IPNs) that  *)
(* may arrive late, twice or out of order, each in a web worker of its     *)
(* own.  settle_payment holds the payment row FOR UPDATE; the IPN handler  *)
(* reads the payment and its order without a lock and saves the payment    *)
(* row whole.  Each autocommitted save is a step of its own.  An order     *)
(* placed with a capped code holds a seat, and expire_coupon_holds cancels *)
(* it when no payment looks live any more.                                 *)
(***************************************************************************)
EXTENDS Integers, Sequences, FiniteSets

CONSTANTS
    Payments,       \* Payment rows
    OrderPayments,  \* those that pay for an order; the others fund a top-up
    Discounted,     \* those whose orders were placed with a capped coupon code
    CryptoPayments, \* those taken by NOWPayments; the others by Stripe
    Workers,        \* web workers handling notices
    Invoice,        \* amount_usd of every payment, in cents
    Bonus,          \* bonus_usd of every top-up, in cents
    Reports,        \* sums a provider may report as arrived, in cents
    MaxNotices,     \* bound: kinds of notice a provider sends about one payment
    MaxCredits,     \* bound: wallet credits booked per top-up
    MaxCrashes,     \* bound: workers that die in the middle of a request
    ByHand,         \* payments the operator settles and credits by hand
    NoOne,          \* holder of an unlocked row
    Unreported      \* paid_amount_usd is NULL

ASSUME PaymentsAssumption ==
    /\ Payments # {} /\ OrderPayments \subseteq Payments /\ CryptoPayments \subseteq Payments
    /\ Discounted \subseteq OrderPayments
ASSUME SumsAssumption ==
    Invoice \in Nat \ {0} /\ Bonus \in Nat /\ Reports \subseteq Nat
ASSUME BoundsAssumption ==
    MaxNotices \in Nat /\ MaxCredits \in Nat /\ MaxCrashes \in Nat /\ ByHand \subseteq Payments
ASSUME NamesAssumption == NoOne \notin Workers /\ Unreported \notin Nat

VARIABLES
    pay,        \* Payment rows: status, settled, paid_amount_usd
    item,       \* status of the order or top-up each payment is for
    seat,       \* whether the payment's order still holds its coupon seat
    old,        \* payments created more than 26 hours ago
    credits,    \* sums credited to the wallet for each top-up, in order
    notices,    \* everything the providers have ever announced
    lock,       \* who holds each payment row
    pc, job,    \* each worker's next step, and what its request has read
    crashes     \* how many workers have died

vars == <<pay, item, seat, old, credits, notices, lock, pc, job, crashes>>

TopUps == Payments \ OrderPayments
Card   == Payments \ CryptoPayments

PaidKinds == {"succeeded", "confirmed", "finished", "forced"}
DeadKinds == {"failed", "expired", "refunded"}
SoftKinds == {"confirming", "sending", "partially_paid"}
Kinds     == PaidKinds \union DeadKinds \union SoftKinds \union {"declined"}

Sums       == Reports \union {Invoice}
Notice     == [pay : Payments, kind : Kinds, amount : Sums \union {Unreported}]
PayStatus  == {"new", "waiting", "confirming", "partial", "paid", "failed", "expired"}
PayRow     == [status : PayStatus, settled : BOOLEAN, paid : Sums \union {Unreported}]
ItemStatus == {"pending", "paid", "completed", "credited", "cancelled", "failed", "expired"}
Steps      == {"idle", "settle", "hook", "ipn_item", "ipn_close", "ipn_release",
               "ipn_save", "decline", "decline_release"}
NewRow     == [status |-> "new", settled |-> FALSE, paid |-> Unreported]
NoJob      == [pay |-> CHOOSE p \in Payments : TRUE, kind |-> "forced", amount |-> Invoice,
               row |-> NewRow, seen |-> "pending"]

Larger(a, b) == IF a >= b THEN a ELSE b

\* A wider tolerance than the two percent meant.
EnoughLoose(arrived) == 100 * arrived >= 90 * Invoice

\* "Accept 2% under the invoice as fully paid."
Enough(arrived) == 100 * arrived >= 98 * Invoice

\* What the row says arrived; a provider that named no sum means the invoice.
Arrived(row) == IF row.paid = Unreported THEN Invoice ELSE row.paid

Init ==
    /\ pay     = [p \in Payments |-> NewRow]
    /\ item    = [p \in Payments |-> "pending"]
    /\ seat    = [p \in Payments |-> p \in Discounted]
    /\ old     = {}
    /\ credits = [p \in Payments |-> <<>>]
    /\ notices = {}
    /\ lock    = [p \in Payments |-> NoOne]
    /\ pc      = [w \in Workers |-> "idle"]
    /\ job     = [w \in Workers |-> NoJob]
    /\ crashes = 0
-----------------------------------------------------------------------------
\* The providers.

Announced(p) == {n.kind : n \in {m \in notices : m.pay = p}}

\* A NOWPayments invoice: a transfer is seen, confirmed, sent on and paid out; or
\* it is short; or nothing comes and the invoice expires, and a late transfer may
\* still follow; a paid out invoice may be refunded.
CryptoMay(p, kind) ==
    \/ kind \in {"confirming", "partially_paid", "expired"}
    \/ kind \in {"confirmed", "failed"} /\ "confirming" \in Announced(p)
    \/ kind = "sending" /\ "confirmed" \in Announced(p)
    \/ kind = "finished" /\ Announced(p) \intersect {"confirmed", "partially_paid"} # {}
    \/ kind = "refunded" /\ "finished" \in Announced(p)

\* A Stripe payment may be declined any number of times and then succeeds.
CardMay(p, kind) ==
    \/ kind = "succeeded"
    \/ kind = "declined" /\ "succeeded" \notin Announced(p)

\* The provider reports what arrived; only paid kinds carry a sum.  Stripe
\* captures the invoice, a crypto transfer may be any of Reports.
Announce(p, kind, amount) ==
    /\ pay[p].status # "new"
    /\ kind \notin Announced(p)
    /\ Cardinality(Announced(p)) < MaxNotices
    /\ IF p \in CryptoPayments THEN CryptoMay(p, kind) ELSE CardMay(p, kind)
    /\ amount = Unreported <=> kind \notin PaidKinds
    /\ p \in Card /\ kind = "succeeded" => amount = Invoice
    /\ notices' = notices \union {[pay |-> p, kind |-> kind, amount |-> amount]}
    /\ UNCHANGED <<pay, item, seat, credits, lock, pc, job, old, crashes>>

\* The operator confirms the money off-platform (action_settle lists the
\* payments that are not settled and settles them for the full invoice).
SettleByHand(p) ==
    /\ p \in ByHand
    /\ ~pay[p].settled
    /\ pay[p].status # "new"
    /\ notices' = notices \union {[pay |-> p, kind |-> "forced", amount |-> Invoice]}
    /\ UNCHANGED <<pay, item, seat, credits, lock, pc, job, old, crashes>>
-----------------------------------------------------------------------------
\* Starting a payment.

\* start_payment / start_balance_payment / payment_sheet: the provider opened a
\* checkout and the customer was sent to it.
Open(p) ==
    /\ pay[p].status = "new"
    /\ item[p] = "pending"
    /\ pay' = [pay EXCEPT ![p].status = "waiting"]
    /\ UNCHANGED <<item, seat, credits, notices, lock, pc, job, old, crashes>>

\* The provider is not configured, refuses, or returns no URL: the view marks
\* the order or top-up failed and hands the coupon seat back.
OpenFails(p) ==
    /\ pay[p].status = "new"
    /\ item[p] = "pending"
    /\ item' = [item EXCEPT ![p] = "failed"]
    /\ seat' = [seat EXCEPT ![p] = FALSE]
    /\ UNCHANGED <<pay, credits, notices, lock, pc, job, old, crashes>>
-----------------------------------------------------------------------------
\* Handling notices.

\* The request goes on to its next step; once answered it forgets what it read.
Goto(w, step) ==
    /\ pc'  = [pc EXCEPT ![w] = step]
    /\ job' = IF step = "idle" THEN [job EXCEPT ![w] = NoJob] ELSE job

\* A request arrives: what it is about and what it reads at the start.
Begin(w, n, step) ==
    /\ pc[w] = "idle"
    /\ pc'  = [pc EXCEPT ![w] = step]
    /\ job' = [job EXCEPT ![w] = [pay |-> n.pay, kind |-> n.kind, amount |-> n.amount,
                                  row |-> pay[n.pay], seen |-> item[n.pay]]]

\* The payment is read without select_for_update().
SettleUnlocked(w, n) ==
    /\ n.kind \in PaidKinds
    /\ UNCHANGED lock
    /\ Begin(w, n, "settle")
    /\ UNCHANGED <<pay, item, seat, credits, notices, old, crashes>>

\* settle_payment begins: select_for_update() on the payment, then the order
\* or top-up is read without a lock.
SettleBegin(w, n) ==
    /\ n.kind \in PaidKinds
    /\ lock[n.pay] = NoOne
    /\ lock' = [lock EXCEPT ![n.pay] = w]
    /\ Begin(w, n, "settle")
    /\ UNCHANGED <<pay, item, seat, credits, notices, old, crashes>>

\* The row settle_payment saves, given the row it locked and the reported sum.
SettledRow(row, amount) ==
    LET reported == [row EXCEPT !.paid = amount]
    IN  IF reported.settled THEN reported
        ELSE IF ~Enough(Arrived(reported)) THEN [reported EXCEPT !.status = "partial"]
        ELSE [reported EXCEPT !.status = "paid", !.settled = TRUE]

\* mark_paid() decides on the status it read; a top-up is marked paid whatever
\* its status was.
ItemAfter(p, seen) ==
    IF p \in TopUps \/ seen = "pending" THEN "paid" ELSE item[p]

\* settle_payment commits: the payment row, and on the first full settlement
\* the order or top-up, whose on_commit hook runs next.
SettleCommit(w) ==
    LET j     == job[w]
        row   == SettledRow(j.row, j.amount)
        first == row.settled /\ ~j.row.settled
    IN  /\ pc[w] = "settle"
        /\ pay'  = [pay EXCEPT ![j.pay] = row]
        /\ item' = IF first THEN [item EXCEPT ![j.pay] = ItemAfter(j.pay, j.seen)] ELSE item
        /\ lock' = [lock EXCEPT ![j.pay] = NoOne]
        /\ Goto(w, IF first THEN "hook" ELSE "idle")
        /\ UNCHANGED <<seat, credits, notices, old, crashes>>

\* fulfill_order, in one transaction under the order's lock: only a PAID order
\* is provisioned, and a provider failure leaves it PAID.
Fulfil(p) ==
    item' = IF item[p] = "paid" THEN [item EXCEPT ![p] = "completed"] ELSE item

\* The status is not checked again under the lock.
CreditUnchecked(p) ==
    /\ Len(credits[p]) < MaxCredits
    /\ credits' = [credits EXCEPT ![p] = Append(@, Larger(Invoice, Arrived(pay[p])) + Bonus)]
    /\ item'    = [item EXCEPT ![p] = "credited"]

\* credit_topup, under the top-up's lock: the status is checked again, then the
\* larger of the invoice and what the payment row says arrived is credited.
Credit(p) ==
    IF item[p] = "credited" THEN UNCHANGED <<item, credits>>
    ELSE /\ Len(credits[p]) < MaxCredits
         /\ credits' = [credits EXCEPT ![p] =
                            Append(@, Larger(Invoice, Arrived(pay[p])) + Bonus)]
         /\ item'    = [item EXCEPT ![p] = "credited"]

\* The on_commit hook of a settled payment.
OnCommit(w) ==
    /\ pc[w] = "hook"
    /\ \/ job[w].pay \in OrderPayments /\ Fulfil(job[w].pay) /\ UNCHANGED credits
       \/ job[w].pay \in OrderPayments /\ UNCHANGED <<item, credits>>  \* provider failed
       \/ job[w].pay \in TopUps /\ Credit(job[w].pay)
    /\ Goto(w, "idle")
    /\ UNCHANGED <<pay, seat, notices, lock, old, crashes>>

\* A declined card (settle_stripe_intent, failed=True).
DeclineBegin(w, n) ==
    /\ n.kind = "declined"
    /\ Begin(w, n, "decline")
    /\ UNCHANGED <<pay, item, seat, credits, notices, lock, old, crashes>>

\* save(update_fields=["status", "raw"]): the status alone is overwritten.
DeclineSave(w) ==
    LET p == job[w].pay
    IN  /\ pc[w] = "decline"
        /\ lock[p] = NoOne
        /\ pay' = [pay EXCEPT ![p].status = "failed"]
        /\ Goto(w, IF p \in OrderPayments THEN "decline_release" ELSE "idle")
        /\ UNCHANGED <<item, seat, credits, notices, lock, old, crashes>>

\* release(order): a transaction of its own, here and in the IPN handler.
ReleaseSeat(w) ==
    /\ pc[w] \in {"decline_release", "ipn_release"}
    /\ seat' = [seat EXCEPT ![job[w].pay] = FALSE]
    /\ Goto(w, IF pc[w] = "ipn_release" THEN "ipn_save" ELSE "idle")
    /\ UNCHANGED <<pay, item, credits, notices, lock, old, crashes>>

\* process_nowpayments_ipn for a status that is not a payment: the row is read
\* without a lock.
IpnRead(w, n) ==
    /\ n.kind \in DeadKinds \union SoftKinds
    /\ Begin(w, n, IF n.kind \in DeadKinds THEN "ipn_item" ELSE "ipn_save")
    /\ UNCHANGED <<pay, item, seat, credits, notices, lock, old, crashes>>

\* A dead invoice: the order or top-up is read, again without a lock.
Closable(p, seen) ==
    IF p \in OrderPayments THEN seen = "pending" ELSE seen \in {"pending", "paid"}

IpnItem(w) ==
    LET p == job[w].pay
    IN  /\ pc[w] = "ipn_item"
        /\ Goto(w, IF Closable(p, item[p]) THEN "ipn_close" ELSE "ipn_save")
        /\ UNCHANGED <<pay, item, seat, credits, notices, lock, old, crashes>>

DeadAs(kind) == IF kind = "expired" THEN "expired" ELSE "failed"

\* A dead invoice cancels its order and nobody hands the seat back.
CloseKeepsSeat(w) ==
    LET p == job[w].pay
    IN  /\ pc[w] = "ipn_close"
        /\ item' = [item EXCEPT ![p] =
                       IF p \in OrderPayments THEN "cancelled" ELSE DeadAs(job[w].kind)]
        /\ Goto(w, "ipn_save")
        /\ UNCHANGED <<pay, seat, credits, notices, lock, old, crashes>>

\* The order is cancelled or the top-up closed, on the strength of that read.
IpnClose(w) ==
    LET p == job[w].pay
    IN  /\ pc[w] = "ipn_close"
        /\ item' = [item EXCEPT ![p] =
                       IF p \in OrderPayments THEN "cancelled" ELSE DeadAs(job[w].kind)]
        /\ Goto(w, IF p \in OrderPayments THEN "ipn_release" ELSE "ipn_save")
        /\ UNCHANGED <<pay, seat, credits, notices, lock, old, crashes>>

\* The status an IPN leaves on the row it read; "sending" is not looked for.
IpnStatus(row, kind) ==
    CASE kind \in DeadKinds       -> DeadAs(kind)
      [] kind = "confirming"      -> "confirming"
      [] kind = "partially_paid"  -> "partial"
      [] OTHER                    -> row.status

\* payment.save(): the row read at the start goes back whole.
SavedRow(row, kind) == [row EXCEPT !.status = IpnStatus(row, kind)]

IpnSave(w) ==
    LET j == job[w]
    IN  /\ pc[w] = "ipn_save"
        /\ lock[j.pay] = NoOne
        /\ pay' = [pay EXCEPT ![j.pay] = SavedRow(j.row, j.kind)]
        /\ Goto(w, "idle")
        /\ UNCHANGED <<item, seat, credits, notices, lock, old, crashes>>

\* A worker dies: its open transaction rolls back, its saves stay.
Crash(w) ==
    /\ pc[w] # "idle"
    /\ crashes < MaxCrashes
    /\ crashes' = crashes + 1
    /\ lock' = [p \in Payments |-> IF lock[p] = w THEN NoOne ELSE lock[p]]
    /\ Goto(w, "idle")
    /\ UNCHANGED <<pay, item, seat, old, credits, notices>>
-----------------------------------------------------------------------------
\* Recovery.

\* The sweeper looks for orders nobody has paid instead.
SweepPending(p) ==
    /\ p \in OrderPayments
    /\ item[p] = "pending"
    /\ Fulfil(p)
    /\ UNCHANGED <<pay, seat, credits, notices, lock, pc, job, old, crashes>>

\* retry_orders reaches an order that is still PAID, and the provider delivers.
Sweep(p) ==
    /\ p \in OrderPayments
    /\ item[p] = "paid"
    /\ Fulfil(p)
    /\ UNCHANGED <<pay, seat, credits, notices, lock, pc, job, old, crashes>>

\* A payment is 26 hours old: its session is over by then, though an in-app intent
\* can still be confirmed and a notice may come late.
GrowOld(p) ==
    /\ p \in Discounted \ old
    /\ old' = old \union {p}
    /\ UNCHANGED <<pay, item, seat, credits, notices, lock, pc, job, crashes>>

\* LIVE_PAYMENT_STATUSES, and younger than LIVE_SESSION_HOURS.
LooksLive(p) ==
    /\ pay[p].status \in {"new", "waiting", "confirming", "partial"}
    /\ p \notin old

\* The sweeper goes by the age of the order and looks at no payment.
ExpireByAge(p) ==
    /\ p \in OrderPayments
    /\ item[p] = "pending"
    /\ seat[p]
    /\ item' = [item EXCEPT ![p] = "cancelled"]
    /\ seat' = [seat EXCEPT ![p] = FALSE]
    /\ UNCHANGED <<pay, old, credits, notices, lock, pc, job, crashes>>

\* expire_coupon_holds: an order still pending after two hours that holds a seat
\* and has no live payment is cancelled and its seat released in one transaction,
\* under the order's lock.
ExpireHold(p) ==
    /\ p \in OrderPayments
    /\ item[p] = "pending"
    /\ seat[p]
    /\ ~LooksLive(p)
    /\ item' = [item EXCEPT ![p] = "cancelled"]
    /\ seat' = [seat EXCEPT ![p] = FALSE]
    /\ UNCHANGED <<pay, old, credits, notices, lock, pc, job, crashes>>

\* The operator credits a top-up listed as paid (credit_now).
CreditNow(p) ==
    /\ p \in ByHand
    /\ p \in TopUps
    /\ item[p] \in {"paid", "credited"}
    /\ Credit(p)
    /\ UNCHANGED <<pay, seat, notices, lock, pc, job, old, crashes>>

Handle(w) ==
    \/ \E n \in notices : SettleBegin(w, n) \/ DeclineBegin(w, n) \/ IpnRead(w, n)
    \/ SettleCommit(w) \/ OnCommit(w)
    \/ DeclineSave(w) \/ ReleaseSeat(w)
    \/ IpnItem(w) \/ IpnClose(w) \/ IpnSave(w)

Next ==
    \/ \E p \in Payments :
        \/ Open(p) \/ OpenFails(p) \/ SettleByHand(p) \/ Sweep(p) \/ CreditNow(p)
        \/ GrowOld(p) \/ ExpireHold(p)
        \/ \E kind \in Kinds, amount \in Sums \union {Unreported} : Announce(p, kind, amount)
    \/ \E w \in Workers : Handle(w) \/ Crash(w)

Spec == Init /\ [][Next]_vars
-----------------------------------------------------------------------------
TypeOK ==
    /\ pay     \in [Payments -> PayRow]
    /\ item    \in [Payments -> ItemStatus]
    /\ seat    \in [Payments -> BOOLEAN]
    /\ old     \subseteq Payments
    /\ credits \in [Payments -> Seq(Nat)]
    /\ notices \subseteq Notice
    /\ lock    \in [Payments -> Workers \union {NoOne}]
    /\ pc      \in [Workers -> Steps]
    /\ job     \in [Workers -> [pay : Payments, kind : Kinds,
                                amount : Sums \union {Unreported},
                                row : PayRow, seen : ItemStatus]]
    /\ crashes \in 0..MaxCrashes

\* Somebody vouched for at least 98% of the invoice.
Funded == {p \in Payments : \E n \in notices :
               n.pay = p /\ n.kind \in PaidKinds /\ 100 * n.amount >= 98 * Invoice}

\* An underpaid invoice is recorded but never provisions and never credits,
\* whichever notices come first (README "An underpaid crypto invoice is
\* recorded but never provisions").
NothingUnfunded ==
    \A p \in Payments : item[p] \in {"paid", "completed", "credited"} => p \in Funded

\* However often and in whatever order the notices of one payment arrive, its
\* top-up reaches the wallet once (credit_topup "Idempotent").
CreditedOnce == \A p \in TopUps : Len(credits[p]) <= 1

\* A credit is the invoice or a larger sum some provider reported, plus the
\* bonus: never a sum of two reports, never the bonus twice.
CreditIsReported ==
    \A p \in TopUps : \A i \in 1..Len(credits[p]) :
        credits[p][i] - Bonus \in
            {Invoice} \union {n.amount : n \in {m \in notices : m.pay = p /\ m.kind \in PaidKinds}}

\* What keeps the sweeper off an order: it holds no seat, or its card was never
\* declined and its payment is younger than 26 hours.
Spared(p) == p \notin Discounted \/ ("declined" \notin Announced(p) /\ p \notin old)

\* Once the shop has accepted the money, the order is on its way or delivered:
\* no interleaving leaves it cancelled (README "The sale is never lost"), nor does
\* the sweeper while the payment can be expected ("Cancelling an order that can
\* still be paid is far worse than holding a seat a few hours longer").
SaleNeverLost ==
    \A p \in OrderPayments : pay[p].settled /\ Spared(p) => item[p] \in {"paid", "completed"}

\* A cancelled order has given its coupon seat back, or a worker is about to.
CancelledFreesSeat ==
    \A p \in OrderPayments :
        item[p] = "cancelled" =>
            \/ ~seat[p]
            \/ \E w \in Workers : pc[w] = "ipn_release" /\ job[w].pay = p

\* The hook that credits a top-up credits at least what its own settlement
\* recorded (payable_usd "never less than they actually handed over either").
OverpaymentCredited ==
    [][\A w \in Workers :
          OnCommit(w) /\ credits' # credits =>
              LET p == job[w].pay
              IN  credits'[p][Len(credits'[p])] >= Larger(Invoice, job[w].amount) + Bonus]_vars

\* The payments behave as promised: funded, settled once, handed over once.
Settled == {p \in Payments : pay[p].settled}
Handed  == [p \in Payments |->
               IF p \in OrderPayments THEN (IF item[p] = "completed" THEN 1 ELSE 0)
               ELSE Len(credits[p])]
Promise == INSTANCE SalePromise WITH funded <- Funded, settled <- Settled, handed <- Handed
PromiseKept == Promise!Spec
-----------------------------------------------------------------------------
\* Stripe repeats a webhook until it is answered; Postgres and the web workers
\* finish what they started; retry_orders runs every twenty minutes.
Succeeded(p)  == [pay |-> p, kind |-> "succeeded", amount |-> Invoice]
Redeliver(p)  == Succeeded(p) \in notices /\ \E w \in Workers : SettleBegin(w, Succeeded(p))
Proceed(w)    == \/ SettleCommit(w) \/ OnCommit(w) \/ DeclineSave(w) \/ ReleaseSeat(w)
                 \/ IpnItem(w) \/ IpnClose(w) \/ IpnSave(w)

FairSpec ==
    /\ Spec
    /\ \A w \in Workers  : WF_vars(Proceed(w))
    /\ \A p \in Card     : SF_vars(Redeliver(p))
    /\ \A p \in Payments : WF_vars(Sweep(p))

\* A card that was charged ends in a delivered order, even when workers die in
\* between: the webhook is repeated and the sweeper picks up what was paid.  An
\* order with a coupon may be lost to expire_coupon_holds instead, after a decline
\* or when the shop has not heard of the money for 26 hours.
ChargedIsDelivered ==
    \A p \in OrderPayments \intersect Card :
        (Succeeded(p) \in notices) ~> (item[p] = "completed" \/ ~Spared(p))
=============================================================================
