------------------------------- MODULE Coupons -------------------------------
(***************************************************************************)
(* Seats of one capped discount code: apps/coupons/services.py, the        *)
(* expire_coupon_holds sweeper and the places that redeem and release.     *)
(*                                                                         *)
(* A checkout validates the code without a lock, creates its order,        *)
(* redeems under the coupon's row lock and then asks for the money.  Seats *)
(* come back when the checkout fails, a card is declined, an invoice dies  *)
(* or the sweeper finds the order abandoned.  Notices about one order are  *)
(* handled one after another here; Settlement is about their races.        *)
(***************************************************************************)
EXTENDS Integers, FiniteSets

CONSTANTS
    Orders,         \* orders placed with the code, one checkout each
    CardOrders,     \* those paid by card: a decline leaves the session open
    Person,         \* the customer behind each order
    Cap,            \* Coupon.max_redemptions
    OncePerCustomer, FirstOrderOnly,    \* the coupon's two identity rules
    OperatorEdits,  \* whether the operator edits the coupon in the admin
    MaxCrashes,     \* bound: requests that die half way
    NoOne           \* no lock holder, nothing at hand

ASSUME OrdersAssumption == IsFiniteSet(Orders) /\ CardOrders \subseteq Orders
ASSUME CouponAssumption ==
    Cap \in Nat /\ OncePerCustomer \in BOOLEAN /\ FirstOrderOnly \in BOOLEAN
ASSUME BoundsAssumption ==
    OperatorEdits \in BOOLEAN /\ MaxCrashes \in Nat /\ NoOne \notin Orders

VARIABLES
    active,     \* Coupon.is_active (and inside its dates)
    counter,    \* Coupon.redemptions
    seats,      \* CouponRedemption rows, by order
    lock,       \* the checkout holding the coupon row
    edit,       \* the counter an operator's request read with the coupon
    order,      \* Order.status
    discounted, \* orders priced with the discount
    attempt,    \* Payment.status of the order's payment; "late" is paid, but by
                \* money that came after the invoice was dead or after 26 hours
    age,        \* 1: the order is over two hours old, 2: its payment over 26
    pc,         \* each checkout's next step
    notice,     \* each notice handler's next step
    seen,       \* the status a settlement read
    cron,       \* the order the sweeper judged abandoned
    crashes

vars == <<active, counter, seats, lock, edit, order, discounted, attempt, age,
          pc, notice, seen, cron, crashes>>

Init ==
    /\ active     = TRUE
    /\ counter    = 0
    /\ seats      = {}
    /\ lock       = NoOne
    /\ edit       = NoOne
    /\ order      = [o \in Orders |-> "none"]
    /\ discounted = {}
    /\ attempt    = [o \in Orders |-> "none"]
    /\ age        = [o \in Orders |-> 0]
    /\ pc         = [o \in Orders |-> "validate"]
    /\ notice     = [o \in Orders |-> "idle"]
    /\ seen       = [o \in Orders |-> "none"]
    /\ cron       = NoOne
    /\ crashes    = 0
-----------------------------------------------------------------------------
Step(o, next) == pc' = [pc EXCEPT ![o] = next]
Note(o, next) == notice' = [notice EXCEPT ![o] = next]

\* The identity rules are left to validate_coupon and not checked again.
SpendableByAnyone(o) == active /\ counter < Cap

\* The rules of the code: live, a seat left, not used by this customer before,
\* and no earlier purchase where it is for a first order.
Spendable(o) ==
    /\ active
    /\ counter < Cap
    /\ OncePerCustomer => \A x \in seats : Person[x] # Person[o]
    /\ FirstOrderOnly  => \A x \in Orders : Person[x] = Person[o] => order[x] # "paid"

\* validate_coupon, without a lock; a customer whose code is refused stops here.
Validate(o) ==
    /\ pc[o] = "validate"
    /\ Spendable(o)
    /\ Step(o, "create")
    /\ UNCHANGED <<active, counter, seats, lock, edit, order, discounted, attempt, age,
                   notice, seen, cron, crashes>>

\* Order.objects.create, already at the discounted price.
Create(o) ==
    /\ pc[o] = "create"
    /\ order' = [order EXCEPT ![o] = "pending"]
    /\ discounted' = discounted \union {o}
    /\ Step(o, "redeem")
    /\ UNCHANGED <<active, counter, seats, lock, edit, attempt, age, notice, seen, cron, crashes>>

\* redeem() reads the coupon without select_for_update().
RedeemUnlocked(o) ==
    /\ pc[o] = "redeem"
    /\ IF Spendable(o) THEN Step(o, "burn") ELSE Step(o, "refused")
    /\ UNCHANGED <<active, counter, seats, lock, edit, order, discounted, attempt, age,
                   notice, seen, cron, crashes>>

\* redeem: the coupon row is locked and every rule checked again.  An order
\* redeems once, so the "existing" row of a second call is not found here.
RedeemLock(o) ==
    /\ pc[o] = "redeem"
    /\ lock = NoOne
    /\ IF Spendable(o) THEN lock' = o /\ Step(o, "burn") ELSE UNCHANGED lock /\ Step(o, "refused")
    /\ UNCHANGED <<active, counter, seats, edit, order, discounted, attempt, age,
                   notice, seen, cron, crashes>>

\* The counter and the row move in one commit.
Burn(o) ==
    /\ pc[o] = "burn"
    /\ counter' = counter + 1
    /\ seats' = seats \union {o}
    /\ lock' = NoOne
    /\ Step(o, "pay")
    /\ UNCHANGED <<active, edit, order, discounted, attempt, age, notice, seen, cron, crashes>>

\* CouponError at redemption: the order goes back to full price and stays there.
FullPrice(o) ==
    /\ pc[o] = "refused"
    /\ discounted' = discounted \ {o}
    /\ Step(o, "done")
    /\ UNCHANGED <<active, counter, seats, lock, edit, order, attempt, age, notice, seen,
                   cron, crashes>>

\* start_payment / payment_sheet sends the customer to the provider.
OpenSession(o) ==
    /\ pc[o] = "pay"
    /\ attempt' = [attempt EXCEPT ![o] = "live"]
    /\ Step(o, "done")
    /\ UNCHANGED <<active, counter, seats, lock, edit, order, discounted, age, notice, seen,
                   cron, crashes>>

\* pay_order_with_balance: debit and PAID in one transaction.
PayBalance(o) ==
    /\ pc[o] = "pay"
    /\ order' = [order EXCEPT ![o] = IF @ = "pending" THEN "paid" ELSE @]
    /\ Step(o, "done")
    /\ UNCHANGED <<active, counter, seats, lock, edit, discounted, attempt, age, notice, seen,
                   cron, crashes>>

\* PaymentError, InAppError or InsufficientBalance: release, then FAILED.
PayFails(o) ==
    /\ pc[o] = "pay"
    /\ Step(o, "look")
    /\ UNCHANGED <<active, counter, seats, lock, edit, order, discounted, attempt, age, notice,
                   seen, cron, crashes>>

\* Every release takes one off the counter, whatever the rows say by now.
HandBackBlind(o) == counter' = counter - 1 /\ seats' = seats \ {o}

\* release(), under the coupon's lock: the rows are read again before the
\* counter moves, and the counter stops at zero.
HandBack(o) ==
    /\ seats' = seats \ {o}
    /\ counter' = IF o \in seats /\ counter > 0 THEN counter - 1 ELSE counter

\* release() first looks for rows without a lock and returns when it has none.
CheckoutRelease(o) ==
    /\ \/ /\ pc[o] = "look"
          /\ Step(o, IF o \in seats THEN "handback" ELSE "fail")
          /\ UNCHANGED <<counter, seats>>
       \/ /\ pc[o] = "handback" /\ lock = NoOne
          /\ HandBack(o)
          /\ Step(o, "fail")
    /\ UNCHANGED <<active, lock, edit, order, discounted, attempt, age, notice, seen, cron, crashes>>

Fail(o) ==
    /\ pc[o] = "fail"
    /\ order' = [order EXCEPT ![o] = "failed"]
    /\ Step(o, "done")
    /\ UNCHANGED <<active, counter, seats, lock, edit, discounted, attempt, age, notice, seen,
                   cron, crashes>>
-----------------------------------------------------------------------------
\* Time: the order is two hours old, its payment 26, which is when the sweeper
\* stops to count it as live; a notice that came by then is handled by then.
Grow(o) ==
    /\ pc[o] = "done"
    /\ age[o] < 2
    /\ age[o] = 1 => notice[o] = "idle"
    /\ age' = [age EXCEPT ![o] = @ + 1]
    /\ UNCHANGED <<active, counter, seats, lock, edit, order, discounted, attempt, pc, notice,
                   seen, cron, crashes>>

\* The provider can still take the money and say so, for a declined card, for an
\* invoice it had reported dead and however late.
Payable(o) == attempt[o] \in {"live", "declined", "dead"}
Late(o)    == attempt[o] = "dead" \/ age[o] = 2

\* settle_payment reads the order ...
SettleRead(o) ==
    /\ Payable(o)
    /\ notice[o] = "idle"
    /\ seen' = [seen EXCEPT ![o] = order[o]]
    /\ Note(o, "settle")
    /\ UNCHANGED <<active, counter, seats, lock, edit, order, discounted, attempt, age, pc,
                   cron, crashes>>

\* ... and mark_paid() writes on the strength of that.
SettleWrite(o) ==
    /\ notice[o] = "settle"
    /\ order' = [order EXCEPT ![o] = IF seen[o] = "pending" THEN "paid" ELSE @]
    /\ attempt' = [attempt EXCEPT ![o] = IF Late(o) THEN "late" ELSE "paid"]
    /\ Note(o, "idle")
    /\ UNCHANGED <<active, counter, seats, lock, edit, discounted, age, pc, seen, cron, crashes>>

\* settle_stripe_intent(failed=True): the payment fails, the order stays PENDING.
Decline(o) ==
    /\ o \in CardOrders
    /\ Payable(o)
    /\ notice[o] = "idle"
    /\ attempt' = [attempt EXCEPT ![o] = "declined"]
    /\ Note(o, "look")
    /\ UNCHANGED <<active, counter, seats, lock, edit, order, discounted, age, pc, seen,
                   cron, crashes>>

\* A dead NOWPayments invoice: the order is read, then cancelled.
DeadRead(o) ==
    /\ o \notin CardOrders
    /\ attempt[o] = "live"
    /\ notice[o] = "idle"
    /\ Note(o, IF order[o] = "pending" THEN "close" ELSE "save")
    /\ UNCHANGED <<active, counter, seats, lock, edit, order, discounted, attempt, age, pc,
                   seen, cron, crashes>>

DeadClose(o) ==
    /\ notice[o] = "close"
    /\ order' = [order EXCEPT ![o] = "cancelled"]
    /\ Note(o, "look")
    /\ UNCHANGED <<active, counter, seats, lock, edit, discounted, attempt, age, pc, seen,
                   cron, crashes>>

\* release(), called by the decline and by the dead invoice.
Released(o) == IF o \in CardOrders THEN "idle" ELSE "save"

NoticeRelease(o) ==
    /\ \/ /\ notice[o] = "look"
          /\ Note(o, IF o \in seats THEN "handback" ELSE Released(o))
          /\ UNCHANGED <<counter, seats>>
       \/ /\ notice[o] = "handback" /\ lock = NoOne
          /\ HandBack(o)
          /\ Note(o, Released(o))
    /\ UNCHANGED <<active, lock, edit, order, discounted, attempt, age, pc, seen, cron, crashes>>

DeadSave(o) ==
    /\ notice[o] = "save"
    /\ attempt' = [attempt EXCEPT ![o] = "dead"]
    /\ Note(o, "idle")
    /\ UNCHANGED <<active, counter, seats, lock, edit, order, discounted, age, pc, seen,
                   cron, crashes>>
-----------------------------------------------------------------------------
\* Payments are not looked at.
AbandonedByAge(o) == order[o] = "pending" /\ age[o] >= 1 /\ o \in seats

\* Only orders that never got as far as a payment.
AbandonedEarly(o) ==
    order[o] = "pending" /\ age[o] >= 1 /\ o \in seats /\ attempt[o] = "none"

\* expire_coupon_holds: old, unpaid, holding a seat, and no payment that is
\* still young enough to settle.
Abandoned(o) ==
    /\ order[o] = "pending"
    /\ age[o] >= 1
    /\ o \in seats
    /\ attempt[o] = "live" => age[o] = 2

SweepPick(o) ==
    /\ cron = NoOne
    /\ Abandoned(o)
    /\ cron' = o
    /\ UNCHANGED <<active, counter, seats, lock, edit, order, discounted, attempt, age, pc,
                   notice, seen, crashes>>

\* _expire_hold, under the order's lock: the status is checked again, the seat
\* released and the order cancelled in one transaction.
SweepExpire ==
    /\ cron # NoOne
    /\ lock = NoOne
    /\ IF order[cron] = "pending"
       THEN HandBack(cron) /\ order' = [order EXCEPT ![cron] = "cancelled"]
       ELSE UNCHANGED <<counter, seats, order>>
    /\ cron' = NoOne
    /\ UNCHANGED <<active, lock, edit, discounted, attempt, age, pc, notice, seen, crashes>>
-----------------------------------------------------------------------------
\* The coupon's admin form is submitted: the row is read without a lock, and
\* saved whole -- its read-only counter included.
EditLoad ==
    /\ OperatorEdits
    /\ edit = NoOne /\ active
    /\ edit' = counter
    /\ UNCHANGED <<active, counter, seats, lock, order, discounted, attempt, age, pc, notice,
                   seen, cron, crashes>>

\* The operator switched the code off, or changed something else.
EditSave ==
    /\ edit # NoOne
    /\ lock = NoOne
    /\ counter' = edit
    /\ active' \in {active, FALSE}
    /\ edit' = NoOne
    /\ UNCHANGED <<seats, lock, order, discounted, attempt, age, pc, notice, seen, cron, crashes>>

\* valid_until passes.
Expire ==
    /\ active
    /\ active' = FALSE
    /\ UNCHANGED <<counter, seats, lock, edit, order, discounted, attempt, age, pc, notice,
                   seen, cron, crashes>>

\* The request behind a checkout or a notice dies; its transaction rolls back.
Crash(o) ==
    /\ crashes < MaxCrashes
    /\ crashes' = crashes + 1
    /\ \/ /\ pc[o] \notin {"validate", "done"}
          /\ Step(o, "done")
          /\ lock' = IF lock = o THEN NoOne ELSE lock
          /\ UNCHANGED notice
       \/ /\ notice[o] # "idle"
          /\ Note(o, "idle")
          /\ UNCHANGED <<pc, lock>>
    /\ UNCHANGED <<active, counter, seats, edit, order, discounted, attempt, age, seen, cron>>

Checkout(o) ==
    \/ Validate(o) \/ Create(o) \/ RedeemLock(o) \/ Burn(o) \/ FullPrice(o)
    \/ OpenSession(o) \/ PayBalance(o) \/ PayFails(o) \/ CheckoutRelease(o) \/ Fail(o)

Notices(o) ==
    \/ SettleRead(o) \/ SettleWrite(o) \/ Decline(o)
    \/ DeadRead(o) \/ DeadClose(o) \/ NoticeRelease(o) \/ DeadSave(o)

Next ==
    \/ \E o \in Orders : Checkout(o) \/ Notices(o) \/ Grow(o) \/ SweepPick(o) \/ Crash(o)
    \/ SweepExpire \/ EditLoad \/ EditSave \/ Expire

Spec == Init /\ [][Next]_vars
-----------------------------------------------------------------------------
TypeOK ==
    /\ active     \in BOOLEAN
    /\ counter    \in Nat
    /\ seats      \subseteq Orders
    /\ lock       \in Orders \union {NoOne}
    /\ edit       \in Nat \union {NoOne}
    /\ order      \in [Orders -> {"none", "pending", "paid", "cancelled", "failed"}]
    /\ discounted \subseteq Orders
    /\ attempt    \in [Orders -> {"none", "live", "declined", "paid", "late", "dead"}]
    /\ age        \in [Orders -> 0..2]
    /\ pc         \in [Orders -> {"validate", "create", "redeem", "burn", "refused", "pay",
                                  "look", "handback", "fail", "done"}]
    /\ notice     \in [Orders -> {"idle", "settle", "close", "look", "handback", "save"}]
    /\ seen       \in [Orders -> {"none", "pending", "paid", "cancelled", "failed"}]
    /\ cron       \in Orders \union {NoOne}
    /\ crashes    \in 0..MaxCrashes

\* The counter is the number of rows: no release is counted twice and no
\* redemption is lost, whichever of them race (redeem "is the only place the
\* counter moves").
CounterIsSeats == counter = Cardinality(seats)

\* The last seat of a capped code goes to one of two racing checkouts.
NeverOverClaimed == Cardinality(seats) <= Cap

\* A once-per-customer code is held by one order of a customer, though two tabs
\* may both have passed validation.
SeatPerCustomer ==
    OncePerCustomer => \A x, y \in seats : Person[x] = Person[y] => x = y

\* No more orders are paid at the reduced price than the code has seats ("two
\* people racing the final seat of a capped code cannot both win").
ClaimedWithinCap == Cardinality({o \in discounted : order[o] = "paid"}) <= Cap

\* The sweeper never cancels an order whose money then arrives in time ("Cancelling
\* an order that can still be paid is far worse").
SettledIsPaid == \A o \in Orders : attempt[o] = "paid" => order[o] = "paid"

\* That holds of an invoice paid before it dies and within 26 hours, and whoever
\* paid one so, or out of the balance, at the reduced price has a seat.  Money that
\* comes later may find the order cancelled, and at worst pays for it without one.
InvoicesSettle ==
    \A o \in Orders \ CardOrders :
        /\ attempt[o] = "paid" => order[o] = "paid"
        /\ attempt[o] = "late" => order[o] \in {"paid", "cancelled"}
        /\ order[o] = "paid" /\ o \in discounted /\ attempt[o] # "late" => o \in seats

\* A code for a first order is enjoyed on one order of a customer.
FirstOrderOnce ==
    FirstOrderOnly =>
        \A x, y \in {o \in discounted : order[o] = "paid"} : Person[x] = Person[y] => x = y

\* A dead order holds no seat, except while somebody is handing it back.
DeadHoldsNoSeat ==
    \A o \in seats : order[o] \in {"cancelled", "failed"} => notice[o] \in {"look", "handback"}
-----------------------------------------------------------------------------
\* Requests run to their end, time passes, and the sweeper runs every twenty
\* minutes.  Nothing makes a customer pay or a provider report.
Fairness ==
    /\ \A o \in Orders :
        /\ WF_vars(RedeemLock(o) \/ Burn(o) \/ FullPrice(o) \/ CheckoutRelease(o) \/ Fail(o)
                   \/ OpenSession(o) \/ PayBalance(o) \/ PayFails(o))
        /\ WF_vars(SettleWrite(o) \/ DeadClose(o) \/ NoticeRelease(o) \/ DeadSave(o))
        /\ WF_vars(Grow(o))
        /\ WF_vars(SweepPick(o))
    /\ WF_vars(SweepExpire)
FairSpec == Spec /\ Fairness

\* "An abandoned checkout never eats the last seat of a capped code": a seat is
\* paid for or comes back, though the customer says nothing and requests die -- but
\* for an invoice, whose seat is lost with the request that was to give it back.
SeatComesBack ==
    \A o \in Orders :
        (o \in seats) ~> \/ o \notin seats \/ order[o] = "paid"
                         \/ o \notin CardOrders /\ crashes > 0
=============================================================================
