------------------------------ MODULE Purchase ------------------------------
(***************************************************************************)
(* Buying out of the balance: the POST of the web checkout                 *)
(* (apps/orders/views.py, method "balance"), pay_with_balance of           *)
(* apps/api/views.py, and the order page that reports the sale afterwards. *)
(*                                                                         *)
(* Every POST builds an order of its own.  A click may arrive as several   *)
(* POSTs: a double submit, or an app that heard no answer and asks again.  *)
(* redeem() and the debit hold a row lock up to their commit and are one   *)
(* step each here; Coupons and Wallet take them apart.                     *)
(***************************************************************************)
EXTENDS Naturals, FiniteSets

CONSTANTS
    Posts,      \* POSTs that arrive, all with the same code and plan
    Tap,        \* the click each of them is for
    InApp,      \* those of the app, which asks for the balance first
    Total,      \* the discounted price
    Funds,      \* the balance at the start
    Cap,        \* Coupon.max_redemptions
    Windows,    \* tabs in which order pages are opened
    MaxKilled,  \* bound: requests that die
    NoPost      \* no order page is being built

ASSUME PurchaseAssumption ==
    /\ IsFiniteSet(Posts) /\ InApp \subseteq Posts /\ NoPost \notin Posts
    /\ Total \in Nat /\ Funds \in Nat /\ Cap \in Nat /\ MaxKilled \in Nat

VARIABLES
    post,       \* each POST's next step
    sale,       \* Order.status of the order it built; "full": without the code
    held,       \* orders with a CouponRedemption row
    money,      \* Wallet.balance_usd
    window,     \* the completed order each tab read as not reported
    sent,       \* orders with analytics_sent
    reported,   \* purchase events that went out for each order
    killed

purchaseVars == <<post, sale, held, money, window, sent, reported, killed>>

PurchaseInit ==
    /\ post     = [p \in Posts |-> "ready"]
    /\ sale     = [p \in Posts |-> "none"]
    /\ held     = {}
    /\ money    = Funds
    /\ window   = [w \in Windows |-> NoPost]
    /\ sent     = {}
    /\ reported = [p \in Posts |-> 0]
    /\ killed   = 0
-----------------------------------------------------------------------------
PostGoes(p, step) == post' = [post EXCEPT ![p] = step]
Becomes(p, status) == sale' = [sale EXCEPT ![p] = status]

SeatLeft == Cardinality(held) < Cap

\* validate_coupon, and in the app the balance, are asked without a lock; the
\* order is created at the discounted price.
Submit(p) ==
    /\ post[p] = "ready"
    /\ IF SeatLeft /\ (p \in InApp => money >= Total)
       THEN PostGoes(p, "redeem") /\ Becomes(p, "pending")
       ELSE PostGoes(p, "answered") /\ UNCHANGED sale
    /\ UNCHANGED <<held, money, window, sent, reported, killed>>

\* redeem, under the coupon's lock; an order that gets no seat goes back to the
\* full price, and its customer is told.
Claim(p) ==
    /\ post[p] = "redeem"
    /\ IF SeatLeft
       THEN held' = held \union {p} /\ PostGoes(p, "pay") /\ UNCHANGED sale
       ELSE PostGoes(p, "answered") /\ Becomes(p, "full") /\ UNCHANGED held
    /\ UNCHANGED <<money, window, sent, reported, killed>>

\* pay_order_with_balance: the debit and PAID are one commit.  The order is this
\* POST's own and PENDING, so AlreadyPaid is never raised.
Debit(p) ==
    /\ post[p] = "pay"
    /\ IF money >= Total
       THEN money' = money - Total /\ Becomes(p, "paid") /\ PostGoes(p, "answered")
       ELSE PostGoes(p, "short") /\ UNCHANGED <<money, sale>>
    /\ UNCHANGED <<held, window, sent, reported, killed>>

\* InsufficientBalance: the seat is released ...
GiveBack(p) ==
    /\ post[p] = "short"
    /\ held' = held \ {p}
    /\ PostGoes(p, "fail")
    /\ UNCHANGED <<sale, money, window, sent, reported, killed>>

\* ... and then the order is FAILED.
Refuse(p) ==
    /\ post[p] = "fail"
    /\ Becomes(p, "failed")
    /\ PostGoes(p, "answered")
    /\ UNCHANGED <<held, money, window, sent, reported, killed>>

Kill(p) ==
    /\ killed < MaxKilled
    /\ post[p] \notin {"ready", "answered"}
    /\ killed' = killed + 1
    /\ PostGoes(p, "answered")
    /\ UNCHANGED <<sale, held, money, window, sent, reported>>

\* The sweeper goes by the age of the order and does not look at its status again.
ExpireByAge(p) ==
    /\ post[p] = "answered"
    /\ sale[p] \in {"pending", "paid"}
    /\ held' = held \ {p}
    /\ Becomes(p, "cancelled")
    /\ UNCHANGED <<post, money, window, sent, reported, killed>>

\* _expire_hold, two hours later: a pending order with a code.
ExpireHold(p) ==
    /\ post[p] = "answered"
    /\ sale[p] = "pending"
    /\ held' = held \ {p}
    /\ Becomes(p, "cancelled")
    /\ UNCHANGED <<post, money, window, sent, reported, killed>>

\* The hook of the commit, or the sweeper, provisions the order.
Supply(p) ==
    /\ sale[p] = "paid"
    /\ Becomes(p, "completed")
    /\ UNCHANGED <<post, held, money, window, sent, reported, killed>>
-----------------------------------------------------------------------------
\* order_detail: the order is read, and the page will carry the purchase event ...
OpenPage(w, p) ==
    /\ window[w] = NoPost
    /\ sale[p] = "completed" /\ p \notin sent
    /\ window' = [window EXCEPT ![w] = p]
    /\ UNCHANGED <<post, sale, held, money, sent, reported, killed>>

\* ... the flag is set where it is not, and the page goes out either way.
SendPage(w) ==
    /\ window[w] # NoPost
    /\ sent' = sent \union {window[w]}
    /\ reported' = [reported EXCEPT ![window[w]] = @ + 1]
    /\ window' = [window EXCEPT ![w] = NoPost]
    /\ UNCHANGED <<post, sale, held, money, killed>>

PurchaseNext ==
    \/ \E p \in Posts :
          \/ Submit(p) \/ Claim(p) \/ Debit(p) \/ GiveBack(p) \/ Refuse(p)
          \/ Kill(p) \/ ExpireHold(p) \/ Supply(p)
          \/ \E w \in Windows : OpenPage(w, p)
    \/ \E w \in Windows : SendPage(w)

PurchaseSpec == PurchaseInit /\ [][PurchaseNext]_purchaseVars
-----------------------------------------------------------------------------
PurchaseTypes ==
    /\ post \in [Posts -> {"ready", "redeem", "pay", "short", "fail", "answered"}]
    /\ sale \in [Posts -> {"none", "pending", "full", "paid", "completed", "failed", "cancelled"}]
    /\ held \subseteq Posts /\ money \in Nat
    /\ window \in [Windows -> Posts \union {NoPost}]
    /\ sent \subseteq Posts /\ reported \in [Posts -> Nat] /\ killed \in Nat

Bought(p) == sale[p] \in {"paid", "completed"}

\* A double submit, or a retried request, buys once: what the code says it answers
\* with is the order that is settled already (orders/views.py:260,
\* api/views.py:782).  Fails: each POST built and paid an order of its own.
BoughtOnce == \A p, q \in Posts : Bought(p) /\ Bought(q) /\ Tap[p] = Tap[q] => p = q

\* No sale is reported twice, not by a second tab either (orders/views.py:350,
\* common/analytics.py:10).  Fails: both tabs read the order before one sets the
\* flag, and the result of the conditional update is not looked at.
ReportedOnce == \A p \in Posts : reported[p] <= 1

\* What is gone from the balance is the price of the orders that were bought, and
\* an order bought at the discounted price has its seat, though requests die half
\* way and the sweeper runs.
SpentIsSold ==
    /\ money + Total * Cardinality({p \in Posts : Bought(p)}) = Funds
    /\ \A p \in Posts : Bought(p) => p \in held
=============================================================================
