------------------------------- MODULE Prices -------------------------------
(***************************************************************************)
(* What things cost: apps/catalog/pricing.py, the subscription price of    *)
(* apps/subscriptions/services.py and catalogue.py, the discount of a      *)
(* coupon (apps/coupons/models.py) and the bonus of a top-up               *)
(* (apps/wallet/services.py).  Money is counted in cents, rates and        *)
(* factors in percent; wholesale prices are in euro cents.                 *)
(***************************************************************************)
EXTENDS Integers, FiniteSetsExt

CONSTANTS
    EUR_USD_RATE,               \* 110: a dollar ten for a euro
    PRICING_MARKUP,             \* 235
    PRICING_MIN_MARGIN_USD,     \* 60
    PRICING_MIN_PRICE_USD,      \* 149
    PRICING_COMPARE_MULTIPLIER, \* 400
    SUBSCRIPTION_DISCOUNT_PCT,  \* 10
    MIN_CHARGE_USD,             \* 50
    WALLET_BONUS_TIERS,         \* pairs <<pay, bonus>>
    NoPrice                     \* None where a price could be

ASSUME PricesAssumption ==
    /\ \A k \in {EUR_USD_RATE, PRICING_MARKUP, PRICING_MIN_MARGIN_USD, PRICING_MIN_PRICE_USD,
                 PRICING_COMPARE_MULTIPLIER, MIN_CHARGE_USD} : k \in Nat
    /\ SUBSCRIPTION_DISCOUNT_PCT \in 0..100
    /\ WALLET_BONUS_TIERS \subseteq Nat \X Nat
    /\ NoPrice \notin Int

AtLeast(a, b) == IF a >= b THEN a ELSE b
AtMost(a, b)  == IF a <= b THEN a ELSE b

\* A hundredth of n, rounded half up: quantize(CENT) after a factor in percent.
Cent(n) == (n + 50) \div 100
-----------------------------------------------------------------------------
\* cost_to_usd of a wholesale price in euros; a price in any other currency is
\* taken as it is, which is the case EUR_USD_RATE = 100.
CostToUsd(cost) == Cent(cost * EUR_USD_RATE)

\* What a sale must bring in: wholesale and the least margin.
Floor(cost) == CostToUsd(cost) + PRICING_MIN_MARGIN_USD

\* charm: up to the next price that ends in 49 or 99.
Charm(price) == (price - (price % 50)) + 49

\* _charm_down: down to the one before, but never below zero.
CharmDown(price) ==
    IF price % 100 = 99 \/ price % 100 = 49 THEN price
    ELSE IF price < 49 THEN price
    ELSE (price - (price % 50)) - 1

\* retail_usd: the markup, the least margin, the least price, then the ending.
Retail(cost) ==
    Charm(Cent(AtLeast(AtLeast(CostToUsd(cost) * PRICING_MARKUP, 100 * Floor(cost)),
                       100 * PRICING_MIN_PRICE_USD)))

\* compare_at_usd: the price that is shown struck through.
CompareAt(cost) ==
    Charm(Cent(AtLeast(CostToUsd(cost) * PRICING_COMPARE_MULTIPLIER,
                       100 * (PRICING_MIN_PRICE_USD + 150))))

\* discount_pct, rounded half up.
DiscountPct(price, list) ==
    IF list = NoPrice \/ list <= price THEN 0
    ELSE (200 * (list - price) + list) \div (2 * list)
-----------------------------------------------------------------------------
\* The agreed price stands whatever wholesale does.
AgreedAnyway(agreed, cost) == agreed

\* fixed_price: the price agreed for a plan of the menu, unless wholesale has
\* risen past it.
FixedPrice(agreed, cost) == IF agreed = NoPrice \/ agreed < Floor(cost) THEN NoPrice ELSE agreed

\* subscription_price for a plan without an agreed price: the discount, down to
\* an ending below the one-off price, but not below the floor.
Discounted(oneOff, cost) ==
    LET target == Cent(oneOff * (100 - SUBSCRIPTION_DISCOUNT_PCT))
        price  == IF Charm(target) < oneOff THEN Charm(target) ELSE CharmDown(target)
        held   == IF price < Floor(cost) THEN Charm(Floor(cost)) ELSE price
    IN AtMost(held, oneOff)

SubscriptionPrice(oneOff, cost, agreed) ==
    LET fixed == FixedPrice(agreed, cost)
    IN IF fixed = NoPrice THEN Discounted(oneOff, cost)
       ELSE IF oneOff > 0 THEN AtMost(fixed, oneOff) ELSE fixed

\* Coupon.discount_for, by percentage with a limit or by amount.
DiscountFor(amount, percent, limit, off) ==
    LET wanted == IF percent > 0
                  THEN IF limit = NoPrice THEN Cent(amount * percent)
                       ELSE AtMost(Cent(amount * percent), limit)
                  ELSE off
    IN IF amount <= 0 THEN 0 ELSE AtLeast(AtMost(wanted, amount - MIN_CHARGE_USD), 0)

\* bonus_for: the bonus of the highest tier that was reached.
BonusFor(amount) ==
    LET reached == {t \in WALLET_BONUS_TIERS : t[1] <= amount}
    IN IF reached = {} THEN 0
       ELSE (CHOOSE t \in reached : \A u \in reached : u[1] <= t[1])[2]
=============================================================================
