-------------------------- MODULE CatalogueProofs ---------------------------
(***************************************************************************)
(* Prices for any catalogue, any rates and any number of runs and          *)
(* operators.  Every copy of a row that is written back whole carries its  *)
(* price together with the cost it was computed from; only --reprice-only  *)
(* writes a price by itself, and nothing else may be under way then.       *)
(***************************************************************************)
EXTENDS Catalogue, TLAPS

-----------------------------------------------------------------------------
(* The formulas.                                                           *)

LEMMA CentTypes ==
  ASSUME NEW n \in Nat PROVE Cent(n) \in Nat
BY DEF Cent

LEMMA CentCovers ==
  ASSUME NEW n \in Nat, NEW k \in Nat, n >= 100 * k PROVE Cent(n) >= k
BY DEF Cent

LEMMA CharmTypes ==
  ASSUME NEW n \in Nat PROVE Charm(n) \in Nat /\ Charm(n) >= n /\ Charm(n) > 0
BY DEF Charm

LEMMA CharmDownTypes ==
  ASSUME NEW n \in Nat PROVE CharmDown(n) \in Nat
BY DEF CharmDown

LEMMA FloorTypes ==
  ASSUME NEW cost \in Nat PROVE CostToUsd(cost) \in Nat /\ Floor(cost) \in Nat
<1>1. cost * EUR_USD_RATE \in Nat
  BY PricesAssumption
<1>2. CostToUsd(cost) \in Nat
  BY <1>1, CentTypes DEF CostToUsd
<1> QED
  BY <1>2, PricesAssumption DEF Floor

\* The computed price brings in wholesale and the least margin.
LEMMA RetailCovers ==
  ASSUME NEW cost \in Nat
  PROVE  Retail(cost) \in Nat /\ Retail(cost) >= Floor(cost) /\ Retail(cost) > 0
<1> DEFINE marked == CostToUsd(cost) * PRICING_MARKUP
           base   == AtLeast(AtLeast(marked, 100 * Floor(cost)), 100 * PRICING_MIN_PRICE_USD)
<1>1. marked \in Nat /\ Floor(cost) \in Nat /\ PRICING_MIN_PRICE_USD \in Nat
  BY FloorTypes, PricesAssumption
<1>2. base \in Nat /\ base >= 100 * Floor(cost)
  BY <1>1 DEF AtLeast
<1> HIDE DEF base
<1>3. Cent(base) \in Nat /\ Cent(base) >= Floor(cost)
  BY <1>1, <1>2, CentTypes, CentCovers
<1>4. Charm(Cent(base)) \in Nat /\ Charm(Cent(base)) >= Cent(base) /\ Charm(Cent(base)) > 0
  BY <1>3, CharmTypes
<1>5. Retail(cost) = Charm(Cent(base))
  BY DEF Retail, base
<1> QED
  BY <1>1, <1>3, <1>4, <1>5

LEMMA CompareAtTypes ==
  ASSUME NEW cost \in Nat PROVE CompareAt(cost) \in Nat
<1> DEFINE usd  == CostToUsd(cost)
           base == AtLeast(usd * PRICING_COMPARE_MULTIPLIER, 100 * (PRICING_MIN_PRICE_USD + 150))
<1>0. usd \in Nat /\ PRICING_COMPARE_MULTIPLIER \in Nat /\ PRICING_MIN_PRICE_USD \in Nat
  BY FloorTypes, PricesAssumption
<1> HIDE DEF usd
<1>1. usd * PRICING_COMPARE_MULTIPLIER \in Nat /\ PRICING_MIN_PRICE_USD \in Nat
  BY <1>0
<1>2. base \in Nat
  BY <1>1 DEF AtLeast
<1> HIDE DEF base
<1>3. Charm(Cent(base)) \in Nat
  BY <1>2, CentTypes, CharmTypes
<1> QED
  BY <1>3 DEF CompareAt, base, usd

\* What a subscriber is asked for lies between the floor and the one-off price,
\* whatever the discount and the price agreed for the plan.
LEMMA SubscriptionRails ==
  ASSUME NEW oneOff \in Nat, NEW cost \in Nat, NEW agreed \in Nat \union {NoPrice}, oneOff > 0
  PROVE  /\ SubscriptionPrice(oneOff, cost, agreed) <= oneOff
         /\ oneOff >= Floor(cost) => SubscriptionPrice(oneOff, cost, agreed) >= Floor(cost)
<1> DEFINE fixed == FixedPrice(agreed, cost)
<1>1. Floor(cost) \in Nat
  BY FloorTypes
<1>2. CASE fixed # NoPrice
  <2>1. fixed \in Nat /\ fixed >= Floor(cost)
    BY <1>1, <1>2 DEF FixedPrice
  <2>2. SubscriptionPrice(oneOff, cost, agreed) = AtMost(fixed, oneOff)
    BY <1>2 DEF SubscriptionPrice
  <2> QED
    BY <1>1, <2>1, <2>2 DEF AtMost
<1>3. CASE fixed = NoPrice
  <2> DEFINE target == Cent(oneOff * (100 - SUBSCRIPTION_DISCOUNT_PCT))
             price  == IF Charm(target) < oneOff THEN Charm(target) ELSE CharmDown(target)
             held   == IF price < Floor(cost) THEN Charm(Floor(cost)) ELSE price
  <2>1. oneOff * (100 - SUBSCRIPTION_DISCOUNT_PCT) \in Nat
    BY PricesAssumption
  <2>2. target \in Nat
    BY <2>1, CentTypes
  <2> HIDE DEF target
  <2>3. price \in Nat
    BY <2>2, CharmTypes, CharmDownTypes
  <2> HIDE DEF price
  <2>4. held \in Nat /\ held >= Floor(cost)
    BY <1>1, <2>3, CharmTypes
  <2> HIDE DEF held
  <2>5. SubscriptionPrice(oneOff, cost, agreed) = AtMost(held, oneOff)
    BY <1>3 DEF SubscriptionPrice, Discounted, held, price, target
  <2> QED
    BY <1>1, <2>4, <2>5 DEF AtMost
<1> QED
  BY <1>2, <1>3

\* A coupon leaves the least sum a card can be charged, or takes nothing off.
THEOREM CouponLeavesACharge ==
  ASSUME NEW amount \in Nat, NEW percent \in Nat, NEW limit \in Nat \union {NoPrice},
         NEW off \in Nat
  PROVE  LET discount == DiscountFor(amount, percent, limit, off)
         IN discount \in Nat /\ (discount = 0 \/ amount - discount >= MIN_CHARGE_USD)
<1> DEFINE share  == Cent(amount * percent)
           wanted == IF percent > 0
                     THEN IF limit = NoPrice THEN share ELSE AtMost(share, limit)
                     ELSE off
<1>1. amount * percent \in Nat /\ MIN_CHARGE_USD \in Nat
  BY PricesAssumption
<1>2. share \in Nat
  BY <1>1, CentTypes
<1> HIDE DEF share
<1>3. wanted \in Nat
  BY <1>2 DEF AtMost
<1> HIDE DEF wanted
<1>4. DiscountFor(amount, percent, limit, off)
        = IF amount <= 0 THEN 0 ELSE AtLeast(AtMost(wanted, amount - MIN_CHARGE_USD), 0)
  BY DEF DiscountFor, wanted, share
<1> QED
  BY <1>1, <1>3, <1>4 DEF AtLeast, AtMost

-----------------------------------------------------------------------------
(* The rows.                                                               *)

Money == Nat \union {NoPrice}

\* A row, and a row whose price was computed from the cost beside it.
Row == [cost : Nat, price : Nat, list : Nat, override : Overrides, on : BOOLEAN, listed : BOOLEAN]
Priced == {w \in Row : w.price = Retail(w.cost)}

\* A run has the fields of IdleRun, and holds rows, prices and plans in them.
RunShape(x) ==
    x = [stage |-> x.stage, offer |-> x.offer, todo |-> x.todo, copy |-> x.copy,
         draft |-> x.draft, figures |-> x.figures, holds |-> x.holds]

RunInv(x) ==
    /\ RunShape(x)
    /\ x.todo \subseteq Plans
    /\ x.stage \notin {"rows", "reprice"} => ~x.holds /\ x.copy = NoRow
    /\ x.stage = "reprice" => ~x.holds /\ x.copy = NoRow
    /\ x.stage \in {"rows", "reprice"} =>
          x.offer \in [Plans -> Money] /\ \A p \in x.todo : x.offer[p] \in Nat
    /\ x.copy # NoRow => x.copy \in Row /\ x.todo # {}
    /\ x.draft \in [Plans -> Priced \union {NoRow}]

\* --reprice-only knows the costs of the rows it has still to write, and is alone.
Alone(r) ==
    /\ \A p \in run[r].todo : plan[p] \in Row /\ plan[p].cost = run[r].offer[p]
    /\ \A s \in Runs \ {r} : run[s].stage = "idle"
    /\ \A o \in Admins : page[o] = NoPage

PricesInv ==
    /\ feed \in [Plans -> Money]
    /\ plan \in [Plans -> Priced \union {NoRow}]
    /\ run = [r \in Runs |-> run[r]] /\ \A r \in Runs : RunInv(run[r])
    /\ \A r \in Runs : run[r].stage = "reprice" => Alone(r)
    /\ page = [o \in Admins |-> page[o]]
    /\ \A o \in Admins : page[o] # NoPage => page[o] \in [plan : Plans, row : Priced]

LEMMA NewRowPriced ==
  ASSUME NEW cost \in Nat PROVE NewRow(cost) \in Priced
BY RetailCovers, CompareAtTypes, CatalogueAssumption DEF NewRow, Priced, Row

LEMMA InitPrices == CatalogueInit => PricesInv
<1> SUFFICES ASSUME CatalogueInit PROVE PricesInv
  OBVIOUS
<1>1. feed \in [Plans -> Money]
  BY CatalogueAssumption DEF CatalogueInit, Money
<1>2. plan \in [Plans -> Priced \union {NoRow}]
  BY <1>1, NewRowPriced DEF CatalogueInit, Money
<1>3. RunInv(IdleRun)
  BY DEF IdleRun, RunInv, RunShape
<1>4. run = [r \in Runs |-> run[r]] /\ \A r \in Runs : run[r] = IdleRun
  BY DEF CatalogueInit
<1>5. \A r \in Runs : run[r].stage # "reprice"
  BY <1>4 DEF IdleRun
<1> QED
  BY <1>1, <1>2, <1>3, <1>4, <1>5 DEF CatalogueInit, PricesInv

-----------------------------------------------------------------------------
(* The steps of a run that leave every row alone.                          *)

\* What the invariant asks of the runs after one of them took a step.
RunsAfter(r) ==
    /\ run' = [s \in Runs |-> run'[s]]
    /\ \A s \in Runs \ {r} : run'[s] = run[s]
    /\ RunInv(run[r])'

\* Nothing but the run r moved, and it is not repricing unless it was.
LEMMA RunMoves ==
  ASSUME PricesInv, NEW r \in Runs, RunsAfter(r), UNCHANGED <<feed, plan, page>>,
         run[r].stage # "idle" \/ ~Repricing,
         run'[r].stage = "reprice" => Alone(r)'
  PROVE  PricesInv'
<1>1. \A s \in Runs : RunInv(run[s])'
  BY DEF PricesInv, RunsAfter, RunInv, RunShape
<1>2. ASSUME NEW s \in Runs, run'[s].stage = "reprice" PROVE Alone(s)'
  <2>1. CASE s = r
    BY <1>2, <2>1
  <2>2. CASE s # r
    <3>1. run'[s] = run[s] /\ run[s].stage = "reprice" /\ Alone(s)
      BY <1>2, <2>2 DEF PricesInv, RunsAfter
    <3>2. run[r].stage = "idle"
      BY <2>2, <3>1 DEF Alone
    <3> QED
      BY <3>1, <3>2 DEF Repricing
  <2> QED
    BY <2>1, <2>2
<1> QED
  BY <1>1, <1>2 DEF PricesInv, RunsAfter

LEMMA FetchPrices ==
  ASSUME PricesInv, RepriceAlone, NEW r \in Runs, Fetch(r) PROVE PricesInv'
<1>1. RunInv(run[r]) /\ feed \in [Plans -> Money] /\ ~Repricing /\ UNCHANGED <<feed, plan, page>>
  BY DEF Fetch, PricesInv
<1>2. run'[r] = [run[r] EXCEPT !.stage = "rows", !.offer = feed, !.todo = Offered(feed)]
  BY DEF Fetch, PricesInv
<1>3. Offered(feed) \subseteq Plans /\ \A p \in Offered(feed) : feed[p] \in Nat
  BY <1>1 DEF Offered, Money
<1>4. RunInv(run[r])'
  <2>1. run[r].copy = NoRow /\ ~run[r].holds /\ run[r].draft \in [Plans -> Priced \union {NoRow}]
    BY <1>1 DEF Fetch, RunInv
  <2>2. run'[r] = [stage |-> "rows", offer |-> feed, todo |-> Offered(feed), copy |-> NoRow,
                   draft |-> run[r].draft, figures |-> run[r].figures, holds |-> run[r].holds]
    BY <1>1, <1>2, <2>1 DEF RunInv, RunShape
  <2> QED
    BY <1>1, <1>3, <2>1, <2>2 DEF RunInv, RunShape
<1>5. RunsAfter(r)
  BY <1>4 DEF RunsAfter, Fetch, PricesInv
<1>6. run'[r].stage = "rows"
  BY <1>1, <1>2 DEF RunInv, RunShape
<1> QED
  BY <1>1, <1>5, <1>6, RunMoves

LEMMA ReadListingPrices ==
  ASSUME PricesInv, NEW r \in Runs, ReadListing(r) PROVE PricesInv'
<1>1. RunInv(run[r]) /\ run[r].stage = "rows" /\ UNCHANGED <<feed, plan, page>>
  BY DEF ReadListing, PricesInv
<1>2. run'[r] = [run[r] EXCEPT !.figures = listing]
  BY DEF ReadListing, PricesInv
<1>3. RunInv(run[r])' /\ run'[r].stage = "rows"
  BY <1>1, <1>2 DEF RunInv, RunShape
<1>4. RunsAfter(r)
  BY <1>3 DEF RunsAfter, ReadListing, PricesInv
<1> QED
  BY <1>1, <1>3, <1>4, RunMoves

LEMMA SaveListingPrices ==
  ASSUME PricesInv, NEW r \in Runs, SaveListing(r) PROVE PricesInv'
<1>1. RunInv(run[r]) /\ run[r].stage = "rows" /\ UNCHANGED <<feed, plan, page>>
  BY DEF SaveListing, PricesInv
<1>2. run'[r] = [run[r] EXCEPT !.holds = TRUE]
  BY DEF SaveListing, PricesInv
<1>3. RunInv(run[r])' /\ run'[r].stage = "rows"
  BY <1>1, <1>2 DEF RunInv, RunShape
<1>4. RunsAfter(r)
  BY <1>3 DEF RunsAfter, SaveListing, PricesInv
<1> QED
  BY <1>1, <1>3, <1>4, RunMoves

LEMMA CreateRowPrices ==
  ASSUME PricesInv, NEW r \in Runs, NEW p \in Plans, CreateRow(r, p) PROVE PricesInv'
<1>1. RunInv(run[r]) /\ run[r].stage = "rows" /\ UNCHANGED <<feed, plan, page>>
  BY DEF CreateRow, PricesInv, RunInv
<1>2. NewRow(run[r].offer[p]) \in Priced
  BY <1>1, NewRowPriced DEF CreateRow, First, RunInv
<1>3. run'[r] = [run[r] EXCEPT !.draft[p] = NewRow(run[r].offer[p]), !.todo = @ \ {p}]
  BY DEF CreateRow, PricesInv
<1>4. RunInv(run[r])' /\ run'[r].stage = "rows"
  <2> DEFINE drafts == [run[r].draft EXCEPT ![p] = NewRow(run[r].offer[p])]
  <2>1. drafts \in [Plans -> Priced \union {NoRow}] /\ run[r].copy = NoRow
    BY <1>1, <1>2 DEF RunInv, CreateRow
  <2>2. run'[r] = [stage |-> run[r].stage, offer |-> run[r].offer, todo |-> run[r].todo \ {p},
                   copy |-> NoRow, draft |-> drafts, figures |-> run[r].figures,
                   holds |-> run[r].holds]
    BY <1>1, <1>3, <2>1 DEF RunInv, RunShape
  <2> HIDE DEF drafts
  <2> QED
    BY <1>1, <2>1, <2>2 DEF RunInv, RunShape
<1>5. RunsAfter(r)
  BY <1>4 DEF RunsAfter, CreateRow, PricesInv
<1> QED
  BY <1>1, <1>4, <1>5, RunMoves

LEMMA ReadRowPrices ==
  ASSUME PricesInv, NEW r \in Runs, NEW p \in Plans, ReadRow(r, p) PROVE PricesInv'
<1>1. RunInv(run[r]) /\ run[r].stage = "rows" /\ UNCHANGED <<feed, plan, page>>
  BY DEF ReadRow, PricesInv, RunInv
<1>2. plan[p] \in Row /\ run[r].todo # {}
  BY DEF ReadRow, First, PricesInv, Priced
<1>3. run'[r] = [run[r] EXCEPT !.copy = plan[p]]
  BY DEF ReadRow, PricesInv
<1>4. RunInv(run[r])' /\ run'[r].stage = "rows"
  BY <1>1, <1>2, <1>3 DEF RunInv, RunShape
<1>5. RunsAfter(r)
  BY <1>4 DEF RunsAfter, ReadRow, PricesInv
<1> QED
  BY <1>1, <1>4, <1>5, RunMoves

\* The row that is saved was read at some time, the price is of today's cost.
LEMMA SaveRowPrices ==
  ASSUME PricesInv, NEW r \in Runs, NEW p \in Plans, SaveRow(r, p) PROVE PricesInv'
<1> DEFINE new == Resold(run[r].copy, run[r].offer[p])
<1>1. RunInv(run[r]) /\ run[r].stage = "rows" /\ UNCHANGED <<feed, plan, page>>
  BY DEF SaveRow, PricesInv, RunInv
<1>2. run[r].copy \in Row /\ run[r].offer[p] \in Nat
  BY <1>1 DEF SaveRow, First, RunInv
<1>3. new \in Priced
  BY <1>2, RetailCovers DEF Resold, Row, Priced
<1> HIDE DEF new
<1>4. run'[r] = [run[r] EXCEPT !.draft[p] = new, !.todo = @ \ {p}, !.copy = NoRow]
  BY DEF SaveRow, PricesInv, new
<1>5. RunInv(run[r])' /\ run'[r].stage = "rows"
  <2> DEFINE drafts == [run[r].draft EXCEPT ![p] = new]
  <2>1. drafts \in [Plans -> Priced \union {NoRow}]
    BY <1>1, <1>3 DEF RunInv
  <2>2. run'[r] = [stage |-> run[r].stage, offer |-> run[r].offer, todo |-> run[r].todo \ {p},
                   copy |-> NoRow, draft |-> drafts, figures |-> run[r].figures,
                   holds |-> run[r].holds]
    BY <1>1, <1>4 DEF RunInv, RunShape
  <2> HIDE DEF drafts
  <2> QED
    BY <1>1, <2>1, <2>2 DEF RunInv, RunShape
<1>6. RunsAfter(r)
  BY <1>5 DEF RunsAfter, SaveRow, PricesInv
<1> QED
  BY <1>1, <1>5, <1>6, RunMoves

LEMMA ReadFiguresPrices ==
  ASSUME PricesInv, NEW r \in Runs, ReadFigures(r) PROVE PricesInv'
<1>1. RunInv(run[r]) /\ run[r].stage = "figures" /\ UNCHANGED <<feed, plan, page>>
  BY DEF ReadFigures, PricesInv
<1>2. run'[r] = [run[r] EXCEPT !.figures = Figures(Live)]
  BY DEF ReadFigures, PricesInv
<1>3. RunInv(run[r])' /\ run'[r].stage = "figures"
  BY <1>1, <1>2 DEF RunInv, RunShape
<1>4. RunsAfter(r)
  BY <1>3 DEF RunsAfter, ReadFigures, PricesInv
<1> QED
  BY <1>1, <1>3, <1>4, RunMoves

LEMMA FiguresNext ==
  ASSUME NEW x, RunShape(x)
  PROVE  [x EXCEPT !.stage = "figures"]
           = [stage |-> "figures", offer |-> x.offer, todo |-> x.todo, copy |-> x.copy,
              draft |-> x.draft, figures |-> x.figures, holds |-> x.holds]
BY DEF RunShape

LEMMA IdlePriced == RunInv(IdleRun) /\ RunInv([IdleRun EXCEPT !.stage = "figures"])
<1>1. RunInv(IdleRun) /\ IdleRun.todo = {} /\ IdleRun.copy = NoRow /\ ~IdleRun.holds
  BY DEF IdleRun, RunInv, RunShape
<1>2. ASSUME NEW x, RunInv(x), x.todo = {}, x.copy = NoRow, ~x.holds
      PROVE  RunInv([x EXCEPT !.stage = "figures"])
  BY <1>2, FiguresNext DEF RunInv, RunShape
<1> QED
  BY <1>1, <1>2

\* A run that ends, well or badly, or goes on to the figures, with the rows as they are.
LEMMA RunEnds ==
  ASSUME PricesInv, NEW r \in Runs, UNCHANGED <<feed, plan, page>>, run[r].stage # "idle",
         NEW x \in {IdleRun, [IdleRun EXCEPT !.stage = "figures"]},
         run' = [run EXCEPT ![r] = x]
  PROVE  PricesInv'
<1>1. run'[r] = x /\ x.stage # "reprice"
  BY DEF PricesInv, IdleRun
<1>2. RunInv(run[r])'
  BY <1>1, IdlePriced DEF RunInv, RunShape
<1>3. RunsAfter(r)
  BY <1>2 DEF RunsAfter, PricesInv
<1> QED
  BY <1>1, <1>3, RunMoves

-----------------------------------------------------------------------------
(* The steps that write rows.                                              *)

\* The transaction of a run commits; nobody is repricing beside it.
LEMMA CommitPrices ==
  ASSUME PricesInv, NEW r \in Runs, Commit(r) PROVE PricesInv'
<1>1. RunInv(run[r]) /\ run[r].stage = "rows" /\ UNCHANGED <<feed, page>>
  BY DEF Commit, PricesInv
<1>2. \A s \in Runs : run[s].stage # "reprice"
  BY <1>1 DEF PricesInv, Alone
<1>3. plan' \in [Plans -> Priced \union {NoRow}]
  <2>1. \A p \in Retired(r) : plan[p] \in Priced
    BY DEF Retired, PricesInv
  <2>2. \A p \in Retired(r) : [plan[p] EXCEPT !.listed = FALSE] \in Priced
    BY <2>1 DEF Priced, Row
  <2> QED
    BY <1>1, <2>2 DEF Commit, PricesInv, RunInv
<1>4. run' = [run EXCEPT ![r] = [IdleRun EXCEPT !.stage = "figures"]]
  BY DEF Commit
<1>5. [IdleRun EXCEPT !.stage = "figures"].stage = "figures"
  BY DEF IdleRun
<1>6. \A s \in Runs : RunInv(run[s])' /\ run'[s].stage # "reprice"
  BY <1>2, <1>4, <1>5, IdlePriced DEF PricesInv, RunInv, RunShape
<1>7. run' = [s \in Runs |-> run'[s]]
  BY <1>4 DEF PricesInv
<1> QED
  BY <1>1, <1>3, <1>6, <1>7 DEF PricesInv

LEMMA SaveFiguresPrices ==
  ASSUME PricesInv, NEW r \in Runs, SaveFigures(r) PROVE PricesInv'
BY RunEnds DEF SaveFigures

LEMMA RepricedPrices ==
  ASSUME PricesInv, NEW r \in Runs, Repriced(r) PROVE PricesInv'
BY RunEnds DEF Repriced

LEMMA RunDiesPrices ==
  ASSUME PricesInv, NEW r \in Runs, RunDies(r) PROVE PricesInv'
BY RunEnds DEF RunDies

\* All costs are as --reprice-only reads them, and nobody else is under way.
LEMMA RepricePrices ==
  ASSUME PricesInv, RepriceAlone, NEW r \in Runs, Reprice(r) PROVE PricesInv'
<1>1. RunInv(run[r]) /\ run[r].stage = "idle" /\ UNCHANGED <<feed, plan, page>>
  BY DEF Reprice, PricesInv
<1>2. \A p \in Offered(Costs) : p \in Plans /\ plan[p] \in Row /\ Costs[p] = plan[p].cost
  BY CatalogueAssumption DEF Offered, Costs, PricesInv, Priced
<1>3. Costs \in [Plans -> Money] /\ \A p \in Offered(Costs) : Costs[p] \in Nat
  <2>1. \A p \in Plans : plan[p] # NoRow => plan[p].cost \in Nat
    BY DEF PricesInv, Priced, Row
  <2> QED
    BY <2>1 DEF Costs, Offered, Money
<1>4. run'[r] = [stage |-> "reprice", offer |-> Costs, todo |-> Offered(Costs), copy |-> NoRow,
                 draft |-> run[r].draft, figures |-> run[r].figures, holds |-> FALSE]
  <2>1. run'[r] = [run[r] EXCEPT !.stage = "reprice", !.offer = Costs, !.todo = Offered(Costs)]
    BY DEF Reprice, PricesInv
  <2>2. run[r].copy = NoRow /\ run[r].holds = FALSE
    BY <1>1 DEF RunInv, RunShape
  <2> QED
    BY <1>1, <2>1, <2>2 DEF RunInv, RunShape
<1>5. RunInv(run[r])'
  BY <1>1, <1>2, <1>3, <1>4 DEF RunInv, RunShape
<1>6. RunsAfter(r)
  BY <1>5 DEF RunsAfter, Reprice, PricesInv
<1>7. Alone(r)'
  <2>1. \A p \in run'[r].todo : plan'[p] \in Row /\ plan'[p].cost = run'[r].offer[p]
    BY <1>1, <1>2, <1>4
  <2>2. \A s \in Runs \ {r} : run'[s].stage = "idle"
    BY <1>6 DEF RunsAfter, Reprice
  <2>3. \A o \in Admins : page'[o] = NoPage
    BY DEF Reprice
  <2> QED
    BY <2>1, <2>2, <2>3 DEF Alone
<1>8. ~Repricing
  BY DEF Reprice, Repricing
<1> QED
  BY <1>1, <1>6, <1>7, <1>8, RunMoves

\* The price that is written belongs to the cost that is still in the row.
LEMMA RepriceRowPrices ==
  ASSUME PricesInv, NEW r \in Runs, NEW p \in Plans, RepriceRow(r, p) PROVE PricesInv'
<1> DEFINE c == run[r].offer[p]
<1>1. RunInv(run[r]) /\ run[r].stage = "reprice" /\ Alone(r) /\ UNCHANGED <<feed, page>>
  BY DEF RepriceRow, PricesInv
<1>2. plan[p] \in Row /\ plan[p].cost = c /\ c \in Nat
  BY <1>1 DEF RepriceRow, First, Alone, Row
<1> HIDE DEF c
<1>3. plan' = [plan EXCEPT ![p] = [plan[p] EXCEPT !.price = Retail(c), !.list = CompareAt(c)]]
  BY DEF RepriceRow, PricesInv, c
<1>4. [plan[p] EXCEPT !.price = Retail(c), !.list = CompareAt(c)] \in Priced
  BY <1>2, RetailCovers, CompareAtTypes DEF Priced, Row
<1>5. plan' \in [Plans -> Priced \union {NoRow}]
  BY <1>3, <1>4 DEF PricesInv
<1>6. run'[r] = [stage |-> "reprice", offer |-> run[r].offer, todo |-> run[r].todo \ {p},
                 copy |-> run[r].copy, draft |-> run[r].draft, figures |-> run[r].figures,
                 holds |-> run[r].holds]
  <2>1. run'[r] = [run[r] EXCEPT !.todo = @ \ {p}]
    BY DEF RepriceRow, PricesInv
  <2> QED
    BY <1>1, <2>1 DEF RunInv, RunShape
<1>7. RunInv(run[r])'
  BY <1>1, <1>6 DEF RunInv, RunShape
<1>8. RunsAfter(r)
  BY <1>7 DEF RunsAfter, RepriceRow, PricesInv
<1>9. Alone(r)'
  <2>1. \A q \in run[r].todo \ {p} : q \in Plans /\ plan'[q] = plan[q]
    BY <1>1, <1>3 DEF RunInv, PricesInv
  <2>2. \A q \in run'[r].todo : plan'[q] \in Row /\ plan'[q].cost = run'[r].offer[q]
    BY <1>1, <1>6, <2>1 DEF Alone
  <2>3. \A s \in Runs \ {r} : run'[s].stage = "idle"
    BY <1>1, <1>8 DEF Alone, RunsAfter
  <2> QED
    BY <1>1, <2>2, <2>3 DEF Alone
<1>10. \A s \in Runs : RunInv(run[s])' /\ (run'[s].stage = "reprice" => Alone(s)')
  BY <1>7, <1>8, <1>9 DEF RunsAfter, PricesInv, Alone, RunInv, RunShape
<1> QED
  BY <1>1, <1>5, <1>8, <1>10 DEF PricesInv, RunsAfter

\* An operator's list of plans carries the price of the cost that it carries.
LEMMA SavePagePrices ==
  ASSUME PricesInv, NEW o \in Admins, SavePage(o) PROVE PricesInv'
<1> DEFINE p == page[o].plan
<1>1. page[o] # NoPage /\ page[o] \in [plan : Plans, row : Priced] /\ UNCHANGED <<feed, run>>
  BY DEF SavePage, PricesInv
<1>2. p \in Plans /\ page[o].row \in Priced
  BY <1>1
<1>3. PICK price \in Overrides, on \in BOOLEAN :
         plan' = [plan EXCEPT ![p] = [page[o].row EXCEPT !.override = price, !.on = on]]
  BY DEF SavePage
<1>4. [page[o].row EXCEPT !.override = price, !.on = on] \in Priced
  BY <1>2 DEF Priced, Row
<1>5. plan' \in [Plans -> Priced \union {NoRow}]
  BY <1>2, <1>3, <1>4 DEF PricesInv
<1>6. \A r \in Runs : RunInv(run[r])' /\ run'[r].stage # "reprice"
  BY <1>1 DEF PricesInv, Alone, RunInv, RunShape
<1>7. page' = [page EXCEPT ![o] = NoPage]
  BY DEF SavePage
<1>8. page' = [x \in Admins |-> page'[x]]
      /\ \A x \in Admins : page'[x] # NoPage => page'[x] \in [plan : Plans, row : Priced]
  BY <1>7 DEF PricesInv
<1> QED
  BY <1>1, <1>5, <1>6, <1>8 DEF PricesInv

LEMMA LoadPagePrices ==
  ASSUME PricesInv, RepriceAlone, NEW o \in Admins, NEW p \in Plans, LoadPage(o, p)
  PROVE  PricesInv'
<1>1. UNCHANGED <<feed, plan, run>> /\ plan[p] \in Priced
  BY DEF LoadPage, PricesInv
<1>2. \A r \in Runs : RunInv(run[r])' /\ run'[r].stage # "reprice"
  BY <1>1 DEF LoadPage, Repricing, PricesInv, RunInv, RunShape
<1>3. page' = [page EXCEPT ![o] = [plan |-> p, row |-> plan[p]]]
  BY DEF LoadPage
<1>4. page' = [x \in Admins |-> page'[x]]
      /\ \A x \in Admins : page'[x] # NoPage => page'[x] \in [plan : Plans, row : Priced]
  BY <1>1, <1>3 DEF PricesInv
<1> QED
  BY <1>1, <1>2, <1>4 DEF PricesInv

LEMMA FeedMovesPrices ==
  ASSUME PricesInv, NEW p \in Plans, FeedMoves(p) PROVE PricesInv'
<1>1. feed' \in [Plans -> Money] /\ UNCHANGED <<plan, run, page>>
  BY CatalogueAssumption DEF FeedMoves, PricesInv, Money
<1>2. \A r \in Runs : RunInv(run[r])' /\ (run'[r].stage = "reprice" => Alone(r)')
  BY <1>1 DEF PricesInv, RunInv, RunShape, Alone
<1> QED
  BY <1>1, <1>2 DEF PricesInv
-----------------------------------------------------------------------------
(* The theorems.                                                           *)

LEMMA PricesStep ==
  ASSUME PricesInv, RepriceAlone, [CatalogueNext]_catalogueVars PROVE PricesInv'
<1>1. CASE UNCHANGED catalogueVars
  <2>1. UNCHANGED <<feed, plan, run, page>>
    BY <1>1 DEF catalogueVars
  <2>2. \A r \in Runs : RunInv(run[r])' /\ (run'[r].stage = "reprice" => Alone(r)')
    BY <2>1 DEF PricesInv, RunInv, RunShape, Alone
  <2> QED
    BY <2>1, <2>2 DEF PricesInv
<1>2. ASSUME NEW p \in Plans, FeedMoves(p) PROVE PricesInv'
  BY <1>2, FeedMovesPrices
<1>3. ASSUME NEW p \in Plans, NEW o \in Admins, LoadPage(o, p) PROVE PricesInv'
  BY <1>3, LoadPagePrices
<1>4. ASSUME NEW r \in Runs, NEW p \in Plans,
             CreateRow(r, p) \/ ReadRow(r, p) \/ SaveRow(r, p) \/ RepriceRow(r, p)
      PROVE  PricesInv'
  BY <1>4, CreateRowPrices, ReadRowPrices, SaveRowPrices, RepriceRowPrices
<1>5. ASSUME NEW r \in Runs,
             \/ Fetch(r) \/ ReadListing(r) \/ SaveListing(r) \/ Commit(r) \/ ReadFigures(r)
             \/ SaveFigures(r) \/ Reprice(r) \/ Repriced(r) \/ RunDies(r)
      PROVE  PricesInv'
  BY <1>5, FetchPrices, ReadListingPrices, SaveListingPrices, CommitPrices, ReadFiguresPrices,
     SaveFiguresPrices, RepricePrices, RepricedPrices, RunDiesPrices
<1>6. ASSUME NEW o \in Admins, SavePage(o) PROVE PricesInv'
  BY <1>6, SavePagePrices
<1> QED
  BY <1>1, <1>2, <1>3, <1>4, <1>5, <1>6 DEF CatalogueNext, RunStep

\* MarginKept for every catalogue: provided that --reprice-only runs alone, no
\* interleaving of syncs, crashes and operators sells a plan below its wholesale
\* price and the least margin, unless an operator priced it by hand.
THEOREM MarginAlwaysKept ==
  ASSUME RepriceAlone PROVE CatalogueSpec => []MarginKept
<1>1. PricesInv => MarginKept
  BY RetailCovers DEF PricesInv, Priced, Row, MarginKept, PriceOf
<1>2. PricesInv /\ [CatalogueNext]_catalogueVars => PricesInv'
  BY PricesStep
<1> QED
  BY <1>1, <1>2, InitPrices, PTL DEF CatalogueSpec

\* SubscriberGains for every menu of agreed prices: the two rails of
\* subscription_price hold in every state, unless an operator gives a plan away.
THEOREM SubscriberAlwaysGains ==
  ASSUME RepriceAlone, 0 \notin Overrides PROVE CatalogueSpec => []SubscriberGains
<1>1. ASSUME PricesInv PROVE SubscriberGains
  <2> SUFFICES ASSUME NEW p \in Live
               PROVE  /\ Asked(p) <= PriceOf(plan[p])
                      /\ Asked(p) >= Floor(plan[p].cost) \/ plan[p].override # NoPrice
    BY DEF SubscriberGains
  <2>1. p \in Plans /\ plan[p] \in Priced
    BY <1>1 DEF Live, PricesInv
  <2>2. plan[p].cost \in Nat /\ PriceOf(plan[p]) \in Nat /\ PriceOf(plan[p]) > 0
    <3>1. plan[p].cost \in Nat /\ plan[p].price = Retail(plan[p].cost) /\ plan[p].override \in Overrides
      BY <2>1 DEF Priced, Row
    <3>2. plan[p].price \in Nat /\ plan[p].price > 0
      BY <3>1, RetailCovers
    <3>3. plan[p].override # NoPrice => plan[p].override \in Nat /\ plan[p].override # 0
      BY <3>1, CatalogueAssumption
    <3> QED
      BY <3>1, <3>2, <3>3 DEF PriceOf
  <2>3. Agreed[p] \in Nat \union {NoPrice}
    BY <2>1, CatalogueAssumption
  <2>4. plan[p].override = NoPrice => PriceOf(plan[p]) >= Floor(plan[p].cost)
    BY <2>1, <2>2, RetailCovers DEF Priced, PriceOf
  <2> QED
    BY <2>2, <2>3, <2>4, SubscriptionRails DEF Asked
<1>2. PricesInv /\ [CatalogueNext]_catalogueVars => PricesInv'
  BY PricesStep
<1> QED
  BY <1>1, <1>2, InitPrices, PTL DEF CatalogueSpec
=============================================================================
