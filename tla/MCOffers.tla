------------------------------ MODULE MCOffers ------------------------------
(* What the shop offers, one component at a time: the prices of a destination  *)
(* with two plans, the first on the subscription menu and the second for sale  *)
(* at first, and rewards for invitations.  The two share no state, so a        *)
(* behaviour is one of one of them.                                            *)
EXTENDS Referral, Catalogue

CONSTANTS ann, bob, t1, t2, t3, w1, w2, \* customers, their top-ups, workers
          r1, r2, op1                   \* runs of sync_plans, an operator

VARIABLE offer

\* bob tops up twice, each time less than the threshold, with a bonus once and with
\* more than the invoice once; ann tops up too, and either may have invited the other.
MCUsers   == {ann, bob}
MCWorkers == {w1, w2}
MCTopUps  == {t1, t2, t3}
MCOwner   == [t \in MCTopUps |-> IF t = t3 THEN ann ELSE bob]
MCAmount  == [t \in MCTopUps |-> 3]
MCPayable == [t \in MCTopUps |-> IF t = t2 THEN 4 ELSE 3]
MCExtra   == [t \in MCTopUps |-> IF t = t1 THEN 2 ELSE 0]

MCPlans     == {1, 2}
\* Cheap enough for the least margin to bind, and past the agreed price.
MCWholesale == {90, 4200}
MCOverrides == {NoPrice, 4000}
MCAgreed    == [p \in MCPlans |-> IF p = 1 THEN 4549 ELSE NoPrice]
MCRuns      == {r1, r2}
MCAdmins    == {op1}
MCTiers     == {<<2000, 100>>, <<5000, 500>>}

AbsDiff(a, b) == IF a >= b THEN a - b ELSE b - a

\* The formulas agree with their plain meaning on the prices that occur.
ASSUME \A p \in 0..6000 :
    /\ Charm(p) = Min({q \in p..(p + 50) : q % 100 \in {49, 99}})
    /\ p >= 49 => CharmDown(p) = Max({q \in (p - 50)..p : q % 100 \in {49, 99}})
ASSUME \A cost \in 0..3000 :
    LET offered == SubscriptionPrice(Retail(cost), cost, NoPrice)
    IN Floor(cost) <= offered /\ offered <= Retail(cost) /\ Retail(cost) <= CompareAt(cost)
ASSUME \A price \in 1..300, list \in 1..300 :
    LET pct == DiscountPct(price, list)
    IN list > price => 2 * AbsDiff(pct * list, 100 * (list - price)) <= list
ASSUME \A i, j \in 0..60 : i <= j => BonusFor(100 * i) <= BonusFor(100 * j)

offerVars == <<offer, vars, catalogueVars>>

Rewards(A) == offer = "rewards" /\ A /\ UNCHANGED <<offer, catalogueVars>>
Sync(A)    == offer = "prices"  /\ A /\ UNCHANGED <<offer, vars>>

OffersInit ==
    /\ offer \in {"prices", "rewards"} /\ Init /\ CatalogueInit
    /\ IF offer = "rewards" THEN feed = [p \in Plans |-> NoPrice] ELSE feed[2] # NoPrice
OffersNext == Rewards(Next) \/ Sync(CatalogueNext)

\* CatalogueFairness, for the behaviours of the prices.
OffersFairness ==
    /\ \A r \in Runs : WF_offerVars(Sync(RunStep(r)))
    /\ SF_offerVars(\E r \in Runs : Sync(Fetch(r)))
OffersSpec == OffersInit /\ [][OffersNext]_offerVars /\ OffersFairness
=============================================================================
