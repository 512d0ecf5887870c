------------------------------ MODULE MCOrders ------------------------------
(* What may go wrong with an order, one component at a time: the seats of a   *)
(* coupon, checked out by two customers in three tabs; the provider that      *)
(* fulfils paid orders, with answers that get lost and profiles that come up  *)
(* twice; and Stripe's invoices for a subscription, each of which becomes an  *)
(* order.  The three share no state here, so a behaviour is one of one of     *)
(* them, named by "part"; what is fair for the invoices is never enabled in   *)
(* the other two.                                                             *)
EXTENDS Coupons, Fulfilment, CardSubscription

CONSTANTS a1, a2, b1, ann, bob,     \* checkouts and customers
          o1, o2, i1, i2, w1        \* paid orders, profiles, a web worker

VARIABLE part

MCTabs   == {a1, a2, b1}
MCBob    == {b1}
MCPerson == [o \in MCTabs |-> IF o = b1 THEN bob ELSE ann]

MCSales  == {o1, o2}
MCNone   == {}
MCIccids == {i1, i2}
MCWorker == {w1}

ordersVars == <<part, vars, fulfilVars, cardVars>>

Seat(A)    == part = "coupons"    /\ A /\ UNCHANGED <<part, fulfilVars, cardVars>>
Provide(A) == part = "fulfilment" /\ A /\ UNCHANGED <<part, vars, cardVars>>
Bill(A)    == part = "invoices"   /\ A /\ UNCHANGED <<part, vars, fulfilVars>>

OrdersInit ==
    part \in {"coupons", "fulfilment", "invoices"} /\ Init /\ FulfilInit /\ CardInit
OrdersNext == Seat(Next) \/ Provide(FulfilNext) \/ Bill(CardNext)
OrdersSpec == OrdersInit /\ [][OrdersNext]_ordersVars /\ CardFairness
=============================================================================
