------------------------------ MODULE MCBuying -------------------------------
(* Buying and being given, one component at a time: plans bought out of a      *)
(* balance that pays for two of them, with a click that arrives twice; and     *)
(* paid orders, two of them top-ups and one of those for a line that is gone,  *)
(* fulfilled by two web workers and the sweeper.  The two share no state, so a *)
(* behaviour is one of one of them, named by "part"; what is fair for the paid *)
(* orders is never enabled in the other.                                       *)
EXTENDS Purchase, Fulfilment

CONSTANTS x1, x2, x3, g1, g2,           \* POSTs, browser tabs
          o1, t1, t2, i1, i2, w1, w2    \* orders, profiles, web workers

VARIABLE part

MCPosts   == {x1, x2, x3}
MCTap     == [p \in MCPosts |-> IF p = x3 THEN x3 ELSE x1]
MCInApp   == {x2}
MCWindows == {g1, g2}

MCSales   == {o1, t1, t2}
MCTopUps  == {t1, t2}
MCOrphan  == {t2}
MCIccids  == {i1, i2}
MCWorkers == {w1, w2}

buyingVars == <<part, purchaseVars, fulfilVars>>

Buy(A)     == part = "purchase"   /\ A /\ UNCHANGED <<part, fulfilVars>>
Provide(A) == part = "fulfilment" /\ A /\ UNCHANGED <<part, purchaseVars>>

BuyingInit == part \in {"purchase", "fulfilment"} /\ PurchaseInit /\ FulfilInit
BuyingNext == Buy(PurchaseNext) \/ Provide(FulfilNext)
BuyingSpec == BuyingInit /\ [][BuyingNext]_buyingVars /\ FulfilFairness
=============================================================================
