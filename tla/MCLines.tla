------------------------------ MODULE MCLines -------------------------------
(* A telephone that ann and bob use, one component at a time: the lines, of a *)
(* gift and of an ordinary order for bob's address, both placed without an    *)
(* account; and the cards saved in the app.  The two share no state, so a     *)
(* behaviour is one of one of them, named by "part".                          *)
EXTENDS Lines, Cards

CONSTANTS ann, bob,                 \* the accounts
          gift, guest,              \* the orders
          d1, q1, q2, v1, v2, n1    \* the telephone, customers at Stripe,
                                    \* requests, a card

VARIABLE part

MCUsers   == {ann, bob}
MCOrders  == {gift, guest}
MCBuyer   == [o \in MCOrders |-> NoOne]
MCAddress == [o \in MCOrders |-> bob]
MCGifts   == {gift}

MCDevices   == {d1}
MCCustomers == {q1, q2}
MCCalls     == {v1, v2}
MCCards     == {n1}

phoneVars == <<part, vars, cardVars>>

Line(A) == part = "lines" /\ A /\ UNCHANGED <<part, cardVars>>
App(A)  == part = "cards" /\ A /\ UNCHANGED <<part, vars>>

PhoneInit == part \in {"lines", "cards"} /\ Init /\ CardsInit
PhoneNext == Line(Next) \/ App(CardsNext)
PhoneSpec == PhoneInit /\ [][PhoneNext]_phoneVars
=============================================================================
