----------------------------- MODULE MCCoupons -----------------------------
\* Three checkouts by two customers for a code with one or two seats.
EXTENDS Coupons

CONSTANTS a1, a2, b1, ann, bob

MCThree  == {a1, a2, b1}
MCTwo    == {a1, b1}
MCTabs   == {a1, a2}
MCNone   == {}
MCFirst  == {a1}
MCBob    == {b1}
MCPerson == [o \in {a1, a2, b1} |-> IF o = b1 THEN bob ELSE ann]
=============================================================================
