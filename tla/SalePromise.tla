---------------------------- MODULE SalePromise ----------------------------
(***************************************************************************)
(* What taking money promises, whatever the provider's notices do: a       *)
(* payment is settled only when it is funded, settled once, and what it    *)
(* bought is handed over only after it settled, and once.                  *)
(***************************************************************************)
EXTENDS Naturals

CONSTANT Payments

VARIABLES
    funded,     \* payments whose money the provider (or the operator) vouched for
    settled,    \* payments the shop has accepted
    handed      \* how many times each payment's goods were handed over

Init ==
    /\ funded  = {}
    /\ settled = {}
    /\ handed  = [p \in Payments |-> 0]

Fund(p) ==
    /\ p \notin funded
    /\ funded' = funded \union {p}
    /\ UNCHANGED <<settled, handed>>

Settle(p) ==
    /\ p \in funded \ settled
    /\ settled' = settled \union {p}
    /\ UNCHANGED <<funded, handed>>

HandOver(p) ==
    /\ p \in settled
    /\ handed[p] = 0
    /\ handed' = [handed EXCEPT ![p] = 1]
    /\ UNCHANGED <<funded, settled>>

Next == \E p \in Payments : Fund(p) \/ Settle(p) \/ HandOver(p)

Spec == Init /\ [][Next]_<<funded, settled, handed>>
=============================================================================
