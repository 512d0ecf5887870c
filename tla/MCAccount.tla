----------------------------- MODULE MCAccount ------------------------------
(* What a customer's account does beside buying, one component at a time: two  *)
(* workers move the wallet, the chat is asked for help, tickets are written,   *)
(* and the customer subscribes and closes the account.  The components share   *)
(* no state, so a behaviour is one of one of them, named by "part".            *)
EXTENDS Wallet, Desk, Tickets, Closing, TLC

CONSTANTS u1, w1, w2,                   \* one wallet: no transaction writes two
          c1, tab1, tab2, op1, op2,     \* a conversation, its tabs, operators
          k1, k2, k3, f1, f2, p1,       \* tickets, forms, an operator's page
          r1, r2, s1, s2                \* attempts at a plan, Checkout sessions

VARIABLE part

\* The sums a caller may pass; zero and below are refused.
MCSums      == {-1, 0, 1, 2}
MCWallets   == {u1}
MCWorkers   == {w1, w2}
MCConvs     == {c1}
MCTabs      == {tab1, tab2}
MCStaff     == {op1, op2}
MCOneStaff  == {op1}
MCTickets   == {k1, k2, k3}
MCForms     == {f1, f2}
MCPages     == {p1}
MCRows      == {r1, r2}
MCSessions  == {s1, s2}
\* Attempts and sessions are used in any order and compared for equality only.
MCSymmetry == Permutations(MCRows) \union Permutations(MCSessions)

accountVars == <<part, vars, deskVars, ticketVars, closingVars>>

Money(A) == part = "wallet"  /\ A /\ UNCHANGED <<part, deskVars, ticketVars, closingVars>>
Chat(A)  == part = "chat"    /\ A /\ UNCHANGED <<part, vars, ticketVars, closingVars>>
Mail(A)  == part = "tickets" /\ A /\ UNCHANGED <<part, vars, deskVars, closingVars>>
Plan(A)  == part = "closing" /\ A /\ UNCHANGED <<part, vars, deskVars, ticketVars>>

AccountInit ==
    /\ part \in {"wallet", "chat", "tickets", "closing"}
    /\ Init /\ DeskInit /\ TicketInit /\ ClosingInit
AccountNext == Money(Next) \/ Chat(DeskNext) \/ Mail(TicketNext) \/ Plan(ClosingNext)
AccountSpec == AccountInit /\ [][AccountNext]_accountVars
=============================================================================
