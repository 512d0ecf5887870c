------------------------------- MODULE Wallet -------------------------------
(***************************************************************************)
(* The store-credit ledger of apps/wallet/models.py.  A wallet row keeps a *)
(* balance and two lifetime figures; every movement also writes one        *)
(* WalletTransaction row.  _apply takes the wallet row FOR UPDATE, so a    *)
(* transaction that has moved money keeps the row locked until the         *)
(* outermost transaction.atomic() block commits or rolls back.  A caller   *)
(* may move money more than once in its transaction (credit_topup posts    *)
(* the top-up and then the bonus).  Sums are whole cents.                  *)
(***************************************************************************)
EXTENDS Integers, Sequences

CONSTANTS
    Wallets,   \* the customers' wallets
    Workers,   \* web workers and cron processes, each with its own connection
    Sums,      \* the sums callers ask to move, after _money()
    MaxRows,   \* bound: ledger rows per wallet
    NoOne      \* the holder of an unlocked row, the wallet of no transaction

ASSUME SumsAssumption    == Sums \subseteq Int
ASSUME MaxRowsAssumption == MaxRows \in Nat
ASSUME NoOneAssumption   == NoOne \notin Workers \union Wallets

VARIABLES
    row,       \* Wallet rows as committed: balance_usd, topped_up_usd, spent_usd
    ledger,    \* committed WalletTransaction rows of each wallet, oldest first
    lock,      \* the worker whose transaction holds the row lock
    tx,        \* the wallet each worker's open transaction has written
    draft      \* what that transaction has written so far

vars == <<row, ledger, lock, tx, draft>>

CreditKinds == {"topup", "bonus", "refund", "adjust"}
Kinds       == CreditKinds \union {"spend"}

RowType   == [balance : Int, topped : Nat, spent : Nat]
EntryType == [kind : Kinds, amount : Int, after : Int]
EmptyRow  == [balance |-> 0, topped |-> 0, spent |-> 0]

\* WalletTransaction.amount_usd: the sign is the direction of the movement.
Signed(kind, sum) == IF kind \in CreditKinds THEN sum ELSE -sum

\* The wallet row after one movement.  A refund is a credit but not a top-up.
Moved(r, kind, sum) ==
    [balance |-> r.balance + Signed(kind, sum),
     topped  |-> IF kind \in CreditKinds \ {"refund"} THEN r.topped + sum ELSE r.topped,
     spent   |-> IF kind = "spend" THEN r.spent + sum ELSE r.spent]

Entry(r, kind, sum) ==
    [kind |-> kind, amount |-> Signed(kind, sum), after |-> r.balance + Signed(kind, sum)]

\* select_for_update(): granted when nobody else holds the row.
LockIgnored(w, u) == w \in Workers /\ u \in Wallets
LockGranted(w, u) == lock[u] = NoOne \/ lock[u] = w

\* The row a movement starts from: re-read under the lock, or what this very
\* transaction already wrote to it.
Base(w, u) == IF tx[w] = u THEN draft[w].row ELSE row[u]

Pending(w, u) == IF tx[w] = u THEN draft[w].entries ELSE <<>>

\* _apply raises ValueError on a sum that is not positive and
\* InsufficientBalance on a movement the balance does not cover.
ZeroAccepted(r, kind, sum) ==
    r.balance + Signed(kind, sum) >= 0
SignForgotten(r, kind, sum) ==
    /\ kind \in Kinds
    /\ sum > 0
    /\ r.balance + sum >= 0
Accepted(r, kind, sum) ==
    /\ sum > 0
    /\ r.balance + Signed(kind, sum) >= 0

Init ==
    /\ row    = [u \in Wallets |-> EmptyRow]
    /\ ledger = [u \in Wallets |-> <<>>]
    /\ lock   = [u \in Wallets |-> NoOne]
    /\ tx     = [w \in Workers |-> NoOne]
    /\ draft  = [w \in Workers |-> [row |-> EmptyRow, entries |-> <<>>]]

\* Wallet._apply inside a caller's transaction: lock, compute, save, add a row.
Move(w, u, kind, sum) ==
    /\ tx[w] \in {NoOne, u}
    /\ LockGranted(w, u)
    /\ Len(ledger[u]) + Len(Pending(w, u)) < MaxRows
    /\ Accepted(Base(w, u), kind, sum)
    /\ lock'  = [lock EXCEPT ![u] = w]
    /\ tx'    = [tx EXCEPT ![w] = u]
    /\ draft' = [draft EXCEPT ![w] =
                    [row     |-> Moved(Base(w, u), kind, sum),
                     entries |-> Append(Pending(w, u), Entry(Base(w, u), kind, sum))]]
    /\ UNCHANGED <<row, ledger>>

\* The transaction is over and Postgres drops its row lock.
Release(w, u) ==
    /\ lock'  = [lock EXCEPT ![u] = NoOne]
    /\ tx'    = [tx EXCEPT ![w] = NoOne]
    /\ draft' = [draft EXCEPT ![w] = [row |-> EmptyRow, entries |-> <<>>]]

\* The outermost atomic() block ends: row and ledger entries appear together.
Commit(w, u) ==
    /\ tx[w] = u
    /\ row'    = [row EXCEPT ![u] = draft[w].row]
    /\ ledger' = [ledger EXCEPT ![u] = @ \o draft[w].entries]
    /\ Release(w, u)

\* A second movement is refused, the worker dies, or the caller's code raises:
\* everything the surrounding transaction had moved is undone.
Rollback(w, u) ==
    /\ tx[w] = u
    /\ Release(w, u)
    /\ UNCHANGED <<row, ledger>>

Next ==
    \E w \in Workers, u \in Wallets :
        \/ \E kind \in Kinds, sum \in Sums : Move(w, u, kind, sum)
        \/ Commit(w, u)
        \/ Rollback(w, u)

Spec == Init /\ [][Next]_vars
-----------------------------------------------------------------------------
TypeOK ==
    /\ row    \in [Wallets -> RowType]
    /\ ledger \in [Wallets -> Seq(EntryType)]
    /\ lock   \in [Wallets -> Workers \union {NoOne}]
    /\ tx     \in [Workers -> Wallets \union {NoOne}]
    /\ draft  \in [Workers -> [row : RowType, entries : Seq(EntryType)]]

\* balance_after_usd of every ledger row continues the row before it.
Chained(from, s) ==
    \A i \in 1..Len(s) : s[i].after = s[i].amount + (IF i = 1 THEN from ELSE s[i-1].after)

EndsAt(from, s) == IF Len(s) = 0 THEN from ELSE s[Len(s)].after

\* The ledger and the stored balance never drift apart, whatever the workers
\* interleave (WalletTransaction: "a SUM over this column is the balance"):
\* each row continues its predecessor and the last one is the wallet's balance.
LedgerIsBalance ==
    \A u \in Wallets :
        /\ Chained(0, ledger[u])
        /\ row[u].balance = EndsAt(0, ledger[u])

\* Two tabs spending the same balance never overdraw the wallet, at any row of
\* its history and not only at the end of it (_apply: InsufficientBalance).
NeverOverdrawn ==
    \A u \in Wallets :
        /\ row[u].balance >= 0
        /\ \A i \in 1..Len(ledger[u]) : ledger[u][i].after >= 0
=============================================================================
