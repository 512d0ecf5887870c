------------------------------ MODULE Referral ------------------------------
(***************************************************************************)
(* Invitations: apps/accounts/referrals.py, and credit_topup with          *)
(* pay_referral_if_due of apps/wallet/services.py, on top of the ledger of *)
(* module Wallet.  Crediting a top-up is one transaction, the payout that  *)
(* it may earn the inviter is a second one after it.                       *)
(***************************************************************************)
EXTENDS Integers, Sequences, FiniteSets, FiniteSetsExt

CONSTANTS
    Users,       \* the customers, each with a wallet
    Workers,     \* web workers that settle payments
    TopUps,      \* top-ups whose payment has settled
    Owner,       \* the customer of each top-up
    Amount,      \* BalanceTopUp.amount_usd, what was invoiced
    Payable,     \* BalanceTopUp.payable_usd(): that, or what arrived when it is more
    Extra,       \* BalanceTopUp.bonus_usd
    Reward,      \* REFERRAL_BONUS_USD
    Threshold,   \* REFERRAL_MIN_TOPUP_USD
    MaxRows,     \* bound: ledger rows of a wallet
    MaxCrashes,  \* bound: workers that die
    NoOne        \* no inviter, no worker, no wallet

ASSUME ReferralAssumption ==
    /\ TopUps # {} /\ IsFiniteSet(TopUps) /\ IsFiniteSet(Users)
    /\ Owner \in [TopUps -> Users] /\ Amount \in [TopUps -> Nat] /\ Extra \in [TopUps -> Nat]
    /\ Payable \in [TopUps -> Nat] /\ \A t \in TopUps : Payable[t] >= Amount[t]
    /\ Reward \in Nat \ {0} /\ Threshold \in Nat /\ MaxRows \in Nat /\ MaxCrashes \in Nat
    /\ NoOne \notin Users \union Workers \union TopUps

VARIABLES
    row, ledger, lock, tx, draft,   \* the ledger, see Wallet
    status,     \* BalanceTopUp.status: "paid" or "credited"
    referredBy, \* User.referred_by
    ordered,    \* customers with an order
    payout,     \* ReferralPayout of each invited customer: who got it, on what total
    inserting,  \* the worker whose open transaction inserted that row
    codes,      \* inviters that requests of a customer are about to save
    pc, on,     \* each worker: next step and top-up at hand
    inviter,    \* the inviter as the worker read it
    total,      \* the total it compared with the threshold
    missed,     \* customers whose last chance of a payout went by
    crashes

walletVars == <<row, ledger, lock, tx, draft>>
vars == <<row, ledger, lock, tx, draft, status, referredBy, ordered, payout, inserting, codes,
          pc, on, inviter, total, missed, crashes>>

\* Every sum that is credited here.
Sums == {Reward} \union {Payable[t] : t \in TopUps} \union {Extra[t] : t \in TopUps}

W == INSTANCE Wallet WITH Wallets <- Users

NoPayout == [to |-> NoOne, total |-> 0]

Init ==
    /\ W!Init
    /\ status     = [t \in TopUps |-> "paid"]
    /\ referredBy = [u \in Users |-> NoOne]
    /\ ordered    = {}
    /\ payout     = [u \in Users |-> NoPayout]
    /\ inserting  = [u \in Users |-> NoOne]
    /\ codes      = [u \in Users |-> {}]
    /\ pc         = [w \in Workers |-> "idle"]
    /\ on         = [w \in Workers |-> CHOOSE t \in TopUps : TRUE]
    /\ inviter    = [w \in Workers |-> NoOne]
    /\ total      = [w \in Workers |-> 0]
    /\ missed     = {}
    /\ crashes    = 0

Customer(w) == Owner[on[w]]
-----------------------------------------------------------------------------
\* apply_referral_code: only the first code, never one's own, and only before
\* the first order.
CodeApplies(u, r) == referredBy[u] = NoOne /\ r # u /\ u \notin ordered

\* The account is read and the code looked up ...
EnterCode(u, r) ==
    /\ CodeApplies(u, r)
    /\ codes' = [codes EXCEPT ![u] = @ \union {r}]
    /\ UNCHANGED <<walletVars, status, referredBy, ordered, payout, inserting, pc, on, inviter, total, missed, crashes>>

Credited(u)   == {t \in TopUps : Owner[t] = u /\ status[t] = "credited"}
SumOf(f, ts)  == FoldSet(LAMBDA t, acc : f[t] + acc, 0, ts)

\* ... and the column saved.  A top-up credited before does not look again.
SaveCode(u, r) ==
    /\ r \in codes[u]
    /\ codes'      = [codes EXCEPT ![u] = @ \ {r}]
    /\ referredBy' = [referredBy EXCEPT ![u] = r]
    /\ missed'     = missed \union {u}
    /\ UNCHANGED <<walletVars, status, ordered, payout, inserting, pc, on, inviter, total, crashes>>

PlaceOrder(u) ==
    /\ u \notin ordered
    /\ ordered' = ordered \union {u}
    /\ UNCHANGED <<walletVars, status, referredBy, payout, inserting, codes, pc, on, inviter, total, missed, crashes>>
-----------------------------------------------------------------------------
\* Nothing says that the top-up was credited before.
AnyTopUp(t) == TRUE

\* credit_topup looks at the status under the row lock.
Creditable(t) == status[t] = "paid"

\* The webhook and the return page both call credit_topup; the first movement
\* takes the wallet row.  The customer's row is read for it, inviter included.
CreditTopUp(w, t) ==
    /\ pc[w] = "idle"
    /\ Creditable(t)
    /\ W!Move(w, Owner[t], "topup", Payable[t])
    /\ on'      = [on EXCEPT ![w] = t]
    /\ inviter' = [inviter EXCEPT ![w] = referredBy[Owner[t]]]
    /\ pc'      = [pc EXCEPT ![w] = IF Extra[t] > 0 THEN "bonus" ELSE "commit"]
    /\ UNCHANGED <<status, referredBy, ordered, payout, inserting, codes, total, missed, crashes>>

CreditBonus(w) ==
    /\ pc[w] = "bonus"
    /\ W!Move(w, Customer(w), "bonus", Extra[on[w]])
    /\ pc' = [pc EXCEPT ![w] = "commit"]
    /\ UNCHANGED <<status, referredBy, ordered, payout, inserting, codes, on, inviter, total, missed, crashes>>

\* Status and money in one commit; only now is the payout looked at.
CreditCommit(w) ==
    /\ pc[w] = "commit"
    /\ W!Commit(w, Customer(w))
    /\ status' = [status EXCEPT ![on[w]] = "credited"]
    /\ missed' = IF inviter[w] = referredBy[Customer(w)] THEN missed \ {Customer(w)} ELSE missed
    /\ pc'     = [pc EXCEPT ![w] = "check"]
    /\ UNCHANGED <<referredBy, ordered, payout, inserting, codes, on, inviter, total, crashes>>
-----------------------------------------------------------------------------

\* The customer's own paid top-ups as they were invoiced, bonus credit excluded.
PaidIn(u) == SumOf(Amount, Credited(u))

\* Each top-up has to clear the bar by itself.
DueByItself(w) ==
    /\ inviter[w] \notin {NoOne, Customer(w)}
    /\ payout[Customer(w)] = NoPayout
    /\ Amount[on[w]] >= Threshold

Due(w) ==
    /\ inviter[w] \notin {NoOne, Customer(w)}
    /\ payout[Customer(w)] = NoPayout
    /\ PaidIn(Customer(w)) >= Threshold

CheckDue(w) ==
    /\ pc[w] = "check"
    /\ pc'    = [pc EXCEPT ![w] = IF Due(w) THEN "pay" ELSE "idle"]
    /\ total' = [total EXCEPT ![w] = IF Due(w) THEN PaidIn(Customer(w)) ELSE 0]
    /\ UNCHANGED <<walletVars, status, referredBy, ordered, payout, inserting, codes, on, inviter, missed, crashes>>

\* get_or_create under the unique constraint: the insert waits for one that is
\* under way, and finds the row if that one commits.
MayInsert(u) == inserting[u] = NoOne /\ payout[u] = NoPayout

InsertPayout(w) ==
    /\ pc[w] = "pay"
    /\ MayInsert(Customer(w))
    /\ W!Move(w, inviter[w], "bonus", Reward)
    /\ inserting' = [inserting EXCEPT ![Customer(w)] = w]
    /\ pc' = [pc EXCEPT ![w] = "payout"]
    /\ UNCHANGED <<status, referredBy, ordered, payout, codes, on, inviter, total, missed, crashes>>

\* The row was there already: nothing is paid.
PaidBefore(w) ==
    /\ pc[w] = "pay"
    /\ inserting[Customer(w)] = NoOne /\ ~MayInsert(Customer(w))
    /\ pc' = [pc EXCEPT ![w] = "idle"]
    /\ UNCHANGED <<walletVars, status, referredBy, ordered, payout, inserting, codes, on, inviter, total, missed, crashes>>

PayoutCommit(w) ==
    /\ pc[w] = "payout"
    /\ W!Commit(w, inviter[w])
    /\ payout'    = [payout EXCEPT ![Customer(w)] = [to |-> inviter[w], total |-> total[w]]]
    /\ inserting' = [inserting EXCEPT ![Customer(w)] = NoOne]
    /\ pc'        = [pc EXCEPT ![w] = "idle"]
    /\ UNCHANGED <<status, referredBy, ordered, codes, on, inviter, total, missed, crashes>>

\* The worker dies.  What its transaction wrote is undone, and credit_topup will
\* not come this way again for a top-up that is credited.
Crash(w) ==
    /\ pc[w] # "idle"
    /\ crashes < MaxCrashes
    /\ crashes' = crashes + 1
    /\ IF tx[w] = NoOne THEN UNCHANGED walletVars ELSE W!Rollback(w, tx[w])
    /\ inserting' = [u \in Users |-> IF inserting[u] = w THEN NoOne ELSE inserting[u]]
    /\ missed' = IF pc[w] \in {"check", "pay", "payout"} THEN missed \union {Customer(w)} ELSE missed
    /\ pc'     = [pc EXCEPT ![w] = "idle"]
    /\ UNCHANGED <<status, referredBy, ordered, payout, codes, on, inviter, total>>

Next ==
    \/ \E u, r \in Users : EnterCode(u, r) \/ SaveCode(u, r)
    \/ \E u \in Users : PlaceOrder(u)
    \/ \E w \in Workers, t \in TopUps : CreditTopUp(w, t)
    \/ \E w \in Workers :
          \/ CreditBonus(w) \/ CreditCommit(w) \/ CheckDue(w)
          \/ InsertPayout(w) \/ PaidBefore(w) \/ PayoutCommit(w) \/ Crash(w)

Spec == Init /\ [][Next]_vars
-----------------------------------------------------------------------------
TypeOK ==
    /\ status \in [TopUps -> {"paid", "credited"}]
    /\ referredBy \in [Users -> Users \union {NoOne}]
    /\ ordered \subseteq Users
    /\ payout \in [Users -> [to : Users \union {NoOne}, total : Nat]]
    /\ inserting \in [Users -> Workers \union {NoOne}]
    /\ codes \in [Users -> SUBSET Users]
    /\ pc \in [Workers -> {"idle", "bonus", "commit", "check", "pay", "payout"}]
    /\ on \in [Workers -> TopUps] /\ total \in [Workers -> Nat]
    /\ inviter \in [Workers -> Users \union {NoOne}]
    /\ missed \subseteq Users /\ crashes \in 0..MaxCrashes

Paid(u)   == payout[u] # NoPayout
Earned(r) == Cardinality({u \in Users : payout[u].to = r})

\* Every cent of a wallet has its reason: the top-ups credited to it, with what
\* arrived over the invoice, their bonuses and one reward for each customer it was paid out for.  Nothing is
\* credited twice and no reward goes unrecorded, whatever two workers and a
\* crash interleave (ReferralPayout: "a referral pays out exactly once").
EveryCentExplained ==
    \A u \in Users :
        row[u].balance = SumOf(Payable, Credited(u)) + SumOf(Extra, Credited(u)) + Reward * Earned(u)

\* A reward is for money that arrived: the bonus does not help to clear the bar
\* that granted it, and nobody invites themselves.
RewardIsForMoney ==
    \A u \in Users :
        Paid(u) => payout[u].to # u /\ payout[u].total >= Threshold
                     /\ payout[u].total <= SumOf(Amount, Credited(u))

\* A payout stands: neither its beneficiary nor its reason changes.
PayoutStands == [][\A u \in Users : Paid(u) => payout'[u] = payout[u]]_vars

\* When nobody is settling for an invited customer who has paid in enough, the
\* inviter has the reward, unless the code came too late for the last top-up or
\* the worker that credited it died: the last of several top-ups sees them all.
DueIsPaid ==
    \A u \in Users \ missed :
        /\ \A w \in Workers : pc[w] = "idle" \/ Customer(w) # u
        /\ referredBy[u] # NoOne
        /\ PaidIn(u) >= Threshold
        => Paid(u)
-----------------------------------------------------------------------------
\* A customer uses one code (referrals.py: "You already used a referral code").
OneCode == [][\A u \in Users : referredBy[u] # NoOne => referredBy'[u] = referredBy[u]]_vars

\* Who topped up enough has earned the inviter the reward (pay_referral_if_due:
\* "Reward the person who invited `user`, once they have topped up enough").
NobodyMissed ==
    \A u \in Users :
        /\ \A w \in Workers : pc[w] = "idle" \/ Customer(w) # u
        /\ referredBy[u] # NoOne
        /\ PaidIn(u) >= Threshold
        => Paid(u)
=============================================================================
