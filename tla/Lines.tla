------------------------------- MODULE Lines --------------------------------
(***************************************************************************)
(* Who owns a line: apps/orders/gifting.py, the Esim rows written by       *)
(* apps/orders/services.py, the device endpoints of apps/api/views.py and  *)
(* the erasing transaction of apps/accounts/deletion.py.                   *)
(*                                                                         *)
(* An order belongs to an account, or to a guest on an installation of the *)
(* app; its line belongs to the account, or waits for the address it was   *)
(* sent to.  Most handlers read rows, do something else and write them     *)
(* back.  A write that lands on a row that changed since it was read, and  *)
(* a request of a customer that is still running while the account closes, *)
(* leave a mark in `straddled`: what the code promises, it promises for    *)
(* the other rows.                                                         *)
(***************************************************************************)
EXTENDS Naturals, FiniteSets

CONSTANTS
    Users,       \* the accounts
    Orders,      \* paid orders for a new line, one line each
    Buyer,       \* the account each order was placed with, or NoOne for a guest
    Address,     \* the account whose address the line is delivered to
    Gifts,       \* the orders bought for somebody else (Order.gift_email)
    OnDevice,    \* the orders placed from the installation the customers share
    MaxChanges,  \* bound: top-ups and new names of one line
    MaxRequests, \* bound: handlers between two of their steps at a time
    NoOne        \* no account

ASSUME LinesAssumption ==
    /\ NoOne \notin Users \union Orders /\ Users \intersect Orders = {}
    /\ Buyer \in [Orders -> Users \union {NoOne}] /\ Address \in [Orders -> Users]
    /\ Gifts \subseteq Orders /\ OnDevice \subseteq Orders /\ MaxChanges \in Nat /\ MaxRequests \in Nat

VARIABLES
    account,    \* Order.user
    line,       \* the Esim row of each order
    verified,   \* accounts whose address is proved (User.email_verified)
    closed,     \* accounts that were deleted
    proving,    \* requests that proved an address and have not claimed yet
    claim,      \* device_claim of each account: next step and the rows it listed
    erasing,    \* accounts whose erasing transaction has written the orders
    lock,       \* who holds each order row: its own fulfilment or a closing account
    copy,       \* the line as a handler read it
    changes,    \* top-ups and names each line was really given
    straddled

vars == <<account, line, verified, closed, proving, claim, erasing, lock, copy, changes, straddled>>

Row    == [made : BOOLEAN, user : Users \union {NoOne}, gone : BOOLEAN, changes : 0..MaxChanges]
NoRow  == [made |-> FALSE, user |-> NoOne, gone |-> FALSE, changes |-> 0]
Readers == {"refresh", "topup"}

Init ==
    /\ account   = Buyer
    /\ line      = [o \in Orders |-> NoRow]
    /\ verified  = {u \in Users : \E o \in Orders : Buyer[o] = u}
    /\ closed    = {}
    /\ proving   = {}
    /\ claim     = [u \in Users |-> [step |-> "no", ids |-> {}]]
    /\ erasing   = {}
    /\ lock      = [o \in Orders |-> NoOne]
    /\ copy      = [h \in Readers |-> [o \in Orders |-> NoRow]]
    /\ changes   = [o \in Orders |-> 0]
    /\ straddled = {}

\* Another handler may begin.
Running ==
    Cardinality(proving) + Cardinality(erasing)
      + Cardinality({u \in Users : claim[u].step # "no"})
      + Cardinality({o \in Orders : lock[o] = o})
      + Cardinality({x \in Readers \X Orders : copy[x[1]][x[2]].made})

MayBegin == Running < MaxRequests

\* The account is closing or closed: what it still has running is late.
Leaving(u) == u \in closed \union erasing

\* A session is given for a proved address only.
SignedIn(u) == u \in verified /\ ~Leaving(u)
-----------------------------------------------------------------------------
\* fulfill_order takes the order row and calls the provider ...
Provision(o) ==
    /\ MayBegin
    /\ ~line[o].made
    /\ lock[o] = NoOne
    /\ lock' = [lock EXCEPT ![o] = o]
    /\ UNCHANGED <<account, line, verified, closed, proving, claim, erasing, copy, changes, straddled>>

\* A gift is filed under nobody, anything else under the order's account.
FirstOwner(o) == IF o \in Gifts THEN NoOne ELSE account[o]

\* ... and writes the line with the order's completion.
Provisioned(o) ==
    /\ lock[o] = o
    /\ line' = [line EXCEPT ![o] = [NoRow EXCEPT !.made = TRUE, !.user = FirstOwner(o)]]
    /\ lock' = [lock EXCEPT ![o] = NoOne]
    /\ UNCHANGED <<account, verified, closed, proving, claim, erasing, copy, changes, straddled>>

\* The provider refuses; a later attempt starts over.
NotProvisioned(o) ==
    /\ lock[o] = o
    /\ lock' = [lock EXCEPT ![o] = NoOne]
    /\ UNCHANGED <<account, line, verified, closed, proving, claim, erasing, copy, changes, straddled>>
-----------------------------------------------------------------------------
\* The link in the mail is opened, or Google vouches for the address: the flag
\* is saved, in a commit of its own.  Google says so at every sign-in.
Prove(u) ==
    /\ MayBegin
    /\ ~Leaving(u)
    /\ verified' = verified \union {u}
    /\ proving'  = proving \union {u}
    /\ UNCHANGED <<account, line, closed, claim, erasing, lock, copy, changes, straddled>>

\* claim_for: the lines nobody owns that were sent to this address.
Waiting(u) == {o \in Orders : line[o].made /\ line[o].user = NoOne /\ ~line[o].gone /\ Address[o] = u}

Give(ids, u) == [o \in Orders |-> IF o \in ids THEN [line[o] EXCEPT !.user = u] ELSE line[o]]

ClaimFor(u) ==
    /\ u \in proving
    /\ proving'   = proving \ {u}
    /\ line'      = Give(Waiting(u), u)
    /\ straddled' = IF Leaving(u) THEN straddled \union Waiting(u) ELSE straddled
    /\ UNCHANGED <<account, verified, closed, claim, erasing, lock, copy, changes>>

\* Claiming fails and the sign-in goes on without it.
ClaimForFails(u) ==
    /\ u \in proving
    /\ proving' = proving \ {u}
    /\ UNCHANGED <<account, line, verified, closed, claim, erasing, lock, copy, changes, straddled>>
-----------------------------------------------------------------------------
\* Gifted lines are not told apart.
AnyLineOf(orders) == {o \in orders : line[o].made /\ line[o].user = NoOne}

\* Of the device's orders, the lines that are nobody's and not gifts.
Claimable(orders) == {o \in orders \ Gifts : line[o].made /\ line[o].user = NoOne}

\* Whatever was ordered from it.
Everything == OnDevice

\* What the installation sees as its own (also device_esims).
Unclaimed == {o \in OnDevice : account[o] = NoOne}

\* device_claim lists the lines ...
DeviceList(u) ==
    /\ MayBegin
    /\ SignedIn(u)
    /\ claim[u].step = "no"
    /\ claim' = [claim EXCEPT ![u] = [step |-> "orders", ids |-> Claimable(Unclaimed)]]
    /\ UNCHANGED <<account, line, verified, closed, proving, erasing, lock, copy, changes, straddled>>

\* ... takes the orders over, as they are by now, waiting for locked rows ...
DeviceOrders(u) ==
    /\ claim[u].step = "orders"
    /\ \A o \in Unclaimed : lock[o] = NoOne
    /\ account'   = [o \in Orders |-> IF o \in Unclaimed THEN u ELSE account[o]]
    /\ claim'     = [claim EXCEPT ![u].step = "lines"]
    /\ straddled' = IF Leaving(u) THEN straddled \union Unclaimed ELSE straddled
    /\ UNCHANGED <<line, verified, closed, proving, erasing, lock, copy, changes>>

\* ... and the lines it listed, whoever has them now.
DeviceLines(u) ==
    /\ claim[u].step = "lines"
    /\ line'      = Give(claim[u].ids, u)
    /\ claim'     = [claim EXCEPT ![u] = [step |-> "no", ids |-> {}]]
    /\ straddled' = straddled \union
          {o \in claim[u].ids : Leaving(u) \/ line[o].user # NoOne \/ account[o] # u}
    /\ UNCHANGED <<account, verified, closed, proving, erasing, lock, copy, changes>>
-----------------------------------------------------------------------------
\* A page, the cron job or the provider's webhook fetches the row to refresh it,
\* or a paid top-up fetches it to add a plan; the provider is called then.
Read(h, o) ==
    /\ MayBegin
    /\ line[o].made /\ ~copy[h][o].made
    /\ copy' = [copy EXCEPT ![h][o] = line[o]]
    /\ UNCHANGED <<account, line, verified, closed, proving, claim, erasing, lock, changes, straddled>>

\* What a top-up of this row saves when the provider will not say how it is.
PlanAdded(row) == [row EXCEPT !.changes = @ + 1]

\* apply_sim_info ends in a save of the whole row.
SaveRow(h, o, row) ==
    /\ line'      = [line EXCEPT ![o] = row]
    /\ copy'      = [copy EXCEPT ![h][o] = NoRow]
    /\ straddled' = IF line[o] = copy[h][o] THEN straddled ELSE straddled \union {o}
    /\ UNCHANGED <<account, verified, closed, proving, claim, erasing, lock>>

\* sync_esim: usage and status, and whether the profile still exists.
Refresh(o) ==
    /\ copy["refresh"][o].made
    /\ \E gone \in BOOLEAN : SaveRow("refresh", o, [copy["refresh"][o] EXCEPT !.gone = gone])
    /\ UNCHANGED changes

\* The provider does not answer: nothing is saved.
RefreshFails(o) ==
    /\ copy["refresh"][o].made
    /\ copy' = [copy EXCEPT !["refresh"][o] = NoRow]
    /\ UNCHANGED <<account, line, verified, closed, proving, claim, erasing, lock, changes, straddled>>

\* _topup: the plan is on, and the row is saved with what the provider says or,
\* if it does not answer any more, without.
TopUp(o) ==
    /\ copy["topup"][o].made
    /\ changes[o] < MaxChanges /\ copy["topup"][o].changes < MaxChanges
    /\ changes' = [changes EXCEPT ![o] = @ + 1]
    /\ \/ \E gone \in BOOLEAN : SaveRow("topup", o, [copy["topup"][o] EXCEPT !.gone = gone, !.changes = @ + 1])
       \/ SaveRow("topup", o, PlanAdded(copy["topup"][o]))

\* The owner renames it: one column.
Rename(o) ==
    /\ line[o].user # NoOne
    /\ changes[o] < MaxChanges /\ line[o].changes < MaxChanges
    /\ changes' = [changes EXCEPT ![o] = @ + 1]
    /\ line'    = [line EXCEPT ![o].changes = @ + 1]
    /\ UNCHANGED <<account, verified, closed, proving, claim, erasing, lock, copy, straddled>>
-----------------------------------------------------------------------------
OrdersOf(u) == {o \in Orders : account[o] = u}
LinesOf(u)  == {o \in Orders : line[o].user = u}

\* delete_account: the orders are unlinked first, waiting for a fulfilment ...
CloseOrders(u) ==
    /\ MayBegin
    /\ SignedIn(u)
    /\ \A o \in OrdersOf(u) : lock[o] = NoOne
    /\ erasing' = erasing \union {u}
    /\ lock'    = [o \in Orders |-> IF o \in OrdersOf(u) THEN u ELSE lock[o]]
    /\ UNCHANGED <<account, line, verified, closed, proving, claim, copy, changes, straddled>>

\* The lines found through the account's orders, which it has just given up.
LinesByOrder(u) == {o \in LinesOf(u) : account[o] = u /\ lock[o] # u}

\* ... and then the lines, those a fulfilment has just added included.
Unlinked(u) == LinesOf(u)

CloseLines(u) ==
    /\ u \in erasing
    /\ account' = [o \in Orders |-> IF lock[o] = u THEN NoOne ELSE account[o]]
    /\ line'    = Give(Unlinked(u), NoOne)
    /\ lock'    = [o \in Orders |-> IF lock[o] = u THEN NoOne ELSE lock[o]]
    /\ closed'  = closed \union {u}
    /\ erasing' = erasing \ {u}
    /\ UNCHANGED <<verified, proving, claim, copy, changes, straddled>>

Next ==
    \/ \E o \in Orders : Provision(o) \/ Provisioned(o) \/ NotProvisioned(o)
    \/ \E u \in Users : Prove(u) \/ ClaimFor(u) \/ ClaimForFails(u)
    \/ \E u \in Users : DeviceList(u) \/ DeviceOrders(u) \/ DeviceLines(u)
    \/ \E h \in Readers, o \in Orders : Read(h, o)
    \/ \E o \in Orders : Refresh(o) \/ RefreshFails(o) \/ TopUp(o) \/ Rename(o)
    \/ \E u \in Users : CloseOrders(u) \/ CloseLines(u)

Spec == Init /\ [][Next]_vars
-----------------------------------------------------------------------------
TypeOK ==
    /\ account \in [Orders -> Users \union {NoOne}]
    /\ line \in [Orders -> Row]
    /\ verified \subseteq Users /\ closed \subseteq Users /\ proving \subseteq Users
    /\ claim \in [Users -> [step : {"no", "orders", "lines"}, ids : SUBSET Orders]]
    /\ erasing \subseteq Users
    /\ lock \in [Orders -> Users \union Orders \union {NoOne}]
    /\ copy \in [Readers -> [Orders -> Row]]
    /\ changes \in [Orders -> 0..MaxChanges]
    /\ straddled \subseteq Orders

\* A gifted line is owned by nobody but the account that proved the address it
\* was given to, however claims, refreshes and deletions interleave (gifting.py:
\* "that person proves the address is theirs").
GiftGoesToItsAddress ==
    \A o \in Gifts : line[o].user # NoOne => line[o].user = Address[o] /\ Address[o] \in verified

\* A closed account owns no order and no line, though orders of it may still be
\* in fulfilment when it closes.
ErasedOwnsNothing ==
    \A u \in closed, o \in Orders \ straddled : account[o] # u /\ line[o].user # u

\* Whoever owns a line owns its order or has proved the address it was sent to.
LineHasTitle ==
    \A o \in Orders \ straddled :
        line[o].user # NoOne =>
            \/ account[o] = line[o].user
            \/ line[o].user = Address[o] /\ Address[o] \in verified

-----------------------------------------------------------------------------
\* A line changes hands only from nobody to somebody, or back when its account
\* closes (api/views.py device_claim lists lines nobody owns and gives them away
\* later; orders/services.py apply_sim_info writes back the owner it read).
OwnedStaysOwned ==
    [][\A o \in Orders :
          line[o].user # NoOne /\ line'[o].user # line[o].user => line[o].user \in closed']_vars

\* A line shows the plans and the name it was given, whatever refreshed it
\* meanwhile (orders/services.py apply_sim_info saves the row it read).
ShowsWhatHappened == \A o \in Orders : line[o].changes = changes[o]

\* An order that a customer took over from the device brings its line along
\* (api/views.py device_claim: "should not have to email support to see what they
\* already own").
LineFollowsOrder ==
    \A o \in OnDevice \ Gifts :
        line[o].made /\ account[o] # NoOne /\ claim[account[o]].step = "no"
            => line[o].user # NoOne

\* A deleted account does not get anything back (deletion.py: "with the customer's
\* identity unlinked").
ErasedForGood == \A u \in closed, o \in Orders : account[o] # u /\ line[o].user # u

\* A line does not wait for an address that is proved already (gifting.py: it
\* waits "until that person proves the address is theirs").
ProvedNeedNotWait ==
    \A o \in Gifts :
        line[o].made /\ ~line[o].gone /\ line[o].user = NoOne
            => Address[o] \notin verified \ (closed \union proving)
=============================================================================
