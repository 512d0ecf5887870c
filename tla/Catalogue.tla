----------------------------- MODULE Catalogue ------------------------------
(***************************************************************************)
(* The plans of one destination and what they are sold for: the command    *)
(* sync_plans with --reprice-only, the lists of plans in the admin, and    *)
(* what a customer who subscribes is asked to pay.  The sync is one        *)
(* transaction, which holds the lock of every row it wrote; what it writes *)
(* are whole rows that it read without a lock, the destination's too, whose *)
(* figures are recomputed after it.                                        *)
(*                                                                         *)
(* The destination is a country.  For a region the sync mostly writes the  *)
(* plans alone: two syncs would not wait for each other at its row.        *)
(***************************************************************************)
EXTENDS Prices, FiniteSets

CONSTANTS
    Plans,        \* provider_plan_id, numbered as the feed lists them
    Wholesale,    \* euro cents that the provider may ask
    Overrides,    \* values of the admin's price_override_usd, NoPrice among them
    Agreed,       \* FIXED_PRICES for the plan, or NoPrice
    Runs,         \* runs of sync_plans that may overlap
    Admins,       \* operators who save a list of plans
    RepriceAlone, \* --reprice-only is started while nothing else changes plans
    MaxMoves,     \* bound: changes of the provider's catalogue
    MaxPages,     \* bound: pages saved
    MaxFaults,    \* bound: runs that die and syncs that begin beside another run
    NoRow         \* no such row, nothing read

ASSUME CatalogueAssumption ==
    /\ Plans \subseteq Nat /\ IsFiniteSet(Plans) /\ Wholesale \subseteq Nat
    /\ NoPrice \in Overrides /\ Overrides \subseteq Nat \union {NoPrice}
    /\ Agreed \in [Plans -> Nat \union {NoPrice}]
    /\ RepriceAlone \in BOOLEAN
    /\ {MaxMoves, MaxPages, MaxFaults} \subseteq Nat

VARIABLES
    feed,      \* what the provider asks for each plan, NoPrice when it is not sold
    plan,      \* the committed rows
    run,       \* the runs of sync_plans
    listing,   \* plan_count, min_price_usd and is_active of the destination
    page,      \* the row each operator's request loaded, and its plan
    moves, pages, faults

catalogueVars == <<feed, plan, run, listing, page, moves, pages, faults>>

\* price is the computed price_usd, list is compare_at_usd, on is is_active and
\* listed is provider_active.
NewRow(cost) == [cost |-> cost, price |-> Retail(cost), list |-> CompareAt(cost),
                 override |-> NoPrice, on |-> TRUE, listed |-> TRUE]

IdleRun == [stage |-> "idle", offer |-> NoRow, todo |-> {}, copy |-> NoRow,
            draft |-> [p \in Plans |-> NoRow], figures |-> NoRow, holds |-> FALSE]
NoPage  == [plan |-> NoRow, row |-> NoRow]

\* Plan.price: the operator's price wins.
PriceOf(r) == IF r.override # NoPrice THEN r.override ELSE r.price

\* PlanQuerySet.live.
Live == {p \in Plans : plan[p] # NoRow /\ plan[p].on /\ plan[p].listed}

Figures(live) ==
    [count |-> Cardinality(live),
     from  |-> IF live = {} THEN NoPrice ELSE Min({PriceOf(plan[p]) : p \in live}),
     on    |-> live # {}]

\* The shop right after a first sync, of the plans there were.
CatalogueInit ==
    /\ feed \in [Plans -> Wholesale \union {NoPrice}]
    /\ plan     = [p \in Plans |-> IF feed[p] = NoPrice THEN NoRow ELSE NewRow(feed[p])]
    /\ run      = [r \in Runs |-> IdleRun]
    /\ listing  = Figures(Live)
    /\ page     = [o \in Admins |-> NoPage]
    /\ moves = 0 /\ pages = 0 /\ faults = 0

-----------------------------------------------------------------------------
(* The provider.                                                           *)

\* A plan gets another wholesale price, vanishes or comes back.
FeedMoves(p) ==
    /\ moves < MaxMoves
    /\ \E c \in (Wholesale \union {NoPrice}) \ {feed[p]} : feed' = [feed EXCEPT ![p] = c]
    /\ moves' = moves + 1
    /\ UNCHANGED <<plan, run, listing, page, pages, faults>>

-----------------------------------------------------------------------------
(* sync_plans.                                                             *)

\* Rows that an open transaction has written: plans, and the destination.
Locked == {p \in Plans : \E r \in Runs : run[r].draft[p] # NoRow}
Held   == \E r \in Runs : run[r].holds

Offered(f) == {p \in Plans : f[p] # NoPrice}
\* The feed, and the table, are gone through in order.
First(r, p) == p \in run[r].todo /\ \A q \in run[r].todo : p <= q

Repricing == \E r \in Runs : run[r].stage = "reprice"

\* The feed is fetched; when the provider fails nothing happens.
Fetch(r) ==
    /\ run[r].stage = "idle"
    /\ RepriceAlone => ~Repricing
    /\ IF \A s \in Runs : run[s].stage = "idle" THEN UNCHANGED faults
       ELSE faults < MaxFaults /\ faults' = faults + 1
    /\ run' = [run EXCEPT ![r].stage = "rows", ![r].offer = feed, ![r].todo = Offered(feed)]
    /\ UNCHANGED <<feed, plan, listing, page, moves, pages>>

\* _upsert_country reads the destination ...
ReadListing(r) ==
    /\ run[r].stage = "rows" /\ run[r].todo # {} /\ run[r].figures = NoRow
    /\ run' = [run EXCEPT ![r].figures = listing]
    /\ UNCHANGED <<feed, plan, listing, page, moves, pages, faults>>

\* ... and saves all of it, a country's row being saved whatever it says, which
\* waits for a sync that did the same.
SaveListing(r) ==
    /\ run[r].stage = "rows" /\ run[r].figures # NoRow /\ ~Held
    /\ run' = [run EXCEPT ![r].holds = TRUE]
    /\ UNCHANGED <<feed, plan, listing, page, moves, pages, faults>>

\* get_or_create inserts a plan that is new ...
CreateRow(r, p) ==
    /\ run[r].holds /\ First(r, p) /\ run[r].copy = NoRow
    /\ plan[p] = NoRow
    /\ run' = [run EXCEPT ![r].draft[p] = NewRow(run[r].offer[p]), ![r].todo = @ \ {p}]
    /\ UNCHANGED <<feed, plan, listing, page, moves, pages, faults>>

\* ... or finds the row and reads it ...
ReadRow(r, p) ==
    /\ run[r].holds /\ First(r, p) /\ run[r].copy = NoRow
    /\ plan[p] # NoRow
    /\ run' = [run EXCEPT ![r].copy = plan[p]]
    /\ UNCHANGED <<feed, plan, listing, page, moves, pages, faults>>

\* The new wholesale price is stored beside the old retail price.
CostOnly(old, cost) == [old EXCEPT !.cost = cost, !.listed = TRUE]

\* ... and save writes all of it: what the feed says now, and what was read.
Resold(old, cost) == [old EXCEPT !.cost = cost, !.price = Retail(cost), !.listed = TRUE]

SaveRow(r, p) ==
    /\ run[r].copy # NoRow /\ First(r, p)
    /\ run' = [run EXCEPT ![r].draft[p] = Resold(run[r].copy, run[r].offer[p]),
                          ![r].todo = @ \ {p}, ![r].copy = NoRow]
    /\ UNCHANGED <<feed, plan, listing, page, moves, pages, faults>>

\* A plan that vanishes from the feed stays on sale.
NobodyRetired(r) == {}

\* Plans that are no longer in the feed.
Retired(r) == {p \in Plans \ Offered(run[r].offer) : plan[p] # NoRow /\ plan[p].listed}

\* The others are retired, and the transaction commits.
Commit(r) ==
    /\ run[r].stage = "rows" /\ run[r].todo = {} /\ Retired(r) \cap Locked = {}
    /\ plan' = [p \in Plans |->
                  IF run[r].draft[p] # NoRow THEN run[r].draft[p]
                  ELSE IF p \in Retired(r) THEN [plan[p] EXCEPT !.listed = FALSE]
                  ELSE plan[p]]
    /\ listing' = IF run[r].holds THEN run[r].figures ELSE listing
    /\ run' = [run EXCEPT ![r] = [IdleRun EXCEPT !.stage = "figures"]]
    /\ UNCHANGED <<feed, page, moves, pages, faults>>

\* _refresh_aggregates looks at the live plans of a destination ...
ReadFigures(r) ==
    /\ run[r].stage = "figures" /\ run[r].figures = NoRow
    /\ run' = [run EXCEPT ![r].figures = Figures(Live)]
    /\ UNCHANGED <<feed, plan, listing, page, moves, pages, faults>>

\* ... and saves what it found.
SaveFigures(r) ==
    /\ run[r].stage = "figures" /\ run[r].figures # NoRow /\ ~Held
    /\ listing' = run[r].figures
    /\ run' = [run EXCEPT ![r] = IdleRun]
    /\ UNCHANGED <<feed, plan, page, moves, pages, faults>>

Costs == [p \in Plans |-> IF plan[p] = NoRow THEN NoPrice ELSE plan[p].cost]

\* --reprice-only loads every row ...
Reprice(r) ==
    /\ run[r].stage = "idle"
    /\ RepriceAlone => \A s \in Runs : run[s].stage = "idle"
    /\ RepriceAlone => \A o \in Admins : page[o] = NoPage
    /\ run' = [run EXCEPT ![r].stage = "reprice", ![r].offer = Costs, ![r].todo = Offered(Costs)]
    /\ UNCHANGED <<feed, plan, listing, page, moves, pages, faults>>

\* ... and saves the two prices of one after the other.
RepriceRow(r, p) ==
    LET c == run[r].offer[p] IN
    /\ run[r].stage = "reprice" /\ First(r, p) /\ p \notin Locked
    /\ plan' = [plan EXCEPT ![p].price = Retail(c), ![p].list = CompareAt(c)]
    /\ run' = [run EXCEPT ![r].todo = @ \ {p}]
    /\ UNCHANGED <<feed, listing, page, moves, pages, faults>>

Repriced(r) ==
    /\ run[r].stage = "reprice" /\ run[r].todo = {}
    /\ run' = [run EXCEPT ![r] = [IdleRun EXCEPT !.stage = "figures"]]
    /\ UNCHANGED <<feed, plan, listing, page, moves, pages, faults>>

\* The process dies: an open transaction is rolled back, the rest is not done.
RunDies(r) ==
    /\ run[r].stage # "idle" /\ faults < MaxFaults
    /\ run' = [run EXCEPT ![r] = IdleRun]
    /\ faults' = faults + 1
    /\ UNCHANGED <<feed, plan, listing, page, moves, pages>>
-----------------------------------------------------------------------------
(* The admin.                                                              *)

\* A submitted list of plans loads its rows ...
LoadPage(o, p) ==
    /\ page[o] = NoPage /\ plan[p] # NoRow /\ pages < MaxPages
    /\ RepriceAlone => ~Repricing
    /\ page' = [page EXCEPT ![o] = [plan |-> p, row |-> plan[p]]]
    /\ pages' = pages + 1
    /\ UNCHANGED <<feed, plan, run, listing, moves, faults>>

\* ... and saves a whole row of which the operator changed the price or switch.
SavePage(o) ==
    LET p == page[o].plan IN
    /\ page[o] # NoPage /\ p \notin Locked
    /\ \E price \in Overrides, on \in BOOLEAN :
          /\ price # page[o].row.override \/ on # page[o].row.on
          /\ plan' = [plan EXCEPT ![p] = [page[o].row EXCEPT !.override = price, !.on = on]]
    /\ page' = [page EXCEPT ![o] = NoPage]
    /\ UNCHANGED <<feed, run, listing, moves, pages, faults>>
-----------------------------------------------------------------------------
(* What a customer who subscribes is asked for, and Stripe then charges.   *)

Asked(p) == SubscriptionPrice(PriceOf(plan[p]), plan[p].cost, Agreed[p])

-----------------------------------------------------------------------------
RunStep(r) ==
    \/ \E p \in Plans : CreateRow(r, p) \/ ReadRow(r, p) \/ SaveRow(r, p) \/ RepriceRow(r, p)
    \/ ReadListing(r) \/ SaveListing(r) \/ Commit(r)
    \/ ReadFigures(r) \/ SaveFigures(r) \/ Repriced(r)

CatalogueNext ==
    \/ \E p \in Plans : FeedMoves(p) \/ \E o \in Admins : LoadPage(o, p)
    \/ \E r \in Runs : Fetch(r) \/ Reprice(r) \/ RunStep(r) \/ RunDies(r)
    \/ \E o \in Admins : SavePage(o)

\* A run of sync_plans that began goes on, and some run begins every night.
CatalogueFairness ==
    /\ \A r \in Runs : WF_catalogueVars(RunStep(r))
    /\ SF_catalogueVars(\E r \in Runs : Fetch(r))

CatalogueSpec == CatalogueInit /\ [][CatalogueNext]_catalogueVars /\ CatalogueFairness
-----------------------------------------------------------------------------
(* Properties.                                                             *)

\* A plan that no operator priced by hand is sold for its wholesale price and
\* the least margin, whoever saves whole rows over whom.
MarginKept ==
    \A p \in Plans : plan[p] # NoRow /\ plan[p].override = NoPrice =>
        PriceOf(plan[p]) >= Floor(plan[p].cost)

\* The two rails of subscription_price: never more than the one-off price, and
\* never below wholesale and margin unless the operator's own price was.
SubscriberGains ==
    \A p \in Live :
        /\ Asked(p) <= PriceOf(plan[p])
        /\ Asked(p) >= Floor(plan[p].cost) \/ plan[p].override # NoPrice

\* What the shop shows is what the provider sells: the plans, their costs and
\* the destination's figures agree.
InStep ==
    /\ \A p \in Plans : feed[p] = NoPrice => plan[p] = NoRow \/ ~plan[p].listed
    /\ \A p \in Plans : feed[p] # NoPrice =>
            plan[p] # NoRow /\ plan[p].listed /\ plan[p].cost = feed[p]
    /\ listing = Figures(Live)

\* Once nobody changes anything the nightly job brings the catalogue in step and
\* never out of it again, although runs died, overlapped or were overwritten by
\* pages: sync_plans is idempotent.
ListingSettles == <>[]InStep

(* What the code does not keep.                                            *)

\* The struck-through price follows the wholesale price (pricing.py:50).
ListTracksCost == \A p \in Plans : plan[p] # NoRow => plan[p].list = CompareAt(plan[p].cost)

\* Only an operator's page changes an operator's price (pricing.py:4).
OverrideStands ==
    [][\A p \in Plans : plan[p] # NoRow /\ plan'[p].override # plan[p].override =>
            \E o \in Admins : page[o].plan = p /\ page'[o] = NoPage]_catalogueVars
=============================================================================
