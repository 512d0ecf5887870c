------------------------------- MODULE Closing ------------------------------
(***************************************************************************)
(* From "subscribe" to a deleted account: the checkout attempts of         *)
(* apps/subscriptions/views.py, the events that tell of the mandate, the   *)
(* pruning of abandoned attempts, and apps/accounts/deletion.py, which     *)
(* cancels a customer's mandates at Stripe one by one before it erases.    *)
(*                                                                         *)
(* One customer and one plan.  A mandate is named by the Checkout session  *)
(* it came from.  What each paid period starts is in CardSubscription.     *)
(***************************************************************************)
EXTENDS Naturals, FiniteSets

CONSTANTS
    Rows,        \* Subscription rows that may be created
    Sessions,    \* Checkout sessions that may be opened
    MaxFaults,   \* bound: calls to Stripe that fail and deletions that die
    MaxBills,    \* bound: renewals and ends of mandates by Stripe itself
    Nothing        \* no Stripe subscription id, no row

ASSUME ClosingAssumption ==
    /\ MaxFaults \in Nat /\ MaxBills \in Nat
    /\ Nothing \notin Rows \union Sessions /\ Rows \intersect Sessions = {}

VARIABLES
    sub,      \* Subscription.status, "none" before and "deleted" after
    sid,      \* Subscription.stripe_subscription_id
    age,      \* of a row: under 6 h, under 30 h, under a week, older
    session,  \* Checkout sessions
    of,       \* the row a session refers to (client_reference_id, metadata)
    mandate,  \* Stripe subscriptions
    due,      \* events of a mandate that were not answered yet
    stage, todo, \* delete_account: next step, rows it has still to cancel
    at, held, \* the row at hand and, for each row, the id it was read with
    known,    \* the mandates the rows named when the deletion listed them
    picked,   \* rows the pruning command has listed
    misled,   \* mandates whose last word was old news, or nothing at all: nobody
              \* has said since how they stand
    faults, bills

closingVars == <<sub, sid, age, session, of, mandate, due, stage, todo, at, held, known, picked,
          misled, faults, bills>>
closing == <<stage, todo, at, held, known>>

Live   == {"active", "past_due"}
Status == {"none", "incomplete", "canceled", "deleted"} \union Live

ClosingInit ==
    /\ sub     = [r \in Rows |-> "none"]
    /\ sid     = [r \in Rows |-> Nothing]
    /\ age     = [r \in Rows |-> "fresh"]
    /\ session = [s \in Sessions |-> "none"]
    /\ of      = [s \in Sessions |-> Nothing]
    /\ mandate = [s \in Sessions |-> "none"]
    /\ due     = [s \in Sessions |-> {}]
    /\ stage = "open" /\ todo = {} /\ at = Nothing /\ known = {} /\ picked = {} /\ misled = {}
    /\ held    = [r \in Rows |-> Nothing]
    /\ faults = 0 /\ bills = 0
-----------------------------------------------------------------------------
\* _pending_subscription: the abandoned attempt of the last six hours, or a row.
Reusable == {r \in Rows : sub[r] = "incomplete" /\ sid[r] = Nothing /\ age[r] = "fresh"}

\* subscribe: not for who has the plan already; a row (two tabs may both start
\* one), then a Checkout session that names it.
Subscribe(s) ==
    /\ stage # "closed"
    /\ session[s] = "none"
    /\ \A r \in Rows : sub[r] \notin Live
    /\ \E r \in Reusable \union {x \in Rows : sub[x] = "none"} :
          /\ sub' = [sub EXCEPT ![r] = "incomplete"]
          /\ \/ /\ session' = [session EXCEPT ![s] = "open"]
                /\ of' = [of EXCEPT ![s] = r]
                /\ UNCHANGED faults
             \/ /\ faults < MaxFaults
                /\ faults' = faults + 1
                /\ UNCHANGED <<session, of>>
    /\ UNCHANGED <<sid, age, mandate, due, closing, picked, misled, bills>>

\* The session is paid: Stripe opens a mandate and says so, now or days later.
Pay(s) ==
    /\ session[s] = "open"
    /\ session' = [session EXCEPT ![s] = "paid"]
    /\ mandate' = [mandate EXCEPT ![s] = "live"]
    /\ due'     = [due EXCEPT ![s] = {"completed", "paid"}]
    /\ UNCHANGED <<sub, sid, age, of, closing, picked, misled, faults, bills>>

\* A renewal is declined, or paid, or the mandate is reported as it stands; one
\* that is not paid for ends.
Bill(s) ==
    /\ mandate[s] = "live"
    /\ bills < MaxBills
    /\ bills' = bills + 1
    /\ \/ /\ \E e \in {"paid", "failed", "updated"} : due' = [due EXCEPT ![s] = @ \union {e}]
          /\ UNCHANGED mandate
       \/ /\ mandate' = [mandate EXCEPT ![s] = "dead"]
          /\ due' = [due EXCEPT ![s] = @ \union {"deleted"}]
    /\ UNCHANGED <<sub, sid, age, session, of, closing, picked, misled, faults>>

\* A session lives for 24 hours and is opened in the first six of its row;
\* Stripe repeats an event for three days, far less than a week.
Older(r) ==
    /\ sub[r] # "none"
    /\ \/ /\ age[r] = "fresh"
          /\ age' = [age EXCEPT ![r] = "open"]
          /\ UNCHANGED session
       \/ /\ age[r] = "open"
          /\ age' = [age EXCEPT ![r] = "settling"]
          /\ session' = [s \in Sessions |->
                IF of[s] = r /\ session[s] = "open" THEN "expired" ELSE session[s]]
       \/ /\ age[r] = "settling"
          /\ \A s \in Sessions : of[s] = r => due[s] = {}
          /\ age' = [age EXCEPT ![r] = "stale"]
          /\ UNCHANGED session
    /\ UNCHANGED <<sub, sid, of, mandate, due, closing, picked, misled, faults, bills>>
-----------------------------------------------------------------------------
\* _find_subscription: by the id, then by the reference.
NamedBy(s)  == {r \in Rows : sub[r] \notin {"none", "deleted"} /\ sid[r] = s}
Referred(s) == {r \in Rows : sub[r] \notin {"none", "deleted"} /\ of[s] = r}
Found(s)    == IF NamedBy(s) # {} THEN NamedBy(s) ELSE Referred(s)

\* The session says paid, and that is what the row will say.
TrustSession(s) == "active"

\* What retrieve_subscription says when it answers.
Remote(s) == IF mandate[s] = "live" THEN "active" ELSE "canceled"

\* checkout.session.completed: the id is noted and Stripe asked how the mandate
\* stands by now; if it does not answer, the session's word stands.
OnCompleted(s) ==
    /\ "completed" \in due[s]
    /\ due' = [due EXCEPT ![s] = @ \ {"completed"}]
    /\ \/ /\ sub' = [r \in Rows |-> IF r \in Found(s) THEN Remote(s) ELSE sub[r]]
          /\ misled' = misled \ {s}
          /\ UNCHANGED faults
       \/ /\ faults < MaxFaults
          /\ faults' = faults + 1
          /\ misled' = misled \union {s}
          /\ sub' = [r \in Rows |-> IF r \in Found(s) THEN "active" ELSE sub[r]]
    /\ sid' = [r \in Rows |-> IF r \in Found(s) THEN s ELSE sid[r]]
    /\ UNCHANGED <<age, session, of, mandate, closing, picked, bills>>

\* What an event other than the first says of the mandate.
Says == [paid |-> "active", failed |-> "past_due", updated |-> "active", deleted |-> "canceled"]

\* Whatever is said of an ended mandate is old news, except that it ended, which
\* sets right what was said before.
MisledBy(s, e) ==
    IF e = "deleted" THEN misled \ {s}
    ELSE IF mandate[s] = "dead" THEN misled \union {s} ELSE misled

\* invoice.paid and invoice.payment_failed set the status, whichever came first
\* at Stripe; customer.subscription.* bring the id as well.
OnEvent(s, e) ==
    /\ e \in due[s]
    /\ due' = [due EXCEPT ![s] = @ \ {e}]
    /\ sub' = [r \in Rows |-> IF r \in Found(s) THEN Says[e] ELSE sub[r]]
    /\ sid' = [r \in Rows |->
                  IF r \in Found(s) /\ sid[r] = Nothing /\ e \in {"updated", "deleted"}
                  THEN s ELSE sid[r]]
    /\ misled' = MisledBy(s, e)
    /\ UNCHANGED <<age, session, of, mandate, closing, picked, faults, bills>>
-----------------------------------------------------------------------------
\* A day is enough.
StaleAfterADay == {"settling", "stale", "open"}

\* prune_incomplete_subscriptions: a week.
Prunable == {"stale"}

PruneList ==
    /\ picked = {}
    /\ picked' = {r \in Rows : sub[r] = "incomplete" /\ sid[r] = Nothing /\ age[r] \in Prunable}
    /\ picked' # {}
    /\ UNCHANGED <<sub, sid, age, session, of, mandate, due, closing, misled, faults, bills>>

\* Deleted by the list of keys, as they are by now.
PruneDelete ==
    /\ picked # {}
    /\ sub' = [r \in Rows |-> IF r \in picked THEN "deleted" ELSE sub[r]]
    /\ picked' = {}
    /\ UNCHANGED <<sid, age, session, of, mandate, due, closing, misled, faults, bills>>
-----------------------------------------------------------------------------
Deletion(step, left, now, read, named) ==
    /\ stage' = step /\ todo' = left /\ at' = now /\ held' = read /\ known' = named

\* active_subscriptions.
ToCancel == {"incomplete"} \union Live

CloseBegin ==
    /\ stage = "open"
    /\ Deletion("cancel", {r \in Rows : sub[r] \in ToCancel}, Nothing, sid,
                {s \in Sessions : \E r \in Rows : sub[r] \in Live /\ sid[r] = s})
    /\ UNCHANGED <<sub, sid, age, session, of, mandate, due, picked, misled, faults, bills>>

\* Stripe cancels the mandate and announces it.
Cancelled(s) ==
    /\ mandate' = [mandate EXCEPT ![s] = "dead"]
    /\ due'     = IF mandate[s] = "live" THEN [due EXCEPT ![s] = @ \union {"deleted"}] ELSE due

\* The deletion goes on when Stripe refuses.
CarryOn(r) == Deletion("save", todo \ {r}, r, held, known)

\* The deletion is given up and the account stays as it is; the customer may try
\* again.
GivenUp == Deletion("open", {}, Nothing, [r \in Rows |-> Nothing], {})

\* DeletionBlocked.
StripeRefuses(r) == GivenUp

\* One row after the other: its mandate is cancelled at Stripe, if it has one.
\* A refusal, or an answer that is lost, stops the deletion.
CancelNext(r) ==
    /\ stage = "cancel" /\ r \in todo
    /\ \/ /\ Deletion("save", todo \ {r}, r, held, known)
          /\ IF held[r] = Nothing THEN UNCHANGED <<mandate, due>> ELSE Cancelled(held[r])
          /\ UNCHANGED faults
       \/ /\ held[r] # Nothing /\ faults < MaxFaults
          /\ faults' = faults + 1
          /\ StripeRefuses(r)
          /\ Cancelled(held[r]) \/ UNCHANGED <<mandate, due>>
    /\ UNCHANGED <<sub, sid, age, session, of, picked, misled, bills>>

\* The row is saved; if it was pruned meanwhile the save raises.
SaveCanceled ==
    /\ stage = "save"
    /\ \/ sub[at] = "deleted" /\ GivenUp /\ UNCHANGED sub
       \/ /\ sub[at] # "deleted"
          /\ sub' = [sub EXCEPT ![at] = "canceled"]
          /\ Deletion("cancel", todo, Nothing, held, known)
    /\ UNCHANGED <<sid, age, session, of, mandate, due, picked, misled, faults, bills>>

\* Everything is cancelled: the erasing transaction (see Lines).
Erase ==
    /\ stage = "cancel" /\ todo = {}
    /\ Deletion("closed", {}, Nothing, [r \in Rows |-> Nothing], known)
    /\ UNCHANGED <<sub, sid, age, session, of, mandate, due, picked, misled, faults, bills>>

\* The request dies.
DeletionDies ==
    /\ stage \in {"cancel", "save"}
    /\ faults < MaxFaults
    /\ faults' = faults + 1
    /\ GivenUp
    /\ UNCHANGED <<sub, sid, age, session, of, mandate, due, picked, misled, bills>>

ClosingNext ==
    \/ \E s \in Sessions : Subscribe(s) \/ Pay(s) \/ Bill(s) \/ OnCompleted(s)
    \/ \E s \in Sessions, e \in DOMAIN Says : OnEvent(s, e)
    \/ \E r \in Rows : Older(r) \/ CancelNext(r)
    \/ PruneList \/ PruneDelete \/ CloseBegin \/ SaveCanceled \/ Erase \/ DeletionDies

ClosingSpec == ClosingInit /\ [][ClosingNext]_closingVars
-----------------------------------------------------------------------------
ClosingTypeOK ==
    /\ sub \in [Rows -> Status] /\ sid \in [Rows -> Sessions \union {Nothing}]
    /\ age \in [Rows -> {"fresh", "open", "settling", "stale"}]
    /\ session \in [Sessions -> {"none", "open", "paid", "expired"}]
    /\ of \in [Sessions -> Rows \union {Nothing}]
    /\ mandate \in [Sessions -> {"none", "live", "dead"}]
    /\ due \in [Sessions -> SUBSET ({"completed"} \union DOMAIN Says)]
    /\ stage \in {"open", "cancel", "save", "closed"}
    /\ todo \subseteq Rows /\ at \in Rows \union {Nothing} /\ held \in [Rows -> Sessions \union {Nothing}]
    /\ known \subseteq Sessions /\ picked \subseteq Rows /\ misled \subseteq Sessions
    /\ faults \in 0..MaxFaults /\ bills \in 0..MaxBills

\* When the account is closed, every mandate its rows named when the deletion
\* listed them has ended at Stripe, however calls failed, answers were lost and
\* deletions were tried again ("Stop every recurring charge before anything else").
MoneyStopsFirst == stage = "closed" => \A s \in known : mandate[s] = "dead"

\* The row a paid session refers to is never pruned, so its events always find
\* somebody ("it can never become live").
PaidAttemptKept == \A s \in Sessions : mandate[s] # "none" => sub[of[s]] # "deleted"

\* The one mandate of an attempt.
Alone(s) == \A t \in Sessions \ {s} : of[t] = of[s] => mandate[t] = "none"

\* A mandate that ended is not shown as running once its events are handled,
\* however they are mixed with new attempts and deletions, unless something said
\* before the end came after it or Stripe could not be asked.
EndIsShown ==
    \A s \in Sessions \ misled :
        mandate[s] = "dead" /\ due[s] = {} /\ Alone(s)
            => \A r \in Rows : sid[r] = s => sub[r] \notin Live
-----------------------------------------------------------------------------
\* A closed account is not charged any more (deletion.py: "A closed account with a
\* live subscription behind it is a customer being charged with no way left to stop it").
ClosedIsNotCharged == stage = "closed" => \A s \in Sessions : mandate[s] # "live"

\* Never two subscriptions for the same plan (subscriptions/views.py: "that is two
\* charges and two eSIMs for one line they thought they were renewing").
OneMandate == Cardinality({s \in Sessions : mandate[s] = "live"}) <= 1
=============================================================================
