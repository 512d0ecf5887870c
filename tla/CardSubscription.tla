-------------------------- MODULE CardSubscription --------------------------
(***************************************************************************)
(* A subscription billed by Stripe: the first half of                      *)
(* apps/subscriptions/services.py, for one subscription.                   *)
(*                                                                         *)
(* Stripe decides when to charge and reports it in events that arrive in   *)
(* any order and more than once, each handled by a web worker.  The row    *)
(* and the failed cycle are saved without a lock; start_cycle locks the    *)
(* subscription and turns a collected invoice into one order.  The line    *)
(* bound to the subscription is left to its orders: resolve_esim reads it  *)
(* back from them.                                                         *)
(***************************************************************************)
EXTENDS Integers, Sequences, FiniteSets, Functions

CONSTANTS
    Last,           \* bound: the last invoice looked at
    Handlers,       \* web workers handling events
    CardMayFail,    \* whether a renewal may be declined
    ProviderMayFail,\* whether provisioning may fail at first
    MaxOrders,      \* bound: orders booked for one invoice
    MaxWorkersLost  \* bound: workers that die half way

ASSUME LastAssumption == Last \in Nat \ {0}
ASSUME CardBoundsAssumption ==
    /\ MaxOrders \in Nat /\ MaxWorkersLost \in Nat
    /\ CardMayFail \in BOOLEAN /\ ProviderMayFail \in BOOLEAN

VARIABLES
    stripe,     \* Stripe's subscription: status, latest invoice, cancel_at_period_end
    collected,  \* invoices Stripe has been paid for
    events,     \* events Stripe has sent
    handled,    \* invoices whose invoice.paid was answered with 200
    row,        \* our row: status, current_period_end (as an invoice), cancel_at_period_end
    cycle,      \* SubscriptionCycle.status by invoice
    orders,     \* orders booked for each invoice: kind, and whether delivered
    doing, event, \* each worker's next step and the event at hand
    copy,       \* the row a checkout handler has in hand
    mine,       \* which order of its invoice a worker has booked
    lost        \* workers that died half way

cardVars == <<stripe, collected, events, handled, row, cycle, orders, doing, event, copy, mine,
              lost>>

Invoices == 1..Last
CardStatus   == {"incomplete", "active", "past_due", "canceled"}
CardRow      == [status : CardStatus, end : 0..Last, ends : BOOLEAN]
NewRow   == [status |-> "incomplete", end |-> 0, ends |-> FALSE]
Event    == [type : {"checkout", "paid", "failed", "changed", "deleted"},
             status : CardStatus, end : Invoices, ends : BOOLEAN]
Order    == [kind : {"new", "topup"}, done : BOOLEAN]

\* Stripe's view of the subscription as an event carries it.
Snapshot(type, s) == [type |-> type, status |-> s.status, end |-> s.end, ends |-> s.ends]
NoEvent == Snapshot("changed", [status |-> "incomplete", end |-> 1, ends |-> FALSE])

CardInit ==
    /\ stripe    = NewRow
    /\ collected = {}
    /\ events    = {}
    /\ handled   = {}
    /\ row       = NewRow
    /\ cycle     = [i \in Invoices |-> "none"]
    /\ orders    = [i \in Invoices |-> <<>>]
    /\ doing     = [w \in Handlers |-> "idle"]
    /\ event     = [w \in Handlers |-> NoEvent]
    /\ copy      = [w \in Handlers |-> NewRow]
    /\ mine      = [w \in Handlers |-> 0]
    /\ lost      = 0
-----------------------------------------------------------------------------
\* Stripe.

\* Stripe's subscription becomes s and the events named in types go out.
Report(s, types) ==
    /\ stripe' = s
    /\ events' = events \union {Snapshot(type, s) : type \in types}
    /\ UNCHANGED <<handled, row, cycle, orders, doing, event, copy, mine, lost>>

\* Checkout completes; the first charge has cleared, or waits for the bank.
Subscribe ==
    /\ stripe.end = 0
    /\ \/ /\ Report([status |-> "active", end |-> 1, ends |-> FALSE],
                    {"checkout", "paid", "changed"})
          /\ collected' = {1}
       \/ /\ Report([status |-> "incomplete", end |-> 1, ends |-> FALSE], {"checkout", "changed"})
          /\ UNCHANGED collected

\* The money of the open invoice comes in: the first one, a renewal, a retry.
Collect ==
    LET due == IF stripe.status = "active" THEN stripe.end + 1 ELSE stripe.end
    IN  /\ stripe.end > 0 /\ due <= Last
        /\ stripe.status # "canceled" /\ ~stripe.ends
        /\ Report([status |-> "active", end |-> due, ends |-> FALSE], {"paid", "changed"})
        /\ collected' = collected \union {due}

\* A renewal is declined.  Stripe goes on trying and reports every attempt.
Declined ==
    /\ CardMayFail
    /\ stripe.status = "active" /\ stripe.end < Last /\ ~stripe.ends
    /\ Report([status |-> "past_due", end |-> stripe.end + 1, ends |-> FALSE],
              {"failed", "changed"})
    /\ UNCHANGED collected

\* The customer asks the portal to stop renewing.
Portal ==
    /\ stripe.status = "active" /\ ~stripe.ends
    /\ Report([stripe EXCEPT !.ends = TRUE], {"changed"})
    /\ UNCHANGED collected

\* The period ran out, dunning gave up, or the operator ended it.
End ==
    /\ stripe.end > 0 /\ stripe.status # "canceled"
    /\ Report([stripe EXCEPT !.status = "canceled"], {"deleted"})
    /\ UNCHANGED collected
-----------------------------------------------------------------------------
\* The handlers.

\* The request goes on to its next step.
Goto(w, step) ==
    /\ doing' = [doing EXCEPT ![w] = step]
    /\ UNCHANGED <<handled, event, copy, mine>>

\* Stripe is answered and the worker forgets what it had in hand.
Answer(w) ==
    /\ doing'   = [doing EXCEPT ![w] = "idle"]
    /\ event'   = [event EXCEPT ![w] = NoEvent]
    /\ copy'    = [copy EXCEPT ![w] = NewRow]
    /\ mine'    = [mine EXCEPT ![w] = 0]
    /\ handled' = IF event[w].type = "paid" THEN handled \union {event[w].end} ELSE handled

\* handle_stripe_event reads the row the event is about.
Begin(w, e) ==
    /\ doing[w] = "idle"
    /\ doing' = [doing EXCEPT ![w] = e.type]
    /\ event' = [event EXCEPT ![w] = e]
    /\ copy'  = [copy EXCEPT ![w] = IF e.type = "checkout" THEN row ELSE NewRow]
    /\ UNCHANGED <<stripe, collected, events, handled, row, cycle, orders, mine, lost>>

\* _apply_remote: our row takes Stripe's word.
Applied(e) == [status |-> e.status, end |-> e.end, ends |-> e.ends]

\* _on_subscription_changed: the whole row is saved.
Changed(w) ==
    /\ doing[w] \in {"changed", "deleted"}
    /\ row' = Applied(event[w])
    /\ Answer(w)
    /\ UNCHANGED <<stripe, collected, events, cycle, orders, lost>>

\* What a checkout leaves when Stripe does not answer: the session's own word.
Unanswered(old, e) ==
    [old EXCEPT !.status = IF e.status = "active" THEN "active" ELSE @,
                !.end    = IF @ = 0 THEN 1 ELSE @]

\* The first cycle starts only when the subscription is active by now.
GoOn(new) == new.status = "active"

\* _on_checkout_completed asks Stripe for the present state ...
CheckoutFetch(w) ==
    /\ doing[w] = "checkout"
    /\ \E r \in {Applied(stripe), Unanswered(copy[w], event[w])} : copy' = [copy EXCEPT ![w] = r]
    /\ doing' = [doing EXCEPT ![w] = "save"]
    /\ UNCHANGED <<stripe, collected, events, handled, row, cycle, orders, event, mine, lost>>

\* ... and saves the row whole.
CheckoutSave(w) ==
    /\ doing[w] = "save"
    /\ row' = copy[w]
    /\ IF GoOn(copy[w]) THEN Goto(w, "cycle") ELSE Answer(w)
    /\ UNCHANGED <<stripe, collected, events, cycle, orders, lost>>

\* _on_invoice_paid saves the status and the period.
PaidSave(w) ==
    /\ doing[w] = "paid"
    /\ row' = [row EXCEPT !.status = "active", !.end = event[w].end]
    /\ Goto(w, "cycle")
    /\ UNCHANGED <<stripe, collected, events, cycle, orders, lost>>

\* _on_invoice_failed saves the status ...
FailedSave(w) ==
    /\ doing[w] = "failed"
    /\ row' = [row EXCEPT !.status = "past_due"]
    /\ Goto(w, "mark")
    /\ UNCHANGED <<stripe, collected, events, cycle, orders, lost>>

\* The failure is written whatever the cycle was.
FailedCycleAlways(w) ==
    /\ doing[w] = "mark"
    /\ cycle' = [cycle EXCEPT ![event[w].end] = "failed"]
    /\ Answer(w)
    /\ UNCHANGED <<stripe, collected, events, row, orders, lost>>

\* ... then gets or creates the cycle ...
FailedCycle(w) ==
    LET i == event[w].end
    IN  /\ doing[w] = "mark"
        /\ cycle' = IF cycle[i] = "none" THEN [cycle EXCEPT ![i] = "failed"] ELSE cycle
        /\ IF cycle[i] = "failed" THEN Goto(w, "downgrade") ELSE Answer(w)
        /\ UNCHANGED <<stripe, collected, events, row, orders, lost>>

\* ... and writes the failure again when the cycle it got was not paid.
Downgrade(w) ==
    /\ doing[w] = "downgrade"
    /\ cycle' = [cycle EXCEPT ![event[w].end] = "failed"]
    /\ Answer(w)
    /\ UNCHANGED <<stripe, collected, events, row, orders, lost>>

\* A failed attempt counts as a record of the invoice.
RecordedAtAll(i) == cycle[i] # "none"

\* Nothing is ever found to be recorded.
NeverRecorded(i) == FALSE

\* The invoice already has its paid cycle and its order.
Recorded(i) == cycle[i] = "paid" /\ orders[i] # <<>>

\* The kind of the next order: a top-up once some line of the subscription
\* exists (resolve_esim, over every order the subscription has had).
NextKind ==
    IF \E i \in Invoices : [kind |-> "new", done |-> TRUE] \in Range(orders[i])
    THEN "topup" ELSE "new"

\* start_cycle, in one transaction under the subscription's lock.
StartCardCycle(w) ==
    LET i == event[w].end
    IN  /\ doing[w] = "cycle"
        /\ IF Recorded(i) THEN UNCHANGED <<cycle, orders>> /\ Answer(w)
           ELSE /\ Len(orders[i]) < MaxOrders
                /\ cycle'  = [cycle EXCEPT ![i] = "paid"]
                /\ orders' = [orders EXCEPT ![i] = Append(@, [kind |-> NextKind, done |-> FALSE])]
                /\ mine'   = [mine EXCEPT ![w] = Len(orders[i]) + 1]
                /\ doing'  = [doing EXCEPT ![w] = "provision"]
                /\ UNCHANGED <<handled, event, copy>>
        /\ UNCHANGED <<stripe, collected, events, row, lost>>

\* fulfill_order on the kth order of invoice i.
Deliver(i, k) == orders' = [orders EXCEPT ![i][k].done = TRUE]

\* _provision_cycle, after the commit; a failure leaves the order to the sweeper.
Provision(w) ==
    /\ doing[w] = "provision"
    /\ \/ Deliver(event[w].end, mine[w])
       \/ ProviderMayFail /\ UNCHANGED orders
    /\ Answer(w)
    /\ UNCHANGED <<stripe, collected, events, row, cycle, lost>>

\* retry_orders finds a paid order that was not delivered.
Sweep(i) ==
    /\ \E k \in 1..Len(orders[i]) : ~orders[i][k].done /\ Deliver(i, k)
    /\ UNCHANGED <<stripe, collected, events, handled, row, cycle, doing, event, copy, mine, lost>>

\* The worker dies and Stripe is not answered.
WorkerDies(w) ==
    /\ lost < MaxWorkersLost
    /\ doing[w] # "idle"
    /\ lost'  = lost + 1
    /\ doing' = [doing EXCEPT ![w] = "idle"]
    /\ event' = [event EXCEPT ![w] = NoEvent]
    /\ copy'  = [copy EXCEPT ![w] = NewRow]
    /\ mine'  = [mine EXCEPT ![w] = 0]
    /\ UNCHANGED <<stripe, collected, events, handled, row, cycle, orders>>

Handle(w) ==
    \/ Changed(w) \/ CheckoutFetch(w) \/ CheckoutSave(w) \/ PaidSave(w) \/ FailedSave(w)
    \/ FailedCycle(w) \/ Downgrade(w) \/ StartCardCycle(w) \/ Provision(w)

CardNext ==
    \/ Subscribe \/ Collect \/ Declined \/ Portal \/ End
    \/ \E w \in Handlers : Handle(w) \/ WorkerDies(w) \/ \E e \in events : Begin(w, e)
    \/ \E i \in Invoices : Sweep(i)

CardSpec == CardInit /\ [][CardNext]_cardVars
-----------------------------------------------------------------------------
CardTypes ==
    /\ stripe    \in CardRow
    /\ collected \subseteq Invoices
    /\ events    \subseteq Event
    /\ handled   \subseteq collected
    /\ row       \in CardRow
    /\ cycle     \in [Invoices -> {"none", "failed", "paid"}]
    /\ orders    \in [Invoices -> Seq(Order)]
    /\ doing     \in [Handlers -> {"idle", "checkout", "paid", "failed", "changed", "deleted",
                                  "save", "mark", "downgrade", "cycle", "provision"}]
    /\ event     \in [Handlers -> Event]
    /\ copy      \in [Handlers -> CardRow]
    /\ mine      \in [Handlers -> 0..MaxOrders]
    /\ lost      \in 0..MaxWorkersLost

\* An invoice is turned into one order, however often and in whatever order its
\* events arrive ("a webhook retry can never provision (or charge for) the same
\* period twice").
OneOrderPerInvoice == \A i \in Invoices : Len(orders[i]) <= 1

\* No order is booked for an invoice Stripe has not collected ("Provisioning now
\* would hand out data we were never paid for").
NothingUncollected == \A i \in Invoices : orders[i] # <<>> => i \in collected

\* A paid period stays paid, although a report of a failed attempt may be late
\* ("Never downgrade a cycle that is already paid").
PaidStaysPaid == [][\A i \in Invoices : cycle[i] = "paid" => cycle'[i] = "paid"]_cardVars

\* The customer installs one profile, once: no second one is ordered ("a second
\* profile while the first one was still on its way").
OneProfile ==
    Cardinality({i \in Invoices : \E k \in 1..Len(orders[i]) : orders[i][k].kind = "new"}) <= 1

\* Handling an invoice.paid again leaves the subscription's status alone
\* (handle_stripe_event "Idempotent").
RedeliveryIsHarmless ==
    [][\A w \in Handlers :
          event[w].type = "paid" /\ event[w].end \in handled /\ Handle(w)
              => row'.status = row.status]_cardVars
-----------------------------------------------------------------------------
\* The invoice.paid of an invoice is not answered yet, and a worker takes it up.
AnswersPaid(i) ==
    \E w \in Handlers, e \in events :
        e.type = "paid" /\ e.end = i /\ i \notin handled /\ Begin(w, e)

\* Stripe repeats an event until it is answered, requests run to their end and
\* retry_orders keeps running.
CardFairness ==
    /\ \A w \in Handlers : WF_cardVars(Handle(w))
    /\ \A i \in Invoices : WF_cardVars(Sweep(i)) /\ SF_cardVars(AnswersPaid(i))
CardFairSpec == CardSpec /\ CardFairness

\* What Stripe collected is delivered in the end, whatever else it reports and
\* though a worker dies.
CollectedIsDelivered ==
    \A i \in Invoices :
        (i \in collected) ~> (\E k \in 1..Len(orders[i]) : orders[i][k].done)
=============================================================================
