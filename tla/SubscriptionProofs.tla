------------------------- MODULE SubscriptionProofs -------------------------
(***************************************************************************)
(* Subscriptions, for any number of rows, invoices, workers and days.      *)
(*                                                                         *)
(* By card: an order is booked for an invoice together with its paid       *)
(* cycle, so what protects the one protects the other.  From the balance:  *)
(* one run at a time holds the only copies of the rows it has listed, and  *)
(* nobody else moves the end of a period.                                  *)
(***************************************************************************)
EXTENDS CardSubscription, BalanceRenewal, TLAPS
-----------------------------------------------------------------------------
(* Invoices.                                                               *)

LEMMA EventTypes ==
  ASSUME NEW e, e \in Event
  PROVE  /\ e.type \in {"checkout", "paid", "failed", "changed", "deleted"}
         /\ e.status \in CardStatus /\ e.end \in Invoices /\ e.ends \in BOOLEAN
         /\ Applied(e) \in CardRow
BY LastAssumption DEF Event, Applied, CardRow, Invoices

LEMMA SnapshotTypes ==
  ASSUME NEW s, s.status \in CardStatus, s.end \in Invoices, s.ends \in BOOLEAN,
         NEW type \in {"checkout", "paid", "failed", "changed", "deleted"}
  PROVE  Snapshot(type, s) \in Event
BY DEF Snapshot, Event

LEMMA NewTypes == NewRow \in CardRow /\ NoEvent \in Event /\ NoEvent.type = "changed"
BY LastAssumption DEF NewRow, CardRow, CardStatus, NoEvent, Snapshot, Event, Invoices

\* An order of a worker's own is one of its invoice.
Booked(w) == doing[w] = "provision" => mine[w] \in 1..Len(orders[event[w].end])

\* What a worker does follows from the event it took up.
Course(w) ==
    /\ doing[w] \in {"checkout", "save"} => event[w].type = "checkout"
    /\ doing[w] = "paid" => event[w].type = "paid"
    /\ doing[w] \in {"failed", "mark", "downgrade"} => event[w].type = "failed"
    /\ event[w] \in events \/ event[w] = NoEvent

\* Once the first invoice is paid for.
Begun == 1 \in collected

\* Nobody calls the subscription active, neither Stripe nor an event, the row or
\* a copy of it, before the first invoice was paid for; and an event that says an
\* invoice is paid is right.
StripeRight ==
    /\ stripe.status = "active" => stripe.end \in collected
    /\ stripe.status = "incomplete" => stripe.end <= 1
    /\ stripe.status # "incomplete" => stripe.end > 0
    /\ stripe.status \in {"active", "past_due"} => Begun
    /\ collected # {} => Begun /\ stripe.end > 0
EventRight(e) ==
    /\ e.type = "paid" => e.end \in collected
    /\ e.status = "active" => Begun
    /\ e.type = "checkout" => e.end = 1
    /\ e.type = "failed" => CardMayFail
WorkerRight(w) ==
    /\ copy[w].status = "active" => Begun
    /\ doing[w] = "cycle" => event[w].end \in collected

BillInv ==
    /\ CardTypes
    /\ \A w \in Handlers : Booked(w) /\ Course(w) /\ WorkerRight(w)
    /\ StripeRight
    /\ \A e \in events : EventRight(e)
    /\ row.status = "active" => Begun
    /\ NothingUncollected

LEMMA InitBill == CardInit => BillInv
<1> SUFFICES ASSUME CardInit PROVE BillInv
  OBVIOUS
<1>1. CardTypes
  BY NewTypes, CardBoundsAssumption DEF CardInit, CardTypes
<1>2. \A w \in Handlers : Booked(w) /\ Course(w) /\ WorkerRight(w)
  BY DEF CardInit, Booked, Course, WorkerRight, NewRow
<1>3. QED
  BY <1>1, <1>2 DEF CardInit, BillInv, StripeRight, NothingUncollected, NewRow

\* The steps of Stripe: what it reports is true.
LEMMA ReportTypes ==
  ASSUME CardTypes, NEW s \in CardRow, s.end \in Invoices,
         NEW types \in SUBSET {"checkout", "paid", "failed", "changed", "deleted"},
         Report(s, types)
  PROVE  stripe' \in CardRow /\ events' \subseteq Event /\ events \subseteq events'
<1>1. s.status \in CardStatus /\ s.ends \in BOOLEAN
  BY DEF CardRow
<1>2. \A type \in types : Snapshot(type, s) \in Event
  BY <1>1, SnapshotTypes
<1>3. QED
  BY <1>2 DEF Report, CardTypes

\* A report disturbs nothing as long as it says what is so.
LEMMA ReportStep ==
  ASSUME BillInv, NEW s \in CardRow, s.end \in Invoices,
         NEW types \in SUBSET {"checkout", "paid", "failed", "changed", "deleted"},
         Report(s, types),
         collected \subseteq collected', collected' \subseteq Invoices,
         StripeRight',
         "paid" \in types => s.end \in collected',
         "checkout" \in types => s.end = 1,
         "failed" \in types => CardMayFail
  PROVE  BillInv'
<1>1. stripe' \in CardRow /\ events' \subseteq Event /\ events \subseteq events'
  BY ReportTypes DEF BillInv
<1>2. UNCHANGED <<handled, row, cycle, orders, doing, event, copy, mine, lost>> /\ stripe' = s
  BY DEF Report
<1>3. CardTypes'
  BY <1>1, <1>2 DEF BillInv, CardTypes
<1>4. Begun => Begun'
  BY DEF Begun
<1>5. \A w \in Handlers : (Booked(w) /\ Course(w) /\ WorkerRight(w))'
  BY <1>1, <1>2, <1>4 DEF BillInv, Booked, Course, WorkerRight
<1>6. ASSUME NEW e \in events' PROVE EventRight(e)'
  <2>1. CASE e \in events
    BY <1>4, <2>1 DEF BillInv, EventRight
  <2>2. CASE \E type \in types : e = Snapshot(type, s)
    <3>1. PICK type \in types : e = Snapshot(type, s)
      BY <2>2
    <3>2. e.type = type /\ e.status = s.status /\ e.end = s.end
      BY <3>1 DEF Snapshot
    <3>3. s.status = "active" => Begun'
      BY <1>2 DEF StripeRight
    <3>4. QED
      BY <3>2, <3>3 DEF EventRight
  <2>3. QED
    BY <1>6, <2>1, <2>2 DEF Report
<1>7. NothingUncollected' /\ (row'.status = "active" => Begun')
  BY <1>2, <1>4 DEF BillInv, NothingUncollected
<1>8. QED
  BY <1>3, <1>5, <1>6, <1>7 DEF BillInv

LEMMA StripeStep ==
  ASSUME BillInv, Subscribe \/ Collect \/ Declined \/ Portal \/ End
  PROVE  BillInv'
<1>0. /\ stripe.status \in CardStatus /\ stripe.end \in 0..Last /\ stripe.ends \in BOOLEAN
      /\ collected \subseteq Invoices /\ StripeRight /\ 1 \in Invoices /\ Last \in Nat
  BY LastAssumption DEF BillInv, CardTypes, CardRow, Invoices
<1>1. CASE Subscribe
  <2>1. collected = {}
    BY <1>0, <1>1 DEF Subscribe, StripeRight
  <2>2. ASSUME NEW s \in CardRow, s.end = 1,
               NEW types \in SUBSET {"checkout", "paid", "changed"}, Report(s, types),
               \/ s.status = "active" /\ collected' = {1}
               \/ s.status = "incomplete" /\ "paid" \notin types /\ collected' = collected
        PROVE  BillInv'
    <3>1. stripe' = s
      BY <2>2 DEF Report
    <3>2. StripeRight'
      BY <2>1, <2>2, <3>1 DEF StripeRight, Begun
    <3>3. QED
      BY <1>0, <2>1, <2>2, <3>2, ReportStep
  <2> DEFINE s1 == [status |-> "active", end |-> 1, ends |-> FALSE]
             s2 == [status |-> "incomplete", end |-> 1, ends |-> FALSE]
  <2>3. s1 \in CardRow /\ s2 \in CardRow /\ s1.end = 1 /\ s2.end = 1
        /\ s1.status = "active" /\ s2.status = "incomplete"
    BY <1>0 DEF CardRow, CardStatus, Invoices
  <2>4. \/ Report(s1, {"checkout", "paid", "changed"}) /\ collected' = {1}
        \/ Report(s2, {"checkout", "changed"}) /\ collected' = collected
    BY <1>1 DEF Subscribe
  <2> HIDE DEF s1, s2
  <2>5. QED
    BY <2>2, <2>3, <2>4
<1>2. CASE Collect
  <2> DEFINE due == IF stripe.status = "active" THEN stripe.end + 1 ELSE stripe.end
             s   == [status |-> "active", end |-> due, ends |-> FALSE]
  <2>1. due \in Invoices /\ Report(s, {"paid", "changed"}) /\ collected' = collected \union {due}
    BY <1>0, <1>2 DEF Collect, Invoices
  <2>2. Begun'
    BY <1>0, <1>2, <2>1 DEF Collect, StripeRight, Begun, CardStatus
  <2>3. s \in CardRow /\ s.end = due /\ s.status = "active"
    BY <2>1 DEF CardRow, CardStatus, Invoices
  <2> HIDE DEF s, due
  <2>4. stripe' = s
    BY <2>1 DEF Report
  <2>5. StripeRight'
    BY <2>1, <2>2, <2>3, <2>4 DEF StripeRight, Invoices
  <2>6. QED
    BY <1>0, <2>1, <2>3, <2>5, ReportStep
<1>3. CASE Declined
  <2> DEFINE s == [status |-> "past_due", end |-> stripe.end + 1, ends |-> FALSE]
  <2>1. /\ s.end \in Invoices /\ s \in CardRow /\ s.status = "past_due"
        /\ Report(s, {"failed", "changed"}) /\ collected' = collected /\ CardMayFail
    BY <1>0, <1>3 DEF Declined, Invoices, CardRow, CardStatus
  <2>2. Begun
    BY <1>0, <1>3 DEF Declined, StripeRight
  <2> HIDE DEF s
  <2>3. stripe' = s
    BY <2>1 DEF Report
  <2>4. StripeRight'
    BY <2>1, <2>2, <2>3 DEF StripeRight, Begun, Invoices
  <2>5. QED
    BY <1>0, <2>1, <2>4, ReportStep
<1>4. CASE Portal
  <2> DEFINE s == [stripe EXCEPT !.ends = TRUE]
  <2>0. stripe \in CardRow
    BY DEF BillInv, CardTypes
  <2>1. s \in CardRow /\ s.end = stripe.end /\ s.status = stripe.status
    BY <2>0 DEF CardRow
  <2>2. Report(s, {"changed"}) /\ collected' = collected /\ stripe.end \in Invoices
    BY <1>0, <1>4 DEF Portal, StripeRight, Invoices
  <2> HIDE DEF s
  <2>3. stripe' = s
    BY <2>2 DEF Report
  <2>4. StripeRight'
    BY <1>0, <2>1, <2>2, <2>3 DEF StripeRight, Begun
  <2>5. QED
    BY <1>0, <2>1, <2>2, <2>4, ReportStep
<1>5. CASE End
  <2> DEFINE s == [stripe EXCEPT !.status = "canceled"]
  <2>0. stripe \in CardRow
    BY DEF BillInv, CardTypes
  <2>1. s \in CardRow /\ s.end = stripe.end /\ s.status = "canceled"
    BY <2>0 DEF CardRow, CardStatus
  <2>2. Report(s, {"deleted"}) /\ collected' = collected /\ stripe.end \in Invoices
        /\ stripe.end > 0
    BY <1>0, <1>5 DEF End, Invoices
  <2> HIDE DEF s
  <2>3. stripe' = s
    BY <2>2 DEF Report
  <2>4. StripeRight'
    BY <1>0, <2>1, <2>2, <2>3 DEF StripeRight, Begun
  <2>5. QED
    BY <1>0, <2>1, <2>2, <2>4, ReportStep
<1>6. QED
  BY <1>1, <1>2, <1>3, <1>4, <1>5
-----------------------------------------------------------------------------
\* The workers.

LEMMA AtHand ==
  ASSUME BillInv, NEW w \in Handlers
  PROVE  /\ event[w] \in Event /\ event[w].end \in Invoices /\ event[w].status \in CardStatus
         /\ event[w].type = "paid" => event[w].end \in collected
         /\ event[w].type = "checkout" => event[w].end = 1
         /\ event[w].status = "active" => Begun
         /\ event[w].type = "failed" => CardMayFail
         /\ copy[w] \in CardRow
<1>1. event[w] \in Event /\ copy[w] \in CardRow
  BY DEF BillInv, CardTypes
<1>2. CASE event[w] \in events
  BY <1>1, <1>2, EventTypes DEF BillInv, EventRight
<1>3. CASE event[w] = NoEvent
  BY <1>1, <1>3, EventTypes DEF NoEvent, Snapshot
<1>4. QED
  BY <1>2, <1>3 DEF BillInv, Course

Steps == {"idle", "checkout", "paid", "failed", "changed", "deleted",
          "save", "mark", "downgrade", "cycle", "provision"}

\* What a worker's step may do to the tables.
TablesKept ==
    /\ UNCHANGED <<stripe, collected, events>>
    /\ row' \in CardRow /\ (row'.status = "active" => Begun)
    /\ cycle' \in [Invoices -> {"none", "failed", "paid"}]
    /\ orders' \in [Invoices -> Seq(Order)]
    /\ \A i \in Invoices :
          Len(orders'[i]) >= Len(orders[i]) /\ (orders'[i] # <<>> => i \in collected)
    /\ lost' \in 0..MaxWorkersLost

\* And what it may take in hand.
LEMMA WorkerKeeps ==
  ASSUME BillInv, TablesKept, handled' \subseteq collected, NEW w \in Handlers,
         NEW d \in Steps, NEW e \in Event, NEW c \in CardRow, NEW m \in 0..MaxOrders,
         doing' = [doing EXCEPT ![w] = d], event' = [event EXCEPT ![w] = e],
         copy' = [copy EXCEPT ![w] = c], mine' = [mine EXCEPT ![w] = m],
         d = "provision" => m \in 1..Len(orders'[e.end]),
         d \in {"checkout", "save"} => e.type = "checkout",
         d = "paid" => e.type = "paid",
         d \in {"failed", "mark", "downgrade"} => e.type = "failed",
         e \in events \/ e = NoEvent,
         c.status = "active" => Begun,
         d = "cycle" => e.end \in collected
  PROVE  BillInv'
<1>1. CardTypes'
  BY DEF BillInv, CardTypes, TablesKept, Steps
<1>2. ASSUME NEW v \in Handlers PROVE (Booked(v) /\ Course(v) /\ WorkerRight(v))'
  <2>0. Booked(v) /\ Course(v) /\ WorkerRight(v)
    BY DEF BillInv
  <2>1. CASE v = w
    <3>1. doing'[v] = d /\ event'[v] = e /\ copy'[v] = c /\ mine'[v] = m
      BY <2>1 DEF BillInv, CardTypes
    <3>2. QED
      BY <3>1 DEF Booked, Course, WorkerRight, TablesKept, Begun
  <2>2. CASE v # w
    <3>1. /\ doing'[v] = doing[v] /\ event'[v] = event[v] /\ copy'[v] = copy[v]
          /\ mine'[v] = mine[v]
      BY <2>2 DEF BillInv, CardTypes
    <3>2. event[v].end \in Invoices /\ mine[v] \in Nat
          /\ Len(orders[event[v].end]) \in Nat /\ Len(orders'[event[v].end]) \in Nat
          /\ Len(orders'[event[v].end]) >= Len(orders[event[v].end])
      BY AtHand, CardBoundsAssumption DEF BillInv, CardTypes, TablesKept
    <3>3. Booked(v)'
      BY <2>0, <3>1, <3>2 DEF Booked
    <3>4. Course(v)' /\ WorkerRight(v)'
      BY <2>0, <3>1 DEF Course, WorkerRight, Begun, TablesKept
    <3>5. QED
      BY <3>3, <3>4
  <2>3. QED
    BY <2>1, <2>2
<1>3. StripeRight' /\ (\A x \in events' : EventRight(x)')
  BY DEF BillInv, TablesKept, StripeRight, EventRight, Begun
<1>4. (row'.status = "active" => Begun') /\ NothingUncollected'
  BY DEF TablesKept, NothingUncollected, Begun
<1>5. QED
  BY <1>1, <1>2, <1>3, <1>4 DEF BillInv

\* A worker that answers has nothing in hand.
LEMMA AnswerKeeps ==
  ASSUME BillInv, TablesKept, NEW w \in Handlers, Answer(w)
  PROVE  BillInv'
<1>1. handled' \subseteq collected
  BY AtHand DEF Answer, BillInv, CardTypes
<1>2. NewRow.status = "incomplete" /\ "idle" \in Steps /\ 0 \in 0..MaxOrders
  BY CardBoundsAssumption DEF NewRow, Steps
<1>3. QED
  BY <1>1, <1>2, NewTypes, WorkerKeeps DEF Answer

\* One that goes on keeps what it has.
LEMMA GotoKeeps ==
  ASSUME BillInv, TablesKept, NEW w \in Handlers, NEW d \in Steps, Goto(w, d),
         d # "provision",
         d \in {"checkout", "save"} => event[w].type = "checkout",
         d = "paid" => event[w].type = "paid",
         d \in {"failed", "mark", "downgrade"} => event[w].type = "failed",
         d = "cycle" => event[w].end \in collected
  PROVE  BillInv'
<1>1. /\ event[w] \in Event /\ copy[w] \in CardRow /\ mine[w] \in 0..MaxOrders
      /\ handled \subseteq collected
  BY DEF BillInv, CardTypes
<1>2. /\ event' = [event EXCEPT ![w] = event[w]] /\ copy' = [copy EXCEPT ![w] = copy[w]]
      /\ mine' = [mine EXCEPT ![w] = mine[w]] /\ handled' = handled
      /\ doing' = [doing EXCEPT ![w] = d]
  BY DEF Goto, BillInv, CardTypes
<1>3. (event[w] \in events \/ event[w] = NoEvent) /\ (copy[w].status = "active" => Begun)
  BY DEF BillInv, Course, WorkerRight
<1>4. QED
  BY <1>1, <1>2, <1>3, WorkerKeeps

\* The tables when they are left alone, or but for the row or a cycle.
LEMMA Untouched ==
  ASSUME BillInv, UNCHANGED <<stripe, collected, events, orders, lost>>,
         row' \in CardRow, row'.status = "active" => Begun,
         cycle' \in [Invoices -> {"none", "failed", "paid"}]
  PROVE  TablesKept
<1>1. \A i \in Invoices : Len(orders[i]) \in Nat
  BY DEF BillInv, CardTypes
<1>2. QED
  BY <1>1 DEF BillInv, CardTypes, TablesKept, NothingUncollected

\* Delivering an order changes nothing but that it is delivered.
LEMMA DeliverKeeps ==
  ASSUME BillInv, NEW i \in Invoices, NEW k \in 1..Len(orders[i]), Deliver(i, k)
  PROVE  /\ orders' \in [Invoices -> Seq(Order)]
         /\ \A j \in Invoices : Len(orders'[j]) = Len(orders[j])
         /\ \A j \in Invoices : orders'[j] # <<>> => orders[j] # <<>>
<1>1. orders \in [Invoices -> Seq(Order)] /\ orders[i] \in Seq(Order)
  BY DEF BillInv, CardTypes
<1>2. orders[i][k] \in Order
  BY <1>1
<1>3. [orders[i][k] EXCEPT !.done = TRUE] \in Order
  BY <1>2 DEF Order
<1> DEFINE s == [orders[i] EXCEPT ![k] = [orders[i][k] EXCEPT !.done = TRUE]]
<1>4. s \in Seq(Order) /\ Len(s) = Len(orders[i])
  BY <1>1, <1>3
<1>5. orders' = [orders EXCEPT ![i] = s]
  BY DEF Deliver
<1> HIDE DEF s
<1>6. \A j \in Invoices : orders'[j] = IF j = i THEN s ELSE orders[j]
  BY <1>1, <1>5
<1>7. orders[i] # <<>>
  BY <1>1
<1>8. QED
  BY <1>1, <1>4, <1>5, <1>6, <1>7

LEMMA BeginKeeps ==
  ASSUME BillInv, NEW w \in Handlers, NEW x \in events, Begin(w, x)
  PROVE  BillInv'
<1> DEFINE c == IF x.type = "checkout" THEN row ELSE NewRow
<1>1. TablesKept
  BY Untouched DEF Begin, BillInv, CardTypes
<1>2. x \in Event /\ x.type \in {"checkout", "paid", "failed", "changed", "deleted"}
  BY EventTypes DEF BillInv, CardTypes
<1>3. c \in CardRow /\ (c.status = "active" => Begun)
  BY NewTypes DEF BillInv, CardTypes, NewRow
<1>4. /\ mine' = [mine EXCEPT ![w] = mine[w]] /\ mine[w] \in 0..MaxOrders
      /\ handled' = handled /\ handled \subseteq collected
  BY DEF Begin, BillInv, CardTypes
<1>5. /\ doing' = [doing EXCEPT ![w] = x.type] /\ event' = [event EXCEPT ![w] = x]
      /\ copy' = [copy EXCEPT ![w] = c]
  BY DEF Begin
<1> HIDE DEF c
<1>6. x.type \in Steps /\ x.type \notin {"save", "mark", "downgrade", "cycle", "provision"}
  BY <1>2 DEF Steps
<1>7. QED
  BY <1>1, <1>2, <1>3, <1>4, <1>5, <1>6, WorkerKeeps

LEMMA ChangedKeeps ==
  ASSUME BillInv, NEW w \in Handlers, Changed(w)
  PROVE  BillInv'
<1>1. row' \in CardRow /\ (row'.status = "active" => Begun)
  BY AtHand, EventTypes DEF Changed, Applied
<1>2. UNCHANGED <<stripe, collected, events, orders, lost, cycle>> /\ Answer(w)
  BY DEF Changed
<1>3. TablesKept
  BY <1>1, <1>2, Untouched DEF BillInv, CardTypes
<1>4. QED
  BY <1>2, <1>3, AnswerKeeps

\* A checkout that hears nothing believes the row it read and the session.
LEMMA UnansweredRow ==
  ASSUME NEW old \in CardRow, NEW e
  PROVE  /\ Unanswered(old, e) \in CardRow
         /\ Unanswered(old, e).status = "active" => "active" \in {old.status, e.status}
<1>1. (IF e.status = "active" THEN "active" ELSE old.status) \in CardStatus
      /\ (IF old.end = 0 THEN 1 ELSE old.end) \in 0..Last
  BY LastAssumption DEF CardRow, CardStatus
<1>2. Unanswered(old, e) \in CardRow
  BY <1>1 DEF Unanswered, CardRow
<1>3. Unanswered(old, e).status = "active" => "active" \in {old.status, e.status}
  BY DEF Unanswered, CardRow
<1>4. QED
  BY <1>2, <1>3

LEMMA FetchKeeps ==
  ASSUME BillInv, NEW w \in Handlers, CheckoutFetch(w)
  PROVE  BillInv'
<1>1. PICK r \in {Applied(stripe), Unanswered(copy[w], event[w])} : copy' = [copy EXCEPT ![w] = r]
  BY DEF CheckoutFetch
<1>2. copy[w] \in CardRow /\ (copy[w].status = "active" => Begun)
  BY DEF BillInv, CardTypes, WorkerRight
<1>3. Applied(stripe) \in CardRow /\ (Applied(stripe).status = "active" => Begun)
  BY DEF Applied, BillInv, StripeRight, CardTypes, CardRow
<1>4. /\ Unanswered(copy[w], event[w]) \in CardRow
      /\ Unanswered(copy[w], event[w]).status = "active" => Begun
  BY <1>2, AtHand, UnansweredRow
<1>5. r \in CardRow /\ (r.status = "active" => Begun)
  BY <1>1, <1>3, <1>4
<1>6. TablesKept
  BY Untouched DEF CheckoutFetch, BillInv, CardTypes
<1>7. /\ event' = [event EXCEPT ![w] = event[w]] /\ mine' = [mine EXCEPT ![w] = mine[w]]
      /\ doing' = [doing EXCEPT ![w] = "save"] /\ handled' = handled
      /\ event[w] \in Event /\ mine[w] \in 0..MaxOrders /\ handled \subseteq collected
      /\ event[w].type = "checkout" /\ "save" \in Steps
      /\ (event[w] \in events \/ event[w] = NoEvent)
  BY DEF CheckoutFetch, BillInv, CardTypes, Course, Steps
<1>8. QED
  BY <1>1, <1>5, <1>6, <1>7, WorkerKeeps

LEMMA SaveKeeps ==
  ASSUME BillInv, NEW w \in Handlers, CheckoutSave(w)
  PROVE  BillInv'
<1>1. copy[w] \in CardRow /\ (copy[w].status = "active" => Begun) /\ event[w].type = "checkout"
  BY DEF CheckoutSave, BillInv, CardTypes, WorkerRight, Course
<1>2. TablesKept
  BY <1>1, Untouched DEF CheckoutSave, BillInv, CardTypes
<1>3. CASE GoOn(copy[w])
  <2>1. event[w].end \in collected
    BY <1>1, <1>3, AtHand DEF GoOn, Begun
  <2>2. Goto(w, "cycle") /\ "cycle" \in Steps
    BY <1>3 DEF CheckoutSave, Steps
  <2>3. QED
    BY <1>2, <2>1, <2>2, GotoKeeps
<1>4. CASE ~GoOn(copy[w])
  BY <1>2, <1>4, AnswerKeeps DEF CheckoutSave
<1>5. QED
  BY <1>3, <1>4

LEMMA PaidKeeps ==
  ASSUME BillInv, NEW w \in Handlers, PaidSave(w)
  PROVE  BillInv'
<1>1. event[w].end \in collected /\ event[w].end \in Invoices
  BY AtHand DEF PaidSave, BillInv, Course
<1>2. Begun
  BY <1>1 DEF BillInv, StripeRight
<1>3. row' \in CardRow
  <2>1. row \in CardRow /\ row' = [row EXCEPT !.status = "active", !.end = event[w].end]
    BY DEF PaidSave, BillInv, CardTypes
  <2>2. event[w].end \in 0..Last /\ "active" \in CardStatus
    BY <1>1, LastAssumption DEF Invoices, CardStatus
  <2>3. QED
    BY <2>1, <2>2 DEF CardRow
<1>4. TablesKept
  BY <1>2, <1>3, Untouched DEF PaidSave, BillInv, CardTypes
<1>5. Goto(w, "cycle") /\ "cycle" \in Steps
  BY DEF PaidSave, Steps
<1>6. QED
  BY <1>1, <1>4, <1>5, GotoKeeps

LEMMA FailedKeeps ==
  ASSUME BillInv, NEW w \in Handlers, FailedSave(w)
  PROVE  BillInv'
<1>1. row' \in CardRow /\ row'.status = "past_due"
  BY DEF FailedSave, BillInv, CardTypes, CardRow, CardStatus
<1>2. TablesKept
  BY <1>1, Untouched DEF FailedSave, BillInv, CardTypes
<1>3. Goto(w, "mark") /\ "mark" \in Steps /\ event[w].type = "failed"
  BY DEF FailedSave, Steps, BillInv, Course
<1>4. QED
  BY <1>2, <1>3, GotoKeeps

LEMMA MarkKeeps ==
  ASSUME BillInv, NEW w \in Handlers, FailedCycle(w)
  PROVE  BillInv'
<1>1. event[w].type = "failed" /\ event[w].end \in Invoices
  BY AtHand DEF FailedCycle, BillInv, Course
<1>2. cycle' \in [Invoices -> {"none", "failed", "paid"}]
  BY <1>1 DEF FailedCycle, BillInv, CardTypes
<1>3. TablesKept
  BY <1>2, Untouched DEF FailedCycle, BillInv, CardTypes
<1>4. Goto(w, "downgrade") \/ Answer(w)
  BY DEF FailedCycle
<1>5. "downgrade" \in Steps
  BY DEF Steps
<1>6. QED
  BY <1>1, <1>3, <1>4, <1>5, GotoKeeps, AnswerKeeps

LEMMA DowngradeKeeps ==
  ASSUME BillInv, NEW w \in Handlers, Downgrade(w)
  PROVE  BillInv'
<1>1. cycle' \in [Invoices -> {"none", "failed", "paid"}] /\ Answer(w)
  BY AtHand DEF Downgrade, BillInv, CardTypes
<1>2. TablesKept
  BY <1>1, Untouched DEF Downgrade, BillInv, CardTypes
<1>3. QED
  BY <1>1, <1>2, AnswerKeeps

\* An order is booked for an invoice that was paid for.
LEMMA CycleKeeps ==
  ASSUME BillInv, NEW w \in Handlers, StartCardCycle(w)
  PROVE  BillInv'
<1>1. PICK i \in Invoices : i = event[w].end /\ i \in collected
  BY AtHand DEF StartCardCycle, BillInv, WorkerRight
<1>2. CASE Recorded(i)
  <2>1. TablesKept
    BY <1>1, <1>2, Untouched DEF StartCardCycle, BillInv, CardTypes
  <2>2. QED
    BY <1>1, <1>2, <2>1, AnswerKeeps DEF StartCardCycle
<1>3. CASE ~Recorded(i)
  <2> DEFINE x == [kind |-> NextKind, done |-> FALSE]
             s == Append(orders[i], x)
             m == Len(orders[i]) + 1
  <2>1. x \in Order
    BY DEF NextKind, Order
  <2>2. orders \in [Invoices -> Seq(Order)] /\ orders[i] \in Seq(Order)
    BY DEF BillInv, CardTypes
  <2>3. s \in Seq(Order) /\ Len(s) = m
    BY <2>1, <2>2
  <2>4. Len(orders[i]) < MaxOrders /\ Len(orders[i]) \in Nat /\ MaxOrders \in Nat
    BY <1>1, <1>3, <2>2, CardBoundsAssumption DEF StartCardCycle
  <2>5. m \in 0..MaxOrders /\ m \in 1..Len(s)
    BY <2>3, <2>4
  <2>6. /\ cycle' = [cycle EXCEPT ![i] = "paid"] /\ orders' = [orders EXCEPT ![i] = s]
        /\ mine' = [mine EXCEPT ![w] = m] /\ doing' = [doing EXCEPT ![w] = "provision"]
        /\ UNCHANGED <<handled, event, copy, stripe, collected, events, row, lost>>
    BY <1>1, <1>3 DEF StartCardCycle
  <2> HIDE DEF m, s, x
  <2>7. orders' \in [Invoices -> Seq(Order)] /\ orders'[i] = s
        /\ (\A j \in Invoices : j # i => orders'[j] = orders[j])
    BY <2>2, <2>3, <2>6
  <2>8. \A j \in Invoices : Len(orders'[j]) >= Len(orders[j])
                             /\ (orders'[j] # <<>> => j \in collected)
    <3>1. \A j \in Invoices : Len(orders[j]) \in Nat
      BY <2>2
    <3>2. Len(orders'[i]) = Len(orders[i]) + 1
      BY <2>3, <2>7 DEF m
    <3>3. QED
      BY <1>1, <2>7, <3>1, <3>2 DEF BillInv, NothingUncollected
  <2>9. TablesKept
    BY <2>6, <2>7, <2>8 DEF TablesKept, BillInv, CardTypes
  <2>10. /\ event' = [event EXCEPT ![w] = event[w]] /\ copy' = [copy EXCEPT ![w] = copy[w]]
         /\ event[w] \in Event /\ copy[w] \in CardRow /\ handled' \subseteq collected
         /\ (event[w] \in events \/ event[w] = NoEvent)
         /\ (copy[w].status = "active" => Begun) /\ "provision" \in Steps
    BY <2>6 DEF BillInv, CardTypes, Course, WorkerRight, Steps
  <2>11. m \in 1..Len(orders'[event[w].end])
    BY <1>1, <2>5, <2>7
  <2>12. QED
    BY <2>5, <2>6, <2>9, <2>10, <2>11, WorkerKeeps
<1>4. QED
  BY <1>2, <1>3

LEMMA ProvisionKeeps ==
  ASSUME BillInv, NEW w \in Handlers, Provision(w)
  PROVE  BillInv'
<1>1. UNCHANGED <<stripe, collected, events, row, cycle, lost>> /\ Answer(w)
  BY DEF Provision
<1>2. CASE Deliver(event[w].end, mine[w])
  <2>1. event[w].end \in Invoices /\ mine[w] \in 1..Len(orders[event[w].end])
    BY AtHand DEF Provision, BillInv, Booked
  <2>2. /\ orders' \in [Invoices -> Seq(Order)]
        /\ \A j \in Invoices : Len(orders'[j]) = Len(orders[j])
        /\ \A j \in Invoices : orders'[j] # <<>> => orders[j] # <<>>
    BY <1>2, <2>1, DeliverKeeps
  <2>3. TablesKept
    BY <1>1, <2>2 DEF TablesKept, BillInv, CardTypes, NothingUncollected
  <2>4. QED
    BY <1>1, <2>3, AnswerKeeps
<1>3. CASE orders' = orders
  <2>1. TablesKept
    BY <1>1, <1>3, Untouched DEF BillInv, CardTypes
  <2>2. QED
    BY <1>1, <2>1, AnswerKeeps
<1>4. QED
  BY <1>2, <1>3 DEF Provision

LEMMA SweepKeeps ==
  ASSUME BillInv, NEW i \in Invoices, Sweep(i)
  PROVE  BillInv'
<1>1. PICK k \in 1..Len(orders[i]) : Deliver(i, k)
  BY DEF Sweep
<1>2. /\ orders' \in [Invoices -> Seq(Order)]
      /\ \A j \in Invoices : Len(orders'[j]) = Len(orders[j])
      /\ \A j \in Invoices : orders'[j] # <<>> => orders[j] # <<>>
  BY <1>1, DeliverKeeps
<1>3. UNCHANGED <<stripe, collected, events, handled, row, cycle, doing, event, copy, mine, lost>>
  BY DEF Sweep
<1>4. CardTypes' /\ NothingUncollected'
  BY <1>2, <1>3 DEF BillInv, CardTypes, NothingUncollected
<1>5. \A w \in Handlers : (Booked(w) /\ Course(w) /\ WorkerRight(w))'
  <2> SUFFICES ASSUME NEW w \in Handlers PROVE (Booked(w) /\ Course(w) /\ WorkerRight(w))'
    OBVIOUS
  <2>1. event[w].end \in Invoices
    BY AtHand
  <2>2. QED
    BY <1>2, <1>3, <2>1 DEF BillInv, Booked, Course, WorkerRight, Begun
<1>6. QED
  BY <1>3, <1>4, <1>5 DEF BillInv, StripeRight, EventRight, Begun

LEMMA DiesKeeps ==
  ASSUME BillInv, NEW w \in Handlers, WorkerDies(w)
  PROVE  BillInv'
<1>1. lost' \in 0..MaxWorkersLost
  BY CardBoundsAssumption DEF WorkerDies, BillInv, CardTypes
<1>2. \A i \in Invoices : Len(orders[i]) \in Nat
  BY DEF BillInv, CardTypes
<1>3. TablesKept
  BY <1>1, <1>2 DEF WorkerDies, TablesKept, BillInv, CardTypes, NothingUncollected
<1>4. NewRow.status = "incomplete" /\ "idle" \in Steps /\ 0 \in 0..MaxOrders
      /\ handled' \subseteq collected
  BY CardBoundsAssumption DEF NewRow, Steps, WorkerDies, BillInv, CardTypes
<1>5. QED
  BY <1>3, <1>4, NewTypes, WorkerKeeps DEF WorkerDies

LEMMA BillStep ==
  ASSUME BillInv, [CardNext]_cardVars
  PROVE  BillInv'
<1>1. ASSUME NEW w \in Handlers, Handle(w) PROVE BillInv'
  BY <1>1, ChangedKeeps, FetchKeeps, SaveKeeps, PaidKeeps, FailedKeeps, MarkKeeps,
     DowngradeKeeps, CycleKeeps, ProvisionKeeps DEF Handle
<1>2. CASE UNCHANGED cardVars
  BY <1>2 DEF cardVars, BillInv, CardTypes, Booked, Course, WorkerRight, StripeRight,
              EventRight, Begun, NothingUncollected
<1>3. QED
  BY <1>1, <1>2, StripeStep, BeginKeeps, SweepKeeps, DiesKeeps DEF CardNext

LEMMA BillAlways == CardSpec => []BillInv
BY InitBill, BillStep, PTL DEF CardSpec

\* The rows of a subscription, Stripe's events and the workers are well typed.
THEOREM CardTypesAlways == CardSpec => []CardTypes
<1>1. BillInv => CardTypes
  BY DEF BillInv
<1>2. QED
  BY <1>1, BillAlways, PTL

\* However events are repeated, reordered and handled at once, and whichever
\* workers die, nothing is ordered for an invoice Stripe has not been paid for:
\* a checkout that hears no answer from Stripe believes a session that was paid.
THEOREM NothingOrderedUnpaid == CardSpec => []NothingUncollected
<1>1. BillInv => NothingUncollected
  BY DEF BillInv
<1>2. QED
  BY <1>1, BillAlways, PTL
-----------------------------------------------------------------------------
\* When no failure report can get between another event's look at a cycle and
\* its write: cards do not fail, or events are handled one at a time.
NoRace == ~CardMayFail \/ \A v, w \in Handlers : v = w

\* An order and the paid cycle of its invoice stay together.
Paired(i) == Len(orders[i]) <= 1 /\ (orders[i] # <<>> => cycle[i] = "paid")

\* Who is about to write a failure read one, and it still stands.
Lowers(w) == doing[w] = "downgrade" => cycle[event[w].end] # "paid"

OneInv ==
    /\ BillInv
    /\ \A i \in Invoices : Paired(i)
    /\ \A w \in Handlers : Lowers(w)

LEMMA InitOne == CardInit => OneInv
BY InitBill DEF CardInit, OneInv, Paired, Lowers

\* Nobody else is about to write a failure.
LEMMA Lone ==
  ASSUME NoRace, BillInv, NEW w \in Handlers, NEW v \in Handlers, v # w
  PROVE  doing[v] # "downgrade"
BY AtHand DEF NoRace, BillInv, Course

\* Steps that leave cycles and orders alone, and begin no downgrade.
LEMMA AsideOne ==
  ASSUME OneInv, cycle' = cycle,
         \A i \in Invoices : Len(orders'[i]) = Len(orders[i])
                             /\ (orders'[i] # <<>> => orders[i] # <<>>),
         \A w \in Handlers : doing'[w] = "downgrade" => doing[w] = "downgrade" /\ event'[w] = event[w]
  PROVE  (\A i \in Invoices : Paired(i)') /\ (\A w \in Handlers : Lowers(w)')
BY DEF OneInv, Paired, Lowers

LEMMA OneStep ==
  ASSUME NoRace, OneInv, [CardNext]_cardVars
  PROVE  OneInv' /\ \A i \in Invoices : cycle[i] = "paid" => cycle'[i] = "paid"
<1>1. BillInv'
  BY BillStep DEF OneInv
<1> DEFINE Kept == /\ \A i \in Invoices : Paired(i)'
                   /\ \A v \in Handlers : Lowers(v)'
                   /\ \A i \in Invoices : cycle[i] = "paid" => cycle'[i] = "paid"
<1>2. CardTypes /\ BillInv
  BY DEF OneInv, BillInv
<1>3. ASSUME UNCHANGED <<orders, doing, event, cycle>> PROVE Kept
  BY <1>3 DEF OneInv, Paired, Lowers
<1>4. ASSUME Subscribe \/ Collect \/ Declined \/ Portal \/ End PROVE Kept
  BY <1>3, <1>4 DEF Subscribe, Collect, Declined, Portal, End, Report
<1>5. ASSUME NEW w \in Handlers,
             \/ Changed(w) \/ CheckoutFetch(w) \/ CheckoutSave(w) \/ PaidSave(w)
             \/ FailedSave(w) \/ WorkerDies(w) \/ \E x \in events : Begin(w, x)
      PROVE  Kept
  <2>1. cycle' = cycle /\ orders' = orders
    BY <1>5 DEF Changed, CheckoutFetch, CheckoutSave, PaidSave, FailedSave, WorkerDies, Begin
  <2>2. \A v \in Handlers : v # w => doing'[v] = doing[v] /\ event'[v] = event[v]
    BY <1>2, <1>5 DEF Changed, CheckoutFetch, CheckoutSave, PaidSave, FailedSave, WorkerDies,
                      Begin, Goto, Answer, CardTypes
  <2>3. doing'[w] # "downgrade"
    <3>1. \A x \in events : x.type # "downgrade"
      BY <1>2, EventTypes DEF CardTypes
    <3>2. QED
      BY <1>2, <1>5, <3>1 DEF Changed, CheckoutFetch, CheckoutSave, PaidSave, FailedSave,
                              WorkerDies, Begin, Goto, Answer, CardTypes
  <2>4. QED
    BY <2>1, <2>2, <2>3, AsideOne
<1>6. ASSUME NEW w \in Handlers, FailedCycle(w) PROVE Kept
  <2>1. PICK i \in Invoices : i = event[w].end
    BY <1>2, AtHand
  <2>2. orders' = orders
    BY <1>6 DEF FailedCycle
  <2>3. \A j \in Invoices : cycle[j] = "paid" => cycle'[j] = "paid"
    BY <1>2, <1>6, <2>1 DEF FailedCycle, CardTypes
  <2>4. \A j \in Invoices : Paired(j)'
    BY <2>2, <2>3 DEF OneInv, Paired
  <2>5. ASSUME NEW v \in Handlers PROVE Lowers(v)'
    <3>1. CASE v = w
      BY <1>2, <1>6, <2>1, <3>1 DEF FailedCycle, Goto, Answer, Lowers, CardTypes
    <3>2. CASE v # w
      <4>1. doing'[v] = doing[v]
        BY <1>2, <1>6, <3>2 DEF FailedCycle, Goto, Answer, CardTypes
      <4>2. QED
        BY <1>2, <3>2, <4>1, Lone DEF Lowers
    <3>3. QED
      BY <3>1, <3>2
  <2>6. QED
    BY <2>3, <2>4, <2>5
<1>7. ASSUME NEW w \in Handlers, Downgrade(w) PROVE Kept
  <2>1. PICK i \in Invoices : i = event[w].end /\ cycle[i] # "paid"
    BY <1>2, <1>7, AtHand DEF Downgrade, OneInv, Lowers
  <2>2. orders' = orders /\ cycle' = [cycle EXCEPT ![i] = "failed"]
    BY <1>7, <2>1 DEF Downgrade
  <2>3. \A j \in Invoices : cycle[j] = "paid" => cycle'[j] = "paid"
    BY <1>2, <2>1, <2>2 DEF CardTypes
  <2>4. \A j \in Invoices : Paired(j)'
    BY <2>2, <2>3 DEF OneInv, Paired
  <2>5. \A v \in Handlers : doing'[v] # "downgrade"
    BY <1>2, <1>7, Lone DEF Downgrade, Answer, CardTypes
  <2>6. QED
    BY <2>3, <2>4, <2>5 DEF Lowers
<1>8. ASSUME NEW w \in Handlers, StartCardCycle(w) PROVE Kept
  <2>1. PICK i \in Invoices : i = event[w].end
    BY <1>2, AtHand
  <2>2. \A v \in Handlers : doing'[v] # "downgrade"
    BY <1>2, <1>8, Lone DEF StartCardCycle, Answer, CardTypes
  <2>3. CASE Recorded(i)
    BY <1>8, <2>1, <2>2, <2>3 DEF StartCardCycle, OneInv, Paired, Lowers
  <2>4. CASE ~Recorded(i)
    <3>1. orders[i] = <<>>
      BY <2>4 DEF Recorded, OneInv, Paired
    <3>2. /\ cycle' = [cycle EXCEPT ![i] = "paid"]
          /\ orders' = [orders EXCEPT ![i] = Append(@, [kind |-> NextKind, done |-> FALSE])]
      BY <1>8, <2>1, <2>4 DEF StartCardCycle
    <3>3. cycle'[i] = "paid" /\ Len(orders'[i]) = 1
      BY <1>2, <3>1, <3>2 DEF CardTypes
    <3>4. \A j \in Invoices : j # i => cycle'[j] = cycle[j] /\ orders'[j] = orders[j]
      BY <1>2, <3>2 DEF CardTypes
    <3>5. Paired(i)'
      BY <3>3 DEF Paired
    <3>6. \A j \in Invoices : j # i => Paired(j)'
      BY <3>4 DEF OneInv, Paired
    <3>7. \A j \in Invoices : Paired(j)'
      BY <3>5, <3>6
    <3>8. \A j \in Invoices : cycle[j] = "paid" => cycle'[j] = "paid"
      BY <3>3, <3>4
    <3>9. QED
      BY <2>2, <3>7, <3>8 DEF Lowers
  <2>5. QED
    BY <2>3, <2>4
<1>9. ASSUME NEW i \in Invoices, NEW k \in 1..Len(orders[i]), Deliver(i, k), cycle' = cycle,
             \A v \in Handlers : doing'[v] = "downgrade" => doing[v] = "downgrade" /\ event'[v] = event[v]
      PROVE  Kept
  BY <1>2, <1>9, DeliverKeeps, AsideOne
<1>10. ASSUME NEW w \in Handlers, Provision(w) PROVE Kept
  <2>1. cycle' = cycle /\ \A v \in Handlers :
          doing'[v] = "downgrade" => doing[v] = "downgrade" /\ event'[v] = event[v]
    BY <1>2, <1>10 DEF Provision, Answer, CardTypes
  <2>2. CASE Deliver(event[w].end, mine[w])
    <3>1. event[w].end \in Invoices /\ mine[w] \in 1..Len(orders[event[w].end])
      BY <1>2, <1>10, AtHand DEF Provision, BillInv, Booked
    <3>2. QED
      BY <1>9, <2>1, <2>2, <3>1
  <2>3. CASE orders' = orders
    BY <2>1, <2>3, AsideOne
  <2>4. QED
    BY <1>10, <2>2, <2>3 DEF Provision
<1>11. ASSUME NEW i \in Invoices, Sweep(i) PROVE Kept
  <2>1. PICK k \in 1..Len(orders[i]) : Deliver(i, k)
    BY <1>11 DEF Sweep
  <2>2. UNCHANGED <<cycle, doing, event>>
    BY <1>11 DEF Sweep
  <2>3. QED
    BY <1>9, <2>1, <2>2
<1>12. ASSUME UNCHANGED cardVars PROVE Kept
  BY <1>3, <1>12 DEF cardVars
<1>13. Kept
  <2> HIDE DEF Kept
  <2>1. QED
    BY <1>4, <1>5, <1>6, <1>7, <1>8, <1>10, <1>11, <1>12 DEF CardNext, Handle
<1>14. QED
  BY <1>1, <1>13 DEF OneInv

\* An invoice becomes one order, however often its events come, in whatever
\* order, and whichever workers die.
THEOREM OneOrderForEachInvoice ==
  ASSUME NoRace
  PROVE  CardSpec => []OneOrderPerInvoice
<1>1. OneInv /\ [CardNext]_cardVars => OneInv'
  BY OneStep
<1>2. OneInv => OneOrderPerInvoice
  BY DEF OneInv, Paired, OneOrderPerInvoice
<1>3. QED
  BY <1>1, <1>2, InitOne, PTL DEF CardSpec

\* And a period that was paid is never taken for unpaid again.
THEOREM PaidCyclesStayPaid ==
  ASSUME NoRace
  PROVE  CardSpec => PaidStaysPaid
<1>1. OneInv /\ [CardNext]_cardVars => OneInv'
  BY OneStep
<1>2. OneInv /\ [CardNext]_cardVars
        => [\A i \in Invoices : cycle[i] = "paid" => cycle'[i] = "paid"]_cardVars
  BY OneStep
<1>3. QED
  BY <1>1, <1>2, InitOne, PTL DEF CardSpec, PaidStaysPaid
-----------------------------------------------------------------------------
(* Renewals paid out of the balance.                                       *)

\* Two runs at once bill a period twice: what follows is about one at a time.
OneAtATime == \A r, q \in Runs : r = q

\* A run does a run's steps, and a web worker those of a request.
Roles ==
    /\ \A r \in Runs : pc[r] \in {"idle", "bill", "advance", "short"}
    /\ \A w \in Workers : pc[w] \in {"idle", "start", "cancel", "cancel_now", "resume"}

\* A row that somebody is about to write exists.
Exists(p) == pc[p] \notin {"idle", "start"} => sub[at[p]].status # "none"

\* A copy that a run holds: the row has moved on in everything but its end,
\* which only this run moves, and the period of a copy is over.  A row that was
\* not past due when it was copied has had no failure since it was last paid.
Current(s, held) ==
    /\ sub[s].status # "none"
    /\ held.end = sub[s].end /\ held.end <= now
    /\ held.status # "past_due" => told[s] = 0

\* A run holds one copy of a row, in its list or in hand.
CopiesInv(r) ==
    /\ pc[r] # "idle" => Current(at[r], read[r])
    /\ \A e \in batch[r] :
          /\ Current(e[1], e[2])
          /\ pc[r] # "idle" => at[r] # e[1]
          /\ \A f \in batch[r] : e[1] = f[1] => e = f

\* The mail about a failure was sent once, and the row shows the failure.
ToldInv(s) == told[s] = 0 \/ (told[s] = 1 /\ sub[s].status \in {"past_due", "canceled"})

RunsInv ==
    /\ TypeOK /\ Roles
    /\ \A p \in Procs : Exists(p)
    /\ \A r \in Runs : CopiesInv(r)
    /\ \A s \in Subs : ToldInv(s)

LastBill(s) == bills[s][Len(bills[s])]

\* While no run was killed, the last period billed ends where the row says, or
\* a run that has billed the next one is about to say so.
Billed(s) ==
    /\ sub[s].status # "none" <=> bills[s] # <<>>
    /\ \A i \in 1..Len(bills[s]) - 1 : bills[s][i + 1] = bills[s][i] + Period
    /\ bills[s] # <<>> =>
          \/ sub[s].end = LastBill(s) + Period
          \/ \E r \in Runs : pc[r] = "advance" /\ at[r] = s
    /\ \A r \in Runs : pc[r] = "advance" /\ at[r] = s => LastBill(s) = sub[s].end

BilledInv == crashes = 0 => \A s \in Subs : Billed(s)

LEMMA RunsFacts ==
  ASSUME RunsInv
  PROVE  /\ sub \in [Subs -> Row] /\ bills \in [Subs -> Seq(Nat)] /\ told \in [Subs -> Nat]
         /\ balance \in Nat /\ topups \in 0..MaxTopUps /\ now \in 0..MaxNow
         /\ at \in [Procs -> Subs] /\ read \in [Procs -> Row]
         /\ pc \in [Procs -> {"idle", "start", "cancel", "cancel_now", "resume",
                              "bill", "advance", "short"}]
         /\ batch \in [Runs -> SUBSET (Subs \X Row)] /\ crashes \in 0..MaxCrashes
         /\ Roles
         /\ \A p \in Procs : Exists(p)
         /\ \A r \in Runs : CopiesInv(r)
         /\ \A s \in Subs : ToldInv(s)
         /\ Procs = Runs \union Workers /\ Runs \intersect Workers = {}
         /\ Period \in Nat /\ Period # 0 /\ MaxTopUps \in Nat /\ MaxNow \in Nat /\ MaxCrashes \in Nat
BY TimesAssumption, FundsAssumption, ProcsAssumption DEF RunsInv, TypeOK, Procs

LEMMA RunsInit == Init => RunsInv
<1> SUFFICES ASSUME Init PROVE RunsInv
  OBVIOUS
<1>1. (CHOOSE s \in Subs : TRUE) \in Subs
  BY ProcsAssumption
<1>2. TypeOK
  BY <1>1, TimesAssumption, FundsAssumption DEF Init, TypeOK, NoRow, Row, Status
<1>3. QED
  BY <1>2, ProcsAssumption DEF Init, RunsInv, Roles, Exists, CopiesInv, ToldInv, NoRow, Procs

\* A write changes one row.
LEMMA Writes ==
  ASSUME RunsInv, NEW s \in Subs
  PROVE  /\ sub[s] \in Row
         /\ Cancelled(s) \in [Subs -> Row] /\ Cancelled(s)[s].end = sub[s].end
         /\ Cancelled(s)[s].status = "canceled"
         /\ \A x \in Subs : x # s => Cancelled(s)[x] = sub[x]
<1>1. sub \in [Subs -> Row] /\ sub[s] \in Row
  BY RunsFacts
<1>2. PICK held : held = [sub[s] EXCEPT !.status = "canceled", !.ends = FALSE]
  OBVIOUS
<1>3. held \in Row /\ held.end = sub[s].end /\ held.status = "canceled"
  BY <1>1, <1>2 DEF Row, Status
<1>4. Cancelled(s) = [sub EXCEPT ![s] = held]
  BY <1>1, <1>2 DEF Cancelled, Row
<1>5. QED
  BY <1>1, <1>3, <1>4

\* What each step that writes a row does to it.
LEMMA AskEffect ==
  ASSUME RunsInv, NEW w \in Workers, Cancel(w) \/ Resume(w)
  PROVE  /\ sub' \in [Subs -> Row] /\ sub'[at[w]].end = sub[at[w]].end
         /\ sub'[at[w]].status = sub[at[w]].status \/ sub' = Cancelled(at[w])
         /\ \A x \in Subs : x # at[w] => sub'[x] = sub[x]
<1>1. w \in Procs /\ at[w] \in Subs
  BY RunsFacts
<1>2. CASE sub' = Cancelled(at[w])
  BY <1>1, <1>2, Writes
<1>3. ASSUME NEW ends \in BOOLEAN, sub' = [sub EXCEPT ![at[w]].ends = ends]
      PROVE  /\ sub' \in [Subs -> Row] /\ sub'[at[w]].end = sub[at[w]].end
             /\ sub'[at[w]].status = sub[at[w]].status
             /\ \A x \in Subs : x # at[w] => sub'[x] = sub[x]
  <2>1. sub \in [Subs -> Row]
    BY RunsFacts
  <2>2. QED
    BY <1>1, <1>3, <2>1 DEF Row
<1>4. QED
  BY <1>2, <1>3 DEF Cancel, Resume

LEMMA ShortEffect ==
  ASSUME RunsInv, NEW r \in Runs, Short(r)
  PROVE  /\ sub' \in [Subs -> Row] /\ sub'[at[r]].end = sub[at[r]].end
         /\ sub'[at[r]].status \in {"past_due", "canceled"}
         /\ \A x \in Subs : x # at[r] => sub'[x] = sub[x]
<1>1. r \in Procs /\ at[r] \in Subs /\ sub \in [Subs -> Row]
  BY RunsFacts
<1>2. CASE sub' = Cancelled(at[r])
  BY <1>1, <1>2, Writes
<1>3. CASE sub' = [sub EXCEPT ![at[r]].status = "past_due"]
  BY <1>1, <1>3 DEF Row, Status
<1>4. QED
  BY <1>2, <1>3 DEF Short

LEMMA AdvanceEffect ==
  ASSUME RunsInv, NEW r \in Runs, Advance(r)
  PROVE  /\ sub' \in [Subs -> Row] /\ sub'[at[r]].end = read[r].end + Period
         /\ sub'[at[r]].status = "active"
         /\ \A x \in Subs : x # at[r] => sub'[x] = sub[x]
<1>1. r \in Procs /\ at[r] \in Subs /\ sub \in [Subs -> Row] /\ sub[at[r]] \in Row
      /\ read[r] \in Row
  BY RunsFacts
<1>2. PICK end \in Nat : end = read[r].end + Period
  BY <1>1, TimesAssumption DEF Row
<1>3. PICK held : held = [sub[at[r]] EXCEPT !.status = "active", !.end = end]
  OBVIOUS
<1>4. held \in Row /\ held.end = end /\ held.status = "active"
  BY <1>1, <1>3 DEF Row, Status
<1>5. sub' = [sub EXCEPT ![at[r]] = held]
  BY <1>1, <1>2, <1>3 DEF Advance, NextEnd, Row
<1>6. QED
  BY <1>1, <1>2, <1>4, <1>5

Works == {"idle", "start", "cancel", "cancel_now", "resume", "bill", "advance", "short"}

HandlesTyped == pc \in [Procs -> Works] /\ read \in [Procs -> Row] /\ at \in [Procs -> Subs]

\* A process takes up a row, or is done with it.
LEMMA Handles ==
  ASSUME RunsInv, NEW p \in Procs
  PROVE  /\ Leave(p) => HandlesTyped'
         /\ \A s \in Subs, held \in Row, step \in Works : Take(p, s, held, step) => HandlesTyped'
<1> USE RunsFacts DEF Works, HandlesTyped
<1>1. NoRow \in Row
  BY DEF NoRow, Row, Status
<1>2. Leave(p) => HandlesTyped'
  BY <1>1 DEF Leave
<1>3. ASSUME NEW s \in Subs, NEW held \in Row, NEW step \in Works, Take(p, s, held, step)
      PROVE  HandlesTyped'
  BY <1>3 DEF Take
<1>4. QED
  BY <1>2, <1>3

LEMMA RunsTypesStep ==
  ASSUME RunsInv, [Next]_vars
  PROVE  TypeOK'
<1> USE RunsFacts
<1>0. \A p \in Procs : Leave(p) => HandlesTyped'
  BY Handles
<1>1. CASE Tick
  BY <1>1 DEF Tick, TypeOK
<1>2. CASE TopUp
  BY <1>2 DEF TopUp, TypeOK
<1>3. ASSUME NEW w \in Workers, StartCheck(w) PROVE TypeOK'
  BY <1>3 DEF StartCheck, Take, TypeOK, NoRow, Row, Status
<1>4. ASSUME NEW w \in Workers, StartCommit(w) PROVE TypeOK'
  <2>1. HandlesTyped'
    BY <1>0, <1>4 DEF StartCommit
  <2>2. CASE Affordable
    <3>1. PICK s \in Subs :
            /\ sub' = [sub EXCEPT ![s] = [status |-> "active", end |-> now + Period, ends |-> FALSE]]
            /\ balance' = balance - 1
            /\ bills' = [bills EXCEPT ![s] = Append(@, now)]
      BY <1>0, <1>4, <2>2 DEF StartCommit, StartCycle
    <3>2. [status |-> "active", end |-> now + Period, ends |-> FALSE] \in Row
      BY DEF Row, Status
    <3>3. Append(bills[s], now) \in Seq(Nat)
      OBVIOUS
    <3>4. balance' \in Nat
      BY <2>2, <3>1 DEF Affordable
    <3>5. QED
      BY <1>0, <1>4, <2>1, <3>1, <3>2, <3>3, <3>4 DEF StartCommit, TypeOK, Works, HandlesTyped
  <2>3. QED
    BY <1>0, <1>4, <2>1, <2>2 DEF StartCommit, TypeOK, Works, HandlesTyped
<1>5. ASSUME NEW w \in Workers, NEW s \in Subs, NEW step \in {"cancel", "cancel_now", "resume"},
             Ask(w, s, step)
      PROVE  TypeOK'
  BY <1>5 DEF Ask, Take, TypeOK
<1>6. \A s \in Subs : Cancelled(s) \in [Subs -> Row]
  BY Writes
<1>7. ASSUME NEW w \in Workers, Cancel(w) \/ Resume(w) PROVE TypeOK'
  BY <1>0, <1>7, AskEffect DEF Cancel, Resume, TypeOK, Works, HandlesTyped
<1>8. ASSUME NEW r \in Runs, Scan(r) PROVE TypeOK'
  BY <1>8 DEF Scan, TypeOK
<1>9. ASSUME NEW r \in Runs, Renew(r) PROVE TypeOK'
  <2>1. PICK e \in batch[r] :
          /\ batch' = [batch EXCEPT ![r] = @ \ {e}]
          /\ IF e[2].ends
             THEN sub' = Cancelled(e[1]) /\ UNCHANGED <<pc, at, read>>
             ELSE Take(r, e[1], e[2], "bill") /\ UNCHANGED sub
    BY <1>9 DEF Renew
  <2>2. e[1] \in Subs /\ e[2] \in Row /\ "bill" \in Works /\ r \in Procs
    BY DEF Works
  <2>3. CASE e[2].ends
    BY <1>6, <1>9, <2>1, <2>2, <2>3 DEF Renew, TypeOK
  <2>4. CASE ~e[2].ends
    <3>1. Take(r, e[1], e[2], "bill")
      BY <2>1, <2>4
    <3>2. HandlesTyped'
      BY <2>2, <3>1, Handles
    <3>3. QED
      BY <1>9, <2>1, <2>4, <3>2 DEF Renew, TypeOK, Works, HandlesTyped
  <2>5. QED
    BY <2>3, <2>4
<1>10. ASSUME NEW r \in Runs, Bill(r) PROVE TypeOK'
  <2>1. CASE Affordable
    <3>1. Append(bills[at[r]], read[r].end) \in Seq(Nat)
      BY DEF Row
    <3>2. balance' \in Nat
      BY <1>10, <2>1 DEF Bill, StartCycle, Affordable
    <3>3. bills' \in [Subs -> Seq(Nat)]
      BY <1>10, <2>1, <3>1 DEF Bill, StartCycle
    <3>4. QED
      BY <1>10, <2>1, <3>2, <3>3 DEF Bill, TypeOK
  <2>2. QED
    BY <1>10, <2>1 DEF Bill, TypeOK
<1>11. ASSUME NEW r \in Runs, Advance(r) PROVE TypeOK'
  BY <1>0, <1>11, AdvanceEffect DEF Advance, TypeOK, Works, HandlesTyped
<1>12. ASSUME NEW r \in Runs, Short(r) PROVE TypeOK'
  <2>1. told' \in [Subs -> Nat]
    BY <1>12 DEF Short
  <2>2. QED
    BY <1>0, <1>12, <2>1, ShortEffect DEF Short, TypeOK, Works, HandlesTyped
<1>13. ASSUME NEW r \in Runs, Crash(r) PROVE TypeOK'
  <2>1. crashes' \in 0..MaxCrashes /\ batch' \in [Runs -> SUBSET (Subs \X Row)]
    BY <1>13 DEF Crash
  <2>2. QED
    BY <1>0, <1>13, <2>1 DEF Crash, TypeOK, Works, HandlesTyped
<1>14. CASE UNCHANGED vars
  BY <1>14 DEF vars, TypeOK
<1>15. QED
  BY <1>1, <1>2, <1>3, <1>4, <1>5, <1>7, <1>8, <1>9, <1>10, <1>11, <1>12, <1>13, <1>14
  DEF Next, Request, Command

\* Rows that exist go on to exist, with their end.
Lasting ==
    \A s \in Subs : sub[s].status # "none" =>
        sub'[s].status # "none" /\ sub'[s].end = sub[s].end

\* A run that is left alone has the copies it had.
LEMMA CopiesStay ==
  ASSUME RunsInv, NEW r \in Runs, Lasting, now' \in Nat, now' >= now,
         \A s \in Subs : sub[s].status # "none" => told'[s] = told[s],
         UNCHANGED <<pc[r], at[r], read[r], batch[r]>>
  PROVE  CopiesInv(r)'
<1> USE RunsFacts
<1>1. ASSUME NEW s \in Subs, NEW held \in Row, Current(s, held) PROVE Current(s, held)'
  BY <1>1 DEF Lasting, Current, Row
<1>2. r \in Procs /\ at[r] \in Subs /\ read[r] \in Row
  OBVIOUS
<1>3. \A e \in batch[r] : e[1] \in Subs /\ e[2] \in Row
  OBVIOUS
<1>4. QED
  BY <1>1, <1>2, <1>3 DEF CopiesInv

\* So does a process that keeps its row.
LEMMA ExistsStay ==
  ASSUME RunsInv, Lasting, NEW p \in Procs,
         UNCHANGED <<pc[p], at[p]>> \/ pc'[p] \in {"idle", "start"}
  PROVE  Exists(p)'
BY RunsFacts DEF Exists, Lasting

Sound ==
    /\ Roles
    /\ \A p \in Procs : Exists(p)
    /\ \A r \in Runs : CopiesInv(r)
    /\ \A s \in Subs : ToldInv(s)

LEMMA RequestKeeps ==
  ASSUME RunsInv, NEW w \in Workers, Request(w)
  PROVE  Sound'
<1> USE RunsFacts
<1>1. w \in Procs /\ w \notin Runs /\ now' = now /\ told' = told /\ batch' = batch
  BY DEF Request, StartCheck, StartCommit, Cancel, Resume, Ask
<1>2. ASSUME NEW p \in Procs, p # w PROVE UNCHANGED <<pc[p], at[p], read[p]>>
  BY <1>2 DEF Request, StartCheck, StartCommit, Cancel, Resume, Ask, Take, Leave
<1>3. /\ pc'[w] \in {"idle", "start", "cancel", "cancel_now", "resume"}
      /\ pc'[w] \in {"idle", "start"} \/ sub[at'[w]].status # "none"
  BY DEF Request, StartCheck, StartCommit, Cancel, Resume, Ask, Take, Leave, Live
<1>4. /\ Lasting
      /\ \A s \in Subs : ToldInv(s)'
      /\ pc'[w] \in {"idle", "start"} \/ UNCHANGED sub
  <2>1. CASE UNCHANGED sub
    BY <1>1, <2>1 DEF Lasting, ToldInv
  <2>2. CASE StartCommit(w) /\ Affordable
    <3>1. PICK s \in Subs :
            /\ sub[s].status = "none"
            /\ sub' = [sub EXCEPT ![s] = [status |-> "active", end |-> now + Period, ends |-> FALSE]]
      BY <2>2 DEF StartCommit
    <3>2. pc'[w] = "idle"
      BY <1>1, <2>2 DEF StartCommit, Leave
    <3>3. \A x \in Subs : sub[x].status # "none" => sub'[x] = sub[x]
      BY <3>1
    <3>4. QED
      BY <1>1, <3>2, <3>3 DEF Lasting, ToldInv
  <2>3. CASE Cancel(w) \/ Resume(w)
    <3>1. sub[at[w]].status # "none" /\ Cancelled(at[w])[at[w]].status = "canceled"
      BY <1>1, <2>3, Writes DEF Exists, Cancel, Resume
    <3>2. \A s \in Subs : /\ sub'[s].end = sub[s].end
                          /\ sub'[s].status = sub[s].status \/ (s = at[w] /\ sub'[s].status = "canceled")
      BY <1>1, <2>3, <3>1, AskEffect
    <3>3. pc'[w] = "idle"
      BY <1>1, <2>3 DEF Cancel, Resume, Leave
    <3>4. QED
      BY <1>1, <3>1, <3>2, <3>3 DEF Lasting, ToldInv
  <2>4. QED
    BY <2>1, <2>2, <2>3 DEF Request, StartCheck, StartCommit, Ask
<1>5. Roles'
  BY <1>1, <1>2, <1>3 DEF Roles
<1>6. ASSUME NEW p \in Procs PROVE Exists(p)'
  <2>1. CASE p = w
    <3>1. Exists(w)'
      BY <1>3, <1>4 DEF Exists
    <3>2. QED
      BY <2>1, <3>1
  <2>2. QED
    BY <1>2, <1>4, <2>1, ExistsStay
<1>7. ASSUME NEW r \in Runs PROVE CopiesInv(r)'
  <2>1. UNCHANGED <<pc[r], at[r], read[r], batch[r]>>
    BY <1>1, <1>2
  <2>2. now' \in Nat /\ now' >= now /\ \A s \in Subs : told'[s] = told[s]
    BY <1>1
  <2>3. QED
    BY <1>4, <2>1, <2>2, CopiesStay
<1>8. QED
  BY <1>4, <1>5, <1>6, <1>7 DEF Sound

LEMMA TimeKeeps ==
  ASSUME RunsInv, Tick \/ TopUp \/ UNCHANGED vars
  PROVE  Sound'
<1> USE RunsFacts
<1>1. UNCHANGED <<sub, told, pc, at, read, batch>> /\ now' \in Nat /\ now' >= now
  BY DEF Tick, TopUp, vars
<1>2. Lasting
  BY <1>1 DEF Lasting
<1>3. \A r \in Runs : CopiesInv(r)'
  BY <1>1, <1>2, CopiesStay
<1>4. QED
  BY <1>1, <1>3 DEF Sound, Roles, Exists, ToldInv

\* The lone run's steps leave every other process alone.
LEMMA CommandKeeps ==
  ASSUME OneAtATime, RunsInv, NEW r \in Runs, Command(r) \/ Crash(r)
  PROVE  Sound'
<1> USE RunsFacts
<1>1. r \in Procs /\ r \notin Workers /\ now' = now /\ Runs = {r}
      /\ at[r] \in Subs /\ read[r] \in Row /\ batch[r] \subseteq Subs \X Row
  BY DEF Command, Scan, Renew, Bill, Advance, Short, Crash, OneAtATime
<1>2. ASSUME NEW w \in Workers PROVE UNCHANGED <<pc[w], at[w]>>
  BY <1>1 DEF Command, Scan, Renew, Bill, Advance, Short, Crash, Take, Leave
<1>3. Roles'
  <2>1. pc'[r] \in {"idle", "bill", "advance", "short"}
    BY <1>1 DEF Command, Scan, Renew, Bill, Advance, Short, Crash, Take, Leave, Roles
  <2>2. QED
    BY <1>1, <1>2, <2>1 DEF Roles
<1>4. pc[r] # "idle" => Current(at[r], read[r])
  BY DEF CopiesInv
<1>5. \A e \in batch[r] : Current(e[1], e[2]) /\ e[1] \in Subs /\ e[2] \in Row
  BY <1>1 DEF CopiesInv
<1>6. /\ \A s \in Subs : sub[s].status # "none" => sub'[s].status # "none"
      /\ \A s \in Subs : ToldInv(s)'
  <2>1. CASE Scan(r) \/ Bill(r) \/ Crash(r)
    BY <2>1 DEF Scan, Bill, Crash, ToldInv
  <2>2. CASE Renew(r)
    <3>1. PICK e \in batch[r] : UNCHANGED sub \/ sub' = Cancelled(e[1])
      BY <2>2 DEF Renew
    <3>2. sub[e[1]].status # "none"
      BY <1>5 DEF Current
    <3>3. QED
      <4>1. told' = told /\ e[1] \in Subs
        BY <1>5, <2>2 DEF Renew
      <4>2. \A s \in Subs : sub'[s] = sub[s] \/ (s = e[1] /\ sub'[s].status = "canceled")
        BY <3>1, <4>1, Writes
      <4>3. QED
        BY <3>2, <4>1, <4>2 DEF ToldInv
  <2>3. CASE Advance(r)
    BY <1>1, <2>3, AdvanceEffect DEF Advance, ToldInv
  <2>4. CASE Short(r)
    <3>1. sub[at[r]].status # "none" /\ (FirstFailure(read[r]) => told[at[r]] = 0)
      BY <1>4, <2>4 DEF Short, Current, FirstFailure
    <3>2. told' = told \/ (FirstFailure(read[r]) /\ told' = [told EXCEPT ![at[r]] = @ + 1])
      BY <2>4 DEF Short
    <3>3. /\ sub'[at[r]].status \in {"past_due", "canceled"}
          /\ \A s \in Subs : s # at[r] => sub'[s] = sub[s]
      BY <2>4, ShortEffect
    <3>4. told'[at[r]] \in {0, 1} /\ \A s \in Subs : s # at[r] => told'[s] = told[s]
      BY <1>1, <3>1, <3>2 DEF ToldInv
    <3>5. QED
      BY <1>1, <3>3, <3>4 DEF ToldInv
  <2>5. QED
    BY <2>1, <2>2, <2>3, <2>4 DEF Command
<1>7. ASSUME NEW p \in Procs PROVE Exists(p)'
  <2>1. CASE p \in Workers
    BY <1>1, <1>2, <1>6, <2>1 DEF Exists
  <2>2. pc'[r] # "idle" => sub[at'[r]].status # "none" /\ at'[r] \in Subs
    BY <1>1, <1>4, <1>5 DEF Command, Scan, Renew, Bill, Advance, Short, Crash, Take, Leave, Exists, Current
  <2>3. CASE p = r
    BY <1>6, <2>2, <2>3 DEF Exists
  <2>4. QED
    BY <1>1, <2>1, <2>3
<1>8. CopiesInv(r)'
  <2>1. CASE Scan(r)
    <3>1. batch'[r] = {<<s, sub[s]>> : s \in {x \in Subs : Due(sub[x])}} /\ UNCHANGED <<sub, told, now, pc, at, read>>
      BY <2>1 DEF Scan
    <3>2. ASSUME NEW s \in Subs, Due(sub[s]) PROVE Current(s, sub[s])
      BY <3>2 DEF Due, Live, Current, ToldInv
    <3>3. \A e \in batch'[r] : \E s \in Subs : e = <<s, sub[s]>> /\ Due(sub[s])
      BY <3>1
    <3>4. ASSUME NEW e \in batch'[r]
          PROVE  Current(e[1], e[2])' /\ \A f \in batch'[r] : e[1] = f[1] => e = f
      <4>1. PICK s \in Subs : e = <<s, sub[s]>> /\ Due(sub[s])
        BY <3>3
      <4>2. e[1] = s /\ e[2] = sub[s] /\ Current(e[1], e[2])
        BY <3>2, <4>1
      <4>3. Current(e[1], e[2])'
        BY <3>1, <4>1, <4>2 DEF Current
      <4>4. ASSUME NEW f \in batch'[r], e[1] = f[1] PROVE e = f
        <5>1. PICK x \in Subs : f = <<x, sub[x]>>
          BY <3>3
        <5>2. QED
          BY <4>1, <4>4, <5>1
      <4>5. QED
        BY <4>3, <4>4
    <3>5. pc'[r] = "idle"
      BY <2>1 DEF Scan
    <3>6. QED
      BY <3>4, <3>5 DEF CopiesInv
  <2>2. CASE Renew(r)
    <3>1. PICK e \in batch[r] :
          /\ pc[r] = "idle"
          /\ batch' = [batch EXCEPT ![r] = @ \ {e}]
          /\ IF e[2].ends
             THEN sub' = Cancelled(e[1]) /\ UNCHANGED <<pc, at, read>>
             ELSE Take(r, e[1], e[2], "bill") /\ UNCHANGED sub
          /\ UNCHANGED <<told, now>>
      BY <2>2 DEF Renew
    <3>2. /\ batch'[r] = batch[r] \ {e}
          /\ \A f \in batch'[r] : f[1] # e[1]
      BY <1>1, <3>1 DEF CopiesInv
    <3>3. \A s \in Subs : s # e[1] => sub'[s] = sub[s]
      BY <1>5, <3>1, Writes
    <3>4. \A f \in batch'[r] : Current(f[1], f[2])'
      BY <1>5, <3>1, <3>2, <3>3 DEF Current
    <3>5. pc'[r] # "idle" => pc'[r] = "bill" /\ at'[r] = e[1] /\ read'[r] = e[2] /\ sub' = sub
      BY <1>1, <3>1 DEF Take
    <3>6. pc'[r] # "idle" => Current(at[r], read[r])'
      BY <1>5, <3>1, <3>5 DEF Current
    <3>7. \A f, g \in batch'[r] : f[1] = g[1] => f = g
      BY <3>2 DEF CopiesInv
    <3>8. QED
      BY <3>2, <3>4, <3>5, <3>6, <3>7 DEF CopiesInv
  <2>3. CASE Bill(r)
    BY <1>1, <2>3 DEF Bill, CopiesInv, Current
  <2>4. CASE Advance(r) \/ Short(r)
    <3>1. /\ pc'[r] = "idle" /\ batch' = batch
          /\ \A s \in Subs : s # at[r] => sub'[s] = sub[s] /\ told'[s] = told[s]
      BY <1>1, <2>4, AdvanceEffect, ShortEffect DEF Advance, Short, Leave
    <3>2. \A e \in batch[r] : e[1] # at[r]
      BY <2>4 DEF CopiesInv, Advance, Short
    <3>3. QED
      BY <1>1, <1>5, <3>1, <3>2 DEF CopiesInv, Current
  <2>5. CASE Crash(r)
    BY <1>1, <2>5 DEF Crash, Leave, CopiesInv
  <2>6. QED
    BY <2>1, <2>2, <2>3, <2>4, <2>5 DEF Command
<1>9. QED
  BY <1>1, <1>3, <1>6, <1>7, <1>8 DEF Sound

LEMMA RunsStep ==
  ASSUME OneAtATime, RunsInv, [Next]_vars
  PROVE  RunsInv'
<1>1. Sound'
  BY RequestKeeps, TimeKeeps, CommandKeeps DEF Next
<1>2. QED
  BY <1>1, RunsTypesStep DEF RunsInv, Sound

\* The mail about a failing renewal is sent once until a period is paid again,
\* whatever is killed and whatever the customer does (_mark_past_due).
THEOREM ToldOfFailureOnce ==
  ASSUME OneAtATime
  PROVE  Spec => []ToldOnce
<1>1. RunsInv => ToldOnce
  BY DEF RunsInv, ToldOnce, ToldInv
<1>2. RunsInv /\ [Next]_vars => RunsInv'
  BY RunsStep
<1>3. QED
  BY <1>1, <1>2, RunsInit, PTL DEF Spec

LEMMA PaidPeriodStep ==
  ASSUME OneAtATime, RunsInv, Next, NEW s \in Subs,
         sub[s].status \in Live, sub'[s].status = "canceled"
  PROVE  \/ sub[s].end <= now /\ \A r \in Runs : pc[r] # "advance"
         \/ \E w \in Workers :
               /\ at[w] = s
               /\ \/ pc[w] = "cancel_now"
                  \/ pc[w] = "cancel" /\ read[w].status = "past_due"
<1> USE RunsFacts
<1>1. sub'[s].status # sub[s].status
  BY DEF Live
<1>2. ASSUME NEW w \in Workers, Request(w)
      PROVE  /\ at[w] = s
             /\ pc[w] = "cancel_now" \/ (pc[w] = "cancel" /\ read[w].status = "past_due")
  <2>1. CASE StartCommit(w)
    <3>1. \A x \in Subs : sub'[x] = sub[x] \/ sub'[x].status = "active"
      BY <2>1 DEF StartCommit
    <3>2. QED
      BY <1>1, <3>1
  <2>2. CASE Cancel(w) \/ Resume(w)
    <3>1. at[w] = s /\ sub'[at[w]].status # sub[at[w]].status
      BY <1>1, <2>2, AskEffect
    <3>2. ASSUME NEW ends \in BOOLEAN, sub' = [sub EXCEPT ![at[w]].ends = ends] PROVE FALSE
      BY <3>1, <3>2 DEF Row
    <3>3. QED
      BY <2>2, <3>1, <3>2 DEF Cancel, Resume
  <2>3. CASE UNCHANGED sub
    BY <1>1, <2>3
  <2>4. QED
    BY <1>2, <2>1, <2>2, <2>3 DEF Request, StartCheck, Ask
<1>3. ASSUME NEW r \in Runs, Command(r) \/ Crash(r)
      PROVE  sub[s].end <= now /\ \A q \in Runs : pc[q] # "advance"
  <2>0. Runs = {r}
    BY DEF OneAtATime
  <2>1. CASE Renew(r)
    <3>1. PICK e \in batch[r] : UNCHANGED sub \/ sub' = Cancelled(e[1])
      BY <2>1 DEF Renew
    <3>2. Current(e[1], e[2]) /\ e[1] \in Subs
      BY DEF CopiesInv
    <3>3. e[1] = s
      BY <1>1, <3>1, <3>2, Writes
    <3>4. pc[r] = "idle"
      BY <2>1 DEF Renew
    <3>5. QED
      BY <2>0, <3>2, <3>3, <3>4 DEF Current
  <2>2. CASE Advance(r)
    BY <1>1, <2>2, AdvanceEffect
  <2>3. CASE Short(r)
    <3>1. at[r] = s /\ pc[r] = "short"
      BY <1>1, <2>3, ShortEffect DEF Short
    <3>2. QED
      BY <2>0, <3>1 DEF CopiesInv, Current
  <2>4. CASE UNCHANGED sub
    BY <1>1, <2>4
  <2>5. QED
    BY <1>3, <2>1, <2>2, <2>3, <2>4 DEF Command, Scan, Bill, Crash
<1>4. CASE UNCHANGED sub
  BY <1>1, <1>4
<1>5. QED
  BY <1>2, <1>3, <1>4 DEF Next, Tick, TopUp

Tiled(q) == \A i \in 1..Len(q) - 1 : q[i + 1] = q[i] + Period

\* One more period.
LEMMA AppendTiles ==
  ASSUME NEW q \in Seq(Nat), NEW start \in Nat, NEW p, p = Append(q, start), Tiled(q),
         q # <<>> => q[Len(q)] + Period = start
  PROVE  Tiled(p) /\ p # <<>> /\ p[Len(p)] = start
<1>1. Len(p) = Len(q) + 1 /\ p[Len(q) + 1] = start /\ \A i \in 1..Len(q) : p[i] = q[i]
  OBVIOUS
<1>2. ASSUME NEW i \in 1..Len(p) - 1 PROVE p[i + 1] = p[i] + Period
  <2>1. CASE i = Len(q)
    BY <1>1, <2>1
  <2>2. CASE i # Len(q)
    BY <1>1, <1>2, <2>2 DEF Tiled
  <2>3. QED
    BY <2>1, <2>2
<1>3. p # <<>> /\ p[Len(p)] = start
  BY <1>1
<1>4. QED
  BY <1>2, <1>3 DEF Tiled

LEMMA BilledStep ==
  ASSUME OneAtATime, RunsInv, BilledInv, [Next]_vars
  PROVE  BilledInv'
<1> USE RunsFacts
<1> SUFFICES ASSUME crashes' = 0, NEW s \in Subs PROVE Billed(s)'
  BY DEF BilledInv
<1>1. crashes = 0 /\ \A r \in Runs : ~Crash(r)
  <2>1. ASSUME NEW r \in Runs, Crash(r) PROVE FALSE
    BY <2>1 DEF Crash
  <2>2. ASSUME NEW w \in Workers, Request(w) PROVE crashes' = crashes
    BY <2>2 DEF Request, StartCheck, StartCommit, Ask, Cancel, Resume
  <2>3. ASSUME NEW r \in Runs, Command(r) PROVE crashes' = crashes
    BY <2>3 DEF Command, Scan, Renew, Bill, Advance, Short
  <2>4. QED
    BY <2>1, <2>2, <2>3 DEF Next, Tick, TopUp, vars
<1>2. Billed(s)
  BY <1>1 DEF BilledInv
<1>3. bills[s] \in Seq(Nat) /\ sub[s] \in Row
  OBVIOUS
<1>4. ASSUME bills'[s] = bills[s], sub'[s].end = sub[s].end,
             sub'[s].status = "none" <=> sub[s].status = "none",
             \A r \in Runs : (pc'[r] = "advance" /\ at'[r] = s) <=> (pc[r] = "advance" /\ at[r] = s)
      PROVE  Billed(s)'
  <2>1. LastBill(s)' = LastBill(s)
    BY <1>4 DEF LastBill
  <2>2. QED
    BY <1>2, <1>4, <2>1 DEF Billed
<1>5. CASE Tick \/ TopUp \/ UNCHANGED vars
  <2>1. UNCHANGED <<bills, sub, pc, at>>
    BY <1>5 DEF Tick, TopUp, vars
  <2>2. QED
    BY <1>4, <2>1
<1>6. ASSUME NEW w \in Workers, Request(w) PROVE Billed(s)'
  <2>1. \A r \in Runs : UNCHANGED <<pc[r], at[r]>>
    BY <1>6 DEF Request, StartCheck, StartCommit, Ask, Cancel, Resume, Take, Leave
  <2>2. CASE UNCHANGED <<sub, bills>>
    BY <1>4, <2>1, <2>2
  <2>3. CASE Cancel(w) \/ Resume(w)
    <3>1. at[w] \in Subs /\ sub[at[w]].status # "none" /\ bills' = bills
      BY <2>3 DEF Exists, Cancel, Resume
    <3>2. sub'[s].end = sub[s].end /\ (sub'[s].status = "none" <=> sub[s].status = "none")
      BY <2>3, <3>1, AskEffect, Writes
    <3>3. QED
      BY <1>4, <2>1, <3>1, <3>2
  <2>4. CASE StartCommit(w) /\ Affordable
    <3>1. PICK t \in Subs :
            /\ sub[t].status = "none"
            /\ sub' = [sub EXCEPT ![t] = [status |-> "active", end |-> now + Period, ends |-> FALSE]]
            /\ bills' = [bills EXCEPT ![t] = Append(@, now)]
      BY <2>4 DEF StartCommit, StartCycle
    <3>2. CASE s # t
      BY <1>4, <2>1, <3>1, <3>2
    <3>3. CASE s = t
      <4>1. bills[s] = <<>> /\ \A r \in Runs : ~(pc[r] = "advance" /\ at[r] = s)
        BY <1>2, <3>1, <3>3 DEF Billed, Exists
      <4>2. bills'[s] = <<now>> /\ sub'[s].end = now + Period /\ sub'[s].status = "active"
        BY <3>1, <3>3, <4>1
      <4>3. QED
        BY <2>1, <4>1, <4>2 DEF Billed, LastBill
    <3>4. QED
      BY <3>2, <3>3
  <2>5. QED
    BY <1>6, <2>2, <2>3, <2>4 DEF Request, StartCheck, StartCommit, Ask
<1>7. ASSUME NEW r \in Runs, Command(r) PROVE Billed(s)'
  <2>0. Runs = {r} /\ r \in Procs /\ at[r] \in Subs /\ read[r] \in Row
    BY DEF OneAtATime
  <2>1. CASE Scan(r)
    BY <1>4, <2>1 DEF Scan
  <2>2. CASE Renew(r)
    <3>1. PICK e \in batch[r] : UNCHANGED sub \/ sub' = Cancelled(e[1])
      BY <2>2 DEF Renew
    <3>2. e[1] \in Subs /\ sub[e[1]].status # "none"
      BY DEF CopiesInv, Current
    <3>3. sub'[s].end = sub[s].end /\ (sub'[s].status = "none" <=> sub[s].status = "none")
      <4>1. CASE UNCHANGED sub
        BY <4>1
      <4>2. CASE sub' = Cancelled(e[1])
        <5>1. PICK t \in Subs : t = e[1]
          BY <3>2
        <5>2. /\ sub'[t].end = sub[t].end /\ sub'[t].status = "canceled"
              /\ \A x \in Subs : x # t => sub'[x] = sub[x]
          BY <4>2, <5>1, Writes
        <5>3. QED
          BY <3>2, <5>1, <5>2
      <4>3. QED
        BY <3>1, <4>1, <4>2
    <3>4. bills' = bills /\ pc[r] = "idle" /\ pc'[r] \in {"idle", "bill"}
      BY <2>0, <2>2 DEF Renew, Take
    <3>5. QED
      BY <1>4, <2>0, <3>3, <3>4
  <2>3. CASE Bill(r)
    <3>1. sub' = sub /\ at' = at /\ pc[r] # "advance"
      BY <2>3 DEF Bill
    <3>2. CASE at[r] # s \/ ~Affordable
      <4>1. bills'[s] = bills[s]
        BY <2>3, <3>2 DEF Bill, StartCycle
      <4>2. ~(pc'[r] = "advance" /\ at'[r] = s)
        BY <2>0, <2>3, <3>2 DEF Bill
      <4>3. QED
        BY <1>4, <2>0, <3>1, <4>1, <4>2
    <3>3. CASE at[r] = s /\ Affordable
      <4>1. Current(s, read[r])
        BY <2>3, <3>3 DEF Bill, CopiesInv
      <4>2. bills'[s] = Append(bills[s], read[r].end) /\ pc'[r] = "advance"
        BY <2>0, <2>3, <3>3 DEF Bill, StartCycle
      <4>3. read[r].end = sub[s].end /\ read[r].end \in Nat /\ sub[s].status # "none"
        BY <2>0, <4>1 DEF Current, Row
      <4>4. Tiled(bills[s]) /\ LastBill(s) + Period = read[r].end
        BY <1>2, <2>0, <3>1, <4>3 DEF Billed, Tiled
      <4>5. LET p == bills'[s] IN Tiled(p) /\ p # <<>> /\ p[Len(p)] = read[r].end
        BY <1>3, <4>2, <4>3, <4>4, AppendTiles DEF LastBill
      <4>6. QED
        BY <2>0, <3>1, <3>3, <4>2, <4>3, <4>5 DEF Billed, LastBill, Tiled
    <3>4. QED
      BY <3>2, <3>3
  <2>4. CASE Advance(r)
    <3>1. bills' = bills /\ pc'[r] = "idle" /\ pc[r] = "advance"
      BY <2>0, <2>4 DEF Advance, Leave
    <3>2. CASE s # at[r]
      BY <1>4, <2>0, <2>4, <3>1, <3>2, AdvanceEffect
    <3>3. CASE s = at[r]
      <4>1. LastBill(s) = sub[s].end /\ read[r].end = sub[s].end /\ sub[s].status # "none"
        BY <1>2, <2>0, <3>1, <3>3 DEF Billed, CopiesInv, Current
      <4>2. sub'[s].end = LastBill(s) + Period /\ sub'[s].status = "active"
        BY <2>4, <3>3, <4>1, AdvanceEffect
      <4>3. QED
        BY <1>2, <2>0, <3>1, <4>1, <4>2 DEF Billed, LastBill
    <3>4. QED
      BY <3>2, <3>3
  <2>5. CASE Short(r)
    <3>1. bills' = bills /\ pc'[r] = "idle" /\ pc[r] = "short"
      BY <2>0, <2>5 DEF Short, Leave
    <3>2. sub[at[r]].status # "none"
      BY <2>0, <3>1 DEF CopiesInv, Current
    <3>3. sub'[s].end = sub[s].end /\ (sub'[s].status = "none" <=> sub[s].status = "none")
      BY <2>5, <3>2, ShortEffect
    <3>4. QED
      BY <1>4, <2>0, <3>1, <3>3
  <2>6. QED
    BY <1>7, <2>1, <2>2, <2>3, <2>4, <2>5 DEF Command
<1>8. QED
  BY <1>1, <1>5, <1>6, <1>7 DEF Next

LEMMA BilledInit == Init => BilledInv
BY ProcsAssumption DEF Init, BilledInv, Billed, NoRow, Procs

\* Whatever the customer does and however late the run comes, a subscription's
\* periods are billed once each, one after the other, as long as one run works at
\* a time and none was killed (renew_subscriptions).
THEOREM PeriodsAlwaysTile ==
  ASSUME OneAtATime
  PROVE  Spec => []TilesUnlessKilled
<1>1. BilledInv => TilesUnlessKilled
  BY DEF BilledInv, Billed, TilesUnlessKilled, PeriodsTile
<1>2. RunsInv /\ BilledInv /\ [Next]_vars => RunsInv' /\ BilledInv'
  BY RunsStep, BilledStep
<1>3. QED
  BY <1>1, <1>2, RunsInit, BilledInit, PTL DEF Spec

\* And the row says what was paid for, but while a run is about to write it.
THEOREM RowsSayWhatIsPaid ==
  ASSUME OneAtATime
  PROVE  Spec => []EndUnlessKilled
<1>1. BilledInv => EndUnlessKilled
  BY DEF BilledInv, Billed, LastBill, EndUnlessKilled, PaidUntilEnd
<1>2. RunsInv /\ BilledInv /\ [Next]_vars => RunsInv' /\ BilledInv'
  BY RunsStep, BilledStep
<1>3. QED
  BY <1>1, <1>2, RunsInit, BilledInit, PTL DEF Spec

\* No run ends a subscription whose last debited period is not over, whatever the
\* customer asks between a run's reads and its writes: only the customer ends it,
\* by asking for the end at once (renew_with_balance, cancel_now).
THEOREM PaidPeriodsAreKept ==
  ASSUME OneAtATime
  PROVE  Spec => PaidPeriodKept
<1>1. ASSUME RunsInv, BilledInv, Next, NEW s \in Subs, crashes = 0,
             sub[s].status \in Live, sub'[s].status = "canceled"
      PROVE  \/ bills[s][Len(bills[s])] + Period <= now
             \/ \E w \in Workers :
                   /\ at[w] = s
                   /\ \/ pc[w] = "cancel_now"
                      \/ pc[w] = "cancel" /\ read[w].status = "past_due"
  <2>1. CASE sub[s].end <= now /\ \A r \in Runs : pc[r] # "advance"
    <3>1. sub[s].end = bills[s][Len(bills[s])] + Period
      BY <1>1, <2>1 DEF BilledInv, Billed, LastBill, Live
    <3>2. QED
      BY <2>1, <3>1
  <2>2. QED
    BY <1>1, <2>1, PaidPeriodStep
<1>2. RunsInv /\ BilledInv /\ [Next]_vars =>
        [\A s \in Subs :
          crashes = 0 /\ sub[s].status \in Live /\ sub'[s].status = "canceled" =>
              \/ bills[s][Len(bills[s])] + Period <= now
              \/ \E w \in Workers :
                    /\ at[w] = s
                    /\ \/ pc[w] = "cancel_now"
                       \/ pc[w] = "cancel" /\ read[w].status = "past_due"]_vars
  BY <1>1
<1>3. RunsInv /\ BilledInv /\ [Next]_vars => RunsInv' /\ BilledInv'
  BY RunsStep, BilledStep
<1>4. QED
  BY <1>2, <1>3, RunsInit, BilledInit, PTL DEF Spec, PaidPeriodKept
=============================================================================
