----------------------------- MODULE Fulfilment -----------------------------
(***************************************************************************)
(* Turning a paid order into a line: apps/orders/services.py, the admin    *)
(* actions of apps/orders/admin.py and the retry_orders sweeper.           *)
(*                                                                         *)
(* fulfill_order runs in one transaction that holds the order row FOR      *)
(* UPDATE across the provider call.  The on_commit hook of a settlement,   *)
(* the admin action and the sweeper all call it.  What the provider does   *)
(* is outside the transaction: rolling back does not take it back.         *)
(***************************************************************************)
EXTENDS Naturals, Sequences, FiniteSets

CONSTANTS
    Sales,          \* the orders
    TopUpOrders,    \* those that add a plan to a line the customer has
    Orphans,        \* top-up orders whose line was deleted (target_esim is NULL)
    Iccids,         \* profiles the provider can issue
    Workers,        \* web workers
    Cron,           \* the process that runs retry_orders
    Limit,          \* retry_failed(limit=...)
    AnswerMayBeLost,\* whether the provider may act and the answer not arrive
    IccidMayRepeat, \* whether the provider may hand out a profile twice
    OperatorActs,   \* whether the operator marks orders paid by hand
    MaxActs,        \* bound: times the provider acts on one order
    MaxDeaths,      \* bound: processes that die in the middle of a call
    None            \* holder of an unlocked row, answer not received

ASSUME SalesAssumption ==
    Orphans \subseteq TopUpOrders /\ TopUpOrders \subseteq Sales /\ Sales # {}
ASSUME ProcsAssumption ==
    Cron \notin Workers /\ None \notin Workers \union {Cron} \union Iccids \union Sales
ASSUME FulfilBoundsAssumption ==
    /\ Limit \in Nat \ {0} /\ MaxActs \in Nat /\ MaxDeaths \in Nat
    /\ AnswerMayBeLost \in BOOLEAN /\ IccidMayRepeat \in BOOLEAN /\ OperatorActs \in BOOLEAN

VARIABLES
    status,     \* Order.status
    queue,      \* orders in the order of paid_at
    error,      \* Order.fulfillment_error is not empty, as committed
    owner,      \* Esim rows: the order each issued profile belongs to
    acts,       \* how many times the provider acted (and charged) for each order
    alerts,     \* failure_alert was sent for the order
    rowLock,    \* who holds each order row
    task, on, answer, \* each process: next step, order at hand, provider's answer
    batch,      \* what retry_failed read and has not reached yet
    listed,     \* orders an operator's list showed as pending
    deaths      \* processes that died in the middle of a call

fulfilVars == <<status, queue, error, owner, acts, alerts, rowLock, task, on, answer, batch, listed,
                deaths>>

Procs == Workers \union {Cron}

FulfilInit ==
    /\ status  = [o \in Sales |-> "pending"]
    /\ queue   = <<>>
    /\ error   = [o \in Sales |-> FALSE]
    /\ owner   = [i \in Iccids |-> None]
    /\ acts    = [o \in Sales |-> 0]
    /\ alerts  = {}
    /\ rowLock = [o \in Sales |-> None]
    /\ task    = [w \in Procs |-> "idle"]
    /\ on      = [w \in Procs |-> CHOOSE o \in Sales : TRUE]
    /\ answer  = [w \in Procs |-> None]
    /\ batch   = <<>>
    /\ listed  = {}
    /\ deaths  = 0
-----------------------------------------------------------------------------
\* mark_paid() writes "paid" and paid_at when the object it is called on says
\* pending, whatever the row says by then.
Paid(o) ==
    /\ status' = [status EXCEPT ![o] = "paid"]
    /\ queue'  = Append(SelectSeq(queue, LAMBDA x : x # o), o)

\* A payment settles: the row is read and written within one transaction that
\* nothing else competes with (see Settlement).
MarkPaid(o) ==
    /\ status[o] = "pending"
    /\ Paid(o)
    /\ UNCHANGED <<error, owner, acts, alerts, rowLock, task, on, answer, batch, listed, deaths>>

\* action_mark_paid fetches the pending orders of its selection ...
ListPending(o) ==
    /\ OperatorActs
    /\ status[o] = "pending"
    /\ listed' = listed \union {o}
    /\ UNCHANGED <<status, queue, error, owner, acts, alerts, rowLock, task, on, answer, batch,
                   deaths>>

\* ... and marks each of them paid, waiting for a row lock but not looking again.
MarkListed(o) ==
    /\ o \in listed
    /\ rowLock[o] = None
    /\ listed' = listed \ {o}
    /\ Paid(o)
    /\ UNCHANGED <<error, owner, acts, alerts, rowLock, task, on, answer, batch, deaths>>
-----------------------------------------------------------------------------
\* The process is done with its order and drops the row lock.
Leave(w, o) ==
    /\ rowLock' = [rowLock EXCEPT ![o] = None]
    /\ task'    = [task EXCEPT ![w] = "idle"]
    /\ answer'  = [answer EXCEPT ![w] = None]

Refused(o) == status[o] # "paid"

\* The order is read without select_for_update().
FulfilUnlocked(w, o) ==
    /\ task[w] = "idle"
    /\ on' = [on EXCEPT ![w] = o]
    /\ UNCHANGED rowLock
    /\ IF Refused(o) THEN UNCHANGED task ELSE task' = [task EXCEPT ![w] = "call"]
    /\ UNCHANGED <<status, queue, error, owner, acts, alerts, answer, listed, deaths>>

\* fulfill_order takes the lock and looks at the status: a completed order is
\* left alone, any other than a paid one is refused with ValueError.
Fulfil(w, o) ==
    /\ task[w] = "idle"
    /\ rowLock[o] = None
    /\ on' = [on EXCEPT ![w] = o]
    /\ IF Refused(o)
       THEN UNCHANGED <<rowLock, task>>
       ELSE /\ rowLock' = [rowLock EXCEPT ![o] = w]
            /\ task'    = [task EXCEPT ![w] = "call"]
    /\ UNCHANGED <<status, queue, error, owner, acts, alerts, answer, listed, deaths>>

\* The hook of a settlement, "Provision eSIM now" on any order, or a second
\* sweeper started over HTTP (payments/views.py cron).
Call(w, o) == w \in Workers /\ Fulfil(w, o) /\ UNCHANGED batch

\* Profiles the provider may hand out next: nobody's, and none it has just named
\* in an answer that is still being written.
Issuable ==
    {i \in Iccids : (owner[i] = None /\ \A v \in Procs : answer[v] # i) \/ IccidMayRepeat}

\* The provider acts on the order and its answer arrives.
Answers(w) ==
    LET o == on[w]
    IN  /\ task[w] = "call"
        /\ o \notin Orphans
        /\ acts[o] < MaxActs
        /\ acts' = [acts EXCEPT ![o] = @ + 1]
        /\ \/ /\ o \in TopUpOrders
              /\ UNCHANGED answer
           \/ /\ o \notin TopUpOrders
              /\ \E i \in Issuable : answer' = [answer EXCEPT ![w] = i]
        /\ task' = [task EXCEPT ![w] = "write"]
        /\ UNCHANGED <<status, queue, error, owner, alerts, rowLock, on, batch, listed, deaths>>

\* YesimError: the provider refuses, the line is gone, or the forty seconds pass
\* -- and then it may have acted all the same.
Fails(w) ==
    LET o == on[w]
    IN  /\ task[w] = "call"
        /\ \/ UNCHANGED acts
           \/ AnswerMayBeLost /\ o \notin Orphans /\ acts[o] < MaxActs
              /\ acts' = [acts EXCEPT ![o] = @ + 1]
        /\ task' = [task EXCEPT ![w] = "fail"]
        /\ UNCHANGED <<status, queue, error, owner, alerts, rowLock, on, answer, batch, listed,
                       deaths>>

\* Whatever profile the provider names is taken over.
TakenNever(i, o) == FALSE

\* A profile that already belongs to another order is never given away again.
Taken(i, o) == owner[i] \notin {None, o}

\* The eSIM row is written and the order completes, in one commit.
Complete(w) ==
    LET o == on[w]
    IN  /\ task[w] = "write"
        /\ o \notin TopUpOrders => ~Taken(answer[w], o)
        /\ owner'  = IF o \in TopUpOrders THEN owner ELSE [owner EXCEPT ![answer[w]] = o]
        /\ status' = [status EXCEPT ![o] = "completed"]
        /\ error'  = [error EXCEPT ![o] = FALSE]
        /\ Leave(w, o)
        /\ UNCHANGED <<queue, acts, alerts, on, batch, listed, deaths>>

\* The provider handed back somebody else's profile: YesimError.
Collide(w) ==
    /\ task[w] = "write"
    /\ on[w] \notin TopUpOrders /\ Taken(answer[w], on[w])
    /\ task' = [task EXCEPT ![w] = "fail"]
    /\ UNCHANGED <<status, queue, error, owner, acts, alerts, rowLock, on, answer, batch, listed,
                   deaths>>

\* The error is saved and the exception raised through transaction.atomic, so
\* the row goes back to what it was; the alert to the operator has gone out.
GiveUp(w) ==
    /\ task[w] = "fail"
    /\ alerts' = alerts \union {on[w]}
    /\ Leave(w, on[w])
    /\ UNCHANGED <<status, queue, error, owner, acts, on, batch, listed, deaths>>

\* The process dies and its transaction is rolled back.
ProcessDies(w) ==
    /\ task[w] # "idle"
    /\ deaths < MaxDeaths
    /\ deaths' = deaths + 1
    /\ Leave(w, on[w])
    /\ batch' = IF w = Cron THEN <<>> ELSE batch
    /\ UNCHANGED <<status, queue, error, owner, acts, alerts, on, listed>>
-----------------------------------------------------------------------------
\* Newest first: a paid order at the far end is never reached.
NewestStuck ==
    LET stuck == SelectSeq(queue, LAMBDA o : status[o] = "paid")
    IN  SubSeq(stuck, Len(stuck), Len(stuck))

\* retry_failed reads the orders that are PAID, longest paid first ...
Stuck == SelectSeq(queue, LAMBDA o : status[o] = "paid")

FirstStuck == SubSeq(Stuck, 1, IF Len(Stuck) < Limit THEN Len(Stuck) ELSE Limit)

SweepStart ==
    /\ task[Cron] = "idle"
    /\ batch = <<>>
    /\ Stuck # <<>>
    /\ batch' = FirstStuck
    /\ UNCHANGED <<status, queue, error, owner, acts, alerts, rowLock, task, on, answer, listed,
                   deaths>>

\* ... and calls fulfill_order on one after the other, swallowing errors.
SweepNext ==
    /\ batch # <<>>
    /\ \E o \in Sales : o = Head(batch) /\ Fulfil(Cron, o)
    /\ batch' = Tail(batch)

FulfilNext ==
    \/ \E o \in Sales : MarkPaid(o) \/ ListPending(o) \/ MarkListed(o)
    \/ \E w \in Workers, o \in Sales : Call(w, o)
    \/ \E w \in Procs :
          Answers(w) \/ Fails(w) \/ Complete(w) \/ Collide(w) \/ GiveUp(w) \/ ProcessDies(w)
    \/ SweepStart \/ SweepNext

FulfilSpec == FulfilInit /\ [][FulfilNext]_fulfilVars
-----------------------------------------------------------------------------
FulfilTypes ==
    /\ status  \in [Sales -> {"pending", "paid", "completed"}]
    /\ queue   \in Seq(Sales)
    /\ error   \in [Sales -> BOOLEAN]
    /\ owner   \in [Iccids -> Sales \union {None}]
    /\ acts    \in [Sales -> 0..MaxActs]
    /\ alerts  \subseteq Sales
    /\ rowLock \in [Sales -> Procs \union {None}]
    /\ task    \in [Procs -> {"idle", "call", "write", "fail"}]
    /\ on      \in [Procs -> Sales]
    /\ answer  \in [Procs -> Iccids \union {None}]
    /\ batch   \in Seq(Sales)
    /\ listed  \subseteq Sales
    /\ deaths  \in 0..MaxDeaths

\* The profiles a new order ended up with.
ProfilesOf(o) == {i \in Iccids : owner[i] = o}

\* The provider is never made to act twice for one sale, whoever calls
\* fulfilment and when (README "cannot double-provision").
NoDoubleProvision == \A o \in Sales : acts[o] <= 1

\* A completed order that bought a new line has exactly one, and an order that
\* is not complete has none: the eSIM row and the status commit together.
OneLinePerSale ==
    \A o \in Sales \ TopUpOrders :
        Cardinality(ProfilesOf(o)) = IF status[o] = "completed" THEN 1 ELSE 0

\* A line never moves from one order to another ("Never silently complete this
\* order against someone else's eSIM").
LinesStayPut ==
    [][\A i \in Iccids : owner[i] # None => owner'[i] = owner[i]]_fulfilVars

\* The provider never acts for an order nobody has paid for, though anyone may
\* press "Provision eSIM now" on it ("Provisioning only ever runs for a PAID order").
NothingUnpaidProvisioned == \A o \in Sales : acts[o] > 0 => status[o] # "pending"

\* A failed attempt that alerted the operator has left its error on the order
\* ("the order stays PAID with the error recorded").
FailureRecorded ==
    \A o \in alerts : status[o] = "paid" /\ rowLock[o] = None => error[o]
-----------------------------------------------------------------------------
\* retry_orders runs every twenty minutes and the provider recovers in the end:
\* an attempt that keeps being made is answered at last.
Proceed(w) == Complete(w) \/ Collide(w) \/ GiveUp(w) \/ Answers(w) \/ Fails(w)

FulfilFairness ==
    /\ \A w \in Procs : WF_fulfilVars(Proceed(w))
    /\ WF_fulfilVars(SweepStart)
    /\ SF_fulfilVars(SweepNext)
    /\ \A o \in Sales : SF_fulfilVars(\E w \in Procs : on[w] = o /\ Answers(w))
FulfilFairSpec == FulfilSpec /\ FulfilFairness

\* Every paid order the provider can serve is delivered in the end (README "The
\* sale is never lost").
PaidIsDelivered ==
    \A o \in Sales \ Orphans : (status[o] = "paid") ~> (status[o] = "completed")
=============================================================================
