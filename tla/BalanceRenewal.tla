--------------------------- MODULE BalanceRenewal ---------------------------
(***************************************************************************)
(* Subscriptions paid out of store credit: the second half of              *)
(* apps/subscriptions/services.py, the renew_subscriptions command and the *)
(* app's start, cancel and resume endpoints, for one customer and one plan.*)
(*                                                                         *)
(* renew_subscriptions reads every due row at once and then works through  *)
(* the copies.  start_cycle commits the debit and the cycle together; the  *)
(* period moves on in an update of its own, after provisioning.            *)
(***************************************************************************)
EXTENDS Integers, Sequences, FiniteSets

CONSTANTS
    Subs,       \* Subscription rows the customer may ever have for the plan
    Runs,       \* processes running renew_subscriptions
    Workers,    \* web workers serving the customer
    Period,     \* interval_days
    Grace,      \* PAST_DUE_GRACE
    Funds,      \* credit to begin with, in prices of a cycle
    MaxTopUps,  \* bound: prices of credit added later
    MaxNow,     \* bound: the last day looked at
    MaxCrashes, \* bound: processes that die
    CustomerCancels \* whether the customer cancels and resumes

ASSUME TimesAssumption == Period \in Nat \ {0} /\ Grace \in Nat /\ MaxNow \in Nat
ASSUME FundsAssumption == Funds \in Nat /\ MaxTopUps \in Nat /\ MaxCrashes \in Nat
ASSUME ProcsAssumption ==
    Runs \intersect Workers = {} /\ Subs # {} /\ CustomerCancels \in BOOLEAN

VARIABLES
    sub,        \* rows: status, current_period_end, cancel_at_period_end
    bills,      \* the period starts each subscription was debited for, in order
    told,       \* payment-failed mails since the last paid period
    balance,    \* the customer's wallet, in prices
    topups,     \* credit added so far
    now,        \* today
    pc, at, read,   \* each process: next step, subscription at hand, its row as read
    batch,      \* what each run read and has not reached yet
    crashes

vars == <<sub, bills, told, balance, topups, now, pc, at, read, batch, crashes>>

Procs  == Runs \union Workers
Status == {"none", "active", "past_due", "canceled"}
Row    == [status : Status, end : Nat, ends : BOOLEAN]
NoRow  == [status |-> "none", end |-> 0, ends |-> FALSE]
Live   == {"active", "past_due"}

Init ==
    /\ sub     = [s \in Subs |-> NoRow]
    /\ bills   = [s \in Subs |-> <<>>]
    /\ told    = [s \in Subs |-> 0]
    /\ balance = Funds
    /\ topups  = 0
    /\ now     = 0
    /\ pc      = [p \in Procs |-> "idle"]
    /\ at      = [p \in Procs |-> CHOOSE s \in Subs : TRUE]
    /\ read    = [p \in Procs |-> NoRow]
    /\ batch   = [r \in Runs |-> {}]
    /\ crashes = 0
-----------------------------------------------------------------------------
\* The process has subscription s and a copy of its row, and goes on to step.
Take(p, s, row, step) ==
    /\ at'   = [at EXCEPT ![p] = s]
    /\ read' = [read EXCEPT ![p] = row]
    /\ pc'   = [pc EXCEPT ![p] = step]

Leave(p) ==
    /\ pc'   = [pc EXCEPT ![p] = "idle"]
    /\ read' = [read EXCEPT ![p] = NoRow]
    /\ UNCHANGED at

Tick ==
    /\ now < MaxNow
    /\ now' = now + 1
    /\ UNCHANGED <<sub, bills, told, balance, topups, pc, at, read, batch, crashes>>

TopUp ==
    /\ topups < MaxTopUps
    /\ topups' = topups + 1
    /\ balance' = balance + 1
    /\ UNCHANGED <<sub, bills, told, now, pc, at, read, batch, crashes>>

Affordable == balance >= 1

\* start_cycle(from_balance=True): order, debit and cycle in one commit.
StartCycle(s, start) ==
    /\ balance' = balance - 1
    /\ bills' = [bills EXCEPT ![s] = Append(@, start)]

\* start_with_balance looks for a running subscription, without a lock ...
StartCheck(w) ==
    /\ pc[w] = "idle"
    /\ \A s \in Subs : sub[s].status \notin Live
    /\ Take(w, at[w], NoRow, "start")
    /\ UNCHANGED <<sub, bills, told, balance, topups, now, batch, crashes>>

\* ... and creates the row with its first paid cycle, or nothing at all.
StartCommit(w) ==
    /\ pc[w] = "start"
    /\ IF Affordable
       THEN \E s \in Subs :
                /\ sub[s].status = "none"
                /\ sub' = [sub EXCEPT ![s] = [status |-> "active", end |-> now + Period,
                                              ends |-> FALSE]]
                /\ StartCycle(s, now)
       ELSE UNCHANGED <<sub, bills, balance>>
    /\ Leave(w)
    /\ UNCHANGED <<told, topups, now, batch, crashes>>

\* cancel_now, whatever the row says by now.
Cancelled(s) == [sub EXCEPT ![s].status = "canceled", ![s].ends = FALSE]

\* subscription_cancel and subscription_resume read the row ...
Ask(w, s, step) ==
    /\ CustomerCancels
    /\ pc[w] = "idle"
    /\ sub[s].status \in Live
    /\ Take(w, s, sub[s], step)
    /\ UNCHANGED <<sub, bills, told, balance, topups, now, batch, crashes>>

\* ... and write: a line past due has no paid period left and stops at once.
Cancel(w) ==
    /\ pc[w] \in {"cancel", "cancel_now"}
    /\ sub' = IF pc[w] = "cancel_now" \/ read[w].status = "past_due"
              THEN Cancelled(at[w])
              ELSE [sub EXCEPT ![at[w]].ends = TRUE]
    /\ Leave(w)
    /\ UNCHANGED <<bills, told, balance, topups, now, batch, crashes>>

Resume(w) ==
    /\ pc[w] = "resume"
    /\ sub' = [sub EXCEPT ![at[w]].ends = FALSE]
    /\ Leave(w)
    /\ UNCHANGED <<bills, told, balance, topups, now, batch, crashes>>
-----------------------------------------------------------------------------
\* A renewal that was tried once is not tried again.
DueActive(row) == row.status = "active" /\ row.end <= now

Due(row) == row.status \in Live /\ row.end <= now

\* due_for_renewal: the query is evaluated once and the rows are kept.
Scan(r) ==
    /\ pc[r] = "idle"
    /\ batch[r] = {}
    /\ \E s \in Subs : Due(sub[s])
    /\ batch' = [batch EXCEPT ![r] = {<<s, sub[s]>> : s \in {x \in Subs : Due(sub[x])}}]
    /\ UNCHANGED <<sub, bills, told, balance, topups, now, pc, at, read, crashes>>

\* renew_with_balance(sub) on the copy: a subscription that was to end, ends.
Renew(r) ==
    \E e \in batch[r] :
        /\ pc[r] = "idle"
        /\ batch' = [batch EXCEPT ![r] = @ \ {e}]
        /\ IF e[2].ends
           THEN sub' = Cancelled(e[1]) /\ UNCHANGED <<pc, at, read>>
           ELSE Take(r, e[1], e[2], "bill") /\ UNCHANGED sub
        /\ UNCHANGED <<bills, told, balance, topups, now, crashes>>

\* start_cycle takes the row lock but does not look at the row again.
Bill(r) ==
    /\ pc[r] = "bill"
    /\ IF Affordable
       THEN StartCycle(at[r], read[r].end) /\ pc' = [pc EXCEPT ![r] = "advance"]
       ELSE UNCHANGED <<balance, bills>> /\ pc' = [pc EXCEPT ![r] = "short"]
    /\ UNCHANGED <<sub, told, topups, now, at, read, batch, crashes>>

\* The next period is counted from today.
EndFromToday(row) == now + Period

NextEnd(row) == row.end + Period

\* A row the customer has asked to end is left as it is.
AdvanceRunning(r) ==
    /\ pc[r] = "advance"
    /\ sub' = IF sub[at[r]].ends THEN sub
              ELSE [sub EXCEPT ![at[r]].status = "active", ![at[r]].end = NextEnd(read[r])]
    /\ told' = [told EXCEPT ![at[r]] = 0]
    /\ Leave(r)
    /\ UNCHANGED <<bills, balance, topups, now, batch, crashes>>

\* The update that follows provisioning.
Advance(r) ==
    /\ pc[r] = "advance"
    /\ sub' = [sub EXCEPT ![at[r]].status = "active", ![at[r]].end = NextEnd(read[r])]
    /\ told' = [told EXCEPT ![at[r]] = 0]
    /\ Leave(r)
    /\ UNCHANGED <<bills, balance, topups, now, batch, crashes>>

FirstFailure(row) == row.status # "past_due"

\* _mark_past_due: one mail, and after the grace the subscription ends.
Short(r) ==
    LET s == at[r]
        over == ~FirstFailure(read[r]) /\ now - read[r].end > Grace
    IN  /\ pc[r] = "short"
        /\ sub' = IF over THEN Cancelled(s) ELSE [sub EXCEPT ![s].status = "past_due"]
        /\ told' = IF FirstFailure(read[r]) THEN [told EXCEPT ![s] = @ + 1] ELSE told
        /\ Leave(r)
        /\ UNCHANGED <<bills, balance, topups, now, batch, crashes>>

\* The command is killed (a deploy, a timeout of the cron job).
Crash(r) ==
    /\ crashes < MaxCrashes
    /\ pc[r] # "idle"
    /\ crashes' = crashes + 1
    /\ batch' = [batch EXCEPT ![r] = {}]
    /\ Leave(r)
    /\ UNCHANGED <<sub, bills, told, balance, topups, now>>

Command(r) == Scan(r) \/ Renew(r) \/ Bill(r) \/ Advance(r) \/ Short(r)

Request(w) ==
    \/ StartCheck(w) \/ StartCommit(w) \/ Cancel(w) \/ Resume(w)
    \/ \E s \in Subs, step \in {"cancel", "cancel_now", "resume"} : Ask(w, s, step)

Next ==
    \/ Tick \/ TopUp
    \/ \E w \in Workers : Request(w)
    \/ \E r \in Runs : Command(r) \/ Crash(r)

Spec == Init /\ [][Next]_vars
-----------------------------------------------------------------------------
TypeOK ==
    /\ sub     \in [Subs -> Row]
    /\ bills   \in [Subs -> Seq(Nat)]
    /\ told    \in [Subs -> Nat]
    /\ balance \in Nat
    /\ topups  \in 0..MaxTopUps
    /\ now     \in 0..MaxNow
    /\ pc      \in [Procs -> {"idle", "start", "cancel", "cancel_now", "resume",
                              "bill", "advance", "short"}]
    /\ at      \in [Procs -> Subs]
    /\ read    \in [Procs -> Row]
    /\ batch   \in [Runs -> SUBSET (Subs \X Row)]
    /\ crashes \in 0..MaxCrashes

\* Each period is paid once and the next one starts where it ended: no gap, no
\* overlap, no period twice (renew_subscriptions "cannot bill the same period
\* twice").
PeriodsTile ==
    \A s \in Subs : \A i \in 1..Len(bills[s]) - 1 : bills[s][i + 1] = bills[s][i] + Period

\* What has been paid for is what the row says: the line runs until the end of
\* the last period billed, unless a run is about to write that down.
PaidUntilEnd ==
    \A s \in Subs :
        sub[s].status # "none" =>
            \/ sub[s].end = bills[s][Len(bills[s])] + Period
            \/ \E r \in Runs : pc[r] = "advance" /\ at[r] = s

\* Periods tile, and the row says what was paid for, as long as one run works at
\* a time and none is killed half way, however late it comes and whatever the
\* customer does meanwhile.
TilesUnlessKilled == crashes = 0 => PeriodsTile
EndUnlessKilled   == crashes = 0 => PaidUntilEnd

\* The customer is told of a failing renewal once ("Tell them once").
ToldOnce == \A s \in Subs : told[s] <= 1

\* Once a cancellation is stored nothing more is debited ("Cancelling stops the
\* next debit").
CancelStopsDebits ==
    [][\A s \in Subs : sub[s].status = "canceled" => bills'[s] = bills[s]]_vars

\* A customer runs one subscription for the plan ("Never let one customer run
\* two for the same plan").
OneRunning == \A s, t \in Subs : sub[s].status \in Live /\ sub[t].status \in Live => s = t

\* A subscription ends before the last period debited for it is over only because
\* the customer said so at once ("they paid for a month, they keep the month"),
\* whatever copy of the row a run works from and whatever the customer asks
\* meanwhile.  A run killed between the debit and the update of the period leaves
\* a row that says less than was paid: nothing is claimed once a run was killed.
PaidPeriodKept ==
    [][\A s \in Subs :
          crashes = 0 /\ sub[s].status \in Live /\ sub'[s].status = "canceled" =>
              \/ bills[s][Len(bills[s])] + Period <= now
              \/ \E w \in Workers :
                    /\ at[w] = s
                    /\ \/ pc[w] = "cancel_now"
                       \/ pc[w] = "cancel" /\ read[w].status = "past_due"]_vars
-----------------------------------------------------------------------------
\* The command runs every twenty minutes and days go by.
FairSpec == Spec /\ WF_vars(Tick) /\ \A r \in Runs : WF_vars(Command(r))

\* A line nobody pays for is not held open for ever: past due ends in a renewal
\* or in a cancellation, whatever the customer does meanwhile.
NotHeldOpen ==
    \A s \in Subs :
        (sub[s].status = "past_due" /\ sub[s].end + Grace + 1 < MaxNow)
            ~> (sub[s].status # "past_due" \/ sub[s].end > now)
=============================================================================
