----------------------------- MODULE OrderProofs -----------------------------
(***************************************************************************)
(* Orders that are bought and fulfilled.                                   *)
(*                                                                         *)
(* Fulfilment: fulfill_order holds the order row across the provider call, *)
(* so whoever is inside a call is alone with an order that is paid; all    *)
(* that can go wrong is that the provider acted and nobody wrote it down.  *)
(* Purchases: an order takes its seat before its money and is never half   *)
(* bought.                                                                 *)
(***************************************************************************)
EXTENDS Purchase, Fulfilment, FiniteSetTheorems, TLAPS

\* The rows and the processes; the order in which the sweeper takes up the
\* stuck orders plays no part.
FulfilRows ==
    /\ status  \in [Sales -> {"pending", "paid", "completed"}]
    /\ owner   \in [Iccids -> Sales \union {None}]
    /\ acts    \in [Sales -> 0..MaxActs]
    /\ rowLock \in [Sales -> Procs \union {None}]
    /\ task    \in [Procs -> {"idle", "call", "write", "fail"}]
    /\ on      \in [Procs -> Sales]
    /\ answer  \in [Procs -> Iccids \union {None}]
    /\ listed  \subseteq Sales
    /\ deaths  \in 0..MaxDeaths

\* A process in the middle of a call holds the row of its order, which is paid.
Busy(w) ==
    task[w] # "idle" =>
        /\ rowLock[on[w]] = w
        /\ status[on[w]] = "paid"
        /\ task[w] = "write" /\ on[w] \notin TopUpOrders => answer[w] \in Iccids

\* Nothing was done for an order that is not paid.
PaidFor(o) == status[o] = "pending" => acts[o] = 0

FulfilInv ==
    /\ FulfilRows
    /\ \A w \in Procs : Busy(w)
    /\ \A o \in Sales : PaidFor(o)

\* Every step, sorted by who takes it.
LEMMA FulfilCases ==
  ASSUME FulfilNext
  PROVE  \/ \E o \in Sales : MarkPaid(o) \/ ListPending(o) \/ MarkListed(o)
         \/ \E w \in Procs, o \in Sales : Fulfil(w, o)
         \/ \E w \in Procs : \/ Answers(w) \/ Fails(w) \/ Complete(w) \/ Collide(w)
                             \/ GiveUp(w) \/ ProcessDies(w)
         \/ SweepStart
<1>1. ASSUME NEW w \in Workers, NEW o \in Sales, Call(w, o)
      PROVE  w \in Procs /\ Fulfil(w, o)
  BY <1>1 DEF Call, Procs
<1>2. ASSUME SweepNext PROVE \E w \in Procs, o \in Sales : Fulfil(w, o)
  BY <1>2 DEF SweepNext, Procs
<1>3. QED
  BY <1>1, <1>2 DEF FulfilNext

LEMMA InitRows == FulfilInit => FulfilRows
<1> SUFFICES ASSUME FulfilInit PROVE FulfilRows
  OBVIOUS
<1>1. (CHOOSE o \in Sales : TRUE) \in Sales
  BY SalesAssumption
<1>2. QED
  BY <1>1, FulfilBoundsAssumption DEF FulfilInit, FulfilRows

LEMMA InitFulfil == FulfilInit => FulfilInv
BY InitRows DEF FulfilInit, FulfilInv, FulfilRows, Busy, PaidFor

LEMMA RowsStep ==
  ASSUME FulfilRows, [FulfilNext]_fulfilVars
  PROVE  FulfilRows'
<1>1. ASSUME NEW o \in Sales, MarkPaid(o) \/ ListPending(o) \/ MarkListed(o)
      PROVE  FulfilRows'
  BY <1>1 DEF MarkPaid, ListPending, MarkListed, Paid, FulfilRows
<1>2. ASSUME NEW w \in Procs, NEW o \in Sales, Fulfil(w, o) PROVE FulfilRows'
  BY <1>2 DEF Fulfil, FulfilRows
<1>3. ASSUME NEW w \in Procs, Answers(w) PROVE FulfilRows'
  <2>1. on[w] \in Sales /\ \A i \in Issuable : i \in Iccids
    BY DEF FulfilRows, Issuable
  <2>2. acts' \in [Sales -> 0..MaxActs]
    BY <1>3, <2>1, FulfilBoundsAssumption DEF Answers, FulfilRows
  <2>3. QED
    BY <1>3, <2>1, <2>2 DEF Answers, FulfilRows
<1>4. ASSUME NEW w \in Procs, Fails(w) PROVE FulfilRows'
  <2>1. on[w] \in Sales
    BY DEF FulfilRows
  <2>2. acts' \in [Sales -> 0..MaxActs]
    BY <1>4, <2>1, FulfilBoundsAssumption DEF Fails, FulfilRows
  <2>3. QED
    BY <1>4, <2>1, <2>2 DEF Fails, FulfilRows
<1>5. ASSUME NEW w \in Procs, Complete(w) PROVE FulfilRows'
  BY <1>5 DEF Complete, Leave, FulfilRows
<1>6. ASSUME NEW w \in Procs, Collide(w) \/ GiveUp(w) PROVE FulfilRows'
  BY <1>6 DEF Collide, GiveUp, Leave, FulfilRows
<1>7. ASSUME NEW w \in Procs, ProcessDies(w) PROVE FulfilRows'
  BY <1>7, FulfilBoundsAssumption DEF ProcessDies, Leave, FulfilRows
<1>8. CASE SweepStart \/ UNCHANGED fulfilVars
  BY <1>8 DEF SweepStart, fulfilVars, FulfilRows
<1>9. QED
  BY <1>1, <1>2, <1>3, <1>4, <1>5, <1>6, <1>7, <1>8, FulfilCases

\* The row lock keeps everybody else out: two processes in a call have
\* different orders.
LEMMA Apart ==
  ASSUME FulfilInv, NEW v \in Procs, NEW w \in Procs, v # w, task[v] # "idle", task[w] # "idle"
  PROVE  on[v] # on[w]
BY DEF FulfilInv, Busy

LEMMA FulfilStep ==
  ASSUME FulfilInv, [FulfilNext]_fulfilVars
  PROVE  FulfilInv'
<1>1. FulfilRows'
  BY RowsStep DEF FulfilInv
<1>2. SUFFICES (\A v \in Procs : Busy(v)') /\ (\A x \in Sales : PaidFor(x)')
  BY <1>1 DEF FulfilInv
<1> DEFINE Kept == (\A v \in Procs : Busy(v)') /\ (\A x \in Sales : PaidFor(x)')
<1>3. ASSUME NEW o \in Sales, MarkPaid(o) PROVE Kept
  BY <1>3 DEF MarkPaid, Paid, FulfilInv, FulfilRows, Busy, PaidFor
<1>4. ASSUME NEW o \in Sales, ListPending(o) PROVE Kept
  BY <1>4 DEF ListPending, FulfilInv, Busy, PaidFor
<1>5. ASSUME NEW o \in Sales, MarkListed(o) PROVE Kept
  BY <1>5, ProcsAssumption DEF MarkListed, Paid, Procs, FulfilInv, FulfilRows, Busy, PaidFor
<1>6. ASSUME NEW w \in Procs, NEW o \in Sales, Fulfil(w, o) PROVE Kept
  BY <1>6, ProcsAssumption DEF Fulfil, Refused, Procs, FulfilInv, FulfilRows, Busy, PaidFor
<1>7. ASSUME NEW w \in Procs, Answers(w) PROVE Kept
  <2>1. \A v \in Procs : Busy(v)'
    <3>1. \A i \in Issuable : i \in Iccids
      BY DEF Issuable
    <3>2. QED
      BY <1>7, <3>1 DEF Answers, FulfilInv, FulfilRows, Busy
  <2>2. \A x \in Sales : PaidFor(x)'
    BY <1>7 DEF Answers, FulfilInv, FulfilRows, Busy, PaidFor
  <2>3. QED
    BY <2>1, <2>2
<1>8. ASSUME NEW w \in Procs, Fails(w) PROVE Kept
  BY <1>8 DEF Fails, FulfilInv, FulfilRows, Busy, PaidFor
<1>9. ASSUME NEW w \in Procs, Complete(w) PROVE Kept
  BY <1>9, Apart DEF Complete, Leave, FulfilInv, FulfilRows, Busy, PaidFor
<1>10. ASSUME NEW w \in Procs, Collide(w) PROVE Kept
  BY <1>10 DEF Collide, FulfilInv, FulfilRows, Busy, PaidFor
<1>11. ASSUME NEW w \in Procs, GiveUp(w) \/ ProcessDies(w) PROVE Kept
  BY <1>11, Apart DEF GiveUp, ProcessDies, Leave, FulfilInv, FulfilRows, Busy, PaidFor
<1>12. ASSUME SweepStart \/ UNCHANGED fulfilVars PROVE Kept
  BY <1>12 DEF SweepStart, fulfilVars, FulfilInv, Busy, PaidFor
<1>13. QED
  <2> HIDE DEF Kept
  <2>1. Kept
    BY <1>3, <1>4, <1>5, <1>6, <1>7, <1>8, <1>9, <1>10, <1>11, <1>12, FulfilCases
  <2>2. QED
    BY <2>1 DEF Kept

LEMMA FulfilAlways == FulfilSpec => []FulfilInv
BY InitFulfil, FulfilStep, PTL DEF FulfilSpec

\* Whatever the provider answers, whoever dies and whatever the operator does,
\* nothing is ever provisioned for an order that was not paid.
THEOREM OnlyThePaidAreProvisioned == FulfilSpec => []NothingUnpaidProvisioned
<1>1. FulfilInv => NothingUnpaidProvisioned
  BY DEF FulfilInv, FulfilRows, PaidFor, NothingUnpaidProvisioned
<1>2. QED
  BY <1>1, FulfilAlways, PTL

\* With the same faults, a line that belongs to an order belongs to it for good.
THEOREM LinesNeverMove == FulfilSpec => LinesStayPut
<1>1. ASSUME FulfilInv, [FulfilNext]_fulfilVars
      PROVE  [\A i \in Iccids : owner[i] # None => owner'[i] = owner[i]]_fulfilVars
  <2> DEFINE Stay == \A i \in Iccids : owner[i] # None => owner'[i] = owner[i]
  <2>1. ASSUME owner' = owner PROVE Stay
    BY <2>1
  <2>2. ASSUME NEW w \in Procs, Complete(w) PROVE Stay
    BY <1>1, <2>2 DEF Complete, Taken, FulfilInv, FulfilRows
  <2>3. ASSUME NEW o \in Sales, MarkPaid(o) \/ ListPending(o) \/ MarkListed(o)
        PROVE  owner' = owner
    BY <2>3 DEF MarkPaid, ListPending, MarkListed
  <2>4. ASSUME NEW w \in Procs, NEW o \in Sales, Fulfil(w, o) PROVE owner' = owner
    BY <2>4 DEF Fulfil
  <2>5. ASSUME NEW w \in Procs,
               Answers(w) \/ Fails(w) \/ Collide(w) \/ GiveUp(w) \/ ProcessDies(w)
        PROVE  owner' = owner
    BY <2>5 DEF Answers, Fails, Collide, GiveUp, ProcessDies
  <2>6. ASSUME SweepStart PROVE owner' = owner
    BY <2>6 DEF SweepStart
  <2>7. FulfilNext => Stay
    <3> HIDE DEF Stay
    <3>1. QED
      BY <2>1, <2>2, <2>3, <2>4, <2>5, <2>6, FulfilCases
  <2>8. QED
    BY <1>1, <2>7
<1>2. QED
  BY <1>1, FulfilAlways, PTL DEF FulfilSpec, LinesStayPut
-----------------------------------------------------------------------------
\* As long as the operator marks nothing paid by hand.
ProfilesRight(o) ==
    IF status[o] = "completed" THEN \E i \in Iccids : ProfilesOf(o) = {i}
    ELSE ProfilesOf(o) = {}

LineInv ==
    /\ FulfilInv
    /\ listed = {}
    /\ \A o \in Sales \ TopUpOrders : ProfilesRight(o)

LEMMA InitLines == FulfilInit => LineInv
BY InitFulfil, ProcsAssumption DEF FulfilInit, LineInv, ProfilesRight, ProfilesOf

LEMMA LineStep ==
  ASSUME ~OperatorActs, LineInv, [FulfilNext]_fulfilVars
  PROVE  LineInv'
<1>1. FulfilInv'
  BY FulfilStep DEF LineInv
<1> DEFINE Kept == listed' = {} /\ \A x \in Sales \ TopUpOrders : ProfilesRight(x)'
<1>2. ASSUME listed' = listed, owner' = owner,
             \A x \in Sales : status'[x] = "completed" <=> status[x] = "completed"
      PROVE  Kept
  BY <1>2 DEF LineInv, ProfilesRight, ProfilesOf
<1>3. ASSUME NEW o \in Sales, MarkPaid(o) PROVE Kept
  BY <1>2, <1>3 DEF MarkPaid, Paid, LineInv, FulfilInv, FulfilRows
<1>4. ASSUME NEW o \in Sales PROVE ~ListPending(o) /\ ~MarkListed(o)
  BY DEF ListPending, MarkListed, LineInv
<1>5. ASSUME NEW w \in Procs, NEW o \in Sales, Fulfil(w, o) PROVE Kept
  BY <1>2, <1>5 DEF Fulfil
<1>6. ASSUME NEW w \in Procs,
             Answers(w) \/ Fails(w) \/ Collide(w) \/ GiveUp(w) \/ ProcessDies(w)
      PROVE  Kept
  BY <1>2, <1>6 DEF Answers, Fails, Collide, GiveUp, ProcessDies
<1>7. ASSUME NEW w \in Procs, Complete(w) PROVE Kept
  <2>1. PICK o \in Sales : /\ o = on[w] /\ status[o] = "paid"
                           /\ o \notin TopUpOrders => answer[w] \in Iccids
    BY <1>7 DEF Complete, LineInv, FulfilInv, FulfilRows, Busy
  <2>2. /\ listed' = {} /\ status' = [status EXCEPT ![o] = "completed"]
        /\ owner' = IF o \in TopUpOrders THEN owner ELSE [owner EXCEPT ![answer[w]] = o]
        /\ o \notin TopUpOrders => owner[answer[w]] \in {None, o}
    BY <1>7, <2>1 DEF Complete, Taken, LineInv
  <2>3. status \in [Sales -> {"pending", "paid", "completed"}]
        /\ owner \in [Iccids -> Sales \union {None}]
    BY DEF LineInv, FulfilInv, FulfilRows
  <2>4. ASSUME NEW x \in Sales \ TopUpOrders, x # o PROVE ProfilesRight(x)'
    <3>1. ProfilesOf(x)' = ProfilesOf(x)
      BY <2>1, <2>2, <2>3, <2>4, ProcsAssumption DEF ProfilesOf
    <3>2. status'[x] = status[x]
      BY <2>2, <2>3, <2>4
    <3>3. QED
      BY <3>1, <3>2 DEF LineInv, ProfilesRight
  <2>5. ASSUME o \notin TopUpOrders PROVE ProfilesRight(o)'
    <3>1. ProfilesOf(o) = {}
      BY <2>1, <2>5 DEF LineInv, ProfilesRight
    <3>2. ProfilesOf(o)' = {answer[w]}
      BY <2>1, <2>2, <2>3, <2>5, <3>1 DEF ProfilesOf
    <3>3. status'[o] = "completed"
      BY <2>1, <2>2, <2>3
    <3>4. QED
      BY <2>1, <2>5, <3>2, <3>3 DEF ProfilesRight
  <2>6. QED
    BY <2>1, <2>2, <2>4, <2>5
<1>8. ASSUME SweepStart PROVE Kept
  BY <1>2, <1>8 DEF SweepStart
<1>9. ASSUME UNCHANGED fulfilVars PROVE Kept
  BY <1>2, <1>9 DEF fulfilVars
<1>10. QED
  <2> HIDE DEF Kept
  <2>1. Kept
    BY <1>3, <1>4, <1>5, <1>6, <1>7, <1>8, <1>9, FulfilCases
  <2>2. QED
    BY <1>1, <2>1 DEF Kept, LineInv

\* With a provider that loses answers and repeats profiles, and processes that
\* die, a completed order for a new line has exactly one, and any other none.
THEOREM OneLineForEachSale ==
  ASSUME ~OperatorActs
  PROVE  FulfilSpec => []OneLinePerSale
<1>1. LineInv /\ [FulfilNext]_fulfilVars => LineInv'
  BY LineStep
<1>2. LineInv => OneLinePerSale
  BY FS_EmptySet, FS_Singleton DEF LineInv, ProfilesRight, OneLinePerSale
<1>3. QED
  BY <1>1, <1>2, InitLines, PTL DEF FulfilSpec
-----------------------------------------------------------------------------
\* When the provider's refusals are real, its profiles new, and nobody dies.
Reliable ==
    ~AnswerMayBeLost /\ ~IccidMayRepeat /\ ~OperatorActs /\ MaxDeaths = 0

\* Between the call and the commit the provider has acted once; at any other
\* time it has acted for completed orders only.
CallInv(w) ==
    /\ task[w] \in {"call", "fail"} => acts[on[w]] = 0
    /\ task[w] = "write" =>
        /\ acts[on[w]] = 1
        /\ on[w] \notin TopUpOrders => owner[answer[w]] = None
    /\ answer[w] # None => task[w] = "write"
    /\ \A v \in Procs : v # w /\ answer[v] # None => answer[v] # answer[w]

ActsInv(o) ==
    /\ acts[o] <= 1
    /\ status[o] = "paid" /\ rowLock[o] = None => acts[o] = 0

OnceInv ==
    /\ FulfilInv
    /\ listed = {}
    /\ \A w \in Procs : CallInv(w)
    /\ \A o \in Sales : ActsInv(o)

LEMMA InitOnce == FulfilInit => OnceInv
BY InitFulfil DEF FulfilInit, OnceInv, CallInv, ActsInv

LEMMA OnceStep ==
  ASSUME Reliable, OnceInv, [FulfilNext]_fulfilVars
  PROVE  OnceInv'
<1>1. FulfilInv'
  BY FulfilStep DEF OnceInv
<1> DEFINE Kept == /\ listed' = {}
                   /\ \A v \in Procs : CallInv(v)'
                   /\ \A x \in Sales : ActsInv(x)'
<1>2. FulfilRows /\ listed = {}
  BY DEF OnceInv, FulfilInv
<1>3. ASSUME NEW o \in Sales, MarkPaid(o) PROVE Kept
  BY <1>2, <1>3 DEF MarkPaid, Paid, OnceInv, FulfilInv, PaidFor, FulfilRows, CallInv, ActsInv
<1>4. ASSUME NEW o \in Sales PROVE ~ListPending(o) /\ ~MarkListed(o)
  BY <1>2 DEF ListPending, MarkListed, Reliable
<1>5. ASSUME NEW w \in Procs, NEW o \in Sales, Fulfil(w, o) PROVE Kept
  BY <1>2, <1>5, ProcsAssumption
     DEF Fulfil, Refused, Procs, OnceInv, FulfilRows, CallInv, ActsInv
<1>6. ASSUME NEW w \in Procs, Answers(w) PROVE Kept
  <2>1. PICK o \in Sales : /\ o = on[w] /\ acts[o] = 0 /\ rowLock[o] = w
                           /\ task[w] = "call" /\ answer[w] = None
    BY <1>6 DEF Answers, OnceInv, FulfilInv, FulfilRows, Busy, CallInv
  <2>2. \A v \in Procs : v # w /\ task[v] # "idle" => on[v] # o
    BY <1>6, <2>1, Apart DEF Answers, OnceInv
  <2>3. /\ acts' = [acts EXCEPT ![o] = 1] /\ task' = [task EXCEPT ![w] = "write"]
        /\ UNCHANGED <<status, owner, rowLock, on, listed>>
    BY <1>2, <1>6, <2>1 DEF Answers, FulfilRows
  <2>4. answer' = answer \/ \E i \in Issuable : answer' = [answer EXCEPT ![w] = i]
    BY <1>6 DEF Answers
  <2>5. o \notin TopUpOrders => \E i \in Issuable : answer' = [answer EXCEPT ![w] = i]
    BY <1>6, <2>1 DEF Answers
  <2>6. \A i \in Issuable : i \in Iccids /\ owner[i] = None /\ i # None
                            /\ \A v \in Procs : answer[v] # i
    BY ProcsAssumption DEF Issuable, Reliable
  <2>7. \A x \in Sales : ActsInv(x)'
    BY <1>2, <2>1, <2>3, ProcsAssumption DEF OnceInv, ActsInv, FulfilRows, Procs
  <2>8. \A v \in Procs : v # w => answer'[v] = answer[v]
    BY <1>2, <2>4 DEF FulfilRows
  <2>9. answer'[w] = None \/ (answer'[w] \in Issuable)
    BY <1>2, <2>1, <2>4 DEF FulfilRows
  <2>10. ASSUME NEW v \in Procs, v # w PROVE CallInv(v)'
    <3>1. task'[v] = task[v] /\ on'[v] = on[v] /\ answer'[v] = answer[v]
          /\ (task[v] # "idle" => acts'[on[v]] = acts[on[v]])
      BY <1>2, <2>2, <2>3, <2>8, <2>10 DEF FulfilRows
    <3>2. \A u \in Procs : u # v /\ answer'[u] # None => answer'[u] # answer[v]
      BY <2>6, <2>8, <2>9, <2>10 DEF OnceInv, CallInv
    <3>3. QED
      BY <2>3, <2>10, <3>1, <3>2 DEF OnceInv, CallInv
  <2>11. CallInv(w)'
    <3>1. task'[w] = "write" /\ on'[w] = o /\ acts'[o] = 1
      BY <1>2, <2>1, <2>3 DEF FulfilRows
    <3>2. o \notin TopUpOrders => owner'[answer'[w]] = None
      BY <1>2, <2>3, <2>5, <2>6 DEF FulfilRows
    <3>3. \A v \in Procs : v # w /\ answer'[v] # None => answer'[v] # answer'[w]
      BY <2>6, <2>8, <2>9
    <3>4. QED
      BY <3>1, <3>2, <3>3 DEF CallInv
  <2>12. QED
    BY <1>2, <2>3, <2>7, <2>10, <2>11
<1>7. ASSUME NEW w \in Procs, Fails(w) PROVE Kept
  <2>1. acts' = acts
    BY <1>7 DEF Fails, Reliable
  <2>2. QED
    BY <1>2, <1>7, <2>1 DEF Fails, OnceInv, FulfilRows, CallInv, ActsInv
<1>8. ASSUME NEW w \in Procs, Complete(w) PROVE Kept
  <2>1. \A v \in Procs : v # w /\ task[v] # "idle" => on[v] # on[w]
    BY <1>8, Apart DEF Complete, OnceInv
  <2>2. /\ UNCHANGED <<acts, on, listed>>
        /\ status' = [status EXCEPT ![on[w]] = "completed"]
        /\ owner' = IF on[w] \in TopUpOrders THEN owner ELSE [owner EXCEPT ![answer[w]] = on[w]]
        /\ rowLock' = [rowLock EXCEPT ![on[w]] = None]
        /\ task' = [task EXCEPT ![w] = "idle"] /\ answer' = [answer EXCEPT ![w] = None]
    BY <1>8 DEF Complete, Leave
  <2>3. \A x \in Sales : ActsInv(x)'
    BY <1>2, <2>2 DEF OnceInv, ActsInv, FulfilRows
  <2>4. ASSUME NEW v \in Procs PROVE CallInv(v)'
    <3>1. CASE v = w
      BY <1>2, <2>2, <3>1 DEF CallInv, FulfilRows
    <3>2. CASE v # w
      <4>1. task'[v] = task[v] /\ answer'[v] = answer[v] /\ on'[v] = on[v]
            /\ acts'[on[v]] = acts[on[v]]
        BY <1>2, <2>2, <3>2 DEF FulfilRows
      <4>2. task[v] = "write" /\ on[v] \notin TopUpOrders /\ on[w] \notin TopUpOrders
              => answer[v] # answer[w] /\ answer[v] \in Iccids
        BY <1>8, <3>2, ProcsAssumption
           DEF Complete, OnceInv, CallInv, FulfilInv, Busy
      <4>3. task[v] = "write" /\ on[v] \notin TopUpOrders => owner'[answer[v]] = owner[answer[v]]
        BY <1>2, <2>2, <4>2 DEF FulfilRows
      <4>4. \A u \in Procs : answer'[u] = answer[u] \/ answer'[u] = None
        BY <1>2, <2>2 DEF FulfilRows
      <4>5. QED
        BY <4>1, <4>3, <4>4 DEF OnceInv, CallInv
    <3>3. QED
      BY <3>1, <3>2
  <2>5. QED
    BY <1>2, <2>2, <2>3, <2>4
<1>9. ASSUME NEW w \in Procs PROVE ~Collide(w) /\ ~ProcessDies(w)
  BY <1>2 DEF Collide, Taken, ProcessDies, Reliable, OnceInv, CallInv, FulfilRows
<1>10. ASSUME NEW w \in Procs, GiveUp(w) PROVE Kept
  <2>1. acts[on[w]] = 0
    BY <1>10 DEF GiveUp, OnceInv, CallInv
  <2>2. QED
    BY <1>2, <1>10, <2>1 DEF GiveUp, Leave, OnceInv, FulfilRows, CallInv, ActsInv
<1>11. ASSUME SweepStart \/ UNCHANGED fulfilVars PROVE Kept
  BY <1>11 DEF SweepStart, fulfilVars, OnceInv, CallInv, ActsInv
<1>12. QED
  <2> HIDE DEF Kept
  <2>1. Kept
    BY <1>3, <1>4, <1>5, <1>6, <1>7, <1>8, <1>9, <1>10, <1>11, FulfilCases
  <2>2. QED
    BY <1>1, <2>1 DEF Kept, OnceInv

\* A provider whose refusals are real acts once for a sale, however many hooks,
\* operators' clicks and sweeps ask for it at once.
THEOREM NeverProvisionedTwice ==
  ASSUME Reliable
  PROVE  FulfilSpec => []NoDoubleProvision
<1>1. OnceInv /\ [FulfilNext]_fulfilVars => OnceInv'
  BY OnceStep
<1>2. OnceInv => NoDoubleProvision
  BY DEF OnceInv, ActsInv, NoDoubleProvision
<1>3. QED
  BY <1>1, <1>2, InitOnce, PTL DEF FulfilSpec
-----------------------------------------------------------------------------
(* Purchases.                                                              *)

PostSteps == {"ready", "redeem", "pay", "short", "fail", "answered"}
SaleStates == {"none", "pending", "full", "paid", "completed", "failed", "cancelled"}
Sold == {p \in Posts : Bought(p)}

\* Until it is answered a POST's order is pending, and with a seat where it is
\* about to pay.
Posting(p) ==
    /\ post[p] = "ready" => sale[p] = "none"
    /\ post[p] \in {"redeem", "pay", "short", "fail"} => sale[p] = "pending"
    /\ post[p] = "pay" => p \in held

BuyInv ==
    /\ PurchaseTypes
    /\ \A p \in Posts : Posting(p)
    /\ SpentIsSold

LEMMA SoldFinite == IsFiniteSet(Sold) /\ Cardinality(Sold) \in Nat
<1>1. Sold \subseteq Posts
  BY DEF Sold
<1>2. QED
  BY <1>1, PurchaseAssumption, FS_Subset, FS_CardinalityType

LEMMA InitBuy == PurchaseInit => BuyInv
<1> SUFFICES ASSUME PurchaseInit PROVE BuyInv
  OBVIOUS
<1>1. PurchaseTypes /\ \A p \in Posts : Posting(p)
  BY PurchaseAssumption DEF PurchaseInit, PurchaseTypes, Posting
<1>2. {p \in Posts : Bought(p)} = {} /\ \A p \in Posts : ~Bought(p)
  BY DEF PurchaseInit, Bought
<1>3. money + Total * Cardinality({p \in Posts : Bought(p)}) = Funds
  <2>1. Cardinality({p \in Posts : Bought(p)}) = 0
    BY <1>2, FS_EmptySet
  <2>2. money = Funds /\ Funds \in Nat /\ Total \in Nat
    BY PurchaseAssumption DEF PurchaseInit
  <2>3. Total * 0 = 0
    BY <2>2
  <2>4. QED
    BY <2>1, <2>2, <2>3
<1>4. QED
  BY <1>1, <1>2, <1>3 DEF BuyInv, SpentIsSold

LEMMA PurchaseTypesStep ==
  ASSUME PurchaseTypes, [PurchaseNext]_purchaseVars
  PROVE  PurchaseTypes'
<1>1. ASSUME NEW p \in Posts, Submit(p) \/ Claim(p) \/ GiveBack(p) \/ Refuse(p)
      PROVE  PurchaseTypes'
  BY <1>1 DEF Submit, Claim, GiveBack, Refuse, PostGoes, Becomes, PurchaseTypes
<1>2. ASSUME NEW p \in Posts, Debit(p) PROVE PurchaseTypes'
  BY <1>2, PurchaseAssumption DEF Debit, PostGoes, Becomes, PurchaseTypes
<1>3. ASSUME NEW p \in Posts, Kill(p) \/ ExpireHold(p) \/ Supply(p) PROVE PurchaseTypes'
  BY <1>3 DEF Kill, ExpireHold, Supply, PostGoes, Becomes, PurchaseTypes
<1>4. ASSUME NEW p \in Posts, NEW w \in Windows, OpenPage(w, p) PROVE PurchaseTypes'
  BY <1>4 DEF OpenPage, PurchaseTypes
<1>5. ASSUME NEW w \in Windows, SendPage(w) PROVE PurchaseTypes'
  <2>1. window[w] \in Posts
    BY <1>5 DEF SendPage, PurchaseTypes
  <2>2. QED
    BY <1>5, <2>1 DEF SendPage, PurchaseTypes
<1>6. CASE UNCHANGED purchaseVars
  BY <1>6 DEF purchaseVars, PurchaseTypes
<1>7. QED
  BY <1>1, <1>2, <1>3, <1>4, <1>5, <1>6 DEF PurchaseNext

LEMMA BuyStep ==
  ASSUME BuyInv, [PurchaseNext]_purchaseVars
  PROVE  BuyInv'
<1>1. PurchaseTypes' /\ PurchaseTypes
  BY PurchaseTypesStep DEF BuyInv
<1>2. /\ money + Total * Cardinality(Sold) = Funds /\ \A p \in Sold : p \in held
      /\ \A p \in Posts : Posting(p)
  BY DEF BuyInv, SpentIsSold, Sold
<1> DEFINE Right == /\ money' + Total * Cardinality(Sold') = Funds
                    /\ \A p \in Sold' : p \in held'
                    /\ \A p \in Posts : Posting(p)'
<1>3. SUFFICES Right
  BY <1>1, <1>3 DEF BuyInv, SpentIsSold, Sold
\* Whatever sells nothing and takes no seat of what is sold.
<1>4. ASSUME Sold' = Sold, money' = money, \A p \in Sold : p \in held',
             \A p \in Posts : Posting(p)'
      PROVE  Right
  BY <1>2, <1>4
<1>5. ASSUME NEW p \in Posts, Submit(p) \/ Claim(p) \/ GiveBack(p) \/ Refuse(p) PROVE Right
  <2>1. Sold' = Sold /\ money' = money /\ (\A x \in Posts : Posting(x)')
    BY <1>1, <1>2, <1>5 DEF Submit, Claim, GiveBack, Refuse, PostGoes, Becomes, Sold, Bought,
                            Posting, PurchaseTypes
  <2>2. \A x \in Sold : x \in held'
    BY <1>1, <1>2, <1>5 DEF Submit, Claim, GiveBack, Refuse, PostGoes, Becomes, Sold, Bought,
                            Posting, PurchaseTypes
  <2>3. QED
    BY <1>4, <2>1, <2>2
<1>6. ASSUME NEW p \in Posts, Kill(p) \/ ExpireHold(p) \/ Supply(p) PROVE Right
  <2>1. Sold' = Sold /\ money' = money /\ (\A x \in Posts : Posting(x)')
    BY <1>1, <1>2, <1>6 DEF Kill, ExpireHold, Supply, PostGoes, Becomes, Sold, Bought, Posting,
                            PurchaseTypes
  <2>2. \A x \in Sold : x \in held'
    BY <1>1, <1>2, <1>6 DEF Kill, ExpireHold, Supply, Becomes, Sold, Bought
  <2>3. QED
    BY <1>4, <2>1, <2>2
<1>7. ASSUME NEW p \in Posts, Debit(p) PROVE Right
  <2>1. CASE money >= Total
    <3>1. p \notin Sold /\ p \in held
      BY <1>2, <1>7 DEF Debit, Sold, Bought, Posting
    <3>2. /\ money' = money - Total /\ held' = held
          /\ sale' = [sale EXCEPT ![p] = "paid"] /\ post' = [post EXCEPT ![p] = "answered"]
      BY <1>7, <2>1 DEF Debit, Becomes, PostGoes
    <3>3. Sold' = Sold \union {p}
      BY <1>1, <3>2 DEF Sold, Bought, PurchaseTypes
    <3>4. Cardinality(Sold') = Cardinality(Sold) + 1
      BY <3>1, <3>3, SoldFinite, FS_AddElement
    <3>5. Total * (Cardinality(Sold) + 1) = Total * Cardinality(Sold) + Total
      BY SoldFinite, PurchaseAssumption
    <3>6. money' + Total * Cardinality(Sold') = Funds
      <4>1. Total \in Int /\ money \in Int /\ Total * Cardinality(Sold) \in Int
        BY <1>1, SoldFinite, PurchaseAssumption DEF PurchaseTypes
      <4>2. QED
        BY <1>2, <3>2, <3>4, <3>5, <4>1
    <3>7. \A x \in Posts : Posting(x)'
      BY <1>1, <1>2, <3>2 DEF Posting, PurchaseTypes
    <3>8. QED
      BY <1>2, <3>1, <3>2, <3>3, <3>6, <3>7
  <2>2. CASE ~(money >= Total)
    <3>1. UNCHANGED <<money, sale, held>> /\ post' = [post EXCEPT ![p] = "short"]
      BY <1>7, <2>2 DEF Debit, PostGoes
    <3>2. Sold' = Sold /\ \A x \in Posts : Posting(x)'
      BY <1>1, <1>2, <1>7, <3>1 DEF Debit, Sold, Bought, Posting, PurchaseTypes
    <3>3. QED
      BY <1>2, <1>4, <3>1, <3>2
  <2>3. QED
    BY <2>1, <2>2
<1>8. ASSUME UNCHANGED <<post, sale, held, money>> PROVE Right
  <2>1. Sold' = Sold /\ \A x \in Posts : Posting(x)'
    BY <1>2, <1>8 DEF Sold, Bought, Posting
  <2>2. QED
    BY <1>2, <1>4, <1>8, <2>1
<1>9. ASSUME NEW w \in Windows, SendPage(w) \/ \E p \in Posts : OpenPage(w, p) PROVE Right
  BY <1>8, <1>9 DEF SendPage, OpenPage
<1>10. ASSUME UNCHANGED purchaseVars PROVE Right
  BY <1>8, <1>10 DEF purchaseVars
<1>11. QED
  <2> HIDE DEF Right
  <2>1. QED
    BY <1>5, <1>6, <1>7, <1>9, <1>10 DEF PurchaseNext

\* What is gone from the balance is the price of what was bought, and each order
\* bought at the reduced price has its seat: for any number of POSTs and clicks,
\* any price, balance and cap, whichever requests die.
THEOREM SpentIsAlwaysSold == PurchaseSpec => []SpentIsSold
<1>1. BuyInv => SpentIsSold
  BY DEF BuyInv
<1>2. QED
  BY <1>1, InitBuy, BuyStep, PTL DEF PurchaseSpec
=============================================================================
