-------------------------- MODULE SettlementProofs --------------------------
(***************************************************************************)
(* Payments, for any set of payments and workers and any number of         *)
(* notices.  Two facts carry the rest.  What a request works with was      *)
(* announced and read (JobInv), so whatever is accepted is vouched for.    *)
(* And as long as no invoice handler saves a row it read without a lock,   *)
(* that is for card payments, a settlement is never undone: status, order  *)
(* and credit of a payment move together (CardInv), which is what          *)
(* SalePromise asks for.                                                   *)
(***************************************************************************)
EXTENDS Settlement, TLAPS

JobRow == [pay : Payments, kind : Kinds, amount : Sums \union {Unreported},
           row : PayRow, seen : ItemStatus]

Ipn == {"ipn_item", "ipn_close", "ipn_release", "ipn_save"}

\* The kinds of notice whose handling goes through a step.
KindsAt(step) ==
    CASE step \in {"settle", "hook"}               -> PaidKinds
      [] step \in {"decline", "decline_release"}   -> {"declined"}
      [] step \in {"ipn_item", "ipn_close", "ipn_release"} -> DeadKinds
      [] step = "ipn_save"                         -> DeadKinds \union SoftKinds
      [] OTHER                                     -> Kinds

\* A payment somebody vouched for with a sum.
Vouched(p, sum) == \E n \in notices : n.pay = p /\ n.kind \in PaidKinds /\ n.amount = sum

\* A notice of a payment names a sum, and only such a notice does.
NoticesNameSums == \A n \in notices : n.amount = Unreported <=> n.kind \notin PaidKinds

\* What a payment row says, of the table or of a request, was announced.
RowVouched(p, r) ==
    /\ r.paid # Unreported => Vouched(p, r.paid)
    /\ r.settled => p \in Funded

RightKinds == \A w \in Workers : pc[w] # "idle" => job[w].kind \in KindsAt(pc[w])

\* A request under way answers a notice, and read what was announced by then.
AtWork(w) ==
    pc[w] # "idle" =>
        /\ [pay |-> job[w].pay, kind |-> job[w].kind, amount |-> job[w].amount] \in notices
        /\ RowVouched(job[w].pay, job[w].row)
        /\ pc[w] = "hook" => job[w].pay \in Funded

JobInv ==
    /\ TypeOK
    /\ RightKinds
    /\ NoticesNameSums
    /\ \A p \in Payments : RowVouched(p, pay[p])
    /\ \A w \in Workers : AtWork(w)
    /\ NothingUnfunded
-----------------------------------------------------------------------------
(* For card payments alone.                                                *)

\* What the row, the order or top-up and the credits of a payment say together:
\* only the sweeper cancels an order, and nothing spared it.
CardPayment(p) ==
    /\ item[p] \in {"paid", "completed", "credited"} => pay[p].settled
    /\ pay[p].settled => item[p] \in {"paid", "completed", "credited", "cancelled"}
    /\ item[p] \in {"pending", "paid", "completed", "credited", "failed", "cancelled"}
    /\ item[p] = "cancelled" => p \in OrderPayments /\ ~Spared(p)
    /\ item[p] = "failed" => pay[p].status = "new"
    /\ seat[p] => p \in Discounted
    /\ p \in OrderPayments => item[p] # "credited"
    /\ p \in TopUps => item[p] # "completed" /\ Len(credits[p]) = (IF item[p] = "credited" THEN 1 ELSE 0)

\* A status that does not look live tells what happened.
CardStatus(p) ==
    /\ pay[p].status = "paid" => pay[p].settled
    /\ pay[p].status = "failed" => "declined" \in Announced(p)
    /\ pay[p].status # "expired"

\* A settlement under way holds the row it read, and read a pending order or one
\* the sweeper had cancelled, which stays cancelled.
CardSettling(w) ==
    pc[w] = "settle" =>
        /\ lock[job[w].pay] = w
        /\ job[w].row = pay[job[w].pay]
        /\ ~job[w].row.settled =>
              \/ job[w].seen = "pending"
              \/ job[w].seen = "cancelled" /\ item[job[w].pay] = "cancelled"

CardInv ==
    /\ JobInv
    /\ \A n \in notices : n.kind \in {"succeeded", "declined", "forced"} /\ pay[n.pay].status # "new"
    /\ \A p \in Payments : CardPayment(p) /\ CardStatus(p)
    /\ \A w \in Workers : CardSettling(w) /\ (pc[w] = "hook" => pay[job[w].pay].settled)
-----------------------------------------------------------------------------
\* The steps about one payment that no notice brings about.
OneRow(p) ==
    \/ Open(p) \/ OpenFails(p) \/ SettleByHand(p) \/ Sweep(p) \/ CreditNow(p)
    \/ GrowOld(p) \/ ExpireHold(p)

\* Every step, sorted by what it is about.
LEMMA NextCases ==
  ASSUME Next
  PROVE  \/ \E p \in Payments : OneRow(p)
         \/ \E p \in Payments, kind \in Kinds, amount \in Sums \union {Unreported} :
               Announce(p, kind, amount)
         \/ \E w \in Workers, n \in notices : SettleBegin(w, n) \/ DeclineBegin(w, n) \/ IpnRead(w, n)
         \/ \E w \in Workers : \/ SettleCommit(w) \/ OnCommit(w) \/ DeclineSave(w) \/ ReleaseSeat(w)
                               \/ IpnItem(w) \/ IpnClose(w) \/ IpnSave(w) \/ Crash(w)
<1>1. ASSUME NEW p \in Payments,
             \/ OneRow(p)
             \/ \E kind \in Kinds, amount \in Sums \union {Unreported} : Announce(p, kind, amount)
      PROVE  \/ \E q \in Payments : OneRow(q)
             \/ \E q \in Payments, kind \in Kinds, amount \in Sums \union {Unreported} :
                   Announce(q, kind, amount)
  BY <1>1
<1>2. ASSUME NEW w \in Workers, Handle(w) \/ Crash(w)
      PROVE  \/ \E v \in Workers, n \in notices : SettleBegin(v, n) \/ DeclineBegin(v, n) \/ IpnRead(v, n)
             \/ \E v \in Workers : \/ SettleCommit(v) \/ OnCommit(v) \/ DeclineSave(v) \/ ReleaseSeat(v)
                                   \/ IpnItem(v) \/ IpnClose(v) \/ IpnSave(v) \/ Crash(v)
  BY <1>2 DEF Handle
<1> QED
  BY <1>1, <1>2 DEF Next, OneRow

LEMMA NoJobTyped == NoJob \in JobRow
<1>1. (CHOOSE p \in Payments : TRUE) \in Payments
  BY PaymentsAssumption
<1> QED
  BY <1>1 DEF NoJob, JobRow, Kinds, PaidKinds, Sums, NewRow, PayRow, PayStatus, ItemStatus

LEMMA SumsAreNats == Sums \subseteq Nat /\ Invoice \in Nat /\ Unreported \notin Sums
BY SumsAssumption, NamesAssumption DEF Sums

\* The sum a credit books.
LEMMA CreditIsNat ==
  ASSUME NEW r \in PayRow
  PROVE  Arrived(r) \in Nat /\ Larger(Invoice, Arrived(r)) + Bonus \in Nat
<1>1. r.paid \in Sums \union {Unreported}
  BY DEF PayRow
<1>2. Arrived(r) \in Nat
  BY <1>1, SumsAreNats DEF Arrived
<1> QED
  BY <1>2, SumsAssumption DEF Larger

LEMMA StatusTyped ==
  ASSUME NEW r \in PayRow, NEW status \in PayStatus
  PROVE  [r EXCEPT !.status = status] \in PayRow
BY DEF PayRow

LEMMA IpnStatusTyped ==
  ASSUME NEW r \in PayRow, NEW kind \in DeadKinds \union SoftKinds
  PROVE  IpnStatus(r, kind) \in PayStatus
BY DEF IpnStatus, DeadAs, DeadKinds, SoftKinds, PayStatus, PayRow

LEMMA SettledRowTyped ==
  ASSUME NEW r \in PayRow, NEW sum \in Sums \union {Unreported}
  PROVE  SettledRow(r, sum) \in PayRow
BY DEF SettledRow, PayRow, PayStatus

\* A request that goes on keeps what it read or forgets it.
LEMMA GotoTyped ==
  ASSUME TypeOK, NEW w \in Workers, NEW step \in Steps, Goto(w, step)
  PROVE  pc' \in [Workers -> Steps] /\ job' \in [Workers -> JobRow]
BY NoJobTyped DEF TypeOK, Goto, JobRow

\* A request that begins works with a notice and with the rows it reads.
LEMMA BeginTyped ==
  ASSUME TypeOK, NEW w \in Workers, NEW n \in notices, NEW step \in Steps, Begin(w, n, step)
  PROVE  pc' \in [Workers -> Steps] /\ job' \in [Workers -> JobRow]
<1>1. n \in Notice
  BY DEF TypeOK
<1>2. [pay |-> n.pay, kind |-> n.kind, amount |-> n.amount, row |-> pay[n.pay],
       seen |-> item[n.pay]] \in JobRow
  BY <1>1 DEF TypeOK, Notice, JobRow
<1> QED
  BY <1>2 DEF TypeOK, Begin, JobRow

LEMMA CreditTyped ==
  ASSUME TypeOK, NEW p \in Payments, Credit(p)
  PROVE  item' \in [Payments -> ItemStatus] /\ credits' \in [Payments -> Seq(Nat)]
<1>1. Larger(Invoice, Arrived(pay[p])) + Bonus \in Nat
  BY CreditIsNat DEF TypeOK
<1>2. credits[p] \in Seq(Nat)
  BY DEF TypeOK
<1>3. Append(credits[p], Larger(Invoice, Arrived(pay[p])) + Bonus) \in Seq(Nat)
  BY <1>1, <1>2
<1> QED
  BY <1>3 DEF Credit, TypeOK, ItemStatus

LEMMA InitTypes == Init => TypeOK
<1> SUFFICES ASSUME Init PROVE TypeOK
  OBVIOUS
<1>1. NewRow \in PayRow
  BY DEF NewRow, PayRow, PayStatus
<1>2. job \in [Workers -> JobRow]
  BY NoJobTyped DEF Init
<1> QED
  BY <1>1, <1>2, BoundsAssumption DEF Init, TypeOK, ItemStatus, Steps, JobRow

LEMMA StepTypes == ASSUME TypeOK, RightKinds, [Next]_vars PROVE TypeOK'
<1> USE DEF JobRow
<1>1. ASSUME NEW p \in Payments, OneRow(p), ~CreditNow(p)
      PROVE  TypeOK'
  <2>1. [pay |-> p, kind |-> "forced", amount |-> Invoice] \in Notice
    BY DEF Notice, Kinds, PaidKinds, Sums
  <2>2. Open(p) => TypeOK'
    <3>1. [pay[p] EXCEPT !.status = "waiting"] \in PayRow
      BY StatusTyped DEF TypeOK, PayStatus
    <3> QED
      BY <3>1 DEF TypeOK, Open
  <2>3. OpenFails(p) => TypeOK'
    BY DEF TypeOK, OpenFails, ItemStatus
  <2>4. SettleByHand(p) => TypeOK'
    BY <2>1 DEF TypeOK, SettleByHand
  <2>5. Sweep(p) => TypeOK'
    BY DEF TypeOK, Sweep, Fulfil, ItemStatus
  <2>6. GrowOld(p) => TypeOK'
    BY DEF TypeOK, GrowOld
  <2>7. ExpireHold(p) => TypeOK'
    BY DEF TypeOK, ExpireHold, ItemStatus
  <2> QED
    BY <1>1, <2>2, <2>3, <2>4, <2>5, <2>6, <2>7 DEF OneRow
<1>2. ASSUME NEW p \in Payments, CreditNow(p) PROVE TypeOK'
  BY <1>2, CreditTyped DEF CreditNow, TypeOK
<1>3. ASSUME NEW p \in Payments, NEW kind \in Kinds, NEW amount \in Sums \union {Unreported},
             Announce(p, kind, amount)
      PROVE  TypeOK'
  <2>1. [pay |-> p, kind |-> kind, amount |-> amount] \in Notice
    BY DEF Notice
  <2> QED
    BY <1>3, <2>1 DEF Announce, TypeOK
<1>4. ASSUME NEW w \in Workers, NEW n \in notices,
             SettleBegin(w, n) \/ DeclineBegin(w, n) \/ IpnRead(w, n)
      PROVE  TypeOK'
  <2>1. n.pay \in Payments
    BY DEF TypeOK, Notice
  <2>2. SettleBegin(w, n) => TypeOK'
    BY <2>1, BeginTyped DEF SettleBegin, TypeOK, Steps
  <2>3. DeclineBegin(w, n) => TypeOK'
    BY BeginTyped DEF DeclineBegin, TypeOK, Steps
  <2>4. IpnRead(w, n) => TypeOK'
    BY BeginTyped DEF IpnRead, TypeOK, Steps
  <2> QED
    BY <1>4, <2>2, <2>3, <2>4
<1>5. ASSUME NEW w \in Workers, SettleCommit(w) PROVE TypeOK'
  <2>1. job[w] \in JobRow /\ job[w].pay \in Payments
    BY DEF TypeOK
  <2>2. SettledRow(job[w].row, job[w].amount) \in PayRow
    BY <2>1, SettledRowTyped
  <2>3. pc' \in [Workers -> Steps] /\ job' \in [Workers -> JobRow]
    BY <1>5, GotoTyped DEF SettleCommit, Steps
  <2>4. ItemAfter(job[w].pay, job[w].seen) \in ItemStatus
    BY <2>1 DEF ItemAfter, TypeOK, ItemStatus
  <2> QED
    BY <1>5, <2>1, <2>2, <2>3, <2>4 DEF SettleCommit, TypeOK
<1>6. ASSUME NEW w \in Workers, OnCommit(w) PROVE TypeOK'
  <2>1. job[w].pay \in Payments
    BY DEF TypeOK
  <2>2. pc' \in [Workers -> Steps] /\ job' \in [Workers -> JobRow]
    BY <1>6, GotoTyped DEF OnCommit, Steps
  <2>3. item' \in [Payments -> ItemStatus] /\ credits' \in [Payments -> Seq(Nat)]
    BY <1>6, <2>1, CreditTyped DEF OnCommit, Fulfil, TypeOK, ItemStatus
  <2> QED
    BY <1>6, <2>2, <2>3 DEF OnCommit, TypeOK
<1>7. ASSUME NEW w \in Workers, DeclineSave(w) \/ IpnItem(w) \/ IpnSave(w) PROVE TypeOK'
  <2>1. job[w] \in JobRow /\ job[w].pay \in Payments
    BY DEF TypeOK
  <2>2. pc' \in [Workers -> Steps] /\ job' \in [Workers -> JobRow]
    BY <1>7, GotoTyped DEF DeclineSave, IpnItem, IpnSave, Steps
  <2>3. ASSUME pc[w] = "ipn_save" PROVE SavedRow(job[w].row, job[w].kind) \in PayRow
    <3>1. job[w].kind \in DeadKinds \union SoftKinds
      BY <2>3 DEF RightKinds, KindsAt
    <3> QED
      BY <2>1, <3>1, StatusTyped, IpnStatusTyped DEF SavedRow
  <2>4. [pay[job[w].pay] EXCEPT !.status = "failed"] \in PayRow
    BY <2>1, StatusTyped DEF TypeOK, PayStatus
  <2>5. pay' \in [Payments -> PayRow]
    BY <1>7, <2>1, <2>3, <2>4 DEF DeclineSave, IpnItem, IpnSave, TypeOK
  <2> QED
    BY <1>7, <2>2, <2>5 DEF DeclineSave, IpnItem, IpnSave, TypeOK
<1>8. ASSUME NEW w \in Workers, ReleaseSeat(w) \/ IpnClose(w) \/ Crash(w) PROVE TypeOK'
  <2>2. pc' \in [Workers -> Steps] /\ job' \in [Workers -> JobRow]
    BY <1>8, GotoTyped DEF ReleaseSeat, IpnClose, Crash, Steps
  <2>3. ReleaseSeat(w) => TypeOK'
    BY <2>2 DEF ReleaseSeat, TypeOK
  <2>4. IpnClose(w) => TypeOK'
    BY <2>2 DEF IpnClose, TypeOK, DeadAs, ItemStatus
  <2>5. Crash(w) => TypeOK'
    BY <2>2, BoundsAssumption DEF Crash, TypeOK
  <2> QED
    BY <1>8, <2>3, <2>4, <2>5
<1>9. CASE UNCHANGED vars
  BY <1>9 DEF vars, TypeOK
<1> QED
  BY NextCases, <1>1, <1>2, <1>3, <1>4, <1>5, <1>6, <1>7, <1>8, <1>9

\* A step that takes a request on leaves its kind to the next step.
LEMMA GotoKinds ==
  ASSUME TypeOK, RightKinds, NEW w \in Workers, NEW step \in Steps, Goto(w, step),
         step = "idle" \/ job[w].kind \in KindsAt(step)
  PROVE  RightKinds'
BY DEF TypeOK, RightKinds, Goto

LEMMA BeginKinds ==
  ASSUME TypeOK, RightKinds, NEW w \in Workers, NEW n \in notices, NEW step \in Steps,
         Begin(w, n, step), n.kind \in KindsAt(step)
  PROVE  RightKinds'
BY DEF TypeOK, RightKinds, Begin

LEMMA StepKinds == ASSUME TypeOK, RightKinds, [Next]_vars PROVE RightKinds'
<1>1. ASSUME UNCHANGED <<pc, job>> PROVE RightKinds'
  BY <1>1 DEF RightKinds
<1>2. ASSUME NEW p \in Payments,
             \/ OneRow(p)
             \/ \E kind \in Kinds, amount \in Sums \union {Unreported} : Announce(p, kind, amount)
      PROVE  RightKinds'
  BY <1>1, <1>2 DEF OneRow, Open, OpenFails, SettleByHand, Sweep, CreditNow, GrowOld, ExpireHold,
                    Announce
<1>3. ASSUME NEW w \in Workers, NEW n \in notices,
             SettleBegin(w, n) \/ DeclineBegin(w, n) \/ IpnRead(w, n)
      PROVE  RightKinds'
  BY <1>3, BeginKinds DEF SettleBegin, DeclineBegin, IpnRead, KindsAt, Steps
<1>4. ASSUME NEW w \in Workers,
             SettleCommit(w) \/ OnCommit(w) \/ DeclineSave(w) \/ ReleaseSeat(w) \/ Crash(w)
      PROVE  RightKinds'
  <2>1. pc[w] # "idle" => job[w].kind \in KindsAt(pc[w])
    BY DEF RightKinds
  <2>2. \E step \in Steps : Goto(w, step) /\ (step = "idle" \/ job[w].kind \in KindsAt(step))
    BY <1>4, <2>1 DEF SettleCommit, OnCommit, DeclineSave, ReleaseSeat, Crash, KindsAt, Steps
  <2> QED
    BY <2>2, GotoKinds
<1>5. ASSUME NEW w \in Workers, IpnItem(w) \/ IpnClose(w) \/ IpnSave(w) PROVE RightKinds'
  <2>1. pc[w] # "idle" => job[w].kind \in KindsAt(pc[w])
    BY DEF RightKinds
  <2>2. \E step \in Steps : Goto(w, step) /\ (step = "idle" \/ job[w].kind \in KindsAt(step))
    BY <1>5, <2>1 DEF IpnItem, IpnClose, IpnSave, KindsAt, Steps
  <2> QED
    BY <2>2, GotoKinds
<1> QED
  BY NextCases, <1>1, <1>2, <1>3, <1>4, <1>5 DEF vars

\* The types of the rows, of the notices and of the requests under way
\* (payments/models.py, payments/services.py).
THEOREM SettlementTypes == Spec => []TypeOK
<1>1. Init => TypeOK /\ RightKinds
  BY InitTypes DEF Init, RightKinds
<1>2. TypeOK /\ RightKinds /\ [Next]_vars => (TypeOK /\ RightKinds)'
  BY StepTypes, StepKinds
<1> QED
  BY <1>1, <1>2, PTL DEF Spec
-----------------------------------------------------------------------------
(* What is accepted was vouched for.                                       *)

\* Nothing that was announced is taken back.
LEMMA VouchedStays ==
  ASSUME [Next]_vars
  PROVE  /\ notices \subseteq notices'
         /\ \A p \in Payments : p \in Funded => p \in Funded'
         /\ \A p \in Payments, r \in PayRow : RowVouched(p, r) => RowVouched(p, r)'
<1>1. notices \subseteq notices'
  BY NextCases DEF vars, OneRow, Open, OpenFails, SettleByHand, Sweep, CreditNow, GrowOld,
                   ExpireHold, Announce, SettleBegin,
     DeclineBegin, IpnRead, SettleCommit, OnCommit, DeclineSave, ReleaseSeat, IpnItem, IpnClose,
     IpnSave, Crash
<1>2. \A p \in Payments : p \in Funded => p \in Funded'
  BY <1>1 DEF Funded
<1> QED
  BY <1>1, <1>2 DEF RowVouched, Vouched

\* The row that settle_payment saves says what its notice vouched for.
LEMMA SettledRowVouched ==
  ASSUME JobInv, NEW w \in Workers, pc[w] = "settle"
  PROVE  RowVouched(job[w].pay, SettledRow(job[w].row, job[w].amount))
<1> DEFINE p == job[w].pay
           sum == job[w].amount
<1>1. job[w] \in JobRow /\ p \in Payments /\ job[w].row \in PayRow
  BY DEF JobInv, TypeOK, JobRow
<1>2. [pay |-> p, kind |-> job[w].kind, amount |-> sum] \in notices /\ job[w].kind \in PaidKinds
  BY DEF JobInv, AtWork, RightKinds, KindsAt
<1>3. sum \in Sums /\ sum # Unreported
  <2>1. sum # Unreported
    BY <1>2 DEF JobInv, NoticesNameSums
  <2> QED
    BY <1>1, <2>1 DEF JobRow
<1>4. Vouched(p, sum)
  BY <1>2 DEF Vouched
<1>5. Enough(sum) => p \in Funded
  BY <1>1, <1>2 DEF Enough, Funded
<1>6. job[w].row.settled => p \in Funded
  BY DEF JobInv, AtWork, RowVouched
<1>7. SettledRow(job[w].row, sum).paid = sum
  BY <1>1 DEF SettledRow, PayRow
<1>8. SettledRow(job[w].row, sum).settled => job[w].row.settled \/ Enough(sum)
  BY <1>1, <1>3 DEF SettledRow, PayRow, Arrived
<1> QED
  BY <1>4, <1>5, <1>6, <1>7, <1>8 DEF RowVouched

\* What is paid for, delivered or credited was so before, or is vouched for.
LEMMA ItemMoves ==
  ASSUME JobInv, [Next]_vars, NEW p \in Payments, item'[p] \in {"paid", "completed", "credited"}
  PROVE  p \in Funded
<1> DEFINE Good == {"paid", "completed", "credited"}
<1>1. item[p] \in Good => p \in Funded
  BY DEF JobInv, NothingUnfunded
<1>2. SUFFICES ASSUME item[p] \notin Good PROVE p \in Funded
  BY <1>1
<1>3. ASSUME NEW q \in Payments, OneRow(q)
      PROVE  p \in Funded
  BY <1>2, <1>3 DEF OneRow, Open, OpenFails, SettleByHand, Sweep, CreditNow, GrowOld, ExpireHold,
                    Fulfil, Credit, JobInv, TypeOK
<1>4. ASSUME NEW w \in Workers, SettleCommit(w) PROVE p \in Funded
  <2>1. job[w].pay = p /\ SettledRow(job[w].row, job[w].amount).settled
    BY <1>2, <1>4 DEF SettleCommit, JobInv, TypeOK
  <2> QED
    BY <1>4, <2>1, SettledRowVouched DEF SettleCommit, RowVouched
<1>5. ASSUME NEW w \in Workers, OnCommit(w) PROVE p \in Funded
  <2>1. job[w].pay = p
    BY <1>2, <1>5 DEF OnCommit, Fulfil, Credit, JobInv, TypeOK
  <2> QED
    BY <1>5, <2>1 DEF OnCommit, JobInv, AtWork
<1>6. ASSUME NEW w \in Workers, IpnClose(w) PROVE p \in Funded
  BY <1>2, <1>6 DEF IpnClose, DeadAs, JobInv, TypeOK
<1>7. CASE UNCHANGED item
  BY <1>2, <1>7
<1> QED
  BY NextCases, <1>3, <1>4, <1>5, <1>6, <1>7
     DEF vars, Announce, SettleBegin, DeclineBegin, IpnRead, DeclineSave, ReleaseSeat, IpnItem,
         IpnSave, Crash

\* Every row of a payment that a step writes was vouched for.
LEMMA PayMoves ==
  ASSUME JobInv, [Next]_vars, NEW p \in Payments
  PROVE  RowVouched(p, pay'[p])
<1>1. pay[p] \in PayRow /\ RowVouched(p, pay[p])
  BY DEF JobInv, TypeOK
<1>2. ASSUME UNCHANGED pay PROVE RowVouched(p, pay'[p])
  BY <1>1, <1>2
<1>3. ASSUME NEW status, pay'[p] = [pay[p] EXCEPT !.status = status]
      PROVE  RowVouched(p, pay'[p])
  BY <1>1, <1>3 DEF RowVouched, PayRow
<1>4. ASSUME NEW q \in Payments, Open(q) PROVE RowVouched(p, pay'[p])
  BY <1>1, <1>3, <1>4 DEF Open, JobInv, TypeOK
<1>5. ASSUME NEW w \in Workers, DeclineSave(w) PROVE RowVouched(p, pay'[p])
  BY <1>1, <1>3, <1>5 DEF DeclineSave, JobInv, TypeOK
<1>6. ASSUME NEW w \in Workers, SettleCommit(w) PROVE RowVouched(p, pay'[p])
  BY <1>1, <1>6, SettledRowVouched DEF SettleCommit, JobInv, TypeOK
<1>7. ASSUME NEW w \in Workers, IpnSave(w) PROVE RowVouched(p, pay'[p])
  <2>1. job[w].row \in PayRow /\ RowVouched(job[w].pay, job[w].row)
    BY <1>7 DEF IpnSave, JobInv, AtWork, TypeOK
  <2>2. RowVouched(job[w].pay, SavedRow(job[w].row, job[w].kind))
    BY <2>1 DEF SavedRow, RowVouched, PayRow
  <2> QED
    BY <1>1, <1>7, <2>2 DEF IpnSave, JobInv, TypeOK
<1> QED
  BY NextCases, <1>2, <1>4, <1>5, <1>6, <1>7
     DEF vars, OneRow, OpenFails, SettleByHand, Sweep, CreditNow, GrowOld, ExpireHold, Announce,
         SettleBegin, DeclineBegin,
         IpnRead, OnCommit, ReleaseSeat, IpnItem, IpnClose, Crash

LEMMA NoticesStep ==
  ASSUME JobInv, [Next]_vars PROVE NoticesNameSums'
<1>1. ASSUME UNCHANGED notices PROVE NoticesNameSums'
  BY <1>1 DEF JobInv, NoticesNameSums
<1>2. ASSUME NEW p \in Payments, SettleByHand(p) PROVE NoticesNameSums'
  BY <1>2, SumsAreNats, NamesAssumption DEF SettleByHand, JobInv, NoticesNameSums, PaidKinds
<1>3. ASSUME NEW p \in Payments, NEW kind \in Kinds, NEW amount \in Sums \union {Unreported},
             Announce(p, kind, amount)
      PROVE  NoticesNameSums'
  BY <1>3 DEF Announce, JobInv, NoticesNameSums
<1> QED
  BY NextCases, <1>1, <1>2, <1>3
     DEF vars, OneRow, Open, OpenFails, Sweep, CreditNow, GrowOld, ExpireHold, SettleBegin,
         DeclineBegin, IpnRead,
         SettleCommit, OnCommit, DeclineSave, ReleaseSeat, IpnItem, IpnClose, IpnSave, Crash

\* A request that goes on works with what it read; the hook of a settlement runs
\* for a payment that is funded.
LEMMA GotoAtWork ==
  ASSUME JobInv, [Next]_vars, NEW w \in Workers, NEW step, Goto(w, step), NEW v \in Workers,
         step = "idle" \/ pc[w] # "idle", step = "hook" => job[w].pay \in Funded
  PROVE  AtWork(v)'
<1>1. job[v] \in JobRow /\ job[v].pay \in Payments /\ job[v].row \in PayRow
  BY DEF JobInv, TypeOK, JobRow
<1>2. pc'[v] # "idle" => job'[v] = job[v] /\ (pc'[v] = pc[v] \/ (v = w /\ pc'[v] = step /\ pc[w] # "idle"))
  BY DEF Goto, JobInv, TypeOK
<1>3. pc'[v] # "idle" => pc[v] # "idle"
  BY <1>2
<1> QED
  BY <1>1, <1>2, <1>3, VouchedStays DEF JobInv, AtWork

LEMMA BeginAtWork ==
  ASSUME JobInv, [Next]_vars, NEW w \in Workers, NEW n \in notices, NEW step,
         Begin(w, n, step), step # "hook", NEW v \in Workers
  PROVE  AtWork(v)'
<1>1. job[v] \in JobRow /\ job[v].pay \in Payments /\ job[v].row \in PayRow
  BY DEF JobInv, TypeOK, JobRow
<1>2. n \in Notice /\ n = [pay |-> n.pay, kind |-> n.kind, amount |-> n.amount]
      /\ n.pay \in Payments /\ pay[n.pay] \in PayRow
  BY DEF JobInv, TypeOK, Notice
<1>3. CASE v = w
  <2>1. job'[w] = [pay |-> n.pay, kind |-> n.kind, amount |-> n.amount, row |-> pay[n.pay],
                   seen |-> item[n.pay]] /\ pc'[w] = step
    BY DEF Begin, JobInv, TypeOK
  <2>2. RowVouched(n.pay, pay[n.pay])
    BY <1>2 DEF JobInv
  <2> QED
    BY <1>2, <1>3, <2>1, <2>2, VouchedStays DEF AtWork
<1>4. CASE v # w
  <2>1. job'[v] = job[v] /\ pc'[v] = pc[v]
    BY <1>4 DEF Begin, JobInv, TypeOK
  <2> QED
    BY <1>1, <2>1, VouchedStays DEF AtWork, JobInv
<1> QED
  BY <1>3, <1>4

LEMMA AtWorkStep ==
  ASSUME JobInv, [Next]_vars, NEW v \in Workers PROVE AtWork(v)'
<1>1. ASSUME UNCHANGED <<pc, job>> PROVE AtWork(v)'
  <2>1. job[v] \in JobRow /\ job[v].pay \in Payments /\ job[v].row \in PayRow
    BY DEF JobInv, TypeOK, JobRow
  <2> QED
    BY <1>1, <2>1, VouchedStays DEF AtWork, JobInv
<1>2. ASSUME NEW w \in Workers, NEW n \in notices,
             SettleBegin(w, n) \/ DeclineBegin(w, n) \/ IpnRead(w, n)
      PROVE  AtWork(v)'
  BY <1>2, BeginAtWork DEF SettleBegin, DeclineBegin, IpnRead
<1>3. ASSUME NEW w \in Workers, SettleCommit(w) PROVE AtWork(v)'
  BY <1>3, GotoAtWork, SettledRowVouched DEF SettleCommit, RowVouched
<1>4. ASSUME NEW w \in Workers,
             \/ OnCommit(w) \/ DeclineSave(w) \/ ReleaseSeat(w) \/ IpnItem(w) \/ IpnClose(w)
             \/ IpnSave(w) \/ Crash(w)
      PROVE  AtWork(v)'
  <2>1. pc[w] # "idle" /\ \E step \in Steps \ {"hook"} : Goto(w, step)
    BY <1>4 DEF OnCommit, DeclineSave, ReleaseSeat, IpnItem, IpnClose, IpnSave, Crash, Steps
  <2> QED
    BY <2>1, GotoAtWork
<1> QED
  BY NextCases, <1>1, <1>2, <1>3, <1>4
     DEF vars, OneRow, Open, OpenFails, SettleByHand, Sweep, CreditNow, GrowOld, ExpireHold,
         Announce

LEMMA JobStart == Init => JobInv
<1> SUFFICES ASSUME Init PROVE JobInv
  OBVIOUS
<1>1. TypeOK
  BY InitTypes
<1>2. \A p \in Payments : RowVouched(p, pay[p])
  BY DEF Init, RowVouched, NewRow
<1> QED
  BY <1>1, <1>2 DEF Init, JobInv, NoticesNameSums, AtWork, RightKinds, NothingUnfunded

LEMMA JobStep == JobInv /\ [Next]_vars => JobInv'
<1> SUFFICES ASSUME JobInv, [Next]_vars PROVE JobInv'
  OBVIOUS
<1>1. TypeOK' /\ RightKinds'
  BY StepTypes, StepKinds DEF JobInv
<1>2. \A p \in Payments : RowVouched(p, pay[p])'
  <2> SUFFICES ASSUME NEW p \in Payments PROVE RowVouched(p, pay[p])'
    OBVIOUS
  <2>1. RowVouched(p, pay'[p]) /\ pay'[p] \in PayRow
    BY <1>1, PayMoves DEF TypeOK
  <2> QED
    BY <2>1, VouchedStays
<1>3. NothingUnfunded'
  BY ItemMoves, VouchedStays DEF NothingUnfunded
<1> QED
  BY <1>1, <1>2, <1>3, NoticesStep, AtWorkStep DEF JobInv

\* Whatever the providers announce, and however notices, workers and operators
\* interleave, nothing is paid for, delivered or credited unless somebody vouched
\* for 98% of its invoice (payments/services.py, settle_payment).
THEOREM UnderpaidNeverServed == Spec => []NothingUnfunded
<1>1. JobInv => NothingUnfunded
  BY DEF JobInv
<1> QED
  BY <1>1, JobStart, JobStep, PTL DEF Spec

\* A credit books what was vouched for.
LEMMA CreditVouched ==
  ASSUME JobInv, NEW p \in Payments
  PROVE  LET sum == Larger(Invoice, Arrived(pay[p]))
         IN  /\ sum \in Nat
             /\ sum = Invoice \/ Vouched(p, sum)
<1>1. pay[p] \in PayRow /\ RowVouched(p, pay[p])
  BY DEF JobInv, TypeOK
<1> QED
  BY <1>1, CreditIsNat, SumsAreNats DEF RowVouched, Larger, Arrived, PayRow

\* CreditIsReported, as a fact about each credit.
CreditVouchedFor(p) ==
    \A i \in 1..Len(credits[p]) : credits[p][i] - Bonus = Invoice \/ Vouched(p, credits[p][i] - Bonus)

LEMMA CreditsSame == CreditIsReported <=> \A p \in TopUps : CreditVouchedFor(p)
BY DEF CreditIsReported, CreditVouchedFor, Vouched

LEMMA CreditsKept ==
  ASSUME JobInv, [Next]_vars, NEW p \in TopUps, CreditVouchedFor(p),
         UNCHANGED credits[p] \/ Credit(p) \/ \E q \in Payments \ {p} : Credit(q)
  PROVE  CreditVouchedFor(p)'
<1> DEFINE sum == Larger(Invoice, Arrived(pay[p])) + Bonus
<1>1. p \in Payments /\ credits[p] \in Seq(Nat)
  BY DEF TopUps, JobInv, TypeOK
<1>2. notices \subseteq notices'
  BY VouchedStays
<1>3. CASE UNCHANGED credits[p]
  BY <1>2, <1>3 DEF CreditVouchedFor, Vouched
<1>4. CASE credits' = [credits EXCEPT ![p] = Append(@, sum)]
  <2>1. credits'[p] = Append(credits[p], sum)
    BY <1>1, <1>4 DEF JobInv, TypeOK
  <2>2. sum \in Nat /\ sum - Bonus = Larger(Invoice, Arrived(pay[p]))
    BY <1>1, CreditVouched, SumsAssumption
  <2>3. /\ Len(credits'[p]) = Len(credits[p]) + 1 /\ Len(credits[p]) \in Nat
        /\ \A i \in 1..Len(credits[p]) : credits'[p][i] = credits[p][i]
        /\ credits'[p][Len(credits[p]) + 1] = sum
    BY <1>1, <2>1, <2>2
  <2>4. sum - Bonus = Invoice \/ Vouched(p, sum - Bonus)
    BY <1>1, <2>2, CreditVouched
  <2> SUFFICES ASSUME NEW i \in 1..Len(credits'[p])
               PROVE  \/ credits'[p][i] - Bonus = Invoice
                      \/ \E n \in notices' : /\ n.pay = p /\ n.kind \in PaidKinds
                                              /\ n.amount = credits'[p][i] - Bonus
    BY DEF CreditVouchedFor, Vouched
  <2>5. CASE i = Len(credits[p]) + 1
    <3>1. credits'[p][i] = sum
      BY <1>1, <2>3, <2>5
    <3> HIDE DEF sum
    <3> QED
      BY <1>2, <2>4, <3>1 DEF Vouched
  <2>6. CASE i # Len(credits[p]) + 1
    <3>1. i \in 1..Len(credits[p]) /\ credits'[p][i] = credits[p][i]
      BY <2>3, <2>6
    <3>2. credits[p][i] - Bonus = Invoice \/ Vouched(p, credits[p][i] - Bonus)
      BY <3>1 DEF CreditVouchedFor
    <3> QED
      BY <1>2, <3>1, <3>2 DEF Vouched
  <2> QED
    BY <2>5, <2>6
<1>5. CASE credits[p] = credits'[p]
  BY <1>3, <1>5
<1> QED
  BY <1>1, <1>3, <1>4, <1>5 DEF Credit, JobInv, TypeOK

\* A credit is the invoice or a larger sum some provider reported, plus the bonus,
\* whatever notices come first (wallet/models.py, payable_usd).
THEOREM CreditsAreReported == Spec => []CreditIsReported
<1>1. Init => CreditIsReported
  BY DEF Init, CreditIsReported, TopUps
<1>2. JobInv /\ CreditIsReported /\ [Next]_vars => CreditIsReported'
  <2> SUFFICES ASSUME JobInv, CreditIsReported, [Next]_vars, NEW p \in TopUps
               PROVE  CreditVouchedFor(p)'
    BY DEF CreditIsReported, CreditVouchedFor, Vouched
  <2>1. UNCHANGED credits \/ \E q \in Payments : Credit(q)
    <3>1. ASSUME NEW w \in Workers, OnCommit(w)
          PROVE  UNCHANGED credits \/ \E q \in Payments : Credit(q)
      BY <3>1 DEF OnCommit, JobInv, TypeOK
    <3>2. ASSUME NEW q \in Payments, CreditNow(q) PROVE Credit(q)
      BY <3>2 DEF CreditNow
    <3> QED
      BY NextCases, <3>1, <3>2
         DEF vars, OneRow, Open, OpenFails, SettleByHand, Sweep, GrowOld, ExpireHold, Announce,
             SettleBegin, DeclineBegin,
             IpnRead, SettleCommit, DeclineSave, ReleaseSeat, IpnItem, IpnClose, IpnSave, Crash
  <2>2. CreditVouchedFor(p)
    BY CreditsSame
  <2> QED
    BY <2>1, <2>2, CreditsKept
<1> QED
  BY <1>1, <1>2, JobStart, JobStep, PTL DEF Spec
-----------------------------------------------------------------------------
\* A cancelled order has given its seat back, or the worker that cancelled it is
\* about to: unless workers die, no interleaving of notices loses the seat
\* (payments/services.py, the release after a dead invoice).
THEOREM CancelledSeatsComeBack == ASSUME MaxCrashes = 0 PROVE Spec => []CancelledFreesSeat
<1>1. Init => CancelledFreesSeat
  BY PaymentsAssumption DEF Init, CancelledFreesSeat
<1>2. TypeOK /\ CancelledFreesSeat /\ [Next]_vars => CancelledFreesSeat'
  <2> SUFFICES ASSUME TypeOK, CancelledFreesSeat, [Next]_vars, NEW p \in OrderPayments,
                      item'[p] = "cancelled", seat'[p]
               PROVE  \E v \in Workers : pc'[v] = "ipn_release" /\ job'[v].pay = p
    BY DEF CancelledFreesSeat
  <2>0. p \in Payments /\ p \notin TopUps
    BY PaymentsAssumption DEF TopUps
  <2> DEFINE Freeing(v) == pc[v] = "ipn_release" /\ job[v].pay = p
  <2>1. ASSUME item[p] = "cancelled", seat[p] PROVE \E v \in Workers : Freeing(v)
    BY <2>1 DEF CancelledFreesSeat
  <2>2. ASSUME item[p] = "cancelled", seat[p], UNCHANGED <<pc, job>>
        PROVE  \E v \in Workers : pc'[v] = "ipn_release" /\ job'[v].pay = p
    BY <2>1, <2>2
  <2>3. ASSUME NEW q \in Payments,
               OneRow(q)
        PROVE  item[p] = "cancelled" /\ seat[p] /\ UNCHANGED <<pc, job>>
    BY <2>0, <2>3 DEF TypeOK, OneRow, Open, OpenFails, SettleByHand, Sweep, CreditNow, GrowOld,
                      ExpireHold, Fulfil, Credit
  <2>4. ASSUME NEW w \in Workers, NEW n \in notices,
               SettleBegin(w, n) \/ DeclineBegin(w, n) \/ IpnRead(w, n)
        PROVE  \E v \in Workers : pc'[v] = "ipn_release" /\ job'[v].pay = p
    <3>1. item[p] = "cancelled" /\ seat[p] /\ pc[w] = "idle"
      BY <2>4 DEF SettleBegin, DeclineBegin, IpnRead, Begin
    <3>2. PICK v \in Workers : Freeing(v)
      BY <2>1, <3>1
    <3>3. v # w
      BY <3>1, <3>2
    <3>4. pc'[v] = pc[v] /\ job'[v] = job[v]
      BY <2>4, <3>3 DEF SettleBegin, DeclineBegin, IpnRead, Begin, TypeOK
    <3> QED
      BY <3>2, <3>4
  <2>5. ASSUME NEW w \in Workers, NEW step, Goto(w, step), item[p] = "cancelled", seat[p],
               pc[w] = "ipn_release" => job[w].pay # p
        PROVE  \E v \in Workers : pc'[v] = "ipn_release" /\ job'[v].pay = p
    <3>1. PICK v \in Workers : Freeing(v)
      BY <2>1, <2>5
    <3>2. pc'[v] = pc[v] /\ job'[v] = job[v]
      BY <2>5, <3>1 DEF Goto, TypeOK
    <3> QED
      BY <3>1, <3>2
  <2>6. ASSUME NEW w \in Workers, SettleCommit(w) \/ OnCommit(w)
        PROVE  item[p] = "cancelled" /\ seat[p] /\ pc[w] # "ipn_release" /\ \E step : Goto(w, step)
    BY <2>0, <2>6 DEF TypeOK, SettleCommit, OnCommit, Fulfil, Credit, ItemAfter
  <2>7. ASSUME NEW w \in Workers, DeclineSave(w) \/ IpnItem(w) \/ IpnSave(w)
        PROVE  item[p] = "cancelled" /\ seat[p] /\ pc[w] # "ipn_release" /\ \E step : Goto(w, step)
    BY <2>7 DEF TypeOK, DeclineSave, IpnItem, IpnSave
  <2>8. ASSUME NEW w \in Workers, ReleaseSeat(w)
        PROVE  item[p] = "cancelled" /\ seat[p] /\ job[w].pay # p /\ \E step : Goto(w, step)
    BY <2>0, <2>8 DEF TypeOK, ReleaseSeat
  <2>9. ASSUME NEW w \in Workers, IpnClose(w)
        PROVE  \E v \in Workers : pc'[v] = "ipn_release" /\ job'[v].pay = p
    <3>1. CASE job[w].pay = p
      BY <2>0, <2>9, <3>1 DEF TypeOK, IpnClose, Goto
    <3>2. CASE job[w].pay # p
      <4>1. item[p] = "cancelled" /\ seat[p] /\ pc[w] # "ipn_release" /\ \E step : Goto(w, step)
        BY <2>0, <2>9, <3>2 DEF TypeOK, IpnClose
      <4> QED
        BY <2>5, <4>1
    <3> QED
      BY <3>1, <3>2
  <2>10. ASSUME NEW w \in Workers, Crash(w) PROVE FALSE
    BY <2>10 DEF Crash, TypeOK
  <2>11. ASSUME NEW q \in Payments, NEW kind \in Kinds, NEW amount \in Sums \union {Unreported},
                Announce(q, kind, amount)
         PROVE  item[p] = "cancelled" /\ seat[p] /\ UNCHANGED <<pc, job>>
    BY <2>11 DEF Announce
  <2>12. CASE UNCHANGED vars
    BY <2>2, <2>12 DEF vars
  <2> QED
    BY NextCases, <2>2, <2>3, <2>4, <2>5, <2>6, <2>7, <2>8, <2>9, <2>10, <2>11, <2>12
<1> QED
  BY <1>1, <1>2, SettlementTypes, PTL DEF Spec
-----------------------------------------------------------------------------
(* Card payments.                                                          *)

\* No invoice handler runs, so no row is saved from a stale copy.
LEMMA NoIpn ==
  ASSUME CardInv, NEW w \in Workers
  PROVE  pc[w] \notin Ipn
<1>1. pc[w] # "idle" => \E n \in notices : n.kind = job[w].kind
  BY DEF CardInv, JobInv, AtWork
<1>2. pc[w] # "idle" => job[w].kind \in {"succeeded", "declined", "forced"} /\ job[w].kind \in KindsAt(pc[w])
  BY <1>1 DEF CardInv, JobInv, RightKinds
<1> QED
  BY <1>2 DEF Ipn, KindsAt, DeadKinds, SoftKinds

\* A request under way is about a payment whose checkout was opened.
LEMMA WorkOpened ==
  ASSUME CardInv, NEW w \in Workers, pc[w] # "idle"
  PROVE  job[w].pay \in Payments /\ pay[job[w].pay].status # "new"
BY DEF CardInv, JobInv, AtWork, TypeOK

\* What the settlement that holds a row does to it.
LEMMA CardSettles ==
  ASSUME CardInv, NEW w \in Workers, SettleCommit(w)
  PROVE  LET p   == job[w].pay
             new == SettledRow(job[w].row, job[w].amount)
         IN  /\ new.status # "new"
             /\ job[w].row.settled <=> pay[p].settled
             /\ pay[p].settled => new.settled
             /\ new.status = "paid" => new.settled
             /\ new.status \in {"failed", "expired"} => new.status = pay[p].status
             /\ ~pay[p].settled => item[p] \in {"pending", "cancelled"}
             /\ ~pay[p].settled => item' = IF ~new.settled THEN item
                    ELSE [item EXCEPT ![p] = IF job[w].seen = "pending" THEN "paid" ELSE @]
             /\ pay[p].settled => UNCHANGED item
<1> DEFINE p == job[w].pay
           new == SettledRow(job[w].row, job[w].amount)
<1>1. p \in Payments /\ pay[p] \in PayRow /\ job[w].row = pay[p] /\ pay[p].status # "new"
  BY WorkOpened DEF SettleCommit, CardInv, CardSettling, JobInv, TypeOK
<1>2. /\ new.status # "new" /\ (pay[p].settled => new.settled)
      /\ new.status \in {"failed", "expired"} => new.status = pay[p].status
  BY <1>1 DEF SettledRow, PayRow
<1>3. new.status = "paid" => new.settled
  BY <1>1 DEF SettledRow, PayRow, CardInv, CardStatus
<1>4. ~pay[p].settled => /\ item[p] \in {"pending", "cancelled"}
                         /\ \/ job[w].seen = "pending"
                            \/ job[w].seen = "cancelled" /\ item[p] = "cancelled" /\ p \notin TopUps
  <2>1. CardPayment(p) /\ CardSettling(w) /\ pc[w] = "settle"
    BY <1>1 DEF CardInv, SettleCommit
  <2>2. ~pay[p].settled => item[p] \in {"pending", "cancelled"}
    BY <1>1, <2>1 DEF CardPayment
  <2>3. item[p] = "cancelled" => p \notin TopUps
    BY <2>1 DEF CardPayment, TopUps
  <2> QED
    BY <1>1, <2>1, <2>2, <2>3 DEF CardSettling
<1>5. item' = IF new.settled /\ ~pay[p].settled
              THEN [item EXCEPT ![p] = ItemAfter(p, job[w].seen)] ELSE item
  BY <1>1 DEF SettleCommit
<1>6. ~pay[p].settled => item' = IF ~new.settled THEN item
          ELSE [item EXCEPT ![p] = IF job[w].seen = "pending" THEN "paid" ELSE @]
  BY <1>4, <1>5 DEF ItemAfter
<1> QED
  BY <1>1, <1>2, <1>3, <1>4, <1>5, <1>6

\* A settlement that does not find its order pending found it cancelled.
LEMMA PendingPaid ==
  ASSUME CardInv, NEW w \in Workers, SettleCommit(w), ~pay[job[w].pay].settled
  PROVE  job[w].seen = "pending" \/ item[job[w].pay] = "cancelled"
BY DEF CardInv, CardSettling, SettleCommit

\* A checkout that was opened stays opened.
LEMMA CardOpened ==
  ASSUME CardInv, [Next]_vars, NEW p \in Payments, pay[p].status # "new"
  PROVE  pay'[p].status # "new"
<1>1. ASSUME NEW q \in Payments, Open(q) PROVE pay'[p].status # "new"
  BY <1>1 DEF Open, CardInv, JobInv, TypeOK, PayRow
<1>2. ASSUME NEW w \in Workers, SettleCommit(w) PROVE pay'[p].status # "new"
  BY <1>2, CardSettles DEF SettleCommit, CardInv, JobInv, TypeOK
<1>3. ASSUME NEW w \in Workers, DeclineSave(w) PROVE pay'[p].status # "new"
  BY <1>3 DEF DeclineSave, CardInv, JobInv, TypeOK, PayRow
<1>4. ASSUME NEW w \in Workers, IpnSave(w) PROVE FALSE
  BY <1>4, NoIpn DEF IpnSave, Ipn
<1> QED
  BY NextCases, <1>1, <1>2, <1>3, <1>4
     DEF vars, OneRow, OpenFails, SettleByHand, Sweep, CreditNow, GrowOld, ExpireHold, Announce,
         SettleBegin, DeclineBegin,
         IpnRead, OnCommit, ReleaseSeat, IpnItem, IpnClose, Crash

LEMMA CardNotices ==
  ASSUME CryptoPayments = {}, CardInv, [Next]_vars, NEW n \in notices'
  PROVE  n.kind \in {"succeeded", "declined", "forced"} /\ pay'[n.pay].status # "new"
<1>1. n \in notices => n.pay \in Payments
  BY DEF CardInv, JobInv, TypeOK, Notice
<1>2. CASE n \in notices
  BY <1>1, <1>2, CardOpened DEF CardInv
<1>3. ASSUME NEW p \in Payments, SettleByHand(p), n \notin notices
      PROVE  n.kind = "forced" /\ pay'[n.pay].status # "new"
  BY <1>3 DEF SettleByHand
<1>4. ASSUME NEW p \in Payments, NEW kind \in Kinds, NEW amount \in Sums \union {Unreported},
             Announce(p, kind, amount), n \notin notices
      PROVE  n.kind \in {"succeeded", "declined"} /\ pay'[n.pay].status # "new"
  BY <1>4 DEF Announce, CardMay
<1> QED
  BY NextCases, <1>2, <1>3, <1>4
     DEF vars, OneRow, Open, OpenFails, Sweep, CreditNow, GrowOld, ExpireHold, SettleBegin,
         DeclineBegin, IpnRead,
         SettleCommit, OnCommit, DeclineSave, ReleaseSeat, IpnItem, IpnClose, IpnSave, Crash

\* A credit is booked once, for a top-up that is paid for.
LEMMA CardCredit ==
  ASSUME CardInv, NEW q \in TopUps, Credit(q), pay[q].settled, UNCHANGED <<pay, seat>>,
         NEW p \in Payments, Spared(p)' => Spared(p)
  PROVE  CardPayment(p)'
<1>1. q \in Payments /\ q \notin OrderPayments
  BY DEF TopUps
<1>2. item[q] \in {"paid", "credited"}
  BY <1>1 DEF CardInv, CardPayment
<1>3. CASE item[q] = "credited"
  BY <1>3 DEF Credit, CardInv, CardPayment
<1>4. CASE item[q] = "paid"
  <2>1. credits[q] \in Seq(Nat) /\ Len(credits[q]) = 0
    BY <1>1, <1>4 DEF CardInv, CardPayment, JobInv, TypeOK
  <2>2. credits' = [credits EXCEPT ![q] = Append(@, Larger(Invoice, Arrived(pay[q])) + Bonus)]
        /\ item' = [item EXCEPT ![q] = "credited"]
    BY <1>4 DEF Credit
  <2>3. Len(credits'[q]) = 1 /\ item'[q] = "credited"
    BY <1>1, <2>1, <2>2 DEF CardInv, JobInv, TypeOK
  <2>4. CASE p = q
    BY <1>1, <2>3, <2>4 DEF CardPayment, CardInv
  <2>5. CASE p # q
    <3>1. item'[p] = item[p] /\ credits'[p] = credits[p]
      BY <2>2, <2>5 DEF CardInv, JobInv, TypeOK
    <3>2. CardPayment(p)
      BY DEF CardInv
    <3> QED
      BY <3>1, <3>2 DEF CardPayment
  <2> QED
    BY <2>4, <2>5
<1> QED
  BY <1>2, <1>3, <1>4

\* Nothing that exposes an order to the sweeper is taken back.
LEMMA SparedBefore ==
  ASSUME [Next]_vars, NEW p \in Payments
  PROVE  /\ Spared(p)' => Spared(p)
         /\ "declined" \in Announced(p) => ("declined" \in Announced(p))'
<1>1. notices \subseteq notices'
  BY VouchedStays
<1>2. old \subseteq old'
  BY NextCases DEF vars, OneRow, Open, OpenFails, SettleByHand, Sweep, CreditNow, GrowOld,
     ExpireHold, Announce, SettleBegin, DeclineBegin, IpnRead, SettleCommit, OnCommit,
     DeclineSave, ReleaseSeat, IpnItem, IpnClose, IpnSave, Crash
<1>3. "declined" \in Announced(p) => ("declined" \in Announced(p))'
  BY <1>1 DEF Announced
<1> QED
  BY <1>2, <1>3 DEF Spared

\* What the sweeper cancels was declined or is old.
LEMMA ExpiredExposed ==
  ASSUME CardInv, NEW p \in Payments, ExpireHold(p)
  PROVE  ~Spared(p) /\ ~pay[p].settled
<1>1. CardPayment(p) /\ CardStatus(p) /\ pay[p] \in PayRow
  BY DEF CardInv, JobInv, TypeOK
<1>2. ~pay[p].settled /\ p \in Discounted
  BY <1>1 DEF ExpireHold, CardPayment
<1>3. p \in old \/ pay[p].status = "failed"
  BY <1>1, <1>2 DEF ExpireHold, LooksLive, CardStatus, PayRow, PayStatus
<1> QED
  BY <1>1, <1>2, <1>3 DEF CardStatus, Spared

LEMMA CardStatuses ==
  ASSUME CardInv, [Next]_vars, NEW p \in Payments
  PROVE  CardStatus(p)'
<1>0. CardStatus(p) /\ pay[p] \in PayRow
  BY DEF CardInv, JobInv, TypeOK
<1>1. ASSUME pay'[p] = pay[p] PROVE CardStatus(p)'
  BY <1>0, <1>1, SparedBefore DEF CardStatus
<1>2. ASSUME NEW q \in Payments, Open(q) PROVE CardStatus(p)'
  BY <1>0, <1>1, <1>2 DEF Open, CardStatus, CardInv, JobInv, TypeOK, PayRow
<1>3. ASSUME NEW w \in Workers, SettleCommit(w) PROVE CardStatus(p)'
  <2>1. CASE p = job[w].pay
    <3>1. pay'[p] = SettledRow(job[w].row, job[w].amount)
      BY <1>3, <2>1 DEF SettleCommit, CardInv, JobInv, TypeOK
    <3> QED
      BY <1>0, <1>3, <2>1, <3>1, CardSettles, SparedBefore DEF CardStatus
  <2>2. CASE p # job[w].pay
    BY <1>1, <1>3, <2>2 DEF SettleCommit, CardInv, JobInv, TypeOK
  <2> QED
    BY <2>1, <2>2
<1>4. ASSUME NEW w \in Workers, DeclineSave(w) PROVE CardStatus(p)'
  <2>1. CASE p = job[w].pay
    <3>1. pay'[p] = [pay[p] EXCEPT !.status = "failed"]
      BY <1>4, <2>1 DEF DeclineSave, CardInv, JobInv, TypeOK
    <3>2. pay'[p].status = "failed"
      BY <1>0, <3>1 DEF PayRow
    <3>3. "declined" \in Announced(p)
      <4>1. job[w].kind = "declined"
        BY <1>4 DEF DeclineSave, CardInv, JobInv, RightKinds, KindsAt
      <4>2. [pay |-> p, kind |-> "declined", amount |-> job[w].amount] \in notices
        BY <1>4, <2>1, <4>1 DEF DeclineSave, CardInv, JobInv, AtWork
      <4> QED
        BY <4>2 DEF Announced
    <3> QED
      BY <3>2, <3>3, SparedBefore DEF CardStatus
  <2>2. CASE p # job[w].pay
    BY <1>1, <1>4, <2>2 DEF DeclineSave, CardInv, JobInv, TypeOK
  <2> QED
    BY <2>1, <2>2
<1>5. ASSUME NEW w \in Workers, IpnSave(w) PROVE FALSE
  BY <1>5, NoIpn DEF IpnSave, Ipn
<1> QED
  BY NextCases, <1>1, <1>2, <1>3, <1>4, <1>5
     DEF vars, OneRow, OpenFails, SettleByHand, Sweep, CreditNow, GrowOld, ExpireHold, Announce,
         SettleBegin, DeclineBegin, IpnRead, OnCommit, ReleaseSeat, IpnItem, IpnClose, Crash

LEMMA CardPayments ==
  ASSUME CardInv, [Next]_vars, NEW p \in Payments
  PROVE  CardPayment(p)'
<1>0. CardPayment(p) /\ pay[p] \in PayRow /\ (Spared(p)' => Spared(p))
  BY SparedBefore DEF CardInv, JobInv, TypeOK
<1>1. ASSUME UNCHANGED <<pay, item, credits>>, seat'[p] => seat[p] PROVE CardPayment(p)'
  BY <1>0, <1>1 DEF CardPayment
<1>10. ASSUME NEW q \in Payments, ExpireHold(q) PROVE CardPayment(p)'
  <2>1. CASE p = q
    <3>1. item'[p] = "cancelled" /\ ~seat'[p] /\ p \in OrderPayments /\ p \notin TopUps
      BY <1>10, <2>1 DEF ExpireHold, CardInv, JobInv, TypeOK, TopUps
    <3>2. ~Spared(p)' /\ ~pay'[p].settled
      BY <1>0, <1>10, <2>1, ExpiredExposed DEF ExpireHold
    <3> QED
      BY <3>1, <3>2 DEF CardPayment
  <2>2. CASE p # q
    BY <1>0, <1>10, <2>2 DEF ExpireHold, CardPayment, CardInv, JobInv, TypeOK
  <2> QED
    BY <2>1, <2>2
<1>11. ASSUME NEW w \in Workers, ReleaseSeat(w) PROVE CardPayment(p)'
  BY <1>1, <1>11 DEF ReleaseSeat, CardInv, JobInv, TypeOK
<1>2. ASSUME NEW q \in Payments, Open(q) PROVE CardPayment(p)'
  BY <1>0, <1>2 DEF Open, CardPayment, CardInv, JobInv, TypeOK, PayRow
<1>3. ASSUME NEW q \in Payments, OpenFails(q) PROVE CardPayment(p)'
  BY <1>0, <1>3 DEF OpenFails, CardPayment, CardInv, JobInv, TypeOK
<1>4. ASSUME NEW q \in Payments, Sweep(q) PROVE CardPayment(p)'
  BY <1>0, <1>4 DEF Sweep, Fulfil, CardPayment, CardInv, JobInv, TypeOK, TopUps
<1>5. ASSUME NEW q \in Payments, CreditNow(q) PROVE CardPayment(p)'
  BY <1>0, <1>5, CardCredit DEF CreditNow, CardInv, CardPayment
<1>6. ASSUME NEW w \in Workers, SettleCommit(w) PROVE CardPayment(p)'
  <2> DEFINE q == job[w].pay
             new == SettledRow(job[w].row, job[w].amount)
  <2>1. pc[w] = "settle" /\ q \in Payments /\ pay' = [pay EXCEPT ![q] = new] /\ UNCHANGED credits
    BY <1>6, WorkOpened DEF SettleCommit
  <2>2. /\ new.status # "new" /\ (pay[q].settled => new.settled)
        /\ ~pay[q].settled => item[q] \in {"pending", "cancelled"}
        /\ ~pay[q].settled => item' = IF ~new.settled THEN item
                ELSE [item EXCEPT ![q] = IF job[w].seen = "pending" THEN "paid" ELSE @]
        /\ pay[q].settled => UNCHANGED item
        /\ UNCHANGED seat
    BY <1>6, CardSettles DEF SettleCommit
  <2>4. CASE p # q
    BY <1>0, <2>1, <2>2, <2>4 DEF CardPayment, CardInv, JobInv, TypeOK
  <2>5. CASE p = q
    <3>1. pay'[p] = new
      BY <2>1, <2>5 DEF CardInv, JobInv, TypeOK
    <3>2. CardPayment(q)
      BY <2>1 DEF CardInv
    <3>3. CASE new.settled /\ ~pay[q].settled
      <4>1. item'[p] = "paid" \/ (item'[p] = item[p] /\ item[p] = "cancelled")
        BY <1>6, <2>1, <2>2, <2>5, <3>3, PendingPaid DEF CardInv, JobInv, TypeOK
      <4> QED
        BY <1>0, <2>1, <2>2, <2>5, <3>1, <3>2, <3>3, <4>1 DEF CardPayment
    <3>4. CASE ~(new.settled /\ ~pay[q].settled)
      BY <1>0, <2>1, <2>2, <2>5, <3>1, <3>2, <3>4 DEF CardPayment
    <3> QED
      BY <3>3, <3>4
  <2> QED
    BY <2>4, <2>5
<1>7. ASSUME NEW w \in Workers, OnCommit(w) PROVE CardPayment(p)'
  <2>1. job[w].pay \in Payments /\ pay[job[w].pay].settled /\ UNCHANGED pay
    BY <1>7, WorkOpened DEF OnCommit, CardInv
  <2>2. CASE job[w].pay \in OrderPayments /\ Fulfil(job[w].pay) /\ UNCHANGED credits
    BY <1>0, <1>7, <2>1, <2>2 DEF OnCommit, Fulfil, CardPayment, CardInv, JobInv, TypeOK, TopUps
  <2>3. CASE job[w].pay \in TopUps /\ Credit(job[w].pay)
    BY <1>0, <1>7, <2>1, <2>3, CardCredit DEF OnCommit
  <2> QED
    BY <1>1, <1>7, <2>1, <2>2, <2>3 DEF OnCommit
<1>8. ASSUME NEW w \in Workers, DeclineSave(w) PROVE CardPayment(p)'
  <2>1. job[w].pay \in Payments /\ pay[job[w].pay].status # "new"
    BY <1>8, WorkOpened DEF DeclineSave
  <2> QED
    BY <1>0, <1>8, <2>1 DEF DeclineSave, CardPayment, CardInv, JobInv, TypeOK, PayRow
<1>9. ASSUME NEW w \in Workers, IpnSave(w) \/ IpnClose(w) PROVE FALSE
  BY <1>9, NoIpn DEF IpnSave, IpnClose, Ipn
<1> QED
  BY NextCases, <1>10, <1>11, <1>1, <1>2, <1>3, <1>4, <1>5, <1>6, <1>7, <1>8, <1>9
     DEF vars, OneRow, SettleByHand, GrowOld, Announce, SettleBegin, DeclineBegin, IpnRead,
         IpnItem, Crash

\* An order the sweeper cancelled stays cancelled but for a settlement that had
\* read it as pending.
LEMMA CancelledStays ==
  ASSUME CardInv, [Next]_vars, NEW p \in Payments, item[p] = "cancelled",
         \A w \in Workers : SettleCommit(w) => job[w].pay # p
  PROVE  item'[p] = "cancelled"
<1>1. ASSUME NEW q \in Payments, OneRow(q) PROVE item'[p] = "cancelled"
  BY <1>1 DEF OneRow, Open, OpenFails, SettleByHand, Sweep, CreditNow, GrowOld, ExpireHold, Fulfil,
              Credit, CardInv, JobInv, TypeOK
<1>2. ASSUME NEW w \in Workers, SettleCommit(w) PROVE item'[p] = "cancelled"
  BY <1>2 DEF SettleCommit, CardInv, JobInv, TypeOK
<1>3. ASSUME NEW w \in Workers, OnCommit(w) PROVE item'[p] = "cancelled"
  <2>1. job[w].pay \in TopUps => job[w].pay # p
    BY DEF CardInv, CardPayment, TopUps
  <2> QED
    BY <1>3, <2>1 DEF OnCommit, Fulfil, Credit, CardInv, JobInv, TypeOK
<1>4. ASSUME NEW w \in Workers, IpnClose(w) PROVE FALSE
  BY <1>4, NoIpn DEF IpnClose, Ipn
<1> QED
  BY NextCases, <1>1, <1>2, <1>3, <1>4
     DEF vars, Announce, SettleBegin, DeclineBegin, IpnRead, DeclineSave, ReleaseSeat, IpnItem,
         IpnSave, Crash

\* A settlement under way is alone with its row.
LEMMA CardSettlements ==
  ASSUME CardInv, [Next]_vars, NEW v \in Workers
  PROVE  CardSettling(v)'
<1> DEFINE q == job[v].pay
<1>0. /\ CardSettling(v) /\ q \in Payments
      /\ \A p \in Payments : lock[p] \in Workers \union {NoOne}
      /\ NoOne \notin Workers
  BY NamesAssumption DEF CardInv, JobInv, TypeOK
\* A step of another request that leaves the row alone.
<1>1. ASSUME pc[v] = "settle", pc'[v] = "settle" => job'[v] = job[v],
             lock'[q] = lock[q], pay'[q] = pay[q]
      PROVE  CardSettling(v)'
  <2>1. ASSUME NEW w \in Workers, SettleCommit(w), job[w].pay = q PROVE pc'[v] # "settle"
    <3>1. w = v
      BY <1>0, <1>1, <2>1 DEF CardSettling, CardInv, SettleCommit
    <3> QED
      BY <2>1, <3>1 DEF SettleCommit, Goto, CardInv, JobInv, TypeOK
  <2>2. pc'[v] = "settle" /\ item[q] = "cancelled" => item'[q] = "cancelled"
    BY <1>0, <2>1, CancelledStays
  <2> QED
    BY <1>0, <1>1, <2>2 DEF CardSettling
<1>2. ASSUME pc[v] # "settle", UNCHANGED pc PROVE CardSettling(v)'
  BY <1>2 DEF CardSettling
<1>3. ASSUME NEW w \in Workers, NEW step, Goto(w, step), step # "settle"
      PROVE  /\ pc'[v] = "settle" => v # w /\ pc[v] = "settle" /\ job'[v] = job[v]
             /\ pc[v] # "settle" => CardSettling(v)'
  BY <1>3 DEF Goto, CardInv, JobInv, TypeOK, CardSettling
<1>4. ASSUME NEW p \in Payments, Open(p) PROVE CardSettling(v)'
  <2>1. CASE pc[v] = "settle"
    <3>1. p # q
      BY <1>4, <2>1, WorkOpened DEF Open
    <3> QED
      BY <1>0, <1>1, <1>4, <2>1, <3>1 DEF Open, CardInv, JobInv, TypeOK
  <2> QED
    BY <1>2, <1>4, <2>1 DEF Open
<1>5. ASSUME NEW w \in Workers, NEW n \in notices, SettleBegin(w, n) PROVE CardSettling(v)'
  <2>1. n.pay \in Payments /\ pay[n.pay].status # "new"
    BY DEF CardInv, JobInv, TypeOK, Notice
  <2>2. ~pay[n.pay].settled => item[n.pay] \in {"pending", "cancelled"}
    <3>1. CardPayment(n.pay)
      BY <2>1 DEF CardInv
    <3> QED
      BY <2>1, <3>1 DEF CardPayment
  <2>3. CASE v = w
    BY <1>5, <2>1, <2>2, <2>3 DEF SettleBegin, Begin, CardInv, JobInv, TypeOK, CardSettling
  <2>4. CASE v # w
    <3>1. pc'[v] = pc[v] /\ job'[v] = job[v] /\ UNCHANGED pay
      BY <1>5, <2>4 DEF SettleBegin, Begin, CardInv, JobInv, TypeOK
    <3>2. pc[v] = "settle" => n.pay # q
      BY <1>0, <1>5 DEF SettleBegin, CardSettling
    <3>3. pc[v] = "settle" => lock'[q] = lock[q]
      BY <1>0, <1>5, <2>1, <3>2 DEF SettleBegin, CardInv, JobInv, TypeOK
    <3> QED
      BY <1>1, <3>1, <3>3 DEF CardSettling
  <2> QED
    BY <2>3, <2>4
<1>6. ASSUME NEW w \in Workers, NEW n \in notices, DeclineBegin(w, n) \/ IpnRead(w, n)
      PROVE  CardSettling(v)'
  <2>1. UNCHANGED <<pay, lock>> /\ pc[w] = "idle" /\ pc'[w] # "settle"
    BY <1>6 DEF DeclineBegin, IpnRead, Begin, CardInv, JobInv, TypeOK
  <2>2. v # w => pc'[v] = pc[v] /\ job'[v] = job[v]
    BY <1>6 DEF DeclineBegin, IpnRead, Begin, CardInv, JobInv, TypeOK
  <2> QED
    BY <1>1, <2>1, <2>2 DEF CardSettling
<1>7. ASSUME NEW w \in Workers, SettleCommit(w) PROVE CardSettling(v)'
  <2>1. \E step : Goto(w, step) /\ step # "settle"
    BY <1>7 DEF SettleCommit
  <2>2. CASE pc'[v] = "settle"
    <3>1. v # w /\ pc[v] = "settle" /\ job'[v] = job[v]
      BY <1>3, <2>1, <2>2
    <3>2. lock[q] = v /\ lock[job[w].pay] = w
      BY <1>0, <1>7, <3>1 DEF SettleCommit, CardSettling, CardInv
    <3>3. lock'[q] = lock[q] /\ pay'[q] = pay[q]
      BY <1>0, <1>7, <3>1, <3>2 DEF SettleCommit, CardInv, JobInv, TypeOK
    <3> QED
      BY <1>1, <3>1, <3>3
  <2> QED
    BY <2>2 DEF CardSettling
<1>8. ASSUME NEW w \in Workers, DeclineSave(w) PROVE CardSettling(v)'
  <2>1. \E step : Goto(w, step) /\ step # "settle"
    BY <1>8 DEF DeclineSave
  <2>2. CASE pc'[v] = "settle"
    <3>1. v # w /\ pc[v] = "settle" /\ job'[v] = job[v]
      BY <1>3, <2>1, <2>2
    <3>2. q # job[w].pay
      BY <1>0, <1>8, <3>1 DEF DeclineSave, CardSettling
    <3> QED
      BY <1>0, <1>1, <1>8, <3>1, <3>2 DEF DeclineSave, CardInv, JobInv, TypeOK
  <2> QED
    BY <2>2 DEF CardSettling
<1>9. ASSUME NEW w \in Workers, OnCommit(w) \/ ReleaseSeat(w) \/ IpnItem(w) \/ IpnClose(w)
      PROVE  CardSettling(v)'
  <2>1. UNCHANGED <<pay, lock>> /\ \E step : Goto(w, step) /\ step # "settle"
    BY <1>9 DEF OnCommit, ReleaseSeat, IpnItem, IpnClose
  <2> QED
    BY <1>1, <1>3, <2>1 DEF CardSettling
<1>10. ASSUME NEW w \in Workers, IpnSave(w) PROVE FALSE
  BY <1>10, NoIpn DEF IpnSave, Ipn
<1>11. ASSUME NEW w \in Workers, Crash(w) PROVE CardSettling(v)'
  <2>1. CASE pc'[v] = "settle"
    <3>1. v # w /\ pc[v] = "settle" /\ job'[v] = job[v]
      BY <1>3, <1>11, <2>1 DEF Crash
    <3>2. lock'[q] = lock[q] /\ UNCHANGED pay
      BY <1>0, <1>11, <3>1 DEF Crash, CardSettling
    <3> QED
      BY <1>1, <3>1, <3>2
  <2> QED
    BY <2>1 DEF CardSettling
<1>12. ASSUME UNCHANGED <<pay, lock, pc, job>> PROVE CardSettling(v)'
  BY <1>1, <1>2, <1>12
<1> QED
  BY NextCases, <1>4, <1>5, <1>6, <1>7, <1>8, <1>9, <1>10, <1>11, <1>12
     DEF vars, OneRow, OpenFails, SettleByHand, Sweep, CreditNow, GrowOld, ExpireHold, Announce

\* A card payment that settled stays settled.
LEMMA CardStaysSettled ==
  ASSUME CardInv, [Next]_vars, NEW p \in Payments, pay[p].settled
  PROVE  pay'[p].settled
<1>1. ASSUME NEW q \in Payments, Open(q) PROVE pay'[p].settled
  BY <1>1 DEF Open, CardInv, JobInv, TypeOK, PayRow
<1>2. ASSUME NEW w \in Workers, SettleCommit(w) PROVE pay'[p].settled
  BY <1>2, CardSettles DEF SettleCommit, CardInv, JobInv, TypeOK
<1>3. ASSUME NEW w \in Workers, DeclineSave(w) PROVE pay'[p].settled
  BY <1>3 DEF DeclineSave, CardInv, JobInv, TypeOK, PayRow
<1>4. ASSUME NEW w \in Workers, IpnSave(w) PROVE FALSE
  BY <1>4, NoIpn DEF IpnSave, Ipn
<1> QED
  BY NextCases, <1>1, <1>2, <1>3, <1>4
     DEF vars, OneRow, OpenFails, SettleByHand, Sweep, CreditNow, GrowOld, ExpireHold, Announce,
         SettleBegin, DeclineBegin,
         IpnRead, OnCommit, ReleaseSeat, IpnItem, IpnClose, Crash

\* The hook of a settlement runs for a payment that settled.
LEMMA CardHooks ==
  ASSUME CardInv, [Next]_vars, NEW v \in Workers, pc'[v] = "hook"
  PROVE  pay'[job'[v].pay].settled
<1>1. job[v].pay \in Payments
  BY DEF CardInv, JobInv, TypeOK
<1>2. ASSUME pc[v] = "hook", job'[v] = job[v] PROVE pay'[job'[v].pay].settled
  BY <1>1, <1>2, CardStaysSettled DEF CardInv
<1>3. ASSUME NEW w \in Workers, NEW n \in notices,
             SettleBegin(w, n) \/ DeclineBegin(w, n) \/ IpnRead(w, n)
      PROVE  pc[v] = "hook" /\ job'[v] = job[v]
  BY <1>3 DEF SettleBegin, DeclineBegin, IpnRead, Begin, CardInv, JobInv, TypeOK
<1>4. ASSUME NEW w \in Workers, SettleCommit(w) PROVE pay'[job'[v].pay].settled
  <2>1. CASE v = w
    <3>1. job'[v] = job[v] /\ SettledRow(job[w].row, job[w].amount).settled
      BY <1>4, <2>1 DEF SettleCommit, Goto, CardInv, JobInv, TypeOK
    <3> QED
      BY <1>1, <1>4, <2>1, <3>1 DEF SettleCommit, CardInv, JobInv, TypeOK
  <2>2. CASE v # w
    BY <1>2, <1>4, <2>2 DEF SettleCommit, Goto, CardInv, JobInv, TypeOK
  <2> QED
    BY <2>1, <2>2
<1>5. ASSUME NEW w \in Workers,
             \/ OnCommit(w) \/ DeclineSave(w) \/ ReleaseSeat(w) \/ IpnItem(w) \/ IpnClose(w)
             \/ IpnSave(w) \/ Crash(w)
      PROVE  pc[v] = "hook" /\ job'[v] = job[v]
  <2>1. \E step \in Steps \ {"hook"} : Goto(w, step)
    BY <1>5 DEF OnCommit, DeclineSave, ReleaseSeat, IpnItem, IpnClose, IpnSave, Crash, Steps
  <2> QED
    BY <2>1 DEF Goto, CardInv, JobInv, TypeOK
<1> QED
  BY NextCases, <1>2, <1>3, <1>4, <1>5
     DEF vars, OneRow, Open, OpenFails, SettleByHand, Sweep, CreditNow, GrowOld, ExpireHold,
         Announce

LEMMA CardStart == Init => CardInv
<1> SUFFICES ASSUME Init PROVE CardInv
  OBVIOUS
<1>1. JobInv
  BY JobStart
<1>2. \A p \in Payments : CardPayment(p)
  BY DEF Init, CardPayment, NewRow, TopUps
<1>3. \A p \in Payments : CardStatus(p)
  BY DEF Init, CardStatus, NewRow
<1> QED
  BY <1>1, <1>2, <1>3 DEF Init, CardInv, CardSettling

LEMMA CardStep == CryptoPayments = {} => (CardInv /\ [Next]_vars => CardInv')
<1> SUFFICES ASSUME CryptoPayments = {}, CardInv, [Next]_vars PROVE CardInv'
  OBVIOUS
<1>1. JobInv'
  BY JobStep DEF CardInv
<1> QED
  BY <1>1, CardNotices, CardPayments, CardStatuses, CardSettlements, CardHooks DEF CardInv

\* For any number of card payments: once the shop has accepted the money the order
\* is on its way or delivered, whatever is repeated, interrupted or swept, unless
\* it holds a coupon seat and its card was declined or its payment is over 26 hours
\* old (payments/services.py, settle_payment; coupons, expire_coupon_holds).
THEOREM CardSaleNeverLost == ASSUME CryptoPayments = {} PROVE Spec => []SaleNeverLost
<1>1. CardInv => SaleNeverLost
  BY PaymentsAssumption DEF CardInv, CardPayment, SaleNeverLost
<1>2. CardInv /\ [Next]_vars => CardInv'
  BY CardStep
<1> QED
  BY <1>1, <1>2, CardStart, PTL DEF Spec

\* A top-up paid by card is credited once, however many notices, workers and
\* operators credit it (wallet/services.py, credit_topup).
THEOREM CardCreditedOnce == ASSUME CryptoPayments = {} PROVE Spec => []CreditedOnce
<1>1. CardInv => CreditedOnce
  BY DEF CardInv, CardPayment, CreditedOnce, TopUps
<1>2. CardInv /\ [Next]_vars => CardInv'
  BY CardStep
<1> QED
  BY <1>1, <1>2, CardStart, PTL DEF Spec
-----------------------------------------------------------------------------
(* Card payments implement the promise: each step funds, settles or hands  *)
(* over one payment, or changes nothing the promise speaks of.             *)

promised == <<Funded, Settled, Handed>>

LEMMA PromiseStart == Init => Promise!Init
<1> SUFFICES ASSUME Init PROVE Promise!Init
  OBVIOUS
<1>1. Funded = {}
  BY DEF Init, Funded
<1>2. Settled = {}
  BY DEF Init, Settled, NewRow
<1>3. Handed = [p \in Payments |-> 0]
  BY DEF Init, Handed
<1> QED
  BY <1>1, <1>2, <1>3 DEF Promise!Init

\* A notice funds at most the payment it is about.
LEMMA NoticeFunds ==
  ASSUME NEW p \in Payments, NEW kind, NEW amount, UNCHANGED <<pay, item, credits>>,
         notices' = notices \union {[pay |-> p, kind |-> kind, amount |-> amount]}
  PROVE  Promise!Fund(p) \/ UNCHANGED promised
<1>1. UNCHANGED <<Settled, Handed>>
  BY DEF Settled, Handed
<1>2. Funded' \in {Funded, Funded \union {p}}
  <2>1. \A q \in Payments : q \in Funded => q \in Funded'
    BY DEF Funded
  <2>2. \A q \in Payments : q \in Funded' => q \in Funded \/ q = p
    BY DEF Funded
  <2>3. Funded \subseteq Payments /\ Funded' \subseteq Payments
    BY DEF Funded
  <2>4. CASE p \in Funded'
    BY <2>1, <2>2, <2>3, <2>4
  <2>5. CASE p \notin Funded'
    BY <2>1, <2>2, <2>3, <2>5
  <2> QED
    BY <2>4, <2>5
<1>3. CASE Funded' = Funded
  BY <1>1, <1>3 DEF promised
<1>4. CASE Funded' # Funded
  BY <1>1, <1>2, <1>4 DEF Promise!Fund
<1> QED
  BY <1>3, <1>4

\* A credit hands over what was settled, and for the first time.
LEMMA CreditHands ==
  ASSUME CardInv, NEW p \in TopUps, pay[p].settled, Credit(p), UNCHANGED <<pay, notices>>
  PROVE  Promise!HandOver(p) \/ UNCHANGED promised
<1>1. p \in Payments /\ p \notin OrderPayments /\ credits[p] \in Seq(Nat) /\ CardPayment(p)
  BY DEF TopUps, CardInv, JobInv, TypeOK
<1>2. UNCHANGED <<Funded, Settled>>
  BY DEF Funded, Settled
<1>3. CASE item[p] = "credited"
  BY <1>2, <1>3 DEF Credit, Handed, promised
<1>4. CASE item[p] # "credited"
  <2>1. Len(credits[p]) = 0 /\ credits' = [credits EXCEPT
              ![p] = Append(@, Larger(Invoice, Arrived(pay[p])) + Bonus)]
    BY <1>1, <1>4 DEF Credit, CardPayment
  <2>2. Handed[p] = 0 /\ Len(credits'[p]) = 1
    BY <1>1, <2>1 DEF Handed, CardInv, JobInv, TypeOK
  <2>3. \A q \in OrderPayments : item'[q] = item[q]
    BY <1>1, <1>4, PaymentsAssumption DEF Credit, CardInv, JobInv, TypeOK
  <2>4. Handed' = [Handed EXCEPT ![p] = 1]
    BY <1>1, <2>1, <2>2, <2>3 DEF Handed, CardInv, JobInv, TypeOK
  <2> QED
    BY <1>1, <1>2, <2>2, <2>4 DEF Promise!HandOver, Settled
<1> QED
  BY <1>3, <1>4

\* Delivering hands over an order that is paid for.
LEMMA FulfilHands ==
  ASSUME CardInv, NEW p \in OrderPayments, Fulfil(p), UNCHANGED <<pay, notices, credits>>
  PROVE  Promise!HandOver(p) \/ UNCHANGED promised
<1>1. p \in Payments /\ CardPayment(p)
  BY PaymentsAssumption DEF CardInv
<1>2. UNCHANGED <<Funded, Settled>>
  BY DEF Funded, Settled
<1>3. CASE item[p] # "paid"
  BY <1>2, <1>3 DEF Fulfil, Handed, promised
<1>4. CASE item[p] = "paid"
  <2>1. item' = [item EXCEPT ![p] = "completed"] /\ Handed[p] = 0
    BY <1>1, <1>4 DEF Fulfil, Handed
  <2>2. Handed' = [Handed EXCEPT ![p] = 1]
    BY <1>1, <2>1 DEF Handed, CardInv, JobInv, TypeOK
  <2> QED
    BY <1>1, <1>2, <1>4, <2>1, <2>2 DEF Promise!HandOver, Settled, CardPayment
<1> QED
  BY <1>3, <1>4

\* A commit settles one payment, which is funded, or none.
LEMMA CommitSettles ==
  ASSUME CardInv, NEW w \in Workers, SettleCommit(w)
  PROVE  Promise!Settle(job[w].pay) \/ UNCHANGED promised
<1> DEFINE p == job[w].pay
           new == SettledRow(job[w].row, job[w].amount)
<1>1. /\ p \in Payments /\ pay' = [pay EXCEPT ![p] = new] /\ UNCHANGED <<credits, notices>>
      /\ pc[w] = "settle" /\ CardPayment(p)
  BY WorkOpened DEF SettleCommit, CardInv
<1>2. /\ pay[p].settled => new.settled
      /\ ~pay[p].settled => item[p] \in {"pending", "cancelled"}
      /\ ~pay[p].settled => item' = IF ~new.settled THEN item
              ELSE [item EXCEPT ![p] = IF job[w].seen = "pending" THEN "paid" ELSE @]
      /\ pay[p].settled => UNCHANGED item
  BY CardSettles
<1>3. \A q \in Payments : item'[q] = "completed" <=> item[q] = "completed"
  BY <1>1, <1>2 DEF CardInv, JobInv, TypeOK
<1>4. UNCHANGED Funded
  BY <1>1 DEF Funded
<1>5. UNCHANGED Handed
  BY <1>1, <1>3 DEF Handed
<1>6. pay'[p] = new /\ \A q \in Payments \ {p} : pay'[q] = pay[q]
  BY <1>1 DEF CardInv, JobInv, TypeOK
<1>7. CASE new.settled /\ ~pay[p].settled
  <2>1. p \in Funded
    BY <1>1, <1>7, SettledRowVouched DEF CardInv, RowVouched
  <2>2. Settled' = Settled \union {p} /\ p \notin Settled
    BY <1>1, <1>6, <1>7 DEF Settled
  <2> QED
    BY <1>4, <1>5, <2>1, <2>2 DEF Promise!Settle
<1>8. CASE ~(new.settled /\ ~pay[p].settled)
  <2>1. Settled' = Settled
    BY <1>1, <1>2, <1>6, <1>8 DEF Settled
  <2> QED
    BY <1>4, <1>5, <2>1 DEF promised
<1> QED
  BY <1>7, <1>8

\* A step of the payments is a step of the promise, or none at all.
LEMMA PromiseStep ==
  ASSUME CardInv, [Next]_vars
  PROVE  [Promise!Next]_promised
<1>1. ASSUME NEW p \in Payments, Promise!Fund(p) \/ Promise!Settle(p) \/ Promise!HandOver(p)
      PROVE  Promise!Next
  BY <1>1 DEF Promise!Next
<1>2. ASSUME NEW p \in Payments, Open(p) PROVE UNCHANGED promised
  <2>1. UNCHANGED <<Funded, Handed>>
    BY <1>2 DEF Open, Funded, Handed
  <2>2. \A q \in Payments : pay'[q].settled = pay[q].settled
    BY <1>2 DEF Open, CardInv, JobInv, TypeOK, PayRow
  <2> QED
    BY <2>1, <2>2 DEF Settled, promised
<1>3. ASSUME NEW p \in Payments, OpenFails(p) PROVE UNCHANGED promised
  <2>1. \A q \in OrderPayments : item'[q] = "completed" <=> item[q] = "completed"
    BY <1>3, PaymentsAssumption DEF OpenFails, CardInv, JobInv, TypeOK
  <2> QED
    BY <1>3, <2>1 DEF OpenFails, Funded, Settled, Handed, promised
<1>4. ASSUME NEW p \in Payments, SettleByHand(p) PROVE [Promise!Next]_promised
  BY <1>1, <1>4, NoticeFunds DEF SettleByHand
<1>5. ASSUME NEW p \in Payments, NEW kind \in Kinds, NEW amount \in Sums \union {Unreported},
             Announce(p, kind, amount)
      PROVE  [Promise!Next]_promised
  BY <1>1, <1>5, NoticeFunds DEF Announce
<1>6. ASSUME NEW p \in Payments, Sweep(p) PROVE [Promise!Next]_promised
  BY <1>1, <1>6, FulfilHands DEF Sweep
<1>7. ASSUME NEW p \in Payments, CreditNow(p) PROVE [Promise!Next]_promised
  BY <1>1, <1>7, CreditHands DEF CreditNow, CardInv, CardPayment
<1>8. ASSUME NEW w \in Workers, SettleCommit(w) PROVE [Promise!Next]_promised
  BY <1>1, <1>8, CommitSettles, WorkOpened DEF SettleCommit
<1>9. ASSUME NEW w \in Workers, OnCommit(w) PROVE [Promise!Next]_promised
  <2>1. job[w].pay \in Payments /\ pay[job[w].pay].settled
    BY <1>9, WorkOpened DEF OnCommit, CardInv
  <2>2. CASE UNCHANGED <<item, credits>>
    BY <1>9, <2>2 DEF OnCommit, Funded, Settled, Handed, promised
  <2>3. CASE job[w].pay \in OrderPayments /\ Fulfil(job[w].pay) /\ UNCHANGED credits
    BY <1>1, <1>9, <2>1, <2>3, FulfilHands DEF OnCommit
  <2>4. CASE job[w].pay \in TopUps /\ Credit(job[w].pay)
    BY <1>1, <1>9, <2>1, <2>4, CreditHands DEF OnCommit
  <2> QED
    BY <1>9, <2>2, <2>3, <2>4 DEF OnCommit
<1>10. ASSUME NEW w \in Workers, DeclineSave(w) PROVE UNCHANGED promised
  <2>1. UNCHANGED <<Funded, Handed>>
    BY <1>10 DEF DeclineSave, Funded, Handed
  <2>2. \A q \in Payments : pay'[q].settled = pay[q].settled
    BY <1>10 DEF DeclineSave, CardInv, JobInv, TypeOK, PayRow
  <2> QED
    BY <2>1, <2>2 DEF Settled, promised
<1>11. ASSUME NEW w \in Workers, IpnClose(w) \/ IpnSave(w) PROVE FALSE
  BY <1>11, NoIpn DEF IpnClose, IpnSave, Ipn
<1>12. ASSUME UNCHANGED <<pay, item, credits, notices>> PROVE UNCHANGED promised
  BY <1>12 DEF Funded, Settled, Handed, promised
<1>13. ASSUME NEW p \in Payments, ExpireHold(p) PROVE UNCHANGED promised
  <2>1. \A q \in OrderPayments : item'[q] = "completed" <=> item[q] = "completed"
    BY <1>13, PaymentsAssumption DEF ExpireHold, CardInv, JobInv, TypeOK
  <2> QED
    BY <1>13, <2>1 DEF ExpireHold, Funded, Settled, Handed, promised
<1> QED
  BY NextCases, <1>2, <1>3, <1>4, <1>5, <1>6, <1>7, <1>8, <1>9, <1>10, <1>11, <1>12, <1>13
     DEF vars, OneRow, GrowOld, SettleBegin, DeclineBegin, IpnRead, ReleaseSeat, IpnItem, Crash

\* Card payments, with the operator's settlements and credits by hand among them,
\* do what SalePromise says: funded, settled once, handed over once.
THEOREM CardsKeepThePromise == ASSUME CryptoPayments = {} PROVE Spec => PromiseKept
<1>1. CardInv /\ [Next]_vars => CardInv'
  BY CardStep
<1>2. CardInv /\ [Next]_vars => [Promise!Next]_promised
  BY PromiseStep
<1> QED
  BY <1>1, <1>2, CardStart, PromiseStart, PTL DEF Spec, PromiseKept, Promise!Spec, promised
=============================================================================
