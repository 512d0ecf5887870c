---------------------------- MODULE CouponProofs ----------------------------
(***************************************************************************)
(* Seats of a coupon for any number of orders, customers and seats.  The   *)
(* checkout that holds the coupon row has just checked every rule, and     *)
(* until it writes its own row nobody else adds one: that is what the row  *)
(* lock of redeem() buys, and the invariant says it.                       *)
(***************************************************************************)
EXTENDS Coupons, FiniteSetTheorems, TLAPS

\* The row lock is held exactly while a checkout is about to write.
LockHeld == \A o \in Orders : pc[o] = "burn" <=> lock = o

\* What redeem() checked under the lock still holds when it writes.
Room ==
    \A o \in Orders :
        pc[o] = "burn" =>
            /\ counter < Cap
            /\ OncePerCustomer => \A x \in seats : Person[x] # Person[o]

\* An order has no seat before its checkout wrote one.
NotYet ==
    \A o \in seats : pc[o] \notin {"validate", "create", "redeem", "refused", "burn"}

SeatInv == LockHeld /\ Room /\ NotYet /\ SeatPerCustomer

\* The steps that leave the seats and everything about them alone.
Aside(o) ==
    \/ Validate(o) \/ Create(o) \/ FullPrice(o) \/ OpenSession(o) \/ PayBalance(o)
    \/ PayFails(o) \/ Fail(o) \/ SettleRead(o) \/ SettleWrite(o) \/ Decline(o)
    \/ DeadRead(o) \/ DeadClose(o) \/ DeadSave(o) \/ Grow(o) \/ SweepPick(o)

\* Every step, sorted by what it does to the seats.
LEMMA NextCases ==
  ASSUME Next
  PROVE  \/ \E o \in Orders : \/ Aside(o) \/ RedeemLock(o) \/ Burn(o) \/ CheckoutRelease(o)
                              \/ NoticeRelease(o) \/ Crash(o)
         \/ SweepExpire \/ EditLoad \/ EditSave \/ Expire
BY DEF Next, Checkout, Notices, Aside

LEMMA InitTypes == Init => TypeOK
BY BoundsAssumption DEF Init, TypeOK

\* Steps that move no seat keep the types, one handler at a time.
LEMMA AsideTypes ==
  ASSUME TypeOK, NEW o \in Orders, Aside(o)
  PROVE  TypeOK'
<1>1. CASE Validate(o)
  BY <1>1 DEF Validate, Step, TypeOK
<1>2. CASE Create(o)
  BY <1>2 DEF Create, Step, TypeOK
<1>3. CASE FullPrice(o)
  BY <1>3 DEF FullPrice, Step, TypeOK
<1>4. CASE OpenSession(o)
  BY <1>4 DEF OpenSession, Step, TypeOK
<1>5. CASE PayBalance(o)
  BY <1>5 DEF PayBalance, Step, TypeOK
<1>6. CASE PayFails(o)
  BY <1>6 DEF PayFails, Step, TypeOK
<1>7. CASE Fail(o)
  BY <1>7 DEF Fail, Step, TypeOK
<1>8. CASE SettleRead(o)
  BY <1>8 DEF SettleRead, Note, TypeOK
<1>9. CASE SettleWrite(o)
  BY <1>9 DEF SettleWrite, Note, Late, TypeOK
<1>10. CASE Decline(o)
  BY <1>10 DEF Decline, Note, TypeOK
<1>11. CASE DeadRead(o)
  BY <1>11 DEF DeadRead, Note, TypeOK
<1>12. CASE DeadClose(o)
  BY <1>12 DEF DeadClose, Note, TypeOK
<1>13. CASE DeadSave(o)
  BY <1>13 DEF DeadSave, Note, TypeOK
<1>14. CASE Grow(o)
  BY <1>14 DEF Grow, TypeOK
<1>15. CASE SweepPick(o)
  BY <1>15 DEF SweepPick, TypeOK
<1>16. QED
  BY <1>1, <1>2, <1>3, <1>4, <1>5, <1>6, <1>7, <1>8, <1>9, <1>10, <1>11, <1>12,
     <1>13, <1>14, <1>15 DEF Aside

\* A release leaves the counter a number: it stops at zero.
LEMMA HandBackTypes ==
  ASSUME counter \in Nat, seats \subseteq Orders, NEW o \in Orders, HandBack(o)
  PROVE  counter' \in Nat /\ seats' \subseteq seats /\ seats' \subseteq Orders
BY DEF HandBack

LEMMA TypeStep == TypeOK /\ [Next]_vars => TypeOK'
<1> SUFFICES ASSUME TypeOK, [Next]_vars PROVE TypeOK'
  OBVIOUS
<1>1. ASSUME NEW o \in Orders, Aside(o) PROVE TypeOK'
  BY <1>1, AsideTypes
<1>2. ASSUME NEW o \in Orders, RedeemLock(o) PROVE TypeOK'
  BY <1>2 DEF RedeemLock, Step, TypeOK
<1>3. ASSUME NEW o \in Orders, Burn(o) PROVE TypeOK'
  BY <1>3 DEF Burn, Step, TypeOK
<1>4. ASSUME NEW o \in Orders, CheckoutRelease(o) PROVE TypeOK'
  <2>1. counter' \in Nat /\ seats' \subseteq Orders
    BY <1>4, HandBackTypes DEF CheckoutRelease, TypeOK
  <2>2. pc' \in [Orders -> {"validate", "create", "redeem", "burn", "refused", "pay",
                            "look", "handback", "fail", "done"}]
    BY <1>4 DEF CheckoutRelease, Step, TypeOK
  <2>3. QED
    BY <1>4, <2>1, <2>2 DEF CheckoutRelease, TypeOK
<1>5. ASSUME NEW o \in Orders, NoticeRelease(o) PROVE TypeOK'
  <2>1. counter' \in Nat /\ seats' \subseteq Orders
    BY <1>5, HandBackTypes DEF NoticeRelease, TypeOK
  <2>2. notice' \in [Orders -> {"idle", "settle", "close", "look", "handback", "save"}]
    BY <1>5 DEF NoticeRelease, Note, Released, TypeOK
  <2>3. QED
    BY <1>5, <2>1, <2>2 DEF NoticeRelease, TypeOK
<1>6. ASSUME NEW o \in Orders, Crash(o) PROVE TypeOK'
  BY <1>6, BoundsAssumption DEF Crash, Step, Note, TypeOK
<1>7. CASE SweepExpire
  <2>1. cron \in Orders
    BY <1>7 DEF SweepExpire, TypeOK
  <2>2. counter' \in Nat /\ seats' \subseteq Orders
    BY <1>7, <2>1, HandBackTypes DEF SweepExpire, TypeOK
  <2>3. QED
    BY <1>7, <2>1, <2>2 DEF SweepExpire, TypeOK
<1>8. CASE EditLoad
  BY <1>8 DEF EditLoad, TypeOK
<1>9. CASE EditSave
  BY <1>9 DEF EditSave, TypeOK
<1>10. CASE Expire
  BY <1>10 DEF Expire, TypeOK
<1>11. CASE UNCHANGED vars
  BY <1>11 DEF vars, TypeOK
<1>12. QED
  BY <1>1, <1>2, <1>3, <1>4, <1>5, <1>6, <1>7, <1>8, <1>9, <1>10, <1>11, NextCases

\* The coupon's variables keep their types, for any orders and any cap.
THEOREM CouponTypes == Spec => []TypeOK
BY InitTypes, TypeStep, PTL DEF Spec
-----------------------------------------------------------------------------
LEMMA InitSeats == Init => SeatInv
BY BoundsAssumption DEF Init, SeatInv, LockHeld, Room, NotYet, SeatPerCustomer

\* A handler that touches neither the seats nor the lock, and whose checkout
\* was not about to write, disturbs nothing.
LEMMA AsideSeats ==
  ASSUME TypeOK, SeatInv, NEW o \in Orders, Aside(o)
  PROVE  SeatInv'
<1>1. counter' = counter /\ seats' = seats /\ lock' = lock
  BY DEF Aside, Validate, Create, FullPrice, OpenSession, PayBalance, PayFails, Fail,
         SettleRead, SettleWrite, Decline, DeadRead, DeadClose, DeadSave, Grow, SweepPick
<1>2. \A x \in Orders : pc'[x] = pc[x] \/ (pc[x] # "burn" /\ pc'[x] # "burn")
  BY DEF Aside, Validate, Create, FullPrice, OpenSession, PayBalance, PayFails, Fail, Step,
         SettleRead, SettleWrite, Decline, DeadRead, DeadClose, DeadSave, Grow, SweepPick, TypeOK
<1>3. \A x \in Orders : pc'[x] = pc[x]
                         \/ pc[x] \in {"validate", "create", "refused"}
                         \/ pc'[x] \in {"done", "look", "fail"}
  BY DEF Aside, Validate, Create, FullPrice, OpenSession, PayBalance, PayFails, Fail, Step,
         SettleRead, SettleWrite, Decline, DeadRead, DeadClose, DeadSave, Grow, SweepPick, TypeOK
<1>4. LockHeld' /\ Room' /\ SeatPerCustomer'
  BY <1>1, <1>2 DEF SeatInv, LockHeld, Room, SeatPerCustomer
<1>5. NotYet'
  BY <1>1, <1>3 DEF SeatInv, NotYet, TypeOK
<1>6. QED
  BY <1>4, <1>5 DEF SeatInv

\* Seats that are given back while nobody holds the row disturb nothing.
LEMMA FewerSeats ==
  ASSUME TypeOK, SeatInv, lock = NoOne, lock' = NoOne, seats' \subseteq seats,
         \A x \in Orders : pc'[x] = pc[x] \/ pc'[x] \in {"handback", "fail"}
  PROVE  SeatInv'
<1>1. \A x \in Orders : pc[x] # "burn" /\ pc'[x] # "burn"
  BY BoundsAssumption DEF SeatInv, LockHeld
<1>2. LockHeld' /\ Room'
  BY <1>1, BoundsAssumption DEF LockHeld, Room
<1>3. NotYet' /\ SeatPerCustomer'
  BY DEF SeatInv, NotYet, SeatPerCustomer, TypeOK
<1>4. QED
  BY <1>2, <1>3 DEF SeatInv

LEMMA SeatStep == TypeOK /\ SeatInv /\ [Next]_vars => SeatInv'
<1> SUFFICES ASSUME TypeOK, SeatInv, [Next]_vars PROVE SeatInv'
  OBVIOUS
<1>1. ASSUME NEW o \in Orders, Aside(o) PROVE SeatInv'
  BY <1>1, AsideSeats
<1>2. ASSUME NEW o \in Orders, RedeemLock(o) PROVE SeatInv'
  <2>1. \A x \in Orders : pc[x] # "burn"
    BY <1>2, BoundsAssumption DEF RedeemLock, SeatInv, LockHeld
  <2>2. LockHeld'
    BY <1>2, <2>1, BoundsAssumption DEF RedeemLock, Step, LockHeld, TypeOK
  <2>3. Room'
    BY <1>2, <2>1 DEF RedeemLock, Step, Spendable, Room, TypeOK
  <2>4. NotYet' /\ SeatPerCustomer'
    BY <1>2 DEF RedeemLock, Step, SeatInv, NotYet, SeatPerCustomer, TypeOK
  <2>5. QED
    BY <2>2, <2>3, <2>4 DEF SeatInv
<1>3. ASSUME NEW o \in Orders, Burn(o) PROVE SeatInv'
  <2>1. pc[o] = "burn" /\ lock = o /\ lock' = NoOne /\ seats' = seats \union {o}
    BY <1>3 DEF Burn, SeatInv, LockHeld
  <2>2. \A x \in Orders : pc'[x] # "burn"
    BY <1>3, <2>1 DEF Burn, Step, SeatInv, LockHeld, TypeOK
  <2>3. LockHeld' /\ Room'
    BY <2>1, <2>2, BoundsAssumption DEF LockHeld, Room
  <2>4. NotYet'
    BY <1>3, <2>1 DEF Burn, Step, SeatInv, NotYet, TypeOK
  <2>5. SeatPerCustomer'
    BY <2>1 DEF SeatInv, Room, SeatPerCustomer
  <2>6. QED
    BY <2>3, <2>4, <2>5 DEF SeatInv
<1>4. ASSUME NEW o \in Orders, CheckoutRelease(o) PROVE SeatInv'
  <2>1. CASE pc[o] = "look"
    <3>1. seats' = seats /\ counter' = counter /\ lock' = lock
      BY <1>4, <2>1 DEF CheckoutRelease
    <3>2. \A x \in Orders : pc'[x] = pc[x] \/ (x = o /\ pc'[x] \in {"handback", "fail"})
      BY <1>4, <2>1 DEF CheckoutRelease, Step, TypeOK
    <3>3. LockHeld' /\ Room' /\ SeatPerCustomer'
      BY <2>1, <3>1, <3>2 DEF SeatInv, LockHeld, Room, SeatPerCustomer
    <3>4. NotYet'
      BY <3>1, <3>2 DEF SeatInv, NotYet, TypeOK
    <3>5. QED
      BY <3>3, <3>4 DEF SeatInv
  <2>2. CASE pc[o] = "handback"
    <3>1. lock = NoOne /\ lock' = NoOne /\ seats' \subseteq seats
      BY <1>4, <2>2 DEF CheckoutRelease, HandBack
    <3>2. \A x \in Orders : pc'[x] = pc[x] \/ pc'[x] \in {"handback", "fail"}
      BY <1>4, <2>2 DEF CheckoutRelease, Step, TypeOK
    <3>3. QED
      BY <3>1, <3>2, FewerSeats
  <2>3. QED
    BY <1>4, <2>1, <2>2 DEF CheckoutRelease
<1>5. ASSUME NEW o \in Orders, NoticeRelease(o) PROVE SeatInv'
  <2>1. CASE notice[o] = "look"
    BY <1>5, <2>1 DEF NoticeRelease, SeatInv, LockHeld, Room, NotYet, SeatPerCustomer
  <2>2. CASE notice[o] = "handback"
    <3>1. lock = NoOne /\ lock' = NoOne /\ seats' \subseteq seats /\ pc' = pc
      BY <1>5, <2>2 DEF NoticeRelease, HandBack
    <3>2. QED
      BY <3>1, FewerSeats
  <2>3. QED
    BY <1>5, <2>1, <2>2 DEF NoticeRelease
<1>6. ASSUME NEW o \in Orders, Crash(o) PROVE SeatInv'
  <2>1. seats' = seats /\ counter' = counter
    BY <1>6 DEF Crash
  <2>2. \A x \in Orders : pc'[x] = pc[x] \/ (x = o /\ pc'[x] = "done")
    BY <1>6 DEF Crash, Step, TypeOK
  <2>3. LockHeld'
    BY <1>6, BoundsAssumption DEF Crash, Step, SeatInv, LockHeld, TypeOK
  <2>4. Room' /\ NotYet' /\ SeatPerCustomer'
    BY <2>1, <2>2 DEF SeatInv, Room, NotYet, SeatPerCustomer, TypeOK
  <2>5. QED
    BY <2>3, <2>4 DEF SeatInv
<1>7. CASE SweepExpire
  <2>1. lock = NoOne /\ lock' = NoOne /\ seats' \subseteq seats /\ pc' = pc
    BY <1>7 DEF SweepExpire, HandBack
  <2>2. QED
    BY <2>1, FewerSeats
<1>8. CASE EditLoad
  BY <1>8 DEF EditLoad, SeatInv, LockHeld, Room, NotYet, SeatPerCustomer
<1>9. CASE EditSave
  <2>1. lock = NoOne /\ lock' = NoOne /\ seats' = seats /\ pc' = pc
    BY <1>9 DEF EditSave
  <2>2. QED
    BY <2>1, FewerSeats
<1>10. CASE Expire
  BY <1>10 DEF Expire, SeatInv, LockHeld, Room, NotYet, SeatPerCustomer
<1>11. CASE UNCHANGED vars
  BY <1>11 DEF vars, SeatInv, LockHeld, Room, NotYet, SeatPerCustomer
<1>12. QED
  BY <1>1, <1>2, <1>3, <1>4, <1>5, <1>6, <1>7, <1>8, <1>9, <1>10, <1>11, NextCases

\* However the checkouts of a customer race, though validation was passed in
\* several tabs and the operator edits the code, a once-per-customer code is
\* held by one order of that customer.
THEOREM OneSeatPerCustomer == Spec => []SeatPerCustomer
<1>1. Init => TypeOK /\ SeatInv
  BY InitTypes, InitSeats
<1>2. TypeOK /\ SeatInv /\ [Next]_vars => (TypeOK /\ SeatInv)'
  BY TypeStep, SeatStep
<1>3. SeatInv => SeatPerCustomer
  BY DEF SeatInv
<1>4. QED
  BY <1>1, <1>2, <1>3, PTL DEF Spec
-----------------------------------------------------------------------------
\* What the counter needs besides: no form of the operator is open.
CountInv == TypeOK /\ SeatInv /\ CounterIsSeats /\ NeverOverClaimed /\ edit = NoOne

LEMMA SeatsFinite ==
  ASSUME TypeOK
  PROVE  IsFiniteSet(seats) /\ Cardinality(seats) \in Nat
BY OrdersAssumption, FS_Subset, FS_CardinalityType DEF TypeOK

\* A release takes off the counter exactly the row it deletes, and nothing when
\* there is none.
LEMMA HandBackCounts ==
  ASSUME TypeOK, CounterIsSeats, NEW o \in Orders, HandBack(o)
  PROVE  counter' = Cardinality(seats') /\ counter' <= counter
<1>1. IsFiniteSet(seats) /\ Cardinality(seats) \in Nat
  BY SeatsFinite
<1>2. CASE o \in seats
  <2>1. Cardinality(seats \ {o}) = Cardinality(seats) - 1
    BY <1>1, <1>2, FS_RemoveElement
  <2>2. counter > 0
    <3>1. IsFiniteSet(seats \ {o}) /\ Cardinality(seats \ {o}) \in Nat
      BY <1>1, FS_RemoveElement, FS_CardinalityType
    <3>2. QED
      BY <1>1, <2>1, <3>1 DEF CounterIsSeats
  <2>3. QED
    BY <1>1, <1>2, <2>1, <2>2 DEF HandBack, CounterIsSeats
<1>3. CASE o \notin seats
  <2>1. seats' = seats
    BY <1>3 DEF HandBack
  <2>2. counter' = counter /\ counter \in Nat
    BY <1>3 DEF HandBack, TypeOK
  <2>3. QED
    BY <2>1, <2>2 DEF CounterIsSeats
<1>4. QED
  BY <1>2, <1>3

LEMMA CountStep ==
  ASSUME ~OperatorEdits, CountInv, [Next]_vars
  PROVE  CountInv'
<1> DEFINE Counted == counter' = Cardinality(seats') /\ Cardinality(seats') <= Cap /\ edit' = NoOne
<1>1. TypeOK' /\ SeatInv'
  BY TypeStep, SeatStep DEF CountInv
<1>2. counter \in Nat /\ Cap \in Nat /\ counter <= Cap
  BY CouponAssumption DEF CountInv, TypeOK, CounterIsSeats, NeverOverClaimed
<1>3. ASSUME seats' = seats, counter' = counter, edit' = edit PROVE Counted
  BY <1>3 DEF CountInv, CounterIsSeats, NeverOverClaimed
<1>4. ASSUME NEW o \in Orders, HandBack(o), edit' = edit PROVE Counted
  <2>1. counter' = Cardinality(seats') /\ counter' <= counter
    BY <1>4, HandBackCounts DEF CountInv
  <2>2. counter' \in Nat
    BY <1>1 DEF TypeOK
  <2>3. QED
    BY <1>2, <1>4, <2>1, <2>2 DEF CountInv
<1>5. ASSUME NEW o \in Orders, Burn(o) PROVE Counted
  <2>1. o \notin seats /\ counter < Cap
    BY <1>5 DEF Burn, CountInv, SeatInv, Room, NotYet
  <2>2. IsFiniteSet(seats) /\ Cardinality(seats) \in Nat
    BY SeatsFinite DEF CountInv
  <2>3. Cardinality(seats \union {o}) = Cardinality(seats) + 1
    BY <2>1, <2>2, FS_AddElement
  <2>4. counter' = counter + 1 /\ seats' = seats \union {o} /\ edit' = edit
    BY <1>5 DEF Burn
  <2>5. QED
    BY <1>2, <2>1, <2>2, <2>3, <2>4 DEF CountInv, CounterIsSeats
<1>6. ASSUME NEW o \in Orders, Aside(o) PROVE Counted
  BY <1>3, <1>6 DEF Aside, Validate, Create, FullPrice, OpenSession, PayBalance, PayFails, Fail,
         SettleRead, SettleWrite, Decline, DeadRead, DeadClose, DeadSave, Grow, SweepPick
<1>7. ASSUME NEW o \in Orders, RedeemLock(o) \/ Crash(o) PROVE Counted
  BY <1>3, <1>7 DEF RedeemLock, Crash
<1>8. ASSUME NEW o \in Orders, CheckoutRelease(o) \/ NoticeRelease(o) PROVE Counted
  BY <1>3, <1>4, <1>8 DEF CheckoutRelease, NoticeRelease
<1>9. ASSUME SweepExpire PROVE Counted
  <2>1. cron \in Orders
    BY <1>9 DEF SweepExpire, CountInv, TypeOK
  <2>2. QED
    BY <1>3, <1>4, <1>9, <2>1 DEF SweepExpire
<1>10. ~EditLoad /\ ~EditSave
  BY DEF EditLoad, EditSave, CountInv
<1>11. ASSUME Expire PROVE Counted
  <2>1. seats' = seats /\ counter' = counter /\ edit' = edit
    BY <1>11 DEF Expire
  <2>2. QED
    BY <1>3, <2>1
<1>12. ASSUME UNCHANGED vars PROVE Counted
  <2>1. seats' = seats /\ counter' = counter /\ edit' = edit
    BY <1>12 DEF vars
  <2>2. QED
    BY <1>3, <2>1
<1>13. Counted
  <2> HIDE DEF Counted
  <2>1. QED
    BY <1>5, <1>6, <1>7, <1>8, <1>9, <1>10, <1>11, <1>12, NextCases
<1>14. QED
  BY <1>1, <1>13 DEF CountInv, CounterIsSeats, NeverOverClaimed

LEMMA InitCount == Init => CountInv
<1> SUFFICES ASSUME Init PROVE CountInv
  OBVIOUS
<1>1. counter = Cardinality(seats) /\ Cardinality(seats) <= Cap /\ edit = NoOne
  BY FS_EmptySet, CouponAssumption DEF Init
<1>2. QED
  BY <1>1, InitTypes, InitSeats DEF CountInv, CounterIsSeats, NeverOverClaimed

\* As long as nobody saves the coupon in the admin, the counter is the number
\* of seats held, whichever redemptions and releases race.
THEOREM CounterNeverDrifts ==
  ASSUME ~OperatorEdits
  PROVE  Spec => []CounterIsSeats
<1>1. CountInv /\ [Next]_vars => CountInv'
  BY CountStep
<1>2. CountInv => CounterIsSeats
  BY DEF CountInv
<1>3. QED
  BY <1>1, <1>2, InitCount, PTL DEF Spec

\* And a capped code is never held by more orders than it has seats.
THEOREM CapHolds ==
  ASSUME ~OperatorEdits
  PROVE  Spec => []NeverOverClaimed
<1>1. CountInv /\ [Next]_vars => CountInv'
  BY CountStep
<1>2. CountInv => NeverOverClaimed
  BY DEF CountInv
<1>3. QED
  BY <1>1, <1>2, InitCount, PTL DEF Spec
-----------------------------------------------------------------------------
\* While no request dies an order is handled by one party at a time: by its
\* checkout until a payment exists, then by one notice after another, and by
\* the sweeper.  A seat is held from the redemption on, and by a dead order only
\* while somebody is giving it back.
OrderInv(o) ==
    /\ pc[o] # "done" =>
        /\ attempt[o] = "none" /\ notice[o] = "idle" /\ age[o] = 0
        /\ order[o] = (IF pc[o] \in {"validate", "create"} THEN "none" ELSE "pending")
    /\ o \in seats => pc[o] \in {"pay", "look", "handback", "done"}
    /\ o \in seats /\ order[o] \in {"cancelled", "failed"} => notice[o] \in {"look", "handback"}
    /\ cron = o => pc[o] = "done"

\* What an invoice's status says of its order.  A dead one is cancelled before it
\* is saved as dead, so a settlement under way read an order that is pending or
\* that was cancelled for good -- and one that is not late, a pending order.
InvoiceStates(o) ==
    /\ attempt[o] # "declined"
    /\ attempt[o] = "live" => order[o] \in {"pending", "cancelled"}
    /\ attempt[o] = "live" /\ notice[o] = "idle" /\ age[o] < 2 => order[o] = "pending"
    /\ attempt[o] = "paid" => order[o] = "paid"
    /\ attempt[o] = "late" => order[o] \in {"paid", "cancelled"}
    /\ attempt[o] = "dead" => order[o] = "cancelled"
    /\ notice[o] = "settle" =>
        /\ attempt[o] \in {"live", "dead"} /\ order[o] \in {"pending", "cancelled"}
        /\ seen[o] = "pending" \/ (seen[o] = "cancelled" /\ order[o] = "cancelled")
        /\ ~Late(o) => seen[o] = "pending" /\ order[o] = "pending"
    /\ notice[o] \in {"close", "look", "handback", "save"} => attempt[o] = "live"
    /\ notice[o] \in {"look", "handback", "save"} => order[o] = "cancelled"

\* The sweeper waits until the payment is 26 hours old, so an order on its way to
\* being paid in time at the reduced price keeps its seat.
InvoiceSeat(o) ==
    /\ cron = o /\ attempt[o] = "live" => age[o] = 2
    /\ order[o] \in {"pending", "paid"} /\ pc[o] \in {"pay", "done"} /\ o \in discounted
            /\ attempt[o] # "late"
        => o \in seats

InvoiceInv(o) == InvoiceStates(o) /\ InvoiceSeat(o)

CalmInv ==
    /\ TypeOK
    /\ \A o \in Orders : OrderInv(o)
    /\ \A o \in Orders \ CardOrders : InvoiceInv(o)

\* The steps of an order.
Own(o) == Checkout(o) \/ Notices(o) \/ Grow(o) \/ SweepPick(o)

\* A step that is about another order, or about none.
Elsewhere(o) ==
    /\ order'[o] = order[o] /\ attempt'[o] = attempt[o] /\ age'[o] = age[o]
    /\ pc'[o] = pc[o] /\ notice'[o] = notice[o] /\ seen'[o] = seen[o]
    /\ o \in discounted' <=> o \in discounted
    /\ o \in seats' <=> o \in seats
    /\ cron' = o => cron = o

LEMMA KeptElsewhere ==
  ASSUME NEW o \in Orders, Elsewhere(o)
  PROVE  (OrderInv(o) => OrderInv(o)') /\ (InvoiceInv(o) => InvoiceInv(o)')
<1>1. OrderInv(o) => OrderInv(o)'
  BY DEF Elsewhere, OrderInv
<1>2. InvoiceInv(o) => InvoiceInv(o)'
  BY DEF Elsewhere, InvoiceInv, InvoiceStates, InvoiceSeat, Late
<1>3. QED
  BY <1>1, <1>2

LEMMA OthersStay ==
  ASSUME TypeOK, NEW o \in Orders, NEW x \in Orders, x # o, Own(o)
  PROVE  Elsewhere(x)
<1>1. CASE Validate(o)
  BY <1>1 DEF Validate, Step, TypeOK, Elsewhere
<1>2. CASE Create(o)
  BY <1>2 DEF Create, Step, TypeOK, Elsewhere
<1>3. CASE RedeemLock(o)
  BY <1>3 DEF RedeemLock, Step, TypeOK, Elsewhere
<1>4. CASE Burn(o)
  BY <1>4 DEF Burn, Step, TypeOK, Elsewhere
<1>5. CASE FullPrice(o)
  BY <1>5 DEF FullPrice, Step, TypeOK, Elsewhere
<1>6. CASE OpenSession(o)
  BY <1>6 DEF OpenSession, Step, TypeOK, Elsewhere
<1>7. CASE PayBalance(o)
  BY <1>7 DEF PayBalance, Step, TypeOK, Elsewhere
<1>8. CASE PayFails(o)
  BY <1>8 DEF PayFails, Step, TypeOK, Elsewhere
<1>9. CASE CheckoutRelease(o)
  BY <1>9 DEF CheckoutRelease, Step, HandBack, TypeOK, Elsewhere
<1>10. CASE Fail(o)
  BY <1>10 DEF Fail, Step, TypeOK, Elsewhere
<1>11. CASE SettleRead(o)
  BY <1>11 DEF SettleRead, Note, Payable, TypeOK, Elsewhere
<1>12. CASE SettleWrite(o)
  BY <1>12 DEF SettleWrite, Note, Late, TypeOK, Elsewhere
<1>13. CASE Decline(o)
  BY <1>13 DEF Decline, Note, Payable, TypeOK, Elsewhere
<1>14. CASE DeadRead(o)
  BY <1>14 DEF DeadRead, Note, TypeOK, Elsewhere
<1>15. CASE DeadClose(o)
  BY <1>15 DEF DeadClose, Note, TypeOK, Elsewhere
<1>16. CASE NoticeRelease(o)
  BY <1>16 DEF NoticeRelease, Note, HandBack, Released, TypeOK, Elsewhere
<1>17. CASE DeadSave(o)
  BY <1>17 DEF DeadSave, Note, TypeOK, Elsewhere
<1>18. CASE Grow(o)
  BY <1>18 DEF Grow, TypeOK, Elsewhere
<1>19. CASE SweepPick(o)
  BY <1>19 DEF SweepPick, Abandoned, TypeOK, Elsewhere
<1>20. QED
  BY <1>1, <1>2, <1>3, <1>4, <1>5, <1>6, <1>7, <1>8, <1>9, <1>10, <1>11, <1>12, <1>13,
     <1>14, <1>15, <1>16, <1>17, <1>18, <1>19
     DEF Own, Checkout, Notices

LEMMA OwnOrder ==
  ASSUME TypeOK, TypeOK', NEW o \in Orders, OrderInv(o), Own(o)
  PROVE  OrderInv(o)'
<1>1. CASE Validate(o)
  BY <1>1 DEF Validate, Step, TypeOK, OrderInv
<1>2. CASE Create(o)
  BY <1>2 DEF Create, Step, TypeOK, OrderInv
<1>3. CASE RedeemLock(o)
  BY <1>3 DEF RedeemLock, Step, TypeOK, OrderInv
<1>4. CASE Burn(o)
  BY <1>4 DEF Burn, Step, TypeOK, OrderInv
<1>5. CASE FullPrice(o)
  BY <1>5 DEF FullPrice, Step, TypeOK, OrderInv
<1>6. CASE OpenSession(o)
  BY <1>6 DEF OpenSession, Step, TypeOK, OrderInv
<1>7. CASE PayBalance(o)
  BY <1>7 DEF PayBalance, Step, TypeOK, OrderInv
<1>8. CASE PayFails(o)
  BY <1>8 DEF PayFails, Step, TypeOK, OrderInv
<1>9. CASE CheckoutRelease(o)
  BY <1>9 DEF CheckoutRelease, Step, HandBack, TypeOK, OrderInv
<1>10. CASE Fail(o)
  BY <1>10 DEF Fail, Step, TypeOK, OrderInv
<1>11. CASE SettleRead(o)
  BY <1>11 DEF SettleRead, Note, Payable, TypeOK, OrderInv
<1>12. CASE SettleWrite(o)
  BY <1>12 DEF SettleWrite, Note, Late, TypeOK, OrderInv
<1>13. CASE Decline(o)
  BY <1>13 DEF Decline, Note, Payable, TypeOK, OrderInv
<1>14. CASE DeadRead(o)
  BY <1>14 DEF DeadRead, Note, TypeOK, OrderInv
<1>15. CASE DeadClose(o)
  BY <1>15 DEF DeadClose, Note, TypeOK, OrderInv
<1>16. CASE NoticeRelease(o)
  BY <1>16 DEF NoticeRelease, Note, HandBack, Released, TypeOK, OrderInv
<1>17. CASE DeadSave(o)
  BY <1>17 DEF DeadSave, Note, TypeOK, OrderInv
<1>18. CASE Grow(o)
  BY <1>18 DEF Grow, TypeOK, OrderInv
<1>19. CASE SweepPick(o)
  BY <1>19 DEF SweepPick, Abandoned, TypeOK, OrderInv
<1>20. QED
  BY <1>1, <1>2, <1>3, <1>4, <1>5, <1>6, <1>7, <1>8, <1>9, <1>10, <1>11, <1>12, <1>13,
     <1>14, <1>15, <1>16, <1>17, <1>18, <1>19
     DEF Own, Checkout, Notices

LEMMA OwnInvoice ==
  ASSUME TypeOK, TypeOK', NEW o \in Orders \ CardOrders, OrderInv(o), InvoiceInv(o), Own(o)
  PROVE  InvoiceInv(o)'
<1>1. CASE Validate(o)
  BY <1>1 DEF Validate, Step, TypeOK, OrderInv, InvoiceInv, InvoiceStates, InvoiceSeat, Late
<1>2. CASE Create(o)
  BY <1>2 DEF Create, Step, TypeOK, OrderInv, InvoiceInv, InvoiceStates, InvoiceSeat, Late
<1>3. CASE RedeemLock(o)
  BY <1>3 DEF RedeemLock, Step, TypeOK, OrderInv, InvoiceInv, InvoiceStates, InvoiceSeat, Late
<1>4. CASE Burn(o)
  BY <1>4 DEF Burn, Step, TypeOK, OrderInv, InvoiceInv, InvoiceStates, InvoiceSeat, Late
<1>5. CASE FullPrice(o)
  BY <1>5 DEF FullPrice, Step, TypeOK, OrderInv, InvoiceInv, InvoiceStates, InvoiceSeat, Late
<1>6. CASE OpenSession(o)
  BY <1>6 DEF OpenSession, Step, TypeOK, OrderInv, InvoiceInv, InvoiceStates, InvoiceSeat, Late
<1>7. CASE PayBalance(o)
  BY <1>7 DEF PayBalance, Step, TypeOK, OrderInv, InvoiceInv, InvoiceStates, InvoiceSeat, Late
<1>8. CASE PayFails(o)
  BY <1>8 DEF PayFails, Step, TypeOK, OrderInv, InvoiceInv, InvoiceStates, InvoiceSeat, Late
<1>9. CASE CheckoutRelease(o)
  BY <1>9 DEF CheckoutRelease, Step, HandBack, TypeOK, OrderInv, InvoiceInv, InvoiceStates, InvoiceSeat, Late
<1>10. CASE Fail(o)
  BY <1>10 DEF Fail, Step, TypeOK, OrderInv, InvoiceInv, InvoiceStates, InvoiceSeat, Late
<1>11. CASE SettleRead(o)
  BY <1>11 DEF SettleRead, Note, Payable, TypeOK, OrderInv, InvoiceInv, InvoiceStates, InvoiceSeat, Late
<1>12. CASE SettleWrite(o)
  BY <1>12 DEF SettleWrite, Note, Late, TypeOK, OrderInv, InvoiceInv, InvoiceStates, InvoiceSeat
<1>13. CASE Decline(o)
  BY <1>13 DEF Decline, Note, Payable, TypeOK, OrderInv, InvoiceInv, InvoiceStates, InvoiceSeat, Late
<1>14. CASE DeadRead(o)
  BY <1>14 DEF DeadRead, Note, TypeOK, OrderInv, InvoiceInv, InvoiceStates, InvoiceSeat, Late
<1>15. CASE DeadClose(o)
  BY <1>15 DEF DeadClose, Note, TypeOK, OrderInv, InvoiceInv, InvoiceStates, InvoiceSeat, Late
<1>16. CASE NoticeRelease(o)
  BY <1>16 DEF NoticeRelease, Note, HandBack, Released, TypeOK, OrderInv, InvoiceInv, InvoiceStates, InvoiceSeat, Late
<1>17. CASE DeadSave(o)
  BY <1>17 DEF DeadSave, Note, TypeOK, OrderInv, InvoiceInv, InvoiceStates, InvoiceSeat, Late
<1>18. CASE Grow(o)
  BY <1>18 DEF Grow, TypeOK, OrderInv, InvoiceInv, InvoiceStates, InvoiceSeat, Late
<1>19. CASE SweepPick(o)
  BY <1>19 DEF SweepPick, Abandoned, TypeOK, OrderInv, InvoiceInv, InvoiceStates, InvoiceSeat, Late
<1>20. QED
  BY <1>1, <1>2, <1>3, <1>4, <1>5, <1>6, <1>7, <1>8, <1>9, <1>10, <1>11, <1>12, <1>13,
     <1>14, <1>15, <1>16, <1>17, <1>18, <1>19
     DEF Own, Checkout, Notices

\* The sweeper's second step is about the order it picked, and only when that
\* is still pending.
LEMMA SweptOrder ==
  ASSUME CalmInv, TypeOK', SweepExpire, NEW o \in Orders
  PROVE  OrderInv(o)' /\ (o \notin CardOrders => InvoiceInv(o)')
<1>1. cron \in Orders
  BY DEF SweepExpire, CalmInv, TypeOK
<1>2. CASE o = cron /\ order[cron] = "pending"
  <2>1. /\ order'[o] = "cancelled" /\ o \notin seats' /\ cron' # o
        /\ UNCHANGED <<discounted, attempt, age, pc, notice, seen>>
    BY <1>1, <1>2, BoundsAssumption DEF SweepExpire, HandBack, CalmInv, TypeOK
  <2>2. pc[o] = "done" /\ OrderInv(o)'
    BY <1>2, <2>1 DEF CalmInv, OrderInv
  <2>3. ASSUME o \notin CardOrders PROVE InvoiceInv(o)'
    BY <1>2, <2>1, <2>2, <2>3 DEF CalmInv, InvoiceInv, InvoiceStates, InvoiceSeat, Late
  <2>4. QED
    BY <2>2, <2>3
<1>3. CASE ~(o = cron /\ order[cron] = "pending")
  <2>1. Elsewhere(o)
    BY <1>1, <1>3, BoundsAssumption DEF SweepExpire, HandBack, Elsewhere, CalmInv, TypeOK
  <2>2. QED
    BY <2>1, KeptElsewhere DEF CalmInv
<1>4. QED
  BY <1>2, <1>3

LEMMA CalmStep ==
  ASSUME MaxCrashes = 0, CalmInv, [Next]_vars
  PROVE  CalmInv'
<1>1. TypeOK'
  BY TypeStep DEF CalmInv
<1>2. SUFFICES ASSUME NEW x \in Orders
               PROVE  OrderInv(x)' /\ (x \notin CardOrders => InvoiceInv(x)')
  BY <1>1 DEF CalmInv
<1>3. ASSUME Elsewhere(x) PROVE OrderInv(x)' /\ (x \notin CardOrders => InvoiceInv(x)')
  BY <1>3, KeptElsewhere DEF CalmInv
<1>4. ASSUME NEW o \in Orders, Own(o)
      PROVE  OrderInv(x)' /\ (x \notin CardOrders => InvoiceInv(x)')
  <2>1. CASE x = o
    BY <1>1, <1>4, <2>1, OwnOrder, OwnInvoice DEF CalmInv
  <2>2. CASE x # o
    BY <1>3, <1>4, <2>2, OthersStay DEF CalmInv
  <2>3. QED
    BY <2>1, <2>2
<1>5. ASSUME NEW o \in Orders PROVE ~Crash(o)
  BY DEF Crash, CalmInv, TypeOK
<1>6. CASE SweepExpire
  BY <1>1, <1>6, SweptOrder
<1>7. CASE EditLoad \/ EditSave \/ Expire \/ UNCHANGED vars
  BY <1>3, <1>7 DEF EditLoad, EditSave, Expire, vars, Elsewhere
<1>8. QED
  BY <1>4, <1>5, <1>6, <1>7 DEF Next, Own

LEMMA InitCalm == Init => CalmInv
BY InitTypes, BoundsAssumption
   DEF Init, CalmInv, OrderInv, InvoiceInv, InvoiceStates, InvoiceSeat, Late

\* While no request dies, money that arrives in time for an invoice -- before the
\* provider reports it dead and within 26 hours -- finds the order pending, and
\* whoever paid so at the reduced price has a seat: neither the sweeper nor a
\* notice takes it away under the customer.  Later money finds the order pending
\* or cancelled, never in another state.
THEOREM InvoicesAlwaysSettle ==
  ASSUME MaxCrashes = 0
  PROVE  Spec => []InvoicesSettle
<1>1. CalmInv /\ [Next]_vars => CalmInv'
  BY CalmStep
<1>2. CalmInv => InvoicesSettle
  <2> SUFFICES ASSUME CalmInv, NEW o \in Orders \ CardOrders
               PROVE  /\ attempt[o] = "paid" => order[o] = "paid"
                      /\ attempt[o] = "late" => order[o] \in {"paid", "cancelled"}
                      /\ order[o] = "paid" /\ o \in discounted /\ attempt[o] # "late"
                           => o \in seats
    BY DEF InvoicesSettle
  <2>1. OrderInv(o) /\ InvoiceInv(o)
    BY DEF CalmInv
  <2>2. QED
    BY <2>1 DEF OrderInv, InvoiceInv, InvoiceStates, InvoiceSeat, Late
<1>3. QED
  BY <1>1, <1>2, InitCalm, PTL DEF Spec

\* And a failed or cancelled order, however it was paid for, holds no seat but
\* while somebody is giving it back.
THEOREM DeadOrdersHoldNoSeat ==
  ASSUME MaxCrashes = 0
  PROVE  Spec => []DeadHoldsNoSeat
<1>1. CalmInv /\ [Next]_vars => CalmInv'
  BY CalmStep
<1>2. CalmInv => DeadHoldsNoSeat
  BY DEF CalmInv, OrderInv, DeadHoldsNoSeat, TypeOK
<1>3. QED
  BY <1>1, <1>2, InitCalm, PTL DEF Spec
=============================================================================
