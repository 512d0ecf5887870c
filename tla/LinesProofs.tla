---------------------------- MODULE LinesProofs ----------------------------
(***************************************************************************)
(* Who owns a line and who holds a card's customer, for any customers,     *)
(* orders, gifts, devices and requests side by side.                       *)
(*                                                                         *)
(* Lines: what a claim or a refresh may rely on is said of the copies they *)
(* hold: a list of claimable lines never holds a gift, and a row that was  *)
(* read for a refresh is owned by somebody the line may belong to.         *)
(*                                                                         *)
(* Cards: OneHolder is not inductive, since what a request is about to     *)
(* save must be as exclusive as what the rows hold.  A customer just made  *)
(* is known to its request alone, and one that is carried from a device to *)
(* an account is known to these two rows and to claims of that device.     *)
(***************************************************************************)
EXTENDS Lines, Cards, TLAPS

\* The row that does not exist is typed too.
LEMMA NoRowIsRow == NoRow \in Row
  BY LinesAssumption DEF NoRow, Row, LinesAssumption

\* A row with one column written is a row.
LEMMA RowEdits ==
    ASSUME NEW r \in Row, NEW u \in Users \union {NoOne}, NEW gone \in BOOLEAN
    PROVE  /\ [NoRow EXCEPT !.made = TRUE, !.user = u] \in Row
           /\ [r EXCEPT !.user = u] \in Row
           /\ [r EXCEPT !.gone = gone] \in Row
           /\ r.changes < MaxChanges =>
                 /\ [r EXCEPT !.changes = @ + 1] \in Row
                 /\ [r EXCEPT !.gone = gone, !.changes = @ + 1] \in Row
<1>1. r.changes \in 0..MaxChanges /\ MaxChanges \in Nat
  BY LinesAssumption DEF Row, LinesAssumption
<1>2. r.changes < MaxChanges => r.changes + 1 \in 0..MaxChanges
  BY <1>1
<1>3. [NoRow EXCEPT !.made = TRUE, !.user = u] \in Row
  BY <1>1, NoRowIsRow DEF NoRow, Row
<1>4. [r EXCEPT !.user = u] \in Row /\ [r EXCEPT !.gone = gone] \in Row
  BY DEF Row
<1>5. ASSUME r.changes < MaxChanges
      PROVE  [r EXCEPT !.changes = @ + 1] \in Row
  BY <1>2, <1>5 DEF Row
<1>6. ASSUME r.changes < MaxChanges
      PROVE  [r EXCEPT !.gone = gone, !.changes = @ + 1] \in Row
  BY <1>2, <1>6 DEF Row
<1>7. QED
  BY <1>3, <1>4, <1>5, <1>6

\* The typing of a handler's save.
LEMMA SaveTypes ==
    ASSUME TypeOK, NEW h \in Readers, NEW o \in Orders, NEW r \in Row, SaveRow(h, o, r)
    PROVE  /\ line' \in [Orders -> Row] /\ copy' \in [Readers -> [Orders -> Row]]
           /\ straddled' \subseteq Orders
<1>1. NoRow \in Row
  BY NoRowIsRow
<1>2. QED
  BY <1>1 DEF SaveRow, TypeOK

\* Lines given to somebody are still lines.
LEMMA GiveTypes ==
    ASSUME TypeOK, NEW ids, NEW u \in Users \union {NoOne}
    PROVE  Give(ids, u) \in [Orders -> Row]
<1>1. ASSUME NEW o \in Orders
      PROVE  [line[o] EXCEPT !.user = u] \in Row
  <2>1. line[o] \in Row
    BY DEF TypeOK
  <2>2. QED
    BY <2>1, RowEdits
<1>2. QED
  BY <1>1 DEF Give, TypeOK

\* What a refresh saves: the copy, whether the profile is gone apart.
LEMMA RefreshSaves ==
    ASSUME TypeOK, NEW o \in Orders, Refresh(o)
    PROVE  \E r \in Row :
              /\ SaveRow("refresh", o, r) /\ UNCHANGED changes
              /\ copy["refresh"][o].made /\ r.made
              /\ r.user = copy["refresh"][o].user /\ r.changes = copy["refresh"][o].changes
<1>1. "refresh" \in Readers
  BY DEF Readers
<1>2. PICK gone \in BOOLEAN : SaveRow("refresh", o, [copy["refresh"][o] EXCEPT !.gone = gone])
  BY DEF Refresh
<1>3. copy["refresh"][o] \in Row
  BY <1>1 DEF TypeOK
<1>4. [copy["refresh"][o] EXCEPT !.gone = gone] \in Row
  BY <1>3, RowEdits
<1> DEFINE r == [copy["refresh"][o] EXCEPT !.gone = gone]
<1>5. r.user = copy["refresh"][o].user /\ r.changes = copy["refresh"][o].changes /\ r.made = copy["refresh"][o].made
  BY <1>3 DEF Row
<1>6. QED
  BY <1>2, <1>4, <1>5 DEF Refresh

\* What a top-up saves: the copy with one plan more.
LEMMA TopUpSaves ==
    ASSUME TypeOK, NEW o \in Orders, TopUp(o)
    PROVE  \E r \in Row :
              /\ SaveRow("topup", o, r) /\ changes' = [changes EXCEPT ![o] = @ + 1]
              /\ copy["topup"][o].made /\ r.made
              /\ r.user = copy["topup"][o].user /\ r.changes = copy["topup"][o].changes + 1
<1>1. "topup" \in Readers
  BY DEF Readers
<1>2. copy["topup"][o] \in Row /\ copy["topup"][o].changes < MaxChanges
  BY <1>1 DEF TopUp, TypeOK
<1>3. ASSUME NEW gone \in BOOLEAN
      PROVE  /\ [copy["topup"][o] EXCEPT !.gone = gone, !.changes = @ + 1] \in Row
             /\ PlanAdded(copy["topup"][o]) \in Row
  BY <1>2, RowEdits DEF PlanAdded
<1>4. ASSUME NEW gone \in BOOLEAN, NEW r,
             r = [copy["topup"][o] EXCEPT !.gone = gone, !.changes = @ + 1] \/ r = PlanAdded(copy["topup"][o])
      PROVE  /\ r.made = copy["topup"][o].made /\ r.user = copy["topup"][o].user
             /\ r.changes = copy["topup"][o].changes + 1
  BY <1>2, <1>4 DEF Row, PlanAdded
<1>5. CASE \E gone \in BOOLEAN :
              SaveRow("topup", o, [copy["topup"][o] EXCEPT !.gone = gone, !.changes = @ + 1])
  <2>1. PICK gone \in BOOLEAN :
              SaveRow("topup", o, [copy["topup"][o] EXCEPT !.gone = gone, !.changes = @ + 1])
    BY <1>5
  <2> DEFINE r == [copy["topup"][o] EXCEPT !.gone = gone, !.changes = @ + 1]
  <2>2. /\ r.made = copy["topup"][o].made /\ r.user = copy["topup"][o].user
        /\ r.changes = copy["topup"][o].changes + 1
    BY <1>4
  <2>3. r \in Row
    BY <1>3
  <2>4. QED
    BY <2>1, <2>2, <2>3 DEF TopUp
<1>6. CASE SaveRow("topup", o, PlanAdded(copy["topup"][o]))
  <2> DEFINE r == PlanAdded(copy["topup"][o])
  <2>1. /\ r.made = copy["topup"][o].made /\ r.user = copy["topup"][o].user
        /\ r.changes = copy["topup"][o].changes + 1
    BY <1>4
  <2>2. r \in Row
    BY <1>3
  <2>3. QED
    BY <1>6, <2>1, <2>2 DEF TopUp
<1>7. QED
  BY <1>5, <1>6 DEF TopUp

\* A step of a handler keeps every variable in its type.
LEMMA TypeStep ==
    ASSUME TypeOK, [Next]_vars
    PROVE  TypeOK'
<1> USE DEF TypeOK
<1>1. ASSUME NEW o \in Orders, Provision(o)
      PROVE  TypeOK'
  BY <1>1 DEF Provision
<1>2. ASSUME NEW o \in Orders, Provisioned(o)
      PROVE  TypeOK'
  <2>1. [NoRow EXCEPT !.made = TRUE, !.user = FirstOwner(o)] \in Row
    <3>1. FirstOwner(o) \in Users \union {NoOne}
      BY DEF FirstOwner
    <3>2. QED
      BY <3>1, RowEdits
  <2>2. QED
    BY <1>2, <2>1 DEF Provisioned
<1>3. ASSUME NEW o \in Orders, NotProvisioned(o)
      PROVE  TypeOK'
  BY <1>3 DEF NotProvisioned
<1>4. ASSUME NEW u \in Users, Prove(u)
      PROVE  TypeOK'
  BY <1>4 DEF Prove
<1>5. ASSUME NEW u \in Users, ClaimFor(u)
      PROVE  TypeOK'
  <2>1. Waiting(u) \subseteq Orders
    BY DEF Waiting
  <2>2. QED
    BY <1>5, <2>1, GiveTypes DEF ClaimFor
<1>6. ASSUME NEW u \in Users, ClaimForFails(u)
      PROVE  TypeOK'
  BY <1>6 DEF ClaimForFails
<1>7. ASSUME NEW u \in Users, DeviceList(u)
      PROVE  TypeOK'
  <2>1. Claimable(Unclaimed) \in SUBSET Orders
    BY LinesAssumption DEF Claimable, Unclaimed, LinesAssumption
  <2>2. [step |-> "orders", ids |-> Claimable(Unclaimed)] \in [step : {"no", "orders", "lines"}, ids : SUBSET Orders]
    BY <2>1
  <2>3. QED
    BY <1>7, <2>2 DEF DeviceList
<1>8. ASSUME NEW u \in Users, DeviceOrders(u)
      PROVE  TypeOK'
  <2>1. Unclaimed \subseteq Orders
    BY LinesAssumption DEF Unclaimed, LinesAssumption
  <2>2. claim[u] \in [step : {"no", "orders", "lines"}, ids : SUBSET Orders]
    OBVIOUS
  <2>3. [claim[u] EXCEPT !.step = "lines"] \in [step : {"no", "orders", "lines"}, ids : SUBSET Orders]
    BY <2>2
  <2>4. claim' \in [Users -> [step : {"no", "orders", "lines"}, ids : SUBSET Orders]]
    BY <1>8, <2>3 DEF DeviceOrders
  <2>5. QED
    BY <1>8, <2>1, <2>4 DEF DeviceOrders
<1>9. ASSUME NEW u \in Users, DeviceLines(u)
      PROVE  TypeOK'
  <2>1. Give(claim[u].ids, u) \in [Orders -> Row]
    BY GiveTypes
  <2>2. [step |-> "no", ids |-> {}] \in [step : {"no", "orders", "lines"}, ids : SUBSET Orders]
    OBVIOUS
  <2>3. straddled' \subseteq Orders
    BY <1>9 DEF DeviceLines
  <2>4. claim' \in [Users -> [step : {"no", "orders", "lines"}, ids : SUBSET Orders]]
    BY <1>9, <2>2 DEF DeviceLines
  <2>5. QED
    BY <1>9, <2>1, <2>3, <2>4 DEF DeviceLines
<1>10. ASSUME NEW h \in Readers, NEW o \in Orders, Read(h, o)
       PROVE  TypeOK'
  BY <1>10 DEF Read
<1>11. ASSUME NEW o \in Orders, Refresh(o)
       PROVE  TypeOK'
  <2>1. "refresh" \in Readers
    BY DEF Readers
  <2>2. PICK r \in Row : SaveRow("refresh", o, r)
    BY <1>11, RefreshSaves
  <2>3. line' \in [Orders -> Row] /\ copy' \in [Readers -> [Orders -> Row]] /\ straddled' \subseteq Orders
    BY <2>1, <2>2, SaveTypes
  <2>4. QED
    BY <1>11, <2>2, <2>3 DEF Refresh, SaveRow
<1>12. ASSUME NEW o \in Orders, RefreshFails(o)
       PROVE  TypeOK'
  <2>1. NoRow \in Row
    BY NoRowIsRow
  <2>2. QED
    BY <1>12, <2>1 DEF RefreshFails
<1>13. ASSUME NEW o \in Orders, TopUp(o)
       PROVE  TypeOK'
  <2>1. "topup" \in Readers
    BY DEF Readers
  <2>2. PICK r \in Row : SaveRow("topup", o, r)
    BY <1>13, TopUpSaves
  <2>3. line' \in [Orders -> Row] /\ copy' \in [Readers -> [Orders -> Row]] /\ straddled' \subseteq Orders
    BY <2>1, <2>2, SaveTypes
  <2>4. changes' \in [Orders -> 0..MaxChanges]
    <3>1. changes[o] \in 0..MaxChanges /\ changes[o] < MaxChanges /\ MaxChanges \in Nat
      BY <1>13, LinesAssumption DEF TopUp, LinesAssumption
    <3>2. changes[o] + 1 \in 0..MaxChanges
      BY <3>1
    <3>3. QED
      BY <1>13, <3>2 DEF TopUp
  <2>5. QED
    BY <2>2, <2>3, <2>4 DEF SaveRow
<1>14. ASSUME NEW o \in Orders, Rename(o)
       PROVE  TypeOK'
  <2>1. [line[o] EXCEPT !.changes = @ + 1] \in Row
    BY <1>14, RowEdits DEF Rename
  <2>2. QED
    BY <1>14, <2>1, LinesAssumption DEF Rename, LinesAssumption
<1>15. ASSUME NEW u \in Users, CloseOrders(u)
       PROVE  TypeOK'
  BY <1>15 DEF CloseOrders
<1>16. ASSUME NEW u \in Users, CloseLines(u)
       PROVE  TypeOK'
  <2>1. line' \in [Orders -> Row]
    BY <1>16, GiveTypes DEF CloseLines
  <2>2. QED
    BY <1>16, <2>1 DEF CloseLines
<1>17. CASE UNCHANGED vars
  BY <1>17 DEF vars
<1>18. QED
  BY <1>1, <1>2, <1>3, <1>4, <1>5, <1>6, <1>7, <1>8, <1>9, <1>10, <1>11, <1>12, <1>13, <1>14, <1>15,
     <1>16, <1>17 DEF Next

\* Every reachable state is well typed (Lines.TypeOK).
THEOREM LineTypes == Spec => []TypeOK
<1>1. Init => TypeOK
  <2>1. 0 \in 0..MaxChanges
    BY LinesAssumption DEF LinesAssumption
  <2>2. QED
    BY <2>1, NoRowIsRow, LinesAssumption DEF Init, TypeOK, LinesAssumption
<1>2. QED
  BY <1>1, TypeStep, PTL DEF Spec
-----------------------------------------------------------------------------
\* Who may own a gifted line.
MayOwn(o, u) == u = NoOne \/ (u = Address[o] /\ u \in verified)

\* A gift belongs to nobody or to its proved address, and so do the copies that
\* refreshes will write back; no device has it on its list.
GiftInv ==
    /\ proving \subseteq verified
    /\ \A o \in Gifts : MayOwn(o, line[o].user)
    /\ \A h \in Readers, o \in Gifts : MayOwn(o, copy[h][o].user)
    /\ \A u \in Users : claim[u].ids \intersect Gifts = {}

\* An address once proved stays proved.
LEMMA ProvedForGood ==
    ASSUME [Next]_vars
    PROVE  verified \subseteq verified'
BY DEF Next, vars, Provision, Provisioned, NotProvisioned, Prove, ClaimFor, ClaimForFails, DeviceList,
       DeviceOrders, DeviceLines, Read, Refresh, RefreshFails, TopUp, Rename, CloseOrders, CloseLines,
       SaveRow

\* Writing back a copy under its old owner keeps a gift where it may be.
LEMMA GiftSave ==
    ASSUME TypeOK, GiftInv, NEW h \in Readers, NEW o \in Orders, NEW r \in Row,
           SaveRow(h, o, r), r.user = copy[h][o].user
    PROVE  GiftInv'
<1>1. NoRow.user = NoOne
  BY DEF NoRow
<1>2. Gifts \subseteq Orders
  BY LinesAssumption DEF LinesAssumption
<1>3. UNCHANGED <<verified, proving, claim>>
  BY DEF SaveRow
<1>4. ASSUME NEW g \in Gifts
      PROVE  MayOwn(g, line'[g].user)
  <2>1. line'[g].user = IF g = o THEN r.user ELSE line[g].user
    BY <1>2 DEF SaveRow, TypeOK
  <2>2. QED
    BY <2>1 DEF GiftInv
<1>5. ASSUME NEW k \in Readers, NEW g \in Gifts
      PROVE  MayOwn(g, copy'[k][g].user)
  <2>1. copy'[k][g] = IF k = h /\ g = o THEN NoRow ELSE copy[k][g]
    BY <1>2 DEF SaveRow, TypeOK
  <2>2. QED
    BY <1>1, <2>1 DEF GiftInv, MayOwn
<1>6. QED
  BY <1>3, <1>4, <1>5 DEF GiftInv, MayOwn

\* Every step keeps gifts where they may be: one case per step that writes an
\* owner, a copy or a list.
LEMMA GiftStep ==
    ASSUME TypeOK, GiftInv, [Next]_vars
    PROVE  GiftInv'
<1>0. Gifts \subseteq Orders
  BY LinesAssumption DEF LinesAssumption
<1>1. ASSUME UNCHANGED <<line, copy, claim>>, UNCHANGED <<verified, proving>>
      PROVE  GiftInv'
  BY <1>1 DEF GiftInv, MayOwn
<1>2. ASSUME NEW o \in Orders, Provision(o) \/ NotProvisioned(o)
      PROVE  GiftInv'
  BY <1>1, <1>2 DEF Provision, NotProvisioned
<1>3. ASSUME NEW o \in Orders, Provisioned(o)
      PROVE  GiftInv'
  <2>1. ASSUME NEW g \in Gifts
        PROVE  line'[g].user = line[g].user \/ line'[g].user = NoOne
    <3>1. line'[g] = IF g = o THEN [NoRow EXCEPT !.made = TRUE, !.user = FirstOwner(o)] ELSE line[g]
      BY <1>0, <1>3 DEF Provisioned, TypeOK
    <3>2. g = o => FirstOwner(o) = NoOne
      BY DEF FirstOwner
    <3>3. QED
      BY <3>1, <3>2 DEF NoRow
  <2>2. UNCHANGED <<copy, claim, verified, proving>>
    BY <1>3 DEF Provisioned
  <2>3. QED
    BY <2>1, <2>2 DEF GiftInv, MayOwn
<1>4. ASSUME NEW u \in Users, Prove(u)
      PROVE  GiftInv'
  BY <1>4 DEF Prove, GiftInv, MayOwn
<1>5. ASSUME NEW u \in Users, ClaimFor(u)
      PROVE  GiftInv'
  <2>1. u \in verified
    BY <1>5 DEF ClaimFor, GiftInv
  <2>2. ASSUME NEW g \in Gifts
        PROVE  MayOwn(g, line'[g].user)
    <3>1. line'[g] = IF g \in Waiting(u) THEN [line[g] EXCEPT !.user = u] ELSE line[g]
      BY <1>0, <1>5 DEF ClaimFor, Give
    <3>2. g \in Waiting(u) => Address[g] = u
      BY DEF Waiting
    <3>3. line[g] \in Row
      BY <1>0 DEF TypeOK
    <3>4. [line[g] EXCEPT !.user = u].user = u
      BY <3>3 DEF Row
    <3>5. QED
      BY <2>1, <3>1, <3>2, <3>4 DEF MayOwn, GiftInv
  <2>3. UNCHANGED <<copy, claim, verified>> /\ proving' \subseteq proving
    BY <1>5 DEF ClaimFor
  <2>4. QED
    BY <2>2, <2>3 DEF GiftInv, MayOwn
<1>6. ASSUME NEW u \in Users, ClaimForFails(u)
      PROVE  GiftInv'
  BY <1>6 DEF ClaimForFails, GiftInv, MayOwn
<1>7. ASSUME NEW u \in Users, DeviceList(u)
      PROVE  GiftInv'
  <2>1. Claimable(Unclaimed) \intersect Gifts = {}
    BY DEF Claimable
  <2>2. \A v \in Users : claim'[v].ids = IF v = u THEN Claimable(Unclaimed) ELSE claim[v].ids
    BY <1>7 DEF DeviceList, TypeOK
  <2>3. QED
    BY <1>7, <2>1, <2>2 DEF DeviceList, GiftInv, MayOwn
<1>8. ASSUME NEW u \in Users, DeviceOrders(u)
      PROVE  GiftInv'
  <2>1. \A v \in Users : claim'[v].ids = claim[v].ids
    BY <1>8 DEF DeviceOrders, TypeOK
  <2>2. QED
    BY <1>8, <2>1 DEF DeviceOrders, GiftInv, MayOwn
<1>9. ASSUME NEW u \in Users, DeviceLines(u)
      PROVE  GiftInv'
  <2>1. \A v \in Users : claim'[v].ids = IF v = u THEN {} ELSE claim[v].ids
    BY <1>9 DEF DeviceLines, TypeOK
  <2>2. \A g \in Gifts : line'[g] = line[g]
    BY <1>0, <1>9 DEF DeviceLines, Give, GiftInv
  <2>3. UNCHANGED <<copy, verified, proving>>
    BY <1>9 DEF DeviceLines
  <2>4. QED
    BY <2>1, <2>2, <2>3 DEF GiftInv, MayOwn
<1>10. ASSUME NEW h \in Readers, NEW o \in Orders, Read(h, o)
       PROVE  GiftInv'
  <2>1. ASSUME NEW k \in Readers, NEW g \in Gifts
        PROVE  copy'[k][g] = line[g] \/ copy'[k][g] = copy[k][g]
    BY <1>0, <1>10 DEF Read, TypeOK
  <2>2. UNCHANGED <<line, claim, verified, proving>>
    BY <1>10 DEF Read
  <2>3. QED
    BY <2>1, <2>2 DEF GiftInv, MayOwn
<1>11. ASSUME NEW o \in Orders, Refresh(o)
       PROVE  GiftInv'
  BY <1>11, RefreshSaves, GiftSave DEF Readers
<1>12. ASSUME NEW o \in Orders, RefreshFails(o)
       PROVE  GiftInv'
  <2>1. ASSUME NEW k \in Readers, NEW g \in Gifts
        PROVE  copy'[k][g].user = copy[k][g].user \/ copy'[k][g].user = NoOne
    BY <1>0, <1>12 DEF RefreshFails, TypeOK, NoRow
  <2>2. UNCHANGED <<line, claim, verified, proving>>
    BY <1>12 DEF RefreshFails
  <2>3. QED
    BY <2>1, <2>2 DEF GiftInv, MayOwn
<1>13. ASSUME NEW o \in Orders, TopUp(o)
       PROVE  GiftInv'
  BY <1>13, TopUpSaves, GiftSave DEF Readers
<1>14. ASSUME NEW o \in Orders, Rename(o)
       PROVE  GiftInv'
  <2>1. \A g \in Gifts : line'[g].user = line[g].user
    BY <1>0, <1>14 DEF Rename, TypeOK, Row
  <2>2. QED
    BY <1>14, <2>1 DEF Rename, GiftInv, MayOwn
<1>15. ASSUME NEW u \in Users, CloseOrders(u)
       PROVE  GiftInv'
  BY <1>1, <1>15 DEF CloseOrders
<1>16. ASSUME NEW u \in Users, CloseLines(u)
       PROVE  GiftInv'
  <2>1. ASSUME NEW g \in Gifts
        PROVE  line'[g].user = line[g].user \/ line'[g].user = NoOne
    <3>1. line'[g] = IF g \in Unlinked(u) THEN [line[g] EXCEPT !.user = NoOne] ELSE line[g]
      BY <1>0, <1>16 DEF CloseLines, Give
    <3>2. line[g] \in Row
      BY <1>0 DEF TypeOK
    <3>3. QED
      BY <3>1, <3>2 DEF Row
  <2>2. UNCHANGED <<copy, claim, verified, proving>>
    BY <1>16 DEF CloseLines
  <2>3. QED
    BY <2>1, <2>2 DEF GiftInv, MayOwn
<1>17. CASE UNCHANGED vars
  BY <1>1, <1>17 DEF vars
<1>18. QED
  BY <1>2, <1>3, <1>4, <1>5, <1>6, <1>7, <1>8, <1>9, <1>10, <1>11, <1>12, <1>13, <1>14, <1>15,
     <1>16, <1>17 DEF Next

\* A gifted line is owned by nobody but the account that proved the address it
\* was given to (Lines.GiftGoesToItsAddress).
THEOREM GiftsReachTheirAddress == Spec => []GiftGoesToItsAddress
<1>1. Init => GiftInv
  BY LinesAssumption DEF Init, GiftInv, MayOwn, NoRow, LinesAssumption
<1>2. GiftInv => GiftGoesToItsAddress
  BY DEF GiftInv, GiftGoesToItsAddress, MayOwn
<1>3. Spec => []TypeOK
  BY LineTypes
<1>4. QED
  BY <1>1, <1>2, <1>3, GiftStep, PTL DEF Spec
-----------------------------------------------------------------------------
\* What an erasing account still has, it has locked or somebody else has marked.
ClosingInv == \A u \in erasing, o \in Orders \ straddled : account[o] = u => lock[o] = u

\* Every step keeps closed accounts empty.
ErasedInv == ClosingInv /\ ErasedOwnsNothing

\* A step that writes owners only into marked rows keeps closed accounts empty.
LEMMA ErasedKept ==
    ASSUME TypeOK, ErasedInv, straddled \subseteq straddled', UNCHANGED <<closed, erasing>>,
           \A o \in Orders \ straddled' :
              /\ account'[o] = account[o] \/ account'[o] \notin closed \union erasing
              /\ line'[o].user = line[o].user \/ line'[o].user \notin closed
              /\ lock'[o] = lock[o] \/ lock[o] \notin Users
    PROVE  ErasedInv'
BY DEF ErasedInv, ClosingInv, ErasedOwnsNothing, TypeOK

LEMMA ErasedStep ==
    ASSUME TypeOK, ErasedInv, [Next]_vars
    PROVE  ErasedInv'
<1>0. NoOne \notin closed \union erasing /\ Users \intersect Orders = {}
  BY LinesAssumption DEF TypeOK, LinesAssumption
<1>1. ASSUME UNCHANGED <<account, line, closed, erasing, straddled>>,
             \A o \in Orders : lock'[o] = lock[o] \/ lock[o] \notin Users
      PROVE  ErasedInv'
  BY <1>1, ErasedKept
<1>2. ASSUME NEW o \in Orders, Provision(o) \/ NotProvisioned(o)
      PROVE  ErasedInv'
  <2>1. \A k \in Orders : lock'[k] = lock[k] \/ lock[k] \notin Users
    BY <1>0, <1>2, LinesAssumption DEF Provision, NotProvisioned, TypeOK, LinesAssumption
  <2>2. QED
    BY <1>1, <1>2, <2>1 DEF Provision, NotProvisioned
<1>3. ASSUME NEW o \in Orders, Provisioned(o)
      PROVE  ErasedInv'
  <2>1. lock[o] = o /\ \A k \in Orders \ {o} : line'[k] = line[k] /\ lock'[k] = lock[k]
    BY <1>3 DEF Provisioned, TypeOK
  <2>2. line'[o].user = FirstOwner(o)
    BY <1>3 DEF Provisioned, TypeOK, NoRow
  <2>3. o \notin straddled => FirstOwner(o) \notin closed
    BY <1>0 DEF FirstOwner, ErasedInv, ErasedOwnsNothing
  <2>4. UNCHANGED <<account, closed, erasing, straddled>>
    BY <1>3 DEF Provisioned
  <2>5. o \notin Users
    BY <1>0
  <2>6. QED
    BY <2>1, <2>2, <2>3, <2>4, <2>5, ErasedKept
<1>4. ASSUME NEW u \in Users, Prove(u) \/ ClaimForFails(u) \/ DeviceList(u)
      PROVE  ErasedInv'
  BY <1>1, <1>4 DEF Prove, ClaimForFails, DeviceList
<1>5. ASSUME NEW u \in Users, NEW ids, line' = Give(ids, u),
             \A o \in ids : Leaving(u) => o \in straddled', straddled \subseteq straddled',
             UNCHANGED <<account, closed, erasing, lock>>
      PROVE  ErasedInv'
  <2>1. ASSUME NEW o \in Orders \ straddled'
        PROVE  line'[o].user = line[o].user \/ line'[o].user \notin closed
    <3>1. line[o] \in Row
      BY DEF TypeOK
    <3>2. line'[o] = IF o \in ids THEN [line[o] EXCEPT !.user = u] ELSE line[o]
      BY <1>5 DEF Give
    <3>3. o \in ids => u \notin closed
      BY <1>5 DEF Leaving
    <3>4. QED
      BY <3>1, <3>2, <3>3 DEF Row
  <2>2. QED
    BY <1>5, <2>1, ErasedKept
<1>6. ASSUME NEW u \in Users, ClaimFor(u)
      PROVE  ErasedInv'
  BY <1>5, <1>6 DEF ClaimFor
<1>7. ASSUME NEW u \in Users, DeviceOrders(u)
      PROVE  ErasedInv'
  <2>1. \A o \in Orders \ straddled' : account'[o] = account[o] \/ account'[o] \notin closed \union erasing
    BY <1>7 DEF DeviceOrders, Leaving
  <2>2. UNCHANGED <<line, closed, erasing, lock>> /\ straddled \subseteq straddled'
    BY <1>7 DEF DeviceOrders
  <2>3. QED
    BY <2>1, <2>2, ErasedKept
<1>8. ASSUME NEW u \in Users, DeviceLines(u)
      PROVE  ErasedInv'
  <2>1. \A o \in claim[u].ids : Leaving(u) => o \in straddled'
    BY <1>8 DEF DeviceLines
  <2>2. QED
    BY <1>5, <1>8, <2>1 DEF DeviceLines
<1>9. ASSUME NEW h \in Readers, NEW o \in Orders, Read(h, o)
      PROVE  ErasedInv'
  BY <1>1, <1>9 DEF Read
<1>10. ASSUME NEW h \in Readers, NEW o \in Orders, NEW r \in Row, SaveRow(h, o, r), r.user = copy[h][o].user
       PROVE  ErasedInv'
  <2>1. \A k \in Orders \ straddled' : line'[k].user = line[k].user
    BY <1>10 DEF SaveRow, TypeOK
  <2>2. UNCHANGED <<account, closed, erasing, lock>> /\ straddled \subseteq straddled'
    BY <1>10 DEF SaveRow
  <2>3. QED
    BY <2>1, <2>2, ErasedKept
<1>11. ASSUME NEW o \in Orders, Refresh(o) \/ TopUp(o)
       PROVE  ErasedInv'
  BY <1>10, <1>11, RefreshSaves, TopUpSaves DEF Readers
<1>12. ASSUME NEW o \in Orders, RefreshFails(o)
       PROVE  ErasedInv'
  BY <1>1, <1>12 DEF RefreshFails
<1>13. ASSUME NEW o \in Orders, Rename(o)
       PROVE  ErasedInv'
  <2>1. line[o] \in Row
    BY DEF TypeOK
  <2>2. \A k \in Orders : line'[k].user = line[k].user
    BY <1>13, <2>1 DEF Rename, TypeOK, Row
  <2>3. QED
    BY <1>13, <2>2, ErasedKept DEF Rename
<1>14. ASSUME NEW u \in Users, CloseOrders(u)
       PROVE  ErasedInv'
  <2>1. u \notin closed \union erasing
    BY <1>14 DEF CloseOrders, SignedIn, Leaving
  <2>2. \A o \in Orders : lock'[o] = IF account[o] = u THEN u ELSE lock[o]
    BY <1>14 DEF CloseOrders, OrdersOf
  <2>3. UNCHANGED <<account, line, closed, straddled>> /\ erasing' = erasing \union {u}
    BY <1>14 DEF CloseOrders
  <2>4. QED
    BY <2>1, <2>2, <2>3 DEF ErasedInv, ClosingInv, ErasedOwnsNothing
<1>15. ASSUME NEW u \in Users, CloseLines(u)
       PROVE  ErasedInv'
  <2>1. u \in erasing /\ closed' = closed \union {u} /\ erasing' = erasing \ {u} /\ UNCHANGED straddled
    BY <1>15 DEF CloseLines
  <2>2. \A o \in Orders : /\ account'[o] = IF lock[o] = u THEN NoOne ELSE account[o]
                          /\ lock'[o] = IF lock[o] = u THEN NoOne ELSE lock[o]
    BY <1>15 DEF CloseLines
  <2>3. ASSUME NEW o \in Orders
        PROVE  line'[o].user = IF line[o].user = u THEN NoOne ELSE line[o].user
    <3>1. line[o] \in Row
      BY DEF TypeOK
    <3>2. line'[o] = IF line[o].user = u THEN [line[o] EXCEPT !.user = NoOne] ELSE line[o]
      BY <1>15 DEF CloseLines, Give, Unlinked, LinesOf
    <3>3. QED
      BY <3>1, <3>2 DEF Row
  <2>4. NoOne # u
    BY LinesAssumption DEF LinesAssumption
  <2>5. ClosingInv'
    BY <1>0, <2>1, <2>2 DEF ErasedInv, ClosingInv
  <2>6. ErasedOwnsNothing'
    BY <1>0, <2>1, <2>2, <2>3, <2>4 DEF ErasedInv, ClosingInv, ErasedOwnsNothing
  <2>7. QED
    BY <2>5, <2>6 DEF ErasedInv
<1>16. CASE UNCHANGED vars
  BY <1>1, <1>16 DEF vars
<1>17. QED
  BY <1>2, <1>3, <1>4, <1>6, <1>7, <1>8, <1>9, <1>11, <1>12, <1>13, <1>14, <1>15, <1>16 DEF Next

\* A closed account owns no order and no line, whatever was in fulfilment, apart
\* from what its own late requests took (Lines.ErasedOwnsNothing).
THEOREM ClosedAccountsAreEmpty == Spec => []ErasedOwnsNothing
<1>1. Init => ErasedInv
  BY DEF Init, ErasedInv, ClosingInv, ErasedOwnsNothing
<1>2. ErasedInv => ErasedOwnsNothing
  BY DEF ErasedInv
<1>3. Spec => []TypeOK
  BY LineTypes
<1>4. QED
  BY <1>1, <1>2, <1>3, ErasedStep, PTL DEF Spec
-----------------------------------------------------------------------------
\* Proofs are not taken back, and a closing account locks its own orders.
TitleInv ==
    /\ LineHasTitle /\ proving \subseteq verified
    /\ \A o \in Orders : lock[o] \in Users => account[o] = lock[o]

\* A step that gives no unmarked row an owner or takes its title.
LEMMA TitleKept ==
    ASSUME TypeOK, TitleInv, straddled \subseteq straddled', UNCHANGED <<account, lock>>,
           verified \subseteq verified', proving' \subseteq verified',
           \A o \in Orders \ straddled' :
              \/ line'[o].user = line[o].user \/ line'[o].user = NoOne
              \/ line'[o].user = account[o]
              \/ line'[o].user = Address[o] /\ Address[o] \in verified
    PROVE  TitleInv'
BY DEF TitleInv, LineHasTitle

LEMMA TitleStep ==
    ASSUME TypeOK, TitleInv, [Next]_vars
    PROVE  TitleInv'
<1>0. NoOne \notin Users \union Orders /\ Users \intersect Orders = {}
  BY LinesAssumption DEF LinesAssumption
<1>1. ASSUME UNCHANGED <<account, line, verified, proving, straddled>>,
             \A o \in Orders : lock'[o] = lock[o] \/ lock'[o] \notin Users
      PROVE  TitleInv'
  BY <1>1 DEF TitleInv, LineHasTitle
<1>2. ASSUME NEW o \in Orders, Provision(o) \/ NotProvisioned(o)
      PROVE  TitleInv'
  <2>1. \A k \in Orders : lock'[k] = lock[k] \/ lock'[k] \notin Users
    BY <1>0, <1>2 DEF Provision, NotProvisioned, TypeOK
  <2>2. QED
    BY <1>1, <1>2, <2>1 DEF Provision, NotProvisioned
<1>3. ASSUME NEW o \in Orders, Provisioned(o)
      PROVE  TitleInv'
  <2>1. \A k \in Orders \ {o} : line'[k] = line[k] /\ lock'[k] = lock[k]
    BY <1>3 DEF Provisioned, TypeOK
  <2>2. line'[o].user \in {NoOne, account[o]} /\ lock'[o] = NoOne
    BY <1>3 DEF Provisioned, TypeOK, NoRow, FirstOwner
  <2>3. UNCHANGED <<account, verified, proving, straddled>>
    BY <1>3 DEF Provisioned
  <2>4. QED
    BY <1>0, <2>1, <2>2, <2>3 DEF TitleInv, LineHasTitle
<1>4. ASSUME NEW u \in Users, Prove(u) \/ ClaimForFails(u)
      PROVE  TitleInv'
  BY <1>4, TitleKept DEF Prove, ClaimForFails, TitleInv
<1>5. ASSUME NEW u \in Users, DeviceList(u)
      PROVE  TitleInv'
  BY <1>1, <1>5 DEF DeviceList
<1>6. ASSUME NEW u \in Users, ClaimFor(u)
      PROVE  TitleInv'
  <2>1. u \in verified
    BY <1>6 DEF ClaimFor, TitleInv
  <2>2. ASSUME NEW o \in Orders
        PROVE  \/ line'[o].user = line[o].user
               \/ line'[o].user = Address[o] /\ Address[o] \in verified
    <3>1. line[o] \in Row
      BY DEF TypeOK
    <3>2. line'[o] = IF o \in Waiting(u) THEN [line[o] EXCEPT !.user = u] ELSE line[o]
      BY <1>6 DEF ClaimFor, Give
    <3>3. QED
      BY <2>1, <3>1, <3>2 DEF Waiting, Row
  <2>3. QED
    BY <1>6, <2>2, TitleKept DEF ClaimFor, TitleInv
<1>7. ASSUME NEW u \in Users, DeviceOrders(u)
      PROVE  TitleInv'
  <2>1. \A o \in Orders : \/ account'[o] = account[o]
                          \/ account[o] = NoOne /\ lock[o] = NoOne
    BY <1>7 DEF DeviceOrders, Unclaimed
  <2>2. UNCHANGED <<line, verified, proving, lock>> /\ straddled \subseteq straddled'
    BY <1>7 DEF DeviceOrders
  <2>3. QED
    BY <1>0, <2>1, <2>2 DEF TitleInv, LineHasTitle
<1>8. ASSUME NEW u \in Users, DeviceLines(u)
      PROVE  TitleInv'
  <2>1. ASSUME NEW o \in Orders \ straddled'
        PROVE  line'[o].user \in {line[o].user, account[o]}
    <3>1. line[o] \in Row
      BY DEF TypeOK
    <3>2. line'[o] = IF o \in claim[u].ids THEN [line[o] EXCEPT !.user = u] ELSE line[o]
      BY <1>8 DEF DeviceLines, Give
    <3>3. o \in claim[u].ids => account[o] = u
      BY <1>8, <2>1 DEF DeviceLines
    <3>4. QED
      BY <3>1, <3>2, <3>3 DEF Row
  <2>2. QED
    BY <1>8, <2>1, TitleKept DEF DeviceLines, TitleInv
<1>9. ASSUME NEW h \in Readers, NEW o \in Orders, Read(h, o)
      PROVE  TitleInv'
  BY <1>1, <1>9 DEF Read
<1>10. ASSUME NEW h \in Readers, NEW o \in Orders, NEW r \in Row, SaveRow(h, o, r), r.user = copy[h][o].user
       PROVE  TitleInv'
  <2>1. \A k \in Orders \ straddled' : line'[k].user = line[k].user
    BY <1>10 DEF SaveRow, TypeOK
  <2>2. UNCHANGED <<account, lock, verified, proving>> /\ straddled \subseteq straddled'
    BY <1>10 DEF SaveRow
  <2>3. QED
    BY <2>1, <2>2, TitleKept DEF TitleInv
<1>11. ASSUME NEW o \in Orders, Refresh(o) \/ TopUp(o)
       PROVE  TitleInv'
  BY <1>10, <1>11, RefreshSaves, TopUpSaves DEF Readers
<1>12. ASSUME NEW o \in Orders, RefreshFails(o)
       PROVE  TitleInv'
  BY <1>1, <1>12 DEF RefreshFails
<1>13. ASSUME NEW o \in Orders, Rename(o)
       PROVE  TitleInv'
  <2>1. line[o] \in Row
    BY DEF TypeOK
  <2>2. \A k \in Orders : line'[k].user = line[k].user
    BY <1>13, <2>1 DEF Rename, TypeOK, Row
  <2>3. QED
    BY <1>13, <2>2, TitleKept DEF Rename, TitleInv
<1>14. ASSUME NEW u \in Users, CloseOrders(u)
       PROVE  TitleInv'
  <2>1. \A o \in Orders : lock'[o] = IF account[o] = u THEN u ELSE lock[o]
    BY <1>14 DEF CloseOrders, OrdersOf
  <2>2. UNCHANGED <<account, line, verified, proving, straddled>>
    BY <1>14 DEF CloseOrders
  <2>3. QED
    BY <2>1, <2>2 DEF TitleInv, LineHasTitle
<1>15. ASSUME NEW u \in Users, CloseLines(u)
       PROVE  TitleInv'
  <2>1. \A o \in Orders : /\ account'[o] = IF lock[o] = u THEN NoOne ELSE account[o]
                          /\ lock'[o] = IF lock[o] = u THEN NoOne ELSE lock[o]
    BY <1>15 DEF CloseLines
  <2>2. ASSUME NEW o \in Orders
        PROVE  line'[o].user = IF line[o].user = u THEN NoOne ELSE line[o].user
    <3>1. line[o] \in Row
      BY DEF TypeOK
    <3>2. line'[o] = IF line[o].user = u THEN [line[o] EXCEPT !.user = NoOne] ELSE line[o]
      BY <1>15 DEF CloseLines, Give, Unlinked, LinesOf
    <3>3. QED
      BY <3>1, <3>2 DEF Row
  <2>3. UNCHANGED <<verified, proving, straddled>>
    BY <1>15 DEF CloseLines
  <2>4. LineHasTitle'
    BY <2>1, <2>2, <2>3 DEF TitleInv, LineHasTitle
  <2>5. QED
    BY <1>0, <2>1, <2>3, <2>4 DEF TitleInv
<1>16. CASE UNCHANGED vars
  BY <1>1, <1>16 DEF vars
<1>17. QED
  BY <1>2, <1>3, <1>4, <1>5, <1>6, <1>7, <1>8, <1>9, <1>11, <1>12, <1>13, <1>14, <1>15, <1>16 DEF Next

\* Whoever owns a line owns its order or has proved the address it was sent to,
\* unless a late request took it (Lines.LineHasTitle).
THEOREM OwnersHaveTitle == Spec => []LineHasTitle
<1>1. Init => TitleInv
  BY LinesAssumption DEF Init, TitleInv, LineHasTitle, NoRow, LinesAssumption
<1>2. TitleInv => LineHasTitle
  BY DEF TitleInv
<1>3. Spec => []TypeOK
  BY LineTypes
<1>4. QED
  BY <1>1, <1>2, <1>3, TitleStep, PTL DEF Spec
-----------------------------------------------------------------------------
(* Saved cards.                                                            *)

Saves(r)   == req[r].step \in {"store", "move", "clear"}
Claims(r)  == req[r].step \in {"look", "move", "clear"}
Carries(r) == req[r].step \in {"move", "clear"}

\* A request knows its caller and, from the moment it has one, its customer.
Named ==
    \A r \in Calls :
        /\ req[r].step \in {"ensure", "store"} => req[r].who \in Owners
        /\ Claims(r) => req[r].who \in Accounts /\ req[r].dev \in Devices
        /\ req[r].step \in {"store", "sheet", "move", "clear"} => req[r].cust \in Customers

\* A claim knows the account on its device, which stays while it is claimed.
Callers ==
    \A r \in Calls :
        /\ req[r].step \in {"ensure", "store"} => req[r].who \in Owners
        /\ Claims(r) => /\ req[r].who \in Accounts /\ req[r].dev \in Devices
                        /\ signed[req[r].dev] = req[r].who

\* Whatever a row holds or a request may save has been given to somebody.
Given ==
    /\ \A x \in Owners : holds[x] # Nobody => belongs[holds[x]] # Nobody
    /\ \A r \in Calls : Saves(r) => req[r].cust # Nobody /\ belongs[req[r].cust] # Nobody
    /\ \A r \in Calls : req[r].step = "sheet" => req[r].cust # Nobody

\* A customer just made is in no row and in no other request's hands.
Fresh ==
    \A r \in Calls : req[r].step = "store" =>
        /\ \A x \in Owners : holds[x] # req[r].cust
        /\ \A q \in Calls : q # r /\ Saves(q) => req[q].cust # req[r].cust

\* A customer that is carried is in no third row ...
Carried ==
    \A r \in Calls : Carries(r) /\ req[r].cust \notin torn =>
        \A x \in Owners : holds[x] = req[r].cust => x = req[r].dev \/ x = req[r].who

\* ... and is carried from one device.
FromOneDevice ==
    \A r, q \in Calls :
        Carries(r) /\ Carries(q) /\ req[r].cust = req[q].cust /\ req[r].cust \notin torn =>
            req[r].dev = req[q].dev

\* The claim of device d by account u that is about to clear customer c off d.
Clears(d, u, c) ==
    \E r \in Calls :
        req[r].step = "clear" /\ req[r].dev = d /\ req[r].who = u /\ req[r].cust = c

\* OneHolder, with the customer that the claim is about.
Held ==
    \A x, y \in Owners :
        x # y /\ holds[x] = holds[y] /\ holds[x] \notin torn \union {Nobody} =>
            \/ x \in Devices /\ y \in Accounts /\ Clears(x, y, holds[x])
            \/ y \in Devices /\ x \in Accounts /\ Clears(y, x, holds[x])

CardsInv == CardsTypes /\ Callers /\ Given /\ Fresh /\ Carried /\ FromOneDevice /\ Held
-----------------------------------------------------------------------------
\* What CardsTypes says of one request.
LEMMA RequestTypes ==
    ASSUME CardsTypes, NEW r \in Calls
    PROVE  /\ req[r].who \in Owners \union {Nobody}
           /\ req[r].dev \in Devices \union {Nobody}
           /\ req[r].had \in Customers \union {Nobody}
           /\ req[r].cust \in Customers \union {Nobody}
  BY DEF CardsTypes

\* A request that has found its customer.
Requests ==
    [step : {"idle", "ensure", "store", "sheet", "look", "move", "clear"},
     who  : Owners \union {Nobody}, dev : Devices \union {Nobody},
     had  : Customers \union {Nobody}, cust : Customers \union {Nobody}]

Serves(r, step, c) == [req[r] EXCEPT !.step = step, !.cust = c]

LEMMA ServesTypes ==
    ASSUME CardsTypes, NEW r \in Calls, NEW step \in {"store", "sheet"},
           NEW c \in Customers \union {Nobody}
    PROVE  /\ Serves(r, step, c) \in Requests
           /\ Serves(r, step, c).step = step /\ Serves(r, step, c).cust = c
           /\ Serves(r, step, c).who = req[r].who
<1>1. req[r] \in Requests
  BY DEF CardsTypes, Requests
<1> QED
  BY <1>1 DEF Serves, Requests

\* Nothing is named yet.
LEMMA CardsStart == CardsInit => CardsInv
  BY CardsAssumption DEF CardsInit, CardsInv, CardsTypes, Callers, Given, Fresh, Carried,
     FromOneDevice, Held, Saves, Claims, Carries, NoCall, Owners

\* Every step keeps the types; who calls and what is saved is needed for it.
LEMMA TypesKept ==
    ASSUME CardsTypes, Named, CardsNext
    PROVE  CardsTypes'
<1> USE CardsAssumption DEF Owners
<1>1. ASSUME NEW d \in Devices, SignIn(d) PROVE CardsTypes'
  BY <1>1 DEF CardsTypes, SignIn
<1>2. ASSUME NEW d \in Devices, NEW k \in CardNumbers, ForgetCard(d, k) PROVE CardsTypes'
  BY <1>2 DEF CardsTypes, ForgetCard
<1>3. ASSUME NEW k \in CardNumbers, SaveCard(k) PROVE CardsTypes'
  BY <1>3 DEF CardsTypes, SaveCard
<1>4. ASSUME LeaveSheet PROVE CardsTypes'
  BY <1>4 DEF CardsTypes, LeaveSheet
<1>5. ASSUME NEW r \in Calls, NEW d \in Devices, Ask(r, d) PROVE CardsTypes'
  <2>1. Caller(d) \in Owners
    BY DEF Caller, CardsTypes
  <2>2. holds[Caller(d)] \in Customers \union {Nobody}
    BY <2>1 DEF CardsTypes
  <2> QED
    BY <1>5, <2>1, <2>2 DEF CardsTypes, Ask
<1>6. ASSUME NEW r \in Calls, NEW d \in Devices, ClaimAsk(r, d) PROVE CardsTypes'
  BY <1>6 DEF CardsTypes, ClaimAsk
<1>7. ASSUME NEW r \in Calls, FindCustomer(r) PROVE CardsTypes'
  <2>1. req' = [req EXCEPT ![r] = Serves(r, "sheet", req[r].had)]
    BY <1>7 DEF FindCustomer, Serves, CardsTypes, Requests
  <2>2. Serves(r, "sheet", req[r].had) \in Requests
    BY ServesTypes, RequestTypes
  <2>3. req' \in [Calls -> Requests]
    BY <2>1, <2>2 DEF CardsTypes, Requests
  <2> QED
    BY <1>7, <2>3 DEF CardsTypes, FindCustomer, Requests
<1>8. ASSUME NEW r \in Calls, NewCustomer(r) PROVE CardsTypes'
  <2>1. PICK c \in Customers :
            /\ belongs' = [belongs EXCEPT ![c] = req[r].who]
            /\ req' = [req EXCEPT ![r].step = "store", ![r].cust = c]
    BY <1>8 DEF NewCustomer
  <2>2. req' = [req EXCEPT ![r] = Serves(r, "store", c)]
    BY <2>1 DEF Serves, CardsTypes, Requests
  <2>3. Serves(r, "store", c) \in Requests
    BY ServesTypes
  <2>4. req' \in [Calls -> Requests]
    BY <2>2, <2>3 DEF CardsTypes, Requests
  <2>5. belongs' \in [Customers -> Owners \union {Nobody}]
    BY <2>1, RequestTypes DEF CardsTypes
  <2> QED
    BY <1>8, <2>4, <2>5 DEF CardsTypes, NewCustomer, Requests
<1>9. ASSUME NEW r \in Calls, StoreCustomer(r) PROVE CardsTypes'
  <2>1. req[r].who \in Owners /\ req[r].cust \in Customers
    BY <1>9, RequestTypes DEF StoreCustomer, Named
  <2>2. WritesOver(req[r].who, req[r].cust) \subseteq Customers
    BY <2>1 DEF WritesOver, CardsTypes
  <2> QED
    BY <1>9, <2>1, <2>2 DEF CardsTypes, StoreCustomer, Go
<1>10. ASSUME NEW r \in Calls, OpenSheet(r) PROVE CardsTypes'
  BY <1>10, RequestTypes DEF CardsTypes, OpenSheet, Done, NoCall, Named
<1>11. ASSUME NEW r \in Calls, SheetFails(r) PROVE CardsTypes'
  BY <1>11 DEF CardsTypes, SheetFails, Done, NoCall
<1>12. ASSUME NEW r \in Calls, ClaimLook(r) PROVE CardsTypes'
  <2>1. req[r].dev \in Devices
    BY <1>12 DEF ClaimLook, Named, Claims
  <2>2. holds[req[r].dev] \in Customers \union {Nobody}
    BY <2>1 DEF CardsTypes
  <2> QED
    BY <1>12, <2>2 DEF CardsTypes, ClaimLook, Done, NoCall
<1>13. ASSUME NEW r \in Calls, ClaimMove(r) PROVE CardsTypes'
  <2>1. req[r].who \in Owners /\ req[r].cust \in Customers
    BY <1>13, RequestTypes DEF ClaimMove, Named, Claims
  <2>2. WritesOver(req[r].who, req[r].cust) \subseteq Customers
    BY <2>1 DEF WritesOver, CardsTypes
  <2> QED
    BY <1>13, <2>1, <2>2 DEF CardsTypes, ClaimMove, Go
<1>14. ASSUME NEW r \in Calls, ClaimClear(r) PROVE CardsTypes'
  <2>1. req[r].dev \in Owners
    BY <1>14 DEF ClaimClear, Named, Claims
  <2>2. WritesOver(req[r].dev, req[r].cust) \subseteq Customers
    BY <2>1 DEF WritesOver, CardsTypes
  <2> QED
    BY <1>14, <2>1, <2>2 DEF CardsTypes, ClaimClear, Done, NoCall
<1>15. ASSUME NEW r \in Calls, RequestDies(r) PROVE CardsTypes'
  <2>1. req[r].step = "clear" => req[r].cust \in Customers
    BY DEF Named
  <2> QED
    BY <1>15, <2>1 DEF CardsTypes, RequestDies, Done, NoCall
<1> QED
  BY <1>1, <1>2, <1>3, <1>4, <1>5, <1>6, <1>7, <1>8, <1>9, <1>10, <1>11, <1>12, <1>13, <1>14,
     <1>15 DEF CardsNext
-----------------------------------------------------------------------------
LEMMA AreNamed == CardsInv => Named
<1> SUFFICES ASSUME CardsInv, NEW r \in Calls
             PROVE  /\ req[r].step \in {"ensure", "store"} => req[r].who \in Owners
                    /\ Claims(r) => req[r].who \in Accounts /\ req[r].dev \in Devices
                    /\ req[r].step \in {"store", "sheet", "move", "clear"} => req[r].cust \in Customers
  BY DEF Named
<1> QED
  BY RequestTypes DEF CardsInv, Callers, Given, Saves

Untyped == Callers /\ Given /\ Fresh /\ Carried /\ FromOneDevice /\ Held

\* The rows stay and no request moves; an account changes only on a device that
\* nobody is claiming.
LEMMA NothingSaved ==
    ASSUME CardsInv, UNCHANGED <<holds, belongs, req, torn>>,
           \A d \in Devices : Claiming(d) => signed'[d] = signed[d]
    PROVE  Untyped'
<1>1. Callers'
  BY DEF CardsInv, Callers, Claims, Claiming
<1> QED
  BY <1>1 DEF Untyped, CardsInv, Given, Fresh, Carried, FromOneDevice, Held, Saves,
     Carries, Clears

\* A request goes where it has nothing to save, and it had no device to clear.
LEMMA NothingCarried ==
    ASSUME CardsInv, UNCHANGED <<holds, belongs, signed, torn>>, NEW r \in Calls, NEW rec,
           req' = [req EXCEPT ![r] = rec],
           req[r].step # "clear", rec.step \notin {"store", "move", "clear"},
           rec.step = "ensure" => rec.who \in Owners,
           rec.step = "look" => /\ rec.who \in Accounts /\ rec.dev \in Devices
                                /\ signed[rec.dev] = rec.who,
           rec.step = "sheet" => rec.cust # Nobody
    PROVE  Untyped'
<1>1. /\ req'[r] = rec
      /\ \A q \in Calls : q # r => req'[q] = req[q]
  BY DEF CardsInv, CardsTypes
<1>2. Callers'
  BY <1>1 DEF CardsInv, Callers, Claims
<1>3. Given'
  BY <1>1 DEF CardsInv, Given, Saves
<1>4. Fresh'
  BY <1>1 DEF CardsInv, Fresh, Saves
<1>5. Carried' /\ FromOneDevice'
  BY <1>1 DEF CardsInv, Carried, FromOneDevice, Carries
<1>6. \A d, u, c : Clears(d, u, c) => Clears(d, u, c)'
  BY <1>1 DEF Clears
<1>7. Held'
  BY <1>6 DEF CardsInv, Held
<1> QED
  BY <1>2, <1>3, <1>4, <1>5, <1>7 DEF Untyped

\* A customer just made is nobody's yet.
LEMMA NewKept ==
    ASSUME CardsInv, NEW r \in Calls, NewCustomer(r)
    PROVE  Untyped'
<1>1. PICK c \in Customers :
          /\ belongs[c] = Nobody
          /\ belongs' = [belongs EXCEPT ![c] = req[r].who]
          /\ req' = [req EXCEPT ![r].step = "store", ![r].cust = c]
  BY DEF NewCustomer
<1>2. /\ req'[r].step = "store" /\ req'[r].cust = c /\ req'[r].who = req[r].who
      /\ \A q \in Calls : q # r => req'[q] = req[q]
  BY <1>1 DEF CardsInv, CardsTypes
<1>3. UNCHANGED <<holds, signed, torn>> /\ req[r].step = "ensure" /\ c # Nobody
  BY CardsAssumption DEF NewCustomer, CardsAssumption
<1>4. req[r].who \in Owners /\ req[r].who # Nobody
  BY <1>3, CardsAssumption DEF CardsInv, Callers, CardsAssumption, Owners
<1>5. \A x \in Owners : holds[x] # c
  BY <1>1, <1>3 DEF CardsInv, Given
<1>6. \A q \in Calls : Saves(q) => req[q].cust # c
  BY <1>1 DEF CardsInv, Given
<1>7. \A b \in Customers : belongs[b] # Nobody => belongs'[b] # Nobody
  BY <1>1, <1>4 DEF CardsInv, CardsTypes
<1>8. Callers'
  BY <1>2, <1>3, <1>4 DEF CardsInv, Callers, Claims
<1>9. Given'
  <2>1. \A x \in Owners : holds'[x] # Nobody => belongs'[holds'[x]] # Nobody
    BY <1>3, <1>7 DEF CardsInv, CardsTypes, Given
  <2>2. belongs'[c] # Nobody
    BY <1>1, <1>4 DEF CardsInv, CardsTypes
  <2>3. \A q \in Calls : Saves(q) => req[q].cust \in Customers
    BY RequestTypes DEF CardsInv, Given
  <2>4. \A q \in Calls : Saves(q)' => req'[q].cust # Nobody /\ belongs'[req'[q].cust] # Nobody
    BY <1>2, <1>3, <1>7, <2>2, <2>3 DEF CardsInv, Given, Saves
  <2> QED
    BY <1>2, <2>1, <2>4 DEF CardsInv, Given
<1>10. Fresh'
  BY <1>2, <1>3, <1>5, <1>6 DEF CardsInv, Fresh, Saves
<1>11. Carried' /\ FromOneDevice'
  BY <1>2, <1>3 DEF CardsInv, Carried, FromOneDevice, Carries
<1>12. \A d, u, b : Clears(d, u, b) => Clears(d, u, b)'
  BY <1>2, <1>3 DEF Clears
<1>13. Held'
  BY <1>3, <1>12 DEF CardsInv, Held
<1> QED
  BY <1>8, <1>9, <1>10, <1>11, <1>13 DEF Untyped

\* Its id is saved on a row while no other has it.
LEMMA StoreKept ==
    ASSUME CardsInv, NEW r \in Calls, StoreCustomer(r)
    PROVE  Untyped'
<1> DEFINE u == req[r].who
           c == req[r].cust
<1>1. /\ req'[r].step = "sheet" /\ req'[r].cust = c
      /\ \A q \in Calls : q # r => req'[q] = req[q]
  BY DEF StoreCustomer, Go, CardsInv, CardsTypes
<1>2. UNCHANGED <<belongs, signed, torn>> /\ req[r].step = "store"
  BY DEF StoreCustomer
<1>3. u \in Owners /\ c # Nobody /\ belongs[c] # Nobody
  BY <1>2 DEF CardsInv, Callers, Given, Saves
<1>4. holds'[u] = c /\ \A x \in Owners : x # u => holds'[x] = holds[x]
  BY <1>3 DEF StoreCustomer, CardsInv, CardsTypes
<1>5. /\ \A x \in Owners : holds[x] # c
      /\ \A q \in Calls : q # r /\ Saves(q) => req[q].cust # c
  BY <1>2 DEF CardsInv, Fresh
<1>6. Callers'
  BY <1>1, <1>2 DEF CardsInv, Callers, Claims
<1>7. Given'
  BY <1>1, <1>2, <1>3, <1>4 DEF CardsInv, Given, Saves
<1>8. Fresh'
  BY <1>1, <1>2, <1>4, <1>5 DEF CardsInv, Fresh, Saves
<1>9. Carried'
  BY <1>1, <1>2, <1>4, <1>5 DEF CardsInv, Carried, Carries, Saves
<1>10. FromOneDevice'
  BY <1>1, <1>2 DEF CardsInv, FromOneDevice, Carries
<1>11. \A d, a, b : Clears(d, a, b) => Clears(d, a, b)'
  BY <1>1, <1>2 DEF Clears
<1>12. Held'
  BY <1>2, <1>4, <1>5, <1>11 DEF CardsInv, Held
<1> QED
  BY <1>6, <1>7, <1>8, <1>9, <1>10, <1>12 DEF Untyped

\* What a claim takes up is on the device, and at most on this account beside it.
LEMMA LookKept ==
    ASSUME CardsInv, NEW r \in Calls, ClaimLook(r)
    PROVE  Untyped'
<1> DEFINE d == req[r].dev
           u == req[r].who
           c == holds[d]
<1>1. UNCHANGED <<holds, belongs, signed, torn>> /\ req[r].step = "look"
  BY DEF ClaimLook
<1>2. u \in Accounts /\ d \in Devices /\ signed[d] = u /\ d \in Owners /\ u \in Owners
  BY <1>1 DEF CardsInv, Callers, Claims, Owners
<1>3. CASE c = Nobody \/ req[r].had # Nobody
  <2>1. req' = [req EXCEPT ![r] = NoCall]
    BY <1>3 DEF ClaimLook, Done
  <2> QED
    BY <1>1, <2>1, NothingCarried DEF NoCall
<1>4. CASE c # Nobody /\ req[r].had = Nobody
  <2>1. req' = [req EXCEPT ![r].step = "move", ![r].cust = c]
    BY <1>4 DEF ClaimLook
  <2>2. /\ req'[r].step = "move" /\ req'[r].cust = c
        /\ req'[r].who = u /\ req'[r].dev = d
        /\ \A q \in Calls : q # r => req'[q] = req[q]
    BY <2>1 DEF CardsInv, CardsTypes
  <2>3. Callers'
    BY <1>1, <1>2, <2>2 DEF CardsInv, Callers, Claims
  <2>4. Given'
    BY <1>1, <1>2, <1>4, <2>2 DEF CardsInv, Given, Saves
  <2>5. Fresh'
    BY <1>1, <1>2, <2>2 DEF CardsInv, Fresh, Saves
  <2>6. ASSUME c \notin torn, NEW x \in Owners, holds[x] = c
        PROVE  x = d \/ x = u
    <3>1. d \notin Accounts
      BY <1>2, CardsAssumption DEF CardsAssumption
    <3>2. ASSUME x # d PROVE Clears(d, x, c)
      <4>1. holds[d] = holds[x] /\ holds[d] \notin torn \union {Nobody}
        BY <1>4, <2>6
      <4> QED
        BY <1>2, <3>1, <3>2, <4>1 DEF CardsInv, Held
    <3>3. ASSUME Clears(d, x, c) PROVE x = u
      BY <1>2, <3>3 DEF Clears, CardsInv, Callers, Claims
    <3> QED
      BY <3>2, <3>3
  <2>7. Carried'
    BY <1>1, <2>2, <2>6 DEF CardsInv, Carried, Carries
  <2>8. ASSUME NEW q \in Calls, Carries(q), req[q].cust = c, c \notin torn
        PROVE  req[q].dev = d
    <3>1. d = req[q].dev \/ d = req[q].who
      BY <1>2, <2>8 DEF CardsInv, Carried
    <3>2. req[q].who \in Accounts
      BY <2>8 DEF CardsInv, Callers, Claims, Carries
    <3> QED
      BY <1>2, <3>1, <3>2, CardsAssumption DEF CardsAssumption
  <2>9. FromOneDevice'
    BY <1>1, <2>2, <2>8 DEF CardsInv, FromOneDevice, Carries
  <2>10. \A a, b, e : Clears(a, b, e) => Clears(a, b, e)'
    BY <1>1, <2>2 DEF Clears
  <2>11. Held'
    BY <1>1, <2>10 DEF CardsInv, Held
  <2> QED
    BY <2>3, <2>4, <2>5, <2>7, <2>9, <2>11 DEF Untyped
<1> QED
  BY <1>3, <1>4

\* The account has the customer too, and a claim of the device is about to clear.
LEMMA MoveKept ==
    ASSUME CardsInv, NEW r \in Calls, ClaimMove(r)
    PROVE  Untyped'
<1> DEFINE d == req[r].dev
           u == req[r].who
           c == req[r].cust
<1>1. UNCHANGED <<signed, torn>> /\ req[r].step = "move"
  BY DEF ClaimMove
<1>2. /\ req'[r].step = "clear" /\ req'[r].cust = c
      /\ req'[r].who = u /\ req'[r].dev = d
      /\ \A q \in Calls : q # r => req'[q] = req[q]
  BY DEF ClaimMove, Go, CardsInv, CardsTypes
<1>3. /\ u \in Accounts /\ d \in Devices /\ signed[d] = u /\ d \in Owners /\ u \in Owners
      /\ u # Nobody
  BY <1>1, CardsAssumption DEF CardsInv, Callers, Claims, Owners, CardsAssumption
<1>4. c # Nobody /\ c \in Customers
  BY <1>1, RequestTypes DEF CardsInv, Given, Saves
<1>5. holds'[u] = c /\ \A x \in Owners : x # u => holds'[x] = holds[x]
  BY <1>3 DEF ClaimMove, CardsInv, CardsTypes
<1>6. \A b \in Customers : belongs[b] # Nobody => belongs'[b] # Nobody
  BY <1>3 DEF ClaimMove, CardsInv, CardsTypes
<1>7. belongs'[c] # Nobody
  BY <1>3, <1>4 DEF ClaimMove, CardsInv, CardsTypes
<1>8. c \notin torn => \A x \in Owners : holds[x] = c => x = d \/ x = u
  BY <1>1 DEF CardsInv, Carried, Carries
<1>9. \A q \in Calls : Carries(q)' <=> Carries(q)
  BY <1>1, <1>2 DEF Carries
<1>10. \A q \in Calls : /\ req'[q].cust = req[q].cust
                       /\ req'[q].dev = req[q].dev /\ req'[q].who = req[q].who
  BY <1>2
<1>11. Callers'
  BY <1>1, <1>2, <1>3 DEF CardsInv, Callers, Claims
<1>12. Given'
  <2>1. \A x \in Owners : holds'[x] # Nobody => belongs'[holds'[x]] # Nobody
    BY <1>5, <1>6, <1>7 DEF CardsInv, CardsTypes, Given
  <2>2. \A q \in Calls : Saves(q) => req[q].cust \in Customers
    BY RequestTypes DEF CardsInv, Given
  <2>3. \A q \in Calls : Saves(q)' => req'[q].cust # Nobody /\ belongs'[req'[q].cust] # Nobody
    BY <1>1, <1>2, <1>6, <2>2 DEF CardsInv, Given, Saves
  <2> QED
    BY <1>2, <2>1, <2>3 DEF CardsInv, Given
<1>13. Fresh'
  <2>1. \A q \in Calls : q # r /\ req[q].step = "store" => req[q].cust # c
    BY <1>1 DEF CardsInv, Fresh, Saves
  <2> QED
    BY <1>1, <1>2, <1>5, <2>1 DEF CardsInv, Fresh, Saves
<1>14. ASSUME NEW q \in Calls, Carries(q), req[q].cust = c, c \notin torn
       PROVE  req[q].dev = d /\ req[q].who = u
  <2>1. req[q].dev = d
    BY <1>1, <1>14 DEF CardsInv, FromOneDevice, Carries
  <2> QED
    BY <1>3, <1>14, <2>1 DEF CardsInv, Callers, Claims, Carries
<1>15. Carried'
  BY <1>1, <1>5, <1>8, <1>9, <1>10, <1>14 DEF CardsInv, Carried
<1>16. FromOneDevice'
  BY <1>1, <1>9, <1>10 DEF CardsInv, FromOneDevice
<1>17. \A a, b, e : Clears(a, b, e) => Clears(a, b, e)'
  BY <1>1, <1>2 DEF Clears
<1>18. \A a, b, e : a = d /\ b = u /\ e = c => Clears(a, b, e)'
  BY <1>2 DEF Clears
<1>19. Held'
  <2>1. ASSUME NEW x \in Owners, x # u, holds'[x] = c, c \notin torn
        PROVE  x = d
    BY <1>5, <1>8, <2>1
  <2>2. SUFFICES ASSUME NEW x \in Owners, NEW y \in Owners, NEW e, x # y,
                        holds'[x] = e, holds'[y] = e, e \notin torn \union {Nobody}
                 PROVE  \/ x \in Devices /\ y \in Accounts /\ Clears(x, y, e)'
                        \/ y \in Devices /\ x \in Accounts /\ Clears(y, x, e)'
    BY <1>1 DEF Held, Clears
  <2>3. holds'[u] = c
    BY <1>5
  <2>4. CASE x = u
    <3>1. y = d /\ e = c
      BY <2>1, <2>2, <2>3, <2>4
    <3> QED
      BY <1>3, <1>18, <2>4, <3>1
  <2>5. CASE y = u
    <3>1. x = d /\ e = c
      BY <2>1, <2>2, <2>3, <2>5
    <3> QED
      BY <1>3, <1>18, <2>5, <3>1
  <2>6. CASE x # u /\ y # u
    <3>1. holds[x] = e /\ holds[y] = e
      BY <1>5, <2>2, <2>6
    <3>2. \/ x \in Devices /\ y \in Accounts /\ Clears(x, y, e)
          \/ y \in Devices /\ x \in Accounts /\ Clears(y, x, e)
      BY <2>2, <3>1 DEF CardsInv, Held
    <3> QED
      BY <1>17, <3>1, <3>2
  <2> QED
    BY <2>4, <2>5, <2>6
<1> QED
  BY <1>11, <1>12, <1>13, <1>15, <1>16, <1>19 DEF Untyped

\* The device has nothing any more, so nothing that it shared is to be cleared.
LEMMA ClearKept ==
    ASSUME CardsInv, NEW r \in Calls, ClaimClear(r)
    PROVE  Untyped'
<1> DEFINE d == req[r].dev
<1>1. UNCHANGED <<belongs, signed, torn>> /\ req[r].step = "clear"
  BY DEF ClaimClear
<1>2. /\ req'[r] = NoCall
      /\ \A q \in Calls : q # r => req'[q] = req[q]
  BY DEF ClaimClear, Done, CardsInv, CardsTypes
<1>3. d \in Owners
  BY <1>1 DEF CardsInv, Callers, Claims, Owners
<1>4. holds'[d] = Nobody /\ \A x \in Owners : x # d => holds'[x] = holds[x]
  BY <1>3 DEF ClaimClear, CardsInv, CardsTypes
<1>5. Callers'
  BY <1>1, <1>2 DEF CardsInv, Callers, Claims, NoCall
<1>6. Given'
  BY <1>1, <1>2, <1>4 DEF CardsInv, Given, Saves, NoCall
<1>7. Fresh'
  <2>1. \A q \in Calls : Saves(q)' => Saves(q) /\ q # r /\ req[q].cust # Nobody
    BY <1>2 DEF CardsInv, Given, Saves, NoCall
  <2> QED
    BY <1>2, <1>4, <2>1 DEF CardsInv, Fresh, Saves, NoCall
<1>8. \A q \in Calls : Carries(q)' => Carries(q) /\ q # r /\ req[q].cust # Nobody
  BY <1>2 DEF CardsInv, Given, Saves, Carries, NoCall
<1>9. Carried' /\ FromOneDevice'
  BY <1>1, <1>2, <1>4, <1>8 DEF CardsInv, Carried, FromOneDevice
<1>10. \A a, b, e : a # d /\ Clears(a, b, e) => Clears(a, b, e)'
  BY <1>2 DEF Clears
<1>11. Held'
  BY <1>1, <1>4, <1>10 DEF CardsInv, Held
<1> QED
  BY <1>5, <1>6, <1>7, <1>9, <1>11 DEF Untyped

\* A claim that dies before it clears leaves its customer torn.
LEMMA DeathKept ==
    ASSUME CardsInv, NEW r \in Calls, RequestDies(r)
    PROVE  Untyped'
<1>1. UNCHANGED <<holds, belongs, signed>> /\ torn \subseteq torn'
  BY DEF RequestDies
<1>2. /\ req'[r] = NoCall
      /\ \A q \in Calls : q # r => req'[q] = req[q]
  BY DEF RequestDies, Done, CardsInv, CardsTypes
<1>3. req[r].step = "clear" => req[r].cust \in torn'
  BY DEF RequestDies
<1>4. Callers'
  BY <1>1, <1>2 DEF CardsInv, Callers, Claims, NoCall
<1>5. Given'
  BY <1>1, <1>2 DEF CardsInv, Given, Saves, NoCall
<1>6. Fresh'
  BY <1>1, <1>2 DEF CardsInv, Fresh, Saves, NoCall
<1>7. \A q \in Calls : Carries(q)' => Carries(q) /\ q # r
  BY <1>2 DEF Carries, NoCall
<1>8. Carried' /\ FromOneDevice'
  BY <1>1, <1>2, <1>7 DEF CardsInv, Carried, FromOneDevice
<1>9. \A a, b, e : e \notin torn' /\ Clears(a, b, e) => Clears(a, b, e)'
  BY <1>2, <1>3 DEF Clears
<1>10. Held'
  BY <1>1, <1>9 DEF CardsInv, Held
<1> QED
  BY <1>4, <1>5, <1>6, <1>8, <1>10 DEF Untyped
-----------------------------------------------------------------------------
\* Every step keeps who may hold what, if a device that is claimed stays with its
\* account.
LEMMA CardsStep ==
    ASSUME ~Impatient, CardsInv, [CardsNext]_cardVars
    PROVE  CardsInv'
<1>1. ASSUME CardsNext PROVE CardsTypes'
  BY <1>1, AreNamed, TypesKept DEF CardsInv
<1>2. ASSUME NEW d \in Devices, SignIn(d) PROVE Untyped'
  <2>1. UNCHANGED <<holds, belongs, req, torn>> /\ ~Claiming(d)
    BY <1>2 DEF SignIn
  <2>2. \A e \in Devices : Claiming(e) => signed'[e] = signed[e]
    BY <1>2, <2>1 DEF SignIn, CardsInv, CardsTypes
  <2> QED
    BY <2>1, <2>2, NothingSaved
<1>3. ASSUME NEW d \in Devices, NEW k \in CardNumbers, ForgetCard(d, k) PROVE Untyped'
  BY <1>3, NothingSaved DEF ForgetCard
<1>4. ASSUME NEW k \in CardNumbers, SaveCard(k) PROVE Untyped'
  BY <1>4, NothingSaved DEF SaveCard
<1>5. ASSUME LeaveSheet PROVE Untyped'
  BY <1>5, NothingSaved DEF LeaveSheet
<1>6. ASSUME NEW r \in Calls, NEW d \in Devices, Ask(r, d) PROVE Untyped'
  <2> DEFINE rec == [step |-> "ensure", who |-> Caller(d), dev |-> d,
                     had  |-> holds[Caller(d)], cust |-> Nobody]
  <2>1. Caller(d) \in Owners
    BY CardsAssumption DEF Caller, CardsInv, CardsTypes, Owners, CardsAssumption
  <2>2. req' = [req EXCEPT ![r] = rec] /\ req[r].step = "idle"
    BY <1>6 DEF Ask
  <2>3. UNCHANGED <<holds, belongs, signed, torn>>
    BY <1>6 DEF Ask
  <2>4. rec.step = "ensure" /\ rec.who = Caller(d)
    OBVIOUS
  <2> HIDE DEF rec
  <2> QED
    BY <2>1, <2>2, <2>3, <2>4, NothingCarried
<1>7. ASSUME NEW r \in Calls, NEW d \in Devices, ClaimAsk(r, d) PROVE Untyped'
  <2> DEFINE rec == [step |-> "look", who |-> signed[d], dev |-> d,
                     had  |-> holds[signed[d]], cust |-> Nobody]
  <2>1. signed[d] \in Accounts
    BY <1>7 DEF ClaimAsk, CardsInv, CardsTypes
  <2>2. req' = [req EXCEPT ![r] = rec] /\ req[r].step = "idle"
    BY <1>7 DEF ClaimAsk
  <2>3. UNCHANGED <<holds, belongs, signed, torn>>
    BY <1>7 DEF ClaimAsk
  <2>4. rec.step = "look" /\ rec.who = signed[d] /\ rec.dev = d
    OBVIOUS
  <2> HIDE DEF rec
  <2> QED
    BY <2>1, <2>2, <2>3, <2>4, NothingCarried
<1>8. ASSUME NEW r \in Calls, FindCustomer(r) PROVE Untyped'
  <2>1. req' = [req EXCEPT ![r] = Serves(r, "sheet", req[r].had)]
    BY <1>8 DEF FindCustomer, Serves, CardsInv, CardsTypes, Requests
  <2>2. /\ UNCHANGED <<holds, belongs, signed, torn>>
        /\ req[r].step = "ensure" /\ req[r].had # Nobody
    BY <1>8 DEF FindCustomer
  <2>3. /\ Serves(r, "sheet", req[r].had).step = "sheet"
        /\ Serves(r, "sheet", req[r].had).cust = req[r].had
    BY ServesTypes, RequestTypes DEF CardsInv
  <2> QED
    BY <2>1, <2>2, <2>3, NothingCarried
<1>9. ASSUME NEW r \in Calls, OpenSheet(r) \/ SheetFails(r) PROVE Untyped'
  <2>1. req' = [req EXCEPT ![r] = NoCall] /\ req[r].step # "clear"
    BY <1>9 DEF OpenSheet, SheetFails, Done
  <2>2. UNCHANGED <<holds, belongs, signed, torn>>
    BY <1>9 DEF OpenSheet, SheetFails
  <2>3. NoCall.step = "idle"
    BY DEF NoCall
  <2> QED
    BY <2>1, <2>2, <2>3, NothingCarried
<1>10. ASSUME CardsNext PROVE Untyped'
  BY <1>10, <1>2, <1>3, <1>4, <1>5, <1>6, <1>7, <1>8, <1>9, NewKept, StoreKept, LookKept,
     MoveKept, ClearKept, DeathKept DEF CardsNext
<1>11. CASE UNCHANGED cardVars
  <2>1. CardsTypes'
    BY <1>11 DEF cardVars, CardsInv, CardsTypes
  <2>2. Untyped'
    BY <1>11, NothingSaved DEF cardVars
  <2> QED
    BY <2>1, <2>2 DEF Untyped, CardsInv
<1>12. CASE CardsNext
  BY <1>1, <1>10, <1>12 DEF Untyped, CardsInv
<1> QED
  BY <1>11, <1>12

\* However many people, telephones and requests there are, no customer is on two
\* rows but for a claim between its saves, or one that died there: the cards of one
\* person never show at another's (api/views.py device_claim).
THEOREM CardsHaveOneHolder == ASSUME ~Impatient PROVE CardsSpec => []OneHolder
<1>1. CardsInv => OneHolder
  BY DEF CardsInv, Held, OneHolder, Clears, Handover
<1>2. CardsInv /\ [CardsNext]_cardVars => CardsInv'
  BY CardsStep
<1> QED
  BY <1>1, <1>2, CardsStart, PTL DEF CardsSpec
-----------------------------------------------------------------------------
\* Somebody holds the customer, or a request or Stripe will come back with it.
Known(c) ==
    \/ \E x \in Owners : holds[x] = c
    \/ c \in sheets
    \/ \E k \in CardNumbers : cardAt[k] = c
    \/ \E r \in Calls : req[r].step \in {"sheet", "move", "clear"} /\ req[r].cust = c
    \/ \E r \in Calls : req[r].step = "ensure" /\ req[r].had = c

\* The one it belongs to at Stripe names it, unless its id was written over.
InReach(c) ==
    Known(c) => /\ belongs[c] # Nobody
                /\ c \notin displaced => holds[belongs[c]] = c

\* A customer that is not stored yet is known to its request alone; a claim
\* begins for an account without a customer and gives it the one it moves.
Reaching(r) ==
    /\ req[r].step = "store" =>
          /\ belongs[req[r].cust] = req[r].who /\ ~Known(req[r].cust)
          /\ \A q \in Calls : q # r /\ req[q].step = "store" => req[q].cust # req[r].cust
    /\ req[r].step = "move" => req[r].had = Nobody
    /\ req[r].step = "clear" => belongs[req[r].cust] \in Accounts

ReachInv ==
    /\ CardsTypes /\ Named
    /\ \A c \in Customers : InReach(c)
    /\ \A r \in Calls : Reaching(r)

LEMMA ReachFacts ==
    ASSUME ReachInv
    PROVE  /\ holds \in [Owners -> Customers \union {Nobody}]
           /\ belongs \in [Customers -> Owners \union {Nobody}]
           /\ req \in [Calls -> Requests]
           /\ displaced \subseteq Customers /\ sheets \subseteq Customers
           /\ cardAt \in [CardNumbers -> Customers \union {Nobody}]
           /\ signed \in [Devices -> Accounts \union {Nobody}]
           /\ \A c \in Customers : InReach(c)
           /\ \A r \in Calls : Reaching(r)
           /\ Accounts \cap Devices = {} /\ Owners = Accounts \union Devices
           /\ Nobody \notin Owners /\ Nobody \notin Customers
  BY CardsAssumption DEF ReachInv, CardsTypes, Requests, Owners

LEMMA ReachStart == CardsInit => ReachInv
  BY CardsAssumption DEF CardsInit, ReachInv, CardsTypes, Named, Claims, InReach, Reaching, Known,
     NoCall, Owners

\* Requests go on with what they had.
LEMMA NamedKept ==
    ASSUME ReachInv, CardsNext
    PROVE  Named'
<1> USE ReachFacts
<1>1. ASSUME UNCHANGED req PROVE Named'
  BY <1>1 DEF ReachInv, Named, Claims
<1>2. ASSUME NEW r \in Calls, NEW rec, req' = [req EXCEPT ![r] = rec],
             /\ rec.step \in {"ensure", "store"} => rec.who \in Owners
             /\ rec.step \in {"look", "move", "clear"} => rec.who \in Accounts /\ rec.dev \in Devices
             /\ rec.step \in {"store", "sheet", "move", "clear"} => rec.cust \in Customers
      PROVE  Named'
  <2>1. req'[r] = rec /\ \A q \in Calls : q # r => req'[q] = req[q]
    BY <1>2
  <2> QED
    BY <1>2, <2>1 DEF ReachInv, Named, Claims
<1>3. ASSUME NEW r \in Calls, req' = [req EXCEPT ![r] = NoCall] PROVE Named'
  BY <1>2, <1>3 DEF NoCall
<1>4. ASSUME NEW r \in Calls, NEW step \in {"store", "sheet", "move", "clear"},
             NEW c \in Customers, req' = [req EXCEPT ![r].step = step, ![r].cust = c],
             step = "store" => req[r].who \in Owners,
             step \in {"move", "clear"} => req[r].who \in Accounts /\ req[r].dev \in Devices
      PROVE  Named'
  <2>1. req' = [req EXCEPT ![r] = Serves(r, step, c)]
    BY <1>4 DEF Serves, Requests
  <2>2. /\ Serves(r, step, c).step = step /\ Serves(r, step, c).cust = c
        /\ Serves(r, step, c).who = req[r].who /\ Serves(r, step, c).dev = req[r].dev
    BY DEF Serves, Requests
  <2>3. PICK rec : rec = Serves(r, step, c)
    OBVIOUS
  <2>4. req' = [req EXCEPT ![r] = rec]
    BY <2>1, <2>3
  <2>5. /\ rec.step \in {"ensure", "store"} => rec.who \in Owners
        /\ rec.step \in {"look", "move", "clear"} => rec.who \in Accounts /\ rec.dev \in Devices
        /\ rec.step \in {"store", "sheet", "move", "clear"} => rec.cust \in Customers
    BY <1>4, <2>2, <2>3
  <2> QED
    BY <1>2, <2>4, <2>5
<1>5. ASSUME NEW r \in Calls, NEW step \in {"sheet", "clear"}, req' = [req EXCEPT ![r].step = step],
             req[r].cust \in Customers,
             step = "clear" => req[r].who \in Accounts /\ req[r].dev \in Devices
      PROVE  Named'
  <2>1. /\ req'[r].step = step /\ req'[r].cust = req[r].cust
        /\ req'[r].who = req[r].who /\ req'[r].dev = req[r].dev
        /\ \A q \in Calls : q # r => req'[q] = req[q]
    BY <1>5 DEF Requests
  <2> QED
    BY <1>5, <2>1 DEF ReachInv, Named, Claims
<1>6. ASSUME NEW r \in Calls, NEW d \in Devices, Ask(r, d) PROVE Named'
  <2>1. Caller(d) \in Owners
    BY DEF Caller
  <2> QED
    BY <1>2, <1>6, <2>1 DEF Ask
<1>7. ASSUME NEW r \in Calls, NEW d \in Devices, ClaimAsk(r, d) PROVE Named'
  BY <1>2, <1>7 DEF ClaimAsk
<1>8. ASSUME NEW r \in Calls, FindCustomer(r) PROVE Named'
  <2>1. req[r].had \in Customers
    BY <1>8 DEF FindCustomer, Requests
  <2> QED
    BY <1>4, <1>8, <2>1 DEF FindCustomer
<1>9. ASSUME NEW r \in Calls, NewCustomer(r) PROVE Named'
  <2>1. req[r].who \in Owners
    BY <1>9 DEF NewCustomer, ReachInv, Named
  <2> QED
    BY <1>4, <1>9, <2>1 DEF NewCustomer
<1>10. ASSUME NEW r \in Calls, StoreCustomer(r) PROVE Named'
  <2>1. req[r].cust \in Customers
    BY <1>10 DEF StoreCustomer, ReachInv, Named
  <2> QED
    BY <1>5, <1>10, <2>1 DEF StoreCustomer, Go
<1>11. ASSUME NEW r \in Calls, ClaimLook(r) PROVE Named'
  <2>1. req[r].who \in Accounts /\ req[r].dev \in Devices
    BY <1>11 DEF ClaimLook, ReachInv, Named, Claims
  <2>2. holds[req[r].dev] \in Customers \union {Nobody}
    BY <2>1
  <2> QED
    BY <1>3, <1>4, <1>11, <2>1, <2>2 DEF ClaimLook, Done
<1>12. ASSUME NEW r \in Calls, ClaimMove(r) PROVE Named'
  <2>1. req[r].who \in Accounts /\ req[r].dev \in Devices /\ req[r].cust \in Customers
    BY <1>12 DEF ClaimMove, ReachInv, Named, Claims
  <2> QED
    BY <1>5, <1>12, <2>1 DEF ClaimMove, Go
<1> QED
  BY <1>1, <1>3, <1>6, <1>7, <1>8, <1>9, <1>10, <1>11, <1>12
  DEF CardsNext, SignIn, ForgetCard, SaveCard, LeaveSheet, OpenSheet, SheetFails, ClaimClear,
      RequestDies, Done

Reach == (\A c \in Customers : InReach(c)) /\ (\A r \in Calls : Reaching(r))

\* Nobody learns of a customer that nobody knew, and nothing is saved.
LEMMA NothingStored ==
    ASSUME ReachInv, UNCHANGED <<holds, belongs, displaced>>,
           \A c \in Customers : Known(c)' => Known(c),
           \A q \in Calls : req'[q].step \in {"store", "move", "clear"} =>
               req'[q] = req[q] \/ (req'[q].step = "move" /\ req'[q].had = Nobody)
    PROVE  Reach'
<1> USE ReachFacts
<1>1. \A c \in Customers : InReach(c)'
  BY DEF InReach
<1>2. ASSUME NEW r \in Calls PROVE Reaching(r)'
  <2>1. CASE req'[r].step \in {"store", "clear"}
    <3>1. req'[r] = req[r]
      BY <2>1
    <3>2. req[r].cust \in Customers
      BY <2>1, <3>1 DEF ReachInv, Named
    <3> QED
      BY <2>1, <3>1, <3>2 DEF Reaching
  <2>2. CASE req'[r].step = "move"
    BY <2>2 DEF Reaching
  <2> QED
    BY <2>1, <2>2 DEF Reaching
<1> QED
  BY <1>1, <1>2 DEF Reach

\* What a request may come to know, and what stays as it was.
LEMMA QuietKept ==
    ASSUME ReachInv,
           \/ \E d \in Devices : SignIn(d) \/ \E k \in CardNumbers : ForgetCard(d, k)
           \/ \E r \in Calls :
                 \/ \E d \in Devices : Ask(r, d) \/ ClaimAsk(r, d)
                 \/ FindCustomer(r) \/ OpenSheet(r) \/ SheetFails(r) \/ ClaimLook(r) \/ RequestDies(r)
           \/ LeaveSheet
           \/ \E k \in CardNumbers : SaveCard(k)
    PROVE  Reach'
<1> USE ReachFacts
<1>1. ASSUME NEW d \in Devices, SignIn(d) PROVE Reach'
  BY <1>1, NothingStored DEF SignIn, Known
<1>2. ASSUME NEW d \in Devices, NEW k \in CardNumbers, ForgetCard(d, k) PROVE Reach'
  BY <1>2, NothingStored DEF ForgetCard, Known
<1>3. ASSUME LeaveSheet PROVE Reach'
  BY <1>3, NothingStored DEF LeaveSheet, Known
<1>4. ASSUME NEW k \in CardNumbers, SaveCard(k) PROVE Reach'
  BY <1>4, NothingStored DEF SaveCard, Known
<1>5. ASSUME NEW r \in Calls, NEW rec, req' = [req EXCEPT ![r] = rec],
             UNCHANGED <<holds, belongs, displaced, cardAt>>,
             \A c \in Customers : c \in sheets' => c \in sheets \/ Known(c),
             rec.step \in {"sheet", "move", "clear"} => Known(rec.cust),
             rec.step = "ensure" /\ rec.had \in Customers => Known(rec.had),
             rec.step \in {"idle", "ensure", "sheet", "look"} \/ (rec.step = "move" /\ rec.had = Nobody)
      PROVE  Reach'
  <2>1. req'[r] = rec /\ \A q \in Calls : q # r => req'[q] = req[q]
    BY <1>5
  <2>2. ASSUME NEW c \in Customers, Known(c)' PROVE Known(c)
    BY <1>5, <2>1, <2>2 DEF Known
  <2> QED
    BY <1>5, <2>1, <2>2, NothingStored
<1>6. ASSUME NEW r \in Calls, NEW d \in Devices, Ask(r, d) PROVE Reach'
  <2>1. PICK rec : rec = [step |-> "ensure", who |-> Caller(d), dev |-> d,
                          had  |-> holds[Caller(d)], cust |-> Nobody]
    OBVIOUS
  <2>2. Caller(d) \in Owners
    BY DEF Caller
  <2>3. rec.step = "ensure" /\ (rec.had \in Customers => Known(rec.had))
    BY <2>1, <2>2 DEF Known
  <2>4. req' = [req EXCEPT ![r] = rec] /\ UNCHANGED <<holds, belongs, displaced, cardAt, sheets>>
    BY <1>6, <2>1 DEF Ask
  <2> QED
    BY <1>5, <2>3, <2>4
<1>7. ASSUME NEW r \in Calls, NEW d \in Devices, ClaimAsk(r, d) PROVE Reach'
  <2>1. PICK rec : rec = [step |-> "look", who |-> signed[d], dev |-> d,
                          had  |-> holds[signed[d]], cust |-> Nobody]
    OBVIOUS
  <2>2. req' = [req EXCEPT ![r] = rec] /\ UNCHANGED <<holds, belongs, displaced, cardAt, sheets>>
    BY <1>7, <2>1 DEF ClaimAsk
  <2> QED
    BY <1>5, <2>1, <2>2
<1>8. ASSUME NEW r \in Calls, FindCustomer(r) PROVE Reach'
  <2>1. PICK rec : rec = [req[r] EXCEPT !.step = "sheet", !.cust = req[r].had]
    OBVIOUS
  <2>2. req[r].step = "ensure" /\ UNCHANGED <<holds, belongs, displaced, cardAt, sheets>>
    BY <1>8 DEF FindCustomer
  <2>3. rec.step = "sheet" /\ rec.cust = req[r].had
    BY <2>1 DEF Requests
  <2>4. req' = [req EXCEPT ![r] = rec]
    BY <1>8, <2>1 DEF FindCustomer, Requests
  <2>5. Known(rec.cust)
    BY <2>2, <2>3 DEF Known
  <2> QED
    BY <1>5, <2>2, <2>3, <2>4, <2>5
<1>9. ASSUME NEW r \in Calls, req' = [req EXCEPT ![r] = NoCall],
             UNCHANGED <<holds, belongs, displaced, cardAt>>,
             \A c \in Customers : c \in sheets' => c \in sheets \/ Known(c)
      PROVE  Reach'
  BY <1>5, <1>9 DEF NoCall
<1>10. ASSUME NEW r \in Calls, OpenSheet(r) PROVE Reach'
  <2>1. \A c \in Customers : c \in sheets' => c \in sheets \/ Known(c)
    BY <1>10 DEF OpenSheet, Known
  <2> QED
    BY <1>9, <1>10, <2>1 DEF OpenSheet, Done
<1>11. ASSUME NEW r \in Calls, SheetFails(r) \/ RequestDies(r) PROVE Reach'
  BY <1>9, <1>11 DEF SheetFails, RequestDies, Done
<1>12. ASSUME NEW r \in Calls, ClaimLook(r) PROVE Reach'
  <2> DEFINE c == holds[req[r].dev]
  <2>1. CASE req' = [req EXCEPT ![r] = NoCall]
    BY <1>9, <1>12, <2>1 DEF ClaimLook
  <2>2. CASE req[r].had = Nobody /\ req' = [req EXCEPT ![r].step = "move", ![r].cust = c]
    <3>1. PICK rec : rec = [req[r] EXCEPT !.step = "move", !.cust = c]
      OBVIOUS
    <3>2. rec.step = "move" /\ rec.cust = c /\ rec.had = Nobody
      BY <2>2, <3>1 DEF Requests
    <3>3. req' = [req EXCEPT ![r] = rec]
      BY <2>2, <3>1 DEF Requests
    <3>4. req[r].dev \in Owners
      BY <1>12 DEF ClaimLook, ReachInv, Named, Claims
    <3>5. Known(rec.cust)
      BY <3>2, <3>4 DEF Known
    <3> QED
      BY <1>5, <1>12, <3>2, <3>3, <3>5 DEF ClaimLook
  <2> QED
    BY <1>12, <2>1, <2>2 DEF ClaimLook, Done
<1> QED
  BY <1>1, <1>2, <1>3, <1>4, <1>6, <1>7, <1>8, <1>10, <1>11, <1>12

\* A new customer is known to nobody but the request that made it.
LEMMA NewReach ==
    ASSUME ReachInv, NEW r \in Calls, NewCustomer(r)
    PROVE  Reach'
<1> USE ReachFacts
<1>1. PICK c \in Customers :
          /\ belongs[c] = Nobody
          /\ belongs' = [belongs EXCEPT ![c] = req[r].who]
          /\ req' = [req EXCEPT ![r].step = "store", ![r].cust = c]
  BY DEF NewCustomer
<1>2. /\ req'[r].step = "store" /\ req'[r].cust = c /\ req'[r].who = req[r].who
      /\ \A q \in Calls : q # r => req'[q] = req[q]
  BY <1>1 DEF Requests
<1>3. UNCHANGED <<holds, displaced, sheets, cardAt>> /\ req[r].step = "ensure" /\ req[r].who \in Owners
  BY DEF NewCustomer, ReachInv, Named
<1>4. \A b \in Customers : Known(b)' => Known(b)
  BY <1>2, <1>3 DEF Known
<1>5. ~Known(c)
  BY <1>1 DEF InReach
<1>6. ASSUME NEW b \in Customers PROVE InReach(b)'
  <2>1. b # c => belongs'[b] = belongs[b]
    BY <1>1
  <2> QED
    BY <1>3, <1>4, <1>5, <2>1 DEF InReach
<1>7. ASSUME NEW q \in Calls, req[q].step \in {"store", "clear"}
      PROVE  req[q].cust \in Customers /\ req[q].cust # c /\ belongs'[req[q].cust] = belongs[req[q].cust]
  <2>1. req[q].cust \in Customers /\ (req[q].step = "store" => req[q].who \in Owners)
    BY <1>7 DEF ReachInv, Named
  <2>2. belongs[req[q].cust] # Nobody
    BY <1>7, <2>1 DEF Reaching
  <2> QED
    BY <1>1, <2>1, <2>2
<1>8. ASSUME NEW q \in Calls PROVE Reaching(q)'
  <2>1. CASE q = r
    BY <1>1, <1>2, <1>4, <1>5, <1>7, <2>1 DEF Reaching
  <2>2. CASE q # r
    <3>1. req'[q] = req[q]
      BY <1>2, <2>2
    <3> QED
      BY <1>2, <1>4, <1>7, <2>2, <3>1 DEF Reaching
  <2> QED
    BY <2>1, <2>2
<1> QED
  BY <1>6, <1>8 DEF Reach

\* Stored, it is found on the row it was made for; what was there is written over.
LEMMA StoreReach ==
    ASSUME ReachInv, NEW r \in Calls, StoreCustomer(r)
    PROVE  Reach'
<1> USE ReachFacts
<1> DEFINE u == req[r].who
           c == req[r].cust
<1>1. /\ req'[r].step = "sheet" /\ req'[r].cust = c
      /\ \A q \in Calls : q # r => req'[q] = req[q]
  BY DEF StoreCustomer, Go, Requests
<1>2. /\ UNCHANGED <<belongs, sheets, cardAt>> /\ req[r].step = "store"
      /\ u \in Owners /\ c \in Customers /\ belongs[c] = u /\ ~Known(c)
      /\ \A q \in Calls : q # r /\ req[q].step = "store" => req[q].cust # c
  BY DEF StoreCustomer, ReachInv, Named, Reaching
<1>3. /\ holds'[u] = c /\ \A x \in Owners : x # u => holds'[x] = holds[x]
      /\ displaced \subseteq displaced' /\ (holds[u] # Nobody /\ holds[u] # c => holds[u] \in displaced')
  BY <1>2 DEF StoreCustomer, WritesOver
<1>4. \A b \in Customers : b # c /\ Known(b)' => Known(b)
  BY <1>1, <1>2, <1>3 DEF Known
<1>5. ASSUME NEW b \in Customers PROVE InReach(b)'
  <2>1. CASE b = c
    BY <1>2, <1>3, <2>1 DEF InReach
  <2>2. CASE b # c
    BY <1>2, <1>3, <1>4, <2>2 DEF InReach
  <2> QED
    BY <2>1, <2>2
<1>6. ASSUME NEW q \in Calls PROVE Reaching(q)'
  <2>1. CASE q = r
    BY <1>1, <2>1 DEF Reaching
  <2>2. CASE q # r
    <3>1. req'[q] = req[q]
      BY <1>1, <2>2
    <3>2. req[q].step = "store" => req[q].cust \in Customers /\ req[q].cust # c
      BY <1>2, <2>2 DEF ReachInv, Named
    <3> QED
      BY <1>1, <1>2, <1>4, <2>2, <3>1, <3>2 DEF Reaching
  <2> QED
    BY <2>1, <2>2
<1> QED
  BY <1>5, <1>6 DEF Reach

\* A claim moves it to the account, which had none when the claim began.
LEMMA MoveReach ==
    ASSUME ReachInv, NEW r \in Calls, ClaimMove(r)
    PROVE  Reach'
<1> USE ReachFacts
<1> DEFINE u == req[r].who
           c == req[r].cust
<1>1. /\ req'[r].step = "clear" /\ req'[r].cust = c
      /\ \A q \in Calls : q # r => req'[q] = req[q]
  BY DEF ClaimMove, Go, Requests
<1>2. /\ UNCHANGED <<sheets, cardAt>> /\ req[r].step = "move" /\ req[r].had = Nobody
      /\ u \in Accounts /\ u \in Owners /\ c \in Customers /\ Known(c)
  BY DEF ClaimMove, ReachInv, Named, Claims, Reaching, Known
<1>3. /\ holds'[u] = c /\ \A x \in Owners : x # u => holds'[x] = holds[x]
      /\ displaced \subseteq displaced' /\ (holds[u] # Nobody /\ holds[u] # c => holds[u] \in displaced')
      /\ belongs'[c] = u /\ \A b \in Customers : b # c => belongs'[b] = belongs[b]
  BY <1>2 DEF ClaimMove, WritesOver
<1>4. \A b \in Customers : Known(b)' => Known(b)
  BY <1>1, <1>2, <1>3 DEF Known
<1>5. ASSUME NEW b \in Customers PROVE InReach(b)'
  <2>1. CASE b = c
    BY <1>2, <1>3, <2>1 DEF InReach
  <2>2. CASE b # c
    BY <1>2, <1>3, <1>4, <2>2 DEF InReach
  <2> QED
    BY <2>1, <2>2
<1>6. ASSUME NEW q \in Calls PROVE Reaching(q)'
  <2>1. CASE q = r
    BY <1>1, <1>2, <1>3, <2>1 DEF Reaching
  <2>2. CASE q # r
    <3>1. req'[q] = req[q]
      BY <1>1, <2>2
    <3>2. req[q].step \in {"store", "clear"} => req[q].cust \in Customers
      BY DEF ReachInv, Named
    <3>3. req[q].step = "store" => req[q].cust # c
      BY <1>2 DEF Reaching
    <3>4. req[q].step = "clear" => belongs'[req[q].cust] \in Accounts
      BY <1>2, <1>3, <3>2 DEF Reaching
    <3> QED
      BY <1>1, <1>3, <1>4, <2>2, <3>1, <3>2, <3>3, <3>4 DEF Reaching
  <2> QED
    BY <2>1, <2>2
<1> QED
  BY <1>5, <1>6 DEF Reach

\* The device is cleared of a customer that belongs to an account by now.
LEMMA ClearReach ==
    ASSUME ReachInv, NEW r \in Calls, ClaimClear(r)
    PROVE  Reach'
<1> USE ReachFacts
<1> DEFINE d == req[r].dev
           c == req[r].cust
<1>1. req'[r] = NoCall /\ \A q \in Calls : q # r => req'[q] = req[q]
  BY DEF ClaimClear, Done
<1>2. /\ UNCHANGED <<belongs, sheets, cardAt>> /\ d \in Devices /\ d \in Owners
      /\ c \in Customers /\ belongs[c] \in Accounts
  BY DEF ClaimClear, ReachInv, Named, Claims, Reaching
<1>3. /\ holds'[d] = Nobody /\ \A x \in Owners : x # d => holds'[x] = holds[x]
      /\ displaced \subseteq displaced' /\ (holds[d] # Nobody /\ holds[d] # c => holds[d] \in displaced')
  BY <1>2 DEF ClaimClear, WritesOver
<1>4. \A b \in Customers : Known(b)' => Known(b)
  BY <1>1, <1>2, <1>3 DEF Known, NoCall
<1>5. ASSUME NEW b \in Customers PROVE InReach(b)'
  BY <1>2, <1>3, <1>4 DEF InReach
<1>6. ASSUME NEW q \in Calls PROVE Reaching(q)'
  <2>1. CASE q = r
    BY <1>1, <2>1 DEF Reaching, NoCall
  <2>2. CASE q # r
    <3>1. req'[q] = req[q] /\ (req[q].step = "store" => req[q].cust \in Customers)
      BY <1>1, <2>2 DEF ReachInv, Named
    <3> QED
      BY <1>1, <1>2, <1>4, <2>2, <3>1 DEF Reaching, NoCall
  <2> QED
    BY <2>1, <2>2
<1> QED
  BY <1>5, <1>6 DEF Reach

LEMMA ReachStep ==
    ASSUME ReachInv, [CardsNext]_cardVars
    PROVE  ReachInv'
<1>1. CASE CardsNext
  <2>1. Reach'
    BY <1>1, QuietKept, NewReach, StoreReach, MoveReach, ClearReach DEF CardsNext
  <2> QED
    BY <1>1, <2>1, NamedKept, TypesKept DEF ReachInv, Reach
<1>2. CASE UNCHANGED cardVars
  BY <1>2 DEF cardVars, ReachInv, CardsTypes, Named, Claims, InReach, Reaching, Known
<1> QED
  BY <1>1, <1>2

\* The rows of people and telephones, Stripe's customers and the requests under way
\* are well typed (payments/inapp.py, device_claim).
THEOREM CardTypesHold == CardsSpec => []CardsTypes
<1>1. ReachInv => CardsTypes
  BY DEF ReachInv
<1> QED
  BY <1>1, ReachStart, ReachStep, PTL DEF CardsSpec

\* A saved card is found again by whoever it was saved for, or by the account that
\* claimed the telephone, however requests, claims and sign-ins interleave and
\* whichever of them die, unless a save wrote over its customer's id.
THEOREM CardsStayInReach == CardsSpec => []CardsInReach
<1>1. ASSUME ReachInv, NEW k \in CardNumbers, cardAt[k] \notin displaced \union {Nobody}
      PROVE  holds[belongs[cardAt[k]]] = cardAt[k]
  <2>1. cardAt[k] \in Customers /\ Known(cardAt[k])
    BY <1>1, ReachFacts DEF Known
  <2> QED
    BY <1>1, <2>1, ReachFacts DEF InReach
<1>2. ReachInv => CardsInReach
  BY <1>1 DEF CardsInReach
<1> QED
  BY <1>2, ReachStart, ReachStep, PTL DEF CardsSpec
=============================================================================
