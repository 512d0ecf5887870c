---------------------------- MODULE WalletProofs ----------------------------
(***************************************************************************)
(* The ledger of Wallet.tla never drifts from the balance and the balance  *)
(* is never negative, for any number of customers, workers and movements.  *)
(* The invariant says what an open transaction may rely on: it holds the   *)
(* row lock, so its draft continues the committed ledger.                  *)
(***************************************************************************)
EXTENDS Wallet, TLAPS

\* An open transaction holds the lock of the row it wrote.
LockedByTx == \A w \in Workers, u \in Wallets : tx[w] = u => lock[u] = w

\* Its draft continues the committed row, without ever going below zero.
DraftContinues ==
    \A w \in Workers, u \in Wallets :
        tx[w] = u =>
            /\ Chained(row[u].balance, draft[w].entries)
            /\ draft[w].row.balance = EndsAt(row[u].balance, draft[w].entries)
            /\ draft[w].row.balance >= 0
            /\ \A i \in 1..Len(draft[w].entries) : draft[w].entries[i].after >= 0

WalletInv == TypeOK /\ LockedByTx /\ DraftContinues /\ LedgerIsBalance /\ NeverOverdrawn

\* Appending a row that continues the last one keeps a ledger chained.
LEMMA ChainAppend ==
    ASSUME NEW from \in Int, NEW s \in Seq(EntryType), NEW e \in EntryType,
           Chained(from, s), e.after = EndsAt(from, s) + e.amount
    PROVE  /\ Chained(from, Append(s, e))
           /\ EndsAt(from, Append(s, e)) = e.after
<1>1. Len(Append(s, e)) = Len(s) + 1 /\ Append(s, e)[Len(s) + 1] = e
  OBVIOUS
<1>2. \A i \in 1..Len(s) : Append(s, e)[i] = s[i]
  OBVIOUS
<1>3. Chained(from, Append(s, e))
  <2> DEFINE a == Append(s, e)
  <2> SUFFICES ASSUME NEW i \in 1..Len(a)
               PROVE  a[i].after = a[i].amount + (IF i = 1 THEN from ELSE a[i-1].after)
    BY DEF Chained
  <2>1. CASE i \in 1..Len(s)
    <3>1. a[i] = s[i] /\ (i # 1 => a[i-1] = s[i-1])
      BY <2>1, <1>2
    <3>2. QED
      BY <2>1, <3>1 DEF Chained
  <2>2. CASE i = Len(s) + 1
    <3>1. a[i] = e /\ (i # 1 => a[i-1] = s[Len(s)]) /\ (i = 1 <=> Len(s) = 0)
      BY <2>2, <1>1, <1>2
    <3>2. e.amount \in Int
      BY DEF EntryType
    <3>3. EndsAt(from, s) = IF i = 1 THEN from ELSE a[i-1].after
      BY <3>1 DEF EndsAt
    <3>4. e.after = e.amount + EndsAt(from, s)
      <4>1. CASE Len(s) = 0
        BY <4>1, <3>2 DEF EndsAt
      <4>2. CASE Len(s) # 0
        <5>1. s[Len(s)] \in EntryType
          BY <4>2
        <5>2. QED
          BY <4>2, <5>1, <3>2 DEF EndsAt, EntryType
      <4>3. QED
        BY <4>1, <4>2
    <3>5. QED
      BY <3>1, <3>3, <3>4
  <2>3. QED
    BY <1>1, <2>1, <2>2
<1>4. Len(s) + 1 # 0
  OBVIOUS
<1>5. EndsAt(from, Append(s, e)) = e.after
  BY <1>1, <1>4 DEF EndsAt
<1>6. QED
  BY <1>3, <1>5

\* A ledger followed by a draft that continues it is one ledger.
LEMMA ChainConcat ==
    ASSUME NEW from \in Int, NEW s \in Seq(EntryType), NEW t \in Seq(EntryType),
           Chained(from, s), Chained(EndsAt(from, s), t)
    PROVE  /\ Chained(from, s \o t)
           /\ EndsAt(from, s \o t) = EndsAt(EndsAt(from, s), t)
<1>1. Len(s \o t) = Len(s) + Len(t) /\ Len(s) \in Nat /\ Len(t) \in Nat
  OBVIOUS
<1>2. \A i \in 1..Len(s) : (s \o t)[i] = s[i]
  OBVIOUS
<1>3. \A i \in Len(s)+1..Len(s)+Len(t) : (s \o t)[i] = t[i - Len(s)]
  OBVIOUS
<1>4. Chained(from, s \o t)
  <2> SUFFICES ASSUME NEW i \in 1..Len(s \o t)
               PROVE  (s \o t)[i].after =
                        (s \o t)[i].amount + (IF i = 1 THEN from ELSE (s \o t)[i-1].after)
    BY DEF Chained
  <2>1. CASE i \in 1..Len(s)
    BY <2>1, <1>2 DEF Chained
  <2>2. CASE i = Len(s) + 1
    <3>1. (s \o t)[i] = t[1] /\ 1 \in 1..Len(t)
      BY <2>2, <1>1, <1>3
    <3>2. EndsAt(from, s) = IF i = 1 THEN from ELSE (s \o t)[i-1].after
      BY <2>2, <1>1, <1>2 DEF EndsAt
    <3>3. QED
      BY <3>1, <3>2 DEF Chained
  <2>3. CASE i \in Len(s)+2..Len(s)+Len(t)
    <3>1. (s \o t)[i] = t[i - Len(s)] /\ (s \o t)[i-1] = t[(i - Len(s)) - 1]
      BY <2>3, <1>1, <1>3
    <3>2. i - Len(s) \in 1..Len(t) /\ i - Len(s) # 1 /\ i # 1
      BY <2>3, <1>1
    <3>3. QED
      BY <3>1, <3>2 DEF Chained
  <2>4. QED
    BY <1>1, <2>1, <2>2, <2>3
<1>5. EndsAt(from, s \o t) = EndsAt(EndsAt(from, s), t)
  <2>1. CASE Len(t) = 0
    <3>1. Len(s \o t) = Len(s)
      BY <2>1, <1>1
    <3>2. CASE Len(s) = 0
      BY <2>1, <3>1, <3>2 DEF EndsAt
    <3>3. CASE Len(s) # 0
      <4>1. (s \o t)[Len(s)] = s[Len(s)]
        BY <3>3, <1>1, <1>2
      <4>2. QED
        BY <2>1, <3>1, <3>3, <4>1 DEF EndsAt
    <3>4. QED
      BY <3>2, <3>3
  <2>2. CASE Len(t) # 0
    <3>1. Len(t) \in 1..Len(t) /\ Len(s \o t) # 0
      BY <2>2, <1>1
    <3>2. (s \o t)[Len(s) + Len(t)] = t[Len(t)]
      BY <3>1, <1>1, <1>3
    <3>3. QED
      BY <2>2, <3>1, <3>2, <1>1 DEF EndsAt
  <2>3. QED
    BY <2>1, <2>2
<1>6. QED
  BY <1>4, <1>5

\* If neither part goes below zero, neither does the whole.
LEMMA ConcatSolvent ==
    ASSUME NEW s \in Seq(EntryType), NEW t \in Seq(EntryType),
           \A i \in 1..Len(s) : s[i].after >= 0,
           \A i \in 1..Len(t) : t[i].after >= 0
    PROVE  \A i \in 1..Len(s \o t) : (s \o t)[i].after >= 0
<1>1. Len(s \o t) = Len(s) + Len(t) /\ Len(s) \in Nat /\ Len(t) \in Nat
  OBVIOUS
<1>2. \A i \in 1..Len(s) : (s \o t)[i] = s[i]
  OBVIOUS
<1>3. \A i \in Len(s)+1..Len(s)+Len(t) : (s \o t)[i] = t[i - Len(s)] /\ i - Len(s) \in 1..Len(t)
  BY <1>1
<1>4. QED
  BY <1>1, <1>2, <1>3

\* The empty system satisfies the invariant.
LEMMA InitInv == Init => WalletInv
<1> SUFFICES ASSUME Init PROVE WalletInv
  OBVIOUS
<1>1. EmptyRow \in RowType /\ EmptyRow.balance = 0
  BY DEF EmptyRow, RowType
<1>2. TypeOK
  BY <1>1 DEF Init, TypeOK
<1>3. LockedByTx /\ DraftContinues
  BY NoOneAssumption DEF Init, LockedByTx, DraftContinues
<1>4. LedgerIsBalance /\ NeverOverdrawn
  BY <1>1 DEF Init, LedgerIsBalance, NeverOverdrawn, Chained, EndsAt
<1>5. QED
  BY <1>2, <1>3, <1>4 DEF WalletInv

\* The base of a movement is a typed row, and the pending entries lead to it.
LEMMA BaseFollowsPending ==
    ASSUME WalletInv, NEW w \in Workers, NEW u \in Wallets
    PROVE  /\ Base(w, u) \in RowType
           /\ Pending(w, u) \in Seq(EntryType)
           /\ Chained(row[u].balance, Pending(w, u))
           /\ Base(w, u).balance = EndsAt(row[u].balance, Pending(w, u))
           /\ \A i \in 1..Len(Pending(w, u)) : Pending(w, u)[i].after >= 0
<1>1. CASE tx[w] = u
  BY <1>1 DEF WalletInv, TypeOK, DraftContinues, Base, Pending
<1>2. CASE tx[w] # u
  BY <1>2 DEF WalletInv, TypeOK, Base, Pending, Chained, EndsAt
<1>3. QED
  BY <1>1, <1>2

\* Moving money keeps the invariant: the lock was free or already ours.
LEMMA MoveInv ==
    ASSUME WalletInv, NEW w \in Workers, NEW u \in Wallets,
           NEW kind \in Kinds, NEW sum \in Sums, Move(w, u, kind, sum)
    PROVE  WalletInv'
<1> DEFINE base == Base(w, u)
           e    == Entry(base, kind, sum)
           r    == Moved(base, kind, sum)
           es   == Append(Pending(w, u), e)
<1>1. sum \in Int /\ sum > 0 /\ base.balance + Signed(kind, sum) >= 0
  BY SumsAssumption DEF Move, Accepted
<1>2. base \in RowType /\ Pending(w, u) \in Seq(EntryType)
  BY BaseFollowsPending
<1>3. e \in EntryType /\ r \in RowType /\ e.after >= 0 /\ r.balance = e.after
      /\ e.after = base.balance + e.amount
  BY <1>1, <1>2 DEF Entry, Moved, Signed, EntryType, RowType, Kinds, CreditKinds
<1>4. es \in Seq(EntryType)
  BY <1>2, <1>3
<1>5. row[u].balance \in Int
  BY DEF WalletInv, TypeOK, RowType
<1>6. Chained(row[u].balance, es) /\ EndsAt(row[u].balance, es) = e.after
  BY <1>2, <1>3, <1>5, BaseFollowsPending, ChainAppend
<1>7. \A i \in 1..Len(es) : es[i].after >= 0
  BY <1>2, <1>3, BaseFollowsPending
<1>8. /\ row' = row /\ ledger' = ledger
      /\ lock' = [lock EXCEPT ![u] = w] /\ tx' = [tx EXCEPT ![w] = u]
      /\ draft' = [draft EXCEPT ![w] = [row |-> r, entries |-> es]]
      /\ tx[w] \in {NoOne, u} /\ (lock[u] = NoOne \/ lock[u] = w)
  BY DEF Move, LockGranted
<1> HIDE DEF base, e, r, es
<1>9. TypeOK'
  BY <1>3, <1>4, <1>8 DEF WalletInv, TypeOK
<1>10. LockedByTx'
  BY <1>8, NoOneAssumption DEF WalletInv, TypeOK, LockedByTx
<1>11. DraftContinues'
  <2> SUFFICES ASSUME NEW x \in Workers, NEW y \in Wallets, tx'[x] = y
               PROVE  /\ Chained(row'[y].balance, draft'[x].entries)
                      /\ draft'[x].row.balance = EndsAt(row'[y].balance, draft'[x].entries)
                      /\ draft'[x].row.balance >= 0
                      /\ \A i \in 1..Len(draft'[x].entries) : draft'[x].entries[i].after >= 0
    BY DEF DraftContinues
  <2>1. CASE x = w
    <3>1. y = u /\ draft'[x] = [row |-> r, entries |-> es]
      BY <2>1, <1>8 DEF WalletInv, TypeOK
    <3>2. QED
      BY <3>1, <1>3, <1>6, <1>7, <1>8
  <2>2. CASE x # w
    <3>1. tx[x] = y /\ draft'[x] = draft[x]
      BY <2>2, <1>8 DEF WalletInv, TypeOK
    <3>2. QED
      BY <3>1, <1>8 DEF WalletInv, DraftContinues
  <2>3. QED
    BY <2>1, <2>2
<1>12. LedgerIsBalance' /\ NeverOverdrawn'
  BY <1>8 DEF WalletInv, LedgerIsBalance, NeverOverdrawn
<1>13. QED
  BY <1>9, <1>10, <1>11, <1>12 DEF WalletInv

\* Ending a transaction without its effects leaves the others as they were.
LEMMA ReleaseInv ==
    ASSUME WalletInv, NEW w \in Workers, NEW u \in Wallets, tx[w] = u, Release(w, u)
    PROVE  /\ lock' \in [Wallets -> Workers \union {NoOne}]
           /\ tx' \in [Workers -> Wallets \union {NoOne}]
           /\ draft' \in [Workers -> [row : RowType, entries : Seq(EntryType)]]
           /\ LockedByTx'
           /\ \A x \in Workers, y \in Wallets :
                 tx'[x] = y => x # w /\ y # u /\ tx[x] = y /\ draft'[x] = draft[x]
<1>1. EmptyRow \in RowType /\ <<>> \in Seq(EntryType)
  BY DEF EmptyRow, RowType
<1>2. \A x \in Workers, y \in Wallets :
         tx'[x] = y => x # w /\ y # u /\ tx[x] = y /\ draft'[x] = draft[x]
  BY NoOneAssumption DEF WalletInv, TypeOK, LockedByTx, Release
<1>3. LockedByTx'
  BY <1>2 DEF WalletInv, TypeOK, LockedByTx, Release
<1>4. QED
  BY <1>1, <1>2, <1>3 DEF WalletInv, TypeOK, Release

\* Committing extends the ledger by a draft that continues it.
LEMMA CommitInv ==
    ASSUME WalletInv, NEW w \in Workers, NEW u \in Wallets, Commit(w, u)
    PROVE  WalletInv'
<1> DEFINE d == draft[w]
<1>1. tx[w] = u /\ Release(w, u)
  BY DEF Commit
<1>2. /\ row' = [row EXCEPT ![u] = d.row]
      /\ ledger' = [ledger EXCEPT ![u] = ledger[u] \o d.entries]
  BY DEF Commit
<1>3. /\ d.row \in RowType /\ d.entries \in Seq(EntryType)
      /\ ledger[u] \in Seq(EntryType) /\ row[u] \in RowType
  BY DEF WalletInv, TypeOK
<1>4. /\ Chained(row[u].balance, d.entries)
      /\ d.row.balance = EndsAt(row[u].balance, d.entries)
      /\ d.row.balance >= 0
      /\ \A i \in 1..Len(d.entries) : d.entries[i].after >= 0
  BY <1>1 DEF WalletInv, DraftContinues
<1>5. Chained(0, ledger[u]) /\ row[u].balance = EndsAt(0, ledger[u])
  BY DEF WalletInv, LedgerIsBalance
<1> HIDE DEF d
<1>6. /\ Chained(0, ledger[u] \o d.entries)
      /\ d.row.balance = EndsAt(0, ledger[u] \o d.entries)
  <2>1. Chained(EndsAt(0, ledger[u]), d.entries)
    BY <1>4, <1>5
  <2>2. QED
    BY <1>3, <1>4, <1>5, <2>1, ChainConcat
<1>7. \A i \in 1..Len(ledger[u] \o d.entries) : (ledger[u] \o d.entries)[i].after >= 0
  <2>1. \A i \in 1..Len(ledger[u]) : ledger[u][i].after >= 0
    BY DEF WalletInv, NeverOverdrawn
  <2>2. QED
    BY <1>3, <1>4, <2>1, ConcatSolvent
<1>8. TypeOK'
  <2>1. ledger[u] \o d.entries \in Seq(EntryType)
    BY <1>3
  <2>2. QED
    BY <1>1, <1>2, <1>3, <2>1, ReleaseInv DEF WalletInv, TypeOK
<1>9. LockedByTx'
  BY <1>1, ReleaseInv
<1>10. DraftContinues'
  <2>1. \A x \in Workers, y \in Wallets :
           tx'[x] = y => y # u /\ tx[x] = y /\ draft'[x] = draft[x]
    BY <1>1, ReleaseInv
  <2>2. \A y \in Wallets : y # u => row'[y] = row[y]
    BY <1>2 DEF WalletInv, TypeOK
  <2>3. SUFFICES ASSUME NEW x \in Workers, NEW y \in Wallets, tx'[x] = y
                 PROVE  /\ Chained(row'[y].balance, draft'[x].entries)
                        /\ draft'[x].row.balance = EndsAt(row'[y].balance, draft'[x].entries)
                        /\ draft'[x].row.balance >= 0
                        /\ \A i \in 1..Len(draft'[x].entries) : draft'[x].entries[i].after >= 0
    BY DEF DraftContinues
  <2>4. tx[x] = y /\ draft'[x] = draft[x] /\ row'[y] = row[y]
    BY <2>1, <2>2, <2>3
  <2>5. QED
    BY <2>4 DEF WalletInv, DraftContinues
<1>11. LedgerIsBalance'
  BY <1>2, <1>6 DEF WalletInv, TypeOK, LedgerIsBalance
<1>12. NeverOverdrawn'
  BY <1>2, <1>4, <1>7 DEF WalletInv, TypeOK, NeverOverdrawn
<1>13. QED
  BY <1>8, <1>9, <1>10, <1>11, <1>12 DEF WalletInv

\* Rolling back changes nothing that is committed.
LEMMA RollbackInv ==
    ASSUME WalletInv, NEW w \in Workers, NEW u \in Wallets, Rollback(w, u)
    PROVE  WalletInv'
<1>1. tx[w] = u /\ Release(w, u) /\ row' = row /\ ledger' = ledger
  BY DEF Rollback
<1>2. TypeOK' /\ LockedByTx'
  BY <1>1, ReleaseInv DEF WalletInv, TypeOK
<1>3. DraftContinues'
  BY <1>1, ReleaseInv DEF WalletInv, DraftContinues
<1>4. LedgerIsBalance' /\ NeverOverdrawn'
  BY <1>1 DEF WalletInv, LedgerIsBalance, NeverOverdrawn
<1>5. QED
  BY <1>2, <1>3, <1>4 DEF WalletInv

\* Every step keeps the invariant.
LEMMA NextInv == WalletInv /\ [Next]_vars => WalletInv'
<1> SUFFICES ASSUME WalletInv, [Next]_vars PROVE WalletInv'
  OBVIOUS
<1>1. CASE Next
  <2>1. PICK w \in Workers, u \in Wallets :
           \/ \E kind \in Kinds, sum \in Sums : Move(w, u, kind, sum)
           \/ Commit(w, u)
           \/ Rollback(w, u)
    BY <1>1 DEF Next
  <2>2. QED
    BY <2>1, MoveInv, CommitInv, RollbackInv
<1>2. CASE UNCHANGED vars
  BY <1>2 DEF vars, WalletInv, TypeOK, LockedByTx, DraftContinues, LedgerIsBalance, NeverOverdrawn
<1>3. QED
  BY <1>1, <1>2

\* The wallet's variables keep their types, for any customers and workers.
THEOREM WalletTypes == Spec => []TypeOK
<1>1. WalletInv => TypeOK
  BY DEF WalletInv
<1>2. QED
  BY <1>1, InitInv, NextInv, PTL DEF Spec

\* However the workers interleave, a wallet's ledger adds up to its balance:
\* the row lock held to the end of the transaction rules out a lost update.
THEOREM LedgerNeverDrifts == Spec => []LedgerIsBalance
<1>1. WalletInv => LedgerIsBalance
  BY DEF WalletInv
<1>2. QED
  BY <1>1, InitInv, NextInv, PTL DEF Spec

\* No interleaving of purchases overdraws a wallet.
THEOREM NeverOverdrawnEver == Spec => []NeverOverdrawn
<1>1. WalletInv => NeverOverdrawn
  BY DEF WalletInv
<1>2. QED
  BY <1>1, InitInv, NextInv, PTL DEF Spec
=============================================================================
