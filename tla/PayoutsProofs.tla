--------------------------- MODULE PayoutsProofs ---------------------------
(***************************************************************************)
(* The invariants of Payouts, for any requests, deliveries, wallets, keys  *)
(* and amounts.  The first part holds with expired keys, overlapping       *)
(* deliveries, whatever other calls post and any number of failures: what  *)
(* rows a payout has, who may still write one, and that its hold was       *)
(* covered when posted, a statement about sums.  Then, what clients are    *)
(* promised for as long as nothing fails; and last, that where nothing can *)
(* fail Payouts implements PayoutPromise, step by step.                    *)
(***************************************************************************)
EXTENDS Payouts, LedgerOpsProofs

StoredEntry == [account : Accounts, amount : Int]

-----------------------------------------------------------------------------
(***************************************************************************)
(* The rows that payouts write                                             *)
(***************************************************************************)

LEMMA EntryTypes ==
    ASSUME NEW p \in Requests
    PROVE  /\ Entry(Payable(WalletOf[p]), AmountOf[p]) \in StoredEntry
           /\ Entry(Payable(WalletOf[p]), -AmountOf[p]) \in StoredEntry
           /\ Entry(Suspense(WalletOf[p]), AmountOf[p]) \in StoredEntry
           /\ Entry(Suspense(WalletOf[p]), -AmountOf[p]) \in StoredEntry
           /\ Entry(Cash(WalletOf[p]), -AmountOf[p]) \in StoredEntry
    BY OrderAssumption
       DEF Entry, StoredEntry, Accounts, Account, Payable, Suspense, Cash

LEMMA RowTypes ==
    ASSUME NEW p \in Requests
    PROVE  HoldRow(p) \in Row /\ SettleRow(p) \in Row /\ ReturnRow(p) \in Row
    BY EntryTypes DEF HoldRow, SettleRow, ReturnRow, Transaction, Row, StoredEntry, NoOriginal

\* The accounts of two wallets differ, and so do two accounts of one.
LEMMA AccountNames ==
    ASSUME NEW v, NEW w
    PROVE  /\ Payable(v) = Payable(w) <=> v = w
           /\ Suspense(v) # Payable(w) /\ Cash(v) # Payable(w)
    BY DEF Payable, Suspense, Cash, Account

-----------------------------------------------------------------------------
(***************************************************************************)
(* The hold of a payout                                                    *)
(***************************************************************************)

\* What HoldOf finds for a payout there is: its one hold, as initiatePayout wrote it.
LEMMA HoldFound ==
    ASSUME TypeOK, LedgerShape, HoldWithPayout, NEW r \in Requests, payouts[r] # "none"
    PROVE  /\ HoldOf(r) \in Holds(r) /\ HoldOf(r) \in DOMAIN ledger
           /\ ledger[HoldOf(r)] = HoldRow(r)
           /\ \A t \in Holds(r) : t = HoldOf(r)
<1>1. Holds(r) # {} /\ \A t, u \in Holds(r) : t = u
    BY DEF HoldWithPayout
<1>2. \E t \in PostedFor(ledger, r) : ledger[t].type = "PAYOUT_INITIATED"
    BY <1>1 DEF Holds
<1>3. HoldOf(r) \in PostedFor(ledger, r) /\ ledger[HoldOf(r)].type = "PAYOUT_INITIATED"
    BY <1>2 DEF HoldOf
<1>4. HoldOf(r) \in Holds(r)
    BY <1>3 DEF Holds
<1>5. HoldOf(r) \in DOMAIN ledger /\ ledger[HoldOf(r)].referenceId = r
    BY <1>3 DEF PostedFor
<1>6. ledger[HoldOf(r)] = HoldRow(r)
    BY <1>3, <1>5 DEF LedgerShape, IsHold
<1> QED
    BY <1>1, <1>4, <1>5, <1>6

\* The row with which _handleBankRejection takes a hold back.
LEMMA UndoRow ==
    ASSUME TypeOK, LedgerShape, HoldWithPayout, NEW r \in Requests, payouts[r] # "none",
           NEW row, row = ReversalOf(ledger, HoldOf(r), "ADJUSTMENT")
    PROVE  /\ row \in Row
           /\ row.referenceId = r /\ row.type = "ADJUSTMENT" /\ row.status = "POSTED"
           /\ row.original = HoldOf(r)
           /\ \A w \in Wallets : Touches(row, Payable(w)) => w = WalletOf[r]
<1> DEFINE es == HoldRow(r).entries
<1>1. ledger[HoldOf(r)] = HoldRow(r) /\ HoldOf(r) \in DOMAIN ledger
    BY HoldFound
<1>2. /\ row.referenceId = HoldRow(r).referenceId /\ row.original = HoldOf(r)
      /\ row.type = "ADJUSTMENT" /\ row.status = "POSTED"
      /\ row.entries = NegatedEntries(es)
    BY <1>1 DEF ReversalOf, Transaction
<1>3. HoldRow(r) \in Row
    BY RowTypes
<1>4. es \in Seq([account : Accounts, amount : Int])
    BY <1>3 DEF Row
<1>5. NegatedEntries(es) \in Seq([account : Accounts, amount : Int])
    BY <1>4, NegatedType
<1>6. HoldOf(r) \in Nat
    BY <1>1, LenProperties DEF TypeOK
<1>7. HoldRow(r).referenceId = r
    BY DEF HoldRow, Transaction
<1>8. row \in Row
    BY <1>1, <1>2, <1>5, <1>6, <1>7 DEF ReversalOf, Transaction, Row
<1>9. es = <<Entry(Payable(WalletOf[r]), AmountOf[r]), Entry(Suspense(WalletOf[r]), -AmountOf[r])>>
    BY DEF HoldRow, Transaction
<1>10. \A w \in Wallets : Touches(row, Payable(w)) => w = WalletOf[r]
    <2> SUFFICES ASSUME NEW w \in Wallets, NEW i \in DOMAIN row.entries,
                        row.entries[i].account = Payable(w)
                 PROVE  w = WalletOf[r]
        BY DEF Touches
    <2>1. i \in {1, 2} /\ row.entries[i].account = es[i].account
        BY <1>2, <1>9 DEF NegatedEntries, Entry
    <2>2. row.entries[i].account \in {Payable(WalletOf[r]), Suspense(WalletOf[r])}
        BY <2>1, <1>9 DEF Entry
    <2> QED
        BY <2>2, AccountNames
<1> QED
    BY <1>2, <1>7, <1>8, <1>10

\* What another call posts: a row of its own, or the reversal of a row it may reverse.
CallerPosts(c, row) ==
    /\ row \in Row /\ ~IsHold(row)
    /\ ledger' = Append(ledger, row) /\ Unlocked(row)
    /\ call[c].at \in {"idle", "post"} /\ call' = [call EXCEPT ![c].at = "done"]
    /\ UNCHANGED <<keys, payouts, lock, bank, requestVars, hook, faults, crashes>>
    /\ \/ row.original = NoOriginal /\ row.referenceId = Nobody
       \/ /\ row.original = call[c].original /\ row.original \in DOMAIN ledger
          /\ row.referenceId = ledger[row.original].referenceId
          /\ c \in Manual \/ row.referenceId = Nobody

LEMMA CallerRow ==
    ASSUME TypeOK, CallsInOrder, NEW c \in Callers,
           (\E row \in Drafts : PostDraft(c, row)) \/ PostReversal(c)
    PROVE  \E row \in Row : CallerPosts(c, row)
<1>1. ASSUME NEW row \in Drafts, PostDraft(c, row) PROVE row \in Row /\ CallerPosts(c, row)
    <2>1. row \in Row /\ NotOfPayouts(row)
        BY CallerAssumption
    <2>2. ~IsHold(row)
        BY <2>1, NameAssumption DEF NotOfPayouts, IsHold
    <2> QED
        BY <1>1, <2>1, <2>2 DEF PostDraft, CallerPosts, NotOfPayouts, NoCall
<1>2. CASE PostReversal(c)
    <2> DEFINE t == call[c].original
               row == ReversalOf(ledger, t, call[c].type)
    <2>1. /\ t \in DOMAIN ledger /\ call[c].type \in {"REFUND", "CHARGEBACK", "ADJUSTMENT"}
          /\ c \in Manual \/ ledger[t].referenceId = Nobody
        BY <1>2, CallerAssumption DEF CallsInOrder, PostReversal, MayReverse, NotOfPayouts
    <2>2. /\ row.referenceId = ledger[t].referenceId /\ row.original = t
          /\ row.type = call[c].type /\ row.entries = NegatedEntries(ledger[t].entries)
        BY DEF ReversalOf, Transaction
    <2>3. ledger[t] \in Row /\ t \in Nat
        BY <2>1, LenProperties, ElementOfSeq DEF TypeOK
    <2>4. ledger[t].entries \in Seq([account : Accounts, amount : Int])
        BY <2>3 DEF Row
    <2>5. NegatedEntries(ledger[t].entries) \in Seq([account : Accounts, amount : Int])
        BY <2>4, NegatedType
    <2>6. ledger[t].referenceId \in Requests \cup {Nobody}
        BY <2>3 DEF Row
    <2>7. row \in Row
        BY <2>1, <2>3, <2>5, <2>6 DEF ReversalOf, Transaction, Row
    <2>8. ~IsHold(row)
        BY <2>1, <2>2 DEF IsHold
    <2>9. /\ ledger' = Append(ledger, row) /\ Unlocked(row) /\ call[c].at = "post"
          /\ call' = [call EXCEPT ![c].at = "done"]
          /\ UNCHANGED <<keys, payouts, lock, bank, requestVars, hook, faults, crashes>>
        BY <1>2 DEF PostReversal
    <2> HIDE DEF row
    <2>10. CallerPosts(c, row)
        BY <2>1, <2>2, <2>7, <2>8, <2>9 DEF CallerPosts
    <2> QED
        BY <2>7, <2>10
<1> QED
    BY <1>1, <1>2

-----------------------------------------------------------------------------
(***************************************************************************)
(* Type correctness, with the ownership of the row lock                    *)
(***************************************************************************)

\* Every statement of IdempotencyService leaves a table of keys.
LEMMA KeysStep ==
    ASSUME KeysTypeOK, NEW k \in Keys, NEW response \in Responses,
           \/ Reserve(k) \/ DropExpired(k) \/ Complete(k, response) \/ Remove(k) \/ Expire(k)
           \/ UNCHANGED keys
    PROVE  KeysTypeOK'
<1> DEFINE new == [response |-> NoResponse, expired |-> FALSE]
<1>1. keys \in [Keys -> Rows \cup {NoRow}]
    BY DEF KeysTypeOK
<1>2. new \in Rows
    BY DEF Rows
<1>3. CASE Reserve(k)
    BY <1>1, <1>2, <1>3 DEF Reserve, KeysTypeOK
<1>4. CASE DropExpired(k) \/ Remove(k)
    BY <1>1, <1>4 DEF DropExpired, Remove, KeysTypeOK
<1>5. CASE Complete(k, response)
    <2>1. keys[k] \in Rows
        BY <1>1, <1>5 DEF Complete, Exists
    <2>2. [keys[k] EXCEPT !.response = response] \in Rows
        BY <2>1 DEF Rows
    <2>3. keys' = [keys EXCEPT ![k] = [keys[k] EXCEPT !.response = response]]
        BY <1>5 DEF Complete
    <2> QED
        BY <1>1, <2>2, <2>3 DEF KeysTypeOK
<1>6. CASE Expire(k)
    <2>1. keys[k] \in Rows
        BY <1>1, <1>6 DEF Expire, Exists
    <2>2. [keys[k] EXCEPT !.expired = TRUE] \in Rows
        BY <2>1 DEF Rows
    <2>3. keys' = [keys EXCEPT ![k] = [keys[k] EXCEPT !.expired = TRUE]]
        BY <1>6 DEF Expire
    <2> QED
        BY <1>1, <2>2, <2>3 DEF KeysTypeOK
<1>7. CASE UNCHANGED keys
    BY <1>1, <1>7 DEF KeysTypeOK
<1> QED
    BY <1>3, <1>4, <1>5, <1>6, <1>7

\* A request that is not in its transaction, and does not get into it, moves without
\* touching the locks.
LEMMA OutsideStep ==
    ASSUME TypeOK, NEW r \in Requests, UNCHANGED lock,
           pc[r] \notin {"locked", "hold"},
           \E label \in Labels \ {"locked", "hold"} : Goto(r, label)
    PROVE  pc' \in [Requests -> Labels] /\ LockOwned'
    BY DEF TypeOK, LockOwned, Goto

\* SELECT ... FOR UPDATE on a free row, and the end of the transaction.
LEMMA TakeLock ==
    ASSUME TypeOK, NEW r \in Requests, pc[r] \notin {"locked", "hold"},
           lock[WalletOf[r]] = Nobody, lock' = [lock EXCEPT ![WalletOf[r]] = r],
           Goto(r, "locked")
    PROVE  pc' \in [Requests -> Labels] /\ LockOwned'
<1>1. /\ WalletOf[r] \in Wallets /\ Nobody \notin Requests
      /\ pc \in [Requests -> Labels] /\ lock \in [Wallets -> Requests \cup {Nobody}]
      /\ pc' = [pc EXCEPT ![r] = "locked"] /\ "locked" \in Labels
    <2>1. WalletOf[r] \in Wallets /\ Nobody \notin Requests
        BY OrderAssumption, NameAssumption
    <2> QED
        BY <2>1 DEF TypeOK, LockOwned, Goto, Labels
<1>2. ASSUME NEW w \in Wallets, NEW q \in Requests
      PROVE  lock'[w] = q <=> pc'[q] \in {"locked", "hold"} /\ WalletOf[q] = w
    <2>1. lock[w] = q <=> pc[q] \in {"locked", "hold"} /\ WalletOf[q] = w
        BY DEF TypeOK, LockOwned
    <2> QED
        BY <1>1, <2>1
<1> QED
    BY <1>1, <1>2 DEF LockOwned

LEMMA FreeLock ==
    ASSUME TypeOK, NEW r \in Requests, pc[r] \in {"locked", "hold"},
           lock' = [lock EXCEPT ![WalletOf[r]] = Nobody],
           NEW label \in Labels \ {"locked", "hold"}, Goto(r, label)
    PROVE  pc' \in [Requests -> Labels] /\ LockOwned'
<1>1. /\ WalletOf[r] \in Wallets /\ Nobody \notin Requests
      /\ pc \in [Requests -> Labels] /\ lock \in [Wallets -> Requests \cup {Nobody}]
      /\ pc' = [pc EXCEPT ![r] = label]
    <2>1. WalletOf[r] \in Wallets /\ Nobody \notin Requests
        BY OrderAssumption, NameAssumption
    <2> QED
        BY <2>1 DEF TypeOK, LockOwned, Goto
<1>2. lock[WalletOf[r]] = r
    BY <1>1 DEF TypeOK, LockOwned
<1>3. ASSUME NEW w \in Wallets, NEW q \in Requests
      PROVE  lock'[w] = q <=> pc'[q] \in {"locked", "hold"} /\ WalletOf[q] = w
    <2>1. lock[w] = q <=> pc[q] \in {"locked", "hold"} /\ WalletOf[q] = w
        BY DEF TypeOK, LockOwned
    <2> QED
        BY <1>1, <1>2, <2>1
<1> QED
    BY <1>1, <1>3 DEF LockOwned

\* A delivery under way goes on to its next statement.
LEMMA DeliveryStep ==
    ASSUME TypeOK, NEW h \in Webhooks, Underway(h), NEW label \in {"mark", "done"},
           hook' = [hook EXCEPT ![h].at = label]
    PROVE  /\ hook' \in [Webhooks -> Deliveries]
           /\ hook[h].payout \in Requests /\ hook[h].status \in Outcomes
<1>1. hook \in [Webhooks -> Deliveries]
    BY DEF TypeOK
<1>2. hook[h] \in [at : {"post", "mark", "done"}, payout : Requests, status : Outcomes]
    BY <1>1 DEF Underway, Deliveries, NoDelivery
<1>3. [hook[h] EXCEPT !.at = label] \in Deliveries
    BY <1>2 DEF Deliveries
<1>4. hook' = [hook EXCEPT ![h] = [hook[h] EXCEPT !.at = label]]
    OBVIOUS
<1> QED
    BY <1>1, <1>2, <1>3, <1>4

LEMMA TypeStep == IInv /\ [Next]_vars => TypeOK'
<1> SUFFICES ASSUME IInv, [Next]_vars PROVE TypeOK'
    OBVIOUS
<1>1. TypeOK /\ LedgerShape /\ HoldWithPayout /\ CallsInOrder
    BY DEF IInv
<1>2. TypeOK'
    <2> USE <1>1
    <2>1. ASSUME NEW r \in Requests, FindKey(r) PROVE TypeOK'
        <3>1. pc' \in [Requests -> Labels] /\ LockOwned'
            BY <2>1, OutsideStep DEF FindKey, Labels
        <3>2. KeysTypeOK'
            BY <2>1 DEF FindKey, TypeOK, KeysTypeOK
        <3> QED
            BY <2>1, <3>1, <3>2 DEF FindKey, TypeOK
    <2>2. ASSUME NEW r \in Requests, ReserveKey(r) PROVE TypeOK'
        <3>1. pc' \in [Requests -> Labels] /\ LockOwned'
            BY <2>2, OutsideStep DEF ReserveKey, Labels
        <3>2. KeysTypeOK'
            BY <2>2, KeysStep, NameAssumption, OrderAssumption DEF ReserveKey, TypeOK
        <3> QED
            BY <2>2, <3>1, <3>2 DEF ReserveKey, TypeOK
    <2>3. ASSUME NEW r \in Requests, DropKey(r) PROVE TypeOK'
        <3>1. pc' \in [Requests -> Labels] /\ LockOwned'
            BY <2>3, OutsideStep DEF DropKey, Labels
        <3>2. KeysTypeOK'
            BY <2>3, KeysStep, NameAssumption, OrderAssumption DEF DropKey, TypeOK
        <3> QED
            BY <2>3, <3>1, <3>2 DEF DropKey, TypeOK
    <2>4. ASSUME NEW r \in Requests, LockPayable(r) PROVE TypeOK'
        <3>1. KeysTypeOK'
            BY <2>4 DEF LockPayable, TypeOK, KeysTypeOK
        <3>2. pc' \in [Requests -> Labels] /\ LockOwned'
            BY <2>4, TakeLock DEF LockPayable
        <3> QED
            BY <2>4, <3>1, <3>2 DEF LockPayable, TypeOK
    <2>5. ASSUME NEW r \in Requests, ReadBalance(r) PROVE TypeOK'
        <3>1. KeysTypeOK'
            BY <2>5 DEF ReadBalance, TypeOK, KeysTypeOK
        <3>2. pc' \in [Requests -> Labels] /\ LockOwned'
            <4>1. CASE Goto(r, "hold") /\ UNCHANGED lock
                BY <2>5, <4>1 DEF ReadBalance, TypeOK, LockOwned, Goto, Labels
            <4>2. CASE Goto(r, "removeKey") /\ lock' = [lock EXCEPT ![WalletOf[r]] = Nobody]
                BY <2>5, <4>2, FreeLock DEF ReadBalance, Labels
            <4> QED
                BY <2>5, <4>1, <4>2 DEF ReadBalance
        <3> QED
            BY <2>5, <3>1, <3>2, LenProperties DEF ReadBalance, TypeOK
    <2>6. ASSUME NEW r \in Requests, CommitHold(r) PROVE TypeOK'
        <3>row. ledger' \in Seq(Row)
            BY <2>6, RowTypes, AppendRow DEF CommitHold, TypeOK
        <3>1. KeysTypeOK'
            BY <2>6 DEF CommitHold, TypeOK, KeysTypeOK
        <3>2. pc' \in [Requests -> Labels] /\ LockOwned'
            BY <2>6, FreeLock DEF CommitHold, Labels
        <3> QED
            BY <2>6, <3>1, <3>2, <3>row DEF CommitHold, TypeOK, Statuses
    <2>7. ASSUME NEW r \in Requests, SubmitToBank(r) PROVE TypeOK'
        <3>1. pc' \in [Requests -> Labels] /\ LockOwned'
            BY <2>7, OutsideStep DEF SubmitToBank, Labels
        <3>2. KeysTypeOK'
            BY <2>7 DEF SubmitToBank, TypeOK, KeysTypeOK
        <3> QED
            BY <2>7, <3>1, <3>2 DEF SubmitToBank, TypeOK
    <2>8. ASSUME NEW r \in Requests, MarkSubmitted(r) PROVE TypeOK'
        <3>1. pc' \in [Requests -> Labels] /\ LockOwned'
            BY <2>8, OutsideStep DEF MarkSubmitted, Labels
        <3>2. KeysTypeOK'
            BY <2>8 DEF MarkSubmitted, TypeOK, KeysTypeOK
        <3> QED
            BY <2>8, <3>1, <3>2 DEF MarkSubmitted, TypeOK, Statuses
    <2>9. ASSUME NEW r \in Requests, CompleteKey(r) PROVE TypeOK'
        <3>1. pc' \in [Requests -> Labels] /\ LockOwned'
            BY <2>9, OutsideStep DEF CompleteKey, Labels
        <3>2. KeysTypeOK'
            BY <2>9, KeysStep, NameAssumption, OrderAssumption DEF CompleteKey, TypeOK
        <3> QED
            BY <2>9, <3>1, <3>2 DEF CompleteKey, TypeOK
    <2>10. ASSUME NEW r \in Requests, ReadHold(r) PROVE TypeOK'
        <3>1. pc' \in [Requests -> Labels] /\ LockOwned'
            BY <2>10, OutsideStep DEF ReadHold, Labels
        <3>2. KeysTypeOK'
            BY <2>10 DEF ReadHold, TypeOK, KeysTypeOK
        <3> QED
            BY <2>10, <3>1, <3>2 DEF ReadHold, TypeOK
    <2>11. ASSUME NEW r \in Requests, ReverseHold(r) PROVE TypeOK'
        <3>held. payouts[r] # "none"
            BY <2>11 DEF ReverseHold, IInv, PayoutExists, AfterHold
        <3>row. ledger' \in Seq(Row)
            BY <2>11, <3>held, UndoRow, AppendRow DEF ReverseHold, TypeOK
        <3>1. pc' \in [Requests -> Labels] /\ LockOwned'
            BY <2>11, OutsideStep DEF ReverseHold, Labels
        <3>2. KeysTypeOK'
            BY <2>11 DEF ReverseHold, TypeOK, KeysTypeOK
        <3> QED
            BY <2>11, <3>1, <3>2, <3>row DEF ReverseHold, TypeOK
    <2>12. ASSUME NEW r \in Requests, MarkFailed(r) PROVE TypeOK'
        <3>1. pc' \in [Requests -> Labels] /\ LockOwned'
            BY <2>12, OutsideStep DEF MarkFailed, Labels
        <3>2. KeysTypeOK'
            BY <2>12 DEF MarkFailed, TypeOK, KeysTypeOK
        <3> QED
            BY <2>12, <3>1, <3>2 DEF MarkFailed, TypeOK, Statuses
    <2>13. ASSUME NEW r \in Requests, RemoveKey(r) PROVE TypeOK'
        <3>1. pc' \in [Requests -> Labels] /\ LockOwned'
            BY <2>13, OutsideStep DEF RemoveKey, Labels
        <3>2. KeysTypeOK'
            BY <2>13, KeysStep, NameAssumption, OrderAssumption DEF RemoveKey, TypeOK
        <3> QED
            BY <2>13, <3>1, <3>2 DEF RemoveKey, TypeOK
    <2>14. ASSUME NEW r \in Requests, TransactionFails(r) PROVE TypeOK'
        <3>1. KeysTypeOK'
            BY <2>14 DEF TransactionFails, TypeOK, KeysTypeOK
        <3>2. pc' \in [Requests -> Labels] /\ LockOwned'
            BY <2>14, NameAssumption, OrderAssumption
               DEF TransactionFails, TypeOK, LockOwned, Labels, Goto, InTransaction
        <3>3. path' \in [Requests -> {"none", "tx", "rejected", "error"}] /\ faults' \in Nat
            BY <2>14 DEF TransactionFails, TypeOK
        <3> QED
            BY <2>14, <3>1, <3>2, <3>3 DEF TransactionFails, TypeOK
    <2>15. ASSUME NEW r \in Requests, CaughtFailure(r) PROVE TypeOK'
        <3>1. pc' \in [Requests -> Labels] /\ LockOwned'
            BY <2>15, OutsideStep DEF CaughtFailure, Labels
        <3>2. KeysTypeOK'
            BY <2>15 DEF CaughtFailure, TypeOK, KeysTypeOK
        <3>3. path' \in [Requests -> {"none", "tx", "rejected", "error"}] /\ faults' \in Nat
            BY <2>15 DEF CaughtFailure, TypeOK
        <3> QED
            BY <2>15, <3>1, <3>2, <3>3 DEF CaughtFailure, TypeOK
    <2>16. ASSUME NEW r \in Requests, UncaughtFailure(r) PROVE TypeOK'
        <3>1. pc' \in [Requests -> Labels] /\ LockOwned'
            BY <2>16, OutsideStep DEF UncaughtFailure, Labels
        <3>2. KeysTypeOK'
            BY <2>16 DEF UncaughtFailure, TypeOK, KeysTypeOK
        <3> QED
            BY <2>16, <3>1, <3>2 DEF UncaughtFailure, TypeOK
    <2>17. ASSUME NEW h \in Webhooks, NEW p \in Requests, Deliver(h, p) PROVE TypeOK'
        <3>1. KeysTypeOK'
            BY <2>17 DEF Deliver, TypeOK, KeysTypeOK, requestVars
        <3>2. pc' \in [Requests -> Labels] /\ LockOwned'
            BY <2>17 DEF Deliver, TypeOK, LockOwned, requestVars
        <3> QED
            BY <2>17, <3>1, <3>2 DEF Deliver, TypeOK, requestVars, Deliveries, Delivery
    <2>18. ASSUME NEW h \in Webhooks, PostRelease(h) PROVE TypeOK'
        <3>due. hook[h].at = "post" /\ hook[h] \in Deliveries /\ hook[h].payout \in Requests
            BY <2>18 DEF PostRelease, NoDelivery, Deliveries, TypeOK
        <3>row. ledger' \in Seq(Row)
            BY <2>18, <3>due, RowTypes, AppendRow DEF PostRelease, ReleaseRow, TypeOK
        <3>1. KeysTypeOK'
            BY <2>18 DEF PostRelease, TypeOK, KeysTypeOK, requestVars
        <3>2. pc' \in [Requests -> Labels] /\ LockOwned'
            BY <2>18 DEF PostRelease, TypeOK, LockOwned, requestVars
        <3> QED
            BY <2>18, <3>1, <3>2, <3>row, DeliveryStep
               DEF PostRelease, TypeOK, requestVars, Underway
    <2>19. ASSUME NEW h \in Webhooks, MarkOutcome(h) PROVE TypeOK'
        <3>1. KeysTypeOK'
            BY <2>19 DEF MarkOutcome, TypeOK, KeysTypeOK, requestVars
        <3>2. pc' \in [Requests -> Labels] /\ LockOwned'
            BY <2>19 DEF MarkOutcome, TypeOK, LockOwned, requestVars
        <3> QED
            BY <2>19, <3>1, <3>2, DeliveryStep
               DEF MarkOutcome, TypeOK, requestVars, Underway, Statuses
    <2>20. ASSUME NEW h \in Webhooks, DeliveryFails(h) PROVE TypeOK'
        <3>1. KeysTypeOK'
            BY <2>20 DEF DeliveryFails, TypeOK, KeysTypeOK, requestVars
        <3>2. pc' \in [Requests -> Labels] /\ LockOwned'
            BY <2>20 DEF DeliveryFails, TypeOK, LockOwned, requestVars
        <3>3. hook' \in [Webhooks -> Deliveries]
            BY <2>20, DeliveryStep DEF DeliveryFails
        <3>4. faults' \in Nat
            BY <2>20 DEF DeliveryFails, TypeOK
        <3> QED
            BY <2>20, <3>1, <3>2, <3>3, <3>4 DEF DeliveryFails, TypeOK, requestVars
    <2>21. ASSUME NEW p \in Requests, NEW outcome \in Outcomes, BankDecides(p, outcome) PROVE TypeOK'
        <3>1. KeysTypeOK'
            BY <2>21 DEF BankDecides, TypeOK, KeysTypeOK, requestVars
        <3>2. pc' \in [Requests -> Labels] /\ LockOwned'
            BY <2>21 DEF BankDecides, TypeOK, LockOwned, requestVars
        <3> QED
            BY <2>21, <3>1, <3>2 DEF BankDecides, TypeOK, requestVars
    <2>22. ASSUME NEW k \in Keys, KeyExpires(k) PROVE TypeOK'
        <3>1. KeysTypeOK'
            BY <2>22 DEF KeyExpires, TypeOK, KeysTypeOK, Expire, Exists, Rows
        <3> QED
            BY <2>22, <3>1 DEF KeyExpires, TypeOK, LockOwned, requestVars
    <2>23. ASSUME Crash PROVE TypeOK'
        <3>1. KeysTypeOK'
            BY <2>23 DEF Crash, TypeOK, KeysTypeOK
        <3>2. pc' \in [Requests -> Labels] /\ LockOwned'
            BY <2>23, NameAssumption DEF Crash, TypeOK, LockOwned, Labels, Ended
        <3>3. call' \in [Callers -> Calls]
            BY <2>23 DEF Crash, TypeOK, Calls
        <3> QED
            BY <2>23, <3>1, <3>2, <3>3 DEF Crash, TypeOK, Deliveries, Delivery, NoDelivery, Underway
    <2>24. ASSUME NEW c \in Callers, CallerStep(c) PROVE TypeOK'
        <3>1. ASSUME NEW t \in DOMAIN ledger, NEW type \in ReversalTypes, ReadRow(c, t, type)
              PROVE  TypeOK'
            <4>1. t \in Nat
                BY LenProperties DEF TypeOK
            <4>2. Reversing("post", t, type) \in Calls
                BY <4>1 DEF Reversing, Calls
            <4>3. call' \in [Callers -> Calls]
                BY <3>1, <4>2 DEF ReadRow, TypeOK
            <4>4. KeysTypeOK'
                BY <3>1 DEF ReadRow, TypeOK, KeysTypeOK
            <4> QED
                BY <3>1, <4>3, <4>4 DEF ReadRow, TypeOK, LockOwned, requestVars
        <3>2. ASSUME NEW label \in {"done", "failed"}, call' = [call EXCEPT ![c].at = label]
              PROVE  call' \in [Callers -> Calls]
            <4>1. call \in [Callers -> Calls] /\ call[c] \in Calls
                BY DEF TypeOK
            <4>2. [call[c] EXCEPT !.at = label] \in Calls
                BY <4>1 DEF Calls
            <4> QED
                BY <3>2, <4>1, <4>2
        <3>3. CASE ReversalFails(c)
            <4>1. call' \in [Callers -> Calls] /\ faults' \in Nat
                BY <3>2, <3>3 DEF ReversalFails, TypeOK
            <4>2. KeysTypeOK'
                BY <3>3 DEF ReversalFails, TypeOK, KeysTypeOK
            <4> QED
                BY <3>3, <4>1, <4>2 DEF ReversalFails, TypeOK, LockOwned, requestVars
        <3>4. ASSUME NEW row \in Row, CallerPosts(c, row) PROVE TypeOK'
            <4>1. ledger' \in Seq(Row)
                BY <3>4, AppendRow DEF CallerPosts, TypeOK
            <4>2. call' \in [Callers -> Calls]
                BY <3>2, <3>4 DEF CallerPosts
            <4>3. KeysTypeOK'
                BY <3>4 DEF CallerPosts, TypeOK, KeysTypeOK
            <4> QED
                BY <3>4, <4>1, <4>2, <4>3 DEF CallerPosts, TypeOK, LockOwned, requestVars
        <3> QED
            BY <2>24, <3>1, <3>3, <3>4, CallerRow DEF CallerStep
    <2>25. CASE UNCHANGED vars
        BY <2>25 DEF vars, requestVars, TypeOK, KeysTypeOK, LockOwned
    <2> QED
        BY <2>1, <2>2, <2>3, <2>4, <2>5, <2>6, <2>7, <2>8, <2>9, <2>10, <2>11, <2>12, <2>13, <2>14,
           <2>15, <2>16, <2>17, <2>18, <2>19, <2>20, <2>21, <2>22, <2>23, <2>24, <2>25
           DEF Next, RequestStep, StepFails, HandleDelivery, CheckKey, HoldMoney, FollowBank, UndoHold
<1> QED
    BY <1>2

-----------------------------------------------------------------------------
(***************************************************************************)
(* What the place of a request says of its payout                          *)
(***************************************************************************)

LEMMA ExistsStep == IInv /\ [Next]_vars => PayoutExists'
<1> SUFFICES ASSUME IInv, [Next]_vars PROVE PayoutExists'
    OBVIOUS
<1>1. TypeOK /\ PayoutExists
    BY DEF IInv
<1>2. PayoutExists'
    <2> USE <1>1
    <2>1. ASSUME NEW r \in Requests, FindKey(r) PROVE PayoutExists'
        BY <2>1 DEF FindKey, PayoutExists, BeforeHold, AfterHold, TypeOK, Goto
    <2>2. ASSUME NEW r \in Requests, ReserveKey(r) PROVE PayoutExists'
        BY <2>2 DEF ReserveKey, PayoutExists, BeforeHold, AfterHold, TypeOK, Goto
    <2>3. ASSUME NEW r \in Requests, DropKey(r) PROVE PayoutExists'
        BY <2>3 DEF DropKey, PayoutExists, BeforeHold, AfterHold, TypeOK, Goto
    <2>4. ASSUME NEW r \in Requests, LockPayable(r) PROVE PayoutExists'
        BY <2>4 DEF LockPayable, PayoutExists, BeforeHold, AfterHold, TypeOK, Goto
    <2>5. ASSUME NEW r \in Requests, ReadBalance(r) PROVE PayoutExists'
        BY <2>5 DEF ReadBalance, PayoutExists, BeforeHold, AfterHold, TypeOK, Goto
    <2>6. ASSUME NEW r \in Requests, CommitHold(r) PROVE PayoutExists'
        BY <2>6 DEF CommitHold, PayoutExists, BeforeHold, AfterHold, TypeOK, Goto
    <2>7. ASSUME NEW r \in Requests, SubmitToBank(r) PROVE PayoutExists'
        BY <2>7 DEF SubmitToBank, PayoutExists, BeforeHold, AfterHold, TypeOK, Goto
    <2>8. ASSUME NEW r \in Requests, MarkSubmitted(r) PROVE PayoutExists'
        BY <2>8 DEF MarkSubmitted, PayoutExists, BeforeHold, AfterHold, TypeOK, Goto
    <2>9. ASSUME NEW r \in Requests, CompleteKey(r) PROVE PayoutExists'
        BY <2>9 DEF CompleteKey, PayoutExists, BeforeHold, AfterHold, TypeOK, Goto
    <2>10. ASSUME NEW r \in Requests, ReadHold(r) PROVE PayoutExists'
        BY <2>10 DEF ReadHold, PayoutExists, BeforeHold, AfterHold, TypeOK, Goto
    <2>11. ASSUME NEW r \in Requests, ReverseHold(r) PROVE PayoutExists'
        BY <2>11 DEF ReverseHold, PayoutExists, BeforeHold, AfterHold, TypeOK, Goto
    <2>12. ASSUME NEW r \in Requests, MarkFailed(r) PROVE PayoutExists'
        BY <2>12 DEF MarkFailed, PayoutExists, BeforeHold, AfterHold, TypeOK, Goto
    <2>13. ASSUME NEW r \in Requests, RemoveKey(r) PROVE PayoutExists'
        BY <2>13 DEF RemoveKey, PayoutExists, BeforeHold, AfterHold, TypeOK, Goto
    <2>14. ASSUME NEW r \in Requests, TransactionFails(r) PROVE PayoutExists'
        BY <2>14
           DEF TransactionFails, PayoutExists, BeforeHold, AfterHold, TypeOK, Goto, InTransaction
    <2>15. ASSUME NEW r \in Requests, CaughtFailure(r) PROVE PayoutExists'
        BY <2>15 DEF CaughtFailure, PayoutExists, BeforeHold, AfterHold, TypeOK, Goto
    <2>16. ASSUME NEW r \in Requests, UncaughtFailure(r) PROVE PayoutExists'
        BY <2>16 DEF UncaughtFailure, PayoutExists, BeforeHold, AfterHold, TypeOK, Goto
    <2>17. ASSUME NEW h \in Webhooks, NEW p \in Requests, Deliver(h, p) PROVE PayoutExists'
        BY <2>17
           DEF Deliver, PayoutExists, BeforeHold, AfterHold, TypeOK, requestVars, Delivery,
               NoDelivery, Deliveries, Underway, Outcomes
    <2>18. ASSUME NEW h \in Webhooks, PostRelease(h) PROVE PayoutExists'
        BY <2>18
           DEF PostRelease, PayoutExists, BeforeHold, AfterHold, TypeOK, requestVars, Delivery,
               NoDelivery, Deliveries, Underway
    <2>19. ASSUME NEW h \in Webhooks, MarkOutcome(h) PROVE PayoutExists'
        <3>1. hook[h].payout \in Requests /\ hook[h].status # "none"
            BY <2>19, DeliveryStep DEF MarkOutcome, Underway, Outcomes
        <3>2. \A p \in Requests : payouts'[p] = "none" <=> payouts[p] = "none"
            BY <2>19, <3>1 DEF MarkOutcome, PayoutExists, TypeOK
        <3>3. \A g \in Webhooks : /\ hook'[g].payout = hook[g].payout
                                  /\ hook'[g].at # "idle" => hook[g].at # "idle"
            BY <2>19 DEF MarkOutcome, TypeOK
        <3>4. \A g \in Webhooks : hook[g].at # "idle" => hook[g].payout \in Requests
            BY DEF TypeOK, Deliveries, NoDelivery
        <3> QED
            BY <2>19, <3>2, <3>3, <3>4 DEF MarkOutcome, PayoutExists, requestVars
    <2>20. ASSUME NEW h \in Webhooks, DeliveryFails(h) PROVE PayoutExists'
        BY <2>20
           DEF DeliveryFails, PayoutExists, BeforeHold, AfterHold, TypeOK, requestVars, Delivery,
               NoDelivery, Deliveries, Underway
    <2>21. ASSUME NEW p \in Requests, NEW outcome \in Outcomes, BankDecides(p, outcome) PROVE PayoutExists'
        BY <2>21 DEF BankDecides, PayoutExists, BeforeHold, AfterHold, TypeOK, requestVars, Outcomes
    <2>22. ASSUME NEW k \in Keys, KeyExpires(k) PROVE PayoutExists'
        BY <2>22 DEF KeyExpires, PayoutExists, BeforeHold, AfterHold, TypeOK, requestVars
    <2>23. ASSUME Crash PROVE PayoutExists'
        BY <2>23
           DEF Crash, PayoutExists, BeforeHold, AfterHold, TypeOK, Delivery, NoDelivery,
               Deliveries, Underway, Ended
    <2>24. ASSUME NEW c \in Callers, CallerStep(c) PROVE PayoutExists'
        BY <2>24 DEF CallerStep, PostDraft, ReadRow, PostReversal, ReversalFails, PayoutExists,
                     requestVars
    <2>25. CASE UNCHANGED vars
        BY <2>25 DEF vars, PayoutExists, BeforeHold, AfterHold, TypeOK, requestVars
    <2> QED
        BY <2>1, <2>2, <2>3, <2>4, <2>5, <2>6, <2>7, <2>8, <2>9, <2>10, <2>11, <2>12, <2>13, <2>14,
           <2>15, <2>16, <2>17, <2>18, <2>19, <2>20, <2>21, <2>22, <2>23, <2>24, <2>25
           DEF Next, RequestStep, StepFails, HandleDelivery, CheckKey, HoldMoney, FollowBank, UndoHold
<1> QED
    BY <1>2

-----------------------------------------------------------------------------
(***************************************************************************)
(* Steps that post nothing                                                 *)
(***************************************************************************)

Final == {"SETTLED", "RETURNED", "FAILED"}

\* What a step that posts nothing may do, as far as the ledger's invariants can tell.
QuietMove ==
    /\ UNCHANGED ledger
    /\ \A p \in Requests : payouts'[p] = "none" <=> payouts[p] = "none"
    /\ \A p \in Requests : payouts'[p] \in Final =>
          \/ payouts[p] \in Final
          \/ pc[p] \in {"markFailed", "failAgain"}
          \/ \E h \in Webhooks : hook[h].at = "mark" /\ hook[h].payout = p
    /\ \A r \in Requests : pc'[r] = "reverse" =>
          pc[r] = "reverse" \/ Reversible(ledger, HoldOf(r))
    /\ \A r \in Requests : pc'[r] \in {"markFailed", "failAgain"} =>
          pc[r] \in {"markFailed", "failAgain"}
    /\ \A r \in Requests : pc'[r] = "hold" =>
          \/ pc[r] = "hold" /\ seen'[r] = seen[r]
          \/ AmountOf[r] <= Available(WalletOf[r]) /\ seen'[r] = Len(ledger)
    /\ \A h \in Webhooks : hook'[h].at = "mark" =>
          hook[h].at = "mark" /\ hook'[h].payout = hook[h].payout
    /\ \A c \in Callers :
          /\ call[c].at = "done" => call'[c] = call[c]
          /\ call'[c].at = "post" =>
                \/ call'[c] = call[c]
                \/ /\ call'[c].original \in DOMAIN ledger /\ call'[c].type \in ReversalTypes
                   /\ MayReverse(c, call'[c].original, call'[c].type)

\* Every step moves so, or posts a row.
LEMMA QuietStep ==
    ASSUME IInv, [Next]_vars
    PROVE  \/ QuietMove
           \/ \E r \in Requests : CommitHold(r) \/ ReverseHold(r)
           \/ \E h \in Webhooks : PostRelease(h)
           \/ \E c \in Callers, row \in Row : CallerPosts(c, row)
<1>1. TypeOK /\ PayoutExists /\ CallsInOrder
    BY DEF IInv
<1>2. SUFFICES ASSUME ~\E r \in Requests : CommitHold(r) \/ ReverseHold(r),
                      ~\E h \in Webhooks : PostRelease(h),
                      ~\E c \in Callers, row \in Row : CallerPosts(c, row)
               PROVE  QuietMove
    OBVIOUS
<1>3. QuietMove
    <2> USE <1>1
    <2>1. ASSUME NEW r \in Requests, FindKey(r) PROVE QuietMove
        BY <2>1 DEF FindKey, QuietMove, Final, TypeOK, Goto
    <2>2. ASSUME NEW r \in Requests, ReserveKey(r) PROVE QuietMove
        BY <2>2 DEF ReserveKey, QuietMove, Final, TypeOK, Goto
    <2>3. ASSUME NEW r \in Requests, DropKey(r) PROVE QuietMove
        BY <2>3 DEF DropKey, QuietMove, Final, TypeOK, Goto
    <2>4. ASSUME NEW r \in Requests, LockPayable(r) PROVE QuietMove
        BY <2>4 DEF LockPayable, QuietMove, Final, TypeOK, Goto
    <2>5. ASSUME NEW r \in Requests, ReadBalance(r) PROVE QuietMove
        BY <2>5 DEF ReadBalance, QuietMove, Final, TypeOK, Goto
    <2>6. ASSUME NEW r \in Requests, SubmitToBank(r) PROVE QuietMove
        BY <2>6 DEF SubmitToBank, QuietMove, Final, TypeOK, Goto
    <2>7. ASSUME NEW r \in Requests, MarkSubmitted(r) PROVE QuietMove
        BY <2>7 DEF MarkSubmitted, QuietMove, Final, TypeOK, Goto, PayoutExists, AfterHold
    <2>8. ASSUME NEW r \in Requests, CompleteKey(r) PROVE QuietMove
        BY <2>8 DEF CompleteKey, QuietMove, Final, TypeOK, Goto
    <2>9. ASSUME NEW r \in Requests, ReadHold(r) PROVE QuietMove
        BY <2>9 DEF ReadHold, QuietMove, Final, TypeOK, Goto
    <2>10. ASSUME NEW r \in Requests, MarkFailed(r) PROVE QuietMove
        BY <2>10 DEF MarkFailed, QuietMove, Final, TypeOK, Goto, PayoutExists, AfterHold
    <2>11. ASSUME NEW r \in Requests, RemoveKey(r) PROVE QuietMove
        BY <2>11 DEF RemoveKey, QuietMove, Final, TypeOK, Goto
    <2>12. ASSUME NEW r \in Requests, TransactionFails(r) PROVE QuietMove
        BY <2>12 DEF TransactionFails, QuietMove, Final, TypeOK, Goto, InTransaction
    <2>13. ASSUME NEW r \in Requests, CaughtFailure(r) PROVE QuietMove
        BY <2>13 DEF CaughtFailure, QuietMove, Final, TypeOK, Goto
    <2>14. ASSUME NEW r \in Requests, UncaughtFailure(r) PROVE QuietMove
        BY <2>14 DEF UncaughtFailure, QuietMove, Final, TypeOK, Goto
    <2>15. ASSUME NEW h \in Webhooks, NEW p \in Requests, Deliver(h, p) PROVE QuietMove
        BY <2>15
           DEF Deliver, QuietMove, Final, TypeOK, requestVars, Delivery, NoDelivery, Deliveries,
               Underway
    <2>16. ASSUME NEW h \in Webhooks, MarkOutcome(h) PROVE QuietMove
        <3>1. hook[h].payout \in Requests /\ hook[h].status # "none"
            BY <2>16, DeliveryStep DEF MarkOutcome, Underway, Outcomes
        <3>2. payouts[hook[h].payout] # "none"
            BY <2>16 DEF MarkOutcome, PayoutExists
        <3> QED
            BY <2>16, <3>1, <3>2 DEF MarkOutcome, QuietMove, Final, TypeOK, requestVars
    <2>17. ASSUME NEW h \in Webhooks, DeliveryFails(h) PROVE QuietMove
        BY <2>17
           DEF DeliveryFails, QuietMove, Final, TypeOK, requestVars, Delivery, NoDelivery,
               Deliveries, Underway
    <2>18. ASSUME NEW p \in Requests, NEW outcome \in Outcomes, BankDecides(p, outcome) PROVE QuietMove
        BY <2>18 DEF BankDecides, QuietMove, Final, TypeOK, requestVars
    <2>19. ASSUME NEW k \in Keys, KeyExpires(k) PROVE QuietMove
        BY <2>19 DEF KeyExpires, QuietMove, Final, TypeOK, requestVars
    <2>20. ASSUME Crash PROVE QuietMove
        BY <2>20
           DEF Crash, QuietMove, Final, TypeOK, Delivery, NoDelivery, Deliveries, Underway, Ended,
               Calls
    <2>21. CASE UNCHANGED vars
        BY <2>21 DEF vars, QuietMove, Final, TypeOK, requestVars
    <2>22. ASSUME NEW c \in Callers, CallerStep(c) PROVE QuietMove
        <3>1. ASSUME NEW t \in DOMAIN ledger, NEW type \in ReversalTypes, ReadRow(c, t, type)
              PROVE  QuietMove
            <4>1. \A d \in Callers : call'[d] = IF d = c THEN Reversing("post", t, type) ELSE call[d]
                BY <3>1 DEF ReadRow, TypeOK
            <4>2. call[c].at = "idle"
                BY <3>1 DEF ReadRow, NoCall
            <4>3. /\ Reversing("post", t, type).original = t
                  /\ Reversing("post", t, type).type = type /\ MayReverse(c, t, type)
                BY <3>1 DEF Reversing, ReadRow
            <4> HIDE DEF MayReverse, Reversing
            <4> QED
                BY <3>1, <4>1, <4>2, <4>3 DEF ReadRow, QuietMove, Final, requestVars
        <3>2. CASE ReversalFails(c)
            BY <3>2 DEF ReversalFails, QuietMove, Final, TypeOK, Calls, requestVars
        <3>3. ASSUME (\E row \in Drafts : PostDraft(c, row)) \/ PostReversal(c) PROVE FALSE
            BY <1>2, <3>3, CallerRow
        <3> QED
            BY <2>22, <3>1, <3>2, <3>3 DEF CallerStep
    <2> QED
        BY <1>2, <2>22, <2>1, <2>2, <2>3, <2>4, <2>5, <2>6, <2>7, <2>8, <2>9, <2>10, <2>11, <2>12, <2>13,
           <2>14, <2>15, <2>16, <2>17, <2>18, <2>19, <2>20, <2>21
           DEF Next, RequestStep, StepFails, HandleDelivery, CheckKey, HoldMoney, FollowBank, UndoHold
<1> QED
    BY <1>3

LEMMA QuietKeeps ==
    ASSUME IInv, TypeOK', PayoutExists', QuietMove
    PROVE  IInv'
<1> USE DEF IInv, QuietMove
<1>1. /\ \A p \in Requests : Holds(p)' = Holds(p) /\ Releases(p)' = Releases(p)
      /\ \A r \in Requests : HoldOf(r)' = HoldOf(r)
      /\ \A p : Holds(p)' = Holds(p)
    BY DEF Holds, Releases, PostedFor, HoldOf
<1>2. LedgerShape'
    BY <1>1 DEF LedgerShape
<1>3. HoldWithPayout'
    BY <1>1 DEF HoldWithPayout
<1>hand. \A t : ReversedByHand(t) => ReversedByHand(t)'
    BY CallerAssumption DEF ReversedByHand
<1>4. StillReversible'
    BY <1>1, <1>hand DEF StillReversible, Reversible
<1>5. HoldReversedOnce'
    BY <1>1, <1>hand DEF HoldReversedOnce
<1>calls. CallsInOrder'
    BY DEF CallsInOrder, MayReverse
<1>6. ReleasedFirst'
    <2>1. \A h \in Webhooks : hook[h].at = "mark" => hook[h].payout \in Requests
        BY DEF TypeOK, Deliveries, NoDelivery
    <2> QED
        BY <1>1, <2>1 DEF ReleasedFirst
<1>7. FinalMeansReleased'
    BY <1>1 DEF FinalMeansReleased, ReleasedFirst, Final
<1>8. BalanceStaysCurrent'
    <2> SUFFICES ASSUME NEW r \in Requests, pc'[r] = "hold", NEW t \in DOMAIN ledger, seen'[r] < t
                 PROVE  ~Touches(ledger[t], Payable(WalletOf[r]))
        BY DEF BalanceStaysCurrent
    <2>1. t <= Len(ledger) /\ t \in Nat /\ Len(ledger) \in Nat
        BY LenProperties DEF TypeOK
    <2> QED
        BY <2>1 DEF BalanceStaysCurrent
<1> QED
    BY <1>2, <1>3, <1>4, <1>5, <1>calls, <1>6, <1>7, <1>8

-----------------------------------------------------------------------------
(***************************************************************************)
(* Steps that post a row                                                   *)
(***************************************************************************)

\* A row joins the holds or the releases of its payout, and nothing else changes.
LEMMA PostedRow ==
    ASSUME TypeOK, NEW row \in Row, ledger' = Append(ledger, row)
    PROVE  /\ Len(ledger) \in Nat /\ DOMAIN ledger = 1..Len(ledger)
           /\ DOMAIN ledger' = 1..(Len(ledger) + 1)
           /\ ledger'[Len(ledger) + 1] = row
           /\ \A t \in 1..Len(ledger) : ledger'[t] = ledger[t]
           /\ \A p : Holds(p)' =
                 IF row.referenceId = p /\ row.type = "PAYOUT_INITIATED"
                   THEN Holds(p) \cup {Len(ledger) + 1} ELSE Holds(p)
           /\ \A p : Releases(p) \subseteq Releases(p)'
           /\ row.type # "PAYOUT_INITIATED" => Len(ledger) + 1 \in Releases(row.referenceId)'
<1> DEFINE n == Len(ledger)
<1>1. /\ n \in Nat /\ DOMAIN ledger = 1..n /\ DOMAIN ledger' = 1..(n + 1)
      /\ ledger'[n + 1] = row /\ \A t \in 1..n : ledger'[t] = ledger[t]
    BY AppendRow DEF TypeOK
<1>2. row.status = "POSTED"
    BY DEF Row
<1>3. \A p : PostedFor(ledger', p) =
          IF row.referenceId = p THEN PostedFor(ledger, p) \cup {n + 1} ELSE PostedFor(ledger, p)
    BY <1>1, <1>2 DEF PostedFor
<1>4. \A p : PostedFor(ledger, p) \subseteq 1..n
    BY <1>1 DEF PostedFor
<1> HIDE DEF n
<1>5. \A p : Holds(p)' = {t \in PostedFor(ledger', p) : ledger'[t].type = "PAYOUT_INITIATED"}
    BY DEF Holds
<1>6. \A p : Holds(p)' = IF row.referenceId = p /\ row.type = "PAYOUT_INITIATED"
                           THEN Holds(p) \cup {n + 1} ELSE Holds(p)
    BY <1>1, <1>3, <1>4, <1>5 DEF Holds
<1>7. \A p : Releases(p)' = PostedFor(ledger', p) \ Holds(p)'
    BY DEF Releases
<1>8. n + 1 \notin 1..n
    BY <1>1
<1>9. \A p : Releases(p) \subseteq Releases(p)'
    BY <1>3, <1>4, <1>6, <1>7, <1>8 DEF Releases
<1>10. row.type # "PAYOUT_INITIATED" => n + 1 \in Releases(row.referenceId)'
    BY <1>3, <1>4, <1>6, <1>7, <1>8 DEF Holds
<1> QED
    BY <1>1, <1>6, <1>9, <1>10 DEF n

\* Another call posts nothing but what it has found before, and has done so for good.
CallsGoOn ==
    \A c \in Callers :
        /\ call[c].at = "done" => call'[c] = call[c]
        /\ call'[c].at = "post" => call'[c] = call[c]

LEMMA CallsKept ==
    ASSUME TypeOK, CallsInOrder, CallsGoOn, NEW row \in Row, ledger' = Append(ledger, row)
    PROVE  CallsInOrder' /\ \A t : ReversedByHand(t) => ReversedByHand(t)'
<1>1. /\ DOMAIN ledger \subseteq DOMAIN ledger'
      /\ \A t \in DOMAIN ledger : ledger'[t] = ledger[t]
    <2>1. /\ Len(ledger) \in Nat /\ DOMAIN ledger = 1..Len(ledger)
          /\ DOMAIN ledger' = 1..(Len(ledger) + 1)
          /\ \A t \in 1..Len(ledger) : ledger'[t] = ledger[t]
        BY PostedRow
    <2> QED
        BY <2>1
<1>2. CallsInOrder'
    BY <1>1 DEF CallsInOrder, CallsGoOn, MayReverse
<1>3. \A t : ReversedByHand(t) => ReversedByHand(t)'
    BY CallerAssumption DEF ReversedByHand, CallsGoOn
<1> QED
    BY <1>2, <1>3

\* A row other than a hold keeps the invariant, when it touches no PAYABLE account whose
\* row is locked, and when it reverses no hold but that of its request, or by hand.
LEMMA PostKeeps ==
    ASSUME IInv, TypeOK', PayoutExists', CallsGoOn, NEW row \in Row,
           ledger' = Append(ledger, row), UNCHANGED <<payouts, seen>>,
           ~IsHold(row),
           row.original # NoOriginal =>
               /\ row.original \in DOMAIN ledger
               /\ row.referenceId = ledger[row.original].referenceId,
           row.original # NoOriginal /\ row.referenceId \in Requests =>
               \/ pc[row.referenceId] = "reverse" /\ pc'[row.referenceId] # "reverse"
               \/ ReversedByHand(row.original)',
           \A w \in Wallets : Touches(row, Payable(w)) => lock[w] = Nobody,
           \A r \in Requests :
               /\ pc'[r] \in {"reverse", "hold"} => pc'[r] = pc[r]
               /\ pc'[r] \in {"markFailed", "failAgain"} =>
                     pc[r] \in {"markFailed", "failAgain"} \/ r = row.referenceId,
           \A h \in Webhooks : hook'[h].at = "mark" =>
               \/ hook'[h].payout = row.referenceId /\ hook'[h].payout \in Requests
               \/ hook[h].at = "mark" /\ hook'[h].payout = hook[h].payout
    PROVE  IInv'
<1> DEFINE n == Len(ledger)
<1> USE DEF IInv
<1>1. /\ n \in Nat /\ DOMAIN ledger = 1..n /\ DOMAIN ledger' = 1..(n + 1)
      /\ ledger'[n + 1] = row /\ \A t \in 1..n : ledger'[t] = ledger[t]
      /\ \A p \in Requests : Holds(p)' = Holds(p) /\ Releases(p) \subseteq Releases(p)'
      /\ row.referenceId \in Requests => Releases(row.referenceId)' # {}
    BY PostedRow DEF IsHold
<1>2. \A r \in Requests : pc[r] = "reverse" =>
          /\ HoldOf(r) \in Holds(r) /\ HoldOf(r) \in 1..n
          /\ \A t \in Holds(r) : t = HoldOf(r)
    BY <1>1, HoldFound DEF PayoutExists, AfterHold
<1>hand. CallsInOrder' /\ \A t : ReversedByHand(t) => ReversedByHand(t)'
    BY CallsKept
<1>3. LedgerShape'
    <2> SUFFICES ASSUME NEW t \in 1..(n + 1)
                 PROVE  (/\ IsHold(ledger[t]) => ledger[t] = HoldRow(ledger[t].referenceId)
                         /\ ledger[t].original # NoOriginal =>
                               /\ ledger[t].original \in DOMAIN ledger
                               /\ ledger[ledger[t].original].referenceId
                                    = ledger[t].referenceId)'
        BY <1>1 DEF LedgerShape
    <2>1. CASE t \in 1..n
        <3>1. /\ ledger'[t] = ledger[t]
              /\ IsHold(ledger[t]) => ledger[t] = HoldRow(ledger[t].referenceId)
              /\ ledger[t].original # NoOriginal =>
                    /\ ledger[t].original \in 1..n
                    /\ ledger[ledger[t].original].referenceId = ledger[t].referenceId
            BY <2>1, <1>1 DEF LedgerShape
        <3>2. ledger[t].original \in 1..n => ledger'[ledger[t].original] = ledger[ledger[t].original]
            BY <1>1
        <3>3. n \in Nat /\ DOMAIN ledger' = 1..(n + 1)
            BY <1>1
        <3> QED
            BY ONLY <3>1, <3>2, <3>3 DEF IsHold, HoldRow
    <2>2. CASE t = n + 1
        BY <2>2, <1>1 DEF IsHold
    <2> QED
        BY <2>1, <2>2, <1>1
<1>4. HoldWithPayout'
    BY <1>1 DEF HoldWithPayout
<1>5. \A r \in Requests : pc'[r] = "reverse" => HoldOf(r)' = HoldOf(r) /\ pc[r] = "reverse"
    <2> SUFFICES ASSUME NEW r \in Requests, pc'[r] = "reverse"
                 PROVE  HoldOf(r)' = HoldOf(r) /\ pc[r] = "reverse"
        OBVIOUS
    <2>1. pc[r] = "reverse"
        OBVIOUS
    <2>2. \A t \in Holds(r) : t = HoldOf(r)
        BY <2>1, <1>2
    <2>3. \E t \in PostedFor(ledger, r)' : ledger'[t].type = "PAYOUT_INITIATED"
        <3>1. HoldOf(r) \in Holds(r)'
            BY <2>1, <1>1, <1>2
        <3> QED
            BY <3>1 DEF Holds
    <2>4. HoldOf(r)' \in Holds(r)'
        BY <2>3 DEF HoldOf, Holds
    <2> QED
        BY <2>1, <2>2, <2>4, <1>1
<1>6. \A t \in 1..n : /\ Reversals(ledger', t) \subseteq Reversals(ledger, t) \cup {n + 1}
                      /\ t # row.original => Reversals(ledger', t) = Reversals(ledger, t)
    BY <1>1 DEF Reversals
<1>own. \A p \in Requests : \A t \in Holds(p) :
            t \in 1..n /\ (t = row.original => row.original # NoOriginal /\ row.referenceId = p)
    BY <1>1 DEF Holds, PostedFor, NoOriginal
<1>7. StillReversible'
    <2> SUFFICES ASSUME NEW r \in Requests, pc'[r] = "reverse", NEW t, t = HoldOf(r)
                 PROVE  Reversals(ledger', t) = {} \/ ReversedByHand(t)'
        BY <1>5 DEF StillReversible
    <2>1. /\ pc[r] = "reverse" /\ t \in Holds(r)
          /\ Reversals(ledger, t) = {} \/ ReversedByHand(t)
        BY <1>2 DEF StillReversible
    <2>2. CASE t = row.original
        <3>1. row.original # NoOriginal /\ row.referenceId = r
            BY <2>1, <2>2, <1>own
        <3>2. ReversedByHand(row.original)'
            BY <3>1
        <3> QED
            BY <2>2, <3>2 DEF ReversedByHand
    <2>3. CASE t # row.original
        BY <2>1, <2>3, <1>6, <1>own, <1>hand
    <2> QED
        BY <2>2, <2>3
<1>8. HoldReversedOnce'
    <2> SUFFICES ASSUME NEW p \in Requests, NEW t \in Holds(p),
                        NEW q \in Reversals(ledger', t), NEW r \in Reversals(ledger', t)
                 PROVE  q = r \/ ReversedByHand(t)'
        BY <1>1 DEF HoldReversedOnce
    <2>1. CASE t # row.original
        BY <2>1, <1>6, <1>own, <1>hand DEF HoldReversedOnce
    <2>2. CASE t = row.original /\ pc[p] = "reverse"
        <3>1. t = HoldOf(p) /\ t \in 1..n
            BY <2>2, <1>2
        <3>2. CASE ReversedByHand(t)
            BY <3>2, <1>hand
        <3>3. CASE Reversals(ledger, t) = {}
            BY <3>1, <3>3, <1>6
        <3> QED
            BY <2>2, <3>1, <3>2, <3>3 DEF StillReversible
    <2>3. CASE t = row.original /\ pc[p] # "reverse"
        BY <2>3, <1>own
    <2> QED
        BY <2>1, <2>2, <2>3
<1>9. \A h \in Webhooks : hook[h].at = "mark" => hook[h].payout \in Requests
    BY DEF TypeOK, Deliveries, NoDelivery
<1>10. ReleasedFirst'
    BY <1>1, <1>9 DEF ReleasedFirst
<1>11. FinalMeansReleased'
    BY <1>1 DEF FinalMeansReleased
<1>12. BalanceStaysCurrent'
    <2> SUFFICES ASSUME NEW r \in Requests, pc'[r] = "hold", NEW t \in 1..(n + 1), seen[r] < t
                 PROVE  ~Touches(ledger'[t], Payable(WalletOf[r]))
        BY <1>1 DEF BalanceStaysCurrent
    <2>1. pc[r] = "hold"
        OBVIOUS
    <2>2. CASE t \in 1..n
        BY <2>1, <2>2, <1>1 DEF BalanceStaysCurrent
    <2>3. CASE t = n + 1
        <3>1. WalletOf[r] \in Wallets /\ Nobody \notin Requests
            BY OrderAssumption, NameAssumption
        <3>2. lock[WalletOf[r]] = r
            BY <2>1, <3>1 DEF TypeOK, LockOwned
        <3> QED
            BY <2>3, <3>1, <3>2, <1>1
    <2> QED
        BY <2>2, <2>3, <1>1
<1> QED
    BY <1>3, <1>4, <1>hand, <1>7, <1>8, <1>10, <1>11, <1>12

\* The hold is the first row of its payout, posted while the row of its PAYABLE
\* account is locked: no other request is between its balance and its commit.
LEMMA CommitKeeps ==
    ASSUME IInv, TypeOK', PayoutExists', NEW p \in Requests, CommitHold(p)
    PROVE  IInv'
<1> DEFINE n == Len(ledger)  row == HoldRow(p)
<1> USE DEF IInv
<1>1. /\ row \in Row /\ row.referenceId = p /\ row.type = "PAYOUT_INITIATED"
      /\ row.original = NoOriginal
    BY RowTypes DEF HoldRow, Transaction
<1>2. ledger' = Append(ledger, row)
    BY DEF CommitHold
<1>3. /\ pc[p] = "hold" /\ payouts[p] = "none" /\ payouts'[p] = "PROCESSING" /\ pc'[p] = "bank"
      /\ \A r \in Requests \ {p} : payouts'[r] = payouts[r] /\ pc'[r] = pc[r]
      /\ UNCHANGED <<seen, hook, call>>
    BY DEF CommitHold, Goto, TypeOK, PayoutExists, BeforeHold
<1> HIDE DEF row
<1>4. /\ n \in Nat /\ DOMAIN ledger = 1..n /\ DOMAIN ledger' = 1..(n + 1)
      /\ ledger'[n + 1] = row /\ \A t \in 1..n : ledger'[t] = ledger[t]
      /\ \A r : r # p => Holds(r)' = Holds(r)
      /\ Holds(p)' = Holds(p) \cup {n + 1}
      /\ \A r : Releases(r) \subseteq Releases(r)'
    BY <1>1, <1>2, PostedRow
<1>5. Holds(p) = {}
    BY <1>3 DEF HoldWithPayout
<1>6. LedgerShape'
    <2> SUFFICES ASSUME NEW t \in 1..(n + 1)
                 PROVE  (/\ IsHold(ledger[t]) => ledger[t] = HoldRow(ledger[t].referenceId)
                         /\ ledger[t].original # NoOriginal =>
                               /\ ledger[t].original \in DOMAIN ledger
                               /\ ledger[ledger[t].original].referenceId
                                    = ledger[t].referenceId)'
        BY <1>4 DEF LedgerShape
    <2>1. CASE t \in 1..n
        BY <2>1, <1>4 DEF LedgerShape, IsHold, HoldRow
    <2>2. CASE t = n + 1
        BY <2>2, <1>1, <1>4 DEF row
    <2> QED
        BY <2>1, <2>2, <1>4
<1>7. HoldWithPayout'
    BY <1>3, <1>4, <1>5 DEF HoldWithPayout
<1>8. \A r \in Requests : pc[r] = "reverse" => HoldOf(r)' = HoldOf(r) /\ HoldOf(r) \in 1..n
    <2> SUFFICES ASSUME NEW r \in Requests, pc[r] = "reverse"
                 PROVE  HoldOf(r)' = HoldOf(r) /\ HoldOf(r) \in 1..n
        OBVIOUS
    <2>1. /\ HoldOf(r) \in Holds(r) /\ HoldOf(r) \in 1..n
          /\ \A t \in Holds(r) : t = HoldOf(r)
        BY <1>4, HoldFound DEF PayoutExists, AfterHold
    <2>2. r # p
        BY <1>3
    <2>3. HoldOf(r) \in Holds(r)'
        BY <2>1, <2>2, <1>4
    <2>4. \E t \in PostedFor(ledger, r)' : ledger'[t].type = "PAYOUT_INITIATED"
        BY <2>3 DEF Holds
    <2>5. HoldOf(r)' \in Holds(r)'
        BY <2>4 DEF HoldOf, Holds
    <2> QED
        BY <2>1, <2>2, <2>5, <1>4
<1>9. \A t \in 1..n : Reversals(ledger', t) = Reversals(ledger, t)
    BY <1>1, <1>4 DEF Reversals, NoOriginal
<1>hand. CallsInOrder' /\ \A t : ReversedByHand(t) => ReversedByHand(t)'
    BY <1>1, <1>2, <1>3, CallsKept DEF CallsGoOn
<1>10. StillReversible'
    BY <1>3, <1>8, <1>9, <1>hand DEF StillReversible
<1>11. HoldReversedOnce'
    <2> SUFFICES ASSUME NEW q \in Requests, NEW t \in Holds(q)',
                        NEW u \in Reversals(ledger', t), NEW v \in Reversals(ledger', t)
                 PROVE  u = v \/ ReversedByHand(t)'
        BY DEF HoldReversedOnce
    <2>1. CASE t \in Holds(q)
        <3>1. t \in 1..n
            BY <2>1, <1>4 DEF Holds, PostedFor
        <3> QED
            BY <2>1, <3>1, <1>9, <1>hand DEF HoldReversedOnce
    <2>2. CASE t = n + 1
        <3>1. \A x \in 1..n : ledger[x].original # n + 1
            <4> SUFFICES ASSUME NEW x \in 1..n, ledger[x].original = n + 1 PROVE FALSE
                OBVIOUS
            <4>1. n + 1 \in DOMAIN ledger
                BY <1>4 DEF LedgerShape, NoOriginal
            <4> QED
                BY <4>1, <1>4
        <3>2. Reversals(ledger', n + 1) = {}
            BY <3>1, <1>1, <1>4 DEF Reversals, NoOriginal
        <3> QED
            BY <2>2, <3>2
    <2> QED
        BY <2>1, <2>2, <1>4
<1>12. \A h \in Webhooks : hook[h].at = "mark" => hook[h].payout \in Requests
    BY DEF TypeOK, Deliveries, NoDelivery
<1>13. ReleasedFirst'
    BY <1>3, <1>4, <1>12 DEF ReleasedFirst
<1>14. FinalMeansReleased'
    BY <1>3, <1>4 DEF FinalMeansReleased
<1>15. BalanceStaysCurrent'
    <2> SUFFICES ASSUME NEW r \in Requests, pc'[r] = "hold", NEW t \in 1..(n + 1), seen[r] < t
                 PROVE  ~Touches(ledger'[t], Payable(WalletOf[r]))
        BY <1>3, <1>4 DEF BalanceStaysCurrent
    <2>1. pc[r] = "hold" /\ r # p
        BY <1>3
    <2>2. CASE t \in 1..n
        BY <2>1, <2>2, <1>4 DEF BalanceStaysCurrent
    <2>3. CASE t = n + 1
        <3>1. WalletOf[r] \in Wallets /\ WalletOf[p] \in Wallets
            BY OrderAssumption
        <3>2. lock[WalletOf[r]] = r /\ lock[WalletOf[p]] = p
            BY <2>1, <3>1, <1>3 DEF TypeOK, LockOwned
        <3>3. WalletOf[r] # WalletOf[p]
            BY <3>2, <2>1
        <3>4. ~Touches(row, Payable(WalletOf[r]))
            <4> SUFFICES ASSUME NEW i \in DOMAIN row.entries,
                                row.entries[i].account = Payable(WalletOf[r])
                         PROVE  FALSE
                BY DEF Touches
            <4>1. row.entries[i].account \in {Payable(WalletOf[p]), Suspense(WalletOf[p])}
                BY DEF row, HoldRow, Transaction, Entry
            <4> QED
                BY <4>1, <3>3, AccountNames
        <3> QED
            BY <2>3, <3>4, <1>4
    <2> QED
        BY <2>2, <2>3, <1>4
<1> QED
    BY <1>6, <1>7, <1>hand, <1>10, <1>11, <1>13, <1>14, <1>15

LEMMA ReverseKeeps ==
    ASSUME IInv, TypeOK', PayoutExists', NEW r \in Requests, ReverseHold(r)
    PROVE  IInv'
<1> DEFINE row == ReversalOf(ledger, HoldOf(r), "ADJUSTMENT")
<1>1. TypeOK /\ LedgerShape /\ HoldWithPayout /\ payouts[r] # "none"
    BY DEF IInv, PayoutExists, ReverseHold, AfterHold
<1>2. ledger' = Append(ledger, row)
    BY DEF ReverseHold
<1>3. /\ pc[r] = "reverse" /\ pc'[r] = "markFailed" /\ lock[WalletOf[r]] = Nobody
      /\ \A q \in Requests \ {r} : pc'[q] = pc[q]
      /\ UNCHANGED <<payouts, seen, hook, call>>
    BY <1>1 DEF ReverseHold, Goto, TypeOK
<1> HIDE DEF row
<1>4. /\ row \in Row /\ row.referenceId = r /\ row.type = "ADJUSTMENT"
      /\ row.original = HoldOf(r)
      /\ \A w \in Wallets : Touches(row, Payable(w)) => w = WalletOf[r]
    BY <1>1, UndoRow DEF row
<1>5. HoldOf(r) \in DOMAIN ledger /\ ledger[HoldOf(r)].referenceId = r
    <2>1. HoldOf(r) \in DOMAIN ledger /\ ledger[HoldOf(r)] = HoldRow(r)
        BY <1>1, HoldFound
    <2> QED
        BY <2>1 DEF HoldRow, Transaction
<1>6. \A h \in Webhooks : hook'[h].at = "mark" =>
          hook[h].at = "mark" /\ hook'[h].payout = hook[h].payout
    BY <1>3
<1>7. ~IsHold(row) /\ CallsGoOn
    BY <1>3, <1>4 DEF IsHold, CallsGoOn
<1> QED
    BY <1>2, <1>3, <1>4, <1>5, <1>6, <1>7, PostKeeps

LEMMA PostReleaseKeeps ==
    ASSUME IInv, TypeOK', PayoutExists', NEW h \in Webhooks, PostRelease(h)
    PROVE  IInv'
<1> DEFINE p == hook[h].payout  row == ReleaseRow(p, hook[h].status)
<1>1. TypeOK /\ hook[h].at = "post"
    BY DEF IInv, PostRelease
<1>2. p \in Requests
    BY <1>1 DEF TypeOK, Deliveries, NoDelivery
<1>3. ledger' = Append(ledger, row)
    BY DEF PostRelease
<1>4. /\ row \in Row /\ row.referenceId = p /\ row.type # "PAYOUT_INITIATED"
      /\ row.original = NoOriginal
    BY <1>2, RowTypes DEF ReleaseRow, SettleRow, ReturnRow, Transaction
<1>5. \A w \in Wallets : Touches(row, Payable(w)) => lock[w] = Nobody
    <2> SUFFICES ASSUME NEW w \in Wallets, NEW i \in DOMAIN row.entries,
                        row.entries[i].account = Payable(w)
                 PROVE  lock[w] = Nobody
        BY DEF Touches
    <2>1. CASE hook[h].status = "SETTLED"
        <3>1. row.entries[i].account \in {Suspense(WalletOf[p]), Cash(WalletOf[p])}
            BY <2>1 DEF ReleaseRow, SettleRow, Transaction, Entry
        <3> QED
            BY <3>1, AccountNames
    <2>2. CASE hook[h].status # "SETTLED"
        <3>1. row.entries[i].account \in {Suspense(WalletOf[p]), Payable(WalletOf[p])}
            BY <2>2 DEF ReleaseRow, ReturnRow, Transaction, Entry
        <3>2. lock[WalletOf[p]] = Nobody
            BY <2>2 DEF PostRelease
        <3> QED
            BY <3>1, <3>2, AccountNames
    <2> QED
        BY <2>1, <2>2
<1>6. /\ UNCHANGED <<pc, payouts, seen, call>>
      /\ \A g \in Webhooks : hook'[g].payout = hook[g].payout
      /\ \A g \in Webhooks \ {h} : hook'[g].at = hook[g].at
    BY <1>1 DEF PostRelease, requestVars, TypeOK
<1> HIDE DEF p, row
<1>7. hook'[h].payout = row.referenceId
    BY <1>4, <1>6 DEF p
<1>8. ~IsHold(row) /\ CallsGoOn
    BY <1>4, <1>6 DEF IsHold, CallsGoOn
<1> QED
    BY <1>2, <1>3, <1>4, <1>5, <1>6, <1>7, <1>8, PostKeeps

\* What another call posts reverses no payout's hold, unless by hand.
LEMMA CallerKeeps ==
    ASSUME IInv, TypeOK', PayoutExists', NEW c \in Callers, NEW row \in Row, CallerPosts(c, row)
    PROVE  IInv'
<1>1. /\ ledger' = Append(ledger, row) /\ ~IsHold(row) /\ UNCHANGED <<payouts, pc, seen, hook>>
      /\ \A w \in Wallets : Touches(row, Payable(w)) => lock[w] = Nobody
    BY DEF CallerPosts, Unlocked, requestVars
<1>2. /\ call[c].at # "done" /\ call'[c].at = "done" /\ call'[c].original = call[c].original
      /\ \A d \in Callers \ {c} : call'[d] = call[d]
    BY DEF CallerPosts, IInv, TypeOK, Calls
<1>3. CallsGoOn
    BY <1>2 DEF CallsGoOn
<1>4. row.original # NoOriginal =>
          row.original \in DOMAIN ledger /\ row.referenceId = ledger[row.original].referenceId
    BY DEF CallerPosts
<1>5. row.original # NoOriginal /\ row.referenceId \in Requests => ReversedByHand(row.original)'
    <2> SUFFICES ASSUME row.original # NoOriginal, row.referenceId \in Requests
                 PROVE  ReversedByHand(row.original)'
        OBVIOUS
    <2>1. c \in Manual /\ row.original = call[c].original
        BY NameAssumption DEF CallerPosts
    <2> QED
        BY <1>2, <2>1 DEF ReversedByHand
<1>6. \A h \in Webhooks : hook'[h].at = "mark" =>
          hook[h].at = "mark" /\ hook'[h].payout = hook[h].payout
    BY <1>1
<1> QED
    BY <1>1, <1>3, <1>4, <1>5, <1>6, PostKeeps

-----------------------------------------------------------------------------
(***************************************************************************)
(* The theorems                                                            *)
(***************************************************************************)

\* The inductive invariant holds in every reachable state.
LEMMA Inductive == Spec => []IInv
<1>1. Init => IInv
    <2> SUFFICES ASSUME Init PROVE IInv
        OBVIOUS
    <2>1. TypeOK
        BY NameAssumption, OrderAssumption, OpeningAssumption, BoundAssumption
           DEF Init, TypeOK, KeysInit, KeysTypeOK, Statuses, Labels, Deliveries, LockOwned, Calls,
               NoCall, NoOriginal
    <2>2. PayoutExists
        BY DEF Init, PayoutExists, AfterHold, NoDelivery
    <2>3. LedgerShape
        BY NameAssumption, OpeningAssumption DEF Init, LedgerShape, NotOfPayouts, IsHold
    <2>4. \A p \in Requests : PostedFor(ledger, p) = {}
        BY NameAssumption, OpeningAssumption DEF Init, PostedFor, NotOfPayouts
    <2>5. HoldWithPayout
        BY <2>4 DEF Init, HoldWithPayout, Holds
    <2>6. HoldReversedOnce
        BY <2>4 DEF HoldReversedOnce, Holds
    <2>8. CallsInOrder
        BY DEF Init, CallsInOrder, NoCall
    <2>7. StillReversible /\ ReleasedFirst /\ FinalMeansReleased /\ BalanceStaysCurrent
        BY DEF Init, StillReversible, ReleasedFirst, FinalMeansReleased, BalanceStaysCurrent,
               NoDelivery
    <2> QED
        BY <2>1, <2>2, <2>3, <2>5, <2>6, <2>7, <2>8 DEF IInv
<1>2. IInv /\ [Next]_vars => IInv'
    <2> SUFFICES ASSUME IInv, [Next]_vars PROVE IInv'
        OBVIOUS
    <2>1. TypeOK' /\ PayoutExists'
        BY TypeStep, ExistsStep
    <2> QED
        BY <2>1, QuietStep, QuietKeeps, CommitKeeps, ReverseKeeps, PostReleaseKeeps,
           CallerKeeps
<1> QED
    BY <1>1, <1>2, PTL DEF Spec

\* The tables hold rows of their schema and every row lock belongs to the request that
\* is inside its transaction on that wallet.
THEOREM TypeCorrect == Spec => []TypeOK
<1>1. IInv => TypeOK
    BY DEF IInv
<1> QED
    BY <1>1, Inductive, PTL

\* "Compute balance AFTER acquiring lock (guaranteed to be current)": between the read
\* of initiatePayout and its commit, nothing is posted on the PAYABLE account.
THEOREM BalanceIsCurrent == Spec => []BalanceStaysCurrent
<1>1. IInv => BalanceStaysCurrent
    BY DEF IInv
<1> QED
    BY <1>1, Inductive, PTL

\* _handleBankRejection reverses no hold twice, though the catch block may run it again
\* after the try block did, with any number of database errors and crashes.
THEOREM NoHoldReversedTwice == Spec => []HoldReversedOnce
<1>1. IInv => HoldReversedOnce
    BY DEF IInv
<1> QED
    BY <1>1, Inductive, PTL

\* There is exactly one hold for each payout record, and none without one.
THEOREM HoldIffPayout == Spec => []HoldWithPayout
<1>1. IInv => HoldWithPayout
    BY DEF IInv
<1> QED
    BY <1>1, Inductive, PTL

\* A payout in a final status has had its hold released.
THEOREM FinalIsReleased == Spec => []FinalMeansReleased
<1>1. IInv => FinalMeansReleased
    BY DEF IInv
<1> QED
    BY <1>1, Inductive, PTL

-----------------------------------------------------------------------------
(***************************************************************************)
(* The funds of a wallet                                                   *)
(***************************************************************************)

\* Every row is posted and adds a whole number to an account.
LEMMA RowNet ==
    ASSUME NEW account
    PROVE  \A row \in Row : row.status = "POSTED" /\ NetOn(row, account) \in Int
<1> SUFFICES ASSUME NEW row \in Row PROVE NetOn(row, account) \in Int
    BY DEF Row
<1>1. row.entries \in Seq([account : Accounts, amount : Int])
    BY DEF Row
<1>2. [entries |-> NegatedEntries(row.entries)].entries = NegatedEntries(row.entries)
    OBVIOUS
<1> QED
    BY <1>1, <1>2, NetOfReversal

\* A row adds nothing to an account it does not touch.
LEMMA NetUntouched ==
    ASSUME NEW row \in Row, NEW account, ~Touches(row, account)
    PROVE  NetOn(row, account) = 0
<1> DEFINE es == row.entries
           f == [i \in DOMAIN es |-> IF es[i].account = account THEN es[i].amount ELSE 0]
<1>1. es \in Seq([account : Accounts, amount : Int])
    BY DEF Row
<1>2. DOMAIN es = 1..Len(es) /\ Len(es) \in Nat
    BY <1>1, LenProperties
<1>3. IsFiniteSet(DOMAIN es)
    BY <1>2, FS_Interval
<1>4. \A i \in DOMAIN es : f[i] = 0
    BY DEF Touches
<1>5. NetOn(row, account) = SumFunctionOnSet(f, DOMAIN es)
    BY DEF NetOn, SumFunction
<1> HIDE DEF f
<1> QED
    BY <1>3, <1>4, <1>5, SumOfZeros

\* What the rows of a payout add to a PAYABLE account.
LEMMA PayoutNets ==
    ASSUME NEW p \in Requests, NEW w
    PROVE  /\ NetOn(HoldRow(p), Payable(w)) = IF w = WalletOf[p] THEN AmountOf[p] ELSE 0
           /\ NetOn(ReturnRow(p), Payable(w)) = IF w = WalletOf[p] THEN 0 - AmountOf[p] ELSE 0
           /\ NetOn(SettleRow(p), Payable(w)) = 0
<1> DEFINE x == AmountOf[p]
           v == WalletOf[p]
<1>1. x \in Int /\ 0 - x = -x
    BY OrderAssumption
<1>2. /\ HoldRow(p).entries = <<Entry(Payable(v), x), Entry(Suspense(v), -x)>>
      /\ ReturnRow(p).entries = <<Entry(Suspense(v), x), Entry(Payable(v), -x)>>
      /\ SettleRow(p).entries = <<Entry(Suspense(v), x), Entry(Cash(v), -x)>>
    BY DEF HoldRow, ReturnRow, SettleRow, Transaction
<1>3. /\ (Payable(w) = Payable(v)) <=> (w = v)
      /\ Payable(w) # Suspense(v) /\ Payable(w) # Cash(v)
    BY AccountNames
<1> HIDE DEF x, v
<1>4. NetOn(HoldRow(p), Payable(w)) =
        (IF Payable(w) = Payable(v) THEN x ELSE 0) + (IF Payable(w) = Suspense(v) THEN -x ELSE 0)
    BY <1>1, <1>2, NetOfTwo
<1>5. NetOn(ReturnRow(p), Payable(w)) =
        (IF Payable(w) = Suspense(v) THEN x ELSE 0) + (IF Payable(w) = Payable(v) THEN -x ELSE 0)
    BY <1>1, <1>2, NetOfTwo
<1>6. NetOn(SettleRow(p), Payable(w)) =
        (IF Payable(w) = Suspense(v) THEN x ELSE 0) + (IF Payable(w) = Cash(v) THEN -x ELSE 0)
    BY <1>1, <1>2, NetOfTwo
<1> QED
    BY <1>1, <1>3, <1>4, <1>5, <1>6 DEF x, v

\* The reversal of a hold gives back what the hold took.
LEMMA UndoNet ==
    ASSUME TypeOK, LedgerShape, HoldWithPayout, NEW r \in Requests, payouts[r] # "none", NEW w
    PROVE  NetOn(ReversalOf(ledger, HoldOf(r), "ADJUSTMENT"), Payable(w))
             = IF w = WalletOf[r] THEN 0 - AmountOf[r] ELSE 0
<1> DEFINE counter == ReversalOf(ledger, HoldOf(r), "ADJUSTMENT")
           row == HoldRow(r)
<1>1. ledger[HoldOf(r)] = row
    BY HoldFound
<1>2. counter.entries = NegatedEntries(row.entries)
    BY <1>1 DEF ReversalOf, Transaction
<1>3. row.entries \in Seq([account : Accounts, amount : Int])
    BY RowTypes DEF Row
<1>4. NetOn(row, Payable(w)) = IF w = WalletOf[r] THEN AmountOf[r] ELSE 0
    BY PayoutNets
<1> HIDE DEF counter, row
<1>5. NetOn(counter, Payable(w)) = -NetOn(row, Payable(w))
    BY <1>2, <1>3, NetOfReversal
<1> QED
    BY <1>4, <1>5, OrderAssumption DEF counter

\* What was before a row stays before it.
LEMMA PrefixKept ==
    ASSUME NEW S, NEW s \in Seq(S), NEW e \in S
    PROVE  /\ SubSeq(Append(s, e), 1, Len(s)) = s
           /\ \A m \in 0..Len(s) : SubSeq(Append(s, e), 1, m) = SubSeq(s, 1, m)
<1>1. Len(s) \in Nat /\ s = SubSeq(s, 1, Len(s))
    BY LenProperties, SubSeqFull
<1>2. ASSUME NEW m \in 0..Len(s) PROVE SubSeq(Append(s, e), 1, m) = SubSeq(s, 1, m)
  <2> DEFINE more == Append(s, e)
  <2>1. more \in Seq(S) /\ (\A i \in 1..Len(s) : more[i] = s[i]) /\ DOMAIN s = 1..Len(s)
        /\ Len(more) = Len(s) + 1
      BY AppendRow
  <2>2. m \in Nat /\ m <= Len(s)
      BY <1>1
  <2> HIDE DEF more
  <2>3. SubSeq(more, 1, m) = [i \in 1..m |-> more[i]] /\ SubSeq(s, 1, m) = [i \in 1..m |-> s[i]]
      BY <1>1, <2>1, <2>2
  <2>4. \A i \in 1..m : more[i] = s[i]
      BY <1>1, <2>1, <2>2
  <2> QED
      BY <2>3, <2>4 DEF more
<1>3. Len(s) \in 0..Len(s)
    BY <1>1
<1> QED
    BY <1>1, <1>2, <1>3

\* The balance of a wallet after one more row.
LEMMA BalanceAfter ==
    ASSUME TypeOK, NEW row \in Row, ledger' = Append(ledger, row), NEW w
    PROVE  /\ Balance(ledger, Payable(w)) \in Int /\ NetOn(row, Payable(w)) \in Int
           /\ Balance(ledger', Payable(w)) = Balance(ledger, Payable(w)) + NetOn(row, Payable(w))
<1> DEFINE account == Payable(w)
<1>1. ledger \in Seq(Row)
    BY DEF TypeOK
<1>2. \A r \in Row : r.status = "POSTED" /\ NetOn(r, account) \in Int
    BY RowNet
<1> HIDE DEF account
<1>3. Balance(ledger, account) \in Int /\ NetOn(row, account) \in Int
      /\ Balance(Append(ledger, row), account) = Balance(ledger, account) + NetOn(row, account)
    BY <1>1, <1>2, BalanceOfAppend
<1> QED
    BY <1>3 DEF account

\* A row keeps the invariant of the funds when it is covered, if it is a hold; when it leaves
\* the wallets alone whose balance a request has read; and when it puts no wallet in debit,
\* or looks at no balance.
LEMMA FundsKept ==
    ASSUME TypeOK, FundsInv, NEW row \in Row, ledger' = Append(ledger, row),
           IsHold(row) => AmountOf[row.referenceId] <= Available(WalletOf[row.referenceId]),
           \A r \in Requests : pc'[r] = "hold" =>
               pc[r] = "hold" /\ ~Touches(row, Payable(WalletOf[r])),
           \A w \in Wallets :
               \/ NetOn(row, Payable(w)) <= 0
               \/ NetOn(row, Payable(w)) + Balance(ledger, Payable(w)) <= 0
               \/ Balance(ledger, Payable(w)) > 0
               \/ TakesUnchecked(row, w)
    PROVE  FundsInv'
<1> DEFINE n == Len(ledger)
<1>1. /\ n \in Nat /\ DOMAIN ledger = 1..n /\ DOMAIN ledger' = 1..(n + 1)
      /\ ledger'[n + 1] = row /\ \A t \in 1..n : ledger'[t] = ledger[t]
      /\ \A p : Holds(p)' = IF row.referenceId = p /\ row.type = "PAYOUT_INITIATED"
                              THEN Holds(p) \cup {n + 1} ELSE Holds(p)
    BY PostedRow
<1>2. \A w : /\ Balance(ledger, Payable(w)) \in Int /\ NetOn(row, Payable(w)) \in Int
             /\ Balance(ledger', Payable(w)) = Balance(ledger, Payable(w)) + NetOn(row, Payable(w))
    BY BalanceAfter
<1>3. /\ SubSeq(ledger', 1, n) = ledger
      /\ \A m \in 0..n : SubSeq(ledger', 1, m) = SubSeq(ledger, 1, m)
    BY PrefixKept DEF TypeOK
<1>4. HoldsAreCovered'
  <2> SUFFICES ASSUME NEW p \in Requests, NEW t \in Holds(p)'
               PROVE  \/ AmountOf[p] <= -Balance(SubSeq(ledger', 1, t - 1), Payable(WalletOf[p]))
                      \/ /\ AmountOf[p] <= -(-Balance(SubSeq(ledger', 1, t - 1), Payable(WalletOf[p])))
                         /\ \E c \in 1..(t - 1) : TakesUnchecked(ledger'[c], WalletOf[p])
      BY DEF HoldsAreCovered, FundsBefore
  <2> DEFINE w == WalletOf[p]
  <2>1. CASE t \in Holds(p)
    <3>1. t \in 1..n
        BY <1>1, <2>1 DEF Holds, PostedFor
    <3>2. t - 1 \in 0..n /\ \A c \in 1..(t - 1) : c \in 1..n
        BY <1>1, <3>1
    <3>3. SubSeq(ledger', 1, t - 1) = SubSeq(ledger, 1, t - 1)
        BY <1>3, <3>2
    <3>4. \/ AmountOf[p] <= -Balance(SubSeq(ledger, 1, t - 1), Payable(w))
          \/ /\ AmountOf[p] <= -(-Balance(SubSeq(ledger, 1, t - 1), Payable(w)))
             /\ \E c \in 1..(t - 1) : TakesUnchecked(ledger[c], w)
        BY <2>1 DEF FundsInv, HoldsAreCovered, FundsBefore
    <3> QED
        BY <1>1, <3>2, <3>3, <3>4
  <2>2. CASE t \notin Holds(p)
    <3>1. t = n + 1 /\ row.referenceId = p /\ row.type = "PAYOUT_INITIATED"
        BY <1>1, <2>2
    <3> DEFINE b == Balance(ledger, Payable(w))
    <3>2. AmountOf[p] <= IF b < 0 THEN -b ELSE b
        BY <3>1 DEF Available, IsHold
    <3>3. b \in Int /\ AmountOf[p] \in Nat /\ AmountOf[p] > 0 /\ w \in Wallets
        BY <1>2, OrderAssumption
    <3>4. SubSeq(ledger', 1, t - 1) = ledger
      <4>1. t - 1 = n
          BY <1>1, <3>1
      <4> QED
          BY <1>3, <4>1
    <3>5. b > 0 => \E c \in 1..(t - 1) : TakesUnchecked(ledger'[c], w)
      <4>1. b > 0 => \E c \in 1..n : TakesUnchecked(ledger[c], w)
          BY <1>1, <3>3 DEF FundsInv, DebitHasACause
      <4>2. t - 1 = n
          BY <1>1, <3>1
      <4> QED
          BY <1>1, <4>1, <4>2
    <3> HIDE DEF b
    <3>6. AmountOf[p] <= -b \/ (AmountOf[p] <= -(-b) /\ b > 0)
        BY <3>2, <3>3
    <3> QED
        BY <3>4, <3>5, <3>6 DEF b
  <2> QED
      BY <2>1, <2>2
<1>5. StillCovered'
  <2> SUFFICES ASSUME NEW r \in Requests, pc'[r] = "hold"
               PROVE  AmountOf[r] <= Available(WalletOf[r])'
      BY DEF StillCovered
  <2> DEFINE w == WalletOf[r]
  <2>1. pc[r] = "hold" /\ NetOn(row, Payable(w)) = 0
      BY NetUntouched
  <2>2. Balance(ledger', Payable(w)) = Balance(ledger, Payable(w))
      BY <1>2, <2>1
  <2>3. Available(w)' = Available(w)
      BY <2>2 DEF Available
  <2>4. AmountOf[r] <= Available(w)
      BY <2>1 DEF FundsInv, StillCovered
  <2> QED
      BY <2>3, <2>4
<1>6. DebitHasACause'
  <2> SUFFICES ASSUME NEW w \in Wallets, Balance(ledger', Payable(w)) > 0
               PROVE  \E c \in DOMAIN ledger' : TakesUnchecked(ledger'[c], w)
      BY DEF DebitHasACause
  <2>1. \/ Balance(ledger, Payable(w)) > 0
        \/ TakesUnchecked(row, w)
      BY <1>2
  <2>2. CASE Balance(ledger, Payable(w)) > 0
    <3>1. PICK c \in 1..n : TakesUnchecked(ledger[c], w)
        BY <1>1, <2>2 DEF FundsInv, DebitHasACause
    <3>2. c \in 1..(n + 1)
        BY <1>1
    <3> QED
        BY <1>1, <3>1, <3>2
  <2>3. CASE TakesUnchecked(row, w)
    <3>1. n + 1 \in 1..(n + 1)
        BY <1>1
    <3> QED
        BY <1>1, <2>3, <3>1
  <2> QED
      BY <2>1, <2>2, <2>3
<1> QED
    BY <1>4, <1>5, <1>6 DEF FundsInv

\* Steps that post nothing: a balance that covers an amount is read, and nothing else.
LEMMA QuietFunds ==
    ASSUME FundsInv, QuietMove
    PROVE  FundsInv'
<1>1. ledger' = ledger /\ \A p : Holds(p)' = Holds(p)
    BY DEF QuietMove, Holds, PostedFor
<1>2. HoldsAreCovered' /\ DebitHasACause'
    BY <1>1 DEF FundsInv, HoldsAreCovered, DebitHasACause, FundsBefore
<1>3. \A w : Available(w)' = Available(w)
    BY <1>1 DEF Available
<1>4. StillCovered'
    BY <1>3 DEF FundsInv, StillCovered, QuietMove
<1> QED
    BY <1>2, <1>4 DEF FundsInv

LEMMA FundsStep == IInv /\ FundsInv /\ [Next]_vars => FundsInv'
<1> SUFFICES ASSUME IInv, FundsInv, [Next]_vars PROVE FundsInv'
    OBVIOUS
<1>1. TypeOK /\ PayoutExists /\ LedgerShape /\ HoldWithPayout
    BY DEF IInv
<1>2. ASSUME NEW p \in Requests, CommitHold(p) PROVE FundsInv'
  <2> DEFINE row == HoldRow(p)
  <2>1. /\ row \in Row /\ row.referenceId = p /\ row.type = "PAYOUT_INITIATED"
        /\ ledger' = Append(ledger, row) /\ pc[p] = "hold" /\ pc'[p] # "hold"
        /\ \A r \in Requests \ {p} : pc'[r] = pc[r]
      BY <1>1, <1>2, RowTypes DEF CommitHold, HoldRow, Transaction, TypeOK, Goto
  <2>2. AmountOf[p] <= Available(WalletOf[p])
      BY <2>1 DEF FundsInv, StillCovered
  <2>3. \A r \in Requests : pc'[r] = "hold" => pc[r] = "hold" /\ ~Touches(row, Payable(WalletOf[r]))
    <3> SUFFICES ASSUME NEW r \in Requests, pc'[r] = "hold"
                 PROVE  pc[r] = "hold" /\ ~Touches(row, Payable(WalletOf[r]))
        OBVIOUS
    <3>1. r # p /\ pc[r] = "hold"
        BY <2>1
    <3>2. WalletOf[r] # WalletOf[p]
        BY <1>1, <2>1, <3>1, OrderAssumption DEF TypeOK, LockOwned
    <3>3. \A i \in DOMAIN row.entries :
              row.entries[i].account \in {Payable(WalletOf[p]), Suspense(WalletOf[p])}
        BY DEF HoldRow, Transaction, Entry
    <3> QED
        BY <3>1, <3>2, <3>3, AccountNames DEF Touches
  <2>4. ASSUME NEW w \in Wallets
        PROVE  \/ NetOn(row, Payable(w)) <= 0
               \/ NetOn(row, Payable(w)) + Balance(ledger, Payable(w)) <= 0
               \/ Balance(ledger, Payable(w)) > 0
    <3>1. NetOn(row, Payable(w)) = IF w = WalletOf[p] THEN AmountOf[p] ELSE 0
        BY PayoutNets
    <3> DEFINE b == Balance(ledger, Payable(w))
    <3>2. b \in Int /\ AmountOf[p] \in Nat
        BY <1>1, <2>1, BalanceAfter, OrderAssumption
    <3>3. w = WalletOf[p] => AmountOf[p] <= IF b < 0 THEN -b ELSE b
        BY <2>2 DEF Available
    <3> HIDE DEF b
    <3> QED
        BY <3>1, <3>2, <3>3 DEF b
  <2> HIDE DEF row
  <2> QED
      BY <1>1, <2>1, <2>2, <2>3, <2>4, FundsKept
<1>3. ASSUME NEW r \in Requests, ReverseHold(r) PROVE FundsInv'
  <2> DEFINE row == ReversalOf(ledger, HoldOf(r), "ADJUSTMENT")
  <2>1. /\ pc[r] = "reverse" /\ ledger' = Append(ledger, row) /\ lock[WalletOf[r]] = Nobody
        /\ pc'[r] # "hold" /\ \A q \in Requests \ {r} : pc'[q] = pc[q]
      BY <1>1, <1>3 DEF ReverseHold, Goto, TypeOK
  <2>2. payouts[r] # "none"
      BY <1>1, <2>1 DEF PayoutExists, AfterHold
  <2>3. /\ row \in Row /\ row.type = "ADJUSTMENT"
        /\ \A w \in Wallets : Touches(row, Payable(w)) => w = WalletOf[r]
      BY <1>1, <2>2, UndoRow
  <2>4. \A w : NetOn(row, Payable(w)) = IF w = WalletOf[r] THEN 0 - AmountOf[r] ELSE 0
      BY <1>1, <2>2, UndoNet
  <2> HIDE DEF row
  <2>5. \A w : NetOn(row, Payable(w)) <= 0
      BY <2>4, OrderAssumption
  <2>6. \A q \in Requests : pc'[q] = "hold" => pc[q] = "hold" /\ ~Touches(row, Payable(WalletOf[q]))
    <3> SUFFICES ASSUME NEW q \in Requests, pc'[q] = "hold"
                 PROVE  pc[q] = "hold" /\ ~Touches(row, Payable(WalletOf[q]))
        OBVIOUS
    <3>1. pc[q] = "hold"
        BY <2>1
    <3>2. lock[WalletOf[q]] = q /\ q # Nobody /\ WalletOf[q] \in Wallets
        BY <1>1, <3>1, OrderAssumption, NameAssumption DEF TypeOK, LockOwned
    <3> QED
        BY <2>1, <2>3, <3>1, <3>2
  <2> QED
      BY <1>1, <2>1, <2>3, <2>5, <2>6, FundsKept DEF IsHold
<1>4. ASSUME NEW h \in Webhooks, PostRelease(h) PROVE FundsInv'
  <2>1. PICK p : p = hook[h].payout
      OBVIOUS
  <2>2. PICK row : row = ReleaseRow(p, hook[h].status)
      OBVIOUS
  <2>3. /\ p \in Requests /\ ledger' = Append(ledger, row) /\ pc' = pc
        /\ hook[h].status # "SETTLED" => lock[WalletOf[p]] = Nobody
      BY <1>1, <1>4, <2>1, <2>2 DEF PostRelease, TypeOK, Deliveries, NoDelivery, requestVars
  <2>4. row = SettleRow(p) \/ (row = ReturnRow(p) /\ lock[WalletOf[p]] = Nobody)
      BY <2>2, <2>3 DEF ReleaseRow
  <2>5. row \in Row /\ row.type # "PAYOUT_INITIATED"
    <3>1. SettleRow(p).type = "PAYOUT_SETTLED" /\ ReturnRow(p).type = "ADJUSTMENT"
        BY DEF SettleRow, ReturnRow, Transaction
    <3>2. SettleRow(p) \in Row /\ ReturnRow(p) \in Row
        BY <2>3, RowTypes
    <3> QED
        BY <2>4, <3>1, <3>2
  <2>6. \A w : NetOn(row, Payable(w)) <= 0
    <3>1. \A w : \/ NetOn(row, Payable(w)) = 0
                 \/ NetOn(row, Payable(w)) = 0 - AmountOf[p]
        BY <2>3, <2>4, PayoutNets
    <3> QED
        BY <2>3, <3>1, OrderAssumption
  <2>7. \A q \in Requests : pc'[q] = "hold" => pc[q] = "hold" /\ ~Touches(row, Payable(WalletOf[q]))
    <3> SUFFICES ASSUME NEW q \in Requests, pc[q] = "hold"
                 PROVE  ~Touches(row, Payable(WalletOf[q]))
        BY <2>3
    <3>1. lock[WalletOf[q]] = q /\ q # Nobody
        BY <1>1, OrderAssumption, NameAssumption DEF TypeOK, LockOwned
    <3>2. CASE row = SettleRow(p)
      <4>1. \A i \in DOMAIN row.entries :
                row.entries[i].account \in {Suspense(WalletOf[p]), Cash(WalletOf[p])}
          BY <3>2 DEF SettleRow, Transaction, Entry
      <4> QED
          BY <4>1, AccountNames DEF Touches
    <3>3. CASE row = ReturnRow(p) /\ lock[WalletOf[p]] = Nobody
      <4>1. \A i \in DOMAIN row.entries :
                row.entries[i].account \in {Suspense(WalletOf[p]), Payable(WalletOf[p])}
          BY <3>3 DEF ReturnRow, Transaction, Entry
      <4>2. WalletOf[q] # WalletOf[p]
          BY <3>1, <3>3
      <4> QED
          BY <4>1, <4>2, AccountNames DEF Touches
    <3> QED
        BY <2>4, <3>2, <3>3
  <2> QED
      BY <1>1, <2>3, <2>5, <2>6, <2>7, FundsKept DEF IsHold
<1>5. ASSUME NEW c \in Callers, NEW row \in Row, CallerPosts(c, row) PROVE FundsInv'
  <2>1. /\ ledger' = Append(ledger, row) /\ pc' = pc /\ ~IsHold(row)
        /\ \A w \in Wallets : Touches(row, Payable(w)) => lock[w] = Nobody
      BY <1>5 DEF CallerPosts, Unlocked, requestVars
  <2>2. \A w \in Wallets : NetOn(row, Payable(w)) <= 0 \/ TakesUnchecked(row, w)
    <3>1. \A w : NetOn(row, Payable(w)) \in Int
        BY <1>1, <2>1, BalanceAfter
    <3> QED
        BY <2>1, <3>1 DEF TakesUnchecked
  <2>3. \A q \in Requests : pc'[q] = "hold" => pc[q] = "hold" /\ ~Touches(row, Payable(WalletOf[q]))
    <3> SUFFICES ASSUME NEW q \in Requests, pc[q] = "hold"
                 PROVE  ~Touches(row, Payable(WalletOf[q]))
        BY <2>1
    <3>1. lock[WalletOf[q]] = q /\ q # Nobody /\ WalletOf[q] \in Wallets
        BY <1>1, OrderAssumption, NameAssumption DEF TypeOK, LockOwned
    <3> QED
        BY <2>1, <3>1
  <2> QED
      BY <1>1, <2>1, <2>2, <2>3, FundsKept
<1> QED
    BY <1>2, <1>3, <1>4, <1>5, QuietStep, QuietFunds

\* Every hold is covered by what was posted before it, but for one that takes for funds the
\* debt of a wallet from which others have taken without looking (refund, charge-back,
\* repayment of credit, POST /ledger), as a wallet's debt at first must have come about too.
THEOREM HoldsCovered ==
    ASSUME \A w \in Wallets : Balance(Opening, Payable(w)) > 0 =>
               \E c \in DOMAIN Opening : TakesUnchecked(Opening[c], w)
    PROVE  Spec => []HoldsAreCovered
<1>1. Init => FundsInv
  <2> SUFFICES ASSUME Init PROVE FundsInv
      OBVIOUS
  <2>1. \A p \in Requests : Holds(p) = {}
      BY NameAssumption, OpeningAssumption DEF Init, Holds, PostedFor, NotOfPayouts
  <2>2. \A r \in Requests : pc[r] # "hold"
      BY DEF Init
  <2>3. ledger = Opening
      BY DEF Init
  <2> QED
      BY <2>1, <2>2, <2>3 DEF FundsInv, HoldsAreCovered, StillCovered, DebitHasACause
<1>2. FundsInv => HoldsAreCovered
    BY DEF FundsInv
<1> QED
    BY <1>1, <1>2, FundsStep, Inductive, PTL DEF Spec

-----------------------------------------------------------------------------
(***************************************************************************)
(* What clients and the bank are served, for as long as nothing has failed *)
(* and when no key expires                                                 *)
(***************************************************************************)

Undisturbed == faults = 0 /\ crashes = 0

\* The steps there are without failures, one handler at a time.
LEMMA CalmStep ==
    ASSUME TypeOK, CallsInOrder, ~KeysExpire, [Next]_vars, Undisturbed'
    PROVE  /\ Undisturbed
           /\ \/ \E r \in Requests : RequestStep(r)
              \/ \E h \in Webhooks, p \in Requests : Deliver(h, p)
              \/ \E h \in Webhooks : HandleDelivery(h)
              \/ \E p \in Requests, outcome \in Outcomes : BankDecides(p, outcome)
              \/ \E c \in Callers, t \in DOMAIN ledger, type \in ReversalTypes : ReadRow(c, t, type)
              \/ \E c \in Callers, row \in Row : CallerPosts(c, row)
              \/ UNCHANGED vars
<1>1. faults \in Nat /\ crashes \in Nat /\ faults' = 0 /\ crashes' = 0
    BY DEF TypeOK, Undisturbed
<1>2. ASSUME NEW r \in Requests, StepFails(r) PROVE FALSE
    BY <1>1, <1>2 DEF StepFails, TransactionFails, CaughtFailure, UncaughtFailure
<1>3. ASSUME NEW h \in Webhooks, DeliveryFails(h) PROVE FALSE
    BY <1>1, <1>3 DEF DeliveryFails
<1>4. ASSUME Crash PROVE FALSE
    BY <1>1, <1>4 DEF Crash
<1>5. ASSUME NEW k \in Keys, KeyExpires(k) PROVE FALSE
    BY <1>5 DEF KeyExpires
<1>6. ASSUME NEW r \in Requests, RequestStep(r) PROVE Undisturbed
    BY <1>1, <1>6
       DEF RequestStep, CheckKey, FindKey, ReserveKey, DropKey, HoldMoney, LockPayable,
           ReadBalance, CommitHold, FollowBank, SubmitToBank, MarkSubmitted, CompleteKey,
           UndoHold, ReadHold, ReverseHold, MarkFailed, RemoveKey, Undisturbed
<1>7. ASSUME NEW h \in Webhooks, HandleDelivery(h) \/ \E p \in Requests : Deliver(h, p)
      PROVE  Undisturbed
    BY <1>1, <1>7 DEF HandleDelivery, PostRelease, MarkOutcome, Deliver, Undisturbed
<1>8. ASSUME \/ \E p \in Requests, outcome \in Outcomes : BankDecides(p, outcome)
             \/ \E c \in Callers, t \in DOMAIN ledger, type \in ReversalTypes : ReadRow(c, t, type)
             \/ \E c \in Callers, row \in Row : CallerPosts(c, row)
             \/ UNCHANGED vars
      PROVE  Undisturbed
    BY <1>1, <1>8 DEF BankDecides, ReadRow, CallerPosts, vars, Undisturbed
<1>9. ASSUME NEW c \in Callers, CallerStep(c)
      PROVE  \/ \E t \in DOMAIN ledger, type \in ReversalTypes : ReadRow(c, t, type)
             \/ \E row \in Row : CallerPosts(c, row)
  <2>1. ~ReversalFails(c)
      BY <1>1 DEF ReversalFails
  <2> QED
      BY <1>9, <2>1, CallerRow DEF CallerStep
<1> QED
    BY <1>2, <1>3, <1>4, <1>5, <1>6, <1>7, <1>8, <1>9 DEF Next

\* What reverses a payout's hold is one of its releases.
LEMMA ReversalsAreReleases ==
    ASSUME TypeOK, LedgerShape, HoldWithPayout, NEW r \in Requests, payouts[r] # "none"
    PROVE  Reversals(ledger, HoldOf(r)) \subseteq Releases(r)
<1> SUFFICES ASSUME NEW t \in Reversals(ledger, HoldOf(r)) PROVE t \in Releases(r)
    OBVIOUS
<1>1. /\ HoldOf(r) \in DOMAIN ledger /\ ledger[HoldOf(r)].referenceId = r
      /\ r # Nobody /\ HoldOf(r) \in Holds(r)
  <2>1. HoldOf(r) \in Holds(r) /\ HoldOf(r) \in DOMAIN ledger
      BY HoldFound
  <2>2. ledger[HoldOf(r)].referenceId = r
      BY <2>1 DEF Holds, PostedFor
  <2> QED
      BY <2>1, <2>2, NameAssumption
<1>2. t \in DOMAIN ledger /\ ledger[t].original = HoldOf(r) /\ ledger[t] \in Row
    BY ElementOfSeq, LenProperties DEF Reversals, TypeOK
<1>3. ledger[t].original # NoOriginal
    BY <1>1, <1>2, LenProperties DEF NoOriginal, TypeOK
<1>5. ledger[t].referenceId = r
    BY <1>1, <1>2, <1>3 DEF LedgerShape
<1>4. ledger[t].type # "PAYOUT_INITIATED"
  <2>1. ledger[t].type = "PAYOUT_INITIATED" => ledger[t] = HoldRow(r)
      BY <1>2, <1>5 DEF LedgerShape, IsHold
  <2>2. HoldRow(r).original = NoOriginal
      BY DEF HoldRow, Transaction
  <2> QED
      BY <1>3, <2>1, <2>2
<1> QED
    BY <1>2, <1>5, <1>4 DEF Releases, Holds, PostedFor, Row

\* A row of the table is there, in whatever state it is.
LEMMA RowsExist ==
    ASSUME NEW row \in Rows
    PROVE  row # NoRow
<1>1. DOMAIN row = {"response", "expired"} /\ DOMAIN NoRow = {"row"}
    BY DEF Rows, NoRow
<1> QED
    BY <1>1

\* A request goes on and the table of keys stays: it has its key still, or still none.
LEMMA OwnersKept ==
    ASSUME TypeOK, KeysHaveOwners, NEW r \in Requests, NEW label, Goto(r, label),
           keys' = keys, pc[r] \in Active <=> label \in Active
    PROVE  KeysHaveOwners'
<1>1. \A q \in Requests : pc'[q] \in Active <=> pc[q] \in Active
    BY DEF TypeOK, Goto
<1>2. \A k \in Keys : (Exists(k))' = Exists(k) /\ (InProgress(k))' = InProgress(k)
    BY DEF Exists, InProgress
<1> HIDE DEF Active
<1> QED
    BY <1>1, <1>2 DEF KeysHaveOwners, Exists, InProgress

LEMMA OwnersStep ==
    ASSUME TypeOK, KeysHaveOwners, FollowsTheBank, NotYetReleased, PayoutExists,
           LedgerShape, HoldWithPayout, NEW r \in Requests, RequestStep(r)
    PROVE  KeysHaveOwners'
<1>1. ASSUME FindKey(r) PROVE KeysHaveOwners'
  <2>1. KeyOf[r] \in Keys
      BY OrderAssumption
  <2>2. ~Stale(KeyOf[r])
      BY <2>1 DEF KeysHaveOwners, Stale
  <2>3. \E label \in {"returned", "refused", "reserve"} : Goto(r, label)
      BY <1>1, <2>2 DEF FindKey
  <2> QED
      BY <1>1, <2>3, OwnersKept DEF FindKey, Active
<1>2. ASSUME ReserveKey(r) PROVE KeysHaveOwners'
  <2>1. CASE Reserve(KeyOf[r]) /\ Goto(r, "begin")
    <3> DEFINE k == KeyOf[r]
               new == [response |-> NoResponse, expired |-> FALSE]
    <3>1. /\ k \in Keys /\ keys[k] = NoRow /\ keys' = [keys EXCEPT ![k] = new]
          /\ pc' = [pc EXCEPT ![r] = "begin"]
        BY <2>1, OrderAssumption DEF Reserve, Exists, Goto
    <3>2. new # NoRow /\ ~new.expired /\ new.response = NoResponse
      <4>1. new \in Rows
          BY DEF Rows
      <4>2. new # NoRow
          BY <4>1, RowsExist
      <4> QED
          BY <4>2
    <3> HIDE DEF new
    <3>3. keys'[k] = new /\ \A j \in Keys \ {k} : keys'[j] = keys[j]
        BY <3>1 DEF TypeOK, KeysTypeOK
    <3>4. pc'[r] = "begin" /\ \A q \in Requests \ {r} : pc'[q] = pc[q]
        BY <3>1 DEF TypeOK
    <3>5. \A q \in Requests : pc[q] \in Active => KeyOf[q] # k
        BY <3>1 DEF KeysHaveOwners, InProgress, Exists
    <3>6. \A q \in Requests \ {r} : pc'[q] \in Active => pc[q] \in Active /\ KeyOf[q] # k
        BY <3>4, <3>5
    <3>7. pc'[r] \in Active
        BY <3>4 DEF Active
    <3>8. \A q \in Requests : KeyOf[q] \in Keys
        BY OrderAssumption
    <3>9. (InProgress(k))' /\ \A j \in Keys \ {k} : (InProgress(j))' = InProgress(j)
                                                  /\ (Exists(j))' = Exists(j)
        BY <3>2, <3>3 DEF InProgress, Exists
    <3>10. ASSUME NEW j \in Keys, Exists(j)' PROVE ~keys'[j].expired
        BY <3>10, <3>2, <3>3, <3>9 DEF KeysHaveOwners
    <3>11. ASSUME NEW q \in Requests, pc'[q] \in Active PROVE InProgress(KeyOf[q])'
        BY <3>11, <3>6, <3>8, <3>9 DEF KeysHaveOwners
    <3>12. ASSUME NEW q \in Requests, NEW p \in Requests, pc'[q] \in Active, pc'[p] \in Active,
                  KeyOf[q] = KeyOf[p]
           PROVE  q = p
        BY <3>12, <3>6 DEF KeysHaveOwners
    <3>13. ASSUME NEW j \in Keys, InProgress(j)'
           PROVE  \E q \in Requests : KeyOf[q] = j /\ pc'[q] \in Active
      <4>1. CASE j = k
          BY <4>1, <3>7
      <4>2. CASE j # k
        <5>1. PICK q \in Requests : KeyOf[q] = j /\ pc[q] \in Active
            BY <3>9, <3>13, <4>2 DEF KeysHaveOwners
        <5>2. pc'[q] \in Active
            BY <5>1, <3>4, <3>7
        <5> QED
            BY <5>1, <5>2
      <4> QED
          BY <4>1, <4>2
    <3> QED
        BY <3>10, <3>11, <3>12, <3>13 DEF KeysHaveOwners
  <2>2. CASE Goto(r, "refused") /\ UNCHANGED keys
      BY <1>2, <2>2, OwnersKept DEF ReserveKey, Active
  <2> QED
      BY <1>2, <2>1, <2>2 DEF ReserveKey
<1>3. ASSUME DropKey(r) PROVE FALSE
    BY <1>3 DEF DropKey, FollowsTheBank
<1>4. ASSUME HoldMoney(r) PROVE KeysHaveOwners'
  <2>1. \E label \in {"locked", "hold", "removeKey", "bank"} : Goto(r, label)
      BY <1>4 DEF HoldMoney, LockPayable, ReadBalance, CommitHold
  <2>2. pc[r] \in {"begin", "locked", "hold"} /\ keys' = keys
      BY <1>4 DEF HoldMoney, LockPayable, ReadBalance, CommitHold
  <2> QED
      BY <2>1, <2>2, OwnersKept DEF Active
<1>5. ASSUME SubmitToBank(r) \/ MarkSubmitted(r) PROVE KeysHaveOwners'
  <2>1. \E label \in {"markSubmitted", "readHold", "complete"} : Goto(r, label)
      BY <1>5 DEF SubmitToBank, MarkSubmitted
  <2>2. pc[r] \in {"bank", "markSubmitted"} /\ keys' = keys
      BY <1>5 DEF SubmitToBank, MarkSubmitted
  <2> QED
      BY <2>1, <2>2, OwnersKept DEF Active
<1>6. ASSUME CompleteKey(r) \/ RemoveKey(r) PROVE KeysHaveOwners'
  <2> DEFINE k == KeyOf[r]
  <2>1. k \in Keys /\ pc[r] \in Active
      BY <1>6, OrderAssumption DEF CompleteKey, RemoveKey, Active
  <2>2. InProgress(k)
      BY <2>1 DEF KeysHaveOwners
  <2>3. /\ pc'[r] \notin Active /\ \A q \in Requests \ {r} : pc'[q] = pc[q]
        /\ \A j \in Keys \ {k} : keys'[j] = keys[j]
      BY <1>6, <2>1, <2>2
         DEF CompleteKey, Complete, RemoveKey, Remove, Goto, TypeOK, KeysTypeOK, Active, InProgress
  <2>4. keys'[k] = NoRow \/ (keys'[k].response # NoResponse /\ ~keys'[k].expired)
    <3>1. CASE CompleteKey(r)
      <4>1. keys' = [keys EXCEPT ![k].response = r]
          BY <3>1, <2>2 DEF CompleteKey, Complete, InProgress
      <4>2. keys[k] \in Rows /\ ~keys[k].expired
          BY <2>1, <2>2 DEF TypeOK, KeysTypeOK, InProgress, Exists
      <4>3. keys'[k].response = r /\ keys'[k].expired = keys[k].expired
          BY <2>1, <4>1, <4>2 DEF TypeOK, KeysTypeOK, Rows
      <4> QED
          BY <4>2, <4>3, NameAssumption
    <3>2. CASE RemoveKey(r)
        BY <2>1, <3>2 DEF RemoveKey, Remove, TypeOK, KeysTypeOK
    <3> QED
        BY <1>6, <3>1, <3>2
  <2>5. /\ \A q \in Requests : pc'[q] \in Active => pc[q] \in Active /\ KeyOf[q] # k
        /\ \A q \in Requests : KeyOf[q] \in Keys
    <3>1. ASSUME NEW q \in Requests, pc'[q] \in Active PROVE pc[q] \in Active /\ KeyOf[q] # k
        BY <3>1, <2>1, <2>3 DEF KeysHaveOwners
    <3> QED
        BY <3>1, OrderAssumption
  <2>6. ~InProgress(k)' /\ \A j \in Keys \ {k} : (InProgress(j))' = InProgress(j)
                                               /\ (Exists(j))' = Exists(j)
      BY <2>3, <2>4 DEF InProgress, Exists
  <2>7. ASSUME NEW j \in Keys, Exists(j)' PROVE ~keys'[j].expired
      BY <2>7, <2>3, <2>4, <2>6 DEF KeysHaveOwners, Exists
  <2>8. ASSUME NEW q \in Requests, pc'[q] \in Active PROVE InProgress(KeyOf[q])'
      BY <2>8, <2>5, <2>6 DEF KeysHaveOwners
  <2>9. ASSUME NEW q \in Requests, NEW p \in Requests, pc'[q] \in Active, pc'[p] \in Active,
               KeyOf[q] = KeyOf[p]
        PROVE  q = p
      BY <2>9, <2>5 DEF KeysHaveOwners
  <2>10. ASSUME NEW j \in Keys, InProgress(j)'
         PROVE  \E q \in Requests : KeyOf[q] = j /\ pc'[q] \in Active
    <3>1. j # k /\ InProgress(j)
        BY <2>6, <2>10
    <3>2. PICK q \in Requests : KeyOf[q] = j /\ pc[q] \in Active
        BY <3>1 DEF KeysHaveOwners
    <3>3. q # r
        BY <3>1, <3>2
    <3> QED
        BY <2>3, <3>2, <3>3
  <2> QED
      BY <2>7, <2>8, <2>9, <2>10 DEF KeysHaveOwners
<1>7. ASSUME ReadHold(r) PROVE KeysHaveOwners'
  <2>1. Reversible(ledger, HoldOf(r))
    <3>1. pc[r] = "readHold" /\ payouts[r] # "none"
        BY <1>7 DEF ReadHold, PayoutExists, AfterHold
    <3>2. HoldOf(r) \in DOMAIN ledger /\ ledger[HoldOf(r)] = HoldRow(r)
        BY <3>1, HoldFound
    <3>3. ledger[HoldOf(r)].status = "POSTED"
        BY <3>2 DEF HoldRow, Transaction
    <3>4. Reversals(ledger, HoldOf(r)) = {}
        BY <3>1, ReversalsAreReleases DEF NotYetReleased
    <3> QED
        BY <3>2, <3>3, <3>4 DEF Reversible
  <2>2. Goto(r, "reverse") /\ pc[r] = "readHold" /\ keys' = keys
      BY <1>7, <2>1 DEF ReadHold
  <2> QED
      BY <2>2, OwnersKept DEF Active
<1>8. ASSUME ReverseHold(r) PROVE KeysHaveOwners'
    BY <1>8, OwnersKept DEF ReverseHold, Active
<1>9. ASSUME MarkFailed(r) PROVE KeysHaveOwners'
  <2>1. pc[r] = "markFailed" /\ Goto(r, "removeKey") /\ keys' = keys
      BY <1>9 DEF MarkFailed, FollowsTheBank
  <2> QED
      BY <2>1, OwnersKept DEF Active
<1> QED
    BY <1>1, <1>2, <1>3, <1>4, <1>5, <1>6, <1>7, <1>8, <1>9
       DEF RequestStep, CheckKey, FollowBank, UndoHold

\* A request goes on, its own key is all that may change, and it is still where its transfer is.
LEMMA FollowsKept ==
    ASSUME TypeOK, KeysHaveOwners, FollowsTheBank, NEW r \in Requests, NEW label,
           Goto(r, label), NEW wire \in {"none", "accepted", "rejected"} \cup Outcomes,
           bank' = [bank EXCEPT ![r] = wire],
           path' = path \/ \E way \in {"tx", "rejected"} : path' = [path EXCEPT ![r] = way],
           keys' = keys \/ (pc[r] \in Active /\ \A k \in Keys : k # KeyOf[r] => keys'[k] = keys[k]),
           label \notin {"drop", "failAgain", "dead"},
           label \in BeforeHold \cup {"bank"} => wire = "none",
           label \in {"readHold", "reverse", "markFailed"} => wire = "rejected",
           wire \in AcceptedByBank =>
               \/ label \in {"markSubmitted", "complete"}
               \/ label = "returned" /\ keys'[KeyOf[r]] = [response |-> r, expired |-> FALSE]
    PROVE  FollowsTheBank'
<1>1. /\ pc'[r] = label /\ bank'[r] = wire /\ path'[r] # "error"
      /\ \A q \in Requests \ {r} : pc'[q] = pc[q] /\ bank'[q] = bank[q] /\ path'[q] = path[q]
    BY DEF TypeOK, Goto, FollowsTheBank
<1>2. ASSUME NEW q \in Requests \ {r}, keys[KeyOf[q]] = [response |-> q, expired |-> FALSE]
      PROVE  keys'[KeyOf[q]] = keys[KeyOf[q]]
  <2>1. KeyOf[q] \in Keys
      BY OrderAssumption
  <2>2. CASE pc[r] \in Active
    <3>1. keys[KeyOf[r]].response = NoResponse
        BY <2>2 DEF KeysHaveOwners, InProgress
    <3>2. keys[KeyOf[q]].response = q
        BY <1>2
    <3>3. KeyOf[q] # KeyOf[r]
        BY <3>1, <3>2, NameAssumption
    <3> QED
        BY <2>1, <3>3
  <2> QED
      BY <2>2
<1>3. ASSUME NEW q \in Requests \ {r}
      PROVE  /\ path'[q] # "error" /\ pc'[q] \notin {"drop", "failAgain", "dead"}
             /\ pc'[q] \in BeforeHold \cup {"bank"} => bank'[q] = "none"
             /\ pc'[q] \in {"readHold", "reverse", "markFailed"} => bank'[q] = "rejected"
             /\ bank'[q] \in AcceptedByBank =>
                   \/ pc'[q] \in {"markSubmitted", "complete"}
                   \/ pc'[q] = "returned" /\ keys'[KeyOf[q]] = [response |-> q, expired |-> FALSE]
  <2> HIDE DEF BeforeHold, AcceptedByBank
  <2> QED
      BY <1>1, <1>2 DEF FollowsTheBank
<1> HIDE DEF BeforeHold, AcceptedByBank
<1>4. /\ path'[r] # "error" /\ pc'[r] \notin {"drop", "failAgain", "dead"}
      /\ pc'[r] \in BeforeHold \cup {"bank"} => bank'[r] = "none"
      /\ pc'[r] \in {"readHold", "reverse", "markFailed"} => bank'[r] = "rejected"
      /\ bank'[r] \in AcceptedByBank =>
            \/ pc'[r] \in {"markSubmitted", "complete"}
            \/ pc'[r] = "returned" /\ keys'[KeyOf[r]] = [response |-> r, expired |-> FALSE]
    BY <1>1
<1> SUFFICES ASSUME NEW q \in Requests
             PROVE  /\ path'[q] # "error" /\ pc'[q] \notin {"drop", "failAgain", "dead"}
                    /\ pc'[q] \in BeforeHold \cup {"bank"} => bank'[q] = "none"
                    /\ pc'[q] \in {"readHold", "reverse", "markFailed"} => bank'[q] = "rejected"
                    /\ bank'[q] \in AcceptedByBank =>
                          \/ pc'[q] \in {"markSubmitted", "complete"}
                          \/ /\ pc'[q] = "returned"
                             /\ keys'[KeyOf[q]] = [response |-> q, expired |-> FALSE]
    BY DEF FollowsTheBank
<1>5. CASE q = r
    BY <1>4, <1>5
<1>6. CASE q # r
    BY <1>3, <1>6
<1> QED
    BY <1>5, <1>6

LEMMA FollowsStep ==
    ASSUME TypeOK, KeysHaveOwners, FollowsTheBank, NEW r \in Requests, RequestStep(r)
    PROVE  FollowsTheBank'
<1> DEFINE wire == bank[r]
<1>0. /\ bank \in [Requests -> {"none", "accepted", "rejected"} \cup Outcomes]
      /\ wire \in {"none", "accepted", "rejected"} \cup Outcomes
      /\ bank' = bank => bank' = [bank EXCEPT ![r] = wire]
    BY DEF TypeOK
<1>ways. /\ pc[r] \notin {"drop", "failAgain", "dead"}
         /\ pc[r] \in BeforeHold \cup {"bank"} => wire = "none"
         /\ pc[r] \in {"readHold", "reverse", "markFailed"} => wire = "rejected"
         /\ wire \in AcceptedByBank => pc[r] \in {"markSubmitted", "complete", "returned"}
    BY DEF FollowsTheBank
<1> HIDE DEF wire
<1>1. ASSUME CheckKey(r) PROVE FollowsTheBank'
  <2>1. /\ pc[r] \in {"idle", "reserve"} /\ bank' = bank /\ path' = path
        /\ \E label \in {"returned", "refused", "reserve", "begin"} : Goto(r, label)
    <3>1. pc[r] # "drop"
        BY <1>ways
    <3>2. ASSUME FindKey(r) PROVE ~Stale(KeyOf[r])
        BY OrderAssumption DEF KeysHaveOwners, Stale
    <3> QED
        BY <1>1, <3>1, <3>2 DEF CheckKey, FindKey, ReserveKey, DropKey
  <2>2. wire = "none"
      BY <1>ways, <2>1 DEF BeforeHold
  <2>3. CASE keys' = keys
      BY <1>0, <2>1, <2>2, <2>3, FollowsKept DEF BeforeHold, AcceptedByBank, Outcomes
  <2>4. CASE keys' # keys
    <3>1. ReserveKey(r) /\ Reserve(KeyOf[r]) /\ Goto(r, "begin")
        BY <1>1, <2>1, <2>4 DEF CheckKey, FindKey, ReserveKey, DropKey
    <3>2. /\ KeyOf[r] \in Keys /\ \A q \in Requests : KeyOf[q] \in Keys
          /\ keys[KeyOf[r]] = NoRow
          /\ \A k \in Keys : k # KeyOf[r] => keys'[k] = keys[k]
        BY <3>1, OrderAssumption DEF Reserve, Exists, TypeOK, KeysTypeOK
    <3>3. ASSUME NEW q \in Requests, keys[KeyOf[q]] = [response |-> q, expired |-> FALSE]
          PROVE  keys'[KeyOf[q]] = keys[KeyOf[q]]
      <4>1. [response |-> q, expired |-> FALSE] \in Rows
          BY NameAssumption DEF Rows
      <4>2. KeyOf[q] # KeyOf[r]
          BY <3>2, <3>3, <4>1, RowsExist
      <4> QED
          BY <3>2, <4>2
    <3>4. pc'[r] = "begin" /\ \A q \in Requests \ {r} : pc'[q] = pc[q]
        BY <3>1 DEF TypeOK, Goto
    <3>5. bank[r] = "none"
        BY <2>2 DEF wire
    <3>6. "none" \notin AcceptedByBank
        BY DEF AcceptedByBank, Outcomes
    <3> HIDE DEF BeforeHold, AcceptedByBank
    <3> QED
        BY <2>1, <3>3, <3>4, <3>5, <3>6 DEF FollowsTheBank
  <2> QED
      BY <2>3, <2>4
<1>2. ASSUME HoldMoney(r) PROVE FollowsTheBank'
  <2>1. /\ pc[r] \in {"begin", "locked", "hold"} /\ bank' = bank /\ keys' = keys
        /\ path' = path \/ path' = [path EXCEPT ![r] = "tx"]
        /\ \E label \in {"locked", "hold", "removeKey", "bank"} : Goto(r, label)
      BY <1>2 DEF HoldMoney, LockPayable, ReadBalance, CommitHold
  <2>2. wire = "none"
      BY <1>ways, <2>1 DEF BeforeHold
  <2> QED
      BY <1>0, <2>1, <2>2, FollowsKept DEF AcceptedByBank, Outcomes
<1>3. ASSUME SubmitToBank(r) PROVE FollowsTheBank'
  <2>1. PICK w \in {"accepted", "rejected"} :
            /\ bank' = [bank EXCEPT ![r] = w] /\ keys' = keys
            /\ Goto(r, IF w = "accepted" THEN "markSubmitted" ELSE "readHold")
            /\ path' = path \/ path' = [path EXCEPT ![r] = "rejected"]
      BY <1>3 DEF SubmitToBank
  <2>2. PICK label : label = IF w = "accepted" THEN "markSubmitted" ELSE "readHold"
      OBVIOUS
  <2>3. /\ w \in {"none", "accepted", "rejected"} \cup Outcomes /\ Goto(r, label)
        /\ label \notin {"drop", "failAgain", "dead"} /\ label \notin BeforeHold \cup {"bank"}
        /\ label \in {"readHold", "reverse", "markFailed"} => w = "rejected"
        /\ w \in AcceptedByBank => label \in {"markSubmitted", "complete"}
      BY <2>1, <2>2 DEF BeforeHold, AcceptedByBank, Outcomes
  <2> HIDE DEF BeforeHold, AcceptedByBank, Outcomes
  <2> QED
      BY <2>1, <2>3, FollowsKept
<1>4. ASSUME MarkSubmitted(r) PROVE FollowsTheBank'
  <2>1. /\ pc[r] = "markSubmitted" /\ Goto(r, "complete") /\ bank' = bank /\ path' = path
        /\ keys' = keys
      BY <1>4 DEF MarkSubmitted
  <2>2. PICK label : label = "complete"
      OBVIOUS
  <2>3. /\ label \notin {"drop", "failAgain", "dead"} /\ label \notin BeforeHold \cup {"bank"}
        /\ label \notin {"readHold", "reverse", "markFailed"} /\ Goto(r, label)
        /\ label \in {"markSubmitted", "complete"}
      BY <2>1, <2>2 DEF BeforeHold
  <2>4. bank' = [bank EXCEPT ![r] = wire]
      BY <1>0, <2>1
  <2> HIDE DEF BeforeHold, AcceptedByBank, Outcomes
  <2> QED
      BY <1>0, <2>1, <2>3, <2>4, FollowsKept
<1>5. ASSUME CompleteKey(r) PROVE FollowsTheBank'
  <2>1. pc[r] = "complete" /\ pc[r] \in Active /\ bank' = bank /\ KeyOf[r] \in Keys
      BY <1>5, OrderAssumption DEF CompleteKey, Active
  <2>2. InProgress(KeyOf[r]) /\ keys[KeyOf[r]] \in Rows /\ ~keys[KeyOf[r]].expired
      BY <2>1 DEF KeysHaveOwners, InProgress, TypeOK, KeysTypeOK, Exists
  <2>3. /\ keys' = [keys EXCEPT ![KeyOf[r]].response = r] /\ Goto(r, "returned") /\ path' = path
      BY <1>5, <2>2 DEF CompleteKey, Complete, InProgress
  <2>4. /\ keys'[KeyOf[r]] = [response |-> r, expired |-> FALSE]
        /\ \A k \in Keys : k # KeyOf[r] => keys'[k] = keys[k]
      BY <2>1, <2>2, <2>3 DEF TypeOK, KeysTypeOK, Rows
  <2> QED
      BY <1>0, <2>1, <2>3, <2>4, FollowsKept DEF BeforeHold
<1>6. ASSUME ReadHold(r) \/ ReverseHold(r) \/ MarkFailed(r) PROVE FollowsTheBank'
  <2>1. /\ pc[r] \in {"readHold", "reverse", "markFailed"} /\ bank' = bank /\ keys' = keys
        /\ path' = path
        /\ \E label \in {"refused", "reverse", "markFailed", "removeKey"} : Goto(r, label)
      BY <1>6, <1>ways DEF ReadHold, ReverseHold, MarkFailed, FollowsTheBank
  <2>2. wire = "rejected"
      BY <1>ways, <2>1
  <2> QED
      BY <1>0, <2>1, <2>2, FollowsKept DEF BeforeHold, AcceptedByBank, Outcomes
<1>7. ASSUME RemoveKey(r) PROVE FollowsTheBank'
  <2>1. /\ pc[r] = "removeKey" /\ pc[r] \in Active /\ bank' = bank /\ KeyOf[r] \in Keys
        /\ path' = path /\ Goto(r, "refused") /\ keys' = [keys EXCEPT ![KeyOf[r]] = NoRow]
      BY <1>7, OrderAssumption DEF RemoveKey, Remove, Active
  <2>2. \A k \in Keys : k # KeyOf[r] => keys'[k] = keys[k]
      BY <2>1 DEF TypeOK, KeysTypeOK
  <2>3. wire \notin AcceptedByBank
      BY <1>ways, <2>1
  <2>4. PICK label : label = "refused"
      OBVIOUS
  <2>5. /\ label \notin {"drop", "failAgain", "dead"} /\ label \notin BeforeHold \cup {"bank"}
        /\ label \notin {"readHold", "reverse", "markFailed"} /\ Goto(r, label)
      BY <2>1, <2>4 DEF BeforeHold
  <2>6. bank' = [bank EXCEPT ![r] = wire]
      BY <1>0, <2>1
  <2> HIDE DEF BeforeHold, AcceptedByBank, Outcomes
  <2> QED
      BY <1>0, <2>1, <2>2, <2>3, <2>5, <2>6, FollowsKept
<1> QED
    BY <1>1, <1>2, <1>3, <1>4, <1>5, <1>6, <1>7 DEF RequestStep, FollowBank, UndoHold

\* What a row adds to the releases of the payouts.
LEMMA ReleasesAfter ==
    ASSUME TypeOK, NEW row \in Row, ledger' = Append(ledger, row)
    PROVE  \A p : Releases(p)' =
               IF row.referenceId = p /\ row.type # "PAYOUT_INITIATED"
                 THEN Releases(p) \cup {Len(ledger) + 1} ELSE Releases(p)
<1> DEFINE n == Len(ledger)
<1>1. /\ n \in Nat /\ DOMAIN ledger = 1..n /\ DOMAIN ledger' = 1..(n + 1)
      /\ ledger'[n + 1] = row /\ \A t \in 1..n : ledger'[t] = ledger[t]
      /\ row.status = "POSTED"
    BY AppendRow DEF TypeOK, Row
<1> HIDE DEF n
<1>2. \A p : /\ Releases(p)' = {t \in 1..(n + 1) : /\ ledger'[t].status = "POSTED"
                                                    /\ ledger'[t].referenceId = p
                                                    /\ ledger'[t].type # "PAYOUT_INITIATED"}
             /\ Releases(p) = {t \in 1..n : /\ ledger[t].status = "POSTED"
                                            /\ ledger[t].referenceId = p
                                            /\ ledger[t].type # "PAYOUT_INITIATED"}
    BY <1>1 DEF Releases, Holds, PostedFor
<1>3. 1..(n + 1) = (1..n) \cup {n + 1} /\ n + 1 \notin 1..n
    BY <1>1
<1> QED
    BY <1>1, <1>2, <1>3 DEF n

\* A step that posts nothing and moves neither a request to the bank or back nor a transfer
\* the bank has not accepted.
LEMMA CalmKeeps ==
    ASSUME TypeOK, NotYetReleased, AcceptedStaysHeld, UNCHANGED ledger,
           \A r \in Requests : bank'[r] = "none" \/ pc'[r] \in {"readHold", "reverse"} =>
               bank[r] = "none" \/ pc[r] \in {"readHold", "reverse"},
           \A r \in Requests : bank'[r] \in {"accepted", "SETTLED"} =>
               bank[r] \in {"none", "accepted", "SETTLED"}
    PROVE  NotYetReleased' /\ AcceptedStaysHeld'
<1>1. \A p : Releases(p)' = Releases(p)
    BY DEF Releases, Holds, PostedFor
<1>2. NotYetReleased'
    BY <1>1 DEF NotYetReleased
<1>3. AcceptedStaysHeld'
  <2> SUFFICES ASSUME NEW p \in Requests, bank'[p] \in {"accepted", "SETTLED"},
                      NEW t \in Releases(p)
               PROVE  ledger[t].type # "ADJUSTMENT"
      BY <1>1 DEF AcceptedStaysHeld
  <2>1. bank[p] \in {"accepted", "SETTLED"}
      BY DEF NotYetReleased
  <2> QED
      BY <2>1 DEF AcceptedStaysHeld
<1> QED
    BY <1>2, <1>3

\* A row for a payout that the bank has answered for, and that is no return if the bank
\* accepted its transfer.
LEMMA RowKeeps ==
    ASSUME TypeOK, NotYetReleased, AcceptedStaysHeld, NEW row \in Row,
           ledger' = Append(ledger, row), bank' = bank,
           \A r \in Requests : pc'[r] \in {"readHold", "reverse"} =>
               pc[r] \in {"readHold", "reverse"},
           row.referenceId \in Requests /\ row.type # "PAYOUT_INITIATED" =>
               LET p == row.referenceId IN
               /\ bank[p] # "none" /\ pc'[p] \notin {"readHold", "reverse"}
               /\ bank[p] \in {"accepted", "SETTLED"} => row.type # "ADJUSTMENT"
    PROVE  NotYetReleased' /\ AcceptedStaysHeld'
<1> DEFINE n == Len(ledger)
<1>1. /\ n \in Nat /\ DOMAIN ledger = 1..n /\ ledger'[n + 1] = row
      /\ \A t \in 1..n : ledger'[t] = ledger[t]
    BY PostedRow
<1>2. \A p : Releases(p)' = IF row.referenceId = p /\ row.type # "PAYOUT_INITIATED"
                              THEN Releases(p) \cup {n + 1} ELSE Releases(p)
    BY ReleasesAfter
<1>3. \A p : Releases(p) \subseteq 1..n
    BY <1>1 DEF Releases, PostedFor
<1> HIDE DEF n
<1>4. NotYetReleased'
    BY <1>2 DEF NotYetReleased
<1>5. AcceptedStaysHeld'
  <2> SUFFICES ASSUME NEW p \in Requests, bank[p] \in {"accepted", "SETTLED"},
                      NEW t \in Releases(p)'
               PROVE  ledger'[t].type # "ADJUSTMENT"
      BY DEF AcceptedStaysHeld
  <2>1. CASE t \in Releases(p)
      BY <1>1, <1>3, <2>1 DEF AcceptedStaysHeld
  <2>2. CASE t \notin Releases(p)
    <3>1. t = n + 1 /\ row.referenceId = p /\ row.type # "PAYOUT_INITIATED"
        BY <1>2, <2>2
    <3> QED
        BY <1>1, <3>1
  <2> QED
      BY <2>1, <2>2
<1> QED
    BY <1>4, <1>5

\* The requests.
LEMMA RequestServed ==
    ASSUME IInv, ServedInv, NEW r \in Requests, RequestStep(r)
    PROVE  NotYetReleased' /\ AcceptedStaysHeld' /\ CarriesOutcome'
<1>1. /\ TypeOK /\ PayoutExists /\ LedgerShape /\ HoldWithPayout /\ KeysHaveOwners
      /\ FollowsTheBank /\ NotYetReleased /\ AcceptedStaysHeld /\ CarriesOutcome
    BY DEF IInv, ServedInv
<1>2. CarriesOutcome'
  <2>1. hook' = hook
      BY DEF RequestStep, CheckKey, FindKey, ReserveKey, DropKey, HoldMoney, LockPayable,
             ReadBalance, CommitHold, FollowBank, SubmitToBank, MarkSubmitted, CompleteKey,
             UndoHold, ReadHold, ReverseHold, MarkFailed, RemoveKey
  <2>2. \A q \in Requests : bank'[q] = bank[q] \/ bank[q] = "none"
    <3>1. CASE SubmitToBank(r)
        BY <1>1, <3>1 DEF SubmitToBank, TypeOK, FollowsTheBank
    <3>2. CASE ~SubmitToBank(r)
      <4>1. bank' = bank
          BY <3>2
             DEF RequestStep, CheckKey, FindKey, ReserveKey, DropKey, HoldMoney, LockPayable,
                 ReadBalance, CommitHold, FollowBank, MarkSubmitted, CompleteKey,
                 UndoHold, ReadHold, ReverseHold, MarkFailed, RemoveKey
      <4> QED
          BY <4>1
    <3> QED
        BY <3>1, <3>2
  <2>3. \A h \in Webhooks : hook[h].at # "idle" =>
            hook[h].payout \in Requests /\ hook[h].status # "none"
    <3>1. \A h \in Webhooks : hook[h].at # "idle" =>
              hook[h].payout \in Requests /\ hook[h].status \in Outcomes
        BY <1>1 DEF TypeOK, Deliveries, NoDelivery
    <3>2. "none" \notin Outcomes
        BY DEF Outcomes
    <3> QED
        BY <3>1, <3>2
  <2> QED
      BY <1>1, <2>1, <2>2, <2>3 DEF CarriesOutcome
<1>3. ASSUME CommitHold(r) PROVE NotYetReleased' /\ AcceptedStaysHeld'
  <2> DEFINE row == HoldRow(r)
  <2>1. /\ row \in Row /\ row.type = "PAYOUT_INITIATED" /\ ledger' = Append(ledger, row)
        /\ bank' = bank /\ pc'[r] = "bank" /\ \A q \in Requests \ {r} : pc'[q] = pc[q]
      BY <1>1, <1>3, RowTypes DEF CommitHold, HoldRow, Transaction, TypeOK, Goto
  <2> HIDE DEF row
  <2>2. \A q \in Requests : pc'[q] \in {"readHold", "reverse"} => pc[q] \in {"readHold", "reverse"}
      BY <2>1
  <2> QED
      BY <1>1, <2>1, <2>2, RowKeeps
<1>4. ASSUME ReverseHold(r) PROVE NotYetReleased' /\ AcceptedStaysHeld'
  <2> DEFINE row == ReversalOf(ledger, HoldOf(r), "ADJUSTMENT")
  <2>1. /\ pc[r] = "reverse" /\ ledger' = Append(ledger, row) /\ bank' = bank
        /\ pc'[r] = "markFailed" /\ \A q \in Requests \ {r} : pc'[q] = pc[q]
      BY <1>1, <1>4 DEF ReverseHold, Goto, TypeOK
  <2>2. bank[r] = "rejected" /\ payouts[r] # "none"
      BY <1>1, <2>1 DEF PayoutExists, AfterHold, FollowsTheBank
  <2>3. row \in Row /\ row.referenceId = r
      BY <1>1, <2>2, UndoRow
  <2> HIDE DEF row
  <2>4. \A q \in Requests : pc'[q] \in {"readHold", "reverse"} => pc[q] \in {"readHold", "reverse"}
      BY <2>1
  <2> QED
      BY <1>1, <2>1, <2>2, <2>3, <2>4, RowKeeps
<1>5. ASSUME ~CommitHold(r), ~ReverseHold(r) PROVE NotYetReleased' /\ AcceptedStaysHeld'
  <2>1. UNCHANGED ledger
      BY <1>5
         DEF RequestStep, CheckKey, FindKey, ReserveKey, DropKey, HoldMoney, LockPayable,
             ReadBalance, FollowBank, SubmitToBank, MarkSubmitted, CompleteKey,
             UndoHold, ReadHold, MarkFailed, RemoveKey
  <2>2. ~CompleteKey(r) \/ Goto(r, "returned")
    <3>1. ASSUME CompleteKey(r) PROVE InProgress(KeyOf[r])
        BY <1>1, <3>1 DEF CompleteKey, KeysHaveOwners, Active
    <3> QED
        BY <3>1 DEF CompleteKey, InProgress
  <2>3. \A q \in Requests \ {r} : pc'[q] = pc[q] /\ bank'[q] = bank[q]
      BY <1>1, <1>5
         DEF RequestStep, CheckKey, FindKey, ReserveKey, DropKey, HoldMoney, LockPayable,
             ReadBalance, FollowBank, SubmitToBank, MarkSubmitted, CompleteKey,
             UndoHold, ReadHold, MarkFailed, RemoveKey, Goto, TypeOK
  <2>4. \/ bank' = bank /\ pc'[r] \notin {"readHold", "reverse"}
        \/ bank' = bank /\ pc[r] = "readHold"
        \/ bank[r] = "none"
    <3>1. CASE SubmitToBank(r)
        BY <1>1, <3>1 DEF SubmitToBank, FollowsTheBank
    <3>2. CASE ReadHold(r)
        BY <3>2 DEF ReadHold
    <3>3. CASE CompleteKey(r)
        BY <1>1, <2>2, <3>3 DEF CompleteKey, Goto, TypeOK
    <3>4. ASSUME CheckKey(r) \/ HoldMoney(r) \/ MarkSubmitted(r) \/ MarkFailed(r) \/ RemoveKey(r)
          PROVE  bank' = bank /\ pc'[r] \notin {"readHold", "reverse"}
        BY <1>1, <1>5, <3>4
           DEF CheckKey, FindKey, ReserveKey, DropKey, HoldMoney, LockPayable, ReadBalance,
               MarkSubmitted, MarkFailed, RemoveKey, Goto, TypeOK
    <3> QED
        BY <1>5, <3>1, <3>2, <3>3, <3>4 DEF RequestStep, FollowBank, UndoHold
  <2>5. /\ \A q \in Requests : bank'[q] = "none" \/ pc'[q] \in {"readHold", "reverse"} =>
               bank[q] = "none" \/ pc[q] \in {"readHold", "reverse"}
        /\ \A q \in Requests : bank'[q] \in {"accepted", "SETTLED"} =>
               bank[q] \in {"none", "accepted", "SETTLED"}
      BY <2>3, <2>4
  <2> QED
      BY <1>1, <2>1, <2>5, CalmKeeps
<1> QED
    BY <1>2, <1>3, <1>4, <1>5

\* The deliveries and the world around.
LEMMA WorldServed ==
    ASSUME IInv, ServedInv, Manual = {},
           \/ \E h \in Webhooks, p \in Requests : Deliver(h, p)
           \/ \E h \in Webhooks : HandleDelivery(h)
           \/ \E p \in Requests, outcome \in Outcomes : BankDecides(p, outcome)
           \/ \E c \in Callers, t \in DOMAIN ledger, type \in ReversalTypes : ReadRow(c, t, type)
           \/ \E c \in Callers, row \in Row : CallerPosts(c, row)
           \/ UNCHANGED vars
    PROVE  ServedInv'
<1>1. /\ TypeOK /\ PayoutExists /\ LedgerShape /\ HoldWithPayout /\ KeysHaveOwners
      /\ FollowsTheBank /\ NotYetReleased /\ AcceptedStaysHeld /\ CarriesOutcome
    BY DEF IInv, ServedInv
<1>2. keys' = keys /\ pc' = pc /\ path' = path
    BY DEF Deliver, HandleDelivery, PostRelease, MarkOutcome, BankDecides, ReadRow,
           CallerPosts, vars, requestVars
<1>3. KeysHaveOwners'
    BY <1>1, <1>2 DEF KeysHaveOwners, Exists, InProgress
<1>4. \A h \in Webhooks : hook[h].at # "idle" =>
          hook[h].payout \in Requests /\ hook[h].status \in Outcomes
    BY <1>1 DEF TypeOK, Deliveries, NoDelivery
<1>5. ASSUME NEW p \in Requests, NEW outcome \in Outcomes, BankDecides(p, outcome)
      PROVE  ServedInv'
  <2>1. /\ bank[p] = "accepted" /\ bank'[p] = outcome /\ hook' = hook /\ UNCHANGED ledger
        /\ \A q \in Requests \ {p} : bank'[q] = bank[q]
      BY <1>1, <1>5 DEF BankDecides, TypeOK
  <2>2. FollowsTheBank'
    <3> HIDE DEF BeforeHold
    <3>1. bank[p] \in AcceptedByBank /\ bank'[p] \in AcceptedByBank
        BY <2>1 DEF AcceptedByBank
    <3>2. /\ pc[p] \notin BeforeHold \cup {"bank"}
          /\ pc[p] \notin {"readHold", "reverse", "markFailed"}
        BY <1>1, <2>1 DEF FollowsTheBank
    <3> HIDE DEF AcceptedByBank
    <3> QED
        BY <1>1, <1>2, <2>1, <3>1, <3>2 DEF FollowsTheBank
  <2>3. NotYetReleased' /\ AcceptedStaysHeld'
    <3>1. outcome # "none"
        BY DEF Outcomes
    <3>2. \A q \in Requests : bank'[q] = "none" => bank[q] = "none"
        BY <2>1, <3>1
    <3>3. \A q \in Requests : bank'[q] \in {"accepted", "SETTLED"} =>
              bank[q] \in {"none", "accepted", "SETTLED"}
        BY <2>1
    <3> QED
        BY <1>1, <1>2, <2>1, <3>2, <3>3, CalmKeeps
  <2>4. CarriesOutcome'
    <3>1. \A h \in Webhooks : hook[h].at # "idle" => hook[h].payout # p
        BY <1>1, <1>4, <2>1 DEF CarriesOutcome, Outcomes
    <3> QED
        BY <1>1, <1>4, <2>1, <3>1 DEF CarriesOutcome
  <2> QED
      BY <1>3, <2>2, <2>3, <2>4 DEF ServedInv
<1>6. ASSUME bank' = bank PROVE FollowsTheBank'
    BY <1>1, <1>2, <1>6 DEF FollowsTheBank
<1>7. ASSUME bank' = bank, UNCHANGED ledger PROVE NotYetReleased' /\ AcceptedStaysHeld'
  <2>1. \A q \in Requests : bank'[q] \in {"accepted", "SETTLED"} =>
            bank[q] \in {"none", "accepted", "SETTLED"}
      BY <1>7
  <2> QED
      BY <1>1, <1>2, <1>7, <2>1, CalmKeeps
<1>8. ASSUME NEW h \in Webhooks, NEW p \in Requests, Deliver(h, p) PROVE ServedInv'
  <2>1. bank' = bank /\ UNCHANGED ledger
      BY <1>8 DEF Deliver
  <2>2. PICK label : hook' = [hook EXCEPT ![h] = [at |-> label, payout |-> p, status |-> bank[p]]]
      BY <1>8 DEF Deliver, Delivery
  <2>3. CarriesOutcome'
      BY <1>1, <2>1, <2>2 DEF CarriesOutcome, TypeOK
  <2> QED
      BY <1>3, <1>6, <1>7, <2>1, <2>3 DEF ServedInv
<1>9. ASSUME NEW h \in Webhooks, Underway(h), NEW label \in {"mark", "done"}, bank' = bank,
             hook' = [hook EXCEPT ![h].at = label]
      PROVE  CarriesOutcome'
  <2>1. hook[h].at # "idle"
      BY <1>9 DEF Underway
  <2>2. \A g \in Webhooks : hook'[g].payout = hook[g].payout /\ hook'[g].status = hook[g].status
    <3>1. hook[h] \in [at : {"post", "mark", "done"}, payout : Requests, status : Outcomes]
        BY <1>1, <2>1 DEF TypeOK, Deliveries, NoDelivery
    <3> QED
        BY <1>1, <1>9, <3>1 DEF TypeOK
  <2>3. \A g \in Webhooks \ {h} : hook'[g] = hook[g]
      BY <1>1, <1>9 DEF TypeOK
  <2> QED
      BY <1>1, <1>9, <2>1, <2>2, <2>3 DEF CarriesOutcome
<1>10. ASSUME NEW h \in Webhooks, MarkOutcome(h) PROVE ServedInv'
  <2>1. bank' = bank /\ UNCHANGED ledger /\ Underway(h) /\ hook' = [hook EXCEPT ![h].at = "done"]
      BY <1>10 DEF MarkOutcome, Underway
  <2> QED
      BY <1>3, <1>6, <1>7, <1>9, <2>1 DEF ServedInv
<1>11. ASSUME NEW h \in Webhooks, PostRelease(h) PROVE ServedInv'
  <2>1. /\ bank' = bank /\ Underway(h) /\ hook' = [hook EXCEPT ![h].at = "mark"]
        /\ hook[h].at # "idle"
      BY <1>11 DEF PostRelease, Underway
  <2>2. PICK p : p = hook[h].payout
      OBVIOUS
  <2>3. PICK row : row = ReleaseRow(p, hook[h].status)
      OBVIOUS
  <2>4. p \in Requests /\ bank[p] = hook[h].status /\ bank[p] \in Outcomes
      BY <1>1, <1>4, <2>1, <2>2 DEF CarriesOutcome
  <2>5. ledger' = Append(ledger, row)
      BY <1>11, <2>2, <2>3 DEF PostRelease
  <2>6. row \in Row /\ row.referenceId = p /\ (bank[p] = "SETTLED" => row.type # "ADJUSTMENT")
    <3>1. /\ SettleRow(p).type = "PAYOUT_SETTLED" /\ SettleRow(p).referenceId = p
          /\ ReturnRow(p).referenceId = p
        BY DEF SettleRow, ReturnRow, Transaction
    <3>2. row = IF bank[p] = "SETTLED" THEN SettleRow(p) ELSE ReturnRow(p)
        BY <2>3, <2>4 DEF ReleaseRow
    <3> QED
        BY <2>4, <3>1, <3>2, RowTypes
  <2>7. bank[p] # "none" /\ bank[p] # "accepted" /\ pc'[p] \notin {"readHold", "reverse"}
      BY <1>1, <1>2, <2>4 DEF Outcomes, FollowsTheBank
  <2>8. NotYetReleased' /\ AcceptedStaysHeld'
      BY <1>1, <1>2, <2>1, <2>5, <2>6, <2>7, RowKeeps
  <2>9. CarriesOutcome'
      BY <1>9, <2>1
  <2> QED
      BY <1>3, <1>6, <2>1, <2>8, <2>9 DEF ServedInv
<1>12. ASSUME NEW c \in Callers, NEW row \in Row, CallerPosts(c, row) PROVE ServedInv'
  <2>1. ledger' = Append(ledger, row) /\ bank' = bank /\ hook' = hook
      BY <1>12 DEF CallerPosts
  <2>2. row.referenceId \notin Requests
      BY <1>12, NameAssumption DEF CallerPosts
  <2>3. NotYetReleased' /\ AcceptedStaysHeld'
      BY <1>1, <1>2, <2>1, <2>2, RowKeeps
  <2>4. CarriesOutcome'
      BY <1>1, <2>1 DEF CarriesOutcome
  <2> QED
      BY <1>3, <1>6, <2>1, <2>3, <2>4 DEF ServedInv
<1>13. ASSUME \/ \E c \in Callers, t \in DOMAIN ledger, type \in ReversalTypes : ReadRow(c, t, type)
              \/ UNCHANGED vars
       PROVE  ServedInv'
  <2>1. bank' = bank /\ UNCHANGED ledger /\ hook' = hook
      BY <1>13 DEF ReadRow, vars
  <2>2. CarriesOutcome'
      BY <1>1, <2>1 DEF CarriesOutcome
  <2> QED
      BY <1>3, <1>6, <1>7, <2>1, <2>2 DEF ServedInv
<1> QED
    BY <1>5, <1>8, <1>10, <1>11, <1>12, <1>13 DEF HandleDelivery

LEMMA ServedInductive ==
    ASSUME ~KeysExpire, Manual = {}
    PROVE  Spec => [](Undisturbed => ServedInv)
<1>1. Init => ServedInv
  <2> SUFFICES ASSUME Init PROVE ServedInv
      OBVIOUS
  <2>1. \A p \in Requests : Releases(p) = {}
      BY NameAssumption, OpeningAssumption DEF Init, Releases, PostedFor, NotOfPayouts
  <2>2. keys = [k \in Keys |-> NoRow]
      BY DEF Init, KeysInit
  <2>3. KeysHaveOwners
      BY <2>2 DEF Init, KeysHaveOwners, Exists, InProgress, Active
  <2>4. FollowsTheBank
      BY DEF Init, FollowsTheBank, AcceptedByBank, Outcomes
  <2>5. CarriesOutcome
      BY DEF Init, CarriesOutcome, NoDelivery
  <2> QED
      BY <2>1, <2>3, <2>4, <2>5 DEF ServedInv, NotYetReleased, AcceptedStaysHeld
<1>2. IInv /\ (Undisturbed => ServedInv) /\ [Next]_vars => (Undisturbed => ServedInv)'
  <2> SUFFICES ASSUME IInv, Undisturbed => ServedInv, [Next]_vars, Undisturbed'
               PROVE  ServedInv'
      OBVIOUS
  <2>1. TypeOK /\ PayoutExists /\ LedgerShape /\ HoldWithPayout /\ CallsInOrder
      BY DEF IInv
  <2>2. Undisturbed
      BY <2>1, CalmStep
  <2>3. /\ ServedInv /\ KeysHaveOwners /\ FollowsTheBank /\ NotYetReleased
      BY <2>2 DEF ServedInv
  <2>4. ASSUME NEW r \in Requests, RequestStep(r) PROVE ServedInv'
    <3>1. KeysHaveOwners'
        BY <2>1, <2>3, <2>4, OwnersStep
    <3>2. FollowsTheBank'
        BY <2>1, <2>3, <2>4, FollowsStep
    <3>3. NotYetReleased' /\ AcceptedStaysHeld' /\ CarriesOutcome'
        BY <2>3, <2>4, RequestServed
    <3> QED
        BY <3>1, <3>2, <3>3 DEF ServedInv
  <2> QED
      BY <2>1, <2>3, <2>4, CalmStep, WorldServed
<1> QED
    BY <1>1, <1>2, Inductive, PTL DEF Spec

\* Nobody takes back the hold of a transfer that the bank has accepted or paid out.
THEOREM AcceptedIsHeld ==
    ASSUME ~KeysExpire, Manual = {}
    PROVE  Spec => [](Undisturbed => AcceptedStaysHeld)
<1>1. ServedInv => AcceptedStaysHeld
    BY DEF ServedInv
<1> QED
    BY <1>1, ServedInductive, PTL

\* However the retries of an order interleave, the bank accepts one transfer for them.
THEOREM OneTransferPerOrder ==
    ASSUME ~KeysExpire, Manual = {}
    PROVE  Spec => [](Undisturbed => OneAcceptedPerKey)
<1>1. ServedInv => OneAcceptedPerKey
  <2> SUFFICES ASSUME ServedInv, NEW q \in Requests, NEW r \in Requests, q # r,
                      KeyOf[q] = KeyOf[r],
                      bank[q] \in AcceptedByBank, bank[r] \in AcceptedByBank
               PROVE  FALSE
      BY DEF OneAcceptedPerKey, AcceptedByBank
  <2>1. \A p \in Requests : bank[p] \in AcceptedByBank =>
            \/ pc[p] \in Active /\ keys[KeyOf[p]].response = NoResponse
            \/ keys[KeyOf[p]].response = p
    <3> SUFFICES ASSUME NEW p \in Requests, bank[p] \in AcceptedByBank
                 PROVE  \/ pc[p] \in Active /\ keys[KeyOf[p]].response = NoResponse
                        \/ keys[KeyOf[p]].response = p
        OBVIOUS
    <3>1. \/ pc[p] \in {"markSubmitted", "complete"}
          \/ keys[KeyOf[p]] = [response |-> p, expired |-> FALSE]
        BY DEF ServedInv, FollowsTheBank
    <3>2. pc[p] \in {"markSubmitted", "complete"} =>
              pc[p] \in Active /\ keys[KeyOf[p]].response = NoResponse
        BY DEF ServedInv, KeysHaveOwners, InProgress, Active
    <3> QED
        BY <3>1, <3>2
  <2>2. ~(pc[q] \in Active /\ pc[r] \in Active)
      BY DEF ServedInv, KeysHaveOwners
  <2> QED
      BY <2>1, <2>2, NameAssumption
<1> QED
    BY <1>1, ServedInductive, PTL

\* A key that is in progress has a request that will give it back or complete it.
THEOREM NoKeyIsLost ==
    ASSUME ~KeysExpire, Manual = {}
    PROVE  Spec => [](Undisturbed => KeysAreGivenBack)
<1>1. ServedInv => KeysAreGivenBack
  <2> SUFFICES ASSUME ServedInv, NEW k \in Keys, InProgress(k)
               PROVE  \E r \in Requests : KeyOf[r] = k /\ ~Ended(r)
      BY DEF KeysAreGivenBack
  <2>1. PICK r \in Requests : KeyOf[r] = k /\ pc[r] \in Active
      BY DEF ServedInv, KeysHaveOwners
  <2> QED
      BY <2>1 DEF Ended, Active
<1> QED
    BY <1>1, ServedInductive, PTL

-----------------------------------------------------------------------------
(***************************************************************************)
(* The refinement: without failures, expired keys, overlapping deliveries  *)
(* and other calls, the payouts are PayoutPromise                          *)
(***************************************************************************)

\* Deliveries stay, and the money and the status of the payouts too.
LEMMA ByOneQuiet ==
    ASSUME OneDelivery, ReleasedByOne, NotYetReleased, UNCHANGED <<hook, payouts, ledger>>,
           \A p \in Requests : pc'[p] = "markSubmitted" =>
               pc[p] = "markSubmitted" \/ bank[p] = "none",
           \A p \in Requests : pc'[p] \in AfterHold \ {"complete"} =>
               pc[p] \in AfterHold \ {"complete"}
    PROVE  OneDelivery' /\ ReleasedByOne'
<1>1. \A p : Releases(p)' = Releases(p)
    BY DEF Releases, Holds, PostedFor
<1>2. \A h : Underway(h)' = Underway(h)
    BY DEF Underway
<1>3. OneDelivery'
    BY <1>2 DEF OneDelivery
<1> HIDE DEF AfterHold
<1>4. ReleasedByOne'
    BY <1>1, <1>2 DEF ReleasedByOne, NotYetReleased
<1> QED
    BY <1>3, <1>4

\* A request changes its own payout while no delivery for it is underway.
LEMMA ByOneOwn ==
    ASSUME OneDelivery, ReleasedByOne, TypeOK, hook' = hook, NEW r \in Requests,
           \A h \in Webhooks : Underway(h) => hook[h].payout # r,
           \A q \in Requests \ {r} : payouts'[q] = payouts[q] /\ pc'[q] = pc[q]
                                     /\ Releases(q)' = Releases(q),
           pc'[r] = "markSubmitted" \/ payouts'[r] = "SUBMITTED" => Releases(r)' = {},
           pc'[r] \in AfterHold \ {"complete"} => payouts'[r] # "SUBMITTED"
    PROVE  OneDelivery' /\ ReleasedByOne'
<1>1. \A h : Underway(h)' = Underway(h)
    BY DEF Underway
<1>2. \A h \in Webhooks : hook[h].at # "idle" => hook[h].payout \in Requests
    BY DEF TypeOK, Deliveries, NoDelivery
<1>3. \A h \in Webhooks : Underway(h) => hook[h].payout \in Requests \ {r}
    BY <1>2 DEF Underway
<1>4. OneDelivery'
    BY <1>1, <1>3 DEF OneDelivery
<1> HIDE DEF AfterHold
<1>5. ASSUME NEW h \in Webhooks, hook[h].at = "post" PROVE Releases(hook[h].payout)' = {}
  <2>1. hook[h].payout \in Requests \ {r}
      BY <1>3, <1>5 DEF Underway
  <2> QED
      BY <1>5, <2>1 DEF ReleasedByOne
<1>6. ASSUME NEW p \in Requests,
             \/ pc'[p] = "markSubmitted"
             \/ /\ payouts'[p] = "SUBMITTED"
                /\ ~\E h \in Webhooks : Underway(h)' /\ hook[h].payout = p
      PROVE  Releases(p)' = {}
  <2>1. CASE p = r
      BY <1>6, <2>1
  <2>2. CASE p # r
      BY <1>1, <1>6, <2>2 DEF ReleasedByOne
  <2> QED
      BY <2>1, <2>2
<1>7. ASSUME NEW p \in Requests, pc'[p] \in AfterHold \ {"complete"}
      PROVE  payouts'[p] # "SUBMITTED"
  <2>1. CASE p = r
      BY <1>7, <2>1
  <2>2. CASE p # r
      BY <1>7, <2>2 DEF ReleasedByOne
  <2> QED
      BY <2>1, <2>2
<1>8. ReleasedByOne'
    BY <1>5, <1>6, <1>7 DEF ReleasedByOne
<1> QED
    BY <1>4, <1>8

LEMMA RequestByOne ==
    ASSUME IInv, ServedInv, OneDelivery, ReleasedByOne, NEW r \in Requests, RequestStep(r)
    PROVE  OneDelivery' /\ ReleasedByOne'
<1>1. /\ TypeOK /\ PayoutExists /\ LedgerShape /\ HoldWithPayout /\ KeysHaveOwners
      /\ FollowsTheBank /\ NotYetReleased /\ AcceptedStaysHeld /\ CarriesOutcome
    BY DEF IInv, ServedInv
<1>2. ASSUME bank[r] \notin Outcomes \/ payouts[r] # "SUBMITTED"
      PROVE  \A h \in Webhooks : Underway(h) => hook[h].payout # r
  <2>1. \A h \in Webhooks : Underway(h) => hook[h].status \in Outcomes /\ hook[h].at # "idle"
      BY <1>1 DEF TypeOK, Deliveries, NoDelivery, Underway
  <2> QED
      BY <1>1, <1>2, <2>1 DEF CarriesOutcome, OneDelivery
<1>3. ASSUME UNCHANGED ledger PROVE \A p : Releases(p)' = Releases(p)
    BY <1>3 DEF Releases, Holds, PostedFor
<1>4. ASSUME CommitHold(r) PROVE OneDelivery' /\ ReleasedByOne'
  <2> DEFINE row == HoldRow(r)
  <2>1. /\ row \in Row /\ row.type = "PAYOUT_INITIATED" /\ ledger' = Append(ledger, row)
        /\ hook' = hook /\ pc[r] = "hold" /\ pc'[r] = "bank" /\ payouts'[r] = "PROCESSING"
        /\ \A q \in Requests \ {r} : pc'[q] = pc[q] /\ payouts'[q] = payouts[q]
      BY <1>1, <1>4, RowTypes DEF CommitHold, HoldRow, Transaction, TypeOK, Goto
  <2> HIDE DEF row
  <2>2. \A p : Releases(p)' = Releases(p)
      BY <1>1, <2>1, ReleasesAfter
  <2>3. payouts[r] # "SUBMITTED"
      BY <1>1, <2>1 DEF PayoutExists, BeforeHold
  <2>4. \A h \in Webhooks : Underway(h) => hook[h].payout # r
      BY <1>2, <2>3
  <2> QED
      BY <1>1, <2>1, <2>2, <2>4, ByOneOwn
<1>5. ASSUME MarkSubmitted(r) PROVE OneDelivery' /\ ReleasedByOne'
  <2>1. /\ UNCHANGED ledger /\ hook' = hook /\ pc[r] = "markSubmitted" /\ pc'[r] = "complete"
        /\ \A q \in Requests \ {r} : pc'[q] = pc[q] /\ payouts'[q] = payouts[q]
      BY <1>1, <1>5 DEF MarkSubmitted, TypeOK, Goto
  <2>2. payouts[r] # "SUBMITTED" /\ Releases(r) = {}
      BY <2>1 DEF ReleasedByOne, AfterHold
  <2>3. \A h \in Webhooks : Underway(h) => hook[h].payout # r
      BY <1>2, <2>2
  <2> QED
      BY <1>1, <1>3, <2>1, <2>2, <2>3, ByOneOwn
<1>6. ASSUME MarkFailed(r) PROVE OneDelivery' /\ ReleasedByOne'
  <2>1. /\ UNCHANGED ledger /\ hook' = hook /\ payouts'[r] = "FAILED"
        /\ pc[r] = "markFailed" /\ pc'[r] = "removeKey"
        /\ \A q \in Requests \ {r} : pc'[q] = pc[q] /\ payouts'[q] = payouts[q]
      BY <1>1, <1>6 DEF MarkFailed, TypeOK, Goto, FollowsTheBank
  <2>2. bank[r] \notin Outcomes
      BY <1>1, <2>1 DEF FollowsTheBank, Outcomes
  <2>3. \A h \in Webhooks : Underway(h) => hook[h].payout # r
      BY <1>2, <2>2
  <2> QED
      BY <1>1, <1>3, <2>1, <2>3, ByOneOwn
<1>7. ASSUME ReverseHold(r) PROVE OneDelivery' /\ ReleasedByOne'
  <2> DEFINE row == ReversalOf(ledger, HoldOf(r), "ADJUSTMENT")
  <2>1. /\ pc[r] = "reverse" /\ ledger' = Append(ledger, row) /\ hook' = hook
        /\ payouts' = payouts /\ pc'[r] = "markFailed"
        /\ \A q \in Requests \ {r} : pc'[q] = pc[q]
      BY <1>1, <1>7 DEF ReverseHold, Goto, TypeOK
  <2>2. /\ bank[r] \notin Outcomes /\ payouts[r] # "none" /\ payouts[r] # "SUBMITTED"
      <3>1. bank[r] = "rejected" /\ payouts[r] # "none"
          BY <1>1, <2>1 DEF FollowsTheBank, PayoutExists, AfterHold
      <3>2. payouts[r] # "SUBMITTED"
          BY <2>1 DEF ReleasedByOne, AfterHold
      <3> QED
          BY <3>1, <3>2 DEF Outcomes
  <2>3. row \in Row /\ row.referenceId = r
      BY <1>1, <2>2, UndoRow
  <2> HIDE DEF row
  <2>4. \A q \in Requests \ {r} : Releases(q)' = Releases(q)
      BY <1>1, <2>1, <2>3, ReleasesAfter
  <2>5. \A h \in Webhooks : Underway(h) => hook[h].payout # r
      BY <1>2, <2>2
  <2> QED
      BY <1>1, <2>1, <2>2, <2>4, <2>5, ByOneOwn
<1>8. ASSUME ~CommitHold(r), ~MarkSubmitted(r), ~MarkFailed(r), ~ReverseHold(r)
      PROVE  OneDelivery' /\ ReleasedByOne'
  <2>1. UNCHANGED <<hook, payouts, ledger>>
      BY <1>8
         DEF RequestStep, CheckKey, FindKey, ReserveKey, DropKey, HoldMoney, LockPayable,
             ReadBalance, FollowBank, SubmitToBank, CompleteKey, UndoHold, ReadHold, RemoveKey
  <2>2. \A q \in Requests \ {r} : pc'[q] = pc[q]
      BY <1>1, <1>8
         DEF RequestStep, CheckKey, FindKey, ReserveKey, DropKey, HoldMoney, LockPayable,
             ReadBalance, FollowBank, SubmitToBank, CompleteKey, UndoHold, ReadHold, RemoveKey,
             Goto, TypeOK
  <2>3. pc'[r] = "markSubmitted" => bank[r] = "none"
    <3>1. CASE SubmitToBank(r)
        BY <1>1, <3>1 DEF SubmitToBank, FollowsTheBank
    <3>2. CASE ~SubmitToBank(r)
      <4>1. pc'[r] # "markSubmitted"
          BY <1>1, <1>8, <3>2
             DEF RequestStep, CheckKey, FindKey, ReserveKey, DropKey, HoldMoney, LockPayable,
                 ReadBalance, FollowBank, CompleteKey, UndoHold, ReadHold, RemoveKey, Goto, TypeOK
      <4> QED
          BY <4>1
    <3> QED
        BY <3>1, <3>2
  <2>4. pc'[r] \in AfterHold \ {"complete"} => pc[r] \in AfterHold \ {"complete"}
    <3>1. CASE SubmitToBank(r) \/ ReadHold(r)
        BY <3>1 DEF SubmitToBank, ReadHold, AfterHold
    <3>2. CASE CompleteKey(r)
      <4>1. InProgress(KeyOf[r])
          BY <1>1, <3>2 DEF CompleteKey, KeysHaveOwners, Active
      <4>2. pc'[r] = "returned"
          BY <1>1, <3>2, <4>1 DEF CompleteKey, InProgress, Goto, TypeOK
      <4> QED
          BY <4>2 DEF AfterHold
    <3>3. ASSUME CheckKey(r) \/ HoldMoney(r) \/ RemoveKey(r)
          PROVE  pc'[r] \notin AfterHold
        BY <1>1, <1>8, <3>3
           DEF CheckKey, FindKey, ReserveKey, DropKey, HoldMoney, LockPayable, ReadBalance,
               RemoveKey, Goto, TypeOK, AfterHold
    <3> QED
        BY <1>8, <3>1, <3>2, <3>3 DEF RequestStep, FollowBank, UndoHold
  <2> QED
      BY <1>1, <2>1, <2>2, <2>3, <2>4, ByOneQuiet
<1> QED
    BY <1>4, <1>5, <1>6, <1>7, <1>8

LEMMA WorldByOne ==
    ASSUME IInv, ServedInv, OneDelivery, ReleasedByOne, SerialDelivery,
           \/ \E h \in Webhooks, p \in Requests : Deliver(h, p)
           \/ \E h \in Webhooks : HandleDelivery(h)
           \/ \E p \in Requests, outcome \in Outcomes : BankDecides(p, outcome)
           \/ UNCHANGED vars
    PROVE  OneDelivery' /\ ReleasedByOne'
<1>1. /\ TypeOK /\ PayoutExists /\ LedgerShape /\ HoldWithPayout /\ KeysHaveOwners
      /\ FollowsTheBank /\ NotYetReleased /\ AcceptedStaysHeld /\ CarriesOutcome
    BY DEF IInv, ServedInv
<1>2. pc' = pc
    BY DEF Deliver, HandleDelivery, PostRelease, MarkOutcome, BankDecides, vars, requestVars
<1>3. ASSUME UNCHANGED ledger PROVE \A p : Releases(p)' = Releases(p)
    BY <1>3 DEF Releases, Holds, PostedFor
<1>4. \A h \in Webhooks : Underway(h) =>
          hook[h].payout \in Requests /\ hook[h].status \in Outcomes /\ hook[h].at # "idle"
    BY <1>1 DEF TypeOK, Deliveries, NoDelivery, Underway
<1>5. ASSUME UNCHANGED <<hook, payouts, ledger>> PROVE OneDelivery' /\ ReleasedByOne'
    BY <1>1, <1>2, <1>5, ByOneQuiet
<1>6. ASSUME NEW h \in Webhooks, NEW p \in Requests, Deliver(h, p)
      PROVE  OneDelivery' /\ ReleasedByOne'
  <2> DEFINE label == IF payouts[p] = "SUBMITTED" THEN "post" ELSE "done"
  <2>1. /\ hook'[h].at = label /\ hook'[h].payout = p /\ hook[h].at = "idle"
        /\ \A g \in Webhooks \ {h} : hook'[g] = hook[g]
        /\ payouts' = payouts /\ UNCHANGED ledger
        /\ \A g \in Webhooks : Underway(g) => hook[g].payout # p
      BY <1>1, <1>6 DEF Deliver, Delivery, TypeOK
  <2>2. /\ \A g \in Webhooks \ {h} : Underway(g)' <=> Underway(g)
        /\ Underway(h)' <=> payouts[p] = "SUBMITTED"
        /\ ~Underway(h)
      BY <2>1 DEF Underway
  <2>3. OneDelivery'
    <3>1. \A g \in Webhooks \ {h} : Underway(g)' => hook'[g].payout # p
        BY <2>1, <2>2
    <3>2. ASSUME NEW g \in Webhooks, NEW k \in Webhooks, Underway(g)', Underway(k)',
                 hook'[g].payout = hook'[k].payout
          PROVE  g = k
      <4>1. CASE g = h \/ k = h
          BY <2>1, <3>1, <3>2, <4>1
      <4>2. CASE g # h /\ k # h
          BY <2>1, <2>2, <3>2, <4>2 DEF OneDelivery
      <4> QED
          BY <4>1, <4>2
    <3>3. ASSUME NEW g \in Webhooks, Underway(g)' PROVE payouts'[hook'[g].payout] = "SUBMITTED"
      <4>1. CASE g = h
          BY <2>1, <2>2, <3>3, <4>1
      <4>2. CASE g # h
          BY <2>1, <2>2, <3>3, <4>2 DEF OneDelivery
      <4> QED
          BY <4>1, <4>2
    <3> QED
        BY <3>2, <3>3 DEF OneDelivery
  <2>4. ReleasedByOne'
    <3>1. ASSUME NEW g \in Webhooks, hook'[g].at = "post" PROVE Releases(hook'[g].payout) = {}
      <4>1. CASE g = h
        <5>1. payouts[p] = "SUBMITTED"
            BY <2>1, <3>1, <4>1
        <5>2. Releases(p) = {}
            BY <2>1, <5>1 DEF ReleasedByOne
        <5> QED
            BY <2>1, <4>1, <5>2
      <4>2. CASE g # h
          BY <2>1, <3>1, <4>2 DEF ReleasedByOne
      <4> QED
          BY <4>1, <4>2
    <3>2. ASSUME NEW q \in Requests, payouts[q] = "SUBMITTED",
                 ~\E g \in Webhooks : Underway(g)' /\ hook'[g].payout = q
          PROVE  Releases(q) = {}
      <4>1. ~\E g \in Webhooks : Underway(g) /\ hook[g].payout = q
          BY <2>1, <2>2, <3>2
      <4> QED
          BY <3>2, <4>1 DEF ReleasedByOne
    <3> HIDE DEF AfterHold
    <3> QED
        BY <1>2, <1>3, <2>1, <3>1, <3>2 DEF ReleasedByOne
  <2> QED
      BY <2>3, <2>4
<1>7. ASSUME NEW h \in Webhooks, MarkOutcome(h) PROVE OneDelivery' /\ ReleasedByOne'
  <2>1. PICK p : p = hook[h].payout
      OBVIOUS
  <2>2. /\ p \in Requests /\ Underway(h) /\ payouts'[p] # "SUBMITTED" /\ UNCHANGED ledger
        /\ \A q \in Requests \ {p} : payouts'[q] = payouts[q]
    <3>1. Underway(h) /\ UNCHANGED ledger /\ payouts' = [payouts EXCEPT ![p] = hook[h].status]
        BY <1>7, <2>1 DEF MarkOutcome, Underway
    <3>2. hook[h].status # "SUBMITTED" /\ p \in Requests
        BY <1>4, <2>1, <3>1 DEF Outcomes
    <3> QED
        BY <1>1, <3>1, <3>2 DEF TypeOK
  <2>3. /\ hook'[h].at = "done" /\ \A g \in Webhooks \ {h} : hook'[g] = hook[g]
      BY <1>1, <1>7 DEF MarkOutcome, TypeOK
  <2>4. /\ ~Underway(h)' /\ \A g \in Webhooks \ {h} : Underway(g)' <=> Underway(g)
      BY <2>3 DEF Underway
  <2>5. \A g \in Webhooks \ {h} : Underway(g) => hook[g].payout \in Requests \ {p}
      BY <1>4, <2>1, <2>2 DEF OneDelivery
  <2>6. OneDelivery'
    <3>1. ASSUME NEW g \in Webhooks, NEW k \in Webhooks, Underway(g)', Underway(k)',
                 hook'[g].payout = hook'[k].payout
          PROVE  g = k
        BY <2>3, <2>4, <3>1 DEF OneDelivery
    <3>2. ASSUME NEW g \in Webhooks, Underway(g)' PROVE payouts'[hook'[g].payout] = "SUBMITTED"
        BY <2>2, <2>3, <2>4, <2>5, <3>2 DEF OneDelivery
    <3> QED
        BY <3>1, <3>2 DEF OneDelivery
  <2>7. ReleasedByOne'
    <3>1. ASSUME NEW g \in Webhooks, hook'[g].at = "post" PROVE Releases(hook'[g].payout) = {}
        BY <2>3, <3>1 DEF ReleasedByOne
    <3>2. ASSUME NEW q \in Requests, payouts'[q] = "SUBMITTED",
                 ~\E g \in Webhooks : Underway(g)' /\ hook'[g].payout = q
          PROVE  Releases(q) = {}
      <4>1. q # p /\ payouts[q] = "SUBMITTED"
          BY <2>2, <3>2
      <4>2. ~\E g \in Webhooks : Underway(g) /\ hook[g].payout = q
          BY <2>1, <2>3, <2>4, <3>2, <4>1
      <4> QED
          BY <4>1, <4>2 DEF ReleasedByOne
    <3>3. ASSUME NEW q \in Requests, pc[q] \in AfterHold \ {"complete"}
          PROVE  payouts'[q] # "SUBMITTED"
        BY <2>2, <3>3 DEF ReleasedByOne
    <3> HIDE DEF AfterHold
    <3> QED
        BY <1>2, <1>3, <2>2, <3>1, <3>2, <3>3 DEF ReleasedByOne
  <2> QED
      BY <2>6, <2>7
<1>8. ASSUME NEW h \in Webhooks, PostRelease(h) PROVE OneDelivery' /\ ReleasedByOne'
  <2>1. PICK p : p = hook[h].payout
      OBVIOUS
  <2>2. PICK row : row = ReleaseRow(p, hook[h].status)
      OBVIOUS
  <2>3. /\ p \in Requests /\ Underway(h) /\ payouts' = payouts /\ ledger' = Append(ledger, row)
      BY <1>4, <1>8, <2>1, <2>2 DEF PostRelease, Underway
  <2>4. row \in Row /\ row.referenceId = p
    <3>1. SettleRow(p).referenceId = p /\ ReturnRow(p).referenceId = p
        BY DEF SettleRow, ReturnRow, Transaction
    <3> QED
        BY <2>2, <2>3, <3>1, RowTypes DEF ReleaseRow
  <2>5. \A q \in Requests \ {p} : Releases(q)' = Releases(q)
      BY <1>1, <2>3, <2>4, ReleasesAfter
  <2>6. /\ hook'[h].at = "mark" /\ hook'[h].payout = p
        /\ \A g \in Webhooks \ {h} : hook'[g] = hook[g]
    <3>1. hook' = [hook EXCEPT ![h].at = "mark"]
        BY <1>8 DEF PostRelease
    <3>2. hook[h] \in [at : {"post", "mark", "done"}, payout : Requests, status : Outcomes]
        BY <1>1, <2>3 DEF TypeOK, Deliveries, NoDelivery, Underway
    <3> QED
        BY <1>1, <2>1, <3>1, <3>2 DEF TypeOK
  <2>7. \A g \in Webhooks : Underway(g)' <=> Underway(g)
      BY <2>3, <2>6 DEF Underway
  <2>8. \A g \in Webhooks : hook'[g].payout = hook[g].payout
      BY <2>1, <2>6
  <2>9. OneDelivery'
      BY <2>3, <2>7, <2>8 DEF OneDelivery
  <2>10. payouts[p] = "SUBMITTED" /\ pc[p] \notin AfterHold \ {"complete"}
      BY <2>1, <2>3 DEF OneDelivery, ReleasedByOne
  <2>11. ReleasedByOne'
    <3>1. ASSUME NEW g \in Webhooks, hook'[g].at = "post" PROVE Releases(hook[g].payout)' = {}
      <4>1. g # h /\ hook[g].at = "post" /\ Underway(g)
          BY <2>6, <3>1 DEF Underway
      <4>2. hook[g].payout \in Requests \ {p}
          BY <1>4, <2>1, <2>3, <4>1 DEF OneDelivery
      <4>3. hook'[g].payout = hook[g].payout
          BY <2>8
      <4>4. Releases(hook[g].payout) = {}
          BY <4>1 DEF ReleasedByOne
      <4>5. PICK q : q = hook[g].payout
          OBVIOUS
      <4>6. Releases(q)' = {} /\ q = hook'[g].payout
          BY <2>5, <4>2, <4>3, <4>4, <4>5
      <4> QED
          BY <4>6 DEF Releases, Holds, PostedFor
    <3>2. ASSUME NEW q \in Requests,
                 \/ pc[q] = "markSubmitted"
                 \/ /\ payouts[q] = "SUBMITTED"
                    /\ ~\E g \in Webhooks : Underway(g)' /\ hook'[g].payout = q
          PROVE  Releases(q)' = {}
      <4>1. q # p
          BY <2>1, <2>3, <2>7, <2>8, <2>10, <3>2 DEF AfterHold
      <4>2. Releases(q) = {}
          BY <2>7, <2>8, <3>2 DEF ReleasedByOne
      <4> QED
          BY <2>5, <4>1, <4>2
    <3> HIDE DEF AfterHold
    <3> QED
        BY <1>2, <2>3, <3>1, <3>2 DEF ReleasedByOne
  <2> QED
      BY <2>9, <2>11
<1>9. ASSUME NEW p \in Requests, NEW outcome \in Outcomes, BankDecides(p, outcome)
      PROVE  OneDelivery' /\ ReleasedByOne'
    BY <1>5, <1>9 DEF BankDecides
<1>10. CASE UNCHANGED vars
    BY <1>5, <1>10 DEF vars
<1> QED
    BY <1>6, <1>7, <1>8, <1>9, <1>10 DEF HandleDelivery

\* Where the money of the payouts is after one more row, and what the wallets have.
LEMMA StageAfter ==
    ASSUME TypeOK, NEW row \in Row, ledger' = Append(ledger, row)
    PROVE  /\ \A q : q # row.referenceId => StageOf(q)' = StageOf(q)
           /\ Releases(row.referenceId) = {} =>
                 StageOf(row.referenceId)' =
                     IF row.type = "PAYOUT_INITIATED" THEN "held"
                     ELSE IF row.type = "PAYOUT_SETTLED" THEN "paid" ELSE "returned"
<1> DEFINE n == Len(ledger)
<1>1. /\ n \in Nat /\ DOMAIN ledger = 1..n /\ ledger'[n + 1] = row
      /\ \A t \in 1..n : ledger'[t] = ledger[t]
      /\ \A q : Holds(q)' = IF row.referenceId = q /\ row.type = "PAYOUT_INITIATED"
                              THEN Holds(q) \cup {n + 1} ELSE Holds(q)
    BY PostedRow
<1>2. \A q : Releases(q)' = IF row.referenceId = q /\ row.type # "PAYOUT_INITIATED"
                              THEN Releases(q) \cup {n + 1} ELSE Releases(q)
    BY ReleasesAfter
<1>3. \A q : Releases(q) \subseteq 1..n
    BY <1>1 DEF Releases, PostedFor
<1> HIDE DEF n
<1>4. \A q : StageOf(q)' =
          IF \E t \in Releases(q)' : ledger'[t].type = "PAYOUT_SETTLED" THEN "paid"
          ELSE IF Releases(q)' # {} THEN "returned"
          ELSE IF Holds(q)' # {} THEN "held" ELSE "none"
    BY DEF StageOf
<1>5. ASSUME NEW q, q # row.referenceId PROVE StageOf(q)' = StageOf(q)
  <2>1. Releases(q)' = Releases(q) /\ Holds(q)' = Holds(q)
      BY <1>1, <1>2, <1>5
  <2>2. \A t \in Releases(q) : ledger'[t] = ledger[t]
      BY <1>1, <1>3
  <2> QED
      BY <1>4, <2>1, <2>2 DEF StageOf
<1>6. ASSUME NEW q, q = row.referenceId, Releases(q) = {}
      PROVE  StageOf(q)' = IF row.type = "PAYOUT_INITIATED" THEN "held"
                           ELSE IF row.type = "PAYOUT_SETTLED" THEN "paid" ELSE "returned"
  <2>1. /\ Releases(q)' = IF row.type # "PAYOUT_INITIATED" THEN {n + 1} ELSE {}
        /\ row.type = "PAYOUT_INITIATED" => Holds(q)' # {}
      BY <1>1, <1>2, <1>6
  <2> QED
      BY <1>1, <1>4, <2>1
<1> QED
    BY <1>5, <1>6

LEMMA FundsAfter ==
    ASSUME TypeOK, NoDebt, NEW row \in Row, ledger' = Append(ledger, row), NEW p \in Requests,
           NEW d \in Int, \A w : NetOn(row, Payable(w)) = IF w = WalletOf[p] THEN d ELSE 0
    PROVE  /\ [w \in Wallets |-> -Balance(ledger', Payable(w))] =
                 [[w \in Wallets |-> -Balance(ledger, Payable(w))]
                     EXCEPT ![WalletOf[p]] = @ - d]
           /\ d <= -Balance(ledger, Payable(WalletOf[p])) => NoDebt'
<1> DEFINE b == [w \in Wallets |-> Balance(ledger, Payable(w))]
           c == [w \in Wallets |-> Balance(ledger', Payable(w))]
<1>1. \A w \in Wallets : b[w] \in Int /\ c[w] = b[w] + NetOn(row, Payable(w))
    BY BalanceAfter
<1>2. \A w \in Wallets : c[w] = IF w = WalletOf[p] THEN b[w] + d ELSE b[w]
    BY <1>1
<1>3. \A w \in Wallets : b[w] <= 0
    BY DEF NoDebt
<1>4. WalletOf[p] \in Wallets
    BY OrderAssumption
<1>5. /\ \A w \in Wallets : b[w] = Balance(ledger, Payable(w))
      /\ \A w \in Wallets : c[w] = Balance(ledger', Payable(w))
    OBVIOUS
<1> HIDE DEF b, c
<1>6. [w \in Wallets |-> -c[w]] = [[w \in Wallets |-> -b[w]] EXCEPT ![WalletOf[p]] = @ - d]
  <2>1. -(b[WalletOf[p]] + d) = -b[WalletOf[p]] - d
      BY <1>1, <1>4
  <2> QED
      BY <1>2, <1>4, <2>1
<1>7. d <= -b[WalletOf[p]] => \A w \in Wallets : c[w] <= 0
    BY <1>1, <1>2, <1>3, <1>4
<1> QED
    BY <1>4, <1>5, <1>6, <1>7 DEF NoDebt

\* A row for one payout that is held, or has nothing yet, is one step of the promise.
LEMMA PromiseMove ==
    ASSUME TypeOK, NoDebt, NEW row \in Row, ledger' = Append(ledger, row),
           NEW p \in Requests, row.referenceId = p, Releases(p) = {},
           \/ /\ row.type = "PAYOUT_INITIATED" /\ Holds(p) = {}
              /\ AmountOf[p] <= -Balance(ledger, Payable(WalletOf[p]))
              /\ \A w : NetOn(row, Payable(w)) = IF w = WalletOf[p] THEN AmountOf[p] ELSE 0
           \/ /\ row.type = "PAYOUT_SETTLED" /\ Holds(p) # {}
              /\ \A w : NetOn(row, Payable(w)) = 0
           \/ /\ row.type = "ADJUSTMENT" /\ Holds(p) # {}
              /\ \A w : NetOn(row, Payable(w)) = IF w = WalletOf[p] THEN 0 - AmountOf[p] ELSE 0
    PROVE  NoDebt' /\ Promise!Next
<1> DEFINE funds == [w \in Wallets |-> -Balance(ledger, Payable(w))]
           after == [w \in Wallets |-> -Balance(ledger', Payable(w))]
           stages == [q \in Requests |-> StageOf(q)]
           then == [q \in Requests |-> StageOf(q)']
           goal == IF row.type = "PAYOUT_INITIATED" THEN "held"
                   ELSE IF row.type = "PAYOUT_SETTLED" THEN "paid" ELSE "returned"
<1>1. then = [stages EXCEPT ![p] = goal]
  <2>1. (\A q : q # p => StageOf(q)' = StageOf(q)) /\ StageOf(p)' = goal
      BY StageAfter
  <2> QED
      BY <2>1
<1>2. stages[p] = IF Holds(p) # {} THEN "held" ELSE "none"
    BY DEF StageOf
<1>3. funds[WalletOf[p]] = -Balance(ledger, Payable(WalletOf[p])) /\ WalletOf[p] \in Wallets
      /\ AmountOf[p] \in Nat /\ Balance(ledger, Payable(WalletOf[p])) \in Int
      /\ Balance(ledger, Payable(WalletOf[p])) <= 0 /\ funds[WalletOf[p]] \in Nat
  <2>1. /\ WalletOf[p] \in Wallets /\ AmountOf[p] \in Nat
        /\ Balance(ledger, Payable(WalletOf[p])) \in Int
      BY OrderAssumption, BalanceAfter
  <2>2. Balance(ledger, Payable(WalletOf[p])) <= 0
      BY <2>1 DEF NoDebt
  <2> QED
      BY <2>1, <2>2
<1>4. CASE row.type = "PAYOUT_INITIATED"
  <2>1. NoDebt' /\ after = [funds EXCEPT ![WalletOf[p]] = @ - AmountOf[p]]
    <3>1. PICK d : d = AmountOf[p]
        OBVIOUS
    <3>2. /\ d \in Int /\ d <= -Balance(ledger, Payable(WalletOf[p]))
          /\ \A w : NetOn(row, Payable(w)) = IF w = WalletOf[p] THEN d ELSE 0
        BY <1>3, <1>4, <3>1
    <3>3. NoDebt' /\ after = [funds EXCEPT ![WalletOf[p]] = @ - d]
        BY <3>2, FundsAfter
    <3> QED
        BY <3>1, <3>3
  <2>2. /\ stages[p] = "none" /\ AmountOf[p] <= funds[WalletOf[p]]
        /\ then = [stages EXCEPT ![p] = "held"]
      BY <1>1, <1>2, <1>3, <1>4
  <2> QED
      BY <2>1, <2>2 DEF Promise!Next, Promise!Hold
<1>5. CASE row.type = "PAYOUT_SETTLED"
  <2>1. NoDebt' /\ after = [funds EXCEPT ![WalletOf[p]] = @ - 0]
    <3>1. PICK d : d = 0
        OBVIOUS
    <3>2. /\ d \in Int /\ d <= -Balance(ledger, Payable(WalletOf[p]))
          /\ \A w : NetOn(row, Payable(w)) = IF w = WalletOf[p] THEN d ELSE 0
        BY <1>3, <1>5, <3>1
    <3>3. NoDebt' /\ after = [funds EXCEPT ![WalletOf[p]] = @ - d]
        BY <3>2, FundsAfter
    <3> QED
        BY <3>1, <3>3
  <2>2. after = funds
      BY <1>3, <2>1
  <2>3. stages[p] = "held" /\ then = [stages EXCEPT ![p] = "paid"]
      BY <1>1, <1>2, <1>5
  <2> QED
      BY <2>1, <2>2, <2>3 DEF Promise!Next, Promise!Pay
<1>6. CASE row.type = "ADJUSTMENT"
  <2>1. NoDebt' /\ after = [funds EXCEPT ![WalletOf[p]] = @ - (0 - AmountOf[p])]
    <3>1. 0 - AmountOf[p] \in Int /\ 0 - AmountOf[p] <= -Balance(ledger, Payable(WalletOf[p]))
        BY <1>3
    <3> QED
        BY <1>6, <3>1, FundsAfter
  <2>2. after = [funds EXCEPT ![WalletOf[p]] = @ + AmountOf[p]]
    <3>1. funds[WalletOf[p]] - (0 - AmountOf[p]) = funds[WalletOf[p]] + AmountOf[p]
        BY <1>3
    <3> HIDE DEF after, funds
    <3> QED
        BY <2>1, <3>1
  <2>3. stages[p] = "held" /\ then = [stages EXCEPT ![p] = "returned"]
      BY <1>1, <1>2, <1>6
  <2> QED
      BY <2>1, <2>2, <2>3 DEF Promise!Next, Promise!Return
<1> QED
    BY <1>4, <1>5, <1>6

\* Every step keeps the promise's invariant and is a step of the promise, or changes nothing
\* that the promise speaks of.
LEMMA PromiseStep ==
    ASSUME IInv, FundsInv, ServedInv, PromiseInv, [Next]_vars, Undisturbed',
           ~KeysExpire, SerialDelivery, Callers = {}
    PROVE  PromiseInv' /\ (Promise!Next \/ UNCHANGED ledger)
<1>1. /\ TypeOK /\ PayoutExists /\ LedgerShape /\ HoldWithPayout
      /\ FollowsTheBank /\ NotYetReleased /\ CarriesOutcome
      /\ OneDelivery /\ ReleasedByOne /\ NoDebt
    BY DEF IInv, ServedInv, PromiseInv
<1>2. OneDelivery' /\ ReleasedByOne'
    BY <1>1, CalmStep, RequestByOne, WorldByOne DEF IInv
<1>3. ASSUME UNCHANGED ledger PROVE NoDebt'
    BY <1>1, <1>3 DEF NoDebt
<1>4. ASSUME NEW p \in Requests, CommitHold(p) PROVE NoDebt' /\ Promise!Next
  <2>1. PICK row : row = HoldRow(p)
      OBVIOUS
  <2>2. /\ row \in Row /\ row.referenceId = p /\ row.type = "PAYOUT_INITIATED"
        /\ ledger' = Append(ledger, row) /\ pc[p] = "hold"
      BY <1>4, <2>1, RowTypes DEF CommitHold, HoldRow, Transaction
  <2>3. bank[p] = "none" /\ payouts[p] = "none"
      BY <1>1, <2>2 DEF FollowsTheBank, PayoutExists, BeforeHold
  <2>4. Releases(p) = {} /\ Holds(p) = {}
      BY <1>1, <2>3 DEF NotYetReleased, HoldWithPayout
  <2>5. AmountOf[p] <= -Balance(ledger, Payable(WalletOf[p]))
    <3>1. AmountOf[p] <= Available(WalletOf[p])
        BY <2>2 DEF FundsInv, StillCovered
    <3>2. /\ WalletOf[p] \in Wallets /\ Balance(ledger, Payable(WalletOf[p])) \in Int
          /\ AmountOf[p] \in Nat
        BY <1>1, <2>2, BalanceAfter, OrderAssumption
    <3>3. Balance(ledger, Payable(WalletOf[p])) <= 0
        BY <1>1, <3>2 DEF NoDebt
    <3> QED
        BY <3>1, <3>2, <3>3 DEF Available
  <2>6. \A w : NetOn(row, Payable(w)) = IF w = WalletOf[p] THEN AmountOf[p] ELSE 0
      BY <2>1, PayoutNets
  <2> QED
      BY <1>1, <2>2, <2>4, <2>5, <2>6, PromiseMove
<1>5. ASSUME NEW r \in Requests, ReverseHold(r) PROVE NoDebt' /\ Promise!Next
  <2>1. PICK row : row = ReversalOf(ledger, HoldOf(r), "ADJUSTMENT")
      OBVIOUS
  <2>2. ledger' = Append(ledger, row) /\ pc[r] = "reverse"
      BY <1>5, <2>1 DEF ReverseHold
  <2>3. payouts[r] # "none" /\ Releases(r) = {}
      BY <1>1, <2>2 DEF PayoutExists, AfterHold, NotYetReleased
  <2>4. Holds(r) # {}
      BY <1>1, <2>3 DEF HoldWithPayout
  <2>5. row \in Row /\ row.referenceId = r /\ row.type = "ADJUSTMENT"
      BY <1>1, <2>1, <2>3, UndoRow
  <2>6. \A w : NetOn(row, Payable(w)) = IF w = WalletOf[r] THEN 0 - AmountOf[r] ELSE 0
      BY <1>1, <2>1, <2>3, UndoNet
  <2> QED
      BY <1>1, <2>2, <2>3, <2>4, <2>5, <2>6, PromiseMove
<1>6. ASSUME NEW h \in Webhooks, PostRelease(h) PROVE NoDebt' /\ Promise!Next
  <2>1. PICK p : p = hook[h].payout
      OBVIOUS
  <2>2. PICK row : row = ReleaseRow(p, hook[h].status)
      OBVIOUS
  <2>3. ledger' = Append(ledger, row) /\ hook[h].at = "post" /\ Underway(h)
      BY <1>6, <2>1, <2>2 DEF PostRelease, Underway
  <2>4. p \in Requests
      BY <1>1, <2>1, <2>3 DEF TypeOK, Deliveries, NoDelivery
  <2>5. Releases(p) = {} /\ payouts[p] = "SUBMITTED"
      BY <1>1, <2>1, <2>3 DEF ReleasedByOne, OneDelivery
  <2>6. Holds(p) # {}
      BY <1>1, <2>4, <2>5 DEF HoldWithPayout
  <2>7. CASE hook[h].status = "SETTLED"
    <3>1. row = SettleRow(p)
        BY <2>2, <2>7 DEF ReleaseRow
    <3>2. row \in Row /\ row.referenceId = p /\ row.type = "PAYOUT_SETTLED"
        BY <2>4, <3>1, RowTypes DEF SettleRow, Transaction
    <3>3. \A w : NetOn(row, Payable(w)) = 0
        BY <2>4, <3>1, PayoutNets
    <3> QED
        BY <1>1, <2>3, <2>4, <2>5, <2>6, <3>2, <3>3, PromiseMove
  <2>8. CASE hook[h].status # "SETTLED"
    <3>1. row = ReturnRow(p)
        BY <2>2, <2>8 DEF ReleaseRow
    <3>2. row \in Row /\ row.referenceId = p /\ row.type = "ADJUSTMENT"
        BY <2>4, <3>1, RowTypes DEF ReturnRow, Transaction
    <3>3. \A w : NetOn(row, Payable(w)) = IF w = WalletOf[p] THEN 0 - AmountOf[p] ELSE 0
        BY <2>4, <3>1, PayoutNets
    <3> QED
        BY <1>1, <2>3, <2>4, <2>5, <2>6, <3>2, <3>3, PromiseMove
  <2> QED
      BY <2>7, <2>8
<1>7. \/ UNCHANGED ledger
      \/ \E p \in Requests : CommitHold(p) \/ ReverseHold(p)
      \/ \E h \in Webhooks : PostRelease(h)
  <2>1. QuietMove => UNCHANGED ledger
      BY DEF QuietMove
  <2> QED
      BY <2>1, QuietStep
<1>8. NoDebt' /\ (Promise!Next \/ UNCHANGED ledger)
    BY <1>3, <1>4, <1>5, <1>6, <1>7
<1> QED
    BY <1>2, <1>8 DEF PromiseInv

\* Without the bound on failures there are none.
LEMMA NothingFails ==
    ASSUME MaxFailures = 0
    PROVE  Spec => []Undisturbed
<1>1. Init => Undisturbed
    BY DEF Init, Undisturbed
<1>2. Undisturbed /\ [Next]_vars => Undisturbed'
  <2> SUFFICES ASSUME Undisturbed, [Next]_vars PROVE Undisturbed'
      OBVIOUS
  <2>1. ~CanFail
      BY DEF CanFail, Undisturbed
  <2>2. ASSUME NEW r \in Requests, RequestStep(r) PROVE Undisturbed'
      BY <2>2
         DEF RequestStep, CheckKey, FindKey, ReserveKey, DropKey, HoldMoney, LockPayable,
             ReadBalance, CommitHold, FollowBank, SubmitToBank, MarkSubmitted, CompleteKey,
             UndoHold, ReadHold, ReverseHold, MarkFailed, RemoveKey, Undisturbed
  <2>3. ASSUME NEW r \in Requests, StepFails(r) PROVE FALSE
      BY <2>1, <2>3 DEF StepFails, TransactionFails, CaughtFailure, UncaughtFailure
  <2>4. ASSUME NEW h \in Webhooks,
               \/ HandleDelivery(h) \/ DeliveryFails(h) \/ \E p \in Requests : Deliver(h, p)
        PROVE  Undisturbed'
      BY <2>1, <2>4
         DEF HandleDelivery, PostRelease, MarkOutcome, DeliveryFails, Deliver, Undisturbed
  <2>5. ASSUME \/ \E p \in Requests, outcome \in Outcomes : BankDecides(p, outcome)
               \/ \E c \in Callers : CallerStep(c)
               \/ \E k \in Keys : KeyExpires(k)
               \/ Crash
               \/ UNCHANGED vars
        PROVE  Undisturbed'
      BY <2>1, <2>5
         DEF BankDecides, CallerStep, PostDraft, ReadRow, PostReversal, ReversalFails, KeyExpires,
             Crash, vars, Undisturbed
  <2> QED
      BY <2>2, <2>3, <2>4, <2>5 DEF Next
<1> QED
    BY <1>1, <1>2, PTL DEF Spec

\* The payout flow implements its promise: the money of a payout is taken from the wallet
\* once, when there is enough of it, and leaves the platform or comes back, once.
THEOREM PromiseIsKept ==
    ASSUME MaxFailures = 0, ~KeysExpire, SerialDelivery, Callers = {},
           \A w \in Wallets : Balance(Opening, Payable(w)) <= 0
    PROVE  Spec => KeepsPromise
<1>1. Init => /\ PromiseInv /\ FundsInv /\ Promise!Init
  <2> SUFFICES ASSUME Init PROVE PromiseInv /\ FundsInv /\ Promise!Init
      OBVIOUS
  <2>1. \A p \in Requests : Releases(p) = {} /\ Holds(p) = {}
      BY NameAssumption, OpeningAssumption DEF Init, Releases, Holds, PostedFor, NotOfPayouts
  <2>2. \A h \in Webhooks : ~Underway(h) /\ hook[h].at # "post"
      BY DEF Init, Underway, NoDelivery
  <2>3. OneDelivery /\ ReleasedByOne
      BY <2>1, <2>2 DEF Init, OneDelivery, ReleasedByOne, AfterHold
  <2>4. ledger = Opening /\ Opening \in Seq(Row)
      BY OpeningAssumption DEF Init
  <2>5. NoDebt
      BY <2>4 DEF NoDebt
  <2>6. \A w \in Wallets : ~(Balance(ledger, Payable(w)) > 0)
    <3> SUFFICES ASSUME NEW w \in Wallets PROVE ~(Balance(ledger, Payable(w)) > 0)
        OBVIOUS
    <3>1. \A r \in Row : r.status = "POSTED" /\ NetOn(r, Payable(w)) \in Int
        BY RowNet
    <3>2. Balance(Opening, Payable(w)) \in Int
        BY <2>4, <3>1, BalanceType
    <3> QED
        BY <2>4, <3>2
  <2>7. FundsInv
      BY <2>1, <2>6 DEF Init, FundsInv, HoldsAreCovered, StillCovered, DebitHasACause
  <2>8. \A p \in Requests : StageOf(p) = "none"
      BY <2>1 DEF StageOf
  <2>9. Promise!Init
      BY <2>4, <2>8 DEF Promise!Init
  <2> QED
      BY <2>3, <2>5, <2>7, <2>9 DEF PromiseInv
<1>2. IInv /\ FundsInv /\ ServedInv /\ PromiseInv /\ Undisturbed' /\ [Next]_vars => PromiseInv'
    BY PromiseStep
<1>3. IInv /\ FundsInv /\ ServedInv /\ PromiseInv /\ Undisturbed' /\ [Next]_vars
        => [Promise!Next]_<<[w \in Wallets |-> -Balance(ledger, Payable(w))],
                            [p \in Requests |-> StageOf(p)]>>
  <2> SUFFICES ASSUME IInv, FundsInv, ServedInv, PromiseInv, Undisturbed', [Next]_vars,
                      UNCHANGED ledger
               PROVE  UNCHANGED <<[w \in Wallets |-> -Balance(ledger, Payable(w))],
                                  [p \in Requests |-> StageOf(p)]>>
      BY PromiseStep
  <2>1. \A p : StageOf(p)' = StageOf(p)
      BY DEF StageOf, Releases, Holds, PostedFor
  <2> QED
      BY <2>1
<1>4. Manual = {}
    BY CallerAssumption
<1> QED
    BY <1>1, <1>2, <1>3, <1>4, FundsStep, Inductive, ServedInductive, NothingFails, PTL
       DEF Spec, KeepsPromise, Promise!Spec

=============================================================================
